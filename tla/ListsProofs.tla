----------------------------- MODULE ListsProofs -----------------------------
(***************************************************************************)
(* Proofs that a mail that was finished with has each recipient in the     *)
(* list of what it was answered, without pooling and as long as no socket  *)
(* times out that is not deaf.  (A pooled socket may bring its next mail a *)
(* reply to the last one.)                                                 *)
(*                                                                         *)
(* The invariant says where a conversation is: its lists hold the          *)
(* recipients whose replies were read (Covers), in the order asked for,    *)
(* and the reply that is awaited is the one to the last command (Expects), *)
(* unless that command is still to be written (ToSend) or the conversation *)
(* is about to be closed (CloseComes).  What is on a socket that nobody    *)
(* was lent yet is its greeting at most (Blank).                           *)
(***************************************************************************)
EXTENDS DeliveryProofs

Words == {"2", "3", "4", "5", "odd", "251", "none"}

\* Three lists without repetition of what is in S.
Split(a, b, e, S) ==
    /\ a \in Seq(Nat) /\ b \in Seq(Nat) /\ e \in Seq(Nat)
    /\ \A q \in {a, b, e} : \A i, j \in DOMAIN q : q[i] = q[j] => i = j
    /\ Range(a) \cap Range(b) = {} /\ Range(a) \cap Range(e) = {} /\ Range(b) \cap Range(e) = {}
    /\ Range(a) \cup Range(b) \cup Range(e) = S

\* Those of the first n recipients that w says were answered x; not 251.
Sort(w, n, x) == {r \in 1 .. n : w[r] = x}
Sorts(w, n)   == {r \in 1 .. n : w[r] # "251"}

\* The lists of c hold the first n recipients, as w says they were answered.
Lists(c, w, n) ==
    /\ Split(c.ok, c.fail, c.bounce, Sorts(w, n))
    /\ ~cfg.lmtp => /\ Range(c.ok) = Sort(w, n, "2")
                    /\ Range(c.fail) = Sort(w, n, "4")
                    /\ Range(c.bounce) = Sort(w, n, "5")

Covers(m, n) == Lists(conv[m], said[m], n)

\* A conversation before its first recipient, at the k-th, and after the last.
Begun(m)        == conv[m].recip_index = 0 /\ Covers(m, 0) /\ said[m] = Unsaid(m)
Asking(m, s, k) == /\ conv[m].recip_index = k /\ k \in Rcpt(m) /\ Covers(m, k - 1)
                   /\ \A r \in Rcpt(m) : r > k => said[m][r] = "none"
                   /\ srv[s].from # None /\ ~srv[s].data
Asked(m)        == Covers(m, Rcpts[m]) /\ conv[m].ok # <<>>

\* cmd is the next command, and nothing of earlier ones is under way.
ToSend(m, s, cmd) ==
    /\ line[s] = <<>> /\ <<m, s>> \notin streams
    /\ cmd \in {"EHLO", "LHLO", "HELO", "MAIL", "RCPT", "DATA", "DOT"}
    /\ cmd \in {"EHLO", "LHLO", "HELO", "MAIL"} => Begun(m) /\ srv[s] = NoServer
    /\ cmd = "RCPT" => /\ Asking(m, s, conv[m].recip_index)
                       /\ said[m][conv[m].recip_index] = "none"
    /\ cmd \in {"DATA", "DOT"} => Asked(m)

\* The reply that is awaited is the one to the last command.
Expects(m, s) ==
    LET cmd == conv[m].command
    IN  /\ cmd \in {"connect", "EHLO", "LHLO", "HELO", "MAIL", "RCPT", "DATA", "DOT"}
        /\ cmd # "DOT" => Len(line[s]) =< 1
        /\ cmd # "connect" => \A i \in DOMAIN line[s] : line[s][i] \in Replies(cmd)
        /\ cmd \in {"connect", "EHLO", "LHLO", "HELO"} => Begun(m) /\ srv[s] = NoServer
        /\ cmd = "MAIL" => Begun(m) /\ ~srv[s].data /\ (line[s] = <<"2">> => srv[s].from # None)
        /\ cmd = "RCPT" => /\ Asking(m, s, conv[m].recip_index)
                           /\ line[s] # <<>> => said[m][conv[m].recip_index] = Head(line[s])
        /\ cmd \in {"DATA", "DOT"} => Asked(m)
        /\ <<m, s>> \in streams => cmd = "DATA" /\ line[s] = <<>>

IsSend(t) == t.do = "send_command"
HasSend(s) == \E t \in Pending : IsSend(t) /\ t.sock = s
CloseComes(m, s) == \E t \in Pending : Closes(t) /\ t.mail = m /\ t.sock = s

SyncAt(m, s) ==
    /\ ~conv[m].fp_called
    /\ CloseComes(m, s) => <<m, s>> \notin streams
    /\ \/ CloseComes(m, s)
       \/ \E cmd \in Commands : agenda = <<Send(m, s, cmd)>> /\ ToSend(m, s, cmd)
       \/ ~HasSend(s) /\ Expects(m, s)
Sync == \A m \in Mail, s \in Socket : Talks(m, s) => SyncAt(m, s)

\* A mail that is finished with has all its recipients in the lists.
Ends == \A t \in Pending : /\ t.do = "finish_processing_mail" => Covers(t.mail, Rcpts[t.mail])
                           /\ t.do = "decide" => t.arg \in {"temp_fail", "bounce"}

\* A command is for the mail the socket was lent to; after the end of a
\* conversation it is RSET.
SendOK(t) == /\ t.arg \in Commands
             /\ sk[t.sock].st = "up" => sk[t.sock].mail = t.mail
             /\ t.arg # "RSET" /\ ~Talks(t.mail, t.sock) => sk[t.sock].st # "up"
             /\ Talks(t.mail, t.sock) => (t.arg = "RSET" <=> CloseComes(t.mail, t.sock))
Sends == \A t \in Pending : IsSend(t) => SendOK(t)

Streams == \A st \in streams : /\ sk[st[2]].st = "up" => Talks(st[1], st[2])
                               /\ \A n \in Mail : Talks(n, st[2]) => n = st[1]

\* A socket nobody was lent yet.
Blank(s) == ~HasSend(s) /\ srv[s] = NoServer /\ Len(line[s]) =< 1 /\ \A st \in streams : st[2] # s
ToLend(s) == agenda # <<>> /\ Top.do = "try_deliver_host_on_socket" /\ Top.sock = s
Fresh(s) == /\ ~sk[s].fromPool
            /\ sk[s].st = "connecting" \/ Pooled(s) \/ ToLend(s) => Blank(s)
AllFresh == \A s \in Socket : Fresh(s)

Told == \A m \in Mail : Finished(m) => Covers(m, Rcpts[m])

Remote == [from : Mail \cup {None}, to : Seq(Nat), data : BOOLEAN]
Shapes == /\ DOMAIN said = Mail /\ \A m \in Mail : said[m] \in [Rcpt(m) -> Words]
          /\ srv \in [Socket -> Remote]
          /\ line \in [Socket -> Seq(Words)]

Listed == Shapes /\ Sync /\ Ends /\ Sends /\ Streams /\ AllFresh /\ Told

------------------------------------------------------------------------------
(* The lists. *)

LEMMA RangeAppend ==
    ASSUME NEW q \in Seq(Nat), NEW x \in Nat
    PROVE  /\ Append(q, x) \in Seq(Nat)
           /\ Range(Append(q, x)) = Range(q) \cup {x}
           /\ x \notin Range(q) /\ (\A i, j \in DOMAIN q : q[i] = q[j] => i = j)
              => \A i, j \in DOMAIN Append(q, x) : Append(q, x)[i] = Append(q, x)[j] => i = j
<1> DEFINE a == Append(q, x)
<1>1. /\ a \in Seq(Nat) /\ Len(a) = Len(q) + 1 /\ Len(q) \in Nat
      /\ DOMAIN a = 1 .. Len(q) + 1 /\ DOMAIN q = 1 .. Len(q)
      /\ \A i \in DOMAIN q : a[i] = q[i]
      /\ a[Len(q) + 1] = x
  OBVIOUS
<1> HIDE DEF a
<1>2. \A i \in DOMAIN a : i \in DOMAIN q \/ i = Len(q) + 1
  BY <1>1
<1>3. \A i \in DOMAIN q : i \in DOMAIN a
  BY <1>1
<1>4. Len(q) + 1 \in DOMAIN a
  BY <1>1
<1>5. Range(a) = Range(q) \cup {x}
  BY <1>1, <1>2, <1>3, <1>4 DEF Range
<1>6. ASSUME x \notin Range(q), \A i, j \in DOMAIN q : q[i] = q[j] => i = j,
             NEW i \in DOMAIN a, NEW j \in DOMAIN a, a[i] = a[j]
      PROVE  i = j
  BY <1>1, <1>2, <1>6 DEF Range
<1> QED BY <1>1, <1>5, <1>6 DEF a

LEMMA RangeTail ==
    ASSUME NEW q \in Seq(Nat), q # <<>>, \A i, j \in DOMAIN q : q[i] = q[j] => i = j
    PROVE  /\ Tail(q) \in Seq(Nat) /\ Head(q) \in Nat /\ Head(q) \in Range(q)
           /\ Range(Tail(q)) = Range(q) \ {Head(q)}
           /\ \A i, j \in DOMAIN Tail(q) : Tail(q)[i] = Tail(q)[j] => i = j
<1> DEFINE a == Tail(q)
<1>1. Len(q) \in Nat \ {0} /\ DOMAIN q = 1 .. Len(q) /\ Head(q) = q[1]
  OBVIOUS
<1>2. a \in Seq(Nat) /\ Len(a) = Len(q) - 1
  OBVIOUS
<1>3. DOMAIN a = 1 .. Len(q) - 1
  BY <1>2
<1>4. \A i \in 1 .. Len(q) - 1 : a[i] = q[i + 1]
  BY <1>1
<1>5. 1 \in DOMAIN q /\ q[1] \in Nat
  BY <1>1
<1> HIDE DEF a
<1>6. \A i \in DOMAIN a : i + 1 \in DOMAIN q /\ i + 1 # 1 /\ a[i] = q[i + 1]
  BY <1>1, <1>3, <1>4
<1>7. \A i \in DOMAIN q : i # 1 => \E j \in DOMAIN a : i = j + 1
  <2> SUFFICES ASSUME NEW i \in DOMAIN q, i # 1 PROVE \E j \in DOMAIN a : i = j + 1
    OBVIOUS
  <2>1. i - 1 \in DOMAIN a /\ i = (i - 1) + 1
    BY <1>1, <1>3
  <2> QED BY <2>1
<1>8. Range(a) = Range(q) \ {Head(q)}
  BY <1>1, <1>5, <1>6, <1>7 DEF Range
<1>9. ASSUME NEW i \in DOMAIN a, NEW j \in DOMAIN a, a[i] = a[j] PROVE i = j
  <2>1. i + 1 = j + 1
    BY <1>6, <1>9
  <2> QED BY <1>1, <1>3, <2>1
<1>10. Head(q) \in Range(q)
  BY <1>1, <1>5 DEF Range
<1> QED BY <1>1, <1>2, <1>5, <1>8, <1>9, <1>10 DEF a

LEMMA SplitTurns ==
    ASSUME NEW a, NEW b, NEW e, NEW S, Split(a, b, e, S)
    PROVE  Split(b, a, e, S) /\ Split(e, b, a, S)
  BY DEF Split

LEMMA SplitAdds ==
    ASSUME NEW a, NEW b, NEW e, NEW S, Split(a, b, e, S), NEW x \in Nat, x \notin S
    PROVE  Split(Append(a, x), b, e, S \cup {x}) /\ Range(Append(a, x)) = Range(a) \cup {x}
<1>1. a \in Seq(Nat) /\ x \notin Range(a) /\ \A i, j \in DOMAIN a : a[i] = a[j] => i = j
  BY DEF Split
<1> DEFINE d == Append(a, x)
<1>2. d \in Seq(Nat) /\ Range(d) = Range(a) \cup {x} /\ \A i, j \in DOMAIN d : d[i] = d[j] => i = j
  BY <1>1, RangeAppend
<1> HIDE DEF d
<1>3. Split(d, b, e, S \cup {x})
  BY <1>2 DEF Split
<1> QED BY <1>2, <1>3 DEF d

LEMMA SplitTakes ==
    ASSUME NEW a, NEW b, NEW e, NEW S, Split(a, b, e, S), a # <<>>
    PROVE  Split(Tail(a), b, e, S \ {Head(a)}) /\ Head(a) \in S /\ Head(a) \in Nat
<1>1. a \in Seq(Nat) /\ \A i, j \in DOMAIN a : a[i] = a[j] => i = j
  BY DEF Split
<1> DEFINE d == Tail(a)
           h == Head(a)
<1>2. /\ d \in Seq(Nat) /\ h \in Nat /\ h \in Range(a) /\ Range(d) = Range(a) \ {h}
      /\ \A i, j \in DOMAIN d : d[i] = d[j] => i = j
  BY <1>1, RangeTail
<1> HIDE DEF d, h
<1>3. Split(d, b, e, S \ {h}) /\ h \in S
  BY <1>2 DEF Split
<1> QED BY <1>2, <1>3 DEF d, h

LEMMA NoLists ==
    ASSUME NEW c, c.ok = <<>>, c.fail = <<>>, c.bounce = <<>>, NEW w
    PROVE  Lists(c, w, 0)
<1>1. <<>> \in Seq(Nat) /\ DOMAIN <<>> = {} /\ 1 .. 0 = {}
  OBVIOUS
<1>2. Range(<<>>) = {}
  BY <1>1 DEF Range
<1>3. Sorts(w, 0) = {} /\ \A x : Sort(w, 0, x) = {}
  BY <1>1 DEF Sorts, Sort
<1>4. Split(<<>>, <<>>, <<>>, {})
  BY <1>1, <1>2 DEF Split
<1> QED BY <1>2, <1>3, <1>4 DEF Lists

LEMMA OtherWords ==
    ASSUME NEW c, NEW w, NEW v, NEW n \in Nat, Lists(c, w, n),
           \A r \in 1 .. n : v[r] = "251" <=> w[r] = "251",
           ~cfg.lmtp => \A r \in 1 .. n : v[r] = w[r]
    PROVE  Lists(c, v, n)
<1>1. Sorts(v, n) = Sorts(w, n)
  BY DEF Sorts
<1>2. ~cfg.lmtp => \A x : Sort(v, n, x) = Sort(w, n, x)
  BY DEF Sort
<1> QED BY <1>1, <1>2 DEF Lists

LEMMA SortMore ==
    ASSUME NEW w, NEW k \in Nat \ {0}
    PROVE  /\ k \in Nat /\ k \notin Sorts(w, k - 1)
           /\ Sorts(w, k) = IF w[k] # "251" THEN Sorts(w, k - 1) \cup {k} ELSE Sorts(w, k - 1)
           /\ \A x : Sort(w, k, x) = IF w[k] = x THEN Sort(w, k - 1, x) \cup {k} ELSE Sort(w, k - 1, x)
<1>1. \A r \in 1 .. k - 1 : r \in 1 .. k /\ r # k
  OBVIOUS
<1>2. k \in 1 .. k /\ \A r \in 1 .. k : r = k \/ r \in 1 .. k - 1
  OBVIOUS
<1>3. \A x : Sort(w, k, x) = IF w[k] = x THEN Sort(w, k - 1, x) \cup {k} ELSE Sort(w, k - 1, x)
  BY <1>1, <1>2 DEF Sort
<1>4. Sorts(w, k) = IF w[k] # "251" THEN Sorts(w, k - 1) \cup {k} ELSE Sorts(w, k - 1)
  BY <1>1, <1>2 DEF Sorts
<1>5. k \notin Sorts(w, k - 1)
  BY <1>1 DEF Sorts
<1> QED BY <1>3, <1>4, <1>5

\* The k-th recipient goes where its word says.
LEMMA SortLists ==
    ASSUME NEW c, DOMAIN c = Fields, NEW w, NEW k \in Nat \ {0}, c.recip_index = k,
           Lists(c, w, k - 1), w[k] \in {"2", "251", "4", "5"}
    PROVE  Lists(Sorted(c, w[k]), w, k)
<1> DEFINE d == Sorted(c, w[k])
           S == Sorts(w, k - 1)
           T == Sorts(w, k)
<1>1. /\ Split(c.ok, c.fail, c.bounce, S) /\ k \notin S /\ k \in Nat
      /\ Split(c.fail, c.ok, c.bounce, S) /\ Split(c.bounce, c.fail, c.ok, S)
  BY SortMore, SplitTurns DEF Lists
<1>2. CASE w[k] = "2"
  <2>1. d.ok = Append(c.ok, k) /\ d.fail = c.fail /\ d.bounce = c.bounce
    BY <1>2 DEF Sorted, Fields
  <2> HIDE DEF d, S
  <2>2. Split(d.ok, d.fail, d.bounce, S \cup {k}) /\ Range(d.ok) = Range(c.ok) \cup {k}
    <3>1. Split(Append(c.ok, k), c.fail, c.bounce, S \cup {k}) /\ Range(Append(c.ok, k)) = Range(c.ok) \cup {k}
      BY <1>1, SplitAdds
    <3> QED BY <2>1, <3>1
  <2>3. T = S \cup {k}
    BY <1>2, SortMore DEF S
  <2>4. ~cfg.lmtp => /\ Range(d.ok) = Sort(w, k, "2") /\ Range(d.fail) = Sort(w, k, "4")
                     /\ Range(d.bounce) = Sort(w, k, "5")
    BY <1>2, <2>1, <2>2, SortMore DEF Lists
  <2> QED BY <2>2, <2>3, <2>4 DEF Lists, d, S
<1>3. CASE w[k] = "4"
  <2>1. d.fail = Append(c.fail, k) /\ d.ok = c.ok /\ d.bounce = c.bounce
    BY <1>3 DEF Sorted, Fields
  <2> HIDE DEF d, S
  <2>2. Split(d.fail, d.ok, d.bounce, S \cup {k}) /\ Range(d.fail) = Range(c.fail) \cup {k}
    <3>1. Split(Append(c.fail, k), c.ok, c.bounce, S \cup {k}) /\ Range(Append(c.fail, k)) = Range(c.fail) \cup {k}
      BY <1>1, SplitAdds
    <3> QED BY <2>1, <3>1
  <2>3. T = S \cup {k}
    BY <1>3, SortMore DEF S
  <2>4. ~cfg.lmtp => /\ Range(d.ok) = Sort(w, k, "2") /\ Range(d.fail) = Sort(w, k, "4")
                     /\ Range(d.bounce) = Sort(w, k, "5")
    BY <1>3, <2>1, <2>2, SortMore DEF Lists
  <2>5. Split(d.ok, d.fail, d.bounce, T)
    BY <2>2, <2>3, SplitTurns
  <2> QED BY <2>4, <2>5 DEF Lists, d
<1>4. CASE w[k] = "5"
  <2>1. d.bounce = Append(c.bounce, k) /\ d.ok = c.ok /\ d.fail = c.fail
    BY <1>4 DEF Sorted, Fields
  <2> HIDE DEF d, S
  <2>2. Split(d.bounce, d.fail, d.ok, S \cup {k}) /\ Range(d.bounce) = Range(c.bounce) \cup {k}
    <3>1. Split(Append(c.bounce, k), c.fail, c.ok, S \cup {k}) /\ Range(Append(c.bounce, k)) = Range(c.bounce) \cup {k}
      BY <1>1, SplitAdds
    <3> QED BY <2>1, <3>1
  <2>3. T = S \cup {k}
    BY <1>4, SortMore DEF S
  <2>4. ~cfg.lmtp => /\ Range(d.ok) = Sort(w, k, "2") /\ Range(d.fail) = Sort(w, k, "4")
                     /\ Range(d.bounce) = Sort(w, k, "5")
    BY <1>4, <2>1, <2>2, SortMore DEF Lists
  <2>5. Split(d.ok, d.fail, d.bounce, T)
    BY <2>2, <2>3, SplitTurns
  <2> QED BY <2>4, <2>5 DEF Lists, d
<1>5. CASE w[k] = "251"
  <2>1. d = c
    BY <1>5 DEF Sorted
  <2>2. T = S /\ Sort(w, k, "2") = Sort(w, k - 1, "2") /\ Sort(w, k, "4") = Sort(w, k - 1, "4")
        /\ Sort(w, k, "5") = Sort(w, k - 1, "5")
    BY <1>5, SortMore
  <2> QED BY <2>1, <2>2 DEF Lists
<1> QED BY <1>2, <1>3, <1>4, <1>5

\* A reply to the dot of LMTP moves a recipient from one list to another.
LEMMA ResortLists ==
    ASSUME NEW c, DOMAIN c = Fields, NEW w, NEW n, NEW code, cfg.lmtp, c.ok # <<>>, Lists(c, w, n)
    PROVE  Lists(Resorted(c, code), w, n)
<1> DEFINE d == Resorted(c, code)
           S == Sorts(w, n)
           h == Head(c.ok)
<1>1. Split(c.ok, c.fail, c.bounce, S)
  BY DEF Lists
<1>2. Split(Tail(c.ok), c.fail, c.bounce, S \ {h}) /\ h \in S /\ h \in Nat
  BY <1>1, SplitTakes
<1>3. Split(c.fail, Tail(c.ok), c.bounce, S \ {h}) /\ Split(c.bounce, c.fail, Tail(c.ok), S \ {h})
  BY <1>2, SplitTurns
<1>4. (S \ {h}) \cup {h} = S /\ h \notin S \ {h}
  BY <1>2
<1>5. SUFFICES Split(d.ok, d.fail, d.bounce, S)
  BY DEF Lists
<1> HIDE DEF h, S
<1>6. CASE code = "4"
  <2>1. d.ok = Tail(c.ok) /\ d.fail = Append(c.fail, h) /\ d.bounce = c.bounce
    BY <1>6 DEF Resorted, Fields, h
  <2> HIDE DEF d
  <2>2. Split(d.fail, d.ok, d.bounce, (S \ {h}) \cup {h})
    BY <1>2, <1>3, <1>4, <2>1, SplitAdds
  <2> QED BY <1>4, <2>2, SplitTurns
<1>7. CASE code = "5"
  <2>1. d.ok = Tail(c.ok) /\ d.bounce = Append(c.bounce, h) /\ d.fail = c.fail
    BY <1>7 DEF Resorted, Fields, h
  <2> HIDE DEF d
  <2>2. Split(d.bounce, d.fail, d.ok, (S \ {h}) \cup {h})
    BY <1>2, <1>3, <1>4, <2>1, SplitAdds
  <2> QED BY <1>4, <2>2, SplitTurns
<1>8. CASE code \notin {"4", "5"}
  <2>1. d.ok = c.ok /\ d.fail = c.fail /\ d.bounce = c.bounce
    BY <1>8 DEF Resorted, Fields
  <2> QED BY <1>1, <2>1
<1> QED BY <1>6, <1>7, <1>8

------------------------------------------------------------------------------
(* What a step leaves of them. *)

SameLists(m) == /\ conv'[m].ok = conv[m].ok /\ conv'[m].fail = conv[m].fail
                /\ conv'[m].bounce = conv[m].bounce
                /\ conv'[m].recip_index = conv[m].recip_index
                /\ said'[m] = said[m]
Going(m) == /\ SameLists(m) /\ conv'[m].command = conv[m].command
            /\ conv'[m].fp_called = conv[m].fp_called

LEMMA CoversSame ==
    ASSUME UNCHANGED cfg, NEW m \in Mail, SameLists(m), NEW n, Covers(m, n)
    PROVE  Covers(m, n)'
<1>1. cfg'.lmtp = cfg.lmtp
  OBVIOUS
<1> QED BY <1>1 DEF Covers, Lists, SameLists

LEMMA ExpectsSame ==
    ASSUME UNCHANGED cfg, NEW m \in Mail, NEW s \in Socket, Going(m), Expects(m, s),
           line'[s] = line[s], srv'[s] = srv[s], <<m, s>> \in streams' => <<m, s>> \in streams
    PROVE  Expects(m, s)'
<1>1. SameLists(m) /\ conv'[m].command = conv[m].command /\ said'[m] = said[m]
      /\ conv'[m].recip_index = conv[m].recip_index /\ conv'[m].ok = conv[m].ok
  BY DEF Going, SameLists
<1>2. Begun(m) => Begun(m)'
  BY <1>1, CoversSame DEF Begun
<1>3. \A k : Asking(m, s, k) => Asking(m, s, k)'
  <2> SUFFICES ASSUME NEW k, Asking(m, s, k) PROVE Asking(m, s, k)'
    OBVIOUS
  <2>1. Covers(m, k - 1)'
    BY <1>1, CoversSame DEF Asking
  <2> QED BY <1>1, <2>1 DEF Asking
<1>4. Asked(m) => Asked(m)'
  BY <1>1, CoversSame DEF Asked
<1> QED BY <1>1, <1>2, <1>3, <1>4 DEF Expects

\* While no command is next, who talks waits for a reply, unless it is about
\* to be stopped.
LEMMA Expecting ==
    ASSUME Types, Sync, agenda = <<>> \/ (Top.do # "send_command" /\ \A t \in Rest : ~Closes(t)),
           NEW m \in Mail, NEW s \in Socket, Talks(m, s)
    PROVE  /\ ~conv[m].fp_called
           /\ \/ agenda # <<>> /\ Closes(Top) /\ Top.mail = m /\ CloseComes(m, s) /\ <<m, s>> \notin streams
              \/ ~CloseComes(m, s) /\ ~HasSend(s) /\ Expects(m, s)
<1>1. SyncAt(m, s)
  BY DEF Sync
<1>2. ASSUME NEW cmd \in Commands, agenda = <<Send(m, s, cmd)>> PROVE FALSE
  <2>1. agenda # <<>> /\ Top = Send(m, s, cmd)
    BY <1>2 DEF Top
  <2> QED BY <2>1 DEF Send, Task
<1>3. ASSUME CloseComes(m, s) PROVE agenda # <<>> /\ Closes(Top) /\ Top.mail = m
  <2>1. PICK t \in Pending : Closes(t) /\ t.mail = m
    BY <1>3 DEF CloseComes
  <2>2. agenda # <<>>
    BY <2>1, IdleAgenda
  <2>3. Top = agenda[1]
    BY <2>2, TopTask DEF Types
  <2>4. t = Top \/ t \in Rest
    BY <2>3 DEF Pending, Rest
  <2> QED BY <2>1, <2>2, <2>4
<1> QED BY <1>1, <1>2, <1>3 DEF SyncAt

\* A step that sends nothing and reads nothing, and starts no conversation.
LEMMA Aside ==
    ASSUME Types, Listed, UNCHANGED cfg, Shapes', AllFresh',
           agenda = <<>> \/ (Top.do # "send_command" /\ \A t \in Rest : ~Closes(t)),
           \A t \in Pending' : /\ ~Closes(t)
                               /\ IsSend(t) => t \in Pending
                               /\ t.do = "decide" => t.arg \in {"temp_fail", "bounce"},
           streams' \subseteq streams,
           \A m \in Mail, s \in Socket : Talks(m, s)' =>
              /\ Talks(m, s) /\ Going(m) /\ line'[s] = line[s] /\ srv'[s] = srv[s]
              /\ agenda # <<>> /\ Closes(Top) => Top.mail # m,
           \A s \in Socket : sk'[s].st = "up" /\ (HasSend(s) \/ \E st \in streams : st[2] = s) =>
              sk[s].st = "up" /\ sk'[s].mail = sk[s].mail,
           \A st \in streams' : Talks(st[1], st[2]) /\ sk'[st[2]].st = "up" => Talks(st[1], st[2])',
           \A m \in Mail : Finished(m)' => Covers(m, Rcpts[m]) /\ SameLists(m)
    PROVE  Listed'
<1>0. Pending \subseteq Tasks /\ \A t \in Pending : IsSend(t) => t.mail \in Mail /\ t.sock \in Socket
  BY DEF Types, Pending, Tasks, IsSend, ForMail, ForSocket
<1>1. Sync'
  <2> SUFFICES ASSUME NEW m \in Mail, NEW s \in Socket, Talks(m, s)' PROVE SyncAt(m, s)'
    BY DEF Sync
  <2>1. ~conv[m].fp_called /\ ~HasSend(s) /\ Expects(m, s)
    BY Expecting DEF Listed
  <2>2. Expects(m, s)' /\ ~conv'[m].fp_called
    BY <2>1, ExpectsSame DEF Going
  <2>3. ~HasSend(s)' /\ ~CloseComes(m, s)'
    BY <2>1 DEF HasSend, CloseComes
  <2> QED BY <2>2, <2>3 DEF SyncAt
<1>2. Ends'
  BY DEF Ends, Closes
<1>3. Sends'
  <2> SUFFICES ASSUME NEW t \in Pending', IsSend(t) PROVE SendOK(t)'
    BY DEF Sends
  <2>1. t \in Pending /\ t.mail \in Mail /\ t.sock \in Socket /\ SendOK(t) /\ HasSend(t.sock)
    BY <1>0 DEF Listed, Sends, HasSend
  <2>2. sk'[t.sock].st = "up" => sk[t.sock].st = "up" /\ sk'[t.sock].mail = sk[t.sock].mail
    BY <2>1
  <2>3. ~Talks(t.mail, t.sock)'
    <3>1. ASSUME Talks(t.mail, t.sock)' PROVE FALSE
      <4>1. Talks(t.mail, t.sock) /\ (agenda # <<>> /\ Closes(Top) => Top.mail # t.mail)
        BY <2>1, <3>1
      <4> QED BY <2>1, <4>1, Expecting DEF Listed
    <3> QED BY <3>1
  <2>4. Talks(t.mail, t.sock) => t.arg = "RSET"
    BY <2>1, Expecting DEF SendOK, Listed
  <2> QED BY <2>1, <2>2, <2>3, <2>4 DEF SendOK
<1>4. Streams'
  <2> SUFFICES ASSUME NEW st \in streams'
               PROVE  /\ sk'[st[2]].st = "up" => Talks(st[1], st[2])'
                      /\ \A n \in Mail : Talks(n, st[2])' => n = st[1]
    BY DEF Streams
  <2>1. st \in streams /\ st[1] \in Mail /\ st[2] \in Socket
    BY DEF Types
  <2>2. sk'[st[2]].st = "up" => Talks(st[1], st[2])
    BY <2>1 DEF Listed, Streams
  <2>3. \A n \in Mail : Talks(n, st[2])' => n = st[1]
    BY <2>1 DEF Listed, Streams
  <2> QED BY <2>2, <2>3
<1>5. Told'
  <2> SUFFICES ASSUME NEW m \in Mail, Finished(m)' PROVE Covers(m, Rcpts[m])'
    BY DEF Told
  <2> QED BY CoversSame
<1> QED BY <1>1, <1>2, <1>3, <1>4, <1>5 DEF Listed

LEMMA NoLend ==
    ASSUME Types', \A t \in Pending' : t.do # "try_deliver_host_on_socket"
    PROVE  \A s \in Socket : ~ToLend(s)'
<1> SUFFICES ASSUME NEW s \in Socket, ToLend(s)' PROVE FALSE
  OBVIOUS
<1>1. agenda' \in Seq(Tasks) /\ agenda' # <<>> /\ Top'.do = "try_deliver_host_on_socket"
  BY DEF Types, ToLend
<1>2. Head(agenda') = agenda'[1] /\ 1 \in DOMAIN agenda'
  BY <1>1
<1> QED BY <1>1, <1>2 DEF Pending, Top

LEMMA StaysBlank ==
    ASSUME NEW s \in Socket, Blank(s), streams' \subseteq streams,
           \A t \in Pending' : IsSend(t) => t \in Pending,
           line'[s] \in {line[s], <<>>}, srv'[s] \in {srv[s], NoServer}
    PROVE  Blank(s)'
<1>1. ~HasSend(s)'
  BY DEF Blank, HasSend
<1>2. NoServer' = NoServer /\ Len(<<>>) = 0
  BY DEF NoServer
<1>3. Len(line'[s]) =< 1
  BY <1>2 DEF Blank
<1> QED BY <1>1, <1>2, <1>3 DEF Blank

LEMMA StaysFresh ==
    ASSUME NEW s \in Socket, Fresh(s), streams' \subseteq streams,
           \A t \in Pending' : IsSend(t) => t \in Pending,
           sk'[s].fromPool => sk[s].fromPool,
           sk'[s].st = "connecting" \/ Pooled(s)' \/ ToLend(s)' =>
              /\ sk[s].st = "connecting" \/ Pooled(s) \/ ToLend(s)
              /\ line'[s] \in {line[s], <<>>} /\ srv'[s] \in {srv[s], NoServer}
    PROVE  Fresh(s)'
  BY StaysBlank DEF Fresh

\* A step of the pool.
LEMMA AsidePool ==
    ASSUME Types, Listed, UNCHANGED <<cfg, conv, outcome, said, streams>>, Shapes', AllFresh',
           agenda = <<>> \/ (Top.do # "send_command" /\ ~Closes(Top) /\ \A t \in Rest : ~Closes(t)),
           \A t \in Pending' : t \in Rest \/ (~Closes(t) /\ ~IsSend(t) /\ t.do # "decide"),
           \A m \in Mail, s \in Socket : Talks(m, s) => line'[s] = line[s] /\ srv'[s] = srv[s],
           \A s \in Socket : sk'[s].st = "up" /\ (HasSend(s) \/ \E st \in streams : st[2] = s) =>
              sk[s].st = "up" /\ sk'[s].mail = sk[s].mail
    PROVE  Listed'
<1>1. Rest \subseteq Pending /\ (agenda = <<>> => Rest = {})
  <2>1. Rest \subseteq Pending
    BY DEF Rest, Pending
  <2> QED BY <2>1, IdleAgenda
<1>2. \A m \in Mail : Going(m)
  BY DEF Going, SameLists
<1>3. \A m \in Mail, s \in Socket : Talks(m, s)' <=> Talks(m, s)
  BY DEF Talks
<1>4. \A m \in Mail : Finished(m)' => Covers(m, Rcpts[m]) /\ SameLists(m)
  BY <1>2 DEF Finished, Listed, Told, Going
<1>5. \A t \in Pending' : /\ ~Closes(t)
                          /\ IsSend(t) => t \in Pending
                          /\ t.do = "decide" => t.arg \in {"temp_fail", "bounce"}
  BY <1>1 DEF Listed, Ends
<1>6. \A st \in streams' : st[1] \in Mail /\ st[2] \in Socket
  BY DEF Types
<1> QED BY <1>1, <1>2, <1>3, <1>4, <1>5, <1>6, Aside

LEMMA Grew ==
    ASSUME Types, agenda # <<>>, NEW t \in Tasks, NEW u \in Tasks, Call(<<t, u>>)
    PROVE  Pending' \subseteq Rest \cup {t, u} /\ Rest \subseteq Pending
<1>1. /\ agenda'[1] = t /\ agenda'[2] = u
      /\ \A i \in DOMAIN agenda' : i \notin {1, 2} =>
            i - 1 \in DOMAIN agenda /\ i - 1 # 1 /\ agenda'[i] = agenda[i - 1]
  BY Grows DEF Types
<1> QED BY <1>1 DEF Pending, Rest

LEMMA DispenseLists ==
    ASSUME Lent, Decided, Listed, ~cfg.pooling, PoolDispense
    PROVE  Listed'
<1>0. agenda \in Seq(Tasks) /\ agenda # <<>> /\ Top.do = "dispense" /\ Types /\ Types'
  BY DispenseTypes DEF Lent, Types, PoolDispense, Doing
<1> DEFINE p == Top.pool
           q == pool[p]
<1>1. p \in Pool /\ q \in PoolT
  BY <1>0, TopTask DEF Tasks, ForPool, Types
<1>2. UNCHANGED <<cfg, conv, outcome, said, streams>>
  BY DEF PoolDispense
<1>3. ~Closes(Top) /\ \A t \in Rest : ~Closes(t)
  BY <1>0, NoCloses DEF Closes
<1>4. Rest \subseteq Pending /\ \A t \in Rest : t.do # "try_deliver_host_on_socket"
  BY DEF Rest, Pending, Lent, OnTop
<1>5. Shapes /\ AllFresh
  BY DEF Listed
<1>6. CASE q.waiting # <<>> /\ q.idle # <<>>
  <2>0. PICK s \in Socket, m \in Mail : s = Head(q.idle) /\ m = Head(q.waiting)
    <3>1. Head(q.idle) \in Socket /\ Head(q.waiting) \in Mail
      BY <1>1, <1>6 DEF PoolT
    <3> QED BY <3>1
  <2>1. /\ UNCHANGED <<sk, line, srv>>
        /\ pool' = [pool EXCEPT ![p].idle = Tail(@), ![p].waiting = IF sk[s].st = "up" THEN Tail(@) ELSE @]
        /\ Call(IF sk[s].st = "up" THEN <<OnSocket(m, s)>> ELSE <<Destroy(s, p), Dispense(p)>>)
    BY <1>6, <2>0 DEF PoolDispense
  <2>2. pool'[p].idle = Tail(q.idle) /\ \A g \in Pool \ {p} : pool'[g].idle = pool[g].idle
    BY <1>0, <1>1, <2>1 DEF Types, PoolT
  <2>3. Pooled(s) /\ \A u \in Socket : Pooled(u)' => Pooled(u) /\ u # s
    BY <1>0, <1>1, <1>6, <2>0, <2>2, IdleLess DEF Lent
  <2>4. Shapes'
    BY <1>2, <1>5, <2>1 DEF Shapes
  <2>5. CASE sk[s].st = "up"
    <3> DEFINE t == OnSocket(m, s)
    <3>1. t \in Tasks /\ t.sock = s /\ t.do = "try_deliver_host_on_socket"
      BY TasksMade DEF OnSocket, Task
    <3>2. Call(<<t>>)
      BY <2>1, <2>5
    <3> HIDE DEF t
    <3>3. Pending' = Rest \cup {t}
      BY <1>0, <3>1, <3>2, Became
    <3>4. agenda' # <<>> /\ Top' = t
      BY <1>0, <3>2 DEF Call, Top
    <3>5. AllFresh'
      <4> SUFFICES ASSUME NEW u \in Socket PROVE Fresh(u)'
        BY DEF AllFresh
      <4>1. ToLend(u)' => u = s
        BY <3>1, <3>4 DEF ToLend
      <4> QED BY <1>2, <1>4, <1>5, <2>1, <2>3, <3>1, <3>3, <4>1, StaysFresh DEF AllFresh, IsSend
    <3> QED BY <1>0, <1>2, <1>3, <2>1, <2>4, <3>1, <3>3, <3>5, AsidePool DEF Closes, IsSend
  <2>6. CASE sk[s].st # "up"
    <3> DEFINE t == Destroy(s, p)
               u == Dispense(p)
    <3>1. t \in Tasks /\ t.do = "destroy" /\ u \in Tasks /\ u.do = "dispense"
      BY <1>1, TasksMade DEF Destroy, Dispense, Task
    <3>2. Call(<<t, u>>)
      BY <2>1, <2>6
    <3> HIDE DEF t, u
    <3>3. Pending' \subseteq Rest \cup {t, u}
      BY <1>0, <3>1, <3>2, Grew
    <3>4. \A v \in Socket : ~ToLend(v)'
      BY <1>0, <1>4, <3>1, <3>3, NoLend
    <3>5. AllFresh'
      BY <1>2, <1>4, <1>5, <2>1, <2>3, <3>1, <3>3, <3>4, StaysFresh DEF AllFresh, IsSend
    <3> QED BY <1>0, <1>2, <1>3, <2>1, <2>4, <3>1, <3>3, <3>5, AsidePool DEF Closes, IsSend
  <2> QED BY <2>5, <2>6
<1>7. CASE ~(q.waiting # <<>> /\ q.idle # <<>>)
  <2>1. Call(<<>>)
    BY <1>7 DEF PoolDispense
  <2>2. Pending' = Rest
    BY <1>0, <2>1, Popped
  <2>3. \A v \in Socket : ~ToLend(v)'
    BY <1>0, <1>4, <2>2, NoLend
  <2>4. \A v \in Socket : Pooled(v)' <=> Pooled(v)
    <3>1. UNCHANGED pool \/ pool' = [pool EXCEPT ![p].count = @ + 1]
      BY <1>7 DEF PoolDispense
    <3>2. UNCHANGED pool \/ pool' = [pool EXCEPT ![p] = [q EXCEPT !.count = q.count + 1]]
      BY <1>0, <1>1, <3>1 DEF Types
    <3>3. [q EXCEPT !.count = q.count + 1].idle = q.idle
      BY <1>1 DEF PoolT
    <3>4. \A g \in Pool : pool'[g].idle = pool[g].idle
      BY <1>0, <1>1, <3>2, <3>3 DEF Types
    <3> QED BY <3>4 DEF Pooled
  <2>5. CASE UNCHANGED <<sk, line, srv>>
    <3>1. Shapes'
      BY <1>2, <1>5, <2>5 DEF Shapes
    <3>2. AllFresh'
      BY <1>2, <1>4, <1>5, <2>2, <2>3, <2>4, <2>5, StaysFresh DEF AllFresh
    <3> QED BY <1>0, <1>2, <1>3, <2>2, <2>5, <3>1, <3>2, AsidePool
  <2>6. ASSUME NEW v \in Socket, NewSocket(v),
               sk' = [sk EXCEPT ![v] = [NoSocket EXCEPT !.st = "connecting", !.pool = p]],
               line' = [line EXCEPT ![v] = <<>>], srv' = [srv EXCEPT ![v] = NoServer]
        PROVE  Listed'
    <3> DEFINE r == [NoSocket EXCEPT !.st = "connecting", !.pool = p]
    <3>1. r.st = "connecting" /\ r.fromPool = FALSE
      BY DEF NoSocket
    <3>2. sk'[v] = r /\ \A u \in Socket \ {v} : sk'[u] = sk[u]
      BY <1>0, <2>6 DEF Types
    <3> HIDE DEF r
    <3>3. /\ line'[v] = <<>> /\ srv'[v] = NoServer
          /\ \A u \in Socket \ {v} : line'[u] = line[u] /\ srv'[u] = srv[u]
      BY <1>5, <2>6 DEF Shapes
    <3>4. Shapes'
      <4>1. <<>> \in Seq(Words) /\ NoServer \in Remote
        BY DEF NoServer, Remote
      <4> QED BY <1>2, <1>5, <2>6, <4>1 DEF Shapes
    <3>5. /\ sk[v].st \notin {"up", "ended"} /\ \A st \in streams : st[2] # v
          /\ \A i \in DOMAIN agenda : agenda[i].sock # v
      BY <2>6 DEF NewSocket, Unused
    <3>6. Blank(v)'
      <4>1. ~HasSend(v)'
        BY <1>4, <2>2, <3>5 DEF HasSend, Pending
      <4>2. Len(<<>>) = 0 /\ NoServer' = NoServer
        BY DEF NoServer
      <4> QED BY <1>2, <3>3, <3>5, <4>1, <4>2 DEF Blank
    <3>7. AllFresh'
      <4>1. Fresh(v)'
        BY <3>1, <3>2, <3>6 DEF Fresh
      <4>2. ASSUME NEW u \in Socket, u # v PROVE Fresh(u)'
        BY <1>2, <1>4, <1>5, <2>2, <2>3, <2>4, <3>2, <3>3, <4>2, StaysFresh DEF AllFresh
      <4> QED BY <4>1, <4>2 DEF AllFresh
    <3>8. \A n \in Mail, u \in Socket : Talks(n, u) => u # v
      BY <3>5 DEF Lent, Holders
    <3> QED BY <1>0, <1>2, <1>3, <2>2, <3>1, <3>2, <3>3, <3>4, <3>7, <3>8, AsidePool
  <2> QED BY <1>7, <2>5, <2>6 DEF PoolDispense
<1> QED BY <1>6, <1>7

LEMMA DestroyLists ==
    ASSUME Lent, Decided, Listed, PoolDestroy
    PROVE  Listed'
<1>0. agenda \in Seq(Tasks) /\ agenda # <<>> /\ Top.do = "destroy" /\ Types /\ Types'
  BY DestroyTypes DEF Lent, Types, PoolDestroy, Doing
<1> DEFINE p == Top.pool
           s == Top.sock
           r == [NoSocket EXCEPT !.st = "gone"]
<1>1. p \in Pool /\ s \in Socket
  BY <1>0, TopTask DEF Tasks, ForPool, ForSocket
<1>2. Call(<<>>) /\ UNCHANGED <<cfg, conv, outcome, said, streams>>
  BY DEF PoolDestroy
<1>3. pool'[p].idle = Without(pool[p].idle, s) /\ \A g \in Pool \ {p} : pool'[g].idle = pool[g].idle
  <2> DEFINE n == IF pool[p].count > 0 THEN pool[p].count - 1 ELSE 0
             q == [pool[p] EXCEPT !.count = n, !.idle = Without(pool[p].idle, s)]
  <2>1. pool' = [pool EXCEPT ![p] = q]
    BY <1>0, <1>1 DEF PoolDestroy, Types
  <2>2. q.idle = Without(pool[p].idle, s)
    BY <1>0, <1>1 DEF Types, PoolT
  <2> HIDE DEF q
  <2> QED BY <1>0, <1>1, <2>1, <2>2 DEF Types
<1>4. r.st = "gone" /\ r.fromPool = FALSE
  BY DEF NoSocket
<1>5. sk'[s] = r /\ \A u \in Socket \ {s} : sk'[u] = sk[u]
  BY <1>0, <1>1 DEF PoolDestroy, Types
<1> HIDE DEF r
<1>6. /\ line'[s] = <<>> /\ srv'[s] = NoServer
      /\ \A u \in Socket \ {s} : line'[u] = line[u] /\ srv'[u] = srv[u]
  BY <1>1 DEF PoolDestroy, Listed, Shapes
<1>7. Shapes'
  <2>1. <<>> \in Seq(Words) /\ NoServer \in Remote
    BY DEF NoServer, Remote
  <2>2. line' = [line EXCEPT ![s] = <<>>] /\ srv' = [srv EXCEPT ![s] = NoServer]
    BY DEF PoolDestroy
  <2> QED BY <1>1, <1>2, <2>1, <2>2 DEF Listed, Shapes
<1>8. \A u \in Socket : Pooled(u)' => Pooled(u)
  BY <1>0, <1>1, <1>3, IdleOut DEF Lent
<1>9. ~Closes(Top) /\ \A t \in Rest : ~Closes(t)
  BY <1>0, NoCloses DEF Closes
<1>10. Pending' = Rest /\ Rest \subseteq Pending /\ \A t \in Rest : t.do # "try_deliver_host_on_socket"
  BY <1>0, <1>2, Popped DEF Lent, OnTop
<1>11. \A v \in Socket : ~ToLend(v)'
  BY <1>0, <1>10, NoLend
<1>12. \A m \in Mail : ~Talks(m, s)
  BY <1>0 DEF Lent, Ready
<1>13. AllFresh'
  <2> SUFFICES ASSUME NEW u \in Socket PROVE Fresh(u)'
    BY DEF AllFresh
  <2>1. Fresh(u) /\ (sk'[u].fromPool => sk[u].fromPool)
    BY <1>4, <1>5 DEF Listed, AllFresh
  <2>2. sk'[u].st = "connecting" => sk[u].st = "connecting"
    BY <1>4, <1>5
  <2>3. line'[u] \in {line[u], <<>>} /\ srv'[u] \in {srv[u], NoServer}
    BY <1>6
  <2>4. \A t \in Pending' : IsSend(t) => t \in Pending
    BY <1>10
  <2> QED BY <1>2, <1>8, <1>11, <2>1, <2>2, <2>3, <2>4, StaysFresh
<1>14. \A m \in Mail, u \in Socket : Talks(m, u) => line'[u] = line[u] /\ srv'[u] = srv[u]
  BY <1>6, <1>12
<1> QED BY <1>0, <1>2, <1>4, <1>5, <1>7, <1>9, <1>10, <1>13, <1>14, AsidePool

LEMMA TryHostLists ==
    ASSUME Lent, Decided, Listed, TryDeliverHost
    PROVE  Listed'
<1>0. agenda \in Seq(Tasks) /\ agenda # <<>> /\ Top.do = "try_deliver_host" /\ Types
  BY DEF Lent, Types, TryDeliverHost, Doing
<1>1. PICK m \in Mail : m = Top.mail
  BY <1>0, TopTask DEF Tasks, ForMail
<1>2. Types' /\ EndsTalk(m) /\ UNCHANGED <<cfg, outcome, sk, line, srv, streams, said>>
  BY <1>0, <1>1, TryHostTypes DEF TryDeliverHost
<1>3. (\A t \in Rest : ~Closes(t)) /\ ~Closes(Top) /\ \A n \in Mail : ~(Tokened(n) /\ conv[n].processing)
  BY <1>0, NoCloses DEF Closes
<1>4. Tokened(m) /\ ~conv[m].processing /\ outcome[m] = <<>>
  <2>1. Tokened(m)
    BY <1>0, <1>1, TopToken DEF Decided, Token
  <2> QED BY <1>3, <2>1 DEF Decided, Place
<1>5. \E t \in Tasks : /\ t.do \in {"try_deliver_host", "decide", "dispense"}
                       /\ t.do = "decide" => t.arg = "temp_fail"
                       /\ Call(<<t>>)
  <2>1. CASE left[m] = 0
    <3>1. Call(<<Decide(m, "temp_fail")>>)
      BY <1>1, <2>1 DEF TryDeliverHost
    <3>2. LET t == Decide(m, "temp_fail") IN t \in Tasks /\ t.do = "decide" /\ t.arg = "temp_fail"
      BY TasksMade DEF Args, Decide, Task
    <3> QED BY <3>1, <3>2
  <2>2. CASE left[m] # 0
    <3>1. PICK g \in Pool : Call(<<TryHost(m)>>) \/ Call(<<Dispense(g)>>)
      BY <1>1, <2>2 DEF TryDeliverHost
    <3>2. /\ TryHost(m) \in Tasks /\ TryHost(m).do = "try_deliver_host"
          /\ Dispense(g) \in Tasks /\ Dispense(g).do = "dispense"
      BY TasksMade DEF TryHost, Dispense, Task
    <3> QED BY <3>1, <3>2
  <2> QED BY <2>1, <2>2
<1>6. PICK t \in Tasks : /\ t.do \in {"try_deliver_host", "decide", "dispense"}
                         /\ t.do = "decide" => t.arg = "temp_fail"
                         /\ Call(<<t>>)
  BY <1>5
<1>7. Pending' = Rest \cup {t} /\ Rest \subseteq Pending /\ \A u \in Rest : u.do # "try_deliver_host_on_socket"
  <2>1. Pending' = Rest \cup {t} /\ Rest \subseteq Pending
    BY <1>0, <1>6, Became
  <2>2. \A u \in Rest : u.do # "try_deliver_host_on_socket"
    BY DEF Lent, OnTop
  <2> QED BY <2>1, <2>2
<1>8. \A u \in Pending' : /\ ~Closes(u) /\ (IsSend(u) => u \in Pending)
                          /\ u.do = "decide" => u.arg \in {"temp_fail", "bounce"}
                          /\ u.do # "try_deliver_host_on_socket"
  <2> SUFFICES ASSUME NEW u \in Pending'
               PROVE  /\ ~Closes(u) /\ (IsSend(u) => u \in Pending)
                      /\ u.do = "decide" => u.arg \in {"temp_fail", "bounce"}
                      /\ u.do # "try_deliver_host_on_socket"
    OBVIOUS
  <2>1. CASE u = t
    BY <1>6, <2>1 DEF Closes, IsSend
  <2>2. CASE u \in Rest
    <3>1. u \in Pending /\ ~Closes(u) /\ u.do # "try_deliver_host_on_socket"
      BY <1>3, <1>7, <2>2
    <3>2. u.do = "decide" => u.arg \in {"temp_fail", "bounce"}
      BY <3>1 DEF Listed, Ends
    <3> QED BY <3>1, <3>2
  <2> QED BY <1>7, <2>1, <2>2
<1>9. \A g \in Pool : pool'[g].idle = pool[g].idle
  <2>1. UNCHANGED pool \/ \E g \in Pool : pool' = [pool EXCEPT ![g].waiting = Append(@, m)]
    BY <1>1 DEF TryDeliverHost
  <2>2. ASSUME NEW g \in Pool, pool' = [pool EXCEPT ![g].waiting = Append(@, m)]
        PROVE  \A h \in Pool : pool'[h].idle = pool[h].idle
    <3> DEFINE q == [pool[g] EXCEPT !.waiting = Append(pool[g].waiting, m)]
    <3>1. pool' = [pool EXCEPT ![g] = q]
      BY <1>0, <2>2 DEF Types
    <3>2. q.idle = pool[g].idle
      BY <1>0 DEF Types, PoolT
    <3> HIDE DEF q
    <3> QED BY <1>0, <3>1, <3>2 DEF Types
  <2> QED BY <2>1, <2>2
<1>10. \A u \in Socket : (Pooled(u)' <=> Pooled(u)) /\ ~ToLend(u)'
  BY <1>2, <1>8, <1>9, IdleSame, NoLend
<1>11. AllFresh'
  BY <1>2, <1>8, <1>10, StaysFresh DEF Listed, AllFresh
<1>12. Shapes'
  BY <1>2 DEF Listed, Shapes
<1>13. \A n \in Mail : n # m => conv'[n] = conv[n] /\ Going(n) /\ \A u \in Socket : Talks(n, u)' <=> Talks(n, u)
  BY <1>2 DEF EndsTalk, Going, SameLists, Talks
<1>14. \A u \in Socket : ~Talks(m, u)' /\ ~Talks(m, u)
  BY <1>2, <1>4, TalkEnds DEF Talks
<1>15. \A n \in Mail : Finished(n)' => n # m /\ Finished(n)
  <2>1. ~Finished(m)'
    BY <1>2, <1>4 DEF Finished
  <2> QED BY <1>2, <2>1 DEF Finished
<1>16. \A st \in streams' : st[1] \in Mail /\ st[2] \in Socket
  BY <1>2 DEF Types
<1>17. \A n \in Mail : Finished(n)' => Covers(n, Rcpts[n]) /\ SameLists(n)
  BY <1>13, <1>15 DEF Listed, Told, Going
<1>18. \A n \in Mail, u \in Socket : Talks(n, u)' => Talks(n, u) /\ Going(n)
  BY <1>13, <1>14
<1>19. \A st \in streams' : Talks(st[1], st[2]) => Talks(st[1], st[2])'
  BY <1>13, <1>14, <1>16
<1> QED BY <1>0, <1>2, <1>3, <1>8, <1>11, <1>12, <1>17, <1>18, <1>19, Aside

LEMMA ReleaseLists ==
    ASSUME Lent, Decided, Listed, ~cfg.pooling, ReleaseClient
    PROVE  Listed'
<1>0. agenda \in Seq(Tasks) /\ agenda # <<>> /\ Top.do = "release_client" /\ Types /\ Types'
  BY ReleaseTypes DEF Lent, Types, ReleaseClient, Doing
<1>1. PICK s \in Socket : s = Top.sock
  BY <1>0, TopTask DEF Tasks, ForSocket
<1> DEFINE r == [sk[s] EXCEPT !.acquired = FALSE]
<1>2. UNCHANGED <<cfg, conv, outcome, line, srv, streams, said>>
  BY DEF ReleaseClient
<1>3. /\ UNCHANGED pool
      /\ sk' = sk \/ sk' = [sk EXCEPT ![s] = r]
      /\ Call(<<>>) \/ (notes \in Pool /\ Call(<<Destroy(s, notes)>>))
  BY <1>0, <1>1 DEF ReleaseClient, Types
<1>4. r.st = sk[s].st /\ r.mail = sk[s].mail /\ r.fromPool = sk[s].fromPool
  BY <1>0 DEF Types, SocketT
<1> HIDE DEF r
<1>5. \A u \in Socket : sk'[u].st = sk[u].st /\ sk'[u].mail = sk[u].mail /\ sk'[u].fromPool = sk[u].fromPool
  BY <1>0, <1>3, <1>4 DEF Types
<1>6. ~Closes(Top) /\ \A t \in Rest : ~Closes(t)
  BY <1>0, NoCloses DEF Closes
<1>7. /\ Rest \subseteq Pending
      /\ \A t \in Pending' : t \in Rest \/ t.do = "destroy"
  <2>1. CASE Call(<<>>)
    BY <1>0, <2>1, Popped
  <2>2. CASE notes \in Pool /\ Call(<<Destroy(s, notes)>>)
    <3>1. Destroy(s, notes) \in Tasks /\ Destroy(s, notes).do = "destroy"
      BY <2>2, TasksMade DEF Destroy, Task
    <3> QED BY <1>0, <2>2, <3>1, Became
  <2> QED BY <1>3, <2>1, <2>2
<1>8. \A t \in Pending' : t.do # "try_deliver_host_on_socket" /\ (IsSend(t) => t \in Pending)
  BY <1>7 DEF Lent, OnTop, IsSend
<1>9. \A u \in Socket : (Pooled(u)' <=> Pooled(u)) /\ ~ToLend(u)'
  BY <1>0, <1>3, <1>8, NoLend DEF Pooled
<1>10. AllFresh'
  BY <1>2, <1>5, <1>8, <1>9, StaysFresh DEF Listed, AllFresh
<1>11. Shapes'
  BY <1>2 DEF Listed, Shapes
<1>12. \A t \in Pending' : t \in Rest \/ (~Closes(t) /\ ~IsSend(t) /\ t.do # "decide")
  BY <1>7 DEF Closes, IsSend
<1> QED BY <1>0, <1>2, <1>5, <1>6, <1>10, <1>11, <1>12, AsidePool

------------------------------------------------------------------------------
(* A socket is lent. *)

LEMMA LendLists ==
    ASSUME Lent, Decided, Listed, TryDeliverHostOnSocket
    PROVE  Listed'
<1>0. /\ agenda \in Seq(Tasks) /\ agenda # <<>> /\ Top.do = "try_deliver_host_on_socket"
      /\ Types /\ Types' /\ UNCHANGED <<cfg, outcome, line, srv, pool, streams>>
  BY LendTypes DEF Lent, Types, TryDeliverHostOnSocket, Doing
<1>1. PICK m \in Mail, s \in Socket : m = Top.mail /\ s = Top.sock
  BY <1>0, TopTask DEF Tasks, ForMail, ForSocket
<1> DEFINE r == [sk[s] EXCEPT !.acquired = TRUE, !.mail = m]
           c == [NoConv EXCEPT !.sock = s, !.command = "connect", !.processing = TRUE]
<1>2. ~sk[s].fromPool /\ Blank(s)
  <2>1. ToLend(s)
    BY <1>0, <1>1 DEF ToLend
  <2> QED BY <2>1 DEF Listed, AllFresh, Fresh
<1>3. Call(<<>>)
  BY <1>1, <1>2 DEF TryDeliverHostOnSocket
<1>4. Pending' = Rest /\ Rest \subseteq Pending
  BY <1>0, <1>3, Popped
<1>5. conv'[m] = c /\ \A n \in Mail : n # m => conv'[n] = conv[n]
  BY <1>0, <1>1 DEF TryDeliverHostOnSocket, Types, ConvOK
<1>6. c.sock = s /\ c.command = "connect" /\ c.processing /\ ~c.fp_called /\ c.recip_index = 0
      /\ c.ok = <<>> /\ c.fail = <<>> /\ c.bounce = <<>>
  <2>1. c.sock = s /\ c.command = "connect" /\ c.processing = TRUE /\ c.fp_called = FALSE /\ c.recip_index = 0
        /\ c.ok = <<>> /\ c.fail = <<>> /\ c.bounce = <<>>
    BY DEF NoConv
  <2> QED BY <2>1
<1>7. \A u \in Socket : /\ sk'[u].st = sk[u].st /\ sk'[u].fromPool = sk[u].fromPool
                        /\ u # s => sk'[u].mail = sk[u].mail
  <2>1. sk' = [sk EXCEPT ![s] = r]
    BY <1>0, <1>1 DEF TryDeliverHostOnSocket, Types
  <2>2. r.st = sk[s].st /\ r.fromPool = sk[s].fromPool
    BY <1>0 DEF Types, SocketT
  <2> HIDE DEF r
  <2> QED BY <1>0, <2>1, <2>2 DEF Types
<1> HIDE DEF c, r
<1>8. /\ said'[m] = Unsaid(m) /\ \A n \in Mail : n # m => said'[n] = said[n]
      /\ DOMAIN said' = Mail /\ \A n \in Mail : said'[n] \in [Rcpt(n) -> Words]
  <2>1. said' = [said EXCEPT ![m] = Unsaid(m)]
    BY <1>1 DEF TryDeliverHostOnSocket
  <2>2. Unsaid(m) \in [Rcpt(m) -> Words]
    BY DEF Unsaid, Words
  <2>3. DOMAIN said = Mail /\ \A n \in Mail : said[n] \in [Rcpt(n) -> Words]
    BY DEF Listed, Shapes
  <2> QED BY <2>1, <2>2, <2>3
<1>9. (\A t \in Rest : ~Closes(t)) /\ ~Closes(Top) /\ \A n \in Mail : ~(Tokened(n) /\ conv[n].processing)
  BY <1>0, NoCloses DEF Closes
<1>10. ~conv[m].processing /\ outcome[m] = <<>>
  <2>1. Token(Top, m)
    BY <1>0, <1>1 DEF Token
  <2>2. Tokened(m)
    BY <1>0, <2>1, TopToken DEF Decided
  <2> QED BY <1>9, <2>2 DEF Decided, Place
<1>11. \A n \in Mail : ~Talks(n, s)
  BY <1>0, <1>1 DEF Lent, Ready, Holders
<1>12. \A n \in Mail : n # m => Going(n)
  BY <1>5, <1>8 DEF Going, SameLists
<1>13. \A n \in Mail, u \in Socket : Talks(n, u) => n # m /\ u # s /\ ~conv[n].fp_called /\ ~HasSend(u) /\ Expects(n, u)
  BY <1>0, <1>9, <1>10, <1>11, Expecting DEF Listed, Talks
<1>14. \A n \in Mail, u \in Socket : n # m => (Talks(n, u)' <=> Talks(n, u))
  BY <1>5 DEF Talks
<1>15. \A u \in Socket : Talks(m, u)' => u = s
  BY <1>5, <1>6 DEF Talks
<1>16. \A t \in Pending' : t \in Pending /\ ~Closes(t)
  BY <1>4, <1>9
<1>17. Sync'
  <2>1. SyncAt(m, s)'
    <3>1. Covers(m, 0)'
      <4>1. Lists(c, said'[m], 0)
        BY <1>6, NoLists
      <4> QED BY <1>0, <1>5, <4>1 DEF Covers, Lists
    <3>2. Begun(m)'
      BY <1>5, <1>6, <1>8, <3>1 DEF Begun
    <3>3. srv'[s] = NoServer /\ Len(line'[s]) =< 1 /\ <<m, s>> \notin streams'
      BY <1>0, <1>2 DEF Blank
    <3>4. Expects(m, s)'
      BY <1>5, <1>6, <3>2, <3>3 DEF Expects
    <3>5. ~HasSend(s)' /\ ~CloseComes(m, s)'
      BY <1>2, <1>16 DEF Blank, HasSend, CloseComes
    <3>6. ~conv'[m].fp_called
      BY <1>5, <1>6
    <3> QED BY <3>4, <3>5, <3>6 DEF SyncAt
  <2>2. ASSUME NEW n \in Mail, NEW u \in Socket, n # m, Talks(n, u)' PROVE SyncAt(n, u)'
    <3>1. ~conv[n].fp_called /\ ~HasSend(u) /\ Expects(n, u)
      BY <1>13, <1>14, <2>2
    <3>2. Expects(n, u)' /\ ~conv'[n].fp_called
      BY <1>0, <1>12, <2>2, <3>1, ExpectsSame DEF Going
    <3>3. ~HasSend(u)' /\ ~CloseComes(n, u)'
      BY <1>16, <3>1 DEF HasSend, CloseComes
    <3> QED BY <3>2, <3>3 DEF SyncAt
  <2> QED BY <1>15, <2>1, <2>2 DEF Sync
<1>18. Ends'
  BY <1>16 DEF Listed, Ends, Closes
<1>19. Sends'
  <2> SUFFICES ASSUME NEW t \in Pending', IsSend(t) PROVE SendOK(t)'
    BY DEF Sends
  <2>1. t \in Pending /\ SendOK(t) /\ HasSend(t.sock)
    BY <1>16 DEF Listed, Sends, HasSend
  <2>2. t \in Tasks
    BY <1>0, <2>1 DEF Pending
  <2>3. t.mail \in Mail /\ t.sock \in Socket
    BY <2>2 DEF Tasks, ForMail, ForSocket, IsSend
  <2>4. t.sock # s /\ sk'[t.sock].st = sk[t.sock].st /\ sk'[t.sock].mail = sk[t.sock].mail
    BY <1>2, <1>7, <2>1, <2>3 DEF Blank
  <2>5. ~Talks(t.mail, t.sock)
    BY <1>13, <2>1, <2>3
  <2>6. ~Talks(t.mail, t.sock)'
    BY <1>14, <1>15, <2>3, <2>4, <2>5
  <2> QED BY <2>1, <2>4, <2>5, <2>6 DEF SendOK
<1>20. Streams'
  <2> SUFFICES ASSUME NEW st \in streams'
               PROVE  /\ sk'[st[2]].st = "up" => Talks(st[1], st[2])'
                      /\ \A n \in Mail : Talks(n, st[2])' => n = st[1]
    BY DEF Streams
  <2>1. st \in streams /\ st[1] \in Mail /\ st[2] \in Socket
    BY <1>0 DEF Types
  <2>2. sk'[st[2]].st = "up" => Talks(st[1], st[2])
    BY <1>7, <2>1 DEF Listed, Streams
  <2>3. st[2] # s
    BY <1>2, <2>1 DEF Blank
  <2>4. \A n \in Mail : Talks(n, st[2])' => n = st[1]
    BY <1>14, <1>15, <2>1, <2>3 DEF Listed, Streams
  <2> QED BY <1>13, <1>14, <2>1, <2>2, <2>4
<1>21. AllFresh'
  <2>1. \A t \in Pending' : t.do # "try_deliver_host_on_socket"
    BY <1>4 DEF Lent, OnTop
  <2>2. \A u \in Socket : (Pooled(u)' <=> Pooled(u)) /\ ~ToLend(u)'
    BY <1>0, <2>1, NoLend DEF Pooled
  <2> QED BY <1>0, <1>7, <1>16, <2>2, StaysFresh DEF Listed, AllFresh
<1>22. Told'
  <2> SUFFICES ASSUME NEW n \in Mail, Finished(n)' PROVE Covers(n, Rcpts[n])'
    BY DEF Told
  <2>1. Finished(n) /\ n # m
    <3>1. outcome' = outcome
      BY <1>0
    <3>2. ~Finished(m)
      BY <1>10 DEF Finished
    <3>3. Finished(n)
      BY <3>1 DEF Finished
    <3> QED BY <3>2, <3>3
  <2>2. Covers(n, Rcpts[n]) /\ SameLists(n)
    BY <1>12, <2>1 DEF Listed, Told, Going
  <2> QED BY <1>0, <2>2, CoversSame
<1>23. Shapes'
  BY <1>0, <1>8 DEF Listed, Shapes
<1> QED BY <1>17, <1>18, <1>19, <1>20, <1>21, <1>22, <1>23 DEF Listed

------------------------------------------------------------------------------
(* A command is sent. *)

\* What the remote end replies to a command.
LEMMA Replied ==
    ASSUME NEW m \in Mail, NEW remote \in Remote, NEW cmd \in Commands, NEW codes \in Codes(remote, m, cmd)
    PROVE  /\ codes \in Seq(Words)
           /\ cmd # "DOT" => Len(codes) =< 1
           /\ \A i \in DOMAIN codes : codes[i] \in Replies(cmd)
           /\ InOrder(remote, cmd) =>
                 IF cmd = "DOT" /\ cfg.lmtp THEN Len(codes) = Len(remote.to) ELSE Len(codes) = 1
<1>1. Answers[m][cmd] \subseteq Replies(cmd) /\ Replies(cmd) \subseteq Words
  BY DeliveryAssumption DEF Replies, Words
<1>2. CASE InOrder(remote, cmd)
  <2> DEFINE n == IF cmd = "DOT" /\ cfg.lmtp THEN Len(remote.to) ELSE 1
  <2>1. n \in Nat
    BY DEF Remote
  <2>2. codes \in [1 .. n -> Answers[m][cmd]]
    BY <1>2 DEF Codes
  <2> HIDE DEF n
  <2>3. codes \in Seq(Words) /\ Len(codes) = n /\ \A i \in DOMAIN codes : codes[i] \in Replies(cmd)
    <3>1. codes \in [1 .. n -> Words] /\ \A i \in DOMAIN codes : codes[i] \in Replies(cmd)
      BY <1>1, <2>2
    <3> QED BY <2>1, <3>1
  <2> QED BY <2>1, <2>3 DEF n
<1>3. CASE ~InOrder(remote, cmd)
  <2>1. codes = <<>> \/ codes = <<"5">>
    BY <1>3 DEF Codes
  <2>2. "5" \in Words /\ "5" \in Replies(cmd)
    BY DEF Words, Replies
  <2>3. codes \in Seq(Words) /\ Len(codes) =< 1 /\ \A i \in DOMAIN codes : codes[i] \in Replies(cmd)
    <3>1. CASE codes = <<>>
      BY <3>1
    <3>2. CASE codes = <<"5">>
      <4>1. <<"5">> \in Seq(Words) /\ Len(<<"5">>) = 1 /\ \A i \in DOMAIN <<"5">> : <<"5">>[i] = "5"
        BY <2>2
      <4> QED BY <2>2, <3>2, <4>1
    <3> QED BY <2>1, <3>1, <3>2
  <2> QED BY <1>3, <2>3
<1> QED BY <1>2, <1>3

LEMMA Remembers ==
    ASSUME NEW m \in Mail, NEW remote \in Remote, NEW cmd \in Commands, NEW codes,
           cmd = "RCPT" => conv[m].recip_index \in Nat
    PROVE  /\ Remember(remote, m, cmd, codes) \in Remote
           /\ cmd \in {"EHLO", "LHLO", "HELO"} /\ remote = NoServer => Remember(remote, m, cmd, codes) = NoServer
           /\ cmd = "MAIL" /\ remote = NoServer =>
                 /\ ~Remember(remote, m, cmd, codes).data
                 /\ codes = <<"2">> => Remember(remote, m, cmd, codes).from = m
           /\ cmd = "RCPT" /\ ~remote.data =>
                 Remember(remote, m, cmd, codes).from = remote.from /\ ~Remember(remote, m, cmd, codes).data
<1>0. NoServer \in Remote /\ NoServer.from = None /\ NoServer.data = FALSE
  BY DEF NoServer, Remote
<1>1. CASE ~InOrder(remote, cmd)
  <2>1. Remember(remote, m, cmd, codes) = remote
    BY <1>1 DEF Remember
  <2>2. cmd \in {"EHLO", "LHLO", "HELO", "MAIL"} => remote # NoServer
    BY <1>0, <1>1 DEF InOrder
  <2> QED BY <2>1, <2>2
<1>2. CASE InOrder(remote, cmd) /\ cmd = "MAIL"
  <2> DEFINE r == [remote EXCEPT !.from = m]
  <2>1. r \in Remote /\ r.from = m /\ r.data = remote.data
    BY DEF Remote
  <2>2. Remember(remote, m, cmd, codes) = IF codes = <<"2">> THEN r ELSE remote
    BY <1>2 DEF Remember
  <2> HIDE DEF r
  <2> QED BY <1>0, <1>2, <2>1, <2>2
<1>3. CASE InOrder(remote, cmd) /\ cmd = "RCPT"
  <2> DEFINE r == [remote EXCEPT !.to = Append(remote.to, conv[m].recip_index)]
  <2>1. r \in Remote /\ r.from = remote.from /\ r.data = remote.data
    <3>1. Append(remote.to, conv[m].recip_index) \in Seq(Nat)
      BY <1>3 DEF Remote
    <3> QED BY <3>1 DEF Remote
  <2>2. Remember(remote, m, cmd, codes) = IF codes[1] \in {"2", "251"} THEN r ELSE remote
    BY <1>3 DEF Remember
  <2> HIDE DEF r
  <2> QED BY <1>3, <2>1, <2>2
<1>4. CASE InOrder(remote, cmd) /\ cmd = "DATA"
  <2> DEFINE r == [remote EXCEPT !.data = TRUE]
  <2>1. r \in Remote
    BY DEF Remote
  <2>2. Remember(remote, m, cmd, codes) = IF codes = <<"3">> THEN r ELSE remote
    BY <1>4 DEF Remember
  <2> HIDE DEF r
  <2> QED BY <1>4, <2>1, <2>2
<1>5. CASE InOrder(remote, cmd) /\ cmd \notin {"MAIL", "RCPT", "DATA"}
  <2>1. Remember(remote, m, cmd, codes) = NoServer
    BY <1>5 DEF Remember
  <2> QED BY <1>0, <1>5, <2>1
<1> QED BY <1>1, <1>2, <1>3, <1>4, <1>5

\* What a command leaves of the other conversations.
LEMMA SendAside ==
    ASSUME Lent, Decided, Listed, Types', Shapes', agenda # <<>>, Top.do = "send_command",
           NEW m \in Mail, NEW s \in Socket, m = Top.mail, s = Top.sock,
           UNCHANGED <<cfg, sk, pool, streams, outcome>>,
           \A t \in Pending' : t \in Rest \/ t.do \in {"release_client", "try_deliver_host"},
           Talks(m, s)' => Rest \subseteq Pending',
           \A u \in Socket : u # s => line'[u] = line[u] /\ srv'[u] = srv[u],
           \A n \in Mail, u \in Socket : Talks(n, u)' => Talks(n, u),
           \A n \in Mail, u \in Socket : u # s /\ Talks(n, u) => Going(n) /\ Talks(n, u)',
           Talks(m, s)' => SyncAt(m, s)',
           Talks(m, s) /\ ~Talks(m, s)' => sk[s].st # "up",
           \A n \in Mail : n # m => SameLists(n),
           SameLists(m) \/ (outcome[m] = <<>> /\ \A t \in Rest : ~Closes(t))
    PROVE  Listed'
<1>0. Types /\ Pending \subseteq Tasks
  BY DEF Lent, Types, Pending
<1>1. Top = agenda[1] /\ Top \in Pending /\ (\A t \in Pending : t = Top \/ t \in Rest) /\ Rest \subseteq Pending
  BY <1>0, TopTask DEF Types, Pending, Rest
<1>2. HasSend(s)
  BY <1>1 DEF HasSend, IsSend
<1>3. \A t \in Pending : Closes(t) => t.mail = m /\ t.sock = s
  <2> SUFFICES ASSUME NEW t \in Pending, Closes(t) PROVE t.mail = m /\ t.sock = s
    OBVIOUS
  <2>1. t \in Rest
    BY <1>1 DEF Closes
  <2> QED BY <1>1, <2>1 DEF Decided, Closing, Rest
<1>4. ASSUME NEW n \in Mail, NEW u \in Socket, Talks(n, u), <<n, u>> # <<m, s>>
      PROVE  ~conv[n].fp_called /\ ~HasSend(u) /\ Expects(n, u)
  <2>1. SyncAt(n, u)
    BY <1>4 DEF Listed, Sync
  <2>2. ~CloseComes(n, u)
    BY <1>3, <1>4 DEF CloseComes
  <2>3. ASSUME NEW cmd \in Commands, agenda = <<Send(n, u, cmd)>> PROVE FALSE
    <3>1. Top = Send(n, u, cmd)
      BY <2>3 DEF Top
    <3>2. Top.mail = n /\ Top.sock = u
      BY <3>1 DEF Send, Task
    <3> QED BY <1>4, <3>2
  <2> QED BY <2>1, <2>2, <2>3 DEF SyncAt
<1>5. \A n \in Mail : Talks(n, s) => n = m
  BY <1>2, <1>4
<1>6. \A t \in Pending' : IsSend(t) \/ Closes(t) => t \in Rest /\ t \in Pending
  BY <1>1 DEF IsSend, Closes
<1>7. Sync'
  <2> SUFFICES ASSUME NEW n \in Mail, NEW u \in Socket, Talks(n, u)' PROVE SyncAt(n, u)'
    BY DEF Sync
  <2>1. Talks(n, u)
    OBVIOUS
  <2>2. CASE u = s
    <3>1. n = m
      BY <1>5, <2>1, <2>2
    <3> QED BY <2>2, <3>1
  <2>3. CASE u # s
    <3>1. ~conv[n].fp_called /\ ~HasSend(u) /\ Expects(n, u)
      BY <1>4, <2>1, <2>3
    <3>2. Going(n) /\ line'[u] = line[u] /\ srv'[u] = srv[u]
      BY <2>1, <2>3
    <3>3. Expects(n, u)' /\ ~conv'[n].fp_called
      BY <3>1, <3>2, ExpectsSame DEF Going
    <3>4. ~HasSend(u)'
      BY <1>6, <3>1 DEF HasSend
    <3>5. ~CloseComes(n, u)'
      BY <1>3, <1>6, <2>3 DEF CloseComes
    <3> QED BY <3>3, <3>4, <3>5 DEF SyncAt
  <2> QED BY <2>2, <2>3
<1>8. Ends'
  <2> SUFFICES ASSUME NEW t \in Pending'
               PROVE  /\ t.do = "finish_processing_mail" => Covers(t.mail, Rcpts[t.mail])'
                      /\ t.do = "decide" => t.arg \in {"temp_fail", "bounce"}
    BY DEF Ends
  <2>1. CASE t.do = "finish_processing_mail"
    <3>1. t \in Rest /\ t \in Pending /\ Closes(t)
      BY <1>6, <2>1 DEF Closes
    <3>2. t.mail = m /\ SameLists(m)
      BY <1>3, <3>1
    <3>3. Covers(m, Rcpts[m])
      BY <2>1, <3>1, <3>2 DEF Listed, Ends
    <3>4. Covers(m, Rcpts[m])'
      BY <3>2, <3>3, CoversSame
    <3> QED BY <2>1, <3>2, <3>4
  <2>2. CASE t.do = "decide"
    <3>1. t \in Pending
      BY <1>1, <2>2
    <3> QED BY <2>2, <3>1 DEF Listed, Ends
  <2> QED BY <2>1, <2>2
<1>9. Sends'
  <2> SUFFICES ASSUME NEW t \in Pending', IsSend(t) PROVE SendOK(t)'
    BY DEF Sends
  <2>1. t \in Pending /\ SendOK(t) /\ HasSend(t.sock) /\ t \in Tasks
    BY <1>0, <1>6 DEF Listed, Sends, HasSend
  <2>2. t.mail \in Mail /\ t.sock \in Socket
    BY <2>1 DEF Tasks, ForMail, ForSocket, IsSend
  <2>3. Talks(t.mail, t.sock) => t.mail = m /\ t.sock = s
    BY <1>4, <2>1, <2>2
  <2>4. t.arg # "RSET" /\ ~Talks(t.mail, t.sock)' => sk[t.sock].st # "up"
    BY <2>1, <2>3 DEF SendOK
  <2>5. Talks(t.mail, t.sock)' => (t.arg = "RSET" <=> CloseComes(t.mail, t.sock)')
    <3> SUFFICES ASSUME Talks(t.mail, t.sock)' PROVE t.arg = "RSET" <=> CloseComes(t.mail, t.sock)'
      OBVIOUS
    <3>1. Talks(t.mail, t.sock) /\ t.mail = m /\ t.sock = s
      BY <2>2, <2>3
    <3>2. \A w \in Pending : Closes(w) => w \in Pending'
      BY <1>1, <3>1 DEF Closes
    <3>3. CloseComes(t.mail, t.sock)' <=> CloseComes(t.mail, t.sock)
      BY <1>6, <3>2 DEF CloseComes
    <3> QED BY <2>1, <3>1, <3>3 DEF SendOK
  <2> QED BY <2>1, <2>4, <2>5 DEF SendOK
<1>10. Streams'
  <2> SUFFICES ASSUME NEW st \in streams'
               PROVE  /\ sk'[st[2]].st = "up" => Talks(st[1], st[2])'
                      /\ \A n \in Mail : Talks(n, st[2])' => n = st[1]
    BY DEF Streams
  <2>1. st \in streams /\ st[1] \in Mail /\ st[2] \in Socket
    BY <1>0 DEF Types
  <2>2. sk'[st[2]].st = "up" => Talks(st[1], st[2]) /\ sk[st[2]].st = "up"
    BY <2>1 DEF Listed, Streams
  <2>3. \A n \in Mail : Talks(n, st[2])' => n = st[1]
    BY <2>1 DEF Listed, Streams
  <2> QED BY <1>5, <2>1, <2>2, <2>3
<1>11. AllFresh'
  <2>1. \A t \in Pending' : t.do # "try_deliver_host_on_socket"
    BY DEF Lent, OnTop
  <2>2. \A u \in Socket : ~ToLend(u)'
    BY <2>1, NoLend
  <2>3. \A u \in Socket : Pooled(u)' <=> Pooled(u)
    BY DEF Pooled
  <2> SUFFICES ASSUME NEW u \in Socket PROVE Fresh(u)'
    BY DEF AllFresh
  <2>4. Fresh(u)
    BY DEF Listed, AllFresh
  <2>5. sk[u].st = "connecting" \/ Pooled(u) => u # s
    BY <1>2, <2>4 DEF Fresh, Blank
  <2> QED BY <1>6, <2>2, <2>3, <2>4, <2>5, StaysFresh
<1>12. Told'
  <2> SUFFICES ASSUME NEW n \in Mail, Finished(n)' PROVE Covers(n, Rcpts[n])'
    BY DEF Told
  <2>1. outcome' = outcome
    OBVIOUS
  <2>2. Finished(n)
    BY <2>1 DEF Finished
  <2>3. outcome[m] = <<>> => ~Finished(m)
    BY DEF Finished
  <2>4. SameLists(n) /\ Covers(n, Rcpts[n])
    BY <2>2, <2>3 DEF Listed, Told
  <2> QED BY <2>4, CoversSame
<1> QED BY <1>7, <1>8, <1>9, <1>10, <1>11, <1>12 DEF Listed

LEMMA FirstOf ==
    ASSUME NEW S, NEW q \in Seq(S), Len(q) = 1
    PROVE  q[1] \in S /\ Head(q) = q[1] /\ Tail(q) = <<>>
<1>1. q # <<>> /\ DOMAIN q = 1 .. 1 /\ 1 \in 1 .. 1
  OBVIOUS
<1>2. q[1] \in S /\ Head(q) = q[1]
  BY <1>1
<1>3. Tail(q) \in Seq(S) /\ Len(Tail(q)) = 0
  BY <1>1
<1>4. ASSUME NEW t \in Seq(S), t # <<>> PROVE Len(t) # 0
  BY <1>4
<1> QED BY <1>2, <1>3, <1>4

\* A command that is written is the one whose reply is awaited.
LEMMA Sent ==
    ASSUME UNCHANGED <<cfg, streams>>, NEW m \in Mail, NEW s \in Socket, NEW cmd \in Commands,
           ToSend(m, s, cmd), srv[s] \in Remote, DOMAIN said = Mail, said[m] \in [Rcpt(m) -> Words],
           NEW codes \in Codes(srv[s], m, cmd), line'[s] = codes,
           srv'[s] = Remember(srv[s], m, cmd, codes), Learn(srv[s], m, cmd, codes),
           conv'[m].ok = conv[m].ok, conv'[m].fail = conv[m].fail, conv'[m].bounce = conv[m].bounce,
           conv'[m].recip_index = conv[m].recip_index, conv'[m].command = cmd
    PROVE  Expects(m, s)' /\ said'[m] \in [Rcpt(m) -> Words]
<1>0. line[s] = <<>> /\ <<m, s>> \notin streams' /\ cfg' = cfg /\ cfg'.lmtp = cfg.lmtp
  BY DEF ToSend
<1>1. ASSUME NEW n \in Nat, Lists(conv[m], said'[m], n) PROVE Covers(m, n)'
  BY <1>0, <1>1 DEF Covers, Lists
<1>2. ASSUME said' = said PROVE SameLists(m)
  BY <1>2 DEF SameLists
<1>3. cmd \notin {"RCPT", "DOT"} => said' = said
  BY DEF Learn
<1>4. codes \in Seq(Words) /\ (cmd # "DOT" => Len(codes) =< 1) /\ \A i \in DOMAIN codes : codes[i] \in Replies(cmd)'
  <2>1. Replies(cmd)' = Replies(cmd)
    BY DEF Replies
  <2> QED BY <2>1, Replied
<1>5. CASE cmd \in {"EHLO", "LHLO", "HELO"}
  <2>1. Begun(m) /\ srv[s] = NoServer
    BY <1>5 DEF ToSend
  <2>2. said' = said
    BY <1>3, <1>5
  <2>3. Covers(m, 0)'
    BY <1>2, <2>1, <2>2, CoversSame DEF Begun
  <2>4. Begun(m)'
    BY <2>1, <2>2, <2>3 DEF Begun, Unsaid
  <2>5. srv'[s] = NoServer
    BY <1>5, <2>1, Remembers
  <2>6. srv'[s] = NoServer'
    BY <2>5 DEF NoServer
  <2> QED BY <1>0, <1>4, <1>5, <2>2, <2>4, <2>6 DEF Expects
<1>6. CASE cmd = "MAIL"
  <2>1. Begun(m) /\ srv[s] = NoServer
    BY <1>6 DEF ToSend
  <2>2. said' = said
    BY <1>3, <1>6
  <2>3. Covers(m, 0)'
    BY <1>2, <2>1, <2>2, CoversSame DEF Begun
  <2>4. Begun(m)'
    BY <2>1, <2>2, <2>3 DEF Begun, Unsaid
  <2>5. ~srv'[s].data /\ (line'[s] = <<"2">> => srv'[s].from # None)
    <3>1. ~srv'[s].data /\ (codes = <<"2">> => srv'[s].from = m)
      BY <1>6, <2>1, Remembers
    <3> QED BY <3>1, NoneIsNone
  <2> QED BY <1>0, <1>4, <1>6, <2>2, <2>4, <2>5 DEF Expects
<1>7. CASE cmd = "RCPT"
  <2> DEFINE k == conv[m].recip_index
  <2>1. Asking(m, s, k) /\ said[m][k] = "none"
    BY <1>7 DEF ToSend
  <2>2. k \in Rcpt(m) /\ k \in Nat /\ k - 1 \in Nat /\ srv[s].from # None /\ ~srv[s].data
    BY <2>1, DeliveryAssumption DEF Asking, Rcpt
  <2>3. InOrder(srv[s], cmd)
    BY <1>7, <2>2 DEF InOrder
  <2>4. Len(codes) = 1 /\ codes[1] \in Words
    <3>1. Len(codes) = 1
      BY <1>7, <2>3, Replied
    <3>2. codes \in Seq(Words)
      BY <1>4
    <3>3. codes[1] \in Words
      BY <3>1, <3>2, FirstOf
    <3> QED BY <3>1, <3>3
  <2>5. said' = [said EXCEPT ![m][k] = codes[1]]
    BY <1>7, <2>3 DEF Learn
  <2>6. said'[m] = [said[m] EXCEPT ![k] = codes[1]]
    BY <2>5
  <2>7. said'[m] \in [Rcpt(m) -> Words] /\ said'[m][k] = codes[1] /\ \A r \in Rcpt(m) : r # k => said'[m][r] = said[m][r]
    BY <2>2, <2>4, <2>6
  <2>8. Covers(m, k - 1)'
    <3>1. \A r \in 1 .. k - 1 : r \in Rcpt(m) /\ r # k
      BY <2>2, DeliveryAssumption DEF Rcpt
    <3>2. \A r \in 1 .. k - 1 : said'[m][r] = said[m][r]
      BY <2>7, <3>1
    <3>3. Lists(conv[m], said'[m], k - 1)
      BY <2>1, <2>2, <3>2, OtherWords DEF Asking, Covers
    <3> QED BY <1>1, <2>2, <3>3
  <2>9. \A r \in Rcpt(m) : r > k => said'[m][r] = "none"
    <3>1. \A r \in Rcpt(m) : r > k => r # k
      BY <2>2 DEF Rcpt
    <3> QED BY <2>1, <2>7, <3>1 DEF Asking
  <2>10. srv'[s].from # None /\ ~srv'[s].data
    BY <1>7, <2>2, Remembers
  <2>11. Asking(m, s, k)'
    BY <2>2, <2>8, <2>9, <2>10 DEF Asking
  <2>12. Head(line'[s]) = codes[1]
    BY <2>4
  <2> QED BY <1>0, <1>4, <1>7, <2>7, <2>11, <2>12 DEF Expects
<1>8. CASE cmd = "DATA"
  <2>1. said' = said /\ Asked(m)
    BY <1>3, <1>8 DEF ToSend
  <2>2. Asked(m)'
    BY <1>2, <2>1, CoversSame DEF Asked
  <2> QED BY <1>0, <1>4, <1>8, <2>1, <2>2 DEF Expects
<1>9. CASE cmd = "DOT"
  <2>1. Asked(m)
    BY <1>9 DEF ToSend
  <2>2. CASE InOrder(srv[s], cmd) /\ cfg.lmtp
    <3> DEFINE to == srv[s].to
               at(r) == CHOOSE i \in DOMAIN codes : to[i] = r
               v == [r \in Rcpt(m) |-> IF r \in Range(to) /\ said[m][r] # "251" THEN codes[at(r)] ELSE said[m][r]]
    <3>1. said' = [said EXCEPT ![m] = v]
      BY <1>9, <2>2 DEF Learn
    <3>2. said'[m] = v
      BY <3>1
    <3>3. Len(codes) = Len(to) /\ to \in Seq(Nat) /\ \A i \in DOMAIN codes : codes[i] \in Replies(cmd)
      BY <1>9, <2>2, Replied DEF Remote
    <3>4. DOMAIN codes = DOMAIN to
      BY <1>4, <3>3
    <3>5. \A r \in Range(to) : at(r) \in DOMAIN codes
      BY <3>4 DEF Range
    <3>6. "251" \notin Replies(cmd) /\ Replies(cmd) \subseteq Words
      BY <1>9 DEF Replies, Words
    <3> HIDE DEF at
    <3>7. \A r \in Rcpt(m) : v[r] \in Words /\ (v[r] = "251" <=> said[m][r] = "251")
      BY <3>3, <3>5, <3>6
    <3>8. v \in [Rcpt(m) -> Words]
      BY <3>7
    <3> HIDE DEF v
    <3>9. Lists(conv[m], v, Rcpts[m])
      BY <2>1, <2>2, <3>7, DeliveryAssumption, OtherWords DEF Asked, Covers, Rcpt
    <3>10. Covers(m, Rcpts[m])'
      BY <1>1, <3>2, <3>9, DeliveryAssumption
    <3>11. Asked(m)'
      BY <2>1, <3>10 DEF Asked
    <3> QED BY <1>0, <1>4, <1>9, <3>2, <3>8, <3>11 DEF Expects
  <2>3. CASE ~(InOrder(srv[s], cmd) /\ cfg.lmtp)
    <3>1. said' = said
      BY <1>9, <2>3 DEF Learn
    <3>2. Asked(m)'
      BY <1>2, <2>1, <3>1, CoversSame DEF Asked
    <3> QED BY <1>0, <1>4, <1>9, <3>1, <3>2 DEF Expects
  <2> QED BY <2>2, <2>3
<1>10. cmd \in {"EHLO", "LHLO", "HELO", "MAIL", "RCPT", "DATA", "DOT"}
  BY DEF ToSend
<1> QED BY <1>5, <1>6, <1>7, <1>8, <1>9, <1>10

LEMMA SendLists ==
    ASSUME Lent, Decided, Listed, SendCommand
    PROVE  Listed'
<1>0. /\ agenda \in Seq(Tasks) /\ agenda # <<>> /\ Top.do = "send_command"
      /\ Types /\ Types' /\ UNCHANGED <<cfg, sk, pool, streams, outcome>>
  <2>1. Types /\ agenda # <<>> /\ Top.do = "send_command" /\ UNCHANGED <<cfg, sk, pool, streams, outcome>>
    BY DEF Lent, SendCommand, Doing
  <2> QED BY <2>1, SendCases DEF Types
<1>1. PICK m \in Mail, s \in Socket : m = Top.mail /\ s = Top.sock
  BY <1>0, TopTask DEF Tasks, ForMail, ForSocket
<1> DEFINE cmd == Top.arg
<1>2. Top \in Pending /\ Rest \subseteq Pending /\ \A t \in Pending : t = Top \/ t \in Rest
  BY <1>0, TopTask DEF Pending, Rest
<1>3. SendOK(Top) /\ HasSend(s) /\ cmd \in Commands
  <2>1. SendOK(Top) /\ HasSend(s)
    BY <1>0, <1>1, <1>2 DEF Listed, Sends, IsSend, HasSend
  <2> QED BY <2>1 DEF SendOK
<1>4. \A n \in Mail, u \in Socket : Talks(n, u)' => Talks(n, u)
  <2>1. SameTalk \/ EndsTalk(m)
    BY <1>0, <1>1, SendCases
  <2> QED BY <2>1, TalkFalls
<1>5. Shapes /\ ConvOK /\ ConvOK'
  BY <1>0 DEF Listed, Types
<1>6. ASSUME sk[s].st = "up", Talks(m, s), cmd # "RSET"
      PROVE  ToSend(m, s, cmd) /\ Rest = {} /\ outcome[m] = <<>> /\ ~conv[m].fp_called
  <2>1. SyncAt(m, s)
    BY <1>6 DEF Listed, Sync
  <2>2. ~CloseComes(m, s) /\ HasSend(s)
    BY <1>1, <1>3, <1>6 DEF SendOK
  <2>3. PICK c \in Commands : agenda = <<Send(m, s, c)>> /\ ToSend(m, s, c)
    BY <2>1, <2>2 DEF SyncAt
  <2>4. Top = Send(m, s, c) /\ DOMAIN agenda = {1}
    BY <2>3 DEF Top
  <2>5. c = cmd
    BY <2>4 DEF Send, Task
  <2>6. Rest = {}
    BY <2>4 DEF Rest
  <2>7. outcome[m] = <<>>
    BY <1>6 DEF Decided, Place, Talks
  <2> QED BY <2>1, <2>3, <2>5, <2>6, <2>7 DEF SyncAt
<1>7. CASE sk[s].st = "up"
  <2> DEFINE c == [conv[m] EXCEPT !.command = cmd]
  <2>1. PICK codes \in Codes(srv[s], m, cmd) :
           /\ line' = [line EXCEPT ![s] = @ \o codes]
           /\ srv' = [srv EXCEPT ![s] = Remember(@, m, cmd, codes)]
           /\ Learn(srv[s], m, cmd, codes)
    BY <1>1, <1>7 DEF SendCommand
  <2>2. Call(<<>>) /\ conv' = IF conv[m].sock = s THEN [conv EXCEPT ![m].command = cmd] ELSE conv
    BY <1>1, <1>7 DEF SendCommand
  <2>3. Pending' = Rest
    BY <1>0, <2>2, Popped
  <2>4. c.ok = conv[m].ok /\ c.fail = conv[m].fail /\ c.bounce = conv[m].bounce
        /\ c.recip_index = conv[m].recip_index /\ c.sock = conv[m].sock /\ c.processing = conv[m].processing
        /\ c.fp_called = conv[m].fp_called /\ c.command = cmd
    BY <1>5 DEF ConvOK, Fields
  <2>5. conv' = IF conv[m].sock = s THEN [conv EXCEPT ![m] = c] ELSE conv
    BY <2>2
  <2> HIDE DEF c
  <2>6. \A n \in Mail : n # m => conv'[n] = conv[n]
    BY <1>5, <2>5 DEF ConvOK
  <2>7. /\ conv'[m].ok = conv[m].ok /\ conv'[m].fail = conv[m].fail /\ conv'[m].bounce = conv[m].bounce
        /\ conv'[m].recip_index = conv[m].recip_index /\ conv'[m].sock = conv[m].sock
        /\ conv'[m].processing = conv[m].processing /\ conv'[m].fp_called = conv[m].fp_called
        /\ conv[m].sock # s => conv'[m] = conv[m]
        /\ conv[m].sock = s => conv'[m].command = cmd
    BY <1>5, <2>4, <2>5 DEF ConvOK
  <2>8. srv[s] \in Remote /\ codes \in Seq(Words) /\ line[s] \in Seq(Words)
    BY <1>3, <1>5, <2>1, Replied DEF Shapes
  <2>9. /\ \A u \in Socket : u # s => line'[u] = line[u] /\ srv'[u] = srv[u]
        /\ line'[s] = line[s] \o codes /\ srv'[s] = Remember(srv[s], m, cmd, codes)
    BY <1>5, <2>1 DEF Shapes
  <2>10. line' \in [Socket -> Seq(Words)]
    <3>1. line[s] \o codes \in Seq(Words)
      BY <2>8
    <3> QED BY <1>5, <2>1, <3>1 DEF Shapes
  <2>11. (cmd = "RCPT" => conv[m].recip_index \in Nat) => srv' \in [Socket -> Remote]
    <3> SUFFICES ASSUME cmd = "RCPT" => conv[m].recip_index \in Nat PROVE srv' \in [Socket -> Remote]
      OBVIOUS
    <3>1. Remember(srv[s], m, cmd, codes) \in Remote
      BY <1>3, <2>8, Remembers
    <3>2. srv' = [srv EXCEPT ![s] = Remember(srv[s], m, cmd, codes)]
      BY <1>5, <2>1 DEF Shapes
    <3> QED BY <1>5, <3>1, <3>2 DEF Shapes
  <2>12. DOMAIN said' = Mail /\ \A n \in Mail : n # m => said'[n] = said[n]
    <3>1. DOMAIN said = Mail
      BY <1>5 DEF Shapes
    <3> QED BY <2>1, <3>1 DEF Learn
  <2>13. \A n \in Mail : n # m => SameLists(n) /\ Going(n)
    BY <2>6, <2>12 DEF SameLists, Going
  <2>14. \A t \in Pending' : t \in Rest
    BY <2>3
  <2>15. Talks(m, s) => Talks(m, s)'
    BY <2>7 DEF Talks
  <2>16. CASE cmd = "RSET"
    <3>1. said' = said
      BY <2>1, <2>16 DEF Learn
    <3>2. SameLists(m)
      BY <2>7, <3>1 DEF SameLists
    <3>3. Shapes'
      BY <1>5, <2>10, <2>11, <2>16, <3>1 DEF Shapes
    <3>4. ASSUME Talks(m, s)' PROVE SyncAt(m, s)'
      <4>1. Talks(m, s) /\ CloseComes(m, s) /\ SyncAt(m, s)
        BY <1>1, <1>3, <1>4, <2>16, <3>4 DEF SendOK, Listed, Sync
      <4>3. ~conv[m].fp_called /\ <<m, s>> \notin streams
        BY <4>1 DEF SyncAt
      <4>4. CloseComes(m, s)'
        BY <1>0, <1>2, <2>3, <4>1 DEF CloseComes, Closes
      <4> QED BY <1>0, <2>7, <4>3, <4>4 DEF SyncAt
    <3>5. ASSUME NEW n \in Mail, NEW u \in Socket, u # s, Talks(n, u) PROVE Going(n) /\ Talks(n, u)'
      <4>1. CASE n # m
        BY <2>6, <2>13, <3>5, <4>1 DEF Talks
      <4>2. CASE n = m
        <5>1. conv'[n] = conv[n]
          BY <2>7, <3>5, <4>2 DEF Talks
        <5> QED BY <3>1, <3>5, <5>1 DEF Talks, Going, SameLists
      <4> QED BY <4>1, <4>2
    <3> QED BY <1>0, <1>1, <1>4, <2>9, <2>3, <2>13, <2>14, <2>15, <3>2, <3>3, <3>4, <3>5, SendAside
  <2>17. CASE cmd # "RSET"
    <3>1. Talks(m, s)
      BY <1>1, <1>3, <1>7, <2>17 DEF SendOK
    <3>2. ToSend(m, s, cmd) /\ Rest = {} /\ outcome[m] = <<>> /\ ~conv[m].fp_called
      BY <1>6, <1>7, <2>17, <3>1
    <3>3. line'[s] = codes
      <4>1. line[s] = <<>>
        BY <3>2 DEF ToSend
      <4> QED BY <2>8, <2>9, <4>1
    <3>4. conv'[m].command = cmd
      BY <2>7, <3>1 DEF Talks
    <3>5. DOMAIN said = Mail /\ said[m] \in [Rcpt(m) -> Words]
      BY <1>5 DEF Shapes
    <3>6. Expects(m, s)' /\ said'[m] \in [Rcpt(m) -> Words]
      BY <1>0, <1>3, <2>1, <2>7, <2>8, <2>9, <3>2, <3>3, <3>4, <3>5, Sent
    <3>7. Shapes'
      <4>1. cmd = "RCPT" => conv[m].recip_index \in Nat
        BY <3>2 DEF ToSend, Asking, Rcpt
      <4>2. \A n \in Mail : said'[n] \in [Rcpt(n) -> Words]
        BY <1>5, <2>12, <3>6 DEF Shapes
      <4> QED BY <2>10, <2>11, <2>12, <4>1, <4>2 DEF Shapes
    <3>8. SyncAt(m, s)'
      <4>1. ~HasSend(s)' /\ ~CloseComes(m, s)'
        BY <2>3, <3>2 DEF HasSend, CloseComes
      <4> QED BY <2>7, <3>2, <3>6, <4>1 DEF SyncAt
    <3>9. ASSUME NEW n \in Mail, NEW u \in Socket, u # s, Talks(n, u) PROVE Going(n) /\ Talks(n, u)'
      <4>1. n # m
        BY <3>1, <3>9 DEF Talks
      <4> QED BY <2>6, <2>13, <3>9, <4>1 DEF Talks
    <3>10. \A t \in Rest : ~Closes(t)
      BY <3>2
    <3> QED BY <1>0, <1>1, <1>4, <2>9, <2>3, <2>13, <2>14, <2>15, <3>2, <3>7, <3>8, <3>9, <3>10, SendAside
  <2> QED BY <2>16, <2>17
<1>8. CASE sk[s].st # "up" /\ Talks(m, s)
  <2>1. /\ conv' = [conv EXCEPT ![m].processing = FALSE]
        /\ Call(<<ReleaseBad(s), TryHost(m)>>)
        /\ UNCHANGED <<line, srv, said>>
    BY <1>1, <1>8 DEF SendCommand
  <2> DEFINE t == ReleaseBad(s)
             u == TryHost(m)
             c == [conv[m] EXCEPT !.processing = FALSE]
  <2>2. t \in Tasks /\ t.do = "release_client" /\ u \in Tasks /\ u.do = "try_deliver_host"
    BY TasksMade DEF ReleaseBad, TryHost, Task
  <2> HIDE DEF t, u
  <2>3. Pending' \subseteq Rest \cup {t, u}
    BY <1>0, <2>1, <2>2, Grew DEF t, u
  <2>4. c.ok = conv[m].ok /\ c.fail = conv[m].fail /\ c.bounce = conv[m].bounce
        /\ c.recip_index = conv[m].recip_index /\ c.processing = FALSE
    BY <1>5 DEF ConvOK, Fields
  <2>5. conv' = [conv EXCEPT ![m] = c]
    BY <2>1
  <2> HIDE DEF c
  <2>6. conv'[m] = c /\ \A n \in Mail : n # m => conv'[n] = conv[n]
    BY <1>5, <2>5 DEF ConvOK
  <2>7. \A n \in Mail : SameLists(n)
    BY <2>1, <2>4, <2>6 DEF SameLists
  <2>8. \A n \in Mail : n # m => Going(n)
    BY <2>6, <2>7 DEF Going
  <2>9. ~conv'[m].processing
    BY <2>4, <2>6
  <2>10. ~Talks(m, s)'
    BY <2>9 DEF Talks
  <2>11. ASSUME NEW n \in Mail, NEW v \in Socket, v # s, Talks(n, v) PROVE Going(n) /\ Talks(n, v)'
    <3>1. n # m
      BY <1>8, <2>11 DEF Talks
    <3> QED BY <2>6, <2>8, <2>11, <3>1 DEF Talks
  <2>12. \A w \in Pending' : w \in Rest \/ w.do \in {"release_client", "try_deliver_host"}
    BY <2>2, <2>3
  <2>13. Shapes'
    BY <1>5, <2>1 DEF Shapes
  <2>14. \A v \in Socket : v # s => line'[v] = line[v] /\ srv'[v] = srv[v]
    BY <2>1
  <2> QED BY <1>0, <1>1, <1>4, <1>8, <2>7, <2>10, <2>11, <2>12, <2>13, <2>14, SendAside
<1>9. CASE sk[s].st # "up" /\ ~Talks(m, s)
  <2>1. Call(<<>>) /\ UNCHANGED <<conv, line, srv, said>>
    BY <1>1, <1>9 DEF SendCommand
  <2>2. Pending' = Rest
    BY <1>0, <2>1, Popped
  <2>3. \A n \in Mail : SameLists(n) /\ Going(n)
    BY <2>1 DEF SameLists, Going
  <2>4. \A n \in Mail, v \in Socket : Talks(n, v)' <=> Talks(n, v)
    BY <2>1 DEF Talks
  <2>5. Shapes'
    BY <1>5, <2>1 DEF Shapes
  <2>6. \A v \in Socket : v # s => line'[v] = line[v] /\ srv'[v] = srv[v]
    BY <2>1
  <2> QED BY <1>0, <1>1, <1>9, <2>2, <2>3, <2>4, <2>5, <2>6, SendAside
<1> QED BY <1>7, <1>8, <1>9

------------------------------------------------------------------------------
(* A conversation ends. *)

\* A step that changes no conversation but that of m, which is stopped.
LEMMA AsideStops ==
    ASSUME Lent, Listed, Types', UNCHANGED <<cfg, sk, pool, line, srv, streams, said>>,
           agenda = <<>> \/ (Top.do # "send_command" /\ \A t \in Rest : ~Closes(t)),
           \A t \in Pending' : t \in Rest \/ t.do \in {"release_client", "try_deliver_host"}
                                          \/ (t.do = "decide" /\ t.arg \in {"temp_fail", "bounce"}),
           NEW m \in Mail, EndsTalk(m),
           \A u \in Socket : Talks(m, u) => agenda # <<>> /\ Closes(Top) /\ Top.mail = m /\ CloseComes(m, u),
           agenda # <<>> /\ Closes(Top) => Top.mail = m,
           \A n \in Mail : Finished(n)' => Covers(n, Rcpts[n]) /\ SameLists(n)
    PROVE  Listed'
<1>1. Types /\ Shapes /\ Shapes' /\ (agenda = <<>> => Rest = {}) /\ Rest \subseteq Pending
  <2>1. Shapes /\ Shapes'
    BY DEF Listed, Shapes
  <2>2. agenda = <<>> => Pending = {}
    BY IdleAgenda
  <2> QED BY <2>1, <2>2 DEF Lent, Rest, Pending
<1>2. \A t \in Pending' : /\ ~Closes(t)
                          /\ IsSend(t) => t \in Pending
                          /\ t.do = "decide" => t.arg \in {"temp_fail", "bounce"}
                          /\ t.do # "try_deliver_host_on_socket"
  <2> SUFFICES ASSUME NEW t \in Pending'
               PROVE  /\ ~Closes(t)
                      /\ IsSend(t) => t \in Pending
                      /\ t.do = "decide" => t.arg \in {"temp_fail", "bounce"}
                      /\ t.do # "try_deliver_host_on_socket"
    OBVIOUS
  <2>1. CASE t \in Rest
    <3>1. ~Closes(t) /\ t \in Pending /\ t.do # "try_deliver_host_on_socket"
      BY <1>1, <2>1 DEF Lent, OnTop
    <3> QED BY <3>1 DEF Listed, Ends
  <2>2. CASE t \notin Rest
    BY <2>2 DEF Closes, IsSend
  <2> QED BY <2>1, <2>2
<1>3. AllFresh'
  <2>1. \A u \in Socket : (Pooled(u)' <=> Pooled(u)) /\ ~ToLend(u)'
    BY <1>2, NoLend DEF Pooled
  <2> QED BY <1>2, <2>1, StaysFresh DEF Listed, AllFresh
<1>4. \A n \in Mail : n # m => conv'[n] = conv[n] /\ Going(n) /\ \A u \in Socket : Talks(n, u)' <=> Talks(n, u)
  BY DEF EndsTalk, Going, SameLists, Talks
<1>5. \A u \in Socket : ~Talks(m, u)'
  BY TalkEnds
<1>6. \A n \in Mail, u \in Socket : Talks(n, u)' => n # m /\ Talks(n, u) /\ Going(n)
  BY <1>4, <1>5
<1>7. ASSUME NEW st \in streams', Talks(st[1], st[2]) PROVE Talks(st[1], st[2])'
  <2>1. st \in streams /\ st[1] \in Mail /\ st[2] \in Socket /\ st = <<st[1], st[2]>>
    BY <1>1 DEF Types
  <2>2. CASE st[1] = m
    <3>1. CloseComes(m, st[2]) /\ Talks(m, st[2])
      BY <1>7, <2>1, <2>2
    <3>2. SyncAt(m, st[2])
      BY <2>1, <3>1 DEF Listed, Sync
    <3>3. <<m, st[2]>> \notin streams
      BY <3>1, <3>2 DEF SyncAt
    <3> QED BY <2>1, <2>2, <3>3
  <2>3. CASE st[1] # m
    BY <1>4, <1>7, <2>1, <2>3
  <2> QED BY <2>2, <2>3
<1> QED BY <1>1, <1>2, <1>3, <1>6, <1>7, Aside

LEMMA NotFinished ==
    ASSUME Decided, NEW m \in Mail, Tokened(m) \/ conv[m].processing \/ Waits(m)
    PROVE  outcome[m] = <<>> /\ ~Finished(m)
<1>1. outcome[m] = <<>>
  BY DEF Decided, Place
<1> QED BY <1>1 DEF Finished

LEMMA DecidesLists ==
    ASSUME Lent, Decided, Listed, Decides
    PROVE  Listed'
<1>0. /\ agenda \in Seq(Tasks) /\ agenda # <<>> /\ Top.do \in {"decide", "stop"} /\ Types
  BY DEF Lent, Types, Decides, Doing
<1>1. PICK m \in Mail : m = Top.mail
  BY <1>0, TopTask DEF Tasks, ForMail
<1>2. /\ Types' /\ UNCHANGED <<cfg, sk, pool, line, srv, streams, said>>
      /\ Call(<<>>)
  BY <1>0, DecidesCases DEF Decides
<1>3. Pending' = Rest
  BY <1>0, <1>2, Popped
<1>4. Top \in Pending /\ \A t \in Rest : ~Closes(t)
  BY <1>0, TopTask, NoCloses DEF Pending
<1>5. CASE Top.do = "decide"
  <2>1. UNCHANGED conv /\ outcome' = [outcome EXCEPT ![m] = Append(@, Top.arg)]
    BY <1>0, <1>1, <1>5 DEF Decides, Doing
  <2>2. Top.arg \in {"temp_fail", "bounce"}
    BY <1>4, <1>5 DEF Listed, Ends
  <2>3. Tokened(m)
    BY <1>1, <1>4, <1>5 DEF Tokened, Token
  <2>4. outcome[m] = <<>>
    BY <2>3, NotFinished
  <2>5. outcome'[m] = <<Top.arg>> /\ \A n \in Mail : n # m => outcome'[n] = outcome[n]
    BY <2>1, <2>4 DEF Decided
  <2>6. ~Finished(m)'
    BY <2>2, <2>5 DEF Finished
  <2>7. \A n \in Mail : Going(n) /\ (Finished(n)' => Covers(n, Rcpts[n]) /\ SameLists(n))
    <3>1. \A n \in Mail : Going(n) /\ SameLists(n)
      BY <1>2, <2>1 DEF Going, SameLists
    <3>2. \A n \in Mail : Finished(n)' => Finished(n)
      BY <2>5, <2>6 DEF Finished
    <3> QED BY <3>1, <3>2 DEF Listed, Told
  <2>8. \A n \in Mail, u \in Socket : Talks(n, u)' <=> Talks(n, u)
    BY <2>1 DEF Talks
  <2>9. \A t \in Pending' : /\ ~Closes(t)
                            /\ IsSend(t) => t \in Pending
                            /\ t.do = "decide" => t.arg \in {"temp_fail", "bounce"}
                            /\ t.do # "try_deliver_host_on_socket"
    BY <1>3, <1>4 DEF Listed, Ends, Rest, Pending, Lent, OnTop
  <2>10. AllFresh'
    <3>1. \A u \in Socket : (Pooled(u)' <=> Pooled(u)) /\ ~ToLend(u)'
      BY <1>2, <2>9, NoLend DEF Pooled
    <3> QED BY <1>2, <2>9, <3>1, StaysFresh DEF Listed, AllFresh
  <2>11. Shapes'
    BY <1>2 DEF Listed, Shapes
  <2>12. ~Closes(Top)
    BY <1>5 DEF Closes
  <2>13. \A st \in streams' : st[1] \in Mail /\ st[2] \in Socket
    BY <1>2 DEF Types
  <2> QED BY <1>0, <1>2, <1>4, <2>7, <2>8, <2>9, <2>10, <2>11, <2>12, <2>13, Aside
<1>6. CASE Top.do = "stop"
  <2> DEFINE s == Top.sock
             c == [conv[m] EXCEPT !.processing = FALSE]
  <2>1. Closes(Top) /\ Talks(m, s) /\ s \in Socket
    BY <1>0, <1>1, <1>4, <1>6, TopTask DEF Decided, Closing, Closes, Tasks, ForSocket
  <2>2. EndsTalk(m) /\ UNCHANGED outcome
    BY <1>0, <1>1, <1>6, <2>1, DecidesCases DEF Talks
  <2>3. conv' = [conv EXCEPT ![m] = c]
    BY <1>0, <1>1, <1>6, <2>1 DEF Decides, Doing, Stopped, Talks
  <2>4. conv[m].processing
    BY <2>1 DEF Talks
  <2>5. ~Finished(m)
    BY <2>4, NotFinished
  <2>6. \A n \in Mail : Finished(n)' => Covers(n, Rcpts[n]) /\ SameLists(n)
    <3> SUFFICES ASSUME NEW n \in Mail, Finished(n)' PROVE Covers(n, Rcpts[n]) /\ SameLists(n)
      OBVIOUS
    <3>1. outcome' = outcome
      BY <2>2
    <3>2. Finished(n)
      BY <3>1 DEF Finished
    <3>3. n # m
      BY <2>5, <3>2
    <3>4. conv'[n] = conv[n] /\ said' = said
      BY <1>2, <2>2, <3>3 DEF EndsTalk
    <3> QED BY <3>2, <3>4 DEF Listed, Told, SameLists
  <2>7. \A u \in Socket : Talks(m, u) => CloseComes(m, u)
    <3>1. \A u \in Socket : Talks(m, u) => u = s
      BY <2>1 DEF Talks
    <3> QED BY <1>1, <1>4, <2>1, <3>1 DEF CloseComes
  <2> QED BY <1>0, <1>1, <1>2, <1>3, <1>4, <2>1, <2>2, <2>6, <2>7, AsideStops
<1> QED BY <1>0, <1>5, <1>6

LEMMA FinishLists ==
    ASSUME Lent, Decided, Listed, FinishProcessingMail
    PROVE  Listed'
<1>0. /\ agenda \in Seq(Tasks) /\ agenda # <<>> /\ Top.do = "finish_processing_mail" /\ Types
  BY DEF Lent, Types, FinishProcessingMail, Doing
<1>1. PICK m \in Mail, s \in Socket : m = Top.mail /\ s = Top.sock
  BY <1>0, TopTask DEF Tasks, ForMail, ForSocket
<1>2. Top \in Pending /\ Closes(Top) /\ \A t \in Rest : ~Closes(t)
  BY <1>0, TopTask, NoCloses DEF Pending, Closes
<1>3. Talks(m, s) /\ CloseComes(m, s) /\ ~conv[m].fp_called /\ conv[m].sock = s
  <2>1. Talks(m, s) /\ CloseComes(m, s)
    BY <1>1, <1>2 DEF Decided, Closing, CloseComes
  <2> QED BY <2>1 DEF Listed, Sync, SyncAt, Talks
<1> DEFINE t == Release(s)
           c == [conv[m] EXCEPT !.fp_called = TRUE, !.processing = FALSE]
<1>4. /\ conv' = [conv EXCEPT ![m].fp_called = TRUE, ![m].processing = FALSE]
      /\ outcome' = [outcome EXCEPT ![m] = Append(@, Top.arg)]
      /\ Call(<<t>>) /\ UNCHANGED <<cfg, sk, pool, line, srv, streams, said>>
  BY <1>0, <1>1, <1>3 DEF FinishProcessingMail
<1>5. conv' = [conv EXCEPT ![m] = c]
  BY <1>4
<1>6. c.ok = conv[m].ok /\ c.fail = conv[m].fail /\ c.bounce = conv[m].bounce /\ c.recip_index = conv[m].recip_index
  BY <1>0 DEF Types, ConvOK, Fields
<1>7. t \in Tasks /\ t.do = "release_client"
  BY TasksMade DEF Release, Task
<1> HIDE DEF c, t
<1>8. Pending' = Rest \cup {t}
  BY <1>0, <1>4, <1>7, Became
<1>9. EndsTalk(m) /\ Types'
  <2>1. Types'
    BY <1>0, FinishCases
  <2>2. EndsTalk(m)
    BY <1>0, <1>4, StopsTalk DEF Types
  <2> QED BY <2>1, <2>2
<1>10. SameLists(m) /\ \A n \in Mail : n # m => SameLists(n)
  BY <1>0, <1>4, <1>5, <1>6 DEF SameLists, Types, ConvOK
<1>11. Covers(m, Rcpts[m])
  BY <1>0, <1>1, <1>2 DEF Listed, Ends
<1>12. \A n \in Mail : Finished(n)' => Covers(n, Rcpts[n]) /\ SameLists(n)
  <2>1. \A n \in Mail : n # m => (Finished(n)' => Finished(n))
    BY <1>4 DEF Finished, Decided
  <2> QED BY <1>10, <1>11, <2>1 DEF Listed, Told
<1>13. \A u \in Socket : Talks(m, u) => CloseComes(m, u)
  BY <1>3 DEF Talks
<1> QED BY <1>0, <1>1, <1>2, <1>4, <1>7, <1>8, <1>9, <1>12, <1>13, AsideStops

LEMMA StartLists ==
    ASSUME Lent, Listed, NEW m \in Mail, Start(m)
    PROVE  Listed'
<1>1. Types /\ Types' /\ agenda = <<>> /\ agenda' = <<TryHost(m)>>
  BY StartTypes DEF Lent, Start, Idle
<1>2. UNCHANGED <<cfg, conv, outcome, sk, line, srv, pool, streams, said>>
  BY DEF Start
<1>3. TryHost(m) \in Tasks /\ TryHost(m).do = "try_deliver_host"
  BY TasksMade DEF TryHost, Task
<1>4. Pending' = {TryHost(m)}
  BY <1>1, <1>3, FreshOne
<1>5. \A u \in Pending' : u.do = "try_deliver_host"
  BY <1>3, <1>4
<1>6. Shapes'
  BY <1>2 DEF Listed, Shapes
<1>7. AllFresh'
  <2>1. \A u \in Socket : (Pooled(u)' <=> Pooled(u)) /\ ~ToLend(u)'
    BY <1>1, <1>2, <1>5, NoLend DEF Pooled
  <2> QED BY <1>2, <1>5, <2>1, StaysFresh DEF Listed, AllFresh, IsSend
<1> QED BY <1>1, <1>2, <1>5, <1>6, <1>7, AsidePool DEF Closes, IsSend

------------------------------------------------------------------------------
(* Events. *)

\* An event after which the calls are about the socket of a conversation, or
\* of the file it reads.
LEMMA AfterEvent ==
    ASSUME Lent, Decided, Listed, Types', SameTalk, agenda = <<>>, UNCHANGED <<cfg, sk, pool, outcome, srv, said>>,
           NEW m \in Mail, NEW s \in Socket, Talks(m, s) \/ <<m, s>> \in streams,
           sk[s].st = "up" => Talks(m, s),
           line' \in [Socket -> Seq(Words)], \A u \in Socket : u # s => line'[u] = line[u],
           \A n \in Mail : conv'[n] = conv[n] \/ (n = m /\ Talks(m, s)),
           streams' \subseteq streams \cup {<<m, s>>},
           \A t \in Pending' : /\ (t.mail = m /\ t.sock = s) \/ t.do \in {"release_client", "decide"}
                               /\ t.do # "try_deliver_host_on_socket"
                               /\ t.do = "finish_processing_mail" => Covers(m, Rcpts[m])'
                               /\ t.do = "decide" => t.arg \in {"temp_fail", "bounce"}
                               /\ IsSend(t) => t.arg \in Commands /\ (t.arg = "RSET" <=> CloseComes(m, s)'),
           Talks(m, s) => SyncAt(m, s)'
    PROVE  Listed'
<1>0. Types /\ Pending = {}
  BY IdleAgenda DEF Lent
<1>1. \A n \in Mail, u \in Socket : Talks(n, u)' <=> Talks(n, u)
  BY DEF SameTalk, Talks
<1>2. \A n \in Mail : Talks(n, s) => n = m
  <2>1. CASE Talks(m, s)
    BY <2>1, OneTalks
  <2>2. CASE <<m, s>> \in streams
    <3>1. <<m, s>>[1] = m /\ <<m, s>>[2] = s
      OBVIOUS
    <3> QED BY <2>2, <3>1 DEF Listed, Streams
  <2> QED BY <2>1, <2>2
<1>3. sk[s].st # "connecting" /\ ~Pooled(s)
  <2>1. CASE Talks(m, s)
    <3>1. sk[s].acquired
      BY <2>1, OneTalks
    <3> QED BY <3>1 DEF Lent, Apart
  <2>2. CASE <<m, s>> \in streams
    <3>1. <<m, s>>[2] = s
      OBVIOUS
    <3>2. ~Blank(s)
      BY <2>2, <3>1 DEF Blank
    <3> QED BY <3>2 DEF Listed, AllFresh, Fresh
  <2> QED BY <2>1, <2>2
<1>4. \A n \in Mail : conv'[n] = conv[n] => SameLists(n) /\ Going(n)
  BY DEF SameLists, Going
<1>5. Shapes'
  BY DEF Listed, Shapes
<1>6. Sync'
  <2> SUFFICES ASSUME NEW n \in Mail, NEW u \in Socket, Talks(n, u)' PROVE SyncAt(n, u)'
    BY DEF Sync
  <2>1. Talks(n, u)
    BY <1>1
  <2>2. CASE u = s
    <3>1. n = m
      BY <1>2, <2>1, <2>2
    <3> QED BY <2>1, <2>2, <3>1
  <2>3. CASE u # s
    <3>1. ~conv[n].fp_called /\ Expects(n, u)
      BY <1>0, <2>1, Expecting DEF Listed
    <3>2. ~(n = m /\ Talks(m, s))
      BY <2>1, <2>3 DEF Talks
    <3>3. conv'[n] = conv[n] /\ Going(n)
      BY <1>4, <3>2
    <3>4. line'[u] = line[u] /\ srv'[u] = srv[u]
      BY <2>3
    <3>5. <<n, u>> \in streams' => <<n, u>> \in streams
      BY <2>3
    <3>6. Expects(n, u)'
      BY <3>1, <3>3, <3>4, <3>5, ExpectsSame
    <3>7. ~HasSend(u)' /\ ~CloseComes(n, u)'
      BY <2>3 DEF HasSend, CloseComes, IsSend, Closes
    <3> QED BY <3>1, <3>3, <3>6, <3>7 DEF SyncAt
  <2> QED BY <2>2, <2>3
<1>7. Ends'
  <2> SUFFICES ASSUME NEW t \in Pending', t.do = "finish_processing_mail" PROVE Covers(t.mail, Rcpts[t.mail])'
    BY DEF Ends
  <2>1. t.mail = m /\ Covers(m, Rcpts[m])'
    OBVIOUS
  <2> QED BY <2>1
<1>8. Sends'
  <2> SUFFICES ASSUME NEW t \in Pending', IsSend(t) PROVE SendOK(t)'
    BY DEF Sends
  <2>1. t.mail = m /\ t.sock = s /\ t.arg \in Commands /\ (t.arg = "RSET" <=> CloseComes(m, s)')
    BY DEF IsSend
  <2>2. sk'[s].st = "up" => Talks(m, s)' /\ sk'[s].mail = m
    BY <1>1, OneTalks
  <2> QED BY <2>1, <2>2 DEF SendOK
<1>9. Streams'
  <2> SUFFICES ASSUME NEW st \in streams'
               PROVE  /\ sk'[st[2]].st = "up" => Talks(st[1], st[2])'
                      /\ \A n \in Mail : Talks(n, st[2])' => n = st[1]
    BY DEF Streams
  <2>1. st[1] \in Mail /\ st[2] \in Socket
    BY DEF Types
  <2>2. CASE st \in streams
    BY <1>1, <2>1, <2>2 DEF Listed, Streams
  <2>3. CASE st \notin streams
    <3>1. st = <<m, s>>
      BY <2>3
    <3>2. st[1] = m /\ st[2] = s
      BY <3>1
    <3> QED BY <1>1, <1>2, <3>2
  <2> QED BY <2>2, <2>3
<1>10. AllFresh'
  <2> SUFFICES ASSUME NEW u \in Socket PROVE Fresh(u)'
    BY DEF AllFresh
  <2>1. (Pooled(u)' <=> Pooled(u)) /\ ~ToLend(u)'
    BY NoLend DEF Pooled
  <2>2. Fresh(u) /\ sk'[u] = sk[u]
    BY DEF Listed, AllFresh
  <2>3. CASE u = s
    BY <1>3, <2>1, <2>2, <2>3 DEF Fresh
  <2>4. CASE u # s
    <3>1. ASSUME Blank(u) PROVE Blank(u)'
      <4>1. ~HasSend(u)'
        BY <2>4 DEF HasSend, IsSend
      <4>2. \A st \in streams' : st[2] # u
        <5>1. <<m, s>>[2] = s
          OBVIOUS
        <5> QED BY <2>4, <3>1, <5>1 DEF Blank
      <4>3. line'[u] = line[u] /\ srv'[u] = srv[u] /\ NoServer' = NoServer
        BY <2>4 DEF NoServer
      <4> QED BY <3>1, <4>1, <4>2, <4>3 DEF Blank
    <3> QED BY <2>1, <2>2, <3>1 DEF Fresh
  <2> QED BY <2>3, <2>4
<1>11. Told'
  <2> SUFFICES ASSUME NEW n \in Mail, Finished(n)' PROVE Covers(n, Rcpts[n])'
    BY DEF Told
  <2>1. outcome' = outcome
    OBVIOUS
  <2>2. Finished(n)
    BY <2>1 DEF Finished
  <2>3. Talks(m, s) => ~Finished(m)
    BY NotFinished DEF Talks
  <2>4. SameLists(n) /\ Covers(n, Rcpts[n])
    BY <1>4, <2>2, <2>3 DEF Listed, Told
  <2> QED BY <2>4, CoversSame
<1> QED BY <1>5, <1>6, <1>7, <1>8, <1>9, <1>10, <1>11 DEF Listed

LEMMA StreamLists ==
    ASSUME Lent, Decided, Listed, NEW st \in streams, StreamEnds(st[1], st[2])
    PROVE  Listed'
<1>1. PICK m \in Mail, s \in Socket : m = st[1] /\ s = st[2] /\ st = <<m, s>>
  <2>1. st \in Mail \X Socket
    BY DEF Lent, Types
  <2> QED BY <2>1
<1>2. /\ Types' /\ SameTalk /\ agenda = <<>> /\ agenda' = <<Send(m, s, "DOT")>>
      /\ UNCHANGED <<cfg, conv, sk, pool, outcome, srv, said, line>>
      /\ streams' = streams \ {<<m, s>>}
  <2>1. Types' /\ SameTalk /\ agenda = <<>>
    BY StreamTypes DEF Lent
  <2> QED BY <1>1, <2>1 DEF StreamEnds
<1> DEFINE t == Send(m, s, "DOT")
<1>3. t \in Tasks /\ t.mail = m /\ t.sock = s /\ t.do = "send_command" /\ t.arg = "DOT"
  BY TasksMade DEF Args, Send, Task
<1>4. agenda' = <<t>> /\ Pending' = {t}
  BY <1>2, <1>3, FreshOne
<1>5. ~CloseComes(m, s)'
  BY <1>3, <1>4 DEF CloseComes, Closes
<1>6. \A u \in Pending' : /\ u.mail = m /\ u.sock = s /\ u.do = "send_command" /\ u.arg = "DOT"
  BY <1>3, <1>4
<1>7. <<m, s>> \in streams /\ (sk[s].st = "up" => Talks(m, s))
  BY <1>1 DEF Listed, Streams
<1>8. ASSUME Talks(m, s) PROVE SyncAt(m, s)'
  <2>1. ~conv[m].fp_called /\ Expects(m, s)
    <3>1. Pending = {}
      BY <1>2, IdleAgenda
    <3> QED BY <1>2, <1>8, Expecting DEF Listed, Lent
  <2>2. line[s] = <<>> /\ Asked(m)
    BY <1>7, <2>1 DEF Expects
  <2>3. SameLists(m)
    BY <1>2 DEF SameLists
  <2>4. Asked(m)'
    BY <1>2, <2>2, <2>3, CoversSame DEF Asked
  <2>5. ToSend(m, s, "DOT")'
    BY <1>2, <2>2, <2>4 DEF ToSend
  <2>6. agenda' = <<Send(m, s, "DOT")>>' /\ "DOT" \in Commands
    BY <1>2 DEF Send, Task, Commands, None
  <2> QED BY <1>2, <1>5, <2>1, <2>5, <2>6 DEF SyncAt
<1>9. line' \in [Socket -> Seq(Words)]
  BY <1>2 DEF Listed, Shapes
<1>10. "DOT" \in Commands
  BY DEF Commands
<1>11. \A u \in Pending' : /\ (u.mail = m /\ u.sock = s) \/ u.do \in {"release_client", "decide"}
                           /\ u.do # "try_deliver_host_on_socket"
                           /\ u.do = "finish_processing_mail" => Covers(m, Rcpts[m])'
                           /\ u.do = "decide" => u.arg \in {"temp_fail", "bounce"}
                           /\ IsSend(u) => u.arg \in Commands /\ (u.arg = "RSET" <=> CloseComes(m, s)')
  BY <1>5, <1>6, <1>10
<1> QED BY <1>2, <1>7, <1>8, <1>9, <1>11, AfterEvent

LEMMA SortedFields ==
    ASSUME NEW c, DOMAIN c = Fields, NEW code
    PROVE  DOMAIN Sorted(c, code) = Fields /\ Sorted(c, code).recip_index = c.recip_index
  BY DEF Sorted, Fields

LEMMA TailOfOne ==
    ASSUME NEW S, NEW q \in Seq(S), q # <<>>, Len(q) =< 1
    PROVE  Tail(q) = <<>> /\ q = <<Head(q)>> /\ Head(q) \in S
<1>1. Len(q) = 1
  <2>1. Len(q) # 0 /\ Len(q) \in Nat
    OBVIOUS
  <2> QED BY <2>1
<1>2. q[1] \in S /\ Head(q) = q[1] /\ Tail(q) = <<>>
  BY <1>1, FirstOf
<1>3. q = <<Head(q)>>
  <2> DEFINE x == Head(q)
             p == <<x>>
  <2>1. x \in S /\ p \in Seq(S) /\ Len(p) = 1 /\ p[1] = x
    BY <1>2
  <2>2. q[1] = x
    BY <1>2
  <2> HIDE DEF x, p
  <2>3. p = [i \in 1 .. 1 |-> p[i]] /\ q = [i \in 1 .. 1 |-> q[i]]
    BY <1>1, <2>1
  <2>4. \A i \in 1 .. 1 : i = 1
    OBVIOUS
  <2>5. p = q
    BY <2>1, <2>2, <2>3, <2>4
  <2> QED BY <2>5 DEF x, p
<1> QED BY <1>2, <1>3

\* The switch over command.
LEMMA ProceedLists ==
    ASSUME Lent, Decided, Listed, Types', SameTalk, agenda = <<>>, UNCHANGED <<cfg, sk, pool, outcome, srv, said>>,
           NEW m \in Mail, NEW s \in Socket, Talks(m, s),
           line' = [line EXCEPT ![s] = Tail(@)], line[s] # <<>>, Head(line[s]) # "odd",
           ~RefusesMail(conv[m].command, Head(line[s])), Proceed(m, s, Head(line[s]))
    PROVE  Listed'
<1> DEFINE c == conv[m]
           code == Head(line[s])
           to == <<m, s>>
<1>0. Types /\ Shapes /\ DOMAIN conv = Mail /\ DOMAIN c = Fields
  BY DEF Lent, Types, ConvOK, Listed
<1>1. ~c.fp_called /\ Expects(m, s) /\ c.command # "RSET"
  <2>1. ~c.fp_called /\ Expects(m, s)
    BY <1>0, Expecting, IdleAgenda DEF Listed
  <2> QED BY <2>1 DEF Expects
<1>2. to \notin streams
  BY <1>1 DEF Expects
<1>3. line[s] \in Seq(Words)
  BY <1>0 DEF Shapes
<1>4. c.command # "DOT" => line'[s] = <<>> /\ line[s] = <<code>>
  <2> SUFFICES ASSUME c.command # "DOT" PROVE line'[s] = <<>> /\ line[s] = <<code>>
    OBVIOUS
  <2>1. Len(line[s]) =< 1
    BY <1>1 DEF Expects
  <2>2. Tail(line[s]) = <<>> /\ line[s] = <<code>>
    BY <1>3, <2>1, TailOfOne
  <2> QED BY <1>0, <2>2 DEF Shapes
<1>5. c.command # "connect" => code \in Replies(c.command)
  <2>1. 1 \in DOMAIN line[s] /\ code = line[s][1]
    BY <1>3
  <2> QED BY <1>1, <2>1 DEF Expects
<1>6. /\ line' \in [Socket -> Seq(Words)]
      /\ \A u \in Socket : u # s => line'[u] = line[u]
      /\ line'[s] \in Seq(Words) /\ line'[s] = Tail(line[s])
  <2>1. Tail(line[s]) \in Seq(Words)
    BY <1>3
  <2> QED BY <1>0, <2>1 DEF Shapes
<1>7. conv'[m].fp_called = c.fp_called
  BY DEF SameTalk
\* The next command.
<1>8. ASSUME NEW cmd \in Commands, cmd # "RSET", agenda' = <<Send(m, s, cmd)>>, ToSend(m, s, cmd)',
             streams' = streams, \A n \in Mail : n # m => conv'[n] = conv[n]
      PROVE  Listed'
  <2> DEFINE t == Send(m, s, cmd)
  <2>1. t \in Tasks /\ t.mail = m /\ t.sock = s /\ t.do = "send_command" /\ t.arg = cmd
    <3>1. cmd \in Args
      BY <1>8 DEF Args, ToSend
    <3> QED BY <3>1, TasksMade DEF Send, Task
  <2>2. Pending' = {t}
    BY <1>8, <2>1, FreshOne
  <2>3. \A u \in Pending' : u.mail = m /\ u.sock = s /\ u.do = "send_command" /\ u.arg = cmd
    BY <2>1, <2>2
  <2>4. ~CloseComes(m, s)'
    BY <2>3 DEF CloseComes, Closes
  <2>5. agenda' = <<Send(m, s, cmd)>>'
    BY <1>8 DEF Send, Task, None
  <2>6. SyncAt(m, s)'
    BY <1>1, <1>7, <1>8, <2>4, <2>5 DEF SyncAt
  <2>7. \A u \in Pending' : /\ (u.mail = m /\ u.sock = s) \/ u.do \in {"release_client", "decide"}
                            /\ u.do # "try_deliver_host_on_socket"
                            /\ u.do = "finish_processing_mail" => Covers(m, Rcpts[m])'
                            /\ u.do = "decide" => u.arg \in {"temp_fail", "bounce"}
                            /\ IsSend(u) => u.arg \in Commands /\ (u.arg = "RSET" <=> CloseComes(m, s)')
    BY <1>8, <2>3, <2>4
  <2>8. \A n \in Mail : conv'[n] = conv[n] \/ (n = m /\ Talks(m, s))
    BY <1>8
  <2> QED BY <1>6, <1>8, <2>6, <2>7, <2>8, AfterEvent
\* The last one.
<1>9. ASSUME NEW how \in {"delivered", "discarded"}, Covers(m, Rcpts[m])',
             \/ agenda' = <<Send(m, s, "RSET"), Finish(m, s, how)>>
             \/ agenda' = <<Finish(m, s, how), Send(m, s, "RSET")>>
             \/ agenda' = <<Finish(m, s, how)>>,
             streams' = streams, \A n \in Mail : n # m => conv'[n] = conv[n]
      PROVE  Listed'
  <2> DEFINE t == Send(m, s, "RSET")
             f == Finish(m, s, how)
  <2>1. /\ t.mail = m /\ t.sock = s /\ t.do = "send_command" /\ t.arg = "RSET"
        /\ f.mail = m /\ f.sock = s /\ f.do = "finish_processing_mail"
    BY DEF Send, Finish, Task
  <2> HIDE DEF t, f
  <2>2. Pending' \subseteq {t, f} /\ f \in Pending'
    <3>1. CASE agenda' = <<t, f>>
      <4>1. DOMAIN agenda' = {1, 2} /\ agenda'[1] = t /\ agenda'[2] = f
        BY <3>1
      <4> QED BY <4>1 DEF Pending
    <3>2. CASE agenda' = <<f, t>>
      <4>1. DOMAIN agenda' = {1, 2} /\ agenda'[1] = f /\ agenda'[2] = t
        BY <3>2
      <4> QED BY <4>1 DEF Pending
    <3>3. CASE agenda' = <<f>>
      <4>1. DOMAIN agenda' = {1} /\ agenda'[1] = f
        BY <3>3
      <4> QED BY <4>1 DEF Pending
    <3> QED BY <1>9, <3>1, <3>2, <3>3 DEF t, f
  <2>3. CloseComes(m, s)'
    BY <2>1, <2>2 DEF CloseComes, Closes
  <2>4. SyncAt(m, s)'
    BY <1>1, <1>2, <1>7, <1>9, <2>3 DEF SyncAt
  <2>5. "RSET" \in Commands
    BY DEF Commands
  <2>6. \A u \in Pending' : /\ (u.mail = m /\ u.sock = s) \/ u.do \in {"release_client", "decide"}
                            /\ u.do # "try_deliver_host_on_socket"
                            /\ u.do = "finish_processing_mail" => Covers(m, Rcpts[m])'
                            /\ u.do = "decide" => u.arg \in {"temp_fail", "bounce"}
                            /\ IsSend(u) => u.arg \in Commands /\ (u.arg = "RSET" <=> CloseComes(m, s)')
    BY <1>9, <2>1, <2>2, <2>3, <2>5 DEF IsSend
  <2>7. \A n \in Mail : conv'[n] = conv[n] \/ (n = m /\ Talks(m, s))
    BY <1>9
  <2> QED BY <1>6, <1>9, <2>4, <2>6, <2>7, AfterEvent
\* Another reply, or the end of the file, is awaited.
<1>10. ASSUME agenda' = <<>>, Expects(m, s)', streams' \subseteq streams \cup {to},
              \A n \in Mail : n # m => conv'[n] = conv[n]
       PROVE  Listed'
  <2>1. Pending' = {}
    BY <1>10, FreshNone
  <2>2. SyncAt(m, s)'
    BY <1>1, <1>7, <1>10, <2>1 DEF SyncAt, HasSend, CloseComes
  <2>3. \A n \in Mail : conv'[n] = conv[n] \/ (n = m /\ Talks(m, s))
    BY <1>10
  <2> QED BY <1>6, <1>10, <2>1, <2>2, <2>3, AfterEvent
<1>11. ASSUME UNCHANGED conv PROVE SameLists(m) /\ \A n \in Mail : n # m => conv'[n] = conv[n]
  BY <1>11 DEF SameLists
<1>12. NoServer' = NoServer /\ cfg'.lmtp = cfg.lmtp
  BY DEF NoServer
<1>13. ASSUME NEW d, conv' = [conv EXCEPT ![m] = d] PROVE conv'[m] = d /\ \A n \in Mail : n # m => conv'[n] = conv[n]
  BY <1>0, <1>13
<1>14. ASSUME NEW d, conv'[m] = d, NEW n, Lists(d, said[m], n) PROVE Covers(m, n)'
  BY <1>12, <1>14 DEF Covers, Lists
<1> HIDE DEF code, to
<1>15. CASE c.command \in {"connect", "EHLO", "LHLO", "HELO"}
  <2>1. PICK cmd \in {"EHLO", "LHLO", "HELO", "MAIL"} : agenda' = <<Send(m, s, cmd)>> /\ UNCHANGED <<conv, streams>>
    <3>1. UNCHANGED <<conv, streams>> /\ \E cmd \in {"EHLO", "LHLO", "HELO", "MAIL"} : agenda' = <<Send(m, s, cmd)>>
      BY <1>15 DEF Proceed
    <3> QED BY <3>1
  <2>2. Begun(m) /\ srv[s] = NoServer
    BY <1>1, <1>15 DEF Expects
  <2>3. Begun(m)'
    <3>1. Covers(m, 0)'
      BY <1>11, <2>1, <2>2, CoversSame DEF Begun
    <3> QED BY <2>1, <2>2, <3>1 DEF Begun, Unsaid
  <2>4. srv'[s] = NoServer' /\ line'[s] = <<>> /\ <<m, s>> \notin streams'
    BY <1>2, <1>4, <1>12, <1>15, <2>1, <2>2 DEF to
  <2>5. ToSend(m, s, cmd)'
    BY <2>3, <2>4 DEF ToSend
  <2>6. cmd \in Commands /\ cmd # "RSET"
    BY DEF Commands
  <2> QED BY <1>8, <1>11, <2>1, <2>5, <2>6
<1>16. CASE c.command = "MAIL"
  <2> DEFINE d == [c EXCEPT !.recip_index = @ + 1]
  <2>1. conv' = [conv EXCEPT ![m] = d] /\ agenda' = <<Send(m, s, "RCPT")>> /\ UNCHANGED streams
    BY <1>16 DEF Proceed
  <2>2. Begun(m) /\ ~srv[s].data /\ (line[s] = <<"2">> => srv[s].from # None)
    BY <1>1, <1>16 DEF Expects
  <2>3. code = "2"
    BY <1>5, <1>16 DEF RefusesMail, PerRcpt, Replies, code
  <2>4. line[s] = <<"2">> /\ line'[s] = <<>>
    BY <1>4, <1>16, <2>3
  <2>5. d.ok = c.ok /\ d.fail = c.fail /\ d.bounce = c.bounce /\ d.recip_index = 1
    BY <1>0, <2>2 DEF Fields, Begun
  <2> HIDE DEF d
  <2>6. conv'[m] = d /\ \A n \in Mail : n # m => conv'[n] = conv[n]
    BY <1>13, <2>1
  <2>7. Covers(m, 0)'
    <3>1. Lists(d, said[m], 0)
      BY <2>2, <2>5 DEF Begun, Covers, Lists
    <3> QED BY <1>14, <2>6, <3>1
  <2>8. 1 \in Rcpt(m) /\ 1 - 1 = 0
    BY DeliveryAssumption DEF Rcpt
  <2>9. \A r \in Rcpt(m) : said'[m][r] = "none"
    BY <2>2 DEF Begun, Unsaid
  <2>10. Asking(m, s, 1)'
    BY <2>2, <2>4, <2>5, <2>6, <2>7, <2>8, <2>9 DEF Asking
  <2>11. <<m, s>> \notin streams'
    BY <1>2, <2>1 DEF to
  <2>12. ToSend(m, s, "RCPT")'
    BY <2>4, <2>5, <2>6, <2>8, <2>9, <2>10, <2>11 DEF ToSend
  <2>13. "RCPT" \in Commands
    BY DEF Commands
  <2> QED BY <1>8, <2>1, <2>6, <2>12, <2>13
<1>17. CASE c.command = "RCPT"
  <2>0. PICK k \in Rcpt(m) : k = c.recip_index
    BY <1>1, <1>17 DEF Expects, Asking
  <2> DEFINE d == Sorted(c, code)
             e == [d EXCEPT !.recip_index = @ + 1]
  <2>1. /\ UNCHANGED streams
        /\ IF ~LastRcpt(m) THEN conv' = [conv EXCEPT ![m] = e] /\ agenda' = <<Send(m, s, "RCPT")>>
           ELSE /\ conv' = [conv EXCEPT ![m] = d]
                /\ agenda' = IF d.ok # <<>> THEN <<Send(m, s, "DATA")>>
                             ELSE <<Send(m, s, "RSET"), Finish(m, s, "discarded")>>
    BY <1>17 DEF Proceed, code
  <2>2. Asking(m, s, k) /\ said[m][k] = code
    BY <1>1, <1>17, <2>0 DEF Expects, code
  <2>3. code \in {"2", "251", "4", "5"}
    BY <1>5, <1>17 DEF RefusesMail, PerRcpt, Replies, code
  <2>4. k \in Nat \ {0} /\ k \in Rcpt(m) /\ Rcpts[m] \in Nat
    BY <2>0, DeliveryAssumption DEF Rcpt
  <2>5. Lists(d, said[m], k)
    <3>1. Lists(c, said[m], k - 1)
      BY <2>2 DEF Asking, Covers
    <3>2. Lists(Sorted(c, said[m][k]), said[m], k)
      BY <1>0, <2>0, <2>2, <2>3, <2>4, <3>1, SortLists
    <3> QED BY <2>2, <3>2
  <2>6. DOMAIN d = Fields /\ d.recip_index = k
    BY <1>0, <2>0, SortedFields
  <2>7. line'[s] = <<>> /\ <<m, s>> \notin streams'
    BY <1>2, <1>4, <1>17, <2>1 DEF to
  <2> HIDE DEF d
  <2>8. CASE ~LastRcpt(m)
    <3>1. e.ok = d.ok /\ e.fail = d.fail /\ e.bounce = d.bounce /\ e.recip_index = k + 1
      BY <2>6 DEF Fields
    <3> HIDE DEF e
    <3>2. conv'[m] = e /\ \A n \in Mail : n # m => conv'[n] = conv[n]
      BY <1>13, <2>1, <2>8
    <3>3. k + 1 \in Rcpt(m) /\ (k + 1) - 1 = k /\ k + 1 > k
      BY <2>0, <2>4, <2>8 DEF LastRcpt, Rcpt
    <3>4. Covers(m, k)'
      <4>1. Lists(e, said[m], k)
        BY <2>5, <3>1 DEF Lists
      <4> QED BY <1>14, <3>2, <4>1
    <3>5. \A r \in Rcpt(m) : r > k => said'[m][r] = "none"
      BY <2>2 DEF Asking
    <3>6. \A r \in Rcpt(m) : r > k + 1 => said'[m][r] = "none"
      BY <2>4, <3>5 DEF Rcpt
    <3>7. srv'[s].from # None /\ ~srv'[s].data
      BY <2>2 DEF Asking
    <3>8. conv'[m].recip_index = k + 1 /\ said'[m][k + 1] = "none"
      BY <3>1, <3>2, <3>3, <3>5
    <3>9. Asking(m, s, k + 1)'
      <4> DEFINE h == k + 1
      <4>1. h \in Rcpt(m) /\ Covers(m, h - 1)'
        BY <3>3, <3>4
      <4>2. conv'[m].recip_index = h /\ \A r \in Rcpt(m) : r > h => said'[m][r] = "none"
        BY <3>6, <3>8
      <4> HIDE DEF h
      <4>3. Asking(m, s, h)'
        BY <3>7, <4>1, <4>2 DEF Asking
      <4> QED BY <4>3 DEF h
    <3>10. ToSend(m, s, "RCPT")'
      BY <2>7, <3>8, <3>9 DEF ToSend
    <3>11. "RCPT" \in Commands
      BY DEF Commands
    <3> QED BY <1>8, <2>1, <2>8, <3>2, <3>10, <3>11
  <2>9. CASE LastRcpt(m)
    <3>1. conv'[m] = d /\ \A n \in Mail : n # m => conv'[n] = conv[n]
      BY <1>13, <2>1, <2>9
    <3>2. k = Rcpts[m]
      BY <2>0, <2>9 DEF LastRcpt
    <3>3. Covers(m, Rcpts[m])'
      BY <1>14, <2>5, <3>1, <3>2
    <3>4. CASE d.ok # <<>>
      <4>1. ToSend(m, s, "DATA")' /\ "DATA" \in Commands
        BY <2>7, <3>1, <3>3, <3>4 DEF ToSend, Asked, Commands
      <4> QED BY <1>8, <2>1, <2>9, <3>1, <3>4, <4>1
    <3>5. CASE d.ok = <<>>
      BY <1>9, <2>1, <2>9, <3>1, <3>3, <3>5
    <3> QED BY <3>4, <3>5
  <2> QED BY <2>8, <2>9
<1>18. CASE c.command = "DATA"
  <2>1. UNCHANGED <<agenda, conv>> /\ streams' = streams \cup {to}
    BY <1>18 DEF Proceed, to
  <2>2. Asked(m)
    BY <1>1, <1>18 DEF Expects
  <2>3. Asked(m)'
    BY <1>11, <2>1, <2>2, CoversSame DEF Asked
  <2>4. line'[s] = <<>> /\ DOMAIN <<>> = {} /\ Len(<<>>) = 0
    BY <1>4, <1>18
  <2>5. Expects(m, s)'
    BY <1>18, <2>1, <2>3, <2>4 DEF Expects
  <2> QED BY <1>10, <1>11, <2>1, <2>5
<1>19. CASE c.command = "DOT" /\ ~cfg.lmtp
  <2>1. UNCHANGED <<conv, streams>> /\ agenda' = <<Finish(m, s, "delivered"), Send(m, s, "RSET")>>
    BY <1>19 DEF Proceed
  <2>2. Covers(m, Rcpts[m])
    BY <1>1, <1>19 DEF Expects, Asked
  <2>3. Covers(m, Rcpts[m])'
    BY <1>11, <2>1, <2>2, CoversSame
  <2> QED BY <1>9, <1>11, <2>1, <2>3
<1>20. CASE c.command = "DOT" /\ cfg.lmtp
  <2> DEFINE d == Resorted(c, code)
  <2>1. /\ UNCHANGED streams /\ conv' = [conv EXCEPT ![m] = d]
        /\ agenda' = IF AllAnswered(d) THEN <<Finish(m, s, "delivered")>> ELSE <<>>
    BY <1>20 DEF Proceed, code
  <2>2. Covers(m, Rcpts[m]) /\ c.ok # <<>>
    BY <1>1, <1>20 DEF Expects, Asked
  <2>3. Lists(d, said[m], Rcpts[m])
    BY <1>0, <1>20, <2>2, ResortLists DEF Covers
  <2>4. d.command = c.command
    BY <1>0 DEF Resorted, Fields
  <2> HIDE DEF d
  <2>5. conv'[m] = d /\ \A n \in Mail : n # m => conv'[n] = conv[n]
    BY <1>13, <2>1
  <2>6. Covers(m, Rcpts[m])'
    BY <1>14, <2>3, <2>5
  <2>7. CASE AllAnswered(d)
    BY <1>9, <2>1, <2>5, <2>6, <2>7
  <2>8. CASE ~AllAnswered(d)
    <3>1. Asked(m)'
      BY <2>5, <2>6, <2>8 DEF Asked, AllAnswered
    <3>2. \A i \in DOMAIN line'[s] : line'[s][i] \in Replies("DOT")'
      <4>1. \A i \in DOMAIN line[s] : line[s][i] \in Replies("DOT")
        BY <1>1, <1>20 DEF Expects
      <4>2. \A i \in DOMAIN Tail(line[s]) : i + 1 \in DOMAIN line[s] /\ Tail(line[s])[i] = line[s][i + 1]
        BY <1>3
      <4> QED BY <1>6, <4>1, <4>2 DEF Replies
    <3>3. <<m, s>> \notin streams'
      BY <1>2, <2>1 DEF to
    <3>4. Expects(m, s)'
      BY <1>20, <2>4, <2>5, <3>1, <3>2, <3>3 DEF Expects
    <3> QED BY <1>10, <2>1, <2>5, <2>8, <3>4
  <2> QED BY <2>7, <2>8
<1>21. c.command \in {"connect", "EHLO", "LHLO", "HELO", "MAIL", "RCPT", "DATA", "DOT"}
  BY <1>1 DEF Expects
<1> QED BY <1>15, <1>16, <1>17, <1>18, <1>19, <1>20, <1>21

\* An event after which no command is next.
LEMMA AsideEvent ==
    ASSUME Lent, Listed, Types', agenda = <<>>, UNCHANGED <<cfg, outcome, said, srv, streams>>,
           Shapes', AllFresh',
           \A t \in Pending' : /\ ~Closes(t) /\ ~IsSend(t)
                               /\ t.do = "decide" => t.arg \in {"temp_fail", "bounce"},
           \A m \in Mail, s \in Socket : Talks(m, s)' => Talks(m, s) /\ Going(m) /\ line'[s] = line[s],
           \A s \in Socket : sk'[s].st = "up" => \/ sk[s].st = "up" /\ sk'[s].mail = sk[s].mail
                                                 \/ \A st \in streams : st[2] # s,
           \A st \in streams : Talks(st[1], st[2]) /\ sk'[st[2]].st = "up" => Talks(st[1], st[2])',
           \A m \in Mail : Finished(m) => SameLists(m)
    PROVE  Listed'
<1>1. Types /\ Pending = {}
  BY IdleAgenda DEF Lent
<1>2. \A s \in Socket : ~HasSend(s)
  BY <1>1 DEF HasSend
<1>3. \A m \in Mail : Finished(m)' => Covers(m, Rcpts[m]) /\ SameLists(m)
  <2>1. outcome' = outcome
    OBVIOUS
  <2>2. \A m \in Mail : Finished(m)' => Finished(m)
    BY <2>1 DEF Finished
  <2> QED BY <2>2 DEF Listed, Told
<1> QED BY <1>1, <1>2, <1>3, Aside

\* The code is of no conversation, or no reply, or refuses the mail, or is that
\* which is awaited.
LEMMA ReplyLists ==
    ASSUME Lent, Quiet, Decided, Listed, NEW s \in Socket, ReadReply(s)
    PROVE  Listed'
<1> DEFINE m    == sk[s].mail
           code == Head(line[s])
<1>0. /\ Types /\ Types' /\ Shapes /\ agenda = <<>> /\ line[s] # <<>> /\ line' = [line EXCEPT ![s] = Tail(@)]
      /\ UNCHANGED <<cfg, sk, pool, outcome, srv, said>>
  BY ReplyCases DEF ReadReply, Lent, Listed
<1>1. sk[s].st = "up"
  BY <1>0 DEF Quiet
<1>2. /\ line' \in [Socket -> Seq(Words)] /\ line[s] \in Seq(Words) /\ line'[s] = Tail(line[s])
      /\ \A u \in Socket : u # s => line'[u] = line[u]
  <2>1. line \in [Socket -> Seq(Words)]
    BY <1>0 DEF Shapes
  <2>2. Tail(line[s]) \in Seq(Words)
    BY <1>0, <2>1
  <2> QED BY <1>0, <2>1, <2>2
<1>3. Shapes'
  BY <1>0, <1>2 DEF Shapes
<1>4. \A n \in Mail : Talks(n, s) => n = m /\ Talks(m, s)
  BY OneTalks
<1>5. \A n \in Mail : UNCHANGED conv => Going(n) /\ \A u \in Socket : Talks(n, u)' <=> Talks(n, u)
  BY <1>0 DEF Going, SameLists, Talks
<1>6. ASSUME streams' = streams,
             \A t \in Pending' : ~IsSend(t) /\ t.do # "try_deliver_host_on_socket"
      PROVE  AllFresh'
  <2> SUFFICES ASSUME NEW u \in Socket PROVE Fresh(u)'
    BY DEF AllFresh
  <2>1. (Pooled(u)' <=> Pooled(u)) /\ ~ToLend(u)' /\ sk'[u] = sk[u] /\ srv'[u] = srv[u]
    BY <1>0, <1>6, NoLend DEF Pooled
  <2>2. Fresh(u)
    BY DEF Listed, AllFresh
  <2>3. Blank(u) => line'[u] \in {line[u], <<>>}
    <3>1. CASE u # s
      BY <1>2, <3>1
    <3>2. ASSUME u = s, Blank(s) PROVE line'[s] = <<>>
      <4>1. Len(line[s]) =< 1
        BY <3>2 DEF Blank
      <4> QED BY <1>0, <1>2, <4>1, TailOfOne
    <3> QED BY <3>1, <3>2
  <2>4. Blank(u) => Blank(u)'
    BY <1>6, <2>1, <2>3, StaysBlank
  <2> QED BY <2>1, <2>2, <2>4 DEF Fresh
<1>7. CASE ~Talks(m, s)
  <2>1. UNCHANGED <<agenda, conv, streams>>
    BY <1>7 DEF ReadReply
  <2>2. Pending' = {}
    BY <1>0, <2>1, FreshNone
  <2>3. AllFresh'
    BY <1>6, <2>1, <2>2
  <2>4. \A n \in Mail, u \in Socket : Talks(n, u)' => Talks(n, u) /\ Going(n) /\ line'[u] = line[u]
    BY <1>2, <1>4, <1>5, <1>7, <2>1
  <2>5. \A st \in streams : Talks(st[1], st[2]) => Talks(st[1], st[2])'
    BY <2>1 DEF Talks
  <2>6. \A n \in Mail : SameLists(n)
    BY <1>5, <2>1 DEF Going
  <2> QED BY <1>0, <1>3, <2>1, <2>2, <2>3, <2>4, <2>5, <2>6, AsideEvent
<1>8. CASE Talks(m, s) /\ code = "odd"
  <2>1. /\ conv' = [conv EXCEPT ![m].processing = FALSE] /\ UNCHANGED streams
        /\ agenda' = <<Release(s), Decide(m, "bounce")>>
    BY <1>8 DEF ReadReply
  <2>2. m \in Mail
    BY <1>0, <1>8 DEF Talks, Types, SocketT
  <2>3. EndsTalk(m)
    BY <1>0, <2>1, <2>2, StopsTalk DEF Types
  <2> DEFINE t == Release(s)
             d == Decide(m, "bounce")
  <2>4. t.do = "release_client" /\ d.do = "decide" /\ d.arg = "bounce"
    BY DEF Release, Decide, Task
  <2>5. agenda' = <<t, d>>
    BY <2>1
  <2> HIDE DEF t, d
  <2>6. Pending' = {t, d}
    <3>1. DOMAIN agenda' = {1, 2} /\ agenda'[1] = t /\ agenda'[2] = d
      BY <2>5
    <3> QED BY <3>1 DEF Pending
  <2>7. AllFresh'
    BY <1>6, <2>1, <2>4, <2>6 DEF IsSend
  <2>8. \A n \in Mail : n # m => conv'[n] = conv[n] /\ Going(n) /\ SameLists(n)
    BY <1>0, <2>3 DEF EndsTalk, Going, SameLists
  <2>9. \A n \in Mail, u \in Socket : Talks(n, u)' => n # m /\ u # s /\ Talks(n, u) /\ Going(n) /\ line'[u] = line[u]
    <3>1. \A n \in Mail, u \in Socket : Talks(n, u)' => n # m /\ Talks(n, u)
      BY <2>3, <2>8, TalkEnds DEF Talks
    <3> QED BY <1>2, <1>4, <2>8, <3>1
  <2>10. <<m, s>> \notin streams
    <3>1. Expects(m, s)
      BY <1>0, <1>8, <2>2, Expecting, IdleAgenda DEF Listed
    <3> QED BY <1>0, <3>1 DEF Expects
  <2>11. ASSUME NEW st \in streams, Talks(st[1], st[2]) PROVE Talks(st[1], st[2])'
    <3>1. st[1] \in Mail /\ st[2] \in Socket /\ st = <<st[1], st[2]>>
      BY <1>0 DEF Types
    <3>2. st[1] # m
      BY <1>8, <2>10, <2>11, <3>1 DEF Talks
    <3> QED BY <2>8, <2>11, <3>1, <3>2 DEF Talks
  <2>12. \A n \in Mail : Finished(n) => SameLists(n)
    <3>1. ~Finished(m)
      BY <1>8, <2>2, NotFinished DEF Talks
    <3> QED BY <2>8, <3>1
  <2> QED BY <1>0, <1>3, <2>1, <2>4, <2>6, <2>7, <2>9, <2>11, <2>12, AsideEvent DEF Closes, IsSend
<1>9. CASE Talks(m, s) /\ code # "odd" /\ RefusesMail(conv[m].command, code)
  <2>1. PICK n \in Mail : n = m /\ Talks(n, s)
    <3>1. m \in Mail
      BY <1>0, <1>9 DEF Talks, Types, SocketT
    <3> QED BY <1>9, <3>1
  <2>2. PICK how \in {"bounce", "temp_fail"} :
          /\ agenda' = <<Send(n, s, "RSET"), Stop(n, s), Release(s), Decide(n, how)>>
          /\ UNCHANGED <<conv, streams>>
    BY <1>9, <2>1 DEF ReadReply
  <2>3. SameTalk
    BY <1>0, <2>2, NoChange DEF Types
  <2> DEFINE t1 == Send(n, s, "RSET")
             t2 == Stop(n, s)
             t3 == Release(s)
             t4 == Decide(n, how)
  <2>4. /\ t1.do = "send_command" /\ t1.sock = s /\ t1.mail = n /\ t1.arg = "RSET"
        /\ t2.do = "stop" /\ t2.sock = s /\ t2.mail = n
        /\ t3.do = "release_client"
        /\ t4.do = "decide" /\ t4.arg = how
    BY DEF Send, Stop, Release, Decide, Task
  <2>5. agenda' = <<t1, t2, t3, t4>>
    BY <2>2
  <2> HIDE DEF t1, t2, t3, t4
  <2>6. Pending' = {t1, t2, t3, t4}
    <3>1. /\ DOMAIN agenda' = {1, 2, 3, 4}
          /\ agenda'[1] = t1 /\ agenda'[2] = t2 /\ agenda'[3] = t3 /\ agenda'[4] = t4
      BY <2>5
    <3> QED BY <3>1 DEF Pending
  <2>7. CloseComes(n, s)'
    BY <2>4, <2>6 DEF CloseComes, Closes
  <2>8. ~conv[n].fp_called /\ Expects(n, s)
    BY <1>0, <1>9, <2>1, Expecting, IdleAgenda DEF Listed
  <2>9. <<n, s>> \notin streams
    BY <1>0, <2>8 DEF Expects
  <2>10. SyncAt(n, s)'
    BY <2>2, <2>7, <2>8, <2>9 DEF SyncAt
  <2>11. "RSET" \in Commands
    BY DEF Commands
  <2>12. \A u \in Pending' : /\ (u.mail = n /\ u.sock = s) \/ u.do \in {"release_client", "decide"}
                             /\ u.do # "try_deliver_host_on_socket"
                             /\ u.do = "finish_processing_mail" => Covers(n, Rcpts[n])'
                             /\ u.do = "decide" => u.arg \in {"temp_fail", "bounce"}
                             /\ IsSend(u) => u.arg \in Commands /\ (u.arg = "RSET" <=> CloseComes(n, s)')
    BY <2>4, <2>6, <2>7, <2>11 DEF IsSend
  <2>13. streams' \subseteq streams \cup {<<n, s>>}
    BY <2>2
  <2> QED BY <1>0, <1>2, <1>9, <2>2, <2>1, <2>3, <2>10, <2>12, <2>13, AfterEvent, ZenonT(60)
<1>10. CASE Talks(m, s) /\ code # "odd" /\ ~RefusesMail(conv[m].command, code)
  <2>1. Proceed(m, s, code)
    BY <1>10 DEF ReadReply
  <2>2. m \in Mail
    BY <1>0, <1>10 DEF Talks, Types, SocketT
  <2>3. SameTalk
    BY <1>0, <2>1, <2>2, ProceedCases DEF Types
  <2> QED BY <1>0, <1>10, <2>1, <2>2, <2>3, ProceedLists
<1> QED BY <1>7, <1>8, <1>9, <1>10

LEMMA ConnectedLists ==
    ASSUME Lent, Listed, NEW s \in Socket, Connected(s)
    PROVE  Listed'
<1> DEFINE r == [sk[s] EXCEPT !.st = "up"]
<1>0. /\ Types /\ Types' /\ Shapes /\ agenda = <<>>
      /\ UNCHANGED <<cfg, conv, outcome, srv, streams, said>>
  BY ConnectedTypes DEF Connected, Idle, Lent, Listed
<1>1. sk[s].st = "connecting" /\ sk' = [sk EXCEPT ![s] = r]
  BY <1>0 DEF Connected, Types
<1>2. PICK p \in Pool : p = sk[s].pool
  BY <1>0, <1>1 DEF Types
<1>3. r.st = "up" /\ r.fromPool = sk[s].fromPool
  BY <1>0 DEF Types, SocketT
<1> HIDE DEF r
<1>4. sk'[s] = r /\ \A u \in Socket \ {s} : sk'[u] = sk[u]
  BY <1>0, <1>1 DEF Types
<1>5. ~Pooled(s) /\ \A m \in Mail : ~Talks(m, s)
  BY <1>1 DEF Lent, Apart, Holders
<1>6. Blank(s)
  BY <1>1 DEF Listed, AllFresh, Fresh
<1>7. PICK code \in Words : line' = [line EXCEPT ![s] = <<code>>]
  <2> DEFINE Greets(c) == line' = [line EXCEPT ![s] = <<c>>]
             greetings == UNION {Answers[m]["connect"] : m \in Mail}
  <2>0. \E c \in greetings : Greets(c)
    BY DEF Connected
  <2> HIDE DEF Greets
  <2>1. PICK m \in Mail : \E code \in Answers[m]["connect"] : Greets(code)
    BY <2>0, Zenon
  <2>2. Answers[m]["connect"] \subseteq Replies("connect")
    BY DeliveryAssumption DEF Commands
  <2>3. PICK c \in Answers[m]["connect"] : Greets(c)
    BY <2>1
  <2>4. c \in Words
    BY <2>2, <2>3 DEF Replies, Words
  <2> QED BY <2>3, <2>4 DEF Greets
<1>8. line'[s] = <<code>> /\ \A u \in Socket : u # s => line'[u] = line[u]
  BY <1>0, <1>7 DEF Shapes
<1>9. Shapes'
  <2>1. <<code>> \in Seq(Words)
    OBVIOUS
  <2> QED BY <1>0, <1>7, <2>1 DEF Shapes
<1>10. pool[p] \in PoolT
  BY <1>0 DEF Types
<1>11. /\ \A t \in Pending' : /\ t.do \in {"dispense", "try_deliver_host_on_socket"}
                              /\ t.do = "try_deliver_host_on_socket" => t.sock = s
       /\ \A u \in Socket : u # s => ~ToLend(u)' /\ (Pooled(u)' => Pooled(u))
  <2>1. CASE pool[p].waiting # <<>>
    <3>1. PICK m \in Mail : m = Head(pool[p].waiting)
      BY <1>10, <2>1 DEF PoolT
    <3> DEFINE t == OnSocket(m, s)
               q == [pool[p] EXCEPT !.waiting = Tail(pool[p].waiting)]
    <3>2. pool' = [pool EXCEPT ![p] = q] /\ agenda' = <<t>>
      BY <1>0, <1>2, <2>1, <3>1 DEF Connected, Types
    <3>3. t \in Tasks /\ t.do = "try_deliver_host_on_socket" /\ t.sock = s
      BY TasksMade DEF OnSocket, Task
    <3>4. q.idle = pool[p].idle
      BY <1>10 DEF PoolT
    <3> HIDE DEF t, q
    <3>5. \A g \in Pool : pool'[g].idle = pool[g].idle
      BY <1>0, <3>2, <3>4 DEF Types
    <3>6. \A u \in Socket : Pooled(u)' <=> Pooled(u)
      BY <3>5, IdleSame
    <3>7. Pending' = {t} /\ Top' = t
      BY <3>2, <3>3, FreshOne
    <3> QED BY <3>3, <3>6, <3>7 DEF ToLend
  <2>2. CASE pool[p].waiting = <<>>
    <3> DEFINE t == Dispense(p)
               q == [pool[p] EXCEPT !.idle = Append(pool[p].idle, s)]
    <3>1. pool' = [pool EXCEPT ![p] = q] /\ agenda' = <<t>>
      BY <1>0, <1>2, <2>2 DEF Connected, Types
    <3>2. t \in Tasks /\ t.do = "dispense"
      BY TasksMade DEF Dispense, Task
    <3>3. q.idle = Append(pool[p].idle, s)
      BY <1>10 DEF PoolT
    <3> HIDE DEF t, q
    <3>4. pool'[p].idle = Append(pool[p].idle, s) /\ \A g \in Pool \ {p} : pool'[g].idle = pool[g].idle
      BY <1>0, <3>1, <3>3 DEF Types
    <3>5. \A u \in Socket : Pooled(u)' => Pooled(u) \/ u = s
      BY <1>0, <1>5, <3>4, IdleMore DEF Lent
    <3>6. Pending' = {t} /\ Top' = t
      BY <3>1, <3>2, FreshOne
    <3> QED BY <3>2, <3>5, <3>6 DEF ToLend
  <2> QED BY <2>1, <2>2
<1>12. AllFresh'
  <2>1. Fresh(s)'
    <3>1. ~HasSend(s)'
      BY <1>11 DEF HasSend, IsSend
    <3>2. Len(<<code>>) = 1 /\ NoServer' = NoServer
      BY DEF NoServer
    <3>3. Blank(s)'
      BY <1>0, <1>6, <1>8, <3>1, <3>2 DEF Blank
    <3>4. ~sk'[s].fromPool
      BY <1>3, <1>4 DEF Listed, AllFresh, Fresh
    <3> QED BY <3>3, <3>4 DEF Fresh
  <2>2. ASSUME NEW u \in Socket, u # s PROVE Fresh(u)'
    <3>1. Fresh(u) /\ sk'[u] = sk[u] /\ line'[u] = line[u] /\ srv'[u] = srv[u]
      BY <1>0, <1>4, <1>8, <2>2 DEF Listed, AllFresh
    <3>2. \A t \in Pending' : IsSend(t) => t \in Pending
      BY <1>11 DEF IsSend
    <3> QED BY <1>0, <1>11, <2>2, <3>1, <3>2, StaysFresh
  <2> QED BY <2>1, <2>2 DEF AllFresh
<1>13. \A m \in Mail, u \in Socket : Talks(m, u)' <=> Talks(m, u)
  BY <1>0 DEF Talks
<1>14. \A m \in Mail : Going(m) /\ SameLists(m)
  BY <1>0 DEF Going, SameLists
<1>15. \A st \in streams : st[1] \in Mail /\ st[2] \in Socket
  BY <1>0 DEF Types
<1>16. \A u \in Socket : sk'[u].st = "up" => \/ sk[u].st = "up" /\ sk'[u].mail = sk[u].mail
                                             \/ \A st \in streams : st[2] # u
  BY <1>4, <1>6 DEF Blank
<1>17. \A m \in Mail, u \in Socket : Talks(m, u)' => Talks(m, u) /\ Going(m) /\ line'[u] = line[u]
  BY <1>5, <1>8, <1>13, <1>14
<1> QED BY <1>0, <1>9, <1>11, <1>12, <1>13, <1>14, <1>15, <1>16, <1>17, AsideEvent DEF Closes, IsSend

LEMMA FailLists ==
    ASSUME Lent, Listed, NEW s \in Socket, ConnectFails(s) \/ TimesOut(s)
    PROVE  Listed'
<1> DEFINE r1 == [NoSocket EXCEPT !.st = "gone"]
           r2 == [sk[s] EXCEPT !.st = "ended"]
<1>0. /\ Types /\ Types' /\ agenda = <<>>
      /\ \A u \in Socket \ {s} : sk'[u] = sk[u]
      /\ \/ sk[s].st = "connecting" /\ sk'[s] = r1
         \/ sk[s].st = "up" /\ sk'[s] = r2
  BY FailTypes DEF Lent
<1>1. r1.st = "gone" /\ r1.fromPool = FALSE /\ r2.st = "ended" /\ r2.fromPool = sk[s].fromPool
  BY <1>0 DEF NoSocket, Types, SocketT
<1> HIDE DEF r1, r2
<1>2. UNCHANGED <<cfg, conv, outcome, line, srv, streams, said>>
  BY DEF ConnectFails, TimesOut
<1>3. PICK p \in Pool : p = sk[s].pool /\ CreateFails(p)
  BY FailTypes DEF Lent
<1>4. /\ \A g \in Pool : pool'[g].idle = pool[g].idle
      /\ \/ agenda' = <<Dispense(p)>>
         \/ \E m \in Mail : agenda' = <<TryHost(m), Dispense(p)>>
  <2>1. pool[p].waiting # <<>> => Head(pool[p].waiting) \in Mail
    BY <1>0 DEF Types, PoolT
  <2> QED BY <1>0, <1>3, <2>1, CreateFailsCases
<1>5. \A t \in Pending' : t.do \in {"dispense", "try_deliver_host"}
  <2> DEFINE d == Dispense(p)
  <2>1. d.do = "dispense" /\ d \in Tasks
    BY TasksMade DEF Dispense, Task
  <2>2. CASE agenda' = <<Dispense(p)>>
    BY <2>1, <2>2, FreshOne
  <2>3. ASSUME NEW m \in Mail, agenda' = <<TryHost(m), Dispense(p)>>
        PROVE  \A t \in Pending' : t.do \in {"dispense", "try_deliver_host"}
    <3> DEFINE t == TryHost(m)
    <3>1. t.do = "try_deliver_host"
      BY DEF TryHost, Task
    <3>2. agenda' = <<t, d>>
      BY <2>3
    <3> HIDE DEF t, d
    <3>3. DOMAIN agenda' = {1, 2} /\ agenda'[1] = t /\ agenda'[2] = d
      BY <3>2
    <3> QED BY <2>1, <3>1, <3>3 DEF Pending
  <2> QED BY <1>4, <2>2, <2>3
<1>6. AllFresh'
  <2> SUFFICES ASSUME NEW u \in Socket PROVE Fresh(u)'
    BY DEF AllFresh
  <2>1. (Pooled(u)' <=> Pooled(u)) /\ ~ToLend(u)'
    BY <1>0, <1>4, <1>5, IdleSame, NoLend
  <2>2. Fresh(u) /\ (sk'[u].fromPool => sk[u].fromPool) /\ (sk'[u].st = "connecting" => sk[u].st = "connecting")
    BY <1>0, <1>1 DEF Listed, AllFresh
  <2>3. \A t \in Pending' : IsSend(t) => t \in Pending
    BY <1>5 DEF IsSend
  <2>4. line'[u] = line[u] /\ srv'[u] = srv[u] /\ streams' \subseteq streams
    BY <1>2
  <2> QED BY <2>1, <2>2, <2>3, <2>4, StaysFresh
<1>7. Shapes'
  BY <1>2 DEF Listed, Shapes
<1>8. \A m \in Mail : Going(m) /\ SameLists(m) /\ \A u \in Socket : Talks(m, u)' <=> Talks(m, u)
  BY <1>2 DEF Going, SameLists, Talks
<1>9. \A st \in streams : st[1] \in Mail /\ st[2] \in Socket
  BY <1>0 DEF Types
<1>10. \A u \in Socket : sk'[u].st = "up" => sk[u].st = "up" /\ sk'[u].mail = sk[u].mail
  BY <1>0, <1>1
<1>11. \A m \in Mail, u \in Socket : Talks(m, u)' => Talks(m, u) /\ Going(m) /\ line'[u] = line[u]
  BY <1>2, <1>8
<1> QED BY <1>0, <1>2, <1>5, <1>6, <1>7, <1>8, <1>9, <1>10, <1>11, AsideEvent DEF Closes, IsSend

LEMMA ClosedLists ==
    ASSUME Lent, Decided, Listed, NEW s \in Socket, Closed(s)
    PROVE  Listed'
<1>0. /\ Types /\ Types' /\ Shapes /\ agenda = <<>>
      /\ UNCHANGED <<cfg, pool, outcome, srv, streams, said>>
      /\ \A u \in Socket \ {s} : sk'[u] = sk[u]
  BY ClosedCases DEF Lent, Listed, Closed
<1>1. sk'[s].st \in {"closed", "gone"} /\ sk'[s].fromPool = sk[s].fromPool
  <2>1. PICK st \in {"closed", "gone"} : sk'[s] = [sk[s] EXCEPT !.st = st]
    BY <1>0, ClosedCases
  <2> QED BY <1>0, <2>1 DEF Types, SocketT
<1>2. /\ line' = [line EXCEPT ![s] = <<>>]
      /\ line'[s] = <<>> /\ \A u \in Socket : u # s => line'[u] = line[u]
  BY <1>0 DEF Closed, Shapes
<1>3. Shapes'
  <2>1. <<>> \in Seq(Words)
    OBVIOUS
  <2> QED BY <1>0, <1>2, <2>1 DEF Shapes
<1>4. ASSUME \A t \in Pending' : ~IsSend(t) /\ t.do # "try_deliver_host_on_socket" PROVE AllFresh'
  <2> SUFFICES ASSUME NEW u \in Socket PROVE Fresh(u)'
    BY DEF AllFresh
  <2>1. (Pooled(u)' <=> Pooled(u)) /\ ~ToLend(u)'
    BY <1>0, <1>4, NoLend DEF Pooled
  <2>2. Fresh(u) /\ (sk'[u].fromPool => sk[u].fromPool) /\ (sk'[u].st = "connecting" => sk[u].st = "connecting")
    BY <1>0, <1>1 DEF Listed, AllFresh
  <2>3. line'[u] \in {line[u], <<>>} /\ srv'[u] = srv[u] /\ streams' \subseteq streams
    BY <1>0, <1>2
  <2> QED BY <1>4, <2>1, <2>2, <2>3, StaysFresh
<1>5. \A u \in Socket : sk'[u].st = "up" => u # s /\ sk[u].st = "up" /\ sk'[u].mail = sk[u].mail
  BY <1>0, <1>1
<1>6. \A st \in streams : st[1] \in Mail /\ st[2] \in Socket
  BY <1>0 DEF Types
<1>7. ASSUME NEW m \in Mail, Talks(m, s), EndsTalk(m), agenda' = <<ReleaseBad(s), TryHost(m)>>
      PROVE  Listed'
  <2> DEFINE t == ReleaseBad(s)
             v == TryHost(m)
  <2>1. t.do = "release_client" /\ v.do = "try_deliver_host"
    BY DEF ReleaseBad, TryHost, Task
  <2>2. agenda' = <<t, v>>
    BY <1>7
  <2> HIDE DEF t, v
  <2>3. Pending' = {t, v}
    <3>1. DOMAIN agenda' = {1, 2} /\ agenda'[1] = t /\ agenda'[2] = v
      BY <2>2
    <3> QED BY <3>1 DEF Pending
  <2>4. AllFresh'
    BY <1>4, <2>1, <2>3 DEF IsSend
  <2>5. \A n \in Mail : n # m => conv'[n] = conv[n] /\ Going(n) /\ SameLists(n)
    BY <1>0, <1>7 DEF EndsTalk, Going, SameLists
  <2>6. \A n \in Mail, u \in Socket : Talks(n, u)' => n # m /\ Talks(n, u)
    BY <1>7, <2>5, TalkEnds DEF Talks
  <2>7. \A n \in Mail, u \in Socket : Talks(n, u)' => Talks(n, u) /\ Going(n) /\ line'[u] = line[u]
    BY <1>2, <1>7, <2>5, <2>6, OneTalks
  <2>8. ASSUME NEW st \in streams, Talks(st[1], st[2]), sk'[st[2]].st = "up" PROVE Talks(st[1], st[2])'
    <3>1. st[1] # m
      BY <1>5, <1>6, <1>7, <2>8 DEF Talks
    <3> QED BY <1>6, <2>5, <2>8, <3>1 DEF Talks
  <2>9. \A n \in Mail : Finished(n) => SameLists(n)
    <3>1. ~Finished(m)
      BY <1>7, NotFinished DEF Talks
    <3> QED BY <2>5, <3>1
  <2> QED BY <1>0, <1>3, <1>5, <2>1, <2>3, <2>4, <2>7, <2>8, <2>9, AsideEvent DEF Closes, IsSend
<1>8. ASSUME ~Talks(sk[s].mail, s), agenda' = <<>> \/ (notes \in Pool /\ agenda' = <<Destroy(s, notes)>>)
      PROVE  Listed'
  <2>1. UNCHANGED conv
    BY <1>8 DEF Closed
  <2>2. \A t \in Pending' : t.do = "destroy"
    <3>1. CASE agenda' = <<>>
      BY <3>1, FreshNone
    <3>2. CASE notes \in Pool /\ agenda' = <<Destroy(s, notes)>>
      <4>1. Destroy(s, notes) \in Tasks /\ Destroy(s, notes).do = "destroy"
        BY <3>2, TasksMade DEF Destroy, Task
      <4> QED BY <3>2, <4>1, FreshOne
    <3> QED BY <1>8, <3>1, <3>2
  <2>3. AllFresh'
    BY <1>4, <2>2 DEF IsSend
  <2>4. \A n \in Mail : Going(n) /\ SameLists(n) /\ \A u \in Socket : Talks(n, u)' <=> Talks(n, u)
    BY <1>0, <2>1 DEF Going, SameLists, Talks
  <2>5. \A n \in Mail : ~Talks(n, s)
    BY <1>8, OneTalks
  <2>6. \A n \in Mail, u \in Socket : Talks(n, u)' => Talks(n, u) /\ Going(n) /\ line'[u] = line[u]
    BY <1>2, <2>4, <2>5
  <2> QED BY <1>0, <1>3, <1>5, <1>6, <2>2, <2>3, <2>4, <2>6, AsideEvent DEF Closes, IsSend
<1> QED BY <1>0, <1>7, <1>8, ClosedCases

LEMMA IdleTimeoutLists ==
    ASSUME Lent, Listed, NEW s \in Socket, IdleTimeout(s)
    PROVE  Listed'
<1>0. /\ Types /\ Types' /\ agenda = <<>>
      /\ UNCHANGED <<cfg, conv, outcome, sk, line, srv, pool, streams, said>>
  BY IdleTimeoutCases DEF Lent, IdleTimeout
<1>1. PICK p \in Pool : agenda' = <<Destroy(s, p)>>
  BY DEF IdleTimeout
<1>2. \A t \in Pending' : t.do = "destroy"
  <2>1. Destroy(s, p) \in Tasks /\ Destroy(s, p).do = "destroy"
    BY TasksMade DEF Destroy, Task
  <2> QED BY <1>1, <2>1, FreshOne
<1>3. Shapes'
  BY <1>0 DEF Listed, Shapes
<1>4. AllFresh'
  <2>1. \A u \in Socket : (Pooled(u)' <=> Pooled(u)) /\ ~ToLend(u)'
    BY <1>0, <1>2, NoLend DEF Pooled
  <2> QED BY <1>0, <1>2, <2>1, StaysFresh DEF Listed, AllFresh, IsSend
<1> QED BY <1>0, <1>2, <1>3, <1>4, AsidePool DEF Closes, IsSend

LEMMA ListsInit == Init => Listed
<1> SUFFICES ASSUME Init PROVE Listed
  OBVIOUS
<1>1. /\ agenda = <<>> /\ outcome = [m \in Mail |-> <<>>] /\ conv = [m \in Mail |-> NoConv]
      /\ sk = [s \in Socket |-> NoSocket] /\ line = [s \in Socket |-> <<>>] /\ srv = [s \in Socket |-> NoServer]
      /\ pool = [p \in Pool |-> NoPool] /\ streams = {} /\ said = [m \in Mail |-> Unsaid(m)]
  BY DEF Init
<1>2. Pending = {}
  BY <1>1, IdleAgenda
<1>3. Shapes
  <2>1. NoServer \in Remote
    BY DEF NoServer, Remote
  <2>2. \A m \in Mail : Unsaid(m) \in [Rcpt(m) -> Words]
    BY DEF Unsaid, Words
  <2>3. <<>> \in Seq(Words)
    OBVIOUS
  <2> QED BY <1>1, <2>1, <2>2, <2>3 DEF Shapes
<1>4. \A m \in Mail, s \in Socket : ~Talks(m, s)
  <2>1. NoConv.processing = FALSE
    BY DEF NoConv
  <2> QED BY <1>1, <2>1 DEF Talks
<1>5. \A m \in Mail : ~Finished(m)
  <2>1. <<>> \notin {<<"delivered">>, <<"discarded">>}
    <3>1. Len(<<>>) = 0 /\ Len(<<"delivered">>) = 1 /\ Len(<<"discarded">>) = 1
      OBVIOUS
    <3> QED BY <3>1
  <2> QED BY <1>1, <2>1 DEF Finished
<1>6. \A s \in Socket : Fresh(s)
  <2>1. NoSocket.fromPool = FALSE
    BY DEF NoSocket
  <2>2. Len(<<>>) = 0
    OBVIOUS
  <2>3. \A s \in Socket : Blank(s)
    BY <1>1, <1>2, <2>2 DEF Blank, HasSend
  <2> QED BY <1>1, <2>1, <2>3 DEF Fresh
<1> QED BY <1>1, <1>2, <1>3, <1>4, <1>5, <1>6 DEF Listed, Sync, Ends, Sends, Streams, AllFresh, Told

LEMMA ListsNext == Lent /\ Quiet /\ Decided /\ Listed /\ ~cfg.pooling /\ [Next]_vars => Listed'
<1> SUFFICES ASSUME Lent, Quiet, Decided, Listed, ~cfg.pooling, [Next]_vars PROVE Listed'
  OBVIOUS
<1>1. CASE UNCHANGED vars
  <2>1. /\ UNCHANGED <<agenda, cfg, conv, outcome, sk, line, srv, pool, streams, said>>
    BY <1>1 DEF vars
  <2>2. Pending' = Pending
    BY <2>1 DEF Pending
  <2>3. /\ \A m \in Mail, s \in Socket : Talks(m, s)' <=> Talks(m, s)
        /\ \A s \in Socket : HasSend(s)' <=> HasSend(s)
        /\ \A m \in Mail, s \in Socket : CloseComes(m, s)' <=> CloseComes(m, s)
    BY <2>1, <2>2 DEF Talks, HasSend, CloseComes
  <2>4. \A m \in Mail : SameLists(m) /\ Going(m)
    BY <2>1 DEF SameLists, Going
  <2>5. Shapes'
    BY <2>1 DEF Listed, Shapes
  <2>6. Sync'
    <3> SUFFICES ASSUME NEW m \in Mail, NEW s \in Socket, Talks(m, s)' PROVE SyncAt(m, s)'
      BY DEF Sync
    <3>0. Talks(m, s)
      BY <2>3
    <3>1. SyncAt(m, s)
      BY <3>0 DEF Listed, Sync
    <3>2. Expects(m, s) => Expects(m, s)'
      BY <2>1, <2>4, ExpectsSame
    <3>3. Begun(m) => Begun(m)'
      BY <2>1, <2>4, CoversSame DEF Begun
    <3>4. \A k : Covers(m, k) => Covers(m, k)'
      BY <2>1, <2>4, CoversSame
    <3>5. PICK k : k = conv[m].recip_index /\ k = conv'[m].recip_index
      BY <2>1
    <3>6. Asking(m, s, k) => Asking(m, s, k)'
      BY <2>1, <3>4 DEF Asking
    <3>7. Asked(m) => Asked(m)'
      BY <2>1, <3>4 DEF Asked
    <3>8. \A cmd \in Commands : ToSend(m, s, cmd) => ToSend(m, s, cmd)'
      BY <2>1, <3>3, <3>5, <3>6, <3>7 DEF ToSend, NoServer
    <3>9. \A cmd \in Commands : agenda = <<Send(m, s, cmd)>> => agenda' = <<Send(m, s, cmd)>>'
      BY <2>1 DEF Send, Task, None
    <3>10. /\ conv'[m].fp_called = conv[m].fp_called /\ streams' = streams
           /\ CloseComes(m, s)' <=> CloseComes(m, s)
           /\ HasSend(s)' <=> HasSend(s)
      BY <2>1, <2>3
    <3> QED BY <3>1, <3>2, <3>8, <3>9, <3>10 DEF SyncAt
  <2>7. Ends'
    <3> SUFFICES ASSUME NEW t \in Pending, t.do = "finish_processing_mail", Covers(t.mail, Rcpts[t.mail])
                 PROVE  Covers(t.mail, Rcpts[t.mail])'
      BY <2>2 DEF Listed, Ends
    <3>1. t.mail \in Mail
      BY DEF Lent, Types, Pending, Tasks, ForMail
    <3> QED BY <2>1, <2>4, <3>1, CoversSame
  <2>8. Sends'
    BY <2>1, <2>2 DEF Listed, Sends, SendOK, Talks, CloseComes
  <2>9. Streams'
    BY <2>1 DEF Listed, Streams, Talks
  <2>10. AllFresh'
    BY <2>1, <2>2 DEF Listed, AllFresh, Fresh, Blank, HasSend, Pooled, ToLend, Top, NoServer
  <2>11. Told'
    <3>1. \A m \in Mail : Finished(m)' => Finished(m)
      BY <2>1 DEF Finished
    <3> QED BY <2>1, <2>4, <3>1, CoversSame DEF Listed, Told
  <2> QED BY <2>5, <2>6, <2>7, <2>8, <2>9, <2>10, <2>11 DEF Listed
<1>2. CASE Turn
  BY <1>2, DispenseLists, DestroyLists, TryHostLists, ReleaseLists, LendLists, SendLists, DecidesLists, FinishLists
  DEF Turn
<1>3. CASE \E m \in Mail : Start(m)
  BY <1>3, StartLists
<1>4. CASE \E s \in Socket : ReadReply(s) \/ Connected(s) \/ ConnectFails(s) \/ TimesOut(s) \/ Closed(s) \/ IdleTimeout(s)
  BY <1>4, ReplyLists, ConnectedLists, FailLists, ClosedLists, IdleTimeoutLists
<1>5. CASE \E st \in streams : StreamEnds(st[1], st[2])
  BY <1>5, StreamLists
<1> QED BY <1>1, <1>2, <1>3, <1>4, <1>5 DEF Next

LEMMA SameSettings == [Next]_vars => cfg' = cfg
<1> SUFFICES ASSUME [Next]_vars PROVE cfg' = cfg
  OBVIOUS
<1>1. CASE UNCHANGED vars
  BY <1>1 DEF vars
<1>2. CASE Turn
  BY <1>2 DEF Turn, PoolDispense, PoolDestroy, TryDeliverHost, ReleaseClient, TryDeliverHostOnSocket, SendCommand,
     Decides, FinishProcessingMail
<1>3. CASE \E m \in Mail : Start(m)
  BY <1>3 DEF Start
<1>4. CASE \E s \in Socket : ReadReply(s) \/ Connected(s) \/ ConnectFails(s) \/ TimesOut(s) \/ Closed(s) \/ IdleTimeout(s)
  BY <1>4 DEF ReadReply, Connected, ConnectFails, TimesOut, Closed, IdleTimeout
<1>5. CASE \E st \in streams : StreamEnds(st[1], st[2])
  BY <1>5 DEF StreamEnds
<1> QED BY <1>1, <1>2, <1>3, <1>4, <1>5 DEF Next

\* Whoever is in one of three lists that split what was sorted is in that only.
LEMMA InOne ==
    ASSUME NEW m \in Mail, Covers(m, Rcpts[m]), NEW r \in Rcpt(m)
    PROVE  Cardinality({l \in {"ok", "fail", "bounce"} : r \in Range(conv[m][l])})
           = IF said[m][r] = "251" THEN 0 ELSE 1
<1> DEFINE c == conv[m]
           L == {l \in {"ok", "fail", "bounce"} : r \in Range(conv[m][l])}
<1>1. Split(c.ok, c.fail, c.bounce, Sorts(said[m], Rcpts[m]))
  BY DEF Covers, Lists
<1>2. r \in Sorts(said[m], Rcpts[m]) <=> said[m][r] # "251"
  BY DEF Sorts, Rcpt
<1>3. c["ok"] = c.ok /\ c["fail"] = c.fail /\ c["bounce"] = c.bounce
  OBVIOUS
<1>4. CASE said[m][r] = "251"
  <2>1. r \notin Range(c.ok) /\ r \notin Range(c.fail) /\ r \notin Range(c.bounce)
    BY <1>1, <1>2, <1>4 DEF Split
  <2>2. L = {}
    BY <1>3, <2>1
  <2> QED BY <1>4, <2>2, FS_EmptySet
<1>5. CASE said[m][r] # "251"
  <2>1. \/ r \in Range(c.ok) /\ r \notin Range(c.fail) /\ r \notin Range(c.bounce)
        \/ r \notin Range(c.ok) /\ r \in Range(c.fail) /\ r \notin Range(c.bounce)
        \/ r \notin Range(c.ok) /\ r \notin Range(c.fail) /\ r \in Range(c.bounce)
    BY <1>1, <1>2, <1>5 DEF Split
  <2>2. L = {"ok"} \/ L = {"fail"} \/ L = {"bounce"}
    BY <1>3, <2>1
  <2>3. \A x : Cardinality({x}) = 1
    BY FS_Singleton
  <2> QED BY <1>5, <2>2, <2>3
<1> QED BY <1>4, <1>5

\* The invariant of the lists, as long as no socket times out that is not deaf.
LEMMA ListsKeep ==
    ASSUME NoTimeouts
    PROVE  Spec => [](Lent /\ Quiet /\ Decided /\ (~cfg.pooling => Listed))
<1> DEFINE Inv == Lent /\ Quiet /\ Decided /\ (~cfg.pooling => Listed)
<1>1. Init => Inv
  BY LentInit, QuietInit, DecidedInit, ListsInit
<1>2. Inv /\ [Next]_vars => Inv'
  <2> SUFFICES ASSUME Inv, [Next]_vars PROVE Inv'
    OBVIOUS
  <2>1. Lent' /\ Quiet' /\ Decided'
    BY LentNext, QuietNext, DecidedNext DEF Lent
  <2>2. cfg' = cfg
    BY SameSettings
  <2>3. ~cfg.pooling => Listed'
    BY ListsNext
  <2> QED BY <2>1, <2>2, <2>3
<1> QED BY <1>1, <1>2, PTL DEF Spec

\* Whatever the remote end answers, and whenever it closes, no recipient of a
\* mail that was finished with is lost, nor in two lists: none is forgotten,
\* and none both bounced and tried again.
THEOREM ListsPartitioned == NoTimeouts => (Spec => []ListsPartition)
<1> SUFFICES ASSUME NoTimeouts PROVE Spec => []ListsPartition
  OBVIOUS
<1>1. Spec => [](Lent /\ Quiet /\ Decided /\ (~cfg.pooling => Listed))
  BY ListsKeep
<1>2. (~cfg.pooling => Listed) => ListsPartition
  BY InOne DEF Listed, Told, ListsPartition
<1> QED BY <1>1, <1>2, PTL

\* In SMTP each recipient is in the list of the answer that was to it: every
\* reply is taken for the command it answers.
THEOREM ListsAreTrue == NoTimeouts => (Spec => []ListsTrue)
<1> SUFFICES ASSUME NoTimeouts PROVE Spec => []ListsTrue
  OBVIOUS
<1>1. Spec => [](Lent /\ Quiet /\ Decided /\ (~cfg.pooling => Listed))
  BY ListsKeep
<1>2. (~cfg.pooling => Listed) => ListsTrue
  <2> SUFFICES ASSUME ~cfg.lmtp, ~cfg.pooling, Listed, NEW m \in Mail, Finished(m)
               PROVE  /\ Range(conv[m].ok) = {r \in Rcpt(m) : said[m][r] = "2"}
                      /\ Range(conv[m].fail) = {r \in Rcpt(m) : said[m][r] = "4"}
                      /\ Range(conv[m].bounce) = {r \in Rcpt(m) : said[m][r] = "5"}
    BY DEF ListsTrue
  <2>1. Lists(conv[m], said[m], Rcpts[m])
    BY DEF Listed, Told, Covers
  <2> QED BY <2>1 DEF Lists, Sort, Rcpt
<1> QED BY <1>1, <1>2, PTL
==============================================================================
