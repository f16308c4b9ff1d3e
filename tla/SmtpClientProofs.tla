-------------------------- MODULE SmtpClientProofs --------------------------
(***************************************************************************)
(* Whose replies a client of a backend hears, for any connections, number  *)
(* of clients, configurations and faults.                                  *)
(*                                                                         *)
(* OwnReplies is not inductive.  A client goes back to the pool with the   *)
(* RSET as its only command under way (Rests), is in the pool once         *)
(* (Pooled), and smtp_proxy, whose hooks write to the client their         *)
(* connection remembers, remembers one that is lent to it or is destroyed  *)
(* (Kept).                                                                 *)
(*                                                                         *)
(* A handler is followed through the calls it makes by Fine, which says    *)
(* the same of the client and the connection it works on.                  *)
(***************************************************************************)
EXTENDS SmtpClient, TLAPS

\* Numbers of connections and clients begin with 1; 0 is none.
NumbersAssumed == None \notin Conns /\ None \notin Clients

Commands == {"greeting", "ehlo", "helo", "auth", "xclient", "starttls", "mail", "rcpt", "data",
             "dot", "rset"}
Msgs   == [cmd : Commands \cup {"secure"}, for : Conns \cup {None}]
States == {"none", "active", "released", "idle", "destroyed"}

ClientFields == {"state", "host", "conn", "connected", "command", "wire", "next", "listeners",
                 "xclient", "secured", "on_secured", "auths", "authenticated", "pooled", "cut"}
ConnFields   == {"txn", "rcpts", "rcpt", "hook", "answers", "said", "done", "client", "silent"}

ClientOK(k) == /\ DOMAIN k = ClientFields
               /\ k.state \in States
               /\ k.wire \in Seq(Msgs)
               /\ k.conn \in Conns \cup {None}
               /\ k.pooled \in Nat /\ k.on_secured \in Nat
               /\ k.cut \in BOOLEAN
               /\ k.state \in {"active", "released", "idle"} \/ k.pooled > 0 => k.command \in Commands
               /\ k.state = "active" => k.conn \in Conns
               /\ k.state \in {"released", "idle"} => k.conn = None

\* The replies under way, as long as the client was not cut.
Owns(k)   == ~k.cut /\ k.state = "active" => \A i \in DOMAIN k.wire : k.wire[i].for = k.conn
Rests(k)  == ~k.cut => /\ k.state = "released" => Len(k.wire) =< 1
                       /\ k.state = "idle" => k.wire = <<>>
Pooled(k) == ~k.cut => k.pooled = IF k.state = "idle" THEN 1 ELSE 0

Sound(k) == ClientOK(k) /\ Owns(k) /\ Rests(k) /\ Pooled(k)

\* The client smtp_proxy remembers.
Holds(t, c, k) == t.txn /\ t.client = c /\ ~k.cut
HeldBy(c, s, k) == k.state = "destroyed" \/ (k.state = "active" /\ k.conn = s)
Kept == /\ cfg.plugin = "none" => \A s \in Conns : ~conn[s].txn
        /\ Proxy => \A c \in Clients, s \in Conns : Holds(conn[s], c, client[c]) => HeldBy(c, s, client[c])

Types == /\ DOMAIN client = Clients
         /\ DOMAIN conn = Conns
         /\ \A s \in Conns : DOMAIN conn[s] = ConnFields /\ conn[s].client \in Clients \cup {None}

IInv == /\ Types /\ Kept
        /\ \A c \in Clients : Sound(client[c])

------------------------------------------------------------------------------
(* What handlers make of a client and its connection. *)

Works(x) == DOMAIN x = {"c", "told", "by", "s"} /\ Sound(x.c) /\ DOMAIN x.s = ConnFields

\* x is on the way from a client that is lent to b, and t, the connection b.
Going(x, b, t, cut) ==
    /\ Works(x)
    /\ x.c.state \in {"active", "released", "destroyed"}
    /\ x.c.state = "active" => x.by = b /\ x.c.conn = b
    /\ cut => x.c.cut
    /\ x.s.txn = t.txn /\ x.s.client \in {t.client, None}

\* What smtp_proxy remembers is not given back.
Noted(x) == Proxy /\ x.s.txn /\ x.s.client # None /\ ~x.c.cut => x.c.state \in {"active", "destroyed"}

Fine(x, b, t, cut) == Going(x, b, t, cut) /\ Noted(x)

LEMMA SentOwn ==
    ASSUME NEW q \in Seq(Msgs), NEW b, NEW m \in Msgs,
           \A i \in DOMAIN q : q[i].for = b, m.for = b
    PROVE  /\ Append(q, m) \in Seq(Msgs)
           /\ \A i \in DOMAIN Append(q, m) : Append(q, m)[i].for = b
<1>1. Append(q, m) \in Seq(Msgs) /\ Len(Append(q, m)) = Len(q) + 1 /\ Len(q) \in Nat
  OBVIOUS
<1>2. ASSUME NEW i \in DOMAIN Append(q, m) PROVE Append(q, m)[i].for = b
  <2>1. i \in 1 .. Len(q) + 1
    BY <1>1
  <2>2. CASE i = Len(q) + 1
    BY <2>2
  <2>3. CASE i # Len(q) + 1
    <3>1. i \in 1 .. Len(q) /\ DOMAIN q = 1 .. Len(q)
      BY <1>1, <2>1, <2>3
    <3> QED BY <3>1
  <2> QED BY <2>2, <2>3
<1> QED BY <1>1, <1>2

LEMMA SendWorks ==
    ASSUME NEW x, NEW cmd \in Commands, Works(x), x.by \in Conns \cup {None},
           x.c.cut \/ x.c.state = "destroyed" \/ (x.c.state = "active" /\ x.by = x.c.conn)
    PROVE  LET y == Send(x, cmd)
           IN  /\ Works(y) /\ y.s = x.s /\ y.by = x.by
               /\ y.c.state = x.c.state /\ y.c.conn = x.c.conn /\ y.c.cut = x.c.cut
<1> DEFINE m == [cmd |-> cmd, for |-> x.by]
           q == Append(x.c.wire, m)
           y == Send(x, cmd)
           k == y.c
<1>1. DOMAIN x = {"c", "told", "by", "s"} /\ DOMAIN x.c = ClientFields /\ x.c.wire \in Seq(Msgs)
  BY DEF Works, Sound, ClientOK
<1>2. m \in Msgs /\ m.for = x.by
  BY <1>1 DEF Msgs
<1>3. /\ DOMAIN y = {"c", "told", "by", "s"} /\ y.s = x.s /\ y.by = x.by
      /\ k = [x.c EXCEPT !.command = cmd, !.wire = q]
  BY <1>1 DEF Send
<1>4. /\ DOMAIN k = ClientFields /\ k.command = cmd /\ k.wire = q
      /\ k.state = x.c.state /\ k.conn = x.c.conn /\ k.pooled = x.c.pooled /\ k.cut = x.c.cut
      /\ k.on_secured = x.c.on_secured
  BY <1>1, <1>3 DEF ClientFields
<1> HIDE DEF m, y, k
<1>5. q \in Seq(Msgs)
  BY <1>1, <1>2
<1>6. ~k.cut /\ k.state = "active" => \A i \in DOMAIN q : q[i].for = x.c.conn
  <2>1. ASSUME ~k.cut, k.state = "active" PROVE \A i \in DOMAIN x.c.wire : x.c.wire[i].for = x.by
    BY <1>1, <1>4, <2>1 DEF Works, Sound, Owns
  <2>2. ASSUME ~k.cut, k.state = "active" PROVE x.by = x.c.conn
    BY <1>4, <2>2
  <2> QED BY <1>1, <1>2, <2>1, <2>2, SentOwn
<1> HIDE DEF q
<1>7. ClientOK(k)
  BY <1>1, <1>4, <1>5 DEF Works, Sound, ClientOK
<1>8. Owns(k)
  BY <1>4, <1>6 DEF Owns
<1>9. Rests(k) /\ Pooled(k)
  BY <1>4 DEF Works, Sound, Rests, Pooled
<1>10. Works(y)
  BY <1>3, <1>7, <1>8, <1>9 DEF Works, Sound, k
<1> QED BY <1>3, <1>4, <1>10 DEF y, k

LEMMA SendFine ==
    ASSUME NEW b \in Conns, NEW t, NEW cut, NEW x, NEW cmd \in Commands,
           Fine(x, b, t, cut), x.c.state = "active"
    PROVE  Fine(Send(x, cmd), b, t, cut) /\ Send(x, cmd).c.state = "active"
<1>1. Works(x) /\ x.by = b /\ x.c.conn = b
  BY DEF Fine, Going
<1> DEFINE y == Send(x, cmd)
<1>2. /\ Works(y) /\ y.s = x.s /\ y.by = x.by
      /\ y.c.state = x.c.state /\ y.c.conn = x.c.conn /\ y.c.cut = x.c.cut
  BY <1>1, SendWorks
<1> HIDE DEF y
<1>3. Fine(y, b, t, cut) /\ y.c.state = "active"
  BY <1>1, <1>2 DEF Fine, Going, Noted
<1> QED BY <1>3 DEF y

LEMMA DestroyWorks ==
    ASSUME NEW x, Works(x)
    PROVE  LET y == Destroy(x)
           IN  Works(y) /\ y.s = x.s /\ y.by = x.by /\ y.c.state = "destroyed" /\ y.c.cut = x.c.cut
<1> DEFINE k == [NoClient EXCEPT !.state = "destroyed", !.host = x.c.host, !.conn = x.c.conn,
                                 !.next = x.c.next, !.listeners = x.c.listeners, !.cut = x.c.cut]
           y == [x EXCEPT !.c = k]
<1>1. CASE x.c.state = "destroyed"
  BY <1>1 DEF Destroy
<1>2. CASE x.c.state # "destroyed"
  <2>1. Destroy(x) = y
    BY <1>2 DEF Destroy
  <2>2. /\ DOMAIN k = ClientFields /\ k.state = "destroyed" /\ k.wire = <<>>
        /\ k.conn = x.c.conn /\ k.pooled = 0 /\ k.cut = x.c.cut /\ k.on_secured = 0
    BY DEF NoClient, ClientFields
  <2> HIDE DEF k
  <2>3. DOMAIN y = {"c", "told", "by", "s"} /\ y.c = k /\ y.s = x.s /\ y.by = x.by
    BY DEF Works
  <2>4. Sound(k)
    <3>1. <<>> \in Seq(Msgs)
      OBVIOUS
    <3> QED BY <2>2, <3>1 DEF Works, Sound, ClientOK, Owns, Rests, Pooled, States
  <2> HIDE DEF y
  <2> QED BY <2>1, <2>2, <2>3, <2>4 DEF Works
<1> QED BY <1>1, <1>2

LEMMA DestroyFine ==
    ASSUME NEW b, NEW t, NEW cut, NEW x, Going(x, b, t, cut)
    PROVE  Fine(Destroy(x), b, t, cut)
<1> DEFINE y == Destroy(x)
<1>1. Works(y) /\ y.s = x.s /\ y.c.state = "destroyed" /\ y.c.cut = x.c.cut
  BY DestroyWorks DEF Going
<1> HIDE DEF y
<1>2. Fine(y, b, t, cut)
  BY <1>1 DEF Fine, Going, Noted
<1> QED BY <1>2 DEF y

LEMMA ReleaseWorks ==
    ASSUME NEW x, Works(x), x.c.state = "idle" /\ ~x.c.cut => x.c.conn # x.by
    PROVE  LET y == Release(x)
           IN  /\ Works(y) /\ y.s = x.s /\ y.c.state \in {"released", "destroyed"}
               /\ x.c.cut => y.c.cut
               /\ x.c.state = "destroyed" => y.c.state = "destroyed"
               /\ ~y.c.cut /\ y.c.state # "destroyed" => x.c.conn = x.by
<1> DEFINE m == [cmd |-> "rset", for |-> None]
           q == Append(x.c.wire, m)
           gone == x.c.cut \/ x.c.wire # <<>> \/ x.c.conn # x.by
           z == [x EXCEPT !.by = None, !.c.state = "released", !.c.conn = None, !.c.cut = gone]
           y == Send(z, "rset")
           k == y.c
<1>1. CASE ~x.c.connected \/ x.c.command = "data"
  BY <1>1, DestroyWorks DEF Release
<1>2. CASE ~(~x.c.connected \/ x.c.command = "data") /\ x.c.state = "destroyed"
  BY <1>2 DEF Release
<1>3. CASE ~(~x.c.connected \/ x.c.command = "data") /\ x.c.state # "destroyed"
  <2>0. /\ DOMAIN x = {"c", "told", "by", "s"} /\ DOMAIN x.c = ClientFields
        /\ x.c.wire \in Seq(Msgs) /\ x.c.cut \in BOOLEAN
    BY DEF Works, Sound, ClientOK
  <2>1. Release(x) = y
    BY <1>3 DEF Release
  <2>2. /\ DOMAIN z = {"c", "told", "by", "s"} /\ z.s = x.s /\ z.by = None
        /\ DOMAIN z.c = ClientFields /\ z.c.state = "released" /\ z.c.conn = None /\ z.c.cut = gone
        /\ z.c.wire = x.c.wire /\ z.c.pooled = x.c.pooled /\ z.c.on_secured = x.c.on_secured
    <3>1. z.c = [x.c EXCEPT !.state = "released", !.conn = None, !.cut = gone]
      BY <2>0
    <3>2. DOMAIN z = {"c", "told", "by", "s"} /\ z.s = x.s /\ z.by = None
      BY <2>0
    <3> HIDE DEF z
    <3> QED BY <2>0, <3>1, <3>2 DEF ClientFields
  <2> HIDE DEF z
  <2>3. /\ DOMAIN y = {"c", "told", "by", "s"} /\ y.s = x.s
        /\ DOMAIN k = ClientFields /\ k.state = "released" /\ k.wire = q /\ k.command = "rset"
        /\ k.conn = None /\ k.pooled = x.c.pooled /\ k.cut = gone /\ k.on_secured = x.c.on_secured
    BY <2>2 DEF Send, ClientFields
  <2>4. m \in Msgs /\ "rset" \in Commands
    BY DEF Msgs, Commands
  <2>5. q \in Seq(Msgs) /\ Len(q) = Len(x.c.wire) + 1
    BY <2>0, <2>4
  <2>6. x.c.wire = <<>> => Len(q) =< 1
    BY <2>5
  <2> HIDE DEF m, q, y
  <2>8. ClientOK(k)
    BY <2>0, <2>3, <2>4, <2>5 DEF Works, Sound, ClientOK, States
  <2>9. x.c.cut => k.cut
    BY <2>3
  <2>10. ~k.cut => ~x.c.cut /\ x.c.wire = <<>> /\ x.c.conn = x.by
    BY <2>3
  <2>7. ~k.cut => x.c.pooled = 0
    BY <2>10 DEF Works, Sound, Pooled
  <2> HIDE DEF k, gone
  <2>11. Owns(k) /\ Rests(k) /\ Pooled(k)
    <3>1. Owns(k)
      BY <2>3 DEF Owns
    <3>2. Rests(k)
      BY <2>3, <2>6, <2>10 DEF Rests
    <3>3. Pooled(k)
      BY <2>3, <2>7 DEF Pooled
    <3> QED BY <3>1, <3>2, <3>3
  <2>12. Sound(k)
    BY <2>8, <2>11 DEF Sound
  <2>13. y.c = k
    BY DEF k
  <2>14. Works(y)
    BY <2>3, <2>12, <2>13 DEF Works
  <2> QED BY <1>3, <2>1, <2>3, <2>9, <2>10, <2>13, <2>14
<1> QED BY <1>1, <1>2, <1>3

\* After release() the connection may still remember the client.
LEMMA ReleaseGoing ==
    ASSUME NEW b, NEW t, NEW cut, NEW x, Going(x, b, t, cut)
    PROVE  Going(Release(x), b, t, cut)
<1> DEFINE y == Release(x)
<1>1. /\ Works(y) /\ y.s = x.s /\ y.c.state \in {"released", "destroyed"}
      /\ x.c.cut => y.c.cut
  BY ReleaseWorks DEF Going
<1> HIDE DEF y
<1>2. Going(y, b, t, cut)
  BY <1>1 DEF Going
<1> QED BY <1>2 DEF y

LEMMA CallNextWorks ==
    ASSUME NEW x, NEW said, Works(x)
    PROVE  LET y == CallNext(x, said)
           IN  /\ Works(y) /\ y.s = x.s /\ y.by = x.by
               /\ y.c.state = x.c.state /\ y.c.conn = x.c.conn /\ y.c.cut = x.c.cut
               /\ y.c.command = x.c.command
<1> DEFINE told == {[to |-> to, said |-> said] : to \in x.c.next}
           y == [x EXCEPT !.c.next = {}, !.told = told]
           k == y.c
<1>1. CASE x.c.next = {}
  BY <1>1 DEF CallNext
<1>2. CASE x.c.next # {}
  <2>1. CallNext(x, said) = y
    BY <1>2 DEF CallNext
  <2> HIDE DEF told
  <2>2. DOMAIN x = {"c", "told", "by", "s"} /\ DOMAIN x.c = ClientFields
    BY DEF Works, Sound, ClientOK
  <2>3. k = [x.c EXCEPT !.next = {}]
    BY <2>2
  <2>4. DOMAIN y = {"c", "told", "by", "s"} /\ y.s = x.s /\ y.by = x.by
    BY <2>2
  <2> HIDE DEF y
  <2>5. /\ DOMAIN k = ClientFields /\ k.state = x.c.state /\ k.wire = x.c.wire /\ k.conn = x.c.conn
        /\ k.pooled = x.c.pooled /\ k.cut = x.c.cut /\ k.command = x.c.command
        /\ k.on_secured = x.c.on_secured
    BY <2>2, <2>3 DEF ClientFields
  <2> HIDE DEF k
  <2>6. Sound(k)
    BY <2>5 DEF Works, Sound, ClientOK, Owns, Rests, Pooled
  <2>7. y.c = k
    BY DEF k
  <2>8. Works(y)
    BY <2>4, <2>6, <2>7 DEF Works
  <2> QED BY <2>1, <2>4, <2>5, <2>7, <2>8
<1> QED BY <1>1, <1>2

LEMMA CallNextFine ==
    ASSUME NEW b, NEW t, NEW cut, NEW x, NEW said, Fine(x, b, t, cut)
    PROVE  /\ Fine(CallNext(x, said), b, t, cut)
           /\ CallNext(x, said).c.state = x.c.state /\ CallNext(x, said).by = x.by
<1> DEFINE y == CallNext(x, said)
<1>1. /\ Works(y) /\ y.s = x.s /\ y.by = x.by
      /\ y.c.state = x.c.state /\ y.c.conn = x.c.conn /\ y.c.cut = x.c.cut
  BY CallNextWorks DEF Fine, Going
<1> HIDE DEF y
<1>2. Fine(y, b, t, cut)
  BY <1>1 DEF Fine, Going, Noted
<1> QED BY <1>1, <1>2 DEF y

LEMMA DropNotesFine ==
    ASSUME NEW b, NEW t, NEW cut, NEW x, Going(x, b, t, cut)
    PROVE  Fine(DropNotes(x), b, t, cut)
<1> DEFINE y == [x EXCEPT !.s.client = None]
<1>1. DOMAIN x = {"c", "told", "by", "s"} /\ DOMAIN x.s = ConnFields
  BY DEF Going, Works
<1>2. y.s = [x.s EXCEPT !.client = None]
  BY <1>1
<1>3. DOMAIN y = {"c", "told", "by", "s"} /\ y.c = x.c /\ y.by = x.by
  BY <1>1
<1> HIDE DEF y
<1>4. DOMAIN y.s = ConnFields /\ y.s.client = None /\ y.s.txn = x.s.txn
  BY <1>1, <1>2 DEF ConnFields
<1>5. Going(y, b, t, cut)
  BY <1>3, <1>4 DEF Going, Works
<1>6. Noted(y)
  BY <1>4 DEF Noted
<1> QED BY <1>5, <1>6 DEF Fine, DropNotes, y

LEMMA AliveFine ==
    ASSUME NEW b \in Conns, NEW t, NEW cut, NEW x, NEW y,
           Fine(x, b, t, cut), x.by = b, Fine(y, b, t, cut)
    PROVE  Fine(Alive(x, y), b, t, cut)
<1>1. CASE x.s.txn
  BY <1>1 DEF Alive
<1>2. CASE ~x.s.txn
  <2>1. Going(Release(x), b, t, cut)
    BY ReleaseGoing DEF Fine
  <2>2. Noted(Release(x))
    BY <1>2, <2>1 DEF Fine, Going, Noted
  <2> QED BY <1>2, <2>1, <2>2 DEF Alive, Fine
<1> QED BY <1>1, <1>2

LEMMA AliveGoing ==
    ASSUME NEW b \in Conns, NEW t, NEW cut, NEW x, NEW y,
           Going(x, b, t, cut), x.by = b, Going(y, b, t, cut)
    PROVE  Going(Alive(x, y), b, t, cut)
  BY ReleaseGoing DEF Alive

\* A change of something else.
LEMMA SameFine ==
    ASSUME NEW b, NEW t, NEW cut, NEW x, NEW y, Fine(x, b, t, cut),
           DOMAIN y = {"c", "told", "by", "s"}, y.by = x.by,
           DOMAIN y.c = ClientFields, y.c.state = x.c.state, y.c.conn = x.c.conn,
           y.c.wire = x.c.wire, y.c.pooled = x.c.pooled, y.c.cut = x.c.cut, y.c.on_secured \in Nat,
           y.c.command = x.c.command \/ y.c.command \in Commands,
           DOMAIN y.s = ConnFields, y.s.txn = x.s.txn, y.s.client = x.s.client
    PROVE  Fine(y, b, t, cut)
<1>1. Sound(y.c)
  BY DEF Fine, Going, Works, Sound, ClientOK, Owns, Rests, Pooled
<1> QED BY <1>1 DEF Fine, Going, Works, Noted

LEMMA XclientFine ==
    ASSUME NEW b, NEW t, NEW cut, NEW x, Fine(x, b, t, cut)
    PROVE  LET y == [x EXCEPT !.c.xclient = TRUE]
           IN  Fine(y, b, t, cut) /\ y.c.state = x.c.state /\ y.by = x.by
<1> DEFINE y == [x EXCEPT !.c.xclient = TRUE]
<1>1. DOMAIN x = {"c", "told", "by", "s"} /\ DOMAIN x.c = ClientFields /\ DOMAIN x.s = ConnFields /\ x.c.on_secured \in Nat
  BY DEF Fine, Going, Works, Sound, ClientOK
<1>2. DOMAIN y = {"c", "told", "by", "s"} /\ y.by = x.by /\ y.s = x.s /\ y.c = [x.c EXCEPT !.xclient = TRUE]
  BY <1>1
<1> HIDE DEF y
<1>3. /\ DOMAIN y.c = ClientFields
      /\ y.c.state = x.c.state /\ y.c.conn = x.c.conn /\ y.c.wire = x.c.wire /\ y.c.pooled = x.c.pooled
      /\ y.c.cut = x.c.cut /\ (y.c.command = x.c.command \/ y.c.command \in Commands)
      /\ y.c.on_secured = x.c.on_secured
  BY <1>1, <1>2 DEF ClientFields
<1>4. Fine(y, b, t, cut)
  BY <1>1, <1>2, <1>3, SameFine
<1> QED BY <1>2, <1>3, <1>4 DEF y

LEMMA ConnectedFine ==
    ASSUME NEW b, NEW t, NEW cut, NEW x, Fine(x, b, t, cut)
    PROVE  LET y == [x EXCEPT !.c.connected = TRUE]
           IN  Fine(y, b, t, cut) /\ y.c.state = x.c.state /\ y.by = x.by
<1> DEFINE y == [x EXCEPT !.c.connected = TRUE]
<1>1. DOMAIN x = {"c", "told", "by", "s"} /\ DOMAIN x.c = ClientFields /\ DOMAIN x.s = ConnFields /\ x.c.on_secured \in Nat
  BY DEF Fine, Going, Works, Sound, ClientOK
<1>2. DOMAIN y = {"c", "told", "by", "s"} /\ y.by = x.by /\ y.s = x.s /\ y.c = [x.c EXCEPT !.connected = TRUE]
  BY <1>1
<1> HIDE DEF y
<1>3. /\ DOMAIN y.c = ClientFields
      /\ y.c.state = x.c.state /\ y.c.conn = x.c.conn /\ y.c.wire = x.c.wire /\ y.c.pooled = x.c.pooled
      /\ y.c.cut = x.c.cut /\ (y.c.command = x.c.command \/ y.c.command \in Commands)
      /\ y.c.on_secured = x.c.on_secured
  BY <1>1, <1>2 DEF ClientFields
<1>4. Fine(y, b, t, cut)
  BY <1>1, <1>2, <1>3, SameFine
<1> QED BY <1>2, <1>3, <1>4 DEF y

LEMMA AuthenticatedFine ==
    ASSUME NEW b, NEW t, NEW cut, NEW x, Fine(x, b, t, cut)
    PROVE  LET y == [x EXCEPT !.c.authenticated = TRUE]
           IN  Fine(y, b, t, cut) /\ y.c.state = x.c.state /\ y.by = x.by
<1> DEFINE y == [x EXCEPT !.c.authenticated = TRUE]
<1>1. DOMAIN x = {"c", "told", "by", "s"} /\ DOMAIN x.c = ClientFields /\ DOMAIN x.s = ConnFields /\ x.c.on_secured \in Nat
  BY DEF Fine, Going, Works, Sound, ClientOK
<1>2. DOMAIN y = {"c", "told", "by", "s"} /\ y.by = x.by /\ y.s = x.s /\ y.c = [x.c EXCEPT !.authenticated = TRUE]
  BY <1>1
<1> HIDE DEF y
<1>3. /\ DOMAIN y.c = ClientFields
      /\ y.c.state = x.c.state /\ y.c.conn = x.c.conn /\ y.c.wire = x.c.wire /\ y.c.pooled = x.c.pooled
      /\ y.c.cut = x.c.cut /\ (y.c.command = x.c.command \/ y.c.command \in Commands)
      /\ y.c.on_secured = x.c.on_secured
  BY <1>1, <1>2 DEF ClientFields
<1>4. Fine(y, b, t, cut)
  BY <1>1, <1>2, <1>3, SameFine
<1> QED BY <1>2, <1>3, <1>4 DEF y

LEMMA AuthsFine ==
    ASSUME NEW b, NEW t, NEW cut, NEW x, NEW v, Fine(x, b, t, cut)
    PROVE  LET y == [x EXCEPT !.c.auths = v]
           IN  Fine(y, b, t, cut) /\ y.c.state = x.c.state /\ y.by = x.by
<1> DEFINE y == [x EXCEPT !.c.auths = v]
<1>1. DOMAIN x = {"c", "told", "by", "s"} /\ DOMAIN x.c = ClientFields /\ DOMAIN x.s = ConnFields /\ x.c.on_secured \in Nat
  BY DEF Fine, Going, Works, Sound, ClientOK
<1>2. DOMAIN y = {"c", "told", "by", "s"} /\ y.by = x.by /\ y.s = x.s /\ y.c = [x.c EXCEPT !.auths = v]
  BY <1>1
<1> HIDE DEF y
<1>3. /\ DOMAIN y.c = ClientFields
      /\ y.c.state = x.c.state /\ y.c.conn = x.c.conn /\ y.c.wire = x.c.wire /\ y.c.pooled = x.c.pooled
      /\ y.c.cut = x.c.cut /\ (y.c.command = x.c.command \/ y.c.command \in Commands)
      /\ y.c.on_secured = x.c.on_secured
  BY <1>1, <1>2 DEF ClientFields
<1>4. Fine(y, b, t, cut)
  BY <1>1, <1>2, <1>3, SameFine
<1> QED BY <1>2, <1>3, <1>4 DEF y

LEMMA HelloFine ==
    ASSUME NEW b, NEW t, NEW cut, NEW x, Fine(x, b, t, cut)
    PROVE  LET y == [x EXCEPT !.c.command = "helo"]
           IN  Fine(y, b, t, cut) /\ y.c.state = x.c.state /\ y.by = x.by
<1> DEFINE y == [x EXCEPT !.c.command = "helo"]
<1>1. DOMAIN x = {"c", "told", "by", "s"} /\ DOMAIN x.c = ClientFields /\ DOMAIN x.s = ConnFields /\ x.c.on_secured \in Nat
  BY DEF Fine, Going, Works, Sound, ClientOK
<1>2. DOMAIN y = {"c", "told", "by", "s"} /\ y.by = x.by /\ y.s = x.s /\ y.c = [x.c EXCEPT !.command = "helo"]
  BY <1>1
<1> HIDE DEF y
<1>3. /\ DOMAIN y.c = ClientFields
      /\ y.c.state = x.c.state /\ y.c.conn = x.c.conn /\ y.c.wire = x.c.wire /\ y.c.pooled = x.c.pooled
      /\ y.c.cut = x.c.cut /\ (y.c.command = x.c.command \/ y.c.command \in Commands)
      /\ y.c.on_secured = x.c.on_secured
  BY <1>1, <1>2 DEF ClientFields, Commands
<1>4. Fine(y, b, t, cut)
  BY <1>1, <1>2, <1>3, SameFine
<1> QED BY <1>2, <1>3, <1>4 DEF y

------------------------------------------------------------------------------
(* The listeners. *)

LEMMA ThrowsFine ==
    ASSUME NEW b, NEW t, NEW cut, NEW x, Fine(x, b, t, cut)
    PROVE  Fine(Throws(x), b, t, cut) /\ Throws(x).c.state = x.c.state
<1> DEFINE y == Throws(x)
<1>1. DOMAIN x = {"c", "told", "by", "s"}
  BY DEF Fine, Going, Works
<1>2. DOMAIN y = {"c", "told", "by", "s"} /\ y.c = x.c /\ y.by = x.by /\ y.s = x.s
  BY <1>1 DEF Throws
<1> HIDE DEF y
<1>3. Fine(y, b, t, cut)
  BY <1>2 DEF Fine, Going, Works, Noted
<1> QED BY <1>2, <1>3 DEF y

LEMMA HeloFine ==
    ASSUME NEW b \in Conns, NEW t, NEW cut, NEW x, Fine(x, b, t, cut), x.c.state = "active"
    PROVE  Fine(OnHelo(x), b, t, cut)
<1>1. x.by = b
  BY DEF Fine, Going
<1>2. "mail" \in Commands /\ "auth" \in Commands
  BY DEF Commands
<1> QED BY <1>1, <1>2, SendFine, AliveFine, ThrowsFine DEF OnHelo

LEMMA GreetingFine ==
    ASSUME NEW b \in Conns, NEW t, NEW cut, NEW x, Fine(x, b, t, cut), x.c.state = "active"
    PROVE  Fine(OnGreeting(x), b, t, cut)
<1>1. "ehlo" \in Commands
  BY DEF Commands
<1> QED BY <1>1, SendFine DEF OnGreeting

LEMMA AuthFine ==
    ASSUME NEW b \in Conns, NEW t, NEW cut, NEW x, Fine(x, b, t, cut), x.c.state = "active"
    PROVE  Fine(OnAuth(x), b, t, cut)
<1> DEFINE y == [x EXCEPT !.c.authenticated = TRUE]
<1>1. x.by = b /\ "mail" \in Commands
  BY DEF Fine, Going, Commands
<1>2. Fine(y, b, t, cut) /\ y.c.state = "active"
  BY AuthenticatedFine
<1> HIDE DEF y
<1>3. Fine(Send(y, "mail"), b, t, cut)
  BY <1>1, <1>2, SendFine
<1> QED BY <1>1, <1>3, AliveFine DEF OnAuth, y

LEMMA CapabilitiesFine ==
    ASSUME NEW b \in Conns, NEW t, NEW cut, NEW x, NEW offers, Fine(x, b, t, cut), x.c.state = "active"
    PROVE  Fine(OnCapabilities(x, offers), b, t, cut) /\ OnCapabilities(x, offers).c.state = "active"
<1> DEFINE y == [x EXCEPT !.c.auths = @ \/ "AUTH" \in offers]
           z == [x EXCEPT !.c.secured = "asked", !.c.on_secured = @ + 1]
<1>1. "xclient" \in Commands /\ "starttls" \in Commands /\ "auth" \in Commands
  BY DEF Commands
<1>2. Fine(y, b, t, cut) /\ y.c.state = "active"
  BY AuthsFine, SMTT(30)
<1>3. Fine(z, b, t, cut) /\ z.c.state = "active"
  <2> DEFINE n == x.c.on_secured + 1
  <2>1. /\ DOMAIN x = {"c", "told", "by", "s"} /\ DOMAIN x.c = ClientFields /\ DOMAIN x.s = ConnFields
        /\ n \in Nat
    BY DEF Fine, Going, Works, Sound, ClientOK
  <2>2. /\ DOMAIN z = {"c", "told", "by", "s"} /\ z.by = x.by /\ z.s = x.s
        /\ z.c = [x.c EXCEPT !.secured = "asked", !.on_secured = n]
    BY <2>1
  <2> HIDE DEF n, z
  <2>3. /\ DOMAIN z.c = ClientFields
        /\ z.c.state = x.c.state /\ z.c.conn = x.c.conn /\ z.c.wire = x.c.wire /\ z.c.pooled = x.c.pooled
        /\ z.c.cut = x.c.cut /\ z.c.command = x.c.command /\ z.c.on_secured \in Nat
    BY <2>1, <2>2 DEF ClientFields
  <2> QED BY <2>1, <2>2, <2>3, SameFine
<1> HIDE DEF y, z
<1>4. \/ OnCapabilities(x, offers) = y \/ OnCapabilities(x, offers) = Send(x, "xclient")
      \/ OnCapabilities(x, offers) = Send(y, "auth") \/ OnCapabilities(x, offers) = Send(z, "starttls")
  BY DEF OnCapabilities, y, z
<1>5. \A w : \A cmd \in Commands : Fine(w, b, t, cut) /\ w.c.state = "active" =>
          Fine(Send(w, cmd), b, t, cut) /\ Send(w, cmd).c.state = "active"
  BY SendFine
<1>6. /\ Fine(Send(x, "xclient"), b, t, cut) /\ Send(x, "xclient").c.state = "active"
      /\ Fine(Send(y, "auth"), b, t, cut) /\ Send(y, "auth").c.state = "active"
      /\ Fine(Send(z, "starttls"), b, t, cut) /\ Send(z, "starttls").c.state = "active"
  BY <1>1, <1>2, <1>3, <1>5
<1> QED BY <1>2, <1>4, <1>6

LEMMA SentMany ==
    ASSUME NEW q \in Seq(Msgs), NEW b, NEW m \in Msgs, NEW n \in Nat, m.for = b
    PROVE  LET r == q \o [i \in 1 .. n |-> m]
           IN  /\ r \in Seq(Msgs)
               /\ (\A i \in DOMAIN q : q[i].for = b) => \A i \in DOMAIN r : r[i].for = b
<1> DEFINE p == [i \in 1 .. n |-> m]
           r == q \o p
<1>1. p \in Seq(Msgs) /\ Len(p) = n /\ \A i \in 1 .. n : p[i] = m
  OBVIOUS
<1> HIDE DEF p
<1>2. /\ r \in Seq(Msgs) /\ Len(r) = Len(q) + n /\ Len(q) \in Nat
      /\ \A i \in 1 .. Len(r) : r[i] = IF i =< Len(q) THEN q[i] ELSE p[i - Len(q)]
  BY <1>1
<1>3. ASSUME \A i \in DOMAIN q : q[i].for = b, NEW i \in DOMAIN r PROVE r[i].for = b
  <2>1. i \in 1 .. Len(q) + n
    BY <1>2
  <2>2. CASE i =< Len(q)
    <3>1. i \in DOMAIN q /\ r[i] = q[i]
      BY <1>2, <2>1, <2>2
    <3> QED BY <1>3, <3>1
  <2>3. CASE ~(i =< Len(q))
    <3>1. i - Len(q) \in 1 .. n /\ r[i] = p[i - Len(q)]
      BY <1>2, <2>1, <2>3
    <3> QED BY <1>1, <3>1
  <2> QED BY <2>2, <2>3
<1> QED BY <1>2, <1>3 DEF p

\* Every listener for 'secure' says EHLO.
LEMMA OnSecuredFine ==
    ASSUME NEW b \in Conns, NEW t, NEW cut, NEW x, Fine(x, b, t, cut), x.c.state = "active"
    PROVE  Fine(OnSecured(x), b, t, cut)
<1> DEFINE v == IF x.c.secured = "asked" THEN "yes" ELSE x.c.secured
           y == [x EXCEPT !.c.secured = IF @ = "asked" THEN "yes" ELSE @]
           m == [cmd |-> "ehlo", for |-> x.by]
           q == y.c.wire \o [i \in 1 .. y.c.on_secured |-> m]
           k == [y.c EXCEPT !.command = "ehlo", !.wire = q]
           z == [y EXCEPT !.c.command = "ehlo", !.c.wire = q]
<1>1. Fine(y, b, t, cut) /\ y.c.state = "active" /\ y.by = b
  <2>1. /\ DOMAIN x = {"c", "told", "by", "s"} /\ DOMAIN x.c = ClientFields /\ DOMAIN x.s = ConnFields
        /\ x.c.on_secured \in Nat /\ x.by = b
    BY DEF Fine, Going, Works, Sound, ClientOK
  <2>2. DOMAIN y = {"c", "told", "by", "s"} /\ y.by = x.by /\ y.s = x.s /\ y.c = [x.c EXCEPT !.secured = v]
    BY <2>1
  <2> HIDE DEF v, y
  <2>3. /\ DOMAIN y.c = ClientFields
        /\ y.c.state = x.c.state /\ y.c.conn = x.c.conn /\ y.c.wire = x.c.wire /\ y.c.pooled = x.c.pooled
        /\ y.c.cut = x.c.cut /\ y.c.command = x.c.command /\ y.c.on_secured \in Nat
    BY <2>1, <2>2 DEF ClientFields
  <2> QED BY <2>1, <2>2, <2>3, SameFine
<1>2. OnSecured(x) = IF y.c.state # "active" \/ y.c.on_secured = 0 THEN y ELSE z
  BY DEF OnSecured
<1> HIDE DEF y
<1>3. /\ DOMAIN y = {"c", "told", "by", "s"} /\ DOMAIN y.c = ClientFields /\ x.by = b /\ y.c.conn = b
      /\ y.c.wire \in Seq(Msgs) /\ y.c.on_secured \in Nat
  BY <1>1 DEF Fine, Going, Works, Sound, ClientOK
<1>4. m \in Msgs /\ m.for = b
  BY <1>3 DEF Msgs, Commands
<1> HIDE DEF m
<1>5. DOMAIN z = {"c", "told", "by", "s"} /\ z.c = k /\ z.s = y.s /\ z.by = y.by
  BY <1>3
<1>6. /\ DOMAIN k = ClientFields /\ k.command = "ehlo" /\ k.wire = q
      /\ k.state = y.c.state /\ k.conn = y.c.conn /\ k.pooled = y.c.pooled /\ k.cut = y.c.cut
      /\ k.on_secured = y.c.on_secured
  BY <1>3 DEF ClientFields
<1> HIDE DEF k, z
<1>7. /\ q \in Seq(Msgs)
      /\ ~k.cut => \A i \in DOMAIN q : q[i].for = b
  <2>1. ASSUME ~k.cut PROVE \A i \in DOMAIN y.c.wire : y.c.wire[i].for = b
    BY <1>1, <1>3, <1>6, <2>1 DEF Fine, Going, Works, Sound, Owns
  <2> QED BY <1>3, <1>4, <2>1, SentMany
<1> HIDE DEF q
<1>8. "ehlo" \in Commands
  BY DEF Commands
<1>9. Sound(k)
  BY <1>1, <1>3, <1>6, <1>7, <1>8 DEF Fine, Going, Works, Sound, ClientOK, Owns, Rests, Pooled
<1>10. Going(z, b, t, cut)
  BY <1>1, <1>3, <1>5, <1>6, <1>9 DEF Fine, Going, Works
<1>11. Noted(z)
  BY <1>1, <1>5, <1>6 DEF Fine, Noted
<1>12. Fine(z, b, t, cut)
  BY <1>10, <1>11 DEF Fine
<1> QED BY <1>1, <1>2, <1>12

LEMMA SendRcptFine ==
    ASSUME NEW b \in Conns, NEW t, NEW cut, NEW x, Fine(x, b, t, cut), x.c.state = "active"
    PROVE  Fine(SendRcpt(x), b, t, cut)
<1> DEFINE y == [x EXCEPT !.s.rcpt = @ + 1]
<1>1. x.by = b /\ "data" \in Commands /\ "rcpt" \in Commands
  BY DEF Fine, Going, Commands
<1>2. DOMAIN x = {"c", "told", "by", "s"} /\ DOMAIN x.s = ConnFields /\ DOMAIN x.c = ClientFields
      /\ x.c.on_secured \in Nat
  BY DEF Fine, Going, Works, Sound, ClientOK
<1>3. y.s = [x.s EXCEPT !.rcpt = @ + 1] /\ DOMAIN y = {"c", "told", "by", "s"} /\ y.c = x.c /\ y.by = x.by
  BY <1>2
<1> HIDE DEF y
<1>4. DOMAIN y.s = ConnFields /\ y.s.txn = x.s.txn /\ y.s.client = x.s.client
  BY <1>2, <1>3 DEF ConnFields
<1>5. Fine(y, b, t, cut)
  BY <1>2, <1>3, <1>4, SameFine
<1>6. Fine(Send(y, "rcpt"), b, t, cut) /\ Fine(Send(x, "data"), b, t, cut)
  BY <1>1, <1>3, <1>5, SendFine
<1> QED BY <1>1, <1>6, AliveFine DEF SendRcpt, y

LEMMA ForwardOnFine ==
    ASSUME NEW b \in Conns, NEW t, NEW cut, NEW x, Fine(x, b, t, cut), x.c.state = "active", ~Proxy,
           x.c.command \in {"mail", "rcpt", "data", "dot", "rset"}
    PROVE  Fine(ForwardOn(x), b, t, cut)
<1>1. x.by = b /\ {"data", "dot", "rset", "mail"} \subseteq Commands
  BY DEF Fine, Going, Commands
<1>2. Fine(SendRcpt(x), b, t, cut)
  BY SendRcptFine
<1>3. \A cmd \in Commands : Fine(Send(x, cmd), b, t, cut)
  BY SendFine
<1>4. Fine(Release(CallNext(x, "OK")), b, t, cut)
  <2>1. Fine(CallNext(x, "OK"), b, t, cut) /\ CallNext(x, "OK").by = b
    BY <1>1, CallNextFine
  <2> QED BY <2>1, ReleaseGoing DEF Fine, Noted
<1>5. \A y : Fine(y, b, t, cut) => Fine(Alive(x, y), b, t, cut)
  BY <1>1, AliveFine
<1>6. CASE x.c.command = "mail"
  BY <1>2, <1>6 DEF ForwardOn
<1>7. CASE x.c.command = "rcpt"
  BY <1>1, <1>2, <1>3, <1>7 DEF ForwardOn
<1>8. CASE x.c.command = "data"
  BY <1>1, <1>3, <1>5, <1>8 DEF ForwardOn
<1>9. CASE x.c.command = "dot"
  BY <1>1, <1>3, <1>4, <1>5, <1>9 DEF ForwardOn
<1>10. CASE x.c.command = "rset"
  BY <1>1, <1>3, <1>5, <1>10 DEF ForwardOn
<1> QED BY <1>6, <1>7, <1>8, <1>9, <1>10

LEMMA ProxyOnFine ==
    ASSUME NEW b \in Conns, NEW t, NEW cut, NEW x, Fine(x, b, t, cut), x.c.state = "active"
    PROVE  Fine(ProxyOn(x), b, t, cut)
<1>1. x.by = b
  BY DEF Fine, Going
<1>2. Fine(CallNext(x, "CONT"), b, t, cut)
  BY CallNextFine
<1>3. Fine(CallNext(x, "OK"), b, t, cut) /\ CallNext(x, "OK").by = b
  BY <1>1, CallNextFine
<1>4. Going(Alive(x, Release(CallNext(x, "OK"))), b, t, cut)
  BY <1>1, <1>3, ReleaseGoing, AliveGoing DEF Fine
<1>5. Fine(DropNotes(Alive(x, Release(CallNext(x, "OK")))), b, t, cut)
  BY <1>4, DropNotesFine
<1>6. CASE x.c.command \in {"mail", "rcpt", "data"}
  BY <1>2, <1>6 DEF ProxyOn
<1>7. CASE x.c.command = "dot"
  BY <1>5, <1>7 DEF ProxyOn
<1>8. CASE x.c.command \notin {"mail", "rcpt", "data", "dot"}
  BY <1>8 DEF ProxyOn
<1> QED BY <1>6, <1>7, <1>8

LEMMA BadCodeFine ==
    ASSUME NEW b \in Conns, NEW t, NEW cut, NEW x, Fine(x, b, t, cut), x.c.state = "active"
    PROVE  Fine(BadCode(x), b, t, cut)
<1>1. x.by = b
  BY DEF Fine, Going
<1>2. Fine(CallNext(x, "DENY"), b, t, cut) /\ CallNext(x, "DENY").by = b
  BY <1>1, CallNextFine
<1>3. Going(Release(CallNext(x, "DENY")), b, t, cut)
  BY <1>2, ReleaseGoing DEF Fine
<1>4. Fine(DropNotes(Release(CallNext(x, "DENY"))), b, t, cut)
  BY <1>3, DropNotesFine
<1>5. CASE Proxy
  BY <1>2, <1>4, <1>5 DEF BadCode, ProxyBadCode
<1>6. CASE ~Proxy
  <2>1. Fine(Release(CallNext(x, "DENY")), b, t, cut)
    BY <1>3, <1>6 DEF Fine, Noted
  <2> QED BY <1>1, <1>6, <2>1, AliveFine DEF BadCode, ForwardBadCode
<1> QED BY <1>5, <1>6

LEMMA StartTlsFine ==
    ASSUME NEW b \in Conns, NEW t, NEW cut, NEW x, Fine(x, b, t, cut), x.c.state = "active"
    PROVE  Fine([x EXCEPT !.c.wire = Append(@, [cmd |-> "secure", for |-> x.by])], b, t, cut)
<1> DEFINE m == [cmd |-> "secure", for |-> x.by]
           q == Append(x.c.wire, m)
           y == [x EXCEPT !.c.wire = Append(@, m)]
           k == [x.c EXCEPT !.wire = q]
<1>1. /\ DOMAIN x = {"c", "told", "by", "s"} /\ DOMAIN x.c = ClientFields /\ x.by = b /\ x.c.conn = b
      /\ x.c.wire \in Seq(Msgs)
  BY DEF Fine, Going, Works, Sound, ClientOK
<1>2. m \in Msgs /\ m.for = b
  BY <1>1 DEF Msgs
<1> HIDE DEF m
<1>3. DOMAIN y = {"c", "told", "by", "s"} /\ y.c = k /\ y.s = x.s /\ y.by = x.by
  BY <1>1
<1>4. /\ DOMAIN k = ClientFields /\ k.command = x.c.command /\ k.wire = q
      /\ k.state = x.c.state /\ k.conn = x.c.conn /\ k.pooled = x.c.pooled /\ k.cut = x.c.cut
      /\ k.on_secured = x.c.on_secured
  BY <1>1 DEF ClientFields
<1> HIDE DEF k, y
<1>5. q \in Seq(Msgs)
  BY <1>1, <1>2
<1>6. ~k.cut => \A i \in DOMAIN q : q[i].for = b
  <2>1. ASSUME ~k.cut PROVE \A i \in DOMAIN x.c.wire : x.c.wire[i].for = b
    BY <1>1, <1>4, <2>1 DEF Fine, Going, Works, Sound, Owns
  <2> QED BY <1>1, <1>2, <2>1, SentOwn
<1> HIDE DEF q
<1>7. Sound(k)
  BY <1>1, <1>4, <1>5, <1>6 DEF Fine, Going, Works, Sound, ClientOK, Owns, Rests, Pooled
<1>8. Going(y, b, t, cut)
  BY <1>1, <1>3, <1>4, <1>7 DEF Fine, Going, Works
<1>9. Noted(y)
  BY <1>3, <1>4 DEF Fine, Noted
<1> QED BY <1>8, <1>9 DEF Fine, y, m

LEMMA SwitchFine ==
    ASSUME NEW b \in Conns, NEW t, NEW cut, NEW x, Fine(x, b, t, cut), x.c.state = "active"
    PROVE  Fine(Switch(x), b, t, cut)
<1> DEFINE y == [x EXCEPT !.c.xclient = TRUE]
           z == [x EXCEPT !.c.connected = TRUE]
<1>1. x.c.command \in Commands
  BY DEF Fine, Going, Works, Sound, ClientOK
<1>2. Fine(y, b, t, cut) /\ y.c.state = "active" /\ Fine(z, b, t, cut) /\ z.c.state = "active"
  BY XclientFine, ConnectedFine
<1> HIDE DEF y, z
<1>3. CASE x.c.command = "xclient"
  <2>1. Fine(OnGreeting(y), b, t, cut)
    BY <1>2, GreetingFine
  <2> QED BY <1>3, <2>1 DEF Switch, y
<1>4. CASE x.c.command = "starttls"
  BY <1>4, StartTlsFine DEF Switch
<1>5. CASE x.c.command = "greeting"
  <2>1. Fine(OnGreeting(z), b, t, cut)
    BY <1>2, GreetingFine
  <2> QED BY <1>5, <2>1 DEF Switch, z
<1>6. CASE x.c.command \in {"ehlo", "helo"}
  BY <1>6, HeloFine DEF Switch
<1>7. CASE x.c.command = "auth"
  BY <1>7, AuthFine DEF Switch
<1>8. CASE x.c.command \in {"mail", "rcpt", "data", "dot", "rset"}
  <2>1. Fine(On(x), b, t, cut)
    BY <1>8, ProxyOnFine, ForwardOnFine DEF On
  <2> QED BY <1>8, <2>1 DEF Switch
<1> QED BY <1>1, <1>3, <1>4, <1>5, <1>6, <1>7, <1>8 DEF Commands

LEMMA CheckedFine ==
    ASSUME NEW b \in Conns, NEW t, NEW cut, NEW x, NEW good \in BOOLEAN, Fine(x, b, t, cut), x.c.state = "active"
    PROVE  Fine(Checked(x, good), b, t, cut)
<1>1. Fine(Switch(x), b, t, cut)
  BY SwitchFine
<1>2. Fine(BadCode(x), b, t, cut)
  BY BadCodeFine
<1>3. BadCode(x).c.state = "active" => Fine(Switch(BadCode(x)), b, t, cut)
  BY <1>2, SwitchFine
<1> QED BY <1>1, <1>2, <1>3 DEF Checked

\* A reply to a client that is lent.
LEMMA LentFine ==
    ASSUME NEW b \in Conns, NEW t, NEW cut, NEW x, NEW reply, NEW offers, Fine(x, b, t, cut), x.c.state = "active"
    PROVE  Fine(Lent(x, reply, offers), b, t, cut)
<1> DEFINE good == reply = "ok"
           y == OnCapabilities(x, offers)
           z == [x EXCEPT !.c.command = "helo"]
<1>1. "helo" \in Commands
  BY DEF Commands
<1>2. Fine(Send(x, "helo"), b, t, cut)
  BY <1>1, SendFine
<1>3. Fine(y, b, t, cut) /\ y.c.state = "active"
  BY CapabilitiesFine
<1>4. Fine(z, b, t, cut) /\ z.c.state = "active"
  BY HelloFine
<1> HIDE DEF y, z
<1>5. Fine(Checked(y, good), b, t, cut) /\ Fine(Checked(x, good), b, t, cut) /\ Fine(Switch(z), b, t, cut)
  BY <1>3, <1>4, CheckedFine, SwitchFine
<1>6. CASE x.c.command = "ehlo" /\ reply = "5xx"
  BY <1>2, <1>6 DEF Lent
<1>7. CASE x.c.command = "ehlo" /\ reply # "5xx"
  BY <1>3, <1>5, <1>7 DEF Lent, y
<1>8. CASE x.c.command = "xclient" /\ reply = "5xx"
  BY <1>5, <1>8 DEF Lent, z
<1>9. CASE ~(x.c.command = "ehlo") /\ ~(x.c.command = "xclient" /\ reply = "5xx")
  BY <1>5, <1>9 DEF Lent
<1> QED BY <1>6, <1>7, <1>8, <1>9

------------------------------------------------------------------------------
(* What a handler leaves behind. *)

\* The answers to hooks change neither the transaction of a connection nor the
\* client it remembers.
LEMMA PutConn ==
    ASSUME NEW c, NEW b \in Conns \cup {None}, NEW x, NumbersAssumed, Types, PutOf(c, b, x), DOMAIN x.s = ConnFields
    PROVE  /\ DOMAIN conn' = Conns
           /\ \A t \in Conns : /\ DOMAIN conn'[t] = ConnFields
                               /\ t = b => conn'[t].txn = x.s.txn /\ conn'[t].client = x.s.client
                               /\ t # b => conn'[t].txn = conn[t].txn /\ conn'[t].client = conn[t].client
<1> DEFINE changed == IF b = None THEN conn ELSE [conn EXCEPT ![b] = x.s]
           heard(t) == \E a \in x.told : a.to.for = t /\ a.to.hook = changed[t].hook
           said == (CHOOSE a \in x.told : TRUE).said
           told(t) == [changed[t] EXCEPT !.answers = @ + 1, !.said = said]
<1>1. conn' = [t \in Conns |-> IF heard(t) THEN told(t) ELSE changed[t]]
  BY DEF PutOf
<1>2. ASSUME NEW t \in Conns
      PROVE  /\ DOMAIN changed[t] = ConnFields
             /\ t = b => changed[t] = x.s
             /\ t # b => changed[t] = conn[t]
  BY DEF Types, NumbersAssumed
<1> HIDE DEF changed, heard, said
<1>3. ASSUME NEW t \in Conns
      PROVE  /\ DOMAIN told(t) = ConnFields
             /\ told(t).txn = changed[t].txn /\ told(t).client = changed[t].client
  BY <1>2 DEF ConnFields
<1> HIDE DEF told
<1>4. ASSUME NEW t \in Conns
      PROVE  /\ DOMAIN conn'[t] = ConnFields
             /\ conn'[t].txn = changed[t].txn /\ conn'[t].client = changed[t].client
  <2>1. conn'[t] = IF heard(t) THEN told(t) ELSE changed[t]
    BY <1>1
  <2> QED BY <1>2, <1>3, <2>1
<1>5. DOMAIN conn' = Conns
  BY <1>1
<1> QED BY <1>2, <1>4, <1>5

\* One client changes, and the connection it works for.
LEMMA PutHolds ==
    ASSUME NEW c \in Clients, NEW b \in Conns \cup {None}, NEW x,
           NumbersAssumed, IInv, PutOf(c, b, x), UNCHANGED cfg, Works(x),
           client[c].cut => x.c.cut,
           b \in Conns => (x.s.txn => conn[b].txn) /\ x.s.client \in {conn[b].client, None},
           \A t \in Conns : Proxy /\ Holds(conn[t], c, x.c) /\ (t = b => Holds(x.s, c, x.c)) => HeldBy(c, t, x.c)
    PROVE  IInv'
<1>1. client' = [client EXCEPT ![c] = x.c] /\ DOMAIN client = Clients
  BY DEF PutOf, IInv, Types
<1>2. /\ DOMAIN conn' = Conns
      /\ \A t \in Conns : /\ DOMAIN conn'[t] = ConnFields
                          /\ t = b => conn'[t].txn = x.s.txn /\ conn'[t].client = x.s.client
                          /\ t # b => conn'[t].txn = conn[t].txn /\ conn'[t].client = conn[t].client
  BY PutConn DEF Works, IInv
<1>3. DOMAIN client' = Clients /\ client'[c] = x.c /\ \A d \in Clients : d # c => client'[d] = client[d]
  BY <1>1
<1>4. ASSUME NEW t \in Conns PROVE (conn'[t].txn => conn[t].txn) /\ conn'[t].client \in {conn[t].client, None}
  BY <1>2
<1>5. Types'
  BY <1>2, <1>3, <1>4 DEF Types, IInv
<1>6. ASSUME NEW d \in Clients PROVE Sound(client'[d])
  BY <1>3 DEF Works, IInv
<1>7. cfg.plugin = "none" => \A t \in Conns : ~conn'[t].txn
  BY <1>4 DEF IInv, Kept
<1>8. ASSUME Proxy, NEW d \in Clients, NEW t \in Conns, Holds(conn'[t], d, client'[d])
      PROVE  HeldBy(d, t, client'[d])
  <2>1. conn[t].txn /\ conn[t].client = d /\ d # None
    BY <1>4, <1>8 DEF Holds, NumbersAssumed
  <2>2. CASE d = c
    BY <1>2, <1>3, <1>8, <2>1, <2>2 DEF Holds
  <2>3. CASE d # c
    <3>1. client'[d] = client[d] /\ Holds(conn[t], d, client[d])
      BY <1>3, <1>8, <2>1, <2>3 DEF Holds
    <3> QED BY <1>8, <3>1 DEF IInv, Kept
  <2> QED BY <2>2, <2>3
<1>9. Kept'
  BY <1>7, <1>8 DEF Kept, Proxy
<1>10. (\A d \in Clients : Sound(client[d]))'
  BY <1>6
<1> QED BY <1>5, <1>9, <1>10 DEF IInv

LEMMA FineHolds ==
    ASSUME NEW c \in Clients, NEW b \in Conns, NEW x, NumbersAssumed, IInv, client[c].state = "active", b = client[c].conn,
           PutOf(c, b, x), UNCHANGED cfg, Fine(x, b, conn[b], client[c].cut)
    PROVE  IInv'
<1>1. ASSUME NEW t \in Conns, Proxy, Holds(conn[t], c, x.c) PROVE t = b /\ c # None
  <2>1. HeldBy(c, t, client[c])
    BY <1>1 DEF IInv, Kept, Holds, Fine, Going
  <2> QED BY <2>1 DEF HeldBy, NumbersAssumed
<1>2. ASSUME Proxy, Holds(x.s, c, x.c), c # None PROVE HeldBy(c, b, x.c)
  <2>1. x.c.state \in {"active", "destroyed"}
    BY <1>2 DEF Fine, Noted, Holds
  <2> QED BY <2>1 DEF Fine, Going, HeldBy
<1>3. Works(x) /\ (client[c].cut => x.c.cut) /\ (x.s.txn => conn[b].txn) /\ x.s.client \in {conn[b].client, None}
  BY DEF Fine, Going
<1> QED BY <1>1, <1>2, <1>3, PutHolds

LEMMA PairWorks ==
    ASSUME NEW c \in Clients, NEW b \in Conns \cup {None}, IInv
    PROVE  LET x == PairOf(c, b)
           IN  /\ Works(x) /\ x.c = client[c] /\ x.by = b
               /\ b = None => x.s = NoConn
               /\ b # None => x.s = conn[b]
<1>1. DOMAIN NoConn = ConnFields
  BY DEF NoConn, ConnFields
<1> QED BY <1>1 DEF IInv, Types, Works, PairOf

LEMMA PairFine ==
    ASSUME NEW c \in Clients, NEW b \in Conns, NumbersAssumed, IInv, client[c].state = "active", b = client[c].conn
    PROVE  Fine(PairOf(c, b), b, conn[b], client[c].cut)
<1> DEFINE x == PairOf(c, b)
<1>1. Works(x) /\ x.c = client[c] /\ x.by = b /\ x.s = conn[b]
  BY PairWorks DEF NumbersAssumed
<1> HIDE DEF x
<1>2. Fine(x, b, conn[b], client[c].cut)
  BY <1>1 DEF Fine, Going, Noted
<1> QED BY <1>2 DEF x

\* Where the client of a connection is.
LEMMA Users ==
    ASSUME NEW c \in Clients, NumbersAssumed, IInv
    PROVE  /\ client[c].conn \in Conns \cup {None}
           /\ client[c].state = "active" => client[c].conn \in Conns
           /\ client[c].state \in {"released", "idle"} =>
                  /\ client[c].conn = None
                  /\ \A t \in Conns : Proxy => ~Holds(conn[t], c, client[c])
<1>1. Sound(client[c])
  BY DEF IInv
<1>2. ASSUME NEW t \in Conns, Proxy, Holds(conn[t], c, client[c]) PROVE client[c].state \in {"active", "destroyed"}
  BY <1>2 DEF IInv, Kept, HeldBy
<1> QED BY <1>1, <1>2 DEF Sound, ClientOK

\* The oldest reply was heard.
LEMMA HeardWorks ==
    ASSUME NEW x, Works(x), x.c.wire # <<>>
    PROVE  LET y == [x EXCEPT !.c.wire = Tail(@)]
           IN  /\ Works(y) /\ y.s = x.s /\ y.by = x.by
               /\ y.c.state = x.c.state /\ y.c.conn = x.c.conn /\ y.c.cut = x.c.cut
               /\ y.c.state = "released" /\ ~y.c.cut => y.c.wire = <<>>
<1> DEFINE q == Tail(x.c.wire)
           y == [x EXCEPT !.c.wire = Tail(@)]
           k == [x.c EXCEPT !.wire = q]
<1>1. DOMAIN x = {"c", "told", "by", "s"} /\ DOMAIN x.c = ClientFields /\ x.c.wire \in Seq(Msgs)
  BY DEF Works, Sound, ClientOK
<1>2. /\ q \in Seq(Msgs) /\ Len(q) = Len(x.c.wire) - 1 /\ Len(x.c.wire) \in Nat
      /\ \A i \in 1 .. Len(q) : q[i] = x.c.wire[i + 1] /\ i + 1 \in 1 .. Len(x.c.wire)
  BY <1>1
<1>3. DOMAIN q = 1 .. Len(q) /\ DOMAIN x.c.wire = 1 .. Len(x.c.wire)
  BY <1>1, <1>2
<1>4. Len(x.c.wire) =< 1 => q = <<>>
  BY <1>1, <1>2
<1>5. DOMAIN y = {"c", "told", "by", "s"} /\ y.c = k /\ y.s = x.s /\ y.by = x.by
  BY <1>1
<1>6. /\ DOMAIN k = ClientFields /\ k.command = x.c.command /\ k.wire = q
      /\ k.state = x.c.state /\ k.conn = x.c.conn /\ k.pooled = x.c.pooled /\ k.cut = x.c.cut
      /\ k.on_secured = x.c.on_secured
  BY <1>1 DEF ClientFields
<1> HIDE DEF q, y, k
<1>7. ClientOK(k)
  BY <1>1, <1>2, <1>6 DEF Works, Sound, ClientOK
<1>8. Owns(k)
  <2>1. ASSUME ~k.cut, k.state = "active", NEW i \in DOMAIN q PROVE q[i].for = k.conn
    <3>1. \A j \in DOMAIN x.c.wire : x.c.wire[j].for = x.c.conn
      BY <1>6, <2>1 DEF Works, Sound, Owns
    <3> QED BY <1>2, <1>3, <1>6, <2>1, <3>1, SMTT(30)
  <2> QED BY <1>6, <2>1 DEF Owns
<1>9. ~k.cut => /\ k.state = "released" => k.wire = <<>>
                /\ k.state # "idle"
  BY <1>4, <1>6 DEF Works, Sound, Rests
<1>10. <<>> \in Seq(Msgs) /\ Len(<<>>) = 0
  OBVIOUS
<1>11. Rests(k)
  BY <1>9, <1>10 DEF Rests
<1>12. Pooled(k)
  BY <1>6 DEF Works, Sound, Pooled
<1>13. Works(y)
  BY <1>1, <1>5, <1>7, <1>8, <1>11, <1>12 DEF Works, Sound
<1> QED BY <1>5, <1>6, <1>9, <1>13 DEF y

LEMMA HeardFine ==
    ASSUME NEW b, NEW t, NEW cut, NEW x, Fine(x, b, t, cut), x.c.wire # <<>>
    PROVE  Fine([x EXCEPT !.c.wire = Tail(@)], b, t, cut) /\ [x EXCEPT !.c.wire = Tail(@)].c.state = x.c.state
<1> DEFINE y == [x EXCEPT !.c.wire = Tail(@)]
<1>1. /\ Works(y) /\ y.s = x.s /\ y.by = x.by
      /\ y.c.state = x.c.state /\ y.c.conn = x.c.conn /\ y.c.cut = x.c.cut
  BY HeardWorks DEF Fine, Going
<1> HIDE DEF y
<1>2. Fine(y, b, t, cut)
  BY <1>1 DEF Fine, Going, Noted
<1> QED BY <1>1, <1>2 DEF y

\* The reply to RSET.
LEMMA ReturningWorks ==
    ASSUME NEW x, NEW reply, Works(x), x.c.state = "released" /\ ~x.c.cut => x.c.wire = <<>>
    PROVE  Works(Returning(x, reply)) /\ (x.c.cut => Returning(x, reply).c.cut)
<1> DEFINE k == [x.c EXCEPT !.state = "idle", !.pooled = @ + 1]
           y == [x EXCEPT !.c.state = "idle", !.c.pooled = @ + 1]
<1>1. CASE x.c.state = "released" /\ reply = "ok"
  <2>1. DOMAIN x = {"c", "told", "by", "s"} /\ DOMAIN x.c = ClientFields /\ x.c.pooled \in Nat /\ x.c.conn = None
    BY <1>1 DEF Works, Sound, ClientOK
  <2>2. DOMAIN y = {"c", "told", "by", "s"} /\ y.c = k /\ y.s = x.s
    BY <2>1
  <2>3. /\ DOMAIN k = ClientFields /\ k.command = x.c.command /\ k.wire = x.c.wire
        /\ k.state = "idle" /\ k.conn = None /\ k.pooled = x.c.pooled + 1 /\ k.cut = x.c.cut
        /\ k.on_secured = x.c.on_secured
    BY <2>1 DEF ClientFields
  <2>4. Returning(x, reply) = y
    BY <1>1 DEF Returning
  <2> HIDE DEF k, y
  <2>5. k.pooled \in Nat /\ (x.c.pooled = 0 => k.pooled = 1)
    BY <2>1, <2>3
  <2>6. ClientOK(k)
    BY <1>1, <2>3, <2>5 DEF Works, Sound, ClientOK, States
  <2>7. Owns(k) /\ Rests(k) /\ Pooled(k)
    <3>1. ~k.cut => x.c.pooled = 0
      BY <1>1, <2>3 DEF Works, Sound, Pooled
    <3>2. Pooled(k)
      BY <2>3, <2>5, <3>1 DEF Pooled
    <3>3. Owns(k) /\ Rests(k)
      BY <1>1, <2>3 DEF Owns, Rests
    <3> QED BY <3>2, <3>3
  <2> QED BY <2>2, <2>3, <2>4, <2>6, <2>7 DEF Works, Sound
<1>2. CASE x.c.state = "released" /\ reply # "ok"
  BY <1>2, DestroyWorks DEF Returning
<1>3. CASE x.c.state # "released"
  BY <1>3 DEF Returning
<1> QED BY <1>1, <1>2, <1>3

\* A client on its way to the pool, or in it, is remembered by nobody.
LEMMA RestHolds ==
    ASSUME NEW c \in Clients, NEW x, NumbersAssumed, IInv, client[c].state \in {"released", "idle"},
           PutOf(c, None, x), UNCHANGED cfg, Works(x), client[c].cut => x.c.cut
    PROVE  IInv'
<1>1. None \notin Conns
  BY DEF NumbersAssumed
<1>2. ASSUME NEW t \in Conns, Proxy, Holds(conn[t], c, x.c) PROVE FALSE
  BY <1>2, Users DEF Holds
<1> QED BY <1>1, <1>2, PutHolds

\* One that is destroyed may be remembered by anybody.
LEMMA GoneHolds ==
    ASSUME NEW c \in Clients, NEW b \in Conns \cup {None}, NEW x, NumbersAssumed, IInv,
           PutOf(c, b, x), UNCHANGED cfg, Works(x), x.c.state = "destroyed", client[c].cut => x.c.cut,
           b \in Conns => x.s.txn = conn[b].txn /\ x.s.client = conn[b].client
    PROVE  IInv'
<1>1. \A t \in Conns : HeldBy(c, t, x.c)
  BY DEF HeldBy
<1>2. b \in Conns => (x.s.txn => conn[b].txn) /\ x.s.client \in {conn[b].client, None}
  OBVIOUS
<1> QED BY <1>1, <1>2, PutHolds

\* A connection changes by itself.
LEMMA ConnHolds ==
    ASSUME NEW s \in Conns, NEW u, NumbersAssumed, IInv, conn' = [conn EXCEPT ![s] = u], UNCHANGED <<cfg, client>>,
           DOMAIN u = ConnFields, u.txn => conn[s].txn, u.client \in {conn[s].client, None}
    PROVE  IInv'
<1>1. DOMAIN conn' = Conns /\ conn'[s] = u /\ \A t \in Conns : t # s => conn'[t] = conn[t]
  BY DEF IInv, Types
<1>2. Types'
  BY <1>1 DEF IInv, Types
<1>3. \A t \in Conns : conn'[t].txn => conn[t].txn
  BY <1>1, Zenon
<1>4. ASSUME Proxy, NEW d \in Clients, NEW t \in Conns, Holds(conn'[t], d, client[d]) PROVE HeldBy(d, t, client[d])
  <2>1. d # None
    BY DEF NumbersAssumed
  <2>2. conn[t].client = d
    BY <1>1, <1>4, <2>1 DEF Holds
  <2>3. Holds(conn[t], d, client[d])
    BY <1>3, <1>4, <2>2, Zenon DEF Holds
  <2> QED BY <1>4, <2>3 DEF IInv, Kept
<1>5. cfg.plugin = "none" => \A t \in Conns : ~conn'[t].txn
  BY <1>3, Zenon DEF IInv, Kept
<1>6. Kept'
  BY <1>4, <1>5 DEF Kept, Proxy
<1> QED BY <1>2, <1>6 DEF IInv

LEMMA OverFields ==
    ASSUME NEW t
    PROVE  DOMAIN Over(t) = ConnFields /\ ~Over(t).txn /\ Over(t).client \in {t.client, None}
  BY DEF Over, NoConn, ConnFields

------------------------------------------------------------------------------
(* The actions. *)

LEMMA ReplyHolds ==
    ASSUME NEW c \in Clients, NumbersAssumed, IInv, Reply(c)
    PROVE  IInv'
<1> DEFINE p == PairOf(c, User(c))
           x == [p EXCEPT !.c.wire = Tail(@)]
           b == User(c)
<1>1. PICK reply, offers : PutOf(c, b, IF x.c.state = "active" THEN Lent(x, reply, offers) ELSE Returning(x, reply))
  BY Zenon DEF Reply, Put, Pair
<1>2. UNCHANGED cfg /\ client[c].state \in {"active", "released", "idle"} /\ client[c].wire # <<>>
  BY DEF Reply, Live
<1>3. b = client[c].conn /\ b \in Conns \cup {None}
  BY Users DEF User
<1>4. Works(p) /\ p.c = client[c]
  BY <1>3, PairWorks
<1>5. CASE client[c].state = "active"
  <2>1. b \in Conns
    BY <1>3, <1>5, Users
  <2>2. Fine(p, b, conn[b], client[c].cut)
    BY <1>3, <1>5, <2>1, PairFine
  <2> HIDE DEF p, b
  <2>3. Fine(x, b, conn[b], client[c].cut) /\ x.c.state = "active"
    BY <1>2, <1>4, <1>5, <2>2, HeardFine
  <2> HIDE DEF x
  <2>4. Fine(Lent(x, reply, offers), b, conn[b], client[c].cut)
    BY <2>1, <2>3, LentFine
  <2>5. PutOf(c, b, Lent(x, reply, offers))
    BY <1>1, <2>3
  <2> QED BY <1>2, <1>3, <1>5, <2>1, <2>4, <2>5, FineHolds
<1>6. CASE client[c].state \in {"released", "idle"}
  <2>1. b = None
    BY <1>3, <1>6, Users
  <2> HIDE DEF p, b
  <2>2. /\ Works(x) /\ x.c.state = client[c].state /\ x.c.cut = client[c].cut
        /\ x.c.state = "released" /\ ~x.c.cut => x.c.wire = <<>>
    BY <1>2, <1>4, HeardWorks
  <2> HIDE DEF x
  <2>3. Works(Returning(x, reply)) /\ (client[c].cut => Returning(x, reply).c.cut)
    BY <2>2, ReturningWorks
  <2>4. PutOf(c, None, Returning(x, reply))
    BY <1>1, <1>6, <2>1, <2>2
  <2> QED BY <1>2, <1>6, <2>3, <2>4, RestHolds
<1> QED BY <1>2, <1>5, <1>6

LEMMA SecureHolds ==
    ASSUME NEW c \in Clients, NumbersAssumed, IInv, Secure(c)
    PROVE  IInv'
<1> DEFINE p == PairOf(c, User(c))
           z == [p EXCEPT !.c.wire = Tail(@)]
           b == User(c)
<1>1. PutOf(c, b, OnSecured(z))
  BY Zenon DEF Secure, Put, Pair
<1>2. UNCHANGED cfg /\ client[c].state \in {"active", "released", "idle"} /\ client[c].wire # <<>>
  BY DEF Secure, Live
<1>3. b = client[c].conn /\ b \in Conns \cup {None}
  BY Users DEF User
<1>4. Works(p) /\ p.c = client[c]
  BY <1>3, PairWorks
<1>5. CASE client[c].state = "active"
  <2>1. b \in Conns
    BY <1>3, <1>5, Users
  <2>2. Fine(p, b, conn[b], client[c].cut)
    BY <1>3, <1>5, <2>1, PairFine
  <2> HIDE DEF p, b
  <2>3. Fine(z, b, conn[b], client[c].cut) /\ z.c.state = "active"
    BY <1>2, <1>4, <1>5, <2>2, HeardFine
  <2> HIDE DEF z
  <2>4. Fine(OnSecured(z), b, conn[b], client[c].cut)
    BY <2>1, <2>3, OnSecuredFine
  <2> QED BY <1>1, <1>2, <1>3, <1>5, <2>1, <2>4, FineHolds
<1>6. CASE client[c].state \in {"released", "idle"}
  <2> DEFINE v == IF z.c.secured = "asked" THEN "yes" ELSE z.c.secured
             w == [z EXCEPT !.c.secured = IF @ = "asked" THEN "yes" ELSE @]
  <2>1. b = None
    BY <1>3, <1>6, Users
  <2> HIDE DEF p, b
  <2>2. Works(z) /\ z.c.state = client[c].state /\ z.c.cut = client[c].cut
    BY <1>2, <1>4, HeardWorks
  <2>3. OnSecured(z) = IF w.c.state # "active" \/ w.c.on_secured = 0 THEN w
                       ELSE [w EXCEPT !.c.command = "ehlo", !.c.wire = @ \o [i \in 1 .. w.c.on_secured |-> [cmd |-> "ehlo", for |-> z.by]]]
    BY DEF OnSecured
  <2> HIDE DEF z
  <2>4. /\ DOMAIN z = {"c", "told", "by", "s"} /\ DOMAIN z.c = ClientFields
    BY <2>2 DEF Works, Sound, ClientOK
  <2>5. DOMAIN w = {"c", "told", "by", "s"} /\ w.c = [z.c EXCEPT !.secured = v] /\ w.s = z.s
    BY <2>4
  <2> HIDE DEF w, v
  <2>6. /\ DOMAIN w.c = ClientFields
        /\ w.c.state = z.c.state /\ w.c.conn = z.c.conn /\ w.c.wire = z.c.wire /\ w.c.pooled = z.c.pooled
        /\ w.c.cut = z.c.cut /\ w.c.command = z.c.command /\ w.c.on_secured = z.c.on_secured
    BY <2>4, <2>5 DEF ClientFields
  <2>7. Sound(w.c)
    BY <2>2, <2>6 DEF Works, Sound, ClientOK, Owns, Rests, Pooled
  <2>8. Works(w)
    BY <2>2, <2>5, <2>7 DEF Works
  <2>9. PutOf(c, None, w)
    BY <1>1, <1>6, <2>1, <2>2, <2>3, <2>6
  <2> QED BY <1>2, <1>6, <2>2, <2>6, <2>8, <2>9, RestHolds
<1> QED BY <1>2, <1>5, <1>6

LEMMA UnrecognizedHolds ==
    ASSUME NEW c \in Clients, NumbersAssumed, IInv, Unrecognized(c)
    PROVE  IInv'
<1> DEFINE p == PairOf(c, User(c))
           x == Destroy(CallNext(p, "CONT"))
           b == User(c)
<1>1. /\ PutOf(c, b, IF client[c].state # "active" THEN Throws(p) ELSE IF Proxy THEN DropNotes(x) ELSE x)
      /\ UNCHANGED cfg /\ client[c].state \in {"active", "released", "idle"}
  BY Zenon DEF Unrecognized, Put, Pair, Live
<1>2. b = client[c].conn /\ b \in Conns \cup {None}
  BY Users DEF User
<1>3. CASE client[c].state = "active"
  <2>1. b \in Conns
    BY <1>2, <1>3, Users
  <2>2. Fine(p, b, conn[b], client[c].cut)
    BY <1>2, <1>3, <2>1, PairFine
  <2> HIDE DEF p, b
  <2>3. Fine(CallNext(p, "CONT"), b, conn[b], client[c].cut)
    BY <2>2, CallNextFine
  <2>4. Fine(x, b, conn[b], client[c].cut)
    BY <2>3, DestroyFine DEF Fine
  <2> HIDE DEF x
  <2>5. Fine(DropNotes(x), b, conn[b], client[c].cut)
    BY <2>4, DropNotesFine DEF Fine
  <2> QED BY <1>1, <1>2, <1>3, <2>1, <2>4, <2>5, FineHolds
<1>4. CASE client[c].state \in {"released", "idle"}
  <2> DEFINE y == Throws(p)
  <2>1. b = None
    BY <1>2, <1>4, Users
  <2>2. Works(p) /\ p.c = client[c]
    BY <1>2, PairWorks
  <2>3. PutOf(c, None, y)
    BY <1>1, <1>4, <2>1
  <2> HIDE DEF p, b
  <2>4. DOMAIN y = {"c", "told", "by", "s"} /\ y.c = p.c /\ y.s = p.s
    BY <2>2 DEF Throws, Works
  <2> HIDE DEF y
  <2>5. Works(y) /\ (client[c].cut => y.c.cut)
    BY <2>2, <2>4 DEF Works
  <2> QED BY <1>1, <1>4, <2>3, <2>5, RestHolds
<1> QED BY <1>1, <1>3, <1>4

LEMMA ConnectionErrorHolds ==
    ASSUME NEW c \in Clients, NumbersAssumed, IInv, ConnectionError(c), UNCHANGED cfg
    PROVE  IInv'
<1> DEFINE b == User(c)
           p == PairOf(c, b)
           y == Destroy(p)
           z == CallNext(y, "CONT")
           x == [z EXCEPT !.c.wire = <<>>]
<1>1. PutOf(c, b, x)
  BY DEF ConnectionError, Put, Pair
<1>2. b = client[c].conn /\ b \in Conns \cup {None}
  BY Users DEF User
<1>3. Works(p) /\ p.c = client[c] /\ (b # None => p.s = conn[b])
  BY <1>2, PairWorks
<1> HIDE DEF p, b
<1>4. Works(y) /\ y.s = p.s /\ y.c.state = "destroyed" /\ y.c.cut = p.c.cut
  BY <1>3, DestroyWorks
<1> HIDE DEF y
<1>5. Works(z) /\ z.s = y.s /\ z.c.state = "destroyed" /\ z.c.cut = y.c.cut
  BY <1>4, CallNextWorks
<1> HIDE DEF z
<1>6. DOMAIN z = {"c", "told", "by", "s"} /\ DOMAIN z.c = ClientFields
  BY <1>5 DEF Works, Sound, ClientOK
<1>7. DOMAIN x = {"c", "told", "by", "s"} /\ x.c = [z.c EXCEPT !.wire = <<>>] /\ x.s = z.s
  BY <1>6
<1> HIDE DEF x
<1>8. /\ DOMAIN x.c = ClientFields
      /\ x.c.state = z.c.state /\ x.c.conn = z.c.conn /\ x.c.wire = <<>> /\ x.c.pooled = z.c.pooled
      /\ x.c.cut = z.c.cut /\ x.c.command = z.c.command /\ x.c.on_secured = z.c.on_secured
  BY <1>6, <1>7 DEF ClientFields
<1>9. <<>> \in Seq(Msgs)
  OBVIOUS
<1>10. Sound(x.c)
  BY <1>5, <1>8, <1>9 DEF Works, Sound, ClientOK, Owns, Rests, Pooled
<1>11. Works(x)
  BY <1>5, <1>7, <1>10 DEF Works
<1>12. None \notin Conns
  BY DEF NumbersAssumed
<1> QED BY <1>1, <1>2, <1>3, <1>4, <1>5, <1>7, <1>8, <1>11, <1>12, GoneHolds

LEMMA SocketEndsHolds ==
    ASSUME NEW c \in Clients, NumbersAssumed, IInv, SocketEnds(c)
    PROVE  IInv'
<1> DEFINE b == User(c)
           p == PairOf(c, b)
           y == Destroy(p)
           x == [y EXCEPT !.s.silent = TRUE]
<1>1. PutOf(c, b, x) /\ UNCHANGED cfg
  BY DEF SocketEnds, Put, Pair
<1>2. b = client[c].conn /\ b \in Conns \cup {None}
  BY Users DEF User
<1>3. Works(p) /\ p.c = client[c] /\ (b # None => p.s = conn[b])
  BY <1>2, PairWorks
<1> HIDE DEF p, b
<1>4. Works(y) /\ y.s = p.s /\ y.c.state = "destroyed" /\ y.c.cut = p.c.cut
  BY <1>3, DestroyWorks
<1> HIDE DEF y
<1>6. DOMAIN y = {"c", "told", "by", "s"} /\ DOMAIN y.s = ConnFields
  BY <1>4 DEF Works
<1>7. DOMAIN x = {"c", "told", "by", "s"} /\ x.s = [y.s EXCEPT !.silent = TRUE] /\ x.c = y.c
  BY <1>6
<1> HIDE DEF x
<1>8. DOMAIN x.s = ConnFields /\ x.s.txn = y.s.txn /\ x.s.client = y.s.client
  BY <1>6, <1>7 DEF ConnFields
<1>9. Works(x)
  BY <1>4, <1>7, <1>8 DEF Works
<1>10. b \in Conns => x.s.txn = conn[b].txn /\ x.s.client = conn[b].client
  BY <1>3, <1>4, <1>8 DEF NumbersAssumed
<1>11. x.c.state = "destroyed" /\ (client[c].cut => x.c.cut)
  BY <1>3, <1>4, <1>7
<1> QED BY <1>1, <1>2, <1>9, <1>10, <1>11, GoneHolds

\* A hook asks for a client: a new one,
LEMMA LendNew ==
    ASSUME NEW s \in Conns, NEW h, NEW b, b = NewClient(h, s)
    PROVE  Sound(b) /\ b.state = "active" /\ b.conn = s
<1> DEFINE m == [cmd |-> "greeting", for |-> s]
           q == <<m>>
<1>1. m \in Msgs
  BY DEF Msgs, Commands
<1>2. m.for = s
  OBVIOUS
<1>3. b = [NoClient EXCEPT !.state = "active", !.host = h, !.conn = s, !.command = "greeting", !.wire = q]
  BY DEF NewClient
<1> HIDE DEF m
<1>4. q \in Seq(Msgs) /\ DOMAIN q = {1} /\ q[1] = m
  BY <1>1
<1> HIDE DEF q
<1>5. /\ DOMAIN b = ClientFields /\ b.state = "active" /\ b.conn = s /\ b.command = "greeting"
      /\ b.wire = q /\ b.pooled = 0 /\ b.cut = FALSE /\ b.on_secured = 0
  BY <1>3 DEF NoClient, ClientFields
<1>6. b.command \in Commands
  BY <1>5 DEF Commands
<1>7. ClientOK(b)
  <2>1. DOMAIN b = ClientFields /\ b.state \in States /\ b.conn \in Conns \cup {None}
    BY <1>5 DEF States
  <2>2. b.wire \in Seq(Msgs)
    BY <1>5, <1>4
  <2>3. b.pooled \in Nat /\ b.on_secured \in Nat
    BY <1>5
  <2>4. b.cut \in BOOLEAN
    BY <1>5, Zenon
  <2>5. b.state \notin {"released", "idle"} /\ b.conn \in Conns
    BY <1>5
  <2> QED BY <1>6, <2>1, <2>2, <2>3, <2>5, <2>4 DEF ClientOK
<1>8. Owns(b) /\ Rests(b) /\ Pooled(b)
  BY <1>2, <1>5, <1>4 DEF Owns, Rests, Pooled
<1> QED BY <1>5, <1>7, <1>8 DEF Sound

\* A client of the pool, which rests, as it is lent.
Borrowed(c, s) == [client[c] EXCEPT !.state = "active", !.conn = s, !.pooled = @ - 1, !.secured = "no"]

LEMMA LendIdle ==
    ASSUME NEW c \in Clients, NEW s \in Conns, NEW b, IInv, client[c].pooled > 0, b = Borrowed(c, s)
    PROVE  Sound(b) /\ b.state = "active" /\ b.conn = s /\ b.cut = client[c].cut
<1> DEFINE k == client[c]
<1>1. Sound(k) /\ DOMAIN k = ClientFields
  BY DEF IInv, Sound, ClientOK
<1> HIDE DEF k
<1>2. /\ DOMAIN b = ClientFields /\ b.state = "active" /\ b.conn = s /\ b.command = k.command
      /\ b.wire = k.wire /\ b.pooled = k.pooled - 1 /\ b.cut = k.cut /\ b.on_secured = k.on_secured
  BY <1>1 DEF ClientFields, k, Borrowed
<1>3. k.pooled \in Nat /\ k.pooled > 0
  BY <1>1 DEF Sound, ClientOK, k
<1>4. b.pooled \in Nat /\ (k.pooled = 1 => b.pooled = 0)
  <2>1. \A n \in Nat : n > 0 => n - 1 \in Nat /\ (n = 1 => n - 1 = 0)
    OBVIOUS
  <2>2. b.pooled = k.pooled - 1
    BY <1>2
  <2> QED BY <1>3, <2>1, <2>2, Zenon
<1>5. ~k.cut => k.state = "idle" /\ k.pooled = 1 /\ k.wire = <<>>
  BY <1>1, <1>3 DEF Sound, Rests, Pooled
<1>6. ClientOK(b)
  BY <1>1, <1>2, <1>3, <1>4 DEF Sound, ClientOK, States
<1>7. DOMAIN <<>> = {}
  OBVIOUS
<1>8. Owns(b) /\ Rests(b) /\ Pooled(b)
  BY <1>2, <1>4, <1>5, <1>7 DEF Owns, Rests, Pooled
<1> QED BY <1>2, <1>6, <1>8 DEF Sound, k

LEMMA AsksFields ==
    ASSUME NEW s, NEW hook, NEW t, DOMAIN t = ConnFields
    PROVE  LET u == Asks(s, hook, t) IN DOMAIN u = ConnFields /\ u.txn = t.txn /\ u.client = t.client
  BY DEF Asks, ConnFields

\* The client that is lent, with one more listener; it is written to when it
\* is connected.
Hearing(s, b, t, c, next) ==
    [by |-> s, told |-> {}, c |-> [b EXCEPT !.next = next, !.listeners = @ + 1],
     s |-> [t EXCEPT !.client = c]]
Greeted(x) == IF ~x.c.connected THEN x ELSE IF x.c.xclient THEN Send(x, "xclient") ELSE OnHelo(x)

LEMMA LendFine ==
    ASSUME NEW s \in Conns, NEW b, NEW t, NEW c, NEW next,
           Sound(b), b.state = "active", b.conn = s, DOMAIN t = ConnFields, t.txn = TRUE,
           NEW y, y = Greeted(Hearing(s, b, t, c, next))
    PROVE  /\ Works(y) /\ y.s.txn = TRUE /\ y.s.client \in {c, None} /\ (b.cut => y.c.cut)
           /\ Holds(y.s, c, y.c) /\ c # None /\ Proxy => HeldBy(c, s, y.c)
<1> DEFINE k == [b EXCEPT !.next = next, !.listeners = @ + 1]
           u == [t EXCEPT !.client = c]
           x == Hearing(s, b, t, c, next)
<1>1. DOMAIN b = ClientFields
  BY DEF Sound, ClientOK
<1>2. /\ DOMAIN k = ClientFields /\ k.state = b.state /\ k.conn = b.conn /\ k.wire = b.wire
      /\ k.pooled = b.pooled /\ k.cut = b.cut /\ k.command = b.command /\ k.on_secured = b.on_secured
  BY <1>1 DEF ClientFields
<1>3. DOMAIN u = ConnFields /\ u.client = c
  BY DEF ConnFields
<1>4. u.txn = t.txn
  BY DEF ConnFields
<1> HIDE DEF k, u
<1>5. Sound(k)
  BY <1>2 DEF Sound, ClientOK, Owns, Rests, Pooled
<1>6. DOMAIN x = {"c", "told", "by", "s"} /\ x.c = k /\ x.s = u /\ x.by = s
  BY DEF k, u, Hearing
<1> HIDE DEF x
<1>7. Works(x)
  BY <1>3, <1>5, <1>6 DEF Works
<1>8. Fine(x, s, u, b.cut) /\ x.c.state = "active"
  BY <1>2, <1>6, <1>7 DEF Fine, Going, Noted
<1>9. Fine(y, s, u, b.cut)
  <2>1. "xclient" \in Commands
    BY DEF Commands
  <2>2. Fine(Send(x, "xclient"), s, u, b.cut) /\ Fine(OnHelo(x), s, u, b.cut)
    BY <1>8, <2>1, SendFine, HeloFine
  <2>3. y = x \/ y = Send(x, "xclient") \/ y = OnHelo(x)
    BY DEF Greeted, x
  <2> QED BY <1>8, <2>2, <2>3
<1>10. /\ Works(y) /\ y.s.txn = t.txn /\ y.s.client \in {c, None} /\ (b.cut => y.c.cut)
       /\ y.c.state = "active" => y.c.conn = s
  BY <1>3, <1>4, <1>9 DEF Fine, Going
<1>11. ASSUME Holds(y.s, c, y.c), c # None, Proxy PROVE HeldBy(c, s, y.c)
  <2>1. y.c.state \in {"active", "destroyed"}
    BY <1>9, <1>11 DEF Fine, Noted, Holds
  <2> QED BY <1>10, <2>1 DEF HeldBy
<1> QED BY <1>10, <1>11

LEMMA FirstHookHolds ==
    ASSUME NEW s \in Conns, NumbersAssumed, IInv, FirstHook(s)
    PROVE  IInv'
<1> DEFINE hook == IF Proxy THEN "mail" ELSE "queue"
           h == NextHost
           asked == Asks(s, hook, conn[s])
           lent(c) == [client[c] EXCEPT !.state = "active", !.conn = s, !.pooled = @ - 1, !.secured = "no"]
<1>1. UNCHANGED cfg /\ cfg.plugin # "none"
  BY DEF FirstHook
<1>2. PICK n \in Rcpts : Acquire(s, [asked EXCEPT !.txn = TRUE, !.rcpts = n], hook)
  BY Zenon DEF FirstHook
<1> DEFINE t == [asked EXCEPT !.txn = TRUE, !.rcpts = n]
<1>3. DOMAIN t = ConnFields /\ t.txn = TRUE
  <2>1. DOMAIN asked = ConnFields
    BY AsksFields DEF IInv, Types
  <2> HIDE DEF asked
  <2> QED BY <2>1 DEF ConnFields
<1> HIDE DEF asked, hook, t
<1>4. PICK c \in IF Idle(h) # {} THEN Idle(h) ELSE {d \in Free : \A e \in Free : d =< e} :
          LET b == IF Idle(h) # {} THEN lent(c) ELSE NewClient(h, s)
              x == [by |-> s, told |-> {}, c |-> [b EXCEPT !.next = Asker(s, hook), !.listeners = @ + 1], s |-> [t EXCEPT !.client = c]]
              y == IF ~b.connected THEN x ELSE IF b.xclient THEN Send(x, "xclient") ELSE OnHelo(x)
              lost == [c |-> [b EXCEPT !.listeners = @ + 1], s |-> [t EXCEPT !.client = None, !.answers = 1, !.said = "CONT"]]
              z == IF Thrown \in y.told THEN lost ELSE [c |-> y.c, s |-> y.s]
          IN /\ client' = [client EXCEPT ![c] = z.c]
             /\ conn' = [conn EXCEPT ![s] = z.s]
  BY <1>2, ZenonT(60) DEF Acquire, t
<1> DEFINE b == IF Idle(h) # {} THEN lent(c) ELSE NewClient(h, s)
           x == [by |-> s, told |-> {}, c |-> [b EXCEPT !.next = Asker(s, hook), !.listeners = @ + 1], s |-> [t EXCEPT !.client = c]]
           y == IF ~b.connected THEN x ELSE IF b.xclient THEN Send(x, "xclient") ELSE OnHelo(x)
           lost == [c |-> [b EXCEPT !.listeners = @ + 1], s |-> [t EXCEPT !.client = None, !.answers = 1, !.said = "CONT"]]
           z == IF Thrown \in y.told THEN lost ELSE [c |-> y.c, s |-> y.s]
<1>5. client' = [client EXCEPT ![c] = z.c] /\ conn' = [conn EXCEPT ![s] = z.s]
  BY <1>4
<1>6. c \in Clients /\ c # None
  BY DEF Idle, Free, NumbersAssumed
<1>7. \/ client[c].pooled > 0 /\ b = lent(c) /\ Idle(h) # {}
      \/ b = NewClient(h, s) /\ \A u \in Conns : conn[u].client # c
  BY DEF Idle, Free
<1>7a. client[c].pooled > 0 =>
         Sound(lent(c)) /\ lent(c).state = "active" /\ lent(c).conn = s /\ lent(c).cut = client[c].cut
  <2>1. lent(c) = Borrowed(c, s)
    BY DEF Borrowed
  <2> HIDE DEF lent
  <2> QED BY <1>6, <2>1, LendIdle
<1> HIDE DEF b, lent
<1>8. Sound(b) /\ b.state = "active" /\ b.conn = s
  <2>2. CASE b = NewClient(h, s)
    BY <1>6, <2>2, LendNew
  <2> QED BY <1>7, <1>7a, <2>2
<1>8a. /\ Works(y) /\ y.s.txn = TRUE /\ y.s.client \in {c, None} /\ (b.cut => y.c.cut)
       /\ Holds(y.s, c, y.c) /\ c # None /\ Proxy => HeldBy(c, s, y.c)
  <2>1. x = Hearing(s, b, t, c, Asker(s, hook))
    BY DEF Hearing
  <2>2. x.c.connected = b.connected /\ x.c.xclient = b.xclient
    <3>1. DOMAIN b = ClientFields
      BY <1>8 DEF Sound, ClientOK
    <3> QED BY <3>1 DEF ClientFields
  <2> HIDE DEF x
  <2>3. y = Greeted(x)
    BY <2>2 DEF Greeted
  <2> HIDE DEF y
  <2> QED BY <1>3, <1>8, <2>1, <2>3, LendFine
<1> HIDE DEF y
<1>8b. Sound(lost.c) /\ lost.c.cut = b.cut /\ DOMAIN lost.s = ConnFields /\ lost.s.txn = TRUE /\ lost.s.client = None
  <2> DEFINE k == [b EXCEPT !.listeners = @ + 1]
  <2>1. DOMAIN b = ClientFields
    BY <1>8 DEF Sound, ClientOK
  <2>2. /\ DOMAIN k = ClientFields /\ k.state = b.state /\ k.conn = b.conn /\ k.wire = b.wire
        /\ k.pooled = b.pooled /\ k.cut = b.cut /\ k.command = b.command /\ k.on_secured = b.on_secured
    BY <2>1 DEF ClientFields
  <2> HIDE DEF k
  <2>3. Sound(k)
    BY <1>8, <2>2 DEF Sound, ClientOK, Owns, Rests, Pooled
  <2>4. lost.c = k
    BY DEF k
  <2>5. DOMAIN lost.s = ConnFields /\ lost.s.txn = TRUE /\ lost.s.client = None
    BY <1>3 DEF ConnFields
  <2> HIDE DEF lost
  <2> QED BY <2>2, <2>3, <2>4, <2>5
<1> HIDE DEF lost
<1>9. /\ Sound(z.c) /\ DOMAIN z.s = ConnFields /\ z.s.txn = TRUE /\ z.s.client \in {c, None} /\ (b.cut => z.c.cut)
      /\ Holds(z.s, c, z.c) /\ c # None /\ Proxy => HeldBy(c, s, z.c)
  <2>1. CASE Thrown \in y.told
    <3>1. z = lost
      BY <2>1
    <3> HIDE DEF z
    <3> QED BY <1>8b, <3>1 DEF Holds
  <2>2. CASE ~(Thrown \in y.told)
    <3>1. z.c = y.c /\ z.s = y.s
      BY <2>2
    <3> HIDE DEF z
    <3> QED BY <1>8a, <3>1 DEF Works
  <2> QED BY <2>1, <2>2
<1> HIDE DEF z
<1>10. /\ DOMAIN client' = Clients /\ client'[c] = z.c /\ \A d \in Clients : d # c => client'[d] = client[d]
       /\ DOMAIN conn' = Conns /\ conn'[s] = z.s /\ \A u \in Conns : u # s => conn'[u] = conn[u]
  BY <1>5, <1>6 DEF IInv, Types
<1>11. Types'
  BY <1>6, <1>9, <1>10 DEF IInv, Types
<1>12. (\A d \in Clients : Sound(client[d]))'
  BY <1>9, <1>10 DEF IInv
<1>13. ASSUME Proxy, NEW u \in Conns, u # s, Holds(conn[u], c, z.c) PROVE FALSE
  <2>1. conn[u].client = c
    BY <1>13 DEF Holds
  <2>2. client[c].pooled > 0 /\ b.cut = client[c].cut
    <3>1. CASE b = NewClient(h, s) /\ \A v \in Conns : conn[v].client # c
      BY <2>1, <3>1
    <3>2. CASE client[c].pooled > 0 /\ b = lent(c) /\ Idle(h) # {}
      <4>1. b.cut = client[c].cut
        BY <1>7a, <3>2
      <4> QED BY <3>2, <4>1
    <3> QED BY <1>7, <3>1, <3>2
  <2>3. ~client[c].cut
    BY <1>9, <1>13, <2>2 DEF Holds
  <2>4. client[c].state = "idle"
    BY <1>6, <2>2, <2>3 DEF IInv, Sound, ClientOK, Pooled
  <2>5. Holds(conn[u], c, client[c])
    BY <1>13, <2>3, Zenon DEF Holds
  <2> QED BY <1>6, <1>13, <2>4, <2>5, Users
<1>14. ASSUME Proxy, NEW d \in Clients, NEW u \in Conns, Holds(conn'[u], d, client'[d])
       PROVE  HeldBy(d, u, client'[d])
  <2>1. d # None
    BY DEF NumbersAssumed
  <2>2. CASE d = c /\ u = s
    BY <1>9, <1>10, <1>14, <2>1, <2>2, Zenon
  <2>3. CASE d = c /\ u # s
    BY <1>10, <1>13, <1>14, <2>3
  <2>4. CASE d # c /\ u = s
    BY <1>9, <1>10, <1>14, <2>1, <2>4 DEF Holds
  <2>5. CASE d # c /\ u # s
    BY <1>10, <1>14, <2>5 DEF IInv, Kept
  <2> QED BY <2>2, <2>3, <2>4, <2>5
<1>15. Kept'
  BY <1>1, <1>14 DEF Kept, Proxy
<1> QED BY <1>11, <1>12, <1>15 DEF IInv

LEMMA NextHookHolds ==
    ASSUME NEW s \in Conns, NEW hook \in DOMAIN Command, NumbersAssumed, IInv, NextHook(s, hook)
    PROVE  IInv'
<1> DEFINE c == conn[s].client
           t == Asks(s, hook, conn[s])
           u == [t EXCEPT !.hook = "", !.said = "CONT"]
           k == [client[c] EXCEPT !.next = Asker(s, hook)]
           x == [by |-> s, told |-> {}, c |-> k, s |-> t]
           y == Send(x, Command[hook])
<1>1. UNCHANGED cfg /\ Proxy /\ conn[s].txn
  BY DEF NextHook
<1>2. \/ c = None /\ conn' = [conn EXCEPT ![s] = u] /\ UNCHANGED client
      \/ c # None /\ PutOf(c, s, y)
  BY Zenon DEF NextHook
<1>3. DOMAIN t = ConnFields /\ t.txn = conn[s].txn /\ t.client = c
  BY AsksFields DEF IInv, Types
<1>4. Command[hook] \in Commands
  BY DEF Command, Commands
<1>5. CASE c = None /\ conn' = [conn EXCEPT ![s] = u] /\ UNCHANGED client
  <2> HIDE DEF t, c
  <2>1. DOMAIN u = ConnFields /\ u.txn = t.txn /\ u.client = t.client
    BY <1>3 DEF ConnFields
  <2> HIDE DEF u
  <2>2. u.txn => conn[s].txn
    BY <1>3, <2>1
  <2>3. u.client \in {conn[s].client, None}
    BY <1>3, <2>1 DEF c
  <2> QED BY <1>1, <1>5, <2>1, <2>2, <2>3, ConnHolds
<1>6. CASE c # None /\ PutOf(c, s, y)
  <2>1. c \in Clients
    BY <1>6 DEF IInv, Types
  <2>2. Sound(client[c]) /\ DOMAIN client[c] = ClientFields
    BY <2>1 DEF IInv, Sound, ClientOK
  <2>3. ~client[c].cut => HeldBy(c, s, client[c])
    BY <1>1, <2>1 DEF IInv, Kept, Holds
  <2>4. \A v \in Conns : Holds(conn[v], c, client[c]) => HeldBy(c, v, client[c])
    BY <1>1, <2>1 DEF IInv, Kept
  <2>5. /\ DOMAIN k = ClientFields /\ k.state = client[c].state /\ k.wire = client[c].wire
        /\ k.conn = client[c].conn /\ k.pooled = client[c].pooled /\ k.cut = client[c].cut
        /\ k.command = client[c].command /\ k.on_secured = client[c].on_secured
    BY <2>2 DEF ClientFields
  <2> HIDE DEF t, c, k
  <2>6. Sound(k)
    BY <2>2, <2>5 DEF Sound, ClientOK, Owns, Rests, Pooled
  <2>7. DOMAIN x = {"c", "told", "by", "s"} /\ x.c = k /\ x.s = t /\ x.by = s
    OBVIOUS
  <2> HIDE DEF x
  <2>8. Works(x)
    BY <1>3, <2>6, <2>7 DEF Works
  <2>9. x.c.cut \/ x.c.state = "destroyed" \/ (x.c.state = "active" /\ x.by = x.c.conn)
    BY <2>3, <2>5, <2>7 DEF HeldBy
  <2>10. /\ Works(y) /\ y.s = x.s
         /\ y.c.state = x.c.state /\ y.c.conn = x.c.conn /\ y.c.cut = x.c.cut
    BY <1>4, <2>7, <2>8, <2>9, SendWorks
  <2> HIDE DEF y
  <2>11. y.c.state = client[c].state /\ y.c.conn = client[c].conn /\ y.c.cut = client[c].cut
    BY <2>5, <2>7, <2>10
  <2>12. \A v \in Conns : Proxy /\ Holds(conn[v], c, y.c) /\ (v = s => Holds(y.s, c, y.c)) => HeldBy(c, v, y.c)
    BY <2>4, <2>11 DEF Holds, HeldBy
  <2>13. y.s.txn => conn[s].txn
    BY <1>3, <2>7, <2>10
  <2>14. y.s.client \in {conn[s].client, None}
    BY <1>3, <2>7, <2>10 DEF c
  <2> QED BY <1>1, <1>6, <2>1, <2>10, <2>11, <2>12, <2>13, <2>14, PutHolds
<1> QED BY <1>2, <1>5, <1>6

LEMMA HookEndsHolds ==
    ASSUME NEW s \in Conns, NumbersAssumed, IInv, HookEnds(s)
    PROVE  IInv'
<1> DEFINE t == conn[s]
           w == [t EXCEPT !.hook = "", !.answers = 0, !.silent = FALSE]
           goes == Proxy /\ t.txn /\ t.said = "CONT" /\ t.hook # "queue"
           u == IF goes THEN w ELSE Over(t)
<1>1. conn' = [conn EXCEPT ![s] = u] /\ UNCHANGED <<cfg, client>>
  <2>1. DOMAIN conn = Conns
    BY DEF IInv, Types
  <2> QED BY <2>1 DEF HookEnds
<1>2. DOMAIN t = ConnFields
  BY DEF IInv, Types
<1> HIDE DEF t
<1>3. DOMAIN w = ConnFields /\ w.client = t.client /\ w.txn = t.txn
  BY <1>2 DEF ConnFields
<1> HIDE DEF w, goes
<1>4. CASE goes
  <2>1. u = w
    BY <1>4
  <2> QED BY <1>1, <1>3, <2>1, ConnHolds DEF t
<1>5. CASE ~goes
  <2>1. u = Over(t)
    BY <1>5
  <2> QED BY <1>1, <2>1, OverFields, ConnHolds DEF t
<1> QED BY <1>4, <1>5

LEMMA GivesHolds ==
    ASSUME NEW s \in Conns, NumbersAssumed, IInv, Gives(s)
    PROVE  IInv'
<1> DEFINE u == Over(conn[s])
<1>1. conn' = [conn EXCEPT ![s] = u] /\ UNCHANGED <<cfg, client>>
  BY DEF Gives
<1>2. DOMAIN u = ConnFields /\ ~u.txn /\ u.client \in {conn[s].client, None}
  BY OverFields
<1> HIDE DEF u
<1> QED BY <1>1, <1>2, ConnHolds

LEMMA LeaveHolds ==
    ASSUME NEW s \in Conns, NumbersAssumed, IInv, Leave(s)
    PROVE  IInv'
<1> DEFINE c == conn[s].client
           p == PairOf(c, s)
           r == Release(p)
           d == DropNotes(r)
           z == CallNext(d, "CONT")
           x == [z EXCEPT !.s = Over(@)]
<1>1. UNCHANGED cfg /\ Proxy /\ c # None /\ PutOf(c, s, x)
  BY Zenon DEF Leave
<1>2. c \in Clients /\ s # None
  BY <1>1 DEF IInv, Types, NumbersAssumed
<1>3. Works(p) /\ p.c = client[c] /\ p.by = s /\ p.s = conn[s]
  BY <1>2, PairWorks
<1> HIDE DEF p
<1>4. p.c.state = "idle" /\ ~p.c.cut => p.c.conn # p.by
  BY <1>2, <1>3, Users
<1>5. /\ Works(r) /\ r.s = p.s /\ (p.c.cut => r.c.cut)
      /\ p.c.state = "destroyed" => r.c.state = "destroyed"
      /\ ~r.c.cut /\ r.c.state # "destroyed" => p.c.conn = p.by
  BY <1>3, <1>4, ReleaseWorks
<1> HIDE DEF r
<1>6. Works(d) /\ d.c = r.c /\ d.s.client = None
  <2>1. DOMAIN r = {"c", "told", "by", "s"} /\ DOMAIN r.s = ConnFields
    BY <1>5 DEF Works
  <2>2. DOMAIN d = {"c", "told", "by", "s"} /\ d.c = r.c /\ d.s = [r.s EXCEPT !.client = None]
    BY <2>1 DEF DropNotes
  <2> HIDE DEF d
  <2> QED BY <1>5, <2>1, <2>2 DEF Works, ConnFields
<1> HIDE DEF d
<1>7. /\ Works(z) /\ z.s = d.s
      /\ z.c.state = r.c.state /\ z.c.conn = r.c.conn /\ z.c.cut = r.c.cut
  BY <1>6, CallNextWorks
<1> HIDE DEF z
<1>8. Works(x) /\ x.c = z.c /\ x.s = Over(z.s)
  <2>1. DOMAIN z = {"c", "told", "by", "s"}
    BY <1>7 DEF Works
  <2>2. DOMAIN x = {"c", "told", "by", "s"} /\ x.c = z.c /\ x.s = Over(z.s)
    BY <2>1
  <2> HIDE DEF x
  <2> QED BY <1>7, <2>2, OverFields DEF Works
<1> HIDE DEF x
<1>9. ~x.s.txn /\ x.s.client \in {conn[s].client, None}
  BY <1>6, <1>7, <1>8, OverFields
<1>10. ASSUME NEW t \in Conns, Holds(conn[t], c, x.c), t # s PROVE x.c.state = "destroyed"
  <2>1. ~client[c].cut /\ ~r.c.cut
    BY <1>3, <1>5, <1>7, <1>8, <1>10 DEF Holds
  <2>2. HeldBy(c, t, client[c])
    BY <1>1, <1>2, <1>10, <2>1 DEF IInv, Kept, Holds
  <2> QED BY <1>3, <1>5, <1>7, <1>8, <1>10, <2>1, <2>2 DEF HeldBy
<1>11. \A t \in Conns : Proxy /\ Holds(conn[t], c, x.c) /\ (t = s => Holds(x.s, c, x.c)) => HeldBy(c, t, x.c)
  BY <1>9, <1>10, Zenon DEF Holds, HeldBy
<1>12. client[c].cut => x.c.cut
  BY <1>3, <1>5, <1>7, <1>8
<1> HIDE DEF c
<1> QED BY <1>1, <1>2, <1>8, <1>9, <1>11, <1>12, PutHolds DEF c

------------------------------------------------------------------------------
LEMMA InitHolds == NumbersAssumed /\ ClientInit => IInv
<1> SUFFICES ASSUME NumbersAssumed, ClientInit PROVE IInv
  OBVIOUS
<1>1. /\ DOMAIN NoClient = ClientFields /\ NoClient.state = "none" /\ NoClient.conn = None
      /\ NoClient.wire = <<>> /\ NoClient.pooled = 0 /\ NoClient.on_secured = 0
  BY DEF NoClient, ClientFields
<1>2. NoClient.cut = FALSE
  BY DEF NoClient
<1>3. NoClient.cut \in BOOLEAN
  BY <1>2, Zenon
<1>4. <<>> \in Seq(Msgs)
  OBVIOUS
<1>5. Sound(NoClient)
  BY <1>1, <1>3, <1>4 DEF Sound, ClientOK, Owns, Rests, Pooled, States
<1>6. DOMAIN NoConn = ConnFields /\ NoConn.client = None /\ ~NoConn.txn
  BY DEF NoConn, ConnFields
<1>7. DOMAIN client = Clients /\ \A c \in Clients : client[c] = NoClient
  BY DEF ClientInit
<1>8. DOMAIN conn = Conns /\ \A s \in Conns : conn[s] = NoConn
  BY DEF ClientInit
<1>9. Types
  BY <1>6, <1>7, <1>8 DEF Types
<1>10. Kept
  BY <1>6, <1>8 DEF Kept, Holds
<1> QED BY <1>5, <1>7, <1>9, <1>10 DEF IInv

LEMMA StepHolds == NumbersAssumed /\ IInv /\ [Register \/ ClientNext]_clientVars => IInv'
<1> SUFFICES ASSUME NumbersAssumed, IInv, [Register \/ ClientNext]_clientVars PROVE IInv'
  OBVIOUS
<1>1. ASSUME UNCHANGED <<cfg, client, conn>> PROVE IInv'
  BY <1>1 DEF IInv, Types, Kept, Proxy
<1>2. CASE Register
  <2>1. UNCHANGED <<client, conn>> /\ \A s \in Conns : ~conn[s].txn
    BY <1>2 DEF Register, IInv, Kept
  <2>2. Kept'
    BY <2>1 DEF Kept, Holds
  <2> QED BY <2>1, <2>2 DEF IInv, Types
<1>3. CASE PoolNext /\ UNCHANGED <<cfg, client, conn, faults, thrown>>
  BY <1>1, <1>3
<1>4. ASSUME NEW c \in Clients, Reply(c) PROVE IInv'
  BY <1>4, ReplyHolds
<1>5. ASSUME NEW c \in Clients, Secure(c) PROVE IInv'
  BY <1>5, SecureHolds
<1>6. ASSUME NEW c \in Clients, Unrecognized(c) PROVE IInv'
  BY <1>6, UnrecognizedHolds
<1>7. ASSUME NEW c \in Clients, SocketFails(c) PROVE IInv'
  <2>1. ConnectionError(c) /\ UNCHANGED cfg
    BY <1>7 DEF SocketFails
  <2> QED BY <2>1, ConnectionErrorHolds
<1>8. ASSUME NEW c \in Clients, SocketEnds(c) PROVE IInv'
  BY <1>8, SocketEndsHolds
<1>9. ASSUME NEW c \in Clients, WriteFails(c) PROVE IInv'
  <2>1. ConnectionError(c) /\ UNCHANGED cfg
    BY <1>9 DEF WriteFails
  <2> QED BY <2>1, ConnectionErrorHolds
<1>10. ASSUME NEW s \in Conns, FirstHook(s) PROVE IInv'
  BY <1>10, FirstHookHolds
<1>11. ASSUME NEW s \in Conns, HookEnds(s) PROVE IInv'
  BY <1>11, HookEndsHolds
<1>12. ASSUME NEW s \in Conns, Gives(s) PROVE IInv'
  BY <1>12, GivesHolds
<1>13. ASSUME NEW s \in Conns, Leave(s) PROVE IInv'
  BY <1>13, LeaveHolds
<1>14. ASSUME NEW s \in Conns, NEW hook \in DOMAIN Command, NextHook(s, hook) PROVE IInv'
  BY <1>14, NextHookHolds
<1>15. CASE UNCHANGED clientVars
  BY <1>1, <1>15 DEF clientVars
<1> QED
  BY <1>2, <1>3, <1>4, <1>5, <1>6, <1>7, <1>8, <1>9, <1>10, <1>11, <1>12, <1>13, <1>14, <1>15
  DEF ClientNext

\* A client that is lent, and was not given back while the server owed an
\* answer, hears only answers to the commands of the connection it is lent to,
\* and one in the pool hears none (smtp_client.js, release() and 'line').
THEOREM RepliesAreOwn == NumbersAssumed => (ClientSpec => []OwnReplies)
<1> SUFFICES ASSUME NumbersAssumed PROVE ClientSpec => []OwnReplies
  OBVIOUS
<1>1. ClientInit => IInv
  BY InitHolds
<1>2. IInv /\ [Register \/ ClientNext]_clientVars => IInv'
  BY StepHolds
<1>3. IInv => OwnReplies
  BY DEF IInv, Sound, Owns, Rests, OwnReplies
<1> QED BY <1>1, <1>2, <1>3, PTL DEF ClientSpec
=============================================================================
