--------------------------- MODULE DeliveryProofs ---------------------------
(***************************************************************************)
(* Who has a socket, for any mails, hosts, replies and settings, whatever  *)
(* order events come in.                                                   *)
(*                                                                         *)
(* LentOnce is not inductive: a call that is still to be made may release  *)
(* a socket, or lend it.  A socket is with a mail (acquired), idle, being  *)
(* made, or none of these (Holders, Apart, Once), and the calls on the     *)
(* agenda that would change that come in an order that keeps it so: what   *)
(* gives a socket to a mail or takes it away for good comes first (OnTop,  *)
(* Ready), nothing binds a socket after its last call (Ordered), and a     *)
(* release finds its conversation stopped, or the stop in front of it      *)
(* (Stopping).                                                             *)
(***************************************************************************)
EXTENDS Delivery, FiniteSetTheorems, TLAPS

Calls == {"try_deliver_host", "send_command", "stop", "release_client", "finish_processing_mail",
          "decide", "dispense", "destroy", "try_deliver_host_on_socket"}
Args  == {"", "ok", "error", "EHLO", "LHLO", "HELO", "MAIL", "RCPT", "DATA", "DOT", "RSET",
          "delivered", "discarded", "temp_fail", "bounce"}
ForMail   == {"try_deliver_host", "send_command", "stop", "finish_processing_mail", "decide",
              "try_deliver_host_on_socket"}
ForSocket == {"send_command", "stop", "release_client", "finish_processing_mail", "destroy",
              "try_deliver_host_on_socket"}
ForPool   == {"dispense", "destroy"}

TaskT == [do : Calls, mail : Mail \cup {None}, sock : Socket \cup {None}, pool : Pool \cup {None}, arg : Args]
Tasks == {t \in TaskT : /\ t.do \in ForMail => t.mail \in Mail
                        /\ t.do \in ForSocket => t.sock \in Socket
                        /\ t.do \in ForPool => t.pool \in Pool}

States  == {"none", "connecting", "up", "ended", "closed", "gone"}
SocketT == [st : States, acquired : BOOLEAN, fromPool : BOOLEAN, mail : Mail \cup {None}, pool : Pool \cup {None}]
PoolT   == [idle : Seq(Socket), waiting : Seq(Mail), count : Nat]

Fields == {"sock", "command", "recip_index", "ok", "fail", "bounce", "lmtp_rcpt_idx", "processing", "fp_called"}

ConvOK == /\ DOMAIN conv = Mail
          /\ \A m \in Mail : /\ DOMAIN conv[m] = Fields
                             /\ conv[m].sock \in Socket \cup {None}
                             /\ conv[m].processing \in BOOLEAN

Types == /\ agenda \in Seq(Tasks)
         /\ sk \in [Socket -> SocketT]
         /\ pool \in [Pool -> PoolT]
         /\ notes \in Pool \cup {None}
         /\ streams \subseteq Mail \X Socket
         /\ ConvOK
         /\ \A s \in Socket : sk[s].st \notin {"none", "gone"} => sk[s].pool \in Pool

------------------------------------------------------------------------------
(* The agenda: what a call leaves there. *)

LEMMA NoneIsNone == None \notin Mail /\ None \notin Socket /\ None \notin Pool
  BY DEF None, Mail, Socket, Pool

LEMMA TasksMade ==
    /\ \A m \in Mail : TryHost(m) \in Tasks
    /\ \A m \in Mail, a \in Args : Decide(m, a) \in Tasks
    /\ \A m \in Mail, s \in Socket : Stop(m, s) \in Tasks /\ OnSocket(m, s) \in Tasks
    /\ \A m \in Mail, s \in Socket, a \in Args : Send(m, s, a) \in Tasks /\ Finish(m, s, a) \in Tasks
    /\ \A s \in Socket : Release(s) \in Tasks /\ ReleaseBad(s) \in Tasks
    /\ \A p \in Pool : Dispense(p) \in Tasks
    /\ \A s \in Socket, p \in Pool : Destroy(s, p) \in Tasks
<1> USE DEF Tasks, TaskT, Calls, ForMail, ForSocket, ForPool, Task
<1>1. {"", "ok", "error"} \subseteq Args
  BY DEF Args
<1>2. \A m \in Mail : TryHost(m) \in Tasks
  BY <1>1 DEF TryHost
<1>3. \A m \in Mail, a \in Args : Decide(m, a) \in Tasks
  BY DEF Decide
<1>4. \A m \in Mail, s \in Socket : Stop(m, s) \in Tasks
  BY <1>1 DEF Stop
<1>5. \A m \in Mail, s \in Socket : OnSocket(m, s) \in Tasks
  BY <1>1 DEF OnSocket
<1>6. \A m \in Mail, s \in Socket, a \in Args : Send(m, s, a) \in Tasks
  BY DEF Send
<1>7. \A m \in Mail, s \in Socket, a \in Args : Finish(m, s, a) \in Tasks
  BY DEF Finish
<1>8. \A s \in Socket : Release(s) \in Tasks /\ ReleaseBad(s) \in Tasks
  BY <1>1 DEF Release, ReleaseBad
<1>9. \A p \in Pool : Dispense(p) \in Tasks
  BY <1>1 DEF Dispense
<1>10. \A s \in Socket, p \in Pool : Destroy(s, p) \in Tasks
  BY <1>1 DEF Destroy
<1> QED BY <1>2, <1>3, <1>4, <1>5, <1>6, <1>7, <1>8, <1>9, <1>10

LEMMA Tuples ==
    /\ <<>> \in Seq(Tasks)
    /\ \A t, u \in Tasks : <<t>> \in Seq(Tasks) /\ <<t, u>> \in Seq(Tasks)
  OBVIOUS

LEMMA Joined == \A t, u \in Tasks : <<t>> \o <<u>> = <<t, u>>
<1> SUFFICES ASSUME NEW t \in Tasks, NEW u \in Tasks PROVE <<t>> \o <<u>> = <<t, u>>
  OBVIOUS
<1>1. <<t>> \in Seq(Tasks) /\ <<u>> \in Seq(Tasks) /\ <<t, u>> \in Seq(Tasks)
  OBVIOUS
<1>2. Len(<<t>> \o <<u>>) = 2 /\ (<<t>> \o <<u>>)[1] = t /\ (<<t>> \o <<u>>)[2] = u
  BY <1>1
<1>3. <<t>> \o <<u>> \in Seq(Tasks)
  BY <1>1
<1> DEFINE a == <<t>> \o <<u>>
           b == <<t, u>>
<1>4. a \in Seq(Tasks) /\ Len(a) = 2 /\ a[1] = t /\ a[2] = u
  BY <1>2, <1>3
<1>5. b \in Seq(Tasks) /\ Len(b) = 2 /\ b[1] = t /\ b[2] = u
  BY <1>1
<1> HIDE DEF a, b
<1>6. \A i \in 1 .. 2 : i = 1 \/ i = 2
  OBVIOUS
<1>7. a = [i \in 1 .. 2 |-> a[i]] /\ b = [i \in 1 .. 2 |-> b[i]]
  BY <1>4, <1>5
<1>8. a = b
  BY <1>4, <1>5, <1>6, <1>7
<1> QED BY <1>8 DEF a, b

LEMMA TopTask ==
    ASSUME agenda \in Seq(Tasks), agenda # <<>>
    PROVE  Top \in Tasks /\ Top = agenda[1] /\ Len(agenda) \in Nat \ {0} /\ DOMAIN agenda = 1 .. Len(agenda)
  BY DEF Top

LEMMA Pops ==
    ASSUME agenda \in Seq(Tasks), agenda # <<>>, Call(<<>>)
    PROVE  /\ agenda' \in Seq(Tasks)
           /\ Len(agenda') = Len(agenda) - 1
           /\ \A i \in DOMAIN agenda' : i + 1 \in DOMAIN agenda /\ agenda'[i] = agenda[i + 1]
<1>1. agenda' = Tail(agenda)
  BY DEF Call
<1> QED BY <1>1

LEMMA Becomes ==
    ASSUME agenda \in Seq(Tasks), agenda # <<>>, NEW t \in Tasks, Call(<<t>>)
    PROVE  /\ agenda' \in Seq(Tasks)
           /\ DOMAIN agenda' = DOMAIN agenda /\ 1 \in DOMAIN agenda
           /\ agenda'[1] = t
           /\ \A i \in DOMAIN agenda : i # 1 => agenda'[i] = agenda[i]
<1>1. agenda' = <<t>> \o Tail(agenda)
  BY DEF Call
<1> QED BY <1>1

LEMMA Grows ==
    ASSUME agenda \in Seq(Tasks), agenda # <<>>, NEW t \in Tasks, NEW u \in Tasks, Call(<<t, u>>)
    PROVE  /\ agenda' \in Seq(Tasks)
           /\ Len(agenda') = Len(agenda) + 1
           /\ agenda'[1] = t /\ agenda'[2] = u
           /\ \A i \in DOMAIN agenda' : i \notin {1, 2} =>
                 i - 1 \in DOMAIN agenda /\ i - 1 # 1 /\ agenda'[i] = agenda[i - 1]
<1>1. agenda' = <<t, u>> \o Tail(agenda)
  BY DEF Call
<1> QED BY <1>1

------------------------------------------------------------------------------
(* The conversations: what a step leaves of them. *)

\* Who talks to whom does not change.
SameTalk == /\ ConvOK'
            /\ \A m \in Mail : /\ conv'[m].sock = conv[m].sock
                               /\ conv'[m].processing = conv[m].processing
                               /\ conv'[m].fp_called = conv[m].fp_called

\* The conversation of m is over, or forgotten.
EndsTalk(m) == /\ ConvOK'
               /\ ~conv'[m].processing
               /\ \A n \in Mail : n # m => conv'[n] = conv[n]

LEMMA SortedKeeps ==
    ASSUME NEW c, DOMAIN c = Fields, NEW code
    PROVE  /\ DOMAIN Sorted(c, code) = Fields
           /\ Sorted(c, code).sock = c.sock
           /\ Sorted(c, code).processing = c.processing
           /\ Sorted(c, code).fp_called = c.fp_called
  BY DEF Sorted, Fields

LEMMA ResortedKeeps ==
    ASSUME NEW c, DOMAIN c = Fields, NEW code
    PROVE  /\ DOMAIN Resorted(c, code) = Fields
           /\ Resorted(c, code).sock = c.sock
           /\ Resorted(c, code).processing = c.processing
           /\ Resorted(c, code).fp_called = c.fp_called
<1>1. CASE code = "4"
  BY <1>1 DEF Resorted, Fields
<1>2. CASE code = "5"
  BY <1>2 DEF Resorted, Fields
<1>3. CASE code \notin {"4", "5"}
  BY <1>3 DEF Resorted, Fields
<1> QED BY <1>1, <1>2, <1>3

\* A conversation whose other fields change.
LEMMA FieldsChange ==
    ASSUME ConvOK, NEW m \in Mail, NEW d, conv' = [conv EXCEPT ![m] = d],
           DOMAIN d = Fields, d.sock = conv[m].sock, d.processing = conv[m].processing,
           d.fp_called = conv[m].fp_called
    PROVE  SameTalk
  BY DEF ConvOK, SameTalk

LEMMA NoChange == ConvOK /\ UNCHANGED conv => SameTalk
  BY DEF ConvOK, SameTalk

LEMMA StopsTalk ==
    ASSUME ConvOK, NEW m \in Mail,
           \/ conv' = [conv EXCEPT ![m].processing = FALSE]
           \/ conv' = [conv EXCEPT ![m] = Stopped(@)]
           \/ conv' = [conv EXCEPT ![m].fp_called = TRUE, ![m].processing = FALSE]
    PROVE  EndsTalk(m) /\ conv'[m].sock = conv[m].sock
<1> DEFINE d == [conv[m] EXCEPT !.processing = FALSE]
           e == [conv[m] EXCEPT !.fp_called = TRUE, !.processing = FALSE]
<1>1. /\ DOMAIN d = Fields /\ d.sock = conv[m].sock /\ d.processing = FALSE
      /\ DOMAIN e = Fields /\ e.sock = conv[m].sock /\ e.processing = FALSE
  BY DEF ConvOK, Fields
<1>2. conv' = [conv EXCEPT ![m] = d] \/ conv' = [conv EXCEPT ![m] = e]
  BY DEF Stopped
<1> HIDE DEF d, e
<1> QED BY <1>1, <1>2 DEF EndsTalk, ConvOK

LEMMA ForgetsTalk ==
    ASSUME ConvOK, NEW m \in Mail, conv' = [conv EXCEPT ![m] = NoConv]
    PROVE  EndsTalk(m)
<1>1. DOMAIN NoConv = Fields /\ NoConv.sock = None /\ NoConv.processing = FALSE
  BY DEF NoConv, Fields
<1> QED BY <1>1 DEF EndsTalk, ConvOK

\* line(): nothing, the end of the conversation, or the next command.
LEMMA ProceedCases ==
    ASSUME ConvOK, NEW m \in Mail, NEW s \in Socket, NEW code, agenda = <<>>, Proceed(m, s, code)
    PROVE  /\ SameTalk
           /\ streams \subseteq streams' /\ streams' \subseteq streams \cup {<<m, s>>}
           /\ \/ agenda' = <<>>
              \/ \E a \in Args : agenda' = <<Send(m, s, a)>>
              \/ agenda' = <<Send(m, s, "RSET"), Finish(m, s, "discarded")>>
              \/ agenda' = <<Finish(m, s, "delivered"), Send(m, s, "RSET")>>
              \/ agenda' = <<Finish(m, s, "delivered")>>
<1> DEFINE c == conv[m]
<1>0. {"EHLO", "LHLO", "HELO", "MAIL", "RCPT", "DATA"} \subseteq Args
  BY DEF Args
<1>1. ASSUME NEW d, DOMAIN d = Fields, d.sock = c.sock, d.processing = c.processing, d.fp_called = c.fp_called,
             \/ conv' = [conv EXCEPT ![m] = [d EXCEPT !.recip_index = @ + 1]]
             \/ conv' = [conv EXCEPT ![m] = d]
      PROVE  SameTalk
  <2> DEFINE e == [d EXCEPT !.recip_index = @ + 1]
  <2>1. DOMAIN e = Fields /\ e.sock = c.sock /\ e.processing = c.processing /\ e.fp_called = c.fp_called
    BY <1>1 DEF Fields
  <2>2. conv' = [conv EXCEPT ![m] = e] \/ conv' = [conv EXCEPT ![m] = d]
    BY <1>1
  <2> HIDE DEF e
  <2> QED BY <1>1, <2>1, <2>2, FieldsChange
<1>2. DOMAIN c = Fields
  BY DEF ConvOK
<1>3. CASE c.command \in {"connect", "EHLO", "LHLO", "HELO"}
  <2>1. UNCHANGED <<conv, streams>> /\ \E a \in Args : agenda' = <<Send(m, s, a)>>
    BY <1>0, <1>3 DEF Proceed
  <2> QED BY <2>1, NoChange
<1>4. CASE c.command = "MAIL"
  <2>1. UNCHANGED streams /\ agenda' = <<Send(m, s, "RCPT")>>
    BY <1>4 DEF Proceed
  <2>2. conv' = [conv EXCEPT ![m] = [c EXCEPT !.recip_index = @ + 1]]
    BY <1>4 DEF Proceed
  <2> QED BY <1>0, <1>1, <1>2, <2>1, <2>2
<1>5. CASE c.command = "RCPT"
  <2> DEFINE d == Sorted(c, code)
  <2>1. /\ UNCHANGED streams
        /\ \/ agenda' \in {<<Send(m, s, "RCPT")>>, <<Send(m, s, "DATA")>>}
           \/ agenda' = <<Send(m, s, "RSET"), Finish(m, s, "discarded")>>
        /\ \/ conv' = [conv EXCEPT ![m] = [d EXCEPT !.recip_index = @ + 1]]
           \/ conv' = [conv EXCEPT ![m] = d]
    BY <1>5 DEF Proceed
  <2> QED BY <1>0, <1>1, <1>2, <2>1, SortedKeeps
<1>6. CASE c.command = "DATA"
  <2>1. UNCHANGED <<agenda, conv>> /\ streams' = streams \cup {<<m, s>>}
    BY <1>6 DEF Proceed
  <2> QED BY <2>1, NoChange
<1>7. CASE c.command = "DOT" /\ ~cfg.lmtp
  <2>1. UNCHANGED <<conv, streams>> /\ agenda' = <<Finish(m, s, "delivered"), Send(m, s, "RSET")>>
    BY <1>7 DEF Proceed
  <2> QED BY <2>1, NoChange
<1>8. CASE c.command = "DOT" /\ cfg.lmtp
  <2> DEFINE d == Resorted(c, code)
  <2>1. /\ UNCHANGED streams /\ conv' = [conv EXCEPT ![m] = d]
        /\ agenda' \in {<<Finish(m, s, "delivered")>>, <<>>}
    BY <1>8 DEF Proceed
  <2> QED BY <1>1, <1>2, <2>1, ResortedKeeps
<1>9. CASE c.command \notin {"connect", "EHLO", "LHLO", "HELO", "MAIL", "RCPT", "DATA", "DOT"}
  <2>1. UNCHANGED <<agenda, conv, streams>>
    BY <1>9 DEF Proceed
  <2> QED BY <2>1, NoChange
<1> QED BY <1>3, <1>4, <1>5, <1>6, <1>7, <1>8, <1>9

------------------------------------------------------------------------------
(* Types. *)

LEMMA ConcatLen ==
    ASSUME NEW S, NEW u \in Seq(S), NEW v \in Seq(S)
    PROVE  u \o v \in Seq(S) /\ Len(u \o v) = Len(u) + Len(v)
  OBVIOUS

\* A socket of the pool is taken out where it is.
LEMMA WithoutOne ==
    ASSUME NEW S, NEW q \in Seq(S), NEW s
    PROVE  /\ Without(q, s) \in Seq(S)
           /\ Range(Without(q, s)) \subseteq Range(q)
           /\ s \notin Range(q) => Without(q, s) = q
           /\ s \in Range(q) => \E k \in DOMAIN q :
                 /\ q[k] = s
                 /\ \A i \in DOMAIN Without(q, s) :
                       Without(q, s)[i] = (IF i < k THEN q[i] ELSE q[i + 1]) /\ i + 1 \in DOMAIN q
<1>1. CASE s \notin Range(q)
  BY <1>1 DEF Without
<1>2. CASE s \in Range(q)
  <2> DEFINE k == CHOOSE i \in DOMAIN q : q[i] = s
             u == SubSeq(q, 1, k - 1)
             v == SubSeq(q, k + 1, Len(q))
  <2>1. k \in DOMAIN q /\ q[k] = s
    BY <1>2 DEF Range
  <2>2. Without(q, s) = u \o v
    BY <1>2 DEF Without, RemoveAt
  <2> HIDE DEF k
  <2>3. k \in 1 .. Len(q) /\ Len(q) \in Nat
    BY <2>1
  <2>4. /\ u \in Seq(S) /\ Len(u) = k - 1 /\ \A i \in 1 .. k - 1 : u[i] = q[i]
        /\ v \in Seq(S) /\ Len(v) = Len(q) - k /\ \A i \in 1 .. Len(q) - k : v[i] = q[k + i]
    BY <2>3
  <2> HIDE DEF u, v
  <2>5. u \o v \in Seq(S) /\ Len(u \o v) = Len(q) - 1
    <3>1. u \o v \in Seq(S) /\ Len(u \o v) = Len(u) + Len(v)
      BY <2>4, ConcatLen
    <3> QED BY <2>3, <2>4, <3>1
  <2>6. \A i \in 1 .. Len(q) - 1 : (u \o v)[i] = IF i < k THEN q[i] ELSE q[i + 1]
    BY <2>3, <2>4
  <2>7. \A i \in DOMAIN (u \o v) : i \in 1 .. Len(q) - 1 /\ i \in DOMAIN q /\ i + 1 \in DOMAIN q
    BY <2>3, <2>5
  <2>8. Range(u \o v) \subseteq Range(q)
    BY <2>6, <2>7 DEF Range
  <2> QED BY <1>2, <2>1, <2>2, <2>5, <2>6, <2>7, <2>8
<1> QED BY <1>1, <1>2

\* What the events and calls do to pools and sockets keeps their types.
LEMMA SocketTypes ==
    ASSUME Types, NEW s \in Socket, NEW r \in SocketT, sk' = [sk EXCEPT ![s] = r],
           r.st \notin {"none", "gone"} => r.pool \in Pool
    PROVE  /\ sk' \in [Socket -> SocketT]
           /\ \A u \in Socket : sk'[u].st \notin {"none", "gone"} => sk'[u].pool \in Pool
  BY DEF Types

LEMMA PoolTypes ==
    ASSUME Types, NEW p \in Pool, NEW q \in PoolT, pool' = [pool EXCEPT ![p] = q]
    PROVE  pool' \in [Pool -> PoolT]
  BY DEF Types

\* Fields of a pool that change, those of the others that do not.
LEMMA PoolFields ==
    ASSUME NEW q \in PoolT, NEW i \in Seq(Socket), NEW w \in Seq(Mail), NEW n \in Nat
    PROVE  /\ [q EXCEPT !.idle = i] \in PoolT
           /\ [q EXCEPT !.waiting = w] \in PoolT
           /\ [q EXCEPT !.count = n] \in PoolT
           /\ [q EXCEPT !.idle = i, !.waiting = w] \in PoolT
           /\ [q EXCEPT !.count = n, !.idle = i] \in PoolT
           /\ [q EXCEPT !.count = n, !.waiting = w] \in PoolT
  BY DEF PoolT

\* What one or two new calls in the place of the first leave.
LEMMA CallTypes ==
    ASSUME agenda \in Seq(Tasks), agenda # <<>>,
           \/ Call(<<>>)
           \/ \E t \in Tasks : Call(<<t>>)
           \/ \E t, u \in Tasks : Call(<<t, u>>)
    PROVE  agenda' \in Seq(Tasks)
  BY Pops, Becomes, Grows

LEMMA DispenseTypes ==
    ASSUME Types, PoolDispense
    PROVE  Types'
<1>0. agenda \in Seq(Tasks) /\ agenda # <<>> /\ Top.do = "dispense"
  BY DEF Types, PoolDispense, Doing
<1> DEFINE p == Top.pool
           q == pool[p]
<1>1. p \in Pool
  BY <1>0, TopTask DEF Tasks, ForPool
<1>2. q \in PoolT
  BY <1>1 DEF Types
<1>3. UNCHANGED <<conv, notes, streams>>
  BY DEF PoolDispense
<1>4. ConvOK'
  BY <1>3, NoChange DEF Types, SameTalk
<1>5. CASE q.waiting # <<>> /\ q.idle # <<>>
  <2> DEFINE s == Head(q.idle)
             m == Head(q.waiting)
             w == IF sk[s].st = "up" THEN Tail(q.waiting) ELSE q.waiting
  <2>1. /\ UNCHANGED sk
        /\ pool' = [pool EXCEPT ![p].idle = Tail(@), ![p].waiting = IF sk[s].st = "up" THEN Tail(@) ELSE @]
        /\ Call(IF sk[s].st = "up" THEN <<OnSocket(m, s)>> ELSE <<Destroy(s, p), Dispense(p)>>)
    BY <1>5 DEF PoolDispense
  <2>2. /\ s \in Socket /\ m \in Mail /\ Tail(q.idle) \in Seq(Socket) /\ w \in Seq(Mail)
    BY <1>2, <1>5 DEF PoolT
  <2>3. pool' = [pool EXCEPT ![p] = [q EXCEPT !.idle = Tail(q.idle), !.waiting = w]]
    BY <1>1, <2>1 DEF Types
  <2>4. pool' \in [Pool -> PoolT]
    BY <1>1, <1>2, <2>2, <2>3, PoolFields, PoolTypes
  <2>5. agenda' \in Seq(Tasks)
    BY <1>0, <1>1, <2>1, <2>2, TasksMade, CallTypes
  <2> QED BY <1>3, <1>4, <2>1, <2>4, <2>5 DEF Types
<1>6. CASE ~(q.waiting # <<>> /\ q.idle # <<>>) /\ q.waiting # <<>> /\ q.count < cfg.max
  <2>1. PICK s \in Socket : sk' = [sk EXCEPT ![s] = [NoSocket EXCEPT !.st = "connecting", !.pool = p]]
    BY <1>6 DEF PoolDispense
  <2>2. pool' = [pool EXCEPT ![p].count = @ + 1] /\ Call(<<>>)
    BY <1>6 DEF PoolDispense
  <2>3. pool' = [pool EXCEPT ![p] = [q EXCEPT !.count = q.count + 1]] /\ q.count + 1 \in Nat
    BY <1>1, <1>2, <2>2 DEF Types, PoolT
  <2>4. pool' \in [Pool -> PoolT]
    <3>1. [q EXCEPT !.count = q.count + 1] \in PoolT
      BY <1>2, <2>3 DEF PoolT
    <3> QED BY <1>1, <2>3, <3>1, PoolTypes
  <2> DEFINE r == [NoSocket EXCEPT !.st = "connecting", !.pool = p]
  <2>5. r \in SocketT /\ r.pool = p
    BY <1>1 DEF NoSocket, SocketT, States
  <2> HIDE DEF r
  <2>6. sk' \in [Socket -> SocketT] /\ \A u \in Socket : sk'[u].st \notin {"none", "gone"} => sk'[u].pool \in Pool
    BY <1>1, <2>1, <2>5, SocketTypes DEF r
  <2> QED BY <1>0, <1>3, <1>4, <2>2, <2>4, <2>6, CallTypes DEF Types
<1>7. CASE ~(q.waiting # <<>> /\ q.idle # <<>>) /\ ~(q.waiting # <<>> /\ q.count < cfg.max)
  <2>1. Call(<<>>) /\ UNCHANGED <<pool, sk>>
    BY <1>7 DEF PoolDispense
  <2> QED BY <1>0, <1>3, <1>4, <2>1, CallTypes DEF Types
<1> QED BY <1>5, <1>6, <1>7

LEMMA DestroyTypes ==
    ASSUME Types, PoolDestroy
    PROVE  Types'
<1>0. agenda \in Seq(Tasks) /\ agenda # <<>> /\ Top.do = "destroy"
  BY DEF Types, PoolDestroy, Doing
<1> DEFINE p == Top.pool
           s == Top.sock
           q == pool[p]
           n == IF q.count > 0 THEN q.count - 1 ELSE 0
           r == [NoSocket EXCEPT !.st = "gone"]
<1>1. p \in Pool /\ s \in Socket
  BY <1>0, TopTask DEF Tasks, ForPool, ForSocket
<1>2. q \in PoolT
  BY <1>1 DEF Types
<1>3. /\ pool' = [pool EXCEPT ![p].count = n, ![p].idle = Without(@, s)]
      /\ notes' = IF n = 0 THEN None ELSE notes
      /\ sk' = [sk EXCEPT ![s] = r]
      /\ Call(<<>>) /\ UNCHANGED <<conv, streams>>
  BY DEF PoolDestroy
<1>4. n \in Nat /\ q.idle \in Seq(Socket)
  BY <1>2 DEF PoolT
<1>5. pool' = [pool EXCEPT ![p] = [q EXCEPT !.count = n, !.idle = Without(q.idle, s)]]
  BY <1>1, <1>3 DEF Types
<1>6. Without(q.idle, s) \in Seq(Socket)
  BY <1>4, WithoutOne
<1>7. r \in SocketT /\ r.st = "gone"
  BY DEF NoSocket, SocketT, States
<1> HIDE DEF n, r
<1>8. pool' \in [Pool -> PoolT]
  <2>1. [q EXCEPT !.count = n, !.idle = Without(q.idle, s)] \in PoolT
    BY <1>2, <1>4, <1>6 DEF PoolT
  <2> QED BY <1>1, <1>5, <2>1, PoolTypes
<1>9. ConvOK'
  BY <1>3, NoChange DEF Types, SameTalk
<1>10. sk' \in [Socket -> SocketT] /\ \A u \in Socket : sk'[u].st \notin {"none", "gone"} => sk'[u].pool \in Pool
  BY <1>1, <1>3, <1>7, SocketTypes
<1>11. agenda' \in Seq(Tasks)
  BY <1>0, <1>3, CallTypes
<1> QED BY <1>3, <1>8, <1>9, <1>10, <1>11 DEF Types

LEMMA TryHostTypes ==
    ASSUME Types, TryDeliverHost
    PROVE  Types' /\ EndsTalk(Top.mail)
<1>0. agenda \in Seq(Tasks) /\ agenda # <<>> /\ Top.do = "try_deliver_host"
  BY DEF Types, TryDeliverHost, Doing
<1> DEFINE m == Top.mail
<1>1. m \in Mail
  BY <1>0, TopTask DEF Tasks, ForMail
<1>2. conv' = [conv EXCEPT ![m] = NoConv] /\ UNCHANGED <<sk, streams>>
  BY DEF TryDeliverHost
<1>3. EndsTalk(m)
  BY <1>1, <1>2, ForgetsTalk DEF Types
<1>4. CASE left[m] = 0
  <2>1. Call(<<Decide(m, "temp_fail")>>) /\ UNCHANGED <<pool, notes>>
    BY <1>4 DEF TryDeliverHost
  <2>2. Decide(m, "temp_fail") \in Tasks
    BY <1>1, TasksMade DEF Args
  <2> QED BY <1>0, <1>2, <1>3, <2>1, <2>2, CallTypes DEF Types, EndsTalk
<1>5. CASE left[m] # 0
  <2>1. PICK p \in Pool : /\ notes' = p
                         /\ \/ Call(<<TryHost(m)>>) /\ UNCHANGED pool
                            \/ /\ pool' = [pool EXCEPT ![p].waiting = Append(@, m)]
                               /\ Call(<<Dispense(p)>>)
    BY <1>5 DEF TryDeliverHost
  <2>2. agenda' \in Seq(Tasks)
    BY <1>0, <1>1, <2>1, TasksMade, CallTypes
  <2>3. pool' \in [Pool -> PoolT]
    <3>1. pool[p] \in PoolT /\ Append(pool[p].waiting, m) \in Seq(Mail)
      BY <1>1 DEF Types, PoolT
    <3>2. pool' = pool \/ pool' = [pool EXCEPT ![p] = [pool[p] EXCEPT !.waiting = Append(pool[p].waiting, m)]]
      BY <2>1 DEF Types
    <3>3. [pool[p] EXCEPT !.waiting = Append(pool[p].waiting, m)] \in PoolT
      BY <3>1 DEF PoolT
    <3> QED BY <3>2, <3>3, PoolTypes DEF Types
  <2> QED BY <1>2, <1>3, <2>1, <2>2, <2>3 DEF Types, EndsTalk
<1> QED BY <1>3, <1>4, <1>5

LEMMA ReleaseTypes ==
    ASSUME Types, ReleaseClient
    PROVE  Types'
<1>0. agenda \in Seq(Tasks) /\ agenda # <<>> /\ Top.do = "release_client"
  BY DEF Types, ReleaseClient, Doing
<1> DEFINE s == Top.sock
<1>1. s \in Socket
  BY <1>0, TopTask DEF Tasks, ForSocket
<1>2. UNCHANGED <<conv, notes, streams>>
  BY DEF ReleaseClient
<1>3. ConvOK'
  BY <1>2, NoChange DEF Types, SameTalk
<1> DEFINE r1 == [sk[s] EXCEPT !.acquired = FALSE]
           r2 == [sk[s] EXCEPT !.acquired = FALSE, !.mail = None, !.fromPool = TRUE]
<1>4. /\ r1 \in SocketT /\ r1.st = sk[s].st /\ r1.pool = sk[s].pool
      /\ r2 \in SocketT /\ r2.st = sk[s].st /\ r2.pool = sk[s].pool
  BY <1>1 DEF Types, SocketT
<1>5. /\ sk' = sk \/ sk' = [sk EXCEPT ![s] = r1] \/ sk' = [sk EXCEPT ![s] = r2]
      /\ pool' = pool \/ (notes # None /\ pool' = [pool EXCEPT ![notes].idle = Append(@, s)])
      /\ \/ Call(<<>>)
         \/ notes # None /\ Call(<<Destroy(s, notes)>>)
         \/ notes # None /\ Call(<<Dispense(notes)>>)
  BY <1>1 DEF ReleaseClient, Types
<1> HIDE DEF r1, r2
<1>6. sk' \in [Socket -> SocketT] /\ \A u \in Socket : sk'[u].st \notin {"none", "gone"} => sk'[u].pool \in Pool
  <2>1. \A r \in {r1, r2} : r \in SocketT /\ (r.st \notin {"none", "gone"} => r.pool \in Pool)
    BY <1>1, <1>4 DEF Types
  <2> QED BY <1>1, <1>5, <2>1, SocketTypes DEF Types
<1>7. pool' \in [Pool -> PoolT]
  <2>1. CASE notes # None /\ pool' = [pool EXCEPT ![notes].idle = Append(@, s)]
    <3>1. notes \in Pool /\ pool[notes] \in PoolT /\ Append(pool[notes].idle, s) \in Seq(Socket)
      BY <1>1, <2>1 DEF Types, PoolT
    <3>2. pool' = [pool EXCEPT ![notes] = [pool[notes] EXCEPT !.idle = Append(pool[notes].idle, s)]]
      BY <2>1, <3>1 DEF Types
    <3>3. [pool[notes] EXCEPT !.idle = Append(pool[notes].idle, s)] \in PoolT
      BY <3>1 DEF PoolT
    <3> QED BY <3>1, <3>2, <3>3, PoolTypes
  <2> QED BY <1>5, <2>1 DEF Types
<1>8. agenda' \in Seq(Tasks)
  <2>1. notes # None => notes \in Pool
    BY DEF Types
  <2> QED BY <1>0, <1>1, <1>5, <2>1, TasksMade, CallTypes
<1> QED BY <1>2, <1>3, <1>6, <1>7, <1>8 DEF Types

LEMMA LendTypes ==
    ASSUME Types, TryDeliverHostOnSocket
    PROVE  Types'
<1>0. agenda \in Seq(Tasks) /\ agenda # <<>> /\ Top.do = "try_deliver_host_on_socket"
  BY DEF Types, TryDeliverHostOnSocket, Doing
<1> DEFINE m == Top.mail
           s == Top.sock
           r == [sk[s] EXCEPT !.acquired = TRUE, !.mail = m]
           c == [NoConv EXCEPT !.sock = s, !.command = "connect", !.processing = TRUE]
<1>1. m \in Mail /\ s \in Socket
  BY <1>0, TopTask DEF Tasks, ForMail, ForSocket
<1>2. UNCHANGED <<pool, notes, streams>> /\ conv' = [conv EXCEPT ![m] = c]
  BY DEF TryDeliverHostOnSocket
<1>3. sk' = [sk EXCEPT ![s] = r]
  BY <1>1 DEF TryDeliverHostOnSocket, Types
<1>4. r \in SocketT /\ r.st = sk[s].st /\ r.pool = sk[s].pool
  BY <1>1 DEF Types, SocketT
<1>5. DOMAIN c = Fields /\ c.sock = s /\ c.processing = TRUE
  BY DEF NoConv, Fields
<1>6. Call(<<Send(m, s, "MAIL")>>) \/ Call(<<>>)
  BY DEF TryDeliverHostOnSocket
<1> HIDE DEF r, c
<1>7. agenda' \in Seq(Tasks)
  <2>1. Send(m, s, "MAIL") \in Tasks
    BY <1>1, TasksMade DEF Args
  <2> QED BY <1>0, <1>6, <2>1, CallTypes
<1>8. ConvOK'
  BY <1>1, <1>2, <1>5 DEF ConvOK, Types
<1>9. sk' \in [Socket -> SocketT] /\ \A u \in Socket : sk'[u].st \notin {"none", "gone"} => sk'[u].pool \in Pool
  <2>1. r.st \notin {"none", "gone"} => r.pool \in Pool
    BY <1>1, <1>4 DEF Types
  <2> QED BY <1>1, <1>3, <1>4, <2>1, SocketTypes
<1> QED BY <1>2, <1>7, <1>8, <1>9 DEF Types

\* send_command(): the conversation goes on, or it is over and tried again.
LEMMA SendCases ==
    ASSUME Types, SendCommand
    PROVE  /\ Types' /\ UNCHANGED <<sk, pool, notes, streams, left, outcome>>
           /\ Top.mail \in Mail /\ Top.sock \in Socket
           /\ \/ Call(<<>>) /\ SameTalk /\ (sk[Top.sock].st = "up" \/ ~Talks(Top.mail, Top.sock))
              \/ /\ Talks(Top.mail, Top.sock) /\ EndsTalk(Top.mail) /\ sk[Top.sock].st # "up"
                 /\ Call(<<ReleaseBad(Top.sock), TryHost(Top.mail)>>)
<1>0. agenda \in Seq(Tasks) /\ agenda # <<>> /\ Top.do = "send_command"
  BY DEF Types, SendCommand, Doing
<1> DEFINE m == Top.mail
           s == Top.sock
<1>1. m \in Mail /\ s \in Socket
  BY <1>0, TopTask DEF Tasks, ForMail, ForSocket
<1>2. UNCHANGED <<sk, pool, notes, streams, left, outcome>>
  BY DEF SendCommand
<1>3. CASE sk[s].st = "up"
  <2>1. Call(<<>>) /\ (conv' = [conv EXCEPT ![m].command = Top.arg] \/ UNCHANGED conv)
    BY <1>3 DEF SendCommand
  <2>2. SameTalk
    <3> DEFINE d == [conv[m] EXCEPT !.command = Top.arg]
    <3>1. /\ DOMAIN d = Fields /\ d.sock = conv[m].sock /\ d.processing = conv[m].processing
          /\ d.fp_called = conv[m].fp_called
      BY <1>1 DEF Types, ConvOK, Fields
    <3>2. conv' = [conv EXCEPT ![m] = d] \/ UNCHANGED conv
      BY <2>1
    <3> HIDE DEF d
    <3> QED BY <1>1, <3>1, <3>2, FieldsChange, NoChange DEF Types
  <2> QED BY <1>0, <1>1, <1>2, <1>3, <2>1, <2>2, CallTypes DEF Types, SameTalk
<1>4. CASE sk[s].st # "up" /\ ~Talks(m, s)
  <2>1. Call(<<>>) /\ UNCHANGED conv
    BY <1>4 DEF SendCommand
  <2>2. SameTalk
    BY <2>1, NoChange DEF Types
  <2> QED BY <1>0, <1>1, <1>2, <1>4, <2>1, <2>2, CallTypes DEF Types, SameTalk
<1>5. CASE sk[s].st # "up" /\ Talks(m, s)
  <2>1. Call(<<ReleaseBad(s), TryHost(m)>>) /\ conv' = [conv EXCEPT ![m].processing = FALSE]
    BY <1>5 DEF SendCommand
  <2>2. EndsTalk(m)
    BY <1>1, <2>1, StopsTalk DEF Types
  <2>3. agenda' \in Seq(Tasks)
    BY <1>0, <1>1, <2>1, TasksMade, CallTypes
  <2> QED BY <1>1, <1>2, <1>5, <2>1, <2>2, <2>3 DEF Types, EndsTalk
<1> QED BY <1>3, <1>4, <1>5

\* The calls that only decide, or stop a conversation.
LEMMA DecidesCases ==
    ASSUME Types, Decides
    PROVE  /\ Types' /\ UNCHANGED <<sk, pool, notes, streams, left>>
           /\ Call(<<>>)
           /\ Top.mail \in Mail
           /\ \/ /\ Top.do = "decide" /\ SameTalk
                 /\ outcome' = [outcome EXCEPT ![Top.mail] = Append(@, Top.arg)]
              \/ /\ Top.do = "stop" /\ Top.sock \in Socket /\ UNCHANGED outcome
                 /\ IF conv[Top.mail].sock = Top.sock
                    THEN EndsTalk(Top.mail) /\ conv'[Top.mail].sock = conv[Top.mail].sock
                    ELSE SameTalk
<1>0. agenda \in Seq(Tasks) /\ agenda # <<>> /\ Top.do \in {"decide", "stop"}
  BY DEF Types, Decides, Doing
<1> DEFINE m == Top.mail
<1>1. m \in Mail /\ (Top.do = "stop" => Top.sock \in Socket)
  BY <1>0, TopTask DEF Tasks, ForMail, ForSocket
<1>2. UNCHANGED <<sk, pool, notes, streams, left>> /\ Call(<<>>)
  BY DEF Decides
<1>3. agenda' \in Seq(Tasks)
  BY <1>0, <1>2, CallTypes
<1>4. CASE Top.do = "decide"
  <2>1. outcome' = [outcome EXCEPT ![m] = Append(@, Top.arg)] /\ UNCHANGED conv
    BY <1>0, <1>4 DEF Decides, Doing
  <2>2. SameTalk
    BY <2>1, NoChange DEF Types
  <2> QED BY <1>1, <1>2, <1>3, <1>4, <2>1, <2>2 DEF Types, SameTalk
<1>5. CASE Top.do = "stop"
  <2>1. /\ UNCHANGED outcome
        /\ conv' = IF conv[m].sock = Top.sock THEN [conv EXCEPT ![m] = Stopped(@)] ELSE conv
    BY <1>0, <1>5 DEF Decides, Doing
  <2>2. CASE conv[m].sock = Top.sock
    <3>1. EndsTalk(m) /\ conv'[m].sock = conv[m].sock
      BY <1>1, <2>1, <2>2, StopsTalk DEF Types
    <3> QED BY <1>1, <1>2, <1>3, <1>5, <2>1, <2>2, <3>1 DEF Types, EndsTalk
  <2>3. CASE conv[m].sock # Top.sock
    <3>1. SameTalk
      BY <2>1, <2>3, NoChange DEF Types
    <3> QED BY <1>1, <1>2, <1>3, <1>5, <2>1, <2>3, <3>1 DEF Types, SameTalk
  <2> QED BY <2>2, <2>3
<1> QED BY <1>0, <1>4, <1>5

LEMMA FinishCases ==
    ASSUME Types, FinishProcessingMail
    PROVE  /\ Types' /\ UNCHANGED <<sk, pool, notes, streams, left>>
           /\ Top.mail \in Mail /\ Top.sock \in Socket /\ Top.do = "finish_processing_mail"
           /\ \/ /\ Call(<<>>) /\ SameTalk /\ UNCHANGED <<conv, outcome>>
                 /\ conv[Top.mail].fp_called \/ conv[Top.mail].sock # Top.sock
              \/ /\ conv[Top.mail].sock = Top.sock
                 /\ EndsTalk(Top.mail) /\ Call(<<Release(Top.sock)>>)
                 /\ outcome' = [outcome EXCEPT ![Top.mail] = Append(@, Top.arg)]
<1>0. agenda \in Seq(Tasks) /\ agenda # <<>> /\ Top.do = "finish_processing_mail"
  BY DEF Types, FinishProcessingMail, Doing
<1> DEFINE m == Top.mail
           s == Top.sock
<1>1. m \in Mail /\ s \in Socket
  BY <1>0, TopTask DEF Tasks, ForMail, ForSocket
<1>2. UNCHANGED <<sk, pool, notes, streams, left>>
  BY DEF FinishProcessingMail
<1>3. CASE conv[m].fp_called \/ conv[m].sock # s
  <2>1. Call(<<>>) /\ UNCHANGED <<conv, outcome>>
    BY <1>3 DEF FinishProcessingMail
  <2>2. SameTalk
    BY <2>1, NoChange DEF Types
  <2> QED BY <1>0, <1>1, <1>2, <1>3, <2>1, <2>2, CallTypes DEF Types, SameTalk
<1>4. CASE ~(conv[m].fp_called \/ conv[m].sock # s)
  <2>1. /\ Call(<<Release(s)>>) /\ outcome' = [outcome EXCEPT ![m] = Append(@, Top.arg)]
        /\ conv' = [conv EXCEPT ![m].fp_called = TRUE, ![m].processing = FALSE]
    BY <1>4 DEF FinishProcessingMail
  <2>2. EndsTalk(m)
    BY <1>1, <2>1, StopsTalk DEF Types
  <2>3. agenda' \in Seq(Tasks)
    BY <1>0, <1>1, <2>1, TasksMade, CallTypes
  <2> QED BY <1>0, <1>1, <1>2, <1>4, <2>1, <2>2, <2>3 DEF Types, EndsTalk
<1> QED BY <1>3, <1>4

\* A reply: nobody reads it, or the conversation ends, refuses the mail or
\* goes on.
LEMMA ReplyCases ==
    ASSUME Types, NEW s \in Socket, ReadReply(s)
    PROVE  /\ Types' /\ UNCHANGED <<sk, pool, notes, left, outcome>> /\ agenda = <<>> /\ line[s] # <<>>
           /\ streams \subseteq streams' /\ streams' \subseteq streams \cup {<<sk[s].mail, s>>}
           /\ \/ agenda' = <<>> /\ UNCHANGED conv
              \/ \E m \in Mail :
                   /\ m = sk[s].mail /\ Talks(m, s)
                   /\ \/ /\ EndsTalk(m) /\ agenda' = <<Release(s), Decide(m, "bounce")>>
                      \/ /\ SameTalk
                         /\ \/ \E how \in {"bounce", "temp_fail"} :
                                 agenda' = <<Send(m, s, "RSET"), Stop(m, s), Release(s), Decide(m, how)>>
                            \/ agenda' = <<>>
                            \/ \E a \in Args : agenda' = <<Send(m, s, a)>>
                            \/ agenda' = <<Send(m, s, "RSET"), Finish(m, s, "discarded")>>
                            \/ agenda' = <<Finish(m, s, "delivered"), Send(m, s, "RSET")>>
                            \/ agenda' = <<Finish(m, s, "delivered")>>
<1> DEFINE m == sk[s].mail
           code == Head(line[s])
<1>0. agenda = <<>> /\ line[s] # <<>> /\ UNCHANGED <<sk, pool, notes, left, outcome>>
  BY DEF ReadReply, Idle
<1>1. m \in Mail \cup {None}
  BY DEF Types, SocketT
<1>2. ASSUME ConvOK', agenda' \in Seq(Tasks), streams' \subseteq streams \cup {<<m, s>>}, m \in Mail \/ UNCHANGED streams
      PROVE  Types'
  BY <1>0, <1>2 DEF Types
<1>3. CASE ~Talks(m, s)
  <2>1. UNCHANGED <<agenda, conv, streams>>
    BY <1>3 DEF ReadReply
  <2>2. SameTalk
    BY <2>1, NoChange DEF Types
  <2>3. Types'
    BY <1>2, <2>1, <2>2 DEF Types, SameTalk
  <2> QED BY <1>0, <2>1, <2>2, <2>3
<1>4. CASE Talks(m, s) /\ code = "odd"
  <2>1. /\ conv' = [conv EXCEPT ![m].processing = FALSE] /\ UNCHANGED streams
        /\ agenda' = <<Release(s), Decide(m, "bounce")>>
    BY <1>4 DEF ReadReply
  <2>2. m \in Mail
    BY <1>1, <1>4 DEF Talks
  <2>3. EndsTalk(m)
    BY <2>1, <2>2, StopsTalk DEF Types
  <2>4. Release(s) \in Tasks /\ Decide(m, "bounce") \in Tasks
    BY <2>2, TasksMade DEF Args
  <2>5. Types'
    BY <1>2, <2>1, <2>2, <2>3, <2>4 DEF EndsTalk
  <2> QED BY <1>0, <1>4, <2>1, <2>2, <2>3, <2>5
<1>5. CASE Talks(m, s) /\ code # "odd" /\ RefusesMail(conv[m].command, code)
  <2>1. PICK how \in {"bounce", "temp_fail"} :
          /\ agenda' = <<Send(m, s, "RSET"), Stop(m, s), Release(s), Decide(m, how)>>
          /\ UNCHANGED <<conv, streams>>
    BY <1>5 DEF ReadReply
  <2>2. m \in Mail
    BY <1>1, <1>5 DEF Talks
  <2>3. SameTalk
    BY <2>1, NoChange DEF Types
  <2>4. {Send(m, s, "RSET"), Stop(m, s), Release(s), Decide(m, how)} \subseteq Tasks
    BY <2>2, TasksMade DEF Args
  <2>5. Types'
    BY <1>2, <2>1, <2>2, <2>3, <2>4 DEF SameTalk
  <2> QED BY <1>0, <1>5, <2>1, <2>2, <2>3, <2>5
<1>6. CASE Talks(m, s) /\ code # "odd" /\ ~RefusesMail(conv[m].command, code)
  <2>1. Proceed(m, s, code)
    BY <1>6 DEF ReadReply
  <2>2. m \in Mail
    BY <1>1, <1>6 DEF Talks
  <2>3. /\ SameTalk
        /\ streams \subseteq streams' /\ streams' \subseteq streams \cup {<<m, s>>}
        /\ \/ agenda' = <<>>
           \/ \E a \in Args : agenda' = <<Send(m, s, a)>>
           \/ agenda' = <<Send(m, s, "RSET"), Finish(m, s, "discarded")>>
           \/ agenda' = <<Finish(m, s, "delivered"), Send(m, s, "RSET")>>
           \/ agenda' = <<Finish(m, s, "delivered")>>
    BY <1>0, <2>1, <2>2, ProceedCases DEF Types
  <2>4. /\ Finish(m, s, "discarded") \in Tasks /\ Finish(m, s, "delivered") \in Tasks
        /\ \A a \in Args : Send(m, s, a) \in Tasks
        /\ "RSET" \in Args
    BY <2>2, TasksMade DEF Args
  <2>5. agenda' \in Seq(Tasks)
    BY <2>3, <2>4, Tuples
  <2>6. Types'
    BY <1>2, <2>2, <2>3, <2>5 DEF SameTalk
  <2> QED BY <1>0, <1>6, <2>2, <2>3, <2>6
<1> QED BY <1>3, <1>4, <1>5, <1>6

LEMMA StartTypes ==
    ASSUME Types, NEW m \in Mail, Start(m)
    PROVE  Types'
<1>1. agenda' = <<TryHost(m)>> /\ UNCHANGED <<conv, sk, pool, notes, streams>>
  BY DEF Start
<1>2. TryHost(m) \in Tasks /\ SameTalk
  BY <1>1, TasksMade, NoChange DEF Types
<1> QED BY <1>1, <1>2 DEF Types, SameTalk

LEMMA StreamTypes ==
    ASSUME Types, NEW st \in streams, StreamEnds(st[1], st[2])
    PROVE  /\ Types' /\ SameTalk /\ agenda = <<>>
           /\ st[1] \in Mail /\ st[2] \in Socket /\ agenda' = <<Send(st[1], st[2], "DOT")>>
<1>1. st[1] \in Mail /\ st[2] \in Socket
  BY DEF Types
<1>2. /\ agenda = <<>> /\ agenda' = <<Send(st[1], st[2], "DOT")>> /\ UNCHANGED <<conv, sk, pool, notes>>
      /\ streams' \subseteq streams
  BY DEF StreamEnds, Idle
<1>3. SameTalk
  BY <1>2, NoChange DEF Types
<1>4. Send(st[1], st[2], "DOT") \in Tasks
  BY <1>1, TasksMade DEF Args
<1> QED BY <1>1, <1>2, <1>3, <1>4 DEF Types, SameTalk

LEMMA ConnectedTypes ==
    ASSUME Types, NEW s \in Socket, Connected(s)
    PROVE  Types'
<1> DEFINE p == sk[s].pool
           q == pool[p]
           r == [sk[s] EXCEPT !.st = "up"]
<1>1. sk[s].st = "connecting" /\ sk' = [sk EXCEPT ![s].st = "up"] /\ UNCHANGED <<conv, notes, streams>>
  BY DEF Connected
<1>2. p \in Pool /\ sk[s] \in SocketT
  BY <1>1 DEF Types
<1>3. q \in PoolT
  BY <1>2 DEF Types
<1>4. sk' = [sk EXCEPT ![s] = r] /\ r \in SocketT /\ r.pool = p
  BY <1>1, <1>2 DEF Types, SocketT, States
<1> HIDE DEF r
<1>5. sk' \in [Socket -> SocketT] /\ \A u \in Socket : sk'[u].st \notin {"none", "gone"} => sk'[u].pool \in Pool
  BY <1>2, <1>4, SocketTypes
<1>6. ConvOK'
  BY <1>1, NoChange DEF Types, SameTalk
<1>7. CASE q.waiting # <<>>
  <2>1. pool' = [pool EXCEPT ![p].waiting = Tail(@)] /\ agenda' = <<OnSocket(Head(q.waiting), s)>>
    BY <1>7 DEF Connected
  <2>2. Head(q.waiting) \in Mail /\ Tail(q.waiting) \in Seq(Mail)
    BY <1>3, <1>7 DEF PoolT
  <2>3. pool' = [pool EXCEPT ![p] = [q EXCEPT !.waiting = Tail(q.waiting)]]
    BY <1>2, <2>1 DEF Types
  <2>4. [q EXCEPT !.waiting = Tail(q.waiting)] \in PoolT
    BY <1>3, <2>2 DEF PoolT
  <2>5. pool' \in [Pool -> PoolT]
    BY <1>2, <2>3, <2>4, PoolTypes
  <2>6. OnSocket(Head(q.waiting), s) \in Tasks
    BY <2>2, TasksMade
  <2> QED BY <1>1, <1>5, <1>6, <2>1, <2>5, <2>6 DEF Types
<1>8. CASE q.waiting = <<>>
  <2>1. pool' = [pool EXCEPT ![p].idle = Append(@, s)] /\ agenda' = <<Dispense(p)>>
    BY <1>8 DEF Connected
  <2>2. Append(q.idle, s) \in Seq(Socket)
    BY <1>3 DEF PoolT
  <2>3. pool' = [pool EXCEPT ![p] = [q EXCEPT !.idle = Append(q.idle, s)]]
    BY <1>2, <2>1 DEF Types
  <2>4. [q EXCEPT !.idle = Append(q.idle, s)] \in PoolT
    BY <1>3, <2>2 DEF PoolT
  <2>5. pool' \in [Pool -> PoolT]
    BY <1>2, <2>3, <2>4, PoolTypes
  <2>6. Dispense(p) \in Tasks
    BY <1>2, TasksMade
  <2> QED BY <1>1, <1>5, <1>6, <2>1, <2>5, <2>6 DEF Types
<1> QED BY <1>7, <1>8

\* create() called back with an error: the first mail that waits tries again.
LEMMA CreateFailsCases ==
    ASSUME Types, NEW p \in Pool, CreateFails(p)
    PROVE  /\ agenda' \in Seq(Tasks) /\ pool' \in [Pool -> PoolT]
           /\ \A g \in Pool : pool'[g].idle = pool[g].idle
           /\ \A g \in Pool \ {p} : pool'[g] = pool[g]
           /\ \/ /\ pool[p].waiting = <<>> /\ agenda' = <<Dispense(p)>>
                 /\ pool'[p].waiting = pool[p].waiting
              \/ /\ pool[p].waiting # <<>>
                 /\ agenda' = <<TryHost(Head(pool[p].waiting)), Dispense(p)>>
                 /\ pool'[p].waiting = Tail(pool[p].waiting)
<1> DEFINE q == pool[p]
           n == IF q.count > 0 THEN q.count - 1 ELSE 0
           w == IF q.waiting = <<>> THEN q.waiting ELSE Tail(q.waiting)
<1>1. q \in PoolT
  BY DEF Types
<1>2. n \in Nat /\ w \in Seq(Mail)
  BY <1>1 DEF PoolT
<1>3. pool' = [pool EXCEPT ![p] = [q EXCEPT !.count = n, !.waiting = w]]
  BY DEF CreateFails, Types
<1>4. agenda' = (IF q.waiting = <<>> THEN <<>> ELSE <<TryHost(Head(q.waiting))>>) \o <<Dispense(p)>>
  BY DEF CreateFails
<1>5. Dispense(p) \in Tasks
  BY TasksMade
<1>6. CASE q.waiting = <<>>
  <2>1. agenda' = <<Dispense(p)>>
    BY <1>4, <1>6
  <2>2. w = q.waiting
    BY <1>6
  <2> HIDE DEF n, w
  <2>3. [q EXCEPT !.count = n, !.waiting = w] \in PoolT
    BY <1>1, <1>2 DEF PoolT
  <2>4. pool' \in [Pool -> PoolT]
    BY <1>3, <2>3, PoolTypes
  <2>5. pool'[p].idle = q.idle /\ pool'[p].waiting = w /\ \A g \in Pool \ {p} : pool'[g] = pool[g]
    BY <1>1, <1>3 DEF Types, PoolT
  <2>6. agenda' \in Seq(Tasks)
    BY <1>5, <2>1, Tuples
  <2> QED BY <1>6, <2>1, <2>2, <2>4, <2>5, <2>6
<1>7. CASE q.waiting # <<>>
  <2>1. agenda' = <<TryHost(Head(q.waiting)), Dispense(p)>>
    <3>1. agenda' = <<TryHost(Head(q.waiting))>> \o <<Dispense(p)>>
      BY <1>4, <1>7
    <3>2. TryHost(Head(q.waiting)) \in Tasks /\ Dispense(p) \in Tasks
      BY <1>1, <1>7, TasksMade DEF PoolT
    <3> QED BY <3>1, <3>2, Joined
  <2>2. w = Tail(q.waiting) /\ Head(q.waiting) \in Mail
    BY <1>1, <1>7 DEF PoolT
  <2>3. TryHost(Head(q.waiting)) \in Tasks
    BY <2>2, TasksMade
  <2> HIDE DEF n, w
  <2>4. [q EXCEPT !.count = n, !.waiting = w] \in PoolT
    BY <1>1, <1>2 DEF PoolT
  <2>5. pool' \in [Pool -> PoolT]
    BY <1>3, <2>4, PoolTypes
  <2>6. pool'[p].idle = q.idle /\ pool'[p].waiting = w /\ \A g \in Pool \ {p} : pool'[g] = pool[g]
    BY <1>1, <1>3 DEF Types, PoolT
  <2>7. agenda' \in Seq(Tasks)
    BY <1>5, <2>1, <2>3, Tuples
  <2> QED BY <1>7, <2>1, <2>2, <2>5, <2>6, <2>7
<1> QED BY <1>6, <1>7

LEMMA FailTypes ==
    ASSUME Types, NEW s \in Socket, ConnectFails(s) \/ TimesOut(s)
    PROVE  /\ Types' /\ SameTalk /\ agenda = <<>> /\ sk[s].pool \in Pool /\ CreateFails(sk[s].pool)
           /\ UNCHANGED <<streams, left, outcome>>
           /\ \A u \in Socket \ {s} : sk'[u] = sk[u]
           /\ \/ sk[s].st = "connecting" /\ sk'[s] = [NoSocket EXCEPT !.st = "gone"]
              \/ sk[s].st = "up" /\ sk'[s] = [sk[s] EXCEPT !.st = "ended"]
<1> DEFINE p == sk[s].pool
           r1 == [NoSocket EXCEPT !.st = "gone"]
           r2 == [sk[s] EXCEPT !.st = "ended"]
<1>1. /\ agenda = <<>> /\ CreateFails(p) /\ sk[s].st \in {"connecting", "up"}
      /\ UNCHANGED <<conv, streams, left, outcome>> /\ notes' \in {notes, None}
  BY DEF ConnectFails, TimesOut, Idle
<1>2. p \in Pool /\ sk[s] \in SocketT
  BY <1>1 DEF Types
<1>3. \/ sk[s].st = "connecting" /\ sk' = [sk EXCEPT ![s] = r1]
      \/ sk[s].st = "up" /\ sk' = [sk EXCEPT ![s] = r2]
  BY <1>1 DEF ConnectFails, TimesOut, Types
<1>4. r1 \in SocketT /\ r1.st = "gone" /\ r2 \in SocketT /\ r2.pool = p
  BY <1>2 DEF NoSocket, SocketT, States
<1>5. SameTalk
  BY <1>1, NoChange DEF Types
<1> HIDE DEF r1, r2
<1>6. sk' \in [Socket -> SocketT] /\ \A u \in Socket : sk'[u].st \notin {"none", "gone"} => sk'[u].pool \in Pool
  <2>1. \A r \in {r1, r2} : r \in SocketT /\ (r.st \notin {"none", "gone"} => r.pool \in Pool)
    BY <1>2, <1>4
  <2> QED BY <1>3, <2>1, SocketTypes
<1>7. agenda' \in Seq(Tasks) /\ pool' \in [Pool -> PoolT]
  BY <1>1, <1>2, CreateFailsCases
<1>8. Types'
  BY <1>1, <1>5, <1>6, <1>7 DEF Types, SameTalk
<1>9. \A u \in Socket \ {s} : sk'[u] = sk[u]
  BY <1>3 DEF Types
<1>10. \/ sk[s].st = "connecting" /\ sk'[s] = r1
       \/ sk[s].st = "up" /\ sk'[s] = r2
  BY <1>3 DEF Types
<1> QED BY <1>1, <1>2, <1>5, <1>8, <1>9, <1>10 DEF r1, r2

\* The remote end closes: the mail is tried again, or nobody minds.
LEMMA ClosedCases ==
    ASSUME Types, NEW s \in Socket, Closed(s)
    PROVE  /\ Types' /\ agenda = <<>> /\ UNCHANGED <<pool, notes, streams, left, outcome>>
           /\ sk[s].st \in {"up", "ended"}
           /\ \A u \in Socket \ {s} : sk'[u] = sk[u]
           /\ \E st \in {"closed", "gone"} : sk'[s] = [sk[s] EXCEPT !.st = st] /\ (Pooled(s) => st = "closed")
           /\ \/ \E m \in Mail : /\ m = sk[s].mail /\ Talks(m, s) /\ EndsTalk(m)
                                 /\ agenda' = <<ReleaseBad(s), TryHost(m)>>
              \/ /\ ~Talks(sk[s].mail, s) /\ SameTalk
                 /\ \/ agenda' = <<>>
                    \/ Pooled(s) /\ notes \in Pool /\ agenda' = <<Destroy(s, notes)>>
<1> DEFINE m == sk[s].mail
<1>1. /\ agenda = <<>> /\ UNCHANGED <<pool, notes, streams, left, outcome>> /\ sk[s].st \in {"up", "ended"}
  BY DEF Closed, Idle
<1>2. sk[s] \in SocketT /\ sk[s].pool \in Pool /\ m \in Mail \cup {None}
  BY <1>1 DEF Types, SocketT
<1>3. ASSUME NEW st \in {"closed", "gone"}, sk' = [sk EXCEPT ![s].st = st], ConvOK', agenda' \in Seq(Tasks)
      PROVE  /\ Types' /\ sk'[s] = [sk[s] EXCEPT !.st = st]
             /\ \A u \in Socket \ {s} : sk'[u] = sk[u]
  <2> DEFINE r == [sk[s] EXCEPT !.st = st]
  <2>1. sk' = [sk EXCEPT ![s] = r] /\ r \in SocketT /\ r.pool = sk[s].pool
    BY <1>2, <1>3 DEF Types, SocketT, States
  <2>2. sk'[s] = r /\ \A u \in Socket \ {s} : sk'[u] = sk[u]
    BY <2>1 DEF Types
  <2> HIDE DEF r
  <2>3. sk' \in [Socket -> SocketT] /\ \A u \in Socket : sk'[u].st \notin {"none", "gone"} => sk'[u].pool \in Pool
    BY <1>2, <2>1, SocketTypes
  <2>4. Types'
    BY <1>1, <1>3, <2>3 DEF Types
  <2> QED BY <2>2, <2>4 DEF r
<1>4. CASE Talks(m, s)
  <2>1. /\ conv' = [conv EXCEPT ![m].processing = FALSE] /\ agenda' = <<ReleaseBad(s), TryHost(m)>>
        /\ sk' = [sk EXCEPT ![s].st = "closed"]
    BY <1>4 DEF Closed
  <2>2. m \in Mail
    BY <1>2, <1>4 DEF Talks
  <2>3. EndsTalk(m)
    BY <2>1, <2>2, StopsTalk DEF Types
  <2>4. agenda' \in Seq(Tasks)
    BY <2>1, <2>2, TasksMade, Tuples
  <2> QED BY <1>1, <1>3, <1>4, <2>1, <2>2, <2>3, <2>4 DEF EndsTalk
<1>5. CASE ~Talks(m, s)
  <2>1. /\ UNCHANGED conv
        /\ \/ agenda' = <<>>
           \/ Pooled(s) /\ notes # None /\ agenda' = <<Destroy(s, notes)>>
    BY <1>5 DEF Closed
  <2>2. PICK st \in {"closed", "gone"} : sk' = [sk EXCEPT ![s].st = st] /\ (Pooled(s) => st = "closed")
    BY <1>5 DEF Closed
  <2>3. SameTalk
    BY <2>1, NoChange DEF Types
  <2>4. notes # None => notes \in Pool /\ Destroy(s, notes) \in Tasks
    BY TasksMade DEF Types
  <2>5. agenda' \in Seq(Tasks)
    BY <2>1, <2>4, Tuples
  <2>6. Types' /\ sk'[s] = [sk[s] EXCEPT !.st = st] /\ \A u \in Socket \ {s} : sk'[u] = sk[u]
    BY <1>3, <2>2, <2>3, <2>5 DEF SameTalk
  <2> QED BY <1>1, <1>5, <2>1, <2>2, <2>3, <2>4, <2>6
<1> QED BY <1>4, <1>5

LEMMA IdleTimeoutCases ==
    ASSUME Types, NEW s \in Socket, IdleTimeout(s)
    PROVE  /\ Types' /\ SameTalk /\ agenda = <<>> /\ Pooled(s)
           /\ UNCHANGED <<conv, sk, pool, notes, streams, left, outcome>>
           /\ \E p \in Pool : agenda' = <<Destroy(s, p)>>
<1>1. PICK p \in Pool : s \in Range(pool[p].idle) /\ agenda' = <<Destroy(s, p)>>
  BY DEF IdleTimeout
<1>2. agenda = <<>> /\ UNCHANGED <<conv, sk, pool, notes, streams, left, outcome>>
  BY DEF IdleTimeout, Idle
<1>3. SameTalk
  BY <1>2, NoChange DEF Types
<1>4. agenda' \in Seq(Tasks)
  BY <1>1, TasksMade, Tuples
<1> QED BY <1>1, <1>2, <1>3, <1>4 DEF Types, SameTalk, Pooled

LEMMA TypesInit == Init => Types
<1> SUFFICES ASSUME Init PROVE Types
  OBVIOUS
<1>1. agenda \in Seq(Tasks) /\ notes \in Pool \cup {None} /\ streams \subseteq Mail \X Socket
  BY Tuples DEF Init
<1>2. NoSocket \in SocketT /\ NoSocket.st = "none"
  BY DEF NoSocket, SocketT, States
<1>3. NoPool \in PoolT
  BY DEF NoPool, PoolT
<1>4. DOMAIN NoConv = Fields /\ NoConv.sock = None /\ NoConv.processing = FALSE
  BY DEF NoConv, Fields
<1>5. ConvOK
  BY <1>4 DEF Init, ConvOK
<1> QED BY <1>1, <1>2, <1>3, <1>5 DEF Init, Types

LEMMA TypesNext == Types /\ [Next]_vars => Types'
<1> SUFFICES ASSUME Types, [Next]_vars PROVE Types'
  OBVIOUS
<1>1. CASE UNCHANGED vars
  BY <1>1 DEF vars, Types, ConvOK
<1>2. CASE Turn
  BY <1>2, DispenseTypes, DestroyTypes, TryHostTypes, ReleaseTypes, LendTypes, SendCases, DecidesCases, FinishCases
  DEF Turn
<1>3. CASE \E m \in Mail : Start(m)
  BY <1>3, StartTypes
<1>4. CASE \E s \in Socket : ReadReply(s) \/ Connected(s) \/ ConnectFails(s) \/ TimesOut(s) \/ Closed(s) \/ IdleTimeout(s)
  BY <1>4, ReplyCases, ConnectedTypes, FailTypes, ClosedCases, IdleTimeoutCases
<1>5. CASE \E st \in streams : StreamEnds(st[1], st[2])
  BY <1>5, StreamTypes
<1> QED BY <1>1, <1>2, <1>3, <1>4, <1>5 DEF Next

------------------------------------------------------------------------------
(* Who has a socket. *)

\* The calls that release a socket, or lend it; the last of these that may be
\* about one.
Bind       == {"release_client", "finish_processing_mail", "stop", "try_deliver_host_on_socket"}
Binds(t, s) == t.do \in Bind /\ t.sock = s
IsLast(t)  == t.do = "finish_processing_mail" \/ (t.do = "release_client" /\ t.arg # "error")

Pending    == {agenda[i] : i \in DOMAIN agenda}
Rest       == {agenda[i] : i \in DOMAIN agenda \ {1}}
Bound(s)      == \E t \in Pending : Binds(t, s)
BoundLater(s) == \E t \in Rest : Binds(t, s)

\* The mail a conversation is with is written on its socket.
Holders == \A m \in Mail, s \in Socket : Talks(m, s) =>
               sk[s].mail = m /\ sk[s].acquired /\ sk[s].st \in {"up", "ended"}

\* A socket that is with a mail is not idle; one that is idle, or being made,
\* is nobody's, and no call will change that.
Apart == \A s \in Socket :
            /\ sk[s].acquired => ~Pooled(s) /\ sk[s].st \notin {"none", "connecting"}
            /\ Pooled(s) => ~Bound(s)
            /\ sk[s].st = "connecting" => ~Bound(s) /\ ~Pooled(s)

\* It is idle once.
Once == \A p, q \in Pool : \A i \in DOMAIN pool[p].idle, j \in DOMAIN pool[q].idle :
            pool[p].idle[i] = pool[q].idle[j] => p = q /\ i = j

\* Lending and destroying are done at once.
OnTop == \A t \in Rest : t.do \notin {"try_deliver_host_on_socket", "destroy"}

\* What is lent is nobody's, and what is destroyed is not talked on.
Ready == agenda # <<>> =>
           /\ Top.do = "try_deliver_host_on_socket" =>
                 sk[Top.sock].st = "up" /\ ~sk[Top.sock].acquired /\ ~BoundLater(Top.sock)
           /\ Top.do = "destroy" => \A m \in Mail : ~Talks(m, Top.sock)

\* The last call about a socket is the last.
Ordered == \A i, j \in DOMAIN agenda : i < j /\ IsLast(agenda[i]) => ~Binds(agenda[j], agenda[i].sock)

StopComes(m, s) ==
    \/ agenda[1] = Stop(m, s)
    \/ /\ agenda[1].do = "send_command" /\ agenda[1].mail = m /\ agenda[1].sock = s
       /\ 2 \in DOMAIN agenda /\ agenda[2] = Stop(m, s)

\* A socket that is talked on is finished with by its mail only, and released
\* after the conversation stopped.
Stopping == \A m \in Mail, s \in Socket : Talks(m, s) =>
               \A t \in Pending : t.sock = s =>
                  /\ t.do = "finish_processing_mail" => t.mail = m
                  /\ t.do = "release_client" => StopComes(m, s)

Lent == Types /\ Holders /\ Apart /\ Once /\ OnTop /\ Ready /\ Ordered /\ Stopping

LEMMA PopsOrder ==
    ASSUME Types, OnTop, Ordered, agenda # <<>>, Call(<<>>)
    PROVE  /\ Ordered' /\ OnTop' /\ Ready'
           /\ Pending' = Rest
           /\ Top \in Pending /\ Rest \subseteq Pending
<1>1. /\ Len(agenda') = Len(agenda) - 1 /\ agenda' \in Seq(Tasks)
      /\ \A i \in DOMAIN agenda' : i + 1 \in DOMAIN agenda /\ agenda'[i] = agenda[i + 1]
  BY Pops DEF Types
<1>2. Len(agenda) \in Nat /\ Len(agenda') \in Nat /\ DOMAIN agenda = 1 .. Len(agenda) /\ DOMAIN agenda' = 1 .. Len(agenda')
  BY <1>1 DEF Types
<1>3. Pending' = Rest
  <2>1. \A i \in DOMAIN agenda \ {1} : i - 1 \in DOMAIN agenda' /\ agenda'[i - 1] = agenda[i]
    BY <1>1, <1>2
  <2>2. \A i \in DOMAIN agenda' : i + 1 \in DOMAIN agenda \ {1}
    BY <1>1, <1>2
  <2> QED BY <1>1, <2>1, <2>2 DEF Pending, Rest
<1>4. Ordered'
  <2> SUFFICES ASSUME NEW i \in DOMAIN agenda', NEW j \in DOMAIN agenda', i < j, IsLast(agenda'[i])
               PROVE  ~Binds(agenda'[j], agenda'[i].sock)
    BY DEF Ordered
  <2>1. i + 1 < j + 1 /\ i + 1 \in DOMAIN agenda /\ j + 1 \in DOMAIN agenda
    BY <1>1, <1>2
  <2>2. agenda'[i] = agenda[i + 1] /\ agenda'[j] = agenda[j + 1]
    BY <1>1
  <2> QED BY <2>1, <2>2 DEF Ordered
<1>5. Rest' \subseteq Pending'
  BY DEF Rest, Pending
<1>6. OnTop'
  BY <1>3, <1>5 DEF OnTop
<1>7. agenda' # <<>> => Top' \in Rest
  BY <1>1, <1>2, <1>3 DEF Top, Pending
<1>8. Ready'
  BY <1>7 DEF Ready, OnTop
<1>9. Top \in Pending /\ Rest \subseteq Pending
  BY TopTask DEF Types, Pending, Rest
<1> QED BY <1>3, <1>4, <1>6, <1>8, <1>9

LEMMA BecomesOrder ==
    ASSUME Types, OnTop, Ordered, agenda # <<>>, NEW t \in Tasks, Call(<<t>>),
           IsLast(t) => ~BoundLater(t.sock)
    PROVE  /\ Ordered' /\ OnTop'
           /\ agenda' # <<>> /\ Top' = t /\ Pending' = Rest \cup {t} /\ Rest' = Rest
           /\ Top \in Pending /\ Rest \subseteq Pending
<1>1. /\ agenda' \in Seq(Tasks)
      /\ DOMAIN agenda' = DOMAIN agenda /\ 1 \in DOMAIN agenda /\ agenda'[1] = t
      /\ \A i \in DOMAIN agenda : i # 1 => agenda'[i] = agenda[i]
  BY Becomes DEF Types
<1>2. Rest' = Rest
  BY <1>1 DEF Rest
<1>3. Pending' = Rest \cup {t}
  BY <1>1 DEF Rest, Pending
<1>4. OnTop'
  BY <1>2 DEF OnTop
<1>5. agenda' # <<>> /\ Top' = t
  BY <1>1 DEF Top
<1>6. DOMAIN agenda = 1 .. Len(agenda) /\ Len(agenda) \in Nat
  BY DEF Types
<1>7. Ordered'
  <2> SUFFICES ASSUME NEW i \in DOMAIN agenda, NEW j \in DOMAIN agenda, i < j, IsLast(agenda'[i])
               PROVE  ~Binds(agenda'[j], agenda'[i].sock)
    BY <1>1 DEF Ordered
  <2>1. j # 1 /\ agenda'[j] = agenda[j]
    BY <1>1, <1>6
  <2>2. agenda'[j] \in Rest
    BY <2>1 DEF Rest
  <2>3. CASE i = 1
    BY <1>1, <2>2, <2>3 DEF BoundLater
  <2>4. CASE i # 1
    BY <1>1, <2>1, <2>4 DEF Ordered
  <2> QED BY <2>3, <2>4
<1>8. Top \in Pending /\ Rest \subseteq Pending
  BY TopTask DEF Types, Pending, Rest
<1> QED BY <1>2, <1>3, <1>4, <1>5, <1>7, <1>8

LEMMA GrowsOrder ==
    ASSUME Types, OnTop, Ordered, agenda # <<>>, NEW t \in Tasks, NEW u \in Tasks, Call(<<t, u>>),
           ~IsLast(t), ~IsLast(u), u.do \notin {"try_deliver_host_on_socket", "destroy"}
    PROVE  /\ Ordered' /\ OnTop'
           /\ agenda' # <<>> /\ Top' = t /\ Pending' = Rest \cup {t, u} /\ Rest' = Rest \cup {u}
           /\ Top \in Pending /\ Rest \subseteq Pending
<1>1. /\ agenda' \in Seq(Tasks) /\ Len(agenda') = Len(agenda) + 1
      /\ agenda'[1] = t /\ agenda'[2] = u
      /\ \A i \in DOMAIN agenda' : i \notin {1, 2} => i - 1 \in DOMAIN agenda /\ i - 1 # 1 /\ agenda'[i] = agenda[i - 1]
  BY Grows DEF Types
<1>2. Len(agenda) \in Nat /\ Len(agenda) # 0 /\ DOMAIN agenda = 1 .. Len(agenda) /\ DOMAIN agenda' = 1 .. Len(agenda) + 1
  BY <1>1, TopTask DEF Types
<1>3. \A i \in DOMAIN agenda \ {1} : i + 1 \in DOMAIN agenda' \ {1, 2} /\ agenda'[i + 1] = agenda[i]
  <2>1. \A i \in DOMAIN agenda \ {1} : i + 1 \in DOMAIN agenda' \ {1, 2} /\ (i + 1) - 1 = i
    BY <1>2
  <2> QED BY <1>1, <2>1
<1>4. Rest' = Rest \cup {u}
  <2>1. 2 \in DOMAIN agenda' \ {1}
    BY <1>2
  <2>2. \A i \in DOMAIN agenda' \ {1} : i = 2 \/ (i - 1 \in DOMAIN agenda \ {1} /\ agenda'[i] = agenda[i - 1])
    BY <1>1
  <2>3. \A i \in DOMAIN agenda \ {1} : i + 1 \in DOMAIN agenda' \ {1} /\ agenda'[i + 1] = agenda[i]
    BY <1>3
  <2>4. ASSUME NEW x \in Rest' PROVE x \in Rest \cup {u}
    <3>1. PICK i \in DOMAIN agenda' \ {1} : x = agenda'[i]
      BY <2>4 DEF Rest
    <3> QED BY <1>1, <2>2, <3>1 DEF Rest
  <2>5. u \in Rest'
    BY <1>1, <2>1 DEF Rest
  <2>6. ASSUME NEW x \in Rest PROVE x \in Rest'
    <3>1. PICK i \in DOMAIN agenda \ {1} : x = agenda[i]
      BY <2>6 DEF Rest
    <3>2. i + 1 \in DOMAIN agenda' \ {1} /\ agenda'[i + 1] = x
      BY <2>3, <3>1
    <3> QED BY <3>2 DEF Rest
  <2> QED BY <2>4, <2>5, <2>6
<1>5. Pending' = Rest \cup {t, u}
  <2>1. Pending' = Rest' \cup {agenda'[1]}
    BY <1>2 DEF Pending, Rest
  <2> QED BY <1>1, <1>4, <2>1
<1>6. OnTop'
  BY <1>4 DEF OnTop
<1>7. agenda' # <<>> /\ Top' = t
  BY <1>1, <1>2 DEF Top
<1>8. Ordered'
  <2> SUFFICES ASSUME NEW i \in DOMAIN agenda', NEW j \in DOMAIN agenda', i < j, IsLast(agenda'[i])
               PROVE  ~Binds(agenda'[j], agenda'[i].sock)
    BY DEF Ordered
  <2>1. i \notin {1, 2}
    BY <1>1
  <2>2. j \notin {1, 2} /\ i - 1 < j - 1
    BY <1>2, <2>1
  <2> QED BY <1>1, <2>1, <2>2 DEF Ordered
<1>9. Top \in Pending /\ Rest \subseteq Pending
  BY TopTask DEF Types, Pending, Rest
<1> QED BY <1>4, <1>5, <1>6, <1>7, <1>8, <1>9

\* A call that is neither stop nor send_command leaves no socket that is
\* talked on with a release to come.
LEMMA StoppingKeeps ==
    ASSUME Types, Stopping, agenda # <<>>, Top.do \notin {"stop", "send_command"},
           \A m \in Mail, s \in Socket : Talks(m, s)' => Talks(m, s) \/ \A t \in Pending' : ~Binds(t, s),
           \A t \in Pending' : \/ t \in Pending
                               \/ t.do \notin {"release_client", "finish_processing_mail"}
                               \/ \A m \in Mail : ~Talks(m, t.sock)'
    PROVE  Stopping'
<1> SUFFICES ASSUME NEW m \in Mail, NEW s \in Socket, Talks(m, s)',
                    NEW t \in Pending', t.sock = s, t.do \in {"release_client", "finish_processing_mail"}
             PROVE  t.do = "finish_processing_mail" /\ t.mail = m
  BY DEF Stopping
<1>1. Binds(t, s)
  BY DEF Binds, Bind
<1>2. Talks(m, s) /\ t \in Pending
  BY <1>1
<1>3. ~StopComes(m, s)
  <2>1. Top = agenda[1]
    BY TopTask DEF Types
  <2>2. Stop(m, s).do = "stop"
    BY DEF Stop, Task
  <2> QED BY <2>1, <2>2 DEF StopComes
<1> QED BY <1>2, <1>3 DEF Stopping

LEMMA TalkFalls ==
    ASSUME SameTalk \/ \E n \in Mail : EndsTalk(n)
    PROVE  \A m \in Mail, s \in Socket : Talks(m, s)' => Talks(m, s)
<1>1. CASE SameTalk
  BY <1>1 DEF SameTalk, Talks
<1>2. ASSUME NEW n \in Mail, EndsTalk(n) PROVE \A m \in Mail, s \in Socket : Talks(m, s)' => Talks(m, s)
  BY <1>2 DEF EndsTalk, Talks
<1> QED BY <1>1, <1>2

LEMMA TalkEnds ==
    ASSUME NEW n \in Mail, EndsTalk(n)
    PROVE  \A s \in Socket : ~Talks(n, s)'
  BY DEF EndsTalk, Talks

LEMMA IdleSame ==
    ASSUME \A p \in Pool : pool'[p].idle = pool[p].idle
    PROVE  /\ Once => Once'
           /\ \A s \in Socket : Pooled(s)' <=> Pooled(s)
<1>1. Once => Once'
  BY DEF Once
<1>2. \A s \in Socket : Pooled(s)' <=> Pooled(s)
  BY DEF Pooled
<1> QED BY <1>1, <1>2

LEMMA IdleLess ==
    ASSUME Types, Once, NEW p \in Pool, pool[p].idle # <<>>, pool'[p].idle = Tail(pool[p].idle),
           \A q \in Pool \ {p} : pool'[q].idle = pool[q].idle
    PROVE  /\ Once'
           /\ Head(pool[p].idle) \in Socket /\ Pooled(Head(pool[p].idle))
           /\ \A s \in Socket : Pooled(s)' => Pooled(s) /\ s # Head(pool[p].idle)
<1> DEFINE a == pool[p].idle
           k(q, i) == IF q = p THEN i + 1 ELSE i
<1>1. a \in Seq(Socket) /\ a # <<>>
  BY DEF Types, PoolT
<1>2. /\ Head(a) = a[1] /\ 1 \in DOMAIN a /\ Head(a) \in Socket
      /\ \A i \in DOMAIN Tail(a) : i \in Nat \ {0} /\ i + 1 \in DOMAIN a /\ Tail(a)[i] = a[i + 1]
  BY <1>1
<1>3. \A q \in Pool : \A i \in DOMAIN pool'[q].idle :
         /\ k(q, i) \in DOMAIN pool[q].idle /\ pool'[q].idle[i] = pool[q].idle[k(q, i)]
         /\ q = p => k(q, i) # 1 /\ i \in Nat
  <2> SUFFICES ASSUME NEW q \in Pool, NEW i \in DOMAIN pool'[q].idle
               PROVE  /\ k(q, i) \in DOMAIN pool[q].idle /\ pool'[q].idle[i] = pool[q].idle[k(q, i)]
                      /\ q = p => k(q, i) # 1 /\ i \in Nat
    OBVIOUS
  <2>1. CASE q # p
    BY <2>1
  <2>2. CASE q = p
    <3>1. i \in DOMAIN Tail(a) /\ pool'[q].idle[i] = Tail(a)[i] /\ k(q, i) = i + 1
      BY <2>2
    <3> QED BY <1>2, <2>2, <3>1
  <2> QED BY <2>1, <2>2
<1>4. Once'
  <2> SUFFICES ASSUME NEW q \in Pool, NEW r \in Pool, NEW i \in DOMAIN pool'[q].idle, NEW j \in DOMAIN pool'[r].idle,
                      pool'[q].idle[i] = pool'[r].idle[j]
               PROVE  q = r /\ i = j
    BY DEF Once
  <2>1. q = r /\ k(q, i) = k(r, j)
    BY <1>3 DEF Once
  <2> QED BY <1>3, <2>1
<1>5. ASSUME NEW s \in Socket, Pooled(s)' PROVE Pooled(s) /\ s # Head(a)
  <2>1. PICK q \in Pool : \E i \in DOMAIN pool'[q].idle : s = pool'[q].idle[i]
    BY <1>5 DEF Pooled, Range
  <2>2. PICK i \in DOMAIN pool'[q].idle : s = pool'[q].idle[i]
    BY <2>1
  <2>3. k(q, i) \in DOMAIN pool[q].idle /\ s = pool[q].idle[k(q, i)] /\ (q = p => k(q, i) # 1)
    BY <1>3, <2>2
  <2>4. Pooled(s)
    BY <2>3 DEF Pooled, Range
  <2>5. s # Head(a)
    BY <1>2, <2>3 DEF Once
  <2> QED BY <2>4, <2>5
<1>6. Pooled(Head(a))
  BY <1>2 DEF Pooled, Range
<1> QED BY <1>2, <1>4, <1>5, <1>6

LEMMA IdleOut ==
    ASSUME Types, Once, NEW p \in Pool, NEW u \in Socket, pool'[p].idle = Without(pool[p].idle, u),
           \A q \in Pool \ {p} : pool'[q].idle = pool[q].idle
    PROVE  Once' /\ \A s \in Socket : Pooled(s)' => Pooled(s)
<1> DEFINE a == pool[p].idle
           b == Without(a, u)
<1>1. a \in Seq(Socket)
  BY DEF Types, PoolT
<1>2. b \in Seq(Socket) /\ Range(b) \subseteq Range(a)
  BY <1>1, WithoutOne
<1>3. \A s \in Socket : Pooled(s)' => Pooled(s)
  BY <1>2 DEF Pooled
<1>4. CASE u \notin Range(a)
  <2>1. \A q \in Pool : pool'[q].idle = pool[q].idle
    BY <1>1, <1>4, WithoutOne
  <2> QED BY <1>3, <2>1, IdleSame
<1>5. CASE u \in Range(a)
  <2>0. \E n \in DOMAIN a :
          /\ a[n] = u
          /\ \A i \in DOMAIN b : b[i] = (IF i < n THEN a[i] ELSE a[i + 1]) /\ i + 1 \in DOMAIN a
    BY <1>1, <1>5, WithoutOne, Zenon
  <2>1. PICK n \in DOMAIN a : \A i \in DOMAIN b : b[i] = (IF i < n THEN a[i] ELSE a[i + 1]) /\ i + 1 \in DOMAIN a
    BY <2>0
  <2> DEFINE k(q, i) == IF q = p /\ ~(i < n) THEN i + 1 ELSE i
  <2>2. DOMAIN a = 1 .. Len(a) /\ Len(a) \in Nat /\ DOMAIN b = 1 .. Len(b) /\ Len(b) \in Nat
    BY <1>1, <1>2
  <2>3. \A i \in DOMAIN b : i \in DOMAIN a /\ i \in Nat
    BY <2>1, <2>2
  <2>4. \A q \in Pool : \A i \in DOMAIN pool'[q].idle :
           /\ k(q, i) \in DOMAIN pool[q].idle /\ pool'[q].idle[i] = pool[q].idle[k(q, i)]
           /\ q = p => i \in Nat
    BY <2>1, <2>3
  <2>5. n \in Nat
    BY <2>2
  <2> SUFFICES ASSUME NEW q \in Pool, NEW r \in Pool, NEW i \in DOMAIN pool'[q].idle, NEW j \in DOMAIN pool'[r].idle,
                      pool'[q].idle[i] = pool'[r].idle[j]
               PROVE  q = r /\ i = j
    BY <1>3 DEF Once
  <2>6. q = r /\ k(q, i) = k(r, j)
    BY <2>4 DEF Once
  <2> QED BY <2>4, <2>5, <2>6
<1> QED BY <1>4, <1>5

LEMMA IdleMore ==
    ASSUME Types, Once, NEW p \in Pool, NEW u \in Socket, ~Pooled(u), pool'[p].idle = Append(pool[p].idle, u),
           \A q \in Pool \ {p} : pool'[q].idle = pool[q].idle
    PROVE  Once' /\ \A s \in Socket : Pooled(s)' => Pooled(s) \/ s = u
<1> DEFINE a == pool[p].idle
           b == Append(a, u)
<1>1. a \in Seq(Socket)
  BY DEF Types, PoolT
<1>2. \A i \in DOMAIN b : IF i \in DOMAIN a THEN b[i] = a[i] ELSE b[i] = u /\ i = Len(a) + 1
  BY <1>1
<1>3. \A q \in Pool : \A i \in DOMAIN pool'[q].idle :
         IF i \in DOMAIN pool[q].idle THEN pool'[q].idle[i] = pool[q].idle[i]
         ELSE pool'[q].idle[i] = u /\ q = p /\ i = Len(a) + 1
  BY <1>2
<1>4. \A q \in Pool : \A i \in DOMAIN pool[q].idle : pool[q].idle[i] # u
  BY DEF Pooled, Range
<1>5. Once'
  <2> SUFFICES ASSUME NEW q \in Pool, NEW r \in Pool, NEW i \in DOMAIN pool'[q].idle, NEW j \in DOMAIN pool'[r].idle,
                      pool'[q].idle[i] = pool'[r].idle[j]
               PROVE  q = r /\ i = j
    BY DEF Once
  <2>1. CASE i \in DOMAIN pool[q].idle /\ j \in DOMAIN pool[r].idle
    BY <1>3, <2>1 DEF Once
  <2>2. CASE i \notin DOMAIN pool[q].idle
    BY <1>3, <1>4, <2>2
  <2>3. CASE j \notin DOMAIN pool[r].idle
    BY <1>3, <1>4, <2>3
  <2> QED BY <2>1, <2>2, <2>3
<1>6. ASSUME NEW s \in Socket, Pooled(s)' PROVE Pooled(s) \/ s = u
  <2>1. PICK q \in Pool : \E i \in DOMAIN pool'[q].idle : s = pool'[q].idle[i]
    BY <1>6 DEF Pooled, Range
  <2>2. PICK i \in DOMAIN pool'[q].idle : s = pool'[q].idle[i]
    BY <2>1
  <2> QED BY <1>3, <2>2 DEF Pooled, Range
<1> QED BY <1>5, <1>6

\* A call or an event that leaves the sockets where they are.
LEMMA Calm ==
    ASSUME Lent, UNCHANGED sk, \A p \in Pool : pool'[p].idle = pool[p].idle,
           SameTalk \/ \E n \in Mail : EndsTalk(n),
           \A s \in Socket : Bound(s)' => Bound(s) \/ sk[s].acquired
    PROVE  Holders' /\ Apart' /\ Once'
<1>1. Holders'
  BY TalkFalls DEF Lent, Holders
<1>2. Once' /\ \A s \in Socket : Pooled(s)' <=> Pooled(s)
  BY IdleSame DEF Lent
<1>3. Apart'
  BY <1>2 DEF Lent, Apart
<1> QED BY <1>1, <1>2, <1>3

LEMMA DispenseLends ==
    ASSUME Lent, Types', PoolDispense
    PROVE  Lent'
<1>0. agenda \in Seq(Tasks) /\ agenda # <<>> /\ Top.do = "dispense" /\ Types
  BY DEF Lent, Types, PoolDispense, Doing
<1> DEFINE p == Top.pool
           q == pool[p]
<1>1. p \in Pool
  BY <1>0, TopTask DEF Tasks, ForPool
<1>2. q \in PoolT
  BY <1>0, <1>1 DEF Types
<1>3. UNCHANGED conv
  BY DEF PoolDispense
<1>4. \A n \in Mail, u \in Socket : Talks(n, u)' <=> Talks(n, u)
  BY <1>3 DEF Talks
<1>5. CASE q.waiting # <<>> /\ q.idle # <<>>
  <2>0. PICK s \in Socket, m \in Mail : s = Head(q.idle) /\ m = Head(q.waiting)
    <3>1. Head(q.idle) \in Socket /\ Head(q.waiting) \in Mail
      BY <1>2, <1>5 DEF PoolT
    <3> QED BY <3>1
  <2>1. /\ UNCHANGED sk
        /\ pool' = [pool EXCEPT ![p].idle = Tail(@), ![p].waiting = IF sk[s].st = "up" THEN Tail(@) ELSE @]
        /\ Call(IF sk[s].st = "up" THEN <<OnSocket(m, s)>> ELSE <<Destroy(s, p), Dispense(p)>>)
    BY <1>5, <2>0 DEF PoolDispense
  <2>2. pool'[p].idle = Tail(q.idle) /\ \A g \in Pool \ {p} : pool'[g].idle = pool[g].idle
    BY <1>0, <1>1, <1>2, <2>1 DEF Types, PoolT
  <2>3. Once' /\ s \in Socket /\ Pooled(s) /\ \A u \in Socket : Pooled(u)' => Pooled(u) /\ u # s
    BY <1>0, <1>1, <1>5, <2>0, <2>2, IdleLess DEF Lent
  <2>5. Holders'
    BY <1>4, <2>1 DEF Lent, Holders
  <2>6. ~sk[s].acquired /\ ~Bound(s) /\ \A n \in Mail : ~Talks(n, s)
    BY <2>3 DEF Lent, Apart, Holders
  <2>7. CASE sk[s].st = "up"
    <3> DEFINE t == OnSocket(m, s)
    <3>1. t \in Tasks /\ t.sock = s /\ t.do = "try_deliver_host_on_socket" /\ ~IsLast(t)
      BY TasksMade DEF OnSocket, Task, IsLast
    <3>2. Call(<<t>>)
      BY <2>1, <2>7
    <3> HIDE DEF t
    <3>3. /\ Ordered' /\ OnTop' /\ agenda' # <<>> /\ Top' = t /\ Pending' = Rest \cup {t} /\ Rest' = Rest
          /\ Rest \subseteq Pending
      BY <1>0, <3>1, <3>2, BecomesOrder DEF Lent
    <3>4. \A u \in Socket : Bound(u)' => Bound(u) \/ u = s
      BY <3>1, <3>3 DEF Bound, Binds
    <3>5. ~BoundLater(s)'
      BY <2>6, <3>3 DEF BoundLater, Bound
    <3>6. Apart'
      BY <2>1, <2>3, <2>7, <3>4 DEF Lent, Apart
    <3>7. Ready'
      BY <2>1, <2>6, <2>7, <3>1, <3>3, <3>5 DEF Ready
    <3>8. Stopping'
      BY <1>0, <1>4, <3>1, <3>3, StoppingKeeps DEF Lent
    <3> QED BY <2>3, <2>5, <3>3, <3>6, <3>7, <3>8 DEF Lent
  <2>8. CASE sk[s].st # "up"
    <3> DEFINE t == Destroy(s, p)
               u == Dispense(p)
    <3>1. /\ t \in Tasks /\ t.sock = s /\ t.do = "destroy" /\ ~IsLast(t)
          /\ u \in Tasks /\ u.sock = None /\ u.do = "dispense" /\ ~IsLast(u)
      BY <1>1, TasksMade DEF Destroy, Dispense, Task, IsLast
    <3>2. Call(<<t, u>>)
      BY <2>1, <2>8
    <3> HIDE DEF t, u
    <3>3. /\ Ordered' /\ OnTop' /\ agenda' # <<>> /\ Top' = t /\ Pending' = Rest \cup {t, u}
          /\ Rest \subseteq Pending
      BY <1>0, <3>1, <3>2, GrowsOrder DEF Lent
    <3>4. \A v \in Socket : Bound(v)' => Bound(v)
      BY <3>1, <3>3 DEF Bound, Binds, Bind
    <3>5. Apart'
      BY <2>1, <2>3, <3>4 DEF Lent, Apart
    <3>6. Ready'
      BY <1>4, <2>3, <2>6, <3>1, <3>3 DEF Ready
    <3>7. Stopping'
      BY <1>0, <1>4, <3>1, <3>3, StoppingKeeps DEF Lent
    <3> QED BY <2>3, <2>5, <3>3, <3>5, <3>6, <3>7 DEF Lent
  <2> QED BY <2>7, <2>8
<1>6. CASE ~(q.waiting # <<>> /\ q.idle # <<>>)
  <2>1. Call(<<>>)
    BY <1>6 DEF PoolDispense
  <2>2. Ordered' /\ OnTop' /\ Ready' /\ Pending' = Rest /\ Rest \subseteq Pending
    BY <1>0, <2>1, PopsOrder DEF Lent
  <2>3. \A u \in Socket : Bound(u)' => Bound(u)
    BY <2>2 DEF Bound
  <2>4. Stopping'
    BY <1>0, <1>4, <2>2, StoppingKeeps DEF Lent
  <2>5. \A g \in Pool : pool'[g].idle = pool[g].idle
    <3>1. UNCHANGED pool \/ pool' = [pool EXCEPT ![p].count = @ + 1]
      BY <1>6 DEF PoolDispense
    <3>2. UNCHANGED pool \/ pool' = [pool EXCEPT ![p] = [q EXCEPT !.count = q.count + 1]]
      BY <1>0, <1>1, <3>1 DEF Types
    <3>3. [q EXCEPT !.count = q.count + 1].idle = q.idle
      BY <1>2 DEF PoolT
    <3> QED BY <1>0, <1>1, <3>2, <3>3 DEF Types
  <2>6. CASE UNCHANGED sk
    BY <1>3, <2>2, <2>3, <2>4, <2>5, <2>6, Calm, NoChange DEF Lent, Types
  <2>7. ASSUME NEW v \in Socket, NewSocket(v), sk' = [sk EXCEPT ![v] = [NoSocket EXCEPT !.st = "connecting", !.pool = p]]
        PROVE  Lent'
    <3> DEFINE r == [NoSocket EXCEPT !.st = "connecting", !.pool = p]
    <3>1. r.st = "connecting" /\ r.acquired = FALSE
      BY DEF NoSocket
    <3>2. sk'[v] = r /\ \A u \in Socket \ {v} : sk'[u] = sk[u]
      BY <1>0, <2>7 DEF Types
    <3> HIDE DEF r
    <3>3. /\ sk[v].st \notin {"up", "ended"} /\ ~Pooled(v)
          /\ \A i \in DOMAIN agenda : agenda[i].sock # v
      BY <2>7 DEF NewSocket, Unused
    <3>4. ~Bound(v)
      BY <3>3 DEF Bound, Binds, Pending
    <3>5. Once' /\ \A u \in Socket : Pooled(u)' <=> Pooled(u)
      BY <2>5, IdleSame DEF Lent
    <3>6. Holders'
      BY <1>4, <3>2, <3>3 DEF Lent, Holders
    <3>7. Apart'
      BY <2>3, <3>1, <3>2, <3>3, <3>4, <3>5 DEF Lent, Apart
    <3> QED BY <2>2, <2>4, <3>5, <3>6, <3>7 DEF Lent
  <2> QED BY <1>6, <2>6, <2>7 DEF PoolDispense
<1> QED BY <1>5, <1>6

LEMMA DestroyLends ==
    ASSUME Lent, Types', PoolDestroy
    PROVE  Lent'
<1>0. agenda \in Seq(Tasks) /\ agenda # <<>> /\ Top.do = "destroy" /\ Types
  BY DEF Lent, Types, PoolDestroy, Doing
<1> DEFINE p == Top.pool
           s == Top.sock
           r == [NoSocket EXCEPT !.st = "gone"]
<1>1. p \in Pool /\ s \in Socket
  BY <1>0, TopTask DEF Tasks, ForPool, ForSocket
<1>2. Call(<<>>) /\ UNCHANGED conv
  BY DEF PoolDestroy
<1>3. pool'[p].idle = Without(pool[p].idle, s) /\ \A g \in Pool \ {p} : pool'[g].idle = pool[g].idle
  <2> DEFINE n == IF pool[p].count > 0 THEN pool[p].count - 1 ELSE 0
             q == [pool[p] EXCEPT !.count = n, !.idle = Without(pool[p].idle, s)]
  <2>1. pool' = [pool EXCEPT ![p] = q]
    BY <1>0, <1>1 DEF PoolDestroy, Types
  <2>2. q.idle = Without(pool[p].idle, s)
    BY <1>0, <1>1 DEF Types, PoolT
  <2> HIDE DEF q
  <2> QED BY <1>0, <1>1, <2>1, <2>2 DEF Types
<1>4. r.st = "gone" /\ r.acquired = FALSE
  BY DEF NoSocket
<1>5. sk'[s] = r /\ \A u \in Socket \ {s} : sk'[u] = sk[u]
  BY <1>0, <1>1 DEF PoolDestroy, Types
<1> HIDE DEF r
<1>6. Once' /\ \A u \in Socket : Pooled(u)' => Pooled(u)
  BY <1>0, <1>1, <1>3, IdleOut DEF Lent
<1>7. Ordered' /\ OnTop' /\ Ready' /\ Pending' = Rest /\ Rest \subseteq Pending
  BY <1>0, <1>2, PopsOrder DEF Lent
<1>8. \A n \in Mail, u \in Socket : Talks(n, u)' <=> Talks(n, u)
  BY <1>2 DEF Talks
<1>9. Holders'
  BY <1>0, <1>5, <1>8 DEF Lent, Holders, Ready
<1>10. Apart'
  <2>1. \A u \in Socket : Bound(u)' => Bound(u)
    BY <1>7 DEF Bound
  <2> QED BY <1>4, <1>5, <1>6, <2>1 DEF Lent, Apart
<1>11. Stopping'
  BY <1>0, <1>7, <1>8, StoppingKeeps DEF Lent
<1> QED BY <1>6, <1>7, <1>9, <1>10, <1>11 DEF Lent

LEMMA TryHostLends ==
    ASSUME Lent, TryDeliverHost
    PROVE  Lent'
<1>0. /\ agenda \in Seq(Tasks) /\ agenda # <<>> /\ Top.do = "try_deliver_host" /\ Types
      /\ Types' /\ EndsTalk(Top.mail) /\ Top.mail \in Mail
  <2>1. Types /\ agenda # <<>> /\ Top.do = "try_deliver_host"
    BY DEF Lent, TryDeliverHost, Doing
  <2>2. Top.mail \in Mail
    BY <2>1, TopTask DEF Types, Tasks, ForMail
  <2> QED BY <2>1, <2>2, TryHostTypes DEF Types
<1> DEFINE m == Top.mail
<1>1. \E t \in Tasks : /\ t.do \in {"try_deliver_host", "decide", "dispense"}
                       /\ Call(<<t>>)
  <2>1. CASE left[m] = 0
    <3>1. Call(<<Decide(m, "temp_fail")>>)
      BY <2>1 DEF TryDeliverHost
    <3>2. Decide(m, "temp_fail") \in Tasks /\ Decide(m, "temp_fail").do = "decide"
      BY <1>0, TasksMade DEF Args, Decide, Task
    <3> QED BY <3>1, <3>2
  <2>2. CASE left[m] # 0
    <3>1. PICK g \in Pool : Call(<<TryHost(m)>>) \/ Call(<<Dispense(g)>>)
      BY <2>2 DEF TryDeliverHost
    <3>2. /\ TryHost(m) \in Tasks /\ TryHost(m).do = "try_deliver_host"
          /\ Dispense(g) \in Tasks /\ Dispense(g).do = "dispense"
      BY <1>0, TasksMade DEF TryHost, Dispense, Task
    <3> QED BY <3>1, <3>2
  <2> QED BY <2>1, <2>2
<1>2. PICK t \in Tasks : t.do \in {"try_deliver_host", "decide", "dispense"} /\ Call(<<t>>)
  BY <1>1
<1>3. ~IsLast(t)
  BY <1>2 DEF IsLast
<1>4. Ordered' /\ OnTop' /\ agenda' # <<>> /\ Top' = t /\ Pending' = Rest \cup {t} /\ Rest \subseteq Pending
  BY <1>0, <1>2, <1>3, BecomesOrder DEF Lent
<1>5. \A s \in Socket : Bound(s)' => Bound(s)
  BY <1>2, <1>4 DEF Bound, Binds, Bind
<1>6. UNCHANGED sk /\ \A g \in Pool : pool'[g].idle = pool[g].idle
  <2>1. UNCHANGED sk
    BY DEF TryDeliverHost
  <2>2. UNCHANGED pool \/ \E g \in Pool : pool' = [pool EXCEPT ![g].waiting = Append(@, m)]
    BY DEF TryDeliverHost
  <2>3. ASSUME NEW g \in Pool, pool' = [pool EXCEPT ![g].waiting = Append(@, m)]
        PROVE  \A h \in Pool : pool'[h].idle = pool[h].idle
    <3> DEFINE q == [pool[g] EXCEPT !.waiting = Append(pool[g].waiting, m)]
    <3>1. pool' = [pool EXCEPT ![g] = q]
      BY <1>0, <2>3 DEF Types
    <3>2. q.idle = pool[g].idle
      BY <1>0 DEF Types, PoolT
    <3> HIDE DEF q
    <3> QED BY <1>0, <3>1, <3>2 DEF Types
  <2> QED BY <2>1, <2>2, <2>3
<1>7. Holders' /\ Apart' /\ Once'
  BY <1>0, <1>5, <1>6, Calm
<1>8. Ready'
  BY <1>2, <1>4 DEF Ready
<1>9. Stopping'
  <2>1. \A n \in Mail, s \in Socket : Talks(n, s)' => Talks(n, s)
    BY <1>0, TalkFalls
  <2> QED BY <1>0, <1>2, <1>4, <2>1, StoppingKeeps DEF Lent
<1> QED BY <1>0, <1>4, <1>7, <1>8, <1>9 DEF Lent

LEMMA ReleaseLends ==
    ASSUME Lent, Types', ReleaseClient
    PROVE  Lent'
<1>0. agenda \in Seq(Tasks) /\ agenda # <<>> /\ Top.do = "release_client" /\ Types
  BY DEF Lent, Types, ReleaseClient, Doing
<1>1. PICK s \in Socket : s = Top.sock
  BY <1>0, TopTask DEF Tasks, ForSocket
<1>2. UNCHANGED <<conv, notes>>
  BY DEF ReleaseClient
<1>3. \A m \in Mail, u \in Socket : Talks(m, u)' <=> Talks(m, u)
  BY <1>2 DEF Talks
<1>4. Top \in Pending /\ Top = agenda[1] /\ 1 \in DOMAIN agenda
  BY <1>0, TopTask DEF Pending
<1>5. \A m \in Mail : ~Talks(m, s)
  <2>1. \A m \in Mail : ~StopComes(m, s)
    <3>1. \A m \in Mail : Stop(m, s).do = "stop"
      BY DEF Stop, Task
    <3> QED BY <1>0, <1>4, <3>1 DEF StopComes
  <2> QED BY <1>0, <1>1, <1>4, <2>1 DEF Lent, Stopping
<1>6. ASSUME UNCHANGED pool, \A u \in Socket \ {s} : sk'[u] = sk[u],
             sk'[s].st = sk[s].st, sk'[s] = sk[s] \/ ~sk'[s].acquired,
             \A u \in Socket : Bound(u)' => Bound(u)
      PROVE  Holders' /\ Apart' /\ Once'
  <2>1. Once' /\ \A u \in Socket : Pooled(u)' <=> Pooled(u)
    BY <1>6, IdleSame DEF Lent
  <2>2. Holders'
    BY <1>3, <1>5, <1>6 DEF Lent, Holders
  <2>3. Apart'
    BY <1>6, <2>1 DEF Lent, Apart
  <2> QED BY <2>1, <2>2, <2>3
<1> DEFINE r1 == [sk[s] EXCEPT !.acquired = FALSE]
           r2 == [sk[s] EXCEPT !.acquired = FALSE, !.mail = None, !.fromPool = TRUE]
<1>7. /\ r1.st = sk[s].st /\ ~r1.acquired
      /\ r2.st = sk[s].st /\ ~r2.acquired
  BY <1>0 DEF Types, SocketT
<1>8. CASE ~sk[s].acquired \/ notes = None
  <2>1. Call(<<>>) /\ UNCHANGED pool /\ (sk' = sk \/ sk' = [sk EXCEPT ![s] = r1])
    <3>1. CASE ~sk[s].acquired
      BY <1>1, <3>1 DEF ReleaseClient
    <3>2. CASE sk[s].acquired /\ notes = None
      <4>1. Call(<<>>) /\ UNCHANGED pool /\ sk' = [sk EXCEPT ![s].acquired = FALSE]
        BY <1>1, <3>2 DEF ReleaseClient
      <4> QED BY <1>0, <4>1 DEF Types
    <3> QED BY <1>8, <3>1, <3>2
  <2>2. Ordered' /\ OnTop' /\ Ready' /\ Pending' = Rest /\ Rest \subseteq Pending
    BY <1>0, <2>1, PopsOrder DEF Lent
  <2>3. \A u \in Socket : Bound(u)' => Bound(u)
    BY <2>2 DEF Bound
  <2> HIDE DEF r1, r2
  <2>4. \A u \in Socket \ {s} : sk'[u] = sk[u]
    BY <1>0, <2>1 DEF Types
  <2>5. sk'[s] = sk[s] \/ sk'[s] = r1
    BY <1>0, <2>1 DEF Types
  <2>6. Holders' /\ Apart' /\ Once'
    BY <1>6, <1>7, <2>1, <2>3, <2>4, <2>5
  <2>7. Stopping'
    BY <1>0, <1>3, <2>2, StoppingKeeps DEF Lent
  <2> QED BY <2>2, <2>6, <2>7 DEF Lent
<1>9. CASE sk[s].acquired /\ notes # None /\ (Top.arg = "error" \/ ~cfg.pooling)
  <2>1. Call(<<Destroy(s, notes)>>) /\ UNCHANGED pool /\ sk' = [sk EXCEPT ![s] = r1]
    BY <1>0, <1>1, <1>9 DEF ReleaseClient, Types
  <2> DEFINE t == Destroy(s, notes)
  <2>2. t \in Tasks /\ t.do = "destroy" /\ t.sock = s /\ ~IsLast(t)
    <3>1. notes \in Pool
      BY <1>0, <1>9 DEF Types
    <3> QED BY <3>1, TasksMade DEF Destroy, Task, IsLast
  <2> HIDE DEF r1, r2, t
  <2>3. Ordered' /\ OnTop' /\ agenda' # <<>> /\ Top' = t /\ Pending' = Rest \cup {t} /\ Rest \subseteq Pending
    BY <1>0, <2>1, <2>2, BecomesOrder DEF Lent, t
  <2>4. \A u \in Socket : Bound(u)' => Bound(u)
    BY <2>2, <2>3 DEF Bound, Binds, Bind
  <2>5. sk'[s] = r1 /\ \A u \in Socket \ {s} : sk'[u] = sk[u]
    BY <1>0, <2>1 DEF Types
  <2>6. Holders' /\ Apart' /\ Once'
    BY <1>6, <1>7, <2>1, <2>4, <2>5
  <2>7. Ready'
    BY <1>3, <1>5, <2>2, <2>3 DEF Ready
  <2>8. Stopping'
    BY <1>0, <1>3, <2>2, <2>3, StoppingKeeps DEF Lent
  <2> QED BY <2>3, <2>6, <2>7, <2>8 DEF Lent
<1>10. CASE sk[s].acquired /\ notes # None /\ ~(Top.arg = "error" \/ ~cfg.pooling)
  <2>0. PICK p \in Pool : p = notes
    BY <1>0, <1>10 DEF Types
  <2>1. Call(<<Dispense(p)>>) /\ pool' = [pool EXCEPT ![p].idle = Append(@, s)] /\ sk' = [sk EXCEPT ![s] = r2]
    BY <1>0, <1>1, <1>10, <2>0 DEF ReleaseClient, Types
  <2> DEFINE t == Dispense(p)
             q == [pool[p] EXCEPT !.idle = Append(pool[p].idle, s)]
  <2>2. t \in Tasks /\ t.do = "dispense" /\ ~IsLast(t)
    BY TasksMade DEF Dispense, Task, IsLast
  <2>3. pool' = [pool EXCEPT ![p] = q] /\ q.idle = Append(pool[p].idle, s)
    BY <1>0, <2>1 DEF Types, PoolT
  <2> HIDE DEF r1, r2, t, q
  <2>4. Ordered' /\ OnTop' /\ agenda' # <<>> /\ Top' = t /\ Pending' = Rest \cup {t} /\ Rest \subseteq Pending
    BY <1>0, <2>1, <2>2, BecomesOrder DEF Lent, t
  <2>5. sk'[s] = r2 /\ \A u \in Socket \ {s} : sk'[u] = sk[u]
    BY <1>0, <2>1 DEF Types
  <2>6. pool'[p].idle = Append(pool[p].idle, s) /\ \A g \in Pool \ {p} : pool'[g].idle = pool[g].idle
    BY <1>0, <2>3 DEF Types
  <2>7. ~Pooled(s) /\ sk[s].st # "connecting"
    BY <1>10 DEF Lent, Apart
  <2>8. Once' /\ \A u \in Socket : Pooled(u)' => Pooled(u) \/ u = s
    BY <1>0, <2>6, <2>7, IdleMore DEF Lent
  <2>9. ~BoundLater(s)
    <3>1. IsLast(agenda[1]) /\ agenda[1].sock = s
      BY <1>0, <1>1, <1>4, <1>10 DEF IsLast
    <3>2. \A j \in DOMAIN agenda \ {1} : 1 < j
      BY <1>0
    <3> QED BY <1>4, <3>1, <3>2 DEF Lent, Ordered, BoundLater, Rest
  <2>10. \A u \in Socket : Bound(u)' => Bound(u) /\ u # s
    BY <2>2, <2>4, <2>9 DEF Bound, BoundLater, Binds, Bind
  <2>11. Holders'
    BY <1>3, <1>5, <2>5 DEF Lent, Holders
  <2>12. Apart'
    BY <1>7, <2>5, <2>7, <2>8, <2>10 DEF Lent, Apart
  <2>13. Ready'
    BY <2>2, <2>4 DEF Ready
  <2>14. Stopping'
    BY <1>0, <1>3, <2>2, <2>4, StoppingKeeps DEF Lent
  <2> QED BY <2>4, <2>8, <2>11, <2>12, <2>13, <2>14 DEF Lent
<1> QED BY <1>8, <1>9, <1>10

LEMMA LendLends ==
    ASSUME Lent, Types', TryDeliverHostOnSocket
    PROVE  Lent'
<1>0. agenda \in Seq(Tasks) /\ agenda # <<>> /\ Top.do = "try_deliver_host_on_socket" /\ Types
  BY DEF Lent, Types, TryDeliverHostOnSocket, Doing
<1>1. PICK m \in Mail, s \in Socket : m = Top.mail /\ s = Top.sock
  BY <1>0, TopTask DEF Tasks, ForMail, ForSocket
<1> DEFINE r == [sk[s] EXCEPT !.acquired = TRUE, !.mail = m]
           c == [NoConv EXCEPT !.sock = s, !.command = "connect", !.processing = TRUE]
<1>2. UNCHANGED pool /\ conv' = [conv EXCEPT ![m] = c] /\ sk' = [sk EXCEPT ![s] = r]
  BY <1>0, <1>1 DEF TryDeliverHostOnSocket, Types
<1>3. r.st = sk[s].st /\ r.acquired = TRUE /\ r.mail = m
  BY <1>0 DEF Types, SocketT
<1>4. c.sock = s /\ c.processing = TRUE
  BY DEF NoConv
<1>5. sk[s].st = "up" /\ ~sk[s].acquired /\ ~BoundLater(s)
  BY <1>0, <1>1 DEF Lent, Ready
<1>6. \A n \in Mail : ~Talks(n, s)
  BY <1>5 DEF Lent, Holders
<1>7. Top \in Pending
  BY <1>0, TopTask DEF Pending
<1>8. ~Pooled(s)
  <2>1. Bound(s)
    BY <1>0, <1>1, <1>7 DEF Bound, Binds, Bind
  <2> QED BY <2>1 DEF Lent, Apart
<1> HIDE DEF r, c
<1>9. sk'[s] = r /\ \A u \in Socket \ {s} : sk'[u] = sk[u]
  BY <1>0, <1>2 DEF Types
<1>10. conv'[m] = c /\ \A n \in Mail \ {m} : conv'[n] = conv[n]
  BY <1>0, <1>2 DEF Types, ConvOK
<1>11. \A n \in Mail, u \in Socket : Talks(n, u)' => Talks(n, u) \/ (n = m /\ u = s)
  BY <1>4, <1>10 DEF Talks
<1>12. \A n \in Mail, u \in Socket : Talks(n, u)' /\ Talks(n, u) => u # s
  BY <1>6
<1>13. Holders'
  BY <1>3, <1>5, <1>9, <1>11, <1>12 DEF Lent, Holders
<1>14. Once' /\ \A u \in Socket : Pooled(u)' <=> Pooled(u)
  BY <1>2, IdleSame DEF Lent
<1>15. CASE Call(<<Send(m, s, "MAIL")>>)
  <2> DEFINE t == Send(m, s, "MAIL")
  <2>1. t \in Tasks /\ t.do = "send_command" /\ ~IsLast(t)
    BY TasksMade DEF Args, Send, Task, IsLast
  <2> HIDE DEF t
  <2>2. Ordered' /\ OnTop' /\ agenda' # <<>> /\ Top' = t /\ Pending' = Rest \cup {t} /\ Rest \subseteq Pending
    BY <1>0, <1>15, <2>1, BecomesOrder DEF Lent, t
  <2>3. \A u \in Socket : Bound(u)' => Bound(u) /\ u # s
    BY <1>5, <2>1, <2>2 DEF Bound, BoundLater, Binds, Bind
  <2>4. Apart'
    BY <1>3, <1>5, <1>8, <1>9, <1>14, <2>3 DEF Lent, Apart
  <2>5. Ready'
    BY <2>1, <2>2 DEF Ready
  <2>6. \A u \in Pending' : ~Binds(u, s)
    BY <1>5, <2>1, <2>2 DEF BoundLater, Binds, Bind
  <2>7. Stopping'
    BY <1>0, <1>11, <2>1, <2>2, <2>6, StoppingKeeps DEF Lent
  <2> QED BY <1>13, <1>14, <2>2, <2>4, <2>5, <2>7 DEF Lent
<1>16. CASE Call(<<>>)
  <2>2. Ordered' /\ OnTop' /\ Ready' /\ Pending' = Rest /\ Rest \subseteq Pending
    BY <1>0, <1>16, PopsOrder DEF Lent
  <2>3. \A u \in Socket : Bound(u)' => Bound(u) /\ u # s
    BY <1>5, <2>2 DEF Bound, BoundLater
  <2>4. Apart'
    BY <1>3, <1>5, <1>8, <1>9, <1>14, <2>3 DEF Lent, Apart
  <2>6. \A u \in Pending' : ~Binds(u, s)
    BY <1>5, <2>2 DEF BoundLater
  <2>7. Stopping'
    BY <1>0, <1>11, <2>2, <2>6, StoppingKeeps DEF Lent
  <2> QED BY <1>13, <1>14, <2>2, <2>4, <2>7 DEF Lent
<1>17. Call(<<Send(m, s, "MAIL")>>) \/ Call(<<>>)
  BY <1>1 DEF TryDeliverHostOnSocket
<1> QED BY <1>15, <1>16, <1>17

LEMMA SendLends ==
    ASSUME Lent, SendCommand
    PROVE  Lent'
<1>0. agenda \in Seq(Tasks) /\ agenda # <<>> /\ Top.do = "send_command" /\ Types
  BY DEF Lent, Types, SendCommand, Doing
<1>1. PICK m \in Mail, s \in Socket : m = Top.mail /\ s = Top.sock
  BY <1>0, TopTask DEF Tasks, ForMail, ForSocket
<1>2. /\ Types' /\ UNCHANGED <<sk, pool>>
      /\ \/ Call(<<>>) /\ SameTalk
         \/ Talks(m, s) /\ EndsTalk(m) /\ Call(<<ReleaseBad(s), TryHost(m)>>)
  BY <1>0, <1>1, SendCases
<1>3. \A n \in Mail, u \in Socket : Talks(n, u)' => Talks(n, u)
  BY <1>2, TalkFalls
<1>4. \A n \in Mail, u \in Socket : StopComes(n, u) => n = m /\ u = s /\ 2 \in DOMAIN agenda /\ agenda[2] = Stop(n, u)
  <2>1. Top = agenda[1]
    BY <1>0, TopTask
  <2>2. \A n \in Mail, u \in Socket : Stop(n, u).do = "stop"
    BY DEF Stop, Task
  <2> QED BY <1>0, <1>1, <2>1, <2>2 DEF StopComes
<1>5. CASE Call(<<>>) /\ SameTalk
  <2>1. Ordered' /\ OnTop' /\ Ready' /\ Pending' = Rest /\ Rest \subseteq Pending
    BY <1>0, <1>5, PopsOrder DEF Lent
  <2>2. \A u \in Socket : Bound(u)' => Bound(u)
    BY <2>1 DEF Bound
  <2>3. Holders' /\ Apart' /\ Once'
    BY <1>2, <1>5, <2>2, Calm
  <2>4. 2 \in DOMAIN agenda => agenda'[1] = agenda[2]
    <3>1. Len(agenda') = Len(agenda) - 1 /\ \A i \in DOMAIN agenda' : agenda'[i] = agenda[i + 1] /\ agenda' \in Seq(Tasks)
      BY <1>0, <1>5, Pops
    <3> QED BY <1>0, <1>2, <3>1 DEF Types
  <2>5. Stopping'
    <3> SUFFICES ASSUME NEW n \in Mail, NEW u \in Socket, Talks(n, u)', NEW t \in Pending', t.sock = u
                 PROVE  /\ t.do = "finish_processing_mail" => t.mail = n
                        /\ t.do = "release_client" => StopComes(n, u)'
      BY DEF Stopping
    <3>1. Talks(n, u) /\ t \in Pending
      BY <1>3, <2>1
    <3>2. /\ t.do = "finish_processing_mail" => t.mail = n
          /\ t.do = "release_client" => StopComes(n, u)
      BY <3>1 DEF Lent, Stopping
    <3>3. StopComes(n, u) => StopComes(n, u)'
      BY <1>4, <2>4 DEF StopComes
    <3> QED BY <3>2, <3>3
  <2> QED BY <1>2, <2>1, <2>3, <2>5 DEF Lent
<1>6. CASE Talks(m, s) /\ EndsTalk(m) /\ Call(<<ReleaseBad(s), TryHost(m)>>)
  <2> DEFINE t == ReleaseBad(s)
             v == TryHost(m)
  <2>1. /\ t \in Tasks /\ t.do = "release_client" /\ t.sock = s /\ t.arg = "error"
        /\ v \in Tasks /\ v.do = "try_deliver_host" /\ v.sock = None
    BY TasksMade DEF ReleaseBad, TryHost, Task
  <2>2. ~IsLast(t) /\ ~IsLast(v)
    BY <2>1 DEF IsLast
  <2> HIDE DEF t, v
  <2>3. /\ Ordered' /\ OnTop' /\ agenda' # <<>> /\ Top' = t /\ Pending' = Rest \cup {t, v}
        /\ Rest \subseteq Pending
    BY <1>0, <1>6, <2>1, <2>2, GrowsOrder DEF Lent, t, v
  <2>4. sk[s].acquired /\ sk[s].mail = m
    BY <1>6 DEF Lent, Holders
  <2>5. \A u \in Socket : Bound(u)' => Bound(u) \/ sk[u].acquired
    BY <2>1, <2>3, <2>4 DEF Bound, Binds, Bind
  <2>6. Holders' /\ Apart' /\ Once'
    BY <1>2, <1>6, <2>5, Calm
  <2>7. Ready'
    BY <2>1, <2>3 DEF Ready
  <2>8. \A n \in Mail : ~Talks(n, s)'
    <3>1. \A n \in Mail : Talks(n, s) => n = m
      BY <2>4 DEF Lent, Holders
    <3> QED BY <1>3, <1>6, <3>1, TalkEnds
  <2>9. Stopping'
    <3> SUFFICES ASSUME NEW n \in Mail, NEW u \in Socket, Talks(n, u)', NEW w \in Pending', w.sock = u,
                        w.do \in {"finish_processing_mail", "release_client"}
                 PROVE  w.do = "finish_processing_mail" /\ w.mail = n
      BY DEF Stopping
    <3>1. Talks(n, u) /\ u # s
      BY <1>3, <2>8
    <3>2. w \in Pending
      BY <2>1, <2>3, <3>1
    <3>3. ~StopComes(n, u)
      BY <1>4, <3>1
    <3> QED BY <3>1, <3>2, <3>3 DEF Lent, Stopping
  <2> QED BY <1>2, <2>3, <2>6, <2>7, <2>9 DEF Lent
<1> QED BY <1>2, <1>5, <1>6

LEMMA DecidesLends ==
    ASSUME Lent, Decides
    PROVE  Lent'
<1>0. agenda \in Seq(Tasks) /\ agenda # <<>> /\ Top.do \in {"decide", "stop"} /\ Types
  BY DEF Lent, Types, Decides, Doing
<1>1. /\ Types' /\ UNCHANGED <<sk, pool>> /\ Call(<<>>) /\ Top.mail \in Mail
      /\ SameTalk \/ \E n \in Mail : EndsTalk(n)
      /\ Top.do = "stop" /\ conv[Top.mail].sock = Top.sock => EndsTalk(Top.mail)
  BY <1>0, DecidesCases
<1>2. \A n \in Mail, u \in Socket : Talks(n, u)' => Talks(n, u)
  BY <1>1, TalkFalls
<1>3. Ordered' /\ OnTop' /\ Ready' /\ Pending' = Rest /\ Rest \subseteq Pending
  BY <1>0, <1>1, PopsOrder DEF Lent
<1>4. \A u \in Socket : Bound(u)' => Bound(u)
  BY <1>3 DEF Bound
<1>5. Holders' /\ Apart' /\ Once'
  BY <1>1, <1>4, Calm
<1>6. \A n \in Mail, u \in Socket : Talks(n, u)' => ~StopComes(n, u)
  <2> SUFFICES ASSUME NEW n \in Mail, NEW u \in Socket, Talks(n, u)', StopComes(n, u) PROVE FALSE
    OBVIOUS
  <2>1. Top = agenda[1]
    BY <1>0, TopTask
  <2>2. Top = Stop(n, u)
    BY <1>0, <2>1 DEF StopComes
  <2>3. Top.do = "stop" /\ Top.mail = n /\ Top.sock = u
    BY <2>2 DEF Stop, Task
  <2>4. conv[n].sock = u
    BY <1>2 DEF Talks
  <2>5. ~Talks(n, u)'
    BY <1>1, <2>3, <2>4, TalkEnds
  <2> QED BY <2>5
<1>7. Stopping'
  <2> SUFFICES ASSUME NEW n \in Mail, NEW u \in Socket, Talks(n, u)', NEW w \in Pending', w.sock = u,
                      w.do \in {"finish_processing_mail", "release_client"}
               PROVE  w.do = "finish_processing_mail" /\ w.mail = n
    BY DEF Stopping
  <2>1. Talks(n, u) /\ ~StopComes(n, u) /\ w \in Pending
    BY <1>2, <1>3, <1>6
  <2> QED BY <2>1 DEF Lent, Stopping
<1> QED BY <1>1, <1>3, <1>5, <1>7 DEF Lent

LEMMA FinishLends ==
    ASSUME Lent, FinishProcessingMail
    PROVE  Lent'
<1>0. agenda \in Seq(Tasks) /\ agenda # <<>> /\ Top.do = "finish_processing_mail" /\ Types
  BY DEF Lent, Types, FinishProcessingMail, Doing
<1>1. PICK m \in Mail, s \in Socket : m = Top.mail /\ s = Top.sock
  BY <1>0, TopTask DEF Tasks, ForMail, ForSocket
<1>2. /\ Types' /\ UNCHANGED <<sk, pool>>
      /\ \/ Call(<<>>) /\ SameTalk
         \/ EndsTalk(m) /\ Call(<<Release(s)>>)
  BY <1>0, <1>1, FinishCases
<1>3. \A n \in Mail, u \in Socket : Talks(n, u)' => Talks(n, u)
  BY <1>2, TalkFalls
<1>4. Top \in Pending /\ Top = agenda[1] /\ 1 \in DOMAIN agenda
  BY <1>0, TopTask DEF Pending
<1>5. CASE Call(<<>>) /\ SameTalk
  <2>1. Ordered' /\ OnTop' /\ Ready' /\ Pending' = Rest /\ Rest \subseteq Pending
    BY <1>0, <1>5, PopsOrder DEF Lent
  <2>2. \A u \in Socket : Bound(u)' => Bound(u)
    BY <2>1 DEF Bound
  <2>3. Holders' /\ Apart' /\ Once'
    BY <1>2, <1>5, <2>2, Calm
  <2>4. Stopping'
    BY <1>0, <1>3, <2>1, StoppingKeeps DEF Lent
  <2> QED BY <1>2, <2>1, <2>3, <2>4 DEF Lent
<1>6. CASE EndsTalk(m) /\ Call(<<Release(s)>>)
  <2> DEFINE t == Release(s)
  <2>1. t \in Tasks /\ t.do = "release_client" /\ t.sock = s
    BY TasksMade DEF Release, Task
  <2>2. ~BoundLater(s)
    <3>1. IsLast(agenda[1]) /\ agenda[1].sock = s
      BY <1>0, <1>1, <1>4 DEF IsLast
    <3>2. \A j \in DOMAIN agenda \ {1} : 1 < j
      BY <1>0
    <3> QED BY <1>4, <3>1, <3>2 DEF Lent, Ordered, BoundLater, Rest
  <2> HIDE DEF t
  <2>3. /\ Ordered' /\ OnTop' /\ agenda' # <<>> /\ Top' = t /\ Pending' = Rest \cup {t}
        /\ Rest \subseteq Pending
    BY <1>0, <1>6, <2>1, <2>2, BecomesOrder DEF Lent, t
  <2>4. \A u \in Socket : Bound(u)' => Bound(u)
    <3>1. Bound(s)
      BY <1>0, <1>1, <1>4 DEF Bound, Binds, Bind
    <3> QED BY <2>1, <2>3, <3>1 DEF Bound, Binds
  <2>5. Holders' /\ Apart' /\ Once'
    BY <1>2, <1>6, <2>4, Calm
  <2>6. Ready'
    BY <2>1, <2>3 DEF Ready
  <2>7. \A n \in Mail : ~Talks(n, s)'
    <3>1. \A n \in Mail : Talks(n, s) => n = m
      BY <1>0, <1>1, <1>4 DEF Lent, Stopping
    <3> QED BY <1>3, <1>6, <3>1, TalkEnds
  <2>8. Stopping'
    BY <1>0, <1>3, <2>1, <2>3, <2>7, StoppingKeeps DEF Lent
  <2> QED BY <1>2, <2>3, <2>5, <2>6, <2>8 DEF Lent
<1> QED BY <1>2, <1>5, <1>6

\* What an event leaves on the agenda, which was empty.
LEMMA FreshNone ==
    ASSUME agenda' = <<>>
    PROVE  Pending' = {} /\ OnTop' /\ Ordered' /\ Ready' /\ Stopping'
<1>1. DOMAIN agenda' = {}
  OBVIOUS
<1>2. Pending' = {} /\ Rest' = {}
  BY <1>1 DEF Pending, Rest
<1> QED BY <1>1, <1>2 DEF OnTop, Ordered, Ready, Stopping

LEMMA FreshOne ==
    ASSUME NEW t \in Tasks, agenda' = <<t>>
    PROVE  agenda' # <<>> /\ Pending' = {t} /\ Rest' = {} /\ Top' = t /\ OnTop' /\ Ordered'
<1>1. DOMAIN agenda' = {1} /\ agenda'[1] = t /\ agenda' # <<>> /\ Head(agenda') = t
  OBVIOUS
<1>2. Pending' = {t} /\ Rest' = {}
  BY <1>1 DEF Pending, Rest
<1> QED BY <1>1, <1>2 DEF OnTop, Ordered, Top

LEMMA FreshTwo ==
    ASSUME NEW t \in Tasks, NEW u \in Tasks, agenda' = <<t, u>>,
           u.do \notin {"try_deliver_host_on_socket", "destroy"}, ~(IsLast(t) /\ Binds(u, t.sock))
    PROVE  agenda' # <<>> /\ Pending' = {t, u} /\ Top' = t /\ OnTop' /\ Ordered'
<1>1. DOMAIN agenda' = {1, 2} /\ agenda'[1] = t /\ agenda'[2] = u /\ agenda' # <<>> /\ Head(agenda') = t
  OBVIOUS
<1>2. Pending' = {t, u} /\ Rest' = {u}
  BY <1>1 DEF Pending, Rest
<1>3. Ordered'
  <2> SUFFICES ASSUME NEW i \in {1, 2}, NEW j \in {1, 2}, i < j, IsLast(agenda'[i])
               PROVE  ~Binds(agenda'[j], agenda'[i].sock)
    BY <1>1 DEF Ordered
  <2>1. i = 1 /\ j = 2
    OBVIOUS
  <2> QED BY <1>1, <2>1
<1> QED BY <1>1, <1>2, <1>3 DEF OnTop, Top

LEMMA StoppingFresh ==
    ASSUME \A t \in Pending' :
              \/ t.do \notin {"release_client", "finish_processing_mail"}
              \/ \A m \in Mail : ~Talks(m, t.sock)'
              \/ t.do = "finish_processing_mail" /\ \A m \in Mail : Talks(m, t.sock)' => t.mail = m
    PROVE  Stopping'
  BY DEF Stopping

\* The conversation that is written on the socket is the only one there.
LEMMA OneTalks ==
    ASSUME Lent, NEW m \in Mail, NEW s \in Socket, Talks(m, s)
    PROVE  sk[s].acquired /\ sk[s].mail = m /\ \A n \in Mail : Talks(n, s) => n = m
  BY DEF Lent, Holders

LEMMA ReplyLends ==
    ASSUME Lent, NEW s \in Socket, ReadReply(s)
    PROVE  Lent'
<1>0. Types /\ Types' /\ UNCHANGED <<sk, pool>> /\ agenda = <<>>
  BY ReplyCases DEF Lent
<1>1. CASE agenda' = <<>> /\ UNCHANGED conv
  <2>1. Pending' = {} /\ OnTop' /\ Ordered' /\ Ready' /\ Stopping'
    BY <1>1, FreshNone
  <2>2. \A u \in Socket : ~Bound(u)'
    BY <2>1 DEF Bound
  <2>3. SameTalk
    BY <1>0, <1>1, NoChange DEF Types
  <2> QED BY <1>0, <2>1, <2>2, <2>3, Calm DEF Lent
<1>2. ASSUME NEW m \in Mail, Talks(m, s),
             SameTalk \/ EndsTalk(m), OnTop', Ordered', Ready', Stopping', \A t \in Pending' : t.sock \in {s, None}
      PROVE  Lent'
  <2>1. \A u \in Socket : Bound(u)' => sk[u].acquired
    <3>1. \A u \in Socket : u # None
      BY NoneIsNone
    <3> QED BY <1>2, <3>1, OneTalks DEF Bound, Binds
  <2>2. Holders' /\ Apart' /\ Once'
    BY <1>0, <1>2, <2>1, Calm
  <2> QED BY <1>0, <1>2, <2>2 DEF Lent
<1>3. ASSUME NEW m \in Mail, Talks(m, s), EndsTalk(m), agenda' = <<Release(s), Decide(m, "bounce")>>
      PROVE  Lent'
  <2> DEFINE t == Release(s)
             u == Decide(m, "bounce")
  <2>1. t \in Tasks /\ u \in Tasks /\ t.do = "release_client" /\ t.sock = s /\ u.do = "decide" /\ u.sock = None
    BY TasksMade DEF Args, Release, Decide, Task
  <2> HIDE DEF t, u
  <2>2. agenda' # <<>> /\ Pending' = {t, u} /\ Top' = t /\ OnTop' /\ Ordered'
    BY <1>3, <2>1, FreshTwo DEF Binds, Bind, t, u
  <2>3. Ready'
    BY <2>1, <2>2 DEF Ready
  <2>4. \A n \in Mail : ~Talks(n, s)'
    BY <1>3, OneTalks, TalkEnds, TalkFalls
  <2>5. Stopping'
    BY <2>1, <2>2, <2>4, StoppingFresh
  <2> QED BY <1>2, <1>3, <2>1, <2>2, <2>3, <2>5
<1>4. ASSUME NEW m \in Mail, Talks(m, s), SameTalk, NEW how \in {"bounce", "temp_fail"},
             agenda' = <<Send(m, s, "RSET"), Stop(m, s), Release(s), Decide(m, how)>>
      PROVE  Lent'
  <2> DEFINE t1 == Send(m, s, "RSET")
             t2 == Stop(m, s)
             t3 == Release(s)
             t4 == Decide(m, how)
  <2>1. /\ t1.do = "send_command" /\ t1.sock = s /\ t1.mail = m
        /\ t2.do = "stop" /\ t2.sock = s /\ t2 = Stop(m, s)
        /\ t3.do = "release_client" /\ t3.sock = s
        /\ t4.do = "decide" /\ t4.sock = None
    BY DEF Send, Stop, Release, Decide, Task
  <2> HIDE DEF t1, t2, t3, t4
  <2>2. /\ agenda' # <<>> /\ DOMAIN agenda' = {1, 2, 3, 4} /\ Head(agenda') = t1
        /\ agenda'[1] = t1 /\ agenda'[2] = t2 /\ agenda'[3] = t3 /\ agenda'[4] = t4
    BY <1>4 DEF t1, t2, t3, t4
  <2>3. Pending' = {t1, t2, t3, t4} /\ Rest' = {t2, t3, t4}
    BY <2>2 DEF Pending, Rest
  <2>4. OnTop' /\ Ready'
    BY <2>1, <2>2, <2>3 DEF OnTop, Ready, Top
  <2>5. Ordered'
    <3> SUFFICES ASSUME NEW i \in {1, 2, 3, 4}, NEW j \in {1, 2, 3, 4}, i < j, IsLast(agenda'[i])
                 PROVE  ~Binds(agenda'[j], agenda'[i].sock)
      BY <2>2 DEF Ordered
    <3>1. i \notin {1, 2, 4}
      BY <2>1, <2>2 DEF IsLast
    <3>2. j = 4
      BY <3>1
    <3> QED BY <2>1, <2>2, <3>2 DEF Binds, Bind
  <2>6. StopComes(m, s)'
    BY <2>1, <2>2 DEF StopComes
  <2>7. \A n \in Mail : Talks(n, s)' => n = m
    BY <1>4, OneTalks, TalkFalls
  <2>8. Stopping'
    BY <2>1, <2>3, <2>6, <2>7, NoneIsNone DEF Stopping
  <2> QED BY <1>2, <1>4, <2>1, <2>3, <2>4, <2>5, <2>8
<1>5. ASSUME NEW m \in Mail, Talks(m, s), SameTalk, agenda' = <<>>
      PROVE  Lent'
  BY <1>2, <1>5, FreshNone
<1>6. ASSUME NEW m \in Mail, Talks(m, s), SameTalk, NEW a \in Args, agenda' = <<Send(m, s, a)>>
      PROVE  Lent'
  <2> DEFINE t == Send(m, s, a)
  <2>1. t \in Tasks /\ t.do = "send_command" /\ t.sock = s
    BY TasksMade DEF Send, Task
  <2> HIDE DEF t
  <2>2. agenda' # <<>> /\ Pending' = {t} /\ Top' = t /\ OnTop' /\ Ordered'
    BY <1>6, <2>1, FreshOne DEF t
  <2>3. Ready' /\ Stopping'
    BY <2>1, <2>2, StoppingFresh DEF Ready
  <2> QED BY <1>2, <1>6, <2>1, <2>2, <2>3
<1>7. ASSUME NEW m \in Mail, Talks(m, s), SameTalk, NEW how \in {"delivered", "discarded"},
             \/ agenda' = <<Send(m, s, "RSET"), Finish(m, s, how)>>
             \/ agenda' = <<Finish(m, s, how), Send(m, s, "RSET")>>
             \/ agenda' = <<Finish(m, s, how)>>
      PROVE  Lent'
  <2> DEFINE t == Send(m, s, "RSET")
             u == Finish(m, s, how)
  <2>1. /\ t \in Tasks /\ t.do = "send_command" /\ t.sock = s
        /\ u \in Tasks /\ u.do = "finish_processing_mail" /\ u.sock = s /\ u.mail = m
    BY TasksMade DEF Args, Send, Finish, Task
  <2> HIDE DEF t, u
  <2>2. /\ agenda' # <<>> /\ Pending' \subseteq {t, u} /\ Top' \in {t, u} /\ OnTop' /\ Ordered'
    <3>1. CASE agenda' = <<t, u>>
      BY <2>1, <3>1, FreshTwo DEF IsLast
    <3>2. CASE agenda' = <<u, t>>
      BY <2>1, <3>2, FreshTwo DEF Binds, Bind
    <3>3. CASE agenda' = <<u>>
      BY <2>1, <3>3, FreshOne
    <3> QED BY <1>7, <3>1, <3>2, <3>3 DEF t, u
  <2>3. Ready'
    BY <2>1, <2>2 DEF Ready
  <2>4. \A n \in Mail : Talks(n, s)' => n = m
    BY <1>7, OneTalks, TalkFalls
  <2>5. Stopping'
    BY <2>1, <2>2, <2>4, StoppingFresh
  <2>6. \A w \in Pending' : w.sock \in {s, None}
    BY <2>1, <2>2
  <2> QED BY <1>2, <1>7, <2>2, <2>3, <2>5, <2>6
<1> QED BY <1>0, <1>1, <1>3, <1>4, <1>5, <1>6, <1>7, ReplyCases

\* An event after which one call is to be made, about no socket.
LEMMA StartLends ==
    ASSUME Lent, NEW m \in Mail, Start(m) \/ \E st \in streams : StreamEnds(st[1], st[2])
    PROVE  Lent'
<1>0. Types /\ Types' /\ UNCHANGED <<sk, pool>> /\ SameTalk
  <2>1. ASSUME Start(m) PROVE Types' /\ SameTalk
    <3>1. UNCHANGED conv
      BY <2>1 DEF Start
    <3> QED BY <2>1, <3>1, StartTypes, NoChange DEF Lent, Types
  <2>2. ASSUME NEW st \in streams, StreamEnds(st[1], st[2]) PROVE Types' /\ SameTalk
    BY <2>2, StreamTypes DEF Lent
  <2>3. UNCHANGED <<sk, pool>>
    BY DEF Start, StreamEnds
  <2> QED BY <2>1, <2>2, <2>3 DEF Lent
<1>1. \E t \in Tasks : t.do \in {"try_deliver_host", "send_command"} /\ agenda' = <<t>>
  <2>1. ASSUME Start(m) PROVE \E t \in Tasks : t.do \in {"try_deliver_host", "send_command"} /\ agenda' = <<t>>
    <3>1. agenda' = <<TryHost(m)>> /\ TryHost(m) \in Tasks /\ TryHost(m).do = "try_deliver_host"
      BY <2>1, TasksMade DEF Start, TryHost, Task
    <3> QED BY <3>1
  <2>2. ASSUME NEW st \in streams, StreamEnds(st[1], st[2])
        PROVE  \E t \in Tasks : t.do \in {"try_deliver_host", "send_command"} /\ agenda' = <<t>>
    <3>1. st[1] \in Mail /\ st[2] \in Socket /\ agenda' = <<Send(st[1], st[2], "DOT")>>
      BY <2>2, StreamTypes DEF Lent
    <3>2. Send(st[1], st[2], "DOT") \in Tasks /\ Send(st[1], st[2], "DOT").do = "send_command"
      BY <3>1, TasksMade DEF Args, Send, Task
    <3> QED BY <3>1, <3>2
  <2> QED BY <2>1, <2>2
<1>2. PICK t \in Tasks : t.do \in {"try_deliver_host", "send_command"} /\ agenda' = <<t>>
  BY <1>1
<1>3. agenda' # <<>> /\ Pending' = {t} /\ Top' = t /\ OnTop' /\ Ordered'
  BY <1>2, FreshOne
<1>4. Ready' /\ Stopping'
  BY <1>2, <1>3, StoppingFresh DEF Ready
<1>5. \A u \in Socket : ~Bound(u)'
  BY <1>2, <1>3 DEF Bound, Binds, Bind
<1>6. Holders' /\ Apart' /\ Once'
  BY <1>0, <1>5, Calm
<1> QED BY <1>0, <1>3, <1>4, <1>6 DEF Lent

LEMMA ConnectedLends ==
    ASSUME Lent, NEW s \in Socket, Connected(s)
    PROVE  Lent'
<1> DEFINE r == [sk[s] EXCEPT !.st = "up"]
<1>0. Types /\ Types' /\ UNCHANGED conv
  BY ConnectedTypes DEF Connected, Lent
<1>1. sk[s].st = "connecting" /\ sk' = [sk EXCEPT ![s] = r]
  BY <1>0 DEF Connected, Types
<1>2. PICK p \in Pool : p = sk[s].pool
  BY <1>0, <1>1 DEF Types
<1>3. r.st = "up" /\ r.acquired = sk[s].acquired
  BY <1>0 DEF Types, SocketT
<1> HIDE DEF r
<1>4. sk'[s] = r /\ \A u \in Socket \ {s} : sk'[u] = sk[u]
  BY <1>0, <1>1 DEF Types
<1>5. ~sk[s].acquired /\ ~Pooled(s) /\ \A m \in Mail : ~Talks(m, s)
  BY <1>1 DEF Lent, Apart, Holders
<1>6. \A m \in Mail, u \in Socket : Talks(m, u)' <=> Talks(m, u)
  BY <1>0 DEF Talks
<1>7. Holders'
  BY <1>4, <1>5, <1>6 DEF Lent, Holders
<1>8. pool[p] \in PoolT
  BY <1>0 DEF Types
<1>9. CASE pool[p].waiting # <<>>
  <2>1. PICK m \in Mail : m = Head(pool[p].waiting)
    BY <1>8, <1>9 DEF PoolT
  <2> DEFINE t == OnSocket(m, s)
             q == [pool[p] EXCEPT !.waiting = Tail(pool[p].waiting)]
  <2>2. pool' = [pool EXCEPT ![p] = q] /\ agenda' = <<t>>
    BY <1>0, <1>2, <1>9, <2>1 DEF Connected, Types
  <2>3. t \in Tasks /\ t.do = "try_deliver_host_on_socket" /\ t.sock = s
    BY TasksMade DEF OnSocket, Task
  <2>4. q.idle = pool[p].idle
    BY <1>8 DEF PoolT
  <2> HIDE DEF t, q
  <2>5. \A g \in Pool : pool'[g].idle = pool[g].idle
    BY <1>0, <2>2, <2>4 DEF Types
  <2>6. Once' /\ \A u \in Socket : Pooled(u)' <=> Pooled(u)
    BY <2>5, IdleSame DEF Lent
  <2>7. agenda' # <<>> /\ Pending' = {t} /\ Rest' = {} /\ Top' = t /\ OnTop' /\ Ordered'
    BY <2>2, <2>3, FreshOne
  <2>8. \A u \in Socket : Bound(u)' => u = s
    BY <2>3, <2>7 DEF Bound, Binds
  <2>9. Apart'
    BY <1>3, <1>4, <1>5, <2>6, <2>8 DEF Lent, Apart
  <2>10. Ready'
    BY <1>3, <1>4, <1>5, <2>3, <2>7 DEF Ready, BoundLater
  <2>11. Stopping'
    BY <2>3, <2>7, StoppingFresh
  <2> QED BY <1>0, <1>7, <2>6, <2>7, <2>9, <2>10, <2>11 DEF Lent
<1>10. CASE pool[p].waiting = <<>>
  <2> DEFINE t == Dispense(p)
             q == [pool[p] EXCEPT !.idle = Append(pool[p].idle, s)]
  <2>2. pool' = [pool EXCEPT ![p] = q] /\ agenda' = <<t>>
    BY <1>0, <1>2, <1>10 DEF Connected, Types
  <2>3. t \in Tasks /\ t.do = "dispense"
    BY TasksMade DEF Dispense, Task
  <2>4. q.idle = Append(pool[p].idle, s)
    BY <1>8 DEF PoolT
  <2> HIDE DEF t, q
  <2>5. pool'[p].idle = Append(pool[p].idle, s) /\ \A g \in Pool \ {p} : pool'[g].idle = pool[g].idle
    BY <1>0, <2>2, <2>4 DEF Types
  <2>6. Once' /\ \A u \in Socket : Pooled(u)' => Pooled(u) \/ u = s
    BY <1>0, <1>5, <2>5, IdleMore DEF Lent
  <2>7. agenda' # <<>> /\ Pending' = {t} /\ Top' = t /\ OnTop' /\ Ordered'
    BY <2>2, <2>3, FreshOne
  <2>8. \A u \in Socket : ~Bound(u)'
    BY <2>3, <2>7 DEF Bound, Binds, Bind
  <2>9. Apart'
    BY <1>3, <1>4, <1>5, <2>6, <2>8 DEF Lent, Apart
  <2>10. Ready'
    BY <2>3, <2>7 DEF Ready
  <2>11. Stopping'
    BY <2>3, <2>7, StoppingFresh
  <2> QED BY <1>0, <1>7, <2>6, <2>7, <2>9, <2>10, <2>11 DEF Lent
<1> QED BY <1>9, <1>10

LEMMA FailLends ==
    ASSUME Lent, NEW s \in Socket, ConnectFails(s) \/ TimesOut(s)
    PROVE  Lent'
<1> DEFINE r1 == [NoSocket EXCEPT !.st = "gone"]
           r2 == [sk[s] EXCEPT !.st = "ended"]
<1>0. /\ Types /\ Types' /\ SameTalk
      /\ \A u \in Socket \ {s} : sk'[u] = sk[u]
      /\ \/ sk[s].st = "connecting" /\ sk'[s] = r1
         \/ sk[s].st = "up" /\ sk'[s] = r2
  BY FailTypes DEF Lent
<1>1. r1.st = "gone" /\ r1.acquired = FALSE /\ r2.st = "ended" /\ r2.acquired = sk[s].acquired /\ r2.mail = sk[s].mail
  BY <1>0 DEF NoSocket, Types, SocketT
<1> HIDE DEF r1, r2
<1>2. \A m \in Mail, u \in Socket : Talks(m, u)' => Talks(m, u)
  BY <1>0, TalkFalls
<1>3. Holders'
  BY <1>0, <1>1, <1>2 DEF Lent, Holders
<1>4. PICK p \in Pool : p = sk[s].pool /\ CreateFails(p)
  BY FailTypes DEF Lent
<1>5. /\ \A g \in Pool : pool'[g].idle = pool[g].idle
      /\ \/ agenda' = <<Dispense(p)>>
         \/ \E m \in Mail : agenda' = <<TryHost(m), Dispense(p)>>
  <2>1. pool[p].waiting # <<>> => Head(pool[p].waiting) \in Mail
    BY <1>0 DEF Types, PoolT
  <2>2. \A g \in Pool \ {p} : pool'[g] = pool[g]
    BY <1>0, <1>4, CreateFailsCases
  <2> QED BY <1>0, <1>4, <2>1, CreateFailsCases
<1>6. Once' /\ \A u \in Socket : Pooled(u)' <=> Pooled(u)
  BY <1>5, IdleSame DEF Lent
<1>7. /\ agenda' # <<>> /\ OnTop' /\ Ordered' /\ Top' \in Pending'
      /\ \A t \in Pending' : t.do \in {"dispense", "try_deliver_host"}
  <2> DEFINE d == Dispense(p)
  <2>1. d \in Tasks /\ d.do = "dispense"
    BY TasksMade DEF Dispense, Task
  <2>2. \A m \in Mail : TryHost(m) \in Tasks /\ TryHost(m).do = "try_deliver_host"
    BY TasksMade DEF TryHost, Task
  <2> HIDE DEF d
  <2>3. CASE agenda' = <<d>>
    BY <2>1, <2>3, FreshOne
  <2>4. ASSUME NEW m \in Mail, agenda' = <<TryHost(m), d>>
        PROVE  /\ agenda' # <<>> /\ OnTop' /\ Ordered' /\ Top' \in Pending'
               /\ \A t \in Pending' : t.do \in {"dispense", "try_deliver_host"}
    BY <2>1, <2>2, <2>4, FreshTwo DEF IsLast
  <2> QED BY <1>5, <2>3, <2>4 DEF d
<1>8. \A u \in Socket : ~Bound(u)'
  BY <1>7 DEF Bound, Binds, Bind
<1>9. Apart'
  BY <1>0, <1>1, <1>6, <1>8 DEF Lent, Apart
<1>10. Ready'
  BY <1>7 DEF Ready
<1>11. Stopping'
  BY <1>7, StoppingFresh
<1> QED BY <1>0, <1>3, <1>6, <1>7, <1>9, <1>10, <1>11 DEF Lent

LEMMA ClosedLends ==
    ASSUME Lent, NEW s \in Socket, Closed(s)
    PROVE  Lent'
<1>0. /\ Types /\ Types' /\ UNCHANGED pool
      /\ sk[s].st \in {"up", "ended"}
      /\ \A u \in Socket \ {s} : sk'[u] = sk[u]
  BY ClosedCases DEF Lent
<1>1. sk'[s].st \in {"closed", "gone"} /\ sk'[s].acquired = sk[s].acquired
  <2>1. PICK st \in {"closed", "gone"} : sk'[s] = [sk[s] EXCEPT !.st = st]
    BY ClosedCases DEF Lent
  <2> QED BY <1>0, <2>1 DEF Types, SocketT
<1>2. Once' /\ \A u \in Socket : Pooled(u)' <=> Pooled(u)
  BY <1>0, IdleSame DEF Lent
<1>3. ASSUME \A m \in Mail, u \in Socket : Talks(m, u)' => Talks(m, u) /\ u # s,
             \A u \in Socket : Bound(u)' => sk[u].acquired
      PROVE  Holders' /\ Apart'
  <2>1. Holders'
    BY <1>0, <1>3 DEF Lent, Holders
  <2>2. Apart'
    BY <1>0, <1>1, <1>2, <1>3 DEF Lent, Apart
  <2> QED BY <2>1, <2>2
<1>4. ASSUME NEW m \in Mail, m = sk[s].mail, Talks(m, s), EndsTalk(m), agenda' = <<ReleaseBad(s), TryHost(m)>>
      PROVE  Lent'
  <2> DEFINE t == ReleaseBad(s)
             v == TryHost(m)
  <2>1. /\ t \in Tasks /\ t.do = "release_client" /\ t.sock = s /\ t.arg = "error"
        /\ v \in Tasks /\ v.do = "try_deliver_host" /\ v.sock = None
    BY TasksMade DEF ReleaseBad, TryHost, Task
  <2>2. ~IsLast(t)
    BY <2>1 DEF IsLast
  <2> HIDE DEF t, v
  <2>3. agenda' # <<>> /\ Pending' = {t, v} /\ Top' = t /\ OnTop' /\ Ordered'
    BY <1>4, <2>1, <2>2, FreshTwo DEF t, v
  <2>4. Ready'
    BY <2>1, <2>3 DEF Ready
  <2>5. \A n \in Mail, u \in Socket : Talks(n, u)' => Talks(n, u) /\ u # s
    BY <1>4, OneTalks, TalkFalls, TalkEnds
  <2>6. \A u \in Socket : Bound(u)' => sk[u].acquired
    <3>1. sk[s].acquired
      BY <1>4, OneTalks
    <3> QED BY <2>1, <2>3, <3>1 DEF Bound, Binds, Bind
  <2>7. Stopping'
    BY <2>1, <2>3, <2>5, StoppingFresh
  <2> QED BY <1>0, <1>2, <1>3, <2>3, <2>4, <2>5, <2>6, <2>7 DEF Lent
<1>5. ASSUME ~Talks(sk[s].mail, s), SameTalk,
             agenda' = <<>> \/ (Pooled(s) /\ notes \in Pool /\ agenda' = <<Destroy(s, notes)>>)
      PROVE  Lent'
  <2>1. \A m \in Mail : ~Talks(m, s)
    BY <1>5 DEF Lent, Holders
  <2>2. \A m \in Mail, u \in Socket : Talks(m, u)' => Talks(m, u) /\ u # s
    BY <1>5, <2>1, TalkFalls
  <2>3. CASE agenda' = <<>>
    <3>1. Pending' = {} /\ OnTop' /\ Ordered' /\ Ready' /\ Stopping'
      BY <2>3, FreshNone
    <3>2. \A u \in Socket : ~Bound(u)'
      BY <3>1 DEF Bound
    <3> QED BY <1>0, <1>2, <1>3, <2>2, <3>1, <3>2 DEF Lent
  <2>4. CASE notes \in Pool /\ agenda' = <<Destroy(s, notes)>>
    <3> DEFINE t == Destroy(s, notes)
    <3>1. t \in Tasks /\ t.do = "destroy" /\ t.sock = s
      BY <2>4, TasksMade DEF Destroy, Task
    <3> HIDE DEF t
    <3>2. agenda' # <<>> /\ Pending' = {t} /\ Top' = t /\ OnTop' /\ Ordered'
      BY <2>4, <3>1, FreshOne DEF t
    <3>3. \A u \in Socket : ~Bound(u)'
      BY <3>1, <3>2 DEF Bound, Binds, Bind
    <3>4. Ready'
      BY <2>2, <3>1, <3>2 DEF Ready
    <3>5. Stopping'
      BY <3>1, <3>2, StoppingFresh
    <3> QED BY <1>0, <1>2, <1>3, <2>2, <3>2, <3>3, <3>4, <3>5 DEF Lent
  <2> QED BY <1>5, <2>3, <2>4
<1> QED BY <1>0, <1>4, <1>5, ClosedCases

LEMMA IdleTimeoutLends ==
    ASSUME Lent, NEW s \in Socket, IdleTimeout(s)
    PROVE  Lent'
<1>0. Types /\ Types' /\ UNCHANGED <<sk, pool>> /\ SameTalk /\ Pooled(s)
  BY IdleTimeoutCases DEF Lent
<1>1. PICK p \in Pool : agenda' = <<Destroy(s, p)>>
  BY IdleTimeoutCases DEF Lent
<1> DEFINE t == Destroy(s, p)
<1>2. t \in Tasks /\ t.do = "destroy" /\ t.sock = s
  BY TasksMade DEF Destroy, Task
<1> HIDE DEF t
<1>3. agenda' # <<>> /\ Pending' = {t} /\ Top' = t /\ OnTop' /\ Ordered'
  BY <1>1, <1>2, FreshOne DEF t
<1>4. \A u \in Socket : ~Bound(u)'
  BY <1>2, <1>3 DEF Bound, Binds, Bind
<1>5. Holders' /\ Apart' /\ Once'
  BY <1>0, <1>4, Calm
<1>6. Ready'
  <2>1. \A m \in Mail : ~Talks(m, s)
    BY <1>0 DEF Lent, Apart, Holders
  <2> QED BY <1>0, <1>2, <1>3, <2>1, TalkFalls DEF Ready
<1>7. Stopping'
  BY <1>2, <1>3, StoppingFresh
<1> QED BY <1>0, <1>3, <1>5, <1>6, <1>7 DEF Lent

LEMMA LentInit == Init => Lent
<1> SUFFICES ASSUME Init PROVE Lent
  OBVIOUS
<1>1. Types /\ agenda = <<>>
  BY TypesInit DEF Init
<1>2. Pending = {} /\ Rest = {}
  <2>1. DOMAIN agenda = {}
    BY <1>1
  <2> QED BY <2>1 DEF Pending, Rest
<1>3. \A m \in Mail, s \in Socket : ~Talks(m, s)
  BY DEF Init, Talks, NoConv
<1>4. \A s \in Socket : ~sk[s].acquired /\ sk[s].st = "none"
  BY DEF Init, NoSocket
<1>5. \A p \in Pool : pool[p].idle = <<>>
  BY DEF Init, NoPool
<1>6. \A s \in Socket : ~Pooled(s)
  <2>1. \A p \in Pool : Range(pool[p].idle) = {}
    BY <1>5 DEF Range
  <2> QED BY <2>1 DEF Pooled
<1>7. Once
  <2>1. \A p \in Pool : DOMAIN pool[p].idle = {}
    BY <1>5
  <2> QED BY <2>1 DEF Once
<1>8. Holders /\ Apart
  BY <1>3, <1>4, <1>6 DEF Holders, Apart
<1>9. OnTop /\ Ready /\ Ordered /\ Stopping
  <2>1. DOMAIN agenda = {}
    BY <1>1
  <2> QED BY <1>1, <1>2, <2>1 DEF OnTop, Ready, Ordered, Stopping
<1> QED BY <1>1, <1>7, <1>8, <1>9 DEF Lent

LEMMA LentNext == Lent /\ [Next]_vars => Lent'
<1> SUFFICES ASSUME Lent, [Next]_vars PROVE Lent'
  OBVIOUS
<1>0. Types'
  BY TypesNext DEF Lent
<1>1. CASE UNCHANGED vars
  <2>1. UNCHANGED <<agenda, conv, sk, pool>>
    BY <1>1 DEF vars
  <2>2. Pending' = Pending /\ Rest' = Rest /\ Top' = Top
    BY <2>1 DEF Pending, Rest, Top
  <2>3. \A s \in Socket : (Pooled(s)' <=> Pooled(s)) /\ (Bound(s)' <=> Bound(s))
    BY <2>1, <2>2 DEF Pooled, Bound
  <2>4. \A m \in Mail, s \in Socket : (Talks(m, s)' <=> Talks(m, s)) /\ (StopComes(m, s)' <=> StopComes(m, s))
    BY <2>1 DEF Talks, StopComes
  <2>5. Holders' /\ Apart' /\ Once' /\ OnTop'
    BY <2>1, <2>2, <2>3, <2>4 DEF Lent, Holders, Apart, Once, OnTop
  <2>6. Ordered'
    BY <2>1 DEF Lent, Ordered
  <2>8. Ready'
    <3>1. BoundLater(Top.sock)' <=> BoundLater(Top.sock)
      BY <2>2 DEF BoundLater
    <3>2. \A m \in Mail : Talks(m, Top.sock)' <=> Talks(m, Top.sock)
      BY <2>1, <2>2 DEF Talks
    <3> QED BY <2>1, <2>2, <3>1, <3>2 DEF Lent, Ready
  <2>7. Stopping'
    BY <2>2, <2>4 DEF Lent, Stopping
  <2> QED BY <1>0, <2>5, <2>6, <2>7, <2>8 DEF Lent
<1>2. CASE Turn
  BY <1>0, <1>2, DispenseLends, DestroyLends, TryHostLends, ReleaseLends, LendLends, SendLends, DecidesLends, FinishLends
  DEF Turn
<1>3. CASE \E m \in Mail : Start(m)
  BY <1>3, StartLends
<1>4. CASE \E s \in Socket : ReadReply(s) \/ Connected(s) \/ ConnectFails(s) \/ TimesOut(s) \/ Closed(s) \/ IdleTimeout(s)
  BY <1>4, ReplyLends, ConnectedLends, FailLends, ClosedLends, IdleTimeoutLends
<1>5. CASE \E st \in streams : StreamEnds(st[1], st[2])
  <2>1. \E m : m \in Mail
    BY <1>5, StreamTypes DEF Lent
  <2> QED BY <1>5, <2>1, StartLends
<1> QED BY <1>1, <1>2, <1>3, <1>4, <1>5 DEF Next

LEMMA LentOnceHolds == Lent => LentOnce
<1> SUFFICES ASSUME Lent, NEW s \in Socket
             PROVE  LET talking == {m \in Mail : Talks(m, s)}
                    IN  Cardinality(talking) <= 1 /\ (talking # {} => ~Pooled(s))
  BY DEF LentOnce
<1> DEFINE talking == {m \in Mail : Talks(m, s)}
<1>1. talking # {} => ~Pooled(s)
  BY DEF Lent, Holders, Apart
<1>2. talking = {} \/ talking = {sk[s].mail}
  <2>1. \A m \in Mail : Talks(m, s) => sk[s].mail = m
    BY DEF Lent, Holders
  <2>2. \A m \in talking : m = sk[s].mail
    BY <2>1
  <2> HIDE DEF talking
  <2> QED BY <2>2
<1>3. Cardinality(talking) <= 1
  <2>1. Cardinality(talking) \in {0, 1}
    BY <1>2, FS_EmptySet, FS_Singleton, Zenon
  <2> QED BY <2>1
<1> QED BY <1>1, <1>3

\* Whatever replies, closes, timeouts and errors come, in whatever order, a
\* socket has one conversation at a time, and is not in the pool meanwhile.
THEOREM SocketsLentOnce == Spec => []LentOnce
<1>1. Spec => []Lent
  BY LentInit, LentNext, PTL DEF Spec
<1> QED BY <1>1, LentOnceHolds, PTL

------------------------------------------------------------------------------
(***************************************************************************)
(* What is decided of a mail, and how often, as long as no socket times    *)
(* out that is not deaf: a socket that was ended still gives its replies,  *)
(* and a reply that refuses the mail is then answered on a socket that is  *)
(* not up, so that the mail is tried again and decided.                    *)
(*                                                                         *)
(* DecidedOnce is not inductive.  A mail that is not decided waits for a   *)
(* socket, or a call will try or decide it (Token), or its conversation    *)
(* goes on, and these exclude each other (Place), but for one moment:      *)
(* after a reply that refuses the mail it is to be decided and its         *)
(* conversation not yet stopped.  So the calls that stop one are next      *)
(* (Closing).                                                              *)
(***************************************************************************)

NoTimeouts == "timeout" \notin Faults

\* Nothing comes from a socket that is not connected.
Quiet == DOMAIN line = Socket /\ \A s \in Socket : sk[s].st # "up" => line[s] = <<>>

Token(t, m) == t.mail = m /\ t.do \in {"try_deliver_host", "try_deliver_host_on_socket", "decide"}
Closes(t)   == t.do \in {"stop", "finish_processing_mail"}

Tokened(m)    == \E t \in Pending : Token(t, m)
TokenLater(m) == \E t \in Rest : Token(t, m)
Waits(m)      == \E p \in Pool : m \in Range(pool[p].waiting)
WillStop(m)   == \E t \in Pending : t.do = "stop" /\ t.mail = m

\* One call will try or decide the mail.
Single == \A m \in Mail : \A i, j \in DOMAIN agenda : i < j => ~(Token(agenda[i], m) /\ Token(agenda[j], m))

\* A call that ends a conversation comes next, or after a command on its socket.
Closing ==
    /\ \A t \in Pending : Closes(t) => Talks(t.mail, t.sock)
    /\ \A i \in DOMAIN agenda : i # 1 /\ Closes(agenda[i]) =>
          /\ i = 2 /\ agenda[1].do = "send_command"
          /\ agenda[1].mail = agenda[i].mail /\ agenda[1].sock = agenda[i].sock
          /\ sk[agenda[i].sock].st = "up"

\* A mail waits once, in one pool.
WaitOnce == \A p, q \in Pool : \A i \in DOMAIN pool[p].waiting, j \in DOMAIN pool[q].waiting :
                pool[p].waiting[i] = pool[q].waiting[j] => p = q /\ i = j

Place(m) == /\ Tokened(m) \/ conv[m].processing \/ Waits(m) => outcome[m] = <<>>
            /\ Waits(m) => ~Tokened(m) /\ ~conv[m].processing
            /\ Tokened(m) /\ conv[m].processing => WillStop(m)
            /\ Len(outcome[m]) =< 1

Decided == /\ outcome \in [Mail -> Seq(Args)]
           /\ Single /\ Closing /\ WaitOnce
           /\ \A m \in Mail : Place(m)

------------------------------------------------------------------------------
(* Replies. *)

LEMMA QuietInit == Init => Quiet
  BY DEF Init, Quiet

LEMMA QuietNext == NoTimeouts => (Types /\ Quiet /\ [Next]_vars => Quiet')
<1> SUFFICES ASSUME NoTimeouts, Types, Quiet, [Next]_vars PROVE Quiet'
  OBVIOUS
<1>1. ASSUME NEW s \in Socket, line' = [line EXCEPT ![s] = <<>>], \A u \in Socket \ {s} : sk'[u].st = sk[u].st
      PROVE  Quiet'
  BY <1>1 DEF Quiet
<1>2. ASSUME line' = line, \A u \in Socket : sk'[u].st = sk[u].st \/ sk[u].st # "up" \/ line[u] = <<>>
      PROVE  Quiet'
  BY <1>2 DEF Quiet
<1>3. ASSUME NEW s \in Socket, NEW x, line' = [line EXCEPT ![s] = x], sk'[s].st = "up",
             \A u \in Socket \ {s} : sk'[u].st = sk[u].st
      PROVE  Quiet'
  BY <1>3 DEF Quiet
<1>4. CASE UNCHANGED vars
  BY <1>2, <1>4 DEF vars
<1>5. CASE Turn
  <2>1. CASE PoolDispense
    <3>1. CASE UNCHANGED <<sk, line>>
      BY <1>2, <3>1
    <3>2. ASSUME NEW s \in Socket, NEW r, sk' = [sk EXCEPT ![s] = r], line' = [line EXCEPT ![s] = <<>>]
          PROVE  Quiet'
      BY <1>1, <3>2 DEF Types
    <3> QED BY <2>1, <3>1, <3>2 DEF PoolDispense
  <2>2. CASE PoolDestroy
    <3>1. agenda # <<>> /\ Top.do = "destroy"
      BY <2>2 DEF PoolDestroy, Doing
    <3>2. Top.sock \in Socket
      BY <3>1, TopTask DEF Types, Tasks, ForSocket
    <3>3. PICK r : sk' = [sk EXCEPT ![Top.sock] = r] /\ line' = [line EXCEPT ![Top.sock] = <<>>]
      BY <2>2 DEF PoolDestroy
    <3> QED BY <1>1, <3>2, <3>3 DEF Types
  <2>3. CASE TryDeliverHost \/ Decides \/ FinishProcessingMail
    BY <1>2, <2>3 DEF TryDeliverHost, Decides, FinishProcessingMail
  <2>4. CASE ReleaseClient
    <3>1. agenda # <<>> /\ Top.do = "release_client" /\ UNCHANGED line
      BY <2>4 DEF ReleaseClient, Doing
    <3>2. Top.sock \in Socket
      BY <3>1, TopTask DEF Types, Tasks, ForSocket
    <3>3. \A u \in Socket : sk'[u].st = sk[u].st
      <4> DEFINE r1 == [sk[Top.sock] EXCEPT !.acquired = FALSE]
                 r2 == [sk[Top.sock] EXCEPT !.acquired = FALSE, !.mail = None, !.fromPool = TRUE]
      <4>1. r1.st = sk[Top.sock].st /\ r2.st = sk[Top.sock].st
        BY <3>2 DEF Types, SocketT
      <4>2. sk' = sk \/ sk' = [sk EXCEPT ![Top.sock] = r1] \/ sk' = [sk EXCEPT ![Top.sock] = r2]
        BY <2>4, <3>2 DEF ReleaseClient, Types
      <4> HIDE DEF r1, r2
      <4> QED BY <3>2, <4>1, <4>2 DEF Types
    <3> QED BY <1>2, <3>1, <3>3
  <2>5. CASE TryDeliverHostOnSocket
    <3>1. agenda # <<>> /\ Top.do = "try_deliver_host_on_socket" /\ UNCHANGED line
      BY <2>5 DEF TryDeliverHostOnSocket, Doing
    <3>2. Top.sock \in Socket
      BY <3>1, TopTask DEF Types, Tasks, ForSocket
    <3>3. \A u \in Socket : sk'[u].st = sk[u].st
      <4> DEFINE r1 == [sk[Top.sock] EXCEPT !.acquired = TRUE, !.mail = Top.mail]
      <4>1. r1.st = sk[Top.sock].st
        BY <3>2 DEF Types, SocketT
      <4>2. sk' = [sk EXCEPT ![Top.sock] = r1]
        BY <2>5, <3>2 DEF TryDeliverHostOnSocket, Types
      <4> HIDE DEF r1
      <4> QED BY <3>2, <4>1, <4>2 DEF Types
    <3> QED BY <1>2, <3>1, <3>3
  <2>6. CASE SendCommand
    <3>1. agenda # <<>> /\ Top.do = "send_command" /\ UNCHANGED sk
      BY <2>6 DEF SendCommand, Doing
    <3>2. Top.sock \in Socket
      BY <3>1, TopTask DEF Types, Tasks, ForSocket
    <3>3. CASE sk[Top.sock].st = "up"
      <4>1. \E codes \in Codes(srv[Top.sock], Top.mail, Top.arg) : line' = [line EXCEPT ![Top.sock] = @ \o codes]
        BY <2>6, <3>3 DEF SendCommand
      <4>2. \E x : line' = [line EXCEPT ![Top.sock] = x]
        BY <4>1
      <4> QED BY <1>3, <3>1, <3>2, <3>3, <4>2
    <3>4. CASE sk[Top.sock].st # "up"
      <4>1. UNCHANGED line
        BY <2>6, <3>4 DEF SendCommand
      <4> QED BY <1>2, <3>1, <4>1
    <3> QED BY <3>3, <3>4
  <2> QED BY <1>5, <2>1, <2>2, <2>3, <2>4, <2>5, <2>6 DEF Turn
<1>6. CASE \E m \in Mail : Start(m)
  BY <1>2, <1>6 DEF Start
<1>7. CASE \E st \in streams : StreamEnds(st[1], st[2])
  BY <1>2, <1>7 DEF StreamEnds
<1>8. ASSUME NEW s \in Socket, ReadReply(s) \/ Connected(s) \/ ConnectFails(s) \/ TimesOut(s) \/ Closed(s) \/ IdleTimeout(s)
      PROVE  Quiet'
  <2>1. CASE ReadReply(s)
    <3>1. line[s] # <<>> /\ UNCHANGED sk /\ line' = [line EXCEPT ![s] = Tail(@)]
      BY <2>1 DEF ReadReply
    <3>2. sk[s].st = "up"
      BY <3>1 DEF Quiet
    <3>3. line' = [line EXCEPT ![s] = Tail(line[s])]
      BY <3>1
    <3> QED BY <1>3, <3>1, <3>2, <3>3
  <2>2. CASE Connected(s)
    <3>1. sk' = [sk EXCEPT ![s].st = "up"] /\ \E x : line' = [line EXCEPT ![s] = x]
      BY <2>2 DEF Connected
    <3>2. sk'[s].st = "up" /\ \A u \in Socket \ {s} : sk'[u].st = sk[u].st
      BY <3>1 DEF Types, SocketT
    <3> QED BY <1>3, <3>1, <3>2
  <2>3. CASE ConnectFails(s) \/ TimesOut(s)
    <3>1. \A u \in Socket \ {s} : sk'[u] = sk[u]
      BY <2>3, FailTypes
    <3>2. UNCHANGED line /\ (sk[s].st = "connecting" \/ (sk[s].st = "up" /\ line[s] = <<>>))
      BY <2>3 DEF ConnectFails, TimesOut, Fault, Deaf, NoTimeouts
    <3> QED BY <1>2, <3>1, <3>2
  <2>4. CASE Closed(s)
    <3>1. line' = [line EXCEPT ![s] = <<>>]
      BY <2>4 DEF Closed
    <3>2. \A u \in Socket \ {s} : sk'[u] = sk[u]
      BY <2>4, ClosedCases
    <3> QED BY <1>1, <3>1, <3>2
  <2>5. CASE IdleTimeout(s)
    BY <1>2, <2>5 DEF IdleTimeout
  <2> QED BY <1>8, <2>1, <2>2, <2>3, <2>4, <2>5
<1> QED BY <1>4, <1>5, <1>6, <1>7, <1>8 DEF Next

------------------------------------------------------------------------------
(* The mails that wait. *)

LEMMA WaitSame ==
    ASSUME \A p \in Pool : pool'[p].waiting = pool[p].waiting
    PROVE  /\ WaitOnce => WaitOnce'
           /\ \A m \in Mail : Waits(m)' <=> Waits(m)
<1>1. WaitOnce => WaitOnce'
  BY DEF WaitOnce
<1>2. \A m \in Mail : Waits(m)' <=> Waits(m)
  BY DEF Waits
<1> QED BY <1>1, <1>2

LEMMA WaitLess ==
    ASSUME Types, WaitOnce, NEW p \in Pool, pool[p].waiting # <<>>, pool'[p].waiting = Tail(pool[p].waiting),
           \A q \in Pool \ {p} : pool'[q].waiting = pool[q].waiting
    PROVE  /\ WaitOnce'
           /\ Head(pool[p].waiting) \in Mail /\ Waits(Head(pool[p].waiting))
           /\ \A m \in Mail : Waits(m)' => Waits(m) /\ m # Head(pool[p].waiting)
<1> DEFINE a == pool[p].waiting
           k(q, i) == IF q = p THEN i + 1 ELSE i
<1>1. a \in Seq(Mail) /\ a # <<>>
  BY DEF Types, PoolT
<1>2. /\ Head(a) = a[1] /\ 1 \in DOMAIN a /\ Head(a) \in Mail
      /\ \A i \in DOMAIN Tail(a) : i \in Nat \ {0} /\ i + 1 \in DOMAIN a /\ Tail(a)[i] = a[i + 1]
  BY <1>1
<1>3. \A q \in Pool : \A i \in DOMAIN pool'[q].waiting :
         /\ k(q, i) \in DOMAIN pool[q].waiting /\ pool'[q].waiting[i] = pool[q].waiting[k(q, i)]
         /\ q = p => k(q, i) # 1 /\ i \in Nat
  <2> SUFFICES ASSUME NEW q \in Pool, NEW i \in DOMAIN pool'[q].waiting
               PROVE  /\ k(q, i) \in DOMAIN pool[q].waiting /\ pool'[q].waiting[i] = pool[q].waiting[k(q, i)]
                      /\ q = p => k(q, i) # 1 /\ i \in Nat
    OBVIOUS
  <2>1. CASE q # p
    BY <2>1
  <2>2. CASE q = p
    <3>1. i \in DOMAIN Tail(a) /\ pool'[q].waiting[i] = Tail(a)[i] /\ k(q, i) = i + 1
      BY <2>2
    <3> QED BY <1>2, <2>2, <3>1
  <2> QED BY <2>1, <2>2
<1>4. WaitOnce'
  <2> SUFFICES ASSUME NEW q \in Pool, NEW r \in Pool,
                      NEW i \in DOMAIN pool'[q].waiting, NEW j \in DOMAIN pool'[r].waiting,
                      pool'[q].waiting[i] = pool'[r].waiting[j]
               PROVE  q = r /\ i = j
    BY DEF WaitOnce
  <2>1. q = r /\ k(q, i) = k(r, j)
    BY <1>3 DEF WaitOnce
  <2> QED BY <1>3, <2>1
<1>5. ASSUME NEW m \in Mail, Waits(m)' PROVE Waits(m) /\ m # Head(a)
  <2>1. PICK q \in Pool : \E i \in DOMAIN pool'[q].waiting : m = pool'[q].waiting[i]
    BY <1>5 DEF Waits, Range
  <2>2. PICK i \in DOMAIN pool'[q].waiting : m = pool'[q].waiting[i]
    BY <2>1
  <2>3. k(q, i) \in DOMAIN pool[q].waiting /\ m = pool[q].waiting[k(q, i)] /\ (q = p => k(q, i) # 1)
    BY <1>3, <2>2
  <2>4. Waits(m)
    BY <2>3 DEF Waits, Range
  <2>5. m # Head(a)
    BY <1>2, <2>3 DEF WaitOnce
  <2> QED BY <2>4, <2>5
<1>6. Waits(Head(a))
  BY <1>2 DEF Waits, Range
<1> QED BY <1>2, <1>4, <1>5, <1>6

LEMMA WaitMore ==
    ASSUME Types, WaitOnce, NEW p \in Pool, NEW n \in Mail, ~Waits(n), pool'[p].waiting = Append(pool[p].waiting, n),
           \A q \in Pool \ {p} : pool'[q].waiting = pool[q].waiting
    PROVE  WaitOnce' /\ \A m \in Mail : Waits(m)' => Waits(m) \/ m = n
<1> DEFINE a == pool[p].waiting
           b == Append(a, n)
<1>1. a \in Seq(Mail)
  BY DEF Types, PoolT
<1>2. \A i \in DOMAIN b : IF i \in DOMAIN a THEN b[i] = a[i] ELSE b[i] = n /\ i = Len(a) + 1
  BY <1>1
<1>3. \A q \in Pool : \A i \in DOMAIN pool'[q].waiting :
         IF i \in DOMAIN pool[q].waiting THEN pool'[q].waiting[i] = pool[q].waiting[i]
         ELSE pool'[q].waiting[i] = n /\ q = p /\ i = Len(a) + 1
  BY <1>2
<1>4. \A q \in Pool : \A i \in DOMAIN pool[q].waiting : pool[q].waiting[i] # n
  BY DEF Waits, Range
<1>5. WaitOnce'
  <2> SUFFICES ASSUME NEW q \in Pool, NEW r \in Pool,
                      NEW i \in DOMAIN pool'[q].waiting, NEW j \in DOMAIN pool'[r].waiting,
                      pool'[q].waiting[i] = pool'[r].waiting[j]
               PROVE  q = r /\ i = j
    BY DEF WaitOnce
  <2>1. CASE i \in DOMAIN pool[q].waiting /\ j \in DOMAIN pool[r].waiting
    BY <1>3, <2>1 DEF WaitOnce
  <2>2. CASE i \notin DOMAIN pool[q].waiting
    BY <1>3, <1>4, <2>2
  <2>3. CASE j \notin DOMAIN pool[r].waiting
    BY <1>3, <1>4, <2>3
  <2> QED BY <2>1, <2>2, <2>3
<1>6. ASSUME NEW m \in Mail, Waits(m)' PROVE Waits(m) \/ m = n
  <2>1. PICK q \in Pool : \E i \in DOMAIN pool'[q].waiting : m = pool'[q].waiting[i]
    BY <1>6 DEF Waits, Range
  <2>2. PICK i \in DOMAIN pool'[q].waiting : m = pool'[q].waiting[i]
    BY <2>1
  <2> QED BY <1>3, <2>2 DEF Waits, Range
<1> QED BY <1>5, <1>6

------------------------------------------------------------------------------
(* The calls that try or decide a mail, or end its conversation. *)

LEMMA PopsSingle ==
    ASSUME Types, agenda # <<>>, Call(<<>>), Single
    PROVE  Single'
<1>1. /\ Len(agenda') = Len(agenda) - 1 /\ agenda' \in Seq(Tasks)
      /\ \A i \in DOMAIN agenda' : i + 1 \in DOMAIN agenda /\ agenda'[i] = agenda[i + 1]
  BY Pops DEF Types
<1>2. \A i, j \in DOMAIN agenda' : i < j => i + 1 < j + 1
  BY <1>1
<1> QED BY <1>1, <1>2 DEF Single

LEMMA BecomesSingle ==
    ASSUME Types, agenda # <<>>, NEW t \in Tasks, Call(<<t>>), Single,
           \A m \in Mail : Token(t, m) => ~TokenLater(m)
    PROVE  Single'
<1>1. /\ DOMAIN agenda' = DOMAIN agenda /\ agenda'[1] = t
      /\ \A i \in DOMAIN agenda : i # 1 => agenda'[i] = agenda[i]
  BY Becomes DEF Types
<1>2. DOMAIN agenda = 1 .. Len(agenda) /\ Len(agenda) \in Nat
  BY DEF Types
<1> SUFFICES ASSUME NEW m \in Mail, NEW i \in DOMAIN agenda, NEW j \in DOMAIN agenda, i < j,
                    Token(agenda'[i], m), Token(agenda'[j], m)
             PROVE  FALSE
  BY <1>1 DEF Single
<1>3. j # 1 /\ agenda'[j] = agenda[j]
  BY <1>1, <1>2
<1>4. TokenLater(m)
  BY <1>3 DEF TokenLater, Rest
<1>5. i # 1
  BY <1>1, <1>4
<1> QED BY <1>1, <1>3, <1>5 DEF Single

LEMMA GrowsSingle ==
    ASSUME Types, agenda # <<>>, NEW t \in Tasks, NEW u \in Tasks, Call(<<t, u>>), Single,
           \A m \in Mail : ~Token(t, m) /\ (Token(u, m) => ~TokenLater(m))
    PROVE  Single'
<1>1. /\ agenda' \in Seq(Tasks) /\ Len(agenda') = Len(agenda) + 1
      /\ agenda'[1] = t /\ agenda'[2] = u
      /\ \A i \in DOMAIN agenda' : i \notin {1, 2} => i - 1 \in DOMAIN agenda /\ i - 1 # 1 /\ agenda'[i] = agenda[i - 1]
  BY Grows DEF Types
<1>2. Len(agenda) \in Nat /\ DOMAIN agenda' = 1 .. Len(agenda) + 1
  BY <1>1 DEF Types
<1> SUFFICES ASSUME NEW m \in Mail, NEW i \in DOMAIN agenda', NEW j \in DOMAIN agenda', i < j,
                    Token(agenda'[i], m), Token(agenda'[j], m)
             PROVE  FALSE
  BY DEF Single
<1>3. i # 1
  BY <1>1
<1>4. j \notin {1, 2}
  BY <1>2, <1>3
<1>5. TokenLater(m)
  BY <1>1, <1>4 DEF TokenLater, Rest
<1>6. i # 2
  BY <1>1, <1>5
<1>7. i - 1 < j - 1
  BY <1>2
<1> QED BY <1>1, <1>3, <1>4, <1>6, <1>7 DEF Single

LEMMA FreshSingle ==
    ASSUME NEW t, NEW u, agenda' \in {<<>>, <<t>>, <<t, u>>},
           \A m \in Mail : ~(Token(t, m) /\ Token(u, m))
    PROVE  Single'
<1>1. CASE agenda' = <<>>
  <2>1. DOMAIN agenda' = {}
    BY <1>1
  <2> QED BY <2>1 DEF Single
<1>2. CASE agenda' = <<t>>
  <2>1. DOMAIN agenda' = {1}
    BY <1>2
  <2>2. \A i, j \in {1} : ~(i < j)
    OBVIOUS
  <2> QED BY <2>1, <2>2 DEF Single
<1>3. CASE agenda' = <<t, u>>
  <2>1. DOMAIN agenda' = {1, 2} /\ agenda'[1] = t /\ agenda'[2] = u
    BY <1>3
  <2>2. \A i, j \in {1, 2} : i < j => i = 1 /\ j = 2
    OBVIOUS
  <2> QED BY <2>1, <2>2 DEF Single
<1> QED BY <1>1, <1>2, <1>3

\* The call that is made is the only one for its mail.
LEMMA TopToken ==
    ASSUME Types, Single, agenda # <<>>, NEW m \in Mail, Token(Top, m)
    PROVE  Tokened(m) /\ ~TokenLater(m)
<1>1. Top = agenda[1] /\ 1 \in DOMAIN agenda /\ DOMAIN agenda = 1 .. Len(agenda) /\ Len(agenda) \in Nat
  BY TopTask DEF Types
<1>2. \A j \in DOMAIN agenda \ {1} : 1 < j
  BY <1>1
<1>3. ~TokenLater(m)
  BY <1>1, <1>2 DEF TokenLater, Rest, Single
<1> QED BY <1>1, <1>3 DEF Tokened, Pending

\* After a call that is no command nothing ends a conversation; unless that
\* call does, no mail that is to be tried or decided has one.
LEMMA NoCloses ==
    ASSUME Types, Decided, agenda # <<>>, Top.do # "send_command"
    PROVE  /\ \A t \in Rest : ~Closes(t)
           /\ ~Closes(Top) => \A m \in Mail : ~(Tokened(m) /\ conv[m].processing)
<1>1. Top = agenda[1] /\ 1 \in DOMAIN agenda
  BY TopTask DEF Types
<1>2. \A t \in Rest : ~Closes(t)
  BY <1>1 DEF Decided, Closing, Rest
<1>3. ASSUME ~Closes(Top), NEW m \in Mail, Tokened(m), conv[m].processing PROVE FALSE
  <2>1. PICK t \in Pending : t.do = "stop"
    BY <1>3 DEF Decided, Place, WillStop
  <2>2. t \in Rest \/ t = Top
    BY <1>1 DEF Pending, Rest
  <2> QED BY <1>2, <1>3, <2>1, <2>2 DEF Closes
<1> QED BY <1>2, <1>3

LEMMA ClosingKeeps ==
    ASSUME \A t \in Pending' : ~Closes(t)
    PROVE  Closing'
<1>1. \A i \in DOMAIN agenda' : ~Closes(agenda'[i])
  BY DEF Pending
<1> QED BY <1>1 DEF Closing

LEMMA PlaceKeeps ==
    ASSUME NEW m \in Mail, Place(m), outcome'[m] = outcome[m],
           Waits(m)' => Waits(m), conv'[m].processing => conv[m].processing,
           Tokened(m)' => Tokened(m), Tokened(m)' /\ conv'[m].processing => WillStop(m)'
    PROVE  Place(m)'
  BY DEF Place

LEMMA PlaceMade ==
    ASSUME NEW m \in Mail, outcome'[m] = <<>>,
           Waits(m)' => ~Tokened(m)' /\ ~conv'[m].processing,
           Tokened(m)' /\ conv'[m].processing => WillStop(m)'
    PROVE  Place(m)'
<1>1. Len(<<>>) = 0
  OBVIOUS
<1> QED BY <1>1 DEF Place

\* A step that leaves every mail where it is.
LEMMA Unmoved ==
    ASSUME Decided, UNCHANGED outcome, WaitOnce', Single',
           \A m \in Mail : (Waits(m)' => Waits(m)) /\ (conv'[m].processing => conv[m].processing),
           \A t \in Pending' : ~Closes(t) /\ (t \in Pending \/ \A m \in Mail : ~Token(t, m)),
           \A m \in Mail : ~(Tokened(m) /\ conv[m].processing)
    PROVE  Decided'
<1>1. \A m \in Mail : Tokened(m)' => Tokened(m)
  BY DEF Tokened
<1>2. \A m \in Mail : Place(m)'
  BY <1>1, PlaceKeeps DEF Decided
<1>3. Closing'
  BY ClosingKeeps
<1> QED BY <1>2, <1>3 DEF Decided

\* What PopsOrder and the like say of the agenda, without the rest.
LEMMA Popped ==
    ASSUME Types, agenda # <<>>, Call(<<>>)
    PROVE  Pending' = Rest /\ Rest \subseteq Pending
<1>1. /\ Len(agenda') = Len(agenda) - 1 /\ agenda' \in Seq(Tasks)
      /\ \A i \in DOMAIN agenda' : i + 1 \in DOMAIN agenda /\ agenda'[i] = agenda[i + 1]
  BY Pops DEF Types
<1>2. Len(agenda) \in Nat /\ Len(agenda') \in Nat /\ DOMAIN agenda = 1 .. Len(agenda) /\ DOMAIN agenda' = 1 .. Len(agenda')
  BY <1>1 DEF Types
<1>3. \A i \in DOMAIN agenda \ {1} : i - 1 \in DOMAIN agenda' /\ agenda'[i - 1] = agenda[i]
  BY <1>1, <1>2
<1>4. \A i \in DOMAIN agenda' : i + 1 \in DOMAIN agenda \ {1}
  BY <1>1, <1>2
<1> QED BY <1>1, <1>3, <1>4 DEF Pending, Rest

LEMMA Became ==
    ASSUME Types, agenda # <<>>, NEW t \in Tasks, Call(<<t>>)
    PROVE  Pending' = Rest \cup {t} /\ Rest \subseteq Pending
  BY Becomes DEF Types, Pending, Rest

LEMMA DispenseDecides ==
    ASSUME Types, Decided, PoolDispense
    PROVE  Decided'
<1>0. agenda \in Seq(Tasks) /\ agenda # <<>> /\ Top.do = "dispense"
  BY DEF Types, PoolDispense, Doing
<1> DEFINE p == Top.pool
           q == pool[p]
<1>1. p \in Pool
  BY <1>0, TopTask DEF Tasks, ForPool
<1>2. q \in PoolT
  BY <1>1 DEF Types
<1>3. UNCHANGED <<conv, outcome>>
  BY DEF PoolDispense
<1>4. (\A t \in Rest : ~Closes(t)) /\ \A n \in Mail : ~(Tokened(n) /\ conv[n].processing)
  BY <1>0, NoCloses DEF Closes
<1>5. CASE q.waiting # <<>> /\ q.idle # <<>>
  <2>0. PICK s \in Socket, m \in Mail : s = Head(q.idle) /\ m = Head(q.waiting)
    <3>1. Head(q.idle) \in Socket /\ Head(q.waiting) \in Mail
      BY <1>2, <1>5 DEF PoolT
    <3> QED BY <3>1
  <2>1. /\ pool' = [pool EXCEPT ![p].idle = Tail(@), ![p].waiting = IF sk[s].st = "up" THEN Tail(@) ELSE @]
        /\ Call(IF sk[s].st = "up" THEN <<OnSocket(m, s)>> ELSE <<Destroy(s, p), Dispense(p)>>)
    BY <1>5, <2>0 DEF PoolDispense
  <2>2. /\ pool'[p].waiting = IF sk[s].st = "up" THEN Tail(q.waiting) ELSE q.waiting
        /\ \A g \in Pool \ {p} : pool'[g].waiting = pool[g].waiting
    BY <1>1, <1>2, <2>1 DEF Types, PoolT
  <2>3. CASE sk[s].st = "up"
    <3>1. WaitOnce' /\ Waits(m) /\ \A n \in Mail : Waits(n)' => Waits(n) /\ n # m
      BY <1>1, <1>5, <2>0, <2>2, <2>3, WaitLess DEF Decided
    <3>2. outcome[m] = <<>> /\ ~Tokened(m) /\ ~conv[m].processing
      BY <3>1 DEF Decided, Place
    <3> DEFINE t == OnSocket(m, s)
    <3>3. t \in Tasks /\ t.mail = m /\ t.do = "try_deliver_host_on_socket"
      BY TasksMade DEF OnSocket, Task
    <3>4. Call(<<t>>)
      BY <2>1, <2>3
    <3> HIDE DEF t
    <3>5. Pending' = Rest \cup {t} /\ Rest \subseteq Pending
      BY <1>0, <3>3, <3>4, Became
    <3>6. ~TokenLater(m)
      BY <3>2, <3>5 DEF Tokened, TokenLater
    <3>7. Single'
      BY <1>0, <3>3, <3>4, <3>6, BecomesSingle DEF Decided, Token
    <3>8. Closing'
      BY <1>4, <3>3, <3>5, ClosingKeeps DEF Closes
    <3>9. Place(m)'
      BY <1>3, <3>1, <3>2, PlaceMade
    <3>10. \A n \in Mail : n # m => (Tokened(n)' => Tokened(n))
      BY <3>3, <3>5 DEF Tokened, Token
    <3>11. \A n \in Mail : n # m => Place(n)'
      BY <1>3, <1>4, <3>1, <3>10, PlaceKeeps DEF Decided
    <3> QED BY <1>3, <3>1, <3>7, <3>8, <3>9, <3>11 DEF Decided
  <2>4. CASE sk[s].st # "up"
    <3> DEFINE t == Destroy(s, p)
               u == Dispense(p)
    <3>1. t \in Tasks /\ t.do = "destroy" /\ u \in Tasks /\ u.do = "dispense"
      BY <1>1, TasksMade DEF Destroy, Dispense, Task
    <3>2. Call(<<t, u>>)
      BY <2>1, <2>4
    <3> HIDE DEF t, u
    <3>3. Pending' \subseteq Rest \cup {t, u} /\ Rest \subseteq Pending
      <4>1. /\ agenda'[1] = t /\ agenda'[2] = u
            /\ \A i \in DOMAIN agenda' : i \notin {1, 2} =>
                  i - 1 \in DOMAIN agenda /\ i - 1 # 1 /\ agenda'[i] = agenda[i - 1]
        BY <1>0, <3>1, <3>2, Grows
      <4> QED BY <4>1 DEF Pending, Rest
    <3>4. Single'
      BY <1>0, <3>1, <3>2, GrowsSingle DEF Decided, Token
    <3>5. WaitOnce' /\ \A n \in Mail : Waits(n)' <=> Waits(n)
      BY <2>2, <2>4, WaitSame DEF Decided
    <3>6. \A w \in Pending' : ~Closes(w) /\ (w \in Pending \/ \A n \in Mail : ~Token(w, n))
      BY <1>4, <3>1, <3>3 DEF Closes, Token
    <3> QED BY <1>3, <1>4, <3>4, <3>5, <3>6, Unmoved
  <2> QED BY <2>3, <2>4
<1>6. CASE ~(q.waiting # <<>> /\ q.idle # <<>>)
  <2>1. Call(<<>>)
    BY <1>6 DEF PoolDispense
  <2>2. Pending' = Rest /\ Rest \subseteq Pending /\ Single'
    BY <1>0, <2>1, Popped, PopsSingle DEF Decided
  <2>3. \A g \in Pool : pool'[g].waiting = pool[g].waiting
    <3>1. UNCHANGED pool \/ pool' = [pool EXCEPT ![p].count = @ + 1]
      BY <1>6 DEF PoolDispense
    <3>2. UNCHANGED pool \/ pool' = [pool EXCEPT ![p] = [q EXCEPT !.count = q.count + 1]]
      BY <1>1, <3>1 DEF Types
    <3>3. [q EXCEPT !.count = q.count + 1].waiting = q.waiting
      BY <1>2 DEF PoolT
    <3> QED BY <1>1, <3>2, <3>3 DEF Types
  <2>4. WaitOnce' /\ \A n \in Mail : Waits(n)' <=> Waits(n)
    BY <2>3, WaitSame DEF Decided
  <2> QED BY <1>3, <1>4, <2>2, <2>4, Unmoved
<1> QED BY <1>5, <1>6

LEMMA DestroyDecides ==
    ASSUME Types, Decided, PoolDestroy
    PROVE  Decided'
<1>0. agenda \in Seq(Tasks) /\ agenda # <<>> /\ Top.do = "destroy"
  BY DEF Types, PoolDestroy, Doing
<1> DEFINE p == Top.pool
           n == IF pool[p].count > 0 THEN pool[p].count - 1 ELSE 0
           q == [pool[p] EXCEPT !.count = n, !.idle = Without(pool[p].idle, Top.sock)]
<1>1. p \in Pool
  BY <1>0, TopTask DEF Tasks, ForPool
<1>2. pool' = [pool EXCEPT ![p] = q] /\ q.waiting = pool[p].waiting
  BY <1>1 DEF PoolDestroy, Types, PoolT
<1> HIDE DEF q
<1>3. \A g \in Pool : pool'[g].waiting = pool[g].waiting
  BY <1>1, <1>2 DEF Types
<1>4. WaitOnce' /\ \A m \in Mail : Waits(m)' <=> Waits(m)
  BY <1>3, WaitSame DEF Decided
<1>5. UNCHANGED <<conv, outcome>> /\ Call(<<>>)
  BY DEF PoolDestroy
<1>6. Pending' = Rest /\ Rest \subseteq Pending /\ Single'
  BY <1>0, <1>5, Popped, PopsSingle DEF Decided
<1>7. (\A t \in Rest : ~Closes(t)) /\ \A m \in Mail : ~(Tokened(m) /\ conv[m].processing)
  BY <1>0, NoCloses DEF Closes
<1> QED BY <1>4, <1>5, <1>6, <1>7, Unmoved

LEMMA ReleaseDecides ==
    ASSUME Types, Decided, ReleaseClient
    PROVE  Decided'
<1>0. agenda \in Seq(Tasks) /\ agenda # <<>> /\ Top.do = "release_client"
  BY DEF Types, ReleaseClient, Doing
<1>1. PICK s \in Socket : s = Top.sock
  BY <1>0, TopTask DEF Tasks, ForSocket
<1>2. UNCHANGED <<conv, outcome>>
  BY DEF ReleaseClient
<1>3. \A g \in Pool : pool'[g].waiting = pool[g].waiting
  <2>1. CASE UNCHANGED pool
    BY <2>1
  <2>2. CASE notes \in Pool /\ pool' = [pool EXCEPT ![notes].idle = Append(@, s)]
    <3> DEFINE q == [pool[notes] EXCEPT !.idle = Append(pool[notes].idle, s)]
    <3>1. pool' = [pool EXCEPT ![notes] = q] /\ q.waiting = pool[notes].waiting
      BY <2>2 DEF Types, PoolT
    <3> HIDE DEF q
    <3> QED BY <2>2, <3>1 DEF Types
  <2> QED BY <1>1, <2>1, <2>2 DEF ReleaseClient, Types
<1>4. WaitOnce' /\ \A m \in Mail : Waits(m)' <=> Waits(m)
  BY <1>3, WaitSame DEF Decided
<1>5. (\A t \in Rest : ~Closes(t)) /\ \A m \in Mail : ~(Tokened(m) /\ conv[m].processing)
  BY <1>0, NoCloses DEF Closes
<1>6. CASE Call(<<>>)
  <2>1. Pending' = Rest /\ Rest \subseteq Pending /\ Single'
    BY <1>0, <1>6, Popped, PopsSingle DEF Decided
  <2> QED BY <1>2, <1>4, <1>5, <2>1, Unmoved
<1>7. ASSUME NEW t \in Tasks, t.do \in {"destroy", "dispense"}, Call(<<t>>) PROVE Decided'
  <2>1. Pending' = Rest \cup {t} /\ Rest \subseteq Pending
    BY <1>0, <1>7, Became
  <2>2. Single'
    BY <1>0, <1>7, BecomesSingle DEF Decided, Token
  <2>3. \A w \in Pending' : ~Closes(w) /\ (w \in Pending \/ \A m \in Mail : ~Token(w, m))
    BY <1>5, <1>7, <2>1 DEF Closes, Token
  <2> QED BY <1>2, <1>4, <1>5, <2>2, <2>3, Unmoved
<1>8. Call(<<>>) \/ \E t \in Tasks : t.do \in {"destroy", "dispense"} /\ Call(<<t>>)
  <2>1. Call(<<>>) \/ (notes # None /\ (Call(<<Destroy(s, notes)>>) \/ Call(<<Dispense(notes)>>)))
    BY <1>1 DEF ReleaseClient
  <2>2. notes # None => /\ Destroy(s, notes) \in Tasks /\ Destroy(s, notes).do = "destroy"
                        /\ Dispense(notes) \in Tasks /\ Dispense(notes).do = "dispense"
    <3>1. notes # None => notes \in Pool
      BY DEF Types
    <3> QED BY <3>1, TasksMade DEF Destroy, Dispense, Task
  <2> QED BY <2>1, <2>2
<1> QED BY <1>6, <1>7, <1>8

LEMMA TryHostDecides ==
    ASSUME Types, Decided, TryDeliverHost
    PROVE  Decided'
<1>0. agenda \in Seq(Tasks) /\ agenda # <<>> /\ Top.do = "try_deliver_host"
  BY DEF Types, TryDeliverHost, Doing
<1>1. PICK m \in Mail : m = Top.mail
  BY <1>0, TopTask DEF Tasks, ForMail
<1>2. Token(Top, m)
  BY <1>0, <1>1 DEF Token
<1>3. (\A t \in Rest : ~Closes(t)) /\ \A n \in Mail : ~(Tokened(n) /\ conv[n].processing)
  BY <1>0, NoCloses DEF Closes
<1>4. Tokened(m) /\ ~TokenLater(m)
  BY <1>0, <1>2, TopToken DEF Decided
<1>5. outcome[m] = <<>> /\ ~Waits(m) /\ ~conv[m].processing
  BY <1>3, <1>4 DEF Decided, Place
<1>6. EndsTalk(m) /\ UNCHANGED outcome
  BY <1>1, TryHostTypes DEF TryDeliverHost
<1>7. ~conv'[m].processing /\ \A n \in Mail : n # m => conv'[n] = conv[n]
  BY <1>6 DEF EndsTalk
<1>8. ASSUME NEW t \in Tasks, Call(<<t>>), ~Closes(t), \A n \in Mail : Token(t, n) => n = m,
             WaitOnce', \A n \in Mail : n # m => (Waits(n)' => Waits(n)),
             Token(t, m) => ~Waits(m)'
      PROVE  Decided'
  <2>1. Pending' = Rest \cup {t} /\ Rest \subseteq Pending
    BY <1>0, <1>8, Became
  <2>2. Single'
    BY <1>0, <1>4, <1>8, BecomesSingle DEF Decided
  <2>3. Closing'
    BY <1>3, <1>8, <2>1, ClosingKeeps
  <2>4. Place(m)'
    <3>1. Tokened(m)' => Token(t, m)
      BY <1>4, <2>1 DEF Tokened, TokenLater
    <3> QED BY <1>5, <1>6, <1>7, <1>8, <3>1, PlaceMade
  <2>5. \A n \in Mail : n # m => (Tokened(n)' => Tokened(n))
    BY <1>8, <2>1 DEF Tokened
  <2>6. \A n \in Mail : n # m => Place(n)'
    BY <1>3, <1>6, <1>7, <1>8, <2>5, PlaceKeeps DEF Decided
  <2> QED BY <1>6, <1>8, <2>2, <2>3, <2>4, <2>6 DEF Decided
<1>9. ASSUME UNCHANGED pool, NEW t \in Tasks, Call(<<t>>), t.do \in {"decide", "try_deliver_host"}, t.mail = m
      PROVE  Decided'
  <2>1. WaitOnce' /\ \A n \in Mail : Waits(n)' <=> Waits(n)
    BY <1>9, WaitSame DEF Decided
  <2> QED BY <1>5, <1>8, <1>9, <2>1 DEF Closes, Token
<1>10. CASE left[m] = 0
  <2>1. Call(<<Decide(m, "temp_fail")>>) /\ UNCHANGED pool
    BY <1>1, <1>10 DEF TryDeliverHost
  <2>2. LET t == Decide(m, "temp_fail") IN t \in Tasks /\ t.do = "decide" /\ t.mail = m
    BY TasksMade DEF Args, Decide, Task
  <2> QED BY <1>9, <2>1, <2>2
<1>11. CASE left[m] # 0
  <2>1. PICK p \in Pool : \/ Call(<<TryHost(m)>>) /\ UNCHANGED pool
                         \/ /\ pool' = [pool EXCEPT ![p].waiting = Append(@, m)]
                            /\ Call(<<Dispense(p)>>)
    BY <1>1, <1>11 DEF TryDeliverHost
  <2>2. CASE Call(<<TryHost(m)>>) /\ UNCHANGED pool
    <3>1. LET t == TryHost(m) IN t \in Tasks /\ t.do = "try_deliver_host" /\ t.mail = m
      BY TasksMade DEF TryHost, Task
    <3> QED BY <1>9, <2>2, <3>1
  <2>3. CASE pool' = [pool EXCEPT ![p].waiting = Append(@, m)] /\ Call(<<Dispense(p)>>)
    <3> DEFINE q == [pool[p] EXCEPT !.waiting = Append(pool[p].waiting, m)]
               t == Dispense(p)
    <3>1. pool' = [pool EXCEPT ![p] = q] /\ q.waiting = Append(pool[p].waiting, m)
      BY <2>3 DEF Types, PoolT
    <3>2. t \in Tasks /\ t.do = "dispense" /\ Call(<<t>>)
      BY <2>3, TasksMade DEF Dispense, Task
    <3> HIDE DEF q, t
    <3>3. pool'[p].waiting = Append(pool[p].waiting, m) /\ \A g \in Pool \ {p} : pool'[g].waiting = pool[g].waiting
      BY <3>1 DEF Types
    <3>4. WaitOnce' /\ \A n \in Mail : Waits(n)' => Waits(n) \/ n = m
      BY <1>5, <3>3, WaitMore DEF Decided
    <3> QED BY <1>8, <3>2, <3>4 DEF Closes, Token
  <2> QED BY <2>1, <2>2, <2>3
<1> QED BY <1>10, <1>11

LEMMA LendDecides ==
    ASSUME Types, Decided, TryDeliverHostOnSocket
    PROVE  Decided'
<1>0. agenda \in Seq(Tasks) /\ agenda # <<>> /\ Top.do = "try_deliver_host_on_socket"
  BY DEF Types, TryDeliverHostOnSocket, Doing
<1>1. PICK m \in Mail, s \in Socket : m = Top.mail /\ s = Top.sock
  BY <1>0, TopTask DEF Tasks, ForMail, ForSocket
<1>2. Token(Top, m)
  BY <1>0, <1>1 DEF Token
<1>3. (\A t \in Rest : ~Closes(t)) /\ \A n \in Mail : ~(Tokened(n) /\ conv[n].processing)
  BY <1>0, NoCloses DEF Closes
<1>4. Tokened(m) /\ ~TokenLater(m)
  BY <1>0, <1>2, TopToken DEF Decided
<1>5. outcome[m] = <<>> /\ ~Waits(m)
  BY <1>4 DEF Decided, Place
<1>6. /\ UNCHANGED <<outcome, pool>> /\ \A n \in Mail : n # m => conv'[n] = conv[n]
      /\ Call(<<Send(m, s, "MAIL")>>) \/ Call(<<>>)
  BY <1>1 DEF TryDeliverHostOnSocket, Types, ConvOK
<1>7. WaitOnce' /\ \A n \in Mail : Waits(n)' <=> Waits(n)
  BY <1>6, WaitSame DEF Decided
<1> DEFINE t == Send(m, s, "MAIL")
<1>8. t \in Tasks /\ t.do = "send_command"
  BY TasksMade DEF Args, Send, Task
<1> HIDE DEF t
<1>9. Pending' \subseteq Rest \cup {t} /\ Rest \subseteq Pending /\ Single'
  <2>1. CASE Call(<<t>>)
    BY <1>0, <1>8, <2>1, Became, BecomesSingle DEF Decided, Token
  <2>2. CASE Call(<<>>)
    BY <1>0, <2>2, Popped, PopsSingle DEF Decided
  <2> QED BY <1>6, <2>1, <2>2 DEF t
<1>10. Closing'
  BY <1>3, <1>8, <1>9, ClosingKeeps DEF Closes
<1>11. ~Tokened(m)'
  BY <1>4, <1>8, <1>9 DEF Tokened, TokenLater, Token
<1>12. Place(m)'
  BY <1>5, <1>6, <1>7, <1>11, PlaceMade
<1>13. \A n \in Mail : Tokened(n)' => Tokened(n)
  BY <1>8, <1>9 DEF Tokened, Token
<1>14. \A n \in Mail : n # m => Place(n)'
  BY <1>3, <1>6, <1>7, <1>13, PlaceKeeps DEF Decided
<1> QED BY <1>6, <1>7, <1>9, <1>10, <1>12, <1>14 DEF Decided

LEMMA SendDecides ==
    ASSUME Types, Decided, SendCommand
    PROVE  Decided'
<1>0. agenda \in Seq(Tasks) /\ agenda # <<>> /\ Top.do = "send_command"
  BY DEF Types, SendCommand, Doing
<1>1. PICK m \in Mail, s \in Socket : m = Top.mail /\ s = Top.sock
  BY <1>0, TopTask DEF Tasks, ForMail, ForSocket
<1>2. /\ UNCHANGED <<sk, pool, outcome>>
      /\ \/ Call(<<>>) /\ SameTalk
         \/ /\ Talks(m, s) /\ EndsTalk(m) /\ sk[s].st # "up"
            /\ Call(<<ReleaseBad(s), TryHost(m)>>)
  BY <1>0, <1>1, SendCases
<1>3. WaitOnce' /\ \A n \in Mail : Waits(n)' <=> Waits(n)
  BY <1>2, WaitSame DEF Decided
<1>4. Top = agenda[1] /\ 1 \in DOMAIN agenda
  BY <1>0, TopTask
<1>5. \A t \in Rest : Closes(t) => t.mail = m /\ t.sock = s /\ sk[s].st = "up"
  BY <1>1, <1>4 DEF Decided, Closing, Rest
<1>6. \A t \in Pending : t = Top \/ t \in Rest
  BY <1>4 DEF Pending, Rest
<1>7. CASE Call(<<>>) /\ SameTalk
  <2>1. Pending' = Rest /\ Rest \subseteq Pending /\ Single'
    BY <1>0, <1>7, Popped, PopsSingle DEF Decided
  <2>2. \A n \in Mail : (conv'[n].processing <=> conv[n].processing) /\ conv'[n].sock = conv[n].sock
    BY <1>7 DEF SameTalk
  <2>3. \A n \in Mail : WillStop(n) => WillStop(n)'
    BY <1>0, <1>6, <2>1 DEF WillStop
  <2>4. \A n \in Mail : Tokened(n)' => Tokened(n)
    BY <2>1 DEF Tokened
  <2>5. \A n \in Mail : Place(n)'
    <3> SUFFICES ASSUME NEW n \in Mail PROVE Place(n)'
      OBVIOUS
    <3>1. Place(n)
      BY DEF Decided
    <3>2. Tokened(n)' /\ conv'[n].processing => WillStop(n)'
      BY <2>2, <2>3, <2>4, <3>1 DEF Place
    <3> QED BY <1>2, <1>3, <2>2, <2>4, <3>1, <3>2, PlaceKeeps
  <2>6. Closing'
    <3>1. \A t \in Pending' : Closes(t) => Talks(t.mail, t.sock)'
      <4> SUFFICES ASSUME NEW t \in Pending', Closes(t) PROVE Talks(t.mail, t.sock)'
        OBVIOUS
      <4>1. t.mail = m /\ Talks(t.mail, t.sock)
        BY <1>5, <2>1 DEF Decided, Closing
      <4> QED BY <2>2, <4>1 DEF Talks
    <3>2. \A i \in DOMAIN agenda' : i # 1 => ~Closes(agenda'[i])
      <4>1. /\ Len(agenda') = Len(agenda) - 1 /\ agenda' \in Seq(Tasks)
            /\ \A i \in DOMAIN agenda' : i + 1 \in DOMAIN agenda /\ agenda'[i] = agenda[i + 1]
        BY <1>0, <1>7, Pops
      <4>2. \A i \in DOMAIN agenda' : i # 1 => i + 1 # 1 /\ i + 1 # 2
        BY <4>1
      <4> QED BY <4>1, <4>2 DEF Decided, Closing
    <3> QED BY <3>1, <3>2 DEF Closing
  <2> QED BY <1>2, <1>3, <2>1, <2>5, <2>6 DEF Decided
<1>8. CASE Talks(m, s) /\ EndsTalk(m) /\ sk[s].st # "up" /\ Call(<<ReleaseBad(s), TryHost(m)>>)
  <2> DEFINE t == ReleaseBad(s)
             u == TryHost(m)
  <2>1. t \in Tasks /\ t.do = "release_client" /\ u \in Tasks /\ u.do = "try_deliver_host" /\ u.mail = m
    BY TasksMade DEF ReleaseBad, TryHost, Task
  <2> HIDE DEF t, u
  <2>2. Pending' \subseteq Rest \cup {t, u} /\ Rest \subseteq Pending
    <3>1. /\ agenda'[1] = t /\ agenda'[2] = u
          /\ \A i \in DOMAIN agenda' : i \notin {1, 2} =>
                i - 1 \in DOMAIN agenda /\ i - 1 # 1 /\ agenda'[i] = agenda[i - 1]
      BY <1>0, <1>8, <2>1, Grows DEF t, u
    <3> QED BY <3>1 DEF Pending, Rest
  <2>3. \A w \in Rest : ~Closes(w)
    BY <1>5, <1>8
  <2>4. \A n \in Mail : ~WillStop(n)
    BY <1>0, <1>6, <2>3 DEF WillStop, Closes
  <2>5. conv[m].processing
    BY <1>8 DEF Talks
  <2>6. outcome[m] = <<>> /\ ~Waits(m) /\ ~Tokened(m)
    BY <2>4, <2>5 DEF Decided, Place
  <2>7. ~TokenLater(m)
    BY <2>2, <2>6 DEF Tokened, TokenLater
  <2>8. Single'
    BY <1>0, <1>8, <2>1, <2>7, GrowsSingle DEF Decided, Token, t, u
  <2>9. Closing'
    BY <2>1, <2>2, <2>3, ClosingKeeps DEF Closes
  <2>10. ~conv'[m].processing /\ \A n \in Mail : n # m => conv'[n] = conv[n]
    BY <1>8 DEF EndsTalk
  <2>11. Place(m)'
    BY <1>2, <1>3, <2>6, <2>10, PlaceMade
  <2>12. \A n \in Mail : n # m => (Tokened(n)' => Tokened(n))
    BY <2>1, <2>2 DEF Tokened, Token
  <2>13. \A n \in Mail : n # m => Place(n)'
    <3> SUFFICES ASSUME NEW n \in Mail, n # m PROVE Place(n)'
      OBVIOUS
    <3>1. Place(n) /\ ~(Tokened(n) /\ conv[n].processing)
      BY <2>4 DEF Decided, Place
    <3> QED BY <1>2, <1>3, <2>10, <2>12, <3>1, PlaceKeeps
  <2> QED BY <1>2, <1>3, <2>8, <2>9, <2>11, <2>13 DEF Decided
<1> QED BY <1>2, <1>7, <1>8

\* What is decided of a mail once.
LEMMA OnceMore ==
    ASSUME Decided, NEW m \in Mail, NEW a \in Args, outcome[m] = <<>>, outcome' = [outcome EXCEPT ![m] = Append(@, a)]
    PROVE  /\ outcome' \in [Mail -> Seq(Args)] /\ Len(outcome'[m]) = 1
           /\ \A n \in Mail : n # m => outcome'[n] = outcome[n]
<1>1. Append(outcome[m], a) \in Seq(Args) /\ Len(Append(outcome[m], a)) = 1
  BY DEF Decided
<1> QED BY <1>1 DEF Decided

LEMMA DecidesDecides ==
    ASSUME Types, Decided, Decides
    PROVE  Decided'
<1>0. agenda \in Seq(Tasks) /\ agenda # <<>> /\ Top.do \in {"decide", "stop"}
  BY DEF Types, Decides, Doing
<1>1. PICK m \in Mail : m = Top.mail
  BY <1>0, TopTask DEF Tasks, ForMail
<1>2. Call(<<>>) /\ UNCHANGED pool
  BY DEF Decides
<1>3. WaitOnce' /\ \A n \in Mail : Waits(n)' <=> Waits(n)
  BY <1>2, WaitSame DEF Decided
<1>4. Pending' = Rest /\ Rest \subseteq Pending /\ Single'
  BY <1>0, <1>2, Popped, PopsSingle DEF Decided
<1>5. \A t \in Rest : ~Closes(t)
  BY <1>0, NoCloses
<1>6. Closing'
  BY <1>4, <1>5, ClosingKeeps
<1>7. \A n \in Mail : Tokened(n)' => Tokened(n)
  BY <1>4 DEF Tokened
<1>8. Top \in Tasks
  BY <1>0, TopTask
<1>9. CASE Top.do = "decide"
  <2>1. SameTalk /\ outcome' = [outcome EXCEPT ![m] = Append(@, Top.arg)]
    BY <1>1, <1>9, DecidesCases
  <2>2. Token(Top, m)
    BY <1>1, <1>9 DEF Token
  <2>3. Tokened(m) /\ ~TokenLater(m)
    BY <1>0, <2>2, TopToken DEF Decided
  <2>4. \A n \in Mail : ~(Tokened(n) /\ conv[n].processing)
    BY <1>0, <1>9, NoCloses DEF Closes
  <2>5. outcome[m] = <<>> /\ ~Waits(m) /\ ~conv[m].processing
    BY <2>3, <2>4 DEF Decided, Place
  <2>6. /\ outcome' \in [Mail -> Seq(Args)] /\ Len(outcome'[m]) = 1
        /\ \A n \in Mail : n # m => outcome'[n] = outcome[n]
    BY <1>8, <2>1, <2>5, OnceMore DEF Tasks, TaskT
  <2>7. ~Tokened(m)'
    BY <1>4, <2>3 DEF Tokened, TokenLater
  <2>8. \A n \in Mail : conv'[n].processing <=> conv[n].processing
    BY <2>1 DEF SameTalk
  <2>9. Place(m)'
    BY <1>3, <2>5, <2>6, <2>7, <2>8 DEF Place
  <2>10. \A n \in Mail : n # m => Place(n)'
    BY <1>3, <1>7, <2>4, <2>6, <2>8, PlaceKeeps DEF Decided
  <2> QED BY <1>3, <1>4, <1>6, <2>6, <2>9, <2>10 DEF Decided
<1>10. CASE Top.do = "stop"
  <2>1. Talks(m, Top.sock)
    BY <1>0, <1>1, <1>10, TopTask DEF Decided, Closing, Closes, Pending
  <2>2. EndsTalk(m) /\ UNCHANGED outcome
    BY <1>1, <1>10, <2>1, DecidesCases DEF Talks
  <2>3. ~conv'[m].processing /\ \A n \in Mail : n # m => conv'[n] = conv[n]
    BY <2>2 DEF EndsTalk
  <2>4. \A n \in Mail : WillStop(n) => n = m
    <3>1. \A t \in Pending : t = Top \/ t \in Rest
      BY <1>0, TopTask DEF Pending, Rest
    <3> QED BY <1>1, <1>5, <3>1 DEF WillStop, Closes
  <2>5. ASSUME NEW n \in Mail PROVE Place(n)'
    <3>1. Place(n)
      BY DEF Decided
    <3>2. ~(Tokened(n)' /\ conv'[n].processing)
      BY <1>7, <2>3, <2>4, <3>1 DEF Place
    <3> QED BY <1>3, <1>7, <2>2, <2>3, <3>1, <3>2, PlaceKeeps
  <2> QED BY <1>3, <1>4, <1>6, <2>2, <2>5 DEF Decided
<1> QED BY <1>0, <1>9, <1>10

LEMMA FinishDecides ==
    ASSUME Types, Decided, FinishProcessingMail
    PROVE  Decided'
<1>0. agenda \in Seq(Tasks) /\ agenda # <<>> /\ Top.do = "finish_processing_mail"
  BY DEF Types, FinishProcessingMail, Doing
<1>1. PICK m \in Mail, s \in Socket : m = Top.mail /\ s = Top.sock
  BY <1>0, TopTask DEF Tasks, ForMail, ForSocket
<1>2. /\ UNCHANGED pool
      /\ \/ Call(<<>>) /\ SameTalk /\ UNCHANGED outcome
         \/ /\ EndsTalk(m) /\ Call(<<Release(s)>>)
            /\ outcome' = [outcome EXCEPT ![m] = Append(@, Top.arg)]
  BY <1>0, <1>1, FinishCases
<1>3. WaitOnce' /\ \A n \in Mail : Waits(n)' <=> Waits(n)
  BY <1>2, WaitSame DEF Decided
<1>4. \A t \in Rest : ~Closes(t)
  BY <1>0, NoCloses
<1>5. Top \in Pending /\ Top \in Tasks /\ \A t \in Pending : t = Top \/ t \in Rest
  BY <1>0, TopTask DEF Pending, Rest
<1>6. Talks(m, s)
  BY <1>0, <1>1, <1>5 DEF Decided, Closing, Closes
<1>7. \A n \in Mail : ~WillStop(n)
  BY <1>0, <1>4, <1>5 DEF WillStop, Closes
<1>8. \A n \in Mail : ~(Tokened(n) /\ conv[n].processing)
  BY <1>7 DEF Decided, Place
<1>9. CASE Call(<<>>) /\ SameTalk /\ UNCHANGED outcome
  <2>1. Pending' = Rest /\ Rest \subseteq Pending /\ Single'
    BY <1>0, <1>9, Popped, PopsSingle DEF Decided
  <2>2. \A n \in Mail : conv'[n].processing <=> conv[n].processing
    BY <1>9 DEF SameTalk
  <2> QED BY <1>3, <1>4, <1>8, <1>9, <2>1, <2>2, Unmoved
<1>10. CASE EndsTalk(m) /\ Call(<<Release(s)>>) /\ outcome' = [outcome EXCEPT ![m] = Append(@, Top.arg)]
  <2> DEFINE t == Release(s)
  <2>1. t \in Tasks /\ t.do = "release_client"
    BY TasksMade DEF Release, Task
  <2> HIDE DEF t
  <2>2. Pending' = Rest \cup {t} /\ Rest \subseteq Pending
    BY <1>0, <1>10, <2>1, Became DEF t
  <2>3. Single'
    BY <1>0, <1>10, <2>1, BecomesSingle DEF Decided, Token, t
  <2>4. Closing'
    BY <1>4, <2>1, <2>2, ClosingKeeps DEF Closes
  <2>5. conv[m].processing
    BY <1>6 DEF Talks
  <2>6. outcome[m] = <<>> /\ ~Waits(m) /\ ~Tokened(m)
    BY <1>8, <2>5 DEF Decided, Place
  <2>7. /\ outcome' \in [Mail -> Seq(Args)] /\ Len(outcome'[m]) = 1
        /\ \A n \in Mail : n # m => outcome'[n] = outcome[n]
    BY <1>5, <1>10, <2>6, OnceMore DEF Tasks, TaskT
  <2>8. \A n \in Mail : Tokened(n)' => Tokened(n)
    BY <2>1, <2>2 DEF Tokened, Token
  <2>9. ~conv'[m].processing /\ \A n \in Mail : n # m => conv'[n] = conv[n]
    BY <1>10 DEF EndsTalk
  <2>10. Place(m)'
    BY <1>3, <2>6, <2>7, <2>8, <2>9 DEF Place
  <2>11. \A n \in Mail : n # m => Place(n)'
    BY <1>3, <1>8, <2>7, <2>8, <2>9, PlaceKeeps DEF Decided
  <2> QED BY <1>3, <2>3, <2>4, <2>7, <2>10, <2>11 DEF Decided
<1> QED BY <1>2, <1>9, <1>10

------------------------------------------------------------------------------
(* Events. *)

LEMMA IdleAgenda ==
    ASSUME agenda = <<>>
    PROVE  Pending = {} /\ \A m \in Mail : ~Tokened(m) /\ ~WillStop(m)
<1>1. DOMAIN agenda = {}
  OBVIOUS
<1>2. Pending = {}
  BY <1>1 DEF Pending
<1> QED BY <1>2 DEF Tokened, WillStop

\* An event after which at most one call is about what becomes of a mail: to
\* try it, or decide it.
LEMMA EventDecides ==
    ASSUME Decided, agenda = <<>>, UNCHANGED outcome, WaitOnce', Single',
           \A n \in Mail : (Waits(n)' => Waits(n)) /\ (conv'[n].processing => conv[n].processing),
           \A t \in Pending' : ~Closes(t),
           \A n \in Mail : Tokened(n)' => outcome[n] = <<>> /\ ~conv'[n].processing /\ ~Waits(n)'
    PROVE  Decided'
<1>1. Closing'
  BY ClosingKeeps
<1>2. \A n \in Mail : Place(n)'
  BY DEF Decided, Place
<1> QED BY <1>1, <1>2 DEF Decided

LEMMA ReplyDecides ==
    ASSUME Lent, Quiet, Decided, NEW s \in Socket, ReadReply(s)
    PROVE  Decided'
<1>0. Types /\ UNCHANGED <<sk, pool, outcome>> /\ agenda = <<>> /\ line[s] # <<>>
  BY ReplyCases DEF Lent
<1>1. sk[s].st = "up"
  BY <1>0 DEF Quiet
<1>2. WaitOnce' /\ \A n \in Mail : Waits(n)' <=> Waits(n)
  BY <1>0, WaitSame DEF Decided
<1>3. CASE agenda' = <<>> /\ UNCHANGED conv
  <2>1. Pending' = {}
    BY <1>3, FreshNone
  <2>2. Single'
    <3>1. DOMAIN agenda' = {}
      BY <1>3
    <3> QED BY <3>1 DEF Single
  <2> QED BY <1>0, <1>2, <1>3, <2>1, <2>2, EventDecides DEF Tokened
<1>4. ASSUME NEW m \in Mail, Talks(m, s), EndsTalk(m), agenda' = <<Release(s), Decide(m, "bounce")>>
      PROVE  Decided'
  <2> DEFINE t == Release(s)
             u == Decide(m, "bounce")
  <2>1. t \in Tasks /\ u \in Tasks /\ t.do = "release_client" /\ u.do = "decide" /\ u.mail = m
    BY TasksMade DEF Args, Release, Decide, Task
  <2> HIDE DEF t, u
  <2>2. Pending' = {t, u}
    BY <1>4, <2>1, FreshTwo DEF Binds, Bind, t, u
  <2>3. Single'
    BY <1>4, <2>1, FreshSingle DEF Token, t, u
  <2>4. ~conv'[m].processing /\ \A n \in Mail : n # m => conv'[n] = conv[n]
    BY <1>4 DEF EndsTalk
  <2>5. outcome[m] = <<>> /\ ~Waits(m)
    BY <1>4 DEF Decided, Place, Talks
  <2>6. \A n \in Mail : Tokened(n)' => n = m
    BY <2>1, <2>2 DEF Tokened, Token
  <2> QED BY <1>0, <1>2, <2>1, <2>2, <2>3, <2>4, <2>5, <2>6, EventDecides DEF Closes
<1>5. ASSUME NEW m \in Mail, Talks(m, s), SameTalk,
             Single', NEW t \in Pending', t.mail = m, t.sock = s,
             \A n \in Mail : Tokened(n)' => n = m /\ t.do = "stop",
             \A u \in Pending' : Closes(u) => u = t,
             \A i \in DOMAIN agenda' : i # 1 /\ Closes(agenda'[i]) =>
                i = 2 /\ agenda'[1].do = "send_command" /\ agenda'[1].mail = m /\ agenda'[1].sock = s
      PROVE  Decided'
  <2>1. \A n \in Mail : (conv'[n].processing <=> conv[n].processing) /\ conv'[n].sock = conv[n].sock
    BY <1>5 DEF SameTalk
  <2>2. Talks(m, s)'
    BY <1>5, <2>1 DEF Talks
  <2>3. outcome[m] = <<>> /\ ~Waits(m)
    BY <1>5 DEF Decided, Place, Talks
  <2>4. Place(m)'
    BY <1>0, <1>2, <1>5, <2>3, PlaceMade DEF WillStop
  <2>5. \A n \in Mail : ~Tokened(n)
    BY <1>0, IdleAgenda
  <2>6. \A n \in Mail : n # m => Place(n)'
    BY <1>0, <1>2, <1>5, <2>1, <2>5, PlaceKeeps DEF Decided
  <2>7. Closing'
    <3>1. \A u \in Pending' : Closes(u) => Talks(u.mail, u.sock)'
      BY <1>5, <2>2
    <3>2. \A i \in DOMAIN agenda' : Closes(agenda'[i]) => agenda'[i].mail = m /\ agenda'[i].sock = s
      BY <1>5 DEF Pending
    <3>3. sk'[s].st = "up"
      BY <1>0, <1>1
    <3> QED BY <1>5, <3>1, <3>2, <3>3 DEF Closing
  <2> QED BY <1>0, <1>2, <1>5, <2>4, <2>6, <2>7 DEF Decided
<1>6. ASSUME NEW m \in Mail, Talks(m, s), SameTalk, NEW how \in {"bounce", "temp_fail"},
             agenda' = <<Send(m, s, "RSET"), Stop(m, s), Release(s), Decide(m, how)>>
      PROVE  Decided'
  <2> DEFINE t1 == Send(m, s, "RSET")
             t2 == Stop(m, s)
             t3 == Release(s)
             t4 == Decide(m, how)
  <2>1. /\ t1.do = "send_command" /\ t1.sock = s /\ t1.mail = m
        /\ t2.do = "stop" /\ t2.sock = s /\ t2.mail = m
        /\ t3.do = "release_client"
        /\ t4.do = "decide" /\ t4.mail = m
    BY DEF Send, Stop, Release, Decide, Task
  <2> HIDE DEF t1, t2, t3, t4
  <2>2. /\ DOMAIN agenda' = {1, 2, 3, 4}
        /\ agenda'[1] = t1 /\ agenda'[2] = t2 /\ agenda'[3] = t3 /\ agenda'[4] = t4
    BY <1>6 DEF t1, t2, t3, t4
  <2>3. Pending' = {t1, t2, t3, t4}
    BY <2>2 DEF Pending
  <2>4. Single'
    <3> SUFFICES ASSUME NEW n \in Mail, NEW i \in {1, 2, 3, 4}, NEW j \in {1, 2, 3, 4}, i < j,
                        Token(agenda'[i], n), Token(agenda'[j], n)
                 PROVE  FALSE
      BY <2>2 DEF Single
    <3>1. i = 4 /\ j = 4
      BY <2>1, <2>2 DEF Token
    <3> QED BY <3>1
  <2>5. \A n \in Mail : Tokened(n)' => n = m /\ t2.do = "stop"
    BY <2>1, <2>3 DEF Tokened, Token
  <2>6. \A u \in Pending' : Closes(u) => u = t2
    BY <2>1, <2>3 DEF Closes
  <2>7. \A i \in DOMAIN agenda' : i # 1 /\ Closes(agenda'[i]) => i = 2
    BY <2>1, <2>2 DEF Closes
  <2> QED BY <1>5, <1>6, <2>1, <2>2, <2>3, <2>4, <2>5, <2>6, <2>7
<1>7. ASSUME NEW m \in Mail, Talks(m, s), SameTalk,
             agenda' = <<>> \/ \E a \in Args : agenda' = <<Send(m, s, a)>>
      PROVE  Decided'
  <2>1. \A t \in Pending' : t.do = "send_command"
    <3>1. CASE agenda' = <<>>
      BY <3>1, FreshNone
    <3>2. ASSUME NEW a \in Args, agenda' = <<Send(m, s, a)>> PROVE \A t \in Pending' : t.do = "send_command"
      <4>1. Send(m, s, a) \in Tasks /\ Send(m, s, a).do = "send_command"
        BY TasksMade DEF Send, Task
      <4> QED BY <3>2, <4>1, FreshOne
    <3> QED BY <1>7, <3>1, <3>2
  <2>2. Single'
    <3>1. \A i \in DOMAIN agenda' : agenda'[i].do = "send_command"
      BY <2>1 DEF Pending
    <3> QED BY <3>1 DEF Single, Token
  <2>3. \A n \in Mail : conv'[n].processing <=> conv[n].processing
    BY <1>7 DEF SameTalk
  <2>4. \A n \in Mail : ~Tokened(n)'
    BY <2>1 DEF Tokened, Token
  <2> QED BY <1>0, <1>2, <2>1, <2>2, <2>3, <2>4, EventDecides DEF Closes
<1>8. ASSUME NEW m \in Mail, Talks(m, s), SameTalk, NEW how \in {"delivered", "discarded"},
             \/ agenda' = <<Send(m, s, "RSET"), Finish(m, s, how)>>
             \/ agenda' = <<Finish(m, s, how), Send(m, s, "RSET")>>
             \/ agenda' = <<Finish(m, s, how)>>
      PROVE  Decided'
  <2> DEFINE t == Send(m, s, "RSET")
             u == Finish(m, s, how)
  <2>1. /\ t \in Tasks /\ t.do = "send_command" /\ t.sock = s /\ t.mail = m
        /\ u \in Tasks /\ u.do = "finish_processing_mail" /\ u.sock = s /\ u.mail = m
    BY TasksMade DEF Args, Send, Finish, Task
  <2> HIDE DEF t, u
  <2>2. agenda' = <<t, u>> \/ agenda' = <<u, t>> \/ agenda' = <<u>>
    BY <1>8 DEF t, u
  <2>3. /\ Pending' \subseteq {t, u} /\ u \in Pending'
    <3>1. CASE agenda' = <<t, u>>
      BY <2>1, <3>1, FreshTwo DEF IsLast
    <3>2. CASE agenda' = <<u, t>>
      BY <2>1, <3>2, FreshTwo DEF Binds, Bind
    <3>3. CASE agenda' = <<u>>
      BY <2>1, <3>3, FreshOne
    <3> QED BY <2>2, <3>1, <3>2, <3>3
  <2>4. \A i \in DOMAIN agenda' : i # 1 /\ Closes(agenda'[i]) =>
           i = 2 /\ agenda'[1].do = "send_command" /\ agenda'[1].mail = m /\ agenda'[1].sock = s
    <3>1. CASE agenda' = <<t, u>>
      <4>1. DOMAIN agenda' = {1, 2} /\ agenda'[1] = t /\ agenda'[2] = u
        BY <3>1
      <4> QED BY <2>1, <4>1
    <3>2. CASE agenda' = <<u, t>>
      <4>1. DOMAIN agenda' = {1, 2} /\ agenda'[1] = u /\ agenda'[2] = t
        BY <3>2
      <4> QED BY <2>1, <4>1 DEF Closes
    <3>3. CASE agenda' = <<u>>
      <4>1. DOMAIN agenda' = {1}
        BY <3>3
      <4> QED BY <4>1
    <3> QED BY <2>2, <3>1, <3>2, <3>3
  <2>5. Single' /\ \A n \in Mail : ~Tokened(n)'
    <3>1. \A i \in DOMAIN agenda' : agenda'[i] \in {t, u}
      BY <2>3 DEF Pending
    <3> QED BY <2>1, <2>3, <3>1 DEF Single, Tokened, Token
  <2>6. \A w \in Pending' : Closes(w) => w = u
    BY <2>1, <2>3 DEF Closes
  <2> QED BY <1>5, <1>8, <2>1, <2>3, <2>4, <2>5, <2>6
<1> QED BY <1>0, <1>3, <1>4, <1>6, <1>7, <1>8, ReplyCases

LEMMA StartDecides ==
    ASSUME Types, Decided, NEW m \in Mail, Start(m)
    PROVE  Decided'
<1>1. /\ agenda = <<>> /\ UNCHANGED <<conv, outcome, pool>> /\ outcome[m] = <<>> /\ conv[m] = NoConv
      /\ agenda' = <<TryHost(m)>> /\ ~Waits(m)
  BY DEF Start, Idle, Waits
<1>2. ~conv[m].processing
  BY <1>1 DEF NoConv
<1> DEFINE t == TryHost(m)
<1>3. t \in Tasks /\ t.do = "try_deliver_host" /\ t.mail = m
  BY TasksMade DEF TryHost, Task
<1> HIDE DEF t
<1>4. Pending' = {t}
  BY <1>1, <1>3, FreshOne DEF t
<1>5. Single'
  <2>1. agenda' = <<t>>
    BY <1>1 DEF t
  <2>2. \A i \in DOMAIN agenda' : i = 1
    BY <2>1
  <2>3. \A i, j \in {1} : ~(i < j)
    OBVIOUS
  <2> QED BY <2>2, <2>3 DEF Single
<1>6. WaitOnce' /\ \A n \in Mail : Waits(n)' <=> Waits(n)
  BY <1>1, WaitSame DEF Decided
<1>7. \A n \in Mail : Tokened(n)' => n = m
  BY <1>3, <1>4 DEF Tokened, Token
<1> QED BY <1>1, <1>2, <1>3, <1>4, <1>5, <1>6, <1>7, EventDecides DEF Closes

LEMMA StreamDecides ==
    ASSUME Types, Decided, NEW st \in streams, StreamEnds(st[1], st[2])
    PROVE  Decided'
<1>1. /\ agenda = <<>> /\ UNCHANGED <<conv, outcome, pool>>
      /\ st[1] \in Mail /\ st[2] \in Socket /\ agenda' = <<Send(st[1], st[2], "DOT")>>
  BY StreamTypes DEF StreamEnds
<1> DEFINE t == Send(st[1], st[2], "DOT")
<1>3. t \in Tasks /\ t.do = "send_command"
  BY <1>1, TasksMade DEF Args, Send, Task
<1> HIDE DEF t
<1>4. Pending' = {t}
  BY <1>1, <1>3, FreshOne DEF t
<1>5. Single' /\ \A n \in Mail : ~Tokened(n)'
  <2>1. \A i \in DOMAIN agenda' : agenda'[i] = t
    BY <1>4 DEF Pending
  <2> QED BY <1>3, <1>4, <2>1 DEF Single, Tokened, Token
<1>6. WaitOnce' /\ \A n \in Mail : Waits(n)' <=> Waits(n)
  BY <1>1, WaitSame DEF Decided
<1> QED BY <1>1, <1>3, <1>4, <1>5, <1>6, EventDecides DEF Closes

\* The mail that waited longest is taken out, and is lent the socket or tries
\* again.
LEMMA TakenDecides ==
    ASSUME Types, Decided, agenda = <<>>, UNCHANGED outcome,
           \A n \in Mail : conv'[n].processing => conv[n].processing,
           NEW p \in Pool, pool[p].waiting # <<>>, pool'[p].waiting = Tail(pool[p].waiting),
           \A q \in Pool \ {p} : pool'[q].waiting = pool[q].waiting,
           NEW t \in Tasks, t.mail = Head(pool[p].waiting), ~Closes(t),
           NEW u \in Tasks, u.do = "dispense", agenda' \in {<<t>>, <<t, u>>}
    PROVE  Decided'
<1> DEFINE m == Head(pool[p].waiting)
<1>1. /\ WaitOnce' /\ m \in Mail /\ Waits(m)
      /\ \A n \in Mail : Waits(n)' => Waits(n) /\ n # m
  BY WaitLess DEF Decided
<1> HIDE DEF m
<1>2. outcome[m] = <<>> /\ ~conv[m].processing
  BY <1>1 DEF Decided, Place
<1>3. Pending' \subseteq {t, u}
  <2>1. CASE agenda' = <<t>>
    BY <2>1, FreshOne
  <2>2. CASE agenda' = <<t, u>>
    <3>1. DOMAIN agenda' = {1, 2} /\ agenda'[1] = t /\ agenda'[2] = u
      BY <2>2
    <3> QED BY <3>1 DEF Pending
  <2> QED BY <2>1, <2>2
<1>4. Single'
  BY FreshSingle DEF Token
<1>5. \A n \in Mail : Tokened(n)' => n = m
  BY <1>3 DEF Tokened, Token, m
<1> QED BY <1>1, <1>2, <1>3, <1>4, <1>5, EventDecides DEF Closes

LEMMA ConnectedDecides ==
    ASSUME Types, Decided, NEW s \in Socket, Connected(s)
    PROVE  Decided'
<1>1. agenda = <<>> /\ UNCHANGED <<conv, outcome>> /\ sk[s].st = "connecting"
  BY DEF Connected, Idle
<1>2. PICK p \in Pool : p = sk[s].pool
  BY <1>1 DEF Types
<1>3. pool[p] \in PoolT
  BY DEF Types
<1>4. CASE pool[p].waiting # <<>>
  <2>1. PICK m \in Mail : m = Head(pool[p].waiting)
    BY <1>3, <1>4 DEF PoolT
  <2> DEFINE t == OnSocket(m, s)
             q == [pool[p] EXCEPT !.waiting = Tail(pool[p].waiting)]
  <2>2. pool' = [pool EXCEPT ![p] = q] /\ agenda' = <<t>>
    BY <1>2, <1>4, <2>1 DEF Connected, Types
  <2>3. t \in Tasks /\ t.do = "try_deliver_host_on_socket" /\ t.mail = m
    BY TasksMade DEF OnSocket, Task
  <2>4. q.waiting = Tail(pool[p].waiting)
    BY <1>3 DEF PoolT
  <2>5. Dispense(p) \in Tasks /\ Dispense(p).do = "dispense"
    BY TasksMade DEF Dispense, Task
  <2> HIDE DEF t, q
  <2>6. pool'[p].waiting = Tail(pool[p].waiting) /\ \A g \in Pool \ {p} : pool'[g].waiting = pool[g].waiting
    BY <2>2, <2>4 DEF Types
  <2> QED BY <1>1, <1>4, <2>1, <2>2, <2>3, <2>5, <2>6, TakenDecides DEF Closes
<1>5. CASE pool[p].waiting = <<>>
  <2> DEFINE t == Dispense(p)
             q == [pool[p] EXCEPT !.idle = Append(pool[p].idle, s)]
  <2>1. pool' = [pool EXCEPT ![p] = q] /\ agenda' = <<t>>
    BY <1>2, <1>5 DEF Connected, Types
  <2>2. t \in Tasks /\ t.do = "dispense"
    BY TasksMade DEF Dispense, Task
  <2>3. q.waiting = pool[p].waiting
    BY <1>3 DEF PoolT
  <2> HIDE DEF t, q
  <2>4. WaitOnce' /\ \A n \in Mail : Waits(n)' <=> Waits(n)
    BY <2>1, <2>3, WaitSame DEF Types, Decided
  <2>5. Pending' = {t}
    BY <2>1, <2>2, FreshOne
  <2>6. Single' /\ \A n \in Mail : ~Tokened(n)'
    <3>1. \A i \in DOMAIN agenda' : agenda'[i] = t
      BY <2>5 DEF Pending
    <3> QED BY <2>2, <2>5, <3>1 DEF Single, Tokened, Token
  <2> QED BY <1>1, <2>2, <2>4, <2>5, <2>6, EventDecides DEF Closes
<1> QED BY <1>4, <1>5

LEMMA FailDecides ==
    ASSUME Types, Decided, NEW s \in Socket, ConnectFails(s) \/ TimesOut(s)
    PROVE  Decided'
<1>1. agenda = <<>> /\ UNCHANGED <<conv, outcome>>
  BY DEF ConnectFails, TimesOut, Idle
<1>2. PICK p \in Pool : p = sk[s].pool /\ CreateFails(p)
  BY FailTypes
<1>3. /\ \A g \in Pool \ {p} : pool'[g] = pool[g]
      /\ \/ /\ pool[p].waiting = <<>> /\ agenda' = <<Dispense(p)>>
            /\ pool'[p].waiting = pool[p].waiting
         \/ /\ pool[p].waiting # <<>>
            /\ agenda' = <<TryHost(Head(pool[p].waiting)), Dispense(p)>>
            /\ pool'[p].waiting = Tail(pool[p].waiting)
  BY <1>2, CreateFailsCases
<1> DEFINE d == Dispense(p)
<1>4. d \in Tasks /\ d.do = "dispense"
  BY TasksMade DEF Dispense, Task
<1>5. CASE pool[p].waiting = <<>>
  <2>1. WaitOnce' /\ \A n \in Mail : Waits(n)' <=> Waits(n)
    BY <1>3, <1>5, WaitSame DEF Decided
  <2>2. Pending' = {d}
    BY <1>3, <1>4, <1>5, FreshOne
  <2> HIDE DEF d
  <2>3. Single' /\ \A n \in Mail : ~Tokened(n)'
    <3>1. \A i \in DOMAIN agenda' : agenda'[i] = d
      BY <2>2 DEF Pending
    <3> QED BY <1>4, <2>2, <3>1 DEF Single, Tokened, Token
  <2> QED BY <1>1, <1>4, <2>1, <2>2, <2>3, EventDecides DEF Closes
<1>6. CASE pool[p].waiting # <<>>
  <2>1. PICK m \in Mail : m = Head(pool[p].waiting)
    BY <1>6 DEF Types, PoolT
  <2> DEFINE t == TryHost(m)
  <2>2. t \in Tasks /\ t.do = "try_deliver_host" /\ t.mail = m
    BY TasksMade DEF TryHost, Task
  <2>3. agenda' = <<t, d>>
    BY <1>3, <1>6, <2>1
  <2> HIDE DEF t, d
  <2> QED BY <1>1, <1>3, <1>4, <1>6, <2>1, <2>2, <2>3, TakenDecides DEF Closes
<1> QED BY <1>5, <1>6

LEMMA ClosedDecides ==
    ASSUME Types, Decided, NEW s \in Socket, Closed(s)
    PROVE  Decided'
<1>1. agenda = <<>> /\ UNCHANGED <<pool, outcome>>
  BY ClosedCases
<1>2. WaitOnce' /\ \A n \in Mail : Waits(n)' <=> Waits(n)
  BY <1>1, WaitSame DEF Decided
<1>3. ASSUME NEW m \in Mail, Talks(m, s), EndsTalk(m), agenda' = <<ReleaseBad(s), TryHost(m)>>
      PROVE  Decided'
  <2> DEFINE t == ReleaseBad(s)
             u == TryHost(m)
  <2>1. /\ t \in Tasks /\ t.do = "release_client"
        /\ u \in Tasks /\ u.do = "try_deliver_host" /\ u.mail = m
    BY TasksMade DEF ReleaseBad, TryHost, Task
  <2>2. agenda' = <<t, u>>
    BY <1>3
  <2> HIDE DEF t, u
  <2>3. Pending' = {t, u}
    <3>1. DOMAIN agenda' = {1, 2} /\ agenda'[1] = t /\ agenda'[2] = u
      BY <2>2
    <3> QED BY <3>1 DEF Pending
  <2>4. Single'
    BY <2>1, <2>2, FreshSingle DEF Token
  <2>5. ~conv'[m].processing /\ \A n \in Mail : n # m => conv'[n] = conv[n]
    BY <1>3 DEF EndsTalk
  <2>6. outcome[m] = <<>> /\ ~Waits(m)
    BY <1>3 DEF Decided, Place, Talks
  <2>7. \A n \in Mail : Tokened(n)' => n = m
    BY <2>1, <2>3 DEF Tokened, Token
  <2> QED BY <1>1, <1>2, <2>1, <2>3, <2>4, <2>5, <2>6, <2>7, EventDecides DEF Closes
<1>4. ASSUME SameTalk, agenda' = <<>> \/ (notes \in Pool /\ agenda' = <<Destroy(s, notes)>>)
      PROVE  Decided'
  <2>1. \A t \in Pending' : t.do = "destroy"
    <3>1. CASE agenda' = <<>>
      BY <3>1, FreshNone
    <3>2. CASE notes \in Pool /\ agenda' = <<Destroy(s, notes)>>
      <4>1. Destroy(s, notes) \in Tasks /\ Destroy(s, notes).do = "destroy"
        BY <3>2, TasksMade DEF Destroy, Task
      <4> QED BY <3>2, <4>1, FreshOne
    <3> QED BY <1>4, <3>1, <3>2
  <2>2. Single' /\ \A n \in Mail : ~Tokened(n)'
    <3>1. \A i \in DOMAIN agenda' : agenda'[i].do = "destroy"
      BY <2>1 DEF Pending
    <3> QED BY <2>1, <3>1 DEF Single, Tokened, Token
  <2>3. \A n \in Mail : conv'[n].processing <=> conv[n].processing
    BY <1>4 DEF SameTalk
  <2> QED BY <1>1, <1>2, <2>1, <2>2, <2>3, EventDecides DEF Closes
<1> QED BY <1>3, <1>4, ClosedCases

LEMMA IdleTimeoutDecides ==
    ASSUME Types, Decided, NEW s \in Socket, IdleTimeout(s)
    PROVE  Decided'
<1>1. agenda = <<>> /\ UNCHANGED <<pool, outcome, conv>>
  BY IdleTimeoutCases
<1>2. PICK p \in Pool : agenda' = <<Destroy(s, p)>>
  BY IdleTimeoutCases
<1>3. WaitOnce' /\ \A n \in Mail : Waits(n)' <=> Waits(n)
  BY <1>1, WaitSame DEF Decided
<1>4. \A t \in Pending' : t.do = "destroy"
  <2>1. Destroy(s, p) \in Tasks /\ Destroy(s, p).do = "destroy"
    BY TasksMade DEF Destroy, Task
  <2> QED BY <1>2, <2>1, FreshOne
<1>5. Single' /\ \A n \in Mail : ~Tokened(n)'
  <2>1. \A i \in DOMAIN agenda' : agenda'[i].do = "destroy"
    BY <1>4 DEF Pending
  <2> QED BY <1>4, <2>1 DEF Single, Tokened, Token
<1> QED BY <1>1, <1>3, <1>4, <1>5, EventDecides DEF Closes

LEMMA DecidedInit == Init => Decided
<1> SUFFICES ASSUME Init PROVE Decided
  OBVIOUS
<1>1. agenda = <<>> /\ outcome = [m \in Mail |-> <<>>] /\ conv = [m \in Mail |-> NoConv] /\ pool = [p \in Pool |-> NoPool]
  BY DEF Init
<1>2. DOMAIN agenda = {} /\ Pending = {} /\ \A m \in Mail : ~Tokened(m)
  BY <1>1, IdleAgenda
<1>3. \A p \in Pool : pool[p].waiting = <<>>
  BY <1>1 DEF NoPool
<1>4. \A m \in Mail : ~Waits(m)
  <2>1. \A p \in Pool : Range(pool[p].waiting) = {}
    BY <1>3 DEF Range
  <2> QED BY <2>1 DEF Waits
<1>5. \A m \in Mail : Place(m)
  <2>1. Len(<<>>) = 0
    OBVIOUS
  <2> QED BY <1>1, <1>2, <1>4, <2>1 DEF Place
<1>6. WaitOnce
  <2>1. \A p \in Pool : DOMAIN pool[p].waiting = {}
    BY <1>3
  <2> QED BY <2>1 DEF WaitOnce
<1>7. outcome \in [Mail -> Seq(Args)]
  <2>1. <<>> \in Seq(Args)
    OBVIOUS
  <2> QED BY <1>1, <2>1
<1>8. Single /\ Closing
  BY <1>2 DEF Single, Closing
<1> QED BY <1>5, <1>6, <1>7, <1>8 DEF Decided

LEMMA DecidedNext == Lent /\ Quiet /\ Decided /\ [Next]_vars => Decided'
<1> SUFFICES ASSUME Lent, Quiet, Decided, [Next]_vars PROVE Decided'
  OBVIOUS
<1>0. Types
  BY DEF Lent
<1>1. CASE UNCHANGED vars
  <2>1. UNCHANGED <<agenda, conv, sk, pool, outcome>>
    BY <1>1 DEF vars
  <2>2. Pending' = Pending
    BY <2>1 DEF Pending
  <2>3. \A m \in Mail : /\ Tokened(m)' <=> Tokened(m)
                        /\ WillStop(m)' <=> WillStop(m)
                        /\ Waits(m)' <=> Waits(m)
    BY <2>1, <2>2 DEF Tokened, WillStop, Waits
  <2>4. \A m \in Mail : Place(m)'
    BY <2>1, <2>3 DEF Decided, Place
  <2>5. Single' /\ WaitOnce'
    BY <2>1 DEF Decided, Single, WaitOnce
  <2>6. Closing'
    BY <2>1, <2>2 DEF Decided, Closing, Talks
  <2> QED BY <2>1, <2>4, <2>5, <2>6 DEF Decided
<1>2. CASE Turn
  BY <1>0, <1>2, DispenseDecides, DestroyDecides, TryHostDecides, ReleaseDecides, LendDecides, SendDecides,
     DecidesDecides, FinishDecides
  DEF Turn
<1>3. CASE \E m \in Mail : Start(m)
  BY <1>0, <1>3, StartDecides
<1>4. CASE \E s \in Socket : ReadReply(s) \/ Connected(s) \/ ConnectFails(s) \/ TimesOut(s) \/ Closed(s) \/ IdleTimeout(s)
  BY <1>0, <1>4, ReplyDecides, ConnectedDecides, FailDecides, ClosedDecides, IdleTimeoutDecides
<1>5. CASE \E st \in streams : StreamEnds(st[1], st[2])
  BY <1>0, <1>5, StreamDecides
<1> QED BY <1>1, <1>2, <1>3, <1>4, <1>5 DEF Next

\* Whatever replies, closes and errors come, in whatever order, a mail is not
\* both delivered and tried again, or decided of twice.
THEOREM MailsDecidedOnce == NoTimeouts => (Spec => []DecidedOnce)
<1> SUFFICES ASSUME NoTimeouts PROVE Spec => []DecidedOnce
  OBVIOUS
<1>1. Init => Lent /\ Quiet /\ Decided
  BY LentInit, QuietInit, DecidedInit
<1>2. Lent /\ Quiet /\ Decided /\ [Next]_vars => (Lent /\ Quiet /\ Decided)'
  BY LentNext, QuietNext, DecidedNext DEF Lent
<1>3. Lent /\ Quiet /\ Decided => DecidedOnce
  BY DEF Decided, Place, DecidedOnce
<1> QED BY <1>1, <1>2, <1>3, PTL DEF Spec
=============================================================================
