------------------------------- MODULE Delivery -------------------------------
(***************************************************************************)
(* Deliveries of several mails to one host (outbound.js): the pool of      *)
(* sockets, the conversation try_deliver_host_on_socket has on the socket  *)
(* it is lent, and the three lists its replies put the recipients in.      *)
(*                                                                         *)
(* agenda is the stack of calls of the running turn of the event loop, as  *)
(* in Hooks.  A recipient is its index in todo.rcpt_to.  A reply is its    *)
(* class, 251 and 252 to RCPT apart; "odd" is a line that is no reply.     *)
(* The remote end reads commands as they are written; its replies wait in  *)
(* line[s].  The addresses of a mail, over all its MXs, lead to one pool.  *)
(* STARTTLS and AUTH are left out: EHLO stands for the negotiation.        *)
(***************************************************************************)
EXTENDS Naturals, Sequences, FiniteSets, SequencesExt

CONSTANTS Mails,       \* how many mails there are
          Rcpts,       \* how many recipients each mail has
          Addresses,   \* how many hosts, over all MXs, each mail may try
          Answers,     \* the replies the remote end may give to each mail's commands
          Settings,    \* values of cfg
          Sockets,     \* bound: sockets in use at once
          Pools,       \* bound: pools in use at once
          Faults,      \* "refuse", "close", "timeout"
          Losses       \* bound: how many of them happen

Mail   == 1 .. Mails
Socket == 1 .. Sockets
Pool   == 1 .. Pools
None   == 0

\* What is on the wire; what a reply to it may be.
Commands     == {"connect", "EHLO", "LHLO", "HELO", "MAIL", "RCPT", "DATA", "DOT", "RSET"}
Replies(cmd) == {"2", "3", "4", "5", "odd"} \cup (IF cmd = "RCPT" THEN {"251"} ELSE {})

ASSUME DeliveryAssumption ==
    /\ Mails \in Nat \ {0} /\ Rcpts \in [Mail -> Nat \ {0}] /\ Addresses \in [Mail -> Nat]
    /\ Sockets \in Nat /\ Pools \in Nat \ {0} /\ Losses \in Nat
    /\ Settings \subseteq [pooling : BOOLEAN, lmtp : BOOLEAN, max : Nat \ {0}]
    /\ Faults \subseteq {"refuse", "close", "timeout"}
    /\ \A m \in Mail, cmd \in Commands : Answers[m][cmd] \subseteq Replies(cmd)

VARIABLES agenda,
          cfg,       \* pool_timeout is not 0, using_lmtp, pool_concurrency_max
          conv,      \* the closure of each mail's last conversation
          left,      \* hosts each mail has still to try
          outcome,   \* what was decided of each mail, in order
          sk,        \* the sockets
          line,      \* replies on their way
          srv,       \* the remote end of each socket
          pool,      \* each pool's idle sockets, waiting mails, and size
          notes,     \* server.notes.pool[name], or None
          streams,   \* data streams being piped: mail and socket
          said,      \* what the remote end said of each recipient in that conversation
          refused,   \* the mails it refused something of
          losses     \* how many faults there were

vars == <<agenda, cfg, conv, left, outcome, sk, line, srv, pool, notes, streams, said, refused, losses>>

Rcpt(m) == 1 .. Rcpts[m]

Unsaid(m) == [r \in Rcpt(m) |-> "none"]

NoConv   == [sock |-> None, command |-> "none", recip_index |-> 0, ok |-> <<>>, fail |-> <<>>,
             bounce |-> <<>>, lmtp_rcpt_idx |-> 0, processing |-> FALSE, fp_called |-> FALSE]
NoSocket == [st |-> "none", acquired |-> FALSE, fromPool |-> FALSE, mail |-> None, pool |-> None]
NoServer == [from |-> None, to |-> <<>>, data |-> FALSE]
NoPool   == [idle |-> <<>>, waiting |-> <<>>, count |-> 0]

Init == /\ agenda = <<>>
        /\ cfg \in Settings
        /\ conv = [m \in Mail |-> NoConv]
        /\ left = Addresses
        /\ outcome = [m \in Mail |-> <<>>]
        /\ sk = [s \in Socket |-> NoSocket]
        /\ line = [s \in Socket |-> <<>>]
        /\ srv = [s \in Socket |-> NoServer]
        /\ pool = [p \in Pool |-> NoPool]
        /\ notes = None
        /\ streams = {}
        /\ said = [m \in Mail |-> Unsaid(m)]
        /\ refused = {}
        /\ losses = 0

------------------------------------------------------------------------------
(* The calls of a turn. *)

Task(do, m, s, p, arg) == [do |-> do, mail |-> m, sock |-> s, pool |-> p, arg |-> arg]

TryHost(m)         == Task("try_deliver_host", m, None, None, "")
Send(m, s, cmd)    == Task("send_command", m, s, None, cmd)
Stop(m, s)         == Task("stop", m, s, None, "")
Release(s)         == Task("release_client", None, s, None, "ok")
ReleaseBad(s)      == Task("release_client", None, s, None, "error")
Finish(m, s, how)  == Task("finish_processing_mail", m, s, None, how)
Decide(m, how)     == Task("decide", m, None, None, how)
Dispense(p)        == Task("dispense", None, None, p, "")
Destroy(s, p)      == Task("destroy", None, s, p, "")
OnSocket(m, s)     == Task("try_deliver_host_on_socket", m, s, None, "")

Top         == Head(agenda)
Doing(do)   == agenda # <<>> /\ Top.do = do
Call(tasks) == agenda' = tasks \o Tail(agenda)

\* Mistake: a conversation that is over still listens.
MistakeTalks(m, s) == m # None /\ conv[m].sock = s

\* m's conversation is the one whose listeners are on s, and is not over.
Talks(m, s) == m # None /\ conv[m].sock = s /\ conv[m].processing

------------------------------------------------------------------------------
(* The pool: generic-pool, and the factory get_pool() gives it. *)

Pooled(s) == \E p \in Pool : s \in Range(pool[p].idle)

\* Nothing refers to it any more, so that its name may be used again.
Unused(s) == /\ \/ sk[s].st \in {"none", "gone"}
                \/ sk[s].st = "closed" /\ ~sk[s].acquired
             /\ ~Pooled(s)
             /\ \A st \in streams : st[2] # s
             /\ \A i \in DOMAIN agenda : agenda[i].sock # s
NewSocket(s) == Unused(s) /\ \A u \in Socket : Unused(u) => s =< u

Empty(p) == p # notes /\ pool[p] = NoPool
NewPool(p) == Empty(p) /\ \A q \in Pool : Empty(q) => p =< q
PoolLeft == \E p \in Pool : Empty(p)

\* get_pool().
GetPool(p) == IF notes = None THEN NewPool(p) ELSE p = notes

\* A waiting mail gets an idle socket, or a new one is made for it.
PoolDispense ==
    /\ Doing("dispense")
    /\ LET p == Top.pool
           q == pool[p]
       IN  IF q.waiting # <<>> /\ q.idle # <<>>
           THEN /\ pool' = [pool EXCEPT ![p].idle = Tail(@),
                                        ![p].waiting = IF sk[Head(q.idle)].st = "up" THEN Tail(@)
                                                       ELSE @]
                /\ Call(IF sk[Head(q.idle)].st = "up"
                        THEN <<OnSocket(Head(q.waiting), Head(q.idle))>>
                        ELSE <<Destroy(Head(q.idle), p), Dispense(p)>>)
                /\ UNCHANGED <<sk, line, srv>>
           ELSE IF q.waiting # <<>> /\ q.count < cfg.max
           THEN /\ pool' = [pool EXCEPT ![p].count = @ + 1]
                /\ \E s \in Socket :
                      /\ NewSocket(s)
                      /\ sk' = [sk EXCEPT ![s] = [NoSocket EXCEPT !.st = "connecting", !.pool = p]]
                      /\ line' = [line EXCEPT ![s] = <<>>]
                      /\ srv' = [srv EXCEPT ![s] = NoServer]
                /\ Call(<<>>)
           ELSE Call(<<>>) /\ UNCHANGED <<pool, sk, line, srv>>
    /\ UNCHANGED <<cfg, conv, left, outcome, notes, streams, said, refused, losses>>

\* The filter over availableObjects; a socket is idle once.
Without(q, s) == IF s \in Range(q) THEN RemoveAt(q, CHOOSE i \in DOMAIN q : q[i] = s) ELSE q

\* destroy() of generic-pool, and of the factory, which drops an empty pool.
PoolDestroy ==
    /\ Doing("destroy")
    /\ LET p    == Top.pool
           size == IF pool[p].count > 0 THEN pool[p].count - 1 ELSE 0
       IN  /\ pool' = [pool EXCEPT ![p].count = size,
                                   ![p].idle = Without(@, Top.sock)]
           /\ notes' = IF size = 0 THEN None ELSE notes
    /\ sk' = [sk EXCEPT ![Top.sock] = [NoSocket EXCEPT !.st = "gone"]]
    /\ line' = [line EXCEPT ![Top.sock] = <<>>]
    /\ srv' = [srv EXCEPT ![Top.sock] = NoServer]
    /\ Call(<<>>)
    /\ UNCHANGED <<cfg, conv, left, outcome, streams, said, refused, losses>>

\* try_deliver_host() and get_client().
TryDeliverHost ==
    /\ Doing("try_deliver_host")
    /\ LET m == Top.mail
       IN  /\ conv' = [conv EXCEPT ![m] = NoConv]
           /\ IF left[m] = 0
              THEN Call(<<Decide(m, "temp_fail")>>) /\ UNCHANGED <<left, pool, notes>>
              ELSE \E p \in Pool :
                   /\ GetPool(p)
                   /\ left' = [left EXCEPT ![m] = @ - 1]
                   /\ notes' = p
                   /\ IF Len(pool[p].waiting) >= cfg.max
                      THEN Call(<<TryHost(m)>>) /\ UNCHANGED pool
                      ELSE /\ pool' = [pool EXCEPT ![p].waiting = Append(@, m)]
                           /\ Call(<<Dispense(p)>>)
    /\ UNCHANGED <<cfg, outcome, sk, line, srv, streams, said, refused, losses>>

\* release_client(): to the pool that is in server.notes now, whichever that
\* is; with none, the socket is left as it is.
ReleaseClient ==
    /\ Doing("release_client")
    /\ LET s == Top.sock
       IN  IF ~sk[s].acquired THEN Call(<<>>) /\ UNCHANGED <<sk, pool>>
           ELSE IF notes = None
           THEN Call(<<>>) /\ sk' = [sk EXCEPT ![s].acquired = FALSE] /\ UNCHANGED pool
           ELSE IF Top.arg = "error" \/ ~cfg.pooling
           THEN /\ Call(<<Destroy(s, notes)>>)
                /\ sk' = [sk EXCEPT ![s].acquired = FALSE] /\ UNCHANGED pool
           ELSE /\ sk' = [sk EXCEPT ![s].acquired = FALSE, ![s].mail = None, ![s].fromPool = TRUE]
                /\ pool' = [pool EXCEPT ![notes].idle = Append(@, s)]
                /\ Call(<<Dispense(notes)>>)
    /\ UNCHANGED <<cfg, conv, left, outcome, line, srv, notes, streams, said, refused, losses>>

------------------------------------------------------------------------------
(* The conversation. *)

TryDeliverHostOnSocket ==
    /\ Doing("try_deliver_host_on_socket")
    /\ LET m == Top.mail
           s == Top.sock
       IN  /\ sk' = [sk EXCEPT ![s].acquired = TRUE, ![s].mail = m]
           /\ conv' = [conv EXCEPT ![m] = [NoConv EXCEPT !.sock = s, !.command = "connect",
                                                         !.processing = TRUE]]
           /\ said' = [said EXCEPT ![m] = Unsaid(m)]
           /\ Call(IF sk[s].fromPool THEN <<Send(m, s, "MAIL")>> ELSE <<>>)
    /\ UNCHANGED <<cfg, left, outcome, line, srv, pool, notes, streams, refused, losses>>

\* The remote end: whether a command comes in order, what it may reply, what
\* it remembers.  In a message everything but the dot is content.
InOrder(remote, cmd) ==
    IF remote.data THEN cmd = "DOT"
    ELSE CASE cmd = "MAIL" -> remote.from = None
           [] cmd = "RCPT" -> remote.from # None
           [] cmd = "DATA" -> remote.to # <<>>
           [] OTHER        -> cmd # "DOT"

Codes(remote, m, cmd) ==
    IF InOrder(remote, cmd)
    THEN [1 .. (IF cmd = "DOT" /\ cfg.lmtp THEN Len(remote.to) ELSE 1) -> Answers[m][cmd]]
    ELSE {IF remote.data THEN <<>> ELSE <<"5">>}

Remember(remote, m, cmd, codes) ==
    IF ~InOrder(remote, cmd) THEN remote
    ELSE CASE cmd = "MAIL" -> IF codes = <<"2">> THEN [remote EXCEPT !.from = m] ELSE remote
           [] cmd = "RCPT" -> IF codes[1] \in {"2", "251"}
                              THEN [remote EXCEPT !.to = Append(@, conv[m].recip_index)] ELSE remote
           [] cmd = "DATA" -> IF codes = <<"3">> THEN [remote EXCEPT !.data = TRUE] ELSE remote
           [] OTHER        -> NoServer

\* What it means for the mail and its recipients.
Learn(remote, m, cmd, codes) ==
    LET meant == InOrder(remote, cmd)
    IN  /\ refused' = IF meant /\ Range(codes) \cap {"4", "5", "odd"} # {}
                      THEN refused \cup {m} ELSE refused
        /\ said' = CASE meant /\ cmd = "RCPT" -> [said EXCEPT ![m][conv[m].recip_index] = codes[1]]
                     [] meant /\ cmd = "DOT" /\ cfg.lmtp ->
                           [said EXCEPT ![m] = [r \in Rcpt(m) |->
                               IF r \in Range(remote.to) /\ @[r] # "251"
                               THEN codes[CHOOSE i \in DOMAIN codes : remote.to[i] = r] ELSE @[r]]]
                     [] OTHER -> said

SendCommand ==
    /\ Doing("send_command")
    /\ LET m == Top.mail
           s == Top.sock
       IN  IF sk[s].st = "up"
           THEN /\ \E codes \in Codes(srv[s], m, Top.arg) :
                      /\ line' = [line EXCEPT ![s] = @ \o codes]
                      /\ srv' = [srv EXCEPT ![s] = Remember(@, m, Top.arg, codes)]
                      /\ Learn(srv[s], m, Top.arg, codes)
                /\ conv' = IF conv[m].sock = s THEN [conv EXCEPT ![m].command = Top.arg] ELSE conv
                /\ Call(<<>>)
           ELSE /\ conv' = IF Talks(m, s) THEN [conv EXCEPT ![m].processing = FALSE] ELSE conv
                /\ Call(IF Talks(m, s) THEN <<ReleaseBad(s), TryHost(m)>> ELSE <<>>)
                /\ UNCHANGED <<line, srv, said, refused>>
    /\ UNCHANGED <<cfg, left, outcome, sk, pool, notes, streams, losses>>

\* Mistake: the socket goes back with the conversation still on it.
MistakeStopped(c) == c

Stopped(c) == [c EXCEPT !.processing = FALSE]

Decides ==
    /\ Doing("decide") \/ Doing("stop")
    /\ LET m == Top.mail
       IN  IF Doing("decide")
           THEN outcome' = [outcome EXCEPT ![m] = Append(@, Top.arg)] /\ UNCHANGED conv
           ELSE /\ conv' = IF conv[m].sock = Top.sock THEN [conv EXCEPT ![m] = Stopped(@)] ELSE conv
                /\ UNCHANGED outcome
    /\ Call(<<>>)
    /\ UNCHANGED <<cfg, left, sk, line, srv, pool, notes, streams, said, refused, losses>>

\* finish_processing_mail(): the lists are split off, and the rest of the
\* mail is delivered or discarded, before the socket goes back.
FinishProcessingMail ==
    /\ Doing("finish_processing_mail")
    /\ LET m == Top.mail
       IN  IF conv[m].fp_called \/ conv[m].sock # Top.sock THEN Call(<<>>) /\ UNCHANGED <<conv, outcome>>
           ELSE /\ conv' = [conv EXCEPT ![m].fp_called = TRUE, ![m].processing = FALSE]
                /\ outcome' = [outcome EXCEPT ![m] = Append(@, Top.arg)]
                /\ Call(<<Release(Top.sock)>>)
    /\ UNCHANGED <<cfg, left, sk, line, srv, pool, notes, streams, said, refused, losses>>

------------------------------------------------------------------------------
(* Replies. *)

\* A command whose reply concerns one recipient.
PerRcpt(cmd) == cmd = "RCPT" \/ (cmd = "DOT" /\ cfg.lmtp)

\* A reply that ends the conversation for the whole mail.
RefusesMail(cmd, code) ==
    \/ code = "3" /\ cmd # "DATA"
    \/ code = "4" /\ ~PerRcpt(cmd)
    \/ code = "5" /\ ~PerRcpt(cmd) /\ cmd # "EHLO"

\* Mistake: any success counts as 250.
MistakeSorted(c, code) ==
    CASE code = "4" -> [c EXCEPT !.fail = Append(@, c.recip_index)]
      [] code = "5" -> [c EXCEPT !.bounce = Append(@, c.recip_index)]
      [] OTHER      -> [c EXCEPT !.ok = Append(@, c.recip_index)]

\* The list the reply to RCPT puts the recipient in; 251 in none.
Sorted(c, code) ==
    CASE code = "4" -> [c EXCEPT !.fail = Append(@, c.recip_index)]
      [] code = "5" -> [c EXCEPT !.bounce = Append(@, c.recip_index)]
      [] code = "2" -> [c EXCEPT !.ok = Append(@, c.recip_index)]
      [] OTHER      -> c

\* Mistake: a recipient deferred after the dot stays in ok_recips.
MistakeResorted(c, code) ==
    CASE code = "4" -> [c EXCEPT !.fail = Append(@, Head(c.ok))]
      [] code = "5" -> [c EXCEPT !.bounce = Append(@, Head(c.ok)), !.ok = Tail(@)]
      [] OTHER      -> [c EXCEPT !.lmtp_rcpt_idx = @ + 1]

\* Mistake: a success is not counted.
MistakeCounted(c, code) ==
    CASE code = "4" -> [c EXCEPT !.fail = Append(@, Head(c.ok)), !.ok = Tail(@)]
      [] code = "5" -> [c EXCEPT !.bounce = Append(@, Head(c.ok)), !.ok = Tail(@)]
      [] OTHER      -> c

\* A reply to the dot of LMTP is taken for the first recipient of ok_recips.
Resorted(c, code) ==
    CASE code = "4" -> [c EXCEPT !.fail = Append(@, Head(c.ok)), !.ok = Tail(@)]
      [] code = "5" -> [c EXCEPT !.bounce = Append(@, Head(c.ok)), !.ok = Tail(@)]
      [] OTHER      -> [c EXCEPT !.lmtp_rcpt_idx = @ + 1]

LastRcpt(m) == conv[m].recip_index = Rcpts[m]

\* Every recipient of ok_recips had its reply to the dot.
AllAnswered(c) == c.ok = <<>> \/ c.lmtp_rcpt_idx = Len(c.ok)

\* The switch over command: what is called next.
Proceed(m, s, code) ==
    LET c == conv[m]
        NextRcpt(d) == /\ conv' = [conv EXCEPT ![m] = [d EXCEPT !.recip_index = @ + 1]]
                       /\ agenda' = <<Send(m, s, "RCPT")>>
    IN  CASE c.command = "connect" ->
                 /\ agenda' = <<Send(m, s, IF cfg.lmtp THEN "LHLO" ELSE "EHLO")>>
                 /\ UNCHANGED <<conv, streams>>
          [] c.command \in {"EHLO", "LHLO", "HELO"} ->
                 /\ agenda' = <<Send(m, s, IF code = "5" THEN "HELO" ELSE "MAIL")>>
                 /\ UNCHANGED <<conv, streams>>
          [] c.command = "MAIL" -> NextRcpt(c) /\ UNCHANGED streams
          [] c.command = "RCPT" ->
                 LET d == Sorted(c, code)
                 IN  /\ IF ~LastRcpt(m)
                        THEN NextRcpt(d)
                        ELSE /\ conv' = [conv EXCEPT ![m] = d]
                             /\ agenda' = IF d.ok # <<>> THEN <<Send(m, s, "DATA")>>
                                          ELSE <<Send(m, s, "RSET"), Finish(m, s, "discarded")>>
                     /\ UNCHANGED streams
          [] c.command = "DATA" ->
                 /\ streams' = streams \cup {<<m, s>>}
                 /\ UNCHANGED <<agenda, conv>>
          [] c.command = "DOT" /\ ~cfg.lmtp ->
                 /\ agenda' = <<Finish(m, s, "delivered"), Send(m, s, "RSET")>>
                 /\ UNCHANGED <<conv, streams>>
          [] c.command = "DOT" /\ cfg.lmtp ->
                 LET d == Resorted(c, code)
                 IN  /\ conv' = [conv EXCEPT ![m] = d]
                     /\ agenda' = IF AllAnswered(d)
                                  THEN <<Finish(m, s, "delivered")>> ELSE <<>>
                     /\ UNCHANGED streams
          [] OTHER -> UNCHANGED <<agenda, conv, streams>>

\* Events are taken when no call is running.
Idle == agenda = <<>>

ReadReply(s) ==
    /\ Idle /\ line[s] # <<>> /\ sk[s].st # "gone"
    /\ line' = [line EXCEPT ![s] = Tail(@)]
    /\ LET m    == sk[s].mail
           code == Head(line[s])
       IN  IF ~Talks(m, s) THEN UNCHANGED <<agenda, conv, streams>>
           ELSE IF code = "odd"
           THEN /\ conv' = [conv EXCEPT ![m].processing = FALSE]
                /\ agenda' = <<Release(s), Decide(m, "bounce")>>
                /\ UNCHANGED streams
           ELSE IF RefusesMail(conv[m].command, code)
           THEN /\ agenda' = <<Send(m, s, "RSET"), Stop(m, s), Release(s),
                               Decide(m, IF code = "5" THEN "bounce" ELSE "temp_fail")>>
                /\ UNCHANGED <<conv, streams>>
           ELSE Proceed(m, s, code)
    /\ UNCHANGED <<cfg, left, outcome, sk, srv, pool, notes, said, refused, losses>>

------------------------------------------------------------------------------
(* Other events. *)

\* send() of a mail, up to the addresses of its MXs.
Start(m) ==
    /\ Idle
    /\ left[m] = Addresses[m] /\ outcome[m] = <<>> /\ conv[m] = NoConv
    /\ \A p \in Pool : m \notin Range(pool[p].waiting)
    /\ agenda' = <<TryHost(m)>>
    /\ UNCHANGED <<cfg, conv, left, outcome, sk, line, srv, pool, notes, streams, said, refused, losses>>

StreamEnds(m, s) ==
    /\ Idle
    /\ <<m, s>> \in streams
    /\ streams' = streams \ {<<m, s>>}
    /\ agenda' = <<Send(m, s, "DOT")>>
    /\ UNCHANGED <<cfg, conv, left, outcome, sk, line, srv, pool, notes, said, refused, losses>>

\* The callback of create(): for the first mail that waits, if one still does.
Connected(s) ==
    /\ Idle
    /\ sk[s].st = "connecting"
    /\ sk' = [sk EXCEPT ![s].st = "up"]
    /\ \E code \in UNION {Answers[m]["connect"] : m \in Mail} :
          /\ line' = [line EXCEPT ![s] = <<code>>]
          /\ refused' = IF code = "2" THEN refused
                        ELSE refused \cup {m \in Mail : IsPrefix(<<m>>, pool[sk[s].pool].waiting)}
    /\ LET p == sk[s].pool
       IN  IF pool[p].waiting # <<>>
           THEN /\ pool' = [pool EXCEPT ![p].waiting = Tail(@)]
                /\ agenda' = <<OnSocket(Head(pool[p].waiting), s)>>
           ELSE /\ pool' = [pool EXCEPT ![p].idle = Append(@, s)]
                /\ agenda' = <<Dispense(p)>>
    /\ UNCHANGED <<cfg, conv, left, outcome, srv, notes, streams, said, losses>>

\* The callback of create() with an error, be it for the first time or not.
CreateFails(p) ==
    LET q == pool[p]
    IN  /\ pool' = [pool EXCEPT ![p].count = IF @ > 0 THEN @ - 1 ELSE 0,
                                ![p].waiting = IF @ = <<>> THEN @ ELSE Tail(@)]
        /\ agenda' = (IF q.waiting = <<>> THEN <<>> ELSE <<TryHost(Head(q.waiting))>>)
                     \o <<Dispense(p)>>

Fault(kind) == /\ kind \in Faults /\ losses < Losses
               /\ losses' = losses + 1

\* A connection error drops the pool, whoever else has sockets of it.
ConnectFails(s) ==
    /\ Idle /\ PoolLeft /\ Fault("refuse")
    /\ sk[s].st = "connecting"
    /\ sk' = [sk EXCEPT ![s] = [NoSocket EXCEPT !.st = "gone"]]
    /\ CreateFails(sk[s].pool)
    /\ notes' = None
    /\ UNCHANGED <<cfg, conv, left, outcome, line, srv, streams, said, refused>>

\* The greeting was read while nobody had the socket.
Deaf(s) == /\ sk[s].st = "up" /\ line[s] = <<>>
           /\ Talks(sk[s].mail, s) /\ conv[sk[s].mail].command = "connect"

\* create()'s listener for 'timeout' stays on the socket until it is released.
TimesOut(s) ==
    /\ Idle /\ PoolLeft
    /\ sk[s].st \in {"connecting", "up"} /\ ~sk[s].fromPool
    /\ Fault("timeout") \/ (Deaf(s) /\ UNCHANGED losses)
    /\ sk' = [sk EXCEPT ![s] = IF sk[s].st = "up" THEN [@ EXCEPT !.st = "ended"]
                               ELSE [NoSocket EXCEPT !.st = "gone"]]
    /\ CreateFails(sk[s].pool)
    /\ UNCHANGED <<cfg, conv, left, outcome, line, srv, notes, streams, said, refused>>

\* The remote end closes, or an error does; an answer of ours to FIN first.
Closed(s) ==
    /\ Idle /\ PoolLeft
    /\ \/ sk[s].st = "ended" /\ UNCHANGED losses
       \/ sk[s].st = "up" /\ Fault("close")
    /\ line' = [line EXCEPT ![s] = <<>>]
    /\ LET m == sk[s].mail
       IN  IF Talks(m, s)
           THEN /\ conv' = [conv EXCEPT ![m].processing = FALSE]
                /\ agenda' = <<ReleaseBad(s), TryHost(m)>>
                /\ sk' = [sk EXCEPT ![s].st = "closed"]
           ELSE /\ agenda' = IF Pooled(s) /\ sk[s].fromPool /\ notes # None
                             THEN <<Destroy(s, notes)>> ELSE <<>>
                /\ sk' = [sk EXCEPT ![s].st = IF Pooled(s) THEN "closed" ELSE "gone"]
                /\ UNCHANGED conv
    /\ UNCHANGED <<cfg, left, outcome, srv, pool, notes, streams, said, refused>>

\* The pool closes a socket that was idle for pool_timeout.
IdleTimeout(s) ==
    /\ Idle
    /\ \E p \in Pool : s \in Range(pool[p].idle) /\ agenda' = <<Destroy(s, p)>>
    /\ UNCHANGED <<cfg, conv, left, outcome, sk, line, srv, pool, notes, streams, said, refused, losses>>

Turn == \/ PoolDispense \/ PoolDestroy \/ TryDeliverHost \/ ReleaseClient
        \/ TryDeliverHostOnSocket \/ SendCommand \/ Decides \/ FinishProcessingMail

Next == \/ Turn
        \/ \E m \in Mail : Start(m)
        \/ \E s \in Socket : \/ ReadReply(s) \/ Connected(s) \/ ConnectFails(s) \/ TimesOut(s)
                             \/ Closed(s) \/ IdleTimeout(s)
        \/ \E st \in streams : StreamEnds(st[1], st[2])

Spec == Init /\ [][Next]_vars

\* Calls run; replies come; connections are made or refused; the file is read;
\* a socket nothing is heard of times out, and closes when it has been ended.
Fairness ==
    /\ WF_vars(Turn)
    /\ \A s \in Socket : /\ WF_vars(ReadReply(s))
                         /\ WF_vars(Connected(s) \/ ConnectFails(s))
                         /\ WF_vars(Deaf(s) /\ TimesOut(s))
                         /\ WF_vars(sk[s].st = "ended" /\ Closed(s))
                         /\ \A m \in Mail : WF_vars(StreamEnds(m, s))

FairSpec == Spec /\ Fairness

------------------------------------------------------------------------------
\* Every variable has its type; no more mails wait, and no more sockets are
\* counted, than pool_concurrency_max.
TypeOK ==
    /\ \A m \in Mail : /\ conv[m].sock \in Socket \cup {None}
                       /\ conv[m].recip_index \in 0 .. Rcpts[m]
                       /\ left[m] \in 0 .. Addresses[m]
                       /\ outcome[m] \in Seq({"delivered", "discarded", "temp_fail", "bounce"})
    /\ \A s \in Socket : /\ sk[s].st \in {"none", "connecting", "up", "ended", "closed", "gone"}
                         /\ sk[s].mail \in Mail \cup {None}
    /\ \A p \in Pool : pool[p].count \in 0 .. cfg.max /\ Len(pool[p].waiting) <= cfg.max
    /\ notes \in Pool \cup {None}
    /\ streams \subseteq Mail \X Socket

\* A socket is lent to one mail at a time, and is not idle while it is.
LentOnce == \A s \in Socket :
    LET talking == {m \in Mail : Talks(m, s)}
    IN  Cardinality(talking) <= 1 /\ (talking # {} => ~Pooled(s))

\* What became of a mail is decided once, whatever order replies, errors and
\* closes come in.
DecidedOnce == \A m \in Mail : Len(outcome[m]) <= 1

Finished(m) == outcome[m] \in {<<"delivered">>, <<"discarded">>}

\* Without pooling, a conversation that was finished has put every recipient in
\* exactly one of the three lists.  The one exception is a recipient answered 251.
ListsPartition == ~cfg.pooling => \A m \in Mail : Finished(m) =>
    \A r \in Rcpt(m) : Cardinality({l \in {"ok", "fail", "bounce"} : r \in Range(conv[m][l])})
                       = IF said[m][r] = "251" THEN 0 ELSE 1

\* In SMTP without pooling each list holds the recipients the remote end
\* answered so.
ListsTrue == ~cfg.lmtp /\ ~cfg.pooling => \A m \in Mail : Finished(m) =>
    /\ Range(conv[m].ok) = {r \in Rcpt(m) : said[m][r] = "2"}
    /\ Range(conv[m].fail) = {r \in Rcpt(m) : said[m][r] = "4"}
    /\ Range(conv[m].bounce) = {r \in Rcpt(m) : said[m][r] = "5"}

\* "where the recipient(s) or message was rejected by the destination"
\* (docs/Plugins.md:233).
RejectedByDestination == \A m \in Mail : "bounce" \in Range(outcome[m]) => m \in refused

\* A delivery that was started comes to a decision.  (For no more mails than
\* cfg.max: a socket that is destroyed does not serve those that wait.)
Settles == \A m \in Mail : (left[m] < Addresses[m]) ~> (outcome[m] # <<>>)
==============================================================================
