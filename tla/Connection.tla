------------------------------ MODULE Connection ------------------------------
(***************************************************************************)
(* An SMTP connection (connection.js): the states that say whether a line  *)
(* of the client may be processed, one handler for each command, one       *)
(* *_respond for each hook, and the events that come between them.         *)
(*                                                                         *)
(* A line is its command.  BAD is one that a handler answers at once with  *)
(* an error of syntax; TEXT, and in command state DOT and BARE, is not a   *)
(* command.  In data state DOT ends the message and BARE is its bare-LF    *)
(* form.  HELO is EHLO without extensions.                                 *)
(***************************************************************************)
EXTENDS Hooks

CONSTANTS Lines,       \* what the client may send
          MaxLines,    \* bound: lines the client sends
          MaxChunk,    \* bound: lines in one packet
          Pipelining,  \* the client sends a line before the last one is answered
          Relaying,    \* connection.relaying
          Faults       \* what may go wrong: "hangup", "timeout", "stream", "write"

ASSUME ConnectionAssumption ==
    /\ Lines \subseteq {"HELO", "EHLO", "MAIL", "RCPT", "DATA", "DOT", "BARE", "RSET",
                        "QUIT", "TEXT", "BAD"}
    /\ MaxLines \in Nat /\ MaxChunk \in Nat \ {0}
    /\ Pipelining \in BOOLEAN /\ Relaying \in BOOLEAN
    /\ Faults \subseteq {"hangup", "timeout", "stream", "write"}

VARIABLES state, prev,      \* state and prev_state
          buf,              \* current_data, in lines
          tran,             \* transaction
          esmtp, helloHost, \* esmtp, and whether hello.host is set
          earlyTalker,
          paused,           \* client.pause() without a resume()
          immediate,        \* a setImmediate(_process_data) is due
          waits,            \* answers due from dns, message stream and outbound
          sock,             \* "open", half closed by the client, or "closed"
          sent,             \* lines the client has sent
          owed,             \* commands, and the greeting, not yet answered
          ran               \* connect_init and disconnect methods called so far

connVars == <<state, prev, buf, tran, esmtp, helloHost, earlyTalker, paused, immediate,
              waits, sock, sent, owed, ran>>
vars == <<agenda, hookVars, connVars>>

States == {"CMD", "LOOP", "DATA", "PAUSE", "PAUSE_SMTP", "PAUSE_DATA",
           "DISCONNECTING", "DISCONNECTED"}
Null == "null"

Closing == state \in {"DISCONNECTING", "DISCONNECTED"}

NoTran  == [open |-> FALSE, rcpt_to |-> 0, accept |-> 0, resetting |-> FALSE]
NewTran == [NoTran EXCEPT !.open = TRUE]

\* respond(code, msg, func), and loop_respond(code, msg).
Reply(func) == Task("respond", "none", func, "cont")
LoopReply   == Task("loop_respond", "none", "none", "cont")
\* A 421 that answers no command.
Notice(func) == Task("respond", "none", func, "deny")
Process == Task("_process_data", "none", "none", "cont")
Loop    == Task("while", "none", "none", "cont")
Do(do)  == Task(do, "none", "none", "cont")
Reset(cb) == Task("reset_transaction", "none", cb, "cont")

Init ==
    /\ HooksInit
    /\ agenda = <<Run("connect_init", "none")>>
    /\ state = "PAUSE" /\ prev = Null /\ buf = <<>> /\ tran = NoTran
    /\ esmtp = FALSE /\ helloHost = FALSE /\ earlyTalker = FALSE
    /\ paused = FALSE /\ immediate = FALSE /\ waits = {}
    /\ sock = "open" /\ sent = 0
    /\ owed = 1
    /\ ran = [h \in {"connect_init", "disconnect"} |-> 0]

------------------------------------------------------------------------------
(* Replies, and what their closures do. *)

After(k) == CASE k = "none"         -> <<>>
              [] k = "reset"        -> <<Reset("none")>>
              [] k = "reset_resume" -> <<Reset("resume")>>
              [] OTHER              -> <<Do(k)>>

Settled == IF Head(agenda).ret = "cont" THEN owed - 1 ELSE owed

\* Mistake: a reply leaves PAUSE, as it leaves LOOP, alone.
MistakeSendReply ==
    /\ Doing("respond")
    /\ state' = IF state \in {"LOOP", "PAUSE"} THEN state ELSE "CMD"
    /\ owed' = Settled
    /\ Call(After(Head(agenda).then) \o <<Process>>)
    /\ UNCHANGED <<hookVars, prev, buf, tran, esmtp, helloHost, earlyTalker, paused, immediate,
                   waits, sock, sent, ran>>

\* respond(): also leaves DISCONNECTING, and in DISCONNECTED runs func only.
SendReply ==
    /\ Doing("respond")
    /\ LET func == Head(agenda).then
       IN  IF state = "DISCONNECTED"
           THEN Call(After(func)) /\ UNCHANGED <<state, owed>>
           ELSE /\ state' = IF state = "LOOP" THEN "LOOP" ELSE "CMD"
                /\ owed' = Settled
                /\ Call(After(func) \o <<Process>>)
    /\ UNCHANGED <<hookVars, prev, buf, tran, esmtp, helloHost, earlyTalker, paused, immediate,
                   waits, sock, sent, ran>>

\* client.write() throws: neither the closure nor further lines run.
ReplyFails ==
    /\ Doing("respond") /\ state # "DISCONNECTED" /\ "write" \in Faults
    /\ Call(<<Do("fail")>>)
    /\ UNCHANGED <<hookVars, connVars>>

SendLoopReply ==
    /\ Doing("loop_respond")
    /\ IF Closing THEN Call(<<>>) /\ UNCHANGED state
                  ELSE Call(<<Reply("none")>>) /\ state' = "LOOP"
    /\ UNCHANGED <<hookVars, prev, buf, tran, esmtp, helloHost, earlyTalker, paused, immediate,
                   waits, sock, sent, owed, ran>>

\* The closures that touch the transaction or the greeting.
\* Mistake: a denied recipient stays in rcpt_to.
MistakeRcptPop == /\ Doing("pop") /\ Call(<<>>)
                  /\ UNCHANGED <<tran, state, helloHost, thrown>>

RcptPop == /\ Doing("pop") /\ Call(<<>>)
           /\ tran' = [tran EXCEPT !.rcpt_to = @ - 1]
           /\ UNCHANGED <<state, helloHost, thrown>>

RcptAccept == /\ Doing("accept") /\ Call(<<>>)
              /\ tran' = [tran EXCEPT !.accept = @ + 1]
              /\ UNCHANGED <<state, helloHost, thrown>>

ClearHello == /\ Doing("clear_hello") /\ Call(<<>>)
              /\ helloHost' = FALSE
              /\ UNCHANGED <<state, tran, thrown>>

StartData == /\ Doing("data")
             /\ state' = "DATA"
             /\ IF tran.open THEN Call(<<>>) /\ UNCHANGED thrown ELSE Throw
             /\ UNCHANGED <<tran, helloHost>>

ReplyClosure ==
    /\ RcptPop \/ RcptAccept \/ ClearHello \/ StartData
    /\ UNCHANGED <<toRun, saved, denied, calls, current, late, spent,
                   prev, buf, esmtp, earlyTalker, paused, immediate, waits, sock, sent, owed, ran>>

------------------------------------------------------------------------------
(* The end of a transaction and of a connection. *)

Pause == IF Closing THEN UNCHANGED <<state, prev, paused>>
         ELSE /\ paused' = TRUE
              /\ prev' = IF state = "PAUSE_DATA" THEN prev ELSE state
              /\ state' = "PAUSE_DATA"

ResetTransaction ==
    /\ Doing("reset_transaction")
    /\ LET cb == Head(agenda).then
       IN  IF tran.open /\ ~tran.resetting
           THEN /\ Pause
                /\ tran' = [tran EXCEPT !.resetting = TRUE]
                /\ Call(<<Run("reset_transaction", cb)>>)
           ELSE /\ tran' = NoTran
                /\ Call(After(cb))
                /\ UNCHANGED <<state, prev, paused>>
    /\ UNCHANGED <<hookVars, buf, esmtp, helloHost, earlyTalker, immediate, waits, sock, sent,
                   owed, ran>>

\* Mistake: the callback of reset_transaction is forgotten.
MistakeForgetsCb ==
    /\ Doing("respond_method") /\ Head(agenda).hook = "reset_transaction"
    /\ tran' = NoTran
    /\ Call(<<Do("resume")>>)
    /\ UNCHANGED <<hookVars, state, prev, buf, esmtp, helloHost, earlyTalker, paused, immediate,
                   waits, sock, sent, owed, ran>>

ResetTransactionRespond ==
    /\ Doing("respond_method") /\ Head(agenda).hook = "reset_transaction"
    /\ tran' = NoTran
    /\ Call(After(Head(agenda).then) \o <<Do("resume")>>)
    /\ UNCHANGED <<hookVars, state, prev, buf, esmtp, helloHost, earlyTalker, paused, immediate,
                   waits, sock, sent, owed, ran>>

\* Mistake: resume() does not go back to prev_state.
MistakeResume ==
    /\ Doing("resume") /\ Call(<<>>)
    /\ IF Closing THEN UNCHANGED <<paused, immediate>>
                  ELSE paused' = FALSE /\ immediate' = TRUE
    /\ UNCHANGED <<hookVars, state, prev, buf, tran, esmtp, helloHost, earlyTalker, waits, sock,
                   sent, owed, ran>>

Resume ==
    /\ Doing("resume") /\ Call(<<>>)
    /\ IF Closing THEN UNCHANGED <<state, prev, paused, immediate>>
       ELSE /\ paused' = FALSE
            /\ state' = IF prev # Null THEN prev ELSE state
            /\ prev' = Null
            /\ immediate' = TRUE
    /\ UNCHANGED <<hookVars, buf, tran, esmtp, helloHost, earlyTalker, waits, sock, sent, owed, ran>>

\* disconnect(); fail() empties hooks_to_run first.
Disconnect ==
    /\ Doing("disconnect") \/ Doing("fail")
    /\ toRun' = IF Doing("fail") THEN <<>> ELSE toRun
    /\ IF Closing THEN Call(<<>>) /\ UNCHANGED state
                  ELSE Call(<<Reset("run_disconnect")>>) /\ state' = "DISCONNECTING"
    /\ UNCHANGED <<saved, denied, calls, current, late, spent, thrown,
                   prev, buf, tran, esmtp, helloHost, earlyTalker, paused, immediate, waits, sock,
                   sent, owed, ran>>

RunDisconnect == /\ Doing("run_disconnect")
                 /\ Call(<<Run("disconnect", "none")>>)
                 /\ UNCHANGED <<hookVars, connVars>>

DisconnectRespond ==
    /\ Doing("respond_method") /\ Head(agenda).hook = "disconnect"
    /\ state' = "DISCONNECTED"
    /\ Call(<<>>)
    /\ UNCHANGED <<hookVars, prev, buf, tran, esmtp, helloHost, earlyTalker, paused, immediate,
                   waits, sock, sent, owed, ran>>

------------------------------------------------------------------------------
(* Lines, and the commands they are. *)

\* RSET, MAIL and RCPT may come anywhere in a group, others only last.
ValidInGroup == Head(buf) \in {"RSET", "MAIL", "RCPT"} \/ Len(buf) = 1

Waiting == state \in {"PAUSE", "PAUSE_SMTP"}

\* Lines that come too early: another _process_data is scheduled.
TooEarly == buf # <<>> /\ Waiting /\ (~esmtp \/ ~ValidInGroup)

\* _process_data() up to the next line to process: it stops with nothing more
\* to read, and when a command is being answered.
ReadNoLine ==
    /\ Doing("_process_data") \/ Doing("while")
    /\ \/ Doing("_process_data") /\ Closing
       \/ buf = <<>>
       \/ state = "PAUSE_DATA"
       \/ Waiting
    /\ IF TooEarly
       THEN earlyTalker' = TRUE /\ immediate' = TRUE
       ELSE UNCHANGED <<earlyTalker, immediate>>
    /\ Call(<<>>)
    /\ UNCHANGED <<hookVars, state, prev, buf, tran, esmtp, helloHost, paused, waits, sock, sent,
                   owed, ran>>

\* Lines left in the loop after a disconnect are dropped.
DropLine ==
    /\ Doing("while") /\ Closing /\ buf # <<>>
    /\ buf' = Tail(buf)
    /\ Call(<<Loop>>)
    /\ UNCHANGED <<hookVars, state, prev, tran, esmtp, helloHost, earlyTalker, paused, immediate,
                   waits, sock, sent, owed, ran>>

Reading == (Doing("_process_data") \/ Doing("while")) /\ buf # <<>>

\* What a command does after its checks.
Command(line) ==
    CASE line \in {"HELO", "EHLO"} -> Reset(IF line = "HELO" THEN "helo" ELSE "ehlo")
      [] line = "MAIL" -> IF helloHost THEN Reset("mail") ELSE Reply("none")
      [] line = "RCPT" -> IF tran.open THEN Run("rcpt", "none") ELSE Reply("none")
      [] line = "DATA" -> IF tran.open /\ tran.rcpt_to > 0 THEN Run("data", "none")
                                                           ELSE Reply("none")
      [] line = "RSET" -> Run("rset", "none")
      [] line = "QUIT" -> Run("quit", "none")
      [] line = "BAD"  -> Reply("none")
      [] OTHER         -> Run("unrecognized_command", "none")

\* Mistake: the state stays CMD while a command is being answered.
MistakeProcessCommand ==
    /\ Reading /\ state = "CMD"
    /\ buf' = Tail(buf)
    /\ owed' = owed + 1
    /\ tran' = IF Head(buf) = "RCPT" /\ tran.open THEN [tran EXCEPT !.rcpt_to = @ + 1] ELSE tran
    /\ Call(<<Command(Head(buf)), Loop>>)
    /\ UNCHANGED <<hookVars, state, prev, esmtp, helloHost, earlyTalker, paused, immediate, waits,
                   sock, sent, ran>>

\* A handler is called in a try block; what is no command is not.
Handled(line) == IF line \in {"TEXT", "DOT", "BARE"} THEN <<Command(line)>>
                                                    ELSE <<Command(line), Tried("respond")>>

\* process_line() in command state: state is PAUSE_SMTP until the reply.
ProcessCommand ==
    /\ Reading /\ state = "CMD"
    /\ state' = "PAUSE_SMTP"
    /\ buf' = Tail(buf)
    /\ owed' = owed + 1
    /\ tran' = IF Head(buf) = "RCPT" /\ tran.open THEN [tran EXCEPT !.rcpt_to = @ + 1] ELSE tran
    /\ Call(Handled(Head(buf)) \o <<Loop>>)
    /\ UNCHANGED <<hookVars, prev, esmtp, helloHost, earlyTalker, paused, immediate, waits, sock,
                   sent, ran>>

\* A handler threw: 421, whether or not the command has been answered.
CommandFails ==
    /\ Doing("catch") /\ Head(agenda).then = "respond"
    /\ Call(<<IF owed > 0 THEN Reply("disconnect") ELSE Notice("disconnect")>>)
    /\ UNCHANGED <<hookVars, connVars>>

\* Denied at connect: every line gets the same reply, QUIT runs its hook.
ProcessLoop ==
    /\ Reading /\ state = "LOOP"
    /\ buf' = Tail(buf)
    /\ owed' = owed + 1
    /\ Call(<<IF Head(buf) = "QUIT" THEN Run("quit", "none") ELSE Reply("none"), Loop>>)
    /\ UNCHANGED <<hookVars, state, prev, tran, esmtp, helloHost, earlyTalker, paused, immediate,
                   waits, sock, sent, ran>>

\* accumulate_data(): a line of the message; no reply is due.
ProcessText ==
    /\ Reading /\ state = "DATA" /\ Head(buf) \notin {"DOT", "BARE"}
    /\ buf' = Tail(buf)
    /\ Call(<<Loop>>)
    /\ UNCHANGED <<hookVars, state, prev, tran, esmtp, helloHost, earlyTalker, paused, immediate,
                   waits, sock, sent, owed, ran>>

ProcessBare ==
    /\ Reading /\ state = "DATA" /\ Head(buf) = "BARE"
    /\ buf' = Tail(buf)
    /\ owed' = owed + 1
    /\ Call(<<Reply("reset"), Loop>>)
    /\ UNCHANGED <<hookVars, state, prev, tran, esmtp, helloHost, earlyTalker, paused, immediate,
                   waits, sock, sent, ran>>

\* data_done(): too much data, too many Received headers, or end_data().
DataDone ==
    /\ Reading /\ state = "DATA" /\ Head(buf) = "DOT"
    /\ buf' = Tail(buf)
    /\ owed' = owed + 1
    /\ state' = "PAUSE_DATA" /\ prev' = "CMD" /\ paused' = TRUE
    /\ \/ Call(<<Run("max_data_exceeded", "none"), Loop>>) /\ UNCHANGED waits
       \/ Call(<<Reply("reset"), Loop>>) /\ UNCHANGED waits
       \/ Call(<<Loop>>) /\ waits' = waits \cup {"end_data"}
    /\ UNCHANGED <<hookVars, tran, esmtp, helloHost, earlyTalker, immediate, sock, sent, ran>>

\* The closures reset_transaction() is given by HELO, EHLO and MAIL.
Greet == /\ Doing("helo") \/ Doing("ehlo")
         /\ helloHost' = TRUE
         /\ Call(<<Run(Head(agenda).do, "none")>>)
         /\ UNCHANGED <<hookVars, state, prev, buf, tran, esmtp, earlyTalker, paused, immediate,
                        waits, sock, sent, owed, ran>>

InitTransaction == /\ Doing("mail")
                   /\ tran' = NewTran
                   /\ Call(<<Run("mail", "none")>>)
                   /\ UNCHANGED <<hookVars, state, prev, buf, esmtp, helloHost, earlyTalker, paused,
                                  immediate, waits, sock, sent, owed, ran>>

SetEsmtp == /\ Doing("esmtp") /\ Call(<<>>)
            /\ esmtp' = TRUE
            /\ UNCHANGED <<hookVars, state, prev, buf, tran, helloHost, earlyTalker, paused,
                           immediate, waits, sock, sent, owed, ran>>

------------------------------------------------------------------------------
(* The *_respond handlers: what the verdict of a hook's plugins does. *)

Verdict(hook) == Doing("respond_method") /\ Head(agenda).hook = hook
Ret == Head(agenda).ret

\* A denial that disconnects, one that does not, anything else.
ByVerdict(dropped, rejected, accepted) ==
    CASE Ret = "denydisconnect" -> dropped
      [] Ret = "deny"           -> rejected
      [] OTHER                  -> accepted

Drop == Reply("disconnect")

ConnectInitRespond == Verdict("connect_init") /\ Call(<<Run("lookup_rdns", "none")>>)

LookupRdnsRespond ==
    /\ Verdict("lookup_rdns") /\ Ret # "cont"
    /\ Call(<<ByVerdict(Drop, LoopReply, Run("connect", "none"))>>)

ConnectRespond == /\ Verdict("connect")
                  /\ Call(<<ByVerdict(Drop, LoopReply, Reply("none"))>>)

HeloRespond == /\ Verdict("helo")
               /\ Call(<<ByVerdict(Drop, Reply("clear_hello"), Reply("none"))>>)

\* esmtp is set when the capabilities hook has been started.
EhloRespond == /\ Verdict("ehlo")
               /\ Call(IF Ret \in {"deny", "denydisconnect"}
                       THEN <<ByVerdict(Drop, Reply("clear_hello"), Drop)>>
                       ELSE <<Run("capabilities", "none"), Do("esmtp")>>)

CapabilitiesRespond == Verdict("capabilities") /\ Call(<<Reply("none")>>)

QuitRespond == Verdict("quit") /\ Call(<<Drop>>)
RsetRespond == Verdict("rset") /\ Call(<<Reply("reset")>>)

\* XCLIENT is refused within a transaction, and may start the connection again.
XClient == Verdict("unrecognized_command") /\ Ret = "next_hook" /\ ~tran.open

\* With OK the plugin has replied itself.
UnrecognizedCommandRespond ==
    /\ Verdict("unrecognized_command") /\ ~XClient
    /\ Call(<<ByVerdict(Drop, Reply("none"), Reply("none"))>>)

\* The hook the plugin names is run; it has said who the client is by now.
NextHook ==
    /\ XClient
    /\ \E hook \in {"lookup_rdns", "connect"} : Call(<<Run(hook, "none")>>)
    /\ esmtp' \in BOOLEAN /\ helloHost' \in BOOLEAN
    /\ UNCHANGED <<hookVars, state, prev, buf, tran, earlyTalker, paused, immediate, waits,
                   sock, sent, owed, ran>>

\* The handlers of a transaction do nothing when it has gone.
MailRespond ==
    /\ Verdict("mail")
    /\ Call(IF tran.open THEN <<ByVerdict(Drop, Reply("reset"), Reply("none"))>> ELSE <<>>)

RcptRespond ==
    /\ Verdict("rcpt")
    /\ Call(IF ~tran.open THEN <<>>
            ELSE IF Ret = "ok" \/ (Ret = "cont" /\ Relaying) THEN <<Run("rcpt_ok", "none")>>
            ELSE <<ByVerdict(Drop, Reply("pop"), Reply("pop"))>>)

RcptOkRespond ==
    /\ Verdict("rcpt_ok")
    /\ Call(IF tran.open THEN <<ByVerdict(Drop, Reply("pop"), Reply("accept"))>> ELSE <<>>)

DataRespond == /\ Verdict("data")
               /\ Call(<<ByVerdict(Drop, Reply("reset"), Reply("data"))>>)

QueueHook == IF Relaying THEN "queue_outbound" ELSE "queue"

\* Mistake: a mail denied at data_post is not answered.
MistakeDataPostRespond == /\ Verdict("data_post")
                          /\ Call(IF Ret = "cont" THEN <<Run(QueueHook, "none")>> ELSE <<>>)

DataPostRespond ==
    /\ Verdict("data_post")
    /\ Call(IF tran.open THEN <<ByVerdict(Drop, Reply("reset_resume"), Run(QueueHook, "none"))>>
                         ELSE <<>>)

MaxDataExceededRespond == Verdict("max_data_exceeded") /\ Call(<<Reply("reset")>>)

\* No plugin took the mail: it is refused for now.
QueueRespond ==
    /\ Verdict("queue") /\ tran.open
    /\ Call(<<IF Ret = "ok" THEN Run("queue_ok", "none")
              ELSE ByVerdict(Drop, Reply("reset_resume"), Reply("reset_resume"))>>)

QueueOutboundRespond ==
    /\ Verdict("queue_outbound") /\ tran.open /\ Ret # "cont"
    /\ Call(<<ByVerdict(Drop, Reply("reset_resume"), Run("queue_ok", "none"))>>)

QueueOkRespond == Verdict("queue_ok") /\ Call(<<Reply("reset_resume")>>)

HookRespond ==
    /\ \/ ConnectInitRespond \/ LookupRdnsRespond \/ ConnectRespond
       \/ HeloRespond \/ EhloRespond \/ CapabilitiesRespond \/ QuitRespond \/ RsetRespond
       \/ UnrecognizedCommandRespond
       \/ MailRespond \/ RcptRespond \/ RcptOkRespond \/ DataRespond \/ DataPostRespond
       \/ MaxDataExceededRespond \/ QueueRespond \/ QueueOutboundRespond \/ QueueOkRespond
    /\ UNCHANGED <<hookVars, connVars>>

\* dns.reverse() and outbound.send_email() are asked, and answer later.
Asks ==
    /\ \/ Verdict("lookup_rdns") /\ Ret = "cont" /\ waits' = waits \cup {"rdns"}
       \/ /\ Verdict("queue_outbound") /\ tran.open /\ Ret = "cont"
          /\ waits' = waits \cup {"send_email"}
    /\ Call(<<>>)
    /\ UNCHANGED <<hookVars, state, prev, buf, tran, esmtp, helloHost, earlyTalker, paused,
                   immediate, sock, sent, owed, ran>>

\* store_queue_result() reads a transaction that has gone.
QueueThrows ==
    /\ Verdict("queue") \/ Verdict("queue_outbound")
    /\ ~tran.open
    /\ Throw
    /\ UNCHANGED <<toRun, saved, denied, calls, current, late, spent, connVars>>

------------------------------------------------------------------------------
(* Events. *)

Idle == agenda = <<>> /\ ~thrown

\* Packets of the client; a client that does not pipeline waits for replies.
Receive ==
    /\ Idle /\ sock = "open" /\ ~paused
    /\ \E n \in 1 .. MaxChunk : \E chunk \in [1 .. n -> Lines] :
          /\ sent + n <= MaxLines
          /\ sent' = sent + n
          /\ ~Pipelining => owed = 0 /\ buf = <<>> /\ n = 1
          /\ IF Closing THEN UNCHANGED <<agenda, buf>>
                        ELSE buf' = buf \o chunk /\ agenda' = <<Process>>
    /\ UNCHANGED <<hookVars, state, prev, tran, esmtp, helloHost, earlyTalker, paused, immediate,
                   waits, sock, owed, ran>>

Immediate ==
    /\ Idle /\ immediate
    /\ immediate' = FALSE
    /\ agenda' = <<Process>>
    /\ UNCHANGED <<hookVars, state, prev, buf, tran, esmtp, helloHost, earlyTalker, paused, waits,
                   sock, sent, owed, ran>>

\* The callbacks of dns, the message stream and the outbound queue.
Comes(what, tasks) == /\ what \in waits
                      /\ waits' = waits \ {what}
                      /\ agenda' = tasks

Arrives ==
    /\ Idle
    /\ \/ Comes("rdns", <<Run("connect", "none")>>)
       \/ Comes("end_data", IF tran.open THEN <<Run("data_post", "none")>> ELSE <<>>)
       \/ Comes("send_email", <<Run("queue_ok", "none")>>)
       \/ Comes("send_email", <<Reply("reset_resume")>>)
    /\ UNCHANGED <<hookVars, state, prev, buf, tran, esmtp, helloHost, earlyTalker, paused,
                   immediate, sock, sent, owed, ran>>

\* Mistake: the socket's events do not look at the state.
MistakeFails(tasks) == agenda' = tasks

Fails(tasks) == agenda' = IF Closing THEN <<>> ELSE tasks

\* 'end', then 'close' or 'error'; after disconnect() 'close' follows too.
SocketEnds ==
    /\ Idle
    /\ \/ sock = "open" /\ sock' = "ended"
       \/ sock \in {"open", "ended"} /\ sock' = "closed"
    /\ "hangup" \in Faults \/ state = "DISCONNECTED"
    /\ Fails(<<Do("fail")>>)
    /\ UNCHANGED <<hookVars, state, prev, buf, tran, esmtp, helloHost, earlyTalker, paused,
                   immediate, waits, sent, owed, ran>>

\* The inactivity timer; an error of the message stream does not look at state.
Trouble ==
    /\ Idle
    /\ \/ "timeout" \in Faults /\ sock # "closed" /\ ~Closing /\ agenda' = <<Notice("fail")>>
       \/ "stream" \in Faults /\ tran.open /\ agenda' = <<Notice("disconnect")>>
    /\ UNCHANGED <<hookVars, connVars>>

\* The hook runner, with the methods it calls counted.
HookTask ==
    /\ HookTasks
    /\ ran' = [h \in DOMAIN ran |-> ran[h] + IF Calling(h) THEN 1 ELSE 0]
    /\ UNCHANGED <<state, prev, buf, tran, esmtp, helloHost, earlyTalker, paused, immediate,
                   waits, sock, sent, owed>>

HookEvent == Idle /\ (PluginAnswers \/ LateCallback) /\ UNCHANGED connVars

\* The turn that is running.
Turn == \/ HookTask \/ HookRespond \/ NextHook \/ Asks \/ QueueThrows
        \/ SendReply \/ ReplyFails \/ SendLoopReply \/ ReplyClosure
        \/ ResetTransaction \/ ResetTransactionRespond \/ Resume
        \/ Disconnect \/ RunDisconnect \/ DisconnectRespond
        \/ ReadNoLine \/ DropLine \/ ProcessCommand \/ CommandFails \/ ProcessLoop
        \/ ProcessText \/ ProcessBare
        \/ DataDone \/ Greet \/ InitTransaction \/ SetEsmtp

Next == Turn \/ HookEvent \/ Receive \/ Immediate \/ Arrives \/ SocketEnds \/ Trouble

\* The event loop runs; a plugin that does not answer is answered for by its
\* timer; the resolver and the disk answer.  Nothing is asked of the client.
Fairness == /\ WF_vars(Turn) /\ WF_vars(Immediate) /\ WF_vars(Arrives)
            /\ WF_vars(Idle /\ PluginAnswers /\ UNCHANGED connVars)

Spec == Init /\ [][Next]_vars
FairSpec == Spec /\ Fairness

------------------------------------------------------------------------------
\* Every variable has its type.  A recipient is popped only after it was
\* pushed, and no command is answered twice.
TypeOK ==
    /\ agenda \in Seq([do : STRING, hook : STRING, then : STRING, ret : Rets])
    /\ toRun \in Seq(Hooks) /\ saved \in Seq(Hooks)
    /\ denied \in [do : STRING, hook : Hooks, then : STRING, ret : Rets]
    /\ \A c \in calls : c.id \in Nat \ {0} /\ c.hook \in Hooks /\ c.method \in Hooks
    /\ current \in Nat /\ late \in 0 .. MaxLate
    /\ state \in States /\ prev \in {Null, "CMD", "PAUSE_SMTP"}
    /\ tran \in [open : BOOLEAN, rcpt_to : Nat, accept : Nat, resetting : BOOLEAN]
    /\ waits \subseteq {"rdns", "end_data", "send_email"}
    /\ owed \in Nat

\* When no plugin, timer or callback is awaited, the connection can take the
\* client's next line, or is over: "Allow the connection to continue"
\* (connection.js:636).  pause(), resume() and respond() each set the state
\* from what they found, in whatever order the callbacks run them.
NoStall == (Idle /\ calls = {} /\ waits = {} /\ ~immediate)
              => state \in {"CMD", "LOOP", "DATA", "DISCONNECTED"}

\* One command at a time, one reply for each, and no way back from
\* DISCONNECTING: a connection is an SMTP session.  "this ensures that we only
\* process one command at a time" (connection.js:445).
Session == INSTANCE SmtpSession WITH owed <- IF Closing THEN 0 ELSE owed, open <- ~Closing
ImplementsSession == Session!Spec

\* The plugins of DATA, and those that queue the mail, see a transaction whose
\* recipients have all been answered 250 (cmd_rcpt pushes a recipient before
\* its plugins have answered for it, and respond's closures pop it).
AcceptedOnly == \A h \in {"data", "data_post", "queue", "queue_outbound"} :
                   Calling(h) => tran.open /\ tran.rcpt_to = tran.accept /\ tran.accept > 0

\* However a connection ends, and however often it is told to, each disconnect
\* plugin is called once: plugins count connections with it.
DisconnectOnce == /\ ran["disconnect"] =< Registered["disconnect"]
                  /\ state = "DISCONNECTED" => ran["disconnect"] = Registered["disconnect"]

\* A chain calls the methods of its own hook, though all the chains of a
\* connection share one hooks_to_run and a chain may be cut by a disconnect.
\* A second callback of a plugin is one of the "subsequent calls" that are
\* ignored (plugins.js:446).
OwnMethod == \A h \in Hooks : Calling(h) => Head(agenda).hook = h

\* A client that waits for each reply is never marked as an early talker.
WaitingClient == ~Pipelining => ~earlyTalker

\* Every command is answered, or the connection ends.
CommandsAnswered == owed > 0 ~> (owed = 0 \/ Closing)

\* A client that hangs up ends the connection, its disconnect hooks included.
Ends == (sock # "open") ~> (state = "DISCONNECTED")

=============================================================================
