--------------------------- MODULE ConnectionProofs ---------------------------
(***************************************************************************)
(* What is proved of a connection.  The tasks of a turn nest, but only one *)
(* of them carries the command in hand: all that may wait below it in the  *)
(* agenda are the loop over the lines, the ends of try blocks, the setting *)
(* of esmtp, and resume().  Nothing is thrown, so no catch ever runs.      *)
(* So the command is with the task on top, or, between turns, with the one *)
(* plugin call that current_hook names or with the message stream; Good    *)
(* says what holds when a task is next, and Rests what holds between them. *)
(*                                                                         *)
(* Sober names what has to be assumed of the plugins: without it the code  *)
(* does not keep these promises, as README.md says.                        *)
(***************************************************************************)
EXTENDS Connection, FiniteSetTheorems, SequenceTheorems, TLAPS

------------------------------------------------------------------------------
(* What is assumed of the plugins. *)

ConnectHooks == {"connect_init", "lookup_rdns", "connect"}
Greetings    == {"helo", "ehlo", "mail"}
Chat         == {"capabilities", "rset", "quit", "unrecognized_command"}
RcptHooks    == {"rcpt", "rcpt_ok"}
Post         == {"data_post", "max_data_exceeded", "queue", "queue_outbound", "queue_ok"}
Names        == ConnectHooks \cup Greetings \cup Chat \cup RcptHooks \cup Post
                \cup {"data", "reset_transaction", "disconnect", "deny"}
Denials      == {"deny", "denydisconnect"}

NamesAssumed == Names \subseteq Hooks

\* What a hook's plugins may answer, and a hook that always has their OK.
Says(h) == IF Registered[h] = 0 THEN {} ELSE Answers[h]
Sure(h) == Registered[h] > 0 /\ Answers[h] \subseteq {"ok"}

\* No plugin calls back twice: a second callback clears current_hook
\* (plugins.js:435), and the call it named can no longer be cancelled.
AnswersOnce == MaxLate = 0

\* dns and the outbound queue are not asked: their answers do not look at the
\* state (connection.js:724 and the callback of send_email()).
PluginsKnow == Sure("lookup_rdns") /\ (Relaying => Sure("queue_outbound"))

\* Nobody is denied at connect: in LOOP state every line is answered, and a
\* QUIT does not change the state (connection.js:344).
ConnectsAll == Says("connect") \cap Denials = {}

\* A denial is not itself denied: deny_respond() would call itself
\* (plugins.js:575).
DenyDecides == Says("deny") \cap Denials = {}

\* reset_transaction's plugins answer at once, and do not deny: hooks would go
\* on after the client left.
ResetsNow == "reset_transaction" \notin Async /\ Says("reset_transaction") \cap Denials = {}

\* The client's lines that may end a transaction, if it sends them.
Offered(g) == /\ g = "helo" => "HELO" \in Lines
              /\ g = "ehlo" => "EHLO" \in Lines
              /\ g = "mail" => "MAIL" \in Lines

\* The plugins of those commands do not answer at once: the resume() that
\* follows would leave the connection deaf (connection.js:637).
GreetsLater == \A g \in Greetings : Offered(g) => g \notin Sync /\ Registered[g] > 0

Sober == /\ NamesAssumed /\ AnswersOnce /\ PluginsKnow /\ ConnectsAll /\ DenyDecides
         /\ ResetsNow /\ GreetsLater

------------------------------------------------------------------------------
(* The inductive invariant: who answers for the command in hand. *)

\* The tasks there are, and what a task may be told to call.
Closures == {"pop", "accept", "clear_hello", "data"}
Benign   == {"_process_data", "while", "esmtp", "tried"}
Dos      == {"run_hooks", "run_next_hook", "callback", "respond_method", "respond", "fail",
             "disconnect", "run_disconnect", "reset_transaction", "resume"}
            \cup Greetings \cup Closures \cup Benign
Thens    == {"none", "resume", "run_disconnect", "reset", "reset_resume", "disconnect", "fail",
             "callback", "respond"}
            \cup Greetings \cup Closures

\* Hooks that have a plugin.
Plugged == {h \in Names : Registered[h] > 0}

TaskT == [do : Dos, hook : Names \cup {"none"}, then : Thens, ret : Rets]
CallT == [id : Nat \ {0}, hook : Names, method : Plugged, then : Thens]

Typed ==
    /\ toRun \in Seq(Plugged) /\ saved \in Seq(Plugged)
    /\ denied \in TaskT
    /\ \A c \in calls : c \in CallT
    /\ current \in Nat /\ late \in 0 .. MaxLate
    /\ state \in States /\ prev \in {Null, "CMD", "PAUSE_SMTP"}
    /\ tran \in [open : BOOLEAN, rcpt_to : Nat, accept : Nat, resetting : BOOLEAN]
    /\ waits \subseteq {"end_data"}
    /\ owed \in Nat
    /\ buf \in Seq(Lines)
    /\ ran \in [{"connect_init", "disconnect"} -> Nat]

\* The recipients have all been answered 250, or all but the last.
Even == tran.rcpt_to = tran.accept /\ ~tran.resetting
Odd  == tran.open /\ tran.rcpt_to = tran.accept + 1 /\ ~tran.resetting
Full == tran.open /\ Even /\ tran.accept > 0

\* A command is in hand, one that ended a transaction, the end of a message,
\* or the reset after a reply.
Commanded == state = "PAUSE_SMTP" /\ prev = Null /\ owed = 1
Resuming  == state = "PAUSE_DATA" /\ prev = "PAUSE_SMTP" /\ owed = 1
Posting   == state = "PAUSE_DATA" /\ prev = "CMD" /\ owed = 1
Resetting == state = "PAUSE_DATA" /\ prev = "CMD" /\ owed = 0

\* The connection while the plugins of hook are asked, then is to be called,
\* and next is the task below.
Working(hook, then, next) ==
    /\ hook \in ConnectHooks => /\ state \in {"PAUSE", "PAUSE_SMTP"}
                                /\ prev = Null /\ owed = 1 /\ Even
    /\ hook \in Greetings => /\ IF next = "resume" THEN Resuming ELSE Commanded
                             /\ Even /\ Offered(hook) /\ (hook = "mail" => tran.open)
    /\ hook \in Chat => Commanded /\ Even
    /\ hook \in RcptHooks => Commanded /\ Odd
    /\ hook = "data" => Commanded /\ Full
    /\ hook \in Post => Posting /\ Full /\ (hook = "queue_outbound" => Relaying)
    /\ hook = "reset_transaction" =>
          /\ tran.open /\ tran.resetting
          /\ \/ then \in {"none", "resume"} /\ Resetting
             \/ then \in Greetings /\ Offered(then) /\ Resuming
             \/ then = "run_disconnect" /\ state = "DISCONNECTING"
    /\ hook = "disconnect" => state = "DISCONNECTING" /\ ~tran.open /\ Even
    /\ hook # "reset_transaction" => then = "none"
    /\ next = "resume" /\ ~Closing => hook \in Greetings
    /\ hook # "disconnect" => ran["disconnect"] = 0

\* Hooks whose denial is overruled, or does not come.
Overruled == {"lookup_rdns", "connect", "reset_transaction", "queue_outbound", "deny"}

\* Likewise, with the deny hook standing for the hook that was denied.
Serving(hook, then, next) ==
    IF hook = "deny"
    THEN /\ denied.do = "respond_method" /\ denied.then = then
         /\ denied.hook \in Names \ Overruled /\ denied.ret \in Denials
         /\ Working(denied.hook, then, "none") /\ (next = "resume" => Closing)
         /\ denied.hook = "disconnect" => ran["disconnect"] = Registered["disconnect"]
    ELSE hook \in Names /\ Working(hook, then, next)

All(s, h) == \A i \in DOMAIN s : s[i] = h

\* The methods left are those of the hook; of disconnect, each was called or
\* is left.
Left(hook) ==
    /\ All(toRun, hook)
    /\ hook = "deny" => All(saved, denied.hook) /\ (denied.hook = "disconnect" => saved = <<>>)
    /\ hook = "disconnect" => ran["disconnect"] + Len(toRun) = Registered["disconnect"]

Possible(hook, ret) ==
    /\ hook \in {"lookup_rdns", "queue_outbound"} => ret = "ok"
    /\ hook \in {"connect", "reset_transaction", "deny"} => ret \notin Denials

\* No answer is awaited; or at most that of the call current_hook names.
Quiet == calls = {} /\ (~Closing => waits = {})
One   == \A c \in calls : c.id = current

\* Nothing runs and nothing is asked, and disconnect() has not run.
Free == Quiet /\ toRun = <<>> /\ ran["disconnect"] = 0

\* Between two turns: no command is in hand; the message stream has it; the
\* plugin current_hook names has it; or the connection is over.
Ready   == /\ state \in {"CMD", "DATA"} /\ prev = Null /\ owed = 0
           /\ Even /\ (state = "DATA" => Full) /\ Free
Streams == /\ Posting /\ Full /\ calls = {} /\ waits = {"end_data"}
           /\ toRun = <<>> /\ ran["disconnect"] = 0
Asked(next) ==
    \E c \in calls : /\ calls = {c} /\ c.id = current /\ c.method = c.hook
                     /\ c.hook # "reset_transaction" /\ (next = "resume" => c.hook \in Greetings)
                     /\ Serving(c.hook, c.then, next) /\ Left(c.hook)
                     /\ ~Closing => waits = {}
Over  == /\ state = "DISCONNECTED" /\ calls = {} /\ ~tran.open
         /\ ran["disconnect"] = Registered["disconnect"]
Rests == Ready \/ Streams \/ Asked("none") \/ Over

\* disconnect() may be called: what a plugin is asked will be cancelled.
Ending == One /\ ~tran.resetting /\ ran["disconnect"] = 0

\* After a reply.
Replied == state = "CMD" /\ owed = 0 /\ Free

------------------------------------------------------------------------------
(* What holds when task t is on top, with next the task below it. *)

GoodRun(t, next) ==
    /\ Serving(t.hook, t.then, next)
    /\ t.hook = "deny" => All(toRun, denied.hook) /\ (denied.hook = "disconnect" => toRun = <<>>)
    /\ t.hook = "disconnect" => ran["disconnect"] = 0
    /\ IF t.hook = "disconnect" \/ t.then = "run_disconnect" THEN One ELSE Quiet
    /\ t.hook \notin {"deny", "disconnect", "reset_transaction"} => toRun = <<>>

\* A chain with no method left ends; these must have one.
GoodNext(t, next) ==
    /\ Serving(t.hook, t.then, next) /\ Left(t.hook) /\ Quiet
    /\ t.hook \in {"lookup_rdns", "queue_outbound"} => toRun # <<>>
    /\ next = "resume" /\ ~Closing => toRun # <<>>

\* A plugin has answered; resume() is due only when the client is leaving.
GoodAnswer(t, next) ==
    /\ Serving(t.hook, t.then, "none") /\ Left(t.hook) /\ Quiet
    /\ Possible(t.hook, t.ret)
    /\ next = "resume" => Closing

GoodReply(func) ==
    /\ owed = 1 /\ Free
    /\ \/ func = "none" /\ state \in {"PAUSE", "PAUSE_SMTP"} /\ prev = Null /\ Even
       \/ func = "clear_hello" /\ Commanded /\ Even
       \/ func = "reset" /\ Even /\ \/ Commanded
                                    \/ state = "DATA" /\ prev = Null /\ Full
                                    \/ Posting /\ Full
       \/ func = "reset_resume" /\ Posting /\ Full
       \/ func \in {"pop", "accept"} /\ Commanded /\ Odd
       \/ func = "data" /\ Commanded /\ Full
       \/ /\ func = "disconnect" /\ state \in {"PAUSE", "PAUSE_SMTP", "PAUSE_DATA"}
          /\ ~tran.resetting

GoodNotice(func) == func \in {"fail", "disconnect"} /\ ~Closing /\ Ending

GoodReset(cb, next) ==
    \/ cb = "run_disconnect" /\ state = "DISCONNECTING" /\ Ending
    \/ /\ cb \in {"none", "resume"} /\ Replied /\ Even /\ next # "resume"
       /\ prev = Null \/ (prev = "CMD" /\ tran.open)
    \/ cb \in Greetings /\ Offered(cb) /\ Commanded /\ Even /\ Free /\ next # "resume"

GoodGreet(greeting, next) ==
    /\ Offered(greeting) /\ (IF next = "resume" THEN Resuming ELSE Commanded)
    /\ Even /\ ~tran.open /\ Free

GoodClosure(func) ==
    /\ Replied /\ prev = Null
    /\ func \in {"pop", "accept"} => Odd
    /\ func = "clear_hello" => Even
    /\ func = "data" => Full

GoodResume ==
    \/ Closing /\ Rests
    \/ Resetting /\ Even /\ ~tran.open /\ Free
    \/ Replied /\ Even /\ prev = Null
    \/ Asked("resume") /\ Resuming

Good(t, next) ==
    /\ t.do = "run_hooks" => GoodRun(t, next)
    /\ t.do = "run_next_hook" => GoodNext(t, next)
    /\ t.do \in {"callback", "respond_method"} => GoodAnswer(t, next)
    /\ t.do = "respond_method" => toRun = <<>>
    /\ t.do = "respond" => /\ IF t.ret = "cont" THEN GoodReply(t.then) ELSE GoodNotice(t.then)
                           /\ next # "resume"
    /\ t.do \in {"fail", "disconnect"} => GoodNotice(t.do) /\ next # "resume"
    /\ t.do = "run_disconnect" => state = "DISCONNECTING" /\ ~tran.open /\ Even /\ Ending
    /\ t.do = "reset_transaction" => GoodReset(t.then, next)
    /\ t.do \in Greetings => GoodGreet(t.do, next)
    /\ t.do \in Closures => GoodClosure(t.do) /\ next # "resume"
    /\ t.do = "resume" => GoodResume /\ (next = "resume" => Closing \/ Resetting)
    /\ t.do \in Benign => Rests /\ (next = "resume" => Closing)

\* The task below the top one.  What lies below that is benign, or is a
\* resume() that will find the connection closing.
Below  == IF Len(agenda) > 1 THEN agenda[2].do ELSE "none"
Tailed == \A i \in 2 .. Len(agenda) :
             /\ agenda[i].do \in Benign \cup {"resume"}
             /\ agenda[i].do = "resume" /\ i > 2 => Closing

Disciplined == IF agenda = <<>> THEN Rests ELSE Good(Head(agenda), Below)

\* A client that waits has sent no line but the one being read.
Patient == ~Pipelining => /\ ~earlyTalker
                          /\ buf # <<>> => agenda = <<Process>> /\ Ready /\ Len(buf) = 1

Stacked == agenda \in Seq(TaskT) /\ Tailed /\ Disciplined
IInv    == Stacked /\ Typed /\ ~thrown /\ Patient

------------------------------------------------------------------------------
(* The agenda: what a call leaves on it. *)

\* The next task is on top of what lay below the last one.
LEMMA TopOfTwo ==
    ASSUME NEW s \in Seq(TaskT), NEW t \in TaskT
    PROVE  /\ <<t>> \o s \in Seq(TaskT) /\ Len(<<t>> \o s) = Len(s) + 1
           /\ (<<t>> \o s)[1] = t
           /\ \A i \in 2 .. Len(s) + 1 : (<<t>> \o s)[i] = s[i - 1]
    OBVIOUS

LEMMA PairOnto ==
    ASSUME NEW s \in Seq(TaskT), NEW t \in TaskT, NEW u \in TaskT
    PROVE  <<t, u>> \o s = <<t>> \o (<<u>> \o s)
  <1> DEFINE a == <<t, u>> \o s
             b == <<t>> \o (<<u>> \o s)
  <1>1. <<t, u>> \in Seq(TaskT) /\ Len(<<t, u>>) = 2 OBVIOUS
  <1>2. /\ a \in Seq(TaskT) /\ Len(a) = Len(s) + 2 /\ a[1] = t /\ a[2] = u
        /\ \A i \in 3 .. Len(s) + 2 : a[i] = s[i - 2]
    BY <1>1
  <1>3. /\ b \in Seq(TaskT) /\ Len(b) = Len(s) + 2 /\ b[1] = t /\ b[2] = u
        /\ \A i \in 3 .. Len(s) + 2 : b[i] = s[i - 2]
    BY TopOfTwo
  <1>4. Len(s) \in Nat OBVIOUS
  <1> HIDE DEF a, b
  <1>5. \A i \in 1 .. Len(a) : a[i] = b[i] BY <1>2, <1>3, <1>4
  <1>6. a = b BY <1>2, <1>3, <1>5, SeqEqual
  <1> QED BY <1>6 DEF a, b

LEMMA PairOf ==
    ASSUME NEW t \in TaskT, NEW u \in TaskT
    PROVE  <<t>> \o <<u>> = <<t, u>>
  <1>1. <<u>> \in Seq(TaskT) /\ <<t, u>> \in Seq(TaskT) /\ Len(<<t, u>>) = 2 /\ Len(<<u>>) = 1
        /\ <<u>>[1] = u
    OBVIOUS
  <1> DEFINE s == <<t>> \o <<u>>
  <1>2. s \in Seq(TaskT) /\ Len(s) = 2 /\ s[1] = t /\ s[2] = u BY <1>1, TopOfTwo
  <1> HIDE DEF s
  <1>3. \A i \in 1 .. Len(s) : s[i] = <<t, u>>[i] BY <1>2
  <1>4. s = <<t, u>> BY <1>1, <1>2, <1>3, SeqEqual
  <1> QED BY <1>4 DEF s

LEMMA TailOf ==
    ASSUME NEW S, NEW s \in Seq(S), s # <<>>
    PROVE  /\ Tail(s) \in Seq(S) /\ Len(Tail(s)) = Len(s) - 1 /\ Len(s) > 0
           /\ Head(s) = s[1] /\ Head(s) \in S
           /\ \A i \in 1 .. Len(s) - 1 : Tail(s)[i] = s[i + 1]
    OBVIOUS

\* The task on top.
LEMMA TopTask ==
    ASSUME Stacked, agenda # <<>>
    PROVE  Head(agenda) \in TaskT /\ Good(Head(agenda), Below)
    BY TailOf DEF Stacked, Disciplined

\* A task that calls nothing leaves resume(), a benign task, or nothing.
LEMMA Popped ==
    ASSUME Stacked, agenda # <<>>, Call(<<>>),
           Closing => Closing',
           IF Below = "resume" THEN GoodResume' ELSE Rests'
    PROVE  Stacked'
  <1>0. agenda \in Seq(TaskT) /\ Tailed BY DEF Stacked
  <1>1. agenda' = Tail(agenda) BY DEF Call
  <1>2. /\ agenda' \in Seq(TaskT) /\ Len(agenda') = Len(agenda) - 1
        /\ \A i \in 1 .. Len(agenda) - 1 : agenda'[i] = agenda[i + 1]
    BY <1>1, <1>0, TailOf
  <1>3. Tailed'
    <2> SUFFICES ASSUME NEW i \in 2 .. Len(agenda')
                 PROVE  /\ agenda'[i].do \in Benign \cup {"resume"}
                        /\ agenda'[i].do = "resume" /\ i > 2 => Closing'
      BY DEF Tailed
    <2>1. i + 1 \in 2 .. Len(agenda) /\ agenda'[i] = agenda[i + 1] /\ i + 1 > 2 BY <1>2
    <2> QED BY <1>0, <2>1 DEF Tailed
  <1>4. CASE agenda' = <<>>
    <2>1. Len(agenda) = 1 BY <1>4, <1>2
    <2>2. Rests' BY <2>1 DEF Below
    <2> QED BY <1>2, <1>3, <1>4, <2>2 DEF Disciplined, Stacked
  <1>5. CASE agenda' # <<>>
    <2>1. Len(agenda) > 1 /\ Head(agenda') = agenda[2] /\ agenda[2].do = Below
      BY <1>5, <1>2, <1>0, TailOf DEF Below
    <2>2. Below \in Benign \cup {"resume"} BY <1>0, <2>1 DEF Tailed
    <2>3. Below' = "resume" => Closing
      <3> SUFFICES ASSUME Below' = "resume" PROVE Closing OBVIOUS
      <3>1. Len(agenda') > 1 /\ agenda'[2].do = "resume" BY DEF Below
      <3>2. Len(agenda) > 2 /\ agenda[3].do = "resume" BY <3>1, <1>2
      <3> QED BY <1>0, <3>2, <1>2 DEF Tailed
    <2>4. Good(Head(agenda), Below)'
      BY <2>1, <2>2, <2>3 DEF Good, Benign, Greetings, Closures
    <2> QED BY <1>2, <1>3, <1>5, <2>4 DEF Disciplined, Stacked
  <1> QED BY <1>4, <1>5

\* A task that calls one: the same task lies below.
LEMMA Called ==
    ASSUME Stacked, agenda # <<>>, Closing => Closing',
           NEW t \in TaskT, NEW next, Call(<<t>>), next = Below, Good(t, next)'
    PROVE  Stacked'
  <1>0. agenda \in Seq(TaskT) /\ Tailed BY DEF Stacked
  <1>1. agenda' = <<t>> \o Tail(agenda) BY DEF Call
  <1>2. /\ agenda' \in Seq(TaskT) /\ Len(agenda') = Len(agenda) /\ agenda' # <<>>
        /\ Head(agenda') = t
        /\ \A i \in 2 .. Len(agenda) : agenda'[i] = agenda[i]
    BY <1>1, <1>0, TailOf, TopOfTwo
  <1>3. Below' = next BY <1>0, <1>2 DEF Below
  <1>4. Tailed' BY <1>0, <1>2 DEF Tailed
  <1> QED BY <1>2, <1>3, <1>4 DEF Disciplined, Stacked

\* A task that calls two: the second is put off, and lies below the first.
LEMMA CalledTwo ==
    ASSUME Stacked, agenda # <<>>, Closing => Closing',
           NEW t \in TaskT, NEW u \in TaskT, Call(<<t, u>>),
           u.do \in Benign \cup {"resume"}, Below = "resume" => Closing, Good(t, u.do)'
    PROVE  Stacked'
  <1>0. agenda \in Seq(TaskT) /\ Tailed BY DEF Stacked
  <1>1. agenda' = <<t>> \o (<<u>> \o Tail(agenda))
    <2>1. Tail(agenda) \in Seq(TaskT) BY <1>0, TailOf
    <2> QED BY <2>1, PairOnto DEF Call
  <1>2. /\ <<u>> \o Tail(agenda) \in Seq(TaskT) /\ Len(<<u>> \o Tail(agenda)) = Len(agenda)
        /\ (<<u>> \o Tail(agenda))[1] = u
        /\ \A i \in 2 .. Len(agenda) : (<<u>> \o Tail(agenda))[i] = agenda[i]
    BY <1>0, TailOf, TopOfTwo
  <1>3. /\ agenda' \in Seq(TaskT) /\ Len(agenda') = Len(agenda) + 1 /\ agenda' # <<>>
        /\ Head(agenda') = t /\ agenda'[2] = u
        /\ \A i \in 3 .. Len(agenda') : agenda'[i] = agenda[i - 1]
    BY <1>1, <1>2, <1>0, TailOf, TopOfTwo
  <1>4. Below' = u.do BY <1>3, <1>0, TailOf DEF Below
  <1>5. Tailed'
    BY <1>3, <1>0, TailOf DEF Tailed, Below
  <1> QED BY <1>3, <1>4, <1>5 DEF Disciplined, Stacked

\* A command's handler is called in a try block, before the loop goes on.
LEMMA CalledThree ==
    ASSUME Stacked, agenda # <<>>, Closing => Closing',
           NEW t \in TaskT, NEW u \in TaskT, NEW v \in TaskT, Call(<<t, u>> \o <<v>>),
           u.do \in Benign, v.do \in Benign, Below # "resume", Good(t, u.do)'
    PROVE  Stacked'
  <1>0. agenda \in Seq(TaskT) /\ Tailed BY DEF Stacked
  <1> DEFINE s == <<v>> \o Tail(agenda)
             r == <<u>> \o s
  <1>1. /\ s \in Seq(TaskT) /\ Len(s) = Len(agenda) /\ s[1] = v
        /\ \A i \in 2 .. Len(agenda) : s[i] = agenda[i]
    BY <1>0, TailOf, TopOfTwo
  <1>2. agenda' = <<t>> \o r
    <2>1. Tail(agenda) \in Seq(TaskT) BY <1>0, TailOf
    <2>2. <<t, u>> \in Seq(TaskT) /\ <<v>> \in Seq(TaskT) OBVIOUS
    <2>3. (<<t, u>> \o <<v>>) \o Tail(agenda) = <<t, u>> \o s BY <2>1, <2>2, ConcatAssociative
    <2> HIDE DEF s
    <2>4. <<t, u>> \o s = <<t>> \o r BY <1>1, PairOnto
    <2> QED BY <2>3, <2>4 DEF Call
  <1> HIDE DEF s
  <1>3. /\ r \in Seq(TaskT) /\ Len(r) = Len(agenda) + 1 /\ r[1] = u
        /\ \A i \in 2 .. Len(agenda) + 1 : r[i] = s[i - 1]
    BY <1>1, TopOfTwo
  <1> HIDE DEF r
  <1>4. /\ agenda' \in Seq(TaskT) /\ Len(agenda') = Len(agenda) + 2 /\ agenda' # <<>>
        /\ Head(agenda') = t
        /\ \A i \in 2 .. Len(agenda) + 2 : agenda'[i] = r[i - 1]
    BY <1>2, <1>3, TailOf, TopOfTwo
  <1>5. Len(agenda) \in Nat /\ Len(agenda) > 0 BY <1>0, TailOf
  <1>6. /\ agenda'[2] = u /\ agenda'[3] = v
        /\ \A i \in 4 .. Len(agenda') : agenda'[i] = agenda[i - 2]
    <2>1. agenda'[2] = u /\ agenda'[3] = v
      <3>1. agenda'[2] = r[1] BY <1>4, <1>5
      <3>2. agenda'[3] = r[2] BY <1>4, <1>5
      <3>3. r[2] = s[1] BY <1>3, <1>5
      <3> QED BY <3>1, <3>2, <3>3, <1>1, <1>3
    <2>2. ASSUME NEW i \in 4 .. Len(agenda') PROVE agenda'[i] = agenda[i - 2]
      <3>1. i - 1 \in 2 .. Len(agenda) + 1 /\ i - 2 \in 2 .. Len(agenda) /\ i - 1 - 1 = i - 2
        BY <1>4, <1>5
      <3>2. agenda'[i] = r[i - 1] BY <1>4, <1>5
      <3>3. r[i - 1] = s[i - 2] BY <3>1, <1>3
      <3> QED BY <3>1, <3>2, <3>3, <1>1
    <2> QED BY <2>1, <2>2
  <1>7. Below' = u.do BY <1>4, <1>5, <1>6 DEF Below
  <1>8. Tailed'
    <2> SUFFICES ASSUME NEW i \in 2 .. Len(agenda')
                 PROVE  /\ agenda'[i].do \in Benign \cup {"resume"}
                        /\ agenda'[i].do = "resume" /\ i > 2 => Closing'
      BY DEF Tailed
    <2>1. CASE i \in {2, 3} BY <2>1, <1>6 DEF Benign
    <2>2. CASE i \notin {2, 3}
      <3>1. i \in 4 .. Len(agenda') /\ i - 2 \in 2 .. Len(agenda) BY <2>2, <1>4, <1>5
      <3>2. agenda'[i] = agenda[i - 2] BY <3>1, <1>6
      <3>3. i - 2 = 2 => agenda[i - 2].do # "resume" BY <3>1, <1>5 DEF Below
      <3> QED BY <3>1, <3>2, <3>3, <1>0 DEF Tailed
    <2> QED BY <2>1, <2>2
  <1> QED BY <1>4, <1>7, <1>8 DEF Disciplined, Stacked

------------------------------------------------------------------------------
(* What the parts of the invariant depend on. *)

LEMMA SameServing ==
    ASSUME UNCHANGED <<state, prev, owed, tran, denied>>, NEW h, NEW then, NEW next,
           ran'["disconnect"] = ran["disconnect"] \/ h = "disconnect"
    PROVE  Serving(h, then, next)' <=> Serving(h, then, next)
    BY DEF Serving, Working, Even, Odd, Full, Commanded, Resuming, Posting, Resetting, Closing

LEMMA SameLeft ==
    ASSUME UNCHANGED <<toRun, saved, denied, ran>>, NEW h
    PROVE  Left(h)' <=> Left(h)
    BY DEF Left, All

LEMMA SameFree ==
    ASSUME UNCHANGED <<toRun, ran, state, calls, waits>>
    PROVE  /\ Free' <=> Free
           /\ Quiet' <=> Quiet
           /\ Closing' <=> Closing
    BY DEF Free, Quiet, Closing

LEMMA SameEnding ==
    ASSUME UNCHANGED <<calls, current, tran, ran>>
    PROVE  /\ Ending' <=> Ending
           /\ One' <=> One
    BY DEF Ending, One

LEMMA SameEven ==
    ASSUME UNCHANGED tran
    PROVE  (Even' <=> Even) /\ (Odd' <=> Odd) /\ (Full' <=> Full)
    BY DEF Even, Odd, Full

LEMMA SameAsked ==
    ASSUME UNCHANGED <<toRun, saved, denied, calls, current, state, prev, owed, tran, ran, waits>>,
           NEW next
    PROVE  Asked(next)' <=> Asked(next)
  <1>1. \A c : /\ Serving(c.hook, c.then, next)' <=> Serving(c.hook, c.then, next)
               /\ Left(c.hook)' <=> Left(c.hook)
    BY SameServing, SameLeft
  <1>2. Closing' <=> Closing BY DEF Closing
  <1> QED BY <1>1, <1>2 DEF Asked

LEMMA SameRests ==
    ASSUME UNCHANGED <<toRun, saved, denied, calls, current, state, prev, owed, tran, ran, waits>>
    PROVE  Rests' <=> Rests
  <1>1. Asked("none")' <=> Asked("none") BY SameAsked
  <1>2. (Ready' <=> Ready) /\ (Streams' <=> Streams) /\ (Over' <=> Over)
    BY SameFree, SameEven DEF Ready, Streams, Over, Posting
  <1> QED BY <1>1, <1>2 DEF Rests

\* The task below matters only while the client stays.
LEMMA ServingNow ==
    ASSUME NEW h, NEW then, NEW next, next = "resume" => Closing
    PROVE  Serving(h, then, next) <=> Serving(h, then, "none")
  <1>1. ASSUME NEW g PROVE Working(g, then, next) <=> Working(g, then, "none")
    BY DEF Working, Closing, Greetings, Resuming, Commanded
  <1> QED BY <1>1 DEF Serving

\* The hooks of a connection that is ending.
LEMMA ServingClosing ==
    ASSUME NEW h, NEW then, NEW next, Serving(h, then, next), Closing
    PROVE  /\ h \in {"disconnect", "reset_transaction", "deny"}
           /\ h = "deny" => denied.hook = "disconnect"
           /\ state = "DISCONNECTING"
           /\ h = "reset_transaction" => then = "run_disconnect"
           /\ h # "reset_transaction" => ~tran.open /\ Even /\ then = "none"
  <1>1. ASSUME NEW g, g \in Names \ {"deny"}, NEW m, Working(g, then, m)
        PROVE  /\ g \in {"disconnect", "reset_transaction"} /\ state = "DISCONNECTING"
               /\ g = "reset_transaction" => then = "run_disconnect"
               /\ g # "reset_transaction" => ~tran.open /\ Even /\ then = "none"
    BY <1>1 DEF Working, Closing, Names, ConnectHooks, Greetings, Chat, RcptHooks, Post, Posting,
              Commanded, Resuming, Resetting
  <1> QED BY <1>1 DEF Serving, Overruled

\* The hooks of one that is not.
LEMMA ServingLive ==
    ASSUME NEW h, NEW then, NEW next, Serving(h, then, next), ~Closing
    PROVE  /\ state \in {"PAUSE", "PAUSE_SMTP", "PAUSE_DATA"}
           /\ h # "disconnect" /\ (h = "deny" => denied.hook # "disconnect")
           /\ ran["disconnect"] = 0
           /\ h # "reset_transaction" => ~tran.resetting /\ owed = 1 /\ then = "none"
  <1>1. ASSUME NEW g, g \in Names \ {"deny"}, NEW m, Working(g, then, m)
        PROVE  /\ g # "disconnect" /\ ran["disconnect"] = 0
               /\ state \in {"PAUSE", "PAUSE_SMTP", "PAUSE_DATA"}
               /\ g # "reset_transaction" => ~tran.resetting /\ owed = 1 /\ then = "none"
    BY <1>1 DEF Working, Closing, Names, ConnectHooks, Greetings, Chat, RcptHooks, Post, Posting,
              Commanded, Resuming, Resetting, Even, Odd, Full
  <1> QED BY <1>1 DEF Serving, Overruled

\* Between turns a connection that is not over may be ended.
LEMMA RestsEnding ==
    ASSUME Rests, ~Closing
    PROVE  Ending /\ (Asked("none") => owed = 1)
  <1>1. CASE Ready BY <1>1 DEF Ready, Free, Quiet, Ending, One, Even, Asked
  <1>2. CASE Streams BY <1>2 DEF Streams, Full, Even, Ending, One, Asked
  <1>3. CASE Asked("none") BY <1>3, ServingLive DEF Asked, Ending, One
  <1>4. CASE Over BY <1>4 DEF Over, Closing
  <1> QED BY <1>1, <1>2, <1>3, <1>4 DEF Rests

\* A client that has sent no line stays so.
LEMMA PatientKept ==
    ASSUME Patient, UNCHANGED <<buf, earlyTalker>>, agenda # <<Process>>
    PROVE  Patient'
    BY DEF Patient

------------------------------------------------------------------------------
(* The hook runner. *)

\* The record a task constructor makes.
LEMMA RunMade ==
    ASSUME NEW h \in Names, NEW then \in Thens, NEW r \in Rets
    PROVE  /\ Run(h, then) \in TaskT /\ RunNext(h, then) \in TaskT
           /\ Callback(h, then, r) \in TaskT /\ Respond(h, then, r) \in TaskT
           /\ Run(h, then).do = "run_hooks" /\ RunNext(h, then).do = "run_next_hook"
           /\ Callback(h, then, r).do = "callback" /\ Respond(h, then, r).do = "respond_method"
           /\ \A t \in {Run(h, then), RunNext(h, then), Callback(h, then, r), Respond(h, then, r)} :
                 t.hook = h /\ t.then = then
           /\ Callback(h, then, r).ret = r /\ Respond(h, then, r).ret = r
    BY DEF Run, RunNext, Callback, Respond, Task, TaskT, Dos, Rets

LEMMA TriedMade ==
    ASSUME NEW catch \in {"callback", "respond"}
    PROVE  Tried(catch) \in TaskT /\ Tried(catch).do = "tried" /\ Tried(catch).then = catch
    BY DEF Tried, Task, TaskT, Dos, Benign, Thens, Rets

\* The methods hooks_to_run starts with.
LEMMA ChainMade ==
    ASSUME NEW h \in Names, NEW s, s = [i \in 1 .. Registered[h] |-> h], Registered[h] \in Nat
    PROVE  /\ s \in Seq(Plugged) /\ Len(s) = Registered[h]
           /\ All(s, h) /\ (Registered[h] > 0 => s # <<>>)
  <1>1. \A i \in 1 .. Registered[h] : h \in Plugged BY DEF Plugged
  <1>2. s \in Seq(Plugged) /\ DOMAIN s = 1 .. Registered[h] BY <1>1, IsASeq
  <1>3. Len(s) = Registered[h] BY <1>2, LenProperties
  <1> QED BY <1>2, <1>3 DEF All

\* The next method is the hook's, and so are those after it.
LEMMA HeadOfAll ==
    ASSUME NEW s \in Seq(Plugged), s # <<>>, NEW h, All(s, h)
    PROVE  /\ Head(s) = h /\ Tail(s) \in Seq(Plugged) /\ All(Tail(s), h)
           /\ Len(Tail(s)) = Len(s) - 1 /\ Len(s) \in Nat /\ h \in Plugged
  <1>1. DOMAIN s = 1 .. Len(s) /\ DOMAIN Tail(s) = 1 .. Len(Tail(s)) /\ Len(s) \in Nat
    BY TailOf, LenProperties
  <1> QED BY <1>1, TailOf DEF All

\* When a hook's chain may be started with no method to run.
LEMMA Registers ==
    ASSUME Sober, NEW h, NEW then, NEW next, Serving(h, then, next)
    PROVE  /\ h \in Names /\ h \in Hooks /\ Registered[h] \in Nat
           /\ h \in {"lookup_rdns", "queue_outbound"} => Registered[h] > 0
           /\ h = "queue_outbound" => Relaying
           /\ next = "resume" /\ ~Closing => Registered[h] > 0 /\ h \in Greetings /\ h \notin Sync
  <1>1. h \in Names BY DEF Serving, Names
  <1>2. h \in Hooks /\ Registered[h] \in Nat
    BY <1>1, HooksAssumption DEF Sober, NamesAssumed
  <1>3. h = "queue_outbound" => Relaying BY DEF Serving, Working, Post
  <1>4. h \in {"lookup_rdns", "queue_outbound"} => Registered[h] > 0
    BY <1>3 DEF Sober, PluginsKnow, Sure
  <1>5. next = "resume" /\ ~Closing => h \in Greetings /\ Offered(h)
    BY DEF Serving, Working, Greetings
  <1> QED BY <1>1, <1>2, <1>3, <1>4, <1>5 DEF Sober, GreetsLater

\* What the plugins of a hook are assumed to answer.
LEMMA AnswerPossible ==
    ASSUME Sober, NEW h \in Plugged, h = "queue_outbound" => Relaying, NEW ret \in Answers[h]
    PROVE  ret \in Rets /\ Possible(h, ret)
  <1>1. ret \in Rets BY HooksAssumption DEF Sober, NamesAssumed, Plugged
  <1> QED BY <1>1 DEF Sober, PluginsKnow, ConnectsAll, DenyDecides, ResetsNow, Sure, Says, Plugged,
                      Possible

\* The hook runner counts the methods it calls, and touches no other state
\* of the connection.
LEMMA Counted ==
    ASSUME Typed, HookTask
    PROVE  /\ UNCHANGED <<state, prev, buf, tran, earlyTalker, waits, owed>>
           /\ ran' \in [{"connect_init", "disconnect"} -> Nat]
           /\ ran'["disconnect"] = ran["disconnect"] + (IF Calling("disconnect") THEN 1 ELSE 0)
           /\ ~Doing("run_next_hook") \/ toRun = <<>> => ran' = ran
  <1>1. \A h : ~Doing("run_next_hook") \/ toRun = <<>> => ~Calling(h) BY DEF Calling
  <1>2. /\ ran \in [{"connect_init", "disconnect"} -> Nat]
        /\ ran' = [h \in {"connect_init", "disconnect"} |->
                      ran[h] + IF Calling(h) THEN 1 ELSE 0]
    BY DEF Typed, HookTask
  <1>3. ran' \in [{"connect_init", "disconnect"} -> Nat] BY <1>2
  <1>4. ~Doing("run_next_hook") \/ toRun = <<>> => ran' = ran
    BY <1>1, <1>2
  <1> QED BY <1>2, <1>3, <1>4 DEF HookTask

LEMMA RunHooksKeeps ==
    ASSUME Sober, IInv, HookTask, RunHooks
    PROVE  IInv'
  <1>1. PICK t, next : t = Head(agenda) /\ next = Below OBVIOUS
  <1>2. /\ Stacked /\ agenda # <<>> /\ t.do = "run_hooks" /\ Typed /\ ~thrown /\ Patient
    BY <1>1 DEF IInv, RunHooks, Doing
  <1>3. t \in TaskT /\ GoodRun(t, next) BY <1>1, <1>2, TopTask DEF Good
  <1>4. ~AlreadyRunning(t.hook)
    BY <1>3 DEF AlreadyRunning, GoodRun
  <1>5. /\ Cancel(t.hook)
        /\ saved' = IF t.hook = "deny" THEN toRun ELSE saved
        /\ toRun' = [i \in 1 .. Registered[t.hook] |-> t.hook]
        /\ Call(<<RunNext(t.hook, t.then)>>)
        /\ UNCHANGED <<thrown, denied, current, late>>
    BY <1>1, <1>4 DEF RunHooks
  <1>6. UNCHANGED <<state, prev, buf, tran, earlyTalker, waits, owed, ran>> 
    BY <1>1, <1>2, Counted DEF Doing
  <1>7. Serving(t.hook, t.then, next) BY <1>3 DEF GoodRun
  <1>8. Serving(t.hook, t.then, next)' BY <1>5, <1>6, <1>7, SameServing
  <1>9. /\ t.hook \in Names /\ Registered[t.hook] \in Nat
        /\ t.hook \in {"lookup_rdns", "queue_outbound"} => Registered[t.hook] > 0
        /\ next = "resume" /\ ~Closing => Registered[t.hook] > 0
    BY <1>7, Registers
  <1>10. /\ toRun' \in Seq(Plugged) /\ Len(toRun') = Registered[t.hook]
         /\ All(toRun', t.hook) /\ (Registered[t.hook] > 0 => toRun' # <<>>)
    BY <1>5, <1>9, ChainMade
  <1>11. calls' = {}
    <2>1. CASE calls = {} BY <2>1, <1>5 DEF Cancel
    <2>2. CASE calls # {}
      <3>1. One /\ (t.hook = "disconnect" \/ t.then = "run_disconnect")
        BY <2>2, <1>3 DEF GoodRun, Quiet
      <3>2. t.hook \in {"disconnect", "reset_transaction"}
        BY <3>1, <1>7 DEF Serving, Working, Overruled
      <3>3. current # None
        BY <2>2, <3>1, <1>2 DEF One, Typed, CallT, None
      <3> QED BY <3>1, <3>2, <3>3, <1>5 DEF Cancel, One
    <2> QED BY <2>1, <2>2
  <1>12. Quiet'
    <2>1. Closing \/ waits = {}
      <3>1. CASE t.hook = "disconnect" \/ t.then = "run_disconnect"
        BY <3>1, <1>7 DEF Serving, Working, Greetings, Closing
      <3>2. CASE ~(t.hook = "disconnect" \/ t.then = "run_disconnect")
        BY <3>2, <1>3 DEF GoodRun, Quiet
      <3> QED BY <3>1, <3>2
    <2> QED BY <2>1, <1>6, <1>11 DEF Quiet, Closing
  <1>13. Left(t.hook)'
    <2>1. t.hook = "deny" => All(saved', denied.hook) /\ (denied.hook = "disconnect" => saved' = <<>>)
      BY <1>3, <1>5 DEF GoodRun
    <2>2. t.hook = "disconnect" => ran["disconnect"] + Len(toRun') = Registered["disconnect"]
      BY <1>3, <1>9, <1>10 DEF GoodRun
    <2>3. denied' = denied /\ ran' = ran BY <1>5, <1>6
    <2> QED BY <2>1, <2>2, <2>3, <1>10 DEF Left
  <1>14. PICK u : u = RunNext(t.hook, t.then) OBVIOUS
  <1>15. u \in TaskT /\ u.do = "run_next_hook" /\ u.hook = t.hook /\ u.then = t.then
    BY <1>3, <1>9, <1>14, RunMade DEF TaskT, Rets
  <1>16. Closing' <=> Closing BY <1>6 DEF Closing
  <1>17. Good(u, next)'
    BY <1>8, <1>9, <1>10, <1>12, <1>13, <1>15, <1>16
       DEF Good, GoodNext, Greetings, Closures, Benign
  <1>18. Stacked' BY <1>1, <1>2, <1>5, <1>14, <1>15, <1>16, <1>17, Called
  <1>19. Typed'
    BY <1>2, <1>5, <1>6, <1>10, <1>11 DEF Typed
  <1>20. Patient'
    BY <1>1, <1>2, <1>6, PatientKept DEF Process, Task
  <1> QED BY <1>2, <1>5, <1>18, <1>19, <1>20 DEF IInv

LEMMA ChainEndsKeeps ==
    ASSUME Sober, IInv, HookTask, ChainEnds
    PROVE  IInv'
  <1>1. PICK t, next : t = Head(agenda) /\ next = Below OBVIOUS
  <1>2. /\ Stacked /\ agenda # <<>> /\ t.do = "run_next_hook" /\ Typed /\ ~thrown /\ Patient
        /\ toRun = <<>>
    BY <1>1 DEF IInv, ChainEnds, Doing
  <1>3. t \in TaskT /\ GoodNext(t, next) BY <1>1, <1>2, TopTask DEF Good
  <1>4. PICK u : u = Callback(t.hook, t.then, "cont") OBVIOUS
  <1>5. Call(<<u>>) /\ UNCHANGED hookVars BY <1>1, <1>4 DEF ChainEnds
  <1>6. UNCHANGED <<state, prev, buf, tran, earlyTalker, waits, owed, ran>>
    BY <1>2, Counted
  <1>7. next = "resume" => Closing BY <1>2, <1>3 DEF GoodNext
  <1>8. Serving(t.hook, t.then, "none") BY <1>3, <1>7, ServingNow DEF GoodNext
  <1>9. t.hook \in Names BY <1>8, Registers
  <1>10. u \in TaskT /\ u.do = "callback" /\ u.hook = t.hook /\ u.then = t.then /\ u.ret = "cont"
    BY <1>3, <1>4, <1>9, RunMade DEF TaskT, Rets
  <1>11. Possible(t.hook, "cont")
    BY <1>2, <1>3 DEF GoodNext, Possible, Denials
  <1>12. /\ Serving(t.hook, t.then, "none")' /\ Left(t.hook)' /\ Quiet' /\ (Closing' <=> Closing)
    BY <1>3, <1>5, <1>6, <1>8, SameServing, SameLeft, SameFree DEF GoodNext, hookVars
  <1>13. Good(u, next)'
    BY <1>7, <1>10, <1>11, <1>12 DEF Good, GoodAnswer, Greetings, Closures, Benign, Possible
  <1>14. Stacked' BY <1>1, <1>2, <1>5, <1>10, <1>12, <1>13, Called
  <1>15. Typed' BY <1>2, <1>5, <1>6 DEF Typed, hookVars
  <1>16. Patient' BY <1>1, <1>2, <1>6, PatientKept DEF Process, Task
  <1> QED BY <1>2, <1>5, <1>14, <1>15, <1>16 DEF IInv, hookVars

LEMMA PluginAnswersNowKeeps ==
    ASSUME Sober, IInv, HookTask, PluginAnswersNow
    PROVE  IInv'
  <1>1. PICK t, next : t = Head(agenda) /\ next = Below OBVIOUS
  <1>2. /\ Stacked /\ agenda # <<>> /\ t.do = "run_next_hook" /\ Typed /\ ~thrown /\ Patient
        /\ toRun # <<>> /\ Head(toRun) \in Sync
    BY <1>1 DEF IInv, PluginAnswersNow, Doing
  <1>3. t \in TaskT /\ GoodNext(t, next) BY <1>1, <1>2, TopTask DEF Good
  <1>4. PICK ret \in Answers[Head(toRun)] :
           Call(<<Callback(t.hook, t.then, ret), Tried("callback")>>)
    BY <1>1 DEF PluginAnswersNow
  <1>5. PICK u, v : u = Callback(t.hook, t.then, ret) /\ v = Tried("callback") OBVIOUS
  <1>6. /\ toRun' = Tail(toRun)
        /\ UNCHANGED <<saved, denied, calls, current, late, thrown>>
    BY DEF PluginAnswersNow
  <1>7. /\ UNCHANGED <<state, prev, buf, tran, earlyTalker, waits, owed>>
        /\ ran' \in [{"connect_init", "disconnect"} -> Nat]
        /\ ran'["disconnect"] = ran["disconnect"] + (IF t.hook = "disconnect" THEN 1 ELSE 0)
    <2>1. Calling("disconnect") <=> t.hook = "disconnect"
      BY <1>1, <1>2, <1>3, HeadOfAll DEF Calling, Doing, GoodNext, Left, Typed
    <2> QED BY <1>2, <2>1, Counted
  <1>8. /\ Head(toRun) = t.hook /\ Tail(toRun) \in Seq(Plugged) /\ All(Tail(toRun), t.hook)
        /\ Len(Tail(toRun)) = Len(toRun) - 1 /\ Len(toRun) \in Nat
        /\ t.hook \in Plugged
    BY <1>2, <1>3, HeadOfAll DEF GoodNext, Left, Typed
  <1>9. Serving(t.hook, t.then, next) BY <1>3 DEF GoodNext
  <1>10. next = "resume" => Closing BY <1>2, <1>8, <1>9, Registers
  <1>11. Serving(t.hook, t.then, "none") BY <1>9, <1>10, ServingNow
  <1>12. t.hook \in Names /\ ret \in Rets /\ Possible(t.hook, ret)
    BY <1>4, <1>8, <1>11, Registers, AnswerPossible
  <1>13. u \in TaskT /\ u.do = "callback" /\ u.hook = t.hook /\ u.then = t.then /\ u.ret = ret
    BY <1>3, <1>5, <1>12, RunMade DEF TaskT
  <1>14. Serving(t.hook, t.then, "none")'
    BY <1>2, <1>6, <1>7, <1>11, SameServing DEF Typed
  <1>15. Left(t.hook)'
    <2>1. Left(t.hook) BY <1>3 DEF GoodNext
    <2> QED BY <2>1, <1>2, <1>6, <1>7, <1>8 DEF Left, Typed
  <1>16. Quiet' /\ (Closing' <=> Closing) BY <1>3, <1>6, <1>7 DEF GoodNext, Quiet, Closing
  <1>17. v \in TaskT /\ v.do = "tried" BY <1>5, TriedMade
  <1>18. Stacked'
    <2>1. Good(u, v.do)'
      BY <1>12, <1>13, <1>14, <1>15, <1>16, <1>17
         DEF Good, GoodAnswer, Greetings, Closures, Benign, Possible
    <2> QED BY <2>1, <1>1, <1>2, <1>4, <1>5, <1>10, <1>13, <1>16, <1>17, CalledTwo DEF Benign
  <1>19. Typed' BY <1>2, <1>6, <1>7, <1>8 DEF Typed
  <1>20. Patient' BY <1>1, <1>2, <1>7, PatientKept DEF Process, Task
  <1> QED BY <1>2, <1>6, <1>18, <1>19, <1>20 DEF IInv

\* A plugin is asked: the turn may end, or resume() is next.
LEMMA PluginWaitsKeeps ==
    ASSUME Sober, IInv, HookTask, PluginWaits
    PROVE  IInv'
  <1>1. PICK t, next : t = Head(agenda) /\ next = Below OBVIOUS
  <1>2. /\ Stacked /\ agenda # <<>> /\ t.do = "run_next_hook" /\ Typed /\ ~thrown /\ Patient
        /\ toRun # <<>> /\ Head(toRun) \in Async
    BY <1>1 DEF IInv, PluginWaits, Doing
  <1>3. t \in TaskT /\ GoodNext(t, next) BY <1>1, <1>2, TopTask DEF Good
  <1>4. /\ Head(toRun) = t.hook /\ Tail(toRun) \in Seq(Plugged) /\ All(Tail(toRun), t.hook)
        /\ Len(Tail(toRun)) = Len(toRun) - 1 /\ Len(toRun) \in Nat
        /\ t.hook \in Plugged
    BY <1>2, <1>3, HeadOfAll DEF GoodNext, Left, Typed
  <1>5. calls = {} /\ (~Closing => waits = {}) BY <1>3 DEF GoodNext, Quiet
  <1>6. NewId = 1
    BY <1>5, FS_EmptySet DEF NewId
  <1>7. PICK c : c = [id |-> 1, hook |-> t.hook, method |-> t.hook, then |-> t.then] OBVIOUS
  <1>8. c.id = 1 /\ c.hook = t.hook /\ c.method = t.hook /\ c.then = t.then BY <1>7
  <1>9. /\ calls' = {c} /\ current' = 1
        /\ toRun' = Tail(toRun) /\ Call(<<>>)
        /\ UNCHANGED <<saved, denied, late, thrown>>
    BY <1>1, <1>4, <1>5, <1>6, <1>7 DEF PluginWaits
  <1>10. /\ UNCHANGED <<state, prev, buf, tran, earlyTalker, waits, owed>>
         /\ ran' \in [{"connect_init", "disconnect"} -> Nat]
         /\ ran'["disconnect"] = ran["disconnect"] + (IF t.hook = "disconnect" THEN 1 ELSE 0)
    <2>1. Calling("disconnect") <=> t.hook = "disconnect"
      BY <1>1, <1>2, <1>4 DEF Calling, Doing
    <2> QED BY <1>2, <2>1, Counted
  <1>11. Serving(t.hook, t.then, next) BY <1>3 DEF GoodNext
  <1>12. t.hook \in Names BY <1>11, Registers
  <1>13. \A m : Serving(t.hook, t.then, m) => Serving(t.hook, t.then, m)'
    BY <1>2, <1>9, <1>10, SameServing DEF Typed
  <1>14. Left(t.hook)'
    <2>1. Left(t.hook) BY <1>3 DEF GoodNext
    <2> QED BY <2>1, <1>2, <1>4, <1>9, <1>10 DEF Left, Typed
  <1>15. Closing' <=> Closing BY <1>10 DEF Closing
  <1>16. t.hook # "reset_transaction" BY <1>2, <1>4 DEF Sober, ResetsNow
  <1>17. ASSUME NEW m, Serving(t.hook, t.then, m), m = "resume" => t.hook \in Greetings
         PROVE  Asked(m)'
    BY <1>17, <1>5, <1>8, <1>9, <1>10, <1>13, <1>14, <1>15, <1>16 DEF Asked
  <1>18. IF next = "resume" THEN GoodResume' ELSE Rests'
    <2>1. CASE next = "resume" /\ ~Closing
      <3>1. t.hook \in Greetings BY <2>1, <1>11, Registers
      <3>2. Asked("resume")' BY <2>1, <3>1, <1>11, <1>17
      <3>3. Resuming BY <2>1, <3>1, <1>11 DEF Serving, Working, Greetings
      <3>4. Resuming' BY <3>3, <1>10 DEF Resuming
      <3> QED BY <2>1, <3>2, <3>4 DEF GoodResume
    <2>2. CASE next # "resume" \/ Closing
      <3>1. Serving(t.hook, t.then, "none") BY <2>2, <1>11, ServingNow
      <3>2. Asked("none")' BY <3>1, <1>17
      <3> QED BY <2>2, <3>2, <1>15 DEF GoodResume, Rests
    <2> QED BY <2>1, <2>2
  <1>19. Stacked' BY <1>1, <1>2, <1>9, <1>15, <1>18, Popped
  <1>20. c \in CallT BY <1>3, <1>4, <1>7, <1>12 DEF CallT, TaskT
  <1>21. Typed' BY <1>2, <1>4, <1>9, <1>10, <1>20 DEF Typed
  <1>22. Patient' BY <1>1, <1>2, <1>10, PatientKept DEF Process, Task
  <1> QED BY <1>2, <1>9, <1>19, <1>21, <1>22 DEF IInv

\* A plugin's answer: the next method, the deny hook, or the *_respond.
LEMMA AnsweredKeeps ==
    ASSUME Sober, IInv, HookTask, Answered
    PROVE  IInv'
  <1>1. PICK t, next : t = Head(agenda) /\ next = Below OBVIOUS
  <1>2. /\ Stacked /\ agenda # <<>> /\ t.do = "callback" /\ Typed /\ ~thrown /\ Patient
    BY <1>1 DEF IInv, Answered, Doing
  <1>3. t \in TaskT /\ GoodAnswer(t, next) BY <1>1, <1>2, TopTask DEF Good
  <1>4. UNCHANGED <<state, prev, buf, tran, earlyTalker, waits, owed, ran>>
    BY <1>1, <1>2, Counted DEF Doing
  <1>5. current' = None /\ UNCHANGED <<saved, calls, late, spent, thrown>>
    BY DEF Answered
  <1>6. /\ next = "resume" => Closing
        /\ Serving(t.hook, t.then, "none") /\ Serving(t.hook, t.then, next)
        /\ Left(t.hook) /\ Quiet /\ Possible(t.hook, t.ret)
    BY <1>3, ServingNow DEF GoodAnswer
  <1>7. t.hook \in Names /\ t.then \in Thens /\ t.ret \in Rets
    BY <1>3, <1>6, Registers DEF TaskT
  <1>8. Quiet' /\ (Closing' <=> Closing) BY <1>4, <1>5, <1>6 DEF Quiet, Closing
  <1>9. Patient' BY <1>1, <1>2, <1>4, PatientKept DEF Process, Task
  <1>10. CASE toRun # <<>> /\ (t.ret = "cont" \/ t.hook \in {"connect_init", "disconnect"})
    <2>1. PICK u : u = RunNext(t.hook, t.then) OBVIOUS
    <2>2. Call(<<u>>) /\ UNCHANGED <<toRun, denied>> BY <2>1, <1>1, <1>10 DEF Answered
    <2>3. u \in TaskT /\ u.do = "run_next_hook" /\ u.hook = t.hook /\ u.then = t.then
      BY <2>1, <1>7, RunMade
    <2>4. Serving(t.hook, t.then, next)' /\ Left(t.hook)'
      BY <2>2, <1>4, <1>5, <1>6, SameServing, SameLeft
    <2>5. Good(u, next)'
      BY <2>2, <2>3, <2>4, <1>8, <1>10 DEF Good, GoodNext, Greetings, Closures, Benign
    <2>6. Stacked' BY <1>1, <1>2, <1>8, <2>2, <2>3, <2>5, Called
    <2>7. Typed' BY <1>2, <1>4, <1>5, <2>2 DEF Typed, None
    <2> QED BY <2>6, <2>7, <1>2, <1>5, <1>9 DEF IInv
  <1>11. CASE /\ ~(toRun # <<>> /\ (t.ret = "cont" \/ t.hook \in {"connect_init", "disconnect"}))
              /\ t.ret \in Denials
    <2>1. PICK u : u = Run("deny", t.then) OBVIOUS
    <2>2. /\ Call(<<u>>) /\ UNCHANGED toRun
          /\ denied' = Respond(t.hook, t.then, t.ret)
      BY <2>1, <1>1, <1>11 DEF Answered, Denials
    <2>3. /\ u \in TaskT /\ u.do = "run_hooks" /\ u.hook = "deny" /\ u.then = t.then
          /\ denied' \in TaskT /\ denied'.do = "respond_method" /\ denied'.hook = t.hook
          /\ denied'.then = t.then /\ denied'.ret = t.ret
      <3>1. "deny" \in Names BY DEF Names
      <3>2. "cont" \in Rets BY DEF Rets
      <3>3. u \in TaskT /\ u.do = "run_hooks" /\ u.hook = "deny" /\ u.then = t.then
        BY <2>1, <3>1, <3>2, <1>7, RunMade
      <3> QED BY <3>3, <2>2, <1>7, RunMade
    <2>4. t.hook \in Names \ Overruled
      BY <1>6, <1>7, <1>11 DEF Possible, Overruled, Denials
    <2>5. Working(t.hook, t.then, "none") BY <1>6, <2>4 DEF Serving, Overruled
    <2>6. Working(t.hook, t.then, "none")'
      BY <1>4, <2>5 DEF Working, Even, Odd, Full, Commanded, Resuming, Posting, Resetting, Closing
    <2>7. t.hook = "disconnect" => toRun = <<>> /\ ran["disconnect"] = Registered["disconnect"]
      BY <1>2, <1>6, <1>11, EmptySeq DEF Left, Typed
    <2>8. Serving("deny", t.then, next)'
      BY <2>3, <2>4, <2>6, <2>7, <1>4, <1>6, <1>8, <1>11 DEF Serving
    <2>9. t.then # "run_disconnect" BY <2>4, <2>5 DEF Working, Overruled
    <2>10. Good(u, next)'
      <3>1. All(toRun', denied'.hook) BY <1>6, <2>2, <2>3 DEF Left
      <3> QED BY <3>1, <2>2, <2>3, <2>7, <2>8, <2>9, <1>8
              DEF Good, GoodRun, Greetings, Closures, Benign
    <2>11. Stacked' BY <1>1, <1>2, <1>8, <2>2, <2>3, <2>10, Called
    <2>12. Typed' BY <1>2, <1>4, <1>5, <2>2, <2>3 DEF Typed, None
    <2> QED BY <2>11, <2>12, <1>2, <1>5, <1>9 DEF IInv
  <1>12. CASE /\ ~(toRun # <<>> /\ (t.ret = "cont" \/ t.hook \in {"connect_init", "disconnect"}))
              /\ t.ret \notin Denials
    <2>1. PICK u : u = Respond(t.hook, t.then, t.ret) OBVIOUS
    <2>2. Call(<<u>>) /\ toRun' = <<>> /\ UNCHANGED denied
      BY <2>1, <1>1, <1>12 DEF Answered, Denials
    <2>3. /\ u \in TaskT /\ u.do = "respond_method" /\ u.hook = t.hook /\ u.then = t.then
          /\ u.ret = t.ret
      BY <2>1, <1>7, RunMade
    <2>4. Serving(t.hook, t.then, "none")' BY <2>2, <1>4, <1>6, SameServing
    <2>5. Left(t.hook)'
      <3>1. t.hook = "disconnect" => toRun = <<>> BY <1>12
      <3>2. Len(<<>>) = 0 /\ \A i \in DOMAIN <<>> : FALSE BY EmptySeq
      <3> QED BY <3>1, <3>2, <2>2, <1>4, <1>5, <1>6 DEF Left, All
    <2>6. Good(u, next)'
      BY <2>2, <2>3, <2>4, <2>5, <1>6, <1>8 DEF Good, GoodAnswer, Possible, Greetings, Closures, Benign
    <2>7. Stacked' BY <1>1, <1>2, <1>8, <2>2, <2>3, <2>6, Called
    <2>8. Typed' BY <1>2, <1>4, <1>5, <2>2 DEF Typed, None
    <2> QED BY <2>7, <2>8, <1>2, <1>5, <1>9 DEF IInv
  <1> QED BY <1>10, <1>11, <1>12

\* deny_respond: the plugins that were left, or the handler of the hook.
LEMMA DenyRespondKeeps ==
    ASSUME Sober, IInv, HookTask, DenyRespond
    PROVE  IInv'
  <1>1. PICK t, next : t = Head(agenda) /\ next = Below OBVIOUS
  <1>2. /\ Stacked /\ agenda # <<>> /\ t.do = "respond_method" /\ t.hook = "deny"
        /\ Typed /\ ~thrown /\ Patient
    BY <1>1 DEF IInv, DenyRespond, Doing
  <1>3. t \in TaskT /\ GoodAnswer(t, next) /\ toRun = <<>> BY <1>1, <1>2, TopTask DEF Good
  <1>4. UNCHANGED <<state, prev, buf, tran, earlyTalker, waits, owed, ran>>
    BY <1>1, <1>2, Counted DEF Doing
  <1>5. UNCHANGED <<denied, calls, current, late, spent, thrown>> BY DEF DenyRespond
  <1>6. PICK h, then : h = denied.hook /\ then = denied.then OBVIOUS
  <1>7. /\ next = "resume" => Closing
        /\ Serving("deny", t.then, "none") /\ Left("deny") /\ Quiet
    BY <1>2, <1>3 DEF GoodAnswer
  <1>8. /\ denied.do = "respond_method" /\ then = t.then /\ h \in Names \ Overruled
        /\ denied.ret \in Denials /\ Working(h, then, "none")
        /\ h = "disconnect" => ran["disconnect"] = Registered["disconnect"]
    BY <1>6, <1>7 DEF Serving
  <1>9. h # "deny" /\ Serving(h, then, "none") /\ Serving(h, then, next)
    BY <1>7, <1>8, ServingNow DEF Serving, Overruled
  <1>10. /\ Serving(h, then, "none")' /\ Serving(h, then, next)'
         /\ Quiet' /\ (Closing' <=> Closing)
    BY <1>4, <1>5, <1>7, <1>9, SameServing DEF Quiet, Closing
  <1>11. then \in Thens BY <1>3, <1>8 DEF TaskT
  <1>12. Patient' BY <1>1, <1>2, <1>4, PatientKept DEF Process, Task
  <1>13. Len(<<>>) = 0 /\ \A i \in DOMAIN <<>> : FALSE BY EmptySeq
  <1>14. CASE t.ret = "ok" /\ saved # <<>>
    <2>1. PICK u : u = RunNext(h, then) OBVIOUS
    <2>2. Call(<<u>>) /\ toRun' = saved /\ UNCHANGED saved
      BY <2>1, <1>1, <1>6, <1>14 DEF DenyRespond
    <2>3. u \in TaskT /\ u.do = "run_next_hook" /\ u.hook = h /\ u.then = then
      BY <2>1, <1>8, <1>11, RunMade DEF Rets
    <2>4. Left(h)' BY <2>2, <1>4, <1>6, <1>7, <1>9, <1>14 DEF Left, All
    <2>5. Good(u, next)'
      BY <2>2, <2>3, <2>4, <1>10, <1>14 DEF Good, GoodNext, Greetings, Closures, Benign
    <2>6. Stacked' BY <1>1, <1>2, <1>10, <2>2, <2>3, <2>5, Called
    <2>7. Typed' BY <1>2, <1>4, <1>5, <2>2 DEF Typed
    <2> QED BY <2>6, <2>7, <1>2, <1>5, <1>12 DEF IInv
  <1>15. CASE t.ret = "ok" /\ saved = <<>>
    <2>1. PICK u : u = Respond(h, then, "cont") OBVIOUS
    <2>2. Call(<<u>>) /\ UNCHANGED <<toRun, saved>>
      BY <2>1, <1>1, <1>6, <1>15 DEF DenyRespond
    <2>3. u \in TaskT /\ u.do = "respond_method" /\ u.hook = h /\ u.then = then /\ u.ret = "cont"
      BY <2>1, <1>8, <1>11, RunMade DEF Rets
    <2>4. Left(h)' BY <2>2, <1>2, <1>3, <1>4, <1>8, <1>9, <1>13 DEF Left, All, Typed
    <2>5. Possible(h, "cont") BY <1>8 DEF Possible, Overruled, Denials
    <2>6. Good(u, next)'
      BY <2>2, <2>3, <2>4, <2>5, <1>3, <1>7, <1>10
         DEF Good, GoodAnswer, Possible, Greetings, Closures, Benign
    <2>7. Stacked' BY <1>1, <1>2, <1>10, <2>2, <2>3, <2>6, Called
    <2>8. Typed' BY <1>2, <1>4, <1>5, <2>2 DEF Typed
    <2> QED BY <2>7, <2>8, <1>2, <1>5, <1>12 DEF IInv
  <1>16. CASE t.ret # "ok"
    <2>1. PICK u : u = denied OBVIOUS
    <2>2. Call(<<u>>) /\ toRun' = <<>> /\ saved' = <<>>
      BY <2>1, <1>1, <1>16 DEF DenyRespond
    <2>3. /\ u \in TaskT /\ u.do = "respond_method" /\ u.hook = h /\ u.then = then
          /\ u.ret \in Denials
      BY <2>1, <1>2, <1>6, <1>8 DEF Typed
    <2>4. Left(h)' BY <2>2, <1>2, <1>4, <1>8, <1>9, <1>13 DEF Left, All, Typed
    <2>5. Possible(h, u.ret) BY <1>8 DEF Possible, Overruled
    <2>6. Good(u, next)'
      BY <2>2, <2>3, <2>4, <2>5, <1>7, <1>10
         DEF Good, GoodAnswer, Possible, Greetings, Closures, Benign
    <2>7. Stacked' BY <1>1, <1>2, <1>10, <2>2, <2>3, <2>6, Called
    <2>8. Typed' BY <1>2, <1>4, <1>5, <2>2, EmptySeq DEF Typed
    <2> QED BY <2>7, <2>8, <1>2, <1>5, <1>12 DEF IInv
  <1> QED BY <1>14, <1>15, <1>16

\* A try block ends: what was called in it has returned.
LEMMA TryEndsKeeps ==
    ASSUME Sober, IInv, HookTask, TryEnds
    PROVE  IInv'
  <1>1. PICK t, next : t = Head(agenda) /\ next = Below OBVIOUS
  <1>2. Stacked /\ agenda # <<>> /\ t.do = "tried" /\ Typed /\ ~thrown /\ Patient
    BY <1>1 DEF IInv, TryEnds, Doing
  <1>3. Rests /\ (next = "resume" => Closing) BY <1>1, <1>2, TopTask DEF Good, Benign
  <1>4. /\ Call(<<>>)
        /\ UNCHANGED <<toRun, saved, denied, calls, current, late, thrown>>
    BY DEF TryEnds, hookVars
  <1>5. UNCHANGED <<state, prev, buf, tran, earlyTalker, waits, owed, ran>>
    BY <1>1, <1>2, Counted DEF Doing
  <1>6. Rests' /\ (Closing' <=> Closing) BY <1>3, <1>4, <1>5, SameRests DEF Closing
  <1>7. Stacked' BY <1>1, <1>2, <1>3, <1>4, <1>6, Popped DEF GoodResume
  <1>8. Typed' BY <1>2, <1>4, <1>5 DEF Typed
  <1>9. Patient' BY <1>1, <1>2, <1>5, PatientKept DEF Process, Task
  <1> QED BY <1>2, <1>4, <1>7, <1>8, <1>9 DEF IInv

\* Nothing is thrown, so nothing is caught.
LEMMA NoCatch ==
    ASSUME IInv
    PROVE  ~CallsAgain /\ ~CommandFails
  <1>1. agenda # <<>> => Head(agenda) \in TaskT BY TopTask DEF IInv
  <1>2. "catch" \notin Dos BY DEF Dos, Greetings, Closures, Benign
  <1> QED BY <1>1, <1>2 DEF CallsAgain, CommandFails, Doing, TaskT

LEMMA HookTaskKeeps ==
    ASSUME Sober, IInv, HookTask
    PROVE  IInv'
  <1>1. \/ RunHooks \/ ChainEnds \/ PluginAnswersNow \/ PluginWaits \/ Answered \/ DenyRespond
        \/ TryEnds
    BY NoCatch DEF HookTask, HookTasks
  <1> QED BY <1>1, RunHooksKeeps, ChainEndsKeeps, PluginAnswersNowKeeps, PluginWaitsKeeps,
             AnsweredKeeps, DenyRespondKeeps, TryEndsKeeps

------------------------------------------------------------------------------
(* The *_respond handlers. *)

\* The hooks a client waits for.
Awaited == Names \ {"deny", "reset_transaction", "disconnect"}

\* Their handlers: the state the plugins were asked in has not changed, and
\* nothing is pending.
LEMMA HandlerFacts ==
    ASSUME IInv, NEW h \in Awaited, Verdict(h)
    PROVE  /\ Stacked /\ agenda # <<>> /\ Typed /\ ~thrown /\ Patient /\ agenda # <<Process>>
           /\ Below # "resume" /\ ~Closing /\ Free /\ owed = 1 /\ ~tran.resetting
           /\ state \in {"PAUSE", "PAUSE_SMTP", "PAUSE_DATA"}
           /\ Working(h, "none", "none") /\ Possible(h, Ret) /\ Ret \in Rets
  <1>1. PICK t, next : t = Head(agenda) /\ next = Below OBVIOUS
  <1>2. /\ Stacked /\ agenda # <<>> /\ t.do = "respond_method" /\ t.hook = h
        /\ Typed /\ ~thrown /\ Patient
    BY <1>1 DEF IInv, Verdict, Doing
  <1>3. t \in TaskT /\ GoodAnswer(t, next) /\ toRun = <<>> BY <1>1, <1>2, TopTask DEF Good
  <1>4. Serving(h, t.then, "none") /\ Quiet /\ Possible(h, t.ret) /\ (next = "resume" => Closing)
    BY <1>2, <1>3 DEF GoodAnswer
  <1>5. ~Closing BY <1>4, ServingClosing DEF Awaited
  <1>6. /\ state \in {"PAUSE", "PAUSE_SMTP", "PAUSE_DATA"} /\ ran["disconnect"] = 0
        /\ ~tran.resetting /\ owed = 1 /\ t.then = "none"
    BY <1>4, <1>5, ServingLive DEF Awaited
  <1>7. Working(h, "none", "none") BY <1>4, <1>6 DEF Serving, Awaited
  <1>8. Ret = t.ret /\ Ret \in Rets BY <1>1, <1>3 DEF Ret, TaskT
  <1>9. agenda # <<Process>> BY <1>1, <1>2 DEF Process, Task
  <1> QED BY <1>1, <1>2, <1>3, <1>4, <1>5, <1>6, <1>7, <1>8, <1>9 DEF Free

\* A handler that replies, one that runs another hook, and that of EHLO.
LEMMA HandlerReplies ==
    ASSUME IInv, agenda # <<>>, agenda # <<Process>>, Below # "resume",
           UNCHANGED <<hookVars, connVars>>,
           NEW func \in Thens, GoodReply(func), Call(<<Reply(func)>>)
    PROVE  IInv'
  <1>1. PICK u, next : u = Reply(func) /\ next = Below OBVIOUS
  <1>2. u \in TaskT /\ u.do = "respond" /\ u.then = func /\ u.ret = "cont"
    BY <1>1 DEF Reply, Task, TaskT, Dos, Rets
  <1>3. Stacked /\ Typed /\ ~thrown /\ Patient BY DEF IInv
  <1>4. /\ UNCHANGED <<toRun, saved, denied, calls, current, late, thrown>>
        /\ UNCHANGED <<state, prev, buf, tran, earlyTalker, waits, owed, ran>>
    BY DEF hookVars, connVars
  <1>5. GoodReply(func)'
    BY <1>4, SameFree, SameEven DEF GoodReply, Commanded, Posting
  <1>6. Good(u, next)' BY <1>1, <1>2, <1>5 DEF Good, Greetings, Closures, Benign
  <1>7. Closing' <=> Closing BY <1>4 DEF Closing
  <1>8. Stacked' BY <1>1, <1>2, <1>3, <1>6, <1>7, Called
  <1>9. Typed' BY <1>3, <1>4 DEF Typed
  <1>10. Patient' BY <1>3, <1>4, PatientKept
  <1> QED BY <1>3, <1>4, <1>8, <1>9, <1>10 DEF IInv

LEMMA HandlerRuns ==
    ASSUME IInv, agenda # <<>>, agenda # <<Process>>, Below # "resume",
           UNCHANGED hookVars, Free,
           UNCHANGED <<state, prev, buf, tran, earlyTalker, waits, owed, ran>>,
           NEW h \in Awaited,
           Working(h, "none", "none"),
           Call(<<Run(h, "none")>>) \/ Call(<<Run(h, "none"), Do("esmtp")>>)
    PROVE  IInv'
  <1>1. PICK u, next : u = Run(h, "none") /\ next = Below OBVIOUS
  <1>2. u \in TaskT /\ u.do = "run_hooks" /\ u.hook = h /\ u.then = "none"
    BY <1>1, RunMade DEF Thens, Rets, Awaited
  <1>3. Stacked /\ Typed /\ ~thrown /\ Patient BY DEF IInv
  <1>4. /\ UNCHANGED <<toRun, saved, denied, calls, current, late, thrown>>
        /\ UNCHANGED <<state, prev, buf, tran, earlyTalker, waits, owed, ran>>
    BY DEF hookVars
  <1>5. ASSUME NEW m, m # "resume" PROVE Good(u, m)'
    <2>1. Serving(h, "none", m) BY <1>5, ServingNow DEF Serving, Awaited
    <2>2. Serving(h, "none", m)' BY <2>1, <1>4, SameServing
    <2>3. Free' BY <1>4, SameFree
    <2> QED BY <1>2, <2>2, <2>3 DEF Good, GoodRun, Free, Greetings, Closures, Benign, Awaited
  <1>6. Closing' <=> Closing BY <1>4 DEF Closing
  <1>7. Stacked'
    <2>1. CASE Call(<<u>>)
      <3>1. Good(u, next)' BY <1>1, <1>5
      <3> QED BY <3>1, <2>1, <1>1, <1>2, <1>3, <1>6, Called
    <2>2. CASE Call(<<u, Do("esmtp")>>)
      <3>1. PICK v : v = Do("esmtp") OBVIOUS
      <3>2. v \in TaskT /\ v.do = "esmtp"
        BY <3>1 DEF Do, Task, TaskT, Dos, Benign, Thens, Rets
      <3>3. Good(u, v.do)' BY <3>2, <1>5
      <3> QED BY <3>1, <3>2, <3>3, <2>2, <1>2, <1>3, <1>6, CalledTwo DEF Benign
    <2> QED BY <2>1, <2>2, <1>1
  <1>8. Typed' BY <1>3, <1>4 DEF Typed
  <1>9. Patient' BY <1>3, <1>4, PatientKept
  <1> QED BY <1>3, <1>4, <1>7, <1>8, <1>9 DEF IInv

\* What a handler may count on.
Handling(h) ==
    /\ ~Closing /\ Free /\ owed = 1 /\ ~tran.resetting
    /\ state \in {"PAUSE", "PAUSE_SMTP", "PAUSE_DATA"}
    /\ Working(h, "none", "none") /\ Possible(h, Ret) /\ Ret \in Rets

LEMMA Handles ==
    ASSUME IInv, NEW h \in Awaited, Verdict(h)
    PROVE  Handling(h)
    BY HandlerFacts DEF Handling, Awaited

LEMMA AwaitedHooks ==
    ConnectHooks \cup Greetings \cup Chat \cup RcptHooks \cup Post \cup {"data"} \subseteq Awaited
    BY DEF Awaited, Names, ConnectHooks, Greetings, Chat, RcptHooks, Post

\* What a handler does next: it replies, or runs another hook.
Onward ==
    \/ \E func \in Thens : GoodReply(func) /\ Call(<<Reply(func)>>)
    \/ \E h \in Awaited : /\ Working(h, "none", "none")
                          /\ Call(<<Run(h, "none")>>) \/ Call(<<Run(h, "none"), Do("esmtp")>>)

LEMMA HookRespondOnward ==
    ASSUME Sober, IInv, HookRespond
    PROVE  Onward
  <1>1. CASE ConnectInitRespond
    <2>1. Handling("connect_init") BY <1>1, AwaitedHooks, Handles DEF ConnectInitRespond, ConnectHooks
    <2> QED BY <1>1, <2>1
            DEF Handling, ConnectInitRespond, Onward, Working, Awaited, ConnectHooks, Greetings,
                Chat, RcptHooks, Post, Names
  <1>2. CASE LookupRdnsRespond
    <2>1. Handling("lookup_rdns") BY <1>2, AwaitedHooks, Handles DEF LookupRdnsRespond, ConnectHooks
    <2> QED BY <1>2, <2>1
            DEF Handling, LookupRdnsRespond, Onward, ByVerdict, Working, Possible, Awaited,
                ConnectHooks, Greetings, Chat, RcptHooks, Post, Names
  <1>3. CASE ConnectRespond
    <2>1. Handling("connect") BY <1>3, AwaitedHooks, Handles DEF ConnectRespond, ConnectHooks
    <2> QED BY <1>3, <2>1
            DEF Handling, ConnectRespond, Onward, ByVerdict, Working, GoodReply, Possible,
                Denials, ConnectHooks, Thens
  <1>4. CASE HeloRespond
    <2>1. Handling("helo") BY <1>4, AwaitedHooks, Handles DEF HeloRespond, Greetings
    <2> QED BY <1>4, <2>1
            DEF Handling, HeloRespond, Onward, ByVerdict, Drop, Working, GoodReply, Greetings,
                Thens, Closures, Commanded
  <1>5. CASE EhloRespond
    <2>1. Handling("ehlo") BY <1>5, AwaitedHooks, Handles DEF EhloRespond, Greetings
    <2> QED BY <1>5, <2>1
            DEF Handling, EhloRespond, Onward, ByVerdict, Drop, Working, GoodReply, Awaited,
                ConnectHooks, Greetings, Chat, RcptHooks, Post, Thens, Closures, Names
  <1>6. CASE CapabilitiesRespond
    <2>1. Handling("capabilities") BY <1>6, AwaitedHooks, Handles DEF CapabilitiesRespond, Chat
    <2> QED BY <1>6, <2>1
            DEF Handling, CapabilitiesRespond, Onward, Working, GoodReply, Chat, Thens, Commanded
  <1>7. CASE QuitRespond
    <2>1. Handling("quit") BY <1>7, AwaitedHooks, Handles DEF QuitRespond, Chat
    <2> QED BY <1>7, <2>1 DEF Handling, QuitRespond, Onward, Drop, GoodReply, Thens
  <1>8. CASE RsetRespond
    <2>1. Handling("rset") BY <1>8, AwaitedHooks, Handles DEF RsetRespond, Chat
    <2> QED BY <1>8, <2>1 DEF Handling, RsetRespond, Onward, Working, GoodReply, Chat, Thens
  <1>9. CASE UnrecognizedCommandRespond
    <2>1. Handling("unrecognized_command") BY <1>9, AwaitedHooks, Handles DEF UnrecognizedCommandRespond, Chat
    <2> QED BY <1>9, <2>1
            DEF Handling, UnrecognizedCommandRespond, Onward, ByVerdict, Drop, Working, GoodReply,
                Chat, Thens, Commanded
  <1>10. CASE MailRespond
    <2>1. Handling("mail") BY <1>10, AwaitedHooks, Handles DEF MailRespond, Greetings
    <2> QED BY <1>10, <2>1
            DEF Handling, MailRespond, Onward, ByVerdict, Drop, Working, GoodReply, Greetings,
                Thens, Commanded
  <1>11. CASE RcptRespond
    <2>1. Handling("rcpt") BY <1>11, AwaitedHooks, Handles DEF RcptRespond, RcptHooks
    <2> QED BY <1>11, <2>1
            DEF Handling, RcptRespond, Onward, ByVerdict, Drop, Working, GoodReply, Awaited,
                ConnectHooks, Greetings, Chat, RcptHooks, Post, Thens, Closures, Odd, Names
  <1>12. CASE RcptOkRespond
    <2>1. Handling("rcpt_ok") BY <1>12, AwaitedHooks, Handles DEF RcptOkRespond, RcptHooks
    <2> QED BY <1>12, <2>1
            DEF Handling, RcptOkRespond, Onward, ByVerdict, Drop, Working, GoodReply, RcptHooks,
                Thens, Closures, Odd
  <1>13. CASE DataRespond
    <2>1. Handling("data") BY <1>13, AwaitedHooks, Handles DEF DataRespond
    <2> QED BY <1>13, <2>1
            DEF Handling, DataRespond, Onward, ByVerdict, Drop, Working, GoodReply, Thens,
                Closures, Full
  <1>14. CASE DataPostRespond
    <2>1. Handling("data_post") BY <1>14, AwaitedHooks, Handles DEF DataPostRespond, Post
    <2> QED BY <1>14, <2>1
            DEF Handling, DataPostRespond, Onward, ByVerdict, Drop, Working, GoodReply, Awaited,
                ConnectHooks, Greetings, Chat, RcptHooks, Post, Thens, Full, QueueHook, Names
  <1>15. CASE MaxDataExceededRespond
    <2>1. Handling("max_data_exceeded") BY <1>15, AwaitedHooks, Handles DEF MaxDataExceededRespond, Post
    <2> QED BY <1>15, <2>1
            DEF Handling, MaxDataExceededRespond, Onward, Working, GoodReply, Post, Thens, Full
  <1>16. CASE QueueRespond
    <2>1. Handling("queue") BY <1>16, AwaitedHooks, Handles DEF QueueRespond, Post
    <2> QED BY <1>16, <2>1
            DEF Handling, QueueRespond, Onward, ByVerdict, Drop, Working, GoodReply, Awaited,
                ConnectHooks, Greetings, Chat, RcptHooks, Post, Thens, Names
  <1>17. CASE QueueOutboundRespond
    <2>1. Handling("queue_outbound") BY <1>17, AwaitedHooks, Handles DEF QueueOutboundRespond, Post
    <2> QED BY <1>17, <2>1
            DEF Handling, QueueOutboundRespond, Onward, ByVerdict, Working, Possible, Awaited,
                ConnectHooks, Greetings, Chat, RcptHooks, Post, Names
  <1>18. CASE QueueOkRespond
    <2>1. Handling("queue_ok") BY <1>18, AwaitedHooks, Handles DEF QueueOkRespond, Post
    <2> QED BY <1>18, <2>1 DEF Handling, QueueOkRespond, Onward, Working, GoodReply, Post, Thens
  <1> QED
    BY <1>1, <1>2, <1>3, <1>4, <1>5, <1>6, <1>7, <1>8, <1>9, <1>10, <1>11, <1>12, <1>13,
       <1>14, <1>15, <1>16, <1>17, <1>18
    DEF HookRespond

LEMMA HookRespondKeeps ==
    ASSUME Sober, IInv, HookRespond
    PROVE  IInv'
  <1>1. UNCHANGED <<hookVars, connVars>> BY DEF HookRespond
  <1>2. PICK h \in Awaited : Verdict(h)
    BY DEF HookRespond, ConnectInitRespond, LookupRdnsRespond, ConnectRespond, HeloRespond,
           EhloRespond, CapabilitiesRespond, QuitRespond, RsetRespond,
           UnrecognizedCommandRespond, MailRespond, RcptRespond, RcptOkRespond, DataRespond,
           DataPostRespond, MaxDataExceededRespond, QueueRespond, QueueOutboundRespond,
           QueueOkRespond, Names, ConnectHooks, Greetings, Chat, RcptHooks, Post, Awaited
  <1>3. agenda # <<>> /\ agenda # <<Process>> /\ Below # "resume" /\ Free
    BY <1>2, HandlerFacts
  <1>4. CASE \E func \in Thens : GoodReply(func) /\ Call(<<Reply(func)>>)
    BY <1>1, <1>3, <1>4, HandlerReplies
  <1>5. CASE \E g \in Awaited :
                /\ Working(g, "none", "none")
                /\ Call(<<Run(g, "none")>>) \/ Call(<<Run(g, "none"), Do("esmtp")>>)
    <2>1. UNCHANGED hookVars /\ UNCHANGED <<state, prev, buf, tran, earlyTalker, waits, owed, ran>>
      BY <1>1 DEF connVars
    <2> QED BY <2>1, <1>3, <1>5, HandlerRuns
  <1> QED BY <1>4, <1>5, HookRespondOnward DEF Onward

\* XCLIENT starts the connection again, with the command in hand.
LEMMA NextHookKeeps ==
    ASSUME Sober, IInv, NextHook
    PROVE  IInv'
  <1>1. Verdict("unrecognized_command") /\ "unrecognized_command" \in Awaited
    BY DEF NextHook, XClient, Awaited, Names, Chat
  <1>2. /\ agenda # <<>> /\ agenda # <<Process>> /\ Below # "resume" /\ Free
        /\ Working("unrecognized_command", "none", "none")
    BY <1>1, HandlerFacts
  <1>3. Commanded /\ Even BY <1>2 DEF Working, Chat
  <1>4. /\ UNCHANGED hookVars
        /\ UNCHANGED <<state, prev, buf, tran, earlyTalker, waits, owed, ran>>
    BY DEF NextHook
  <1>5. PICK h \in {"lookup_rdns", "connect"} : Call(<<Run(h, "none")>>) BY DEF NextHook
  <1>6. h \in Awaited BY DEF Awaited, Names, ConnectHooks
  <1>7. Working(h, "none", "none")
    BY <1>2, <1>3 DEF Working, Free, Commanded, ConnectHooks, Greetings, Chat, RcptHooks, Post
  <1> QED BY <1>2, <1>4, <1>5, <1>6, <1>7, HandlerRuns

\* The resolver and the outbound queue are not asked, and the transaction of
\* a mail being queued is there.
LEMMA NotAsked ==
    ASSUME Sober, IInv
    PROVE  ~Asks /\ ~QueueThrows
  <1>1. ASSUME Verdict("lookup_rdns") PROVE Ret = "ok"
    BY <1>1, HandlerFacts DEF Names, ConnectHooks, Possible, Awaited
  <1>2. ASSUME NEW h \in {"queue", "queue_outbound"}, Verdict(h)
        PROVE  tran.open /\ (h = "queue_outbound" => Ret = "ok")
    <2>1. h \in Awaited /\ h \in Post
      BY DEF Names, Post, Awaited
    <2>2. Working(h, "none", "none") /\ Possible(h, Ret) BY <1>2, <2>1, HandlerFacts
    <2> QED BY <2>1, <2>2 DEF Working, Full, Possible
  <1> QED BY <1>1, <1>2 DEF Asks, QueueThrows

------------------------------------------------------------------------------
(* Replies, and what their closures do. *)

LEMMA DoMade ==
    ASSUME NEW do \in Dos, NEW cb \in Thens
    PROVE  /\ Do(do) \in TaskT /\ Do(do).do = do
           /\ Reset(cb) \in TaskT /\ Reset(cb).do = "reset_transaction" /\ Reset(cb).then = cb
    BY DEF Do, Reset, Task, TaskT, Dos, Thens, Rets

LEMMA ProcessMade ==
    /\ Process \in TaskT /\ Process.do = "_process_data"
    /\ Loop \in TaskT /\ Loop.do = "while"
    /\ {"_process_data", "while"} \subseteq Benign
    BY DEF Process, Loop, Task, TaskT, Dos, Thens, Rets, Benign

\* What a closure calls, before what comes after it.
AfterTask(func) == CASE func = "reset"        -> Reset("none")
                     [] func = "reset_resume" -> Reset("resume")
                     [] OTHER                 -> Do(func)

LEMMA AfterIs ==
    ASSUME NEW func \in Thens, NEW u \in TaskT
    PROVE  /\ func = "none" => After(func) = <<>> /\ After(func) \o <<u>> = <<u>>
           /\ func # "none" => /\ AfterTask(func) \in TaskT
                               /\ After(func) = <<AfterTask(func)>>
                               /\ After(func) \o <<u>> = <<AfterTask(func), u>>
           /\ AfterTask("reset").do = "reset_transaction" /\ AfterTask("reset").then = "none"
           /\ AfterTask("reset_resume").do = "reset_transaction"
           /\ AfterTask("reset_resume").then = "resume"
           /\ func \notin {"none", "reset", "reset_resume"} => AfterTask(func).do = func
  <1>1. ASSUME func = "none"
        PROVE  After(func) = <<>> /\ After(func) \o <<u>> = <<u>>
    <2>1. After(func) = <<>> BY <1>1 DEF After
    <2>2. <<u>> \in Seq(TaskT) OBVIOUS
    <2> QED BY <2>1, <2>2, ConcatEmptySeq
  <1>2. ASSUME func # "none"
        PROVE  /\ AfterTask(func) \in TaskT /\ After(func) = <<AfterTask(func)>>
               /\ After(func) \o <<u>> = <<AfterTask(func), u>>
    <2>1. After(func) = <<AfterTask(func)>> BY <1>2 DEF After, AfterTask
    <2>2. AfterTask(func) \in TaskT
      BY <1>2 DEF AfterTask, Do, Reset, Task, TaskT, Thens, Dos, Rets, Closures
    <2>3. <<AfterTask(func)>> \o <<u>> = <<AfterTask(func), u>> BY <2>2, PairOf
    <2> QED BY <2>1, <2>2, <2>3
  <1> QED BY <1>1, <1>2 DEF AfterTask, Do, Reset, Task

\* respond(): the command in hand has been answered, and its closure is next.
LEMMA SendReplyKeeps ==
    ASSUME Sober, IInv, SendReply
    PROVE  IInv'
  <1>1. PICK t, next, func : t = Head(agenda) /\ next = Below /\ func = t.then OBVIOUS
  <1>2. /\ Stacked /\ agenda # <<>> /\ t.do = "respond" /\ Typed /\ ~thrown /\ Patient
    BY <1>1 DEF IInv, SendReply, Doing
  <1>3. /\ t \in TaskT /\ next # "resume"
        /\ IF t.ret = "cont" THEN GoodReply(func) ELSE GoodNotice(func)
    BY <1>1, <1>2, TopTask DEF Good
  <1>4. func \in Thens BY <1>1, <1>3 DEF TaskT
  <1>5. ~Closing /\ Ending
    BY <1>3 DEF GoodReply, GoodNotice, Closing, Commanded, Posting, Ending, One, Free, Quiet,
                Even, Odd, Full
  <1>6. /\ state' = (IF state = "LOOP" THEN "LOOP" ELSE "CMD") /\ owed' = Settled
        /\ Call(After(func) \o <<Process>>)
        /\ UNCHANGED <<toRun, saved, denied, calls, current, late, thrown>>
        /\ UNCHANGED <<prev, buf, tran, earlyTalker, waits, ran>>
    BY <1>1, <1>5 DEF SendReply, hookVars, Closing
  <1>7. ~Closing' BY <1>6 DEF Closing
  <1>8. t.ret = "cont" => owed = 1 /\ owed' = 0 BY <1>1, <1>3, <1>6 DEF Settled, GoodReply
  <1>9. t.ret # "cont" => owed' = owed BY <1>1, <1>6 DEF Settled
  <1>10. Typed'
    <2>1. owed' \in Nat BY <1>2, <1>8, <1>9 DEF Typed
    <2>2. state' \in States BY <1>6 DEF States
    <2> QED BY <2>1, <2>2, <1>2, <1>6 DEF Typed
  <1>11. Patient' BY <1>1, <1>2, <1>6, PatientKept DEF Process, Task
  <1>12. Ending' BY <1>5, <1>6, SameEnding
  <1>13. Free => Free' BY <1>5, <1>6 DEF Free, Quiet
  <1>14. (Even' <=> Even) /\ (Odd' <=> Odd) /\ (Full' <=> Full) BY <1>6, SameEven
  <1>15. t.ret = "cont" => Replied'
    BY <1>3, <1>6, <1>8, <1>13 DEF Replied, GoodReply, Commanded, Posting
  <1>16. CASE func = "none"
    <2>1. Call(<<Process>>) BY <1>4, <1>6, <1>16, AfterIs, ProcessMade
    <2>2. t.ret = "cont" /\ prev = Null /\ Even
      BY <1>3, <1>16 DEF GoodReply, GoodNotice
    <2>3. Ready' BY <2>2, <1>6, <1>14, <1>15 DEF Ready, Replied
    <2>4. Good(Process, next)'
      BY <2>3, <1>3, ProcessMade DEF Good, Greetings, Closures, Benign, Rests
    <2>5. Stacked' BY <2>1, <2>4, <1>1, <1>2, <1>5, ProcessMade, Called
    <2> QED BY <2>5, <1>2, <1>6, <1>10, <1>11 DEF IInv
  <1>17. CASE func # "none"
    <2>1. PICK v : v = AfterTask(func) OBVIOUS
    <2>2. v \in TaskT /\ Call(<<v, Process>>) BY <2>1, <1>4, <1>6, <1>17, AfterIs, ProcessMade
    <2>3. ASSUME func \in {"reset", "reset_resume"} PROVE Good(v, "_process_data")'
      <3>1. v.do = "reset_transaction" /\ v.then \in {"none", "resume"}
        BY <2>1, <2>3, <1>4, AfterIs, ProcessMade
      <3>2. t.ret = "cont" /\ Even /\ (prev = Null \/ (prev = "CMD" /\ tran.open))
        BY <2>3, <1>3 DEF GoodReply, GoodNotice, Commanded, Posting, Full
      <3> QED BY <3>1, <3>2, <1>6, <1>14, <1>15
              DEF Good, GoodReset, Greetings, Closures, Benign
    <2>4. ASSUME func \in Closures PROVE Good(v, "_process_data")'
      <3>1. v.do = func BY <2>1, <2>4, <1>4, AfterIs, ProcessMade DEF Closures
      <3>2. /\ t.ret = "cont" /\ prev = Null
            /\ func \in {"pop", "accept"} => Odd
            /\ func = "clear_hello" => Even
            /\ func = "data" => Full
        BY <2>4, <1>3 DEF GoodReply, GoodNotice, Commanded, Closures
      <3> QED BY <3>1, <3>2, <2>4, <1>6, <1>14, <1>15
              DEF Good, GoodClosure, Greetings, Closures, Benign
    <2>5. ASSUME func \in {"disconnect", "fail"} PROVE Good(v, "_process_data")'
      <3>1. v.do = func BY <2>1, <2>5, <1>4, AfterIs, ProcessMade
      <3> QED BY <3>1, <2>5, <1>7, <1>12 DEF Good, GoodNotice, Greetings, Closures, Benign
    <2>6. Stacked'
      <3>1. func \in {"reset", "reset_resume", "disconnect", "fail"} \cup Closures
        BY <1>3, <1>17 DEF GoodReply, GoodNotice, Closures
      <3> QED BY <3>1, <2>2, <2>3, <2>4, <2>5, <1>1, <1>2, <1>3, <1>5, ProcessMade, CalledTwo
    <2> QED BY <2>6, <1>2, <1>6, <1>10, <1>11 DEF IInv
  <1> QED BY <1>16, <1>17

\* client.write() throws: the connection fails instead.
LEMMA ReplyFailsKeeps ==
    ASSUME Sober, IInv, ReplyFails
    PROVE  IInv'
  <1>1. PICK t, next : t = Head(agenda) /\ next = Below OBVIOUS
  <1>2. /\ Stacked /\ agenda # <<>> /\ t.do = "respond" /\ Typed /\ ~thrown /\ Patient
    BY <1>1 DEF IInv, ReplyFails, Doing
  <1>3. /\ next # "resume"
        /\ IF t.ret = "cont" THEN GoodReply(t.then) ELSE GoodNotice(t.then)
    BY <1>1, <1>2, TopTask DEF Good
  <1>4. ~Closing /\ Ending
    BY <1>3 DEF GoodReply, GoodNotice, Closing, Commanded, Posting, Ending, One, Free, Quiet,
                Even, Odd, Full
  <1>5. /\ Call(<<Do("fail")>>)
        /\ UNCHANGED <<toRun, saved, denied, calls, current, late, thrown>>
        /\ UNCHANGED <<state, prev, buf, tran, earlyTalker, waits, owed, ran>>
    BY DEF ReplyFails, hookVars, connVars
  <1>6. PICK u : u = Do("fail") OBVIOUS
  <1>7. u \in TaskT /\ u.do = "fail" BY <1>6 DEF Do, Task, TaskT, Dos, Thens, Rets
  <1>8. ~Closing' /\ Ending' BY <1>4, <1>5, SameEnding DEF Closing
  <1>9. Good(u, next)' BY <1>3, <1>7, <1>8 DEF Good, GoodNotice, Greetings, Closures, Benign
  <1>10. Stacked' BY <1>1, <1>2, <1>4, <1>5, <1>6, <1>7, <1>9, Called
  <1>11. Typed' BY <1>2, <1>5 DEF Typed
  <1>12. Patient' BY <1>1, <1>2, <1>5, PatientKept DEF Process, Task
  <1> QED BY <1>2, <1>5, <1>10, <1>11, <1>12 DEF IInv

LEMMA NoLoopReply ==
    ASSUME IInv
    PROVE  ~SendLoopReply
  <1>1. agenda # <<>> => Head(agenda) \in TaskT BY TopTask DEF IInv
  <1>2. "loop_respond" \notin Dos BY DEF Dos, Greetings, Closures, Benign
  <1> QED BY <1>1, <1>2 DEF SendLoopReply, Doing, TaskT

\* The closures: the next line may come.
LEMMA ReplyClosureKeeps ==
    ASSUME Sober, IInv, ReplyClosure
    PROVE  IInv'
  <1>1. PICK t, next : t = Head(agenda) /\ next = Below OBVIOUS
  <1>2. /\ Stacked /\ agenda # <<>> /\ t.do \in Closures /\ Typed /\ ~thrown /\ Patient
    BY <1>1 DEF IInv, ReplyClosure, RcptPop, RcptAccept, ClearHello, StartData, Doing, Closures
  <1>3. t \in TaskT /\ next # "resume" /\ GoodClosure(t.do) BY <1>1, <1>2, TopTask DEF Good
  <1>4. /\ UNCHANGED <<toRun, saved, denied, calls, current, late>>
        /\ UNCHANGED <<prev, buf, earlyTalker, waits, owed, ran>>
    BY DEF ReplyClosure
  <1>5. /\ tran \in [open : BOOLEAN, rcpt_to : Nat, accept : Nat, resetting : BOOLEAN]
        /\ state = "CMD" /\ owed = 0 /\ Free /\ prev = Null
    BY <1>2, <1>3 DEF Typed, GoodClosure, Replied
  <1>6. /\ Call(<<>>) /\ ~thrown' /\ state' \in {"CMD", "DATA"} /\ Even'
        /\ state' = "DATA" => Full'
        /\ tran' \in [open : BOOLEAN, rcpt_to : Nat, accept : Nat, resetting : BOOLEAN]
    <2>1. CASE RcptPop
      <3>1. Doing("pop") /\ t.do = "pop" BY <2>1, <1>1 DEF RcptPop, Doing
      <3>2. Odd BY <3>1, <1>3 DEF GoodClosure
      <3> QED BY <2>1, <3>2, <1>2, <1>5 DEF RcptPop, Odd, Even
    <2>2. CASE RcptAccept
      <3>1. Doing("accept") /\ t.do = "accept" BY <2>2, <1>1 DEF RcptAccept, Doing
      <3>2. Odd BY <3>1, <1>3 DEF GoodClosure
      <3> QED BY <2>2, <3>2, <1>2, <1>5 DEF RcptAccept, Odd, Even
    <2>3. CASE ClearHello
      <3>1. Doing("clear_hello") /\ t.do = "clear_hello" BY <2>3, <1>1 DEF ClearHello, Doing
      <3>2. Even BY <3>1, <1>3 DEF GoodClosure
      <3> QED BY <2>3, <3>2, <1>2, <1>5 DEF ClearHello, Even
    <2>4. CASE StartData
      <3>1. Doing("data") /\ t.do = "data" BY <2>4, <1>1 DEF StartData, Doing
      <3>2. Full BY <3>1, <1>3 DEF GoodClosure
      <3> QED BY <2>4, <3>2, <1>2, <1>5 DEF StartData, Full, Even
    <2> QED BY <2>1, <2>2, <2>3, <2>4 DEF ReplyClosure
  <1>7. Free' BY <1>4, <1>5, <1>6 DEF Free, Quiet, Closing
  <1>8. Rests' BY <1>4, <1>5, <1>6, <1>7 DEF Rests, Ready
  <1>9. Stacked'
    <2>1. ~Closing BY <1>5 DEF Closing
    <2> QED BY <2>1, <1>1, <1>2, <1>3, <1>6, <1>8, Popped
  <1>10. Typed' BY <1>2, <1>4, <1>6 DEF Typed, States
  <1>11. Patient' BY <1>1, <1>2, <1>4, PatientKept DEF Process, Task, Closures
  <1> QED BY <1>6, <1>9, <1>10, <1>11 DEF IInv

------------------------------------------------------------------------------
(* The end of a transaction, and of a connection. *)

\* reset_transaction(): its plugins are asked, or there is no transaction.
LEMMA ResetTransactionKeeps ==
    ASSUME Sober, IInv, ResetTransaction
    PROVE  IInv'
  <1>1. PICK t, next, cb : t = Head(agenda) /\ next = Below /\ cb = t.then OBVIOUS
  <1>2. /\ Stacked /\ agenda # <<>> /\ t.do = "reset_transaction" /\ Typed /\ ~thrown /\ Patient
    BY <1>1 DEF IInv, ResetTransaction, Doing
  <1>3. t \in TaskT /\ GoodReset(cb, next) /\ cb \in Thens
    BY <1>1, <1>2, TopTask DEF Good, Greetings, Closures, Benign, TaskT
  <1>4. /\ UNCHANGED <<toRun, saved, denied, calls, current, late, thrown>>
        /\ UNCHANGED <<buf, earlyTalker, waits, owed, ran>>
    BY DEF ResetTransaction, hookVars
  <1>5. /\ tran \in [open : BOOLEAN, rcpt_to : Nat, accept : Nat, resetting : BOOLEAN]
        /\ prev \in {Null, "CMD", "PAUSE_SMTP"} /\ state \in States
    BY <1>2 DEF Typed
  <1>6. ~tran.resetting /\ ran["disconnect"] = 0 /\ One
    BY <1>3 DEF GoodReset, Ending, Even, Replied, Free, One, Quiet
  <1>7. cb # "run_disconnect" => ~Closing /\ Quiet /\ next # "resume"
    BY <1>3 DEF GoodReset, Replied, Commanded, Free, Closing
  <1>8. cb = "run_disconnect" => state = "DISCONNECTING"
    BY <1>3 DEF GoodReset, Greetings
  <1>9. Patient' BY <1>1, <1>2, <1>4, PatientKept DEF Process, Task
  <1>10. CASE tran.open
    <2>1. /\ Pause /\ tran' = [tran EXCEPT !.resetting = TRUE]
          /\ Call(<<Run("reset_transaction", cb)>>)
      BY <1>1, <1>6, <1>10 DEF ResetTransaction
    <2>2. tran'.open /\ tran'.resetting BY <1>5, <1>10, <2>1
    <2>3. PICK u : u = Run("reset_transaction", cb) OBVIOUS
    <2>4. u \in TaskT /\ u.do = "run_hooks" /\ u.hook = "reset_transaction" /\ u.then = cb
      <3>1. "reset_transaction" \in Names /\ "cont" \in Rets BY DEF Names, Rets
      <3> QED BY <3>1, <2>3, <1>3, RunMade
    <2>5. /\ Closing' <=> Closing
          /\ state' \in States /\ prev' \in {Null, "CMD", "PAUSE_SMTP"}
          /\ \/ cb \in {"none", "resume"} /\ Resetting'
             \/ cb \in Greetings /\ Offered(cb) /\ Resuming'
             \/ cb = "run_disconnect" /\ state' = "DISCONNECTING"
      BY <1>3, <1>4, <1>5, <2>1
         DEF Pause, Closing, States, GoodReset, Replied, Commanded, Resuming, Resetting, Null
    <2>6. Working("reset_transaction", cb, next)'
      BY <2>2, <2>5, <1>4, <1>6, <1>7
         DEF Working, ConnectHooks, Greetings, Chat, RcptHooks, Post, Closing
    <2>7. Serving("reset_transaction", cb, next)' BY <2>6 DEF Serving, Names
    <2>8. One' /\ (cb # "run_disconnect" => Quiet')
      BY <1>4, <1>6, <1>7, <2>5 DEF One, Quiet
    <2>9. Good(u, next)' BY <2>4, <2>7, <2>8 DEF Good, GoodRun, Greetings, Closures, Benign
    <2>10. Stacked' BY <2>1, <2>3, <2>4, <2>5, <2>9, <1>1, <1>2, Called
    <2>11. Typed' BY <1>2, <1>4, <1>5, <2>1, <2>5 DEF Typed
    <2> QED BY <2>10, <2>11, <1>2, <1>4, <1>9 DEF IInv
  <1>11. CASE ~tran.open
    <2>1. /\ tran' = NoTran /\ Call(After(cb)) /\ UNCHANGED <<state, prev>>
      BY <1>1, <1>11 DEF ResetTransaction
    <2>2. ~tran'.open /\ Even' BY <2>1 DEF NoTran, Even
    <2>3. Closing' <=> Closing BY <2>1 DEF Closing
    <2>4. Quiet => Quiet' BY <1>4, <2>3 DEF Quiet
    <2>5. Typed' BY <1>2, <1>4, <2>1 DEF Typed, NoTran
    <2>6. CASE cb = "none"
      <3>1. Call(<<>>) BY <2>1, <2>6, <1>3, AfterIs, ProcessMade
      <3>2. Replied /\ prev = Null BY <1>3, <1>11, <2>6 DEF GoodReset, Greetings
      <3>3. Rests' BY <3>2, <2>1, <2>2, <1>4 DEF Rests, Ready, Replied, Free, Quiet, Closing
      <3>4. Stacked' BY <3>1, <3>3, <2>3, <2>6, <1>1, <1>2, <1>7, Popped
      <3> QED BY <3>4, <2>5, <1>2, <1>4, <1>9 DEF IInv
    <2>7. CASE cb # "none"
      <3>1. cb \in {"resume", "run_disconnect"} \cup Greetings
        BY <1>3, <2>7 DEF GoodReset
      <3>2. PICK u : u = AfterTask(cb) OBVIOUS
      <3>3. u \in TaskT /\ u.do = cb /\ Call(<<u>>)
        BY <3>1, <3>2, <2>1, <2>7, <1>3, AfterIs, ProcessMade DEF Greetings
      <3>4. ASSUME cb = "resume" PROVE Good(u, next)'
        <4>1. Replied /\ prev = Null BY <1>3, <1>11, <3>4 DEF GoodReset, Greetings
        <4>2. Replied' BY <4>1, <2>1, <1>4 DEF Replied, Free, Quiet, Closing
        <4>3. GoodResume' BY <4>1, <4>2, <2>1, <2>2 DEF GoodResume
        <4> QED BY <4>3, <3>3, <3>4, <1>7 DEF Good, Greetings, Closures, Benign
      <3>5. ASSUME cb = "run_disconnect" PROVE Good(u, next)'
        BY <3>3, <3>5, <2>1, <2>2, <1>4, <1>6, <1>8
           DEF Good, Ending, One, Even, Greetings, Closures, Benign
      <3>6. ASSUME cb \in Greetings PROVE Good(u, next)'
        <4>1. /\ Offered(cb) /\ Commanded /\ Free
          BY <1>3, <3>6 DEF GoodReset, Greetings
        <4>2. GoodGreet(cb, next)'
          BY <4>1, <2>1, <2>2, <1>4, <1>7, <3>6 DEF GoodGreet, Commanded, Free, Quiet, Closing, Greetings
        <4> QED BY <4>2, <3>3, <3>6 DEF Good, Greetings, Closures, Benign
      <3>7. Good(u, next)' BY <3>1, <3>4, <3>5, <3>6
      <3>8. Stacked' BY <3>3, <3>7, <2>3, <1>1, <1>2, Called
      <3> QED BY <3>8, <2>5, <1>2, <1>4, <1>9 DEF IInv
    <2> QED BY <2>6, <2>7
  <1> QED BY <1>10, <1>11

\* reset_transaction_respond: the transaction is gone, the callback is next,
\* and then resume().
LEMMA ResetTransactionRespondKeeps ==
    ASSUME Sober, IInv, ResetTransactionRespond
    PROVE  IInv'
  <1>1. PICK t, next, cb : t = Head(agenda) /\ next = Below /\ cb = t.then OBVIOUS
  <1>2. /\ Stacked /\ agenda # <<>> /\ t.do = "respond_method" /\ t.hook = "reset_transaction"
        /\ Typed /\ ~thrown /\ Patient
    BY <1>1 DEF IInv, ResetTransactionRespond, Doing
  <1>3. t \in TaskT /\ GoodAnswer(t, next) /\ toRun = <<>> BY <1>1, <1>2, TopTask DEF Good
  <1>4. cb \in Thens BY <1>1, <1>3 DEF TaskT
  <1>5. Working("reset_transaction", cb, "none") /\ Quiet /\ (next = "resume" => Closing)
    BY <1>1, <1>2, <1>3 DEF GoodAnswer, Serving
  <1>6. /\ ran["disconnect"] = 0
        /\ \/ cb \in {"none", "resume"} /\ Resetting
           \/ cb \in Greetings /\ Offered(cb) /\ Resuming
           \/ cb = "run_disconnect" /\ state = "DISCONNECTING"
    BY <1>5 DEF Working
  <1>7. /\ tran' = NoTran /\ Call(After(cb) \o <<Do("resume")>>)
        /\ UNCHANGED <<toRun, saved, denied, calls, current, late, thrown>>
        /\ UNCHANGED <<state, prev, buf, earlyTalker, waits, owed, ran>>
    BY <1>1 DEF ResetTransactionRespond, hookVars
  <1>8. ~tran'.open /\ ~tran'.resetting /\ Even' BY <1>7 DEF NoTran, Even
  <1>9. (Closing' <=> Closing) /\ Free' /\ Quiet'
    BY <1>3, <1>5, <1>6, <1>7 DEF Free, Quiet, Closing
  <1>10. Typed' BY <1>2, <1>7 DEF Typed, NoTran
  <1>11. Patient' BY <1>1, <1>2, <1>7, PatientKept DEF Process, Task
  <1>12. PICK r : r = Do("resume") OBVIOUS
  <1>13. r \in TaskT /\ r.do = "resume"
    BY <1>12 DEF Do, Task, TaskT, Dos, Thens, Rets
  <1>14. CASE cb = "none"
    <2>1. Call(<<r>>) BY <1>4, <1>7, <1>12, <1>13, <1>14, AfterIs
    <2>2. Resetting BY <1>6, <1>14 DEF Greetings
    <2>3. Resetting' BY <2>2, <1>7 DEF Resetting
    <2>4. GoodResume' BY <2>3, <1>8, <1>9 DEF GoodResume
    <2>5. Good(r, next)' BY <2>3, <2>4, <1>13 DEF Good, Greetings, Closures, Benign
    <2>6. Stacked' BY <2>1, <2>5, <1>1, <1>2, <1>9, <1>13, Called
    <2> QED BY <2>6, <1>2, <1>7, <1>10, <1>11 DEF IInv
  <1>15. CASE cb # "none"
    <2>1. cb \in {"resume", "run_disconnect"} \cup Greetings BY <1>6, <1>15
    <2>2. PICK u : u = AfterTask(cb) OBVIOUS
    <2>3. u \in TaskT /\ u.do = cb /\ Call(<<u, r>>)
      BY <2>1, <2>2, <1>4, <1>7, <1>12, <1>13, <1>15, AfterIs DEF Greetings
    <2>4. ASSUME cb = "resume" PROVE Good(u, "resume")'
      <3>1. Resetting BY <1>6, <2>4 DEF Greetings
      <3>2. Resetting' BY <3>1, <1>7 DEF Resetting
      <3>3. GoodResume' BY <3>2, <1>8, <1>9 DEF GoodResume
      <3> QED BY <3>2, <3>3, <2>3, <2>4 DEF Good, Greetings, Closures, Benign
    <2>5. ASSUME cb = "run_disconnect" PROVE Good(u, "resume")'
      <3>1. state = "DISCONNECTING" BY <1>6, <2>5 DEF Greetings
      <3>2. Ending' BY <1>6, <1>7, <1>8, <1>9 DEF Ending, One, Quiet
      <3> QED BY <3>1, <3>2, <2>3, <2>5, <1>7, <1>8 DEF Good, Greetings, Closures, Benign
    <2>6. ASSUME cb \in Greetings PROVE Good(u, "resume")'
      <3>1. Offered(cb) /\ Resuming BY <1>6, <2>6 DEF Greetings
      <3>2. Resuming' BY <3>1, <1>7 DEF Resuming
      <3>3. GoodGreet(cb, "resume")' BY <3>1, <3>2, <1>8, <1>9 DEF GoodGreet
      <3> QED BY <3>3, <2>3, <2>6 DEF Good, Greetings, Closures, Benign
    <2>7. Good(u, r.do)' BY <2>1, <2>4, <2>5, <2>6, <1>13
    <2>8. Stacked' BY <2>3, <2>7, <1>1, <1>2, <1>5, <1>9, <1>13, CalledTwo
    <2> QED BY <2>8, <1>2, <1>7, <1>10, <1>11 DEF IInv
  <1> QED BY <1>14, <1>15

\* resume(): back to the state that was put off.
LEMMA ResumeKeeps ==
    ASSUME Sober, IInv, Resume
    PROVE  IInv'
  <1>1. PICK t, next : t = Head(agenda) /\ next = Below OBVIOUS
  <1>2. /\ Stacked /\ agenda # <<>> /\ t.do = "resume" /\ Typed /\ ~thrown /\ Patient
    BY <1>1 DEF IInv, Resume, Doing
  <1>3. GoodResume /\ (next = "resume" => Closing \/ Resetting)
    BY <1>1, <1>2, TopTask DEF Good
  <1>4. /\ UNCHANGED <<toRun, saved, denied, calls, current, late, thrown>>
        /\ UNCHANGED <<buf, tran, earlyTalker, waits, owed, ran>> /\ Call(<<>>)
    BY DEF Resume, hookVars
  <1>5. IF Closing THEN UNCHANGED <<state, prev>>
                   ELSE state' = (IF prev # Null THEN prev ELSE state) /\ prev' = Null
    BY DEF Resume
  <1>6. state \in States /\ prev \in {Null, "CMD", "PAUSE_SMTP"} BY <1>2 DEF Typed
  <1>7. (Closing' <=> Closing) /\ state' \in States /\ prev' \in {Null, "CMD", "PAUSE_SMTP"}
    BY <1>5, <1>6 DEF Closing, States, Null
  <1>8. (Even' <=> Even) /\ (Free => Free')
    BY <1>4, <1>7 DEF Even, Free, Quiet
  <1>9. IF next = "resume" THEN GoodResume' ELSE Rests'
    <2>1. CASE Closing
      <3>1. Rests BY <2>1, <1>3 DEF GoodResume, Resetting, Replied, Resuming, Closing
      <3>2. Rests' BY <3>1, <2>1, <1>4, <1>5, SameRests
      <3> QED BY <3>2, <2>1, <1>7 DEF GoodResume
    <2>2. CASE ~Closing /\ Resetting /\ Even /\ ~tran.open /\ Free
      <3>1. state' = "CMD" /\ prev' = Null /\ owed' = 0 /\ Even' /\ Free'
        BY <2>2, <1>4, <1>5, <1>8 DEF Resetting, Null
      <3> QED BY <3>1 DEF GoodResume, Replied, Rests, Ready
    <2>3. CASE ~Closing /\ Replied /\ Even /\ prev = Null
      <3>1. next # "resume" BY <2>3, <1>3 DEF Resetting, Replied
      <3>2. state' = "CMD" /\ prev' = Null /\ owed' = 0 /\ Even' /\ Free'
        BY <2>3, <1>4, <1>5, <1>8 DEF Replied
      <3> QED BY <3>1, <3>2 DEF Rests, Ready
    <2>4. CASE ~Closing /\ Asked("resume") /\ Resuming
      <3>1. next # "resume" BY <2>4, <1>3 DEF Resetting, Resuming, Null
      <3>2. Commanded'
        BY <2>4, <1>4, <1>5 DEF Resuming, Commanded, Null
      <3>3. PICK c \in calls : /\ calls = {c} /\ c.id = current /\ c.method = c.hook
                               /\ c.hook # "reset_transaction" /\ c.hook \in Greetings
                               /\ Serving(c.hook, c.then, "resume") /\ Left(c.hook)
                               /\ waits = {}
        BY <2>4 DEF Asked
      <3>4. Working(c.hook, c.then, "resume") /\ c.hook \in Names
        BY <3>3 DEF Serving, Greetings
      <3>5. Serving(c.hook, c.then, "none")'
        BY <3>2, <3>3, <3>4, <1>4, <1>8
           DEF Serving, Working, ConnectHooks, Greetings, Chat, RcptHooks, Post
      <3>6. Left(c.hook)' BY <3>3, <1>4, SameLeft
      <3>7. Asked("none")' BY <3>3, <3>5, <3>6, <1>4 DEF Asked
      <3> QED BY <3>1, <3>7 DEF Rests
    <2> QED BY <2>1, <2>2, <2>3, <2>4, <1>3 DEF GoodResume
  <1>10. Stacked' BY <1>1, <1>2, <1>4, <1>7, <1>9, Popped
  <1>11. Typed' BY <1>2, <1>4, <1>7 DEF Typed
  <1>12. Patient' BY <1>1, <1>2, <1>4, PatientKept DEF Process, Task
  <1> QED BY <1>2, <1>4, <1>10, <1>11, <1>12 DEF IInv

\* disconnect() and fail(): from here on the connection is closing.
LEMMA DisconnectKeeps ==
    ASSUME Sober, IInv, Disconnect
    PROVE  IInv'
  <1>1. PICK t, next : t = Head(agenda) /\ next = Below OBVIOUS
  <1>2. /\ Stacked /\ agenda # <<>> /\ t.do \in {"fail", "disconnect"}
        /\ Typed /\ ~thrown /\ Patient
    BY <1>1 DEF IInv, Disconnect, Doing
  <1>3. ~Closing /\ Ending /\ next # "resume"
    BY <1>1, <1>2, TopTask DEF Good, GoodNotice
  <1>4. /\ toRun' \in {toRun, <<>>} /\ state' = "DISCONNECTING"
        /\ Call(<<Reset("run_disconnect")>>)
        /\ UNCHANGED <<saved, denied, calls, current, late, thrown>>
        /\ UNCHANGED <<prev, buf, tran, earlyTalker, waits, owed, ran>>
    BY <1>3 DEF Disconnect
  <1>5. PICK u : u = Reset("run_disconnect") OBVIOUS
  <1>6. u \in TaskT /\ u.do = "reset_transaction" /\ u.then = "run_disconnect"
    BY <1>5 DEF Reset, Task, TaskT, Dos, Thens, Rets
  <1>7. Ending' BY <1>3, <1>4, SameEnding
  <1>8. Good(u, next)' BY <1>4, <1>6, <1>7 DEF Good, GoodReset, Greetings, Closures, Benign
  <1>9. Stacked' BY <1>1, <1>2, <1>3, <1>4, <1>5, <1>6, <1>8, Called
  <1>10. Typed' BY <1>2, <1>4, EmptySeq DEF Typed, States
  <1>11. Patient' BY <1>1, <1>2, <1>4, PatientKept DEF Process, Task
  <1> QED BY <1>2, <1>4, <1>9, <1>10, <1>11 DEF IInv

LEMMA RunDisconnectKeeps ==
    ASSUME Sober, IInv, RunDisconnect
    PROVE  IInv'
  <1>1. PICK t, next : t = Head(agenda) /\ next = Below OBVIOUS
  <1>2. /\ Stacked /\ agenda # <<>> /\ t.do = "run_disconnect" /\ Typed /\ ~thrown /\ Patient
    BY <1>1 DEF IInv, RunDisconnect, Doing
  <1>3. state = "DISCONNECTING" /\ ~tran.open /\ Even /\ Ending
    BY <1>1, <1>2, TopTask DEF Good
  <1>4. /\ Call(<<Run("disconnect", "none")>>)
        /\ UNCHANGED <<toRun, saved, denied, calls, current, late, thrown>>
        /\ UNCHANGED <<state, prev, buf, tran, earlyTalker, waits, owed, ran>>
    BY DEF RunDisconnect, hookVars, connVars
  <1>5. PICK u : u = Run("disconnect", "none") OBVIOUS
  <1>6. u \in TaskT /\ u.do = "run_hooks" /\ u.hook = "disconnect" /\ u.then = "none"
    <2>1. "disconnect" \in Names /\ "none" \in Thens /\ "cont" \in Rets
      BY DEF Names, Thens, Rets
    <2> QED BY <2>1, <1>5, RunMade
  <1>7. Closing /\ Closing' BY <1>3, <1>4 DEF Closing
  <1>8. Serving("disconnect", "none", next)
    BY <1>3, <1>7 DEF Serving, Working, Names, ConnectHooks, Greetings, Chat, RcptHooks, Post
  <1>9. Serving("disconnect", "none", next)' BY <1>4, <1>8, SameServing
  <1>10. One' /\ ran'["disconnect"] = 0 BY <1>3, <1>4, SameEnding DEF Ending
  <1>11. Good(u, next)' BY <1>6, <1>9, <1>10 DEF Good, GoodRun, Greetings, Closures, Benign
  <1>12. Stacked' BY <1>1, <1>2, <1>4, <1>5, <1>6, <1>7, <1>11, Called
  <1>13. Typed' BY <1>2, <1>4 DEF Typed
  <1>14. Patient' BY <1>1, <1>2, <1>4, PatientKept DEF Process, Task
  <1> QED BY <1>2, <1>4, <1>12, <1>13, <1>14 DEF IInv

\* disconnect_respond: the connection is over.
LEMMA DisconnectRespondKeeps ==
    ASSUME Sober, IInv, DisconnectRespond
    PROVE  IInv'
  <1>1. PICK t, next : t = Head(agenda) /\ next = Below OBVIOUS
  <1>2. /\ Stacked /\ agenda # <<>> /\ t.do = "respond_method" /\ t.hook = "disconnect"
        /\ Typed /\ ~thrown /\ Patient
    BY <1>1 DEF IInv, DisconnectRespond, Doing
  <1>3. GoodAnswer(t, next) /\ toRun = <<>> BY <1>1, <1>2, TopTask DEF Good
  <1>4. ~tran.open /\ Quiet /\ Left("disconnect")
    BY <1>2, <1>3 DEF GoodAnswer, Serving, Working
  <1>5. ran["disconnect"] = Registered["disconnect"]
    BY <1>2, <1>3, <1>4, EmptySeq DEF Left, Typed
  <1>6. /\ Call(<<>>) /\ state' = "DISCONNECTED"
        /\ UNCHANGED <<toRun, saved, denied, calls, current, late, thrown>>
        /\ UNCHANGED <<prev, buf, tran, earlyTalker, waits, owed, ran>>
    BY DEF DisconnectRespond, hookVars
  <1>7. Rests' /\ Closing' BY <1>4, <1>5, <1>6 DEF Rests, Over, Quiet, Closing
  <1>8. Stacked' BY <1>2, <1>6, <1>7, Popped DEF GoodResume
  <1>9. Typed' BY <1>2, <1>6 DEF Typed, States
  <1>10. Patient' BY <1>1, <1>2, <1>6, PatientKept DEF Process, Task
  <1> QED BY <1>2, <1>6, <1>8, <1>9, <1>10 DEF IInv

------------------------------------------------------------------------------
(* Lines, and the commands they are. *)

\* While the loop over the lines is on top, the connection rests.
LEMMA ReadingFacts ==
    ASSUME IInv, agenda # <<>>, Head(agenda).do \in Benign
    PROVE  /\ Stacked /\ Typed /\ ~thrown /\ Patient /\ Rests
           /\ Below = "resume" => Closing
           /\ state \in {"CMD", "DATA"} => Ready /\ Below # "resume"
           /\ state # "LOOP"
  <1>1. PICK t, next : t = Head(agenda) /\ next = Below OBVIOUS
  <1>2. Stacked /\ Typed /\ ~thrown /\ Patient BY DEF IInv
  <1>3. Rests /\ (next = "resume" => Closing) BY <1>1, <1>2, TopTask DEF Good
  <1>4. Asked("none") => state \notin {"CMD", "DATA", "LOOP"}
    BY ServingClosing, ServingLive DEF Asked
  <1>5. Streams \/ Over => state \notin {"CMD", "DATA", "LOOP", "PAUSE"}
    BY DEF Streams, Over, Posting
  <1>6. Ready => state \in {"CMD", "DATA"} BY DEF Ready
  <1> QED BY <1>1, <1>2, <1>3, <1>4, <1>5, <1>6 DEF Rests, Closing

\* The first line is one of the client's, and the others stay; it is the only
\* one of a client that waits.
LEMMA LineTaken ==
    ASSUME IInv, Reading, state \in {"CMD", "DATA"}, buf' = Tail(buf), UNCHANGED earlyTalker
    PROVE  /\ agenda # <<>> /\ Head(agenda).do \in Benign
           /\ Head(buf) \in Lines /\ buf' \in Seq(Lines) /\ Patient'
  <1>1. agenda # <<>> /\ Head(agenda).do \in Benign BY DEF Reading, Doing, Benign
  <1>2. Typed /\ Patient /\ buf # <<>> BY DEF IInv, Reading
  <1>3. buf \in Seq(Lines) BY <1>2 DEF Typed
  <1>4. Head(buf) \in Lines /\ buf' \in Seq(Lines) /\ Len(buf') = Len(buf) - 1
    BY <1>2, <1>3, TailOf
  <1>5. ~Pipelining => buf' = <<>>
    <2>1. ~Pipelining => Len(buf') = 0 BY <1>2, <1>4 DEF Patient
    <2> QED BY <2>1, <1>4, EmptySeq
  <1> QED BY <1>1, <1>2, <1>4, <1>5 DEF Patient

LEMMA ReadNoLineKeeps ==
    ASSUME Sober, IInv, ReadNoLine
    PROVE  IInv'
  <1>1. agenda # <<>> /\ Head(agenda).do \in Benign BY DEF ReadNoLine, Doing, Benign
  <1>2. Stacked /\ Typed /\ ~thrown /\ Patient /\ Rests /\ (Below = "resume" => Closing)
    BY <1>1, ReadingFacts
  <1>3. /\ Call(<<>>)
        /\ UNCHANGED <<toRun, saved, denied, calls, current, late, thrown>>
        /\ UNCHANGED <<state, prev, buf, tran, waits, owed, ran>>
    BY DEF ReadNoLine, hookVars
  <1>4. Rests' /\ (Closing' <=> Closing) BY <1>2, <1>3, SameRests DEF Closing
  <1>5. Stacked' BY <1>1, <1>2, <1>3, <1>4, Popped DEF GoodResume
  <1>6. Typed' BY <1>2, <1>3 DEF Typed
  <1>7. ASSUME ~Pipelining PROVE buf = <<>>
    <2> SUFFICES ASSUME buf # <<>> PROVE FALSE OBVIOUS
    <2>1. agenda = <<Process>> /\ Ready BY <1>2, <1>7 DEF Patient
    <2>2. Head(agenda) = Process /\ Process.do # "while" BY <2>1 DEF Process, Task
    <2>3. state \in {"CMD", "DATA"} BY <2>1 DEF Ready
    <2> QED BY <2>2, <2>3 DEF ReadNoLine, Waiting, Closing, Doing
  <1>8. Patient'
    BY <1>2, <1>3, <1>7 DEF Patient, ReadNoLine, TooEarly
  <1> QED BY <1>2, <1>3, <1>5, <1>6, <1>8 DEF IInv

LEMMA DropLineKeeps ==
    ASSUME Sober, IInv, DropLine
    PROVE  IInv'
  <1>1. PICK t, next : t = Head(agenda) /\ next = Below OBVIOUS
  <1>2. agenda # <<>> /\ t.do = "while" /\ buf # <<>> /\ Closing
    BY <1>1 DEF DropLine, Doing
  <1>3. Stacked /\ Typed /\ ~thrown /\ Patient /\ Rests
    BY <1>1, <1>2, ReadingFacts DEF Benign
  <1>4. /\ Call(<<Loop>>) /\ buf' = Tail(buf)
        /\ UNCHANGED <<toRun, saved, denied, calls, current, late, thrown>>
        /\ UNCHANGED <<state, prev, tran, earlyTalker, waits, owed, ran>>
    BY DEF DropLine, hookVars
  <1>5. Rests' /\ Closing' BY <1>2, <1>3, <1>4, SameRests DEF Closing
  <1>6. Good(Loop, next)' BY <1>5, ProcessMade DEF Good, Greetings, Closures, Benign
  <1>7. Stacked' BY <1>1, <1>2, <1>3, <1>4, <1>5, <1>6, ProcessMade, Called
  <1>8. Typed' BY <1>2, <1>3, <1>4, TailOf DEF Typed
  <1>9. Pipelining
    <2>1. agenda # <<Process>> BY <1>1, <1>2 DEF Process, Task
    <2> QED BY <2>1, <1>2, <1>3 DEF Patient
  <1> QED BY <1>3, <1>4, <1>7, <1>8, <1>9 DEF IInv, Patient

\* A command is in hand.
LEMMA ProcessCommandKeeps ==
    ASSUME Sober, IInv, ProcessCommand
    PROVE  IInv'
  <1>1. PICK line : line = Head(buf) OBVIOUS
  <1>2. Reading /\ state = "CMD" /\ buf' = Tail(buf) /\ UNCHANGED earlyTalker
    BY DEF ProcessCommand
  <1>3. /\ agenda # <<>> /\ Head(agenda).do \in Benign /\ line \in Lines
        /\ buf' \in Seq(Lines) /\ Patient'
    BY <1>1, <1>2, LineTaken
  <1>4. Stacked /\ Typed /\ ~thrown /\ Ready /\ Below # "resume"
    BY <1>2, <1>3, ReadingFacts
  <1>5. /\ state' = "PAUSE_SMTP" /\ owed' = owed + 1
        /\ tran' = (IF line = "RCPT" /\ tran.open THEN [tran EXCEPT !.rcpt_to = @ + 1] ELSE tran)
        /\ Call(Handled(line) \o <<Loop>>)
        /\ UNCHANGED <<toRun, saved, denied, calls, current, late, thrown>>
        /\ UNCHANGED <<prev, waits, ran>>
    BY <1>1 DEF ProcessCommand, hookVars
  <1>6. tran \in [open : BOOLEAN, rcpt_to : Nat, accept : Nat, resetting : BOOLEAN]
    BY <1>4 DEF Typed
  <1>7. Commanded' /\ owed' = 1 /\ Free'
    BY <1>4, <1>5 DEF Ready, Commanded, Free, Quiet, Closing
  <1>8. ~(line = "RCPT" /\ tran.open) => tran' = tran /\ Even' /\ Even
    BY <1>4, <1>5 DEF Ready, Even
  <1>9. Typed'
    <2>1. tran' \in [open : BOOLEAN, rcpt_to : Nat, accept : Nat, resetting : BOOLEAN]
      BY <1>5, <1>6
    <2>2. state' \in States /\ owed' \in Nat BY <1>5, <1>7 DEF States
    <2> QED BY <2>1, <2>2, <1>3, <1>4, <1>5 DEF Typed
  <1>10. PICK u : u = Command(line) OBVIOUS
  <1>11. line \in {"HELO", "EHLO", "MAIL", "RCPT", "DATA", "DOT", "BARE", "RSET", "QUIT", "TEXT",
                   "BAD"}
    BY <1>3, ConnectionAssumption
  <1>11a. PICK below : below = IF line \in {"TEXT", "DOT", "BARE"} THEN "while" ELSE "tried"
    OBVIOUS
  <1>11b. below # "resume" BY <1>11a
  <1>12. ASSUME NEW g \in Greetings, u = Reset(g), Offered(g), line # "RCPT"
         PROVE  u \in TaskT /\ Good(u, below)'
    <2>1. u \in TaskT /\ u.do = "reset_transaction" /\ u.then = g
      BY <1>12 DEF Reset, Task, TaskT, Dos, Thens, Rets
    <2>2. GoodReset(g, below)' BY <1>7, <1>8, <1>11b, <1>12 DEF GoodReset
    <2> QED BY <2>1, <2>2, <1>11b DEF Good, Greetings, Closures, Benign
  <1>13. ASSUME u = Reply("none"), ~(line = "RCPT" /\ tran.open)
         PROVE  u \in TaskT /\ Good(u, below)'
    <2>1. u \in TaskT /\ u.do = "respond" /\ u.then = "none" /\ u.ret = "cont"
      BY <1>13 DEF Reply, Task, TaskT, Dos, Thens, Rets
    <2>2. GoodReply("none")' BY <1>7, <1>8, <1>13 DEF GoodReply, Commanded
    <2> QED BY <2>1, <2>2, <1>11b DEF Good, Greetings, Closures, Benign
  <1>14. ASSUME NEW h \in Awaited, u = Run(h, "none"),
                Working(h, "none", below)'
         PROVE  u \in TaskT /\ Good(u, below)'
    <2>1. u \in TaskT /\ u.do = "run_hooks" /\ u.hook = h /\ u.then = "none"
      BY <1>14, RunMade DEF Thens, Rets, Awaited
    <2>2. Serving(h, "none", below)' BY <1>14 DEF Serving, Awaited
    <2> QED BY <2>1, <2>2, <1>7 DEF Good, GoodRun, Free, Greetings, Closures, Benign, Awaited
  <1>15. u \in TaskT /\ Good(u, below)'
    <2>1. CASE line \in {"HELO", "EHLO"} \/ (line = "MAIL" /\ helloHost)
      <3>1. \E g \in Greetings : u = Reset(g) /\ Offered(g)
        BY <2>1, <1>3, <1>10 DEF Command, Greetings, Offered
      <3> QED BY <3>1, <2>1, <1>12
    <2>2. CASE \/ line = "BAD"
               \/ line = "MAIL" /\ ~helloHost
               \/ line = "RCPT" /\ ~tran.open
               \/ line = "DATA" /\ ~(tran.open /\ tran.rcpt_to > 0)
      <3>1. u = Reply("none") BY <2>2, <1>10 DEF Command
      <3> QED BY <3>1, <2>2, <1>13
    <2>3. CASE line = "RCPT" /\ tran.open
      <3>1. u = Run("rcpt", "none") BY <2>3, <1>10 DEF Command
      <3>2. Odd' BY <2>3, <1>4, <1>5, <1>6 DEF Ready, Even, Odd
      <3>3. Working("rcpt", "none", below)'
        BY <3>2, <1>7, <1>11b DEF Working, Free, ConnectHooks, Greetings, Chat, RcptHooks, Post
      <3>4. "rcpt" \in Awaited
        BY DEF Names, RcptHooks, Awaited
      <3> QED BY <3>1, <3>3, <3>4, <1>14
    <2>4. CASE line = "DATA" /\ tran.open /\ tran.rcpt_to > 0
      <3>1. u = Run("data", "none") BY <2>4, <1>10 DEF Command
      <3>2. Full' BY <2>4, <1>8 DEF Full, Even
      <3>3. Working("data", "none", below)'
        BY <3>2, <1>7, <1>11b DEF Working, Free, ConnectHooks, Greetings, Chat, RcptHooks, Post
      <3>4. "data" \in Awaited BY DEF Names, Awaited
      <3> QED BY <3>1, <3>3, <3>4, <1>14
    <2>5. CASE line \in {"RSET", "QUIT", "DOT", "BARE", "TEXT"}
      <3>1. \E h \in Chat : u = Run(h, "none") BY <2>5, <1>10 DEF Command, Chat
      <3>2. PICK h \in Chat : u = Run(h, "none") BY <3>1
      <3>3. h \in Awaited BY DEF Names, Chat, Awaited
      <3>4. Working(h, "none", below)'
        BY <2>5, <1>7, <1>8, <1>11b DEF Working, Free, ConnectHooks, Greetings, Chat, RcptHooks, Post
      <3> QED BY <3>2, <3>3, <3>4, <1>14
    <2> QED BY <2>1, <2>2, <2>3, <2>4, <2>5, <1>11
  <1>16. ~Closing /\ ~Closing' BY <1>2, <1>5 DEF Closing
  <1>17. Stacked'
    <2>1. CASE line \in {"TEXT", "DOT", "BARE"}
      <3>1. Handled(line) \o <<Loop>> = <<u, Loop>>
        BY <2>1, <1>10, <1>15, ProcessMade, PairOf DEF Handled
      <3> QED BY <3>1, <2>1, <1>3, <1>4, <1>5, <1>11a, <1>15, <1>16, ProcessMade, CalledTwo
    <2>2. CASE line \notin {"TEXT", "DOT", "BARE"}
      <3>1. Handled(line) = <<u, Tried("respond")>> BY <2>2, <1>10 DEF Handled
      <3>2. PICK v : v = Tried("respond") OBVIOUS
      <3>3. v \in TaskT /\ v.do = "tried" BY <3>2, TriedMade
      <3>4. Call(<<u, v>> \o <<Loop>>) BY <3>1, <3>2, <1>5
      <3>5. v.do \in Benign /\ Loop.do \in Benign BY <3>3, ProcessMade DEF Benign
      <3>6. Good(u, v.do)' BY <3>3, <2>2, <1>11a, <1>15
      <3> QED BY <3>3, <3>4, <3>5, <3>6, <1>3, <1>4, <1>15, <1>16, ProcessMade, CalledThree
    <2> QED BY <2>1, <2>2
  <1> QED BY <1>3, <1>4, <1>5, <1>9, <1>17 DEF IInv

LEMMA NoLoop ==
    ASSUME IInv
    PROVE  ~ProcessLoop
  <1>1. ASSUME ProcessLoop PROVE FALSE
    <2>1. agenda # <<>> /\ Head(agenda).do \in Benign /\ state = "LOOP"
      BY <1>1 DEF ProcessLoop, Reading, Doing, Benign
    <2> QED BY <2>1, ReadingFacts
  <1> QED BY <1>1

\* A line of the message.
LEMMA ProcessTextKeeps ==
    ASSUME Sober, IInv, ProcessText
    PROVE  IInv'
  <1>1. PICK next : next = Below OBVIOUS
  <1>2. Reading /\ state = "DATA" /\ buf' = Tail(buf) /\ UNCHANGED earlyTalker
    BY DEF ProcessText
  <1>3. agenda # <<>> /\ Head(agenda).do \in Benign /\ buf' \in Seq(Lines) /\ Patient'
    BY <1>2, LineTaken
  <1>4. Stacked /\ Typed /\ ~thrown /\ Rests /\ next # "resume" BY <1>1, <1>2, <1>3, ReadingFacts
  <1>5. /\ Call(<<Loop>>)
        /\ UNCHANGED <<toRun, saved, denied, calls, current, late, thrown>>
        /\ UNCHANGED <<state, prev, tran, waits, owed, ran>>
    BY DEF ProcessText, hookVars
  <1>6. Rests' /\ (Closing' <=> Closing) BY <1>4, <1>5, SameRests DEF Closing
  <1>7. Good(Loop, next)' BY <1>4, <1>6, ProcessMade DEF Good, Greetings, Closures, Benign
  <1>8. Stacked' BY <1>1, <1>3, <1>4, <1>5, <1>6, <1>7, ProcessMade, Called
  <1>9. Typed' BY <1>3, <1>4, <1>5 DEF Typed
  <1> QED BY <1>3, <1>4, <1>5, <1>8, <1>9 DEF IInv

\* A lone dot ended by a bare LF: the message is refused.
LEMMA ProcessBareKeeps ==
    ASSUME Sober, IInv, ProcessBare
    PROVE  IInv'
  <1>1. Reading /\ state = "DATA" /\ buf' = Tail(buf) /\ UNCHANGED earlyTalker
    BY DEF ProcessBare
  <1>2. agenda # <<>> /\ Head(agenda).do \in Benign /\ buf' \in Seq(Lines) /\ Patient'
    BY <1>1, LineTaken
  <1>3. Stacked /\ Typed /\ ~thrown /\ Ready /\ Below # "resume" BY <1>1, <1>2, ReadingFacts
  <1>4. /\ Call(<<Reply("reset"), Loop>>) /\ owed' = owed + 1
        /\ UNCHANGED <<toRun, saved, denied, calls, current, late, thrown>>
        /\ UNCHANGED <<state, prev, tran, waits, ran>>
    BY DEF ProcessBare, hookVars
  <1>5. PICK u : u = Reply("reset") OBVIOUS
  <1>6. u \in TaskT /\ u.do = "respond" /\ u.then = "reset" /\ u.ret = "cont"
    BY <1>5 DEF Reply, Task, TaskT, Dos, Thens, Rets
  <1>7. owed' = 1 /\ state' = "DATA" /\ prev' = Null /\ Even' /\ Full' /\ Free'
    BY <1>1, <1>3, <1>4, SameEven, SameFree DEF Ready
  <1>8. GoodReply("reset")' BY <1>7 DEF GoodReply
  <1>9. Good(u, "while")' BY <1>6, <1>8 DEF Good, Greetings, Closures, Benign
  <1>10. Closing' <=> Closing BY <1>4 DEF Closing
  <1>11. Stacked' BY <1>2, <1>3, <1>4, <1>5, <1>6, <1>9, <1>10, ProcessMade, CalledTwo
  <1>12. Typed' BY <1>2, <1>3, <1>4, <1>7 DEF Typed
  <1> QED BY <1>2, <1>3, <1>4, <1>11, <1>12 DEF IInv

\* The end of the message: it is refused, or the message stream has it.
LEMMA DataDoneKeeps ==
    ASSUME Sober, IInv, DataDone
    PROVE  IInv'
  <1>1. Reading /\ state = "DATA" /\ buf' = Tail(buf) /\ UNCHANGED earlyTalker
    BY DEF DataDone
  <1>2. agenda # <<>> /\ Head(agenda).do \in Benign /\ buf' \in Seq(Lines) /\ Patient'
    BY <1>1, LineTaken
  <1>3. PICK next : next = Below OBVIOUS
  <1>4. Stacked /\ Typed /\ ~thrown /\ Ready /\ next # "resume" BY <1>1, <1>2, <1>3, ReadingFacts
  <1>5. /\ state' = "PAUSE_DATA" /\ prev' = "CMD" /\ owed' = owed + 1
        /\ UNCHANGED <<toRun, saved, denied, calls, current, late, thrown>>
        /\ UNCHANGED <<tran, ran>>
    BY DEF DataDone, hookVars
  <1>6. Posting' /\ Even' /\ Full' /\ ~Closing' /\ ~Closing
    BY <1>1, <1>4, <1>5, SameEven DEF Ready, Posting, Closing
  <1>7. calls' = {} /\ waits = {} /\ toRun' = <<>> /\ ran'["disconnect"] = 0
    BY <1>1, <1>4, <1>5 DEF Ready, Free, Quiet, Closing
  <1>8. waits' \subseteq {"end_data"} BY <1>7 DEF DataDone
  <1>9. Typed' BY <1>2, <1>4, <1>5, <1>6, <1>8 DEF Typed, States, Posting
  <1>10. CASE Call(<<Run("max_data_exceeded", "none"), Loop>>) /\ UNCHANGED waits
    <2>1. PICK u : u = Run("max_data_exceeded", "none") OBVIOUS
    <2>2. u \in TaskT /\ u.do = "run_hooks" /\ u.hook = "max_data_exceeded" /\ u.then = "none"
      <3>1. "max_data_exceeded" \in Names /\ "none" \in Thens /\ "cont" \in Rets
        BY DEF Names, Post, Thens, Rets
      <3> QED BY <3>1, <2>1, RunMade
    <2>3. Serving("max_data_exceeded", "none", "while")'
      BY <1>6, <1>7 DEF Serving, Working, Names, ConnectHooks, Greetings, Chat, RcptHooks, Post
    <2>4. Quiet' BY <1>7, <1>10 DEF Quiet
    <2>5. Good(u, "while")'
      BY <2>2, <2>3, <2>4, <1>7 DEF Good, GoodRun, Greetings, Closures, Benign
    <2>6. Stacked' BY <2>1, <2>2, <2>5, <1>2, <1>3, <1>4, <1>6, <1>10, ProcessMade, CalledTwo
    <2> QED BY <2>6, <1>2, <1>4, <1>5, <1>9 DEF IInv
  <1>11. CASE Call(<<Reply("reset"), Loop>>) /\ UNCHANGED waits
    <2>1. PICK u : u = Reply("reset") OBVIOUS
    <2>2. u \in TaskT /\ u.do = "respond" /\ u.then = "reset" /\ u.ret = "cont"
      BY <2>1 DEF Reply, Task, TaskT, Dos, Thens, Rets
    <2>3. GoodReply("reset")'
      BY <1>6, <1>7, <1>11 DEF GoodReply, Posting, Free, Quiet
    <2>4. Good(u, "while")' BY <2>2, <2>3 DEF Good, Greetings, Closures, Benign
    <2>5. Stacked' BY <2>1, <2>2, <2>4, <1>2, <1>3, <1>4, <1>6, <1>11, ProcessMade, CalledTwo
    <2> QED BY <2>5, <1>2, <1>4, <1>5, <1>9 DEF IInv
  <1>12. CASE Call(<<Loop>>) /\ waits' = waits \cup {"end_data"}
    <2>1. Rests' BY <1>6, <1>7, <1>12 DEF Rests, Streams
    <2>2. Good(Loop, next)' BY <2>1, <1>4, ProcessMade DEF Good, Greetings, Closures, Benign
    <2>3. Stacked' BY <2>2, <1>2, <1>3, <1>4, <1>6, <1>12, ProcessMade, Called
    <2> QED BY <2>3, <1>2, <1>4, <1>5, <1>9 DEF IInv
  <1> QED BY <1>10, <1>11, <1>12 DEF DataDone

\* The closures of HELO, EHLO and MAIL, whose plugins are asked.
LEMMA GreetingKeeps ==
    ASSUME Sober, IInv, Greet \/ InitTransaction
    PROVE  IInv'
  <1>1. PICK t, next, g : t = Head(agenda) /\ next = Below /\ g = t.do OBVIOUS
  <1>2. /\ Stacked /\ agenda # <<>> /\ g \in Greetings /\ Typed /\ ~thrown /\ Patient
    BY <1>1 DEF IInv, Greet, InitTransaction, Doing, Greetings
  <1>3. GoodGreet(g, next) BY <1>1, <1>2, TopTask DEF Good
  <1>4. /\ Call(<<Run(g, "none")>>)
        /\ IF g = "mail" THEN tran' = NewTran ELSE UNCHANGED tran
        /\ UNCHANGED <<toRun, saved, denied, calls, current, late, thrown>>
        /\ UNCHANGED <<state, prev, buf, earlyTalker, waits, owed, ran>>
    BY <1>1 DEF Greet, InitTransaction, Doing, hookVars
  <1>5. PICK u : u = Run(g, "none") OBVIOUS
  <1>6. u \in TaskT /\ u.do = "run_hooks" /\ u.hook = g /\ u.then = "none"
    <2>1. g \in Names /\ "none" \in Thens /\ "cont" \in Rets
      BY <1>2 DEF Names, Thens, Rets
    <2> QED BY <2>1, <1>5, RunMade
  <1>7. /\ tran' \in [open : BOOLEAN, rcpt_to : Nat, accept : Nat, resetting : BOOLEAN]
        /\ Even' /\ (g = "mail" => tran'.open)
    <2>1. CASE g = "mail"
      <3>1. tran' = [open |-> TRUE, rcpt_to |-> 0, accept |-> 0, resetting |-> FALSE]
        BY <2>1, <1>4 DEF NewTran, NoTran
      <3> QED BY <3>1 DEF Even
    <2>2. CASE g # "mail"
      <3>1. tran' = tran /\ Even BY <2>2, <1>3, <1>4 DEF GoodGreet
      <3> QED BY <3>1, <2>2, <1>2 DEF Typed, Even
    <2> QED BY <2>1, <2>2
  <1>8. Free' /\ (Closing' <=> Closing) BY <1>3, <1>4, SameFree DEF GoodGreet
  <1>9. IF next = "resume" THEN Resuming' ELSE Commanded'
    BY <1>3, <1>4 DEF GoodGreet, Resuming, Commanded
  <1>10. Serving(g, "none", next)'
    BY <1>2, <1>3, <1>7, <1>8, <1>9
       DEF Serving, Working, GoodGreet, Free, Names, ConnectHooks, Greetings, Chat, RcptHooks, Post
  <1>11. Good(u, next)'
    BY <1>2, <1>6, <1>8, <1>10 DEF Good, GoodRun, Free, Greetings, Closures, Benign
  <1>12. Stacked' BY <1>1, <1>2, <1>4, <1>5, <1>6, <1>8, <1>11, Called
  <1>13. Typed' BY <1>2, <1>4, <1>7 DEF Typed
  <1>14. Patient' BY <1>1, <1>2, <1>4, PatientKept DEF Process, Task, Greetings
  <1> QED BY <1>2, <1>4, <1>12, <1>13, <1>14 DEF IInv

LEMMA SetEsmtpKeeps ==
    ASSUME Sober, IInv, SetEsmtp
    PROVE  IInv'
  <1>1. agenda # <<>> /\ Head(agenda).do = "esmtp" BY DEF SetEsmtp, Doing
  <1>2. Stacked /\ Typed /\ ~thrown /\ Patient /\ Rests /\ (Below = "resume" => Closing)
    BY <1>1, ReadingFacts DEF Benign
  <1>3. /\ Call(<<>>)
        /\ UNCHANGED <<toRun, saved, denied, calls, current, late, thrown>>
        /\ UNCHANGED <<state, prev, buf, tran, earlyTalker, waits, owed, ran>>
    BY DEF SetEsmtp, hookVars
  <1>4. Rests' /\ (Closing' <=> Closing) BY <1>2, <1>3, SameRests DEF Closing
  <1>5. Stacked' BY <1>1, <1>2, <1>3, <1>4, Popped DEF GoodResume
  <1>6. Typed' BY <1>2, <1>3 DEF Typed
  <1>7. Patient' BY <1>1, <1>2, <1>3, PatientKept DEF Process, Task
  <1> QED BY <1>2, <1>3, <1>5, <1>6, <1>7 DEF IInv

------------------------------------------------------------------------------
(* Events. *)

\* An event starts a turn with one task, or with none.
LEMMA Started ==
    ASSUME NEW u \in TaskT, agenda' = <<u>>, Good(u, "none")'
    PROVE  Stacked'
  <1>1. agenda' \in Seq(TaskT) /\ Len(agenda') = 1 /\ Head(agenda') = u /\ agenda' # <<>>
    OBVIOUS
  <1>2. Below' = "none" BY <1>1 DEF Below
  <1>3. Tailed' BY <1>1 DEF Tailed
  <1> QED BY <1>1, <1>2, <1>3 DEF Stacked, Disciplined

LEMMA NotStarted ==
    ASSUME agenda' = <<>>, Rests'
    PROVE  Stacked'
  <1>1. agenda' \in Seq(TaskT) /\ Len(agenda') = 0 OBVIOUS
  <1>2. Tailed' BY <1>1 DEF Tailed
  <1> QED BY <1>1, <1>2 DEF Stacked, Disciplined

LEMMA IdleFacts ==
    ASSUME IInv, agenda = <<>>
    PROVE  /\ Typed /\ ~thrown /\ Patient /\ Rests
           /\ ~Closing => Ending
    BY RestsEnding DEF IInv, Stacked, Disciplined

LEMMA RestsClosing ==
    ASSUME Rests, Closing
    PROVE  ~tran.open /\ (Asked("none") \/ Over)
  <1>1. ~Ready /\ ~Streams BY DEF Ready, Streams, Posting, Closing
  <1>2. Asked("none") => ~tran.open BY ServingClosing DEF Asked
  <1> QED BY <1>1, <1>2 DEF Rests, Over

\* Only the plugin in hand can answer, and no call is answered twice.
LEMMA HookEventKeeps ==
    ASSUME Sober, IInv, HookEvent
    PROVE  IInv'
  <1>1. agenda = <<>> BY DEF HookEvent, Idle
  <1>2. Typed /\ ~thrown /\ Patient /\ Rests BY <1>1, IdleFacts
  <1>3. ~LateCallback
    BY <1>2 DEF LateCallback, Sober, AnswersOnce, Typed
  <1>4. PluginAnswers BY <1>3 DEF HookEvent
  <1>4a. PICK c \in calls : \E r \in Answers[c.method] :
           agenda' = <<Callback(c.hook, c.then, r)>> /\ calls' = calls \ {c}
    BY <1>4 DEF PluginAnswers
  <1>5. PICK ret \in Answers[c.method] :
           agenda' = <<Callback(c.hook, c.then, ret)>> /\ calls' = calls \ {c}
    BY <1>4a
  <1>6. /\ UNCHANGED <<toRun, saved, denied, current, late, thrown>>
        /\ UNCHANGED <<state, prev, buf, tran, earlyTalker, waits, owed, ran>>
    BY <1>4 DEF PluginAnswers, HookEvent, connVars
  <1>7. Asked("none")
    BY <1>2, <1>5 DEF Rests, Ready, Streams, Over, Free, Quiet
  <1>8. /\ calls = {c} /\ c.method = c.hook /\ Serving(c.hook, c.then, "none") /\ Left(c.hook)
        /\ ~Closing => waits = {}
    BY <1>5, <1>7 DEF Asked
  <1>9. c \in CallT BY <1>2 DEF Typed
  <1>10. c.hook \in Names /\ c.hook \in Plugged /\ c.then \in Thens
    BY <1>8, <1>9 DEF CallT
  <1>11. c.hook = "queue_outbound" => Relaying BY <1>8, Registers
  <1>12. ret \in Rets /\ Possible(c.hook, ret) BY <1>5, <1>8, <1>10, <1>11, AnswerPossible
  <1>13. PICK u : u = Callback(c.hook, c.then, ret) OBVIOUS
  <1>14. /\ u \in TaskT /\ u.do = "callback" /\ u.hook = c.hook /\ u.then = c.then
         /\ u.ret = ret
    BY <1>10, <1>12, <1>13, RunMade
  <1>15. Serving(c.hook, c.then, "none")' /\ Left(c.hook)'
    BY <1>6, <1>8, SameServing, SameLeft
  <1>16. calls' = {} /\ Quiet' BY <1>5, <1>6, <1>8 DEF Quiet, Closing
  <1>17. Good(u, "none")'
    BY <1>12, <1>14, <1>15, <1>16 DEF Good, GoodAnswer, Possible, Greetings, Closures, Benign
  <1>18. Stacked' BY <1>5, <1>13, <1>14, <1>17, Started
  <1>19. Typed' BY <1>2, <1>6, <1>16 DEF Typed
  <1>20. Patient' BY <1>1, <1>2, <1>6, PatientKept
  <1> QED BY <1>2, <1>6, <1>18, <1>19, <1>20 DEF IInv

\* A client that waits sends a line only when the connection is ready for it.
LEMMA ReceiveKeeps ==
    ASSUME Sober, IInv, Receive
    PROVE  IInv'
  <1>1. agenda = <<>> BY DEF Receive, Idle
  <1>2. Typed /\ ~thrown /\ Patient /\ Rests BY <1>1, IdleFacts
  <1>3. /\ UNCHANGED <<toRun, saved, denied, calls, current, late, thrown>>
        /\ UNCHANGED <<state, prev, tran, earlyTalker, waits, owed, ran>>
    BY DEF Receive, hookVars
  <1>4. Rests' /\ (Ready' <=> Ready)
    BY <1>2, <1>3, SameRests, SameFree, SameEven DEF Ready
  <1>4a. PICK n \in 1 .. MaxChunk : \E line \in [1 .. n -> Lines] :
           /\ ~Pipelining => owed = 0 /\ buf = <<>> /\ n = 1
           /\ IF Closing THEN UNCHANGED <<agenda, buf>>
                         ELSE buf' = buf \o line /\ agenda' = <<Process>>
    BY DEF Receive
  <1>5. PICK chunk \in [1 .. n -> Lines] :
           /\ ~Pipelining => owed = 0 /\ buf = <<>> /\ n = 1
           /\ IF Closing THEN UNCHANGED <<agenda, buf>>
                         ELSE buf' = buf \o chunk /\ agenda' = <<Process>>
    BY <1>4a
  <1>6. CASE Closing
    <2>1. Stacked' BY <1>1, <1>4, <1>5, <1>6, NotStarted
    <2>2. Typed' BY <1>2, <1>3, <1>5, <1>6 DEF Typed
    <2>3. Patient' BY <1>1, <1>2, <1>3, <1>5, <1>6, PatientKept
    <2> QED BY <2>1, <2>2, <2>3, <1>2, <1>3 DEF IInv
  <1>7. CASE ~Closing
    <2>1. n \in Nat BY ConnectionAssumption
    <2>2. chunk \in Seq(Lines) /\ Len(chunk) = n BY <2>1, SeqDef, LenProperties
    <2>3. buf \in Seq(Lines) BY <1>2 DEF Typed
    <2>4. buf' \in Seq(Lines) /\ Len(buf') = Len(buf) + n
      <3>1. buf' = buf \o chunk BY <1>5, <1>7
      <3>2. buf \o chunk \in Seq(Lines) /\ Len(buf \o chunk) = Len(buf) + Len(chunk)
        BY <2>2, <2>3, ConcatProperties
      <3> QED BY <3>1, <3>2, <2>2
    <2>5. Typed' BY <2>4, <1>2, <1>3 DEF Typed
    <2>6. Good(Process, "none")' BY <1>4, ProcessMade DEF Good, Greetings, Closures, Benign
    <2>7. Stacked' BY <2>6, <1>5, <1>7, ProcessMade, Started
    <2>8. ~Pipelining => Ready
      BY <1>2, <1>5, <1>7, RestsEnding DEF Rests, Streams, Posting, Over, Closing
    <2>9. ~Pipelining => Len(buf') = 1
      BY <2>4, <1>5, EmptySeq
    <2>10. Patient' BY <2>8, <2>9, <1>2, <1>3, <1>4, <1>5, <1>7 DEF Patient, Process, Task
    <2> QED BY <2>5, <2>7, <2>10, <1>2, <1>3 DEF IInv
  <1> QED BY <1>6, <1>7

LEMMA ImmediateKeeps ==
    ASSUME Sober, IInv, Immediate
    PROVE  IInv'
  <1>1. agenda = <<>> BY DEF Immediate, Idle
  <1>2. Typed /\ ~thrown /\ Patient /\ Rests BY <1>1, IdleFacts
  <1>3. /\ agenda' = <<Process>>
        /\ UNCHANGED <<toRun, saved, denied, calls, current, late, thrown>>
        /\ UNCHANGED <<state, prev, buf, tran, earlyTalker, waits, owed, ran>>
    BY DEF Immediate, hookVars
  <1>4. Rests' BY <1>2, <1>3, SameRests
  <1>5. Good(Process, "none")' BY <1>4, ProcessMade DEF Good, Greetings, Closures, Benign
  <1>6. Stacked' BY <1>3, <1>5, ProcessMade, Started
  <1>7. Typed' BY <1>2, <1>3 DEF Typed
  <1>8. Patient' BY <1>1, <1>2, <1>3, PatientKept
  <1> QED BY <1>2, <1>3, <1>6, <1>7, <1>8 DEF IInv

\* The message stream has the whole message: the mail's plugins are asked, or
\* the client has left.
LEMMA ArrivesKeeps ==
    ASSUME Sober, IInv, Arrives
    PROVE  IInv'
  <1>1. agenda = <<>> BY DEF Arrives, Idle
  <1>2. Typed /\ ~thrown /\ Patient /\ Rests BY <1>1, IdleFacts
  <1>3. waits \subseteq {"end_data"} BY <1>2 DEF Typed
  <1>4. /\ "end_data" \in waits /\ waits' = {}
        /\ agenda' = IF tran.open THEN <<Run("data_post", "none")>> ELSE <<>>
    BY <1>3 DEF Arrives, Comes
  <1>5. /\ UNCHANGED <<toRun, saved, denied, calls, current, late, thrown>>
        /\ UNCHANGED <<state, prev, buf, tran, earlyTalker, owed, ran>>
    BY DEF Arrives, hookVars
  <1>6. Typed' BY <1>2, <1>4, <1>5 DEF Typed
  <1>7. Patient' BY <1>1, <1>2, <1>5, PatientKept
  <1>8. CASE Closing
    <2>1. ~tran.open /\ (Asked("none") \/ Over)
      BY <1>2, <1>8, RestsClosing
    <2>2. Asked("none") => Asked("none")'
      <3> SUFFICES ASSUME Asked("none") PROVE Asked("none")' OBVIOUS
      <3>1. PICK c \in calls : /\ calls = {c} /\ c.id = current /\ c.method = c.hook
                               /\ c.hook # "reset_transaction"
                               /\ Serving(c.hook, c.then, "none") /\ Left(c.hook)
        BY DEF Asked
      <3>2. Serving(c.hook, c.then, "none")' /\ Left(c.hook)'
        BY <3>1, <1>5, SameServing, SameLeft
      <3> QED BY <3>1, <3>2, <1>4, <1>5, <1>8 DEF Asked
    <2>3. Over => Over' BY <1>5 DEF Over
    <2>4. Stacked' BY <2>1, <2>2, <2>3, <1>4, NotStarted DEF Rests
    <2> QED BY <2>4, <1>2, <1>5, <1>6, <1>7 DEF IInv
  <1>9. CASE ~Closing
    <2>1. Streams
      BY <1>2, <1>4, <1>9 DEF Rests, Ready, Free, Quiet, Asked, Over, Closing
    <2>2. PICK u : u = Run("data_post", "none") OBVIOUS
    <2>3. u \in TaskT /\ u.do = "run_hooks" /\ u.hook = "data_post" /\ u.then = "none"
      <3>1. "data_post" \in Names /\ "none" \in Thens /\ "cont" \in Rets
        BY DEF Names, Post, Thens, Rets
      <3> QED BY <3>1, <2>2, RunMade
    <2>4. Posting' /\ Full' /\ Quiet' /\ toRun' = <<>> /\ ran'["disconnect"] = 0
      BY <2>1, <1>4, <1>5, SameEven DEF Streams, Posting, Quiet
    <2>5. Serving("data_post", "none", "none")'
      BY <2>4 DEF Serving, Working, Names, ConnectHooks, Greetings, Chat, RcptHooks, Post
    <2>6. Good(u, "none")' BY <2>3, <2>4, <2>5 DEF Good, GoodRun, Greetings, Closures, Benign
    <2>7. agenda' = <<u>> BY <2>1, <2>2, <1>4 DEF Streams, Full
    <2>8. Stacked' BY <2>3, <2>6, <2>7, Started
    <2> QED BY <2>8, <1>2, <1>5, <1>6, <1>7 DEF IInv
  <1> QED BY <1>8, <1>9

\* The socket's events, the inactivity timer and an error of the message
\* stream end a connection that is not closing.
LEMMA SocketEndsKeeps ==
    ASSUME Sober, IInv, SocketEnds
    PROVE  IInv'
  <1>1. agenda = <<>> BY DEF SocketEnds, Idle
  <1>2. Typed /\ ~thrown /\ Patient /\ Rests /\ (~Closing => Ending) BY <1>1, IdleFacts
  <1>3. /\ agenda' = IF Closing THEN <<>> ELSE <<Do("fail")>>
        /\ UNCHANGED <<toRun, saved, denied, calls, current, late, thrown>>
        /\ UNCHANGED <<state, prev, buf, tran, earlyTalker, waits, owed, ran>>
    BY DEF SocketEnds, Fails, hookVars
  <1>4. Rests' /\ (Closing' <=> Closing) /\ (Ending' <=> Ending)
    BY <1>2, <1>3, SameRests, SameEnding DEF Closing
  <1>5. Typed' BY <1>2, <1>3 DEF Typed
  <1>6. Patient' BY <1>1, <1>2, <1>3, PatientKept
  <1>7. CASE Closing
    <2>1. Stacked' BY <1>3, <1>4, <1>7, NotStarted
    <2> QED BY <2>1, <1>2, <1>3, <1>5, <1>6 DEF IInv
  <1>8. CASE ~Closing
    <2>1. PICK u : u = Do("fail") OBVIOUS
    <2>2. u \in TaskT /\ u.do = "fail" BY <2>1 DEF Do, Task, TaskT, Dos, Thens, Rets
    <2>3. Good(u, "none")'
      BY <2>2, <1>2, <1>4, <1>8 DEF Good, GoodNotice, Greetings, Closures, Benign
    <2>4. Stacked' BY <2>1, <2>2, <2>3, <1>3, <1>8, Started
    <2> QED BY <2>4, <1>2, <1>3, <1>5, <1>6 DEF IInv
  <1> QED BY <1>7, <1>8

LEMMA TroubleKeeps ==
    ASSUME Sober, IInv, Trouble
    PROVE  IInv'
  <1>1. agenda = <<>> BY DEF Trouble, Idle
  <1>2. Typed /\ ~thrown /\ Patient /\ Rests /\ (~Closing => Ending) BY <1>1, IdleFacts
  <1>3. /\ UNCHANGED <<toRun, saved, denied, calls, current, late, thrown>>
        /\ UNCHANGED <<state, prev, buf, tran, earlyTalker, waits, owed, ran>>
    BY DEF Trouble, hookVars, connVars
  <1>4. ~Closing
    BY <1>2, RestsClosing DEF Trouble
  <1>5. PICK func \in {"fail", "disconnect"} : agenda' = <<Notice(func)>> BY DEF Trouble
  <1>6. PICK u : u = Notice(func) OBVIOUS
  <1>7. u \in TaskT /\ u.do = "respond" /\ u.then = func /\ u.ret = "deny"
    BY <1>6 DEF Notice, Task, TaskT, Dos, Thens, Rets
  <1>8. ~Closing' /\ Ending' BY <1>2, <1>3, <1>4, SameEnding DEF Closing
  <1>9. Good(u, "none")' BY <1>7, <1>8 DEF Good, GoodNotice, Greetings, Closures, Benign
  <1>10. Stacked' BY <1>5, <1>6, <1>7, <1>9, Started
  <1>11. Typed' BY <1>2, <1>3 DEF Typed
  <1>12. Patient' BY <1>1, <1>2, <1>3, PatientKept
  <1> QED BY <1>2, <1>3, <1>10, <1>11, <1>12 DEF IInv

------------------------------------------------------------------------------
(* The invariant. *)

LEMMA InitEstablishes ==
    ASSUME Sober, Init
    PROVE  IInv
  <1>1. PICK u : u = Run("connect_init", "none") OBVIOUS
  <1>2. u \in TaskT /\ u.do = "run_hooks" /\ u.hook = "connect_init" /\ u.then = "none"
    <2>1. "connect_init" \in Names /\ "none" \in Thens /\ "cont" \in Rets
      BY DEF Names, ConnectHooks, Thens, Rets
    <2> QED BY <2>1, <1>1, RunMade
  <1>3. agenda = <<u>> BY <1>1 DEF Init
  <1>4. agenda \in Seq(TaskT) /\ Len(agenda) = 1 /\ Head(agenda) = u /\ agenda # <<>>
    BY <1>2, <1>3
  <1>5. Typed
    <2>1. denied \in TaskT
      BY DEF Init, HooksInit, NothingDenied, Respond, Task, TaskT, Dos, Names, Thens, Rets
    <2>2. late \in 0 .. MaxLate BY HooksAssumption DEF Init, HooksInit
    <2>3. <<>> \in Seq(Plugged) /\ <<>> \in Seq(Lines) BY EmptySeq
    <2> QED BY <2>1, <2>2, <2>3 DEF Init, HooksInit, Typed, None, States, NoTran
  <1>6. Even /\ Free /\ state = "PAUSE" /\ prev = Null /\ owed = 1
    BY DEF Init, HooksInit, NoTran, Even, Free, Quiet
  <1>7. Serving("connect_init", "none", "none")
    BY <1>6 DEF Serving, Working, Free, Names, ConnectHooks, Greetings, Chat, RcptHooks, Post
  <1>8. Good(u, "none") BY <1>2, <1>6, <1>7 DEF Good, GoodRun, Free, Greetings, Closures, Benign
  <1>9. Stacked BY <1>4, <1>8 DEF Stacked, Tailed, Disciplined, Below
  <1>10. Patient BY DEF Init, Patient
  <1> QED BY <1>5, <1>9, <1>10 DEF IInv, Init, HooksInit

LEMMA SameGood ==
    ASSUME UNCHANGED <<toRun, saved, denied, calls, current>>,
           UNCHANGED <<state, prev, tran, waits, owed, ran>>, NEW t, NEW next
    PROVE  Good(t, next)' <=> Good(t, next)
  <1>1. \A h, then, m : Serving(h, then, m)' <=> Serving(h, then, m) BY SameServing
  <1>2. \A h : Left(h)' <=> Left(h) BY SameLeft
  <1>3. /\ Free' <=> Free
        /\ Quiet' <=> Quiet
        /\ Closing' <=> Closing
        /\ Ending' <=> Ending
        /\ One' <=> One
        /\ Even' <=> Even
        /\ Odd' <=> Odd
        /\ Full' <=> Full
        /\ Rests' <=> Rests
        /\ Asked("resume")' <=> Asked("resume")
        /\ Replied' <=> Replied
    BY SameFree, SameEnding, SameEven, SameRests, SameAsked DEF Replied
  <1>4. GoodRun(t, next)' <=> GoodRun(t, next) BY <1>1, <1>3 DEF GoodRun, All
  <1>5. /\ GoodNext(t, next)' <=> GoodNext(t, next)
        /\ GoodAnswer(t, next)' <=> GoodAnswer(t, next)
    BY <1>1, <1>2, <1>3 DEF GoodNext, GoodAnswer, Possible
  <1>6. /\ GoodReply(t.then)' <=> GoodReply(t.then)
        /\ \A func : GoodNotice(func)' <=> GoodNotice(func)
    BY <1>3 DEF GoodReply, GoodNotice, Commanded, Posting
  <1>7. /\ GoodReset(t.then, next)' <=> GoodReset(t.then, next)
        /\ GoodGreet(t.do, next)' <=> GoodGreet(t.do, next)
        /\ GoodClosure(t.do)' <=> GoodClosure(t.do)
    BY <1>3 DEF GoodReset, GoodGreet, GoodClosure, Commanded, Resuming
  <1>8. GoodResume' <=> GoodResume BY <1>3 DEF GoodResume, Resetting, Resuming
  <1> QED BY <1>3, <1>4, <1>5, <1>6, <1>7, <1>8 DEF Good, Resetting

LEMMA NextKeeps ==
    ASSUME Sober, IInv, [Next]_vars
    PROVE  IInv'
  <1>1. CASE Turn
    BY <1>1, HookTaskKeeps, HookRespondKeeps, NextHookKeeps, NotAsked, SendReplyKeeps,
       ReplyFailsKeeps, NoLoopReply, NoCatch,
       ReplyClosureKeeps, ResetTransactionKeeps, ResetTransactionRespondKeeps, ResumeKeeps,
       DisconnectKeeps, RunDisconnectKeeps, DisconnectRespondKeeps, ReadNoLineKeeps,
       DropLineKeeps, ProcessCommandKeeps, NoLoop, ProcessTextKeeps, ProcessBareKeeps,
       DataDoneKeeps, GreetingKeeps, SetEsmtpKeeps DEF Turn
  <1>2. CASE HookEvent \/ Receive \/ Immediate \/ Arrives \/ SocketEnds \/ Trouble
    BY <1>2, HookEventKeeps, ReceiveKeeps, ImmediateKeeps, ArrivesKeeps, SocketEndsKeeps,
       TroubleKeeps
  <1>3. CASE UNCHANGED vars
    <2>1. /\ UNCHANGED <<agenda, toRun, saved, denied, calls, current, late, thrown>>
          /\ UNCHANGED <<state, prev, buf, tran, earlyTalker, waits, owed, ran>>
      BY <1>3 DEF vars, hookVars, connVars
    <2>2. PICK t, next : t = Head(agenda) /\ next = Below OBVIOUS
    <2>3. Good(t, next)' <=> Good(t, next) BY <2>1, SameGood
    <2>4. Rests' <=> Rests BY <2>1, SameRests
    <2>5. Disciplined' <=> Disciplined
      <3>1. Head(agenda)' = t /\ Below' = next BY <2>1, <2>2 DEF Below
      <3> QED BY <3>1, <2>1, <2>2, <2>3, <2>4 DEF Disciplined
    <2>6. Tailed' <=> Tailed BY <2>1 DEF Tailed, Closing
    <2>7. Stacked' BY <2>1, <2>5, <2>6 DEF Stacked, IInv
    <2>8. Typed' BY <2>1 DEF Typed, IInv
    <2>9. Patient'
      <3>1. Ready' <=> Ready BY <2>1, SameFree, SameEven DEF Ready
      <3> QED BY <3>1, <2>1 DEF Patient, IInv, Process, Task
    <2> QED BY <2>1, <2>7, <2>8, <2>9 DEF IInv
  <1> QED BY <1>1, <1>2, <1>3 DEF Next

------------------------------------------------------------------------------
(* What follows from the invariant. *)

LEMMA RestsNoStall ==
    ASSUME IInv
    PROVE  NoStall
  <1>1. SUFFICES ASSUME Idle, calls = {}, waits = {}
                 PROVE  state \in {"CMD", "LOOP", "DATA", "DISCONNECTED"}
    BY DEF NoStall
  <1>2. Rests BY <1>1 DEF Idle, IInv, Stacked, Disciplined
  <1>3. ~Streams /\ ~Asked("none") BY <1>1 DEF Streams, Asked
  <1> QED BY <1>2, <1>3 DEF Rests, Ready, Over

\* A method that is called is one of the hook whose chain runs.
LEMMA CallsOwn ==
    ASSUME IInv, NEW h, Calling(h)
    PROVE  /\ Head(agenda).hook = h
           /\ Serving(h, Head(agenda).then, Below)
  <1>1. PICK t, next : t = Head(agenda) /\ next = Below OBVIOUS
  <1>2. Stacked /\ agenda # <<>> /\ t.do = "run_next_hook" /\ Typed
    BY <1>1 DEF IInv, Calling, Doing
  <1>3. GoodNext(t, next) BY <1>1, <1>2, TopTask DEF Good
  <1>4. toRun \in Seq(Plugged) /\ toRun # <<>> /\ Head(toRun) = h /\ All(toRun, t.hook)
    BY <1>2, <1>3 DEF Typed, Calling, GoodNext, Left
  <1>5. t.hook = h BY <1>4, HeadOfAll
  <1> QED BY <1>1, <1>3, <1>5 DEF GoodNext

LEMMA CallsAccepted ==
    ASSUME IInv
    PROVE  AcceptedOnly
  <1>1. SUFFICES ASSUME NEW h \in {"data", "data_post", "queue", "queue_outbound"}, Calling(h)
                 PROVE  tran.open /\ tran.rcpt_to = tran.accept /\ tran.accept > 0
    BY DEF AcceptedOnly
  <1>2. Serving(h, Head(agenda).then, Below) BY <1>1, CallsOwn
  <1>3. Working(h, Head(agenda).then, Below) BY <1>1, <1>2 DEF Serving
  <1> QED BY <1>1, <1>3 DEF Working, Post, Full, Even

\* Where the count of the disconnect methods stands.
LEMMA ServingCounts ==
    ASSUME NEW h, NEW then, NEW next, Serving(h, then, next),
           Left(h) \/ ran["disconnect"] = 0, Typed, Registered["disconnect"] \in Nat
    PROVE  DisconnectOnce
  <1>1. ran["disconnect"] \in Nat /\ Len(toRun) \in Nat BY DEF Typed
  <1>2. state # "DISCONNECTED" BY ServingClosing DEF Closing
  <1>3. ran["disconnect"] =< Registered["disconnect"]
    <2>1. CASE h = "disconnect" BY <1>1, <2>1 DEF Left
    <2>2. CASE h = "deny"
      BY <1>1, <2>2 DEF Serving, Working
    <2>3. CASE h \notin {"deny", "disconnect"}
      BY <1>1, <2>3 DEF Serving, Working
    <2> QED BY <2>1, <2>2, <2>3
  <1> QED BY <1>2, <1>3 DEF DisconnectOnce

LEMMA RestsCounts ==
    ASSUME Rests, Typed, Registered["disconnect"] \in Nat
    PROVE  DisconnectOnce
  <1>1. CASE Ready \/ Streams BY <1>1 DEF Ready, Streams, Posting, Free, DisconnectOnce
  <1>2. CASE Asked("none") BY <1>2, ServingCounts DEF Asked
  <1>3. CASE Over BY <1>3 DEF Over, DisconnectOnce
  <1> QED BY <1>1, <1>2, <1>3 DEF Rests

LEMMA Counts ==
    ASSUME Sober, IInv
    PROVE  DisconnectOnce
  <1>1. Typed /\ Registered["disconnect"] \in Nat
    BY HooksAssumption DEF IInv, Sober, NamesAssumed, Names
  <1>2. CASE agenda = <<>>
    BY <1>1, <1>2, RestsCounts DEF IInv, Stacked, Disciplined
  <1>3. CASE agenda # <<>>
    <2>1. PICK t, next : t = Head(agenda) /\ next = Below OBVIOUS
    <2>2. t \in TaskT /\ Good(t, next) BY <2>1, <1>3, TopTask DEF IInv
    <2>3. t.do \in Dos BY <2>2 DEF TaskT
    <2>4. CASE t.do = "run_hooks"
      <3>1. GoodRun(t, next) BY <2>2, <2>4 DEF Good
      <3>2. Serving(t.hook, t.then, next) BY <3>1 DEF GoodRun
      <3>3. CASE t.hook = "disconnect" \/ t.hook # "deny"
        <4>1. ran["disconnect"] = 0 BY <3>1, <3>2, <3>3 DEF GoodRun, Serving, Working
        <4> QED BY <4>1, <3>2, <1>1, ServingCounts
      <3>4. CASE t.hook = "deny"
        <4>1. ran["disconnect"] \in {0, Registered["disconnect"]}
          BY <3>2, <3>4 DEF Serving, Working
        <4>2. state # "DISCONNECTED" BY <3>2, ServingClosing DEF Closing
        <4> QED BY <4>1, <4>2, <1>1 DEF DisconnectOnce
      <3> QED BY <3>3, <3>4
    <2>5. CASE t.do \in {"run_next_hook", "callback", "respond_method"}
      <3>1. \E m : Serving(t.hook, t.then, m) /\ Left(t.hook)
        BY <2>2, <2>5 DEF Good, GoodNext, GoodAnswer
      <3> QED BY <3>1, <1>1, ServingCounts
    <2>6. CASE t.do \in {"respond", "fail", "disconnect", "run_disconnect", "reset_transaction"}
                        \cup Greetings \cup Closures
      <3>1. ran["disconnect"] = 0 /\ state # "DISCONNECTED"
        BY <2>2, <2>6
           DEF Good, GoodReply, GoodNotice, GoodReset, GoodGreet, GoodClosure, Replied, Free,
               Ending, Closing, Commanded, Resuming, Posting, Greetings, Closures, Benign
      <3> QED BY <3>1, <1>1 DEF DisconnectOnce
    <2>7. CASE t.do = "resume"
      <3>1. GoodResume BY <2>2, <2>7 DEF Good, Greetings, Closures, Benign
      <3>2. CASE Rests BY <3>2, <1>1, RestsCounts
      <3>3. CASE Resetting /\ Free BY <3>3, <1>1 DEF Resetting, Free, DisconnectOnce
      <3>4. CASE Replied BY <3>4, <1>1 DEF Replied, Free, DisconnectOnce
      <3>5. CASE Asked("resume") BY <3>5, <1>1, ServingCounts DEF Asked
      <3> QED BY <3>1, <3>2, <3>3, <3>4, <3>5 DEF GoodResume
    <2>8. CASE t.do \in Benign
      <3>1. Rests BY <2>2, <2>8 DEF Good, Greetings, Closures, Benign
      <3> QED BY <3>1, <1>1, RestsCounts
    <2> QED BY <2>3, <2>4, <2>5, <2>6, <2>7, <2>8 DEF Dos
  <1> QED BY <1>2, <1>3

------------------------------------------------------------------------------
(* A step of the connection is one of the session, or none. *)

SessionStep == [Session!Next]_<<IF Closing THEN 0 ELSE owed, ~Closing>>

LEMMA Unseen ==
    ASSUME Closing' <=> Closing, Closing \/ owed' = owed
    PROVE  SessionStep
  <1>1. (IF Closing THEN 0 ELSE owed)' = IF Closing THEN 0 ELSE owed OBVIOUS
  <1> QED BY <1>1 DEF SessionStep

\* process_line() takes a command only when no reply is due, and the end of
\* the message likewise.
LEMMA LineSteps ==
    ASSUME IInv, Reading, state \in {"CMD", "DATA"}, owed' = owed + 1, ~Closing'
    PROVE  SessionStep
  <1>1. agenda # <<>> /\ Head(agenda).do \in Benign BY DEF Reading, Doing, Benign
  <1>2. owed = 0 BY <1>1, ReadingFacts DEF Ready
  <1>3. ~Closing BY DEF Closing
  <1>4. Session!TakeCommand BY <1>2, <1>3 DEF Session!TakeCommand
  <1> QED BY <1>4 DEF SessionStep, Session!Next

\* respond() answers the command in hand, or gives notice.
LEMMA ReplySteps ==
    ASSUME IInv, SendReply
    PROVE  SessionStep
  <1>1. PICK t, func : t = Head(agenda) /\ func = t.then OBVIOUS
  <1>2. Stacked /\ agenda # <<>> /\ t.do = "respond" BY <1>1 DEF IInv, SendReply, Doing
  <1>3. IF t.ret = "cont" THEN GoodReply(func) ELSE GoodNotice(func)
    BY <1>1, <1>2, TopTask DEF Good
  <1>4. ~Closing
    BY <1>3 DEF GoodReply, GoodNotice, Closing, Commanded, Posting
  <1>5. state' = (IF state = "LOOP" THEN "LOOP" ELSE "CMD") /\ owed' = Settled
    BY <1>1, <1>4 DEF SendReply, Closing
  <1>6. ~Closing' BY <1>5 DEF Closing
  <1>7. CASE t.ret = "cont"
    <2>1. owed = 1 /\ owed' = 0 BY <1>1, <1>3, <1>5, <1>7 DEF Settled, GoodReply
    <2>2. Session!Reply BY <2>1, <1>4, <1>6 DEF Session!Reply
    <2> QED BY <2>2 DEF SessionStep, Session!Next
  <1>8. CASE t.ret # "cont"
    <2>1. owed' = owed BY <1>1, <1>5, <1>8 DEF Settled
    <2> QED BY <2>1, <1>4, <1>6, Unseen
  <1> QED BY <1>7, <1>8

\* disconnect() and fail() close a session that is open.
LEMMA DisconnectSteps ==
    ASSUME IInv, Disconnect
    PROVE  SessionStep
  <1>1. PICK t : t = Head(agenda) OBVIOUS
  <1>2. Stacked /\ agenda # <<>> /\ t.do \in {"fail", "disconnect"}
    BY <1>1 DEF IInv, Disconnect, Doing
  <1>3. ~Closing BY <1>1, <1>2, TopTask DEF Good, GoodNotice
  <1>4. state' = "DISCONNECTING" BY <1>3 DEF Disconnect
  <1>5. Session!Close BY <1>3, <1>4 DEF Session!Close, Closing
  <1> QED BY <1>5 DEF SessionStep, Session!Next

LEMMA TurnSteps ==
    ASSUME Sober, IInv, Turn
    PROVE  SessionStep
  <1>1. Typed BY DEF IInv
  <1>2. CASE HookTask \/ HookRespond \/ NextHook \/ ReplyFails \/ ResetTransactionRespond
             \/ RunDisconnect \/ ReadNoLine \/ DropLine \/ ProcessText \/ Greet
             \/ InitTransaction \/ SetEsmtp
    <2>1. UNCHANGED <<state, owed>>
      BY <1>2 DEF HookTask, HookRespond, NextHook, ReplyFails, ResetTransactionRespond,
                  RunDisconnect, ReadNoLine, DropLine, ProcessText, Greet, InitTransaction,
                  SetEsmtp, connVars
    <2> QED BY <2>1, Unseen DEF Closing
  <1>3. CASE ReplyClosure
    <2>1. agenda # <<>> /\ Head(agenda).do \in Closures /\ UNCHANGED owed
          /\ state' \in {state, "DATA"}
      BY <1>3 DEF ReplyClosure, RcptPop, RcptAccept, ClearHello, StartData, Doing, Closures
    <2>2. state = "CMD" BY <2>1, TopTask DEF IInv, Good, GoodClosure, Replied
    <2> QED BY <2>1, <2>2, Unseen DEF Closing
  <1>4. CASE ResetTransaction
    <2>1. UNCHANGED owed /\ (UNCHANGED state \/ (~Closing /\ state' = "PAUSE_DATA"))
      BY <1>4 DEF ResetTransaction, Pause
    <2> QED BY <2>1, Unseen DEF Closing
  <1>5. CASE Resume
    <2>1. UNCHANGED owed /\ (UNCHANGED state \/ (~Closing /\ state' = prev))
      BY <1>5 DEF Resume
    <2> QED BY <2>1, <1>1, Unseen DEF Closing, Typed, Null
  <1>6. CASE DisconnectRespond
    <2>1. PICK t, next : t = Head(agenda) /\ next = Below OBVIOUS
    <2>2. Stacked /\ agenda # <<>> /\ t.do = "respond_method" /\ t.hook = "disconnect"
      BY <2>1, <1>6 DEF IInv, DisconnectRespond, Doing
    <2>3. GoodAnswer(t, next) BY <2>1, <2>2, TopTask DEF Good
    <2>4. state = "DISCONNECTING" BY <2>2, <2>3 DEF GoodAnswer, Serving, Working
    <2>5. state' = "DISCONNECTED" BY <1>6 DEF DisconnectRespond
    <2> QED BY <2>4, <2>5, Unseen DEF Closing
  <1>7. CASE ProcessCommand
    <2>1. Reading /\ state = "CMD" /\ owed' = owed + 1 /\ state' = "PAUSE_SMTP"
      BY <1>7 DEF ProcessCommand
    <2> QED BY <2>1, LineSteps DEF Closing
  <1>8. CASE ProcessBare
    <2>1. Reading /\ state = "DATA" /\ owed' = owed + 1 /\ state' = state
      BY <1>8 DEF ProcessBare
    <2> QED BY <2>1, LineSteps DEF Closing
  <1>9. CASE DataDone
    <2>1. Reading /\ state = "DATA" /\ owed' = owed + 1 /\ state' = "PAUSE_DATA"
      BY <1>9 DEF DataDone
    <2> QED BY <2>1, LineSteps DEF Closing
  <1> QED
    BY <1>2, <1>3, <1>4, <1>5, <1>6, <1>7, <1>8, <1>9, ReplySteps, DisconnectSteps,
       NotAsked, NoLoopReply, NoLoop, NoCatch DEF Turn

LEMMA NextSteps ==
    ASSUME Sober, IInv, [Next]_vars
    PROVE  SessionStep
  <1>1. CASE HookEvent \/ Receive \/ Immediate \/ Arrives \/ SocketEnds \/ Trouble
             \/ UNCHANGED vars
    <2>1. UNCHANGED <<state, owed>>
      BY <1>1 DEF HookEvent, Receive, Immediate, Arrives, SocketEnds, Trouble, connVars, vars
    <2> QED BY <2>1, Unseen DEF Closing
  <1> QED BY <1>1, TurnSteps DEF Next

------------------------------------------------------------------------------
(* The theorems. *)

\* However turns, plugin callbacks and the client's packets come one after
\* the other, the command in hand has one owner (connection.js, plugins.js).
THEOREM CommandOwned ==
    ASSUME Sober
    PROVE  Spec => []IInv
  <1>1. Init => IInv BY InitEstablishes
  <1>2. IInv /\ [Next]_vars => IInv' BY NextKeeps
  <1> QED BY <1>1, <1>2, PTL DEF Spec

\* Nothing is thrown: no chain starts while another has methods left
\* (plugins.js:401), and no handler reads a transaction that has gone.
THEOREM NothingThrown ==
    ASSUME Sober
    PROVE  Spec => []~thrown
  <1>1. IInv => ~thrown BY DEF IInv
  <1> QED BY <1>1, CommandOwned, PTL

\* A connection that waits for nobody reads the client's next line, or is
\* over: pause(), resume() and respond() leave no state behind.
THEOREM NeverStalls ==
    ASSUME Sober
    PROVE  Spec => []NoStall
  <1>1. IInv => NoStall BY RestsNoStall
  <1> QED BY <1>1, CommandOwned, PTL

\* The plugin methods run_next_hook() calls are those of the hook it was
\* called for, though all chains of a connection share hooks_to_run.
THEOREM ChainsCallTheirOwn ==
    ASSUME Sober
    PROVE  Spec => []OwnMethod
  <1>1. IInv => OwnMethod BY CallsOwn DEF OwnMethod
  <1> QED BY <1>1, CommandOwned, PTL

\* The plugins of DATA and of the queue see only recipients answered 250.
THEOREM MailIsAccepted ==
    ASSUME Sober
    PROVE  Spec => []AcceptedOnly
  <1>1. IInv => AcceptedOnly BY CallsAccepted
  <1> QED BY <1>1, CommandOwned, PTL

\* Each disconnect plugin is called once, whatever ended the connection.
THEOREM DisconnectsOnce ==
    ASSUME Sober
    PROVE  Spec => []DisconnectOnce
  <1>1. IInv => DisconnectOnce BY Counts
  <1> QED BY <1>1, CommandOwned, PTL

\* A client that waits for each reply is never marked as an early talker
\* (connection.js:416, 457).
THEOREM WaitingIsNotEarly ==
    ASSUME Sober
    PROVE  Spec => []WaitingClient
  <1>1. IInv => WaitingClient BY DEF IInv, Patient, WaitingClient
  <1> QED BY <1>1, CommandOwned, PTL

\* A connection is an SMTP session: one command at a time, one reply for
\* each, and no way back once it is closing.
THEOREM ConnectionIsSession ==
    ASSUME Sober
    PROVE  Spec => ImplementsSession
  <1>1. Init => Session!Init BY DEF Init, Session!Init, Closing
  <1>2. IInv /\ [Next]_vars => [Session!Next]_(Session!sessionVars)
    BY NextSteps DEF SessionStep, Session!sessionVars
  <1> QED BY <1>1, <1>2, CommandOwned, PTL DEF Spec, ImplementsSession, Session!Spec
=============================================================================
