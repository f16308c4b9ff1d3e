-------------------------------- MODULE Hooks --------------------------------
(***************************************************************************)
(* The hook runner of plugins.js, for one object (a connection): a chain   *)
(* of plugins for a hook, each called with a callback, the first answer    *)
(* other than CONT ending the chain, denials passing through the deny      *)
(* hook.                                                                   *)
(*                                                                         *)
(* JavaScript calls nest: a callback may answer before the call returns.   *)
(* What the running turn of the event loop has still to do is the variable *)
(* agenda, a stack of tasks; each action pops the top task and pushes the  *)
(* tasks it calls.  Events are taken when the agenda is empty.             *)
(***************************************************************************)
EXTENDS Naturals, Sequences, FiniteSets

CONSTANTS Registered,   \* plugins registered for each hook
          Sync,         \* hooks whose plugins may answer before they return
          Async,        \* hooks whose plugins may answer later, or time out
          Answers,      \* what the plugins of each hook may answer
          MaxLate       \* bound: callbacks of a plugin that already answered

Hooks == DOMAIN Registered
Rets  == {"cont", "ok", "deny", "denydisconnect", "next_hook"}   \* soft denials are denials

ASSUME HooksAssumption ==
    /\ Registered \in [Hooks -> Nat]
    /\ Sync \subseteq Hooks /\ Async \subseteq Hooks
    /\ \A h \in Hooks : Answers[h] \subseteq Rets
    /\ MaxLate \in Nat

VARIABLES agenda,       \* the tasks the running turn has still to do
          toRun,        \* object.hooks_to_run, the hook of each method in it
          saved,        \* object.saved_hooks_to_run
          denied,       \* what object.deny_respond was made from
          calls,        \* the plugin calls that may still answer
          current,      \* object.current_hook, the call it names; 0 is null
          late,         \* callbacks that came after their call's answer
          spent,        \* some call was answered or cancelled: it may call again
          thrown        \* an exception nobody caught: the process exits

hookVars == <<toRun, saved, denied, calls, current, late, spent, thrown>>

None == 0

Task(do, hook, then, ret) == [do |-> do, hook |-> hook, then |-> then, ret |-> ret]

Run(hook, then)          == Task("run_hooks", hook, then, "cont")
RunNext(hook, then)        == Task("run_next_hook", hook, then, "cont")
Callback(hook, then, ret) == Task("callback", hook, then, ret)
Respond(hook, then, ret) == Task("respond_method", hook, then, ret)

NothingDenied == Respond("deny", "none", "cont")

HooksInit == /\ toRun = <<>> /\ saved = <<>>
             /\ denied = NothingDenied
             /\ calls = {} /\ current = None
             /\ late = 0 /\ spent = FALSE /\ thrown = FALSE

\* The top task, and the tasks that take its place.
Doing(do)   == agenda # <<>> /\ Head(agenda).do = do
Call(tasks) == agenda' = tasks \o Tail(agenda)

\* The end of a try block, with what its catch will do: there is one around
\* the call of a plugin's method, and one around that of a command's handler.
Tried(catch) == Task("tried", "none", catch, "cont")
Tries        == {i \in DOMAIN agenda : agenda[i].do = "tried"}

\* An exception unwinds the turn to the innermost try block.
Throw == IF Tries = {}
         THEN thrown' = TRUE /\ agenda' = <<>>
         ELSE /\ \E i \in Tries :
                    /\ \A j \in Tries : i =< j
                    /\ agenda' = <<Task("catch", "none", agenda[i].then, "cont")>>
                                  \o SubSeq(agenda, i + 1, Len(agenda))
              /\ UNCHANGED thrown

TryEnds == Doing("tried") /\ Call(<<>>) /\ UNCHANGED hookVars

------------------------------------------------------------------------------
\* Mistake: disconnect does not cancel.
MistakeCancel(hook) == UNCHANGED <<calls, spent>>

\* reset_transaction and disconnect cancel the call that current_hook names,
\* if it has not been forgotten.
Cancel(hook) ==
    IF hook \in {"reset_transaction", "disconnect"} /\ current # None
    THEN /\ calls' = {c \in calls : c.id # current}
         /\ spent' = TRUE
    ELSE UNCHANGED <<calls, spent>>

AlreadyRunning(hook) == /\ hook \notin {"reset_transaction", "disconnect", "deny"}
                        /\ toRun # <<>>

RunHooks ==
    /\ Doing("run_hooks")
    /\ LET t == Head(agenda)
       IN  /\ Cancel(t.hook)
           /\ IF AlreadyRunning(t.hook)
              THEN Throw /\ UNCHANGED <<toRun, saved>>
              ELSE /\ saved' = IF t.hook = "deny" THEN toRun ELSE saved
                   /\ toRun' = [i \in 1 .. Registered[t.hook] |-> t.hook]
                   /\ Call(<<RunNext(t.hook, t.then)>>)
                   /\ UNCHANGED thrown
    /\ UNCHANGED <<denied, current, late>>

\* With no plugin left the callback is called at once.
ChainEnds ==
    /\ Doing("run_next_hook")
    /\ toRun = <<>>
    /\ Call(<<Callback(Head(agenda).hook, Head(agenda).then, "cont")>>)
    /\ UNCHANGED hookVars

\* A plugin's method for the hook is called.
Calling(hook) == Doing("run_next_hook") /\ toRun # <<>> /\ Head(toRun) = hook

NewId == CHOOSE i \in 1 .. Cardinality(calls) + 1 : \A c \in calls : c.id # i

\* A plugin that answers before it returns, or throws, which counts as CONT.
PluginAnswersNow ==
    /\ Doing("run_next_hook")
    /\ toRun # <<>> /\ Head(toRun) \in Sync
    /\ \E ret \in Answers[Head(toRun)] :
          Call(<<Callback(Head(agenda).hook, Head(agenda).then, ret), Tried("callback")>>)
    /\ toRun' = Tail(toRun)
    /\ spent' = TRUE
    /\ UNCHANGED <<saved, denied, calls, current, late, thrown>>

\* The catch calls back for the plugin, which has answered: that call is
\* ignored, after it has cleared current_hook.
CallsAgain ==
    /\ Doing("catch") /\ Head(agenda).then = "callback"
    /\ current' = None
    /\ Call(<<>>)
    /\ UNCHANGED <<toRun, saved, denied, calls, late, spent, thrown>>

PluginWaits ==
    /\ Doing("run_next_hook")
    /\ toRun # <<>> /\ Head(toRun) \in Async
    /\ calls' = calls \cup {[id |-> NewId, hook |-> Head(agenda).hook,
                             method |-> Head(toRun), then |-> Head(agenda).then]}
    /\ current' = NewId
    /\ toRun' = Tail(toRun)
    /\ Call(<<>>)
    /\ UNCHANGED <<saved, denied, late, spent, thrown>>

\* An event: a pending call answers, or its timer answers DENYSOFT for it.
PluginAnswers ==
    /\ agenda = <<>>
    /\ \E c \in calls : \E ret \in Answers[c.method] :
          /\ agenda' = <<Callback(c.hook, c.then, ret)>>
          /\ calls' = calls \ {c}
    /\ spent' = TRUE
    /\ UNCHANGED <<toRun, saved, denied, current, late, thrown>>

\* An event: a call that was answered, timed out or cancelled calls back
\* again.  It is ignored, after it has cleared current_hook.
LateCallback ==
    /\ agenda = <<>>
    /\ spent /\ late < MaxLate
    /\ late' = late + 1
    /\ current' = None
    /\ UNCHANGED <<agenda, toRun, saved, denied, calls, spent, thrown>>

\* The first answer of a call.  client_disconnected() is always false: it
\* compares with states.DISCONNECTING, which is undefined.
Answered ==
    /\ Doing("callback")
    /\ current' = None
    /\ LET t == Head(agenda)
       IN  IF toRun # <<>> /\ (t.ret = "cont" \/ t.hook \in {"connect_init", "disconnect"})
           THEN /\ Call(<<RunNext(t.hook, t.then)>>)
                /\ UNCHANGED <<toRun, denied>>
           ELSE IF t.ret \in {"deny", "denydisconnect"}
           THEN /\ denied' = Respond(t.hook, t.then, t.ret)
                /\ Call(<<Run("deny", t.then)>>)
                /\ UNCHANGED toRun
           ELSE /\ toRun' = <<>>
                /\ Call(<<Respond(t.hook, t.then, t.ret)>>)
                /\ UNCHANGED denied
    /\ UNCHANGED <<saved, calls, late, spent, thrown>>

\* deny_respond: OK overrides the denial, and the plugins that were left run.
DenyRespond ==
    /\ Doing("respond_method") /\ Head(agenda).hook = "deny"
    /\ IF Head(agenda).ret = "ok"
       THEN IF saved # <<>>
            THEN /\ toRun' = saved
                 /\ Call(<<RunNext(denied.hook, denied.then)>>)
                 /\ UNCHANGED saved
            ELSE /\ Call(<<Respond(denied.hook, denied.then, "cont")>>)
                 /\ UNCHANGED <<toRun, saved>>
       ELSE /\ saved' = <<>> /\ toRun' = <<>>
            /\ Call(<<denied>>)
    /\ UNCHANGED <<denied, calls, current, late, spent, thrown>>

HookTasks == RunHooks \/ ChainEnds \/ PluginAnswersNow \/ PluginWaits \/ Answered \/ DenyRespond
             \/ TryEnds \/ CallsAgain
==============================================================================
