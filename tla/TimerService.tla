---------------------------- MODULE TimerService ----------------------------
(***************************************************************************)
(* What outbound.js expects of its temp-fail queue: a set of timers. Each  *)
(* is scheduled once, each sweep of the running service ends exactly the   *)
(* timers that are due, a flush ends them all, and a timer that ended ran  *)
(* its callback unless it had been cancelled. A delay that is not a number *)
(* makes a timer that is never due, and it may be refused, as may any      *)
(* other while such a one waits; nothing else is. There is no order and no *)
(* queue here; TimerQueue implements this with a sorted array.             *)
(***************************************************************************)
EXTENDS Integers

CONSTANTS Delays,     \* the delays, in clock units, that callers ask for
          NaN,        \* the delay, and the time, that is not a number
          MaxTimers,  \* how many timers are ever scheduled
          MaxTime     \* the last value of the clock

VARIABLES now,        \* the wall clock
          pending,    \* the timers waiting, as records [id, at]
          cancelled,  \* the timers whose callback was taken away
          ran,        \* the timers whose callback was called
          made,       \* how many timers were scheduled so far
          running     \* whether the service still sweeps

vars == <<now, pending, cancelled, ran, made, running>>

Ids(T) == {t.id : t \in T}

Init == /\ now = 0
        /\ pending = {}
        /\ cancelled = {}
        /\ ran = {}
        /\ made = 0
        /\ running = TRUE

Schedule(ms) ==
    /\ made < MaxTimers
    /\ made' = made + 1
    /\ pending' = pending \cup {[id |-> made + 1, at |-> IF ms = NaN THEN NaN ELSE now + ms]}
    /\ UNCHANGED <<now, cancelled, ran, running>>

\* The caller gets an exception in place of a timer.
Refuse(ms) ==
    /\ made < MaxTimers
    /\ pending # {}
    /\ ms = NaN \/ \E t \in pending : t.at = NaN
    /\ made' = made + 1
    /\ UNCHANGED <<now, pending, cancelled, ran, running>>

End(T) ==
    /\ pending' = pending \ T
    /\ ran' = ran \cup (Ids(T) \ cancelled)
    /\ UNCHANGED <<now, cancelled, made, running>>

Sweep == running /\ End({t \in pending : t.at # NaN /\ t.at <= now})

Flush == End(pending)

Cancel(id) == /\ id \in 1 .. made
              /\ cancelled' = cancelled \cup {id}
              /\ UNCHANGED <<now, pending, ran, made, running>>

Stop == /\ running' = FALSE
        /\ UNCHANGED <<now, pending, cancelled, ran, made>>

Clock == /\ now' \in 0 .. MaxTime
         /\ UNCHANGED <<pending, cancelled, ran, made, running>>

Next == \/ \E ms \in Delays : Schedule(ms) \/ Refuse(ms)
        \/ Sweep
        \/ Flush
        \/ \E id \in 1 .. made : Cancel(id)
        \/ Stop
        \/ Clock

Spec == Init /\ [][Next]_vars
=============================================================================
