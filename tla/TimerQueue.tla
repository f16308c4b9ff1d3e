----------------------------- MODULE TimerQueue -----------------------------
(***************************************************************************)
(* timer_queue.js: the array of deferred mails that outbound.js keeps.     *)
(* add() keeps the array sorted by fire time, an interval timer calls      *)
(* fire() which pops the array's due prefix, drain() pops everything (the  *)
(* "flush" of SIGHUP) and shutdown() stops the interval.                   *)
(*                                                                         *)
(* A callback here only pushes a mail on an async queue, so it does not    *)
(* re-enter the timer queue and fire() and drain() are atomic.  A delay    *)
(* comes from parseInt in deferred_respond, so it may be NaN; every        *)
(* comparison with NaN is false.                                           *)
(***************************************************************************)
EXTENDS Integers, Sequences, SequencesExt

CONSTANTS Delays,     \* the delays callers pass, a set of naturals and NaN
          NaN,        \* JavaScript's NaN
          MaxTimers,  \* bound: how many timers are added in a behaviour
          MaxTime,    \* bound: the last value of the clock
          MaxBacks    \* bound: how often the wall clock is set back

ASSUME NaNAssumption == NaN \notin Int
ASSUME DelaysAssumption == Delays \subseteq Nat \cup {NaN}
ASSUME BoundsAssumption == MaxTimers \in Nat /\ MaxTime \in Nat /\ MaxBacks \in Nat

VARIABLES now,        \* Date.now()
          backs,      \* how often the clock was set back
          queue,      \* this.queue, its timers as records [id, at]
          cancelled,  \* the timers whose cb is null
          ran,        \* the timers whose cb was called
          made,       \* how many timers were made
          running,    \* the interval timer is set
          thrown      \* add() threw: the process exits on the exception

vars == <<now, backs, queue, cancelled, ran, made, running, thrown>>

Timer == [id : 1 .. MaxTimers, at : Nat \cup {NaN}]

TimeLeq(a, b) == a # NaN /\ b # NaN /\ a <= b
TimeGt(a, b)  == a # NaN /\ b # NaN /\ a > b

Ids(q) == {q[i].id : i \in DOMAIN q}

Init == /\ now = 0
        /\ backs = 0
        /\ queue = <<>>
        /\ cancelled = {}
        /\ ran = {}
        /\ made = 0
        /\ running = TRUE
        /\ thrown = FALSE

-----------------------------------------------------------------------------
FireTime(ms) == IF ms = NaN THEN NaN ELSE now + ms

\* A mistake the runs must notice, like every "Mistake..." below: the timer is
\* compared with the first one of the array.
MistakePushable(at) == queue # <<>> => TimeLeq(queue[1].at, at)

\* push(): the array is empty or the timer is not earlier than its last one.
Pushable(at) == queue # <<>> => TimeLeq(queue[Len(queue)].at, at)

Push(timer) == /\ Pushable(timer.at)
               /\ queue' = Append(queue, timer)
               /\ UNCHANGED thrown

\* splice(): the timer goes before the first one that is later than it.
Splice(timer) ==
    /\ ~Pushable(timer.at)
    /\ \E i \in DOMAIN queue :
          /\ TimeGt(queue[i].at, timer.at)
          /\ \A j \in 1 .. i - 1 : ~TimeGt(queue[j].at, timer.at)
          /\ queue' = InsertAt(queue, i, timer)
    /\ UNCHANGED thrown

\* "Should never get here": neither of the two places was found.
Throw(timer) == /\ ~Pushable(timer.at)
                /\ \A i \in DOMAIN queue : ~TimeGt(queue[i].at, timer.at)
                /\ thrown' = TRUE
                /\ UNCHANGED queue

Add(ms) ==
    /\ ~thrown
    /\ made < MaxTimers
    /\ ms # NaN => now + ms <= MaxTime
    /\ made' = made + 1
    /\ LET timer == [id |-> made + 1, at |-> FireTime(ms)]
       IN  Push(timer) \/ Splice(timer) \/ Throw(timer)
    /\ UNCHANGED <<now, backs, cancelled, ran, running>>

\* Mistake: one timer more than called is shifted off.
MistakeShift(n) == /\ queue' = SubSeq(queue, n + 1, Len(queue))
                   /\ ran' = ran \cup ({queue[i].id : i \in 1 .. n - 1} \ cancelled)
                   /\ UNCHANGED <<now, backs, cancelled, made, running, thrown>>

\* shift() and call, n times.
Shift(n) == /\ queue' = SubSeq(queue, n + 1, Len(queue))
            /\ ran' = ran \cup ({queue[i].id : i \in 1 .. n} \ cancelled)
            /\ UNCHANGED <<now, backs, cancelled, made, running, thrown>>

\* Mistake: a sweep fires one timer only.
MistakeFiresOne == /\ ~thrown
                   /\ running
                   /\ queue # <<>> /\ TimeLeq(queue[1].at, now)
                   /\ Shift(1)

\* Mistake: the loop leaves the last timer in the array.
MistakeKeepsLast == /\ ~thrown
                    /\ running
                    /\ \E n \in 1 .. Len(queue) - 1 :
                          /\ \A i \in 1 .. n : TimeLeq(queue[i].at, now)
                          /\ n < Len(queue) - 1 => ~TimeLeq(queue[n + 1].at, now)
                          /\ Shift(n)

Fire == /\ ~thrown
        /\ running
        /\ \E n \in DOMAIN queue :
              /\ \A i \in 1 .. n : TimeLeq(queue[i].at, now)
              /\ n < Len(queue) => ~TimeLeq(queue[n + 1].at, now)
              /\ Shift(n)

Drain == /\ ~thrown
         /\ queue # <<>>
         /\ Shift(Len(queue))

\* The handle add() returned stays valid after its timer fired.
Cancel(id) == /\ ~thrown
              /\ id \in 1 .. made
              /\ cancelled' = cancelled \cup {id}
              /\ UNCHANGED <<now, backs, queue, ran, made, running, thrown>>

Shutdown == /\ ~thrown
            /\ running
            /\ running' = FALSE
            /\ UNCHANGED <<now, backs, queue, cancelled, ran, made, thrown>>

Tick == /\ now < MaxTime
        /\ now' = now + 1
        /\ UNCHANGED <<backs, queue, cancelled, ran, made, running, thrown>>

\* Date.now() is the wall clock: an administrator or NTP may set it back.
SetBack == /\ backs < MaxBacks
           /\ backs' = backs + 1
           /\ now' \in 0 .. now - 1
           /\ UNCHANGED <<queue, cancelled, ran, made, running, thrown>>

Next == \/ \E ms \in Delays : Add(ms)
        \/ Fire
        \/ Drain
        \/ \E id \in 1 .. made : Cancel(id)
        \/ Shutdown
        \/ Tick
        \/ SetBack

Spec == Init /\ [][Next]_vars

\* The clock advances and, while the interval is set, node calls fire().
Fairness == WF_vars(Tick) /\ WF_vars(Fire)

FairSpec == Spec /\ Fairness

-----------------------------------------------------------------------------
TypeOK == /\ now \in 0 .. MaxTime
          /\ backs \in 0 .. MaxBacks
          /\ queue \in Seq(Timer)
          /\ cancelled \subseteq 1 .. MaxTimers
          /\ ran \subseteq 1 .. MaxTimers
          /\ made \in 0 .. MaxTimers
          /\ running \in BOOLEAN
          /\ thrown \in BOOLEAN

\* The array stays ordered by fire time, timers of one instant in the order
\* they were added: two deferred mails of the same instant are retried first
\* come, first served, whichever of push() and splice() placed them.
SortedFifo ==
    \A i, j \in DOMAIN queue :
        i < j => \/ TimeGt(queue[j].at, queue[i].at)
                 \/ queue[i].at = queue[j].at /\ queue[i].id < queue[j].id

\* No deferred mail is forgotten and none is retried by a timer twice: while
\* the process lives, every timer made is in the array, or has run, or was
\* cancelled, and one in the array has not run.
NoneLost == ~thrown =>
    /\ 1 .. made = Ids(queue) \cup ran \cup (cancelled \cap 1 .. made)
    /\ Ids(queue) \cap ran = {}

\* The array of timers implements the set of timers: a sweep that pops only
\* the head of the array ends every timer that is due, wherever it is.  add()
\* ends in an exception only for a delay that is NaN, or behind such a timer.
Service == INSTANCE TimerService WITH pending <- {queue[i] : i \in DOMAIN queue}
ImplementsService == Service!Spec

\* Every deferred mail is retried in the end, unless its timer was cancelled,
\* the queue was shut down or the process threw, even if the clock is set back
\* on the way and other timers have no time: the head that is not due never
\* stands for ever before one that is.
EventuallyRuns ==
    \A id \in 1 .. MaxTimers :
        (\E i \in DOMAIN queue : queue[i].id = id /\ queue[i].at # NaN)
            ~> (id \in ran \cup cancelled \/ ~running \/ thrown)
=============================================================================
