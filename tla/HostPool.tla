------------------------------ MODULE HostPool ------------------------------
(***************************************************************************)
(* host_pool.js: the backends of forwarding_host_pool.  A backend that     *)
(* failed is out of use while a chain of timers and probes watches it;     *)
(* each failed() starts a chain of its own.                                *)
(***************************************************************************)
EXTENDS Naturals, Sequences, FiniteSets

CONSTANT Hosts
ASSUME HostPoolAssumption == IsFiniteSet(Hosts) /\ Hosts # {}

VARIABLES hosts,       \* the shuffled list
          last_i,      \* the place of the host handed out last
          dead_hosts,
          timers,      \* timers[h]: setTimeouts until a probe of h
          probes,      \* probes[h]: sockets connecting to h
          up           \* the backends that answer a probe

poolVars == <<hosts, last_i, dead_hosts, timers, probes, up>>

PoolInit ==
    /\ hosts = <<>>
    /\ last_i = 1
    /\ dead_hosts = {}
    /\ timers = [h \in Hosts |-> 0]
    /\ probes = [h \in Hosts |-> 0]
    /\ up = Hosts

\* new HostPool()
NewPool(listed) == hosts' \in {q \in [1..Cardinality(listed) -> listed] :
                                  \A i, j \in DOMAIN q : q[i] = q[j] => i = j}

\* get_host(): the place, after the last one, of the first host that is not
\* dead, and the next place when all are.
Place(i)     == ((last_i + i - 1) % Len(hosts)) + 1
AliveAfter   == {i \in 1..Len(hosts) : hosts[Place(i)] \notin dead_hosts}
\* The host after the last one, whether dead or not.
MistakeGetHost == Place(1)
GetHost ==
    IF AliveAfter = {} THEN Place(1)
    ELSE Place(CHOOSE i \in AliveAfter : \A j \in AliveAfter : i =< j)

\* failed(), called n times.
Failed(h, n) ==
    /\ dead_hosts' = IF n = 0 THEN dead_hosts ELSE dead_hosts \cup {h}
    /\ timers' = [timers EXCEPT ![h] = @ + n]

RetryFires(h) ==
    /\ timers[h] > 0
    /\ timers' = [timers EXCEPT ![h] = @ - 1]
    /\ probes' = [probes EXCEPT ![h] = @ + 1]
    /\ UNCHANGED <<hosts, last_i, dead_hosts, up>>

\* cb_if_alive
ProbeConnects(h) ==
    /\ probes[h] > 0 /\ h \in up
    /\ probes' = [probes EXCEPT ![h] = @ - 1]
    /\ dead_hosts' = dead_hosts \ {h}
    /\ UNCHANGED <<hosts, last_i, timers, up>>

\* The retry is forgotten.
MistakeStillDead(h) == UNCHANGED timers
\* cb_if_still_dead, after an error or 200 ms.
StillDead(h) == timers' = [timers EXCEPT ![h] = @ + 1]
ProbeFails(h) ==
    /\ probes[h] > 0 /\ h \notin up
    /\ probes' = [probes EXCEPT ![h] = @ - 1]
    /\ dead_hosts' = dead_hosts \cup {h}
    /\ StillDead(h)
    /\ UNCHANGED <<hosts, last_i, up>>

HostBack(h) ==
    /\ h \notin up
    /\ up' = up \cup {h}
    /\ UNCHANGED <<hosts, last_i, dead_hosts, timers, probes>>

PoolNext == \E h \in Hosts : RetryFires(h) \/ ProbeConnects(h) \/ ProbeFails(h) \/ HostBack(h)
\* What the pool does by itself: timers fire, and a socket connects or does not.
PoolStep(h) == RetryFires(h) \/ ProbeConnects(h) \/ ProbeFails(h)
=============================================================================
