-------------------------------- MODULE Limit -------------------------------
(***************************************************************************)
(* plugins/limit.js: how many connections a remote host has, counted in a  *)
(* store that answers later (haraka-nosql), and the hosts that have too    *)
(* many turned away.  The count may be off: it expires, and a connection   *)
(* that left before it was counted is counted down.  What a callback finds *)
(* below its least value is set to 1.  A connection may leave while the    *)
(* store has not answered: it does what it was asked in order.             *)
(***************************************************************************)
EXTENDS Integers, FiniteSets

CONSTANTS Visits,     \* connections
          Origin,     \* Origin[v]: its remote host
          MaxVisits,  \* concurrency.max, or what history makes of it
          MaxExpires  \* bound: counts that expire, and answers that are errors

ASSUME LimitAssumption == IsFiniteSet(Visits)

VARIABLES visit,    \* visit[v]: how far it came, and its hook disconnect; what the store answered each
          stored,   \* stored[o]: the count of host o
          resets,   \* resets[o]: set(key, 1) on the way to the store
          expires

limitVars == <<visit, stored, resets, expires>>

Origins == {Origin[v] : v \in Visits}

LimitInit ==
    /\ visit = [v \in Visits |-> [at |-> "away", limit |-> 0, down |-> "none", left |-> 0,
                                 counted |-> FALSE, odd |-> FALSE]]
    /\ stored = [o \in Origins |-> 0]
    /\ resets = [o \in Origins |-> 0]
    /\ expires = 0

To(v, at) == visit' = [visit EXCEPT ![v].at = at]

\* incr_concurrency, of the hook connect_init; a plugin before it may have
\* ended the connection.
Arrives(v) ==
    /\ visit[v].at = "away"
    /\ To(v, "incr") \/ To(v, "skipped")
    /\ UNCHANGED <<stored, resets, expires>>

\* The store adds, and its answer comes back later.
Incr(v) ==
    /\ visit[v].at = "incr"
    /\ LET n == stored[Origin[v]] + 1 IN
       /\ stored' = [stored EXCEPT ![Origin[v]] = n]
       /\ visit' = [visit EXCEPT ![v].at = "counted", ![v].limit = n, ![v].counted = TRUE]
    /\ UNCHANGED <<resets, expires>>
Decr(v) ==
    /\ visit[v].down = "decr" /\ visit[v].at # "incr"
    /\ LET n == stored[Origin[v]] - 1 IN
       /\ stored' = [stored EXCEPT ![Origin[v]] = n]
       /\ visit' = [visit EXCEPT ![v].down = "uncounted", ![v].left = n, ![v].counted = FALSE]
    /\ UNCHANGED <<resets, expires>>

\* Only the count of a new connection is repaired.
MistakeRepairs(v, n, least) ==
    resets' = [resets EXCEPT ![Origin[v]] = @ + IF n < least /\ least = 1 THEN 1 ELSE 0]
\* The answer: a count that cannot be is repaired.
Repairs(v, n, least) == resets' = [resets EXCEPT ![Origin[v]] = @ + IF n < least THEN 1 ELSE 0]

\* The next() of a connection that left goes nowhere.
AnswersIncr(v) ==
    /\ visit[v].at = "counted"
    /\ Repairs(v, visit[v].limit, 1)
    /\ To(v, IF visit[v].down = "none" THEN "check" ELSE "left")
    /\ UNCHANGED <<stored, expires>>

\* The store answers no count: the check that follows compares with NaN.
NoCount(v) ==
    /\ visit[v].at = "incr" /\ expires < MaxExpires
    /\ expires' = expires + 1
    /\ visit' = [visit EXCEPT ![v].at = IF visit[v].down = "none" THEN "blind" ELSE "left", ![v].odd = TRUE]
    /\ UNCHANGED <<stored, resets>>

Sets(o) ==
    /\ resets[o] > 0
    /\ resets' = [resets EXCEPT ![o] = @ - 1]
    /\ stored' = [stored EXCEPT ![o] = 1]
    /\ UNCHANGED <<visit, expires>>

\* check_concurrency: a host with too many is told so after a delay.
Check(v) ==
    /\ visit[v].at \in {"check", "blind"}
    /\ visit' = [visit EXCEPT ![v].at = IF @ = "check" /\ visit[v].limit =< MaxVisits THEN "open" ELSE "delay",
                              ![v].limit = 0]
    /\ UNCHANGED <<stored, resets, expires>>

Denied(v) ==
    /\ visit[v].at = "delay"
    /\ To(v, "denied")
    /\ UNCHANGED <<stored, resets, expires>>

\* decr_concurrency, of the hook disconnect, whatever happened before and
\* whatever hook of the connection it cuts short.
Leaves(v) ==
    /\ visit[v].at # "away" /\ visit[v].down = "none"
    /\ visit' = [visit EXCEPT ![v].at = IF @ \in {"incr", "counted"} THEN @ ELSE "left",
                              ![v].down = "decr", ![v].odd = @ \/ visit[v].at = "skipped"]
    /\ UNCHANGED <<stored, resets, expires>>

AnswersDecr(v) ==
    /\ visit[v].down = "uncounted"
    /\ Repairs(v, visit[v].left, 0)
    /\ visit' = [visit EXCEPT ![v].down = "gone", ![v].left = 0]
    /\ UNCHANGED <<stored, expires>>

\* concurrency.reset seconds are over.
Expires(o) ==
    /\ stored[o] # 0 /\ expires < MaxExpires
    /\ expires' = expires + 1
    /\ stored' = [stored EXCEPT ![o] = 0]
    /\ UNCHANGED <<visit, resets>>

Goes == \/ \E v \in Visits : Incr(v) \/ Decr(v) \/ AnswersIncr(v) \/ Check(v) \/ Denied(v) \/ AnswersDecr(v)
        \/ \E o \in Origins : Sets(o)
LimitNext ==
    \/ Goes
    \/ \E v \in Visits : NoCount(v) \/ Leaves(v)
    \/ \E o \in Origins : Expires(o)

LimitSpec == LimitInit /\ [][(\E v \in Visits : Arrives(v)) \/ LimitNext]_limitVars

\* The store answers, and hooks end.
LimitFairness == WF_limitVars(Goes)

------------------------------------------------------------------------------
Counted(o) == {v \in Visits : Origin[v] = o /\ visit[v].counted}
Harmless(o) == expires = 0 /\ \A v \in Visits : Origin[v] = o => ~visit[v].odd

\* The count is the number of connections that were counted and not counted
\* down, as long as it did not expire and none was counted down in vain; and
\* however it went wrong, no count is below 0 with no repair under way
\* (limit.js:224, decr_concurrency).
CountsExact ==
    \A o \in Origins :
        /\ Harmless(o) => stored[o] = Cardinality(Counted(o))
        /\ stored[o] < 0 => \/ resets[o] > 0
                            \/ \E v \in Visits : /\ Origin[v] = o
                                                 /\ \/ visit[v].at = "counted" /\ visit[v].limit < 0
                                                    \/ visit[v].down = "uncounted" /\ visit[v].left < 0

\* A hook that waits for the store or for its delay; that of a connection that
\* left is over.
LimitWaits ==
    \E v \in Visits : \/ visit[v].at \in {"incr", "counted", "check", "blind", "delay"} /\ visit[v].down = "none"
                      \/ visit[v].down \in {"decr", "uncounted"}
=============================================================================
