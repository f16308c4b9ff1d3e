--------------------------------- MODULE Uribl -------------------------------
(***************************************************************************)
(* plugins/data.uribl.js: names of a connection and of its message, looked *)
(* up in lists.  The lookups of a hook race one timer, and those that are  *)
(* late race the lookups that follow.                                      *)
(***************************************************************************)
EXTENDS Naturals, Sequences, FiniteSets

CONSTANTS Uris, Zones,         \* what may be looked up, and the lists
          max_uris_per_list

VARIABLES zones,   \* the lists of data.uribl.ini, which each hook reads again
          uribl,   \* the hooks of the connection, and what they answered
          run,     \* the last call of do_lookups()
          late     \* the call before it

uriblVars == <<zones, uribl, run, late>>

Unread == {"unread"}
Order  == <<"rdns", "helo", "envfrom", "data_post">>
Parts  == <<"from", "replyto", "msgid", "body">>

NewRun(queries) == [queries |-> queries, pending |-> queries, called_next |-> FALSE, said |-> "", timed |-> FALSE, found |-> FALSE]

UriblInit ==
    /\ zones = Unread
    /\ uribl = [hook |-> 0, part |-> 0, asks |-> FALSE, answers |-> <<>>]
    /\ run  = [NewRun({}) EXCEPT !.called_next = TRUE]
    /\ late = run

Reads ==
    /\ zones = Unread
    /\ zones' \in {{}, Zones}
    /\ UNCHANGED <<uribl, run, late>>

\* The next() of do_lookups(): of a message, the next part is looked up.
Next(u, answer) ==
    IF answer = "CONT" /\ u.part \in 1..(Len(Parts) - 1) THEN [u EXCEPT !.part = @ + 1, !.asks = TRUE]
    ELSE [u EXCEPT !.part = 0, !.asks = FALSE, !.answers = Append(@, answer)]

\* A hook; without lists load_uri_config() answers it, and it goes on.
Hook ==
    /\ zones # Unread /\ ~uribl.asks /\ uribl.hook < Len(Order)
    /\ \A i \in DOMAIN uribl.answers : uribl.answers[i] = "CONT"
    /\ run.called_next
    /\ uribl' = [hook |-> uribl.hook + 1, part |-> IF Order[uribl.hook + 1] = "data_post" THEN 1 ELSE 0, asks |-> TRUE,
                 answers |-> IF zones = {} THEN <<"CONT">> ELSE <<>>]
    /\ UNCHANGED <<zones, run, late>>

------------------------------------------------------------------------------
(* do_lookups() *)

\* Of each list as many as are wanted, until there is one more than the most.
Queries == {q \in SUBSET (Uris \X zones) : \A z \in zones : Cardinality({p \in q : p[2] = z}) =< max_uris_per_list + 1}

DoLookups ==
    /\ uribl.asks
    /\ \E queries \in Queries :
          IF queries = {} THEN uribl' = Next(uribl, "CONT") /\ UNCHANGED <<run, late>>
          ELSE uribl' = [uribl EXCEPT !.asks = FALSE] /\ run' = NewRun(queries) /\ late' = run
    /\ UNCHANGED zones

\* call_next()
Says(r, answer) == IF r.called_next THEN r ELSE [r EXCEPT !.called_next = TRUE, !.said = answer]

\* A name is reported after the hook was concluded.
MistakeAnswers(r, q) ==
    LET s == [r EXCEPT !.pending = @ \ {q}]
        e == IF s.pending = {} THEN Says(s, "CONT") ELSE s IN {e, Says([e EXCEPT !.found = TRUE], "DENY")}
\* A lookup ends: not listed, not valid (validate, bitmask), or listed; then
\* conclude_if_no_pending().
Answers(r, q) ==
    LET s == [r EXCEPT !.pending = @ \ {q}]
        Concludes(e) == IF e.pending = {} THEN Says(e, "CONT") ELSE e IN
    {Concludes(s), Concludes(Says([s EXCEPT !.found = TRUE], "DENY"))}

Told(r) == IF r.called_next /\ ~run.called_next THEN Next(uribl, r.said) ELSE uribl

Answer ==
    /\ \E q \in run.pending : \E r \in Answers(run, q) : run' = r /\ uribl' = Told(r)
    /\ UNCHANGED <<zones, late>>
LateAnswer ==
    /\ \E q \in late.pending : late' \in Answers(late, q)
    /\ UNCHANGED <<zones, uribl, run>>
Timeout ==
    /\ ~run.called_next
    /\ LET r == [Says(run, "CONT") EXCEPT !.timed = TRUE] IN run' = r /\ uribl' = Told(r)
    /\ UNCHANGED <<zones, late>>

UriblNext == Hook \/ DoLookups \/ Answer \/ LateAnswer \/ Timeout
UriblFairness == WF_uriblVars(DoLookups \/ Timeout)

------------------------------------------------------------------------------
\* A hook refuses only for a name that is listed, and lets pass only when all
\* lookups ended and none was, or at its timeout (data.uribl.js, do_lookups()).
UriblTrue ==
    /\ run.said = "DENY" => run.found
    /\ run.said = "CONT" /\ ~run.timed => run.pending = {} /\ ~run.found
UriblOnce  == zones # {} => Len(uribl.answers) =< 1
UriblWaits == uribl.asks \/ ~run.called_next
=============================================================================
