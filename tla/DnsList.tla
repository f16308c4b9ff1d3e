------------------------------- MODULE DnsList -------------------------------
(***************************************************************************)
(* plugins/dns_list_base.js, dnsbl.js and dnswl.js: the address of a       *)
(* connection is looked up in the zones that are in use.  A zone that      *)
(* times out or gives an answer no list gives is put out of use, until the *)
(* periodic check finds it well; checks and connections go on at once.     *)
(***************************************************************************)
EXTENDS Naturals, Sequences, FiniteSets

CONSTANTS DnsZones,   \* of dnsbl.ini or dnswl.ini
          Remotes,    \* connections
          ListConfs,  \* [search, reject, periodic]: search is "first", "all" or "white"
          MaxRounds    \* bound: periodic checks

VARIABLES conf,            \* the configuration; its zones are all in use at first
          in_use,          \* plugin.zones
          disabled_zones,
          remote,          \* remote[k]: its connect hook
          tests,           \* tests[z]: lookups of the test addresses of z
          rounds

listVars == <<conf, in_use, disabled_zones, remote, tests, rounds>>

ListInit ==
    /\ conf = {}
    /\ in_use = {} /\ disabled_zones = {}
    /\ remote = [k \in Remotes |-> [at |-> "away", asked |-> {}, ran_cb |-> FALSE, hits |-> {}, answers |-> <<>>]]
    /\ tests = [z \in DnsZones |-> [none |-> 0, point |-> 0]]
    /\ rounds = 0

\* register(): with periodic_checks, check_zones() at once.
Register ==
    /\ conf = {}
    /\ \E c \in ListConfs :
          /\ conf' = {c}
          /\ IF c.periodic THEN tests' = [z \in DnsZones |-> [tests[z] EXCEPT !.none = 1]] ELSE UNCHANGED tests
    /\ in_use' = DnsZones
    /\ UNCHANGED <<disabled_zones, remote, rounds>>
Conf == CHOOSE c \in conf : TRUE

\* check_zones(): one that was put out of use and is in use again is tested twice.
CheckZones ==
    /\ conf # {} /\ Conf.periodic /\ rounds < MaxRounds
    /\ rounds' = rounds + 1
    /\ tests' = [z \in DnsZones |-> [tests[z] EXCEPT !.none = @ + Cardinality({s \in {in_use, disabled_zones} : z \in s})]]
    /\ UNCHANGED <<conf, in_use, disabled_zones, remote>>

\* load_config() of dnsbl, when its file changes.
Reload ==
    /\ conf # {} /\ Conf.search # "white" /\ in_use # DnsZones
    /\ in_use' = DnsZones
    /\ UNCHANGED <<conf, disabled_zones, remote, tests, rounds>>

------------------------------------------------------------------------------
\* A zone that is put out of use is forgotten.
MistakeDisable(z) == in_use' = in_use \ {z} /\ UNCHANGED disabled_zones
\* disable_zone(), which periodic checks allow.
Disable(z) ==
    IF ~Conf.periodic \/ z \notin in_use THEN UNCHANGED <<in_use, disabled_zones>>
    ELSE in_use' = in_use \ {z} /\ disabled_zones' = disabled_zones \cup {z}

\* lookup(): what a zone answers.
Outcomes == {"listed", "unlisted", "bogus", "timeout", "error"}
Looked(z, outcome) == IF outcome \in {"bogus", "timeout"} THEN Disable(z) ELSE UNCHANGED <<in_use, disabled_zones>>

\* The addresses no zone may list, and all must.
TestNone(z) ==
    /\ tests[z].none > 0
    /\ \E outcome \in Outcomes :
          LET off == outcome \in {"listed", "timeout"} IN
          /\ IF off THEN Disable(z) ELSE Looked(z, outcome)
          /\ tests' = [tests EXCEPT ![z].none = @ - 1, ![z].point = @ + IF off THEN 0 ELSE 1]
    /\ UNCHANGED <<conf, remote, rounds>>
TestPoint(z) ==
    /\ tests[z].point > 0
    /\ \/ in_use' = in_use \cup {z} /\ UNCHANGED disabled_zones
       \/ Disable(z)
    /\ tests' = [tests EXCEPT ![z].point = @ - 1]
    /\ UNCHANGED <<conf, remote, rounds>>

------------------------------------------------------------------------------
\* connect_first, connect_multi and hook_connect of dnswl.
HookConnect(k) ==
    /\ conf # {} /\ remote[k].at = "away"
    /\ remote' = [remote EXCEPT ![k] = IF in_use = {} THEN [@ EXCEPT !.at = "skipped", !.answers = <<"CONT">>]
                                       ELSE [@ EXCEPT !.at = "asks", !.asked = in_use]]
    /\ UNCHANGED <<conf, in_use, disabled_zones, tests, rounds>>

Verdict == IF Conf.search = "white" THEN "OK" ELSE IF Conf.reject THEN "DENY" ELSE "CONT"
RunCb(r, answer) == IF r.ran_cb THEN r ELSE [r EXCEPT !.ran_cb = TRUE, !.answers = Append(@, answer)]

\* first() and multi(): one more zone, and the end when it is the last one.
Heard(r, z, listed) ==
    LET s == [r EXCEPT !.asked = @ \ {z}, !.hits = IF listed THEN @ \cup {z} ELSE @] IN
    IF Conf.search # "all" /\ listed THEN RunCb(s, Verdict) ELSE s
\* Nothing is said when the last zone was heard.
MistakeOver(r) == IF r.asked # {} THEN r ELSE [r EXCEPT !.at = "over"]
Over(r) ==
    IF r.asked # {} THEN r
    ELSE RunCb([r EXCEPT !.at = "over"], IF Conf.search = "all" /\ r.hits # {} THEN Verdict ELSE "CONT")

ZoneAnswers(k) ==
    /\ \E z \in remote[k].asked, outcome \in Outcomes :
          /\ Looked(z, outcome)
          /\ remote' = [remote EXCEPT ![k] = Over(Heard(@, z, outcome = "listed"))]
    /\ UNCHANGED <<conf, tests, rounds>>

ListNext ==
    \/ CheckZones \/ Reload
    \/ \E z \in DnsZones : TestNone(z) \/ TestPoint(z)
    \/ \E k \in Remotes : HookConnect(k) \/ ZoneAnswers(k)
\* Lookups end: they time out.
ListFairness == WF_listVars(\E k \in Remotes : ZoneAnswers(k))

------------------------------------------------------------------------------
\* A connection is refused (or waved through) only for a zone that lists it,
\* and goes on only when every zone it was looked up in was heard and none
\* listed it; and no zone gets lost between those in use and those that are
\* tested again (dns_list_base.js, multi(), first() and disable_zone()).
ListTrue ==
    /\ \A k \in Remotes : \A i \in DOMAIN remote[k].answers :
          /\ remote[k].answers[i] # "CONT" => remote[k].hits # {}
          /\ remote[k].answers[i] = "CONT" /\ Verdict # "CONT" => remote[k].hits = {} /\ remote[k].asked = {}
    /\ conf # {} => in_use \cup disabled_zones = DnsZones
ListOnce  == \A k \in Remotes : Len(remote[k].answers) =< 1
ListWaits == \E k \in Remotes : remote[k].at # "away" /\ remote[k].answers = <<>>
=============================================================================
