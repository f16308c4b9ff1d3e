-------------------------------- MODULE Fcrdns -------------------------------
(***************************************************************************)
(* plugins/connect.fcrdns.js: the names of a remote address, and the       *)
(* addresses of those names, asked for all at once against a timer.        *)
(*                                                                         *)
(* The answers of all names are kept under the name the loop saw last.     *)
(***************************************************************************)
EXTENDS Naturals, Sequences, FiniteSets, SequencesExt

CONSTANTS Callers,     \* connections
          PtrNames,    \* sequences of names that an address may have
          BadTld, Generic,  \* names without a valid TLD, and names that hold the address
          RejectConfs  \* what the configuration rejects: sets of "no_rdns", "no_fcrdns", "invalid_tld", "generic_rdns"

VARIABLES file,    \* connect.fcrdns.ini
          reject,  \* plugin.cfg.reject, of all connections
          caller   \* caller[k]: a lookup_rdns hook, and the results of the connection

fcrdnsVars == <<file, reject, caller>>

FcrdnsInit ==
    /\ file = {"unread"}
    /\ reject = {}
    /\ caller = [k \in Callers |-> [at |-> "away", answer |-> "", timer |-> FALSE, ptr_names |-> <<>>, seen |-> 0,
                                    asked |-> {}, ips |-> "none", fcrdns |-> {}, iprev |-> "", resolved |-> {}]]

\* load_fcrdns_ini(), also when the file changes.
Loads ==
    /\ file = {"unread"}
    /\ file' \in RejectConfs
    /\ reject' = file'
    /\ UNCHANGED caller
Reloads ==
    /\ file # {"unread"}
    /\ reject' = file
    /\ UNCHANGED <<file, caller>>

\* do_next()
DoNext(r, answer) == IF r.answer # "" THEN r ELSE [r EXCEPT !.answer = answer, !.timer = FALSE]
Refuses(option, refusal) == IF option \in reject THEN refusal ELSE "CONT"

\* hook_lookup_rdns of an address that is not private; refresh_config(): the
\* whitelist of rdns_access changes the configuration.
HookLookupRdns(k) ==
    /\ file # {"unread"} /\ caller[k].at = "away"
    /\ caller' = [caller EXCEPT ![k].at = "ptr", ![k].timer = TRUE]
    /\ reject' \in {reject, reject \ {"no_rdns", "invalid_tld", "generic_rdns"}}
    /\ UNCHANGED file

Timeout(k) ==
    /\ caller[k].timer
    /\ caller' = [caller EXCEPT ![k] = DoNext(@, Refuses("no_rdns", "DENYSOFT"))]
    /\ UNCHANGED <<file, reject>>

\* handle_ptr_error()
PtrError(k) ==
    /\ caller[k].at = "ptr"
    /\ \E answer \in {"DENY", "DENYSOFT"} :
          caller' = [caller EXCEPT ![k] = DoNext([@ EXCEPT !.at = "over"], Refuses("no_rdns", answer))]
    /\ UNCHANGED <<file, reject>>

\* The loop over the names stops at one with a wrong TLD, if those are refused.
PtrAnswer(k) ==
    /\ caller[k].at = "ptr"
    /\ \E names \in PtrNames :
          LET wrong == {i \in DOMAIN names : names[i] \in BadTld}
              stop  == IF "invalid_tld" \in reject /\ wrong # {} THEN CHOOSE i \in wrong : \A j \in wrong : i =< j
                       ELSE Len(names) + 1
              asked == {names[i] : i \in {j \in DOMAIN names : j < stop /\ names[j] \notin BadTld}}
              r     == [caller[k] EXCEPT !.at = IF asked = {} THEN "over" ELSE "ips", !.ptr_names = names,
                                         !.seen = IF stop > Len(names) THEN Len(names) ELSE stop, !.asked = asked]
          IN caller' = [caller EXCEPT ![k] = IF stop =< Len(names) THEN DoNext(r, "DENY")
                                            ELSE IF asked = {} THEN DoNext(r, "CONT") ELSE r]
    /\ UNCHANGED <<file, reject>>

\* check_fcrdns(): the names in their order, until a generic one is refused;
\* only the last seen has addresses.  save_auth_results() when none is.
CheckFcrdns(r) ==
    LET names   == SubSeq(r.ptr_names, 1, r.seen)
        refused == {i \in DOMAIN names : names[i] \in Generic /\ names[i] \notin BadTld /\ "generic_rdns" \in reject}
        matched == r.ips = "match" /\ \A i \in refused : i >= Len(names)
        s == [r EXCEPT !.at = "over", !.fcrdns = IF matched THEN {Last(names)} ELSE {}]
    IN IF refused # {} THEN DoNext(s, "DENY")
       ELSE DoNext([s EXCEPT !.iprev = IF matched THEN "pass" ELSE "fail"], IF matched THEN "CONT" ELSE Refuses("no_fcrdns", "DENY"))

\* get_ips_by_host() of a name: the address of the connection (or one of its
\* network), others or none.
IpsAnswer(k) ==
    /\ caller[k].at = "ips"
    /\ \E n \in caller[k].asked, ips \in {"match", "other", "none"} :
          LET r == [caller[k] EXCEPT !.asked = @ \ {n}, !.ips = ips,
                                     !.resolved = IF ips = "match" THEN @ \cup {n} ELSE @] IN
          caller' = [caller EXCEPT ![k] = IF r.asked # {} THEN r ELSE CheckFcrdns(r)]
    /\ UNCHANGED <<file, reject>>

FcrdnsNext == \E k \in Callers : HookLookupRdns(k) \/ Timeout(k) \/ PtrError(k) \/ PtrAnswer(k) \/ IpsAnswer(k)
\* Timers fire, or are cleared.
FcrdnsFairness == WF_fcrdnsVars(\E k \in Callers : Timeout(k))

------------------------------------------------------------------------------
\* A connection is said to have forward-confirmed names only if one of its
\* names resolved to it, and is let in where that is required only then, or if
\* nothing was looked up to the end (connect.fcrdns.js, check_fcrdns()).
FcrdnsTrue ==
    \A k \in Callers :
        /\ caller[k].fcrdns # {} => caller[k].resolved # {}
        /\ caller[k].answer = "CONT" /\ caller[k].iprev = "pass" => caller[k].resolved # {}
FcrdnsWaits == \E k \in Callers : caller[k].at # "away" /\ caller[k].answer = ""
=============================================================================
