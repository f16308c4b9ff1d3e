---------------------------------- MODULE Spf --------------------------------
(***************************************************************************)
(* spf.js and plugins/spf.js: the sender policy of the HELO and the MAIL   *)
(* host.  A check runs the mechanisms of a record, then its modifiers;     *)
(* include and redirect open the record of another domain, and every       *)
(* lookup answers later.  One check may call back several times.           *)
(***************************************************************************)
EXTENDS Naturals, Sequences, SequencesExt

CONSTANTS SpfRecords,  \* by domain: [mechs, mods], sequences of terms; other domains have none
          HeloHost, MailHost,
          LIMIT,
          SpfConfs     \* [relaying, context, rejects]: rejects has <<scope, result>> pairs

VARIABLES spf,    \* what the plugin knows of the connection, and its hooks
          checks  \* the SPF objects, each with the frames of its records

spfVars == <<spf, checks>>

NoHook == [begun |-> FALSE, timed |-> FALSE, answer |-> ""]
SpfInit ==
    /\ spf = [conf |-> {}, helo |-> NoHook, mail |-> NoHook, notes |-> ""]
    /\ checks = <<>>

Connects ==
    /\ spf.conf = {}
    /\ \E conf \in SpfConfs : spf' = [spf EXCEPT !.conf = {conf}]
    /\ UNCHANGED checks
Conf == CHOOSE conf \in spf.conf : TRUE

------------------------------------------------------------------------------
(* spf.js: a check c works on the frame of the record it is in. *)

NewFrame(domain, count, via) == [domain |-> domain, mechs |-> <<>>, mods |-> <<>>, count |-> count, via |-> via]

\* new SPF() and its check_host()
NewCheck(hook, ip, domain) ==
    [hook |-> hook, ip |-> ip, frames |-> <<NewFrame(domain, 0, "")>>, been_there |-> {}, at |-> "txt",
     term |-> "", pending |-> 0, matched |-> FALSE, hits |-> {}, said |-> <<>>]

Frame(c) == Last(c.frames)
Counts(c) == [c EXCEPT !.frames[Len(c.frames)].count = @ + 1]
Deep(c)  == \E i \in DOMAIN c.frames : c.frames[i].via = "include"

\* return_const(); what hit is kept.
Const(q) == CASE q = "+" -> "Pass" [] q = "-" -> "Fail" [] q = "~" -> "SoftFail" [] q = "?" -> "Neutral"
Hit(c, q) == [c EXCEPT !.hits = @ \cup {[q |-> q, deep |-> Deep(c)]}]

\* Fail is handed on.
MistakeIncluded(r) == IF r \in {"SoftFail", "Neutral"} THEN "None" ELSE IF r = "None" THEN "PermError" ELSE r
\* mech_include: what an included record says of its parent.
Included(r) == CASE r = "Pass" -> "Pass"
                 [] r \in {"Fail", "SoftFail", "Neutral"} -> "None"
                 [] r = "TempError" -> "TempError"
                 [] OTHER -> "PermError"

Opens(c, domain, via) ==
    LET d == Counts(c) IN
    [d EXCEPT !.been_there = @ \cup {domain}, !.at = "txt",
              !.frames = Append(@, NewFrame(domain, Frame(d).count, via))]

RECURSIVE Chain(_, _)

\* The callback of the record that is open, with its result r.
Back(c, r) ==
    LET rest == Front(c.frames) IN
    CASE rest = <<>> -> [c EXCEPT !.at = "over", !.said = Append(@, r), !.frames = <<>>, !.been_there = {}, !.term = "",
                                  !.matched = FALSE]
      [] rest # <<>> /\ Frame(c).via = "include" -> Chain([c EXCEPT !.frames = rest], Included(r))
      [] OTHER -> Chain([c EXCEPT !.frames = [rest EXCEPT ![Len(rest)].count = Frame(c).count]], r)

MechAll(c, t)     == Chain(Hit(c, t.q), Const(t.q))
MechIp(c, t)      == IF c.ip \in t.arg THEN Chain(Hit(c, t.q), Const(t.q)) ELSE Chain(c, "None")
MechInclude(c, t) == IF t.arg \in c.been_there THEN Chain(c, "None") ELSE Opens(c, t.arg, "include")

\* The others ask a name server.
Mechanism(c, t) ==
    CASE t.mech = "all"     -> MechAll(c, t)
      [] t.mech = "ip"      -> MechIp(c, t)
      [] t.mech = "include" -> MechInclude(c, t)
      [] OTHER              -> [Counts(c) EXCEPT !.at = t.mech, !.term = t]

\* mod_redirect; mod_exp does nothing.
Modifier(c, t) ==
    IF t.mod # "redirect" \/ t.arg \in c.been_there THEN Chain(c, "None") ELSE Opens(c, t.arg, "redirect")

\* mech_chain_caller and mod_chain_caller, told the result of the last term.
Chain(c, r) ==
    LET f == Frame(c)
        n == Len(c.frames) IN
    CASE f.count > LIMIT -> Back(c, "PermError")
      [] f.count =< LIMIT /\ r # "None" -> Back(c, r)
      [] f.count =< LIMIT /\ r = "None" /\ f.mechs # <<>> -> Mechanism([c EXCEPT !.frames[n].mechs = Tail(@)], Head(f.mechs))
      [] f.count =< LIMIT /\ r = "None" /\ f.mechs = <<>> /\ f.mods # <<>> ->
            Modifier([c EXCEPT !.frames[n].mods = Tail(@)], Head(f.mods))
      [] OTHER -> Back(c, "Neutral")

\* The TXT records: an error, none that is for SPF, two or one with a wrong
\* term, or the one that is run.
TxtAnswers(c) ==
    {Back(c, r) : r \in {"None", "TempError", "PermError"}} \cup
    (IF Frame(c).domain \notin DOMAIN SpfRecords THEN {}
     ELSE LET rec == SpfRecords[Frame(c).domain]
              n == Len(c.frames) IN
          {Chain([c EXCEPT !.frames[n].mechs = rec.mechs, !.frames[n].mods = rec.mods], "None")})

Matches(c) == Chain(Hit(c, c.term.q), Const(c.term.q))
\* mech_exists and mech_a.
NameAnswers(c) == {Matches(c)} \cup {Chain(c, r) : r \in {"None", "TempError"}}
\* mech_ptr: the names of the address and, at once, the addresses of those names;
\* it has a result when the last has, and hides their errors.
PtrAnswers(c) == {Matches(c)} \cup {Chain(c, r) : r \in {"None", "PermError"}}

\* mech_mx: the names, and then an answer for each.
MxAnswers(c) == {Chain(c, r) : r \in {"None", "TempError", "PermError"}} \cup
                {[c EXCEPT !.at = "mxes", !.pending = n, !.matched = FALSE] : n \in 1..2}
\* An error calls back at once, and moves no chain on: TempError, or PermError
\* over the limit, is the result of every record around.  The last of the other
\* answers calls back again, and what it says may move the chains on.
AddressAnswers(c) ==
    LET d == [c EXCEPT !.pending = @ - 1]
        Ends(e) == IF e.pending > 0 THEN e ELSE IF e.matched THEN Matches(e) ELSE Chain(e, "None")
        early == Chain(d, "TempError") IN
    {IF d.pending = 0 THEN early ELSE [d EXCEPT !.said = early.said]}
        \cup {Ends([d EXCEPT !.matched = @ \/ m]) : m \in BOOLEAN}

Answers(c) == CASE c.at = "txt" -> TxtAnswers(c)
                [] c.at \in {"a", "exists"} -> NameAnswers(c)
                [] c.at = "ptr" -> PtrAnswers(c)
                [] c.at = "mx" -> MxAnswers(c)
                [] c.at = "mxes" -> AddressAnswers(c)

------------------------------------------------------------------------------
(* plugins/spf.js *)

\* hook_helo, for an address that is not private and a name that is no literal.
HookHelo ==
    /\ spf.conf # {} /\ ~spf.helo.begun
    /\ spf' = [spf EXCEPT !.helo.begun = TRUE]
    /\ checks' = Append(checks, NewCheck("helo", "client", HeloHost))

\* return_results()
Result(scope, r) == IF <<scope, r>> \notin Conf.rejects THEN "CONT" ELSE IF r = "TempError" THEN "DENYSOFT" ELSE "DENY"

\* hook_mail: the null sender has the result of HELO.
HookMail ==
    /\ spf.helo.answer # "" /\ ~spf.mail.begun
    /\ \/ /\ spf' = [spf EXCEPT !.mail.begun = TRUE,
                                !.mail.answer = IF spf.notes = "" THEN "CONT" ELSE Result("helo", spf.notes)]
          /\ UNCHANGED checks
       \/ /\ spf' = [spf EXCEPT !.mail.begun = TRUE]
          /\ checks' = Append(checks, NewCheck("mail", "client", MailHost))

\* The callbacks of the hooks; a hook that timed out hears nothing.
HeloSays(r) == IF spf.helo.timed THEN spf ELSE [spf EXCEPT !.notes = r, !.helo.answer = IF @ = "" THEN "CONT" ELSE @]
MailSays(answer) == IF spf.mail.timed THEN spf ELSE [spf EXCEPT !.mail.answer = IF @ = "" THEN answer ELSE @]

\* A relay's own address is tried when the client's does not pass, and the
\* address may not be known.
Again(c, r) == c.hook = "mail" /\ c.ip = "client" /\ Conf.relaying /\ Conf.context = "myself" /\ r # "Pass"

Lookup(i) ==
    /\ checks[i].at # "over"
    /\ \E c \in Answers(checks[i]) :
          LET r == Last(c.said)
              then == [checks EXCEPT ![i] = c] IN
          CASE c.said = checks[i].said -> checks' = then /\ UNCHANGED spf
            [] c.said # checks[i].said /\ c.hook = "helo" -> checks' = then /\ spf' = HeloSays(r)
            [] c.said # checks[i].said /\ Again(c, r) ->
                  \/ checks' = Append(then, NewCheck("mail", "public", MailHost)) /\ UNCHANGED spf
                  \/ checks' = then /\ spf' = MailSays("CONT")
            [] OTHER -> checks' = then /\ spf' = MailSays(Result("mfrom", r))

\* The timer of a hook, which its first callback clears.
HeloTimeout ==
    /\ spf.helo.begun /\ spf.helo.answer = ""
    /\ spf' = [spf EXCEPT !.helo.timed = TRUE, !.helo.answer = "CONT"]
    /\ UNCHANGED checks
MailTimeout ==
    /\ spf.mail.begun /\ spf.mail.answer = ""
    /\ spf' = [spf EXCEPT !.mail.timed = TRUE, !.mail.answer = "CONT"]
    /\ UNCHANGED checks

SpfNext == HookHelo \/ HookMail \/ HeloTimeout \/ MailTimeout \/ \E i \in DOMAIN checks : Lookup(i)
SpfFairness == WF_spfVars(HeloTimeout \/ MailTimeout)

------------------------------------------------------------------------------
Said(r) == \E i \in DOMAIN checks : r \in ToSet(checks[i].said)

\* What a check says was hit: Pass by a "+" term anywhere, and Fail, SoftFail
\* by a term of a record that is not included, whatever lookups answered late
\* or twice; and a hook refuses for what one of its checks said (spf.js,
\* mech_include() and mech_chain_caller).
SpfTrue ==
    /\ \A i \in DOMAIN checks, r \in {"Pass", "Fail", "SoftFail"} : r \in ToSet(checks[i].said) =>
          \E h \in checks[i].hits : Const(h.q) = r /\ (r = "Pass" \/ ~h.deep)
    /\ spf.mail.answer \in {"DENY", "DENYSOFT"} =>
          \E scoped \in Conf.rejects : Said(scoped[2]) /\ (scoped[2] = "TempError" <=> spf.mail.answer = "DENYSOFT")
SpfWaits == \E hook \in {spf.helo, spf.mail} : hook.begun /\ hook.answer = ""
=============================================================================
