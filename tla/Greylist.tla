------------------------------- MODULE Greylist -----------------------------
(***************************************************************************)
(* plugins/greylist.js: recipients are deferred until their tuple (host,   *)
(* sender, recipient) is tried again, later than the black period and      *)
(* within the grey one; the host is white then.  The records are in a      *)
(* Redis store, which answers later and drops them when they expire, so    *)
(* connections work on what they read before.                              *)
(***************************************************************************)
EXTENDS Integers, FiniteSets

CONSTANTS Tuples,                \* of one host: a recipient of each
          Mails,                 \* transactions of that host
          Black, Grey, White,    \* the periods
          MaxClock,              \* bound of the clock
          MaxLookups             \* bound: recipients the store is asked about

VARIABLES grey,   \* grey[t]: the record of a tuple
          white,  \* the record of the host
          mail,   \* mail[s]: a transaction, and where its RCPT hook is
          clock,
          tried,  \* tried[t]: when process_tuple() had the tuple, in the last Grey seconds
          lookups, \* recipients the store was asked about
          missed   \* the store failed when it was asked about a host that is white, or
                   \* the process ended before a record that was promoted had its time

greyVars == <<grey, white, mail, clock, tried, lookups, missed>>

Never    == -1
NoRecord == [there |-> FALSE, created |-> Never, updated |-> Never, until |-> Never]

NoMail   == [on |-> FALSE, skip |-> FALSE, pass |-> FALSE, at |-> "", rcpt |-> {}, read |-> NoRecord, stamp |-> 0]

GreyInit ==
    /\ grey = [t \in Tuples |-> NoRecord]
    /\ white = NoRecord
    /\ mail = [s \in Mails |-> NoMail]
    /\ clock = 0
    /\ tried = [t \in Tuples |-> {}]
    /\ lookups = 0
    /\ missed = FALSE

\* ip_in_list() and addr_in_list() of the configuration, and process_skip_rules():
\* they may say anything of a host and an address.
InList    == BOOLEAN
SkipRules == BOOLEAN

HookMail(s) ==
    /\ ~mail[s].on /\ mail[s].at = ""
    /\ \E listed \in InList, why \in SkipRules : mail' = [mail EXCEPT ![s].on = TRUE, ![s].skip = listed \/ why]
    /\ UNCHANGED <<grey, white, clock, tried, lookups, missed>>

\* should_skip_check() and was_whitelisted_in_session()
Through(s) == mail[s].skip \/ mail[s].pass

\* hook_rcpt_ok: a recipient of the whitelist has all after it skipped.
HookRcptOk(s, t) ==
    /\ mail[s].on /\ mail[s].at = "" /\ t \notin mail[s].rcpt
    /\ \/ /\ Through(s)
          /\ mail' = [mail EXCEPT ![s].rcpt = @ \cup {t}]
          /\ UNCHANGED lookups
       \/ /\ ~Through(s) /\ TRUE \in InList
          /\ mail' = [mail EXCEPT ![s].rcpt = @ \cup {t}, ![s].skip = TRUE]
          /\ UNCHANGED lookups
       \/ /\ ~Through(s) /\ lookups < MaxLookups
          /\ mail' = [mail EXCEPT ![s].rcpt = @ \cup {t}, ![s].at = "white?", ![s].read = [tuple |-> t],
                                  ![s].stamp = clock]
          /\ lookups' = lookups + 1
    /\ UNCHANGED <<grey, white, clock, tried, missed>>

------------------------------------------------------------------------------
(* One action for each answer of the store, which comes to a transaction that *)
(* may be gone.                                                                *)

To(s, at, rec) == mail' = [mail EXCEPT ![s].at = at, ![s].read = rec, ![s].stamp = clock]
Let(s, pass)   == mail' = [mail EXCEPT ![s].at = "", ![s].read = NoRecord, ![s].stamp = 0, 
                                         ![s].pass = mail[s].on /\ (@ \/ pass)]
\* An exception that nothing catches: the process ends, and another is started.
Throws == /\ mail' = [s \in Mails |-> NoMail]
          /\ missed' = (missed \/ \E s \in Mails : mail[s].at = "expire")
Asked(s) == mail[s].read.tuple
Rec(r, t) == [tuple |-> t, there |-> r.there, created |-> r.created]

\* Mistake: a record that is about to expire is used.
MistakeWhiteRead(s) ==
    /\ mail[s].at = "white?"
    /\ \/ white.there /\ To(s, "touch", mail[s].read) /\ UNCHANGED missed
       \/ To(s, "grey?", mail[s].read) /\ missed' = (missed \/ white.there)
    /\ UNCHANGED <<grey, white, clock, tried, lookups>>

\* db_lookup of the host; an error is no record.  One about to expire is not used.
\* process_tuple() asks for the notes of the transaction (craft_hostid), and
\* throws without one.
WhiteRead(s) ==
    /\ mail[s].at = "white?"
    /\ \/ white.there /\ white.updated + White - 2 < clock /\ Let(s, FALSE) /\ UNCHANGED missed
       \/ white.there /\ white.updated + White - 2 >= clock /\ To(s, "touch", mail[s].read) /\ UNCHANGED missed
       \/ mail[s].on /\ To(s, "grey?", mail[s].read) /\ missed' = (missed \/ white.there)
       \/ ~mail[s].on /\ Throws
    /\ UNCHANGED <<grey, white, clock, tried, lookups>>

\* update_white_record
WhiteTouched(s) ==
    /\ mail[s].at = "touch"
    /\ white' = [white EXCEPT !.there = TRUE, !.updated = mail[s].stamp, !.until = clock + White]
    /\ Let(s, TRUE)
    /\ UNCHANGED <<grey, clock, tried, lookups, missed>>

\* The black period is over one second too early.
MistakeWaited(r) == r.there /\ r.created # Never /\ r.created + Black =< clock /\ r.created + Grey >= clock
\* process_tuple: db_lookup of the tuple; promote_to_white() has a key to make.
Waited(r) == r.there /\ r.created # Never /\ r.created + Black < clock /\ r.created + Grey >= clock
GreyRead(s) ==
    /\ mail[s].at = "grey?"
    /\ \E r \in {grey[Asked(s)], NoRecord} :
          \/ ~(Waited(r) /\ ~mail[s].on)
             /\ To(s, IF Waited(r) THEN "promote" ELSE IF r.there THEN "again" ELSE "create", Rec(r, Asked(s)))
             /\ UNCHANGED missed
          \/ Waited(r) /\ ~mail[s].on /\ Throws
    /\ tried' = [tried EXCEPT ![Asked(s)] = @ \cup {clock}]
    /\ UNCHANGED <<grey, white, clock, lookups>>

\* update_grey: a new record, or a later time in the old one - which may be
\* gone, and is then a record without a creation and without an end.
GreyCreated(s) ==
    /\ mail[s].at = "create"
    /\ grey' = [grey EXCEPT ![Asked(s)] = [there |-> TRUE, created |-> mail[s].stamp, updated |-> mail[s].stamp,
                                           until |-> clock + Grey]]
    /\ Let(s, FALSE)
    /\ UNCHANGED <<white, clock, tried, lookups, missed>>
GreyAgain(s) ==
    /\ mail[s].at = "again"
    /\ grey' = [grey EXCEPT ![Asked(s)].there = TRUE, ![Asked(s)].updated = mail[s].stamp]
    /\ Let(s, FALSE)
    /\ UNCHANGED <<white, clock, tried, lookups, missed>>

\* promote_to_white: hmset, and then expire.
Promoted(s) ==
    /\ mail[s].at = "promote"
    /\ white' = [white EXCEPT !.there = TRUE, !.created = mail[s].read.created, !.updated = mail[s].stamp]
    /\ mail' = [mail EXCEPT ![s].at = "expire", ![s].stamp = clock]
    /\ UNCHANGED <<grey, clock, tried, lookups, missed>>
ExpireSet(s) ==
    /\ mail[s].at = "expire"
    /\ white' = [white EXCEPT !.until = IF white.there THEN clock + White ELSE Never]
    /\ Let(s, white.there)
    /\ UNCHANGED <<grey, clock, tried, lookups, missed>>

\* A hangup does not wait for the store.
MailEnds(s) ==
    /\ mail[s].on
    /\ mail' = [mail EXCEPT ![s] = [@ EXCEPT !.on = FALSE, !.skip = FALSE, !.pass = FALSE, !.rcpt = {}]]
    /\ UNCHANGED <<grey, white, clock, tried, lookups, missed>>

\* The error of a write is thrown (update_grey, promote_to_white, and
\* update_white_record), whether or not the store has done it.
WriteFails ==
    /\ \E s \in Mails : mail[s] # NoMail
    /\ Throws
    /\ UNCHANGED <<grey, white, clock, tried, lookups>>

\* A record is dropped in the second its time is over.
Ends(r) == r.there /\ r.until # Never /\ r.until =< clock
Expires(t) == Ends(grey[t]) /\ grey' = [grey EXCEPT ![t] = NoRecord] /\ UNCHANGED <<white, mail, clock, tried, lookups, missed>>
WhiteExpires == Ends(white) /\ white' = NoRecord /\ UNCHANGED <<grey, mail, clock, tried, lookups, missed>>

\* The store answers within a second.
Tick ==
    /\ clock < MaxClock
    /\ \A s \in Mails : mail[s].at # "" => mail[s].stamp = clock
    /\ ~Ends(white) /\ \A t \in Tuples : ~Ends(grey[t])
    /\ clock' = clock + 1
    /\ tried' = [t \in Tuples |-> {a \in tried[t] : a + Grey >= clock}]
    /\ UNCHANGED <<grey, white, mail, lookups, missed>>

Store(s) == \/ WhiteRead(s) \/ WhiteTouched(s) \/ GreyRead(s) \/ GreyCreated(s) \/ GreyAgain(s)
            \/ Promoted(s) \/ ExpireSet(s)
GreyNext ==
    \/ \E s \in Mails : Store(s) \/ MailEnds(s) \/ \E t \in Tuples : HookRcptOk(s, t)
    \/ \E t \in Tuples : Expires(t)
    \/ WhiteExpires \/ Tick \/ WriteFails

GreySpec == GreyInit /\ [][(\E s \in Mails : HookMail(s)) \/ GreyNext]_greyVars

\* The store answers.
GreyFairness == WF_greyVars(\E s \in Mails : Store(s))

------------------------------------------------------------------------------
\* A host is promoted only by a tuple that was tried longer ago than the black
\* period and not longer than the grey one, whatever the transactions that
\* share its records do (greylist.js, process_tuple()).
OnceWaited ==
    \A s \in Mails : mail[s].at = "promote" =>
        \E a \in tried[Asked(s)] : a + Black < mail[s].stamp /\ a + Grey >= mail[s].stamp

\* A host that is white has the time of its first contact, so that its record is
\* one a promotion wrote: a record that is about to expire is not touched
\* (greylist.js:280, "race prevention").  That takes a store that finds the
\* record of a white host, and a process that lives to give the record its time
\* (promote_to_white): else the record of a host that is promoted twice ends
\* sooner than it says.
WhiteWhole == white.there /\ ~missed => white.created # Never
GreyWaits == \E s \in Mails : mail[s].at # ""
=============================================================================
