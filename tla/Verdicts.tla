------------------------------ MODULE Verdicts ------------------------------
(***************************************************************************)
(* The plugins that refuse, or let through, for what backends, stores and  *)
(* name servers told them: each keeps a state of its own, shared by all    *)
(* its connections, and none reads that of another.                        *)
(***************************************************************************)
EXTENDS Naturals, Sequences, FiniteSets

CONSTANTS Logins, Backends, MaxLines, MaxChecks,
          Tuples, Mails, Black, Grey, White, MaxClock, MaxLookups,
          Callers, PtrNames, BadTld, Generic, RejectConfs,
          Uris, Zones, max_uris_per_list,
          DnsZones, Remotes, ListConfs, MaxRounds

VARIABLES auth, tries, left,
          grey, white, mail, clock, tried, lookups, missed,
          file, reject, caller,
          zones, uribl, run, late,
          conf, in_use, disabled_zones, remote, tests, rounds

Auth  == INSTANCE AuthProxy
List  == INSTANCE Greylist
Names == INSTANCE Fcrdns
Links == INSTANCE Uribl
Block == INSTANCE DnsList

authVars  == <<auth, tries, left>>
greyVars  == <<grey, white, mail, clock, tried, lookups, missed>>
namesVars == <<file, reject, caller>>
linksVars == <<zones, uribl, run, late>>
blockVars == <<conf, in_use, disabled_zones, remote, tests, rounds>>

AuthSpec  == Auth!AuthInit /\ [][Auth!Capabilities \/ Auth!AuthNext]_authVars
NamesSpec == Names!FcrdnsInit /\ [][Names!Loads \/ Names!Reloads \/ Names!FcrdnsNext]_namesVars
LinksSpec == Links!UriblInit /\ [][Links!Reads \/ Links!UriblNext]_linksVars
BlockSpec == Block!ListInit /\ [][Block!Register \/ Block!ListNext]_blockVars

\* What a hook answers has its reason in what backends, stores and name servers
\* said, in whatever order they said it; and it answers once (the hooks of
\* auth_base.js, greylist.js, connect.fcrdns.js, data.uribl.js, dns_list_base.js).
VerdictsTrue ==
    /\ Auth!Justified /\ List!OnceWaited /\ List!WhiteWhole
    /\ Names!FcrdnsTrue
    /\ Links!UriblTrue /\ Links!UriblOnce
    /\ Block!ListTrue /\ Block!ListOnce
=============================================================================
