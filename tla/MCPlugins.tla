------------------------------ MODULE MCPlugins ------------------------------
(***************************************************************************)
(* The plugins that keep state over callbacks, on small instances.  Each   *)
(* has a state of its own and answers its own hooks, so a behaviour has    *)
(* one of them.                                                            *)
(***************************************************************************)
EXTENDS SmtpClient, Limit, Verdicts

CONSTANTS HeloHost, MailHost, LIMIT

VARIABLES plugin,   \* the one that is used
          spf, checks

------------------------------------------------------------------------------
(* The configurations. *)

\* smtp_forward with TLS or XCLIENT, with AUTH and a message for each
\* recipient, with two backends; and smtp_proxy.
MCRcpts == {2}
Forward(name, auths, tls, each, offers, pool) ==
    [plugin |-> name, auth |-> auths, enable_tls |-> tls, one_message_per_rcpt |-> each, offers |-> offers,
     forwarding_host_pool |-> pool, conns |-> IF Cardinality(pool) = 1 THEN {1, 2} ELSE Conns]
MCConfigs == {Forward("smtp_forward", FALSE, TRUE, FALSE, {{}, {"XCLIENT"}, {"STARTTLS"}}, {"h1"}),
              Forward("smtp_forward", TRUE, FALSE, TRUE, {{}, {"AUTH"}}, {"h1"}),
              Forward("smtp_forward", FALSE, FALSE, FALSE, {{}}, {"h1", "h2"}),
              Forward("smtp_proxy", FALSE, FALSE, FALSE, {{}}, {"h1"}),
              Forward("smtp_proxy", TRUE, FALSE, FALSE, {{}, {"AUTH"}}, {"h1"})}

\* All connections come from one host.
MCOrigin == [v \in Visits |-> "host"]

Term(mech, q, arg) == [mech |-> mech, q |-> q, arg |-> arg]
SpfRecords ==
    [s |-> [mechs |-> <<Term("include", "-", "i"), Term("mx", "+", ""), Term("all", "-", "")>>, mods |-> <<>>],
     i |-> [mechs |-> <<Term("ip", "-", {"public"}), Term("include", "+", "i")>>, mods |-> <<[mod |-> "exp", arg |-> ""]>>],
     h |-> [mechs |-> <<Term("ptr", "-", ""), Term("a", "-", "")>>, mods |-> <<[mod |-> "redirect", arg |-> "i"]>>]]
SpfConfs ==
    {[relaying |-> c = "myself", context |-> c,
      rejects |-> {<<"mfrom", "Fail">>, <<"mfrom", "TempError">>, <<"helo", "Fail">>}] : c \in {"sender", "myself"}}

MCPtrNames == {<<"a">>, <<"bad", "gen">>, <<"a", "gen">>}
MCRejectConfs == {{}, {"no_rdns", "no_fcrdns", "generic_rdns"}, {"invalid_tld"}}

MCListConfs == {[search |-> "first", reject |-> TRUE,  periodic |-> TRUE],
                [search |-> "all",   reject |-> TRUE,  periodic |-> FALSE],
                [search |-> "white", reject |-> FALSE, periodic |-> FALSE]}

Policy == INSTANCE Spf

------------------------------------------------------------------------------
Init ==
    /\ plugin \in {"smtp_client", "auth_proxy", "limit", "greylist", "spf", "fcrdns", "uribl", "dns_list"}
    /\ ClientInit /\ Auth!AuthInit /\ LimitInit /\ List!GreyInit
    /\ Policy!SpfInit /\ Names!FcrdnsInit /\ Links!UriblInit /\ Block!ListInit

policyVars == <<spf, checks>>
vars == <<plugin, clientVars, authVars, limitVars, greyVars, policyVars, namesVars, linksVars, blockVars>>

\* The others keep their first values.
Rest(p) ==
    /\ UNCHANGED plugin
    /\ p # "smtp_client" => UNCHANGED clientVars
    /\ p # "auth_proxy"  => UNCHANGED authVars
    /\ p # "limit"       => UNCHANGED limitVars
    /\ p # "greylist"    => UNCHANGED greyVars
    /\ p # "spf"         => UNCHANGED policyVars
    /\ p # "fcrdns"      => UNCHANGED namesVars
    /\ p # "uribl"       => UNCHANGED linksVars
    /\ p # "dns_list"    => UNCHANGED blockVars
Of(p, A) == plugin = p /\ A /\ Rest(p)

Next ==
    \/ Of("smtp_client", Register \/ ClientNext)
    \/ Of("auth_proxy", Auth!Capabilities \/ Auth!AuthNext)
    \/ Of("limit", (\E v \in Visits : Arrives(v)) \/ LimitNext)
    \/ Of("greylist", (\E s \in Mails : List!HookMail(s)) \/ List!GreyNext)
    \/ Of("spf", Policy!Connects \/ Policy!SpfNext)
    \/ Of("fcrdns", Names!Loads \/ Names!Reloads \/ Names!FcrdnsNext)
    \/ Of("uribl", Links!Reads \/ Links!UriblNext)
    \/ Of("dns_list", Block!Register \/ Block!ListNext)

Spec ==
    /\ Init /\ [][Next]_vars
    /\ ClientFairness /\ Auth!AuthFairness /\ LimitFairness /\ List!GreyFairness
    /\ Policy!SpfFairness /\ Names!FcrdnsFairness /\ Links!UriblFairness /\ Block!ListFairness

------------------------------------------------------------------------------
\* What an SPF check says was hit by a term, and a hook refuses for what one of
\* its checks said (spf.js, mech_include() and mech_chain_caller).
SpfTrue == Policy!SpfTrue

\* No hook of a plugin waits for ever: every callback has a way to its next(),
\* and those of the backend clients call it once.
HooksAnswered ==
    []AnsweredOnce /\
    []<>~(\/ ClientWaits \/ Auth!AuthWaits \/ LimitWaits \/ List!GreyWaits
          \/ Policy!SpfWaits \/ Names!FcrdnsWaits \/ Links!UriblWaits \/ Block!ListWaits)
=============================================================================
