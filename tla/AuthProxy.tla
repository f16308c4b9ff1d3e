------------------------------ MODULE AuthProxy -----------------------------
(***************************************************************************)
(* plugins/auth/auth_base.js and auth_proxy.js: an AUTH exchange with the  *)
(* client, whose credentials are tried at the backends of their domain,    *)
(* one after the other.                                                    *)
(*                                                                         *)
(* A failed socket has an 'error' and then a 'close', and each tries the   *)
(* next backend: several are at work, and the exchange may be ended more   *)
(* than once.                                                              *)
(***************************************************************************)
EXTENDS Naturals, Sequences, FiniteSets

CONSTANTS Logins,     \* user@domain with its password
          Backends,   \* how many the domain has
          MaxLines,   \* bound: lines of the client
          MaxChecks   \* bound: credentials that are checked

VARIABLES auth,   \* the notes of the connection, and what the client has sent
          tries,  \* the sockets of try_auth_proxy(), in the order they are made
          left    \* left[x]: hosts that check x has not tried yet

authVars == <<auth, tries, left>>

Nobody == "nobody"

AuthInit ==
    /\ auth = [allowed |-> FALSE, authenticating |-> FALSE, method |-> "", plain_asked |-> FALSE,
               login_asked |-> FALSE, userlogin |-> Nobody, hook |-> FALSE, delays |-> <<>>,
               relaying |-> FALSE, accepted |-> {}, lines |-> 0, over |-> FALSE]
    /\ tries = <<>>
    /\ left = <<>>

\* hook_capabilities
Capabilities ==
    /\ ~auth.allowed
    /\ auth' = [auth EXCEPT !.allowed = TRUE]
    /\ UNCHANGED <<tries, left>>

------------------------------------------------------------------------------
(* auth_base: a line of the client, and what the hook does with it. *)

Answered(a) == [a EXCEPT !.hook = FALSE]

\* passwd_ok() of check x, whose next() is heard while its hook waits.
Last(x, a) == IF x = Len(left) THEN Answered(a) ELSE a
PasswdOk(x, a, valid) ==
    IF valid THEN Last(x, [a EXCEPT !.relaying = TRUE])
    ELSE [a EXCEPT !.delays[x] = @ + 1, !.userlogin = Nobody, !.login_asked = FALSE]

NewTry(x, login, bare) == [check |-> x, command |-> "connect", login |-> login, bare |-> bare, asked |-> TRUE, secure |-> FALSE,
                        complete |-> FALSE, success |-> FALSE, state |-> "open", timed |-> FALSE, failed |-> FALSE]

\* check_plain_passwd(): the domain may have no backends.
CheckPlainPasswd(a, login) ==
    \/ /\ left' = Append(left, Backends - 1)
       /\ tries' = Append(tries, NewTry(Len(left'), login, FALSE))
       /\ auth' = a
    \/ /\ left' = Append(left, 0)
       /\ auth' = PasswdOk(Len(left'), a, FALSE)
       /\ UNCHANGED tries
\* check_user(): the hook waits for the backends; 504 when something is missing.
CheckUser(a, login) ==
    IF login = Nobody
    THEN auth' = Answered([a EXCEPT !.authenticating = FALSE]) /\ UNCHANGED <<tries, left>>
    ELSE CheckPlainPasswd([a EXCEPT !.authenticating = FALSE, !.delays = Append(@, 0)], login)

AuthPlain(a, arg) ==
    IF arg # "" THEN CheckUser(a, arg)
    ELSE /\ auth' = Answered(IF a.plain_asked THEN [a EXCEPT !.over = TRUE] ELSE [a EXCEPT !.plain_asked = TRUE])
         /\ UNCHANGED <<tries, left>>

Asks(a)            == Answered([a EXCEPT !.login_asked = TRUE])
TakesLogin(a, arg) == Answered(IF arg = "" THEN [a EXCEPT !.over = TRUE]
                               ELSE [a EXCEPT !.userlogin = arg, !.login_asked = TRUE])
AuthLogin(a, arg) ==
    IF (a.login_asked /\ a.userlogin = Nobody) \/ (~a.login_asked /\ arg # "")
    THEN auth' = TakesLogin(a, arg) /\ UNCHANGED <<tries, left>>
    ELSE IF a.userlogin # Nobody THEN CheckUser(a, IF arg = "" THEN Nobody ELSE a.userlogin)
    ELSE auth' = Asks(a) /\ UNCHANGED <<tries, left>>

Goes(a, arg) == IF a.method = "PLAIN" THEN AuthPlain(a, arg) ELSE AuthLogin(a, arg)

Quiet == ~auth.hook /\ auth.allowed /\ ~auth.over /\ auth.lines < MaxLines /\ Len(left) < MaxChecks
Heard(a) == [a EXCEPT !.hook = TRUE, !.lines = @ + 1]

\* select_auth_method()
AuthCommand ==
    /\ Quiet
    /\ \E method \in {"PLAIN", "LOGIN"}, arg \in Logins \cup {Nobody, ""} :
          Goes([Heard(auth) EXCEPT !.authenticating = TRUE, !.method = method], arg)

\* A line that is no command, while an exchange goes on.
AuthData ==
    /\ Quiet /\ auth.authenticating
    /\ \E arg \in Logins \cup {Nobody, ""} : Goes(Heard(auth), arg)

\* The 535 after a delay.
Rejected(x) ==
    /\ auth.delays[x] > 0
    /\ auth' = Last(x, [auth EXCEPT !.delays[x] = @ - 1])
    /\ UNCHANGED <<tries, left>>

------------------------------------------------------------------------------
(* try_auth_proxy() *)

\* The next host, or the verdict.
TryNext(i, t, a) ==
    IF left[t.check] = 0
    THEN /\ auth' = PasswdOk(t.check, a, FALSE)
         /\ tries' = [tries EXCEPT ![i] = t]
         /\ UNCHANGED left
    ELSE /\ auth' = a
         /\ tries' = Append([tries EXCEPT ![i] = t], NewTry(t.check, t.login, t.bare))
         /\ left' = [left EXCEPT ![t.check] = @ - 1]

Command(t, c) == [t EXCEPT !.command = c, !.asked = TRUE]
End(t)        == [t EXCEPT !.state = "ended"]

\* A backend's reply: its code, and the first capability of an EHLO.
Replies == {"ok", "334", "4xx", "5xx", "more"}
Offers  == {"none", "STARTTLS", "AUTH", "AUTH other"}

\* A refused login passes at the second attempt.
MistakeAfterRefusal(t) ==
    IF t.bare THEN Command([t EXCEPT !.complete = TRUE, !.success = TRUE], "quit") ELSE Command([t EXCEPT !.bare = TRUE], "auth")

\* A refused login is tried again without its domain, and then given up.
AfterRefusal(t) ==
    IF t.bare THEN Command([t EXCEPT !.complete = TRUE], "quit") ELSE Command([t EXCEPT !.bare = TRUE], "auth")

OnLine(t, reply, offer) ==
    CASE reply = "more" -> End(t)
      [] reply # "more" /\ t.command = "ehlo" /\ reply # "5xx" /\ offer = "STARTTLS" /\ ~t.secure -> Command(t, "starttls")
      [] reply # "more" /\ t.command = "ehlo" /\ reply # "5xx" /\ offer = "AUTH" -> Command(t, "auth")
      [] reply # "more" /\ t.command = "ehlo" /\ reply # "5xx" /\ offer = "AUTH other" -> Command(t, "quit")
      [] t.command = "auth" /\ reply = "334" -> [t EXCEPT !.asked = TRUE]
      [] t.command = "auth" /\ reply = "5xx" -> AfterRefusal(t)
      [] t.command = "auth" /\ reply = "ok"  -> Command([t EXCEPT !.complete = TRUE, !.success = TRUE], "quit")
      [] t.command = "connect" /\ reply = "ok" -> Command(t, "ehlo")
      [] t.command = "starttls" /\ reply = "ok" -> Command([t EXCEPT !.secure = TRUE], "ehlo")
      [] t.command = "ehlo" /\ reply = "ok" /\ (offer = "none" \/ (offer = "STARTTLS" /\ t.secure)) -> End(t)
      [] t.command = "quit" -> End(t)
      [] OTHER -> Command(t, "quit")

\* What is written to a socket after its end() has no answer, only an error
\* (Fails), and the lines of a long reply go on after it.
Waits(t, reply) == [t EXCEPT !.asked = reply = "more" \/ (@ /\ t.state = "open")]

\* A backend answers QUIT with 221.  A line is heard after end() as well.
Line(i) ==
    /\ tries[i].state # "closed" /\ tries[i].asked /\ ~tries[i].failed
    /\ \E reply \in Replies, offer \in Offers :
          /\ tries[i].command # "ehlo" => offer = "none"
          /\ tries[i].command = "quit" => reply = "ok"
          /\ reply = "334" => tries[i].command = "auth"
          /\ tries' = [tries EXCEPT ![i] = Waits(OnLine([@ EXCEPT !.asked = FALSE], reply, offer), reply)]
          /\ auth' = IF tries[i].command = "auth" /\ reply = "ok"
                     THEN [auth EXCEPT !.accepted = @ \cup {tries[i].login}] ELSE auth
    /\ UNCHANGED left

\* 30 s without a line.
TimesOut(i) ==
    /\ tries[i].state # "closed" /\ ~tries[i].timed /\ ~tries[i].failed
    /\ TryNext(i, End([tries[i] EXCEPT !.timed = TRUE]), auth)

\* 'error', and 'close' comes after it.
Fails(i) ==
    /\ tries[i].state # "closed" /\ ~tries[i].failed
    /\ TryNext(i, [tries[i] EXCEPT !.failed = TRUE], auth)

Closes(i) ==
    /\ tries[i].state # "closed"
    /\ LET t == tries[i]
           closed == [NewTry(t.check, t.login, t.bare) EXCEPT !.state = "closed"] IN
       IF ~t.complete THEN TryNext(i, closed, auth)
       ELSE /\ auth' = PasswdOk(t.check, auth, t.success)
            /\ tries' = [tries EXCEPT ![i] = closed]
            /\ UNCHANGED left

Backend == \E i \in DOMAIN tries : Line(i) \/ TimesOut(i) \/ Fails(i) \/ Closes(i)
Delay   == \E x \in DOMAIN left : Rejected(x)
AuthNext == AuthCommand \/ AuthData \/ Delay \/ Backend

\* Delays end; a socket that is ended or failed is closed, another has a line,
\* an error or a timeout.
AuthFairness == WF_authVars(Backend \/ Delay)

------------------------------------------------------------------------------
\* Only a login that a backend accepted lets a connection relay, whatever the
\* sockets that are at work for it do (auth_base.js, check_user()).
Justified == auth.relaying => auth.accepted # {}
AuthWaits == auth.hook
=============================================================================
