----------------------------- MODULE SmtpClient -----------------------------
(***************************************************************************)
(* smtp_client.js with its two users, plugins/queue/smtp_forward.js and    *)
(* smtp_proxy.js: clients of the backends, lent by a pool to connections   *)
(* that have a message to pass on.                                         *)
(*                                                                         *)
(* wire is what the server has to answer; a command carries the connection *)
(* it was sent for, which the code does not know.                          *)
(***************************************************************************)
EXTENDS HostPool

CONSTANTS Conns,     \* connections, each with one transaction, numbered in the order of their first hooks
          Clients,   \* bound: as many clients as there are at once
          Configs,   \* of smtp_forward.ini and smtp_proxy.ini, and the connections that come then
          Rcpts,     \* recipients of a transaction
          MaxFaults  \* bound: sockets that fail

VARIABLES cfg,     \* the plugin that is loaded and its configuration
          client,  \* client[c]: an SMTPClient
          conn,    \* conn[s]: what the plugin knows of connection s
          faults,
          thrown   \* an exception nobody catches has ended the process

clientVars == <<hosts, last_i, dead_hosts, timers, probes, up, cfg, client, conn, faults, thrown>>

None == 0
NoClient == [state |-> "none", host |-> "", conn |-> None, connected |-> FALSE, command |-> "",
             wire |-> <<>>, next |-> {}, listeners |-> 0, xclient |-> FALSE, secured |-> "no",
             on_secured |-> 0, auths |-> FALSE, authenticated |-> FALSE, pooled |-> 0, cut |-> FALSE]
NewClient(h, s) == [NoClient EXCEPT !.state = "active", !.host = h, !.conn = s, !.command = "greeting",
                                    !.wire = <<[cmd |-> "greeting", for |-> s]>>]
NoConn == [txn |-> FALSE, rcpts |-> 1, rcpt |-> 0, hook |-> "", answers |-> 0, said |-> "",
           done |-> {}, client |-> None, silent |-> FALSE]

ClientInit ==
    /\ PoolInit
    /\ cfg = [plugin |-> "none"]
    /\ client = [c \in Clients |-> NoClient]
    /\ conn = [s \in Conns |-> NoConn]
    /\ faults = 0 /\ thrown = FALSE

Register ==
    /\ cfg.plugin = "none"
    /\ cfg' \in Configs
    /\ NewPool(cfg'.forwarding_host_pool)
    /\ UNCHANGED <<last_i, dead_hosts, timers, probes, up, client, conn, faults, thrown>>

------------------------------------------------------------------------------
(* A handler works on x: a client, the connection it is lent to, and the     *)
(* answer it gives to a hook, or that it throws.                             *)

Send(x, cmd) == [x EXCEPT !.c.command = cmd, !.c.wire = Append(@, [cmd |-> cmd, for |-> x.by])]

Destroy(x) == IF x.c.state = "destroyed" THEN x ELSE [x EXCEPT !.c = [NoClient EXCEPT !.state = "destroyed", !.host = x.c.host, !.conn = x.c.conn,
                                               !.next = x.c.next, !.listeners = x.c.listeners, !.cut = x.c.cut]]

\* Back in the pool before the answer to RSET.
MistakeRelease(x) ==
    IF ~x.c.connected \/ x.c.command = "data" THEN Destroy(x)
    ELSE IF x.c.state = "destroyed" THEN x
    ELSE Send([x EXCEPT !.by = None, !.c.state = "idle", !.c.conn = None, !.c.pooled = @ + 1], "rset")

\* The client is used no further: RSET, or its end.  It is "cut" when the server
\* owed it an answer, or when the notes of the connection named a client that
\* was given back before.
Release(x) ==
    IF ~x.c.connected \/ x.c.command = "data" THEN Destroy(x)
    ELSE IF x.c.state = "destroyed" THEN x
    ELSE Send([x EXCEPT !.by = None, !.c.state = "released", !.c.conn = None, !.c.cut = @ \/ x.c.wire # <<>> \/ x.c.conn # x.by], "rset")

\* The function is kept after it was called.
MistakeCallNext(x, said) ==
    IF x.c.next = {} THEN x ELSE [x EXCEPT !.told = {[to |-> to, said |-> said] : to \in x.c.next}]

\* call_next(): the hook that asked last, of whatever connection, is answered by
\* the client once.
CallNext(x, said) ==
    IF x.c.next = {} THEN x
    ELSE [x EXCEPT !.c.next = {}, !.told = {[to |-> to, said |-> said] : to \in x.c.next}]
Asker(s, hook) == {[for |-> s, hook |-> hook]}

Thrown    == [to |-> [for |-> None, hook |-> ""], said |-> "thrown"]
Throws(x) == [x EXCEPT !.told = {Thrown}]

DropNotes(x) == [x EXCEPT !.s.client = None]

\* is_dead_sender()
Alive(x, y) == IF x.s.txn THEN y ELSE Release(x)

Proxy == cfg.plugin = "smtp_proxy"

\* get_client_plugin's listeners.  A server that did not say it knows the type of
\* AUTH, as one that refused EHLO, makes 'helo' throw.
OnGreeting(x)  == Send(x, "ehlo")
OnHelo(x)      == IF ~cfg.auth \/ x.c.authenticated THEN Alive(x, Send(x, "mail"))
                  ELSE IF x.c.auths THEN Send(x, "auth") ELSE Throws(x)
OnAuth(x)      == Alive(x, Send([x EXCEPT !.c.authenticated = TRUE], "mail"))
\* 'secured' is of each get_client_plugin(), the listeners for 'secure' stay on the
\* socket.  AUTH is the last line of the reply.
OnCapabilities(x, offers) ==
    LET y == [x EXCEPT !.c.auths = @ \/ "AUTH" \in offers] IN
    IF "XCLIENT" \in offers /\ ~x.c.xclient THEN Send(x, "xclient")
    ELSE IF "STARTTLS" \in offers /\ x.c.secured # "yes" /\ cfg.enable_tls
         THEN Send([x EXCEPT !.c.secured = "asked", !.c.on_secured = @ + 1], "starttls")
    ELSE IF cfg.auth /\ ~Proxy THEN Send(y, "auth")
    ELSE y
\* Each of them says EHLO, while there is a listener for 'greeting'.
OnSecured(x) ==
    LET hello == [cmd |-> "ehlo", for |-> x.by]
        y     == [x EXCEPT !.c.secured = IF @ = "asked" THEN "yes" ELSE @]
    IN  IF y.c.state # "active" \/ y.c.on_secured = 0 THEN y
        ELSE [y EXCEPT !.c.command = "ehlo", !.c.wire = @ \o [i \in 1 .. y.c.on_secured |-> hello]]

\* smtp_forward
SendRcpt(x) == Alive(x, IF x.s.rcpt = x.s.rcpts THEN Send(x, "data")
                        ELSE Send([x EXCEPT !.s.rcpt = @ + 1], "rcpt"))
ForwardOn(x) ==
    CASE x.c.command = "mail" -> SendRcpt(x)
      [] x.c.command = "rcpt" -> IF cfg.one_message_per_rcpt THEN Send(x, "data") ELSE SendRcpt(x)
      [] x.c.command = "data" -> Alive(x, Send(x, "dot"))
      [] x.c.command = "dot"  -> Alive(x, IF x.s.rcpt < x.s.rcpts THEN Send(x, "rset")
                                          ELSE Release(CallNext(x, "OK")))
      [] x.c.command = "rset" -> Alive(x, Send(x, "mail"))
ForwardBadCode(x) == Alive(x, Release(CallNext(x, "DENY")))

\* smtp_proxy
ProxyOn(x) ==
    CASE x.c.command \in {"mail", "rcpt", "data"} -> CallNext(x, "CONT")
      [] x.c.command = "dot" -> DropNotes(Alive(x, Release(CallNext(x, "OK"))))
      [] OTHER -> x
ProxyBadCode(x) ==
    IF x.c.command = "rcpt" THEN CallNext(x, "DENY") ELSE DropNotes(Release(CallNext(x, "DENY")))

On(x)      == IF Proxy THEN ProxyOn(x) ELSE ForwardOn(x)
BadCode(x) == IF Proxy THEN ProxyBadCode(x) ELSE ForwardBadCode(x)

\* The switch of the 'line' listener.
Switch(x) ==
    CASE x.c.command = "xclient"          -> OnGreeting([x EXCEPT !.c.xclient = TRUE])
      [] x.c.command = "starttls"         -> [x EXCEPT !.c.wire = Append(@, [cmd |-> "secure", for |-> x.by])]
      [] x.c.command = "greeting"         -> OnGreeting([x EXCEPT !.c.connected = TRUE])
      [] x.c.command \in {"ehlo", "helo"} -> OnHelo(x)
      [] x.c.command = "auth"             -> OnAuth(x)
      [] OTHER                            -> On(x)

\* The last line of a reply to a client that is lent.
Checked(x, good) ==
    IF good THEN Switch(x)
    ELSE LET y == BadCode(x) IN IF y.c.state = "active" THEN Switch(y) ELSE y
Lent(x, reply, offers) ==
    CASE x.c.command = "ehlo" /\ reply = "5xx" -> Send(x, "helo")
      [] x.c.command = "ehlo" /\ reply # "5xx" ->
            LET y == OnCapabilities(x, offers) IN
            IF y.c.command # "ehlo" THEN y ELSE Checked(y, reply = "ok")
      [] x.c.command = "xclient" /\ reply = "5xx" -> Switch([x EXCEPT !.c.command = "helo"])
      [] OTHER -> Checked(x, reply = "ok")

\* To one on its way back to the pool, and to one in the pool.
Returning(x, reply) ==
    CASE x.c.state = "released" /\ reply = "ok" -> [x EXCEPT !.c.state = "idle", !.c.pooled = @ + 1]
      [] x.c.state = "released" /\ reply # "ok" -> Destroy(x)
      [] OTHER -> x

------------------------------------------------------------------------------
(* The sockets. *)

User(c) == client[c].conn
PairOf(c, s) == [c |-> client[c], told |-> {}, by |-> s, s |-> IF s = None THEN NoConn ELSE conn[s]]
Pair(c) == PairOf(c, User(c))
PutOf(c, s, x) ==
    /\ client' = [client EXCEPT ![c] = x.c]
    /\ conn' = LET changed == IF s = None THEN conn ELSE [conn EXCEPT ![s] = x.s] IN
               [t \in Conns |->
                   IF \E a \in x.told : a.to.for = t /\ a.to.hook = changed[t].hook
                   THEN [changed[t] EXCEPT !.answers = @ + 1, !.said = (CHOOSE a \in x.told : TRUE).said]
                   ELSE changed[t]]
    /\ thrown' = (Thrown \in x.told)
Put(c, x) == PutOf(c, User(c), x)

Live(c) == client[c].state \in {"active", "released", "idle"}

\* The server answers the oldest command.
Reply(c) ==
    /\ Live(c) /\ client[c].wire # <<>> /\ Head(client[c].wire).cmd # "secure"
    /\ LET cmd == Head(client[c].wire).cmd
           x   == [Pair(c) EXCEPT !.c.wire = Tail(@)]
       IN \E reply \in {"ok", "4xx"} \cup (IF cmd \in {"ehlo", "xclient"} THEN {"5xx"} ELSE {}),
             offers \in IF cmd = "ehlo" THEN cfg.offers ELSE {{}} :
             Put(c, IF x.c.state = "active" THEN Lent(x, reply, offers) ELSE Returning(x, reply))
    /\ UNCHANGED <<poolVars, cfg, faults>>

\* 'secure' after STARTTLS.
Secure(c) ==
    /\ Live(c) /\ client[c].wire # <<>> /\ Head(client[c].wire).cmd = "secure"
    /\ Put(c, OnSecured([Pair(c) EXCEPT !.c.wire = Tail(@)]))
    /\ UNCHANGED <<poolVars, cfg, faults>>

\* A line that is no reply.  A client that was given back has no listener for
\* 'error' left, so that emit() throws.
Unrecognized(c) ==
    /\ Live(c) /\ client[c].wire # <<>> /\ faults < MaxFaults
    /\ faults' = faults + 1
    /\ LET x == Destroy(CallNext(Pair(c), "CONT"))
       IN Put(c, IF client[c].state # "active" THEN Throws(Pair(c)) ELSE IF Proxy THEN DropNotes(x) ELSE x)
    /\ UNCHANGED <<poolVars, cfg>>

\* 'connection-error', which every connection the client was lent to hears.
ConnectionError(c) ==
    /\ Put(c, [CallNext(Destroy(Pair(c)), "CONT") EXCEPT !.c.wire = <<>>])
    /\ Failed(client[c].host, client[c].listeners)

\* 'error' and 'timeout' of a socket; its backend may be down.
SocketFails(c) ==
    /\ Live(c) /\ faults < MaxFaults
    /\ faults' = faults + 1
    /\ ConnectionError(c)
    /\ up' \in {up, up \ {client[c].host}}
    /\ UNCHANGED <<hosts, last_i, probes, cfg>>

\* 'end' and 'close': nobody hears of it.
SocketEnds(c) ==
    /\ Live(c) /\ faults < MaxFaults
    /\ faults' = faults + 1
    /\ Put(c, [Destroy(Pair(c)) EXCEPT !.s.silent = TRUE])
    /\ UNCHANGED <<poolVars, cfg>>

\* A command written to a socket that was destroyed.
WriteFails(c) ==
    /\ client[c].state = "destroyed" /\ client[c].wire # <<>>
    /\ ConnectionError(c)
    /\ UNCHANGED <<hosts, last_i, probes, up, cfg, faults>>

------------------------------------------------------------------------------
(* The connections. *)

\* get_hostport(), and the pool of the host: the clients it has to lend, or a
\* place for a new one.
NextHost == hosts[GetHost]
Idle(h)  == {c \in Clients : client[c].pooled > 0 /\ client[c].host = h}
Free     == {c \in Clients : /\ client[c].state \in {"none", "destroyed"} /\ client[c].wire = <<>>
                             /\ \A s \in Conns : conn[s].client # c}

\* get_client_plugin(): one that is connected goes on with XCLIENT or 'helo'.  If
\* that throws, the hook goes on to the next plugin (plugins.js) and the client
\* stays lent to a connection that does not know it.
Acquire(s, t, hook) ==
    LET h    == NextHost
        idle == Idle(h)
        new  == {c \in Free : \A d \in Free : c =< d}
    IN \E c \in IF idle # {} THEN idle ELSE new :
          LET b == IF idle # {} THEN [client[c] EXCEPT !.state = "active", !.conn = s, !.pooled = @ - 1, !.secured = "no"]
                   ELSE NewClient(h, s)
              lost == [c |-> [b EXCEPT !.listeners = @ + 1], s |-> [t EXCEPT !.client = None, !.answers = 1, !.said = "CONT"]]
              x == [by |-> s, told |-> {}, c |-> [b EXCEPT !.next = Asker(s, hook), !.listeners = @ + 1], s |-> [t EXCEPT !.client = c]]
              y == IF ~b.connected THEN x ELSE IF b.xclient THEN Send(x, "xclient") ELSE OnHelo(x)
              z == IF Thrown \in y.told THEN lost ELSE [c |-> y.c, s |-> y.s]
          IN /\ last_i' = GetHost
             /\ client' = [client EXCEPT ![c] = z.c]
             /\ conn' = [conn EXCEPT ![s] = z.s]

Asks(s, hook, t) == [t EXCEPT !.hook = hook, !.answers = 0, !.said = "", !.done = @ \cup {hook}, !.silent = FALSE]

\* The first hook of the plugin: hook_queue of smtp_forward, hook_mail of smtp_proxy.
FirstHook(s) ==
    /\ cfg.plugin # "none" /\ s \in cfg.conns /\ conn[s].done = {}
    /\ \A t \in Conns : t < s => conn[t].done # {}
    /\ LET hook == IF Proxy THEN "mail" ELSE "queue" IN
       \E n \in Rcpts : Acquire(s, [Asks(s, hook, conn[s]) EXCEPT !.txn = TRUE, !.rcpts = n], hook)
    /\ UNCHANGED <<hosts, dead_hosts, timers, probes, up, cfg, faults, thrown>>

\* hook_rcpt_ok, hook_data and hook_queue of smtp_proxy.
Command == [rcpt |-> "rcpt", data |-> "data", queue |-> "dot"]
Before  == [rcpt |-> {"mail"}, data |-> {"mail", "rcpt"}, queue |-> {"mail", "rcpt", "data"}]
NextHook(s, hook) ==
    /\ Proxy /\ conn[s].txn /\ conn[s].hook = "" /\ conn[s].done = Before[hook] /\ conn[s].said = "CONT"
    /\ LET c == conn[s].client
           t == Asks(s, hook, conn[s])
       IN IF c = None
          THEN conn' = [conn EXCEPT ![s] = [t EXCEPT !.hook = "", !.said = "CONT"]] /\ UNCHANGED <<client, thrown>>
          ELSE PutOf(c, s, Send([by |-> s, told |-> {}, c |-> [client[c] EXCEPT !.next = Asker(s, hook)], s |-> t], Command[hook]))
    /\ UNCHANGED <<poolVars, cfg, faults>>

Over(t) == [NoConn EXCEPT !.done = {"over"}, !.client = IF Proxy THEN t.client ELSE None]

\* The answer is taken; what is not "CONT" ends the transaction.
HookEnds(s) ==
    /\ conn[s].hook # "" /\ conn[s].answers > 0
    /\ conn' = [conn EXCEPT ![s] =
                   IF Proxy /\ @.txn /\ @.said = "CONT" /\ @.hook # "queue"
                   THEN [@ EXCEPT !.hook = "", !.answers = 0, !.silent = FALSE] ELSE Over(@)]
    /\ UNCHANGED <<poolVars, cfg, client, faults, thrown>>

\* The client hangs up, or a plugin_timeout ends the hook and its transaction.
Gives(s) ==
    /\ conn[s].txn /\ conn[s].hook # "" /\ conn[s].answers = 0
    /\ conn' = [conn EXCEPT ![s] = Over(@)]
    /\ UNCHANGED <<poolVars, cfg, client, faults, thrown>>

\* hook_rset, hook_quit and hook_disconnect of smtp_proxy.
Leave(s) ==
    /\ Proxy /\ conn[s].client # None /\ conn[s].hook = ""
    /\ LET c == conn[s].client
           x == CallNext(DropNotes(Release(PairOf(c, s))), "CONT")
       IN PutOf(c, s, [x EXCEPT !.s = Over(@)])
    /\ UNCHANGED <<poolVars, cfg, faults>>

ClientNext ==
    /\ ~thrown
    /\ \/ PoolNext /\ UNCHANGED <<cfg, client, conn, faults, thrown>>
       \/ \E c \in Clients : Reply(c) \/ Secure(c) \/ Unrecognized(c) \/ SocketFails(c) \/ SocketEnds(c) \/ WriteFails(c)
       \/ \E s \in Conns : FirstHook(s) \/ HookEnds(s) \/ Gives(s) \/ Leave(s)
       \/ \E s \in Conns, hook \in DOMAIN Command : NextHook(s, hook)
ClientSpec == ClientInit /\ [][Register \/ ClientNext]_clientVars

\* A backend answers what it was sent, or the socket fails; answered hooks end.
ClientFairness ==
    /\ \A h \in Hosts : WF_clientVars(~thrown /\ PoolStep(h) /\ UNCHANGED <<cfg, client, conn, faults, thrown>>)
    /\ \A c \in Clients : \/ []<>(client[c].wire = <<>> \/ thrown)
                          \/ []<><<Reply(c) \/ Secure(c) \/ WriteFails(c)>>_clientVars
    /\ WF_clientVars(~thrown /\ \E s \in Conns : HookEnds(s))

------------------------------------------------------------------------------
\* A client that is lent, and was not given back while the server owed an
\* answer, hears only answers to the commands of the connection it is lent to;
\* one in the pool hears none (smtp_client.js:223, release()).
OwnReplies ==
    \A c \in Clients : ~client[c].cut =>
        /\ client[c].state = "active" => \A i \in DOMAIN client[c].wire : client[c].wire[i].for = client[c].conn
        /\ client[c].state = "idle" => client[c].wire = <<>>

\* A backend that failed is not handed out while another has not failed, and
\* comes back into use when it is up again, while the process runs (host_pool.js).
DeadHostsRest ==
    /\ [][last_i' # last_i => hosts[last_i'] \notin dead_hosts \/ dead_hosts = {hosts[i] : i \in DOMAIN hosts}]_clientVars
    /\ []<>(dead_hosts \cap up = {} \/ thrown)

\* A hook is answered once, whatever its client does later (call_next()).
AnsweredOnce == \A s \in Conns : conn[s].answers =< 1

\* A hook waits; one whose client was closed by the backend, or was given back
\* while it was at work for another, is left to plugin_timeout.
ClientWaits ==
    ~thrown /\ \E s \in Conns : /\ conn[s].hook # "" /\ ~conn[s].silent
                                /\ ~(conn[s].client # None /\ client[conn[s].client].cut)
=============================================================================
