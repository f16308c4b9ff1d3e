----------------------------- MODULE MCConnection -----------------------------
EXTENDS Connection

HookNames == {"connect_init", "lookup_rdns", "connect", "helo", "ehlo", "capabilities", "mail",
              "rcpt", "rcpt_ok", "data", "data_post", "max_data_exceeded", "queue",
              "queue_outbound", "queue_ok", "rset", "quit", "unrecognized_command",
              "reset_transaction", "disconnect", "deny"}

\* n plugins for each of some hooks, and a resolver plugin that always knows
\* the name, so that dns is not asked.
Plugins(hooks, n) == [h \in HookNames |-> IF h = "lookup_rdns" THEN 1
                                          ELSE IF h \in hooks THEN n ELSE 0]
Two(hook, registered) == [registered EXCEPT ![hook] = 2]

Envelope == Two("disconnect", Plugins({"ehlo", "mail", "rcpt", "queue", "reset_transaction"}, 1))
Relay    == Plugins({"helo", "ehlo", "mail", "data_post", "queue_outbound", "reset_transaction",
                     "unrecognized_command", "disconnect", "deny"}, 1)
AnyName  == [Two("disconnect", Plugins({"connect", "data", "queue", "rcpt", "reset_transaction"}, 1))
             EXCEPT !["lookup_rdns"] = 0]

\* Plugins that answer at once, or later.
NotGreeting == HookNames \ {"helo", "ehlo", "mail"}
NotReset == HookNames \ {"lookup_rdns", "reset_transaction"}
Slow == HookNames \ {"lookup_rdns"}

\* What the plugins of each hook may answer.
Some == [h \in HookNames |->
            CASE h = "deny"        -> {"cont", "ok"}
              [] h = "lookup_rdns" -> {"ok"}
              [] h = "unrecognized_command" -> {"cont", "ok", "deny", "next_hook"}
              [] h \in {"reset_transaction", "disconnect"} -> {"cont"}
              [] h = "rcpt"        -> {"ok", "deny", "denydisconnect"}
              [] h = "queue"       -> {"ok", "deny", "cont"}
              [] OTHER             -> {"cont", "deny"}]
==============================
