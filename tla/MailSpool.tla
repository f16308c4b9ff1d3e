----------------------------- MODULE MailSpool -----------------------------
(***************************************************************************)
(* What the outbound queue promises, whatever happens to the process: the  *)
(* spool names the recipients that still have to be dealt with, and a      *)
(* recipient whose mail was answered OK leaves it only once it came to an  *)
(* end (delivered, reported to the sender, or logged).                     *)
(*                                                                         *)
(* The queue directory, the references, the retries, the split files and   *)
(* the bounce messages are how outbound.js keeps this promise.             *)
(***************************************************************************)
CONSTANT Rcpt

VARIABLES stored,  \* the recipients some queue file names
          acked,   \* the recipients whose mail was answered OK
          ended    \* the recipients that came to an end

vars == <<stored, acked, ended>>

Init == stored = {} /\ acked = {} /\ ended = {}

\* A mail is written to the spool, then answered OK or withdrawn.
Store(S) == /\ stored' = stored \cup S
            /\ UNCHANGED <<acked, ended>>

Accept(S) == /\ S \subseteq stored
             /\ acked' = acked \cup S
             /\ UNCHANGED <<stored, ended>>

Withdraw(S) == /\ S \cap acked = {}
               /\ stored' = stored \ S
               /\ UNCHANGED <<acked, ended>>

\* The recipients of S come to an end, those of T leave the spool.
Settle(S, T) == /\ S \subseteq stored
                /\ T \cap acked \subseteq ended \cup S
                /\ ended' = ended \cup S
                /\ stored' = stored \ T
                /\ UNCHANGED acked

Next == \/ \E S \in SUBSET Rcpt : Store(S) \/ Accept(S) \/ Withdraw(S)
        \/ \E S, T \in SUBSET Rcpt : Settle(S, T)

Spec == Init /\ [][Next]_vars
=============================================================================
