----------------------------- MODULE SmtpSession -----------------------------
(***************************************************************************)
(* What an SMTP session promises its client: one command at a time, one    *)
(* reply for each, the greeting first, and nothing once it is over.        *)
(***************************************************************************)
EXTENDS Naturals

VARIABLES owed,   \* replies due: for a command, or the greeting
          open

sessionVars == <<owed, open>>

Init == owed = 1 /\ open = TRUE

TakeCommand == open /\ owed = 0 /\ owed' = 1 /\ UNCHANGED open
Reply       == open /\ owed = 1 /\ owed' = 0 /\ UNCHANGED open
Close       == open /\ open' = FALSE /\ owed' = 0

Next == TakeCommand \/ Reply \/ Close
Spec == Init /\ [][Next]_sessionVars
==============================================================================
