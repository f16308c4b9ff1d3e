-------------------------- MODULE MCOutboundQueue --------------------------
EXTENDS OutboundQueue

CONSTANTS r1, r2, t1

\* A mail to one recipient; to two of one domain; to two domains.
OneRcpt    == (t1 :> <<{r1}>>)
OneDomain  == (t1 :> <<{r1, r2}>>)
TwoDomains == (t1 :> <<{r1}, {r2}>>)

\* The recipients of one domain are interchangeable.
PairSymmetry == Permutations({r1, r2})
=============================================================================
