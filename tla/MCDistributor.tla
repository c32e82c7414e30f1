--------------------------- MODULE MCDistributor ---------------------------
(***************************************************************************)
(* Instances of Distributor for TLC.                                       *)
(***************************************************************************)
EXTENDS DistributorProperties

CONSTANTS s1, s1b, s2

\* Oracle 1 has two endpoints.
TwoOracles == [o \in {1, 2} |-> IF o = 1 THEN <<s1, s1b>> ELSE <<s2>>]

Body(r, h) == [root |-> r, ipfs |-> h]

TwoRoots == {Body("a", "x"), Body("b", "x")}

\* What an endpoint that lags may still show of the round before.
LastRound == {[nonce |-> 0, ts |-> 0, body |-> Body("a", "x")]}
=============================================================================
