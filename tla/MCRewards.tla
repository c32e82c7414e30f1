----------------------------- MODULE MCRewards -----------------------------
(***************************************************************************)
(* Instances of Rewards for TLC.                                           *)
(***************************************************************************)
EXTENDS RewardsProperties, TLC

CONSTANTS s1, s1b, s2

Body(t, r) == [ts |-> t, root |-> r]

TwoOracles == [s \in {s1, s2} |-> IF s = s1 THEN 1 ELSE 2]
\* Oracle 1 has two endpoints.
TwoEndpoints == [s \in {s1, s1b, s2} |-> IF s = s2 THEN 2 ELSE 1]

OneSignature == [s \in {s1, s2} |-> {"one"}]
\* The second endpoint of oracle 1 may give another signature of the same
\* vote, one that is not genuine.
TwoSignatures == [s \in {s1, s1b, s2} |-> IF s = s1b THEN {"one", "bad"} ELSE {"one"}]

TwoBodies == {Body(1, "a"), Body(2, "a")}
=============================================================================
