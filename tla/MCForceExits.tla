--------------------------- MODULE MCForceExits ---------------------------
(***************************************************************************)
(* Instances of ForceExits for TLC.                                        *)
(***************************************************************************)
EXTENDS ForceExitsProperties

CONSTANTS p1, p2

\* p1 recovers and becomes risky again; p2 recovers when claimed or was never risky.
TwoPositions ==
    [p \in {p1, p2} |->
        IF p = p1 THEN {{"borrow", "vault", "forceable"}, {"urgent"}}
                  ELSE {{"vault", "forceable"}, {}}]
OnePosition == [p \in {p1} |-> {{"borrow", "forceable"}, {"borrow"}}]
=============================================================================
