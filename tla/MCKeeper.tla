------------------------------ MODULE MCKeeper ------------------------------
(***************************************************************************)
(* Instances of Keeper for TLC.                                            *)
(***************************************************************************)
EXTENDS KeeperProperties

CONSTANTS v1, v2, o1, o2

\* One validator lacks a share at first.
OneShort == [v \in {v1, v2} |-> IF v = v1 THEN {o1} ELSE {o1, o2}]
=============================================================================
