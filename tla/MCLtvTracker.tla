---------------------------- MODULE MCLtvTracker ----------------------------
(***************************************************************************)
(* Instances of LtvTracker for TLC.                                        *)
(***************************************************************************)
EXTENDS LtvTrackerProperties

CONSTANTS v1, v2

TwoVaults == <<v1, v2>>
=============================================================================
