---------------------------- MODULE MCTxManager ----------------------------
(***************************************************************************)
(* Instances of TxManager for TLC.  In wei, so small that the ladder to    *)
(* the ceiling of 55 has few rungs: (40, 20) -> (45, 23) -> (51, 26).  A   *)
(* record of 50 is one where the float product carries: 50 * 1.1 rounds up *)
(* to 56, above the ceiling.                                               *)
(***************************************************************************)
EXTENDS TxManagerProperties, TLC

F(f, p) == [fee |-> f, priority |-> p]

MCFresh == {F(44, 20), F(50, 22)}
MCFreshOne == {F(44, 20)}
MCDefault == {F(30, 2)}
MCDefaultTwo == {F(30, 2), F(42, 21)}
MCCarry == {50}

Plain == [high |-> FALSE, estimate |-> FALSE]
Urgent == [high |-> TRUE, estimate |-> TRUE]
PlainCalls == {Plain}
AllCalls == {Plain, Urgent}

TaskSymmetry == Permutations(Tasks)
=============================================================================
