-------------------------------- MODULE Fees --------------------------------
(***************************************************************************)
(* The fee arithmetic of src/common/transaction.py: the class Fees, which  *)
(* keeps a pair of EIP-1559 fees under a ceiling, bumps it and decides     *)
(* whether it is high enough to replace a pending transaction.             *)
(*                                                                         *)
(* Fees are whole numbers of wei.  The code multiplies by 1.125 and by 1.1 *)
(* in floating point and rounds up.  1.125 is a binary fraction, so its    *)
(* product is exact.  1.1 is not: for some multiples of ten the product    *)
(* comes out just above the exact value and ceil() adds one.  CarrySet is  *)
(* the set of values to which that happens; nothing else is assumed of it. *)
(***************************************************************************)
EXTENDS Integers

CONSTANTS
    MaxFeePerGas,       \* MAX_FEE_PER_GAS_GWEI, in wei
    CarrySet            \* values v for which ceil(v * 1.1) exceeds the exact result

ASSUME MaxFeeAssumption == MaxFeePerGas \in Nat

ASSUME CarryAssumption == \A v \in CarrySet : v \in Nat /\ v > 0 /\ v % 10 = 0

AllFees == [fee : Nat, priority : Nat]

Lesser(a, b) == IF a <= b THEN a ELSE b
Greater(a, b) == IF a <= b THEN b ELSE a

\* Fees.__init__ with _cap: what remains of the pair (f, p) under the ceiling.
Capped(f, p) ==
    LET fee == Lesser(f, MaxFeePerGas)
    IN  [fee |-> fee, priority |-> Lesser(p, fee)]

\* Fees._bump: ceil(v * 1.125).
BumpValue(v) == (9 * v + 7) \div 8

Bump(x) == Capped(BumpValue(x.fee), BumpValue(x.priority))

MaxWith(x, y) == Capped(Greater(x.fee, y.fee), Greater(x.priority, y.priority))

\* ceil(v * 1.1), the least value the code takes for a replacement of v.
MinReplacement(v) ==
    (11 * v + 9) \div 10 + (IF v \in CarrySet THEN 1 ELSE 0)

Replaces(x, prev) ==
    /\ x.fee >= MinReplacement(prev.fee)
    /\ x.priority >= MinReplacement(prev.priority)

\* The fees _submit_high_priority sends when it remembers prev for the nonce
\* and the gas manager answers fresh.
Escalate(fresh, prev) == MaxWith(Capped(fresh.fee, fresh.priority), Bump(prev))

\* No fees under the ceiling could replace prev.
Hopeless(prev) == ~Replaces(Capped(MaxFeePerGas, MaxFeePerGas), prev)

=============================================================================
