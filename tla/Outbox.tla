------------------------------- MODULE Outbox -------------------------------
(***************************************************************************)
(* The transactions of one task that sends them one after the other, seen  *)
(* as Wallet specifies the transaction manager: those under way compete    *)
(* for the wallet's next nonce, at most one of them is mined, and the task *)
(* waits for the receipt of the one it sent last.                          *)
(***************************************************************************)
EXTENDS Naturals, FiniteSets

CONSTANTS
    MaxInFlight,    \* bound: transactions under way at once
    NoTx

ASSUME MaxInFlightAssumption == MaxInFlight \in Nat

VARIABLES
    sent,       \* the transaction whose receipt is awaited
    inFlight,   \* transactions that may still be mined
    mined       \* what became of the awaited one

outbox == <<sent, inFlight, mined>>

OutboxTypeOK(txs) ==
    /\ sent \in txs \union {NoTx}
    /\ inFlight \subseteq txs
    /\ mined \in {"no", "ok", "failed"}
    /\ sent = NoTx => mined = "no"

OutboxInit == sent = NoTx /\ inFlight = {} /\ mined = "no"

\* The node takes x.  Of its older competitors, any may survive it.
Compete(x) ==
    /\ sent = NoTx
    /\ inFlight' \in {kept \union {x} : kept \in SUBSET inFlight}
    /\ Cardinality(inFlight') <= MaxInFlight

\* The call broadcasts x and waits for its receipt.
Submit(x) ==
    /\ Compete(x)
    /\ sent' = x
    /\ mined' = "no"

\* The call ends; what it broadcast may still be mined.
CallEnds ==
    /\ sent' = NoTx
    /\ mined' = "no"
    /\ UNCHANGED inFlight

\* The call ends before the task waits for a receipt: nothing was sent, or x
\* was and the answer is lost.
CallFails(x, acceptable) ==
    /\ sent = NoTx
    /\ UNCHANGED <<sent, mined>>
    /\ UNCHANGED inFlight \/ (acceptable /\ Compete(x))

\* x is mined; its competitors have lost their nonce.
Settle(x, ok) ==
    /\ x \in inFlight
    /\ inFlight' = {}
    /\ mined' = IF sent = x THEN IF ok THEN "ok" ELSE "failed" ELSE mined
    /\ UNCHANGED sent

\* Some are evicted, or all, because another task's transaction took their
\* nonce.
Lose ==
    /\ inFlight' \in (SUBSET inFlight) \ {inFlight}
    /\ UNCHANGED <<sent, mined>>

\* All that a task can see of its transactions.
OutboxNext ==
    \/ CallEnds \/ Lose
    \/ \E x \in inFlight' : Submit(x) \/ CallFails(x, TRUE)
    \/ \E x \in inFlight, ok \in BOOLEAN : Settle(x, ok)

=============================================================================
