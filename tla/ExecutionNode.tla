--------------------------- MODULE ExecutionNode ---------------------------
(***************************************************************************)
(* The execution node and the chain behind it, as far as the keeper's      *)
(* wallet can tell (external: modelled from how src/common/transaction.py  *)
(* uses them).  Only the keeper sends from its wallet.                     *)
(*                                                                         *)
(* pool   the wallet's transactions in the node's mempool                  *)
(* loose  transactions the pool replaced or evicted that some block        *)
(*        builder still holds and may mine                                 *)
(* chain  the wallet's mined transactions, chain[n + 1] has nonce n        *)
(***************************************************************************)
EXTENDS Fees, Sequences, FiniteSets

CONSTANTS
    Tasks,              \* the keeper's tasks that send transactions
    MaxMined,           \* bound: length of the chain
    MaxLoose            \* bound: replaced or evicted transactions at large

ASSUME ChainBounds == MaxMined \in Nat /\ MaxLoose \in Nat

Nonces == 0 .. MaxMined

\* The call data of a transaction is abstracted to the task that built it.
Txs == [nonce : Nonces, task : Tasks, fees : AllFees]

VARIABLES chain, pool, loose
nodeVars == <<chain, pool, loose>>

NodeTypeOK ==
    /\ chain \in Seq([tx : Txs, ok : BOOLEAN])
    /\ Len(chain) <= MaxMined
    /\ pool \subseteq Txs
    /\ loose \subseteq Txs

NodeInit == chain = <<>> /\ pool = {} /\ loose = {}

\* eth_getTransactionCount(address, 'latest')
Latest == Len(chain)

\* eth_getTransactionCount(address, 'pending')
Pending == CHOOSE n \in Latest .. MaxMined + 1 :
    /\ \A x \in pool : x.nonce # n
    /\ \A m \in Latest .. n - 1 : \E x \in pool : x.nonce = m

\* The node's rule for a replacement: both fees at least ten percent higher.
Outbids(new, old) ==
    /\ 10 * new.fee >= 11 * old.fee
    /\ 10 * new.priority >= 11 * old.priority

Rivals(tx) == {x \in pool : x.nonce = tx.nonce}

\* Transactions that leave the pool may stay with some block builder.
LetLoose(xs) ==
    /\ loose' \in {loose, loose \union xs}
    /\ Cardinality(loose') <= MaxLoose

\* The node takes the transaction into its pool.
Accept(tx) ==
    /\ tx.nonce >= Latest
    /\ \A x \in Rivals(tx) : Outbids(tx.fees, x.fees)
    /\ pool' = (pool \ Rivals(tx)) \union {tx}
    /\ LetLoose(Rivals(tx))
    /\ UNCHANGED chain

\* The node answers that the fee is too low.  It must when the transaction
\* does not outbid its rival, and it may at any time (FeeTooLowToCompete).
\* A used nonce is refused for another reason.
MayRefuse(nonce) == nonce >= Latest

\* A block takes the next transaction of the wallet, from the pool or not.
Mine ==
    /\ Len(chain) < MaxMined
    /\ \E x \in pool \union loose, ok \in BOOLEAN :
        /\ x.nonce = Latest
        /\ chain' = Append(chain, [tx |-> x, ok |-> ok])
        /\ pool' = {y \in pool : y.nonce > x.nonce}
        /\ loose' = {y \in loose : y.nonce > x.nonce}

\* The node drops a pending transaction.
Evict ==
    \E x \in pool :
        /\ pool' = pool \ {x}
        /\ LetLoose({x})
        /\ UNCHANGED chain

Mined(tx, ok) == \E i \in 1 .. Len(chain) : chain[i] = [tx |-> tx, ok |-> ok]

=============================================================================
