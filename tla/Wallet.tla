------------------------------- MODULE Wallet -------------------------------
(***************************************************************************)
(* What TransactionManager promises to the tasks and to the wallet         *)
(* (docstring of the class in src/common/transaction.py), without saying   *)
(* how: calls are served one at a time, each broadcasts at most one        *)
(* transaction, always at the wallet's next nonce, and reports a receipt   *)
(* only for its own transaction, mined and successful.                     *)
(***************************************************************************)
EXTENDS Naturals, Sequences

CONSTANTS Tasks, NoTask, NoTx

VARIABLES
    serving,    \* the task whose call is being served
    own,        \* the transaction that call broadcast
    open,       \* transactions that may still be mined
    chain,      \* the wallet's mined transactions, in nonce order
    result      \* how the call that ended last ended

wallet == <<serving, own, open, chain, result>>

WalletInit ==
    /\ serving = NoTask
    /\ own = NoTx
    /\ open = {}
    /\ chain = <<>>
    /\ result = "fresh"

Begin(t) ==
    /\ serving = NoTask
    /\ serving' = t
    /\ UNCHANGED <<own, open, chain, result>>

\* The transactions it competes with for the nonce may or may not survive.
Sent(x) ==
    /\ own = NoTx
    /\ x.task = serving
    /\ x.nonce = Len(chain)
    /\ open' \subseteq open \union {x}
    /\ UNCHANGED chain

Broadcast ==
    /\ serving # NoTask
    /\ \E x \in open' : Sent(x) /\ own' = x
    /\ UNCHANGED <<serving, result>>

End(t, r) ==
    /\ serving = t
    /\ serving' = NoTask
    /\ own' = NoTx
    /\ result' = r

\* The call ends.  Without a receipt, its transaction may still be open.
Finish(t) ==
    /\ \E r \in {"none", "receipt", "raised"} :
        /\ End(t, r)
        /\ r = "receipt" =>
              \E i \in 1 .. Len(chain) : chain[i] = [tx |-> own, ok |-> TRUE]
    /\ UNCHANGED <<open, chain>>

\* The call broadcasts and fails before it learns so.
BroadcastAndRaise(t) ==
    /\ End(t, "raised")
    /\ \E x \in open' : Sent(x)

\* One of the competitors is mined, and the others can no longer be.
Settle ==
    /\ \E x \in open, ok \in BOOLEAN :
        /\ x.nonce = Len(chain)
        /\ chain' = Append(chain, [tx |-> x, ok |-> ok])
    /\ open' = {}
    /\ UNCHANGED <<serving, own, result>>

Vanish ==
    /\ open' \subseteq open
    /\ UNCHANGED <<serving, own, chain, result>>

Crash ==
    /\ serving' = NoTask
    /\ own' = NoTx
    /\ result' = "fresh"
    /\ UNCHANGED <<open, chain>>

WalletNext ==
    \/ \E t \in Tasks : Begin(t) \/ Finish(t) \/ BroadcastAndRaise(t)
    \/ Broadcast \/ Settle \/ Vanish \/ Crash

WalletSpec == WalletInit /\ [][WalletNext]_wallet

=============================================================================
