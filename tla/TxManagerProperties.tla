------------------------ MODULE TxManagerProperties ------------------------
(***************************************************************************)
(* What TxManager has to satisfy.                                          *)
(***************************************************************************)
EXTENDS TxManager

\* Only the task that holds the lock is anywhere past it, whatever the order
\* in which calls arrive, fail, time out and pass the lock on
\* (transaction.py:135, "only one wallet tx is in flight at a time").
OneCallInside == \A t \in Tasks : pc[t] \in Critical => holder = t

\* Every call under way holds the lock or stands in its queue, once, and the
\* queue is empty when nobody holds the lock: no call is left waiting for a lock
\* that is free, however the calls before it end (transaction.py:135).
Queued == {waiters[i] : i \in 1 .. Len(waiters)}
NobodyForgotten ==
    /\ {t \in Tasks : pc[t] # Idle} = Queued \union ({holder} \ {NoTask})
    /\ \A t \in Queued : pc[t] = "queued" /\ holder # t
    /\ \A i, j \in 1 .. Len(waiters) : waiters[i] = waiters[j] => i = j
    /\ holder = NoTask => waiters = <<>>

\* Everything of ours that can still be mined competes for the same, next
\* nonce: nothing is ever queued behind a stuck transaction, also when the
\* chain moves between the two nonce reads, or when the process restarts
\* with a transaction pending.  Hence of all competing calls only one takes
\* effect.
OneNonceInFlight == \A x \in pool \union loose : x.nonce = Latest

\* While a call waits for the receipt of its transaction no other call of the
\* same process replaces it: it leaves the pool by being mined or dropped.
AwaitedNotReplaced ==
    [][\A t \in Tasks :
        (pc[t] = "wait" /\ tx[t] \in pool /\ tx[t] \notin pool') => pool' = {}]_vars

\* The fees remembered for a nonce are only ever replaced by fees that clear
\* the code's own replacement threshold, although they are read before an
\* await and written after it, and although rejected fees are recorded too.
EscalationRises ==
    [][\A n \in Nonces :
        (record[n] # NoFees /\ record'[n] \notin {NoFees, record[n]})
            => Replaces(record'[n], record[n])]_vars

\* t's call ends at the gas await with None: it gave the nonce up as pinned.
GaveUp(t) == pc[t] = "gas" /\ pc'[t] = Idle /\ result' = "none"

\* What a call is about to send with escalated fees is never underpriced by the
\* node's own rule, ten percent on both fees, if the fees of the transaction it
\* is to replace are on record: the code's threshold, rounded after a product of
\* floats, is not below the node's, and the fees are still those that were
\* compared when the answer of the gas manager arrived (transaction.py:76-92,
\* 187-206).
NeverUnderpriced ==
    \A t \in Tasks, x \in pool :
        (pc[t] = "high" /\ x.nonce = nonce[t] /\ x.fees = record[x.nonce])
            => Outbids(tx[t].fees, x.fees)

\* How many more steps the call of the lock's holder may take, at most.
StepsLeft(t) ==
    CASE pc[t] = "estimate" -> Attempts + 6
      [] pc[t] = "latest" -> Attempts + 5
      [] pc[t] = "pending" -> Attempts + 4
      [] pc[t] = "default" -> Attempts - tries[t] + 3
      [] pc[t] = "gas" -> 3
      [] pc[t] = "high" -> 2
      [] pc[t] = "wait" -> 1
      [] OTHER -> 0

\* Whatever the node answers, the call that holds the lock runs down to its end:
\* no chain of refusals, escalations and failures leads it back to where it has
\* been, so that the tasks behind it wait for a bounded number of awaits
\* (transaction.py:141-257).
CallsRunDown ==
    [][\A t \in Tasks :
        (pc[t] \in Critical /\ <<pc[t], tries[t], tx[t]>>' # <<pc[t], tries[t], tx[t]>>)
            => 0 <= StepsLeft(t)' /\ StepsLeft(t)' < StepsLeft(t)]_vars

\* A call gives a nonce up as pinned only when no fees at all under the
\* ceiling would clear the threshold: clamping one fee, or the other to it,
\* never makes the code stop early (transaction.py:76-92, 187-202).
GivesUpOnlyWhenHopeless ==
    [][\A t \in Tasks : GaveUp(t) => Hopeless(record[nonce[t]])]_vars

\* A nonce is given up for the sake of a pending transaction: "the pending tx
\* is pinned at the fee ceiling" (transaction.py:173), "Leave the pending tx in
\* place; it will mine once the base fee drops" (transaction.py:194).  So when
\* the node said that nothing was pending (tries # 0: the default fees were
\* tried), something of ours can still be mined, or has been mined meanwhile.
GivenUpHasPending ==
    [][\A t \in Tasks : (GaveUp(t) /\ tries[t] # 0) =>
        (Latest > nonce[t] \/ \E x \in pool \union loose : x.nonce = nonce[t])]_vars

\* The calls, seen from the tasks and the wallet, are those of the abstract
\* wallet: one at a time, one transaction each at the next nonce, a receipt
\* only for the call's own transaction.
Served == IF holder # NoTask /\ pc[holder] \in Critical THEN holder ELSE NoTask
Own == IF Served # NoTask /\ pc[Served] = "wait" THEN tx[Served] ELSE NoTx
Open == pool \union loose
Abstract == INSTANCE Wallet WITH serving <- Served, own <- Own, open <- Open
ImplementsWallet == Abstract!WalletSpec

\* What task t can see of it: the transaction it waits for, those of its own
\* that may still be mined, and what has become of the awaited one.
SentBy(t) == IF pc[t] = "wait" THEN tx[t] ELSE NoTx
UnderWay(t) == {x \in pool \union loose : x.task = t}
Outcome(t) ==
    IF SentBy(t) = NoTx \/ tx[t].nonce >= Latest \/ chain[tx[t].nonce + 1].tx # tx[t]
    THEN "no"
    ELSE IF chain[tx[t].nonce + 1].ok THEN "ok" ELSE "failed"
View(t) == INSTANCE Outbox WITH
    sent <- SentBy(t), inFlight <- UnderWay(t), mined <- Outcome(t), MaxInFlight <- MaxLoose + 1

\* Each task, whatever the others send, replace and wait for, sees an outbox
\* of its own, which is what the models of the tasks assume: its transactions
\* compete with each other, one of them is mined at most, and those of the
\* others only make its own disappear (transaction.py:95-257).
SeenAsOutbox ==
    /\ \A t \in Tasks : View(t)!OutboxInit
    /\ [][\A t \in Tasks : View(t)!OutboxNext \/ UNCHANGED View(t)!outbox]_vars

-----------------------------------------------------------------------------

\* The lock is fair and every holder lets it go: each call ends, whatever the
\* other calls do (transaction.py:135-139).
CallReturns == \A t \in Tasks : pc[t] # Idle ~> pc[t] = Idle

\* Tasks keep calling (main.py loops for ever), and no kind of request fails
\* every time it is made.
PersistentSpec ==
    /\ FairSpec
    /\ \A t \in Tasks :
        /\ WF_vars(Transact(t))
        /\ SF_vars(EstimateGas(t))
        /\ SF_vars(ReadLatest(t))
        /\ SF_vars(ReadPending(t))
        /\ SF_vars(GiveUp(t) \/ MakeOffer(t))
        /\ SF_vars(SendHigh(t) \/ RefusedHigh(t))

\* A transaction that stays pending is bid up, run after run, until it leaves
\* the pool or the ceiling is reached, also when its fees are unknown to the
\* process because they were the node's default or predate a restart
\* (transaction.py:106-107, 210-218) - unless the process restarts for ever.
StuckIsOutbid ==
    <>[][~Restart]_vars =>
        \/ []<>(pool = {} \/ (record[Latest] # NoFees /\ Hopeless(record[Latest])))
        \/ []<><<pool' # pool>>_vars

=============================================================================
