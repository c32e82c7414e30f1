----------------------------- MODULE TxManager -----------------------------
(***************************************************************************)
(* TransactionManager of src/common/transaction.py: the one object through *)
(* which every task of the keeper sends its transactions, running against  *)
(* an execution node.                                                      *)
(*                                                                         *)
(* A task's call of transact() is a coroutine: every await is a place      *)
(* where the node, the chain and the other tasks move.  pc[t] names the    *)
(* await at which task t stands:                                           *)
(*   idle      outside transact()                                          *)
(*   queued    waiting for the lock (asyncio.Lock serves in order)         *)
(*   estimate  eth_estimateGas                                             *)
(*   latest    eth_getTransactionCount 'latest'                            *)
(*   pending   eth_getTransactionCount 'pending'                           *)
(*   gas       gas_manager.get_high_priority_tx_params()                   *)
(*   high      sending with the escalated fees                             *)
(*   default   sending with the node's default fees, or the sleep between  *)
(*             two of these attempts                                       *)
(*   wait      wait_for_transaction_receipt                                *)
(***************************************************************************)
EXTENDS ExecutionNode

CONSTANTS
    FreshFees,          \* what the gas manager may suggest
    DefaultFees,        \* what web3 fills in when the code gives no fees
    Attempts,           \* ATTEMPTS_WITH_DEFAULT_GAS
    CallOptions,        \* the keyword arguments the callers use
    NoFees, NoTx, NoTask

ASSUME FeesAssumption == FreshFees \subseteq AllFees /\ DefaultFees \subseteq AllFees
ASSUME AttemptsAssumption == Attempts \in Nat
ASSUME OptionsAssumption == CallOptions \subseteq [high : BOOLEAN, estimate : BOOLEAN]
ASSUME SentinelAssumption == NoFees \notin AllFees /\ NoTx \notin Txs /\ NoTask \notin Tasks

VARIABLES
    holder, waiters,    \* _lock: who holds it, who waits, in order
    record,             \* _nonce_to_tx_params: fees last broadcast per nonce
    pc, options,        \* per task: where its call stands, its arguments
    nonce,              \* per task: latest_nonce
    tries,              \* per task: i in _submit_default_gas
    tx,                 \* per task: the transaction being sent or awaited
    result              \* how the last call ended; "fresh" before any did

callVars == <<options, nonce, tries, tx>>
managerVars == <<holder, waiters, record, pc, callVars, result>>
vars == <<managerVars, nodeVars>>

Idle == "idle"
Critical == {"estimate", "latest", "pending", "gas", "high", "default", "wait"}
Options == [high : BOOLEAN, estimate : BOOLEAN]
NoOptions == [high |-> FALSE, estimate |-> FALSE]

TypeOK ==
    /\ NodeTypeOK
    /\ holder \in Tasks \union {NoTask}
    /\ waiters \in Seq(Tasks)
    /\ record \in [Nonces -> AllFees \union {NoFees}]
    /\ pc \in [Tasks -> Critical \union {Idle, "queued"}]
    /\ options \in [Tasks -> Options]
    /\ nonce \in [Tasks -> Nonces]
    /\ tries \in [Tasks -> Nat]
    /\ tx \in [Tasks -> Txs \union {NoTx}]
    /\ result \in {"fresh", "none", "receipt", "raised"}

Init ==
    /\ NodeInit
    /\ holder = NoTask
    /\ waiters = <<>>
    /\ record = [n \in Nonces |-> NoFees]
    /\ pc = [t \in Tasks |-> Idle]
    /\ options = [t \in Tasks |-> NoOptions]
    /\ nonce = [t \in Tasks |-> 0]
    /\ tries = [t \in Tasks |-> 0]
    /\ tx = [t \in Tasks |-> NoTx]
    /\ result = "fresh"

-----------------------------------------------------------------------------
(* The lock.  It is taken at once when it is free, and passed to the first *)
(* waiter on release; the waiter resumes from its own step, Acquire.       *)

Transact(t) ==
    /\ pc[t] = Idle
    /\ pc' = [pc EXCEPT ![t] = "queued"]
    /\ \E o \in CallOptions : options' = [options EXCEPT ![t] = o]
    /\ IF holder = NoTask
       THEN holder' = t /\ UNCHANGED waiters
       ELSE waiters' = Append(waiters, t) /\ UNCHANGED holder
    /\ UNCHANGED <<record, nonce, tries, tx, result, nodeVars>>

\* Mutant of Acquire: the lock does not cover the wait for the receipt.
AcquireDuringWait(t) ==
    /\ pc[t] = "queued"
    /\ holder = t \/ (holder # NoTask /\ pc[holder] = "wait")
    /\ pc' = [pc EXCEPT ![t] = IF options[t].estimate THEN "estimate" ELSE "latest"]
    /\ UNCHANGED <<holder, waiters, record, callVars, result, nodeVars>>

Acquire(t) ==
    /\ pc[t] = "queued"
    /\ holder = t
    /\ pc' = [pc EXCEPT ![t] = IF options[t].estimate THEN "estimate" ELSE "latest"]
    /\ UNCHANGED <<holder, waiters, record, callVars, result, nodeVars>>

\* Mutant of Release: the lock is freed, and nobody woken.
ReleaseWithoutWaking == holder' = NoTask /\ UNCHANGED waiters

Release ==
    IF waiters = <<>>
    THEN holder' = NoTask /\ UNCHANGED waiters
    ELSE holder' = Head(waiters) /\ waiters' = Tail(waiters)

\* transact() ends for t: by returning a receipt or None, or by an exception.
Return(t, r) ==
    /\ Release
    /\ pc' = [pc EXCEPT ![t] = Idle]
    /\ result' = r
    /\ options' = [options EXCEPT ![t] = NoOptions]
    /\ nonce' = [nonce EXCEPT ![t] = 0]
    /\ tries' = [tries EXCEPT ![t] = 0]
    /\ tx' = [tx EXCEPT ![t] = NoTx]

\* A step of t's call that neither takes nor releases the lock.
Goto(t, place) ==
    /\ pc' = [pc EXCEPT ![t] = place]
    /\ UNCHANGED <<holder, waiters, options, result>>

-----------------------------------------------------------------------------
(* transact() and _transact()                                              *)

\* Where the loop of _submit_default_gas stands after n refusals.
AfterTries(n) == IF n < Attempts THEN "default" ELSE "gas"

EstimateGas(t) ==
    /\ pc[t] = "estimate"
    /\ Goto(t, "latest")
    /\ UNCHANGED <<record, nonce, tries, tx, nodeVars>>

\* Mutant of ReadLatest: queues behind what is pending.
ReadPendingAsNonce(t) ==
    /\ pc[t] = "latest"
    /\ nonce' = [nonce EXCEPT ![t] = Pending]
    /\ Goto(t, "pending")
    /\ UNCHANGED <<record, tries, tx, nodeVars>>

ReadLatest(t) ==
    /\ pc[t] = "latest"
    /\ nonce' = [nonce EXCEPT ![t] = Latest]
    /\ Goto(t, "pending")
    /\ UNCHANGED <<record, tries, tx, nodeVars>>

\* The second count arrives: forget the mined nonces and choose the strategy.
ReadPending(t) ==
    /\ pc[t] = "pending"
    /\ record' = [n \in Nonces |-> IF n >= nonce[t] THEN record[n] ELSE NoFees]
    /\ Goto(t, IF Pending > nonce[t] \/ options[t].high THEN "gas" ELSE AfterTries(0))
    /\ UNCHANGED <<nonce, tries, tx, nodeVars>>

\* Any awaited request may fail with something other than a fee-too-low
\* answer; the exception leaves transact() and releases the lock.  A refused
\* transaction (used nonce, reverting call, node out of reach) is such a one.
AwaitRaises(t) ==
    /\ pc[t] \in Critical
    /\ Return(t, "raised")
    /\ UNCHANGED <<record, nodeVars>>

-----------------------------------------------------------------------------
(* _submit_high_priority()                                                 *)

\* Mutant of Offer: the bump of the remembered fees is forgotten.
OfferFreshOnly(t, fresh) == Capped(fresh.fee, fresh.priority)

Offer(t, fresh) ==
    IF record[nonce[t]] = NoFees
    THEN Capped(fresh.fee, fresh.priority)
    ELSE Escalate(fresh, record[nonce[t]])

\* Mutant of Pinned: the test of the replacement threshold is dropped.
NeverPinned(t, fresh) == FALSE

Pinned(t, fresh) ==
    /\ record[nonce[t]] # NoFees
    /\ ~Replaces(Offer(t, fresh), record[nonce[t]])

GiveUp(t) ==
    /\ pc[t] = "gas"
    /\ \E fresh \in FreshFees : Pinned(t, fresh)
    /\ Return(t, "none")
    /\ UNCHANGED <<record, nodeVars>>

MakeOffer(t) ==
    /\ pc[t] = "gas"
    /\ \E fresh \in FreshFees :
        /\ ~Pinned(t, fresh)
        /\ tx' = [tx EXCEPT ![t] =
                    [nonce |-> nonce[t], task |-> t, fees |-> Offer(t, fresh)]]
    /\ Goto(t, "high")
    /\ UNCHANGED <<record, nonce, tries, nodeVars>>

SendHigh(t) ==
    /\ pc[t] = "high"
    /\ Accept(tx[t])
    /\ record' = [record EXCEPT ![nonce[t]] = tx[t].fees]
    /\ Goto(t, "wait")
    /\ UNCHANGED <<nonce, tries, tx>>

\* Mutant of RefusedHigh: refused fees are not recorded.
RefusedUnrecorded(t) ==
    /\ pc[t] = "high"
    /\ MayRefuse(nonce[t])
    /\ Return(t, "none")
    /\ UNCHANGED <<record, nodeVars>>

\* Refused for its fee: the fees are recorded all the same, and None returned.
RefusedHigh(t) ==
    /\ pc[t] = "high"
    /\ MayRefuse(nonce[t])
    /\ record' = [record EXCEPT ![nonce[t]] = tx[t].fees]
    /\ Return(t, "none")
    /\ UNCHANGED nodeVars

-----------------------------------------------------------------------------
(* _submit_default_gas()                                                   *)

DefaultTx(t, fees) == [nonce |-> nonce[t], task |-> t, fees |-> fees]

SendDefault(t) ==
    /\ pc[t] = "default"
    /\ \E fees \in DefaultFees :
        /\ Accept(DefaultTx(t, fees))
        /\ tx' = [tx EXCEPT ![t] = DefaultTx(t, fees)]
    /\ Goto(t, "wait")
    /\ UNCHANGED <<record, nonce, tries>>

\* Mutant of RefusedDefault: the nonces are read again after each refusal.
RefusedReadsAgain(t) ==
    /\ pc[t] = "default"
    /\ MayRefuse(nonce[t])
    /\ Goto(t, "latest")
    /\ UNCHANGED <<record, nonce, tries, tx, nodeVars>>

\* Refused for its fee.  The sleep of one block before the next attempt is
\* part of the place "default"; the last refusal escalates.
RefusedDefault(t) ==
    /\ pc[t] = "default"
    /\ MayRefuse(nonce[t])
    /\ tries' = [tries EXCEPT ![t] = @ + 1]
    /\ Goto(t, AfterTries(tries[t] + 1))
    /\ UNCHANGED <<record, nonce, tx, nodeVars>>

\* The node takes the transaction but its answer is lost: the exception
\* leaves transact() and nothing is recorded.
AnswerLost(t) ==
    /\ \/ pc[t] = "high" /\ Accept(tx[t])
       \/ pc[t] = "default" /\ \E fees \in DefaultFees : Accept(DefaultTx(t, fees))
    /\ Return(t, "raised")
    /\ UNCHANGED record

-----------------------------------------------------------------------------
(* _wait_for_receipt()                                                     *)

\* Mutant of Confirmed: the status of the receipt is not looked at.
ConfirmedAnyStatus(t) ==
    /\ pc[t] = "wait"
    /\ \E ok \in BOOLEAN : Mined(tx[t], ok)
    /\ Return(t, "receipt")
    /\ UNCHANGED <<record, nodeVars>>

Confirmed(t) ==
    /\ pc[t] = "wait"
    /\ Mined(tx[t], TRUE)
    /\ Return(t, "receipt")
    /\ UNCHANGED <<record, nodeVars>>

\* The receipt has status 0.
Reverted(t) ==
    /\ pc[t] = "wait"
    /\ Mined(tx[t], FALSE)
    /\ Return(t, "none")
    /\ UNCHANGED <<record, nodeVars>>

\* TimeExhausted.  Time is not modelled: any wait may last too long.
TimedOut(t) ==
    /\ pc[t] = "wait"
    /\ Return(t, "none")
    /\ UNCHANGED <<record, nodeVars>>

-----------------------------------------------------------------------------

Step(t) ==
    \/ Acquire(t) \/ EstimateGas(t) \/ ReadLatest(t) \/ ReadPending(t)
    \/ GiveUp(t) \/ MakeOffer(t) \/ SendHigh(t) \/ RefusedHigh(t)
    \/ SendDefault(t) \/ RefusedDefault(t) \/ AnswerLost(t)
    \/ Confirmed(t) \/ Reverted(t) \/ TimedOut(t) \/ AwaitRaises(t)

Environment == (Mine \/ Evict) /\ UNCHANGED managerVars

\* The keeper process dies and starts again: the lock, the records and the
\* coroutines are gone; what was sent stays with the node.
Restart ==
    /\ holder' = NoTask
    /\ waiters' = <<>>
    /\ record' = [n \in Nonces |-> NoFees]
    /\ pc' = [t \in Tasks |-> Idle]
    /\ options' = [t \in Tasks |-> NoOptions]
    /\ nonce' = [t \in Tasks |-> 0]
    /\ tries' = [t \in Tasks |-> 0]
    /\ tx' = [t \in Tasks |-> NoTx]
    /\ result' = "fresh"
    /\ UNCHANGED nodeVars

Next ==
    \/ \E t \in Tasks : Transact(t) \/ Step(t)
    \/ Environment
    \/ Restart

Spec == Init /\ [][Next]_vars

\* Every coroutine whose await is over is eventually resumed, and every await
\* ends: requests and the receipt wait have timeouts.
FairSpec == Spec /\ \A t \in Tasks : WF_vars(Step(t))

=============================================================================
