------------------------ MODULE TxManagerRefinement ------------------------
(***************************************************************************)
(* TransactionManager implements the abstract wallet: every step of a call *)
(* of transact(), of the node and of a restart is a step of Wallet, or one *)
(* that the tasks and the wallet do not see.                               *)
(***************************************************************************)
EXTENDS TxManagerProofs, FiniteSetTheorems

\* The served task is the one that holds the lock and is past it.
LEMMA ServedCritical ==
    ASSUME Inv, NEW t \in Tasks, pc[t] \in Critical
    PROVE  Served = t /\ t # NoTask
BY SentinelAssumption DEF Inv, OneCallInside, Served

\* The lock passes on: whoever gets it has not entered yet.
LEMMA ServedReturn ==
    ASSUME Inv, NEW t \in Tasks, pc[t] \in Critical, NEW r \in Results, Return(t, r),
           ManagerTypeOK'
    PROVE  Served' = NoTask /\ Own' = NoTx
<1>1. ASSUME NEW h \in Tasks PROVE pc'[h] \notin Critical
  BY DEF Inv, TypeOK, OneCallInside, Return, Critical, Idle
<1>2. Served' = NoTask
  BY <1>1 DEF Served, ManagerTypeOK
<1> QED
  BY <1>2 DEF Own

\* A call that moves on stays the served one.
LEMMA ServedGoto ==
    ASSUME Inv, NEW t \in Tasks, pc[t] \in Critical, NEW place \in Critical, Goto(t, place)
    PROVE  Served = t /\ Served' = t /\ t # NoTask /\ pc'[t] = place
<1>1. Served = t /\ t # NoTask /\ holder = t
  BY ServedCritical DEF Inv, OneCallInside
<1> QED
  BY <1>1 DEF Goto, Served, Inv, TypeOK

\* The initial states of the manager are initial states of the wallet.
LEMMA InitRefines == Init => Abstract!WalletInit
BY DEF Init, NodeInit, Abstract!WalletInit, Served, Own, Open

\* Steps that take the lock, end a call, or send nothing.
LEMMA QuietStep ==
    ASSUME Inv, NEW t \in Tasks,
           \/ EstimateGas(t) \/ ReadLatest(t) \/ ReadPending(t)
           \/ MakeOffer(t) \/ RefusedDefault(t)
    PROVE  UNCHANGED Abstract!wallet
<1>1. PICK place \in Critical \ {"wait"} : Goto(t, place)
  BY DEF EstimateGas, ReadLatest, ReadPending, MakeOffer, RefusedDefault, AfterTries,
         Critical
<1>2. pc[t] \in Critical \ {"wait"} /\ UNCHANGED nodeVars /\ result' = result
  BY DEF EstimateGas, ReadLatest, ReadPending, MakeOffer, RefusedDefault, Goto, Critical
<1>3. Served = t /\ Served' = t /\ pc'[t] = place
  BY <1>1, <1>2, ServedGoto
<1>4. Own = NoTx /\ Own' = NoTx
  BY <1>1, <1>2, <1>3 DEF Own
<1> QED
  BY <1>2, <1>3, <1>4 DEF Abstract!wallet, nodeVars, Open

\* A new call is invisible until it is served.
LEMMA TransactRefines ==
    ASSUME Inv, NEW t \in Tasks, Transact(t)
    PROVE  UNCHANGED Abstract!wallet
<1>1. pc'[t] = "queued" /\ pc[t] = Idle /\ tx' = tx /\ result' = result
  BY DEF Transact, Inv, TypeOK
<1>2. \A u \in Tasks : u # t => pc'[u] = pc[u]
  BY DEF Transact, Inv, TypeOK
<1>3. holder \in Tasks \union {NoTask} /\ holder' \in {holder, t}
  BY DEF Transact, Inv, TypeOK
<1>4. Served' = Served
  <2>1. CASE holder = NoTask
    BY <1>1, <1>3, <2>1 DEF Served, Critical
  <2>2. CASE holder # NoTask
    <3>1. holder' = holder
      BY <2>2 DEF Transact
    <3> QED
      BY <1>1, <1>2, <1>3, <2>2, <3>1 DEF Served, Critical, Idle
  <2> QED
    BY <2>1, <2>2
<1>5. Served # NoTask => Served \in Tasks /\ Served # t
  BY <1>1, <1>3 DEF Served, Critical, Idle
<1>6. Own' = Own
  BY <1>1, <1>2, <1>4, <1>5 DEF Own
<1> QED
  BY <1>1, <1>4, <1>6 DEF Transact, Abstract!wallet, nodeVars, Open

\* Taking the lock is Begin.
LEMMA AcquireRefines ==
    ASSUME Inv, NEW t \in Tasks, Acquire(t)
    PROVE  Abstract!Begin(t)
<1>1. /\ pc[t] = "queued" /\ pc'[t] \in Critical \ {"wait"}
      /\ holder = t /\ holder' = t /\ t # NoTask
  BY SentinelAssumption DEF Acquire, Inv, TypeOK, Critical
<1>2. Served = NoTask /\ Served' = t
  BY <1>1 DEF Served, Critical
<1>3. Own = NoTx /\ Own' = NoTx
  BY <1>1, <1>2 DEF Own
<1> QED
  BY <1>2, <1>3 DEF Abstract!Begin, Acquire, nodeVars, Open

\* A call that ends without sending at this step.
LEMMA FinishRefines ==
    ASSUME Inv, Inv', NEW t \in Tasks,
           \/ GiveUp(t) \/ RefusedHigh(t) \/ AwaitRaises(t)
           \/ Confirmed(t) \/ Reverted(t) \/ TimedOut(t)
    PROVE  Abstract!Finish(t)
<1>1. PICK r \in {"none", "receipt", "raised"} :
          /\ Return(t, r)
          /\ r = "receipt" => pc[t] = "wait" /\ Mined(tx[t], TRUE)
  BY DEF GiveUp, RefusedHigh, AwaitRaises, Confirmed, Reverted, TimedOut
<1>2. pc[t] \in Critical /\ UNCHANGED nodeVars
  BY DEF GiveUp, RefusedHigh, AwaitRaises, Confirmed, Reverted, TimedOut, Critical
<1>3. Served = t /\ t # NoTask
  BY <1>2, ServedCritical
<1>4. Served' = NoTask /\ Own' = NoTx
  BY <1>1, <1>2, ServedReturn, TypeParts DEF Inv, Results
<1>5. Abstract!End(t, r)
  BY <1>1, <1>3, <1>4 DEF Abstract!End, Return
<1>6. r = "receipt" => \E i \in 1 .. Len(chain) : chain[i] = [tx |-> Own, ok |-> TRUE]
  BY <1>1, <1>3 DEF Own, Mined
<1> QED
  BY <1>1, <1>2, <1>5, <1>6 DEF Abstract!Finish, nodeVars, Open

\* What the node accepts is the call's own, at the next nonce.
LEMMA AcceptRefines ==
    ASSUME Inv, NEW t \in Tasks, pc[t] \in {"high", "default"}, NEW x \in Txs,
           x.nonce = nonce[t], x.task = t, Accept(x)
    PROVE  x \in Open' /\ Abstract!Sent(x)
<1>1. Served = t /\ Own = NoTx
  BY ServedCritical DEF Critical, Own
<1>2. x.nonce = Len(chain)
  BY DEF Accept, Inv, NonceNotAhead, TypeOK, NodeTypeOK, Latest, Txs, Nonces
<1>3. x \in Open' /\ Open' \subseteq Open \union {x} /\ chain' = chain
  BY DEF Accept, LetLoose, Rivals, Open
<1> QED
  BY <1>1, <1>2, <1>3 DEF Abstract!Sent

\* A served call that is not waiting has broadcast nothing.
LEMMA OwnTx ==
    ASSUME Inv, NEW t \in Tasks
    PROVE  /\ pc[t] = "high" => tx[t] \in Txs /\ tx[t].nonce = nonce[t] /\ tx[t].task = t
           /\ \A fees \in DefaultFees :
                /\ DefaultTx(t, fees) \in Txs
                /\ DefaultTx(t, fees).nonce = nonce[t]
                /\ DefaultTx(t, fees).task = t
BY DefaultTxType DEF Inv, HighOK, DefaultTx

\* Sending, with either strategy, is Broadcast.
LEMMA SendRefines ==
    ASSUME Inv, NEW t \in Tasks, SendHigh(t) \/ SendDefault(t)
    PROVE  Abstract!Broadcast
<1>1. PICK x \in Txs : Accept(x) /\ x.nonce = nonce[t] /\ x.task = t /\ tx'[t] = x
  <2>1. CASE SendHigh(t)
    BY <2>1, OwnTx DEF SendHigh
  <2>2. CASE SendDefault(t)
    <3>1. PICK fees \in DefaultFees :
              Accept(DefaultTx(t, fees)) /\ tx' = [tx EXCEPT ![t] = DefaultTx(t, fees)]
      BY <2>2 DEF SendDefault
    <3> QED
      BY <3>1, OwnTx DEF Inv, TypeOK
  <2> QED
    BY <2>1, <2>2
<1>2. pc[t] \in {"high", "default"} /\ Goto(t, "wait")
  BY DEF SendHigh, SendDefault
<1>3. Served = t /\ Served' = t /\ t # NoTask /\ pc'[t] = "wait"
  BY <1>2, ServedGoto DEF Critical
<1>4. Own' = x
  BY <1>1, <1>3 DEF Own
<1>5. x \in Open' /\ Abstract!Sent(x)
  BY <1>1, <1>2, AcceptRefines
<1> QED
  BY <1>2, <1>3, <1>4, <1>5 DEF Abstract!Broadcast, Goto

\* A broadcast whose answer is lost is BroadcastAndRaise.
LEMMA AnswerLostRefines ==
    ASSUME Inv, Inv', NEW t \in Tasks, AnswerLost(t)
    PROVE  Abstract!BroadcastAndRaise(t)
<1>1. PICK x \in Txs : Accept(x) /\ x.nonce = nonce[t] /\ x.task = t
  BY OwnTx DEF AnswerLost
<1>2. pc[t] \in {"high", "default"} /\ Return(t, "raised")
  BY DEF AnswerLost
<1>3. Served = t
  BY <1>2, ServedCritical DEF Critical
<1>4. Served' = NoTask /\ Own' = NoTx
  BY <1>2, ServedReturn, TypeParts DEF Inv, Critical, Results
<1>5. x \in Open' /\ Abstract!Sent(x)
  BY <1>1, <1>2, AcceptRefines
<1> QED
  BY <1>2, <1>3, <1>4, <1>5 DEF Abstract!BroadcastAndRaise, Abstract!End, Return

\* Mining is Settle, and eviction Vanish.
LEMMA EnvironmentRefines ==
    ASSUME Inv, Environment
    PROVE  Abstract!Settle \/ Abstract!Vanish
<1>1. UNCHANGED <<Served, Own, result>>
  BY DEF Environment, managerVars, callVars, Served, Own
<1>2. CASE Mine
  <2>1. PICK x \in Open, ok \in BOOLEAN :
             /\ x.nonce = Len(chain)
             /\ chain' = Append(chain, [tx |-> x, ok |-> ok])
             /\ Open' = {y \in Open : y.nonce > x.nonce}
    BY <1>2 DEF Mine, Open, Latest
  <2>2. Open' = {}
    <3>1. \A y \in Open : y.nonce = x.nonce
      BY <2>1 DEF Inv, OneNonceInFlight, Latest, Open
    <3>2. x.nonce \in Int
      BY <2>1, LatestType DEF Inv, TypeOK, Latest, Nonces
    <3> QED
      BY <2>1, <3>1, <3>2
  <2> QED
    BY <1>1, <2>1, <2>2 DEF Abstract!Settle
<1>3. CASE Evict
  BY <1>1, <1>3 DEF Evict, LetLoose, Abstract!Vanish, Open
<1> QED
  BY <1>2, <1>3 DEF Environment

\* A restart is Crash.
LEMMA RestartRefines == Restart => Abstract!Crash
BY DEF Restart, nodeVars, Abstract!Crash, Served, Own, Open

\* Every step of the manager is a step of the wallet, or a stutter.
LEMMA NextRefines ==
    Inv /\ Inv' /\ [Next]_vars => [Abstract!WalletNext]_(Abstract!wallet)
<1> SUFFICES ASSUME Inv, Inv', [Next]_vars
             PROVE  Abstract!WalletNext \/ UNCHANGED Abstract!wallet
  BY DEF Abstract!wallet
<1>1. CASE \E t \in Tasks : Transact(t)
  BY <1>1, TransactRefines
<1>2. CASE \E t \in Tasks : Step(t)
  BY <1>2, AcquireRefines, QuietStep, FinishRefines, SendRefines, AnswerLostRefines
     DEF Step, Abstract!WalletNext
<1>3. CASE Environment
  BY <1>3, EnvironmentRefines DEF Abstract!WalletNext
<1>4. CASE Restart
  BY <1>4, RestartRefines DEF Abstract!WalletNext
<1>5. CASE UNCHANGED vars
  BY <1>5 DEF vars, managerVars, callVars, nodeVars, Abstract!wallet, Served, Own, Open
<1> QED
  BY <1>1, <1>2, <1>3, <1>4, <1>5 DEF Next

\* Seen from the tasks and the wallet, TransactionManager is the abstract
\* wallet: calls one at a time, at most one transaction each, always at the
\* next nonce, and receipts only for the call's own successful transaction.
THEOREM Refinement == Spec => ImplementsWallet
BY Invariance, InitRefines, NextRefines, PTL
   DEF Spec, ImplementsWallet, Abstract!WalletSpec

-----------------------------------------------------------------------------
(* What each task sees is an outbox                                        *)

\* A call that waits does so for a transaction of its own, which had the next
\* nonce when it was sent, and few transactions are at large.
Awaiting == \A t \in Tasks : pc[t] = "wait" =>
    tx[t] \in Txs /\ tx[t].task = t /\ tx[t].nonce = nonce[t]
FewLoose == IsFiniteSet(loose) /\ Cardinality(loose) <= MaxLoose
ViewInv == Inv /\ Awaiting /\ FewLoose

\* What a sending step does to the transactions of the wallet, whether or not
\* its answer arrives.
LEMMA Broadcasts ==
    ASSUME Inv, NEW t \in Tasks, SendHigh(t) \/ SendDefault(t) \/ AnswerLost(t)
    PROVE  \E x \in Txs :
             /\ x.task = t /\ x.nonce = nonce[t] /\ x.nonce = Latest
             /\ Accept(x) /\ pool' = {x} /\ chain' = chain
             /\ AnswerLost(t) \/ tx'[t] = x
<1>1. PICK x \in Txs : /\ x.task = t /\ x.nonce = nonce[t] /\ Accept(x)
                       /\ AnswerLost(t) \/ tx'[t] = x
  <2>1. CASE SendHigh(t)
    BY <2>1, OwnTx DEF SendHigh
  <2>2. CASE SendDefault(t)
    <3>1. PICK fees \in DefaultFees :
              Accept(DefaultTx(t, fees)) /\ tx' = [tx EXCEPT ![t] = DefaultTx(t, fees)]
      BY <2>2 DEF SendDefault
    <3> QED
      BY <3>1, OwnTx DEF Inv, TypeOK
  <2>3. CASE AnswerLost(t)
    BY <2>3, OwnTx DEF AnswerLost
  <2> QED
    BY <2>1, <2>2, <2>3
<1>2. x.nonce = Latest
  BY <1>1 DEF Accept, Inv, NonceNotAhead, TypeOK, NodeTypeOK, Latest, Txs, Nonces
<1>3. pool' = {x} /\ chain' = chain
  BY <1>1, AcceptedAlone DEF Inv, Accept
<1> QED
  BY <1>1, <1>2, <1>3

\* Only sending, mining and eviction move transactions.
LEMMA QuietNode ==
    ASSUME NEW t \in Tasks, Move(t), ~SendHigh(t), ~SendDefault(t), ~AnswerLost(t)
    PROVE  UNCHANGED nodeVars
BY DEF Move, Transact, Step, Acquire, EstimateGas, ReadLatest, ReadPending, GiveUp,
   MakeOffer, RefusedHigh, RefusedDefault, Confirmed, Reverted, TimedOut, AwaitRaises

\* The additions to the invariant hold initially.
LEMMA InitView == Init => Awaiting /\ FewLoose
BY ChainBounds, FS_EmptySet DEF Init, NodeInit, Awaiting, FewLoose, Idle

\* Who comes to wait has just sent a transaction of its own.
LEMMA AwaitingStep ==
    ASSUME Inv, Awaiting, NEW t \in Tasks, Move(t)
    PROVE  Awaiting'
<1>1. ASSUME NEW u \in Tasks, u # t, pc'[u] = "wait"
      PROVE  tx'[u] \in Txs /\ tx'[u].task = u /\ tx'[u].nonce = nonce'[u]
  BY <1>1, OthersUntouched DEF Inv, Awaiting
<1>2. ASSUME pc'[t] = "wait"
      PROVE  tx'[t] \in Txs /\ tx'[t].task = t /\ tx'[t].nonce = nonce'[t]
  <2>1. SendHigh(t) \/ SendDefault(t)
    BY <1>2 DEF Move, Transact, Step, Acquire, EstimateGas, ReadLatest, ReadPending, GiveUp,
       MakeOffer, RefusedHigh, RefusedDefault, AfterTries, AnswerLost, Confirmed, Reverted,
       TimedOut, AwaitRaises, Return, Goto, Inv, TypeOK, Idle
  <2>2. nonce' = nonce /\ ~AnswerLost(t)
    BY <1>2, <2>1 DEF SendHigh, SendDefault, AnswerLost, Return, Inv, TypeOK, Idle
  <2> QED
    BY <2>1, <2>2, Broadcasts
<1> QED
  BY <1>1, <1>2 DEF Awaiting

\* What the pool lets loose is one transaction, if the bound allows it.
LEMMA FewLooseStep ==
    ASSUME FewLoose, OnePending, NEW xs \in SUBSET pool, LetLoose(xs)
    PROVE  FewLoose'
<1>1. IsFiniteSet(xs)
  <2>1. CASE xs = {}
    BY <2>1, FS_EmptySet
  <2>2. CASE xs # {}
    <3>1. PICK x : xs = {x}
      BY <2>2 DEF OnePending
    <3> QED
      BY <3>1, FS_Singleton
  <2> QED
    BY <2>1, <2>2
<1>2. IsFiniteSet(loose')
  BY <1>1, FS_Union DEF FewLoose, LetLoose
<1> QED
  BY <1>2 DEF FewLoose, LetLoose

\* Every step keeps the additions to the invariant.
LEMMA NextView == ViewInv /\ Inv' /\ [Next]_vars => ViewInv'
<1> SUFFICES ASSUME ViewInv, Inv', [Next]_vars PROVE Awaiting' /\ FewLoose'
  BY DEF ViewInv
<1> USE DEF ViewInv
<1>1. ASSUME NEW t \in Tasks, Move(t) PROVE Awaiting' /\ FewLoose'
  <2>1. CASE SendHigh(t) \/ SendDefault(t) \/ AnswerLost(t)
    <3>1. PICK x \in Txs : Accept(x)
      BY <2>1, Broadcasts
    <3>2. LetLoose(Rivals(x)) /\ Rivals(x) \in SUBSET pool
      BY <3>1 DEF Accept, Rivals
    <3> QED
      BY <1>1, <3>2, AwaitingStep, FewLooseStep DEF Inv
  <2>2. CASE ~SendHigh(t) /\ ~SendDefault(t) /\ ~AnswerLost(t)
    BY <1>1, <2>2, AwaitingStep, QuietNode DEF nodeVars, FewLoose
  <2> QED
    BY <2>1, <2>2
<1>2. CASE Environment
  <2>1. Awaiting'
    BY <1>2 DEF Environment, managerVars, callVars, Awaiting
  <2>2. CASE Mine
    <3>1. loose' \subseteq loose
      BY <2>2 DEF Mine
    <3>2. IsFiniteSet(loose') /\ Cardinality(loose') <= Cardinality(loose)
      BY <3>1, FS_Subset DEF FewLoose
    <3>3. Cardinality(loose) \in Nat /\ Cardinality(loose') \in Nat
      BY <3>2, FS_CardinalityType DEF FewLoose
    <3> QED
      BY <2>1, <3>2, <3>3, ChainBounds DEF FewLoose
  <2>3. CASE Evict
    <3>1. PICK x \in pool : LetLoose({x})
      BY <2>3 DEF Evict
    <3> QED
      BY <2>1, <3>1, FewLooseStep DEF Inv
  <2> QED
    BY <1>2, <2>2, <2>3 DEF Environment
<1>3. CASE Restart
  BY <1>3 DEF Restart, nodeVars, Awaiting, FewLoose, Idle
<1>4. CASE UNCHANGED vars
  BY <1>4 DEF vars, managerVars, callVars, nodeVars, Awaiting, FewLoose
<1> QED
  BY <1>1, <1>2, <1>3, <1>4 DEF Next, Move

\* What a step may do to the transactions of u, as far as u can see.
Seen(u) == View(u)!OutboxNext \/ UNCHANGED View(u)!outbox

\* While the chain stands still the outcome changes only with the wait.
LEMMA OutcomeKept ==
    ASSUME chain' = chain, NEW u \in Tasks, pc'[u] = pc[u], tx'[u] = tx[u]
    PROVE  SentBy(u)' = SentBy(u) /\ Outcome(u)' = Outcome(u)
BY DEF SentBy, Outcome, Latest

\* A call that does not wait has no outcome.
LEMMA NotWaiting ==
    ASSUME NEW u \in Tasks
    PROVE  /\ pc[u] # "wait" => SentBy(u) = NoTx /\ Outcome(u) = "no"
           /\ pc'[u] # "wait" => SentBy(u)' = NoTx /\ Outcome(u)' = "no"
BY DEF SentBy, Outcome

\* Fewer transactions of u at large: it lost some, or none.
LEMMA FewerUnderWay ==
    ASSUME NEW u \in Tasks, SentBy(u)' = SentBy(u), Outcome(u)' = Outcome(u),
           UnderWay(u)' \subseteq UnderWay(u)
    PROVE  Seen(u)
<1>1. CASE UnderWay(u)' = UnderWay(u)
  <2>1. UNCHANGED View(u)!outbox
    BY <1>1 DEF View!outbox
  <2> QED
    BY <2>1 DEF Seen
<1>2. CASE UnderWay(u)' # UnderWay(u)
  <2>1. View(u)!Lose
    BY <1>2 DEF View!Lose
  <2> QED
    BY <2>1 DEF Seen, View!OutboxNext
<1> QED
  BY <1>1, <1>2

\* A wait that ends, with whatever outcome.
LEMMA WaitEnds ==
    ASSUME NEW u \in Tasks, pc'[u] # "wait", UNCHANGED nodeVars
    PROVE  Seen(u)
<1>1. View(u)!CallEnds
  BY NotWaiting DEF View!CallEnds, nodeVars, UnderWay
<1> QED
  BY <1>1 DEF Seen, View!OutboxNext

\* Steps that send nothing.
LEMMA QuietSeen ==
    ASSUME ViewInv, NEW t \in Tasks, Move(t), ~SendHigh(t), ~SendDefault(t), ~AnswerLost(t),
           NEW u \in Tasks
    PROVE  Seen(u)
<1>1. UNCHANGED nodeVars
  BY QuietNode
<1>2. CASE pc'[u] # "wait"
  BY <1>1, <1>2, WaitEnds
<1>3. CASE u # t
  BY <1>1, <1>3, OthersUntouched, OutcomeKept, FewerUnderWay
     DEF nodeVars, UnderWay, ViewInv, Inv
<1>4. pc'[t] # "wait"
  BY DEF Move, Transact, Step, Acquire, EstimateGas, ReadLatest, ReadPending, GiveUp,
     MakeOffer, RefusedHigh, RefusedDefault, AfterTries, AnswerLost, Confirmed, Reverted,
     TimedOut, AwaitRaises, Return, Goto, ViewInv, Inv, TypeOK, Idle
<1> QED
  BY <1>2, <1>3, <1>4

\* With what it accepts, and what stays at large, t has a bounded number under
\* way.
LEMMA AcceptedUnderWay ==
    ASSUME ViewInv, NEW t \in Tasks, NEW x \in Txs, x.task = t, Accept(x), pool' = {x},
           FewLoose'
    PROVE  /\ x \in UnderWay(t)'
           /\ UnderWay(t)' \in {kept \union {x} : kept \in SUBSET UnderWay(t)}
           /\ Cardinality(UnderWay(t)') <= MaxLoose + 1
<1>1. x \in UnderWay(t)' /\ UnderWay(t)' \subseteq UnderWay(t) \union {x}
  BY DEF UnderWay, Accept, LetLoose, Rivals
<1>2. UnderWay(t)' = (UnderWay(t)' \ {x}) \union {x} /\ UnderWay(t)' \ {x} \in SUBSET UnderWay(t)
  BY <1>1
<1>3. Cardinality(UnderWay(t)') <= MaxLoose + 1
  <2>1. UnderWay(t)' \subseteq loose' \union {x}
    BY DEF UnderWay
  <2>2. IsFiniteSet(loose' \union {x}) /\ Cardinality(loose' \union {x}) <= Cardinality(loose') + 1
    <3>1. IsFiniteSet(loose') /\ Cardinality(loose') \in Nat
      BY FS_CardinalityType DEF FewLoose
    <3>2. /\ IsFiniteSet(loose' \union {x})
          /\ Cardinality(loose' \union {x}) \in {Cardinality(loose'), Cardinality(loose') + 1}
      BY <3>1, FS_AddElement, Zenon
    <3> QED
      BY <3>1, <3>2
  <2>3. IsFiniteSet(UnderWay(t)') /\ Cardinality(UnderWay(t)') <= Cardinality(loose' \union {x})
    BY <2>1, <2>2, FS_Subset
  <2>4. /\ Cardinality(loose') \in Nat /\ Cardinality(UnderWay(t)') \in Nat
        /\ Cardinality(loose' \union {x}) \in Nat /\ Cardinality(loose') <= MaxLoose
    BY <2>2, <2>3, FS_CardinalityType DEF FewLoose
  <2> QED
    BY <2>2, <2>3, <2>4, ChainBounds
<1> QED
  BY <1>1, <1>2, <1>3

\* The bound of an outbox counts as usual.
LEMMA SameCardinality == \A t, S : View(t)!Cardinality(S) = Cardinality(S)
BY DEF View!Cardinality, Cardinality, View!IsFiniteSet, IsFiniteSet

\* A sender sees its submission, or a call that fails although it was sent; the
\* others lose what it replaced.
LEMMA SendSeen ==
    ASSUME ViewInv, FewLoose', NEW t \in Tasks, SendHigh(t) \/ SendDefault(t) \/ AnswerLost(t),
           NEW u \in Tasks
    PROVE  Seen(u)
<1>1. PICK x \in Txs :
          /\ x.task = t /\ x.nonce = Latest /\ Accept(x) /\ pool' = {x} /\ chain' = chain
          /\ AnswerLost(t) \/ tx'[t] = x
  BY Broadcasts DEF ViewInv
<1>2. CASE u # t
  <2>1. Move(t)
    BY DEF Move, Step
  <2>2. UnderWay(u)' \subseteq UnderWay(u)
    BY <1>1, <1>2 DEF UnderWay, Accept, LetLoose, Rivals
  <2> QED
    BY <1>1, <1>2, <2>1, <2>2, OthersUntouched, OutcomeKept, FewerUnderWay DEF ViewInv, Inv
<1>3. CASE u = t
  <2>1. /\ x \in UnderWay(t)'
        /\ UnderWay(t)' \in {kept \union {x} : kept \in SUBSET UnderWay(t)}
        /\ Cardinality(UnderWay(t)') <= MaxLoose + 1
    BY <1>1, AcceptedUnderWay
  <2>2. SentBy(t) = NoTx /\ Outcome(t) = "no"
    BY NotWaiting DEF SendHigh, SendDefault, AnswerLost
  <2>3. View(t)!Compete(x)
    BY <2>1, <2>2, SameCardinality DEF View!Compete
  <2>4. CASE AnswerLost(t)
    <3>1. pc'[t] # "wait"
      BY <2>4 DEF AnswerLost, Return, ViewInv, Inv, TypeOK, Idle
    <3>2. View(t)!CallFails(x, TRUE)
      BY <2>2, <2>3, <3>1, NotWaiting DEF View!CallFails
    <3> QED
      BY <1>3, <2>1, <3>2 DEF Seen, View!OutboxNext
  <2>5. CASE ~AnswerLost(t)
    <3>1. pc'[t] = "wait" /\ tx'[t] = x
      BY <1>1, <2>5 DEF SendHigh, SendDefault, Goto, ViewInv, Inv, TypeOK
    <3>2. SentBy(t)' = x
      BY <3>1 DEF SentBy
    <3>3. Outcome(t)' = "no"
      <4>1. tx'[t].nonce >= Latest'
        BY <1>1, <3>1, LatestType DEF Latest, ViewInv, Inv, TypeOK, Nonces
      <4> QED
        BY <4>1 DEF Outcome
    <3>4. View(t)!Submit(x)
      BY <2>3, <3>2, <3>3 DEF View!Submit
    <3> QED
      BY <1>3, <2>1, <3>4 DEF Seen, View!OutboxNext
  <2> QED
    BY <2>4, <2>5
<1> QED
  BY <1>2, <1>3

\* Mining settles the nonce for all of u's transactions, if one of them was
\* mined, and otherwise they are lost.
LEMMA MineSeen ==
    ASSUME ViewInv, Mine, UNCHANGED managerVars, NEW u \in Tasks
    PROVE  Seen(u)
<1>1. PICK x \in pool \union loose, ok \in BOOLEAN :
          /\ x.nonce = Latest
          /\ chain' = Append(chain, [tx |-> x, ok |-> ok])
          /\ pool' = {y \in pool : y.nonce > x.nonce}
          /\ loose' = {y \in loose : y.nonce > x.nonce}
  BY DEF Mine
<1>2. Latest \in Nat /\ Latest' = Latest + 1 /\ chain \in Seq([tx : Txs, ok : BOOLEAN])
  BY <1>1 DEF Latest, ViewInv, Inv, TypeOK, NodeTypeOK
<1>3. UnderWay(u)' = {}
  BY <1>1, <1>2 DEF UnderWay, ViewInv, Inv, OneNonceInFlight
<1>4. SentBy(u)' = SentBy(u) /\ pc'[u] = pc[u] /\ tx'[u] = tx[u]
  BY DEF managerVars, callVars, SentBy
<1>5. CASE pc[u] # "wait"
  <2>1. Outcome(u)' = Outcome(u)
    BY <1>4, <1>5, NotWaiting
  <2>2. UnderWay(u)' \subseteq UnderWay(u)
    BY <1>3
  <2> QED
    BY <1>4, <2>1, <2>2, FewerUnderWay
<1>6. CASE pc[u] = "wait"
  <2>1. /\ SentBy(u) = tx[u] /\ tx[u] # NoTx
        /\ tx[u] \in Txs /\ tx[u].task = u /\ tx[u].nonce \in 0 .. Latest
    BY <1>2, <1>6, SentinelAssumption
       DEF SentBy, ViewInv, Awaiting, Inv, NonceNotAhead, TypeOK, Txs, Nonces
  <2>2. CASE tx[u] = x
    <3>1. Outcome(u) = "no"
      BY <1>1, <1>2, <2>2 DEF Outcome
    <3>2. chain'[tx[u].nonce + 1] = [tx |-> x, ok |-> ok]
      BY <1>1, <1>2, <2>2 DEF Latest
    <3>3. Outcome(u)' = IF ok THEN "ok" ELSE "failed"
      <4>1. SentBy(u)' # NoTx /\ tx'[u] = x /\ ~(tx'[u].nonce >= Latest')
        BY <1>1, <1>2, <1>4, <2>1, <2>2
      <4>2. chain'[tx'[u].nonce + 1].tx = x /\ chain'[tx'[u].nonce + 1].ok = ok
        BY <1>4, <3>2
      <4> QED
        BY <4>1, <4>2, Zenon DEF Outcome
    <3>4. x \in UnderWay(u)
      BY <2>1, <2>2 DEF UnderWay
    <3>5. View(u)!Settle(x, ok)
      BY <1>3, <1>4, <2>1, <2>2, <3>3, <3>4 DEF View!Settle
    <3> QED
      BY <3>4, <3>5 DEF Seen, View!OutboxNext
  <2>3. CASE tx[u] # x
    <3>1. Outcome(u)' = Outcome(u)
      <4>1. CASE tx[u].nonce = Latest
        <5>1. chain'[tx[u].nonce + 1].tx # tx[u]
          BY <1>1, <1>2, <2>3, <4>1 DEF Latest
        <5> QED
          BY <1>2, <1>4, <4>1, <5>1 DEF Outcome
      <4>2. CASE tx[u].nonce # Latest
        <5>1. chain'[tx[u].nonce + 1] = chain[tx[u].nonce + 1]
          BY <1>1, <1>2, <2>1, <4>2 DEF Latest
        <5>2. tx[u].nonce < Latest /\ tx[u].nonce < Latest'
          BY <1>2, <2>1, <4>2
        <5> QED
          BY <1>2, <1>4, <2>1, <5>1, <5>2 DEF Outcome
      <4> QED
        BY <4>1, <4>2
    <3>2. UnderWay(u)' \subseteq UnderWay(u)
      BY <1>3
    <3> QED
      BY <1>4, <3>1, <3>2, FewerUnderWay
  <2> QED
    BY <2>2, <2>3
<1> QED
  BY <1>5, <1>6

\* Every step is one of an outbox, for every task.
LEMMA NextSeen ==
    ASSUME ViewInv, ViewInv', [Next]_vars, NEW u \in Tasks
    PROVE  Seen(u)
<1>1. CASE \E t \in Tasks : Move(t)
  BY <1>1, QuietSeen, SendSeen DEF ViewInv
<1>2. CASE Environment
  <2>1. CASE Mine
    BY <1>2, <2>1, MineSeen DEF Environment
  <2>2. CASE Evict
    <3>1. UnderWay(u)' \subseteq UnderWay(u)
      BY <2>2 DEF Evict, LetLoose, UnderWay
    <3>2. chain' = chain /\ pc' = pc /\ tx' = tx
      BY <1>2, <2>2 DEF Evict, Environment, managerVars, callVars
    <3> QED
      BY <3>1, <3>2, OutcomeKept, FewerUnderWay
  <2> QED
    BY <1>2, <2>1, <2>2 DEF Environment
<1>3. CASE Restart
  BY <1>3, WaitEnds DEF Restart, Idle
<1>4. CASE UNCHANGED vars
  BY <1>4, OutcomeKept, FewerUnderWay DEF vars, managerVars, callVars, nodeVars, UnderWay
<1> QED
  BY <1>1, <1>2, <1>3, <1>4 DEF Next, Move

\* Each task sees an outbox of its own, as the models of the tasks assume, for
\* any number of tasks and whatever the others do.
THEOREM TasksSeeOutboxes == Spec => SeenAsOutbox
<1>1. Init => ViewInv /\ \A t \in Tasks : View(t)!OutboxInit
  <2> SUFFICES ASSUME Init PROVE ViewInv /\ \A t \in Tasks : View(t)!OutboxInit
    OBVIOUS
  <2>1. ViewInv
    BY InitInv, InitView DEF ViewInv
  <2>2. ASSUME NEW t \in Tasks PROVE View(t)!OutboxInit
    <3>1. pc[t] # "wait" /\ UnderWay(t) = {}
      BY DEF Init, NodeInit, Idle, UnderWay
    <3> QED
      BY <3>1, NotWaiting DEF View!OutboxInit
  <2> QED
    BY <2>1, <2>2
<1>2. ViewInv /\ Inv' /\ [Next]_vars => ViewInv'
  BY NextView
<1>3. ViewInv /\ ViewInv' /\ [Next]_vars
        => [\A t \in Tasks : View(t)!OutboxNext \/ UNCHANGED View(t)!outbox]_vars
  BY NextSeen DEF Seen
<1> QED
  BY <1>1, <1>2, <1>3, Invariance, PTL DEF Spec, SeenAsOutbox

=============================================================================
