-------------------------- MODULE TxManagerProofs --------------------------
(***************************************************************************)
(* TransactionManager keeps its promises for every set of tasks, every     *)
(* gas price and ceiling, and any length of the chain.                     *)
(*                                                                         *)
(* The invariants are proved one after the other, each from those before   *)
(* it: types, the lock, the nonces, and the fees of the call that is about *)
(* to send.                                                                *)
(***************************************************************************)
EXTENDS TxManagerProperties, SequenceTheorems, TLAPS

-----------------------------------------------------------------------------
(* The fee arithmetic, for every ceiling, all fees and every set of values *)
(* at which the floating-point product carries                             *)

\* The constructor always yields a pair that keeps both invariants of the
\* class: priority <= fee <= ceiling (transaction.py:33-36, 84-88).
LEMMA CappedKeepsInvariants ==
    ASSUME NEW f \in Nat, NEW p \in Nat
    PROVE  /\ Capped(f, p) \in AllFees
           /\ Capped(f, p).fee <= MaxFeePerGas
           /\ Capped(f, p).priority <= Capped(f, p).fee
BY MaxFeeAssumption DEF Capped, Lesser, AllFees

\* A bumped fee is a number.
LEMMA BumpValueType == ASSUME NEW v \in Nat PROVE BumpValue(v) \in Nat
BY DEF BumpValue

\* So is the least fee of a replacement.
LEMMA MinReplacementType == ASSUME NEW v \in Nat PROVE MinReplacement(v) \in Nat
BY DEF MinReplacement

\* Rounding up after multiplying by 1.125 always reaches the threshold of the
\* rounded product with 1.1, carried or not (transaction.py:24-29, 90-92).
LEMMA BumpReachesThreshold ==
    ASSUME NEW v \in Nat
    PROVE  BumpValue(v) >= MinReplacement(v)
<1>1. CASE v \in CarrySet
  <2>1. v > 0 /\ v % 10 = 0
    BY <1>1, CarryAssumption
  <2>2. (11 * v + 9) \div 10 + 1 <= (9 * v + 7) \div 8
    BY <2>1
  <2> QED
    BY <1>1, <2>2 DEF BumpValue, MinReplacement
<1>2. CASE v \notin CarrySet
  <2>1. (11 * v + 9) \div 10 <= (9 * v + 7) \div 8
    OBVIOUS
  <2> QED
    BY <1>2, <2>1 DEF BumpValue, MinReplacement
<1> QED
  BY <1>1, <1>2

\* The threshold grows with the fee, in spite of the carries.
LEMMA ThresholdMonotone ==
    ASSUME NEW v \in Nat, NEW w \in Nat, v <= w
    PROVE  MinReplacement(v) <= MinReplacement(w)
<1>1. CASE v = w
  BY <1>1, MinReplacementType
<1>2. CASE v < w
  <2>1. (11 * v + 9) \div 10 + 1 <= (11 * w + 9) \div 10
    BY <1>2
  <2> QED
    BY <2>1 DEF MinReplacement
<1> QED
  BY <1>1, <1>2

\* The code finds its escalated fees too low only if no fees under the ceiling
\* are high enough: clamping the fee to the ceiling, and the priority fee to
\* the fee, never wastes room that was there (transaction.py:69-92, 187-202).
THEOREM ClampingWastesNothing ==
    ASSUME NEW fresh \in AllFees, NEW prev \in AllFees,
           prev.priority <= prev.fee
    PROVE  Replaces(Escalate(fresh, prev), prev) \/ Hopeless(prev)
<1> DEFINE mf == MinReplacement(prev.fee)
           mp == MinReplacement(prev.priority)
           e  == Escalate(fresh, prev)
<1>1. /\ prev.fee \in Nat /\ prev.priority \in Nat
      /\ fresh.fee \in Nat /\ fresh.priority \in Nat
  BY DEF AllFees
<1>2. mf \in Nat /\ mp \in Nat /\ mp <= mf
  BY <1>1, MinReplacementType, ThresholdMonotone
<1>3. /\ BumpValue(prev.fee) \in Nat /\ BumpValue(prev.priority) \in Nat
      /\ BumpValue(prev.fee) >= mf /\ BumpValue(prev.priority) >= mp
  BY <1>1, BumpValueType, BumpReachesThreshold
<1>4. SUFFICES ASSUME ~Hopeless(prev)
               PROVE  Replaces(e, prev)
  OBVIOUS
<1>5. MaxFeePerGas \in Nat /\ MaxFeePerGas >= mf
  BY <1>4, <1>2, MaxFeeAssumption DEF Hopeless, Replaces, Capped, Lesser
<1>6. e.fee >= mf /\ e.priority >= mp
  BY <1>1, <1>2, <1>3, <1>5 DEF Escalate, MaxWith, Bump, Capped, Lesser, Greater
<1> QED
  BY <1>6 DEF Replaces

\* Whatever is offered for a nonce is a pair of fees under the ceiling.
LEMMA EscalateType ==
    ASSUME NEW fresh \in AllFees, NEW prev \in AllFees
    PROVE  /\ Escalate(fresh, prev) \in AllFees
           /\ Escalate(fresh, prev).priority <= Escalate(fresh, prev).fee
<1>1. /\ prev.fee \in Nat /\ prev.priority \in Nat
      /\ fresh.fee \in Nat /\ fresh.priority \in Nat
  BY DEF AllFees
<1> DEFINE a == Capped(fresh.fee, fresh.priority)
           b == Bump(prev)
<1>2. a \in AllFees /\ b \in AllFees
  BY <1>1, BumpValueType, CappedKeepsInvariants DEF Bump
<1>3. Greater(a.fee, b.fee) \in Nat /\ Greater(a.priority, b.priority) \in Nat
  BY <1>2 DEF Greater, AllFees
<1> QED
  BY <1>3, CappedKeepsInvariants DEF Escalate, MaxWith

-----------------------------------------------------------------------------
(* The parts of the type invariant                                         *)

Results == {"fresh", "none", "receipt", "raised"}

\* The part of TypeOK that every step of a call touches.
ManagerTypeOK ==
    /\ holder \in Tasks \union {NoTask}
    /\ waiters \in Seq(Tasks)
    /\ pc \in [Tasks -> Critical \union {Idle, "queued"}]
    /\ options \in [Tasks -> Options]
    /\ nonce \in [Tasks -> Nonces]
    /\ tries \in [Tasks -> Nat]
    /\ tx \in [Tasks -> Txs \union {NoTx}]
    /\ result \in Results

RecordTypeOK == record \in [Nonces -> AllFees \union {NoFees}]

\* The conjuncts of TypeOK one by one, as the steps below cite them.
LEMMA TypeParts ==
    /\ TypeOK <=> NodeTypeOK /\ ManagerTypeOK /\ RecordTypeOK
    /\ TypeOK' <=> NodeTypeOK' /\ ManagerTypeOK' /\ RecordTypeOK'
BY DEF TypeOK, ManagerTypeOK, RecordTypeOK, Results

-----------------------------------------------------------------------------
(* Types                                                                   *)

\* A call that ends leaves a well-typed manager behind.
LEMMA ReturnType ==
    ASSUME ManagerTypeOK, NEW t \in Tasks, NEW r \in Results, Return(t, r)
    PROVE  ManagerTypeOK'
<1>1. holder' \in Tasks \union {NoTask} /\ waiters' \in Seq(Tasks)
  <2>1. CASE waiters = <<>>
    BY <2>1 DEF ManagerTypeOK, Return, Release
  <2>2. CASE waiters # <<>>
    BY <2>2, HeadTailProperties DEF ManagerTypeOK, Return, Release
  <2> QED
    BY <2>1, <2>2
<1>2. pc' \in [Tasks -> Critical \union {Idle, "queued"}]
  BY DEF ManagerTypeOK, Return
<1>3. /\ options' \in [Tasks -> Options] /\ nonce' \in [Tasks -> Nonces]
      /\ tries' \in [Tasks -> Nat] /\ tx' \in [Tasks -> Txs \union {NoTx}]
  BY ChainBounds DEF ManagerTypeOK, Return, Options, NoOptions, Nonces
<1> QED
  BY <1>1, <1>2, <1>3 DEF ManagerTypeOK, Return

\* So does a call that moves on inside transact().
LEMMA GotoType ==
    ASSUME ManagerTypeOK, NEW t \in Tasks, NEW place \in Critical, Goto(t, place)
    PROVE  /\ holder' \in Tasks \union {NoTask} /\ waiters' \in Seq(Tasks)
           /\ pc' \in [Tasks -> Critical \union {Idle, "queued"}]
           /\ options' \in [Tasks -> Options]
           /\ result' \in Results
BY DEF ManagerTypeOK, Goto

\* The node stays well typed when it takes a transaction.
LEMMA AcceptType ==
    ASSUME NodeTypeOK, NEW x \in Txs, Accept(x)
    PROVE  NodeTypeOK'
BY DEF NodeTypeOK, Accept, LetLoose, Rivals

\* The wallet's next nonce is one of the bounded nonces.
LEMMA LatestType == NodeTypeOK => Latest \in Nonces
BY ChainBounds DEF NodeTypeOK, Latest, Nonces

\* Mining and eviction keep the node well typed.
LEMMA EnvironmentType == NodeTypeOK /\ Environment => NodeTypeOK'
<1> SUFFICES ASSUME NodeTypeOK, Environment PROVE NodeTypeOK'
  OBVIOUS
<1>1. CASE Mine
  <2>1. PICK x \in pool \union loose, ok \in BOOLEAN :
             /\ chain' = Append(chain, [tx |-> x, ok |-> ok])
             /\ pool' = {y \in pool : y.nonce > x.nonce}
             /\ loose' = {y \in loose : y.nonce > x.nonce}
    BY <1>1 DEF Mine
  <2>2. [tx |-> x, ok |-> ok] \in [tx : Txs, ok : BOOLEAN]
    BY DEF NodeTypeOK
  <2>3. chain' \in Seq([tx : Txs, ok : BOOLEAN]) /\ Len(chain') = Len(chain) + 1
    BY <2>1, <2>2 DEF NodeTypeOK
  <2>4. Len(chain') <= MaxMined
    BY <1>1, <2>3, ChainBounds DEF Mine, NodeTypeOK
  <2> QED
    BY <2>1, <2>3, <2>4 DEF NodeTypeOK
<1>2. CASE Evict
  BY <1>2 DEF Evict, LetLoose, NodeTypeOK
<1> QED
  BY <1>1, <1>2 DEF Environment

\* The fees of _submit_high_priority are fees.
LEMMA OfferType ==
    ASSUME TypeOK, NEW t \in Tasks, NEW fresh \in FreshFees
    PROVE  /\ Offer(t, fresh) \in AllFees
           /\ Offer(t, fresh).priority <= Offer(t, fresh).fee
<1>1. fresh \in AllFees /\ fresh.fee \in Nat /\ fresh.priority \in Nat
  BY FeesAssumption DEF AllFees
<1>2. record[nonce[t]] \in AllFees \union {NoFees}
  BY DEF TypeOK
<1>3. CASE record[nonce[t]] = NoFees
  BY <1>1, <1>3, CappedKeepsInvariants DEF Offer
<1>4. CASE record[nonce[t]] # NoFees
  BY <1>1, <1>2, <1>4, EscalateType DEF Offer
<1> QED
  BY <1>3, <1>4

\* The transaction of _submit_default_gas is a transaction.
LEMMA DefaultTxType ==
    ASSUME TypeOK, NEW t \in Tasks, NEW fees \in DefaultFees
    PROVE  DefaultTx(t, fees) \in Txs
BY FeesAssumption DEF TypeOK, DefaultTx, Txs

\* What t sends at "high" is well formed; an invariant of its own below.
HighTyped == \A t \in Tasks : pc[t] = "high" => tx[t] \in Txs

\* Every step of a call past its beginning keeps the types.
LEMMA StepType ==
    ASSUME TypeOK, HighTyped, NEW t \in Tasks, Step(t)
    PROVE  TypeOK'
<1> USE TypeParts
<1>1. NodeTypeOK /\ ManagerTypeOK /\ RecordTypeOK
  OBVIOUS
<1>2. CASE Acquire(t)
  BY <1>1, <1>2 DEF Acquire, ManagerTypeOK, Critical, nodeVars, callVars,
                    NodeTypeOK, RecordTypeOK
<1>3. CASE EstimateGas(t)
  BY <1>1, <1>3, GotoType DEF EstimateGas, ManagerTypeOK, Critical, nodeVars,
                              NodeTypeOK, RecordTypeOK
<1>4. CASE ReadLatest(t)
  BY <1>1, <1>4, GotoType, LatestType DEF ReadLatest, ManagerTypeOK, Critical,
                              nodeVars, NodeTypeOK, RecordTypeOK
<1>5. CASE ReadPending(t)
  <2>1. RecordTypeOK'
    BY <1>1, <1>5 DEF ReadPending, RecordTypeOK
  <2>2. ManagerTypeOK'
    BY <1>1, <1>5, GotoType DEF ReadPending, AfterTries, ManagerTypeOK, Critical
  <2> QED
    BY <1>1, <1>5, <2>1, <2>2 DEF ReadPending, nodeVars, NodeTypeOK
<1>6. CASE GiveUp(t)
  BY <1>1, <1>6, ReturnType DEF GiveUp, Results, nodeVars, NodeTypeOK, RecordTypeOK
<1>7. CASE MakeOffer(t)
  <2>1. PICK fresh \in FreshFees : tx' = [tx EXCEPT ![t] =
                    [nonce |-> nonce[t], task |-> t, fees |-> Offer(t, fresh)]]
    BY <1>7 DEF MakeOffer
  <2>2. [nonce |-> nonce[t], task |-> t, fees |-> Offer(t, fresh)] \in Txs
    BY <1>1, OfferType DEF ManagerTypeOK, Txs
  <2>3. ManagerTypeOK'
    BY <1>1, <1>7, <2>1, <2>2, GotoType DEF MakeOffer, ManagerTypeOK, Critical
  <2> QED
    BY <1>1, <1>7, <2>3 DEF MakeOffer, nodeVars, NodeTypeOK, RecordTypeOK
<1>8. CASE SendHigh(t)
  <2>1. tx[t] \in Txs
    BY <1>8 DEF SendHigh, HighTyped
  <2>2. NodeTypeOK'
    BY <1>1, <1>8, <2>1, AcceptType DEF SendHigh
  <2>3. RecordTypeOK'
    BY <1>1, <1>8, <2>1 DEF SendHigh, RecordTypeOK, ManagerTypeOK, Txs
  <2>4. ManagerTypeOK'
    BY <1>1, <1>8, GotoType DEF SendHigh, ManagerTypeOK, Critical
  <2> QED
    BY <2>2, <2>3, <2>4
<1>9. CASE RefusedHigh(t)
  <2>1. tx[t] \in Txs
    BY <1>9 DEF RefusedHigh, HighTyped
  <2>2. RecordTypeOK'
    BY <1>1, <1>9, <2>1 DEF RefusedHigh, RecordTypeOK, ManagerTypeOK, Txs
  <2>3. ManagerTypeOK'
    BY <1>1, <1>9, ReturnType DEF RefusedHigh, Results
  <2> QED
    BY <1>1, <1>9, <2>2, <2>3 DEF RefusedHigh, nodeVars, NodeTypeOK
<1>10. CASE SendDefault(t)
  <2>1. PICK fees \in DefaultFees :
            Accept(DefaultTx(t, fees)) /\ tx' = [tx EXCEPT ![t] = DefaultTx(t, fees)]
    BY <1>10 DEF SendDefault
  <2>2. NodeTypeOK'
    BY <1>1, <2>1, DefaultTxType, AcceptType
  <2>3. ManagerTypeOK'
    BY <1>1, <1>10, <2>1, DefaultTxType, GotoType
       DEF SendDefault, ManagerTypeOK, Critical
  <2> QED
    BY <1>1, <1>10, <2>2, <2>3 DEF SendDefault, RecordTypeOK
<1>11. CASE RefusedDefault(t)
  <2>1. AfterTries(tries[t] + 1) \in Critical
    BY DEF AfterTries, Critical
  <2>2. ManagerTypeOK'
    BY <1>1, <1>11, <2>1, GotoType DEF RefusedDefault, ManagerTypeOK
  <2> QED
    BY <1>1, <1>11, <2>2 DEF RefusedDefault, nodeVars, NodeTypeOK, RecordTypeOK
<1>12. CASE AnswerLost(t)
  <2>1. PICK x \in Txs : Accept(x)
    BY <1>12, DefaultTxType DEF AnswerLost, HighTyped
  <2>2. NodeTypeOK'
    BY <1>1, <2>1, AcceptType
  <2>3. ManagerTypeOK'
    BY <1>1, <1>12, ReturnType DEF AnswerLost, Results
  <2> QED
    BY <1>1, <1>12, <2>2, <2>3 DEF AnswerLost, RecordTypeOK
<1>13. CASE Confirmed(t) \/ Reverted(t) \/ TimedOut(t) \/ AwaitRaises(t)
  BY <1>1, <1>13, ReturnType DEF Confirmed, Reverted, TimedOut, AwaitRaises,
                                 Results, nodeVars, NodeTypeOK, RecordTypeOK
<1> QED
  BY <1>2, <1>3, <1>4, <1>5, <1>6, <1>7, <1>8, <1>9, <1>10, <1>11, <1>12, <1>13
     DEF Step

\* A new call keeps them, whether it takes the lock or queues for it.
LEMMA TransactType ==
    ASSUME TypeOK, NEW t \in Tasks, Transact(t)
    PROVE  TypeOK'
<1>1. options' \in [Tasks -> Options]
  BY OptionsAssumption DEF Transact, TypeOK, Options
<1>2. waiters' \in Seq(Tasks) /\ holder' \in Tasks \union {NoTask}
  <2>1. CASE holder = NoTask
    BY <2>1 DEF Transact, TypeOK
  <2>2. CASE holder # NoTask
    <3>1. waiters \in Seq(Tasks) /\ waiters' = Append(waiters, t) /\ holder' = holder
      BY <2>2 DEF Transact, TypeOK
    <3>2. Append(waiters, t) \in Seq(Tasks)
      BY <3>1, AppendProperties
    <3> QED
      BY <3>1, <3>2 DEF TypeOK
  <2> QED
    BY <2>1, <2>2
<1> QED
  BY <1>1, <1>2 DEF Transact, TypeOK, nodeVars, NodeTypeOK

\* A restart keeps them.
LEMMA RestartType == TypeOK /\ Restart => TypeOK'
BY ChainBounds DEF TypeOK, Restart, nodeVars, NodeTypeOK, Options, NoOptions, Nonces

\* So does every step.
LEMMA NextType == TypeOK /\ HighTyped /\ [Next]_vars => TypeOK'
<1> SUFFICES ASSUME TypeOK, HighTyped, [Next]_vars PROVE TypeOK'
  OBVIOUS
<1>1. CASE \E t \in Tasks : Transact(t) \/ Step(t)
  BY <1>1, TransactType, StepType
<1>2. CASE Environment
  <2>1. NodeTypeOK'
    BY <1>2, EnvironmentType DEF TypeOK
  <2> QED
    BY <1>2, <2>1 DEF Environment, managerVars, callVars, TypeOK
<1>3. CASE Restart
  BY <1>3, RestartType
<1>4. CASE UNCHANGED vars
  BY <1>4 DEF vars, managerVars, callVars, nodeVars, TypeOK, NodeTypeOK
<1> QED
  BY <1>1, <1>2, <1>3, <1>4 DEF Next

-----------------------------------------------------------------------------
(* Coroutines do not share their locals                                    *)

Move(t) == Transact(t) \/ Step(t)

\* A step of one task's call leaves the calls of the others where they are.
LEMMA OthersUntouched ==
    ASSUME TypeOK, NEW t \in Tasks, Move(t), NEW u \in Tasks, u # t
    PROVE  pc'[u] = pc[u] /\ nonce'[u] = nonce[u] /\ tx'[u] = tx[u]
<1>1. CASE Transact(t)
  BY <1>1 DEF Transact, TypeOK
<1>2. CASE \E r \in Results : Return(t, r)
  BY <1>2 DEF Return, TypeOK
<1>3. CASE Acquire(t)
  BY <1>3 DEF Acquire, callVars, TypeOK
<1>4. CASE EstimateGas(t) \/ ReadLatest(t) \/ ReadPending(t) \/ MakeOffer(t)
  BY <1>4 DEF EstimateGas, ReadLatest, ReadPending, MakeOffer, Goto, TypeOK
<1>5. CASE SendHigh(t) \/ SendDefault(t) \/ RefusedDefault(t)
  BY <1>5 DEF SendHigh, SendDefault, RefusedDefault, Goto, TypeOK
<1> QED
  BY <1>1, <1>2, <1>3, <1>4, <1>5 DEF Move, Step, GiveUp, RefusedHigh, AnswerLost,
     Confirmed, Reverted, TimedOut, AwaitRaises, Results

\* What a task is about to send is addressed to the nonce it read.
HighOK == \A t \in Tasks : pc[t] = "high" =>
    /\ tx[t] \in Txs
    /\ tx[t].nonce = nonce[t]
    /\ tx[t].task = t
    /\ tx[t].fees.priority <= tx[t].fees.fee

\* A transaction about to be sent keeps clearing the threshold of the record.
LEMMA HighOKStep ==
    ASSUME TypeOK, HighOK, NEW t \in Tasks, Move(t)
    PROVE  HighOK'
<1> SUFFICES ASSUME NEW u \in Tasks, pc'[u] = "high"
             PROVE  /\ tx'[u] \in Txs /\ tx'[u].nonce = nonce'[u] /\ tx'[u].task = u
                    /\ tx'[u].fees.priority <= tx'[u].fees.fee
  BY DEF HighOK
<1>1. CASE u # t
  BY <1>1, OthersUntouched DEF HighOK
<1>2. CASE u = t
  <2>1. MakeOffer(t)
    BY <1>2 DEF Move, Transact, Step, Acquire, EstimateGas, ReadLatest, ReadPending,
       GiveUp, SendHigh, RefusedHigh, SendDefault, RefusedDefault, AnswerLost,
       Confirmed, Reverted, TimedOut, AwaitRaises, Return, Goto, AfterTries, TypeOK,
       Idle
  <2>2. PICK fresh \in FreshFees : tx' = [tx EXCEPT ![t] =
                    [nonce |-> nonce[t], task |-> t, fees |-> Offer(t, fresh)]]
    BY <2>1 DEF MakeOffer
  <2>3. tx'[t] = [nonce |-> nonce[t], task |-> t, fees |-> Offer(t, fresh)]
    BY <2>2 DEF TypeOK
  <2>4. nonce' = nonce /\ nonce[t] \in Nonces
    BY <2>1 DEF MakeOffer, TypeOK
  <2> QED
    BY <1>2, <2>3, <2>4, OfferType DEF Txs
<1> QED
  BY <1>1, <1>2

-----------------------------------------------------------------------------
(* The lock                                                                *)

\* No step lets a second call past the lock.
LEMMA LockStep ==
    ASSUME TypeOK, OneCallInside, NEW t \in Tasks, Move(t)
    PROVE  OneCallInside'
<1> SUFFICES ASSUME NEW u \in Tasks, pc'[u] \in Critical
             PROVE  holder' = u
  BY DEF OneCallInside
<1>1. CASE Transact(t)
  <2>1. u # t /\ pc[u] \in Critical
    BY <1>1, OthersUntouched DEF Transact, TypeOK, Critical, Move
  <2>2. holder = u /\ holder # NoTask
    BY <2>1, SentinelAssumption DEF OneCallInside
  <2> QED
    BY <1>1, <2>2 DEF Transact
<1>2. CASE Acquire(t)
  <2>1. CASE u = t
    BY <1>2, <2>1 DEF Acquire
  <2>2. CASE u # t
    BY <1>2, <2>2, OthersUntouched DEF Acquire, OneCallInside
  <2> QED
    BY <2>1, <2>2
<1>3. CASE pc[t] \in Critical /\ holder' = holder
  <2>1. holder = t
    BY <1>3 DEF OneCallInside
  <2>2. CASE u # t
    BY <2>1, <2>2, OthersUntouched DEF OneCallInside
  <2> QED
    BY <1>3, <2>1, <2>2
<1>4. CASE pc[t] \in Critical /\ \E r \in Results : Return(t, r)
  <2>1. u # t
    BY <1>4 DEF Return, TypeOK, Critical, Idle
  <2>2. pc[u] \in Critical /\ holder = t /\ holder = u
    BY <1>4, <2>1, OthersUntouched DEF OneCallInside
  <2> QED
    BY <2>1, <2>2
<1> QED
  BY <1>1, <1>2, <1>3, <1>4 DEF Move, Step, EstimateGas, ReadLatest, ReadPending,
     GiveUp, MakeOffer, SendHigh, RefusedHigh, SendDefault, RefusedDefault,
     AnswerLost, Confirmed, Reverted, TimedOut, AwaitRaises, Goto, Critical, Results

-----------------------------------------------------------------------------
(* Nonces                                                                  *)

\* The count a call has read can only have grown since.
NonceNotAhead == \A t \in Tasks : nonce[t] <= Latest

\* A transaction the node accepts from t bears the nonce t read.
LEMMA AcceptedNonce ==
    ASSUME TypeOK, HighOK, NonceNotAhead, OneNonceInFlight,
           NEW t \in Tasks, NEW x \in Txs, x.nonce = nonce[t], Accept(x)
    PROVE  OneNonceInFlight' /\ Latest' = Latest
<1>1. x.nonce = Latest
  BY DEF Accept, NonceNotAhead, TypeOK, NodeTypeOK, Latest, Txs, Nonces
<1>2. chain' = chain /\ pool' \union loose' \subseteq pool \union loose \union {x}
  BY DEF Accept, LetLoose, Rivals
<1> QED
  BY <1>1, <1>2 DEF OneNonceInFlight, Latest

\* No step leaves two nonces of the wallet in flight.
LEMMA NonceStep ==
    ASSUME TypeOK, HighOK, NonceNotAhead, OneNonceInFlight, NEW t \in Tasks, Move(t)
    PROVE  NonceNotAhead' /\ OneNonceInFlight'
<1>1. OneNonceInFlight' /\ Latest' = Latest
  <2>1. CASE UNCHANGED nodeVars
    BY <2>1 DEF nodeVars, OneNonceInFlight, Latest
  <2>2. CASE (SendHigh(t) \/ AnswerLost(t)) /\ pc[t] = "high"
    BY <2>2, AcceptedNonce DEF SendHigh, AnswerLost, HighOK
  <2>3. CASE (SendDefault(t) \/ AnswerLost(t)) /\ pc[t] = "default"
    <3>1. PICK fees \in DefaultFees : Accept(DefaultTx(t, fees))
      BY <2>3 DEF SendDefault, AnswerLost
    <3>2. DefaultTx(t, fees) \in Txs /\ DefaultTx(t, fees).nonce = nonce[t]
      BY DefaultTxType DEF DefaultTx
    <3> QED
      BY <3>1, <3>2, AcceptedNonce
  <2> QED
    BY <2>1, <2>2, <2>3 DEF Move, Transact, Step, Acquire, EstimateGas, ReadLatest,
       ReadPending, GiveUp, MakeOffer, SendHigh, RefusedHigh, SendDefault,
       RefusedDefault, AnswerLost, Confirmed, Reverted, TimedOut, AwaitRaises
<1>2. nonce'[t] \in {nonce[t], Latest, 0}
  BY DEF Move, Transact, Step, Acquire, EstimateGas, ReadLatest, ReadPending, GiveUp,
     MakeOffer, SendHigh, RefusedHigh, SendDefault, RefusedDefault, AnswerLost,
     Confirmed, Reverted, TimedOut, AwaitRaises, Return, callVars, TypeOK
<1>3. ASSUME NEW u \in Tasks PROVE nonce'[u] <= Latest
  <2>1. Latest \in Nat
    BY LatestType DEF TypeOK, Nonces
  <2>2. CASE u = t
    BY <1>2, <2>1, <2>2 DEF NonceNotAhead
  <2>3. CASE u # t
    BY <2>3, OthersUntouched DEF NonceNotAhead
  <2> QED
    BY <2>2, <2>3
<1> QED
  BY <1>1, <1>3 DEF NonceNotAhead

\* Mining a transaction settles its nonce for all its competitors.
LEMMA NonceEnvironment ==
    ASSUME TypeOK, NonceNotAhead, OneNonceInFlight, Environment
    PROVE  NonceNotAhead' /\ OneNonceInFlight'
<1>1. nonce' = nonce /\ Latest \in Nat /\ nonce \in [Tasks -> Nonces]
  BY LatestType DEF Environment, managerVars, callVars, TypeOK, Nonces
<1>2. CASE Mine
  <2>1. PICK x \in pool \union loose, ok \in BOOLEAN :
             /\ x.nonce = Latest
             /\ chain' = Append(chain, [tx |-> x, ok |-> ok])
             /\ pool' = {y \in pool : y.nonce > x.nonce}
             /\ loose' = {y \in loose : y.nonce > x.nonce}
    BY <1>2 DEF Mine
  <2>2. Latest' = Latest + 1
    BY <2>1 DEF Latest, TypeOK, NodeTypeOK
  <2>3. pool' = {} /\ loose' = {}
    BY <1>1, <2>1 DEF OneNonceInFlight
  <2> QED
    BY <1>1, <2>2, <2>3 DEF OneNonceInFlight, NonceNotAhead, Nonces
<1>3. CASE Evict
  BY <1>1, <1>3 DEF Evict, LetLoose, OneNonceInFlight, NonceNotAhead, Latest
<1> QED
  BY <1>2, <1>3 DEF Environment

-----------------------------------------------------------------------------
(* The node holds at most one pending transaction of the wallet            *)

OnePending == \A x, y \in pool : x = y

\* A transaction the node takes competes with everything of ours that is open.
LEMMA AcceptedAlone ==
    ASSUME TypeOK, NonceNotAhead, OneNonceInFlight,
           NEW t \in Tasks, NEW x \in Txs, x.nonce = nonce[t], Accept(x)
    PROVE  pool' = {x}
<1>1. x.nonce = Latest
  BY DEF Accept, NonceNotAhead, TypeOK, NodeTypeOK, Latest, Txs, Nonces
<1>2. Rivals(x) = pool
  BY <1>1 DEF Rivals, OneNonceInFlight
<1> QED
  BY <1>2 DEF Accept

\* Only a call at one of the two sending places changes the pool.
LEMMA PoolStep ==
    ASSUME TypeOK, HighOK, NonceNotAhead, OneNonceInFlight, NEW t \in Tasks, Move(t)
    PROVE  \/ pool' = pool
           \/ pc[t] \in {"high", "default"} /\ \E x \in Txs : pool' = {x}
<1>1. CASE UNCHANGED nodeVars
  BY <1>1 DEF nodeVars
<1>2. CASE (SendHigh(t) \/ AnswerLost(t)) /\ pc[t] = "high"
  BY <1>2, AcceptedAlone DEF SendHigh, AnswerLost, HighOK
<1>3. CASE (SendDefault(t) \/ AnswerLost(t)) /\ pc[t] = "default"
  <2>1. PICK fees \in DefaultFees : Accept(DefaultTx(t, fees))
    BY <1>3 DEF SendDefault, AnswerLost
  <2>2. DefaultTx(t, fees) \in Txs /\ DefaultTx(t, fees).nonce = nonce[t]
    BY DefaultTxType DEF DefaultTx
  <2> QED
    BY <1>3, <2>1, <2>2, AcceptedAlone
<1> QED
  BY <1>1, <1>2, <1>3 DEF Move, Transact, Step, Acquire, EstimateGas, ReadLatest,
     ReadPending, GiveUp, MakeOffer, SendHigh, RefusedHigh, SendDefault,
     RefusedDefault, AnswerLost, Confirmed, Reverted, TimedOut, AwaitRaises

\* The environment takes transactions out of the pool, one at a time.
LEMMA PoolEnvironment ==
    ASSUME TypeOK, OneNonceInFlight, OnePending, Environment
    PROVE  pool' = pool \/ pool' = {}
<1>1. CASE Mine
  BY <1>1, LatestType DEF Mine, OneNonceInFlight, TypeOK, Nonces
<1>2. CASE Evict
  BY <1>2 DEF Evict, OnePending
<1> QED
  BY <1>1, <1>2 DEF Environment

-----------------------------------------------------------------------------
(* The remembered fees                                                     *)

RecordsOrdered == \A n \in Nonces :
    record[n] # NoFees => record[n].priority <= record[n].fee

\* The fees a call is about to send clear the threshold of those remembered
\* at this moment, not only of those it computed them from.
OfferClears == \A t \in Tasks :
    (pc[t] = "high" /\ record[nonce[t]] # NoFees)
        => Replaces(tx[t].fees, record[nonce[t]])

\* The only step that puts new fees on record is that of the call which sends them.
LEMMA RecordChange ==
    ASSUME TypeOK, NEW t \in Tasks, Move(t)
    PROVE  \/ record' = record
           \/ /\ pc[t] = "pending"
              /\ \A n \in Nonces : record'[n] \in {record[n], NoFees}
           \/ /\ pc[t] = "high"
              /\ record' = [record EXCEPT ![nonce[t]] = tx[t].fees]
<1>1. CASE ReadPending(t)
  BY <1>1 DEF ReadPending
<1>2. CASE SendHigh(t) \/ RefusedHigh(t)
  BY <1>2 DEF SendHigh, RefusedHigh
<1> QED
  BY <1>1, <1>2 DEF Move, Transact, Step, Acquire, EstimateGas, ReadLatest, GiveUp,
     MakeOffer, SendDefault, RefusedDefault, AnswerLost, Confirmed, Reverted,
     TimedOut, AwaitRaises

\* The record of a nonce stays, is forgotten, or rises.
LEMMA RecordStep ==
    ASSUME TypeOK, OneCallInside, HighOK, RecordsOrdered, OfferClears,
           NEW t \in Tasks, Move(t)
    PROVE  RecordsOrdered' /\ OfferClears'
<1>1. RecordsOrdered'
  <2>1. CASE pc[t] = "high" /\ record' = [record EXCEPT ![nonce[t]] = tx[t].fees]
    BY <2>1 DEF RecordsOrdered, HighOK, TypeOK
  <2> QED
    BY <2>1, RecordChange DEF RecordsOrdered
<1>2. ASSUME NEW u \in Tasks, pc'[u] = "high", record'[nonce'[u]] # NoFees
      PROVE  Replaces(tx'[u].fees, record'[nonce'[u]])
  <2>1. CASE u # t
    <3>1. pc[u] = "high" /\ nonce'[u] = nonce[u] /\ tx'[u] = tx[u]
      BY <1>2, <2>1, OthersUntouched
    <3>2. pc[t] \notin {"pending", "high"}
      BY <2>1, <3>1 DEF OneCallInside, Critical
    <3> QED
      BY <1>2, <3>1, <3>2, RecordChange DEF OfferClears
  <2>2. CASE u = t
    <3>1. MakeOffer(t)
      BY <1>2, <2>2 DEF Move, Transact, Step, Acquire, EstimateGas, ReadLatest,
         ReadPending, GiveUp, SendHigh, RefusedHigh, SendDefault, RefusedDefault,
         AnswerLost, Confirmed, Reverted, TimedOut, AwaitRaises, Return, Goto,
         AfterTries, TypeOK, Idle
    <3>2. PICK fresh \in FreshFees :
              /\ ~Pinned(t, fresh)
              /\ tx' = [tx EXCEPT ![t] =
                    [nonce |-> nonce[t], task |-> t, fees |-> Offer(t, fresh)]]
      BY <3>1 DEF MakeOffer
    <3>3. tx'[t].fees = Offer(t, fresh) /\ record' = record /\ nonce' = nonce
      BY <3>1, <3>2 DEF MakeOffer, TypeOK
    <3> QED
      BY <1>2, <2>2, <3>2, <3>3 DEF Pinned
  <2> QED
    BY <2>1, <2>2
<1> QED
  BY <1>1, <1>2 DEF OfferClears

-----------------------------------------------------------------------------
(* The inductive invariant                                                 *)

Inv ==
    /\ TypeOK
    /\ HighOK
    /\ OneCallInside
    /\ NonceNotAhead
    /\ OneNonceInFlight
    /\ OnePending
    /\ RecordsOrdered
    /\ OfferClears

\* The inductive invariant holds initially.
LEMMA InitInv == Init => Inv
<1> SUFFICES ASSUME Init PROVE Inv
  OBVIOUS
<1>1. TypeOK
  BY ChainBounds DEF Init, NodeInit, TypeOK, NodeTypeOK, Options, NoOptions, Nonces
<1>2. pc = [t \in Tasks |-> Idle] /\ \A t \in Tasks : pc[t] = Idle
  BY DEF Init
<1>3. HighOK /\ OneCallInside /\ OfferClears
  BY <1>2 DEF HighOK, OneCallInside, OfferClears, Critical, Idle
<1>4. NonceNotAhead /\ OneNonceInFlight /\ OnePending /\ RecordsOrdered
  BY DEF Init, NodeInit, NonceNotAhead, OneNonceInFlight, OnePending,
         RecordsOrdered, Latest
<1> QED
  BY <1>1, <1>3, <1>4 DEF Inv

\* Every step keeps the inductive invariant.
LEMMA NextInv == Inv /\ [Next]_vars => Inv'
<1> SUFFICES ASSUME Inv, [Next]_vars PROVE Inv'
  OBVIOUS
<1>1. TypeOK'
  BY NextType DEF Inv, HighOK, HighTyped
<1>2. ASSUME NEW t \in Tasks, Move(t) PROVE Inv'
  <2>1. HighOK' /\ OneCallInside' /\ NonceNotAhead' /\ OneNonceInFlight'
    BY <1>2, HighOKStep, LockStep, NonceStep DEF Inv
  <2>2. OnePending'
    BY <1>2, PoolStep DEF Inv, OnePending
  <2>3. RecordsOrdered' /\ OfferClears'
    BY <1>2, RecordStep DEF Inv
  <2> QED
    BY <1>1, <2>1, <2>2, <2>3 DEF Inv
<1>3. CASE Environment
  <2>1. NonceNotAhead' /\ OneNonceInFlight'
    BY <1>3, NonceEnvironment DEF Inv
  <2>2. OnePending'
    BY <1>3, PoolEnvironment DEF Inv, OnePending
  <2>3. HighOK' /\ OneCallInside' /\ RecordsOrdered' /\ OfferClears'
    BY <1>3 DEF Inv, Environment, managerVars, callVars, HighOK, OneCallInside,
                RecordsOrdered, OfferClears
  <2> QED
    BY <1>1, <2>1, <2>2, <2>3 DEF Inv
<1>4. CASE Restart
  <2>1. \A t \in Tasks : pc'[t] = Idle
    BY <1>4 DEF Restart
  <2>2. HighOK' /\ OneCallInside' /\ OfferClears'
    BY <2>1 DEF HighOK, OneCallInside, OfferClears, Critical, Idle
  <2>3. NonceNotAhead' /\ OneNonceInFlight' /\ OnePending' /\ RecordsOrdered'
    BY <1>4, LatestType DEF Restart, nodeVars, Inv, NonceNotAhead, OneNonceInFlight,
       OnePending, RecordsOrdered, Latest, TypeOK, Nonces
  <2> QED
    BY <1>1, <2>2, <2>3 DEF Inv
<1>5. CASE UNCHANGED vars
  BY <1>1, <1>5 DEF vars, managerVars, callVars, nodeVars, Inv, HighOK, OneCallInside,
     NonceNotAhead, OneNonceInFlight, OnePending, RecordsOrdered, OfferClears, Latest
<1> QED
  BY <1>2, <1>3, <1>4, <1>5 DEF Next, Move

\* The inductive invariant holds of every execution of the transaction manager;
\* the theorems below are read off it.
THEOREM Invariance == Spec => []Inv
BY InitInv, NextInv, PTL DEF Spec

\* Every variable keeps its type, whatever the tasks, fees and bounds are.
THEOREM TypeCorrect == Spec => []TypeOK
BY Invariance, PTL DEF Inv

\* The lock excludes: only its holder is anywhere between acquiring it and the
\* end of the wait for the receipt (transaction.py:135-139).
THEOREM LockExcludes == Spec => []OneCallInside
BY Invariance, PTL DEF Inv

\* All transactions of the wallet that can still be mined compete for the next
\* nonce, through restarts, evictions and lost answers (transaction.py:150-166).
THEOREM SingleNonce == Spec => []OneNonceInFlight
BY Invariance, PTL DEF Inv

\* No call's pending transaction is replaced while the call waits for it.
THEOREM AwaitedStays == Spec => AwaitedNotReplaced
<1>1. Inv /\ [Next]_vars => [\A t \in Tasks :
          (pc[t] = "wait" /\ tx[t] \in pool /\ tx[t] \notin pool') => pool' = {}]_vars
  <2> SUFFICES ASSUME Inv, Next, NEW t \in Tasks,
                      pc[t] = "wait", tx[t] \in pool, tx[t] \notin pool'
               PROVE  pool' = {}
    OBVIOUS
  <2>1. ASSUME NEW u \in Tasks, Move(u) PROVE FALSE
    <3>1. pc[u] \in {"high", "default"}
      BY <2>1, PoolStep DEF Inv
    <3> QED
      BY <3>1 DEF Inv, OneCallInside, Critical
  <2>2. CASE Environment
    BY <2>2, PoolEnvironment DEF Inv
  <2>3. CASE Restart
    BY <2>3 DEF Restart, nodeVars
  <2> QED
    BY <2>1, <2>2, <2>3 DEF Next, Move
<1> QED
  BY <1>1, Invariance, PTL DEF Spec, AwaitedNotReplaced

\* What is remembered of a nonce's fees only rises, by the code's own factor.
THEOREM FeesRise == Spec => EscalationRises
<1>1. Inv /\ [Next]_vars => [\A n \in Nonces :
          (record[n] # NoFees /\ record'[n] \notin {NoFees, record[n]})
              => Replaces(record'[n], record[n])]_vars
  <2> SUFFICES ASSUME Inv, Next, NEW n \in Nonces,
                      record[n] # NoFees, record'[n] \notin {NoFees, record[n]}
               PROVE  Replaces(record'[n], record[n])
    OBVIOUS
  <2>1. ASSUME NEW t \in Tasks, Move(t) PROVE Replaces(record'[n], record[n])
    <3>1. pc[t] = "high" /\ record' = [record EXCEPT ![nonce[t]] = tx[t].fees]
      BY <2>1, RecordChange DEF Inv
    <3>2. n = nonce[t] /\ record'[n] = tx[t].fees
      BY <3>1 DEF Inv, TypeOK
    <3> QED
      BY <3>1, <3>2 DEF Inv, OfferClears
  <2>2. CASE Environment
    BY <2>2 DEF Environment, managerVars
  <2>3. CASE Restart
    BY <2>3 DEF Restart
  <2> QED
    BY <2>1, <2>2, <2>3 DEF Next, Move
<1> QED
  BY <1>1, Invariance, PTL DEF Spec, EscalationRises

\* The code's threshold, carried or not, is not below the node's ten percent.
LEMMA ThresholdCoversRule ==
    ASSUME NEW x \in AllFees, NEW prev \in AllFees, Replaces(x, prev)
    PROVE  Outbids(x, prev)
<1>1. ASSUME NEW v \in Nat, NEW w \in Nat, w >= MinReplacement(v)
      PROVE  10 * w >= 11 * v
  <2>1. w >= (11 * v + 9) \div 10
    BY <1>1 DEF MinReplacement
  <2> QED
    BY <2>1
<1> QED
  BY <1>1 DEF AllFees, Replaces, Outbids

\* An escalated replacement clears the node's rule for all fees, ceilings and
\* roundings, through interleavings, evictions and restarts.
THEOREM ReplacementsClear == Spec => []NeverUnderpriced
<1>1. Inv => NeverUnderpriced
  <2> SUFFICES ASSUME Inv, NEW t \in Tasks, NEW x \in pool,
                      pc[t] = "high", x.nonce = nonce[t], x.fees = record[x.nonce]
               PROVE  Outbids(tx[t].fees, x.fees)
    BY DEF NeverUnderpriced
  <2>1. x.fees \in AllFees /\ tx[t].fees \in AllFees
    BY DEF Inv, TypeOK, NodeTypeOK, HighOK, Txs
  <2>2. Replaces(tx[t].fees, x.fees)
    BY <2>1, SentinelAssumption DEF Inv, OfferClears
  <2> QED
    BY <2>1, <2>2, ThresholdCoversRule
<1> QED
  BY <1>1, Invariance, PTL

\* A nonce is given up only when no fees under the ceiling could replace what
\* is remembered of it.
THEOREM GivesUpLast == Spec => GivesUpOnlyWhenHopeless
<1>1. Inv /\ [Next]_vars =>
          [\A t \in Tasks : GaveUp(t) => Hopeless(record[nonce[t]])]_vars
  <2> SUFFICES ASSUME Inv, Next, NEW t \in Tasks, GaveUp(t)
               PROVE  Hopeless(record[nonce[t]])
    OBVIOUS
  <2>1. PICK u \in Tasks : Move(u)
    BY DEF GaveUp, Next, Move, Environment, Restart, managerVars, Idle
  <2>2. u = t
    BY <2>1, OthersUntouched DEF GaveUp, Inv, Idle
  <2>3. GiveUp(t)
    BY <2>1, <2>2 DEF GaveUp, Inv, TypeOK, Move, Transact, Step, Acquire, EstimateGas,
       ReadLatest, ReadPending, MakeOffer, SendHigh, RefusedHigh, SendDefault,
       RefusedDefault, AnswerLost, Confirmed, Reverted, TimedOut, AwaitRaises, Return,
       Goto, Idle
  <2>4. PICK fresh \in FreshFees : Pinned(t, fresh)
    BY <2>3 DEF GiveUp
  <2>5. nonce[t] \in Nonces /\ record[nonce[t]] \in AllFees /\ fresh \in AllFees
    BY <2>4, FeesAssumption DEF Pinned, Inv, TypeOK
  <2>6. record[nonce[t]].priority <= record[nonce[t]].fee
    BY <2>4, <2>5 DEF Pinned, Inv, RecordsOrdered
  <2> QED
    BY <2>4, <2>5, <2>6, ClampingWastesNothing DEF Pinned, Offer
<1> QED
  BY <1>1, Invariance, PTL DEF Spec, GivesUpOnlyWhenHopeless

-----------------------------------------------------------------------------
(* The queue for the lock                                                  *)

Members(s) == {s[i] : i \in 1 .. Len(s)}
Distinct(s) == \A i, j \in 1 .. Len(s) : s[i] = s[j] => i = j

\* The first of the queue is taken out of it.
LEMMA TailMembers ==
    ASSUME NEW s \in Seq(Tasks), s # <<>>, Distinct(s)
    PROVE  /\ Members(s) = Members(Tail(s)) \union {Head(s)}
           /\ Head(s) \notin Members(Tail(s))
           /\ Distinct(Tail(s))
<1>1. /\ Len(s) \in Nat \ {0} /\ Len(Tail(s)) = Len(s) - 1 /\ Head(s) = s[1]
      /\ \A i \in 1 .. Len(Tail(s)) : Tail(s)[i] = s[i + 1]
  BY EmptySeq, HeadTailProperties
<1>2. \A i \in 1 .. Len(Tail(s)) : i + 1 \in 1 .. Len(s) /\ i + 1 # 1
  BY <1>1
<1>3. \A j \in 1 .. Len(s) : j = 1 \/ (j - 1 \in 1 .. Len(Tail(s)) /\ s[j] = Tail(s)[j - 1])
  BY <1>1
<1>4. Members(s) \subseteq Members(Tail(s)) \union {Head(s)}
  BY <1>1, <1>3 DEF Members
<1>5. Members(Tail(s)) \union {Head(s)} \subseteq Members(s)
  BY <1>1, <1>2 DEF Members
<1>6. 1 \in 1 .. Len(s)
  BY <1>1
<1>7. Head(s) \notin Members(Tail(s))
  BY <1>1, <1>2, <1>6 DEF Members, Distinct
<1>8. ASSUME NEW i \in 1 .. Len(Tail(s)), NEW j \in 1 .. Len(Tail(s)), Tail(s)[i] = Tail(s)[j]
      PROVE  i = j
  <2>1. i + 1 = j + 1
    BY <1>1, <1>2, <1>8 DEF Distinct
  <2> QED
    BY <2>1
<1> QED
  BY <1>4, <1>5, <1>7, <1>8 DEF Distinct

\* A new one is put behind the others.
LEMMA AppendMembers ==
    ASSUME NEW s \in Seq(Tasks), NEW t \in Tasks, t \notin Members(s), Distinct(s)
    PROVE  /\ Members(Append(s, t)) = Members(s) \union {t}
           /\ Distinct(Append(s, t))
           /\ Append(s, t) # <<>>
<1>1. /\ Len(s) \in Nat /\ Len(Append(s, t)) = Len(s) + 1
      /\ Append(s, t)[Len(s) + 1] = t
      /\ \A i \in 1 .. Len(s) : Append(s, t)[i] = s[i]
  BY AppendProperties
<1>2. \A i \in 1 .. Len(s) + 1 : i \in 1 .. Len(s) \/ i = Len(s) + 1
  BY <1>1
<1>3. 1 .. Len(s) \subseteq 1 .. Len(s) + 1 /\ Len(s) + 1 \in 1 .. Len(s) + 1
  BY <1>1
<1>4. Members(Append(s, t)) = Members(s) \union {t}
  BY <1>1, <1>2, <1>3 DEF Members
<1>5. \A i \in 1 .. Len(s) : s[i] # t
  BY DEF Members
<1>6. Distinct(Append(s, t))
  BY <1>1, <1>2, <1>5 DEF Distinct
<1> QED
  BY <1>1, <1>4, <1>6, EmptySeq

\* NobodyForgotten in these terms.
LEMMA QueueTerms ==
    /\ Queued = Members(waiters)
    /\ NobodyForgotten <=>
         /\ {t \in Tasks : pc[t] # Idle} = Members(waiters) \union ({holder} \ {NoTask})
         /\ \A t \in Members(waiters) : pc[t] = "queued" /\ holder # t
         /\ Distinct(waiters)
         /\ holder = NoTask => waiters = <<>>
BY DEF Queued, Members, Distinct, NobodyForgotten

\* A call that ends hands the lock to the first in the queue.
LEMMA ReleaseKeepsQueue ==
    ASSUME TypeOK, OneCallInside, NobodyForgotten,
           NEW t \in Tasks, pc[t] \in Critical, NEW r, Return(t, r)
    PROVE  NobodyForgotten'
<1>1. holder = t /\ t # NoTask /\ t \notin Members(waiters)
  BY SentinelAssumption, QueueTerms DEF OneCallInside
<1>2. pc' = [pc EXCEPT ![t] = Idle] /\ Release
  BY DEF Return
<1>3. {u \in Tasks : pc'[u] # Idle} = Members(waiters)
  BY <1>1, <1>2, QueueTerms DEF TypeOK
<1>4. CASE waiters = <<>>
  <2>1. holder' = NoTask /\ waiters' = <<>> /\ Members(waiters) = {}
    BY <1>2, <1>4 DEF Release, Members
  <2>2. Members(waiters') = {} /\ Distinct(waiters')
    BY <2>1 DEF Members, Distinct
  <2> QED
    BY <1>3, <2>1, <2>2, QueueTerms DEF NobodyForgotten, Queued, Members, Distinct
<1>5. CASE waiters # <<>>
  <2>1. holder' = Head(waiters) /\ waiters' = Tail(waiters)
    BY <1>2, <1>5 DEF Release
  <2>2. /\ Members(waiters) = Members(waiters') \union {holder'}
        /\ holder' \notin Members(waiters')
        /\ Distinct(waiters')
    BY <1>5, <2>1, TailMembers, QueueTerms DEF TypeOK
  <2>3. holder' \in Tasks /\ holder' # NoTask
    BY <1>5, <2>1, HeadTailProperties, SentinelAssumption DEF TypeOK
  <2>4. \A u \in Members(waiters') : pc'[u] = "queued"
    BY <1>1, <1>2, <2>2, QueueTerms DEF TypeOK
  <2>5. Members(waiters') = Queued'
    BY DEF Members, Queued
  <2> QED
    BY <1>3, <2>2, <2>3, <2>4, <2>5 DEF NobodyForgotten, Distinct
<1> QED
  BY <1>4, <1>5

\* No step of a call loses another one.
LEMMA QueueStep ==
    ASSUME TypeOK, OneCallInside, NobodyForgotten, NEW t \in Tasks, Move(t)
    PROVE  NobodyForgotten'
<1>1. CASE Transact(t)
  <2>1. pc[t] = Idle /\ pc' = [pc EXCEPT ![t] = "queued"] /\ pc'[t] = "queued"
    BY <1>1 DEF Transact, TypeOK
  <2>2. t \notin Members(waiters) /\ t # holder
    BY <2>1, QueueTerms, SentinelAssumption DEF Idle
  <2>3. {u \in Tasks : pc'[u] # Idle} = {u \in Tasks : pc[u] # Idle} \union {t}
    BY <2>1 DEF TypeOK, Idle
  <2>4. CASE holder = NoTask
    BY <1>1, <2>1, <2>2, <2>3, <2>4, QueueTerms, SentinelAssumption
    DEF Transact, NobodyForgotten, Queued, Members, Distinct
  <2>5. CASE holder # NoTask
    <3>1. waiters' = Append(waiters, t) /\ holder' = holder
      BY <1>1, <2>5 DEF Transact
    <3>2. Members(waiters') = Members(waiters) \union {t} /\ Distinct(waiters')
      BY <2>2, <3>1, AppendMembers, QueueTerms DEF TypeOK
    <3>3. \A u \in Members(waiters') : pc'[u] = "queued" /\ holder' # u
      BY <2>1, <2>2, <3>1, <3>2, QueueTerms DEF TypeOK
    <3>4. Members(waiters') = Queued'
      BY DEF Members, Queued
    <3> QED
      BY <2>3, <2>5, <3>1, <3>2, <3>3, <3>4, QueueTerms DEF NobodyForgotten, Distinct
  <2> QED
    BY <2>4, <2>5
<1>2. CASE /\ pc[t] \in Critical \union {"queued"} /\ holder = t
           /\ \E place \in Critical : pc' = [pc EXCEPT ![t] = place]
           /\ UNCHANGED <<holder, waiters>>
  <2>1. {u \in Tasks : pc'[u] # Idle} = {u \in Tasks : pc[u] # Idle}
    BY <1>2 DEF TypeOK, Idle, Critical
  <2>2. \A u \in Members(waiters) : pc'[u] = pc[u]
    BY <1>2, QueueTerms DEF TypeOK
  <2>3. Members(waiters) = Queued' /\ Queued = Members(waiters)
    BY <1>2 DEF Queued, Members
  <2> QED
    BY <1>2, <2>1, <2>2, <2>3 DEF NobodyForgotten
<1>3. CASE pc[t] \in Critical /\ \E r \in Results : Return(t, r)
  BY <1>3, ReleaseKeepsQueue
<1>4. Acquire(t) => /\ pc[t] = "queued" /\ holder = t
                    /\ \E place \in Critical : pc' = [pc EXCEPT ![t] = place]
                    /\ UNCHANGED <<holder, waiters>>
  BY DEF Acquire, Critical
<1>5. ASSUME NEW place \in Critical, pc[t] \in Critical, Goto(t, place)
      PROVE  /\ holder = t /\ UNCHANGED <<holder, waiters>>
             /\ pc' = [pc EXCEPT ![t] = place]
  BY <1>5 DEF Goto, OneCallInside
<1>6. CASE EstimateGas(t) \/ ReadLatest(t) \/ ReadPending(t) \/ MakeOffer(t)
             \/ SendHigh(t) \/ SendDefault(t) \/ RefusedDefault(t)
  <2>1. pc[t] \in Critical /\ \E place \in Critical : Goto(t, place)
    BY <1>6 DEF EstimateGas, ReadLatest, ReadPending, MakeOffer, SendHigh, SendDefault,
       RefusedDefault, AfterTries, Critical
  <2> QED
    BY <1>2, <1>5, <2>1
<1>7. CASE GiveUp(t) \/ RefusedHigh(t) \/ AnswerLost(t) \/ Confirmed(t) \/ Reverted(t)
             \/ TimedOut(t) \/ AwaitRaises(t)
  <2>1. pc[t] \in Critical /\ \E r \in Results : Return(t, r)
    BY <1>7 DEF GiveUp, RefusedHigh, AnswerLost, Confirmed, Reverted, TimedOut,
       AwaitRaises, Critical, Results
  <2> QED
    BY <1>3, <2>1
<1> QED
  BY <1>1, <1>2, <1>4, <1>6, <1>7 DEF Move, Step

\* No call is left waiting for a lock that nobody holds, and none waits twice,
\* for any number of tasks (transaction.py:135-139).
THEOREM NoneForgotten == Spec => []NobodyForgotten
<1>1. Init => NobodyForgotten
  BY DEF Init, NobodyForgotten, Queued
<1>2. Inv /\ NobodyForgotten /\ [Next]_vars => NobodyForgotten'
  <2> SUFFICES ASSUME Inv, NobodyForgotten, [Next]_vars PROVE NobodyForgotten'
    OBVIOUS
  <2>1. CASE \E t \in Tasks : Move(t)
    BY <2>1, QueueStep DEF Inv
  <2>2. CASE Restart
    BY <2>2 DEF Restart, NobodyForgotten, Queued
  <2>3. CASE UNCHANGED managerVars
    BY <2>3 DEF managerVars, NobodyForgotten, Queued
  <2> QED
    BY <2>1, <2>2, <2>3 DEF Next, Move, Environment, vars
<1> QED
  BY <1>1, <1>2, Invariance, PTL DEF Spec

-----------------------------------------------------------------------------
(* The length of a call                                                    *)

\* The refusals of the default fees are counted from zero, up to Attempts.
TriesOK == \A t \in Tasks :
    /\ pc[t] \in {Idle, "queued", "estimate", "latest", "pending"} => tries[t] = 0
    /\ pc[t] = "default" => tries[t] < Attempts

\* A call in progress is not touched by the steps of the others.
LEMMA OthersTries ==
    ASSUME TypeOK, NEW t \in Tasks, Move(t), NEW u \in Tasks, u # t
    PROVE  tries'[u] = tries[u]
<1>1. CASE \E r : Return(t, r)
  BY <1>1 DEF Return, TypeOK
<1>2. CASE RefusedDefault(t)
  BY <1>2 DEF RefusedDefault, TypeOK
<1>3. CASE tries' = tries
  BY <1>3
<1> QED
  BY <1>1, <1>2, <1>3 DEF Move, Transact, Step, Acquire, EstimateGas, ReadLatest,
     ReadPending, GiveUp, MakeOffer, SendHigh, RefusedHigh, SendDefault, AnswerLost,
     Confirmed, Reverted, TimedOut, AwaitRaises, callVars

\* The ways a call takes: where each step of it leads.
LEMMA WaysOn ==
    ASSUME TypeOK, NEW t \in Tasks, Move(t)
    PROVE  \/ pc[t] = Idle /\ pc'[t] = "queued" /\ tries'[t] = tries[t]
           \/ pc[t] = "queued" /\ pc'[t] \in {"estimate", "latest"} /\ tries'[t] = tries[t]
           \/ pc[t] = "estimate" /\ pc'[t] = "latest" /\ tries'[t] = tries[t]
           \/ pc[t] = "latest" /\ pc'[t] = "pending" /\ tries'[t] = tries[t]
           \/ pc[t] = "pending" /\ pc'[t] \in {"gas", AfterTries(0)} /\ tries'[t] = tries[t]
           \/ pc[t] = "gas" /\ pc'[t] = "high" /\ tries'[t] = tries[t]
           \/ pc[t] \in {"high", "default"} /\ pc'[t] = "wait" /\ tries'[t] = tries[t]
           \/ /\ pc[t] = "default" /\ pc'[t] = AfterTries(tries[t] + 1)
              /\ tries'[t] = tries[t] + 1
           \/ pc[t] \in Critical /\ pc'[t] = Idle /\ tries'[t] = 0
<1>1. CASE Transact(t) \/ Acquire(t)
  BY <1>1 DEF Transact, Acquire, callVars, TypeOK
<1>2. CASE EstimateGas(t) \/ ReadLatest(t) \/ ReadPending(t) \/ MakeOffer(t)
  BY <1>2 DEF EstimateGas, ReadLatest, ReadPending, MakeOffer, Goto, TypeOK
<1>3. CASE SendHigh(t) \/ SendDefault(t)
  BY <1>3 DEF SendHigh, SendDefault, Goto, TypeOK
<1>4. CASE RefusedDefault(t)
  BY <1>4 DEF RefusedDefault, Goto, TypeOK
<1>5. CASE GiveUp(t) \/ RefusedHigh(t) \/ AnswerLost(t) \/ Confirmed(t) \/ Reverted(t)
             \/ TimedOut(t) \/ AwaitRaises(t)
  <2>1. pc[t] \in Critical /\ \E r : Return(t, r)
    BY <1>5 DEF GiveUp, RefusedHigh, AnswerLost, Confirmed, Reverted, TimedOut,
       AwaitRaises, Critical
  <2> QED
    BY <2>1 DEF Return, TypeOK
<1> QED
  BY <1>1, <1>2, <1>3, <1>4, <1>5 DEF Move, Step

LEMMA TriesStep ==
    ASSUME TypeOK, TriesOK, NEW t \in Tasks, Move(t)
    PROVE  TriesOK'
<1>1. ASSUME NEW u \in Tasks, u # t
      PROVE  pc'[u] = pc[u] /\ tries'[u] = tries[u]
  BY <1>1, OthersUntouched, OthersTries
<1>2. /\ pc'[t] \in {Idle, "queued", "estimate", "latest", "pending"} => tries'[t] = 0
      /\ pc'[t] = "default" => tries'[t] < Attempts
  BY WaysOn, AttemptsAssumption DEF TriesOK, AfterTries, Idle, Critical, TypeOK
<1> QED
  BY <1>1, <1>2 DEF TriesOK

\* Each step of the call that holds the lock leaves fewer to be made.
LEMMA StepsRunDown ==
    ASSUME TypeOK, TriesOK, NEW t \in Tasks, Move(t), pc[t] \in Critical
    PROVE  /\ StepsLeft(t)' \in Nat
           /\ StepsLeft(t)' < StepsLeft(t)
<1>1. Attempts \in Nat /\ tries[t] \in Nat
  BY AttemptsAssumption DEF TypeOK
<1>2. /\ pc[t] = "default" => tries[t] < Attempts
      /\ pc[t] = "pending" => tries[t] = 0
  BY DEF TriesOK
<1> QED
  BY <1>1, <1>2, WaysOn DEF StepsLeft, AfterTries, Critical, Idle

\* However the node answers, a call holds the lock for Attempts + 6 steps at
\* most: each leaves fewer to be made (transaction.py:141-257).
THEOREM CallsAreBounded == Spec => CallsRunDown
<1>1. Init => TriesOK
  BY DEF Init, TriesOK, Idle
<1>2. Inv /\ TriesOK /\ [Next]_vars => TriesOK'
  <2> SUFFICES ASSUME Inv, TriesOK, [Next]_vars PROVE TriesOK'
    OBVIOUS
  <2>1. CASE \E t \in Tasks : Move(t)
    BY <2>1, TriesStep DEF Inv
  <2>2. CASE Restart
    BY <2>2 DEF Restart, TriesOK, Idle
  <2>3. CASE UNCHANGED managerVars
    BY <2>3 DEF managerVars, callVars, TriesOK
  <2> QED
    BY <2>1, <2>2, <2>3 DEF Next, Move, Environment, vars
<1>3. Inv /\ TriesOK /\ [Next]_vars =>
        [\A t \in Tasks :
          (pc[t] \in Critical /\ <<pc[t], tries[t], tx[t]>>' # <<pc[t], tries[t], tx[t]>>)
              => 0 <= StepsLeft(t)' /\ StepsLeft(t)' < StepsLeft(t)]_vars
  <2> SUFFICES ASSUME Inv, TriesOK, Next, NEW t \in Tasks, pc[t] \in Critical,
                      <<pc[t], tries[t], tx[t]>>' # <<pc[t], tries[t], tx[t]>>
               PROVE  0 <= StepsLeft(t)' /\ StepsLeft(t)' < StepsLeft(t)
    OBVIOUS
  <2>1. CASE \E u \in Tasks : Move(u)
    <3>1. PICK u \in Tasks : Move(u)
      BY <2>1
    <3>2. u = t
      BY <3>1, OthersUntouched, OthersTries DEF Inv
    <3> QED
      BY <3>1, <3>2, StepsRunDown DEF Inv
  <2>2. CASE Restart
    <3>1. pc'[t] = Idle
      BY <2>2 DEF Restart
    <3> QED
      BY <3>1, AttemptsAssumption DEF StepsLeft, Critical, Idle, TriesOK, Inv, TypeOK
  <2>3. CASE UNCHANGED managerVars
    BY <2>3 DEF managerVars, callVars
  <2> QED
    BY <2>1, <2>2, <2>3 DEF Next, Move, Environment
<1> QED
  BY <1>1, <1>2, <1>3, Invariance, PTL DEF Spec, CallsRunDown

=============================================================================
