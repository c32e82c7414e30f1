---------------------------- MODULE KeeperProofs ----------------------------
(***************************************************************************)
(* Types of the process with its price and exits tasks, that it does not   *)
(* pay twice for a sync it knows to be under way, and that no task runs    *)
(* twice at once, for any validators, oracles, threshold, periods and      *)
(* bounds.                                                                 *)
(***************************************************************************)
EXTENDS KeeperProperties, FiniteSetTheorems, TLAPS

\* The time that was noted is not before the last receipt the process saw, and
\* the task goes on to a sync only when it is long ago.
NotedInTime ==
    /\ \A m \in transit : m.receipt = "seen" => since <= m.age
    /\ syncing \in {"quote", "submit"} => since = MaxWait

IInv == TypeOK /\ NotedInTime

-----------------------------------------------------------------------------
(* What the operators return                                               *)

\* Counting on stays below the bound, and keeps the order of two times.
LEMMA LaterType ==
    ASSUME NEW bound \in Nat, NEW t \in 0 .. bound
    PROVE  /\ Later(t, bound) \in 0 .. bound
           /\ \A u \in 0 .. bound : t <= u => Later(t, bound) <= Later(u, bound)
           /\ Later(bound, bound) = bound
BY DEF Later

LEMMA MessageTypes == Missed \in Messages /\ \A m \in Messages : m.age \in 0 .. MaxWait
BY TimesAssumption DEF Missed, Messages

LEMMA ChecksFacts ==
    /\ Len(Checks) = 7 /\ DOMAIN Checks = 1 .. 7
    /\ \A i \in 1 .. 7 : Checks[i] \notin {"config", "round", "balance", "sleep", "down"}
<1>1. Len(Checks) = 7 /\ DOMAIN Checks = 1 .. 7
  BY DEF Checks
<1>2. /\ Checks[1] = "check balance" /\ Checks[2] = "check consensus"
      /\ Checks[3] = "check execution" /\ Checks[4] = "check l2"
      /\ Checks[5] = "check graph" /\ Checks[6] = "check ipfs" /\ Checks[7] = "check oracles"
  BY DEF Checks
<1>3. ASSUME NEW i \in 1 .. 7
      PROVE  i = 1 \/ i = 2 \/ i = 3 \/ i = 4 \/ i = 5 \/ i = 6 \/ i = 7
  OBVIOUS
<1> QED
  BY <1>1, <1>2, <1>3

\* The steps of the transactions keep their types.
LEMMA OutboxTypes ==
    ASSUME OutboxTypeOK({Sync}),
           \/ Submit(Sync) \/ CallEnds \/ CallFails(Sync, TRUE) \/ Lose
           \/ \E ok \in BOOLEAN : Settle(Sync, ok)
           \/ UNCHANGED outbox
    PROVE  OutboxTypeOK({Sync})'
BY SyncAssumption
DEF OutboxTypeOK, Submit, Compete, CallEnds, CallFails, Lose, Settle, outbox

-----------------------------------------------------------------------------
(* The initial states and the steps                                        *)

LEMMA InitInv == Init => IInv
BY SyncAssumption, TimesAssumption, ExitsAssumption, ChecksFacts
DEF Init, IInv, TypeOK, NotedInTime, PriceInit, PriceTypeOK, OutboxInit, OutboxTypeOK,
    ExitsInit, ExitsTypeOK, TasksEnded, Ended

\* Time passes for the syncs under way as it does for the task.
LEMMA TickInv == ASSUME IInv, Tick PROVE PriceTypeOK' /\ NotedInTime'
<1>1. PriceTypeOK'
  <2>1. age' \in 0 .. Interval /\ since' \in 0 .. MaxWait
    BY LaterType, TimesAssumption DEF Tick, IInv, TypeOK, PriceTypeOK
  <2>2. transit' \subseteq Messages
    BY LaterType, TimesAssumption DEF Tick, IInv, TypeOK, PriceTypeOK, Messages
  <2>3. OutboxTypeOK({Sync})'
    BY OutboxTypes DEF Tick, IInv, TypeOK, PriceTypeOK
  <2> QED
    BY <2>1, <2>2, <2>3 DEF Tick, IInv, TypeOK, PriceTypeOK, outbox
<1>2. ASSUME NEW m \in transit', m.receipt = "seen" PROVE since' <= m.age
  <2>1. PICK n \in transit : m = [n EXCEPT !.age = Later(@, MaxWait)]
    BY <1>2 DEF Tick
  <2>2. n \in Messages /\ n.receipt = "seen" /\ m.age = Later(n.age, MaxWait)
    BY <1>2, <2>1 DEF IInv, TypeOK, PriceTypeOK, Messages
  <2>3. since <= n.age /\ since \in 0 .. MaxWait /\ n.age \in 0 .. MaxWait
    BY <2>2, MessageTypes DEF IInv, TypeOK, PriceTypeOK, NotedInTime
  <2> QED
    BY <2>2, <2>3, LaterType, TimesAssumption DEF Tick
<1>3. syncing' \in {"quote", "submit"} => since' = MaxWait
  BY LaterType, TimesAssumption DEF Tick, IInv, NotedInTime
<1> QED
  BY <1>1, <1>2, <1>3 DEF NotedInTime

\* The chain and the bridge do not make a receipt seen.
LEMMA WorldInv ==
    ASSUME IInv, \/ LoseSync \/ \E ok \in BOOLEAN : LandSync(ok)
                 \/ \E m \in transit : Deliver(m) \/ LoseMessage(m)
    PROVE  PriceTypeOK' /\ NotedInTime'
<1> DEFINE fresh == [age |-> 0, receipt |-> "awaited"]
<1>1. fresh \in Messages /\ fresh.receipt # "seen" /\ Missed.receipt # "seen"
  BY TimesAssumption DEF Messages, Missed
<1>2. /\ transit' \subseteq transit \union {fresh, Missed}
      /\ age' \in {age, 0} /\ UNCHANGED <<syncing, since, sent>>
  BY DEF LoseSync, LandSync, Deliver, LoseMessage, Lose, Settle, outbox
<1>3. OutboxTypeOK({Sync})'
  <2>1. Lose \/ (\E ok \in BOOLEAN : Settle(Sync, ok)) \/ UNCHANGED outbox
    BY DEF LoseSync, LandSync, Deliver, LoseMessage
  <2> QED
    BY <2>1, OutboxTypes DEF IInv, TypeOK, PriceTypeOK
<1> HIDE DEF fresh
<1> QED
  BY <1>1, <1>2, <1>3, MessageTypes, TimesAssumption
  DEF IInv, TypeOK, PriceTypeOK, NotedInTime

LEMMA RunInv == ASSUME IInv, PriceRun PROVE PriceTypeOK' /\ NotedInTime'
<1> USE DEF IInv, TypeOK
<1>1. OutboxTypeOK({Sync})'
  <2>1. \/ UNCHANGED outbox \/ Submit(Sync) \/ CallEnds \/ CallFails(Sync, TRUE)
    BY DEF PriceRun, CheckTimestamp, Quote, SendSync, Confirmed, Unconfirmed, PriceRaises
  <2> QED
    BY <2>1, OutboxTypes DEF PriceTypeOK
<1>2. CASE CheckTimestamp
  BY <1>1, <1>2, TimesAssumption DEF CheckTimestamp, PriceTypeOK, NotedInTime, outbox
<1>3. CASE Quote
  BY <1>1, <1>3 DEF Quote, PriceTypeOK, NotedInTime, outbox
<1>4. CASE SendSync
  BY <1>1, <1>4 DEF SendSync, Submit, PriceTypeOK, NotedInTime
<1>5. CASE Confirmed
  <2>1. \A m \in transit' : m \in Messages
    BY <1>5 DEF Confirmed, MarkSeen, Awaited, PriceTypeOK, Messages
  <2> QED
    BY <1>1, <1>5, <2>1, MessageTypes, TimesAssumption
    DEF Confirmed, CallEnds, PriceTypeOK, NotedInTime
<1>6. CASE Unconfirmed
  <2>1. transit' \subseteq transit \union {Missed}
    BY <1>6 DEF Unconfirmed
  <2>2. Missed.receipt # "seen"
    BY DEF Missed
  <2> QED
    BY <1>1, <1>6, <2>1, <2>2, MessageTypes
    DEF Unconfirmed, CallEnds, PriceTypeOK, NotedInTime
<1>7. CASE PriceRaises
  BY <1>1, <1>7 DEF PriceRaises, CallFails, PriceTypeOK, NotedInTime, outbox
<1> QED
  BY <1>2, <1>3, <1>4, <1>5, <1>6, <1>7 DEF PriceRun

\* A process that is down knows of no receipt.
LEMMA ForgetInv == ASSUME IInv, PriceForgets PROVE PriceTypeOK' /\ NotedInTime' /\ syncing' \in Ended
<1>1. OutboxTypeOK({Sync})'
  BY OutboxTypes DEF PriceForgets, IInv, TypeOK, PriceTypeOK
<1>2. transit' \subseteq {Missed} /\ Missed.receipt # "seen"
  BY DEF PriceForgets, Missed
<1> QED
  BY <1>1, <1>2, MessageTypes, TimesAssumption
  DEF PriceForgets, CallEnds, IInv, TypeOK, PriceTypeOK, NotedInTime, Ended

LEMMA ExitsInv == ASSUME ExitsTypeOK, ExitsRun \/ ExitsWorld \/ ExitsForget PROVE ExitsTypeOK'
<1> USE ExitsAssumption
<1>1. ASSUME NEW left \in SUBSET Validators, Remaining(left)
      PROVE  /\ exits' \in {"submit", "returned"} /\ head' = {}
             /\ ready' \subseteq Validators /\ sound' \subseteq ready'
             /\ turn' \in ready' \union {Nobody}
             /\ turn' # Nobody <=> exits' = "submit"
  BY <1>1 DEF Remaining, EndExits
<1>2. CASE ExitsRaise \/ ExitsForget
  BY <1>2 DEF ExitsRaise, ExitsForget, EndExits, ExitsTypeOK
<1>3. CASE ReadHead
  BY <1>3 DEF ReadHead, ExitsTypeOK
<1>4. CASE FetchShares
  BY <1>4 DEF FetchShares, Fetch, EndExits, Enough, Reconstructed, ExitsTypeOK
<1>5. CASE ReadStatuses
  BY <1>1, <1>5 DEF ReadStatuses, ExitsTypeOK
<1>6. CASE Accept
  BY <1>1, <1>6 DEF Accept, ExitsTypeOK
<1>7. CASE Reject
  BY <1>1, <1>7 DEF Reject, ExitsTypeOK
<1>8. CASE ExitsWorld
  BY <1>8 DEF ExitsWorld, OtherExit, ShowShare, ExitsTypeOK
<1> QED
  BY <1>2, <1>3, <1>4, <1>5, <1>6, <1>7, <1>8 DEF ExitsRun

\* The process goes on, in a round only when all its tasks have ended.
LEMMA MainInv == ASSUME IInv, Launch \/ Main PROVE IInv'
<1> USE ChecksFacts DEF IInv, TypeOK
<1>1. CASE Launch \/ CheckPasses
  <2>1. /\ pc # "round" /\ pc' # "round"
        /\ pc' \in {Checks[i] : i \in DOMAIN Checks} \union {"config"}
    <3>1. CASE Launch
      BY <3>1 DEF Launch
    <3>2. CASE CheckPasses
      <4>1. PICK i \in 1 .. 7 : pc = Checks[i] /\ pc' = IF i = 7 THEN "config" ELSE Checks[i + 1]
        BY <3>2 DEF CheckPasses
      <4>2. i = 7 \/ i + 1 \in 1 .. 7
        OBVIOUS
      <4> QED
        BY <4>1, <4>2
    <3> QED
      BY <1>1, <3>1, <3>2
  <2>2. UNCHANGED <<others, priceVars, exitsVars>>
    BY <1>1 DEF Launch, CheckPasses
  <2> QED
    BY <2>1, <2>2 DEF TasksEnded, priceVars, exitsVars, outbox,
       PriceTypeOK, OutboxTypeOK, ExitsTypeOK, NotedInTime
<1>2. CASE GetConfig
  BY <1>2 DEF GetConfig, TasksEnded, Ended, outbox, PriceTypeOK, OutboxTypeOK, ExitsTypeOK, NotedInTime
<1>3. CASE NoConfig \/ EndRound \/ ReadBalance \/ NextRound \/ OthersEnd
  BY <1>3 DEF NoConfig, EndRound, RoundOver, ReadBalance, NextRound, OthersEnd,
     TasksEnded, Ended, priceVars, exitsVars, outbox,
     PriceTypeOK, OutboxTypeOK, ExitsTypeOK, NotedInTime
<1> QED
  BY <1>1, <1>2, <1>3 DEF Main

LEMMA NextInv == IInv /\ [Next]_vars => IInv'
<1> SUFFICES ASSUME IInv, [Next]_vars PROVE IInv'
  OBVIOUS
<1>1. CASE Launch \/ Main
  BY <1>1, MainInv
<1>2. CASE GoDown
  <2>1. ExitsTypeOK' /\ exits' \in Ended
    BY <1>2, ExitsInv DEF GoDown, IInv, TypeOK, ExitsForget, EndExits, Ended
  <2> QED
    BY <1>2, <2>1, ForgetInv DEF GoDown, IInv, TypeOK, TasksEnded, Ended
<1>3. CASE (PriceRun \/ PriceWorld) /\ UNCHANGED <<mainVars, exitsVars>>
  <2>1. PriceTypeOK' /\ NotedInTime'
    BY <1>3, RunInv, TickInv, WorldInv DEF PriceWorld
  <2>2. ExitsTypeOK'
    BY <1>3 DEF exitsVars, ExitsTypeOK, IInv, TypeOK
  <2>3. pc = "round" \/ UNCHANGED syncing
    <3>1. PriceRun => syncing \notin Ended
      BY DEF PriceRun, CheckTimestamp, Quote, SendSync, Confirmed, Unconfirmed, PriceRaises,
         Ended, IInv, TypeOK, PriceTypeOK, OutboxTypeOK
    <3>2. PriceWorld => UNCHANGED syncing
      BY DEF PriceWorld, Tick, LandSync, LoseSync, Deliver, LoseMessage
    <3> QED
      BY <1>3, <3>1, <3>2 DEF IInv, TypeOK, TasksEnded
  <2> QED
    BY <1>3, <2>1, <2>2, <2>3 DEF mainVars, exitsVars, IInv, TypeOK, TasksEnded
<1>4. CASE (ExitsRun \/ ExitsWorld) /\ UNCHANGED <<mainVars, priceVars>>
  <2>1. ExitsTypeOK'
    BY <1>4, ExitsInv DEF IInv, TypeOK
  <2>2. PriceTypeOK' /\ NotedInTime'
    BY <1>4 DEF priceVars, outbox, PriceTypeOK, OutboxTypeOK, NotedInTime, IInv, TypeOK
  <2>3. pc = "round" \/ UNCHANGED exits
    BY <1>4 DEF ExitsRun, ExitsWorld, ReadHead, FetchShares, Fetch, ReadStatuses, Accept, Reject,
       ExitsRaise, OtherExit, ShowShare, IInv, TypeOK, TasksEnded, Ended
  <2> QED
    BY <1>4, <2>1, <2>2, <2>3 DEF mainVars, priceVars, IInv, TypeOK, TasksEnded
<1>5. CASE UNCHANGED vars
  BY <1>5 DEF vars, mainVars, priceVars, exitsVars, outbox, IInv, TypeOK, TasksEnded,
     PriceTypeOK, OutboxTypeOK, ExitsTypeOK, NotedInTime
<1> QED
  BY <1>1, <1>2, <1>3, <1>4, <1>5 DEF Next

-----------------------------------------------------------------------------
(* Theorems                                                                *)

LEMMA Inductive == Spec => []IInv
<1> QED
  BY InitInv, NextInv, PTL DEF Spec

\* Every variable keeps its type, no task is under way outside a round
\* (main.py:100-117), and a receipt is awaited only in transact().
THEOREM TypeCorrect == Spec => []TypeOK
<1>1. IInv => TypeOK
  BY DEF IInv
<1> QED
  BY <1>1, Inductive, PTL

\* "check if transaction is already in progress" (price/service.py:36): the
\* process does not pay for a sync while one whose receipt it has seen is on
\* its way and younger than PRICE_MAX_WAITING_TIME.
THEOREM NoSecondPayment == Spec => NoSecondSync
<1>1. IInv /\ [Next]_vars =>
        [SendSync => \A m \in transit : m.receipt = "seen" => m.age = MaxWait]_vars
  <2> SUFFICES ASSUME IInv, SendSync, NEW m \in transit, m.receipt = "seen"
               PROVE  m.age = MaxWait
    OBVIOUS
  <2>1. since = MaxWait /\ since <= m.age
    BY DEF IInv, NotedInTime, SendSync
  <2> QED
    BY <2>1, MessageTypes, TimesAssumption DEF IInv, TypeOK, PriceTypeOK
<1> QED
  BY <1>1, Inductive, PTL DEF Spec, NoSecondSync

-----------------------------------------------------------------------------
(* The tasks of a round                                                    *)

\* A step of a task takes it from its first await to a later one or to its end,
\* and never back.
LEMMA PriceGoesOn ==
    ASSUME PriceTypeOK, PriceRun \/ PriceWorld
    PROVE  \/ UNCHANGED syncing
           \/ syncing' \in Ended
           \/ syncing \in {"latest", "quote"} /\ syncing' \in {"quote", "submit"}
BY DEF PriceRun, CheckTimestamp, Quote, SendSync, Confirmed, Unconfirmed, PriceRaises,
   PriceWorld, Tick, LandSync, LoseSync, Deliver, LoseMessage, Ended

LEMMA ExitsGoOn ==
    ASSUME ExitsTypeOK, ExitsRun \/ ExitsWorld
    PROVE  \/ UNCHANGED exits
           \/ exits' \in Ended
           \/ exits \notin Ended /\ exits' \in {"shares", "status", "submit"}
BY DEF ExitsRun, ExitsWorld, ReadHead, FetchShares, Fetch, ReadStatuses, Accept, Reject,
   ExitsRaise, OtherExit, ShowShare, Remaining, EndExits, Ended, ExitsTypeOK

LEMMA TaskSteps ==
    ASSUME IInv, [Next]_vars
    PROVE  /\ [Price!Begin \/ Price!GoFurther \/ Price!End]_(Phase(syncing, "latest"))
           /\ [Exiting!Begin \/ Exiting!GoFurther \/ Exiting!End]_(Phase(exits, "head"))
<1> USE DEF Price!Begin, Price!GoFurther, Price!End,
            Exiting!Begin, Exiting!GoFurther, Exiting!End, Phase
<1>1. CASE GetConfig
  BY <1>1 DEF GetConfig, IInv, TypeOK, TasksEnded, Ended
<1>2. CASE GoDown
  BY <1>2 DEF GoDown, PriceForgets, ExitsForget, EndExits, Ended
<1>3. CASE (PriceRun \/ PriceWorld) /\ UNCHANGED <<mainVars, exitsVars>>
  BY <1>3, PriceGoesOn DEF exitsVars, IInv, TypeOK, Ended
<1>4. CASE (ExitsRun \/ ExitsWorld) /\ UNCHANGED <<mainVars, priceVars>>
  BY <1>4, ExitsGoOn DEF priceVars, IInv, TypeOK, Ended
<1>5. CASE UNCHANGED <<priceVars, exitsVars>>
  BY <1>5 DEF priceVars, exitsVars
<1> QED
  BY <1>1, <1>2, <1>3, <1>4, <1>5
  DEF Next, vars, Launch, Main, CheckPasses, NoConfig, OthersEnd, EndRound, ReadBalance, NextRound

\* No run of the price or of the exits task is started while the last one is
\* still under way, whatever ends or raises in a round, and wherever the
\* process goes down (main.py:77-113).
THEOREM RunsDoNotOverlap == Spec => TasksRunAlone
<1>1. Init => Price!TaskInit /\ Exiting!TaskInit
  BY DEF Init, PriceInit, ExitsInit, Price!TaskInit, Exiting!TaskInit, Phase, Ended
<1>2. IInv /\ [Next]_vars =>
        /\ [Price!Begin \/ Price!GoFurther \/ Price!End]_(Phase(syncing, "latest"))
        /\ [Exiting!Begin \/ Exiting!GoFurther \/ Exiting!End]_(Phase(exits, "head"))
  BY TaskSteps
<1> QED
  BY <1>1, <1>2, Inductive, PTL
  DEF Spec, TasksRunAlone, Price!TaskSpec, Exiting!TaskSpec

=============================================================================
