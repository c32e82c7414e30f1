-------------------------- MODULE ForceExitsProofs --------------------------
(***************************************************************************)
(* Types of ForceExits, and that no list holds a position twice, for every *)
(* set of positions and every behaviour of market, chain and transactions. *)
(***************************************************************************)
EXTENDS ForceExitsProperties, FiniteSetTheorems, TLAPS

\* An order of a set of positions lists each of them at most once.
LEMMA OrdersType ==
    ASSUME NEW S, S \subseteq Positions, NEW s \in Orders(S)
    PROVE  /\ s \in Seq(S)
           /\ \A i, j \in 1 .. Len(s) : s[i] = s[j] => i = j
<1>1. Cardinality(S) \in Nat
  BY PositionsAssumption, FS_Subset, FS_CardinalityType
<1>2. s \in [1 .. Cardinality(S) -> S]
  BY DEF Orders
<1>3. s \in Seq(S) /\ DOMAIN s = 1 .. Len(s)
  BY <1>1, <1>2
<1> QED
  BY <1>3 DEF Orders

\* The two lists of risky positions are joined without repetition
\* (fetch_leverage_positions).
LEMMA RiskyListsType ==
    ASSUME NEW s \in RiskyLists
    PROVE  /\ s \in Seq(Positions)
           /\ \A i, j \in 1 .. Len(s) : s[i] = s[j] => i = j
<1> DEFINE B == Marked("borrow")
           V == Marked("vault") \ Marked("borrow")
<1>1. PICK b \in Orders(B), v \in Orders(V) : s = b \o v
  BY DEF RiskyLists
<1>2. B \subseteq Positions /\ V \subseteq Positions /\ B \intersect V = {}
  BY DEF Marked
<1>3. /\ b \in Seq(B)
      /\ \A i, j \in 1 .. Len(b) : b[i] = b[j] => i = j
  BY <1>2, OrdersType
<1>4. /\ v \in Seq(V)
      /\ \A i, j \in 1 .. Len(v) : v[i] = v[j] => i = j
  BY <1>2, OrdersType
<1> HIDE DEF B, V
<1>5. b \in Seq(Positions) /\ v \in Seq(Positions)
  BY <1>2, <1>3, <1>4
<1>6. s \in Seq(Positions) /\ Len(s) = Len(b) + Len(v)
  BY <1>1, <1>5
<1>7. ASSUME NEW i \in 1 .. Len(s), NEW j \in 1 .. Len(s), s[i] = s[j]
      PROVE  i = j
  <2>1. \A k \in 1 .. Len(s) :
          s[k] = IF k <= Len(b) THEN b[k] ELSE v[k - Len(b)]
    BY <1>1, <1>5, <1>6
  <2>2. \A k \in 1 .. Len(s) : k <= Len(b) => k \in 1 .. Len(b) /\ s[k] \in B
    BY <1>3, <2>1
  <2>3. \A k \in 1 .. Len(s) : ~(k <= Len(b)) =>
          k - Len(b) \in 1 .. Len(v) /\ s[k] \in V
    BY <1>4, <1>3, <1>6, <2>1
  <2>4. CASE i <= Len(b) /\ j <= Len(b)
    BY <1>7, <2>1, <2>2, <2>4, <1>3
  <2>5. CASE ~(i <= Len(b)) /\ ~(j <= Len(b))
    <3>1. i - Len(b) = j - Len(b)
      BY <1>7, <2>1, <2>3, <2>5, <1>4
    <3> QED
      BY <3>1, <1>3
  <2> QED
    BY <1>7, <2>2, <2>3, <2>4, <2>5, <1>2
<1> QED
  BY <1>6, <1>7

\* So does a list from which the first is taken.
LEMMA TailType ==
    ASSUME NEW s \in Seq(Positions), s # <<>>,
           \A i, j \in 1 .. Len(s) : s[i] = s[j] => i = j
    PROVE  /\ Tail(s) \in Seq(Positions)
           /\ \A i, j \in 1 .. Len(Tail(s)) : Tail(s)[i] = Tail(s)[j] => i = j
           /\ Head(s) \in Positions
<1>1. /\ Tail(s) \in Seq(Positions) /\ Head(s) \in Positions
      /\ Len(Tail(s)) = Len(s) - 1
      /\ \A i \in 1 .. Len(Tail(s)) : Tail(s)[i] = s[i + 1]
  OBVIOUS
<1>2. ASSUME NEW i \in 1 .. Len(Tail(s)), NEW j \in 1 .. Len(Tail(s)),
             Tail(s)[i] = Tail(s)[j]
      PROVE  i = j
  <2>1. i + 1 \in 1 .. Len(s) /\ j + 1 \in 1 .. Len(s)
    BY <1>1
  <2>2. i + 1 = j + 1
    BY <1>1, <1>2, <2>1
  <2> QED
    BY <2>2
<1> QED
  BY <1>1, <1>2

-----------------------------------------------------------------------------

\* What a run may do to its list: leave it, drop it, or take a fresh one; and
\* the places at which it stands then.
ListOK ==
    /\ todo \in Seq(Positions)
    /\ \A i, j \in 1 .. Len(todo) : todo[i] = todo[j] => i = j
    /\ todo = <<>> <=> pc \in {"idle", "list", "requests"}
    /\ pc \in {"idle", "list", "check", "claim", "recheck", "force", "requests", "collect"}
    /\ seen \in Views
    /\ due \in BOOLEAN

ChainOK == position \in Views /\ final \in Views

CallOK == OutboxTypeOK(Txs) /\ (sent # NoTx => pc \in {"claim", "force", "collect"})

IInv == ListOK /\ ChainOK /\ CallOK

\* The invariant implies the types, and that nothing is handled twice.
LEMMA InvParts == IInv => TypeOK /\ HandledOnce
<1>1. todo \in Seq(Positions) => DOMAIN todo = 1 .. Len(todo)
  OBVIOUS
<1> QED
  BY <1>1 DEF IInv, TypeOK, HandledOnce, ListOK, ChainOK, CallOK

\* Between runs nothing is known of the positions.
LEMMA UnseenType == Unseen \in Views
BY DEF Unseen, Views, PositionStates

\* Going on with the next position keeps the list in order.
LEMMA NextPositionList ==
    ASSUME ListOK, todo # <<>>, NextPosition
    PROVE  ListOK'
<1>1. /\ todo' \in Seq(Positions)
      /\ \A i, j \in 1 .. Len(todo') : todo'[i] = todo'[j] => i = j
  BY TailType DEF ListOK, NextPosition
<1> QED
  BY <1>1 DEF ListOK, NextPosition

\* So does going on with the next request.
LEMMA NextRequestList ==
    ASSUME ListOK, pc = "collect", NextRequest
    PROVE  ListOK'
<1>1. /\ todo' \in Seq(Positions)
      /\ \A i, j \in 1 .. Len(todo') : todo'[i] = todo'[j] => i = j
  BY TailType DEF ListOK, NextRequest
<1>2. CASE todo' = <<>>
  BY <1>1, <1>2, UnseenType DEF ListOK, NextRequest, Finish
<1>3. CASE todo' # <<>>
  BY <1>1, <1>3 DEF ListOK, NextRequest
<1> QED
  BY <1>2, <1>3

\* Whatever becomes of a transaction, the list stays in order.
LEMMA GoOnList ==
    ASSUME ListOK, pc \in Sending, NEW ok \in BOOLEAN, GoOn(ok)
    PROVE  ListOK'
<1>1. todo # <<>>
  BY DEF ListOK, Sending
<1>2. CASE pc = "claim" /\ ok
  <2>1. pc' = "recheck" /\ UNCHANGED <<seen, due, todo>>
    BY <1>2 DEF GoOn
  <2> QED
    BY <1>1, <2>1 DEF ListOK
<1>3. CASE pc = "claim" /\ ~ok
  BY <1>1, <1>3, NextPositionList DEF GoOn
<1>4. CASE pc = "force"
  BY <1>1, <1>4, NextPositionList DEF GoOn
<1>5. CASE pc = "collect"
  BY <1>5, NextRequestList DEF GoOn
<1> QED
  BY <1>2, <1>3, <1>4, <1>5 DEF Sending

\* Only the waiting places wait.
LEMMA EndedCall ==
    ASSUME CallOK, CallEnds
    PROVE  CallOK'
BY DEF CallOK, CallEnds, OutboxTypeOK

\* The tables of positions keep their type.
LEMMA ChainStep ==
    ASSUME ChainOK, NEW p \in Positions, Claimed(p) \/ Entered(p)
    PROVE  position' \in Views
<1>1. CASE Claimed(p)
  <2>1. PICK marks \in Profiles[p] :
          position' = [position EXCEPT ![p] = [marks |-> marks, request |-> "none"]]
    BY <1>1 DEF Claimed
  <2>2. marks \in SUBSET Marks
    BY ProfilesAssumption
  <2> QED
    BY <2>1, <2>2 DEF ChainOK, Views, PositionStates
<1>2. CASE Entered(p)
  BY <1>2 DEF Entered, ChainOK, Views, PositionStates
<1> QED
  BY <1>1, <1>2

\* No run, nothing sent.
LEMMA InitInv == Init => IInv
<1> SUFFICES ASSUME Init PROVE ListOK /\ ChainOK /\ CallOK
  BY DEF IInv
<1>1. ListOK
  BY UnseenType DEF Init, ListOK
<1>2. ChainOK
  BY DEF Init, ChainOK
<1>3. CallOK
  BY DEF Init, CallOK, OutboxInit, OutboxTypeOK
<1> QED
  BY <1>1, <1>2, <1>3

\* Steps of the run.
LEMMA RunInv ==
    ASSUME ListOK, ChainOK, CallOK, Start \/ Run \/ IntervalPasses \/ Restart
    PROVE  ListOK' /\ ChainOK' /\ CallOK'
<1>1. CASE IntervalPasses
  BY <1>1 DEF IntervalPasses, ListOK, ChainOK, CallOK, OutboxTypeOK, outbox
<1>2. CASE Start
  BY <1>2 DEF Start, ListOK, ChainOK, CallOK, OutboxTypeOK, outbox
<1>3. CASE ListPositions
  <2>1. ListOK'
    BY <1>3, RiskyListsType DEF ListPositions, ListOK
  <2> QED
    BY <1>3, <2>1 DEF ListPositions, ChainOK, CallOK, OutboxTypeOK, outbox
<1>4. CASE Check
  <2>1. ListOK'
    <3>1. todo # <<>>
      BY <1>4 DEF Check, ListOK
    <3>2. CASE CanForce(Head(todo))
      BY <1>4, <3>1, <3>2 DEF Check, AfterCheck, ListOK
    <3>3. CASE ~CanForce(Head(todo))
      BY <1>4, <3>1, <3>3, NextPositionList DEF Check
    <3> QED
      BY <3>2, <3>3
  <2>2. sent = NoTx
    BY <1>4 DEF Check, CallOK
  <2> QED
    BY <1>4, <2>1, <2>2 DEF Check, ChainOK, CallOK, OutboxTypeOK, outbox
<1>5. CASE Recheck
  <2>1. ListOK'
    <3>1. todo # <<>>
      BY <1>5 DEF Recheck, ListOK
    <3>2. CASE CanForce(Head(todo))
      BY <1>5, <3>1, <3>2 DEF Recheck, ListOK
    <3>3. CASE ~CanForce(Head(todo))
      BY <1>5, <3>1, <3>3, NextPositionList DEF Recheck
    <3> QED
      BY <3>2, <3>3
  <2>2. sent = NoTx
    BY <1>5 DEF Recheck, CallOK
  <2> QED
    BY <1>5, <2>1, <2>2 DEF Recheck, ChainOK, CallOK, OutboxTypeOK, outbox
<1>6. CASE ListRequests
  <2>1. /\ todo' \in Seq(Positions)
        /\ \A i, j \in 1 .. Len(todo') : todo'[i] = todo'[j] => i = j
    <3> DEFINE U == {p \in Marked("urgent") : seen[p].request = "claimable"}
    <3>1. U \subseteq Positions
      BY DEF Marked
    <3>2. todo' \in Orders(U)
      BY <1>6 DEF ListRequests, UrgentLists
    <3>3. todo' \in Seq(U) /\ \A i, j \in 1 .. Len(todo') : todo'[i] = todo'[j] => i = j
      BY <3>1, <3>2, OrdersType
    <3> HIDE DEF U
    <3> QED
      BY <3>1, <3>3
  <2>2. ListOK'
    <3>1. CASE todo' = <<>>
      BY <1>6, <2>1, <3>1, UnseenType DEF ListRequests, Finish, ListOK
    <3>2. CASE todo' # <<>>
      BY <1>6, <2>1, <3>2 DEF ListRequests, ListOK
    <3> QED
      BY <3>1, <3>2
  <2>3. sent = NoTx
    BY <1>6 DEF ListRequests, CallOK
  <2> QED
    BY <1>6, <2>2, <2>3 DEF ListRequests, ChainOK, CallOK, OutboxTypeOK, outbox
<1>7. CASE Send
  <2>1. Call \in Txs
    BY <1>7 DEF Send, Call, Txs, Sending, ListOK
  <2>2. CallOK'
    BY <1>7, <2>1, NoTxAssumption
    DEF Send, Submit, Compete, CallOK, OutboxTypeOK, Sending, runVars
  <2> QED
    BY <1>7, <2>2 DEF Send, ListOK, ChainOK, runVars
<1>8. CASE Confirmed
  <2>1. pc \in Sending
    BY <1>8 DEF Confirmed, CallOK, OutboxTypeOK, Sending
  <2> QED
    BY <1>8, <2>1, GoOnList, EndedCall DEF Confirmed, ChainOK
<1>9. CASE Unconfirmed
  <2>1. pc \in Sending
    BY <1>9 DEF Unconfirmed, CallOK, Sending
  <2> QED
    BY <1>9, <2>1, GoOnList, EndedCall DEF Unconfirmed, ChainOK
<1>10. CASE NotSent
  <2>1. Call \in Txs
    BY <1>10 DEF NotSent, Call, Txs, Sending, ListOK
  <2>2. CallOK'
    BY <1>10, <2>1 DEF NotSent, CallFails, Compete, CallOK, OutboxTypeOK
  <2> QED
    BY <1>10, <2>2, GoOnList DEF NotSent, ChainOK
<1>11. CASE Raise
  <2>1. ListOK'
    BY <1>11, UnseenType DEF Raise, ListOK
  <2> QED
    BY <1>11, <2>1 DEF Raise, ChainOK, CallOK, OutboxTypeOK, outbox
<1>12. CASE Restart
  <2>1. ListOK'
    BY <1>12, UnseenType DEF Restart, ListOK
  <2> QED
    BY <1>12, <2>1, EndedCall DEF Restart, ChainOK
<1> QED
  BY <1>1, <1>2, <1>3, <1>4, <1>5, <1>6, <1>7, <1>8, <1>9, <1>10, <1>11, <1>12 DEF Run

\* Steps of the chain, the owners and the market.
LEMMA ChainInv ==
    ASSUME ListOK, ChainOK, CallOK,
           \/ Finalize \/ Evict
           \/ \E x \in inFlight : Land(x)
           \/ \E p \in Positions : Process(p) \/ Drift(p) \/ OtherActs(p)
    PROVE  ListOK' /\ ChainOK' /\ CallOK'
<1>1. CASE Finalize
  BY <1>1 DEF Finalize, ListOK, ChainOK, CallOK, OutboxTypeOK, outbox, runVars
<1>2. CASE Evict
  BY <1>2 DEF Evict, Lose, ListOK, ChainOK, CallOK, OutboxTypeOK, runVars
<1>3. ASSUME NEW x \in inFlight, Land(x)
      PROVE  ListOK' /\ ChainOK' /\ CallOK'
  <2>1. x \in Txs /\ x.position \in Positions
    BY DEF CallOK, OutboxTypeOK, Txs
  <2>2. position' \in Views
    BY <1>3, <2>1, ChainStep DEF Land, ChainOK
  <2>3. CallOK'
    BY <1>3, <2>1, NoTxAssumption DEF Land, Settle, CallOK, OutboxTypeOK, runVars
  <2> QED
    BY <1>3, <2>2, <2>3 DEF Land, ListOK, ChainOK, runVars
<1>4. ASSUME NEW p \in Positions, Process(p) \/ Drift(p) \/ OtherActs(p)
      PROVE  ListOK' /\ ChainOK' /\ CallOK'
  <2>1. position' \in Views
    <3>1. CASE Process(p)
      BY <3>1 DEF Process, ChainOK, Views, PositionStates
    <3>2. CASE Drift(p)
      <4>1. PICK marks \in Profiles[p] : position' = [position EXCEPT ![p].marks = marks]
        BY <3>2 DEF Drift
      <4>2. marks \in SUBSET Marks
        BY ProfilesAssumption
      <4> QED
        BY <4>1, <4>2 DEF ChainOK, Views, PositionStates
    <3>3. CASE OtherActs(p)
      BY <3>3, ChainStep DEF OtherActs
    <3> QED
      BY <1>4, <3>1, <3>2, <3>3
  <2> QED
    BY <1>4, <2>1
    DEF Process, Drift, OtherActs, ListOK, ChainOK, CallOK, OutboxTypeOK, outbox, runVars
<1> QED
  BY <1>1, <1>2, <1>3, <1>4

\* Every step keeps the invariant.
LEMMA NextInv == IInv /\ [Next]_vars => IInv'
<1> SUFFICES ASSUME ListOK, ChainOK, CallOK, [Next]_vars
             PROVE  ListOK' /\ ChainOK' /\ CallOK'
  BY DEF IInv
<1>1. CASE UNCHANGED vars
  BY <1>1 DEF vars, runVars, outbox, ListOK, ChainOK, CallOK, OutboxTypeOK
<1>2. CASE Next
  BY <1>2, RunInv, ChainInv DEF Next
<1> QED
  BY <1>1, <1>2

\* The types hold, and a run stands at a place that handles the first of its
\* list only while the list has one: Head(todo) is never asked of an empty list
\* (service.py:79, 101).
THEOREM TypeCorrect == Spec => []TypeOK
BY InitInv, NextInv, InvParts, PTL DEF Spec

\* No list holds a position twice (service.py:153-160).
THEOREM EachHandledOnce == Spec => []HandledOnce
BY InitInv, NextInv, InvParts, PTL DEF Spec

-----------------------------------------------------------------------------
(* The run as a sweep over its lists                                       *)

\* A run is made only when it is due, and is due until it is through.
Overdue == pc # "idle" => due = TRUE

LEMMA OverdueInv == Init => Overdue
BY DEF Init, Overdue

LEMMA OverdueStep ==
    ASSUME IInv, Overdue, [Next]_vars
    PROVE  Overdue'
<1>1. CASE Start
  BY <1>1 DEF Start, Overdue, IInv, ListOK
<1>2. CASE IntervalPasses \/ Restart \/ Raise
  BY <1>2 DEF IntervalPasses, Restart, Raise, Overdue
<1>3. ASSUME NextPosition, pc # "idle" PROVE Overdue'
  BY <1>3 DEF NextPosition, Overdue
<1>4. ASSUME NextRequest, pc # "idle" PROVE Overdue'
  BY <1>4 DEF NextRequest, Finish, Overdue
<1>5. ASSUME NEW ok \in BOOLEAN, GoOn(ok), pc \in Sending PROVE Overdue'
  <2>1. CASE pc = "claim" /\ ok
    BY <1>5, <2>1 DEF GoOn, Overdue
  <2> QED
    BY <1>3, <1>4, <1>5, <2>1 DEF GoOn, Sending
<1>6. CASE Check \/ Recheck
  BY <1>3, <1>6 DEF Check, Recheck, Overdue
<1>7. CASE ListPositions \/ ListRequests
  BY <1>7 DEF ListPositions, ListRequests, Finish, Overdue
<1>8. CASE Confirmed \/ Unconfirmed \/ NotSent
  <2>1. pc \in Sending
    BY <1>8 DEF Confirmed, Unconfirmed, NotSent, IInv, CallOK, OutboxTypeOK, Sending
  <2> QED
    BY <1>5, <1>8, <2>1 DEF Confirmed, Unconfirmed, NotSent
<1>9. CASE UNCHANGED runVars
  BY <1>9 DEF runVars, Overdue
<1> QED
  BY <1>1, <1>2, <1>6, <1>7, <1>8, <1>9
  DEF Next, Run, Send, Finalize, Evict, Land, Process, Drift, OtherActs, vars

\* Going on with the next position, or the next request, handles one item, or
\* completes the run with the last one.
LEMMA NextIsHandled ==
    ASSUME IInv, Overdue, pc # "idle", todo # <<>>, NextPosition \/ (NextRequest /\ pc = "collect")
    PROVE  Abstract!Handle \/ Abstract!Complete
<1>1. CASE NextPosition
  BY <1>1 DEF NextPosition, Abstract!Handle
<1>2. CASE NextRequest /\ pc = "collect" /\ todo' # <<>>
  BY <1>2 DEF NextRequest, Abstract!Handle
<1>3. CASE NextRequest /\ todo' = <<>>
  <2>1. todo \in Seq(Positions) /\ Tail(todo) = <<>>
    BY <1>3 DEF NextRequest, IInv, ListOK
  <2>2. Len(todo) <= 1
    BY <2>1
  <2> QED
    BY <1>3, <2>2 DEF NextRequest, Finish, Abstract!Complete
<1> QED
  BY <1>1, <1>2, <1>3

\* So does the end of a transaction, if it does not go on with the same one.
LEMMA GoOnIsHandled ==
    ASSUME IInv, Overdue, pc \in Sending, NEW ok \in BOOLEAN, GoOn(ok)
    PROVE  Abstract!Handle \/ Abstract!Complete \/ UNCHANGED Abstract!sweepVars
<1>1. todo # <<>> /\ pc # "idle"
  BY DEF IInv, ListOK, Sending
<1>2. CASE pc = "claim" /\ ok
  BY <1>2 DEF GoOn, Abstract!sweepVars
<1>3. CASE ~(pc = "claim" /\ ok)
  <2>1. NextPosition \/ (NextRequest /\ pc = "collect")
    BY <1>3 DEF GoOn, Sending
  <2> QED
    BY <1>1, <2>1, NextIsHandled
<1> QED
  BY <1>2, <1>3

\* Each step of the task is one of the sweep, or leaves it as it is.
LEMMA StepIsSwept ==
    ASSUME IInv, Overdue, [Next]_vars
    PROVE  [Abstract!SweepNext]_Abstract!sweepVars
<1> USE DEF Abstract!SweepNext
<1>1. CASE IntervalPasses \/ Restart \/ Raise
  BY <1>1 DEF IntervalPasses, Restart, Raise, IInv, ListOK, Overdue, Abstract!FallDue
<1>2. CASE Start
  BY <1>2 DEF Start, Abstract!Begin
<1>3. CASE ListPositions
  <2>1. todo = <<>> /\ todo' \in Seq(Positions)
    BY <1>3, RiskyListsType DEF ListPositions, IInv, ListOK
  <2>2. CASE todo' = <<>>
    BY <1>3, <2>1, <2>2 DEF ListPositions, Abstract!sweepVars
  <2>3. CASE todo' # <<>>
    BY <1>3, <2>1, <2>3 DEF ListPositions, Abstract!List
  <2> QED
    BY <2>2, <2>3
<1>4. CASE Check \/ Recheck
  <2>1. todo # <<>> /\ pc # "idle"
    BY <1>4 DEF Check, Recheck, IInv, ListOK
  <2>2. CASE NextPosition
    BY <2>1, <2>2, NextIsHandled
  <2>3. CASE UNCHANGED <<due, todo>> /\ pc' # "idle"
    BY <2>1, <2>3 DEF Abstract!sweepVars
  <2> QED
    BY <1>4, <2>2, <2>3 DEF Check, Recheck, AfterCheck
<1>5. CASE ListRequests
  <2>1. todo = <<>> /\ pc = "requests"
    BY <1>5 DEF ListRequests, IInv, ListOK
  <2>2. CASE todo' = <<>>
    BY <1>5, <2>1, <2>2 DEF ListRequests, Finish, Abstract!Complete
  <2>3. CASE todo' # <<>>
    <3>1. todo' \in Seq(Positions)
      BY <1>5, RunInv DEF Run, IInv, ListOK
    <3> QED
      BY <1>5, <2>1, <2>3, <3>1 DEF ListRequests, Abstract!List
  <2> QED
    BY <2>2, <2>3
<1>6. CASE Confirmed \/ Unconfirmed \/ NotSent
  <2>1. pc \in Sending
    BY <1>6 DEF Confirmed, Unconfirmed, NotSent, IInv, CallOK, OutboxTypeOK, Sending
  <2> QED
    BY <1>6, <2>1, GoOnIsHandled DEF Confirmed, Unconfirmed, NotSent
<1>7. CASE UNCHANGED runVars
  BY <1>7 DEF runVars, Abstract!sweepVars
<1> QED
  BY <1>1, <1>2, <1>3, <1>4, <1>5, <1>6, <1>7
  DEF Next, Run, Send, Finalize, Evict, Land, Process, Drift, OtherActs, vars

LEMMA InitIsSwept == Init => Abstract!SweepInit
BY DEF Init, Abstract!SweepInit

\* The force exits task implements the sweep: its time is noted only after
\* every listed position and request was looked at in turn, for any positions,
\* whatever becomes of each transaction (service.py:44-63).
THEOREM Refinement == Spec => ImplementsSweep
<1>1. IInv /\ Overdue /\ [Next]_vars => IInv' /\ Overdue'
  BY NextInv, OverdueStep
<1>2. IInv /\ Overdue /\ [Next]_vars => [Abstract!SweepNext]_Abstract!sweepVars
  BY StepIsSwept
<1> QED
  BY <1>1, <1>2, InitInv, OverdueInv, InitIsSwept, PTL
  DEF Spec, ImplementsSweep, Abstract!SweepSpec

=============================================================================
