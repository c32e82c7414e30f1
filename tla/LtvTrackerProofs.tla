-------------------------- MODULE LtvTrackerProofs --------------------------
(***************************************************************************)
(* Types of the LTV task, and that it implements the sweep, for any list   *)
(* of vaults and all users.                                                *)
(***************************************************************************)
EXTENDS LtvTrackerProperties, SequenceTheorems, TLAPS

\* What the task and its run keep, without the chain and the outbox.
RunTypeOK ==
    /\ seen \in Tops /\ due \in BOOLEAN /\ found \in BOOLEAN
    /\ pc \in {"idle", "vaults", "read", "update", "verify"}
    /\ todo \in Seq(VaultSet) /\ users \in Seq(Txs)
    /\ todo # <<>> <=> pc = "read"
    /\ pc \in {"update", "verify"} => users # <<>>

ChainTypeOK == top \in Tops /\ final \in Tops /\ tracked \in Tops

LEMMA TypeParts ==
    /\ TypeOK <=> /\ ChainTypeOK /\ RunTypeOK /\ OutboxTypeOK(Txs)
                  /\ sent # NoTx => pc = "update"
    /\ TypeOK' <=> /\ ChainTypeOK' /\ RunTypeOK' /\ OutboxTypeOK(Txs)'
                   /\ sent' # NoTx => pc' = "update"
BY DEF TypeOK, ChainTypeOK, RunTypeOK

-----------------------------------------------------------------------------
(* The parts of a step                                                     *)

LEMMA NobodyType == Nobody \in Tops
BY DEF Nobody, Tops

\* The steps of the transactions keep their types.
LEMMA OutboxTypes ==
    ASSUME OutboxTypeOK(Txs),
           \/ CallEnds \/ Lose \/ UNCHANGED outbox
           \/ \E x \in Txs : Submit(x) \/ CallFails(x, TRUE)
           \/ \E x \in Txs, ok \in BOOLEAN : Settle(x, ok)
    PROVE  OutboxTypeOK(Txs)'
BY NoTxAssumption
DEF OutboxTypeOK, Submit, Compete, CallEnds, CallFails, Lose, Settle, outbox

LEMMA EndTypes ==
    ASSUME RunTypeOK, End, due' \in BOOLEAN
    PROVE  RunTypeOK' /\ pc' = "idle"
<1>1. found' \in BOOLEAN
  BY DEF End
<1>2. todo' \in Seq(VaultSet) /\ users' \in Seq(Txs)
  BY DEF End
<1>3. /\ seen' \in Tops /\ pc' = "idle"
      /\ todo' # <<>> <=> pc' = "read"
      /\ pc' \in {"update", "verify"} => users' # <<>>
  BY NobodyType DEF End
<1> QED
  BY <1>1, <1>2, <1>3 DEF RunTypeOK

LEMMA UnchangedTypes ==
    /\ RunTypeOK /\ UNCHANGED runVars => RunTypeOK'
    /\ ChainTypeOK /\ UNCHANGED <<top, final, tracked>> => ChainTypeOK'
    /\ OutboxTypeOK(Txs) /\ UNCHANGED outbox => OutboxTypeOK(Txs)'
BY DEF RunTypeOK, runVars, ChainTypeOK, OutboxTypeOK, outbox

\* Reading a vault leaves fewer to read, and appends at most one user.
LEMMA ReadTypes ==
    ASSUME RunTypeOK, ReadVault
    PROVE  RunTypeOK' /\ UNCHANGED <<top, final, tracked, outbox>>
<1> DEFINE v == Head(todo)
           some == found \/ seen[v] # NoUser
           changed == IF Changed(v) THEN Append(users, [vault |-> v, user |-> seen[v]]) ELSE users
<1>1. /\ todo # <<>> /\ v \in VaultSet /\ Tail(todo) \in Seq(VaultSet)
      /\ UNCHANGED <<top, final, tracked, outbox>>
  BY HeadTailProperties DEF ReadVault, RunTypeOK
<1>2. changed \in Seq(Txs)
  <2>1. CASE Changed(v)
    <3>1. [vault |-> v, user |-> seen[v]] \in Txs
      BY <1>1, <2>1 DEF Changed, Txs, Tops, RunTypeOK
    <3> QED
      BY <2>1, <3>1 DEF RunTypeOK
  <2>2. CASE ~Changed(v)
    BY <2>2 DEF RunTypeOK
  <2> QED
    BY <2>1, <2>2
<1>3. some \in BOOLEAN /\ (~some) \in BOOLEAN
  OBVIOUS
<1>4. CASE Tail(todo) = <<>> /\ changed = <<>>
  <2>1. End /\ due' = ~some
    BY <1>4 DEF ReadVault, AfterReading
  <2>2. due' \in BOOLEAN
    BY <1>3, <2>1
  <2> QED
    BY <1>1, <2>1, <2>2, EndTypes
<1>5. CASE Tail(todo) = <<>> /\ changed # <<>>
  <2>1. /\ pc' = "update" /\ todo' = <<>> /\ users' = changed /\ found' = some
        /\ UNCHANGED <<seen, due>>
    BY <1>5 DEF ReadVault, AfterReading
  <2> HIDE DEF changed, some
  <2>2. RunTypeOK'
    BY <1>2, <1>3, <1>5, <2>1 DEF RunTypeOK
  <2> QED
    BY <1>1, <2>2
<1>6. CASE Tail(todo) # <<>>
  <2>1. /\ todo' = Tail(todo) /\ users' = changed /\ found' = some
        /\ pc = "read" /\ UNCHANGED <<seen, due, pc>>
    BY <1>6 DEF ReadVault
  <2> HIDE DEF changed, some
  <2>2. RunTypeOK'
    BY <1>1, <1>2, <1>3, <1>6, <2>1 DEF RunTypeOK
  <2> QED
    BY <1>1, <2>2
<1> QED
  BY <1>4, <1>5, <1>6

\* After an update the next user is due, or the run is through.
LEMMA VerifyTypes == ASSUME RunTypeOK, Verify PROVE RunTypeOK'
<1>1. users # <<>> /\ Tail(users) \in Seq(Txs)
  BY HeadTailProperties DEF Verify, RunTypeOK
<1>2. CASE Tail(users) = <<>>
  BY <1>2, EndTypes DEF Verify
<1>3. CASE Tail(users) # <<>>
  BY <1>1, <1>3 DEF Verify, RunTypeOK
<1> QED
  BY <1>2, <1>3

-----------------------------------------------------------------------------
(* The initial states and the steps                                        *)

LEMMA InitTypes == Init => TypeOK
<1> SUFFICES ASSUME Init PROVE TypeOK
  OBVIOUS
<1>1. found \in BOOLEAN /\ due \in BOOLEAN
  BY DEF Init
<1>2. ChainTypeOK /\ seen \in Tops
  BY NobodyType DEF Init, ChainTypeOK
<1>3. RunTypeOK
  BY <1>1, <1>2 DEF Init, RunTypeOK
<1>4. OutboxTypeOK(Txs) /\ sent = NoTx
  BY NoTxAssumption DEF Init, OutboxInit, OutboxTypeOK
<1> QED
  BY <1>2, <1>3, <1>4, TypeParts

LEMMA NextTypes == ASSUME TypeOK, [Next]_vars PROVE TypeOK'
<1> USE TypeParts
<1>1. CASE IntervalPasses
  BY <1>1, UnchangedTypes DEF IntervalPasses, RunTypeOK, outbox
<1>2. CASE Start
  BY <1>2, UnchangedTypes DEF Start, RunTypeOK, ChainTypeOK, outbox
<1>3. CASE ListVaults
  <2>1. RunTypeOK'
    <3>1. CASE Vaults = <<>>
      BY <1>3, <3>1, EndTypes DEF ListVaults, RunTypeOK
    <3>2. CASE Vaults # <<>>
      BY <1>3, <3>2, VaultsAssumption DEF ListVaults, RunTypeOK
    <3> QED
      BY <3>1, <3>2
  <2> QED
    BY <1>3, <2>1, UnchangedTypes DEF ListVaults, outbox
<1>4. CASE ReadVault
  <2>1. pc # "update"
    BY <1>4 DEF ReadVault
  <2> QED
    BY <1>4, <2>1, ReadTypes, UnchangedTypes DEF outbox
<1>5. CASE Send
  <2>1. Head(users) \in Txs
    BY <1>5, HeadTailProperties DEF Send, RunTypeOK
  <2>2. OutboxTypeOK(Txs)'
    BY <1>5, <2>1, OutboxTypes DEF Send
  <2> QED
    BY <1>5, <2>2, UnchangedTypes DEF Send, runVars
<1>6. CASE Confirmed
  <2>1. OutboxTypeOK(Txs)' /\ sent' = NoTx
    BY <1>6, OutboxTypes DEF Confirmed, CallEnds
  <2>2. RunTypeOK'
    BY <1>6 DEF Confirmed, RunTypeOK
  <2> QED
    BY <1>6, <2>1, <2>2, UnchangedTypes DEF Confirmed
<1>7. CASE Verify
  <2>1. RunTypeOK'
    BY <1>7, VerifyTypes
  <2> QED
    BY <1>7, <2>1, UnchangedTypes DEF Verify, outbox
<1>8. CASE Unconfirmed \/ Raise \/ Restart
  <2>1. OutboxTypeOK(Txs)' /\ sent' = NoTx
    <3>1. CASE CallEnds
      BY <3>1, OutboxTypes DEF CallEnds
    <3>2. CASE Raise
      <4>1. pc = "update" => Head(users) \in Txs
        BY HeadTailProperties DEF RunTypeOK
      <4>2. OutboxTypeOK(Txs)'
        BY <3>2, <4>1, OutboxTypes DEF Raise
      <4> QED
        BY <3>2, <4>2 DEF Raise, CallFails, outbox
    <3> QED
      BY <1>8, <3>1, <3>2 DEF Unconfirmed, Restart
  <2>2. RunTypeOK'
    BY <1>8, EndTypes DEF Unconfirmed, Raise, Restart, RunTypeOK
  <2> QED
    BY <1>8, <2>1, <2>2, UnchangedTypes DEF Unconfirmed, Raise, Restart
<1>9. CASE Finalize
  BY <1>9, UnchangedTypes DEF Finalize, ChainTypeOK, runVars, outbox
<1>10. CASE Evict
  BY <1>10, UnchangedTypes, OutboxTypes DEF Evict, Lose, runVars
<1>11. CASE \E x \in inFlight, ok \in BOOLEAN : Land(x, ok)
  <2>1. PICK x \in inFlight, ok \in BOOLEAN : Land(x, ok)
    BY <1>11
  <2>2. x \in Txs
    BY DEF OutboxTypeOK
  <2>3. tracked' \in Tops
    BY <2>1, <2>2 DEF Land, Track, Tops, Txs, ChainTypeOK
  <2>4. OutboxTypeOK(Txs)' /\ sent' = sent
    BY <2>1, <2>2, OutboxTypes DEF Land, Settle
  <2> QED
    BY <2>1, <2>3, <2>4, UnchangedTypes DEF Land, ChainTypeOK, runVars
<1>12. CASE \E v \in VaultSet : Overtake(v) \/ OtherUpdate(v)
  <2>1. top' \in Tops /\ tracked' \in Tops
    BY <1>12 DEF Overtake, OtherUpdate, Track, Tops, ChainTypeOK
  <2> QED
    BY <1>12, <2>1, UnchangedTypes DEF Overtake, OtherUpdate, ChainTypeOK, runVars, outbox
<1>13. CASE UNCHANGED vars
  BY <1>13, UnchangedTypes DEF vars, runVars, outbox
<1> QED
  BY <1>1, <1>2, <1>3, <1>4, <1>5, <1>6, <1>7, <1>8, <1>9, <1>10, <1>11, <1>12, <1>13
  DEF Next, Run

\* Every variable keeps its type: an update is under way only while its user
\* is first among those still to be submitted, and vaults are left to read
\* only while they are read (ltv/service.py:25-115).
THEOREM TypeCorrect == Spec => []TypeOK
<1> QED
  BY InitTypes, NextTypes, PTL DEF Spec

-----------------------------------------------------------------------------
(* The run as a sweep over its vaults and users                            *)

\* A run is made only when it is due, and is due until it is through; no list
\* of users is begun before the vaults are read.
Overdue ==
    /\ pc # "idle" => due = TRUE
    /\ pc \in {"idle", "vaults"} => users = <<>>

LEMMA OverdueInit == Init => Overdue
BY DEF Init, Overdue

LEMMA OverdueStep ==
    ASSUME TypeOK, Overdue, [Next]_vars
    PROVE  Overdue'
<1>1. ASSUME End PROVE Overdue'
  BY <1>1 DEF End, Overdue
<1>2. CASE Start \/ IntervalPasses
  BY <1>2 DEF Start, IntervalPasses, Overdue
<1>3. CASE ListVaults
  BY <1>1, <1>3 DEF ListVaults, Overdue
<1>4. CASE ReadVault
  BY <1>1, <1>4 DEF ReadVault, AfterReading, Overdue
<1>5. CASE Confirmed
  BY <1>5 DEF Confirmed, Overdue
<1>6. CASE Verify
  BY <1>1, <1>6 DEF Verify, Overdue
<1>7. CASE Unconfirmed \/ Raise \/ Restart
  BY <1>1, <1>7 DEF Unconfirmed, Raise, Restart
<1>8. CASE UNCHANGED runVars
  BY <1>8 DEF runVars, Overdue
<1> QED
  BY <1>2, <1>3, <1>4, <1>5, <1>6, <1>7, <1>8
  DEF Next, Run, Send, Finalize, Evict, Land, Overtake, OtherUpdate, vars, runVars

\* A list of which the tail is empty has one item.
LEMMA LastOne ==
    ASSUME NEW S, NEW s \in Seq(S), Tail(s) = <<>>
    PROVE  Len(s) <= 1
OBVIOUS

\* An end of the run that leaves it due is one that any run may come to.
LEMMA CutShort ==
    ASSUME End, due' = TRUE
    PROVE  Abstract!FallDue
BY DEF End, Abstract!FallDue, ToHandle

\* Reading a vault handles it; the step that reads the last one lists the
\* changed users, if any, or ends the run.
LEMMA ReadIsSwept ==
    ASSUME TypeOK, Overdue, ReadVault
    PROVE  Abstract!SweepNext
<1> DEFINE v == Head(todo)
           some == found \/ seen[v] # NoUser
           changed == IF Changed(v) THEN Append(users, [vault |-> v, user |-> seen[v]]) ELSE users
<1>1. pc = "read" /\ todo # <<>> /\ todo \in Seq(VaultSet) /\ due = TRUE
  BY DEF ReadVault, TypeOK, Overdue
<1>2. CASE Tail(todo) # <<>>
  <2>1. todo' = Tail(todo) /\ UNCHANGED <<due, pc>>
    BY <1>2 DEF ReadVault
  <2> QED
    BY <1>1, <2>1 DEF Abstract!SweepNext, Abstract!Handle, ToHandle
<1>3. CASE Tail(todo) = <<>>
  <2>1. Len(todo) <= 1
    BY <1>1, <1>3, LastOne
  <2>2. AfterReading(some, changed)
    BY <1>3 DEF ReadVault
  <2>3. RunTypeOK'
    BY TypeParts, ReadTypes
  <2> HIDE DEF some, changed
  <2>4. CASE changed # <<>>
    <3>1. /\ pc' = "update" /\ users' = changed /\ due' = due
      BY <2>2, <2>4 DEF AfterReading
    <3>2. users' \in Seq(VaultSet \union Txs)
      BY <2>3 DEF RunTypeOK
    <3> QED
      BY <1>1, <2>1, <2>4, <3>1, <3>2 DEF Abstract!SweepNext, Abstract!List, ToHandle
  <2>5. CASE changed = <<>>
    <3>1. End /\ due' = ~some
      BY <2>2, <2>5 DEF AfterReading
    <3>2. CASE some
      <4>1. due' = FALSE
        BY <3>1, <3>2
      <4> QED
        BY <1>1, <2>1, <3>1, <4>1
        DEF End, Abstract!SweepNext, Abstract!Complete, ToHandle
    <3>3. CASE ~some
      <4>1. due' = TRUE
        BY <3>1, <3>3
      <4> QED
        BY <3>1, <4>1, CutShort DEF Abstract!SweepNext
    <3> QED
      BY <3>2, <3>3
  <2> QED
    BY <2>4, <2>5
<1> QED
  BY <1>2, <1>3

\* Each step of the task is one of the sweep, or leaves it as it is.
LEMMA StepIsSwept ==
    ASSUME TypeOK, Overdue, [Next]_vars
    PROVE  [Abstract!SweepNext]_Abstract!sweepVars
<1> USE DEF Abstract!SweepNext
<1>1. CASE IntervalPasses
  BY <1>1 DEF IntervalPasses, Overdue, Abstract!FallDue, ToHandle
<1>2. CASE Unconfirmed \/ Raise \/ Restart
  <2>1. due' = TRUE
    BY <1>2 DEF Unconfirmed, Raise, Restart, TypeOK, Overdue
  <2> QED
    BY <1>2, <2>1, CutShort DEF Unconfirmed, Raise, Restart
<1>3. CASE Start
  BY <1>3 DEF Start, Abstract!Begin, ToHandle
<1>4. CASE ListVaults
  <2>1. users = <<>> /\ pc = "vaults" /\ due' = due /\ due = TRUE
    BY <1>4 DEF ListVaults, Overdue
  <2>2. CASE Vaults = <<>>
    BY <1>4, <2>1, <2>2, CutShort DEF ListVaults
  <2>3. CASE Vaults # <<>>
    <3>1. pc' = "read" /\ todo' = Vaults
      BY <1>4, <2>3 DEF ListVaults
    <3>2. Vaults \in Seq(VaultSet \union Txs)
      BY VaultsAssumption
    <3> QED
      BY <2>1, <2>3, <3>1, <3>2 DEF Abstract!List, ToHandle
  <2> QED
    BY <2>2, <2>3
<1>5. CASE ReadVault
  BY <1>5, ReadIsSwept
<1>6. CASE Confirmed
  BY <1>6 DEF Confirmed, Abstract!sweepVars, ToHandle
<1>7. CASE Verify
  <2>1. pc = "verify" /\ users # <<>> /\ users \in Seq(Txs)
    BY <1>7 DEF Verify, TypeOK
  <2>2. CASE Tail(users) = <<>>
    <3>1. Len(users) <= 1
      BY <2>1, <2>2, LastOne
    <3> QED
      BY <1>7, <2>1, <2>2, <3>1 DEF Verify, End, Abstract!Complete, ToHandle
  <2>3. CASE Tail(users) # <<>>
    BY <1>7, <2>1, <2>3 DEF Verify, Abstract!Handle, ToHandle
  <2> QED
    BY <2>2, <2>3
<1>8. CASE UNCHANGED runVars
  BY <1>8 DEF runVars, Abstract!sweepVars, ToHandle
<1> QED
  BY <1>1, <1>2, <1>3, <1>4, <1>5, <1>6, <1>7, <1>8
  DEF Next, Run, Send, Finalize, Evict, Land, Overtake, OtherUpdate, vars

LEMMA InitIsSwept == Init => Abstract!SweepInit
BY DEF Init, Abstract!SweepInit, ToHandle

\* The LTV task implements the sweep: its time is noted only after every vault
\* was read and every changed user submitted and verified in turn, for any
\* vaults and users (service.py:28-65).
THEOREM Refinement == Spec => ImplementsSweep
<1>1. TypeOK /\ Overdue /\ [Next]_vars => TypeOK' /\ Overdue'
  BY NextTypes, OverdueStep
<1>2. TypeOK /\ Overdue /\ [Next]_vars => [Abstract!SweepNext]_Abstract!sweepVars
  BY StepIsSwept
<1> QED
  BY <1>1, <1>2, InitTypes, OverdueInit, InitIsSwept, PTL
  DEF Spec, ImplementsSweep, Abstract!SweepSpec

=============================================================================
