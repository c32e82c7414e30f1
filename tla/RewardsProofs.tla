--------------------------- MODULE RewardsProofs ---------------------------
(***************************************************************************)
(* Proofs about the rewards task, for every set of oracles, threshold and  *)
(* cache size: what is left in the cache, and the types.                   *)
(***************************************************************************)
EXTENDS RewardsProperties, FiniteSetTheorems, WellFoundedInduction, TLAPS

\* An empty cache has no quorum, because the threshold is not zero.
LEMMA EmptyHasNoQuorum == ~HasQuorum({})
<1>1. ASSUME NEW b \in Bodies PROVE Count({}, b) = 0
  <2>1. {v \in {} : v.body = b} = {}
    OBVIOUS
  <2> QED
    BY <2>1, FS_EmptySet DEF Count
<1> QED
  BY <1>1, SizesAssumption DEF HasQuorum

\* The submission ends by a return: the cache is empty.
LEMMA ReturnClears ==
    ASSUME Return
    PROVE  LeftoverQuorumMeansRaise'
BY EmptyHasNoQuorum DEF Return, LeftoverQuorumMeansRaise

\* Every step of the task, of the process around it and of the chain keeps
\* the rule about leftover quorums.
LEMMA LeftoverStep ==
    ASSUME LeftoverQuorumMeansRaise, [Next]_vars
    PROVE  LeftoverQuorumMeansRaise'
<1> USE DEF LeftoverQuorumMeansRaise
<1>1. CASE Start
  BY <1>1 DEF Start
<1>2. CASE Fetch
  BY <1>2 DEF Fetch
<1>3. CASE ReadNonce
  <2> DEFINE current == {v \in votes : v.nonce = contractNonce}
  <2>1. \/ pc' = "idle" /\ cache' = cache /\ outcome' = outcome
        \/ pc' = "idle" /\ ~HasQuorum(cache')
        \/ pc' = "submit"
    BY <1>3 DEF ReadNonce
  <2>2. pc = "nonce"
    BY <1>3 DEF ReadNonce
  <2> QED
    BY <2>1, <2>2
<1>4. CASE Abort
  BY <1>4 DEF Abort
<1>5. CASE Send
  BY <1>5 DEF Send, taskVars
<1>6. CASE NotSent \/ Confirmed \/ RevertedOrTimedOut
  BY <1>6, ReturnClears DEF NotSent, Confirmed, RevertedOrTimedOut
<1>7. CASE Raise
  BY <1>7 DEF Raise
<1>8. CASE Restart
  BY <1>8, EmptyHasNoQuorum DEF Restart
<1>9. CASE UNCHANGED taskVars
  BY <1>9 DEF taskVars
<1>10. CASE \E s \in Servers : Publish(s)
  BY <1>9, <1>10 DEF Publish
<1>11. CASE Land \/ Evict \/ OtherUpdate \/ DelayPasses
  BY <1>9, <1>11 DEF Land, Evict, OtherUpdate, DelayPasses
<1>12. CASE UNCHANGED vars
  BY <1>9, <1>12 DEF vars
<1> QED
  BY <1>1, <1>2, <1>3, <1>4, <1>5, <1>6, <1>7, <1>8, <1>10, <1>11, <1>12
  DEF Next, Run

\* Between submissions a quorum is left in the cache only when the last
\* submission ended by an exception (service.py:77-107).
THEOREM QuorumNotLeftBehind == Spec => []LeftoverQuorumMeansRaise
<1>1. Init => LeftoverQuorumMeansRaise
  BY EmptyHasNoQuorum DEF Init, LeftoverQuorumMeansRaise
<1> QED
  BY <1>1, LeftoverStep, PTL DEF Spec

-----------------------------------------------------------------------------
(* The votes that are kept                                                 *)

NatLess == {p \in Nat \X Nat : p[1] < p[2]}

\* A set of times that is not empty has an earliest one.
LEMMA Earliest ==
    ASSUME NEW T, T \subseteq Nat, T # {}
    PROVE  \E t \in T : \A u \in T : t <= u
<1>1. IsWellFoundedOn(NatLess, Nat)
  BY NatLessThanWellFounded DEF OpToRel, NatLess
<1>2. PICK t \in T : \A u \in T : <<u, t>> \notin NatLess
  BY <1>1, WFMin
<1>3. \A u \in T : ~(u < t)
  BY <1>2 DEF NatLess
<1> QED
  BY <1>3

\* The times of votes are some of those of the bodies.
LEMMA TimestampsFinite ==
    ASSUME NEW vs \in SUBSET Votes
    PROVE  Timestamps(vs) \subseteq Nat /\ IsFiniteSet(Timestamps(vs))
<1> DEFINE all == {b.ts : b \in Bodies}
<1>1. IsFiniteSet(all)
  <2> DEFINE f == [b \in Bodies |-> b.ts]
  <2>1. f \in Surjection(Bodies, all)
    BY DEF Surjection
  <2> QED
    BY <2>1, BodiesAssumption, FS_Surjection
<1>2. Timestamps(vs) \subseteq all
  BY DEF Timestamps, Votes
<1>3. all \subseteq Nat
  BY BodiesAssumption
<1> QED
  BY <1>1, <1>2, <1>3, FS_Subset

\* Whatever is added, CacheSize timestamps are left (service.py:37-47).
LEMMA EvictedBound ==
    ASSUME NEW vs \in SUBSET Votes
    PROVE  Cardinality(Timestamps(Evicted(vs))) <= CacheSize
<1> DEFINE kept == Timestamps(Evicted(vs))
<1>1. Evicted(vs) \subseteq vs /\ kept \subseteq Timestamps(vs)
  BY DEF Evicted, Timestamps
<1>2. CASE kept = {}
  BY <1>2, FS_EmptySet, SizesAssumption
<1>3. CASE kept # {}
  <2>1. PICK t \in kept : \A u \in kept : t <= u
    BY <1>1, <1>3, TimestampsFinite, Earliest
  <2> DEFINE since == {u \in Timestamps(vs) : u >= t}
  <2>2. Cardinality(since) <= CacheSize
    BY DEF Timestamps, Evicted
  <2>3. kept \subseteq since
    BY <1>1, <2>1, TimestampsFinite
  <2>4. IsFiniteSet(since)
    BY TimestampsFinite, FS_Subset
  <2>5. Cardinality(kept) <= Cardinality(since) /\ IsFiniteSet(kept)
    BY <2>3, <2>4, FS_Subset
  <2>6. Cardinality(kept) \in Nat /\ Cardinality(since) \in Nat /\ CacheSize \in Nat
    BY <2>4, <2>5, FS_CardinalityType, SizesAssumption
  <2> QED
    BY <2>2, <2>5, <2>6
<1> QED
  BY <1>2, <1>3

-----------------------------------------------------------------------------
(* Types                                                                   *)

LEMMA EmptyCache == {} \subseteq Votes /\ Cardinality(Timestamps({})) <= CacheSize
<1>1. Timestamps({}) = {}
  BY DEF Timestamps
<1> QED
  BY <1>1, FS_EmptySet, SizesAssumption

\* Whatever the task and the chain do with the transactions, they are sets of
\* votes, and the awaited one is the submission.
LEMMA OutboxStep ==
    ASSUME OutboxTypeOK(Submissions),
           \/ submission \in Submissions /\ Submit(submission)
           \/ submission \in Submissions /\ CallFails(submission, Accepted(submission))
           \/ CallEnds \/ Lose \/ UNCHANGED outbox
           \/ \E sub \in inFlight : Settle(sub, Accepted(sub))
    PROVE  OutboxTypeOK(Submissions)'
<1>1. CASE submission \in Submissions /\ Submit(submission)
  BY <1>1, NoTxAssumption DEF Submit, Compete, OutboxTypeOK, Submissions
<1>2. CASE submission \in Submissions /\ CallFails(submission, Accepted(submission))
  BY <1>2 DEF CallFails, Compete, OutboxTypeOK
<1>3. CASE CallEnds \/ Lose \/ UNCHANGED outbox
  BY <1>3 DEF CallEnds, Lose, outbox, OutboxTypeOK
<1>4. CASE \E sub \in inFlight : Settle(sub, Accepted(sub))
  BY <1>4, NoTxAssumption DEF Settle, OutboxTypeOK, Submissions
<1> QED
  BY <1>1, <1>2, <1>3, <1>4

LEMMA ReturnTypes ==
    ASSUME TypeOK, Return
    PROVE  TypeOK'
<1>1. OutboxTypeOK(Submissions)' /\ sent' = NoTx
  BY OutboxStep DEF Return, CallEnds, TypeOK
<1> QED
  BY <1>1, EmptyCache DEF Return, contractVars, TypeOK

\* The times the contract takes from submissions.
LEMMA ApplyTypes ==
    ASSUME contractNonce \in 0 .. MaxNonce, NEW ts \in Nat, Apply(ts)
    PROVE  contractNonce' \in 0 .. MaxNonce /\ lastTs' \in Nat /\ canUpdate' \in BOOLEAN
<1>1. contractNonce' \in 0 .. MaxNonce /\ lastTs' \in Nat
  BY SizesAssumption DEF Apply
<1>2. canUpdate' \in BOOLEAN
  BY DEF Apply
<1> QED
  BY <1>1, <1>2

\* Enough votes were counted for a winner, and Threshold of them are submitted:
\* all for the same body.
LEMMA SignersType ==
    ASSUME NEW vs \in SUBSET Votes, NEW b, NEW ss \in Signers(vs, b)
    PROVE  /\ ss \in Submissions
           /\ Cardinality(ss) = Threshold
           /\ \A v \in ss : v.body = b
<1>1. ss \subseteq Votes /\ Cardinality(ss) = Threshold /\ \A v \in ss : v.body = b
  BY DEF Signers
<1>2. ss # {}
  BY <1>1, FS_EmptySet, SizesAssumption
<1> QED
  BY <1>1, <1>2 DEF Submissions

LEMMA TypesStep == ASSUME TypeOK, [Next]_vars PROVE TypeOK'
<1>1. CASE Start \/ Abort
  BY <1>1, OutboxStep DEF Start, Abort, contractVars, outbox, TypeOK
<1>2. CASE Fetch
  <2>1. PICK answered \in SUBSET {s \in Servers : published[s] # NoVote} :
          votes' \subseteq UNION {Choice(o, answered) : o \in Oracles}
    BY <1>2 DEF Fetch
  <2>2. \A o \in Oracles : Choice(o, answered) \subseteq Votes
    BY DEF Choice, Votes, Ballots, TypeOK
  <2>3. votes' \subseteq Votes
    BY <2>1, <2>2
  <2> QED
    BY <1>2, <2>3, OutboxStep DEF Fetch, contractVars, outbox, TypeOK
<1>3. CASE ReadNonce
  <2> DEFINE current == {v \in votes : v.nonce = contractNonce}
  <2>1. \/ UNCHANGED cache \/ cache' = Updated(current)
    BY <1>3 DEF ReadNonce
  <2>2. cache' \subseteq Votes /\ Cardinality(Timestamps(cache')) <= CacheSize
    <3>1. cache \union current \in SUBSET Votes
      BY DEF TypeOK
    <3>2. Updated(current) \subseteq Votes /\ Cardinality(Timestamps(Updated(current))) <= CacheSize
      BY <3>1, EvictedBound DEF Updated, Evicted
    <3> QED
      BY <2>1, <3>2 DEF TypeOK
  <2>3. \/ pc' = "idle" /\ UNCHANGED submission
        \/ /\ pc' = "submit"
           /\ \E b \in Winners(cache') : submission' \in Signers(cache', b)
    BY <1>3 DEF ReadNonce
  <2>4. CASE pc' = "submit" /\ \E b \in Winners(cache') : submission' \in Signers(cache', b)
    <3>1. submission' \in Submissions
      BY <2>4, <2>2, SignersType
    <3>2. /\ votes' = {} /\ UNCHANGED <<outcome, published, contractVars, outbox>>
          /\ sent = NoTx
      BY <1>3 DEF ReadNonce, TypeOK
    <3>3. OutboxTypeOK(Submissions)' /\ sent' = NoTx
      BY <3>2, OutboxStep DEF outbox, TypeOK
    <3>4. submission' # NoTx
      BY <3>1, NoTxAssumption DEF Submissions
    <3> QED
      BY <2>2, <2>4, <3>1, <3>2, <3>3, <3>4 DEF contractVars, TypeOK
  <2>5. CASE pc' = "idle" /\ UNCHANGED submission
    BY <2>5, <2>2, <1>3, OutboxStep DEF ReadNonce, contractVars, outbox, TypeOK
  <2> QED
    BY <2>3, <2>4, <2>5
<1>4. CASE Send
  <2>1. OutboxTypeOK(Submissions)' /\ sent' = submission
    BY <1>4, OutboxStep DEF Send, Submit, TypeOK
  <2> QED
    BY <1>4, <2>1 DEF Send, taskVars, contractVars, TypeOK
<1>5. CASE NotSent \/ Confirmed \/ RevertedOrTimedOut
  BY <1>5, ReturnTypes DEF NotSent, Confirmed, RevertedOrTimedOut
<1>6. CASE Raise
  <2>1. OutboxTypeOK(Submissions)' /\ sent' = NoTx
    <3>1. CASE sent = NoTx
      BY <1>6, <3>1, OutboxStep DEF Raise, CallFails, TypeOK
    <3>2. CASE sent # NoTx
      BY <1>6, <3>2, OutboxStep DEF Raise, CallEnds, TypeOK
    <3> QED
      BY <3>1, <3>2
  <2> QED
    BY <1>6, <2>1 DEF Raise, contractVars, TypeOK
<1>7. CASE Restart
  <2>1. OutboxTypeOK(Submissions)' /\ sent' = NoTx
    BY <1>7, OutboxStep DEF Restart, CallEnds, TypeOK
  <2> QED
    BY <1>7, <2>1, EmptyCache DEF Restart, contractVars, TypeOK
<1>8. CASE \E s \in Servers : Publish(s)
  BY <1>8, OutboxStep DEF Publish, taskVars, contractVars, outbox, TypeOK
<1>9. CASE Land
  <2>1. PICK sub \in inFlight :
          /\ Settle(sub, Accepted(sub))
          /\ (\E v \in sub : Apply(v.body.ts)) \/ UNCHANGED contractVars
    BY <1>9 DEF Land
  <2>2. \A v \in sub : v.body.ts \in Nat
    BY BodiesAssumption DEF TypeOK, OutboxTypeOK, Submissions, Votes
  <2>3. contractNonce' \in 0 .. MaxNonce /\ lastTs' \in Nat /\ canUpdate' \in BOOLEAN
    BY <2>1, <2>2, ApplyTypes DEF contractVars, TypeOK
  <2>4. OutboxTypeOK(Submissions)' /\ sent' = sent
    BY <2>1, OutboxStep DEF Settle, TypeOK
  <2> QED
    BY <1>9, <2>3, <2>4 DEF Land, taskVars, TypeOK
<1>10. CASE Evict
  <2>1. OutboxTypeOK(Submissions)' /\ sent' = sent
    BY <1>10, OutboxStep DEF Evict, Lose, TypeOK
  <2> QED
    BY <1>10, <2>1 DEF Evict, taskVars, contractVars, TypeOK
<1>11. CASE DelayPasses
  BY <1>11, OutboxStep DEF DelayPasses, taskVars, outbox, TypeOK
<1>12. CASE OtherUpdate
  <2>1. contractNonce' \in 0 .. MaxNonce /\ lastTs' \in Nat /\ canUpdate' \in BOOLEAN
    BY <1>12, ApplyTypes, BodiesAssumption DEF OtherUpdate, TypeOK
  <2> QED
    BY <1>12, <2>1, OutboxStep DEF OtherUpdate, taskVars, outbox, TypeOK
<1>13. CASE UNCHANGED vars
  BY <1>13, OutboxStep DEF vars, taskVars, contractVars, outbox, TypeOK
<1> QED
  BY <1>1, <1>2, <1>3, <1>4, <1>5, <1>6, <1>7, <1>8, <1>9, <1>10, <1>11, <1>12, <1>13
  DEF Next, Run

\* Every variable of the task and of the contract keeps its type, and the
\* cache never holds votes of more than CacheSize timestamps
\* (rewards/service.py:26-47), however the oracles vote.
THEOREM CacheStaysBounded == Spec => []TypeOK
<1>1. Init => TypeOK
  BY EmptyCache, SizesAssumption, NoTxAssumption
  DEF Init, OutboxInit, OutboxTypeOK, TypeOK
<1> QED
  BY <1>1, TypesStep, PTL DEF Spec

-----------------------------------------------------------------------------
(* The votes that are dropped                                              *)

From(T, t) == {u \in T : u >= t}
Youngest(T) == {t \in T : Cardinality(From(T, t)) <= CacheSize}

LEMMA FromFinite ==
    ASSUME NEW T, IsFiniteSet(T), NEW t
    PROVE  IsFiniteSet(From(T, t)) /\ Cardinality(From(T, t)) \in Nat
<1>1. IsFiniteSet(From(T, t))
  BY FS_Subset DEF From
<1> QED
  BY <1>1, FS_CardinalityType

\* A finite set of times that is not empty has a latest one: the one from which
\* on it has the fewest.
LEMMA LatestTime ==
    ASSUME NEW T, T \subseteq Nat, IsFiniteSet(T), T # {}
    PROVE  \E t \in T : \A u \in T : u <= t
<1> DEFINE sizes == {Cardinality(From(T, t)) : t \in T}
<1>1. sizes \subseteq Nat /\ sizes # {}
  BY FromFinite
<1>2. PICK n \in sizes : \A k \in sizes : n <= k
  BY <1>1, Earliest
<1>3. PICK t \in T : n = Cardinality(From(T, t))
  OBVIOUS
<1>4. ASSUME NEW u \in T, ~(u <= t)
      PROVE  FALSE
  <2>1. u > t /\ From(T, u) \subseteq From(T, t) \ {t} /\ t \in From(T, t)
    <3>1. t \in Nat /\ u \in Nat /\ u > t
      BY <1>4
    <3>2. \A w \in From(T, u) : w \in From(T, t) \ {t}
      BY <3>1 DEF From
    <3>3. t \in From(T, t)
      BY <3>1 DEF From
    <3> QED
      BY <3>1, <3>2, <3>3
  <2>2. /\ IsFiniteSet(From(T, t) \ {t})
        /\ Cardinality(From(T, t) \ {t}) = Cardinality(From(T, t)) - 1
    BY <2>1, FromFinite, FS_RemoveElement
  <2>3. Cardinality(From(T, u)) <= Cardinality(From(T, t)) - 1
    BY <2>1, <2>2, FS_Subset
  <2>4. Cardinality(From(T, t)) <= Cardinality(From(T, u))
    BY <1>2, <1>3
  <2> QED
    BY <2>3, <2>4, FromFinite
<1> QED
  BY <1>4

\* If a time is dropped, CacheSize later ones are kept: those behind the latest
\* that is dropped.
LEMMA DroppedBehind ==
    ASSUME NEW T, T \subseteq Nat, IsFiniteSet(T), NEW low \in T, low \notin Youngest(T)
    PROVE  Cardinality({t \in Youngest(T) : t > low}) >= CacheSize
<1> DEFINE dropped == T \ Youngest(T)
           behind == {t \in Youngest(T) : t > low}
<1>1. PICK t \in dropped : \A u \in dropped : u <= t
  <2>1. dropped \subseteq Nat /\ IsFiniteSet(dropped) /\ dropped # {}
    BY FS_Subset
  <2> QED
    BY <2>1, LatestTime
<1>2. /\ Cardinality(From(T, t)) \in Nat /\ CacheSize \in Nat
      /\ ~(Cardinality(From(T, t)) <= CacheSize)
  BY FromFinite, SizesAssumption DEF Youngest
<1>3. /\ IsFiniteSet(From(T, t) \ {t})
      /\ Cardinality(From(T, t) \ {t}) = Cardinality(From(T, t)) - 1
  <2>1. t \in From(T, t)
    BY DEF From
  <2> QED
    BY <2>1, FromFinite, FS_RemoveElement
<1>4. From(T, t) \ {t} \subseteq behind
  <2> SUFFICES ASSUME NEW u \in From(T, t) \ {t} PROVE u \in behind
    OBVIOUS
  <2>1. u \in T /\ u > t
    BY DEF From
  <2>2. u \notin dropped /\ low <= t
    BY <1>1, <2>1
  <2> QED
    BY <2>1, <2>2
<1>5. IsFiniteSet(behind)
  BY FS_Subset DEF Youngest
<1>6. Cardinality(From(T, t) \ {t}) <= Cardinality(behind) /\ Cardinality(behind) \in Nat
  BY <1>4, <1>5, FS_Subset, FS_CardinalityType
<1> QED
  BY <1>2, <1>3, <1>6

\* What is left of the times of votes are the youngest.
LEMMA EvictedYoungestLeft ==
    ASSUME NEW vs
    PROVE  Timestamps(Evicted(vs)) = Youngest(Timestamps(vs))
BY DEF Timestamps, Evicted, Youngest, From

LEMMA ForgottenStep ==
    ASSUME TypeOK, [Next]_vars, NEW v \in cache \ cache'
    PROVE  \/ pc = "submit"
           \/ Restart
           \/ Cardinality({ts \in Timestamps(cache') : ts > v.body.ts}) >= CacheSize
<1>1. CASE ReadNonce
  <2> DEFINE current == {w \in votes : w.nonce = contractNonce}
             all == cache \union current
  <2>1. cache' = Evicted(all)
    BY <1>1 DEF ReadNonce, Updated
  <2>2. all \in SUBSET Votes
    BY DEF TypeOK
  <2>3. v.body.ts \in Timestamps(all) /\ v.body.ts \notin Youngest(Timestamps(all))
    BY <2>1 DEF Timestamps, Evicted, Youngest, From
  <2>4. Cardinality({ts \in Youngest(Timestamps(all)) : ts > v.body.ts}) >= CacheSize
    BY <2>2, <2>3, TimestampsFinite, DroppedBehind
  <2> QED
    BY <2>1, <2>4, EvictedYoungestLeft
<1>2. CASE pc = "submit" \/ Restart
  BY <1>2
<1>3. Confirmed \/ RevertedOrTimedOut => pc = "submit"
  BY DEF Confirmed, RevertedOrTimedOut, TypeOK, OutboxTypeOK
<1>4. CASE UNCHANGED cache
  BY <1>4
<1> QED
  BY <1>1, <1>2, <1>3, <1>4
  DEF Next, Run, Start, Fetch, Abort, Send, NotSent, Raise,
      Publish, Land, Evict, OtherUpdate, DelayPasses, taskVars, vars

\* Votes leave the cache with a submission or a restart, or as the oldest when
\* CacheSize timestamps are younger (rewards/service.py:37-47, 107).
THEOREM VotesAreKept == Spec => NoVoteForgotten
<1>1. TypeOK /\ [Next]_vars =>
        [\A v \in cache \ cache' :
            \/ pc = "submit"
            \/ Restart
            \/ Cardinality({ts \in Timestamps(cache') : ts > v.body.ts}) >= CacheSize]_vars
  BY ForgottenStep
<1> QED
  BY <1>1, CacheStaysBounded, PTL DEF Spec, NoVoteForgotten

-----------------------------------------------------------------------------
(* What is submitted                                                       *)

\* Threshold votes for one body are being submitted.
WellSigned ==
    pc = "submit" =>
        /\ Cardinality(submission) = Threshold
        /\ \A v, w \in submission : v.body = w.body

LEMMA WellSignedStep == ASSUME TypeOK, WellSigned, [Next]_vars PROVE WellSigned'
<1>1. CASE ReadNonce
  <2>1. CASE pc' = "submit"
    <3>1. PICK b \in Winners(cache') : submission' \in Signers(cache', b)
      BY <1>1, <2>1 DEF ReadNonce
    <3>2. cache' \in SUBSET Votes
      BY TypesStep DEF TypeOK
    <3> QED
      BY <3>1, <3>2, SignersType DEF WellSigned
  <2> QED
    BY <2>1 DEF WellSigned
<1>2. CASE pc' # "submit"
  BY <1>2 DEF WellSigned
<1>3. CASE UNCHANGED <<pc, submission>>
  BY <1>3 DEF WellSigned
<1> QED
  BY <1>1, <1>2, <1>3
  DEF Next, Run, Start, Fetch, Abort, Send, NotSent, Confirmed, RevertedOrTimedOut, Return,
      Raise, Restart, Publish, Land, Evict, OtherUpdate, DelayPasses, taskVars, vars

\* Votes of one nonce for one body come from different oracles, unless an
\* oracle signed twice.
LEMMA SignersDistinct ==
    ASSUME NEW ss \in SUBSET Votes, NEW n, NEW b,
           \A v \in ss : v.nonce = n /\ v.body = b,
           \A v, w \in ss : v.oracle = w.oracle => v.sig = w.sig
    PROVE  Cardinality({v.oracle : v \in ss}) = Cardinality(ss)
<1> DEFINE signers == {v.oracle : v \in ss}
           f == [v \in ss |-> v.oracle]
<1>1. \A v, w \in ss : v.oracle = w.oracle => v = w
  BY DEF Votes
<1>2. f \in Bijection(ss, signers)
  BY <1>1 DEF Bijection, Injection, Surjection, IsInjective
<1>3. IsFiniteSet(signers)
  <2>1. signers \subseteq Oracles
    BY DEF Votes
  <2> QED
    BY <2>1, OraclesAssumption, FS_Subset
<1>4. f \in Injection(ss, signers)
  BY <1>2 DEF Bijection
<1>5. IsFiniteSet(ss)
  BY <1>3, <1>4, FS_Injection
<1> HIDE DEF signers, f
<1>6. Cardinality(signers) = Cardinality(ss)
  BY <1>2, <1>5, FS_Bijection DEF ExistsBijection
<1> QED
  BY <1>6 DEF signers

\* Whatever is submitted while the contract may be updated, the contract refuses
\* it only for a vote of another nonce, an oracle with two signatures, or a
\* signature that is not genuine: the votes are counted, chosen and cut so that
\* there is no other cause (rewards/service.py:37-43, 77-106).
THEOREM RefusalCauses == Spec => []RefusalHasCause
<1>1. Init => WellSigned
  BY DEF Init, WellSigned
<1>2. TypeOK /\ WellSigned => RefusalHasCause
  <2> SUFFICES ASSUME TypeOK, WellSigned, pc = "submit", canUpdate,
                      \A v \in submission : v.nonce = contractNonce,
                      \A v, w \in submission : v.oracle = w.oracle => v.sig = w.sig,
                      \A v \in submission : v.sig \in Genuine
               PROVE  Accepted(submission)
    BY DEF RefusalHasCause
  <2>1. submission \subseteq Votes /\ submission # {}
    BY NoTxAssumption DEF TypeOK, Submissions
  <2>2. PICK w \in submission : TRUE
    BY <2>1
  <2>3. Cardinality({v.oracle : v \in submission}) = Threshold
    BY <2>1, <2>2, SignersDistinct DEF WellSigned
  <2> QED
    BY <2>3, SizesAssumption DEF Accepted, WellSigned
<1> QED
  BY <1>1, <1>2, WellSignedStep, CacheStaysBounded, PTL DEF Spec

=============================================================================
