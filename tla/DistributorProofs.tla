------------------------- MODULE DistributorProofs -------------------------
(***************************************************************************)
(* Types of Distributor, that only others spoil its submission, and that   *)
(* no endpoint hides what another one shows, for every number of oracles,  *)
(* endpoints and updates, every delay, and every threshold the owner may   *)
(* set.                                                                    *)
(***************************************************************************)
EXTENDS DistributorProperties, WellFoundedInduction, TLAPS

\* A vote is older than the clock and not ahead of the contract.
Old(v) == v \in Ballots => v.ts <= now /\ v.nonce <= contractNonce

PublishedOK == \A s \in Servers : Old(published[s])

\* Once the next timestamp is read, a vote whose nonce is still the contract's
\* was made after the delay.
VotesOK ==
    \A o \in Oracles :
        /\ Old(votes[o])
        /\ (pc = "quorum" /\ votes[o] \in Ballots /\ votes[o].nonce = contractNonce)
             => votes[o].ts > next

\* And so was the submission; once the root is read, its root is a new one.
UpdateOK ==
    update # NoTx =>
        /\ update.nonce <= contractNonce
        /\ update.nonce = contractNonce =>
             now >= next /\ (pc = "submit" => update.body.root # root)

IInv == TypeOK /\ PublishedOK /\ VotesOK /\ UpdateOK

-----------------------------------------------------------------------------
(* What the operators return                                               *)

LEMMA ConstantTypes ==
    /\ MaxNonce \in Nat \ {0} /\ MaxTime \in Nat /\ Delay \in Nat
    /\ MinOracles \subseteq Nat
    /\ NoVote \notin Ballots /\ NoTx \notin Updates
    /\ \A b \in Bodies : b.root \in Roots
BY SizesAssumption, NoVoteAssumption, NoTxAssumption DEF Roots

\* An oracle's choice is one of the votes its endpoints show.
LEMMA ChoiceType ==
    ASSUME TypeOK, PublishedOK, NEW o \in Oracles, NEW answered \in SUBSET Showing
    PROVE  /\ Choice(o, answered) \in Ballots \union {NoVote}
           /\ Old(Choice(o, answered))
<1> DEFINE heard == {i \in DOMAIN Endpoints[o] : Endpoints[o][i] \in answered}
           First(i) == \A j \in heard : Precedes(o, i, j)
<1>1. CASE \E i \in heard : First(i)
  <2>1. PICK k \in heard : k = CHOOSE i \in heard : First(i)
    BY <1>1
  <2>2. Choice(o, answered) = published[Endpoints[o][k]]
    BY <1>1, <2>1 DEF Choice, Vote
  <2>3. Endpoints[o][k] \in Servers
    BY DEF Showing
  <2> QED
    BY <2>2, <2>3 DEF TypeOK, PublishedOK
<1>2. CASE ~\E i \in heard : First(i)
  BY <1>2, ConstantTypes DEF Choice, Old
<1> QED
  BY <1>1, <1>2

LEMMA VotesInType ==
    ASSUME TypeOK, NEW S
    PROVE  /\ VotesIn(S) \in [Oracles -> Ballots \union {NoVote}]
           /\ \A o \in Oracles : VotesIn(S)[o] = NoVote \/ (VotesIn(S)[o] = votes[o] /\ votes[o] \in S)
BY DEF VotesIn, TypeOK

\* What GoOn does to the variables of the run.
LEMMA GoOnStep ==
    ASSUME NEW counted, NEW await, GoOn(counted, await)
    PROVE  \/ pc' = "idle" /\ votes' = NoVotes /\ update' = NoTx
           \/ pc' = await /\ votes' = counted /\ update' = update
BY DEF GoOn, End

LEMMA NoVotesOK ==
    /\ NoVotes \in [Oracles -> Ballots \union {NoVote}]
    /\ \A o \in Oracles : NoVotes[o] = NoVote /\ NoVotes[o] \notin Ballots
BY ConstantTypes DEF NoVotes

-----------------------------------------------------------------------------
(* The initial states and the steps                                        *)

LEMMA InitInv == Init => IInv
<1> SUFFICES ASSUME Init PROVE IInv
  OBVIOUS
<1>1. \A v \in FirstVotes : v \in Ballots /\ v.nonce <= 1 /\ v.ts = 0
  BY FirstAssumption
<1>2. TypeOK
  BY <1>1, NoVotesOK, ConstantTypes, FirstAssumption
  DEF Init, TypeOK, OutboxInit, OutboxTypeOK
<1>3. PublishedOK
  BY <1>1, ConstantTypes DEF Init, PublishedOK, Old
<1>4. VotesOK /\ UpdateOK
  BY NoVotesOK DEF Init, VotesOK, UpdateOK, Old
<1> QED
  BY <1>2, <1>3, <1>4 DEF IInv

\* A run that ends leaves nothing to be shown but the outbox.
LEMMA EndInv ==
    ASSUME IInv, End, UNCHANGED <<published, now, contractVars>>,
           OutboxTypeOK(Updates)', sent' = NoTx
    PROVE  IInv'
<1>1. TypeOK'
  BY NoVotesOK, ConstantTypes DEF IInv, TypeOK, End, contractVars
<1>2. PublishedOK'
  BY DEF IInv, PublishedOK, Old, contractVars
<1>3. VotesOK' /\ UpdateOK'
  BY NoVotesOK DEF End, VotesOK, UpdateOK, Old
<1> QED
  BY <1>1, <1>2, <1>3 DEF IInv

\* So does a step that goes on with votes of which nothing is wrong.
LEMMA CountInv ==
    ASSUME IInv, NEW counted \in [Oracles -> Ballots \union {NoVote}],
           NEW await \in {"nonce", "time", "quorum"}, GoOn(counted, await),
           pc \in {"fetch", "nonce", "time"},
           \A o \in Oracles : Old(counted[o]),
           await = "quorum" => \A o \in Oracles :
               counted[o] \in Ballots => counted[o].ts > next,
           UNCHANGED <<published, now, contractVars, outbox>>
    PROVE  IInv'
<1>1. CASE pc' = "idle" /\ votes' = NoVotes /\ update' = NoTx
  BY <1>1, EndInv, ConstantTypes DEF End, IInv, TypeOK, OutboxTypeOK, outbox
<1>2. CASE pc' = await /\ votes' = counted /\ update' = update
  <2>1. update = NoTx /\ sent = NoTx
    BY DEF IInv, TypeOK
  <2>2. TypeOK'
    BY <1>2, <2>1 DEF IInv, TypeOK, OutboxTypeOK, outbox, contractVars
  <2>3. PublishedOK'
    BY DEF IInv, PublishedOK, Old, contractVars
  <2>4. VotesOK'
    BY <1>2 DEF VotesOK, Old, contractVars
  <2>5. UpdateOK'
    BY <1>2, <2>1 DEF UpdateOK
  <2> QED
    BY <2>2, <2>3, <2>4, <2>5 DEF IInv
<1> QED
  BY <1>1, <1>2, GoOnStep

LEMMA CountingInv ==
    IInv /\ (Start \/ Fetch \/ ReadNonce \/ ReadNextTimestamp) => IInv'
<1> SUFFICES ASSUME IInv, Start \/ Fetch \/ ReadNonce \/ ReadNextTimestamp PROVE IInv'
  OBVIOUS
<1>1. CASE Start
  BY <1>1 DEF Start, IInv, TypeOK, PublishedOK, VotesOK, UpdateOK, Old, contractVars,
     outbox, OutboxTypeOK
<1>2. CASE Fetch
  <2>1. PICK answered \in SUBSET Showing : FetchFrom(answered)
    BY <1>2 DEF Fetch
  <2> DEFINE counted == [o \in Oracles |-> Choice(o, answered)]
  <2>2. /\ counted \in [Oracles -> Ballots \union {NoVote}]
        /\ \A o \in Oracles : Old(counted[o])
    BY ChoiceType DEF IInv
  <2> QED
    BY <2>1, <2>2, CountInv DEF FetchFrom
<1>3. CASE ReadNonce
  <2> DEFINE counted == VotesIn({v \in Ballots : v.nonce = contractNonce})
  <2>1. /\ counted \in [Oracles -> Ballots \union {NoVote}]
        /\ \A o \in Oracles : Old(counted[o])
    BY VotesInType, ConstantTypes DEF IInv, VotesOK, Old
  <2> HIDE DEF counted
  <2>2. GoOn(counted, "time") /\ pc = "nonce"
        /\ UNCHANGED <<published, now, contractVars, outbox>>
    BY <1>3 DEF ReadNonce, counted
  <2> QED
    BY <2>1, <2>2, CountInv
<1>4. CASE ReadNextTimestamp
  <2> DEFINE counted == VotesIn(Fresh)
  <2>1. /\ counted \in [Oracles -> Ballots \union {NoVote}]
        /\ \A o \in Oracles : Old(counted[o])
        /\ \A o \in Oracles : counted[o] \in Ballots => counted[o].ts > next
    BY VotesInType, ConstantTypes DEF IInv, VotesOK, Old, Fresh
  <2> HIDE DEF counted
  <2>2. GoOn(counted, "quorum") /\ pc = "time"
        /\ UNCHANGED <<published, now, contractVars, outbox>>
    BY <1>4 DEF ReadNextTimestamp, counted
  <2> QED
    BY <2>1, <2>2, CountInv
<1> QED
  BY <1>1, <1>2, <1>3, <1>4

-----------------------------------------------------------------------------

\* The submission takes its nonce from a vote that was fresh when the next
\* timestamp was read; if the nonce is still current, the time is too.
LEMMA ReadMinOraclesInv == IInv /\ ReadMinOracles => IInv'
<1> SUFFICES ASSUME IInv, ReadMinOracles PROVE IInv'
  OBVIOUS
<1>1. UNCHANGED <<published, now, contractVars, outbox>> /\ pc = "quorum" /\ sent = NoTx
  BY DEF ReadMinOracles, IInv, TypeOK
<1>2. CASE End
  BY <1>1, <1>2, EndInv DEF IInv, TypeOK, OutboxTypeOK, outbox
<1>3. CASE ~End
  <2>1. PICK b \in Bodies : \E o \in Voters(b), ss \in FirstSigners(b) :
          /\ update' = [nonce |-> votes[o].nonce, body |-> b, signers |-> ss]
          /\ pc' = "root" /\ votes' = NoVotes
    BY <1>3 DEF ReadMinOracles
  <2>2. PICK o \in Voters(b), ss \in FirstSigners(b) :
          /\ update' = [nonce |-> votes[o].nonce, body |-> b, signers |-> ss]
          /\ pc' = "root" /\ votes' = NoVotes
    BY <2>1
  <2>3. o \in Oracles /\ votes[o] \in Ballots /\ ss \in SUBSET Oracles
    BY DEF Voters, FirstSigners
  <2>4. update' \in Updates /\ update' # NoTx /\ update'.nonce = votes[o].nonce
    BY <2>2, <2>3, ConstantTypes DEF Ballots, Updates
  <2>5. TypeOK'
    BY <1>1, <2>2, <2>4, NoVotesOK
    DEF IInv, TypeOK, OutboxTypeOK, outbox, contractVars
  <2>6. PublishedOK'
    BY <1>1 DEF IInv, PublishedOK, Old, contractVars
  <2>7. VotesOK'
    BY <2>2, NoVotesOK DEF VotesOK, Old
  <2>8. UpdateOK'
    <3>1. /\ votes[o].nonce <= contractNonce /\ votes[o].ts <= now
          /\ votes[o].nonce = contractNonce => votes[o].ts > next
      BY <1>1, <2>3 DEF IInv, VotesOK, Old
    <3>2. votes[o].ts \in Nat /\ now \in Nat /\ next \in Nat
      BY <2>3, ConstantTypes DEF Ballots, IInv, TypeOK
    <3>3. votes[o].nonce = contractNonce => now >= next
      BY <3>1, <3>2
    <3> QED
      BY <1>1, <2>2, <2>4, <3>1, <3>3 DEF UpdateOK, contractVars
  <2> QED
    BY <2>5, <2>6, <2>7, <2>8 DEF IInv
<1> QED
  BY <1>2, <1>3

LEMMA SubmittingInv == IInv /\ (ReadRoot \/ Send \/ CallReturns \/ Fail) => IInv'
<1> SUFFICES ASSUME IInv, ReadRoot \/ Send \/ CallReturns \/ Fail PROVE IInv'
  OBVIOUS
<1>1. CASE ReadRoot
  <2>1. CASE update.body.root = root
    BY <1>1, <2>1, EndInv DEF ReadRoot, IInv, TypeOK, OutboxTypeOK, outbox
  <2>2. CASE update.body.root # root
    BY <1>1, <2>2 DEF ReadRoot, IInv, TypeOK, PublishedOK, VotesOK, UpdateOK, Old,
       contractVars, outbox, OutboxTypeOK
  <2> QED
    BY <2>1, <2>2
<1>2. CASE Send
  BY <1>2 DEF Send, Submit, Compete, IInv, TypeOK, PublishedOK, VotesOK, UpdateOK, Old,
     runVars, contractVars, OutboxTypeOK
<1>3. CASE CallReturns
  BY <1>3, EndInv DEF CallReturns, CallEnds, IInv, TypeOK, OutboxTypeOK
<1>4. CASE Fail
  BY <1>4, EndInv DEF Fail, CallFails, Compete, IInv, TypeOK, OutboxTypeOK, outbox
<1> QED
  BY <1>1, <1>2, <1>3, <1>4

-----------------------------------------------------------------------------

\* An update of the contract leaves every nonce read so far behind.
LEMMA ApplyInv ==
    ASSUME IInv, NEW b \in Bodies, Apply(b), UNCHANGED <<runVars, published, now>>,
           OutboxTypeOK(Updates)', sent' = sent
    PROVE  IInv'
<1>1. contractNonce \in Nat /\ contractNonce' = contractNonce + 1 /\ contractNonce' \in 0 .. MaxNonce
  BY ConstantTypes DEF IInv, TypeOK, Apply
<1>2. TypeOK'
  BY <1>1, ConstantTypes DEF IInv, TypeOK, Apply, runVars
<1>3. \A v \in Ballots : Old(v) =>
        v.ts <= now' /\ v.nonce <= contractNonce' /\ v.nonce # contractNonce'
  BY <1>1 DEF Old, Ballots
<1>4. PublishedOK' /\ VotesOK'
  BY <1>3 DEF IInv, PublishedOK, VotesOK, Old, runVars
<1>5. UpdateOK'
  <2>1. update # NoTx => update.nonce \in Nat /\ update.nonce <= contractNonce
    BY DEF IInv, TypeOK, UpdateOK, Updates
  <2> QED
    BY <1>1, <2>1 DEF UpdateOK, runVars
<1> QED
  BY <1>2, <1>4, <1>5 DEF IInv

LEMMA SurroundingsInv ==
    IInv /\ (\/ Tick \/ OtherUpdate \/ SetMinOracles \/ Evict
             \/ \E s \in Servers : Publish(s)
             \/ \E u \in inFlight : Land(u)) => IInv'
<1> SUFFICES ASSUME IInv,
                    \/ Tick \/ OtherUpdate \/ SetMinOracles \/ Evict
                    \/ \E s \in Servers : Publish(s)
                    \/ \E u \in inFlight : Land(u)
             PROVE  IInv'
  OBVIOUS
<1>1. CASE Tick
  <2>1. now \in Nat /\ now' = now + 1 /\ now' \in 0 .. MaxTime /\ next \in Nat
    BY <1>1, ConstantTypes DEF Tick, IInv, TypeOK
  <2>2. TypeOK'
    BY <1>1, <2>1 DEF Tick, IInv, TypeOK, runVars, contractVars, outbox, OutboxTypeOK
  <2>3. \A v \in Ballots : v.ts <= now => v.ts <= now'
    BY <2>1 DEF Ballots
  <2>4. PublishedOK' /\ VotesOK'
    BY <1>1, <2>3 DEF Tick, IInv, PublishedOK, VotesOK, Old, runVars, contractVars
  <2>5. UpdateOK'
    BY <1>1, <2>1 DEF Tick, IInv, UpdateOK, runVars, contractVars
  <2> QED
    BY <2>2, <2>4, <2>5 DEF IInv
<1>2. CASE OtherUpdate
  BY <1>2, ApplyInv DEF OtherUpdate, IInv, TypeOK, outbox, OutboxTypeOK
<1>3. CASE SetMinOracles
  BY <1>3 DEF SetMinOracles, IInv, TypeOK, PublishedOK, VotesOK, UpdateOK, Old, runVars,
     outbox, OutboxTypeOK
<1>4. CASE Evict
  BY <1>4 DEF Evict, Lose, IInv, TypeOK, PublishedOK, VotesOK, UpdateOK, Old, runVars,
     contractVars, OutboxTypeOK
<1>5. ASSUME NEW s \in Servers, Publish(s) PROVE IInv'
  <2>1. PICK b \in Bodies : published' =
          [published EXCEPT ![s] = [nonce |-> contractNonce, ts |-> now, body |-> b]]
    BY <1>5 DEF Publish
  <2>2. [nonce |-> contractNonce, ts |-> now, body |-> b] \in Ballots
    BY DEF IInv, TypeOK, Ballots
  <2>3. contractNonce \in Nat /\ now \in Nat
    BY ConstantTypes DEF IInv, TypeOK
  <2>4. TypeOK'
    BY <1>5, <2>1, <2>2
    DEF Publish, IInv, TypeOK, runVars, contractVars, outbox, OutboxTypeOK
  <2>5. PublishedOK'
    BY <1>5, <2>1, <2>3 DEF Publish, IInv, TypeOK, PublishedOK, Old, contractVars
  <2>6. VotesOK' /\ UpdateOK'
    BY <1>5 DEF Publish, IInv, VotesOK, UpdateOK, Old, runVars, contractVars
  <2> QED
    BY <2>4, <2>5, <2>6 DEF IInv
<1>6. ASSUME NEW u \in inFlight, Land(u) PROVE IInv'
  <2>1. u \in Updates /\ u.body \in Bodies
    BY DEF IInv, TypeOK, OutboxTypeOK, Updates
  <2>2. OutboxTypeOK(Updates)' /\ sent' = sent
    BY <1>6, <2>1, ConstantTypes DEF Land, Settle, IInv, TypeOK, OutboxTypeOK
  <2>3. CASE Accepted(u)
    BY <1>6, <2>1, <2>2, <2>3, ApplyInv DEF Land
  <2>4. CASE ~Accepted(u)
    BY <1>6, <2>2, <2>4 DEF Land, IInv, TypeOK, PublishedOK, VotesOK, UpdateOK, Old,
       runVars, contractVars
  <2> QED
    BY <2>3, <2>4
<1> QED
  BY <1>1, <1>2, <1>3, <1>4, <1>5, <1>6

LEMMA NextInv == IInv /\ [Next]_vars => IInv'
<1> SUFFICES ASSUME IInv, [Next]_vars PROVE IInv'
  OBVIOUS
<1>1. CASE UNCHANGED vars
  BY <1>1 DEF vars, runVars, contractVars, outbox, IInv, TypeOK, PublishedOK, VotesOK,
     UpdateOK, Old, OutboxTypeOK
<1>2. CASE Start \/ Run
  BY <1>2, CountingInv, ReadMinOraclesInv, SubmittingInv DEF Run
<1>3. CASE \/ Tick \/ OtherUpdate \/ SetMinOracles \/ Evict
           \/ \E s \in Servers : Publish(s)
           \/ \E u \in inFlight : Land(u)
  BY <1>3, SurroundingsInv
<1> QED
  BY <1>1, <1>2, <1>3 DEF Next

\* What the run puts together out of four reads fits the contract, unless the
\* contract has moved on.
LEMMA Consistent == IInv => TypeOK /\ SpoiledByOthersOnly
BY ConstantTypes DEF IInv, TypeOK, UpdateOK, SpoiledByOthersOnly, Accepted, Updates

-----------------------------------------------------------------------------

\* The types hold; in particular nothing of a run is left when it has ended,
\* and the receipt awaited is that of the run's own submission
\* (service.py:22-75).
THEOREM TypeCorrect == Spec => []TypeOK
BY InitInv, NextInv, Consistent, PTL DEF Spec

\* Only an update in between, or a raised threshold, spoils a submission
\* (service.py:22-75).
THEOREM OthersSpoil == Spec => []SpoiledByOthersOnly
BY InitInv, NextInv, Consistent, PTL DEF Spec

-----------------------------------------------------------------------------
(* The choice between the endpoints of an oracle                           *)

NatLess == {p \in Nat \X Nat : p[1] < p[2]}

\* A set of natural numbers that is not empty has a least element.
LEMMA LeastElement ==
    ASSUME NEW T, T \subseteq Nat, T # {}
    PROVE  \E x \in T : \A y \in T : x <= y
<1>1. IsWellFoundedOn(NatLess, Nat)
  BY NatLessThanWellFounded DEF OpToRel, NatLess
<1>2. PICK x \in T : \A y \in T : <<y, x>> \notin NatLess
  BY <1>1, WFMin
<1>3. \A y \in T : ~(y < x)
  BY <1>2 DEF NatLess
<1>4. \A y \in T : x <= y
  BY <1>3
<1> QED
  BY <1>4

\* Of the endpoints that answered, one precedes all: the first of those whose
\* vote has the least distance from the bound of the nonces.
LEMMA SomeoneIsFirst ==
    ASSUME TypeOK, NEW o \in Oracles, NEW heard, heard # {}, heard \subseteq DOMAIN Endpoints[o],
           \A i \in heard : Vote(o, i) \in Ballots
    PROVE  \E i \in heard : \A j \in heard : Precedes(o, i, j)
<1> DEFINE gap(i) == MaxNonce - Vote(o, i).nonce
           gaps == {gap(i) : i \in heard}
<1>1. \A i \in heard : Vote(o, i).nonce \in Nat /\ gap(i) \in Nat
  BY ConstantTypes DEF Ballots
<1>2. gaps \subseteq Nat /\ gaps # {}
  BY <1>1
<1> HIDE DEF gaps
<1>3. PICK least \in gaps : \A g \in gaps : least <= g
  BY <1>2, LeastElement
<1> DEFINE newest == {i \in heard : gap(i) = least}
<1>4. newest # {} /\ \A i \in heard : least <= gap(i)
  BY <1>3 DEF gaps
<1>5. heard \subseteq Nat
  <2>1. Endpoints[o] \in Seq(Servers)
    BY EndpointsAssumption
  <2>2. DOMAIN Endpoints[o] = 1 .. Len(Endpoints[o])
    BY <2>1
  <2> QED
    BY <2>1, <2>2
<1>6. PICK k \in newest : \A i \in newest : k <= i
  BY <1>4, <1>5, LeastElement
<1>7. ASSUME NEW j \in heard PROVE Precedes(o, k, j)
  <2>1. /\ Vote(o, k).nonce \in Nat /\ Vote(o, j).nonce \in Nat
        /\ MaxNonce - Vote(o, k).nonce = least /\ least <= MaxNonce - Vote(o, j).nonce
    BY <1>1, <1>4
  <2>2. CASE j \in newest
    <3>1. MaxNonce - Vote(o, j).nonce = least
      BY <2>2
    <3>2. Vote(o, k).nonce = Vote(o, j).nonce
      BY <2>1, <3>1, ConstantTypes
    <3> QED
      BY <1>6, <2>2, <3>2 DEF Precedes
  <2>3. CASE j \notin newest
    <3>1. MaxNonce - Vote(o, j).nonce # least
      BY <2>3
    <3>2. Vote(o, k).nonce > Vote(o, j).nonce
      BY <2>1, <3>1, ConstantTypes
    <3> QED
      BY <3>2 DEF Precedes
  <2> QED
    BY <2>2, <2>3
<1> QED
  BY <1>7

\* The choice is no older than any vote that was heard.
LEMMA ChoiceIsNewest ==
    ASSUME TypeOK, NEW o \in Oracles, NEW answered \in SUBSET Showing,
           NEW i \in DOMAIN Endpoints[o], Endpoints[o][i] \in answered
    PROVE  Choice(o, answered) # NoVote /\ Choice(o, answered).nonce >= Vote(o, i).nonce
<1> DEFINE heard == {j \in DOMAIN Endpoints[o] : Endpoints[o][j] \in answered}
           First(j) == \A l \in heard : Precedes(o, j, l)
<1>1. \A j \in heard : Vote(o, j) \in Ballots
  BY DEF Showing, Vote, TypeOK
<1>2. \E j \in heard : First(j)
  BY <1>1, SomeoneIsFirst
<1>3. PICK k \in heard : First(k) /\ Choice(o, answered) = Vote(o, k)
  <2>1. PICK k \in heard : First(k) /\ k = CHOOSE j \in heard : First(j)
    BY <1>2
  <2> QED
    BY <1>2, <2>1 DEF Choice
<1>4. Vote(o, k) \in Ballots /\ Vote(o, i) \in Ballots /\ Precedes(o, k, i)
  BY <1>1, <1>3
<1> HIDE DEF heard, First
<1>5. Vote(o, k).nonce \in Nat /\ Vote(o, i).nonce \in Nat
  BY <1>4, ConstantTypes DEF Ballots
<1>6. Vote(o, k).nonce >= Vote(o, i).nonce
  BY <1>4, <1>5 DEF Precedes
<1> QED
  BY <1>3, <1>4, <1>6, ConstantTypes

\* No endpoint keeps a later vote of its oracle from being counted, for any
\* number of endpoints in any order (service.py:100-125).
THEOREM NewestIsCounted == Spec => LaggardsHideNothing
<1>1. TypeOK =>
        [\A answered \in SUBSET Showing : FetchFrom(answered) =>
           \A o \in Oracles : \A i \in DOMAIN Endpoints[o] :
              Endpoints[o][i] \in answered =>
                  votes'[o] # NoVote /\ votes'[o].nonce >= Vote(o, i).nonce]_vars
  <2> SUFFICES ASSUME TypeOK, NEW answered \in SUBSET Showing, FetchFrom(answered),
                      NEW o \in Oracles, NEW i \in DOMAIN Endpoints[o],
                      Endpoints[o][i] \in answered
               PROVE  votes'[o] # NoVote /\ votes'[o].nonce >= Vote(o, i).nonce
    OBVIOUS
  <2> DEFINE counted == [p \in Oracles |-> Choice(p, answered)]
  <2>1. votes' = counted
    BY GoOnStep DEF FetchFrom, GoOn, End
  <2>2. votes'[o] = Choice(o, answered)
    BY <2>1
  <2> QED
    BY <2>2, ChoiceIsNewest
<1>2. IInv => TypeOK
  BY DEF IInv
<1> QED
  BY <1>1, <1>2, InitInv, NextInv, PTL DEF Spec, LaggardsHideNothing

=============================================================================
