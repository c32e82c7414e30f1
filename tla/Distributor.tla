---------------------------- MODULE Distributor ----------------------------
(***************************************************************************)
(* The distributor task, src/distributor/service.py: it collects the votes *)
(* of the oracles for a new root of the MerkleDistributor contract, reads  *)
(* the contract's state value by value, and submits the body most oracles  *)
(* voted for.  Unlike the rewards task it keeps nothing between runs.      *)
(*                                                                         *)
(* Around it: endpoints that show votes at their own pace, other keepers   *)
(* that submit to the same contract, its owner who changes the threshold.  *)
(*                                                                         *)
(* pc is the await at which a run stands:                                  *)
(*   idle     between runs                                                 *)
(*   fetch    the oracles' endpoints have been asked                       *)
(*   nonce    nonce()                                                      *)
(*   time     getNextRewardsRootUpdateTimestamp()                          *)
(*   quorum   rewardsMinOracles()                                          *)
(*   root     rewardsRoot()                                                *)
(*   submit   set_rewards_root()                                           *)
(***************************************************************************)
EXTENDS Outbox, Sequences

CONSTANTS
    Oracles,        \* the oracles' addresses, as numbers
    Servers,
    Endpoints,      \* per oracle: its endpoints in the order of the config
    Bodies,         \* what can be voted for: records with a root
    FirstRoot,      \* the root when the process starts
    FirstVotes,     \* votes the endpoints may show then
    MinOracles,     \* values of the contract's rewardsMinOracles
    Delay,          \* time between two updates of the contract
    MaxNonce,       \* bound: updates of the contract
    MaxTime,        \* bound: the clock
    NoVote

Roots == {b.root : b \in Bodies}
Ballots == [nonce : 0 .. MaxNonce, ts : 0 .. MaxTime, body : Bodies]
Updates == [nonce : 0 .. MaxNonce, body : Bodies, signers : SUBSET Oracles]

ASSUME EndpointsAssumption == Oracles \subseteq Nat /\ Endpoints \in [Oracles -> Seq(Servers)]
ASSUME SizesAssumption ==
    MinOracles \subseteq Nat \ {0} /\ Delay \in Nat /\ MaxNonce \in Nat \ {0} /\ MaxTime \in Nat
ASSUME FirstAssumption ==
    FirstRoot \in Roots /\ FirstVotes \subseteq {v \in Ballots : v.nonce <= 1 /\ v.ts = 0}
ASSUME NoVoteAssumption == NoVote \notin Ballots
ASSUME NoTxAssumption == NoTx \notin Updates

VARIABLES
    pc,
    votes,          \* per oracle: its vote, while this run still counts it
    update,         \* what this run is going to submit
    published,      \* the vote each endpoint shows
    now,
    contractNonce,
    root,           \* rewardsRoot
    next,           \* getNextRewardsRootUpdateTimestamp
    minOracles      \* rewardsMinOracles

runVars == <<pc, votes, update>>
contractVars == <<contractNonce, root, next, minOracles>>
vars == <<runVars, published, now, contractVars, outbox>>

NoVotes == [o \in Oracles |-> NoVote]

TypeOK ==
    /\ pc \in {"idle", "fetch", "nonce", "time", "quorum", "root", "submit"}
    /\ votes \in [Oracles -> Ballots \union {NoVote}]
    /\ update \in Updates \union {NoTx}
    /\ update # NoTx <=> pc \in {"root", "submit"}
    /\ published \in [Servers -> Ballots \union {NoVote}]
    /\ now \in 0 .. MaxTime
    /\ contractNonce \in 0 .. MaxNonce
    /\ root \in Roots
    /\ next \in Nat
    /\ minOracles \in MinOracles
    /\ sent # NoTx => pc = "submit" /\ sent = update
    /\ OutboxTypeOK(Updates)

Init ==
    /\ pc = "idle" /\ votes = NoVotes /\ update = NoTx
    /\ published \in [Servers -> FirstVotes \union {NoVote}]
    /\ now = 0
    /\ contractNonce = 1 /\ root = FirstRoot /\ next = 0
    /\ minOracles \in MinOracles
    /\ OutboxInit

-----------------------------------------------------------------------------
(* Oracles, the contract and the chain                                     *)

Tick ==
    /\ now < MaxTime
    /\ now' = now + 1
    /\ UNCHANGED <<runVars, published, contractVars, outbox>>

\* An endpoint shows a later vote of its oracle, made now for the contract's
\* nonce.  Others of the same oracle may lag behind.
Publish(s) ==
    /\ \E b \in Bodies :
        published' = [published EXCEPT ![s] = [nonce |-> contractNonce, ts |-> now, body |-> b]]
    /\ published[s] # NoVote =>
         published[s].nonce < contractNonce \/ published[s].ts < now
    /\ UNCHANGED <<runVars, now, contractVars, outbox>>

\* What setRewardsRoot() accepts.
Accepted(u) ==
    /\ u.nonce = contractNonce
    /\ u.body.root # root
    /\ now >= next
    /\ Cardinality(u.signers) >= minOracles

Apply(b) ==
    /\ contractNonce < MaxNonce
    /\ contractNonce' = contractNonce + 1
    /\ root' = b.root
    /\ next' = now + Delay
    /\ UNCHANGED minOracles

Land(u) ==
    /\ Settle(u, Accepted(u))
    /\ IF Accepted(u) THEN Apply(u.body) ELSE UNCHANGED contractVars
    /\ UNCHANGED <<runVars, published, now>>

Evict == Lose /\ UNCHANGED <<runVars, published, now, contractVars>>

\* Another keeper submits an update of its own.
OtherUpdate ==
    /\ now >= next
    /\ \E b \in Bodies : b.root # root /\ Apply(b)
    /\ UNCHANGED <<runVars, published, now, outbox>>

SetMinOracles ==
    /\ minOracles' \in MinOracles
    /\ UNCHANGED <<runVars, published, now, contractNonce, root, next, outbox>>

-----------------------------------------------------------------------------
(* _fetch_distributor_reward_votes                                         *)

Vote(o, i) == published[Endpoints[o][i]]

\* Mutant of Precedes: the first endpoint wins whatever the nonce of its vote.
PrecedesByPosition(o, i, j) == i <= j

Precedes(o, i, j) ==
    \/ Vote(o, i).nonce > Vote(o, j).nonce
    \/ Vote(o, i).nonce = Vote(o, j).nonce /\ i <= j

\* _fetch_vote_from_oracle: of the endpoints that answered with a vote, those
\* with the highest nonce, and of them the first in order, whenever the votes
\* were made.
Choice(o, answered) ==
    LET heard == {i \in DOMAIN Endpoints[o] : Endpoints[o][i] \in answered}
        First(i) == \A j \in heard : Precedes(o, i, j)
    IN  IF \E i \in heard : First(i)
        THEN Vote(o, CHOOSE i \in heard : First(i))
        ELSE NoVote

Showing == {s \in Servers : published[s] # NoVote}

\* Mutant of End: what was submitted last is kept.
EndKeeping == pc' = "idle" /\ votes' = NoVotes /\ UNCHANGED update

\* The run ends; nothing it read is kept.
End == pc' = "idle" /\ votes' = NoVotes /\ update' = NoTx

GoOn(counted, await) ==
    IF counted = NoVotes
    THEN End
    ELSE pc' = await /\ votes' = counted /\ UNCHANGED update

Start ==
    /\ pc = "idle"
    /\ pc' = "fetch"
    /\ UNCHANGED <<votes, update, published, now, contractVars, outbox>>

\* An endpoint that fails, or whose vote lacks a field, counts as no answer.
FetchFrom(answered) ==
    /\ pc = "fetch"
    /\ GoOn([o \in Oracles |-> Choice(o, answered)], "nonce")
    /\ UNCHANGED <<published, now, contractVars, outbox>>

Fetch == \E answered \in SUBSET Showing : FetchFrom(answered)

-----------------------------------------------------------------------------
(* process_distributor_rewards                                             *)

VotesIn(S) == [o \in Oracles |-> IF votes[o] \in S THEN votes[o] ELSE NoVote]

ReadNonce ==
    /\ pc = "nonce"
    /\ GoOn(VotesIn({v \in Ballots : v.nonce = contractNonce}), "time")
    /\ UNCHANGED <<published, now, contractVars, outbox>>

\* Mutant of Fresh: votes made before the delay has passed count too.
FreshOrNot == Ballots

Fresh == {v \in Ballots : v.ts > next}

ReadNextTimestamp ==
    /\ pc = "time"
    /\ GoOn(VotesIn(Fresh), "quorum")
    /\ UNCHANGED <<published, now, contractVars, outbox>>

Voters(b) == {o \in Oracles : votes[o] \in Ballots /\ votes[o].body = b}

Count(b) == Cardinality(Voters(b))

\* A body with the most votes; between several, the order of the oracles in
\* the configuration decides.
Leads(b) == \A c \in Bodies : Count(c) <= Count(b)

\* The first voters for b in the order of the addresses.
FirstSigners(b) ==
    {ss \in SUBSET Voters(b) :
        /\ Cardinality(ss) = minOracles
        /\ \A o \in ss, p \in Voters(b) \ ss : o < p}

\* rewardsMinOracles() answers.  The signatures are put together only after the
\* next await, from the same votes and the same threshold.
ReadMinOracles ==
    /\ pc = "quorum"
    /\ \E b \in Bodies :
        /\ Leads(b)
        /\ IF Count(b) < minOracles
           THEN End
           ELSE /\ \E o \in Voters(b), ss \in FirstSigners(b) :
                     update' = [nonce |-> votes[o].nonce, body |-> b, signers |-> ss]
                /\ pc' = "root"
                /\ votes' = NoVotes
    /\ UNCHANGED <<published, now, contractVars, outbox>>

ReadRoot ==
    /\ pc = "root"
    /\ IF update.body.root = root
       THEN End
       ELSE pc' = "submit" /\ UNCHANGED <<votes, update>>
    /\ UNCHANGED <<published, now, contractVars, outbox>>

-----------------------------------------------------------------------------
(* _submit_distributor_rewards_vote                                        *)

\* The gas estimation of web3 simulates the call: only what the contract would
\* accept at this moment is broadcast.
Send ==
    /\ pc = "submit"
    /\ Accepted(update)
    /\ Submit(update)
    /\ UNCHANGED <<runVars, published, now, contractVars>>

\* A receipt, None when it is late or tells of a failure, or a restart: either
\* way the run is over.
CallReturns ==
    /\ sent # NoTx
    /\ CallEnds
    /\ End
    /\ UNCHANGED <<published, now, contractVars>>

\* Any await raises, set_rewards_root() returns None without sending, or the
\* process restarts.
Fail ==
    /\ pc # "idle" /\ sent = NoTx
    /\ IF pc = "submit" THEN CallFails(update, Accepted(update)) ELSE UNCHANGED outbox
    /\ End
    /\ UNCHANGED <<published, now, contractVars>>

Run == Fetch \/ ReadNonce \/ ReadNextTimestamp \/ ReadMinOracles \/ ReadRoot
          \/ Send \/ CallReturns \/ Fail

Next ==
    \/ Start \/ Run
    \/ Tick \/ OtherUpdate \/ SetMinOracles \/ Evict
    \/ \E s \in Servers : Publish(s)
    \/ \E u \in inFlight : Land(u)

Spec == Init /\ [][Next]_vars

=============================================================================
