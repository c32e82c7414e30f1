------------------------------ MODULE Rewards ------------------------------
(***************************************************************************)
(* The rewards task, src/rewards/service.py: it collects the votes of the  *)
(* oracles, keeps them in a cache between runs, and submits the earliest   *)
(* update that enough oracles signed.                                      *)
(*                                                                         *)
(* Around it: oracles whose endpoints publish votes at their own pace, the *)
(* Keeper contract, other keepers that submit to the same contract, and    *)
(* the transaction manager, seen as the module Outbox.                     *)
(*                                                                         *)
(* main.py never runs the task twice at once.  pc is the await at which a  *)
(* run stands:                                                             *)
(*   idle    between runs                                                  *)
(*   fetch   the oracles' endpoints have been asked                        *)
(*   nonce   rewardsNonce()                                                *)
(*   submit  in update_rewards(); sent tells whether it was broadcast      *)
(***************************************************************************)
EXTENDS Outbox, Integers

CONSTANTS
    Oracles,            \* the oracles' addresses, as numbers
    Servers,            \* their endpoints
    OracleOf,           \* the oracle each endpoint belongs to
    Bodies,             \* what can be voted for: records with a ts and a root
    Signatures,         \* the bytes an endpoint gives as its oracle's signature
    SignaturesOf,       \* those each endpoint may give
    Genuine,            \* those from which the contract recovers the oracle
    Threshold,          \* rewards_threshold
    CacheSize,          \* DEFAULT_CACHE_SIZE
    OtherKeepers,       \* whether other keepers submit too
    MaxNonce,           \* bound: rewards updates of the contract
    NoVote

ASSUME OraclesAssumption ==
    Oracles \subseteq Nat /\ IsFiniteSet(Oracles) /\ OracleOf \in [Servers -> Oracles]
ASSUME BodiesAssumption == IsFiniteSet(Bodies) /\ \A b \in Bodies : b.ts \in Nat
ASSUME SignaturesAssumption ==
    /\ Genuine \subseteq Signatures
    /\ SignaturesOf \in [Servers -> SUBSET Signatures]
ASSUME SizesAssumption ==
    /\ Threshold \in Nat \ {0} /\ CacheSize \in Nat \ {0}
    /\ MaxNonce \in Nat
    /\ OtherKeepers \in BOOLEAN

Ballots == [nonce : 0 .. MaxNonce, body : Bodies, sig : Signatures]

\* The cache compares whole votes, so a set of them is the list it keeps; the
\* same oracle, nonce and body with another signature is another vote.
Votes == [oracle : Oracles, nonce : 0 .. MaxNonce, body : Bodies, sig : Signatures]

\* A transaction is the set of votes whose signatures it submits.
Submissions == (SUBSET Votes) \ {{}}

ASSUME NoVoteAssumption == NoVote \notin Ballots
ASSUME NoTxAssumption == NoTx = {}

VARIABLES
    pc,
    votes,          \* the votes fetched in this run
    cache,          \* RewardsCache, the votes of all timestamps together
    submission,     \* the votes whose signatures are being submitted
    outcome,        \* how the last submission of the process ended, if any
    published,      \* the vote each endpoint shows
    contractNonce,  \* rewardsNonce
    lastTs,         \* timestamp of the last accepted update
    canUpdate       \* canUpdateRewards

taskVars == <<pc, votes, cache, submission, outcome>>
contractVars == <<contractNonce, lastTs, canUpdate>>
vars == <<taskVars, published, contractVars, outbox>>

Timestamps(vs) == {v.body.ts : v \in vs}

TypeOK ==
    /\ pc \in {"idle", "fetch", "nonce", "submit"}
    /\ votes \subseteq Votes
    /\ cache \subseteq Votes /\ Cardinality(Timestamps(cache)) <= CacheSize
    /\ submission \in Submissions \union {NoTx}
    /\ submission # NoTx <=> pc = "submit"
    /\ outcome \in {"returned", "raised"}
    /\ published \in [Servers -> Ballots \union {NoVote}]
    /\ contractNonce \in 0 .. MaxNonce
    /\ lastTs \in Nat
    /\ canUpdate \in BOOLEAN
    /\ OutboxTypeOK(Submissions)
    /\ sent # NoTx => pc = "submit" /\ sent = submission

Init ==
    /\ pc = "idle"
    /\ votes = {} /\ cache = {} /\ submission = NoTx
    /\ outcome = "returned"
    /\ published = [s \in Servers |-> NoVote]
    /\ contractNonce = 0 /\ lastTs = 0 /\ canUpdate = TRUE
    /\ OutboxInit

-----------------------------------------------------------------------------
(* Oracles, the contract and the chain                                     *)

Newer(b, c) == b.nonce > c.nonce \/ (b.nonce = c.nonce /\ b.body.ts > c.body.ts)

\* An endpoint shows a later vote of its oracle, for a nonce that is or was
\* the contract's.  Votes for the current nonce are later than its last update.
\* Nobody but the contract looks at the signature that comes with a vote.
Publish(s) ==
    /\ \E b \in Ballots :
        /\ b.sig \in SignaturesOf[s]
        /\ b.nonce <= contractNonce
        /\ b.nonce = contractNonce => b.body.ts > lastTs
        /\ published[s] # NoVote => Newer(b, published[s])
        /\ published' = [published EXCEPT ![s] = b]
    /\ UNCHANGED <<taskVars, contractVars, outbox>>

\* What updateRewards() accepts: genuine signatures of enough distinct oracles
\* over one body and the contract's nonce.
Accepted(sub) ==
    /\ canUpdate
    /\ \A v \in sub : v.nonce = contractNonce
    /\ \A v, w \in sub : v.body = w.body
    /\ \A v \in sub : v.sig \in Genuine
    /\ Cardinality({v.oracle : v \in sub}) >= Threshold

Apply(ts) ==
    /\ contractNonce < MaxNonce
    /\ contractNonce' = contractNonce + 1
    /\ lastTs' = ts
    /\ canUpdate' = FALSE

\* One of our transactions is mined.
Land ==
    /\ \E sub \in inFlight :
        /\ Settle(sub, Accepted(sub))
        /\ IF Accepted(sub)
           THEN \E v \in sub : Apply(v.body.ts)
           ELSE UNCHANGED contractVars
    /\ UNCHANGED <<taskVars, published>>

Evict == Lose /\ UNCHANGED <<taskVars, published, contractVars>>

\* Another keeper submits an update of its own.
OtherUpdate ==
    /\ OtherKeepers
    /\ canUpdate
    /\ \E b \in Bodies : b.ts > lastTs /\ Apply(b.ts)
    /\ UNCHANGED <<taskVars, published, outbox>>

DelayPasses ==
    /\ ~canUpdate
    /\ canUpdate' = TRUE
    /\ UNCHANGED <<taskVars, published, contractNonce, lastTs, outbox>>

-----------------------------------------------------------------------------
(* Collecting votes                                                        *)

Start ==
    /\ pc = "idle"
    /\ canUpdate
    /\ pc' = "fetch"
    /\ UNCHANGED <<votes, cache, submission, outcome, published, contractVars, outbox>>

\* _fetch_vote_from_oracle: of the endpoints that answered, the highest nonce
\* and then the latest timestamp.
Choice(o, answered) ==
    {[oracle |-> o, nonce |-> published[s].nonce, body |-> published[s].body,
      sig |-> published[s].sig] :
        s \in {s \in answered :
                /\ OracleOf[s] = o
                /\ \A r \in answered :
                     OracleOf[r] = o => ~Newer(published[r], published[s])}}

\* Some endpoints answer.  Each oracle with an answer gives one vote; oracles are
\* asked concurrently, but what one answers does not depend on the others.
Fetch ==
    /\ pc = "fetch"
    /\ \E answered \in SUBSET {s \in Servers : published[s] # NoVote} :
        /\ votes' \in {chosen \in SUBSET UNION {Choice(o, answered) : o \in Oracles} :
               \A o \in Oracles : Choice(o, answered) # {} =>
                   Cardinality({v \in chosen : v.oracle = o}) = 1}
        /\ pc' = IF answered = {} THEN "idle" ELSE "nonce"
    /\ UNCHANGED <<cache, submission, outcome, published, contractVars, outbox>>

-----------------------------------------------------------------------------
(* RewardsCache.update and _find_earliest_winner                           *)

\* Mutant of Evicted: one timestamp too many is kept.
EvictedLate(vs) ==
    {v \in vs : Cardinality({ts \in Timestamps(vs) : ts > v.body.ts}) <= CacheSize}

\* Mutant of Evicted: the youngest timestamps go first.
EvictedYoungest(vs) ==
    {v \in vs : Cardinality({ts \in Timestamps(vs) : ts <= v.body.ts}) <= CacheSize}

\* Votes of the oldest timestamps go until CacheSize timestamps are left.
Evicted(vs) ==
    {v \in vs : Cardinality({ts \in Timestamps(vs) : ts >= v.body.ts}) <= CacheSize}

\* Mutant of Updated: the cache is replaced instead of extended.
Replaced(new) == Evicted(new)

Updated(new) == Evicted(cache \union new)

\* Votes are counted, not the oracles that gave them.
Count(vs, b) == Cardinality({v \in vs : v.body = b})

HasQuorum(vs) == \E b \in Bodies : Count(vs, b) >= Threshold

\* Of the earliest timestamp with a quorum, a body with the most votes.
Winners(vs) ==
    {b \in Bodies :
        /\ Count(vs, b) >= Threshold
        /\ \A c \in Bodies :
            /\ c.ts < b.ts => Count(vs, c) < Threshold
            /\ c.ts = b.ts => Count(vs, c) <= Count(vs, b)}

\* Mutant of Signers: the loop stops one signature early.
SignersStopEarly(vs, b) ==
    LET all == {v \in vs : v.body = b}
    IN  {ss \in SUBSET all :
            /\ Cardinality(ss) = Threshold - 1
            /\ \A v \in ss, w \in all \ ss : v.oracle <= w.oracle}

\* The first Threshold votes for b in the order of the oracles' addresses.
Signers(vs, b) ==
    LET all == {v \in vs : v.body = b}
    IN  {ss \in SUBSET all :
            /\ Cardinality(ss) = Threshold
            /\ \A v \in ss, w \in all \ ss : v.oracle <= w.oracle}

\* rewardsNonce() answers; the rest up to update_rewards() runs without await.
ReadNonce ==
    LET current == {v \in votes : v.nonce = contractNonce}
    IN  /\ pc = "nonce"
        /\ votes' = {}
        /\ \/ /\ current = {}
              /\ pc' = "idle"
              /\ UNCHANGED <<cache, submission>>
           \/ /\ current # {}
              /\ cache' = Updated(current)
              /\ ~HasQuorum(cache')
              /\ pc' = "idle"
              /\ UNCHANGED submission
           \/ /\ current # {}
              /\ cache' = Updated(current)
              /\ \E b \in Winners(cache') : submission' \in Signers(cache', b)
              /\ pc' = "submit"
        /\ UNCHANGED <<outcome, published, contractVars, outbox>>

\* A call before the submission fails: gather() in main.py keeps the exception.
Abort ==
    /\ pc \in {"fetch", "nonce"}
    /\ pc' = "idle"
    /\ votes' = {}
    /\ UNCHANGED <<cache, submission, outcome, published, contractVars, outbox>>

-----------------------------------------------------------------------------
(* _submit_vote                                                            *)

\* The gas estimation of web3 simulates the call, so that only a submission
\* the contract accepts at this moment is broadcast.
Send ==
    /\ pc = "submit"
    /\ Accepted(submission)
    /\ Submit(submission)
    /\ UNCHANGED <<taskVars, published, contractVars>>

\* Mutant of Return: the cache is cleared after a receipt only.
ReturnKeeping ==
    /\ CallEnds
    /\ pc' = "idle"
    /\ outcome' = "returned"
    /\ cache' = IF mined = "ok" THEN {} ELSE cache
    /\ submission' = NoTx
    /\ UNCHANGED <<votes, published, contractVars>>

\* update_rewards() returns, with a receipt or None; the cache is cleared.
Return ==
    /\ CallEnds
    /\ pc' = "idle"
    /\ outcome' = "returned"
    /\ cache' = {}
    /\ submission' = NoTx
    /\ UNCHANGED <<votes, published, contractVars>>

NotSent ==
    /\ pc = "submit" /\ sent = NoTx
    /\ Return

Confirmed ==
    /\ mined = "ok"
    /\ Return

RevertedOrTimedOut ==
    /\ sent # NoTx
    /\ Return

\* update_rewards() raises: the simulated call reverts, the node is out of
\* reach, its answer is lost.  The line that clears the cache is not reached.
Raise ==
    /\ pc = "submit"
    /\ IF sent = NoTx THEN CallFails(submission, Accepted(submission)) ELSE CallEnds
    /\ pc' = "idle"
    /\ outcome' = "raised"
    /\ submission' = NoTx
    /\ UNCHANGED <<votes, cache, published, contractVars>>

Restart ==
    /\ CallEnds
    /\ pc' = "idle"
    /\ votes' = {} /\ cache' = {} /\ submission' = NoTx
    /\ outcome' = "returned"
    /\ UNCHANGED <<published, contractVars>>

-----------------------------------------------------------------------------

Run == Fetch \/ ReadNonce \/ Abort \/ Send \/ NotSent \/ Confirmed
          \/ RevertedOrTimedOut \/ Raise

Next ==
    \/ Start \/ Run \/ Restart
    \/ \E s \in Servers : Publish(s)
    \/ Land \/ Evict \/ OtherUpdate \/ DelayPasses

Spec == Init /\ [][Next]_vars

=============================================================================
