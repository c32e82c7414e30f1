------------------------- MODULE RewardsProperties -------------------------
(***************************************************************************)
(* What the rewards task has to satisfy.                                   *)
(***************************************************************************)
EXTENDS Rewards

\* Between submissions the cache holds no quorum, of whatever nonce, unless
\* the last submission ended by an exception: what a quorum signed is tried
\* at once and then cleared, so it cannot block later, younger quorums
\* (service.py:77-107).
LeftoverQuorumMeansRaise ==
    (pc \in {"idle", "fetch", "nonce"} /\ HasQuorum(cache)) => outcome = "raised"

\* Cached votes are forgotten only when a submission has ended or the process
\* restarts, or one by one from the oldest timestamp when CacheSize younger
\* ones are kept: no fetch, failure or younger vote displaces them otherwise
\* (service.py:37-47, 107).
NoVoteForgotten ==
    [][\A v \in cache \ cache' :
        \/ pc = "submit"
        \/ Restart
        \/ Cardinality({ts \in Timestamps(cache') : ts > v.body.ts}) >= CacheSize]_vars

\* "Keeper validates votes, concat them and submit transaction into the
\* contract" (README.md:23): the votes a run submits are votes for the nonce
\* it has just read, the only ones it lets into the cache (service.py:67-68).
SubmitsCurrentVotes ==
    [][pc' = "submit" /\ pc # "submit"
        => \A v \in submission' : v.nonce = contractNonce]_vars

\* When the contract refuses a submission although it may be updated, at least
\* one of three things happened: a vote of another nonce was still in the cache,
\* an oracle was counted twice with two signatures of the same vote, or a
\* signature is not genuine.  Counting, choosing and cutting the votes, over
\* several runs and several endpoints of an oracle, add no other cause
\* (service.py:37-43, 77-106).
RefusalHasCause ==
    (pc = "submit" /\ canUpdate /\ ~Accepted(submission)) =>
        \/ \E v \in submission : v.nonce # contractNonce
        \/ \E v, w \in submission : v.oracle = w.oracle /\ v.sig # w.sig
        \/ \E v \in submission : v.sig \notin Genuine

-----------------------------------------------------------------------------

AnswerFrom(o) == Fetch /\ \E v \in votes' : v.oracle = o
CollectFrom(o) == ReadNonce /\ \E v \in votes : v.oracle = o

\* main.py runs the task again and again and every await ends.  Each oracle is
\* reached in infinitely many runs, not in the same ones; sending and mining
\* do not fail every time they are possible.
FairSpec ==
    /\ Spec
    /\ WF_vars(Start) /\ WF_vars(Run) /\ WF_vars(DelayPasses)
    /\ \A o \in Oracles : SF_vars(AnswerFrom(o)) /\ SF_vars(CollectFrom(o))
    /\ SF_vars(Send) /\ SF_vars(Land)

\* What the endpoints of an oracle show.
Shown(o) == {published[s] : s \in {s \in Servers : OracleOf[s] = o}} \ {NoVote}

\* Enough oracles show, on every endpoint that shows anything, one vote for the
\* current nonce with one signature; and no endpoint shows a signature that the
\* contract would refuse, or another than its oracle's other endpoints for the
\* same vote.
QuorumShown ==
    /\ contractNonce < MaxNonce
    /\ \E b \in Bodies :
        Cardinality({o \in Oracles : \E sig \in Signatures :
            Shown(o) = {[nonce |-> contractNonce, body |-> b, sig |-> sig]}})
            >= Threshold
    /\ \A o \in Oracles : \A c \in Shown(o) :
        /\ c.sig \in Genuine
        /\ \A d \in Shown(o) : (c.nonce = d.nonce /\ c.body = d.body) => c.sig = d.sig

\* "Storing votes in the cache makes it easier to catch up": once enough
\* oracles settle on a vote the contract is updated, even if no run ever
\* reaches enough of them at once and submissions time out, are lost or come
\* to nothing - unless the process restarts and loses its cache for ever, or
\* update_rewards() raises for ever (service.py:27-31, 58-107).
QuorumIsSubmitted ==
    \/ ~<>[]QuorumShown
    \/ []<><<Restart /\ cache # {}>>_vars
    \/ []<><<Raise>>_vars

=============================================================================
