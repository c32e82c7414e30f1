----------------------- MODULE DistributorProperties -----------------------
(***************************************************************************)
(* What the distributor task has to satisfy.                               *)
(***************************************************************************)
EXTENDS Distributor

\* The task reads nonce, next timestamp, threshold and root in four calls while
\* others may update the contract between any two.  Its submission is refused
\* only because another update came in between or the threshold was raised:
\* as long as the nonce it read is the contract's, the root is a new one, the
\* delay has passed, and the signatures it counted are enough for the
\* threshold it counted them for (service.py:22-75).
SpoiledByOthersOnly ==
    (pc = "submit" /\ update.nonce = contractNonce /\ Cardinality(update.signers) >= minOracles)
        => Accepted(update)

\* An endpoint that lags behind by a nonce hides nothing: as soon as one endpoint
\* of an oracle answers with a vote, the oracle is counted with a vote for that
\* nonce or a later one, whatever its other endpoints answer and in whatever
\* order they are configured.  Of two votes of one nonce nothing is said: there
\* the first endpoint hides the others (service.py:100-125).
LaggardsHideNothing ==
    [][\A answered \in SUBSET Showing : FetchFrom(answered) =>
         \A o \in Oracles : \A i \in DOMAIN Endpoints[o] :
            Endpoints[o][i] \in answered =>
                votes'[o] # NoVote /\ votes'[o].nonce >= Vote(o, i).nonce]_vars

-----------------------------------------------------------------------------

\* Votes of this run that make a quorum the contract would take.
Quorum(b) ==
    b.root # root /\ Cardinality({o \in Voters(b) : votes[o] \in Fresh}) >= minOracles

FetchAll == FetchFrom(Showing)
CountNonce == ReadNonce /\ \E b \in Bodies : Quorum(b)
CountFresh == ReadNextTimestamp /\ \E b \in Bodies : Quorum(b)
CountQuorum == ReadMinOracles /\ \E b \in Bodies : Quorum(b)
SendsOn == ReadRoot /\ pc' = "submit"

\* main.py runs the task again and again and every await ends.  Now and then
\* all endpoints answer in the same run; with a quorum at hand no call fails
\* every time; a submission is sent and mined, now and then.
FairSpec ==
    /\ Spec
    /\ WF_vars(Start) /\ WF_vars(Run) /\ SF_vars(FetchAll)
    /\ SF_vars(CountNonce) /\ SF_vars(CountFresh) /\ SF_vars(CountQuorum) /\ SF_vars(SendsOn)
    /\ SF_vars(Send) /\ SF_vars(\E u \in inFlight : Land(u))

\* The first endpoint of o that shows a vote for the current nonce shows one
\* for b, made after the delay.  Endpoints before it may show older nonces,
\* those behind it anything.
Shows(o, b) ==
    \E i \in DOMAIN Endpoints[o] :
        /\ Vote(o, i) \in Fresh
        /\ Vote(o, i).nonce = contractNonce /\ Vote(o, i).body = b
        /\ \A j \in 1 .. i - 1 : Vote(o, j) # NoVote => Vote(o, j).nonce < contractNonce

\* Enough oracles, more than half of them, show one new root.
QuorumShown ==
    /\ contractNonce < MaxNonce
    /\ 2 * minOracles > Cardinality(Oracles)
    /\ \E b \in Bodies :
        b.root # root /\ Cardinality({o \in Oracles : Shows(o, b)}) >= minOracles

\* Endpoints that lag behind the others of their oracle do not keep the task
\* from finding the quorum: enough oracles do not settle on a new root for ever
\* without the contract being updated, although runs reach only some
\* endpoints, are cut short, or end without their submission being mined, and
\* other keepers interfere (service.py:22-75, 100-125).
QuorumIsSubmitted == ~<>[]QuorumShown

=============================================================================
