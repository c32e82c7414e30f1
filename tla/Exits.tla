------------------------------- MODULE Exits -------------------------------
(***************************************************************************)
(* The exits task, src/exits/service.py: it collects the shares of exit    *)
(* signatures from the oracles, leaves out validators that are exiting at  *)
(* the head it started from, and submits the others one by one, with the   *)
(* signature reconstructed from their shares.  The task counts the shares  *)
(* as they are listed; only the beacon node finds out whether a signature  *)
(* was put together from enough of them.                                   *)
(*                                                                         *)
(* exits is the await at which the task stands, or how it ended:           *)
(*   head      the head of the beacon chain                                *)
(*   shares    the oracles have been asked                                 *)
(*   status    the statuses of the validators, in batches                  *)
(*   submit    submit_voluntary_exit() for the validator turn              *)
(*   returned, raised                                                      *)
(***************************************************************************)
EXTENDS Naturals, FiniteSets

CONSTANTS
    Validators, Oracles,
    Threshold,      \* exit_signature_recover_threshold
    FirstShown,     \* the shares shown when the process starts
    MaxListed,      \* bound: how often an oracle's answer lists a validator
    Nobody

ASSUME ExitsAssumption ==
    /\ IsFiniteSet(Validators) /\ IsFiniteSet(Oracles)
    /\ Threshold \in Nat \ {0} /\ MaxListed \in Nat
    /\ FirstShown \in [Validators -> SUBSET Oracles]
    /\ Nobody \notin Validators

VARIABLES
    exits,
    exiting,    \* validators that are exiting or have exited
    shown,      \* per validator: the oracles that show a share for it
    head,       \* exiting at the head of this run
    ready,      \* validators this run will still exit
    sound,      \* those for which enough distinct oracles gave a share
    turn        \* the one of them it is submitting

exitsVars == <<exits, exiting, shown, head, ready, sound, turn>>

ExitsTypeOK ==
    /\ exits \in {"head", "shares", "status", "submit", "returned", "raised"}
    /\ exiting \subseteq Validators
    /\ shown \in [Validators -> SUBSET Oracles]
    /\ head \subseteq exiting
    /\ ready \subseteq Validators /\ sound \subseteq ready
    /\ turn \in ready \union {Nobody}
    /\ turn # Nobody <=> exits = "submit"

ExitsInit ==
    /\ exits = "returned"
    /\ exiting = {} /\ shown = FirstShown
    /\ head = {} /\ ready = {} /\ sound = {} /\ turn = Nobody

-----------------------------------------------------------------------------
(* Oracles and the beacon chain                                            *)

ShowShare(o, v) ==
    /\ o \notin shown[v]
    /\ shown' = [shown EXCEPT ![v] = @ \union {o}]
    /\ UNCHANGED <<exits, exiting, head, ready, sound, turn>>

\* It gets one of EXITING_STATUSES: another keeper submitted it, its operator
\* exits it, or an exit of ours that was accepted is included only now.  To be
\* slashed is not enough: ACTIVE_SLASHED is none of these statuses, and the
\* task submits such a validator until it has left as EXITED_SLASHED.
OtherExit(v) ==
    /\ v \notin exiting
    /\ exiting' = exiting \union {v}
    /\ UNCHANGED <<exits, shown, head, ready, sound, turn>>

-----------------------------------------------------------------------------
(* process_exits                                                           *)

\* What the run read is dropped when it is of no more use.
EndExits(how) == exits' = how /\ head' = {} /\ ready' = {} /\ sound' = {} /\ turn' = Nobody

ReadHead ==
    /\ exits = "head"
    /\ head' = exiting
    /\ exits' = "shares"
    /\ UNCHANGED <<exiting, shown, ready, sound, turn>>

\* The items of the oracles' lists; an oracle may name a validator several times.
\* Its place among the oracles is the share_index of all its items.
Items == {item \in [oracle : Oracles, validator : Validators, nth : 1 .. MaxListed] :
            item.oracle \in shown[item.validator]}

\* Every item is a share to len(), also the second one of the same oracle.
Shares(v, answer) == {item \in answer : item.validator = v}

Enough(answer) == {v \in Validators : Cardinality(Shares(v, answer)) >= Threshold}

\* The dictionary from which the signature is put together has one share of each
\* oracle.
Signers(v, answer) == {item.oracle : item \in Shares(v, answer)}

Reconstructed(answer) == {v \in Enough(answer) : Cardinality(Signers(v, answer)) >= Threshold}

\* Of an oracle, the first endpoint with a list is taken.  Oracles fail to answer,
\* or answer from an endpoint that lags behind.
Fetch(answer) ==
    /\ exits = "shares"
    /\ IF answer = {}
       THEN EndExits("returned")
       ELSE /\ exits' = "status"
            /\ ready' = Enough(answer) /\ sound' = Reconstructed(answer)
            /\ UNCHANGED <<head, turn>>
    /\ UNCHANGED <<exiting, shown>>

FetchShares == exits = "shares" /\ \E answer \in SUBSET Items : Fetch(answer)

\* The loop goes on with one of the validators left, in the order in which the
\* oracles named them; those with too few shares are skipped without an await.
Remaining(left) ==
    IF left = {}
    THEN EndExits("returned")
    ELSE /\ exits' = "submit" /\ head' = {}
         /\ ready' = left /\ turn' \in left /\ sound' = sound \intersect left

\* All batches ask for the state at the slot of the head, so that it does not
\* matter when each is read.  The loop is over what the node tells: a validator
\* it leaves out is submitted whatever its status.  One that is exiting and told
\* twice, or was not asked for, raises like a call that fails.
ReadStatuses ==
    /\ exits = "status"
    /\ \E told \in SUBSET head : Remaining(ready \ told)
    /\ UNCHANGED <<exiting, shown>>

\* The beacon node takes the exit, whose signature is the validator's only if it
\* was put together from enough shares.  The exit may still be dropped.
Accept ==
    /\ exits = "submit" /\ turn \in sound
    /\ exiting' \in {exiting, exiting \union {turn}}
    /\ Remaining(ready \ {turn})
    /\ UNCHANGED shown

\* Mutant of Reject: a refused exit ends the run.
RejectAll ==
    /\ exits = "submit"
    /\ EndExits("returned")
    /\ UNCHANGED <<exiting, shown>>

\* It refuses, with a ClientResponseError: the others are still submitted.
Reject ==
    /\ exits = "submit"
    /\ Remaining(ready \ {turn})
    /\ UNCHANGED <<exiting, shown>>

\* A call fails otherwise, or a share is no point of the curve: the run ends,
\* for the validators behind this one too.
ExitsRaise ==
    /\ exits \in {"head", "shares", "status", "submit"}
    /\ EndExits("raised")
    /\ UNCHANGED <<exiting, shown>>

ExitsForget == EndExits("returned") /\ UNCHANGED <<exiting, shown>>

ExitsRun ==
    ReadHead \/ FetchShares \/ ReadStatuses \/ Accept \/ Reject \/ ExitsRaise

ExitsWorld == \E v \in Validators : OtherExit(v) \/ \E o \in Oracles : ShowShare(o, v)

=============================================================================
