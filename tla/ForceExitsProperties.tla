------------------------ MODULE ForceExitsProperties ------------------------
(***************************************************************************)
(* What the force exits task has to satisfy.                               *)
(***************************************************************************)
EXTENDS ForceExits

\* A list never holds a position twice, although positions are looked up by
\* both of their debts: nothing is claimed or forced twice from one answer
\* (service.py:153-160).
HandledOnce ==
    \A i, j \in DOMAIN todo : todo[i] = todo[j] => i = j

\* "recheck because position state has changed after claiming assets"
\* (service.py:228): when the recheck after a claim passes, the contract still
\* lets the position be forced, unless something else changed it.
RecheckSeesClaim ==
    [][(pc = "recheck" /\ pc' = "force" /\ seen[Head(todo)].request = "claimable")
        => "forceable" \in position[Head(todo)].marks]_vars

\* The time of a run is noted, force_exits_updated_timestamp, only once every
\* position and request it listed was looked at in turn, whatever failed for
\* some of them; a run that is cut short is repeated (service.py:44-63).
Abstract == INSTANCE Sweep WITH Items <- Positions, busy <- pc # "idle", left <- todo
ImplementsSweep == Abstract!SweepSpec

-----------------------------------------------------------------------------

SendFor(p) == Send /\ Head(todo) = p
LandFor(p) == \E x \in inFlight : x.position = p /\ Land(x)

\* main.py runs the task again and again, intervals pass, every await ends,
\* blocks become final; a position's transactions do not fail every time.
FairSpec ==
    /\ Spec
    /\ WF_vars(IntervalPasses) /\ WF_vars(Start) /\ WF_vars(Run) /\ WF_vars(Finalize)
    /\ \A p \in Positions : SF_vars(SendFor(p)) /\ SF_vars(LandFor(p))

Risky(p) ==
    /\ {"borrow", "vault"} \intersect position[p].marks # {}
    /\ "forceable" \in position[p].marks
    /\ position[p].request # "waiting"

\* "Monitor leverage positions and trigger exits/claims for those that approach
\* the liquidation threshold" (service.py:41): no position stays risky and out
\* of the exit queue for ever, whatever happens to those in front of it - unless
\* requests raise for ever, or the process restarts for ever.
RiskyIsForced ==
    \/ \A p \in Positions : ~<>[]Risky(p)
    \/ []<><<Raise>>_vars
    \/ []<><<Restart /\ pc # "idle">>_vars

\* The same for exit requests: one that is urgent and claimable is claimed, even
\* if the position is not risky any more (service.py:89-121).
UrgentIsClaimed ==
    \/ \A p \in Positions :
         ~<>[]("urgent" \in position[p].marks /\ position[p].request = "claimable")
    \/ []<><<Raise>>_vars
    \/ []<><<Restart /\ pc # "idle">>_vars

=============================================================================
