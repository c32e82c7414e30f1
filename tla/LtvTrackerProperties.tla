------------------------ MODULE LtvTrackerProperties ------------------------
(***************************************************************************)
(* What the LTV task has to satisfy.                                       *)
(***************************************************************************)
EXTENDS LtvTracker

\* The time of a run is noted, ltv_updated_timestamp, only once every vault it
\* listed was read in turn and every changed user submitted, confirmed and
\* verified in turn; a run that is cut short, or finds no user at all, is
\* repeated (service.py:28-65).
ToHandle == IF pc = "read" THEN todo ELSE users
Abstract == INSTANCE Sweep WITH
    Items <- VaultSet \union Txs, busy <- pc # "idle", left <- ToHandle
ImplementsSweep == Abstract!SweepSpec

SendFor(v) == Send /\ Head(users).vault = v
LandFor(v) == sent # NoTx /\ sent.vault = v /\ Land(sent, TRUE)
ConfirmedFor(v) == Confirmed /\ Head(users).vault = v

\* main.py runs the task again and again, intervals pass, every await ends,
\* blocks become final.  A vault's transactions do not fail, and do not come
\* too late for the receipt, every time: an update without a receipt ends the
\* run, and the vaults behind it wait.
FairSpec ==
    /\ Spec
    /\ WF_vars(IntervalPasses) /\ WF_vars(Start) /\ WF_vars(Run) /\ WF_vars(Finalize)
    /\ \A v \in VaultSet :
         SF_vars(SendFor(v)) /\ SF_vars(LandFor(v)) /\ SF_vars(ConfirmedFor(v))

\* "Finds user having maximum LTV in given vault and submits this user in the
\* LTV Tracker contract" (service.py:26): a user that stays the one with the
\* highest LTV of its vault is tracked in the end, whatever happens to other
\* vaults and whatever other users are submitted meanwhile - unless runs are
\* cut short for ever by requests that raise or by restarts.  (A restart during
\* the wait for a receipt looks like one that does not come.)
MaxUserIsTracked ==
    \/ \A v \in VaultSet, u \in Users : ~<>[](top[v] = u /\ tracked[v] # u)
    \/ []<><<Raise>>_vars
    \/ []<><<Restart /\ pc # "idle" /\ sent = NoTx>>_vars

=============================================================================
