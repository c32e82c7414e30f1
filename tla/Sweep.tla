------------------------------- MODULE Sweep -------------------------------
(***************************************************************************)
(* What the force exits and the LTV task promise: a run lists what it has  *)
(* to look after, perhaps several times in a row, handles the items one by *)
(* one in the order of the list, and counts, so that the next one waits    *)
(* for an interval, only if it came to the end of its last list.  A run    *)
(* that is cut short anywhere stays due.                                   *)
(***************************************************************************)
EXTENDS Sequences, Naturals

CONSTANT Items

VARIABLES
    due,        \* no run has counted within the interval
    busy,       \* a run is under way
    left        \* what it still has to handle, in order

sweepVars == <<due, busy, left>>

SweepInit == due = TRUE /\ busy = FALSE /\ left = <<>>

Begin ==
    /\ ~busy /\ due
    /\ busy' = TRUE
    /\ UNCHANGED <<due, left>>

\* The next list may be made in the step that handles the last item of this one.
List ==
    /\ busy /\ Len(left) <= 1
    /\ left' \in Seq(Items) \ {<<>>}
    /\ UNCHANGED <<due, busy>>

Handle ==
    /\ busy /\ left # <<>>
    /\ left' = Tail(left)
    /\ UNCHANGED <<due, busy>>

Complete ==
    /\ busy /\ Len(left) <= 1
    /\ due' = FALSE /\ busy' = FALSE /\ left' = <<>>

\* The interval has passed, the run is cut short, or the process restarts.
FallDue == due' = TRUE /\ busy' = FALSE /\ left' = <<>>

SweepNext == Begin \/ List \/ Handle \/ Complete \/ FallDue

SweepSpec == SweepInit /\ [][SweepNext]_sweepVars

=============================================================================
