---------------------------- MODULE PeriodicTask ----------------------------
(***************************************************************************)
(* What the modules of the tasks assume of the process: a task is started  *)
(* from its first await, and only when its last run has ended; it may end  *)
(* at any await.                                                           *)
(***************************************************************************)
VARIABLE run    \* "ended", "begun" at its first await, or "further" on

TaskInit == run = "ended"

Begin == run = "ended" /\ run' = "begun"

GoFurther == run = "begun" /\ run' = "further"

End == run' = "ended"

TaskSpec == TaskInit /\ [][Begin \/ GoFurther \/ End]_run

=============================================================================
