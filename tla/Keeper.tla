------------------------------- MODULE Keeper -------------------------------
(***************************************************************************)
(* The process, src/main.py with src/common/startup_check.py: it checks    *)
(* what it depends on, then runs round after round.  In a round it looks   *)
(* up the protocol configuration and runs all tasks at once, and waits for *)
(* all of them.                                                            *)
(*                                                                         *)
(* The price and the exits task are those of PriceSync and Exits; others   *)
(* stands for the tasks that have modules of their own, however they end.  *)
(*                                                                         *)
(* pc is the check at which the process starts up, or                      *)
(*   config    get_protocol_config()                                       *)
(*   round     the tasks are running                                       *)
(*   balance   get_keeper_balance()                                        *)
(*   sleep     between rounds                                              *)
(*   down      the process has ended                                       *)
(***************************************************************************)
EXTENDS PriceSync, Exits, Sequences

\* startup_checks(), in order.
Checks == <<"check balance", "check consensus", "check execution", "check l2",
            "check graph", "check ipfs", "check oracles">>

VARIABLES pc, others

mainVars == <<pc, others>>
vars == <<mainVars, priceVars, exitsVars>>

Ended == {"returned", "raised"}

TasksEnded == {syncing, exits, others} \subseteq Ended

\* Outside a round no task is under way.
TypeOK ==
    /\ pc \in {Checks[i] : i \in DOMAIN Checks}
              \union {"config", "round", "balance", "sleep", "down"}
    /\ others \in {"running", "returned"}
    /\ pc # "round" => TasksEnded
    /\ PriceTypeOK
    /\ ExitsTypeOK

Init == pc = "down" /\ others = "returned" /\ PriceInit /\ ExitsInit

-----------------------------------------------------------------------------
(* Starting up                                                             *)

Launch ==
    /\ pc = "down"
    /\ pc' = Checks[1]
    /\ UNCHANGED <<others, priceVars, exitsVars>>

\* One check passes.  Those of the consensus, execution and ipfs nodes go on
\* until one node of their list is ready; the one of the graph node raises as
\* long as that has not reached the finalized block; those of the balance and
\* of the oracles only warn, unless a call of theirs raises.
CheckPasses ==
    /\ \E i \in DOMAIN Checks :
        /\ pc = Checks[i]
        /\ pc = "check l2" => WaitIsShorter
        /\ pc' = IF i = Len(Checks) THEN "config" ELSE Checks[i + 1]
    /\ UNCHANGED <<others, priceVars, exitsVars>>

\* A check raises, the process is interrupted, or it is killed, whatever it is
\* doing.
GoDown ==
    /\ pc # "down"
    /\ pc' = "down"
    /\ others' = "returned"
    /\ PriceForgets
    /\ ExitsForget

-----------------------------------------------------------------------------
(* start_keeper                                                            *)

\* gather() starts all tasks.
GetConfig ==
    /\ pc = "config"
    /\ pc' = "round"
    /\ others' = "running" /\ syncing' = "latest" /\ exits' = "head"
    /\ UNCHANGED <<age, since, transit, outbox, exiting, shown, head, ready, sound, turn>>

\* It raises, or there are no oracles.
NoConfig ==
    /\ pc = "config"
    /\ pc' = "sleep"
    /\ UNCHANGED <<others, priceVars, exitsVars>>

OthersEnd ==
    /\ others = "running"
    /\ others' = "returned"
    /\ UNCHANGED <<pc, priceVars, exitsVars>>

\* Mutant of RoundOver: gather() without return_exceptions does not wait for
\* the other tasks when one raises.
RoundOverOnRaise == TasksEnded \/ "raised" \in {syncing, exits}

\* gather() keeps the exceptions and waits for all tasks.
RoundOver == TasksEnded

EndRound ==
    /\ pc = "round"
    /\ RoundOver
    /\ pc' = "balance"
    /\ UNCHANGED <<others, priceVars, exitsVars>>

\* The balance is read for the metrics; if that fails the round ends all the same.
ReadBalance ==
    /\ pc = "balance"
    /\ pc' = "sleep"
    /\ UNCHANGED <<others, priceVars, exitsVars>>

NextRound ==
    /\ pc = "sleep"
    /\ pc' = "config"
    /\ UNCHANGED <<others, priceVars, exitsVars>>

Main == CheckPasses \/ GetConfig \/ NoConfig \/ OthersEnd \/ EndRound \/ ReadBalance \/ NextRound

Next ==
    \/ Launch \/ Main \/ GoDown
    \/ (PriceRun \/ PriceWorld) /\ UNCHANGED <<mainVars, exitsVars>>
    \/ (ExitsRun \/ ExitsWorld) /\ UNCHANGED <<mainVars, priceVars>>

Spec == Init /\ [][Next]_vars

=============================================================================
