----------------------------- MODULE ForceExits -----------------------------
(***************************************************************************)
(* The force exits task, src/force_exit: at intervals it looks at the      *)
(* leverage positions at the last finalized block, claims the exited       *)
(* assets of those that came too close to liquidation, forces them into    *)
(* the exit queue, and then claims the exited assets of urgent requests.   *)
(*                                                                         *)
(* main.py never runs the task twice at once.  pc is the await at which a  *)
(* run stands:                                                             *)
(*   idle      between runs                                                *)
(*   list      looking for risky positions                                 *)
(*   check     can_force_enter_exit_queue() for the first of todo          *)
(*   claim     claim_exited_assets() for it                                *)
(*   recheck   can_force_enter_exit_queue() again                          *)
(*   force     force_enter_exit_queue()                                    *)
(*   requests  looking for urgent exit requests                            *)
(*   collect   claim_exited_assets() for the first of todo                 *)
(***************************************************************************)
EXTENDS Outbox, Sequences

CONSTANTS
    Positions,      \* leverage positions, one proxy each
    Profiles,       \* for each position, the sets of marks it may bear
    Market          \* positions whose debts and owners move by themselves

\* What a position may be marked with: Aave debt or vault debt above the
\* limit of the strategy, canForceEnterExitQueue(), and an exit request in
\* escrow whose LTV is above the limit of the escrow.
Marks == {"borrow", "vault", "forceable", "urgent"}

ASSUME PositionsAssumption == IsFiniteSet(Positions)
ASSUME ProfilesAssumption == Profiles \in [Positions -> SUBSET SUBSET Marks]
ASSUME MarketAssumption == Market \subseteq Positions

\* request: none, in the exit queue, or fully claimable.
PositionStates == [marks : SUBSET Marks, request : {"none", "waiting", "claimable"}]
Views == [Positions -> PositionStates]
Txs == [kind : {"claim", "force"}, position : Positions]

ASSUME NoTxAssumption == NoTx \notin Txs

VARIABLES
    position,   \* the positions at the latest block
    final,      \* the positions at the finalized block
    seen,       \* the positions at the block of the run
    due,        \* the interval since the last run has passed
    pc,
    todo        \* positions or requests still to be handled, in order

runVars == <<seen, due, pc, todo>>
vars == <<position, final, runVars, outbox>>

\* Between runs nothing is known.
Unseen == [p \in Positions |-> [marks |-> {}, request |-> "none"]]

TypeOK ==
    /\ position \in Views /\ final \in Views /\ seen \in Views
    /\ due \in BOOLEAN
    /\ pc \in {"idle", "list", "check", "claim", "recheck", "force", "requests", "collect"}
    /\ todo \in Seq(Positions)
    /\ todo = <<>> <=> pc \in {"idle", "list", "requests"}
    /\ sent # NoTx => pc \in {"claim", "force", "collect"}
    /\ OutboxTypeOK(Txs)

\* No position is in the exit queue yet.
Init ==
    /\ position \in {v \in Views : \A p \in Positions :
                        v[p].marks \in Profiles[p] /\ v[p].request = "none"}
    /\ final = position /\ seen = Unseen
    /\ due = TRUE
    /\ pc = "idle"
    /\ todo = <<>>
    /\ OutboxInit

-----------------------------------------------------------------------------
(* The contracts and the chain                                             *)

Finalize ==
    /\ final' = position
    /\ UNCHANGED <<position, runVars, outbox>>

\* A position has one exit request at a time.
Accepted(x) ==
    IF x.kind = "claim"
    THEN position[x.position].request = "claimable"
    ELSE /\ position[x.position].request = "none"
         /\ "forceable" \in position[x.position].marks

\* Claimed assets repay debt.  A position that enters the queue keeps its debt
\* until they are claimed.
Claimed(p) ==
    \E marks \in Profiles[p] :
        position' = [position EXCEPT ![p] = [marks |-> marks, request |-> "none"]]
Entered(p) == position' = [position EXCEPT ![p].request = "waiting"]

Land(x) ==
    /\ Settle(x, Accepted(x))
    /\ IF ~Accepted(x) THEN UNCHANGED position
       ELSE IF x.kind = "claim" THEN Claimed(x.position) ELSE Entered(x.position)
    /\ UNCHANGED <<final, runVars>>

Evict == Lose /\ UNCHANGED <<position, final, runVars>>

\* The exit queue has assets for all of the request.
Process(p) ==
    /\ position[p].request = "waiting"
    /\ position' = [position EXCEPT ![p].request = "claimable"]
    /\ UNCHANGED <<final, runVars, outbox>>

Drift(p) ==
    /\ p \in Market
    /\ \E marks \in Profiles[p] : position' = [position EXCEPT ![p].marks = marks]
    /\ UNCHANGED <<final, runVars, outbox>>

\* The owner, or another keeper, claims or enters the queue.
OtherActs(p) ==
    /\ p \in Market
    /\ \/ position[p].request = "claimable" /\ Claimed(p)
       \/ position[p].request = "none" /\ Entered(p)
    /\ UNCHANGED <<final, runVars, outbox>>

-----------------------------------------------------------------------------
(* process_force_exits, handle_leverage_positions                          *)

IntervalPasses ==
    /\ pc = "idle"
    /\ due' = TRUE
    /\ UNCHANGED <<position, final, seen, pc, todo, outbox>>

\* Mutant of Start: the time of the run is noted before it is made.
StartNoted ==
    /\ pc = "idle"
    /\ due
    /\ seen' = final
    /\ pc' = "list"
    /\ due' = FALSE
    /\ UNCHANGED <<position, final, todo, outbox>>

\* The block of the run is the finalized one; the graph node has reached it.
Start ==
    /\ pc = "idle"
    /\ due
    /\ seen' = final
    /\ pc' = "list"
    /\ UNCHANGED <<position, final, due, todo, outbox>>

\* All orders of a set; which of them the graph answers depends on the LTVs.
Orders(S) ==
    {s \in [1 .. Cardinality(S) -> S] : \A i, j \in DOMAIN s : s[i] = s[j] => i = j}

Marked(m) == {p \in Positions : m \in seen[p].marks}

\* Mutant of RiskyLists: the two lists are joined as they are.
JoinedLists ==
    UNION {{b \o v : v \in Orders(Marked("vault"))} : b \in Orders(Marked("borrow"))}

\* Positions with too much Aave debt, then those with too much vault debt that
\* are not among them.
RiskyLists ==
    UNION {{b \o v : v \in Orders(Marked("vault") \ Marked("borrow"))} :
              b \in Orders(Marked("borrow"))}

\* Mutant of ListPositions: the return for an empty list is missing.
ListWithoutReturn ==
    /\ pc = "list"
    /\ todo' \in RiskyLists
    /\ pc' = "check"
    /\ UNCHANGED <<position, final, seen, due, outbox>>

ListPositions ==
    /\ pc = "list"
    /\ todo' \in RiskyLists
    /\ pc' = IF todo' = <<>> THEN "requests" ELSE "check"
    /\ UNCHANGED <<position, final, seen, due, outbox>>

NextPosition ==
    /\ todo' = Tail(todo)
    /\ pc' = IF todo' = <<>> THEN "requests" ELSE "check"
    /\ UNCHANGED <<seen, due>>

-----------------------------------------------------------------------------
(* handle_leverage_position                                                *)

\* can_force_enter_exit_queue(), simulated at the block of the run.
CanForce(p) == "forceable" \in seen[p].marks

\* Mutant of AfterCheck: exited assets are not claimed first.
AfterCheckUnclaimed(p) == "recheck"

AfterCheck(p) == IF seen[p].request = "claimable" THEN "claim" ELSE "recheck"

Check ==
    /\ pc = "check"
    /\ IF CanForce(Head(todo))
       THEN pc' = AfterCheck(Head(todo)) /\ UNCHANGED <<seen, due, todo>>
       ELSE NextPosition
    /\ UNCHANGED <<position, final, outbox>>

Recheck ==
    /\ pc = "recheck"
    /\ IF CanForce(Head(todo))
       THEN pc' = "force" /\ UNCHANGED <<seen, due, todo>>
       ELSE NextPosition
    /\ UNCHANGED <<position, final, outbox>>

-----------------------------------------------------------------------------
(* handle_ostoken_exit_requests                                            *)

\* Mutant of UrgentLists: requests that are not urgent are taken instead.
LeisureLists ==
    Orders({p \in Positions \ Marked("urgent") : seen[p].request = "claimable"})

UrgentLists == Orders({p \in Marked("urgent") : seen[p].request = "claimable"})

\* The run is through: only now is its time noted.
Finish == pc' = "idle" /\ due' = FALSE /\ seen' = Unseen

ListRequests ==
    /\ pc = "requests"
    /\ todo' \in UrgentLists
    /\ IF todo' = <<>> THEN Finish ELSE pc' = "collect" /\ UNCHANGED <<seen, due>>
    /\ UNCHANGED <<position, final, outbox>>

NextRequest ==
    /\ todo' = Tail(todo)
    /\ IF todo' = <<>> THEN Finish ELSE UNCHANGED <<seen, due, pc>>

-----------------------------------------------------------------------------
(* claim_exited_assets, force_enter_exit_queue                             *)

Sending == {"claim", "force", "collect"}

Call == [kind |-> IF pc = "force" THEN "force" ELSE "claim", position |-> Head(todo)]

\* Only what the contracts accept at this moment passes the gas estimation.
Send ==
    /\ pc \in Sending
    /\ Accepted(Call)
    /\ Submit(Call)
    /\ UNCHANGED <<position, final, runVars>>

\* Mutant of GoOn: a transaction that fails ends the run.
GoOnOrStop(ok) ==
    CASE ok /\ pc = "claim" -> pc' = "recheck" /\ UNCHANGED <<seen, due, todo>>
      [] ok /\ pc = "force" -> NextPosition
      [] ok /\ pc = "collect" -> NextRequest
      [] ~ok -> pc' = "idle" /\ todo' = <<>> /\ seen' = Unseen /\ UNCHANGED due

\* Where the run goes on after a transaction.
GoOn(ok) ==
    CASE pc = "claim" /\ ok -> pc' = "recheck" /\ UNCHANGED <<seen, due, todo>>
      [] pc = "claim" /\ ~ok -> NextPosition
      [] pc = "force" -> NextPosition
      [] pc = "collect" -> NextRequest

Confirmed ==
    /\ mined = "ok"
    /\ CallEnds
    /\ GoOn(TRUE)
    /\ UNCHANGED <<position, final>>

\* Reverted, timed out, or an exception from transact(), which is caught.
Unconfirmed ==
    /\ sent # NoTx
    /\ CallEnds
    /\ GoOn(FALSE)
    /\ UNCHANGED <<position, final>>

\* transact() raises, or returns None, before there is a receipt to wait for.
NotSent ==
    /\ pc \in Sending
    /\ CallFails(Call, Accepted(Call))
    /\ GoOn(FALSE)
    /\ UNCHANGED <<position, final>>

-----------------------------------------------------------------------------

\* Any other await raises: a request to the graph or to the node, a graph node
\* that is behind, the simulation of the harvest, the search for the owner of a
\* request.  The exception ends the run, which remains due.
Raise ==
    /\ pc # "idle" /\ sent = NoTx
    /\ pc' = "idle"
    /\ todo' = <<>>
    /\ seen' = Unseen
    /\ UNCHANGED <<position, final, due, outbox>>

Restart ==
    /\ due' = TRUE
    /\ pc' = "idle"
    /\ todo' = <<>>
    /\ seen' = Unseen
    /\ CallEnds
    /\ UNCHANGED <<position, final>>

Run ==
    \/ ListPositions \/ Check \/ Recheck \/ ListRequests
    \/ Send \/ Confirmed \/ Unconfirmed \/ NotSent \/ Raise

Next ==
    \/ IntervalPasses \/ Start \/ Run \/ Restart
    \/ Finalize \/ Evict
    \/ \E x \in inFlight : Land(x)
    \/ \E p \in Positions : Process(p) \/ Drift(p) \/ OtherActs(p)

Spec == Init /\ [][Next]_vars

=============================================================================
