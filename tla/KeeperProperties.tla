-------------------------- MODULE KeeperProperties --------------------------
(***************************************************************************)
(* What the process with its price and exits tasks has to satisfy.         *)
(***************************************************************************)
EXTENDS Keeper

\* "check if transaction is already in progress" (price/service.py:36), as far
\* as the process can tell: while a sync whose receipt it saw is on its way,
\* and younger than PRICE_MAX_WAITING_TIME, it does not pay for another one.
\* Nothing is said of a sync whose receipt came late, or of those of the
\* process before.
NoSecondSync ==
    [][SendSync => \A m \in transit : m.receipt = "seen" => m.age = MaxWait]_vars

\* No task is started while its last run is still under way, although the tasks
\* of a round end at different times, and some of them with an exception: what
\* the modules of the single tasks take for granted (main.py:77-113).
Phase(await, first) ==
    IF await \in Ended THEN "ended" ELSE IF await = first THEN "begun" ELSE "further"
Price == INSTANCE PeriodicTask WITH run <- Phase(syncing, "latest")
Exiting == INSTANCE PeriodicTask WITH run <- Phase(exits, "head")
TasksRunAlone == Price!TaskSpec /\ Exiting!TaskSpec

-----------------------------------------------------------------------------

OfPrice(A) == UNCHANGED <<mainVars, exitsVars>> /\ A
OfExits(A) == UNCHANGED <<mainVars, priceVars>> /\ A

\* All oracles answer with what they show, each validator once.
FetchAll == Fetch({item \in Items : item.nth = 1})

Exit(v) == turn = v /\ Accept /\ v \in exiting'

\* The process is started again, every await ends and time passes; a
\* configuration is found now and then.
FairSpec ==
    /\ Spec
    /\ WF_vars(Launch) /\ WF_vars(Main) /\ SF_vars(GetConfig)
    /\ WF_vars(OfPrice(PriceRun)) /\ WF_vars(OfPrice(Tick)) /\ WF_vars(OfExits(ExitsRun))

SyncDue == age = Interval /\ since = MaxWait

\* What the two properties assume of the world each for itself, whatever
\* becomes of the other task: if runs find a sync due again and again, now and
\* then one of them sends it; and now and then a sync is mined and delivered;
SyncsGetThrough ==
    /\ []<>(syncing = "latest" /\ SyncDue) => []<><<OfPrice(SendSync)>>_vars
    /\ SF_vars(OfPrice(LandSync(TRUE)))
    /\ SF_vars(OfPrice(\E m \in transit : Deliver(m)))

\* now and then all oracles answer in one run, and the node takes the exit of v.
ExitGetsThrough(v) == SF_vars(OfExits(FetchAll)) /\ SF_vars(OfExits(Exit(v)))

\* "Update osEth price on Arbitrum chain" (README.md:10): the price is young
\* again and again, although syncs fail, are lost or come late, and however
\* the other tasks of the rounds end (price/service.py:20-69,
\* main.py:100-117) - unless the process goes down for ever.
PriceIsRefreshed == SyncsGetThrough => []<>(pc = "down") \/ []<>(age < Interval)

\* A validator for which enough oracles show a share is exited, although runs
\* reach only some oracles, other validators are refused for ever, and however
\* the other tasks end (exits/service.py:35-83) - unless the task itself
\* raises, or the process goes down, for ever.
ValidatorsExit ==
    \/ []<>(pc = "down") \/ []<>(exits = "raised")
    \/ \A v \in Validators : ExitGetsThrough(v) =>
         ~<>[](Cardinality(shown[v]) >= Threshold /\ v \notin exiting)

=============================================================================
