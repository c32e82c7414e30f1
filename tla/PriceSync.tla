----------------------------- MODULE PriceSync -----------------------------
(***************************************************************************)
(* The price task, src/price/service.py: when the price on the target      *)
(* chain is older than an interval it pays for a sync, which a bridge      *)
(* carries there later, if at all.  The process remembers when it last had *)
(* a receipt, and does not pay again for some time.                        *)
(*                                                                         *)
(* Times are ages: how long ago something was, up to the bound from which  *)
(* on the code does not tell ages apart.                                   *)
(*                                                                         *)
(* syncing is the await at which the task stands, or how it ended:         *)
(*   latest    latestTimestamp() of the target chain                       *)
(*   quote     quoteRateSync()                                             *)
(*   submit    in transact(), waiting for a receipt when sent # NoTx       *)
(*   returned, raised                                                      *)
(***************************************************************************)
EXTENDS Outbox, Integers

CONSTANTS
    Interval,       \* PRICE_UPDATE_INTERVAL
    MaxWait,        \* PRICE_MAX_WAITING_TIME
    MaxTransit,     \* bound: syncs the bridge carries at once
    Sync            \* the transaction

\* Compared on every start of the process.
WaitIsShorter == MaxWait < Interval

ASSUME TimesAssumption == Interval \in Nat /\ MaxWait \in Nat /\ MaxTransit \in Nat
ASSUME SyncAssumption == NoTx # Sync

\* A sync on its way: how long ago it was mined, and whether the process that
\* runs now waits for its receipt or has seen it.  Of one it knows nothing of,
\* the age does not matter.
Messages == [age : 0 .. MaxWait, receipt : {"awaited", "seen", "missed"}]
Missed == [age |-> MaxWait, receipt |-> "missed"]

VARIABLES
    syncing,
    age,        \* of latestTimestamp, up to Interval
    since,      \* the time since last_price_updated_timestamp, up to MaxWait,
                \* which also stands for None: both let a sync pass
    transit     \* syncs on their way

priceVars == <<syncing, age, since, transit, outbox>>

PriceTypeOK ==
    /\ syncing \in {"latest", "quote", "submit", "returned", "raised"}
    /\ age \in 0 .. Interval
    /\ since \in 0 .. MaxWait
    /\ transit \subseteq Messages
    /\ sent # NoTx => syncing = "submit"
    /\ OutboxTypeOK({Sync})

PriceInit ==
    /\ syncing = "returned"
    /\ age = Interval /\ since = MaxWait /\ transit = {}
    /\ OutboxInit

-----------------------------------------------------------------------------
(* Time, the chain and the bridge                                          *)

Later(t, bound) == IF t < bound THEN t + 1 ELSE t

Tick ==
    /\ age' = Later(age, Interval)
    /\ since' = Later(since, MaxWait)
    /\ transit' = {[m EXCEPT !.age = Later(@, MaxWait)] : m \in transit}
    /\ UNCHANGED <<syncing, outbox>>

LandSync(ok) ==
    /\ Settle(Sync, ok)
    /\ LET m == IF sent = Sync THEN [age |-> 0, receipt |-> "awaited"] ELSE Missed
       IN  transit' = IF ok THEN transit \union {m} ELSE transit
    /\ Cardinality(transit') <= MaxTransit
    /\ UNCHANGED <<syncing, age, since>>

LoseSync ==
    /\ Lose
    /\ UNCHANGED <<syncing, age, since, transit>>

\* The price of the target chain takes the time of the delivery.
Deliver(m) ==
    /\ transit' = transit \ {m}
    /\ age' = 0
    /\ UNCHANGED <<syncing, since, outbox>>

LoseMessage(m) ==
    /\ transit' = transit \ {m}
    /\ UNCHANGED <<syncing, age, since, outbox>>

-----------------------------------------------------------------------------
(* process_layer_two_oseth_price                                           *)

CheckTimestamp ==
    /\ syncing = "latest"
    /\ syncing' = IF age < Interval \/ since < MaxWait THEN "returned" ELSE "quote"
    /\ UNCHANGED <<age, since, transit, outbox>>

Quote ==
    /\ syncing = "quote"
    /\ syncing' = "submit"
    /\ UNCHANGED <<age, since, transit, outbox>>

SendSync ==
    /\ syncing = "submit"
    /\ Submit(Sync)
    /\ UNCHANGED <<syncing, age, since, transit>>

Awaited == {m \in transit : m.receipt = "awaited"}

\* The sync the process waited for, if it has not been delivered yet, becomes
\* one whose receipt it has seen.
MarkSeen == transit' = (transit \ Awaited) \union {[m EXCEPT !.receipt = "seen"] : m \in Awaited}

\* Mutant of Confirmed: the time is not noted.
ConfirmedUnnoted ==
    /\ mined = "ok"
    /\ CallEnds
    /\ syncing' = "returned"
    /\ MarkSeen
    /\ UNCHANGED <<age, since>>

\* The time noted is that of the receipt, not that of the check.
Confirmed ==
    /\ mined = "ok"
    /\ CallEnds
    /\ syncing' = "returned"
    /\ since' = 0
    /\ MarkSeen
    /\ UNCHANGED age

\* Mutant of Unconfirmed: without a timeout only a receipt ends the wait.
UnconfirmedByReceipt ==
    /\ mined = "failed"
    /\ CallEnds
    /\ syncing' = "raised"
    /\ UNCHANGED <<age, since, transit>>

\* Late receipt or one with status 0: RuntimeError, and no time is noted.
Unconfirmed ==
    /\ sent # NoTx
    /\ CallEnds
    /\ syncing' = "raised"
    /\ transit' = IF Awaited = {} THEN transit ELSE (transit \ Awaited) \union {Missed}
    /\ UNCHANGED <<age, since>>

\* Any other call raises, or transact() returns None without sending.
PriceRaises ==
    /\ syncing \in {"latest", "quote", "submit"} /\ sent = NoTx
    /\ IF syncing = "submit" THEN CallFails(Sync, TRUE) ELSE UNCHANGED outbox
    /\ syncing' = "raised"
    /\ UNCHANGED <<age, since, transit>>

\* The process dies, and with it what it knew.
PriceForgets ==
    /\ syncing' = "returned"
    /\ since' = MaxWait
    /\ transit' = {Missed : m \in transit}
    /\ CallEnds
    /\ UNCHANGED age

PriceRun == CheckTimestamp \/ Quote \/ SendSync \/ Confirmed \/ Unconfirmed \/ PriceRaises

PriceWorld ==
    \/ Tick \/ LoseSync
    \/ \E ok \in BOOLEAN : LandSync(ok)
    \/ \E m \in transit : Deliver(m) \/ LoseMessage(m)

=============================================================================
