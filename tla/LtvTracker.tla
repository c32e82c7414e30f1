----------------------------- MODULE LtvTracker -----------------------------
(***************************************************************************)
(* The LTV task, src/ltv: at intervals it finds the user with the highest  *)
(* LTV of each osToken vault at the last finalized block, and submits the  *)
(* users that changed to the VaultUserLtvTracker contract.                 *)
(*                                                                         *)
(* pc is the await at which a run stands:                                  *)
(*   idle     between runs                                                 *)
(*   vaults   looking for the osToken vaults                               *)
(*   read     asking for the users of the first vault of todo              *)
(*   update   update_vault_max_ltv_user() for the first of users           *)
(*   verify   reading its LTV once that is confirmed                       *)
(***************************************************************************)
EXTENDS Outbox, Sequences

CONSTANTS
    Vaults,         \* the osToken vaults, in the order the graph lists them
    Users, NoUser

VaultSet == {Vaults[i] : i \in DOMAIN Vaults}
Tops == [VaultSet -> Users \union {NoUser}]
Txs == [vault : VaultSet, user : Users]

ASSUME VaultsAssumption == Vaults \in Seq(VaultSet)
ASSUME NoUserAssumption == NoUser \notin Users
ASSUME NoTxAssumption == NoTx \notin Txs

VARIABLES
    top,        \* per vault: the user with the highest LTV, if it has users
    final,      \* the same at the finalized block
    tracked,    \* per vault: vaultToUser of the contract
    seen,       \* per vault: the user with the highest LTV at the run's block
    due,        \* the interval since the last complete run has passed
    pc,
    todo,       \* vaults still to be read
    found,      \* whether some vault read so far has users
    users       \* the changed users, still to be submitted

runVars == <<seen, due, pc, todo, found, users>>
vars == <<top, final, tracked, runVars, outbox>>

TypeOK ==
    /\ top \in Tops /\ final \in Tops /\ tracked \in Tops /\ seen \in Tops
    /\ due \in BOOLEAN /\ found \in BOOLEAN
    /\ pc \in {"idle", "vaults", "read", "update", "verify"}
    /\ todo \in Seq(VaultSet) /\ users \in Seq(Txs)
    /\ todo # <<>> <=> pc = "read"
    /\ pc \in {"update", "verify"} => users # <<>>
    /\ sent # NoTx => pc = "update"
    /\ OutboxTypeOK(Txs)

Nobody == [v \in VaultSet |-> NoUser]

Init ==
    /\ top \in Tops /\ final = top
    /\ tracked = Nobody /\ seen = Nobody
    /\ due = TRUE /\ found = FALSE
    /\ pc = "idle" /\ todo = <<>> /\ users = <<>>
    /\ OutboxInit

-----------------------------------------------------------------------------
(* The vaults, the contract and the chain                                  *)

Overtake(v) ==
    /\ \E u \in Users : top' = [top EXCEPT ![v] = u]
    /\ UNCHANGED <<final, tracked, runVars, outbox>>

Finalize ==
    /\ final' = top
    /\ UNCHANGED <<top, tracked, runVars, outbox>>

\* The contract takes a user over if its LTV is above that of the tracked one.
Track(v, u) ==
    \/ u = top[v] /\ tracked' = [tracked EXCEPT ![v] = u]
    \/ u # top[v] /\ tracked[v] # top[v] /\ tracked' = [tracked EXCEPT ![v] = u]
    \/ u # top[v] /\ UNCHANGED tracked

\* A transaction fails if the vault's rewards changed since it was sent.
Land(x, ok) ==
    /\ Settle(x, ok)
    /\ IF ok THEN Track(x.vault, x.user) ELSE UNCHANGED tracked
    /\ UNCHANGED <<top, final, runVars>>

Evict == Lose /\ UNCHANGED <<top, final, tracked, runVars>>

\* Anyone may submit.
OtherUpdate(v) ==
    /\ \E u \in Users : Track(v, u)
    /\ UNCHANGED <<top, final, runVars, outbox>>

-----------------------------------------------------------------------------
(* process_vault_max_ltv_user                                              *)

IntervalPasses ==
    /\ pc = "idle"
    /\ due' = TRUE
    /\ UNCHANGED <<top, final, tracked, seen, pc, todo, found, users, outbox>>

\* The run ends; what it read is forgotten.
End ==
    /\ pc' = "idle" /\ todo' = <<>> /\ users' = <<>>
    /\ seen' = Nobody /\ found' = FALSE

\* The block of the run is the finalized one; the graph node has reached it.
Start ==
    /\ pc = "idle"
    /\ due
    /\ seen' = final
    /\ pc' = "vaults"
    /\ UNCHANGED <<top, final, tracked, due, todo, found, users, outbox>>

\* Without vaults the time of the run is not noted.
ListVaults ==
    /\ pc = "vaults"
    /\ IF Vaults = <<>>
       THEN End
       ELSE /\ pc' = "read" /\ todo' = Vaults
            /\ UNCHANGED <<seen, found, users>>
    /\ UNCHANGED <<top, final, tracked, due, outbox>>

\* Mutant of Changed: a vault whose user is tracked already is left alone.
ChangedOnce(v) == tracked[v] = NoUser /\ seen[v] # NoUser

Changed(v) == seen[v] # NoUser /\ tracked[v] # seen[v]

\* Mutant of AfterReading: goes on to update although nothing changed.
AfterReadingBlindly(some, changed) ==
    /\ pc' = "update" /\ todo' = <<>> /\ users' = changed
    /\ UNCHANGED <<seen, due>> /\ found' = some

\* All vaults are read.  No users at all: the time is not noted.  No changed
\* ones: the run is through.
AfterReading(some, changed) ==
    IF changed = <<>>
    THEN End /\ due' = ~some
    ELSE /\ pc' = "update" /\ todo' = <<>> /\ users' = changed
         /\ found' = some
         /\ UNCHANGED <<seen, due>>

\* One vault of get_max_ltv_users().  The comparison of the second loop of
\* process_vault_max_ltv_user() is made here, with the values it uses.
ReadVault ==
    LET v == Head(todo)
        some == found \/ seen[v] # NoUser
        changed == IF Changed(v) THEN Append(users, [vault |-> v, user |-> seen[v]]) ELSE users
    IN  /\ pc = "read"
        /\ IF Tail(todo) = <<>>
           THEN AfterReading(some, changed)
           ELSE /\ todo' = Tail(todo) /\ users' = changed /\ found' = some
                /\ UNCHANGED <<seen, due, pc>>
        /\ UNCHANGED <<top, final, tracked, outbox>>

-----------------------------------------------------------------------------
(* handle_max_ltv_user                                                     *)

Send ==
    /\ pc = "update"
    /\ Submit(Head(users))
    /\ UNCHANGED <<top, final, tracked, runVars>>

Confirmed ==
    /\ pc = "update"
    /\ mined = "ok"
    /\ CallEnds
    /\ pc' = "verify"
    /\ UNCHANGED <<top, final, tracked, seen, due, todo, found, users>>

\* Mutant of Verify: the loop ends with the first update.
VerifyOne ==
    /\ pc = "verify"
    /\ End /\ due' = FALSE
    /\ UNCHANGED <<top, final, tracked, outbox>>

\* Only after the last user is the time of the run noted.
Verify ==
    /\ pc = "verify"
    /\ IF Tail(users) = <<>>
       THEN End /\ due' = FALSE
       ELSE /\ pc' = "update" /\ users' = Tail(users)
            /\ UNCHANGED <<seen, due, todo, found>>
    /\ UNCHANGED <<top, final, tracked, outbox>>

-----------------------------------------------------------------------------

\* No receipt, or one with status 0: RuntimeError, which ends the run.
Unconfirmed ==
    /\ sent # NoTx
    /\ CallEnds
    /\ End
    /\ UNCHANGED <<top, final, tracked, due>>

\* Any other await raises, or transact() does: the run ends and remains due.
Raise ==
    /\ pc # "idle" /\ sent = NoTx
    /\ IF pc = "update" THEN CallFails(Head(users), TRUE) ELSE UNCHANGED outbox
    /\ End
    /\ UNCHANGED <<top, final, tracked, due>>

Restart ==
    /\ due' = TRUE
    /\ End
    /\ CallEnds
    /\ UNCHANGED <<top, final, tracked>>

Run == ListVaults \/ ReadVault \/ Send \/ Confirmed \/ Verify \/ Unconfirmed \/ Raise

Next ==
    \/ IntervalPasses \/ Start \/ Run \/ Restart
    \/ Finalize \/ Evict
    \/ \E x \in inFlight, ok \in BOOLEAN : Land(x, ok)
    \/ \E v \in VaultSet : Overtake(v) \/ OtherUpdate(v)

Spec == Init /\ [][Next]_vars

=============================================================================
