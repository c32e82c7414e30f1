# TLA+ models of the StakeWise v3 keeper

The keeper collects the votes of the StakeWise oracles and sends the resulting
transactions. It is one Python process with one event loop, one wallet and no
storage of its own: what it remembers between rounds is in a few singletons
that a restart empties. Its correctness is about what happens between awaits,
between rounds, and between the keeper and a chain that moves by itself.

## Inventory

| Part | State it keeps | Operations | What makes it correct |
| --- | --- | --- | --- |
| Transaction manager (`common/transaction.py`) | lock with its queue, fees last broadcast per nonce | `transact()` with default or high-priority fees, wait for a receipt | one call at a time; only the wallet's next nonce is ever in flight; a receipt only for the call's own, successful transaction; fees only rise, and give up only at the ceiling; a stuck transaction is bid up; every call returns |
| Rewards task (`rewards/service.py`) | `RewardsCache`: votes by timestamp | collect votes, cache them, choose the earliest winner, submit | votes are kept until used or evicted oldest first; what is submitted are votes of the current nonce; a quorum that forms is submitted in the end |
| Protocol configuration (`protocol_config/service.py`, `ContractWrapper._get_last_event`) | `OraclesCache`: checkpoint, configuration, threshold | find the last `ConfigUpdated` event of a range of blocks, fetch its file, read the threshold | no update before the checkpoint is missed; every finalized update is taken over |
| Distributor task (`distributor/service.py`) | none | collect votes, submit the winner | a quorum for the current nonce is submitted, once |
| Exits task (`exits/`) | none | collect shares, drop exiting validators, combine, submit | a validator the node refuses does not stop the others; every validator with enough shares is exited in the end |
| Force exits task (`force_exit/`) | time of the last run | claim exited assets, force positions into the exit queue | every risky position is handled; the checks are about the state they act on |
| LTV task (`ltv/`) | time of the last run | read the top user of each vault, submit those that changed | a user that stays on top is tracked in the end, whatever happens to other vaults |
| Price task (`price/`) | time of the last sync | pay for a sync when the price on the target chain is old | no second sync while one is known to be under way; the price is refreshed in the end |
| Main loop (`main.py`) | none | configuration, then all tasks behind one `gather()` | a failing task does not stop the others; a task never runs twice at once; rounds go on |
| Startup checks (`common/startup_check.py`) | none | check what the process depends on, in order | a wrong pair of periods is refused |
| Clients, settings, metrics, graph queries, encodings | none that matters | I/O | - |

The parts interact through

- the transaction manager: every task but exits sends through the one
  `tx_manager` and waits in its queue;
- the configuration: a round starts with `get_protocol_config()` and hands the
  set of oracles and the threshold to the tasks;
- the wallet's nonce and the contracts on chain, which other keepers write too;
- the singletons, which live as long as the process.

The hard behaviours are: tasks interleaving at every await inside the
transaction manager; transactions that stay pending, are replaced, evicted,
mined late, or whose answer is lost; restarts that forget the records; votes
that arrive over several rounds; caches that outlive what they were filled for;
a chain that reorgs while it is scanned, and endpoints that lag behind each
other. `PROJECT.json` lists each hazard with the line where it bites and the
properties that cover it.

## Plan

1. *Core, done*: `TxManager` over `ExecutionNode` and `Fees`, refining `Wallet`;
   `Rewards` over `Outbox`; `ProtocolConfig` over `EventScan`.
2. *Periodic tasks, done*: `ForceExits`, `LtvTracker` and `Distributor` over
   `Outbox`, the first two refining `Sweep`, and the proof that `Outbox` is what
   each of several tasks sees of the one `TxManager`.
3. *Composition, done*: `Keeper`, the main loop and the startup with the tasks
   `PriceSync` and `Exits` running side by side in its rounds, refining
   `PeriodicTask` for each of them.
4. *Proofs, done*: an inductive invariant for every module with a run, the
   action properties, the refinements, and the exactness of the event scan.
5. *Left*: the safety halves of further liveness properties, as `CallsRunDown`
   and `NobodyForgotten` are those of `CallReturns`; the wait for the graph node
   and the simulations at a block as models of their own; votes of the rewards
   task with more than one set of oracles.

Runs stay below five minutes; bounds are raised where a new interleaving needs
them.

## Modules

| Module | Models |
| --- | --- |
| `Fees` | class `Fees`: clamping, bumping, the replacement threshold |
| `ExecutionNode` | the node and the chain, as far as the wallet can tell (external) |
| `TxManager` | `TransactionManager`, one action per await |
| `Wallet` | what the class promises, abstractly |
| `TxManagerProperties` | properties and the refinement mapping |
| `Rewards`, `RewardsProperties` | `process_rewards()`, `RewardsCache`, endpoints, contract, other keepers |
| `EventScan` | chunks, batches and answers of `_get_last_event()` |
| `ProtocolConfig`, `ProtocolConfigProperties` | `get_protocol_config()` and `OraclesCache` |
| `Outbox` | the transactions of one task, as `Wallet` allows them; `TxManagerProperties` maps `TxManager` to one per task |
| `Sweep` | what the force exits and the LTV task promise, abstractly: a run counts only if it came to the end of its lists |
| `PeriodicTask` | what the modules of the tasks assume of the process: one run at a time, from its first await |
| `ForceExits`, `ForceExitsProperties` | `process_force_exits()`, the strategy contracts, owners and market |
| `LtvTracker`, `LtvTrackerProperties` | `process_vault_max_ltv_user()` and the tracker contract |
| `Distributor`, `DistributorProperties` | `process_distributor_rewards()`, endpoints, contract, other keepers |
| `PriceSync` | `process_layer_two_oseth_price()`, the bridge and the target chain |
| `Exits` | `process_exits()`, oracles and the beacon chain |
| `Keeper`, `KeeperProperties` | `main()`, `start_keeper()` and `startup_checks()`, composing `PriceSync` and `Exits` |
| `MC...` | instances for TLC |
| `TxManagerProofs`, `TxManagerRefinement`, `RewardsProofs`, `ProtocolConfigProofs`, `ForceExitsProofs`, `LtvTrackerProofs`, `DistributorProofs`, `KeeperProofs` | theorems and proofs |

Conventions: `pc` is the await at which a coroutine stands, and an action is
everything the code does from one await to the next. Properties are kept apart
from the models, proofs apart from both. Operators commented "Mutant of X" are
plausible mistakes in X; `PROJECT.json` says which property notices each.

### Transaction manager

`pc[t]` is where task `t` stands in `transact()`. `holder` and `waiters` are
the `asyncio.Lock`: a free lock is taken at once, a released one goes to the
first waiter, who resumes by its own step. `record` is `_nonce_to_tx_params`,
of which only the fees matter. The two nonce counts are two awaits, so the
chain may move between them. `result` is how the last call ended.

The node keeps the wallet's pending transactions in `pool`. It may refuse any
offer as too low, must refuse one that does not outbid its rival by ten
percent, and may drop what it has. A replaced or dropped transaction may stay
with some block builder (`loose`) and be mined all the same. Only the keeper
sends from its wallet, and one mempool answers; time is not modelled, any wait
for a receipt may end. The sleep between default attempts is part of the place
`default`. Call data is abstracted to the task that built it. Every awaited
request may raise, and the node's answer to a transaction it took may be lost.

Fees are integers. `1.125 * v` is exact in floating point; `1.1 * v` is not,
and `CarrySet` names the values where the rounded product gets one higher.
Nothing else is assumed of that set, so the theorems hold for the real one.

### Rewards

A run is `idle -> fetch -> nonce -> submit`; `sent` tells whether the update has
been broadcast. `Fetch` lets any set of endpoints answer and picks a vote per
oracle as `_fetch_vote_from_oracle` does; votes shown by an endpoint never go
back, but two endpoints of an oracle differ, in the vote or in its signature.
A signature is one of a few values, of which the contract takes those in
`Genuine`; the task compares votes with their signatures and verifies none, so
an oracle that signs a vote twice has two votes in the cache and in the count.
The cache is a set of votes, because no vote is added twice; lists only matter
where the code picks among equals (`Counter.most_common`, the order of
addresses), and ties are open. `update_rewards()` is a call over `Outbox`:
`Send`, `Return` with or without a receipt, `Raise`; `Land` and `Evict` are what
becomes of its transactions meanwhile, also after a restart. web3 simulates
before it sends, so only what the contract accepts at that moment is broadcast.
Threshold and set of oracles do not change during a run of the model.

### Protocol configuration

The chain is a sequence of blocks with the last update in each, if any, and the
threshold after it. `finalized` never goes back, but the answer to
`get_block('finalized')` is any block up to it: one of several endpoints
answers. Logs of finalized blocks are complete and the same everywhere. A scan
reads one batch of chunks at a time; `Fail` ends a call at any await. The file
behind an IPFS hash is the hash.

### Force exits

`position` is what the contracts know now, `final` what they knew at the
finalized block, `seen` what the run read there. Debts are abstracted to marks:
above the limit for Aave debt, above the limit for vault debt, accepted by
`canForceEnterExitQueue()`, in escrow above the limit for urgent requests. The
claim frees the position and may change its marks; a forced exit needs a mark
and no other request. `todo` is the rest of the list in work. Lists come in any
order within the two kinds of risk. `due` stands for the timestamp in
`AppState`: it is cleared when a run is through and survives everything that
cuts a run short. What `transact()` raises inside `claim_exited_assets()` and
`force_enter_exit_queue()` is caught there (`NotSent`, `Unconfirmed`) and costs
the position its turn; what any other await raises ends the run (`Raise`), and
so does a restart.

### LTV tracker

`top` is the user with the highest LTV per vault, `final` and `seen` as above,
`tracked` the contract's. `ReadVault` is one pass of the loop of
`get_max_ltv_users()`; the comparison the code makes in a second loop is made
there, with the same values, since nothing is awaited for users that did not
change. `found` tells a run without users, which does not note its time, from
one in which nobody changed, which does. The contract takes over a user whose
LTV is above that of the tracked one; whether that holds is only known of the
user on top.

### Outbox

`sent` is the transaction a task waits for, `inFlight` those of its own that may
still be mined, `mined` what has become of the awaited one. Its transactions
compete for one nonce: when one is mined the others are gone, and they may go at
any time, because they are dropped or another task's transaction takes the
nonce. A call ends with or without a receipt, or fails before it waits, with the
transaction sent or not. `View(t)` in `TxManagerProperties` maps the states of
`TxManager` to the outbox of task `t`; `SeenAsOutbox` says that this is an
`Outbox` whatever the other tasks do.

### Distributor

One action per await of `process_distributor_rewards()`: the votes, nonce, next
timestamp, threshold and root are read one after the other while the endpoints,
other keepers and the owner move. `Endpoints` gives the order in which an
oracle's endpoints stand in the configuration, which decides between votes of
the same nonce (`Precedes`). A vote is counted for its body by oracle;
signatures are reduced to who signed. Nothing is kept between runs. `FirstVotes`
are what endpoints show of the time before the process was started.

### Price

The task compares times only with the current one, so the model keeps ages: how
long ago the price was updated, a sync mined, a time noted, each up to the bound
from which on the code cannot tell ages apart. A time that was never noted lets
a sync pass as an old one does. `transit` holds the syncs the bridge carries,
each with what the process knows of its receipt (`awaited`, `seen`, `missed`).
The bridge delivers or loses them at any time and in any order.

### Exits

`Fetch` lets the oracles answer with any part of the shares they show, and an
oracle is one step: the list of its first endpoint with shares is taken. A list
may name a validator several times (`Items`), and each time counts when the
shares are compared with the threshold (`Enough`), while the signature is put
together from one share per oracle (`Reconstructed`); the task does not see the
difference, but the node takes a signature from enough distinct oracles only
(`sound`). The statuses are read in batches, all at the slot of the head read
before, so the batches are one step too; the node may leave validators out of
its answer, which are then submitted whatever their status, and an exiting one
that is repeated, or a foreign one, raises (`ExitsRaise`). Validators with
enough shares are submitted one by one. The node takes an exit (`Accept`; it may
still not be included), refuses it (`Reject`, which costs only this validator
its turn), or the run ends by an exception (`ExitsRaise`), for the validators
behind it too. `exiting` are the validators with one of `EXITING_STATUSES`;
`ACTIVE_SLASHED` is none of them, so a slashed validator is submitted, and
refused, until it has left. `head` holds the exiting validators at the slot the
statuses are read at.

### Keeper

`pc` is the startup check, or the place in the round. `startup_checks()` is a
sequence; a check passes (some repeat until they do) or raises, which ends the
process like any other end of it (`GoDown`). A round asks for the configuration
and starts all tasks at once; it ends when all of them have ended, however they
did. All optional tasks are switched on. `others` stands for the four tasks
whose steps have modules of their own and which share no state with the two
composed here: they run until they end. `Launch` starts the process again.

## Runs

| Run | Shows | Bounds |
| --- | --- | --- |
| `tx_manager` | the invariants, action properties and both refinements below | two tasks, plain and urgent calls, two default attempts, one mined and one loose transaction; fees 30 to 55, where the ladder has three rungs and 50 is a value whose product carries |
| `tx_liveness` | `CallReturns`, `StuckIsOutbid` | two tasks, one nonce that never gets mined |
| `tx_pinned` | violation of `GivenUpHasPending` | one task |
| `rewards` | `LeftoverQuorumMeansRaise`, `RefusalHasCause`, `NoVoteForgotten`, `QuorumIsSubmitted` | two oracles, three endpoints, one of which may give a bad signature of what another endpoint of its oracle signs well, two timestamps, one slot in the cache, one update of the contract, two submissions in flight |
| `rewards_stale` | violation of `SubmitsCurrentVotes` | two oracles |
| `protocol_config` | the properties of the scan | six blocks, event at 1, checkpoint at 2, chunks of two blocks, batches of one chunk, two configurations |
| `protocol_threshold` | violation of `ThresholdAsOfBlock` | four blocks, two thresholds |
| `force_exits` | the properties of the force exits task | two positions, of which the first moves by itself and is in both lists, two transactions in flight |
| `force_recheck` | violation of `RecheckSeesClaim` | one position, nobody but the keeper moves it |
| `ltv_tracker` | `ImplementsSweep`, `MaxUserIsTracked` | two vaults, two users, two transactions in flight |
| `distributor` | `SpoiledByOthersOnly`, `LaggardsHideNothing`, `QuorumIsSubmitted` | two oracles, three endpoints, two roots, thresholds 2 and 3, one update of the contract, a delay of one, one submission in flight |
| `keeper` | `TasksRunAlone`, `NoSecondSync`, `PriceIsRefreshed`, `ValidatorsExit` | two validators, two oracles of which one lacks a share, validators named up to twice, an interval of two, a waiting time of one, two syncs on the bridge, one in flight |

Why the bounds are enough. Two tasks are all a lock can tell apart (the theorems
are for any number). All that is in flight has the next nonce, so one mined
transaction covers a nonce before, during and after the step to the next. A
cache of one slot meets its limit at once. Two chunks per range show every
border between chunks and batches; batches of several chunks are covered by the
proof, which is for every size. Two positions, and two vaults, are one in front
and one behind; a position can be listed for either debt, both, or none, and the
requests of the first may be urgent. In the rewards there is one update of the
contract, by us or by another keeper: votes of the old nonce meet the new one in
the cache, and votes are collected anew after a submission was lost or timed
out, but not for the nonce behind another keeper's update (a second update takes
TLC longer than a run here may last). One endpoint with two signatures is enough
for an oracle to be counted twice and for a signature to be refused; two genuine
ones are covered by `RefusalCauses`. In the distributor there is one update, by
another keeper or by us: a run meets it between any two of its reads, but not a
second one behind it (a second one takes TLC longer than a run here may last).
Votes of an earlier nonce are there from the start; a threshold of three cannot
be reached by two oracles, so a run meets one below and one above what it has.
In the exits task, an oracle that names a validator twice makes two shares of
one. In the keeper, ages of a waiting time and of an interval are told apart
from younger ones, and two syncs on the bridge are an old and a new one. One
submission in flight is enough there, since those that compete are gone when one
is mined; two are covered by the other runs over `Outbox`. TLC's deadlock check
is on everywhere.

### Fairness

- Transaction manager: weak fairness of every task's step, because the event
  loop resumes what is ready, every request times out, and so does the wait for
  a receipt. `StuckIsOutbid` adds that tasks keep calling (the main loop) and
  that no kind of request fails every time.
- Rewards: runs repeat and awaits end (weak); each oracle is reached, and what
  it said is collected, infinitely often, and sending and mining succeed
  sometimes (strong).
- Configuration: calls repeat, every await ends, and an endpoint that is up to
  date answers infinitely often. `UpdateIsTaken` assumes that failures and
  restarts end.
- Force exits and LTV: the main loop repeats the runs, intervals pass, awaits
  end, blocks become final (weak); transactions for a position or vault do not
  fail every time (strong). For the LTV task this has to include that their
  receipts do not come too late every time: an update without a receipt ends
  the run, and with one vault whose user keeps changing and whose receipts are
  always late, TLC finds that the vaults behind it are never updated. Force
  exits need no such assumption. Runs cut short for ever by other failures or by
  restarts are excepted in the properties.
- Distributor: runs repeat and awaits end (weak). Nothing is kept between runs,
  so now and then one has to reach all endpoints, and with a quorum at hand none
  of the reads, nor sending, nor mining fails every time (strong).
- Keeper: the process is started again (`docker run --restart on-failure:10`,
  `src/README.md:77`; the limit of ten is left out, and a process that goes down
  for ever is excepted in the properties), every await ends, time passes (weak),
  a configuration is found now and then (strong). What a property assumes of its
  own world is part of the property: `SyncsGetThrough` for the price (runs that
  find a sync due do not all end before they send it, and not all syncs are
  lost on the chain or the bridge),
  `ExitGetsThrough(v)` for a validator. So the price is refreshed even if no
  exit ever gets through, and the other way round.

## What the checks show

*Transaction manager.* `OneCallInside`: past the lock there is its holder alone.
`NobodyForgotten`: every other call is in the queue, once, and the queue is
empty when the lock is free, however the calls before it ended. `CallsRunDown`:
no chain of refusals, escalations and failures leads the holder back to where it
has been, so the others wait for a bounded number of awaits. `OneNonceInFlight`:
all that can still be mined has the wallet's next nonce, so nothing queues
behind a stuck transaction and of competing calls one takes effect.
`AwaitedNotReplaced`: while a call waits, no other call of the process replaces
its transaction. `NeverUnderpriced`: while fees are on record for the
transaction in the pool, what a call offers at `high` clears them.
`EscalationRises`: recorded fees are only replaced by fees that clear the code's
own threshold. `GivesUpOnlyWhenHopeless`: clamping one fee or both never makes
the code stop while some fees under the ceiling would do. `ImplementsWallet`:
seen from outside, calls are those of `Wallet`. `SeenAsOutbox`: seen by one
task, its calls are those of an `Outbox`, which is all the models of the
periodic tasks assume of the manager, fairness apart. `CallReturns` and
`StuckIsOutbid` are the liveness.

*Rewards.* `LeftoverQuorumMeansRaise`: between submissions a quorum is in the
cache only if the last one ended by an exception. `NoVoteForgotten`: votes leave
the cache with a submission, with a restart, or as the oldest of more than its
size. `RefusalHasCause`: what makes the contract refuse a submission is a vote of
another nonce (which happens, see the findings), an oracle counted with two
signatures, or a bad signature; counting, choosing and cutting the votes adds no
cause of its own. The last two need an oracle that signs badly or twice, and
then the contract is what refuses, since the task verifies nothing.
`QuorumIsSubmitted`: a quorum the oracles settle on is submitted, even if no run
ever reaches enough of them at once, and collected anew when a submission was
lost or came to nothing. It asks that no oracle keeps showing a signature the
contract would refuse, or two signatures of a vote: one that does can spoil
every submission.

*Configuration.* `NoUpdateMissed`: the cached configuration is in force at a
final block that is not before the checkpoint. `UpdateIsTaken`: what is
finalized is taken over.

*Force exits.* `HandledOnce`: the two lists of risky positions are joined
without repetition. `RiskyIsForced` and `UrgentIsClaimed`: no position stays
risky outside the exit queue, and no urgent request unclaimed, whatever happens
to the transactions of those in front. `ImplementsSweep`: the time of the last
run is noted only after every listed request and position was looked at, in the
order of the lists, so a run cut short anywhere is repeated at once.

*LTV.* `ImplementsSweep`: the same for vaults and for the users found in them.
`MaxUserIsTracked`: a user that stays on top of its vault is tracked.

*Distributor.* `SpoiledByOthersOnly`: four reads one after the other are enough:
what they let pass is refused by the contract only if somebody else updated it,
or raised the threshold, after they were made. `LaggardsHideNothing`: as soon as
one endpoint of an oracle answers with a vote, the oracle counts with a vote of
that nonce or a later one, in whatever order its endpoints are configured; it
says nothing of two votes of one nonce. `QuorumIsSubmitted`: a quorum is
submitted although other endpoints of the same oracles lag behind. It counts an
oracle only if the first of its endpoints with a vote for the current nonce
shows the vote: of endpoints with the same nonce the code keeps the first,
whatever the timestamps (`service.py:125`), so an endpoint that shows an older
vote of the same nonce hides the newer ones behind it. No property covers that
case.

*Keeper.* `TasksRunAlone`: a task is started only when its last run has ended,
whatever raised in the round, which is what the modules of the tasks assume.
`NoSecondSync`: the check whether a sync is in progress holds for syncs whose
receipt the process saw. Of one whose receipt came too late, or which a process
before it sent, nothing is noted (`price/service.py:64-69`), and the next run
may pay for another one; the model does so too, and no property speaks of it.
`PriceIsRefreshed` says only that the refresh is not lost by it.
`ValidatorsExit`: a validator with enough shares is exited although
others are refused in every run, be it for a signature put together from too few
shares; one that makes the run raise every time does stop those behind it, which
the property excepts. That oracles answer together now and then is assumed: the
shares of two runs never add up. What a run submits is not backed by any promise
of the task: it counts items of lists and trusts the statuses it was told, and
leaves it to the node to refuse.

### Findings

- `tx_pinned` (`transaction.py:191`): the comments say that a pinned nonce has a
  pending transaction that will mine. Recorded fees may belong to a transaction
  that was evicted, or to an offer that was refused and never accepted; the code
  then gives up with nothing pending, as long as default fees are refused.
- `rewards_stale` (`rewards/service.py:107`): the cache is keyed by timestamp
  and cleared only when the submission returns. After an exception, and once
  the nonce has moved on, the old quorum stays the earliest winner and each run
  submits signatures of a past nonce. In the run the nonce moves by the late
  transaction of the call that raised; an update by another keeper does the
  same.
- `protocol_threshold` (`protocol_config/service.py:41`): the comment says that
  changes of the set and of the threshold are seen two epochs late; the
  threshold is read at the latest block.
- `force_recheck` (`force_exit/service.py:234`): the comment says that the
  position is rechecked because the claim has changed it; the recheck simulates
  at the block from before the claim and always agrees with the first check.
  A position the claim has made safe is sent on to be forced, and only the gas
  estimation of that call stops it.

## What is proved

Assumptions are those of the modules, named there: the ceiling is a number, the
values that carry are positive multiples of ten, sentinel values are not values,
the event block is not after the checkpoint block, sizes are positive, the sets
of oracles, bodies and positions are finite. Bounds
(`MaxMined`, `MaxLoose`, `MaxBlocks`, `MaxNonce`, `MaxInFlight`) are parameters
of the theorems.

- `TxManagerProofs`: first the fee arithmetic, `ClampingWastesNothing`. If the
  escalated fees do not replace the recorded ones, neither do the fees at the
  ceiling: the bump of 1.125 is above the threshold of 1.1 unless a fee was
  clamped, and a clamped fee is either the ceiling or bounded by the other one.
  Then types, `LockExcludes`, `SingleNonce`, `AwaitedStays`,
  `FeesRise`, `GivesUpLast`. The inductive invariant adds to the properties that
  a call's nonce is not ahead of the chain, that at most one transaction is in
  the pool, that an offer about to be sent clears the record it was computed
  from, and that a call at `high` carries its own transaction. The nonce that
  was read can become old, never early, which is why `OneNonceInFlight` survives
  the gap between reading and sending. `NoneForgotten` needs the queue without
  repetition, which joining at the end and waking the first keep;
  `CallsAreBounded` needs that a call at `default` has not used its attempts up;
  `ReplacementsClear` follows from an offer clearing the record, since the code's
  rounded threshold is not below the node's.
- `TxManagerRefinement`: initial states and steps of the manager are those of
  `Wallet`, under the mapping of `TxManagerProperties`; and `TasksSeeOutboxes`:
  for each task they are those of `Outbox`, or change nothing it sees. The second
  needs to know, besides the invariant, that a waiting call waits for a
  transaction of its own with the nonce it was sent with, and that at most
  `MaxLoose` transactions are with some builder. So the models of the tasks need
  only `Outbox`, as far as safety goes: several of them may share the wallet.
- `RewardsProofs`: `QuorumNotLeftBehind`; `CacheStaysBounded`: at most
  `CacheSize` timestamps, because those kept are all at or after the earliest
  one kept, and from there on there are that many at most; `VotesAreKept`: when
  a timestamp is dropped, those behind the latest one dropped are kept, and they
  are `CacheSize` or more. `RefusalCauses`: a submission is `Threshold` votes
  for one body, and a vote is determined by its oracle once body, nonce and the
  oracle's signature are given; so votes of one nonce, each oracle with one
  signature, have as many oracles as there are of them.
- `ProtocolConfigProofs`: types and `NothingMissed`, for every chain and every
  size of chunks and batches. The argument: chunks cover the range and get
  older; events not yet seen are in chunks that were not asked for (`ScanOK`);
  so an answer is the last event of the range (`AnswerIsLast`), and a scan
  without one proves there is none; what was found stays in force because final
  blocks do not change (`FoundOK`, `FinalBlocksStay`). `FallbackOK` and
  `ReleaseOK` say why the block known in advance is the right one to fall back
  to.
  `ScanIsExact` is the whole of `_get_last_event()`: for every range, set of
  events, chunk size and batch size there is a batch, reached because all before
  it found nothing, that answers with the last event, and none answers if there
  is no event. The induction over batches is a least batch that answers, from
  the well-foundedness of the naturals in the library.
- `ForceExitsProofs`: types and `EachHandledOnce`, for every finite set of
  positions. The order of a set lists nothing twice, the two sets are disjoint,
  and taking the first off a list keeps that; places that handle the first
  position are reached with a non-empty list only. `Refinement`: every step is
  one of `Sweep` or changes nothing it sees; the invariant `Overdue` is added,
  that a run under way is due.
- `LtvTrackerProofs`: types, for any list of vaults. Vaults are left to read only
  while they are read, users left to submit while they are submitted, so no step
  takes the first of an empty list. `Refinement` of `Sweep`, with the vaults left
  in the first half of a run and the users left in the second mapped to what is
  left to handle.
- `DistributorProofs`: types and `OthersSpoil`, for any oracles, endpoints,
  thresholds and delay. The invariant says that a vote shown is not ahead of the
  contract or the clock; that a vote still counted when the threshold is read is
  later than the next timestamp if its nonce is still the contract's; and that
  the same holds of the update made from them, whose root is a new one once the
  root is read. `NewestIsCounted`: some endpoint precedes all others that
  answered, by the least distance from the bound of the nonces
  and, among those, the least place in the order.
- `KeeperProofs`: types and `NoSecondPayment`, for any two periods. The
  invariant adds that the time noted is not before the last receipt seen, which
  a restart keeps since it forgets both, and that the task is past its check
  only while the noted time is long ago. `RunsDoNotOverlap`: outside a
  round no task is under way, and a round ends when all have ended.

Every invariant the runs check is proved, and so is every action property.
Only model-checked: the liveness properties (`CallReturns`, `StuckIsOutbid`,
`UpdateIsTaken`, `RiskyIsForced`, `UrgentIsClaimed`, `MaxUserIsTracked`, the two
`QuorumIsSubmitted`, `PriceIsRefreshed`, `ValidatorsExit`), since the prover
knows neither fairness nor ENABLED. Of `CallReturns` the safety half is proved:
nobody is forgotten, and every call runs down.

## What is not modelled

- The arithmetic behind the reconstruction of an exit signature, ABI encodings and
  the bytes of signatures: a value is what it is compared by, and whether the
  contract or the node takes it.
- GraphQL queries with their wait for the graph node, clients with their retries
  (a request answers or fails), metrics and logging: reads without state of their
  own. Most simulations and the harvest calls are part of the call they belong to.
- Settings and networks: the constants that matter are CONSTANTS.
- What an oracle's second endpoint adds to the shares of the first, which the code
  does not take either once the first has answered; the order in which equal
  counts are broken, which is left open.
- A second process sending from the same wallet, several mempools with different
  contents, and real time except for the ages of the price task and the clock of
  the distributor.
