--------------------------- MODULE ProtocolConfig ---------------------------
(***************************************************************************)
(* get_protocol_config() of src/protocol_config/service.py: every run of   *)
(* the keeper starts with the oracles' configuration, found through        *)
(* ConfigUpdated events of the Keeper contract and kept in OraclesCache.   *)
(*                                                                         *)
(* The chain grows, finalizes and reorgs while the keeper waits; pc is the *)
(* await at which get_protocol_config() stands:                            *)
(*   idle       outside                                                    *)
(*   scan       get_logs() of one batch of chunks                          *)
(*   fallback   get_logs() of the event block known in advance             *)
(*   ipfs       fetch_json()                                               *)
(*   threshold  rewardsMinOracles()                                        *)
(***************************************************************************)
EXTENDS EventScan, Sequences

CONSTANTS
    Configs,            \* configurations of the oracles, by their IPFS hash
    Thresholds,         \* values of rewardsMinOracles
    EventBlock,         \* CONFIG_UPDATED_EVENT_BLOCK
    CheckpointBlock,    \* CONFIG_UPDATED_CHECKPOINT_BLOCK
    MaxBlocks,          \* bound: length of the chain
    NoConfig, NoBlock

ASSUME CheckpointAssumption ==
    /\ EventBlock \in Nat \ {0} /\ CheckpointBlock \in Nat
    /\ EventBlock <= CheckpointBlock
ASSUME MaxBlocksAssumption == MaxBlocks \in Nat /\ CheckpointBlock <= MaxBlocks
ASSUME NothingAssumption == NoConfig \notin Configs /\ NoBlock \notin Nat

\* A block with the last ConfigUpdated event in it, if any, and the threshold
\* that holds after it.
Blocks == [update : Configs \union {NoConfig}, threshold : Thresholds]

VARIABLES
    blocks, finalized,              \* the chain and its last finalized block
    checkpoint, config, threshold,  \* OraclesCache
    pc,
    toBlock, fromBlock, batch,      \* the range being scanned, and how far
    found,                          \* the configuration to be stored
    outcome                         \* how the last call ended

chainVars == <<blocks, finalized>>
cacheVars == <<checkpoint, config, threshold>>
scanVars == <<toBlock, fromBlock, batch, found>>
vars == <<chainVars, cacheVars, pc, scanVars, outcome>>

TypeOK ==
    /\ blocks \in Seq(Blocks) /\ Len(blocks) <= MaxBlocks
    /\ finalized \in CheckpointBlock .. Len(blocks)
    /\ checkpoint \in 1 .. MaxBlocks \union {NoBlock}
    /\ config \in Configs \union {NoConfig}
    /\ threshold \in Thresholds \union {0}
    /\ pc \in {"idle", "scan", "fallback", "ipfs", "threshold"}
    /\ toBlock \in 0 .. MaxBlocks /\ fromBlock \in 0 .. MaxBlocks + 1
    /\ batch \in Nat
    /\ pc = "scan" => Batch(fromBlock, toBlock, batch) # {}
    /\ found \in Configs \union {NoConfig}
    /\ outcome \in {"fresh", "returned", "raised"}

\* The keeper was released when CheckpointBlock was final and EventBlock held
\* the last update.
Init ==
    /\ \E c \in Configs, m \in Thresholds :
        blocks = [b \in 1 .. CheckpointBlock |->
                    [update |-> IF b = EventBlock THEN c ELSE NoConfig, threshold |-> m]]
    /\ finalized = CheckpointBlock
    /\ checkpoint = NoBlock /\ config = NoConfig /\ threshold = 0
    /\ pc = "idle"
    /\ toBlock = 0 /\ fromBlock = 0 /\ batch = 0 /\ found = NoConfig
    /\ outcome = "fresh"

-----------------------------------------------------------------------------
(* The chain                                                               *)

NewBlock ==
    /\ Len(blocks) < MaxBlocks
    /\ \E b \in Blocks : blocks' = Append(blocks, b)
    /\ UNCHANGED <<finalized, cacheVars, pc, scanVars, outcome>>

Finalize ==
    /\ finalized' \in finalized + 1 .. Len(blocks)
    /\ UNCHANGED <<blocks, cacheVars, pc, scanVars, outcome>>

\* Blocks that are not final are dropped.
Reorg ==
    /\ \E n \in finalized .. Len(blocks) - 1 : blocks' = SubSeq(blocks, 1, n)
    /\ UNCHANGED <<finalized, cacheVars, pc, scanVars, outcome>>

Updates == {b \in 1 .. Len(blocks) : blocks[b].update # NoConfig}

-----------------------------------------------------------------------------
(* get_protocol_config()                                                   *)

\* Mutant of Reported: the latest block is asked for.
ReportedLatest == 1 .. Len(blocks)

\* What get_block('finalized') may answer.  One of several endpoints answers,
\* and it may know less than the one that answered before.
Reported == 1 .. finalized

ScanFrom == (IF checkpoint = NoBlock THEN CheckpointBlock ELSE checkpoint) + 1

\* Where the search goes on when the range has no event: to the block known
\* in advance, or to the cached configuration.
Unchanged ==
    IF checkpoint = NoBlock
    THEN pc' = "fallback" /\ UNCHANGED found
    ELSE pc' = "threshold" /\ found' = config

\* Mutant of GetBlock: the checkpoint advances before the range is scanned.
GetBlockAdvancing ==
    /\ pc = "idle"
    /\ toBlock' \in Reported
    /\ fromBlock' = ScanFrom
    /\ batch' = 0
    /\ IF fromBlock' <= toBlock' THEN pc' = "scan" /\ UNCHANGED found ELSE Unchanged
    /\ checkpoint' = IF checkpoint = NoBlock THEN NoBlock ELSE toBlock'
    /\ UNCHANGED <<config, threshold, chainVars, outcome>>

GetBlock ==
    /\ pc = "idle"
    /\ toBlock' \in Reported
    /\ fromBlock' = ScanFrom
    /\ batch' = 0
    /\ IF fromBlock' <= toBlock' THEN pc' = "scan" /\ UNCHANGED found ELSE Unchanged
    /\ UNCHANGED <<cacheVars, chainVars, outcome>>

\* The logs of one batch arrive.
ScanBatch ==
    LET answers == Answers(fromBlock, toBlock, batch, Updates)
    IN  /\ pc = "scan"
        /\ \/ /\ \E b \in answers : found' = blocks[b].update
              /\ pc' = "ipfs"
              /\ UNCHANGED batch
           \/ /\ answers = {} /\ MoreBatches(fromBlock, toBlock, batch)
              /\ batch' = batch + 1
              /\ UNCHANGED <<pc, found>>
           \/ /\ answers = {} /\ ~MoreBatches(fromBlock, toBlock, batch)
              /\ Unchanged
              /\ UNCHANGED batch
        /\ UNCHANGED <<toBlock, fromBlock, cacheVars, chainVars, outcome>>

Fallback ==
    /\ pc = "fallback"
    /\ EventBlock \in Updates
    /\ found' = blocks[EventBlock].update
    /\ pc' = "ipfs"
    /\ UNCHANGED <<toBlock, fromBlock, batch, cacheVars, chainVars, outcome>>

FetchConfig ==
    /\ pc = "ipfs"
    /\ pc' = "threshold"
    /\ UNCHANGED <<scanVars, cacheVars, chainVars, outcome>>

End(result) ==
    /\ outcome' = result
    /\ pc' = "idle"
    /\ toBlock' = 0 /\ fromBlock' = 0 /\ batch' = 0 /\ found' = NoConfig

\* The threshold of the latest block arrives, and the cache is written.  Only
\* then is the configuration parsed, which may raise.
ReadThreshold ==
    /\ pc = "threshold"
    /\ threshold' = blocks[Len(blocks)].threshold
    /\ checkpoint' = toBlock
    /\ config' = found
    /\ \E r \in {"returned", "raised"} : End(r)
    /\ UNCHANGED chainVars

\* Any of the requests fails, or the fallback has no event; main.py logs the
\* exception and starts over.
Fail ==
    /\ pc # "idle"
    /\ End("raised")
    /\ UNCHANGED <<cacheVars, chainVars>>

Restart ==
    /\ checkpoint' = NoBlock /\ config' = NoConfig /\ threshold' = 0
    /\ End("fresh")
    /\ UNCHANGED chainVars

-----------------------------------------------------------------------------

Run == ScanBatch \/ Fallback \/ FetchConfig \/ ReadThreshold \/ Fail

Next == NewBlock \/ Finalize \/ Reorg \/ GetBlock \/ Run \/ Restart

Spec == Init /\ [][Next]_vars

=============================================================================
