----------------------------- MODULE EventScan -----------------------------
(***************************************************************************)
(* ContractWrapper._get_last_event of src/common/contracts.py: a range of  *)
(* blocks is cut into chunks from its end downwards, and the chunks are    *)
(* asked for events in batches, the newest first.                          *)
(***************************************************************************)
EXTENDS Integers

CONSTANTS
    BlocksRange,        \* blocks_range; a chunk has one block more
    Concurrency         \* EVENTS_CONCURRENCY, chunks per batch

ASSUME BlocksRangeAssumption == BlocksRange \in Nat \ {0}
ASSUME ConcurrencyAssumption == Concurrency \in Nat \ {0}

\* The last block of chunk i of a range that ends at to.
ChunkTo(to, i) == to - i * (BlocksRange + 1)

\* Indices of the chunks of the range from .. to.
Chunks(from, to) == {i \in 0 .. to : ChunkTo(to, i) >= from}

Chunk(from, to, i) ==
    {b \in from .. ChunkTo(to, i) : b >= ChunkTo(to, i) - BlocksRange}

Batch(from, to, k) ==
    {i \in Chunks(from, to) : k * Concurrency <= i /\ i < (k + 1) * Concurrency}

\* Mutant of MoreBatches: one batch too many.
OneBatchTooMany(from, to, k) == k * Concurrency \in Chunks(from, to)

MoreBatches(from, to, k) == (k + 1) * Concurrency \in Chunks(from, to)

\* Where a batch finds its answer: the last event of its newest chunk with
\* events.  events is the set of blocks that have one.
Answers(from, to, k, events) ==
    {b \in events : \E i \in Batch(from, to, k) :
        /\ b \in Chunk(from, to, i)
        /\ \A c \in Chunk(from, to, i) \intersect events : c <= b
        /\ \A j \in Batch(from, to, k) : j < i => Chunk(from, to, j) \intersect events = {}}

=============================================================================
