------------------------ MODULE ProtocolConfigProofs ------------------------
(***************************************************************************)
(* Proofs about get_protocol_config(), for every chain, every set of       *)
(* configurations and every size of chunks and batches.                    *)
(***************************************************************************)
EXTENDS ProtocolConfigProperties, SequenceTheorems, WellFoundedInduction, TLAPS

-----------------------------------------------------------------------------
(* Least and greatest elements of sets of natural numbers, and division    *)

NatLess == {p \in Nat \X Nat : p[1] < p[2]}

\* A set of natural numbers that is not empty has a least element.
LEMMA LeastElement ==
    ASSUME NEW T, T \subseteq Nat, T # {}
    PROVE  \E x \in T : \A y \in T : x <= y
<1>1. IsWellFoundedOn(NatLess, Nat)
  BY NatLessThanWellFounded DEF OpToRel, NatLess
<1>2. PICK x \in T : \A y \in T : <<y, x>> \notin NatLess
  BY <1>1, WFMin
<1>3. \A a \in Nat, b \in Nat : a < b => <<a, b>> \in NatLess
  BY DEF NatLess
<1>4. \A y \in T : ~(y < x)
  BY <1>2, <1>3
<1>5. \A y \in T : x <= y
  BY <1>4
<1> QED
  BY <1>5

\* If it is bounded it has a greatest element.
LEMMA GreatestElement ==
    ASSUME NEW n \in Nat, NEW T, T \subseteq 0 .. n, T # {}
    PROVE  \E x \in T : \A y \in T : y <= x
<1> DEFINE U == {n - y : y \in T}
<1>1. \A y \in T : n - y \in Nat /\ n - y \in U
  OBVIOUS
<1>2. PICK u \in U : \A v \in U : u <= v
  <2>1. U \subseteq Nat
    BY <1>1
  <2>2. U # {}
    BY <1>1
  <2> QED
    BY <2>1, <2>2, LeastElement
<1>3. PICK x \in T : u = n - x
  OBVIOUS
<1>4. \A y \in T : n - x <= n - y
  BY <1>1, <1>2, <1>3
<1> QED
  BY <1>4

\* Division rounds down.
LEMMA DivisionBounds ==
    ASSUME NEW n \in Nat, NEW w \in Nat \ {0}
    PROVE  /\ n \div w \in Nat /\ n \div w <= n
           /\ (n \div w) * w <= n
           /\ n < (n \div w) * w + w
OBVIOUS

\* A larger factor leaves room for one more summand.
LEMMA NextMultiple ==
    ASSUME NEW i \in Nat, NEW j \in Nat, i < j, NEW w \in Nat
    PROVE  i * w + w <= j * w
OBVIOUS

-----------------------------------------------------------------------------
(* The scan                                                                *)

\* Where chunks end is a number, and later chunks end lower by a whole chunk.
LEMMA ChunkToDescends ==
    ASSUME NEW to \in Nat, NEW i \in Nat, NEW j \in Nat, i < j
    PROVE  /\ ChunkTo(to, i) \in Int /\ ChunkTo(to, j) \in Int
           /\ ChunkTo(to, j) <= ChunkTo(to, i) - BlocksRange - 1
<1> DEFINE w == BlocksRange + 1
<1>1. w \in Nat
  BY BlocksRangeAssumption
<1>2. i * w \in Nat /\ j * w \in Nat /\ i * w + w <= j * w
  BY <1>1, NextMultiple
<1>3. ChunkTo(to, i) = to - i * w /\ ChunkTo(to, j) = to - j * w
  BY DEF ChunkTo
<1> HIDE DEF w
<1>4. to - j * w <= to - i * w - w
  BY <1>1, <1>2
<1> QED
  BY <1>1, <1>2, <1>3, <1>4, BlocksRangeAssumption DEF w

\* Every block of the range is in a chunk.
LEMMA ChunksCover ==
    ASSUME NEW from \in Nat, NEW to \in Nat, NEW b \in from .. to
    PROVE  \E i \in Chunks(from, to) : b \in Chunk(from, to, i)
<1> DEFINE w == BlocksRange + 1
           i == (to - b) \div w
<1>1. w \in Nat \ {0} /\ to - b \in Nat
  BY BlocksRangeAssumption
<1>2. i \in Nat /\ i <= to - b /\ i * w <= to - b /\ to - b < i * w + w
  BY <1>1, DivisionBounds
<1>3. i * w \in Nat
  BY <1>1, <1>2
<1>4. ChunkTo(to, i) = to - i * w
  BY DEF ChunkTo
<1> HIDE DEF i
<1>5. i \in 0 .. to /\ ChunkTo(to, i) >= b /\ b >= ChunkTo(to, i) - BlocksRange
      /\ ChunkTo(to, i) \in Int
  BY <1>1, <1>2, <1>3, <1>4, BlocksRangeAssumption
<1> QED
  BY <1>5 DEF Chunks, Chunk

\* The blocks of a later chunk are older.
LEMMA LaterChunksAreOlder ==
    ASSUME NEW from \in Nat, NEW to \in Nat, NEW i \in Nat, NEW j \in Nat, i < j,
           NEW b \in Chunk(from, to, i), NEW c \in Chunk(from, to, j)
    PROVE  c < b
<1>1. b \in Int /\ c \in Int /\ b >= ChunkTo(to, i) - BlocksRange /\ c <= ChunkTo(to, j)
  BY ChunkToDescends DEF Chunk
<1> QED
  BY <1>1, ChunkToDescends, BlocksRangeAssumption

\* The first batch of a range with a block is not empty.
LEMMA FirstBatch ==
    ASSUME NEW from \in Nat, NEW to \in Nat, from <= to
    PROVE  Batch(from, to, 0) # {}
<1>1. 0 * (BlocksRange + 1) = 0 /\ 0 * Concurrency = 0 /\ (0 + 1) * Concurrency = Concurrency
  BY BlocksRangeAssumption, ConcurrencyAssumption
<1>2. ChunkTo(to, 0) = to
  BY <1>1 DEF ChunkTo
<1>3. 0 \in Batch(from, to, 0)
  BY <1>1, <1>2, ConcurrencyAssumption DEF Batch, Chunks
<1> QED
  BY <1>3

\* The events of the range are in chunks that have not been asked for yet.
Ahead(from, to, k, events) ==
    \A c \in events : c \in from .. to =>
        \E i \in Chunks(from, to) : i >= k * Concurrency /\ c \in Chunk(from, to, i)

\* A batch one of whose chunks has an event has an answer.
LEMMA BatchAnswers ==
    ASSUME NEW from \in Nat, NEW to \in Nat, NEW k \in Nat, NEW events, events \subseteq Nat,
           NEW i \in Batch(from, to, k), Chunk(from, to, i) \intersect events # {}
    PROVE  Answers(from, to, k, events) # {}
<1> DEFINE hits == {j \in Batch(from, to, k) : Chunk(from, to, j) \intersect events # {}}
<1>1. hits \subseteq Nat /\ hits # {}
  BY DEF Batch, Chunks
<1>2. PICK j \in hits : \A h \in hits : j <= h
  BY <1>1, LeastElement
<1> DEFINE withEvent == Chunk(from, to, j) \intersect events
<1>3. withEvent # {}
  OBVIOUS
<1>4. withEvent \subseteq 0 .. to
  <2>1. j \in Nat /\ ChunkTo(to, j) >= from
    BY <1>1 DEF Batch, Chunks
  <2>2. ChunkTo(to, j) \in Int /\ ChunkTo(to, j) <= to
    BY <2>1, BlocksRangeAssumption DEF ChunkTo
  <2> QED
    BY <2>1, <2>2 DEF Chunk
<1>5. PICK b \in withEvent : \A c \in withEvent : c <= b
  BY <1>3, <1>4, GreatestElement
<1>6. \A h \in Batch(from, to, k) : h < j => Chunk(from, to, h) \intersect events = {}
  BY <1>1, <1>2
<1> QED
  BY <1>2, <1>5, <1>6 DEF Answers

\* An answer is the last event of the range.
LEMMA AnswerIsLast ==
    ASSUME NEW from \in Nat, NEW to \in Nat, NEW k \in Nat, NEW events,
           Ahead(from, to, k, events), NEW b \in Answers(from, to, k, events)
    PROVE  b \in from .. to /\ \A c \in events : c \in from .. to => c <= b
<1>1. PICK i \in Batch(from, to, k) :
        /\ b \in Chunk(from, to, i)
        /\ \A c \in Chunk(from, to, i) \intersect events : c <= b
        /\ \A j \in Batch(from, to, k) : j < i => Chunk(from, to, j) \intersect events = {}
  BY DEF Answers
<1>2. i \in Nat /\ ChunkTo(to, i) \in Int /\ ChunkTo(to, i) <= to
  BY BlocksRangeAssumption DEF Batch, Chunks, ChunkTo
<1>3. b \in from .. to
  BY <1>1, <1>2 DEF Chunk
<1>4. ASSUME NEW c \in events, c \in from .. to PROVE c <= b
  <2>1. PICK j \in Chunks(from, to) : j >= k * Concurrency /\ c \in Chunk(from, to, j)
    BY <1>4 DEF Ahead
  <2>2. j \in Nat
    BY DEF Chunks
  <2>3. CASE j = i
    BY <1>1, <2>1, <2>3
  <2>4. CASE i < j
    BY <1>1, <1>2, <1>3, <2>1, <2>2, <2>4, LaterChunksAreOlder
  <2>5. CASE j < i
    <3>1. k * Concurrency \in Nat /\ (k + 1) * Concurrency \in Nat
      BY ConcurrencyAssumption
    <3>2. j \in Batch(from, to, k)
      BY <1>2, <2>1, <2>2, <2>5, <3>1 DEF Batch
    <3> QED
      BY <1>1, <2>1, <2>5, <3>2
  <2> QED
    BY <1>2, <2>2, <2>3, <2>4, <2>5
<1> QED
  BY <1>3, <1>4

\* After a batch without an answer the events are further ahead.
LEMMA NothingInBatch ==
    ASSUME NEW from \in Nat, NEW to \in Nat, NEW k \in Nat, NEW events, events \subseteq Nat,
           Ahead(from, to, k, events), Answers(from, to, k, events) = {}
    PROVE  Ahead(from, to, k + 1, events)
<1> SUFFICES ASSUME NEW c \in events, c \in from .. to
             PROVE  \E i \in Chunks(from, to) :
                        i >= (k + 1) * Concurrency /\ c \in Chunk(from, to, i)
  BY DEF Ahead
<1>1. PICK i \in Chunks(from, to) : i >= k * Concurrency /\ c \in Chunk(from, to, i)
  BY DEF Ahead
<1>2. i \notin Batch(from, to, k)
  BY <1>1, BatchAnswers
<1>3. i \in Nat /\ (k + 1) * Concurrency \in Nat
  BY ConcurrencyAssumption DEF Chunks
<1> QED
  BY <1>1, <1>2, <1>3 DEF Batch

\* After the last batch there are none.
LEMMA NothingAhead ==
    ASSUME NEW from \in Nat, NEW to \in Nat, NEW k \in Nat, NEW events,
           Ahead(from, to, k + 1, events), ~MoreBatches(from, to, k)
    PROVE  \A c \in events : c \notin from .. to
<1> DEFINE next == (k + 1) * Concurrency
<1>1. next \in Nat
  BY ConcurrencyAssumption
<1>2. ASSUME NEW i \in Chunks(from, to), i >= next PROVE FALSE
  <2>1. i \in 0 .. to /\ ChunkTo(to, i) >= from
    BY DEF Chunks
  <2>2. CASE i = next
    BY <2>2 DEF MoreBatches
  <2>3. CASE next < i
    <3>1. ChunkTo(to, next) >= from
      BY <1>1, <2>1, <2>3, ChunkToDescends, BlocksRangeAssumption
    <3> QED
      BY <1>1, <2>1, <2>3, <3>1 DEF Chunks, MoreBatches
  <2> QED
    BY <1>1, <1>2, <2>1, <2>2, <2>3
<1> QED
  BY <1>2 DEF Ahead

\* As long as no batch has answered, the events are ahead: if that went wrong,
\* it would go wrong with a first batch.
LEMMA AheadOfBatch ==
    ASSUME NEW from \in Nat, NEW to \in Nat, NEW events, events \subseteq Nat, NEW k \in Nat,
           \A j \in 0 .. k - 1 : Answers(from, to, j, events) = {}
    PROVE  Ahead(from, to, k, events)
<1> DEFINE behind == {j \in 0 .. k : ~Ahead(from, to, j, events)}
<1> SUFFICES ASSUME behind # {} PROVE FALSE
  OBVIOUS
<1>1. PICK j \in behind : \A h \in behind : j <= h
  <2>1. behind \subseteq Nat
    OBVIOUS
  <2> QED
    BY <2>1, LeastElement
<1>2. j \in 0 .. k /\ ~Ahead(from, to, j, events)
  OBVIOUS
<1>3. CASE j = 0
  <2>1. 0 * Concurrency = 0 /\ \A i \in Chunks(from, to) : i >= 0
    BY ConcurrencyAssumption DEF Chunks
  <2>2. Ahead(from, to, 0, events)
    BY <2>1, ChunksCover DEF Ahead
  <2> QED
    BY <1>2, <1>3, <2>2
<1>4. CASE j # 0
  <2>1. j - 1 \in 0 .. k - 1 /\ j - 1 \in Nat /\ j - 1 \in 0 .. k /\ (j - 1) + 1 = j
    BY <1>2, <1>4
  <2>2. Ahead(from, to, j - 1, events)
    BY <1>1, <2>1
  <2>3. Ahead(from, to, (j - 1) + 1, events)
    BY <2>1, <2>2, NothingInBatch
  <2> QED
    BY <1>2, <2>1, <2>3
<1> QED
  BY <1>3, <1>4

\* A batch with an answer is reached when there is an event.
LEMMA SomeBatchAnswers ==
    ASSUME NEW from \in Nat, NEW to \in Nat, NEW events, events \subseteq Nat,
           events \intersect (from .. to) # {}
    PROVE  \E k \in Nat : Answers(from, to, k, events) # {}
<1>1. PICK c \in events : c \in from .. to
  OBVIOUS
<1>2. PICK i \in Chunks(from, to) : c \in Chunk(from, to, i)
  BY <1>1, ChunksCover
<1> DEFINE k == i \div Concurrency
<1>3. i \in Nat /\ k \in Nat /\ k * Concurrency <= i /\ i < k * Concurrency + Concurrency
  BY ConcurrencyAssumption, DivisionBounds DEF Chunks
<1>4. (k + 1) * Concurrency = k * Concurrency + Concurrency
  BY <1>3, ConcurrencyAssumption
<1> HIDE DEF k
<1>5. i \in Batch(from, to, k)
  BY <1>3, <1>4 DEF Batch
<1> QED
  BY <1>1, <1>2, <1>3, <1>5, BatchAnswers

\* _get_last_event() is exact (contracts.py:57-81): if the range has events,
\* the batches go on until one answers, and the answer is the last event of the
\* range; if it has none, no batch answers.  For every range, events, size of
\* chunks and size of batches.
THEOREM ScanIsExact ==
    ASSUME NEW from \in Nat, NEW to \in Nat, NEW events, events \subseteq Nat
    PROVE  IF events \intersect (from .. to) = {}
           THEN \A k \in Nat : Answers(from, to, k, events) = {}
           ELSE \E k \in Nat :
                  /\ \A j \in 0 .. k - 1 :
                        Answers(from, to, j, events) = {} /\ MoreBatches(from, to, j)
                  /\ \E last \in events \intersect (from .. to) :
                        /\ \A c \in events \intersect (from .. to) : c <= last
                        /\ Answers(from, to, k, events) = {last}
<1>1. CASE events \intersect (from .. to) = {}
  <2>1. ASSUME NEW k \in Nat, NEW b \in Answers(from, to, k, events) PROVE FALSE
    <3>1. PICK i \in Batch(from, to, k) : b \in Chunk(from, to, i) /\ b \in events
      BY <2>1 DEF Answers
    <3>2. i \in Nat /\ ChunkTo(to, i) \in Int /\ ChunkTo(to, i) <= to
      BY BlocksRangeAssumption DEF Batch, Chunks, ChunkTo
    <3>3. b \in from .. to
      BY <3>1, <3>2 DEF Chunk
    <3> QED
      BY <1>1, <3>1, <3>3
  <2> QED
    BY <1>1, <2>1
<1>2. CASE events \intersect (from .. to) # {}
  <2> DEFINE answering == {k \in Nat : Answers(from, to, k, events) # {}}
  <2>1. PICK k \in answering : \A h \in answering : k <= h
    <3>1. answering \subseteq Nat /\ answering # {}
      BY <1>2, SomeBatchAnswers
    <3> QED
      BY <3>1, LeastElement
  <2>2. k \in Nat /\ \A j \in 0 .. k - 1 : j \in Nat /\ Answers(from, to, j, events) = {}
    BY <2>1
  <2>3. Ahead(from, to, k, events)
    BY <2>2, AheadOfBatch
  <2>4. ASSUME NEW j \in 0 .. k - 1 PROVE MoreBatches(from, to, j)
    <3>1. j \in Nat /\ j + 1 \in Nat /\ \A h \in 0 .. (j + 1) - 1 : h \in 0 .. k - 1
      BY <2>2
    <3>2. Ahead(from, to, j + 1, events)
      BY <2>2, <3>1, AheadOfBatch
    <3> QED
      BY <1>2, <3>1, <3>2, NothingAhead
  <2>5. PICK last \in Answers(from, to, k, events) : TRUE
    BY <2>1
  <2>6. \A b \in Answers(from, to, k, events) :
          b \in from .. to /\ b \in events /\ \A c \in events : c \in from .. to => c <= b
    BY <2>2, <2>3, AnswerIsLast DEF Answers
  <2>7. last \in events \intersect (from .. to)
        /\ \A c \in events \intersect (from .. to) : c <= last
    BY <2>5, <2>6
  <2>8. \A b \in Answers(from, to, k, events) : b = last
    BY <2>5, <2>6, <2>7
  <2>9. Answers(from, to, k, events) = {last}
    BY <2>5, <2>8
  <2> QED
    BY <1>2, <2>2, <2>4, <2>7, <2>9
<1> QED
  BY <1>1, <1>2

-----------------------------------------------------------------------------
(* The inductive invariant                                                 *)

\* What the release of the keeper relies on.
ReleaseOK ==
    /\ EventBlock \in Updates
    /\ \A b \in Updates : b <= EventBlock \/ b > CheckpointBlock

\* A call looks at final blocks only, from after the checkpoint.
RangeOK ==
    pc # "idle" => toBlock \in 1 .. finalized /\ fromBlock = ScanFrom

ScanOK ==
    pc = "scan" => Ahead(fromBlock, toBlock, batch, Updates)

FallbackOK ==
    pc = "fallback" =>
        checkpoint = NoBlock /\ \A b \in Updates : b <= CheckpointBlock \/ b > toBlock

\* What will be stored is in force at a block that is not before the one that
\* will be the checkpoint.
FoundOK ==
    pc \in {"ipfs", "threshold"} => \E k \in toBlock .. finalized : InForce(found, k)

IInv ==
    /\ TypeOK /\ ReleaseOK /\ RangeOK /\ ScanOK /\ FallbackOK /\ FoundOK
    /\ NoUpdateMissed

\* An update is in a block of the chain and sets a configuration.
LEMMA UpdatesAreBlocks ==
    ASSUME TypeOK
    PROVE  /\ Updates \subseteq Nat \ {0} /\ Len(blocks) \in Nat
           /\ finalized \in Nat /\ finalized <= Len(blocks)
           /\ \A b \in Updates : b \in 1 .. Len(blocks) /\ blocks[b].update \in Configs
<1>1. Len(blocks) \in Nat /\ finalized \in Nat /\ finalized <= Len(blocks)
  BY CheckpointAssumption DEF TypeOK
<1>2. \A b \in 1 .. Len(blocks) : blocks[b] \in Blocks
  BY DEF TypeOK
<1> QED
  BY <1>1, <1>2 DEF Updates, Blocks

\* A configuration stays in force while there is no update.
LEMMA StaysInForce ==
    ASSUME TypeOK, NEW c, NEW k \in Nat, NEW m \in Nat, k <= m, InForce(c, k),
           \A b \in Updates : b <= k \/ b > m
    PROVE  InForce(c, m)
<1>1. PICK b \in Updates :
        /\ b <= k
        /\ c = blocks[b].update
        /\ \A a \in Updates : a <= k => a <= b
  BY DEF InForce
<1>2. b \in Nat /\ b <= m
  BY <1>1, UpdatesAreBlocks
<1>3. ASSUME NEW a \in Updates, a <= m PROVE a <= b
  BY <1>1, <1>3, UpdatesAreBlocks
<1> QED
  BY <1>1, <1>2, <1>3 DEF InForce

\* Whatever the chain does, its final blocks stay.
FinalBlocksStay ==
    /\ finalized' \in finalized .. Len(blocks')
    /\ \A b \in 1 .. finalized : blocks'[b] = blocks[b]
    /\ \A b \in 1 .. finalized : b \in Updates' <=> b \in Updates

\* No step of the chain touches a final block.
LEMMA FinalBlocks ==
    ASSUME TypeOK, NewBlock \/ Finalize \/ Reorg
    PROVE  blocks' \in Seq(Blocks) /\ Len(blocks') <= MaxBlocks /\ FinalBlocksStay
<1>1. /\ blocks \in Seq(Blocks) /\ Len(blocks) \in Nat /\ Len(blocks) <= MaxBlocks
      /\ finalized \in Nat /\ finalized <= Len(blocks) /\ MaxBlocks \in Nat
  BY UpdatesAreBlocks, MaxBlocksAssumption DEF TypeOK
<1>2. /\ blocks' \in Seq(Blocks) /\ Len(blocks') <= MaxBlocks
      /\ finalized' \in finalized .. Len(blocks')
      /\ \A b \in 1 .. finalized : blocks'[b] = blocks[b]
  <2>1. CASE NewBlock
    <3>1. PICK b \in Blocks : blocks' = Append(blocks, b)
      BY <2>1 DEF NewBlock
    <3>2. /\ blocks' \in Seq(Blocks) /\ Len(blocks') = Len(blocks) + 1
          /\ \A a \in 1 .. Len(blocks) : blocks'[a] = blocks[a]
      BY <1>1, <3>1, AppendProperties
    <3> QED
      BY <1>1, <2>1, <3>2 DEF NewBlock
  <2>2. CASE Finalize
    BY <1>1, <2>2 DEF Finalize
  <2>3. CASE Reorg
    <3>1. PICK n \in finalized .. Len(blocks) - 1 : blocks' = SubSeq(blocks, 1, n)
      BY <2>3 DEF Reorg
    <3>2. n \in Nat /\ n <= Len(blocks)
      BY <1>1, <3>1
    <3>3. /\ blocks' \in Seq(Blocks) /\ Len(blocks') = n
          /\ \A a \in 1 .. n : blocks'[a] = blocks[a]
      BY <1>1, <3>1, <3>2
    <3> QED
      BY <1>1, <2>3, <3>1, <3>2, <3>3 DEF Reorg
  <2> QED
    BY <2>1, <2>2, <2>3
<1>3. \A b \in 1 .. finalized : b \in 1 .. Len(blocks) /\ b \in 1 .. Len(blocks')
  BY <1>1, <1>2
<1> QED
  BY <1>2, <1>3 DEF FinalBlocksStay, Updates

\* What was in force at a final block still is.
LEMMA FinalInForce ==
    ASSUME TypeOK, FinalBlocksStay, NEW c, NEW k \in Nat, k <= finalized, InForce(c, k)
    PROVE  \E b \in Updates' :
              /\ b <= k
              /\ c = blocks'[b].update
              /\ \A a \in Updates' : a <= k => a <= b
<1>1. PICK b \in Updates :
        /\ b <= k
        /\ c = blocks[b].update
        /\ \A a \in Updates : a <= k => a <= b
  BY DEF InForce
<1>2. finalized \in Nat /\ b \in 1 .. finalized
  BY <1>1, UpdatesAreBlocks
<1>3. ASSUME NEW a \in Updates', a <= k PROVE a <= b
  <2>1. a \in 1 .. finalized
    BY <1>2, <1>3 DEF Updates
  <2> QED
    BY <1>1, <1>3, <2>1 DEF FinalBlocksStay
<1>4. b \in Updates' /\ blocks'[b] = blocks[b]
  BY <1>2 DEF FinalBlocksStay
<1> QED
  BY <1>1, <1>3, <1>4

-----------------------------------------------------------------------------
(* The steps                                                               *)

\* The invariant holds when the keeper starts.
LEMMA InitOK == ASSUME Init PROVE IInv
<1>1. PICK c \in Configs, m \in Thresholds :
        blocks = [b \in 1 .. CheckpointBlock |->
                    [update |-> IF b = EventBlock THEN c ELSE NoConfig, threshold |-> m]]
  BY DEF Init
<1>2. /\ CheckpointBlock \in Nat /\ EventBlock \in 1 .. CheckpointBlock
      /\ CheckpointBlock <= MaxBlocks /\ MaxBlocks \in Nat
  BY CheckpointAssumption, MaxBlocksAssumption
<1>3. blocks \in Seq(Blocks) /\ Len(blocks) = CheckpointBlock
  <2>1. \A b \in 1 .. CheckpointBlock : blocks[b] \in Blocks
    BY <1>1 DEF Blocks
  <2> QED
    BY <1>1, <1>2, <2>1
<1>4. Updates = {EventBlock}
  BY <1>1, <1>2, <1>3, NothingAssumption DEF Updates
<1>5. TypeOK
  BY <1>2, <1>3 DEF Init, TypeOK
<1> QED
  BY <1>2, <1>4, <1>5 DEF Init, IInv, ReleaseOK, RangeOK, ScanOK, FallbackOK, FoundOK, NoUpdateMissed

\* The chain moves while a call waits, or between calls.
LEMMA ChainStep ==
    ASSUME IInv, NewBlock \/ Finalize \/ Reorg
    PROVE  IInv'
<1>1. UNCHANGED <<cacheVars, pc, scanVars, outcome>>
  BY DEF NewBlock, Finalize, Reorg
<1>2. TypeOK /\ FinalBlocksStay /\ blocks' \in Seq(Blocks) /\ Len(blocks') <= MaxBlocks
  BY FinalBlocks DEF IInv
<1>3. finalized \in Nat /\ finalized' \in Nat /\ finalized <= finalized'
      /\ CheckpointBlock \in Nat /\ CheckpointBlock <= finalized
      /\ EventBlock \in 1 .. finalized
  BY <1>2, UpdatesAreBlocks, CheckpointAssumption DEF FinalBlocksStay, TypeOK
<1>4. TypeOK'
  BY <1>1, <1>2, <1>3 DEF TypeOK, FinalBlocksStay, cacheVars, scanVars
<1>5. \A b \in Updates' : b \in 1 .. finalized => b \in Updates
  BY <1>2 DEF FinalBlocksStay
<1>6. \A b \in Updates' : b \in Nat \ {0}
  BY <1>4, UpdatesAreBlocks DEF Updates
<1>7. ReleaseOK'
  <2>1. EventBlock \in Updates'
    BY <1>2, <1>3 DEF IInv, ReleaseOK, FinalBlocksStay
  <2>2. ASSUME NEW b \in Updates' PROVE b <= EventBlock \/ b > CheckpointBlock
    BY <1>3, <1>5, <1>6 DEF IInv, ReleaseOK
  <2> QED
    BY <2>1, <2>2 DEF ReleaseOK
<1>8. RangeOK'
  BY <1>1, <1>3 DEF IInv, RangeOK, ScanFrom, cacheVars, scanVars
<1>9. ScanOK'
  <2>1. SUFFICES ASSUME pc = "scan", NEW c \in Updates', c \in fromBlock .. toBlock
                 PROVE  c \in Updates
    BY <1>1 DEF ScanOK, Ahead, IInv, scanVars
  <2> QED
    BY <1>3, <1>5, <1>6, <2>1 DEF IInv, RangeOK
<1>10. FallbackOK'
  <2>1. SUFFICES ASSUME pc = "fallback", NEW b \in Updates'
                 PROVE  checkpoint = NoBlock /\ (b <= CheckpointBlock \/ b > toBlock)
    BY <1>1 DEF IInv, FallbackOK, cacheVars, scanVars
  <2>2. toBlock \in 1 .. finalized
    BY <2>1 DEF IInv, RangeOK
  <2> QED
    BY <1>3, <1>5, <1>6, <2>1, <2>2 DEF IInv, FallbackOK
<1>11. FoundOK'
  <2>1. SUFFICES ASSUME pc \in {"ipfs", "threshold"}
                 PROVE  \E k \in toBlock .. finalized' : InForce(found, k)'
    BY <1>1 DEF FoundOK, scanVars
  <2>2. PICK k \in toBlock .. finalized : InForce(found, k)
    BY <2>1 DEF IInv, FoundOK
  <2>3. k \in Nat /\ k <= finalized /\ toBlock <= k
    BY <1>2, <1>3 DEF TypeOK
  <2>4. InForce(found, k)'
    <3>1. found' = found
      BY <1>1 DEF scanVars
    <3>2. \E b \in Updates' :
              /\ b <= k
              /\ found = blocks'[b].update
              /\ \A a \in Updates' : a <= k => a <= b
      BY <1>2, <2>2, <2>3, FinalInForce
    <3> QED
      BY <3>1, <3>2 DEF InForce
  <2> QED
    BY <1>3, <2>3, <2>4
<1>12. NoUpdateMissed'
  <2>1. SUFFICES ASSUME checkpoint # NoBlock
                 PROVE  \E k \in checkpoint .. finalized' : InForce(config, k)'
    BY <1>1 DEF NoUpdateMissed, cacheVars
  <2>2. PICK k \in checkpoint .. finalized : InForce(config, k)
    BY <2>1 DEF IInv, NoUpdateMissed
  <2>3. k \in Nat /\ k <= finalized /\ checkpoint <= k
    BY <1>2, <1>3, <2>1 DEF TypeOK
  <2>4. InForce(config, k)'
    <3>1. config' = config
      BY <1>1 DEF cacheVars
    <3>2. \E b \in Updates' :
              /\ b <= k
              /\ config = blocks'[b].update
              /\ \A a \in Updates' : a <= k => a <= b
      BY <1>2, <2>2, <2>3, FinalInForce
    <3> QED
      BY <3>1, <3>2 DEF InForce
  <2> QED
    BY <1>3, <2>3, <2>4
<1> QED
  BY <1>4, <1>7, <1>8, <1>9, <1>10, <1>11, <1>12 DEF IInv

\* What a step that leaves the chain alone keeps without more ado.
LEMMA ChainAlone ==
    ASSUME IInv, UNCHANGED chainVars
    PROVE  /\ ReleaseOK' /\ Updates' = Updates
           /\ \A c, k : InForce(c, k) <=> \E b \in Updates' :
                  /\ b <= k
                  /\ c = blocks'[b].update
                  /\ \A a \in Updates' : a <= k => a <= b
<1>1. blocks' = blocks /\ finalized' = finalized
  BY DEF chainVars
<1>2. Updates' = Updates
  BY <1>1 DEF Updates
<1> QED
  BY <1>1, <1>2 DEF IInv, ReleaseOK, InForce

\* The numbers a call works with.
LEMMA Numbers ==
    ASSUME IInv
    PROVE  /\ finalized \in Nat /\ finalized <= MaxBlocks /\ MaxBlocks \in Nat
           /\ CheckpointBlock \in Nat /\ CheckpointBlock <= finalized
           /\ EventBlock \in Nat /\ EventBlock <= CheckpointBlock
           /\ toBlock \in Nat /\ fromBlock \in Nat /\ batch \in Nat
           /\ checkpoint # NoBlock => checkpoint \in Nat
           /\ Updates \subseteq Nat
BY UpdatesAreBlocks, CheckpointAssumption, MaxBlocksAssumption DEF IInv, TypeOK

\* With a warm cache and no update after the checkpoint, the cached
\* configuration is in force at, or after, the new checkpoint.
LEMMA CachedStays ==
    ASSUME IInv, checkpoint # NoBlock, NEW m \in 1 .. finalized,
           \A b \in Updates : b <= checkpoint \/ b > m
    PROVE  \E k \in m .. finalized : InForce(config, k)
<1>1. PICK k \in checkpoint .. finalized : InForce(config, k)
  BY DEF IInv, NoUpdateMissed
<1>2. k \in Nat /\ m \in Nat /\ finalized \in Nat /\ checkpoint \in Nat
      /\ checkpoint <= k /\ k <= finalized /\ m <= finalized /\ Updates \subseteq Nat
  BY <1>1, Numbers
<1>3. CASE m <= k
  BY <1>1, <1>2, <1>3
<1>4. CASE k < m
  <2>1. \A b \in Updates : b <= k \/ b > m
    BY <1>2
  <2>2. InForce(config, m)
    BY <1>1, <1>2, <1>4, <2>1, StaysInForce DEF IInv
  <2> QED
    BY <1>2, <2>2
<1> QED
  BY <1>2, <1>3, <1>4

\* The search ends without an event.
LEMMA UnchangedStep ==
    ASSUME IInv, Unchanged, UNCHANGED <<cacheVars, chainVars>>, toBlock' \in 1 .. finalized,
           \A b \in Updates : b < ScanFrom \/ b > toBlock'
    PROVE  FallbackOK' /\ FoundOK' /\ pc' \in {"fallback", "threshold"}
           /\ found' \in Configs \union {NoConfig}
<1>1. /\ Updates' = Updates /\ checkpoint' = checkpoint /\ config' = config
      /\ finalized' = finalized
  BY ChainAlone DEF cacheVars, chainVars
<1>2. toBlock' \in Nat /\ Updates \subseteq Nat /\ CheckpointBlock \in Nat
      /\ (checkpoint # NoBlock => checkpoint \in Nat)
  BY Numbers
<1>3. CASE checkpoint = NoBlock
  <2>1. pc' = "fallback" /\ found' = found
    BY <1>3 DEF Unchanged
  <2>2. \A b \in Updates : b <= CheckpointBlock \/ b > toBlock'
    BY <1>2, <1>3 DEF ScanFrom
  <2> QED
    BY <1>1, <1>3, <2>1, <2>2 DEF FallbackOK, FoundOK, IInv, TypeOK
<1>4. CASE checkpoint # NoBlock
  <2>1. pc' = "threshold" /\ found' = config
    BY <1>4 DEF Unchanged
  <2>2. \A b \in Updates : b <= checkpoint \/ b > toBlock'
    BY <1>2, <1>4 DEF ScanFrom
  <2>3. PICK k \in toBlock' .. finalized : InForce(config, k)
    BY <1>4, <2>2, CachedStays
  <2>4. InForce(found, k)'
    <3>1. \E b \in Updates' :
              /\ b <= k
              /\ config = blocks'[b].update
              /\ \A a \in Updates' : a <= k => a <= b
      BY <2>3, ChainAlone
    <3> QED
      BY <2>1, <3>1 DEF InForce
  <2> QED
    BY <1>1, <2>1, <2>3, <2>4 DEF FallbackOK, FoundOK, IInv, TypeOK
<1> QED
  BY <1>3, <1>4

\* A call opens the range it will scan, or finds it empty.
LEMMA GetBlockOK ==
    ASSUME IInv, GetBlock
    PROVE  IInv'
<1>1. /\ UNCHANGED <<cacheVars, chainVars, outcome>> /\ pc = "idle"
      /\ toBlock' \in 1 .. finalized /\ fromBlock' = ScanFrom /\ batch' = 0
  BY DEF GetBlock, Reported
<1>2. /\ checkpoint' = checkpoint /\ config' = config /\ finalized' = finalized
      /\ blocks' = blocks /\ ScanFrom' = ScanFrom
  BY <1>1 DEF cacheVars, chainVars, ScanFrom
<1>3. ReleaseOK' /\ NoUpdateMissed' /\ Updates' = Updates
  BY <1>1, <1>2, ChainAlone DEF IInv, NoUpdateMissed, InForce
<1>4. ScanFrom \in Nat /\ ScanFrom <= MaxBlocks + 1 /\ toBlock' \in Nat /\ toBlock' <= MaxBlocks
  BY <1>1, Numbers DEF ScanFrom, IInv, TypeOK
<1>5. RangeOK'
  BY <1>1, <1>2 DEF RangeOK
<1>6. /\ FallbackOK' /\ FoundOK' /\ ScanOK'
      /\ pc' \in {"scan", "fallback", "threshold"} /\ found' \in Configs \union {NoConfig}
      /\ pc' = "scan" => Batch(ScanFrom, toBlock', 0) # {}
  <2>1. CASE ScanFrom <= toBlock'
    <3>1. pc' = "scan" /\ found' = found
      BY <1>1, <2>1 DEF GetBlock
    <3>2. Ahead(ScanFrom, toBlock', 0, Updates)
      <4>1. SUFFICES ASSUME NEW c \in Updates, c \in ScanFrom .. toBlock'
                     PROVE  \E i \in Chunks(ScanFrom, toBlock') :
                                i >= 0 * Concurrency /\ c \in Chunk(ScanFrom, toBlock', i)
        BY DEF Ahead
      <4>2. PICK i \in Chunks(ScanFrom, toBlock') : c \in Chunk(ScanFrom, toBlock', i)
        BY <1>4, <4>1, ChunksCover
      <4>3. i >= 0 * Concurrency
        BY ConcurrencyAssumption DEF Chunks
      <4> QED
        BY <4>2, <4>3
    <3>3. Batch(ScanFrom, toBlock', 0) # {}
      BY <1>4, <2>1, FirstBatch
    <3>4. ScanOK'
      BY <1>1, <1>3, <3>2 DEF ScanOK
    <3>5. FallbackOK' /\ FoundOK'
      BY <3>1 DEF FallbackOK, FoundOK
    <3>6. found' \in Configs \union {NoConfig}
      BY <3>1 DEF IInv, TypeOK
    <3> QED
      BY <3>1, <3>3, <3>4, <3>5, <3>6
  <2>2. CASE ~(ScanFrom <= toBlock')
    <3>1. Unchanged
      BY <1>1, <2>2 DEF GetBlock
    <3>2. \A b \in Updates : b < ScanFrom \/ b > toBlock'
      BY <1>4, <2>2, Numbers
    <3> QED
      BY <1>1, <3>1, <3>2, UnchangedStep DEF ScanOK
  <2> QED
    BY <2>1, <2>2
<1>7. TypeOK'
  BY <1>1, <1>2, <1>4, <1>6 DEF IInv, TypeOK, cacheVars, chainVars
<1> QED
  BY <1>3, <1>5, <1>6, <1>7 DEF IInv

\* A batch of chunks is read: its answer is the last update of the range, or
\* the updates of the range are further ahead.
LEMMA ScanBatchOK ==
    ASSUME IInv, ScanBatch
    PROVE  IInv'
<1>1. /\ UNCHANGED <<toBlock, fromBlock, cacheVars, chainVars, outcome>> /\ pc = "scan"
      /\ toBlock \in 1 .. finalized /\ fromBlock = ScanFrom
      /\ Ahead(fromBlock, toBlock, batch, Updates)
  BY DEF ScanBatch, IInv, RangeOK, ScanOK
<1>2. /\ checkpoint' = checkpoint /\ config' = config /\ finalized' = finalized
      /\ blocks' = blocks /\ ScanFrom' = ScanFrom
      /\ toBlock' = toBlock /\ fromBlock' = fromBlock
  BY <1>1 DEF cacheVars, chainVars, ScanFrom
<1>3. ReleaseOK' /\ NoUpdateMissed' /\ Updates' = Updates
  BY <1>1, <1>2, ChainAlone DEF IInv, NoUpdateMissed, InForce
<1>4. RangeOK'
  BY <1>1, <1>2 DEF RangeOK
<1>5. /\ FallbackOK' /\ FoundOK' /\ ScanOK' /\ batch' \in Nat
      /\ pc' \in {"scan", "fallback", "ipfs", "threshold"} /\ found' \in Configs \union {NoConfig}
      /\ pc' = "scan" => Batch(fromBlock, toBlock, batch') # {}
  <2> DEFINE answers == Answers(fromBlock, toBlock, batch, Updates)
  <2>1. CASE \E b \in answers : found' = blocks[b].update /\ pc' = "ipfs" /\ UNCHANGED batch
    <3>1. PICK b \in answers : found' = blocks[b].update
      BY <2>1
    <3>2. b \in fromBlock .. toBlock /\ \A c \in Updates : c \in fromBlock .. toBlock => c <= b
      BY <1>1, Numbers, AnswerIsLast
    <3>3. b \in Updates
      BY DEF Answers
    <3>4. \A c \in Updates : c <= toBlock => c <= b
      BY <3>2, Numbers
    <3>5. InForce(found, toBlock)'
      BY <1>2, <1>3, <3>1, <3>2, <3>3, <3>4, Numbers DEF InForce
    <3>6. found' \in Configs
      BY <3>1, <3>3, UpdatesAreBlocks DEF IInv
    <3> QED
      BY <1>1, <1>2, <2>1, <3>5, <3>6, Numbers DEF FallbackOK, FoundOK, ScanOK
  <2>2. CASE /\ answers = {} /\ MoreBatches(fromBlock, toBlock, batch)
             /\ batch' = batch + 1 /\ UNCHANGED <<pc, found>>
    <3>1. Ahead(fromBlock, toBlock, batch + 1, Updates)
      BY <1>1, <2>2, Numbers, NothingInBatch
    <3>2. (batch + 1) * Concurrency \in Batch(fromBlock, toBlock, batch + 1)
      <4>1. batch + 1 \in Nat /\ Concurrency \in Nat \ {0}
        BY Numbers, ConcurrencyAssumption
      <4>2. (batch + 1) * Concurrency \in Nat
            /\ (batch + 1) * Concurrency < ((batch + 1) + 1) * Concurrency
        BY <4>1
      <4> QED
        BY <2>2, <4>2 DEF Batch, MoreBatches
    <3> QED
      BY <1>1, <1>2, <1>3, <2>2, <3>1, <3>2, Numbers DEF FallbackOK, FoundOK, ScanOK, IInv, TypeOK
  <2>3. CASE /\ answers = {} /\ ~MoreBatches(fromBlock, toBlock, batch)
             /\ Unchanged /\ UNCHANGED batch
    <3>1. \A c \in Updates : c \notin fromBlock .. toBlock
      <4>1. Ahead(fromBlock, toBlock, batch + 1, Updates)
        BY <1>1, <2>3, Numbers, NothingInBatch
      <4> QED
        BY <2>3, <4>1, Numbers, NothingAhead
    <3>2. \A b \in Updates : b < ScanFrom \/ b > toBlock'
      BY <1>1, <1>2, <3>1, Numbers
    <3> QED
      BY <1>1, <1>2, <2>3, <3>2, UnchangedStep, Numbers DEF ScanOK
  <2> QED
    BY <2>1, <2>2, <2>3 DEF ScanBatch
<1>6. TypeOK'
  BY <1>1, <1>2, <1>5 DEF IInv, TypeOK, cacheVars, chainVars
<1> QED
  BY <1>3, <1>4, <1>5, <1>6 DEF IInv

\* Without an update since the release, the one known in advance is in force.
LEMMA FallbackStepOK ==
    ASSUME IInv, Fallback
    PROVE  IInv'
<1>1. /\ UNCHANGED <<toBlock, fromBlock, batch, cacheVars, chainVars, outcome>>
      /\ pc = "fallback" /\ pc' = "ipfs"
      /\ EventBlock \in Updates /\ found' = blocks[EventBlock].update
      /\ toBlock \in 1 .. finalized /\ fromBlock = ScanFrom
      /\ \A b \in Updates : b <= CheckpointBlock \/ b > toBlock
  BY DEF Fallback, IInv, RangeOK, FallbackOK
<1>2. /\ checkpoint' = checkpoint /\ config' = config /\ finalized' = finalized
      /\ blocks' = blocks /\ ScanFrom' = ScanFrom
      /\ toBlock' = toBlock /\ fromBlock' = fromBlock
  BY <1>1 DEF cacheVars, chainVars, ScanFrom
<1>3. ReleaseOK' /\ NoUpdateMissed' /\ Updates' = Updates
  BY <1>1, <1>2, ChainAlone DEF IInv, NoUpdateMissed, InForce
<1>4. \A b \in Updates : b <= EventBlock \/ b > toBlock
  BY <1>1, Numbers DEF IInv, ReleaseOK
<1>5. \E k \in toBlock .. finalized : InForce(found, k)'
  <2>1. CASE EventBlock <= toBlock
    <3>1. \A a \in Updates : a <= toBlock => a <= EventBlock
      BY <1>1, <1>4, Numbers
    <3>2. InForce(found, toBlock)'
      BY <1>1, <1>2, <1>3, <2>1, <3>1 DEF InForce
    <3> QED
      BY <1>1, <1>2, <3>2, Numbers
  <2>2. CASE toBlock < EventBlock
    <3>1. EventBlock \in toBlock .. finalized
      BY <2>2, Numbers
    <3>2. InForce(found, EventBlock)'
      BY <1>1, <1>2, <1>3, Numbers DEF InForce
    <3> QED
      BY <3>1, <3>2
  <2> QED
    BY <2>1, <2>2, Numbers
<1>6. found' \in Configs
  BY <1>1, UpdatesAreBlocks DEF IInv
<1>7. TypeOK'
  BY <1>1, <1>2, <1>6 DEF IInv, TypeOK, cacheVars, chainVars
<1> QED
  BY <1>1, <1>2, <1>3, <1>5, <1>7 DEF IInv, RangeOK, ScanOK, FallbackOK, FoundOK

\* The file of the configuration is fetched.
LEMMA FetchConfigOK ==
    ASSUME IInv, FetchConfig
    PROVE  IInv'
<1>1. /\ UNCHANGED <<scanVars, cacheVars, chainVars, outcome>>
      /\ pc = "ipfs" /\ pc' = "threshold"
  BY DEF FetchConfig
<1>2. /\ ReleaseOK' /\ NoUpdateMissed' /\ RangeOK'
  BY <1>1, ChainAlone DEF IInv, NoUpdateMissed, InForce, RangeOK, ScanFrom, cacheVars, chainVars,
                          scanVars
<1>3. FoundOK' /\ ScanOK' /\ FallbackOK' /\ TypeOK'
  BY <1>1, ChainAlone DEF IInv, TypeOK, FoundOK, ScanOK, FallbackOK, InForce, cacheVars, chainVars,
                          scanVars
<1> QED
  BY <1>2, <1>3 DEF IInv

\* The cache is written: what was found is in force at the new checkpoint.
LEMMA ReadThresholdOK ==
    ASSUME IInv, ReadThreshold
    PROVE  IInv'
<1>1. /\ pc = "threshold" /\ pc' = "idle" /\ UNCHANGED chainVars
      /\ threshold' = blocks[Len(blocks)].threshold
      /\ checkpoint' = toBlock /\ config' = found /\ outcome' \in {"returned", "raised"}
      /\ toBlock' = 0 /\ fromBlock' = 0 /\ batch' = 0 /\ found' = NoConfig
      /\ blocks' = blocks /\ finalized' = finalized
  BY DEF ReadThreshold, End, chainVars
<1>2. toBlock \in 1 .. finalized
  BY <1>1 DEF IInv, RangeOK
<1>3. threshold' \in Thresholds
  <2>1. Len(blocks) \in 1 .. Len(blocks) /\ blocks \in Seq(Blocks)
    BY <1>2, Numbers, UpdatesAreBlocks DEF IInv, TypeOK
  <2>2. blocks[Len(blocks)] \in Blocks
    BY <2>1
  <2> QED
    BY <1>1, <2>2 DEF Blocks
<1>4. TypeOK'
  BY <1>1, <1>2, <1>3, Numbers DEF IInv, TypeOK
<1>5. NoUpdateMissed'
  BY <1>1, ChainAlone DEF IInv, FoundOK, NoUpdateMissed, InForce
<1>6. ReleaseOK'
  BY <1>1, ChainAlone
<1> QED
  BY <1>1, <1>4, <1>5, <1>6 DEF IInv, RangeOK, ScanOK, FallbackOK, FoundOK

\* A call that fails, and a restart, leave no call behind and no half-written
\* cache.
LEMMA EndedOK ==
    ASSUME IInv, Fail \/ Restart
    PROVE  IInv'
<1>1. /\ pc' = "idle" /\ UNCHANGED chainVars /\ outcome' \in {"raised", "fresh"}
      /\ toBlock' = 0 /\ fromBlock' = 0 /\ batch' = 0 /\ found' = NoConfig
      /\ \/ checkpoint' = NoBlock /\ config' = NoConfig /\ threshold' = 0
         \/ checkpoint' = checkpoint /\ config' = config /\ threshold' = threshold
  BY DEF Fail, Restart, End, cacheVars
<1>2. blocks' = blocks /\ finalized' = finalized
  BY <1>1 DEF chainVars
<1>3. TypeOK'
  BY <1>1, <1>2, Numbers DEF IInv, TypeOK
<1>4. NoUpdateMissed'
  BY <1>1, <1>2, ChainAlone DEF IInv, NoUpdateMissed, InForce
<1> QED
  BY <1>1, <1>3, <1>4, ChainAlone DEF IInv, RangeOK, ScanOK, FallbackOK, FoundOK

\* Every step keeps the invariant.
LEMMA NextOK == IInv /\ [Next]_vars => IInv'
<1> SUFFICES ASSUME IInv, [Next]_vars PROVE IInv'
  OBVIOUS
<1>1. CASE NewBlock \/ Finalize \/ Reorg
  BY <1>1, ChainStep
<1>2. CASE GetBlock
  BY <1>2, GetBlockOK
<1>3. CASE ScanBatch
  BY <1>3, ScanBatchOK
<1>4. CASE Fallback
  BY <1>4, FallbackStepOK
<1>5. CASE FetchConfig
  BY <1>5, FetchConfigOK
<1>6. CASE ReadThreshold
  BY <1>6, ReadThresholdOK
<1>7. CASE Fail \/ Restart
  BY <1>7, EndedOK
<1>8. CASE UNCHANGED vars
  <2>1. UNCHANGED <<chainVars, cacheVars, pc, scanVars, outcome>>
    BY <1>8 DEF vars
  <2>2. ReleaseOK' /\ NoUpdateMissed' /\ RangeOK' /\ FoundOK'
    BY <2>1, ChainAlone DEF IInv, NoUpdateMissed, InForce, RangeOK, FoundOK, ScanFrom,
                            cacheVars, chainVars, scanVars
  <2>3. ScanOK' /\ FallbackOK' /\ TypeOK'
    BY <2>1, ChainAlone DEF IInv, TypeOK, ScanOK, FallbackOK, cacheVars, chainVars, scanVars
  <2> QED
    BY <2>2, <2>3 DEF IInv
<1> QED
  BY <1>1, <1>2, <1>3, <1>4, <1>5, <1>6, <1>7, <1>8 DEF Next, Run

\* The invariant holds of every execution of get_protocol_config().
LEMMA Invariance == Spec => []IInv
<1>1. Init => IInv
  BY InitOK
<1> QED
  BY <1>1, NextOK, PTL DEF Spec

\* The types of the state hold; in particular a batch that is asked for is not
\* empty (the asyncio.gather of _get_last_event never gathers nothing).
THEOREM TypeCorrect == Spec => []TypeOK
<1>1. IInv => TypeOK
  BY DEF IInv
<1> QED
  BY <1>1, Invariance, PTL

\* The cached configuration is in force at, or after, the checkpoint, whatever
\* the sizes of chunks and batches, however the chain grows and reorgs and
\* however far behind an endpoint is: no update between two checkpoints is lost.
THEOREM NothingMissed == Spec => []NoUpdateMissed
<1>1. IInv => NoUpdateMissed
  BY DEF IInv
<1> QED
  BY <1>1, Invariance, PTL

=============================================================================
