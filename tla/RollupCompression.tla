------------------------- MODULE RollupCompression -------------------------
(***************************************************************************)
(* Rollups: what the sequencer's enclave puts into one (CreateRollup,      *)
(* BatchesAfter, createRollupHeader) and the batches a reader makes of it  *)
(* (createIncompleteBatches, executeAndSaveIncompleteBatches).             *)
(*                                                                         *)
(* A rollup leaves out what the reader can work out: hashes, parents,      *)
(* heights and the L1 block of a canonical batch, of which only the        *)
(* difference in number to the batch before is kept.  Only the batches     *)
(* that are not canonical for the sequencer come with their whole header.  *)
(* Making a rollup changes nothing in the enclave: it is a function of     *)
(* the sequencer's state (SequencerEnclave).                               *)
(***************************************************************************)
EXTENDS SequencerEnclave

CONSTANTS
  RollupDelay,   \* L1 blocks left out of a rollup
  Half           \* 2^63, half the values of uint64: only wrapping around matters

ASSUME RollupAssumption ==
  /\ Half \in Nat
  /\ RollupDelay \in 0 .. Half - 1
  /\ \A b \in Block : Number[b] < Half

NoHeader == [height |-> -1]
-----------------------------------------------------------------------------
(* The sequencer makes a rollup of the batches from..last.                  *)

\* sequencer.CreateRollup: a subtraction of uint64s
UpToL1Height == (Number[currentL1Head] - RollupDelay) % (2 * Half)

\* mutant: the block height of a batch is not looked at
BatchesAfterMutant(from) == from .. headBatchSeq

\* batchRegistry.BatchesAfter: what the last batch of the rollup can be; the
\* limiter may stop at any of them
BatchesAfter(from) ==
  {last \in from .. headBatchSeq : \A i \in from .. last : Number[L1Proof(i)] <= UpToL1Height}

Int64(n) == IF n >= Half THEN n - 2 * Half ELSE n

\* CreateInternalRollup: FetchCanonicaBlockByHeight, the block the rollup is
\* compressed on; without one there is no rollup
CompressionL1Heads == {b \in canonicalBlocks : Number[b] = Int64(UpToL1Height)}

\* FetchNonCanonicalBatchesBetween
Reorgs(from, last) == (from .. last) \ canonicalBatches

\* mutant: the parent of the first batch
FirstCanonParentMutant(from, last) == batches[from].parent

\* the parent of the first canonical batch, of the first batch if none is
FirstCanonParent(from, last) ==
  LET canon == (from .. last) \ Reorgs(from, last)
  IN  batches[IF canon = {} THEN from ELSE CHOOSE i \in canon : \A j \in canon : i <= j].parent

\* createRollupHeader, with the transactions
CreateExtRollup(from, last, c) ==
  [first |-> from,
   compressionL1Head |-> c,
   firstCanonParent |-> FirstCanonParent(from, last),
   l1HeightDeltas |-> [i \in from .. last |->
                         Number[L1Proof(i)] - (IF i = from THEN 0 ELSE Number[L1Proof(i - 1)])],
   reorgs |-> [i \in from .. last |-> IF i \in Reorgs(from, last) THEN batches[i] ELSE NoHeader],
   txs |-> [i \in from .. last |-> txTable[Height(i)]]]

\* the rollups CreateRollup can return for the batches from number from on
CreateRollup(from) ==
  {CreateExtRollup(from, last, c) : last \in BatchesAfter(from), c \in CompressionL1Heads}
-----------------------------------------------------------------------------
(* A reader that has the batches before the rollup, and the L1 block the    *)
(* rollup was compressed on with its ancestors.                             *)

\* calculateL1HeightsFromDeltas
L1Heights(r) ==
  LET h[i \in DOMAIN r.txs] ==
        r.l1HeightDeltas[i] + (IF i = r.first THEN 0 ELSE h[i - 1])
  IN  h

\* calcL1AncestorsOfHeight
L1BlocksAtHeight(r, h) == {b \in Anc[r.compressionL1Head] : Number[b] = h}

\* executeAndSaveIncompleteBatches before batch i: the parent of the next batch
\* that has no header
ParentHash(r, i) ==
  LET before == {j \in DOMAIN r.txs : j < i /\ r.reorgs[j] = NoHeader}
  IN  IF before = {} THEN r.firstCanonParent ELSE CHOOSE j \in before : \A k \in before : k <= j

\* a batch without a header, on the ones before it: the genesis batch, or one
\* computed on its parent
ComputeBatch(r, computed, i) ==
  LET p == ParentHash(r, i) IN
  [height  |-> CASE i = L2GenesisSeqNo -> L2GenesisHeight
                 [] i # L2GenesisSeqNo /\ p \in DOMAIN r.txs -> computed[p].height + 1
                 [] OTHER -> Height(p) + 1,
   parent  |-> IF i = L2GenesisSeqNo THEN 0 ELSE p,
   l1Proof |-> CHOOSE b \in L1BlocksAtHeight(r, L1Heights(r)[i]) : TRUE,
   txs     |-> r.txs[i]]

\* the batches the reader stores
ProcessExtRollup(r) ==
  LET computed[i \in DOMAIN r.txs] ==
        IF r.reorgs[i] # NoHeader THEN r.reorgs[i] ELSE ComputeBatch(r, computed, i)
  IN  computed
-----------------------------------------------------------------------------
Rollups == IF pc # "idle" THEN {} ELSE UNION {CreateRollup(from) : from \in SeqNos}

\* A rollup made at any time, also after reorgs whose orphans are among its
\* batches, gives its readers back exactly the sequencer's batches: every batch
\* finds its L1 block, its parent, its height and its transactions.
RoundTrip ==
  \A r \in Rollups :
    /\ \A i \in DOMAIN r.txs :
         r.reorgs[i] = NoHeader => L1BlocksAtHeight(r, L1Heights(r)[i]) # {}
    /\ ProcessExtRollup(r) = [i \in DOMAIN r.txs |-> batches[i]]

\* A rollup has no batch of the last RollupDelay L1 blocks and is compressed on a
\* block below them ("number of L1 blocks to exclude when creating a rollup"),
\* also at the start of the L1, where the subtraction wraps around.
DelayKept ==
  \A r \in Rollups :
    /\ Number[r.compressionL1Head] + RollupDelay = Number[currentL1Head]
    /\ \A i \in DOMAIN r.txs : Number[L1Proof(i)] + RollupDelay <= Number[currentL1Head]
=============================================================================
