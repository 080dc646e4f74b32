---------------------------- MODULE EnclaveStorage ----------------------------
(***************************************************************************)
(* The database of an enclave (tables block, batch and tx), the two heads  *)
(* it caches in memory, and what ingesting an L1 block does to them.  The  *)
(* sequencer and the validators share this code: block_processor.go,       *)
(* batch_registry.go, storage.go.                                          *)
(*                                                                         *)
(* The number of a batch (SequencerOrderNo) stands for its hash too: two   *)
(* batches with one number are the error case of StoreBatch.               *)
(***************************************************************************)
EXTENDS L1Tree, Sequences

CONSTANTS
  Txs,        \* what the mempool offers: the content of one batch
  NoTxs,      \* the content of the genesis batch
  SystemTxs   \* the content of batch #2: the system contracts' deployment

VARIABLES
  blocks,              \* table block: the blocks stored
  lastBlock,           \* the row of table block with the highest id
  canonicalBlocks,     \* rows of block with is_canonical
  batches,             \* table batch, by sequence number
  canonicalBatches,    \* rows of batch with is_canonical
  executed,            \* rows of batch with is_executed
  txTable,             \* table tx: the transactions by batch_height
  currentL1Head,       \* l1BlockProcessor.currentL1Head
  headBatchSeq,        \* batchRegistry.headBatchSeq (0: nil)
  pc                   \* the next step of the handler that holds mainMutex

dbVars == <<blocks, lastBlock, canonicalBlocks, batches, canonicalBatches, executed, txTable>>
memVars == <<currentL1Head, headBatchSeq>>

L2GenesisHeight == 0
L2GenesisSeqNo == 1

Batch == [height : Nat, parent : Nat, l1Proof : Block, txs : Txs \cup {NoTxs, SystemTxs}]

SeqNos == DOMAIN batches
Height(i) == batches[i].height
L1Proof(i) == batches[i].l1Proof

\* enclavedb.ReadBatchesByBlock
BatchesByBlock(bs) == {i \in SeqNos : L1Proof(i) \in bs}

\* enclavedb.ReadCurrentHeadBatchHeader
HeadBatches(canon) ==
  {i \in canon \cap executed : \A j \in canon \cap executed : Height(j) <= Height(i)}
-----------------------------------------------------------------------------
(* Ingesting an L1 block.                                                   *)

\* gethutil.LCA of b and the current head: its paths (LCA.tla proves this is
\* what the walk computes)
CommonAncestor(b) ==
  LET common == Anc[b] \cap Anc[currentL1Head]
  IN  {a \in common : \A c \in common : Number[c] <= Number[a]}

NonCanonicalPath(b) == Anc[currentL1Head] \ Anc[b]
CanonicalPath(b) == (Anc[b] \ Anc[currentL1Head]) \cup CommonAncestor(b)

\* every parent the walk fetches is stored
Resolvable(b) ==
  /\ CommonAncestor(b) # {}
  /\ NonCanonicalPath(b) \cup (CanonicalPath(b) \ {b}) \subseteq blocks

PreGenesis == currentL1Head = NoBlock
Extends(b) == Parent[b] = currentL1Head

\* ingestBlock neither reports an OldCanonicalBlock nor ErrBlockAncestorNotFound
Ingestible(b) ==
  ~PreGenesis =>
    /\ b # currentL1Head
    /\ ~Extends(b) => b \notin canonicalBlocks /\ Resolvable(b)

IsFork(b) == ~PreGenesis /\ ~Extends(b) /\ NonCanonicalPath(b) # {}

\* mutant: only the new head becomes canonical, not the rest of its branch
AdoptedMutant(b) == {b}

\* the blocks StoreBlock makes canonical ...
Adopted(b) == IF IsFork(b) THEN CanonicalPath(b) ELSE {b}

\* mutant: of the branch that is left only the old head loses the flag
OrphanedMutant(b) == IF IsFork(b) THEN {currentL1Head} ELSE {}

\* ... and non canonical
Orphaned(b) == IF IsFork(b) THEN NonCanonicalPath(b) ELSE {}

\* mutant: the batches of orphaned blocks keep is_canonical
CanonicalBatchesWithMutant(b) == canonicalBatches \cup BatchesByBlock(Adopted(b))

\* is_canonical of the batches once b is stored (HandleBlockArrivedAfterBatches,
\* then UpdateCanonicalBatch twice)
CanonicalBatchesWith(b) ==
  ((canonicalBatches \cup BatchesByBlock({b})) \ BatchesByBlock(Orphaned(b)))
     \cup BatchesByBlock(Adopted(b))

\* enclavedb.CheckCanonicalValidity (it looks at the last 50 blocks, more than
\* any instance checked here has)
CanonicalValidity(canon) ==
  \A i, j \in canon : Height(i) = Height(j) => i = j

\* mutant: the cached head batch survives the reorg
OnL1ReorgMutant(canon) == UNCHANGED headBatchSeq

\* batchRegistry.OnL1Reorg: reload the head batch, keep the old one if the
\* database has none
OnL1Reorg(canon) ==
  IF HeadBatches(canon) = {} THEN UNCHANGED headBatchSeq
                             ELSE headBatchSeq' \in HeadBatches(canon)

\* storage.StoreBlock, for a block that passes the check above
StoreBlock(b) ==
  /\ blocks' = blocks \cup {b}
  /\ lastBlock' = IF b \in blocks THEN lastBlock ELSE b
  /\ canonicalBlocks' = (canonicalBlocks \ Orphaned(b)) \cup Adopted(b)
  /\ canonicalBatches' = CanonicalBatchesWith(b)
  /\ UNCHANGED <<batches, executed, txTable>>

\* "invalid chaining": the sanity check of storage.StoreBatch
InvalidChaining(seq, b) ==
  /\ b.l1Proof \in canonicalBlocks
  /\ b.parent \notin canonicalBatches
  /\ seq > L2GenesisSeqNo + 2

\* the transactions of a batch are written for the first batch of its height
TxTableWith(b) ==
  IF \E i \in SeqNos : Height(i) = b.height
    THEN txTable
    ELSE [h \in DOMAIN txTable \cup {b.height} |-> IF h = b.height THEN b.txs ELSE txTable[h]]
-----------------------------------------------------------------------------
\* What validators may rely on of the batches bs of the sequencer: a batch is one
\* above its parent and on the same L1 branch, along a branch there is one batch
\* of a height, and the batches of a height have the same transactions.
SequencerHistory(bs) ==
  /\ \A i \in DOMAIN bs :
       IF i = L2GenesisSeqNo
         THEN bs[i].height = L2GenesisHeight
         ELSE /\ bs[i].parent \in DOMAIN bs
              /\ bs[i].height = bs[bs[i].parent].height + 1
              /\ bs[bs[i].parent].l1Proof \in Anc[bs[i].l1Proof]
  /\ \A i, j \in DOMAIN bs :
       i # j /\ bs[i].height = bs[j].height =>
         bs[i].l1Proof \notin Anc[bs[j].l1Proof] /\ bs[i].txs = bs[j].txs

\* At every step there is at most one canonical batch of a height, also while a
\* reorg is being handled (the case CheckCanonicalValidity looks for).
OneCanonicalBatchPerHeight == CanonicalValidity(canonicalBatches)

\* The blocks with is_canonical are one branch, at most one of a number, which
\* FetchCanonicaBlockByHeight and the canonical flag of a new batch rely on.
OneCanonicalBlockPerHeight ==
  \A a, b \in canonicalBlocks : Number[a] = Number[b] => a = b

\* None of the sanity checks ever stops the process: single canonical batch per
\* height, no conflicting or badly chained batch, consecutive orphans
\* (logger.Crit, "Should not happen").
NoCrit == pc # "crit"
=============================================================================
