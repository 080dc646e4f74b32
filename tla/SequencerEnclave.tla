-------------------------- MODULE SequencerEnclave --------------------------
(***************************************************************************)
(* The sequencer's enclave: it ingests L1 blocks, produces L2 batches on   *)
(* top of them, and after an L1 reorg produces again, on the new L1 head,  *)
(* the batches whose L1 block was orphaned.                                *)
(*                                                                         *)
(* SubmitL1Block, CreateBatch and the loop of duplicateBatches run under   *)
(* enclaveImpl.mainMutex.  A step here is one database transaction with    *)
(* the memory updates that follow it; pc says where in a handler the next  *)
(* step is, so that a crash can fall between two transactions.             *)
(***************************************************************************)
EXTENDS EnclaveStorage

CONSTANT MaxHeight   \* bound: no batch is created above this height

ASSUME SequencerAssumption ==
  /\ MaxHeight \in Nat
  /\ \A b \in Block : Number[b] > 0  \* LCA stops at the L1 genesis block (see LCA.tla)

VARIABLES
  batchesToDuplicate,  \* locals of duplicateBatches: what is left to visit,
  batchesToExclude,
  previous,            \*   the batch visited last (0: none)
  currentHead          \*   and the parent of the next duplicate

dupVars == <<batchesToDuplicate, batchesToExclude, previous, currentHead>>
vars == <<dbVars, memVars, pc, dupVars>>

Init ==
  /\ blocks = {}
  /\ lastBlock = NoBlock
  /\ canonicalBlocks = {}
  /\ batches = <<>>
  /\ canonicalBatches = {}
  /\ executed = {}
  /\ txTable = [h \in {} |-> NoTxs]
  /\ currentL1Head = NoBlock
  /\ headBatchSeq = 0
  /\ pc = "idle"
  /\ batchesToDuplicate = {}
  /\ batchesToExclude = {}
  /\ previous = 0
  /\ currentHead = 0

\* logger.Crit: the process exits, an open transaction is rolled back
Crit ==
  /\ pc' = "crit"
  /\ UNCHANGED <<dbVars, memVars, dupVars>>
-----------------------------------------------------------------------------
(* Ingesting an L1 block.                                                   *)

\* mutant: only the batches of the old head
BatchesToDuplicateMutant(orphaned) == BatchesByBlock(orphaned \cap {currentL1Head})

\* the batches duplicateBatches reads for the non canonical path
BatchesToDuplicate(orphaned) == BatchesByBlock(orphaned)

\* duplicateBatches up to its loop: the orphaned batches and the ones that are
\* on the new branch already
StartDuplicating(orphaned, adopted) ==
  /\ batchesToDuplicate' = BatchesToDuplicate(orphaned)
  /\ batchesToExclude' = IF batchesToDuplicate' = {} THEN {} ELSE BatchesByBlock(adopted)
  /\ previous' = 0
  /\ IF batchesToDuplicate' = {}
       THEN currentHead' = 0
       ELSE \E o \in batchesToDuplicate' :
              /\ \A i \in batchesToDuplicate' : Height(o) <= Height(i)
              /\ currentHead' = batches[o].parent
  /\ pc' = IF batchesToDuplicate' = {} THEN "idle" ELSE "duplicate"

\* enclaveImpl.SubmitL1Block up to the loop of duplicateBatches: Process with
\* StoreBlock, the registry, the batches to visit
SubmitL1Block(b) ==
  /\ pc = "idle"
  /\ Ingestible(b)
  /\ IF ~CanonicalValidity(CanonicalBatchesWith(b))
       THEN Crit
       ELSE /\ StoreBlock(b)
            /\ currentL1Head' = b
            /\ IF IsFork(b)
                 THEN /\ OnL1Reorg(CanonicalBatchesWith(b))
                      /\ StartDuplicating(Orphaned(b), Adopted(b))
                 ELSE UNCHANGED <<headBatchSeq, pc, dupVars>>
-----------------------------------------------------------------------------
(* Storing a batch: two transactions, StoreBatch and StoreExecutedBatch.    *)

\* storage.StoreBatch gives up: "Conflicting batches for the same sequence", or
\* "invalid chaining"
Rejects(seq, b) ==
  \/ seq \in SeqNos
  \/ InvalidChaining(seq, b)

\* storage.StoreBatch of batch b with number seq: a batch is canonical if its L1
\* block is, the transactions are written for the first batch of a height
InsertBatch(seq, b) ==
  /\ batches' = Append(batches, b)
  /\ canonicalBatches' =
       IF b.l1Proof \in canonicalBlocks THEN canonicalBatches \cup {seq} ELSE canonicalBatches
  /\ txTable' = TxTableWith(b)
  /\ pc' = "execute"
  /\ UNCHANGED <<blocks, lastBlock, canonicalBlocks, executed, memVars>>

\* mutant: the registry caches the number of the next batch
OnBatchExecutedMutant == headBatchSeq' = Len(batches) + 1

\* batchRegistry.OnBatchExecuted
OnBatchExecuted == headBatchSeq' = Len(batches)

\* storage.StoreExecutedBatch and batchRegistry.OnBatchExecuted, then back to
\* the caller: the loop of duplicateBatches, createGenesisBatch, or done
StoreExecutedBatch ==
  /\ pc = "execute"
  /\ executed' = executed \cup {Len(batches)}
  /\ OnBatchExecuted
  /\ IF batchesToDuplicate # {}
       THEN /\ pc' = "duplicate"
            /\ currentHead' = Len(batches)
            /\ UNCHANGED <<batchesToDuplicate, batchesToExclude, previous>>
       ELSE /\ pc' = IF Len(batches) = L2GenesisSeqNo THEN "system" ELSE "idle"
            /\ batchesToExclude' = {}
            /\ previous' = 0
            /\ currentHead' = 0
            /\ UNCHANGED batchesToDuplicate
  /\ UNCHANGED <<blocks, lastBlock, canonicalBlocks, batches, canonicalBatches, txTable, currentL1Head>>
-----------------------------------------------------------------------------
(* The loop of duplicateBatches; the batches are sorted by height.          *)

\* mutant: the orphaned batches are not sorted
IsNextMutant(o) == o \in batchesToDuplicate

\* the next batch of the loop
IsNext(o) ==
  /\ o \in batchesToDuplicate
  /\ \A i \in batchesToDuplicate : Height(o) <= Height(i)

\* "sanity check that all these batches are consecutive"
Consecutive(o) == previous # 0 => batches[o].parent = previous

\* mutant: the check for batches on the new branch is missing
ExcludingMutant(o) == {}

\* the batches of the new branch at the height of the orphan
Excluding(o) == {e \in batchesToExclude : Height(e) = Height(o)}

\* there is already a canonical batch at the height of the orphan
SkipDuplicate(o) ==
  /\ pc = "duplicate"
  /\ IsNext(o)
  /\ Excluding(o) # {}
  /\ IF ~Consecutive(o)
       THEN Crit
       ELSE /\ batchesToDuplicate' = batchesToDuplicate \ {o}
            /\ IF batchesToDuplicate' = {}
                 THEN /\ pc' = "idle"
                      /\ batchesToExclude' = {}
                      /\ previous' = 0
                      /\ currentHead' = 0
                 ELSE /\ currentHead' \in Excluding(o)
                      /\ previous' = o
                      /\ UNCHANGED <<pc, batchesToExclude>>
            /\ UNCHANGED <<dbVars, memVars>>

\* mutant: the transactions come from the mempool
DuplicatesMutant(o) ==
  [height : {Height(currentHead) + 1}, parent : {currentHead},
   l1Proof : {currentL1Head}, txs : Txs]

\* the batch produceBatch makes of the orphan: on the new L1 head, with its
\* transactions, from the cache of recent batches or from table tx
Duplicates(o) ==
  [height : {Height(currentHead) + 1}, parent : {currentHead},
   l1Proof : {currentL1Head}, txs : {batches[o].txs, txTable[Height(o)]}]

DuplicateBatch(o) ==
  /\ pc = "duplicate"
  /\ IsNext(o)
  /\ Excluding(o) = {}
  /\ currentHead \in SeqNos
  /\ \E b \in Duplicates(o) :
       IF ~Consecutive(o) \/ Rejects(Len(batches) + 1, b)
         THEN Crit
         ELSE /\ InsertBatch(Len(batches) + 1, b)
              /\ batchesToDuplicate' = batchesToDuplicate \ {o}
              /\ previous' = o
              /\ UNCHANGED <<batchesToExclude, currentHead>>

\* ErrAncestorBatchNotFound: the orphan is the genesis batch, which has no
\* parent; OnL1Fork returns the error and SubmitL1Block rejects the block
DuplicateFails(o) ==
  /\ pc = "duplicate"
  /\ IsNext(o)
  /\ Excluding(o) = {}
  /\ currentHead \notin SeqNos
  /\ pc' = "idle"
  /\ batchesToDuplicate' = {}
  /\ batchesToExclude' = {}
  /\ previous' = 0
  /\ currentHead' = 0
  /\ UNCHANGED <<dbVars, memVars>>
-----------------------------------------------------------------------------
(* Creating a batch.                                                        *)

Produce(seq, b) ==
  IF Rejects(seq, b)
    THEN Crit
    ELSE /\ InsertBatch(seq, b)
         /\ UNCHANGED dupVars

\* createGenesisBatch: the genesis batch
CreateGenesisBatch ==
  /\ pc = "idle"
  /\ ~PreGenesis
  /\ headBatchSeq = 0
  /\ Produce(L2GenesisSeqNo,
             [height |-> L2GenesisHeight, parent |-> 0, l1Proof |-> currentL1Head, txs |-> NoTxs])

\* createGenesisBatch: batch #2, which deploys the system contracts
CreateSystemBatch ==
  /\ pc = "system"
  /\ Produce(L2GenesisSeqNo + 1,
             [height |-> L2GenesisHeight + 1, parent |-> L2GenesisSeqNo,
              l1Proof |-> currentL1Head, txs |-> SystemTxs])

\* storage.IsAncestor(currentL1Head, b): the walk ends early at a missing block
IsAncestorOfHead(b) ==
  b \in Anc[currentL1Head] /\ Anc[currentL1Head] \ Anc[b] \subseteq blocks

\* createNewHeadBatch accepts the cached head batch
HeadBatchUsable ==
  /\ headBatchSeq \in canonicalBatches
  /\ IsAncestorOfHead(L1Proof(headBatchSeq))

\* createNewHeadBatch; a batch #2 other than the deployment cannot be committed
\* (systemContractCallbacks.Initialize fails)
CreateBatch(t) ==
  /\ pc = "idle"
  /\ headBatchSeq # 0
  /\ HeadBatchUsable
  /\ Len(batches) # L2GenesisSeqNo
  /\ Height(headBatchSeq) < MaxHeight
  /\ Produce(Len(batches) + 1,
             [height |-> Height(headBatchSeq) + 1, parent |-> headBatchSeq,
              l1Proof |-> currentL1Head, txs |-> t])
-----------------------------------------------------------------------------
(* Stopping and starting.                                                   *)

\* NewBlockProcessor and NewBatchRegistry load the heads from the database
Reload ==
  /\ currentL1Head' = lastBlock
  /\ IF HeadBatches(canonicalBatches) = {}
       THEN headBatchSeq' = 0
       ELSE headBatchSeq' \in HeadBatches(canonicalBatches)
  /\ pc' = "idle"
  /\ batchesToDuplicate' = {}
  /\ batchesToExclude' = {}
  /\ previous' = 0
  /\ currentHead' = 0
  /\ UNCHANGED dbVars

\* between two calls
Restart == pc = "idle" /\ Reload

\* in the middle of a call
Crash == pc \notin {"idle", "crit"} /\ Reload
-----------------------------------------------------------------------------
(* What the environment may do.                                             *)

\* nothing stored is above b: b is new, or the tip of a branch left earlier
IsTip(b) == \A c \in blocks : b \in Anc[c] => c = b

\* the L1 block of the genesis batch is on b's branch
KeepsGenesis(b) == Len(batches) >= L2GenesisSeqNo => L1Proof(L2GenesisSeqNo) \in Anc[b]

\* the steps that belong to a handler that holds mainMutex
Continue ==
  \/ StoreExecutedBatch
  \/ CreateSystemBatch
  \/ \E o \in SeqNos : SkipDuplicate(o) \/ DuplicateBatch(o)

\* The host submits new blocks and returns to tips of old branches; the L1 never
\* drops the genesis batch; the enclave restarts between calls, while the last
\* block stored is the L1 head.
Next ==
  \/ \E b \in Block : IsTip(b) /\ KeepsGenesis(b) /\ SubmitL1Block(b)
  \/ CreateGenesisBatch
  \/ \E t \in Txs : CreateBatch(t)
  \/ Continue
  \/ lastBlock = currentL1Head /\ Restart

Spec == Init /\ [][Next]_vars
-----------------------------------------------------------------------------
TypeOK ==
  /\ blocks \subseteq Block
  /\ lastBlock \in Block \cup {NoBlock}
  /\ canonicalBlocks \subseteq blocks
  /\ batches \in Seq(Batch)
  /\ canonicalBatches \subseteq SeqNos
  /\ executed \subseteq SeqNos
  /\ DOMAIN txTable \subseteq Nat
  /\ \A h \in DOMAIN txTable : txTable[h] \in Txs \cup {NoTxs, SystemTxs}
  /\ currentL1Head \in Block \cup {NoBlock}
  /\ headBatchSeq \in SeqNos \cup {0}
  /\ pc \in {"idle", "duplicate", "execute", "system", "crit"}
  /\ batchesToDuplicate \subseteq SeqNos
  /\ batchesToExclude \subseteq SeqNos
  /\ previous \in SeqNos \cup {0}
  /\ currentHead \in SeqNos \cup {0}

\* The canonical batches are one chain: the parent of a canonical batch is
\* canonical and one below, and the parent's L1 block is an ancestor of the
\* batch's (ComputeBatch reads the L1 messages between the two).
CanonicalChain ==
  \A i \in canonicalBatches \ {L2GenesisSeqNo} :
    /\ batches[i].parent \in canonicalBatches
    /\ Height(i) = Height(batches[i].parent) + 1
    /\ L1Proof(batches[i].parent) \in Anc[L1Proof(i)]

\* Whenever a call returned, the cached head batch is one createNewHeadBatch
\* accepts, executed, and the highest of the canonical chain: the sequencer can
\* always go on.
HeadIsTheTip ==
  pc = "idle" /\ Len(batches) > 0 =>
    /\ headBatchSeq \in executed
    /\ HeadBatchUsable
    /\ \A i \in canonicalBatches : Height(i) <= Height(headBatchSeq)

\* No transaction is lost to a reorg: whenever a call returned, each batch ever
\* stored has a canonical batch of its height with its transactions (the point
\* of duplicateBatches).
TransactionsSurvive ==
  pc = "idle" =>
    \A i \in SeqNos : \E j \in canonicalBatches :
      Height(j) = Height(i) /\ batches[j].txs = batches[i].txs

\* Reading the transactions of any batch by its height, as
\* FetchBatchTransactionsBySeq does, gives that batch's transactions ("only
\* insert transactions if this is the first time a batch of this height is
\* created").
TransactionsReadable ==
  \A i \in SeqNos : Height(i) \in DOMAIN txTable /\ txTable[Height(i)] = batches[i].txs

\* The batches the sequencer hands out are the history its validators rely on,
\* whatever L1 blocks, duplicates and restarts came between them.
HistoryKept == SequencerHistory(batches)
-----------------------------------------------------------------------------
\* the batches that make up the ledger: while a reorg is being handled, the
\* orphans left to visit stand in for the duplicates that will replace them
LedgerBatches == canonicalBatches \cup batchesToDuplicate

Ledger == INSTANCE L2Ledger WITH
  Content <- Txs \cup {NoTxs, SystemTxs},
  ledger <- [h \in {Height(i) : i \in LedgerBatches} |->
               batches[CHOOSE i \in LedgerBatches : Height(i) = h].txs]

\* The sequencer implements the append-only ledger: no step, of a reorg or of a
\* restart, changes or drops the transactions of a height, and a batch adds the
\* next height (the duplicates of duplicateBatches replace the orphans one for
\* one).
ImplementsLedger == Ledger!Spec
=============================================================================
