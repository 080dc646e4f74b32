-------------------------- MODULE ValidatorEnclave --------------------------
(***************************************************************************)
(* A validator's enclave: it stores the sequencer's batches, which reach   *)
(* it from peers and inside the rollups of L1 blocks, and executes them    *)
(* when their L1 block is canonical and their parent was executed.         *)
(*                                                                         *)
(* The sequencer is the environment.  A batch that arrives is any batch    *)
(* that keeps SequencerHistory, which is what the sequencer's enclave      *)
(* guarantees of its own table (SequencerEnclaveProofs, HistoryGuaranteed).*)
(* Batches and blocks arrive in any order and any number of times; a step  *)
(* is one database transaction, and the process may die before any step.   *)
(***************************************************************************)
EXTENDS EnclaveStorage

CONSTANT MaxSeqNo  \* bound: the sequencer makes this many batches

ASSUME ValidatorAssumption ==
  /\ MaxSeqNo \in Nat
  /\ \A b \in Block : Number[b] > 0

VARIABLES
  forked,             \* the block being ingested is a fork (BlockIngestionType)
  rollup,             \* the batches of its rollup left to visit
  compressionL1Head,  \* RollupHeader.CompressionL1Head
  toExecute           \* what FetchCanonicalUnexecutedBatches returned, not visited yet

loopVars == <<forked, rollup, compressionL1Head, toExecute>>
vars == <<dbVars, memVars, pc, loopVars>>

\* the L1 never drops the block of the genesis batch
KeepsGenesis(bs, b) ==
  L2GenesisSeqNo \in DOMAIN bs =>
    bs[L2GenesisSeqNo].l1Proof \in Anc[b] \/ b \in Anc[bs[L2GenesisSeqNo].l1Proof]

\* table batch once b is stored as number seq
BatchesWith(seq, b) == [i \in SeqNos \cup {seq} |-> IF i = seq THEN b ELSE batches[i]]

\* batch number seq on the parent p
BatchOn(seq, p, l1, txs) ==
  [height |-> IF seq = L2GenesisSeqNo THEN L2GenesisHeight ELSE Height(p) + 1,
   parent |-> p, l1Proof |-> l1, txs |-> txs]

\* the first two heights have their own content
Contents(h) ==
  CASE h = L2GenesisHeight -> {NoTxs}
    [] h = L2GenesisHeight + 1 -> {SystemTxs}
    [] OTHER -> Txs

\* What batch number seq of the sequencer can be.  Its parent is one of the
\* batches stored: without the parent's converted hash CreateEthHeaderForBatch
\* fails, and the batch is refused.
SequencerBatches(seq) ==
  {b \in {BatchOn(seq, p, l1, txs) :
            p \in IF seq = L2GenesisSeqNo THEN {0} ELSE SeqNos \cap (1 .. seq - 1),
            l1 \in Block, txs \in Txs \cup {NoTxs, SystemTxs}} :
     /\ b.txs \in Contents(b.height)
     /\ SequencerHistory(BatchesWith(seq, b))
     /\ \A c \in blocks : KeepsGenesis(BatchesWith(seq, b), c)}

Init ==
  /\ blocks = {}
  /\ lastBlock = NoBlock
  /\ canonicalBlocks = {}
  /\ batches = <<>>
  /\ canonicalBatches = {}
  /\ executed = {}
  /\ txTable = <<>>
  /\ currentL1Head = NoBlock
  /\ headBatchSeq = 0
  /\ pc = "idle"
  /\ forked = FALSE
  /\ rollup = {}
  /\ compressionL1Head = NoBlock
  /\ toExecute = {}

\* no handler holds mainMutex
Free == pc \in {"idle", "started"}

Crit ==
  /\ pc' = "crit"
  /\ UNCHANGED <<dbVars, memVars, loopVars>>
-----------------------------------------------------------------------------
(* Storing a batch.                                                         *)

\* mutant: a batch is canonical unless its L1 block is known not to be
CanonicalWithMutant(seq, b) ==
  IF b.l1Proof \in blocks \ canonicalBlocks THEN canonicalBatches ELSE canonicalBatches \cup {seq}

\* is_canonical of a new batch: its L1 block is
CanonicalWith(seq, b) ==
  IF b.l1Proof \in canonicalBlocks THEN canonicalBatches \cup {seq} ELSE canonicalBatches

\* storage.StoreBatch of a batch that is not stored
StoreBatch(seq, b) ==
  /\ batches' = BatchesWith(seq, b)
  /\ canonicalBatches' = CanonicalWith(seq, b)
  /\ txTable' = TxTableWith(b)
  /\ UNCHANGED <<blocks, lastBlock, canonicalBlocks, executed>>

\* the batch before is stored (the first two need no other)
PreviousStored(seq) == seq > L2GenesisSeqNo + 1 => seq - 1 \in SeqNos

\* enclaveImpl.SubmitBatch, up to ExecuteStoredBatches: a batch from a peer
SubmitBatch(seq) ==
  /\ Free
  /\ seq \notin SeqNos
  /\ PreviousStored(seq)
  /\ \E b \in SequencerBatches(seq) :
       /\ IF InvalidChaining(seq, b)
            THEN Crit
            ELSE StoreBatch(seq, b) /\ pc' = "fetch" /\ UNCHANGED <<memVars, loopVars>>

\* SubmitBatch of a batch that is stored, from a rollup or by another goroutine of
\* the host: StoreBatch returns at once
ResubmitBatch ==
  /\ Free
  /\ SeqNos # {}
  /\ pc' = "fetch"
  /\ UNCHANGED <<dbVars, memVars, loopVars>>
-----------------------------------------------------------------------------
(* Ingesting an L1 block with the rollup it may carry.                      *)

\* ProcessBlobsInBlock reads the rollup: the L1 block it was compressed on is
\* stored and canonical
RollupReadable(c, canon, stored) == c \in canon /\ c \in stored

\* The rollups block b can carry: some consecutive batches of the sequencer, all
\* of them on L1 blocks not above the compression block (BatchesAfter).
Rollups(b) ==
  {r \in [first : 1 .. MaxSeqNo, last : 1 .. MaxSeqNo, head : Block] :
     /\ r.first <= r.last
     /\ Number[r.head] < Number[b]
     /\ \A i \in SeqNos \cap (r.first .. r.last) : Number[L1Proof(i)] <= Number[r.head]}

\* enclaveImpl.SubmitL1Block up to the rollups: Process, with StoreBlock
SubmitL1Block(b) ==
  /\ Free
  /\ Ingestible(b)
  /\ IF ~CanonicalValidity(CanonicalBatchesWith(b))
       THEN Crit
       ELSE /\ StoreBlock(b)
            /\ currentL1Head' = b
            /\ forked' = IsFork(b)
            /\ \/ /\ rollup' = {}
                  /\ compressionL1Head' = NoBlock
               \/ \E r \in Rollups(b) :
                    /\ RollupReadable(r.head, canonicalBlocks', blocks')
                    /\ rollup' = r.first .. r.last
                    /\ compressionL1Head' = r.head
            /\ pc' = "rollup"
            /\ UNCHANGED <<headBatchSeq, toExecute>>

\* the next batch of the rollup, after those that are stored already
NextInRollup(seq) ==
  /\ seq \in rollup \ SeqNos
  /\ \A i \in rollup \ SeqNos : seq <= i

\* the rollup has the full header of a batch that was not canonical when it was
\* compressed
Reorged(b) == b.l1Proof \notin Anc[compressionL1Head]

\* mutant: a batch of the rollup is computed on a parent that was not executed
ParentComputedMutant(seq, b) == TRUE

\* the parent's state is there to compute the batch on
ParentComputed(seq, b) == seq > L2GenesisSeqNo => b.parent \in executed

\* executeAndSaveIncompleteBatches: a batch with its header is only stored, any
\* other is computed first and marked executed next
RollupBatch(seq, b) ==
  /\ pc = "rollup"
  /\ NextInRollup(seq)
  /\ Number[b.l1Proof] <= Number[compressionL1Head]
  /\ Reorged(b) \/ ParentComputed(seq, b)
  /\ IF InvalidChaining(seq, b)
       THEN Crit
       ELSE /\ StoreBatch(seq, b)
            /\ rollup' = {i \in rollup : i > seq \/ (i = seq /\ ~Reorged(b))}
            /\ pc' = IF Reorged(b) THEN "rollup" ELSE "rollupExecuted"
            /\ UNCHANGED <<memVars, forked, compressionL1Head, toExecute>>

\* mutant: the registry keeps the number of the next batch
ExecuteMutant(seq) ==
  /\ executed' = executed \cup {seq}
  /\ headBatchSeq' = seq + 1
  /\ UNCHANGED <<blocks, lastBlock, canonicalBlocks, batches, canonicalBatches, txTable, currentL1Head>>

\* storage.StoreExecutedBatch and batchRegistry.OnBatchExecuted
Execute(seq) ==
  /\ executed' = executed \cup {seq}
  /\ headBatchSeq' = seq
  /\ UNCHANGED <<blocks, lastBlock, canonicalBlocks, batches, canonicalBatches, txTable, currentL1Head>>

RollupExecuted ==
  /\ pc = "rollupExecuted"
  /\ \E seq \in rollup :
       /\ \A i \in rollup : seq <= i
       /\ Execute(seq)
       /\ rollup' = rollup \ {seq}
  /\ pc' = "rollup"
  /\ UNCHANGED <<forked, compressionL1Head, toExecute>>

\* the loop over the rollup is done, or one of its batches failed, which
\* ingestL1Block only logs; then the registry hears of a fork
EndRollup ==
  /\ pc = "rollup"
  /\ IF forked THEN OnL1Reorg(canonicalBatches) ELSE UNCHANGED headBatchSeq
  /\ forked' = FALSE
  /\ rollup' = {}
  /\ compressionL1Head' = NoBlock
  /\ pc' = "fetch"
  /\ UNCHANGED <<dbVars, currentL1Head, toExecute>>
-----------------------------------------------------------------------------
(* obsValidator.ExecuteStoredBatches.                                       *)

\* enclavedb.ReadUnexecutedBatches, from the cached head batch on
FetchCanonicalUnexecutedBatches ==
  {i \in canonicalBatches \ executed : i >= headBatchSeq}

FetchStoredBatches ==
  /\ pc = "fetch"
  /\ toExecute' = FetchCanonicalUnexecutedBatches
  /\ pc' = IF toExecute' = {} THEN "idle" ELSE "execute"
  /\ UNCHANGED <<dbVars, memVars, forked, rollup, compressionL1Head>>

\* handleGenesis, or executionPrerequisites: the L1 block exists and the parent
\* was executed (a batch that is canonical always has its block)
CanExecute(i) ==
  i = L2GenesisSeqNo \/ (L1Proof(i) \in blocks /\ batches[i].parent \in executed)

\* the batches are ordered by sequence number
IsNext(i) == i \in toExecute /\ \A j \in toExecute : i <= j

\* one turn of the loop: execute the batch or leave it
ExecuteStoredBatch(i) ==
  /\ pc = "execute"
  /\ IsNext(i)
  /\ IF CanExecute(i) THEN Execute(i) ELSE UNCHANGED <<dbVars, memVars>>
  /\ toExecute' = toExecute \ {i}
  /\ pc' = IF toExecute' = {} THEN "idle" ELSE "execute"
  /\ UNCHANGED <<forked, rollup, compressionL1Head>>
-----------------------------------------------------------------------------
\* mutant: the head batch is loaded as the last one stored
LoadHeadMutant == headBatchSeq' = IF SeqNos = {} THEN 0 ELSE CHOOSE i \in SeqNos : \A j \in SeqNos : j <= i

\* NewBatchRegistry
LoadHead ==
  IF HeadBatches(canonicalBatches) = {} THEN headBatchSeq' = 0
                                        ELSE headBatchSeq' \in HeadBatches(canonicalBatches)

\* The process dies, between two calls or in the middle of one, and starts
\* again.
Crash ==
  /\ pc # "crit"
  /\ currentL1Head' = lastBlock
  /\ LoadHead
  /\ pc' = "started"
  /\ forked' = FALSE
  /\ rollup' = {}
  /\ compressionL1Head' = NoBlock
  /\ toExecute' = {}
  /\ UNCHANGED dbVars

\* What a host submits: a live block, or while it catches up the block above an
\* ancestor of the enclave's head; in catch-up live blocks are ignored, so it
\* does not jump over blocks of the branch the enclave is on.  The first block is
\* the configured start, below every batch.
Submittable(b) ==
  IF PreGenesis THEN Parent[b] = NoBlock ELSE Extends(b) \/ currentL1Head \notin Anc[b]

\* the steps of a handler that holds mainMutex
Continue ==
  \/ pc = "rollup" /\ \E seq \in 1 .. MaxSeqNo : \E b \in SequencerBatches(seq) : RollupBatch(seq, b)
  \/ RollupExecuted
  \/ EndRollup
  \/ FetchStoredBatches
  \/ \E i \in SeqNos : ExecuteStoredBatch(i)

Next ==
  \/ \E b \in Block : Submittable(b) /\ KeepsGenesis(batches, b) /\ SubmitL1Block(b)
  \/ \E seq \in 1 .. MaxSeqNo : SubmitBatch(seq)
  \/ ResubmitBatch
  \/ Continue
  \/ lastBlock = currentL1Head /\ Crash

Spec == Init /\ [][Next]_vars
-----------------------------------------------------------------------------
TypeOK ==
  /\ blocks \subseteq Block
  /\ lastBlock \in Block \cup {NoBlock}
  /\ canonicalBlocks \subseteq blocks
  /\ SeqNos \subseteq 1 .. MaxSeqNo
  /\ \A i \in SeqNos : batches[i] \in Batch
  /\ canonicalBatches \subseteq SeqNos
  /\ executed \subseteq SeqNos
  /\ currentL1Head \in Block \cup {NoBlock}
  /\ headBatchSeq \in SeqNos \cup {0}
  /\ pc \in {"idle", "started", "rollup", "rollupExecuted", "fetch", "execute", "crit"}
  /\ forked \in BOOLEAN
  /\ rollup \subseteq 1 .. MaxSeqNo
  /\ compressionL1Head \in Block \cup {NoBlock}
  /\ toExecute \subseteq SeqNos

\* The canonical flag of a batch, which is written by StoreBatch and by three
\* updates of StoreBlock, is at every step the one of its L1 block.
FlagsFollowL1 == canonicalBatches = BatchesByBlock(canonicalBlocks)

\* A batch is executed only after all its ancestors, whatever arrives first.
ExecutedInOrder ==
  \A i \in executed \ {L2GenesisSeqNo} : batches[i].parent \in executed

\* Whenever a call returned, every canonical batch was executed, those included
\* that a crash had left stored and not executed: nothing the validator has waits
\* for another message.  The cached head batch is one of
\* them; it is not always the highest, for a block that extends the head can
\* bring executed batches back and only a fork reloads the head.
CaughtUp ==
  pc = "idle" =>
    /\ canonicalBatches \subseteq executed
    /\ canonicalBatches # {} => headBatchSeq \in canonicalBatches

Ledger == INSTANCE L2Ledger WITH
  Content <- Txs \cup {NoTxs, SystemTxs},
  ledger <- [h \in {Height(i) : i \in executed} |-> txTable[h]]

\* The heights a validator ever executed are a prefix of the append-only ledger
\* the sequencer implements: L1 reorgs, crashes, rollups and batches that come
\* twice or late never change or drop what a height holds.
ImplementsLedger == Ledger!Spec
=============================================================================
