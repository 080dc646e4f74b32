-------------------------- MODULE SequencerFaults --------------------------
(***************************************************************************)
(* The sequencer's enclave in surroundings Spec of SequencerEnclave leaves *)
(* out: a host that catches up with the L1 block by block, a process that  *)
(* is stopped between calls or in the middle of one, a block whose         *)
(* messages cannot be stored, an L1 that drops the block of the genesis    *)
(* batch.  Each specification adds one of these.                           *)
(***************************************************************************)
EXTENDS SequencerEnclave

\* the handlers, as in SequencerEnclave, but for what the environment may do
Serve ==
  \/ CreateGenesisBatch
  \/ \E t \in Txs : CreateBatch(t)
  \/ Continue

Submit == \E b \in Block : IsTip(b) /\ KeepsGenesis(b) /\ SubmitL1Block(b)

\* A host that is behind submits, whatever the enclave has stored, the canonical
\* block above the latest canonical ancestor of the enclave's head
\* (Repository.FetchNextBlock).
FetchNextBlock(b) ==
  ~PreGenesis /\ Parent[b] \in Anc[currentL1Head] /\ b \notin Anc[currentL1Head]

CatchUp == \E b \in Block : FetchNextBlock(b) /\ KeepsGenesis(b) /\ SubmitL1Block(b)

SpecCatchUp == Init /\ [][Serve \/ Submit \/ CatchUp]_vars

\* The enclave is restarted between any two calls.
SpecRestart == Init /\ [][Serve \/ Submit \/ Restart]_vars

\* The process dies between StoreBatch and StoreExecutedBatch.
SpecCrashStoring == Init /\ [][Serve \/ Submit \/ (pc = "execute" /\ Crash)]_vars

\* The process dies while duplicateBatches is at work.
SpecCrashDuplicating == Init /\ [][Serve \/ Submit \/ (pc = "duplicate" /\ Crash)]_vars

\* The process dies in createGenesisBatch, after the genesis batch; the host
\* keeps asking for batches.
SpecCrashGenesis ==
  /\ Init
  /\ [][Serve \/ Submit \/ (pc = "system" /\ Crash)]_vars
  /\ WF_vars(Continue)
  /\ WF_vars(\E t \in Txs : CreateBatch(t))

\* mutant: the head is set before the messages are stored
ProcessFailsMutant(b) ==
  /\ pc = "idle"
  /\ ~PreGenesis
  /\ Ingestible(b)
  /\ CanonicalValidity(CanonicalBatchesWith(b))
  /\ StoreBlock(b)
  /\ currentL1Head' = b
  /\ UNCHANGED <<headBatchSeq, pc, dupVars>>

\* l1BlockProcessor.Process fails after StoreBlock, at the cross-chain messages
\* or the value transfers of the block: the tables have the block, currentL1Head
\* and the registry do not follow, and the caller gets an error.
ProcessFails(b) ==
  /\ pc = "idle"
  /\ ~PreGenesis
  /\ Ingestible(b)
  /\ CanonicalValidity(CanonicalBatchesWith(b))
  /\ StoreBlock(b)
  /\ UNCHANGED <<memVars, pc, dupVars>>

SpecProcessFails ==
  Init /\ [][ \/ Serve
              \/ Submit
              \/ \E b \in Block : IsTip(b) /\ KeepsGenesis(b) /\ ProcessFails(b) ]_vars

\* The L1 may drop any block.
SpecGenesisReorg ==
  Init /\ [][ \/ Serve
              \/ \E b \in Block : IsTip(b) /\ SubmitL1Block(b)
              \/ \E o \in SeqNos : DuplicateFails(o) ]_vars
-----------------------------------------------------------------------------
\* The network gets its system contracts: after the genesis batch comes batch #2
\* ("produce batch #2 which has the message bus and any other system
\* contracts").
SystemContractsDeployed == Len(batches) = L2GenesisSeqNo ~> Len(batches) > L2GenesisSeqNo

\* A failed Process does no lasting harm: as soon as the canonical flags of the
\* blocks and currentL1Head agree again, the head batch is usable and nothing was
\* lost ("the host is responsible to always submitting the head l1 block").
FailureHeals ==
  ~PreGenesis /\ canonicalBlocks \subseteq Anc[currentL1Head] => HeadIsTheTip /\ TransactionsSurvive
=============================================================================
