------------------------- MODULE SequencerInvariant -------------------------
(***************************************************************************)
(* The inductive invariant of the sequencer's enclave.                     *)
(*                                                                         *)
(* The core of IInv is a fact about ALL stored batches, not only the       *)
(* canonical ones: along any L1 branch there is one batch per height       *)
(* (Layered) and no height is left out (Filled).  That makes whatever      *)
(* branch the L1 returns to carry a chain of batches.                      *)
(***************************************************************************)
EXTENDS SequencerEnclave

\* the branch of the L1 head
Branch == IF currentL1Head = NoBlock THEN {} ELSE Anc[currentL1Head]

\* S has the blocks between b and c and a block below both
Joined(b, c, S) == Anc[b] \ Anc[c] \subseteq S /\ Anc[b] \cap Anc[c] \cap S # {}

\* The stored blocks hang together, the head is a leaf, is_canonical marks its
\* branch.
Linked ==
  /\ currentL1Head = NoBlock => blocks = {}
  /\ currentL1Head # NoBlock => currentL1Head \in blocks
  /\ \A b, c \in blocks : Joined(b, c, blocks)
  /\ \A b \in blocks : currentL1Head \in Anc[b] => b = currentL1Head
  /\ canonicalBlocks = Branch \cap blocks

\* A batch is one above its parent, on the same branch.
Chained ==
  \A i \in SeqNos :
    /\ L1Proof(i) \in blocks
    /\ i = 1 => Height(i) = 0 /\ batches[i].parent = 0
    /\ i # 1 => /\ batches[i].parent \in SeqNos
                /\ Height(i) = Height(batches[i].parent) + 1
                /\ L1Proof(batches[i].parent) \in Anc[L1Proof(i)]

\* One batch per height along a branch, ...
Layered ==
  \A i, j \in SeqNos : i # j /\ Height(i) = Height(j) => L1Proof(i) \notin Anc[L1Proof(j)]

\* ... and no height left out below a batch.
Filled ==
  \A i \in SeqNos : \A h \in 0 .. Height(i) :
    \E j \in SeqNos : Height(j) = h /\ L1Proof(j) \in Anc[L1Proof(i)]

\* The flags of the rows of table batch.
Flags ==
  /\ canonicalBatches = {i \in SeqNos : L1Proof(i) \in Branch}
  /\ batches # <<>> => 1 \in canonicalBatches
  /\ executed = IF pc = "execute" THEN SeqNos \ {Len(batches)} ELSE SeqNos

Tip(i) == i \in canonicalBatches /\ \A j \in canonicalBatches : Height(j) <= Height(i)

\* The cached head batch, or the batch being stored, is the tip.
Heads ==
  /\ pc = "execute" => batches # <<>> /\ Tip(Len(batches))
  /\ pc # "execute" => IF batches = <<>> THEN headBatchSeq = 0 ELSE Tip(headBatchSeq)
  /\ pc = "system" => Len(batches) = 1

Lowest(o) == IsNext(o)

\* the parent of the next duplicate
Base == IF pc = "execute" THEN Len(batches) ELSE currentHead

\* The loop of duplicateBatches: the orphans left are a chain that starts one
\* above the base, and every canonical batch in their way is excluded.
Loop ==
  /\ pc \in {"idle", "system"} => batchesToDuplicate = {}
  /\ pc = "duplicate" => batchesToDuplicate # {} /\ currentHead \in canonicalBatches
  /\ batchesToDuplicate \cap canonicalBatches = {}
  /\ batchesToExclude \subseteq canonicalBatches
  /\ \A d, e \in batchesToDuplicate : Height(d) = Height(e) => d = e
  /\ \A d \in batchesToDuplicate :
       /\ ~Lowest(d) => batches[d].parent \in batchesToDuplicate
       /\ Lowest(d) => /\ previous # 0 => batches[d].parent = previous
                       /\ Height(d) = Height(Base) + 1
                       /\ \A c \in canonicalBatches : Height(c) >= Height(d) => c \in batchesToExclude

\* No height is without a canonical batch, or an orphan to be duplicated.
Cover == \A i \in SeqNos : \E j \in LedgerBatches : Height(j) = Height(i)

IInv ==
  /\ TypeOK
  /\ NoCrit
  /\ Linked
  /\ Chained
  /\ Layered
  /\ Filled
  /\ Flags
  /\ Heads
  /\ Loop
  /\ Cover
  /\ TransactionsReadable
=============================================================================
