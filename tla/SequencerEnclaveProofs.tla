----------------------- MODULE SequencerEnclaveProofs -----------------------
(***************************************************************************)
(* The sequencer's enclave, for every tree of L1 blocks, every mempool and *)
(* every height: its sanity checks never fire, the canonical batches are   *)
(* one chain, the cached head is its tip, no transaction is lost to an L1  *)
(* reorg, it implements the append-only ledger, and its rollups give their *)
(* readers back its batches.                                               *)
(***************************************************************************)
EXTENDS SequencerStepProofs, BatchHeightCache, RollupCompression, WellFoundedInduction

\* A non-empty set of numbers has a least one.
LEMMA LeastNumber ==
  ASSUME NEW S \in SUBSET Nat, S # {}
  PROVE  \E m \in S : \A t \in S : m <= t
<1>1. PICK m \in S : \A t \in S : ~(<<t, m>> \in OpToRel(<, Nat))
  BY Zenon, NatLessThanWellFounded, WFMin
<1>2. \A t \in S : <<t, m>> \in Nat \X Nat /\ ~(t < m)
  <2>1. \A t \in S : t < m => <<t, m>> \in {ss \in Nat \X Nat : ss[1] < ss[2]}
    OBVIOUS
  <2> QED
    BY Zenon, <1>1, <2>1 DEF OpToRel
<1>3. \A t \in S : m <= t
  <2> TAKE t \in S
  <2>1. t \in Nat /\ m \in Nat /\ ~(t < m)
    BY Zenon, <1>2
  <2> QED
    BY <2>1
<1> QED
  BY Zenon, <1>3

\* A non-empty set of numbers up to n has an element with the highest value of
\* f: the least bound k below which some set has none would leave one without k.
LEMMA HighestExists ==
  ASSUME NEW n \in Nat, NEW S \in SUBSET (1 .. n), S # {}, NEW f \in [1 .. n -> Nat]
  PROVE  \E m \in S : \A t \in S : f[t] <= f[m]
<1> DEFINE Highest(T) == \E m \in T : \A t \in T : f[t] <= f[m]
           K == {k \in 1 .. n : \E T \in SUBSET (1 .. k) : T # {} /\ ~Highest(T)}
<1>1. SUFFICES ASSUME ~Highest(S) PROVE FALSE
  OBVIOUS
<1>2. n \in K
  <2> HIDE DEF Highest, K
  <2>1. PICK s \in S : TRUE
    BY Zenon
  <2>2. n \in 1 .. n
    BY <2>1
  <2> QED
    BY Zenon, <1>1, <2>2 DEF K
<1>3. PICK k \in K : \A l \in K : k <= l
  <2> HIDE DEF Highest, K
  <2>1. K \subseteq 1 .. n /\ K # {}
    BY Zenon, <1>2 DEF K
  <2>2. K \in SUBSET Nat
    BY <2>1
  <2> QED
    BY Zenon, <2>1, <2>2, LeastNumber
<1>4. PICK T \in SUBSET (1 .. k) : T # {} /\ ~Highest(T)
  BY Zenon
<1>5. k \in 1 .. n /\ \A U \in SUBSET (1 .. k - 1) : U # {} => Highest(U)
  <2>1. ASSUME NEW U \in SUBSET (1 .. k - 1), U # {} PROVE Highest(U)
    <3> HIDE DEF Highest, K
    <3>1. k \in 1 .. n
      BY Zenon DEF K
    <3>2. PICK u \in U : u \in 1 .. k - 1
      BY Zenon, <2>1
    <3>3. k - 1 \in 1 .. n /\ ~(k <= k - 1)
      BY <3>1, <3>2
    <3> QED
      BY Zenon, <1>3, <2>1, <3>3 DEF K
  <2> QED
    BY Zenon, <2>1
<1>6. PICK m \in T \ {k} : \A t \in T \ {k} : f[t] <= f[m]
  <2>1. T \ {k} # {}
    <3>1. ASSUME T = {k} PROVE FALSE
      BY <1>4, <1>5, <3>1
    <3> QED
      BY <1>4, <3>1
  <2>2. T \ {k} \in SUBSET (1 .. k - 1)
    BY <1>5
  <2> QED
    BY Zenon, <1>5, <2>1, <2>2
<1>7. f[k] \in Nat /\ m \in T /\ T \subseteq 1 .. n /\ f[m] \in Nat /\ \A t \in T : f[t] \in Nat
  BY <1>5
<1>8. CASE k \in T /\ f[m] <= f[k]
  <2>1. \A t \in T : f[t] <= f[k]
    BY <1>6, <1>7, <1>8
  <2> QED
    BY Zenon, <1>4, <1>8, <2>1
<1>9. CASE k \notin T \/ ~(f[m] <= f[k])
  <2>1. \A t \in T : f[t] <= f[m]
    BY <1>6, <1>7, <1>9
  <2> QED
    BY <1>4, <1>7, <2>1
<1> QED
  BY <1>8, <1>9

\* The database always has a highest one of some batches.
LEMMA TipsExist ==
  ASSUME TypeOK
  PROVE  HaveTips
<1> SUFFICES ASSUME NEW S \in SUBSET SeqNos, S # {}
             PROVE  \E m \in S : \A t \in S : Height(t) <= Height(m)
  BY Zenon DEF HaveTips
<1>1. SeqNos = 1 .. Len(batches) /\ Len(batches) \in Nat /\ \A i \in SeqNos : Height(i) \in Nat
  BY BatchFacts, Zenon
<1> DEFINE f == [i \in 1 .. Len(batches) |-> Height(i)]
<1>2. f \in [1 .. Len(batches) -> Nat] /\ \A i \in SeqNos : f[i] = Height(i)
  BY Zenon, <1>1
<1>3. PICK m \in S : \A t \in S : f[t] <= f[m]
  <2> HIDE DEF f
  <2>1. S \in SUBSET (1 .. Len(batches))
    BY <1>1
  <2> QED
    BY Zenon, <1>1, <1>2, <2>1, HighestExists
<1> QED
  BY Zenon, <1>2, <1>3

\* The empty database.
LEMMA InitIInv == Init => IInv
<1> SUFFICES ASSUME Init PROVE IInv
  OBVIOUS
<1>1. /\ batches = <<>> /\ blocks = {} /\ canonicalBlocks = {} /\ canonicalBatches = {}
      /\ executed = {} /\ currentL1Head = NoBlock /\ headBatchSeq = 0 /\ pc = "idle"
      /\ batchesToDuplicate = {} /\ batchesToExclude = {} /\ previous = 0 /\ currentHead = 0
      /\ lastBlock = NoBlock /\ DOMAIN txTable = {}
  BY Zenon DEF Init
<1>2. SeqNos = {}
  BY <1>1 DEF SeqNos
<1>3. TypeOK /\ NoCrit
  BY <1>1, <1>2 DEF TypeOK, NoCrit
<1>4. Linked
  BY Zenon, <1>1 DEF Linked, Branch
<1>5. Chained /\ Layered /\ Filled /\ Cover /\ TransactionsReadable
  BY Zenon, <1>2 DEF Chained, Layered, Filled, Cover, TransactionsReadable
<1>6. Flags /\ Heads /\ Loop
  BY Zenon, <1>1, <1>2 DEF Flags, Heads, Loop
<1> QED
  BY Zenon, <1>3, <1>4, <1>5, <1>6 DEF IInv

\* Every step of the sequencer's enclave keeps the invariant.
LEMMA NextIInv == IInv /\ [Next]_vars => IInv'
<1> SUFFICES ASSUME IInv, [Next]_vars PROVE IInv'
  OBVIOUS
<1>1. CASE \E b \in Block : IsTip(b) /\ KeepsGenesis(b) /\ SubmitL1Block(b)
  BY Zenon, <1>1, SubmitStep, TipsExist DEF IInv
<1>2. CASE CreateGenesisBatch
  BY Zenon, <1>2, GenesisBatch, ProduceStep
<1>3. CASE \E t \in Txs : CreateBatch(t)
  BY Zenon, <1>3, HeadBatch, ProduceStep
<1>4. CASE Continue
  <2>1. CASE StoreExecutedBatch
    BY Zenon, <2>1, StoreExecutedStep
  <2>2. CASE CreateSystemBatch
    BY <2>2, SystemBatch, ProduceStep, Zenon
  <2>3. CASE \E o \in SeqNos : SkipDuplicate(o) \/ DuplicateBatch(o)
    BY Zenon, <2>3, SkipStep, DuplicateStep
  <2> QED
    BY Zenon, <1>4, <2>1, <2>2, <2>3 DEF Continue
<1>5. CASE lastBlock = currentL1Head /\ Restart
  BY Zenon, <1>5, RestartStep
<1>6. CASE UNCHANGED vars
  BY Zenon, <1>6, StutterStep
<1> QED
  BY Zenon, <1>1, <1>2, <1>3, <1>4, <1>5, <1>6 DEF Next

\* A new batch is stored on the L1 head.
LEMMA NewBatch ==
  ASSUME Next, batches' # batches
  PROVE  /\ pc' = "execute" /\ currentL1Head' = currentL1Head
         /\ \E b : batches' = Append(batches, b) /\ b.l1Proof = currentL1Head
<1>1. ASSUME NEW b \in Block, SubmitL1Block(b) PROVE batches' = batches
  BY Zenon, <1>1 DEF SubmitL1Block, StoreBlock, Crit, dbVars
<1>2. ASSUME NEW seq, NEW b, Produce(seq, b), b.l1Proof = currentL1Head
      PROVE  /\ pc' = "execute" /\ currentL1Head' = currentL1Head
             /\ \E c : batches' = Append(batches, c) /\ c.l1Proof = currentL1Head
  BY Zenon, <1>2 DEF Produce, InsertBatch, Crit, dbVars, memVars
<1>3. ASSUME NEW o \in SeqNos, DuplicateBatch(o)
      PROVE  /\ pc' = "execute" /\ currentL1Head' = currentL1Head
             /\ \E b : batches' = Append(batches, b) /\ b.l1Proof = currentL1Head
  <2>1. PICK b \in Duplicates(o) : InsertBatch(Len(batches) + 1, b)
    BY Zenon, <1>3 DEF DuplicateBatch, Crit, dbVars
  <2>2. b.l1Proof = currentL1Head
    BY Zenon, <2>1 DEF Duplicates
  <2> QED
    BY Zenon, <2>1, <2>2 DEF InsertBatch, memVars
<1>4. ASSUME NEW o \in SeqNos, SkipDuplicate(o) PROVE batches' = batches
  BY Zenon, <1>4 DEF SkipDuplicate, Crit, dbVars
<1>5. CASE CreateGenesisBatch \/ CreateSystemBatch \/ \E t \in Txs : CreateBatch(t)
  <2>1. PICK seq, h, p, t :
          Produce(seq, [height |-> h, parent |-> p, l1Proof |-> currentL1Head, txs |-> t])
    BY Zenon, <1>5 DEF CreateGenesisBatch, CreateSystemBatch, CreateBatch
  <2> QED
    BY Zenon, <1>2, <2>1
<1>6. CASE StoreExecutedBatch
  BY <1>6, Zenon DEF StoreExecutedBatch
<1>7. CASE Restart
  BY <1>7, Zenon DEF Restart, Reload, dbVars
<1> QED
  BY <1>1, <1>3, <1>4, <1>5, <1>6, <1>7 DEF Next, Continue

\* The inductive invariant holds in every state the sequencer reaches.
THEOREM Inductive == Spec => []IInv
BY InitIInv, NextIInv, PTL DEF Spec

\* The tables and the caches of the enclave always have their types.
THEOREM TypeCorrect == Spec => []TypeOK
<1>1. IInv => TypeOK
  BY Zenon DEF IInv
<1> QED
  BY <1>1, Inductive, PTL

\* No sanity check of StoreBlock, StoreBatch or duplicateBatches ever stops the
\* process, for any tree of L1 blocks.
THEOREM NeverCritical == Spec => []NoCrit
<1>1. IInv => NoCrit
  BY Zenon DEF IInv
<1> QED
  BY <1>1, Inductive, PTL

\* StoreBlock and StoreBatch never leave two canonical batches of one height.
THEOREM SingleCanonicalBatch == Spec => []OneCanonicalBatchPerHeight
<1>1. ASSUME IInv, NEW i \in canonicalBatches, NEW j \in canonicalBatches, Height(i) = Height(j)
      PROVE  i = j
  <2>1. TypeOK /\ Layered /\ Flags
    BY Zenon, <1>1 DEF IInv
  <2>2. /\ i \in SeqNos /\ j \in SeqNos /\ currentL1Head \in Block
        /\ L1Proof(i) \in Anc[currentL1Head] /\ L1Proof(j) \in Anc[currentL1Head]
    BY <2>1, Zenon DEF Flags, Branch, TypeOK
  <2> QED
    BY Zenon, <1>1, <2>1, <2>2, OnePerHeight
<1>2. IInv => OneCanonicalBatchPerHeight
  BY Zenon, <1>1 DEF OneCanonicalBatchPerHeight, CanonicalValidity
<1> QED
  BY <1>2, Inductive, PTL

\* StoreBlock never leaves two canonical blocks of one number.
THEOREM SingleCanonicalBlock == Spec => []OneCanonicalBlockPerHeight
<1>1. ASSUME IInv, NEW a \in canonicalBlocks, NEW b \in canonicalBlocks, Number[a] = Number[b]
      PROVE  a = b
  <2>1. TypeOK /\ canonicalBlocks = Branch \cap blocks
    BY Zenon, <1>1 DEF IInv, Linked
  <2>2. currentL1Head \in Block /\ a \in Anc[currentL1Head] /\ b \in Anc[currentL1Head]
    BY Zenon, <2>1 DEF Branch, TypeOK
  <2>3. a \in Block /\ b \in Block /\ (a \in Anc[b] \/ b \in Anc[a])
    BY Zenon, <2>2, AncFacts, AncComparable
  <2>4. Number[a] \in Int /\ Number[b] \in Int
    BY <2>3, AncFacts
  <2> QED
    BY <1>1, <2>3, <2>4, AncFacts
<1>2. IInv => OneCanonicalBlockPerHeight
  BY <1>1, Zenon DEF OneCanonicalBlockPerHeight
<1> QED
  BY <1>2, Inductive, PTL

\* The canonical batches are one chain that follows the L1 chain.
THEOREM CanonicalBatchesChain == Spec => []CanonicalChain
<1>1. ASSUME IInv PROVE CanonicalChain
  <2>1. TypeOK /\ Chained /\ Flags /\ canonicalBatches \subseteq SeqNos
    BY Zenon, <1>1 DEF IInv, TypeOK
  <2>2. ASSUME NEW i \in canonicalBatches \ {1}
        PROVE  /\ batches[i].parent \in canonicalBatches
               /\ Height(i) = Height(batches[i].parent) + 1
               /\ L1Proof(batches[i].parent) \in Anc[L1Proof(i)]
    <3>1. /\ i \in SeqNos
          /\ batches[i].parent \in SeqNos
          /\ Height(i) = Height(batches[i].parent) + 1
          /\ L1Proof(batches[i].parent) \in Anc[L1Proof(i)]
      BY Zenon, <2>1 DEF Chained
    <3>2. L1Proof(i) \in Block /\ L1Proof(i) \in Branch /\ currentL1Head \in Block
      BY Zenon, <2>1, <3>1, BatchFacts DEF Flags, Branch, TypeOK
    <3>3. L1Proof(batches[i].parent) \in Branch
      BY Zenon, <3>1, <3>2, <2>1, BatchFacts, AncTransitive DEF Branch
    <3> QED
      BY Zenon, <2>1, <3>1, <3>3 DEF Flags
  <2> QED
    BY Zenon, <2>2 DEF CanonicalChain, L2GenesisSeqNo
<1> QED
  BY <1>1, Inductive, PTL

\* Whenever a call returned, the cached head batch is the executed tip of the
\* canonical chain and createNewHeadBatch accepts it.
THEOREM HeadBatchIsTheTip == Spec => []HeadIsTheTip
<1>1. ASSUME IInv, pc = "idle", Len(batches) > 0
      PROVE  /\ headBatchSeq \in executed
             /\ HeadBatchUsable
             /\ \A i \in canonicalBatches : Height(i) <= Height(headBatchSeq)
  <2>1. /\ TypeOK /\ Linked /\ Chained /\ Flags /\ Heads /\ canonicalBatches \subseteq SeqNos
    BY Zenon, <1>1 DEF IInv, TypeOK
  <2>2. batches # <<>>
    BY <1>1
  <2>3. Tip(headBatchSeq) /\ headBatchSeq \in canonicalBatches /\ executed = SeqNos
    BY <1>1, <2>1, <2>2, Zenon DEF Heads, Tip, Flags
  <2>4. /\ L1Proof(headBatchSeq) \in blocks /\ L1Proof(headBatchSeq) \in Branch
        /\ currentL1Head # NoBlock /\ currentL1Head \in blocks
    BY Zenon, <2>1, <2>3 DEF Flags, Chained, Branch, Linked
  <2>5. Anc[currentL1Head] \ Anc[L1Proof(headBatchSeq)] \subseteq blocks
    BY Zenon, <2>1, <2>4 DEF Linked, Joined
  <2> QED
    BY <2>1, <2>3, <2>4, <2>5, Zenon DEF Tip, HeadBatchUsable, IsAncestorOfHead, Branch
<1>2. IInv => HeadIsTheTip
  BY Zenon, <1>1 DEF HeadIsTheTip
<1> QED
  BY <1>2, Inductive, PTL

\* Whenever a call returned, each batch ever stored has a canonical batch of its
\* height with its transactions: an L1 reorg loses none.
THEOREM NoTransactionLost == Spec => []TransactionsSurvive
<1>1. ASSUME IInv, pc = "idle", NEW i \in SeqNos
      PROVE  \E j \in canonicalBatches : Height(j) = Height(i) /\ batches[j].txs = batches[i].txs
  <2>1. Cover /\ TransactionsReadable /\ batchesToDuplicate = {} /\ canonicalBatches \subseteq SeqNos
    BY Zenon, <1>1 DEF IInv, Loop, TypeOK
  <2>2. PICK j \in canonicalBatches : Height(j) = Height(i)
    BY Zenon, <2>1 DEF Cover, LedgerBatches
  <2> QED
    BY Zenon, <2>1, <2>2 DEF TransactionsReadable
<1>2. IInv => TransactionsSurvive
  BY Zenon, <1>1 DEF TransactionsSurvive
<1> QED
  BY <1>2, Inductive, PTL

\* Reading the transactions of a batch by its height gives that batch's.
THEOREM TransactionsByHeight == Spec => []TransactionsReadable
<1>1. IInv => TransactionsReadable
  BY Zenon DEF IInv
<1> QED
  BY <1>1, Inductive, PTL

\* The sequencer guarantees what ValidatorEnclave assumes of the batches a
\* validator receives.
THEOREM HistoryGuaranteed == Spec => []HistoryKept
<1>1. IInv => HistoryKept
  <2> SUFFICES ASSUME IInv PROVE HistoryKept
    OBVIOUS
  <2>1. Chained /\ Layered /\ TransactionsReadable
    BY Zenon DEF IInv
  <2>2. ASSUME NEW i \in SeqNos
        PROVE  IF i = 1 THEN Height(i) = 0
               ELSE /\ batches[i].parent \in SeqNos
                    /\ Height(i) = Height(batches[i].parent) + 1
                    /\ L1Proof(batches[i].parent) \in Anc[L1Proof(i)]
    BY Zenon, <2>1 DEF Chained
  <2>3. ASSUME NEW i \in SeqNos, NEW j \in SeqNos, i # j, Height(i) = Height(j)
        PROVE  L1Proof(i) \notin Anc[L1Proof(j)] /\ batches[i].txs = batches[j].txs
    BY Zenon, <2>1, <2>3 DEF Layered, TransactionsReadable
  <2> QED
    BY Zenon, <2>2, <2>3 DEF HistoryKept, SequencerHistory, SeqNos, Height, L1Proof, L2GenesisSeqNo, L2GenesisHeight
<1> QED
  BY <1>1, Inductive, PTL
-----------------------------------------------------------------------------
(***************************************************************************)
(* The ledger.  By the invariant it is table tx, restricted to the heights *)
(* of the canonical batches and of the orphans still to be duplicated.  A  *)
(* step that stores no batch leaves it alone, a duplicate has the height   *)
(* of its orphan, and any other batch has the first height that is free.   *)
(***************************************************************************)

\* the mapping of SequencerEnclave!Ledger
LedgerOf == [h \in {Height(i) : i \in LedgerBatches} |->
               batches[CHOOSE i \in LedgerBatches : Height(i) = h].txs]

\* the heights of the batches stored
Heights == {Height(i) : i \in SeqNos}

\* The ledger is table tx.
LEMMA LedgerIsTxTable == IInv => LedgerOf = [h \in Heights |-> txTable[h]]
<1> SUFFICES ASSUME IInv PROVE LedgerOf = [h \in Heights |-> txTable[h]]
  BY Zenon
<1>1. TypeOK /\ Cover /\ TransactionsReadable /\ LedgerBatches \subseteq SeqNos
  BY Zenon DEF IInv, TypeOK, LedgerBatches
<1>2. {Height(i) : i \in LedgerBatches} = Heights
  BY Zenon, <1>1 DEF Cover, Heights
<1>3. ASSUME NEW h \in Heights
      PROVE  batches[CHOOSE i \in LedgerBatches : Height(i) = h].txs = txTable[h]
  <2>1. \E i \in LedgerBatches : Height(i) = h
    BY Zenon, <1>2
  <2>2. PICK j : j = CHOOSE i \in LedgerBatches : Height(i) = h
    OBVIOUS
  <2>3. j \in LedgerBatches /\ Height(j) = h
    BY Zenon, <2>1, <2>2
  <2> QED
    BY Zenon, <1>1, <2>2, <2>3 DEF TransactionsReadable
<1> QED
  BY Zenon, <1>2, <1>3 DEF LedgerOf

\* The ledger before and after a step.
LEMMA LedgerAround ==
  ASSUME IInv, IInv'
  PROVE  LedgerOf = [h \in Heights |-> txTable[h]] /\ LedgerOf' = [h \in Heights' |-> txTable'[h]]
<1>1. (IInv => LedgerOf = [h \in Heights |-> txTable[h]])'
  BY LedgerIsTxTable, PTL
<1> QED
  BY Zenon, <1>1, LedgerIsTxTable

\* A step that stores no batch does not change the ledger.
LEMMA LedgerUnchanged ==
  ASSUME IInv, IInv', batches' = batches, txTable' = txTable
  PROVE  LedgerOf' = LedgerOf
<1>1. Heights' = Heights
  BY Zenon DEF Heights, SeqNos, Height
<1> QED
  BY Zenon, <1>1, LedgerAround

\* The heights stored, with one more batch.
LEMMA HeightsInsert ==
  ASSUME TypeOK, NEW b \in Batch, InsertBatch(Len(batches) + 1, b)
  PROVE  Heights' = Heights \cup {b.height}
<1>1. PICK n : n = Len(batches) + 1
  BY Zenon
<1>2. /\ SeqNos' = SeqNos \cup {n}
      /\ \A i \in SeqNos : batches'[i] = batches[i]
      /\ batches'[n] = b
  BY Zenon, <1>1, InsertFacts
<1>3. /\ \A i \in SeqNos : Height(i)' = Height(i)
      /\ Height(n)' = b.height
  BY Zenon, <1>2 DEF Height
<1> QED
  BY Zenon, <1>2, <1>3 DEF Heights

\* A duplicate does not change the ledger either: there is a batch of its height.
LEMMA LedgerKeepsDuplicate ==
  ASSUME IInv, IInv', NEW b \in Batch, InsertBatch(Len(batches) + 1, b), b.height \in Heights
  PROVE  LedgerOf' = LedgerOf
<1>1. txTable' = txTable
  BY Zenon DEF InsertBatch, TxTableWith, Heights
<1>2. Heights' = Heights
  BY Zenon, HeightsInsert DEF IInv
<1> QED
  BY Zenon, <1>1, <1>2, LedgerAround

\* Any other batch has the first free height: the ledger grows at its end.
LEMMA LedgerGrows ==
  ASSUME IInv, IInv', NEW b \in Batch, InsertBatch(Len(batches) + 1, b),
         \A i \in SeqNos : Height(i) < b.height,
         batches = <<>> => b.height = 0,
         batches # <<>> => b.parent \in SeqNos /\ b.height = Height(b.parent) + 1
  PROVE  /\ b.height \in ({0} \cup {h + 1 : h \in DOMAIN LedgerOf}) \ DOMAIN LedgerOf
         /\ LedgerOf' = [h \in DOMAIN LedgerOf \cup {b.height} |->
                           IF h = b.height THEN b.txs ELSE LedgerOf[h]]
<1>1. TypeOK /\ TransactionsReadable /\ b.height \in Nat
  BY Zenon DEF IInv, Batch
<1>2. /\ Len(batches) \in Nat /\ SeqNos = 1 .. Len(batches)
      /\ \A i \in SeqNos : Height(i) \in Nat
  BY Zenon, <1>1, BatchFacts
<1>3. b.height \notin Heights
  <2>1. \A i \in SeqNos : Height(i) # b.height
    BY <1>1, <1>2
  <2> QED
    BY Zenon, <2>1 DEF Heights
<1>4. b.height \in {0} \cup {h + 1 : h \in Heights}
  <2>1. CASE batches = <<>>
    BY Zenon, <2>1
  <2>2. CASE batches # <<>>
    <3>1. Height(b.parent) \in Heights
      BY Zenon, <2>2 DEF Heights
    <3> QED
      BY Zenon, <2>2, <3>1
  <2> QED
    BY Zenon, <2>1, <2>2
<1>5. txTable' = [h \in DOMAIN txTable \cup {b.height} |-> IF h = b.height THEN b.txs ELSE txTable[h]]
  BY Zenon, <1>3 DEF InsertBatch, TxTableWith, Heights
<1>6. Heights \subseteq DOMAIN txTable
  BY Zenon, <1>1 DEF TransactionsReadable, Heights
<1>7. Heights' = Heights \cup {b.height}
  BY Zenon, <1>1, HeightsInsert
<1>8. /\ LedgerOf = [h \in Heights |-> txTable[h]]
      /\ LedgerOf' = [h \in Heights' |-> txTable'[h]]
  BY Zenon, LedgerAround
<1>9. DOMAIN LedgerOf = Heights /\ \A h \in Heights : LedgerOf[h] = txTable[h]
  BY Zenon, <1>8
<1>10. \A h \in Heights' : txTable'[h] = IF h = b.height THEN b.txs ELSE LedgerOf[h]
  BY <1>5, <1>6, <1>7, <1>9, Zenon
<1> QED
  BY <1>3, <1>4, <1>7, <1>8, <1>9, <1>10

\* A batch produced outside duplicateBatches extends the ledger.
LEMMA ProduceExtends ==
  ASSUME IInv, IInv', NEW b \in Batch, Fresh(b), Produce(Len(batches) + 1, b)
  PROVE  Ledger!Next
<1>1. InsertBatch(Len(batches) + 1, b)
  BY Zenon DEF Produce, Crit, IInv, NoCrit
<1>2. /\ \A i \in SeqNos : Height(i) < b.height
      /\ batches = <<>> => b.height = 0
      /\ batches # <<>> => b.parent \in SeqNos /\ b.height = Height(b.parent) + 1
  BY Zenon DEF Fresh, IInv, TypeOK
<1>3. /\ b.height \in ({0} \cup {h + 1 : h \in DOMAIN LedgerOf}) \ DOMAIN LedgerOf
      /\ LedgerOf' = [h \in DOMAIN LedgerOf \cup {b.height} |->
                        IF h = b.height THEN b.txs ELSE LedgerOf[h]]
  BY Zenon, <1>1, <1>2, LedgerGrows
<1>4. b.txs \in Txs \cup {NoTxs, SystemTxs}
  BY Zenon DEF Batch
<1>5. b.height \in Ledger!Free
  BY Zenon, <1>3 DEF Ledger!Free, LedgerOf
<1>6. Ledger!Extend(b.height, b.txs)
  BY Zenon, <1>3 DEF Ledger!Extend, LedgerOf
<1> QED
  BY Zenon, <1>4, <1>5, <1>6 DEF Ledger!Next

\* Every step of the sequencer's enclave is a step of the ledger, or none.
LEMMA StepRefines ==
  ASSUME IInv, IInv', [Next]_vars
  PROVE  Ledger!Next \/ LedgerOf' = LedgerOf
<1>1. CASE \E b \in Block : IsTip(b) /\ KeepsGenesis(b) /\ SubmitL1Block(b)
  <2>1. batches' = batches /\ txTable' = txTable
    BY Zenon, <1>1 DEF SubmitL1Block, StoreBlock, Crit, dbVars
  <2> QED
    BY Zenon, <2>1, LedgerUnchanged
<1>2. CASE CreateGenesisBatch
  BY Zenon, <1>2, GenesisBatch, ProduceExtends
<1>3. CASE \E t \in Txs : CreateBatch(t)
  BY Zenon, <1>3, HeadBatch, ProduceExtends
<1>4. CASE CreateSystemBatch
  BY <1>4, SystemBatch, ProduceExtends, Zenon
<1>5. CASE StoreExecutedBatch
  <2>1. batches' = batches /\ txTable' = txTable
    BY Zenon, <1>5 DEF StoreExecutedBatch
  <2> QED
    BY <2>1, LedgerUnchanged, Zenon
<1>6. ASSUME NEW o \in SeqNos, SkipDuplicate(o) PROVE LedgerOf' = LedgerOf
  <2>1. batches' = batches /\ txTable' = txTable
    BY Zenon, <1>6 DEF SkipDuplicate, Crit, dbVars
  <2> QED
    BY Zenon, <2>1, LedgerUnchanged
<1>7. ASSUME NEW o \in SeqNos, DuplicateBatch(o) PROVE LedgerOf' = LedgerOf
  <2>1. /\ TypeOK /\ Loop /\ pc = "duplicate" /\ o \in batchesToDuplicate /\ Lowest(o)
        /\ currentHead \in canonicalBatches /\ pc' # "crit"
    BY Zenon, <1>7 DEF IInv, DuplicateBatch, IsNext, Lowest, Loop, NoCrit
  <2>2. PICK b \in Duplicates(o) : InsertBatch(Len(batches) + 1, b)
    BY Zenon, <1>7, <2>1 DEF DuplicateBatch, Crit
  <2>3. Height(o) = Height(currentHead) + 1
    BY Zenon, <2>1 DEF Loop, Base
  <2>4. currentL1Head \in Block
    BY Zenon, <2>1 DEF IInv, TypeOK, Flags, Branch
  <2>5. txTable[Height(o)] = batches[o].txs /\ batches[o].txs \in Txs \cup {NoTxs, SystemTxs}
        /\ Height(o) \in Nat /\ currentHead \in Nat
    <3>1. txTable[Height(o)] = batches[o].txs
      BY Zenon DEF IInv, TransactionsReadable
    <3>2. currentHead \in SeqNos
      BY Zenon, <2>1 DEF TypeOK
    <3> QED
      BY <2>1, <3>1, <3>2, BatchFacts
  <2>6. b \in Batch /\ b.height = Height(o)
    BY <2>2, <2>3, <2>4, <2>5, Zenon DEF Duplicates, Batch
  <2>7. b.height \in Heights
    BY Zenon, <2>6 DEF Heights
  <2> QED
    BY <2>2, <2>6, <2>7, LedgerKeepsDuplicate, Zenon
<1>8. CASE lastBlock = currentL1Head /\ Restart
  <2>1. batches' = batches /\ txTable' = txTable
    BY Zenon, <1>8 DEF Restart, Reload, dbVars
  <2> QED
    BY <2>1, LedgerUnchanged, Zenon
<1>9. CASE UNCHANGED vars
  <2>1. batches' = batches /\ txTable' = txTable
    BY Zenon, <1>9 DEF vars, dbVars
  <2> QED
    BY <2>1, LedgerUnchanged, Zenon
<1> QED
  BY <1>1, <1>2, <1>3, <1>4, <1>5, <1>6, <1>7, <1>8, <1>9 DEF Next, Continue

\* The sequencer's enclave implements the append-only ledger: no L1 reorg and
\* no restart changes or drops the transactions of a height.
THEOREM LedgerImplemented == Spec => ImplementsLedger
<1>1. Init => Ledger!Init
  <2> SUFFICES ASSUME Init PROVE Ledger!Init
    OBVIOUS
  <2>1. LedgerBatches = {}
    BY Zenon DEF Init, LedgerBatches
  <2> QED
    BY Zenon, <2>1 DEF Ledger!Init
<1>2. IInv /\ IInv' /\ [Next]_vars => [Ledger!Next]_LedgerOf
  BY Zenon, StepRefines
<1> QED
  BY <1>1, <1>2, Inductive, PTL DEF Spec, ImplementsLedger, Ledger!Spec, LedgerOf
-----------------------------------------------------------------------------
(* The cache of batches by height.                                           *)

\* What the cache has for a height, and what a reader is about to put there, is
\* a stored batch; an entry is of its height.
Cached ==
  /\ \A h \in DOMAIN seqCacheByHeight : seqCacheByHeight[h] \in SeqNos /\ Height(seqCacheByHeight[h]) = h
  /\ reading \subseteq SeqNos

\* A handler overwrites the entry of the batch it stores.
LEMMA HandleKeepsCached ==
  ASSUME IInv, Cached, Handle
  PROVE  IInv' /\ Cached'
<1>1. Next /\ CacheBatch /\ reading' = reading
  BY Zenon DEF Handle, Next
<1>2. IInv' /\ TypeOK /\ TypeOK'
  BY Zenon, <1>1, NextIInv DEF IInv
<1>3. batches \in Seq(Batch) /\ batches' \in Seq(Batch)
  BY Zenon, <1>2 DEF TypeOK
<1>4. CASE batches' = batches
  <2>1. seqCacheByHeight' = seqCacheByHeight
    BY <1>1, <1>3, <1>4 DEF CacheBatch
  <2> QED
    BY <1>1, <1>2, <1>4, <2>1, Zenon DEF Cached, SeqNos, Height
<1>5. ASSUME NEW b, batches' = Append(batches, b) PROVE Cached'
  <2>1. PICK n \in Nat : n = Len(batches)
    BY <1>3
  <2>2. /\ Len(batches') = n + 1 /\ DOMAIN batches = 1 .. n /\ DOMAIN batches' = 1 .. n + 1
        /\ \A i \in 1 .. n : batches'[i] = batches[i]
    BY <1>3, <1>5, <2>1
  <2>3. seqCacheByHeight' = Cache(n + 1, batches'[n + 1].height)
    BY <1>1, <2>1, <2>2 DEF CacheBatch
  <2>4. SeqNos = 1 .. n /\ SeqNos' = 1 .. n + 1
    BY Zenon, <2>2 DEF SeqNos
  <2> DEFINE k == batches'[n + 1].height
  <2>5. /\ DOMAIN seqCacheByHeight' = DOMAIN seqCacheByHeight \cup {k}
        /\ seqCacheByHeight'[k] = n + 1
        /\ \A h \in DOMAIN seqCacheByHeight \ {k} : seqCacheByHeight'[h] = seqCacheByHeight[h]
    BY Zenon, <2>3 DEF Cache
  <2>6. ASSUME NEW h \in DOMAIN seqCacheByHeight \ {k}
        PROVE  seqCacheByHeight'[h] \in SeqNos' /\ batches'[seqCacheByHeight'[h]].height = h
    <3>1. seqCacheByHeight[h] \in 1 .. n /\ batches[seqCacheByHeight[h]].height = h
      BY Zenon, <2>4, <2>6 DEF Cached, Height
    <3> QED
      BY <2>2, <2>4, <2>5, <3>1
  <2>7. seqCacheByHeight'[k] \in SeqNos' /\ batches'[seqCacheByHeight'[k]].height = k
    BY <2>4, <2>5
  <2>8. reading' \subseteq SeqNos'
    BY <1>1, <2>4 DEF Cached
  <2> QED
    BY <2>5, <2>6, <2>7, <2>8, Zenon DEF Cached, Height
<1> QED
  BY <1>1, <1>2, <1>4, <1>5, NewBatch, Zenon

\* An entry of the cache by height always leads to the transactions of the
\* canonical batch of that height, though the batch it names may be orphaned.
THEOREM CacheReadable == CacheSpec => []CachedTransactionsRight
<1>1. CacheInit => IInv /\ Cached
  <2>1. CacheInit => IInv
    BY Zenon, InitIInv DEF CacheInit
  <2>2. CacheInit => Cached
    BY DEF CacheInit, Cached
  <2> QED
    BY Zenon, <2>1, <2>2
<1>2. IInv /\ Cached /\ [CacheNext]_<<vars, cacheVars>> => IInv' /\ Cached'
  <2> SUFFICES ASSUME IInv, Cached, [CacheNext]_<<vars, cacheVars>> PROVE IInv' /\ Cached'
    BY Zenon
  <2>1. CASE Handle
    BY Zenon, <2>1, HandleKeepsCached
  <2>2. ASSUME UNCHANGED vars PROVE IInv' /\ SeqNos' = SeqNos /\ \A i : Height(i)' = Height(i)
    <3>1. batches' = batches
      BY Zenon, <2>2 DEF vars, dbVars
    <3> QED
      BY Zenon, <2>2, <3>1, NextIInv DEF SeqNos, Height
  <2>3. CASE ReadMiss
    <3>1. UNCHANGED <<vars, seqCacheByHeight>> /\ reading' \subseteq SeqNos
      BY Zenon, <2>3 DEF ReadMiss, IInv, TypeOK
    <3>2. batches' = batches
      BY Zenon, <3>1 DEF vars, dbVars
    <3> QED
      BY <2>2, <3>1, <3>2, Zenon DEF Cached, Height
  <2>4. CASE CacheIfMissing
    <3>1. PICK i \in reading : seqCacheByHeight' = Cache(i, Height(i))
      BY Zenon, <2>4 DEF CacheIfMissing
    <3>2. UNCHANGED vars /\ reading' = {}
      BY Zenon, <2>4 DEF CacheIfMissing
    <3>3. batches' = batches
      BY Zenon, <3>2 DEF vars, dbVars
    <3> QED
      BY <2>2, <3>1, <3>2, <3>3, Zenon DEF Cached, Height, Cache
  <2>5. CASE Evict
    <3>1. UNCHANGED vars /\ reading' = reading
      BY Zenon, <2>5 DEF Evict
    <3>2. PICK d : seqCacheByHeight' = [k \in DOMAIN seqCacheByHeight \ {d} |-> seqCacheByHeight[k]]
      BY Zenon, <2>5 DEF Evict
    <3>3. batches' = batches
      BY Zenon, <3>1 DEF vars, dbVars
    <3> QED
      BY <2>2, <3>1, <3>2, <3>3, Zenon DEF Cached, Height
  <2>6. CASE UNCHANGED <<vars, cacheVars>>
    <3>1. UNCHANGED vars /\ UNCHANGED <<seqCacheByHeight, reading>> /\ batches' = batches
      BY Zenon, <2>6 DEF cacheVars, vars, dbVars
    <3> QED
      BY Zenon, <2>2, <3>1 DEF Cached, Height
  <2> QED
    BY <2>1, <2>3, <2>4, <2>5, <2>6, Zenon DEF CacheNext
<1>3. IInv /\ Cached => CachedTransactionsRight
  <2> SUFFICES ASSUME IInv, Cached, pc = "idle", NEW h \in DOMAIN seqCacheByHeight
               PROVE  \E j \in canonicalBatches :
                        Height(j) = h /\ batches[j].txs = batches[seqCacheByHeight[h]].txs
    BY Zenon DEF CachedTransactionsRight, Cached
  <2>1. PICK i \in SeqNos : i = seqCacheByHeight[h] /\ Height(i) = h
    BY Zenon DEF Cached
  <2>2. /\ Cover /\ TransactionsReadable /\ batchesToDuplicate = {}
        /\ canonicalBatches \subseteq SeqNos
    BY Zenon DEF IInv, Loop, TypeOK
  <2>3. PICK j \in canonicalBatches : Height(j) = Height(i)
    BY Zenon, <2>2 DEF Cover, LedgerBatches
  <2> QED
    BY <2>1, <2>2, <2>3 DEF TransactionsReadable
<1> QED
  BY <1>1, <1>2, <1>3, PTL DEF CacheSpec
-----------------------------------------------------------------------------
(* Rollups.                                                                  *)

\* Along a branch the batches are numbered in the order of their heights: a
\* batch is stored on the L1 head, which is a leaf, above all canonical batches.
Ordered ==
  \A i, j \in SeqNos :
    i < j /\ (L1Proof(i) \in Anc[L1Proof(j)] \/ L1Proof(j) \in Anc[L1Proof(i)]) =>
      Height(i) < Height(j)

\* Every step keeps that order.
LEMMA NextOrdered ==
  ASSUME IInv, IInv', Ordered, [Next]_vars
  PROVE  Ordered'
<1>1. CASE batches' = batches
  BY Zenon, <1>1 DEF Ordered, SeqNos, Height, L1Proof
<1>2. CASE batches' # batches
  <2>0. Next
    BY Zenon, <1>2 DEF vars, dbVars
  <2>1. /\ TypeOK /\ TypeOK' /\ Linked' /\ Layered' /\ Chained' /\ Flags' /\ Heads'
    BY Zenon DEF IInv
  <2>2. /\ pc' = "execute" /\ currentL1Head' = currentL1Head
    BY <1>2, <2>0, NewBatch, Zenon
  <2>3. PICK b : batches' = Append(batches, b) /\ b.l1Proof = currentL1Head
    BY <1>2, <2>0, NewBatch, Zenon
  <2>4. PICK n \in Nat : n = Len(batches)
    BY <2>1 DEF TypeOK
  <2>5. /\ Len(batches') = n + 1 /\ DOMAIN batches = 1 .. n /\ DOMAIN batches' = 1 .. n + 1
        /\ \A i \in 1 .. n : batches'[i] = batches[i]
        /\ batches'[n + 1] = b
    BY <2>1, <2>3, <2>4 DEF TypeOK
  <2>6. SeqNos = 1 .. n /\ SeqNos' = 1 .. n + 1
    BY Zenon, <2>5 DEF SeqNos
  <2>7. ASSUME NEW i \in 1 .. n,
               batches'[i].l1Proof \in Anc[b.l1Proof] \/ b.l1Proof \in Anc[batches'[i].l1Proof]
        PROVE  batches'[i].height < b.height
    <3>1. /\ n + 1 \in canonicalBatches'
          /\ \A j \in canonicalBatches' : batches'[j].height <= b.height
      BY <2>1, <2>2, <2>5, Zenon DEF Heads, Tip, Height
    <3>2. b.l1Proof \in Anc[currentL1Head'] /\ currentL1Head' \in Block
      BY <2>1, <2>2, <2>3, <2>5, <3>1, Zenon DEF Flags, Branch, L1Proof, TypeOK
    <3>3. batches'[i].l1Proof \in Anc[currentL1Head']
      <4>1. CASE batches'[i].l1Proof \in Anc[b.l1Proof]
        BY Zenon, <2>2, <2>3, <4>1
      <4>2. CASE b.l1Proof \in Anc[batches'[i].l1Proof]
        <5>1. batches'[i].l1Proof \in blocks'
          BY <2>1, <2>6 DEF Chained, L1Proof
        <5> QED
          BY ZenonT(30), <2>1, <2>2, <2>3, <3>2, <4>2, <5>1 DEF Linked
      <4> QED
        BY Zenon, <2>7, <4>1, <4>2
    <3>4. i \in canonicalBatches'
      BY <2>1, <2>6, <3>2, <3>3, HeadersAssumption DEF Flags, Branch, L1Proof
    <3>5. batches'[i].height <= b.height
      BY Zenon, <3>1, <3>4
    <3>6. batches'[i].height # b.height
      <4>1. i # n + 1 /\ i \in SeqNos' /\ n + 1 \in SeqNos'
        BY <2>6
      <4>2. batches'[i].height = batches'[n + 1].height => batches'[i].l1Proof \notin Anc[batches'[n + 1].l1Proof]
        BY <2>1, <4>1, Zenon DEF Layered, Height, L1Proof
      <4> QED
        BY <2>2, <2>3, <2>5, <3>3, <4>2, Zenon
    <3>7. batches'[i].height \in Nat /\ b.height \in Nat
      <4>1. batches'[i] \in Batch /\ batches'[n + 1] \in Batch
        BY <2>1, <2>5 DEF TypeOK
      <4> QED
        BY <2>5, <4>1, Zenon DEF Batch
    <3> QED
      BY <3>5, <3>6, <3>7
  <2>8. ASSUME NEW i \in SeqNos', NEW j \in SeqNos', i < j,
               batches'[i].l1Proof \in Anc[batches'[j].l1Proof] \/ batches'[j].l1Proof \in Anc[batches'[i].l1Proof]
        PROVE  batches'[i].height < batches'[j].height
    <3>1. i \in 1 .. n
      BY <2>6, <2>8
    <3>2. CASE j \in 1 .. n
      <4>1. batches'[i] = batches[i] /\ batches'[j] = batches[j]
        BY <2>5, <3>1, <3>2, Zenon
      <4> QED
        BY <2>6, <2>8, <3>1, <3>2, <4>1, Zenon DEF Ordered, Height, L1Proof
    <3>3. CASE j = n + 1
      BY <2>5, <2>7, <2>8, <3>1, <3>3, Zenon
    <3> QED
      BY <2>6, <3>2, <3>3
  <2> QED
    BY Zenon, <2>8 DEF Ordered, Height, L1Proof
<1> QED
  BY Zenon, <1>1, <1>2

\* The canonical batches are numbered in the order of their heights, so the
\* parent of one is the canonical batch numbered before it.
LEMMA CanonicalParent ==
  ASSUME IInv, Ordered, NEW i \in canonicalBatches, i # 1
  PROVE  /\ batches[i].parent \in canonicalBatches
         /\ Height(i) = Height(batches[i].parent) + 1
         /\ batches[i].parent < i
         /\ \A j \in canonicalBatches : j < i => j <= batches[i].parent
<1>1. TypeOK /\ Chained /\ Flags
  BY Zenon DEF IInv
<1>2. /\ Len(batches) \in Nat /\ SeqNos = 1 .. Len(batches) /\ canonicalBatches \subseteq SeqNos
      /\ \A j \in SeqNos : Height(j) \in Nat /\ L1Proof(j) \in Block
  BY <1>1, BatchFacts, Zenon DEF TypeOK
<1>3. /\ currentL1Head \in Block
      /\ canonicalBatches = {j \in SeqNos : L1Proof(j) \in Anc[currentL1Head]}
  BY Zenon, <1>1 DEF Flags, Branch, TypeOK
<1> DEFINE p == batches[i].parent
<1>4. p \in SeqNos /\ Height(i) = Height(p) + 1 /\ L1Proof(p) \in Anc[L1Proof(i)]
  BY Zenon, <1>1, <1>2 DEF Chained
<1>5. p \in canonicalBatches
  BY <1>2, <1>3, <1>4, AncTransitive, Zenon
<1>6. ASSUME NEW j \in canonicalBatches, NEW k \in canonicalBatches, j < k
      PROVE  Height(j) < Height(k)
  <2>1. L1Proof(j) \in Anc[L1Proof(k)] \/ L1Proof(k) \in Anc[L1Proof(j)]
    BY Zenon, <1>3, AncComparable
  <2> QED
    BY <1>2, <1>6, <2>1, Zenon DEF Ordered
<1>7. p < i
  <2>1. i < p => Height(i) < Height(p)
    BY Zenon, <1>5, <1>6
  <2>2. i # p
    BY <1>2, <1>4
  <2> QED
    BY <1>2, <1>4, <2>1, <2>2
<1>8. ASSUME NEW j \in canonicalBatches, j < i PROVE j <= p
  <2>1. Height(j) < Height(i)
    BY Zenon, <1>6, <1>8
  <2>2. p < j => Height(p) < Height(j)
    BY Zenon, <1>5, <1>6
  <2> QED
    BY <1>2, <1>4, <2>1, <2>2
<1> QED
  BY <1>4, <1>5, <1>7, <1>8, Zenon

\* The subtraction of CreateRollup: when it wraps around, the result is negative
\* as an int64 and no block has that number.
LEMMA Compressed ==
  ASSUME IInv, NEW from \in SeqNos, NEW last \in BatchesAfter(from), NEW c \in CompressionL1Heads
  PROVE  /\ currentL1Head \in Block /\ c \in Anc[currentL1Head]
         /\ from .. last \subseteq SeqNos
         /\ from \in from .. last
         /\ Number[c] + RollupDelay = Number[currentL1Head]
         /\ \A i \in from .. last : Number[L1Proof(i)] <= Number[c]
<1>1. TypeOK /\ Linked
  BY Zenon DEF IInv
<1>2. c \in canonicalBlocks /\ Number[c] = Int64(UpToL1Height)
  BY Zenon DEF CompressionL1Heads
<1>3. currentL1Head \in Block /\ c \in Anc[currentL1Head] /\ c \in Block
  BY <1>1, <1>2, Zenon DEF Linked, Branch, TypeOK
<1>4. /\ Number[c] \in Nat /\ Number[currentL1Head] \in Nat /\ Number[currentL1Head] < Half
      /\ Half \in Nat /\ RollupDelay \in 0 .. Half - 1
  BY <1>3, HeadersAssumption, RollupAssumption, Zenon
<1> DEFINE d == Number[currentL1Head] - RollupDelay
<1>5. UpToL1Height = Number[c] /\ Number[c] + RollupDelay = Number[currentL1Head]
  <2>1. d \in Int /\ d < Half /\ 0 - Half < d
    BY <1>4
  <2>2. CASE d >= 0
    <3>1. d % (2 * Half) = d
      BY <1>4, <2>1, <2>2
    <3> QED
      BY <1>2, <1>4, <2>1, <2>2, <3>1 DEF UpToL1Height, Int64
  <2>3. CASE d < 0
    <3>1. d % (2 * Half) = d + 2 * Half
      BY <1>4, <2>1, <2>3
    <3>2. Int64(UpToL1Height) = d
      BY <1>4, <2>1, <2>3, <3>1 DEF UpToL1Height, Int64
    <3> QED
      BY <1>2, <1>4, <2>3, <3>2
  <2> QED
    BY <2>1, <2>2, <2>3
<1>6. last \in from .. headBatchSeq /\ \A i \in from .. last : Number[L1Proof(i)] <= UpToL1Height
  BY Zenon DEF BatchesAfter
<1>7. from .. last \subseteq SeqNos /\ from \in from .. last
  <2>1. Len(batches) \in Nat /\ SeqNos = 1 .. Len(batches) /\ headBatchSeq \in SeqNos \cup {0}
    BY Zenon, <1>1, BatchFacts DEF TypeOK
  <2> QED
    BY <1>6, <2>1
<1> QED
  BY <1>3, <1>5, <1>6, <1>7, Zenon

\* A rollup is made of a range of batches on a canonical block.
LEMMA RollupOf ==
  ASSUME NEW r \in Rollups
  PROVE  \E from \in SeqNos : \E last \in BatchesAfter(from), c \in CompressionL1Heads :
           r = CreateExtRollup(from, last, c)
BY DEF Rollups, CreateRollup

\* In such a state no rollup reaches into the delay.
LEMMA IInvDelayKept == IInv => DelayKept
<1> SUFFICES ASSUME IInv, NEW r \in Rollups
             PROVE  /\ Number[r.compressionL1Head] + RollupDelay = Number[currentL1Head]
                    /\ \A i \in DOMAIN r.txs : Number[L1Proof(i)] + RollupDelay <= Number[currentL1Head]
  BY Zenon DEF DelayKept
<1>1. PICK from, last, c :
        /\ from \in SeqNos /\ last \in BatchesAfter(from) /\ c \in CompressionL1Heads
        /\ r = CreateExtRollup(from, last, c)
  BY RollupOf
<1>2. r.compressionL1Head = c /\ DOMAIN r.txs = from .. last
  BY Zenon, <1>1 DEF CreateExtRollup
<1>3. /\ currentL1Head \in Block /\ c \in Anc[currentL1Head] /\ from .. last \subseteq SeqNos
      /\ Number[c] + RollupDelay = Number[currentL1Head]
      /\ \A i \in from .. last : Number[L1Proof(i)] <= Number[c]
  BY Zenon, <1>1, Compressed
<1>4. \A i \in from .. last : L1Proof(i) \in Block
  BY <1>3, BatchFacts, Zenon DEF IInv
<1>5. c \in Block
  BY Zenon, <1>3, AncFacts
<1>6. /\ Number[c] \in Nat /\ Number[currentL1Head] \in Nat /\ RollupDelay \in Nat
      /\ \A i \in from .. last : Number[L1Proof(i)] \in Nat
  BY <1>3, <1>4, <1>5, HeadersAssumption, RollupAssumption
<1> QED
  BY <1>2, <1>3, <1>6

\* calculateL1HeightsFromDeltas undoes the differences.
LEMMA HeightsFromDeltas ==
  ASSUME TypeOK, NEW from \in Nat, NEW last \in Nat, from .. last \subseteq SeqNos, NEW c,
         NEW r, r = CreateExtRollup(from, last, c)
  PROVE  \A i \in from .. last : L1Heights(r)[i] = Number[L1Proof(i)]
<1> DEFINE N == [i \in from .. last |-> Number[L1Proof(i)]]
           H == L1Heights(r)
<1>1. /\ DOMAIN r.txs = from .. last /\ r.first = from
      /\ \A i \in from .. last :
           r.l1HeightDeltas[i] = Number[L1Proof(i)] - (IF i = from THEN 0 ELSE Number[L1Proof(i - 1)])
  BY Zenon DEF CreateExtRollup
<1>2. \A i \in from .. last : Number[L1Proof(i)] \in Nat
  BY Zenon, BatchFacts, HeadersAssumption
<1>3. \A i \in from .. last : i # from => i - 1 \in from .. last
  OBVIOUS
<1>4. N = [i \in DOMAIN r.txs |-> r.l1HeightDeltas[i] + (IF i = r.first THEN 0 ELSE N[i - 1])]
  <2>1. ASSUME NEW i \in from .. last
        PROVE  N[i] = r.l1HeightDeltas[i] + (IF i = r.first THEN 0 ELSE N[i - 1])
    <3>1. CASE i = from
      BY <1>1, <1>2, <3>1
    <3>2. CASE i # from
      <4>1. i - 1 \in from .. last /\ N[i - 1] = Number[L1Proof(i - 1)]
        BY Zenon, <1>3, <3>2
      <4>2. Number[L1Proof(i - 1)] \in Nat /\ Number[L1Proof(i)] \in Nat
        BY Zenon, <1>2, <4>1
      <4>3. r.l1HeightDeltas[i] = Number[L1Proof(i)] - Number[L1Proof(i - 1)]
        BY Zenon, <1>1, <3>2
      <4> QED
        BY <1>1, <3>2, <4>1, <4>2, <4>3
    <3> QED
      BY Zenon, <3>1, <3>2
  <2> QED
    BY <1>1, <2>1
<1>5. H = [i \in DOMAIN r.txs |-> r.l1HeightDeltas[i] + (IF i = r.first THEN 0 ELSE H[i - 1])]
  BY <1>4, Zenon DEF L1Heights
<1> HIDE DEF H
<1> DEFINE Wrong == {i \in from .. last : H[i] # Number[L1Proof(i)]}
<1>6. ASSUME Wrong # {} PROVE FALSE
  <2>1. PICK i \in Wrong : \A t \in Wrong : i <= t
    <3>1. Wrong \in SUBSET Nat
      OBVIOUS
    <3> HIDE DEF Wrong
    <3> QED
      BY Zenon, <1>6, <3>1, LeastNumber
  <2>2. i \in from .. last /\ H[i] # Number[L1Proof(i)]
    BY <2>1, Zenon
  <2>3. H[i] = r.l1HeightDeltas[i] + (IF i = from THEN 0 ELSE H[i - 1])
    <3>1. i \in DOMAIN r.txs /\ r.first = from
      BY <1>1, <2>2, Zenon
    <3> QED
      BY <1>5, <3>1, Zenon
  <2>4. CASE i = from
    BY <1>1, <1>2, <2>2, <2>3, <2>4
  <2>5. CASE i # from
    <3>1. i - 1 \in from .. last /\ i - 1 \notin Wrong
      BY <1>3, <2>1, <2>2, <2>5
    <3>2. H[i - 1] = Number[L1Proof(i - 1)]
      BY Zenon, <3>1
    <3>3. Number[L1Proof(i - 1)] \in Nat /\ Number[L1Proof(i)] \in Nat
      BY <1>2, <2>2, <3>1, Zenon
    <3>4. r.l1HeightDeltas[i] = Number[L1Proof(i)] - Number[L1Proof(i - 1)]
      BY <1>1, <2>2, <2>5, Zenon
    <3> QED
      BY <2>2, <2>3, <2>5, <3>2, <3>3, <3>4
  <2> QED
    BY Zenon, <2>4, <2>5
<1> QED
  BY <1>6, Zenon DEF H

\* The headers a rollup has are those of the batches that are not canonical.
LEMMA HeadersLeftOut ==
  ASSUME TypeOK, NEW from, NEW last, from .. last \subseteq SeqNos, NEW c,
         NEW r, r = CreateExtRollup(from, last, c), NEW i \in from .. last
  PROVE  /\ i \in canonicalBatches => r.reorgs[i] = NoHeader
         /\ i \notin canonicalBatches => r.reorgs[i] = batches[i] /\ r.reorgs[i] # NoHeader
<1>1. r.reorgs[i] = IF i \in canonicalBatches THEN NoHeader ELSE batches[i]
  BY Zenon DEF CreateExtRollup, Reorgs
<1>2. batches[i].height \in Nat
  BY Zenon, BatchFacts DEF Height
<1>3. batches[i] # NoHeader
  <2>1. NoHeader.height \notin Nat
    BY DEF NoHeader
  <2> QED
    BY Zenon, <1>2, <2>1
<1> QED
  BY Zenon, <1>1, <1>3

\* The reader finds the parent of a batch without a header.
LEMMA ParentFound ==
  ASSUME IInv, Ordered, NEW from \in Nat, NEW last \in Nat, from .. last \subseteq SeqNos, NEW c,
         NEW r, r = CreateExtRollup(from, last, c),
         NEW i \in from .. last, i \in canonicalBatches, i # 1
  PROVE  ParentHash(r, i) = batches[i].parent
<1> DEFINE p == batches[i].parent
           before == {j \in DOMAIN r.txs : j < i /\ r.reorgs[j] = NoHeader}
           canon == (from .. last) \ Reorgs(from, last)
<1>0. TypeOK
  BY Zenon DEF IInv
<1>1. DOMAIN r.txs = from .. last /\ r.firstCanonParent = FirstCanonParent(from, last)
  BY Zenon DEF CreateExtRollup
<1>2. before = {j \in from .. last : j < i /\ j \in canonicalBatches}
  BY <1>0, <1>1, HeadersLeftOut
<1>3. p \in canonicalBatches /\ p < i /\ \A j \in canonicalBatches : j < i => j <= p
  BY Zenon, CanonicalParent
<1>4. p \in Nat
  BY Zenon, <1>0, BatchFacts
<1>5. CASE before = {}
  <2>1. canon = {j \in from .. last : j \in canonicalBatches}
    BY Zenon DEF Reorgs
  <2>2. i \in canon /\ \A j \in canon : i <= j
    BY <1>2, <1>5, <2>1
  <2>3. i = CHOOSE k \in canon : \A j \in canon : k <= j
    <3>1. \A k \in canon : (\A j \in canon : k <= j) => k = i
      BY <2>2
    <3> QED
      BY Zenon, <2>2, <3>1
  <2>4. FirstCanonParent(from, last) = p
    BY <2>2, <2>3, Zenon DEF FirstCanonParent
  <2> QED
    BY <1>1, <1>5, <2>4, Zenon DEF ParentHash
<1>6. CASE before # {}
  <2>1. PICK j \in before : TRUE
    BY Zenon, <1>6
  <2>2. p \in from .. last
    BY <1>2, <1>3, <1>4, <2>1
  <2>3. p \in before /\ \A k \in before : k <= p
    BY <1>2, <1>3, <2>2, Zenon
  <2>4. p = CHOOSE k \in before : \A j2 \in before : j2 <= k
    <3>1. \A k \in before : (\A j2 \in before : j2 <= k) => k = p
      BY <1>2, <2>3
    <3> QED
      BY Zenon, <2>3, <3>1
  <2> QED
    BY Zenon, <1>6, <2>4 DEF ParentHash
<1> QED
  BY Zenon, <1>5, <1>6

\* The reader finds the L1 block of a canonical batch: it is the one of its
\* number below the block the rollup was compressed on.
LEMMA L1BlockFound ==
  ASSUME IInv, NEW from \in SeqNos, NEW last \in BatchesAfter(from), NEW c \in CompressionL1Heads,
         NEW r, r = CreateExtRollup(from, last, c),
         NEW i \in from .. last, i \in canonicalBatches
  PROVE  L1BlocksAtHeight(r, Number[L1Proof(i)]) = {L1Proof(i)}
<1> DEFINE b == L1Proof(i)
<1>1. TypeOK /\ Flags
  BY Zenon DEF IInv
<1>2. /\ currentL1Head \in Block /\ c \in Anc[currentL1Head] /\ from .. last \subseteq SeqNos
      /\ Number[b] <= Number[c]
  BY Zenon, Compressed
<1>3. b \in Anc[currentL1Head]
  BY <1>1, <1>2, HeadersAssumption, Zenon DEF Flags, Branch
<1>4. b \in Anc[c] /\ c \in Block /\ b \in Block
  BY <1>2, <1>3, AncFacts, Zenon
<1>5. ASSUME NEW a \in Anc[c], Number[a] = Number[b] PROVE a = b
  <2>1. a \in Block /\ Number[a] \in Nat
    BY <1>4, AncFacts, HeadersAssumption, Zenon
  <2>2. a \in Anc[b] /\ b \in Anc[a]
    BY <1>4, <1>5, <2>1, AncFacts
  <2> QED
    BY <1>4, <2>1, <2>2, AncAntisymmetric, Zenon
<1>6. r.compressionL1Head = c
  BY Zenon DEF CreateExtRollup
<1> QED
  BY <1>4, <1>5, <1>6, Zenon DEF L1BlocksAtHeight

\* A rollup gives its readers back the sequencer's batches.
LEMMA IInvRoundTrip == IInv /\ Ordered => RoundTrip
<1> SUFFICES ASSUME IInv, Ordered, NEW r \in Rollups
             PROVE  /\ \A i \in DOMAIN r.txs :
                         r.reorgs[i] = NoHeader => L1BlocksAtHeight(r, L1Heights(r)[i]) # {}
                    /\ ProcessExtRollup(r) = [i \in DOMAIN r.txs |-> batches[i]]
  BY Zenon DEF RoundTrip
<1>1. PICK from, last, c :
        /\ from \in SeqNos /\ last \in BatchesAfter(from) /\ c \in CompressionL1Heads
        /\ r = CreateExtRollup(from, last, c)
  BY RollupOf
<1>2. TypeOK /\ Chained /\ Flags /\ TransactionsReadable
  BY Zenon DEF IInv
<1>3. from .. last \subseteq SeqNos /\ from \in Nat /\ last \in Nat /\ canonicalBatches \subseteq SeqNos
  <2>1. from .. last \subseteq SeqNos
    BY Zenon, <1>1, Compressed
  <2>2. last \in from .. headBatchSeq /\ headBatchSeq \in Nat /\ from \in Nat
    BY <1>1, <1>2, BatchFacts DEF BatchesAfter, TypeOK
  <2> QED
    BY <1>2, <2>1, <2>2 DEF TypeOK
<1>4. DOMAIN r.txs = from .. last /\ \A i \in from .. last : r.txs[i] = batches[i].txs
  BY <1>1, <1>2, <1>3, Zenon DEF CreateExtRollup, TransactionsReadable
<1>5. \A i \in from .. last : L1Heights(r)[i] = Number[L1Proof(i)]
  <2>1. r = CreateExtRollup(from, last, c)
    BY <1>1, Zenon
  <2>2. TypeOK
    BY <1>2, Zenon
  <2>3. from \in Nat /\ last \in Nat /\ from .. last \subseteq SeqNos
    BY <1>3, Zenon
  <2> HIDE <1>1, <1>2, <1>3
  <2> QED
    BY <2>1, <2>2, <2>3, HeightsFromDeltas
<1>6. \A i \in from .. last : i \in canonicalBatches =>
        /\ r.reorgs[i] = NoHeader
        /\ L1BlocksAtHeight(r, L1Heights(r)[i]) = {L1Proof(i)}
  <2> TAKE i \in from .. last
  <2> HAVE i \in canonicalBatches
  <2>1. r.reorgs[i] = NoHeader
    BY <1>1, <1>2, <1>3, HeadersLeftOut
  <2>2. L1BlocksAtHeight(r, Number[L1Proof(i)]) = {L1Proof(i)}
    BY <1>1, L1BlockFound
  <2> QED
    BY <1>5, <2>1, <2>2, Zenon
<1>7. \A i \in from .. last : i \notin canonicalBatches => r.reorgs[i] = batches[i] /\ r.reorgs[i] # NoHeader
  BY <1>1, <1>2, <1>3, HeadersLeftOut
<1>8. \A i \in from .. last : i \in canonicalBatches /\ i # 1 =>
        /\ ParentHash(r, i) = batches[i].parent /\ batches[i].parent < i
        /\ batches[i].parent \in SeqNos
        /\ Height(i) = Height(batches[i].parent) + 1
  <2> SUFFICES ASSUME NEW i \in from .. last, i \in canonicalBatches, i # 1
               PROVE  /\ ParentHash(r, i) = batches[i].parent /\ batches[i].parent < i
                      /\ batches[i].parent \in SeqNos
                      /\ Height(i) = Height(batches[i].parent) + 1
    BY Zenon
  <2>1. ParentHash(r, i) = batches[i].parent
    BY <1>1, <1>3, ParentFound
  <2>2. /\ batches[i].parent < i /\ batches[i].parent \in SeqNos
        /\ Height(i) = Height(batches[i].parent) + 1
    BY <1>3, CanonicalParent, Zenon
  <2> QED
    BY <2>1, <2>2, Zenon
<1> DEFINE Computed(f, i) ==
             IF r.reorgs[i] # NoHeader THEN r.reorgs[i] ELSE ComputeBatch(r, f, i)
           B == [i \in DOMAIN r.txs |-> batches[i]]
           P == ProcessExtRollup(r)
<1>9. ASSUME NEW f, NEW i \in from .. last,
             \A j \in from .. last : j < i => f[j] = batches[j]
      PROVE  Computed(f, i) = batches[i]
  <2>1. CASE i \notin canonicalBatches
    BY Zenon, <1>7, <2>1
  <2>2. CASE i \in canonicalBatches
    <3> DEFINE p == ParentHash(r, i)
               h == CASE i = L2GenesisSeqNo -> L2GenesisHeight
                      [] i # L2GenesisSeqNo /\ p \in DOMAIN r.txs -> f[p].height + 1
                      [] OTHER -> Height(p) + 1
               q == IF i = L2GenesisSeqNo THEN 0 ELSE p
    <3>1. (CHOOSE b \in L1BlocksAtHeight(r, L1Heights(r)[i]) : TRUE) = batches[i].l1Proof
      BY Zenon, <1>6, <2>2 DEF L1Proof
    <3>2. h = batches[i].height /\ q = batches[i].parent
      <4>1. CASE i = 1
        BY <1>2, <1>3, <2>2, <4>1, Zenon DEF Chained, Height, L2GenesisSeqNo, L2GenesisHeight
      <4>2. CASE i # 1
        <5>1. p = batches[i].parent /\ p < i /\ Height(i) = Height(p) + 1
          BY <1>8, <2>2, <4>2, Zenon
        <5>2. q = batches[i].parent
          BY <4>2, <5>1, Zenon DEF L2GenesisSeqNo
        <5>3. CASE p \in from .. last
          <6>1. f[p].height = Height(p)
            BY <1>9, <5>1, <5>3, Zenon DEF Height
          <6>2. h = f[p].height + 1
            BY <1>4, <4>2, <5>3, Zenon DEF L2GenesisSeqNo
          <6> QED
            BY <5>1, <5>2, <6>1, <6>2, Zenon DEF Height
        <5>4. CASE p \notin from .. last
          <6>1. h = Height(p) + 1
            BY <1>4, <4>2, <5>4, Zenon DEF L2GenesisSeqNo
          <6> QED
            BY <5>1, <5>2, <6>1, Zenon DEF Height
        <5> QED
          BY <5>3, <5>4, Zenon
      <4> QED
        BY Zenon, <4>1, <4>2
    <3>3. r.reorgs[i] = NoHeader /\ r.txs[i] = batches[i].txs
      BY <1>4, <1>6, <2>2, Zenon
    <3>4. Computed(f, i) = [height |-> batches[i].height, parent |-> batches[i].parent,
                            l1Proof |-> batches[i].l1Proof, txs |-> batches[i].txs]
      BY Zenon, <3>1, <3>2, <3>3 DEF ComputeBatch
    <3>5. batches[i] \in Batch
      BY <1>2, <1>3 DEF TypeOK, SeqNos
    <3> QED
      BY Zenon, <3>4, <3>5 DEF Batch
  <2> QED
    BY <2>1, <2>2, Zenon
<1>10. B = [i \in DOMAIN r.txs |-> Computed(B, i)]
  <2>1. \A i \in from .. last : Computed(B, i) = batches[i]
    <3> HIDE DEF Computed
    <3> QED
      BY Zenon, <1>4, <1>9
  <2> HIDE DEF Computed
  <2> QED
    BY <1>4, <2>1, Zenon
<1>11. P = [i \in DOMAIN r.txs |-> Computed(P, i)]
  BY <1>10, Zenon DEF ProcessExtRollup
<1> HIDE DEF P, Computed
<1> DEFINE Wrong == {i \in from .. last : P[i] # batches[i]}
<1>12. Wrong = {}
  <2> SUFFICES ASSUME Wrong # {} PROVE FALSE
    OBVIOUS
  <2>1. PICK i \in Wrong : \A t \in Wrong : i <= t
    <3>1. \A x \in from .. last : x \in Nat
      BY <1>3
    <3>2. Wrong \in SUBSET Nat
      BY <3>1, Zenon
    <3> HIDE DEF Wrong
    <3> QED
      BY Zenon, <3>2, LeastNumber
  <2>2. \A j \in from .. last : j < i => P[j] = batches[j]
    BY <1>3, <2>1
  <2>3. P[i] = Computed(P, i)
    BY Zenon, <1>4, <1>11, <2>1
  <2> QED
    BY <1>9, <2>1, <2>2, <2>3, Zenon
<1>13. P = [i \in DOMAIN r.txs |-> batches[i]]
  <2>1. P = [i \in from .. last |-> P[i]]
    BY <1>4, <1>11, Zenon
  <2> QED
    BY <1>4, <1>12, <2>1, Zenon
<1> QED
  BY Zenon, <1>4, <1>6, <1>7, <1>13 DEF P

\* A rollup never has a batch of the last RollupDelay L1 blocks, for any tree of
\* blocks and also where the subtraction of CreateRollup wraps around.
THEOREM RollupDelayed == Spec => []DelayKept
BY Inductive, IInvDelayKept, PTL

\* Whatever L1 reorgs came before it, a rollup gives its readers back exactly the
\* sequencer's batches.
THEOREM RollupReadable == Spec => []RoundTrip
<1>1. Init => Ordered
  BY DEF Init, Ordered, SeqNos
<1>2. IInv /\ IInv' /\ Ordered /\ [Next]_vars => Ordered'
  BY NextOrdered, Zenon
<1> QED
  BY <1>1, <1>2, Inductive, IInvRoundTrip, PTL DEF Spec
=============================================================================
