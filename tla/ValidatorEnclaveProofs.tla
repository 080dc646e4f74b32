----------------------- MODULE ValidatorEnclaveProofs -----------------------
(***************************************************************************)
(* The inductive invariant of a validator's enclave and what follows from  *)
(* it for every L1 tree and every number of batches: the flags follow the  *)
(* L1, batches are executed in order, a call returns with every canonical  *)
(* batch executed, and the executed heights implement the ledger.          *)
(***************************************************************************)
EXTENDS ValidatorEnclave, TLAPS, FiniteSetTheorems, WellFoundedInduction

\* the branch of the L1 head
Branch == IF currentL1Head = NoBlock THEN {} ELSE Anc[currentL1Head]

\* The stored blocks reach down to the start block, is_canonical marks the
\* branch of the head.
Rooted ==
  /\ currentL1Head # NoBlock => currentL1Head \in blocks
  /\ \A b \in blocks : Anc[b] \subseteq blocks
  /\ canonicalBlocks = Branch

\* No height is left out below a batch on its branch, and the batches there
\* have lower numbers.
Filled(S) ==
  \A i \in S : \A h \in 0 .. Height(i) :
    \E j \in S : Height(j) = h /\ L1Proof(j) \in Anc[L1Proof(i)] /\ j <= i

\* Only the genesis batch has its height.
GenesisAlone == \A i \in SeqNos : Height(i) = L2GenesisHeight => i = L2GenesisSeqNo

\* Table tx has the transactions of every batch.
TransactionsStored ==
  \A i \in SeqNos : Height(i) \in DOMAIN txTable /\ txTable[Height(i)] = batches[i].txs

\* The genesis batch is executed first, on a block the L1 keeps.
GenesisExecuted == executed # {} => L2GenesisSeqNo \in executed \cap canonicalBatches

\* The cached head batch was executed; it is canonical unless a fork is handled
\* and the registry has not heard of it.
HeadExecuted ==
  IF executed = {} THEN headBatchSeq = 0
                   ELSE headBatchSeq \in executed /\ (forked \/ headBatchSeq \in canonicalBatches)

\* The loop over the batches of a rollup.
RollupLoop ==
  /\ forked => pc \in {"rollup", "rollupExecuted"}
  /\ rollup # {} => compressionL1Head \in Branch
  /\ pc = "rollupExecuted" =>
       \A seq \in rollup : (\A i \in rollup : seq <= i) =>
         /\ seq \in canonicalBatches
         /\ seq = L2GenesisSeqNo \/ batches[seq].parent \in executed

\* The loop over the stored batches has all that are left to execute.
ExecuteLoop == pc = "execute" => toExecute = canonicalBatches \ executed

\* What holds of tables batch and tx on any branch, canonical or not.
Tables ==
  /\ SequencerHistory(batches)
  /\ Filled(SeqNos)
  /\ Filled(executed)
  /\ GenesisAlone
  /\ TransactionsStored
  /\ ExecutedInOrder

IInv ==
  /\ TypeOK
  /\ NoCrit
  /\ Rooted
  /\ FlagsFollowL1
  /\ Tables
  /\ GenesisExecuted
  /\ HeadExecuted
  /\ RollupLoop
  /\ ExecuteLoop
  /\ CaughtUp
-----------------------------------------------------------------------------
(* The ancestors of L1 blocks, and finite sets.                              *)

\* What following ParentHash from b can reach.
LEMMA AncFacts ==
  ASSUME NEW b \in Block
  PROVE  /\ b \in Anc[b]
         /\ Anc[b] \subseteq Block
         /\ \A a \in Anc[b] : Anc[a] \subseteq Anc[b] /\ (a # b => Number[a] < Number[b])
         /\ \A a, c \in Anc[b] : Number[a] <= Number[c] => a \in Anc[c]
         /\ Parent[b] \in Block => /\ Parent[b] \in Anc[b]
                                   /\ Anc[b] \ Anc[Parent[b]] = {b}
                                   /\ Number[b] = Number[Parent[b]] + 1
         /\ Number[b] \in Nat
<1>1. b \in Anc[b] /\ Anc[b] \subseteq Block /\ Number[b] \in Nat
  BY HeadersAssumption, AncestorsAssumption
<1>2. \A a \in Anc[b] : Anc[a] \subseteq Anc[b] /\ (a # b => Number[a] < Number[b])
  BY AncestorsAssumption
<1>3. \A a, c \in Anc[b] : Number[a] <= Number[c] => a \in Anc[c]
  BY Zenon, AncestorsAssumption
<1>4. ASSUME Parent[b] \in Block
      PROVE  /\ Parent[b] \in Anc[b]
             /\ Anc[b] \ Anc[Parent[b]] = {b}
             /\ Number[b] = Number[Parent[b]] + 1
  <2>1. Number[b] = Number[Parent[b]] + 1 /\ Number[Parent[b]] \in Nat
    BY Zenon, <1>4, HeadersAssumption
  <2>2. Anc[b] = {b} \cup Anc[Parent[b]]
    BY <1>4, AncestorsAssumption
  <2>3. Parent[b] \in Anc[Parent[b]]
    BY <1>4, AncestorsAssumption
  <2>4. b \notin Anc[Parent[b]]
    <3>1. \A a \in Anc[Parent[b]] : a # Parent[b] => Number[a] < Number[Parent[b]]
      BY <1>4, AncestorsAssumption
    <3> QED
      BY <2>1, <3>1
  <2> QED
    BY Zenon, <2>1, <2>2, <2>3, <2>4
<1> QED
  BY Zenon, <1>1, <1>2, <1>3, <1>4

\* Two ancestors of a block are on one path.
LEMMA AncComparable ==
  ASSUME NEW b \in Block, NEW a \in Anc[b], NEW c \in Anc[b]
  PROVE  a \in Anc[c] \/ c \in Anc[a]
<1>1. a \in Block /\ c \in Block
  BY AncFacts
<1>2. Number[a] \in Nat /\ Number[c] \in Nat
  BY <1>1, AncFacts
<1>3. Number[a] <= Number[c] \/ Number[c] <= Number[a]
  BY <1>2
<1> QED
  BY Zenon, <1>3, AncFacts

\* An ancestor's ancestors are ancestors.
LEMMA AncTransitive ==
  ASSUME NEW b \in Block, NEW a \in Anc[b], NEW c \in Anc[a]
  PROVE  c \in Anc[b]
  BY AncFacts

\* A finite set has an element with the highest value of f.
LEMMA HighestExists ==
  ASSUME NEW S, IsFiniteSet(S), S # {}, NEW f \in [S -> Nat]
  PROVE  \E m \in S : \A t \in S : f[t] <= f[m]
<1> DEFINE Above(m) == {t \in S : f[t] > f[m]}
           F == {Above(m) : m \in S}
<1>1. \A m \in S : Above(m) \in FiniteSubsetsOf(S)
  BY FS_Subset DEF FiniteSubsetsOf
<1>2. F \subseteq FiniteSubsetsOf(S) /\ F # {}
  <2> HIDE DEF Above
  <2>1. PICK m \in S : TRUE
    OBVIOUS
  <2>2. Above(m) \in F
    OBVIOUS
  <2> QED
    BY <1>1, <2>2
<1>3. PICK X \in F : \A Y \in F : ~(<<Y, X>> \in StrictSubsetOrdering(S))
  <2> HIDE DEF F
  <2> QED BY Zenon, <1>2, FS_StrictSubsetOrderingWellFounded, WFMin
<1>4. PICK m \in S : X = Above(m)
  BY <1>3
<1>5. ASSUME NEW t \in S, f[t] > f[m] PROVE FALSE
  <2>1. Above(t) \subseteq Above(m) /\ Above(t) # Above(m)
    BY <1>5
  <2>2. <<Above(t), X>> \in StrictSubsetOrdering(S)
    BY Zenon, <2>1, <1>4 DEF StrictSubsetOrdering
  <2> QED
    BY Zenon, <1>3, <2>2
<1> QED
  BY <1>5
-----------------------------------------------------------------------------
(* What the stored batches look like.                                        *)

\* The rows of table batch.
LEMMA BatchFacts ==
  ASSUME TypeOK
  PROVE  /\ SeqNos \subseteq Nat
         /\ executed \subseteq SeqNos /\ canonicalBatches \subseteq SeqNos
         /\ \A i \in SeqNos : /\ Height(i) \in Nat
                              /\ L1Proof(i) \in Block
                              /\ batches[i].txs \in Txs \cup {NoTxs, SystemTxs}
<1>1. MaxSeqNo \in Nat
  BY ValidatorAssumption
<1>2. \A i \in SeqNos : batches[i] \in Batch
  BY DEF TypeOK
<1>3. \A i \in SeqNos : Height(i) \in Nat /\ L1Proof(i) \in Block /\ batches[i].txs \in Txs \cup {NoTxs, SystemTxs}
  BY Zenon, <1>2 DEF Height, L1Proof, Batch
<1> QED
  BY <1>1, <1>3 DEF TypeOK

\* Along a branch there is one batch per height.
LEMMA OnePerHeight ==
  ASSUME TypeOK, SequencerHistory(batches), NEW b \in Block, NEW i \in SeqNos, NEW j \in SeqNos,
         L1Proof(i) \in Anc[b], L1Proof(j) \in Anc[b], Height(i) = Height(j)
  PROVE  i = j
<1>1. L1Proof(i) \in Anc[L1Proof(j)] \/ L1Proof(j) \in Anc[L1Proof(i)]
  BY AncComparable
<1> QED
  BY <1>1 DEF SequencerHistory, SeqNos, Height, L1Proof

\* The parent of a batch is on its branch, one below, and has a lower number.
LEMMA ParentBelow ==
  ASSUME TypeOK, SequencerHistory(batches), Filled(SeqNos), NEW i \in SeqNos, i # L2GenesisSeqNo
  PROVE  LET p == batches[i].parent
         IN  /\ p \in SeqNos
             /\ Height(i) = Height(p) + 1
             /\ L1Proof(p) \in Anc[L1Proof(i)]
             /\ p < i
<1> DEFINE p == batches[i].parent
<1>1. p \in SeqNos /\ Height(i) = Height(p) + 1 /\ L1Proof(p) \in Anc[L1Proof(i)]
  BY DEF SequencerHistory, SeqNos, Height, L1Proof
<1>2. Height(p) \in Nat /\ Height(i) \in Nat /\ L1Proof(i) \in Block /\ p \in Nat /\ i \in Nat
  BY <1>1, BatchFacts
<1>3. PICK j \in SeqNos : Height(j) = Height(p) /\ L1Proof(j) \in Anc[L1Proof(i)] /\ j <= i
  BY <1>1, <1>2 DEF Filled
<1>4. j = p
  BY Zenon, <1>1, <1>2, <1>3, OnePerHeight
<1> QED
  BY <1>1, <1>2, <1>3, <1>4

\* On a branch, the batches still to be executed have higher numbers than the
\* executed ones.
LEMMA ExecutedAreLower ==
  ASSUME TypeOK, SequencerHistory(batches), Filled(SeqNos), Filled(executed), NEW b \in Block,
         NEW h \in executed, L1Proof(h) \in Anc[b],
         NEW i \in SeqNos \ executed, L1Proof(i) \in Anc[b]
  PROVE  h <= i
<1>1. h \in SeqNos /\ Height(h) \in Nat /\ Height(i) \in Nat /\ L1Proof(h) \in Block /\ L1Proof(i) \in Block
  BY BatchFacts
<1>2. CASE Height(i) <= Height(h)
  <2>1. PICK k \in executed : Height(k) = Height(i) /\ L1Proof(k) \in Anc[L1Proof(h)]
    BY <1>1, <1>2 DEF Filled
  <2>2. L1Proof(k) \in Anc[b] /\ k \in SeqNos
    BY Zenon, <2>1, AncTransitive, BatchFacts
  <2>3. k = i
    BY Zenon, <2>1, <2>2, OnePerHeight
  <2> QED
    BY Zenon, <2>1, <2>3
<1>3. CASE Height(h) <= Height(i)
  <2>1. PICK k \in SeqNos : Height(k) = Height(h) /\ L1Proof(k) \in Anc[L1Proof(i)] /\ k <= i
    BY <1>1, <1>3 DEF Filled
  <2>2. L1Proof(k) \in Anc[b]
    BY Zenon, <2>1, AncTransitive
  <2>3. k = h
    BY Zenon, <1>1, <2>1, <2>2, OnePerHeight
  <2> QED
    BY Zenon, <2>1, <2>3
<1> QED
  BY <1>1, <1>2, <1>3

\* If a canonical batch was executed, the database has a head batch.
LEMMA HeadBatchExists ==
  ASSUME TypeOK, canonicalBatches \cap executed # {}
  PROVE  HeadBatches(canonicalBatches) # {}
<1> DEFINE S == canonicalBatches \cap executed
           f == [i \in S |-> Height(i)]
<1>1. S \subseteq 1 .. MaxSeqNo /\ MaxSeqNo \in Nat
  BY ValidatorAssumption DEF TypeOK
<1>2. IsFiniteSet(S)
  <2>1. IsFiniteSet(1 .. MaxSeqNo)
    BY <1>1, FS_Interval
  <2> HIDE DEF S
  <2>2. S \in SUBSET (1 .. MaxSeqNo)
    BY Zenon, <1>1
  <2> QED
    BY Zenon, <2>1, <2>2, FS_Subset
<1>3. f \in [S -> Nat] /\ \A i \in S : f[i] = Height(i)
  BY BatchFacts
<1>4. \E m \in S : \A t \in S : f[t] <= f[m]
  <2> HIDE DEF S, f
  <2>1. S # {}
    BY Zenon DEF S
  <2> QED
    BY Zenon, <1>2, <1>3, <2>1, HighestExists
<1> QED
  BY Zenon, <1>3, <1>4 DEF HeadBatches
-----------------------------------------------------------------------------
(* Ingesting an L1 block.                                                    *)

\* A block the host submits and ingestBlock accepts is above stored blocks only,
\* and StoreBlock marks exactly its branch.
LEMMA BlockFacts ==
  ASSUME TypeOK, Rooted, NEW b \in Block, Submittable(b), Ingestible(b)
  PROVE  /\ b \notin canonicalBlocks
         /\ Anc[b] \subseteq blocks \cup {b}
         /\ (canonicalBlocks \ Orphaned(b)) \cup Adopted(b) = Anc[b]
         /\ b \in Adopted(b) /\ b \notin Orphaned(b)
         /\ ~IsFork(b) => canonicalBlocks \subseteq Anc[b]
<1> DEFINE H == currentL1Head
<1>0. b \in Anc[b] /\ NoBlock \notin Block
  BY Zenon, AncFacts, HeadersAssumption
<1>1. CASE PreGenesis
  <2>1. canonicalBlocks = {} /\ Parent[b] = NoBlock
    BY <1>1 DEF Rooted, Branch, PreGenesis, Submittable
  <2>2. Anc[b] = {b}
    BY <1>0, <2>1, AncestorsAssumption
  <2>3. Adopted(b) = {b} /\ Orphaned(b) = {}
    BY Zenon, <1>1 DEF Adopted, Orphaned, IsFork
  <2> QED
    BY Zenon, <2>1, <2>2, <2>3
<1>2. CASE ~PreGenesis /\ Extends(b)
  <2>1. H \in Block /\ H \in blocks /\ canonicalBlocks = Anc[H] /\ Anc[H] \subseteq blocks
    BY Zenon, <1>2 DEF TypeOK, Rooted, Branch, PreGenesis
  <2>2. Anc[b] = Anc[H] \cup {b} /\ b \notin Anc[H]
    BY <1>2, <2>1, AncFacts, AncestorsAssumption DEF Extends
  <2>3. Adopted(b) = {b} /\ Orphaned(b) = {}
    BY Zenon, <1>2 DEF Adopted, Orphaned, IsFork
  <2> QED
    BY Zenon, <2>1, <2>2, <2>3
<1>3. CASE ~PreGenesis /\ ~Extends(b)
  <2>1. H \in Block /\ H \in blocks /\ canonicalBlocks = Anc[H] /\ Anc[H] \subseteq blocks
    BY Zenon, <1>3 DEF TypeOK, Rooted, Branch, PreGenesis
  <2>2. H \notin Anc[b] /\ b \notin Anc[H] /\ Resolvable(b)
    BY Zenon, <1>3, <2>1 DEF Submittable, Ingestible
  <2>3. IsFork(b)
    BY Zenon, <1>3, <2>1, <2>2, AncFacts DEF IsFork, NonCanonicalPath
  <2>4. Adopted(b) = (Anc[b] \ Anc[H]) \cup CommonAncestor(b) /\ Orphaned(b) = Anc[H] \ Anc[b]
    BY Zenon, <2>3 DEF Adopted, Orphaned, CanonicalPath, NonCanonicalPath
  <2>5. CommonAncestor(b) \subseteq Anc[b] \cap Anc[H]
    BY DEF CommonAncestor
  <2>6. Anc[b] \ Anc[H] \subseteq blocks \cup {b}
    BY Zenon, <2>2 DEF Resolvable, CanonicalPath
  <2> QED
    BY <1>0, <2>1, <2>2, <2>3, <2>4, <2>5, <2>6
<1> QED
  BY Zenon, <1>1, <1>2, <1>3

\* The three updates of StoreBlock leave canonical the batches of the branch.
LEMMA CanonicalBatchesOfBranch ==
  ASSUME TypeOK, Rooted, FlagsFollowL1, NEW b \in Block, Submittable(b), Ingestible(b)
  PROVE  CanonicalBatchesWith(b) = BatchesByBlock(Anc[b])
<1>1. /\ (canonicalBlocks \ Orphaned(b)) \cup Adopted(b) = Anc[b]
      /\ b \in Adopted(b) /\ b \notin Orphaned(b)
  BY BlockFacts
<1>2. canonicalBatches = BatchesByBlock(canonicalBlocks)
  BY Zenon DEF FlagsFollowL1
<1> QED
  BY Zenon, <1>1, <1>2 DEF CanonicalBatchesWith, BatchesByBlock

\* CheckCanonicalValidity passes.
LEMMA SingleCanonicalBatch ==
  ASSUME TypeOK, SequencerHistory(batches), NEW b \in Block
  PROVE  CanonicalValidity(BatchesByBlock(Anc[b]))
  BY OnePerHeight DEF CanonicalValidity, BatchesByBlock

\* The block of an executed genesis batch stays on the branch.
LEMMA GenesisStays ==
  ASSUME TypeOK, Rooted, FlagsFollowL1, NEW b \in Block, Submittable(b), Ingestible(b),
         KeepsGenesis(batches, b), L2GenesisSeqNo \in canonicalBatches
  PROVE  L1Proof(L2GenesisSeqNo) \in Anc[b]
<1> DEFINE g == L1Proof(L2GenesisSeqNo)
<1>1. L2GenesisSeqNo \in SeqNos /\ g \in canonicalBlocks /\ b \notin canonicalBlocks
  BY Zenon, BlockFacts DEF FlagsFollowL1, BatchesByBlock
<1>2. currentL1Head \in Block /\ canonicalBlocks = Anc[currentL1Head]
  BY Zenon, <1>1 DEF Rooted, Branch, TypeOK
<1>3. b \notin Anc[g]
  BY Zenon, <1>1, <1>2, AncTransitive
<1> QED
  BY Zenon, <1>1, <1>3 DEF KeepsGenesis, SeqNos, L1Proof
-----------------------------------------------------------------------------
(* Storing a batch.                                                          *)

\* What the sequencer guarantees of a batch that arrives.
LEMMA ArrivingBatch ==
  ASSUME TypeOK, NEW seq \in 1 .. MaxSeqNo, seq \notin SeqNos, NEW b \in SequencerBatches(seq)
  PROVE  /\ b \in Batch
         /\ seq = L2GenesisSeqNo => b.height = L2GenesisHeight
         /\ seq # L2GenesisSeqNo => /\ b.parent \in SeqNos /\ b.parent < seq
                                    /\ b.height = Height(b.parent) + 1
                                    /\ L1Proof(b.parent) \in Anc[b.l1Proof]
         /\ \A i \in SeqNos : Height(i) = b.height => batches[i].txs = b.txs
         /\ SequencerHistory(BatchesWith(seq, b))
<1>1. PICK p \in (IF seq = L2GenesisSeqNo THEN {0} ELSE SeqNos \cap (1 .. seq - 1)),
           l1 \in Block, txs \in Txs \cup {NoTxs, SystemTxs} : b = BatchOn(seq, p, l1, txs)
  BY DEF SequencerBatches
<1>2. b.parent = p /\ b.l1Proof = l1 /\ b.txs = txs
  BY Zenon, <1>1 DEF BatchOn
<1>3. b.height = IF seq = L2GenesisSeqNo THEN L2GenesisHeight ELSE Height(p) + 1
  BY Zenon, <1>1 DEF BatchOn
<1>4. b \in Batch
  <2>1. p \in Nat /\ (seq # L2GenesisSeqNo => p \in SeqNos)
    BY ValidatorAssumption DEF L2GenesisSeqNo
  <2>2. seq # L2GenesisSeqNo => Height(p) \in Nat
    BY Zenon, <2>1, BatchFacts
  <2> QED
    BY <1>1, <2>1, <2>2 DEF BatchOn, Batch, L2GenesisHeight
<1>5. SequencerHistory(BatchesWith(seq, b))
  BY DEF SequencerBatches
<1>6. /\ DOMAIN BatchesWith(seq, b) = SeqNos \cup {seq}
      /\ BatchesWith(seq, b)[seq] = b
      /\ \A i \in SeqNos : BatchesWith(seq, b)[i] = batches[i]
  BY DEF BatchesWith
<1>7. ASSUME seq # L2GenesisSeqNo
      PROVE  /\ b.parent \in SeqNos /\ b.parent < seq
             /\ b.height = Height(b.parent) + 1
             /\ L1Proof(b.parent) \in Anc[b.l1Proof]
  <2>1. p \in SeqNos /\ p < seq
    BY <1>7, ValidatorAssumption
  <2>2. BatchesWith(seq, b)[p].l1Proof \in Anc[b.l1Proof]
    BY Zenon, <1>2, <1>5, <1>6, <1>7 DEF SequencerHistory
  <2> QED
    BY <1>2, <1>3, <1>6, <1>7, <2>1, <2>2 DEF L1Proof
<1>8. \A i \in SeqNos : Height(i) = b.height => batches[i].txs = b.txs
  BY <1>5, <1>6 DEF SequencerHistory, Height
<1> QED
  BY Zenon, <1>3, <1>4, <1>5, <1>7, <1>8

\* What StoreBatch leaves alone and what it adds.
LEMMA StoredFacts ==
  ASSUME NEW seq, seq \notin SeqNos, NEW b, StoreBatch(seq, b)
  PROVE  /\ SeqNos' = SeqNos \cup {seq}
         /\ batches'[seq] = b
         /\ \A i \in SeqNos : batches'[i] = batches[i]
<1>1. /\ DOMAIN BatchesWith(seq, b) = SeqNos \cup {seq}
      /\ BatchesWith(seq, b)[seq] = b
      /\ \A i \in SeqNos : BatchesWith(seq, b)[i] = batches[i]
  BY DEF BatchesWith
<1>2. batches' = BatchesWith(seq, b)
  BY DEF StoreBatch
<1> QED
  BY Zenon, <1>1, <1>2 DEF SeqNos

\* A batch that arrives is well chained, ...
LEMMA NoInvalidChaining ==
  ASSUME TypeOK, Rooted, FlagsFollowL1,
         NEW seq \in 1 .. MaxSeqNo, seq \notin SeqNos, NEW b \in SequencerBatches(seq)
  PROVE  ~InvalidChaining(seq, b)
<1> SUFFICES ASSUME b.l1Proof \in canonicalBlocks, seq > L2GenesisSeqNo + 2
             PROVE  b.parent \in canonicalBatches
  BY Zenon DEF InvalidChaining
<1>1. b.parent \in SeqNos /\ L1Proof(b.parent) \in Anc[b.l1Proof]
  BY ArrivingBatch, ValidatorAssumption DEF L2GenesisSeqNo
<1>2. currentL1Head \in Block /\ canonicalBlocks = Anc[currentL1Head]
  BY Zenon DEF Rooted, Branch, TypeOK
<1>3. L1Proof(b.parent) \in canonicalBlocks
  BY Zenon, <1>1, <1>2, AncTransitive
<1> QED
  BY Zenon, <1>1, <1>3 DEF FlagsFollowL1, BatchesByBlock

\* ... and fits the batches that are stored.
LEMMA BatchStored ==
  ASSUME TypeOK, FlagsFollowL1, Tables,
         NEW seq \in 1 .. MaxSeqNo, seq \notin SeqNos, NEW b \in SequencerBatches(seq),
         StoreBatch(seq, b)
  PROVE  /\ (SeqNos \subseteq 1 .. MaxSeqNo /\ \A i \in SeqNos : batches[i] \in Batch)'
         /\ FlagsFollowL1' /\ Tables'
         /\ canonicalBatches \subseteq canonicalBatches'
         /\ b.l1Proof \in canonicalBlocks => seq \in canonicalBatches'
         /\ \A i \in SeqNos : txTable'[Height(i)] = txTable[Height(i)]
<1> SequencerHistory(batches) /\ Filled(SeqNos) /\ Filled(executed) /\ GenesisAlone /\ TransactionsStored
  BY DEF Tables
<1>0. /\ SeqNos' = SeqNos \cup {seq}
      /\ batches'[seq] = b
      /\ \A i \in SeqNos : batches'[i] = batches[i]
  BY Zenon, StoredFacts
<1>a. /\ b \in Batch
      /\ seq = L2GenesisSeqNo => b.height = L2GenesisHeight
      /\ seq # L2GenesisSeqNo => /\ b.parent \in SeqNos /\ b.parent < seq
                                 /\ b.height = Height(b.parent) + 1
                                 /\ L1Proof(b.parent) \in Anc[b.l1Proof]
      /\ \A i \in SeqNos : Height(i) = b.height => batches[i].txs = b.txs
      /\ SequencerHistory(BatchesWith(seq, b))
  BY Zenon, ArrivingBatch
<1>b. /\ SeqNos \subseteq Nat /\ executed \subseteq SeqNos /\ seq \in Nat
      /\ \A i \in SeqNos : Height(i) \in Nat /\ L1Proof(i) \in Block
      /\ b.height \in Nat /\ b.l1Proof \in Block
  BY <1>a, BatchFacts, ValidatorAssumption DEF Batch
<1>c. executed' = executed /\ canonicalBlocks' = canonicalBlocks /\ canonicalBatches' = CanonicalWith(seq, b)
  BY Zenon DEF StoreBatch
<1>1. (SeqNos \subseteq 1 .. MaxSeqNo /\ \A i \in SeqNos : batches[i] \in Batch)'
  BY Zenon, <1>0, <1>a DEF TypeOK
<1>2. FlagsFollowL1' /\ canonicalBatches \subseteq canonicalBatches'
      /\ (b.l1Proof \in canonicalBlocks => seq \in canonicalBatches')
  BY Zenon, <1>0, <1>c DEF FlagsFollowL1, BatchesByBlock, CanonicalWith, L1Proof
<1>3. SequencerHistory(batches)'
  BY <1>a DEF StoreBatch, SequencerHistory
<1>4. Filled(SeqNos)'
  <2> SUFFICES ASSUME NEW i \in SeqNos', NEW h \in 0 .. batches'[i].height
               PROVE  \E j \in SeqNos' : /\ batches'[j].height = h
                                         /\ batches'[j].l1Proof \in Anc[batches'[i].l1Proof]
                                         /\ j <= i
    BY Zenon DEF Filled, Height, L1Proof
  <2>1. CASE i \in SeqNos
    <3>1. h \in 0 .. Height(i)
      BY Zenon, <1>0, <2>1 DEF Height
    <3>2. PICK j \in SeqNos : Height(j) = h /\ L1Proof(j) \in Anc[L1Proof(i)] /\ j <= i
      BY Zenon, <2>1, <3>1 DEF Filled
    <3> QED
      BY Zenon, <1>0, <2>1, <3>2 DEF Height, L1Proof
  <2>2. CASE i = seq /\ h = b.height
    BY <1>0, <1>b, <2>2, AncFacts
  <2>3. CASE i = seq /\ h # b.height
    <3>1. h \in 0 .. b.height /\ seq # L2GenesisSeqNo
      BY <1>0, <1>a, <1>b, <2>3 DEF L2GenesisHeight
    <3>2. PICK p \in SeqNos : p = b.parent
      BY Zenon, <1>a, <3>1
    <3>3. p < seq /\ b.height = Height(p) + 1 /\ L1Proof(p) \in Anc[b.l1Proof]
      BY Zenon, <1>a, <3>1, <3>2
    <3>4. Height(p) \in Nat /\ h \in 0 .. Height(p)
      BY <1>b, <2>3, <3>1, <3>3
    <3>5. PICK j \in SeqNos : Height(j) = h /\ L1Proof(j) \in Anc[L1Proof(p)] /\ j <= p
      BY Zenon, <3>4 DEF Filled
    <3>6. L1Proof(j) \in Anc[b.l1Proof]
      BY Zenon, <1>b, <3>3, <3>5, AncTransitive
    <3>7. j <= seq
      BY <1>b, <3>3, <3>5
    <3> QED
      BY <1>0, <2>3, <3>5, <3>6, <3>7 DEF Height, L1Proof
  <2> QED
    BY Zenon, <1>0, <2>1, <2>2, <2>3
<1>5. Filled(executed)'
  <2>1. \A i \in executed : batches'[i] = batches[i]
    BY Zenon, <1>0, <1>b
  <2> QED
    BY <1>c, <2>1 DEF Filled, Height, L1Proof
<1>6. GenesisAlone'
  <2>1. ASSUME seq # L2GenesisSeqNo PROVE b.height # L2GenesisHeight
    <3>1. PICK p \in SeqNos : b.height = Height(p) + 1
      BY Zenon, <1>a, <2>1
    <3> QED
      BY <1>b, <3>1 DEF L2GenesisHeight
  <2> QED
    BY Zenon, <1>0, <2>1 DEF GenesisAlone, Height
<1>7. TransactionsStored' /\ \A i \in SeqNos : txTable'[Height(i)] = txTable[Height(i)]
  <2>1. txTable' = TxTableWith(b)
    BY Zenon DEF StoreBatch
  <2>2. CASE \E i \in SeqNos : Height(i) = b.height
    <3>1. txTable' = txTable
      BY Zenon, <2>1, <2>2 DEF TxTableWith
    <3> QED
      BY <1>0, <1>a, <2>2, <3>1 DEF TransactionsStored, Height
  <2>3. CASE ~ \E i \in SeqNos : Height(i) = b.height
    <3>1. txTable' = [h \in DOMAIN txTable \cup {b.height} |-> IF h = b.height THEN b.txs ELSE txTable[h]]
      BY Zenon, <2>1, <2>3 DEF TxTableWith
    <3> QED
      BY Zenon, <1>0, <2>3, <3>1 DEF TransactionsStored, Height
  <2> QED
    BY Zenon, <2>2, <2>3
<1>8. ExecutedInOrder'
  BY Zenon, <1>0, <1>b, <1>c DEF Tables, ExecutedInOrder
<1> QED
  BY <1>1, <1>2, <1>3, <1>4, <1>5, <1>6, <1>7, <1>8 DEF Tables
-----------------------------------------------------------------------------
(* Executing a batch.                                                        *)

\* Executing a canonical batch on an executed parent.
LEMMA BatchExecuted ==
  ASSUME TypeOK, Tables, GenesisExecuted, NEW seq \in canonicalBatches,
         seq = L2GenesisSeqNo \/ batches[seq].parent \in executed, Execute(seq)
  PROVE  Tables' /\ GenesisExecuted'
<1>0. /\ executed' = executed \cup {seq} /\ seq \in SeqNos /\ executed \subseteq SeqNos
      /\ UNCHANGED <<batches, txTable, canonicalBatches>>
  BY Zenon, BatchFacts DEF Execute
<1>1. GenesisExecuted'
  BY Zenon, <1>0 DEF GenesisExecuted
<1>2. ExecutedInOrder'
  BY Zenon, <1>0 DEF Tables, ExecutedInOrder
<1>3. Filled(executed)'
  <2> SUFFICES ASSUME NEW i \in executed', NEW h \in 0 .. Height(i)
               PROVE  \E j \in executed' : Height(j) = h /\ L1Proof(j) \in Anc[L1Proof(i)] /\ j <= i
    BY Zenon, <1>0 DEF Filled, Height, L1Proof
  <2>0. i \in Nat /\ Height(i) \in Nat /\ L1Proof(i) \in Block
    BY Zenon, <1>0, BatchFacts
  <2>1. CASE i \in executed
    <3>1. PICK j \in executed : Height(j) = h /\ L1Proof(j) \in Anc[L1Proof(i)] /\ j <= i
      BY Zenon, <2>1 DEF Tables, Filled
    <3> QED
      BY Zenon, <1>0, <3>1
  <2>2. CASE i = seq /\ h = Height(seq)
    BY <1>0, <2>0, <2>2, AncFacts
  <2>3. CASE i = seq /\ h # Height(seq)
    <3>1. seq # L2GenesisSeqNo
      BY <1>0, <2>3 DEF Tables, SequencerHistory, Height, SeqNos, L2GenesisHeight
    <3>2. PICK p \in executed : p = batches[seq].parent
      BY Zenon, <3>1
    <3>3. Height(seq) = Height(p) + 1 /\ L1Proof(p) \in Anc[L1Proof(seq)] /\ p < seq
      BY Zenon, <1>0, <3>1, <3>2, ParentBelow DEF Tables
    <3>4. p \in Nat /\ Height(p) \in Nat
      BY Zenon, <1>0, BatchFacts
    <3>5. h \in 0 .. Height(p)
      BY <2>3, <3>3, <3>4
    <3>6. PICK j \in executed : Height(j) = h /\ L1Proof(j) \in Anc[L1Proof(p)] /\ j <= p
      BY Zenon, <3>5 DEF Tables, Filled
    <3>7. j \in Nat /\ j <= seq
      BY <1>0, <2>0, <2>3, <3>3, <3>4, <3>6, BatchFacts
    <3>8. L1Proof(j) \in Anc[L1Proof(seq)]
      BY <2>0, <2>3, <3>3, <3>6, AncTransitive
    <3> QED
      BY Zenon, <1>0, <2>3, <3>6, <3>7, <3>8
  <2> QED
    BY Zenon, <1>0, <2>1, <2>2, <2>3
<1>4. SequencerHistory(batches)' /\ Filled(SeqNos)' /\ GenesisAlone' /\ TransactionsStored'
  BY <1>0 DEF Tables, SequencerHistory, Filled, GenesisAlone, TransactionsStored, SeqNos, Height, L1Proof
<1> QED
  BY Zenon, <1>1, <1>2, <1>3, <1>4 DEF Tables

\* A step that leaves tables batch and tx alone.
LEMMA TablesUnchanged ==
  ASSUME Tables, UNCHANGED <<batches, executed, txTable>>
  PROVE  Tables'
  BY DEF Tables, SequencerHistory, Filled, GenesisAlone, TransactionsStored, ExecutedInOrder,
         SeqNos, Height, L1Proof

\* A step that leaves table block and the L1 head alone.
LEMMA BlocksUnchanged ==
  ASSUME Rooted, UNCHANGED <<blocks, canonicalBlocks, currentL1Head>>
  PROVE  Rooted' /\ Branch' = Branch
  BY DEF Rooted, Branch
-----------------------------------------------------------------------------
(* Every step keeps the invariant.                                           *)

\* Init: nothing is stored.
LEMMA InitKeeps == Init => IInv
<1> SUFFICES ASSUME Init PROVE IInv
  BY Zenon
<1>1. SeqNos = {} /\ executed = {} /\ canonicalBatches = {} /\ blocks = {} /\ canonicalBlocks = {}
  BY DEF Init, SeqNos
<1>2. TypeOK
  BY Zenon, <1>1, ValidatorAssumption DEF Init, TypeOK
<1>3. Tables
  BY <1>1 DEF Tables, SequencerHistory, Filled, GenesisAlone, TransactionsStored, ExecutedInOrder, SeqNos
<1>4. Rooted /\ FlagsFollowL1
  BY <1>1 DEF Init, Rooted, Branch, FlagsFollowL1, BatchesByBlock
<1>5. NoCrit /\ GenesisExecuted /\ HeadExecuted /\ RollupLoop /\ ExecuteLoop /\ CaughtUp
  BY <1>1 DEF Init, NoCrit, GenesisExecuted, HeadExecuted, RollupLoop, ExecuteLoop, CaughtUp
<1> QED
  BY Zenon, <1>2, <1>3, <1>4, <1>5 DEF IInv

\* SubmitL1Block, for any block the host can submit.
LEMMA SubmitL1BlockKeeps ==
  ASSUME IInv, NEW b \in Block, Submittable(b), KeepsGenesis(batches, b), SubmitL1Block(b)
  PROVE  IInv'
<1>0. TypeOK /\ Rooted /\ FlagsFollowL1 /\ Tables /\ GenesisExecuted /\ HeadExecuted /\ RollupLoop
  BY Zenon DEF IInv
<1>1. Free /\ Ingestible(b)
  BY DEF SubmitL1Block
<1>2. CanonicalBatchesWith(b) = BatchesByBlock(Anc[b])
  BY Zenon, <1>0, <1>1, CanonicalBatchesOfBranch
<1>3. CanonicalValidity(CanonicalBatchesWith(b))
  BY Zenon, <1>0, <1>2, SingleCanonicalBatch DEF Tables
<1>4. /\ StoreBlock(b)
      /\ currentL1Head' = b
      /\ forked' = IsFork(b)
      /\ \/ rollup' = {} /\ compressionL1Head' = NoBlock
         \/ \E r \in Rollups(b) :
              /\ RollupReadable(r.head, canonicalBlocks', blocks')
              /\ rollup' = r.first .. r.last
              /\ compressionL1Head' = r.head
      /\ pc' = "rollup"
      /\ UNCHANGED <<headBatchSeq, toExecute>>
  BY Zenon, <1>3 DEF SubmitL1Block
<1>5. /\ blocks' = blocks \cup {b}
      /\ lastBlock' \in Block \cup {NoBlock}
      /\ canonicalBlocks' = Anc[b]
      /\ canonicalBatches' = BatchesByBlock(Anc[b])
      /\ UNCHANGED <<batches, executed, txTable>>
  BY Zenon, <1>0, <1>1, <1>2, <1>4, BlockFacts DEF StoreBlock, TypeOK
<1>6. /\ Anc[b] \subseteq blocks \cup {b} /\ b # NoBlock
      /\ ~IsFork(b) => canonicalBlocks \subseteq Anc[b]
  BY Zenon, <1>0, <1>1, BlockFacts, HeadersAssumption
<1>7. Branch' = Anc[b]
  BY Zenon, <1>4, <1>6 DEF Branch
<1>8. /\ rollup' \subseteq 1 .. MaxSeqNo
      /\ compressionL1Head' \in Block \cup {NoBlock}
      /\ rollup' # {} => compressionL1Head' \in Anc[b]
  <2>1. CASE rollup' = {} /\ compressionL1Head' = NoBlock
    BY Zenon, <2>1
  <2>2. ASSUME NEW r \in Rollups(b), RollupReadable(r.head, canonicalBlocks', blocks'),
               rollup' = r.first .. r.last, compressionL1Head' = r.head
        PROVE  rollup' \subseteq 1 .. MaxSeqNo /\ compressionL1Head' \in Anc[b] /\ compressionL1Head' \in Block
    <3>1. r.first \in 1 .. MaxSeqNo /\ r.last \in 1 .. MaxSeqNo /\ r.head \in Block
      BY Zenon DEF Rollups
    <3> QED
      BY <1>5, <2>2, <3>1, ValidatorAssumption DEF RollupReadable
  <2> QED
    BY Zenon, <1>4, <2>1, <2>2
<1>9. TypeOK'
  <2>1. SeqNos' = SeqNos /\ canonicalBatches' \subseteq SeqNos
    BY Zenon, <1>5 DEF SeqNos, BatchesByBlock
  <2>2. IsFork(b) \in BOOLEAN
    BY Zenon DEF IsFork
  <2> QED
    BY <1>0, <1>4, <1>5, <1>6, <1>8, <2>1, <2>2 DEF TypeOK
<1>10. Rooted'
  <2>1. \A c \in blocks' : Anc[c] \subseteq blocks'
    BY Zenon, <1>0, <1>5, <1>6 DEF Rooted
  <2> QED
    BY Zenon, <1>4, <1>5, <1>7, <2>1 DEF Rooted
<1>11. FlagsFollowL1'
  BY Zenon, <1>5 DEF FlagsFollowL1, BatchesByBlock, SeqNos, L1Proof
<1>12. GenesisExecuted'
  <2> SUFFICES ASSUME executed # {} PROVE L2GenesisSeqNo \in executed \cap canonicalBatches'
    BY Zenon, <1>5 DEF GenesisExecuted
  <2>1. L2GenesisSeqNo \in executed \cap canonicalBatches /\ L2GenesisSeqNo \in SeqNos
    BY Zenon, <1>0, BatchFacts DEF GenesisExecuted
  <2>2. L1Proof(L2GenesisSeqNo) \in Anc[b]
    BY Zenon, <1>0, <1>1, <2>1, GenesisStays
  <2> QED
    BY Zenon, <1>5, <2>1, <2>2 DEF BatchesByBlock
<1>13. HeadExecuted'
  <2>1. ~forked
    BY Zenon, <1>0, <1>1 DEF RollupLoop, Free
  <2>2. ~IsFork(b) => canonicalBatches \subseteq canonicalBatches'
    BY Zenon, <1>0, <1>5, <1>6 DEF FlagsFollowL1, BatchesByBlock
  <2> QED
    BY Zenon, <1>0, <1>4, <1>5, <2>1, <2>2 DEF HeadExecuted
<1>14. RollupLoop'
  BY Zenon, <1>4, <1>7, <1>8 DEF RollupLoop
<1>15. NoCrit' /\ ExecuteLoop' /\ CaughtUp'
  BY Zenon, <1>4 DEF NoCrit, ExecuteLoop, CaughtUp
<1> QED
  BY <1>0, <1>5, <1>9, <1>10, <1>11, <1>12, <1>13, <1>14, <1>15, TablesUnchanged DEF IInv

\* SubmitBatch of a batch that is not stored.
LEMMA SubmitBatchKeeps ==
  ASSUME IInv, NEW seq \in 1 .. MaxSeqNo, SubmitBatch(seq)
  PROVE  IInv'
<1>0. TypeOK /\ Rooted /\ FlagsFollowL1 /\ Tables /\ GenesisExecuted /\ HeadExecuted /\ RollupLoop
  BY Zenon DEF IInv
<1>1. Free /\ seq \notin SeqNos
  BY Zenon DEF SubmitBatch
<1>2. PICK b \in SequencerBatches(seq) :
        IF InvalidChaining(seq, b) THEN Crit
        ELSE StoreBatch(seq, b) /\ pc' = "fetch" /\ UNCHANGED <<memVars, loopVars>>
  BY DEF SubmitBatch
<1>3. ~InvalidChaining(seq, b)
  BY Zenon, <1>0, <1>1, NoInvalidChaining
<1>4. /\ StoreBatch(seq, b) /\ pc' = "fetch"
      /\ UNCHANGED <<blocks, lastBlock, canonicalBlocks, executed, currentL1Head, headBatchSeq,
                     forked, rollup, compressionL1Head, toExecute>>
  BY Zenon, <1>2, <1>3 DEF StoreBatch, memVars, loopVars
<1>5. /\ (SeqNos \subseteq 1 .. MaxSeqNo /\ \A i \in SeqNos : batches[i] \in Batch)'
      /\ FlagsFollowL1' /\ Tables' /\ canonicalBatches \subseteq canonicalBatches'
  BY Zenon, <1>0, <1>1, <1>4, BatchStored
<1>6. SeqNos' = SeqNos \cup {seq}
  BY Zenon, <1>1, <1>4, StoredFacts
<1>7. Rooted' /\ Branch' = Branch
  BY Zenon, <1>0, <1>4, BlocksUnchanged
<1>8. TypeOK'
  <2>1. canonicalBatches' \subseteq SeqNos'
    BY Zenon, <1>5 DEF FlagsFollowL1, BatchesByBlock
  <2> QED
    BY <1>0, <1>4, <1>5, <1>6, <2>1 DEF TypeOK
<1>9. GenesisExecuted' /\ HeadExecuted'
  BY Zenon, <1>0, <1>4, <1>5 DEF GenesisExecuted, HeadExecuted
<1>10. RollupLoop'
  BY Zenon, <1>0, <1>1, <1>4, <1>7 DEF RollupLoop, Free
<1>11. NoCrit' /\ ExecuteLoop' /\ CaughtUp'
  BY Zenon, <1>4 DEF NoCrit, ExecuteLoop, CaughtUp
<1> QED
  BY <1>5, <1>7, <1>8, <1>9, <1>10, <1>11 DEF IInv

\* A batch of a rollup is stored.
LEMMA RollupBatchKeeps ==
  ASSUME IInv, NEW seq \in 1 .. MaxSeqNo, NEW b \in SequencerBatches(seq), RollupBatch(seq, b)
  PROVE  IInv'
<1>0. TypeOK /\ Rooted /\ FlagsFollowL1 /\ Tables /\ GenesisExecuted /\ HeadExecuted /\ RollupLoop
  BY Zenon DEF IInv
<1>1. /\ pc = "rollup" /\ seq \in rollup /\ seq \notin SeqNos
      /\ Reorged(b) \/ ParentComputed(seq, b)
  BY Zenon DEF RollupBatch, NextInRollup
<1>2. ~InvalidChaining(seq, b)
  BY Zenon, <1>0, <1>1, NoInvalidChaining
<1>3. /\ StoreBatch(seq, b)
      /\ rollup' = {i \in rollup : i > seq \/ (i = seq /\ ~Reorged(b))}
      /\ pc' = IF Reorged(b) THEN "rollup" ELSE "rollupExecuted"
      /\ UNCHANGED <<blocks, lastBlock, canonicalBlocks, executed, currentL1Head, headBatchSeq,
                     forked, compressionL1Head, toExecute>>
  BY Zenon, <1>2 DEF RollupBatch, StoreBatch, memVars
<1>4. /\ (SeqNos \subseteq 1 .. MaxSeqNo /\ \A i \in SeqNos : batches[i] \in Batch)'
      /\ FlagsFollowL1' /\ Tables' /\ canonicalBatches \subseteq canonicalBatches'
      /\ b.l1Proof \in canonicalBlocks => seq \in canonicalBatches'
  BY Zenon, <1>0, <1>1, <1>3, BatchStored
<1>5. SeqNos' = SeqNos \cup {seq} /\ batches'[seq] = b
  BY Zenon, <1>1, <1>3, StoredFacts
<1>6. Rooted' /\ Branch' = Branch
  BY Zenon, <1>0, <1>3, BlocksUnchanged
<1>7. TypeOK'
  <2>1. canonicalBatches' \subseteq SeqNos'
    BY <1>4 DEF FlagsFollowL1, BatchesByBlock
  <2> QED
    BY Zenon, <1>0, <1>3, <1>4, <1>5, <2>1 DEF TypeOK
<1>8. GenesisExecuted' /\ HeadExecuted'
  BY <1>0, <1>3, <1>4 DEF GenesisExecuted, HeadExecuted
<1>9. RollupLoop'
  <2>1. compressionL1Head \in Branch
    BY Zenon, <1>0, <1>1 DEF RollupLoop
  <2>2. ASSUME ~Reorged(b), NEW s \in rollup', \A i \in rollup' : s <= i
        PROVE  s \in canonicalBatches' /\ (s = L2GenesisSeqNo \/ batches'[s].parent \in executed)
    <3>1. seq \in Nat /\ s \in Nat /\ rollup \subseteq Nat
      BY <1>0, <1>3, <2>2, ValidatorAssumption DEF TypeOK
    <3>2. s = seq
      BY <1>1, <1>3, <2>2, <3>1
    <3>3. currentL1Head \in Block /\ canonicalBlocks = Anc[currentL1Head]
      BY Zenon, <1>0, <2>1 DEF Rooted, Branch, TypeOK
    <3>4. b.l1Proof \in canonicalBlocks
      BY <1>0, <2>1, <2>2, <3>3, AncTransitive DEF Reorged, Rooted
    <3>5. seq = L2GenesisSeqNo \/ b.parent \in executed
      BY <1>1, <2>2, <3>1 DEF ParentComputed, L2GenesisSeqNo
    <3> QED
      BY Zenon, <1>4, <1>5, <3>2, <3>4, <3>5
  <2> QED
    BY <1>0, <1>1, <1>3, <1>6, <2>1, <2>2 DEF RollupLoop
<1>10. NoCrit' /\ ExecuteLoop' /\ CaughtUp'
  BY Zenon, <1>3 DEF NoCrit, ExecuteLoop, CaughtUp
<1> QED
  BY <1>4, <1>6, <1>7, <1>8, <1>9, <1>10 DEF IInv

\* A batch of a rollup is marked executed.
LEMMA RollupExecutedKeeps ==
  ASSUME IInv, RollupExecuted
  PROVE  IInv'
<1>0. TypeOK /\ Rooted /\ FlagsFollowL1 /\ Tables /\ GenesisExecuted /\ HeadExecuted /\ RollupLoop
  BY Zenon DEF IInv
<1>1. PICK seq \in rollup : (\A i \in rollup : seq <= i) /\ Execute(seq) /\ rollup' = rollup \ {seq}
  BY Zenon DEF RollupExecuted
<1>2. /\ pc = "rollupExecuted" /\ pc' = "rollup"
      /\ UNCHANGED <<forked, compressionL1Head, toExecute>>
  BY Zenon DEF RollupExecuted
<1>3. seq \in canonicalBatches /\ (seq = L2GenesisSeqNo \/ batches[seq].parent \in executed)
  BY Zenon, <1>0, <1>1, <1>2 DEF RollupLoop
<1>4. /\ executed' = executed \cup {seq} /\ headBatchSeq' = seq
      /\ UNCHANGED <<blocks, lastBlock, canonicalBlocks, batches, canonicalBatches, txTable, currentL1Head>>
  BY Zenon, <1>1 DEF Execute
<1>5. Tables' /\ GenesisExecuted'
  BY Zenon, <1>0, <1>1, <1>3, BatchExecuted
<1>6. Rooted' /\ Branch' = Branch
  BY Zenon, <1>0, <1>4, BlocksUnchanged
<1>7. TypeOK' /\ FlagsFollowL1'
  BY <1>0, <1>1, <1>2, <1>3, <1>4 DEF TypeOK, FlagsFollowL1, BatchesByBlock, SeqNos, L1Proof
<1>8. HeadExecuted'
  BY Zenon, <1>3, <1>4 DEF HeadExecuted
<1>9. RollupLoop'
  BY <1>0, <1>1, <1>2, <1>6 DEF RollupLoop
<1>10. NoCrit' /\ ExecuteLoop' /\ CaughtUp'
  BY Zenon, <1>2 DEF NoCrit, ExecuteLoop, CaughtUp
<1> QED
  BY <1>5, <1>6, <1>7, <1>8, <1>9, <1>10 DEF IInv

\* The steps that change neither the tables nor the L1 head: what is left to
\* show.
LEMMA TablesKept ==
  ASSUME IInv, UNCHANGED dbVars, currentL1Head' = currentL1Head
  PROVE  /\ Rooted' /\ FlagsFollowL1' /\ Tables' /\ GenesisExecuted' /\ Branch' = Branch
         /\ SeqNos' = SeqNos
         /\ (blocks \subseteq Block /\ canonicalBlocks \subseteq blocks /\ SeqNos \subseteq 1 .. MaxSeqNo
             /\ lastBlock \in Block \cup {NoBlock} /\ canonicalBatches \subseteq SeqNos
             /\ executed \subseteq SeqNos /\ currentL1Head \in Block \cup {NoBlock}
             /\ \A i \in SeqNos : batches[i] \in Batch)'
<1>0. /\ TypeOK /\ Rooted /\ FlagsFollowL1 /\ Tables /\ GenesisExecuted
      /\ UNCHANGED <<blocks, lastBlock, canonicalBlocks, batches, canonicalBatches, executed, txTable>>
  BY Zenon DEF IInv, dbVars
<1>1. Rooted' /\ Branch' = Branch /\ Tables'
  BY Zenon, <1>0, BlocksUnchanged, TablesUnchanged
<1>2. FlagsFollowL1' /\ GenesisExecuted' /\ SeqNos' = SeqNos
  BY Zenon, <1>0 DEF FlagsFollowL1, GenesisExecuted, BatchesByBlock, SeqNos, L1Proof
<1> QED
  BY Zenon, <1>0, <1>1, <1>2 DEF TypeOK

\* The head batch the registry loads from the database.
LEMMA LoadedHead ==
  ASSUME TypeOK, GenesisExecuted, executed # {}
  PROVE  /\ HeadBatches(canonicalBatches) # {}
         /\ HeadBatches(canonicalBatches) \subseteq executed \cap canonicalBatches
<1>1. canonicalBatches \cap executed # {}
  BY Zenon DEF GenesisExecuted
<1> QED
  BY Zenon, <1>1, HeadBatchExists DEF HeadBatches

\* SubmitBatch of a batch that is stored.
LEMMA ResubmitBatchKeeps ==
  ASSUME IInv, ResubmitBatch
  PROVE  IInv'
<1>0. TypeOK /\ HeadExecuted /\ RollupLoop
  BY Zenon DEF IInv
<1>1. /\ Free /\ pc' = "fetch" /\ UNCHANGED dbVars
      /\ UNCHANGED <<executed, canonicalBatches, currentL1Head, headBatchSeq, forked, rollup,
                     compressionL1Head, toExecute>>
  BY Zenon DEF ResubmitBatch, dbVars, memVars, loopVars
<1>2. TypeOK'
  BY Zenon, <1>0, <1>1, TablesKept DEF TypeOK
<1>3. HeadExecuted'
  BY Zenon, <1>0, <1>1 DEF HeadExecuted
<1>4. Branch' = Branch
  BY Zenon, <1>1, TablesKept
<1>5. RollupLoop'
  BY Zenon, <1>0, <1>1, <1>4 DEF RollupLoop, Free
<1>6. NoCrit' /\ ExecuteLoop' /\ CaughtUp'
  BY Zenon, <1>1 DEF NoCrit, ExecuteLoop, CaughtUp
<1> QED
  BY <1>1, <1>2, <1>3, <1>5, <1>6, TablesKept DEF IInv

\* The end of a rollup: after a fork the registry reloads the head batch.
LEMMA EndRollupKeeps ==
  ASSUME IInv, EndRollup
  PROVE  IInv'
<1>0. TypeOK /\ GenesisExecuted /\ HeadExecuted
  BY Zenon DEF IInv
<1>1. /\ pc' = "fetch" /\ forked' = FALSE /\ rollup' = {} /\ compressionL1Head' = NoBlock
      /\ UNCHANGED dbVars /\ UNCHANGED <<executed, canonicalBatches, currentL1Head, toExecute>>
      /\ IF forked THEN OnL1Reorg(canonicalBatches) ELSE UNCHANGED headBatchSeq
  BY Zenon DEF EndRollup, dbVars
<1>2. executed \subseteq SeqNos
  BY Zenon, <1>0 DEF TypeOK
<1>3. HeadExecuted' /\ headBatchSeq' \in executed \cup {0}
  <2>1. CASE executed = {}
    <3>1. HeadBatches(canonicalBatches) = {} /\ headBatchSeq = 0
      BY Zenon, <1>0, <2>1 DEF HeadBatches, HeadExecuted
    <3>2. headBatchSeq' = 0
      BY Zenon, <1>1, <3>1 DEF OnL1Reorg
    <3> QED
      BY Zenon, <1>1, <2>1, <3>2 DEF HeadExecuted
  <2>2. CASE executed # {} /\ forked
    <3>1. headBatchSeq' \in HeadBatches(canonicalBatches)
      BY Zenon, <1>0, <1>1, <2>2, LoadedHead DEF OnL1Reorg
    <3>2. headBatchSeq' \in executed \cap canonicalBatches
      BY Zenon, <1>0, <2>2, <3>1, LoadedHead
    <3> QED
      BY Zenon, <1>1, <2>2, <3>2 DEF HeadExecuted
  <2>3. CASE executed # {} /\ ~forked
    BY Zenon, <1>0, <1>1, <2>3 DEF HeadExecuted
  <2> QED
    BY Zenon, <2>1, <2>2, <2>3
<1>4. TypeOK'
  BY Zenon, <1>0, <1>1, <1>2, <1>3, TablesKept DEF TypeOK
<1>5. RollupLoop' /\ NoCrit' /\ ExecuteLoop' /\ CaughtUp'
  BY <1>1 DEF RollupLoop, NoCrit, ExecuteLoop, CaughtUp
<1> QED
  BY <1>1, <1>3, <1>4, <1>5, TablesKept DEF IInv

\* A crash and the restart, which loads the head batch from the database.
LEMMA CrashKeeps ==
  ASSUME IInv, lastBlock = currentL1Head, Crash
  PROVE  IInv'
<1>0. TypeOK /\ GenesisExecuted /\ HeadExecuted
  BY Zenon DEF IInv
<1>1. /\ pc' = "started" /\ forked' = FALSE /\ rollup' = {} /\ compressionL1Head' = NoBlock
      /\ toExecute' = {} /\ currentL1Head' = currentL1Head
      /\ UNCHANGED dbVars /\ UNCHANGED <<executed, canonicalBatches>>
      /\ LoadHead
  BY Zenon DEF Crash, dbVars
<1>2. executed \subseteq SeqNos
  BY Zenon, <1>0 DEF TypeOK
<1>3. HeadExecuted' /\ headBatchSeq' \in executed \cup {0}
  <2>1. CASE executed = {}
    <3>1. HeadBatches(canonicalBatches) = {}
      BY Zenon, <2>1 DEF HeadBatches
    <3> QED
      BY Zenon, <1>1, <2>1, <3>1 DEF HeadExecuted, LoadHead
  <2>2. CASE executed # {}
    <3>1. headBatchSeq' \in HeadBatches(canonicalBatches)
      BY Zenon, <1>0, <1>1, <2>2, LoadedHead DEF LoadHead
    <3>2. headBatchSeq' \in executed \cap canonicalBatches
      BY Zenon, <1>0, <2>2, <3>1, LoadedHead
    <3> QED
      BY Zenon, <1>1, <2>2, <3>2 DEF HeadExecuted
  <2> QED
    BY Zenon, <2>1, <2>2
<1>4. TypeOK'
  BY Zenon, <1>0, <1>1, <1>2, <1>3, TablesKept DEF TypeOK
<1>5. RollupLoop' /\ NoCrit' /\ ExecuteLoop' /\ CaughtUp'
  BY <1>1 DEF RollupLoop, NoCrit, ExecuteLoop, CaughtUp
<1> QED
  BY <1>1, <1>3, <1>4, <1>5, TablesKept DEF IInv

\* A batch of the branch that was not executed has a number not below the cached
\* head batch's: FetchCanonicalUnexecutedBatches misses none.
LEMMA NothingMissed ==
  ASSUME IInv, pc = "fetch"
  PROVE  FetchCanonicalUnexecutedBatches = canonicalBatches \ executed
<1>0. TypeOK /\ Rooted /\ FlagsFollowL1 /\ Tables /\ HeadExecuted /\ RollupLoop
  BY DEF IInv
<1>1. canonicalBatches \subseteq SeqNos /\ SeqNos \subseteq Nat
  BY Zenon, <1>0, BatchFacts
<1>2. ASSUME NEW i \in canonicalBatches \ executed PROVE i >= headBatchSeq
  <2>1. CASE executed = {}
    BY <1>0, <1>1, <2>1 DEF HeadExecuted
  <2>2. CASE executed # {}
    <3>1. headBatchSeq \in executed /\ headBatchSeq \in canonicalBatches
      BY Zenon, <1>0, <2>2 DEF HeadExecuted, RollupLoop
    <3>2. L1Proof(i) \in canonicalBlocks /\ L1Proof(headBatchSeq) \in canonicalBlocks
      BY Zenon, <1>0, <3>1 DEF FlagsFollowL1, BatchesByBlock
    <3>3. currentL1Head \in Block /\ canonicalBlocks = Anc[currentL1Head]
      BY Zenon, <1>0, <3>2 DEF Rooted, Branch, TypeOK
    <3>4. headBatchSeq <= i
      BY <1>0, <1>1, <3>1, <3>2, <3>3, ExecutedAreLower DEF Tables
    <3> QED
      BY Zenon, <1>1, <3>1, <3>4
  <2> QED
    BY Zenon, <2>1, <2>2
<1> QED
  BY <1>2 DEF FetchCanonicalUnexecutedBatches

\* ExecuteStoredBatches asks for the batches to execute.
LEMMA FetchStoredBatchesKeeps ==
  ASSUME IInv, FetchStoredBatches
  PROVE  IInv'
<1>0. TypeOK /\ GenesisExecuted /\ HeadExecuted /\ RollupLoop
  BY Zenon DEF IInv
<1>1. /\ pc = "fetch" /\ toExecute' = FetchCanonicalUnexecutedBatches
      /\ pc' = IF toExecute' = {} THEN "idle" ELSE "execute"
      /\ UNCHANGED dbVars
      /\ UNCHANGED <<executed, canonicalBatches, currentL1Head, headBatchSeq, forked, rollup, compressionL1Head>>
  BY Zenon DEF FetchStoredBatches, dbVars, memVars
<1>2. toExecute' = canonicalBatches \ executed
  BY Zenon, <1>1, NothingMissed
<1>3. TypeOK'
  BY <1>0, <1>1, <1>2, TablesKept DEF TypeOK
<1>4. ~forked
  BY Zenon, <1>0, <1>1 DEF RollupLoop
<1>5. HeadExecuted'
  BY Zenon, <1>0, <1>1 DEF HeadExecuted
<1>6. Branch' = Branch
  BY Zenon, <1>1, TablesKept
<1>7. RollupLoop'
  BY <1>0, <1>1, <1>4, <1>6 DEF RollupLoop
<1>8. CaughtUp'
  BY Zenon, <1>0, <1>1, <1>2, <1>4 DEF CaughtUp, HeadExecuted
<1>9. NoCrit' /\ ExecuteLoop'
  BY Zenon, <1>1, <1>2 DEF NoCrit, ExecuteLoop
<1> QED
  BY <1>1, <1>3, <1>5, <1>7, <1>8, <1>9, TablesKept DEF IInv

\* The next batch of the loop can always be executed: its parent comes first.
LEMMA ParentFirst ==
  ASSUME IInv, pc = "execute", NEW i \in SeqNos, IsNext(i)
  PROVE  i \in canonicalBatches /\ CanExecute(i)
<1>0. TypeOK /\ Rooted /\ FlagsFollowL1 /\ Tables /\ ExecuteLoop
  BY Zenon DEF IInv
<1>1. toExecute = canonicalBatches \ executed /\ i \in toExecute /\ \A j \in toExecute : i <= j
  BY Zenon, <1>0 DEF ExecuteLoop, IsNext
<1>2. L1Proof(i) \in canonicalBlocks /\ canonicalBlocks \subseteq blocks
  BY Zenon, <1>0, <1>1 DEF FlagsFollowL1, BatchesByBlock, TypeOK
<1>3. ASSUME i # L2GenesisSeqNo PROVE batches[i].parent \in executed
  <2>1. PICK p \in SeqNos : p = batches[i].parent
    BY Zenon, <1>0, <1>3, ParentBelow DEF Tables
  <2>2. L1Proof(p) \in Anc[L1Proof(i)] /\ p < i
    BY <1>0, <1>3, <2>1, ParentBelow DEF Tables
  <2>3. currentL1Head \in Block /\ canonicalBlocks = Anc[currentL1Head]
    BY Zenon, <1>0, <1>2 DEF Rooted, Branch, TypeOK
  <2>4. L1Proof(p) \in canonicalBlocks
    BY <1>2, <2>2, <2>3, AncTransitive
  <2>5. p \in canonicalBatches
    BY Zenon, <1>0, <2>4 DEF FlagsFollowL1, BatchesByBlock
  <2>6. p \notin toExecute
    <3>1. p \in Nat /\ i \in Nat
      BY Zenon, <1>0, BatchFacts
    <3> QED
      BY <1>1, <2>2, <3>1
  <2> QED
    BY Zenon, <1>1, <2>1, <2>5, <2>6
<1> QED
  BY Zenon, <1>1, <1>2, <1>3 DEF CanExecute

\* One turn of the loop of ExecuteStoredBatches.
LEMMA ExecuteStoredBatchKeeps ==
  ASSUME IInv, NEW i \in SeqNos, ExecuteStoredBatch(i)
  PROVE  IInv'
<1>0. TypeOK /\ Rooted /\ FlagsFollowL1 /\ Tables /\ GenesisExecuted /\ HeadExecuted /\ RollupLoop /\ ExecuteLoop
  BY Zenon DEF IInv
<1>1. /\ pc = "execute" /\ IsNext(i) /\ toExecute' = toExecute \ {i}
      /\ pc' = IF toExecute' = {} THEN "idle" ELSE "execute"
      /\ UNCHANGED <<forked, rollup, compressionL1Head>>
  BY Zenon DEF ExecuteStoredBatch
<1>2. i \in canonicalBatches /\ CanExecute(i)
  BY Zenon, <1>1, ParentFirst
<1>3. Execute(i)
  BY Zenon, <1>2 DEF ExecuteStoredBatch
<1>4. /\ executed' = executed \cup {i} /\ headBatchSeq' = i
      /\ UNCHANGED <<blocks, lastBlock, canonicalBlocks, batches, canonicalBatches, txTable, currentL1Head>>
  BY Zenon, <1>3 DEF Execute
<1>5. Tables' /\ GenesisExecuted'
  BY Zenon, <1>0, <1>2, <1>3, BatchExecuted DEF CanExecute
<1>6. Rooted' /\ Branch' = Branch
  BY Zenon, <1>0, <1>4, BlocksUnchanged
<1>7. toExecute' = canonicalBatches' \ executed'
  BY Zenon, <1>0, <1>1, <1>4 DEF ExecuteLoop
<1>8. TypeOK' /\ FlagsFollowL1'
  BY <1>0, <1>1, <1>2, <1>4 DEF TypeOK, FlagsFollowL1, BatchesByBlock, SeqNos, L1Proof
<1>9. HeadExecuted'
  BY Zenon, <1>2, <1>4 DEF HeadExecuted
<1>10. RollupLoop'
  BY Zenon, <1>0, <1>1, <1>6 DEF RollupLoop
<1>11. NoCrit' /\ ExecuteLoop' /\ CaughtUp'
  BY <1>1, <1>2, <1>4, <1>7 DEF NoCrit, ExecuteLoop, CaughtUp
<1> QED
  BY <1>5, <1>6, <1>8, <1>9, <1>10, <1>11 DEF IInv

\* The invariant holds, whatever arrives in whatever order and after crashes.
THEOREM Invariance == Spec => []IInv
<1>1. IInv /\ UNCHANGED vars => IInv'
  <2> SUFFICES ASSUME IInv, UNCHANGED vars PROVE IInv'
    BY Zenon
  <2>1. UNCHANGED dbVars /\ UNCHANGED <<executed, canonicalBatches, currentL1Head, headBatchSeq, pc, forked, rollup, compressionL1Head, toExecute>>
    BY Zenon DEF vars, dbVars, memVars, loopVars
  <2>2. TypeOK /\ NoCrit /\ HeadExecuted /\ RollupLoop /\ ExecuteLoop /\ CaughtUp /\ batches' = batches
    BY Zenon, <2>1 DEF IInv, dbVars
  <2>3. TypeOK' /\ Branch' = Branch
    BY Zenon, <2>1, <2>2, TablesKept DEF TypeOK
  <2>4. NoCrit' /\ HeadExecuted' /\ RollupLoop' /\ ExecuteLoop' /\ CaughtUp'
    BY Zenon, <2>1, <2>2, <2>3 DEF NoCrit, HeadExecuted, RollupLoop, ExecuteLoop, CaughtUp
  <2> QED
    BY Zenon, <2>1, <2>3, <2>4, TablesKept DEF IInv
<1>2. IInv /\ [Next]_vars => IInv'
  BY <1>1, SubmitL1BlockKeeps, SubmitBatchKeeps, ResubmitBatchKeeps, RollupBatchKeeps, RollupExecutedKeeps,
     EndRollupKeeps, FetchStoredBatchesKeeps, ExecuteStoredBatchKeeps, CrashKeeps
     DEF Next, Continue
<1> QED
  BY InitKeeps, <1>2, PTL DEF Spec
-----------------------------------------------------------------------------
(* What follows from the invariant.                                          *)

\* The tables, the caches and the loops of a validator always have their types.
THEOREM TypeCorrect == Spec => []TypeOK
<1>1. IInv => TypeOK
  BY DEF IInv
<1> QED
  BY <1>1, Invariance, PTL

\* Neither "invalid chaining" nor CheckCanonicalValidity ever stops a validator.
THEOREM NeverCritical == Spec => []NoCrit
<1>1. IInv => NoCrit
  BY Zenon DEF IInv
<1> QED
  BY <1>1, Invariance, PTL

\* The canonical flag of a batch is always the one of its L1 block.
THEOREM FlagsFollow == Spec => []FlagsFollowL1
<1>1. IInv => FlagsFollowL1
  BY Zenon DEF IInv
<1> QED
  BY <1>1, Invariance, PTL

\* Batches from peers, from rollups and from the table are executed parent first.
THEOREM ExecutionOrder == Spec => []ExecutedInOrder
<1>1. IInv => ExecutedInOrder
  BY Zenon DEF IInv, Tables
<1> QED
  BY <1>1, Invariance, PTL

\* ExecuteStoredBatches leaves no canonical batch behind, though it only asks for
\* the ones from the cached head batch on.
THEOREM NothingLeftBehind == Spec => []CaughtUp
<1>1. IInv => CaughtUp
  BY Zenon DEF IInv
<1> QED
  BY <1>1, Invariance, PTL
-----------------------------------------------------------------------------
(* The executed heights are a prefix of the ledger.                          *)

LedgerOf == [h \in {Height(i) : i \in executed} |-> txTable[h]]

\* A step that executes nothing does not show.
LEMMA LedgerUnchanged ==
  ASSUME executed' = executed, \A i \in executed : batches'[i] = batches[i],
         \A i \in executed : txTable'[Height(i)] = txTable[Height(i)]
  PROVE  LedgerOf' = LedgerOf
<1>1. {Height(i) : i \in executed}' = {Height(i) : i \in executed}
  BY Zenon DEF Height
<1>2. \A h \in {Height(i) : i \in executed} : txTable'[h] = txTable[h]
  BY Zenon
<1>3. LedgerOf' = [h \in {Height(i) : i \in executed}' |-> txTable'[h]]
  BY DEF LedgerOf
<1> HIDE DEF Height
<1> QED
  BY Zenon, <1>1, <1>2, <1>3 DEF LedgerOf

\* Executing a batch extends the ledger at its end, or its height was there.
LEMMA LedgerExtended ==
  ASSUME IInv, NEW seq \in canonicalBatches,
         seq = L2GenesisSeqNo \/ batches[seq].parent \in executed, Execute(seq)
  PROVE  Ledger!Next \/ LedgerOf' = LedgerOf
<1>0. TypeOK /\ Tables /\ seq \in SeqNos /\ executed \subseteq SeqNos
  BY Zenon, BatchFacts DEF IInv
<1>1. executed' = executed \cup {seq} /\ batches' = batches /\ txTable' = txTable
  BY Zenon DEF Execute
<1> DEFINE D == {Height(i) : i \in executed}
<1>2. {Height(i) : i \in executed}' = D \cup {Height(seq)}
  BY Zenon, <1>1 DEF Height
<1>3. LedgerOf' = [h \in D \cup {Height(seq)} |-> txTable[h]]
  BY Zenon, <1>1, <1>2 DEF LedgerOf
<1>4. LedgerOf = [h \in D |-> txTable[h]]
  BY Zenon DEF LedgerOf
<1>5. CASE Height(seq) \in D
  <2>1. D \cup {Height(seq)} = D
    BY Zenon, <1>5
  <2> QED
    BY Zenon, <1>3, <1>4, <2>1
<1>6. CASE Height(seq) \notin D
  <2>1. Height(seq) \in {0} \cup {h + 1 : h \in D}
    <3>1. CASE seq = L2GenesisSeqNo
      BY <1>0, <3>1 DEF Tables, SequencerHistory, Height, SeqNos, L2GenesisHeight
    <3>2. CASE seq # L2GenesisSeqNo
      <4>1. PICK p \in executed : p = batches[seq].parent
        BY Zenon, <3>2
      <4>2. Height(seq) = Height(p) + 1 /\ Height(p) \in D
        BY Zenon, <1>0, <3>2, <4>1, ParentBelow DEF Tables
      <4> QED
        BY Zenon, <4>2
    <3> QED
      BY <3>1, <3>2
  <2>2. txTable[Height(seq)] \in Txs \cup {NoTxs, SystemTxs}
    BY Zenon, <1>0, BatchFacts DEF Tables, TransactionsStored
  <2> HIDE DEF D
  <2>3. DOMAIN LedgerOf = D
    BY Zenon, <1>4
  <2>4. Height(seq) \in Ledger!Free
    BY <1>4, <1>6, <2>1, <2>3 DEF Ledger!Free, LedgerOf
  <2>5. Ledger!Extend(Height(seq), txTable[Height(seq)])
    <3>1. LedgerOf' = [h \in DOMAIN LedgerOf \cup {Height(seq)} |->
                         IF h = Height(seq) THEN txTable[Height(seq)] ELSE LedgerOf[h]]
      BY <1>3, <1>4, <1>6, <2>3
    <3> QED
      BY Zenon, <3>1 DEF Ledger!Extend, LedgerOf
  <2> QED
    BY Zenon, <2>2, <2>4, <2>5 DEF Ledger!Next, Ledger!Extend
<1> QED
  BY Zenon, <1>5, <1>6

\* Every step of a validator extends the ledger or does not show.
LEMMA StepRefines ==
  ASSUME IInv, [Next]_vars
  PROVE  Ledger!Next \/ LedgerOf' = LedgerOf
<1>0. TypeOK /\ Rooted /\ FlagsFollowL1 /\ Tables /\ RollupLoop /\ executed \subseteq SeqNos
  BY Zenon, BatchFacts DEF IInv
<1>1. ASSUME UNCHANGED <<batches, executed, txTable>> PROVE LedgerOf' = LedgerOf
  BY Zenon, <1>1, LedgerUnchanged
<1>2. ASSUME NEW seq \in 1 .. MaxSeqNo, seq \notin SeqNos, NEW b \in SequencerBatches(seq), StoreBatch(seq, b)
      PROVE  LedgerOf' = LedgerOf
  <2>1. executed' = executed
    BY Zenon, <1>2 DEF StoreBatch
  <2>2. \A i \in SeqNos : batches'[i] = batches[i] /\ txTable'[Height(i)] = txTable[Height(i)]
    BY Zenon, <1>0, <1>2, StoredFacts, BatchStored
  <2> QED
    BY Zenon, <1>0, <2>1, <2>2, LedgerUnchanged
<1>3. ASSUME NEW b \in Block, SubmitL1Block(b) PROVE LedgerOf' = LedgerOf
  BY Zenon, <1>1, <1>3 DEF SubmitL1Block, StoreBlock, Crit, dbVars
<1>4. ASSUME NEW seq \in 1 .. MaxSeqNo, SubmitBatch(seq) PROVE LedgerOf' = LedgerOf
  BY Zenon, <1>1, <1>2, <1>4 DEF SubmitBatch, Crit, dbVars
<1>5. ASSUME NEW seq \in 1 .. MaxSeqNo, NEW b \in SequencerBatches(seq), RollupBatch(seq, b)
      PROVE  LedgerOf' = LedgerOf
  BY Zenon, <1>1, <1>2, <1>5 DEF RollupBatch, NextInRollup, Crit, dbVars
<1>6. ASSUME RollupExecuted PROVE Ledger!Next \/ LedgerOf' = LedgerOf
  <2>1. PICK seq \in rollup : (\A i \in rollup : seq <= i) /\ Execute(seq)
    BY Zenon, <1>6 DEF RollupExecuted
  <2>2. seq \in canonicalBatches /\ (seq = L2GenesisSeqNo \/ batches[seq].parent \in executed)
    BY Zenon, <1>0, <1>6, <2>1 DEF RollupLoop, RollupExecuted
  <2> QED
    BY Zenon, <2>1, <2>2, LedgerExtended
<1>7. ASSUME NEW i \in SeqNos, ExecuteStoredBatch(i) PROVE Ledger!Next \/ LedgerOf' = LedgerOf
  <2>1. i \in canonicalBatches /\ CanExecute(i)
    BY Zenon, <1>7, ParentFirst DEF ExecuteStoredBatch
  <2> QED
    BY Zenon, <1>7, <2>1, LedgerExtended DEF ExecuteStoredBatch, CanExecute
<1>8. ASSUME ResubmitBatch \/ EndRollup \/ FetchStoredBatches \/ Crash \/ UNCHANGED vars
      PROVE  LedgerOf' = LedgerOf
  BY Zenon, <1>1, <1>8 DEF ResubmitBatch, EndRollup, FetchStoredBatches, Crash, vars, dbVars
<1> QED
  BY <1>3, <1>4, <1>5, <1>6, <1>7, <1>8 DEF Next, Continue

\* A validator implements the append-only ledger the sequencer implements: what
\* it executed at a height never changes and no height is left out.
THEOREM LedgerImplemented == Spec => ImplementsLedger
<1>1. Init => Ledger!Init
  <2> SUFFICES ASSUME Init PROVE Ledger!Init
    OBVIOUS
  <2>1. executed = {}
    BY DEF Init
  <2> QED
    BY Zenon, <2>1 DEF Ledger!Init
<1>2. IInv /\ [Next]_vars => [Ledger!Next]_LedgerOf
  BY StepRefines
<1> QED
  BY <1>1, <1>2, Invariance, PTL DEF Spec, ImplementsLedger, Ledger!Spec, LedgerOf
=============================================================================
