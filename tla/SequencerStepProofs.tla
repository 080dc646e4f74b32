------------------------ MODULE SequencerStepProofs -------------------------
(***************************************************************************)
(* Every step of the sequencer's enclave keeps the invariant: first how    *)
(* storing a block and storing a batch change the tables, then ingesting   *)
(* an L1 block with a fork and without, executing a batch, the loop of     *)
(* duplicateBatches, new batches, a restart.                               *)
(***************************************************************************)
EXTENDS SequencerInvariant, LCA, TLAPS
-----------------------------------------------------------------------------
(* The ancestors of L1 blocks.                                               *)

\* What following ParentHash from b can reach.
LEMMA AncFacts ==
  ASSUME NEW b \in Block
  PROVE  /\ b \in Anc[b]
         /\ Anc[b] \subseteq Block
         /\ \A a \in Anc[b] : Anc[a] \subseteq Anc[b] /\ (a # b => Number[a] < Number[b])
         /\ \A a, c \in Anc[b] : Number[a] <= Number[c] => a \in Anc[c]
         /\ Parent[b] \in Block => /\ Parent[b] \in Anc[b]
                                   /\ Anc[b] \ Anc[Parent[b]] = {b}
                                   /\ Number[b] = Number[Parent[b]] + 1
         /\ Number[b] \in Nat
<1>1. b \in Anc[b] /\ Anc[b] \subseteq Block /\ Number[b] \in Nat
  BY HeadersAssumption, AncestorsAssumption
<1>2. \A a \in Anc[b] : Anc[a] \subseteq Anc[b] /\ (a # b => Number[a] < Number[b])
  BY AncestorsAssumption, Zenon
<1>3. \A a, c \in Anc[b] : Number[a] <= Number[c] => a \in Anc[c]
  BY AncestorsAssumption, Zenon
<1>4. ASSUME Parent[b] \in Block
      PROVE  /\ Parent[b] \in Anc[b]
             /\ Anc[b] \ Anc[Parent[b]] = {b}
             /\ Number[b] = Number[Parent[b]] + 1
  <2>1. Number[b] = Number[Parent[b]] + 1 /\ Number[Parent[b]] \in Nat
    BY <1>4, HeadersAssumption, Zenon
  <2>2. Anc[b] = {b} \cup Anc[Parent[b]]
    BY <1>4, AncestorsAssumption, Zenon
  <2>3. Parent[b] \in Anc[Parent[b]]
    BY <1>4, AncestorsAssumption
  <2>4. b \notin Anc[Parent[b]]
    <3>1. \A a \in Anc[Parent[b]] : a # Parent[b] => Number[a] < Number[Parent[b]]
      BY <1>4, AncestorsAssumption, Zenon
    <3> QED
      BY <2>1, <3>1
  <2> QED
    BY <2>1, <2>2, <2>3, <2>4, Zenon
<1> QED
  BY <1>1, <1>2, <1>3, <1>4, Zenon

\* Two ancestors of a block are on one path.
LEMMA AncComparable ==
  ASSUME NEW b \in Block, NEW a \in Anc[b], NEW c \in Anc[b]
  PROVE  a \in Anc[c] \/ c \in Anc[a]
<1>1. a \in Block /\ c \in Block
  BY AncFacts, Zenon
<1>2. Number[a] \in Nat /\ Number[c] \in Nat
  BY <1>1, AncFacts, Zenon
<1>3. Number[a] <= Number[c] \/ Number[c] <= Number[a]
  BY <1>2
<1> QED
  BY <1>3, AncFacts, Zenon

\* No two blocks are ancestors of each other.
LEMMA AncAntisymmetric ==
  ASSUME NEW a \in Block, NEW b \in Block, a \in Anc[b], b \in Anc[a]
  PROVE  a = b
<1>1. Number[a] \in Nat /\ Number[b] \in Nat
  BY AncFacts, Zenon
<1>2. a # b => Number[a] < Number[b] /\ Number[b] < Number[a]
  BY AncFacts, Zenon
<1> QED
  BY <1>1, <1>2

\* An ancestor's ancestors are ancestors.
LEMMA AncTransitive ==
  ASSUME NEW b \in Block, NEW a \in Anc[b], NEW c \in Anc[a]
  PROVE  c \in Anc[b]
  BY AncFacts, Zenon

-----------------------------------------------------------------------------
(* What gethutil.LCA returns, for every tree of L1 blocks and every pair of  *)
(* heads.  The two paths are what has been walked so far, and no block of one *)
(* path lies below the other head.                                           *)

\* The blocks walked past on one side are not ancestors of the other head.
Walk ==
  /\ newCanonical \in Anc[args[1]]
  /\ oldCanonical \in Anc[args[2]]
  /\ canonicalPath \ {newCanonical} = Anc[args[1]] \ Anc[newCanonical]
  /\ nonCanonicalPath = Anc[args[2]] \ Anc[oldCanonical]
  /\ (Anc[args[1]] \ Anc[newCanonical]) \cap Anc[args[2]] = {}
  /\ (Anc[args[2]] \ Anc[oldCanonical]) \cap Anc[args[1]] = {}
  /\ result = "walking" => newCanonical \notin canonicalPath

\* Either head above the L1 genesis block: the walk reaches it on both sides
\* at once.
Level ==
  AboveGenesis =>
    /\ AtGenesis => newCanonical = oldCanonical
    /\ result = "found" => newCanonical = oldCanonical
    /\ result = "found" =>
         (newCanonical \in canonicalPath <=> Number[newCanonical] # L1GenesisHeight)
    /\ Number[newCanonical] # Number[oldCanonical] =>
         Number[newCanonical] # 0 /\ Number[oldCanonical] # 0

LCAInv == LCATypeOK /\ Walk /\ Level

\* The block that steps down is not an ancestor of the other head.
LEMMA SteppingBlocks ==
  ASSUME LCATypeOK, Walk, Walking
  PROVE  /\ StepNew => newCanonical \notin Anc[args[2]]
         /\ StepOld => oldCanonical \notin Anc[args[1]]
<1>1. args[1] \in Block /\ args[2] \in Block /\ newCanonical \in Block /\ oldCanonical \in Block
  BY StoredAssumption, Zenon DEF LCATypeOK
<1>2. ASSUME StepNew, newCanonical \in Anc[args[2]] PROVE FALSE
  <2>1. oldCanonical \in Anc[newCanonical] /\ newCanonical # oldCanonical
    BY <1>1, <1>2, AncFacts, Zenon DEF Walk, StepNew, Walking
  <2>2. newCanonical \notin Anc[oldCanonical]
    BY <1>1, <2>1, AncFacts
  <2> QED
    BY <1>2, <2>2, Zenon DEF Walk
<1>3. ASSUME StepOld, oldCanonical \in Anc[args[1]] PROVE FALSE
  <2>1. newCanonical \in Anc[oldCanonical] /\ newCanonical # oldCanonical
    BY <1>1, <1>3, AncFacts, Zenon DEF Walk, StepOld, Walking
  <2>2. oldCanonical \notin Anc[newCanonical]
    BY <1>1, <2>1, AncFacts
  <2> QED
    BY <1>3, <2>2, Zenon DEF Walk
<1> QED
  BY <1>2, <1>3, Zenon

\* If the fork is stored down to the highest common ancestor, the parent of a
\* block on one side of it is stored.
LEMMA ParentOnFork ==
  ASSUME NEW f1 \in Block, NEW f2 \in Block, NEW n \in Anc[f1],
         n \notin Anc[f2],
         Anc[f1] \ Anc[f2] \subseteq Stored,
         NEW a \in Stored, a \in Anc[f1], a \in Anc[f2],
         \A c \in Anc[f1] \cap Anc[f2] : Number[c] <= Number[a]
  PROVE  Parent[n] \in Stored
<1>1. n \in Block /\ a \in Block /\ Number[n] \in Nat /\ Number[a] \in Nat
  BY AncFacts, StoredAssumption, Zenon
<1>2. Number[a] < Number[n]
  <2> SUFFICES ASSUME Number[n] <= Number[a] PROVE FALSE
    BY <1>1
  <2>1. n \in Anc[a]
    BY AncFacts, Zenon
  <2> QED
    BY <2>1, AncFacts, Zenon
<1>3. a \in Anc[n]
  BY <1>1, <1>2, AncFacts
<1>4. CASE Parent[n] \notin Block
  <2>1. Anc[n] = {n}
    BY <1>1, <1>4, AncestorsAssumption
  <2> QED
    BY <1>1, <1>2, <1>3, <2>1, Zenon
<1>5. CASE Parent[n] \in Block
  <2>1. Parent[n] \in Anc[f1]
    BY <1>1, <1>5, AncFacts, Zenon
  <2>2. CASE Parent[n] \notin Anc[f2]
    BY <2>1, <2>2, Zenon
  <2>3. CASE Parent[n] \in Anc[f2]
    <3>1. Number[Parent[n]] <= Number[a] /\ Number[Parent[n]] + 1 = Number[n] /\ Number[Parent[n]] \in Nat
      BY <1>1, <1>5, <2>1, <2>3, AncFacts, Zenon
    <3>2. a \in Anc[Parent[n]]
      BY <1>1, <1>2, <1>3, <1>5, <3>1, AncFacts
    <3>3. a = Parent[n]
      BY <1>1, <1>5, <3>1, <3>2, AncFacts
    <3> QED
      BY <3>3, Zenon
  <2> QED
    BY <2>2, <2>3, Zenon
<1> QED
  BY <1>4, <1>5, Zenon

\* The loop invariant.
LEMMA LCAInductive == LCASpec => []LCAInv
<1>1. LCAInit => LCAInv
  <2> SUFFICES ASSUME LCAInit PROVE LCAInv
    OBVIOUS
  <2>1. LCATypeOK
    BY Zenon DEF LCAInit, LCATypeOK
  <2>2. args[1] \in Block /\ args[2] \in Block
    BY StoredAssumption, Zenon DEF LCAInit
  <2>3. Walk
    BY <2>2, AncFacts, Zenon DEF LCAInit, Walk
  <2>4. Level
    BY <2>2, GenesisAssumption, Zenon DEF LCAInit, Level, AboveGenesis, AtGenesis, L1GenesisHeight
  <2> QED
    BY <2>1, <2>3, <2>4, Zenon DEF LCAInv
<1>2. LCAInv /\ [LCANext]_lcaVars => LCAInv'
  <2> SUFFICES ASSUME LCAInv, [LCANext]_lcaVars PROVE LCAInv'
    OBVIOUS
  <2> USE DEF LCAInv
  <2>1. args[1] \in Block /\ args[2] \in Block /\ newCanonical \in Block /\ oldCanonical \in Block
    BY StoredAssumption, Zenon DEF LCATypeOK
  <2>2. CASE StopAtGenesis
    BY <2>2, <2>1, AncFacts, Zenon DEF StopAtGenesis, LCATypeOK, Walk, Level, AboveGenesis, AtGenesis, L1GenesisHeight
  <2>3. CASE StopAtAncestor
    BY <2>3, <2>1, AncFacts DEF StopAtAncestor, LCATypeOK, Walk, Level, AboveGenesis, AtGenesis, L1GenesisHeight
  <2>4. CASE StepDown
    <3> USE <2>4
    <3>1. StepNew => /\ Parent[newCanonical] \in Stored /\ Parent[newCanonical] \in Block
                     /\ newCanonical \notin Anc[args[2]]
      BY SteppingBlocks, StoredAssumption, Zenon DEF StepDown, ParentsStored
    <3>2. StepOld => /\ Parent[oldCanonical] \in Stored /\ Parent[oldCanonical] \in Block
                     /\ oldCanonical \notin Anc[args[1]]
      BY SteppingBlocks, StoredAssumption, Zenon DEF StepDown, ParentsStored
    <3>3. LCATypeOK'
      BY <3>1, <3>2, Zenon DEF StepDown, LCATypeOK
    <3>4. Walk'
      <4>1. /\ StepNew => /\ newCanonical' = Parent[newCanonical]
                          /\ Anc[newCanonical] \ Anc[newCanonical'] = {newCanonical}
                          /\ newCanonical' \in Anc[args[1]]
                          /\ Anc[newCanonical'] \subseteq Anc[newCanonical]
            /\ StepOld => /\ oldCanonical' = Parent[oldCanonical]
                          /\ Anc[oldCanonical] \ Anc[oldCanonical'] = {oldCanonical}
                          /\ oldCanonical' \in Anc[args[2]]
                          /\ Anc[oldCanonical'] \subseteq Anc[oldCanonical]
        BY <2>1, <3>1, <3>2, AncFacts DEF StepDown, Walk
      <4>2. /\ Anc[newCanonical] \subseteq Anc[args[1]] /\ newCanonical \in Anc[newCanonical]
            /\ Anc[oldCanonical] \subseteq Anc[args[2]] /\ oldCanonical \in Anc[oldCanonical]
        BY <2>1, AncFacts, Zenon DEF Walk
      <4>3. newCanonical' \notin canonicalPath'
        <5>1. CASE StepNew
          <6>1. newCanonical' \in Anc[newCanonical'] /\ newCanonical' # newCanonical
            BY <5>1, <2>1, <3>1, <4>1, AncFacts, Zenon
          <6> QED
            BY <5>1, <6>1, <4>1, Zenon DEF StepDown, Walking, Walk
        <5>2. CASE ~StepNew
          BY <5>2 DEF StepDown, Walking, Walk
        <5> QED
          BY <5>1, <5>2, Zenon
      <4> QED
        BY <3>1, <3>2, <4>1, <4>2, <4>3 DEF StepDown, Walking, Walk
    <3>5. Level'
      <4>1. Number[newCanonical] \in Nat /\ Number[oldCanonical] \in Nat
        BY <2>1, AncFacts, Zenon
      <4>2. newCanonical' \in Block /\ oldCanonical' \in Block
        BY <3>3, StoredAssumption, Zenon DEF LCATypeOK
      <4>3. /\ StepNew => Number[newCanonical] = Number[newCanonical'] + 1
            /\ StepOld => Number[oldCanonical] = Number[oldCanonical'] + 1
            /\ Number[newCanonical'] \in Nat /\ Number[oldCanonical'] \in Nat
        BY <2>1, <3>1, <3>2, <4>2, AncFacts, Zenon DEF StepDown
      <4>4. result' = "walking" /\ args' = args
        BY Zenon DEF StepDown, Walking
      <4>5. Number[newCanonical] # 0 /\ Number[oldCanonical] # 0
        BY Zenon DEF StepDown, Walking, AtGenesis, L1GenesisHeight
      <4>6. /\ ~StepNew => newCanonical' = newCanonical
            /\ ~StepOld => oldCanonical' = oldCanonical
        BY Zenon DEF StepDown
      <4>7. Number[newCanonical'] # Number[oldCanonical'] =>
              Number[newCanonical'] # 0 /\ Number[oldCanonical'] # 0
        BY <4>1, <4>3, <4>5, <4>6 DEF StepNew, StepOld
      <4>8. AtGenesis' => newCanonical' = oldCanonical'
        BY <4>2, <4>7, GenesisAssumption, Zenon DEF AtGenesis, L1GenesisHeight
      <4> QED
        BY <4>4, <4>7, <4>8, Zenon DEF Level
    <3> QED
      BY <3>3, <3>4, <3>5, Zenon
  <2>5. CASE MissingParent
    BY <2>5, Zenon DEF MissingParent, Walking, LCATypeOK, Walk, Level, AboveGenesis, AtGenesis, L1GenesisHeight
  <2>6. CASE UNCHANGED lcaVars
    BY <2>6, Zenon DEF lcaVars, LCATypeOK, Walk, Level, AboveGenesis, AtGenesis, L1GenesisHeight
  <2> QED
    BY <2>2, <2>3, <2>4, <2>5, <2>6, Zenon DEF LCANext
<1> QED
  BY <1>1, <1>2, PTL DEF LCASpec

\* gethutil.LCA never leaves the blocks the resolver returned.
THEOREM LCATypeCorrect == LCASpec => []LCATypeOK
<1>1. LCAInv => LCATypeOK
  BY Zenon DEF LCAInv
<1> QED
  BY <1>1, LCAInductive, PTL

\* When LCA returns, its paths are exactly the two sides of the fork.
THEOREM LCACorrect == LCASpec => []PathsAreTheFork
<1>1. LCAInv => PathsAreTheFork
  <2> SUFFICES ASSUME LCAInv, result = "found", AboveGenesis
               PROVE  LET common == Anc[args[1]] \cap Anc[args[2]]
                      IN  /\ newCanonical \in common
                          /\ \A a \in common : Number[a] <= Number[newCanonical]
                          /\ nonCanonicalPath = Anc[args[2]] \ Anc[args[1]]
                          /\ canonicalPath \cup {newCanonical}
                               = (Anc[args[1]] \ Anc[args[2]]) \cup {newCanonical}
                          /\ newCanonical \in canonicalPath
                               <=> Number[newCanonical] # L1GenesisHeight
    BY Zenon DEF PathsAreTheFork
  <2>1. newCanonical = oldCanonical /\ newCanonical \in Block /\ args[1] \in Block /\ args[2] \in Block
    BY StoredAssumption, Zenon DEF LCAInv, LCATypeOK, Level
  <2>2. Anc[args[1]] \cap Anc[args[2]] = Anc[newCanonical]
    BY <2>1, AncFacts, Zenon DEF LCAInv, Walk
  <2>3. \A a \in Anc[newCanonical] : Number[a] <= Number[newCanonical]
    BY <2>1, AncFacts
  <2>4. newCanonical \in Anc[newCanonical]
    BY <2>1, AncFacts, Zenon
  <2>5. nonCanonicalPath = Anc[args[2]] \ Anc[args[1]]
    BY <2>1, <2>2, Zenon DEF LCAInv, Walk
  <2>6. canonicalPath \cup {newCanonical} = (Anc[args[1]] \ Anc[args[2]]) \cup {newCanonical}
    BY <2>1, <2>2, Zenon DEF LCAInv, Walk
  <2> QED
    BY <2>2, <2>3, <2>4, <2>5, <2>6, Zenon DEF LCAInv, Level
<1> QED
  BY <1>1, LCAInductive, PTL

\* LCA reports an error only if a block of the fork is not stored.
THEOREM LCAErrorCorrect == LCASpec => []ErrorMeansGap
<1>1. LCAInv /\ ErrorMeansGap /\ [LCANext]_lcaVars => ErrorMeansGap'
  <2> SUFFICES ASSUME LCAInv, ErrorMeansGap, [LCANext]_lcaVars PROVE ErrorMeansGap'
    OBVIOUS
  <2>1. CASE MissingParent
    <3> SUFFICES ASSUME Anc[args[1]] \ Anc[args[2]] \subseteq Stored,
                        Anc[args[2]] \ Anc[args[1]] \subseteq Stored,
                        NEW a \in Stored, a \in Anc[args[1]], a \in Anc[args[2]],
                        \A c \in Anc[args[1]] \cap Anc[args[2]] : Number[c] <= Number[a]
                 PROVE  FALSE
      BY <2>1, Zenon DEF MissingParent, ErrorMeansGap
    <3>1. args[1] \in Block /\ args[2] \in Block
      BY StoredAssumption, Zenon DEF LCAInv, LCATypeOK
    <3>2. StepNew => Parent[newCanonical] \in Stored
      BY <2>1, <3>1, SteppingBlocks, ParentOnFork DEF LCAInv, Walk, MissingParent
    <3>3. StepOld => Parent[oldCanonical] \in Stored
      <4>1. \A c \in Anc[args[2]] \cap Anc[args[1]] : Number[c] <= Number[a]
        OBVIOUS
      <4> QED
        BY <2>1, <3>1, <4>1, SteppingBlocks, ParentOnFork DEF LCAInv, Walk, MissingParent
    <3> QED
      BY <2>1, <3>2, <3>3, Zenon DEF MissingParent, ParentsStored
  <2>2. CASE ~MissingParent
    BY <2>2, Zenon DEF LCANext, lcaVars, ErrorMeansGap, StopAtGenesis, StopAtAncestor, StepDown
  <2> QED
    BY <2>1, <2>2, Zenon
<1>2. LCAInit => ErrorMeansGap
  BY Zenon DEF LCAInit, ErrorMeansGap
<1> QED
  BY <1>1, <1>2, LCAInductive, PTL DEF LCASpec

-----------------------------------------------------------------------------
\* The rows of table batch.
LEMMA BatchFacts ==
  ASSUME TypeOK
  PROVE  /\ Len(batches) \in Nat
         /\ SeqNos = 1 .. Len(batches)
         /\ \A i \in SeqNos : /\ Height(i) \in Nat
                               /\ L1Proof(i) \in Block
                               /\ batches[i].parent \in Nat
                               /\ batches[i].txs \in Txs \cup {NoTxs, SystemTxs}
<1>1. batches \in Seq(Batch)
  BY Zenon DEF TypeOK
<1>2. Len(batches) \in Nat /\ SeqNos = 1 .. Len(batches)
  BY <1>1 DEF SeqNos
<1>3. \A i \in SeqNos : batches[i] \in Batch
  BY <1>1, <1>2
<1> QED
  BY <1>2, <1>3, Zenon DEF Height, L1Proof, Batch

\* Along a branch there is one batch per height.
LEMMA OnePerHeight ==
  ASSUME TypeOK, Layered, NEW b \in Block, NEW i \in SeqNos, NEW j \in SeqNos,
         L1Proof(i) \in Anc[b], L1Proof(j) \in Anc[b], Height(i) = Height(j)
  PROVE  i = j
<1>1. L1Proof(i) \in Anc[L1Proof(j)] \/ L1Proof(j) \in Anc[L1Proof(i)]
  BY AncComparable, Zenon
<1> QED
  BY <1>1, Zenon DEF Layered

\* Along a branch, a batch of a later block is higher.
LEMMA LaterIsHigher ==
  ASSUME TypeOK, Layered, Filled, NEW i \in SeqNos, NEW j \in SeqNos,
         L1Proof(i) \in Anc[L1Proof(j)], L1Proof(i) # L1Proof(j)
  PROVE  Height(i) < Height(j)
<1>1. Height(i) \in Nat /\ Height(j) \in Nat /\ L1Proof(i) \in Block /\ L1Proof(j) \in Block
  BY BatchFacts, Zenon
<1>2. ASSUME Height(j) <= Height(i) PROVE FALSE
  <2>1. PICK k \in SeqNos : Height(k) = Height(j) /\ L1Proof(k) \in Anc[L1Proof(i)]
    BY <1>1, <1>2 DEF Filled
  <2>2. L1Proof(k) \in Anc[L1Proof(j)]
    BY <1>1, <2>1, AncTransitive, Zenon
  <2>3. k = j
    BY <2>1, <2>2, Zenon DEF Layered
  <2> QED
    BY <1>1, <2>1, <2>3, AncAntisymmetric, Zenon
<1> QED
  BY <1>1, <1>2
-----------------------------------------------------------------------------
(* Ingesting an L1 block.                                                    *)

\* A block ingested without a fork is new and extends the head: the "weird
\* fork" ingestBlock logs does not happen.
LEMMA PlainBlock ==
  ASSUME TypeOK, Linked, NEW b \in Block, IsTip(b), Ingestible(b), ~PreGenesis, ~IsFork(b)
  PROVE  Extends(b) /\ b \notin blocks /\ Anc[b] = Anc[currentL1Head] \cup {b}
<1> DEFINE H == currentL1Head
<1>1. H \in Block /\ H \in blocks
  BY Zenon DEF TypeOK, Linked, PreGenesis
<1>2. H \in Anc[H]
  BY <1>1, AncFacts, Zenon
<1>3. Extends(b)
  <2> SUFFICES ASSUME ~Extends(b) PROVE FALSE
    OBVIOUS
  <2>1. NonCanonicalPath(b) = {} /\ Resolvable(b) /\ b # H
    BY Zenon DEF IsFork, Ingestible
  <2>2. H \in Anc[b]
    BY <1>2, <2>1, Zenon DEF NonCanonicalPath
  <2>3. Parent[b] \in Block /\ H \in Anc[Parent[b]]
    BY <1>1, <2>1, <2>2, AncestorsAssumption
  <2>4. Parent[b] # H
    BY Zenon DEF Extends
  <2>5. Parent[b] \notin Anc[H]
    BY <1>1, <2>3, <2>4, AncAntisymmetric, Zenon
  <2>6. Parent[b] \in Anc[b] /\ Parent[b] # b
    BY <2>3, AncFacts, Zenon
  <2>7. Parent[b] \in blocks
    BY <2>1, <2>5, <2>6, Zenon DEF Resolvable, CanonicalPath
  <2> QED
    BY <2>3, <2>4, <2>7, Zenon DEF Linked
<1>4. Anc[b] = Anc[H] \cup {b} /\ b # H
  BY <1>1, <1>3, AncFacts, AncestorsAssumption DEF Extends
<1>5. b \notin blocks
  BY <1>2, <1>4, Zenon DEF Linked
<1> QED
  BY <1>3, <1>4, <1>5, Zenon

\* A block that forks brings no gap: its branch is stored down to a block both
\* branches share.
LEMMA ForkingBlock ==
  ASSUME TypeOK, Linked, NEW b \in Block, IsTip(b), Ingestible(b), IsFork(b)
  PROVE  /\ currentL1Head \in Block /\ currentL1Head \in blocks
         /\ b \notin Anc[currentL1Head]
         /\ Anc[b] \ Anc[currentL1Head] \subseteq blocks \cup {b}
         /\ Anc[currentL1Head] \ Anc[b] \subseteq blocks
         /\ CommonAncestor(b) # {}
         /\ CommonAncestor(b) \subseteq Anc[b] \cap Anc[currentL1Head] \cap blocks
         /\ Adopted(b) = (Anc[b] \ Anc[currentL1Head]) \cup CommonAncestor(b)
         /\ Orphaned(b) = Anc[currentL1Head] \ Anc[b]
<1> DEFINE H == currentL1Head
<1>1. H \in Block /\ H \in blocks
  BY Zenon DEF TypeOK, Linked, PreGenesis, IsFork
<1>2. Resolvable(b) /\ b # H
  BY Zenon DEF IsFork, Ingestible
<1>3. Anc[H] \ Anc[b] \subseteq blocks
  BY <1>2, Zenon DEF Resolvable, NonCanonicalPath
<1>4. Anc[b] \ Anc[H] \subseteq blocks \cup {b}
  BY <1>2, Zenon DEF Resolvable, CanonicalPath
<1>5. b \notin Anc[H]
  BY <1>1, <1>2, Zenon DEF IsTip
<1>6. CommonAncestor(b) # {} /\ CommonAncestor(b) \subseteq Anc[b] \cap Anc[H]
  BY <1>2, Zenon DEF Resolvable, CommonAncestor
<1>7. CommonAncestor(b) \subseteq blocks
  BY <1>2, <1>5, <1>6, Zenon DEF Resolvable, CanonicalPath
<1> QED
  BY <1>1, <1>3, <1>4, <1>5, <1>6, <1>7, Zenon DEF Adopted, Orphaned, CanonicalPath, NonCanonicalPath

\* What is left to show for a new head.
LEMMA JoinBlock ==
  ASSUME Linked, NEW b \in Block, IsTip(b), blocks' = blocks \cup {b}, currentL1Head' = b,
         \A c \in blocks : Joined(b, c, blocks') /\ Joined(c, b, blocks'),
         canonicalBlocks' = Branch' \cap blocks'
  PROVE  Linked'
<1>1. b # NoBlock /\ b \in Anc[b]
  BY HeadersAssumption, AncFacts, Zenon
<1>2. \A c \in blocks' : b \in Anc[c] => c = b
  BY Zenon DEF IsTip
<1>3. Joined(b, b, blocks')
  BY <1>1, Zenon DEF Joined
<1>4. ASSUME NEW c \in blocks, NEW d \in blocks PROVE Joined(c, d, blocks')
  <2>1. Joined(c, d, blocks)
    BY Zenon DEF Linked
  <2> QED
    BY <2>1, Zenon DEF Joined
<1>5. \A c, d \in blocks' : Joined(c, d, blocks')
  BY <1>3, <1>4, Zenon
<1> QED
  BY Zenon, <1>1, <1>2, <1>5 DEF Linked

\* A stored block leaves canonical exactly the batches of its branch.
LEMMA CanonicalWith ==
  ASSUME TypeOK, Linked, Chained, Flags, NEW b \in Block, IsTip(b), Ingestible(b)
  PROVE  CanonicalBatchesWith(b) = {i \in SeqNos : L1Proof(i) \in Anc[b]}
<1> DEFINE H == currentL1Head
<1>0. b \in Anc[b]
  BY AncFacts, Zenon
<1>1. canonicalBatches = {i \in SeqNos : L1Proof(i) \in Branch} /\ \A i \in SeqNos : L1Proof(i) \in blocks
  BY Zenon DEF Flags, Chained
<1>2. CASE PreGenesis
  <2>1. SeqNos = {} /\ canonicalBatches = {}
    BY <1>1, <1>2, Zenon DEF PreGenesis, Linked
  <2> QED
    BY <2>1, Zenon DEF CanonicalBatchesWith, BatchesByBlock
<1>3. CASE ~PreGenesis /\ ~IsFork(b)
  <2>1. Branch = Anc[H]
    BY <1>3, Zenon DEF PreGenesis, Branch
  <2>2. b \notin blocks /\ Anc[b] = Anc[H] \cup {b}
    BY <1>3, PlainBlock, Zenon
  <2>3. Adopted(b) = {b} /\ Orphaned(b) = {}
    BY <1>3, Zenon DEF Adopted, Orphaned
  <2> QED
    BY <1>1, <2>1, <2>2, <2>3, Zenon DEF CanonicalBatchesWith, BatchesByBlock
<1>4. CASE IsFork(b)
  <2>1. /\ b \notin Anc[H]
        /\ CommonAncestor(b) \subseteq Anc[b] \cap Anc[H] \cap blocks
        /\ Adopted(b) = (Anc[b] \ Anc[H]) \cup CommonAncestor(b)
        /\ Orphaned(b) = Anc[H] \ Anc[b]
    BY <1>4, ForkingBlock, Zenon
  <2>2. Branch = Anc[H]
    BY <1>4, Zenon DEF Branch, IsFork, PreGenesis
  <2> QED
    BY <1>0, <1>1, <2>1, <2>2, Zenon DEF CanonicalBatchesWith, BatchesByBlock
<1> QED
  BY <1>2, <1>3, <1>4, Zenon

\* A stored block keeps the blocks linked, and exactly its branch canonical.
LEMMA BlockStored ==
  ASSUME TypeOK, Linked, NEW b \in Block, IsTip(b), Ingestible(b),
         blocks' = blocks \cup {b},
         canonicalBlocks' = (canonicalBlocks \ Orphaned(b)) \cup Adopted(b),
         currentL1Head' = b
  PROVE  Linked'
<1> DEFINE H == currentL1Head
<1>0. b # NoBlock /\ b \in Anc[b] /\ Anc[b] \subseteq Block
  BY HeadersAssumption, AncFacts, Zenon
<1>1. Branch' = Anc[b]
  BY <1>0, Zenon DEF Branch
<1>3. CASE PreGenesis
  <2>1. blocks = {} /\ canonicalBlocks = {} /\ ~IsFork(b)
    BY <1>3, Zenon DEF PreGenesis, Linked, IsFork
  <2>2. Adopted(b) = {b} /\ Orphaned(b) = {}
    BY <2>1, Zenon DEF Adopted, Orphaned
  <2> QED
    BY <1>1, <2>1, <2>2, <1>0, JoinBlock, Zenon
<1>4. CASE ~PreGenesis /\ ~IsFork(b)
  <2>1. H \in Block /\ H \in blocks /\ Branch = Anc[H]
    BY Zenon, <1>4 DEF TypeOK, Linked, PreGenesis, Branch
  <2>2. b \notin blocks /\ Anc[b] = Anc[H] \cup {b}
    BY <1>4, PlainBlock, Zenon
  <2>3. Adopted(b) = {b} /\ Orphaned(b) = {}
    BY <1>4, Zenon DEF Adopted, Orphaned
  <2>4. canonicalBlocks' = Branch' \cap blocks'
    BY <1>1, <2>1, <2>2, <2>3, Zenon DEF Linked
  <2>5. ASSUME NEW c \in blocks
        PROVE  Joined(b, c, blocks') /\ Joined(c, b, blocks')
    <3>1. Joined(H, c, blocks) /\ Joined(c, H, blocks)
      BY <2>1, Zenon DEF Linked
    <3> QED
      BY <2>2, <3>1, Zenon DEF Joined
  <2> QED
    BY <2>4, <2>5, JoinBlock, Zenon
<1>5. CASE IsFork(b)
  <2>1. /\ H \in Block /\ H \in blocks
        /\ b \notin Anc[H]
        /\ Anc[b] \ Anc[H] \subseteq blocks \cup {b}
        /\ Anc[H] \ Anc[b] \subseteq blocks
        /\ CommonAncestor(b) # {}
        /\ CommonAncestor(b) \subseteq Anc[b] \cap Anc[H] \cap blocks
        /\ Adopted(b) = (Anc[b] \ Anc[H]) \cup CommonAncestor(b)
        /\ Orphaned(b) = Anc[H] \ Anc[b]
    BY <1>5, ForkingBlock, Zenon
  <2>2. Branch = Anc[H]
    BY <2>1, HeadersAssumption, Zenon DEF Branch
  <2>3. canonicalBlocks' = Branch' \cap blocks'
    <3>1. canonicalBlocks = Anc[H] \cap blocks
      BY <2>2, Zenon DEF Linked
    <3>2. canonicalBlocks' = ((Anc[H] \cap blocks) \ (Anc[H] \ Anc[b]))
                               \cup ((Anc[b] \ Anc[H]) \cup CommonAncestor(b))
      BY <2>1, <3>1, Zenon
    <3>3. Branch' \cap blocks' = Anc[b] \cap (blocks \cup {b})
      BY <1>1, Zenon
    <3>4. ASSUME NEW x PROVE x \in canonicalBlocks' <=> x \in Branch' \cap blocks'
      BY <1>0, <2>1, <3>2, <3>3, Zenon
    <3> QED
      BY Zenon, <3>2, <3>4
  <2>4. ASSUME NEW c \in blocks
        PROVE  Joined(b, c, blocks') /\ Joined(c, b, blocks')
    <3>1. /\ Anc[H] \ Anc[c] \subseteq blocks /\ Anc[c] \ Anc[H] \subseteq blocks
          /\ Anc[c] \cap Anc[H] \cap blocks # {}
      BY Zenon, <2>1, <2>4 DEF Linked, Joined
    <3>2. Anc[b] \ Anc[c] \subseteq blocks' /\ Anc[c] \ Anc[b] \subseteq blocks'
      BY <2>1, <3>1, Zenon
    <3>3. PICK a \in CommonAncestor(b) : TRUE
      BY <2>1, Zenon
    <3>4. PICK d \in Anc[c] \cap Anc[H] \cap blocks : TRUE
      BY <3>1, Zenon
    <3>5. a \in Anc[d] \/ d \in Anc[a]
      BY <2>1, AncComparable, Zenon
    <3>6. c \in Block
      BY <2>4, Zenon DEF TypeOK
    <3>7. a \in Anc[c] \/ d \in Anc[b]
      BY <2>1, <3>5, <3>6, AncTransitive, Zenon
    <3>8. Anc[b] \cap Anc[c] \cap blocks # {}
      BY <2>1, <3>7, Zenon
    <3> QED
      BY <3>2, <3>8, Zenon DEF Joined
  <2> QED
    BY <2>3, <2>4, JoinBlock, Zenon
<1> QED
  BY <1>3, <1>4, <1>5, Zenon
-----------------------------------------------------------------------------
(* Storing a batch.                                                          *)

\* What StoreBatch leaves alone and what it adds.
LEMMA InsertFacts ==
  ASSUME TypeOK, NEW b \in Batch, InsertBatch(Len(batches) + 1, b)
  PROVE  /\ batches' \in Seq(Batch)
         /\ Len(batches') = Len(batches) + 1
         /\ SeqNos' = SeqNos \cup {Len(batches) + 1}
         /\ Len(batches) + 1 \notin SeqNos
         /\ \A i \in SeqNos : batches'[i] = batches[i]
         /\ batches'[Len(batches) + 1] = b
<1>1. batches \in Seq(Batch) /\ batches' = Append(batches, b)
  BY Zenon DEF TypeOK, InsertBatch
<1>2. Len(batches) \in Nat /\ SeqNos = 1 .. Len(batches)
  BY BatchFacts, Zenon
<1>3. batches' \in Seq(Batch) /\ Len(batches') = Len(batches) + 1
  BY <1>1
<1>4. SeqNos' = 1 .. Len(batches) + 1
  BY <1>3 DEF SeqNos
<1>5. \A i \in 1 .. Len(batches) : batches'[i] = batches[i]
  BY <1>1, <1>2
<1>6. batches'[Len(batches) + 1] = b
  BY <1>1, <1>2
<1> QED
  BY <1>2, <1>3, <1>4, <1>5, <1>6

\* A batch on the L1 head, one above a canonical batch and above all of them,
\* fits the ones that are stored.
LEMMA Insert ==
  ASSUME TypeOK, Linked, Chained, Layered, Filled, Flags, TransactionsReadable,
         pc # "execute", NEW b \in Batch, currentL1Head \in Block, b.l1Proof = currentL1Head,
         batches = <<>> => b.parent = 0 /\ b.height = 0,
         batches # <<>> => b.parent \in canonicalBatches /\ b.height = Height(b.parent) + 1,
         \A c \in canonicalBatches : Height(c) < b.height,
         \A i \in SeqNos : Height(i) = b.height => b.txs = txTable[b.height],
         InsertBatch(Len(batches) + 1, b)
  PROVE  /\ Linked' /\ Chained' /\ Layered' /\ Filled' /\ Flags' /\ TransactionsReadable'
         /\ Tip(Len(batches))'
         /\ canonicalBatches' = canonicalBatches \cup {Len(batches) + 1}
<1>a. PICK n : n = Len(batches) + 1
  OBVIOUS
<1>b. PICK H : H = currentL1Head
  OBVIOUS
<1>1. /\ Len(batches') = n
      /\ SeqNos' = SeqNos \cup {n}
      /\ n \notin SeqNos
      /\ \A i \in SeqNos : batches'[i] = batches[i]
      /\ batches'[n] = b
  BY Zenon, <1>a, InsertFacts
<1>2. /\ Len(batches) \in Nat
      /\ SeqNos = 1 .. Len(batches)
      /\ \A i \in SeqNos : Height(i) \in Nat /\ L1Proof(i) \in Block
  BY BatchFacts, Zenon
<1>3. /\ \A i \in SeqNos : Height(i)' = Height(i) /\ L1Proof(i)' = L1Proof(i)
      /\ Height(n)' = b.height /\ L1Proof(n)' = H
  BY Zenon, <1>1, <1>b DEF Height, L1Proof
<1>4. /\ H # NoBlock /\ H \in blocks /\ H \in Anc[H] /\ Branch = Anc[H]
      /\ blocks' = blocks /\ currentL1Head' = H /\ canonicalBlocks' = canonicalBlocks
      /\ Branch' = Anc[H]
  BY <1>b, HeadersAssumption, AncFacts, Zenon DEF Linked, InsertBatch, memVars, Branch
<1>5. Linked'
  BY <1>4, <1>b, Zenon DEF Linked
<1>6. canonicalBatches \subseteq SeqNos /\ (batches = <<>> <=> SeqNos = {})
  BY <1>2 DEF TypeOK
<1>7. canonicalBatches = {i \in SeqNos : L1Proof(i) \in Anc[H]}
  BY Zenon, <1>4 DEF Flags
<1>8. canonicalBatches' = canonicalBatches \cup {n}
  BY <1>a, <1>b, <1>4, Zenon DEF InsertBatch, Linked
<1>9. b.height \in Nat /\ b.txs \in Txs \cup {NoTxs, SystemTxs} /\ b.parent \in Nat
  BY Zenon DEF Batch
<1>10. Chained'
  <2>1. ASSUME NEW i \in SeqNos
        PROVE  /\ L1Proof(i)' \in blocks'
               /\ i = 1 => Height(i)' = 0 /\ batches'[i].parent = 0
               /\ i # 1 => /\ batches'[i].parent \in SeqNos'
                           /\ Height(i)' = batches'[batches'[i].parent].height + 1
                           /\ batches'[batches'[i].parent].l1Proof \in Anc[L1Proof(i)']
    BY <1>1, <1>3, <1>4 DEF Chained, Height, L1Proof
  <2>2. CASE batches = <<>>
    <3>1. n = 1 /\ SeqNos = {}
      BY <1>a, <2>2, <1>6
    <3> QED
      BY Zenon, <2>1, <2>2, <3>1, <1>1, <1>3, <1>4 DEF Chained, Height, L1Proof
  <2>3. CASE batches # <<>>
    <3>1. n # 1 /\ b.parent \in SeqNos /\ b.height = Height(b.parent) + 1 /\ L1Proof(b.parent) \in Anc[H]
      BY <1>a, <2>3, <1>2, <1>6, <1>7
    <3>2. \A i \in SeqNos' : i \in SeqNos \/ i = n
      BY Zenon, <1>1
    <3> QED
      BY <2>1, <3>1, <3>2, <1>1, <1>3, <1>4 DEF Chained, Height, L1Proof
  <2> QED
    BY Zenon, <2>2, <2>3
<1>11. Layered'
  <2>1. ASSUME NEW j \in SeqNos, Height(j) = b.height
        PROVE  L1Proof(j) \notin Anc[H] /\ H \notin Anc[L1Proof(j)]
    <3>1. L1Proof(j) \notin Anc[H]
      BY <1>2, <1>7, <1>9, <2>1
    <3>2. L1Proof(j) \in blocks /\ L1Proof(j) # H
      BY Zenon, <1>4, <3>1 DEF Chained
    <3> QED
      BY <3>1, <3>2, <1>b, Zenon DEF Linked
  <2>2. ASSUME NEW i \in SeqNos', NEW j \in SeqNos', i # j, Height(i)' = Height(j)'
        PROVE  L1Proof(i)' \notin Anc[L1Proof(j)']
    <3>1. CASE i \in SeqNos /\ j \in SeqNos
      BY Zenon, <3>1, <1>3, <2>2 DEF Layered
    <3>2. CASE i = n /\ j \in SeqNos
      BY Zenon, <3>2, <1>3, <2>1, <2>2
    <3>3. CASE i \in SeqNos /\ j = n
      BY Zenon, <3>3, <1>3, <2>1, <2>2
    <3> QED
      BY Zenon, <1>1, <2>2, <3>1, <3>2, <3>3
  <2> QED
    BY Zenon, <2>2 DEF Layered
<1>12. Filled'
  <2>1. ASSUME NEW i \in SeqNos, NEW h \in 0 .. Height(i)
        PROVE  \E j \in SeqNos' : Height(j)' = h /\ L1Proof(j)' \in Anc[L1Proof(i)]
    BY <1>1, <1>3 DEF Filled
  <2>2. ASSUME NEW h \in 0 .. b.height
        PROVE  \E j \in SeqNos' : Height(j)' = h /\ L1Proof(j)' \in Anc[H]
    <3>1. CASE h = b.height
      BY Zenon, <3>1, <1>1, <1>3, <1>4
    <3>2. CASE h # b.height
      <4>1. batches # <<>>
        BY <3>2, <1>9
      <4>2. b.parent \in SeqNos /\ b.height = Height(b.parent) + 1 /\ L1Proof(b.parent) \in Anc[H]
        BY Zenon, <4>1, <1>6, <1>7
      <4>3. h \in 0 .. Height(b.parent)
        BY <3>2, <4>2, <1>2, <1>9
      <4>4. PICK j \in SeqNos : Height(j) = h /\ L1Proof(j) \in Anc[L1Proof(b.parent)]
        BY Zenon, <4>2, <4>3 DEF Filled
      <4>5. L1Proof(j) \in Anc[H]
        BY Zenon, <1>b, <4>2, <4>4, AncTransitive
      <4> QED
        BY <4>4, <4>5, <1>1, <1>3
    <3> QED
      BY Zenon, <3>1, <3>2
  <2>3. ASSUME NEW i \in SeqNos', NEW h \in 0 .. Height(i)'
        PROVE  \E j \in SeqNos' : Height(j)' = h /\ L1Proof(j)' \in Anc[L1Proof(i)']
    BY <1>1, <1>3, <2>1, <2>2, <2>3
  <2> QED
    BY Zenon, <2>3 DEF Filled
<1>13. Flags'
  <2>1. canonicalBatches' = {i \in SeqNos' : L1Proof(i)' \in Branch'}
    BY Zenon, <1>1, <1>3, <1>4, <1>7, <1>8
  <2>2. 1 \in canonicalBatches'
    <3>1. CASE batches = <<>>
      BY <1>a, <3>1, <1>8
    <3>2. CASE batches # <<>>
      BY <3>2, <1>8, Zenon DEF Flags
    <3> QED
      BY <3>1, <3>2, Zenon
  <2>3. pc' = "execute" /\ executed' = SeqNos
    <3>1. pc' = "execute" /\ executed' = executed
      BY Zenon DEF InsertBatch
    <3> QED
      BY <3>1, Zenon DEF Flags
  <2>4. executed' = SeqNos' \ {Len(batches')}
    BY Zenon, <2>3, <1>1
  <2> QED
    BY Zenon, <2>1, <2>2, <2>3, <2>4 DEF Flags
<1>14. TransactionsReadable'
  <2>1. CASE \E i \in SeqNos : Height(i) = b.height
    <3>1. txTable' = txTable
      BY <2>1, Zenon DEF InsertBatch, TxTableWith
    <3>2. b.height \in DOMAIN txTable /\ txTable[b.height] = b.txs
      BY Zenon, <2>1 DEF TransactionsReadable
    <3> QED
      BY Zenon, <3>1, <3>2, <1>1, <1>3 DEF TransactionsReadable, Height
  <2>2. CASE ~ \E i \in SeqNos : Height(i) = b.height
    <3>1. txTable' = [h \in DOMAIN txTable \cup {b.height} |->
                        IF h = b.height THEN b.txs ELSE txTable[h]]
      BY Zenon, <2>2 DEF InsertBatch, TxTableWith
    <3>2. \A i \in SeqNos : Height(i) # b.height /\ Height(i) \in DOMAIN txTable
                              /\ txTable[Height(i)] = batches[i].txs
      BY Zenon, <2>2 DEF TransactionsReadable
    <3> QED
      BY <3>1, <3>2, <1>1, <1>3 DEF TransactionsReadable, Height
  <2> QED
    BY Zenon, <2>1, <2>2
<1>15. Tip(Len(batches))'
  <2>1. \A j \in canonicalBatches : Height(j)' \in Nat /\ Height(j)' < b.height
    BY <1>2, <1>3, <1>6, Zenon
  <2>2. \A x \in Nat : x < b.height => x <= b.height
    BY <1>9
  <2>3. Height(n)' <= b.height
    BY <1>3, <1>9
  <2>4. \A j \in canonicalBatches' : Height(j)' <= Height(n)'
    BY <1>3, <1>8, <2>1, <2>2, <2>3, Zenon
  <2> QED
    BY <1>1, <1>8, <2>4, Zenon DEF Tip
<1> QED
  BY <1>a, <1>5, <1>8, <1>10, <1>11, <1>12, <1>13, <1>14, <1>15, Zenon
-----------------------------------------------------------------------------
\* Every non-empty set of batches has a highest one: a fact about numbers that
\* SequencerEnclaveProofs proves.
HaveTips ==
  \A S \in SUBSET SeqNos : S # {} => \E m \in S : \A t \in S : Height(t) <= Height(m)

\* the batches a reorg from the branch of h to the branch of b orphans
Orphans(h, b) == {i \in SeqNos : L1Proof(i) \in Anc[h] \ Anc[b]}

\* The orphans are a chain: the parent of one is an orphan too, or it is on the
\* new branch and no orphan is lower.
LEMMA OrphansChain ==
  ASSUME TypeOK, Chained, Layered, Filled, NEW h \in Block, NEW b \in Block,
         1 \in SeqNos, L1Proof(1) \in Anc[b], NEW d \in Orphans(h, b)
  PROVE  /\ batches[d].parent \in SeqNos
         /\ Height(d) = Height(batches[d].parent) + 1
         /\ \/ batches[d].parent \in Orphans(h, b)
            \/ /\ L1Proof(batches[d].parent) \in Anc[b]
               /\ \A e \in Orphans(h, b) : Height(d) <= Height(e)
<1> DEFINE p == batches[d].parent
<1>1. d \in SeqNos /\ L1Proof(d) \in Anc[h] /\ d # 1
  BY Zenon DEF Orphans
<1>2. p \in SeqNos /\ Height(d) = Height(p) + 1 /\ L1Proof(p) \in Anc[L1Proof(d)]
  BY <1>1, Zenon DEF Chained
<1>3. L1Proof(p) \in Anc[h]
  BY Zenon, <1>1, <1>2, AncTransitive
<1>4. ASSUME p \notin Orphans(h, b), NEW e \in Orphans(h, b) PROVE Height(d) <= Height(e)
  <2>1. e \in SeqNos /\ L1Proof(e) \in Anc[h] /\ L1Proof(e) \notin Anc[b] /\ L1Proof(p) \in Anc[b]
    BY <1>2, <1>3, <1>4, Zenon DEF Orphans
  <2>2. L1Proof(e) \notin Anc[L1Proof(p)]
    BY Zenon, <2>1, AncTransitive
  <2>3. L1Proof(p) \in Anc[L1Proof(e)] /\ L1Proof(p) # L1Proof(e)
    BY Zenon, <1>3, <2>1, <2>2, AncComparable
  <2>4. Height(p) < Height(e)
    BY <1>2, <2>1, <2>3, LaterIsHigher, Zenon
  <2> QED
    BY <1>1, <1>2, <2>1, <2>4, BatchFacts
<1> QED
  BY <1>2, <1>3, <1>4, Zenon DEF Orphans

\* A batch of the new branch that is not below all orphans belongs to a block
\* the reorg adopted.
LEMMA AdoptedBatches ==
  ASSUME TypeOK, Layered, Filled, NEW h \in Block, NEW b \in Block, NEW o \in Orphans(h, b),
         NEW c \in SeqNos, L1Proof(c) \in Anc[b], Height(c) >= Height(o)
  PROVE  L1Proof(c) \in Anc[b] \ Anc[h]
<1>1. o \in SeqNos /\ L1Proof(o) \in Anc[h] /\ L1Proof(o) \notin Anc[b]
  BY Zenon DEF Orphans
<1>2. ASSUME L1Proof(c) \in Anc[h] PROVE FALSE
  <2>1. L1Proof(o) \notin Anc[L1Proof(c)]
    BY Zenon, <1>1, AncTransitive
  <2>2. L1Proof(c) \in Anc[L1Proof(o)] /\ L1Proof(c) # L1Proof(o)
    BY Zenon, <1>1, <1>2, <2>1, AncComparable
  <2>3. Height(c) < Height(o)
    BY Zenon, <1>1, <2>2, LaterIsHigher
  <2> QED
    BY <1>1, <2>3, BatchFacts
<1> QED
  BY <1>2, Zenon

\* OnL1Reorg finds the tip of the new branch, and duplicateBatches starts with
\* its loop invariant.
LEMMA StartReorg ==
  ASSUME IInv, HaveTips, pc = "idle", NEW b \in Block, NEW h \in Block, h = currentL1Head,
         IsTip(b), Ingestible(b), IsFork(b), KeepsGenesis(b),
         canonicalBatches' = CanonicalBatchesWith(b), currentL1Head' = b,
         OnL1Reorg(CanonicalBatchesWith(b)), StartDuplicating(Orphaned(b), Adopted(b)),
         UNCHANGED <<batches, executed>>
  PROVE  Heads' /\ Loop' /\ Cover'
<1>1. /\ SeqNos' = SeqNos
      /\ \A i : Height(i)' = Height(i) /\ L1Proof(i)' = L1Proof(i)
  BY Zenon DEF SeqNos, Height, L1Proof
<1>2. /\ TypeOK /\ Linked /\ Chained /\ Layered /\ Filled /\ Flags
      /\ batchesToDuplicate = {} /\ executed = SeqNos
  BY Zenon DEF IInv, Loop, Flags
<1>3. canonicalBatches' = {i \in SeqNos : L1Proof(i) \in Anc[b]}
  BY Zenon, <1>2, CanonicalWith
<1>4. canonicalBatches = {i \in SeqNos : L1Proof(i) \in Anc[h]}
  BY Zenon, <1>2, HeadersAssumption DEF Flags, Branch
<1>5. Orphaned(b) = Anc[h] \ Anc[b] /\ Anc[b] \ Anc[h] \subseteq Adopted(b) /\ Adopted(b) \subseteq Anc[b]
  BY <1>2, ForkingBlock
<1>6. batchesToDuplicate' = Orphans(h, b)
  BY Zenon, <1>5 DEF StartDuplicating, BatchesToDuplicate, BatchesByBlock, Orphans
<1>7. \A i \in SeqNos : Height(i) \in Nat /\ L1Proof(i) \in Block
  BY Zenon, <1>2, BatchFacts
<1>8. SeqNos = 1 .. Len(batches) /\ Len(batches) \in Nat /\ (batches = <<>> <=> SeqNos = {})
  BY <1>2, BatchFacts DEF TypeOK
<1>9. pc' # "execute" /\ pc' # "system" /\ previous' = 0
  BY Zenon DEF StartDuplicating
<1>10. CASE batches = <<>>
  <2>1. SeqNos = {}
    BY Zenon, <1>8, <1>10
  <2>2. batchesToDuplicate' = {} /\ canonicalBatches' = {} /\ pc' = "idle" /\ batchesToExclude' = {}
    BY Zenon, <1>3, <1>6, <2>1 DEF Orphans, StartDuplicating
  <2>3. headBatchSeq' = headBatchSeq /\ headBatchSeq = 0
    <3>1. HeadBatches(CanonicalBatchesWith(b)) = {}
      BY <1>3, <2>1, <2>2, Zenon DEF HeadBatches
    <3> QED
      BY Zenon, <1>10, <3>1 DEF OnL1Reorg, IInv, Heads
  <2> QED
    BY Zenon, <1>1, <1>10, <2>1, <2>2, <2>3 DEF Heads, Loop, Cover
<1>11. CASE batches # <<>>
  <2>1. 1 \in SeqNos /\ L1Proof(1) \in Anc[b] /\ 1 \in canonicalBatches'
    BY <1>3, <1>8, <1>11 DEF KeepsGenesis, L2GenesisSeqNo
  <2>2. Heads'
    <3>1. PICK m \in canonicalBatches' : \A t \in canonicalBatches' : Height(t) <= Height(m)
      BY Zenon, <1>3, <2>1 DEF HaveTips
    <3>2. canonicalBatches' \cap executed = canonicalBatches'
      BY <1>2, <1>3, Zenon
    <3>3. HeadBatches(CanonicalBatchesWith(b)) =
            {i \in canonicalBatches' : \A j \in canonicalBatches' : Height(j) <= Height(i)}
      BY Zenon, <3>2 DEF HeadBatches
    <3>4. headBatchSeq' \in HeadBatches(CanonicalBatchesWith(b))
      BY Zenon, <3>1, <3>3 DEF OnL1Reorg
    <3>5. Tip(headBatchSeq)'
      BY Zenon, <3>3, <3>4, <1>1 DEF Tip, Height
    <3> QED
      BY Zenon, <1>9, <1>11, <3>5 DEF Heads
  <2>3. Loop'
    <3>1. \A d, e \in batchesToDuplicate' : Height(d) = Height(e) => d = e
      BY Zenon, <1>2, <1>6, OnePerHeight DEF Orphans
    <3>2. batchesToDuplicate' \cap canonicalBatches' = {}
      BY Zenon, <1>3, <1>6 DEF Orphans
    <3>3. batchesToExclude' \subseteq canonicalBatches'
      BY Zenon, <1>3, <1>5 DEF StartDuplicating, BatchesByBlock
    <3>4. CASE batchesToDuplicate' = {}
      BY Zenon, <3>3, <3>4, <1>9 DEF StartDuplicating, Loop
    <3>5. CASE batchesToDuplicate' # {}
      <4>1. PICK o \in batchesToDuplicate' :
              (\A i \in batchesToDuplicate' : Height(o) <= Height(i)) /\ currentHead' = batches[o].parent
        BY Zenon, <3>5 DEF StartDuplicating
      <4>2. pc' = "duplicate" /\ batchesToExclude' = BatchesByBlock(Adopted(b))
        BY Zenon, <3>5 DEF StartDuplicating
      <4>3. ASSUME NEW d \in batchesToDuplicate'
            PROVE  /\ d \in SeqNos
                   /\ batches[d].parent \in SeqNos
                   /\ Height(d) = Height(batches[d].parent) + 1
                   /\ \/ batches[d].parent \in batchesToDuplicate'
                      \/ /\ batches[d].parent \in canonicalBatches'
                         /\ \A e \in batchesToDuplicate' : Height(d) <= Height(e)
        BY Zenon, <1>2, <1>3, <1>6, <2>1, OrphansChain DEF Orphans
      <4>4. currentHead' \in canonicalBatches' /\ Height(o) = Height(batches[o].parent) + 1
        <5>1. PICK p : p = batches[o].parent
          BY Zenon
        <5>2. /\ p \in SeqNos /\ Height(o) = Height(p) + 1
              /\ p \in batchesToDuplicate' \/ p \in canonicalBatches'
          BY Zenon, <4>3, <5>1
        <5>3. p \notin batchesToDuplicate'
          BY <4>1, <5>2, <1>7
        <5> QED
          BY <4>1, <5>1, <5>2, <5>3, Zenon
      <4>5. \A d \in batchesToDuplicate' : Lowest(d)' <=> \A e \in batchesToDuplicate' : Height(d) <= Height(e)
        BY Zenon, <1>1 DEF Lowest, IsNext
      <4>6. ASSUME NEW d \in batchesToDuplicate', Lowest(d)' PROVE d = o
        <5>1. d \in SeqNos /\ o \in SeqNos /\ Height(d) <= Height(o) /\ Height(o) <= Height(d)
          BY Zenon, <4>1, <4>3, <4>5, <4>6
        <5> QED
          BY <5>1, <1>7, <3>1
      <4>7. ASSUME NEW c \in canonicalBatches', Height(c) >= Height(o) PROVE c \in batchesToExclude'
        <5>1. c \in SeqNos /\ L1Proof(c) \in Anc[b]
          BY Zenon, <1>3
        <5>2. L1Proof(c) \in Anc[b] \ Anc[h]
          BY Zenon, <1>2, <1>6, <4>7, <5>1, AdoptedBatches
        <5> QED
          BY Zenon, <1>5, <4>2, <5>1, <5>2 DEF BatchesByBlock
      <4>8. Base' = currentHead'
        BY Zenon, <1>9 DEF Base
      <4>9. Height(Base)' = Height(batches[o].parent)
        BY Zenon, <4>1, <4>8, <1>1 DEF Height
      <4>10. ASSUME NEW d \in batchesToDuplicate'
             PROVE  /\ ~Lowest(d)' => batches'[d].parent \in batchesToDuplicate'
                    /\ Lowest(d)' => /\ Height(d)' = Height(Base)' + 1
                                     /\ \A c \in canonicalBatches' :
                                          Height(c)' >= Height(d)' => c \in batchesToExclude'
        BY Zenon, <1>1, <4>3, <4>4, <4>5, <4>6, <4>7, <4>9
      <4> QED
        BY Zenon, <1>1, <1>9, <3>1, <3>2, <3>3, <3>5, <4>2, <4>4, <4>10 DEF Loop
    <3> QED
      BY Zenon, <3>4, <3>5
  <2>4. Cover'
    <3>1. canonicalBatches \subseteq LedgerBatches'
      BY Zenon, <1>3, <1>4, <1>6 DEF LedgerBatches, Orphans
    <3>2. \A i \in SeqNos : \E j \in canonicalBatches : Height(j) = Height(i)
      BY <1>2, Zenon DEF IInv, Cover, LedgerBatches
    <3> QED
      BY Zenon, <1>1, <3>1, <3>2 DEF Cover
  <2> QED
    BY Zenon, <2>2, <2>3, <2>4
<1> QED
  BY <1>10, <1>11, Zenon

\* SubmitL1Block keeps the invariant.
LEMMA SubmitStep ==
  ASSUME IInv, HaveTips, NEW b \in Block, IsTip(b), KeepsGenesis(b), SubmitL1Block(b)
  PROVE  IInv'
<1>1. /\ TypeOK /\ Linked /\ Chained /\ Layered /\ Filled /\ Flags /\ Heads /\ Loop /\ Cover
      /\ TransactionsReadable
      /\ pc = "idle" /\ Ingestible(b)
  BY Zenon DEF IInv, SubmitL1Block, StoreBlock
<1>2. CanonicalBatchesWith(b) = {i \in SeqNos : L1Proof(i) \in Anc[b]}
  BY Zenon, <1>1, CanonicalWith
<1>3. CanonicalValidity(CanonicalBatchesWith(b))
  BY Zenon, <1>1, <1>2, OnePerHeight DEF CanonicalValidity
<1>4. /\ blocks' = blocks \cup {b}
      /\ lastBlock' = IF b \in blocks THEN lastBlock ELSE b
      /\ canonicalBlocks' = (canonicalBlocks \ Orphaned(b)) \cup Adopted(b)
      /\ canonicalBatches' = CanonicalBatchesWith(b)
      /\ currentL1Head' = b
      /\ IF IsFork(b)
           THEN /\ OnL1Reorg(CanonicalBatchesWith(b))
                /\ StartDuplicating(Orphaned(b), Adopted(b))
           ELSE UNCHANGED <<headBatchSeq, pc, dupVars>>
      /\ UNCHANGED <<batches, executed, txTable>>
  BY Zenon, <1>3 DEF SubmitL1Block, StoreBlock
<1> DEFINE H == currentL1Head
<1>5. Linked'
  BY Zenon, <1>1, <1>4, BlockStored
<1>6. /\ SeqNos' = SeqNos
      /\ \A i : Height(i)' = Height(i) /\ L1Proof(i)' = L1Proof(i)
  BY <1>4, Zenon DEF SeqNos, Height, L1Proof
<1>7. Chained' /\ Layered' /\ Filled' /\ TransactionsReadable'
  <2>1. Chained'
    BY Zenon, <1>1, <1>4, <1>6 DEF Chained
  <2>2. Layered'
    BY Zenon, <1>1, <1>6 DEF Layered
  <2>3. Filled'
    BY Zenon, <1>1, <1>6 DEF Filled
  <2>4. TransactionsReadable'
    BY Zenon, <1>1, <1>4, <1>6 DEF TransactionsReadable
  <2> QED
    BY Zenon, <2>1, <2>2, <2>3, <2>4
<1>8. executed = SeqNos /\ (batches = <<>> <=> SeqNos = {}) /\ SeqNos = 1 .. Len(batches) /\ Len(batches) \in Nat
  BY <1>1, BatchFacts DEF Flags, TypeOK
<1>9. pc' \in {"idle", "duplicate"}
  BY Zenon, <1>1, <1>4 DEF StartDuplicating
<1>10. Flags'
  <2>1. Branch' = Anc[b]
    BY Zenon, <1>4, HeadersAssumption DEF Branch
  <2>2. batches # <<>> => 1 \in canonicalBatches'
    BY <1>2, <1>4, <1>8 DEF KeepsGenesis, L2GenesisSeqNo
  <2> QED
    BY Zenon, <1>2, <1>4, <1>6, <1>8, <1>9, <2>1, <2>2 DEF Flags
<1>11. CASE ~IsFork(b)
  <2>1. canonicalBatches' = canonicalBatches
    <3>1. CASE PreGenesis
      <4>1. SeqNos = {}
        BY Zenon, <1>1, <3>1 DEF PreGenesis, Linked, Chained
      <4> QED
        BY Zenon, <1>1, <1>2, <1>4, <4>1 DEF Flags
    <3>2. CASE ~PreGenesis
      <4>1. b \notin blocks /\ Anc[b] = Anc[H] \cup {b} /\ Branch = Anc[H]
        BY Zenon, <1>1, <1>11, <3>2, PlainBlock DEF Branch, PreGenesis
      <4>2. \A i \in SeqNos : L1Proof(i) \in blocks
        BY Zenon, <1>1 DEF Chained
      <4> QED
        BY Zenon, <1>1, <1>2, <1>4, <4>1, <4>2 DEF Flags
    <3> QED
      BY Zenon, <3>1, <3>2
  <2>2. UNCHANGED <<headBatchSeq, pc, batchesToDuplicate, batchesToExclude, previous, currentHead, batches>>
    BY Zenon, <1>4, <1>11 DEF dupVars
  <2>3. Heads'
    BY Zenon, <1>1, <2>1, <2>2 DEF Heads, Tip, Height
  <2>4. Loop'
    BY Zenon, <1>1, <1>6, <2>1, <2>2 DEF Loop, Lowest, IsNext, Base, Height
  <2>5. Cover'
    BY <1>1, <1>6, <2>1, <2>2, Zenon DEF Cover, LedgerBatches
  <2>6. TypeOK'
    <3>1. blocks' \subseteq Block /\ canonicalBlocks' \subseteq blocks'
      BY Zenon, <1>1, <1>4, <1>5 DEF TypeOK, Linked
    <3> QED
      BY Zenon, <1>1, <1>2, <1>4, <1>6, <2>2, <3>1 DEF TypeOK
  <2> QED
    BY <1>1, <1>5, <1>7, <1>10, <2>2, <2>3, <2>4, <2>5, <2>6, Zenon DEF IInv, NoCrit
<1>12. CASE IsFork(b)
  <2>1. PICK h \in Block : h = currentL1Head
    BY Zenon, <1>1, <1>12 DEF IsFork, PreGenesis, TypeOK
  <2>2. Heads' /\ Loop' /\ Cover'
    BY Zenon, <1>1, <1>4, <1>12, <2>1, StartReorg
  <2>3. TypeOK'
    <3>1. blocks' \subseteq Block /\ canonicalBlocks' \subseteq blocks' /\ lastBlock' \in Block \cup {NoBlock}
      BY Zenon, <1>1, <1>4, <1>5 DEF TypeOK, Linked
    <3>2. canonicalBatches' \subseteq SeqNos
      BY Zenon, <1>2, <1>4
    <3>3. headBatchSeq' \in SeqNos' \cup {0}
      BY Zenon, <1>6, <1>9, <2>2, <3>2 DEF Heads, Tip
    <3>4. batchesToDuplicate' \subseteq SeqNos /\ batchesToExclude' \subseteq SeqNos /\ previous' = 0
      BY <1>4, <1>12, Zenon DEF StartDuplicating, BatchesToDuplicate, BatchesByBlock
    <3>5. currentHead' \in SeqNos \cup {0}
      <4>1. CASE batchesToDuplicate' = {}
        BY Zenon, <4>1, <1>4, <1>12 DEF StartDuplicating
      <4>2. CASE batchesToDuplicate' # {}
        BY Zenon, <4>2, <1>4, <1>12, <2>2, <3>2 DEF StartDuplicating, Loop
      <4> QED
        BY Zenon, <4>1, <4>2
    <3> QED
      BY Zenon, <1>1, <1>4, <1>6, <1>9, <3>1, <3>2, <3>3, <3>4, <3>5 DEF TypeOK
  <2> QED
    BY Zenon, <1>5, <1>7, <1>9, <1>10, <2>2, <2>3 DEF IInv, NoCrit
<1> QED
  BY <1>11, <1>12, Zenon
-----------------------------------------------------------------------------
(* The other steps.                                                          *)

\* The tables block, batch and tx are not touched.
LEMMA SameTables ==
  ASSUME Linked, Chained, Layered, Filled, TransactionsReadable,
         UNCHANGED <<blocks, canonicalBlocks, currentL1Head, batches, txTable>>
  PROVE  Linked' /\ Chained' /\ Layered' /\ Filled' /\ TransactionsReadable'
<1>1. /\ SeqNos' = SeqNos
      /\ \A i : Height(i)' = Height(i) /\ L1Proof(i)' = L1Proof(i)
  BY Zenon DEF SeqNos, Height, L1Proof
<1>2. Linked'
  BY Zenon DEF Linked, Branch
<1>3. Chained'
  BY Zenon, <1>1 DEF Chained
<1>4. Layered'
  BY Zenon, <1>1 DEF Layered
<1>5. Filled'
  BY Zenon, <1>1 DEF Filled
<1>6. TransactionsReadable'
  BY <1>1, Zenon DEF TransactionsReadable
<1> QED
  BY <1>2, <1>3, <1>4, <1>5, <1>6, Zenon

\* StoreExecutedBatch keeps the invariant: the batch just stored is the tip.
LEMMA StoreExecutedStep ==
  ASSUME IInv, StoreExecutedBatch
  PROVE  IInv'
<1>1. /\ TypeOK /\ Linked /\ Chained /\ Layered /\ Filled /\ Flags /\ Heads /\ Loop /\ Cover
      /\ TransactionsReadable
      /\ pc = "execute"
  BY Zenon DEF IInv, StoreExecutedBatch
<1>2. /\ executed' = executed \cup {Len(batches)}
      /\ headBatchSeq' = Len(batches)
      /\ blocks' = blocks /\ lastBlock' = lastBlock /\ canonicalBlocks' = canonicalBlocks
      /\ batches' = batches /\ canonicalBatches' = canonicalBatches /\ txTable' = txTable
      /\ currentL1Head' = currentL1Head /\ batchesToDuplicate' = batchesToDuplicate
  BY Zenon DEF StoreExecutedBatch, OnBatchExecuted
<1>3. /\ SeqNos' = SeqNos
      /\ \A i : Height(i)' = Height(i) /\ L1Proof(i)' = L1Proof(i)
  BY <1>2, Zenon DEF SeqNos, Height, L1Proof
<1>4. Linked' /\ Chained' /\ Layered' /\ Filled' /\ TransactionsReadable'
  BY Zenon, <1>1, <1>2, SameTables
<1>5. Len(batches) \in canonicalBatches /\ canonicalBatches \subseteq SeqNos /\ Tip(Len(batches))
  BY <1>1, Zenon DEF Heads, Tip, TypeOK
<1>6. pc' \in {"idle", "duplicate", "system"}
  BY Zenon DEF StoreExecutedBatch
<1>7. Flags'
  <2>1. executed' = SeqNos
    BY <1>1, <1>2, <1>5, Zenon DEF Flags
  <2> QED
    BY <1>1, <1>2, <1>3, <1>6, <2>1, Zenon DEF Flags, Branch
<1>8. Heads'
  <2>1. pc' = "system" => Len(batches) = 1
    BY Zenon DEF StoreExecutedBatch, L2GenesisSeqNo
  <2>2. Tip(headBatchSeq)'
    BY <1>2, <1>5, Zenon DEF Tip, Height
  <2>3. batches # <<>>
    BY <1>1, Zenon DEF Heads
  <2> QED
    BY <1>2, <1>6, <2>1, <2>2, <2>3, Zenon DEF Heads
<1>9. Cover'
  BY Zenon, <1>1, <1>2, <1>3 DEF Cover, LedgerBatches
<1>10. CASE batchesToDuplicate # {}
  <2>1. /\ pc' = "duplicate" /\ currentHead' = Len(batches)
        /\ batchesToExclude' = batchesToExclude /\ previous' = previous
    BY <1>10, Zenon DEF StoreExecutedBatch
  <2>2. Base' = Base
    BY Zenon, <1>1, <2>1 DEF Base
  <2>3. \A d : Lowest(d)' <=> Lowest(d)
    BY <1>2, <1>3, Zenon DEF Lowest, IsNext
  <2>4. Height(Base)' = Height(Base)
    BY Zenon, <1>2, <2>2 DEF Height
  <2>5. Loop'
    BY Zenon, <1>1, <1>2, <1>3, <1>5, <1>10, <2>1, <2>3, <2>4 DEF Loop
  <2>6. TypeOK'
    BY Zenon, <1>1, <1>2, <1>3, <1>5, <2>1 DEF TypeOK
  <2> QED
    BY Zenon, <1>4, <1>7, <1>8, <1>9, <2>1, <2>5, <2>6 DEF IInv, NoCrit
<1>11. CASE batchesToDuplicate = {}
  <2>1. pc' # "duplicate" /\ currentHead' = 0 /\ batchesToExclude' = {} /\ previous' = 0
    BY Zenon, <1>11 DEF StoreExecutedBatch
  <2>2. Loop'
    BY Zenon, <1>2, <1>11, <2>1 DEF Loop
  <2>3. TypeOK'
    BY Zenon, <1>1, <1>2, <1>3, <1>5, <1>6, <2>1 DEF TypeOK
  <2> QED
    BY Zenon, <1>4, <1>6, <1>7, <1>8, <1>9, <2>2, <2>3 DEF IInv, NoCrit
<1> QED
  BY <1>10, <1>11, Zenon

\* The next orphan follows the one visited before.
LEMMA NextOrphan ==
  ASSUME TypeOK, Chained, Flags, Loop, NEW o \in batchesToDuplicate, Lowest(o)
  PROVE  /\ Consecutive(o)
         /\ o \in SeqNos /\ o # 1
         /\ \A d \in batchesToDuplicate \ {o} :
              /\ Height(o) < Height(d)
              /\ (\A e \in batchesToDuplicate \ {o} : Height(d) <= Height(e)) =>
                   batches[d].parent = o /\ Height(d) = Height(o) + 1
              /\ ~(\A e \in batchesToDuplicate \ {o} : Height(d) <= Height(e)) =>
                   batches[d].parent \in batchesToDuplicate \ {o}
<1>1. o \in SeqNos /\ o # 1
  <2>1. o \in SeqNos
    BY Zenon DEF TypeOK
  <2>2. batches # <<>>
    BY <2>1, BatchFacts
  <2> QED
    BY <2>1, <2>2, Zenon DEF Loop, Flags
<1>2. Consecutive(o)
  BY Zenon DEF Loop, Consecutive
<1>3. \A i \in SeqNos : Height(i) \in Nat
  BY BatchFacts, Zenon
<1>4. batchesToDuplicate \subseteq SeqNos
  BY Zenon DEF TypeOK
<1>5. ASSUME NEW d \in batchesToDuplicate \ {o}
      PROVE  /\ Height(o) < Height(d)
             /\ d # 1
             /\ batches[d].parent \in batchesToDuplicate
             /\ Height(d) = Height(batches[d].parent) + 1
  <2>1. Height(o) <= Height(d) /\ Height(o) # Height(d)
    BY <1>5, Zenon DEF Lowest, IsNext, Loop
  <2>2. Height(o) < Height(d)
    BY <1>1, <1>3, <1>4, <2>1
  <2>3. ~Lowest(d)
    BY <1>1, <1>3, <1>4, <2>2 DEF Lowest, IsNext
  <2>4. batches[d].parent \in batchesToDuplicate
    BY <2>3, Zenon DEF Loop
  <2>5. 1 \in canonicalBatches
    <3>1. batches # <<>>
      BY <1>1, BatchFacts
    <3> QED
      BY Zenon, <3>1 DEF Flags
  <2>6. d # 1
    BY <2>5, Zenon DEF Loop
  <2> QED
    BY Zenon, <1>4, <2>2, <2>4, <2>6 DEF Chained
<1>6. ASSUME NEW d \in batchesToDuplicate \ {o}, \A e \in batchesToDuplicate \ {o} : Height(d) <= Height(e)
      PROVE  batches[d].parent = o /\ Height(d) = Height(o) + 1
  <2>1. batches[d].parent \in batchesToDuplicate /\ Height(d) = Height(batches[d].parent) + 1
    BY Zenon, <1>5
  <2>2. ~(Height(d) <= Height(batches[d].parent))
    BY <1>3, <1>4, <2>1
  <2>3. batches[d].parent = o
    BY <1>6, <2>1, <2>2, Zenon
  <2> QED
    BY Zenon, <2>1, <2>3
<1>7. ASSUME NEW d \in batchesToDuplicate \ {o}, batches[d].parent = o,
             NEW e \in batchesToDuplicate \ {o}
      PROVE  Height(d) <= Height(e)
  <2>1. Height(d) = Height(o) + 1 /\ Height(o) < Height(e)
    BY Zenon, <1>5, <1>7
  <2> QED
    BY <1>1, <1>3, <1>4, <2>1
<1> QED
  BY Zenon, <1>1, <1>2, <1>5, <1>6, <1>7

\* The loop of duplicateBatches goes on after orphan o, on top of a batch of the
\* height of o.
LEMMA LoopGoesOn ==
  ASSUME TypeOK, Chained, Flags, Loop, NEW o \in batchesToDuplicate, Lowest(o),
         batchesToDuplicate' = batchesToDuplicate \ {o},
         batchesToExclude' = batchesToExclude,
         previous' = o,
         pc' \in {"duplicate", "execute"},
         pc' = "duplicate" => batchesToDuplicate' # {} /\ currentHead' \in canonicalBatches',
         \A i \in SeqNos : Height(i)' = Height(i) /\ batches'[i] = batches[i],
         Base' \in SeqNos', Height(Base)' = Height(o),
         NEW N, canonicalBatches' = canonicalBatches \cup N,
         \A i \in N : i \notin SeqNos /\ Height(i)' = Height(o)
  PROVE  Loop'
<1>1. /\ batchesToDuplicate \subseteq SeqNos /\ canonicalBatches \subseteq SeqNos /\ o \in SeqNos
      /\ \A i \in SeqNos : Height(i) \in Nat
  BY Zenon, BatchFacts DEF TypeOK
<1>2. batchesToDuplicate' \cap canonicalBatches' = {}
  BY Zenon, <1>1 DEF Loop
<1>3. batchesToExclude' \subseteq canonicalBatches'
  BY Zenon DEF Loop
<1>4. \A d, e \in batchesToDuplicate' : Height(d)' = Height(e)' => d = e
  BY <1>1 DEF Loop
<1>5. ASSUME NEW d \in batchesToDuplicate'
      PROVE  /\ (~Lowest(d))' => batches'[d].parent \in batchesToDuplicate'
             /\ Lowest(d)' => /\ batches'[d].parent = o
                              /\ Height(d)' = Height(o) + 1
  <2>1. d \in batchesToDuplicate \ {o} /\ d \in SeqNos
    BY Zenon, <1>1
  <2>2. Lowest(d)' <=> \A e \in batchesToDuplicate \ {o} : Height(d) <= Height(e)
    BY Zenon, <1>1, <2>1 DEF Lowest, IsNext
  <2> QED
    BY Zenon, <2>1, <2>2, NextOrphan
<1>6. ASSUME NEW d \in batchesToDuplicate', Lowest(d)',
             NEW c \in canonicalBatches', Height(c)' >= Height(d)'
      PROVE  c \in batchesToExclude'
  <2>1. Height(d)' = Height(o) + 1
    BY Zenon, <1>5, <1>6
  <2>2. c \in canonicalBatches
    BY <1>1, <1>6, <2>1
  <2>3. Height(c) >= Height(o)
    BY <1>1, <1>6, <2>1, <2>2
  <2> QED
    BY Zenon, <2>2, <2>3 DEF Loop
<1> QED
  BY Zenon, <1>2, <1>3, <1>4, <1>5, <1>6 DEF Loop

\* SkipDuplicate keeps the invariant: the batch that was there replaces the
\* orphan.
LEMMA SkipStep ==
  ASSUME IInv, NEW o \in SeqNos, SkipDuplicate(o)
  PROVE  IInv'
<1>1. /\ TypeOK /\ Linked /\ Chained /\ Layered /\ Filled /\ Flags /\ Heads /\ Loop /\ Cover
      /\ TransactionsReadable
      /\ pc = "duplicate" /\ o \in batchesToDuplicate /\ Lowest(o) /\ Excluding(o) # {}
  BY Zenon DEF IInv, SkipDuplicate, IsNext, Lowest
<1>2. Consecutive(o)
  BY <1>1, NextOrphan, Zenon
<1>3. /\ batchesToDuplicate' = batchesToDuplicate \ {o}
      /\ UNCHANGED <<dbVars, memVars>>
  BY <1>2, Zenon DEF SkipDuplicate
<1>4. /\ blocks' = blocks /\ lastBlock' = lastBlock /\ canonicalBlocks' = canonicalBlocks
      /\ batches' = batches /\ canonicalBatches' = canonicalBatches /\ txTable' = txTable
      /\ executed' = executed /\ currentL1Head' = currentL1Head /\ headBatchSeq' = headBatchSeq
  BY <1>3, Zenon DEF dbVars, memVars
<1>5. /\ SeqNos' = SeqNos
      /\ \A i : Height(i)' = Height(i) /\ L1Proof(i)' = L1Proof(i)
  BY <1>4, Zenon DEF SeqNos, Height, L1Proof
<1>6. Linked' /\ Chained' /\ Layered' /\ Filled' /\ TransactionsReadable'
  BY <1>1, <1>4, SameTables, Zenon
<1>7. pc' \in {"idle", "duplicate"}
  BY Zenon, <1>1, <1>2 DEF SkipDuplicate
<1>8. Flags'
  BY Zenon, <1>1, <1>4, <1>5, <1>7 DEF Flags, Branch
<1>9. Heads'
  <2>1. (Tip(headBatchSeq))' <=> Tip(headBatchSeq)
    BY Zenon, <1>4, <1>5 DEF Tip
  <2> QED
    BY <1>1, <1>4, <1>7, <2>1, Zenon DEF Heads
<1>10. \A e \in Excluding(o) : e \in canonicalBatches /\ e \in SeqNos /\ Height(e) = Height(o)
  BY <1>1, Zenon DEF Excluding, Loop, TypeOK
<1>11. Cover'
  <2>1. PICK e : e \in canonicalBatches /\ Height(e) = Height(o)
    BY <1>1, <1>10
  <2>2. LedgerBatches' = canonicalBatches \cup (batchesToDuplicate \ {o})
    BY <1>3, <1>4, Zenon DEF LedgerBatches
  <2>3. ASSUME NEW i \in SeqNos PROVE \E j \in LedgerBatches' : Height(j) = Height(i)
    <3>1. PICK j \in LedgerBatches : Height(j) = Height(i)
      BY <1>1, Zenon DEF Cover
    <3>2. CASE j = o
      BY <2>1, <2>2, <3>1, <3>2, Zenon
    <3>3. CASE j # o
      BY Zenon, <2>2, <3>1, <3>3 DEF LedgerBatches
    <3> QED
      BY <3>2, <3>3, Zenon
  <2> QED
    BY <1>5, <2>3, Zenon DEF Cover
<1>12. CASE batchesToDuplicate' = {}
  <2>1. pc' = "idle" /\ currentHead' = 0 /\ batchesToExclude' = {} /\ previous' = 0
    BY Zenon, <1>2, <1>12 DEF SkipDuplicate
  <2>2. Loop'
    BY Zenon, <1>12, <2>1 DEF Loop
  <2>3. TypeOK'
    BY Zenon, <1>1, <1>4, <1>5, <1>12, <2>1 DEF TypeOK
  <2> QED
    BY Zenon, <1>6, <1>8, <1>9, <1>11, <2>1, <2>2, <2>3 DEF IInv, NoCrit
<1>13. CASE batchesToDuplicate' # {}
  <2>1. /\ pc' = "duplicate" /\ currentHead' \in Excluding(o)
        /\ batchesToExclude' = batchesToExclude /\ previous' = o
    BY Zenon, <1>1, <1>2, <1>13 DEF SkipDuplicate
  <2>2. currentHead' \in canonicalBatches /\ currentHead' \in SeqNos /\ Height(currentHead') = Height(o)
    BY <1>10, <2>1, Zenon
  <2>3. Base' = currentHead'
    BY <2>1, Zenon DEF Base
  <2>4. Height(Base)' = Height(o)
    BY Zenon, <1>4, <2>2, <2>3 DEF Height
  <2>5. Loop'
    <3>1. \A i \in SeqNos : Height(i)' = Height(i) /\ batches'[i] = batches[i]
      BY Zenon, <1>4, <1>5
    <3>2. Base' \in SeqNos' /\ currentHead' \in canonicalBatches'
      BY <1>4, <1>5, <2>2, <2>3, Zenon
    <3>3. pc' \in {"duplicate", "execute"} /\ batchesToExclude' = batchesToExclude /\ previous' = o
      BY <2>1, Zenon
    <3>4. PICK N : N = {}
      BY Zenon
    <3>5. canonicalBatches' = canonicalBatches \cup N
      BY <1>4, <3>4, Zenon
    <3>6. \A i \in N : i \notin SeqNos /\ Height(i)' = Height(o)
      BY Zenon, <3>4
    <3> QED
      BY Zenon, <1>1, <1>3, <1>13, <2>4, <3>1, <3>2, <3>3, <3>5, <3>6, LoopGoesOn
  <2>6. TypeOK'
    BY Zenon, <1>1, <1>3, <1>4, <1>5, <2>1, <2>2 DEF TypeOK
  <2> QED
    BY Zenon, <1>6, <1>8, <1>9, <1>11, <2>1, <2>5, <2>6 DEF IInv, NoCrit
<1> QED
  BY Zenon, <1>12, <1>13

\* What StoreBatch writes has its type.
LEMMA InsertTypes ==
  ASSUME TypeOK, NEW b \in Batch, InsertBatch(Len(batches) + 1, b),
         batchesToDuplicate' \subseteq SeqNos, batchesToExclude' \subseteq SeqNos,
         previous' \in SeqNos \cup {0}, currentHead' \in SeqNos \cup {0}
  PROVE  TypeOK'
<1>1. /\ batches' \in Seq(Batch) /\ SeqNos' = SeqNos \cup {Len(batches) + 1}
  BY Zenon, InsertFacts
<1>2. canonicalBatches' \subseteq SeqNos'
  BY Zenon, <1>1 DEF TypeOK, InsertBatch
<1>3. DOMAIN txTable' \subseteq Nat /\ \A h \in DOMAIN txTable' : txTable'[h] \in Txs \cup {NoTxs, SystemTxs}
  <2>1. b.height \in Nat /\ b.txs \in Txs \cup {NoTxs, SystemTxs}
    BY Zenon DEF Batch
  <2>2. CASE \E i \in SeqNos : Height(i) = b.height
    BY Zenon, <2>2 DEF TypeOK, InsertBatch, TxTableWith
  <2>3. CASE ~\E i \in SeqNos : Height(i) = b.height
    <3>1. txTable' = [h \in DOMAIN txTable \cup {b.height} |->
                         IF h = b.height THEN b.txs ELSE txTable[h]]
      BY Zenon, <2>3 DEF InsertBatch, TxTableWith
    <3> QED
      BY Zenon, <2>1, <3>1 DEF TypeOK
  <2> QED
    BY <2>2, <2>3, Zenon
<1>4. /\ blocks' = blocks /\ lastBlock' = lastBlock /\ canonicalBlocks' = canonicalBlocks
      /\ executed' = executed /\ currentL1Head' = currentL1Head /\ headBatchSeq' = headBatchSeq
      /\ pc' = "execute"
  BY Zenon DEF InsertBatch, memVars
<1> QED
  BY Zenon, <1>1, <1>2, <1>3, <1>4 DEF TypeOK

\* Every canonical batch is at or below the height of the parent of an orphan
\* that has nothing to be excluded for.
LEMMA NothingAbove ==
  ASSUME TypeOK, Linked, Filled, Flags, Loop, NEW o \in batchesToDuplicate, Lowest(o),
         Excluding(o) = {}, NEW c \in canonicalBatches
  PROVE  Height(c) < Height(o)
<1>1. /\ batchesToDuplicate \subseteq SeqNos /\ c \in SeqNos /\ o \in SeqNos
      /\ \A i \in SeqNos : Height(i) \in Nat /\ L1Proof(i) \in Block
  BY Zenon, BatchFacts DEF TypeOK
<1>2. SUFFICES ASSUME Height(c) >= Height(o) PROVE FALSE
  BY <1>1
<1>3. PICK j \in SeqNos : Height(j) = Height(o) /\ L1Proof(j) \in Anc[L1Proof(c)]
  BY <1>1, <1>2 DEF Filled
<1>4. L1Proof(c) \in Branch /\ currentL1Head \in Block
  BY Zenon DEF Flags, Branch, TypeOK
<1>5. L1Proof(j) \in Branch
  BY Zenon, <1>1, <1>3, <1>4, AncTransitive DEF Branch
<1>6. j \in canonicalBatches
  BY Zenon, <1>3, <1>5 DEF Flags
<1>7. j \in batchesToExclude
  BY <1>1, <1>3, <1>6 DEF Loop
<1> QED
  BY Zenon, <1>3, <1>7 DEF Excluding

\* DuplicateBatch keeps the invariant: the duplicate replaces the orphan.
LEMMA DuplicateStep ==
  ASSUME IInv, NEW o \in SeqNos, DuplicateBatch(o)
  PROVE  IInv'
<1>1. /\ TypeOK /\ Linked /\ Chained /\ Layered /\ Filled /\ Flags /\ Heads /\ Loop /\ Cover
      /\ TransactionsReadable
      /\ pc = "duplicate" /\ o \in batchesToDuplicate /\ Lowest(o) /\ Excluding(o) = {}
  BY Zenon DEF IInv, DuplicateBatch, IsNext, Lowest
<1>2. Consecutive(o)
  BY Zenon, <1>1, NextOrphan
<1>3. /\ batchesToDuplicate \subseteq SeqNos /\ canonicalBatches \subseteq SeqNos
      /\ Len(batches) \in Nat /\ SeqNos = 1 .. Len(batches)
      /\ \A i \in SeqNos : Height(i) \in Nat /\ L1Proof(i) \in Block
                           /\ batches[i].txs \in Txs \cup {NoTxs, SystemTxs}
  BY Zenon, <1>1, BatchFacts DEF TypeOK
<1>4. /\ currentHead \in canonicalBatches /\ currentHead \in SeqNos
      /\ Height(o) = Height(currentHead) + 1
  BY Zenon, <1>1, <1>3 DEF Loop, Base
<1>5. currentL1Head \in Block
  BY Zenon, <1>1, <1>4 DEF TypeOK, Flags, Branch
<1>6. PICK b \in Duplicates(o) :
        IF ~Consecutive(o) \/ Rejects(Len(batches) + 1, b)
          THEN Crit
          ELSE /\ InsertBatch(Len(batches) + 1, b)
               /\ batchesToDuplicate' = batchesToDuplicate \ {o}
               /\ previous' = o
               /\ UNCHANGED <<batchesToExclude, currentHead>>
  BY Zenon DEF DuplicateBatch
<1>7. /\ txTable[Height(o)] = batches[o].txs
      /\ \A i \in SeqNos : Height(i) = Height(o) => batches[o].txs = txTable[Height(i)]
  BY Zenon, <1>1 DEF TransactionsReadable
<1>8. /\ b \in Batch /\ b.height = Height(o) /\ b.parent = currentHead
      /\ b.l1Proof = currentL1Head /\ b.txs = txTable[Height(o)]
  BY <1>3, <1>4, <1>5, <1>7 DEF Duplicates, Batch
<1>9. ~Rejects(Len(batches) + 1, b)
  BY <1>3, <1>4, <1>8 DEF Rejects, InvalidChaining
<1>10. /\ InsertBatch(Len(batches) + 1, b)
       /\ batchesToDuplicate' = batchesToDuplicate \ {o}
       /\ previous' = o
       /\ batchesToExclude' = batchesToExclude /\ currentHead' = currentHead
  BY Zenon, <1>2, <1>6, <1>9
<1>11. \A c \in canonicalBatches : Height(c) < b.height
  BY <1>1, <1>8, NothingAbove, Zenon
<1>12. batches # <<>> /\ pc # "execute"
  BY <1>1, <1>3
<1>13. /\ Linked' /\ Chained' /\ Layered' /\ Filled' /\ Flags' /\ TransactionsReadable'
       /\ Tip(Len(batches))'
       /\ canonicalBatches' = canonicalBatches \cup {Len(batches) + 1}
  BY Zenon, <1>1, <1>4, <1>5, <1>7, <1>8, <1>10, <1>11, <1>12, Insert
<1>14. /\ Len(batches') = Len(batches) + 1
       /\ SeqNos' = SeqNos \cup {Len(batches) + 1}
       /\ Len(batches) + 1 \notin SeqNos
       /\ \A i \in SeqNos : batches'[i] = batches[i]
       /\ batches'[Len(batches) + 1] = b
       /\ pc' = "execute"
  BY Zenon, <1>1, <1>8, <1>10, InsertFacts DEF InsertBatch
<1>15. TypeOK'
  BY Zenon, <1>1, <1>3, <1>4, <1>8, <1>10, InsertTypes DEF TypeOK
<1>16. /\ \A i \in SeqNos : Height(i)' = Height(i) /\ batches'[i] = batches[i]
       /\ \A i \in {Len(batches) + 1} : i \notin SeqNos /\ Height(i)' = Height(o)
  BY Zenon, <1>8, <1>14 DEF Height
<1>17. Base' = Len(batches) + 1 /\ Height(Base)' = Height(o)
  BY <1>8, <1>14, Zenon DEF Base, Height
<1>18. Loop'
  BY Zenon, <1>1, <1>10, <1>13, <1>14, <1>16, <1>17, LoopGoesOn
<1>19. Heads'
  BY <1>12, <1>13, <1>14 DEF Heads
<1>20. Cover'
  <2>1. LedgerBatches' = canonicalBatches \cup {Len(batches) + 1} \cup (batchesToDuplicate \ {o})
    BY Zenon, <1>10, <1>13 DEF LedgerBatches
  <2>2. ASSUME NEW i \in SeqNos PROVE \E j \in LedgerBatches' : Height(j)' = Height(i)'
    <3>1. PICK j \in LedgerBatches : Height(j) = Height(i)
      BY Zenon, <1>1 DEF Cover
    <3>2. CASE j = o
      BY Zenon, <1>16, <2>1, <3>1, <3>2
    <3>3. CASE j # o
      BY Zenon, <1>3, <1>16, <2>1, <3>1, <3>3 DEF LedgerBatches
    <3> QED
      BY Zenon, <3>2, <3>3
  <2> QED
    BY Zenon, <1>14, <2>1, <2>2 DEF Cover
<1> QED
  BY Zenon, <1>13, <1>14, <1>15, <1>18, <1>19, <1>20 DEF IInv, NoCrit

\* b is one above a canonical batch, or the first, and above all batches stored
Fresh(b) ==
  /\ pc \in {"idle", "system"}
  /\ currentL1Head \in Block
  /\ b.l1Proof = currentL1Head
  /\ batches = <<>> => b.parent = 0 /\ b.height = 0
  /\ batches # <<>> => b.parent \in canonicalBatches /\ b.height = Height(b.parent) + 1
  /\ \A i \in SeqNos : Height(i) < b.height

\* A batch produced outside duplicateBatches keeps the invariant, if it is above
\* all others.
LEMMA ProduceStep ==
  ASSUME IInv, NEW b \in Batch, Fresh(b), Produce(Len(batches) + 1, b)
  PROVE  IInv'
<1>0. /\ pc \in {"idle", "system"} /\ currentL1Head \in Block /\ b.l1Proof = currentL1Head
      /\ batches = <<>> => b.parent = 0 /\ b.height = 0
      /\ batches # <<>> => b.parent \in canonicalBatches /\ b.height = Height(b.parent) + 1
      /\ \A i \in SeqNos : Height(i) < b.height
  BY Zenon DEF Fresh
<1>1. /\ TypeOK /\ Linked /\ Chained /\ Layered /\ Filled /\ Flags /\ Heads /\ Loop /\ Cover
      /\ TransactionsReadable /\ batchesToDuplicate = {} /\ pc # "execute"
  BY <1>0, Zenon DEF IInv, Loop
<1>2. /\ canonicalBatches \subseteq SeqNos
      /\ Len(batches) \in Nat /\ SeqNos = 1 .. Len(batches)
      /\ \A i \in SeqNos : Height(i) \in Nat
      /\ b.height \in Nat
  BY Zenon, <1>1, BatchFacts DEF TypeOK, Batch
<1>3. ~Rejects(Len(batches) + 1, b)
  <2>1. Len(batches) + 1 \notin SeqNos
    BY <1>2
  <2>2. CASE batches = <<>>
    <3>1. Len(batches) = 0
      BY Zenon, <2>2
    <3> QED
      BY <2>1, <3>1 DEF Rejects, InvalidChaining, L2GenesisSeqNo
  <2>3. CASE batches # <<>>
    BY Zenon, <1>0, <2>1, <2>3 DEF Rejects, InvalidChaining
  <2> QED
    BY <2>2, <2>3, Zenon
<1>4. InsertBatch(Len(batches) + 1, b) /\ UNCHANGED dupVars
  BY <1>3, Zenon DEF Produce
<1>5. /\ batchesToDuplicate' = {} /\ batchesToExclude' = batchesToExclude
      /\ previous' = previous /\ currentHead' = currentHead
  BY Zenon, <1>1, <1>4 DEF dupVars
<1>6. \A c \in canonicalBatches : Height(c) < b.height
  BY Zenon, <1>0, <1>2
<1>7. \A i \in SeqNos : Height(i) = b.height => b.txs = txTable[b.height]
  BY <1>0, <1>2
<1>8. /\ Linked' /\ Chained' /\ Layered' /\ Filled' /\ Flags' /\ TransactionsReadable'
      /\ Tip(Len(batches))'
      /\ canonicalBatches' = canonicalBatches \cup {Len(batches) + 1}
  BY Zenon, <1>0, <1>1, <1>4, <1>6, <1>7, Insert
<1>9. /\ Len(batches') = Len(batches) + 1
      /\ SeqNos' = SeqNos \cup {Len(batches) + 1}
      /\ \A i \in SeqNos : batches'[i] = batches[i]
      /\ pc' = "execute"
  BY Zenon, <1>1, <1>4, InsertFacts DEF InsertBatch
<1>10. TypeOK'
  BY Zenon, <1>1, <1>4, <1>5, InsertTypes DEF TypeOK
<1>11. Loop'
  BY Zenon, <1>1, <1>5, <1>8, <1>9 DEF Loop
<1>12. Heads'
  <2>1. batches' # <<>>
    <3>1. Len(batches') > 0
      BY <1>2, <1>9
    <3> QED
      BY <3>1
  <2> QED
    BY <1>8, <1>9, <2>1, Zenon DEF Heads
<1>13. Cover'
  <2>1. LedgerBatches' = LedgerBatches \cup {Len(batches) + 1}
    BY Zenon, <1>1, <1>5, <1>8 DEF LedgerBatches
  <2>2. LedgerBatches \subseteq SeqNos
    BY Zenon, <1>1, <1>2 DEF LedgerBatches
  <2>3. \A i \in SeqNos : Height(i)' = Height(i)
    BY <1>9, Zenon DEF Height
  <2> QED
    BY <1>1, <1>9, <2>1, <2>2, <2>3 DEF Cover
<1> QED
  BY Zenon, <1>8, <1>9, <1>10, <1>11, <1>12, <1>13 DEF IInv, NoCrit

\* createGenesisBatch, its first batch: no batch is stored yet.
LEMMA GenesisBatch ==
  ASSUME IInv, CreateGenesisBatch
  PROVE  \E b \in Batch : Fresh(b) /\ Produce(Len(batches) + 1, b)
<1>1. TypeOK /\ Heads /\ pc = "idle" /\ headBatchSeq = 0 /\ currentL1Head # NoBlock
  BY Zenon DEF IInv, CreateGenesisBatch, PreGenesis
<1>2. batches = <<>>
  <2>1. 0 \notin SeqNos
    BY <1>1, BatchFacts
  <2> QED
    BY Zenon, <1>1, <2>1 DEF Heads, Tip, TypeOK
<1>3. Len(batches) = 0 /\ SeqNos = {} /\ currentL1Head \in Block
  BY <1>1, <1>2, BatchFacts DEF TypeOK
<1>4. PICK b : b = [height |-> L2GenesisHeight, parent |-> 0, l1Proof |-> currentL1Head, txs |-> NoTxs]
  BY Zenon
<1>5. b \in Batch /\ b.l1Proof = currentL1Head /\ b.parent = 0 /\ b.height = 0
  BY Zenon, <1>3, <1>4 DEF Batch, L2GenesisHeight
<1>6. Produce(Len(batches) + 1, b)
  BY <1>3, <1>4 DEF CreateGenesisBatch, L2GenesisSeqNo
<1> QED
  BY Zenon, <1>1, <1>2, <1>3, <1>5, <1>6 DEF Fresh

\* createGenesisBatch, its second batch: the first is the only one.
LEMMA SystemBatch ==
  ASSUME IInv, CreateSystemBatch
  PROVE  \E b \in Batch : Fresh(b) /\ Produce(Len(batches) + 1, b)
<1>1. TypeOK /\ Chained /\ Flags /\ Heads /\ pc = "system" /\ Len(batches) = 1
  BY Zenon DEF IInv, CreateSystemBatch, Heads
<1>2. SeqNos = {1} /\ batches # <<>>
  BY <1>1, BatchFacts
<1>3. 1 \in canonicalBatches /\ Height(1) = 0 /\ currentL1Head \in Block
  BY <1>1, <1>2, Zenon DEF Flags, Chained, Branch, TypeOK
<1>4. PICK b : b = [height |-> L2GenesisHeight + 1, parent |-> L2GenesisSeqNo,
                    l1Proof |-> currentL1Head, txs |-> SystemTxs]
  BY Zenon
<1>5. b \in Batch /\ b.l1Proof = currentL1Head /\ b.parent = 1 /\ b.height = 1
  BY <1>3, <1>4 DEF Batch, L2GenesisHeight, L2GenesisSeqNo
<1>6. Produce(Len(batches) + 1, b)
  BY Zenon, <1>1, <1>4 DEF CreateSystemBatch, L2GenesisSeqNo
<1> QED
  BY <1>1, <1>2, <1>3, <1>5, <1>6 DEF Fresh

\* createNewHeadBatch: no batch, canonical or not, is above the head batch.
LEMMA HeadBatch ==
  ASSUME IInv, NEW t \in Txs, CreateBatch(t)
  PROVE  \E b \in Batch : Fresh(b) /\ Produce(Len(batches) + 1, b)
<1>1. /\ TypeOK /\ Flags /\ Heads /\ Loop /\ Cover /\ pc = "idle" /\ headBatchSeq # 0
      /\ headBatchSeq \in canonicalBatches
  BY Zenon DEF IInv, CreateBatch, HeadBatchUsable
<1>2. /\ canonicalBatches \subseteq SeqNos /\ SeqNos = 1 .. Len(batches)
      /\ \A i \in SeqNos : Height(i) \in Nat
  BY Zenon, <1>1, BatchFacts DEF TypeOK
<1>3. batches # <<>> /\ Tip(headBatchSeq) /\ currentL1Head \in Block
  BY Zenon, <1>1, <1>2 DEF Heads, Flags, Branch, TypeOK
<1>4. LedgerBatches = canonicalBatches
  BY <1>1, Zenon DEF LedgerBatches, Loop
<1>5. PICK b : b = [height |-> Height(headBatchSeq) + 1, parent |-> headBatchSeq,
                    l1Proof |-> currentL1Head, txs |-> t]
  BY Zenon
<1>6. /\ b \in Batch /\ b.l1Proof = currentL1Head /\ b.parent = headBatchSeq
      /\ b.height = Height(headBatchSeq) + 1
  BY <1>1, <1>2, <1>3, <1>5 DEF Batch
<1>7. \A i \in SeqNos : Height(i) < b.height
  BY <1>1, <1>2, <1>3, <1>4, <1>6 DEF Cover, Tip
<1>8. Produce(Len(batches) + 1, b)
  BY Zenon, <1>5 DEF CreateBatch
<1> QED
  BY Zenon, <1>1, <1>3, <1>6, <1>7, <1>8 DEF Fresh

\* A restart between calls finds the heads it had in memory.
LEMMA RestartStep ==
  ASSUME IInv, lastBlock = currentL1Head, Restart
  PROVE  IInv'
<1>1. /\ TypeOK /\ Linked /\ Chained /\ Layered /\ Filled /\ Flags /\ Heads /\ Loop /\ Cover
      /\ TransactionsReadable /\ pc = "idle"
  BY Zenon DEF IInv, Restart
<1>2. /\ blocks' = blocks /\ lastBlock' = lastBlock /\ canonicalBlocks' = canonicalBlocks
      /\ batches' = batches /\ canonicalBatches' = canonicalBatches /\ txTable' = txTable
      /\ executed' = executed /\ currentL1Head' = currentL1Head
      /\ pc' = "idle" /\ batchesToDuplicate' = {} /\ batchesToExclude' = {}
      /\ previous' = 0 /\ currentHead' = 0
  BY Zenon DEF Restart, Reload, dbVars
<1>3. /\ SeqNos' = SeqNos
      /\ \A i : Height(i)' = Height(i) /\ L1Proof(i)' = L1Proof(i)
  BY Zenon, <1>2 DEF SeqNos, Height, L1Proof
<1>4. Linked' /\ Chained' /\ Layered' /\ Filled' /\ TransactionsReadable'
  BY Zenon, <1>1, <1>2, SameTables
<1>5. Flags'
  BY Zenon, <1>1, <1>2, <1>3 DEF Flags, Branch
<1>6. canonicalBatches \cap executed = canonicalBatches
  BY <1>1, Zenon DEF Flags, TypeOK
<1>7. HeadBatches(canonicalBatches) = {i \in canonicalBatches : Tip(i)}
  BY <1>6, Zenon DEF HeadBatches, Tip
<1>8. headBatchSeq' \in SeqNos \cup {0} /\ Heads'
  <2>1. CASE batches = <<>>
    <3>1. canonicalBatches = {}
      BY <1>1, <2>1, BatchFacts DEF TypeOK
    <3>2. headBatchSeq' = 0
      BY Zenon, <1>7, <3>1 DEF Restart, Reload
    <3> QED
      BY Zenon, <1>2, <2>1, <3>2 DEF Heads
  <2>2. CASE batches # <<>>
    <3>1. headBatchSeq \in HeadBatches(canonicalBatches)
      BY Zenon, <1>1, <1>7, <2>2 DEF Heads, Tip
    <3>2. headBatchSeq' \in HeadBatches(canonicalBatches)
      BY <3>1, Zenon DEF Restart, Reload
    <3>3. Tip(headBatchSeq')
      BY Zenon, <1>7, <3>2
    <3>4. Tip(headBatchSeq)'
      BY Zenon, <1>2, <3>3 DEF Tip, Height
    <3> QED
      BY Zenon, <1>1, <1>2, <2>2, <3>3, <3>4 DEF Heads, Tip, TypeOK
  <2> QED
    BY Zenon, <2>1, <2>2
<1>9. Loop'
  BY Zenon, <1>2 DEF Loop
<1>10. Cover'
  BY Zenon, <1>1, <1>2, <1>3 DEF Cover, LedgerBatches, Loop
<1>11. TypeOK'
  BY Zenon, <1>1, <1>2, <1>3, <1>8 DEF TypeOK
<1> QED
  BY Zenon, <1>2, <1>4, <1>5, <1>8, <1>9, <1>10, <1>11 DEF IInv, NoCrit

\* A step that changes nothing keeps the invariant.
LEMMA StutterStep ==
  ASSUME IInv, UNCHANGED vars
  PROVE  IInv'
<1>1. /\ TypeOK /\ NoCrit /\ Linked /\ Chained /\ Layered /\ Filled /\ Flags /\ Heads /\ Loop /\ Cover
      /\ TransactionsReadable
  BY Zenon DEF IInv
<1>2. /\ blocks' = blocks /\ lastBlock' = lastBlock /\ canonicalBlocks' = canonicalBlocks
      /\ batches' = batches /\ canonicalBatches' = canonicalBatches /\ executed' = executed
      /\ txTable' = txTable /\ currentL1Head' = currentL1Head /\ headBatchSeq' = headBatchSeq
      /\ pc' = pc /\ batchesToDuplicate' = batchesToDuplicate
      /\ batchesToExclude' = batchesToExclude /\ previous' = previous /\ currentHead' = currentHead
  BY Zenon DEF vars, dbVars, memVars, dupVars
<1>3. /\ SeqNos' = SeqNos
      /\ \A i : Height(i)' = Height(i) /\ L1Proof(i)' = L1Proof(i)
  BY Zenon, <1>2 DEF SeqNos, Height, L1Proof
<1>4. Linked' /\ Chained' /\ Layered' /\ Filled' /\ TransactionsReadable'
  BY Zenon, <1>1, <1>2, SameTables
<1>5. TypeOK' /\ NoCrit'
  BY <1>1, <1>2, <1>3, Zenon DEF TypeOK, NoCrit
<1>6. Flags'
  BY Zenon, <1>1, <1>2, <1>3 DEF Flags, Branch
<1>7. Heads'
  <2>1. \A i : Tip(i)' <=> Tip(i)
    BY Zenon, <1>2, <1>3 DEF Tip
  <2>2. Tip(headBatchSeq)' <=> Tip(headBatchSeq)
    BY Zenon, <1>2, <2>1 DEF Tip, Height
  <2>3. Tip(Len(batches))' <=> Tip(Len(batches))
    BY Zenon, <1>2, <2>1 DEF Tip, Height
  <2> QED
    BY Zenon, <1>1, <1>2, <2>2, <2>3 DEF Heads
<1>8. Loop'
  <2>1. \A d : Lowest(d)' <=> Lowest(d)
    BY Zenon, <1>2, <1>3 DEF Lowest, IsNext
  <2>2. Height(Base)' = Height(Base)
    BY Zenon, <1>2 DEF Base, Height
  <2> QED
    BY Zenon, <1>1, <1>2, <1>3, <2>1, <2>2 DEF Loop
<1>9. Cover'
  BY <1>1, <1>2, <1>3, Zenon DEF Cover, LedgerBatches
<1> QED
  BY <1>4, <1>5, <1>6, <1>7, <1>8, <1>9, Zenon DEF IInv
=============================================================================
