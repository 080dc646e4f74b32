------------------------ MODULE CrossChainBundlesProofs ------------------------
(***************************************************************************)
(* Proofs about CrossChainBundles, for every set of batches with messages  *)
(* and every bound: what went through carries the roots of the rollup it is *)
(* for (BundlesAreRight, whatever happens), the rollups the machine has     *)
(* recorded are of one fork (OneForkKept), and it never moves past a rollup *)
(* whose roots are neither on the L1 nor on their way there                 *)
(* (NoBundleSkipped).                                                       *)
(*                                                                         *)
(* The invariant has a part that always holds, and three that each need     *)
(* some mishaps not to have happened.  The first rests on the ids: a fork   *)
(* gives a rollup an id the machine has not seen, so a record that is of    *)
(* the chain now was read from this chain, with everything below it.        *)
(***************************************************************************)
EXTENDS CrossChainBundles, TLAPS

(* A record of a rollup (of the machine, or in a bundle) is of the chain     *)
(* that ends in the contract state c.                                        *)
On(c, r) == r.num \in 1..Len(c.rollups) /\ c.rollups[r.num].uid = r.uid

(* The roots of rollup n, in the contract state c.                          *)
Roots(c, n) ==
  CrossChainRootHashes(IF n = 1 THEN 0 ELSE c.rollups[n - 1].last + 1, c.rollups[n].last)

(* A transaction was sent for rollup n of this chain, if it has any roots.  *)
Dealt(c, sent, n) ==
  \/ Roots(c, n) = {}
  \/ \E i \in 1..Len(sent) : On(c, sent[i]) /\ sent[i].num = n

(* The state c comes before the state d, or is the same.                    *)
Before(c, d) ==
  /\ Len(c.rollups) <= Len(d.rollups)
  /\ \A n \in 1..Len(c.rollups) : c.rollups[n] = d.rollups[n]
  /\ c.mined <= d.mined

Rollup == [uid : Nat, last : Nat]
ContractState == [rollups : Seq(Rollup), mined : Nat, saved : SUBSET Nat]
Bundle == [num : 0..MaxUid, uid : 0..MaxUid, roots : SUBSET WithMessages]

Types ==
  /\ chain \in Seq(ContractState)
  /\ txs \in Seq(Bundle)
  /\ uids \in 0..MaxUid
  /\ TypeOK

(* What holds in a contract state c: the rollups have known ids, as many at  *)
(* least as there are rollups, and a transaction that went through was for a *)
(* rollup of this chain.                                                     *)
StateOK(c, sent, ids) ==
  /\ \A n \in 1..Len(c.rollups) : /\ c.rollups[n].uid \in n..ids
                                  /\ c.rollups[n].last \in 1..MaxSeqNo
  /\ c.mined <= Len(sent)
  /\ c.saved \subseteq 1..c.mined
  /\ \A i \in c.saved : On(c, sent[i])

ChainInv ==
  /\ Len(chain) > 0
  /\ \A a \in 1..Len(chain) : StateOK(chain[a], txs, uids)
  /\ \A a, b \in 1..Len(chain) : a <= b => Before(chain[a], chain[b])

(* While no rollup overlaps another, the batches of the rollups follow each  *)
(* other, and a transaction for a rollup of the chain that did not go        *)
(* through had its roots published by another.                               *)
Clean(c, sent) ==
  /\ \A n, k \in 1..Len(c.rollups) : n < k => c.rollups[n].last < c.rollups[k].last
  /\ \A i \in 1..c.mined :
       On(c, sent[i]) => \E j \in c.saved : sent[j].roots = sent[i].roots

CleanInv == "overlap" \notin mishaps => \A a \in 1..Len(chain) : Clean(chain[a], txs)

(* What was sent for a rollup of the chain carries its roots.               *)
SentInv ==
  \A i \in 1..Len(txs) :
    /\ txs[i].uid \in 1..uids
    /\ On(contract, txs[i]) => txs[i].roots = Roots(contract, txs[i].num)

(* The machine's records.                                                   *)
RecordInv ==
  /\ latest.num = 0 => latest = NoRollup
  /\ history[0] = NoRollup
  /\ \A n \in 1..latest.num : GetRollupData(n).num = n /\ GetRollupData(n).uid \in 1..uids

(* Unless the L1 forked between the calls of Synchronize, the records below  *)
(* one that is of the chain are of the chain too.                            *)
ForkInv ==
  "forkInSync" \notin mishaps =>
    /\ \A n \in 1..latest.num :
         On(contract, GetRollupData(n)) =>
           \A k \in 1..n : On(contract, GetRollupData(k))
    /\ pc = "syncNext" => latest.num = 0 \/ On(contract, latest)

(* What the needle has passed was dealt with.                               *)
NeedleInv ==
  mishaps \subseteq {"forkInSync"} =>
    /\ pc # "revert" => current <= latest.num
    /\ \A n \in 1..latest.num :
         n <= current /\ On(contract, GetRollupData(n)) => Dealt(contract, txs, n)

(* The locals, once GetBundleRange has begun.                               *)
LocalsInv ==
  /\ pc \in {"range", "check", "send", "await"} => current < latest.num
  /\ pc = "range" =>
       (On(contract, GetRollupData(current + 1)) =>
          begin = IF current = 0 THEN 0 ELSE LastSequenceNumber(current) + 1)
  /\ pc \in {"check", "send", "await"} =>
       /\ bundle.num = current + 1
       /\ bundle.uid = GetRollupData(current + 1).uid
       /\ On(contract, bundle) => bundle.roots = Roots(contract, current + 1)
  /\ pc = "await" => Len(txs) > 0 /\ txs[Len(txs)] = bundle

IInv ==
  /\ Types /\ ChainInv /\ SentInv /\ RecordInv /\ LocalsInv
  /\ CleanInv /\ ForkInv /\ NeedleInv

------------------------------------------------------------------------------
(* Two states of the contract.                                              *)

(* The states c and d have the same rollups, as far as both have any.       *)
Agree(c, d) ==
  \A n \in 1..Len(c.rollups) : n \in 1..Len(d.rollups) => c.rollups[n] = d.rollups[n]

(* On the rollups that two states share, a bundle has the same roots in both.*)
LEMMA RootsAgree ==
  ASSUME NEW c \in ContractState, NEW d \in ContractState, Agree(c, d),
         NEW n \in 1..Len(c.rollups), n \in 1..Len(d.rollups)
  PROVE  Roots(c, n) = Roots(d, n)
<1>1. c.rollups[n] = d.rollups[n]
  BY Zenon DEF Agree
<1>2. n # 1 => c.rollups[n - 1] = d.rollups[n - 1]
  <2>1. Len(c.rollups) \in Nat /\ Len(d.rollups) \in Nat
    BY DEF ContractState
  <2>2. n # 1 => n - 1 \in 1..Len(c.rollups) /\ n - 1 \in 1..Len(d.rollups)
    BY <2>1
  <2> QED  BY <2>2, Zenon DEF Agree
<1> QED  BY <1>1, <1>2, Zenon DEF Roots

(* A record of a rollup both states have is of both chains or of neither.   *)
LEMMA OnAgree ==
  ASSUME NEW c \in ContractState, NEW d \in ContractState, Agree(c, d),
         NEW r, On(c, r), r.num \in 1..Len(d.rollups)
  PROVE  On(d, r)
BY Zenon DEF On, Agree

(* A rollup both states have is dealt with in both or in neither.           *)
LEMMA DealtAgree ==
  ASSUME NEW c \in ContractState, NEW d \in ContractState, Agree(c, d), NEW sent,
         NEW n \in 1..Len(c.rollups), n \in 1..Len(d.rollups), Dealt(c, sent, n)
  PROVE  Dealt(d, sent, n)
<1>1. Roots(c, n) = Roots(d, n)
  BY RootsAgree, Zenon
<1>2. \A i \in 1..Len(sent) : On(c, sent[i]) /\ sent[i].num = n => On(d, sent[i])
  BY OnAgree, Zenon
<1> QED  BY <1>1, <1>2, Zenon DEF Dealt

(* Another transaction does not undo what was dealt with.                   *)
LEMMA DealtMore ==
  ASSUME NEW c, NEW sent \in Seq(Bundle), NEW b \in Bundle, NEW n, Dealt(c, sent, n)
  PROVE  Dealt(c, Append(sent, b), n)
<1>1. \A i \in 1..Len(sent) : i \in 1..Len(Append(sent, b)) /\ Append(sent, b)[i] = sent[i]
  OBVIOUS
<1> QED  BY <1>1, Zenon DEF Dealt

(* The batches of two rollups do not overlap, so a root is of one rollup.   *)
LEMMA RootsDisjoint ==
  ASSUME NEW c \in ContractState, NEW sent, NEW ids, StateOK(c, sent, ids), Clean(c, sent),
         NEW n \in 1..Len(c.rollups), NEW k \in 1..Len(c.rollups), n # k
  PROVE  Roots(c, n) \intersect Roots(c, k) = {}
<1>1. Len(c.rollups) \in Nat
  BY DEF ContractState
<1>2. ASSUME NEW x \in 1..Len(c.rollups), NEW y \in 1..Len(c.rollups), x < y
      PROVE  Roots(c, x) \intersect Roots(c, y) = {}
  <2>1. y # 1 /\ y - 1 \in 1..Len(c.rollups) /\ (x = y - 1 \/ x < y - 1)
    BY <1>1, <1>2
  <2>2. c.rollups[x].last <= c.rollups[y - 1].last
    <3>1. /\ \A i \in 1..Len(c.rollups) : c.rollups[i].last \in 1..MaxSeqNo
          /\ \A i, j \in 1..Len(c.rollups) : i < j => c.rollups[i].last < c.rollups[j].last
      BY Zenon DEF StateOK, Clean
    <3>2. c.rollups[x].last \in Int /\ c.rollups[y - 1].last \in Int
      BY <2>1, <3>1
    <3>3. CASE x = y - 1
      BY <3>2, <3>3
    <3>4. CASE x < y - 1
      <4>1. c.rollups[x].last < c.rollups[y - 1].last
        BY <2>1, <3>1, <3>4, Zenon
      <4> QED  BY <3>2, <4>1
    <3> QED  BY <2>1, <3>3, <3>4, Zenon
  <2>3. \A r \in Roots(c, x) : r \in Int /\ r <= c.rollups[x].last
    BY DEF Roots, CrossChainRootHashes
  <2>4. \A r \in Roots(c, y) : r \in Int /\ r >= c.rollups[y - 1].last + 1
    BY <2>1 DEF Roots, CrossChainRootHashes
  <2>5. c.rollups[x].last \in Int /\ c.rollups[y - 1].last \in Int
    BY <2>1 DEF StateOK
  <2> QED  BY <2>2, <2>3, <2>4, <2>5
<1>3. CASE n < k  BY <1>2, <1>3, Zenon
<1>4. CASE k < n  BY <1>2, <1>4, Zenon
<1> QED  BY <1>1, <1>3, <1>4

------------------------------------------------------------------------------
(* The first state.                                                         *)

LEMMA InitIInv == Init => IInv
<1> SUFFICES ASSUME Init PROVE IInv
  OBVIOUS
<1> USE BundlesAssumption
<1>1. Types
  <2>1. chain \in Seq(ContractState)
    BY DEF Init, ContractState
  <2>2. txs \in Seq(Bundle) /\ uids \in 0..MaxUid
    BY DEF Init
  <2>3. TypeOK
    BY DEF Init, MachineStarts, TypeOK, Info, NoRollup, NoBundle
  <2> QED  BY <2>1, <2>2, <2>3, Zenon DEF Types
<1>2. Len(chain) = 1 /\ chain[1] = [rollups |-> <<>>, mined |-> 0, saved |-> {}] /\ txs = <<>>
  BY Zenon DEF Init
<1>3. \A a \in 1..Len(chain) : a = 1
  BY <1>2
<1>4. ChainInv
  <2>1. StateOK(chain[1], txs, uids)
    BY <1>2 DEF StateOK
  <2>2. Before(chain[1], chain[1])
    BY <1>2 DEF Before
  <2>3. Len(chain) > 0
    BY <1>2
  <2> QED  BY <1>3, <2>1, <2>2, <2>3, Zenon DEF ChainInv
<1>5. CleanInv
  <2>1. Clean(chain[1], txs)
    BY <1>2 DEF Clean
  <2> QED  BY <1>3, <2>1, Zenon DEF CleanInv
<1>6. SentInv
  BY <1>2 DEF SentInv
<1>7. latest = NoRollup /\ latest.num = 0 /\ current = 0 /\ pc = "idle" /\ history[0] = NoRollup
  BY DEF Init, MachineStarts, NoRollup
<1>8. RecordInv
  BY <1>7 DEF RecordInv
<1>9. ForkInv
  BY <1>7 DEF ForkInv
<1>10. NeedleInv
  BY <1>7 DEF NeedleInv
<1>11. LocalsInv
  BY <1>7, Zenon DEF LocalsInv
<1> QED  BY <1>1, <1>4, <1>5, <1>6, <1>8, <1>9, <1>10, <1>11, Zenon DEF IInv

------------------------------------------------------------------------------
(* The steps of the L1.                                                     *)

LEMMA ContractTypes ==
  ASSUME Types, ChainInv
  PROVE  /\ contract \in ContractState /\ StateOK(contract, txs, uids)
         /\ Len(contract.rollups) \in Nat /\ contract.mined \in Nat
         /\ Len(chain) \in 1..Len(chain) /\ Len(txs) \in Nat
         /\ uids \in Nat
<1>1. Len(chain) \in Nat /\ Len(chain) \in 1..Len(chain)
  BY DEF Types, ChainInv
<1>2. contract \in ContractState
  BY <1>1 DEF Types, contract
<1>3. StateOK(contract, txs, uids)
  BY <1>1, Zenon DEF ChainInv, contract
<1>4. Len(contract.rollups) \in Nat /\ contract.mined \in Nat
  BY <1>2 DEF ContractState
<1>5. Len(txs) \in Nat /\ uids \in Nat
  BY BundlesAssumption DEF Types
<1> QED  BY <1>1, <1>2, <1>3, <1>4, <1>5, Zenon

(* The ids of the rollups are known ones.                                   *)
LEMMA KnownIds ==
  ASSUME NEW c, NEW sent, NEW ids \in Nat, StateOK(c, sent, ids), NEW n \in 1..Len(c.rollups)
  PROVE  /\ c.rollups[n].uid \in 1..ids /\ n \in 1..ids
         /\ c.rollups[n].last \in 1..MaxSeqNo
<1>1. c.rollups[n].uid \in n..ids /\ c.rollups[n].last \in 1..MaxSeqNo
  BY Zenon DEF StateOK
<1> QED  BY <1>1

LEMMA RecordTypes ==
  ASSUME Types
  PROVE  /\ latest.num \in 0..MaxUid /\ latest.uid \in 0..MaxUid /\ current \in 0..MaxUid
         /\ \A n \in 0..MaxUid : GetRollupData(n) \in Info /\ history[n] \in Info
         /\ bundle \in Bundle /\ MaxSeqNo \in Nat /\ MaxUid \in Nat
         /\ latest = [uid |-> latest.uid, num |-> latest.num]
BY BundlesAssumption, Zenon DEF Types, TypeOK, Info, Bundle, GetRollupData

(* What the L1 does leaves the machine's part of the invariant alone: the    *)
(* rollups it keeps are the same, and those it adds have ids the machine has *)
(* not seen.                                                                 *)
LEMMA L1Keeps ==
  ASSUME IInv, (Types /\ ChainInv /\ CleanInv)', uids' >= uids,
         UNCHANGED <<txs, machine, pc, locals>>, mishaps \subseteq mishaps',
         Agree(contract, contract'), Agree(contract', contract),
         \A n \in 1..Len(contract'.rollups) :
           contract'.rollups[n].uid <= uids => n \in 1..Len(contract.rollups),
         pc = "syncNext" /\ "forkInSync" \notin mishaps' =>
           \/ Len(contract.rollups) <= Len(contract'.rollups)
           \/ latest.num <= Len(contract'.rollups)
  PROVE  IInv'
<1> DEFINE c == contract
           d == contract'
<1>1. /\ c \in ContractState /\ d \in ContractState
      /\ Len(c.rollups) \in Nat /\ Len(d.rollups) \in Nat
      /\ uids \in Nat /\ uids' \in Nat
  <2>1. c \in ContractState /\ Len(c.rollups) \in Nat /\ uids \in Nat
    BY ContractTypes, Zenon DEF IInv
  <2>2. Len(chain') \in Nat /\ Len(chain') \in 1..Len(chain')
    BY DEF Types, ChainInv
  <2>3. d \in ContractState
    BY <2>2 DEF Types, contract
  <2>4. Len(d.rollups) \in Nat
    BY <2>3 DEF ContractState
  <2>5. uids' \in Nat
    BY BundlesAssumption DEF Types
  <2> QED  BY <2>1, <2>3, <2>4, <2>5, Zenon
<1>2. /\ txs' = txs /\ latest' = latest /\ history' = history /\ current' = current
      /\ pc' = pc /\ begin' = begin /\ bundle' = bundle
  BY Zenon DEF machine, locals
<1>3. \A n : GetRollupData(n)' = GetRollupData(n)
  BY <1>2, Zenon DEF GetRollupData
<1>4. ASSUME NEW r, r.uid \in 1..uids, On(d, r)
      PROVE  On(c, r)
  BY <1>1, <1>4 DEF On, Agree
<1>5. ASSUME NEW r, On(c, r), r.num \in 1..Len(d.rollups)
      PROVE  On(d, r)
  BY <1>1, <1>5, OnAgree, Zenon
<1>6. ASSUME NEW n \in 1..Len(c.rollups), n \in 1..Len(d.rollups)
      PROVE  Roots(c, n) = Roots(d, n)
  BY <1>1, <1>6, RootsAgree, Zenon
<1>7. ASSUME NEW n \in 1..Len(c.rollups), n \in 1..Len(d.rollups), Dealt(c, txs, n)
      PROVE  Dealt(d, txs, n)
  <2> HIDE DEF c, d
  <2>1. Agree(c, d)
    BY Zenon DEF c, d
  <2> QED  BY <1>1, <1>7, <2>1, DealtAgree, Zenon
<1> HIDE DEF c, d
<1>8. \A r : On(c, r) => r.num \in 1..Len(c.rollups)
  BY Zenon DEF On
<1>9. \A r : On(d, r) => r.num \in 1..Len(d.rollups)
  BY Zenon DEF On
<1>10. SentInv'
  <2> SUFFICES ASSUME NEW i \in 1..Len(txs)
               PROVE  /\ txs[i].uid \in 1..uids'
                      /\ On(d, txs[i]) => txs[i].roots = Roots(d, txs[i].num)
    BY <1>2, Zenon DEF SentInv, d
  <2>1. /\ txs[i].uid \in 1..uids
        /\ On(c, txs[i]) => txs[i].roots = Roots(c, txs[i].num)
    BY Zenon DEF IInv, SentInv, c
  <2>2. txs[i].uid \in 1..uids'
    BY <1>1, <2>1
  <2>3. ASSUME On(d, txs[i])
        PROVE  txs[i].roots = Roots(d, txs[i].num)
    <3>1. On(c, txs[i])
      BY <2>1, <2>3, <1>4, Zenon
    <3>2. txs[i].num \in 1..Len(c.rollups) /\ txs[i].num \in 1..Len(d.rollups)
      BY <3>1, <2>3, <1>8, <1>9, Zenon
    <3> QED  BY <2>1, <3>1, <3>2, <1>6, Zenon
  <2> QED  BY <2>2, <2>3, Zenon
<1>11. \A n \in 1..latest.num : GetRollupData(n).num = n /\ GetRollupData(n).uid \in 1..uids
  BY Zenon DEF IInv, RecordInv
<1>12. RecordInv'
  <2>1. \A n \in 1..latest.num : GetRollupData(n).uid \in 1..uids'
    BY <1>1, <1>11
  <2> QED  BY <1>2, <1>3, <1>11, <2>1, Zenon DEF IInv, RecordInv
<1>13. ForkInv'
  <2> SUFFICES ASSUME "forkInSync" \notin mishaps'
               PROVE  /\ \A n \in 1..latest.num :
                           On(d, GetRollupData(n)) => \A k \in 1..n : On(d, GetRollupData(k))
                      /\ pc = "syncNext" => latest.num = 0 \/ On(d, latest)
    BY <1>2, <1>3, Zenon DEF ForkInv, d
  <2>1. /\ \A n \in 1..latest.num :
             On(c, GetRollupData(n)) => \A k \in 1..n : On(c, GetRollupData(k))
        /\ pc = "syncNext" => latest.num = 0 \/ On(c, latest)
    BY Zenon DEF IInv, ForkInv, c
  <2>2. latest.num \in Nat
    BY RecordTypes DEF IInv
  <2>3. ASSUME NEW n \in 1..latest.num, On(d, GetRollupData(n)), NEW k \in 1..n
        PROVE  On(d, GetRollupData(k))
    <3>1. On(c, GetRollupData(n))
      BY <1>11, <2>3, <1>4, Zenon
    <3>2. On(c, GetRollupData(k))
      BY <2>1, <3>1, Zenon
    <3>3. k \in 1..latest.num /\ n \in 1..Len(d.rollups)
      BY <1>11, <2>2, <2>3, <1>9
    <3>4. GetRollupData(k).num = k /\ k \in 1..Len(d.rollups)
      BY <1>11, <3>3, <1>1
    <3> QED  BY <3>2, <3>4, <1>5, Zenon
  <2>4. ASSUME pc = "syncNext", On(c, latest)
        PROVE  On(d, latest)
    <3>1. latest.num \in 1..Len(c.rollups)
      BY <1>8, <2>4, Zenon
    <3>2. Len(c.rollups) <= Len(d.rollups) \/ latest.num <= Len(d.rollups)
      BY <2>4, Zenon DEF c, d
    <3>3. latest.num \in 1..Len(d.rollups)
      BY <1>1, <3>1, <3>2
    <3> QED  BY <1>5, <2>4, <3>3, Zenon
  <2> QED  BY <2>1, <2>3, <2>4, Zenon
<1>14. NeedleInv'
  <2> SUFFICES ASSUME mishaps' \subseteq {"forkInSync"}
               PROVE  /\ pc # "revert" => current <= latest.num
                      /\ \A n \in 1..latest.num :
                           n <= current /\ On(d, GetRollupData(n)) => Dealt(d, txs, n)
    BY <1>2, <1>3, Zenon DEF NeedleInv, d
  <2>1. /\ pc # "revert" => current <= latest.num
        /\ \A n \in 1..latest.num :
             n <= current /\ On(c, GetRollupData(n)) => Dealt(c, txs, n)
    BY Zenon DEF IInv, NeedleInv, c
  <2>2. ASSUME NEW n \in 1..latest.num, n <= current, On(d, GetRollupData(n))
        PROVE  Dealt(d, txs, n)
    <3>1. On(c, GetRollupData(n))
      BY <1>11, <2>2, <1>4, Zenon
    <3>2. n \in 1..Len(c.rollups) /\ n \in 1..Len(d.rollups)
      BY <1>11, <3>1, <2>2, <1>8, <1>9, Zenon
    <3> QED  BY <2>1, <2>2, <3>1, <3>2, <1>7, Zenon
  <2> QED  BY <2>1, <2>2, Zenon
<1>15. LocalsInv'
  <2>1. /\ pc \in {"range", "check", "send", "await"} => current < latest.num
        /\ pc = "range" =>
             (On(c, GetRollupData(current + 1)) =>
                begin = IF current = 0 THEN 0 ELSE c.rollups[current].last + 1)
        /\ pc \in {"check", "send", "await"} =>
             /\ bundle.num = current + 1
             /\ bundle.uid = GetRollupData(current + 1).uid
             /\ On(c, bundle) => bundle.roots = Roots(c, current + 1)
        /\ pc = "await" => Len(txs) > 0 /\ txs[Len(txs)] = bundle
    BY Zenon DEF IInv, LocalsInv, LastSequenceNumber, c
  <2>2. latest.num \in Nat /\ current \in Nat
    BY RecordTypes DEF IInv
  <2>3. current < latest.num => /\ GetRollupData(current + 1).num = current + 1
                                /\ GetRollupData(current + 1).uid \in 1..uids
    BY <2>2 DEF IInv, RecordInv
  <2>4. ASSUME pc = "range", On(d, GetRollupData(current + 1))
        PROVE  begin = IF current = 0 THEN 0 ELSE d.rollups[current].last + 1
    <3>1. On(c, GetRollupData(current + 1))
      BY <2>1, <2>3, <2>4, <1>4, Zenon
    <3>2. current + 1 \in 1..Len(c.rollups) /\ current + 1 \in 1..Len(d.rollups)
      BY <3>1, <2>1, <2>3, <2>4, <1>8, <1>9, Zenon
    <3>3. current # 0 => current \in 1..Len(c.rollups) /\ current \in 1..Len(d.rollups)
      BY <3>2, <2>2, <1>1
    <3>4. current # 0 => c.rollups[current] = d.rollups[current]
      BY <3>3, Zenon DEF Agree, c, d
    <3> QED  BY <2>1, <2>4, <3>1, <3>4, Zenon
  <2>5. ASSUME pc \in {"check", "send", "await"}, On(d, bundle)
        PROVE  bundle.roots = Roots(d, current + 1)
    <3>1. On(c, bundle)
      BY <2>1, <2>3, <2>5, <1>4, Zenon
    <3>2. current + 1 \in 1..Len(c.rollups) /\ current + 1 \in 1..Len(d.rollups)
      BY <3>1, <2>1, <2>5, <1>8, <1>9, Zenon
    <3> QED  BY <2>1, <2>5, <3>1, <3>2, <1>6, Zenon
  <2> QED  BY <1>2, <1>3, <2>1, <2>4, <2>5, Zenon DEF LocalsInv, LastSequenceNumber, d
<1> QED  BY <1>10, <1>12, <1>13, <1>14, <1>15, Zenon DEF IInv

(* A state stays right when more is sent and more rollups are mined.        *)
LEMMA StateKept ==
  ASSUME NEW c \in ContractState, NEW sent, NEW more, NEW ids \in Nat, NEW newIds \in Nat,
         StateOK(c, sent, ids), ids <= newIds, Len(sent) \in Nat, Len(more) \in Nat,
         Len(sent) <= Len(more), \A i \in 1..Len(sent) : more[i] = sent[i]
  PROVE  StateOK(c, more, newIds) /\ (Clean(c, sent) => Clean(c, more))
<1>1. c.mined \in Nat /\ c.mined <= Len(sent)
  BY Zenon DEF ContractState, StateOK
<1>2. \A i \in 1..c.mined : more[i] = sent[i]
  BY <1>1
<1>3. c.mined <= Len(more)
  BY <1>1
<1>4. \A n \in 1..Len(c.rollups) : c.rollups[n].uid \in n..newIds
  BY DEF StateOK
<1>5. c.saved \subseteq 1..c.mined
  BY Zenon DEF StateOK
<1>6. \A i \in c.saved : On(c, more[i])
  BY <1>2, <1>5, Zenon DEF StateOK
<1>7. Clean(c, sent) => Clean(c, more)
  BY <1>2, <1>5, Zenon DEF Clean
<1> QED  BY <1>3, <1>4, <1>5, <1>6, <1>7, Zenon DEF StateOK

(* The chain grows by a state that is right and comes after the last one.   *)
LEMMA ChainGrows ==
  ASSUME Types, ChainInv, CleanInv, NEW d \in ContractState, chain' = Append(chain, d),
         uids' \in Nat, uids <= uids', txs' = txs, mishaps \subseteq mishaps',
         StateOK(d, txs, uids'), Before(contract, d),
         "overlap" \notin mishaps' => Clean(d, txs)
  PROVE  ChainInv' /\ CleanInv' /\ contract' = d
<1>1. /\ Len(chain) \in Nat /\ Len(chain) \in 1..Len(chain) /\ Len(txs) \in Nat /\ uids \in Nat
      /\ chain \in Seq(ContractState)
  BY ContractTypes DEF Types
<1>2. /\ Len(chain') = Len(chain) + 1 /\ chain'[Len(chain) + 1] = d
      /\ \A a \in 1..Len(chain) : chain'[a] = chain[a]
  BY <1>1
<1>3. \A a \in 1..Len(chain') : a \in 1..Len(chain) \/ a = Len(chain) + 1
  BY <1>1, <1>2
<1>4. ASSUME NEW a \in 1..Len(chain)
      PROVE  StateOK(chain[a], txs, uids')
  <2>1. chain[a] \in ContractState /\ StateOK(chain[a], txs, uids) /\ Len(txs) <= Len(txs)
    BY <1>1 DEF ChainInv
  <2> QED  BY <1>1, <2>1, StateKept, Zenon
<1>5. ASSUME NEW a \in 1..Len(chain)
      PROVE  Before(chain[a], d)
  <2>1. Before(chain[a], contract)
    BY <1>1 DEF ChainInv, contract
  <2>2. chain[a] \in ContractState /\ contract \in ContractState
    BY <1>1, ContractTypes
  <2> QED  BY <2>1, <2>2 DEF Before, ContractState
<1>6. Before(d, d)
  BY DEF Before, ContractState
<1>7. Len(chain') > 0 /\ contract' = d
  BY <1>1, <1>2 DEF contract
<1>8. \A a \in 1..Len(chain') : StateOK(chain'[a], txs', uids')
  BY <1>2, <1>3, <1>4, Zenon
<1>9. ASSUME NEW a \in 1..Len(chain'), NEW b \in 1..Len(chain'), a <= b
      PROVE  Before(chain'[a], chain'[b])
  <2>1. CASE a \in 1..Len(chain) /\ b \in 1..Len(chain)
    <3>1. chain'[a] = chain[a] /\ chain'[b] = chain[b]
      BY <1>2, <2>1, Zenon
    <3> QED  BY <2>1, <3>1, <1>9, Zenon DEF ChainInv
  <2>2. CASE a \in 1..Len(chain) /\ b = Len(chain) + 1
    BY <1>2, <1>5, <2>2, Zenon
  <2>3. CASE a = Len(chain) + 1
    <3>1. b = Len(chain) + 1
      BY <1>1, <1>3, <1>9, <2>3
    <3> QED  BY <1>2, <1>6, <2>3, <3>1, Zenon
  <2> QED  BY <1>3, <2>1, <2>2, <2>3, Zenon
<1>10. CleanInv'
  <2> SUFFICES ASSUME "overlap" \notin mishaps', NEW a \in 1..Len(chain')
               PROVE  Clean(chain'[a], txs)
    BY Zenon DEF CleanInv
  <2>1. \A b \in 1..Len(chain) : Clean(chain[b], txs)
    BY Zenon DEF CleanInv
  <2> QED  BY <1>2, <1>3, <2>1, Zenon
<1> QED  BY <1>7, <1>8, <1>9, <1>10, Zenon DEF ChainInv

(* The contract's own state is one of the chain's.                          *)
LEMMA ContractClean ==
  ASSUME Types, ChainInv, CleanInv, "overlap" \notin mishaps
  PROVE  Clean(contract, txs)
BY ContractTypes, Zenon DEF CleanInv, contract

LEMMA AppendRollupIInv == IInv /\ AppendRollup => IInv'
<1> SUFFICES ASSUME IInv, AppendRollup PROVE IInv'
  OBVIOUS
<1>1. /\ contract \in ContractState /\ StateOK(contract, txs, uids)
      /\ Len(contract.rollups) \in Nat /\ contract.mined \in Nat
      /\ Len(txs) \in Nat /\ uids \in Nat
  BY ContractTypes, Zenon DEF IInv
<1>2. PICK last \in 1..MaxSeqNo :
        /\ chain' = Append(chain, [contract EXCEPT
                            !.rollups = Append(@, [uid |-> uids + 1, last |-> last])])
        /\ mishaps' = IF Overlaps(last) THEN mishaps \union {"overlap"} ELSE mishaps
  BY Zenon DEF AppendRollup
<1>3. uids < MaxUid /\ uids' = uids + 1 /\ UNCHANGED <<txs, machine, pc, locals>> /\ txs' = txs
  BY Zenon DEF AppendRollup
<1> DEFINE new == [uid |-> uids + 1, last |-> last]
           d == [contract EXCEPT !.rollups = Append(@, new)]
           l == Len(contract.rollups)
<1>4. new \in Rollup /\ last \in Nat
  BY <1>1, BundlesAssumption DEF Rollup
<1>5. /\ d \in ContractState /\ d.rollups = Append(contract.rollups, new)
      /\ d.mined = contract.mined /\ d.saved = contract.saved
  <2> HIDE DEF new
  <2>1. contract.rollups \in Seq(Rollup)
    BY <1>1, Zenon DEF ContractState
  <2>2. Append(contract.rollups, new) \in Seq(Rollup)
    BY <1>4, <2>1
  <2> QED  BY <1>1, <2>2, Zenon DEF ContractState
<1>6. /\ Len(d.rollups) = l + 1 /\ d.rollups[l + 1] = new
      /\ \A n \in 1..l : d.rollups[n] = contract.rollups[n]
  BY <1>1, <1>4, <1>5 DEF ContractState
<1>7. chain' = Append(chain, d)
  BY <1>2, Zenon
<1>8. new.uid = uids + 1 /\ new.last = last
  OBVIOUS
<1> HIDE DEF new, d
<1>9. l \in Nat /\ \A n \in 1..l + 1 : n \in 1..l \/ n = l + 1
  BY <1>1
<1> HIDE DEF l
<1>10. ASSUME NEW i \in 1..d.mined, On(d, txs[i])
       PROVE  On(contract, txs[i])
  <2>1. i \in 1..Len(txs)
    BY <1>1, <1>5 DEF StateOK
  <2>2. txs[i].uid \in 1..uids
    BY <2>1, Zenon DEF IInv, SentInv
  <2>3. txs[i].num # l + 1
    <3>1. txs[i].num = l + 1 => txs[i].uid = uids + 1
      BY <1>10, <1>6, <1>8, Zenon DEF On
    <3>2. txs[i].uid # uids + 1
      BY <2>2, <1>1
    <3> QED  BY <3>1, <3>2, Zenon
  <2> QED  BY <2>3, <1>10, <1>6, <1>9, Zenon DEF On, l
<1>11. \A n \in 1..l : /\ contract.rollups[n].uid \in n..uids
                       /\ contract.rollups[n].last \in 1..MaxSeqNo
  BY <1>1, Zenon DEF StateOK, l
<1>12. StateOK(d, txs, uids')
  <2>1. l <= uids
    <3>1. CASE l = 0
      BY <3>1, <1>1
    <3>2. CASE l # 0
      <4>1. l \in 1..l
        BY <3>2, <1>9
      <4>2. contract.rollups[l].uid \in l..uids
        BY <4>1, <1>11, Zenon
      <4> QED  BY <4>2, <1>1, <1>9
    <3> QED  BY <3>1, <3>2, Zenon
  <2>2. ASSUME NEW n \in 1..l
        PROVE  d.rollups[n].uid \in n..uids' /\ d.rollups[n].last \in 1..MaxSeqNo
    <3>1. d.rollups[n] = contract.rollups[n] /\ contract.rollups[n].uid \in n..uids
      BY <1>6, <1>11, Zenon
    <3>2. \A u \in n..uids : u \in n..uids'
      BY <1>1, <1>3
    <3> QED  BY <3>1, <3>2, <1>11, Zenon
  <2>3. d.rollups[l + 1].uid \in l + 1..uids' /\ d.rollups[l + 1].last \in 1..MaxSeqNo
    BY <1>1, <1>3, <1>6, <1>8, <1>9, <2>1
  <2>4. \A n \in 1..l + 1 : d.rollups[n].uid \in n..uids' /\ d.rollups[n].last \in 1..MaxSeqNo
    BY <1>9, <2>2, <2>3, Zenon
  <2>5. \A i \in d.saved : On(d, txs[i])
    <3> SUFFICES ASSUME NEW i \in d.saved PROVE On(d, txs[i])
      OBVIOUS
    <3>1. On(contract, txs[i])
      BY <1>1, <1>5, Zenon DEF StateOK
    <3> QED  BY <3>1, <1>6, <1>9 DEF On, l
  <2>6. d.mined <= Len(txs) /\ d.saved \subseteq 1..d.mined
    BY <1>1, <1>5, Zenon DEF StateOK
  <2> QED  BY <1>6, <2>4, <2>5, <2>6, Zenon DEF StateOK
<1>13. ASSUME "overlap" \notin mishaps'
       PROVE  Clean(d, txs)
  <2>1. ~Overlaps(last) /\ "overlap" \notin mishaps
    BY <1>2, <1>13, Zenon
  <2>2. Clean(contract, txs)
    BY <2>1, ContractClean, Zenon DEF IInv
  <2>3. \A n, k \in 1..l : n < k => contract.rollups[n].last < contract.rollups[k].last
    BY <2>2, Zenon DEF Clean, l
  <2>4. ASSUME NEW n \in 1..l
        PROVE  contract.rollups[n].last < last
    <3>1. l \in 1..l /\ (n = l \/ n < l) /\ l > 0
      BY <1>9
    <3>2. contract.rollups[n].last \in Int /\ contract.rollups[l].last \in Int
      BY <1>11, <3>1
    <3>3. contract.rollups[l].last < last
      BY <2>1, <3>1, <3>2, <1>4 DEF Overlaps, LastSequenceNumber, l
    <3> QED  BY <2>3, <3>1, <3>2, <3>3, <1>4
  <2>5. ASSUME NEW n \in 1..l + 1, NEW k \in 1..l + 1, n < k
        PROVE  d.rollups[n].last < d.rollups[k].last
    <3>1. n \in 1..l
      BY <2>5, <1>9
    <3>2. CASE k \in 1..l
      BY <3>1, <3>2, <2>3, <2>5, <1>6, Zenon
    <3>3. CASE k = l + 1
      BY <3>1, <3>3, <2>4, <1>6, <1>8, Zenon
    <3> QED  BY <1>9, <3>2, <3>3, Zenon
  <2>6. \A i \in 1..d.mined :
          On(d, txs[i]) => \E j \in d.saved : txs[j].roots = txs[i].roots
    BY <1>5, <1>10, <2>2, Zenon DEF Clean
  <2> QED  BY <1>6, <2>5, <2>6, Zenon DEF Clean
<1>14. Before(contract, d)
  BY <1>1, <1>5, <1>6, <1>9 DEF Before, l
<1>15. /\ uids' \in Nat /\ uids <= uids' /\ uids' \in 0..MaxUid /\ mishaps \subseteq mishaps'
       /\ "forkInSync" \in mishaps' => "forkInSync" \in mishaps
  BY <1>1, <1>2, <1>3, BundlesAssumption
<1>16. ChainInv' /\ CleanInv' /\ contract' = d
  BY <1>3, <1>5, <1>7, <1>12, <1>13, <1>14, <1>15, ChainGrows, Zenon DEF IInv
<1>17. Types'
  <2>1. mishaps' \subseteq {"overlap", "forkInSync", "revertFailed", "sendFailed"}
    BY <1>2 DEF IInv, Types, TypeOK
  <2>2. TypeOK'
    BY <1>3, <2>1, Zenon DEF IInv, Types, TypeOK, machine, locals
  <2>3. chain' \in Seq(ContractState)
    BY <1>5, <1>7 DEF IInv, Types
  <2> QED  BY <2>2, <2>3, <1>3, <1>15, Zenon DEF IInv, Types
<1>18. Agree(contract, contract') /\ Agree(contract', contract)
  BY <1>6, <1>16, Zenon DEF Agree, l
<1>19. \A n \in 1..Len(contract'.rollups) :
         contract'.rollups[n].uid <= uids => n \in 1..Len(contract.rollups)
  BY <1>1, <1>6, <1>8, <1>9, <1>16 DEF l
<1>20. Len(contract.rollups) <= Len(contract'.rollups) /\ uids' >= uids
  BY <1>1, <1>3, <1>6, <1>9, <1>16 DEF l
<1> QED  BY <1>3, <1>15, <1>16, <1>17, <1>18, <1>19, <1>20, L1Keeps, Zenon

(* The contract knows the id of a record exactly when it is of its chain.   *)
LEMMA OnUid ==
  ASSUME NEW r, r.uid # 0
  PROVE  GetUniqueForkID(r.num) = r.uid <=> On(contract, r)
BY Zenon DEF GetUniqueForkID, On

(* A bundle of this chain that shares a root with one that went through has  *)
(* the same roots: it is the bundle of the same rollup.                      *)
LEMMA SharedRoots ==
  ASSUME IInv, "overlap" \notin mishaps,
         NEW b, On(contract, b), b.roots = Roots(contract, b.num),
         b.roots \intersect UNION isBundleSaved # {}
  PROVE  \E j \in contract.saved :
           /\ j \in 1..Len(txs) /\ On(contract, txs[j])
           /\ txs[j].num = b.num /\ txs[j].roots = b.roots
<1>1. PICK j \in contract.saved : txs[j].roots \intersect b.roots # {}
  BY Zenon DEF isBundleSaved
<1>2. contract \in ContractState /\ StateOK(contract, txs, uids)
      /\ contract.mined \in Nat /\ Len(txs) \in Nat
  BY ContractTypes, Zenon DEF IInv
<1>3. j \in 1..Len(txs) /\ On(contract, txs[j])
  <2>1. j \in 1..contract.mined /\ contract.mined <= Len(txs) /\ On(contract, txs[j])
    BY <1>2, Zenon DEF StateOK
  <2> QED  BY <2>1, <1>2
<1>4. txs[j].roots = Roots(contract, txs[j].num)
  BY <1>3, Zenon DEF IInv, SentInv
<1>5. txs[j].num \in 1..Len(contract.rollups) /\ b.num \in 1..Len(contract.rollups)
  BY <1>3, Zenon DEF On
<1>6. txs[j].num = b.num
  <2>1. Clean(contract, txs)
    BY ContractClean, Zenon DEF IInv
  <2> QED  BY <1>1, <1>2, <1>4, <1>5, <2>1, RootsDisjoint, Zenon
<1> QED  BY <1>3, <1>4, <1>6, Zenon

LEMMA MineBundleIInv == IInv /\ MineBundle => IInv'
<1> SUFFICES ASSUME IInv, MineBundle PROVE IInv'
  OBVIOUS
<1>1. /\ contract \in ContractState /\ StateOK(contract, txs, uids)
      /\ Len(contract.rollups) \in Nat /\ contract.mined \in Nat
      /\ Len(txs) \in Nat /\ uids \in Nat
  BY ContractTypes, Zenon DEF IInv
<1> DEFINE nonce == contract.mined + 1
           tx == txs[nonce]
           saved == IF Accepted(tx) THEN contract.saved \union {nonce} ELSE contract.saved
           d == [contract EXCEPT !.mined = nonce, !.saved = saved]
<1>2. /\ nonce <= Len(txs) /\ chain' = Append(chain, d)
      /\ uids' = uids /\ txs' = txs /\ mishaps' = mishaps
      /\ UNCHANGED <<txs, machine, pc, locals>>
  BY Zenon DEF MineBundle
<1>3. nonce \in Nat /\ nonce \in 1..Len(txs)
  BY <1>1, <1>2
<1> HIDE DEF saved
<1>4. saved \subseteq Nat
  BY <1>1, <1>3, Zenon DEF saved, ContractState
<1> HIDE DEF nonce
<1>5. d \in ContractState /\ d.rollups = contract.rollups /\ d.mined = nonce /\ d.saved = saved
  BY <1>1, <1>3, <1>4, Zenon DEF ContractState
<1> HIDE DEF d
<1>6. \A r : On(d, r) <=> On(contract, r)
  BY <1>5, Zenon DEF On
<1>7. tx.uid # 0
  <2>1. tx.uid \in 1..uids
    BY <1>3, Zenon DEF IInv, SentInv
  <2> QED  BY <2>1
<1> HIDE DEF tx
<1>8. Accepted(tx) => On(contract, tx)
  BY <1>7, OnUid, Zenon DEF Accepted
<1>9. StateOK(d, txs, uids)
  <2>1. saved \subseteq 1..nonce
    <3>1. contract.saved \subseteq 1..contract.mined
      BY <1>1, Zenon DEF StateOK
    <3> QED  BY <3>1, <1>1, <1>3 DEF saved, nonce
  <2>2. \A i \in saved : On(contract, txs[i])
    BY <1>1, <1>8, Zenon DEF StateOK, saved, tx
  <2>3. contract.saved \subseteq saved
    BY Zenon DEF saved
  <2>4. \A n \in 1..Len(d.rollups) : /\ d.rollups[n].uid \in n..uids
                                     /\ d.rollups[n].last \in 1..MaxSeqNo
    BY <1>1, <1>5, Zenon DEF StateOK
  <2>5. \A i \in d.saved : On(d, txs[i])
    BY <1>5, <1>6, <2>2, Zenon
  <2>6. d.mined <= Len(txs) /\ d.saved \subseteq 1..d.mined
    BY <1>2, <1>5, <2>1, Zenon
  <2> QED  BY <2>4, <2>5, <2>6, Zenon DEF StateOK
<1>10. ASSUME "overlap" \notin mishaps
       PROVE  Clean(d, txs)
  <2>1. Clean(contract, txs)
    BY <1>10, ContractClean, Zenon DEF IInv
  <2>2. contract.saved \subseteq saved
    BY Zenon DEF saved
  <2>3. ASSUME NEW i \in 1..nonce, On(contract, txs[i])
        PROVE  \E j \in saved : txs[j].roots = txs[i].roots
    <3>1. CASE i \in 1..contract.mined
      BY <3>1, <2>1, <2>2, <2>3, Zenon DEF Clean
    <3>2. CASE i = nonce
      <4>1. CASE Accepted(tx)
        BY <3>2, <4>1, Zenon DEF saved
      <4>2. CASE ~Accepted(tx)
        <5>1. On(contract, tx)
          BY <2>3, <3>2, Zenon DEF tx
        <5>2. tx.roots \intersect UNION isBundleSaved # {}
          BY <4>2, <5>1, <1>7, OnUid, Zenon DEF Accepted
        <5>3. tx.roots = Roots(contract, tx.num)
          BY <1>3, <5>1, Zenon DEF IInv, SentInv, tx
        <5> QED  BY <1>10, <5>1, <5>2, <5>3, <2>2, <3>2, SharedRoots, Zenon DEF tx
      <4> QED  BY <4>1, <4>2, Zenon
    <3>3. i \in 1..contract.mined \/ i = nonce
      BY <1>1 DEF nonce
    <3> QED  BY <3>1, <3>2, <3>3, Zenon
  <2>4. \A i \in 1..d.mined :
          On(d, txs[i]) => \E j \in d.saved : txs[j].roots = txs[i].roots
    BY <1>5, <1>6, <2>3, Zenon
  <2> QED  BY <1>5, <2>1, <2>4, Zenon DEF Clean
<1>11. Before(contract, d)
  BY <1>1, <1>5 DEF Before, nonce
<1>12. ChainInv' /\ CleanInv' /\ contract' = d
  <2>1. uids' \in Nat /\ uids <= uids' /\ StateOK(d, txs, uids') /\ mishaps \subseteq mishaps'
    BY <1>1, <1>2, <1>9
  <2> QED  BY <1>2, <1>5, <1>10, <1>11, <2>1, ChainGrows, Zenon DEF IInv
<1>13. Types'
  <2>1. TypeOK'
    BY <1>2, Zenon DEF IInv, Types, TypeOK, machine, locals
  <2>2. chain' \in Seq(ContractState)
    BY <1>2, <1>5 DEF IInv, Types
  <2> QED  BY <2>1, <2>2, <1>2, Zenon DEF IInv, Types
<1>14. Agree(contract, contract') /\ Agree(contract', contract)
  BY <1>5, <1>12, Zenon DEF Agree
<1>15. /\ \A n \in 1..Len(contract'.rollups) :
            contract'.rollups[n].uid <= uids => n \in 1..Len(contract.rollups)
       /\ Len(contract.rollups) <= Len(contract'.rollups)
       /\ uids' >= uids /\ mishaps \subseteq mishaps'
  BY <1>1, <1>2, <1>5, <1>12
<1> QED  BY <1>2, <1>12, <1>13, <1>14, <1>15, L1Keeps, Zenon

LEMMA ReorgIInv == IInv /\ Reorg => IInv'
<1> SUFFICES ASSUME IInv, Reorg PROVE IInv'
  OBVIOUS
<1>1. PICK n \in 1..Len(chain) - 1 :
        /\ chain' = SubSeq(chain, 1, n)
        /\ mishaps' = IF pc = "syncNext" /\ latest.num > Len(chain[n].rollups)
                      THEN mishaps \union {"forkInSync"} ELSE mishaps
  BY Zenon DEF Reorg
<1>2. /\ Len(chain) \in Nat /\ chain \in Seq(ContractState) /\ uids \in Nat
      /\ contract \in ContractState /\ Len(chain) \in 1..Len(chain)
  BY ContractTypes DEF IInv, Types
<1>3. uids' = uids /\ txs' = txs /\ UNCHANGED <<txs, machine, pc, locals>>
  BY Zenon DEF Reorg
<1>4. /\ chain' \in Seq(ContractState) /\ Len(chain') = n /\ n \in 1..Len(chain) /\ n \in Nat
      /\ \A a \in 1..n : chain'[a] = chain[a] /\ a \in 1..Len(chain)
  BY <1>1, <1>2
<1>5. contract' = chain[n] /\ contract' \in ContractState
  BY <1>2, <1>4 DEF contract
<1>6. ChainInv'
  <2>1. \A a \in 1..Len(chain') : StateOK(chain'[a], txs', uids')
    BY <1>3, <1>4, Zenon DEF IInv, ChainInv
  <2>2. \A a, b \in 1..Len(chain') : a <= b => Before(chain'[a], chain'[b])
    BY <1>4, Zenon DEF IInv, ChainInv
  <2>3. Len(chain') > 0
    BY <1>4
  <2> QED  BY <2>1, <2>2, <2>3, Zenon DEF ChainInv
<1>7. CleanInv' /\ mishaps \subseteq mishaps'
  <2>1. mishaps \subseteq mishaps' /\ ("overlap" \in mishaps' => "overlap" \in mishaps)
    BY <1>1
  <2> QED  BY <1>3, <1>4, <2>1, Zenon DEF IInv, CleanInv
<1>8. Types'
  <2>1. mishaps' \subseteq {"overlap", "forkInSync", "revertFailed", "sendFailed"}
    BY <1>1 DEF IInv, Types, TypeOK
  <2>2. TypeOK'
    BY <1>3, <2>1, Zenon DEF IInv, Types, TypeOK, machine, locals
  <2> QED  BY <2>2, <1>3, <1>4, Zenon DEF IInv, Types
<1>9. Before(contract', contract)
  BY <1>2, <1>4, <1>5 DEF IInv, ChainInv, contract
<1>10. Len(contract.rollups) \in Nat /\ Len(contract'.rollups) \in Nat
  <2>1. \A c \in ContractState : Len(c.rollups) \in Nat
    BY DEF ContractState
  <2> QED  BY <1>2, <1>5, <2>1, Zenon
<1>11. /\ Agree(contract, contract') /\ Agree(contract', contract)
       /\ \A k \in 1..Len(contract'.rollups) : k \in 1..Len(contract.rollups)
  <2>1. /\ Len(contract'.rollups) <= Len(contract.rollups)
        /\ \A k \in 1..Len(contract'.rollups) : contract'.rollups[k] = contract.rollups[k]
    BY <1>9, Zenon DEF Before
  <2>2. \A k \in 1..Len(contract'.rollups) : k \in 1..Len(contract.rollups)
    BY <1>10, <2>1
  <2> QED  BY <2>1, <2>2, Zenon DEF Agree
<1>12. uids' >= uids
  BY <1>2, <1>3
<1>13. pc = "syncNext" /\ "forkInSync" \notin mishaps' => latest.num <= Len(contract'.rollups)
  <2>1. latest.num \in Nat
    BY RecordTypes DEF IInv
  <2>2. pc = "syncNext" /\ "forkInSync" \notin mishaps' => ~(latest.num > Len(contract'.rollups))
    BY <1>1, <1>5, Zenon
  <2> QED  BY <1>10, <2>1, <2>2
<1> QED  BY <1>3, <1>6, <1>7, <1>8, <1>11, <1>12, <1>13, L1Keeps, Zenon

------------------------------------------------------------------------------
(* The steps of the machine, which read the L1 and leave it alone.          *)

LEMMA L1Quiet ==
  ASSUME IInv, UNCHANGED <<chain, uids, txs>>, "overlap" \in mishaps => "overlap" \in mishaps'
  PROVE  contract' = contract /\ ChainInv' /\ CleanInv' /\ SentInv'
<1>1. chain' = chain /\ uids' = uids /\ txs' = txs /\ contract' = contract
  BY Zenon DEF contract
<1>2. ChainInv'
  BY <1>1, Zenon DEF IInv, ChainInv
<1>3. CleanInv'
  BY <1>1, Zenon DEF IInv, CleanInv
<1>4. SentInv'
  BY <1>1, Zenon DEF IInv, SentInv
<1> QED  BY <1>1, <1>2, <1>3, <1>4, Zenon

(* The records the machine works with, and that the latest is one of them.  *)
LEMMA Records ==
  ASSUME IInv
  PROVE  /\ \A n \in 1..latest.num : GetRollupData(n).num = n /\ GetRollupData(n).uid \in 1..uids
         /\ latest.num \in 0..MaxUid /\ current \in 0..MaxUid /\ MaxUid \in Nat
         /\ GetRollupData(latest.num) = latest
         /\ latest.num # 0 => latest.uid # 0
         /\ \A n \in 1..latest.num - 1 : GetRollupData(n) = history[n]
<1>1. \A n \in 1..latest.num : GetRollupData(n).num = n /\ GetRollupData(n).uid \in 1..uids
  BY Zenon DEF IInv, RecordInv
<1>2. latest.num \in 0..MaxUid /\ current \in 0..MaxUid /\ MaxUid \in Nat
  BY RecordTypes, Zenon DEF IInv
<1>3. GetRollupData(latest.num) = latest
  BY Zenon DEF GetRollupData
<1>4. latest.num # 0 => latest.uid # 0
  <2>1. latest.num # 0 => latest.num \in 1..latest.num
    BY <1>2
  <2>2. latest.num # 0 => latest.uid \in 1..uids
    BY <2>1, <1>1, <1>3, Zenon
  <2> QED  BY <2>2
<1>5. \A n \in 1..latest.num - 1 : GetRollupData(n) = history[n]
  BY <1>2 DEF GetRollupData
<1> QED  BY <1>1, <1>2, <1>3, <1>4, <1>5, Zenon

(* A step that only moves the program counter, and sets what it then needs.  *)
LEMMA SameRecords ==
  ASSUME IInv, UNCHANGED <<chain, uids, txs, latest, history>>, TypeOK',
         mishaps \subseteq mishaps',
         pc' = "syncNext" => latest.num = 0 \/ On(contract, latest)
  PROVE  (Types /\ ChainInv /\ CleanInv /\ SentInv /\ RecordInv /\ ForkInv)'
<1>1. /\ chain' = chain /\ uids' = uids /\ txs' = txs /\ latest' = latest /\ history' = history
      /\ contract' = contract /\ ChainInv' /\ CleanInv' /\ SentInv'
  BY L1Quiet, Zenon
<1>2. Types'
  BY <1>1, Zenon DEF IInv, Types
<1>3. \A n : GetRollupData(n)' = GetRollupData(n)
  BY <1>1, Zenon DEF GetRollupData
<1>4. RecordInv'
  BY <1>1, <1>3, Zenon DEF IInv, RecordInv
<1>5. ForkInv'
  BY <1>1, <1>3, Zenon DEF IInv, ForkInv
<1> QED  BY <1>1, <1>2, <1>4, <1>5, Zenon

LEMMA IdleTypes ==
  /\ 0 \in 0..MaxSeqNo + 1 /\ NoBundle \in Bundle
  /\ "idle" \in {"idle", "syncNext", "revert", "publish", "range", "check", "send", "await"}
BY BundlesAssumption DEF NoBundle, Bundle

(* The handler returns and the needle stays.                                *)
LEMMA ReturnIInv ==
  ASSUME IInv, UNCHANGED <<chain, uids, txs, latest, history, current>>, Return,
         mishaps \subseteq mishaps',
         mishaps' \subseteq {"overlap", "forkInSync", "revertFailed", "sendFailed"},
         pc = "revert" /\ mishaps' \subseteq {"forkInSync"} => current <= latest.num
  PROVE  IInv'
<1>1. TypeOK'
  BY IdleTypes, Zenon DEF IInv, Types, TypeOK, Return, Bundle
<1>2. (Types /\ ChainInv /\ CleanInv /\ SentInv /\ RecordInv /\ ForkInv)'
  BY <1>1, SameRecords, Zenon DEF Return
<1>3. /\ contract' = contract /\ txs' = txs /\ latest' = latest /\ current' = current
      /\ pc' = "idle"
  BY L1Quiet, Zenon DEF Return
<1>4. \A n : GetRollupData(n)' = GetRollupData(n)
  BY Zenon DEF GetRollupData
<1>5. NeedleInv'
  BY <1>3, <1>4, Zenon DEF IInv, NeedleInv
<1>6. LocalsInv'
  BY <1>3, Zenon DEF LocalsInv
<1> QED  BY <1>2, <1>5, <1>6, Zenon DEF IInv

(* The handler returns and the needle moves up, past a rollup dealt with.   *)
LEMMA NextRollupIInv ==
  ASSUME IInv, UNCHANGED <<chain, uids, txs, latest, history>>, NextRollup, Return,
         pc \in {"check", "send", "await"}, mishaps \subseteq mishaps',
         mishaps' \subseteq {"overlap", "forkInSync", "revertFailed", "sendFailed"},
         mishaps' \subseteq {"forkInSync"} /\ On(contract, GetRollupData(current + 1)) =>
           Dealt(contract, txs, current + 1)
  PROVE  IInv'
<1>1. /\ latest.num \in 0..MaxUid /\ current \in 0..MaxUid /\ MaxUid \in Nat
      /\ current < latest.num
  BY Records, Zenon DEF IInv, LocalsInv
<1>2. TypeOK'
  <2>1. current' \in 0..MaxUid
    BY <1>1 DEF NextRollup
  <2> QED  BY <2>1, IdleTypes, Zenon DEF IInv, Types, TypeOK, Return, Bundle
<1>3. (Types /\ ChainInv /\ CleanInv /\ SentInv /\ RecordInv /\ ForkInv)'
  BY <1>2, SameRecords, Zenon DEF Return
<1>4. /\ contract' = contract /\ txs' = txs /\ latest' = latest /\ current' = current + 1
      /\ pc' = "idle"
  BY L1Quiet, Zenon DEF Return, NextRollup
<1>5. \A n : GetRollupData(n)' = GetRollupData(n)
  BY Zenon DEF GetRollupData
<1>6. ASSUME mishaps' \subseteq {"forkInSync"},
             NEW n \in 1..latest.num, n <= current + 1, On(contract, GetRollupData(n))
      PROVE  Dealt(contract, txs, n)
  <2>1. CASE n <= current
    BY <1>6, <2>1, Zenon DEF IInv, NeedleInv
  <2>2. CASE n = current + 1
    BY <1>6, <2>2, Zenon
  <2> QED  BY <1>1, <1>6, <2>1, <2>2
<1>7. NeedleInv'
  <2>1. current + 1 <= latest.num
    BY <1>1
  <2> QED  BY <1>4, <1>5, <1>6, <2>1, Zenon DEF NeedleInv
<1>8. LocalsInv'
  BY <1>4, Zenon DEF LocalsInv
<1> QED  BY <1>3, <1>7, <1>8, Zenon DEF IInv

LEMMA SynchronizeIInv == IInv /\ Synchronize => IInv'
<1> SUFFICES ASSUME IInv, Synchronize PROVE IInv'
  OBVIOUS
<1>1. /\ UNCHANGED <<chain, uids, txs, latest, history>> /\ current' = current /\ pc = "idle"
      /\ begin' = begin /\ bundle' = bundle /\ latest' = latest /\ txs' = txs
      /\ pc' \in {"syncNext", "revert"}
      /\ pc' = "syncNext" => GetUniqueForkID(latest.num) = latest.uid
      /\ mishaps' = mishaps /\ mishaps \subseteq mishaps'
  BY Zenon DEF Synchronize, l1, machine, locals
<1>2. TypeOK'
  BY <1>1, Zenon DEF IInv, Types, TypeOK
<1>3. pc' = "syncNext" => latest.num = 0 \/ On(contract, latest)
  BY <1>1, Records, OnUid, Zenon
<1>4. (Types /\ ChainInv /\ CleanInv /\ SentInv /\ RecordInv /\ ForkInv)' /\ contract' = contract
  BY <1>1, <1>2, <1>3, SameRecords, L1Quiet, Zenon
<1>5. \A n : GetRollupData(n)' = GetRollupData(n)
  BY <1>1, Zenon DEF GetRollupData
<1>6. NeedleInv'
  BY <1>1, <1>4, <1>5, Zenon DEF IInv, NeedleInv
<1>7. LocalsInv'
  BY <1>1, Zenon DEF LocalsInv
<1> QED  BY <1>4, <1>6, <1>7, Zenon DEF IInv

LEMMA SynchronizeNextIInv == IInv /\ SynchronizeNext => IInv'
<1> SUFFICES ASSUME IInv, SynchronizeNext PROVE IInv'
  OBVIOUS
<1> DEFINE uid == GetUniqueForkID(latest.num + 1)
<1>1. /\ UNCHANGED <<chain, uids, txs>> /\ current' = current /\ pc = "syncNext"
      /\ begin' = begin /\ bundle' = bundle /\ pc' = "publish" /\ uids' = uids
      /\ mishaps' = mishaps /\ mishaps \subseteq mishaps'
  BY Zenon DEF SynchronizeNext, l1, locals
<1>2. contract' = contract /\ ChainInv' /\ CleanInv' /\ SentInv' /\ txs' = txs
  BY <1>1, L1Quiet, Zenon
<1>3. LocalsInv'
  BY <1>1, Zenon DEF LocalsInv
<1>4. mishaps \subseteq {"forkInSync"} => current <= latest.num
  BY <1>1, Zenon DEF IInv, NeedleInv
<1>5. CASE uid = 0
  <2>1. UNCHANGED <<latest, history>>
    BY <1>5, Zenon DEF SynchronizeNext
  <2>2. TypeOK'
    BY <1>1, <2>1, Zenon DEF IInv, Types, TypeOK
  <2>3. (Types /\ RecordInv /\ ForkInv)'
    BY <1>1, <2>1, <2>2, SameRecords, Zenon
  <2>4. \A n : GetRollupData(n)' = GetRollupData(n)
    BY <2>1, Zenon DEF GetRollupData
  <2>5. NeedleInv'
    BY <1>1, <1>2, <1>4, <2>1, <2>4, Zenon DEF IInv, NeedleInv
  <2> QED  BY <1>2, <1>3, <2>3, <2>5, Zenon DEF IInv
<1>6. CASE uid # 0
  <2>1. /\ history' = [history EXCEPT ![latest.num] = latest]
        /\ latest' = [uid |-> uid, num |-> latest.num + 1]
    BY <1>6, Zenon DEF SynchronizeNext
  <2>2. /\ latest.num \in 0..MaxUid /\ current \in 0..MaxUid /\ MaxUid \in Nat
        /\ MaxUid \in Nat /\ latest \in Info /\ history \in [0..MaxUid -> Info]
        /\ uids \in 0..MaxUid
    BY RecordTypes, Zenon DEF IInv, Types, TypeOK
  <2>3. /\ latest.num + 1 \in 1..Len(contract.rollups)
        /\ uid = contract.rollups[latest.num + 1].uid
    BY <1>6, Zenon DEF GetUniqueForkID
  <2> HIDE DEF uid
  <2>4. uid \in 1..uids /\ latest.num + 1 \in 0..MaxUid
    <3>1. /\ contract.rollups[latest.num + 1].uid \in 1..uids /\ latest.num + 1 \in 1..uids
      BY <2>3, ContractTypes, KnownIds, Zenon DEF IInv
    <3> QED  BY <2>2, <2>3, <3>1
  <2>5. latest'.num = latest.num + 1 /\ latest'.uid = uid /\ latest' \in Info
    BY <2>1, <2>2, <2>4 DEF Info
  <2>6. history' \in [0..MaxUid -> Info]
    BY <2>1, <2>2, Zenon
  <2>7. Types'
    <3>1. TypeOK'
      BY <1>1, <2>5, <2>6, Zenon DEF IInv, Types, TypeOK
    <3> QED  BY <1>1, <3>1, Zenon DEF IInv, Types
  <2>8. ASSUME NEW n \in 1..latest.num
        PROVE  GetRollupData(n)' = GetRollupData(n)
    <3>1. n # latest'.num /\ n \in 0..MaxUid
      BY <2>2, <2>5
    <3> QED  BY <2>1, <2>2, <3>1, Zenon DEF GetRollupData
  <2>9. \A n : n = latest.num + 1 => GetRollupData(n)' = latest'
    BY <2>5, Zenon DEF GetRollupData
  <2>10. \A n \in 1..latest.num + 1 : n \in 1..latest.num \/ n = latest.num + 1
    BY <2>2
  <2>11. On(contract, latest')
    BY <2>3, <2>5, Zenon DEF On
  <2>12. ForkInv'
    <3> SUFFICES ASSUME "forkInSync" \notin mishaps
                 PROVE  \A n \in 1..latest'.num : \A k \in 1..n : On(contract, GetRollupData(k)')
      BY <1>1, <1>2, Zenon DEF ForkInv
    <3>1. latest.num = 0 \/ On(contract, latest)
      BY <1>1, Zenon DEF IInv, ForkInv
    <3>2. latest.num # 0 => latest.num \in 1..latest.num
      BY <2>2
    <3>3. latest.num # 0 => \A k \in 1..latest.num : On(contract, GetRollupData(k))
      BY <3>1, <3>2, Records, Zenon DEF IInv, ForkInv
    <3>4. latest.num = 0 => 1..latest.num = {}
      OBVIOUS
    <3>5. \A k \in 1..latest.num : On(contract, GetRollupData(k))
      BY <3>3, <3>4, Zenon
    <3>6. \A n \in 1..latest'.num : On(contract, GetRollupData(n)')
      BY <2>5, <2>8, <2>9, <2>10, <2>11, <3>5, Zenon
    <3>7. \A n \in 1..latest'.num : \A k \in 1..n : k \in 1..latest'.num
      BY <2>2, <2>5
    <3> QED  BY <3>6, <3>7, Zenon
  <2>13. RecordInv'
    <3>1. history'[0] = NoRollup
      BY <2>1, <2>2 DEF IInv, RecordInv
    <3>2. latest'.num # 0
      BY <2>2, <2>5
    <3>3. \A n \in 1..latest.num :
            GetRollupData(n)'.num = n /\ GetRollupData(n)'.uid \in 1..uids'
      BY <1>1, <2>8, Records, Zenon
    <3>4. \A n : n = latest.num + 1 =>
            GetRollupData(n)'.num = n /\ GetRollupData(n)'.uid \in 1..uids'
      BY <1>1, <2>4, <2>5, <2>9, Zenon
    <3>5. \A n \in 1..latest'.num :
            GetRollupData(n)'.num = n /\ GetRollupData(n)'.uid \in 1..uids'
      BY <2>5, <2>10, <3>3, <3>4, Zenon
    <3> QED  BY <3>1, <3>2, <3>5, Zenon DEF RecordInv
  <2>14. NeedleInv'
    <3> SUFFICES ASSUME mishaps \subseteq {"forkInSync"}
                 PROVE  /\ current <= latest'.num
                        /\ \A n \in 1..latest'.num :
                             n <= current /\ On(contract, GetRollupData(n)') =>
                               Dealt(contract, txs, n)
      BY <1>1, <1>2, Zenon DEF NeedleInv
    <3>1. ASSUME NEW n \in 1..latest'.num, n <= current, On(contract, GetRollupData(n)')
          PROVE  Dealt(contract, txs, n)
      <4>1. n \in 1..latest.num
        BY <1>4, <2>2, <2>5, <3>1
      <4> QED  BY <4>1, <3>1, <2>8, Zenon DEF IInv, NeedleInv
    <3>2. current <= latest'.num
      BY <1>4, <2>2, <2>5
    <3> QED  BY <3>1, <3>2, Zenon
  <2> QED  BY <1>2, <1>3, <2>7, <2>12, <2>13, <2>14, Zenon DEF IInv
<1> QED  BY <1>5, <1>6, Zenon

LEMMA RevertIInv == IInv /\ Revert => IInv'
<1> SUFFICES ASSUME IInv, Revert PROVE IInv'
  OBVIOUS
<1>1. /\ UNCHANGED <<chain, uids, txs>> /\ history' = history /\ pc = "revert"
      /\ begin' = begin /\ bundle' = bundle /\ uids' = uids
      /\ mishaps' = mishaps /\ mishaps \subseteq mishaps'
  BY Zenon DEF Revert, l1, locals
<1>2. contract' = contract /\ ChainInv' /\ CleanInv' /\ SentInv' /\ txs' = txs
  BY <1>1, L1Quiet, Zenon
<1>3. /\ latest.num \in 0..MaxUid /\ current \in 0..MaxUid /\ MaxUid \in Nat
  BY Records, Zenon
<1>4. CASE GetUniqueForkID(latest.num) = latest.uid
  <2>1. /\ current' = (IF current > latest.num THEN latest.num ELSE current)
        /\ pc' = "publish" /\ latest' = latest
    BY <1>4, Zenon DEF Revert
  <2>2. current' \in 0..MaxUid /\ current' <= current /\ current' <= latest.num
    BY <1>3, <2>1
  <2>3. TypeOK'
    BY <1>1, <2>1, <2>2, Zenon DEF IInv, Types, TypeOK
  <2>4. (Types /\ RecordInv /\ ForkInv)'
    BY <1>1, <2>1, <2>3, SameRecords, Zenon
  <2>5. \A n : GetRollupData(n)' = GetRollupData(n)
    BY <1>1, <2>1, Zenon DEF GetRollupData
  <2>6. \A n \in 1..latest.num : n <= current' => n <= current
    BY <1>3, <2>2
  <2>7. NeedleInv'
    BY <1>1, <1>2, <2>1, <2>2, <2>5, <2>6, Zenon DEF IInv, NeedleInv
  <2>8. LocalsInv'
    BY <2>1, Zenon DEF LocalsInv
  <2> QED  BY <1>2, <2>4, <2>7, <2>8, Zenon DEF IInv
<1>5. CASE GetUniqueForkID(latest.num) # latest.uid
  <2>1. latest' = history[latest.num - 1] /\ current' = current /\ pc' = pc
    BY <1>5, Zenon DEF Revert
  <2>2. latest.num # 0
    <3>1. GetUniqueForkID(0) = 0 /\ NoRollup.uid = 0
      BY DEF GetUniqueForkID, NoRollup
    <3> QED  BY <1>5, <3>1, Zenon DEF IInv, RecordInv
  <2>3. latest.num - 1 \in 0..MaxUid
    BY <1>3, <2>2
  <2>4. latest'.num = latest.num - 1
    <3>1. CASE latest.num = 1
      <4>1. latest' = NoRollup
        BY <2>1, <3>1 DEF IInv, RecordInv
      <4> QED  BY <3>1, <4>1 DEF NoRollup
    <3>2. CASE latest.num # 1
      <4>1. latest.num - 1 \in 1..latest.num /\ latest.num - 1 \in 1..latest.num - 1
        BY <3>2, <2>2, <1>3
      <4> QED  BY <4>1, <2>1, Records, Zenon
    <3> QED  BY <3>1, <3>2, Zenon
  <2>5. \A n \in 1..latest'.num : n \in 1..latest.num
    BY <1>3, <2>4
  <2>6. ASSUME NEW n \in 1..latest'.num
        PROVE  GetRollupData(n)' = GetRollupData(n)
    <3>1. n # latest.num
      BY <1>3, <2>4
    <3>2. n = latest'.num => latest' = history[n]
      BY <2>1, <2>4, Zenon
    <3> QED  BY <1>1, <3>1, <3>2, Zenon DEF GetRollupData
  <2>7. Types'
    <3>1. latest' \in Info
      BY <2>1, <2>3, Zenon DEF IInv, Types, TypeOK
    <3>2. TypeOK'
      BY <1>1, <2>1, <3>1, Zenon DEF IInv, Types, TypeOK
    <3> QED  BY <1>1, <3>2, Zenon DEF IInv, Types
  <2>8. RecordInv'
    <3>1. latest'.num = 0 => latest' = NoRollup
      BY <1>3, <2>1, <2>4, Zenon DEF IInv, RecordInv
    <3>2. \A n \in 1..latest'.num :
            GetRollupData(n)'.num = n /\ GetRollupData(n)'.uid \in 1..uids'
      BY <1>1, <2>5, <2>6, Records, Zenon
    <3> QED  BY <1>1, <3>1, <3>2, Zenon DEF IInv, RecordInv
  <2>9. ForkInv'
    <3>1. ASSUME "forkInSync" \notin mishaps,
                 NEW n \in 1..latest'.num, On(contract, GetRollupData(n)'), NEW k \in 1..n
          PROVE  On(contract, GetRollupData(k)')
      <4>1. k \in 1..latest'.num
        BY <1>3, <2>4
      <4>2. On(contract, GetRollupData(n)) /\ n \in 1..latest.num
        BY <2>5, <2>6, <3>1, Zenon
      <4>3. On(contract, GetRollupData(k))
        BY <3>1, <4>2, Zenon DEF IInv, ForkInv
      <4> QED  BY <4>1, <4>3, <2>6, Zenon
    <3> QED  BY <1>1, <1>2, <2>1, <3>1, Zenon DEF ForkInv
  <2>10. NeedleInv'
    <3>1. ASSUME mishaps \subseteq {"forkInSync"},
                 NEW n \in 1..latest'.num, n <= current, On(contract, GetRollupData(n)')
          PROVE  Dealt(contract, txs, n)
      BY <3>1, <2>5, <2>6, Zenon DEF IInv, NeedleInv
    <3> QED  BY <1>1, <1>2, <2>1, <3>1, Zenon DEF NeedleInv
  <2>11. LocalsInv'
    BY <1>1, <2>1, Zenon DEF LocalsInv
  <2> QED  BY <1>2, <2>7, <2>8, <2>9, <2>10, <2>11, Zenon DEF IInv
<1> QED  BY <1>4, <1>5, Zenon

(* A step that goes on to the next call: only pc and the locals change.     *)
LEMMA GoesOn ==
  ASSUME IInv, UNCHANGED <<chain, uids, txs, latest, history, current, mishaps>>, TypeOK',
         pc # "revert", pc' \notin {"syncNext", "revert"}, LocalsInv'
  PROVE  IInv'
<1>1. (Types /\ ChainInv /\ CleanInv /\ SentInv /\ RecordInv /\ ForkInv)' /\ contract' = contract
  <2>1. mishaps \subseteq mishaps'
    OBVIOUS
  <2> QED  BY <2>1, SameRecords, L1Quiet, Zenon
<1>2. \A n : GetRollupData(n)' = GetRollupData(n)
  BY Zenon DEF GetRollupData
<1>3. txs' = txs /\ latest' = latest /\ current' = current /\ mishaps' = mishaps
  OBVIOUS
<1>4. NeedleInv'
  BY <1>1, <1>2, <1>3, Zenon DEF IInv, NeedleInv
<1> QED  BY <1>1, <1>4, Zenon DEF IInv

LEMMA PublishNextBundleIInv == IInv /\ PublishNextBundle => IInv'
<1> SUFFICES ASSUME IInv, PublishNextBundle PROVE IInv'
  OBVIOUS
<1> DEFINE stop == current >= latest.num \/ GetUniqueForkID(current) # history[current].uid
<1>1. /\ UNCHANGED <<chain, uids, txs, latest, history, current, mishaps>> /\ pc = "publish"
      /\ mishaps' = mishaps
      /\ mishaps' \subseteq {"overlap", "forkInSync", "revertFailed", "sendFailed"}
      /\ mishaps \subseteq mishaps'
  BY Zenon DEF PublishNextBundle, l1, machine, IInv, Types, TypeOK
<1>2. CASE stop
  BY <1>1, <1>2, ReturnIInv, Zenon DEF PublishNextBundle
<1>3. CASE ~stop
  <2>1. /\ begin' = (IF current = 0 THEN 0 ELSE LastSequenceNumber(current) + 1)
        /\ pc' = "range" /\ bundle' = bundle
        /\ ~(current >= latest.num) /\ GetUniqueForkID(current) = history[current].uid
    BY <1>3, Zenon DEF PublishNextBundle
  <2>2. /\ latest.num \in Nat /\ current \in Nat /\ current < latest.num
    BY <2>1, Records
  <2>3. current # 0 => /\ current \in 1..Len(contract.rollups)
                       /\ LastSequenceNumber(current) \in 1..MaxSeqNo
    <3>1. current # 0 => current \in 1..latest.num /\ current \in 1..latest.num - 1
      BY <2>2
    <3>2. current # 0 => history[current].uid \in 1..uids
      BY <3>1, Records, Zenon
    <3>3. current # 0 => current \in 1..Len(contract.rollups)
      BY <2>1, <3>2 DEF GetUniqueForkID
    <3> QED  BY <3>3, ContractTypes, KnownIds, Zenon DEF IInv, LastSequenceNumber
  <2>4. begin' \in 0..MaxSeqNo + 1
    BY <2>1, <2>3, BundlesAssumption
  <2>5. TypeOK'
    BY <1>1, <2>1, <2>4, Zenon DEF IInv, Types, TypeOK
  <2>6. contract' = contract /\ current' = current /\ latest' = latest
    BY <1>1, L1Quiet, Zenon
  <2>7. LocalsInv'
    BY <2>1, <2>2, <2>6, Zenon DEF LocalsInv, LastSequenceNumber
  <2> QED  BY <1>1, <2>1, <2>5, <2>7, GoesOn, Zenon
<1> QED  BY <1>2, <1>3, Zenon

LEMMA GetBundleRangeIInv == IInv /\ GetBundleRange => IInv'
<1> SUFFICES ASSUME IInv, GetBundleRange PROVE IInv'
  OBVIOUS
<1> DEFINE data == GetRollupData(current + 1)
<1> DEFINE stop == \/ GetUniqueForkID(current + 1) # data.uid
                   \/ begin > LastSequenceNumber(current + 1)
<1>1. /\ UNCHANGED <<chain, uids, txs, latest, history, current, mishaps>> /\ pc = "range"
      /\ mishaps' = mishaps
      /\ mishaps' \subseteq {"overlap", "forkInSync", "revertFailed", "sendFailed"}
      /\ mishaps \subseteq mishaps'
  BY Zenon DEF GetBundleRange, l1, machine, IInv, Types, TypeOK
<1>2. CASE stop
  BY <1>1, <1>2, ReturnIInv, Zenon DEF GetBundleRange
<1>3. CASE ~stop
  <2>1. /\ bundle' = [num |-> data.num, uid |-> data.uid,
                      roots |-> CrossChainRootHashes(begin, LastSequenceNumber(current + 1))]
        /\ pc' = "check" /\ begin' = begin
    BY <1>3, Zenon DEF GetBundleRange
  <2>2. /\ latest.num \in 0..MaxUid /\ current \in 0..MaxUid /\ MaxUid \in Nat
        /\ current < latest.num
    BY <1>1, Records, Zenon DEF IInv, LocalsInv
  <2>3. current + 1 \in 1..latest.num /\ current + 1 \in 0..MaxUid
    BY <2>2
  <2>4. data.num = current + 1 /\ data.uid \in 1..uids
    BY <2>3, Records, Zenon
  <2>5. data \in Info
    BY <2>3, RecordTypes, Zenon DEF IInv
  <2>6. On(contract, data)
    <3>1. data.uid # 0
      BY <2>4
    <3> QED  BY <1>3, <2>4, <3>1, OnUid, Zenon
  <2> HIDE DEF data
  <2>7. bundle'.num = current + 1 /\ bundle'.uid = data.uid /\ bundle' \in Bundle
        /\ bundle'.roots = CrossChainRootHashes(begin, LastSequenceNumber(current + 1))
    BY <2>1, <2>4, <2>5, Zenon DEF Bundle, Info, CrossChainRootHashes
  <2>8. bundle'.roots = Roots(contract, current + 1)
    <3>1. begin = IF current = 0 THEN 0 ELSE LastSequenceNumber(current) + 1
      BY <1>1, <2>6, Zenon DEF IInv, LocalsInv, data
    <3>2. (current + 1 = 1 <=> current = 0) /\ current + 1 - 1 = current
      BY <2>2
    <3>3. CASE current = 0
      BY <2>7, <3>1, <3>2, <3>3, Zenon DEF Roots, LastSequenceNumber
    <3>4. CASE current # 0
      <4>1. Roots(contract, current + 1) =
              CrossChainRootHashes(contract.rollups[current].last + 1,
                                   contract.rollups[current + 1].last)
        BY <2>2, <3>2, <3>4 DEF Roots, CrossChainRootHashes
      <4> QED  BY <2>7, <3>1, <3>4, <4>1, Zenon DEF LastSequenceNumber
    <3> QED  BY <3>3, <3>4, Zenon
  <2>9. TypeOK'
    BY <1>1, <2>1, <2>7, Zenon DEF IInv, Types, TypeOK, Bundle
  <2>10. contract' = contract /\ current' = current /\ latest' = latest /\ history' = history
    BY <1>1, L1Quiet, Zenon
  <2>11. GetRollupData(current + 1)' = data
    BY <2>10, Zenon DEF GetRollupData, data
  <2>12. LocalsInv'
    BY <2>1, <2>2, <2>7, <2>8, <2>10, <2>11, Zenon DEF LocalsInv
  <2> QED  BY <1>1, <2>1, <2>9, <2>12, GoesOn, Zenon
<1> QED  BY <1>2, <1>3, Zenon

(* What the machine holds once it has the bundle of the next rollup.        *)
LEMMA BundleFacts ==
  ASSUME IInv, pc \in {"check", "send", "await"}
  PROVE  /\ current \in Nat /\ current < latest.num /\ latest.num \in Nat
         /\ current + 1 \in 1..latest.num
         /\ bundle \in Bundle /\ bundle.num = current + 1 /\ bundle.uid \in 1..uids
         /\ bundle.uid = GetRollupData(current + 1).uid
         /\ On(contract, GetRollupData(current + 1)) => On(contract, bundle)
         /\ On(contract, bundle) =>
              /\ On(contract, GetRollupData(current + 1))
              /\ bundle.roots = Roots(contract, current + 1)
<1>1. /\ current < latest.num /\ bundle.num = current + 1
      /\ bundle.uid = GetRollupData(current + 1).uid
      /\ On(contract, bundle) => bundle.roots = Roots(contract, current + 1)
  BY Zenon DEF IInv, LocalsInv
<1>2. current \in Nat /\ latest.num \in Nat /\ current + 1 \in 1..latest.num
  BY <1>1, Records
<1>3. GetRollupData(current + 1).num = current + 1 /\ bundle.uid \in 1..uids
  BY <1>1, <1>2, Records, Zenon
<1>4. bundle \in Bundle
  BY RecordTypes, Zenon DEF IInv
<1>5. On(contract, GetRollupData(current + 1)) <=> On(contract, bundle)
  BY <1>1, <1>3, Zenon DEF On
<1> QED  BY <1>1, <1>2, <1>3, <1>4, <1>5, Zenon

(* A transaction that went through is of this chain.                        *)
LEMMA SavedFacts ==
  ASSUME IInv, NEW j \in contract.saved
  PROVE  /\ j \in 1..Len(txs) /\ On(contract, txs[j])
         /\ txs[j].roots = Roots(contract, txs[j].num)
<1>1. contract.mined \in Nat /\ Len(txs) \in Nat /\ StateOK(contract, txs, uids)
  BY ContractTypes, Zenon DEF IInv
<1>2. j \in 1..contract.mined /\ contract.mined <= Len(txs) /\ On(contract, txs[j])
  BY <1>1, Zenon DEF StateOK
<1>3. j \in 1..Len(txs)
  BY <1>1, <1>2
<1> QED  BY <1>2, <1>3, Zenon DEF IInv, SentInv

LEMMA IsBundleAlreadyPublishedIInv == IInv /\ IsBundleAlreadyPublished => IInv'
<1> SUFFICES ASSUME IInv, IsBundleAlreadyPublished PROVE IInv'
  OBVIOUS
<1>1. /\ UNCHANGED <<chain, uids, txs, latest, history, mishaps>> /\ pc = "check"
      /\ mishaps' = mishaps
      /\ mishaps' \subseteq {"overlap", "forkInSync", "revertFailed", "sendFailed"}
      /\ mishaps \subseteq mishaps'
  BY Zenon DEF IsBundleAlreadyPublished, l1, IInv, Types, TypeOK
<1>2. CASE bundle.roots \in isBundleSaved
  <2>1. NextRollup /\ Return
    BY <1>2, Zenon DEF IsBundleAlreadyPublished
  <2>2. ASSUME mishaps' \subseteq {"forkInSync"}, On(contract, GetRollupData(current + 1))
        PROVE  Dealt(contract, txs, current + 1)
    <3>1. /\ bundle.roots = Roots(contract, current + 1) /\ bundle.num = current + 1
          /\ On(contract, bundle)
      BY <1>1, <2>2, BundleFacts, Zenon
    <3>2. CASE bundle.roots = {}
      BY <3>1, <3>2, Zenon DEF Dealt
    <3>3. CASE bundle.roots # {}
      <4>1. bundle.roots \intersect UNION isBundleSaved # {} /\ "overlap" \notin mishaps
        BY <1>1, <1>2, <2>2, <3>3
      <4>2. PICK k \in 1..Len(txs) : On(contract, txs[k]) /\ txs[k].num = bundle.num
        BY <3>1, <4>1, SharedRoots, Zenon
      <4> QED  BY <3>1, <4>2, Zenon DEF Dealt
    <3> QED  BY <3>2, <3>3, Zenon
  <2> QED  BY <1>1, <2>1, <2>2, NextRollupIInv, Zenon
<1>3. CASE bundle.roots \notin isBundleSaved
  <2>1. pc' = "send" /\ current' = current /\ begin' = begin /\ bundle' = bundle
    BY <1>3, Zenon DEF IsBundleAlreadyPublished, locals
  <2>2. TypeOK'
    BY <1>1, <2>1, Zenon DEF IInv, Types, TypeOK
  <2>3. contract' = contract /\ latest' = latest /\ history' = history
    BY <1>1, L1Quiet, Zenon
  <2>4. GetRollupData(current + 1)' = GetRollupData(current + 1)
    BY <2>1, <2>3, Zenon DEF GetRollupData
  <2>5. LocalsInv'
    BY <1>1, <2>1, <2>3, <2>4, Zenon DEF IInv, LocalsInv
  <2> QED  BY <1>1, <2>1, <2>2, <2>5, GoesOn, Zenon
<1> QED  BY <1>2, <1>3, Zenon

LEMMA PublishCrossChainBundleIInv == IInv /\ PublishCrossChainBundle => IInv'
<1> SUFFICES ASSUME IInv, PublishCrossChainBundle PROVE IInv'
  OBVIOUS
<1>1. /\ UNCHANGED <<chain, uids, latest, history>> /\ pc = "send"
      /\ mishaps' = mishaps
      /\ mishaps' \subseteq {"overlap", "forkInSync", "revertFailed", "sendFailed"}
      /\ mishaps \subseteq mishaps'
  BY Zenon DEF PublishCrossChainBundle, l1, IInv, Types, TypeOK
<1>2. /\ current \in Nat /\ current < latest.num /\ latest.num \in Nat
      /\ current + 1 \in 1..latest.num
      /\ bundle \in Bundle /\ bundle.num = current + 1 /\ bundle.uid \in 1..uids
      /\ On(contract, GetRollupData(current + 1)) => On(contract, bundle)
      /\ On(contract, bundle) =>
           /\ On(contract, GetRollupData(current + 1))
           /\ bundle.roots = Roots(contract, current + 1)
  BY <1>1, BundleFacts, Zenon
<1>3. GetUniqueForkID(bundle.num) = bundle.uid <=> On(contract, bundle)
  <2>1. bundle.uid # 0
    BY <1>2
  <2> QED  BY <2>1, OnUid, Zenon
<1>4. CASE ~Accepted(bundle)
  <2>1. NextRollup /\ Return /\ txs' = txs
    BY <1>4, Zenon DEF PublishCrossChainBundle
  <2>2. ASSUME mishaps' \subseteq {"forkInSync"}, On(contract, GetRollupData(current + 1))
        PROVE  Dealt(contract, txs, current + 1)
    <3>1. On(contract, bundle) /\ bundle.roots = Roots(contract, bundle.num)
      BY <1>2, <2>2, Zenon
    <3>2. bundle.roots \intersect UNION isBundleSaved # {}
      BY <1>3, <1>4, <3>1, Zenon DEF Accepted
    <3>3. "overlap" \notin mishaps
      BY <1>1, <2>2
    <3>4. PICK j \in 1..Len(txs) : On(contract, txs[j]) /\ txs[j].num = bundle.num
      BY <3>1, <3>2, <3>3, SharedRoots, Zenon
    <3> QED  BY <1>2, <3>4, Zenon DEF Dealt
  <2> QED  BY <1>1, <2>1, <2>2, NextRollupIInv, Zenon
<1>5. CASE Accepted(bundle)
  <2>1. /\ txs' = Append(txs, bundle) /\ pc' = "await" /\ current' = current
        /\ begin' = begin /\ bundle' = bundle
    BY <1>5, Zenon DEF PublishCrossChainBundle, locals
  <2>2. /\ chain' = chain /\ uids' = uids /\ latest' = latest /\ history' = history
        /\ contract' = contract
    BY <1>1, Zenon DEF contract
  <2>3. txs \in Seq(Bundle) /\ chain \in Seq(ContractState) /\ Len(txs) \in Nat /\ uids \in Nat
    BY ContractTypes, Zenon DEF IInv, Types
  <2>4. /\ Len(txs') = Len(txs) + 1 /\ txs'[Len(txs) + 1] = bundle
        /\ \A i \in 1..Len(txs) : txs'[i] = txs[i]
        /\ txs' \in Seq(Bundle)
    BY <1>2, <2>1, <2>3
  <2>5. Types'
    <3>1. TypeOK'
      BY <1>1, <2>1, <2>2, Zenon DEF IInv, Types, TypeOK
    <3> QED  BY <2>2, <2>4, <3>1, Zenon DEF IInv, Types
  <2>6. ChainInv' /\ CleanInv'
    <3>1. ASSUME NEW a \in 1..Len(chain)
          PROVE  StateOK(chain[a], txs', uids) /\ (Clean(chain[a], txs) => Clean(chain[a], txs'))
      <4>1. StateOK(chain[a], txs, uids) /\ chain[a] \in ContractState
        BY <2>3 DEF IInv, ChainInv
      <4>2. Len(txs') \in Nat /\ Len(txs) <= Len(txs') /\ uids <= uids
        BY <2>3, <2>4
      <4> QED  BY <2>3, <2>4, <4>1, <4>2, StateKept, Zenon
    <3>2. ChainInv'
      BY <2>2, <3>1, Zenon DEF IInv, ChainInv
    <3>3. CleanInv'
      BY <1>1, <2>2, <3>1, Zenon DEF IInv, CleanInv
    <3> QED  BY <3>2, <3>3, Zenon
  <2>7. ASSUME NEW k, Dealt(contract, txs, k)
        PROVE  Dealt(contract, txs', k)
    BY <1>2, <2>1, <2>3, <2>7, DealtMore, Zenon
  <2>8. SentInv'
    <3>1. \A i \in 1..Len(txs') : i \in 1..Len(txs) \/ i = Len(txs) + 1
      BY <2>3, <2>4
    <3>2. ASSUME NEW i \in 1..Len(txs')
          PROVE  /\ txs'[i].uid \in 1..uids
                 /\ On(contract, txs'[i]) => txs'[i].roots = Roots(contract, txs'[i].num)
      <4>1. CASE i \in 1..Len(txs)
        <5>1. txs'[i] = txs[i]
          BY <2>4, <4>1, Zenon
        <5> QED  BY <4>1, <5>1, Zenon DEF IInv, SentInv
      <4>2. CASE i = Len(txs) + 1
        <5>1. txs'[i] = bundle
          BY <2>4, <4>2, Zenon
        <5> QED  BY <1>2, <5>1, Zenon
      <4> QED  BY <3>1, <4>1, <4>2, Zenon
    <3> QED  BY <2>2, <3>2, Zenon DEF SentInv
  <2>9. \A n : GetRollupData(n)' = GetRollupData(n)
    BY <2>2, Zenon DEF GetRollupData
  <2>10. GetRollupData(current + 1)' = GetRollupData(current + 1)
    BY <2>1, <2>2, Zenon DEF GetRollupData
  <2>11. RecordInv' /\ ForkInv'
    BY <1>1, <2>1, <2>2, <2>9, Zenon DEF IInv, RecordInv, ForkInv
  <2>12. NeedleInv'
    BY <1>1, <2>1, <2>2, <2>7, <2>9, Zenon DEF IInv, NeedleInv
  <2>13. LocalsInv'
    <3>1. Len(txs') > 0 /\ txs'[Len(txs')] = bundle'
      BY <2>1, <2>3, <2>4
    <3> QED  BY <1>1, <2>1, <2>2, <2>10, <3>1, Zenon DEF IInv, LocalsInv
  <2> QED  BY <2>5, <2>6, <2>8, <2>11, <2>12, <2>13, Zenon DEF IInv
<1> QED  BY <1>4, <1>5, Zenon

LEMMA ReceiptIInv == IInv /\ Receipt => IInv'
<1> SUFFICES ASSUME IInv, Receipt PROVE IInv'
  OBVIOUS
<1>1. /\ UNCHANGED <<chain, uids, txs, latest, history>> /\ pc = "await" /\ Return
      /\ mishaps' = mishaps
      /\ mishaps' \subseteq {"overlap", "forkInSync", "revertFailed", "sendFailed"}
      /\ mishaps \subseteq mishaps'
  BY Zenon DEF Receipt, l1, IInv, Types, TypeOK
<1>2. CASE Len(txs) \in contract.saved
  <2>1. NextRollup
    BY <1>2, Zenon DEF Receipt
  <2>2. txs[Len(txs)] = bundle
    BY <1>1, Zenon DEF IInv, LocalsInv
  <2>3. Len(txs) \in 1..Len(txs) /\ On(contract, bundle)
    BY <1>2, <2>2, SavedFacts, Zenon
  <2>4. bundle.num = current + 1
    BY <1>1, BundleFacts, Zenon
  <2>5. Dealt(contract, txs, current + 1)
    BY <2>2, <2>3, <2>4, Zenon DEF Dealt
  <2> QED  BY <1>1, <2>1, <2>5, NextRollupIInv, Zenon
<1>3. CASE Len(txs) \notin contract.saved
  <2>1. current' = current
    BY <1>3, Zenon DEF Receipt
  <2> QED  BY <1>1, <2>1, ReturnIInv, Zenon
<1> QED  BY <1>2, <1>3, Zenon

LEMMA CallFailsIInv == IInv /\ CallFails => IInv'
<1> SUFFICES ASSUME IInv, CallFails PROVE IInv'
  OBVIOUS
<1>1. /\ UNCHANGED <<chain, uids, txs, latest, history, current>> /\ Return
      /\ mishaps' = IF pc = "revert" /\ current > latest.num
                    THEN mishaps \union {"revertFailed"} ELSE mishaps
  BY Zenon DEF CallFails, l1, machine
<1>2. /\ mishaps \subseteq mishaps'
      /\ mishaps' \subseteq {"overlap", "forkInSync", "revertFailed", "sendFailed"}
  BY <1>1 DEF IInv, Types, TypeOK
<1>3. latest.num \in Nat /\ current \in Nat
  BY Records
<1>4. pc = "revert" /\ mishaps' \subseteq {"forkInSync"} => current <= latest.num
  BY <1>1, <1>3
<1> QED  BY <1>1, <1>2, <1>4, ReturnIInv, Zenon

LEMMA SendFailsIInv == IInv /\ SendFails => IInv'
<1> SUFFICES ASSUME IInv, SendFails PROVE IInv'
  OBVIOUS
<1>1. /\ UNCHANGED <<chain, uids, txs, latest, history>> /\ NextRollup /\ Return /\ pc = "send"
      /\ mishaps' = mishaps \union {"sendFailed"}
  BY Zenon DEF SendFails, l1
<1>2. /\ mishaps \subseteq mishaps' /\ ~(mishaps' \subseteq {"forkInSync"})
      /\ mishaps' \subseteq {"overlap", "forkInSync", "revertFailed", "sendFailed"}
  BY <1>1 DEF IInv, Types, TypeOK
<1> QED  BY <1>1, <1>2, NextRollupIInv, Zenon

LEMMA RestartIInv == IInv /\ Restart => IInv'
<1> SUFFICES ASSUME IInv, Restart PROVE IInv'
  OBVIOUS
<1> USE BundlesAssumption
<1>1. /\ UNCHANGED <<chain, uids, txs>> /\ uids' = uids /\ txs' = txs /\ chain' = chain
      /\ latest' = NoRollup /\ current' = 0
      /\ history' = [n \in 0..MaxUid |-> NoRollup]
      /\ pc' = "idle" /\ begin' = 0 /\ bundle' = NoBundle
      /\ mishaps' = mishaps \intersect {"overlap"}
  BY Zenon DEF Restart, Return, l1
<1>2. ChainInv' /\ CleanInv' /\ SentInv'
  BY <1>1, L1Quiet, Zenon
<1>3. NoRollup \in Info /\ NoBundle \in Bundle /\ NoRollup.num = 0
      /\ MaxUid \in Nat
  BY DEF NoRollup, NoBundle, Info, Bundle
<1>4. Types'
  <2>1. TypeOK'
    BY <1>1, <1>3 DEF TypeOK, Bundle
  <2> QED  BY <1>1, <2>1, Zenon DEF IInv, Types
<1>5. latest'.num = 0 /\ history'[0] = NoRollup
  BY <1>1, <1>3
<1>6. RecordInv' /\ ForkInv'
  BY <1>1, <1>5 DEF RecordInv, ForkInv
<1>7. NeedleInv'
  BY <1>1, <1>5 DEF NeedleInv
<1>8. LocalsInv'
  BY <1>1, Zenon DEF LocalsInv
<1> QED  BY <1>2, <1>4, <1>6, <1>7, <1>8, Zenon DEF IInv

------------------------------------------------------------------------------
LEMMA NextIInv == IInv /\ [Next]_vars => IInv'
<1> SUFFICES ASSUME IInv, [Next]_vars PROVE IInv'
  OBVIOUS
<1>1. CASE Tick
  BY <1>1, SynchronizeIInv, SynchronizeNextIInv, RevertIInv, PublishNextBundleIInv,
     GetBundleRangeIInv, IsBundleAlreadyPublishedIInv, PublishCrossChainBundleIInv,
     ReceiptIInv, Zenon DEF Tick
<1>2. CASE AppendRollup
  BY <1>2, AppendRollupIInv, Zenon
<1>3. CASE MineBundle
  BY <1>3, MineBundleIInv, Zenon
<1>4. CASE Reorg
  BY <1>4, ReorgIInv, Zenon
<1>5. CASE CallFails \/ SendFails
  BY <1>5, CallFailsIInv, SendFailsIInv, Zenon
<1>6. CASE Restart
  BY <1>6, RestartIInv, Zenon
<1>7. CASE UNCHANGED vars
  <2>1. /\ chain' = chain /\ uids' = uids /\ txs' = txs /\ latest' = latest
        /\ history' = history /\ current' = current /\ pc' = pc /\ begin' = begin
        /\ bundle' = bundle /\ mishaps' = mishaps
    BY <1>7, Zenon DEF vars, l1, machine, locals
  <2>2. contract' = contract /\ ChainInv' /\ CleanInv' /\ SentInv'
    BY <2>1, L1Quiet, Zenon
  <2>3. Types'
    BY <2>1, Zenon DEF IInv, Types, TypeOK
  <2>4. \A n : GetRollupData(n)' = GetRollupData(n)
    BY <2>1, Zenon DEF GetRollupData
  <2>5. GetRollupData(current + 1)' = GetRollupData(current + 1)
    BY <2>1, Zenon DEF GetRollupData
  <2>6. RecordInv' /\ ForkInv'
    BY <2>1, <2>2, <2>4, Zenon DEF IInv, RecordInv, ForkInv
  <2>7. NeedleInv'
    BY <2>1, <2>2, <2>4, Zenon DEF IInv, NeedleInv
  <2>8. LocalsInv'
    BY <2>1, <2>2, <2>5, Zenon DEF IInv, LocalsInv, LastSequenceNumber
  <2> QED  BY <2>2, <2>3, <2>6, <2>7, <2>8, Zenon DEF IInv
<1> QED  BY <1>1, <1>2, <1>3, <1>4, <1>5, <1>6, <1>7, Zenon DEF Next

(* The invariant the theorems below rest on holds from the start.           *)
THEOREM Invariance == Spec => []IInv
BY InitIInv, NextIInv, PTL DEF Spec

(* Whatever the L1 does between the calls of PublishNextBundle, and whatever *)
(* fails, a bundle the contract has accepted has the roots of exactly the    *)
(* batches of the rollup it is for: no mishap is excepted.                   *)
THEOREM SavedBundlesAreRight == Spec => []BundlesAreRight
<1>1. IInv => BundlesAreRight
  <2> SUFFICES ASSUME IInv, NEW i \in contract.saved
               PROVE  /\ GetUniqueForkID(txs[i].num) = txs[i].uid
                      /\ txs[i].roots = RootsOf(txs[i].num)
    BY Zenon DEF BundlesAreRight
  <2>1. On(contract, txs[i]) /\ txs[i].roots = Roots(contract, txs[i].num)
    BY SavedFacts, Zenon
  <2>2. Roots(contract, txs[i].num) = RootsOf(txs[i].num)
    BY Zenon DEF Roots, RootsOf, LastSequenceNumber
  <2> QED  BY <2>1, <2>2, Zenon DEF On, GetUniqueForkID
<1> QED  BY <1>1, Invariance, PTL

(* Unless the L1 forks between its two calls, Synchronize, with the revert,  *)
(* leaves no rollup of an abandoned fork in rollupHistory, whatever reorgs,  *)
(* overlapping rollups, failed calls and restarts there are.                 *)
THEOREM HistoryIsOneFork == Spec => []OneForkKept
<1>1. IInv => OneForkKept
  <2> SUFFICES ASSUME IInv, "forkInSync" \notin mishaps, latest.num > 0,
                      GetUniqueForkID(latest.num) = latest.uid, NEW n \in 1..latest.num - 1
               PROVE  GetUniqueForkID(n) = history[n].uid
    BY Zenon DEF OneForkKept, OneFork
  <2>1. /\ latest.num \in Nat /\ GetRollupData(latest.num) = latest /\ latest.uid # 0
        /\ GetRollupData(n) = history[n]
    BY Records
  <2>2. latest.num \in 1..latest.num /\ n \in 1..latest.num
    BY <2>1
  <2>3. On(contract, latest)
    BY <2>1, OnUid, Zenon
  <2>4. On(contract, history[n]) /\ history[n].num = n
    BY <2>1, <2>2, <2>3, Records, Zenon DEF IInv, ForkInv
  <2> QED  BY <2>4, Zenon DEF On, GetUniqueForkID
<1> QED  BY <1>1, Invariance, PTL

(* Unless rollups overlap, a transaction cannot be sent or a revert is cut   *)
(* short, PublishNextBundle never moves currentRollup past a rollup of the   *)
(* chain with roots that are neither on the message bus nor in a transaction *)
(* that waits to be mined: forks (between the calls of Synchronize too),     *)
(* late receipts, failed calls and restarts notwithstanding.                 *)
THEOREM BundlesNotSkipped == Spec => []NoBundleSkipped
<1>1. IInv => NoBundleSkipped
  <2> SUFFICES ASSUME IInv, mishaps \subseteq {"forkInSync"},
                      NEW n \in 1..(IF current < latest.num THEN current ELSE latest.num),
                      GetUniqueForkID(n) = GetRollupData(n).uid, GetUniqueForkID(n) # 0
               PROVE  RootsOf(n) \subseteq OnTheBus \union OnTheWay
    BY Zenon DEF NoBundleSkipped, NoneSkipped
  <2>1. n \in 1..latest.num /\ n <= current
    BY Records
  <2>2. GetRollupData(n).num = n /\ GetRollupData(n).uid # 0
    BY <2>1, Records, Zenon
  <2>3. On(contract, GetRollupData(n))
    BY <2>2, OnUid, Zenon
  <2>4. Dealt(contract, txs, n)
    BY <2>1, <2>3, Zenon DEF IInv, NeedleInv
  <2>5. Roots(contract, n) = RootsOf(n)
    BY Zenon DEF Roots, RootsOf, LastSequenceNumber
  <2>6. CASE Roots(contract, n) = {}
    BY <2>5, <2>6, Zenon
  <2>7. CASE Roots(contract, n) # {}
    <3>1. PICK i \in 1..Len(txs) : On(contract, txs[i]) /\ txs[i].num = n
      BY <2>4, <2>7, Zenon DEF Dealt
    <3>2. txs[i].roots = RootsOf(n)
      BY <2>5, <3>1, Zenon DEF IInv, SentInv
    <3>3. contract.mined \in Nat /\ Len(txs) \in Nat
      BY ContractTypes, Zenon DEF IInv
    <3>4. CASE i \in 1..contract.mined
      <4>1. Clean(contract, txs)
        <5>1. "overlap" \notin mishaps
          OBVIOUS
        <5> QED  BY <5>1, ContractClean, Zenon DEF IInv
      <4>2. PICK j \in contract.saved : txs[j].roots = txs[i].roots
        BY <3>1, <3>4, <4>1, Zenon DEF Clean
      <4> QED  BY <3>2, <4>2, Zenon DEF OnTheBus, isBundleSaved
    <3>5. CASE i \in contract.mined + 1..Len(txs)
      <4>1. GetUniqueForkID(txs[i].num) = txs[i].uid
        BY <3>1, Zenon DEF On, GetUniqueForkID
      <4> QED  BY <3>2, <3>5, <4>1, Zenon DEF OnTheWay
    <3> QED  BY <3>3, <3>4, <3>5
  <2> QED  BY <2>6, <2>7, Zenon
<1> QED  BY <1>1, Invariance, PTL

==============================================================================
