------------------------ MODULE NetworkSecretProofs -------------------------
(***************************************************************************)
(* However many nodes ask, however often they are restarted or give up,    *)
(* and whatever the L1 drops in a reorg: there is one secret, and a host   *)
(* that waits for an answer has not gone past it.                          *)
(***************************************************************************)
EXTENDS NetworkSecret, TLAPS, FiniteSetTheorems, WellFoundedInduction

Tx == [type : {"none", "initialize", "request", "respond"}, node : Hosts, n : Nat]
L1Block == [fork : Nat, tx : Tx]

\* The L1, and the blocks that the genesis enclave and the waiting hosts have seen
\* of it.
L1Type ==
  /\ reorgs \in Nat
  /\ chain \in Seq(L1Block) /\ head \in Seq(L1Block)
  /\ pool \in [Hosts -> Seq(Tx)]
  /\ awaitFrom \in [Nodes -> Seq(L1Block)]

\* A transaction is one a host has sent: requests are numbered as they are made,
\* and an answer has a secret that was generated.
Genuine(tx, asked, generated) ==
  /\ tx.type = "request" => tx.node \in Nodes /\ tx.n <= asked[tx.node]
  /\ tx.type = "respond" => tx.n \in 1 .. generated

AllGenuine ==
  /\ \A i \in 1 .. Len(chain) : Genuine(chain[i].tx, requests, entropy)
  /\ \A h \in Hosts : \A i \in 1 .. Len(pool[h]) : Genuine(pool[h][i], requests, entropy)

\* The genesis enclave generates one secret, the first time it is asked to.
Generated ==
  /\ secret[Genesis] = entropy
  /\ pc[Genesis] = "secret" => entropy = 0
  /\ pc[Genesis] \in {"initialize", "receipt", "ready"} => entropy = 1

\* Among the blocks a host has looked at there is no answer to the request it waits
\* for, be they on the L1 or not.
NotYetAnswered(n) ==
  \A i, j \in 1 .. Len(awaitFrom[n]) :
    j < i /\ awaitFrom[n][j].tx = RequestTx(n, requests[n]) => ~IsResponse(n, awaitFrom[n][i].tx)

Looked == \A n \in Nodes : pc[n] \in {"requested", "await"} /\ secret[n] = 0 => NotYetAnswered(n)

IInv == TypeOK /\ L1Type /\ AllGenuine /\ Generated /\ Looked
-----------------------------------------------------------------------------
\* A finite set of numbers that is not empty has a largest one: Max finds it.
LEMMA MaxExists ==
  ASSUME NEW S \in SUBSET Nat, IsFiniteSet(S), S # {}
  PROVE  Max(S) \in S /\ \A t \in S : t <= Max(S)
<1> DEFINE Above(m) == {t \in S : t > m}
           F == {Above(m) : m \in S}
<1>1. \A m \in S : Above(m) \in FiniteSubsetsOf(S)
  BY FS_Subset DEF FiniteSubsetsOf
<1>2. F \subseteq FiniteSubsetsOf(S) /\ F # {}
  <2> HIDE DEF Above
  <2>1. PICK m \in S : TRUE
    BY Zenon
  <2>2. Above(m) \in F
    OBVIOUS
  <2> QED
    BY <1>1, <2>2
<1>3. PICK X \in F : \A Y \in F : ~(<<Y, X>> \in StrictSubsetOrdering(S))
  <2> HIDE DEF F
  <2> QED BY <1>2, FS_StrictSubsetOrderingWellFounded, WFMin
<1>4. PICK m \in S : X = Above(m)
  BY <1>3
<1>5. ASSUME NEW t \in S, t > m PROVE FALSE
  <2>0. S \subseteq Nat /\ m \in Nat /\ t \in Nat
    OBVIOUS
  <2>1. Above(t) \subseteq Above(m) /\ t \in Above(m) /\ t \notin Above(t)
    <3>1. \A u \in Nat : u > t => u > m
      BY <1>5, <2>0
    <3>2. ~(t > t)
      BY <2>0
    <3> QED
      BY Zenon, <1>5, <2>0, <3>1, <3>2
  <2>2. <<Above(t), X>> \in StrictSubsetOrdering(S)
    BY <2>1, <1>4 DEF StrictSubsetOrdering
  <2> QED
    BY Zenon, <1>3, <2>2
<1>6. \A t \in S : m >= t
  BY <1>5
<1>7. Max(S) \in S /\ \A t \in S : Max(S) >= t
  BY Zenon, <1>6 DEF Max
<1> QED
  BY <1>7

\* latestCanonAncestor returns the length of a common prefix.
LEMMA CommonPrefix ==
  ASSUME chain \in Seq(L1Block), NEW blocks \in Seq(L1Block)
  PROVE  /\ CanonAncestor(blocks) \in Nat
         /\ CanonAncestor(blocks) <= Len(blocks) /\ CanonAncestor(blocks) <= Len(chain)
         /\ \A i \in 1 .. CanonAncestor(blocks) : blocks[i] = chain[i]
<1> DEFINE S == {k \in 0 .. Len(blocks) : k <= Len(chain) /\ SubSeq(blocks, 1, k) = SubSeq(chain, 1, k)}
<1>1. IsFiniteSet(S)
  <2>1. IsFiniteSet(0 .. Len(blocks))
    BY FS_Interval
  <2>2. S \in SUBSET (0 .. Len(blocks))
    OBVIOUS
  <2> HIDE DEF S
  <2> QED
    BY Zenon, <2>1, <2>2, FS_Subset
<1>2. S \in SUBSET Nat
  OBVIOUS
<1>3. 0 \in S
  <2>1. SubSeq(blocks, 1, 0) = <<>> /\ SubSeq(chain, 1, 0) = <<>>
    OBVIOUS
  <2> QED
    BY <2>1
<1>4. Max(S) \in S
  <2> HIDE DEF S
  <2> QED
    BY <1>1, <1>2, <1>3, MaxExists
<1>5. CanonAncestor(blocks) \in S
  BY <1>4 DEF CanonAncestor
<1>6. PICK k \in 0 .. Len(blocks) : /\ k = CanonAncestor(blocks) /\ k <= Len(chain)
                                    /\ SubSeq(blocks, 1, k) = SubSeq(chain, 1, k)
  BY <1>5
<1>7. ASSUME NEW i \in 1 .. k
      PROVE  blocks[i] = chain[i]
  <2>1. SubSeq(blocks, 1, k)[i] = blocks[i] /\ SubSeq(chain, 1, k)[i] = chain[i]
    BY <1>6
  <2> QED
    BY <1>6, <2>1
<1> QED
  BY <1>6, <1>7

\* The block FetchNextBlock returns, and what has been looked at with it.
LEMMA FetchedBlock ==
  ASSUME chain \in Seq(L1Block), NEW blocks \in Seq(L1Block), HasNext(blocks)
  PROVE  /\ WithNext(blocks) \in Seq(L1Block)
         /\ \E i \in 1 .. Len(chain) : NextBlock(blocks) = chain[i].tx
         /\ NextBlock(blocks) \in Tx
         /\ \A i \in 1 .. Len(WithNext(blocks)) :
              \/ i = Len(WithNext(blocks)) /\ WithNext(blocks)[i].tx = NextBlock(blocks)
              \/ i \in 1 .. Len(blocks) /\ i < Len(WithNext(blocks)) /\ WithNext(blocks)[i] = blocks[i]
<1>1. PICK k \in Nat : /\ k = CanonAncestor(blocks) /\ k <= Len(blocks) /\ k <= Len(chain)
                       /\ \A i \in 1 .. k : blocks[i] = chain[i]
  BY CommonPrefix
<1>2. k + 1 \in 1 .. Len(chain) /\ Len(chain) \in Nat /\ Len(blocks) \in Nat
  BY <1>1 DEF HasNext
<1>3. WithNext(blocks) = SubSeq(chain, 1, k + 1) /\ NextBlock(blocks) = chain[k + 1].tx
  BY <1>1 DEF WithNext, NextBlock
<1>4. /\ SubSeq(chain, 1, k + 1) \in Seq(L1Block) /\ Len(SubSeq(chain, 1, k + 1)) = k + 1
      /\ \A i \in 1 .. k + 1 : SubSeq(chain, 1, k + 1)[i] = chain[i]
  BY <1>1, <1>2
<1>5. chain[k + 1] \in L1Block
  BY <1>2
<1>6. chain[k + 1].tx \in Tx
  BY <1>5 DEF L1Block
<1> QED
  BY <1>1, <1>2, <1>3, <1>4, <1>6

\* The types that the steps below keep needing.
LEMMA TypeFacts ==
  ASSUME IInv
  PROVE  /\ entropy \in {0, 1} /\ requests \in [Nodes -> Nat]
         /\ secret \in [Hosts -> {0, 1}] /\ \A h \in Hosts : secret[h] <= entropy
         /\ Genesis \in Hosts /\ Genesis \notin Nodes /\ Nodes \subseteq Hosts
<1>1. Genesis \in Hosts /\ Genesis \notin Nodes /\ Nodes \subseteq Hosts /\ MaxRequests \in Nat
  BY SecretAssumption DEF Hosts
<1>2. entropy \in 0 .. 1 /\ secret \in [Hosts -> 0 .. entropy] /\ requests \in [Nodes -> 0 .. MaxRequests]
  BY DEF IInv, TypeOK
<1> QED
  BY <1>1, <1>2

\* What a host has sent stays genuine as requests and secrets are added.
LEMMA GenuineStays ==
  ASSUME NEW tx \in Tx, Genuine(tx, requests, entropy),
         requests \in [Nodes -> Nat], requests' \in [Nodes -> Nat], \A n \in Nodes : requests[n] <= requests'[n],
         entropy \in Nat, entropy' \in Nat, entropy <= entropy'
  PROVE  Genuine(tx, requests', entropy')
<1>1. tx.n \in Nat
  BY DEF Tx
<1>2. ASSUME tx.type = "request"
      PROVE  tx.node \in Nodes /\ tx.n <= requests'[tx.node]
  <2>1. PICK n \in Nodes : n = tx.node
    BY <1>2 DEF Genuine
  <2>2. tx.n <= requests[n] /\ requests[n] <= requests'[n] /\ requests[n] \in Nat /\ requests'[n] \in Nat
    BY <1>2, <2>1 DEF Genuine
  <2> QED
    BY <1>1, <2>1, <2>2
<1>3. ASSUME tx.type = "respond"
      PROVE  tx.n \in 1 .. entropy'
  BY <1>1, <1>3 DEF Genuine
<1> QED
  BY <1>2, <1>3 DEF Genuine

\* The transactions on the L1 and on their way there.
LEMMA TxTypes ==
  ASSUME L1Type
  PROVE  /\ \A i \in 1 .. Len(chain) : chain[i] \in L1Block /\ chain[i].tx \in Tx
         /\ \A h \in Hosts : \A i \in 1 .. Len(pool[h]) : pool[h][i] \in Tx
<1>1. chain \in Seq(L1Block) /\ \A h \in Hosts : pool[h] \in Seq(Tx)
  BY DEF L1Type
<1>2. \A i \in 1 .. Len(chain) : chain[i] \in L1Block
  BY <1>1
<1>3. \A b \in L1Block : b.tx \in Tx
  BY Zenon DEF L1Block
<1> QED
  BY <1>1, <1>2, <1>3

\* Nothing is sent or mined.
LEMMA L1Unchanged ==
  ASSUME IInv, UNCHANGED <<chain, pool>>,
         requests' \in [Nodes -> Nat], \A n \in Nodes : requests[n] <= requests'[n],
         entropy' \in Nat, entropy <= entropy'
  PROVE  AllGenuine'
<1>1. requests \in [Nodes -> Nat] /\ entropy \in Nat
  BY TypeFacts
<1>2. /\ \A i \in 1 .. Len(chain) : chain[i].tx \in Tx /\ Genuine(chain[i].tx, requests, entropy)
      /\ \A h \in Hosts : \A i \in 1 .. Len(pool[h]) : pool[h][i] \in Tx /\ Genuine(pool[h][i], requests, entropy)
  BY TxTypes DEF IInv, AllGenuine
<1>3. \A tx \in Tx : Genuine(tx, requests, entropy) => Genuine(tx, requests', entropy')
  BY <1>1, GenuineStays
<1>4. /\ \A i \in 1 .. Len(chain) : Genuine(chain[i].tx, requests', entropy')
      /\ \A h \in Hosts : \A i \in 1 .. Len(pool[h]) : Genuine(pool[h][i], requests', entropy')
  BY <1>2, <1>3
<1> QED
  BY <1>4 DEF AllGenuine, Genuine
-----------------------------------------------------------------------------
(* Every step keeps the invariant.                                           *)

\* A network without a secret has the invariant.
LEMMA InitKeeps == Init => IInv
<1> SUFFICES ASSUME Init PROVE IInv
  OBVIOUS
<1>1. Genesis \in Hosts /\ MaxRequests \in Nat
  BY SecretAssumption DEF Hosts
<1>2. TypeOK
  BY <1>1 DEF Init, TypeOK
<1>3. L1Type
  BY DEF Init, L1Type
<1>4. AllGenuine
  BY DEF Init, AllGenuine
<1>5. Generated
  BY <1>1 DEF Init, Generated
<1>6. Looked
  BY DEF Init, Looked, NotYetAnswered
<1> QED
  BY Zenon, <1>2, <1>3, <1>4, <1>5, <1>6 DEF IInv

\* A host goes on and nothing but its own place changes; the genesis host may drop
\* answers.
LEMMA HostMoves ==
  ASSUME IInv,
         NEW h \in Hosts, NEW s \in {"status", "secret", "initialize", "receipt", "requested", "await", "ready"},
         pc' = [pc EXCEPT ![h] = s], responses' \subseteq responses,
         UNCHANGED <<l1Vars, secret, entropy, head, requests, awaitFrom>>,
         h = Genesis => /\ s = "secret" => entropy = 0
                        /\ s \in {"initialize", "receipt", "ready"} => entropy = 1,
         h \in Nodes /\ s \in {"requested", "await"} => pc[h] \in {"requested", "await"}
  PROVE  IInv'
<1>1. Genesis \in Hosts /\ Genesis \notin Nodes /\ Nodes \subseteq Hosts
  BY TypeFacts
<1>2. /\ pc' \in [Hosts -> {"status", "secret", "initialize", "receipt", "requested", "await", "ready"}]
      /\ pc'[h] = s /\ \A x \in Hosts : x # h => pc'[x] = pc[x]
  BY DEF IInv, TypeOK
<1>3. TypeOK'
  BY Zenon, <1>2 DEF IInv, TypeOK
<1>4. L1Type' /\ AllGenuine'
  BY Zenon DEF IInv, L1Type, AllGenuine, Genuine, l1Vars
<1>5. Generated'
  BY Zenon, <1>1, <1>2 DEF IInv, Generated
<1>6. Looked'
  <2>1. ASSUME NEW n \in Nodes, pc'[n] \in {"requested", "await"}, secret[n] = 0
        PROVE  NotYetAnswered(n)
    BY Zenon, <1>1, <1>2, <2>1 DEF IInv, Looked
  <2> QED
    BY <2>1 DEF Looked, NotYetAnswered
<1> QED
  BY Zenon, <1>3, <1>4, <1>5, <1>6 DEF IInv

\* The steps of that kind.
LEMMA MovesKeep ==
  ASSUME IInv,
         \/ \E h \in Hosts : CheckStatus(h) \/ Restart(h)
         \/ Initialized \/ InitializeFails
         \/ \E n \in Nodes : RequestReceipt(n) \/ Timeout(n) \/ EarlyTimeout(n)
  PROVE  IInv'
<1>1. Genesis \in Hosts /\ Genesis \notin Nodes /\ Nodes \subseteq Hosts /\ entropy \in {0, 1} /\ secret[Genesis] = entropy
  BY TypeFacts DEF IInv, Generated
<1>2. ASSUME NEW h \in Hosts, CheckStatus(h)
      PROVE  IInv'
  <2>1. CASE secret[h] = 0
    <3>1. pc' = [pc EXCEPT ![h] = "secret"]
      BY <1>2, <2>1 DEF CheckStatus
    <3> QED
      BY Zenon, <1>1, <1>2, <2>1, <3>1, HostMoves DEF CheckStatus
  <2>2. CASE secret[h] # 0
    <3>1. pc' = [pc EXCEPT ![h] = "ready"]
      BY <1>2, <2>2 DEF CheckStatus
    <3> QED
      BY Zenon, <1>1, <1>2, <2>2, <3>1, HostMoves DEF CheckStatus
  <2> QED
    BY Zenon, <2>1, <2>2
<1>3. ASSUME NEW h \in Hosts, Restart(h)
      PROVE  IInv'
  BY Zenon, <1>3, HostMoves DEF Restart
<1>4. CASE Initialized
  BY Zenon, <1>1, <1>4, HostMoves DEF Initialized, IInv, Generated
<1>5. CASE InitializeFails
  BY Zenon, <1>1, <1>5, HostMoves DEF InitializeFails
<1>6. ASSUME NEW n \in Nodes, RequestReceipt(n) \/ Timeout(n) \/ EarlyTimeout(n)
      PROVE  IInv'
  BY <1>1, <1>6, HostMoves DEF RequestReceipt, Timeout, EarlyTimeout
<1> QED
  BY Zenon, <1>2, <1>3, <1>4, <1>5, <1>6

\* A host sends a transaction.
LEMMA Sent ==
  ASSUME IInv, NEW h \in Hosts, NEW tx \in Tx, Genuine(tx, requests', entropy'),
         pool' = [pool EXCEPT ![h] = Append(pool[h], tx)], chain' = chain,
         requests' \in [Nodes -> Nat], \A n \in Nodes : requests[n] <= requests'[n],
         entropy' = entropy
  PROVE  pool' \in [Hosts -> Seq(Tx)] /\ AllGenuine'
<1>1. requests \in [Nodes -> Nat] /\ entropy \in Nat
  BY TypeFacts
<1>2. pool \in [Hosts -> Seq(Tx)] /\ pool[h] \in Seq(Tx)
  BY DEF IInv, L1Type
<1>3. /\ Append(pool[h], tx) \in Seq(Tx) /\ Len(Append(pool[h], tx)) = Len(pool[h]) + 1
      /\ \A i \in 1 .. Len(pool[h]) : Append(pool[h], tx)[i] = pool[h][i]
      /\ Append(pool[h], tx)[Len(pool[h]) + 1] = tx
  BY <1>2
<1>4. /\ pool' \in [Hosts -> Seq(Tx)] /\ pool'[h] = Append(pool[h], tx)
      /\ \A x \in Hosts : x # h => pool'[x] = pool[x]
  BY <1>2, <1>3
<1>5. \A t \in Tx : Genuine(t, requests, entropy) => Genuine(t, requests', entropy')
  BY <1>1, GenuineStays
<1>6. \A i \in 1 .. Len(chain) : Genuine(chain[i].tx, requests', entropy')
  BY <1>5, TxTypes DEF IInv, AllGenuine
<1>7. ASSUME NEW x \in Hosts, NEW i \in 1 .. Len(pool'[x])
      PROVE  Genuine(pool'[x][i], requests', entropy')
  <2>1. CASE x # h
    <3>1. pool'[x] = pool[x]
      BY Zenon, <1>4, <2>1
    <3>2. pool[x][i] \in Tx /\ Genuine(pool[x][i], requests, entropy)
      BY Zenon, <3>1, TxTypes DEF IInv, AllGenuine
    <3> QED
      BY <1>5, <3>1, <3>2
  <2>2. CASE x = h
    <3>1. i \in 1 .. Len(pool[h]) + 1 /\ Len(pool[h]) \in Nat
      BY <1>2, <1>3, <1>4, <2>2
    <3>2. CASE i = Len(pool[h]) + 1
      BY <1>3, <1>4, <2>2, <3>2
    <3>3. CASE i \in 1 .. Len(pool[h])
      <4>1. pool[h][i] \in Tx /\ Genuine(pool[h][i], requests, entropy) /\ pool'[x][i] = pool[h][i]
        BY <1>3, <1>4, <2>2, <3>3, TxTypes DEF IInv, AllGenuine
      <4> QED
        BY <1>5, <4>1
    <3> QED
      BY <3>1, <3>2, <3>3
  <2> QED
    BY <2>1, <2>2
<1>8. \A i \in 1 .. Len(chain') : Genuine(chain'[i].tx, requests', entropy')
  BY <1>6
<1> QED
  BY <1>4, <1>7, <1>8 DEF AllGenuine

\* The genesis enclave generates the secret.
LEMMA GenerateKeeps ==
  ASSUME IInv, GenerateSecret
  PROVE  IInv'
<1>1. Genesis \in Hosts /\ Genesis \notin Nodes /\ Nodes \subseteq Hosts /\ entropy = 0 /\ secret[Genesis] = 0
  BY TypeFacts DEF IInv, Generated, GenerateSecret
<1>2. /\ entropy' = 1 /\ secret' = [secret EXCEPT ![Genesis] = 1] /\ pc' = [pc EXCEPT ![Genesis] = "initialize"]
      /\ UNCHANGED <<l1Vars, head, responses, requests, awaitFrom>>
  BY <1>1 DEF GenerateSecret, Stored
<1>3. TypeOK'
  <2>1. secret' \in [Hosts -> 0 .. 1]
    BY <1>1, <1>2, TypeFacts
  <2>2. \A r \in responses : r.node \in Nodes /\ r.secret \in 1 .. 1
    BY <1>1 DEF IInv, TypeOK
  <2> QED
    BY <1>2, <2>1, <2>2 DEF IInv, TypeOK
<1>4. L1Type'
  BY <1>2 DEF IInv, L1Type, l1Vars
<1>5. AllGenuine'
  BY <1>1, <1>2, TypeFacts, L1Unchanged DEF l1Vars
<1>6. Generated'
  BY Zenon, <1>1, <1>2 DEF IInv, TypeOK, Generated
<1>7. Looked'
  <2>1. \A n \in Nodes : pc'[n] = pc[n] /\ secret'[n] = secret[n]
    BY <1>1, <1>2 DEF IInv, TypeOK
  <2> QED
    BY Zenon, <1>2, <2>1 DEF IInv, Looked, NotYetAnswered
<1> QED
  BY <1>3, <1>4, <1>5, <1>6, <1>7 DEF IInv

\* Its host publishes that there is one.
LEMMA InitializeKeeps ==
  ASSUME IInv, InitializeSecret
  PROVE  IInv'
<1>1. Genesis \in Hosts /\ Genesis \notin Nodes /\ Nodes \subseteq Hosts /\ requests \in [Nodes -> Nat]
  BY TypeFacts
<1>2. /\ pool' = [pool EXCEPT ![Genesis] = Append(pool[Genesis], InitializeTx)]
      /\ pc' = [pc EXCEPT ![Genesis] = "receipt"] /\ pc[Genesis] = "initialize"
      /\ UNCHANGED <<chain, reorgs, secret, entropy, head, responses, requests, awaitFrom>>
  BY DEF InitializeSecret
<1>3. InitializeTx \in Tx /\ Genuine(InitializeTx, requests', entropy')
  BY Zenon, <1>1 DEF InitializeTx, Tx, Genuine
<1>4. pool' \in [Hosts -> Seq(Tx)] /\ AllGenuine'
  <2>1. requests' \in [Nodes -> Nat] /\ \A n \in Nodes : requests[n] <= requests'[n]
    BY <1>1, <1>2
  <2> QED
    BY Zenon, <1>1, <1>2, <1>3, <2>1, Sent
<1>5. TypeOK' /\ L1Type'
  BY <1>2, <1>4 DEF IInv, TypeOK, L1Type
<1>6. Generated'
  BY <1>1, <1>2 DEF IInv, TypeOK, Generated
<1>7. Looked'
  BY <1>1, <1>2 DEF IInv, TypeOK, Looked, NotYetAnswered
<1> QED
  BY Zenon, <1>4, <1>5, <1>6, <1>7 DEF IInv

\* A goroutine of the genesis host publishes an answer, or cannot.
LEMMA PublishKeeps ==
  ASSUME IInv, PublishSecretResponse
  PROVE  IInv'
<1>1. PICK r \in responses :
        /\ responses' = responses \ {r}
        /\ pool' = IF Genesis \in Attested
                     THEN [pool EXCEPT ![Genesis] = Append(@, RespondTx(r.node, r.secret))]
                     ELSE pool
        /\ UNCHANGED <<chain, reorgs, faults, secret, entropy, head, pc, requests, awaitFrom>>
  BY Zenon DEF PublishSecretResponse
<1>2. /\ Genesis \in Hosts /\ Nodes \subseteq Hosts /\ requests \in [Nodes -> Nat] /\ entropy \in {0, 1}
      /\ r.node \in Nodes /\ r.secret \in 1 .. entropy
  BY TypeFacts DEF IInv, TypeOK
<1>3. RespondTx(r.node, r.secret) \in Tx /\ Genuine(RespondTx(r.node, r.secret), requests', entropy')
  BY <1>1, <1>2 DEF RespondTx, Tx, Genuine
<1>4. pool' \in [Hosts -> Seq(Tx)] /\ AllGenuine'
  <2>1. CASE pool' = pool
    BY <1>1, <1>2, <2>1, L1Unchanged DEF IInv, L1Type
  <2>2. CASE pool' = [pool EXCEPT ![Genesis] = Append(pool[Genesis], RespondTx(r.node, r.secret))]
    <3>1. requests' \in [Nodes -> Nat] /\ \A n \in Nodes : requests[n] <= requests'[n]
      BY <1>1, <1>2
    <3> QED
      BY Zenon, <1>1, <1>2, <1>3, <2>2, <3>1, Sent
  <2> QED
    BY <1>1, <2>1, <2>2
<1>5. TypeOK' /\ L1Type' /\ Generated' /\ Looked'
  BY <1>1, <1>4 DEF IInv, TypeOK, L1Type, Generated, Looked, NotYetAnswered
<1> QED
  BY <1>4, <1>5 DEF IInv

\* The genesis enclave is given a block; its host may not get the answers.
LEMMA SubmitKeeps ==
  ASSUME IInv, SubmitL1Block \/ SubmitUnanswered
  PROVE  IInv'
<1>1. /\ HasNext(head) /\ head' = WithNext(head) /\ pc[Genesis] = "ready"
      /\ UNCHANGED <<l1Vars, secret, entropy, pc, requests, awaitFrom>>
  BY DEF SubmitL1Block, SubmitUnanswered
<1>2. chain \in Seq(L1Block) /\ head \in Seq(L1Block)
  BY DEF IInv, L1Type
<1>3. head' \in Seq(L1Block) /\ NextBlock(head) \in Tx /\ Genuine(NextBlock(head), requests, entropy)
  BY Zenon, <1>1, <1>2, FetchedBlock DEF IInv, AllGenuine
<1>4. \A r \in responses' : r.node \in Nodes /\ r.secret \in 1 .. entropy
  <2>1. \A r \in responses : r.node \in Nodes /\ r.secret \in 1 .. entropy
    BY DEF IInv, TypeOK
  <2>2. \A r \in ProducedResponses(NextBlock(head)) : r.node \in Nodes /\ r.secret \in 1 .. entropy
    <3>1. secret[Genesis] \in 1 .. entropy
      BY <1>1 DEF IInv, Generated
    <3> QED
      BY <1>3, <3>1 DEF ProducedResponses, Genuine
  <2> QED
    BY <2>1, <2>2 DEF SubmitL1Block, SubmitUnanswered
<1>5. TypeOK' /\ L1Type' /\ AllGenuine' /\ Generated' /\ Looked'
  BY <1>1, <1>3, <1>4 DEF IInv, TypeOK, L1Type, AllGenuine, Genuine, Generated, Looked, NotYetAnswered, l1Vars
<1> QED
  BY <1>5 DEF IInv

\* The L1 mines the next transaction of a host.
LEMMA MineKeeps ==
  ASSUME IInv, NEW h \in Hosts, Mine(h)
  PROVE  IInv'
<1>1. /\ pool[h] # <<>> /\ pool' = [pool EXCEPT ![h] = Tail(pool[h])]
      /\ chain' = Append(chain, [fork |-> reorgs, tx |-> Head(pool[h])])
      /\ UNCHANGED <<reorgs, secret, entropy, head, responses, pc, requests, awaitFrom>>
  BY DEF Mine
<1>2. chain \in Seq(L1Block) /\ pool \in [Hosts -> Seq(Tx)] /\ pool[h] \in Seq(Tx) /\ reorgs \in Nat
  BY DEF IInv, L1Type
<1>3. /\ Head(pool[h]) = pool[h][1] /\ 1 \in 1 .. Len(pool[h]) /\ Head(pool[h]) \in Tx
      /\ Tail(pool[h]) \in Seq(Tx) /\ Len(Tail(pool[h])) = Len(pool[h]) - 1
      /\ \A i \in 1 .. Len(Tail(pool[h])) : i + 1 \in 1 .. Len(pool[h]) /\ Tail(pool[h])[i] = pool[h][i + 1]
  BY <1>1, <1>2
<1>4. [fork |-> reorgs, tx |-> Head(pool[h])] \in L1Block
  BY <1>2, <1>3 DEF L1Block
<1>5. PICK b \in L1Block : b = [fork |-> reorgs, tx |-> Head(pool[h])]
  BY <1>4
<1>6. /\ chain' \in Seq(L1Block) /\ Len(chain') = Len(chain) + 1 /\ chain'[Len(chain) + 1] = b
      /\ \A i \in 1 .. Len(chain) : chain'[i] = chain[i]
  BY <1>1, <1>2, <1>5
<1>7. /\ pool' \in [Hosts -> Seq(Tx)] /\ pool'[h] = Tail(pool[h])
      /\ \A x \in Hosts : x # h => pool'[x] = pool[x]
  BY Zenon, <1>1, <1>2, <1>3
<1>8. AllGenuine'
  <2>1. \A i \in 1 .. Len(chain') : Genuine(chain'[i].tx, requests, entropy)
    <3>1. b.tx = pool[h][1]
      BY <1>3, <1>5
    <3>2. Genuine(b.tx, requests, entropy)
      BY <1>3, <3>1 DEF IInv, AllGenuine
    <3>3. \A i \in 1 .. Len(chain') : i \in 1 .. Len(chain) \/ i = Len(chain) + 1
      BY <1>2, <1>6
    <3> QED
      BY <1>6, <3>2, <3>3 DEF IInv, AllGenuine
  <2>2. ASSUME NEW x \in Hosts, NEW i \in 1 .. Len(pool'[x])
        PROVE  Genuine(pool'[x][i], requests, entropy)
    <3>1. CASE x = h
      <4>1. i + 1 \in 1 .. Len(pool[h]) /\ pool'[x][i] = pool[h][i + 1]
        BY Zenon, <1>3, <1>7, <3>1
      <4> QED
        BY <4>1 DEF IInv, AllGenuine
    <3>2. CASE x # h
      BY <1>7, <3>2 DEF IInv, AllGenuine
    <3> QED
      BY <3>1, <3>2
  <2> QED
    BY Zenon, <1>1, <2>1, <2>2 DEF AllGenuine
<1>9. TypeOK' /\ L1Type' /\ Generated' /\ Looked'
  BY Zenon, <1>1, <1>6, <1>7 DEF IInv, TypeOK, L1Type, Generated, Looked, NotYetAnswered
<1> QED
  BY Zenon, <1>8, <1>9 DEF IInv

\* The last block of the L1 is replaced, and its transaction waits again.
LEMMA ReorgKeeps ==
  ASSUME IInv, Reorg
  PROVE  IInv'
<1> DEFINE last == chain[Len(chain)].tx
           host == IF last.type = "request" THEN last.node ELSE Genesis
           b == [fork |-> reorgs + 1, tx |-> NoTx]
<1>1. /\ chain # <<>> /\ reorgs' = reorgs + 1
      /\ chain' = [chain EXCEPT ![Len(chain)] = b]
      /\ pool' = [pool EXCEPT ![host] = <<last>> \o pool[host]]
      /\ UNCHANGED <<secret, entropy, head, responses, pc, requests, awaitFrom>>
  BY DEF Reorg
<1>2. chain \in Seq(L1Block) /\ pool \in [Hosts -> Seq(Tx)] /\ reorgs \in Nat /\ Len(chain) \in 1 .. Len(chain)
  BY <1>1 DEF IInv, L1Type
<1>3. Genesis \in Hosts /\ Genesis \notin Nodes
  BY Zenon, TypeFacts
<1>4. last \in Tx /\ Genuine(last, requests, entropy)
  BY Zenon, <1>2, TxTypes DEF IInv, AllGenuine
<1>5. host \in Hosts
  BY Zenon, <1>3, <1>4 DEF Tx
<1>6. b \in L1Block /\ b.tx = NoTx /\ Genuine(NoTx, requests, entropy)
  BY <1>2, <1>3 DEF L1Block, Tx, NoTx, Genuine
<1> HIDE DEF last, host, b
<1>7. /\ chain' \in Seq(L1Block) /\ Len(chain') = Len(chain)
      /\ \A i \in 1 .. Len(chain) : chain'[i] = IF i = Len(chain) THEN b ELSE chain[i]
  BY <1>1, <1>2, <1>6
<1>8. /\ <<last>> \o pool[host] \in Seq(Tx) /\ Len(<<last>> \o pool[host]) = Len(pool[host]) + 1
      /\ \A i \in 1 .. Len(pool[host]) + 1 :
           (<<last>> \o pool[host])[i] = IF i = 1 THEN last ELSE pool[host][i - 1]
  <2>1. pool[host] \in Seq(Tx) /\ <<last>> \in Seq(Tx) /\ Len(<<last>>) = 1 /\ <<last>>[1] = last
    BY <1>2, <1>4, <1>5
  <2> QED
    BY <2>1
<1>9. /\ pool' \in [Hosts -> Seq(Tx)] /\ pool'[host] = <<last>> \o pool[host]
      /\ \A x \in Hosts : x # host => pool'[x] = pool[x]
  BY Zenon, <1>1, <1>2, <1>5, <1>8
<1>10. AllGenuine'
  <2>1. \A i \in 1 .. Len(chain') : Genuine(chain'[i].tx, requests, entropy)
    BY Zenon, <1>6, <1>7 DEF IInv, AllGenuine
  <2>2. ASSUME NEW i \in 1 .. Len(pool'[host])
        PROVE  Genuine(pool'[host][i], requests, entropy)
    <3>1. Len(pool[host]) \in Nat
      BY <1>2, <1>5
    <3>2. i = 1 \/ i - 1 \in 1 .. Len(pool[host])
      BY <1>8, <1>9, <3>1
    <3>3. pool'[host][i] = IF i = 1 THEN last ELSE pool[host][i - 1]
      BY Zenon, <1>8, <1>9
    <3> QED
      BY Zenon, <1>4, <1>5, <3>2, <3>3 DEF IInv, AllGenuine
  <2>3. \A x \in Hosts : \A i \in 1 .. Len(pool'[x]) : Genuine(pool'[x][i], requests, entropy)
    BY Zenon, <1>9, <2>2 DEF IInv, AllGenuine
  <2> QED
    BY Zenon, <1>1, <2>1, <2>3 DEF AllGenuine
<1>11. TypeOK' /\ L1Type' /\ Generated' /\ Looked'
  BY <1>1, <1>2, <1>7, <1>9 DEF IInv, TypeOK, L1Type, Generated, Looked, NotYetAnswered
<1> QED
  BY <1>10, <1>11 DEF IInv

\* A node asks for the secret: a request with this number is nowhere yet.
LEMMA RequestKeeps ==
  ASSUME IInv, NEW n \in Nodes, RequestSecret(n)
  PROVE  IInv'
<1>1. /\ Genesis \in Hosts /\ Genesis \notin Nodes /\ Nodes \subseteq Hosts
      /\ requests \in [Nodes -> Nat] /\ requests[n] \in Nat /\ entropy \in Nat /\ MaxRequests \in Nat
  BY TypeFacts, SecretAssumption
<1>2. /\ requests[n] < MaxRequests /\ requests' = [requests EXCEPT ![n] = requests[n] + 1]
      /\ awaitFrom' = [awaitFrom EXCEPT ![n] = chain]
      /\ pool' = [pool EXCEPT ![n] = Append(pool[n], RequestTx(n, requests[n] + 1))]
      /\ pc' = [pc EXCEPT ![n] = "requested"]
      /\ UNCHANGED <<chain, reorgs, secret, entropy, head, responses>>
  BY DEF RequestSecret
<1>3. /\ requests' \in [Nodes -> Nat] /\ requests'[n] = requests[n] + 1
      /\ \A m \in Nodes : requests[m] <= requests'[m]
      /\ \A m \in Nodes : m # n => requests'[m] = requests[m]
  BY <1>1, <1>2
<1>4. pool' \in [Hosts -> Seq(Tx)] /\ AllGenuine'
  <2>1. RequestTx(n, requests[n] + 1) \in Tx
    BY <1>1 DEF RequestTx, Tx
  <2>2. Genuine(RequestTx(n, requests[n] + 1), requests', entropy')
    BY <1>1, <1>3 DEF RequestTx, Genuine
  <2> QED
    BY Zenon, <1>1, <1>2, <1>3, <2>1, <2>2, Sent
<1>5. TypeOK'
  <2>1. requests' \in [Nodes -> 0 .. MaxRequests]
    BY <1>1, <1>2 DEF IInv, TypeOK
  <2> QED
    BY Zenon, <1>2, <2>1 DEF IInv, TypeOK
<1>6. L1Type'
  <2>1. awaitFrom' \in [Nodes -> Seq(L1Block)]
    BY <1>2 DEF IInv, L1Type
  <2> QED
    BY <1>2, <1>4, <2>1 DEF IInv, L1Type
<1>7. Generated'
  BY Zenon, <1>1, <1>2 DEF IInv, TypeOK, Generated
<1>8. Looked'
  <2>1. ASSUME NEW m \in Nodes, pc'[m] \in {"requested", "await"}, secret[m] = 0, m # n
        PROVE  NotYetAnswered(m)'
    <3>1. pc'[m] = pc[m] /\ awaitFrom'[m] = awaitFrom[m] /\ requests'[m] = requests[m]
      BY Zenon, <1>1, <1>2, <1>3, <2>1 DEF IInv, TypeOK, L1Type
    <3>2. NotYetAnswered(m)
      BY Zenon, <2>1, <3>1 DEF IInv, Looked
    <3> QED
      BY Zenon, <3>1, <3>2 DEF NotYetAnswered
  <2>2. NotYetAnswered(n)'
    <3>1. awaitFrom'[n] = chain
      BY <1>2 DEF IInv, L1Type
    <3>2. ASSUME NEW j \in 1 .. Len(chain)
          PROVE  chain[j].tx # RequestTx(n, requests[n] + 1)
      <4>1. Genuine(chain[j].tx, requests, entropy)
        BY DEF IInv, AllGenuine
      <4>2. ~Genuine(RequestTx(n, requests[n] + 1), requests, entropy)
        BY <1>1 DEF Genuine, RequestTx
      <4> QED
        BY Zenon, <4>1, <4>2
    <3> QED
      BY Zenon, <1>3, <3>1, <3>2 DEF NotYetAnswered
  <2> QED
    BY Zenon, <1>2, <2>1, <2>2 DEF Looked
<1> QED
  BY <1>4, <1>5, <1>6, <1>7, <1>8 DEF IInv

\* A waiting host looks at the next block.  Either it is not an answer, or the
\* enclave has a secret afterwards.
LEMMA LookKeeps ==
  ASSUME IInv, NEW n \in Nodes, SkipBlock(n) \/ InitEnclave(n) \/ InitUnanswered(n)
  PROVE  IInv'
<1> DEFINE tx == NextBlock(awaitFrom[n])
<1>1. /\ Genesis \in Hosts /\ Genesis \notin Nodes /\ Nodes \subseteq Hosts /\ entropy \in {0, 1}
      /\ secret \in [Hosts -> {0, 1}] /\ \A h \in Hosts : secret[h] <= entropy
  BY Zenon, TypeFacts
<1>2. /\ pc[n] = "await" /\ HasNext(awaitFrom[n])
      /\ UNCHANGED <<l1Vars, entropy, head, responses, requests>>
  BY DEF SkipBlock, InitEnclave, InitUnanswered
<1>3. chain \in Seq(L1Block) /\ awaitFrom \in [Nodes -> Seq(L1Block)] /\ awaitFrom[n] \in Seq(L1Block)
  BY Zenon DEF IInv, L1Type
<1>4. WithNext(awaitFrom[n]) \in Seq(L1Block) /\ tx \in Tx /\ Genuine(tx, requests, entropy)
  BY Zenon, <1>2, <1>3, FetchedBlock DEF IInv, AllGenuine
<1>5. awaitFrom' \in [Nodes -> Seq(L1Block)] /\ \A m \in Nodes : m # n => awaitFrom'[m] = awaitFrom[m]
  <2>1. awaitFrom' = awaitFrom \/ awaitFrom' = [awaitFrom EXCEPT ![n] = WithNext(awaitFrom[n])]
    BY DEF SkipBlock, InitEnclave, InitUnanswered
  <2> QED
    BY <1>3, <1>4, <2>1
<1>6. \/ secret' = secret /\ ~IsResponse(n, tx) /\ SkipBlock(n)
      \/ secret' = [secret EXCEPT ![n] = Stored(n, tx.n)] /\ IsResponse(n, tx)
  BY DEF SkipBlock, InitEnclave, InitUnanswered
<1>7. IsResponse(n, tx) => tx.n = 1 /\ entropy = 1
  BY <1>1, <1>4 DEF IsResponse, Genuine
<1> HIDE DEF tx
<1>8. /\ secret' \in [Hosts -> {0, 1}] /\ \A h \in Hosts : secret'[h] <= entropy /\ (h # n => secret'[h] = secret[h])
      /\ secret'[n] = 0 => SkipBlock(n) /\ ~IsResponse(n, tx) /\ secret[n] = 0
  BY <1>1, <1>6, <1>7 DEF Stored
<1>9. /\ pc' \in [Hosts -> {"status", "secret", "initialize", "receipt", "requested", "await", "ready"}]
      /\ \A h \in Hosts : h # n => pc'[h] = pc[h]
  <2>1. pc' = pc \/ pc' = [pc EXCEPT ![n] = "ready"]
    BY Zenon DEF SkipBlock, InitEnclave, InitUnanswered
  <2> QED
    BY Zenon, <2>1 DEF IInv, TypeOK
<1>10. TypeOK'
  <2>1. secret' \in [Hosts -> 0 .. entropy]
    BY <1>1, <1>8
  <2> QED
    BY Zenon, <1>2, <1>9, <2>1 DEF IInv, TypeOK
<1>11. L1Type' /\ AllGenuine'
  BY Zenon, <1>2, <1>5 DEF IInv, L1Type, AllGenuine, l1Vars
<1>12. Generated'
  BY Zenon, <1>1, <1>2, <1>8, <1>9 DEF IInv, Generated
<1>13. Looked'
  <2>1. ASSUME NEW m \in Nodes, pc'[m] \in {"requested", "await"}, secret'[m] = 0, m # n
        PROVE  NotYetAnswered(m)'
    <3>1. NotYetAnswered(m) /\ awaitFrom'[m] = awaitFrom[m]
      BY Zenon, <1>1, <1>5, <1>8, <1>9, <2>1 DEF IInv, Looked
    <3> QED
      BY Zenon, <1>2, <3>1 DEF NotYetAnswered
  <2>2. ASSUME secret'[n] = 0
        PROVE  NotYetAnswered(n)'
    <3>1. NotYetAnswered(n)
      BY Zenon, <1>2, <1>8, <2>2 DEF IInv, Looked
    <3>2. awaitFrom'[n] = WithNext(awaitFrom[n]) /\ ~IsResponse(n, NextBlock(awaitFrom[n]))
      BY Zenon, <1>3, <1>8, <2>2 DEF SkipBlock
    <3>3. ASSUME NEW i \in 1 .. Len(awaitFrom'[n]), NEW j \in 1 .. Len(awaitFrom'[n]), j < i,
                 awaitFrom'[n][j].tx = RequestTx(n, requests[n]), IsResponse(n, awaitFrom'[n][i].tx)
          PROVE  FALSE
      <4>1. /\ i \in 1 .. Len(awaitFrom[n]) /\ i < Len(awaitFrom'[n]) /\ awaitFrom'[n][i] = awaitFrom[n][i]
        BY <1>2, <1>3, <3>2, <3>3, FetchedBlock
      <4>2. j # Len(awaitFrom'[n])
        BY <3>3, <4>1
      <4>3. j \in 1 .. Len(awaitFrom[n]) /\ awaitFrom'[n][j] = awaitFrom[n][j]
        BY <1>2, <1>3, <3>2, <4>2, FetchedBlock
      <4> QED
        BY Zenon, <3>1, <3>3, <4>1, <4>3 DEF NotYetAnswered
    <3> QED
      BY Zenon, <1>2, <3>3 DEF NotYetAnswered
  <2> QED
    BY Zenon, <2>1, <2>2 DEF Looked
<1> QED
  BY Zenon, <1>10, <1>11, <1>12, <1>13 DEF IInv
-----------------------------------------------------------------------------
(* The theorems.                                                             *)

\* Every step keeps the invariant, also when InitializeSecret may fail.
LEMMA StepKeeps ==
  ASSUME IInv, [Next \/ InitializeFails]_vars
  PROVE  IInv'
<1>1. CASE Next
  BY <1>1, MovesKeep, MineKeeps, GenerateKeeps, InitializeKeeps, SubmitKeeps, PublishKeeps, RequestKeeps,
     LookKeeps, ReorgKeeps DEF Next, ProvideSecret
<1>2. CASE InitializeFails
  BY Zenon, <1>2, MovesKeep
<1>3. CASE UNCHANGED vars
  BY Zenon, <1>3 DEF IInv, TypeOK, L1Type, AllGenuine, Generated, Looked, NotYetAnswered, vars, l1Vars
<1> QED
  BY Zenon, <1>1, <1>2, <1>3

\* In a state of the invariant there is at most one secret, and no answer is behind
\* a host that waits for it.
LEMMA OneSecretFollows ==
  ASSUME IInv
  PROVE  OneSecret
<1> DEFINE answers == {j \in 1 .. Len(chain) : chain[j].tx.type = "respond"}
           secrets == {secret[h] : h \in Hosts} \cup {r.secret : r \in responses} \cup {chain[i].tx.n : i \in answers}
<1>1. entropy \in {0, 1} /\ \A h \in Hosts : secret[h] \in {0, 1}
  BY TypeFacts
<1>2. \A r \in responses : r.secret \in 1 .. entropy
  BY Zenon DEF IInv, TypeOK
<1>3. \A i \in answers : chain[i].tx.n \in 1 .. entropy
  BY Zenon DEF IInv, AllGenuine, Genuine
<1>4. secrets \ {0} \in SUBSET {1}
  BY <1>1, <1>2, <1>3
<1> HIDE DEF secrets
<1>5. IsFiniteSet({1}) /\ Cardinality({1}) = 1
  BY Zenon, FS_Singleton
<1>6. Cardinality(secrets \ {0}) <= 1
  BY <1>4, <1>5, FS_Subset
<1> QED
  BY <1>6 DEF OneSecret, secrets

\* An answer is above the block the search for it starts from.
LEMMA NotMissedFollows ==
  ASSUME IInv
  PROVE  AnswerNotMissed
<1> SUFFICES ASSUME NEW n \in Nodes, pc[n] = "await", secret[n] = 0,
                    NEW i \in 1 .. Len(chain), IsResponse(n, chain[i].tx),
                    NEW j \in 1 .. Len(chain), chain[j].tx = RequestTx(n, requests[n]), j < i
             PROVE  i > CanonAncestor(awaitFrom[n])
  BY DEF AnswerNotMissed
<1>1. chain \in Seq(L1Block) /\ awaitFrom[n] \in Seq(L1Block)
  BY DEF IInv, L1Type
<1>2. PICK k \in Nat : /\ k = CanonAncestor(awaitFrom[n]) /\ k <= Len(awaitFrom[n])
                       /\ \A m \in 1 .. k : awaitFrom[n][m] = chain[m]
  BY Zenon, <1>1, CommonPrefix
<1>3. NotYetAnswered(n)
  BY Zenon DEF IInv, Looked
<1>4. ASSUME i <= k
      PROVE  FALSE
  <2>1. i \in 1 .. k /\ j \in 1 .. k /\ i \in 1 .. Len(awaitFrom[n]) /\ j \in 1 .. Len(awaitFrom[n])
    BY <1>1, <1>2, <1>4
  <2>2. awaitFrom[n][i] = chain[i] /\ awaitFrom[n][j] = chain[j]
    BY Zenon, <1>2, <2>1
  <2> QED
    BY Zenon, <1>3, <2>1, <2>2 DEF NotYetAnswered
<1> QED
  BY <1>2, <1>4

\* The invariant holds of every network.
THEOREM Invariance == Spec => []IInv
<1>1. IInv /\ [Next]_vars => IInv'
  BY StepKeeps
<1> QED
  BY <1>1, InitKeeps, PTL DEF Spec

\* The same of a network whose genesis host fails in InitializeSecret.
THEOREM InvarianceInitializeFails == SpecInitializeFails => []IInv
<1>1. IInv /\ [Next \/ InitializeFails]_vars => IInv'
  BY StepKeeps
<1> QED
  BY <1>1, InitKeeps, PTL DEF SpecInitializeFails

\* However many nodes ask, however often, and whatever fails or is reorganised:
\* generateAndBroadcastSecret makes one secret, and no answer that
\* ProcessNetworkSecretMsgs produces, and no enclave, has another.
THEOREM SecretIsOne == Spec => []OneSecret
BY Invariance, OneSecretFollows, PTL

\* The search of provideSecret starts before the request is sent, and so never goes
\* past the answer, for any reorg of the L1's last block.
THEOREM NeverMissed == Spec => []AnswerNotMissed
BY Invariance, NotMissedFollows, PTL

\* Both also where InitializeSecret fails and the genesis host starts anew.
THEOREM SafeWhenInitializeFails == SpecInitializeFails => [](OneSecret /\ AnswerNotMissed)
BY InvarianceInitializeFails, OneSecretFollows, NotMissedFollows, PTL
=============================================================================
