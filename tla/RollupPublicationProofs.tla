---------------------- MODULE RollupPublicationProofs ----------------------
(***************************************************************************)
(* The rollups on the L1, for every number of batches, of transactions, of *)
(* retries, of faults and of reorgs, and every depth of a reorg up to the  *)
(* RollupDelay: they leave out no batch, a node can use each of them, and  *)
(* a nonce keeps its payload.                                              *)
(***************************************************************************)
EXTENDS RollupPublication, TLAPS, FiniteSetTheorems, WellFoundedInduction
-----------------------------------------------------------------------------
(* The inductive invariant.                                                 *)

Payload == [from : Nat, to : Nat, head : Nat \X Nat]
L1Block == [fork : Nat, tx : [payload : Payload, attempt : Int, nonce : Int]]
Sending == {"send", "await"}
Made == {"publish", "send", "await"}

Types ==
  /\ chain \in Seq(L1Block) /\ chain # <<>>
  /\ reorgs \in Nat
  /\ pool \in [DOMAIN pool -> [payload : Payload, attempts : SUBSET Int]]
  /\ proofs \in Seq(Nat \ {0})
  /\ pc \in [Goroutines -> {"idle", "create", "publish", "send", "await"}]
  /\ payload \in [Goroutines -> Payload]
  /\ nonce \in [Goroutines -> Nat]
  /\ retries \in [Goroutines -> Int]

NonceAt(c, i) == c[i].tx.nonce

\* the transactions on the chain c have the nonces below m, in this order
OnChain(c, m) ==
  /\ \A k \in 0 .. m - 1 : \E i \in 1 .. Len(c) : NonceAt(c, i) = k
  /\ \A i \in 1 .. Len(c) : NonceAt(c, i) \in -1 .. m - 1
InOrder(c) ==
  \A i, j \in 1 .. Len(c) : i < j /\ NonceAt(c, j) # -1 => NonceAt(c, i) < NonceAt(c, j)
Empty(c) ==
  /\ \A i \in 1 .. Len(c) : NonceAt(c, i) = -1 <=> c[i].tx = NoTx
  /\ c[1].tx = NoTx

\* ... and those of the pool q the nonces from m to p - 1
Numbered(c, q, m, p) ==
  /\ m <= p /\ DOMAIN q = m .. p - 1
  /\ OnChain(c, m) /\ InOrder(c) /\ Empty(c)

\* the L1 has x with nonce n, on the chain c or in the pool q
Taken(c, q, n, x) ==
  \/ n \in DOMAIN q /\ x = q[n].payload
  \/ \E i \in 1 .. Len(c) : NonceAt(c, i) = n /\ x = c[i].tx.payload

\* a rollup from this batch leaves no gap after the transactions with nonces in N
Follows(c, q, N, from) ==
  from <= 1 \/ \E n \in N, x \in Payload : Taken(c, q, n, x) /\ from <= x.to + 1

\* no reorg replaces the block that x was compressed on
Settled(c, x) ==
  x # Other => x.head[1] \in 1 .. Len(c) - RollupDelay /\ c[x.head[1]].fork = x.head[2]

\* The payload of each transaction starts at most one batch above one with a
\* lower nonce.
Covered(c, q) ==
  \A n \in Nat, x \in Payload : Taken(c, q, n, x) => Follows(c, q, 0 .. n - 1, x.from)

\* What is on the chain was compressed on a lower block of the chain.
Readable(c, q) ==
  /\ \A i \in 1 .. Len(c) : Settled(c, c[i].tx.payload)
                             /\ (c[i].tx.payload # Other => c[i].tx.payload.head[1] < i)
  /\ \A n \in DOMAIN q : Settled(c, q[n].payload)

\* What a goroutine is about to publish, or publishes while it has the lock: the
\* nonce is the next one, or has this payload already.
Going(c, q, at, load, num) ==
  \A g \in Goroutines :
    /\ at[g] = "idle" => load[g] = Other
    /\ at[g] \in {"create", "publish"} => Follows(c, q, Nat, load[g].from)
    /\ at[g] \in Made => Settled(c, load[g])
    /\ at[g] \in Sending =>
         /\ Follows(c, q, 0 .. num[g] - 1, load[g].from)
         /\ \A k \in 0 .. num[g] - 1 : \E x \in Payload : Taken(c, q, k, x)
         /\ \A x \in Payload : Taken(c, q, num[g], x) => x = load[g]
    /\ \A h \in Goroutines : at[g] \in Sending /\ at[h] \in Sending => g = h

IInv ==
  /\ Types
  /\ \E m, p \in Nat : Numbered(chain, pool, m, p)
  /\ Covered(chain, pool)
  /\ Readable(chain, pool)
  /\ Going(chain, pool, pc, payload, nonce)
-----------------------------------------------------------------------------
(* Facts about the operators.                                               *)

\* A finite set has an element with the highest value of f.
LEMMA HighestExists ==
  ASSUME NEW S, IsFiniteSet(S), S # {}, NEW f \in [S -> Nat]
  PROVE  \E m \in S : \A t \in S : f[t] <= f[m]
<1> DEFINE Above(m) == {t \in S : f[t] > f[m]}
           F == {Above(m) : m \in S}
<1>1. \A m \in S : Above(m) \in FiniteSubsetsOf(S)
  BY FS_Subset DEF FiniteSubsetsOf
<1>2. F \subseteq FiniteSubsetsOf(S) /\ F # {}
  <2> HIDE DEF Above
  <2>1. PICK m \in S : TRUE
    OBVIOUS
  <2>2. Above(m) \in F
    OBVIOUS
  <2> QED
    BY <1>1, <2>2
<1>3. PICK X \in F : \A Y \in F : ~(<<Y, X>> \in StrictSubsetOrdering(S))
  <2> HIDE DEF F
  <2> QED BY <1>2, FS_StrictSubsetOrderingWellFounded, WFMin
<1>4. PICK m \in S : X = Above(m)
  BY <1>3
<1>5. ASSUME NEW t \in S, f[t] > f[m] PROVE FALSE
  <2>1. Above(t) \subseteq Above(m) /\ Above(t) # Above(m)
    BY <1>5
  <2>2. <<Above(t), X>> \in StrictSubsetOrdering(S)
    BY <2>1, <1>4 DEF StrictSubsetOrdering
  <2> QED
    BY <1>3, <2>2
<1> QED
  BY <1>5

\* Max of a bounded set of numbers is its greatest element.
LEMMA MaxFacts ==
  ASSUME NEW S, NEW b \in Nat, S \subseteq 0 .. b, S # {}
  PROVE  Max(S) \in S /\ \A n \in S : n <= Max(S)
<1> DEFINE f == [n \in S |-> n]
<1>1. IsFiniteSet(S)
  <2>1. IsFiniteSet(0 .. b)
    BY FS_Interval
  <2> QED
    BY Zenon, <2>1, FS_Subset
<1>2. f \in [S -> Nat] /\ \A n \in S : f[n] = n
  OBVIOUS
<1>3. \E c \in S : \A n \in S : f[n] <= f[c]
  <2> HIDE DEF f
  <2> QED
    BY Zenon, <1>1, <1>2, HighestExists
<1>4. \E c \in S : \A n \in S : c >= n
  BY <1>2, <1>3
<1> QED
  BY Zenon, <1>4 DEF Max

\* The blocks of the chain.
LEMMA BlockFacts ==
  ASSUME Types
  PROVE  /\ Len(chain) \in Nat \ {0}
         /\ \A i \in 1 .. Len(chain) : /\ chain[i] \in L1Block /\ chain[i].tx.payload \in Payload
                                       /\ chain[i].fork \in Nat /\ NonceAt(chain, i) \in Int
<1>1. Len(chain) \in Nat \ {0} /\ \A i \in 1 .. Len(chain) : chain[i] \in L1Block
  BY DEF Types
<1>2. ASSUME NEW b \in L1Block
      PROVE  b.tx.payload \in Payload /\ b.fork \in Nat /\ b.tx.nonce \in Int
  BY DEF L1Block
<1> QED
  BY <1>1, <1>2 DEF NonceAt

\* The next nonce on the chain, and the next one after the pool.
LEMMA NonceCount ==
  ASSUME NEW c \in Seq(L1Block), c # <<>>, NEW q,
         NEW m \in Nat, NEW p \in Nat, Numbered(c, q, m, p)
  PROVE  /\ Cardinality({i \in 1 .. Len(c) : c[i].tx # NoTx}) = m
         /\ m + Cardinality(DOMAIN q) = p
<1> DEFINE D == {i \in 1 .. Len(c) : c[i].tx # NoTx}
           f == [i \in D |-> NonceAt(c, i)]
<1>1. Len(c) \in Nat /\ \A i \in D : i \in 1 .. Len(c) /\ NonceAt(c, i) # -1
  BY DEF Numbered, Empty
<1>2. \A i \in 1 .. Len(c) : NonceAt(c, i) \in 0 .. m - 1 => i \in D
  BY DEF Numbered, Empty
<1>3. f \in [D -> 0 .. m - 1]
  BY <1>1 DEF Numbered, OnChain
<1>4. \A i, j \in D : f[i] = f[j] => i = j
  BY <1>1, <1>3 DEF Numbered, InOrder
<1>5. \A k \in 0 .. m - 1 : \E i \in D : f[i] = k
  <2>1. ASSUME NEW k \in 0 .. m - 1 PROVE \E i \in D : NonceAt(c, i) = k
    BY <1>2 DEF Numbered, OnChain
  <2> HIDE DEF D
  <2> QED
    BY Zenon, <2>1
<1>6. Cardinality(D) = m
  <2> HIDE DEF D, f
  <2>1. IsFiniteSet(0 .. m - 1) /\ Cardinality(0 .. m - 1) = m
    BY FS_Interval
  <2>2. f \in Injection(D, 0 .. m - 1)
    BY <1>3, <1>4 DEF Injection, IsInjective
  <2>3. f \in Surjection(D, 0 .. m - 1)
    BY Zenon, <1>3, <1>5 DEF Surjection
  <2> QED
    BY Zenon, <2>1, <2>2, <2>3, FS_Injection
<1>7. Cardinality(DOMAIN q) = p - m
  <2>1. DOMAIN q = m .. p - 1 /\ m <= p
    BY DEF Numbered
  <2>2. Cardinality(m .. p - 1) = IF m > p - 1 THEN 0 ELSE (p - 1) - m + 1
    BY FS_Interval
  <2> QED
    BY <2>1, <2>2
<1> QED
  BY <1>6, <1>7 DEF Numbered

\* The same for the model's Mined and PendingNonce.
LEMMA NextNonces ==
  ASSUME Types, NEW m \in Nat, NEW p \in Nat, Numbered(chain, pool, m, p)
  PROVE  Mined = m /\ PendingNonce = p
<1>1. /\ Cardinality({i \in 1 .. Len(chain) : chain[i].tx # NoTx}) = m
      /\ m + Cardinality(DOMAIN pool) = p
  BY Zenon, NonceCount DEF Types
<1> QED
  BY <1>1 DEF Mined, PendingNonce

\* The transactions the L1 has are those with the nonces below p, and each has
\* one payload.
LEMMA TakenFacts ==
  ASSUME NEW c \in Seq(L1Block), NEW q, NEW m \in Nat, NEW p \in Nat, Numbered(c, q, m, p),
         NEW n \in Nat,
         q \in [DOMAIN q -> [payload : Payload, attempts : SUBSET Int]]
  PROVE  /\ \A x : Taken(c, q, n, x) => n < p /\ x \in Payload
         /\ n < p => \E x \in Payload : Taken(c, q, n, x)
         /\ \A x, y : Taken(c, q, n, x) /\ Taken(c, q, n, y) => x = y
         /\ \A i, j \in 1 .. Len(c) : NonceAt(c, i) = n /\ NonceAt(c, j) = n => i = j
<1>a. Len(c) \in Nat /\ \A i \in 1 .. Len(c) : c[i] \in L1Block
  OBVIOUS
<1>b. \A i \in 1 .. Len(c) : c[i].tx.payload \in Payload /\ NonceAt(c, i) \in Int
  BY Zenon, <1>a DEF L1Block, NonceAt
<1>c. \A k \in DOMAIN q : q[k].payload \in Payload
  OBVIOUS
<1>1. \A x : Taken(c, q, n, x) => n < p /\ x \in Payload
  BY <1>b, <1>c DEF Taken, Numbered, OnChain
<1>2. ASSUME n < p PROVE \E x \in Payload : Taken(c, q, n, x)
  <2>1. CASE n < m
    <3>1. PICK i \in 1 .. Len(c) : NonceAt(c, i) = n
      BY <2>1 DEF Numbered, OnChain
    <3> QED
      BY <1>b, <3>1 DEF Taken
  <2>2. CASE ~(n < m)
    <3>1. n \in DOMAIN q
      BY <1>2, <2>2 DEF Numbered
    <3> QED
      BY <1>c, <3>1 DEF Taken
  <2> QED
    BY <2>1, <2>2
<1>3. \A i, j \in 1 .. Len(c) : NonceAt(c, i) = n /\ NonceAt(c, j) = n => i = j
  <2>1. ASSUME NEW i \in 1 .. Len(c), NEW j \in 1 .. Len(c),
               NonceAt(c, i) = n, NonceAt(c, j) = n, i < j
        PROVE  FALSE
    BY <2>1 DEF Numbered, InOrder
  <2> QED
    BY <1>a, <2>1
<1>4. \A x, y : Taken(c, q, n, x) /\ Taken(c, q, n, y) => x = y
  <2>1. n \in DOMAIN q => \A i \in 1 .. Len(c) : NonceAt(c, i) # n
    BY <1>b DEF Numbered, OnChain
  <2> QED
    BY <1>3, <2>1 DEF Taken
<1> QED
  BY Zenon, <1>1, <1>2, <1>3, <1>4

\* A step of the L1 that keeps what it has keeps what is said of it.
LEMMA SameTaken ==
  ASSUME NEW c, NEW q, NEW d, NEW r, Types,
         \A n \in Nat, x \in Payload : Taken(c, q, n, x) <=> Taken(d, r, n, x),
         \A x \in Payload : Settled(c, x) => Settled(d, x),
         Covered(c, q), Going(c, q, pc, payload, nonce)
  PROVE  Covered(d, r) /\ Going(d, r, pc, payload, nonce)
<1>1. ASSUME NEW N, N \subseteq Nat, NEW from
      PROVE  Follows(c, q, N, from) => Follows(d, r, N, from)
  BY <1>1 DEF Follows
<1>2. Covered(d, r)
  <2>1. ASSUME NEW n \in Nat, NEW x \in Payload, Taken(d, r, n, x)
        PROVE  Follows(d, r, 0 .. n - 1, x.from)
    <3>1. Follows(c, q, 0 .. n - 1, x.from) /\ 0 .. n - 1 \subseteq Nat
      BY <2>1 DEF Covered
    <3> QED
      BY <1>1, <3>1
  <2> QED
    BY <2>1 DEF Covered
<1>3. Going(d, r, pc, payload, nonce)
  <2> SUFFICES ASSUME NEW g \in Goroutines
      PROVE /\ pc[g] = "idle" => payload[g] = Other
            /\ pc[g] \in {"create", "publish"} => Follows(d, r, Nat, payload[g].from)
            /\ pc[g] \in Made => Settled(d, payload[g])
            /\ pc[g] \in Sending =>
                 /\ Follows(d, r, 0 .. nonce[g] - 1, payload[g].from)
                 /\ \A k \in 0 .. nonce[g] - 1 : \E x \in Payload : Taken(d, r, k, x)
                 /\ \A x \in Payload : Taken(d, r, nonce[g], x) => x = payload[g]
            /\ \A h \in Goroutines : pc[g] \in Sending /\ pc[h] \in Sending => g = h
    BY DEF Going
  <2>1. payload[g] \in Payload /\ nonce[g] \in Nat
    BY DEF Types
  <2>2. 0 .. nonce[g] - 1 \subseteq Nat
    BY <2>1
  <2>3. pc[g] \in {"create", "publish"} => Follows(d, r, Nat, payload[g].from)
    BY Zenon, <1>1 DEF Going
  <2>4. pc[g] \in Sending => Follows(d, r, 0 .. nonce[g] - 1, payload[g].from)
    BY ZenonT(30), <1>1, <2>2 DEF Going
  <2>5. pc[g] \in Sending => \A k \in 0 .. nonce[g] - 1 : \E x \in Payload : Taken(d, r, k, x)
    BY <2>2 DEF Going
  <2> QED
    BY Zenon, <2>1, <2>3, <2>4, <2>5 DEF Going
<1> QED
  BY <1>2, <1>3

\* d is the chain c with the block e added
Extended(c, d, e) ==
  /\ d \in Seq(L1Block) /\ Len(d) = Len(c) + 1 /\ Len(c) \in Nat
  /\ \A i \in 1 .. Len(c) : d[i] = c[i] /\ NonceAt(d, i) = NonceAt(c, i)
  /\ d[Len(c) + 1] = e /\ NonceAt(d, Len(c) + 1) = e.tx.nonce
  /\ \A i \in 1 .. Len(d) : i \in 1 .. Len(c) \/ i = Len(c) + 1
  /\ \A x \in Payload : Settled(c, x) => Settled(d, x)

\* A block is added to the chain.
LEMMA Grown ==
  ASSUME NEW c \in Seq(L1Block), NEW e \in L1Block
  PROVE  Extended(c, Append(c, e), e)
<1> DEFINE d == Append(c, e)
<1>1. /\ d \in Seq(L1Block) /\ Len(d) = Len(c) + 1 /\ Len(c) \in Nat
      /\ \A i \in 1 .. Len(c) : d[i] = c[i]
      /\ d[Len(c) + 1] = e
  OBVIOUS
<1>2. ASSUME NEW x \in Payload, Settled(c, x) PROVE Settled(d, x)
  <2>1. RollupDelay \in Nat
    BY PublicationAssumption
  <2>2. \A h \in 1 .. Len(c) - RollupDelay : h \in 1 .. Len(d) - RollupDelay /\ d[h] = c[h]
    BY <1>1, <2>1
  <2> QED
    BY Zenon, <1>2, <2>2 DEF Settled
<1>3. \A i \in 1 .. Len(d) : i \in 1 .. Len(c) \/ i = Len(c) + 1
  BY <1>1
<1> HIDE DEF d
<1>4. Extended(c, d, e)
  BY <1>1, <1>2, <1>3 DEF NonceAt, Extended
<1> QED
  BY <1>4 DEF d

\* A block without a transaction.
LEMMA EmptyBlock ==
  /\ Other \in Payload /\ NoTx.nonce = -1 /\ NoTx.payload = Other
  /\ \A n \in Nat : [fork |-> n, tx |-> NoTx] \in L1Block
BY DEF Other, Payload, NoTx, L1Block
-----------------------------------------------------------------------------
(* The steps of the L1.                                                     *)

\* MineTx moves the first transaction of the pool to the chain.
LEMMA MineTxKeeps ==
  ASSUME IInv, MineTx
  PROVE  /\ IInv'
         /\ \A n \in Nat, x \in Payload : Taken(chain, pool, n, x) => Taken(chain', pool', n, x)
<1>1. Types /\ Covered(chain, pool) /\ Readable(chain, pool) /\ Going(chain, pool, pc, payload, nonce)
  BY DEF IInv
<1>2. PICK m \in Nat, p \in Nat : Numbered(chain, pool, m, p)
  BY DEF IInv
<1>3. Mined = m
  BY Zenon, <1>1, <1>2, NextNonces
<1>4. PICK a \in pool[m].attempts :
        chain' = Append(chain, [fork |-> reorgs,
                                tx |-> [payload |-> pool[m].payload, attempt |-> a, nonce |-> m]])
  BY Zenon, <1>3 DEF MineTx
<1>5. m \in DOMAIN pool /\ pool' = [n \in DOMAIN pool \ {m} |-> pool[n]]
  BY <1>3 DEF MineTx
<1> DEFINE e == [fork |-> reorgs,
                 tx |-> [payload |-> pool[m].payload, attempt |-> a, nonce |-> m]]
<1>6. pool[m] \in [payload : Payload, attempts : SUBSET Int] /\ reorgs \in Nat /\ chain \in Seq(L1Block)
  BY Zenon, <1>1, <1>5 DEF Types
<1>7. e \in L1Block /\ e.tx.payload = pool[m].payload /\ e.tx.nonce = m
  BY <1>4, <1>6 DEF L1Block
<1> HIDE DEF e
<1>8. /\ chain' \in Seq(L1Block) /\ Len(chain') = Len(chain) + 1 /\ Len(chain) \in Nat
      /\ \A i \in 1 .. Len(chain) : chain'[i] = chain[i] /\ NonceAt(chain', i) = NonceAt(chain, i)
      /\ chain'[Len(chain) + 1] = e /\ NonceAt(chain', Len(chain) + 1) = m
      /\ \A i \in 1 .. Len(chain') : i \in 1 .. Len(chain) \/ i = Len(chain) + 1
      /\ \A x \in Payload : Settled(chain, x) => Settled(chain', x)
  <2>1. chain' = Append(chain, e)
    BY Zenon, <1>4 DEF e
  <2>2. Extended(chain, chain', e)
    BY <1>6, <1>7, <2>1, Grown
  <2> QED
    BY Zenon, <1>7, <2>2 DEF Extended
<1>9. DOMAIN pool = m .. p - 1 /\ DOMAIN pool' = m + 1 .. p - 1 /\ m + 1 <= p
  BY <1>2, <1>5 DEF Numbered
<1>10. Numbered(chain', pool', m + 1, p)
  <2>0. \A i \in 1 .. Len(chain) : NonceAt(chain, i) \in -1 .. m - 1 /\ i \in 1 .. Len(chain')
    BY <1>2, <1>8 DEF Numbered, OnChain
  <2>1. OnChain(chain', m + 1)
    <3>1. ASSUME NEW k \in 0 .. (m + 1) - 1
          PROVE  \E i \in 1 .. Len(chain') : NonceAt(chain', i) = k
      <4>1. CASE k = m
        BY <1>8, <4>1
      <4>2. CASE k # m
        <5>1. PICK i \in 1 .. Len(chain) : NonceAt(chain, i) = k
          BY <1>2, <4>2 DEF Numbered, OnChain
        <5> QED
          BY Zenon, <1>8, <2>0, <5>1
      <4> QED
        BY Zenon, <4>1, <4>2
    <3>2. \A i \in 1 .. Len(chain') : NonceAt(chain', i) \in -1 .. (m + 1) - 1
      BY <1>8, <2>0
    <3> QED
      BY Zenon, <3>1, <3>2 DEF OnChain
  <2>2. InOrder(chain')
    <3> SUFFICES ASSUME NEW i \in 1 .. Len(chain'), NEW j \in 1 .. Len(chain'),
                        i < j, NonceAt(chain', j) # -1
                 PROVE  NonceAt(chain', i) < NonceAt(chain', j)
      BY DEF InOrder
    <3>1. i \in 1 .. Len(chain)
      BY <1>8
    <3>2. CASE j = Len(chain) + 1
      BY <1>8, <2>0, <3>1, <3>2
    <3>3. CASE j \in 1 .. Len(chain)
      BY Zenon, <1>2, <1>8, <3>1, <3>3 DEF Numbered, InOrder
    <3> QED
      BY <1>8, <3>2, <3>3
  <2>3. Empty(chain')
    <3>1. 1 \in 1 .. Len(chain)
      BY <1>1 DEF Types
    <3>2. e.tx # NoTx
      BY <1>7, EmptyBlock
    <3>3. \A i \in 1 .. Len(chain) : NonceAt(chain, i) = -1 <=> chain[i].tx = NoTx
      BY Zenon, <1>2 DEF Numbered, Empty
    <3>4. chain'[1].tx = NoTx
      BY Zenon, <1>2, <1>8, <3>1 DEF Numbered, Empty
    <3>5. \A i \in 1 .. Len(chain') : NonceAt(chain', i) = -1 <=> chain'[i].tx = NoTx
      BY <1>8, <3>2, <3>3
    <3> QED
      BY Zenon, <3>4, <3>5 DEF Empty
  <2> QED
    BY Zenon, <1>9, <2>1, <2>2, <2>3 DEF Numbered
<1>11. \A n \in Nat, x \in Payload : Taken(chain, pool, n, x) <=> Taken(chain', pool', n, x)
  <2> SUFFICES ASSUME NEW n \in Nat, NEW x \in Payload
               PROVE  Taken(chain, pool, n, x) <=> Taken(chain', pool', n, x)
    BY Zenon
  <2>1. ASSUME Taken(chain, pool, n, x) PROVE Taken(chain', pool', n, x)
    BY <1>5, <1>7, <1>8, <2>1 DEF Taken
  <2>2. ASSUME Taken(chain', pool', n, x) PROVE Taken(chain, pool, n, x)
    BY Zenon, <1>5, <1>7, <1>8, <2>2 DEF Taken
  <2> QED
    BY Zenon, <2>1, <2>2
<1>12. Covered(chain', pool') /\ Going(chain', pool', pc, payload, nonce)
  BY Zenon, <1>1, <1>8, <1>11, SameTaken
<1>13. Readable(chain', pool')
  <2>1. Settled(chain', pool[m].payload) /\ \A n \in DOMAIN pool' : Settled(chain', pool'[n].payload)
    BY Zenon, <1>1, <1>5, <1>8 DEF Readable, Types
  <2>2. RollupDelay \in Nat
    BY Zenon, PublicationAssumption
  <2>3. pool[m].payload # Other => pool[m].payload.head[1] < Len(chain) + 1
    <3>1. Settled(chain, pool[m].payload)
      BY Zenon, <1>1, <1>5 DEF Readable
    <3>2. \A h \in 1 .. Len(chain) - RollupDelay : h < Len(chain) + 1
      BY <1>8, <2>2
    <3> QED
      BY Zenon, <3>1, <3>2 DEF Settled
  <2>4. \A i \in 1 .. Len(chain) : chain[i].tx.payload \in Payload
    BY Zenon, <1>1, BlockFacts
  <2>5. \A i \in 1 .. Len(chain) : Settled(chain', chain'[i].tx.payload)
                             /\ (chain'[i].tx.payload # Other => chain'[i].tx.payload.head[1] < i)
    BY Zenon, <1>1, <1>8, <2>4 DEF Readable
  <2> QED
    BY <1>7, <1>8, <2>1, <2>3, <2>5 DEF Readable
<1>14. Types'
  <2>1. chain' # <<>>
    BY <1>8
  <2>2. pool' \in [DOMAIN pool' -> [payload : Payload, attempts : SUBSET Int]]
    BY Zenon, <1>1, <1>5 DEF Types
  <2> QED
    BY <1>1, <1>8, <2>1, <2>2 DEF Types, MineTx, hostVars
<1>15. Going(chain, pool, pc, payload, nonce)'
  BY Zenon, <1>12 DEF Going, MineTx, hostVars
<1> QED
  BY <1>10, <1>11, <1>12, <1>13, <1>14, <1>15 DEF IInv

\* MineEmpty adds a block and no transaction.
LEMMA MineEmptyKeeps ==
  ASSUME IInv, MineEmpty
  PROVE  /\ IInv'
         /\ \A n \in Nat, x \in Payload : Taken(chain, pool, n, x) => Taken(chain', pool', n, x)
<1>1. Types /\ Covered(chain, pool) /\ Readable(chain, pool) /\ Going(chain, pool, pc, payload, nonce)
  BY DEF IInv
<1>2. PICK m \in Nat, p \in Nat : Numbered(chain, pool, m, p)
  BY DEF IInv
<1> DEFINE e == [fork |-> reorgs, tx |-> NoTx]
<1>3. chain' = Append(chain, e) /\ pool' = pool
  BY DEF MineEmpty
<1>4. e \in L1Block /\ e.tx = NoTx /\ e.tx.nonce = -1 /\ e.tx.payload = Other
  BY <1>1, EmptyBlock DEF Types
<1> HIDE DEF e
<1>5. /\ chain' \in Seq(L1Block) /\ Len(chain') = Len(chain) + 1 /\ Len(chain) \in Nat
      /\ \A i \in 1 .. Len(chain) : chain'[i] = chain[i] /\ NonceAt(chain', i) = NonceAt(chain, i)
      /\ chain'[Len(chain) + 1] = e /\ NonceAt(chain', Len(chain) + 1) = -1
      /\ \A i \in 1 .. Len(chain') : i \in 1 .. Len(chain) \/ i = Len(chain) + 1
      /\ \A x \in Payload : Settled(chain, x) => Settled(chain', x)
  <2>1. Extended(chain, chain', e)
    BY Zenon, <1>1, <1>3, <1>4, Grown DEF Types
  <2> QED
    BY <1>4, <2>1 DEF Extended
<1>6. \A i \in 1 .. Len(chain) : i \in 1 .. Len(chain')
  BY <1>5
<1>7. Numbered(chain', pool', m, p)
  <2>1. OnChain(chain', m)
    <3>1. \A k \in 0 .. m - 1 : \E i \in 1 .. Len(chain') : NonceAt(chain', i) = k
      BY Zenon, <1>2, <1>5, <1>6 DEF Numbered, OnChain
    <3>2. \A i \in 1 .. Len(chain') : NonceAt(chain', i) \in -1 .. m - 1
      BY <1>2, <1>5 DEF Numbered, OnChain
    <3> QED
      BY Zenon, <3>1, <3>2 DEF OnChain
  <2>2. InOrder(chain')
    <3> SUFFICES ASSUME NEW i \in 1 .. Len(chain'), NEW j \in 1 .. Len(chain'),
                        i < j, NonceAt(chain', j) # -1
                 PROVE  NonceAt(chain', i) < NonceAt(chain', j)
      BY DEF InOrder
    <3>1. i \in 1 .. Len(chain) /\ j \in 1 .. Len(chain)
      BY <1>5
    <3> QED
      BY Zenon, <1>2, <1>5, <3>1 DEF Numbered, InOrder
  <2>3. Empty(chain')
    <3>1. 1 \in 1 .. Len(chain)
      BY <1>1, BlockFacts
    <3>2. chain'[1].tx = NoTx
      BY Zenon, <1>2, <1>5, <3>1 DEF Numbered, Empty
    <3>3. \A i \in 1 .. Len(chain') : NonceAt(chain', i) = -1 <=> chain'[i].tx = NoTx
      BY <1>2, <1>4, <1>5 DEF Numbered, Empty
    <3> QED
      BY Zenon, <3>2, <3>3 DEF Empty
  <2> QED
    BY <1>2, <1>3, <2>1, <2>2, <2>3 DEF Numbered
<1>8. \A n \in Nat, x \in Payload : Taken(chain, pool, n, x) <=> Taken(chain', pool', n, x)
  <2> SUFFICES ASSUME NEW n \in Nat, NEW x \in Payload
               PROVE  Taken(chain, pool, n, x) <=> Taken(chain', pool', n, x)
    BY Zenon
  <2>1. ASSUME Taken(chain, pool, n, x) PROVE Taken(chain', pool', n, x)
    BY Zenon, <1>3, <1>5, <1>6, <2>1 DEF Taken
  <2>2. ASSUME Taken(chain', pool', n, x) PROVE Taken(chain, pool, n, x)
    BY <1>3, <1>5, <2>2 DEF Taken
  <2> QED
    BY Zenon, <2>1, <2>2
<1>9. Covered(chain', pool') /\ Going(chain', pool', pc, payload, nonce)
  BY Zenon, <1>1, <1>5, <1>8, SameTaken
<1>10. Readable(chain', pool')
  <2>1. \A n \in DOMAIN pool : pool[n].payload \in Payload
    BY Zenon, <1>1 DEF Types
  <2>2. \A n \in DOMAIN pool' : Settled(chain', pool'[n].payload)
    BY Zenon, <1>1, <1>3, <1>5, <2>1 DEF Readable
  <2>3. \A i \in 1 .. Len(chain) : Settled(chain', chain'[i].tx.payload)
                             /\ (chain'[i].tx.payload # Other => chain'[i].tx.payload.head[1] < i)
    BY Zenon, <1>1, <1>5, BlockFacts DEF Readable
  <2>4. Settled(chain', Other)
    BY Zenon DEF Settled
  <2> QED
    BY <1>4, <1>5, <2>2, <2>3, <2>4 DEF Readable
<1>11. Types'
  <2>1. chain' # <<>>
    BY <1>5
  <2> QED
    BY Zenon, <1>1, <1>3, <1>5, <2>1 DEF Types, MineEmpty, hostVars
<1>12. Going(chain, pool, pc, payload, nonce)'
  BY Zenon, <1>9 DEF Going, MineEmpty, hostVars
<1> QED
  BY <1>7, <1>8, <1>9, <1>10, <1>11, <1>12 DEF IInv

\* Reorg puts the transactions of the highest blocks back into the pool; what was
\* compressed is compressed on lower blocks.
LEMMA ReorgKeeps ==
  ASSUME IInv, Reorg
  PROVE  /\ IInv'
         /\ \A n \in Nat, x \in Payload : Taken(chain, pool, n, x) => Taken(chain', pool', n, x)
<1>0. /\ reorgs' = reorgs + 1
      /\ UNCHANGED <<proofs, pc, payload, nonce, retries>>
  BY Zenon DEF Reorg, hostVars
<1>1. Types /\ Covered(chain, pool) /\ Readable(chain, pool) /\ Going(chain, pool, pc, payload, nonce)
  BY DEF IInv
<1>2. PICK m \in Nat, p \in Nat : Numbered(chain, pool, m, p)
  BY DEF IInv
<1> DEFINE Dropped(n) == {i \in n + 1 .. Len(chain) : chain[i].tx # NoTx}
           Back(n, k) == chain[CHOOSE i \in Dropped(n) : chain[i].tx.nonce = k].tx
           new == [fork |-> reorgs + 1, tx |-> NoTx]
<1>3. PICK n \in 1 .. Len(chain) - 1 :
        /\ Len(chain) - n <= MaxReorgDepth
        /\ chain' = [i \in 1 .. Len(chain) |-> IF i <= n THEN chain[i] ELSE new]
        /\ pool' = [k \in DOMAIN pool \cup {chain[i].tx.nonce : i \in Dropped(n)} |->
                      IF k \in DOMAIN pool THEN pool[k]
                      ELSE [payload |-> Back(n, k).payload, attempts |-> {Back(n, k).attempt}]]
  BY ZenonT(30) DEF Reorg
<1> DEFINE D == {i \in n + 1 .. Len(chain) : NonceAt(chain, i) # -1}
           at(k) == CHOOSE i \in D : NonceAt(chain, i) = k
<1>4. Dropped(n) = D
  BY <1>1, <1>2, <1>3, BlockFacts DEF Numbered, Empty
<1>5. /\ DOMAIN pool' = DOMAIN pool \cup {NonceAt(chain, i) : i \in D}
      /\ \A k \in DOMAIN pool' :
           pool'[k] = IF k \in DOMAIN pool THEN pool[k]
                      ELSE [payload |-> chain[at(k)].tx.payload, attempts |-> {chain[at(k)].tx.attempt}]
  BY Zenon, <1>3, <1>4 DEF NonceAt
<1> HIDE DEF Dropped, Back, D, at
<1>5a. \A k \in DOMAIN pool : k \in DOMAIN pool' /\ pool'[k] = pool[k]
  BY Zenon, <1>5
<1>5b. \A k \in DOMAIN pool' \ DOMAIN pool :
         pool'[k] = [payload |-> chain[at(k)].tx.payload, attempts |-> {chain[at(k)].tx.attempt}]
  BY <1>5
<1>6. /\ new \in L1Block /\ new.tx = NoTx /\ new.tx.nonce = -1 /\ new.tx.payload = Other
      /\ reorgs \in Nat /\ chain \in Seq(L1Block) /\ Len(chain) \in Nat \ {0}
      /\ \A i \in 1 .. Len(chain) : chain[i] \in L1Block
  <2>1. /\ reorgs \in Nat /\ chain \in Seq(L1Block) /\ Len(chain) \in Nat \ {0}
        /\ \A i \in 1 .. Len(chain) : chain[i] \in L1Block
    BY Zenon, <1>1, BlockFacts DEF Types
  <2>2. reorgs + 1 \in Nat
    BY <2>1
  <2>3. new \in L1Block /\ new.tx = NoTx
    BY <2>2, EmptyBlock
  <2> QED
    BY <2>1, <2>3, EmptyBlock
<1> HIDE DEF new
<1>7. /\ chain' \in Seq(L1Block) /\ Len(chain') = Len(chain)
      /\ \A i \in 1 .. n : chain'[i] = chain[i]
      /\ \A i \in n + 1 .. Len(chain) : chain'[i] = new
      /\ \A i \in 1 .. Len(chain) : i \in 1 .. n \/ i \in n + 1 .. Len(chain)
  BY <1>3, <1>6
<1>8. /\ \A i \in 1 .. n : NonceAt(chain', i) = NonceAt(chain, i) /\ i \in 1 .. Len(chain)
      /\ \A i \in n + 1 .. Len(chain) : NonceAt(chain', i) = -1 /\ i \in 1 .. Len(chain)
  BY <1>3, <1>6, <1>7 DEF NonceAt
<1>9. \A i \in 1 .. Len(chain) : NonceAt(chain, i) \in -1 .. m - 1
  BY <1>2 DEF Numbered, OnChain
\* the highest nonce that stays
<1>10. PICK l \in 1 .. n : \A i \in 1 .. n : NonceAt(chain, i) <= NonceAt(chain, l)
  <2> DEFINE f == [i \in 1 .. n |-> NonceAt(chain, i) + 1]
  <2>1. f \in [1 .. n -> Nat] /\ \A i \in 1 .. n : f[i] = NonceAt(chain, i) + 1
    BY <1>8, <1>9
  <2>2. IsFiniteSet(1 .. n) /\ 1 .. n # {}
    <3>1. n \in Int /\ 1 \in Int /\ 1 \in 1 .. n
      BY <1>3, <1>6
    <3> QED
      BY Zenon, <3>1, FS_Interval
  <2>3. \E l \in 1 .. n : \A i \in 1 .. n : f[i] <= f[l]
    <3> HIDE DEF f
    <3> QED
      BY Zenon, <2>1, <2>2, HighestExists
  <2>4. \A i \in 1 .. n : NonceAt(chain, i) \in Int
    BY <1>8, <1>9
  <2> HIDE DEF f
  <2>5. PICK l \in 1 .. n : \A i \in 1 .. n : f[i] <= f[l]
    BY Zenon, <2>3
  <2>6. \A i \in 1 .. n : NonceAt(chain, i) + 1 <= NonceAt(chain, l) + 1
    BY Zenon, <2>1, <2>5
  <2>7. \A i \in 1 .. n : NonceAt(chain, i) <= NonceAt(chain, l)
    BY <2>4, <2>6
  <2> QED
    BY Zenon, <2>7
<1> DEFINE low == NonceAt(chain, l) + 1
<1>11. low \in Nat /\ low <= m
  BY <1>8, <1>9, <1>10
<1>12. \A i \in D : NonceAt(chain, i) \in low .. m - 1 /\ i \in 1 .. Len(chain)
  <2> SUFFICES ASSUME NEW i \in D PROVE NonceAt(chain, i) \in low .. m - 1 /\ i \in 1 .. Len(chain)
    BY Zenon
  <2>1. i \in n + 1 .. Len(chain) /\ NonceAt(chain, i) # -1 /\ i \in 1 .. Len(chain) /\ l < i
    BY <1>3, <1>6, <1>10 DEF D
  <2>2. NonceAt(chain, l) < NonceAt(chain, i)
    BY <1>2, <1>8, <1>10, <2>1 DEF Numbered, InOrder
  <2> QED
    BY <1>8, <1>9, <1>10, <2>1, <2>2
<1>13. \A k \in low .. m - 1 : \E i \in D : NonceAt(chain, i) = k
  <2> SUFFICES ASSUME NEW k \in low .. m - 1 PROVE \E i \in D : NonceAt(chain, i) = k
    OBVIOUS
  <2>1. PICK i \in 1 .. Len(chain) : NonceAt(chain, i) = k
    BY <1>2, <1>11 DEF Numbered, OnChain
  <2>2. i \notin 1 .. n
    BY <1>8, <1>9, <1>10, <2>1
  <2> QED
    BY <1>7, <1>11, <2>1, <2>2 DEF D
<1> HIDE DEF low
<1>14. Numbered(chain', pool', low, p)
  <2>1. low <= p /\ DOMAIN pool' = low .. p - 1
    <3>1. DOMAIN pool = m .. p - 1 /\ m <= p
      BY Zenon, <1>2 DEF Numbered
    <3>2. {NonceAt(chain, i) : i \in D} = low .. m - 1
      BY Zenon, <1>12, <1>13
    <3> QED
      BY <1>5, <1>11, <3>1, <3>2
  <2>2. OnChain(chain', low)
    <3>1. ASSUME NEW k \in 0 .. low - 1
          PROVE  \E i \in 1 .. Len(chain') : NonceAt(chain', i) = k
      <4>1. PICK i \in 1 .. Len(chain) : NonceAt(chain, i) = k
        BY <1>2, <1>11 DEF Numbered, OnChain
      <4>2. i \notin D
        BY <1>11, <1>12, <4>1
      <4>3. i \in 1 .. n
        BY <1>7, <4>1, <4>2 DEF D
      <4> QED
        BY <1>7, <1>8, <4>1, <4>3
    <3>2. \A i \in 1 .. Len(chain') : NonceAt(chain', i) \in -1 .. low - 1
      BY <1>7, <1>8, <1>9, <1>10, <1>11 DEF low
    <3> QED
      BY Zenon, <3>1, <3>2 DEF OnChain
  <2>3. InOrder(chain')
    <3> SUFFICES ASSUME NEW i \in 1 .. Len(chain'), NEW j \in 1 .. Len(chain'),
                        i < j, NonceAt(chain', j) # -1
                 PROVE  NonceAt(chain', i) < NonceAt(chain', j)
      BY DEF InOrder
    <3>1. j \in 1 .. n
      BY Zenon, <1>7, <1>8
    <3>2. i \in 1 .. n
      BY <1>3, <3>1
    <3> QED
      BY <1>2, <1>8, <3>1, <3>2 DEF Numbered, InOrder
  <2>4. Empty(chain')
    <3>1. 1 \in 1 .. n
      BY <1>3
    <3>2. chain'[1].tx = NoTx
      BY Zenon, <1>2, <1>7, <3>1 DEF Numbered, Empty
    <3>3. \A i \in 1 .. Len(chain') : NonceAt(chain', i) = -1 <=> chain'[i].tx = NoTx
      BY <1>2, <1>6, <1>7, <1>8 DEF Numbered, Empty
    <3> QED
      BY Zenon, <3>2, <3>3 DEF Empty
  <2> QED
    BY <2>1, <2>2, <2>3, <2>4 DEF Numbered
<1>15. \A k \in DOMAIN pool' \ DOMAIN pool : at(k) \in D /\ NonceAt(chain, at(k)) = k
  BY <1>5 DEF at
<1>16. \A k \in Nat, x \in Payload : Taken(chain, pool, k, x) <=> Taken(chain', pool', k, x)
  <2> SUFFICES ASSUME NEW k \in Nat, NEW x \in Payload
               PROVE  Taken(chain, pool, k, x) <=> Taken(chain', pool', k, x)
    BY Zenon
  <2>1. ASSUME Taken(chain, pool, k, x) PROVE Taken(chain', pool', k, x)
    <3>1. CASE k \in DOMAIN pool /\ x = pool[k].payload
      BY Zenon, <1>5a, <3>1 DEF Taken
    <3>2. CASE k \notin DOMAIN pool /\ \E i \in 1 .. n : NonceAt(chain, i) = k /\ x = chain[i].tx.payload
      BY Zenon, <1>7, <1>8, <3>2 DEF Taken
    <3>3. CASE k \notin DOMAIN pool /\ \E i \in n + 1 .. Len(chain) : NonceAt(chain, i) = k /\ x = chain[i].tx.payload
      <4>1. PICK i \in n + 1 .. Len(chain) : NonceAt(chain, i) = k /\ x = chain[i].tx.payload
        BY Zenon, <3>3
      <4>2. i \in D
        BY <4>1 DEF D
      <4>3. k \in DOMAIN pool' \ DOMAIN pool
        BY <1>5, <3>3, <4>1, <4>2
      <4>4. \A h, j \in 1 .. Len(chain) : NonceAt(chain, h) = k /\ NonceAt(chain, j) = k => h = j
        BY ZenonT(30), <1>1, <1>2, TakenFacts DEF Types
      <4>5. at(k) = i
        BY Zenon, <1>12, <1>15, <4>1, <4>2, <4>3, <4>4
      <4>6. pool'[k].payload = x
        BY <1>5b, <4>1, <4>3, <4>5
      <4> QED
        BY Zenon, <4>3, <4>6 DEF Taken
    <3>4. CASE k \in DOMAIN pool /\ x # pool[k].payload
      <4>1. Taken(chain, pool, k, pool[k].payload)
        BY Zenon, <3>4 DEF Taken
      <4> QED
        BY <1>1, <1>2, <2>1, <3>4, <4>1, TakenFacts DEF Types
    <3> QED
      BY <1>7, <2>1, <3>1, <3>2, <3>3, <3>4 DEF Taken
  <2>2. ASSUME Taken(chain', pool', k, x) PROVE Taken(chain, pool, k, x)
    <3>1. CASE k \in DOMAIN pool' /\ x = pool'[k].payload
      <4>1. CASE k \in DOMAIN pool
        BY <1>5a, <3>1, <4>1 DEF Taken
      <4>2. CASE k \notin DOMAIN pool
        <5>1. x = chain[at(k)].tx.payload /\ NonceAt(chain, at(k)) = k /\ at(k) \in 1 .. Len(chain)
          BY <1>5b, <1>12, <1>15, <3>1, <4>2
        <5> QED
          BY Zenon, <5>1 DEF Taken
      <4> QED
        BY Zenon, <4>1, <4>2
    <3>2. CASE \E i \in 1 .. Len(chain') : NonceAt(chain', i) = k /\ x = chain'[i].tx.payload
      <4>1. PICK i \in 1 .. Len(chain) : NonceAt(chain', i) = k /\ x = chain'[i].tx.payload
        BY Zenon, <1>7, <3>2
      <4>2. i \in 1 .. n
        BY <1>7, <1>8, <4>1
      <4> QED
        BY <1>7, <1>8, <4>1, <4>2 DEF Taken
    <3> QED
      BY <2>2, <3>1, <3>2 DEF Taken
  <2> QED
    BY Zenon, <2>1, <2>2
<1>17. \A x \in Payload : Settled(chain, x) => Settled(chain', x)
  <2>1. RollupDelay \in Nat /\ MaxReorgDepth \in Nat /\ MaxReorgDepth <= RollupDelay
    BY Zenon, PublicationAssumption
  <2>2. \A h \in 1 .. Len(chain) - RollupDelay : h \in 1 .. n
    BY <1>3, <1>6, <2>1
  <2> QED
    BY <1>7, <2>2 DEF Settled
<1>18. Covered(chain', pool') /\ Going(chain', pool', pc, payload, nonce)
  BY Zenon, <1>1, <1>16, <1>17, SameTaken
<1>19. pool' \in [DOMAIN pool' -> [payload : Payload, attempts : SUBSET Int]]
  <2>1. ASSUME NEW k \in DOMAIN pool' PROVE pool'[k] \in [payload : Payload, attempts : SUBSET Int]
    <3>1. CASE k \in DOMAIN pool
      BY Zenon, <1>1, <1>5a, <3>1 DEF Types
    <3>2. CASE k \notin DOMAIN pool
      <4>1. chain[at(k)] \in L1Block
        BY <1>6, <1>12, <1>15, <3>2
      <4>2. chain[at(k)].tx.payload \in Payload /\ chain[at(k)].tx.attempt \in Int
        BY Zenon, <4>1 DEF L1Block
      <4> QED
        BY <1>5b, <3>2, <4>2
    <3> QED
      BY Zenon, <3>1, <3>2
  <2>2. pool' = [k \in DOMAIN pool' |-> pool'[k]]
    BY Zenon, <1>3
  <2> QED
    BY Zenon, <2>1, <2>2
<1>20. Readable(chain', pool')
  <2>1. \A i \in 1 .. Len(chain) : /\ chain[i].tx.payload \in Payload /\ Settled(chain, chain[i].tx.payload)
                                   /\ (chain[i].tx.payload # Other => chain[i].tx.payload.head[1] < i)
    BY <1>1, BlockFacts DEF Readable
  <2>2. \A i \in 1 .. n : /\ Settled(chain', chain'[i].tx.payload)
                          /\ (chain'[i].tx.payload # Other => chain'[i].tx.payload.head[1] < i)
    BY <1>7, <1>8, <1>17, <2>1
  <2>3. \A i \in n + 1 .. Len(chain) : chain'[i].tx.payload = Other
    BY Zenon, <1>6, <1>7
  <2>4. \A k \in DOMAIN pool' : Settled(chain', pool'[k].payload)
    <3> SUFFICES ASSUME NEW k \in DOMAIN pool' PROVE Settled(chain', pool'[k].payload)
      BY Zenon
    <3>1. CASE k \in DOMAIN pool
      BY Zenon, <1>1, <1>5a, <1>17, <3>1 DEF Types, Readable
    <3>2. CASE k \notin DOMAIN pool
      <4>1. at(k) \in 1 .. Len(chain) /\ pool'[k].payload = chain[at(k)].tx.payload
        BY <1>5b, <1>12, <1>15, <3>2
      <4> QED
        BY <1>17, <2>1, <4>1
    <3> QED
      BY Zenon, <3>1, <3>2
  <2>5. Settled(chain', Other)
    BY Zenon DEF Settled
  <2> QED
    BY <1>7, <2>2, <2>3, <2>4, <2>5 DEF Readable
<1>21. Types'
  <2>1. chain' # <<>>
    BY Zenon, <1>6, <1>7
  <2>2. reorgs' \in Nat
    BY <1>0, <1>6
  <2> QED
    BY <1>0, <1>1, <1>7, <1>19, <2>1, <2>2 DEF Types
<1>22. Going(chain, pool, pc, payload, nonce)'
  BY Zenon, <1>0, <1>18 DEF Going
<1>23. low \in Nat /\ p \in Nat
  BY Zenon, <1>11
<1> QED
  BY <1>14, <1>16, <1>18, <1>20, <1>21, <1>22, <1>23 DEF IInv
-----------------------------------------------------------------------------
(* The steps of the host.                                                   *)

\* A goroutine gives up, or is done.
LEMMA ReturnGoing ==
  ASSUME Types, NEW c, NEW q, NEW g \in Goroutines, Going(c, q, pc, payload, nonce), Return(g)
  PROVE  /\ Going(c, q, pc', payload', nonce')
         /\ pc' \in [Goroutines -> {"idle", "create", "publish", "send", "await"}]
         /\ payload' \in [Goroutines -> Payload]
         /\ nonce' \in [Goroutines -> Nat] /\ retries' \in [Goroutines -> Int]
<1>1. \A h \in Goroutines : /\ pc'[h] = IF h = g THEN "idle" ELSE pc[h]
                            /\ payload'[h] = IF h = g THEN Other ELSE payload[h]
                            /\ nonce'[h] = IF h = g THEN 0 ELSE nonce[h]
  BY Zenon DEF Types, Return
<1>2. ASSUME NEW h \in Goroutines, h # g
      PROVE  pc'[h] = pc[h] /\ payload'[h] = payload[h] /\ nonce'[h] = nonce[h]
  BY Zenon, <1>1, <1>2
<1>3. pc'[g] = "idle" /\ payload'[g] = Other
  BY Zenon, <1>1
<1>4. Going(c, q, pc', payload', nonce')
  <2> SUFFICES ASSUME NEW h \in Goroutines
      PROVE /\ pc'[h] = "idle" => payload'[h] = Other
            /\ pc'[h] \in {"create", "publish"} => Follows(c, q, Nat, payload'[h].from)
            /\ pc'[h] \in Made => Settled(c, payload'[h])
            /\ pc'[h] \in Sending =>
                 /\ Follows(c, q, 0 .. nonce'[h] - 1, payload'[h].from)
                 /\ \A k \in 0 .. nonce'[h] - 1 : \E x \in Payload : Taken(c, q, k, x)
                 /\ \A x \in Payload : Taken(c, q, nonce'[h], x) => x = payload'[h]
            /\ \A k \in Goroutines : pc'[h] \in Sending /\ pc'[k] \in Sending => h = k
    BY Zenon DEF Going
  <2>1. CASE h = g
    BY Zenon, <1>3, <2>1 DEF Made, Sending
  <2>2. CASE h # g
    <3>1. \A k \in Goroutines : pc'[k] \in Sending => pc[k] \in Sending
      BY Zenon, <1>2, <1>3 DEF Sending
    <3> QED
      BY Zenon, <1>2, <2>2, <3>1 DEF Going
  <2> QED
    BY Zenon, <2>1, <2>2
<1> QED
  BY <1>4, EmptyBlock DEF Types, Return

\* The host's step leaves the L1 alone and keeps what is said of the goroutines.
LEMMA HostStep ==
  ASSUME IInv, chain' = chain, reorgs' = reorgs, pool' = pool, proofs' = proofs,
         pc' \in [Goroutines -> {"idle", "create", "publish", "send", "await"}],
         payload' \in [Goroutines -> Payload],
         nonce' \in [Goroutines -> Nat], retries' \in [Goroutines -> Int],
         Going(chain, pool, pc', payload', nonce')
  PROVE  IInv'
BY Zenon DEF IInv, Types

\* A goroutine goes on alone: the others, and its clauses, decide.
LEMMA OneGoes ==
  ASSUME Types, NEW c, NEW q, NEW g \in Goroutines, Going(c, q, pc, payload, nonce),
         NEW at, NEW load, NEW num,
         \A h \in Goroutines \ {g} : at[h] = pc[h] /\ load[h] = payload[h] /\ num[h] = nonce[h],
         at[g] # "idle",
         at[g] \in {"create", "publish"} => Follows(c, q, Nat, load[g].from),
         at[g] \in Made => Settled(c, load[g]),
         at[g] \in Sending =>
           /\ Follows(c, q, 0 .. num[g] - 1, load[g].from)
           /\ \A k \in 0 .. num[g] - 1 : \E x \in Payload : Taken(c, q, k, x)
           /\ \A x \in Payload : Taken(c, q, num[g], x) => x = load[g]
           /\ \A h \in Goroutines \ {g} : pc[h] \notin Sending
  PROVE  Going(c, q, at, load, num)
<1> SUFFICES ASSUME NEW h \in Goroutines
    PROVE /\ at[h] = "idle" => load[h] = Other
          /\ at[h] \in {"create", "publish"} => Follows(c, q, Nat, load[h].from)
          /\ at[h] \in Made => Settled(c, load[h])
          /\ at[h] \in Sending =>
               /\ Follows(c, q, 0 .. num[h] - 1, load[h].from)
               /\ \A k \in 0 .. num[h] - 1 : \E x \in Payload : Taken(c, q, k, x)
               /\ \A x \in Payload : Taken(c, q, num[h], x) => x = load[h]
          /\ \A k \in Goroutines : at[h] \in Sending /\ at[k] \in Sending => h = k
  BY Zenon DEF Going
<1>1. \A i, k \in Goroutines : at[i] \in Sending /\ at[k] \in Sending => i = k
  BY Zenon DEF Going
<1>2. CASE h = g
  BY Zenon, <1>1, <1>2
<1>3. CASE h # g
  BY Zenon, <1>1, <1>3 DEF Going
<1> QED
  BY Zenon, <1>2, <1>3

\* The numbers of the last batches are bounded.
LEMMA ToBound ==
  ASSUME Types
  PROVE  \E b \in Nat : \A i \in 1 .. Len(chain) : chain[i].tx.payload.to \in 0 .. b
<1> DEFINE f == [i \in 1 .. Len(chain) |-> chain[i].tx.payload.to]
<1>1. Len(chain) \in Nat \ {0} /\ \A i \in 1 .. Len(chain) : chain[i].tx.payload.to \in Nat
  BY Zenon, BlockFacts DEF Payload
<1>2. f \in [1 .. Len(chain) -> Nat] /\ \A i \in 1 .. Len(chain) : f[i] = chain[i].tx.payload.to
  BY <1>1
<1>3. IsFiniteSet(1 .. Len(chain)) /\ 1 .. Len(chain) # {}
  <2>1. Len(chain) \in Int /\ 1 \in Int /\ 1 \in 1 .. Len(chain)
    BY <1>1
  <2> QED
    BY Zenon, <2>1, FS_Interval
<1> HIDE DEF f
<1>4. PICK l \in 1 .. Len(chain) : \A i \in 1 .. Len(chain) : f[i] <= f[l]
  BY Zenon, <1>2, <1>3, HighestExists
<1>5. f[l] \in Nat /\ \A i \in 1 .. Len(chain) : chain[i].tx.payload.to \in 0 .. f[l]
  BY <1>1, <1>2, <1>4
<1> QED
  BY Zenon, <1>5

\* The next rollup starts at most one above the last batch on the L1.
LEMMA FromBatchFollows ==
  ASSUME IInv
  PROVE  FromBatch \in Nat /\ Follows(chain, pool, Nat, FromBatch)
<1> DEFINE S == {chain[i].tx.payload.to : i \in 1 .. Len(chain)}
<1>1. Types
  BY Zenon DEF IInv
<1>2. PICK m \in Nat, p \in Nat : Numbered(chain, pool, m, p)
  BY Zenon DEF IInv
<1>3. PICK b \in Nat : \A i \in 1 .. Len(chain) : chain[i].tx.payload.to \in 0 .. b
  BY Zenon, <1>1, ToBound
<1>4. Len(chain) \in Nat \ {0} /\ 1 \in 1 .. Len(chain)
  BY <1>1, BlockFacts
<1>5. S \subseteq 0 .. b /\ S # {}
  BY Zenon, <1>3, <1>4
<1>6. Max(S) \in S
  <2> HIDE DEF S
  <2> QED
    BY Zenon, <1>5, MaxFacts
<1>7. PICK l \in 1 .. Len(chain) : LastBatchSeqNo = chain[l].tx.payload.to
  BY Zenon, <1>6 DEF LastBatchSeqNo
<1>8. LastBatchSeqNo \in Nat
  BY <1>3, <1>7
<1>9. FromBatch \in Nat /\ (FromBatch > 1 => FromBatch = LastBatchSeqNo + 1 /\ LastBatchSeqNo > 0)
  BY <1>8 DEF FromBatch, L2GenesisSeqNo
<1>10. ASSUME FromBatch > 1 PROVE Follows(chain, pool, Nat, FromBatch)
  <2>1. chain[l].tx # NoTx
    BY <1>7, <1>9, <1>10, EmptyBlock DEF Other
  <2>2. NonceAt(chain, l) \in Nat
    <3>1. NonceAt(chain, l) # -1 /\ NonceAt(chain, l) \in -1 .. m - 1
      BY Zenon, <1>2, <1>7, <2>1 DEF Numbered, Empty, OnChain
    <3> QED
      BY <3>1
  <2>3. chain[l].tx.payload \in Payload /\ Taken(chain, pool, NonceAt(chain, l), chain[l].tx.payload)
    BY Zenon, <1>1, <1>7, BlockFacts DEF Taken
  <2>4. FromBatch <= chain[l].tx.payload.to + 1
    BY <1>7, <1>8, <1>9, <1>10
  <2> QED
    BY Zenon, <2>2, <2>3, <2>4 DEF Follows
<1>11. CASE ~(FromBatch > 1)
  BY <1>9, <1>11 DEF Follows
<1> QED
  BY Zenon, <1>9, <1>10, <1>11

\* periodicRollupProduction reads where the next rollup starts.
LEMMA GetLatestBatchNoKeeps ==
  ASSUME IInv, GetLatestBatchNo
  PROVE  IInv'
<1>1. Types /\ Going(chain, pool, pc, payload, nonce) /\ "rollups" \in Goroutines
  BY DEF IInv, Goroutines
<1>2. payload["rollups"] \in Payload
  BY <1>1 DEF Types
<1> DEFINE new == [payload["rollups"] EXCEPT !.from = FromBatch]
<1>3. new \in Payload /\ new.from = FromBatch
  BY Zenon, <1>2, FromBatchFollows DEF Payload
<1>4. payload' = [payload EXCEPT !["rollups"] = new] /\ pc' = [pc EXCEPT !["rollups"] = "create"]
  BY Zenon DEF GetLatestBatchNo
<1> HIDE DEF new
<1>5. /\ payload' \in [Goroutines -> Payload] /\ payload'["rollups"] = new
      /\ pc' \in [Goroutines -> {"idle", "create", "publish", "send", "await"}] /\ pc'["rollups"] = "create"
      /\ \A h \in Goroutines \ {"rollups"} : pc'[h] = pc[h] /\ payload'[h] = payload[h]
  BY Zenon, <1>1, <1>3, <1>4 DEF Types
<1>6. Going(chain, pool, pc', payload', nonce)
  <2>1. Follows(chain, pool, Nat, payload'["rollups"].from)
    BY Zenon, <1>3, <1>5, FromBatchFollows
  <2>2. pc'["rollups"] # "idle" /\ pc'["rollups"] \notin Made /\ pc'["rollups"] \notin Sending
    BY Zenon, <1>5 DEF Made, Sending
  <2> QED
    BY <1>1, <1>5, <2>1, <2>2, OneGoes
<1> QED
  BY <1>1, <1>5, <1>6, HostStep DEF GetLatestBatchNo, l1Vars, Types

\* CreateRollup is made on a block that no reorg replaces.
LEMMA CreateRollupKeeps ==
  ASSUME IInv, CreateRollup
  PROVE  IInv'
<1> DEFINE from == payload["rollups"].from
           to == LastBatch(from)
<1>1. Types /\ Going(chain, pool, pc, payload, nonce) /\ "rollups" \in Goroutines
  BY DEF IInv, Goroutines
<1>2. payload["rollups"] \in Payload /\ from \in Nat
  BY Zenon, <1>1 DEF Types, Payload
<1>3. UNCHANGED <<chain, reorgs, pool, proofs>> /\ pc["rollups"] = "create"
  BY Zenon DEF CreateRollup, l1Vars
<1>4. CASE to = 0
  <2>1. Return("rollups")
    BY Zenon, <1>4 DEF CreateRollup
  <2> QED
    BY Zenon, <1>1, <1>3, <2>1, ReturnGoing, HostStep
<1>5. CASE to # 0
  <2> DEFINE new == [payload["rollups"] EXCEPT !.to = to,
                       !.head = <<UpToL1Height, chain[UpToL1Height].fork>>]
  <2>1. to \in 1 .. Len(proofs) /\ proofs[to] <= UpToL1Height
    <3> DEFINE S == {0} \cup {n \in from .. Len(proofs) :
                               proofs[n] <= UpToL1Height /\ n < from + MaxRollupBatches}
    <3>1. Len(proofs) \in Nat /\ S \subseteq 0 .. Len(proofs) /\ S # {}
      BY <1>1, <1>2 DEF Types
    <3>2. Max(S) \in S
      <4> HIDE DEF S
      <4> QED
        BY Zenon, <3>1, MaxFacts
    <3> QED
      BY <1>2, <1>5, <3>1, <3>2 DEF LastBatch
  <2>2. Len(chain) \in Nat /\ RollupDelay \in Nat /\ proofs[to] \in Nat \ {0}
    <3>1. proofs \in Seq(Nat \ {0})
      BY Zenon, <1>1 DEF Types
    <3>2. proofs[to] \in Nat \ {0}
      <4> HIDE DEF to
      <4> QED
        BY <2>1, <3>1
    <3> QED
      BY Zenon, <1>1, <3>2, BlockFacts, PublicationAssumption
  <2>3. UpToL1Height \in 1 .. Len(chain) - RollupDelay /\ UpToL1Height \in 1 .. Len(chain)
    BY <2>1, <2>2 DEF UpToL1Height
  <2>4. chain[UpToL1Height].fork \in Nat
    BY Zenon, <1>1, <2>3, BlockFacts
  <2>5. new \in Payload /\ new.from = from /\ new.head = <<UpToL1Height, chain[UpToL1Height].fork>>
    <3>1. to \in Nat /\ <<UpToL1Height, chain[UpToL1Height].fork>> \in Nat \X Nat
      <4> HIDE DEF to
      <4> QED
        BY <2>1, <2>3, <2>4
    <3> HIDE DEF to
    <3> QED
      BY Zenon, <1>2, <3>1 DEF Payload
  <2>6. /\ payload' = [payload EXCEPT !["rollups"] = new]
        /\ pc' = [pc EXCEPT !["rollups"] = "publish"] /\ UNCHANGED <<nonce, retries>>
    BY Zenon, <1>5 DEF CreateRollup
  <2> HIDE DEF new, to
  <2>7. /\ payload' \in [Goroutines -> Payload] /\ payload'["rollups"] = new
        /\ pc' \in [Goroutines -> {"idle", "create", "publish", "send", "await"}] /\ pc'["rollups"] = "publish"
        /\ \A h \in Goroutines \ {"rollups"} : pc'[h] = pc[h] /\ payload'[h] = payload[h]
    BY Zenon, <1>1, <2>5, <2>6 DEF Types
  <2>8. Settled(chain, new)
    BY <2>3, <2>5 DEF Settled
  <2>9. Follows(chain, pool, Nat, new.from)
    BY Zenon, <1>1, <1>3, <2>5 DEF Going
  <2>10. pc'["rollups"] # "idle" /\ pc'["rollups"] \notin Sending
    BY Zenon, <2>7 DEF Sending
  <2>11. Going(chain, pool, pc', payload', nonce)
    BY Zenon, <1>1, <2>7, <2>8, <2>9, <2>10, OneGoes
  <2> QED
    BY <1>1, <1>3, <2>6, <2>7, <2>11, HostStep DEF Types
<1> QED
  BY Zenon, <1>4, <1>5

\* A secret response starts no rollup.
LEMMA PublishOtherKeeps ==
  ASSUME IInv, PublishOther
  PROVE  IInv'
<1>1. Types /\ Going(chain, pool, pc, payload, nonce) /\ "others" \in Goroutines
  BY Zenon DEF IInv, Goroutines
<1>2. pc["others"] = "idle" /\ pc' = [pc EXCEPT !["others"] = "publish"]
      /\ UNCHANGED <<chain, reorgs, pool, proofs, payload, nonce, retries>>
  BY Zenon DEF PublishOther, l1Vars
<1>3. /\ pc' \in [Goroutines -> {"idle", "create", "publish", "send", "await"}] /\ pc'["others"] = "publish"
      /\ \A h \in Goroutines \ {"others"} : pc'[h] = pc[h]
  BY Zenon, <1>1, <1>2 DEF Types
<1>4. payload["others"] = Other
  BY Zenon, <1>1, <1>2 DEF Going
<1>5. Follows(chain, pool, Nat, payload["others"].from) /\ Settled(chain, payload["others"])
  BY <1>4 DEF Follows, Settled, Other
<1>6. pc'["others"] # "idle" /\ pc'["others"] \notin Sending
  BY Zenon, <1>3 DEF Sending
<1>7. Going(chain, pool, pc', payload, nonce)
  BY Zenon, <1>1, <1>3, <1>5, <1>6, OneGoes
<1> QED
  BY Zenon, <1>1, <1>2, <1>3, <1>7, HostStep DEF Types

\* With the lock a goroutine reads the nonce after all that the L1 has.
LEMMA GetNonceKeeps ==
  ASSUME IInv, NEW g \in Goroutines, GetNonce(g)
  PROVE  IInv'
<1>1. Types /\ Going(chain, pool, pc, payload, nonce)
  BY Zenon DEF IInv
<1>2. PICK m \in Nat, p \in Nat : Numbered(chain, pool, m, p)
  BY Zenon DEF IInv
<1>3. PendingNonce = p
  BY Zenon, <1>1, <1>2, NextNonces
<1>4. /\ pc[g] = "publish" /\ pc' = [pc EXCEPT ![g] = "send"]
      /\ nonce' = [nonce EXCEPT ![g] = p] /\ retries' = [retries EXCEPT ![g] = 0]
      /\ UNCHANGED <<chain, reorgs, pool, proofs, payload>>
      /\ \A h \in Goroutines : pc[h] \notin Sending
  BY Zenon, <1>3 DEF GetNonce, SendingLockFree, Sending, l1Vars
<1>5. /\ pc' \in [Goroutines -> {"idle", "create", "publish", "send", "await"}] /\ pc'[g] = "send"
      /\ nonce' \in [Goroutines -> Nat] /\ nonce'[g] = p /\ retries' \in [Goroutines -> Int]
      /\ \A h \in Goroutines \ {g} : pc'[h] = pc[h] /\ nonce'[h] = nonce[h]
      /\ payload[g] \in Payload
  BY <1>1, <1>4 DEF Types
<1>6. /\ \A n \in Nat : \A x : Taken(chain, pool, n, x) => n < p
      /\ \A n \in Nat : n < p => \E x \in Payload : Taken(chain, pool, n, x)
  BY ZenonT(30), <1>1, <1>2, TakenFacts DEF Types
<1>7. Follows(chain, pool, 0 .. p - 1, payload[g].from)
  <2>1. Follows(chain, pool, Nat, payload[g].from)
    BY <1>1, <1>4 DEF Going
  <2> QED
    BY <1>6, <2>1 DEF Follows
<1>8. /\ \A k \in 0 .. p - 1 : \E x \in Payload : Taken(chain, pool, k, x)
      /\ \A x \in Payload : ~Taken(chain, pool, p, x)
  BY <1>6
<1>9. Settled(chain, payload[g])
  BY Zenon, <1>1, <1>4 DEF Going, Made
<1>10. pc'[g] # "idle" /\ pc'[g] \notin {"create", "publish"}
  BY <1>5
<1>11. Going(chain, pool, pc', payload, nonce')
  BY Zenon, <1>1, <1>4, <1>5, <1>7, <1>8, <1>9, <1>10, OneGoes
<1> QED
  BY <1>1, <1>4, <1>5, <1>11, HostStep DEF Types

\* The L1 node takes an attempt: with a nonce that is new, or has this payload.
LEMMA AttemptTaken ==
  ASSUME IInv, NEW g \in Goroutines, pc[g] = "send", Accepted(g), pool' = PoolWithAttempt(g)
  PROVE  /\ pool' \in [DOMAIN pool' -> [payload : Payload, attempts : SUBSET Int]]
         /\ \E m, p \in Nat : Numbered(chain, pool', m, p)
         /\ Covered(chain, pool') /\ Readable(chain, pool')
         /\ Going(chain, pool', pc, payload, nonce)
         /\ \A n \in Nat, x \in Payload : Taken(chain, pool, n, x) => Taken(chain, pool', n, x)
<1>1. Types /\ Covered(chain, pool) /\ Readable(chain, pool) /\ Going(chain, pool, pc, payload, nonce)
  BY Zenon DEF IInv
<1>2. PICK m \in Nat, p \in Nat : Numbered(chain, pool, m, p)
  BY Zenon DEF IInv
<1>3. Mined = m /\ PendingNonce = p
  BY Zenon, <1>1, <1>2, NextNonces
<1> DEFINE n == nonce[g]
           before == IF n \in DOMAIN pool THEN pool[n].attempts ELSE {}
<1>4. /\ n \in Nat /\ payload[g] \in Payload /\ retries[g] \in Int
      /\ \A k \in DOMAIN pool : pool[k] \in [payload : Payload, attempts : SUBSET Int]
  BY Zenon, <1>1 DEF Types
<1>5. before \in SUBSET Int
  BY Zenon, <1>4
<1>6. /\ DOMAIN pool' = DOMAIN pool \cup {n}
      /\ pool' = [k \in DOMAIN pool' |-> pool'[k]]
      /\ pool'[n] = [payload |-> payload[g], attempts |-> before \cup {retries[g]}]
      /\ \A k \in DOMAIN pool : k # n => pool'[k] = pool[k]
  BY Zenon DEF PoolWithAttempt
<1> HIDE DEF before
<1>7. pool'[n].payload = payload[g] /\ pool'[n].attempts \in SUBSET Int
  BY <1>4, <1>5, <1>6
<1>8. pool' \in [DOMAIN pool' -> [payload : Payload, attempts : SUBSET Int]]
  <2>1. pool'[n] \in [payload : Payload, attempts : SUBSET Int]
    BY <1>4, <1>5, <1>6
  <2> QED
    BY Zenon, <1>4, <1>6, <2>1
<1>9. /\ Follows(chain, pool, 0 .. n - 1, payload[g].from)
      /\ \A k \in 0 .. n - 1 : \E x \in Payload : Taken(chain, pool, k, x)
      /\ \A x \in Payload : Taken(chain, pool, n, x) => x = payload[g]
      /\ Settled(chain, payload[g])
      /\ \A h \in Goroutines : pc[h] \in Sending => h = g
  BY Zenon, <1>1 DEF Going, Sending, Made
<1> HIDE DEF n
<1>10. n \in m .. p
  <2>1. n >= m
    BY <1>3 DEF Accepted, n
  <2>2. n <= p
    <3>1. ~(p \in 0 .. n - 1)
      BY <1>1, <1>2, <1>9, TakenFacts DEF Types
    <3> QED
      BY <1>4, <3>1
  <2> QED
    BY <1>4, <2>1, <2>2
<1>11. \E l \in Nat : Numbered(chain, pool', m, l)
  <2>1. DOMAIN pool = m .. p - 1 /\ m <= p /\ OnChain(chain, m) /\ InOrder(chain) /\ Empty(chain)
    BY Zenon, <1>2 DEF Numbered
  <2>2. CASE n = p
    <3>1. m <= p + 1 /\ DOMAIN pool' = m .. (p + 1) - 1 /\ p + 1 \in Nat
      BY <1>6, <2>1, <2>2
    <3> QED
      BY Zenon, <2>1, <3>1 DEF Numbered
  <2>3. CASE n # p
    <3>1. DOMAIN pool' = m .. p - 1
      BY <1>6, <1>10, <2>1, <2>3
    <3> QED
      BY Zenon, <2>1, <3>1 DEF Numbered
  <2> QED
    BY Zenon, <2>2, <2>3
\* what was taken is taken still, and only n may be new
<1>12. ASSUME NEW k \in Nat, NEW x \in Payload, Taken(chain, pool, k, x)
       PROVE  Taken(chain, pool', k, x)
  <2>1. CASE k = n
    <3>1. x = payload[g]
      BY Zenon, <1>9, <1>12, <2>1
    <3> QED
      BY <1>6, <1>7, <2>1, <3>1 DEF Taken
  <2>2. CASE k # n
    BY Zenon, <1>6, <1>12, <2>2 DEF Taken
  <2> QED
    BY Zenon, <2>1, <2>2
<1>13. ASSUME NEW k \in Nat, NEW x \in Payload, Taken(chain, pool', k, x)
       PROVE  Taken(chain, pool, k, x) \/ (k = n /\ x = payload[g])
  <2>1. CASE k = n
    <3>1. CASE x = pool'[n].payload
      BY Zenon, <1>7, <2>1, <3>1
    <3>2. CASE x # pool'[n].payload
      BY Zenon, <1>13, <2>1, <3>2 DEF Taken
    <3> QED
      BY Zenon, <3>1, <3>2
  <2>2. CASE k # n
    BY Zenon, <1>6, <1>13, <2>2 DEF Taken
  <2> QED
    BY Zenon, <2>1, <2>2
<1>14. ASSUME NEW N, N \subseteq Nat, NEW from, Follows(chain, pool, N, from)
       PROVE  Follows(chain, pool', N, from)
  BY Zenon, <1>12, <1>14 DEF Follows
<1>15. Covered(chain, pool')
  <2> SUFFICES ASSUME NEW k \in Nat, NEW x \in Payload, Taken(chain, pool', k, x)
               PROVE  Follows(chain, pool', 0 .. k - 1, x.from)
    BY Zenon DEF Covered
  <2>1. Follows(chain, pool, 0 .. k - 1, x.from)
    BY Zenon, <1>1, <1>9, <1>13 DEF Covered
  <2>2. 0 .. k - 1 \subseteq Nat
    OBVIOUS
  <2> QED
    BY Zenon, <1>14, <2>1, <2>2
<1>16. Readable(chain, pool')
  <2>1. \A k \in DOMAIN pool' : Settled(chain, pool'[k].payload)
    BY <1>1, <1>6, <1>7, <1>9 DEF Readable
  <2> QED
    BY ZenonT(30), <1>1, <2>1 DEF Readable
<1>17. Going(chain, pool', pc, payload, nonce)
  <2> SUFFICES ASSUME NEW h \in Goroutines
      PROVE /\ pc[h] = "idle" => payload[h] = Other
            /\ pc[h] \in {"create", "publish"} => Follows(chain, pool', Nat, payload[h].from)
            /\ pc[h] \in Made => Settled(chain, payload[h])
            /\ pc[h] \in Sending =>
                 /\ Follows(chain, pool', 0 .. nonce[h] - 1, payload[h].from)
                 /\ \A k \in 0 .. nonce[h] - 1 : \E x \in Payload : Taken(chain, pool', k, x)
                 /\ \A x \in Payload : Taken(chain, pool', nonce[h], x) => x = payload[h]
            /\ \A k \in Goroutines : pc[h] \in Sending /\ pc[k] \in Sending => h = k
    BY Zenon DEF Going
  <2>1. pc[h] \in {"create", "publish"} => Follows(chain, pool', Nat, payload[h].from)
    BY Zenon, <1>1, <1>14 DEF Going
  <2>2. ASSUME pc[h] \in Sending
        PROVE  /\ Follows(chain, pool', 0 .. nonce[h] - 1, payload[h].from)
               /\ \A k \in 0 .. nonce[h] - 1 : \E x \in Payload : Taken(chain, pool', k, x)
               /\ \A x \in Payload : Taken(chain, pool', nonce[h], x) => x = payload[h]
    <3>1. h = g /\ nonce[h] = n /\ 0 .. n - 1 \subseteq Nat
      BY <1>4, <1>9, <2>2 DEF n
    <3>2. Follows(chain, pool', 0 .. n - 1, payload[g].from)
      BY Zenon, <1>9, <1>14, <3>1
    <3>3. \A k \in 0 .. n - 1 : \E x \in Payload : Taken(chain, pool', k, x)
      BY Zenon, <1>9, <1>12, <3>1
    <3>4. \A x \in Payload : Taken(chain, pool', n, x) => x = payload[g]
      BY Zenon, <1>4, <1>9, <1>13
    <3> QED
      BY ZenonT(30), <3>1, <3>2, <3>3, <3>4
  <2> QED
    BY Zenon, <1>1, <2>1, <2>2 DEF Going
<1> QED
  BY Zenon, <1>8, <1>11, <1>12, <1>15, <1>16, <1>17

\* publishTransaction after the nonce: an attempt, its receipt or another one.
LEMMA PublishKeeps ==
  ASSUME IInv, NEW g \in Goroutines, Publish(g)
  PROVE  /\ IInv'
         /\ \A n \in Nat, x \in Payload : Taken(chain, pool, n, x) => Taken(chain', pool', n, x)
<1>1. Types /\ Going(chain, pool, pc, payload, nonce)
  BY DEF IInv
<1>2. CASE GetNonce(g)
  BY Zenon, <1>2, GetNonceKeeps DEF GetNonce, l1Vars
<1>3. CASE Send(g)
  <2>1. pc[g] = "send" /\ UNCHANGED <<chain, reorgs, proofs>>
    BY Zenon, <1>3 DEF Send
  <2>2. CASE Accepted(g)
    <3>1. /\ pool' = PoolWithAttempt(g) /\ pc' = [pc EXCEPT ![g] = "await"]
          /\ UNCHANGED <<payload, nonce, retries>>
      BY Zenon, <1>3, <2>2 DEF Send
    <3>2. /\ pool' \in [DOMAIN pool' -> [payload : Payload, attempts : SUBSET Int]]
          /\ \E m, p \in Nat : Numbered(chain, pool', m, p)
          /\ Covered(chain, pool') /\ Readable(chain, pool')
          /\ Going(chain, pool', pc, payload, nonce)
          /\ \A n \in Nat, x \in Payload : Taken(chain, pool, n, x) => Taken(chain, pool', n, x)
      BY Zenon, <2>1, <2>2, <3>1, AttemptTaken
    <3>3. /\ pc' \in [Goroutines -> {"idle", "create", "publish", "send", "await"}] /\ pc'[g] = "await"
          /\ \A h \in Goroutines \ {g} : pc'[h] = pc[h]
      BY Zenon, <1>1, <3>1 DEF Types
    <3>4. pc'[g] # "idle" /\ pc'[g] \notin {"create", "publish"} /\ pc[g] \in Sending /\ pc[g] \in Made
      BY Zenon, <2>1, <3>3 DEF Sending, Made
    <3>5. Going(chain, pool', pc', payload, nonce)
      BY ZenonT(30), <1>1, <3>2, <3>3, <3>4, OneGoes DEF Going
    <3>6. Types'
      BY Zenon, <1>1, <2>1, <3>1, <3>2, <3>3 DEF Types
    <3> QED
      BY Zenon, <2>1, <3>1, <3>2, <3>5, <3>6 DEF IInv
  <2>3. CASE ~Accepted(g)
    <3>1. Return(g) /\ pool' = pool
      BY Zenon, <1>3, <2>3 DEF Send
    <3> QED
      BY Zenon, <1>1, <2>1, <3>1, ReturnGoing, HostStep
  <2> QED
    BY Zenon, <2>2, <2>3
<1>4. CASE Receipt(g)
  <2>1. Return(g) /\ UNCHANGED <<chain, reorgs, pool, proofs>>
    BY Zenon, <1>4 DEF Receipt, l1Vars
  <2> QED
    BY Zenon, <1>1, <2>1, ReturnGoing, HostStep
<1>5. CASE Retry(g)
  <2>1. /\ pc[g] = "await" /\ pc' = [pc EXCEPT ![g] = "send"]
        /\ retries' = [retries EXCEPT ![g] = @ + 1]
        /\ UNCHANGED <<chain, reorgs, pool, proofs, payload, nonce>>
    BY Zenon, <1>5 DEF Retry, l1Vars
  <2>2. /\ pc' \in [Goroutines -> {"idle", "create", "publish", "send", "await"}] /\ pc'[g] = "send"
        /\ \A h \in Goroutines \ {g} : pc'[h] = pc[h]
        /\ retries' \in [Goroutines -> Int]
    BY <1>1, <2>1 DEF Types
  <2>3. pc'[g] # "idle" /\ pc'[g] \notin {"create", "publish"} /\ pc[g] \in Sending /\ pc[g] \in Made
    BY Zenon, <2>1, <2>2 DEF Sending, Made
  <2>4. Going(chain, pool, pc', payload, nonce)
    BY Zenon, <1>1, <2>2, <2>3, OneGoes DEF Going
  <2> QED
    BY Zenon, <1>1, <2>1, <2>2, <2>4, HostStep DEF Types
<1> QED
  BY Zenon, <1>2, <1>3, <1>4, <1>5 DEF Publish

\* Errors and restarts: what was sent stays with the L1.
LEMMA FaultKeeps ==
  ASSUME IInv, Restart \/ \E g \in Goroutines : CallFails(g) \/ SendUnanswered(g)
  PROVE  /\ IInv'
         /\ \A n \in Nat, x \in Payload : Taken(chain, pool, n, x) => Taken(chain', pool', n, x)
<1>1. Types /\ Going(chain, pool, pc, payload, nonce)
  BY Zenon DEF IInv
<1>2. CASE Restart
  <2>1. /\ UNCHANGED <<chain, reorgs, pool, proofs>>
        /\ pc' = [g \in Goroutines |-> "idle"] /\ payload' = [g \in Goroutines |-> Other]
        /\ nonce' = [g \in Goroutines |-> 0] /\ retries' = [g \in Goroutines |-> 0]
    BY Zenon, <1>2 DEF Restart, l1Vars
  <2>2. \A g \in Goroutines : pc'[g] = "idle" /\ payload'[g] = Other
    BY Zenon, <2>1
  <2>3. Going(chain, pool, pc', payload', nonce')
    BY Zenon, <2>2 DEF Going, Made, Sending
  <2> QED
    BY <2>1, <2>3, HostStep, EmptyBlock
<1>3. ASSUME NEW g \in Goroutines, CallFails(g)
      PROVE  /\ IInv'
             /\ \A n \in Nat, x \in Payload : Taken(chain, pool, n, x) => Taken(chain', pool', n, x)
  <2>1. Return(g) /\ UNCHANGED <<chain, reorgs, pool, proofs>>
    BY Zenon, <1>3 DEF CallFails, l1Vars
  <2> QED
    BY Zenon, <1>1, <2>1, ReturnGoing, HostStep
<1>4. ASSUME NEW g \in Goroutines, SendUnanswered(g)
      PROVE  /\ IInv'
             /\ \A n \in Nat, x \in Payload : Taken(chain, pool, n, x) => Taken(chain', pool', n, x)
  <2>1. /\ pc[g] = "send" /\ Accepted(g) /\ pool' = PoolWithAttempt(g) /\ Return(g)
        /\ UNCHANGED <<chain, reorgs, proofs>>
    BY Zenon, <1>4 DEF SendUnanswered
  <2>2. /\ pool' \in [DOMAIN pool' -> [payload : Payload, attempts : SUBSET Int]]
        /\ \E m, p \in Nat : Numbered(chain, pool', m, p)
        /\ Covered(chain, pool') /\ Readable(chain, pool')
        /\ Going(chain, pool', pc, payload, nonce)
        /\ \A n \in Nat, x \in Payload : Taken(chain, pool, n, x) => Taken(chain, pool', n, x)
    BY Zenon, <2>1, AttemptTaken
  <2>3. /\ Going(chain, pool', pc', payload', nonce')
        /\ pc' \in [Goroutines -> {"idle", "create", "publish", "send", "await"}]
        /\ payload' \in [Goroutines -> Payload]
        /\ nonce' \in [Goroutines -> Nat] /\ retries' \in [Goroutines -> Int]
    BY Zenon, <1>1, <2>1, <2>2, ReturnGoing
  <2>4. Types'
    BY Zenon, <1>1, <2>1, <2>2, <2>3 DEF Types
  <2> QED
    BY Zenon, <2>1, <2>2, <2>3, <2>4 DEF IInv
<1> QED
  BY Zenon, <1>2, <1>3, <1>4

\* A batch on the L1's head.
LEMMA CreateBatchKeeps ==
  ASSUME IInv, CreateBatch
  PROVE  IInv'
<1>1. Types /\ UNCHANGED <<chain, reorgs, pool, pc, payload, nonce, retries>>
  BY Zenon DEF IInv, CreateBatch, l1Vars, hostVars
<1>2. proofs' = Append(proofs, Len(chain)) /\ Len(chain) \in Nat \ {0} /\ proofs \in Seq(Nat \ {0})
  BY Zenon, <1>1, BlockFacts DEF CreateBatch, Types
<1>3. proofs' \in Seq(Nat \ {0})
  BY <1>2
<1>4. Types'
  BY Zenon, <1>1, <1>3 DEF Types
<1> QED
  BY Zenon, <1>1, <1>4 DEF IInv

\* The L1 and the host at the start.
LEMMA InitIInv == Init => IInv
<1> SUFFICES ASSUME Init PROVE IInv
  BY Zenon
<1> DEFINE b == [fork |-> 0, tx |-> NoTx]
<1>1. chain = <<b>> /\ b \in L1Block /\ b.tx = NoTx
  BY Zenon, EmptyBlock DEF Init
<1> HIDE DEF b
<1>2. chain \in Seq(L1Block) /\ chain # <<>> /\ Len(chain) = 1 /\ chain[1] = b /\ NonceAt(chain, 1) = -1
  BY <1>1, EmptyBlock DEF NonceAt
<1>3. pool = <<>> /\ DOMAIN pool = {}
  BY DEF Init
<1>4. \A g \in Goroutines : pc[g] = "idle" /\ payload[g] = Other
  BY Zenon DEF Init
<1>5. Types
  <2>1. pool \in [DOMAIN pool -> [payload : Payload, attempts : SUBSET Int]]
    BY <1>3
  <2>2. proofs = <<1, 1>> /\ 1 \in Nat \ {0}
    BY DEF Init
  <2>3. proofs \in Seq(Nat \ {0})
    BY <2>2
  <2> QED
    BY <1>2, <2>1, <2>3, EmptyBlock DEF Types, Init
<1>6. Numbered(chain, pool, 0, 0)
  BY <1>1, <1>2, <1>3 DEF Numbered, OnChain, InOrder, Empty
<1>7. \A n \in Nat : \A x : ~Taken(chain, pool, n, x)
  BY <1>2, <1>3 DEF Taken
<1>8. Covered(chain, pool)
  BY ZenonT(30), <1>7 DEF Covered
<1>9. Readable(chain, pool)
  BY <1>1, <1>2, <1>3, EmptyBlock DEF Readable, Settled
<1>10. Going(chain, pool, pc, payload, nonce)
  BY Zenon, <1>4 DEF Going, Made, Sending
<1> QED
  BY Zenon, <1>5, <1>6, <1>8, <1>9, <1>10 DEF IInv

\* Every step keeps the invariant, and what the L1 has.
LEMMA NextIInv ==
  ASSUME IInv, [Next]_vars
  PROVE  /\ IInv'
         /\ \A n \in Nat, x \in Payload : Taken(chain, pool, n, x) => Taken(chain', pool', n, x)
<1>1. CASE GetLatestBatchNo
  BY Zenon, <1>1, GetLatestBatchNoKeeps DEF GetLatestBatchNo, l1Vars
<1>2. CASE CreateRollup
  <2>1. UNCHANGED <<chain, pool>>
    BY Zenon, <1>2 DEF CreateRollup, l1Vars
  <2> QED
    BY Zenon, <1>2, <2>1, CreateRollupKeeps
<1>3. CASE PublishOther
  BY Zenon, <1>3, PublishOtherKeeps DEF PublishOther, l1Vars
<1>4. CASE \E g \in Goroutines : Publish(g)
  BY Zenon, <1>4, PublishKeeps
<1>5. CASE Restart \/ \E g \in Goroutines : CallFails(g) \/ SendUnanswered(g)
  BY Zenon, <1>5, FaultKeeps
<1>6. CASE MineTx
  BY Zenon, <1>6, MineTxKeeps
<1>7. CASE MineEmpty
  BY Zenon, <1>7, MineEmptyKeeps
<1>8. CASE Reorg
  BY <1>8, ReorgKeeps
<1>9. CASE CreateBatch
  BY Zenon, <1>9, CreateBatchKeeps DEF CreateBatch, l1Vars
<1>10. CASE UNCHANGED vars
  <2>1. UNCHANGED <<chain, reorgs, pool, proofs, pc, payload, nonce, retries>>
    BY Zenon, <1>10 DEF vars, l1Vars, hostVars
  <2> QED
    BY Zenon, <2>1 DEF IInv, Types
<1> QED
  BY <1>1, <1>2, <1>3, <1>4, <1>5, <1>6, <1>7, <1>8, <1>9, <1>10 DEF Next

\* The invariant holds throughout.
LEMMA Inductive == Spec => []IInv
<1>1. IInv /\ [Next]_vars => IInv'
  BY Zenon, NextIInv
<1> QED
  BY InitIInv, <1>1, PTL DEF Spec
-----------------------------------------------------------------------------
(* The theorems.                                                            *)

\* A payload on the chain starts at most one above those in lower blocks.
LEMMA IInvNoGaps == IInv => NoGaps
<1> SUFFICES ASSUME IInv, NEW i \in 1 .. Len(chain)
             PROVE  chain[i].tx.payload.from <=
                      1 + Max({0} \cup {chain[j].tx.payload.to : j \in 1 .. i - 1})
  BY Zenon DEF NoGaps
<1> DEFINE S == {0} \cup {chain[j].tx.payload.to : j \in 1 .. i - 1}
           y == chain[i].tx.payload
<1>1. Types /\ Covered(chain, pool)
  BY Zenon DEF IInv
<1>2. PICK m \in Nat, p \in Nat : Numbered(chain, pool, m, p)
  BY DEF IInv
<1>3. PICK b \in Nat : \A j \in 1 .. Len(chain) : chain[j].tx.payload.to \in 0 .. b
  BY Zenon, <1>1, ToBound
<1>4. \A j \in 1 .. i - 1 : j \in 1 .. Len(chain)
  BY <1>1, BlockFacts
<1>5. S \subseteq 0 .. b /\ S # {} /\ 0 \in S
  BY <1>3, <1>4
<1>6. Max(S) \in S /\ \A n \in S : n <= Max(S)
  <2> HIDE DEF S
  <2> QED
    BY Zenon, <1>5, MaxFacts
<1>7. Max(S) \in Nat
  <2>1. \A n \in 0 .. b : n \in Nat
    OBVIOUS
  <2> HIDE DEF S
  <2> QED
    BY Zenon, <1>5, <1>6, <2>1
<1>8. y \in Payload /\ y.from \in Nat
  BY Zenon, <1>1, BlockFacts DEF Payload
<1>9. CASE chain[i].tx = NoTx
  <2>1. y.from = 0
    BY <1>9, EmptyBlock DEF Other
  <2> HIDE DEF S, y
  <2>2. y.from <= 1 + Max(S)
    BY <1>7, <2>1
  <2> QED
    BY Zenon, <2>2 DEF S, y
<1>10. CASE chain[i].tx # NoTx
  <2> DEFINE n == NonceAt(chain, i)
  <2>1. n \in Nat /\ n < m
    <3>1. n # -1 /\ n \in -1 .. m - 1
      BY Zenon, <1>2, <1>10 DEF Numbered, Empty, OnChain
    <3> QED
      BY <3>1
  <2>2. Follows(chain, pool, 0 .. n - 1, y.from)
    <3>1. Taken(chain, pool, n, y)
      BY Zenon DEF Taken
    <3> HIDE DEF n, y
    <3> QED
      BY Zenon, <1>1, <1>8, <2>1, <3>1 DEF Covered
  <2>3. ASSUME NEW k \in 0 .. n - 1, NEW x \in Payload, Taken(chain, pool, k, x)
        PROVE  x.to \in S
    <3>1. k \notin DOMAIN pool
      BY <1>2, <2>1, <2>3 DEF Numbered
    <3>2. PICK j \in 1 .. Len(chain) : NonceAt(chain, j) = k /\ x = chain[j].tx.payload
      BY Zenon, <2>3, <3>1 DEF Taken
    <3>3. k < n /\ k # -1 /\ k \in Nat
      BY <2>1, <2>3
    <3>4. ~(i < j)
      BY <1>2, <2>1, <3>2, <3>3 DEF Numbered, InOrder
    <3>5. i # j
      BY <2>1, <3>2, <3>3
    <3>6. j \in 1 .. i - 1
      BY <1>1, <3>2, <3>4, <3>5, BlockFacts
    <3> QED
      BY Zenon, <3>2, <3>6
  <2> HIDE DEF S, y, n
  <2>4. \A x \in Payload : x.to \in Nat
    BY Zenon DEF Payload
  <2>5. y.from <= 1 + Max(S)
    <3>1. CASE y.from <= 1
      BY <1>7, <1>8, <3>1
    <3>2. CASE \E k \in 0 .. n - 1, x \in Payload : Taken(chain, pool, k, x) /\ y.from <= x.to + 1
      <4>1. PICK k \in 0 .. n - 1, x \in Payload : Taken(chain, pool, k, x) /\ y.from <= x.to + 1
        BY Zenon, <3>2
      <4>2. x.to \in Nat /\ x.to <= Max(S)
        BY Zenon, <1>6, <2>3, <2>4, <4>1
      <4> QED
        BY <1>7, <1>8, <4>1, <4>2
    <3> QED
      BY Zenon, <2>2, <3>1, <3>2 DEF Follows
  <2> QED
    BY <2>5 DEF S, y
<1> QED
  BY Zenon, <1>9, <1>10

\* Submitted(n), of any chain and pool
SubmittedIn(c, q, n) ==
  IF n \in DOMAIN q
    THEN q[n].payload
    ELSE c[CHOOSE i \in 1 .. Len(c) : c[i].tx.nonce = n].tx.payload

\* It is what the L1 has with the nonce.
LEMMA SubmittedTaken ==
  ASSUME NEW c \in Seq(L1Block), NEW q, NEW m \in Nat, NEW p \in Nat, Numbered(c, q, m, p),
         q \in [DOMAIN q -> [payload : Payload, attempts : SUBSET Int]],
         NEW n \in 0 .. p - 1
  PROVE  Taken(c, q, n, SubmittedIn(c, q, n)) /\ SubmittedIn(c, q, n) \in Payload
<1> DEFINE x == SubmittedIn(c, q, n)
<1>1. Taken(c, q, n, x)
  <2>1. CASE n \in DOMAIN q
    BY <2>1 DEF Taken, SubmittedIn
  <2>2. CASE n \notin DOMAIN q
    <3>1. n \in 0 .. m - 1
      BY <2>2 DEF Numbered
    <3>2. \E i \in 1 .. Len(c) : NonceAt(c, i) = n
      BY Zenon, <3>1 DEF Numbered, OnChain
    <3>3. PICK l : l = CHOOSE i \in 1 .. Len(c) : NonceAt(c, i) = n
      BY Zenon
    <3>4. l \in 1 .. Len(c) /\ NonceAt(c, l) = n
      BY Zenon, <3>2, <3>3
    <3>5. x = c[l].tx.payload
      BY Zenon, <2>2, <3>3 DEF NonceAt, SubmittedIn
    <3> QED
      BY Zenon, <3>4, <3>5 DEF Taken
  <2> QED
    BY Zenon, <2>1, <2>2
<1>2. n \in Nat
  OBVIOUS
<1> QED
  BY Zenon, <1>1, <1>2, TakenFacts

\* The rollups on the L1 leave out no batch, however many attempts are given up
\* and mined all the same, dropped by a reorg or sent again after a restart.
THEOREM RollupsWithoutGaps == Spec => []NoGaps
BY Inductive, IInvNoGaps, PTL

\* Every rollup on the L1 was compressed on a block of the chain it is on: reorgs
\* no deeper than the RollupDelay do not make one unusable.
THEOREM RollupsReadable == Spec => []AllReadable
<1>1. IInv => AllReadable
  <2> SUFFICES ASSUME IInv, NEW i \in 1 .. Len(chain), chain[i].tx.payload # Other
               PROVE  /\ chain[i].tx.payload.head[1] < i
                      /\ chain[chain[i].tx.payload.head[1]].fork = chain[i].tx.payload.head[2]
    BY Zenon DEF AllReadable
  <2> QED
    BY Zenon DEF IInv, Readable, Settled
<1> QED
  BY Inductive, <1>1, PTL

\* A nonce keeps its payload: the lock of publishTransaction, held from reading
\* the nonce to the receipt, and the nonce being the next one after all that
\* waits, are enough, with any number of retries and reorgs.
THEOREM NoncesKept == Spec => NoNonceConflict
<1>1. ASSUME IInv, [Next]_vars
      PROVE  /\ PendingNonce' >= PendingNonce
             /\ \A n \in 0 .. PendingNonce - 1 : Submitted(n)' = Submitted(n)
  <2>1. IInv' /\ \A n \in Nat, x \in Payload : Taken(chain, pool, n, x) => Taken(chain', pool', n, x)
    BY Zenon, <1>1, NextIInv
  <2>2. Types /\ Types'
    BY Zenon, <1>1, <2>1 DEF IInv
  <2>3. PICK m \in Nat, p \in Nat : Numbered(chain, pool, m, p)
    BY Zenon, <1>1 DEF IInv
  <2>4. PICK k \in Nat, l \in Nat : Numbered(chain', pool', k, l)
    BY Zenon, <2>1 DEF IInv
  <2>5. PendingNonce = p
    BY Zenon, <2>2, <2>3, NextNonces
  <2>6. PendingNonce' = l
    <3>1. /\ Cardinality({i \in 1 .. Len(chain') : chain'[i].tx # NoTx}) = k
          /\ k + Cardinality(DOMAIN pool') = l
      BY Zenon, <2>2, <2>4, NonceCount DEF Types
    <3> QED
      BY Zenon, <3>1 DEF Mined, PendingNonce
  <2>7. \A n \in Nat : \A x : Taken(chain', pool', n, x) => n < l
    BY Zenon, <2>2, <2>4, TakenFacts DEF Types
  <2>8. l >= p
    <3>1. \A n \in Nat : n < p => \E x \in Payload : Taken(chain, pool, n, x)
      BY Zenon, <2>2, <2>3, TakenFacts DEF Types
    <3>2. ~(l < p)
      BY <2>1, <2>7, <3>1
    <3> QED
      BY <3>2
  <2>9. ASSUME NEW n \in 0 .. p - 1
        PROVE  Submitted(n)' = Submitted(n)
    <3>0. Submitted(n) = SubmittedIn(chain, pool, n) /\ Submitted(n)' = SubmittedIn(chain', pool', n)
      BY DEF Submitted, SubmittedIn
    <3>1. Taken(chain, pool, n, Submitted(n)) /\ Submitted(n) \in Payload
      <4>1. /\ Taken(chain, pool, n, SubmittedIn(chain, pool, n))
            /\ SubmittedIn(chain, pool, n) \in Payload
        BY Zenon, <2>2, <2>3, SubmittedTaken DEF Types
      <4> QED
        BY Zenon, <3>0, <4>1
    <3>2. n \in 0 .. l - 1 /\ n \in Nat
      BY <2>8
    <3>3. Taken(chain', pool', n, Submitted(n)')
      <4>1. Taken(chain', pool', n, SubmittedIn(chain', pool', n))
        BY Zenon, <2>2, <2>4, <3>2, SubmittedTaken DEF Types
      <4> QED
        BY Zenon, <3>0, <4>1
    <3>4. Taken(chain', pool', n, Submitted(n))
      BY Zenon, <2>1, <3>1, <3>2
    <3> QED
      BY Zenon, <2>2, <2>4, <3>2, <3>3, <3>4, TakenFacts DEF Types
  <2> QED
    BY Zenon, <2>5, <2>6, <2>8, <2>9
<1> QED
  BY Inductive, <1>1, PTL DEF Spec, NoNonceConflict
=============================================================================
