------------------------- MODULE BatchCatchUpProofs -------------------------
(***************************************************************************)
(* Whatever the network loses, delays or delivers twice, and in whatever   *)
(* order Go starts the handlers: the enclave's batches have no gap and the *)
(* host never takes the enclave to be further than it is.  For any number  *)
(* of batches, restarts and batches in an answer.                          *)
(***************************************************************************)
EXTENDS BatchCatchUp, TLAPS, WellFoundedInduction

Stage == {"none", "spawned", "received", "status", "report", "fetch", "submit", "processed"}

\* Messages and running handlers have batches the sequencer has produced.
InTransit ==
  /\ \A m \in network :
       /\ m.type = "request" => m.first \in SeqNo
       /\ m.type = "batches" => m.first \in 1 .. produced /\ m.last \in m.first .. produced
  /\ \A r \in adding : r[1] \in 1 .. produced /\ r[2] \in r[1] .. produced
  /\ latestBatchSeqNo <= produced
  /\ \A n \in SeqNo : at[n] # "none" => n <= produced
  /\ at[Main] = "submit" => batch \in 1 .. produced

\* What the host believes of the enclave, or is about to.
Believed ==
  /\ enclaveStatusCode = "Running"
  /\ enclaveL2Head \in enclaveBatches \cup {NoBatch}
  /\ reported \in enclaveBatches \cup {NoBatch}
  /\ updates \subseteq enclaveBatches
  /\ \A g \in Goroutine : at[g] = "processed" => BatchOf(g) \in enclaveBatches

IInv ==
  /\ TypeOK
  /\ at \in [Goroutine -> Stage]
  /\ InTransit
  /\ Believed
-----------------------------------------------------------------------------
\* The goroutines are those of the handlers and one more.
LEMMA Goroutines ==
  /\ Main \notin SeqNo /\ Main \in Goroutine /\ SeqNo \subseteq Goroutine
  /\ MaxSeqNo \in Nat /\ SeqNo \subseteq Nat
<1>1. MaxSeqNo \in Nat /\ Main \notin 0 .. MaxSeqNo
  BY CatchUpAssumption
<1> QED
  BY <1>1 DEF SeqNo, Goroutine

\* The numbers and sets of the host and the enclave.
LEMMA TypeFacts ==
  ASSUME TypeOK
  PROVE  /\ produced \in Nat /\ produced <= MaxSeqNo
         /\ enclaveL2Head \in Nat /\ latestBatchSeqNo \in Nat /\ latestBatchSeqNo <= MaxSeqNo
         /\ storage \subseteq 1 .. produced /\ enclaveBatches \subseteq 1 .. produced /\ updates \subseteq 1 .. produced
         /\ 1 .. produced \subseteq SeqNo
<1>1. MaxSeqNo \in Nat
  BY Goroutines
<1>2. produced \in 0 .. MaxSeqNo /\ enclaveL2Head \in 0 .. MaxSeqNo /\ latestBatchSeqNo \in 0 .. MaxSeqNo
  BY DEF TypeOK
<1> QED
  BY <1>1, <1>2 DEF TypeOK, SeqNo

\* What the tracker is told while the enclave runs.
LEMMA TrackerTold ==
  ASSUME NEW l1, NEW l2, Told("Running", l1, l2)
  PROVE  /\ status' \in Status /\ enclaveStatusCode' = "Running"
         /\ enclaveL2Head' = l2 /\ hostL2Head' = hostL2Head
<1>1. CalculateStatus("Running", l1, l2, hostL1Head, hostL2Head) \in Status
  BY DEF CalculateStatus, Status
<1> QED
  BY <1>1 DEF Told

\* A non-empty set of numbers has a least one.
LEMMA LeastNumber ==
  ASSUME NEW S \in SUBSET Nat, S # {}
  PROVE  \E m \in S : \A t \in S : m <= t
<1>1. PICK m \in S : \A t \in S : ~(<<t, m>> \in OpToRel(<, Nat))
  BY Zenon, NatLessThanWellFounded, WFMin
<1>2. \A t \in S : <<t, m>> \in Nat \X Nat /\ ~(t < m)
  <2>1. \A t \in S : t < m => <<t, m>> \in {ss \in Nat \X Nat : ss[1] < ss[2]}
    OBVIOUS
  <2> QED
    BY Zenon, <1>1, <2>1 DEF OpToRel
<1>3. \A t \in S : m <= t
  <2> TAKE t \in S
  <2>1. t \in Nat /\ m \in Nat /\ ~(t < m)
    BY Zenon, <1>2
  <2> QED
    BY <2>1
<1> QED
  BY Zenon, <1>3

\* FetchCurrentSequencerNo of the enclave: its highest batch, 0 without one.
LEMMA HighestStored ==
  ASSUME TypeOK
  PROVE  /\ CurrentSequencerNo \in enclaveBatches \cup {NoBatch} /\ CurrentSequencerNo \in Nat
         /\ \A m \in enclaveBatches : m <= CurrentSequencerNo
<1> DEFINE S == enclaveBatches \cup {NoBatch}
           Bounds == {n \in Nat : \A m \in S : m <= n}
<1>1. S \subseteq 0 .. produced /\ produced \in Nat /\ NoBatch \in S
  BY TypeFacts DEF NoBatch
<1>2. produced \in Bounds
  BY <1>1
<1>3. PICK c \in Bounds : \A n \in Bounds : c <= n
  <2>1. Bounds \in SUBSET Nat /\ Bounds # {}
    BY Zenon, <1>2
  <2> HIDE DEF Bounds
  <2> QED
    BY Zenon, <2>1, LeastNumber
<1>4. c \in S
  <2> SUFFICES ASSUME c \notin S PROVE FALSE
    OBVIOUS
  <2>1. c \in Nat /\ \A m \in S : m \in Nat /\ m <= c /\ m # c
    BY <1>1, <1>3
  <2>2. \A m \in S : m <= c - 1
    BY <2>1
  <2>3. c - 1 \in Nat
    BY <1>1, <2>1, <2>2
  <2> QED
    BY <1>3, <2>1, <2>2, <2>3
<1>5. \E k \in S : \A m \in enclaveBatches : m <= k
  BY Zenon, <1>3, <1>4
<1>6. CurrentSequencerNo \in S /\ \A m \in enclaveBatches : m <= CurrentSequencerNo
  BY Zenon, <1>5 DEF CurrentSequencerNo
<1> QED
  BY <1>1, <1>6
-----------------------------------------------------------------------------
(* Every step keeps the invariant.                                           *)

\* The host and the enclave start with the invariant.
LEMMA InitKeeps == Init => IInv
<1> SUFFICES ASSUME Init PROVE IInv
  OBVIOUS
<1>1. MaxSeqNo \in Nat /\ MaxRestarts \in Nat /\ Main \notin SeqNo /\ Main \in Goroutine /\ SeqNo \subseteq Goroutine
  BY Goroutines, CatchUpAssumption
<1>2. at \in [Goroutine -> Stage] /\ at[Main] = "status" /\ \A n \in SeqNo : at[n] = "none"
  BY <1>1 DEF Init, Stage
<1>3. TypeOK
  BY <1>1, <1>2 DEF Init, TypeOK, Status, NoBatch
<1>4. InTransit
  BY <1>2 DEF Init, InTransit, NoBatch
<1>5. Believed
  BY <1>1, <1>2 DEF Init, Believed, Goroutine
<1> QED
  BY <1>2, <1>3, <1>4, <1>5 DEF IInv

\* The sequencer produces a batch.
LEMMA ProduceKeeps ==
  ASSUME IInv, ProduceBatch
  PROVE  IInv'
<1>0. TypeOK /\ at \in [Goroutine -> Stage] /\ InTransit /\ Believed
  BY DEF IInv
<1>1. produced < MaxSeqNo /\ produced' = produced + 1 /\ network' = network \cup {Live(produced + 1)}
  BY DEF ProduceBatch
<1>2. UNCHANGED <<trackerVars, repoVars, requestVars, adding, submitVars, enclaveBatches, updates, restarts>>
  BY DEF ProduceBatch
<1>3. produced \in Nat /\ MaxSeqNo \in Nat /\ produced + 1 \in 0 .. MaxSeqNo /\ 1 .. produced \subseteq 1 .. produced + 1
  BY <1>0, <1>1, TypeFacts, Goroutines
<1>4. TypeOK'
  BY <1>0, <1>1, <1>2, <1>3 DEF TypeOK, trackerVars, repoVars, requestVars, submitVars
<1>5. InTransit'
  <2>1. \A m \in network' : /\ m.type = "request" => m.first \in SeqNo
                            /\ m.type = "batches" => m.first \in 1 .. produced' /\ m.last \in m.first .. produced'
    <3>1. ASSUME NEW m \in network
          PROVE  /\ m.type = "request" => m.first \in SeqNo
                 /\ m.type = "batches" => m.first \in 1 .. produced' /\ m.last \in m.first .. produced'
      BY <1>0, <1>1, <1>3 DEF InTransit
    <3>2. /\ Live(produced + 1).type = "batches"
          /\ Live(produced + 1).first = produced + 1 /\ Live(produced + 1).last = produced + 1
      BY DEF Live
    <3> QED
      BY <1>1, <1>3, <3>1, <3>2
  <2>2. \A r \in adding : r[1] \in 1 .. produced' /\ r[2] \in r[1] .. produced'
    BY <1>0, <1>1, <1>3 DEF InTransit
  <2>3. latestBatchSeqNo \in Nat
    BY <1>0, TypeFacts
  <2>4. latestBatchSeqNo <= produced'
    BY <1>0, <1>1, <1>3, <2>3 DEF InTransit
  <2>5. \A n \in SeqNo : at[n] # "none" => n <= produced'
    BY <1>0, <1>1, <1>3, Goroutines DEF InTransit
  <2>6. at[Main] = "submit" => batch \in 1 .. produced'
    BY Zenon, <1>0, <1>1, <1>3 DEF InTransit
  <2> QED
    BY <1>2, <2>1, <2>2, <2>4, <2>5, <2>6 DEF InTransit, repoVars, submitVars
<1>6. Believed' /\ (at \in [Goroutine -> Stage])'
  BY <1>0, <1>2 DEF Believed, BatchOf, trackerVars, submitVars
<1> QED
  BY <1>4, <1>5, <1>6 DEF IInv

\* A message is lost.
LEMMA LoseKeeps ==
  ASSUME IInv, Lose
  PROVE  IInv'
<1>1. UNCHANGED <<trackerVars, produced, repoVars, requestVars, adding, submitVars, enclaveBatches, updates, restarts>>
  BY DEF Lose
<1>2. network' \subseteq network
  BY DEF Lose
<1>3. TypeOK' /\ (at \in [Goroutine -> Stage])' /\ Believed'
  BY <1>1 DEF IInv, TypeOK, Believed, BatchOf, trackerVars, repoVars, requestVars, submitVars
<1>4. InTransit'
  BY <1>1, <1>2 DEF IInv, InTransit, repoVars, submitVars
<1> QED
  BY <1>3, <1>4 DEF IInv

\* The sequencer answers a request with batches it has.
LEMMA RequestKeeps ==
  ASSUME IInv, NEW m \in network, HandleBatchRequest(m)
  PROVE  IInv'
<1>1. UNCHANGED <<trackerVars, produced, repoVars, requestVars, adding, submitVars, enclaveBatches, updates, restarts>>
  BY Zenon DEF HandleBatchRequest
<1>2. TypeOK' /\ (at \in [Goroutine -> Stage])' /\ Believed'
  BY <1>1 DEF IInv, TypeOK, Believed, BatchOf, trackerVars, repoVars, requestVars, submitVars
<1>3. PICK n \in SeqNo : n = m.first
  BY DEF HandleBatchRequest, IInv, InTransit
<1>4. n \in Nat \ {0} /\ produced \in Nat /\ MaxBatchesInP2PResponse \in Nat
  BY <1>3, TypeFacts, CatchUpAssumption DEF IInv, SeqNo
<1>5. n <= produced => n \in 1 .. produced /\ LastInResponse(n) \in n .. produced
  BY <1>4 DEF LastInResponse
<1>6. \A x \in network' :
        /\ x.type = "request" => x.first \in SeqNo
        /\ x.type = "batches" => x.first \in 1 .. produced' /\ x.last \in x.first .. produced'
  <2>1. ASSUME NEW x \in network
        PROVE  /\ x.type = "request" => x.first \in SeqNo
               /\ x.type = "batches" => x.first \in 1 .. produced' /\ x.last \in x.first .. produced'
    BY <1>1 DEF IInv, InTransit
  <2>2. ASSUME NEW x \in network', x \notin network
        PROVE  n <= produced /\ x = Response(n, LastInResponse(n))
    BY <1>3, <2>2 DEF HandleBatchRequest
  <2>3. /\ Response(n, LastInResponse(n)).type = "batches"
        /\ Response(n, LastInResponse(n)).first = n /\ Response(n, LastInResponse(n)).last = LastInResponse(n)
    BY DEF Response
  <2> QED
    BY <1>1, <1>5, <2>1, <2>2, <2>3
<1>7. InTransit'
  BY <1>1, <1>6 DEF IInv, InTransit, repoVars, submitVars
<1> QED
  BY <1>2, <1>7 DEF IInv

\* A message of batches arrives.
LEMMA HandleBatchesKeeps ==
  ASSUME IInv, NEW m \in network, HandleBatches(m)
  PROVE  IInv'
<1>1. UNCHANGED <<trackerVars, produced, repoVars, submitVars, enclaveBatches, updates, restarts>>
  BY DEF HandleBatches
<1>2. network' \subseteq network /\ adding' = adding \cup {<<m.first, m.last>>}
  BY DEF HandleBatches
<1>3. p2pInFlightRequested' \in {NoBatch, p2pInFlightRequested} /\ inFlight' \in {NoBatch, inFlight}
  BY DEF HandleBatches
<1>4. NoBatch \in 0 .. MaxSeqNo
  BY Goroutines DEF NoBatch
<1>5. TypeOK' /\ (at \in [Goroutine -> Stage])' /\ Believed'
  BY <1>1, <1>3, <1>4 DEF IInv, TypeOK, Believed, BatchOf, trackerVars, repoVars, submitVars
<1>6. m.first \in 1 .. produced /\ m.last \in m.first .. produced
  BY DEF HandleBatches, IInv, InTransit
<1>7. InTransit'
  BY <1>1, <1>2, <1>6 DEF IInv, InTransit, repoVars, submitVars
<1> QED
  BY <1>5, <1>7 DEF IInv

\* A request times out.
LEMMA TimeoutKeeps ==
  ASSUME IInv, RequestTimesOut
  PROVE  IInv'
<1>1. UNCHANGED <<trackerVars, produced, network, repoVars, p2pInFlightRequested, adding, submitVars,
                  enclaveBatches, updates, restarts>> /\ inFlight' = NoBatch
  BY DEF RequestTimesOut
<1>2. NoBatch \in 0 .. MaxSeqNo
  BY Goroutines DEF NoBatch
<1> QED
  BY <1>1, <1>2 DEF IInv, TypeOK, InTransit, Believed, BatchOf, trackerVars, repoVars, submitVars

\* A goroutine moves on, the others stay where they are.
LEMMA Moved ==
  ASSUME at \in [Goroutine -> Stage], NEW g \in Goroutine, NEW s \in Stage, at' = Goto(g, s)
  PROVE  /\ at' \in [Goroutine -> Stage] /\ at'[g] = s
         /\ \A h \in Goroutine : h # g => at'[h] = at[h]
BY DEF Goto

\* A batch is added to the repository: at most, its handler is started.
LEMMA Added ==
  ASSUME IInv, NEW n \in 1 .. produced, AddBatch(n), UNCHANGED produced
  PROVE  /\ storage' \subseteq 1 .. produced
         /\ latestBatchSeqNo' \in 0 .. MaxSeqNo /\ latestBatchSeqNo' <= produced
         /\ at' \in [Goroutine -> Stage] /\ at'[Main] = at[Main]
         /\ \A i \in SeqNo : at'[i] = at[i] \/ (at'[i] = "spawned" /\ i <= produced)
<1>1. n \in SeqNo /\ n \in Goroutine /\ n # Main /\ Main \in Goroutine /\ SeqNo \subseteq Goroutine
  BY TypeFacts, Goroutines DEF IInv
<1>2. storage' \subseteq 1 .. produced
  BY TypeFacts DEF IInv, AddBatch
<1>3. /\ latestBatchSeqNo \in Nat /\ latestBatchSeqNo <= MaxSeqNo /\ produced \in Nat
      /\ MaxSeqNo \in Nat /\ produced <= MaxSeqNo /\ latestBatchSeqNo <= produced
  BY TypeFacts, Goroutines DEF IInv, InTransit
<1>4. latestBatchSeqNo' \in 0 .. MaxSeqNo /\ latestBatchSeqNo' <= produced
  BY <1>3 DEF AddBatch
<1>5. at \in [Goroutine -> Stage]
  BY DEF IInv
<1>6. CASE at' = at
  BY <1>2, <1>4, <1>5, <1>6
<1>7. CASE at' = Goto(n, "spawned")
  <2>1. "spawned" \in Stage
    BY DEF Stage
  <2>2. at' \in [Goroutine -> Stage] /\ at'[n] = "spawned" /\ \A h \in Goroutine : h # n => at'[h] = at[h]
    BY Zenon, <1>1, <1>5, <1>7, <2>1, Moved
  <2> QED
    BY <1>1, <1>2, <1>3, <1>4, <2>2
<1> QED
  BY <1>6, <1>7 DEF AddBatch

\* What a batch added to the repository, or one already there, may change: the
\* repository, the handlers of new heads, and what the stream reports.
LEMMA RepositoryKeeps ==
  ASSUME IInv,
         UNCHANGED <<produced, network, batch, reported, enclaveBatches, restarts>>,
         {p2pInFlightRequested', inFlight'} \subseteq 0 .. MaxSeqNo,
         updates' \subseteq updates,
         status' \in Status, enclaveStatusCode' = "Running", hostL2Head' = hostL2Head,
         enclaveL2Head' \in enclaveBatches \cup {NoBatch}, enclaveL2Head' \in 0 .. MaxSeqNo,
         \A q \in adding' : q[1] \in 1 .. produced /\ q[2] \in q[1] .. produced,
         storage' \subseteq 1 .. produced,
         latestBatchSeqNo' \in 0 .. MaxSeqNo, latestBatchSeqNo' <= produced,
         at' \in [Goroutine -> Stage], at'[Main] = at[Main],
         \A i \in SeqNo : at'[i] = at[i] \/ (at'[i] = "spawned" /\ i <= produced)
  PROVE  IInv'
<1>1. TypeOK'
  <2>1. /\ {enclaveL2Head', hostL2Head', produced', latestBatchSeqNo', p2pInFlightRequested', inFlight',
            batch', reported'} \subseteq 0 .. MaxSeqNo
    BY DEF IInv, TypeOK
  <2>2. (storage \cup enclaveBatches \cup updates)' \subseteq 1 .. produced'
    BY Zenon DEF IInv, TypeOK
  <2> QED
    BY Zenon, <2>1, <2>2 DEF IInv, TypeOK
<1>2. InTransit'
  BY DEF IInv, InTransit
<1>3. Believed'
  <2>1. \A g \in Goroutine : at'[g] = "processed" => at[g] = "processed"
    BY DEF Goroutine
  <2> QED
    BY <2>1 DEF IInv, Believed, BatchOf
<1> QED
  BY Zenon, <1>1, <1>2, <1>3 DEF IInv

\* A goroutine of HandleBatches adds its next batch or ends.
LEMMA AddNextKeeps ==
  ASSUME IInv, NEW r \in adding, AddNext(r)
  PROVE  IInv'
<1>1. UNCHANGED <<trackerVars, produced, network, requestVars, batch, reported, enclaveBatches, updates, restarts>>
  BY DEF AddNext
<1>2. PICK m \in 1 .. produced, n \in 1 .. produced : m = r[1] /\ n = r[2] /\ m <= n
  <2>1. r[1] \in 1 .. produced /\ r[2] \in r[1] .. produced /\ produced \in Nat
    BY TypeFacts DEF IInv, InTransit
  <2> QED
    BY <2>1
<1>3. produced \in Nat
  BY TypeFacts DEF IInv
<1>4. \A q \in adding' : q[1] \in 1 .. produced /\ q[2] \in q[1] .. produced
  <2>1. \A q \in adding : q[1] \in 1 .. produced /\ q[2] \in q[1] .. produced
    BY DEF IInv, InTransit
  <2>2. \A q \in adding' : q \in adding \/ (m < n /\ q = <<m + 1, n>>)
    BY <1>2 DEF AddNext
  <2>3. m < n => m + 1 \in 1 .. produced /\ n \in m + 1 .. produced
    BY <1>2, <1>3
  <2> QED
    BY <2>1, <2>2, <2>3
<1>5. /\ storage' \subseteq 1 .. produced
      /\ latestBatchSeqNo' \in 0 .. MaxSeqNo /\ latestBatchSeqNo' <= produced
      /\ at' \in [Goroutine -> Stage] /\ at'[Main] = at[Main]
      /\ \A i \in SeqNo : at'[i] = at[i] \/ (at'[i] = "spawned" /\ i <= produced)
  <2>1. CASE AddBatch(m)
    BY Zenon, <1>1, <2>1, Added
  <2>2. CASE UNCHANGED <<storage, latestBatchSeqNo, at>>
    BY <2>2, TypeFacts DEF IInv, TypeOK, InTransit
  <2> QED
    BY <1>2, <2>1, <2>2 DEF AddNext
<1>6. /\ status' \in Status /\ enclaveStatusCode' = "Running" /\ hostL2Head' = hostL2Head
      /\ enclaveL2Head' \in enclaveBatches \cup {NoBatch} /\ enclaveL2Head' \in 0 .. MaxSeqNo
      /\ {p2pInFlightRequested', inFlight'} \subseteq 0 .. MaxSeqNo /\ updates' \subseteq updates
  BY <1>1 DEF IInv, TypeOK, Believed, trackerVars, requestVars
<1> QED
  BY <1>1, <1>4, <1>5, <1>6, RepositoryKeeps

\* The host hears of a batch its enclave has executed.
LEMMA StreamKeeps ==
  ASSUME IInv, NEW n \in SeqNo, StreamUpdate(n)
  PROVE  IInv'
<1>1. UNCHANGED <<produced, network, requestVars, adding, batch, reported, enclaveBatches, restarts>>
  BY DEF StreamUpdate
<1>2. n \in 1 .. produced /\ n \in enclaveBatches /\ updates' \subseteq updates
  BY TypeFacts DEF StreamUpdate, IInv, Believed
<1>3. /\ storage' \subseteq 1 .. produced
      /\ latestBatchSeqNo' \in 0 .. MaxSeqNo /\ latestBatchSeqNo' <= produced
      /\ at' \in [Goroutine -> Stage] /\ at'[Main] = at[Main]
      /\ \A i \in SeqNo : at'[i] = at[i] \/ (at'[i] = "spawned" /\ i <= produced)
  <2>1. CASE AddBatch(n)
    BY Zenon, <1>1, <1>2, <2>1, Added
  <2>2. CASE UNCHANGED <<storage, latestBatchSeqNo, at>>
    BY <2>2, TypeFacts DEF IInv, TypeOK, InTransit
  <2> QED
    BY <2>1, <2>2 DEF StreamUpdate
<1>4. status' \in Status /\ enclaveStatusCode' = "Running" /\ enclaveL2Head' = n /\ hostL2Head' = hostL2Head
  <2>1. Told("Running", enclaveL1Head, n)
    BY DEF StreamUpdate, OnProcessedBatch, IInv, Believed
  <2> QED
    BY <2>1, TrackerTold
<1>5. n \in 0 .. MaxSeqNo
  BY DEF SeqNo
<1>6. \A q \in adding' : q[1] \in 1 .. produced /\ q[2] \in q[1] .. produced
  BY Zenon, <1>1 DEF IInv, InTransit
<1>7. {p2pInFlightRequested', inFlight'} \subseteq 0 .. MaxSeqNo
  BY <1>1 DEF IInv, TypeOK, requestVars
<1> QED
  BY <1>1, <1>2, <1>3, <1>4, <1>5, <1>6, <1>7, RepositoryKeeps

\* A handler records its batch as the host's head.
LEMMA ReceivedKeeps ==
  ASSUME IInv, NEW n \in SeqNo, Received(n)
  PROVE  IInv'
<1>1. /\ UNCHANGED <<produced, network, repoVars, requestVars, adding, batch, reported, enclaveBatches, updates, restarts>>
      /\ UNCHANGED <<status, enclaveStatusCode, enclaveL2Head>> /\ hostL2Head' = n /\ at[n] = "spawned"
  BY DEF Received, OnReceivedBatch
<1>2. n \in Goroutine /\ n # Main /\ Main \in Goroutine /\ SeqNo \subseteq Goroutine /\ n \in 0 .. MaxSeqNo
  BY Goroutines DEF SeqNo
<1>3. /\ at' \in [Goroutine -> Stage] /\ at'[n] = "received"
      /\ \A h \in Goroutine : h # n => at'[h] = at[h]
  <2>1. "received" \in Stage /\ at \in [Goroutine -> Stage] /\ at' = Goto(n, "received")
    BY Zenon DEF Stage, IInv, Received
  <2> QED
    BY <1>2, <2>1, Moved
<1>4. TypeOK'
  BY <1>1, <1>2, <1>3 DEF IInv, TypeOK, repoVars, requestVars
<1>5. InTransit'
  BY Zenon, <1>1, <1>2, <1>3 DEF IInv, InTransit, repoVars
<1>6. Believed'
  BY <1>1, <1>2, <1>3 DEF IInv, Believed, BatchOf
<1> QED
  BY Zenon, <1>3, <1>4, <1>5, <1>6 DEF IInv

\* A handler goes on to submit its batch, or ignores it.
LEMMA IgnoreOrSubmitKeeps ==
  ASSUME IInv, NEW n \in SeqNo, IgnoreOrSubmit(n)
  PROVE  IInv'
<1>1. /\ UNCHANGED <<trackerVars, produced, network, repoVars, requestVars, adding, batch, reported, enclaveBatches, updates, restarts>>
      /\ at[n] = "received"
  BY DEF IgnoreOrSubmit
<1>2. n \in Goroutine /\ n # Main /\ Main \in Goroutine /\ SeqNo \subseteq Goroutine
  BY Zenon, Goroutines
<1>3. /\ at' \in [Goroutine -> Stage] /\ at'[n] \in {"submit", "none"}
      /\ \A h \in Goroutine : h # n => at'[h] = at[h]
  <2>1. PICK s \in {"submit", "none"} : at' = Goto(n, s)
    BY DEF IgnoreOrSubmit
  <2>2. s \in Stage /\ at \in [Goroutine -> Stage]
    BY Zenon DEF Stage, IInv
  <2> QED
    BY <1>2, <2>1, <2>2, Moved
<1>4. TypeOK'
  BY Zenon, <1>1, <1>2, <1>3 DEF IInv, TypeOK, trackerVars, repoVars, requestVars
<1>5. InTransit'
  BY Zenon, <1>1, <1>2, <1>3 DEF IInv, InTransit, repoVars
<1>6. Believed'
  BY Zenon, <1>1, <1>2, <1>3 DEF IInv, Believed, BatchOf, trackerVars
<1> QED
  BY Zenon, <1>3, <1>4, <1>5, <1>6 DEF IInv

\* The enclave is given a batch, by the main loop or by a handler: it stores the
\* batch only after the one before.
LEMMA SubmitBatchKeeps ==
  ASSUME IInv, NEW g \in Goroutine, SubmitBatch(g)
  PROVE  IInv'
<1>1. /\ UNCHANGED <<trackerVars, produced, network, repoVars, requestVars, adding, batch, reported, restarts>>
      /\ at[g] = "submit"
  BY DEF SubmitBatch
<1>2. Main \in Goroutine /\ Main \notin SeqNo /\ SeqNo \subseteq Goroutine /\ (g = Main \/ g \in SeqNo)
  BY Zenon, Goroutines DEF Goroutine
<1>3. BatchOf(g) \in 1 .. produced /\ produced \in Nat
  BY <1>1, <1>2, TypeFacts DEF IInv, InTransit, BatchOf, SeqNo
<1>4. PICK n \in 1 .. produced : n = BatchOf(g)
  BY <1>3
<1>5. at \in [Goroutine -> Stage]
  BY DEF IInv
<1>6. CASE /\ PreviousStored(n)
           /\ enclaveBatches' = enclaveBatches \cup {n}
           /\ updates' = IF n \in enclaveBatches THEN updates ELSE updates \cup {n}
           /\ at' = Goto(g, "processed")
  <2>1. /\ at' \in [Goroutine -> Stage] /\ at'[g] = "processed"
        /\ \A h \in Goroutine : h # g => at'[h] = at[h]
    <3>1. "processed" \in Stage
      BY DEF Stage
    <3> QED
      BY <1>5, <1>6, <3>1, Moved
  <2>2. updates' \subseteq updates \cup {n}
    BY Zenon, <1>6
  <2>3. TypeOK'
    BY Zenon, <1>1, <1>2, <1>4, <1>6, <2>1, <2>2 DEF IInv, TypeOK, trackerVars, repoVars, requestVars
  <2>4. InTransit'
    BY Zenon, <1>1, <1>2, <2>1 DEF IInv, InTransit, repoVars
  <2>5. Believed'
    BY Zenon, <1>1, <1>4, <1>6, <2>1, <2>2 DEF IInv, Believed, BatchOf, trackerVars
  <2> QED
    BY Zenon, <2>1, <2>3, <2>4, <2>5 DEF IInv
<1>7. CASE Fail(g) /\ UNCHANGED <<enclaveBatches, updates>>
  <2>1. /\ at' \in [Goroutine -> Stage] /\ at'[g] = IF g = Main THEN "status" ELSE "none"
        /\ \A h \in Goroutine : h # g => at'[h] = at[h]
    <3>1. (IF g = Main THEN "status" ELSE "none") \in Stage
      BY Zenon DEF Stage
    <3> QED
      BY <1>5, <1>7, <3>1, Moved DEF Fail
  <2>2. TypeOK'
    BY Zenon, <1>1, <1>2, <1>7, <2>1 DEF IInv, TypeOK, trackerVars, repoVars, requestVars
  <2>3. InTransit'
    BY Zenon, <1>1, <1>2, <2>1 DEF IInv, InTransit, repoVars
  <2>4. Believed'
    BY Zenon, <1>1, <1>7, <2>1 DEF IInv, Believed, BatchOf, trackerVars
  <2> QED
    BY Zenon, <2>1, <2>2, <2>3, <2>4 DEF IInv
<1> QED
  BY Zenon, <1>4, <1>6, <1>7 DEF SubmitBatch

\* The tracker hears that the enclave has processed a batch.
LEMMA BatchProcessedKeeps ==
  ASSUME IInv, NEW g \in Goroutine, BatchProcessed(g)
  PROVE  IInv'
<1>1. /\ UNCHANGED <<produced, network, repoVars, requestVars, adding, reported, enclaveBatches, updates, restarts>>
      /\ at[g] = "processed" /\ batch' = IF g = Main THEN NoBatch ELSE batch
  BY Zenon DEF BatchProcessed
<1>2. Main \in Goroutine /\ Main \notin SeqNo /\ SeqNo \subseteq Goroutine /\ (g = Main \/ g \in SeqNo)
  BY Goroutines DEF Goroutine
<1>3. /\ status' \in Status /\ enclaveStatusCode' = "Running"
      /\ enclaveL2Head' = BatchOf(g) /\ hostL2Head' = hostL2Head
  <2>1. Told("Running", enclaveL1Head, BatchOf(g))
    BY Zenon DEF BatchProcessed, OnProcessedBatch, IInv, Believed
  <2> QED
    BY Zenon, <2>1, TrackerTold
<1>4. BatchOf(g) \in enclaveBatches
  BY <1>1 DEF IInv, Believed
<1>5. BatchOf(g) \in 0 .. MaxSeqNo /\ NoBatch \in 0 .. MaxSeqNo
  BY <1>4, TypeFacts, Goroutines DEF IInv, SeqNo, NoBatch
<1>6. /\ at' \in [Goroutine -> Stage] /\ at'[g] = IF g = Main THEN "fetch" ELSE "none"
      /\ \A h \in Goroutine : h # g => at'[h] = at[h]
  <2>1. (IF g = Main THEN "fetch" ELSE "none") \in Stage /\ at \in [Goroutine -> Stage]
    BY Zenon DEF Stage, IInv
  <2> QED
    BY <2>1, Moved DEF BatchProcessed, Return
<1>7. TypeOK'
  <2>1. batch' \in 0 .. MaxSeqNo
    BY Zenon, <1>1, <1>5 DEF IInv, TypeOK
  <2> QED
    BY ZenonT(30), <1>1, <1>2, <1>3, <1>5, <1>6, <2>1 DEF IInv, TypeOK, repoVars, requestVars
<1>8. InTransit'
  BY Zenon, <1>1, <1>2, <1>6 DEF IInv, InTransit, repoVars
<1>9. Believed'
  BY Zenon, <1>1, <1>2, <1>3, <1>4, <1>6 DEF IInv, Believed, BatchOf
<1> QED
  BY Zenon, <1>6, <1>7, <1>8, <1>9 DEF IInv

\* The main loop moves on and nothing else changes but what it has read.
LEMMA MainKeeps ==
  ASSUME IInv,
         UNCHANGED <<trackerVars, produced, repoVars, p2pInFlightRequested, adding, enclaveBatches, updates, restarts>>,
         NEW s \in {"status", "report", "fetch", "submit"}, at' = Goto(Main, s), at[Main] # "processed",
         batch' \in 0 .. MaxSeqNo, s = "submit" => batch' \in 1 .. produced,
         inFlight' \in 0 .. MaxSeqNo, reported' \in enclaveBatches \cup {NoBatch}, reported' \in 0 .. MaxSeqNo,
         \A m \in network' : m \in network \/ (m.type = "request" /\ m.first \in SeqNo)
  PROVE  IInv'
<1>1. Main \in Goroutine /\ Main \notin SeqNo /\ SeqNo \subseteq Goroutine
  BY Zenon, Goroutines
<1>2. /\ at' \in [Goroutine -> Stage] /\ at'[Main] = s
      /\ \A h \in Goroutine : h # Main => at'[h] = at[h]
  <2>1. s \in Stage /\ at \in [Goroutine -> Stage]
    BY Zenon DEF Stage, IInv
  <2> QED
    BY Zenon, <1>1, <2>1, Moved
<1>3. TypeOK'
  BY <1>1, <1>2 DEF IInv, TypeOK, trackerVars, repoVars
<1>4. InTransit'
  <2>1. \A m \in network' : /\ m.type = "request" => m.first \in SeqNo
                            /\ m.type = "batches" => m.first \in 1 .. produced /\ m.last \in m.first .. produced
    BY Zenon DEF IInv, InTransit
  <2> QED
    BY Zenon, <1>1, <1>2, <2>1 DEF IInv, InTransit, repoVars
<1>5. Believed'
  BY Zenon, <1>1, <1>2 DEF IInv, Believed, BatchOf, trackerVars
<1> QED
  BY Zenon, <1>2, <1>3, <1>4, <1>5 DEF IInv

\* The main loop asks for the enclave's status.
LEMMA CallStatusKeeps ==
  ASSUME IInv, CallStatus
  PROVE  IInv'
<1>1. CurrentSequencerNo \in enclaveBatches \cup {NoBatch}
  BY HighestStored DEF IInv
<1>2. CurrentSequencerNo \in 0 .. MaxSeqNo
  BY <1>1, TypeFacts, Goroutines DEF IInv, NoBatch, SeqNo
<1>3. batch \in 0 .. MaxSeqNo /\ inFlight \in 0 .. MaxSeqNo
  BY DEF IInv, TypeOK
<1> QED
  BY <1>1, <1>2, <1>3, MainKeeps DEF CallStatus, requestVars

\* The main loop hands the status it was told, by now an old one, to the tracker.
LEMMA ReportStatusKeeps ==
  ASSUME IInv, ReportStatus
  PROVE  IInv'
<1>1. /\ UNCHANGED <<produced, network, repoVars, requestVars, adding, batch, enclaveBatches, updates, restarts>>
      /\ at[Main] = "report" /\ reported' = NoBatch
  BY DEF ReportStatus
<1>2. Main \in Goroutine /\ Main \notin SeqNo /\ SeqNo \subseteq Goroutine /\ NoBatch \in 0 .. MaxSeqNo
  BY Goroutines DEF NoBatch
<1>3. /\ status' \in Status /\ enclaveStatusCode' = "Running"
      /\ enclaveL2Head' = reported /\ hostL2Head' = hostL2Head
  BY Zenon, TrackerTold DEF ReportStatus, OnEnclaveStatus
<1>4. /\ at' \in [Goroutine -> Stage] /\ at'[Main] \in {"fetch", "status"}
      /\ \A h \in Goroutine : h # Main => at'[h] = at[h]
  <2>1. PICK s \in {"fetch", "status"} : at' = Goto(Main, s)
    BY DEF ReportStatus
  <2>2. s \in Stage /\ at \in [Goroutine -> Stage]
    BY Zenon DEF Stage, IInv
  <2> QED
    BY Zenon, <1>2, <2>1, <2>2, Moved
<1>5. TypeOK'
  BY <1>1, <1>2, <1>3, <1>4 DEF IInv, TypeOK, repoVars, requestVars
<1>6. InTransit'
  BY Zenon, <1>1, <1>2, <1>4 DEF IInv, InTransit, repoVars
<1>7. Believed'
  BY Zenon, <1>1, <1>2, <1>3, <1>4 DEF IInv, Believed, BatchOf
<1> QED
  BY Zenon, <1>4, <1>5, <1>6, <1>7 DEF IInv

\* What the main loop has read and not used yet.
LEMMA MainFacts ==
  ASSUME IInv
  PROVE  /\ batch \in 0 .. MaxSeqNo /\ inFlight \in 0 .. MaxSeqNo
         /\ reported \in enclaveBatches \cup {NoBatch} /\ reported \in 0 .. MaxSeqNo
BY Zenon DEF IInv, TypeOK, Believed

\* The main loop takes the next batch from the database.
LEMMA CatchupKeeps ==
  ASSUME IInv, CatchupWithL2
  PROVE  IInv'
<1>1. /\ UNCHANGED <<trackerVars, produced, network, repoVars, requestVars, adding, reported, enclaveBatches, updates, restarts>>
      /\ at[Main] = "fetch"
  BY Zenon DEF CatchupWithL2
<1>2. CASE nextHead \in storage /\ batch' = nextHead /\ at' = Goto(Main, "submit")
  <2>1. nextHead \in 1 .. produced /\ nextHead \in 0 .. MaxSeqNo
    BY <1>2, TypeFacts, Goroutines DEF IInv, SeqNo
  <2> QED
    BY Zenon, <1>1, <1>2, <2>1, MainFacts, MainKeeps DEF requestVars
<1>3. CASE at' = Goto(Main, "status") /\ UNCHANGED batch
  BY Zenon, <1>1, <1>3, MainFacts, MainKeeps DEF requestVars
<1> QED
  BY Zenon, <1>2, <1>3 DEF CatchupWithL2

\* The main loop asks the sequencer for the next batch.
LEMMA RequestMissingKeeps ==
  ASSUME IInv, RequestMissing
  PROVE  IInv'
<1>1. /\ UNCHANGED <<trackerVars, produced, repoVars, p2pInFlightRequested, adding, batch, reported, enclaveBatches, updates, restarts>>
      /\ at[Main] = "fetch" /\ at' = Goto(Main, "status")
      /\ network' = network \cup {Request(nextHead)} /\ inFlight' = nextHead
  BY DEF RequestMissing
<1>2. nextHead \in SeqNo /\ nextHead \in 0 .. MaxSeqNo
  <2>1. enclaveL2Head \in Nat /\ latestBatchSeqNo \in Nat /\ latestBatchSeqNo <= MaxSeqNo /\ MaxSeqNo \in Nat
    BY Zenon, TypeFacts, Goroutines DEF IInv
  <2>2. enclaveL2Head + 1 < latestBatchSeqNo
    BY Zenon DEF RequestMissing, MayRequest, nextHead
  <2> QED
    BY <2>1, <2>2 DEF nextHead, SeqNo
<1>3. Request(nextHead).type = "request" /\ Request(nextHead).first = nextHead
  BY Zenon DEF Request
<1> QED
  BY Zenon, <1>1, <1>2, <1>3, MainFacts, MainKeeps

\* The main loop does not ask for it.
LEMMA NotRequestedKeeps ==
  ASSUME IInv, NotRequested
  PROVE  IInv'
BY Zenon, MainFacts, MainKeeps DEF NotRequested, requestVars

\* The enclave reads the batch after its last one from a rollup.
LEMMA RollupKeeps ==
  ASSUME IInv, RollupBatch
  PROVE  IInv'
<1>1. UNCHANGED <<trackerVars, produced, network, repoVars, requestVars, adding, submitVars, restarts>>
  BY DEF RollupBatch
<1>2. PICK c \in Nat : c = CurrentSequencerNo
  BY Zenon, HighestStored DEF IInv
<1>3. /\ c < produced /\ enclaveBatches' = enclaveBatches \cup {c + 1} /\ updates' = updates \cup {c + 1}
  BY Zenon, <1>2 DEF RollupBatch
<1>4. c + 1 \in 1 .. produced
  BY <1>3, TypeFacts DEF IInv
<1>5. TypeOK'
  BY Zenon, <1>1, <1>3, <1>4 DEF IInv, TypeOK, trackerVars, repoVars, requestVars, submitVars
<1>6. (at \in [Goroutine -> Stage])' /\ InTransit' /\ Believed'
  BY Zenon, <1>1, <1>3 DEF IInv, InTransit, Believed, BatchOf, trackerVars, repoVars, submitVars
<1> QED
  BY Zenon, <1>5, <1>6 DEF IInv

\* The host is restarted.
LEMMA RestartKeeps ==
  ASSUME IInv, Restart
  PROVE  IInv'
<1>1. UNCHANGED <<produced, network, storage, enclaveBatches>> /\ restarts' = restarts + 1 /\ restarts < MaxRestarts
  BY DEF Restart
<1>2. /\ MaxSeqNo \in Nat /\ MaxRestarts \in Nat /\ Main \notin SeqNo /\ Main \in Goroutine /\ SeqNo \subseteq Goroutine
      /\ NoBatch \in 0 .. MaxSeqNo
  BY Goroutines, CatchUpAssumption DEF NoBatch
<1>3. /\ status' = "Disconnected" /\ enclaveStatusCode' = "Running"
      /\ enclaveL2Head' = NoBatch /\ hostL2Head' = NoBatch /\ latestBatchSeqNo' = 0
      /\ p2pInFlightRequested' = NoBatch /\ inFlight' = NoBatch
      /\ adding' = {} /\ batch' = NoBatch /\ reported' = NoBatch /\ updates' = {}
  BY Zenon DEF Restart, HostStarts
<1>4. at' \in [Goroutine -> Stage] /\ at'[Main] = "status" /\ \A n \in SeqNo : at'[n] = "none"
  BY Zenon, <1>2 DEF Restart, HostStarts, Stage
<1>5. TypeOK'
  <2>1. restarts' \in 0 .. MaxRestarts
    BY <1>1, <1>2 DEF IInv, TypeOK
  <2> QED
    BY Zenon, <1>1, <1>2, <1>3, <1>4, <2>1 DEF IInv, TypeOK, Status, NoBatch
<1>6. InTransit'
  BY <1>1, <1>3, <1>4, TypeFacts DEF IInv, InTransit
<1>7. Believed'
  BY Zenon, <1>1, <1>2, <1>3, <1>4 DEF IInv, Believed, Goroutine
<1> QED
  BY Zenon, <1>4, <1>5, <1>6, <1>7 DEF IInv
-----------------------------------------------------------------------------
(* The theorems.                                                             *)

\* Every step keeps the invariant.
LEMMA StepKeeps ==
  ASSUME IInv, [Next]_vars
  PROVE  IInv'
<1>1. Main \in Goroutine /\ SeqNo \subseteq Goroutine
  BY Goroutines
<1>2. CASE MainLoop
  BY Zenon, <1>1, <1>2, CallStatusKeeps, ReportStatusKeeps, CatchupKeeps, NotRequestedKeeps, SubmitBatchKeeps,
     BatchProcessedKeeps DEF MainLoop, Submit
<1>3. CASE Sequencer
  BY Zenon, <1>3, ProduceKeeps, RequestKeeps DEF Sequencer
<1>4. CASE Repository
  BY Zenon, <1>4, HandleBatchesKeeps, AddNextKeeps, TimeoutKeeps, RequestMissingKeeps DEF Repository
<1>5. CASE Stream
  BY <1>5, StreamKeeps DEF Stream
<1>6. CASE Environment
  BY Zenon, <1>6, LoseKeeps, RollupKeeps, RestartKeeps DEF Environment
<1>7. ASSUME NEW n \in SeqNo, HandleBatch(n)
      PROVE  IInv'
  BY ZenonT(30), <1>1, <1>7, ReceivedKeeps, IgnoreOrSubmitKeeps, SubmitBatchKeeps, BatchProcessedKeeps
  DEF HandleBatch, Submit
<1>8. CASE UNCHANGED vars
  BY <1>8 DEF IInv, TypeOK, InTransit, Believed, BatchOf, vars, trackerVars, repoVars, requestVars, submitVars
<1> QED
  BY Zenon, <1>2, <1>3, <1>4, <1>5, <1>6, <1>7, <1>8 DEF Next

\* The invariant holds for any number of batches and restarts.
THEOREM Invariance == Spec => []IInv
<1>1. IInv /\ [Next]_vars => IInv'
  BY StepKeeps
<1> QED
  BY <1>1, InitKeeps, PTL DEF Spec

\* The tracker never takes the enclave to have a batch it does not have, though
\* status reports, results and streamed updates are told to it in any order and
\* the handlers of new heads run in any order.
THEOREM BelievesWhatIs == Spec => []NeverAhead
<1>1. IInv => NeverAhead
  BY DEF IInv, Believed, NeverAhead
<1> QED
  BY <1>1, Invariance, PTL

=============================================================================
