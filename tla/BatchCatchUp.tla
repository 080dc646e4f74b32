---------------------------- MODULE BatchCatchUp ----------------------------
(***************************************************************************)
(* How a validator's host gets the sequencer's batches to its enclave: the *)
(* batch repository (host/l2/batchrepository.go), which stores what comes  *)
(* over P2P and asks the sequencer for what is missing, one goroutine of   *)
(* HandleBatch per new head, the guardian's main loop and the stream of    *)
(* executed batches (host/enclave/guardian.go).                            *)
(*                                                                         *)
(* Batches are their sequence numbers.  The enclave is reduced to the      *)
(* batches it has stored (what it does with them is in ValidatorEnclave);  *)
(* the host and the enclave are in sync with the L1 (see GuardianL1).      *)
(***************************************************************************)
EXTENDS StateTracker

CONSTANTS
  Main,                      \* the goroutine of mainLoop
  Root,                      \* the L1 head of the host and the enclave
  MaxBatchesInP2PResponse,   \* _maxBatchesInP2PResponse
  MaxSeqNo,                  \* bound: batches the sequencer produces
  MaxRestarts                \* bound: how often the host is restarted

ASSUME CatchUpAssumption ==
  /\ Root \in Block
  /\ MaxBatchesInP2PResponse \in Nat
  /\ MaxSeqNo \in Nat \ {0}
  /\ MaxRestarts \in Nat
  /\ Main \notin 0 .. MaxSeqNo

VARIABLES
  produced,            \* the batches 1 .. produced are in the sequencer's repository
  network,             \* messages on their way
  storage,             \* the batches in the host's database
  latestBatchSeqNo,
  p2pInFlightRequested,
  inFlight,            \* what the last request asked for if p2pInFlightReqTime is set
                       \* and less than 30 seconds old, NoBatch otherwise
  adding,              \* running HandleBatches goroutines: what each has left to add
  at,                  \* where each goroutine is
  batch,               \* the batch Main submits
  reported,            \* the head batch in the status Main has asked for
  enclaveBatches,      \* the batches the enclave has stored
  updates,             \* executed batches on their way to the host's stream
  restarts

repoVars == <<storage, latestBatchSeqNo>>
requestVars == <<p2pInFlightRequested, inFlight>>
submitVars == <<at, batch, reported>>
vars == <<trackerVars, produced, network, repoVars, requestVars, adding, submitVars,
          enclaveBatches, updates, restarts>>

SeqNo == 1 .. MaxSeqNo
Goroutine == SeqNo \cup {Main}   \* the one of HandleBatch(n) is named n

Live(n) == [type |-> "batches", isLive |-> TRUE, first |-> n, last |-> n]
Response(m, n) == [type |-> "batches", isLive |-> FALSE, first |-> m, last |-> n]
Request(n) == [type |-> "request", first |-> n]

\* the state of a host that has just started, in sync with the L1
HostStarts ==
  /\ status' = "Disconnected"
  /\ enclaveStatusCode' = "Running"
  /\ enclaveL1Head' = Root /\ hostL1Head' = Root
  /\ enclaveL2Head' = NoBatch /\ hostL2Head' = NoBatch
  /\ latestBatchSeqNo' = 0
  /\ p2pInFlightRequested' = NoBatch /\ inFlight' = NoBatch
  /\ adding' = {}
  /\ at' = [g \in Goroutine |-> IF g = Main THEN "status" ELSE "none"]
  /\ batch' = NoBatch
  /\ reported' = NoBatch
  /\ updates' = {}

Init ==
  /\ status = "Disconnected"
  /\ enclaveStatusCode = "Running"
  /\ enclaveL1Head = Root /\ hostL1Head = Root
  /\ enclaveL2Head = NoBatch /\ hostL2Head = NoBatch
  /\ produced = 0
  /\ network = {}
  /\ storage = {} /\ latestBatchSeqNo = 0
  /\ p2pInFlightRequested = NoBatch /\ inFlight = NoBatch
  /\ adding = {}
  /\ at = [g \in Goroutine |-> IF g = Main THEN "status" ELSE "none"]
  /\ batch = NoBatch
  /\ reported = NoBatch
  /\ enclaveBatches = {}
  /\ updates = {}
  /\ restarts = 0

Goto(g, stage) == [at EXCEPT ![g] = stage]

\* back to the caller: catchupWithL2 goes on, HandleBatch ends
Return(g) == at' = Goto(g, IF g = Main THEN "fetch" ELSE "none")

\* an error: mainLoop asks for the status again, HandleBatch ends
Fail(g) == at' = Goto(g, IF g = Main THEN "status" ELSE "none")
-----------------------------------------------------------------------------
(* The sequencer's host and the network.                                    *)

\* the sequencer's stream of executed batches: store and BroadcastBatches
ProduceBatch ==
  /\ produced < MaxSeqNo
  /\ produced' = produced + 1
  /\ network' = network \cup {Live(produced')}
  /\ UNCHANGED <<trackerVars, repoVars, requestVars, adding, submitVars, enclaveBatches, updates, restarts>>

\* a message is lost: every attempt of sendBytesWithRetry has failed
Lose ==
  /\ \E m \in network : network' = network \ {m}
  /\ UNCHANGED <<trackerVars, produced, repoVars, requestVars, adding, submitVars, enclaveBatches, updates, restarts>>

\* the last batch of the answer to a request from batch n on
LastInResponse(n) ==
  IF n + MaxBatchesInP2PResponse <= produced THEN n + MaxBatchesInP2PResponse ELSE produced

HandleBatchRequest(m) ==
  /\ m \in network /\ m.type = "request"
  /\ network' = (network \ {m}) \cup
       (IF m.first <= produced THEN {Response(m.first, LastInResponse(m.first))} ELSE {})
  /\ UNCHANGED <<trackerVars, produced, repoVars, requestVars, adding, submitVars, enclaveBatches, updates, restarts>>
-----------------------------------------------------------------------------
(* The validator's batch repository.                                        *)

\* AddBatch for a batch that is not there yet: a new head starts HandleBatch
AddBatch(n) ==
  /\ storage' = storage \cup {n}
  /\ latestBatchSeqNo' = IF n > latestBatchSeqNo THEN n ELSE latestBatchSeqNo
  /\ at' = IF n > latestBatchSeqNo THEN Goto(n, "spawned") ELSE at

\* HandleBatches, its head: an answer clears the request it is known to answer
HandleBatches(m) ==
  /\ m \in network /\ m.type = "batches"
  /\ network' = network \ {m}
  /\ LET answered == ~m.isLive /\ p2pInFlightRequested = m.first IN
     /\ p2pInFlightRequested' = IF answered THEN NoBatch ELSE p2pInFlightRequested
     /\ inFlight' = IF answered THEN NoBatch ELSE inFlight
  /\ adding' = adding \cup {<<m.first, m.last>>}
  /\ UNCHANGED <<trackerVars, produced, repoVars, submitVars, enclaveBatches, updates, restarts>>

\* HandleBatches, one turn of its loop: it ends at the first batch it has already
AddNext(r) ==
  /\ r \in adding
  /\ \/ /\ r[1] \notin storage
        /\ AddBatch(r[1])
        /\ adding' = (adding \ {r}) \cup (IF r[1] < r[2] THEN {<<r[1] + 1, r[2]>>} ELSE {})
     \/ /\ r[1] \in storage
        /\ adding' = adding \ {r}
        /\ UNCHANGED <<storage, latestBatchSeqNo, at>>
  /\ UNCHANGED <<trackerVars, produced, network, requestVars, batch, reported,
                 enclaveBatches, updates, restarts>>

\* mutant: the next request has to wait for the batch the last one asked for
RequestTimesOutMutant ==
  /\ inFlight \in storage
  /\ inFlight' = NoBatch
  /\ UNCHANGED <<trackerVars, produced, network, repoVars, p2pInFlightRequested, adding, submitVars,
                 enclaveBatches, updates, restarts>>

\* _timeoutWaitingForP2PResponse has passed since the last request
RequestTimesOut ==
  /\ inFlight # NoBatch
  /\ inFlight' = NoBatch
  /\ UNCHANGED <<trackerVars, produced, network, repoVars, p2pInFlightRequested, adding, submitVars,
                 enclaveBatches, updates, restarts>>
-----------------------------------------------------------------------------
(* Guardian.HandleBatch and Guardian.submitL2Batch.                         *)

Received(n) ==
  /\ at[n] = "spawned"
  /\ OnReceivedBatch(n)
  /\ at' = Goto(n, "received")
  /\ UNCHANGED <<produced, network, repoVars, requestVars, adding, batch, reported,
                 enclaveBatches, updates, restarts>>

\* a batch is ignored until the enclave is up to date
IgnoreOrSubmit(n) ==
  /\ at[n] = "received"
  /\ at' = Goto(n, IF IsUpToDate THEN "submit" ELSE "none")
  /\ UNCHANGED <<trackerVars, produced, network, repoVars, requestVars, adding, batch, reported,
                 enclaveBatches, updates, restarts>>

\* mutant: the tracker is asked again for the next batch after the call of the enclave
BatchOfMutant(g) == IF g = Main THEN enclaveL2Head + 1 ELSE g

BatchOf(g) == IF g = Main THEN batch ELSE g

\* the enclave's SubmitBatch wants the batch before
PreviousStored(n) == n = 1 \/ n - 1 \in enclaveBatches

\* the call of the enclave, under submitDataLock: a new batch is stored, executed
\* and streamed
SubmitBatch(g) ==
  LET n == BatchOf(g) IN
  /\ at[g] = "submit"
  /\ \/ /\ PreviousStored(n)
        /\ enclaveBatches' = enclaveBatches \cup {n}
        /\ updates' = IF n \in enclaveBatches THEN updates ELSE updates \cup {n}
        /\ at' = Goto(g, "processed")
     \/ /\ ~PreviousStored(n)
        /\ Fail(g)
        /\ UNCHANGED <<enclaveBatches, updates>>
  /\ UNCHANGED <<trackerVars, produced, network, repoVars, requestVars, adding, batch, reported, restarts>>

BatchProcessed(g) ==
  /\ at[g] = "processed"
  /\ OnProcessedBatch(BatchOf(g))
  /\ Return(g)
  /\ batch' = IF g = Main THEN NoBatch ELSE batch
  /\ UNCHANGED <<produced, network, repoVars, requestVars, adding, reported,
                 enclaveBatches, updates, restarts>>

Submit(g) == SubmitBatch(g) \/ BatchProcessed(g)
-----------------------------------------------------------------------------
(* Guardian.mainLoop and Guardian.streamEnclaveData.                        *)

\* FetchCurrentSequencerNo: the highest batch stored
CurrentSequencerNo ==
  CHOOSE n \in enclaveBatches \cup {NoBatch} : \A m \in enclaveBatches : m <= n

CallStatus ==
  /\ at[Main] = "status"
  /\ reported' = CurrentSequencerNo
  /\ at' = Goto(Main, "report")
  /\ UNCHANGED <<trackerVars, produced, network, repoVars, requestVars, adding, batch,
                 enclaveBatches, updates, restarts>>

ReportStatus ==
  /\ at[Main] = "report"
  /\ OnEnclaveStatus("Running", Root, reported)
  /\ at' = Goto(Main, IF status' = "L2Catchup" THEN "fetch" ELSE "status")
  /\ reported' = NoBatch
  /\ UNCHANGED <<produced, network, repoVars, requestVars, adding, batch,
                 enclaveBatches, updates, restarts>>

nextHead == enclaveL2Head + 1

\* catchupWithL2: the next batch is in the database, or there is nothing to do
CatchupWithL2 ==
  /\ at[Main] = "fetch"
  /\ \/ /\ status = "L2Catchup" /\ nextHead \in storage
        /\ batch' = nextHead
        /\ at' = Goto(Main, "submit")
     \/ /\ status # "L2Catchup"
        /\ at' = Goto(Main, "status")
        /\ UNCHANGED batch
  /\ UNCHANGED <<trackerVars, produced, network, repoVars, requestVars, adding, reported,
                 enclaveBatches, updates, restarts>>

\* FetchBatchBySeqNo: a batch below the latest one is asked for if it is missing
MayRequest == nextHead < latestBatchSeqNo /\ inFlight = NoBatch

\* requestMissingBatchesFromPeers
RequestMissing ==
  /\ at[Main] = "fetch"
  /\ status = "L2Catchup" /\ nextHead \notin storage
  /\ MayRequest
  /\ network' = network \cup {Request(nextHead)}
  /\ inFlight' = nextHead
  /\ at' = Goto(Main, "status")
  /\ UNCHANGED <<trackerVars, produced, repoVars, p2pInFlightRequested, adding, batch, reported,
                 enclaveBatches, updates, restarts>>

\* ... or the batch is not asked for, or the request cannot be sent
NotRequested ==
  /\ at[Main] = "fetch"
  /\ status = "L2Catchup" /\ nextHead \notin storage
  /\ at' = Goto(Main, "status")
  /\ UNCHANGED <<trackerVars, produced, network, repoVars, requestVars, adding, batch, reported,
                 enclaveBatches, updates, restarts>>

\* streamEnclaveData: the host hears of an executed batch
StreamUpdate(n) ==
  /\ n \in updates /\ \A m \in updates : n <= m
  /\ updates' = updates \ {n}
  /\ IF n \in storage THEN UNCHANGED <<storage, latestBatchSeqNo, at>> ELSE AddBatch(n)
  /\ OnProcessedBatch(n)
  /\ UNCHANGED <<produced, network, requestVars, adding, batch, reported, enclaveBatches, restarts>>

\* external to this module: the enclave reads the next batch from a rollup
RollupBatch ==
  /\ CurrentSequencerNo < produced
  /\ enclaveBatches' = enclaveBatches \cup {CurrentSequencerNo + 1}
  /\ updates' = updates \cup {CurrentSequencerNo + 1}
  /\ UNCHANGED <<trackerVars, produced, network, repoVars, requestVars, adding, submitVars, restarts>>

\* the host is restarted; its database, the enclave and the network go on
Restart ==
  /\ restarts < MaxRestarts
  /\ restarts' = restarts + 1
  /\ HostStarts
  /\ UNCHANGED <<produced, network, storage, enclaveBatches>>
-----------------------------------------------------------------------------
MainLoop == CallStatus \/ ReportStatus \/ CatchupWithL2 \/ NotRequested \/ Submit(Main)

Sequencer == ProduceBatch \/ \E m \in network : HandleBatchRequest(m)

Repository ==
  \/ \E m \in network : HandleBatches(m)
  \/ \E r \in adding : AddNext(r)
  \/ RequestTimesOut
  \/ RequestMissing

HandleBatch(n) == Received(n) \/ IgnoreOrSubmit(n) \/ Submit(n)

Stream == \E n \in SeqNo : StreamUpdate(n)

Environment == Lose \/ RollupBatch \/ Restart

\* goroutines run and time passes; a request that is made again and again is sent,
\* and it and its answer get through, at last
Fairness ==
  /\ WF_vars(MainLoop)
  /\ WF_vars(\E r \in adding : AddNext(r))
  /\ WF_vars(RequestTimesOut)
  /\ WF_vars(Stream)
  /\ \A n \in SeqNo : WF_vars(HandleBatch(n))
  /\ SF_vars(RequestMissing)
  /\ \A n \in SeqNo : SF_vars(HandleBatchRequest(Request(n)))
  /\ \A m \in SeqNo : \A n \in m .. MaxSeqNo : SF_vars(HandleBatches(Response(m, n)))

Next ==
  \/ MainLoop \/ Sequencer \/ Repository \/ Stream \/ Environment
  \/ \E n \in SeqNo : HandleBatch(n)

Spec == Init /\ [][Next]_vars /\ Fairness
-----------------------------------------------------------------------------
TypeOK ==
  /\ status \in Status
  /\ {enclaveL2Head, hostL2Head, produced, latestBatchSeqNo, p2pInFlightRequested, inFlight,
    batch, reported}
       \subseteq 0 .. MaxSeqNo
  /\ storage \cup enclaveBatches \cup updates \subseteq 1 .. produced
  /\ at[Main] \in {"status", "report", "fetch", "submit", "processed"}
  /\ \A n \in SeqNo : at[n] \in {"none", "spawned", "received", "submit", "processed"}
  /\ restarts \in 0 .. MaxRestarts

\* The tracker never takes the enclave to be further than it is, though reports,
\* results and streamed updates reach it in any order.
NeverAhead == enclaveL2Head # NoBatch => enclaveL2Head \in enclaveBatches

\* A batch the tracker has been told of (OnReceivedBatch), or that lies below one it
\* has been told of, gets to the enclave though live batches, requests and answers
\* are lost and handlers run in any order; unless the tracker is told of an older
\* batch after it, or the host is restarted and forgets what it was told.
GapsFilled ==
  \A n \in SeqNo : n <= hostL2Head ~> n \in enclaveBatches \/ hostL2Head < n

\* "Live - enclave is up-to-date with known external data": it does not stay live
\* without a batch the host has.  It does when the handler of an older batch runs
\* after that of a newer one.
LiveMeansUpToDate == <>[](IsUpToDate => latestBatchSeqNo <= CurrentSequencerNo)

\* "we limit the number of batches we return with this cap": no answer is longer.
ResponseWithinCap ==
  \A m \in network : m.type = "batches" /\ ~m.isLive => m.last - m.first < MaxBatchesInP2PResponse

\* "if these batches resolve the in-flight request we made then clear the in-flight
\* request": after the answer to the last request no request is in flight.
AnswerClearsRequest ==
  [][\A m \in network : HandleBatches(m) /\ ~m.isLive /\ m.first = inFlight => inFlight' = NoBatch]_vars
=============================================================================
