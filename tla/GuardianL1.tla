----------------------------- MODULE GuardianL1 -----------------------------
(***************************************************************************)
(* How a host feeds L1 blocks to its enclave: the stream of live blocks    *)
(* (host/l1/blockrepository.go), one goroutine per live block, and the     *)
(* guardian's main loop, which asks for the enclave's status and catches   *)
(* up block by block (host/enclave/guardian.go).  They share the tracker   *)
(* and submitDataLock.                                                     *)
(*                                                                         *)
(* The enclave is reduced to the blocks it has stored and its head; what   *)
(* it accepts is ingestBlock.  It can be down, its answer can be lost, and *)
(* the calls of the L1 node can fail.  Go starts the handlers of live      *)
(* blocks in any order.  The L2 side of the tracker is in sync here (see   *)
(* BatchCatchUp for it).                                                   *)
(***************************************************************************)
EXTENDS StateTracker, Sequences

CONSTANTS
  Main,     \* the goroutine of mainLoop
  Root,     \* the block the enclave has at the start: the L1 below it is never asked for
  MaxFaults \* bound: stops of the enclave, lost answers and L1 calls that fail in a submission

ASSUME GuardianAssumption ==
  /\ Main \notin Block \cup {NoBlock}
  /\ Root \in Block /\ Parent[Root] = NoBlock
  /\ MaxFaults \in Nat

VARIABLES
  l1Head,       \* the head of the L1 node
  liveStream,   \* headers on their way to the host
  repoHead,     \* Repository.head
  at,           \* where each goroutine is; the one of HandleBlock(b) is named b
  block,        \* the block it submits
  lock,         \* the goroutine that holds submitDataLock, or NoBlock
  reported,     \* the L1 head in the status Main has asked for
  currentL1Head, blocks, up,   \* the enclave
  faults        \* how many there were

hostVars == <<repoHead, at, block, lock, reported>>
enclaveVars == <<currentL1Head, blocks, up>>
vars == <<trackerVars, l1Head, liveStream, hostVars, enclaveVars, faults>>

Goroutine == Block \cup {Main}

\* the block a goroutine starts with
Given(g) == IF g = Main THEN NoBlock ELSE g

Init ==
  /\ TrackerInit
  /\ l1Head = Root
  /\ liveStream = <<>>
  /\ repoHead = NoBlock
  /\ at = [g \in Goroutine |-> IF g = Main THEN "status" ELSE "none"]
  /\ block = [g \in Goroutine |-> Given(g)]
  /\ lock = NoBlock
  /\ reported = NoBlock
  /\ currentL1Head = Root
  /\ blocks = {Root}
  /\ up = TRUE
  /\ faults = 0

Goto(g, stage) == at' = [at EXCEPT ![g] = stage]

\* back to the caller: catchupWithL1 goes on, HandleBlock ends
Return(g) ==
  /\ Goto(g, IF g = Main THEN "fetch" ELSE "ended")
  /\ block' = [block EXCEPT ![g] = Given(g)]

\* mutant: a block that was not submitted counts as processed
FailMutant(g) == Goto(g, "processed") /\ UNCHANGED block

\* an error: mainLoop asks for the status again, HandleBlock ends
Fail(g) ==
  /\ Goto(g, IF g = Main THEN "status" ELSE "ended")
  /\ block' = [block EXCEPT ![g] = Given(g)]
-----------------------------------------------------------------------------
(* The L1 and the stream of its heads.                                      *)

\* the head moves to a higher block, maybe of another branch
NewL1Head(b) ==
  /\ Number[b] > Number[l1Head]
  /\ l1Head' = b
  /\ liveStream' = Append(liveStream, b)
  /\ UNCHANGED <<trackerVars, hostVars, enclaveVars, faults>>

\* the subscription dies with the headers on their way; resetLiveStream makes one
\* that yields the heads to come
StreamDies ==
  /\ liveStream # <<>>
  /\ liveStream' = <<>>
  /\ UNCHANGED <<trackerVars, l1Head, hostVars, enclaveVars, faults>>

\* streamLiveBlocks: record the head and start a handler, or none if BlockByHash fails
StreamBlock ==
  /\ liveStream # <<>>
  /\ repoHead' = Head(liveStream)
  /\ liveStream' = Tail(liveStream)
  /\ Goto(Head(liveStream), "spawned") \/ UNCHANGED at
  /\ UNCHANGED <<trackerVars, l1Head, block, lock, reported, enclaveVars, faults>>
-----------------------------------------------------------------------------
(* Guardian.HandleBlock.                                                    *)

Received(b) ==
  /\ at[b] = "spawned"
  /\ OnReceivedBlock(b)
  /\ Goto(b, "received")
  /\ UNCHANGED <<l1Head, liveStream, repoHead, block, lock, reported, enclaveVars, faults>>

\* a live block is ignored while the enclave catches up
IgnoreOrSubmit(b) ==
  /\ at[b] = "received"
  /\ Goto(b, IF InSyncWithL1 THEN "submit" ELSE "ended")
  /\ UNCHANGED <<trackerVars, l1Head, liveStream, repoHead, block, lock, reported, enclaveVars, faults>>
-----------------------------------------------------------------------------
(* Guardian.submitL1Block, in a handler or in the main loop.                *)

\* TryLock: a block is dropped while the enclave is busy
TryLock(g) ==
  /\ at[g] = "submit"
  /\ \/ lock = NoBlock /\ lock' = g /\ Goto(g, "call") /\ UNCHANGED block
     \/ lock # NoBlock /\ UNCHANGED lock /\ Return(g)
  /\ UNCHANGED <<trackerVars, l1Head, liveStream, repoHead, reported, enclaveVars, faults>>

\* ingestBlock says ErrBlockAlreadyProcessed
AlreadyProcessed(b) ==
  b = currentL1Head \/ (Parent[b] # currentL1Head /\ b \in Anc[currentL1Head])

\* ... or ErrBlockAncestorNotFound
AncestorMissing(b) ==
  Parent[b] # currentL1Head /\ ~(Anc[b] \ {b} \subseteq blocks)

\* FetchBlockByHeight of the block after b
Above(b) == {c \in Anc[l1Head] : Number[c] = Number[b] + 1}

Fault == faults < MaxFaults /\ faults' = faults + 1

Ingest(b) == currentL1Head' = b /\ blocks' = blocks \cup {b}

\* FetchObscuroReceipts and the enclave's call, which the lock guards: the block is
\* processed, was processed before, is refused, or one of the calls fails, the
\* enclave's maybe after it has processed the block
SubmitL1Block(g) ==
  LET b == block[g]
      Accepted == up /\ ~AlreadyProcessed(b) /\ ~AncestorMissing(b)
  IN
  /\ at[g] = "call"
  /\ lock' = NoBlock
  /\ \/ /\ Accepted
        /\ Ingest(b)
        /\ Goto(g, "processed")
        /\ UNCHANGED <<block, faults>>
     \/ /\ up /\ AlreadyProcessed(b)
        /\ \E c \in Above(b) : block' = [block EXCEPT ![g] = c] /\ Goto(g, "submit")
        /\ UNCHANGED <<currentL1Head, blocks, faults>>
     \/ /\ ~up \/ (AlreadyProcessed(b) /\ Above(b) = {}) \/ (~AlreadyProcessed(b) /\ AncestorMissing(b))
        /\ Fail(g)
        /\ UNCHANGED <<currentL1Head, blocks, faults>>
     \/ /\ Fault
        /\ UNCHANGED <<currentL1Head, blocks>> \/ (Accepted /\ Ingest(b))
        /\ Fail(g)
  /\ UNCHANGED <<trackerVars, l1Head, liveStream, repoHead, reported, up>>

\* the rest of submitL1Block: tell the tracker
BlockProcessed(g) ==
  /\ at[g] = "processed"
  /\ OnProcessedBlock(block[g])
  /\ Return(g)
  /\ UNCHANGED <<l1Head, liveStream, repoHead, lock, reported, enclaveVars, faults>>
-----------------------------------------------------------------------------
(* Guardian.mainLoop.                                                       *)

\* checkEnclaveStatus, the call
CallStatus ==
  /\ at[Main] = "status"
  /\ \/ up /\ reported' = currentL1Head /\ Goto(Main, "report") /\ UNCHANGED trackerVars
     \/ ~up /\ OnDisconnected /\ UNCHANGED <<reported, at>>
  /\ UNCHANGED <<l1Head, liveStream, repoHead, block, lock, enclaveVars, faults>>

\* checkEnclaveStatus, the answer, and the switch on the new status
ReportStatus ==
  /\ at[Main] = "report"
  /\ OnEnclaveStatus("Running", reported, hostL2Head)
  /\ Goto(Main, IF status' = "L1Catchup" THEN "fetch" ELSE "status")
  /\ reported' = NoBlock
  /\ UNCHANGED <<l1Head, liveStream, repoHead, block, lock, enclaveVars, faults>>

\* latestCanonAncestor
LatestCanonAncestor(b) ==
  CHOOSE a \in Anc[b] \cap Anc[l1Head] : \A c \in Anc[b] \cap Anc[l1Head] : Number[c] <= Number[a]

\* Repository.FetchNextBlock of the enclave's head: the block that comes next, or
\* none (ErrNoNextBlock)
FetchNextBlock ==
  IF enclaveL1Head = repoHead THEN {} ELSE Above(LatestCanonAncestor(enclaveL1Head))

\* one turn of catchupWithL1
CatchupWithL1 ==
  /\ at[Main] = "fetch"
  /\ \/ /\ status = "L1Catchup"
        /\ \E b \in FetchNextBlock : block' = [block EXCEPT ![Main] = b] /\ Goto(Main, "submit")
        /\ UNCHANGED faults
     \/ /\ \/ (status # "L1Catchup" \/ FetchNextBlock = {}) /\ UNCHANGED faults
           \/ status = "L1Catchup" /\ Fault
        /\ Goto(Main, "status")
        /\ UNCHANGED block
  /\ UNCHANGED <<trackerVars, l1Head, liveStream, repoHead, lock, reported, enclaveVars>>
-----------------------------------------------------------------------------
\* The enclave's process stops and starts; its tables and its head survive.
EnclaveStops ==
  /\ up
  /\ up' = FALSE
  /\ Fault
  /\ UNCHANGED <<trackerVars, l1Head, liveStream, hostVars, currentL1Head, blocks>>

EnclaveStarts ==
  /\ ~up
  /\ up' = TRUE
  /\ UNCHANGED <<trackerVars, l1Head, liveStream, hostVars, currentL1Head, blocks, faults>>
-----------------------------------------------------------------------------
Submit(g) == TryLock(g) \/ SubmitL1Block(g) \/ BlockProcessed(g)

MainLoop == CallStatus \/ ReportStatus \/ CatchupWithL1 \/ Submit(Main)

HandleBlock(b) == Received(b) \/ IgnoreOrSubmit(b) \/ Submit(b)

Environment == (\E b \in Block : NewL1Head(b)) \/ StreamDies \/ EnclaveStops \/ EnclaveStarts

Next == Environment \/ StreamBlock \/ MainLoop \/ \E b \in Block : HandleBlock(b)

\* every goroutine runs (a handler takes finitely many steps, so no handler can
\* keep the others from running), and the enclave is started again
Fairness ==
  /\ WF_vars(EnclaveStarts)
  /\ WF_vars(MainLoop)
  /\ WF_vars(\E b \in Block : HandleBlock(b))

Spec == Init /\ [][Next]_vars /\ Fairness
-----------------------------------------------------------------------------
TypeOK ==
  /\ status \in Status
  /\ {enclaveL1Head, hostL1Head, repoHead, lock, reported} \subseteq Goroutine \cup {NoBlock}
  /\ l1Head \in Block /\ currentL1Head \in blocks
  /\ blocks \subseteq Block
  /\ at[Main] \in {"status", "report", "fetch", "submit", "call", "processed"}
  /\ \A b \in Block : at[b] \in {"none", "spawned", "received", "submit", "call", "processed", "ended"}
  /\ up \in BOOLEAN /\ faults \in 0 .. MaxFaults

\* The tracker never takes the enclave to be at a block it has not stored, though
\* the main loop and the handlers report to it in any order and submissions are
\* refused, skipped forward (ErrBlockAlreadyProcessed) or lost on the way
\* (FetchNextBlock goes on from that block, and the blocks below it are never
\* submitted).
NeverAhead == enclaveL1Head \in blocks \cup {NoBlock}


\* "InSyncWithL1 returns true if the enclave is up-to-date with L1 data": it does
\* not stay in sync with an L1 that has more blocks.  It does where the header of
\* the head is lost, its block cannot be fetched, or its handler runs before one
\* of an older block.
InSyncMeansUpToDate == <>[](InSyncWithL1 => currentL1Head = l1Head)
=============================================================================
