-------------------------- MODULE GuardianL1Proofs --------------------------
(***************************************************************************)
(* Whatever the handlers of live blocks and the main loop submit, in       *)
(* whatever order and whatever fails: the tracker never takes the enclave  *)
(* to be at a block it has not stored, and two goroutines never submit a   *)
(* block at the same time.  For any tree of L1 blocks.                     *)
(***************************************************************************)
EXTENDS GuardianL1, TLAPS

Stage == {"none", "spawned", "received", "status", "report", "fetch", "submit", "call", "processed", "ended"}

\* What goroutines and the stream hold are blocks.
Blocks ==
  /\ at \in [Goroutine -> Stage]
  /\ block \in [Goroutine -> Block \cup {NoBlock}]
  /\ \A g \in Goroutine : at[g] \in {"submit", "call", "processed"} => block[g] \in Block
  /\ \A b \in Block : block[b] \in Block
  /\ liveStream \in Seq(Block)
  /\ enclaveStatusCode = "Running"

\* The lock is held during the call of the enclave, and then only: two submissions
\* of blocks are never in the enclave at the same time.
Exclusive == \A g \in Goroutine : at[g] = "call" <=> lock = g

\* Every live block has one handler: a head that arrives is higher than all before.
OneHandler ==
  /\ \A i \in 1 .. Len(liveStream) :
       /\ at[liveStream[i]] = "none" /\ Number[liveStream[i]] <= Number[l1Head]
       /\ \A j \in 1 .. Len(liveStream) : i < j => liveStream[i] # liveStream[j]
  /\ \A b \in Block : at[b] # "none" => Number[b] <= Number[l1Head]

\* What is on its way to the tracker is a block the enclave has stored.
Believed ==
  /\ NeverAhead
  /\ reported \in blocks \cup {NoBlock}
  /\ \A g \in Goroutine : at[g] = "processed" => block[g] \in blocks

IInv == TypeOK /\ Blocks /\ OneHandler /\ Exclusive /\ Believed
-----------------------------------------------------------------------------
\* Goroutines and blocks.
LEMMA Goroutines ==
  /\ Main \notin Block /\ Main \in Goroutine /\ Block \subseteq Goroutine
  /\ NoBlock \notin Goroutine /\ NoBlock \notin Block /\ Root \in Block
  /\ \A b \in Block : Number[b] \in Nat
BY GuardianAssumption, HeadersAssumption DEF Goroutine

\* A goroutine moves on, the others stay where they are.
LEMMA Moved ==
  ASSUME at \in [Goroutine -> Stage], NEW g \in Goroutine, NEW s \in Stage, Goto(g, s)
  PROVE  /\ at' \in [Goroutine -> Stage] /\ at'[g] = s
         /\ \A h \in Goroutine : h # g => at'[h] = at[h]
BY DEF Goto

\* A goroutine takes a block, the others keep theirs.
LEMMA TakesBlock ==
  ASSUME Blocks, NEW g \in Goroutine, NEW v \in Block \cup {NoBlock}, g \in Block => v \in Block,
         UNCHANGED block \/ block' = [block EXCEPT ![g] = v]
  PROVE  /\ block' \in [Goroutine -> Block \cup {NoBlock}] /\ \A b \in Block : block'[b] \in Block
         /\ block'[g] \in {v, block[g]}
         /\ \A h \in Goroutine : h # g => block'[h] = block[h]
<1>1. block \in [Goroutine -> Block \cup {NoBlock}] /\ \A b \in Block : block[b] \in Block
  BY DEF Blocks
<1>2. CASE UNCHANGED block
  BY Zenon, <1>1, <1>2
<1>3. CASE block' = [block EXCEPT ![g] = v]
  <2>1. block' \in [Goroutine -> Block \cup {NoBlock}] /\ \A h \in Goroutine : block'[h] = IF h = g THEN v ELSE block[h]
    BY <1>1, <1>3
  <2> QED
    BY <1>1, <2>1, Goroutines
<1> QED
  BY Zenon, <1>2, <1>3

\* The block a goroutine starts with.
LEMMA GivenBlock ==
  \A g \in Goroutine : Given(g) \in Block \cup {NoBlock} /\ (g \in Block => Given(g) \in Block)
BY Goroutines DEF Given, Goroutine

\* What the tracker is told while the enclave runs.
LEMMA TrackerTold ==
  ASSUME NEW l1, NEW l2, Told("Running", l1, l2)
  PROVE  /\ status' \in Status /\ enclaveStatusCode' = "Running"
         /\ enclaveL1Head' = l1 /\ hostL1Head' = hostL1Head
<1>1. CalculateStatus("Running", l1, l2, hostL1Head, hostL2Head) \in Status
  BY DEF CalculateStatus, Status
<1> QED
  BY <1>1 DEF Told

\* The blocks above are on the L1.
LEMMA AboveFacts ==
  ASSUME TypeOK, NEW b, NEW c \in Above(b)
  PROVE  c \in Block
BY AncestorsAssumption DEF TypeOK, Above
-----------------------------------------------------------------------------
(* Every step keeps the invariant.                                           *)

\* The host and the enclave start with the invariant.
LEMMA InitKeeps == Init => IInv
<1> SUFFICES ASSUME Init PROVE IInv
  OBVIOUS
<1>1. /\ at \in [Goroutine -> Stage] /\ at[Main] = "status" /\ \A b \in Block : at[b] = "none"
      /\ block \in [Goroutine -> Block \cup {NoBlock}] /\ \A b \in Block : block[b] = b
  BY Goroutines DEF Init, Stage, Given, Goroutine
<1>2. TypeOK
  BY <1>1, Goroutines, GuardianAssumption DEF Init, TrackerInit, TypeOK, Status
<1>3. Blocks /\ Believed
  <2>1. \A g \in Goroutine : at[g] \in {"status", "none"}
    BY <1>1 DEF Goroutine
  <2>2. liveStream \in Seq(Block) /\ enclaveStatusCode = "Running"
    BY DEF Init, TrackerInit
  <2>3. enclaveL1Head = NoBlock /\ reported = NoBlock
    BY DEF Init, TrackerInit
  <2> QED
    BY <1>1, <2>1, <2>2, <2>3 DEF Blocks, Believed, NeverAhead
<1>4. OneHandler
  BY <1>1 DEF Init, OneHandler
<1>5. Exclusive
  <2>1. \A g \in Goroutine : at[g] # "call" /\ g # NoBlock
    BY <1>1, Goroutines DEF Goroutine
  <2> QED
    BY <2>1 DEF Init, Exclusive
<1> QED
  BY <1>2, <1>3, <1>4, <1>5 DEF IInv

\* The L1 has a new head.
LEMMA NewHeadKeeps ==
  ASSUME IInv, NEW b \in Block, NewL1Head(b)
  PROVE  IInv'
<1>1. /\ Number[b] > Number[l1Head] /\ l1Head' = b /\ liveStream' = Append(liveStream, b)
      /\ UNCHANGED <<trackerVars, hostVars, enclaveVars, faults>>
  BY DEF NewL1Head
<1>2. l1Head \in Block /\ liveStream \in Seq(Block) /\ \A c \in Block : Number[c] \in Nat
  BY Goroutines DEF IInv, TypeOK, Blocks
<1>3. /\ liveStream' \in Seq(Block) /\ Len(liveStream') = Len(liveStream) + 1 /\ Len(liveStream) \in Nat
      /\ liveStream'[Len(liveStream) + 1] = b /\ \A i \in 1 .. Len(liveStream) : liveStream'[i] = liveStream[i]
  BY <1>1, <1>2
<1>4. TypeOK' /\ Blocks' /\ Exclusive' /\ Believed'
  BY <1>1, <1>3 DEF IInv, TypeOK, Blocks, Exclusive, Believed, NeverAhead, trackerVars, hostVars, enclaveVars
<1>5. \A c \in Block : Number[c] <= Number[l1Head] => c # b /\ Number[c] <= Number[b]
  BY <1>1, <1>2
<1>6. \A i \in 1 .. Len(liveStream) : liveStream[i] \in Block /\ Number[liveStream[i]] <= Number[l1Head]
  BY <1>2 DEF IInv, OneHandler
<1>7. OneHandler'
  <2>1. \A i \in 1 .. Len(liveStream') : i \in 1 .. Len(liveStream) \/ i = Len(liveStream) + 1
    BY <1>3
  <2>2. at[b] = "none" /\ Number[b] <= Number[b]
    BY <1>2, <1>5 DEF IInv, OneHandler
  <2>3. ASSUME NEW i \in 1 .. Len(liveStream')
        PROVE  /\ at[liveStream'[i]] = "none" /\ Number[liveStream'[i]] <= Number[b]
               /\ \A j \in 1 .. Len(liveStream') : i < j => liveStream'[i] # liveStream'[j]
    <3>1. CASE i \in 1 .. Len(liveStream)
      BY <1>3, <1>5, <1>6, <2>1, <3>1 DEF IInv, OneHandler
    <3>2. CASE i = Len(liveStream) + 1
      BY <1>3, <2>2, <3>2
    <3> QED
      BY <2>1, <3>1, <3>2
  <2>4. \A c \in Block : at[c] # "none" => Number[c] <= Number[b]
    BY <1>5 DEF IInv, OneHandler
  <2> QED
    BY <1>1, <2>3, <2>4 DEF OneHandler, hostVars
<1> QED
  BY <1>4, <1>7 DEF IInv

\* The stream dies.
LEMMA StreamDiesKeeps ==
  ASSUME IInv, StreamDies
  PROVE  IInv'
<1>1. liveStream' = <<>> /\ UNCHANGED <<trackerVars, l1Head, hostVars, enclaveVars, faults>>
  BY DEF StreamDies
<1>2. liveStream' \in Seq(Block) /\ Len(liveStream') = 0
  BY <1>1
<1> QED
  BY <1>1, <1>2 DEF IInv, TypeOK, Blocks, OneHandler, Exclusive, Believed, NeverAhead, trackerVars, hostVars, enclaveVars

\* The stream starts the handler of a live block, or loses the block.
LEMMA StreamKeeps ==
  ASSUME IInv, StreamBlock
  PROVE  IInv'
<1> DEFINE b == Head(liveStream)
<1>1. /\ liveStream # <<>> /\ repoHead' = b /\ liveStream' = Tail(liveStream)
      /\ Goto(b, "spawned") \/ UNCHANGED at
      /\ UNCHANGED <<trackerVars, l1Head, block, lock, reported, enclaveVars, faults>>
  BY DEF StreamBlock
<1>2. liveStream \in Seq(Block)
  BY DEF IInv, Blocks
<1>3. /\ b = liveStream[1] /\ 1 \in 1 .. Len(liveStream) /\ b \in Block
      /\ liveStream' \in Seq(Block)
      /\ \A i \in 1 .. Len(liveStream') :
           /\ i + 1 \in 1 .. Len(liveStream) /\ 1 < i + 1 /\ liveStream'[i] = liveStream[i + 1]
           /\ liveStream'[i] \in Block
  BY <1>1, <1>2
<1>4. at[b] = "none" /\ Number[b] <= Number[l1Head]
  BY <1>3 DEF IInv, OneHandler
<1> HIDE DEF b
<1>5. /\ at' \in [Goroutine -> Stage] /\ at'[b] \in {"none", "spawned"}
      /\ \A h \in Goroutine : h # b => at'[h] = at[h]
  <2>1. "spawned" \in Stage /\ b \in Goroutine /\ at \in [Goroutine -> Stage]
    BY <1>3, Goroutines DEF Stage, IInv, Blocks
  <2>2. CASE Goto(b, "spawned")
    BY <2>1, <2>2, Moved
  <2>3. CASE UNCHANGED at
    BY <1>4, <2>1, <2>3
  <2> QED
    BY <1>1, <2>2, <2>3
<1>6. TypeOK'
  BY <1>1, <1>3, <1>5, Goroutines DEF IInv, TypeOK, trackerVars, enclaveVars
<1>7. Blocks'
  BY <1>1, <1>3, <1>5 DEF IInv, Blocks, trackerVars
<1>8. OneHandler'
  <2>1. ASSUME NEW i \in 1 .. Len(liveStream')
        PROVE  /\ at'[liveStream'[i]] = "none" /\ Number[liveStream'[i]] <= Number[l1Head]
               /\ \A j \in 1 .. Len(liveStream') : i < j => liveStream'[i] # liveStream'[j]
    <3>1. liveStream'[i] # b
      BY <1>3 DEF IInv, OneHandler
    <3>2. at'[liveStream'[i]] = at[liveStream'[i]]
      BY <1>3, <1>5, <3>1, Goroutines
    <3> QED
      BY <1>3, <3>2 DEF IInv, OneHandler
  <2>2. \A c \in Block : at'[c] # "none" => Number[c] <= Number[l1Head]
    BY <1>4, <1>5, Goroutines DEF IInv, OneHandler
  <2> QED
    BY <1>1, <2>1, <2>2 DEF OneHandler
<1>9. Exclusive' /\ Believed'
  <2>1. \A g \in Goroutine : (at'[g] = "call" <=> at[g] = "call") /\ (at'[g] = "processed" => at[g] = "processed")
    BY <1>4, <1>5
  <2> QED
    BY <1>1, <2>1 DEF IInv, Exclusive, Believed, NeverAhead, enclaveVars, trackerVars
<1> QED
  BY <1>6, <1>7, <1>8, <1>9 DEF IInv

\* A handler that was started, or the main loop, moves on.
LEMMA GoroutineMoves ==
  ASSUME IInv, NEW g \in Goroutine, NEW s \in Stage \ {"none"}, Goto(g, s),
         at[g] # "none", UNCHANGED <<l1Head, liveStream>>,
         g = Main => s \in {"status", "report", "fetch", "submit", "call", "processed"},
         g # Main => s \in {"received", "submit", "call", "processed", "ended"}
  PROVE  /\ at' \in [Goroutine -> Stage] /\ at'[g] = s
         /\ \A h \in Goroutine : h # g => at'[h] = at[h]
         /\ at'[Main] \in {"status", "report", "fetch", "submit", "call", "processed"}
         /\ \A b \in Block : at'[b] \in {"none", "spawned", "received", "submit", "call", "processed", "ended"}
         /\ OneHandler'
<1>1. /\ at' \in [Goroutine -> Stage] /\ at'[g] = s
      /\ \A h \in Goroutine : h # g => at'[h] = at[h]
  BY Moved DEF IInv, Blocks
<1>2. Main \in Goroutine /\ Block \subseteq Goroutine /\ Main \notin Block
  BY Goroutines
<1>3. /\ at'[Main] \in {"status", "report", "fetch", "submit", "call", "processed"}
      /\ \A b \in Block : at'[b] \in {"none", "spawned", "received", "submit", "call", "processed", "ended"}
  BY <1>1, <1>2 DEF IInv, TypeOK
<1>4. OneHandler'
  <2>1. liveStream \in Seq(Block)
    BY DEF IInv, Blocks
  <2>2. ASSUME NEW i \in 1 .. Len(liveStream)
        PROVE  at'[liveStream[i]] = "none"
    <3>1. liveStream[i] \in Block /\ at[liveStream[i]] = "none"
      BY <2>1 DEF IInv, OneHandler
    <3> QED
      BY <1>1, <1>2, <3>1
  <2>3. \A b \in Block : at'[b] # "none" => at[b] # "none"
    BY <1>1, <1>2
  <2> QED
    BY <2>2, <2>3 DEF IInv, OneHandler
<1> QED
  BY <1>1, <1>3, <1>4

\* A handler records its block as the host's head.
LEMMA ReceivedKeeps ==
  ASSUME IInv, NEW b \in Block, Received(b)
  PROVE  IInv'
<1>1. /\ at[b] = "spawned" /\ Goto(b, "received") /\ hostL1Head' = b
      /\ UNCHANGED <<status, enclaveStatusCode, enclaveL1Head, l1Head, liveStream, repoHead, block, lock, reported, enclaveVars, faults>>
  BY DEF Received, OnReceivedBlock
<1>2. b \in Goroutine /\ b # Main
  BY Goroutines
<1>3. /\ at' \in [Goroutine -> Stage] /\ at'[b] = "received"
      /\ \A h \in Goroutine : h # b => at'[h] = at[h]
      /\ at'[Main] \in {"status", "report", "fetch", "submit", "call", "processed"}
      /\ \A c \in Block : at'[c] \in {"none", "spawned", "received", "submit", "call", "processed", "ended"}
      /\ OneHandler'
  <2>1. "received" \in Stage \ {"none"}
    BY DEF Stage
  <2> QED
    BY <1>1, <1>2, <2>1, GoroutineMoves
<1>4. TypeOK'
  BY <1>1, <1>2, <1>3 DEF IInv, TypeOK, enclaveVars
<1>5. Blocks'
  BY <1>1, <1>3 DEF IInv, Blocks
<1>6. Exclusive' /\ Believed'
  BY <1>1, <1>2, <1>3 DEF IInv, Exclusive, Believed, NeverAhead, enclaveVars
<1> QED
  BY <1>3, <1>4, <1>5, <1>6 DEF IInv

\* It goes on to submit the block, or ignores it.
LEMMA IgnoreOrSubmitKeeps ==
  ASSUME IInv, NEW b \in Block, IgnoreOrSubmit(b)
  PROVE  IInv'
<1>1. /\ at[b] = "received"
      /\ UNCHANGED <<trackerVars, l1Head, liveStream, repoHead, block, lock, reported, enclaveVars, faults>>
  BY DEF IgnoreOrSubmit
<1>2. b \in Goroutine /\ b # Main
  BY Goroutines
<1>3. PICK s \in {"submit", "ended"} : Goto(b, s)
  BY Zenon DEF IgnoreOrSubmit
<1>4. /\ at' \in [Goroutine -> Stage] /\ at'[b] = s
      /\ \A h \in Goroutine : h # b => at'[h] = at[h]
      /\ at'[Main] \in {"status", "report", "fetch", "submit", "call", "processed"}
      /\ \A c \in Block : at'[c] \in {"none", "spawned", "received", "submit", "call", "processed", "ended"}
      /\ OneHandler'
  <2>1. s \in Stage \ {"none"}
    BY Zenon DEF Stage
  <2> QED
    BY <1>1, <1>2, <1>3, <2>1, GoroutineMoves
<1>5. TypeOK'
  BY <1>1, <1>4 DEF IInv, TypeOK, trackerVars, enclaveVars
<1>6. Blocks'
  BY <1>1, <1>4 DEF IInv, Blocks, trackerVars
<1>7. Exclusive' /\ Believed'
  BY <1>1, <1>2, <1>4 DEF IInv, Exclusive, Believed, NeverAhead, enclaveVars, trackerVars
<1> QED
  BY <1>4, <1>5, <1>6, <1>7 DEF IInv

\* A goroutine takes submitDataLock for its call, or drops its block.
LEMMA TryLockKeeps ==
  ASSUME IInv, NEW g \in Goroutine, TryLock(g)
  PROVE  IInv'
<1>1. at[g] = "submit" /\ UNCHANGED <<trackerVars, l1Head, liveStream, repoHead, reported, enclaveVars, faults>>
  BY DEF TryLock
<1>2. NoBlock \notin Goroutine
  BY Goroutines
<1>3. PICK s \in Stage \ {"none"} :
        /\ Goto(g, s) /\ s = IF lock = NoBlock THEN "call" ELSE IF g = Main THEN "fetch" ELSE "ended"
  BY DEF TryLock, Return, Stage
<1>4. lock' = IF lock = NoBlock THEN g ELSE lock
  BY DEF TryLock
<1>5. /\ at' \in [Goroutine -> Stage] /\ at'[g] = s
      /\ \A h \in Goroutine : h # g => at'[h] = at[h]
      /\ at'[Main] \in {"status", "report", "fetch", "submit", "call", "processed"}
      /\ \A c \in Block : at'[c] \in {"none", "spawned", "received", "submit", "call", "processed", "ended"}
      /\ OneHandler'
  BY <1>1, <1>3, GoroutineMoves
<1>6. TypeOK'
  BY <1>1, <1>4, <1>5 DEF IInv, TypeOK, trackerVars, enclaveVars
<1>7. Blocks'
  <2>1. UNCHANGED block \/ block' = [block EXCEPT ![g] = Given(g)]
    BY DEF TryLock, Return
  <2>2. /\ block' \in [Goroutine -> Block \cup {NoBlock}] /\ \A b \in Block : block'[b] \in Block
        /\ \A h \in Goroutine : h # g => block'[h] = block[h]
    BY <2>1, GivenBlock, TakesBlock DEF IInv
  <2>3. s = "call" => UNCHANGED block
    BY <1>3, <1>5 DEF TryLock, Return, Goto, IInv, Blocks
  <2> QED
    BY <1>1, <1>3, <1>5, <2>2, <2>3 DEF IInv, Blocks, trackerVars
<1>8. Exclusive'
  BY Zenon, <1>1, <1>2, <1>3, <1>4, <1>5 DEF IInv, Exclusive
<1>9. Believed'
  <2>1. \A h \in Goroutine : at'[h] = "processed" => at[h] = "processed" /\ block'[h] = block[h]
    BY <1>3, <1>5, GivenBlock, TakesBlock DEF IInv, TryLock, Return
  <2> QED
    BY <1>1, <2>1 DEF IInv, Believed, NeverAhead, enclaveVars, trackerVars
<1> QED
  BY <1>5, <1>6, <1>7, <1>8, <1>9 DEF IInv

\* Faults are counted up to their bound.
LEMMA FaultCounted ==
  ASSUME TypeOK, UNCHANGED faults \/ Fault
  PROVE  faults' \in 0 .. MaxFaults
BY GuardianAssumption DEF TypeOK, Fault

\* The calls of the L1 and of the enclave.
LEMMA SubmitKeeps ==
  ASSUME IInv, NEW g \in Goroutine, SubmitL1Block(g)
  PROVE  IInv'
<1>1. /\ at[g] = "call" /\ lock' = NoBlock
      /\ UNCHANGED <<trackerVars, l1Head, liveStream, repoHead, reported, up>>
      /\ UNCHANGED faults \/ Fault
  BY DEF SubmitL1Block
<1>2. PICK b \in Block : b = block[g]
  BY Zenon, <1>1 DEF IInv, Blocks
<1> DEFINE Outcome(s, v) ==
             /\ Goto(g, s) /\ (g \in Block => v \in Block)
             /\ UNCHANGED <<currentL1Head, blocks>> \/ Ingest(b)
             /\ UNCHANGED block \/ block' = [block EXCEPT ![g] = v]
             /\ \/ s = "processed" /\ UNCHANGED block /\ Ingest(b)
                \/ s = "submit" /\ v \in Block /\ block' = [block EXCEPT ![g] = v]
                \/ s = IF g = Main THEN "status" ELSE "ended"
<1>3. PICK s \in Stage \ {"none"}, v \in Block \cup {NoBlock} : Outcome(s, v)
  <2>0. {"processed", "submit", "status", "ended"} \subseteq Stage \ {"none"}
    BY DEF Stage
  <2>1. CASE Ingest(b) /\ Goto(g, "processed") /\ UNCHANGED block
    <3>1. Outcome("processed", b)
      BY Zenon, <2>1
    <3> QED
      BY Zenon, <2>0, <3>1
  <2>2. ASSUME NEW c \in Above(b), block' = [block EXCEPT ![g] = c], Goto(g, "submit"), UNCHANGED <<currentL1Head, blocks>>
        PROVE  \E s \in Stage \ {"none"}, v \in Block \cup {NoBlock} : Outcome(s, v)
    <3>1. c \in Block
      BY Zenon, AboveFacts DEF IInv
    <3>2. Outcome("submit", c)
      BY Zenon, <2>2, <3>1
    <3> QED
      BY Zenon, <2>0, <3>1, <3>2
  <2>3. CASE Fail(g) /\ (UNCHANGED <<currentL1Head, blocks>> \/ Ingest(b))
    <3>1. PICK s \in {"status", "ended"} : s = IF g = Main THEN "status" ELSE "ended"
      BY Zenon
    <3>2. Outcome(s, Given(g))
      BY Zenon, <2>3, <3>1, GivenBlock DEF Fail
    <3> QED
      BY Zenon, <2>0, <3>2, GivenBlock
  <2> QED
    BY Zenon, <1>2, <2>1, <2>2, <2>3 DEF SubmitL1Block
<1>4. /\ at' \in [Goroutine -> Stage] /\ at'[g] = s
      /\ \A h \in Goroutine : h # g => at'[h] = at[h]
      /\ at'[Main] \in {"status", "report", "fetch", "submit", "call", "processed"}
      /\ \A c \in Block : at'[c] \in {"none", "spawned", "received", "submit", "call", "processed", "ended"}
      /\ OneHandler'
  BY Zenon, <1>1, <1>3, GoroutineMoves
<1>5. /\ blocks \subseteq blocks' /\ blocks' \subseteq Block /\ currentL1Head' \in blocks'
  BY Zenon, <1>3 DEF IInv, TypeOK, Ingest
<1>6. TypeOK'
  BY <1>1, <1>4, <1>5, FaultCounted DEF IInv, TypeOK, trackerVars
<1>7. /\ block' \in [Goroutine -> Block \cup {NoBlock}] /\ \A c \in Block : block'[c] \in Block
      /\ block'[g] \in {v, b}
      /\ \A h \in Goroutine : h # g => block'[h] = block[h]
  BY Zenon, <1>2, <1>3, TakesBlock DEF IInv
<1>8. Blocks'
  BY <1>1, <1>3, <1>4, <1>7 DEF IInv, Blocks, trackerVars
<1>9. Exclusive'
  <2>1. \A h \in Goroutine : at'[h] # "call" /\ h # NoBlock
    BY <1>1, <1>3, <1>4, Goroutines DEF IInv, Exclusive
  <2> QED
    BY Zenon, <1>1, <2>1 DEF Exclusive
<1>10. Believed'
  <2>1. s = "processed" => block'[g] \in blocks'
    BY <1>2, <1>3 DEF Ingest
  <2>2. \A h \in Goroutine : at'[h] = "processed" => block'[h] \in blocks'
    BY Zenon, <1>4, <1>5, <1>7, <2>1 DEF IInv, Believed
  <2> QED
    BY Zenon, <1>1, <1>5, <2>2 DEF IInv, Believed, NeverAhead, trackerVars
<1> QED
  BY Zenon, <1>4, <1>6, <1>8, <1>9, <1>10 DEF IInv

\* The tracker hears that the enclave has processed a block.
LEMMA ProcessedKeeps ==
  ASSUME IInv, NEW g \in Goroutine, BlockProcessed(g)
  PROVE  IInv'
<1>1. /\ at[g] = "processed" /\ block[g] \in Block
      /\ block' = [block EXCEPT ![g] = Given(g)]
      /\ UNCHANGED <<l1Head, liveStream, repoHead, lock, reported, enclaveVars, faults>>
  BY DEF BlockProcessed, Return, IInv, Blocks
<1>2. /\ status' \in Status /\ enclaveStatusCode' = "Running"
      /\ enclaveL1Head' = block[g] /\ hostL1Head' = hostL1Head
  <2>1. Told("Running", block[g], enclaveL2Head)
    BY DEF BlockProcessed, OnProcessedBlock, IInv, Blocks
  <2> QED
    BY <2>1, TrackerTold
<1>3. PICK s \in Stage \ {"none"} : Goto(g, s) /\ s = IF g = Main THEN "fetch" ELSE "ended"
  BY Zenon DEF BlockProcessed, Return, Stage
<1>4. /\ at' \in [Goroutine -> Stage] /\ at'[g] = s
      /\ \A h \in Goroutine : h # g => at'[h] = at[h]
      /\ at'[Main] \in {"status", "report", "fetch", "submit", "call", "processed"}
      /\ \A c \in Block : at'[c] \in {"none", "spawned", "received", "submit", "call", "processed", "ended"}
      /\ OneHandler'
  BY Zenon, <1>1, <1>3, GoroutineMoves
<1>5. TypeOK'
  BY <1>1, <1>2, <1>4, Goroutines DEF IInv, TypeOK, enclaveVars
<1>8. /\ block' \in [Goroutine -> Block \cup {NoBlock}] /\ \A b \in Block : block'[b] \in Block
      /\ \A h \in Goroutine : h # g => block'[h] = block[h]
  BY <1>1, GivenBlock, TakesBlock DEF IInv
<1>6. Blocks'
  BY Zenon, <1>1, <1>2, <1>3, <1>4, <1>8 DEF IInv, Blocks
<1>7. Exclusive' /\ Believed'
  <2>1. block[g] \in blocks /\ \A h \in Goroutine : at'[h] = "processed" => at[h] = "processed" /\ block'[h] = block[h]
    BY <1>1, <1>3, <1>4, <1>8 DEF IInv, Believed
  <2>2. Exclusive'
    BY Zenon, <1>1, <1>3, <1>4 DEF IInv, Exclusive
  <2>3. Believed'
    BY <1>1, <1>2, <2>1 DEF IInv, Believed, NeverAhead, enclaveVars
  <2> QED
    BY <2>2, <2>3
<1> QED
  BY <1>4, <1>5, <1>6, <1>7 DEF IInv

\* The main loop asks for the status, tells the tracker, and fetches a block.
LEMMA MainKeeps ==
  ASSUME IInv, CallStatus \/ ReportStatus \/ CatchupWithL1
  PROVE  IInv'
<1>1. /\ at[Main] \in {"status", "report", "fetch"}
      /\ UNCHANGED <<l1Head, liveStream, repoHead, lock, enclaveVars>>
      /\ UNCHANGED faults \/ Fault
  BY DEF CallStatus, ReportStatus, CatchupWithL1
<1>2. Main \in Goroutine /\ Block \subseteq Goroutine
  BY Zenon, Goroutines
<1>3. PICK s \in {"status", "report", "fetch", "submit"} :
        \/ Goto(Main, s)
        \/ at' = at /\ s = at[Main]
  BY <1>1 DEF CallStatus, ReportStatus, CatchupWithL1
<1>4. /\ at' \in [Goroutine -> Stage] /\ at'[Main] = s
      /\ \A h \in Goroutine : h # Main => at'[h] = at[h]
      /\ at'[Main] \in {"status", "report", "fetch", "submit", "call", "processed"}
      /\ \A c \in Block : at'[c] \in {"none", "spawned", "received", "submit", "call", "processed", "ended"}
      /\ OneHandler'
  <2>1. CASE Goto(Main, s)
    <3>1. s \in Stage \ {"none"}
      BY Zenon DEF Stage
    <3> QED
      BY <1>1, <1>2, <2>1, <3>1, GoroutineMoves
  <2>2. CASE at' = at /\ s = at[Main]
    BY <1>1, <2>2 DEF IInv, TypeOK, Blocks, OneHandler
  <2> QED
    BY Zenon, <1>3, <2>1, <2>2
<1>5. /\ status' \in Status /\ enclaveStatusCode' = "Running"
      /\ {enclaveL1Head', reported'} \subseteq blocks \cup {NoBlock} /\ hostL1Head' = hostL1Head
  <2>1. {enclaveL1Head, reported} \subseteq blocks \cup {NoBlock} /\ enclaveStatusCode = "Running" /\ status \in Status
    BY DEF IInv, TypeOK, Blocks, Believed, NeverAhead
  <2>2. CASE CallStatus
    <3>1. currentL1Head \in blocks
      BY Zenon, <1>2 DEF IInv, TypeOK
    <3> QED
      BY Zenon, <2>1, <2>2, <3>1 DEF CallStatus, OnDisconnected, trackerVars, Status
  <2>3. CASE ReportStatus
    <3>1. PICK h \in blocks \cup {NoBlock} : Told("Running", h, hostL2Head)
      BY <2>1, <2>3 DEF ReportStatus, OnEnclaveStatus
    <3>2. /\ status' \in Status /\ enclaveStatusCode' = "Running" /\ enclaveL1Head' = h /\ hostL1Head' = hostL1Head
      BY Zenon, <3>1, TrackerTold
    <3> QED
      BY <2>1, <2>3, <3>2 DEF ReportStatus
  <2>4. CASE CatchupWithL1
    BY <2>1, <2>4 DEF CatchupWithL1, trackerVars
  <2> QED
    BY <2>2, <2>3, <2>4
<1>6. /\ block' \in [Goroutine -> Block \cup {NoBlock}] /\ (s = "submit" => block'[Main] \in Block)
      /\ \A b \in Block : block'[b] \in Block
      /\ \A h \in Goroutine : h # Main => block'[h] = block[h]
  <2>1. \/ UNCHANGED block /\ s # "submit"
        \/ \E b \in FetchNextBlock : block' = [block EXCEPT ![Main] = b]
    BY <1>1, <1>2, <1>4 DEF CallStatus, ReportStatus, CatchupWithL1, Goto, IInv, Blocks
  <2>2. FetchNextBlock \subseteq Block
    BY Zenon, AboveFacts DEF FetchNextBlock, IInv
  <2> QED
    BY Zenon, <1>2, <2>1, <2>2, Goroutines DEF IInv, Blocks
<1>7. TypeOK'
  BY <1>1, <1>2, <1>4, <1>5, FaultCounted DEF IInv, TypeOK, enclaveVars
<1>8. Blocks'
  BY Zenon, <1>1, <1>3, <1>4, <1>5, <1>6 DEF IInv, Blocks
<1>9. Exclusive' /\ Believed'
  <2>1. \A h \in Goroutine : at'[h] = "processed" => at[h] = "processed" /\ block'[h] = block[h]
    BY <1>3, <1>4, <1>6
  <2> QED
    BY Zenon, <1>1, <1>3, <1>4, <1>5, <2>1 DEF IInv, Exclusive, Believed, NeverAhead, enclaveVars
<1> QED
  BY Zenon, <1>4, <1>7, <1>8, <1>9 DEF IInv

\* The enclave stops or starts.
LEMMA EnclaveKeeps ==
  ASSUME IInv, EnclaveStops \/ EnclaveStarts
  PROVE  IInv'
<1>1. /\ UNCHANGED <<trackerVars, l1Head, liveStream, hostVars, currentL1Head, blocks>>
      /\ up' \in BOOLEAN /\ (UNCHANGED faults \/ Fault)
  BY Zenon DEF EnclaveStops, EnclaveStarts
<1>2. faults' \in 0 .. MaxFaults
  BY <1>1, FaultCounted DEF IInv
<1> QED
  BY <1>1, <1>2 DEF IInv, TypeOK, Blocks, OneHandler, Exclusive, Believed, NeverAhead, trackerVars, hostVars
-----------------------------------------------------------------------------
(* The theorems.                                                             *)

\* Every step keeps the invariant.
LEMMA StepKeeps ==
  ASSUME IInv, [Next]_vars
  PROVE  IInv'
<1>1. Main \in Goroutine /\ Block \subseteq Goroutine
  BY Goroutines
<1>2. CASE Environment
  BY <1>2, NewHeadKeeps, StreamDiesKeeps, EnclaveKeeps DEF Environment
<1>3. CASE StreamBlock
  BY <1>3, StreamKeeps
<1>4. CASE MainLoop
  BY <1>1, <1>4, MainKeeps, TryLockKeeps, SubmitKeeps, ProcessedKeeps DEF MainLoop, Submit
<1>5. ASSUME NEW b \in Block, HandleBlock(b)
      PROVE  IInv'
  BY <1>1, <1>5, ReceivedKeeps, IgnoreOrSubmitKeeps, TryLockKeeps, SubmitKeeps, ProcessedKeeps DEF HandleBlock, Submit
<1>6. CASE UNCHANGED vars
  BY <1>6 DEF IInv, TypeOK, Blocks, OneHandler, Exclusive, Believed, NeverAhead, vars, trackerVars, hostVars, enclaveVars
<1> QED
  BY <1>2, <1>3, <1>4, <1>5, <1>6 DEF Next

\* The invariant holds of the host, in whatever order Go starts its handlers.
THEOREM Invariance == Spec => []IInv
<1>1. IInv /\ [Next]_vars => IInv'
  BY StepKeeps
<1> QED
  BY <1>1, InitKeeps, PTL DEF Spec

\* For any tree of L1 blocks and any number of faults, what OnProcessedBlock and
\* OnEnclaveStatus leave in the tracker is a block the enclave has stored, in
\* whatever order the goroutines submit, fail and report.
THEOREM NeverBelievedAhead == Spec => []NeverAhead
BY Invariance, PTL DEF IInv, Believed

\* submitDataLock does its work: two goroutines are never in the enclave's
\* SubmitL1Block at the same time, though the lock is taken by whoever comes first.
OneCall == \A g, h \in Goroutine : at[g] = "call" /\ at[h] = "call" => g = h

\* The lock around submitL1Block keeps the goroutines apart.
THEOREM SubmissionsAlternate == Spec => []OneCall
<1>1. IInv => OneCall
  BY DEF IInv, Exclusive, OneCall
<1> QED
  BY <1>1, Invariance, PTL
=============================================================================
