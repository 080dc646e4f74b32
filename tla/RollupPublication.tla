------------------------- MODULE RollupPublication -------------------------
(***************************************************************************)
(* How the sequencer's host gets rollups onto the L1: the loop of          *)
(* Guardian.periodicRollupProduction, Publisher.publishTransaction with    *)
(* its retries at a higher price, and the number of the last batch in the  *)
(* management contract, from which the next rollup starts.  Another        *)
(* goroutine of the host (secret responses) publishes through the same     *)
(* wallet.                                                                 *)
(*                                                                         *)
(* All attempts at one transaction have the same nonce.  The L1 is         *)
(* external: it mines one of the attempts with the next nonce, and a reorg *)
(* replaces up to MaxReorgDepth blocks; the transactions in the blocks     *)
(* that are replaced wait again.                                           *)
(***************************************************************************)
EXTENDS Integers, Sequences, FiniteSets, FiniteSetsExt

CONSTANTS
  RollupDelay,        \* L1 blocks left out of a rollup
  MaxRollupBatches,   \* the batches MaxRollupSize has room for
  MaxPriceIncreases,  \* _maxRetryPriceIncreases
  MaxReorgDepth,      \* how many blocks a reorg replaces
  MaxPending,         \* the transactions of one account the L1 node keeps
  MaxBatches,         \* bound: the number of batches
  MaxEmpty,           \* bound: L1 blocks without a transaction
  MaxTxs,             \* bound: transactions published
  MaxOthers,          \* bound: those of the other goroutine
  MaxReorgs,          \* bound
  MaxFaults           \* bound: calls that fail, restarts

\* A rollup leaves out the blocks a reorg may replace; it has room for more than
\* the genesis batch.
ASSUME PublicationAssumption ==
  /\ {RollupDelay, MaxPriceIncreases, MaxReorgDepth, MaxPending} \subseteq Nat
  /\ {MaxBatches, MaxEmpty, MaxTxs, MaxOthers, MaxReorgs, MaxFaults} \subseteq Nat
  /\ MaxReorgDepth <= RollupDelay
  /\ MaxRollupBatches \in Nat \ {0, 1}

VARIABLES
  chain,     \* the L1 blocks: the fork they were mined on, and the transaction or NoTx
  empty, reorgs, faults, others,
  pool,      \* by nonce the transactions that wait: the payload and the attempts at it
  proofs,    \* for each batch the number of its L1 block
  pc,        \* for each goroutine the call it is about to make
  payload,   \* for each goroutine what it publishes
  nonce,     \* local of publishTransaction
  retries    \* local of publishTransaction

l1Vars == <<chain, empty, reorgs, pool>>
hostVars == <<pc, payload, nonce, retries>>
vars == <<l1Vars, faults, others, proofs, hostVars>>

Goroutines == {"rollups", "others"}
L2GenesisSeqNo == 1
Other == [from |-> 0, to |-> 0, head |-> <<0, 0>>]
NoTx == [payload |-> Other, attempt |-> -1, nonce |-> -1]

\* createGenesisBatch makes the first two batches on one L1 block
Init ==
  /\ chain = <<[fork |-> 0, tx |-> NoTx]>>
  /\ empty = 0 /\ reorgs = 0 /\ faults = 0 /\ others = 0
  /\ pool = <<>>
  /\ proofs = <<1, 1>>
  /\ pc = [g \in Goroutines |-> "idle"]
  /\ payload = [g \in Goroutines |-> Other]
  /\ nonce = [g \in Goroutines |-> 0]
  /\ retries = [g \in Goroutines |-> 0]
-----------------------------------------------------------------------------
(* The L1, with the management contract.                                    *)

\* the nonce of the host's next transaction: how many it has on the chain
Mined == Cardinality({i \in 1 .. Len(chain) : chain[i].tx # NoTx})

\* ManagementContract.lastBatchSeqNo, which AppendRollup only ever raises
LastBatchSeqNo == Max({chain[i].tx.payload.to : i \in 1 .. Len(chain)})

\* ... and the one after those that wait
PendingNonce == Mined + Cardinality(DOMAIN pool)

MineTx ==
  /\ Mined \in DOMAIN pool
  /\ \E a \in pool[Mined].attempts :
       chain' = Append(chain, [fork |-> reorgs,
                               tx |-> [payload |-> pool[Mined].payload,
                                       attempt |-> a, nonce |-> Mined]])
  /\ pool' = [n \in DOMAIN pool \ {Mined} |-> pool[n]]
  /\ UNCHANGED <<empty, reorgs, faults, others, proofs, hostVars>>

MineEmpty ==
  /\ empty < MaxEmpty
  /\ empty' = empty + 1
  /\ chain' = Append(chain, [fork |-> reorgs, tx |-> NoTx])
  /\ UNCHANGED <<pool, reorgs, faults, others, proofs, hostVars>>

\* the blocks above n are replaced, the transactions in them wait again
Reorg ==
  /\ reorgs < MaxReorgs
  /\ reorgs' = reorgs + 1
  /\ \E n \in 1 .. Len(chain) - 1 :
       LET dropped == {i \in n + 1 .. Len(chain) : chain[i].tx # NoTx}
           back(k) == chain[CHOOSE i \in dropped : chain[i].tx.nonce = k].tx
       IN
       /\ Len(chain) - n <= MaxReorgDepth
       /\ chain' = [i \in 1 .. Len(chain) |->
                      IF i <= n THEN chain[i] ELSE [fork |-> reorgs + 1, tx |-> NoTx]]
       /\ pool' = [k \in DOMAIN pool \cup {chain[i].tx.nonce : i \in dropped} |->
                     IF k \in DOMAIN pool THEN pool[k]
                     ELSE [payload |-> back(k).payload, attempts |-> {back(k).attempt}]]
  /\ UNCHANGED <<empty, faults, others, proofs, hostVars>>

\* the enclave makes a batch on the L1 head
CreateBatch ==
  /\ Len(proofs) < MaxBatches
  /\ proofs' = Append(proofs, Len(chain))
  /\ UNCHANGED <<l1Vars, faults, others, hostVars>>
-----------------------------------------------------------------------------
(* What is published.                                                       *)

Return(g) ==
  /\ pc' = [pc EXCEPT ![g] = "idle"]
  /\ payload' = [payload EXCEPT ![g] = Other]
  /\ nonce' = [nonce EXCEPT ![g] = 0]
  /\ retries' = [retries EXCEPT ![g] = 0]

\* getLatestBatchNo, and the lower limit the RPC server puts on it
FromBatch ==
  LET from == IF LastBatchSeqNo > L2GenesisSeqNo THEN LastBatchSeqNo + 1 ELSE LastBatchSeqNo
  IN  IF from > L2GenesisSeqNo THEN from ELSE L2GenesisSeqNo

\* periodicRollupProduction: it is time for a rollup
GetLatestBatchNo ==
  /\ pc["rollups"] = "idle"
  /\ PendingNonce < MaxTxs
  /\ pc' = [pc EXCEPT !["rollups"] = "create"]
  /\ payload' = [payload EXCEPT !["rollups"].from = FromBatch]
  /\ UNCHANGED <<l1Vars, faults, others, proofs, nonce, retries>>

\* mutant: no L1 blocks are left out
UpToL1HeightMutant == Len(chain)

UpToL1Height == Len(chain) - RollupDelay

\* the last batch of a rollup from this one, 0 if there is none: those whose L1
\* block is deep enough, as many as there is room for
LastBatch(from) ==
  Max({0} \cup {to \in from .. Len(proofs) :
                  proofs[to] <= UpToL1Height /\ to < from + MaxRollupBatches})

\* CreateRollup in the enclave; without batches there is an error
CreateRollup ==
  LET from == payload["rollups"].from
      to == LastBatch(from)
  IN
  /\ pc["rollups"] = "create"
  /\ IF to = 0
       THEN Return("rollups")
       ELSE /\ payload' = [payload EXCEPT !["rollups"].to = to,
                             !["rollups"].head = <<UpToL1Height, chain[UpToL1Height].fork>>]
            /\ pc' = [pc EXCEPT !["rollups"] = "publish"]
            /\ UNCHANGED <<nonce, retries>>
  /\ UNCHANGED <<l1Vars, faults, others, proofs>>

\* a secret response
PublishOther ==
  /\ pc["others"] = "idle"
  /\ others < MaxOthers
  /\ others' = others + 1
  /\ pc' = [pc EXCEPT !["others"] = "publish"]
  /\ UNCHANGED <<l1Vars, faults, proofs, payload, nonce, retries>>
-----------------------------------------------------------------------------
(* publishTransaction                                                       *)

\* mutant: nothing is locked
SendingLockFreeMutant == TRUE

SendingLockFree == \A g \in Goroutines : pc[g] \notin {"send", "await"}

\* mutant: transactions that wait are not counted
GetNonceMutant(g) ==
  /\ pc[g] = "publish"
  /\ SendingLockFree
  /\ nonce' = [nonce EXCEPT ![g] = Mined]
  /\ retries' = [retries EXCEPT ![g] = 0]
  /\ pc' = [pc EXCEPT ![g] = "send"]
  /\ UNCHANGED <<l1Vars, faults, others, proofs, payload>>

\* the lock is taken, then the nonce read
GetNonce(g) ==
  /\ pc[g] = "publish"
  /\ SendingLockFree
  /\ nonce' = [nonce EXCEPT ![g] = PendingNonce]
  /\ retries' = [retries EXCEPT ![g] = 0]
  /\ pc' = [pc EXCEPT ![g] = "send"]
  /\ UNCHANGED <<l1Vars, faults, others, proofs, payload>>

\* The node refuses a nonce that is used on the chain, an attempt that pays no
\* more than the one before, and too many transactions.
Accepted(g) ==
  /\ nonce[g] >= Mined
  /\ retries[g] <= MaxPriceIncreases
  /\ nonce[g] < PendingNonce \/ Cardinality(DOMAIN pool) < MaxPending

\* the pool once the attempt is in it: a new transaction, or in place of another
PoolWithAttempt(g) ==
  LET before == IF nonce[g] \in DOMAIN pool THEN pool[nonce[g]].attempts ELSE {} IN
  [n \in DOMAIN pool \cup {nonce[g]} |->
     IF n = nonce[g] THEN [payload |-> payload[g], attempts |-> before \cup {retries[g]}]
     ELSE pool[n]]

\* mutant: an attempt that is refused is tried again
SendMutant(g) ==
  /\ pc[g] = "send"
  /\ pc' = [pc EXCEPT ![g] = "await"]
  /\ IF Accepted(g)
       THEN pool' = PoolWithAttempt(g) /\ UNCHANGED retries
       ELSE retries' = [retries EXCEPT ![g] = @ - 1] /\ UNCHANGED pool
  /\ UNCHANGED <<chain, empty, reorgs, faults, others, proofs, payload, nonce>>

\* SendTransaction
Send(g) ==
  /\ pc[g] = "send"
  /\ IF Accepted(g)
       THEN /\ pool' = PoolWithAttempt(g)
            /\ pc' = [pc EXCEPT ![g] = "await"]
            /\ UNCHANGED <<payload, nonce, retries>>
       ELSE Return(g) /\ UNCHANGED pool
  /\ UNCHANGED <<chain, empty, reorgs, faults, others, proofs>>

\* the receipt of the last attempt; those before are forgotten
HasReceipt(g) ==
  \E i \in 1 .. Len(chain) :
    chain[i].tx.nonce = nonce[g] /\ chain[i].tx.attempt = retries[g]

Receipt(g) ==
  /\ pc[g] = "await"
  /\ HasReceipt(g)
  /\ Return(g)
  /\ UNCHANGED <<l1Vars, faults, others, proofs>>

\* no receipt in time: try again, at a higher price
Retry(g) ==
  /\ pc[g] = "await"
  /\ pc' = [pc EXCEPT ![g] = "send"]
  /\ retries' = [retries EXCEPT ![g] = @ + 1]
  /\ UNCHANGED <<l1Vars, faults, others, proofs, payload, nonce>>
-----------------------------------------------------------------------------
Fault == faults < MaxFaults /\ faults' = faults + 1

\* a call fails and the transaction is given up; an earlier attempt still waits
CallFails(g) ==
  /\ Fault
  /\ pc[g] \in {"create", "publish", "send"}
  /\ Return(g)
  /\ UNCHANGED <<l1Vars, others, proofs>>

\* the transaction is in the pool, but the answer is an error
SendUnanswered(g) ==
  /\ Fault
  /\ pc[g] = "send"
  /\ Accepted(g)
  /\ pool' = PoolWithAttempt(g)
  /\ Return(g)
  /\ UNCHANGED <<chain, empty, reorgs, others, proofs>>

Restart ==
  /\ Fault
  /\ pc' = [g \in Goroutines |-> "idle"]
  /\ payload' = [g \in Goroutines |-> Other]
  /\ nonce' = [g \in Goroutines |-> 0]
  /\ retries' = [g \in Goroutines |-> 0]
  /\ UNCHANGED <<l1Vars, others, proofs>>

Publish(g) == GetNonce(g) \/ Send(g) \/ Receipt(g) \/ Retry(g)

Next ==
  \/ GetLatestBatchNo \/ CreateRollup \/ PublishOther
  \/ \E g \in Goroutines : Publish(g) \/ CallFails(g) \/ SendUnanswered(g)
  \/ Restart
  \/ MineTx \/ MineEmpty \/ Reorg \/ CreateBatch

\* The ticker of the production loop goes on, and so does a call of
\* publishTransaction; a mutex of Go is handed to the goroutine that waits for
\* it.  The L1 mines what waits.
Fairness ==
  /\ WF_vars(GetLatestBatchNo \/ CreateRollup)
  /\ \A g \in Goroutines : SF_vars(Publish(g))
  /\ WF_vars(MineTx)

Spec == Init /\ [][Next]_vars
FairSpec == Spec /\ Fairness
-----------------------------------------------------------------------------
TypeOK ==
  /\ \A i \in 1 .. Len(chain) : chain[i].fork \in 0 .. reorgs
  /\ \A n \in DOMAIN pool : pool[n].attempts \in SUBSET (0 .. MaxPriceIncreases) \ {{}}
  /\ pc \in [Goroutines -> {"idle", "create", "publish", "send", "await"}]
  /\ \A g \in Goroutines : payload[g].to <= Len(proofs)
  /\ retries \in [Goroutines -> 0 .. MaxPriceIncreases + 1]
  /\ nonce \in [Goroutines -> 0 .. PendingNonce]

\* The rollups on the L1 leave out no batch: each starts at most one above what
\* the ones before it reach.  Rollups may overlap, because one that was given up
\* is mined all the same, but retries, reorgs and restarts never make a gap, which
\* would stop every node that syncs from the L1.
NoGaps ==
  \A i \in 1 .. Len(chain) :
    chain[i].tx.payload.from <= 1 + Max({0} \cup {chain[j].tx.payload.to : j \in 1 .. i - 1})

\* A node can use every rollup on the L1: the block it was compressed on is on
\* the chain it is mined on, also after a reorg (ProcessBlobsInBlock skips the
\* others for good, and no later rollup has their batches).
AllReadable ==
  \A i \in 1 .. Len(chain) :
    LET head == chain[i].tx.payload.head IN
    chain[i].tx.payload # Other => head[1] < i /\ chain[head[1]].fork = head[2]

\* the payload that the L1 has with this nonce
Submitted(n) ==
  IF n \in DOMAIN pool
    THEN pool[n].payload
    ELSE chain[CHOOSE i \in 1 .. Len(chain) : chain[i].tx.nonce = n].tx.payload

\* What the L1 has accepted from the host is never replaced by something else: a
\* nonce keeps its payload ("to avoid nonce conflicts", publisher.go).
NoNonceConflict ==
  [][ /\ PendingNonce' >= PendingNonce
      /\ \A n \in 0 .. PendingNonce - 1 : Submitted(n)' = Submitted(n) ]_vars

\* "we only allow one transaction in-flight at a time to avoid nonce conflicts"
\* (publisher.go): at most one transaction of the host waits to be mined.
OneInFlight == Cardinality(DOMAIN pool) <= 1

\* Again and again every batch that is deep enough in the L1 is in a rollup on it,
\* whatever was retried, given up or reorganised (while there is room below the
\* bound on transactions).
AllRolledUp ==
  []<>(\/ PendingNonce >= MaxTxs
       \/ \A n \in 1 .. Len(proofs) :
            proofs[n] + RollupDelay <= Len(chain) => LastBatchSeqNo >= n)
=============================================================================
