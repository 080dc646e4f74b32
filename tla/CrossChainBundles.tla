-------------------------- MODULE CrossChainBundles --------------------------
(***************************************************************************)
(* How the bundles of cross chain messages of the rollups get to the L1:   *)
(* the state machine of host/l1/statemachine.go, driven by the guardian's  *)
(* periodicBundleSubmission, the part of the publisher it calls, and the   *)
(* rollup and bundle tables of ManagementContract.sol.                     *)
(*                                                                         *)
(* The L1 can change between any two calls the host makes to it, so each   *)
(* call is a step.  The L1 itself is external: a chain of the states the   *)
(* contract has been in, with the transactions of the host mined so far,   *)
(* and reorgs, which drop the end of the chain, so that the transactions   *)
(* mined there wait again.  A block that was dropped does not come back.   *)
(*                                                                         *)
(* There are events the machine does not get over: a fork between the two  *)
(* calls of Synchronize, a call that fails while it reverts, a transaction *)
(* that cannot be sent, a rollup that ends where an earlier one did.  They *)
(* are steps like any other; mishaps, which no step reads, keeps those     *)
(* since the last start, and the properties say which of them they need    *)
(* not to have happened.                                                   *)
(***************************************************************************)
EXTENDS Integers, Sequences

CONSTANTS
  WithMessages,  \* the batches that have a cross chain root
  MaxSeqNo,      \* bound: the last batch
  MaxUid,        \* bound: how many times a rollup is mined
  MaxReorgs,     \* bound: how many reorgs there are
  MaxFaults      \* bound: L1 calls that fail, receipts not seen in time, restarts

ASSUME BundlesAssumption ==
  /\ WithMessages \subseteq Nat
  /\ {MaxSeqNo, MaxUid, MaxReorgs, MaxFaults} \subseteq Nat

VARIABLES
  chain,      \* the contract after each block of the L1: its rollups, how many of the
              \* host's transactions were mined, and which of them went through
  txs,        \* the transactions the host has sent, by nonce
  uids,       \* unique fork ids handed out so far
  reorgs,
  faults,
  latest,     \* crossChainStateMachine.latestRollup
  history,    \* crossChainStateMachine.rollupHistory
  current,    \* crossChainStateMachine.currentRollup
  pc,         \* the call the submission goroutine is about to make
  begin,      \* local: the first batch of the bundle
  bundle,     \* local: the bundle to publish
  mishaps     \* auxiliary: see above

l1 == <<chain, uids, reorgs>>
machine == <<latest, history, current>>
locals == <<begin, bundle>>
vars == <<l1, txs, faults, machine, pc, locals, mishaps>>

NoRollup == [uid |-> 0, num |-> 0]
NoBundle == [num |-> 0, uid |-> 0, roots |-> {}]

------------------------------------------------------------------------------
(* The management contract.                                                 *)

contract == chain[Len(chain)]

GetUniqueForkID(n) ==
  IF n \in 1..Len(contract.rollups) THEN contract.rollups[n].uid ELSE 0

LastSequenceNumber(n) == contract.rollups[n].last

isBundleSaved == {txs[i].roots : i \in contract.saved}

(* addCrossChainMessagesRoot goes through: the fork id is the rollup's, and  *)
(* no root of the bundle is on the message bus yet.                          *)
Accepted(b) ==
  /\ GetUniqueForkID(b.num) = b.uid
  /\ b.roots \intersect UNION isBundleSaved = {}

(* The batches of the rollup with number n, and their roots.                *)
CrossChainRootHashes(from, to) == WithMessages \intersect from..to

RootsOf(n) ==
  CrossChainRootHashes(IF n = 1 THEN 0 ELSE LastSequenceNumber(n - 1) + 1,
                       LastSequenceNumber(n))

------------------------------------------------------------------------------
(* The L1.                                                                  *)

(* A rollup that ends at the batch last has no batch after the rollup before.*)
Overlaps(last) ==
  Len(contract.rollups) > 0 /\ last <= LastSequenceNumber(Len(contract.rollups))

(* A rollup is mined: AppendRollup gives it the next number and an id that   *)
(* depends on the block it is in, whatever batches the rollup has.           *)
AppendRollup ==
  /\ uids < MaxUid
  /\ \E last \in 1..MaxSeqNo :
       /\ chain' = Append(chain, [contract EXCEPT
                            !.rollups = Append(@, [uid |-> uids + 1, last |-> last])])
       /\ mishaps' = IF Overlaps(last) THEN mishaps \union {"overlap"} ELSE mishaps
  /\ uids' = uids + 1
  /\ UNCHANGED <<txs, reorgs, faults, machine, pc, locals>>

(* The host's next transaction is mined; it fails if it is not accepted.     *)
MineBundle ==
  LET nonce == contract.mined + 1 IN
  /\ nonce <= Len(txs)
  /\ chain' = Append(chain, [contract EXCEPT
                       !.mined = nonce,
                       !.saved = IF Accepted(txs[nonce]) THEN @ \union {nonce} ELSE @])
  /\ UNCHANGED <<txs, uids, reorgs, faults, machine, pc, locals, mishaps>>

(* The end of the chain is dropped; the rollup Synchronize has just looked   *)
(* at may be there.                                                          *)
Reorg ==
  /\ reorgs < MaxReorgs
  /\ reorgs' = reorgs + 1
  /\ \E n \in 1..Len(chain) - 1 :
       /\ chain' = SubSeq(chain, 1, n)
       /\ mishaps' = IF pc = "syncNext" /\ latest.num > Len(chain[n].rollups)
                     THEN mishaps \union {"forkInSync"} ELSE mishaps
  /\ UNCHANGED <<txs, uids, faults, machine, pc, locals>>

------------------------------------------------------------------------------
(* The host starts.                                                         *)

MachineStarts ==
  /\ latest = NoRollup
  /\ history = [n \in 0..MaxUid |-> NoRollup]
  /\ current = 0

Init ==
  /\ chain = <<[rollups |-> <<>>, mined |-> 0, saved |-> {}]>> /\ txs = <<>>
  /\ uids = 0 /\ reorgs = 0 /\ faults = 0
  /\ MachineStarts
  /\ pc = "idle" /\ begin = 0 /\ bundle = NoBundle
  /\ mishaps = {}

(* The handler returns; the goroutine waits for the next tick.              *)
Return == pc' = "idle" /\ begin' = 0 /\ bundle' = NoBundle

NextRollup == current' = current + 1

------------------------------------------------------------------------------
(* Synchronize, and revertToLatestKnownCommonAncestorRollup.                 *)


(* First call: is the latest rollup the host knows still the L1's?          *)
Synchronize ==
  /\ pc = "idle"
  /\ pc' = IF GetUniqueForkID(latest.num) = latest.uid THEN "syncNext" ELSE "revert"
  /\ UNCHANGED <<l1, txs, faults, machine, locals, mishaps>>

(* mutant: a record that is there is kept                                  *)
SynchronizeNextMutant ==
  /\ pc = "syncNext"
  /\ LET uid == GetUniqueForkID(latest.num + 1) IN
       IF uid = 0
       THEN UNCHANGED <<latest, history>>
       ELSE /\ history' = IF history[latest.num] = NoRollup
                          THEN [history EXCEPT ![latest.num] = latest] ELSE history
            /\ latest' = [uid |-> uid, num |-> latest.num + 1]
  /\ pc' = "publish"
  /\ UNCHANGED <<l1, txs, faults, current, locals, mishaps>>

(* Second call: the next rollup, if there is one, becomes the latest.       *)
SynchronizeNext ==
  /\ pc = "syncNext"
  /\ LET uid == GetUniqueForkID(latest.num + 1) IN
       IF uid = 0
       THEN UNCHANGED <<latest, history>>
       ELSE /\ history' = [history EXCEPT ![latest.num] = latest]
            /\ latest' = [uid |-> uid, num |-> latest.num + 1]
  /\ pc' = "publish"
  /\ UNCHANGED <<l1, txs, faults, current, locals, mishaps>>

(* mutant: the needle is not rolled back                                   *)
RevertMutant ==
  /\ pc = "revert"
  /\ IF GetUniqueForkID(latest.num) = latest.uid
     THEN pc' = "publish" /\ UNCHANGED latest
     ELSE latest' = history[latest.num - 1] /\ UNCHANGED pc
  /\ UNCHANGED <<l1, txs, faults, history, current, locals, mishaps>>

(* One turn of the loop: the id of the latest rollup is read, and either the *)
(* common ancestor is found, or the rollup before it is the next to be read. *)
Revert ==
  /\ pc = "revert"
  /\ IF GetUniqueForkID(latest.num) = latest.uid
     THEN /\ current' = IF current > latest.num THEN latest.num ELSE current
          /\ pc' = "publish"
          /\ UNCHANGED latest
     ELSE /\ latest' = history[latest.num - 1]
          /\ UNCHANGED <<current, pc>>
  /\ UNCHANGED <<l1, txs, faults, history, locals, mishaps>>

------------------------------------------------------------------------------
(* PublishNextBundle.                                                       *)

GetRollupData(n) == IF n = latest.num THEN latest ELSE history[n]

(* GetBundleRangeFromManagementContract, first call: the rollup whose bundle *)
(* was the last to be dealt with.                                            *)
PublishNextBundle ==
  /\ pc = "publish"
  /\ IF \/ current >= latest.num
        \/ GetUniqueForkID(current) # history[current].uid
     THEN Return
     ELSE /\ begin' = IF current = 0 THEN 0 ELSE LastSequenceNumber(current) + 1
          /\ pc' = "range"
          /\ UNCHANGED bundle
  /\ UNCHANGED <<l1, txs, faults, machine, mishaps>>

(* mutant: the bundle is sent for the fork the second call found            *)
GetBundleRangeMutant ==
  /\ pc = "range"
  /\ IF GetUniqueForkID(current + 1) = 0
     THEN Return
     ELSE /\ bundle' = [num   |-> current + 1, uid |-> GetUniqueForkID(current + 1),
                        roots |-> CrossChainRootHashes(begin, LastSequenceNumber(current + 1))]
          /\ pc' = "check"
          /\ UNCHANGED begin
  /\ UNCHANGED <<l1, txs, faults, machine, mishaps>>

(* Second call: the rollup to publish the bundle of.  The enclave exports    *)
(* the bundle of its batches, which needs no call to the L1; without batches *)
(* it returns an error, which over RPC is not ErrCrossChainBundleNoBatches.  *)
GetBundleRange ==
  /\ pc = "range"
  /\ LET data == GetRollupData(current + 1) IN
       IF \/ GetUniqueForkID(current + 1) # data.uid
          \/ begin > LastSequenceNumber(current + 1)
       THEN Return
       ELSE /\ bundle' = [num   |-> data.num, uid |-> data.uid,
                          roots |-> CrossChainRootHashes(begin, LastSequenceNumber(current + 1))]
            /\ pc' = "check"
            /\ UNCHANGED begin
  /\ UNCHANGED <<l1, txs, faults, machine, mishaps>>

IsBundleAlreadyPublished ==
  /\ pc = "check"
  /\ IF bundle.roots \in isBundleSaved
     THEN NextRollup /\ Return
     ELSE pc' = "send" /\ UNCHANGED <<current, locals>>
  /\ UNCHANGED <<l1, txs, faults, latest, history, mishaps>>

(* The transaction is sent once the node has estimated its gas; a call that  *)
(* would fail has no estimate, and the error is taken to mean that the       *)
(* bundle is already published.                                              *)
PublishCrossChainBundle ==
  /\ pc = "send"
  /\ IF Accepted(bundle)
     THEN /\ txs' = Append(txs, bundle)
          /\ pc' = "await"
          /\ UNCHANGED <<current, locals>>
     ELSE NextRollup /\ Return /\ UNCHANGED txs
  /\ UNCHANGED <<l1, faults, latest, history, mishaps>>

(* awaitTransaction sees the receipt of the transaction it sent, the last.   *)
Receipt ==
  /\ pc = "await"
  /\ Len(txs) <= contract.mined
  /\ IF Len(txs) \in contract.saved THEN NextRollup ELSE UNCHANGED current
  /\ Return
  /\ UNCHANGED <<l1, txs, faults, latest, history, mishaps>>

------------------------------------------------------------------------------
(* Faults.                                                                  *)

Fault == faults < MaxFaults /\ faults' = faults + 1

(* A call to the L1 fails, or the receipt is not seen in time: the handler   *)
(* returns an error and the next tick starts over.  In the middle of a       *)
(* revert the needle stays where it was.                                     *)
CallFails ==
  /\ Fault
  /\ Return
  /\ mishaps' = IF pc = "revert" /\ current > latest.num
                THEN mishaps \union {"revertFailed"} ELSE mishaps
  /\ UNCHANGED <<l1, txs, machine>>

(* The estimate, or sending the transaction, fails for any other reason,     *)
(* which is taken to mean that the bundle is already published.              *)
SendFails ==
  /\ Fault
  /\ pc = "send"
  /\ NextRollup
  /\ Return
  /\ mishaps' = mishaps \union {"sendFailed"}
  /\ UNCHANGED <<l1, txs, latest, history>>

Restart ==
  /\ Fault
  /\ latest' = NoRollup /\ history' = [n \in 0..MaxUid |-> NoRollup] /\ current' = 0
  /\ Return
  /\ mishaps' = mishaps \intersect {"overlap"}
  /\ UNCHANGED <<l1, txs>>

------------------------------------------------------------------------------
Tick ==
  \/ Synchronize
  \/ SynchronizeNext
  \/ Revert
  \/ PublishNextBundle
  \/ GetBundleRange
  \/ IsBundleAlreadyPublished
  \/ PublishCrossChainBundle
  \/ Receipt

(* The submission goroutine goes on, and the L1 mines what it was sent.     *)
Fairness == WF_vars(Tick) /\ WF_vars(MineBundle)

Next ==
  \/ Tick
  \/ AppendRollup
  \/ MineBundle
  \/ Reorg
  \/ CallFails
  \/ SendFails
  \/ Restart

Spec == Init /\ [][Next]_vars /\ Fairness

------------------------------------------------------------------------------
Info == [uid : 0..MaxUid, num : 0..MaxUid]

(* The machine's state has the shape its types give it, and its needle, which *)
(* the handlers move up one by one, stays within the rollups there have been. *)
TypeOK ==
  /\ latest \in Info
  /\ history \in [0..MaxUid -> Info]
  /\ current \in 0..MaxUid
  /\ pc \in {"idle", "syncNext", "revert", "publish", "range", "check", "send", "await"}
  /\ begin \in 0..MaxSeqNo + 1
  /\ bundle \in [num : 0..MaxUid, uid : 0..MaxUid, roots : SUBSET WithMessages]
  /\ mishaps \subseteq {"overlap", "forkInSync", "revertFailed", "sendFailed"}

(* A bundle that went through has the roots of exactly the batches of the    *)
(* rollup it is for, whatever the L1 did between the two calls that read the *)
(* range and between them and the transaction, and whatever failed.          *)
BundlesAreRight ==
  \A i \in contract.saved :
    /\ GetUniqueForkID(txs[i].num) = txs[i].uid
    /\ txs[i].roots = RootsOf(txs[i].num)

(* The roots the host has sent for rollups of this chain, or the L1 has.     *)
OnTheBus == UNION isBundleSaved
OnTheWay ==
  UNION {txs[i].roots : i \in {k \in contract.mined + 1..Len(txs) :
                                GetUniqueForkID(txs[k].num) = txs[k].uid}}

(* PublishNextBundle moves currentRollup past a rollup of the chain the host  *)
(* tracks only when its roots are on the message bus, or on their way there.  *)
NoneSkipped ==
  \A n \in 1..(IF current < latest.num THEN current ELSE latest.num) :
    GetUniqueForkID(n) = GetRollupData(n).uid /\ GetUniqueForkID(n) # 0
      => RootsOf(n) \subseteq OnTheBus \union OnTheWay

(* A reorg, between whatever two calls, a late receipt, a call that fails or  *)
(* a restart never makes the machine skip a bundle.  A transaction that       *)
(* cannot be sent, a revert that is cut short and overlapping rollups can.    *)
NoBundleSkipped == mishaps \subseteq {"forkInSync"} => NoneSkipped

(* The rollups the machine has recorded below the latest one are those of    *)
(* the latest one's fork.                                                    *)
OneFork ==
  pc = "idle" /\ latest.num > 0 /\ GetUniqueForkID(latest.num) = latest.uid
    => \A n \in 1..latest.num - 1 : GetUniqueForkID(n) = history[n].uid

(* Synchronize, or the revert it ends in, leaves no rollup of an abandoned   *)
(* fork behind, in whatever order rollups, reorgs and failures come, unless  *)
(* the L1 forks between its two calls.                                       *)
OneForkKept == "forkInSync" \notin mishaps => OneFork

AllPublished == \A n \in 1..Len(contract.rollups) : RootsOf(n) \subseteq OnTheBus


(* The same without exception; an overlapping rollup is enough to break it.  *)
EveryBundlePublished == <>[]AllPublished
==============================================================================
