---------------------------- MODULE StateTracker ----------------------------
(***************************************************************************)
(* What a host believes of its enclave (host/enclave/state.go): the heads  *)
(* it was told, the heads it has seen itself, and the status it derives    *)
(* from them.  Each operator is one method, run under the tracker's mutex. *)
(***************************************************************************)
EXTENDS L1Tree

VARIABLES
  status,             \* what GetStatus returns
  enclaveStatusCode,  \* the code the enclave reported last
  enclaveL1Head,
  enclaveL2Head,      \* a batch number; 0 if there is none
  hostL1Head,
  hostL2Head

trackerVars == <<status, enclaveStatusCode, enclaveL1Head, enclaveL2Head, hostL1Head, hostL2Head>>

Status == {"Live", "Disconnected", "Unavailable", "AwaitingSecret", "L1Catchup", "L2Catchup"}
StatusCode == {"Running", "AwaitingSecret", "Unavailable"}

NoBatch == 0

\* NewStateTracker
TrackerInit ==
  /\ status = "Disconnected"
  /\ enclaveStatusCode = "Running"
  /\ enclaveL1Head = NoBlock
  /\ enclaveL2Head = NoBatch
  /\ hostL1Head = NoBlock
  /\ hostL2Head = NoBatch

\* calculateStatus
CalculateStatus(code, l1, l2, seenL1, seenL2) ==
  CASE code # "Running" -> code
    [] code = "Running" /\ (seenL1 # l1 \/ l1 = NoBlock) -> "L1Catchup"
    [] code = "Running" /\ seenL1 = l1 /\ l1 # NoBlock ->
         IF seenL2 = NoBatch \/ l2 = NoBatch \/ seenL2 > l2 THEN "L2Catchup" ELSE "Live"

\* the heads and the code change together with the status
Told(code, l1, l2) ==
  /\ enclaveStatusCode' = code
  /\ enclaveL1Head' = l1
  /\ enclaveL2Head' = l2
  /\ status' = CalculateStatus(code, l1, l2, hostL1Head, hostL2Head)
  /\ UNCHANGED <<hostL1Head, hostL2Head>>

OnProcessedBlock(b) == Told(enclaveStatusCode, b, enclaveL2Head)

OnProcessedBatch(seq) == Told(enclaveStatusCode, enclaveL1Head, seq)

OnSecretProvided ==
  Told(IF enclaveStatusCode = "AwaitingSecret" THEN "Running" ELSE enclaveStatusCode,
       enclaveL1Head, enclaveL2Head)


\* an empty L1 head in a report is not taken over
OnEnclaveStatus(code, l1, l2) == Told(code, IF l1 = NoBlock THEN enclaveL1Head ELSE l1, l2)

\* what arrives from outside is recorded, the status stays as it is
OnReceivedBlock(b) ==
  /\ hostL1Head' = b
  /\ UNCHANGED <<status, enclaveStatusCode, enclaveL1Head, enclaveL2Head, hostL2Head>>

OnReceivedBatch(seq) ==
  /\ hostL2Head' = seq
  /\ UNCHANGED <<status, enclaveStatusCode, enclaveL1Head, enclaveL2Head, hostL1Head>>

OnDisconnected ==
  /\ status' = "Disconnected"
  /\ UNCHANGED <<enclaveStatusCode, enclaveL1Head, enclaveL2Head, hostL1Head, hostL2Head>>

InSyncWithL1 == status \in {"Live", "L2Catchup"}
IsUpToDate == status = "Live"
=============================================================================
