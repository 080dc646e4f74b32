--------------------------- MODULE NetworkSecret ---------------------------
(***************************************************************************)
(* How the enclaves of a network come to share a secret: the genesis       *)
(* enclave generates it and its host publishes that on the L1; every other *)
(* host asks for it in an L1 transaction, the genesis enclave finds the    *)
(* request in the L1 block it is given, its host publishes the answer, and *)
(* the host that asked looks for it block by block.                        *)
(*                                                                         *)
(* The L1 is external.  It mines the transactions of a host in order, and  *)
(* the transactions of a block dropped by a reorg wait again.  What        *)
(* publishTransaction does about prices is in RollupPublication; how       *)
(* blocks get to an enclave is in GuardianL1.                              *)
(***************************************************************************)
EXTENDS Integers, Sequences, FiniteSetsExt

CONSTANTS
  Genesis,       \* the host with hostData.IsGenesis
  Nodes,         \* the other hosts
  MaxRequests,   \* bound: requests of one node
  MaxReorgs,     \* bound: reorgs of the L1
  MaxFaults      \* bound: calls that fail, waits that are too short, restarts

ASSUME SecretAssumption ==
  Genesis \notin Nodes /\ {MaxRequests, MaxReorgs, MaxFaults} \subseteq Nat

VARIABLES
  chain,       \* the L1 blocks: the fork they were mined on and a transaction or NoTx
  pool,        \* for each host the transactions that wait, in the order of their nonces
  reorgs, faults,
  secret,      \* in each enclave's database: the secret, 0 if there is none
  entropy,     \* how many secrets were generated
  head,        \* the blocks the genesis enclave has processed, up to its head
  responses,   \* the secrets that goroutines of the genesis host are about to publish, by requester
  pc,          \* where each host's main loop is
  requests,    \* the requests each node has made
  awaitFrom    \* local of provideSecret: the blocks up to the one last looked at

l1Vars == <<chain, pool, reorgs>>
vars == <<l1Vars, faults, secret, entropy, head, responses, pc, requests, awaitFrom>>

Hosts == Nodes \cup {Genesis}
NoTx == [type |-> "none", node |-> Genesis, n |-> 0]
InitializeTx == [type |-> "initialize", node |-> Genesis, n |-> 0]
RequestTx(n, i) == [type |-> "request", node |-> n, n |-> i]
RespondTx(n, s) == [type |-> "respond", node |-> n, n |-> s]

Init ==
  /\ chain = <<>> /\ reorgs = 0 /\ faults = 0
  /\ pool = [h \in Hosts |-> <<>>]
  /\ secret = [h \in Hosts |-> 0] /\ entropy = 0
  /\ head = <<>> /\ responses = {}
  /\ pc = [h \in Hosts |-> "status"]
  /\ requests = [n \in Nodes |-> 0]
  /\ awaitFrom = [n \in Nodes |-> <<>>]
-----------------------------------------------------------------------------
(* The L1.                                                                  *)

OnL1(tx) == \E i \in 1 .. Len(chain) : chain[i].tx = tx

\* ManagementContract.attested
Attested == {Genesis} \cap {h \in Hosts : OnL1(InitializeTx)}

Mine(h) ==
  /\ pool[h] # <<>>
  /\ chain' = Append(chain, [fork |-> reorgs, tx |-> Head(pool[h])])
  /\ pool' = [pool EXCEPT ![h] = Tail(@)]
  /\ UNCHANGED <<reorgs, faults, secret, entropy, head, responses, pc, requests, awaitFrom>>

\* the last block is replaced by another
Reorg ==
  LET last == chain[Len(chain)].tx
      host == IF last.type = "request" THEN last.node ELSE Genesis
  IN
  /\ reorgs < MaxReorgs
  /\ reorgs' = reorgs + 1
  /\ chain # <<>> /\ last # NoTx
  /\ chain' = [chain EXCEPT ![Len(chain)] = [fork |-> reorgs + 1, tx |-> NoTx]]
  /\ pool' = [pool EXCEPT ![host] = <<last>> \o @]
  /\ UNCHANGED <<faults, secret, entropy, head, responses, pc, requests, awaitFrom>>

\* latestCanonAncestor: how many of the blocks are on the L1
CanonAncestor(blocks) ==
  Max({k \in 0 .. Len(blocks) : k <= Len(chain) /\ SubSeq(blocks, 1, k) = SubSeq(chain, 1, k)})

\* FetchNextBlock
HasNext(blocks) == CanonAncestor(blocks) < Len(chain)
NextBlock(blocks) == chain[CanonAncestor(blocks) + 1].tx
WithNext(blocks) == SubSeq(chain, 1, CanonAncestor(blocks) + 1)
-----------------------------------------------------------------------------
(* The main loop of a guardian asks the enclave for its status.             *)

\* mutant: a host that was not told of the secret asks for it again
CheckStatusMutant(h) ==
  /\ pc[h] = "status"
  /\ pc' = [pc EXCEPT ![h] = "secret"]
  /\ UNCHANGED <<l1Vars, faults, secret, entropy, head, responses, requests, awaitFrom>>

CheckStatus(h) ==
  /\ pc[h] = "status"
  /\ pc' = [pc EXCEPT ![h] = IF secret[h] = 0 THEN "secret" ELSE "ready"]
  /\ UNCHANGED <<l1Vars, faults, secret, entropy, head, responses, requests, awaitFrom>>

\* StoreSecret: a second secret is refused by the database
Stored(h, s) == IF secret[h] = 0 THEN s ELSE secret[h]
-----------------------------------------------------------------------------
(* The genesis host: generateAndBroadcastSecret                             *)

GenerateSecret ==
  /\ pc[Genesis] = "secret"
  /\ entropy' = entropy + 1
  /\ secret' = [secret EXCEPT ![Genesis] = Stored(Genesis, entropy + 1)]
  /\ pc' = [pc EXCEPT ![Genesis] = IF secret[Genesis] = 0 THEN "initialize" ELSE "status"]
  /\ UNCHANGED <<l1Vars, faults, head, responses, requests, awaitFrom>>

InitializeSecret ==
  /\ pc[Genesis] = "initialize"
  /\ pool' = [pool EXCEPT ![Genesis] = Append(@, InitializeTx)]
  /\ pc' = [pc EXCEPT ![Genesis] = "receipt"]
  /\ UNCHANGED <<chain, reorgs, faults, secret, entropy, head, responses, requests, awaitFrom>>

\* the receipt, then OnSecretProvided
Initialized ==
  /\ pc[Genesis] = "receipt"
  /\ OnL1(InitializeTx)
  /\ pc' = [pc EXCEPT ![Genesis] = "ready"]
  /\ UNCHANGED <<l1Vars, faults, secret, entropy, head, responses, requests, awaitFrom>>

\* mutant: only a request that is the enclave's first from that node is answered
ProducedResponsesMutant(tx) ==
  IF tx.type = "request" /\ tx.n = 1 THEN {[node |-> tx.node, secret |-> secret[Genesis]]} ELSE {}

\* ProcessNetworkSecretMsgs
ProducedResponses(tx) ==
  IF tx.type = "request" THEN {[node |-> tx.node, secret |-> secret[Genesis]]} ELSE {}

\* a block is given to the genesis enclave, and its answers are published
SubmitL1Block ==
  /\ pc[Genesis] = "ready"
  /\ HasNext(head)
  /\ head' = WithNext(head)
  /\ responses' = responses \cup ProducedResponses(NextBlock(head))
  /\ UNCHANGED <<l1Vars, faults, secret, entropy, pc, requests, awaitFrom>>

\* PublishSecretResponse: the gas of a call that would revert cannot be
\* estimated, and then nothing is sent
PublishSecretResponse ==
  \E r \in responses :
    /\ responses' = responses \ {r}
    /\ pool' = IF Genesis \in Attested
                 THEN [pool EXCEPT ![Genesis] = Append(@, RespondTx(r.node, r.secret))]
                 ELSE pool
    /\ UNCHANGED <<chain, reorgs, faults, secret, entropy, head, pc, requests, awaitFrom>>
-----------------------------------------------------------------------------
(* The other hosts: provideSecret                                           *)

\* RequestSecret: the L1 head is read before the request is sent
RequestSecret(n) ==
  /\ pc[n] = "secret"
  /\ requests[n] < MaxRequests
  /\ requests' = [requests EXCEPT ![n] = @ + 1]
  /\ awaitFrom' = [awaitFrom EXCEPT ![n] = chain]
  /\ pool' = [pool EXCEPT ![n] = Append(@, RequestTx(n, requests[n] + 1))]
  /\ pc' = [pc EXCEPT ![n] = "requested"]
  /\ UNCHANGED <<chain, reorgs, faults, secret, entropy, head, responses>>

\* mutant: the L1 head is read after the receipt
RequestReceiptMutant(n) ==
  /\ pc[n] = "requested"
  /\ OnL1(RequestTx(n, requests[n]))
  /\ awaitFrom' = [awaitFrom EXCEPT ![n] = chain]
  /\ pc' = [pc EXCEPT ![n] = "await"]
  /\ UNCHANGED <<l1Vars, faults, secret, entropy, head, responses, requests>>

RequestReceipt(n) ==
  /\ pc[n] = "requested"
  /\ OnL1(RequestTx(n, requests[n]))
  /\ pc' = [pc EXCEPT ![n] = "await"]
  /\ UNCHANGED <<l1Vars, faults, secret, entropy, head, responses, requests, awaitFrom>>

\* FindSecretResponseTx in the next block
IsResponse(n, tx) == tx.type = "respond" /\ tx.node = n

\* the next block has no answer for this node
SkipBlock(n) ==
  /\ pc[n] = "await"
  /\ HasNext(awaitFrom[n])
  /\ ~IsResponse(n, NextBlock(awaitFrom[n]))
  /\ awaitFrom' = [awaitFrom EXCEPT ![n] = WithNext(@)]
  /\ UNCHANGED <<l1Vars, faults, secret, entropy, head, responses, pc, requests>>

\* The next block has an answer.  A second secret is refused, and the search
\* goes on.
InitEnclave(n) ==
  /\ pc[n] = "await"
  /\ HasNext(awaitFrom[n])
  /\ IsResponse(n, NextBlock(awaitFrom[n]))
  /\ secret' = [secret EXCEPT ![n] = Stored(n, NextBlock(awaitFrom[n]).n)]
  /\ IF secret[n] = 0
       THEN pc' = [pc EXCEPT ![n] = "ready"] /\ UNCHANGED awaitFrom
       ELSE awaitFrom' = [awaitFrom EXCEPT ![n] = WithNext(@)] /\ UNCHANGED pc
  /\ UNCHANGED <<l1Vars, faults, entropy, head, responses, requests>>

\* an answer may still come: a transaction waits for the L1, a block for a host
AnswerUnderWay(n) ==
  \/ \E r \in responses : r.node = n
  \/ \E h \in Hosts : pool[h] # <<>>
  \/ \E i \in CanonAncestor(head) + 1 .. Len(chain) : chain[i].tx.node = n
  \/ HasNext(awaitFrom[n])

\* _maxWaitForSecretResponse is over
Timeout(n) ==
  /\ pc[n] = "await"
  /\ ~AnswerUnderWay(n)
  /\ pc' = [pc EXCEPT ![n] = "status"]
  /\ UNCHANGED <<l1Vars, faults, secret, entropy, head, responses, requests, awaitFrom>>
-----------------------------------------------------------------------------
(* Faults                                                                   *)

Fault == faults < MaxFaults /\ faults' = faults + 1

\* the wait is over, though the answer is under way
EarlyTimeout(n) ==
  /\ Fault
  /\ pc[n] = "await"
  /\ pc' = [pc EXCEPT ![n] = "status"]
  /\ UNCHANGED <<l1Vars, secret, entropy, head, responses, requests, awaitFrom>>

\* the enclave has the secret, but its host gets an error
InitUnanswered(n) ==
  /\ Fault
  /\ pc[n] = "await"
  /\ HasNext(awaitFrom[n])
  /\ IsResponse(n, NextBlock(awaitFrom[n]))
  /\ secret' = [secret EXCEPT ![n] = Stored(n, NextBlock(awaitFrom[n]).n)]
  /\ awaitFrom' = [awaitFrom EXCEPT ![n] = WithNext(@)]
  /\ UNCHANGED <<l1Vars, entropy, head, responses, pc, requests>>

\* the enclave has processed a block, but its host gets an error and no answers
SubmitUnanswered ==
  /\ Fault
  /\ pc[Genesis] = "ready"
  /\ HasNext(head)
  /\ head' = WithNext(head)
  /\ UNCHANGED <<l1Vars, secret, entropy, responses, pc, requests, awaitFrom>>

\* mutant: the secret is not committed to the database
RestartMutant(h) ==
  /\ Fault
  /\ h = Genesis => pc[h] \in {"receipt", "ready"}
  /\ pc' = [pc EXCEPT ![h] = "status"]
  /\ secret' = [secret EXCEPT ![h] = 0]
  /\ responses' = IF h = Genesis THEN {} ELSE responses
  /\ UNCHANGED <<l1Vars, entropy, head, requests, awaitFrom>>

\* a node is started again, host and enclave; the enclaves' databases stay
Restart(h) ==
  /\ Fault
  /\ h = Genesis => pc[h] \in {"receipt", "ready"}
  /\ pc' = [pc EXCEPT ![h] = "status"]
  /\ responses' = IF h = Genesis THEN {} ELSE responses
  /\ UNCHANGED <<l1Vars, secret, entropy, head, requests, awaitFrom>>

\* InitializeSecret fails, or the genesis host stops before it
InitializeFails ==
  /\ Fault
  /\ pc[Genesis] = "initialize"
  /\ pc' = [pc EXCEPT ![Genesis] = "status"]
  /\ UNCHANGED <<l1Vars, secret, entropy, head, responses, requests, awaitFrom>>
-----------------------------------------------------------------------------
ProvideSecret(n) ==
  RequestSecret(n) \/ RequestReceipt(n) \/ SkipBlock(n) \/ InitEnclave(n) \/ Timeout(n)

Next ==
  \/ \E h \in Hosts : CheckStatus(h) \/ Mine(h) \/ Restart(h)
  \/ GenerateSecret \/ InitializeSecret \/ Initialized
  \/ SubmitL1Block \/ PublishSecretResponse \/ SubmitUnanswered
  \/ \E n \in Nodes : ProvideSecret(n) \/ EarlyTimeout(n) \/ InitUnanswered(n)
  \/ Reorg

\* the main loop of each host and the goroutines go on, the L1 mines what waits
Fairness ==
  /\ WF_vars(CheckStatus(Genesis) \/ GenerateSecret \/ InitializeSecret \/ Initialized)
  /\ \A n \in Nodes : WF_vars(CheckStatus(n) \/ ProvideSecret(n))
  /\ WF_vars(SubmitL1Block) /\ WF_vars(PublishSecretResponse)
  /\ \A h \in Hosts : WF_vars(Mine(h))

Spec == Init /\ [][Next]_vars /\ Fairness
SpecInitializeFails == Init /\ [][Next \/ InitializeFails]_vars /\ Fairness
-----------------------------------------------------------------------------
TypeOK ==
  /\ secret \in [Hosts -> 0 .. entropy]
  /\ entropy \in 0 .. 1
  /\ pc \in [Hosts -> {"status", "secret", "initialize", "receipt", "requested", "await", "ready"}]
  /\ \A r \in responses : r.node \in Nodes /\ r.secret \in 1 .. entropy
  /\ requests \in [Nodes -> 0 .. MaxRequests]

\* All enclaves that have a secret have the same, and an answer on the L1 or on
\* its way there has it too, whatever was asked twice, answered late or
\* restarted: a node with another secret could read no batch.
OneSecret ==
  LET secrets == {secret[h] : h \in Hosts} \cup {r.secret : r \in responses}
                   \cup {chain[i].tx.n : i \in {j \in 1 .. Len(chain) : chain[j].tx.type = "respond"}}
  IN  Cardinality(secrets \ {0}) <= 1

\* A host that waits has not gone past its answer: an answer on the L1 to the
\* request it waits for is in a block it has still to look at, also after a
\* reorg, unless the enclave has the secret already.
AnswerNotMissed ==
  \A n \in Nodes :
    pc[n] = "await" /\ secret[n] = 0 =>
      LET asked == {i \in 1 .. Len(chain) : chain[i].tx = RequestTx(n, requests[n])} IN
      \A i \in 1 .. Len(chain) :
        IsResponse(n, chain[i].tx) /\ (\E j \in asked : j < i) => i > CanonAncestor(awaitFrom[n])

\* Every node gets the secret, though requests, answers and results get lost.
SecretObtained == \A n \in Nodes : <>[](secret[n] # 0 /\ pc[n] = "ready")

\* "Create the shared secret and submit it to the management contract"
\* (guardian.go): once there is a secret the network gets initialised.
SecretPublished == (secret[Genesis] # 0) ~> OnL1(InitializeTx)
=============================================================================
