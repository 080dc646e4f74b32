-------------------------- MODULE EventVisibility --------------------------
(***************************************************************************)
(* The enclave's store of event logs and receipts, and who may read them   *)
(* (go/enclave/storage/events_storage.go, enclavedb/events.go,             *)
(* enclavedb/batch.go, storage.go, cache_service.go, evm/evm_facade.go).   *)
(*                                                                         *)
(* A batch is stored with its transactions (StoreBatch) and executed later *)
(* (StoreExecutedBatch), in order.  Storing a transaction writes its       *)
(* sender as an externally owned account; executing it writes the          *)
(* contracts it created with the visibility their developer configured,    *)
(* its receipt, and its event logs with their topics.  A topic row names   *)
(* the account the topic is relevant to, if any.  Requests for logs,       *)
(* receipts and a user's own transactions are queries over these tables.   *)
(*                                                                         *)
(* Tables are sequences and the id of a row is its place: an insert takes  *)
(* the next one, and one that is rolled back gives it back, as SQLite's    *)
(* AUTOINCREMENT does.  The caches of accounts, contracts and event types  *)
(* are written inside the database transaction and survive its failure.    *)
(*                                                                         *)
(* Every batch here has one transaction and is canonical, and a contract   *)
(* emits one type of event.                                                *)
(***************************************************************************)
EXTENDS Naturals, Sequences, FiniteSets, SequencesExt

CONSTANTS
    Users,          \* accounts that sign transactions
    Contracts,      \* addresses contracts are deployed at
    Plain,          \* a topic that cannot be an address
    None,           \* no contract, no account
    MaxTopics,      \* indexed fields of an event (3 in the EVM)
    MaxLogs,        \* bound: events of a transaction
    MaxTxs,         \* bound: transactions
    MaxFailures     \* bound: database transactions that fail

VARIABLES
    db,         \* the committed tables
    cache,      \* the caches: address to id, address to contract row, contract to event type row
    failures    \* database transactions that failed

vars == <<db, cache, failures>>

Addresses == Users \union Contracts
Values == Addresses \union {Plain}
Positions == 1 .. MaxTopics

(***************************************************************************)
(* What a developer may configure: nothing, a transparent contract, or a   *)
(* private one whose event is left out, open to everyone, or open to the   *)
(* addresses in some of its topics and perhaps to the sender (field 0).    *)
(***************************************************************************)
Configs ==
    [kind : {"unconfigured", "transparent", "private", "everyone"}, visibleTo : {{}}]
    \union [kind : {"fields"}, visibleTo : SUBSET (0 .. MaxTopics)]

(***************************************************************************)
(* What a contract's event type starts as: no row, or the row that         *)
(* eventCfg makes of the configured fields.                                *)
(***************************************************************************)
NoType == [contract |-> 0, auto |-> FALSE, autoPublic |-> None, public |-> FALSE,
           canView |-> {}, sender |-> FALSE]

eventCfg(cfg) ==
    IF cfg.kind = "everyone"
    THEN [NoType EXCEPT !.public = TRUE]
    ELSE [NoType EXCEPT !.canView = cfg.visibleTo \ {0}, !.sender = 0 \in cfg.visibleTo]

EventConfigured(cfg) == cfg.kind \in {"everyone", "fields"}

-----------------------------------------------------------------------------
(***************************************************************************)
(* A database transaction works on a pair of tables and caches.            *)
(***************************************************************************)
Working == [db |-> db, cache |-> cache]

EoaId(s, a) ==
    IF s.cache.eoa[a] # 0 THEN s.cache.eoa[a]
    ELSE SelectInSeq(s.db.eoa, LAMBDA r : r = a)

\* a lookup that finds the account caches its id
readEOA(s, a) == [s EXCEPT !.cache.eoa[a] = EoaId(s, a)]

WriteEoa(s, a) == [s EXCEPT !.db.eoa = Append(@, a)]

readOrWriteEOA(s, a) ==
    readEOA(IF EoaId(s, a) = 0 THEN WriteEoa(s, a) ELSE s, a)

ReadContractByAddress(d, a) == SelectInSeq(d.contract, LAMBDA r : r.address = a)

ContractId(s, a) ==
    IF s.cache.contract[a] # 0 THEN s.cache.contract[a]
    ELSE ReadContractByAddress(s.db, a)

readContract(s, a) == [s EXCEPT !.cache.contract[a] = ContractId(s, a)]

\* the row of an event type with its id
TypeRow(s, c) ==
    IF s.cache.type[c].id # 0 THEN s.cache.type[c]
    ELSE LET id == SelectInSeq(s.db.type, LAMBDA r : r.contract = ContractId(s, c))
         IN  [id |-> id, row |-> IF id = 0 THEN NoType ELSE s.db.type[id]]

readEventType(s, c) == [s EXCEPT !.cache.type[c] = TypeRow(s, c)]

WriteEventType(s, row) == [s EXCEPT !.db.type = Append(@, row)]

-----------------------------------------------------------------------------
(***************************************************************************)
(* storeNewContractWithEventTypeConfigs                                    *)
(***************************************************************************)
storeNewContract(s, c, cfg) ==
    LET s1 == readContract([s EXCEPT !.db.contract =
                               Append(@, [address |-> c, transparent |-> cfg.kind = "transparent"])], c)
    IN  IF EventConfigured(cfg)
        THEN WriteEventType(s1, [eventCfg(cfg) EXCEPT !.contract = ContractId(s1, c)])
        ELSE s1

Transparent(s, c) == s.db.contract[ContractId(s, c)].transparent

\* the type of an event that is emitted for the first time and was not configured
storeAutoConfigEventType(s, c) ==
    WriteEventType(s, [NoType EXCEPT !.contract = ContractId(s, c),
                                     !.public = Transparent(s, c),
                                     !.auto = ~Transparent(s, c)])

(***************************************************************************)
(* determineRelevantAddressForTopic and storeTopic: the row of a topic     *)
(* that this event type has not had before.  An event type with automatic  *)
(* visibility takes any address that is not a known contract for an        *)
(* account and records it; a configured one only finds accounts that are   *)
(* recorded already.                                                       *)
(***************************************************************************)
IsPublic(s, c, et) == Transparent(s, c) \/ et.public

\* mutant: an account that is not recorded yet is not relevant
RelevantMutant(s, c, et, i, v) ==
    /\ v # Plain
    /\ IF et.auto THEN EoaId(s, v) # 0 ELSE ~IsPublic(s, c, et) /\ i \in et.canView

Relevant(s, c, et, i, v) ==
    /\ v # Plain
    /\ IF et.auto
       THEN EoaId(s, v) # 0 \/ ContractId(s, v) = 0
       ELSE ~IsPublic(s, c, et) /\ i \in et.canView

storeTopic(s, c, et, typeId, i, v) ==
    LET s1 == IF Relevant(s, c, et, i, v) /\ et.auto THEN readOrWriteEOA(s, v)
              ELSE IF Relevant(s, c, et, i, v) THEN readEOA(s, v) ELSE s
        rel == IF Relevant(s, c, et, i, v) THEN EoaId(s1, v) ELSE 0
    IN  [s1 EXCEPT !.db.topic = Append(@, [type |-> typeId, value |-> v, rel |-> rel])]

ReadEventTopic(s, typeId, v) ==
    SelectInSeq(s.db.topic, LAMBDA r : r.type = typeId /\ r.value = v)

storeTopics(s, c, et, typeId, topics) ==
    FoldLeftDomain(LAMBDA acc, i :
                       IF ReadEventTopic(acc, typeId, topics[i]) # 0 THEN acc
                       ELSE storeTopic(acc, c, et, typeId, i, topics[i]),
                   s, topics)

\* mutant: decided again by every event
setAutoVisibilityMutant(s, et, typeId, topicIds) ==
    IF ~et.public /\ et.auto
    THEN [s EXCEPT !.db.type[typeId].autoPublic =
              \A i \in DOMAIN topicIds : s.db.topic[topicIds[i]].rel = 0]
    ELSE s

\* decided when the first event of a type with automatic visibility is emitted
setAutoVisibility(s, et, typeId, topicIds) ==
    IF ~et.public /\ et.auto /\ et.autoPublic = None
    THEN [s EXCEPT !.db.type[typeId].autoPublic =
              \A i \in DOMAIN topicIds : s.db.topic[topicIds[i]].rel = 0]
    ELSE s

(***************************************************************************)
(* storeEventLog                                                           *)
(***************************************************************************)
storeEventLog(s, receipt, l) ==
    LET c == l.contract
        s1 == readEventType(readContract(s, c), c)
        first == TypeRow(s1, c).id = 0
        s2 == IF first THEN storeAutoConfigEventType(s1, c) ELSE s1
        typeId == IF first THEN Len(s2.db.type) ELSE TypeRow(s1, c).id
        et == IF first THEN s2.db.type[typeId] ELSE TypeRow(s1, c).row
        s3 == storeTopics(s2, c, et, typeId, l.topics)
        topicIds == [i \in DOMAIN l.topics |-> ReadEventTopic(s3, typeId, l.topics[i])]
        s4 == [s3 EXCEPT !.db.log = Append(@, [type |-> typeId, topics |-> topicIds,
                                               receipt |-> receipt])]
    IN  setAutoVisibility(s4, et, typeId, topicIds)

(***************************************************************************)
(* storeReceiptAndEventLogs for the transaction in row k, whose receipt    *)
(* takes the same id.                                                      *)
(***************************************************************************)
storeReceiptAndEventLogs(s, k) ==
    LET tx == s.db.tx[k].content
        s1 == IF tx.creates = None THEN s ELSE storeNewContract(s, tx.creates, tx.cfg)
        s2 == [s1 EXCEPT !.db.receipts = @ + 1]
    IN  FoldLeft(LAMBDA acc, l : storeEventLog(acc, k, l), s2, tx.logs)

(***************************************************************************)
(* handleTxSendersAndReceivers and WriteTransactions: the contract a       *)
(* transaction calls is the one the committed tables hold at this time.    *)
(***************************************************************************)
writeTransaction(s, tx) ==
    LET s1 == readOrWriteEOA(s, tx.from)
    IN  [s1 EXCEPT !.db.tx = Append(@, [sender |-> EoaId(s1, tx.from),
                                        to |-> IF tx.to = None THEN 0
                                               ELSE ReadContractByAddress(db, tx.to),
                                        content |-> tx])]

-----------------------------------------------------------------------------
(***************************************************************************)
(* The transactions that may come next, with what their execution does:    *)
(* a creation deploys a contract, a call of a contract that is deployed by *)
(* then may emit events of any deployed contract.                          *)
(***************************************************************************)
Deployed == {db.tx[k].content.creates : k \in DOMAIN db.tx} \ {None}

Event(cs) == [contract : cs, topics : SeqOf(Values, MaxTopics)]
Logs(cs) == SeqOf(Event(cs), MaxLogs)

Creations == [from : Users, to : {None}, creates : Contracts \ Deployed, cfg : Configs,
              logs : {<<>>}]
Calls == [from : Users, to : Deployed, creates : {None}, cfg : {None}, logs : Logs(Deployed)]

Init ==
    /\ db = [eoa |-> <<>>, contract |-> <<>>, type |-> <<>>, topic |-> <<>>,
             tx |-> <<>>, receipts |-> 0, log |-> <<>>]
    /\ cache = [eoa |-> [a \in Addresses |-> 0], contract |-> [a \in Addresses |-> 0],
                type |-> [c \in Contracts |-> [id |-> 0, row |-> NoType]]]
    /\ failures = 0

Commit(s) ==
    /\ db' = s.db
    /\ cache' = s.cache
    /\ UNCHANGED failures

\* an error after the work was done: the tables are rolled back, the caches are not
Rollback(s) ==
    /\ failures < MaxFailures
    /\ failures' = failures + 1
    /\ cache' = s.cache
    /\ UNCHANGED db

StoreBatch ==
    /\ Len(db.tx) < MaxTxs
    /\ \E tx \in Creations \union Calls : Commit(writeTransaction(Working, tx))

StoreExecutedBatch ==
    /\ db.receipts < Len(db.tx)
    /\ Commit(storeReceiptAndEventLogs(Working, db.receipts + 1))

StoreFails ==
    \/ /\ Len(db.tx) < MaxTxs
       /\ \E tx \in Creations \union Calls : Rollback(writeTransaction(Working, tx))
    \/ /\ db.receipts < Len(db.tx)
       /\ Rollback(storeReceiptAndEventLogs(Working, db.receipts + 1))

Next == StoreBatch \/ StoreExecutedBatch

Spec == Init /\ [][Next]_vars
\* database transactions fail, too
SpecFails == Init /\ [][Next \/ StoreFails]_vars

-----------------------------------------------------------------------------
(***************************************************************************)
(* The queries.  CanView is logsVisibilityQuery for one row of event_log;  *)
(* a type or an account that a row names and the tables do not have joins  *)
(* nothing.                                                                *)
(***************************************************************************)
RowAt(table, id) == IF id \in DOMAIN table THEN {table[id]} ELSE {}

Sender(k) == RowAt(db.eoa, db.tx[k].sender)
RelevantTo(l, i) == RowAt(db.eoa, db.topic[l.topics[i]].rel)

\* mutant: any account a topic is relevant to may view a configured event
CanViewMutant(l, acc) ==
    \E et \in RowAt(db.type, l.type) :
        \/ et.public
        \/ et.autoPublic = TRUE
        \/ \E i \in DOMAIN l.topics : acc \in RelevantTo(l, i)
        \/ et.sender /\ acc \in Sender(l.receipt)

CanView(l, acc) ==
    \E et \in RowAt(db.type, l.type) :
        \/ et.public
        \/ /\ et.auto
           /\ et.autoPublic = TRUE \/ \E i \in DOMAIN l.topics : acc \in RelevantTo(l, i)
        \/ /\ ~et.auto /\ ~et.public
           /\ \/ \E i \in DOMAIN l.topics : i \in et.canView /\ acc \in RelevantTo(l, i)
              \/ et.sender /\ acc \in Sender(l.receipt)

LogsOf(k) == SelectSeq(db.log, LAMBDA l : l.receipt = k)

(***************************************************************************)
(* ReadReceipt: the rows of loadReceiptsAndEventLogs.  A receipt without   *)
(* logs is one row; a receipt with logs has a row for each log the account *)
(* may view; the last row is the one that is added for the sender.         *)
(***************************************************************************)
ToTransparent(k) == \E c \in RowAt(db.contract, db.tx[k].to) : c.transparent

CanGetReceipt(k, acc) ==
    \/ LogsOf(k) = <<>> /\ ToTransparent(k)
    \/ \E i \in DOMAIN LogsOf(k) : CanView(LogsOf(k)[i], acc)
    \/ acc \in Sender(k)

(***************************************************************************)
(* loadReceiptList for GetTransactionsPerAddress: the conditions on the    *)
(* sender follow the ON of the left join with the contract called, so they *)
(* choose which contract is joined and leave out no receipt.               *)
(***************************************************************************)
GetTransactionsPerAddress(acc) == {k \in 1 .. db.receipts : Sender(k) # {}}

CountTransactionsPerAddress(acc) == Cardinality({k \in 1 .. db.receipts : acc \in Sender(k)})

-----------------------------------------------------------------------------
(***************************************************************************)
(* The type invariant.                                                     *)
(***************************************************************************)
TypeOK ==
    /\ db.eoa \in Seq(Addresses)
    /\ \A k \in DOMAIN db.topic :
          /\ db.topic[k].type \in DOMAIN db.type
          /\ db.topic[k].value \in Values
          /\ db.topic[k].rel \in 0 .. Len(db.eoa)
    /\ \A k \in DOMAIN db.log : db.log[k].receipt \in 1 .. db.receipts
    /\ db.receipts \in 0 .. Len(db.tx)
    /\ cache.eoa \in [Addresses -> Nat]
    /\ failures \in 0 .. MaxFailures

\* the transaction that created the contract of an event log, the values and the signer of the log
TypeContract(l) == db.contract[db.type[l.type].contract].address
CfgOf(l) ==
    LET k == CHOOSE k \in DOMAIN db.tx : db.tx[k].content.creates = TypeContract(l)
    IN  db.tx[k].content.cfg
ValueAt(l, i) == db.topic[l.topics[i]].value
Signer(k) == db.tx[k].content.from
Emitted(c) == SelectSeq(db.log, LAMBDA l : TypeContract(l) = c)
LogRows == {db.log[k] : k \in DOMAIN db.log}
Executed == 1 .. db.receipts

(***************************************************************************)
(* No account is given a log that a configured event keeps from it: only   *)
(* the addresses in the chosen topics and, if chosen, the signer of the    *)
(* transaction may view it (logsVisibilityQuery over the rows that         *)
(* storeEventLog left).  Topic rows are shared by the positions and the    *)
(* events of a type.                                                       *)
(***************************************************************************)
ConfiguredViewers ==
    \A l \in LogRows, u \in Users :
        CfgOf(l).kind = "fields" /\ CanView(l, u) =>
            \/ \E i \in DOMAIN l.topics \cap CfgOf(l).visibleTo : ValueAt(l, i) = u
            \/ 0 \in CfgOf(l).visibleTo /\ Signer(l.receipt) = u

Automatic(l) == CfgOf(l).kind \in {"unconfigured", "private"}
NamesAccount(l) == \E i \in DOMAIN l.topics : ValueAt(l, i) \in Users
OwnsTopic(l, u) == \E i \in DOMAIN l.topics : ValueAt(l, i) = u

(***************************************************************************)
(* An event that is not configured is visible to every account whose       *)
(* address is one of its topics, whether or not the account was known when *)
(* the event was stored (determineRelevantAddressForTopic records it), and *)
(* to no other account if the first event of its type named one            *)
(* (setAutoVisibilityWhenEventFirstEmitted).                               *)
(***************************************************************************)
OwnersSee ==
    \A l \in LogRows, u \in Users :
        Automatic(l) =>
            /\ OwnsTopic(l, u) => CanView(l, u)
            /\ CanView(l, u) /\ NamesAccount(Emitted(TypeContract(l))[1]) => OwnsTopic(l, u)

(***************************************************************************)
(* Who may view a log is settled when it is stored: no event, account or   *)
(* contract that is stored later shows it to another account or takes it   *)
(* from one, although the rows of its type, its topics and its accounts    *)
(* are shared with them and the type is read through a cache.  (SpecFails  *)
(* breaks it: an id that was cached in a transaction that was rolled back  *)
(* goes to another account, see CachedIds.)                                *)
(***************************************************************************)
ViewersFixed ==
    [][\A k \in DOMAIN db.log, u \in Users :
          CanView(db.log[k], u)' <=> CanView(db.log[k], u)]_vars

-----------------------------------------------------------------------------
(***************************************************************************)
(* What comments, documents and tests say, and the code does not do.       *)
(***************************************************************************)

(***************************************************************************)
(* "users able to see an event if and only if the event is considered      *)
(* relevant to them" (design/ux/Events_design.md:43): an event that is not *)
(* configured and names accounts is relevant to their owners only          *)
(* (assertRelevantLogsOnly in integration/simulation/validate_chain.go     *)
(* checks the same of the logs a client gets).                             *)
(***************************************************************************)
RelevantOnly ==
    \A l \in LogRows, u \in Users :
        Automatic(l) /\ NamesAccount(l) /\ CanView(l, u) => OwnsTopic(l, u)

(***************************************************************************)
(* "if any of these fields is in the relevantTo array, then the address in *)
(* that topic will be able to query for that event"                        *)
(* (contracts/src/lib/ContractTransparencyConfig.sol:9).                   *)
(***************************************************************************)
TopicsCanView ==
    \A l \in LogRows, u \in Users :
        /\ CfgOf(l).kind = "fields"
        /\ \E i \in DOMAIN l.topics \cap CfgOf(l).visibleTo : ValueAt(l, i) = u
        => CanView(l, u)

(***************************************************************************)
(* "anyone can query if the contract is transparent"                       *)
(* (go/enclave/storage/enclavedb/events.go:456).                           *)
(***************************************************************************)
TransparentReceipts ==
    \A k \in Executed, u \in Users :
        (\E j \in Executed : /\ db.tx[j].content.creates = db.tx[k].content.to
                             /\ db.tx[j].content.creates # None
                             /\ db.tx[j].content.cfg.kind = "transparent")
        => CanGetReceipt(k, u)

(***************************************************************************)
(* "In case there are no account addresses in an event's topics, then the  *)
(* event is considered relevant to everyone"                               *)
(* (design/ux/Events_design.md:49).                                        *)
(***************************************************************************)
LifecycleEvents ==
    \A l \in LogRows, u \in Users :
        /\ CfgOf(l).kind = "unconfigured"
        /\ \A i \in DOMAIN l.topics : ValueAt(l, i) = Plain
        => CanView(l, u)

(***************************************************************************)
(* "verify the personal transactions endpoint returns the two txs"         *)
(* (integration/networktest/tests/tenscan/tenscan_rpc_test.go:61): an      *)
(* account is listed as many transactions as it is told it has, its own.   *)
(***************************************************************************)
PersonalTransactions ==
    \A u \in Users :
        /\ GetTransactionsPerAddress(u) = {k \in Executed : Signer(k) = u}
        /\ Cardinality(GetTransactionsPerAddress(u)) = CountTransactionsPerAddress(u)

(***************************************************************************)
(* "from address ( either eoa or contract) to the id of the db entry"      *)
(* (go/enclave/storage/cache_service.go:60): a cached id is the id of the  *)
(* account's row.                                                          *)
(***************************************************************************)
CachedIds ==
    \A a \in Addresses :
        cache.eoa[a] # 0 => /\ cache.eoa[a] \in DOMAIN db.eoa
                            /\ db.eoa[cache.eoa[a]] = a
=============================================================================
