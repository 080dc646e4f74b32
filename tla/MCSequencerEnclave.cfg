SPECIFICATION Spec
CONSTANTS
  NoBlock = NoBlock
  NoTxs = NoTxs
  SystemTxs = SystemTxs
  Txs = {t1, t2}
  MaxHeight = 3
  Block <- MCBlock
  Parent <- MCParent
  Number <- MCNumber
  Anc <- MCAnc
  RollupDelay = 2
  Half = 32768
INVARIANTS
  TypeOK
  NoCrit
  OneCanonicalBatchPerHeight
  HistoryKept
  CanonicalChain
  HeadIsTheTip
  TransactionsSurvive
  TransactionsReadable
  RoundTrip
  DelayKept
PROPERTY ImplementsLedger
CHECK_DEADLOCK FALSE
