SPECIFICATION Spec
CONSTANTS
  NoBlock = NoBlock
  NoTxs = NoTxs
  SystemTxs = SystemTxs
  Txs = {t1, t2}
  MaxSeqNo = 4
  Block <- MCBlock
  Parent <- MCParent
  Number <- MCNumber
  Anc <- MCAnc
INVARIANTS TypeOK NoCrit FlagsFollowL1 ExecutedInOrder CaughtUp
PROPERTY ImplementsLedger
CHECK_DEADLOCK FALSE
