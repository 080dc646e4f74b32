SPECIFICATION SpecCatchUp
CONSTANTS
  NoBlock = NoBlock
  NoTxs = NoTxs
  SystemTxs = SystemTxs
  Txs = {t1, t2}
  MaxHeight = 3
  Block <- MCBlock
  Parent <- MCParent
  Number <- MCNumber
  Anc <- MCAnc
INVARIANT NoCrit
CHECK_DEADLOCK FALSE
