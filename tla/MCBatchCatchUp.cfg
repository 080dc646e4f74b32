SPECIFICATION Spec
CONSTANTS
  NoBlock = NoBlock
  Main = Main
  Root = "r"
  MaxBatchesInP2PResponse = 0
  MaxSeqNo = 2
  MaxRestarts = 1
  Block <- MCBlock
  Parent <- MCParent
  Number <- MCNumber
  Anc <- MCAnc
INVARIANT NeverAhead
PROPERTY GapsFilled
