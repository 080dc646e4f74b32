SPECIFICATION LCASpec
CONSTANTS
  NoBlock = NoBlock
  Block <- MCBlock
  Parent <- MCParent
  Number <- MCNumber
  Anc <- MCAnc
  Stored <- MCStored
INVARIANTS
  PathsAreTheFork
  ErrorMeansGap
CHECK_DEADLOCK FALSE
