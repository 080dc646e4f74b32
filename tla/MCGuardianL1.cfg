SPECIFICATION Spec
CONSTANTS
  NoBlock = NoBlock
  Main = Main
  Root = "r"
  MaxFaults = 1
  Block <- MCBlock
  Parent <- MCParent
  Number <- MCNumber
  Anc <- MCAnc
INVARIANTS NeverAhead
 
