SPECIFICATION Spec
CONSTANTS
  WithMessages = {2}
  MaxSeqNo = 3
  MaxUid = 4
  MaxReorgs = 1
  MaxFaults = 1
INVARIANTS BundlesAreRight NoBundleSkipped OneForkKept
 
