CONSTANTS
    Users = {u1, u2}
    Contracts = {c1, c2}
    Plain = plain
    None = none
    MaxTopics = 2
    MaxLogs = 1
    MaxTxs = 3
    MaxFailures = 0
SPECIFICATION Spec
SYMMETRY Symmetry
INVARIANT ConfiguredViewers
INVARIANT OwnersSee
PROPERTY ViewersFixed
CHECK_DEADLOCK FALSE
