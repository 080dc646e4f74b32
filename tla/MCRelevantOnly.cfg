CONSTANTS
    Users = {u1, u2}
    Contracts = {c1}
    Plain = plain
    None = none
    MaxTopics = 1
    MaxLogs = 1
    MaxTxs = 3
    MaxFailures = 0
SPECIFICATION Spec
SYMMETRY Symmetry
INVARIANT RelevantOnly
CHECK_DEADLOCK FALSE
