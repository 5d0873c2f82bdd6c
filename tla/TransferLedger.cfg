CONSTANTS
    Tasks = {t1, t2}
    Validators = {v1, v2, v3}
    Quorum = 2
    Amounts = {0, 1}
    InitialBalance = 1
    MaxAttempts = 2
    None = None
SPECIFICATION Spec
PROPERTIES
    LedgerRefinement
\* Every task makes MaxAttempts calls and then stops: the final states are
\* the ends of the bounded runs, not a deadlock of the protocol.
CHECK_DEADLOCK FALSE
