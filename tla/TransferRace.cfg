CONSTANTS
    Tasks = {t1, t2}
    Validators = {v1, v2, v3}
    Quorum = 2
    Amounts = {1, 2}
    InitialBalance = 2
    MaxAttempts = 1
    None = None
SPECIFICATION Spec
INVARIANTS
    OkOnlyForOwnTransfer
\* Every task makes MaxAttempts calls and then stops: the final states are
\* the ends of the bounded runs, not a deadlock of the protocol.
CHECK_DEADLOCK FALSE
