CONSTANTS
    Tasks = {t1}
    Addresses = {a1}
    Me = Me
    Other = Other
    Funds = 2
    MaxOps = 3
    MaxRemote = 1
    Grants = {{Me}, {Other}}
    None = None
SPECIFICATION Spec
INVARIANTS
    FailedWriteNotCached
\* The task stops after MaxOps calls and the other user after MaxRemote
\* writes.
CHECK_DEADLOCK FALSE
