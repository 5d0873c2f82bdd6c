\* Two tasks write and read one address concurrently, with a remote writer;
\* every grant names the other user, so a write of Me is allowed exactly on
\* the sequences Me owns.
CONSTANTS
    Tasks = {t1, t2}
    Addresses = {a1}
    Me = Me
    Other = Other
    Funds = 1
    MaxOps = 2
    MaxRemote = 1
    Grants = {{Other}}
    None = None
SPECIFICATION Spec
INVARIANTS
    LocalPaymentNeverAhead
\* Each task stops after MaxOps calls and the other user after MaxRemote
\* writes.
CHECK_DEADLOCK FALSE
