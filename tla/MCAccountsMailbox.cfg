\* Sign-ups, two at a time.
CONSTANTS
    Names = {"ann", "bob"}
    Browsers = {b1}
    Calls = {c1, c2, c3}
    MaxBusy = 2
    Ops = {"signup"}
    MaxTime = 3
    AccessTTL = 1
    RefreshTTL = 2
    NoRow = NoRow
    Null = Null
SPECIFICATION Spec
CHECK_DEADLOCK FALSE
INVARIANTS
    OwnMailbox
