\* Profile updates and logins, one request at a time.
CONSTANTS
    Names = {"ann", "bob"}
    Browsers = {b1}
    Calls = {c1, c2, c3}
    MaxBusy = 1
    Ops = {"signup", "login", "update"}
    MaxTime = 3
    AccessTTL = 1
    RefreshTTL = 2
    NoRow = NoRow
    Null = Null
SPECIFICATION Spec
CHECK_DEADLOCK FALSE
INVARIANTS
    RegisteredCanLogIn
