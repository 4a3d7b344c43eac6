\* Three requests of any kind from one browser, two at a time.
CONSTANTS
    Names = {"ann", "bob"}
    Browsers = {b1}
    Calls = {c1, c2, c3}
    MaxBusy = 2
    Ops = {"signup", "login", "refresh", "logout", "update", "upload"}
    MaxTime = 3
    AccessTTL = 1
    RefreshTTL = 2
    NoRow = NoRow
    Null = Null
SPECIFICATION Spec
CHECK_DEADLOCK FALSE
INVARIANTS
    TypeOK
    OneWinner
    AccountsComplete
    TokenNamesItsAccount
    SessionsEnd
    AvatarIsStored
    OnlyALateRefreshRemains
