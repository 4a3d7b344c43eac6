\* A message is answered while its thread is made.
CONSTANTS
    Users = {u1, u2}
    Addresses = {u1, u2}
    DraftAddresses = {}
    MaxReceivers = 2
    MsgIds = {m1, m2}
    ThreadIds = {t1, t2}
    CustomIds = {}
    CustomNames = {}
    Texts = {"a"}
    MovableTypes <- AllTypes
    MaxFiles = 0
    Calls = {c1, c2}
    MaxBusy = 2
    Ops = {"send", "reply"}
    LookupFails = FALSE
    NoRow = NoRow
    Null = Null
SPECIFICATION ServiceSpec
SYMMETRY Interchangeable
CHECK_DEADLOCK FALSE
INVARIANTS
    RootInThread
