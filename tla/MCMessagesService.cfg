\* Sends, replies, drafts and pages, two at a time.
CONSTANTS
    Users = {u1, u2}
    Addresses = {u1, u2}
    DraftAddresses = {x}
    MaxReceivers = 2
    MsgIds = {m1, m2}
    ThreadIds = {t1}
    CustomIds = {}
    CustomNames = {}
    Texts = {"a"}
    MovableTypes <- AllTypes
    MaxFiles = 1
    Calls = {c1, c2}
    MaxBusy = 2
    Ops = {"send", "draft", "page", "reply"}
    LookupFails = FALSE
    NoRow = NoRow
    Null = Null
SPECIFICATION ServiceSpec
SYMMETRY Interchangeable
CHECK_DEADLOCK FALSE
INVARIANTS
    ServiceTypeOK
    OkMeansDelivered
    ServedInFull
PROPERTIES
    ImplementsStore
