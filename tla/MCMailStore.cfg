\* One message, two texts, two folders of the users' own.  Messages are moved
\* into such folders only, the callers' or others', so that the run stays small.
CONSTANTS
    Users = {u1, u2}
    MsgIds = {m1}
    ThreadIds = {t1}
    CustomIds = {c1, c2}
    CustomNames = {"work", "home"}
    Texts = {x1, x2}
    MovableTypes <- MovedTo
    MaxFiles = 1
    NoRow = NoRow
    Null = Null
SPECIFICATION Spec
SYMMETRY Interchangeable
INVARIANTS
    TypeOK
    NoDanglingReference
    SystemFolders
    FolderNamesUnique
    DraftIsPrivate
PROPERTIES
    StraysAreFiled
    SecondPlaceByOthers
    NothingLost
    ReadStaysRead
    DeliveredIsSettled
