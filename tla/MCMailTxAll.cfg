\* Every pair of operations side by side, with fairness.
CONSTANTS
    Users = {u1}
    MsgIds = {m1}
    CustomIds = {c1}
    FolderOwner <- OneOwner
    Author <- OneAuthor
    Starts <- AnyPlacement
    Tx = {t1, t2}
    Requests <- ChosenRequests
    Ops = {"spam", "move", "take", "save", "delete", "send", "drop"}
    Loads <- AnyLoad
    Setup = Setup
    NoRow = NoRow
    Null = Null
SPECIFICATION FairSpec
INVARIANTS
    TypeOK
    NoOrphan
    SendsOnce
    SentForGood
    TwoFoldersNeedTwoFilings
    NothingOnlyWhenOvertaken
PROPERTIES
    KeepsItsWord
    EveryRequestIsAnswered
    ImplementsStore
