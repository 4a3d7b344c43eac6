\* A message is moved into a folder while the folder is deleted.
CONSTANTS
    Users = {u1}
    MsgIds = {m1}
    CustomIds = {c1}
    FolderOwner <- OneOwner
    Author <- OneAuthor
    Starts <- AllInbox
    Tx = {t1, t2}
    Requests <- ChosenRequests
    Ops = {"move", "drop"}
    Loads <- TwoAtATime
    Setup = Setup
    NoRow = NoRow
    Null = Null
SPECIFICATION Spec
PROPERTIES
    NothingLost
