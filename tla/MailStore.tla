------------------------------ MODULE MailStore ------------------------------
(***************************************************************************)
(* The mail store: the tables message, thread, folder,                     *)
(* folder_profile_message (fpm), profile_message (bond, read_status) and    *)
(* file, and the operations of message-repository.go that change them.     *)
(*                                                                         *)
(* Every operation is one atomic step: this module says what each request  *)
(* does when it runs alone.  MailTx refines it to the statements the       *)
(* requests really execute.  An operation that returns an error rolls its  *)
(* transaction back and changes nothing, so it is no step here.            *)
(*                                                                         *)
(* A user is identified with his profile row; Accounts treats the          *)
(* identifiers that signup really hands out.  A client may name any        *)
(* message and any folder: a guard is here only where the code checks.     *)
(* The identity columns never reuse a number; a deleted row's id is        *)
(* recycled here, which is the same because nothing refers to a deleted    *)
(* row (NoDanglingReference).                                              *)
(***************************************************************************)
EXTENDS Naturals, FiniteSets

CONSTANTS
    Users,         \* profile rows
    MsgIds,        \* ids of message rows
    ThreadIds,     \* ids of thread rows
    CustomIds,     \* ids of folder rows made by CreateFolder
    CustomNames,   \* folder names, up to case
    Texts,         \* contents of a message: topic and text
    MovableTypes,  \* the types of folder clients move messages into
    MaxFiles,      \* bound on the file rows of one message
    NoRow,         \* no row with this id
    Null           \* SQL NULL

SystemTypes == {"inbox", "sent", "draft", "spam", "trash"}

FolderIds == (Users \X SystemTypes) \cup CustomIds

MessageRow == [sender : Users, text : Texts, thread_id : ThreadIds \cup {Null}]

FolderRow ==
    [owner : Users, type : SystemTypes \cup {"custom"},
     name : SystemTypes \cup CustomNames]

ASSUME StoreAssumption ==
    /\ MaxFiles \in Nat
    /\ CustomIds \cap (Users \X SystemTypes) = {}
    /\ CustomNames \cap SystemTypes = {}
    /\ MovableTypes \subseteq SystemTypes \cup {"custom"}
    /\ NoRow \notin MessageRow \cup FolderRow \cup MsgIds
    /\ NoRow # Null
    /\ Null \notin MsgIds \cup ThreadIds

VARIABLES message, thread, folder, fpm, bond, read_status, file

vars == <<message, thread, folder, fpm, bond, read_status, file>>

-----------------------------------------------------------------------------
(* What the queries see. *)

Live == {m \in MsgIds : message[m] # NoRow}

Folders == {f \in FolderIds : folder[f] # NoRow}

FoldersOf(p) == {f \in Folders : folder[f].owner = p}

OfType(p, t) == {f \in FoldersOf(p) : folder[f].type = t}

In(m, fs) == \E f \in fs : <<m, f>> \in fpm

\* COUNT(*) > 0 over the caller's draft folder.
IsDraftBelongsToUser(p, m) == In(m, OfType(p, "draft"))

\* Seeded fault: only the user's own folders are compared.
FolderExistsAmongCustom(p, n, except) ==
    \E f \in OfType(p, "custom") \ except : folder[f].name = n

\* folderExists: the name is taken by a folder of p other than `except`.  The
\* unique index on (profile_id, lower(folder_name)) makes the same test when the
\* row is written, so the check and the write are one step.
FolderExists(p, n, except) ==
    \E f \in FoldersOf(p) \ except : folder[f].name = n

-----------------------------------------------------------------------------
(* The database after signup of every user: five system folders each. *)

Init ==
    /\ message = [m \in MsgIds |-> NoRow]
    /\ thread = [t \in ThreadIds |-> NoRow]
    /\ folder = [f \in FolderIds |->
                    IF f \in CustomIds THEN NoRow
                    ELSE [owner |-> f[1], type |-> f[2], name |-> f[2]]]
    /\ fpm = {}
    /\ bond = {}
    /\ read_status = {}
    /\ file = [m \in MsgIds |-> 0]

-----------------------------------------------------------------------------
(* Delivery. *)

InsertMessage(m, p, x, t) ==
    /\ message[m] = NoRow
    /\ message' = [message EXCEPT ![m] =
                      [sender |-> p, text |-> x, thread_id |-> t]]

\* Seeded fault: the sender gets no profile_message row.
DistributeUnbonded(m, p, q) ==
    /\ fpm' = fpm \cup ({m} \X (OfType(q, "inbox") \cup OfType(p, "sent")))
    /\ bond' = bond \cup {<<q, m>>}
    /\ UNCHANGED <<thread, folder, read_status, file>>

\* Seeded fault: the sender's copy goes to his drafts.
DistributeToDraft(m, p, q) ==
    /\ fpm' = fpm \cup ({m} \X (OfType(q, "inbox") \cup OfType(p, "draft")))
    /\ bond' = bond \cup {<<q, m>>, <<p, m>>}
    /\ UNCHANGED <<thread, folder, read_status, file>>

\* The rows both distributions insert for message m from p to q.
Distribute(m, p, q) ==
    /\ fpm' = fpm \cup ({m} \X (OfType(q, "inbox") \cup OfType(p, "sent")))
    /\ bond' = bond \cup {<<q, m>>, <<p, m>>}
    /\ UNCHANGED <<thread, folder, read_status, file>>

SaveMessageWithFolderDistribution(p, q, m, x) ==
    InsertMessage(m, p, x, Null) /\ Distribute(m, p, q)

ReplyToMessageWithFolderDistribution(p, q, m, x, t) ==
    thread[t] # NoRow /\ InsertMessage(m, p, x, t) /\ Distribute(m, p, q)

-----------------------------------------------------------------------------
(* Threads and files. *)

SaveThread(m, t) ==
    /\ m \in Live
    /\ thread[t] = NoRow
    /\ thread' = [thread EXCEPT ![t] = m]
    /\ UNCHANGED <<message, folder, fpm, bond, read_status, file>>

SaveThreadIdToMessage(m, t) ==
    /\ m \in Live
    /\ thread[t] # NoRow
    /\ message' = [message EXCEPT ![m].thread_id = t]
    /\ UNCHANGED <<thread, folder, fpm, bond, read_status, file>>

SaveFile(m) ==
    /\ m \in Live
    /\ file[m] < MaxFiles
    /\ file' = [file EXCEPT ![m] = @ + 1]
    /\ UNCHANGED <<message, thread, folder, fpm, bond, read_status>>

-----------------------------------------------------------------------------
(* Reading and filing. *)

MarkMessageAsRead(p, m) ==
    /\ m \in Live
    /\ bond' = bond \cup {<<p, m>>}
    /\ read_status' = read_status \cup {<<p, m>>}
    /\ UNCHANGED <<message, thread, folder, fpm, file>>

\* Placements of m in the folders fs.
Rows(m, fs) == {m} \X fs

\* Seeded fault: the message stays in the other folders.
MarkMessageAsSpamCopies(p, m) ==
    /\ m \in Live
    /\ \E s \in OfType(p, "spam") : fpm' = fpm \cup {<<m, s>>}
    /\ UNCHANGED <<message, thread, folder, bond, read_status, file>>

MarkMessageAsSpam(p, m) ==
    /\ m \in Live
    /\ \E s \in OfType(p, "spam") :
         fpm' = (fpm \cup {<<m, s>>})
                   \ Rows(m, FoldersOf(p) \ OfType(p, "spam"))
    /\ UNCHANGED <<message, thread, folder, bond, read_status, file>>

MoveToFolder(p, m, f) ==
    /\ m \in Live
    /\ f \in Folders
    /\ fpm' = (fpm \ Rows(m, FoldersOf(p))) \cup {<<m, f>>}
    /\ UNCHANGED <<message, thread, folder, bond, read_status, file>>

DeleteMessageFromFolder(p, m, f) ==
    /\ f \in FoldersOf(p)
    /\ <<m, f>> \in fpm
    /\ fpm' = fpm \ {<<m, f>>}
    /\ UNCHANGED <<message, thread, folder, bond, read_status, file>>

-----------------------------------------------------------------------------
(* Drafts. *)

SaveNewDraft(p, m, x) ==
    /\ InsertMessage(m, p, x, Null)
    /\ \E d \in OfType(p, "draft") : fpm' = fpm \cup {<<m, d>>}
    /\ bond' = bond \cup {<<p, m>>}
    /\ UNCHANGED <<thread, folder, read_status, file>>

\* Seeded fault: the upsert writes read_status = false over the row.
SaveExistingDraftUnread(p, m, x) ==
    /\ IsDraftBelongsToUser(p, m)
    /\ message' = [message EXCEPT ![m].text = x]
    /\ bond' = bond \cup {<<p, m>>}
    /\ read_status' = read_status \ {<<p, m>>}
    /\ UNCHANGED <<thread, folder, fpm, file>>

\* Seeded fault: no check that the message is the caller's draft.
SaveExistingDraftUnchecked(p, m, x) ==
    /\ m \in Live
    /\ message' = [message EXCEPT ![m].text = x]
    /\ bond' = bond \cup {<<p, m>>}
    /\ UNCHANGED <<thread, folder, fpm, read_status, file>>

SaveExistingDraft(p, m, x) ==
    /\ IsDraftBelongsToUser(p, m)
    /\ message' = [message EXCEPT ![m].text = x]
    /\ bond' = bond \cup {<<p, m>>}
    /\ UNCHANGED <<thread, folder, fpm, read_status, file>>

\* Seeded fault: read marks survive the message.
CascadeMessageKeepingReads(m) ==
    /\ fpm' = {e \in fpm : e[1] # m}
    /\ bond' = {e \in bond : e[2] # m}
    /\ UNCHANGED read_status
    /\ file' = [file EXCEPT ![m] = 0]
    /\ thread' = [t \in ThreadIds |-> IF thread[t] = m THEN Null ELSE thread[t]]

\* Seeded fault: threads keep naming the deleted root.
CascadeMessageKeepingRoots(m) ==
    /\ fpm' = {e \in fpm : e[1] # m}
    /\ bond' = {e \in bond : e[2] # m}
    /\ read_status' = {e \in read_status : e[2] # m}
    /\ file' = [file EXCEPT ![m] = 0]
    /\ UNCHANGED thread

\* The rows that reference a deleted message go with it.
CascadeMessage(m) ==
    /\ fpm' = {e \in fpm : e[1] # m}
    /\ bond' = {e \in bond : e[2] # m}
    /\ read_status' = {e \in read_status : e[2] # m}
    /\ file' = [file EXCEPT ![m] = 0]
    /\ thread' = [t \in ThreadIds |-> IF thread[t] = m THEN Null ELSE thread[t]]

DeleteDraft(p, m) ==
    /\ IsDraftBelongsToUser(p, m)
    /\ message' = [message EXCEPT ![m] = NoRow]
    /\ CascadeMessage(m)
    /\ UNCHANGED folder

\* SendDraft files the message with its sender only: the drafts table keeps no
\* receiver.
SendDraft(p, m) ==
    /\ IsDraftBelongsToUser(p, m)
    /\ \E s \in OfType(p, "sent"), i \in OfType(p, "inbox") :
         /\ <<m, s>> \notin fpm
         /\ fpm' = (fpm \ Rows(m, OfType(p, "draft"))) \cup {<<m, s>>, <<m, i>>}
    /\ UNCHANGED <<message, thread, folder, bond, read_status, file>>

-----------------------------------------------------------------------------
(* Folders. *)

\* idx_folder_profile_lower_name: no other folder of p has the name.
NameFree(p, n, except) == ~FolderExists(p, n, except)

CreateFolder(p, f, n) ==
    /\ NameFree(p, n, {})
    /\ folder[f] = NoRow
    /\ folder' = [folder EXCEPT ![f] = [owner |-> p, type |-> "custom", name |-> n]]
    /\ UNCHANGED <<message, thread, fpm, bond, read_status, file>>

RenameFolder(p, f, n) ==
    /\ NameFree(p, n, {f})
    /\ f \in OfType(p, "custom")
    /\ folder' = [folder EXCEPT ![f].name = n]
    /\ UNCHANGED <<message, thread, fpm, bond, read_status, file>>

\* Seeded fault: any folder may be deleted.
DeleteAnyFolder(p, f) ==
    /\ f \in FoldersOf(p)
    /\ fpm' = {e \in fpm : e[2] # f}
    /\ folder' = [folder EXCEPT ![f] = NoRow]
    /\ UNCHANGED <<message, thread, bond, read_status, file>>

\* Seeded fault: the messages are not moved to the trash first.
DeleteFolderWithContents(p, f) ==
    /\ f \in OfType(p, "custom")
    /\ fpm' = {e \in fpm : e[2] # f}
    /\ folder' = [folder EXCEPT ![f] = NoRow]
    /\ UNCHANGED <<message, thread, bond, read_status, file>>

DeleteFolder(p, f) ==
    /\ f \in OfType(p, "custom")
    /\ \E b \in OfType(p, "trash") :
         fpm' = {e \in fpm : e[2] # f}
                   \cup {<<e[1], b>> : e \in {r \in fpm : r[2] = f}}
    /\ folder' = [folder EXCEPT ![f] = NoRow]
    /\ UNCHANGED <<message, thread, bond, read_status, file>>

-----------------------------------------------------------------------------

\* IsUsersMessage: the messages p has a profile_message row for.
Known(p) == {m \in MsgIds : <<p, m>> \in bond}

Deliver ==
    \E p, q \in Users, m \in MsgIds, x \in Texts :
        \/ SaveMessageWithFolderDistribution(p, q, m, x)
        \/ \E t \in ThreadIds : ReplyToMessageWithFolderDistribution(p, q, m, x, t)

ThreadOrFile ==
    \E m \in MsgIds :
        \/ SaveFile(m)
        \/ \E t \in ThreadIds : SaveThread(m, t) \/ SaveThreadIdToMessage(m, t)

\* Only the message page asks whether the message is the caller's; a message is
\* marked as spam by anybody, and moved by anybody into anybody's folder.
Filing ==
    \E p \in Users, m \in MsgIds :
        \/ m \in Known(p) /\ MarkMessageAsRead(p, m)
        \/ MarkMessageAsSpam(p, m)
        \/ \E f \in Folders : folder[f].type \in MovableTypes /\ MoveToFolder(p, m, f)
        \/ \E f \in FolderIds : DeleteMessageFromFolder(p, m, f)

Drafting ==
    \E p \in Users, m \in MsgIds :
        \/ DeleteDraft(p, m)
        \/ SendDraft(p, m)
        \/ \E x \in Texts : SaveNewDraft(p, m, x) \/ SaveExistingDraft(p, m, x)

ManageFolder ==
    \E p \in Users, f \in FolderIds :
        \/ \E n \in CustomNames \cup SystemTypes :
              (f \in CustomIds /\ CreateFolder(p, f, n)) \/ RenameFolder(p, f, n)
        \/ DeleteFolder(p, f)

Next == Deliver \/ ThreadOrFile \/ Filing \/ Drafting \/ ManageFolder

Spec == Init /\ [][Next]_vars

-----------------------------------------------------------------------------
(* What the store promises. *)

\* Every table holds rows of its columns' types.
TypeOK ==
    /\ message \in [MsgIds -> MessageRow \cup {NoRow}]
    /\ thread \in [ThreadIds -> MsgIds \cup {Null, NoRow}]
    /\ folder \in [FolderIds -> FolderRow \cup {NoRow}]
    /\ fpm \subseteq MsgIds \X FolderIds
    /\ bond \subseteq Users \X MsgIds
    /\ read_status \subseteq bond
    /\ file \in [MsgIds -> 0 .. MaxFiles]

\* No row refers to a row that is gone: the cascades of the schema and the
\* order of DeleteFolder and DeleteDraft leave nothing behind.
NoDanglingReference ==
    /\ \A e \in fpm : e[1] \in Live /\ e[2] \in Folders
    /\ \A e \in bond : e[2] \in Live
    /\ \A m \in MsgIds \ Live : file[m] = 0
    /\ \A m \in Live : message[m].thread_id # Null => thread[message[m].thread_id] # NoRow
    /\ \A t \in ThreadIds : thread[t] \in MsgIds => thread[t] \in Live

\* A user always has exactly one folder of each system type, whatever folder
\* requests he made: every "SELECT id FROM folder WHERE folder_type = ..." that
\* the operations scan into one id relies on it.
SystemFolders ==
    \A p \in Users, t \in SystemTypes :
        \E f \in OfType(p, t) : \A g \in OfType(p, t) : g = f

\* The folders of one user have different names, up to case.
FolderNamesUnique ==
    \A f, g \in Folders :
        folder[f].owner = folder[g].owner /\ folder[f].name = folder[g].name => f = g

\* A message that lies in a folder of p without a profile_message row of p: the
\* folder listing shows it (some reader's row is enough), the counters and the
\* message page do not.
Stray(p, m) == <<p, m>> \notin bond /\ In(m, FoldersOf(p))

\* A message becomes a stray only by the two requests that file what they were
\* not asked to know: the user marks a stranger's message as spam, or somebody
\* moves it into his folder.  Deliveries, drafts, folder deletions and the
\* upserts and cascades on both tables never part a placement from its row.
StraysAreFiled ==
    [][\A p \in Users, m \in MsgIds : Stray(p, m)' /\ ~Stray(p, m) =>
          \/ MarkMessageAsSpam(p, m)
          \/ \E q \in Users, f \in FoldersOf(p) : MoveToFolder(q, m, f)]_vars

Holding(p, m) == {f \in FoldersOf(p) : <<m, f>> \in fpm}

\* p finds m in two of his folders at most as the inbox and sent copies of what
\* he sent himself; moving a message then moves all of it.
Exclusive(p, m) ==
    \A f, g \in Holding(p, m) : f # g => {folder[f].type, folder[g].type} = {"inbox", "sent"}

\* Whatever a user does with his messages and folders, a draft, a spam message
\* or a filed one of his gets into a second folder of his only when somebody
\* else moves it there, which nothing forbids.
SecondPlaceByOthers ==
    [][\A p \in Users, m \in MsgIds : ~Exclusive(p, m)' /\ Exclusive(p, m) =>
          \E q \in Users \ {p}, f \in FoldersOf(p) : MoveToFolder(q, m, f)]_vars

\* A message leaves the last folder a user has it in only when somebody deletes
\* it as a draft, when the user takes it out of that folder by hand, or when he
\* moves it into somebody else's folder, which takes it out of all of his.
\* Renaming and deleting folders and moving messages among his own never loses
\* one.
NothingLost ==
    [][\A p \in Users, m \in Live :
          In(m, FoldersOf(p)) /\ ~In(m, FoldersOf(p))' =>
              \/ m \notin Live'
              \/ \E f \in FoldersOf(p) : DeleteMessageFromFolder(p, m, f)
              \/ \E f \in Folders \ FoldersOf(p) : MoveToFolder(p, m, f)]_vars

\* What a user has read stays read while the message exists: the upserts of
\* later deliveries and drafts keep the row that is there.
ReadStaysRead ==
    [][\A e \in read_status : e \in read_status' \/ e[2] \notin Live']_vars

\* A message somebody else holds is settled.
Delivered(m) == \E e \in bond : e[2] = m /\ e[1] # message[m].sender

\* While no client moves messages into the draft folder, what lies there was
\* written by its owner and concerns nobody else.
DraftIsPrivate ==
    \A p \in Users : \A m \in MsgIds :
        IsDraftBelongsToUser(p, m) => message[m].sender = p /\ ~Delivered(m)

\* A delivered message is neither edited nor deleted by anybody.
DeliveredIsSettled ==
    [][\A m \in Live : Delivered(m) =>
          m \in Live' /\ message'[m].text = message[m].text]_vars

=============================================================================
