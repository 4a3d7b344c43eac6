--------------------------- MODULE MailStoreProofs ---------------------------
(***************************************************************************)
(* The invariants of MailStore for every number of users, messages and     *)
(* folders.  Step lemmas name, for each table, the operations that write   *)
(* it; every proof then treats those and nothing else.                     *)
(***************************************************************************)
EXTENDS MailStore, TLAPS

USE StoreAssumption DEF FolderIds

-----------------------------------------------------------------------------
(* Which operations write which table. *)

\* A step that changes the folder table creates, renames or deletes a folder.
LEMMA FolderWriters ==
    ASSUME [Next]_vars
    PROVE  \/ UNCHANGED folder
           \/ \E p \in Users, f \in FolderIds, n \in CustomNames \cup SystemTypes :
                 (f \in CustomIds /\ CreateFolder(p, f, n)) \/ RenameFolder(p, f, n)
           \/ \E p \in Users, f \in FolderIds : DeleteFolder(p, f)
<1>1. CASE UNCHANGED vars
  BY <1>1 DEF vars
<1>2. CASE Deliver
  BY <1>2 DEF Deliver, SaveMessageWithFolderDistribution,
     ReplyToMessageWithFolderDistribution, Distribute
<1>3. CASE ThreadOrFile
  BY <1>3 DEF ThreadOrFile, SaveFile, SaveThread, SaveThreadIdToMessage
<1>4. CASE Filing
  BY <1>4 DEF Filing, MarkMessageAsRead, MarkMessageAsSpam, MoveToFolder,
     DeleteMessageFromFolder
<1>5. CASE Drafting
  BY <1>5 DEF Drafting, SaveNewDraft, SaveExistingDraft, DeleteDraft, SendDraft
<1>6. CASE ManageFolder
  BY <1>6 DEF ManageFolder
<1>. QED
  BY <1>1, <1>2, <1>3, <1>4, <1>5, <1>6 DEF Next

-----------------------------------------------------------------------------

\* Typing survives every step from a state without dangling references (without
\* them SaveDraft could update a message that is not there).
LEMMA TypeStep ==
    ASSUME TypeOK, NoDanglingReference, [Next]_vars
    PROVE  TypeOK'
<1>1. CASE UNCHANGED vars
  BY <1>1 DEF TypeOK, vars
<1>2. CASE Deliver
  <2>. PICK p \in Users, q \in Users, m \in MsgIds, x \in Texts, t \in ThreadIds \cup {Null} :
         InsertMessage(m, p, x, t) /\ Distribute(m, p, q)
    BY <1>2 DEF Deliver, SaveMessageWithFolderDistribution,
       ReplyToMessageWithFolderDistribution
  <2>1. message' \in [MsgIds -> MessageRow \cup {NoRow}]
    BY DEF TypeOK, InsertMessage, MessageRow
  <2>2. fpm' \subseteq MsgIds \X FolderIds
    BY DEF TypeOK, Distribute, OfType, FoldersOf, Folders
  <2>3. bond' \subseteq Users \X MsgIds /\ read_status' \subseteq bond'
    BY DEF TypeOK, Distribute
  <2>. QED
    BY <2>1, <2>2, <2>3 DEF TypeOK, Distribute
<1>3. CASE ThreadOrFile
  <2>1. ASSUME NEW m \in MsgIds, SaveFile(m) PROVE TypeOK'
    BY <2>1 DEF TypeOK, SaveFile
  <2>2. ASSUME NEW m \in MsgIds, NEW t \in ThreadIds, SaveThread(m, t) PROVE TypeOK'
    BY <2>2 DEF TypeOK, SaveThread
  <2>3. ASSUME NEW m \in MsgIds, NEW t \in ThreadIds, SaveThreadIdToMessage(m, t)
        PROVE TypeOK'
    <3>1. message'[m] \in MessageRow
      BY <2>3 DEF TypeOK, SaveThreadIdToMessage, Live, MessageRow
    <3>. QED
      BY <2>3, <3>1 DEF TypeOK, SaveThreadIdToMessage
  <2>. QED
    BY <1>3, <2>1, <2>2, <2>3 DEF ThreadOrFile
<1>4. CASE Filing
  <2>1. ASSUME NEW p \in Users, NEW m \in MsgIds, MarkMessageAsRead(p, m) PROVE TypeOK'
    BY <2>1 DEF TypeOK, MarkMessageAsRead
  <2>2. ASSUME NEW p \in Users, NEW m \in MsgIds, MarkMessageAsSpam(p, m) PROVE TypeOK'
    BY <2>2 DEF TypeOK, MarkMessageAsSpam, OfType, FoldersOf, Folders
  <2>3. ASSUME NEW p \in Users, NEW m \in MsgIds, NEW f \in FolderIds, MoveToFolder(p, m, f)
        PROVE TypeOK'
    BY <2>3 DEF TypeOK, MoveToFolder
  <2>4. ASSUME NEW p \in Users, NEW m \in MsgIds, NEW f \in FolderIds,
               DeleteMessageFromFolder(p, m, f)
        PROVE TypeOK'
    BY <2>4 DEF TypeOK, DeleteMessageFromFolder
  <2>. QED
    BY <1>4, <2>1, <2>2, <2>3, <2>4 DEF Filing, Folders
<1>5. CASE Drafting
  <2>1. ASSUME NEW p \in Users, NEW m \in MsgIds, DeleteDraft(p, m) PROVE TypeOK'
    BY <2>1 DEF TypeOK, DeleteDraft, CascadeMessage
  <2>2. ASSUME NEW p \in Users, NEW m \in MsgIds, SendDraft(p, m) PROVE TypeOK'
    BY <2>2 DEF TypeOK, SendDraft, OfType, FoldersOf, Folders
  <2>3. ASSUME NEW p \in Users, NEW m \in MsgIds, NEW x \in Texts, SaveNewDraft(p, m, x)
        PROVE TypeOK'
    <3>1. message' \in [MsgIds -> MessageRow \cup {NoRow}]
      BY <2>3 DEF TypeOK, SaveNewDraft, InsertMessage, MessageRow
    <3>. QED
      BY <2>3, <3>1 DEF TypeOK, SaveNewDraft, OfType, FoldersOf, Folders
  <2>4. ASSUME NEW p \in Users, NEW m \in MsgIds, NEW x \in Texts,
               SaveExistingDraft(p, m, x)
        PROVE TypeOK'
    <3>1. m \in Live
      BY <2>4 DEF SaveExistingDraft, IsDraftBelongsToUser, In, NoDanglingReference
    <3>2. message'[m] \in MessageRow
      BY <2>4, <3>1 DEF TypeOK, SaveExistingDraft, MessageRow, Live
    <3>. QED
      BY <2>4, <3>2 DEF TypeOK, SaveExistingDraft
  <2>. QED
    BY <1>5, <2>1, <2>2, <2>3, <2>4 DEF Drafting
<1>6. CASE ManageFolder
  <2>1. ASSUME NEW p \in Users, NEW f \in FolderIds, NEW n \in CustomNames \cup SystemTypes,
               CreateFolder(p, f, n)
        PROVE TypeOK'
    BY <2>1 DEF TypeOK, CreateFolder, FolderRow
  <2>2. ASSUME NEW p \in Users, NEW f \in FolderIds, NEW n \in CustomNames \cup SystemTypes,
               RenameFolder(p, f, n)
        PROVE TypeOK'
    <3>1. folder'[f] \in FolderRow
      BY <2>2 DEF TypeOK, RenameFolder, FolderRow, OfType, FoldersOf, Folders
    <3>. QED
      BY <2>2, <3>1 DEF TypeOK, RenameFolder
  <2>3. ASSUME NEW p \in Users, NEW f \in FolderIds, DeleteFolder(p, f) PROVE TypeOK'
    BY <2>3 DEF TypeOK, DeleteFolder, OfType, FoldersOf, Folders
  <2>. QED
    BY <1>6, <2>1, <2>2, <2>3 DEF ManageFolder
<1>. QED
  BY <1>1, <1>2, <1>3, <1>4, <1>5, <1>6 DEF Next

\* A step that inserts a message files it in existing folders and bonds it.
LEMMA RefDeliver ==
    ASSUME TypeOK, NoDanglingReference, Deliver
    PROVE  NoDanglingReference'
<1>. PICK p \in Users, q \in Users, m \in MsgIds, x \in Texts, t \in ThreadIds \cup {Null} :
       /\ InsertMessage(m, p, x, t)
       /\ Distribute(m, p, q)
       /\ t = Null \/ thread[t] # NoRow
  BY DEF Deliver, SaveMessageWithFolderDistribution, ReplyToMessageWithFolderDistribution
<1>1. message'[m] = [sender |-> p, text |-> x, thread_id |-> t] /\ message'[m] # NoRow
  BY DEF InsertMessage, TypeOK, MessageRow
<1>2. Live' = Live \cup {m} /\ Folders' = Folders
  BY <1>1 DEF Live, Folders, InsertMessage, Distribute, TypeOK
<1>3. \A e \in fpm' : e[1] \in Live' /\ e[2] \in Folders'
  BY <1>2 DEF Distribute, NoDanglingReference, OfType, FoldersOf
<1>4. \A e \in bond' : e[2] \in Live'
  BY <1>2 DEF Distribute, NoDanglingReference
<1>5. \A n \in MsgIds \ Live' : file'[n] = 0
  BY <1>2 DEF Distribute, NoDanglingReference
<1>6. \A n \in Live' : message'[n].thread_id # Null => thread'[message'[n].thread_id] # NoRow
  BY <1>1, <1>2 DEF Distribute, InsertMessage, NoDanglingReference, Live
<1>7. \A u \in ThreadIds : thread'[u] \in MsgIds => thread'[u] \in Live'
  BY <1>2 DEF Distribute, NoDanglingReference
<1>. QED
  BY <1>3, <1>4, <1>5, <1>6, <1>7 DEF NoDanglingReference

\* A step that only moves placements within live messages and existing folders.
LEMMA RefPlacement ==
    ASSUME NoDanglingReference, UNCHANGED <<message, thread, folder, file>>,
           \A e \in fpm' : e[1] \in Live /\ e[2] \in Folders,
           \A e \in bond' : e[2] \in Live
    PROVE  NoDanglingReference'
<1>1. Live' = Live /\ Folders' = Folders
  BY DEF Live, Folders
<1>. QED
  BY <1>1 DEF NoDanglingReference

LEMMA RefThreadOrFile ==
    ASSUME TypeOK, NoDanglingReference, ThreadOrFile
    PROVE  NoDanglingReference'
<1>1. ASSUME NEW m \in MsgIds, SaveFile(m) PROVE NoDanglingReference'
  <2>1. Live' = Live /\ Folders' = Folders
    BY <1>1 DEF SaveFile, Live, Folders
  <2>. QED
    BY <1>1, <2>1 DEF SaveFile, NoDanglingReference, TypeOK
<1>2. ASSUME NEW m \in MsgIds, NEW t \in ThreadIds, SaveThread(m, t)
      PROVE  NoDanglingReference'
  <2>1. Live' = Live /\ Folders' = Folders
    BY <1>2 DEF SaveThread, Live, Folders
  <2>2. \A n \in Live' : message'[n].thread_id # Null => thread'[message'[n].thread_id] # NoRow
    BY <1>2, <2>1 DEF SaveThread, NoDanglingReference, TypeOK, StoreAssumption
  <2>3. \A u \in ThreadIds : thread'[u] \in MsgIds => thread'[u] \in Live'
    BY <1>2, <2>1 DEF SaveThread, NoDanglingReference, TypeOK
  <2>. QED
    BY <1>2, <2>1, <2>2, <2>3 DEF SaveThread, NoDanglingReference
<1>3. ASSUME NEW m \in MsgIds, NEW t \in ThreadIds, SaveThreadIdToMessage(m, t)
      PROVE  NoDanglingReference'
  <2>1. message'[m] = [message[m] EXCEPT !.thread_id = t] /\ message'[m] \in MessageRow
    BY <1>3 DEF SaveThreadIdToMessage, TypeOK, Live, MessageRow
  <2>2. Live' = Live /\ Folders' = Folders
    BY <1>3, <2>1 DEF SaveThreadIdToMessage, Live, Folders, TypeOK
  <2>3. \A n \in Live' : message'[n].thread_id # Null => thread'[message'[n].thread_id] # NoRow
    <3>1. message'[m].thread_id = t
      BY <1>3 DEF SaveThreadIdToMessage, TypeOK, Live, MessageRow
    <3>2. \A n \in Live : n # m => message'[n] = message[n]
      BY <1>3 DEF SaveThreadIdToMessage, TypeOK
    <3>. QED
      BY <1>3, <2>2, <3>1, <3>2 DEF SaveThreadIdToMessage, NoDanglingReference, Live
  <2>. QED
    BY <1>3, <2>2, <2>3 DEF SaveThreadIdToMessage, NoDanglingReference
<1>. QED
  BY <1>1, <1>2, <1>3 DEF ThreadOrFile

LEMMA RefFiling ==
    ASSUME TypeOK, NoDanglingReference, Filing
    PROVE  NoDanglingReference'
<1>1. ASSUME NEW p \in Users, NEW m \in MsgIds, MarkMessageAsRead(p, m)
      PROVE  NoDanglingReference'
  BY <1>1, RefPlacement DEF MarkMessageAsRead, NoDanglingReference
<1>2. ASSUME NEW p \in Users, NEW m \in MsgIds, MarkMessageAsSpam(p, m)
      PROVE  NoDanglingReference'
  BY <1>2, RefPlacement DEF MarkMessageAsSpam, NoDanglingReference, OfType, FoldersOf
<1>3. ASSUME NEW p \in Users, NEW m \in MsgIds, NEW f \in FolderIds, MoveToFolder(p, m, f)
      PROVE  NoDanglingReference'
  BY <1>3, RefPlacement DEF MoveToFolder, NoDanglingReference
<1>4. ASSUME NEW p \in Users, NEW m \in MsgIds, NEW f \in FolderIds,
             DeleteMessageFromFolder(p, m, f)
      PROVE  NoDanglingReference'
  BY <1>4, RefPlacement DEF DeleteMessageFromFolder, NoDanglingReference
<1>. QED
  BY <1>1, <1>2, <1>3, <1>4 DEF Filing, Folders

LEMMA RefDrafting ==
    ASSUME TypeOK, NoDanglingReference, Drafting
    PROVE  NoDanglingReference'
<1>1. ASSUME NEW p \in Users, NEW m \in MsgIds, DeleteDraft(p, m)
      PROVE  NoDanglingReference'
  <2>1. Live' = Live \ {m} /\ Folders' = Folders
    BY <1>1 DEF DeleteDraft, Live, Folders, TypeOK
  <2>2. \A n \in Live' : message'[n] = message[n]
    BY <1>1, <2>1 DEF DeleteDraft, TypeOK, Live
  <2>3. \A n \in Live' : message'[n].thread_id # Null => thread'[message'[n].thread_id] # NoRow
    <3>1. ASSUME NEW n \in Live', message[n].thread_id # Null
          PROVE  thread'[message[n].thread_id] # NoRow
      <4>1. message[n] \in MessageRow /\ message[n].thread_id \in ThreadIds
        BY <2>1, <3>1 DEF TypeOK, Live, MessageRow
      <4>. QED
        BY <1>1, <2>1, <3>1, <4>1 DEF DeleteDraft, CascadeMessage, NoDanglingReference, StoreAssumption
    <3>. QED
      BY <2>2, <3>1
  <2>4. \A u \in ThreadIds : thread'[u] \in MsgIds => thread'[u] \in Live'
    BY <1>1, <2>1 DEF DeleteDraft, CascadeMessage, NoDanglingReference, StoreAssumption
  <2>5. \A n \in MsgIds \ Live' : file'[n] = 0
    BY <1>1, <2>1 DEF DeleteDraft, CascadeMessage, NoDanglingReference, TypeOK
  <2>6. (\A e \in fpm' : e[1] \in Live' /\ e[2] \in Folders') /\ (\A e \in bond' : e[2] \in Live')
    BY <1>1, <2>1 DEF DeleteDraft, CascadeMessage, NoDanglingReference
  <2>. QED
    BY <2>3, <2>4, <2>5, <2>6 DEF NoDanglingReference
<1>2. ASSUME NEW p \in Users, NEW m \in MsgIds, SendDraft(p, m)
      PROVE  NoDanglingReference'
  <2>1. m \in Live
    BY <1>2 DEF SendDraft, IsDraftBelongsToUser, In, NoDanglingReference
  <2>. QED
    BY <1>2, <2>1, RefPlacement DEF SendDraft, NoDanglingReference, OfType, FoldersOf, Rows
<1>3. ASSUME NEW p \in Users, NEW m \in MsgIds, NEW x \in Texts, SaveNewDraft(p, m, x)
      PROVE  NoDanglingReference'
  <2>1. message'[m] = [sender |-> p, text |-> x, thread_id |-> Null] /\ message'[m] # NoRow
    BY <1>3 DEF SaveNewDraft, InsertMessage, TypeOK, MessageRow
  <2>2. Live' = Live \cup {m} /\ Folders' = Folders
    BY <1>3, <2>1 DEF Live, Folders, SaveNewDraft, InsertMessage, TypeOK
  <2>3. (\A e \in fpm' : e[1] \in Live' /\ e[2] \in Folders') /\ (\A e \in bond' : e[2] \in Live')
    BY <1>3, <2>2 DEF SaveNewDraft, NoDanglingReference, OfType, FoldersOf
  <2>4. \A n \in Live' : message'[n].thread_id # Null => thread'[message'[n].thread_id] # NoRow
    BY <1>3, <2>1, <2>2 DEF SaveNewDraft, InsertMessage, NoDanglingReference, Live
  <2>. QED
    BY <1>3, <2>2, <2>3, <2>4 DEF SaveNewDraft, NoDanglingReference
<1>4. ASSUME NEW p \in Users, NEW m \in MsgIds, NEW x \in Texts, SaveExistingDraft(p, m, x)
      PROVE  NoDanglingReference'
  <2>1. m \in Live
    BY <1>4 DEF SaveExistingDraft, IsDraftBelongsToUser, In, NoDanglingReference
  <2>2. message'[m] \in MessageRow /\ message'[m].thread_id = message[m].thread_id
    BY <1>4, <2>1 DEF SaveExistingDraft, TypeOK, Live, MessageRow
  <2>3. \A n \in MsgIds : n # m => message'[n] = message[n]
    BY <1>4 DEF SaveExistingDraft, TypeOK
  <2>4. Live' = Live /\ Folders' = Folders
    BY <1>4, <2>1, <2>2, <2>3 DEF SaveExistingDraft, Live, Folders
  <2>5. \A n \in Live' : message'[n].thread_id # Null => thread'[message'[n].thread_id] # NoRow
    BY <1>4, <2>2, <2>3, <2>4 DEF SaveExistingDraft, NoDanglingReference, Live
  <2>. QED
    BY <1>4, <2>1, <2>4, <2>5 DEF SaveExistingDraft, NoDanglingReference
<1>. QED
  BY <1>1, <1>2, <1>3, <1>4 DEF Drafting

LEMMA RefManageFolder ==
    ASSUME TypeOK, NoDanglingReference, ManageFolder
    PROVE  NoDanglingReference'
<1>1. ASSUME NEW p \in Users, NEW f \in FolderIds, NEW n \in CustomNames \cup SystemTypes,
             CreateFolder(p, f, n)
      PROVE  NoDanglingReference'
  <2>1. Live' = Live /\ Folders \subseteq Folders'
    <3>1. folder'[f] # NoRow
      BY <1>1 DEF CreateFolder, TypeOK, FolderRow
    <3>. QED
      BY <1>1, <3>1 DEF CreateFolder, Live, Folders, TypeOK
  <2>. QED
    BY <1>1, <2>1 DEF CreateFolder, NoDanglingReference
<1>2. ASSUME NEW p \in Users, NEW f \in FolderIds, NEW n \in CustomNames \cup SystemTypes,
             RenameFolder(p, f, n)
      PROVE  NoDanglingReference'
  <2>1. Live' = Live /\ Folders \subseteq Folders'
    <3>1. folder'[f] # NoRow
      BY <1>2 DEF RenameFolder, TypeOK, FolderRow, OfType, FoldersOf, Folders
    <3>. QED
      BY <1>2, <3>1 DEF RenameFolder, Live, Folders, TypeOK
  <2>. QED
    BY <1>2, <2>1 DEF RenameFolder, NoDanglingReference
<1>3. ASSUME NEW p \in Users, NEW f \in FolderIds, DeleteFolder(p, f)
      PROVE  NoDanglingReference'
  <2>1. Live' = Live /\ Folders' = Folders \ {f}
    BY <1>3 DEF DeleteFolder, Live, Folders, TypeOK
  <2>2. PICK b \in OfType(p, "trash") :
          fpm' = {e \in fpm : e[2] # f} \cup {<<e[1], b>> : e \in {r \in fpm : r[2] = f}}
    BY <1>3 DEF DeleteFolder
  <2>3. b \in Folders /\ b # f
    BY <1>3 DEF DeleteFolder, OfType, FoldersOf
  <2>4. \A e \in fpm' : e[1] \in Live' /\ e[2] \in Folders'
    BY <2>1, <2>2, <2>3 DEF NoDanglingReference
  <2>. QED
    BY <1>3, <2>1, <2>4 DEF DeleteFolder, NoDanglingReference
<1>. QED
  BY <1>1, <1>2, <1>3 DEF ManageFolder

\* Nothing dangles after any step.
LEMMA RefStep ==
    ASSUME TypeOK, NoDanglingReference, [Next]_vars
    PROVE  NoDanglingReference'
<1>1. CASE UNCHANGED vars
  BY <1>1 DEF vars, NoDanglingReference, Live, Folders
<1>. QED
  BY <1>1, RefDeliver, RefThreadOrFile, RefFiling, RefDrafting, RefManageFolder DEF Next

-----------------------------------------------------------------------------
(* Folders. *)

\* The row CreateFolder and RenameFolder leave under id f.
PutFolder(p, f, n) ==
    folder' = [folder EXCEPT ![f] = [owner |-> p, type |-> "custom", name |-> n]]

CreateStep(p, f, n) == folder[f] = NoRow /\ ~FolderExists(p, n, {}) /\ PutFolder(p, f, n)

RenameStep(p, f, n) ==
    f \in OfType(p, "custom") /\ ~FolderExists(p, n, {f}) /\ PutFolder(p, f, n)

DeleteStep(p, f) == f \in OfType(p, "custom") /\ folder' = [folder EXCEPT ![f] = NoRow]

\* What the three folder operations do to the table.
LEMMA FolderStep ==
    ASSUME TypeOK, [Next]_vars
    PROVE  \/ UNCHANGED folder
           \/ \E p \in Users, f \in FolderIds, n \in CustomNames \cup SystemTypes :
                 CreateStep(p, f, n) \/ RenameStep(p, f, n)
           \/ \E p \in Users, f \in FolderIds : DeleteStep(p, f)
<1>1. ASSUME NEW p \in Users, NEW f \in FolderIds, NEW n \in CustomNames \cup SystemTypes,
             RenameFolder(p, f, n)
      PROVE  RenameStep(p, f, n)
  <2>1. folder[f] \in FolderRow /\ folder[f].owner = p /\ folder[f].type = "custom"
    BY <1>1 DEF RenameFolder, OfType, FoldersOf, Folders, TypeOK
  <2>2. [folder[f] EXCEPT !.name = n] = [owner |-> p, type |-> "custom", name |-> n]
    BY <2>1 DEF FolderRow
  <2>3. folder' = [folder EXCEPT ![f] = [folder[f] EXCEPT !.name = n]]
    BY <1>1 DEF RenameFolder
  <2>. QED
    BY <1>1, <2>2, <2>3 DEF RenameFolder, NameFree, RenameStep, PutFolder
<1>2. ASSUME NEW p \in Users, NEW f \in FolderIds, NEW n \in CustomNames \cup SystemTypes,
             CreateFolder(p, f, n)
      PROVE  CreateStep(p, f, n)
  BY <1>2 DEF CreateFolder, NameFree, CreateStep, PutFolder
<1>3. ASSUME NEW p \in Users, NEW f \in FolderIds, DeleteFolder(p, f)
      PROVE  DeleteStep(p, f)
  BY <1>3 DEF DeleteFolder, DeleteStep
<1>. QED
  BY <1>1, <1>2, <1>3, FolderWriters

\* System folders are neither made nor removed after signup.
LEMMA SystemFoldersStep ==
    ASSUME TypeOK, SystemFolders, [Next]_vars
    PROVE  SystemFolders'
<1>1. \A p \in Users, t \in SystemTypes : OfType(p, t)' = OfType(p, t)
  <2>. SUFFICES ASSUME NEW p \in Users, NEW t \in SystemTypes
                PROVE  OfType(p, t)' = OfType(p, t)
    OBVIOUS
  <2>. t # "custom"
    BY DEF SystemTypes
  <2>1. CASE UNCHANGED folder
    BY <2>1 DEF OfType, FoldersOf, Folders
  <2>2. ASSUME NEW u \in Users, NEW f \in FolderIds, NEW n \in CustomNames \cup SystemTypes,
               CreateStep(u, f, n) \/ RenameStep(u, f, n)
        PROVE  OfType(p, t)' = OfType(p, t)
    BY <2>2 DEF CreateStep, RenameStep, PutFolder, OfType, FoldersOf, Folders, TypeOK
  <2>3. ASSUME NEW u \in Users, NEW f \in FolderIds, DeleteStep(u, f)
        PROVE  OfType(p, t)' = OfType(p, t)
    BY <2>3 DEF DeleteStep, OfType, FoldersOf, Folders, TypeOK
  <2>. QED
    BY <2>1, <2>2, <2>3, FolderStep
<1>. QED
  BY <1>1 DEF SystemFolders

\* Creating and renaming a folder look for its name among the owner's first.
LEMMA FolderNamesStep ==
    ASSUME TypeOK, FolderNamesUnique, [Next]_vars
    PROVE  FolderNamesUnique'
<1>1. CASE UNCHANGED folder
  BY <1>1 DEF FolderNamesUnique, Folders
<1>2. ASSUME NEW p \in Users, NEW f \in FolderIds, NEW n \in CustomNames \cup SystemTypes,
             ~FolderExists(p, n, {f}), PutFolder(p, f, n)
      PROVE  FolderNamesUnique'
  <2>1. folder'[f].owner = p /\ folder'[f].name = n
    BY <1>2 DEF TypeOK, PutFolder
  <2>2. \A g \in FolderIds : g # f => folder'[g] = folder[g]
    BY <1>2 DEF TypeOK, PutFolder
  <2>3. \A g \in Folders' : g # f => g \in Folders
    BY <2>2 DEF Folders
  <2>4. \A g \in Folders : g # f /\ folder[g].owner = p => folder[g].name # n
    BY <1>2 DEF FolderExists, FoldersOf
  <2>. QED
    BY <2>1, <2>2, <2>3, <2>4 DEF FolderNamesUnique, Folders
<1>3. ASSUME NEW p \in Users, NEW f \in FolderIds, DeleteStep(p, f)
      PROVE  FolderNamesUnique'
  BY <1>3 DEF DeleteStep, FolderNamesUnique, Folders, TypeOK
<1>4. ASSUME NEW p \in Users, NEW f \in FolderIds, NEW n \in CustomNames \cup SystemTypes,
             ~FolderExists(p, n, {})
      PROVE  ~FolderExists(p, n, {f})
  BY <1>4 DEF FolderExists
<1>. QED
  BY <1>1, <1>2, <1>3, <1>4, FolderStep DEF CreateStep, RenameStep

\* A folder that stays keeps its owner and type.
LEMMA FolderKept ==
    ASSUME TypeOK, [Next]_vars, NEW g \in Folders, g \in Folders'
    PROVE  folder'[g].owner = folder[g].owner /\ folder'[g].type = folder[g].type
<1>1. CASE UNCHANGED folder
  BY <1>1
<1>2. ASSUME NEW p \in Users, NEW f \in FolderIds, NEW n \in CustomNames \cup SystemTypes,
             CreateStep(p, f, n) \/ RenameStep(p, f, n)
      PROVE  folder'[g].owner = folder[g].owner /\ folder'[g].type = folder[g].type
  BY <1>2 DEF CreateStep, RenameStep, PutFolder, OfType, FoldersOf, Folders, TypeOK
<1>3. ASSUME NEW p \in Users, NEW f \in FolderIds, DeleteStep(p, f)
      PROVE  folder'[g].owner = folder[g].owner /\ folder'[g].type = folder[g].type
  BY <1>3 DEF DeleteStep, Folders, TypeOK
<1>. QED
  BY <1>1, <1>2, <1>3, FolderStep

-----------------------------------------------------------------------------
(* The inductive invariant and the theorems. *)

\* The invariants hold one another up: the operations look folders up by type
\* (SystemFolders) and act on messages and folders that exist
\* (NoDanglingReference).
StoreInv ==
    /\ TypeOK
    /\ NoDanglingReference
    /\ SystemFolders
    /\ FolderNamesUnique

LEMMA StoreInit == Init => StoreInv
<1>. SUFFICES ASSUME Init PROVE StoreInv
  OBVIOUS
<1>1. folder \in [FolderIds -> FolderRow \cup {NoRow}]
  BY DEF Init, FolderRow
<1>2. TypeOK
  BY <1>1 DEF Init, TypeOK
<1>3. NoDanglingReference
  BY DEF Init, NoDanglingReference, Live
<1>4. Folders = Users \X SystemTypes
  <2>1. \A f \in Users \X SystemTypes : folder[f] # NoRow
    BY <1>1 DEF Init, FolderRow
  <2>. QED
    BY <2>1 DEF Init, Folders
<1>5. ASSUME NEW p \in Users, NEW t \in SystemTypes
      PROVE  /\ <<p, t>> \in Folders
             /\ folder[<<p, t>>].owner = p
             /\ folder[<<p, t>>].type = t
             /\ folder[<<p, t>>].name = t
  <2>1. <<p, t>> \in FolderIds /\ <<p, t>> \notin CustomIds
    OBVIOUS
  <2>2. folder[<<p, t>>] = [owner |-> p, type |-> t, name |-> t]
    BY <2>1 DEF Init
  <2>. QED
    BY <1>4, <2>2
<1>6. \A f \in Folders : \E p \in Users, t \in SystemTypes : f = <<p, t>>
  BY <1>4
<1>7. SystemFolders
  <2>. SUFFICES ASSUME NEW p \in Users, NEW t \in SystemTypes
                PROVE  /\ <<p, t>> \in OfType(p, t)
                       /\ \A g \in OfType(p, t) : g = <<p, t>>
    BY Zenon DEF SystemFolders
  <2>1. <<p, t>> \in OfType(p, t)
    BY <1>5 DEF OfType, FoldersOf
  <2>2. ASSUME NEW g \in OfType(p, t) PROVE g = <<p, t>>
    <3>1. g \in Folders /\ folder[g].owner = p /\ folder[g].type = t
      BY DEF OfType, FoldersOf
    <3>2. PICK q \in Users, u \in SystemTypes : g = <<q, u>>
      BY <1>6, <3>1
    <3>3. folder[g].owner = q /\ folder[g].type = u
      BY <1>5, <3>2
    <3>. QED
      BY <3>1, <3>2, <3>3
  <2>. QED
    BY <2>1, <2>2
<1>8. FolderNamesUnique
  <2>. SUFFICES ASSUME NEW f \in Folders, NEW g \in Folders,
                       folder[f].owner = folder[g].owner, folder[f].name = folder[g].name
                PROVE  f = g
    BY DEF FolderNamesUnique
  <2>1. PICK p \in Users, t \in SystemTypes : f = <<p, t>>
    BY <1>6
  <2>2. PICK q \in Users, u \in SystemTypes : g = <<q, u>>
    BY <1>6
  <2>3. folder[f].owner = p /\ folder[f].name = t /\ folder[g].owner = q /\ folder[g].name = u
    BY <1>5, <2>1, <2>2
  <2>. QED
    BY <2>1, <2>2, <2>3
<1>. QED
  BY <1>2, <1>3, <1>7, <1>8 DEF StoreInv

LEMMA StoreStep == StoreInv /\ [Next]_vars => StoreInv'
BY TypeStep, RefStep, SystemFoldersStep, FolderNamesStep DEF StoreInv

LEMMA StoreInvariant == Spec => []StoreInv
BY StoreInit, StoreStep, PTL DEF Spec

\* The tables are well typed in every reachable state.
THEOREM TypeCorrect == Spec => []TypeOK
BY StoreInvariant, PTL DEF StoreInv

\* The cascades and the order of the deletions leave no dangling reference.
THEOREM ReferencesHold == Spec => []NoDanglingReference
BY StoreInvariant, PTL DEF StoreInv

\* Each user has exactly one folder of each system type, forever.
THEOREM SystemFoldersHold == Spec => []SystemFolders
BY StoreInvariant, PTL DEF StoreInv

\* A user's folders have different names.
THEOREM FolderNamesHold == Spec => []FolderNamesUnique
BY StoreInvariant, PTL DEF StoreInv

-----------------------------------------------------------------------------
(* Strays. *)

LEMMA StrayStep ==
    ASSUME StoreInv, [Next]_vars, NEW p \in Users, NEW m \in MsgIds,
           Stray(p, m)', ~Stray(p, m)
    PROVE  \/ MarkMessageAsSpam(p, m)
           \/ \E q \in Users, f \in FoldersOf(p) : MoveToFolder(q, m, f)
<1>. USE DEF StoreInv
<1>. PICK d \in FoldersOf(p)' : <<m, d>> \in fpm'
  BY DEF Stray, In
<1>. d \in FolderIds /\ d \in Folders' /\ folder'[d].owner = p
  BY DEF FoldersOf, Folders
<1>. <<p, m>> \notin bond'
  BY DEF Stray
<1>1. In(m, FoldersOf(p)) => <<p, m>> \in bond
  BY DEF Stray
<1>2. ASSUME bond \subseteq bond', NEW g \in FoldersOf(p), <<m, g>> \in fpm PROVE FALSE
  BY <1>1, <1>2 DEF In
<1>3. ASSUME UNCHANGED folder, bond \subseteq bond' PROVE d \in FoldersOf(p) /\ <<m, d>> \notin fpm
  <2>1. d \in FoldersOf(p)
    BY <1>3 DEF FoldersOf, Folders
  <2>. QED
    BY <1>2, <1>3, <2>1
<1>4. CASE UNCHANGED vars
  BY <1>3, <1>4 DEF vars
<1>5. CASE Deliver
  <2>. PICK u \in Users, q \in Users, n \in MsgIds : Distribute(n, u, q)
    BY <1>5 DEF Deliver, SaveMessageWithFolderDistribution, ReplyToMessageWithFolderDistribution
  <2>1. UNCHANGED folder /\ bond \subseteq bond'
    BY DEF Distribute
  <2>2. n = m /\ (d \in OfType(q, "inbox") \/ d \in OfType(u, "sent"))
    BY <1>3, <2>1 DEF Distribute
  <2>3. p = q \/ p = u
    BY <2>1, <2>2 DEF OfType, FoldersOf
  <2>. QED
    BY <2>2, <2>3 DEF Distribute
<1>6. CASE ThreadOrFile
  BY <1>3, <1>6 DEF ThreadOrFile, SaveFile, SaveThread, SaveThreadIdToMessage
<1>7. CASE Filing
  <2>1. ASSUME NEW u \in Users, NEW n \in MsgIds, MarkMessageAsSpam(u, n)
        PROVE  MarkMessageAsSpam(p, m)
    <3>1. UNCHANGED folder /\ bond' = bond
      BY <2>1 DEF MarkMessageAsSpam
    <3>2. n = m /\ d \in OfType(u, "spam")
      BY <1>3, <2>1, <3>1 DEF MarkMessageAsSpam
    <3>3. u = p
      BY <3>1, <3>2 DEF OfType, FoldersOf
    <3>. QED
      BY <2>1, <3>2, <3>3
  <2>2. ASSUME NEW u \in Users, NEW n \in MsgIds, NEW f \in Folders, MoveToFolder(u, n, f)
        PROVE  \E q \in Users, g \in FoldersOf(p) : MoveToFolder(q, m, g)
    <3>1. UNCHANGED folder /\ bond' = bond
      BY <2>2 DEF MoveToFolder
    <3>2. n = m /\ d = f
      BY <1>3, <2>2, <3>1 DEF MoveToFolder
    <3>. QED
      BY <1>3, <2>2, <3>1, <3>2
  <2>3. ASSUME NEW u \in Users, NEW n \in MsgIds, NEW f \in FolderIds,
               DeleteMessageFromFolder(u, n, f)
        PROVE  FALSE
    BY <1>3, <2>3 DEF DeleteMessageFromFolder
  <2>4. ASSUME NEW u \in Users, NEW n \in MsgIds, MarkMessageAsRead(u, n) PROVE FALSE
    BY <1>3, <2>4 DEF MarkMessageAsRead
  <2>. QED
    BY <1>7, <2>1, <2>2, <2>3, <2>4 DEF Filing
<1>8. CASE Drafting
  <2>1. ASSUME NEW u \in Users, NEW n \in MsgIds, DeleteDraft(u, n) PROVE FALSE
    <3>1. n # m /\ <<m, d>> \in fpm /\ UNCHANGED folder
      BY <2>1 DEF DeleteDraft, CascadeMessage
    <3>2. <<p, m>> \in bond
      BY <1>1, <3>1 DEF In, FoldersOf, Folders
    <3>. QED
      BY <2>1, <3>1, <3>2 DEF DeleteDraft, CascadeMessage
  <2>2. ASSUME NEW u \in Users, NEW n \in MsgIds, SendDraft(u, n) PROVE FALSE
    <3>1. UNCHANGED folder /\ bond' = bond
      BY <2>2 DEF SendDraft
    <3>2. n = m /\ d \in FoldersOf(u)
      BY <1>3, <2>2, <3>1 DEF SendDraft, OfType
    <3>3. u = p
      BY <3>1, <3>2 DEF FoldersOf
    <3>4. PICK g \in OfType(p, "draft") : <<m, g>> \in fpm
      BY <2>2, <3>2, <3>3 DEF SendDraft, IsDraftBelongsToUser, In
    <3>. QED
      BY <1>2, <3>1, <3>4 DEF OfType
  <2>3. ASSUME NEW u \in Users, NEW n \in MsgIds, NEW x \in Texts, SaveNewDraft(u, n, x)
        PROVE  FALSE
    <3>1. UNCHANGED folder /\ bond' = bond \cup {<<u, n>>}
      BY <2>3 DEF SaveNewDraft
    <3>2. n = m /\ d \in OfType(u, "draft")
      BY <1>3, <2>3, <3>1 DEF SaveNewDraft
    <3>3. u = p
      BY <3>1, <3>2 DEF OfType, FoldersOf
    <3>. QED
      BY <3>1, <3>2, <3>3
  <2>4. ASSUME NEW u \in Users, NEW n \in MsgIds, NEW x \in Texts, SaveExistingDraft(u, n, x)
        PROVE  FALSE
    BY <1>3, <2>4 DEF SaveExistingDraft
  <2>. QED
    BY <1>8, <2>1, <2>2, <2>3, <2>4 DEF Drafting
<1>9. CASE ManageFolder
  <2>1. UNCHANGED bond
    BY <1>9 DEF ManageFolder, CreateFolder, RenameFolder, DeleteFolder
  <2>2. ASSUME <<m, d>> \in fpm PROVE FALSE
    <3>1. d \in Folders
      BY <2>2 DEF NoDanglingReference
    <3>2. d \in FoldersOf(p)
      BY <3>1, FolderKept DEF FoldersOf
    <3>. QED
      BY <1>2, <2>1, <2>2, <3>2
  <2>3. ASSUME NEW u \in Users, NEW f \in FolderIds, DeleteFolder(u, f) PROVE FALSE
    <3>. PICK b \in OfType(u, "trash") :
           fpm' = {e \in fpm : e[2] # f} \cup {<<e[1], b>> : e \in {r \in fpm : r[2] = f}}
      BY <2>3 DEF DeleteFolder
    <3>. f # b /\ folder[b].owner = u /\ f \in FoldersOf(u) /\ b \in FolderIds
      BY <2>3 DEF DeleteFolder, OfType, FoldersOf, Folders
    <3>1. folder'[b] = folder[b]
      BY <2>3 DEF DeleteFolder, TypeOK
    <3>2. d = b /\ <<m, f>> \in fpm
      BY <2>2 DEF TypeOK
    <3>3. f \in FoldersOf(p)
      BY <3>1, <3>2
    <3>. QED
      BY <1>2, <2>1, <3>2, <3>3
  <2>4. UNCHANGED fpm \/ \E u \in Users, f \in FolderIds : DeleteFolder(u, f)
    BY <1>9 DEF ManageFolder, CreateFolder, RenameFolder
  <2>. QED
    BY <2>2, <2>3, <2>4
<1>. QED
  BY <1>4, <1>5, <1>6, <1>7, <1>8, <1>9 DEF Next

-----------------------------------------------------------------------------
(* A message is in one folder of a user, or in inbox and sent, unless       *)
(* somebody else moved it to him.                                          *)

\* The one folder of user p of a system type.
LEMMA OneFolder ==
    ASSUME SystemFolders, NEW f \in Folders, NEW g \in Folders, NEW t \in SystemTypes,
           folder[f].owner \in Users, folder[f].owner = folder[g].owner,
           folder[f].type = t, folder[g].type = t
    PROVE  f = g
<1>. f \in OfType(folder[f].owner, t) /\ g \in OfType(folder[f].owner, t)
  BY DEF OfType, FoldersOf
<1>. QED
  BY DEF SystemFolders

\* A message in a user's draft folder is in no other folder of his.
LEMMA DraftIsAlone ==
    ASSUME NEW p \in Users, NEW m \in MsgIds, Exclusive(p, m),
           NEW d \in OfType(p, "draft"), <<m, d>> \in fpm, NEW g \in FoldersOf(p), <<m, g>> \in fpm
    PROVE  g = d
<1>. d \in Holding(p, m) /\ g \in Holding(p, m) /\ folder[d].type = "draft"
  BY DEF OfType, Holding
<1>. {folder[g].type, folder[d].type} # {"inbox", "sent"}
  OBVIOUS
<1>. QED
  BY DEF Exclusive

LEMMA ExclusiveStep ==
    ASSUME StoreInv, [Next]_vars, NEW p \in Users, NEW m \in MsgIds,
           Exclusive(p, m), ~Exclusive(p, m)'
    PROVE  \E q \in Users \ {p}, f \in FoldersOf(p) : MoveToFolder(q, m, f)
<1>. USE DEF StoreInv
<1>. "inbox" \in SystemTypes /\ "sent" \in SystemTypes /\ "spam" \in SystemTypes
  BY DEF SystemTypes
<1>. PICK f \in Holding(p, m)', g \in Holding(p, m)' :
       f # g /\ {folder'[f].type, folder'[g].type} # {"inbox", "sent"}
  BY DEF Exclusive
<1>. /\ f \in FolderIds /\ f \in Folders' /\ folder'[f].owner = p /\ <<m, f>> \in fpm'
     /\ g \in FolderIds /\ g \in Folders' /\ folder'[g].owner = p /\ <<m, g>> \in fpm'
  BY DEF Holding, FoldersOf, Folders
\* They did not both hold m before the step.
<1>1. ASSUME <<m, f>> \in fpm, <<m, g>> \in fpm PROVE FALSE
  <2>1. f \in Folders /\ g \in Folders
    BY <1>1 DEF NoDanglingReference
  <2>2. /\ folder'[f].owner = folder[f].owner /\ folder'[f].type = folder[f].type
        /\ folder'[g].owner = folder[g].owner /\ folder'[g].type = folder[g].type
    BY <2>1, FolderKept
  <2>3. f \in Holding(p, m) /\ g \in Holding(p, m)
    BY <1>1, <2>1, <2>2 DEF Holding, FoldersOf
  <2>. QED
    BY <2>2, <2>3 DEF Exclusive
<1>2. ASSUME UNCHANGED folder
      PROVE  /\ f \in FoldersOf(p) /\ g \in FoldersOf(p)
             /\ {folder[f].type, folder[g].type} # {"inbox", "sent"}
  BY <1>2 DEF FoldersOf, Folders
<1>3. ASSUME UNCHANGED folder, NEW t \in SystemTypes, folder[f].type = t, folder[g].type = t
      PROVE  FALSE
  BY <1>2, <1>3, OneFolder DEF FoldersOf
<1>4. CASE UNCHANGED vars
  BY <1>1, <1>4 DEF vars
<1>5. CASE Deliver
  <2>. PICK u \in Users, q \in Users, n \in MsgIds :
         message[n] = NoRow /\ Distribute(n, u, q)
    BY <1>5 DEF Deliver, SaveMessageWithFolderDistribution,
       ReplyToMessageWithFolderDistribution, InsertMessage
  <2>1. UNCHANGED folder
    BY DEF Distribute
  <2>2. n = m
    BY <1>1 DEF Distribute
  <2>3. \A e \in fpm : e[1] # m
    BY <2>2 DEF NoDanglingReference, Live
  <2>4. /\ folder[f].type = "inbox" \/ folder[f].type = "sent"
        /\ folder[g].type = "inbox" \/ folder[g].type = "sent"
    BY <2>3 DEF Distribute, OfType
  <2>. QED
    BY <1>2, <1>3, <2>1, <2>4
<1>6. CASE ThreadOrFile
  BY <1>1, <1>6 DEF ThreadOrFile, SaveFile, SaveThread, SaveThreadIdToMessage
<1>7. CASE Filing
  <2>1. ASSUME NEW u \in Users, NEW n \in MsgIds, MarkMessageAsRead(u, n) PROVE FALSE
    BY <1>1, <2>1 DEF MarkMessageAsRead
  <2>2. ASSUME NEW u \in Users, NEW n \in MsgIds, MarkMessageAsSpam(u, n) PROVE FALSE
    <3>. PICK s \in OfType(u, "spam") :
           fpm' = (fpm \cup {<<n, s>>}) \ Rows(n, FoldersOf(u) \ OfType(u, "spam"))
      BY <2>2 DEF MarkMessageAsSpam
    <3>1. UNCHANGED folder
      BY <2>2 DEF MarkMessageAsSpam
    <3>2. n = m /\ (f = s \/ g = s)
      BY <1>1
    <3>3. u = p
      BY <1>2, <3>1, <3>2 DEF OfType, FoldersOf
    <3>4. f \in OfType(p, "spam") /\ g \in OfType(p, "spam")
      BY <1>2, <3>1, <3>2, <3>3 DEF Rows
    <3>. QED
      BY <1>3, <3>1, <3>4 DEF OfType
  <2>3. ASSUME NEW u \in Users, NEW n \in MsgIds, NEW h \in Folders, MoveToFolder(u, n, h)
        PROVE  \E q \in Users \ {p}, k \in FoldersOf(p) : MoveToFolder(q, m, k)
    <3>1. UNCHANGED folder /\ fpm' = (fpm \ Rows(n, FoldersOf(u))) \cup {<<n, h>>}
      BY <2>3 DEF MoveToFolder
    <3>2. n = m /\ (f = h \/ g = h)
      BY <1>1, <3>1
    <3>3. u # p
      BY <1>2, <3>1, <3>2 DEF Rows
    <3>4. h \in FoldersOf(p)
      BY <1>2, <3>1, <3>2
    <3>. QED
      BY <2>3, <3>2, <3>3, <3>4
  <2>4. ASSUME NEW u \in Users, NEW n \in MsgIds, NEW h \in FolderIds,
               DeleteMessageFromFolder(u, n, h)
        PROVE  FALSE
    BY <1>1, <2>4 DEF DeleteMessageFromFolder
  <2>. QED
    BY <1>7, <2>1, <2>2, <2>3, <2>4 DEF Filing
<1>8. CASE Drafting
  <2>1. ASSUME NEW u \in Users, NEW n \in MsgIds, DeleteDraft(u, n) PROVE FALSE
    BY <1>1, <2>1 DEF DeleteDraft, CascadeMessage
  <2>2. ASSUME NEW u \in Users, NEW n \in MsgIds, SendDraft(u, n) PROVE FALSE
    <3>. PICK s \in OfType(u, "sent"), i \in OfType(u, "inbox") :
           fpm' = (fpm \ Rows(n, OfType(u, "draft"))) \cup {<<n, s>>, <<n, i>>}
      BY <2>2 DEF SendDraft
    <3>1. UNCHANGED folder
      BY <2>2 DEF SendDraft
    <3>2. n = m /\ (f = s \/ g = s \/ f = i \/ g = i)
      BY <1>1
    <3>3. u = p
      BY <1>2, <3>1, <3>2 DEF OfType, FoldersOf
    <3>4. PICK d \in OfType(p, "draft") : <<m, d>> \in fpm
      BY <2>2, <3>2, <3>3 DEF SendDraft, IsDraftBelongsToUser, In
    <3>5. <<m, d>> \notin fpm'
      BY <3>2, <3>3, <3>4 DEF Rows, OfType
    <3>6. ASSUME NEW h \in FoldersOf(p), <<m, h>> \in fpm' PROVE h = s \/ h = i
      BY <3>4, <3>5, <3>6, DraftIsAlone
    <3>7. (f = s \/ f = i) /\ (g = s \/ g = i)
      BY <1>2, <3>1, <3>6
    <3>8. folder[s].type = "sent" /\ folder[i].type = "inbox"
      BY DEF OfType
    <3>. QED
      BY <1>2, <3>1, <3>7, <3>8
  <2>3. ASSUME NEW u \in Users, NEW n \in MsgIds, NEW x \in Texts, SaveNewDraft(u, n, x)
        PROVE  FALSE
    <3>1. PICK d \in OfType(u, "draft") : fpm' = fpm \cup {<<n, d>>}
      BY <2>3 DEF SaveNewDraft
    <3>2. n = m
      BY <1>1, <3>1
    <3>3. \A e \in fpm : e[1] # m
      BY <2>3, <3>2 DEF NoDanglingReference, Live, SaveNewDraft, InsertMessage
    <3>. QED
      BY <3>1, <3>3
  <2>4. ASSUME NEW u \in Users, NEW n \in MsgIds, NEW x \in Texts, SaveExistingDraft(u, n, x)
        PROVE  FALSE
    BY <1>1, <2>4 DEF SaveExistingDraft
  <2>. QED
    BY <1>8, <2>1, <2>2, <2>3, <2>4 DEF Drafting
<1>9. CASE ManageFolder
  <2>1. ASSUME NEW u \in Users, NEW h \in FolderIds, DeleteFolder(u, h) PROVE FALSE
    <3>. PICK b \in OfType(u, "trash") :
           fpm' = {e \in fpm : e[2] # h} \cup {<<e[1], b>> : e \in {r \in fpm : r[2] = h}}
      BY <2>1 DEF DeleteFolder
    <3>. /\ h \in FoldersOf(u) /\ folder[h].type = "custom"
         /\ b \in FoldersOf(u) /\ b \in FolderIds /\ b # h
      BY <2>1 DEF DeleteFolder, OfType, FoldersOf, Folders
    <3>1. folder'[b] = folder[b] /\ h \notin Folders'
      BY <2>1 DEF DeleteFolder, Folders, TypeOK
    <3>2. <<m, h>> \in fpm /\ (f = b \/ g = b)
      BY <1>1 DEF TypeOK
    <3>3. u = p
      BY <3>1, <3>2 DEF FoldersOf
    <3>4. ASSUME NEW k \in Folders', folder'[k].owner = p, k # b, <<m, k>> \in fpm PROVE FALSE
      <4>1. k \in Folders /\ k # h
        BY <3>1, <3>4 DEF NoDanglingReference
      <4>2. k \in Holding(p, m) /\ h \in Holding(p, m)
        BY <3>2, <3>3, <3>4, <4>1, FolderKept DEF Holding, FoldersOf
      <4>3. {folder[k].type, folder[h].type} # {"inbox", "sent"}
        OBVIOUS
      <4>. QED
        BY <4>1, <4>2, <4>3 DEF Exclusive
    <3>5. \A k : <<m, k>> \in fpm' /\ k # b => <<m, k>> \in fpm
      BY DEF TypeOK
    <3>. QED
      BY <3>2, <3>4, <3>5
  <2>2. UNCHANGED fpm \/ \E u \in Users, h \in FolderIds : DeleteFolder(u, h)
    BY <1>9 DEF ManageFolder, CreateFolder, RenameFolder
  <2>. QED
    BY <1>1, <2>1, <2>2
<1>. QED
  BY <1>4, <1>5, <1>6, <1>7, <1>8, <1>9 DEF Next

\* A message comes to lie with somebody it does not concern only by a filing.
THEOREM StraysAreFiledHolds == Spec => StraysAreFiled
<1>1. StoreInv /\ [Next]_vars =>
        [\A p \in Users, m \in MsgIds : Stray(p, m)' /\ ~Stray(p, m) =>
          \/ MarkMessageAsSpam(p, m)
          \/ \E q \in Users, f \in FoldersOf(p) : MoveToFolder(q, m, f)]_vars
  BY StrayStep
<1>. QED
  BY <1>1, StoreInvariant, PTL DEF Spec, StraysAreFiled

\* A second place in a user's folders is another user's doing.
THEOREM SecondPlaceByOthersHolds == Spec => SecondPlaceByOthers
<1>1. StoreInv /\ [Next]_vars =>
        [\A p \in Users, m \in MsgIds : ~Exclusive(p, m)' /\ Exclusive(p, m) =>
          \E q \in Users \ {p}, f \in FoldersOf(p) : MoveToFolder(q, m, f)]_vars
  BY ExclusiveStep
<1>. QED
  BY <1>1, StoreInvariant, PTL DEF Spec, SecondPlaceByOthers

-----------------------------------------------------------------------------
(* What a step may not do. *)

\* What NothingLost says of one user and one message.
Kept(p, m) ==
    In(m, FoldersOf(p)) /\ ~In(m, FoldersOf(p))' =>
        \/ m \notin Live'
        \/ \E f \in FoldersOf(p) : DeleteMessageFromFolder(p, m, f)
        \/ \E f \in Folders \ FoldersOf(p) : MoveToFolder(p, m, f)

\* A user who keeps some placement of a message has lost nothing.
LEMMA KeptWhenPlaced ==
    ASSUME NEW p \in Users, NEW m \in MsgIds, NEW g, g \in FoldersOf(p)', <<m, g>> \in fpm'
    PROVE  Kept(p, m)
BY DEF Kept, In

LEMMA KeptStep ==
    ASSUME StoreInv, [Next]_vars, NEW p \in Users, NEW m \in Live
    PROVE  Kept(p, m)
<1>. USE DEF StoreInv
<1>. SUFFICES ASSUME NEW d \in FoldersOf(p), <<m, d>> \in fpm PROVE Kept(p, m)
  BY DEF Kept, In
<1>. m \in MsgIds
  BY DEF Live
<1>1. CASE UNCHANGED folder /\ <<m, d>> \in fpm'
  BY <1>1, KeptWhenPlaced DEF FoldersOf, Folders
<1>2. CASE Filing
  <2>1. ASSUME NEW u \in Users, NEW n \in MsgIds, MarkMessageAsSpam(u, n) PROVE Kept(p, m)
    <3>. PICK s \in OfType(u, "spam") :
           fpm' = (fpm \cup {<<n, s>>}) \ Rows(n, FoldersOf(u) \ OfType(u, "spam"))
      BY <2>1 DEF MarkMessageAsSpam
    <3>1. UNCHANGED folder
      BY <2>1 DEF MarkMessageAsSpam
    <3>2. CASE n = m /\ u = p
      <4>1. <<m, s>> \in fpm' /\ s \in FoldersOf(p)
        BY <3>2 DEF Rows, OfType
      <4>2. s \in FoldersOf(p)'
        BY <3>1, <4>1 DEF FoldersOf, Folders
      <4>. QED
        BY <4>1, <4>2, KeptWhenPlaced
    <3>3. CASE ~(n = m /\ u = p)
      <4>1. <<m, d>> \in fpm'
        BY <3>3 DEF Rows, FoldersOf
      <4>. QED
        BY <1>1, <3>1, <4>1
    <3>. QED
      BY <3>2, <3>3
  <2>2. ASSUME NEW u \in Users, NEW n \in MsgIds, NEW f \in Folders, MoveToFolder(u, n, f)
        PROVE  Kept(p, m)
    <3>1. UNCHANGED folder /\ fpm' = (fpm \ Rows(n, FoldersOf(u))) \cup {<<n, f>>}
      BY <2>2 DEF MoveToFolder
    <3>2. CASE n = m /\ u = p /\ f \in FoldersOf(p)
      <4>1. <<m, f>> \in fpm' /\ f \in FoldersOf(p)'
        BY <3>1, <3>2 DEF FoldersOf, Folders
      <4>. QED
        BY <4>1, KeptWhenPlaced
    <3>3. CASE n = m /\ u = p /\ f \notin FoldersOf(p)
      BY <2>2, <3>3 DEF Kept
    <3>4. CASE ~(n = m /\ u = p)
      <4>1. <<m, d>> \in fpm'
        BY <3>1, <3>4 DEF Rows, FoldersOf
      <4>. QED
        BY <1>1, <3>1, <4>1
    <3>. QED
      BY <3>2, <3>3, <3>4
  <2>3. ASSUME NEW u \in Users, NEW n \in MsgIds, NEW f \in FolderIds,
               DeleteMessageFromFolder(u, n, f)
        PROVE  Kept(p, m)
    <3>1. f \in FoldersOf(u) /\ UNCHANGED folder /\ fpm' = fpm \ {<<n, f>>}
      BY <2>3 DEF DeleteMessageFromFolder
    <3>2. CASE n = m /\ f = d
      <4>1. u = p
        BY <3>1, <3>2 DEF FoldersOf
      <4>. QED
        BY <2>3, <3>1, <3>2, <4>1 DEF Kept
    <3>3. CASE ~(n = m /\ f = d)
      BY <1>1, <3>1, <3>3
    <3>. QED
      BY <3>2, <3>3
  <2>4. ASSUME NEW u \in Users, NEW n \in MsgIds, MarkMessageAsRead(u, n) PROVE Kept(p, m)
    BY <1>1, <2>4 DEF MarkMessageAsRead
  <2>. QED
    BY <1>2, <2>1, <2>2, <2>3, <2>4 DEF Filing
<1>3. CASE Drafting
  <2>1. ASSUME NEW u \in Users, NEW n \in MsgIds, DeleteDraft(u, n) PROVE Kept(p, m)
    <3>1. CASE n = m
      <4>1. m \notin Live'
        BY <2>1, <3>1 DEF DeleteDraft, Live, TypeOK
      <4>. QED
        BY <4>1 DEF Kept
    <3>2. CASE n # m
      BY <1>1, <2>1, <3>2 DEF DeleteDraft, CascadeMessage
    <3>. QED
      BY <3>1, <3>2
  <2>2. ASSUME NEW u \in Users, NEW n \in MsgIds, SendDraft(u, n) PROVE Kept(p, m)
    <3>. PICK s \in OfType(u, "sent"), i \in OfType(u, "inbox") :
           fpm' = (fpm \ Rows(n, OfType(u, "draft"))) \cup {<<n, s>>, <<n, i>>}
      BY <2>2 DEF SendDraft
    <3>1. UNCHANGED folder
      BY <2>2 DEF SendDraft
    <3>2. CASE n = m /\ u = p
      <4>1. <<m, s>> \in fpm' /\ s \in FoldersOf(p)
        BY <3>2 DEF OfType
      <4>2. s \in FoldersOf(p)'
        BY <3>1, <4>1 DEF FoldersOf, Folders
      <4>. QED
        BY <4>1, <4>2, KeptWhenPlaced
    <3>3. CASE ~(n = m /\ u = p)
      <4>1. <<m, d>> \in fpm'
        BY <3>3 DEF Rows, OfType, FoldersOf
      <4>. QED
        BY <1>1, <3>1, <4>1
    <3>. QED
      BY <3>2, <3>3
  <2>3. ASSUME NEW u \in Users, NEW n \in MsgIds, NEW x \in Texts,
               SaveNewDraft(u, n, x) \/ SaveExistingDraft(u, n, x)
        PROVE  Kept(p, m)
    BY <1>1, <2>3 DEF SaveNewDraft, SaveExistingDraft
  <2>. QED
    BY <1>3, <2>1, <2>2, <2>3 DEF Drafting
<1>4. CASE ManageFolder
  <2>1. CASE UNCHANGED fpm
    <3>1. d \in Folders /\ d \in Folders'
      BY <2>1, RefStep DEF NoDanglingReference, FoldersOf
    <3>2. d \in FoldersOf(p)'
      BY <3>1, FolderKept DEF FoldersOf
    <3>. QED
      BY <2>1, <3>2, KeptWhenPlaced
  <2>2. ASSUME NEW u \in Users, NEW f \in FolderIds, DeleteFolder(u, f) PROVE Kept(p, m)
    <3>. PICK b \in OfType(u, "trash") :
           fpm' = {e \in fpm : e[2] # f} \cup {<<e[1], b>> : e \in {r \in fpm : r[2] = f}}
      BY <2>2 DEF DeleteFolder
    <3>. f \in FoldersOf(u) /\ b \in FoldersOf(u) /\ b # f /\ b \in FolderIds
      BY <2>2 DEF DeleteFolder, OfType, FoldersOf, Folders
    <3>1. \A g \in FolderIds : g # f => folder'[g] = folder[g]
      BY <2>2 DEF DeleteFolder, TypeOK
    <3>2. CASE d = f
      <4>1. u = p /\ <<m, b>> \in fpm'
        BY <3>2 DEF FoldersOf
      <4>2. b \in FoldersOf(p)'
        BY <3>1, <4>1 DEF FoldersOf, Folders
      <4>. QED
        BY <4>1, <4>2, KeptWhenPlaced
    <3>3. CASE d # f
      <4>1. <<m, d>> \in fpm' /\ d \in FoldersOf(p)'
        BY <3>1, <3>3 DEF FoldersOf, Folders
      <4>. QED
        BY <4>1, KeptWhenPlaced
    <3>. QED
      BY <3>2, <3>3
  <2>3. UNCHANGED fpm \/ \E u \in Users, f \in FolderIds : DeleteFolder(u, f)
    BY <1>4 DEF ManageFolder, CreateFolder, RenameFolder
  <2>. QED
    BY <2>1, <2>2, <2>3
<1>5. CASE Deliver \/ ThreadOrFile \/ UNCHANGED vars
  <2>. UNCHANGED folder /\ fpm \subseteq fpm'
    BY <1>5 DEF Deliver, SaveMessageWithFolderDistribution, ReplyToMessageWithFolderDistribution,
       Distribute, ThreadOrFile, SaveFile, SaveThread, SaveThreadIdToMessage, vars
  <2>. QED
    BY <1>1
<1>. QED
  BY <1>2, <1>3, <1>4, <1>5 DEF Next

\* No operation loses a message a user has filed.
THEOREM NothingLostHolds == Spec => NothingLost
<1>1. StoreInv /\ [Next]_vars =>
        [\A p \in Users, m \in Live :
          In(m, FoldersOf(p)) /\ ~In(m, FoldersOf(p))' =>
              \/ m \notin Live'
              \/ \E f \in FoldersOf(p) : DeleteMessageFromFolder(p, m, f)
              \/ \E f \in Folders \ FoldersOf(p) : MoveToFolder(p, m, f)]_vars
  BY KeptStep DEF Kept
<1>. QED
  BY <1>1, StoreInvariant, PTL DEF Spec, NothingLost

\* Only DeleteDraft takes read marks away, with the message.
THEOREM ReadStaysReadHolds == Spec => ReadStaysRead
<1>1. StoreInv /\ [Next]_vars =>
        [\A e \in read_status : e \in read_status' \/ e[2] \notin Live']_vars
  <2>. SUFFICES ASSUME StoreInv, [Next]_vars, NEW e \in read_status, e \notin read_status'
                PROVE  e[2] \notin Live'
    OBVIOUS
  <2>. PICK p \in Users, m \in MsgIds : DeleteDraft(p, m)
    <3>1. ~Deliver /\ ~(UNCHANGED vars)
      BY DEF Deliver, SaveMessageWithFolderDistribution, ReplyToMessageWithFolderDistribution,
         Distribute, vars
    <3>2. ~ThreadOrFile /\ ~ManageFolder
      BY DEF ThreadOrFile, SaveFile, SaveThread, SaveThreadIdToMessage, ManageFolder,
         CreateFolder, RenameFolder, DeleteFolder
    <3>3. ~Filing
      BY DEF Filing, MarkMessageAsRead, MarkMessageAsSpam, MoveToFolder, DeleteMessageFromFolder
    <3>4. Drafting
      BY <3>1, <3>2, <3>3 DEF Next
    <3>. QED
      BY <3>4 DEF Drafting, SaveNewDraft, SaveExistingDraft, SendDraft
  <2>1. e[2] = m
    BY DEF DeleteDraft, CascadeMessage
  <2>. QED
    BY <2>1 DEF DeleteDraft, Live, StoreInv, TypeOK
<1>. QED
  BY <1>1, StoreInvariant, PTL DEF Spec, ReadStaysRead

-----------------------------------------------------------------------------
(* Delivered messages, while nobody moves messages into a draft folder. *)

LEMMA DraftStep ==
    ASSUME "draft" \notin MovableTypes, StoreInv, DraftIsPrivate, [Next]_vars
    PROVE  DraftIsPrivate'
<1>. USE DEF StoreInv
<1>. SUFFICES ASSUME NEW p \in Users, NEW m \in MsgIds, IsDraftBelongsToUser(p, m)'
              PROVE  /\ message'[m].sender = p
                     /\ \A e \in bond' : e[2] = m => e[1] = p
  BY DEF DraftIsPrivate, Delivered
<1>. DEFINE Mine == /\ message[m].sender = p
                    /\ \A e \in bond : e[2] = m => e[1] = p
<1>1. ASSUME IsDraftBelongsToUser(p, m) PROVE Mine
  BY <1>1 DEF DraftIsPrivate, Delivered
<1>2. PICK d \in OfType(p, "draft")' : <<m, d>> \in fpm'
  BY DEF IsDraftBelongsToUser, In
<1>3. ASSUME UNCHANGED folder, <<m, d>> \in fpm PROVE Mine
  BY <1>1, <1>2, <1>3 DEF IsDraftBelongsToUser, In, OfType, FoldersOf, Folders
<1>4. ASSUME UNCHANGED folder PROVE d \in OfType(p, "draft")
  BY <1>2, <1>4 DEF OfType, FoldersOf, Folders
<1>5. CASE UNCHANGED vars
  BY <1>2, <1>3, <1>5 DEF vars
<1>6. CASE Deliver
  <2>. PICK u \in Users, q \in Users, n \in MsgIds, x \in Texts, t \in ThreadIds \cup {Null} :
         InsertMessage(n, u, x, t) /\ Distribute(n, u, q)
    BY <1>6 DEF Deliver, SaveMessageWithFolderDistribution, ReplyToMessageWithFolderDistribution
  <2>1. <<m, d>> \in fpm
    BY <1>2, <1>4 DEF Distribute, OfType
  <2>2. n # m
    BY <2>1 DEF NoDanglingReference, Live, InsertMessage
  <2>3. Mine
    BY <1>3, <2>1 DEF Distribute
  <2>. QED
    BY <2>2, <2>3 DEF Distribute, InsertMessage, TypeOK
<1>7. CASE ThreadOrFile
  <2>1. UNCHANGED <<folder, fpm, bond>>
    BY <1>7 DEF ThreadOrFile, SaveFile, SaveThread, SaveThreadIdToMessage
  <2>2. m \in Live
    BY <1>2, <2>1 DEF NoDanglingReference
  <2>3. message'[m].sender = message[m].sender
    BY <1>7, <2>2 DEF ThreadOrFile, SaveFile, SaveThread, SaveThreadIdToMessage, TypeOK,
       Live, MessageRow
  <2>. QED
    BY <1>2, <1>3, <2>1, <2>3
<1>8. CASE Filing
  <2>. PICK u \in Users, n \in MsgIds :
         \/ <<u, n>> \in bond /\ MarkMessageAsRead(u, n)
         \/ MarkMessageAsSpam(u, n)
         \/ \E f \in Folders : folder[f].type # "draft" /\ MoveToFolder(u, n, f)
         \/ \E f \in FolderIds : DeleteMessageFromFolder(u, n, f)
    BY <1>8 DEF Filing, Known
  <2>1. UNCHANGED <<message, folder>> /\ bond' = bond
    BY DEF MarkMessageAsRead, MarkMessageAsSpam, MoveToFolder, DeleteMessageFromFolder
  <2>2. <<m, d>> \in fpm
    <3>1. folder[d].type = "draft"
      BY <1>4, <2>1 DEF OfType
    <3>2. CASE MarkMessageAsSpam(u, n)
      BY <1>2, <3>1, <3>2 DEF MarkMessageAsSpam, OfType
    <3>3. ASSUME NEW f, folder[f].type # "draft", MoveToFolder(u, n, f) PROVE <<m, d>> \in fpm
      BY <1>2, <3>1, <3>3 DEF MoveToFolder
    <3>4. CASE MarkMessageAsRead(u, n)
      BY <1>2, <3>4 DEF MarkMessageAsRead
    <3>5. ASSUME NEW f, DeleteMessageFromFolder(u, n, f) PROVE <<m, d>> \in fpm
      BY <1>2, <3>5 DEF DeleteMessageFromFolder
    <3>. QED
      BY <3>2, <3>3, <3>4, <3>5
  <2>. QED
    BY <1>3, <2>1, <2>2
<1>9. CASE Drafting
  <2>1. ASSUME NEW u \in Users, NEW n \in MsgIds, DeleteDraft(u, n)
        PROVE  Mine /\ n # m /\ message'[m] = message[m] /\ bond' \subseteq bond
    BY <1>2, <1>3, <2>1 DEF DeleteDraft, CascadeMessage, TypeOK
  <2>2. ASSUME NEW u \in Users, NEW n \in MsgIds, SendDraft(u, n)
        PROVE  Mine /\ UNCHANGED <<message, bond>>
    BY <1>2, <1>3, <1>4, <2>2 DEF SendDraft, OfType
  <2>3. ASSUME NEW u \in Users, NEW n \in MsgIds, NEW x \in Texts, SaveNewDraft(u, n, x)
        PROVE  /\ message'[m].sender = p
               /\ \A e \in bond' : e[2] = m => e[1] = p
    <3>1. CASE n = m
      <4>1. (\A e \in fpm : e[1] # m) /\ (\A e \in bond : e[2] # m)
        BY <2>3, <3>1 DEF SaveNewDraft, InsertMessage, NoDanglingReference, Live
      <4>2. d \in OfType(u, "draft") /\ d \in OfType(p, "draft")
        BY <1>2, <1>4, <2>3, <3>1, <4>1 DEF SaveNewDraft
      <4>3. u = p
        BY <4>2 DEF OfType, FoldersOf
      <4>. QED
        BY <2>3, <3>1, <4>1, <4>3 DEF SaveNewDraft, InsertMessage, TypeOK
    <3>2. CASE n # m
      BY <1>2, <1>3, <2>3, <3>2 DEF SaveNewDraft, InsertMessage, TypeOK
    <3>. QED
      BY <3>1, <3>2
  <2>4. ASSUME NEW u \in Users, NEW n \in MsgIds, NEW x \in Texts, SaveExistingDraft(u, n, x)
        PROVE  /\ message'[m].sender = p
               /\ \A e \in bond' : e[2] = m => e[1] = p
    <3>1. Mine /\ m \in Live
      BY <1>2, <1>3, <2>4 DEF SaveExistingDraft, NoDanglingReference
    <3>2. message'[m].sender = message[m].sender
      BY <2>4, <3>1 DEF SaveExistingDraft, TypeOK, Live, MessageRow
    <3>3. n = m => u = p
      <4>. SUFFICES ASSUME n = m PROVE u = p
        OBVIOUS
      <4>1. message[m].sender = u
        BY <2>4 DEF SaveExistingDraft, DraftIsPrivate
      <4>. QED
        BY <3>1, <4>1
    <3>. QED
      BY <2>4, <3>1, <3>2, <3>3 DEF SaveExistingDraft
  <2>. QED
    BY <1>9, <2>1, <2>2, <2>3, <2>4 DEF Drafting
<1>10. CASE ManageFolder
  <2>1. UNCHANGED <<message, bond>>
    BY <1>10 DEF ManageFolder, CreateFolder, RenameFolder, DeleteFolder
  <2>2. d \in Folders' /\ folder'[d].owner = p /\ folder'[d].type = "draft"
    BY <1>2 DEF OfType, FoldersOf
  <2>3. <<m, d>> \in fpm
    <3>1. CASE UNCHANGED fpm
      BY <1>2, <3>1
    <3>2. ASSUME NEW u \in Users, NEW f \in FolderIds, DeleteFolder(u, f) PROVE <<m, d>> \in fpm
      <4>. PICK b \in OfType(u, "trash") :
             fpm' = {e \in fpm : e[2] # f} \cup {<<e[1], b>> : e \in {r \in fpm : r[2] = f}}
        BY <3>2 DEF DeleteFolder
      <4>1. b # f /\ b \in FolderIds /\ folder[b].type = "trash"
        BY <3>2 DEF DeleteFolder, OfType, FoldersOf, Folders
      <4>2. folder'[b] = folder[b]
        BY <3>2, <4>1 DEF DeleteFolder, TypeOK
      <4>3. d # b
        BY <2>2, <4>1, <4>2
      <4>. QED
        BY <1>2, <4>3
    <3>. QED
      BY <1>10, <3>1, <3>2 DEF ManageFolder, CreateFolder, RenameFolder
  <2>4. d \in Folders
    BY <2>3 DEF NoDanglingReference
  <2>5. d \in OfType(p, "draft")
    BY <2>2, <2>4, FolderKept DEF OfType, FoldersOf
  <2>. QED
    BY <1>1, <2>1, <2>3, <2>5 DEF IsDraftBelongsToUser, In
<1>. QED
  BY <1>5, <1>6, <1>7, <1>8, <1>9, <1>10 DEF Next

\* A draft concerns its author alone.
THEOREM DraftIsPrivateHolds ==
    ASSUME "draft" \notin MovableTypes
    PROVE  Spec => []DraftIsPrivate
<1>1. Init => DraftIsPrivate
  BY DEF Init, DraftIsPrivate, IsDraftBelongsToUser, In
<1>2. StoreInv /\ DraftIsPrivate /\ [Next]_vars => DraftIsPrivate'
  BY DraftStep
<1>. QED
  BY <1>1, <1>2, StoreInvariant, PTL DEF Spec

\* A delivered message is settled: only drafts are edited or deleted, and a
\* draft is nobody else's message.
THEOREM DeliveredIsSettledHolds ==
    ASSUME "draft" \notin MovableTypes
    PROVE  Spec => DeliveredIsSettled
<1>1. StoreInv /\ DraftIsPrivate /\ [Next]_vars =>
        [\A m \in Live : Delivered(m) =>
            m \in Live' /\ message'[m].text = message[m].text]_vars
  <2>. SUFFICES ASSUME StoreInv, DraftIsPrivate, [Next]_vars, NEW m \in Live, Delivered(m)
                PROVE  m \in Live' /\ message'[m].text = message[m].text
    BY Zenon
  <2>. USE DEF StoreInv
  <2>1. \A p \in Users : ~IsDraftBelongsToUser(p, m)
    BY DEF DraftIsPrivate, Live
  <2>2. CASE Drafting
    BY <2>1, <2>2 DEF Drafting, DeleteDraft, SendDraft, SaveNewDraft, SaveExistingDraft,
       InsertMessage, Live, TypeOK
  <2>3. CASE Deliver
    BY <2>3 DEF Deliver, SaveMessageWithFolderDistribution,
       ReplyToMessageWithFolderDistribution, InsertMessage, Live, TypeOK
  <2>4. ASSUME NEW n \in MsgIds, NEW t \in ThreadIds, SaveThreadIdToMessage(n, t)
        PROVE  m \in Live' /\ message'[m].text = message[m].text
    <3>1. n \in Live /\ message[n] \in MessageRow
      BY <2>4 DEF SaveThreadIdToMessage, Live, TypeOK
    <3>2. message'[n] \in MessageRow /\ message'[n].text = message[n].text
      BY <2>4, <3>1 DEF SaveThreadIdToMessage, TypeOK, MessageRow
    <3>3. n # m => message'[m] = message[m]
      BY <2>4 DEF SaveThreadIdToMessage, TypeOK, Live
    <3>. QED
      BY <3>2, <3>3 DEF Live
  <2>5. CASE UNCHANGED message
    BY <2>5 DEF Live
  <2>6. CASE ThreadOrFile
    BY <2>4, <2>5, <2>6 DEF ThreadOrFile, SaveFile, SaveThread
  <2>7. Filing \/ ManageFolder \/ UNCHANGED vars => UNCHANGED message
    BY DEF Filing, MarkMessageAsRead, MarkMessageAsSpam, MoveToFolder,
       DeleteMessageFromFolder, ManageFolder, CreateFolder, RenameFolder, DeleteFolder, vars
  <2>. QED
    BY <2>2, <2>3, <2>5, <2>6, <2>7 DEF Next
<1>. QED
  BY <1>1, StoreInvariant, DraftIsPrivateHolds, PTL DEF Spec, DeliveredIsSettled

=============================================================================
