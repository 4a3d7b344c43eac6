------------------------------- MODULE MailTx -------------------------------
(***************************************************************************)
(* The transactions that message-repository.go runs on placements, drafts  *)
(* and folders, statement by statement, as READ COMMITTED executes them:    *)
(*                                                                         *)
(*   - a statement picks its rows from a snapshot taken when it starts,    *)
(*     and skips a picked row that is gone when its turn comes;            *)
(*   - a row another open transaction deletes, and a key it inserts, make  *)
(*     the statement wait until that transaction ends;                     *)
(*   - the foreign keys of an inserted row lock their parents FOR KEY      *)
(*     SHARE at the end of the statement, or fail it;                      *)
(*   - UPDATE and DELETE lock a message or folder row, DELETE against      *)
(*     every other lock, and a DELETE then cascades to the placements;     *)
(*   - transactions waiting for each other in a ring lose one of them.     *)
(*                                                                         *)
(* A request runs one transaction and is answered when it ends.  Any open  *)
(* request may be rolled back: its connection is lost, its context is      *)
(* cancelled, its server stops.                                            *)
(*                                                                         *)
(* Every transaction holds one connection of the service's pool, and every *)
(* query outside a transaction takes one for as long as it runs.  The      *)
(* second ownership check of DeleteDraft is such a query, made while the   *)
(* transaction it belongs to is open.                                      *)
(***************************************************************************)
EXTENDS Naturals, Sequences, FiniteSets

CONSTANTS
    Users, MsgIds, CustomIds,
    FolderOwner,   \* the owner of each folder in CustomIds
    Author,        \* the sender of each message
    Starts,        \* the sets of placements the requests may find
    Tx,            \* requests
    Requests,      \* what a request may be: [op, user, msg, folder]
    Loads,         \* how many requests are served at a time, on how many connections
    Setup,         \* the inserter of the rows that are there at the start
    NoRow, Null

SystemTypes == {"inbox", "sent", "draft", "spam", "trash"}

FolderIds == (Users \X SystemTypes) \cup CustomIds

\* The statements of each operation; "keys" stands for the foreign key checks
\* that end the INSERT before it.  What comes before "begin" is the handler's.
Script ==
    [spam |-> <<"begin", "file in spam", "keys", "unfile elsewhere", "commit">>,
     move |-> <<"begin", "unfile everywhere", "file in target", "keys", "commit">>,
     take |-> <<"begin", "unfile target", "commit">>,
     save |-> <<"begin", "check draft", "stamp", "bond", "commit">>,
     delete |-> <<"check draft", "begin", "check draft", "unfile everywhere",
                  "delete message", "cascade message", "commit">>,
     send |-> <<"check draft", "begin", "find", "stamp", "unfile draft",
                "file in sent", "keys", "file in inbox", "keys", "commit">>,
     drop |-> <<"begin", "check folder", "file in trash", "keys", "empty folder",
                "delete folder", "cascade folder", "commit">>]

Request ==
    [op : DOMAIN Script, user : Users, msg : MsgIds, folder : FolderIds]

RowVersion == MsgIds \X FolderIds \X (Tx \cup {Setup})

LockMode == {"key share", "no key update", "update"}

ASSUME TxAssumption ==
    /\ CustomIds \cap (Users \X SystemTypes) = {}
    /\ MsgIds \cap FolderIds = {}
    /\ FolderOwner \in [CustomIds -> Users]
    /\ Author \in [MsgIds -> Users]
    /\ \A s \in Starts : s \subseteq MsgIds \X FolderIds
    /\ Requests \subseteq Request
    /\ Loads \subseteq [open : Nat, pool : Nat]
    /\ Setup \notin Tx
    /\ Null \notin Request

VARIABLES
    load,        \* the load of this behaviour
    request,     \* what each request asks for, Null before it arrives
    status,      \* how far it is
    pc,          \* its statement
    todo,        \* what is left of the statement's snapshot, Null before it starts
    fpm,         \* versions of placements: <<message, folder, inserter>>
    deleted,     \* the versions each open transaction has deleted
    lock,        \* <<transaction, message or folder, mode>>
    alive,       \* message rows
    folders,     \* folder rows
    text,        \* message.text
    dispatched   \* messages whose date_of_dispatch SendDraft has set

vars == <<load, request, status, pc, todo, fpm, deleted, lock, alive, folders, text,
          dispatched>>

rows == <<fpm, deleted, lock>>
tables == <<alive, folders, text, dispatched>>

-----------------------------------------------------------------------------

Open(t) == status[t] = "open"

Statement(t) == Script[request[t].op][pc[t]]

\* What t has done already.
Past(t) == {Script[request[t].op][i] : i \in 1 .. pc[t] - 1}

\* The transactions, each with a connection.
Holding == {t \in Tx : Open(t) /\ "begin" \in Past(t)}

ConnectionFree == Cardinality(Holding) < load.pool

Committed(x) == x = Setup \/ status[x] = "committed"

\* The placements anybody may read.
Placed == {<<v[1], v[2]>> : v \in {w \in fpm : Committed(w[3])}}

\* What the snapshot of a statement of t holds.
Visible(t) == {v \in fpm : (v[3] = t \/ Committed(v[3])) /\ v \notin deleted[t]}

OwnerOf(f) == IF f \in CustomIds THEN FolderOwner[f] ELSE f[1]

\* Seeded fault: only the folders the user made.
CustomFoldersOf(p) == {f \in folders \cap CustomIds : FolderOwner[f] = p}

FoldersOf(p) == {f \in folders : OwnerOf(f) = p}

TypeOf(f) == IF f \in CustomIds THEN "custom" ELSE f[2]

\* The requests start where no message lies in two folders of a user, other than
\* a delivery to himself.
ASSUME StartsAssumption ==
    \A s \in Starts : \A d, e \in s :
        d[1] = e[1] /\ OwnerOf(d[2]) = OwnerOf(e[2]) /\ d[2] # e[2]
            => {TypeOf(d[2]), TypeOf(e[2])} = {"inbox", "sent"}

-----------------------------------------------------------------------------
(* The statements.  Each handles a set of items one at a time: rows to     *)
(* delete, placements to insert, parents to lock.                          *)

\* The conditions of the DELETE statements.
Selects(t, v) ==
    LET r == request[t]
        s == Statement(t)
    IN  \/ /\ v[1] = r.msg
           /\ v[2] \in FoldersOf(r.user)
           /\ \/ s = "unfile everywhere"
              \/ s = "unfile elsewhere" /\ TypeOf(v[2]) # "spam"
              \/ s = "unfile draft" /\ TypeOf(v[2]) = "draft"
              \/ s = "unfile target" /\ v[2] = r.folder
        \/ s = "cascade message" /\ v[1] = r.msg
        \/ s \in {"empty folder", "cascade folder"} /\ v[2] = r.folder

Unfiling ==
    {"unfile everywhere", "unfile elsewhere", "unfile draft", "unfile target",
     "cascade message", "empty folder", "cascade folder"}

\* The placements the INSERT statements add.
Additions(t) ==
    LET r == request[t]
    IN  CASE Statement(t) = "file in spam" -> {<<r.msg, <<r.user, "spam">>>>}
          [] Statement(t) = "file in sent" -> {<<r.msg, <<r.user, "sent">>>>}
          [] Statement(t) = "file in inbox" -> {<<r.msg, <<r.user, "inbox">>>>}
          [] Statement(t) = "file in target" -> {<<r.msg, r.folder>>}
          [] Statement(t) = "file in trash" ->
                {<<v[1], <<r.user, "trash">>>> : v \in {w \in Visible(t) : w[2] = r.folder}}

Adding ==
    {"file in spam", "file in sent", "file in inbox", "file in target",
     "file in trash"}

\* Seeded fault: ON CONFLICT DO NOTHING at the sent copy, too.
OnConflictIgnoreSent ==
    {"file in spam", "file in inbox", "file in trash", "file in sent"}

\* INSERT ... ON CONFLICT DO NOTHING.
OnConflictDoNothing == {"file in spam", "file in inbox", "file in trash"}

\* The parents of the rows t has inserted.
Parents(t) == UNION {{v[1], v[2]} : v \in {w \in fpm : w[3] = t}}

Items(t) ==
    CASE Statement(t) \in Unfiling -> {v \in Visible(t) : Selects(t, v)}
      [] Statement(t) \in Adding -> Additions(t)
      [] Statement(t) = "keys" -> Parents(t)
      [] Statement(t) \in {"stamp", "bond", "delete message"} -> {request[t].msg}
      [] Statement(t) = "delete folder" -> {request[t].folder}

\* The versions with the key of placement e that t has not deleted itself.
Duplicates(t, e) == {v \in fpm : <<v[1], v[2]>> = e /\ v \notin deleted[t]}

Deleters(t, v) == {u \in Tx \ {t} : v \in deleted[u]}

\* Seeded fault: row locks are not waited for.
NoLockHolders(t, r, modes) == {}

LockHolders(t, r, modes) ==
    {u \in Tx \ {t} : \E mode \in modes : <<u, r, mode>> \in lock}

\* The transactions that item i of t's statement waits for.
Holders(t, i) ==
    CASE Statement(t) \in Unfiling -> Deleters(t, i)
      [] Statement(t) \in Adding ->
            UNION {Deleters(t, v) \cup ({v[3]} \cap {u \in Tx \ {t} : Open(u)}) :
                      v \in Duplicates(t, i)}
      [] Statement(t) \in {"keys", "bond"} -> LockHolders(t, i, {"update"})
      [] Statement(t) = "stamp" -> LockHolders(t, i, {"no key update", "update"})
      [] Statement(t) \in {"delete message", "delete folder"} ->
            LockHolders(t, i, LockMode)

\* Seeded fault: no foreign keys.
RefusedByIndex(t, i) ==
    /\ Statement(t) \in Adding \ OnConflictDoNothing
    /\ Duplicates(t, i) # {}

\* Unique index and foreign keys: what fails the statement.
Refused(t, i) ==
    \/ /\ Statement(t) \in Adding \ OnConflictDoNothing
       /\ Duplicates(t, i) # {}
    \/ Statement(t) \in {"keys", "bond"} /\ i \notin alive \cup folders

\* The mode in which a statement locks the rows it meets.
Mode(s) ==
    CASE s = "keys" -> "key share"
      [] s = "stamp" -> "no key update"
      [] s \in {"delete message", "delete folder"} -> "update"

\* What the statement of t does to item i.  A row that is gone is skipped.
Effect(t, i) ==
    \/ /\ Statement(t) \in Unfiling
       /\ deleted' = [deleted EXCEPT ![t] = @ \cup ({i} \cap fpm)]
       /\ UNCHANGED <<fpm, lock>>
    \/ /\ Statement(t) \in Adding
       /\ fpm' = IF Duplicates(t, i) = {} THEN fpm \cup {<<i[1], i[2], t>>} ELSE fpm
       /\ UNCHANGED <<deleted, lock>>
    \/ /\ Statement(t) \in {"keys", "stamp", "delete message", "delete folder"}
       /\ lock' = lock \cup ({t} \X ({i} \cap (alive \cup folders))
                                  \X {Mode(Statement(t))})
       /\ UNCHANGED <<fpm, deleted>>
    \/ /\ Statement(t) = "bond"
       /\ UNCHANGED rows

-----------------------------------------------------------------------------
(* Beginning and ending a request. *)

Arrive(t, r) ==
    /\ status[t] = "idle"
    /\ Cardinality({u \in Tx : Open(u)}) < load.open
    /\ request' = [request EXCEPT ![t] = r]
    /\ status' = [status EXCEPT ![t] = "open"]
    /\ UNCHANGED <<load, pc, todo, rows, tables>>

Advance(t) ==
    /\ pc' = [pc EXCEPT ![t] = @ + 1]
    /\ todo' = [todo EXCEPT ![t] = Null]
    /\ UNCHANGED <<load, request, status>>

\* BeginTx
Begin(t) ==
    /\ Open(t) /\ Statement(t) = "begin"
    /\ ConnectionFree
    /\ Advance(t)
    /\ UNCHANGED <<rows, tables>>

\* Seeded fault: the row locks outlive the transaction.
RollbackKeepingLocks(t, outcome) ==
    /\ status' = [status EXCEPT ![t] = outcome]
    /\ todo' = [todo EXCEPT ![t] = Null]
    /\ fpm' = {v \in fpm : v[3] # t}
    /\ deleted' = [deleted EXCEPT ![t] = {}]
    /\ UNCHANGED <<load, request, pc, lock, tables>>

\* defer tx.Rollback()
Rollback(t, outcome) ==
    /\ status' = [status EXCEPT ![t] = outcome]
    /\ todo' = [todo EXCEPT ![t] = Null]
    /\ fpm' = {v \in fpm : v[3] # t}
    /\ deleted' = [deleted EXCEPT ![t] = {}]
    /\ lock' = {l \in lock : l[1] # t}
    /\ UNCHANGED <<load, request, pc, tables>>

\* Seeded fault: the rows locked by an UPDATE.
DoomedByUpdate(t) == {r \in MsgIds \cup FolderIds : <<t, r, "no key update">> \in lock}

Doomed(t) == {r \in MsgIds \cup FolderIds : <<t, r, "update">> \in lock}

\* The messages whose row t has updated.
Updated(t) == {m \in alive : <<t, m, "no key update">> \in lock}

Commit(t) ==
    /\ Open(t) /\ Statement(t) = "commit"
    /\ status' = [status EXCEPT ![t] = "committed"]
    /\ fpm' = fpm \ deleted[t]
    /\ deleted' = [deleted EXCEPT ![t] = {}]
    /\ lock' = {l \in lock : l[1] # t}
    /\ alive' = alive \ Doomed(t)
    /\ folders' = folders \ Doomed(t)
    /\ text' = [m \in MsgIds |->
                   IF request[t].op = "save" /\ m \in Updated(t) THEN "new" ELSE text[m]]
    /\ dispatched' = IF request[t].op = "send"
                     THEN dispatched \cup Updated(t)
                     ELSE dispatched
    /\ UNCHANGED <<load, request, pc, todo>>

Fail(t) == Open(t) /\ Rollback(t, "failed")

-----------------------------------------------------------------------------
(* Queries: they wait for nobody. *)

\* Seeded fault: nobody looks whether the message is the caller's draft.
CheckDraftNowhere(t) ==
    /\ Open(t) /\ Statement(t) = "check draft"
    /\ Advance(t)
    /\ UNCHANGED <<rows, tables>>

\* Seeded fault: the handler, too, takes the missing error for success.
CheckDraftInSilence(t) ==
    /\ Open(t) /\ Statement(t) = "check draft"
    /\ request[t].op = "save" \/ ConnectionFree
    /\ IF <<request[t].msg, <<request[t].user, "draft">>>> \in Placed
       THEN Advance(t) /\ UNCHANGED <<rows, tables>>
       ELSE Rollback(t, "nothing")

\* The first check of a deletion or a sending is the handler's and answers
\* PermissionDenied; where the repository checks by itself it wraps a nil error
\* and reports success.  Only SaveDraft checks on its own connection.
CheckDraft(t) ==
    /\ Open(t) /\ Statement(t) = "check draft"
    /\ request[t].op = "save" \/ ConnectionFree
    /\ IF <<request[t].msg, <<request[t].user, "draft">>>> \in Placed
       THEN Advance(t) /\ UNCHANGED <<rows, tables>>
       ELSE Rollback(t, IF t \in Holding THEN "nothing" ELSE "failed")

CheckFolder(t) ==
    /\ Open(t) /\ Statement(t) = "check folder"
    /\ IF request[t].folder \in FoldersOf(request[t].user) \cap CustomIds
       THEN Advance(t) /\ UNCHANGED <<rows, tables>>
       ELSE Rollback(t, "failed")

FindDraft(t) ==
    /\ Open(t) /\ Statement(t) = "find"
    /\ IF request[t].msg \in alive
       THEN Advance(t) /\ UNCHANGED <<rows, tables>>
       ELSE Rollback(t, "failed")

-----------------------------------------------------------------------------
(* Statements that change rows. *)

Executing(t) ==
    /\ Open(t)
    /\ Statement(t) \notin {"begin", "check draft", "check folder", "find", "commit"}

Start(t) ==
    /\ Executing(t)
    /\ todo[t] = Null
    /\ IF Items(t) = {}
       THEN Advance(t)
       ELSE todo' = [todo EXCEPT ![t] = Items(t)] /\ UNCHANGED <<load, request, status, pc>>
    /\ UNCHANGED <<rows, tables>>

Handle(t) ==
    /\ Executing(t)
    /\ todo[t] # Null
    /\ \E i \in todo[t] :
         /\ Holders(t, i) = {}
         /\ ~Refused(t, i)
         /\ Effect(t, i)
         /\ IF todo[t] = {i}
            THEN Advance(t)
            ELSE todo' = [todo EXCEPT ![t] = @ \ {i}] /\ UNCHANGED <<load, request, status, pc>>
    /\ UNCHANGED tables

Refuse(t) ==
    /\ Executing(t)
    /\ todo[t] # Null
    /\ \E i \in todo[t] : Holders(t, i) = {} /\ Refused(t, i)
    /\ Rollback(t, "failed")

\* t waits for u.
WaitsFor(t, u) ==
    /\ Executing(t)
    /\ todo[t] # Null
    /\ \A i \in todo[t] : Holders(t, i) # {}
    /\ \E i \in todo[t] : u \in Holders(t, i)

\* PostgreSQL ends one transaction of a ring.
BreakDeadlock(t) ==
    /\ \E ring \in SUBSET Tx :
         /\ t \in ring
         /\ \A u \in ring : /\ \E w \in ring : WaitsFor(u, w)
                            /\ \E w \in ring : WaitsFor(w, u)
    /\ Rollback(t, "failed")

-----------------------------------------------------------------------------

Init ==
    /\ load \in Loads
    /\ request = [t \in Tx |-> Null]
    /\ status = [t \in Tx |-> "idle"]
    /\ pc = [t \in Tx |-> 1]
    /\ todo = [t \in Tx |-> Null]
    /\ \E s \in Starts : fpm = {<<e[1], e[2], Setup>> : e \in s}
    /\ deleted = [t \in Tx |-> {}]
    /\ lock = {}
    /\ alive = MsgIds
    /\ folders = FolderIds
    /\ text = [m \in MsgIds |-> "old"]
    /\ dispatched = {}

Query(t) == CheckDraft(t) \/ CheckFolder(t) \/ FindDraft(t)

Step(t) == Begin(t) \/ Query(t) \/ Start(t) \/ Handle(t) \/ Refuse(t) \/ Commit(t)

\* All requests are answered.
Finished == (\A t \in Tx : status[t] \notin {"idle", "open"}) /\ UNCHANGED vars

Next ==
    \/ \E t \in Tx : \/ \E r \in Requests : Arrive(t, r)
                     \/ Step(t)
                     \/ BreakDeadlock(t)
                     \/ Fail(t)
    \/ Finished

Spec == Init /\ [][Next]_vars

\* The database serves every statement it can and looks for deadlocks
\* (deadlock_timeout).  Requests need not arrive, connections need not fail.
FairSpec == Spec /\ \A t \in Tx : WF_vars(Step(t)) /\ WF_vars(BreakDeadlock(t))

-----------------------------------------------------------------------------
(* What the transactions promise. *)

TypeOK ==
    /\ load \in Loads
    /\ Cardinality(Holding) <= load.pool
    /\ request \in [Tx -> Requests \cup {Null}]
    /\ status \in [Tx -> {"idle", "open", "committed", "failed", "nothing"}]
    /\ pc \in [Tx -> 1 .. 10]
    /\ \A t \in Tx : status[t] # "idle" => pc[t] \in DOMAIN Script[request[t].op]
    /\ fpm \subseteq RowVersion
    /\ deleted \in [Tx -> SUBSET fpm]
    /\ lock \subseteq Tx \X (alive \cup folders) \X LockMode
    /\ alive \subseteq MsgIds /\ folders \subseteq FolderIds
    /\ dispatched \subseteq MsgIds

\* Whatever runs beside it, a transaction that deletes a message or a folder
\* leaves no placement in it: neither one committed earlier, nor one inserted
\* while it ran.
NoOrphan == \A e \in Placed : e[1] \in alive /\ e[2] \in folders

\* A request of one user for one message, answered without error.
Done(t, ops, p, m) ==
    /\ status[t] = "committed" /\ request[t].op \in ops
    /\ request[t].user = p /\ request[t].msg = m

\* One answered without error that may file m in a folder of p.  A move asks for a
\* folder by number, whoever owns it; deleting a folder files whatever lies in it.
Files(t, p, m) ==
    \/ Done(t, {"spam", "send"}, p, m)
    \/ /\ status[t] = "committed" /\ request[t].op = "move"
       /\ request[t].msg = m /\ OwnerOf(request[t].folder) = p
    \/ status[t] = "committed" /\ request[t].op = "drop" /\ request[t].user = p

\* The folders in which p finds m.
Where(p, m) == {f \in FolderIds : OwnerOf(f) = p /\ <<m, f>> \in Placed}

\* A draft is sent at most once, however often "send" is pressed: the second
\* transaction waits for the message row and then finds the sent copy.  Only who
\* takes that copy out of "sent" can send the message again.
SendsOnce ==
    \A t, u \in Tx : \A p \in Users, m \in MsgIds :
        Done(t, {"send"}, p, m) /\ Done(u, {"send"}, p, m) /\ t # u
            => \E w \in Tx : Done(w, {"spam", "move", "take"}, p, m)

\* A sent message is dated and lies in its sender's "sent" and "inbox" and in no
\* other folder of his, until he or a move files it elsewhere: it is never half
\* sent, and never a draft again.
SentForGood ==
    \A p \in Users, m \in alive :
        (\E t \in Tx : Done(t, {"send"}, p, m))
        => /\ m \in dispatched
           /\ \/ {TypeOf(f) : f \in Where(p, m)} = {"sent", "inbox"}
              \/ \E w \in Tx : \/ Done(w, {"spam", "move", "take"}, p, m)
                               \/ Files(w, p, m) /\ request[w].op # "send"

\* A request answered without error has done its work: when a move commits, the
\* message lies in the target; when a folder or a draft is deleted, it is gone.
Answered(t) == Open(t) /\ status'[t] = "committed"

KeepsItsWord ==
    [][\A t \in Tx : Answered(t) =>
          LET r == request[t]
          IN  /\ r.op = "move" => <<r.msg, r.folder>> \in Placed'
              /\ r.op = "delete" => r.msg \notin alive'
              /\ r.op = "drop" => r.folder \notin folders']_vars

\* Every connection belongs to a DeleteDraft that waits for a second one.
Starved ==
    /\ Cardinality(Holding) = load.pool
    /\ \A t \in Holding : Statement(t) = "check draft" /\ request[t].op = "delete"

\* Every request is answered: no wait lasts, for every ring of row locks is
\* broken, unless as many drafts are deleted at once as the pool has connections.
\* Nobody breaks that ring.
EveryRequestIsAnswered == \A t \in Tx : Open(t) ~> ~Open(t) \/ Starved

\* The DELETE of a move or of a spam mark skips rows that are gone and misses
\* rows that are new, so that two filings side by side can leave a message in
\* two folders.  It takes two, or a move by somebody else, which clears his own
\* folders: one request of the user alone, or one after the other, leaves a
\* message in one folder, or in "inbox" and "sent" when it was sent to oneself.
TwoFoldersNeedTwoFilings ==
    \A p \in Users, m \in alive : \A f, g \in Where(p, m) :
        f # g => \/ {TypeOf(f), TypeOf(g)} = {"inbox", "sent"}
                 \/ \E t \in Tx : Files(t, p, m) /\ request[t].user # p
                 \/ /\ load.open > 1
                    /\ \E t, u \in Tx : t # u /\ Files(t, p, m) /\ Files(u, p, m)

\* A deletion that answers "success" and has deleted nothing was overtaken:
\* another request has taken the message out of the user's drafts, or deleted it,
\* since the handler found it there.
NothingOnlyWhenOvertaken ==
    \A t \in Tx :
        status[t] = "nothing" /\ request[t].op = "delete"
        => \E u \in Tx : \/ Done(u, {"spam", "move", "take", "send"},
                                   request[t].user, request[t].msg)
                         \/ Done(u, {"delete"}, request[u].user, request[t].msg)

\* With one request at a time, each statement script does exactly what the
\* operation of MailStore says.
Store ==
    INSTANCE MailStore WITH
        ThreadIds <- {},
        CustomNames <- CustomIds,
        Texts <- {"old", "new"},
        MovableTypes <- SystemTypes \cup {"custom"},
        MaxFiles <- 0,
        message <- [m \in MsgIds |->
            IF m \in alive
            THEN [sender |-> Author[m], text |-> text[m], thread_id |-> Null]
            ELSE NoRow],
        thread <- [t \in {} |-> NoRow],
        folder <- [f \in FolderIds |->
            IF f \in folders
            THEN [owner |-> OwnerOf(f), type |-> TypeOf(f),
                  name |-> IF f \in CustomIds THEN f ELSE f[2]]
            ELSE NoRow],
        fpm <- Placed,
        bond <- Users \X alive,
        read_status <- {},
        file <- [m \in MsgIds |-> 0]

ImplementsStore == [][load.open = 1 => Store!Next]_(Store!vars)

\* A message leaves a user's last folder only when a draft is deleted or he
\* takes it out of that folder himself.
NothingLost ==
    [][\A p \in Users, m \in alive :
          LET In(f) == <<m, f>> \in Placed
              Mine == {f \in FolderIds : OwnerOf(f) = p}
          IN  (\E f \in Mine : In(f)) /\ ~(\E f \in Mine : In(f)')
                => \/ m \notin alive'
                   \/ \E t \in Tx : Answered(t) /\ request[t].op = "take"]_vars

=============================================================================
