--------------------------- MODULE MessagesService ---------------------------
(***************************************************************************)
(* The handlers of messages-service/grpc-service/grpc_service.go that make *)
(* several repository calls for one request: Send, Reply, SaveDraft and    *)
(* MessagePage, with one step per repository call.  Between two calls of   *)
(* one handler other requests run; any call may fail, and the handler then *)
(* answers with an error and undoes nothing.                               *)
(*                                                                         *)
(* A repository call is the atomic operation of MailStore (MailTx tells    *)
(* what becomes of the operations that collide inside the database).       *)
(***************************************************************************)
EXTENDS MailStore

CONSTANTS
    Calls,      \* requests
    MaxBusy,    \* how many of them are served at a time
    Addresses,  \* of the users and of nobody
    DraftAddresses, \* any text: a draft keeps no receiver
    MaxReceivers, \* of one request
    Ops,        \* the handlers called
    LookupFails \* whether the query of resolveThreadRoot may fail

Working ==
    {"given", "lookup", "create", "attach", "deliver", "save", "thread", "bind",
     "refile", "file", "permit", "page", "should", "mark"}

\* The i-th receiver of a request and his address.
Entry == (1 .. MaxReceivers) \X (Addresses \cup DraftAddresses)

\* The local variables of a handler.  A list of receivers is the set of its
\* entries.  copies is a history variable: the messages the loop has made so
\* far, with the entries they are for.
Call ==
    [op : {"send", "reply", "draft", "page"}, user : Users,
     receivers : SUBSET Entry,       \* as requested
     to : SUBSET Entry,              \* not served yet
     root : MsgIds \cup {Null},      \* RootMessageId, MessageId or DraftId
     given : ThreadIds \cup {Null},  \* ThreadRoot or ThreadId
     thread : ThreadIds \cup {Null}, \* the resolved thread, or threadID of a turn
     msg : MsgIds \cup {Null},       \* msgID
     files : 0 .. MaxFiles,          \* as requested
     left : 0 .. MaxFiles,           \* not saved yet for msg
     copies : SUBSET (Entry \X MsgIds),
     step : Working \cup {"ok", "error"}]

ASSUME ServiceAssumption ==
    /\ Users \subseteq Addresses
    /\ MaxBusy \in Nat /\ MaxReceivers \in Nat
    /\ LookupFails \in BOOLEAN
    /\ Ops \subseteq {"send", "reply", "draft", "page"}
    /\ Null \notin Call

VARIABLE call

allVars == <<vars, call>>

-----------------------------------------------------------------------------

Busy(c) == call[c] # Null /\ call[c].step \in Working

At(c, step) == call[c] # Null /\ call[c].step = step

Goto(c, step) == call' = [call EXCEPT ![c].step = step]

\* The call that request c makes with thread t and root message r.
FirstStep(op, t) ==
    CASE op = "send" -> "deliver"
      [] op = "draft" -> "save"
      [] op = "page" -> "permit"
      [] op = "reply" -> IF t = Null THEN "lookup" ELSE "given"

NewCall(op, p, to, n, r, t) ==
    [op |-> op, user |-> p, receivers |-> to, to |-> to, root |-> r, given |-> t,
     thread |-> Null, msg |-> Null, files |-> n, left |-> 0, copies |-> {},
     step |-> FirstStep(op, t)]

\* Send and Reply refuse a receiver named twice, SaveDraft does not.
NoReceiverTwice(to) == \A e, g \in to : e[2] = g[2] => e = g

\* A well-formed request.  A draft without receivers is made like one with a
\* single address.
Accept(c, op, p, to, n, r, t) ==
    /\ call[c] = Null
    /\ Cardinality({d \in Calls : Busy(d)}) < MaxBusy
    /\ (op = "page") = (to = {})
    /\ op \in {"send", "reply"} => NoReceiverTwice(to)
    /\ op \in {"reply", "page"} => r # Null
    /\ op = "send" => r = Null
    /\ op \in {"send", "page"} => t = Null
    /\ op = "reply" => t \in {Null, message[r].thread_id}
    /\ op = "draft" /\ r # Null => t = Null
    /\ op # "page" \/ n = 0
    /\ call' = [call EXCEPT ![c] = NewCall(op, p, to, n, r, t)]
    /\ UNCHANGED vars

Lists(S) == UNION {[1 .. k -> S] : k \in 0 .. MaxReceivers}

Entries(list) == {<<i, list[i]>> : i \in DOMAIN list}

\* A client may name any message.  The thread he names is one a page shows: the
\* root message's for a reply, any for a new draft.
Receive(c) ==
    \E op \in Ops, p \in Users, n \in 0 .. MaxFiles :
      \E list \in Lists(IF op = "draft" THEN DraftAddresses ELSE Addresses) :
        \E r \in {Null} \cup Live, t \in {Null} \cup {message[m].thread_id : m \in Live} :
          Accept(c, op, p, Entries(list), n, r, t)

-----------------------------------------------------------------------------
(* resolveThreadRoot. *)

\* The client's thread is attached to the root message; if that fails a thread
\* is looked up or made.  An UPDATE of no row is no failure.
AttachGiven(c) ==
    /\ At(c, "given")
    /\ \/ /\ \/ SaveThreadIdToMessage(call[c].root, call[c].given)
             \/ call[c].root \notin Live /\ UNCHANGED vars
          /\ call' = [call EXCEPT ![c].thread = call[c].given, ![c].step = "deliver"]
       \/ Goto(c, "lookup") /\ UNCHANGED vars

Threaded(m) == m \in Live /\ message[m].thread_id # Null

\* A new thread is made for a message that has none, and when the query fails.
Lookup(c) ==
    /\ At(c, "lookup")
    /\ \/ /\ Threaded(call[c].root)
          /\ call' = [call EXCEPT ![c].thread = message[call[c].root].thread_id,
                                  ![c].step = "deliver"]
       \/ /\ ~Threaded(call[c].root) \/ LookupFails
          /\ Goto(c, "create")
    /\ UNCHANGED vars

Create(c) ==
    /\ At(c, "create")
    /\ \E t \in ThreadIds :
         /\ SaveThread(call[c].root, t)
         /\ call' = [call EXCEPT ![c].thread = t, ![c].step = "attach"]

Attach(c) ==
    /\ At(c, "attach")
    /\ \/ SaveThreadIdToMessage(call[c].root, call[c].thread)
       \/ call[c].root \notin Live /\ UNCHANGED vars
    /\ Goto(c, "deliver")

-----------------------------------------------------------------------------
(* The loop over the receivers. *)

\* The sequence of message ids never repeats one.
Fresh(m) ==
    \A c \in Calls : call[c] # Null => \A e \in call[c].copies : e[2] # m

\* Seeded fault: only the first copy gets files.
ServeFilesOnce(c, q, m, step) ==
    call' = [call EXCEPT ![c].to = @ \ {q},
                         ![c].thread = IF call[c].op = "draft" THEN call[c].given ELSE @,
                         ![c].copies = @ \cup {<<q, m>>},
                         ![c].msg = m,
                         ![c].left = IF call[c].msg = Null THEN call[c].files ELSE @,
                         ![c].step = step]

\* Seeded fault: the receiver is served again.
ServeAgain(c, q, m, step) ==
    call' = [call EXCEPT ![c].copies = @ \cup {<<q, m>>},
                         ![c].msg = m,
                         ![c].left = call[c].files,
                         ![c].step = step]

\* The receivers are served in the order of the list.
Turn(c, q) == q \in call[c].to /\ \A d \in call[c].to : q[1] <= d[1]

\* The loop takes receiver q, whose copy is message m.
Serve(c, q, m, step) ==
    call' = [call EXCEPT ![c].to = @ \ {q},
                         ![c].thread = IF call[c].op = "draft" THEN call[c].given ELSE @,
                         ![c].copies = @ \cup {<<q, m>>},
                         ![c].msg = m,
                         ![c].left = call[c].files,
                         ![c].step = step]

\* Only the first copy of a sent message starts a thread.
AfterDelivery(c) ==
    IF call[c].op = "send" /\ call[c].msg = Null THEN "thread" ELSE "file"

DeliverCopy(c) ==
    /\ At(c, "deliver")
    /\ \E q \in Entry, m \in MsgIds, x \in Texts :
         /\ Turn(c, q) /\ q[2] \in Users /\ Fresh(m)
         /\ \/ /\ call[c].op = "send"
               /\ SaveMessageWithFolderDistribution(call[c].user, q[2], m, x)
            \/ /\ call[c].op = "reply"
               /\ ReplyToMessageWithFolderDistribution(call[c].user, q[2], m, x, call[c].thread)
         /\ Serve(c, q, m, AfterDelivery(c))

\* Seeded fault: the message row is committed before it is filed.
SaveDraftUnfiled(c) ==
    /\ At(c, "save") /\ call[c].root = Null
    /\ \E q \in Entry, m \in MsgIds, x \in Texts :
         /\ Turn(c, q) /\ Fresh(m)
         /\ InsertMessage(m, call[c].user, x, Null)
         /\ Serve(c, q, m, IF call[c].given = Null THEN "thread" ELSE "bind")
    /\ UNCHANGED <<thread, folder, fpm, bond, read_status, file>>

\* A draft keeps no receiver, but the loop makes a new draft for each.
SaveDraft(c) ==
    /\ At(c, "save") /\ call[c].root = Null
    /\ \E q \in Entry, m \in MsgIds, x \in Texts :
         /\ Turn(c, q) /\ Fresh(m)
         /\ SaveNewDraft(call[c].user, m, x)
         /\ Serve(c, q, m, IF call[c].given = Null THEN "thread" ELSE "bind")

\* The next receiver's turn with an existing draft, or with none.
Again(c, q, m) ==
    call' = [call EXCEPT ![c].to = @ \ {q}, ![c].msg = m,
                         ![c].left = call[c].files, ![c].step = "file"]

\* A draft that exists is saved again for each receiver, with all files.
SaveDraftAgain(c) ==
    /\ At(c, "save") /\ call[c].root # Null
    /\ \E q \in Entry, x \in Texts :
         /\ Turn(c, q)
         /\ SaveExistingDraft(call[c].user, call[c].root, x)
         /\ Again(c, q, call[c].root)

\* When the message is not the caller's draft a nil error is wrapped: the
\* handler goes on with message 0, answers OK if there are no files to save.
SaveNothing(c) ==
    /\ At(c, "save") /\ call[c].root # Null
    /\ ~IsDraftBelongsToUser(call[c].user, call[c].root)
    /\ \E q \in Entry : Turn(c, q) /\ Again(c, q, Null)
    /\ UNCHANGED vars

StartThread(c) ==
    /\ At(c, "thread")
    /\ \E t \in ThreadIds :
         /\ SaveThread(call[c].msg, t)
         /\ call' = [call EXCEPT ![c].thread = t, ![c].step = "bind"]

Bind(c) ==
    /\ At(c, "bind")
    /\ \/ SaveThreadIdToMessage(call[c].msg, call[c].thread)
       \/ call[c].msg \notin Live /\ UNCHANGED vars
    /\ Goto(c, IF call[c].op = "draft" THEN "refile" ELSE "file")

\* SaveDraft puts the new draft into the draft folder once more.
Refile(c) ==
    /\ At(c, "refile")
    /\ \E d \in OfType(call[c].user, "draft") : MoveToFolder(call[c].user, call[c].msg, d)
    /\ Goto(c, "file")

\* Seeded fault: a file more than requested.
StoreFileAnyway(c) ==
    /\ At(c, "file")
    /\ SaveFile(call[c].msg)
    /\ call' = [call EXCEPT ![c].left = @ - 1]

StoreFile(c) ==
    /\ At(c, "file")
    /\ call[c].left > 0
    /\ SaveFile(call[c].msg)
    /\ call' = [call EXCEPT ![c].left = @ - 1]

NextReceiver(c) ==
    /\ At(c, "file")
    /\ call[c].left = 0
    /\ Goto(c, IF call[c].to = {} THEN "ok"
               ELSE IF call[c].op = "draft" THEN "save" ELSE "deliver")
    /\ UNCHANGED vars

-----------------------------------------------------------------------------
(* MessagePage. *)

Permit(c) ==
    /\ At(c, "permit")
    /\ Goto(c, IF call[c].root \in Known(call[c].user) THEN "page" ELSE "error")
    /\ UNCHANGED vars

FindFull(c) ==
    /\ At(c, "page")
    /\ Goto(c, IF call[c].root \in Live THEN "should" ELSE "error")
    /\ UNCHANGED vars

\* No row, an error and a message already read all mean there is nothing to mark.
ShouldMarkAsRead(c) ==
    /\ At(c, "should")
    /\ \/ <<call[c].user, call[c].root>> \in bond \ read_status /\ Goto(c, "mark")
       \/ Goto(c, "ok")
    /\ UNCHANGED vars

\* A failure to mark is only logged.
Mark(c) ==
    /\ At(c, "mark")
    /\ \/ MarkMessageAsRead(call[c].user, call[c].root)
       \/ UNCHANGED vars
    /\ Goto(c, "ok")

-----------------------------------------------------------------------------

\* A repository call fails - the database is unreachable, a foreign key or the
\* receiver is missing - or the server stops.  Nothing done before is undone.
Fail(c) ==
    /\ Busy(c)
    /\ Goto(c, "error")
    /\ UNCHANGED vars

\* Requests of one repository call each that reach into the handlers' work.
OtherRequest ==
    /\ \E p \in Users, m \in MsgIds : DeleteDraft(p, m) \/ SendDraft(p, m)
    /\ UNCHANGED call

ResolveThreadRoot(c) ==
    AttachGiven(c) \/ Lookup(c) \/ Create(c) \/ Attach(c)

Loop(c) ==
    \/ DeliverCopy(c) \/ SaveDraft(c) \/ SaveDraftAgain(c) \/ SaveNothing(c)
    \/ StartThread(c) \/ Bind(c) \/ Refile(c) \/ StoreFile(c) \/ NextReceiver(c)

MessagePage(c) == Permit(c) \/ FindFull(c) \/ ShouldMarkAsRead(c) \/ Mark(c)

ServiceInit == Init /\ call = [c \in Calls |-> Null]

ServiceNext ==
    \/ \E c \in Calls : \/ Receive(c) \/ ResolveThreadRoot(c) \/ Loop(c)
                        \/ MessagePage(c) \/ Fail(c)
    \/ OtherRequest

ServiceSpec == ServiceInit /\ [][ServiceNext]_allVars

-----------------------------------------------------------------------------

\* Handlers keep variables of their types.
ServiceTypeOK == call \in [Calls -> Call \cup {Null}]

\* Every step of a handler is one operation of the store, or leaves it alone.
ImplementsStore == Spec

Mails(c) == call[c] # Null /\ call[c].op \in {"send", "reply"}

\* What a copy should be: the caller's message in the receiver's inbox and his
\* own sent folder, known to the receiver, with every file, and in a thread if
\* it is a reply or the first copy.
Complete(c, e) ==
    /\ e[2] \in Live
    /\ message[e[2]].sender = call[c].user
    /\ <<e[1][2], e[2]>> \in bond
    /\ Rows(e[2], OfType(e[1][2], "inbox") \cup OfType(call[c].user, "sent")) \subseteq fpm
    /\ file[e[2]] = call[c].files
    /\ call[c].op = "reply" \/ e[1][1] = 1 => message[e[2]].thread_id # Null

\* An answer without error is true for all receivers, whatever drafts others
\* save, send and delete meanwhile and later: each has a complete copy.
OkMeansDelivered ==
    \A c \in Calls : Mails(c) /\ At(c, "ok") =>
        \A q \in call[c].receivers : \E e \in call[c].copies : e[1] = q /\ Complete(c, e)

\* However far a request has come, and wherever it failed, the entries it is
\* past have one copy each and the others none (a draft that exists has none at
\* all); of a send or reply no address has two, and all but the last are
\* complete.
ServedInFull ==
    \A c \in Calls : call[c] # Null =>
        /\ \A q \in call[c].receivers :
             Cardinality({e \in call[c].copies : e[1] = q}) =
                 IF q \in call[c].to \/ (call[c].op = "draft" /\ call[c].root # Null)
                 THEN 0 ELSE 1
        /\ Mails(c) => \A e, g \in call[c].copies :
             /\ e[1][2] = g[1][2] => e = g
             /\ e[2] # call[c].msg => Complete(c, e)

\* The root message of a thread belongs to it, once any message does.
RootInThread ==
    \A m \in Live :
        LET t == message[m].thread_id
        IN  t # Null /\ thread[t] \in Live => message[thread[t]].thread_id = t

=============================================================================
