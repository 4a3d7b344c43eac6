------------------------ MODULE MessagesServiceProofs ------------------------
(***************************************************************************)
(* The handlers of the messages service implement the mail store, for any  *)
(* number of requests, users, messages and receivers: whatever they        *)
(* interleave and wherever they fail, each of their steps is one operation *)
(* of MailStore or changes no table, so that everything proved about the   *)
(* store holds of the service. And what an answer without error says of a  *)
(* send or a reply is true.                                                *)
(***************************************************************************)
EXTENDS MessagesService, MailStoreProofs, FiniteSetTheorems

-----------------------------------------------------------------------------
(* The inductive invariant. *)

\* The messages that requests have made so far, deleted ones included.
Used ==
    {m \in MsgIds : \E d \in Calls : call[d] # Null /\ \E e \in call[d].copies : e[2] = m}

\* A message that a request works on has been made, though it may be gone: ids
\* are not used again.
WasMade(m) == m # Null => m \in Used

\* MessagePage goes on with a message that is the caller's as long as it exists.
Paging == {"page", "should", "mark"}

Permitted(c) ==
    call[c].step \in Paging /\ call[c].root \in Live
        => <<call[c].user, call[c].root>> \in bond

Owned(c) == WasMade(call[c].root) /\ WasMade(call[c].msg) /\ Permitted(c)

\* At each step the handler has the variables the step needs.
Ready(c) ==
    /\ call[c].op \in {"reply", "page"} => call[c].root # Null
    /\ call[c].step = "given" => call[c].given # Null /\ call[c].root # Null
    /\ call[c].step \in {"lookup", "create"} => call[c].root # Null
    /\ call[c].step = "attach" => call[c].root # Null /\ call[c].thread # Null
    /\ call[c].step = "deliver" => call[c].op # "reply" \/ call[c].thread # Null
    /\ call[c].step \in {"thread", "bind", "refile"} => call[c].msg # Null
    /\ call[c].step = "bind" => call[c].thread # Null
    /\ call[c].step \in {"permit", "page", "should", "mark"} => call[c].root # Null
    /\ call[c].op = "reply" /\ call[c].step \in {"thread", "bind", "refile", "file"}
          => call[c].thread # Null
    /\ call[c].step = "save" => call[c].op = "draft"

\* The entries a request is past come before those it is not, and have the
\* copies, unless it saves a draft that exists.
Resaving(c) == call[c].op = "draft" /\ call[c].root # Null

InOrder(c) ==
    /\ call[c].to \subseteq call[c].receivers
    /\ \A e, g \in call[c].receivers : e[1] = g[1] => e = g
    /\ \A e \in call[c].receivers \ call[c].to, g \in call[c].to : e[1] < g[1]
    /\ call[c].op \in {"send", "reply"} => NoReceiverTwice(call[c].receivers)

Served(c) ==
    /\ \A e \in call[c].copies :
          ~Resaving(c) /\ e[1] \in call[c].receivers /\ e[1] \notin call[c].to
    /\ ~Resaving(c) => \A q \in call[c].receivers :
          q \in call[c].to \/ \E e \in call[c].copies : e[1] = q

\* Copies made by two requests, or for two receivers, are two messages.
CopiesApart ==
    \A c, d \in Calls : call[c] # Null /\ call[d] # Null =>
        \A e \in call[c].copies, g \in call[d].copies :
            /\ c = d /\ e[1] = g[1] => e[2] = g[2]
            /\ e[2] = g[2] => c = d /\ e[1] = g[1]

ServiceInv ==
    /\ StoreInv
    /\ ServiceTypeOK
    /\ Live \subseteq Used
    /\ \A c \in Calls : call[c] # Null => Owned(c) /\ Ready(c) /\ InOrder(c) /\ Served(c)
    /\ CopiesApart

LEMMA ServiceStarts == ServiceInit => ServiceInv
<1>. SUFFICES ASSUME ServiceInit PROVE ServiceInv
  OBVIOUS
<1>1. StoreInv
  BY StoreInit DEF ServiceInit
<1>2. Live = {}
  BY DEF ServiceInit, Init, Live
<1>3. \A c \in Calls : call[c] = Null
  BY DEF ServiceInit
<1>4. ServiceTypeOK
  BY DEF ServiceInit, ServiceTypeOK
<1>. QED
  BY <1>1, <1>2, <1>3, <1>4 DEF ServiceInv, CopiesApart

-----------------------------------------------------------------------------
(* Every step is an operation of the store. *)

LEMMA CallTyped ==
    ASSUME ServiceInv, NEW c \in Calls, call[c] # Null
    PROVE  call[c] \in Call
BY DEF ServiceInv, ServiceTypeOK

LEMMA ResolveStep ==
    ASSUME ServiceInv, NEW c \in Calls, ResolveThreadRoot(c)
    PROVE  [Next]_vars
<1>1. call[c] # Null
  BY DEF ResolveThreadRoot, AttachGiven, Lookup, Create, Attach, At
<1>2. call[c] \in Call /\ Ready(c)
  BY <1>1, CallTyped DEF ServiceInv
<1>3. call[c].given \in ThreadIds \cup {Null} /\ call[c].thread \in ThreadIds \cup {Null}
  BY <1>2 DEF Call
<1>4. ASSUME NEW t \in ThreadIds,
             SaveThreadIdToMessage(call[c].root, t) \/ SaveThread(call[c].root, t)
      PROVE  Next
  <2>1. call[c].root \in MsgIds
    BY <1>4 DEF SaveThreadIdToMessage, SaveThread, Live
  <2>. QED
    BY <2>1, <1>4 DEF ThreadOrFile, Next
<1>5. CASE AttachGiven(c)
  <2>1. call[c].given \in ThreadIds
    BY <1>2, <1>3, <1>5 DEF AttachGiven, At, Ready
  <2>. QED
    BY <2>1, <1>4, <1>5 DEF AttachGiven
<1>6. CASE Lookup(c)
  BY <1>6 DEF Lookup
<1>7. CASE Create(c)
  BY <1>4, <1>7 DEF Create
<1>8. CASE Attach(c)
  <2>1. call[c].thread \in ThreadIds
    BY <1>2, <1>3, <1>8 DEF Attach, At, Ready
  <2>. QED
    BY <2>1, <1>4, <1>8 DEF Attach
<1>. QED
  BY <1>5, <1>6, <1>7, <1>8 DEF ResolveThreadRoot

LEMMA LoopStep ==
    ASSUME ServiceInv, NEW c \in Calls, Loop(c), "draft" \in MovableTypes
    PROVE  [Next]_vars
<1>1. call[c] # Null
  BY DEF Loop, DeliverCopy, SaveDraft, SaveDraftAgain, SaveNothing, StartThread, Bind, Refile,
     StoreFile, NextReceiver, At
<1>2. call[c] \in Call /\ Ready(c)
  BY <1>1, CallTyped DEF ServiceInv
<1>3. call[c].user \in Users /\ call[c].thread \in ThreadIds \cup {Null}
  BY <1>2 DEF Call
<1>5. CASE DeliverCopy(c)
  <2>1. PICK q \in Entry, m \in MsgIds, x \in Texts :
           /\ q[2] \in Users
           /\ \/ SaveMessageWithFolderDistribution(call[c].user, q[2], m, x)
              \/ /\ call[c].op = "reply"
                 /\ ReplyToMessageWithFolderDistribution(call[c].user, q[2], m, x, call[c].thread)
    BY <1>5 DEF DeliverCopy
  <2>2. call[c].op = "reply" => call[c].thread \in ThreadIds
    BY <1>2, <1>3, <1>5 DEF DeliverCopy, At, Ready
  <2>3. PICK p \in Users :
           \/ SaveMessageWithFolderDistribution(call[c].user, p, m, x)
           \/ /\ call[c].op = "reply"
              /\ ReplyToMessageWithFolderDistribution(call[c].user, p, m, x, call[c].thread)
    BY <2>1
  <2>4. Deliver
    BY <1>3, <2>2, <2>3 DEF Deliver
  <2>. QED
    BY <2>4 DEF Next
<1>6. CASE SaveDraft(c)
  <2>1. PICK m \in MsgIds, x \in Texts : SaveNewDraft(call[c].user, m, x)
    BY <1>6 DEF SaveDraft
  <2>2. Drafting
    BY <1>3, <2>1 DEF Drafting
  <2>. QED
    BY <2>2 DEF Next
<1>7. ASSUME NEW t \in ThreadIds,
             \/ SaveThreadIdToMessage(call[c].msg, t) \/ SaveThread(call[c].msg, t)
      PROVE  Next
  <2>1. call[c].msg \in MsgIds
    BY <1>7 DEF SaveThreadIdToMessage, SaveThread, Live
  <2>. QED
    BY <2>1, <1>7 DEF ThreadOrFile, Next
<1>8. CASE StartThread(c)
  BY <1>7, <1>8 DEF StartThread
<1>9. CASE Bind(c)
  <2>1. call[c].thread \in ThreadIds
    BY <1>2, <1>3, <1>9 DEF Bind, At, Ready
  <2>. QED
    BY <2>1, <1>7, <1>9 DEF Bind
<1>10. CASE Refile(c)
  <2>1. PICK d \in OfType(call[c].user, "draft") : MoveToFolder(call[c].user, call[c].msg, d)
    BY <1>10 DEF Refile
  <2>2. call[c].msg \in MsgIds /\ d \in Folders
    BY <2>1 DEF MoveToFolder, Live
  <2>3. folder[d].type \in MovableTypes
    BY DEF OfType
  <2>4. Filing
    BY <1>3, <2>1, <2>2, <2>3 DEF Filing
  <2>. QED
    BY <2>4 DEF Next
<1>11. CASE StoreFile(c)
  <2>1. SaveFile(call[c].msg) /\ call[c].msg \in MsgIds
    BY <1>11 DEF StoreFile, SaveFile, Live
  <2>. QED
    BY <2>1 DEF ThreadOrFile, Next
<1>12. CASE NextReceiver(c) \/ SaveNothing(c)
  BY <1>12 DEF NextReceiver, SaveNothing
<1>13. CASE SaveDraftAgain(c)
  <2>1. call[c].root \in MsgIds
    BY <1>2, <1>13 DEF SaveDraftAgain, Call
  <2>2. PICK x \in Texts : SaveExistingDraft(call[c].user, call[c].root, x)
    BY <1>13 DEF SaveDraftAgain
  <2>3. Drafting
    BY <1>3, <2>1, <2>2 DEF Drafting
  <2>. QED
    BY <2>3 DEF Next
<1>. QED
  BY <1>5, <1>6, <1>8, <1>9, <1>10, <1>11, <1>12, <1>13 DEF Loop

LEMMA PageStep ==
    ASSUME ServiceInv, NEW c \in Calls, MessagePage(c)
    PROVE  [Next]_vars
<1>1. CASE Mark(c) /\ MarkMessageAsRead(call[c].user, call[c].root)
  <2>1. call[c] # Null /\ call[c].step = "mark"
    BY <1>1 DEF Mark, At
  <2>2. call[c] \in Call /\ Permitted(c)
    BY <2>1, CallTyped DEF Owned, ServiceInv
  <2>3. call[c].root \in Known(call[c].user)
    BY <1>1, <2>1, <2>2 DEF MarkMessageAsRead, Permitted, Paging, Known, Live
  <2>4. call[c].user \in Users /\ call[c].root \in MsgIds
    BY <2>2, <2>3 DEF Call, Known
  <2>. QED
    BY <1>1, <2>3, <2>4 DEF Filing, Next
<1>. QED
  BY <1>1 DEF MessagePage, Permit, FindFull, ShouldMarkAsRead, Mark

\* A step of the service is an operation of the store or changes no table.
LEMMA StepIsOperation ==
    ASSUME ServiceInv, [ServiceNext]_allVars, "draft" \in MovableTypes
    PROVE  [Next]_vars
<1>1. CASE UNCHANGED allVars
  BY <1>1 DEF allVars
<1>2. CASE OtherRequest
  BY <1>2 DEF OtherRequest, Drafting, Next
<1>3. ASSUME NEW c \in Calls,
             Receive(c) \/ ResolveThreadRoot(c) \/ Loop(c) \/ MessagePage(c) \/ Fail(c)
      PROVE  [Next]_vars
  <2>1. Receive(c) => UNCHANGED vars
    BY DEF Receive, Accept
  <2>2. Fail(c) => UNCHANGED vars
    BY DEF Fail
  <2>. QED
    BY <1>3, <2>1, <2>2, ResolveStep, LoopStep, PageStep
<1>. QED
  BY <1>1, <1>2, <1>3 DEF ServiceNext

-----------------------------------------------------------------------------
(* The handlers' variables. *)

\* Relations between users and messages last as long as the messages.
LEMMA BondsLast ==
    ASSUME StoreInv, [Next]_vars, NEW e \in bond, e[2] \in Live'
    PROVE  e \in bond'
<1>1. CASE UNCHANGED vars
  BY <1>1 DEF vars
<1>2. CASE Deliver
  BY <1>2 DEF Deliver, SaveMessageWithFolderDistribution,
     ReplyToMessageWithFolderDistribution, Distribute
<1>3. CASE ThreadOrFile
  BY <1>3 DEF ThreadOrFile, SaveFile, SaveThread, SaveThreadIdToMessage
<1>4. CASE Filing
  BY <1>4 DEF Filing, MarkMessageAsRead, MarkMessageAsSpam, MoveToFolder,
     DeleteMessageFromFolder
<1>5. ASSUME NEW p \in Users, NEW m \in MsgIds, DeleteDraft(p, m)
      PROVE  e \in bond'
  <2>1. m \notin Live'
    BY <1>5 DEF DeleteDraft, Live, StoreInv, TypeOK
  <2>. QED
    BY <1>5, <2>1 DEF DeleteDraft, CascadeMessage
<1>6. CASE Drafting
  BY <1>5, <1>6 DEF Drafting, SaveNewDraft, SaveExistingDraft, SendDraft
<1>7. CASE ManageFolder
  BY <1>7 DEF ManageFolder, CreateFolder, RenameFolder, DeleteFolder
<1>. QED
  BY <1>1, <1>2, <1>3, <1>4, <1>6, <1>7 DEF Next

\* The steps that neither begin a request nor serve a receiver.
Quiet(c) ==
    \/ ResolveThreadRoot(c) \/ MessagePage(c) \/ Fail(c)
    \/ StartThread(c) \/ Bind(c) \/ Refile(c) \/ StoreFile(c) \/ NextReceiver(c)

\* They keep what the request and its copies are,
LEMMA QuietKeeps ==
    ASSUME ServiceTypeOK, NEW c \in Calls, Quiet(c)
    PROVE  /\ call[c] # Null /\ call[c] \in Call
           /\ \A d \in Calls \ {c} : call'[d] = call[d]
           /\ call'[c].op = call[c].op /\ call'[c].user = call[c].user
           /\ call'[c].root = call[c].root /\ call'[c].msg = call[c].msg
           /\ call'[c].receivers = call[c].receivers
           /\ call'[c].to = call[c].to /\ call'[c].copies = call[c].copies
<1>1. call[c] # Null
  BY DEF Quiet, ResolveThreadRoot, AttachGiven, Lookup, Create, Attach, StartThread, Bind,
     Refile, StoreFile, NextReceiver, MessagePage, Permit, FindFull, ShouldMarkAsRead, Mark,
     Fail, Busy, At
<1>2. call[c] \in Call /\ call \in [Calls -> Call \cup {Null}]
  BY <1>1 DEF ServiceTypeOK
<1>3. ASSUME NEW s, Goto(c, s)
      PROVE  /\ \A d \in Calls \ {c} : call'[d] = call[d]
             /\ call'[c] = [call[c] EXCEPT !.step = s]
  BY <1>2, <1>3 DEF Goto
<1>4. CASE \E s : Goto(c, s)
  <2>1. PICK s : Goto(c, s)
    BY <1>4
  <2>2. /\ \A d \in Calls \ {c} : call'[d] = call[d]
        /\ call'[c] = [call[c] EXCEPT !.step = s]
    BY <2>1, <1>3
  <2>. QED
    BY SMTT(30), <1>1, <1>2, <2>2 DEF Call
<1>5. ASSUME NEW t, NEW s, call' = [call EXCEPT ![c].thread = t, ![c].step = s]
      PROVE  /\ \A d \in Calls \ {c} : call'[d] = call[d]
             /\ call'[c] = [call[c] EXCEPT !.thread = t, !.step = s]
  BY <1>2, <1>5
<1>6. CASE \E t, s : call' = [call EXCEPT ![c].thread = t, ![c].step = s]
  <2>1. PICK t, s : call' = [call EXCEPT ![c].thread = t, ![c].step = s]
    BY <1>6
  <2>2. /\ \A d \in Calls \ {c} : call'[d] = call[d]
        /\ call'[c] = [call[c] EXCEPT !.thread = t, !.step = s]
    BY <2>1, <1>5
  <2>. QED
    BY <1>1, <1>2, <2>2 DEF Call
<1>7. CASE StoreFile(c)
  <2>1. /\ \A d \in Calls \ {c} : call'[d] = call[d]
        /\ call'[c] = [call[c] EXCEPT !.left = @ - 1]
    BY <1>2, <1>7 DEF StoreFile
  <2>. QED
    BY <1>1, <1>2, <2>1 DEF Call
<1>8. CASE ResolveThreadRoot(c)
  BY <1>4, <1>6, <1>8 DEF ResolveThreadRoot, AttachGiven, Lookup, Create, Attach
<1>9. CASE StartThread(c)
  BY <1>6, <1>9 DEF StartThread
<1>10. CASE MessagePage(c) \/ Fail(c) \/ Bind(c) \/ Refile(c) \/ NextReceiver(c)
  BY <1>4, <1>10 DEF MessagePage, Permit, FindFull, ShouldMarkAsRead, Mark, Fail, Bind,
     Refile, NextReceiver
<1>. QED
  BY <1>7, <1>8, <1>9, <1>10 DEF Quiet

\* leave the types and what the next step needs,
LEMMA GotoTyped ==
    ASSUME ServiceTypeOK, NEW c \in Calls, call[c] # Null,
           NEW s \in Working \cup {"ok", "error"}, Goto(c, s)
    PROVE  /\ call'[c] = [call[c] EXCEPT !.step = s] /\ call'[c] \in Call
           /\ call'[c].step = s
           /\ call'[c].given = call[c].given /\ call'[c].thread = call[c].thread
           /\ ServiceTypeOK'
<1>1. call[c] \in Call /\ call \in [Calls -> Call \cup {Null}]
  BY DEF ServiceTypeOK
<1>2. call'[c] = [call[c] EXCEPT !.step = s]
  BY <1>1 DEF Goto
<1>3. call'[c] \in Call
  BY <1>1, <1>2 DEF Call
<1>4. call' \in [Calls -> Call \cup {Null}]
  BY <1>1, <1>2, <1>3 DEF Goto
<1>. QED
  BY <1>1, <1>2, <1>3, <1>4 DEF Call, ServiceTypeOK

TakeThread(c, t, s) == call' = [call EXCEPT ![c].thread = t, ![c].step = s]

LEMMA ThreadTyped ==
    ASSUME ServiceTypeOK, NEW c \in Calls, call[c] # Null, NEW t \in ThreadIds,
           NEW s \in Working, TakeThread(c, t, s)
    PROVE  /\ call'[c] \in Call
           /\ call'[c].step = s /\ call'[c].thread = t
           /\ call'[c].given = call[c].given
           /\ ServiceTypeOK'
<1>1. call[c] \in Call /\ call \in [Calls -> Call \cup {Null}]
  BY DEF ServiceTypeOK
<1>2. call'[c] = [call[c] EXCEPT !.thread = t, !.step = s]
  BY <1>1 DEF TakeThread
<1>3. call'[c] \in Call
  BY ZenonT(30), <1>1, <1>2 DEF Call
<1>4. call' \in [Calls -> Call \cup {Null}]
  BY <1>1, <1>2, <1>3 DEF TakeThread
<1>. QED
  BY <1>1, <1>2, <1>3, <1>4 DEF Call, ServiceTypeOK

LEMMA QuietReady ==
    ASSUME ServiceInv, NEW c \in Calls, Quiet(c)
    PROVE  ServiceTypeOK' /\ Ready(c)' /\ call'[c] \in Call
<1>. DEFINE Unmoved ==
         /\ call'[c].op = call[c].op
         /\ call'[c].root = call[c].root /\ call'[c].msg = call[c].msg
<1>1. call[c] # Null /\ call[c] \in Call /\ Unmoved
  BY QuietKeeps DEF ServiceInv
<1>2. ServiceTypeOK /\ Ready(c)
  BY <1>1 DEF ServiceInv
<1>3. call[c].thread \in ThreadIds \cup {Null} /\ call[c].given \in ThreadIds \cup {Null}
      /\ call[c].root \in MsgIds \cup {Null} /\ call[c].op \in {"send", "reply", "draft", "page"}
  BY <1>1 DEF Call
<1>4. ASSUME NEW s \in {"ok", "error"}, Goto(c, s)
      PROVE  ServiceTypeOK' /\ Ready(c)' /\ call'[c] \in Call
  <2>1. ServiceTypeOK' /\ call'[c] \in Call /\ call'[c].step = s
    BY <1>1, <1>2, <1>4, GotoTyped DEF Working
  <2>. QED
    BY <1>1, <1>2, <2>1 DEF Ready
<1>5. CASE AttachGiven(c)
  <2>1. call[c].given \in ThreadIds /\ call[c].root # Null
    BY <1>2, <1>3, <1>5 DEF AttachGiven, At, Ready
  <2>2. CASE TakeThread(c, call[c].given, "deliver")
    <3>1. ServiceTypeOK' /\ call'[c] \in Call /\ call'[c].step = "deliver" /\ call'[c].thread # Null
      BY <1>1, <1>2, <2>1, <2>2, ThreadTyped, StoreAssumption DEF Working
    <3>. QED
      BY <1>1, <1>2, <3>1 DEF Ready
  <2>3. CASE Goto(c, "lookup")
    <3>1. ServiceTypeOK' /\ call'[c] \in Call /\ call'[c].step = "lookup"
      BY <1>1, <1>2, <2>3, GotoTyped DEF Working
    <3>. QED
      BY <1>1, <1>2, <2>1, <3>1 DEF Ready
  <2>. QED
    BY <1>5, <2>2, <2>3 DEF AttachGiven, TakeThread
<1>6. CASE Lookup(c)
  <2>1. call[c].root # Null
    BY <1>2, <1>6 DEF Lookup, At, Ready
  <2>2. CASE /\ Threaded(call[c].root)
             /\ TakeThread(c, message[call[c].root].thread_id, "deliver")
    <3>1. message[call[c].root].thread_id \in ThreadIds
      BY <2>2 DEF Threaded, Live, ServiceInv, StoreInv, TypeOK, MessageRow
    <3>2. ServiceTypeOK' /\ call'[c] \in Call /\ call'[c].step = "deliver" /\ call'[c].thread # Null
      BY <1>1, <1>2, <2>2, <3>1, ThreadTyped, StoreAssumption DEF Working
    <3>. QED
      BY <1>1, <1>2, <3>2 DEF Ready
  <2>3. CASE Goto(c, "create")
    <3>1. ServiceTypeOK' /\ call'[c] \in Call /\ call'[c].step = "create"
      BY <1>1, <1>2, <2>3, GotoTyped DEF Working
    <3>. QED
      BY <1>1, <1>2, <2>1, <3>1 DEF Ready
  <2>. QED
    BY <1>6, <2>2, <2>3 DEF Lookup, TakeThread
<1>7. CASE Create(c)
  <2>1. PICK t \in ThreadIds : TakeThread(c, t, "attach")
    BY <1>7 DEF Create, TakeThread
  <2>2. ServiceTypeOK' /\ call'[c] \in Call /\ call'[c].step = "attach" /\ call'[c].thread # Null
    BY <1>1, <1>2, <2>1, ThreadTyped, StoreAssumption DEF Working
  <2>. QED
    BY <1>1, <1>2, <1>7, <2>2 DEF Ready, Create, At
<1>8. CASE Attach(c)
  <2>1. ServiceTypeOK' /\ call'[c] \in Call /\ call'[c].step = "deliver" /\ call'[c].thread = call[c].thread
    BY <1>1, <1>2, <1>8, GotoTyped DEF Working, Attach
  <2>. QED
    BY <1>1, <1>2, <1>8, <2>1 DEF Ready, Attach, At
<1>9. CASE StartThread(c)
  <2>1. PICK t \in ThreadIds : TakeThread(c, t, "bind")
    BY <1>9 DEF StartThread, TakeThread
  <2>2. ServiceTypeOK' /\ call'[c] \in Call /\ call'[c].step = "bind" /\ call'[c].thread # Null
    BY <1>1, <1>2, <2>1, ThreadTyped, StoreAssumption DEF Working
  <2>. QED
    BY <1>1, <1>2, <1>9, <2>2 DEF Ready, StartThread, At
<1>10. CASE Bind(c)
  <2>1. PICK s \in {"refile", "file"} : Goto(c, s)
    BY <1>10 DEF Bind
  <2>2. ServiceTypeOK' /\ call'[c] \in Call /\ call'[c].step = s /\ call'[c].thread = call[c].thread
    BY <1>1, <1>2, <2>1, GotoTyped DEF Working
  <2>. QED
    BY <1>1, <1>2, <1>10, <2>2 DEF Ready, Bind, At
<1>11. CASE Refile(c)
  <2>1. ServiceTypeOK' /\ call'[c] \in Call /\ call'[c].step = "file" /\ call'[c].thread = call[c].thread
    BY <1>1, <1>2, <1>11, GotoTyped DEF Working, Refile
  <2>. QED
    BY <1>1, <1>2, <1>11, <2>1 DEF Ready, Refile, At
<1>12. CASE StoreFile(c)
  <2>1. /\ call'[c] = [call[c] EXCEPT !.left = @ - 1]
        /\ \A d \in Calls \ {c} : call'[d] = call[d]
        /\ call' \in [Calls -> {call'[d] : d \in Calls}]
    BY <1>1, <1>2, <1>12 DEF StoreFile, ServiceTypeOK
  <2>2. call[c].left \in 0 .. MaxFiles /\ call[c].left > 0 /\ MaxFiles \in Nat
    BY <1>1, <1>12, StoreAssumption DEF StoreFile, Call
  <2>3. call[c].left - 1 \in 0 .. MaxFiles
    BY <2>2
  <2>4. call'[c] \in Call
    BY <1>1, <2>1, <2>3 DEF Call
  <2>5. ServiceTypeOK'
    BY <1>2, <2>1, <2>4 DEF ServiceTypeOK
  <2>6. call'[c].step = call[c].step /\ call'[c].thread = call[c].thread
        /\ call'[c].given = call[c].given
    BY <1>1, <2>1 DEF Call
  <2>. QED
    BY <1>1, <1>2, <2>4, <2>5, <2>6 DEF Ready
<1>13. CASE NextReceiver(c)
  <2>1. PICK s \in {"ok", "save", "deliver"} :
           /\ Goto(c, s) /\ (s = "save" => call[c].op = "draft")
           /\ call[c].step = "file"
    BY <1>13 DEF NextReceiver, At
  <2>2. ServiceTypeOK' /\ call'[c] \in Call /\ call'[c].step = s /\ call'[c].thread = call[c].thread
    BY <1>1, <1>2, <2>1, GotoTyped DEF Working
  <2>. QED
    BY <1>1, <1>2, <2>1, <2>2 DEF Ready
<1>14. CASE MessagePage(c)
  <2>1. PICK s \in {"page", "should", "mark", "ok", "error"} :
           Goto(c, s) /\ call[c].step \in {"permit", "page", "should", "mark"}
    BY <1>14 DEF MessagePage, Permit, FindFull, ShouldMarkAsRead, Mark, At
  <2>2. ServiceTypeOK' /\ call'[c] \in Call /\ call'[c].step = s
    BY <1>1, <1>2, <2>1, GotoTyped DEF Working
  <2>. QED
    BY <1>1, <1>2, <2>1, <2>2 DEF Ready
<1>15. CASE Fail(c)
  BY <1>4, <1>15 DEF Fail
<1>. QED
  BY <1>5, <1>6, <1>7, <1>8, <1>9, <1>10, <1>11, <1>12, <1>13, <1>14, <1>15
  DEF Quiet, ResolveThreadRoot

\* let only the caller's messages pass,
LEMMA QuietPermits ==
    ASSUME ServiceInv, NEW c \in Calls, Quiet(c), call'[c].step \in Paging
    PROVE  call[c].step \in Paging \/ <<call[c].user, call[c].root>> \in bond
<1>1. call[c] # Null /\ call[c] \in Call /\ ServiceTypeOK
  BY QuietKeeps DEF ServiceInv
<1>2. ASSUME NEW s \in Working \cup {"ok", "error"}, Goto(c, s)
      PROVE  call'[c].step = s
  BY <1>1, <1>2, GotoTyped
<1>3. ASSUME NEW s \in Working, NEW t, TakeThread(c, t, s)
      PROVE  call'[c].step = s
  <2>1. call'[c] = [call[c] EXCEPT !.thread = t, !.step = s]
    BY <1>1, <1>3 DEF TakeThread, ServiceTypeOK
  <2>. QED
    BY <1>1, <2>1 DEF Call
<1>4. CASE Permit(c)
  <2>1. call[c].root \in Known(call[c].user) \/ Goto(c, "error")
    BY <1>4 DEF Permit
  <2>. QED
    BY <1>2, <2>1 DEF Paging, Known
<1>5. CASE FindFull(c) \/ ShouldMarkAsRead(c) \/ Mark(c)
  BY <1>5 DEF FindFull, ShouldMarkAsRead, Mark, At, Paging
<1>6. CASE ResolveThreadRoot(c)
  <2>1. \/ \E s \in {"lookup", "create", "attach", "deliver"} : Goto(c, s)
        \/ \E s \in {"lookup", "create", "attach", "deliver"} : \E t : TakeThread(c, t, s)
    BY <1>6 DEF ResolveThreadRoot, AttachGiven, Lookup, Create, Attach, TakeThread
  <2>. QED
    BY <1>2, <1>3, <2>1 DEF Paging, Working
<1>7. CASE StartThread(c)
  <2>1. \E t : TakeThread(c, t, "bind")
    BY <1>7 DEF StartThread, TakeThread
  <2>. QED
    BY <1>3, <2>1 DEF Paging, Working
<1>8. CASE Fail(c) \/ Bind(c) \/ Refile(c) \/ NextReceiver(c)
  <2>1. \E s \in {"error", "refile", "file", "ok", "save", "deliver"} : Goto(c, s)
    BY <1>8 DEF Fail, Bind, Refile, NextReceiver
  <2>. QED
    BY <1>2, <2>1 DEF Paging, Working
<1>9. CASE StoreFile(c)
  <2>1. call'[c] = [call[c] EXCEPT !.left = @ - 1]
    BY <1>1, <1>9 DEF StoreFile, ServiceTypeOK
  <2>. QED
    BY <1>1, <2>1 DEF Call
<1>. QED
  BY <1>4, <1>5, <1>6, <1>7, <1>8, <1>9 DEF Quiet, MessagePage

\* and make no message.
LEMMA QuietMakesNone ==
    ASSUME ServiceInv, NEW c \in Calls,
           Quiet(c) \/ OtherRequest \/ Receive(c) \/ SaveDraftAgain(c) \/ SaveNothing(c)
    PROVE  Live' \subseteq Live
<1>. USE DEF Live
<1>1. message \in [MsgIds -> MessageRow \cup {NoRow}]
  BY DEF ServiceInv, StoreInv, TypeOK
<1>2. ASSUME NEW m, NEW t, SaveThreadIdToMessage(m, t)
      PROVE  Live' \subseteq Live
  BY <1>1, <1>2 DEF SaveThreadIdToMessage
<1>3. ASSUME UNCHANGED message
      PROVE  Live' \subseteq Live
  BY <1>3
<1>4. ASSUME NEW p, NEW m, DeleteDraft(p, m)
      PROVE  Live' \subseteq Live
  BY <1>1, <1>4 DEF DeleteDraft
<1>5. CASE ResolveThreadRoot(c)
  BY <1>2, <1>3, <1>5 DEF ResolveThreadRoot, AttachGiven, Lookup, Create, Attach, SaveThread, vars
<1>6. CASE Bind(c)
  BY <1>2, <1>3, <1>6 DEF Bind, vars
<1>7. CASE OtherRequest
  BY <1>3, <1>4, <1>7 DEF OtherRequest, SendDraft
<1>8. CASE Receive(c)
  BY <1>3, <1>8 DEF Receive, Accept, vars
<1>10. CASE Fail(c) \/ NextReceiver(c) \/ SaveNothing(c)
  BY <1>3, <1>10 DEF Fail, NextReceiver, SaveNothing, vars
<1>11. CASE StartThread(c) \/ Refile(c) \/ StoreFile(c)
  BY <1>3, <1>11 DEF StartThread, Refile, StoreFile, SaveThread, MoveToFolder, SaveFile
<1>9. CASE MessagePage(c)
  BY <1>3, <1>9 DEF MessagePage, Permit, FindFull, ShouldMarkAsRead, Mark,
     MarkMessageAsRead, vars
<1>12. CASE SaveDraftAgain(c)
  <2>1. call[c].root \in Live
    BY <1>12 DEF SaveDraftAgain, SaveExistingDraft, IsDraftBelongsToUser, In, ServiceInv,
       StoreInv, NoDanglingReference
  <2>2. PICK x : message' = [message EXCEPT ![call[c].root].text = x]
    BY <1>12 DEF SaveDraftAgain, SaveExistingDraft
  <2>. QED
    BY <1>1, <2>1, <2>2
<1>. QED
  BY <1>5, <1>6, <1>7, <1>8, <1>9, <1>10, <1>11, <1>12 DEF Quiet

-----------------------------------------------------------------------------
(* Beginning a request. *)

\* A list is a set of entries, one for each place.
LEMMA EntriesList ==
    ASSUME NEW op, NEW list \in Lists(IF op = "draft" THEN DraftAddresses ELSE Addresses)
    PROVE  /\ Entries(list) \in SUBSET Entry
           /\ \A e, g \in Entries(list) : e[1] = g[1] => e = g
<1>1. PICK k \in 0 .. MaxReceivers :
         list \in [1 .. k -> IF op = "draft" THEN DraftAddresses ELSE Addresses]
  BY DEF Lists
<1>2. 1 .. k \subseteq 1 .. MaxReceivers
  BY ServiceAssumption
<1>3. ASSUME NEW i \in DOMAIN list
      PROVE  <<i, list[i]>> \in Entry
  BY <1>1, <1>2, <1>3 DEF Entry
<1>. QED
  BY <1>3 DEF Entries

LEMMA Begins ==
    ASSUME ServiceInv, NEW c \in Calls, Receive(c)
    PROVE  /\ call[c] = Null
           /\ \A d \in Calls \ {c} : call'[d] = call[d]
           /\ ServiceTypeOK' /\ Ready(c)' /\ InOrder(c)' /\ call'[c] \in Call
           /\ call'[c].to = call'[c].receivers
           /\ call'[c].copies = {} /\ call'[c].msg = Null
           /\ call'[c].root # Null => call'[c].root \in Live
           /\ call'[c].step \notin Paging
<1>1. PICK op \in Ops, p \in Users, n \in 0 .. MaxFiles :
         \E list \in Lists(IF op = "draft" THEN DraftAddresses ELSE Addresses) :
           \E r \in {Null} \cup Live, t \in {Null} \cup {message[m].thread_id : m \in Live} :
              Accept(c, op, p, Entries(list), n, r, t)
  BY DEF Receive
<1>2. PICK list \in Lists(IF op = "draft" THEN DraftAddresses ELSE Addresses) :
         \E r \in {Null} \cup Live, t \in {Null} \cup {message[m].thread_id : m \in Live} :
              Accept(c, op, p, Entries(list), n, r, t)
  BY <1>1
<1>3. PICK r \in {Null} \cup Live, t \in {Null} \cup {message[m].thread_id : m \in Live} :
              Accept(c, op, p, Entries(list), n, r, t)
  BY <1>2
<1>. DEFINE to == Entries(list)
<1>4. /\ to \in SUBSET Entry
      /\ \A e, g \in to : e[1] = g[1] => e = g
  BY EntriesList
<1>. HIDE DEF to
<1>13. /\ call[c] = Null
       /\ op \in {"send", "reply"} => NoReceiverTwice(to)
       /\ op \in {"reply", "page"} => r # Null
       /\ call' = [call EXCEPT ![c] = NewCall(op, p, to, n, r, t)]
  BY <1>3 DEF Accept, to
<1>5. op \in {"send", "reply", "draft", "page"}
  BY ServiceAssumption
<1>6. r \in MsgIds \cup {Null}
  BY DEF Live
<1>7. t \in ThreadIds \cup {Null}
  <2>1. ASSUME NEW m \in Live
        PROVE  message[m].thread_id \in ThreadIds \cup {Null}
    <3>1. message[m] \in MessageRow
      BY DEF Live, ServiceInv, StoreInv, TypeOK
    <3>. QED
      BY <3>1 DEF MessageRow
  <2>. QED
    BY <2>1
<1>8. FirstStep(op, t) \in Working /\ FirstStep(op, t) \notin Paging
  BY <1>5 DEF FirstStep, Working, Paging
<1>9. 0 \in 0 .. MaxFiles
  BY StoreAssumption
<1>10. call \in [Calls -> Call \cup {Null}]
  BY DEF ServiceInv, ServiceTypeOK
<1>. DEFINE new == NewCall(op, p, to, n, r, t)
<1>11. new \in Call
  BY <1>4, <1>5, <1>6, <1>7, <1>8, <1>9 DEF Call, NewCall
<1>12. call'[c] = new /\ \A d \in Calls \ {c} : call'[d] = call[d]
  BY <1>13, <1>10
<1>14. ServiceTypeOK'
  BY <1>13, <1>10, <1>11 DEF ServiceTypeOK
<1>15. Ready(c)'
  <2>1. /\ call'[c].op = op /\ call'[c].root = r /\ call'[c].given = t
        /\ call'[c].step = FirstStep(op, t)
    BY <1>12 DEF NewCall
  <2>2. CASE op \in {"send", "draft"}
    <3>1. FirstStep(op, t) \in {"deliver", "save"}
      BY <2>2 DEF FirstStep
    <3>2. FirstStep(op, t) = "save" => op = "draft"
      BY <2>2 DEF FirstStep
    <3>. QED
      BY <2>1, <2>2, <3>1, <3>2 DEF Ready
  <2>3. CASE op = "page"
    <3>1. FirstStep(op, t) = "permit" /\ r # Null
      BY <1>13, <2>3 DEF FirstStep
    <3>. QED
      BY <2>1, <2>3, <3>1 DEF Ready
  <2>4. CASE op = "reply"
    <3>1. r # Null /\ FirstStep(op, t) \in {"lookup", "given"}
          /\ (FirstStep(op, t) = "given" => t # Null)
      BY <1>13, <2>4 DEF FirstStep
    <3>. QED
      BY <2>1, <2>4, <3>1 DEF Ready
  <2>. QED
    BY <1>5, <2>2, <2>3, <2>4
<1>16. /\ call'[c].op = op /\ call'[c].receivers = to /\ call'[c].to = to
       /\ call'[c].copies = {} /\ call'[c].msg = Null /\ call'[c].root = r
       /\ call'[c].step = FirstStep(op, t)
  BY <1>12 DEF NewCall
<1>17. InOrder(c)'
  BY <1>4, <1>13, <1>16 DEF InOrder
<1>. QED
  BY <1>8, <1>11, <1>12, <1>13, <1>14, <1>15, <1>16, <1>17

-----------------------------------------------------------------------------
(* Making a message. *)

LEMMA InsertsOne ==
    ASSUME StoreInv, NEW p \in Users, NEW m \in MsgIds, NEW x, NEW t, InsertMessage(m, p, x, t)
    PROVE  Live' \subseteq Live \cup {m}
BY DEF InsertMessage, Live, StoreInv, TypeOK

\* The loop's receiver is served and struck off.
Takes(c, q, m, s) ==
    /\ Turn(c, q)
    /\ Fresh(m)
    /\ Live' \subseteq Live \cup {m}
    /\ Serve(c, q, m, s)
    /\ call[c].step = "deliver" \/ call[c].op = "draft"
    /\ ~Resaving(c)
    /\ s = "bind" => call[c].op = "draft" /\ call[c].given # Null
    /\ s \in {"thread", "bind", "file"}

LEMMA Makes ==
    ASSUME ServiceInv, NEW c \in Calls, DeliverCopy(c) \/ SaveDraft(c)
    PROVE  call[c] # Null /\ \E q \in Entry, m \in MsgIds, s \in Working : Takes(c, q, m, s)
<1>1. call[c] # Null
  BY DEF DeliverCopy, SaveDraft, At
<1>2. call[c].user \in Users
  BY <1>1, CallTyped DEF Call
<1>3. CASE DeliverCopy(c)
  <2>1. PICK q \in Entry, m \in MsgIds, x \in Texts :
           /\ Turn(c, q) /\ Fresh(m) /\ call[c].op \in {"send", "reply"}
           /\ \/ SaveMessageWithFolderDistribution(call[c].user, q[2], m, x)
              \/ ReplyToMessageWithFolderDistribution(call[c].user, q[2], m, x, call[c].thread)
           /\ Serve(c, q, m, AfterDelivery(c))
    BY <1>3 DEF DeliverCopy
  <2>2. PICK t : InsertMessage(m, call[c].user, x, t)
    BY <2>1 DEF SaveMessageWithFolderDistribution, ReplyToMessageWithFolderDistribution
  <2>4. Live' \subseteq Live \cup {m}
    BY <1>2, <2>2, InsertsOne DEF ServiceInv
  <2>6. AfterDelivery(c) \in {"thread", "file"} /\ call[c].step = "deliver"
    BY <1>3 DEF AfterDelivery, DeliverCopy, At
  <2>7. Turn(c, q) /\ Fresh(m) /\ ~Resaving(c)
    BY <2>1 DEF Resaving
  <2>8. Serve(c, q, m, AfterDelivery(c))
    BY <2>1
  <2>9. Takes(c, q, m, AfterDelivery(c))
    BY <2>4, <2>6, <2>7, <2>8 DEF Takes
  <2>10. AfterDelivery(c) \in Working
    BY <2>6 DEF Working
  <2>. QED
    BY <1>1, <2>9, <2>10
<1>4. CASE SaveDraft(c)
  <2>1. PICK q \in Entry, m \in MsgIds, x \in Texts :
           /\ Turn(c, q) /\ Fresh(m)
           /\ SaveNewDraft(call[c].user, m, x)
           /\ Serve(c, q, m, IF call[c].given = Null THEN "thread" ELSE "bind")
    BY <1>4 DEF SaveDraft
  <2>2. InsertMessage(m, call[c].user, x, Null)
    BY <2>1 DEF SaveNewDraft
  <2>3. Live' \subseteq Live \cup {m}
    BY <1>2, <2>2, InsertsOne DEF ServiceInv
  <2>4. call[c].step = "save" /\ call[c].op = "draft" /\ ~Resaving(c)
    BY <1>1, <1>4 DEF SaveDraft, At, ServiceInv, Ready, Resaving
  <2>5. CASE call[c].given = Null
    <3>0. Turn(c, q) /\ Fresh(m) /\ Serve(c, q, m, "thread")
      BY <2>1, <2>5
    <3>1. Takes(c, q, m, "thread")
      BY <3>0, <2>3, <2>4 DEF Takes
    <3>. QED
      BY <1>1, <3>1 DEF Working
  <2>6. CASE call[c].given # Null
    <3>0. Turn(c, q) /\ Fresh(m) /\ Serve(c, q, m, "bind")
      BY <2>1, <2>6
    <3>1. Takes(c, q, m, "bind")
      BY <3>0, <2>3, <2>4, <2>6 DEF Takes
    <3>. QED
      BY <1>1, <3>1 DEF Working
  <2>. QED
    BY <2>5, <2>6
<1>. QED
  BY <1>3, <1>4

LEMMA Serves ==
    ASSUME ServiceInv, NEW c \in Calls, call[c] # Null,
           NEW q \in Entry, NEW m \in MsgIds, NEW s \in Working, Takes(c, q, m, s)
    PROVE  /\ \A d \in Calls \ {c} : call'[d] = call[d]
           /\ call'[c].op = call[c].op
           /\ call'[c].user = call[c].user /\ call'[c].root = call[c].root
           /\ call'[c].msg = m /\ call'[c].step \notin Paging
           /\ call'[c].receivers = call[c].receivers
           /\ call'[c].to = call[c].to \ {q}
           /\ call'[c].copies = call[c].copies \cup {<<q, m>>}
           /\ ServiceTypeOK' /\ Ready(c)' /\ call'[c] \in Call
<1>1. call[c] \in Call /\ call \in [Calls -> Call \cup {Null}] /\ Ready(c)
  BY DEF ServiceInv, ServiceTypeOK
<1>. DEFINE t == IF call[c].op = "draft" THEN call[c].given ELSE call[c].thread
            new == [call[c] EXCEPT !.to = call[c].to \ {q}, !.thread = t,
                                   !.copies = call[c].copies \cup {<<q, m>>}, !.msg = m,
                                   !.left = call[c].files, !.step = s]
<1>2. call'[c] = new /\ \A d \in Calls \ {c} : call'[d] = call[d]
  BY <1>1 DEF Takes, Serve
<1>3. t \in ThreadIds \cup {Null} /\ call[c].files \in 0 .. MaxFiles
      /\ call[c].to \ {q} \in SUBSET Entry
      /\ call[c].copies \cup {<<q, m>>} \in SUBSET (Entry \X MsgIds)
  BY <1>1 DEF Call
<1>4. new \in Call
  <2>. HIDE DEF t
  <2>. QED
    BY ZenonT(30), <1>1, <1>3 DEF Call
<1>5. ServiceTypeOK'
  <2>1. call' \in [Calls -> Call \cup {Null}]
    <3>. HIDE DEF new
    <3>. QED
      BY <1>1, <1>2, <1>4 DEF Takes, Serve
  <2>. QED
    BY <2>1 DEF ServiceTypeOK
<1>6. /\ call'[c].op = call[c].op /\ call'[c].user = call[c].user
      /\ call'[c].root = call[c].root /\ call'[c].given = call[c].given
      /\ call'[c].receivers = call[c].receivers
      /\ call'[c].msg = m /\ call'[c].to = call[c].to \ {q}
      /\ call'[c].copies = call[c].copies \cup {<<q, m>>}
      /\ call'[c].step = s /\ call'[c].thread = t
  BY <1>1, <1>2 DEF Call
<1>7. m # Null
  BY StoreAssumption
<1>8. call[c].op = "reply" => call[c].thread # Null
  BY <1>1 DEF Takes, Ready
<1>9. s \in {"thread", "bind", "file"} /\ (s = "bind" => t # Null)
  BY DEF Takes
<1>10. Ready(c)'
  BY <1>1, <1>6, <1>7, <1>8, <1>9 DEF Ready
<1>. QED
  BY <1>2, <1>4, <1>5, <1>6, <1>9, <1>10 DEF Paging

\* Striking off the entry whose turn it is keeps the order,
LEMMA OrderKept ==
    ASSUME NEW c \in Calls, NEW q \in Entry, call[c] \in Call, InOrder(c), Turn(c, q),
           call'[c].op = call[c].op, call'[c].receivers = call[c].receivers,
           call'[c].to = call[c].to \ {q}
    PROVE  InOrder(c)'
<1>1. call[c].receivers \in SUBSET Entry /\ call[c].to \in SUBSET Entry
  BY DEF Call
<1>2. \A e \in Entry : e[1] \in Nat
  BY ServiceAssumption DEF Entry
<1>3. ASSUME NEW g \in call[c].to \ {q} PROVE q[1] < g[1]
  <2>1. q[1] <= g[1] /\ q[1] # g[1]
    BY <1>3 DEF Turn, InOrder
  <2>. QED
    BY <1>1, <1>2, <2>1
<1>4. \A e \in call[c].receivers \ (call[c].to \ {q}), g \in call[c].to \ {q} : e[1] < g[1]
  BY <1>3 DEF InOrder
<1>. QED
  BY <1>4 DEF InOrder

\* also when the draft that exists is saved, or is not there.
LEMMA Resaves ==
    ASSUME ServiceInv, NEW c \in Calls, SaveDraftAgain(c) \/ SaveNothing(c)
    PROVE  /\ call[c] # Null /\ Resaving(c)
           /\ \A d \in Calls \ {c} : call'[d] = call[d]
           /\ call'[c].op = call[c].op
           /\ call'[c].user = call[c].user /\ call'[c].root = call[c].root
           /\ call'[c].msg \in {call[c].root, Null} /\ call'[c].step \notin Paging
           /\ SaveDraftAgain(c) \/ call'[c].msg = Null
           /\ call'[c].receivers = call[c].receivers
           /\ call'[c].copies = call[c].copies
           /\ ServiceTypeOK' /\ Ready(c)' /\ InOrder(c)' /\ call'[c] \in Call
<1>1. call[c] # Null /\ call[c].step = "save" /\ call[c].root # Null
  BY DEF SaveDraftAgain, SaveNothing, At
<1>2. call[c] \in Call /\ call \in [Calls -> Call \cup {Null}] /\ Ready(c) /\ InOrder(c)
  BY <1>1 DEF ServiceInv, ServiceTypeOK
<1>3. call[c].op = "draft"
  BY <1>1, <1>2 DEF Ready
<1>4. PICK q \in Entry, m \in {call[c].root, Null} :
         Turn(c, q) /\ Again(c, q, m) /\ (SaveDraftAgain(c) \/ m = Null)
  BY DEF SaveDraftAgain, SaveNothing
<1>. DEFINE new == [call[c] EXCEPT !.to = call[c].to \ {q}, !.msg = m,
                                   !.left = call[c].files, !.step = "file"]
<1>5. call'[c] = new /\ \A d \in Calls \ {c} : call'[d] = call[d]
  BY <1>2, <1>4 DEF Again
<1>6. m \in MsgIds \cup {Null}
  BY <1>2, <1>4 DEF Call
<1>7. new \in Call
  BY <1>2, <1>6 DEF Call, Working
<1>8. call' \in [Calls -> Call \cup {Null}]
  <2>. HIDE DEF new
  <2>. QED
    BY <1>2, <1>4, <1>5, <1>7 DEF Again
<1>9. /\ call'[c].op = "draft" /\ call'[c].user = call[c].user
      /\ call'[c].root = call[c].root /\ call'[c].msg = m
      /\ call'[c].receivers = call[c].receivers
      /\ call'[c].to = call[c].to \ {q} /\ call'[c].copies = call[c].copies
      /\ call'[c].step = "file"
  BY <1>2, <1>3, <1>5 DEF Call
<1>10. Ready(c)'
  BY <1>1, <1>9 DEF Ready
<1>11. InOrder(c)'
  BY <1>2, <1>3, <1>4, <1>9, OrderKept
<1>. QED
  BY <1>1, <1>3, <1>4, <1>5, <1>7, <1>8, <1>9, <1>10, <1>11 DEF ServiceTypeOK, Resaving, Paging

-----------------------------------------------------------------------------
(* The step. *)

\* The copies a request has made stay on its list,
Grows ==
    \A d \in Calls : call[d] # Null =>
        call'[d] # Null /\ call[d].copies \subseteq call'[d].copies

\* and no id is used twice.
NotReused == \A m \in Used : m \in Live' => m \in Live

LEMMA UsedGrows ==
    ASSUME Grows
    PROVE  Used \subseteq Used'
BY DEF Grows, Used

\* A request that keeps its messages keeps them made, and permitted ones its
\* caller's.
LEMMA StillOwned ==
    ASSUME ServiceInv, [Next]_vars, Grows, NotReused, NEW d \in Calls, call[d] # Null,
           call'[d].user = call[d].user, call'[d].root = call[d].root,
           call'[d].msg \in {call[d].msg, call[d].root, Null},
           call'[d].step \in Paging =>
              call[d].step \in Paging \/ <<call[d].user, call[d].root>> \in bond
    PROVE  Owned(d)'
<1>1. Used \subseteq Used'
  BY UsedGrows
<1>2. WasMade(call[d].root) /\ WasMade(call[d].msg) /\ Permitted(d)
  BY DEF ServiceInv, Owned
<1>3. WasMade(call[d].root)' /\ WasMade(call[d].msg)'
  <2>1. \A m : WasMade(m) => m = Null \/ m \in Used'
    BY <1>1 DEF WasMade
  <2>2. \/ call'[d].root = Null \/ call'[d].root \in Used'
    BY <1>2, <2>1
  <2>3. \/ call'[d].msg = Null \/ call'[d].msg \in Used'
    BY <1>2, <2>1
  <2>. QED
    BY <2>2, <2>3 DEF WasMade
<1>4. ASSUME call'[d].step \in Paging, call[d].root \in Live'
      PROVE  <<call[d].user, call[d].root>> \in bond'
  <2>1. call[d].root \in Live
    BY <1>2, <1>4, StoreAssumption DEF WasMade, NotReused, Live
  <2>2. <<call[d].user, call[d].root>> \in bond
    BY <1>2, <1>4, <2>1 DEF Permitted
  <2>. QED
    BY <1>4, <2>2, BondsLast DEF ServiceInv
<1>5. Permitted(d)'
  BY <1>4 DEF Permitted
<1>. QED
  BY <1>3, <1>5 DEF Owned

\* Those that keep their entries and copies keep the two related.
Steady(d) ==
    /\ call'[d].op = call[d].op
    /\ call'[d].user = call[d].user /\ call'[d].root = call[d].root
    /\ call'[d].msg \in {call[d].msg, call[d].root, Null}
    /\ call'[d].receivers = call[d].receivers /\ call'[d].copies = call[d].copies
    /\ Resaving(d) \/ call'[d].to = call[d].to
    /\ call'[d].step \in Paging =>
          call[d].step \in Paging \/ <<call[d].user, call[d].root>> \in bond

\* The steps that make no message keep the invariant,
LEMMA KeptWithoutMaking ==
    ASSUME ServiceInv, [Next]_vars, Live' \subseteq Live, ServiceTypeOK',
           \A d \in Calls :
              \/ call'[d] = call[d]
              \/ call[d] # Null /\ call'[d] # Null /\ Ready(d)' /\ InOrder(d)' /\ Steady(d)
              \/ /\ call[d] = Null /\ call'[d] # Null /\ Ready(d)' /\ InOrder(d)'
                 /\ call'[d].to = call'[d].receivers
                 /\ call'[d].copies = {} /\ call'[d].msg = Null
                 /\ call'[d].root # Null => call'[d].root \in Live
                 /\ call'[d].step \notin Paging
    PROVE  ServiceInv'
<1>1. Grows /\ NotReused
  BY DEF Grows, NotReused, Steady
<1>2. Used \subseteq Used'
  BY <1>1, UsedGrows
<1>3. StoreInv'
  BY StoreStep DEF ServiceInv
<1>4. Live' \subseteq Used'
  BY <1>2 DEF ServiceInv
<1>5. ASSUME NEW d \in Calls, call'[d] # Null
      PROVE  Owned(d)' /\ Ready(d)' /\ InOrder(d)' /\ Served(d)'
  <2>1. CASE call'[d] = call[d]
    <3>1. Owned(d)'
      BY <1>1, <1>5, <2>1, StillOwned
    <3>2. Ready(d) /\ InOrder(d) /\ Served(d)
      BY <1>5, <2>1 DEF ServiceInv
    <3>3. Ready(d)' /\ InOrder(d)' /\ Served(d)'
      BY <2>1, <3>2 DEF Ready, InOrder, Served, Resaving
    <3>. QED
      BY <3>1, <3>3
  <2>2. CASE call[d] # Null /\ Ready(d)' /\ InOrder(d)' /\ Steady(d)
    <3>1. Owned(d)'
      BY <1>1, <2>2, StillOwned DEF Steady
    <3>2. Served(d)
      BY <2>2 DEF ServiceInv
    <3>3. Served(d)'
      BY <2>2, <3>2 DEF Served, Steady, Resaving
    <3>. QED
      BY <2>2, <3>1, <3>3
  <2>3. CASE /\ Ready(d)' /\ InOrder(d)' /\ call'[d].to = call'[d].receivers
             /\ call'[d].copies = {} /\ call'[d].msg = Null
             /\ call'[d].root # Null => call'[d].root \in Live
             /\ call'[d].step \notin Paging
    <3>1. call'[d].root # Null => call'[d].root \in Used'
      BY <1>2, <2>3 DEF ServiceInv
    <3>2. Owned(d)'
      BY <2>3, <3>1 DEF Owned, WasMade, Permitted
    <3>. QED
      BY <2>3, <3>2 DEF Served
  <2>. QED
    BY <1>5, <2>1, <2>2, <2>3
<1>6. CopiesApart'
  <2>1. \A d \in Calls : call'[d] # Null =>
           call'[d].copies = {} \/ (call[d] # Null /\ call'[d].copies = call[d].copies)
    BY DEF Steady
  <2>2. CopiesApart
    BY DEF ServiceInv
  <2>. QED
    BY <2>1, <2>2 DEF CopiesApart
<1>. QED
  BY <1>3, <1>4, <1>5, <1>6 DEF ServiceInv

\* and so do those that make one: its id is fresh and its entry is new.
LEMMA KeptByMaking ==
    ASSUME ServiceInv, [Next]_vars, NEW c \in Calls, call[c] # Null,
           NEW q \in Entry, NEW m \in MsgIds, NEW s \in Working, Takes(c, q, m, s)
    PROVE  ServiceInv'
<1>1. /\ \A d \in Calls \ {c} : call'[d] = call[d]
      /\ call'[c].op = call[c].op
      /\ call'[c].user = call[c].user /\ call'[c].root = call[c].root
      /\ call'[c].msg = m /\ call'[c].step \notin Paging
      /\ call'[c].receivers = call[c].receivers
      /\ call'[c].to = call[c].to \ {q}
      /\ call'[c].copies = call[c].copies \cup {<<q, m>>}
      /\ ServiceTypeOK' /\ Ready(c)' /\ call'[c] # Null
  BY Serves, ServiceAssumption
<1>2. Turn(c, q) /\ Fresh(m) /\ Live' \subseteq Live \cup {m} /\ ~Resaving(c)
  BY DEF Takes
<1>3. Grows
  BY <1>1 DEF Grows
<1>4. m \notin Used
  BY <1>2 DEF Fresh, Used
<1>5. NotReused
  BY <1>2, <1>4 DEF NotReused
<1>6. Used \subseteq Used' /\ m \in Used'
  <2>1. m \in Used'
    <3>1. <<q, m>> \in call'[c].copies /\ <<q, m>>[2] = m
      BY <1>1
    <3>2. \E e \in call'[c].copies : e[2] = m
      BY <3>1
    <3>. QED
      BY <1>1, <3>2 DEF Used
  <2>. QED
    BY <1>3, <2>1, UsedGrows
<1>7. StoreInv'
  BY StoreStep DEF ServiceInv
<1>8. Live' \subseteq Used'
  BY <1>2, <1>6 DEF ServiceInv
<1>9. Owned(c) /\ InOrder(c) /\ Served(c) /\ call[c] \in Call
  BY CallTyped DEF ServiceInv
<1>10. Owned(c)'
  <2>1. WasMade(call[c].root)
    BY <1>9 DEF Owned
  <2>. QED
    BY <1>1, <1>6, <2>1 DEF Owned, WasMade, Permitted
<1>11. InOrder(c)' /\ Served(c)'
  <2>1. InOrder(c)'
    BY <1>1, <1>2, <1>9, OrderKept
  <2>2. <<q, m>>[1] = q /\ q \in call[c].receivers
    BY <1>2, <1>9 DEF Turn, InOrder
  <2>3. \A e \in call'[c].copies : e[1] \in call'[c].receivers /\ e[1] \notin call'[c].to
    BY <1>1, <1>9, <2>2 DEF Served
  <2>4. \A r \in call'[c].receivers : r \in call'[c].to \/ \E e \in call'[c].copies : e[1] = r
    BY <1>1, <1>2, <1>9, <2>2 DEF Served
  <2>5. ~Resaving(c)'
    BY <1>1, <1>2 DEF Resaving
  <2>. QED
    BY <2>1, <2>3, <2>4, <2>5 DEF Served
<1>12. ASSUME NEW d \in Calls, call'[d] # Null
       PROVE  Owned(d)' /\ Ready(d)' /\ InOrder(d)' /\ Served(d)'
  <2>1. CASE d = c
    BY <1>1, <1>10, <1>11, <2>1
  <2>2. CASE d # c
    <3>1. call'[d] = call[d]
      BY <1>1, <2>2
    <3>2. Owned(d)'
      BY <1>3, <1>5, <1>12, <3>1, StillOwned
    <3>3. Ready(d) /\ InOrder(d) /\ Served(d)
      BY <1>12, <3>1 DEF ServiceInv
    <3>4. Ready(d)' /\ InOrder(d)' /\ Served(d)'
      BY <3>1, <3>3 DEF Ready, InOrder, Served, Resaving
    <3>. QED
      BY <3>2, <3>4
  <2>. QED
    BY <2>1, <2>2
<1>13. CopiesApart'
  <2>1. CopiesApart
    BY DEF ServiceInv
  <2>2. \A e \in call[c].copies : e[1] # q
    BY <1>2, <1>9 DEF Served, Turn
  <2>3. \A d \in Calls : call[d] # Null => \A e \in call[d].copies : e[2] # m
    BY <1>2 DEF Fresh
  <2>. QED
    BY <1>1, <2>1, <2>2, <2>3 DEF CopiesApart
<1>. QED
  BY <1>1, <1>7, <1>8, <1>12, <1>13 DEF ServiceInv

LEMMA ServiceStep ==
    ASSUME ServiceInv, [ServiceNext]_allVars, "draft" \in MovableTypes
    PROVE  ServiceInv'
<1>1. [Next]_vars
  BY StepIsOperation
<1>2. ServiceTypeOK
  BY DEF ServiceInv
<1>3. CASE UNCHANGED allVars
  <2>1. Live' = Live /\ call' = call
    BY <1>3 DEF allVars, vars, Live
  <2>2. ServiceTypeOK'
    BY <1>2, <2>1 DEF ServiceTypeOK
  <2>. QED
    BY <1>1, <2>1, <2>2, KeptWithoutMaking
<1>4. CASE OtherRequest
  <2>1. call' = call
    BY <1>4 DEF OtherRequest
  <2>2. ServiceTypeOK'
    BY <1>2, <2>1 DEF ServiceTypeOK
  <2>3. Live' \subseteq Live
    <3>1. message \in [MsgIds -> MessageRow \cup {NoRow}]
      BY DEF ServiceInv, StoreInv, TypeOK
    <3>. QED
      BY <1>4, <3>1 DEF OtherRequest, DeleteDraft, SendDraft, Live
  <2>. QED
    BY <1>1, <2>1, <2>2, <2>3, KeptWithoutMaking
<1>5. ASSUME NEW c \in Calls, Receive(c)
      PROVE  ServiceInv'
  <2>1. Live' \subseteq Live
    BY <1>5, QuietMakesNone
  <2>2. /\ call[c] = Null /\ call'[c] # Null /\ Ready(c)' /\ InOrder(c)'
        /\ call'[c].to = call'[c].receivers
        /\ call'[c].copies = {} /\ call'[c].msg = Null
        /\ call'[c].root # Null => call'[c].root \in Live
        /\ call'[c].step \notin Paging
        /\ \A d \in Calls \ {c} : call'[d] = call[d]
        /\ ServiceTypeOK'
    BY <1>5, Begins, ServiceAssumption
  <2>. QED
    BY <1>1, <2>1, <2>2, KeptWithoutMaking
<1>6. ASSUME NEW c \in Calls, Quiet(c)
      PROVE  ServiceInv'
  <2>1. Live' \subseteq Live
    BY <1>6, QuietMakesNone
  <2>2. /\ call[c] # Null /\ call'[c].op = call[c].op
        /\ \A d \in Calls \ {c} : call'[d] = call[d]
        /\ call'[c].user = call[c].user
        /\ call'[c].root = call[c].root /\ call'[c].msg = call[c].msg
        /\ call'[c].receivers = call[c].receivers
        /\ call'[c].to = call[c].to /\ call'[c].copies = call[c].copies
    BY <1>2, <1>6, QuietKeeps
  <2>3. ServiceTypeOK' /\ Ready(c)' /\ call'[c] # Null
    BY <1>6, QuietReady, ServiceAssumption
  <2>4. InOrder(c)'
    BY <2>2 DEF ServiceInv, InOrder
  <2>5. Steady(c)
    BY <1>6, <2>2, QuietPermits DEF Steady
  <2>. QED
    BY <1>1, <2>1, <2>2, <2>3, <2>4, <2>5, KeptWithoutMaking
<1>9. ASSUME NEW c \in Calls, SaveDraftAgain(c) \/ SaveNothing(c)
      PROVE  ServiceInv'
  <2>1. Live' \subseteq Live
    BY <1>9, QuietMakesNone
  <2>2. /\ call[c] # Null
        /\ \A d \in Calls \ {c} : call'[d] = call[d]
        /\ ServiceTypeOK' /\ Ready(c)' /\ InOrder(c)' /\ call'[c] # Null
    BY <1>9, Resaves, ServiceAssumption
  <2>3. Steady(c)
    BY <1>9, Resaves DEF Steady
  <2>. QED
    BY <1>1, <2>1, <2>2, <2>3, KeptWithoutMaking
<1>7. ASSUME NEW c \in Calls, DeliverCopy(c) \/ SaveDraft(c)
      PROVE  ServiceInv'
  <2>1. call[c] # Null /\ \E q \in Entry, m \in MsgIds, s \in Working : Takes(c, q, m, s)
    BY <1>7, Makes
  <2>2. PICK q \in Entry, m \in MsgIds, s \in Working : Takes(c, q, m, s)
    BY <2>1
  <2>. QED
    BY <1>1, <2>1, <2>2, KeptByMaking
<1>8. ASSUME ServiceNext
      PROVE  \/ OtherRequest
             \/ \E c \in Calls : \/ Receive(c) \/ Quiet(c)
                                \/ SaveDraftAgain(c) \/ SaveNothing(c)
                                \/ DeliverCopy(c) \/ SaveDraft(c)
  BY <1>8 DEF ServiceNext, Quiet, Loop
<1>. QED
  BY <1>3, <1>4, <1>5, <1>6, <1>7, <1>8, <1>9

LEMMA ServiceInvariant ==
    ASSUME "draft" \in MovableTypes
    PROVE  ServiceSpec => []ServiceInv
<1>1. ServiceInv /\ [ServiceNext]_allVars => ServiceInv'
  BY ServiceStep
<1>. QED
  BY <1>1, ServiceStarts, PTL DEF ServiceSpec

-----------------------------------------------------------------------------
(* What an answer without error means. *)

\* The messages that a request has made.
Made(c) == {m \in MsgIds : \E e \in call[c].copies : e[2] = m}

Mail == {m \in MsgIds : \E c \in Calls : Mails(c) /\ m \in Made(c)}

\* What is delivered lies in no draft folder, so that nobody deletes or edits it,
\* and only the request that delivers it works on it.
NeverDraft == \A e \in fpm : e[1] \in Mail => folder[e[2]].type # "draft"

OthersApart ==
    \A c \in Calls : call[c] # Null /\ ~Mails(c) => call[c].msg \notin Mail

\* The message a request works on is its last copy.
LastCopy(c) ==
    IF call[c].copies = {} THEN call[c].msg = Null ELSE call[c].msg \in Made(c)

\* Each copy is the caller's and lies where it was delivered,
Placed(c, e) ==
    Rows(e[2], OfType(e[1][2], "inbox") \cup OfType(call[c].user, "sent")) \subseteq fpm

Belongs(c) ==
    \A e \in call[c].copies :
        /\ e[2] \in Live /\ message[e[2]].sender = call[c].user
        /\ <<e[1][2], e[2]>> \in bond /\ Placed(c, e)

\* has its files but for those still to be saved,
FilesLeft(c, m) == IF m = call[c].msg THEN call[c].left ELSE 0

FilesSaved(c) ==
    /\ \A m \in Made(c) : file[m] + FilesLeft(c, m) = call[c].files
    /\ call[c].step \notin {"thread", "bind", "file", "error"} => call[c].left = 0

\* and is in a thread if it is a reply or the first, but for the one whose thread
\* is still to be made.
Threading(c, e) ==
    /\ call[c].op = "send" /\ e[2] = call[c].msg
    /\ call[c].step \in {"thread", "bind", "error"}

HasThread(c, e) ==
    call[c].op = "reply" \/ e[1][1] = 1 => message[e[2]].thread_id # Null

InThreads(c) == \A e \in call[c].copies : HasThread(c, e) \/ Threading(c, e)

\* The steps of a request that delivers, whose answer comes after the last entry.
OwnSteps(c) ==
    /\ call[c].step \in {"given", "lookup", "create", "attach", "deliver", "thread", "bind",
                         "file", "ok", "error"}
    /\ call[c].step = "ok" => call[c].to = {}

Delivers(c) == OwnSteps(c) /\ LastCopy(c) /\ Belongs(c) /\ FilesSaved(c) /\ InThreads(c)

DeliveryInv ==
    NeverDraft /\ OthersApart /\ \A c \in Calls : Mails(c) => Delivers(c)


LEMMA MadeIsMail ==
    ASSUME NEW c \in Calls, Mails(c), NEW m \in Made(c)
    PROVE  m \in Mail /\ m \in Used
BY DEF Made, Mail, Mails, Used

\* Mail exists and was made.
LEMMA MailLives ==
    ASSUME DeliveryInv, NEW m \in Mail
    PROVE  m \in Live /\ m \in Used
<1>1. PICK c \in Calls : Mails(c) /\ m \in Made(c)
  BY DEF Mail
<1>2. Belongs(c)
  BY <1>1 DEF DeliveryInv, Delivers
<1>. QED
  BY <1>1, <1>2, MadeIsMail DEF Belongs, Made

\* A row that an UPDATE of another column leaves.
SameMail(m) ==
    /\ m \in Live'
    /\ message'[m].sender = message[m].sender
    /\ message[m].thread_id # Null => message'[m].thread_id # Null

\* No operation of the store deletes mail, gives it another sender or takes it out
\* of its thread, since what DeleteDraft may delete lies in a draft folder.
LEMMA MailSurvives ==
    ASSUME StoreInv, NeverDraft, [Next]_vars, NEW m \in Mail, m \in Live
    PROVE  SameMail(m)
<1>. USE DEF SameMail, Live
<1>1. message \in [MsgIds -> MessageRow \cup {NoRow}] /\ m \in MsgIds
      /\ message[m] \in MessageRow
  BY DEF StoreInv, TypeOK
<1>2. CASE UNCHANGED message
  BY <1>2
<1>3. ASSUME NEW x \in MsgIds, NEW p, NEW y, NEW t, InsertMessage(x, p, y, t)
      PROVE  SameMail(m)
  BY <1>1, <1>3 DEF InsertMessage
<1>4. ASSUME NEW x \in MsgIds, NEW t \in ThreadIds, SaveThreadIdToMessage(x, t)
      PROVE  SameMail(m)
  <2>1. t # Null
    BY StoreAssumption
  <2>2. message' = [message EXCEPT ![x].thread_id = t]
    BY <1>4 DEF SaveThreadIdToMessage
  <2>3. CASE x = m
    <3>1. message'[m] = [message[m] EXCEPT !.thread_id = t]
      BY <1>1, <2>2, <2>3
    <3>2. message'[m] \in MessageRow
      BY <1>1, <3>1 DEF MessageRow
    <3>3. message'[m].sender = message[m].sender /\ message'[m].thread_id = t
      BY <1>1, <3>1 DEF MessageRow
    <3>. QED
      BY <1>1, <2>1, <3>2, <3>3, StoreAssumption
  <2>4. CASE x # m
    BY <1>1, <2>2, <2>4
  <2>. QED
    BY <2>3, <2>4
<1>5. ASSUME NEW p \in Users, IsDraftBelongsToUser(p, m)
      PROVE  FALSE
  BY <1>5 DEF IsDraftBelongsToUser, In, OfType, NeverDraft
<1>6. ASSUME NEW p \in Users, NEW x \in MsgIds, NEW y, SaveExistingDraft(p, x, y)
      PROVE  SameMail(m)
  <2>1. x # m
    BY <1>5, <1>6 DEF SaveExistingDraft
  <2>. QED
    BY <1>1, <1>6, <2>1 DEF SaveExistingDraft
<1>7. ASSUME NEW p \in Users, NEW x \in MsgIds, DeleteDraft(p, x)
      PROVE  SameMail(m)
  <2>1. x # m
    BY <1>5, <1>7 DEF DeleteDraft
  <2>. QED
    BY <1>1, <1>7, <2>1 DEF DeleteDraft
<1>8. CASE Deliver
  BY <1>3, <1>8 DEF Deliver, SaveMessageWithFolderDistribution,
     ReplyToMessageWithFolderDistribution
<1>9. CASE ThreadOrFile
  BY <1>2, <1>4, <1>9 DEF ThreadOrFile, SaveFile, SaveThread
<1>10. CASE Filing
  BY <1>2, <1>10 DEF Filing, MarkMessageAsRead, MarkMessageAsSpam, MoveToFolder,
     DeleteMessageFromFolder
<1>11. CASE Drafting
  BY <1>2, <1>3, <1>6, <1>7, <1>11 DEF Drafting, SendDraft, SaveNewDraft
<1>12. CASE ManageFolder
  BY <1>2, <1>12 DEF ManageFolder, CreateFolder, RenameFolder, DeleteFolder
<1>13. CASE UNCHANGED vars
  BY <1>2, <1>13 DEF vars
<1>. QED
  BY <1>8, <1>9, <1>10, <1>11, <1>12, <1>13 DEF Next


LEMMA ElsewhereUntouched ==
    ASSUME NEW c \in Calls,
           ResolveThreadRoot(c) \/ MessagePage(c) \/ Fail(c) \/ Receive(c) \/ SaveNothing(c)
    PROVE  UNCHANGED <<fpm, folder, file>>
<1>1. CASE ResolveThreadRoot(c)
  BY <1>1 DEF ResolveThreadRoot, AttachGiven, Lookup, Create, Attach, SaveThread,
     SaveThreadIdToMessage, vars
<1>2. CASE MessagePage(c)
  BY <1>2 DEF MessagePage, Permit, FindFull, ShouldMarkAsRead, Mark, MarkMessageAsRead, vars
<1>3. CASE Fail(c) \/ SaveNothing(c)
  BY <1>3 DEF Fail, SaveNothing, vars
<1>4. CASE Receive(c)
  BY <1>4 DEF Receive, Accept, vars
<1>. QED
  BY <1>1, <1>2, <1>3, <1>4

\* A request at its files works on a copy of its own, or on no mail.
LEMMA WorksOnItsOwn ==
    ASSUME ServiceInv, DeliveryInv, NEW c \in Calls, call[c] # Null, call[c].msg \in Mail,
           call[c].step \in {"thread", "bind", "refile", "file"}
    PROVE  Mails(c) /\ call[c].msg \in Made(c) /\ call[c].step # "refile"
<1>1. Mails(c)
  BY DEF DeliveryInv, OthersApart
<1>2. LastCopy(c) /\ OwnSteps(c)
  BY <1>1 DEF DeliveryInv, Delivers
<1>3. call[c].msg # Null
  BY StoreAssumption DEF Mail
<1>. QED
  BY <1>1, <1>2, <1>3 DEF LastCopy, OwnSteps

\* Nobody but the request that made it adds a file to mail, or takes one away.
LEMMA MailFiles ==
    ASSUME ServiceInv, DeliveryInv, [ServiceNext]_allVars, NEW m \in Mail
    PROVE  \/ file'[m] = file[m]
           \/ \E c \in Calls :
                 StoreFile(c) /\ Mails(c) /\ m \in Made(c) /\ m = call[c].msg
                 /\ file'[m] = file[m] + 1
<1>1. file \in [MsgIds -> 0 .. MaxFiles] /\ m \in MsgIds
  BY DEF ServiceInv, StoreInv, TypeOK, Mail
<1>2. CASE UNCHANGED file
  BY <1>2
<1>3. CASE UNCHANGED vars
  BY <1>2, <1>3 DEF vars
<1>4. ASSUME NEW p \in Users, NEW x \in MsgIds, DeleteDraft(p, x)
      PROVE  file'[m] = file[m]
  <2>1. x # m
    BY <1>4 DEF DeleteDraft, IsDraftBelongsToUser, In, OfType, NeverDraft, DeliveryInv
  <2>. QED
    BY <1>1, <1>4, <2>1 DEF DeleteDraft, CascadeMessage
<1>5. CASE OtherRequest
  BY <1>4, <1>5 DEF OtherRequest, SendDraft
<1>6. ASSUME NEW c \in Calls, StoreFile(c)
      PROVE  \/ file'[m] = file[m]
             \/ Mails(c) /\ m \in Made(c) /\ m = call[c].msg /\ file'[m] = file[m] + 1
  <2>1. file' = [file EXCEPT ![call[c].msg] = @ + 1]
        /\ call[c] # Null /\ call[c].step = "file"
    BY <1>6 DEF StoreFile, SaveFile, At
  <2>2. CASE call[c].msg # m
    BY <1>1, <2>1, <2>2
  <2>3. CASE call[c].msg = m
    <3>1. Mails(c) /\ m \in Made(c)
      BY <2>1, <2>3, WorksOnItsOwn
    <3>2. file'[m] = file[m] + 1
      BY <1>1, <2>1, <2>3
    <3>. QED
      BY <2>3, <3>1, <3>2
  <2>. QED
    BY <2>2, <2>3
<1>7. ASSUME NEW c \in Calls, ResolveThreadRoot(c) \/ MessagePage(c) \/ Fail(c) \/ Receive(c)
      PROVE  UNCHANGED file
  BY <1>7, ElsewhereUntouched
<1>8. ASSUME NEW c \in Calls, Loop(c), ~StoreFile(c)
      PROVE  UNCHANGED file
  BY <1>8 DEF Loop, DeliverCopy, SaveDraft, SaveDraftAgain, SaveNothing, StartThread, Bind,
     Refile, NextReceiver, SaveMessageWithFolderDistribution, ReplyToMessageWithFolderDistribution,
     Distribute, SaveNewDraft, SaveExistingDraft, SaveThread, SaveThreadIdToMessage,
     MoveToFolder, vars
<1>9. CASE UNCHANGED allVars
  BY <1>3, <1>9 DEF allVars
<1>. QED
  BY <1>2, <1>5, <1>6, <1>7, <1>8, <1>9 DEF ServiceNext

\* What is delivered is not filed with the drafts,
LEMMA MailStaysOut ==
    ASSUME ServiceInv, DeliveryInv, [ServiceNext]_allVars, \A c \in Calls : ~DeliverCopy(c),
           NEW e \in fpm', e[1] \in Mail
    PROVE  folder'[e[2]].type # "draft"
<1>1. e \in fpm => folder[e[2]].type # "draft"
  BY DEF DeliveryInv, NeverDraft
<1>2. CASE UNCHANGED <<fpm, folder>>
  BY <1>1, <1>2
<1>3. CASE UNCHANGED vars
  BY <1>2, <1>3 DEF vars
<1>4. CASE OtherRequest
  <2>1. ASSUME NEW p \in Users, NEW x \in MsgIds, DeleteDraft(p, x)
        PROVE  folder'[e[2]].type # "draft"
    BY <1>1, <2>1 DEF DeleteDraft, CascadeMessage
  <2>2. ASSUME NEW p \in Users, NEW x \in MsgIds, SendDraft(p, x)
        PROVE  folder'[e[2]].type # "draft"
    <3>1. PICK s \in OfType(p, "sent"), i \in OfType(p, "inbox") :
             fpm' \subseteq fpm \cup {<<x, s>>, <<x, i>>} /\ folder' = folder
      BY <2>2 DEF SendDraft
    <3>2. folder[s].type = "sent" /\ folder[i].type = "inbox"
      BY DEF OfType
    <3>. QED
      BY <1>1, <3>1, <3>2
  <2>. QED
    BY <1>4, <2>1, <2>2 DEF OtherRequest
<1>5. ASSUME NEW c \in Calls, SaveDraft(c)
      PROVE  folder'[e[2]].type # "draft"
  <2>1. PICK m \in MsgIds, x \in Texts : Fresh(m) /\ SaveNewDraft(call[c].user, m, x)
    BY <1>5 DEF SaveDraft
  <2>2. PICK d : fpm' = fpm \cup {<<m, d>>} /\ folder' = folder
    BY <2>1 DEF SaveNewDraft
  <2>3. e[1] # m
    BY <2>1, MailLives DEF Fresh, Used
  <2>. QED
    BY <1>1, <2>2, <2>3
<1>6. ASSUME NEW c \in Calls, Refile(c)
      PROVE  folder'[e[2]].type # "draft"
  <2>1. PICK d : MoveToFolder(call[c].user, call[c].msg, d)
    BY <1>6 DEF Refile
  <2>2. fpm' \subseteq fpm \cup {<<call[c].msg, d>>} /\ folder' = folder
    BY <2>1 DEF MoveToFolder
  <2>3. call[c].msg \notin Mail
    BY <1>6, WorksOnItsOwn DEF Refile, At
  <2>. QED
    BY <1>1, <2>2, <2>3
<1>7. ASSUME NEW c \in Calls, ResolveThreadRoot(c) \/ MessagePage(c) \/ Fail(c) \/ Receive(c)
      PROVE  UNCHANGED <<fpm, folder>>
  BY <1>7, ElsewhereUntouched
<1>8. ASSUME NEW c \in Calls, Loop(c), ~SaveDraft(c), ~Refile(c)
      PROVE  UNCHANGED <<fpm, folder>>
  BY <1>8 DEF Loop, SaveDraftAgain, SaveNothing, StartThread, Bind, StoreFile,
     NextReceiver, SaveExistingDraft, SaveThread, SaveThreadIdToMessage, SaveFile, vars
<1>9. CASE UNCHANGED allVars
  BY <1>3, <1>9 DEF allVars
<1>. QED
  BY <1>2, <1>4, <1>5, <1>6, <1>7, <1>8, <1>9 DEF ServiceNext

\* No request takes mail out of a folder: what is moved by Refile or taken out of
\* the drafts is a draft.
LEMMA MailStays ==
    ASSUME ServiceInv, DeliveryInv, [ServiceNext]_allVars
    PROVE  folder' = folder /\ \A e \in fpm : e[1] \in Mail => e \in fpm'
<1>1. CASE UNCHANGED <<fpm, folder>>
  BY <1>1
<1>2. CASE UNCHANGED vars
  BY <1>1, <1>2 DEF vars
<1>3. CASE UNCHANGED allVars
  BY <1>2, <1>3 DEF allVars
<1>4. CASE OtherRequest
  <2>1. ASSUME NEW p \in Users, NEW x \in MsgIds, IsDraftBelongsToUser(p, x)
        PROVE  x \notin Mail
    BY <2>1 DEF IsDraftBelongsToUser, In, OfType, NeverDraft, DeliveryInv
  <2>2. ASSUME NEW p \in Users, NEW x \in MsgIds, DeleteDraft(p, x)
        PROVE  folder' = folder /\ \A e \in fpm : e[1] \in Mail => e \in fpm'
    BY <2>1, <2>2 DEF DeleteDraft, CascadeMessage
  <2>3. ASSUME NEW p \in Users, NEW x \in MsgIds, SendDraft(p, x)
        PROVE  folder' = folder /\ \A e \in fpm : e[1] \in Mail => e \in fpm'
    BY <2>1, <2>3 DEF SendDraft, Rows
  <2>. QED
    BY <1>4, <2>2, <2>3 DEF OtherRequest
<1>5. ASSUME NEW c \in Calls, Refile(c)
      PROVE  folder' = folder /\ \A e \in fpm : e[1] \in Mail => e \in fpm'
  <2>1. call[c].msg \notin Mail
    BY <1>5, WorksOnItsOwn DEF Refile, At
  <2>2. PICK d : MoveToFolder(call[c].user, call[c].msg, d)
    BY <1>5 DEF Refile
  <2>. QED
    BY <2>1, <2>2 DEF MoveToFolder, Rows
<1>6. ASSUME NEW c \in Calls, DeliverCopy(c) \/ SaveDraft(c)
      PROVE  folder' = folder /\ fpm \subseteq fpm'
  BY <1>6 DEF DeliverCopy, SaveDraft, SaveMessageWithFolderDistribution,
     ReplyToMessageWithFolderDistribution, Distribute, SaveNewDraft
<1>7. ASSUME NEW c \in Calls, ResolveThreadRoot(c) \/ MessagePage(c) \/ Fail(c) \/ Receive(c)
      PROVE  UNCHANGED <<fpm, folder>>
  BY <1>7, ElsewhereUntouched
<1>8. ASSUME NEW c \in Calls, Loop(c), ~DeliverCopy(c), ~SaveDraft(c), ~Refile(c)
      PROVE  UNCHANGED <<fpm, folder>>
  BY <1>8 DEF Loop, SaveDraftAgain, SaveNothing, StartThread, Bind, StoreFile,
     NextReceiver, SaveExistingDraft, SaveThread, SaveThreadIdToMessage, SaveFile, vars
<1>. QED
  BY <1>1, <1>3, <1>4, <1>5, <1>6, <1>7, <1>8 DEF ServiceNext

\* A copy that exists stays what it was.
SameCopy(d, e) ==
    /\ e[2] \in Live' /\ message'[e[2]].sender = call[d].user
    /\ <<e[1][2], e[2]>> \in bond'
    /\ folder' = folder
    /\ Rows(e[2], OfType(e[1][2], "inbox") \cup OfType(call[d].user, "sent")) \subseteq fpm'
    /\ message[e[2]].thread_id # Null => message'[e[2]].thread_id # Null

LEMMA CopyStays ==
    ASSUME ServiceInv, DeliveryInv, [ServiceNext]_allVars, [Next]_vars,
           NEW d \in Calls, Mails(d), NEW e \in call[d].copies
    PROVE  e[2] \in Made(d) /\ SameCopy(d, e)
<1>1. e[2] \in Live /\ message[e[2]].sender = call[d].user
      /\ <<e[1][2], e[2]>> \in bond /\ Placed(d, e)
  BY DEF DeliveryInv, Delivers, Belongs
<1>2. e[2] \in Made(d) /\ e[2] \in Mail
  <2>1. e[2] \in Made(d)
    BY <1>1 DEF Made, Live
  <2>. QED
    BY <2>1, MadeIsMail
<1>3. SameMail(e[2])
  BY <1>1, <1>2, MailSurvives DEF DeliveryInv, ServiceInv
<1>4. <<e[1][2], e[2]>> \in bond'
  <2>. DEFINE b == <<e[1][2], e[2]>>
  <2>1. b[2] = e[2]
    OBVIOUS
  <2>2. b[2] \in Live'
    BY <1>3, <2>1 DEF SameMail
  <2>3. b \in bond
    BY <1>1
  <2>. HIDE DEF b
  <2>4. b \in bond'
    BY <2>2, <2>3, BondsLast DEF ServiceInv
  <2>. QED
    BY <2>4 DEF b
<1>5. folder' = folder
      /\ Rows(e[2], OfType(e[1][2], "inbox") \cup OfType(call[d].user, "sent")) \subseteq fpm'
  <2>. DEFINE fs == OfType(e[1][2], "inbox") \cup OfType(call[d].user, "sent")
  <2>1. folder' = folder /\ \A r \in fpm : r[1] \in Mail => r \in fpm'
    BY MailStays
  <2>2. Rows(e[2], fs) \subseteq fpm
    BY <1>1 DEF Placed
  <2>. HIDE DEF fs
  <2>3. \A r \in Rows(e[2], fs) : r[1] = e[2]
    BY DEF Rows
  <2>4. Rows(e[2], fs) \subseteq fpm'
    BY <1>2, <2>1, <2>2, <2>3
  <2>. QED
    BY <2>1, <2>4 DEF fs
<1>. QED
  BY <1>1, <1>2, <1>3, <1>4, <1>5 DEF SameMail, SameCopy

\* Then it belongs as before, and is in a thread if it was.
LEMMA CopyKept ==
    ASSUME NEW d \in Calls, NEW e, SameCopy(d, e),
           call'[d].user = call[d].user, call'[d].op = call[d].op
    PROVE  /\ e[2] \in Live' /\ message'[e[2]].sender = call'[d].user
           /\ <<e[1][2], e[2]>> \in bond' /\ Placed(d, e)'
           /\ HasThread(d, e) => HasThread(d, e)'
<1>1. Placed(d, e)'
  <2>1. \A p, t : OfType(p, t)' = OfType(p, t)
    BY DEF SameCopy, OfType, FoldersOf, Folders
  <2>. QED
    BY <2>1 DEF SameCopy, Placed, Rows
<1>. QED
  BY <1>1 DEF SameCopy, HasThread

\* A request's copies stay what they were, but for a file it adds itself.
LEMMA CopiesKept ==
    ASSUME ServiceInv, DeliveryInv, [ServiceNext]_allVars, [Next]_vars,
           NEW d \in Calls, Mails(d), call'[d].copies = call[d].copies,
           call'[d].user = call[d].user, call'[d].op = call[d].op
    PROVE  /\ Made(d)' = Made(d) /\ Belongs(d)'
           /\ \A e \in call[d].copies : HasThread(d, e) => HasThread(d, e)'
           /\ ~StoreFile(d) => \A m \in Made(d) : file'[m] = file[m]
           /\ StoreFile(d) =>
                 \A m \in Made(d) : file'[m] = IF m = call[d].msg THEN file[m] + 1 ELSE file[m]
<1>1. Made(d)' = Made(d)
  BY DEF Made
<1>2. ASSUME NEW m \in Made(d)
      PROVE  m \in Mail
  BY MadeIsMail
<1>3. ASSUME NEW e \in call[d].copies
      PROVE  /\ e[2] \in Live' /\ message'[e[2]].sender = call'[d].user
             /\ <<e[1][2], e[2]>> \in bond' /\ Placed(d, e)'
             /\ HasThread(d, e) => HasThread(d, e)'
  BY CopyStays, CopyKept
<1>4. Belongs(d)'
  BY <1>3 DEF Belongs
<1>5. ASSUME NEW c \in Calls, Mails(c), NEW m \in Made(c), m \in Made(d)
      PROVE  c = d
  BY <1>5 DEF ServiceInv, CopiesApart, Made, Mails
<1>6. ASSUME ~StoreFile(d), NEW m \in Made(d)
      PROVE  file'[m] = file[m]
  BY <1>2, <1>5, <1>6, MailFiles
<1>7. ASSUME StoreFile(d), NEW m \in Made(d)
      PROVE  file'[m] = IF m = call[d].msg THEN file[m] + 1 ELSE file[m]
  <2>1. file' = [file EXCEPT ![call[d].msg] = @ + 1] /\ m \in MsgIds
        /\ file \in [MsgIds -> 0 .. MaxFiles]
    BY <1>7 DEF StoreFile, SaveFile, ServiceInv, StoreInv, TypeOK, Made
  <2>. QED
    BY <2>1
<1>. QED
  BY <1>1, <1>3, <1>4, <1>6, <1>7

\* Requests that a step is not of keep what they have.
LEMMA BystanderDelivers ==
    ASSUME ServiceInv, DeliveryInv, [ServiceNext]_allVars, [Next]_vars,
           NEW d \in Calls, Mails(d), call'[d] = call[d], ~StoreFile(d)
    PROVE  Delivers(d)'
<1>1. /\ Made(d)' = Made(d) /\ Belongs(d)'
      /\ \A e \in call[d].copies : HasThread(d, e) => HasThread(d, e)'
      /\ \A m \in Made(d) : file'[m] = file[m]
  <2>1. call'[d].copies = call[d].copies /\ call'[d].user = call[d].user
        /\ call'[d].op = call[d].op
    OBVIOUS
  <2>. QED
    BY <2>1, CopiesKept, Zenon
<1>2. OwnSteps(d) /\ LastCopy(d) /\ FilesSaved(d) /\ InThreads(d)
  BY DEF DeliveryInv, Delivers
<1>3. OwnSteps(d)'
  BY <1>2 DEF OwnSteps
<1>4. LastCopy(d)'
  <2>1. (call[d].msg \in Made(d))' <=> call[d].msg \in Made(d)
    BY <1>1
  <2>. QED
    BY <1>2, <2>1 DEF LastCopy
<1>5. FilesSaved(d)'
  <2>1. \A m \in Made(d) : FilesLeft(d, m)' = FilesLeft(d, m)
    BY DEF FilesLeft
  <2>. QED
    BY <1>1, <1>2, <2>1 DEF FilesSaved
<1>6. InThreads(d)'
  <2>1. \A e \in call[d].copies : Threading(d, e)' <=> Threading(d, e)
    BY DEF Threading
  <2>. QED
    BY <1>1, <1>2, <2>1 DEF InThreads
<1>. QED
  BY <1>1, <1>3, <1>4, <1>5, <1>6 DEF Delivers

LEMMA NoFileStored ==
    ASSUME ServiceInv, NEW c \in Calls, UNCHANGED vars
    PROVE  ~StoreFile(c)
<1>. SUFFICES ASSUME StoreFile(c) PROVE FALSE
  OBVIOUS
<1>1. file' = file /\ call[c].msg \in Live /\ file' = [file EXCEPT ![call[c].msg] = @ + 1]
  BY DEF StoreFile, SaveFile, vars
<1>2. file[call[c].msg] \in Nat /\ file'[call[c].msg] = file[call[c].msg] + 1
  BY <1>1, StoreAssumption DEF Live, ServiceInv, StoreInv, TypeOK
<1>. QED
  BY <1>1, <1>2

\* What a step of a handler may change of a request.
Turns(c, s, n) ==
    /\ call'[c].step = s /\ call'[c].left = n
    /\ call'[c].op = call[c].op /\ call'[c].user = call[c].user
    /\ call'[c].receivers = call[c].receivers /\ call'[c].to = call[c].to
    /\ call'[c].root = call[c].root /\ call'[c].msg = call[c].msg
    /\ call'[c].files = call[c].files /\ call'[c].copies = call[c].copies

LEMMA GotoTurns ==
    ASSUME ServiceTypeOK, NEW c \in Calls, call[c] # Null, NEW s, Goto(c, s)
    PROVE  Turns(c, s, call[c].left)
<1>1. call[c] \in Call /\ call \in [Calls -> Call \cup {Null}]
  BY DEF ServiceTypeOK
<1>2. call'[c] = [call[c] EXCEPT !.step = s]
  BY <1>1 DEF Goto
<1>. QED
  BY <1>1, <1>2 DEF Turns, Call

LEMMA ThreadTurns ==
    ASSUME ServiceTypeOK, NEW c \in Calls, call[c] # Null, NEW t, NEW s, TakeThread(c, t, s)
    PROVE  Turns(c, s, call[c].left)
<1>1. call[c] \in Call /\ call \in [Calls -> Call \cup {Null}]
  BY DEF ServiceTypeOK
<1>2. call'[c] = [call[c] EXCEPT !.thread = t, !.step = s]
  BY <1>1 DEF TakeThread
<1>. QED
  BY <1>1, <1>2 DEF Turns, Call

LEMMA StoreFileTurns ==
    ASSUME ServiceTypeOK, NEW c \in Calls, StoreFile(c)
    PROVE  Turns(c, "file", call[c].left - 1)
<1>1. call[c] \in Call /\ call \in [Calls -> Call \cup {Null}] /\ call[c].step = "file"
  BY DEF ServiceTypeOK, StoreFile, At
<1>2. call'[c] = [call[c] EXCEPT !.left = @ - 1]
  BY <1>1 DEF StoreFile
<1>. QED
  BY <1>1, <1>2 DEF Turns, Call

LEMMA TurnDelivers ==
    ASSUME ServiceInv, DeliveryInv, [ServiceNext]_allVars, [Next]_vars,
           NEW c \in Calls, Mails(c), NEW s, NEW n, Turns(c, s, n),
           s \in {"lookup", "create", "attach", "deliver", "bind", "file", "ok", "error"},
           \A m \in Made(c) :
              file'[m] + (IF m = call[c].msg THEN n ELSE 0) = call[c].files,
           s \notin {"bind", "file", "error"} => n = 0,
           s = "ok" => call[c].to = {},
           \A e \in call[c].copies :
              \/ HasThread(c, e) \/ HasThread(c, e)'
              \/ call[c].op = "send" /\ e[2] = call[c].msg /\ s \in {"bind", "error"}
    PROVE  Delivers(c)'
<1>1. Made(c)' = Made(c) /\ Belongs(c)'
      /\ \A e \in call[c].copies : HasThread(c, e) => HasThread(c, e)'
  <2>1. call'[c].copies = call[c].copies /\ call'[c].user = call[c].user
        /\ call'[c].op = call[c].op
    BY DEF Turns
  <2>. QED
    BY <2>1, CopiesKept, Zenon
<1>2. LastCopy(c)
  BY DEF DeliveryInv, Delivers
<1>3. OwnSteps(c)'
  BY DEF OwnSteps, Turns
<1>5. LastCopy(c)'
  BY <1>1, <1>2 DEF LastCopy, Turns
<1>6. FilesSaved(c)'
  <2>1. \A m \in Made(c) : FilesLeft(c, m)' = IF m = call[c].msg THEN n ELSE 0
    BY DEF FilesLeft, Turns
  <2>2. call'[c].step = s /\ call'[c].left = n /\ call'[c].files = call[c].files
    BY DEF Turns
  <2>. QED
    BY <1>1, <2>1, <2>2 DEF FilesSaved
<1>7. InThreads(c)'
  <2>1. ASSUME NEW e \in call[c].copies
        PROVE  HasThread(c, e)' \/ Threading(c, e)'
    BY <1>1 DEF Threading, Turns
  <2>. QED
    BY <2>1 DEF InThreads, Turns
<1>. QED
  BY <1>1, <1>3, <1>5, <1>6, <1>7 DEF Delivers

\* A request that delivers goes on doing so, whatever call it makes next,
LEMMA QuietDelivers ==
    ASSUME ServiceInv, DeliveryInv, [ServiceNext]_allVars, [Next]_vars,
           NEW c \in Calls, Mails(c), Quiet(c)
    PROVE  Delivers(c)'
<1>0. call[c] # Null /\ call[c] \in Call /\ ServiceTypeOK /\ Ready(c)
  BY CallTyped DEF Mails, ServiceInv
<1>1. OwnSteps(c) /\ LastCopy(c) /\ FilesSaved(c) /\ InThreads(c)
  BY DEF DeliveryInv, Delivers
<1>2. /\ Made(c)' = Made(c)
      /\ ~StoreFile(c) => \A m \in Made(c) : file'[m] = file[m]
      /\ StoreFile(c) =>
            \A m \in Made(c) : file'[m] = IF m = call[c].msg THEN file[m] + 1 ELSE file[m]
  <2>1. call'[c].copies = call[c].copies /\ call'[c].user = call[c].user
        /\ call'[c].op = call[c].op
    BY <1>0, QuietKeeps
  <2>. QED
    BY <2>1, CopiesKept, Zenon
<1>3. call[c].left \in 0 .. MaxFiles /\ MaxFiles \in Nat /\ call[c].files \in 0 .. MaxFiles
      /\ \A m \in Made(c) : file[m] \in 0 .. MaxFiles
  BY <1>0, StoreAssumption DEF Call, Made, ServiceInv, StoreInv, TypeOK
<1>4. \A m \in Made(c) :
         file[m] + (IF m = call[c].msg THEN call[c].left ELSE 0) = call[c].files
  BY <1>1 DEF FilesSaved, FilesLeft
<1>14. call[c].step \notin {"thread", "bind", "error"}
          => \A e \in call[c].copies : HasThread(c, e)
  BY <1>1 DEF InThreads, Threading
<1>15. \A e \in call[c].copies :
          HasThread(c, e) \/ (call[c].op = "send" /\ e[2] = call[c].msg)
  BY <1>1 DEF InThreads, Threading
<1>16. ~StoreFile(c) => \A m \in Made(c) :
          file'[m] + (IF m = call[c].msg THEN call[c].left ELSE 0) = call[c].files
  BY <1>2, <1>4
<1>5. CASE Fail(c)
  <2>1. Turns(c, "error", call[c].left)
    BY <1>0, <1>5, GotoTurns DEF Fail
  <2>2. ~StoreFile(c)
    <3>1. UNCHANGED vars
      BY <1>5 DEF Fail
    <3>. QED
      BY <3>1, NoFileStored
  <2>. QED
    BY <1>15, <1>16, <2>1, <2>2, TurnDelivers
<1>6. ASSUME NEW s \in {"lookup", "create", "attach", "deliver"}, ~StoreFile(c),
             call[c].step \in {"given", "lookup", "create", "attach"},
             Turns(c, s, call[c].left)
      PROVE  Delivers(c)'
  <2>1. call[c].left = 0
    BY <1>1, <1>6 DEF FilesSaved
  <2>2. \A e \in call[c].copies : HasThread(c, e)
    BY <1>14, <1>6
  <2>. QED
    BY <1>6, <1>16, <2>1, <2>2, TurnDelivers
<1>7. CASE ResolveThreadRoot(c)
  <2>1. call[c].step \in {"given", "lookup", "create", "attach"} /\ ~StoreFile(c)
    BY <1>7 DEF ResolveThreadRoot, AttachGiven, Lookup, Create, Attach, StoreFile, At
  <2>2. \/ \E s \in {"lookup", "create", "attach", "deliver"} : Goto(c, s)
        \/ \E s \in {"lookup", "create", "attach", "deliver"} : \E t : TakeThread(c, t, s)
    BY <1>7 DEF ResolveThreadRoot, AttachGiven, Lookup, Create, Attach, TakeThread
  <2>3. \E s \in {"lookup", "create", "attach", "deliver"} : Turns(c, s, call[c].left)
    BY <1>0, <2>2, GotoTurns, ThreadTurns
  <2>. QED
    BY <1>6, <2>1, <2>3
<1>8. CASE StartThread(c)
  <2>1. Turns(c, "bind", call[c].left)
    BY <1>0, <1>8, ThreadTurns DEF StartThread, TakeThread
  <2>2. ~StoreFile(c)
    BY <1>8 DEF StartThread, StoreFile, At
  <2>. QED
    BY <1>15, <1>16, <2>1, <2>2, TurnDelivers
<1>9. CASE Bind(c)
  <2>1. Turns(c, "file", call[c].left)
    BY <1>0, <1>9, GotoTurns DEF Bind, Mails
  <2>2. call[c].step = "bind" /\ ~StoreFile(c)
    BY <1>9 DEF Bind, StoreFile, At
  <2>4. call[c].msg \in Made(c) /\ call[c].thread # Null
    BY <1>0, <1>1, <2>2 DEF LastCopy, Ready
  <2>5. call[c].msg \in Live
    BY <2>4, MadeIsMail, MailLives
  <2>6. message' = [message EXCEPT ![call[c].msg].thread_id = call[c].thread]
    BY <1>9, <2>5 DEF Bind, SaveThreadIdToMessage
  <2>7. message'[call[c].msg].thread_id = call[c].thread
    <3>1. message[call[c].msg] \in MessageRow /\ message \in [MsgIds -> MessageRow \cup {NoRow}]
      BY <2>5 DEF Live, ServiceInv, StoreInv, TypeOK
    <3>. QED
      BY <2>5, <2>6, <3>1 DEF Live, MessageRow
  <2>8. \A e \in call[c].copies : HasThread(c, e) \/ HasThread(c, e)'
    BY <1>15, <2>4, <2>7 DEF HasThread
  <2>. QED
    BY <1>16, <2>1, <2>2, <2>8, TurnDelivers
<1>10. CASE StoreFile(c)
  <2>1. Turns(c, "file", call[c].left - 1)
    BY <1>0, <1>10, StoreFileTurns
  <2>2. call[c].step = "file" /\ call[c].left > 0
    BY <1>10 DEF StoreFile, At
  <2>3. \A m \in Made(c) :
           file'[m] + (IF m = call[c].msg THEN call[c].left - 1 ELSE 0) = call[c].files
    BY <1>2, <1>3, <1>4, <1>10, <2>2
  <2>4. \A e \in call[c].copies : HasThread(c, e)
    BY <1>14, <2>2
  <2>. QED
    BY <2>1, <2>2, <2>3, <2>4, TurnDelivers
<1>11. CASE NextReceiver(c)
  <2>1. call[c].step = "file" /\ call[c].left = 0 /\ ~StoreFile(c)
    BY <1>11 DEF NextReceiver, StoreFile, At
  <2>2. PICK s \in {"ok", "deliver"} : Goto(c, s) /\ (s = "ok" => call[c].to = {})
    <3>1. CASE call[c].to = {}
      BY <1>11, <3>1 DEF NextReceiver
    <3>2. CASE call[c].to # {}
      BY <1>11, <3>2 DEF NextReceiver, Mails
    <3>. QED
      BY <3>1, <3>2
  <2>3. Turns(c, s, call[c].left)
    BY <1>0, <2>2, GotoTurns
  <2>5. \A e \in call[c].copies : HasThread(c, e)
    BY <1>14, <2>1
  <2>. QED
    BY <1>16, <2>1, <2>2, <2>3, <2>5, TurnDelivers
<1>12. ~MessagePage(c) /\ ~Refile(c)
  BY <1>1 DEF OwnSteps, MessagePage, Permit, FindFull, ShouldMarkAsRead, Mark, Refile, At
<1>. QED
  BY <1>5, <1>7, <1>8, <1>9, <1>10, <1>11, <1>12 DEF Quiet

\* begins without copies,
LEMMA ReceiveDelivers ==
    ASSUME ServiceInv, NEW c \in Calls, Receive(c), Mails(c)'
    PROVE  Delivers(c)'
<1>1. PICK op \in Ops, p \in Users, n \in 0 .. MaxFiles :
         \E to, r, t : Accept(c, op, p, to, n, r, t)
  BY DEF Receive
<1>2. PICK to, r, t : Accept(c, op, p, to, n, r, t)
  BY <1>1
<1>3. call'[c] = NewCall(op, p, to, n, r, t)
  BY <1>2 DEF Accept, ServiceInv, ServiceTypeOK
<1>4. op \in {"send", "reply"}
  BY <1>3 DEF Mails, NewCall
<1>5. FirstStep(op, t) \in {"deliver", "lookup", "given"}
  BY <1>4 DEF FirstStep
<1>6. /\ call'[c].copies = {} /\ call'[c].msg = Null /\ call'[c].left = 0
      /\ call'[c].step = FirstStep(op, t)
  BY <1>3 DEF NewCall
<1>7. OwnSteps(c)'
  BY <1>5, <1>6 DEF OwnSteps
<1>8. LastCopy(c)' /\ Belongs(c)' /\ InThreads(c)'
  BY <1>6 DEF LastCopy, Belongs, InThreads
<1>10. FilesSaved(c)'
  BY <1>6 DEF FilesSaved, Made
<1>. QED
  BY <1>7, <1>8, <1>10 DEF Delivers

\* What DeliverCopy makes.
LEMMA CopyMade ==
    ASSUME ServiceInv, NEW c \in Calls, DeliverCopy(c)
    PROVE  /\ Mails(c) /\ call[c].step = "deliver"
           /\ \E q \in Entry, m \in MsgIds :
                /\ Turn(c, q) /\ Fresh(m) /\ m \notin Live /\ m \in Live'
                /\ message'[m].sender = call[c].user
                /\ call[c].op = "reply" => message'[m].thread_id = call[c].thread
                /\ Distribute(m, call[c].user, q[2])
                /\ Serve(c, q, m, AfterDelivery(c))
<1>1. PICK q \in Entry, m \in MsgIds, x \in Texts :
         /\ Turn(c, q) /\ Fresh(m)
         /\ \/ /\ call[c].op = "send"
               /\ SaveMessageWithFolderDistribution(call[c].user, q[2], m, x)
            \/ /\ call[c].op = "reply"
               /\ ReplyToMessageWithFolderDistribution(call[c].user, q[2], m, x, call[c].thread)
         /\ Serve(c, q, m, AfterDelivery(c))
  BY DEF DeliverCopy
<1>2. Mails(c) /\ call[c].step = "deliver"
  BY <1>1 DEF DeliverCopy, At, Mails
<1>3. PICK t : InsertMessage(m, call[c].user, x, t)
               /\ (call[c].op = "reply" => t = call[c].thread)
  BY <1>1 DEF SaveMessageWithFolderDistribution, ReplyToMessageWithFolderDistribution
<1>4. Distribute(m, call[c].user, q[2])
  BY <1>1 DEF SaveMessageWithFolderDistribution, ReplyToMessageWithFolderDistribution
<1>5. /\ message'[m] = [sender |-> call[c].user, text |-> x, thread_id |-> t]
      /\ message[m] = NoRow
  BY <1>3 DEF InsertMessage, ServiceInv, StoreInv, TypeOK
<1>6. call[c].user \in Users /\ t \in ThreadIds \cup {Null}
  <2>1. call[c] \in Call
    BY <1>2, CallTyped DEF Mails
  <2>2. call[c].op = "send" => t = Null
    <3>1. CASE call[c].op = "send"
      <4>1. InsertMessage(m, call[c].user, x, Null)
        BY <1>1, <3>1 DEF SaveMessageWithFolderDistribution
      <4>2. message'[m] = [sender |-> call[c].user, text |-> x, thread_id |-> Null]
        BY <4>1 DEF InsertMessage, ServiceInv, StoreInv, TypeOK
      <4>3. message'[m].thread_id = Null /\ message'[m].thread_id = t
        BY <1>5, <4>2
      <4>. QED
        BY <4>3
    <3>. QED
      BY <3>1
  <2>. QED
    BY <1>2, <1>3, <2>1, <2>2 DEF Call, Mails
<1>7. m \in Live' /\ m \notin Live
  <2>1. message'[m] \in MessageRow
    BY <1>5, <1>6 DEF MessageRow
  <2>. QED
    BY <1>5, <2>1, StoreAssumption DEF Live
<1>8. message'[m].sender = call[c].user
      /\ (call[c].op = "reply" => message'[m].thread_id = call[c].thread)
  BY <1>3, <1>5
<1>. QED
  BY <1>1, <1>2, <1>4, <1>7, <1>8

\* The new copy and the old ones.
LEMMA ServeFields ==
    ASSUME ServiceTypeOK, NEW c \in Calls, call[c] # Null, NEW q, NEW m, NEW s,
           Serve(c, q, m, s)
    PROVE  /\ \A d \in Calls \ {c} : call'[d] = call[d]
           /\ call'[c].op = call[c].op /\ call'[c].user = call[c].user
           /\ call'[c].receivers = call[c].receivers /\ call'[c].files = call[c].files
           /\ call'[c].to = call[c].to \ {q} /\ call'[c].msg = m
           /\ call'[c].copies = call[c].copies \cup {<<q, m>>}
           /\ call'[c].left = call[c].files /\ call'[c].step = s
<1>. DEFINE t == IF call[c].op = "draft" THEN call[c].given ELSE call[c].thread
            new == [call[c] EXCEPT !.to = call[c].to \ {q}, !.thread = t,
                                   !.copies = call[c].copies \cup {<<q, m>>}, !.msg = m,
                                   !.left = call[c].files, !.step = s]
<1>1. call[c] \in Call /\ call \in [Calls -> Call \cup {Null}]
  BY DEF ServiceTypeOK
<1>2. call'[c] = new /\ \A d \in Calls \ {c} : call'[d] = call[d]
  BY <1>1 DEF Serve
<1>. HIDE DEF t
<1>. QED
  BY <1>1, <1>2 DEF Call

\* and adds a copy that is a new message.
LEMMA CopyDelivers ==
    ASSUME ServiceInv, DeliveryInv, [ServiceNext]_allVars, [Next]_vars,
           NEW c \in Calls, NEW q \in Entry, NEW m \in MsgIds, DeliverCopy(c),
           Turn(c, q), Fresh(m), m \notin Live, m \in Live', message'[m].sender = call[c].user,
           call[c].op = "reply" => message'[m].thread_id = call[c].thread,
           Distribute(m, call[c].user, q[2]), Serve(c, q, m, AfterDelivery(c))
    PROVE  Delivers(c)'
<1>1. Mails(c) /\ call[c].step = "deliver" /\ call[c] # Null
  BY CopyMade DEF Mails
<1>2. OwnSteps(c) /\ LastCopy(c) /\ Belongs(c) /\ FilesSaved(c) /\ InThreads(c)
  BY <1>1 DEF DeliveryInv, Delivers
<1>3. /\ call'[c].op = call[c].op /\ call'[c].user = call[c].user
      /\ call'[c].receivers = call[c].receivers /\ call'[c].files = call[c].files
      /\ call'[c].to = call[c].to \ {q} /\ call'[c].msg = m
      /\ call'[c].copies = call[c].copies \cup {<<q, m>>}
      /\ call'[c].left = call[c].files /\ call'[c].step = AfterDelivery(c)
  BY <1>1, ServeFields DEF ServiceInv
<1>4. AfterDelivery(c) \in {"thread", "file"}
  BY DEF AfterDelivery
<1>5. Made(c)' = Made(c) \cup {m}
  <2>1. <<q, m>>[2] = m
    OBVIOUS
  <2>2. \A x \in MsgIds : (\E e \in call'[c].copies : e[2] = x)
                           <=> (\E e \in call[c].copies : e[2] = x) \/ x = m
    BY <1>3, <2>1
  <2>. QED
    BY <2>2 DEF Made
<1>6. m \notin Made(c)
  BY <1>1 DEF Fresh, Made
<1>7. ASSUME NEW e \in call[c].copies
      PROVE  /\ e[2] \in Live' /\ message'[e[2]].sender = call'[c].user
             /\ <<e[1][2], e[2]>> \in bond' /\ Placed(c, e)'
             /\ HasThread(c, e) => HasThread(c, e)'
  BY <1>1, <1>3, CopyStays, CopyKept
<1>. DEFINE new == <<q, m>>
<1>8. new[1] = q /\ new[2] = m /\ (\A e \in call'[c].copies : e = new \/ e \in call[c].copies)
  BY <1>3
<1>. HIDE DEF new
<1>13. folder' = folder
  BY DEF Distribute
<1>14. Belongs(c)'
  <2>1. <<q[2], m>> \in bond'
    BY DEF Distribute
  <2>2. Rows(m, OfType(q[2], "inbox") \cup OfType(call[c].user, "sent")) \subseteq fpm'
    BY DEF Distribute, Rows
  <2>3. \A p, t : OfType(p, t)' = OfType(p, t)
    BY <1>13 DEF OfType, FoldersOf, Folders
  <2>4. Placed(c, new)'
    BY <1>3, <1>8, <2>2, <2>3 DEF Placed, Rows
  <2>. QED
    BY <1>3, <1>7, <1>8, <2>1, <2>4 DEF Belongs
<1>9. OwnSteps(c)' /\ LastCopy(c)'
  BY <1>3, <1>4, <1>5 DEF OwnSteps, LastCopy
<1>10. FilesSaved(c)'
  <2>1. call[c].left = 0 /\ \A x \in Made(c) : file[x] + FilesLeft(c, x) = call[c].files
    BY <1>1, <1>2 DEF FilesSaved
  <2>2. ASSUME NEW x \in Made(c)
        PROVE  file'[x] + FilesLeft(c, x)' = call'[c].files
    <3>1. file[x] \in Nat
      BY StoreAssumption DEF Made, ServiceInv, StoreInv, TypeOK
    <3>2. FilesLeft(c, x) = 0 /\ FilesLeft(c, x)' = 0
      BY <1>3, <1>6, <2>1 DEF FilesLeft
    <3>3. file[x] + 0 = call[c].files
      BY <2>1, <3>2
    <3>4. file'[x] = file[x]
      BY DEF Distribute
    <3>. QED
      BY <1>3, <3>2, <3>3, <3>4
  <2>3. file'[m] + FilesLeft(c, m)' = call'[c].files
    <3>1. file'[m] = 0
      BY DEF Distribute, ServiceInv, StoreInv, NoDanglingReference
    <3>2. FilesLeft(c, m)' = call[c].files
      BY <1>3 DEF FilesLeft
    <3>3. call[c].files \in Nat
      BY <1>1, CallTyped, StoreAssumption DEF Call
    <3>. QED
      BY <1>3, <3>1, <3>2, <3>3
  <2>. QED
    BY <1>3, <1>4, <1>5, <2>2, <2>3 DEF FilesSaved
<1>11. HasThread(c, new)' \/ Threading(c, new)'
  <2>1. CASE call[c].op = "reply"
    <3>1. call[c].thread # Null
      BY <1>1, <2>1 DEF ServiceInv, Ready
    <3>. QED
      BY <1>8, <2>1, <3>1 DEF HasThread
  <2>2. CASE call[c].op = "send" /\ call[c].msg = Null
    BY <1>3, <1>8, <2>2 DEF AfterDelivery, Threading
  <2>3. CASE call[c].op = "send" /\ call[c].msg # Null
    <3>1. PICK e \in call[c].copies : TRUE
      BY <1>2, <2>3 DEF LastCopy
    <3>2. InOrder(c) /\ Served(c) /\ call[c] \in Call
      BY <1>1, CallTyped DEF ServiceInv
    <3>3. e[1] \in call[c].receivers \ call[c].to /\ q \in call[c].to
      BY <3>2 DEF Served, Turn
    <3>4. e[1][1] < q[1] /\ e[1] \in Entry
      BY <3>2, <3>3 DEF InOrder, Call
    <3>5. e[1][1] \in 1 .. MaxReceivers /\ q[1] \in 1 .. MaxReceivers
      BY <3>4 DEF Entry
    <3>6. q[1] # 1
      BY <3>4, <3>5, ServiceAssumption
    <3>. QED
      BY <1>3, <1>8, <2>3, <3>6 DEF HasThread
  <2>. QED
    BY <1>1, <2>1, <2>2, <2>3 DEF Mails
<1>12. InThreads(c)'
  <2>1. \A e \in call[c].copies : HasThread(c, e)
    BY <1>1, <1>2 DEF InThreads, Threading
  <2>. QED
    BY <1>7, <1>8, <1>11, <2>1 DEF InThreads
<1>. QED
  BY <1>9, <1>10, <1>12, <1>14 DEF Delivers

\* A request keeps its copies, or begins without any.
Continues(d) ==
    /\ Mails(d) => Mails(d)' /\ call'[d].copies = call[d].copies
    /\ Mails(d)' /\ ~Mails(d) => call'[d].copies = {}

LEMMA MailSame ==
    ASSUME \A d \in Calls : Continues(d)
    PROVE  Mail' = Mail
<1>1. ASSUME NEW d \in Calls, NEW m \in MsgIds
      PROVE  (Mails(d) /\ m \in Made(d))' <=> Mails(d) /\ m \in Made(d)
  <2>1. CASE Mails(d)
    BY <2>1 DEF Continues, Made
  <2>2. CASE ~Mails(d)
    BY <2>2 DEF Continues, Made
  <2>. QED
    BY <2>1, <2>2
<1>. QED
  BY <1>1 DEF Mail

\* The steps that deliver nothing keep the invariant,
LEMMA KeptWithoutDelivering ==
    ASSUME ServiceInv, DeliveryInv, [ServiceNext]_allVars, \A c \in Calls : ~DeliverCopy(c),
           \A d \in Calls : Continues(d) /\ (Mails(d)' => Delivers(d)'),
           \A d \in Calls : call'[d] # Null /\ ~Mails(d)' => call'[d].msg \notin Mail
    PROVE  DeliveryInv'
<1>1. Mail' = Mail
  BY MailSame
<1>2. NeverDraft'
  BY <1>1, MailStaysOut DEF NeverDraft
<1>3. OthersApart'
  BY <1>1 DEF OthersApart
<1>. QED
  BY <1>2, <1>3 DEF DeliveryInv

\* and so does DeliverCopy.
LEMMA KeptByDelivering ==
    ASSUME ServiceInv, DeliveryInv, [ServiceNext]_allVars, [Next]_vars,
           NEW c \in Calls, DeliverCopy(c)
    PROVE  DeliveryInv'
<1>1. Mails(c) /\ call[c] # Null /\ ServiceTypeOK /\ ~(\E d \in Calls : StoreFile(d) /\ d # c)
  <2>1. Mails(c) /\ call[c] # Null
    BY CopyMade DEF Mails
  <2>2. ASSUME NEW d \in Calls, StoreFile(d) PROVE FALSE
    <3>1. file' = file /\ call[d].msg \in Live /\ file' = [file EXCEPT ![call[d].msg] = @ + 1]
      BY <2>2, CopyMade DEF StoreFile, SaveFile, Distribute
    <3>2. file[call[d].msg] \in Nat /\ file'[call[d].msg] = file[call[d].msg] + 1
      BY <3>1, StoreAssumption DEF Live, ServiceInv, StoreInv, TypeOK
    <3>. QED
      BY <3>1, <3>2
  <2>. QED
    BY <2>1, <2>2 DEF ServiceInv
<1>2. PICK q \in Entry, m \in MsgIds :
         /\ Turn(c, q) /\ Fresh(m) /\ m \notin Live /\ m \in Live'
         /\ message'[m].sender = call[c].user
         /\ call[c].op = "reply" => message'[m].thread_id = call[c].thread
         /\ Distribute(m, call[c].user, q[2])
         /\ Serve(c, q, m, AfterDelivery(c))
  BY CopyMade
<1>3. Delivers(c)'
  BY <1>2, CopyDelivers
<1>4. /\ \A d \in Calls \ {c} : call'[d] = call[d]
      /\ call'[c].op = call[c].op /\ call'[c].copies = call[c].copies \cup {<<q, m>>}
  BY <1>1, <1>2, ServeFields
<1>5. \A d \in Calls \ {c} : Mails(d)' => Mails(d) /\ Delivers(d)'
  BY <1>1, <1>4, BystanderDelivers DEF Mails
<1>6. Mail' \subseteq Mail \cup {m}
  <2>1. ASSUME NEW x \in MsgIds, NEW d \in Calls, Mails(d)', x \in Made(d)'
        PROVE  x \in Mail \cup {m}
    <3>1. CASE d = c
      <4>1. PICK e \in call'[c].copies : e[2] = x
        BY <2>1, <3>1 DEF Made
      <4>2. e = <<q, m>> => x = m
        BY <4>1
      <4>3. e \in call[c].copies => x \in Made(c)
        BY <4>1 DEF Made
      <4>. QED
        BY <1>1, <1>4, <4>1, <4>2, <4>3, MadeIsMail
    <3>2. CASE d # c
      <4>1. Mails(d) /\ x \in Made(d)
        BY <1>4, <1>5, <2>1, <3>2 DEF Made
      <4>. QED
        BY <4>1, MadeIsMail
    <3>. QED
      BY <3>1, <3>2
  <2>. QED
    BY <2>1 DEF Mail
<1>7. NeverDraft'
  <2>1. ASSUME NEW e \in fpm', e[1] \in Mail'
        PROVE  folder'[e[2]].type # "draft"
    <3>1. CASE e \in fpm
      <4>1. e[1] \in Live
        BY <3>1 DEF ServiceInv, StoreInv, NoDanglingReference
      <4>2. e[1] \in Mail
        BY <1>2, <1>6, <2>1, <4>1
      <4>. QED
        BY <1>2, <3>1, <4>2 DEF DeliveryInv, NeverDraft, Distribute
    <3>2. CASE e \in {m} \X (OfType(q[2], "inbox") \cup OfType(call[c].user, "sent"))
      <4>1. folder[e[2]].type \in {"inbox", "sent"}
        BY <3>2 DEF OfType
      <4>. QED
        BY <1>2, <4>1 DEF Distribute
    <3>. QED
      BY <1>2, <2>1, <3>1, <3>2 DEF Distribute
  <2>. QED
    BY <2>1 DEF NeverDraft
<1>8. OthersApart'
  <2>1. ASSUME NEW d \in Calls, call'[d] # Null, ~Mails(d)'
        PROVE  call'[d].msg \notin Mail'
    <3>1. d # c
      <4>1. call'[c] # Null => Mails(c)'
        BY <1>1, <1>4 DEF Mails
      <4>. QED
        BY <2>1, <4>1
    <3>2. call'[d] = call[d] /\ ~Mails(d) /\ call[d] # Null
      BY <1>4, <2>1, <3>1 DEF Mails
    <3>3. call[d].msg \notin Mail
      BY <3>2 DEF DeliveryInv, OthersApart
    <3>4. call[d].msg # m
      <4>1. WasMade(call[d].msg)
        BY <3>2 DEF ServiceInv, Owned
      <4>2. m \notin Used /\ m # Null
        BY <1>2, StoreAssumption DEF Fresh, Used
      <4>. QED
        BY <4>1, <4>2 DEF WasMade
    <3>. QED
      BY <1>6, <3>2, <3>3, <3>4
  <2>. QED
    BY <2>1 DEF OthersApart
<1>9. \A d \in Calls : Mails(d)' => Delivers(d)'
  BY <1>3, <1>5
<1>. QED
  BY <1>7, <1>8, <1>9 DEF DeliveryInv

LEMMA Unstirred ==
    ASSUME ServiceTypeOK, NEW d \in Calls, call'[d] = call[d]
    PROVE  ~StoreFile(d)
<1>. SUFFICES ASSUME StoreFile(d) PROVE FALSE
  OBVIOUS
<1>1. call'[d].left = call[d].left - 1
  BY StoreFileTurns DEF Turns
<1>2. call[d].left \in Nat
  BY StoreAssumption DEF StoreFile, At, ServiceTypeOK, Call
<1>. QED
  BY <1>1, <1>2

LEMMA DeliveryStep ==
    ASSUME ServiceInv, DeliveryInv, [ServiceNext]_allVars, "draft" \in MovableTypes
    PROVE  DeliveryInv'
<1>1. [Next]_vars /\ ServiceTypeOK
  BY StepIsOperation DEF ServiceInv
<1>2. CASE \E c \in Calls : DeliverCopy(c)
  BY <1>1, <1>2, KeptByDelivering
<1>3. ASSUME NEW d \in Calls, call'[d] = call[d]
      PROVE  /\ Continues(d) /\ (Mails(d)' => Delivers(d)')
             /\ call'[d] # Null /\ ~Mails(d)' => call'[d].msg \notin Mail
  <2>1. Mails(d)' <=> Mails(d)
    BY <1>3 DEF Mails
  <2>2. Mails(d)' => Delivers(d)'
    BY <1>1, <1>3, <2>1, Unstirred, BystanderDelivers
  <2>3. call'[d] # Null /\ ~Mails(d)' => call'[d].msg \notin Mail
    BY <1>3, <2>1 DEF DeliveryInv, OthersApart
  <2>. QED
    BY <1>3, <2>1, <2>2, <2>3 DEF Continues
<1>4. ASSUME \A c \in Calls : ~DeliverCopy(c), NEW c \in Calls,
             \A d \in Calls \ {c} : call'[d] = call[d],
             Continues(c), Mails(c)' => Delivers(c)',
             call'[c] # Null /\ ~Mails(c)' => call'[c].msg \notin Mail
      PROVE  DeliveryInv'
  <2>1. \A d \in Calls : /\ Continues(d) /\ (Mails(d)' => Delivers(d)')
                         /\ call'[d] # Null /\ ~Mails(d)' => call'[d].msg \notin Mail
    BY <1>3, <1>4
  <2>. QED
    BY <1>4, <2>1, KeptWithoutDelivering
<1>5. CASE call' = call
  <2>1. \A c \in Calls : ~DeliverCopy(c)
    <3>1. ASSUME NEW c \in Calls, DeliverCopy(c) PROVE FALSE
      <4>1. call[c] # Null /\ call[c].step = "deliver"
        BY <3>1, CopyMade DEF Mails
      <4>2. PICK q, m : Serve(c, q, m, AfterDelivery(c))
        BY <3>1, CopyMade
      <4>3. call'[c].step = AfterDelivery(c)
        BY <1>1, <4>1, <4>2, ServeFields
      <4>. QED
        BY <1>5, <4>1, <4>3 DEF AfterDelivery
    <3>. QED
      BY <3>1
  <2>2. \A d \in Calls : /\ Continues(d) /\ (Mails(d)' => Delivers(d)')
                         /\ call'[d] # Null /\ ~Mails(d)' => call'[d].msg \notin Mail
    BY <1>3, <1>5
  <2>. QED
    BY <2>1, <2>2, KeptWithoutDelivering
<1>6. Null \notin Mail
  BY StoreAssumption DEF Mail
<1>7. ASSUME \A c \in Calls : ~DeliverCopy(c), NEW c \in Calls, Receive(c)
      PROVE  DeliveryInv'
  <2>1. /\ call[c] = Null /\ \A d \in Calls \ {c} : call'[d] = call[d]
        /\ call'[c].copies = {} /\ call'[c].msg = Null
    BY <1>7, Begins
  <2>2. Continues(c)
    BY <2>1 DEF Continues, Mails
  <2>3. Mails(c)' => Delivers(c)'
    BY <1>7, ReceiveDelivers
  <2>. QED
    BY <1>4, <1>6, <1>7, <2>1, <2>2, <2>3
<1>8. ASSUME \A c \in Calls : ~DeliverCopy(c), NEW c \in Calls, Quiet(c)
      PROVE  DeliveryInv'
  <2>1. /\ call[c] # Null /\ \A d \in Calls \ {c} : call'[d] = call[d]
        /\ call'[c].op = call[c].op /\ call'[c].msg = call[c].msg
        /\ call'[c].copies = call[c].copies
    BY <1>1, <1>8, QuietKeeps
  <2>2. call'[c] # Null
    BY <1>8, QuietReady, ServiceAssumption
  <2>3. (Mails(c)' <=> Mails(c)) /\ Continues(c)
    BY <2>1, <2>2 DEF Continues, Mails
  <2>4. Mails(c)' => Delivers(c)'
    BY <1>1, <1>8, <2>3, QuietDelivers
  <2>5. ~Mails(c)' => call'[c].msg \notin Mail
    BY <2>1, <2>3 DEF DeliveryInv, OthersApart
  <2>. QED
    BY <1>4, <1>8, <2>1, <2>3, <2>4, <2>5
<1>9. ASSUME \A c \in Calls : ~DeliverCopy(c), NEW c \in Calls,
             SaveDraftAgain(c) \/ SaveNothing(c)
      PROVE  DeliveryInv'
  <2>1. /\ call[c] # Null /\ Resaving(c) /\ \A d \in Calls \ {c} : call'[d] = call[d]
        /\ call'[c].op = call[c].op
        /\ call'[c].msg \in {call[c].root, Null} /\ (SaveDraftAgain(c) \/ call'[c].msg = Null)
    BY <1>9, Resaves
  <2>2. ~Mails(c) /\ ~Mails(c)'
    BY <2>1 DEF Mails, Resaving
  <2>3. SaveDraftAgain(c) => call[c].root \notin Mail
    <3>1. SaveDraftAgain(c) => IsDraftBelongsToUser(call[c].user, call[c].root)
      BY DEF SaveDraftAgain, SaveExistingDraft
    <3>. QED
      BY <3>1 DEF IsDraftBelongsToUser, In, OfType, DeliveryInv, NeverDraft
  <2>. QED
    BY <1>4, <1>6, <1>9, <2>1, <2>2, <2>3 DEF Continues
<1>10. ASSUME \A c \in Calls : ~DeliverCopy(c), NEW c \in Calls, SaveDraft(c)
       PROVE  DeliveryInv'
  <2>1. call[c] # Null /\ call[c].op = "draft"
    BY <1>10 DEF SaveDraft, At, ServiceInv, Ready
  <2>2. PICK q, m, s : Fresh(m) /\ Serve(c, q, m, s)
    BY <1>10 DEF SaveDraft
  <2>3. /\ \A d \in Calls \ {c} : call'[d] = call[d]
        /\ call'[c].op = call[c].op /\ call'[c].msg = m
    BY <1>1, <2>1, <2>2, ServeFields
  <2>4. ~Mails(c) /\ ~Mails(c)'
    BY <2>1, <2>3 DEF Mails
  <2>5. m \notin Mail
    BY <2>2 DEF Fresh, Mail, Made, Mails
  <2>. QED
    BY <1>4, <1>10, <2>3, <2>4, <2>5 DEF Continues
<1>11. CASE \A c \in Calls : ~DeliverCopy(c)
  <2>1. \/ UNCHANGED allVars \/ OtherRequest
        \/ \E c \in Calls : \/ Receive(c) \/ Quiet(c) \/ SaveDraft(c)
                           \/ SaveDraftAgain(c) \/ SaveNothing(c)
    BY <1>11 DEF ServiceNext, Quiet, Loop
  <2>2. UNCHANGED allVars \/ OtherRequest => call' = call
    BY DEF allVars, OtherRequest
  <2>. QED
    BY <1>5, <1>7, <1>8, <1>9, <1>10, <1>11, <2>1, <2>2
<1>. QED
  BY <1>2, <1>11

LEMMA DeliveryStarts == ServiceInit => DeliveryInv
BY DEF ServiceInit, Init, DeliveryInv, NeverDraft, OthersApart, Mails

-----------------------------------------------------------------------------
(* The theorems.  SaveDraft files its new draft with MoveToFolder, which in    *)
(* MailStore is a step of clients that move messages into the draft folder.    *)

\* Whatever handlers interleave, and wherever a call fails, each step of a
\* handler is one operation of the store that a client could have asked for, or
\* leaves the tables alone (grpc_service.go 119-557 and 902-1129 above
\* message-repository.go).
THEOREM ServiceImplementsStore ==
    ASSUME "draft" \in MovableTypes
    PROVE  ServiceSpec => ImplementsStore
<1>1. ServiceInv /\ [ServiceNext]_allVars => [Next]_vars
  BY StepIsOperation
<1>2. ServiceInit => Init
  BY DEF ServiceInit
<1>. QED
  BY <1>1, <1>2, ServiceInvariant, PTL DEF ServiceSpec, ImplementsStore, Spec

\* The handlers' local variables keep their types, the counter of the files still
\* to save in particular.
THEOREM ServiceTypeCorrect ==
    ASSUME "draft" \in MovableTypes
    PROVE  ServiceSpec => []ServiceTypeOK
<1>1. ServiceInv => ServiceTypeOK
  BY DEF ServiceInv
<1>. QED
  BY <1>1, ServiceInvariant, PTL

LEMMA DeliveryInvariant ==
    ASSUME "draft" \in MovableTypes
    PROVE  ServiceSpec => [](ServiceInv /\ DeliveryInv)
<1>1. ServiceInv /\ DeliveryInv /\ [ServiceNext]_allVars => DeliveryInv'
  BY DeliveryStep
<1>. QED
  BY <1>1, DeliveryStarts, ServiceInvariant, PTL DEF ServiceSpec

\* A copy is complete but for the files and the thread its request is still at.
LEMMA CompleteBut ==
    ASSUME ServiceInv, DeliveryInv, NEW c \in Calls, Mails(c), NEW e \in call[c].copies,
           FilesLeft(c, e[2]) = 0, ~Threading(c, e)
    PROVE  Complete(c, e)
<1>1. Belongs(c) /\ FilesSaved(c) /\ InThreads(c)
  BY DEF DeliveryInv, Delivers
<1>2. e[2] \in Live /\ message[e[2]].sender = call[c].user
      /\ <<e[1][2], e[2]>> \in bond /\ Placed(c, e)
  BY <1>1 DEF Belongs
<1>3. e[2] \in Made(c)
  BY <1>2 DEF Made, Live
<1>4. file[e[2]] + 0 = call[c].files
  BY <1>1, <1>3 DEF FilesSaved
<1>5. file[e[2]] \in Nat
  BY <1>2, StoreAssumption DEF Live, ServiceInv, StoreInv, TypeOK
<1>6. file[e[2]] = call[c].files
  BY <1>4, <1>5
<1>7. HasThread(c, e)
  BY <1>1 DEF InThreads
<1>. QED
  BY <1>2, <1>6, <1>7 DEF Complete, Placed, HasThread

\* However requests interleave, and wherever one fails: the receivers it has
\* passed have one copy each, and the others none; no address has two copies of a
\* send or reply, and all copies but the last are complete (grpc_service.go
\* 199-330, 435-557 and 902-991).
THEOREM ServedInFullHolds ==
    ASSUME "draft" \in MovableTypes
    PROVE  ServiceSpec => []ServedInFull
<1>1. ASSUME ServiceInv, DeliveryInv, NEW c \in Calls, call[c] # Null
      PROVE  /\ \A q \in call[c].receivers :
                  Cardinality({e \in call[c].copies : e[1] = q}) =
                      IF q \in call[c].to \/ (call[c].op = "draft" /\ call[c].root # Null)
                      THEN 0 ELSE 1
             /\ Mails(c) => \A e, g \in call[c].copies :
                  /\ e[1][2] = g[1][2] => e = g
                  /\ e[2] # call[c].msg => Complete(c, e)
  <2>1. InOrder(c) /\ Served(c) /\ call[c] \in Call
    BY <1>1, CallTyped DEF ServiceInv
  <2>2. \A e \in call[c].copies : e = <<e[1], e[2]>>
    BY <2>1 DEF Call
  <2>3. ASSUME NEW e \in call[c].copies, NEW g \in call[c].copies, e[1] = g[1]
        PROVE  e = g
    <3>1. e[2] = g[2]
      BY <1>1, <2>3 DEF ServiceInv, CopiesApart
    <3>2. e = <<e[1], e[2]>> /\ g = <<g[1], g[2]>>
      BY <2>2
    <3>. QED
      BY <2>3, <3>1, <3>2
  <2>4. ASSUME NEW q \in call[c].receivers
        PROVE  Cardinality({e \in call[c].copies : e[1] = q}) =
                   IF q \in call[c].to \/ (call[c].op = "draft" /\ call[c].root # Null)
                   THEN 0 ELSE 1
    <3>. DEFINE its == {e \in call[c].copies : e[1] = q}
    <3>1. CASE q \in call[c].to \/ Resaving(c)
      <4>1. its = {}
        BY <2>1, <3>1 DEF Served
      <4>. QED
        BY <3>1, <4>1, FS_EmptySet DEF Resaving
    <3>2. CASE q \notin call[c].to /\ ~Resaving(c)
      <4>1. PICK e \in call[c].copies : e[1] = q
        BY <2>1, <3>2 DEF Served
      <4>2. its = {e}
        BY <2>3, <4>1
      <4>3. Cardinality({e}) = 1
        BY FS_Singleton
      <4>. QED
        BY <3>2, <4>2, <4>3 DEF Resaving
    <3>. QED
      BY <3>1, <3>2
  <2>5. ASSUME Mails(c), NEW e \in call[c].copies, NEW g \in call[c].copies,
               e[1][2] = g[1][2]
        PROVE  e = g
    <3>1. e[1] \in call[c].receivers /\ g[1] \in call[c].receivers
      BY <2>1 DEF Served
    <3>2. e[1] = g[1]
      BY <2>1, <2>5, <3>1 DEF InOrder, NoReceiverTwice, Mails
    <3>. QED
      BY <2>3, <3>2
  <2>6. ASSUME Mails(c), NEW e \in call[c].copies, e[2] # call[c].msg
        PROVE  Complete(c, e)
    BY <1>1, <2>6, CompleteBut DEF FilesLeft, Threading
  <2>. QED
    BY <2>4, <2>5, <2>6
<1>2. ServiceInv /\ DeliveryInv => ServedInFull
  BY <1>1 DEF ServedInFull
<1>. QED
  BY <1>2, DeliveryInvariant, PTL

\* When a send or a reply is answered without error, every receiver has a complete
\* copy: the caller's message in the receiver's inbox and the caller's sent folder,
\* with all files, in a thread if it is a reply or the first; and so it stays,
\* whatever drafts other requests save, send and delete (grpc_service.go 199-330,
\* 386-433 and 902-1129).
THEOREM OkMeansDeliveredHolds ==
    ASSUME "draft" \in MovableTypes
    PROVE  ServiceSpec => []OkMeansDelivered
<1>1. ASSUME ServiceInv, DeliveryInv, NEW c \in Calls, Mails(c), At(c, "ok"),
             NEW q \in call[c].receivers
      PROVE  \E e \in call[c].copies : e[1] = q /\ Complete(c, e)
  <2>1. OwnSteps(c) /\ FilesSaved(c) /\ Served(c) /\ call[c].step = "ok"
    BY <1>1 DEF DeliveryInv, Delivers, ServiceInv, At
  <2>2. call[c].to = {} /\ call[c].left = 0 /\ ~Resaving(c)
    BY <1>1, <2>1 DEF OwnSteps, FilesSaved, Resaving, Mails
  <2>3. PICK e \in call[c].copies : e[1] = q
    BY <2>1, <2>2 DEF Served
  <2>4. FilesLeft(c, e[2]) = 0 /\ ~Threading(c, e)
    BY <2>1, <2>2 DEF FilesLeft, Threading
  <2>. QED
    BY <1>1, <2>3, <2>4, CompleteBut
<1>2. ServiceInv /\ DeliveryInv => OkMeansDelivered
  BY <1>1 DEF OkMeansDelivered
<1>. QED
  BY <1>2, DeliveryInvariant, PTL

=============================================================================
