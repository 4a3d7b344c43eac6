------------------------------ MODULE MCMailTx ------------------------------
(* MailTx on one message and one user's folders; the configurations choose  *)
(* the operations the requests may ask for.                                 *)
EXTENDS MailTx

CONSTANTS Ops

FirstUser == CHOOSE p \in Users : TRUE

OneOwner == [f \in CustomIds |-> FirstUser]

OneAuthor == [m \in MsgIds |-> FirstUser]

\* Folders that op distinguishes; other operations ignore the field.
FoldersFor(op) ==
    CASE op = "move" -> {<<FirstUser, "inbox">>, <<FirstUser, "draft">>} \cup CustomIds
      [] op = "take" -> {<<FirstUser, "inbox">>} \cup CustomIds
      [] op = "drop" -> CustomIds
      [] OTHER -> {<<FirstUser, "inbox">>}

ChosenRequests ==
    UNION {[op : {o}, user : {FirstUser}, msg : MsgIds, folder : FoldersFor(o)] : o \in Ops}

\* Every message lies in one folder, or is a delivery of a user to himself.
AnyPlacement ==
    {{<<m, f[m]>> : m \in MsgIds} : f \in [MsgIds -> FolderIds]}
      \cup {MsgIds \X {<<FirstUser, "inbox">>, <<FirstUser, "sent">>}}

\* One at a time, and two at a time on as many connections or one more.
AnyLoad ==
    {[open |-> 1, pool |-> 2], [open |-> 2, pool |-> 2], [open |-> 2, pool |-> 3]}

TwoAtATime == {[open |-> 2, pool |-> 3]}

AllInbox == {MsgIds \X {<<FirstUser, "inbox">>}}

=============================================================================
