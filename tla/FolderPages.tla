----------------------------- MODULE FolderPages -----------------------------
(***************************************************************************)
(* Reading a folder page by page: the gateway's getFolderHandler, GetFolder *)
(* of the messages service and the two queries behind it, for one user and *)
(* one of his folders, while messages come, go, and the folder is deleted. *)
(*                                                                         *)
(* A client walks: it asks for the first page and, as long as an answer    *)
(* says has_next, for the page after the cursor of that answer.            *)
(***************************************************************************)
EXTENDS Integers, Sequences, FiniteSets, SequencesExt

CONSTANTS
    Messages,  \* ids
    Readers,   \* how many users may have a profile_message row for a message
    MaxTime,   \* bound of the clock
    Second,    \* clock ticks in a second
    Limit      \* page size

ASSUME PagesAssumption ==
    /\ Messages \subseteq Nat \ {0} /\ IsFiniteSet(Messages)
    /\ Readers \subseteq Nat \ {0}
    /\ MaxTime \in Nat
    /\ Second \in Nat \ {0} /\ Limit \in Nat \ {0}

\* last_message_id of a request, and last_datetime in seconds.
Cursor == [id : Nat, seconds : Nat]

VARIABLES
    now,      \* when the last message was sent
    date,     \* date_of_dispatch of a message, -1 before there is one
    bonds,    \* how many profile_message rows a message has
    folder,   \* "there", or "gone" once it is deleted
    inside,   \* the messages in the folder
    walk,     \* the client: "idle", "asking", "resolved", "paged", "over", "failed"
    cursor,   \* of the next request
    more,     \* has_next of the last answer
    page,     \* the messages of the last answer, or of the one being made
    before,   \* history: the messages of the pages before it
    seams,    \* history: the second of each page's last row
    stayed    \* history: messages that were in the folder during all the walk

mailbox == <<date, bonds, folder, inside>>
client == <<walk, cursor, more, page, before, seams>>
vars == <<now, mailbox, client, stayed>>

-----------------------------------------------------------------------------

Known == {m \in Messages : date[m] >= 0}

\* Seeded fault: ordered by id alone.
AfterById(m, n) == m > n

\* (date_of_dispatch, id): later in time, then larger.
After(m, n) == date[m] > date[n] \/ (date[m] = date[n] /\ m > n)

FirstPage == [id |-> 0, seconds |-> 0]

\* Seeded fault: the row of the cursor is not left out.
BelowCursorOrAt(m) ==
    \/ cursor = FirstPage
    \/ date[m] < cursor.seconds * Second
    \/ date[m] = cursor.seconds * Second /\ m <= cursor.id
    \/ date[m] \div Second = cursor.seconds /\ m = cursor.id

\* (m.date_of_dispatch, m.id) < (to_timestamp($4), $3)
BelowCursor(m) ==
    \/ cursor = FirstPage
    \/ date[m] < cursor.seconds * Second
    \/ date[m] = cursor.seconds * Second /\ m < cursor.id

\* The query's first n rows, in order.  The join with profile_message does not
\* name the user, so that a message comes once for every user who has it.
Rows(n) ==
    LET picked == {m \in inside : BelowCursor(m)}
        Copies(rows, m) == Cardinality({i \in DOMAIN rows : rows[i] = m})
        Cut(rows, m) ==
            /\ Len(rows) = n /\ Copies(rows, m) < bonds[m]
            /\ m = rows[n] \/ After(rows[n], m)
    IN  {rows \in SeqOf(picked, n) :
            /\ \A i, j \in DOMAIN rows :
                  i < j => rows[i] = rows[j] \/ After(rows[i], rows[j])
            /\ \A m \in picked : Copies(rows, m) = bonds[m] \/ Cut(rows, m)}

\* Seeded fault: one row more, to see whether there is a next page, and kept.
FirstRowsAndOne == Rows(Limit + 1)

FirstRows == Rows(Limit)

-----------------------------------------------------------------------------
(* The client and the handler. *)

Open ==
    /\ walk = "idle"
    /\ walk' = "asking"
    /\ stayed' = inside
    /\ UNCHANGED <<now, mailbox, cursor, more, page, before, seams>>

\* GetFolders and resolveFolderID.
Resolve ==
    /\ walk = "asking"
    /\ walk' = IF folder = "there" THEN "resolved" ELSE "failed"
    /\ UNCHANGED <<now, mailbox, cursor, more, page, before, seams, stayed>>

\* The cursor is formatted in whole seconds.
NextCursor(rows) ==
    IF rows = <<>> THEN FirstPage
    ELSE [id |-> Last(rows), seconds |-> date[Last(rows)] \div Second]

\* GetFolder reads the page,
List ==
    /\ walk = "resolved"
    /\ walk' = "paged"
    /\ UNCHANGED <<now, mailbox, stayed>>
    /\ \E rows \in FirstRows :
           /\ more' = (Len(rows) = Limit)
           /\ cursor' = NextCursor(rows)
           /\ page' = ToSet(rows)
           /\ seams' = IF rows = <<>> THEN seams ELSE seams \cup {NextCursor(rows).seconds}
    /\ before' = before \cup page

\* and its counters, with a query whose results the walk does not depend on.
\* The client shows the answer and asks for the next page.
Answer ==
    /\ walk = "paged"
    /\ walk' = IF more THEN "asking" ELSE "over"
    /\ UNCHANGED <<now, mailbox, cursor, more, page, before, seams, stayed>>

\* A query fails.  GetFolders is answered with an error, GetFolder with an
\* empty page of an empty folder, which looks like the last one.
FailPage ==
    /\ walk \in {"asking", "resolved", "paged"}
    /\ walk' = "failed"
    /\ more' = FALSE
    /\ page' = IF walk = "paged" THEN {} ELSE page
    /\ UNCHANGED <<now, mailbox, cursor, before, seams, stayed>>

-----------------------------------------------------------------------------
(* Other requests. *)

\* Every message is dated by the server's clock when it is sent; one whose row
\* appears late comes in by MoveIn.
Deliver(m) ==
    /\ m \notin Known /\ folder = "there"
    /\ \E d \in now .. MaxTime, n \in Readers :
         /\ now' = d
         /\ date' = [date EXCEPT ![m] = d]
         /\ bonds' = [bonds EXCEPT ![m] = n]
    /\ inside' = inside \cup {m}
    /\ UNCHANGED <<folder, client, stayed>>

MoveOut(m) ==
    /\ m \in inside
    /\ inside' = inside \ {m}
    /\ stayed' = stayed \ {m}
    /\ UNCHANGED <<now, date, bonds, folder, client>>

MoveIn(m) ==
    /\ m \in Known \ inside /\ folder = "there"
    /\ inside' = inside \cup {m}
    /\ UNCHANGED <<now, date, bonds, folder, client, stayed>>

\* SendDraft dates a draft again, and takes it out of the draft folder.
Redate(m) ==
    /\ m \in Known
    /\ \E d \in now .. MaxTime :
         /\ now' = d
         /\ date' = [date EXCEPT ![m] = d]
    /\ inside' \in {inside, inside \ {m}}
    /\ stayed' = stayed \ {m}
    /\ UNCHANGED <<bonds, folder, client>>

DeleteFolder ==
    /\ folder = "there"
    /\ folder' = "gone"
    /\ inside' = {} /\ stayed' = {}
    /\ UNCHANGED <<now, date, bonds, client>>

-----------------------------------------------------------------------------

Init ==
    /\ now = 0
    /\ date = [m \in Messages |-> -1]
    /\ bonds = [m \in Messages |-> 0]
    /\ folder = "there"
    /\ inside = {}
    /\ walk = "idle"
    /\ cursor = FirstPage
    /\ more = FALSE
    /\ page = {} /\ before = {}
    /\ seams = {}
    /\ stayed = {}

Walk == Resolve \/ List \/ Answer

\* What other requests do after the walk is nobody's concern.
Walking == walk \notin {"over", "failed"}

Others ==
    /\ Walking
    /\ \/ DeleteFolder
       \/ \E m \in Messages : Deliver(m) \/ MoveOut(m) \/ MoveIn(m) \/ Redate(m)

Next == Open \/ Walk \/ FailPage \/ Others

Spec == Init /\ [][Next]_vars

\* The client asks on and every request is answered.
FairSpec == Spec /\ WF_vars(Walk)

-----------------------------------------------------------------------------

TypeOK ==
    /\ now \in 0 .. MaxTime
    /\ date \in [Messages -> -1 .. MaxTime]
    /\ bonds \in [Messages -> Readers \cup {0}]
    /\ folder \in {"there", "gone"}
    /\ inside \subseteq Known
    /\ walk \in {"idle", "asking", "resolved", "paged", "over", "failed"}
    /\ cursor \in Cursor
    /\ more \in BOOLEAN
    /\ page \cup before \subseteq Known
    /\ Cardinality(page) <= Limit
    /\ seams \subseteq Nat /\ stayed \subseteq inside

\* No message is shown on two pages of a walk, whatever arrives, leaves, comes
\* back or is dated again in between.  (On one page it may stand several times,
\* once for each of its readers.)
PagesDisjoint == page \cap before = {}

\* What a complete walk has skipped was sent in the second of a page's last
\* row: nothing is lost elsewhere, not even when the page is full of a
\* message's copies.
SkippedAtSeam ==
    walk = "over" =>
        \A m \in stayed \ (page \cup before) : date[m] \div Second \in seams

\* An earlier second, or the same one and a smaller id.
Earlier(c, d) ==
    c.seconds < d.seconds \/ (c.seconds = d.seconds /\ c.id < d.id)

\* Each answer that says has_next gives a cursor below the one it was asked
\* with, although the cursor is rounded, and although mail arrives, comes back
\* or is dated again: a client that asks on always gets further.
CursorDescends ==
    [][walk = "resolved" /\ walk' = "paged" /\ more'
          => cursor = FirstPage \/ Earlier(cursor', cursor)]_vars

\* A walk comes to an end, however much mail arrives meanwhile.
WalkEnds == walk = "asking" ~> walk \in {"over", "failed"}

\* A complete walk shows every message that was there all the time.
NoneSkipped ==
    walk = "over" => stayed \subseteq page \cup before

=============================================================================
