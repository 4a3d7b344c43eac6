----------------------------- MODULE MailTxProofs -----------------------------
(***************************************************************************)
(* Theorems about MailTx, for any number of requests, messages and folders *)
(* and any kinds of request.                                               *)
(***************************************************************************)
EXTENDS MailTx, FiniteSetTheorems, TLAPS

USE DEF rows, tables

-----------------------------------------------------------------------------
(* The scripts. *)

Ops == {"spam", "move", "take", "save", "delete", "send", "drop"}

Lines(op) == DOMAIN Script[op]

LEMMA Operations == DOMAIN Script = Ops
  BY DEF Script, Ops

LEMMA SpamLines == Lines("spam") = 1 .. 5
<1>1. Script["spam"] =
        <<"begin", "file in spam", "keys", "unfile elsewhere", "commit">>
  BY DEF Script
<1>2. DOMAIN <<"begin", "file in spam", "keys", "unfile elsewhere", "commit">>
        = 1 .. 5
  OBVIOUS
<1>. QED
  BY <1>1, <1>2, Zenon DEF Lines

LEMMA MoveLines == Lines("move") = 1 .. 5
<1>1. Script["move"] =
        <<"begin", "unfile everywhere", "file in target", "keys", "commit">>
  BY DEF Script
<1>2. DOMAIN <<"begin", "unfile everywhere", "file in target", "keys", "commit">>
        = 1 .. 5
  OBVIOUS
<1>. QED
  BY <1>1, <1>2, Zenon DEF Lines

LEMMA TakeLines == Lines("take") = 1 .. 3
<1>1. Script["take"] =
        <<"begin", "unfile target", "commit">>
  BY DEF Script
<1>2. DOMAIN <<"begin", "unfile target", "commit">>
        = 1 .. 3
  OBVIOUS
<1>. QED
  BY <1>1, <1>2, Zenon DEF Lines

LEMMA SaveLines == Lines("save") = 1 .. 5
<1>1. Script["save"] =
        <<"begin", "check draft", "stamp", "bond", "commit">>
  BY DEF Script
<1>2. DOMAIN <<"begin", "check draft", "stamp", "bond", "commit">>
        = 1 .. 5
  OBVIOUS
<1>. QED
  BY <1>1, <1>2, Zenon DEF Lines

LEMMA DeleteLines == Lines("delete") = 1 .. 7
<1>1. Script["delete"] =
        <<"check draft", "begin", "check draft", "unfile everywhere", "delete message",
          "cascade message", "commit">>
  BY DEF Script
<1>2. DOMAIN <<"check draft", "begin", "check draft", "unfile everywhere", "delete message",
          "cascade message", "commit">>
        = 1 .. 7
  OBVIOUS
<1>. QED
  BY <1>1, <1>2, Zenon DEF Lines

LEMMA SendLines == Lines("send") = 1 .. 10
<1>1. Script["send"] =
        <<"check draft", "begin", "find", "stamp", "unfile draft", "file in sent",
          "keys", "file in inbox", "keys", "commit">>
  BY DEF Script
<1>2. DOMAIN <<"check draft", "begin", "find", "stamp", "unfile draft", "file in sent",
          "keys", "file in inbox", "keys", "commit">>
        = 1 .. 10
  OBVIOUS
<1>. QED
  BY <1>1, <1>2, Zenon DEF Lines

LEMMA DropLines == Lines("drop") = 1 .. 8
<1>1. Script["drop"] =
        <<"begin", "check folder", "file in trash", "keys", "empty folder",
          "delete folder", "cascade folder", "commit">>
  BY DEF Script
<1>2. DOMAIN <<"begin", "check folder", "file in trash", "keys", "empty folder",
          "delete folder", "cascade folder", "commit">>
        = 1 .. 8
  OBVIOUS
<1>. QED
  BY <1>1, <1>2, Zenon DEF Lines

LEMMA SpamScript ==
    /\ Script["spam"][1] = "begin" /\ Script["spam"][2] = "file in spam"
    /\ Script["spam"][3] = "keys" /\ Script["spam"][4] = "unfile elsewhere"
    /\ Script["spam"][5] = "commit"
  BY DEF Script

LEMMA MoveScript ==
    /\ Script["move"][1] = "begin" /\ Script["move"][2] = "unfile everywhere"
    /\ Script["move"][3] = "file in target" /\ Script["move"][4] = "keys"
    /\ Script["move"][5] = "commit"
  BY DEF Script

LEMMA TakeScript ==
    /\ Script["take"][1] = "begin" /\ Script["take"][2] = "unfile target"
    /\ Script["take"][3] = "commit"
  BY DEF Script

LEMMA SaveScript ==
    /\ Script["save"][1] = "begin" /\ Script["save"][2] = "check draft"
    /\ Script["save"][3] = "stamp" /\ Script["save"][4] = "bond"
    /\ Script["save"][5] = "commit"
  BY DEF Script

LEMMA DeleteScript ==
    /\ Script["delete"][1] = "check draft" /\ Script["delete"][2] = "begin"
    /\ Script["delete"][3] = "check draft" /\ Script["delete"][4] = "unfile everywhere"
    /\ Script["delete"][5] = "delete message" /\ Script["delete"][6] = "cascade message"
    /\ Script["delete"][7] = "commit"
  BY DEF Script

LEMMA SendScript ==
    /\ Script["send"][1] = "check draft" /\ Script["send"][2] = "begin"
    /\ Script["send"][3] = "find" /\ Script["send"][4] = "stamp"
    /\ Script["send"][5] = "unfile draft" /\ Script["send"][6] = "file in sent"
    /\ Script["send"][7] = "keys" /\ Script["send"][8] = "file in inbox"
    /\ Script["send"][9] = "keys" /\ Script["send"][10] = "commit"
  BY DEF Script

LEMMA DropScript ==
    /\ Script["drop"][1] = "begin" /\ Script["drop"][2] = "check folder"
    /\ Script["drop"][3] = "file in trash" /\ Script["drop"][4] = "keys"
    /\ Script["drop"][5] = "empty folder" /\ Script["drop"][6] = "delete folder"
    /\ Script["drop"][7] = "cascade folder" /\ Script["drop"][8] = "commit"
  BY DEF Script

\* What the statements before op's next one are: the keys of an INSERT are checked
\* and the placements of a deleted row are deleted right after it.
After(op, i) ==
    LET this == Script[op][i]
        next == Script[op][i + 1]
    IN  this # "commit" =>
           /\ this \in Adding => next = "keys"
           /\ this = "delete message" <=> op = "delete" /\ next = "cascade message"
           /\ this = "delete folder" <=> op = "drop" /\ next = "cascade folder"
           /\ this = "cascade message" <=> op = "delete" /\ next = "commit"
           /\ this = "cascade folder" <=> op = "drop" /\ next = "commit"

LEMMA Following ==
    ASSUME NEW op \in Ops, NEW i \in Lines(op)
    PROVE  /\ i \in 1 .. 10 /\ 1 \in Lines(op)
           /\ Script[op][i] # "commit" => i + 1 \in Lines(op)
           /\ After(op, i)
<1>1. CASE op = "spam"
  <2>1. Lines(op) = 1 .. 5
    BY <1>1, SpamLines
  <2>2. \/ i = 1 /\ i + 1 = 2
        \/ i = 2 /\ i + 1 = 3
        \/ i = 3 /\ i + 1 = 4
        \/ i = 4 /\ i + 1 = 5
        \/ i = 5 /\ i + 1 = 6
    BY <2>1
  <2>3. i \in 1 .. 10 /\ 1 \in Lines(op)
    BY <2>1
  <2>4. Script[op][i] # "commit" => i # 5
    BY <1>1, SpamScript
  <2>5. i # 5 => i + 1 \in Lines(op)
    BY <2>1
  <2>6. After(op, i)
    BY <1>1, <2>2, <2>4, SpamScript DEF Adding, After
  <2>. QED
    BY <2>3, <2>4, <2>5, <2>6
<1>2. CASE op = "move"
  <2>1. Lines(op) = 1 .. 5
    BY <1>2, MoveLines
  <2>2. \/ i = 1 /\ i + 1 = 2
        \/ i = 2 /\ i + 1 = 3
        \/ i = 3 /\ i + 1 = 4
        \/ i = 4 /\ i + 1 = 5
        \/ i = 5 /\ i + 1 = 6
    BY <2>1
  <2>3. i \in 1 .. 10 /\ 1 \in Lines(op)
    BY <2>1
  <2>4. Script[op][i] # "commit" => i # 5
    BY <1>2, MoveScript
  <2>5. i # 5 => i + 1 \in Lines(op)
    BY <2>1
  <2>6. After(op, i)
    BY <1>2, <2>2, <2>4, MoveScript DEF Adding, After
  <2>. QED
    BY <2>3, <2>4, <2>5, <2>6
<1>3. CASE op = "take"
  <2>1. Lines(op) = 1 .. 3
    BY <1>3, TakeLines
  <2>2. \/ i = 1 /\ i + 1 = 2
        \/ i = 2 /\ i + 1 = 3
        \/ i = 3 /\ i + 1 = 4
    BY <2>1
  <2>3. i \in 1 .. 10 /\ 1 \in Lines(op)
    BY <2>1
  <2>4. Script[op][i] # "commit" => i # 3
    BY <1>3, TakeScript
  <2>5. i # 3 => i + 1 \in Lines(op)
    BY <2>1
  <2>6. After(op, i)
    BY <1>3, <2>2, <2>4, TakeScript DEF Adding, After
  <2>. QED
    BY <2>3, <2>4, <2>5, <2>6
<1>4. CASE op = "save"
  <2>1. Lines(op) = 1 .. 5
    BY <1>4, SaveLines
  <2>2. \/ i = 1 /\ i + 1 = 2
        \/ i = 2 /\ i + 1 = 3
        \/ i = 3 /\ i + 1 = 4
        \/ i = 4 /\ i + 1 = 5
        \/ i = 5 /\ i + 1 = 6
    BY <2>1
  <2>3. i \in 1 .. 10 /\ 1 \in Lines(op)
    BY <2>1
  <2>4. Script[op][i] # "commit" => i # 5
    BY <1>4, SaveScript
  <2>5. i # 5 => i + 1 \in Lines(op)
    BY <2>1
  <2>6. After(op, i)
    BY <1>4, <2>2, <2>4, SaveScript DEF Adding, After
  <2>. QED
    BY <2>3, <2>4, <2>5, <2>6
<1>5. CASE op = "delete"
  <2>1. Lines(op) = 1 .. 7
    BY <1>5, DeleteLines
  <2>2. \/ i = 1 /\ i + 1 = 2
        \/ i = 2 /\ i + 1 = 3
        \/ i = 3 /\ i + 1 = 4
        \/ i = 4 /\ i + 1 = 5
        \/ i = 5 /\ i + 1 = 6
        \/ i = 6 /\ i + 1 = 7
        \/ i = 7 /\ i + 1 = 8
    BY <2>1
  <2>3. i \in 1 .. 10 /\ 1 \in Lines(op)
    BY <2>1
  <2>4. Script[op][i] # "commit" => i # 7
    BY <1>5, DeleteScript
  <2>5. i # 7 => i + 1 \in Lines(op)
    BY <2>1
  <2>6. After(op, i)
    BY <1>5, <2>2, <2>4, DeleteScript DEF Adding, After
  <2>. QED
    BY <2>3, <2>4, <2>5, <2>6
<1>6. CASE op = "send"
  <2>1. Lines(op) = 1 .. 10
    BY <1>6, SendLines
  <2>2. \/ i = 1 /\ i + 1 = 2
        \/ i = 2 /\ i + 1 = 3
        \/ i = 3 /\ i + 1 = 4
        \/ i = 4 /\ i + 1 = 5
        \/ i = 5 /\ i + 1 = 6
        \/ i = 6 /\ i + 1 = 7
        \/ i = 7 /\ i + 1 = 8
        \/ i = 8 /\ i + 1 = 9
        \/ i = 9 /\ i + 1 = 10
        \/ i = 10 /\ i + 1 = 11
    BY <2>1
  <2>3. i \in 1 .. 10 /\ 1 \in Lines(op)
    BY <2>1
  <2>4. Script[op][i] # "commit" => i # 10
    BY <1>6, SendScript
  <2>5. i # 10 => i + 1 \in Lines(op)
    BY <2>1
  <2>6. After(op, i)
    BY <1>6, <2>2, <2>4, SendScript DEF Adding, After
  <2>. QED
    BY <2>3, <2>4, <2>5, <2>6
<1>7. CASE op = "drop"
  <2>1. Lines(op) = 1 .. 8
    BY <1>7, DropLines
  <2>2. \/ i = 1 /\ i + 1 = 2
        \/ i = 2 /\ i + 1 = 3
        \/ i = 3 /\ i + 1 = 4
        \/ i = 4 /\ i + 1 = 5
        \/ i = 5 /\ i + 1 = 6
        \/ i = 6 /\ i + 1 = 7
        \/ i = 7 /\ i + 1 = 8
        \/ i = 8 /\ i + 1 = 9
    BY <2>1
  <2>3. i \in 1 .. 10 /\ 1 \in Lines(op)
    BY <2>1
  <2>4. Script[op][i] # "commit" => i # 8
    BY <1>7, DropScript
  <2>5. i # 8 => i + 1 \in Lines(op)
    BY <2>1
  <2>6. After(op, i)
    BY <1>7, <2>2, <2>4, DropScript DEF Adding, After
  <2>. QED
    BY <2>3, <2>4, <2>5, <2>6
<1>. QED
  BY <1>1, <1>2, <1>3, <1>4, <1>5, <1>6, <1>7 DEF Ops

-----------------------------------------------------------------------------
(* What a step does, one transaction at a time. *)

Targets == MsgIds \cup FolderIds

Functions ==
    /\ load \in Loads
    /\ request \in [Tx -> Requests \cup {Null}]
    /\ status \in [Tx -> {"idle", "open", "committed", "failed", "nothing"}]
    /\ pc \in [Tx -> 1 .. 10]
    /\ DOMAIN todo = Tx
    /\ deleted \in [Tx -> SUBSET RowVersion]

\* All other requests stay as they are, and t stays the request it is.
Alone(t) ==
    /\ \A u \in Tx \ {t} :
          /\ request'[u] = request[u] /\ status'[u] = status[u] /\ pc'[u] = pc[u]
          /\ todo'[u] = todo[u] /\ deleted'[u] = deleted[u]
    /\ load' = load

Same(t) == request'[t] = request[t] /\ status'[t] = status[t]

Arrives(t) ==
    /\ status[t] = "idle" /\ Cardinality({u \in Tx : Open(u)}) < load.open
    /\ Alone(t)
    /\ request'[t] \in Requests /\ status'[t] = "open"
    /\ pc'[t] = pc[t] /\ todo'[t] = todo[t] /\ deleted'[t] = deleted[t]
    /\ UNCHANGED <<fpm, lock, tables>>

\* What t has found when it passes a statement without changing anything.
Passable(t) ==
    /\ Executing(t) => todo[t] = Null /\ Items(t) = {}
    /\ Statement(t) = "begin" => ConnectionFree
    /\ Statement(t) = "check draft" =>
          <<request[t].msg, <<request[t].user, "draft">>>> \in Placed
    /\ Statement(t) = "check folder" =>
          request[t].folder \in FoldersOf(request[t].user) \cap CustomIds
    /\ Statement(t) = "find" => request[t].msg \in alive

Passes(t) ==
    /\ Open(t) /\ Statement(t) # "commit" /\ Passable(t)
    /\ Alone(t) /\ Same(t)
    /\ pc'[t] = pc[t] + 1 /\ todo'[t] = Null /\ deleted'[t] = deleted[t]
    /\ UNCHANGED <<fpm, lock, tables>>

Picks(t) ==
    /\ Executing(t) /\ todo[t] = Null
    /\ Alone(t) /\ Same(t)
    /\ pc'[t] = pc[t] /\ todo'[t] = Items(t) /\ deleted'[t] = deleted[t]
    /\ UNCHANGED <<fpm, lock, tables>>

\* Item i is dealt with; the last one ends the statement.
Proceeds(t, i) ==
    /\ Executing(t) /\ todo[t] # Null /\ i \in todo[t]
    /\ Holders(t, i) = {} /\ ~Refused(t, i)
    /\ Alone(t) /\ Same(t)
    /\ \/ todo[t] = {i} /\ pc'[t] = pc[t] + 1 /\ todo'[t] = Null
       \/ todo[t] # {i} /\ pc'[t] = pc[t] /\ todo'[t] = todo[t] \ {i}
    /\ UNCHANGED tables

Unfiles(t, i) ==
    /\ Proceeds(t, i) /\ Statement(t) \in Unfiling
    /\ deleted'[t] = deleted[t] \cup ({i} \cap fpm)
    /\ UNCHANGED <<fpm, lock>>

FilesItem(t, i) ==
    /\ Proceeds(t, i) /\ Statement(t) \in Adding
    /\ fpm' = IF Duplicates(t, i) = {} THEN fpm \cup {<<i[1], i[2], t>>} ELSE fpm
    /\ deleted'[t] = deleted[t] /\ UNCHANGED lock

Locking == {"keys", "stamp", "delete message", "delete folder"}

Locks(t, i) ==
    /\ Proceeds(t, i) /\ Statement(t) \in Locking
    /\ lock' = lock \cup ({t} \X ({i} \cap (alive \cup folders)) \X {Mode(Statement(t))})
    /\ deleted'[t] = deleted[t] /\ UNCHANGED fpm

Bonds(t, i) ==
    /\ Proceeds(t, i) /\ Statement(t) = "bond"
    /\ deleted'[t] = deleted[t] /\ UNCHANGED <<fpm, lock>>

Ends(t) ==
    /\ Open(t) /\ Alone(t)
    /\ request'[t] = request[t] /\ pc'[t] = pc[t]
    /\ status'[t] \in {"failed", "nothing"}
    /\ status'[t] = "nothing" =>
          /\ t \in Holding
          /\ Statement(t) = "check draft"
          /\ <<request[t].msg, <<request[t].user, "draft">>>> \notin Placed
    /\ todo'[t] = Null /\ deleted'[t] = {}
    /\ fpm' = {v \in fpm : v[3] # t} /\ lock' = {l \in lock : l[1] # t}
    /\ UNCHANGED tables

Commits(t) ==
    /\ Open(t) /\ Statement(t) = "commit" /\ Alone(t)
    /\ request'[t] = request[t] /\ pc'[t] = pc[t] /\ status'[t] = "committed"
    /\ todo'[t] = todo[t] /\ deleted'[t] = {}
    /\ fpm' = fpm \ deleted[t] /\ lock' = {l \in lock : l[1] # t}
    /\ alive' = alive \ Doomed(t) /\ folders' = folders \ Doomed(t)
    /\ dispatched' = IF request[t].op = "send" THEN dispatched \cup Updated(t)
                     ELSE dispatched

\* A step of t that belongs to its statement.
Works(t) ==
    \/ Passes(t) \/ Picks(t)
    \/ \E i \in todo[t] : Unfiles(t, i) \/ FilesItem(t, i) \/ Locks(t, i) \/ Bonds(t, i)

LEMMA RollbackEnds ==
    ASSUME Functions, NEW t \in Tx, Open(t), NEW o \in {"failed", "nothing"}, Rollback(t, o),
           o = "nothing" => /\ t \in Holding
                            /\ Statement(t) = "check draft"
                            /\ <<request[t].msg, <<request[t].user, "draft">>>> \notin Placed
    PROVE  Ends(t)
BY DEF Functions, Rollback, Ends, Alone

LEMMA AdvancePasses ==
    ASSUME Functions, NEW t \in Tx, Open(t), Statement(t) # "commit", Passable(t), Advance(t),
           UNCHANGED <<rows, tables>>
    PROVE  Passes(t)
BY DEF Functions, Advance, Passes, Alone, Same

LEMMA BeginPasses ==
    ASSUME Functions, NEW t \in Tx, Begin(t)
    PROVE  Passes(t)
<1>1. Passable(t)
  BY DEF Begin, Passable, Executing
<1>. QED
  BY <1>1, AdvancePasses DEF Begin

LEMMA QueryAnswered ==
    ASSUME Functions, NEW t \in Tx, Query(t)
    PROVE  Passes(t) \/ Ends(t)
<1>1. CASE CheckDraft(t)
  <2>. DEFINE found == <<request[t].msg, <<request[t].user, "draft">>>> \in Placed
  <2>1. Open(t) /\ Statement(t) = "check draft"
    BY <1>1 DEF CheckDraft
  <2>2. CASE found
    <3>1. Passable(t)
      BY <2>1, <2>2 DEF Passable, Executing
    <3>. QED
      BY <1>1, <2>1, <2>2, <3>1, AdvancePasses DEF CheckDraft
  <2>3. CASE ~found
    BY <1>1, <2>1, <2>3, RollbackEnds DEF CheckDraft
  <2>. QED
    BY <2>2, <2>3
<1>2. CASE CheckFolder(t)
  <2>. DEFINE found == request[t].folder \in FoldersOf(request[t].user) \cap CustomIds
  <2>1. Open(t) /\ Statement(t) = "check folder"
    BY <1>2 DEF CheckFolder
  <2>2. CASE found
    <3>1. Passable(t)
      BY <2>1, <2>2 DEF Passable, Executing
    <3>. QED
      BY <1>2, <2>1, <2>2, <3>1, AdvancePasses DEF CheckFolder
  <2>3. CASE ~found
    BY <1>2, <2>1, <2>3, RollbackEnds DEF CheckFolder
  <2>. QED
    BY <2>2, <2>3
<1>3. CASE FindDraft(t)
  <2>1. Open(t) /\ Statement(t) = "find"
    BY <1>3 DEF FindDraft
  <2>2. CASE request[t].msg \in alive
    <3>1. Passable(t)
      BY <2>1, <2>2 DEF Passable, Executing
    <3>. QED
      BY <1>3, <2>1, <2>2, <3>1, AdvancePasses DEF FindDraft
  <2>3. CASE request[t].msg \notin alive
    BY <1>3, <2>1, <2>3, RollbackEnds DEF FindDraft
  <2>. QED
    BY <2>2, <2>3
<1>. QED
  BY <1>1, <1>2, <1>3 DEF Query

LEMMA StartWorks ==
    ASSUME Functions, NEW t \in Tx, Start(t)
    PROVE  Passes(t) \/ Picks(t)
<1>1. Executing(t) /\ todo[t] = Null /\ UNCHANGED <<rows, tables>>
  BY DEF Start
<1>2. CASE Items(t) = {}
  <2>1. Passable(t)
    BY <1>1, <1>2 DEF Passable, Executing
  <2>. QED
    BY <1>1, <1>2, <2>1, AdvancePasses DEF Start, Executing
<1>3. CASE Items(t) # {}
  <2>1. todo' = [todo EXCEPT ![t] = Items(t)] /\ UNCHANGED <<load, request, status, pc>>
    BY <1>3 DEF Start
  <2>. QED
    BY <1>1, <2>1 DEF Functions, Picks, Alone, Same
<1>. QED
  BY <1>2, <1>3

LEMMA HandleWorks ==
    ASSUME Functions, NEW t \in Tx, Handle(t)
    PROVE  Works(t)
<1>1. Executing(t) /\ todo[t] # Null /\ UNCHANGED tables
  BY DEF Handle
<1>2. PICK i \in todo[t] :
        /\ Holders(t, i) = {} /\ ~Refused(t, i) /\ Effect(t, i)
        /\ IF todo[t] = {i}
           THEN Advance(t)
           ELSE todo' = [todo EXCEPT ![t] = @ \ {i}] /\ UNCHANGED <<load, request, status, pc>>
  BY DEF Handle
<1>3. /\ request' = request /\ status' = status /\ load' = load
      /\ \A u \in Tx \ {t} : pc'[u] = pc[u] /\ todo'[u] = todo[u]
      /\ \/ todo[t] = {i} /\ pc'[t] = pc[t] + 1 /\ todo'[t] = Null
         \/ todo[t] # {i} /\ pc'[t] = pc[t] /\ todo'[t] = todo[t] \ {i}
  BY <1>2 DEF Functions, Advance
<1>4. ASSUME \A u \in Tx \ {t} : deleted'[u] = deleted[u]
      PROVE  Proceeds(t, i)
  BY <1>1, <1>2, <1>3, <1>4 DEF Proceeds, Alone, Same
<1>5. CASE /\ Statement(t) \in Unfiling
           /\ deleted' = [deleted EXCEPT ![t] = @ \cup ({i} \cap fpm)]
           /\ UNCHANGED <<fpm, lock>>
  <2>1. /\ deleted'[t] = deleted[t] \cup ({i} \cap fpm)
        /\ \A u \in Tx \ {t} : deleted'[u] = deleted[u]
    BY <1>5 DEF Functions
  <2>. QED
    BY <1>2, <1>4, <1>5, <2>1 DEF Unfiles, Works
<1>6. CASE /\ Statement(t) \in Adding
           /\ fpm' = IF Duplicates(t, i) = {} THEN fpm \cup {<<i[1], i[2], t>>} ELSE fpm
           /\ UNCHANGED <<deleted, lock>>
  BY <1>2, <1>4, <1>6 DEF FilesItem, Works
<1>7. CASE /\ Statement(t) \in {"keys", "stamp", "delete message", "delete folder"}
           /\ lock' = lock \cup ({t} \X ({i} \cap (alive \cup folders))
                                     \X {Mode(Statement(t))})
           /\ UNCHANGED <<fpm, deleted>>
  BY <1>2, <1>4, <1>7 DEF Locks, Locking, Works
<1>8. CASE Statement(t) = "bond" /\ UNCHANGED rows
  BY <1>2, <1>4, <1>8 DEF Bonds, Works
<1>. QED
  BY <1>2, <1>5, <1>6, <1>7, <1>8 DEF Effect

LEMMA CommitCommits ==
    ASSUME Functions, NEW t \in Tx, Commit(t)
    PROVE  Commits(t)
BY DEF Functions, Commit, Commits, Alone

LEMMA ArriveArrives ==
    ASSUME Functions, NEW t \in Tx, NEW r \in Requests, Arrive(t, r)
    PROVE  Arrives(t)
BY DEF Functions, Arrive, Arrives, Alone

\* Every step is one transaction's.
LEMMA StepsOf ==
    ASSUME Functions, Next
    PROVE  \/ \E t \in Tx : Arrives(t) \/ Works(t) \/ Ends(t) \/ Commits(t)
           \/ UNCHANGED vars
<1>1. CASE Finished
  BY <1>1 DEF Finished
<1>2. ASSUME NEW t \in Tx, NEW r \in Requests, Arrive(t, r)
      PROVE  Arrives(t)
  BY <1>2, ArriveArrives
<1>3. ASSUME NEW t \in Tx, Step(t)
      PROVE  Works(t) \/ Ends(t) \/ Commits(t)
  <2>1. CASE Refuse(t)
    BY <2>1, RollbackEnds DEF Refuse, Executing
  <2>. QED
    BY <1>3, <2>1, BeginPasses, QueryAnswered, StartWorks, HandleWorks, CommitCommits
       DEF Step, Works
<1>4. ASSUME NEW t \in Tx, BreakDeadlock(t)
      PROVE  Ends(t)
  <2>1. Open(t)
    BY <1>4 DEF BreakDeadlock, WaitsFor, Executing
  <2>. QED
    BY <1>4, <2>1, RollbackEnds DEF BreakDeadlock
<1>5. ASSUME NEW t \in Tx, Fail(t)
      PROVE  Ends(t)
  BY <1>5, RollbackEnds DEF Fail
<1>. QED
  BY <1>1, <1>2, <1>3, <1>4, <1>5 DEF Next

-----------------------------------------------------------------------------
(* Typing. *)

RowTypes ==
    /\ fpm \subseteq RowVersion
    /\ lock \subseteq Tx \X Targets \X LockMode
    /\ alive \subseteq MsgIds /\ folders \subseteq FolderIds /\ dispatched \subseteq MsgIds

\* A request that has arrived is one that may, and is at a line of its script.
Asked(t) ==
    /\ status[t] = "idle" => pc[t] = 1 /\ todo[t] = Null
    /\ status[t] # "idle" => request[t] \in Requests /\ pc[t] \in Lines(request[t].op)

\* What is left of a statement's snapshot is of the kind its statement handles.
Seen(t, v) == v[3] = t \/ Committed(v[3])

LeftOver(t) ==
    Executing(t) /\ todo[t] # Null =>
        /\ Statement(t) \in Unfiling =>
              \A v \in todo[t] : v \in RowVersion /\ Seen(t, v)
        /\ Statement(t) \in Adding => todo[t] \subseteq MsgIds \X FolderIds
        /\ Statement(t) = "keys" => todo[t] \subseteq Targets
        /\ Statement(t) \in {"stamp", "bond", "delete message"} => todo[t] = {request[t].msg}
        /\ Statement(t) = "delete folder" => todo[t] = {request[t].folder}

Typed ==
    /\ Functions /\ RowTypes
    /\ \A t \in Tx : Asked(t)
    /\ \A t \in Tx : LeftOver(t)

LEMMA RequestTyped ==
    ASSUME NEW r \in Requests
    PROVE  /\ r.op \in Ops /\ r.user \in Users /\ r.msg \in MsgIds /\ r.folder \in FolderIds
BY TxAssumption, Operations DEF Request

LEMMA Unchanged ==
    ASSUME NEW t \in Tx, NEW u \in Tx \ {t}, Alone(t)
    PROVE  /\ Statement(u)' = Statement(u)
           /\ Open(u)' <=> Open(u)
           /\ Executing(u)' <=> Executing(u)
           /\ request'[u] = request[u] /\ status'[u] = status[u] /\ pc'[u] = pc[u]
           /\ todo'[u] = todo[u] /\ deleted'[u] = deleted[u]
BY DEF Alone, Statement, Open, Executing

\* t has begun its next statement.
Next1(t) ==
    /\ Statement(t) \in Adding => Statement(t)' = "keys"
    /\ Statement(t) = "delete message"
          <=> request[t].op = "delete" /\ Statement(t)' = "cascade message"
    /\ Statement(t) = "delete folder"
          <=> request[t].op = "drop" /\ Statement(t)' = "cascade folder"
    /\ Statement(t) = "cascade message"
          <=> request[t].op = "delete" /\ Statement(t)' = "commit"
    /\ Statement(t) = "cascade folder"
          <=> request[t].op = "drop" /\ Statement(t)' = "commit"

LEMMA Progress ==
    ASSUME NEW t \in Tx, Asked(t), Open(t), Same(t), pc'[t] = pc[t] + 1,
           Statement(t) # "commit"
    PROVE  /\ Next1(t) /\ Open(t)' /\ pc'[t] \in Lines(request[t].op)
           /\ pc'[t] \in 1 .. 10
<1>. DEFINE op == request[t].op
            i == pc[t]
<1>1. op \in Ops /\ i \in Lines(op)
  BY RequestTyped DEF Asked, Open
<1>2. Statement(t) = Script[op][i] /\ Statement(t)' = Script[op][i + 1]
  BY DEF Statement, Same
<1>. HIDE DEF op, i
<1>3. After(op, i) /\ i + 1 \in Lines(op)
  BY <1>1, <1>2, Following
<1>4. i + 1 \in 1 .. 10
  BY <1>1, <1>3, Following
<1>5. Next1(t)
  <2>1. op = request[t].op
    BY DEF op
  <2>. QED
    BY <1>2, <1>3, <2>1 DEF After, Next1
<1>. QED
  BY <1>3, <1>4, <1>5 DEF op, i, Open, Same

LEMMA Waits ==
    ASSUME NEW t \in Tx, Same(t), pc'[t] = pc[t]
    PROVE  Statement(t)' = Statement(t) /\ (Open(t)' <=> Open(t)) /\ (Executing(t)' <=> Executing(t))
BY DEF Same, Statement, Open, Executing

LEMMA SystemFolderTyped ==
    ASSUME NEW p \in Users, NEW y \in SystemTypes
    PROVE  <<p, y>> \in FolderIds
BY DEF FolderIds

LEMMA PickedTyped ==
    ASSUME RowTypes, NEW t \in Tx, Executing(t), request[t] \in Requests
    PROVE  /\ Statement(t) \in Unfiling =>
                 /\ Items(t) = {v \in Visible(t) : Selects(t, v)}
                 /\ \A v \in Items(t) : v \in RowVersion /\ Seen(t, v)
           /\ Statement(t) \in Adding =>
                 Items(t) = Additions(t) /\ Items(t) \subseteq MsgIds \X FolderIds
           /\ Statement(t) = "keys" => Items(t) = Parents(t) /\ Items(t) \subseteq Targets
           /\ Statement(t) \in {"stamp", "bond", "delete message"} =>
                 Items(t) = {request[t].msg}
           /\ Statement(t) = "delete folder" => Items(t) = {request[t].folder}
<1>1. ASSUME Statement(t) \in Unfiling
      PROVE  /\ Items(t) = {v \in Visible(t) : Selects(t, v)}
             /\ \A v \in Items(t) : v \in RowVersion /\ Seen(t, v)
  <2>1. Items(t) = {v \in Visible(t) : Selects(t, v)}
    BY <1>1 DEF Items, Unfiling, Adding
  <2>2. Items(t) \subseteq Visible(t)
    BY <2>1
  <2>. QED
    BY <2>1, <2>2 DEF Visible, Seen, RowTypes
<1>2. ASSUME Statement(t) \in Adding
      PROVE  Items(t) = Additions(t) /\ Items(t) \subseteq MsgIds \X FolderIds
  <2>1. Items(t) = Additions(t)
    BY <1>2 DEF Items, Unfiling, Adding
  <2>2. /\ request[t].msg \in MsgIds /\ request[t].folder \in FolderIds
        /\ request[t].user \in Users
    BY RequestTyped
  <2>3. \A y \in SystemTypes : <<request[t].user, y>> \in FolderIds
    BY <2>2, SystemFolderTyped
  <2>4. \A v \in Visible(t) : v[1] \in MsgIds
    BY DEF Visible, RowTypes, RowVersion
  <2>5. CASE Statement(t) = "file in trash"
    <3>1. Additions(t) =
            {<<v[1], <<request[t].user, "trash">>>> :
               v \in {w \in Visible(t) : w[2] = request[t].folder}}
      BY <2>5 DEF Additions
    <3>. QED
      BY <2>1, <2>3, <2>4, <3>1 DEF SystemTypes
  <2>6. CASE Statement(t) = "file in target"
    <3>1. Additions(t) = {<<request[t].msg, request[t].folder>>}
      BY <2>6 DEF Additions
    <3>. QED
      BY <2>1, <2>2, <3>1
  <2>7. CASE Statement(t) \in {"file in spam", "file in sent", "file in inbox"}
    <3>1. \E y \in SystemTypes : Additions(t) = {<<request[t].msg, <<request[t].user, y>>>>}
      BY <2>7 DEF Additions, SystemTypes
    <3>. QED
      BY <2>1, <2>2, <2>3, <3>1
  <2>. QED
    BY <1>2, <2>5, <2>6, <2>7 DEF Adding
<1>3. ASSUME Statement(t) = "keys"
      PROVE  Items(t) = Parents(t) /\ Items(t) \subseteq Targets
  <2>1. Items(t) = Parents(t)
    BY <1>3 DEF Items, Unfiling, Adding
  <2>2. \A v \in fpm : v[1] \in Targets /\ v[2] \in Targets
    BY DEF RowTypes, RowVersion, Targets
  <2>. QED
    BY <2>1, <2>2 DEF Parents
<1>4. ASSUME Statement(t) \in {"stamp", "bond", "delete message"}
      PROVE  Items(t) = {request[t].msg}
  BY <1>4 DEF Items, Unfiling, Adding
<1>5. ASSUME Statement(t) = "delete folder"
      PROVE  Items(t) = {request[t].folder}
  BY <1>5 DEF Items, Unfiling, Adding
<1>. QED
  BY <1>1, <1>2, <1>3, <1>4, <1>5

LEMMA SeenStays ==
    ASSUME NEW t \in Tx, Alone(t), status[t] = "committed" => status'[t] = "committed",
           NEW u \in Tx, NEW v \in RowVersion, Seen(u, v)
    PROVE  Seen(u, v)'
BY DEF Alone, Seen, Committed, RowVersion

LEMMA WorksProceeds ==
    ASSUME NEW t \in Tx, Works(t)
    PROVE  /\ Open(t) /\ Statement(t) # "commit" /\ Alone(t) /\ Same(t)
           /\ Passes(t) \/ Picks(t) \/ \E i \in todo[t] : Proceeds(t, i)
           /\ UNCHANGED tables
BY DEF Works, Passes, Picks, Unfiles, FilesItem, Locks, Bonds, Proceeds, Executing

LEMMA AskedGoesOn ==
    ASSUME Functions, \A t \in Tx : Asked(t), NEW t \in Tx,
           Arrives(t) \/ Works(t) \/ Ends(t) \/ Commits(t)
    PROVE  \A u \in Tx : Asked(u)'
<1>1. Alone(t)
  BY WorksProceeds DEF Arrives, Ends, Commits
<1>2. \A u \in Tx \ {t} : Asked(u)'
  BY <1>1 DEF Asked, Alone
<1>3. Asked(t)'
  <2>1. CASE Arrives(t)
    <3>1. request'[t].op \in Ops
      BY <2>1, RequestTyped DEF Arrives
    <3>2. 1 \in Lines(request'[t].op)
      BY <3>1, SpamLines, MoveLines, TakeLines, SaveLines, DeleteLines, SendLines, DropLines
         DEF Ops
    <3>. QED
      BY <2>1, <3>2 DEF Arrives, Asked
  <2>2. CASE Works(t)
    <3>1. \/ pc'[t] = pc[t]
          \/ pc'[t] = pc[t] + 1 /\ pc'[t] \in Lines(request[t].op)
      BY <2>2, WorksProceeds, Progress DEF Passes, Picks, Proceeds
    <3>. QED
      BY <2>2, <3>1, WorksProceeds DEF Asked, Same, Open
  <2>3. CASE Ends(t) \/ Commits(t)
    BY <2>3 DEF Ends, Commits, Asked, Open
  <2>. QED
    BY <2>1, <2>2, <2>3
<1>. QED
  BY <1>2, <1>3

LEMMA LeftOverGoesOn ==
    ASSUME Typed, NEW t \in Tx, Arrives(t) \/ Works(t) \/ Ends(t) \/ Commits(t)
    PROVE  \A u \in Tx : LeftOver(u)'
<1>1. Alone(t) /\ (status[t] = "committed" => status'[t] = "committed")
  BY WorksProceeds DEF Arrives, Ends, Commits, Same, Open
<1>2. ASSUME NEW u \in Tx, NEW v \in RowVersion, Seen(u, v)
      PROVE  Seen(u, v)'
  BY <1>1, <1>2, SeenStays
<1>3. ASSUME NEW u \in Tx \ {t}
      PROVE  LeftOver(u)'
  <2>1. LeftOver(u)
    BY DEF Typed
  <2>2. /\ Statement(u)' = Statement(u) /\ (Executing(u)' <=> Executing(u))
        /\ request'[u] = request[u] /\ todo'[u] = todo[u]
    BY <1>1, Unchanged
  <2>. QED
    BY <1>2, <2>1, <2>2 DEF LeftOver
<1>4. LeftOver(t)'
  <2>1. CASE Arrives(t) \/ Passes(t) \/ Ends(t)
    <3>1. todo'[t] = Null
      BY <2>1 DEF Arrives, Passes, Ends, Typed, Asked
    <3>. QED
      BY <3>1 DEF LeftOver
  <2>2. CASE Commits(t)
    <3>1. ~Executing(t)'
      BY <2>2 DEF Commits, Executing, Open
    <3>. QED
      BY <3>1 DEF LeftOver
  <2>3. CASE Picks(t)
    <3>1. RowTypes /\ request[t] \in Requests /\ Executing(t)
      BY <2>3 DEF Typed, Picks, Asked, Executing, Open
    <3>2. Statement(t)' = Statement(t) /\ request'[t] = request[t] /\ todo'[t] = Items(t)
      BY <2>3, Waits DEF Picks, Same
    <3>3. Statement(t) \in Unfiling => \A v \in Items(t) : v \in RowVersion /\ Seen(t, v)'
      BY <1>2, <3>1, PickedTyped
    <3>4. /\ Statement(t) \in Adding => Items(t) \subseteq MsgIds \X FolderIds
          /\ Statement(t) = "keys" => Items(t) \subseteq Targets
          /\ Statement(t) \in {"stamp", "bond", "delete message"} =>
                 Items(t) = {request[t].msg}
          /\ Statement(t) = "delete folder" => Items(t) = {request[t].folder}
      BY <3>1, PickedTyped
    <3>. QED
      BY <3>2, <3>3, <3>4 DEF LeftOver
  <2>4. ASSUME NEW i \in todo[t], Proceeds(t, i)
        PROVE  LeftOver(t)'
    <3>1. CASE todo'[t] = Null
      BY <3>1 DEF LeftOver
    <3>2. CASE todo[t] # {i} /\ pc'[t] = pc[t] /\ todo'[t] = todo[t] \ {i} /\ todo'[t] # Null
      <4>1. Statement(t)' = Statement(t) /\ request'[t] = request[t] /\ Executing(t)
        BY <2>4, <3>2, Waits DEF Proceeds, Same
      <4>2. LeftOver(t) /\ todo'[t] \subseteq todo[t] /\ todo[t] # Null
        BY <2>4, <3>2 DEF Typed, Proceeds
      <4>3. Statement(t) \notin {"stamp", "bond", "delete message", "delete folder"}
        BY <2>4, <3>2, <4>1, <4>2 DEF LeftOver
      <4>4. Statement(t) \in Unfiling => \A v \in todo'[t] : v \in RowVersion /\ Seen(t, v)'
        BY <1>2, <4>1, <4>2 DEF LeftOver
      <4>5. /\ Statement(t) \in Adding => todo'[t] \subseteq MsgIds \X FolderIds
            /\ Statement(t) = "keys" => todo'[t] \subseteq Targets
        BY <4>1, <4>2 DEF LeftOver
      <4>. QED
        BY <4>1, <4>3, <4>4, <4>5 DEF LeftOver
    <3>. QED
      BY <2>4, <3>1, <3>2 DEF Proceeds
  <2>. QED
    BY <2>1, <2>2, <2>3, <2>4, WorksProceeds
<1>. QED
  BY <1>3, <1>4

LEMMA RowTypesGoOn ==
    ASSUME Typed, NEW t \in Tx, Arrives(t) \/ Works(t) \/ Ends(t) \/ Commits(t)
    PROVE  RowTypes'
<1>1. RowTypes
  BY DEF Typed
<1>2. CASE Arrives(t) \/ Passes(t) \/ Picks(t)
  BY <1>1, <1>2 DEF RowTypes, Arrives, Passes, Picks
<1>3. CASE Ends(t)
  BY <1>1, <1>3 DEF RowTypes, Ends
<1>4. CASE Commits(t)
  BY <1>1, <1>4 DEF RowTypes, Commits, Updated
<1>5. ASSUME NEW i \in todo[t], Unfiles(t, i) \/ Bonds(t, i)
      PROVE  RowTypes'
  BY <1>1, <1>5 DEF RowTypes, Unfiles, Bonds, Proceeds
<1>6. ASSUME NEW i \in todo[t], FilesItem(t, i)
      PROVE  RowTypes'
  <2>1. i \in MsgIds \X FolderIds
    BY <1>6 DEF FilesItem, Proceeds, Typed, LeftOver
  <2>2. <<i[1], i[2], t>> \in RowVersion
    BY <2>1 DEF RowVersion
  <2>. QED
    BY <1>1, <1>6, <2>2 DEF RowTypes, FilesItem, Proceeds
<1>7. ASSUME NEW i \in todo[t], Locks(t, i)
      PROVE  RowTypes'
  <2>1. Mode(Statement(t)) \in LockMode
    BY <1>7 DEF Locks, Locking, Mode, LockMode
  <2>2. {i} \cap (alive \cup folders) \subseteq Targets
    BY <1>1 DEF RowTypes, Targets
  <2>3. {t} \X ({i} \cap (alive \cup folders)) \X {Mode(Statement(t))}
          \subseteq Tx \X Targets \X LockMode
    BY <2>1, <2>2
  <2>. QED
    BY <1>1, <1>7, <2>3 DEF RowTypes, Locks, Proceeds
<1>. QED
  BY <1>2, <1>3, <1>4, <1>5, <1>6, <1>7 DEF Works

LEMMA FunctionsGoOn ==
    ASSUME Typed, Next
    PROVE  Functions'
<1>1. Functions /\ RowTypes /\ (\A t \in Tx : Asked(t))
  BY DEF Typed
<1>2. CASE Finished
  BY <1>1, <1>2 DEF Finished, vars, Functions
<1>3. ASSUME NEW t \in Tx, NEW r \in Requests, Arrive(t, r)
      PROVE  Functions'
  BY <1>1, <1>3 DEF Arrive, Functions
<1>4. ASSUME NEW t \in Tx, Advance(t), Open(t), Statement(t) # "commit"
      PROVE  /\ pc' \in [Tx -> 1 .. 10] /\ DOMAIN todo' = Tx
             /\ UNCHANGED <<load, request, status>>
  <2>1. Same(t) /\ pc'[t] = pc[t] + 1
    BY <1>1, <1>4 DEF Advance, Same, Functions
  <2>2. pc[t] + 1 \in 1 .. 10
    BY <1>1, <1>4, <2>1, Progress
  <2>. QED
    BY <1>1, <1>4, <2>2 DEF Advance, Functions
<1>5. ASSUME NEW t \in Tx, Open(t), NEW o \in {"failed", "nothing"}, Rollback(t, o)
      PROVE  Functions'
  BY <1>1, <1>5 DEF Rollback, Functions
<1>6. ASSUME NEW t \in Tx, Begin(t) \/ Query(t)
      PROVE  Functions'
  BY <1>1, <1>4, <1>5, <1>6 DEF Begin, Query, CheckDraft, CheckFolder, FindDraft, Functions
<1>7. ASSUME NEW t \in Tx, Start(t)
      PROVE  Functions'
  <2>1. Open(t) /\ Statement(t) # "commit"
    BY <1>7 DEF Start, Executing
  <2>. QED
    BY <1>1, <1>4, <1>7, <2>1 DEF Start, Functions
<1>8. ASSUME NEW t \in Tx, Handle(t)
      PROVE  Functions'
  <2>1. Open(t) /\ Statement(t) # "commit"
    BY <1>8 DEF Handle, Executing
  <2>2. PICK i \in todo[t] :
          /\ Effect(t, i)
          /\ IF todo[t] = {i}
             THEN Advance(t)
             ELSE todo' = [todo EXCEPT ![t] = @ \ {i}] /\ UNCHANGED <<load, request, status, pc>>
    BY <1>8 DEF Handle
  <2>3. deleted' \in [Tx -> SUBSET RowVersion]
    <3>1. {i} \cap fpm \subseteq RowVersion
      BY <1>1 DEF RowTypes
    <3>2. \/ deleted' = [deleted EXCEPT ![t] = @ \cup ({i} \cap fpm)]
          \/ UNCHANGED deleted
      BY <2>2 DEF Effect
    <3>. QED
      BY <1>1, <3>1, <3>2 DEF Functions
  <2>4. CASE Advance(t)
    BY <1>1, <1>4, <2>1, <2>3, <2>4 DEF Functions
  <2>5. CASE todo' = [todo EXCEPT ![t] = @ \ {i}] /\ UNCHANGED <<load, request, status, pc>>
    BY <1>1, <2>3, <2>5 DEF Functions
  <2>. QED
    BY <2>2, <2>4, <2>5
<1>9. ASSUME NEW t \in Tx, Refuse(t) \/ BreakDeadlock(t) \/ Fail(t)
      PROVE  Functions'
  BY <1>1, <1>5, <1>9 DEF Refuse, BreakDeadlock, Fail, WaitsFor, Executing
<1>10. ASSUME NEW t \in Tx, Commit(t)
       PROVE  Functions'
  BY <1>1, <1>10 DEF Commit, Functions
<1>. QED
  BY <1>2, <1>3, <1>6, <1>7, <1>8, <1>9, <1>10 DEF Next, Step

LEMMA TypedStutters ==
    ASSUME Typed, UNCHANGED vars
    PROVE  Typed'
<1>1. /\ load' = load /\ request' = request /\ status' = status /\ pc' = pc
      /\ todo' = todo /\ fpm' = fpm /\ deleted' = deleted /\ lock' = lock
      /\ alive' = alive /\ folders' = folders /\ dispatched' = dispatched
  BY DEF vars
<1>2. Functions' /\ RowTypes'
  BY <1>1 DEF Typed, Functions, RowTypes
<1>3. \A t \in Tx : Asked(t)'
  BY <1>1 DEF Typed, Asked
<1>4. ASSUME NEW t \in Tx
      PROVE  LeftOver(t)'
  <2>1. /\ Statement(t)' = Statement(t) /\ (Executing(t)' <=> Executing(t))
        /\ \A v : Seen(t, v)' <=> Seen(t, v)
    BY <1>1 DEF Executing, Open, Statement, Seen, Committed
  <2>2. LeftOver(t) /\ todo'[t] = todo[t] /\ request'[t] = request[t]
    BY <1>1 DEF Typed
  <2>. QED
    BY <2>1, <2>2 DEF LeftOver
<1>. QED
  BY <1>2, <1>3, <1>4 DEF Typed

LEMMA TypedGoesOn ==
    ASSUME Typed, Next
    PROVE  Typed'
<1>1. Functions
  BY DEF Typed
<1>2. CASE UNCHANGED vars
  BY <1>2, TypedStutters
<1>3. ASSUME NEW t \in Tx, Arrives(t) \/ Works(t) \/ Ends(t) \/ Commits(t)
      PROVE  Typed'
  BY <1>3, FunctionsGoOn, RowTypesGoOn, AskedGoesOn, LeftOverGoesOn DEF Typed
<1>. QED
  BY <1>1, <1>2, <1>3, StepsOf

LEMMA TypedStarts == Init => Typed
<1>. SUFFICES ASSUME Init PROVE Typed
  OBVIOUS
<1>1. Functions
  BY DEF Init, Functions
<1>2. RowTypes
  <2>1. PICK s \in Starts : fpm = {<<e[1], e[2], Setup>> : e \in s}
    BY DEF Init
  <2>2. s \subseteq MsgIds \X FolderIds
    BY <2>1, TxAssumption
  <2>3. fpm \subseteq RowVersion
    BY <2>1, <2>2 DEF RowVersion
  <2>. QED
    BY <2>3 DEF Init, RowTypes
<1>3. \A t \in Tx : Asked(t) /\ LeftOver(t)
  BY DEF Init, Asked, LeftOver
<1>. QED
  BY <1>1, <1>2, <1>3 DEF Typed

LEMMA TypedHolds == Spec => []Typed
<1>1. Typed /\ [Next]_vars => Typed'
  BY TypedStutters, TypedGoesOn
<1>. QED
  BY <1>1, TypedStarts, PTL DEF Spec

-----------------------------------------------------------------------------
(* Locks.  No placement outlives its message or folder because every        *)
(* transaction that files holds its parents in key share mode, every one    *)
(* that deletes a parent holds it against all others, and the cascade that  *)
(* follows finds whatever was committed before.                             *)

\* The inserters of the rows that are there.
Versions == \A v \in fpm : v[3] \in Tx => status[v[3]] \in {"open", "committed"}

\* A transaction deletes rows it could see, and no two delete the same.
DeletedSeen == \A t \in Tx : \A v \in deleted[t] : v \in fpm /\ Seen(t, v) /\ Open(t)

DeletedOnce == \A t, u \in Tx : t # u => deleted[t] \cap deleted[u] = {}

Held(t, r, mode) == <<t, r, mode>> \in lock

LocksHeld ==
    \A t \in Tx, r \in Targets, mode \in LockMode :
        Held(t, r, mode) => Open(t) /\ r \in alive \cup folders

Exclusive ==
    \A t, u \in Tx : \A r \in Targets, mode \in LockMode :
        Held(t, r, "update") /\ Held(u, r, mode) => t = u

\* Who holds a row in update mode is about to delete it, and the other way round.
Dooming(t, r) ==
    \/ request[t].op = "delete" /\ r = request[t].msg
         /\ Statement(t) \in {"cascade message", "commit"}
    \/ request[t].op = "drop" /\ r = request[t].folder
         /\ Statement(t) \in {"cascade folder", "commit"}

DoomKnown(t) == \A r \in Targets : Held(t, r, "update") => Dooming(t, r)

DoomHeld(t) ==
    \A r \in Targets : Open(t) /\ Dooming(t, r) /\ r \in alive \cup folders => Held(t, r, "update")

\* Who has filed a message holds the message and the folder, or will check them.
Keyed(t) ==
    Open(t) =>
        \A v \in fpm : v[3] = t =>
            \A r \in {v[1], v[2]} :
                \/ Held(t, r, "key share")
                \/ Statement(t) \in Adding
                \/ Statement(t) = "keys" /\ (todo[t] = Null \/ r \in todo[t])

\* Who holds a row in update mode deletes whatever anybody has filed there.
Cascading == {"cascade message", "cascade folder"}

Cascaded(t) ==
    \A r \in Targets : Held(t, r, "update") =>
        \A v \in fpm : Seen(t, v) /\ r \in {v[1], v[2]} =>
            \/ v \in deleted[t]
            \/ Statement(t) \in Cascading /\ (todo[t] = Null \/ v \in todo[t])

Rooted == \A v \in fpm : Committed(v[3]) => v[1] \in alive /\ v[2] \in folders

Locked ==
    /\ Versions /\ DeletedSeen /\ DeletedOnce /\ LocksHeld /\ Exclusive
    /\ \A t \in Tx : DoomKnown(t) /\ DoomHeld(t) /\ Keyed(t) /\ Cascaded(t)
    /\ Rooted

LEMMA VersionTyped ==
    ASSUME RowTypes, NEW v \in fpm
    PROVE  /\ v[1] \in MsgIds /\ v[2] \in FolderIds /\ v[3] \in Tx \cup {Setup}
           /\ v[1] \in Targets /\ v[2] \in Targets /\ v \in RowVersion
           /\ v = <<v[1], v[2], v[3]>>
BY DEF RowTypes, RowVersion, Targets

LEMMA FiledRows ==
    ASSUME NEW t \in Tx, NEW i \in todo[t], FilesItem(t, i)
    PROVE  /\ fpm \subseteq fpm'
           /\ \A v \in fpm' \ fpm :
                 v = <<i[1], i[2], t>> /\ v[1] = i[1] /\ v[2] = i[2] /\ v[3] = t
BY DEF FilesItem

\* Whom a statement waits for.
LEMMA WaitedFor ==
    ASSUME NEW t \in Tx, NEW i
    PROVE  /\ Statement(t) \in Unfiling => Holders(t, i) = Deleters(t, i)
           /\ Statement(t) \in {"keys", "bond"} => Holders(t, i) = LockHolders(t, i, {"update"})
           /\ Statement(t) = "stamp" =>
                 Holders(t, i) = LockHolders(t, i, {"no key update", "update"})
           /\ Statement(t) \in {"delete message", "delete folder"} =>
                 Holders(t, i) = LockHolders(t, i, LockMode)
BY DEF Holders, Unfiling, Adding

LEMMA VersionsGoOn ==
    ASSUME Typed, Versions, NEW t \in Tx, Arrives(t) \/ Works(t) \/ Ends(t) \/ Commits(t)
    PROVE  Versions'
<1>1. CASE Arrives(t) \/ Passes(t) \/ Picks(t)
  BY <1>1 DEF Versions, Arrives, Passes, Picks, Alone, Same
<1>2. ASSUME NEW i \in todo[t], Unfiles(t, i) \/ Bonds(t, i) \/ Locks(t, i)
      PROVE  Versions'
  BY <1>2 DEF Versions, Unfiles, Bonds, Locks, Proceeds, Alone, Same
<1>3. ASSUME NEW i \in todo[t], FilesItem(t, i)
      PROVE  Versions'
  <2>1. \A v \in fpm' : v \in fpm \/ v[3] = t
    BY <1>3, FiledRows
  <2>. QED
    BY <1>3, <2>1 DEF Versions, FilesItem, Proceeds, Alone, Same, Executing, Open
<1>4. CASE Ends(t)
  BY <1>4 DEF Versions, Ends, Alone
<1>5. CASE Commits(t)
  BY <1>5 DEF Versions, Commits, Alone
<1>. QED
  BY <1>1, <1>2, <1>3, <1>4, <1>5 DEF Works

LEMMA DeletedSeenGoesOn ==
    ASSUME Typed, DeletedSeen, DeletedOnce, NEW t \in Tx,
           Arrives(t) \/ Works(t) \/ Ends(t) \/ Commits(t)
    PROVE  DeletedSeen'
<1>1. RowTypes /\ Alone(t) /\ (status[t] = "committed" => status'[t] = "committed")
  BY WorksProceeds DEF Typed, Arrives, Ends, Commits, Same, Open
<1>2. ASSUME NEW u \in Tx, NEW v \in fpm, Seen(u, v)
      PROVE  Seen(u, v)'
  BY <1>1, <1>2, SeenStays, VersionTyped
<1>3. ASSUME NEW u \in Tx \ {t}, NEW v \in deleted'[u]
      PROVE  v \in fpm' /\ Seen(u, v)' /\ Open(u)'
  <2>1. /\ v \in deleted[u] /\ v \in fpm /\ Seen(u, v) /\ Open(u) /\ Open(u)'
        /\ Seen(u, v)'
    BY <1>1, <1>2, <1>3, Unchanged DEF DeletedSeen
  <2>2. v \in fpm'
    <3>1. CASE Arrives(t) \/ Passes(t) \/ Picks(t)
      BY <2>1, <3>1 DEF Arrives, Passes, Picks
    <3>2. ASSUME NEW i \in todo[t], Unfiles(t, i) \/ FilesItem(t, i) \/ Bonds(t, i) \/ Locks(t, i)
          PROVE  v \in fpm'
      BY <2>1, <3>2 DEF Unfiles, FilesItem, Bonds, Locks
    <3>3. CASE Ends(t)
      BY <2>1, <3>3, TxAssumption DEF Ends, Seen, Committed, Open
    <3>4. CASE Commits(t)
      BY <2>1, <3>4 DEF Commits, DeletedOnce
    <3>. QED
      BY <3>1, <3>2, <3>3, <3>4 DEF Works
  <2>. QED
    BY <2>1, <2>2
<1>4. ASSUME NEW v \in deleted'[t]
      PROVE  v \in fpm' /\ Seen(t, v)' /\ Open(t)'
  <2>1. ~Arrives(t) /\ ~Ends(t) /\ ~Commits(t)
    BY <1>4 DEF Arrives, Ends, Commits, DeletedSeen, Open
  <2>2. Works(t) /\ Open(t)'
    BY <2>1, WorksProceeds DEF Same, Open
  <2>3. CASE v \in deleted[t]
    <3>1. v \in fpm /\ Seen(t, v)'
      BY <1>2, <2>3 DEF DeletedSeen
    <3>. QED
      BY <2>2, <3>1 DEF Works, Passes, Picks, Unfiles, FilesItem, Bonds, Locks
  <2>4. CASE v \notin deleted[t]
    <3>1. PICK i \in todo[t] : Unfiles(t, i)
      BY <1>4, <2>2, <2>4 DEF Works, Passes, Picks, FilesItem, Bonds, Locks
    <3>2. v = i /\ v \in fpm /\ fpm' = fpm
      BY <1>4, <2>4, <3>1 DEF Unfiles
    <3>3. Seen(t, v)
      BY <3>1, <3>2 DEF Unfiles, Proceeds, Typed, LeftOver
    <3>. QED
      BY <1>2, <2>2, <3>2, <3>3
  <2>. QED
    BY <2>3, <2>4
<1>. QED
  BY <1>3, <1>4 DEF DeletedSeen

LEMMA DeletedOnceGoesOn ==
    ASSUME Typed, DeletedOnce, NEW t \in Tx, Arrives(t) \/ Works(t) \/ Ends(t) \/ Commits(t)
    PROVE  DeletedOnce'
<1>1. CASE ~(\E i \in todo[t] : Unfiles(t, i))
  <2>1. \A u \in Tx : deleted'[u] \subseteq deleted[u]
    BY <1>1 DEF Works, Arrives, Passes, Picks, FilesItem, Bonds, Locks, Proceeds, Ends, Commits, Alone
  <2>. QED
    BY <2>1 DEF DeletedOnce
<1>2. ASSUME NEW i \in todo[t], Unfiles(t, i)
      PROVE  DeletedOnce'
  <2>1. Holders(t, i) = Deleters(t, i)
    BY <1>2, WaitedFor DEF Unfiles
  <2>2. \A u \in Tx \ {t} : i \notin deleted[u]
    BY <1>2, <2>1 DEF Unfiles, Proceeds, Deleters
  <2>. QED
    BY <1>2, <2>2 DEF Unfiles, Proceeds, Alone, DeletedOnce
<1>. QED
  BY <1>1, <1>2

LEMMA LocksGrow ==
    ASSUME RowTypes, NEW t \in Tx, Works(t)
    PROVE  /\ \A u \in Tx, r \in Targets, mode \in LockMode : Held(u, r, mode) => Held(u, r, mode)'
           /\ \A u \in Tx, r \in Targets, mode \in LockMode :
                 Held(u, r, mode)' =>
                    \/ Held(u, r, mode)
                    \/ u = t /\ \E i \in todo[t] :
                          Locks(t, i) /\ r = i /\ mode = Mode(Statement(t))
                                      /\ r \in alive \cup folders
<1>1. CASE \E i \in todo[t] : Locks(t, i)
  BY <1>1 DEF Locks, Held
<1>2. CASE ~(\E i \in todo[t] : Locks(t, i))
  <2>1. lock' = lock
    BY <1>2 DEF Works, Passes, Picks, Unfiles, FilesItem, Bonds
  <2>. QED
    BY <2>1 DEF Held
<1>. QED
  BY <1>1, <1>2

LEMMA LocksReleased ==
    ASSUME NEW t \in Tx, Ends(t) \/ Commits(t), NEW u \in Tx, NEW r, NEW mode
    PROVE  Held(u, r, mode)' <=> u # t /\ Held(u, r, mode)
BY DEF Ends, Commits, Held

LEMMA LocksKept ==
    ASSUME NEW t \in Tx, Arrives(t)
    PROVE  lock' = lock
BY DEF Arrives

LEMMA LocksHeldGoesOn ==
    ASSUME Typed, LocksHeld, Exclusive, NEW t \in Tx,
           Arrives(t) \/ Works(t) \/ Ends(t) \/ Commits(t)
    PROVE  LocksHeld'
<1>1. RowTypes
  BY DEF Typed
<1>2. SUFFICES ASSUME NEW u \in Tx, NEW r \in Targets, NEW mode \in LockMode, Held(u, r, mode)'
               PROVE  Open(u)' /\ r \in alive' \cup folders'
  BY DEF LocksHeld
<1>3. CASE Arrives(t)
  <2>1. Held(u, r, mode)
    BY <1>2, <1>3, LocksKept DEF Held
  <2>. QED
    BY <1>3, <2>1, Unchanged DEF LocksHeld, Arrives, Open
<1>4. CASE Works(t)
  <2>1. Open(t) /\ Open(t)' /\ alive' = alive /\ folders' = folders /\ Alone(t)
    BY <1>4, WorksProceeds DEF Same, Open
  <2>2. Held(u, r, mode) \/ (u = t /\ r \in alive \cup folders)
    BY <1>1, <1>2, <1>4, LocksGrow
  <2>. QED
    BY <2>1, <2>2, Unchanged DEF LocksHeld
<1>5. CASE Ends(t)
  <2>1. Held(u, r, mode) /\ u # t
    BY <1>2, <1>5, LocksReleased
  <2>. QED
    BY <1>5, <2>1, Unchanged DEF LocksHeld, Ends
<1>6. CASE Commits(t)
  <2>1. Held(u, r, mode) /\ u # t
    BY <1>2, <1>6, LocksReleased
  <2>2. ~Held(t, r, "update")
    BY <2>1 DEF Exclusive
  <2>3. r \notin Doomed(t)
    BY <2>2 DEF Doomed, Held
  <2>. QED
    BY <1>6, <2>1, <2>3, Unchanged DEF LocksHeld, Commits
<1>. QED
  BY <1>3, <1>4, <1>5, <1>6

LEMMA ExclusiveGoesOn ==
    ASSUME Typed, Exclusive, NEW t \in Tx, Arrives(t) \/ Works(t) \/ Ends(t) \/ Commits(t)
    PROVE  Exclusive'
<1>1. RowTypes
  BY DEF Typed
<1>2. CASE Arrives(t)
  BY <1>2, LocksKept DEF Exclusive, Held
<1>3. CASE Works(t)
  <2>1. SUFFICES ASSUME NEW u \in Tx, NEW w \in Tx, NEW r \in Targets, NEW mode \in LockMode,
                        Held(u, r, "update")', Held(w, r, mode)', u # w
                 PROVE  FALSE
    BY DEF Exclusive
  <2>2. ASSUME NEW i \in todo[t], Locks(t, i)
        PROVE  /\ Mode(Statement(t)) = "update" =>
                     \A x \in Tx \ {t}, m \in LockMode : ~Held(x, i, m)
               /\ \A x \in Tx \ {t} : ~Held(x, i, "update")
    <3>1. Holders(t, i) = {}
      BY <2>2 DEF Locks, Proceeds
    <3>2. CASE Statement(t) \in {"delete message", "delete folder"}
      <4>1. LockHolders(t, i, LockMode) = {}
        BY <3>1, <3>2, WaitedFor
      <4>2. \A x \in Tx \ {t}, m \in LockMode : ~Held(x, i, m)
        BY <4>1 DEF LockHolders, Held
      <4>. QED
        BY <4>2 DEF LockMode
    <3>3. CASE Statement(t) = "keys"
      <4>1. LockHolders(t, i, {"update"}) = {}
        BY <3>1, <3>3, WaitedFor
      <4>2. Mode(Statement(t)) = "key share"
        BY <3>3 DEF Mode
      <4>. QED
        BY <4>1, <4>2 DEF LockHolders, Held
    <3>4. CASE Statement(t) = "stamp"
      <4>1. LockHolders(t, i, {"no key update", "update"}) = {}
        BY <3>1, <3>4, WaitedFor
      <4>2. Mode(Statement(t)) = "no key update"
        BY <3>4 DEF Mode
      <4>. QED
        BY <4>1, <4>2 DEF LockHolders, Held
    <3>. QED
      BY <2>2, <3>2, <3>3, <3>4 DEF Locks, Locking
  <2>3. "update" \in LockMode
    BY DEF LockMode
  <2>4. CASE Held(u, r, "update") /\ Held(w, r, mode)
    BY <2>1, <2>4 DEF Exclusive
  <2>5. CASE ~Held(u, r, "update")
    <3>1. u = t /\ \E i \in todo[t] : Locks(t, i) /\ r = i /\ "update" = Mode(Statement(t))
      BY <1>1, <1>3, <2>1, <2>3, <2>5, LocksGrow
    <3>2. Held(w, r, mode)
      BY <1>1, <1>3, <2>1, <3>1, LocksGrow
    <3>. QED
      BY <2>1, <2>2, <3>1, <3>2
  <2>6. CASE ~Held(w, r, mode)
    <3>1. w = t /\ \E i \in todo[t] : Locks(t, i) /\ r = i
      BY <1>1, <1>3, <2>1, <2>6, LocksGrow
    <3>2. Held(u, r, "update")
      BY <1>1, <1>3, <2>1, <2>3, <3>1, LocksGrow
    <3>. QED
      BY <2>1, <2>2, <3>1, <3>2
  <2>. QED
    BY <2>4, <2>5, <2>6
<1>4. CASE Ends(t) \/ Commits(t)
  BY <1>4, LocksReleased DEF Exclusive
<1>. QED
  BY <1>2, <1>3, <1>4

\* A request that has just arrived has not begun its transaction.
LEMMA FirstStatement ==
    ASSUME Typed, NEW t \in Tx, Arrives(t)
    PROVE  /\ Statement(t)' \in {"begin", "check draft"} /\ Open(t)' /\ todo'[t] = Null
           /\ request'[t] \in Requests
<1>1. request'[t] \in Requests /\ pc'[t] = 1 /\ todo'[t] = Null /\ Open(t)'
  BY DEF Arrives, Typed, Asked, Open
<1>2. request'[t].op \in Ops
  BY <1>1, RequestTyped
<1>3. \A op \in Ops : Script[op][1] \in {"begin", "check draft"}
  <2>1. \A op \in {"spam", "move", "take", "save"} : Script[op][1] = "begin"
    BY SpamScript, MoveScript, TakeScript, SaveScript
  <2>2. Script["drop"][1] = "begin"
    BY DropScript
  <2>3. \A op \in {"delete", "send"} : Script[op][1] = "check draft"
    BY DeleteScript, SendScript
  <2>. QED
    BY <2>1, <2>2, <2>3 DEF Ops
<1>. QED
  BY <1>1, <1>2, <1>3 DEF Statement

\* A statement either goes on or makes room for the next.
LEMMA GoesOn ==
    ASSUME Typed, NEW t \in Tx, Works(t)
    PROVE  /\ request'[t] = request[t] /\ request[t] \in Requests
           /\ \/ Statement(t)' = Statement(t) /\ Executing(t) /\ Executing(t)'
              \/ /\ Next1(t) /\ todo'[t] = Null
                 /\ Passes(t) \/ \E i \in todo[t] : Proceeds(t, i) /\ todo[t] = {i}
<1>1. Open(t) /\ Statement(t) # "commit" /\ Same(t) /\ Asked(t)
  BY WorksProceeds DEF Typed
<1>2. request'[t] = request[t] /\ request[t] \in Requests
  BY <1>1 DEF Same, Asked, Open
<1>3. CASE Passes(t)
  BY <1>1, <1>2, <1>3, Progress DEF Passes
<1>4. CASE Picks(t)
  BY <1>2, <1>4, Waits DEF Picks
<1>5. ASSUME NEW i \in todo[t], Proceeds(t, i)
      PROVE  \/ Statement(t)' = Statement(t) /\ Executing(t) /\ Executing(t)'
             \/ Next1(t) /\ todo'[t] = Null /\ todo[t] = {i}
  <2>1. CASE todo[t] = {i} /\ pc'[t] = pc[t] + 1 /\ todo'[t] = Null
    BY <1>1, <2>1, Progress
  <2>2. CASE pc'[t] = pc[t]
    BY <1>1, <1>5, <2>2, Waits DEF Proceeds
  <2>. QED
    BY <1>5, <2>1, <2>2 DEF Proceeds
<1>. QED
  BY <1>2, <1>3, <1>4, <1>5, WorksProceeds

LEMMA SameDoom ==
    ASSUME NEW t \in Tx, NEW u \in Tx \ {t}, Alone(t), NEW r
    PROVE  Dooming(u, r)' <=> Dooming(u, r)
BY Unchanged DEF Dooming

LEMMA DoomKnownGoesOn ==
    ASSUME Typed, LocksHeld, \A u \in Tx : DoomKnown(u), NEW t \in Tx,
           Arrives(t) \/ Works(t) \/ Ends(t) \/ Commits(t)
    PROVE  \A u \in Tx : DoomKnown(u)'
<1>1. RowTypes /\ Alone(t) /\ "update" \in LockMode
  BY WorksProceeds DEF Typed, Arrives, Ends, Commits, LockMode
<1>2. ASSUME NEW u \in Tx \ {t}, NEW r \in Targets, Held(u, r, "update")'
      PROVE  Dooming(u, r)'
  <2>1. Held(u, r, "update")
    <3>1. CASE Arrives(t)
      BY <1>2, <3>1, LocksKept DEF Held
    <3>2. CASE Works(t)
      BY <1>1, <1>2, <3>2, LocksGrow
    <3>3. CASE Ends(t) \/ Commits(t)
      BY <1>2, <3>3, LocksReleased
    <3>. QED
      BY <3>1, <3>2, <3>3
  <2>. QED
    BY <1>1, <2>1, SameDoom DEF DoomKnown
<1>3. ASSUME NEW r \in Targets, Held(t, r, "update")'
      PROVE  Dooming(t, r)'
  <2>1. Works(t)
    <3>1. ~Arrives(t)
      BY <1>1, <1>3, LocksKept DEF Held, LocksHeld, Arrives, Open
    <3>2. ~Ends(t) /\ ~Commits(t)
      BY <1>3, LocksReleased
    <3>. QED
      BY <3>1, <3>2
  <2>2. CASE Held(t, r, "update")
    <3>1. Dooming(t, r) /\ Statement(t) # "commit"
      BY <2>1, <2>2, WorksProceeds DEF DoomKnown
    <3>. QED
      BY <2>1, <3>1, GoesOn DEF Dooming, Next1
  <2>3. CASE ~Held(t, r, "update")
    <3>1. PICK i \in todo[t] : Locks(t, i) /\ r = i /\ "update" = Mode(Statement(t))
      BY <1>1, <1>3, <2>1, <2>3, LocksGrow
    <3>2. Statement(t) \in {"delete message", "delete folder"}
      BY <3>1 DEF Locks, Locking, Mode
    <3>3. LeftOver(t) /\ Proceeds(t, i)
      BY <3>1 DEF Typed, Locks
    <3>4. /\ Statement(t) = "delete message" => i = request[t].msg
          /\ Statement(t) = "delete folder" => i = request[t].folder
          /\ todo[t] = {i}
      BY <3>2, <3>3 DEF LeftOver, Proceeds
    <3>5. Next1(t) /\ request'[t] = request[t]
      <4>1. Open(t) /\ Asked(t) /\ Same(t) /\ pc'[t] = pc[t] + 1
        BY <3>3, <3>4 DEF Typed, Proceeds, Executing
      <4>. QED
        BY <3>2, <4>1, Progress DEF Same
    <3>. QED
      BY <3>1, <3>2, <3>4, <3>5 DEF Dooming, Next1
  <2>. QED
    BY <2>2, <2>3
<1>. QED
  BY <1>2, <1>3 DEF DoomKnown

LEMMA DoomHeldGoesOn ==
    ASSUME Typed, \A u \in Tx : DoomHeld(u), NEW t \in Tx,
           Arrives(t) \/ Works(t) \/ Ends(t) \/ Commits(t)
    PROVE  \A u \in Tx : DoomHeld(u)'
<1>1. RowTypes /\ Alone(t) /\ "update" \in LockMode /\ alive' \subseteq alive /\ folders' \subseteq folders
  BY WorksProceeds DEF Typed, Arrives, Ends, Commits, LockMode
<1>2. ASSUME NEW u \in Tx \ {t}, NEW r \in Targets, Open(u)', Dooming(u, r)', r \in alive' \cup folders'
      PROVE  Held(u, r, "update")'
  <2>1. Held(u, r, "update")
    BY <1>1, <1>2, SameDoom, Unchanged DEF DoomHeld
  <2>2. CASE Arrives(t)
    BY <2>1, <2>2, LocksKept DEF Held
  <2>3. CASE Works(t)
    BY <1>1, <2>1, <2>3, LocksGrow
  <2>4. CASE Ends(t) \/ Commits(t)
    BY <2>1, <2>4, LocksReleased
  <2>. QED
    BY <2>2, <2>3, <2>4
<1>3. ASSUME NEW r \in Targets, Open(t)', Dooming(t, r)', r \in alive' \cup folders'
      PROVE  Held(t, r, "update")'
  <2>1. Works(t)
    <3>1. ~Arrives(t)
      BY <1>3, FirstStatement DEF Dooming
    <3>2. ~Ends(t) /\ ~Commits(t)
      BY <1>3 DEF Ends, Commits, Open
    <3>. QED
      BY <3>1, <3>2
  <2>2. request'[t] = request[t] /\ Open(t)
    BY <2>1, GoesOn, WorksProceeds
  <2>3. CASE Dooming(t, r)
    BY <1>1, <1>3, <2>1, <2>2, <2>3, LocksGrow DEF DoomHeld
  <2>4. CASE ~Dooming(t, r)
    <3>1. /\ \/ Statement(t) = "delete message" /\ r = request[t].msg
             \/ Statement(t) = "delete folder" /\ r = request[t].folder
          /\ Passes(t) \/ \E i \in todo[t] : Proceeds(t, i) /\ todo[t] = {i}
      BY <1>3, <2>1, <2>2, <2>4, GoesOn DEF Dooming, Next1
    <3>2. Executing(t) /\ LeftOver(t) /\ request[t] \in Requests
      BY <2>1, <2>2, <3>1, GoesOn DEF Executing, Typed
    <3>3. Items(t) # {}
      BY <1>1, <3>1, <3>2, PickedTyped
    <3>4. PICK i \in todo[t] : Proceeds(t, i) /\ todo[t] = {i}
      BY <3>1, <3>2, <3>3 DEF Passes, Passable
    <3>5. i = r
      <4>1. todo[t] # Null /\ todo[t] = {i}
        BY <3>4 DEF Proceeds
      <4>2. todo[t] = {r}
        BY <3>1, <3>2, <4>1 DEF LeftOver
      <4>. QED
        BY <4>1, <4>2
    <3>6. \E j \in todo[t] : Locks(t, j)
      <4>1. ~Passes(t) /\ ~Picks(t)
        BY <3>2, <3>3, <3>4 DEF Passes, Passable, Picks, Proceeds
      <4>. QED
        BY <2>1, <3>1, <4>1 DEF Works, Unfiles, Unfiling, FilesItem, Adding, Bonds
    <3>7. Locks(t, r) /\ Mode(Statement(t)) = "update" /\ r \in alive \cup folders
      BY <1>1, <1>3, <3>1, <3>4, <3>5, <3>6 DEF Mode
    <3>. QED
      BY <3>7 DEF Locks, Held
  <2>. QED
    BY <2>3, <2>4
<1>. QED
  BY <1>2, <1>3 DEF DoomHeld

LEMMA KeyedGoesOn ==
    ASSUME Typed, Versions, \A u \in Tx : Keyed(u), NEW t \in Tx,
           Arrives(t) \/ Works(t) \/ Ends(t) \/ Commits(t)
    PROVE  \A u \in Tx : Keyed(u)'
<1>1. RowTypes /\ Alone(t) /\ "key share" \in LockMode
  BY WorksProceeds DEF Typed, Arrives, Ends, Commits, LockMode
<1>2. \A v \in fpm' : v \in fpm \/ v[3] = t
  BY FiledRows DEF Works, Arrives, Passes, Picks, Unfiles, Locks, Bonds, Ends, Commits
<1>3. ASSUME NEW u \in Tx \ {t}, NEW v \in fpm', Open(u)', v[3] = u, NEW r \in {v[1], v[2]}
      PROVE  \/ Held(u, r, "key share")'
             \/ Statement(u)' \in Adding
             \/ Statement(u)' = "keys" /\ (todo'[u] = Null \/ r \in todo'[u])
  <2>1. v \in fpm /\ Open(u) /\ r \in Targets
    BY <1>1, <1>2, <1>3, Unchanged, VersionTyped
  <2>2. Held(u, r, "key share") => Held(u, r, "key share")'
    <3>1. CASE Arrives(t)
      BY <3>1, LocksKept DEF Held
    <3>2. CASE Works(t)
      BY <1>1, <2>1, <3>2, LocksGrow
    <3>3. CASE Ends(t) \/ Commits(t)
      BY <3>3, LocksReleased
    <3>. QED
      BY <3>1, <3>2, <3>3
  <2>3. \/ Held(u, r, "key share")
        \/ Statement(u) \in Adding
        \/ Statement(u) = "keys" /\ (todo[u] = Null \/ r \in todo[u])
    BY <1>3, <2>1 DEF Keyed
  <2>4. Statement(u)' = Statement(u) /\ todo'[u] = todo[u]
    BY <1>1, Unchanged
  <2>. QED
    BY <2>2, <2>3, <2>4
<1>4. ASSUME NEW v \in fpm', Open(t)', v[3] = t, NEW r \in {v[1], v[2]}
      PROVE  \/ Held(t, r, "key share")'
             \/ Statement(t)' \in Adding
             \/ Statement(t)' = "keys" /\ (todo'[t] = Null \/ r \in todo'[t])
  <2>1. Works(t)
    <3>1. ~Arrives(t)
      BY <1>4 DEF Arrives, Versions
    <3>2. ~Ends(t) /\ ~Commits(t)
      BY <1>4 DEF Ends, Commits, Open
    <3>. QED
      BY <3>1, <3>2
  <2>2. Open(t)
    BY <2>1, WorksProceeds
  <2>3. CASE Statement(t) \in Adding
    <3>1. Statement(t)' \in Adding \/ (Statement(t)' = "keys" /\ todo'[t] = Null)
      BY <2>1, <2>3, GoesOn DEF Next1
    <3>. QED
      BY <3>1
  <2>4. CASE Statement(t) \notin Adding
    <3>1. fpm' \subseteq fpm
      BY <2>1, <2>4 DEF Works, Passes, Picks, Unfiles, FilesItem, Locks, Bonds
    <3>2. v \in fpm /\ r \in Targets
      BY <1>1, <1>4, <3>1, VersionTyped
    <3>3. CASE Held(t, r, "key share")
      BY <1>1, <2>1, <3>2, <3>3, LocksGrow
    <3>4. CASE Statement(t) = "keys" /\ (todo[t] = Null \/ r \in todo[t])
      <4>1. r \in Parents(t)
        BY <1>4, <3>2 DEF Parents
      <4>2. Executing(t) /\ request[t] \in Requests
        BY <2>1, <2>2, <3>4, GoesOn DEF Executing
      <4>3. Items(t) = Parents(t)
        BY <1>1, <3>4, <4>2, PickedTyped
      <4>4. ~Passes(t)
        BY <4>1, <4>2, <4>3 DEF Passes, Passable
      <4>5. CASE Picks(t)
        <5>1. Statement(t)' = "keys" /\ todo'[t] = Items(t)
          BY <3>4, <4>5, Waits DEF Picks
        <5>. QED
          BY <4>1, <4>3, <5>1
      <4>6. ASSUME NEW i \in todo[t], Proceeds(t, i)
            PROVE  \/ Held(t, r, "key share")'
                   \/ Statement(t)' = "keys" /\ (todo'[t] = Null \/ r \in todo'[t])
        <5>1. todo[t] # Null
          BY <4>6 DEF Proceeds
        <5>2. CASE r = i
          <6>1. \E j \in todo[t] : Locks(t, j)
            BY <2>1, <3>4, <4>4, <5>1 DEF Works, Picks, Unfiles, Unfiling, FilesItem, Adding, Bonds
          <6>2. ~Refused(t, i)
            BY <4>6 DEF Proceeds
          <6>3. i \in alive \cup folders
            BY <3>4, <6>2 DEF Refused
          <6>4. PICK j \in todo[t] : Locks(t, j)
            BY <6>1
          <6>5. CASE j = i
            <7>1. Mode(Statement(t)) = "key share"
              BY <3>4 DEF Mode
            <7>. QED
              BY <5>2, <6>3, <6>4, <6>5, <7>1 DEF Locks, Held
          <6>6. CASE j # i
            <7>1. Proceeds(t, j)
              BY <6>4 DEF Locks
            <7>2. todo[t] # {j} /\ pc'[t] = pc[t] /\ todo'[t] = todo[t] \ {j} /\ Same(t)
              BY <5>2, <6>6, <7>1 DEF Proceeds
            <7>3. Statement(t)' = Statement(t)
              BY <7>2, Waits
            <7>. QED
              BY <3>4, <5>1, <5>2, <6>6, <7>2, <7>3
          <6>. QED
            BY <6>5, <6>6
        <5>3. CASE r # i
          <6>1. todo[t] # {i} /\ pc'[t] = pc[t] /\ todo'[t] = todo[t] \ {i} /\ Same(t)
            BY <3>4, <4>6, <5>1, <5>3 DEF Proceeds
          <6>2. Statement(t)' = Statement(t)
            BY <6>1, Waits
          <6>. QED
            BY <3>4, <5>1, <5>3, <6>1, <6>2
        <5>. QED
          BY <5>2, <5>3
      <4>. QED
        BY <2>1, <4>4, <4>5, <4>6, WorksProceeds
    <3>. QED
      BY <1>4, <2>2, <2>4, <3>2, <3>3, <3>4 DEF Keyed
  <2>. QED
    BY <2>3, <2>4
<1>. QED
  BY <1>3, <1>4 DEF Keyed

\* Who commits what it has filed holds the message and the folder.
LEMMA KeysHeld ==
    ASSUME RowTypes, NEW t \in Tx, Keyed(t), Commits(t), NEW v \in fpm, v[3] = t,
           NEW r \in {v[1], v[2]}
    PROVE  Held(t, r, "key share")
BY DEF Keyed, Commits, Adding

LEMMA CascadedGoesOn ==
    ASSUME Typed, LocksHeld, Exclusive, \A u \in Tx : DoomKnown(u), \A u \in Tx : Keyed(u),
           \A u \in Tx : Cascaded(u),
           NEW t \in Tx, Arrives(t) \/ Works(t) \/ Ends(t) \/ Commits(t)
    PROVE  \A u \in Tx : Cascaded(u)'
<1>1. /\ RowTypes /\ Alone(t) /\ "update" \in LockMode /\ "key share" \in LockMode
      /\ \A v \in fpm : v \in RowVersion
  BY WorksProceeds DEF Typed, RowTypes, Arrives, Ends, Commits, LockMode
<1>2. \A v \in fpm' : v \in fpm \/ (v[3] = t /\ Works(t) /\ Statement(t) \in Adding)
  BY FiledRows DEF Works, Arrives, Passes, Picks, Unfiles, FilesItem, Locks, Bonds, Ends, Commits
<1>3. ASSUME NEW u \in Tx \ {t}, NEW r \in Targets, Held(u, r, "update")',
             NEW v \in fpm', Seen(u, v)', r \in {v[1], v[2]}
      PROVE  \/ v \in deleted'[u]
             \/ Statement(u)' \in Cascading /\ (todo'[u] = Null \/ v \in todo'[u])
  <2>1. Held(u, r, "update")
    <3>1. CASE Arrives(t)
      BY <1>3, <3>1, LocksKept DEF Held
    <3>2. CASE Works(t)
      BY <1>1, <1>3, <3>2, LocksGrow
    <3>3. CASE Ends(t) \/ Commits(t)
      BY <1>3, <3>3, LocksReleased
    <3>. QED
      BY <3>1, <3>2, <3>3
  <2>2. v \in fpm
    <3>1. v[3] = t /\ Works(t) => ~Seen(u, v)'
      BY WorksProceeds, TxAssumption DEF Seen, Committed, Same, Open
    <3>. QED
      BY <1>2, <1>3, <3>1
  <2>3. Seen(u, v)
    <3>1. CASE Commits(t) /\ v[3] = t
      <4>1. Held(t, r, "key share")
        BY <1>1, <1>3, <2>2, <3>1, KeysHeld
      <4>. QED
        BY <1>1, <2>1, <4>1 DEF Exclusive
    <3>2. CASE ~(Commits(t) /\ v[3] = t)
      <4>1. ~Commits(t) => (status'[t] = "committed" => status[t] = "committed")
        BY WorksProceeds DEF Arrives, Ends, Same
      <4>2. v[3] # t => (Committed(v[3])' <=> Committed(v[3]))
        BY <1>1, <2>2, VersionTyped DEF Committed, Alone
      <4>3. v[3] = t /\ ~Commits(t) => (Committed(v[3])' => Committed(v[3]))
        BY <4>1 DEF Committed
      <4>. QED
        BY <1>3, <3>2, <4>2, <4>3 DEF Seen
    <3>. QED
      BY <3>1, <3>2
  <2>4. \/ v \in deleted[u]
        \/ Statement(u) \in Cascading /\ (todo[u] = Null \/ v \in todo[u])
    BY <1>3, <2>1, <2>2, <2>3 DEF Cascaded
  <2>. QED
    BY <1>1, <2>4, Unchanged
<1>4. ASSUME NEW r \in Targets, Held(t, r, "update")',
             NEW v \in fpm', Seen(t, v)', r \in {v[1], v[2]}
      PROVE  \/ v \in deleted'[t]
             \/ Statement(t)' \in Cascading /\ (todo'[t] = Null \/ v \in todo'[t])
  <2>1. Works(t)
    <3>1. ~Arrives(t)
      BY <1>1, <1>4, LocksKept DEF Held, LocksHeld, Arrives, Open
    <3>. QED
      BY <1>4, <3>1, LocksReleased
  <2>2. Open(t) /\ Statement(t) # "commit" /\ request[t] \in Requests
    BY <2>1, WorksProceeds, GoesOn
  <2>3. CASE ~Held(t, r, "update")
    <3>1. PICK i \in todo[t] : Locks(t, i) /\ r = i /\ "update" = Mode(Statement(t))
      BY <1>1, <1>4, <2>1, <2>3, LocksGrow
    <3>2. Statement(t) \in {"delete message", "delete folder"}
      BY <3>1 DEF Locks, Locking, Mode
    <3>3. todo[t] # Null /\ Executing(t) /\ Same(t) /\ Proceeds(t, i) /\ LeftOver(t)
      BY <3>1 DEF Locks, Proceeds, Typed
    <3>4. \/ todo[t] = {request[t].msg}
          \/ todo[t] = {request[t].folder}
      BY <3>2, <3>3 DEF LeftOver
    <3>5. pc'[t] = pc[t] + 1 /\ todo'[t] = Null
      BY <3>1, <3>3, <3>4 DEF Proceeds
    <3>6. Next1(t)
      BY <2>2, <3>3, <3>5, Progress DEF Typed
    <3>. QED
      BY <3>2, <3>5, <3>6 DEF Next1, Cascading
  <2>4. CASE Held(t, r, "update")
    <3>1. Dooming(t, r) /\ Statement(t) \in Cascading
      BY <2>2, <2>4 DEF DoomKnown, Dooming, Cascading
    <3>2. v \in fpm /\ fpm' = fpm
      BY <1>4, <2>1, <3>1 DEF Works, Passes, Picks, Unfiles, FilesItem, Locks, Locking, Bonds,
                              Cascading, Adding
    <3>3. Seen(t, v)
      BY <1>1, <1>4, <2>1, <3>2, WorksProceeds, VersionTyped DEF Seen, Committed, Alone, Same
    <3>4. v \in deleted[t] \/ todo[t] = Null \/ v \in todo[t]
      BY <1>4, <2>4, <3>2, <3>3 DEF Cascaded
    <3>5. deleted[t] \subseteq deleted'[t]
      BY <2>1 DEF Works, Passes, Picks, Unfiles, FilesItem, Locks, Bonds
    <3>6. v \notin deleted[t] => v \in Visible(t) /\ Selects(t, v)
      <4>1. request[t].msg \in MsgIds /\ request[t].folder \in FolderIds
        BY <2>2, RequestTyped
      <4>2. MsgIds \cap FolderIds = {}
        BY TxAssumption
      <4>3. v[1] \in MsgIds /\ v[2] \in FolderIds
        BY <1>1, <3>2, VersionTyped
      <4>4. \/ Statement(t) = "cascade message" /\ v[1] = request[t].msg
            \/ Statement(t) = "cascade folder" /\ v[2] = request[t].folder
        <5>1. Dooming(t, r) /\ Statement(t) # "commit"
          BY <2>2, <3>1
        <5>2. \/ r = request[t].msg /\ Statement(t) = "cascade message"
              \/ r = request[t].folder /\ Statement(t) = "cascade folder"
          BY <5>1 DEF Dooming
        <5>. QED
          BY <1>4, <4>1, <4>2, <4>3, <5>2
      <4>5. Selects(t, v)
        BY <4>4 DEF Selects
      <4>6. v \notin deleted[t] => v \in Visible(t)
        BY <3>2, <3>3 DEF Visible, Seen
      <4>. QED
        BY <4>5, <4>6
    <3>7. Executing(t) /\ (Items(t) = {w \in Visible(t) : Selects(t, w)})
      <4>1. Executing(t) /\ Statement(t) \in Unfiling
        BY <2>2, <3>1 DEF Executing, Cascading, Unfiling
      <4>. QED
        BY <1>1, <2>2, <4>1, PickedTyped
    <3>8. CASE Passes(t)
      <4>1. Items(t) = {}
        BY <3>7, <3>8 DEF Passes, Passable
      <4>. QED
        BY <3>5, <3>6, <3>7, <4>1
    <3>9. CASE Picks(t)
      <4>1. Statement(t)' = Statement(t) /\ todo'[t] = Items(t)
        BY <3>9, Waits DEF Picks
      <4>. QED
        BY <3>1, <3>5, <3>6, <3>7, <4>1
    <3>10. ASSUME NEW i \in todo[t], Unfiles(t, i)
           PROVE  \/ v \in deleted'[t]
                  \/ Statement(t)' \in Cascading /\ (todo'[t] = Null \/ v \in todo'[t])
      <4>1. /\ Proceeds(t, i) /\ todo[t] # Null
            /\ deleted'[t] = deleted[t] \cup ({i} \cap fpm)
        BY <3>10 DEF Unfiles, Proceeds
      <4>2. CASE v = i \/ v \in deleted[t]
        BY <3>2, <4>1, <4>2
      <4>3. CASE v # i /\ v \notin deleted[t]
        <5>1. v \in todo[t]
          BY <3>4, <4>1, <4>3
        <5>2. pc'[t] = pc[t] /\ todo'[t] = todo[t] \ {i} /\ Same(t)
          BY <4>1, <4>3, <5>1 DEF Proceeds
        <5>3. Statement(t)' = Statement(t)
          BY <5>2, Waits
        <5>. QED
          BY <3>1, <4>3, <5>1, <5>2, <5>3
      <4>. QED
        BY <4>2, <4>3
    <3>. QED
      BY <2>1, <3>1, <3>8, <3>9, <3>10
         DEF Works, FilesItem, Locks, Locking, Bonds, Cascading, Adding
  <2>. QED
    BY <2>3, <2>4
<1>. QED
  BY <1>3, <1>4 DEF Cascaded

LEMMA RootedGoesOn ==
    ASSUME Typed, Locked, NEW t \in Tx, Arrives(t) \/ Works(t) \/ Ends(t) \/ Commits(t)
    PROVE  Rooted'
<1>1. /\ RowTypes /\ Alone(t) /\ "update" \in LockMode /\ "key share" \in LockMode
      /\ MsgIds \cap FolderIds = {}
  BY WorksProceeds, TxAssumption DEF Typed, Arrives, Ends, Commits, LockMode
<1>2. CASE Arrives(t) \/ Works(t) \/ Ends(t)
  <2>1. alive' = alive /\ folders' = folders /\ status'[t] # "committed"
    BY <1>2, WorksProceeds DEF Arrives, Ends, Same, Open
  <2>2. ASSUME NEW v \in fpm', Committed(v[3])'
        PROVE  v \in fpm /\ Committed(v[3])
    <3>1. v \in fpm \/ v[3] = t
      BY <1>2, FiledRows DEF Works, Arrives, Passes, Picks, Unfiles, Locks, Bonds, Ends
    <3>2. v[3] # t
      BY <2>1, <2>2, TxAssumption DEF Committed
    <3>3. v \in fpm
      BY <3>1, <3>2
    <3>. QED
      BY <1>1, <2>2, <3>2, <3>3, VersionTyped DEF Committed, Alone
  <2>. QED
    BY <2>1, <2>2 DEF Locked, Rooted
<1>3. CASE Commits(t)
  <2>1. ASSUME NEW v \in fpm', Committed(v[3])'
        PROVE  v[1] \in alive' /\ v[2] \in folders'
    <3>1. v \in fpm /\ v \notin deleted[t]
      BY <1>3, <2>1 DEF Commits
    <3>2. v[1] \in MsgIds /\ v[2] \in FolderIds /\ v[1] \in Targets /\ v[2] \in Targets
      BY <1>1, <3>1, VersionTyped
    <3>3. Seen(t, v)
      BY <1>1, <2>1, <3>1, VersionTyped DEF Seen, Committed, Alone
    <3>4. v[1] \in alive /\ v[2] \in folders
      <4>1. CASE v[3] = t
        <5>1. Held(t, v[1], "key share") /\ Held(t, v[2], "key share")
          BY <1>1, <1>3, <3>1, <4>1, KeysHeld DEF Locked
        <5>2. v[1] \in alive \cup folders /\ v[2] \in alive \cup folders
          BY <1>1, <3>2, <5>1 DEF Locked, LocksHeld
        <5>. QED
          BY <1>1, <3>2, <5>2 DEF RowTypes
      <4>2. CASE Committed(v[3])
        BY <3>1, <4>2 DEF Locked, Rooted
      <4>. QED
        BY <3>3, <4>1, <4>2 DEF Seen
    <3>5. ASSUME NEW r \in {v[1], v[2]}
          PROVE  r \notin Doomed(t)
      <4>1. Statement(t) \notin Cascading
        BY <1>3 DEF Commits, Cascading
      <4>2. ~Held(t, r, "update")
        BY <3>1, <3>2, <3>3, <4>1 DEF Locked, Cascaded
      <4>. QED
        BY <4>2 DEF Doomed, Held
    <3>. QED
      BY <1>3, <3>4, <3>5 DEF Commits
  <2>. QED
    BY <2>1 DEF Rooted
<1>. QED
  BY <1>2, <1>3

LEMMA LockedStarts == Init => Locked
<1>. SUFFICES ASSUME Init PROVE Locked
  OBVIOUS
<1>1. RowTypes
  BY TypedStarts DEF Typed
<1>2. /\ lock = {} /\ \A t \in Tx : deleted[t] = {} /\ ~Open(t)
      /\ alive = MsgIds /\ folders = FolderIds
  BY DEF Init, Open
<1>3. \A v \in fpm : v[3] = Setup
  BY DEF Init
<1>4. Versions /\ DeletedSeen /\ DeletedOnce /\ LocksHeld /\ Exclusive
  BY <1>2, <1>3, TxAssumption DEF Versions, DeletedSeen, DeletedOnce, LocksHeld, Exclusive, Held
<1>5. \A t \in Tx : DoomKnown(t) /\ DoomHeld(t) /\ Keyed(t) /\ Cascaded(t)
  BY <1>2 DEF DoomKnown, DoomHeld, Keyed, Cascaded, Held
<1>6. Rooted
  BY <1>1, <1>2, VersionTyped DEF Rooted
<1>. QED
  BY <1>4, <1>5, <1>6 DEF Locked

LEMMA LockedGoesOn ==
    ASSUME Typed, Locked, [Next]_vars
    PROVE  Locked'
<1>1. CASE UNCHANGED vars
  <2>1. /\ \A t \in Tx : Open(t)' = Open(t) /\ Statement(t)' = Statement(t)
        /\ \A t \in Tx, r \in Targets, mode \in LockMode : Held(t, r, mode)' = Held(t, r, mode)
        /\ fpm' = fpm /\ deleted' = deleted /\ todo' = todo /\ status' = status
        /\ request' = request /\ alive' = alive /\ folders' = folders /\ lock' = lock
    BY <1>1 DEF vars, Open, Statement, Held
  <2>2. \A t \in Tx, v \in fpm : Seen(t, v)' = Seen(t, v)
    BY <2>1 DEF Seen, Committed
  <2>3. Versions' /\ DeletedSeen' /\ DeletedOnce' /\ LocksHeld' /\ Exclusive' /\ Rooted'
    BY <1>1, <2>1 DEF Locked, Versions, DeletedSeen, DeletedOnce, LocksHeld, Exclusive, Rooted,
                 Committed, Seen, Held
  <2>4. \A t \in Tx : DoomKnown(t)' /\ DoomHeld(t)'
    BY <2>1 DEF Locked, DoomKnown, DoomHeld, Dooming, Held
  <2>5. \A t \in Tx : Keyed(t)'
    BY <2>1 DEF Locked, Keyed, Held
  <2>6. \A t \in Tx : Cascaded(t)'
    BY <2>1 DEF Locked, Cascaded, Held, Seen, Committed
  <2>. QED
    BY <2>3, <2>4, <2>5, <2>6 DEF Locked
<1>2. ASSUME NEW t \in Tx, Arrives(t) \/ Works(t) \/ Ends(t) \/ Commits(t)
      PROVE  Locked'
  <2>1. Versions' /\ DeletedSeen' /\ DeletedOnce'
    BY <1>2, VersionsGoOn, DeletedSeenGoesOn, DeletedOnceGoesOn DEF Locked
  <2>2. LocksHeld' /\ Exclusive'
    BY <1>2, LocksHeldGoesOn, ExclusiveGoesOn DEF Locked
  <2>3. \A u \in Tx : DoomKnown(u)'
    BY <1>2, DoomKnownGoesOn DEF Locked
  <2>4. \A u \in Tx : DoomHeld(u)'
    BY <1>2, DoomHeldGoesOn DEF Locked
  <2>5. \A u \in Tx : Keyed(u)'
    BY <1>2, KeyedGoesOn DEF Locked
  <2>6. \A u \in Tx : Cascaded(u)'
    BY <1>2, CascadedGoesOn DEF Locked
  <2>7. Rooted'
    BY <1>2, RootedGoesOn
  <2>. QED
    BY <2>1, <2>2, <2>3, <2>4, <2>5, <2>6, <2>7 DEF Locked
<1>. QED
  BY <1>1, <1>2, StepsOf DEF Typed

LEMMA LockedHolds == Spec => [](Typed /\ Locked)
<1>1. Init => Typed /\ Locked
  BY TypedStarts, LockedStarts
<1>2. Typed /\ Locked /\ [Next]_vars => Typed' /\ Locked'
  BY TypedStutters, TypedGoesOn, LockedGoesOn
<1>. QED
  BY <1>1, <1>2, PTL DEF Spec

\* However many transactions run side by side and whichever of them fail, no
\* committed placement is in a message or folder that is gone: DeleteDraft and
\* DeleteFolder leave none behind (message-repository.go:622, :943).
THEOREM NoOrphanHolds == Spec => []NoOrphan
<1>1. Typed /\ Locked => NoOrphan
  BY DEF Locked, Rooted, NoOrphan, Placed
<1>. QED
  BY <1>1, LockedHolds, PTL


-----------------------------------------------------------------------------
(* Connections. *)

Served == {t \in Tx : Open(t)}

\* Who holds a connection is being served, and a connection is taken only when
\* one is free.
Pooled ==
    /\ IsFiniteSet(Served) /\ Cardinality(Served) <= load.open
    /\ Cardinality(Holding) <= load.pool

LEMMA PastGrows ==
    ASSUME NEW t \in Tx, pc[t] \in 1 .. 10, request'[t] = request[t], pc'[t] = pc[t] + 1
    PROVE  Past(t)' = Past(t) \cup {Statement(t)}
<1>. DEFINE S(i) == Script[request[t].op][i]
<1>1. 1 .. pc'[t] - 1 = (1 .. pc[t] - 1) \cup {pc[t]}
  OBVIOUS
<1>2. Past(t)' = {S(i) : i \in 1 .. pc'[t] - 1}
  BY DEF Past
<1>3. Past(t) = {S(i) : i \in 1 .. pc[t] - 1} /\ Statement(t) = S(pc[t])
  BY DEF Past, Statement
<1>. HIDE DEF S
<1>. QED
  BY <1>1, <1>2, <1>3

LEMMA PastStays ==
    ASSUME NEW t \in Tx, request'[t] = request[t], pc'[t] = pc[t]
    PROVE  Past(t)' = Past(t)
BY DEF Past

LEMMA HoldingGoesOn ==
    ASSUME Typed, NEW t \in Tx, Arrives(t) \/ Works(t) \/ Ends(t) \/ Commits(t)
    PROVE  /\ \/ Holding' \subseteq Holding
              \/ /\ Passes(t) /\ Statement(t) = "begin"
                 /\ Holding' \subseteq Holding \cup {t}
           /\ Served' \subseteq Served \cup {t}
           /\ Served' \subseteq Served \/ Arrives(t)
<1>1. Alone(t)
  BY WorksProceeds DEF Arrives, Ends, Commits
<1>2. \A u \in Tx \ {t} : Past(u)' = Past(u) /\ (Open(u)' <=> Open(u))
  BY <1>1, PastStays DEF Alone, Open
<1>3. Holding' \subseteq Holding \cup {t} /\ Served' \subseteq Served \cup {t}
  BY <1>2 DEF Holding, Served
<1>4. Served' \subseteq Served \/ Arrives(t)
  <2>1. Works(t) => Open(t)
    BY WorksProceeds
  <2>2. ~Arrives(t) => (Open(t)' => Open(t))
    BY <2>1 DEF Ends, Commits
  <2>. QED
    BY <1>3, <2>2 DEF Served
<1>5. CASE Arrives(t)
  <2>1. pc'[t] = 1
    BY <1>5 DEF Arrives, Typed, Asked
  <2>2. Past(t)' = {}
    BY <2>1 DEF Past
  <2>3. t \notin Holding'
    BY <2>2 DEF Holding
  <2>. QED
    BY <1>3, <1>4, <2>3
<1>6. CASE Ends(t) \/ Commits(t)
  <2>1. t \notin Holding'
    BY <1>6 DEF Ends, Commits, Holding, Open
  <2>. QED
    BY <1>3, <1>4, <2>1
<1>7. CASE Works(t)
  <2>1. Open(t) /\ request'[t] = request[t] /\ pc[t] \in 1 .. 10
    BY <1>7, WorksProceeds DEF Same, Typed, Functions
  <2>2. CASE pc'[t] = pc[t]
    <3>1. Past(t)' = Past(t)
      BY <2>1, <2>2, PastStays
    <3>2. t \in Holding' => t \in Holding
      BY <2>1, <3>1 DEF Holding
    <3>. QED
      BY <1>3, <1>4, <3>2
  <2>3. CASE pc'[t] = pc[t] + 1 /\ Statement(t) # "begin"
    <3>1. Past(t)' = Past(t) \cup {Statement(t)}
      BY <2>1, <2>3, PastGrows
    <3>2. t \in Holding' => t \in Holding
      BY <2>1, <2>3, <3>1 DEF Holding
    <3>. QED
      BY <1>3, <1>4, <3>2
  <2>4. CASE Statement(t) = "begin"
    <3>1. Passes(t)
      BY <1>7, <2>4, WorksProceeds DEF Picks, Proceeds, Executing
    <3>. QED
      BY <1>3, <1>4, <2>4, <3>1
  <2>5. pc'[t] = pc[t] \/ pc'[t] = pc[t] + 1
    BY <1>7, WorksProceeds DEF Passes, Picks, Proceeds
  <2>. QED
    BY <2>2, <2>3, <2>4, <2>5
<1>. QED
  BY <1>5, <1>6, <1>7

LEMMA PooledGoesOn ==
    ASSUME Typed, Pooled, NEW t \in Tx, Arrives(t) \/ Works(t) \/ Ends(t) \/ Commits(t)
    PROVE  Pooled'
<1>1. load' = load /\ load.pool \in Nat /\ load.open \in Nat
  BY WorksProceeds, TxAssumption DEF Arrives, Ends, Commits, Alone, Typed, Functions
<1>2. IsFiniteSet(Served') /\ Cardinality(Served') <= load.open
  <2>1. IsFiniteSet(Served) /\ Cardinality(Served) \in Nat /\ Cardinality(Served) <= load.open
    BY FS_CardinalityType DEF Pooled
  <2>2. CASE Served' \subseteq Served
    <3>1. IsFiniteSet(Served') /\ Cardinality(Served') <= Cardinality(Served)
      BY <2>1, <2>2, FS_Subset
    <3>2. Cardinality(Served') \in Nat
      BY <3>1, FS_CardinalityType
    <3>. QED
      BY <1>1, <2>1, <3>1, <3>2
  <2>3. CASE Arrives(t) /\ Served' \subseteq Served \cup {t}
    <3>1. Cardinality(Served) < load.open
      BY <2>3 DEF Arrives, Served
    <3>2. IsFiniteSet(Served \cup {t})
      BY <2>1, FS_AddElement
    <3>3. \/ Cardinality(Served \cup {t}) = Cardinality(Served)
          \/ Cardinality(Served \cup {t}) = Cardinality(Served) + 1
      BY <2>1, FS_AddElement
    <3>4. IsFiniteSet(Served') /\ Cardinality(Served') <= Cardinality(Served \cup {t})
      BY <2>3, <3>2, FS_Subset
    <3>5. Cardinality(Served') \in Nat
      BY <3>4, FS_CardinalityType
    <3>. QED
      BY <1>1, <2>1, <3>1, <3>3, <3>4, <3>5
  <2>. QED
    BY <2>2, <2>3, HoldingGoesOn
<1>3. IsFiniteSet(Holding) /\ Cardinality(Holding) \in Nat
  <2>1. Holding \subseteq Served
    BY DEF Holding, Served
  <2>. QED
    BY <2>1, FS_Subset, FS_CardinalityType DEF Pooled
<1>4. CASE Holding' \subseteq Holding
  <2>1. Cardinality(Holding') <= Cardinality(Holding) /\ Cardinality(Holding') \in Nat
    BY <1>3, <1>4, FS_Subset, FS_CardinalityType
  <2>. QED
    BY <1>1, <1>2, <1>3, <2>1 DEF Pooled
<1>5. CASE Passes(t) /\ Statement(t) = "begin" /\ Holding' \subseteq Holding \cup {t}
  <2>1. Cardinality(Holding) < load.pool
    BY <1>5 DEF Passes, Passable, ConnectionFree
  <2>2. IsFiniteSet(Holding \cup {t}) /\ Cardinality(Holding \cup {t}) <= Cardinality(Holding) + 1
    <3>1. \/ Cardinality(Holding \cup {t}) = Cardinality(Holding)
          \/ Cardinality(Holding \cup {t}) = Cardinality(Holding) + 1
      BY <1>3, FS_AddElement
    <3>2. IsFiniteSet(Holding \cup {t})
      BY <1>3, FS_AddElement
    <3>. QED
      BY <1>3, <3>1, <3>2
  <2>3. Cardinality(Holding') <= Cardinality(Holding \cup {t}) /\ Cardinality(Holding') \in Nat
        /\ Cardinality(Holding \cup {t}) \in Nat
    BY <1>5, <2>2, FS_Subset, FS_CardinalityType
  <2>. QED
    BY <1>1, <1>2, <1>3, <2>1, <2>2, <2>3 DEF Pooled
<1>. QED
  BY <1>4, <1>5, HoldingGoesOn

LEMMA PooledHolds == Spec => []Pooled
<1>1. Init => Pooled
  <2>. SUFFICES ASSUME Init PROVE Pooled
    OBVIOUS
  <2>1. Served = {} /\ Holding = {} /\ load.pool \in Nat /\ load.open \in Nat
    BY TxAssumption DEF Init, Served, Holding, Open
  <2>. QED
    BY <2>1, FS_EmptySet DEF Pooled
<1>2. Typed /\ Pooled /\ [Next]_vars => Pooled'
  <2>. SUFFICES ASSUME Typed, Pooled, [Next]_vars PROVE Pooled'
    OBVIOUS
  <2>1. CASE UNCHANGED vars
    <3>1. Served' = Served /\ Holding' = Holding /\ load' = load
      BY <2>1 DEF vars, Served, Holding, Open, Past
    <3>. QED
      BY <3>1 DEF Pooled
  <2>. QED
    BY <2>1, StepsOf, PooledGoesOn DEF Typed
<1>. QED
  BY <1>1, <1>2, TypedHolds, PTL DEF Spec

\* Two open requests are served at once.
LEMMA TwoServed ==
    ASSUME Typed, Pooled, NEW t \in Tx, NEW u \in Tx, t # u, Open(t), Open(u)
    PROVE  load.open > 1
<1>1. load.open \in Nat /\ Cardinality(Served) \in Nat
  BY TxAssumption, FS_CardinalityType DEF Typed, Functions, Pooled
<1>2. {t, u} \subseteq Served
  BY DEF Served
<1>3. IsFiniteSet({t}) /\ Cardinality({t}) = 1
  BY FS_Singleton
<1>4. Cardinality({t} \cup {u}) = 2
  BY <1>3, FS_AddElement
<1>5. {t} \cup {u} = {t, u}
  OBVIOUS
<1>6. Cardinality({t, u}) <= Cardinality(Served)
  BY <1>2, FS_Subset DEF Pooled
<1>. QED
  BY <1>1, <1>4, <1>5, <1>6 DEF Pooled

\* Every variable keeps to its domain, no more transactions hold a connection
\* than the pool has, what a transaction has deleted is there until it commits,
\* and locks are held on rows that are there
\* (message-repository.go, main.go of the messages service).
THEOREM TypeOKHolds == Spec => []TypeOK
<1>1. Typed /\ Locked /\ Pooled => TypeOK
  <2>. SUFFICES ASSUME Typed, Locked, Pooled PROVE TypeOK
    OBVIOUS
  <2>1. \A t \in Tx : status[t] # "idle" => pc[t] \in DOMAIN Script[request[t].op]
    BY DEF Typed, Asked, Lines
  <2>2. deleted \in [Tx -> SUBSET fpm]
    BY DEF Typed, Functions, Locked, DeletedSeen
  <2>3. lock \subseteq Tx \X (alive \cup folders) \X LockMode
    BY DEF Typed, RowTypes, Locked, LocksHeld, Held
  <2>. QED
    BY <2>1, <2>2, <2>3 DEF Typed, Functions, RowTypes, Pooled, TypeOK
<1>. QED
  BY <1>1, LockedHolds, PooledHolds, PTL


-----------------------------------------------------------------------------
(* What each operation does, statement by statement. *)

\* Statement next may come after statement this of op.
Moves(op, this, next) ==
    /\ op = "spam" =>
          \/ this = "begin" /\ next = "file in spam"
          \/ this = "file in spam" /\ next = "keys"
          \/ this = "keys" /\ next = "unfile elsewhere"
          \/ this = "unfile elsewhere" /\ next = "commit"
    /\ op = "move" =>
          \/ this = "begin" /\ next = "unfile everywhere"
          \/ this = "unfile everywhere" /\ next = "file in target"
          \/ this = "file in target" /\ next = "keys"
          \/ this = "keys" /\ next = "commit"
    /\ op = "take" =>
          \/ this = "begin" /\ next = "unfile target"
          \/ this = "unfile target" /\ next = "commit"
    /\ op = "save" =>
          \/ this = "begin" /\ next = "check draft"
          \/ this = "check draft" /\ next = "stamp"
          \/ this = "stamp" /\ next = "bond"
          \/ this = "bond" /\ next = "commit"
    /\ op = "delete" =>
          \/ this = "check draft" /\ next = "begin"
          \/ this = "begin" /\ next = "check draft"
          \/ this = "check draft" /\ next = "unfile everywhere"
          \/ this = "unfile everywhere" /\ next = "delete message"
          \/ this = "delete message" /\ next = "cascade message"
          \/ this = "cascade message" /\ next = "commit"
    /\ op = "send" =>
          \/ this = "check draft" /\ next = "begin"
          \/ this = "begin" /\ next = "find"
          \/ this = "find" /\ next = "stamp"
          \/ this = "stamp" /\ next = "unfile draft"
          \/ this = "unfile draft" /\ next = "file in sent"
          \/ this = "file in sent" /\ next = "keys"
          \/ this = "keys" /\ next = "file in inbox"
          \/ this = "file in inbox" /\ next = "keys"
          \/ this = "keys" /\ next = "commit"
    /\ op = "drop" =>
          \/ this = "begin" /\ next = "check folder"
          \/ this = "check folder" /\ next = "file in trash"
          \/ this = "file in trash" /\ next = "keys"
          \/ this = "keys" /\ next = "empty folder"
          \/ this = "empty folder" /\ next = "delete folder"
          \/ this = "delete folder" /\ next = "cascade folder"
          \/ this = "cascade folder" /\ next = "commit"

LEMMA MovesOn ==
    ASSUME NEW op \in Ops, NEW i \in Lines(op), Script[op][i] # "commit"
    PROVE  Moves(op, Script[op][i], Script[op][i + 1])
<1>1. CASE op = "spam"
  <2>1. i # 5 /\ Lines(op) = 1 .. 5
    BY <1>1, SpamLines, SpamScript
  <2>2. \/ i = 1 /\ i + 1 = 2
        \/ i = 2 /\ i + 1 = 3
        \/ i = 3 /\ i + 1 = 4
        \/ i = 4 /\ i + 1 = 5
    BY <2>1
  <2>. QED
    BY <1>1, <2>2, SpamScript DEF Moves
<1>2. CASE op = "move"
  <2>1. i # 5 /\ Lines(op) = 1 .. 5
    BY <1>2, MoveLines, MoveScript
  <2>2. \/ i = 1 /\ i + 1 = 2
        \/ i = 2 /\ i + 1 = 3
        \/ i = 3 /\ i + 1 = 4
        \/ i = 4 /\ i + 1 = 5
    BY <2>1
  <2>. QED
    BY <1>2, <2>2, MoveScript DEF Moves
<1>3. CASE op = "take"
  <2>1. i # 3 /\ Lines(op) = 1 .. 3
    BY <1>3, TakeLines, TakeScript
  <2>2. \/ i = 1 /\ i + 1 = 2
        \/ i = 2 /\ i + 1 = 3
    BY <2>1
  <2>. QED
    BY <1>3, <2>2, TakeScript DEF Moves
<1>4. CASE op = "save"
  <2>1. i # 5 /\ Lines(op) = 1 .. 5
    BY <1>4, SaveLines, SaveScript
  <2>2. \/ i = 1 /\ i + 1 = 2
        \/ i = 2 /\ i + 1 = 3
        \/ i = 3 /\ i + 1 = 4
        \/ i = 4 /\ i + 1 = 5
    BY <2>1
  <2>. QED
    BY <1>4, <2>2, SaveScript DEF Moves
<1>5. CASE op = "delete"
  <2>1. i # 7 /\ Lines(op) = 1 .. 7
    BY <1>5, DeleteLines, DeleteScript
  <2>2. \/ i = 1 /\ i + 1 = 2
        \/ i = 2 /\ i + 1 = 3
        \/ i = 3 /\ i + 1 = 4
        \/ i = 4 /\ i + 1 = 5
        \/ i = 5 /\ i + 1 = 6
        \/ i = 6 /\ i + 1 = 7
    BY <2>1
  <2>. QED
    BY <1>5, <2>2, DeleteScript DEF Moves
<1>6. CASE op = "send"
  <2>1. i # 10 /\ Lines(op) = 1 .. 10
    BY <1>6, SendLines, SendScript
  <2>2. \/ i = 1 /\ i + 1 = 2
        \/ i = 2 /\ i + 1 = 3
        \/ i = 3 /\ i + 1 = 4
        \/ i = 4 /\ i + 1 = 5
        \/ i = 5 /\ i + 1 = 6
        \/ i = 6 /\ i + 1 = 7
        \/ i = 7 /\ i + 1 = 8
        \/ i = 8 /\ i + 1 = 9
        \/ i = 9 /\ i + 1 = 10
    BY <2>1
  <2>. QED
    BY <1>6, <2>2, SendScript DEF Moves
<1>7. CASE op = "drop"
  <2>1. i # 8 /\ Lines(op) = 1 .. 8
    BY <1>7, DropLines, DropScript
  <2>2. \/ i = 1 /\ i + 1 = 2
        \/ i = 2 /\ i + 1 = 3
        \/ i = 3 /\ i + 1 = 4
        \/ i = 4 /\ i + 1 = 5
        \/ i = 5 /\ i + 1 = 6
        \/ i = 6 /\ i + 1 = 7
        \/ i = 7 /\ i + 1 = 8
    BY <2>1
  <2>. QED
    BY <1>7, <2>2, DropScript DEF Moves
<1>. QED
  BY <1>1, <1>2, <1>3, <1>4, <1>5, <1>6, <1>7 DEF Ops

\* Which operations have statement s.
Belongs(op, s) ==
    /\ s = "unfile everywhere" => op \in {"move", "delete"}
    /\ s = "unfile elsewhere" => op = "spam"
    /\ s = "unfile draft" => op = "send"
    /\ s = "unfile target" => op = "take"
    /\ s \in {"empty folder", "cascade folder", "file in trash"} => op = "drop"
    /\ s = "cascade message" => op = "delete"
    /\ s = "file in spam" => op = "spam"
    /\ s \in {"file in sent", "file in inbox"} => op = "send"
    /\ s = "file in target" => op = "move"

LEMMA Belonging ==
    ASSUME NEW op \in Ops, NEW i \in Lines(op)
    PROVE  Belongs(op, Script[op][i])
<1>1. CASE op = "spam"
  <2>1. Lines(op) = 1 .. 5
    BY <1>1, SpamLines
  <2>2. \/ i = 1 \/ i = 2 \/ i = 3 \/ i = 4 \/ i = 5
    BY <2>1
  <2>. QED
    BY <1>1, <2>2, SpamScript DEF Belongs
<1>2. CASE op = "move"
  <2>1. Lines(op) = 1 .. 5
    BY <1>2, MoveLines
  <2>2. \/ i = 1 \/ i = 2 \/ i = 3 \/ i = 4 \/ i = 5
    BY <2>1
  <2>. QED
    BY <1>2, <2>2, MoveScript DEF Belongs
<1>3. CASE op = "take"
  <2>1. Lines(op) = 1 .. 3
    BY <1>3, TakeLines
  <2>2. \/ i = 1 \/ i = 2 \/ i = 3
    BY <2>1
  <2>. QED
    BY <1>3, <2>2, TakeScript DEF Belongs
<1>4. CASE op = "save"
  <2>1. Lines(op) = 1 .. 5
    BY <1>4, SaveLines
  <2>2. \/ i = 1 \/ i = 2 \/ i = 3 \/ i = 4 \/ i = 5
    BY <2>1
  <2>. QED
    BY <1>4, <2>2, SaveScript DEF Belongs
<1>5. CASE op = "delete"
  <2>1. Lines(op) = 1 .. 7
    BY <1>5, DeleteLines
  <2>2. \/ i = 1 \/ i = 2 \/ i = 3 \/ i = 4 \/ i = 5
        \/ i = 6 \/ i = 7
    BY <2>1
  <2>. QED
    BY <1>5, <2>2, DeleteScript DEF Belongs
<1>6. CASE op = "send"
  <2>1. Lines(op) = 1 .. 10
    BY <1>6, SendLines
  <2>2. \/ i = 1 \/ i = 2 \/ i = 3 \/ i = 4 \/ i = 5
        \/ i = 6 \/ i = 7 \/ i = 8 \/ i = 9 \/ i = 10
    BY <2>1
  <2>. QED
    BY <1>6, <2>2, SendScript DEF Belongs
<1>7. CASE op = "drop"
  <2>1. Lines(op) = 1 .. 8
    BY <1>7, DropLines
  <2>2. \/ i = 1 \/ i = 2 \/ i = 3 \/ i = 4 \/ i = 5
        \/ i = 6 \/ i = 7 \/ i = 8
    BY <2>1
  <2>. QED
    BY <1>7, <2>2, DropScript DEF Belongs
<1>. QED
  BY <1>1, <1>2, <1>3, <1>4, <1>5, <1>6, <1>7 DEF Ops


LEMMA StatementOf ==
    ASSUME NEW t \in Tx, Asked(t), status[t] # "idle"
    PROVE  Belongs(request[t].op, Statement(t))
<1>1. request[t].op \in Ops /\ pc[t] \in Lines(request[t].op)
  BY RequestTyped DEF Asked
<1>. QED
  BY <1>1, Belonging DEF Statement

Turns(t) ==
    /\ Moves(request[t].op, Statement(t), Statement(t)')
    /\ todo'[t] = Null
    /\ Passes(t) \/ \E i \in todo[t] : Proceeds(t, i) /\ todo[t] = {i}

\* A statement goes on with what is left of it, or the next one of its script is up.
LEMMA Onward ==
    ASSUME Typed, NEW t \in Tx, Works(t)
    PROVE  /\ Alone(t) /\ UNCHANGED tables
           /\ request'[t] = request[t] /\ request[t] \in Requests
           /\ status'[t] = "open" /\ status[t] = "open"
           /\ \/ Statement(t)' = Statement(t) /\ Picks(t)
              \/ /\ Statement(t)' = Statement(t)
                 /\ \E i \in todo[t] :
                       Proceeds(t, i) /\ todo[t] # {i} /\ todo'[t] = todo[t] \ {i}
              \/ Turns(t)
<1>1. Open(t) /\ Statement(t) # "commit" /\ Same(t) /\ Asked(t) /\ Alone(t) /\ UNCHANGED tables
  BY WorksProceeds DEF Typed
<1>2. request'[t] = request[t] /\ request[t] \in Requests /\ request[t].op \in Ops
  BY <1>1, RequestTyped DEF Same, Asked, Open
<1>3. ASSUME pc'[t] = pc[t] + 1
      PROVE  Moves(request[t].op, Statement(t), Statement(t)')
  <2>1. pc[t] \in Lines(request[t].op)
    BY <1>1 DEF Asked, Open
  <2>2. /\ Statement(t) = Script[request[t].op][pc[t]]
        /\ Statement(t)' = Script[request[t].op][pc[t] + 1]
    BY <1>2, <1>3 DEF Statement
  <2>. QED
    BY <1>1, <1>2, <2>1, <2>2, MovesOn
<1>4. CASE Passes(t)
  BY <1>1, <1>2, <1>3, <1>4 DEF Passes, Turns, Same, Open
<1>5. CASE Picks(t)
  BY <1>1, <1>2, <1>5, Waits DEF Picks, Same, Open
<1>6. ASSUME NEW i \in todo[t], Proceeds(t, i)
      PROVE  \/ Statement(t)' = Statement(t) /\ todo[t] # {i} /\ todo'[t] = todo[t] \ {i}
             \/ Turns(t)
  <2>1. CASE todo[t] = {i} /\ pc'[t] = pc[t] + 1 /\ todo'[t] = Null
    BY <1>3, <1>6, <2>1 DEF Turns
  <2>2. CASE todo[t] # {i} /\ pc'[t] = pc[t] /\ todo'[t] = todo[t] \ {i}
    BY <1>1, <2>2, Waits
  <2>. QED
    BY <1>6, <2>1, <2>2 DEF Proceeds
<1>. QED
  BY <1>1, <1>2, <1>4, <1>5, <1>6, WorksProceeds DEF Same, Open

LEMMA SystemFolder ==
    ASSUME NEW p \in Users, NEW y \in SystemTypes
    PROVE  /\ <<p, y>> \in FolderIds /\ <<p, y>> \notin CustomIds
           /\ OwnerOf(<<p, y>>) = p /\ TypeOf(<<p, y>>) = y
<1>1. <<p, y>> \in Users \X SystemTypes
  OBVIOUS
<1>2. <<p, y>> \in FolderIds /\ <<p, y>> \notin CustomIds
  BY <1>1, TxAssumption DEF FolderIds
<1>. QED
  BY <1>2 DEF OwnerOf, TypeOf

LEMMA FolderKinds ==
    ASSUME NEW f \in FolderIds
    PROVE  /\ OwnerOf(f) \in Users
           /\ f \in CustomIds => TypeOf(f) = "custom"
           /\ f \notin CustomIds => TypeOf(f) \in SystemTypes /\ f = <<OwnerOf(f), TypeOf(f)>>
BY TxAssumption DEF FolderIds, OwnerOf, TypeOf

-----------------------------------------------------------------------------
(* What a request may delete and insert. *)

\* The placements e that t may insert.
MayFile(t, e) ==
    LET r == request[t]
    IN  \/ r.op = "spam" /\ e = <<r.msg, <<r.user, "spam">>>>
        \/ r.op = "send" /\ e = <<r.msg, <<r.user, "sent">>>>
        \/ r.op = "send" /\ e = <<r.msg, <<r.user, "inbox">>>>
        \/ r.op = "move" /\ e = <<r.msg, r.folder>>
        \/ r.op = "drop" /\ e[2] = <<r.user, "trash">>

\* The versions that t may delete.
MayUnfile(t, v) ==
    LET r == request[t]
    IN  \/ /\ r.op \in {"spam", "move", "take", "send"}
           /\ v[1] = r.msg /\ OwnerOf(v[2]) = r.user
           /\ r.op = "spam" => TypeOf(v[2]) # "spam"
           /\ r.op = "send" => TypeOf(v[2]) = "draft"
        \/ r.op = "delete" /\ v[1] = r.msg
        \/ r.op = "drop" /\ v[2] = r.folder /\ r.folder \in CustomIds

\* A folder is deleted only after a look at whose it is.
Checked(t) ==
    status[t] # "idle" /\ request[t].op = "drop" /\ Statement(t) \notin {"begin", "check folder"}
        => request[t].folder \in CustomIds /\ OwnerOf(request[t].folder) = request[t].user

Chosen(t) ==
    Open(t) /\ todo[t] # Null =>
        /\ Statement(t) \in Unfiling => \A v \in todo[t] : MayUnfile(t, v)
        /\ Statement(t) \in Adding => \A e \in todo[t] : MayFile(t, e)
        /\ Statement(t) \in Adding \ {"file in trash"} => todo[t] = Additions(t)

Inserting == {"file in target", "keys", "commit"}

Inserted(t) ==
    \A v \in fpm : v[3] = t =>
        /\ status[t] # "idle" /\ MayFile(t, <<v[1], v[2]>>)
        /\ request[t].op = "move" => Statement(t) \in Inserting

\* Nobody deletes what he has inserted.
Removed(t) == \A v \in deleted[t] : MayUnfile(t, v) /\ v[3] # t

Kinds ==
    \A t \in Tx : Checked(t) /\ Chosen(t) /\ Inserted(t) /\ Removed(t)

LEMMA Selected ==
    ASSUME Typed, NEW t \in Tx, Open(t), Checked(t), Statement(t) \in Unfiling,
           NEW v \in fpm, Selects(t, v)
    PROVE  MayUnfile(t, v)
<1>1. Belongs(request[t].op, Statement(t))
  BY StatementOf DEF Typed, Open
<1>2. CASE Statement(t) \in {"unfile everywhere", "unfile elsewhere", "unfile draft", "unfile target"}
  <2>1. /\ v[1] = request[t].msg /\ OwnerOf(v[2]) = request[t].user
        /\ Statement(t) = "unfile elsewhere" => TypeOf(v[2]) # "spam"
        /\ Statement(t) = "unfile draft" => TypeOf(v[2]) = "draft"
    BY <1>2 DEF Selects, FoldersOf
  <2>. QED
    BY <1>1, <1>2, <2>1 DEF Belongs, MayUnfile
<1>3. CASE Statement(t) = "cascade message"
  BY <1>1, <1>3 DEF Selects, Belongs, MayUnfile
<1>4. CASE Statement(t) \in {"empty folder", "cascade folder"}
  <2>1. request[t].op = "drop" /\ v[2] = request[t].folder
    BY <1>1, <1>4 DEF Selects, Belongs
  <2>2. request[t].folder \in CustomIds
    BY <1>4, <2>1 DEF Checked, Open
  <2>. QED
    BY <2>1, <2>2 DEF MayUnfile
<1>. QED
  BY <1>2, <1>3, <1>4 DEF Unfiling

LEMMA Added ==
    ASSUME Typed, NEW t \in Tx, Open(t), Statement(t) \in Adding, NEW e \in Additions(t)
    PROVE  MayFile(t, e)
<1>1. Belongs(request[t].op, Statement(t))
  BY StatementOf DEF Typed, Open
<1>2. CASE Statement(t) = "file in trash"
  <2>1. Additions(t) =
          {<<v[1], <<request[t].user, "trash">>>> :
             v \in {w \in Visible(t) : w[2] = request[t].folder}}
    BY <1>2 DEF Additions
  <2>2. e[2] = <<request[t].user, "trash">>
    BY <2>1
  <2>. QED
    BY <1>1, <1>2, <2>2 DEF Belongs, MayFile
<1>3. CASE Statement(t) = "file in spam"
  BY <1>1, <1>3 DEF Additions, Belongs, MayFile
<1>4. CASE Statement(t) = "file in sent"
  BY <1>1, <1>4 DEF Additions, Belongs, MayFile
<1>5. CASE Statement(t) = "file in inbox"
  BY <1>1, <1>5 DEF Additions, Belongs, MayFile
<1>6. CASE Statement(t) = "file in target"
  BY <1>1, <1>6 DEF Additions, Belongs, MayFile
<1>. QED
  BY <1>2, <1>3, <1>4, <1>5, <1>6 DEF Adding

\* What a request inserts is not among what it deletes.
LEMMA Apart ==
    ASSUME Typed, Kinds, NEW t \in Tx, Open(t), Statement(t) \in Unfiling,
           NEW v \in fpm, v[3] = t, MayUnfile(t, v)
    PROVE  FALSE
<1>1. MayFile(t, <<v[1], v[2]>>) /\ Belongs(request[t].op, Statement(t))
  BY StatementOf DEF Kinds, Inserted, Typed, Open
<1>2. request[t].user \in Users
  BY RequestTyped DEF Typed, Asked, Open
<1>3. \A y \in SystemTypes : /\ <<request[t].user, y>> \notin CustomIds
                             /\ TypeOf(<<request[t].user, y>>) = y
  BY <1>2, SystemFolder
<1>4. CASE request[t].op = "move"
  BY <1>4 DEF Kinds, Inserted, Inserting, Unfiling
<1>5. CASE request[t].op = "spam"
  <2>1. v[2] = <<request[t].user, "spam">>
    BY <1>1, <1>5 DEF MayFile
  <2>. QED
    BY <1>3, <1>5, <2>1 DEF MayUnfile, SystemTypes
<1>6. CASE request[t].op = "send"
  <2>1. v[2] \in {<<request[t].user, "sent">>, <<request[t].user, "inbox">>}
    BY <1>1, <1>6 DEF MayFile
  <2>. QED
    BY <1>3, <1>6, <2>1 DEF MayUnfile, SystemTypes
<1>7. CASE request[t].op = "drop"
  <2>1. v[2] = <<request[t].user, "trash">>
    BY <1>1, <1>7 DEF MayFile
  <2>. QED
    BY <1>3, <1>7, <2>1 DEF MayUnfile, SystemTypes
<1>. QED
  BY <1>1, <1>4, <1>5, <1>6, <1>7 DEF MayFile


LEMMA CheckedGoesOn ==
    ASSUME Typed, \A u \in Tx : Checked(u), NEW t \in Tx,
           Arrives(t) \/ Works(t) \/ Ends(t) \/ Commits(t)
    PROVE  \A u \in Tx : Checked(u)'
<1>1. Alone(t)
  BY WorksProceeds DEF Arrives, Ends, Commits
<1>2. \A u \in Tx \ {t} : Checked(u)'
  BY <1>1, Unchanged DEF Checked
<1>3. CASE Arrives(t)
  <2>1. Statement(t)' \in {"begin", "check draft"} /\ request'[t] \in Requests /\ pc'[t] = 1
    BY <1>3, FirstStatement DEF Arrives, Typed, Asked
  <2>2. request'[t].op = "drop" => Statement(t)' = "begin"
    BY <2>1, DropScript DEF Statement
  <2>. QED
    BY <1>2, <2>2 DEF Checked
<1>4. CASE Works(t)
  <2>1. /\ request'[t] = request[t] /\ status[t] = "open"
        /\ Statement(t)' = Statement(t) \/ Turns(t)
    BY <1>4, Onward
  <2>2. CASE Statement(t) = "check folder" /\ Turns(t)
    <3>1. Passes(t)
      BY <2>2 DEF Turns, Proceeds, Executing
    <3>2. request[t].folder \in FoldersOf(request[t].user) \cap CustomIds
      BY <2>2, <3>1 DEF Passes, Passable
    <3>. QED
      BY <1>2, <2>1, <3>2 DEF Checked, FoldersOf
  <2>3. CASE ~(Statement(t) = "check folder" /\ Turns(t))
    BY <1>2, <2>1, <2>3 DEF Checked, Turns, Moves
  <2>. QED
    BY <2>2, <2>3
<1>5. CASE Ends(t) \/ Commits(t)
  <2>1. Statement(t)' = Statement(t) /\ request'[t] = request[t] /\ status[t] # "idle"
    BY <1>5 DEF Ends, Commits, Statement, Open
  <2>. QED
    BY <1>2, <2>1 DEF Checked
<1>. QED
  BY <1>3, <1>4, <1>5

LEMMA ChosenGoesOn ==
    ASSUME Typed, Kinds, NEW t \in Tx, Arrives(t) \/ Works(t) \/ Ends(t) \/ Commits(t)
    PROVE  \A u \in Tx : Chosen(u)'
<1>1. Alone(t) /\ RowTypes
  BY WorksProceeds DEF Arrives, Ends, Commits, Typed
<1>2. ASSUME NEW u \in Tx, request'[u] = request[u]
      PROVE  /\ \A v : MayUnfile(u, v)' = MayUnfile(u, v)
             /\ \A e : MayFile(u, e)' = MayFile(u, e)
             /\ /\ Statement(u)' = Statement(u)
                /\ Statement(u) \in Adding \ {"file in trash"}
                => Additions(u)' = Additions(u)
  <2>1. \A v : MayUnfile(u, v)' = MayUnfile(u, v)
    BY <1>2 DEF MayUnfile
  <2>2. \A e : MayFile(u, e)' = MayFile(u, e)
    BY <1>2 DEF MayFile
  <2>3. ASSUME Statement(u)' = Statement(u), Statement(u) \in Adding \ {"file in trash"}
        PROVE  Additions(u)' = Additions(u)
    BY <1>2, <2>3 DEF Additions, Adding
  <2>. QED
    BY <2>1, <2>2, <2>3
<1>3. ASSUME NEW u \in Tx \ {t}
      PROVE  Chosen(u)'
  <2>1. /\ request'[u] = request[u] /\ Statement(u)' = Statement(u)
        /\ (Open(u)' <=> Open(u)) /\ todo'[u] = todo[u]
    BY <1>1, Unchanged
  <2>2. Chosen(u)
    BY DEF Kinds
  <2>3. CASE Statement(u) \in Adding \ {"file in trash"}
    <3>1. Additions(u)' = Additions(u)
      BY <1>2, <2>1, <2>3
    <3>. QED
      BY <1>2, <2>1, <2>2, <3>1 DEF Chosen
  <2>4. CASE Statement(u) \notin Adding \ {"file in trash"}
    BY <1>2, <2>1, <2>2, <2>4 DEF Chosen
  <2>. QED
    BY <2>3, <2>4
<1>4. CASE Arrives(t)
  <2>1. todo'[t] = Null
    BY <1>4, FirstStatement
  <2>. QED
    BY <1>3, <2>1 DEF Chosen
<1>5. CASE Ends(t) \/ Commits(t)
  <2>1. ~Open(t)'
    BY <1>5 DEF Ends, Commits, Open
  <2>. QED
    BY <1>3, <2>1 DEF Chosen
<1>6. CASE Works(t)
  <2>1. request'[t] = request[t] /\ request[t] \in Requests /\ Open(t) /\ Checked(t) /\ Chosen(t)
    BY <1>6, Onward DEF Kinds, Open
  <2>2. CASE Turns(t)
    BY <1>3, <2>2 DEF Turns, Chosen
  <2>3. CASE Statement(t)' = Statement(t) /\ Picks(t)
    <3>1. Executing(t) /\ todo'[t] = Items(t)
      BY <2>3 DEF Picks
    <3>2. Statement(t) \in Unfiling => \A v \in Items(t) : MayUnfile(t, v)
      <4>1. SUFFICES ASSUME Statement(t) \in Unfiling, NEW v \in Items(t) PROVE MayUnfile(t, v)
        OBVIOUS
      <4>2. v \in fpm /\ Selects(t, v)
        BY <1>1, <2>1, <3>1, <4>1, PickedTyped DEF Visible
      <4>. QED
        BY <2>1, <4>1, <4>2, Selected
    <3>3. Statement(t) \in Adding => Items(t) = Additions(t) /\ \A e \in Items(t) : MayFile(t, e)
      <4>1. SUFFICES ASSUME Statement(t) \in Adding
                     PROVE  Items(t) = Additions(t) /\ \A e \in Items(t) : MayFile(t, e)
        OBVIOUS
      <4>2. Items(t) = Additions(t)
        BY <1>1, <2>1, <3>1, <4>1, PickedTyped
      <4>3. \A e \in Additions(t) : MayFile(t, e)
        BY <2>1, <4>1, Added
      <4>. QED
        BY <4>2, <4>3
    <3>4. Chosen(t)'
      <4>1. Statement(t)' \in Unfiling => \A v \in todo'[t] : MayUnfile(t, v)'
        BY <1>2, <2>1, <2>3, <3>1, <3>2
      <4>2. Statement(t)' \in Adding => \A e \in todo'[t] : MayFile(t, e)'
        BY <1>2, <2>1, <2>3, <3>1, <3>3
      <4>3. Statement(t)' \in Adding \ {"file in trash"} => todo'[t] = Additions(t)'
        BY <1>2, <2>1, <2>3, <3>1, <3>3
      <4>. QED
        BY <4>1, <4>2, <4>3 DEF Chosen
    <3>. QED
      BY <1>3, <3>4
  <2>4. ASSUME Statement(t)' = Statement(t),
               NEW i \in todo[t], Proceeds(t, i), todo[t] # {i}, todo'[t] = todo[t] \ {i}
        PROVE  Chosen(t)'
    <3>1. todo[t] # Null
      BY <2>4 DEF Proceeds
    <3>2. Statement(t) \notin Adding \ {"file in trash"}
      <4>1. SUFFICES ASSUME Statement(t) \in Adding \ {"file in trash"} PROVE FALSE
        OBVIOUS
      <4>2. todo[t] = Additions(t)
        BY <2>1, <3>1, <4>1 DEF Chosen
      <4>3. \E e : Additions(t) = {e}
        BY <4>1 DEF Additions, Adding
      <4>. QED
        BY <2>4, <4>2, <4>3
    <3>. QED
      BY <1>2, <2>1, <2>4, <3>1, <3>2 DEF Chosen
  <2>. QED
    BY <1>3, <1>6, <2>2, <2>3, <2>4, Onward
<1>. QED
  BY <1>4, <1>5, <1>6

LEMMA InsertedGoesOn ==
    ASSUME Typed, Kinds, NEW t \in Tx, Arrives(t) \/ Works(t) \/ Ends(t) \/ Commits(t)
    PROVE  \A u \in Tx : Inserted(u)'
<1>1. Alone(t) /\ RowTypes
  BY WorksProceeds DEF Arrives, Ends, Commits, Typed
<1>2. ASSUME NEW u \in Tx, request'[u] = request[u], NEW v
      PROVE  MayFile(u, v)' = MayFile(u, v)
  BY <1>2 DEF MayFile
<1>3. \A v \in fpm' : v \in fpm \/ v[3] = t
  BY FiledRows DEF Works, Arrives, Passes, Picks, Unfiles, FilesItem, Locks, Bonds, Ends, Commits
<1>4. \A u \in Tx \ {t} : Inserted(u)'
  <2>1. SUFFICES ASSUME NEW u \in Tx \ {t}, NEW v \in fpm', v[3] = u
                 PROVE  /\ status'[u] # "idle" /\ MayFile(u, <<v[1], v[2]>>)'
                        /\ request'[u].op = "move" => Statement(u)' \in Inserting
    BY DEF Inserted
  <2>2. /\ status[u] # "idle" /\ MayFile(u, <<v[1], v[2]>>)
        /\ request[u].op = "move" => Statement(u) \in Inserting
    BY <1>3, <2>1 DEF Kinds, Inserted
  <2>. QED
    BY <1>1, <1>2, <2>2, Unchanged
<1>5. ASSUME NEW v \in fpm', v[3] = t, v \in fpm
      PROVE  /\ status'[t] # "idle" /\ MayFile(t, <<v[1], v[2]>>)'
             /\ request'[t].op = "move" => Statement(t)' \in Inserting
  <2>1. /\ status[t] # "idle" /\ MayFile(t, <<v[1], v[2]>>)
        /\ request[t].op = "move" => Statement(t) \in Inserting
    BY <1>5 DEF Kinds, Inserted
  <2>2. CASE Works(t)
    <3>1. /\ request'[t] = request[t] /\ status'[t] = "open"
          /\ Statement(t)' = Statement(t) \/ Moves(request[t].op, Statement(t), Statement(t)')
      BY <2>2, Onward DEF Turns
    <3>. QED
      BY <1>2, <2>1, <3>1 DEF Moves, Inserting
  <2>3. CASE Ends(t) \/ Commits(t)
    <3>1. Statement(t)' = Statement(t) /\ request'[t] = request[t] /\ status'[t] # "idle"
      BY <2>3 DEF Ends, Commits, Statement
    <3>. QED
      BY <1>2, <2>1, <3>1
  <2>. QED
    BY <2>1, <2>2, <2>3 DEF Arrives
<1>6. ASSUME NEW v \in fpm', v[3] = t, v \notin fpm
      PROVE  /\ status'[t] # "idle" /\ MayFile(t, <<v[1], v[2]>>)'
             /\ request'[t].op = "move" => Statement(t)' \in Inserting
  <2>1. PICK i \in todo[t] : FilesItem(t, i)
    BY <1>6 DEF Works, Arrives, Passes, Picks, Unfiles, Locks, Bonds, Ends, Commits
  <2>2. /\ Works(t) /\ Proceeds(t, i) /\ Statement(t) \in Adding /\ Open(t) /\ todo[t] # Null
    BY <2>1 DEF Works, FilesItem, Proceeds, Executing
  <2>3. i \in MsgIds \X FolderIds /\ MayFile(t, i)
    BY <2>1, <2>2 DEF Typed, LeftOver, Proceeds, Kinds, Chosen
  <2>4. v = <<i[1], i[2], t>> /\ <<v[1], v[2]>> = i
    BY <1>6, <2>1, <2>3, FiledRows
  <2>5. /\ request'[t] = request[t] /\ status'[t] = "open"
        /\ Statement(t)' = Statement(t) \/ Moves(request[t].op, Statement(t), Statement(t)')
    BY <2>2, Onward DEF Turns
  <2>6. Belongs(request[t].op, Statement(t))
    BY <2>2, StatementOf DEF Typed, Open
  <2>7. request[t].op = "move" => Statement(t)' \in Inserting
    BY <2>2, <2>5, <2>6 DEF Moves, Belongs, Adding, Inserting
  <2>. QED
    BY <1>2, <2>3, <2>4, <2>5, <2>7
<1>. QED
  BY <1>4, <1>5, <1>6 DEF Inserted

LEMMA RemovedGoesOn ==
    ASSUME Typed, DeletedSeen, Kinds, NEW t \in Tx,
           Arrives(t) \/ Works(t) \/ Ends(t) \/ Commits(t)
    PROVE  \A u \in Tx : Removed(u)'
<1>1. Alone(t) /\ RowTypes
  BY WorksProceeds DEF Arrives, Ends, Commits, Typed
<1>2. ASSUME NEW u \in Tx, request'[u] = request[u], NEW v
      PROVE  MayUnfile(u, v)' = MayUnfile(u, v)
  BY <1>2 DEF MayUnfile
<1>3. \A u \in Tx \ {t} : Removed(u)'
  BY <1>1, <1>2, Unchanged DEF Kinds, Removed
<1>4. CASE Arrives(t)
  <2>1. deleted'[t] = {}
    BY <1>4 DEF Arrives, DeletedSeen, Open
  <2>. QED
    BY <1>3, <2>1 DEF Removed
<1>5. CASE Ends(t) \/ Commits(t)
  <2>1. deleted'[t] = {}
    BY <1>5 DEF Ends, Commits
  <2>. QED
    BY <1>3, <2>1 DEF Removed
<1>6. CASE Works(t)
  <2>1. request'[t] = request[t]
    BY <1>6, Onward
  <2>2. ASSUME NEW v \in deleted'[t], v \notin deleted[t]
        PROVE  MayUnfile(t, v) /\ v[3] # t
    <3>1. PICK i \in todo[t] : Unfiles(t, i)
      BY <1>6, <2>2 DEF Works, Passes, Picks, FilesItem, Bonds, Locks
    <3>2. v = i /\ v \in fpm /\ Statement(t) \in Unfiling /\ Open(t) /\ todo[t] # Null
      BY <2>2, <3>1 DEF Unfiles, Proceeds, Executing
    <3>3. MayUnfile(t, v)
      BY <3>1, <3>2 DEF Kinds, Chosen
    <3>. QED
      BY <3>2, <3>3, Apart
  <2>. QED
    BY <1>2, <1>3, <2>1, <2>2 DEF Kinds, Removed
<1>. QED
  BY <1>4, <1>5, <1>6

LEMMA KindsStart == Init => Kinds
<1>. SUFFICES ASSUME Init, NEW t \in Tx
              PROVE  Checked(t) /\ Chosen(t) /\ Inserted(t) /\ Removed(t)
  BY DEF Kinds
<1>1. status[t] = "idle" /\ todo[t] = Null /\ deleted[t] = {}
  BY DEF Init
<1>2. \A v \in fpm : v[3] = Setup
  BY DEF Init
<1>. QED
  BY <1>1, <1>2, TxAssumption DEF Checked, Chosen, Inserted, Removed, Open

LEMMA KindsGoOn ==
    ASSUME Typed, DeletedSeen, Kinds, NEW t \in Tx,
           Arrives(t) \/ Works(t) \/ Ends(t) \/ Commits(t)
    PROVE  Kinds'
<1>1. \A u \in Tx : Checked(u)'
  BY CheckedGoesOn DEF Kinds
<1>. QED
  BY <1>1, ChosenGoesOn, InsertedGoesOn, RemovedGoesOn DEF Kinds


-----------------------------------------------------------------------------
(* How rows come and go. *)

LEMMA RowsGo ==
    ASSUME Typed, Locked, Kinds, NEW t \in Tx, Arrives(t) \/ Works(t) \/ Ends(t) \/ Commits(t),
           NEW v \in fpm, v \notin fpm'
    PROVE  \/ Ends(t) /\ v[3] = t
           \/ /\ Commits(t) /\ v \in deleted[t] /\ MayUnfile(t, v)
              /\ v[3] # t /\ Committed(v[3])
<1>1. CASE Ends(t)
  BY <1>1 DEF Ends
<1>2. CASE Commits(t)
  <2>1. v \in deleted[t]
    BY <1>2 DEF Commits
  <2>2. MayUnfile(t, v) /\ v[3] # t
    BY <2>1 DEF Kinds, Removed
  <2>. QED
    BY <1>2, <2>1, <2>2 DEF Locked, DeletedSeen, Seen
<1>3. ~Arrives(t) /\ ~Works(t)
  BY FiledRows DEF Arrives, Works, Passes, Picks, Unfiles, Locks, Bonds
<1>. QED
  BY <1>1, <1>2, <1>3

LEMMA RowsCome ==
    ASSUME NEW t \in Tx, Arrives(t) \/ Works(t) \/ Ends(t) \/ Commits(t),
           NEW v \in fpm', v \notin fpm
    PROVE  /\ v[3] = t
           /\ \E i \in todo[t] : FilesItem(t, i) /\ v = <<i[1], i[2], t>>
<1>1. PICK i \in todo[t] : FilesItem(t, i)
  BY DEF Works, Arrives, Passes, Picks, Unfiles, Locks, Bonds, Ends, Commits
<1>. QED
  BY <1>1, FiledRows

\* Who may be read after a step could be read before, or has just committed.
LEMMA RowsShow ==
    ASSUME Typed, NEW t \in Tx, Arrives(t) \/ Works(t) \/ Ends(t) \/ Commits(t),
           NEW v \in fpm', Committed(v[3])'
    PROVE  v \in fpm /\ (Committed(v[3]) \/ (Commits(t) /\ v[3] = t))
<1>1. Alone(t) /\ RowTypes
  BY WorksProceeds DEF Arrives, Ends, Commits, Typed
<1>2. ASSUME v \in fpm, v[3] # t
      PROVE  Committed(v[3])
  <2>1. v[3] = Setup \/ v[3] \in Tx \ {t}
    BY <1>1, <1>2, VersionTyped
  <2>2. v[3] \in Tx \ {t} => status'[v[3]] = status[v[3]]
    BY <1>1 DEF Alone
  <2>3. v[3] = Setup \/ status'[v[3]] = "committed"
    BY DEF Committed
  <2>. QED
    BY <2>1, <2>2, <2>3 DEF Committed
<1>3. CASE Commits(t)
  <2>1. v \in fpm
    BY <1>3 DEF Commits
  <2>. QED
    BY <1>3, <1>2, <2>1
<1>4. CASE ~Commits(t)
  <2>1. status'[t] # "committed"
    BY <1>4, WorksProceeds DEF Arrives, Ends, Same, Open
  <2>2. v[3] # t
    BY <2>1, TxAssumption DEF Committed
  <2>3. v \in fpm
    BY <2>2, RowsCome
  <2>. QED
    BY <1>2, <2>2, <2>3
<1>. QED
  BY <1>3, <1>4

LEMMA Committing ==
    ASSUME NEW t \in Tx, Arrives(t) \/ Works(t) \/ Ends(t) \/ Commits(t),
           NEW u \in Tx, status[u] # "committed", status'[u] = "committed"
    PROVE  u = t /\ Commits(t)
<1>1. Alone(t)
  BY WorksProceeds DEF Arrives, Ends, Commits
<1>2. u = t
  BY <1>1 DEF Alone
<1>. QED
  BY <1>2, WorksProceeds DEF Arrives, Ends, Same, Open

\* A request answered stays answered.
LEMMA AnswersStay ==
    ASSUME NEW t \in Tx, Arrives(t) \/ Works(t) \/ Ends(t) \/ Commits(t),
           NEW u \in Tx, status[u] \notin {"idle", "open"}
    PROVE  status'[u] = status[u] /\ request'[u] = request[u] /\ pc'[u] = pc[u]
<1>1. Alone(t) /\ (u = t => FALSE)
  BY WorksProceeds DEF Arrives, Ends, Commits, Open
<1>. QED
  BY <1>1 DEF Alone

\* An INSERT that may not meet a duplicate ends with its row there.
LEMMA InsertEnds ==
    ASSUME Typed, Kinds, NEW t \in Tx, Works(t), Turns(t),
           Statement(t) \in Adding \ {"file in trash"}
    PROVE  \E i \in Additions(t) : FilesItem(t, i) /\ Additions(t) = {i}
<1>1. Executing(t) /\ request[t] \in Requests /\ Open(t)
  BY Onward DEF Executing, Open, Adding
<1>2. Additions(t) # {}
  BY DEF Additions, Adding
<1>3. ~Passes(t)
  <2>1. Items(t) = Additions(t)
    BY <1>1, PickedTyped DEF Typed
  <2>. QED
    BY <1>1, <1>2, <2>1 DEF Passes, Passable
<1>4. PICK i \in todo[t] : Proceeds(t, i) /\ todo[t] = {i}
  BY <1>3 DEF Turns
<1>5. todo[t] = Additions(t)
  BY <1>1, <1>4 DEF Kinds, Chosen, Proceeds
<1>6. ~Picks(t)
  BY <1>4 DEF Picks, Proceeds
<1>7. \E j \in todo[t] : FilesItem(t, j)
  BY <1>3, <1>6 DEF Works, Unfiles, Locks, Locking, Bonds, Unfiling, Adding
<1>. QED
  BY <1>4, <1>5, <1>7

LEMMA Filed ==
    ASSUME NEW t \in Tx, NEW i, FilesItem(t, i)
    PROVE  \/ <<i[1], i[2], t>> \in fpm'
           \/ /\ fpm' = fpm /\ Statement(t) \in OnConflictDoNothing
              /\ \E v \in Duplicates(t, i) : TRUE
<1>1. CASE Duplicates(t, i) = {}
  BY <1>1 DEF FilesItem
<1>2. CASE Duplicates(t, i) # {}
  <2>1. Statement(t) \in OnConflictDoNothing
    BY <1>2 DEF FilesItem, Proceeds, Refused
  <2>. QED
    BY <1>2, <2>1 DEF FilesItem
<1>. QED
  BY <1>1, <1>2

LEMMA LockedKindsHold == Spec => [](Typed /\ Locked /\ Kinds)
<1>1. Typed /\ Locked /\ Kinds /\ [Next]_vars => Kinds'
  <2>. SUFFICES ASSUME Typed, Locked, Kinds, [Next]_vars PROVE Kinds'
    OBVIOUS
  <2>1. CASE UNCHANGED vars
    <3>1. /\ request' = request /\ status' = status /\ todo' = todo /\ fpm' = fpm
          /\ deleted' = deleted /\ pc' = pc /\ folders' = folders
      BY <2>1 DEF vars
    <3>2. ASSUME NEW t \in Tx
          PROVE  /\ Statement(t)' = Statement(t) /\ Open(t)' = Open(t)
                 /\ Additions(t)' = Additions(t)
                 /\ \A v : MayUnfile(t, v)' = MayUnfile(t, v) /\ MayFile(t, v)' = MayFile(t, v)
      <4>1. Statement(t)' = Statement(t) /\ Open(t)' = Open(t) /\ Visible(t)' = Visible(t)
        BY <3>1 DEF Statement, Open, Visible, Committed
      <4>2. Additions(t)' = Additions(t)
        BY <3>1, <4>1 DEF Additions
      <4>. QED
        BY <3>1, <4>1, <4>2 DEF MayUnfile, MayFile
    <3>3. ASSUME NEW t \in Tx
          PROVE  Checked(t)' /\ Chosen(t)' /\ Inserted(t)' /\ Removed(t)'
      <4>1. Checked(t)'
        BY <3>1, <3>2 DEF Kinds, Checked
      <4>2. Chosen(t)'
        BY <3>1, <3>2 DEF Kinds, Chosen
      <4>3. Inserted(t)'
        BY <3>1, <3>2 DEF Kinds, Inserted
      <4>4. Removed(t)'
        BY <3>1, <3>2 DEF Kinds, Removed
      <4>. QED
        BY <4>1, <4>2, <4>3, <4>4
    <3>. QED
      BY <3>3 DEF Kinds
  <2>. QED
    BY <2>1, StepsOf, KindsGoOn DEF Typed, Locked
<1>. QED
  BY <1>1, KindsStart, LockedHolds, PTL DEF Spec

-----------------------------------------------------------------------------
(* A request answered without error has done its work. *)

\* From the end of its INSERT a move's row is there.
MoveFiled(t) ==
    Open(t) /\ request[t].op = "move" /\ Statement(t) \in {"keys", "commit"}
        => <<request[t].msg, request[t].folder, t>> \in fpm

LEMMA MoveFiledGoesOn ==
    ASSUME Typed, Locked, Kinds, \A u \in Tx : MoveFiled(u), NEW t \in Tx,
           Arrives(t) \/ Works(t) \/ Ends(t) \/ Commits(t)
    PROVE  \A u \in Tx : MoveFiled(u)'
<1>1. Alone(t)
  BY WorksProceeds DEF Arrives, Ends, Commits
<1>2. ASSUME NEW u \in Tx, Open(u), Open(u)', NEW v \in fpm, v[3] = u
      PROVE  v \in fpm'
  BY <1>2, RowsGo, TxAssumption DEF Committed, Open, Ends
<1>3. SUFFICES ASSUME NEW u \in Tx, Open(u)', request'[u].op = "move",
                      Statement(u)' \in {"keys", "commit"}
               PROVE  <<request'[u].msg, request'[u].folder, u>> \in fpm'
  BY DEF MoveFiled
<1>4. CASE u # t
  <2>1. <<request[u].msg, request[u].folder, u>> \in fpm /\ Open(u)
    BY <1>1, <1>3, <1>4, Unchanged DEF MoveFiled
  <2>. QED
    BY <1>1, <1>2, <1>3, <1>4, <2>1, Unchanged
<1>5. CASE u = t
  <2>1. Works(t)
    BY <1>3, <1>5, FirstStatement DEF Ends, Commits, Open
  <2>2. /\ request'[t] = request[t] /\ request[t] \in Requests /\ Open(t)
        /\ Statement(t)' = Statement(t) \/ Turns(t)
    BY <2>1, Onward DEF Open
  <2>3. CASE Statement(t) \in {"keys", "commit"}
    <3>1. <<request[t].msg, request[t].folder, t>> \in fpm
      BY <1>3, <1>5, <2>2, <2>3 DEF MoveFiled
    <3>. QED
      BY <1>2, <1>3, <1>5, <2>2, <3>1
  <2>4. CASE Statement(t) \notin {"keys", "commit"}
    <3>1. Statement(t) = "file in target" /\ Turns(t)
      BY <1>3, <1>5, <2>2, <2>4 DEF Turns, Moves
    <3>2. Additions(t) = {<<request[t].msg, request[t].folder>>}
      BY <3>1 DEF Additions
    <3>3. FilesItem(t, <<request[t].msg, request[t].folder>>)
      BY <2>1, <3>1, <3>2, InsertEnds DEF Adding
    <3>4. <<request[t].msg, request[t].folder, t>> \in fpm'
      BY <3>1, <3>3, Filed DEF OnConflictDoNothing
    <3>. QED
      BY <1>5, <2>2, <3>4
  <2>. QED
    BY <2>3, <2>4
<1>. QED
  BY <1>4, <1>5

LEMMA MoveFiledHolds == Spec => [](\A t \in Tx : MoveFiled(t))
<1>1. Init => \A t \in Tx : MoveFiled(t)
  BY DEF Init, MoveFiled, Open
<1>2. Typed /\ Locked /\ Kinds /\ (\A t \in Tx : MoveFiled(t)) /\ [Next]_vars
        => (\A t \in Tx : MoveFiled(t))'
  <2>1. (\A t \in Tx : MoveFiled(t)) /\ UNCHANGED vars => (\A t \in Tx : MoveFiled(t))'
    BY DEF vars, MoveFiled, Open, Statement
  <2>. QED
    BY <2>1, StepsOf, MoveFiledGoesOn DEF Typed
<1>. QED
  BY <1>1, <1>2, LockedKindsHold, PTL DEF Spec

\* Whatever else runs, when MoveToFolder commits the message lies in the folder it
\* was asked for, and when DeleteDraft or DeleteFolder commits, the draft or the
\* folder is gone (message-repository.go:622, :763, :943).
THEOREM KeepsItsWordHolds == Spec => KeepsItsWord
<1>1. Typed /\ Locked /\ Kinds /\ (\A t \in Tx : MoveFiled(t)) /\ [Next]_vars
        => [\A t \in Tx : Answered(t) =>
              LET r == request[t]
              IN  /\ r.op = "move" => <<r.msg, r.folder>> \in Placed'
                  /\ r.op = "delete" => r.msg \notin alive'
                  /\ r.op = "drop" => r.folder \notin folders']_vars
  <2>. SUFFICES ASSUME Typed, Locked, Kinds, \A t \in Tx : MoveFiled(t), Next,
                       NEW t \in Tx, Answered(t)
                PROVE  /\ request[t].op = "move" =>
                             <<request[t].msg, request[t].folder>> \in Placed'
                       /\ request[t].op = "delete" => request[t].msg \notin alive'
                       /\ request[t].op = "drop" => request[t].folder \notin folders'
    OBVIOUS
  <2>1. Open(t) /\ status[t] # "committed" /\ status'[t] = "committed"
    BY DEF Answered, Open
  <2>2. PICK u \in Tx : Arrives(u) \/ Works(u) \/ Ends(u) \/ Commits(u)
    BY <2>1, StepsOf DEF Typed, vars
  <2>3. Commits(t)
    BY <2>1, <2>2, Committing
  <2>4. Statement(t) = "commit" /\ request[t] \in Requests
    BY <2>1, <2>3 DEF Commits, Typed, Asked, Open
  <2>5. request[t].msg \in MsgIds /\ request[t].folder \in FolderIds
    BY <2>4, RequestTyped
  <2>6. ASSUME NEW r \in Targets, Dooming(t, r)
        PROVE  r \notin alive' /\ r \notin folders'
    <3>1. r \in alive \cup folders => Held(t, r, "update")
      BY <2>1, <2>6 DEF Locked, DoomHeld
    <3>2. r \in Targets
      BY <2>6
    <3>. QED
      BY <2>3, <3>1, <3>2 DEF Commits, Doomed, Held, Targets
  <2>7. request[t].op = "delete" => request[t].msg \notin alive'
    BY <2>4, <2>5, <2>6 DEF Dooming, Targets
  <2>8. request[t].op = "drop" => request[t].folder \notin folders'
    BY <2>4, <2>5, <2>6 DEF Dooming, Targets
  <2>9. ASSUME request[t].op = "move"
        PROVE  <<request[t].msg, request[t].folder>> \in Placed'
    <3>1. PICK v \in fpm : v[3] = t /\ v[1] = request[t].msg /\ v[2] = request[t].folder
      BY <2>1, <2>4, <2>9 DEF MoveFiled
    <3>2. status'[t] \notin {"failed", "nothing"}
      BY <2>1
    <3>3. v \in fpm'
      BY <2>3, <3>1, <3>2, RowsGo DEF Ends
    <3>4. Committed(v[3])'
      BY <2>1, <3>1 DEF Committed
    <3>5. <<v[1], v[2]>> \in Placed'
      BY <3>3, <3>4 DEF Placed
    <3>. QED
      BY <3>1, <3>5
  <2>. QED
    BY <2>7, <2>8, <2>9
<1>. QED
  BY <1>1, LockedKindsHold, MoveFiledHolds, PTL DEF Spec, KeepsItsWord


-----------------------------------------------------------------------------
(* A deletion that finds nothing was overtaken. *)

LEMMA DoneStays ==
    ASSUME NEW t \in Tx, Arrives(t) \/ Works(t) \/ Ends(t) \/ Commits(t),
           NEW u \in Tx, NEW ops, NEW p, NEW m, Done(u, ops, p, m)
    PROVE  Done(u, ops, p, m)' /\ request'[u] = request[u]
<1>1. status[u] = "committed"
  BY DEF Done
<1>2. status'[u] = status[u] /\ request'[u] = request[u]
  BY <1>1, AnswersStay
<1>. QED
  BY <1>2 DEF Done

LEMMA CommittedStays ==
    ASSUME NEW t \in Tx, Arrives(t) \/ Works(t) \/ Ends(t) \/ Commits(t),
           RowTypes, NEW v \in fpm, Committed(v[3])
    PROVE  Committed(v[3])'
<1>1. v[3] \in Tx /\ status[v[3]] = "committed" => status'[v[3]] = "committed"
  BY AnswersStay
<1>. QED
  BY <1>1, VersionTyped DEF Committed

\* Who takes a placement out of a folder that its owner did not make.
LEMMA RowTaken ==
    ASSUME Typed, Locked, Kinds, NEW t \in Tx, Arrives(t) \/ Works(t) \/ Ends(t) \/ Commits(t),
           NEW v \in fpm, v \notin fpm', ~(Ends(t) /\ v[3] = t), v[2] \notin CustomIds
    PROVE  \/ Done(t, {"spam", "move", "take"}, OwnerOf(v[2]), v[1])'
           \/ Done(t, {"send"}, OwnerOf(v[2]), v[1])' /\ TypeOf(v[2]) = "draft"
           \/ Done(t, {"delete"}, request[t].user, v[1])' /\ v[1] \notin alive'
<1>1. Commits(t) /\ MayUnfile(t, v)
  BY RowsGo
<1>2. /\ status'[t] = "committed" /\ request'[t] = request[t] /\ Statement(t) = "commit"
      /\ request[t] \in Requests /\ Open(t)
  BY <1>1 DEF Commits, Typed, Asked, Open
<1>3. CASE request[t].op = "delete" /\ v[1] = request[t].msg
  <2>1. v[1] \in Targets /\ v[1] \in MsgIds
    BY VersionTyped DEF Typed
  <2>2. Dooming(t, v[1])
    BY <1>2, <1>3 DEF Dooming
  <2>3. v[1] \in alive => v[1] \in Doomed(t)
    BY <1>2, <2>1, <2>2 DEF Locked, DoomHeld, Doomed, Held
  <2>. QED
    BY <1>1, <1>2, <1>3, <2>3 DEF Commits, Done
<1>4. CASE request[t].op \in {"spam", "move", "take"} /\ v[1] = request[t].msg
              /\ OwnerOf(v[2]) = request[t].user
  BY <1>2, <1>4 DEF Done
<1>5. CASE request[t].op = "send" /\ v[1] = request[t].msg
              /\ OwnerOf(v[2]) = request[t].user /\ TypeOf(v[2]) = "draft"
  BY <1>2, <1>5 DEF Done
<1>. QED
  BY <1>1, <1>3, <1>4, <1>5 DEF MayUnfile

Overtaken(t) ==
    \E u \in Tx : \/ Done(u, {"spam", "move", "take", "send"}, request[t].user, request[t].msg)
                  \/ Done(u, {"delete"}, request[u].user, request[t].msg)

InDrafts(t) == <<request[t].msg, <<request[t].user, "draft">>>> \in Placed

\* Once the handler has found the draft it is there, or somebody has taken it away.
Found(t) ==
    request[t].op = "delete" =>
        /\ Open(t) /\ "check draft" \in Past(t) => InDrafts(t) \/ Overtaken(t)
        /\ status[t] = "nothing" => Overtaken(t)

LEMMA OvertakenStays ==
    ASSUME NEW t \in Tx, Arrives(t) \/ Works(t) \/ Ends(t) \/ Commits(t),
           NEW u \in Tx, Overtaken(u), request'[u] = request[u]
    PROVE  Overtaken(u)'
<1>1. PICK w \in Tx :
        \/ Done(w, {"spam", "move", "take", "send"}, request[u].user, request[u].msg)
        \/ Done(w, {"delete"}, request[w].user, request[u].msg)
  BY DEF Overtaken
<1>2. request'[w] = request[w] /\ status'[w] = status[w]
  BY <1>1, AnswersStay DEF Done
<1>3. /\ status'[w] = "committed" /\ request'[w].msg = request'[u].msg
      /\ \/ request'[w].op \in {"spam", "move", "take", "send"}
              /\ request'[w].user = request'[u].user
         \/ request'[w].op \in {"delete"}
  BY <1>1, <1>2 DEF Done
<1>. QED
  BY <1>3 DEF Overtaken, Done

LEMMA InDraftsStays ==
    ASSUME Typed, Locked, Kinds, NEW t \in Tx, Arrives(t) \/ Works(t) \/ Ends(t) \/ Commits(t),
           NEW u \in Tx, request[u] \in Requests, InDrafts(u), request'[u] = request[u]
    PROVE  InDrafts(u)' \/ Overtaken(u)'
<1>. DEFINE f == <<request[u].user, "draft">>
<1>1. PICK v \in fpm : Committed(v[3]) /\ v[1] = request[u].msg /\ v[2] = f
  BY DEF InDrafts, Placed
<1>2. request[u].user \in Users
  BY RequestTyped
<1>3. f \notin CustomIds /\ OwnerOf(f) = request[u].user
  BY <1>2, SystemFolder DEF SystemTypes
<1>4. CASE v \in fpm'
  <2>1. Committed(v[3])'
    BY <1>1, CommittedStays DEF Typed
  <2>2. <<v[1], v[2]>> \in Placed'
    BY <1>4, <2>1 DEF Placed
  <2>. QED
    BY <1>1, <2>2 DEF InDrafts
<1>5. CASE v \notin fpm'
  <2>1. ~(Ends(t) /\ v[3] = t)
    BY <1>1, TxAssumption DEF Ends, Committed, Open
  <2>2. \/ Done(t, {"spam", "move", "take"}, request[u].user, request[u].msg)'
        \/ Done(t, {"send"}, request[u].user, request[u].msg)'
        \/ Done(t, {"delete"}, request[t].user, request[u].msg)'
    BY <1>1, <1>3, <1>5, <2>1, RowTaken
  <2>3. \/ Done(t, {"spam", "move", "take", "send"}, request[u].user, request[u].msg)'
        \/ Done(t, {"delete"}, request[t].user, request[u].msg)'
    BY <2>2 DEF Done
  <2>. QED
    BY <2>3 DEF Overtaken, Done
<1>. QED
  BY <1>4, <1>5

\* Whoever has begun to delete has looked for the draft before.
LEMMA BegunAfterCheck ==
    ASSUME NEW t \in Tx, pc[t] \in 1 .. 10, request[t].op = "delete", "begin" \in Past(t)
    PROVE  "check draft" \in Past(t)
<1>1. 1 .. pc[t] - 1 # {}
  BY DEF Past
<1>2. 1 \in 1 .. pc[t] - 1
  BY <1>1
<1>3. Script[request[t].op][1] = "check draft"
  BY DeleteScript
<1>. QED
  BY <1>2, <1>3 DEF Past

LEMMA FoundGoesOn ==
    ASSUME Typed, Locked, Kinds, \A u \in Tx : Found(u), NEW t \in Tx,
           Arrives(t) \/ Works(t) \/ Ends(t) \/ Commits(t)
    PROVE  \A u \in Tx : Found(u)'
<1>1. Alone(t)
  BY WorksProceeds DEF Arrives, Ends, Commits
<1>2. ASSUME NEW u \in Tx, request'[u] = request[u], status[u] # "idle",
             InDrafts(u) \/ Overtaken(u)
      PROVE  InDrafts(u)' \/ Overtaken(u)'
  <2>1. request[u] \in Requests
    BY <1>2 DEF Typed, Asked
  <2>. QED
    BY <1>2, <2>1, InDraftsStays, OvertakenStays
<1>3. ASSUME NEW u \in Tx \ {t}
      PROVE  Found(u)'
  <2>1. request'[u] = request[u] /\ status'[u] = status[u] /\ Past(u)' = Past(u)
    BY <1>1, PastStays DEF Alone
  <2>2. status[u] = "nothing" /\ request[u].op = "delete" => Overtaken(u)'
    BY <2>1, OvertakenStays DEF Found
  <2>. QED
    BY <1>2, <2>1, <2>2 DEF Found, Open
<1>4. Found(t)'
  <2>1. CASE Arrives(t)
    <3>1. pc'[t] = 1 /\ status'[t] = "open"
      BY <2>1 DEF Arrives, Typed, Asked
    <3>2. Past(t)' = {}
      BY <3>1 DEF Past
    <3>. QED
      BY <3>1, <3>2 DEF Found
  <2>2. CASE Works(t)
    <3>1. /\ request'[t] = request[t] /\ Open(t) /\ status'[t] = "open" /\ pc[t] \in 1 .. 10
          /\ status[t] # "idle"
      BY <2>2, Onward DEF Open, Typed, Functions
    <3>2. CASE "check draft" \in Past(t)
      BY <1>2, <3>1, <3>2 DEF Found
    <3>3. CASE "check draft" \notin Past(t)
      <4>1. SUFFICES ASSUME "check draft" \in Past(t)'
                     PROVE  InDrafts(t)
        BY <1>2, <3>1 DEF Found
      <4>2. pc'[t] # pc[t]
        BY <3>1, <3>3, <4>1, PastStays
      <4>3. pc'[t] = pc[t] + 1
        BY <2>2, <4>2, WorksProceeds DEF Passes, Picks, Proceeds
      <4>4. Statement(t) = "check draft"
        BY <3>1, <3>3, <4>1, <4>3, PastGrows
      <4>5. Passes(t)
        BY <2>2, <4>4, WorksProceeds DEF Picks, Proceeds, Executing
      <4>. QED
        BY <4>4, <4>5 DEF Passes, Passable, InDrafts
    <3>. QED
      BY <3>2, <3>3
  <2>3. CASE Ends(t)
    <3>1. request'[t] = request[t] /\ Open(t) /\ ~Open(t)' /\ pc[t] \in 1 .. 10
      BY <2>3 DEF Ends, Open, Typed, Functions
    <3>2. ASSUME status'[t] = "nothing", request[t].op = "delete"
          PROVE  Overtaken(t)
      <4>1. t \in Holding /\ ~InDrafts(t)
        BY <2>3, <3>2 DEF Ends, InDrafts
      <4>2. "check draft" \in Past(t)
        BY <3>1, <3>2, <4>1, BegunAfterCheck DEF Holding
      <4>. QED
        BY <3>1, <3>2, <4>1, <4>2 DEF Found
    <3>. QED
      BY <2>3, <3>1, <3>2, OvertakenStays DEF Found
  <2>4. CASE Commits(t)
    BY <2>4 DEF Commits, Found, Open
  <2>. QED
    BY <2>1, <2>2, <2>3, <2>4
<1>. QED
  BY <1>3, <1>4

LEMMA FoundHolds == Spec => [](\A t \in Tx : Found(t))
<1>1. Init => \A t \in Tx : Found(t)
  BY DEF Init, Found, Open
<1>2. Typed /\ Locked /\ Kinds /\ (\A t \in Tx : Found(t)) /\ [Next]_vars
        => (\A t \in Tx : Found(t))'
  <2>1. (\A t \in Tx : Found(t)) /\ UNCHANGED vars => (\A t \in Tx : Found(t))'
    <3>. SUFFICES ASSUME \A t \in Tx : Found(t), UNCHANGED vars, NEW t \in Tx PROVE Found(t)'
      OBVIOUS
    <3>1. /\ request' = request /\ status' = status /\ Past(t)' = Past(t)
          /\ Placed' = Placed
      BY DEF vars, Past, Placed, Committed
    <3>2. Overtaken(t)' = Overtaken(t)
      BY <3>1 DEF Overtaken, Done
    <3>. QED
      BY <3>1, <3>2 DEF Found, Open, InDrafts
  <2>. QED
    BY <2>1, StepsOf, FoundGoesOn DEF Typed
<1>. QED
  BY <1>1, <1>2, LockedKindsHold, PTL DEF Spec

\* DeleteDraft reports success without deleting only where another request has
\* filed, sent or deleted the draft since the handler looked for it
\* (message-repository.go:622, grpc_service.go).
THEOREM NothingOnlyWhenOvertakenHolds == Spec => []NothingOnlyWhenOvertaken
<1>1. (\A t \in Tx : Found(t)) => NothingOnlyWhenOvertaken
  BY DEF Found, Overtaken, NothingOnlyWhenOvertaken
<1>. QED
  BY <1>1, FoundHolds, PTL


-----------------------------------------------------------------------------
(* A draft is sent once.  The second sending meets the unique index at the  *)
(* first one's sent copy, or the copy was taken away.                       *)

Deletes(x, v) == x \in Tx /\ v \in deleted[x]

\* Two versions with one key: who has inserted the one has deleted the other.
Unique ==
    \A v, w \in fpm :
        v # w /\ v[1] = w[1] /\ v[2] = w[2] => Deletes(w[3], v) \/ Deletes(v[3], w)

LEMMA DeletesStays ==
    ASSUME Typed, NEW t \in Tx, Arrives(t) \/ Works(t) \/ Ends(t) \/ Commits(t),
           NEW v \in fpm', NEW w \in fpm', Deletes(w[3], v)
    PROVE  Deletes(w[3], v)'
<1>1. Alone(t)
  BY WorksProceeds DEF Arrives, Ends, Commits
<1>2. CASE w[3] = t
  <2>1. ~Ends(t) /\ ~Commits(t)
    BY <1>2 DEF Ends, Commits, Deletes
  <2>2. deleted[t] \subseteq deleted'[t]
    BY <2>1 DEF Works, Arrives, Passes, Picks, Unfiles, FilesItem, Locks, Bonds
  <2>. QED
    BY <1>2, <2>2 DEF Deletes
<1>3. CASE w[3] # t
  BY <1>1, <1>3 DEF Deletes, Alone
<1>. QED
  BY <1>2, <1>3

LEMMA UniqueGoesOn ==
    ASSUME Typed, Unique, NEW t \in Tx, Arrives(t) \/ Works(t) \/ Ends(t) \/ Commits(t)
    PROVE  Unique'
<1>1. ASSUME NEW v \in fpm', NEW w \in fpm', v # w, v[1] = w[1], v[2] = w[2], v \notin fpm
      PROVE  Deletes(v[3], w)'
  <2>1. PICK i \in todo[t] : FilesItem(t, i) /\ v = <<i[1], i[2], t>>
    BY <1>1, RowsCome
  <2>2. v[1] = i[1] /\ v[2] = i[2] /\ v[3] = t
    BY <2>1
  <2>3. w \in fpm
    <3>1. ASSUME w \notin fpm
          PROVE  FALSE
      <4>1. w = <<i[1], i[2], t>>
        BY <2>1, <3>1, FiledRows
      <4>. QED
        BY <1>1, <2>1, <4>1
    <3>. QED
      BY <3>1
  <2>4. Duplicates(t, i) = {}
    BY <1>1, <2>1 DEF FilesItem
  <2>5. i = <<i[1], i[2]>>
    <3>1. i \in MsgIds \X FolderIds
      BY <2>1 DEF FilesItem, Proceeds, Typed, LeftOver
    <3>. QED
      BY <3>1
  <2>6. <<w[1], w[2]>> = i
    BY <1>1, <2>2, <2>5
  <2>7. w \in deleted[t]
    BY <2>3, <2>4, <2>6 DEF Duplicates
  <2>. QED
    BY <2>1, <2>2, <2>7 DEF Deletes, FilesItem
<1>2. ASSUME NEW v \in fpm', NEW w \in fpm', v # w, v[1] = w[1], v[2] = w[2],
             v \in fpm, w \in fpm
      PROVE  Deletes(w[3], v)' \/ Deletes(v[3], w)'
  BY <1>2, DeletesStays DEF Unique
<1>. QED
  BY <1>1, <1>2 DEF Unique

LEMMA UniqueStarts ==
    ASSUME Init
    PROVE  Unique
<1>1. \A v, w \in fpm : v[1] = w[1] /\ v[2] = w[2] => v = w
  BY DEF Init
<1>. QED
  BY <1>1 DEF Unique

Refiled(p, m) == \E w \in Tx : Done(w, {"spam", "move", "take"}, p, m)

Again(t) == Refiled(request[t].user, request[t].msg)

SentCopy(t) == <<request[t].msg, <<request[t].user, "sent">>, t>>

\* From the end of its INSERT the sent copy is there, and it stays until the user
\* files the message elsewhere or the message is deleted.
SentKept(t) ==
    request[t].op = "send" =>
        /\ Open(t) /\ Statement(t) \in {"keys", "file in inbox", "commit"} => SentCopy(t) \in fpm
        /\ status[t] = "committed" =>
              \/ SentCopy(t) \in fpm \/ request[t].msg \notin alive
              \/ Again(t)

LEMMA RefiledStays ==
    ASSUME NEW t \in Tx, Arrives(t) \/ Works(t) \/ Ends(t) \/ Commits(t),
           NEW u \in Tx, request'[u] = request[u], Again(u)
    PROVE  Again(u)'
<1>1. PICK w \in Tx : Done(w, {"spam", "move", "take"}, request[u].user, request[u].msg)
  BY DEF Again, Refiled
<1>2. request'[w] = request[w] /\ status'[w] = status[w]
  BY <1>1, AnswersStay DEF Done
<1>3. /\ status'[w] = "committed" /\ request'[w].op \in {"spam", "move", "take"}
      /\ request'[w].user = request'[u].user /\ request'[w].msg = request'[u].msg
  BY <1>1, <1>2 DEF Done
<1>. QED
  BY <1>3 DEF Again, Refiled, Done

LEMMA SentKeptGoesOn ==
    ASSUME Typed, Locked, Kinds, \A u \in Tx : SentKept(u), NEW t \in Tx,
           Arrives(t) \/ Works(t) \/ Ends(t) \/ Commits(t)
    PROVE  \A u \in Tx : SentKept(u)'
<1>1. Alone(t)
  BY WorksProceeds DEF Arrives, Ends, Commits
<1>2. ASSUME NEW u \in Tx, request'[u] = request[u]
      PROVE  SentCopy(u)' = SentCopy(u)
  BY <1>2 DEF SentCopy
<1>3. \A u \in Tx : SentCopy(u)[3] = u /\ SentCopy(u)[1] = request[u].msg
                    /\ SentCopy(u)[2] = <<request[u].user, "sent">>
  BY DEF SentCopy
<1>4. ASSUME NEW u \in Tx, Open(u), SentCopy(u) \in fpm, ~Ends(t) \/ u # t
      PROVE  SentCopy(u) \in fpm'
  BY <1>3, <1>4, RowsGo, TxAssumption DEF Committed, Open
<1>5. ASSUME NEW u \in Tx, status[u] = "committed", request[u].op = "send"
      PROVE  SentKept(u)'
  <2>1. status'[u] = "committed" /\ request'[u] = request[u] /\ request[u] \in Requests
    BY <1>5, AnswersStay DEF Typed, Asked
  <2>2. request[u].user \in Users
    BY <2>1, RequestTyped
  <2>3. CASE SentCopy(u) \in fpm /\ SentCopy(u) \notin fpm'
    <3>1. PICK v \in fpm : v = SentCopy(u)
      BY <2>3
    <3>2. v[3] = u /\ v[1] = request[u].msg /\ v[2] = <<request[u].user, "sent">>
      BY <1>3, <3>1
    <3>3. ~(Ends(t) /\ v[3] = t) /\ v \notin fpm'
      BY <1>5, <2>3, <3>1, <3>2 DEF Ends, Open
    <3>4. v[2] \notin CustomIds /\ OwnerOf(v[2]) = request[u].user /\ TypeOf(v[2]) # "draft"
      <4>1. "sent" \in SystemTypes
        BY DEF SystemTypes
      <4>2. TypeOf(v[2]) = "sent"
        BY <2>2, <3>2, <4>1, SystemFolder
      <4>. QED
        BY <2>2, <3>2, <4>1, <4>2, SystemFolder
    <3>5. \/ Done(t, {"spam", "move", "take"}, OwnerOf(v[2]), v[1])'
          \/ v[1] \notin alive'
      BY <3>3, <3>4, RowTaken
    <3>6. \/ /\ status'[t] = "committed" /\ request'[t].op \in {"spam", "move", "take"}
             /\ request'[t].user = OwnerOf(v[2]) /\ request'[t].msg = v[1]
          \/ v[1] \notin alive'
      BY <3>5 DEF Done
    <3>7. Again(u)' \/ request[u].msg \notin alive'
      BY <2>1, <3>2, <3>4, <3>6 DEF Again, Refiled, Done
    <3>. QED
      BY <2>1, <3>7 DEF SentKept, Open
  <2>4. CASE SentCopy(u) \in fpm /\ SentCopy(u) \in fpm'
    BY <1>2, <2>1, <2>4 DEF SentKept, Open
  <2>5. CASE request[u].msg \notin alive
    <3>1. alive' \subseteq alive
      BY WorksProceeds DEF Arrives, Ends, Commits
    <3>. QED
      BY <2>1, <2>5, <3>1 DEF SentKept, Open
  <2>6. CASE Again(u)
    <3>1. Again(u)'
      BY <2>1, <2>6, RefiledStays
    <3>. QED
      BY <2>1, <3>1 DEF SentKept, Open
  <2>. QED
    BY <1>5, <2>3, <2>4, <2>5, <2>6 DEF SentKept
<1>6. ASSUME NEW u \in Tx \ {t}, status[u] # "committed"
      PROVE  SentKept(u)'
  <2>1. /\ request'[u] = request[u] /\ status'[u] = status[u]
        /\ Statement(u)' = Statement(u) /\ (Open(u)' <=> Open(u))
    BY <1>1, Unchanged
  <2>. QED
    BY <1>2, <1>4, <1>6, <2>1 DEF SentKept
<1>7. ASSUME status[t] # "committed"
      PROVE  SentKept(t)'
  <2>1. CASE Arrives(t)
    <3>1. Statement(t)' \in {"begin", "check draft"} /\ status'[t] = "open"
      BY <2>1, FirstStatement DEF Arrives
    <3>. QED
      BY <3>1 DEF SentKept
  <2>2. CASE Ends(t)
    BY <2>2 DEF Ends, SentKept, Open
  <2>3. CASE Commits(t)
    <3>1. request'[t] = request[t] /\ Open(t) /\ Statement(t) = "commit" /\ ~Open(t)'
          /\ ~Ends(t)
      BY <2>3 DEF Commits, Open, Ends
    <3>2. request[t].op = "send" => SentCopy(t) \in fpm'
      BY <1>4, <3>1 DEF SentKept
    <3>. QED
      BY <1>2, <3>1, <3>2 DEF SentKept
  <2>4. CASE Works(t)
    <3>1. /\ request'[t] = request[t] /\ Open(t) /\ status'[t] = "open" /\ ~Ends(t)
          /\ Statement(t)' = Statement(t) \/ Turns(t)
      BY <2>4, Onward DEF Open, Ends
    <3>2. CASE Statement(t) \in {"keys", "file in inbox", "commit"}
      BY <1>2, <1>4, <3>1, <3>2 DEF SentKept
    <3>3. CASE Statement(t) = "file in sent" /\ Turns(t)
      <4>1. Additions(t) = {<<request[t].msg, <<request[t].user, "sent">>>>}
        BY <3>3 DEF Additions
      <4>2. FilesItem(t, <<request[t].msg, <<request[t].user, "sent">>>>)
        BY <2>4, <3>3, <4>1, InsertEnds DEF Adding
      <4>3. SentCopy(t) \in fpm'
        BY <3>3, <4>2, Filed DEF OnConflictDoNothing, SentCopy
      <4>. QED
        BY <1>2, <3>1, <4>3 DEF SentKept
    <3>4. CASE /\ Statement(t) \notin {"keys", "file in inbox", "commit"}
               /\ ~(Statement(t) = "file in sent" /\ Turns(t))
      <4>1. request[t].op = "send" =>
               Statement(t)' \notin {"keys", "file in inbox", "commit"}
        BY <3>1, <3>4 DEF Turns, Moves
      <4>. QED
        BY <3>1, <4>1 DEF SentKept
    <3>. QED
      BY <3>2, <3>3, <3>4
  <2>. QED
    BY <2>1, <2>2, <2>3, <2>4
<1>8. ASSUME NEW u \in Tx, status[u] = "committed", request[u].op # "send"
      PROVE  SentKept(u)'
  BY <1>8, AnswersStay DEF SentKept
<1>. QED
  BY <1>5, <1>6, <1>7, <1>8


\* Two sendings of one message by one user.
Twins(t, u) ==
    /\ t # u /\ request[t].op = "send" /\ request[u].op = "send"
    /\ request[t].user = request[u].user /\ request[t].msg = request[u].msg

Single ==
    \A t, u \in Tx :
        Twins(t, u) /\ status[t] = "committed" /\ status[u] = "committed" => Again(t)

\* The second of two sendings cannot commit beside the first one's sent copy.
LEMMA SecondSending ==
    ASSUME Typed, Locked, Kinds, Unique, \A u \in Tx : SentKept(u), NEW t \in Tx, Commits(t),
           NEW u \in Tx, Twins(t, u), status[u] = "committed"
    PROVE  Again(u)
<1>1. Open(t) /\ Statement(t) = "commit" /\ request[t] \in Requests /\ request[t].msg \in MsgIds
      /\ request[t].user \in Users
  BY RequestTyped DEF Commits, Typed, Asked, Open
<1>2. SentCopy(t) \in fpm
  BY <1>1 DEF SentKept, Twins
<1>3. PICK v \in fpm : v = SentCopy(t)
  BY <1>2
<1>4. v[3] = t /\ v[1] = request[t].msg /\ v[2] = <<request[t].user, "sent">>
  BY <1>3 DEF SentCopy
<1>5. request[t].msg \in alive
  <2>1. Held(t, v[1], "key share")
    BY <1>4, KeysHeld DEF Typed, Locked
  <2>2. "key share" \in LockMode /\ v[1] \in Targets
    BY <1>1, <1>4 DEF LockMode, Targets
  <2>3. v[1] \in alive \cup folders
    BY <2>1, <2>2 DEF Locked, LocksHeld
  <2>. QED
    BY <1>1, <1>4, <2>3, TxAssumption DEF Typed, RowTypes
<1>6. SUFFICES ASSUME SentCopy(u) \in fpm PROVE FALSE
  BY <1>5 DEF SentKept, Twins
<1>7. PICK w \in fpm : w = SentCopy(u)
  BY <1>6
<1>8. w[3] = u /\ w[1] = v[1] /\ w[2] = v[2] /\ w # v
  BY <1>4, <1>7 DEF SentCopy, Twins
<1>9. Deletes(t, w) \/ Deletes(u, v)
  BY <1>4, <1>8 DEF Unique
<1>10. ~Deletes(u, v)
  BY DEF Deletes, Locked, DeletedSeen, Open
<1>11. MayUnfile(t, w)
  BY <1>9, <1>10 DEF Deletes, Kinds, Removed
<1>12. TypeOf(w[2]) = "draft"
  BY <1>11 DEF MayUnfile, Twins
<1>. QED
  BY <1>1, <1>4, <1>8, <1>12, SystemFolder DEF SystemTypes

LEMMA SingleGoesOn ==
    ASSUME Typed, Locked, Kinds, Unique, \A u \in Tx : SentKept(u), Single, NEW t \in Tx,
           Arrives(t) \/ Works(t) \/ Ends(t) \/ Commits(t)
    PROVE  Single'
<1>1. ASSUME NEW u \in Tx, NEW w \in Tx, status'[u] = "committed", status'[w] = "committed",
             Twins(u, w)', status[u] = "committed", status[w] = "committed"
      PROVE  Again(u)'
  <2>1. request'[u] = request[u] /\ request'[w] = request[w]
    BY <1>1, AnswersStay
  <2>2. Twins(u, w)
    BY <1>1, <2>1 DEF Twins
  <2>. QED
    BY <1>1, <2>1, <2>2, RefiledStays DEF Single
<1>2. ASSUME NEW u \in Tx, status'[u] = "committed", status[u] # "committed",
             NEW w \in Tx, Twins(u, w)', status'[w] = "committed"
      PROVE  Again(u)' /\ Again(w)'
  <2>1. u = t /\ Commits(t)
    BY <1>2, Committing
  <2>2. u # w
    BY <1>2 DEF Twins
  <2>3. status[w] = "committed"
    BY <1>2, <2>1, <2>2, Committing
  <2>4. request'[t] = request[t] /\ request'[w] = request[w]
    BY <2>1, <2>3, AnswersStay DEF Commits
  <2>5. Twins(t, w)
    BY <1>2, <2>1, <2>4 DEF Twins
  <2>6. Again(w)'
    BY <2>1, <2>3, <2>4, <2>5, SecondSending, RefiledStays
  <2>. QED
    BY <2>1, <2>4, <2>5, <2>6 DEF Again, Twins
<1>3. ASSUME NEW u \in Tx, NEW w \in Tx, Twins(u, w)'
      PROVE  Twins(w, u)'
  BY <1>3 DEF Twins
<1>. QED
  BY <1>1, <1>2, <1>3 DEF Single

Sent == Unique /\ Single /\ \A t \in Tx : SentKept(t)

LEMMA SentHolds == Spec => []Sent
<1>1. Init => Sent
  BY UniqueStarts DEF Init, Sent, Single, SentKept, Open
<1>2. Typed /\ Locked /\ Kinds /\ Sent /\ [Next]_vars => Sent'
  <2>. SUFFICES ASSUME Typed, Locked, Kinds, Sent, [Next]_vars PROVE Sent'
    OBVIOUS
  <2>1. CASE UNCHANGED vars
    <3>1. /\ request' = request /\ status' = status /\ fpm' = fpm /\ alive' = alive
          /\ deleted' = deleted /\ pc' = pc
      BY <2>1 DEF vars
    <3>2. \A t \in Tx : Again(t)' = Again(t) /\ SentCopy(t)' = SentCopy(t)
                        /\ Open(t)' = Open(t) /\ Statement(t)' = Statement(t)
      BY <3>1 DEF Again, Refiled, Done, SentCopy, Open, Statement
    <3>3. Unique'
      BY <3>1 DEF Sent, Unique, Deletes
    <3>4. Single'
      BY <3>1, <3>2 DEF Sent, Single, Twins
    <3>5. \A t \in Tx : SentKept(t)'
      BY <3>1, <3>2 DEF Sent, SentKept
    <3>. QED
      BY <3>3, <3>4, <3>5 DEF Sent
  <2>. QED
    BY <2>1, StepsOf, UniqueGoesOn, SingleGoesOn, SentKeptGoesOn DEF Typed, Sent
<1>. QED
  BY <1>1, <1>2, LockedKindsHold, PTL DEF Spec

\* A draft is sent once however often and however concurrently "send" is pressed:
\* where two sendings of it commit, the sender has also filed the message
\* elsewhere or taken it out of a folder (message-repository.go:662).
THEOREM SendsOnceHolds == Spec => []SendsOnce
<1>1. Sent => SendsOnce
  <2>. SUFFICES ASSUME Sent, NEW t \in Tx, NEW u \in Tx, NEW p \in Users, NEW m \in MsgIds,
                       Done(t, {"send"}, p, m), Done(u, {"send"}, p, m), t # u
                PROVE  \E w \in Tx : Done(w, {"spam", "move", "take"}, p, m)
    BY DEF SendsOnce
  <2>1. Twins(t, u) /\ status[t] = "committed" /\ status[u] = "committed"
    BY DEF Done, Twins
  <2>2. Again(t)
    BY <2>1 DEF Sent, Single
  <2>. QED
    BY <2>2 DEF Again, Refiled, Done
<1>. QED
  BY <1>1, SentHolds, PTL

-----------------------------------------------------------------------------
(* A message in two folders has been filed twice, or by somebody else.      *)

FilesLike(u, v) == Files(u, OwnerOf(v[2]), v[1])

\* The owner of placement v is not the only one who files the message.
Meddled(v) == \E u \in Tx : FilesLike(u, v) /\ request[u].user # OwnerOf(v[2])

\* Another filing has come beside t's.
Crossed(t, v) ==
    \/ Meddled(v)
    \/ load.open > 1 /\ \E u \in Tx : u # t /\ FilesLike(u, v)

Crowded(v) ==
    \/ Meddled(v)
    \/ load.open > 1 /\ \E t, u \in Tx : t # u /\ FilesLike(t, v) /\ FilesLike(u, v)

SentAndReceived(v, w) == {TypeOf(v[2]), TypeOf(w[2])} = {"inbox", "sent"}

OneFolder ==
    \A v, w \in fpm :
        /\ Committed(v[3]) /\ Committed(w[3])
        /\ v[1] = w[1] /\ OwnerOf(v[2]) = OwnerOf(w[2]) /\ v[2] # w[2]
        => SentAndReceived(v, w) \/ Crowded(v)

\* The statements before the DELETE.
Early(t) ==
    \/ request[t].op = "spam" /\ Statement(t) \in {"begin", "file in spam", "keys"}
    \/ request[t].op = "move" /\ Statement(t) = "begin"
    \/ request[t].op = "send" /\ Statement(t) \in {"check draft", "begin", "find", "stamp"}

\* The DELETE finds what lies where the request would not have it, unless it came
\* beside the request.
Cleared(t) ==
    Open(t) /\ request[t].op \in {"spam", "move", "send"} =>
        \A v \in fpm : Committed(v[3]) /\ MayUnfile(t, v) =>
            \/ Crossed(t, v)
            \/ v \in deleted[t]
            \/ Early(t)
            \/ Statement(t) \in Unfiling /\ (todo[t] = Null \/ v \in todo[t])

\* What is sent was found in the drafts, and so nowhere else.
FromDrafts(t) ==
    Open(t) /\ request[t].op = "send" /\ Statement(t) # "check draft" =>
        \A v \in fpm :
            Committed(v[3]) /\ v[1] = request[t].msg /\ OwnerOf(v[2]) = request[t].user
            => Crossed(t, v) \/ v[2] = <<request[t].user, "draft">>

\* What is copied to the trash was found in the folder, and so nowhere else.
Copied(t, m) ==
    \/ \E r \in fpm : r[3] = t /\ r[1] = m
    \/ /\ Statement(t) = "file in trash" /\ todo[t] # Null
       /\ <<m, <<request[t].user, "trash">>>> \in todo[t]

FromFolder(t) ==
    Open(t) /\ request[t].op = "drop" =>
        \A v \in fpm :
            Committed(v[3]) /\ OwnerOf(v[2]) = request[t].user /\ Copied(t, v[1])
            => Crossed(t, v) \/ v[2] = request[t].folder

LEMMA FilesStays ==
    ASSUME NEW t \in Tx, Arrives(t) \/ Works(t) \/ Ends(t) \/ Commits(t),
           NEW u \in Tx, NEW v, FilesLike(u, v)
    PROVE  FilesLike(u, v)' /\ request'[u] = request[u]
<1>1. status[u] = "committed"
  BY DEF FilesLike, Files, Done
<1>2. status'[u] = status[u] /\ request'[u] = request[u]
  BY <1>1, AnswersStay
<1>. QED
  BY <1>2 DEF FilesLike, Files, Done

LEMMA MeddledStays ==
    ASSUME NEW t \in Tx, Arrives(t) \/ Works(t) \/ Ends(t) \/ Commits(t), NEW v, Meddled(v)
    PROVE  Meddled(v)'
<1>1. PICK u \in Tx : FilesLike(u, v) /\ request[u].user # OwnerOf(v[2])
  BY DEF Meddled
<1>2. FilesLike(u, v)' /\ request'[u].user # OwnerOf(v[2])
  BY <1>1, FilesStays
<1>. QED
  BY <1>2 DEF Meddled

LEMMA CrossedStays ==
    ASSUME NEW t \in Tx, Arrives(t) \/ Works(t) \/ Ends(t) \/ Commits(t), NEW u, NEW v,
           Crossed(u, v)
    PROVE  Crossed(u, v)'
<1>1. load' = load
  BY WorksProceeds DEF Arrives, Ends, Commits, Alone
<1>2. CASE Meddled(v)
  BY <1>2, MeddledStays DEF Crossed
<1>3. ASSUME load.open > 1, NEW w \in Tx, w # u, FilesLike(w, v)
      PROVE  Crossed(u, v)'
  <2>1. FilesLike(w, v)'
    BY <1>3, FilesStays
  <2>. QED
    BY <1>1, <1>3, <2>1 DEF Crossed
<1>. QED
  BY <1>2, <1>3 DEF Crossed

LEMMA CrowdedStays ==
    ASSUME NEW t \in Tx, Arrives(t) \/ Works(t) \/ Ends(t) \/ Commits(t), NEW v, Crowded(v)
    PROVE  Crowded(v)'
<1>1. load' = load
  BY WorksProceeds DEF Arrives, Ends, Commits, Alone
<1>2. CASE Meddled(v)
  BY <1>2, MeddledStays DEF Crowded
<1>3. ASSUME load.open > 1, NEW u \in Tx, NEW w \in Tx, u # w, FilesLike(u, v), FilesLike(w, v)
      PROVE  Crowded(v)'
  <2>1. FilesLike(u, v)' /\ FilesLike(w, v)'
    BY <1>3, FilesStays
  <2>. QED
    BY <1>1, <1>3, <2>1 DEF Crowded
<1>. QED
  BY <1>2, <1>3 DEF Crowded

\* Two filings beside an open request are two others.
LEMMA CrowdedCrosses ==
    ASSUME NEW t \in Tx, Open(t), NEW v, NEW w, w[1] = v[1], OwnerOf(w[2]) = OwnerOf(v[2]),
           Crowded(w)
    PROVE  Crossed(t, v)
<1>1. \A u : FilesLike(u, w) <=> FilesLike(u, v)
  BY DEF FilesLike
<1>2. ~FilesLike(t, v)
  BY DEF FilesLike, Files, Done, Open
<1>. QED
  BY <1>1, <1>2 DEF Crowded, Crossed, Meddled

\* Who commits a placement has filed the message.
LEMMA CommitFiles ==
    ASSUME Typed, Kinds, NEW t \in Tx, Commits(t), NEW v \in fpm, v[3] = t
    PROVE  FilesLike(t, v)'
<1>1. /\ status'[t] = "committed" /\ request'[t] = request[t] /\ request[t] \in Requests
  BY DEF Commits, Typed, Asked, Open
<1>2. request[t].user \in Users
  BY <1>1, RequestTyped
<1>3. MayFile(t, <<v[1], v[2]>>)
  BY DEF Kinds, Inserted
<1>4. CASE request[t].op \in {"spam", "send"}
  <2>1. /\ v[1] = request[t].msg
        /\ \E y \in SystemTypes : v[2] = <<request[t].user, y>>
    BY <1>3, <1>4 DEF MayFile, SystemTypes
  <2>2. OwnerOf(v[2]) = request[t].user
    BY <1>2, <2>1, SystemFolder
  <2>. QED
    BY <1>1, <1>4, <2>1, <2>2 DEF FilesLike, Files, Done
<1>5. CASE request[t].op = "move"
  <2>1. v[1] = request[t].msg /\ v[2] = request[t].folder
    BY <1>3, <1>5 DEF MayFile
  <2>. QED
    BY <1>1, <1>5, <2>1 DEF FilesLike, Files
<1>6. CASE request[t].op = "drop"
  <2>1. OwnerOf(v[2]) = request[t].user
    BY <1>2, <1>3, <1>6, SystemFolder DEF MayFile, SystemTypes
  <2>. QED
    BY <1>1, <1>6, <2>1 DEF FilesLike, Files
<1>. QED
  BY <1>3, <1>4, <1>5, <1>6 DEF MayFile

\* What is shown by another request while t is open has come beside t.
LEMMA ShownBeside ==
    ASSUME Typed, Pooled, Kinds, NEW t \in Tx,
           Arrives(t) \/ Works(t) \/ Ends(t) \/ Commits(t),
           NEW u \in Tx \ {t}, Open(u), NEW v \in fpm', Committed(v[3])'
    PROVE  (v \in fpm /\ Committed(v[3])) \/ Crossed(u, v)'
<1>1. CASE Commits(t) /\ v[3] = t
  <2>1. v \in fpm /\ Open(t)
    BY <1>1 DEF Commits
  <2>2. FilesLike(t, v)'
    BY <1>1, <2>1, CommitFiles
  <2>3. load.open > 1 /\ load' = load
    BY <1>1, <2>1, TwoServed DEF Commits, Alone
  <2>. QED
    BY <2>2, <2>3 DEF Crossed
<1>. QED
  BY <1>1, RowsShow

\* The DELETE of a request meets the placements that have to go.
LEMMA ClearedItems ==
    ASSUME Typed, Rooted, NEW t \in Tx, Open(t), Statement(t) \in Unfiling,
           request[t].op \in {"spam", "move", "send"},
           NEW v \in fpm, Committed(v[3]), MayUnfile(t, v), v \notin deleted[t]
    PROVE  Executing(t) /\ v \in Items(t)
<1>1. Executing(t) /\ request[t] \in Requests
  BY DEF Executing, Unfiling, Typed, Asked, Open
<1>2. Items(t) = {w \in Visible(t) : Selects(t, w)} /\ v \in Visible(t)
  BY <1>1, PickedTyped DEF Typed, Visible
<1>3. Belongs(request[t].op, Statement(t))
  BY StatementOf DEF Typed, Open
<1>4. /\ v[1] = request[t].msg /\ OwnerOf(v[2]) = request[t].user
      /\ request[t].op = "spam" => TypeOf(v[2]) # "spam"
      /\ request[t].op = "send" => TypeOf(v[2]) = "draft"
  BY DEF MayUnfile
<1>5. v[2] \in FoldersOf(request[t].user)
  BY <1>4 DEF Rooted, FoldersOf
<1>6. \/ request[t].op = "spam" /\ Statement(t) = "unfile elsewhere"
      \/ request[t].op = "move" /\ Statement(t) = "unfile everywhere"
      \/ request[t].op = "send" /\ Statement(t) = "unfile draft"
  BY <1>3 DEF Belongs, Unfiling
<1>7. Selects(t, v)
  BY <1>4, <1>5, <1>6 DEF Selects
<1>. QED
  BY <1>1, <1>2, <1>7

LEMMA ClearedGoesOn ==
    ASSUME Typed, Pooled, Locked, Kinds, \A u \in Tx : Cleared(u), NEW t \in Tx,
           Arrives(t) \/ Works(t) \/ Ends(t) \/ Commits(t)
    PROVE  \A u \in Tx : Cleared(u)'
<1>1. Alone(t)
  BY WorksProceeds DEF Arrives, Ends, Commits
<1>2. ASSUME NEW u \in Tx, request'[u] = request[u], NEW v
      PROVE  MayUnfile(u, v)' = MayUnfile(u, v)
  BY <1>2 DEF MayUnfile
<1>3. ASSUME NEW u \in Tx \ {t}
      PROVE  Cleared(u)'
  <2>1. /\ Statement(u)' = Statement(u) /\ (Open(u)' <=> Open(u)) /\ request'[u] = request[u]
        /\ todo'[u] = todo[u] /\ deleted'[u] = deleted[u]
    BY <1>1, Unchanged
  <2>2. SUFFICES ASSUME Open(u), request[u].op \in {"spam", "move", "send"},
                        NEW v \in fpm', Committed(v[3])', MayUnfile(u, v), ~Crossed(u, v)'
                 PROVE  \/ v \in deleted[u]
                        \/ Early(u)'
                        \/ Statement(u) \in Unfiling /\ (todo[u] = Null \/ v \in todo[u])
    BY <1>2, <2>1 DEF Cleared
  <2>3. v \in fpm /\ Committed(v[3])
    BY <2>2, ShownBeside
  <2>4. ~Crossed(u, v)
    BY <2>2, CrossedStays
  <2>5. Early(u)' = Early(u)
    BY <2>1 DEF Early
  <2>. QED
    BY <2>2, <2>3, <2>4, <2>5 DEF Cleared
<1>4. CASE Arrives(t)
  <2>1. Statement(t)' \in {"begin", "check draft"} /\ request'[t] \in Requests /\ pc'[t] = 1
    BY <1>4, FirstStatement DEF Arrives, Typed, Asked
  <2>2. /\ request'[t].op = "spam" => Statement(t)' = "begin"
        /\ request'[t].op = "move" => Statement(t)' = "begin"
    BY <2>1, SpamScript, MoveScript DEF Statement
  <2>3. request'[t].op \in {"spam", "move", "send"} => Early(t)'
    BY <2>1, <2>2 DEF Early
  <2>. QED
    BY <1>3, <2>3 DEF Cleared
<1>5. CASE Ends(t) \/ Commits(t)
  <2>1. ~Open(t)'
    BY <1>5 DEF Ends, Commits, Open
  <2>. QED
    BY <1>3, <2>1 DEF Cleared
<1>6. CASE Works(t)
  <2>1. /\ request'[t] = request[t] /\ Open(t) /\ Open(t)'
        /\ \/ Statement(t)' = Statement(t) /\ Picks(t)
           \/ /\ Statement(t)' = Statement(t)
              /\ \E i \in todo[t] :
                    Proceeds(t, i) /\ todo[t] # {i} /\ todo'[t] = todo[t] \ {i}
           \/ Turns(t)
    BY <1>6, Onward DEF Open
  <2>2. SUFFICES ASSUME request[t].op \in {"spam", "move", "send"},
                        NEW v \in fpm', Committed(v[3])', MayUnfile(t, v), ~Crossed(t, v)'
                 PROVE  \/ v \in deleted'[t]
                        \/ Early(t)'
                        \/ Statement(t)' \in Unfiling /\ (todo'[t] = Null \/ v \in todo'[t])
    BY <1>2, <1>3, <2>1 DEF Cleared
  <2>3. v \in fpm /\ Committed(v[3])
    BY <1>6, <2>1, <2>2, RowsShow DEF Commits, Works, Passes, Executing, Picks, Unfiles,
       FilesItem, Locks, Bonds, Proceeds
  <2>4. ~Crossed(t, v)
    BY <2>2, CrossedStays
  <2>5. \/ v \in deleted[t]
        \/ Early(t)
        \/ Statement(t) \in Unfiling /\ (todo[t] = Null \/ v \in todo[t])
    BY <2>1, <2>2, <2>3, <2>4 DEF Cleared
  <2>6. deleted[t] \subseteq deleted'[t]
    BY <1>6 DEF Works, Passes, Picks, Unfiles, FilesItem, Locks, Bonds
  <2>7. CASE Early(t)
    <3>1. CASE Statement(t)' = Statement(t)
      BY <2>1, <2>7, <3>1 DEF Early
    <3>2. CASE Turns(t)
      <4>1. Moves(request[t].op, Statement(t), Statement(t)') /\ todo'[t] = Null
        BY <3>2 DEF Turns
      <4>2. CASE request[t].op = "spam" /\ Statement(t) \in {"begin", "file in spam", "keys"}
        <5>1. Statement(t)' \in {"file in spam", "keys", "unfile elsewhere"}
          BY <4>1, <4>2 DEF Moves
        <5>. QED
          BY <2>1, <4>1, <4>2, <5>1 DEF Early, Unfiling
      <4>3. CASE request[t].op = "move" /\ Statement(t) = "begin"
        <5>1. Statement(t)' = "unfile everywhere"
          BY <4>1, <4>3 DEF Moves
        <5>. QED
          BY <4>1, <5>1 DEF Unfiling
      <4>4. CASE /\ request[t].op = "send"
                 /\ Statement(t) \in {"check draft", "begin", "find", "stamp"}
        <5>1. Statement(t)' \in {"begin", "find", "stamp", "unfile draft"}
          BY <4>1, <4>4 DEF Moves
        <5>. QED
          BY <2>1, <4>1, <4>4, <5>1 DEF Early, Unfiling
      <4>. QED
        BY <2>7, <4>2, <4>3, <4>4 DEF Early
    <3>. QED
      BY <2>1, <3>1, <3>2
  <2>8. CASE Statement(t) \in Unfiling /\ v \notin deleted[t]
    <3>1. Executing(t) /\ v \in Items(t)
      BY <2>1, <2>2, <2>3, <2>8, ClearedItems DEF Locked
    <3>2. ~Passes(t)
      BY <3>1 DEF Passes, Passable
    <3>3. CASE Picks(t)
      <4>1. todo'[t] = Items(t) /\ Statement(t)' = Statement(t)
        BY <3>3, Waits DEF Picks
      <4>. QED
        BY <2>8, <3>1, <4>1
    <3>4. ASSUME NEW i \in todo[t], Unfiles(t, i)
          PROVE  \/ v \in deleted'[t]
                 \/ Statement(t)' \in Unfiling /\ (todo'[t] = Null \/ v \in todo'[t])
      <4>1. /\ Proceeds(t, i) /\ todo[t] # Null
            /\ deleted'[t] = deleted[t] \cup ({i} \cap fpm)
        BY <3>4 DEF Unfiles, Proceeds
      <4>2. CASE v = i
        BY <2>3, <4>1, <4>2
      <4>3. CASE v # i
        <5>1. Early(t) \/ v \in todo[t]
          BY <2>5, <2>8, <4>1
        <5>2. v \in todo[t]
          BY <2>8, <5>1 DEF Early, Unfiling
        <5>3. pc'[t] = pc[t] /\ todo'[t] = todo[t] \ {i} /\ Same(t)
          BY <4>1, <4>3, <5>2 DEF Proceeds
        <5>4. Statement(t)' = Statement(t)
          BY <5>3, Waits
        <5>. QED
          BY <2>8, <4>3, <5>2, <5>3, <5>4
      <4>. QED
        BY <4>2, <4>3
    <3>. QED
      BY <1>6, <2>8, <3>2, <3>3, <3>4
         DEF Works, FilesItem, Locks, Locking, Bonds, Unfiling, Adding
  <2>. QED
    BY <2>5, <2>6, <2>7, <2>8
<1>. QED
  BY <1>3, <1>4, <1>5, <1>6

LEMMA FromDraftsGoesOn ==
    ASSUME Typed, Pooled, Locked, Kinds, OneFolder, \A u \in Tx : FromDrafts(u), NEW t \in Tx,
           Arrives(t) \/ Works(t) \/ Ends(t) \/ Commits(t)
    PROVE  \A u \in Tx : FromDrafts(u)'
<1>1. Alone(t)
  BY WorksProceeds DEF Arrives, Ends, Commits
<1>2. ASSUME NEW u \in Tx \ {t}
      PROVE  FromDrafts(u)'
  <2>1. /\ Statement(u)' = Statement(u) /\ (Open(u)' <=> Open(u)) /\ request'[u] = request[u]
    BY <1>1, Unchanged
  <2>2. SUFFICES ASSUME Open(u), request[u].op = "send", Statement(u) # "check draft",
                        NEW v \in fpm', Committed(v[3])', v[1] = request[u].msg,
                        OwnerOf(v[2]) = request[u].user, ~Crossed(u, v)'
                 PROVE  v[2] = <<request[u].user, "draft">>
    BY <2>1 DEF FromDrafts
  <2>3. v \in fpm /\ Committed(v[3])
    BY <2>2, ShownBeside
  <2>4. ~Crossed(u, v)
    BY <2>2, CrossedStays
  <2>. QED
    BY <2>2, <2>3, <2>4 DEF FromDrafts
<1>3. CASE Arrives(t)
  <2>1. request'[t] \in Requests /\ pc'[t] = 1
    BY <1>3, FirstStatement DEF Arrives, Typed, Asked
  <2>2. request'[t].op = "send" => Statement(t)' = "check draft"
    BY <2>1, SendScript DEF Statement
  <2>. QED
    BY <1>2, <2>2 DEF FromDrafts
<1>4. CASE Ends(t) \/ Commits(t)
  <2>1. ~Open(t)'
    BY <1>4 DEF Ends, Commits, Open
  <2>. QED
    BY <1>2, <2>1 DEF FromDrafts
<1>5. CASE Works(t)
  <2>1. /\ request'[t] = request[t] /\ Open(t) /\ Open(t)' /\ request[t] \in Requests
        /\ Statement(t)' = Statement(t) \/ Turns(t)
    BY <1>5, Onward DEF Open
  <2>2. SUFFICES ASSUME request[t].op = "send", Statement(t)' # "check draft",
                        NEW v \in fpm', Committed(v[3])', v[1] = request[t].msg,
                        OwnerOf(v[2]) = request[t].user, ~Crossed(t, v)'
                 PROVE  v[2] = <<request[t].user, "draft">>
    BY <1>2, <2>1 DEF FromDrafts
  <2>3. v \in fpm /\ Committed(v[3])
    BY <1>5, <2>2, WorksProceeds, RowsShow DEF Commits
  <2>4. ~Crossed(t, v)
    BY <2>2, CrossedStays
  <2>5. CASE Statement(t) # "check draft"
    BY <2>1, <2>2, <2>3, <2>4, <2>5 DEF FromDrafts
  <2>6. CASE Statement(t) = "check draft"
    <3>1. Passes(t)
      BY <2>1, <2>2, <2>6 DEF Turns, Proceeds, Executing
    <3>2. <<request[t].msg, <<request[t].user, "draft">>>> \in Placed
      BY <2>6, <3>1 DEF Passes, Passable
    <3>3. PICK d \in fpm : /\ Committed(d[3]) /\ d[1] = request[t].msg
                           /\ d[2] = <<request[t].user, "draft">>
      BY <3>2 DEF Placed
    <3>4. OwnerOf(d[2]) = request[t].user /\ TypeOf(d[2]) = "draft"
      <4>1. request[t].user \in Users /\ "draft" \in SystemTypes
        BY <2>1, RequestTyped DEF SystemTypes
      <4>. QED
        BY <3>3, <4>1, SystemFolder
    <3>5. ~SentAndReceived(d, v)
      BY <3>4 DEF SentAndReceived
    <3>6. Crowded(d) => Crossed(t, v)
      BY <2>1, <2>2, <3>3, <3>4, CrowdedCrosses
    <3>. QED
      BY <2>2, <2>3, <2>4, <3>3, <3>4, <3>5, <3>6 DEF OneFolder
  <2>. QED
    BY <2>5, <2>6
<1>. QED
  BY <1>2, <1>3, <1>4, <1>5

LEMMA FromFolderGoesOn ==
    ASSUME Typed, Pooled, Locked, Kinds, OneFolder, \A u \in Tx : FromFolder(u), NEW t \in Tx,
           Arrives(t) \/ Works(t) \/ Ends(t) \/ Commits(t)
    PROVE  \A u \in Tx : FromFolder(u)'
<1>1. Alone(t)
  BY WorksProceeds DEF Arrives, Ends, Commits
<1>2. ASSUME NEW u \in Tx \ {t}
      PROVE  FromFolder(u)'
  <2>1. /\ Statement(u)' = Statement(u) /\ (Open(u)' <=> Open(u)) /\ request'[u] = request[u]
        /\ todo'[u] = todo[u]
    BY <1>1, Unchanged
  <2>2. SUFFICES ASSUME Open(u), request[u].op = "drop", NEW v \in fpm', Committed(v[3])',
                        OwnerOf(v[2]) = request[u].user, Copied(u, v[1])', ~Crossed(u, v)'
                 PROVE  v[2] = request[u].folder
    BY <2>1 DEF FromFolder
  <2>3. v \in fpm /\ Committed(v[3])
    BY <2>2, ShownBeside
  <2>4. ~Crossed(u, v)
    BY <2>2, CrossedStays
  <2>5. \A r \in fpm' : r[3] = u => r \in fpm
    BY RowsCome
  <2>6. Copied(u, v[1])
    BY <2>1, <2>2, <2>5 DEF Copied
  <2>. QED
    BY <2>2, <2>3, <2>4, <2>6 DEF FromFolder
<1>3. CASE Arrives(t)
  <2>1. todo'[t] = Null /\ fpm' = fpm /\ status[t] = "idle"
    BY <1>3, FirstStatement DEF Arrives
  <2>2. \A r \in fpm' : r[3] # t
    BY <2>1 DEF Kinds, Inserted
  <2>3. \A m : ~Copied(t, m)'
    BY <2>1, <2>2 DEF Copied
  <2>. QED
    BY <1>2, <2>3 DEF FromFolder
<1>4. CASE Ends(t) \/ Commits(t)
  <2>1. ~Open(t)'
    BY <1>4 DEF Ends, Commits, Open
  <2>. QED
    BY <1>2, <2>1 DEF FromFolder
<1>5. CASE Works(t)
  <2>1. /\ request'[t] = request[t] /\ Open(t) /\ Open(t)' /\ request[t] \in Requests
        /\ \/ Statement(t)' = Statement(t) /\ Picks(t)
           \/ /\ Statement(t)' = Statement(t)
              /\ \E i \in todo[t] :
                    Proceeds(t, i) /\ todo[t] # {i} /\ todo'[t] = todo[t] \ {i}
           \/ Turns(t)
    BY <1>5, Onward DEF Open
  <2>2. SUFFICES ASSUME request[t].op = "drop", NEW v \in fpm', Committed(v[3])',
                        OwnerOf(v[2]) = request[t].user, Copied(t, v[1])', ~Crossed(t, v)'
                 PROVE  v[2] = request[t].folder
    BY <1>2, <2>1 DEF FromFolder
  <2>3. v \in fpm /\ Committed(v[3])
    BY <1>5, <2>2, WorksProceeds, RowsShow DEF Commits
  <2>4. ~Crossed(t, v)
    BY <2>2, CrossedStays
  <2>5. CASE Copied(t, v[1])
    BY <2>1, <2>2, <2>3, <2>4, <2>5 DEF FromFolder
  <2>6. CASE ~Copied(t, v[1])
    <3>. DEFINE e == <<v[1], <<request[t].user, "trash">>>>
    <3>1. ASSUME NEW r \in fpm', r \notin fpm, r[3] = t, r[1] = v[1]
          PROVE  FALSE
      <4>1. PICK i \in todo[t] : FilesItem(t, i) /\ r = <<i[1], i[2], t>>
        BY <3>1, RowsCome
      <4>2. Statement(t) \in Adding /\ todo[t] # Null /\ i \in MsgIds \X FolderIds
        BY <4>1 DEF FilesItem, Proceeds, Typed, LeftOver
      <4>3. Statement(t) = "file in trash"
        <5>1. Belongs(request[t].op, Statement(t))
          BY <2>1, StatementOf DEF Typed, Open
        <5>. QED
          BY <2>2, <4>2, <5>1 DEF Belongs, Adding
      <4>4. MayFile(t, i)
        BY <2>1, <4>1, <4>2 DEF Kinds, Chosen
      <4>5. i[1] = v[1] /\ i[2] = <<request[t].user, "trash">>
        BY <2>2, <3>1, <4>1, <4>4 DEF MayFile
      <4>6. i = e
        BY <4>2, <4>5
      <4>. QED
        BY <2>6, <4>2, <4>3, <4>6 DEF Copied
    <3>2. Statement(t)' = "file in trash" /\ todo'[t] # Null /\ e \in todo'[t]
      <4>1. ~\E r \in fpm' : r[3] = t /\ r[1] = v[1]
        BY <2>6, <3>1 DEF Copied
      <4>. QED
        BY <2>1, <2>2, <4>1 DEF Copied
    <3>3. Statement(t)' = Statement(t)
      BY <2>1, <3>2 DEF Turns
    <3>4. Picks(t)
      <4>1. ASSUME NEW i \in todo[t], Proceeds(t, i), todo'[t] = todo[t] \ {i}
            PROVE  FALSE
        <5>1. Statement(t) = "file in trash" /\ todo[t] # Null /\ e \in todo[t]
          BY <3>2, <3>3, <4>1 DEF Proceeds
        <5>. QED
          BY <2>6, <5>1 DEF Copied
      <4>. QED
        BY <2>1, <3>2, <4>1 DEF Turns
    <3>5. e \in Additions(t)
      <4>1. Executing(t) /\ todo'[t] = Items(t) /\ Statement(t) \in Adding
        BY <3>2, <3>3, <3>4 DEF Picks, Adding
      <4>2. Items(t) = Additions(t)
        BY <2>1, <4>1, PickedTyped DEF Typed
      <4>. QED
        BY <3>2, <4>1, <4>2
    <3>6. PICK w \in Visible(t) : w[2] = request[t].folder /\ e = <<w[1], <<request[t].user, "trash">>>>
      <4>1. Additions(t) = {<<w[1], <<request[t].user, "trash">>>> :
                              w \in {x \in Visible(t) : x[2] = request[t].folder}}
        BY <3>2, <3>3 DEF Additions
      <4>. QED
        BY <3>5, <4>1
    <3>7. w \in fpm /\ w[1] = v[1] /\ (w[3] = t \/ Committed(w[3]))
      BY <3>6 DEF Visible
    <3>8. request[t].folder \in CustomIds /\ OwnerOf(request[t].folder) = request[t].user
      BY <2>1, <2>2, <3>2, <3>3 DEF Kinds, Checked, Open
    <3>9. w[3] # t
      BY <2>6, <3>7 DEF Copied
    <3>10. ~SentAndReceived(w, v)
      BY <3>6, <3>8 DEF SentAndReceived, TypeOf
    <3>11. Crowded(w) => Crossed(t, v)
      BY <2>1, <2>2, <3>6, <3>7, <3>8, CrowdedCrosses
    <3>. QED
      BY <2>2, <2>3, <2>4, <3>6, <3>7, <3>8, <3>9, <3>10, <3>11 DEF OneFolder
  <2>. QED
    BY <2>5, <2>6
<1>. QED
  BY <1>2, <1>3, <1>4, <1>5

\* What a request adds to a message's folders when it commits.
LEMMA CommitsAlone ==
    ASSUME Typed, Locked, Kinds, NEW t \in Tx, Cleared(t), FromDrafts(t), FromFolder(t),
           Commits(t), NEW v \in fpm, v[3] = t, OwnerOf(v[2]) = request[t].user,
           NEW w \in fpm, Committed(w[3]), w \notin deleted[t], ~Crossed(t, w),
           w[1] = v[1], OwnerOf(w[2]) = OwnerOf(v[2]), w[2] # v[2]
    PROVE  FALSE
<1>1. Open(t) /\ Statement(t) = "commit" /\ request[t] \in Requests
  BY DEF Commits, Typed, Asked, Open
<1>2. /\ request[t].user \in Users /\ request[t].op \in Ops /\ request[t].folder \in FolderIds
      /\ v[1] \in MsgIds /\ v[2] \in FolderIds /\ w[2] \in FolderIds
  BY <1>1, RequestTyped, VersionTyped DEF Typed
<1>3. MayFile(t, <<v[1], v[2]>>)
  BY DEF Kinds, Inserted
<1>4. request[t].op \in {"spam", "move", "send"} => ~MayUnfile(t, w)
  <2>1. ~Early(t) /\ Statement(t) \notin Unfiling
    BY <1>1 DEF Early, Unfiling
  <2>. QED
    BY <1>1, <2>1 DEF Cleared
<1>5. CASE request[t].op = "spam"
  <2>1. v[1] = request[t].msg /\ v[2] = <<request[t].user, "spam">>
    BY <1>3, <1>5 DEF MayFile
  <2>2. TypeOf(w[2]) = "spam"
    BY <1>4, <1>5, <2>1 DEF MayUnfile
  <2>3. w[2] = <<request[t].user, "spam">>
    BY <1>2, <2>2, FolderKinds
  <2>. QED
    BY <2>1, <2>3
<1>6. CASE request[t].op = "move"
  <2>1. v[1] = request[t].msg
    BY <1>3, <1>6 DEF MayFile
  <2>. QED
    BY <1>4, <1>6, <2>1 DEF MayUnfile
<1>7. CASE request[t].op = "send"
  <2>1. v[1] = request[t].msg
    BY <1>3, <1>7 DEF MayFile
  <2>2. w[2] = <<request[t].user, "draft">>
    BY <1>1, <1>7, <2>1 DEF FromDrafts
  <2>3. TypeOf(w[2]) = "draft"
    <3>1. "draft" \in SystemTypes
      BY DEF SystemTypes
    <3>. QED
      BY <1>2, <2>2, <3>1, SystemFolder
  <2>. QED
    BY <1>4, <1>7, <2>1, <2>3 DEF MayUnfile
<1>8. CASE request[t].op = "drop"
  <2>1. w[2] = request[t].folder
    BY <1>1, <1>8 DEF FromFolder, Copied
  <2>2. request[t].folder \in Targets /\ "update" \in LockMode
    BY <1>2 DEF Targets, LockMode
  <2>3. Dooming(t, request[t].folder) /\ request[t].folder \in folders
    BY <1>1, <1>8, <2>1 DEF Dooming, Locked, Rooted
  <2>4. Held(t, request[t].folder, "update")
    BY <1>1, <2>2, <2>3 DEF Locked, DoomHeld
  <2>5. w \in deleted[t] \/ Statement(t) \in Cascading
    BY <2>1, <2>2, <2>4 DEF Locked, Cascaded, Seen
  <2>. QED
    BY <1>1, <2>5 DEF Cascading
<1>. QED
  BY <1>3, <1>5, <1>6, <1>7, <1>8 DEF MayFile

\* Two rows of one request lie in one folder, or in "sent" and "inbox".
LEMMA OwnRows ==
    ASSUME Typed, Kinds, NEW t \in Tx, Open(t), NEW v \in fpm, NEW w \in fpm, v[3] = t,
           w[3] = t, v[2] # w[2]
    PROVE  SentAndReceived(v, w)
<1>1. MayFile(t, <<v[1], v[2]>>) /\ MayFile(t, <<w[1], w[2]>>)
  BY DEF Kinds, Inserted
<1>2. request[t].user \in Users
  BY RequestTyped DEF Typed, Asked, Open
<1>3. \/ v[2] = <<request[t].user, "sent">> /\ w[2] = <<request[t].user, "inbox">>
      \/ w[2] = <<request[t].user, "sent">> /\ v[2] = <<request[t].user, "inbox">>
  BY <1>1 DEF MayFile
<1>. QED
  BY <1>2, <1>3, SystemFolder DEF SystemTypes, SentAndReceived

LEMMA OneFolderGoesOn ==
    ASSUME Typed, Pooled, Locked, Kinds, OneFolder, NEW t \in Tx,
           Arrives(t) \/ Works(t) \/ Ends(t) \/ Commits(t),
           \A u \in Tx : Cleared(u) /\ FromDrafts(u) /\ FromFolder(u)
    PROVE  OneFolder'
<1>1. ASSUME NEW v \in fpm', NEW w \in fpm', Committed(v[3])', Committed(w[3])',
             v[1] = w[1], OwnerOf(v[2]) = OwnerOf(w[2]), v[2] # w[2],
             Commits(t), v[3] = t, v \in fpm, w \in fpm
      PROVE  SentAndReceived(v, w) \/ Crowded(w)'
  <2>1. Open(t) /\ request'[t] = request[t] /\ load' = load
    BY <1>1 DEF Commits, Alone
  <2>2. FilesLike(t, v)'
    BY <1>1, CommitFiles
  <2>3. FilesLike(t, w)'
    BY <1>1, <2>2 DEF FilesLike
  <2>4. CASE w[3] = t
    BY <1>1, <2>1, <2>4, OwnRows
  <2>5. CASE OwnerOf(v[2]) # request[t].user
    <3>1. Meddled(w)'
      BY <1>1, <2>1, <2>3, <2>5 DEF Meddled
    <3>. QED
      BY <3>1 DEF Crowded
  <2>6. CASE w[3] # t /\ OwnerOf(v[2]) = request[t].user
    <3>1. Committed(w[3]) /\ w \notin deleted[t]
      <4>1. Committed(w[3])
        BY <1>1, <2>6, RowsShow
      <4>. QED
        BY <1>1, <4>1 DEF Commits
    <3>2. Crossed(t, w)
      BY <1>1, <2>6, <3>1, CommitsAlone
    <3>3. Crossed(t, w)'
      BY <3>2, CrossedStays
    <3>4. CASE Meddled(w)'
      BY <3>4 DEF Crowded
    <3>5. ASSUME load'.open > 1, NEW u \in Tx, u # t, FilesLike(u, w)'
          PROVE  Crowded(w)'
      BY <2>3, <3>5 DEF Crowded
    <3>. QED
      BY <3>3, <3>4, <3>5 DEF Crossed
  <2>. QED
    BY <2>4, <2>5, <2>6
<1>2. SUFFICES ASSUME NEW v \in fpm', NEW w \in fpm', Committed(v[3])', Committed(w[3])',
                      v[1] = w[1], OwnerOf(v[2]) = OwnerOf(w[2]), v[2] # w[2]
               PROVE  SentAndReceived(v, w) \/ Crowded(v)'
  BY DEF OneFolder, SentAndReceived
<1>3. /\ v \in fpm /\ (Committed(v[3]) \/ (Commits(t) /\ v[3] = t))
      /\ w \in fpm /\ (Committed(w[3]) \/ (Commits(t) /\ w[3] = t))
  BY <1>2, RowsShow
<1>4. Crowded(w)' => Crowded(v)'
  <2>1. \A u : FilesLike(u, v)' <=> FilesLike(u, w)'
    BY <1>2 DEF FilesLike
  <2>. QED
    BY <1>2, <2>1 DEF Crowded, Meddled
<1>5. CASE Commits(t) /\ v[3] = t
  BY <1>1, <1>2, <1>3, <1>4, <1>5
<1>6. CASE Commits(t) /\ w[3] = t
  <2>1. SentAndReceived(w, v) \/ Crowded(v)'
    BY <1>1, <1>2, <1>3, <1>6
  <2>. QED
    BY <2>1 DEF SentAndReceived
<1>7. CASE Committed(v[3]) /\ Committed(w[3])
  <2>1. SentAndReceived(v, w) \/ Crowded(v)
    BY <1>2, <1>3, <1>7 DEF OneFolder
  <2>. QED
    BY <2>1, CrowdedStays
<1>. QED
  BY <1>3, <1>5, <1>6, <1>7

Tidy == OneFolder /\ \A t \in Tx : Cleared(t) /\ FromDrafts(t) /\ FromFolder(t)

LEMMA TidyStarts == Init => Tidy
<1>. SUFFICES ASSUME Init PROVE Tidy
  OBVIOUS
<1>1. PICK s \in Starts : fpm = {<<e[1], e[2], Setup>> : e \in s}
  BY DEF Init
<1>2. ASSUME NEW v \in fpm, NEW w \in fpm, v[1] = w[1], OwnerOf(v[2]) = OwnerOf(w[2]),
             v[2] # w[2]
      PROVE  SentAndReceived(v, w)
  <2>1. PICK d \in s : v = <<d[1], d[2], Setup>>
    BY <1>1
  <2>2. PICK e \in s : w = <<e[1], e[2], Setup>>
    BY <1>1
  <2>3. v[1] = d[1] /\ v[2] = d[2] /\ w[1] = e[1] /\ w[2] = e[2]
    BY <2>1, <2>2
  <2>4. d[1] = e[1] /\ OwnerOf(d[2]) = OwnerOf(e[2]) /\ d[2] # e[2]
    BY <1>2, <2>3
  <2>5. {TypeOf(d[2]), TypeOf(e[2])} = {"inbox", "sent"}
    BY <2>4, StartsAssumption, Zenon
  <2>. QED
    BY <2>3, <2>5 DEF SentAndReceived
<1>3. OneFolder
  BY <1>2 DEF OneFolder
<1>4. \A t \in Tx : ~Open(t)
  BY DEF Init, Open
<1>. QED
  BY <1>3, <1>4 DEF Tidy, Cleared, FromDrafts, FromFolder

LEMMA TidyHolds == Spec => []Tidy
<1>1. Typed /\ Pooled /\ Locked /\ Kinds /\ Tidy /\ [Next]_vars => Tidy'
  <2>. SUFFICES ASSUME Typed, Pooled, Locked, Kinds, Tidy, [Next]_vars PROVE Tidy'
    OBVIOUS
  <2>1. CASE UNCHANGED vars
    <3>1. /\ load' = load /\ request' = request /\ status' = status /\ pc' = pc
          /\ todo' = todo /\ fpm' = fpm /\ deleted' = deleted
      BY <2>1 DEF vars
    <3>2. \A u, v : FilesLike(u, v)' <=> FilesLike(u, v)
      BY <3>1 DEF FilesLike, Files, Done
    <3>3. \A v : /\ Committed(v[3])' <=> Committed(v[3])
                 /\ Crowded(v)' <=> Crowded(v)
                 /\ \A t : Crossed(t, v)' <=> Crossed(t, v)
      BY <3>1, <3>2 DEF Committed, Crowded, Crossed, Meddled
    <3>4. ASSUME NEW t \in Tx
          PROVE  /\ Open(t)' <=> Open(t)
                 /\ Statement(t)' = Statement(t)
                 /\ \A v : MayUnfile(t, v)' <=> MayUnfile(t, v)
      BY <3>1 DEF Open, Statement, MayUnfile
    <3>5. ASSUME NEW t \in Tx
          PROVE  (Early(t)' <=> Early(t)) /\ \A m : Copied(t, m)' <=> Copied(t, m)
      BY <3>1, <3>4 DEF Early, Copied
    <3>6. OneFolder'
      BY <3>1, <3>3 DEF Tidy, OneFolder
    <3>7. \A t \in Tx : Cleared(t)'
      BY <3>1, <3>3, <3>4, <3>5 DEF Tidy, Cleared
    <3>8. \A t \in Tx : FromDrafts(t)' /\ FromFolder(t)'
      BY <3>1, <3>3, <3>4, <3>5 DEF Tidy, FromDrafts, FromFolder
    <3>. QED
      BY <3>6, <3>7, <3>8 DEF Tidy
  <2>2. ASSUME NEW t \in Tx, Arrives(t) \/ Works(t) \/ Ends(t) \/ Commits(t)
        PROVE  Tidy'
    BY <2>2, OneFolderGoesOn, ClearedGoesOn, FromDraftsGoesOn, FromFolderGoesOn DEF Tidy
  <2>. QED
    BY <2>1, <2>2, StepsOf DEF Typed
<1>. QED
  BY <1>1, TidyStarts, LockedKindsHold, PooledHolds, PTL DEF Spec

\* A message lies in two folders of a user only where he was served more than one
\* request at a time and two that file the message were answered, or where somebody
\* else has filed it; "sent" and "inbox" apart (message-repository.go:662, :763, :943).
THEOREM TwoFoldersNeedTwoFilingsHold == Spec => []TwoFoldersNeedTwoFilings
<1>1. Tidy => TwoFoldersNeedTwoFilings
  <2>. SUFFICES ASSUME Tidy, NEW p \in Users, NEW m \in alive, NEW f \in Where(p, m),
                       NEW g \in Where(p, m), f # g
                PROVE  \/ {TypeOf(f), TypeOf(g)} = {"inbox", "sent"}
                       \/ \E t \in Tx : Files(t, p, m) /\ request[t].user # p
                       \/ /\ load.open > 1
                          /\ \E t, u \in Tx : t # u /\ Files(t, p, m) /\ Files(u, p, m)
    BY DEF TwoFoldersNeedTwoFilings
  <2>1. PICK v \in fpm : Committed(v[3]) /\ v[1] = m /\ v[2] = f
    BY DEF Where, Placed
  <2>2. PICK w \in fpm : Committed(w[3]) /\ w[1] = m /\ w[2] = g
    BY DEF Where, Placed
  <2>3. OwnerOf(f) = p /\ OwnerOf(g) = p
    BY DEF Where
  <2>4. SentAndReceived(v, w) \/ Crowded(v)
    BY <2>1, <2>2, <2>3 DEF Tidy, OneFolder
  <2>5. \A t : FilesLike(t, v) <=> Files(t, p, m)
    BY <2>1, <2>3 DEF FilesLike
  <2>. QED
    BY <2>1, <2>2, <2>3, <2>4, <2>5 DEF SentAndReceived, Crowded, Meddled
<1>. QED
  BY <1>1, TidyHolds, PTL

-----------------------------------------------------------------------------
(* What is sent is sent for good.                                           *)

StampHeld(t) == Held(t, request[t].msg, "no key update")

\* From its UPDATE on a sending holds the message row, and dates it when it commits.
Stamped(t) ==
    request[t].op = "send" =>
        /\ /\ Open(t)
           /\ Statement(t) \in {"unfile draft", "file in sent", "keys", "file in inbox", "commit"}
           => request[t].msg \notin alive \/ StampHeld(t)
        /\ status[t] = "committed" => request[t].msg \notin alive \/ request[t].msg \in dispatched

LEMMA StampedGoesOn ==
    ASSUME Typed, Locked, \A u \in Tx : Stamped(u), NEW t \in Tx,
           Arrives(t) \/ Works(t) \/ Ends(t) \/ Commits(t)
    PROVE  \A u \in Tx : Stamped(u)'
<1>1. /\ Alone(t) /\ RowTypes /\ "no key update" \in LockMode
      /\ alive' \subseteq alive /\ dispatched \subseteq dispatched'
  BY WorksProceeds DEF Arrives, Ends, Commits, Typed, LockMode
<1>2. ASSUME NEW u \in Tx, request[u] \in Requests, request'[u] = request[u], StampHeld(u),
             ~(u = t /\ (Ends(t) \/ Commits(t)))
      PROVE  StampHeld(u)'
  <2>1. request[u].msg \in Targets
    BY <1>2, RequestTyped DEF Targets
  <2>2. CASE Arrives(t)
    <3>1. <<u, request[u].msg, "no key update">> \in lock
      BY <1>2 DEF StampHeld, Held
    <3>2. lock' = lock
      BY <2>2, LocksKept
    <3>. QED
      BY <1>2, <3>1, <3>2 DEF StampHeld, Held
  <2>3. CASE Works(t)
    <3>1. Held(u, request[u].msg, "no key update")'
      BY <1>1, <1>2, <2>1, <2>3, LocksGrow DEF StampHeld
    <3>. QED
      BY <1>2, <3>1 DEF StampHeld, Held
  <2>4. CASE Ends(t) \/ Commits(t)
    <3>1. Held(u, request[u].msg, "no key update")'
      BY <1>2, <2>4, LocksReleased DEF StampHeld
    <3>. QED
      BY <1>2, <3>1 DEF StampHeld, Held
  <2>. QED
    BY <2>2, <2>3, <2>4
<1>3. ASSUME NEW u \in Tx, status[u] = "committed"
      PROVE  Stamped(u)'
  <2>1. status'[u] = "committed" /\ request'[u] = request[u]
    BY <1>3, AnswersStay
  <2>. QED
    BY <1>1, <1>3, <2>1 DEF Stamped, Open
<1>4. ASSUME NEW u \in Tx \ {t}, status[u] # "committed"
      PROVE  Stamped(u)'
  <2>1. /\ request'[u] = request[u] /\ status'[u] = status[u]
        /\ Statement(u)' = Statement(u) /\ (Open(u)' <=> Open(u))
    BY <1>1, Unchanged
  <2>2. Open(u) => request[u] \in Requests
    BY DEF Typed, Asked, Open
  <2>. QED
    BY <1>1, <1>2, <1>4, <2>1, <2>2 DEF Stamped
<1>5. ASSUME status[t] # "committed"
      PROVE  Stamped(t)'
  <2>1. CASE Arrives(t)
    <3>1. Statement(t)' \in {"begin", "check draft"} /\ status'[t] = "open"
      BY <2>1, FirstStatement DEF Arrives
    <3>. QED
      BY <3>1 DEF Stamped
  <2>2. CASE Ends(t)
    BY <2>2 DEF Ends, Stamped, Open
  <2>3. CASE Commits(t)
    <3>1. request'[t] = request[t] /\ Open(t) /\ Statement(t) = "commit" /\ ~Open(t)'
          /\ request[t] \in Requests
      BY <2>3 DEF Commits, Open, Typed, Asked
    <3>2. ASSUME request[t].op = "send", request[t].msg \in alive
          PROVE  request[t].msg \in dispatched'
      <4>1. StampHeld(t)
        BY <3>1, <3>2 DEF Stamped
      <4>2. request[t].msg \in Updated(t)
        BY <3>2, <4>1 DEF StampHeld, Held, Updated
      <4>. QED
        BY <2>3, <3>2, <4>2 DEF Commits
    <3>. QED
      BY <1>1, <3>1, <3>2 DEF Stamped
  <2>4. CASE Works(t)
    <3>1. /\ request'[t] = request[t] /\ Open(t) /\ status'[t] = "open"
          /\ request[t] \in Requests
          /\ Statement(t)' = Statement(t) \/ Turns(t)
      BY <2>4, Onward DEF Open
    <3>2. SUFFICES ASSUME request[t].op = "send", request[t].msg \in alive',
                          Statement(t)' \in {"unfile draft", "file in sent", "keys",
                                             "file in inbox", "commit"}
                   PROVE  StampHeld(t)'
      BY <3>1 DEF Stamped
    <3>3. CASE Statement(t) = "stamp"
      <4>1. Turns(t) /\ Executing(t) /\ Statement(t) \notin Unfiling \cup Adding
        BY <3>1, <3>2, <3>3 DEF Executing, Open, Unfiling, Adding
      <4>2. Items(t) = {request[t].msg}
        BY <1>1, <3>1, <3>3, <4>1, PickedTyped
      <4>3. PICK i \in todo[t] : Proceeds(t, i) /\ todo[t] = {i}
        <5>1. ~Passes(t)
          BY <4>1, <4>2 DEF Passes, Passable
        <5>. QED
          BY <4>1, <5>1 DEF Turns
      <4>4. i = request[t].msg
        BY <3>3, <4>1, <4>3 DEF Typed, LeftOver, Proceeds
      <4>5. PICK j \in todo[t] : Locks(t, j)
        <5>1. ~Passes(t) /\ ~Picks(t)
          BY <4>2, <4>3 DEF Passes, Picks, Proceeds, Passable
        <5>. QED
          BY <2>4, <3>3, <4>1, <5>1 DEF Works, Unfiles, FilesItem, Bonds
      <4>6. j = request[t].msg
        BY <4>3, <4>4, <4>5
      <4>7. Mode(Statement(t)) = "no key update"
        BY <3>3 DEF Mode
      <4>8. <<t, request[t].msg, "no key update">> \in lock'
        BY <1>1, <3>2, <4>5, <4>6, <4>7 DEF Locks
      <4>. QED
        BY <3>1, <4>8 DEF StampHeld, Held
    <3>4. CASE Statement(t) # "stamp"
      <4>1. Statement(t) \in {"unfile draft", "file in sent", "keys", "file in inbox", "commit"}
        BY <3>1, <3>2, <3>4 DEF Turns, Moves
      <4>2. StampHeld(t)
        BY <1>1, <3>1, <3>2, <4>1 DEF Stamped
      <4>3. ~Ends(t) /\ ~Commits(t)
        BY <2>4, <3>1 DEF Ends, Commits
      <4>. QED
        BY <1>2, <3>1, <4>2, <4>3
    <3>. QED
      BY <3>3, <3>4
  <2>. QED
    BY <2>1, <2>2, <2>3, <2>4
<1>. QED
  BY <1>3, <1>4, <1>5

\* Row r is the copy of t's message in its user's "inbox", t's own or one that was
\* there.
InboxCopy(t, r) ==
    /\ r[1] = request[t].msg /\ r[2] = <<request[t].user, "inbox">>
    /\ r[3] = t \/ Committed(r[3])

Inboxed(t) == \E r \in fpm : InboxCopy(t, r)

\* From the end of its last INSERT a sending has a copy in the inbox, until the user
\* files the message elsewhere or the message is deleted.
InboxKept(t) ==
    request[t].op = "send"
    /\ ((Open(t) /\ "file in inbox" \in Past(t)) \/ status[t] = "committed")
        => Inboxed(t) \/ request[t].msg \notin alive \/ Again(t)

\* An INSERT that may meet a duplicate ends with a row there, its own or a committed
\* one.
LEMMA FiledOrThere ==
    ASSUME Typed, Versions, NEW t \in Tx, Open(t), NEW i \in todo[t], FilesItem(t, i)
    PROVE  \E r \in fpm' : r[1] = i[1] /\ r[2] = i[2] /\ (r[3] = t \/ Committed(r[3]))
<1>1. /\ Statement(t) \in Adding /\ Holders(t, i) = {} /\ todo[t] # Null
      /\ i \in MsgIds \X FolderIds
  BY DEF FilesItem, Proceeds, Typed, LeftOver
<1>2. CASE Duplicates(t, i) = {}
  <2>1. <<i[1], i[2], t>> \in fpm'
    BY <1>2 DEF FilesItem
  <2>. QED
    BY <2>1
<1>3. CASE Duplicates(t, i) # {}
  <2>1. PICK v \in Duplicates(t, i) : TRUE
    BY <1>3
  <2>2. v \in fpm /\ v[1] = i[1] /\ v[2] = i[2] /\ fpm' = fpm
    BY <1>1, <1>3, <2>1 DEF Duplicates, FilesItem
  <2>3. Holders(t, i) = UNION {Deleters(t, w) \cup ({w[3]} \cap {u \in Tx \ {t} : Open(u)}) :
                                  w \in Duplicates(t, i)}
    BY <1>1 DEF Holders, Adding, Unfiling
  <2>4. {v[3]} \cap {u \in Tx \ {t} : Open(u)} = {}
    BY <1>1, <2>1, <2>3
  <2>5. v[3] = t \/ v[3] = Setup \/ (v[3] \in Tx /\ ~Open(v[3]))
    BY <2>2, <2>4, VersionTyped DEF Typed
  <2>6. v[3] = t \/ Committed(v[3])
    BY <2>2, <2>5 DEF Versions, Open, Committed
  <2>. QED
    BY <2>2, <2>6
<1>. QED
  BY <1>2, <1>3

\* The inbox copy stays, or the user files the message elsewhere, or it is deleted.
LEMMA InboxedStays ==
    ASSUME Typed, Locked, Kinds, NEW t \in Tx, Arrives(t) \/ Works(t) \/ Ends(t) \/ Commits(t),
           NEW u \in Tx, request[u] \in Requests, request'[u] = request[u],
           status[u] \in {"open", "committed"}, status'[u] \in {"open", "committed"}, Inboxed(u)
    PROVE  Inboxed(u)' \/ request'[u].msg \notin alive' \/ Again(u)'
<1>1. PICK r \in fpm : InboxCopy(u, r)
  BY DEF Inboxed
<1>2. /\ r[1] = request[u].msg /\ r[2] = <<request[u].user, "inbox">>
      /\ r[3] = u \/ Committed(r[3])
  BY <1>1 DEF InboxCopy
<1>3. CASE r \in fpm'
  <2>1. r[3] = u \/ Committed(r[3])'
    BY <1>2, CommittedStays DEF Typed
  <2>2. InboxCopy(u, r)'
    BY <1>2, <2>1 DEF InboxCopy
  <2>. QED
    BY <1>3, <2>2 DEF Inboxed
<1>4. CASE r \notin fpm'
  <2>1. ~(Ends(t) /\ r[3] = t)
    BY <1>2, TxAssumption DEF Ends, Committed, Open
  <2>2. request[u].user \in Users /\ "inbox" \in SystemTypes
    BY RequestTyped DEF SystemTypes
  <2>3. r[2] \notin CustomIds /\ OwnerOf(r[2]) = request[u].user /\ TypeOf(r[2]) = "inbox"
    BY <1>2, <2>2, SystemFolder
  <2>4. \/ Done(t, {"spam", "move", "take"}, OwnerOf(r[2]), r[1])'
        \/ r[1] \notin alive'
    BY <1>4, <2>1, <2>3, RowTaken
  <2>5. \/ /\ status'[t] = "committed" /\ request'[t].op \in {"spam", "move", "take"}
           /\ request'[t].user = OwnerOf(r[2]) /\ request'[t].msg = r[1]
        \/ r[1] \notin alive'
    BY <2>4 DEF Done
  <2>. QED
    BY <1>2, <2>3, <2>5 DEF Again, Refiled, Done
<1>. QED
  BY <1>3, <1>4

\* Who commits a sending has filed it in the inbox.
LEMMA CommitsInboxed ==
    ASSUME NEW t \in Tx, request[t].op = "send", Statement(t) = "commit", pc[t] \in 1 .. 10
    PROVE  "file in inbox" \in Past(t)
<1>. DEFINE S(i) == Script["send"][i]
<1>1. S(pc[t]) = "commit"
  BY DEF Statement
<1>2. pc[t] = 10
  <2>1. /\ S(1) # "commit" /\ S(2) # "commit" /\ S(3) # "commit" /\ S(4) # "commit"
        /\ S(5) # "commit" /\ S(6) # "commit" /\ S(7) # "commit" /\ S(8) # "commit"
        /\ S(9) # "commit"
    BY SendScript
  <2>2. pc[t] \in {1, 2, 3, 4, 5, 6, 7, 8, 9, 10}
    OBVIOUS
  <2>. HIDE DEF S
  <2>. QED
    BY <1>1, <2>1, <2>2
<1>3. 8 \in 1 .. pc[t] - 1
  BY <1>2
<1>4. Script[request[t].op][8] = "file in inbox"
  BY SendScript
<1>. QED
  BY <1>3, <1>4 DEF Past

LEMMA InboxKeptGoesOn ==
    ASSUME Typed, Locked, Kinds, \A u \in Tx : InboxKept(u), NEW t \in Tx,
           Arrives(t) \/ Works(t) \/ Ends(t) \/ Commits(t)
    PROVE  \A u \in Tx : InboxKept(u)'
<1>1. Alone(t) /\ alive' \subseteq alive
  BY WorksProceeds DEF Arrives, Ends, Commits
<1>2. ASSUME NEW u \in Tx, request'[u] = request[u], status[u] \in {"open", "committed"},
             status'[u] \in {"open", "committed"},
             Inboxed(u) \/ request[u].msg \notin alive \/ Again(u)
      PROVE  Inboxed(u)' \/ request'[u].msg \notin alive' \/ Again(u)'
  <2>1. request[u] \in Requests
    BY <1>2 DEF Typed, Asked
  <2>. QED
    BY <1>1, <1>2, <2>1, InboxedStays, RefiledStays
<1>3. ASSUME NEW u \in Tx, u # t \/ status[u] = "committed"
      PROVE  InboxKept(u)'
  <2>1. /\ request'[u] = request[u] /\ status'[u] = status[u]
        /\ Open(u)' <=> Open(u)
        /\ Past(u)' = Past(u)
    <3>1. request'[u] = request[u] /\ status'[u] = status[u] /\ pc'[u] = pc[u]
      BY <1>1, <1>3, AnswersStay DEF Alone
    <3>. QED
      BY <3>1, PastStays DEF Open
  <2>. QED
    BY <1>2, <2>1 DEF InboxKept, Open
<1>4. ASSUME status[t] # "committed"
      PROVE  InboxKept(t)'
  <2>1. CASE Arrives(t)
    <3>1. pc'[t] = 1 /\ status'[t] = "open"
      BY <2>1 DEF Arrives, Typed, Asked
    <3>2. Past(t)' = {}
      BY <3>1 DEF Past
    <3>. QED
      BY <3>1, <3>2 DEF InboxKept
  <2>2. CASE Ends(t)
    BY <2>2 DEF Ends, InboxKept, Open
  <2>3. CASE Commits(t)
    <3>1. /\ request'[t] = request[t] /\ Open(t) /\ Statement(t) = "commit"
          /\ status'[t] = "committed" /\ pc[t] \in 1 .. 10
      BY <2>3 DEF Commits, Typed, Functions
    <3>2. request[t].op = "send" => "file in inbox" \in Past(t)
      BY <3>1, CommitsInboxed
    <3>. QED
      BY <1>2, <3>1, <3>2 DEF InboxKept, Open
  <2>4. CASE Works(t)
    <3>1. /\ request'[t] = request[t] /\ Open(t) /\ status'[t] = "open" /\ pc[t] \in 1 .. 10
          /\ Statement(t)' = Statement(t) \/ Turns(t)
      BY <2>4, Onward DEF Open, Typed, Functions
    <3>2. CASE "file in inbox" \in Past(t)
      BY <1>2, <3>1, <3>2 DEF InboxKept, Open
    <3>3. CASE "file in inbox" \notin Past(t)
      <4>1. SUFFICES ASSUME request[t].op = "send", "file in inbox" \in Past(t)'
                     PROVE  Inboxed(t)'
        BY <3>1 DEF InboxKept
      <4>2. pc'[t] = pc[t] + 1
        <5>1. pc'[t] # pc[t]
          BY <3>1, <3>3, <4>1, PastStays
        <5>. QED
          BY <2>4, <5>1, WorksProceeds DEF Passes, Picks, Proceeds
      <4>3. Statement(t) = "file in inbox"
        BY <3>1, <3>3, <4>1, <4>2, PastGrows
      <4>4. Turns(t)
        <5>1. ASSUME Statement(t)' = Statement(t)
              PROVE  FALSE
          <6>1. Statement(t)' = "keys"
            <7>1. Asked(t) /\ Same(t) /\ Statement(t) \in Adding /\ Statement(t) # "commit"
              BY <2>4, <4>3, WorksProceeds DEF Typed, Adding
            <7>. QED
              BY <3>1, <4>2, <7>1, Progress DEF Next1
          <6>. QED
            BY <4>3, <5>1, <6>1
        <5>. QED
          BY <3>1, <5>1
      <4>5. PICK i \in Additions(t) : FilesItem(t, i)
        BY <2>4, <4>3, <4>4, InsertEnds DEF Adding
      <4>6. i = <<request[t].msg, <<request[t].user, "inbox">>>>
        BY <4>3, <4>5 DEF Additions
      <4>7. i \in todo[t]
        BY <4>5 DEF FilesItem, Proceeds
      <4>8. PICK r \in fpm' : r[1] = i[1] /\ r[2] = i[2] /\ (r[3] = t \/ Committed(r[3]))
        BY <3>1, <4>5, <4>7, FiledOrThere DEF Locked
      <4>9. Committed(r[3]) => Committed(r[3])'
        <5>1. r[3] # t => r \in fpm
          BY <2>4, RowsCome
        <5>2. r \in fpm => (Committed(r[3]) => Committed(r[3])')
          BY <2>4, CommittedStays DEF Typed
        <5>3. r[3] = t => ~Committed(r[3])
          BY <3>1, TxAssumption DEF Committed, Open
        <5>. QED
          BY <5>1, <5>2, <5>3
      <4>10. InboxCopy(t, r)'
        BY <3>1, <4>6, <4>8, <4>9 DEF InboxCopy
      <4>. QED
        BY <4>8, <4>10 DEF Inboxed
    <3>. QED
      BY <3>2, <3>3
  <2>. QED
    BY <2>1, <2>2, <2>3, <2>4
<1>. QED
  BY <1>3, <1>4

\* Somebody has filed t's message elsewhere, or its user has taken it away.
Strayed(t) ==
    \E w \in Tx :
        \/ Done(w, {"spam", "move", "take"}, request[t].user, request[t].msg)
        \/ Files(w, request[t].user, request[t].msg) /\ request[w].op # "send"

\* A message that was sent is in no folder of its sender's but "sent" and "inbox".
SentOnly(t) ==
    request[t].op = "send" /\ status[t] = "committed" =>
        \A v \in fpm :
            Committed(v[3]) /\ v[1] = request[t].msg /\ OwnerOf(v[2]) = request[t].user
            => TypeOf(v[2]) \in {"sent", "inbox"} \/ Strayed(t)

LEMMA StrayedStays ==
    ASSUME NEW t \in Tx, Arrives(t) \/ Works(t) \/ Ends(t) \/ Commits(t),
           NEW u \in Tx, request'[u] = request[u], Strayed(u)
    PROVE  Strayed(u)'
<1>1. PICK w \in Tx :
        \/ Done(w, {"spam", "move", "take"}, request[u].user, request[u].msg)
        \/ Files(w, request[u].user, request[u].msg) /\ request[w].op # "send"
  BY DEF Strayed
<1>2. status[w] = "committed"
  BY <1>1 DEF Done, Files
<1>3. status'[w] = status[w] /\ request'[w] = request[w]
  BY <1>2, AnswersStay
<1>4. Done(w, {"spam", "move", "take"}, request[u].user, request[u].msg)
        => Done(w, {"spam", "move", "take"}, request[u].user, request[u].msg)'
  BY <1>3 DEF Done
<1>5. Files(w, request[u].user, request[u].msg) => Files(w, request[u].user, request[u].msg)'
  BY <1>3 DEF Done, Files
<1>. QED
  BY <1>1, <1>3, <1>4, <1>5 DEF Strayed

\* Who is crossed by another sending meets its sent copy, or a message that strayed.
LEMMA CrossedSending ==
    ASSUME Typed, Locked, Kinds, Sent, NEW t \in Tx, Commits(t), request[t].op = "send",
           NEW v, v[1] = request[t].msg, OwnerOf(v[2]) = request[t].user, Crossed(t, v)
    PROVE  Strayed(t)
<1>1. PICK u \in Tx : FilesLike(u, v) /\ (u # t \/ request[u].user # request[t].user)
  BY DEF Crossed, Meddled
<1>2. Files(u, request[t].user, request[t].msg) /\ status[u] = "committed"
  BY <1>1 DEF FilesLike, Files, Done
<1>3. CASE request[u].op # "send"
  BY <1>2, <1>3 DEF Strayed
<1>4. CASE request[u].op = "send"
  <2>1. request[u].user = request[t].user /\ request[u].msg = request[t].msg
    BY <1>2, <1>4 DEF Files, Done
  <2>2. Twins(t, u)
    BY <1>1, <1>4, <2>1 DEF Twins
  <2>3. Again(u)
    BY <1>2, <2>2, SecondSending DEF Sent
  <2>4. PICK w \in Tx : Done(w, {"spam", "move", "take"}, request[u].user, request[u].msg)
    BY <2>3 DEF Again, Refiled
  <2>. QED
    BY <2>1, <2>4 DEF Strayed
<1>. QED
  BY <1>3, <1>4

LEMMA SentOnlyGoesOn ==
    ASSUME Typed, Pooled, Locked, Kinds, Sent, Tidy, \A u \in Tx : SentOnly(u), NEW t \in Tx,
           Arrives(t) \/ Works(t) \/ Ends(t) \/ Commits(t)
    PROVE  \A u \in Tx : SentOnly(u)'
<1>1. SUFFICES ASSUME NEW u \in Tx, request'[u].op = "send", status'[u] = "committed",
                      NEW v \in fpm', Committed(v[3])', v[1] = request'[u].msg,
                      OwnerOf(v[2]) = request'[u].user
               PROVE  TypeOf(v[2]) \in {"sent", "inbox"} \/ Strayed(u)'
  BY DEF SentOnly
<1>2. /\ request'[u] = request[u]
      /\ status[u] = "committed" \/ (u = t /\ Commits(t))
  <2>1. CASE status[u] = "committed"
    BY <2>1, AnswersStay
  <2>2. CASE status[u] # "committed"
    BY <1>1, <2>2, Committing DEF Commits
  <2>. QED
    BY <2>1, <2>2
<1>3. request[u] \in Requests /\ request[u].user \in Users
  <2>1. request[u] \in Requests
    BY <1>2 DEF Typed, Asked, Commits, Open
  <2>. QED
    BY <2>1, RequestTyped
<1>4. ASSUME NEW w \in Tx, w = t, Commits(w), v[3] = w, request[w].op = "send"
      PROVE  TypeOf(v[2]) \in {"sent", "inbox"}
  <2>1. v \in fpm /\ request[w].user \in Users
    BY <1>1, <1>4, RequestTyped DEF Commits, Typed, Asked, Open
  <2>2. MayFile(w, <<v[1], v[2]>>)
    BY <1>4, <2>1 DEF Kinds, Inserted
  <2>3. \E y \in {"sent", "inbox"} : v[2] = <<request[w].user, y>>
    BY <1>4, <2>2 DEF MayFile
  <2>4. "sent" \in SystemTypes /\ "inbox" \in SystemTypes
    BY DEF SystemTypes
  <2>. QED
    BY <2>1, <2>3, <2>4, SystemFolder
<1>5. v \in fpm /\ (Committed(v[3]) \/ (Commits(t) /\ v[3] = t))
  BY <1>1, RowsShow
<1>6. CASE Commits(t) /\ v[3] = t
  <2>1. CASE request[t].op = "send"
    BY <1>4, <1>6, <2>1
  <2>2. CASE request[t].op # "send"
    <3>1. FilesLike(t, v)' /\ request'[t] = request[t]
      BY <1>5, <1>6, CommitFiles DEF Commits
    <3>2. /\ status'[t] = "committed" /\ request'[t].op # "send"
          /\ \/ /\ request'[t].op \in {"spam", "send"}
                /\ request'[t].user = OwnerOf(v[2]) /\ request'[t].msg = v[1]
             \/ /\ request'[t].op = "move"
                /\ request'[t].msg = v[1] /\ OwnerOf(request'[t].folder) = OwnerOf(v[2])
             \/ request'[t].op = "drop" /\ request'[t].user = OwnerOf(v[2])
      BY <2>2, <3>1 DEF FilesLike, Files, Done
    <3>. QED
      BY <1>1, <3>2 DEF Strayed, Files, Done
  <2>. QED
    BY <2>1, <2>2
<1>7. CASE status[u] = "committed" /\ Committed(v[3])
  <2>1. TypeOf(v[2]) \in {"sent", "inbox"} \/ Strayed(u)
    BY <1>1, <1>2, <1>5, <1>7 DEF SentOnly
  <2>. QED
    BY <1>2, <2>1, StrayedStays
<1>8. CASE u = t /\ Commits(t) /\ Committed(v[3])
  <2>1. Open(t) /\ Statement(t) = "commit" /\ v \notin deleted[t]
    BY <1>1, <1>8 DEF Commits
  <2>2. Crossed(t, v)
    <3>1. SUFFICES ASSUME ~Crossed(t, v) PROVE FALSE
      OBVIOUS
    <3>2. v[2] = <<request[t].user, "draft">>
      BY <1>1, <1>2, <1>5, <1>8, <2>1, <3>1 DEF Tidy, FromDrafts
    <3>3. "draft" \in SystemTypes
      BY DEF SystemTypes
    <3>4. TypeOf(v[2]) = "draft"
      BY <1>3, <1>8, <3>2, <3>3, SystemFolder
    <3>5. MayUnfile(t, v)
      BY <1>1, <1>2, <1>8, <3>4 DEF MayUnfile
    <3>6. ~Early(t) /\ Statement(t) \notin Unfiling
      BY <2>1 DEF Early, Unfiling
    <3>. QED
      BY <1>1, <1>2, <1>5, <1>8, <2>1, <3>1, <3>5, <3>6 DEF Tidy, Cleared
  <2>3. Strayed(t)
    BY <1>1, <1>2, <1>8, <2>2, CrossedSending
  <2>. QED
    BY <1>2, <1>8, <2>3, StrayedStays
<1>. QED
  BY <1>2, <1>5, <1>6, <1>7, <1>8

SentWell == \A t \in Tx : Stamped(t) /\ InboxKept(t) /\ SentOnly(t)

LEMMA SentWellHolds == Spec => []SentWell
<1>1. Init => SentWell
  <2>. SUFFICES ASSUME Init, NEW t \in Tx PROVE Stamped(t) /\ InboxKept(t) /\ SentOnly(t)
    BY DEF SentWell
  <2>1. status[t] = "idle"
    BY DEF Init
  <2>. QED
    BY <2>1 DEF Stamped, InboxKept, SentOnly, Open
<1>2. Typed /\ Pooled /\ Locked /\ Kinds /\ Sent /\ Tidy /\ SentWell /\ [Next]_vars => SentWell'
  <2>. SUFFICES ASSUME Typed, Pooled, Locked, Kinds, Sent, Tidy, SentWell, [Next]_vars
                PROVE  SentWell'
    OBVIOUS
  <2>1. CASE UNCHANGED vars
    <3>1. /\ request' = request /\ status' = status /\ pc' = pc /\ fpm' = fpm /\ lock' = lock
          /\ alive' = alive /\ dispatched' = dispatched
      BY <2>1 DEF vars
    <3>2. ASSUME NEW t \in Tx
          PROVE  /\ Open(t)' <=> Open(t)
                 /\ Statement(t)' = Statement(t) /\ Past(t)' = Past(t)
                 /\ StampHeld(t)' <=> StampHeld(t)
                 /\ Again(t)' <=> Again(t)
                 /\ Strayed(t)' <=> Strayed(t)
                 /\ Inboxed(t)' <=> Inboxed(t)
      <4>1. \A w, ops, p, m : Done(w, ops, p, m)' <=> Done(w, ops, p, m)
        BY <3>1 DEF Done
      <4>2. \A w, p, m : Files(w, p, m)' <=> Files(w, p, m)
        BY <3>1, <4>1 DEF Files
      <4>3. \A x : Committed(x)' <=> Committed(x)
        BY <3>1 DEF Committed
      <4>4. /\ Open(t)' <=> Open(t)
            /\ Statement(t)' = Statement(t) /\ Past(t)' = Past(t)
            /\ StampHeld(t)' <=> StampHeld(t)
        BY <3>1 DEF Open, Statement, Past, StampHeld, Held
      <4>5. Again(t)' <=> Again(t)
        BY <3>1 DEF Again, Refiled, Done
      <4>6. Strayed(t)' <=> Strayed(t)
        BY <3>1 DEF Strayed, Files, Done
      <4>7. Inboxed(t)' <=> Inboxed(t)
        BY <3>1, <4>3 DEF Inboxed, InboxCopy
      <4>. QED
        BY <4>4, <4>5, <4>6, <4>7
    <3>3. ASSUME NEW t \in Tx
          PROVE  Stamped(t)' /\ InboxKept(t)' /\ SentOnly(t)'
      <4>1. Stamped(t)'
        BY <3>1, <3>2 DEF SentWell, Stamped
      <4>2. InboxKept(t)'
        BY <3>1, <3>2 DEF SentWell, InboxKept
      <4>3. SentOnly(t)'
        BY <3>1, <3>2 DEF SentWell, SentOnly, Committed
      <4>. QED
        BY <4>1, <4>2, <4>3
    <3>. QED
      BY <3>3 DEF SentWell
  <2>2. ASSUME NEW t \in Tx, Arrives(t) \/ Works(t) \/ Ends(t) \/ Commits(t)
        PROVE  SentWell'
    BY <2>2, StampedGoesOn, InboxKeptGoesOn, SentOnlyGoesOn DEF SentWell
  <2>. QED
    BY <2>1, <2>2, StepsOf DEF Typed
<1>. QED
  BY <1>1, <1>2, LockedKindsHold, PooledHolds, SentHolds, TidyHolds, PTL DEF Spec

\* A sending that commits has dated the message and left it in "sent" and "inbox" of its
\* sender and in no other folder of his, whatever ran beside it, and so it stays until
\* he or a move files it elsewhere (message-repository.go:662).
THEOREM SentForGoodHolds == Spec => []SentForGood
<1>1. Sent /\ SentWell => SentForGood
  <2>. SUFFICES ASSUME Sent, SentWell, NEW p \in Users, NEW m \in alive, NEW t \in Tx,
                       Done(t, {"send"}, p, m)
                PROVE  /\ m \in dispatched
                       /\ \/ {TypeOf(f) : f \in Where(p, m)} = {"sent", "inbox"}
                          \/ \E w \in Tx : \/ Done(w, {"spam", "move", "take"}, p, m)
                                           \/ Files(w, p, m) /\ request[w].op # "send"
    BY DEF SentForGood
  <2>1. /\ status[t] = "committed" /\ request[t].op = "send"
        /\ request[t].user = p /\ request[t].msg = m
    BY DEF Done
  <2>2. m \in dispatched
    BY <2>1 DEF SentWell, Stamped
  <2>3. Again(t) => Strayed(t)
    BY DEF Again, Refiled, Strayed
  <2>4. Strayed(t) => \E w \in Tx : \/ Done(w, {"spam", "move", "take"}, p, m)
                                    \/ Files(w, p, m) /\ request[w].op # "send"
    BY <2>1 DEF Strayed
  <2>5. ASSUME ~Strayed(t)
        PROVE  {TypeOf(f) : f \in Where(p, m)} = {"sent", "inbox"}
    <3>1. "sent" \in SystemTypes /\ "inbox" \in SystemTypes
      BY DEF SystemTypes
    <3>2. \A y \in {"sent", "inbox"} :
             <<p, y>> \in FolderIds /\ OwnerOf(<<p, y>>) = p /\ TypeOf(<<p, y>>) = y
      BY <3>1, SystemFolder
    <3>3. <<p, "sent">> \in Where(p, m)
      <4>1. SentCopy(t) \in fpm
        BY <2>1, <2>3, <2>5 DEF Sent, SentKept
      <4>2. PICK v \in fpm : v = SentCopy(t)
        BY <4>1
      <4>3. v[1] = m /\ v[2] = <<p, "sent">> /\ v[3] = t
        BY <2>1, <4>2 DEF SentCopy
      <4>4. <<v[1], v[2]>> \in Placed
        BY <2>1, <4>3 DEF Placed, Committed
      <4>. QED
        BY <3>2, <4>3, <4>4 DEF Where
    <3>4. <<p, "inbox">> \in Where(p, m)
      <4>1. PICK r \in fpm : InboxCopy(t, r)
        BY <2>1, <2>3, <2>5 DEF SentWell, InboxKept, Inboxed
      <4>2. r[1] = m /\ r[2] = <<p, "inbox">> /\ Committed(r[3])
        BY <2>1, <4>1 DEF InboxCopy, Committed
      <4>3. <<r[1], r[2]>> \in Placed
        BY <4>2 DEF Placed
      <4>. QED
        BY <3>2, <4>2, <4>3 DEF Where
    <3>5. \A f \in Where(p, m) : TypeOf(f) \in {"sent", "inbox"}
      <4>. SUFFICES ASSUME NEW f \in Where(p, m) PROVE TypeOf(f) \in {"sent", "inbox"}
        OBVIOUS
      <4>1. PICK v \in fpm : Committed(v[3]) /\ v[1] = m /\ v[2] = f
        BY DEF Where, Placed
      <4>2. OwnerOf(v[2]) = p
        BY <4>1 DEF Where
      <4>. QED
        BY <2>1, <2>5, <4>1, <4>2 DEF SentWell, SentOnly
    <3>. QED
      BY <3>2, <3>3, <3>4, <3>5
  <2>. QED
    BY <2>2, <2>4, <2>5
<1>. QED
  BY <1>1, SentHolds, SentWellHolds, PTL

=============================================================================
