-------------------------- MODULE FolderPagesProofs --------------------------
(***************************************************************************)
(* Theorems about FolderPages, for folders and pages of any size, any      *)
(* number of readers of a message and any resolution of the clock.         *)
(***************************************************************************)
EXTENDS FolderPages, FiniteSetTheorems, TLAPS

USE DEF mailbox, client

Shown == page \cup before

-----------------------------------------------------------------------------
(* The cursor. *)

\* BelowCursor for a message of date d and a cursor other than FirstPage.
Below(d, m, c) ==
    d < c.seconds * Second \/ (d = c.seconds * Second /\ m < c.id)

\* The two directions of rounding down to seconds.
LEMMA Seconds ==
    ASSUME NEW a \in Nat, NEW s \in Nat \ {0}
    PROVE  /\ a \div s \in Nat
           /\ (a \div s) * s <= a
           /\ \A b \in Nat : b <= a /\ ~(b < (a \div s) * s) => b \div s = a \div s
OBVIOUS

\* Before a whole second is in an earlier one; at it is in that one.
LEMMA Quotient ==
    ASSUME NEW a \in Nat, NEW c \in Nat, NEW s \in Nat \ {0}
    PROVE  /\ a < c * s => a \div s < c
           /\ a = c * s => a \div s = c
<1>1. (a \div s) * s <= a /\ a < (a \div s) * s + s /\ a \div s \in Nat
  OBVIOUS
<1>. DEFINE q == a \div s
<1>2. ASSUME NEW x \in Nat, NEW y \in Nat, x >= y
      PROVE  x * s >= y * s
  <2>1. PICK z \in Nat : x = y + z
    BY <1>2
  <2>2. x * s = y * s + z * s
    BY <2>1
  <2>3. z * s \in Nat /\ y * s \in Nat
    OBVIOUS
  <2>. QED
    BY <2>2, <2>3
<1>. QED
  <2>. HIDE DEF q
  <2>1. a < c * s => a \div s < c
    BY <1>1, <1>2
  <2>2. a = c * s => a \div s = c
    BY <1>1, <1>2
  <2>. QED
    BY <2>1, <2>2

LEMMA BelowIs ==
    ASSUME NEW m \in Messages, cursor # FirstPage
    PROVE  BelowCursor(m) <=> Below(date[m], m, cursor)
BY DEF BelowCursor, Below

\* A message above the last row of a page, or that row itself, is not below the
\* page's cursor; one after the row is, unless it is of the same second.
LEMMA AtTheCursor ==
    ASSUME NEW l \in Messages, NEW m \in Messages, NEW d \in Nat, NEW e \in Nat,
           NEW c \in Cursor, c.id = l, c.seconds = d \div Second
    PROVE  /\ e > d \/ (e = d /\ m >= l) => ~Below(e, m, c)
           /\ e <= d => Below(e, m, c) \/ e \div Second = d \div Second
<1>1. /\ Second \in Nat \ {0} /\ l \in Nat /\ m \in Nat
      /\ c.seconds \in Nat
  BY PagesAssumption DEF Cursor
<1>2. (d \div Second) * Second <= d
  BY <1>1, Seconds
<1>3. \A b \in Nat : b <= d /\ ~(b < (d \div Second) * Second) => b \div Second = d \div Second
  BY <1>1, Seconds
<1>4. ASSUME e > d \/ (e = d /\ m >= l)
      PROVE  ~Below(e, m, c)
  <2>1. ~(e < (d \div Second) * Second)
    BY <1>1, <1>2, <1>4
  <2>2. ~(e = (d \div Second) * Second /\ m < l)
    BY <1>1, <1>2, <1>4
  <2>. QED
    BY <2>1, <2>2 DEF Below
<1>5. ASSUME e <= d, ~(e < (d \div Second) * Second)
      PROVE  e \div Second = d \div Second
  BY <1>3, <1>5
<1>. QED
  BY <1>4, <1>5 DEF Below

-----------------------------------------------------------------------------
(* The invariant. *)

Typed ==
    /\ now \in 0 .. MaxTime
    /\ date \in [Messages -> -1 .. MaxTime]
    /\ \A m \in Messages : date[m] <= now
    /\ bonds \in [Messages -> Readers \cup {0}]
    /\ \A m \in Known : bonds[m] # 0
    /\ folder \in {"there", "gone"}
    /\ inside \subseteq Known
    /\ walk \in {"idle", "asking", "resolved", "paged", "over", "failed"}
    /\ cursor \in Cursor
    /\ more \in BOOLEAN
    /\ Shown \subseteq Known
    /\ Cardinality(page) <= Limit
    /\ seams \subseteq Nat /\ stayed \subseteq inside

\* The walk goes on after this page.
GoesOn == walk \in {"idle", "asking", "resolved"} \/ (walk = "paged" /\ more)

AtSeam(m) == date[m] \div Second \in seams

\* The cursor parts what was shown from what will be.
Parted ==
    /\ walk = "idle" => Shown = {} /\ cursor = FirstPage
    /\ GoesOn => \A m \in Shown : ~BelowCursor(m)
    /\ walk \notin {"idle", "failed"} =>
          \A m \in stayed \ Shown : AtSeam(m) \/ (GoesOn /\ BelowCursor(m))

PagesInv == Typed /\ Parted /\ PagesDisjoint

LEMMA PagesStart == Init => PagesInv
<1>. SUFFICES ASSUME Init PROVE PagesInv
  OBVIOUS
<1>1. Known = {} /\ Shown = {}
  BY DEF Init, Known, Shown
<1>2. Cardinality({}) = 0
  BY FS_EmptySet
<1>3. Typed
  <2>1. /\ now \in 0 .. MaxTime
        /\ date \in [Messages -> -1 .. MaxTime]
        /\ \A m \in Messages : date[m] <= now
        /\ bonds \in [Messages -> Readers \cup {0}]
    BY PagesAssumption DEF Init
  <2>2. cursor \in Cursor
    BY DEF Init, Cursor, FirstPage
  <2>3. Cardinality(page) <= Limit
    BY <1>2, PagesAssumption DEF Init
  <2>4. /\ \A m \in Known : bonds[m] # 0
        /\ inside \subseteq Known /\ Shown \subseteq Known
        /\ seams \subseteq Nat /\ stayed \subseteq inside
    BY <1>1 DEF Init
  <2>. QED
    BY <2>1, <2>2, <2>3, <2>4 DEF Init, Typed
<1>4. Parted /\ PagesDisjoint
  BY <1>1 DEF Init, Parted, PagesDisjoint
<1>. QED
  BY <1>3, <1>4 DEF PagesInv

-----------------------------------------------------------------------------
(* Other requests. *)

\* They leave the client alone, date messages forward only, and date none again
\* of those that stay.
MailMoves ==
    /\ client' = client
    /\ Known \subseteq Known' /\ \A m \in Known : date'[m] >= date[m]
    /\ stayed' \subseteq stayed /\ \A m \in stayed' : date'[m] = date[m]

LEMMA OthersMove ==
    ASSUME Typed, Others
    PROVE  MailMoves /\ Typed'
<1>1. CASE DeleteFolder
  <2>1. Known' = Known /\ Shown' = Shown
    BY <1>1 DEF DeleteFolder, Known, Shown
  <2>2. \A m \in Known : date[m] \in Int
    BY DEF Typed, Known
  <2>. QED
    BY <1>1, <2>1, <2>2 DEF DeleteFolder, MailMoves, Typed
<1>2. ASSUME NEW m \in Messages, Deliver(m)
      PROVE  MailMoves /\ Typed'
  <2>1. PICK d \in now .. MaxTime, n \in Readers :
           /\ now' = d
           /\ date' = [date EXCEPT ![m] = d]
           /\ bonds' = [bonds EXCEPT ![m] = n]
    BY <1>2 DEF Deliver
  <2>2. d \in 0 .. MaxTime /\ n # 0 /\ m \notin Known
    BY <1>2, <2>1, PagesAssumption DEF Typed, Deliver
  <2>3. /\ date' \in [Messages -> -1 .. MaxTime]
        /\ bonds' \in [Messages -> Readers \cup {0}]
        /\ \A k \in Messages \ {m} : date'[k] = date[k] /\ bonds'[k] = bonds[k]
        /\ date'[m] = d /\ bonds'[m] = n
    BY <2>1, <2>2 DEF Typed
  <2>8. \A k \in Messages : date'[k] <= now'
    BY <2>1, <2>2, <2>3, PagesAssumption DEF Typed
  <2>4. Known' = Known \cup {m}
    BY <2>2, <2>3 DEF Known
  <2>5. \A k \in Known : date'[k] = date[k]
    BY <2>2, <2>3 DEF Known
  <2>9. \A k \in Known : date'[k] >= date[k]
    BY <2>5 DEF Typed, Known
  <2>6. \A k \in Known' : bonds'[k] # 0
    BY <2>2, <2>3, <2>4 DEF Typed, Known
  <2>7. Shown' = Shown /\ inside' = inside \cup {m} /\ stayed' = stayed
    BY <1>2 DEF Deliver, Shown
  <2>. QED
    <3>1. stayed' = stayed /\ stayed \subseteq Known /\ folder' = folder /\ client' = client
      BY <1>2 DEF Deliver, Typed
    <3>2. MailMoves
      BY <2>4, <2>5, <2>9, <3>1 DEF MailMoves
    <3>3. Typed'
      BY <2>1, <2>2, <2>3, <2>4, <2>6, <2>7, <2>8, <3>1 DEF Typed
    <3>. QED
      BY <3>2, <3>3
<1>3. ASSUME NEW m \in Messages, MoveOut(m) \/ MoveIn(m)
      PROVE  MailMoves /\ Typed'
  <2>1. Known' = Known /\ Shown' = Shown
    BY <1>3 DEF MoveOut, MoveIn, Known, Shown
  <2>2. \A k \in Known : date[k] \in Int
    BY DEF Typed, Known
  <2>. QED
    <3>1. /\ UNCHANGED <<now, date, bonds, folder, client>>
          /\ stayed' \subseteq stayed /\ inside' \subseteq Known /\ stayed' \subseteq inside'
      BY <1>3 DEF MoveOut, MoveIn, Typed
    <3>2. MailMoves
      BY <2>1, <2>2, <3>1 DEF MailMoves
    <3>3. Typed'
      BY <2>1, <3>1 DEF Typed
    <3>. QED
      BY <3>2, <3>3
<1>4. ASSUME NEW m \in Messages, Redate(m)
      PROVE  MailMoves /\ Typed'
  <2>1. PICK d \in now .. MaxTime : now' = d /\ date' = [date EXCEPT ![m] = d]
    BY <1>4 DEF Redate
  <2>2. /\ m \in Known /\ inside' \in {inside, inside \ {m}} /\ stayed' = stayed \ {m}
        /\ UNCHANGED <<bonds, folder, client>>
    BY <1>4 DEF Redate
  <2>3. d \in 0 .. MaxTime
    BY <2>1, PagesAssumption DEF Typed
  <2>4. /\ date' \in [Messages -> -1 .. MaxTime]
        /\ \A k \in Messages \ {m} : date'[k] = date[k]
        /\ date'[m] = d
    BY <2>1, <2>3 DEF Typed
  <2>5. Known' = Known
    BY <2>2, <2>3, <2>4 DEF Known
  <2>6. date[m] <= d
    BY <2>1, <2>2, PagesAssumption DEF Typed
  <2>7. \A k \in Known : date'[k] >= date[k]
    BY <2>4, <2>6 DEF Typed, Known
  <2>8. stayed' \subseteq stayed /\ \A k \in stayed' : date'[k] = date[k]
    BY <2>2, <2>4 DEF Typed, Known
  <2>9. Shown' = Shown
    BY <2>2 DEF Shown
  <2>. QED
    BY <2>1, <2>2, <2>3, <2>4, <2>5, <2>7, <2>8, <2>9 DEF MailMoves, Typed
<1>. QED
  BY <1>1, <1>2, <1>3, <1>4 DEF Others

LEMMA OthersKeep ==
    ASSUME PagesInv, Others
    PROVE  PagesInv'
<1>1. MailMoves /\ Typed' /\ Typed
  BY OthersMove DEF PagesInv
<1>2. Shown' = Shown /\ Shown \subseteq Known /\ stayed \subseteq Known
  BY <1>1 DEF MailMoves, Typed, Shown
<1>3. ASSUME NEW m \in Known
      PROVE  BelowCursor(m)' => BelowCursor(m)
  <2>1. date[m] \in Nat /\ date'[m] \in Nat /\ date'[m] >= date[m]
    BY <1>1, PagesAssumption DEF MailMoves, Typed, Known
  <2>2. cursor' = cursor /\ cursor.seconds * Second \in Nat
    BY <1>1, PagesAssumption DEF MailMoves, Typed, Cursor
  <2>. QED
    BY <2>1, <2>2 DEF BelowCursor
<1>4. \A m \in stayed' : (BelowCursor(m)' <=> BelowCursor(m)) /\ (AtSeam(m)' <=> AtSeam(m))
  BY <1>1 DEF MailMoves, BelowCursor, AtSeam
<1>5. GoesOn' <=> GoesOn
  BY <1>1 DEF MailMoves, GoesOn
<1>6. Parted'
  BY <1>1, <1>2, <1>3, <1>4, <1>5 DEF PagesInv, Parted, MailMoves
<1>7. PagesDisjoint'
  BY <1>1 DEF PagesInv, PagesDisjoint, MailMoves
<1>. QED
  BY <1>1, <1>6, <1>7 DEF PagesInv

-----------------------------------------------------------------------------
(* The walk. *)

\* The answer has these k rows: they are below the cursor and in order, and if
\* a row is left out the page is full.
Answers(k, rows) ==
    /\ \A i \in 1 .. k : rows[i] \in inside /\ BelowCursor(rows[i])
    /\ \A i \in 1 .. k : rows[i] = rows[k] \/ After(rows[i], rows[k])
    /\ \A m \in inside : BelowCursor(m) =>
          \/ \E i \in 1 .. k : rows[i] = m
          \/ k = Limit /\ After(rows[k], m)
    /\ more' <=> (k = Limit)
    /\ page' = {rows[i] : i \in 1 .. k}
    /\ k = 0 => cursor' = FirstPage /\ seams' = seams
    /\ k # 0 => /\ cursor' = [id |-> rows[k], seconds |-> date[rows[k]] \div Second]
                /\ seams' = seams \cup {date[rows[k]] \div Second}

LEMMA Listed ==
    ASSUME Typed, List
    PROVE  \E k \in 0 .. Limit : \E rows \in [1 .. k -> Messages] : Answers(k, rows)
<1>. DEFINE picked == {m \in inside : BelowCursor(m)}
            Copies(rows, m) == Cardinality({i \in DOMAIN rows : rows[i] = m})
            Cut(rows, m) ==
                /\ Len(rows) = Limit /\ Copies(rows, m) < bonds[m]
                /\ m = rows[Limit] \/ After(rows[Limit], m)
<1>1. PICK rows \in FirstRows :
         /\ more' = (Len(rows) = Limit)
         /\ cursor' = NextCursor(rows)
         /\ page' = ToSet(rows)
         /\ seams' = IF rows = <<>> THEN seams ELSE seams \cup {NextCursor(rows).seconds}
  BY DEF List
<1>2. /\ rows \in SeqOf(picked, Limit)
      /\ \A i, j \in DOMAIN rows : i < j => rows[i] = rows[j] \/ After(rows[i], rows[j])
      /\ \A m \in picked : Copies(rows, m) = bonds[m] \/ Cut(rows, m)
  BY DEF FirstRows, Rows
<1>3. PICK k \in 0 .. Limit : rows \in [1 .. k -> picked]
  BY <1>2 DEF SeqOf
<1>4. picked \subseteq inside /\ picked \subseteq Messages /\ Limit \in Nat \ {0} /\ k \in Nat
  <2>1. inside \subseteq Messages
    BY DEF Typed, Known
  <2>2. Limit \in Nat \ {0} /\ k \in Nat
    BY PagesAssumption
  <2>. QED
    BY <2>1, <2>2
<1>5. DOMAIN rows = 1 .. k /\ Len(rows) = k /\ rows \in Seq(picked)
  <2>. HIDE DEF picked
  <2>1. rows \in Seq(picked)
    BY <1>3, <1>4
  <2>2. DOMAIN rows = 1 .. k
    BY <1>3
  <2>3. Len(rows) = k
    BY <1>4, <2>1, <2>2
  <2>. QED
    BY <2>1, <2>2, <2>3
<1>6. rows = <<>> <=> k = 0
  BY <1>3, <1>4, <1>5
<1>7. k # 0 => Last(rows) = rows[k]
  BY <1>5 DEF Last
<1>8. \A i \in 1 .. k : rows[i] \in picked /\ rows[i] \in inside /\ BelowCursor(rows[i])
  BY <1>3
<1>9. \A i \in 1 .. k : rows[i] = rows[k] \/ After(rows[i], rows[k])
  BY <1>2, <1>4, <1>5
<1>10. ASSUME NEW m \in inside, BelowCursor(m), \A i \in 1 .. k : rows[i] # m
       PROVE  k = Limit /\ After(rows[k], m)
  <2>1. {i \in DOMAIN rows : rows[i] = m} = {}
    BY <1>5, <1>10
  <2>2. Copies(rows, m) = 0
    BY <2>1, FS_EmptySet
  <2>3. bonds[m] # 0
    BY DEF Typed
  <2>4. Cut(rows, m)
    BY <1>2, <1>10, <2>2, <2>3
  <2>. QED
    BY <1>4, <1>5, <1>10, <2>4
<1>11. page' = {rows[i] : i \in 1 .. k}
  BY <1>1, <1>5 DEF ToSet
<1>12. /\ k = 0 => cursor' = FirstPage /\ seams' = seams
       /\ k # 0 => /\ cursor' = [id |-> rows[k], seconds |-> date[rows[k]] \div Second]
                   /\ seams' = seams \cup {date[rows[k]] \div Second}
  BY <1>1, <1>6, <1>7 DEF NextCursor
<1>13. rows \in [1 .. k -> Messages]
  BY <1>3, <1>4
<1>14. more' <=> (k = Limit)
  BY <1>1, <1>5
<1>. HIDE DEF picked, Cut, Copies
<1>. QED
  BY <1>8, <1>9, <1>10, <1>11, <1>12, <1>13, <1>14 DEF Answers

LEMMA PageSize ==
    ASSUME NEW k \in Nat, NEW rows \in [1 .. k -> Messages]
    PROVE  Cardinality({rows[i] : i \in 1 .. k}) <= k
<1>. DEFINE T == {rows[i] : i \in 1 .. k}
<1>1. rows \in Surjection(1 .. k, T)
  BY DEF Surjection
<1>2. IsFiniteSet(1 .. k) /\ Cardinality(1 .. k) = k
  BY FS_Interval
<1>. QED
  BY <1>1, <1>2, FS_Surjection

LEMMA ListKeeps ==
    ASSUME PagesInv, List
    PROVE  PagesInv'
<1>1. Typed /\ Parted
  BY DEF PagesInv
<1>2. PICK k \in 0 .. Limit : \E rows \in [1 .. k -> Messages] : Answers(k, rows)
  BY <1>1, Listed
<1>3. PICK rows \in [1 .. k -> Messages] : Answers(k, rows)
  BY <1>2
<1>4. /\ walk = "resolved" /\ walk' = "paged" /\ before' = Shown
      /\ now' = now /\ date' = date /\ bonds' = bonds /\ folder' = folder /\ inside' = inside
      /\ stayed' = stayed
  BY DEF List, Shown
<1>5. /\ Known' = Known /\ inside \subseteq Known /\ Shown \subseteq Known /\ seams \subseteq Nat
      /\ stayed \subseteq inside /\ Known \subseteq Messages
      /\ k \in Nat /\ Limit \in Nat \ {0}
  BY <1>1, <1>4, PagesAssumption DEF Typed, Known
<1>6. page' \subseteq inside /\ (k # 0 => rows[k] \in Known)
  BY <1>3, <1>5 DEF Answers
<1>7. \A m \in Known : date[m] \in Nat
  BY <1>1, PagesAssumption DEF Typed, Known
<1>8. Cardinality(page') <= Limit
  <2>1. Cardinality(page') <= k
    BY <1>3, <1>5, PageSize DEF Answers
  <2>2. page' \in SUBSET Messages
    BY <1>5, <1>6
  <2>3. Cardinality(page') \in Nat
    BY <2>2, PagesAssumption, FS_Subset, FS_CardinalityType
  <2>. QED
    BY <1>5, <2>1, <2>3
<1>9. cursor' \in Cursor
  <2>1. CASE k = 0
    BY <1>3, <2>1 DEF Answers, Cursor, FirstPage
  <2>2. CASE k # 0
    <3>1. rows[k] \in Nat
      BY <1>5, <1>6, <2>2, PagesAssumption
    <3>2. date[rows[k]] \div Second \in Nat
      BY <1>6, <1>7, <2>2, Seconds, PagesAssumption
    <3>. QED
      BY <1>3, <2>2, <3>1, <3>2 DEF Answers, Cursor
  <2>. QED
    BY <2>1, <2>2
<1>10. Typed'
  <2>1. Shown' \subseteq Known
    BY <1>4, <1>5, <1>6 DEF Shown
  <2>2. seams' \subseteq Nat
    <3>1. k # 0 => date[rows[k]] \div Second \in Nat
      BY <1>6, <1>7, Seconds, PagesAssumption
    <3>2. CASE k = 0
      BY <1>3, <1>5, <3>2 DEF Answers
    <3>3. CASE k # 0
      <4>. DEFINE x == date[rows[k]] \div Second
      <4>1. seams' = seams \cup {x}
        BY <1>3, <3>3 DEF Answers
      <4>2. x \in Nat
        BY <3>1, <3>3
      <4>. HIDE DEF x
      <4>. QED
        BY <1>5, <4>1, <4>2
    <3>. QED
      BY <3>2, <3>3
  <2>3. more' \in BOOLEAN
    BY DEF List
  <2>. QED
    BY <1>1, <1>4, <1>5, <1>8, <1>9, <2>1, <2>2, <2>3 DEF Typed
<1>11. \A m \in Shown : ~BelowCursor(m)
  BY <1>1, <1>4 DEF Parted, GoesOn
<1>12. PagesDisjoint'
  BY <1>3, <1>4, <1>11 DEF PagesDisjoint, Answers
<1>14. ASSUME k # 0
       PROVE  /\ rows[k] \in Messages /\ date[rows[k]] \in Nat
              /\ cursor' # FirstPage
              /\ cursor'.id = rows[k] /\ cursor'.seconds = date[rows[k]] \div Second
              /\ \A m \in Known : BelowCursor(m)' <=> Below(date[m], m, cursor')
  <2>1. rows[k] \in Messages /\ date[rows[k]] \in Nat
    BY <1>5, <1>6, <1>7, <1>14
  <2>2. cursor' = [id |-> rows[k], seconds |-> date[rows[k]] \div Second]
    BY <1>3, <1>14 DEF Answers
  <2>3. rows[k] # 0
    BY <2>1, PagesAssumption
  <2>4. cursor' # FirstPage
    BY <2>2, <2>3 DEF FirstPage
  <2>5. \A m \in Known : BelowCursor(m)' <=> Below(date[m], m, cursor')
    BY <1>4, <2>4 DEF BelowCursor, Below
  <2>. QED
    BY <2>1, <2>2, <2>4, <2>5
<1>15. ASSUME GoesOn', NEW m \in Shown'
       PROVE  ~BelowCursor(m)'
  <2>1. k = Limit /\ k # 0
    BY <1>3, <1>4, <1>5, <1>15 DEF GoesOn, Answers
  <2>2. m \in Known /\ m \in Messages /\ date[m] \in Nat
    BY <1>4, <1>5, <1>6, <1>7, <1>15 DEF Shown
  <2>3. date[m] > date[rows[k]] \/ (date[m] = date[rows[k]] /\ m >= rows[k])
    <3>0. m \in Nat /\ rows[k] \in Nat /\ date[rows[k]] \in Nat
      BY <1>14, <2>1, <2>2, PagesAssumption
    <3>1. CASE m \in page'
      <4>1. m = rows[k] \/ After(m, rows[k])
        BY <1>3, <3>1 DEF Answers
      <4>. QED
        BY <3>0, <4>1 DEF After
    <3>2. CASE m \in Shown
      <4>1. ~BelowCursor(m)
        BY <1>11, <3>2
      <4>2. BelowCursor(rows[k])
        BY <1>3, <1>5, <2>1 DEF Answers
      <4>3. cursor # FirstPage
        BY <4>1 DEF BelowCursor
      <4>4. ~Below(date[m], m, cursor) /\ Below(date[rows[k]], rows[k], cursor)
        BY <1>14, <2>1, <2>2, <4>1, <4>2, <4>3, BelowIs
      <4>5. cursor.seconds * Second \in Nat /\ cursor.id \in Nat
        BY <1>1, PagesAssumption DEF Typed, Cursor
      <4>. QED
        BY <2>2, <3>0, <4>4, <4>5 DEF Below
    <3>. QED
      BY <1>4, <3>1, <3>2 DEF Shown
  <2>4. ~Below(date[m], m, cursor')
    BY <1>9, <1>14, <2>1, <2>2, <2>3, AtTheCursor
  <2>. QED
    BY <1>14, <2>1, <2>2, <2>4
<1>16. ASSUME NEW m \in stayed' \ Shown'
       PROVE  AtSeam(m)' \/ (GoesOn' /\ BelowCursor(m)')
  <2>1. m \in stayed /\ m \in inside /\ m \notin Shown /\ m \notin page' /\ m \in Known
    BY <1>4, <1>5, <1>16 DEF Shown
  <2>2. CASE AtSeam(m)
    <3>1. seams \subseteq seams'
      BY <1>3 DEF Answers
    <3>. QED
      BY <1>4, <2>2, <3>1 DEF AtSeam
  <2>3. CASE BelowCursor(m)
    <3>1. k = Limit /\ After(rows[k], m)
      BY <1>3, <2>1, <2>3 DEF Answers
    <3>2. k # 0 /\ more' /\ GoesOn'
      BY <1>3, <1>4, <1>5, <3>1 DEF Answers, GoesOn
    <3>3. date[m] \in Nat /\ date[m] <= date[rows[k]]
      BY <1>7, <1>14, <2>1, <3>1, <3>2 DEF After
    <3>4. Below(date[m], m, cursor') \/ date[m] \div Second = date[rows[k]] \div Second
      BY <1>5, <1>9, <1>14, <2>1, <3>2, <3>3, AtTheCursor
    <3>5. date[rows[k]] \div Second \in seams'
      BY <1>3, <3>2 DEF Answers
    <3>. QED
      BY <1>4, <1>14, <2>1, <3>2, <3>4, <3>5 DEF AtSeam
  <2>. QED
    BY <1>1, <1>4, <2>1, <2>2, <2>3 DEF Parted
<1>17. Parted'
  BY <1>4, <1>15, <1>16 DEF Parted
<1>. QED
  BY <1>10, <1>12, <1>17 DEF PagesInv

LEMMA ListDescends ==
    ASSUME PagesInv, List, more', cursor # FirstPage
    PROVE  Earlier(cursor', cursor)
<1>1. Typed
  BY DEF PagesInv
<1>2. PICK k \in 0 .. Limit : \E rows \in [1 .. k -> Messages] : Answers(k, rows)
  BY <1>1, Listed
<1>3. PICK rows \in [1 .. k -> Messages] : Answers(k, rows)
  BY <1>2
<1>4. k = Limit /\ k # 0 /\ k \in 1 .. k
  BY <1>3, PagesAssumption DEF Answers
<1>5. /\ rows[k] \in inside /\ BelowCursor(rows[k])
      /\ cursor' = [id |-> rows[k], seconds |-> date[rows[k]] \div Second]
  BY <1>3, <1>4 DEF Answers
<1>6. /\ rows[k] \in Messages /\ rows[k] \in Nat /\ date[rows[k]] \in Nat
      /\ cursor.seconds \in Nat /\ cursor.id \in Nat /\ Second \in Nat \ {0}
  <2>1. cursor.seconds \in Nat /\ cursor.id \in Nat
    BY <1>1 DEF Typed, Cursor
  <2>2. rows[k] \in Known
    BY <1>1, <1>5 DEF Typed
  <2>3. rows[k] \in Messages /\ date[rows[k]] \in -1 .. MaxTime /\ date[rows[k]] >= 0
    BY <1>1, <2>2 DEF Typed, Known
  <2>4. date[rows[k]] \in Nat
    BY <2>3, PagesAssumption
  <2>. QED
    BY <2>1, <2>3, <2>4, PagesAssumption
<1>7. Below(date[rows[k]], rows[k], cursor)
  BY <1>5, <1>6, BelowIs
<1>8. \/ date[rows[k]] \div Second < cursor.seconds
      \/ date[rows[k]] \div Second = cursor.seconds /\ rows[k] < cursor.id
  BY <1>6, <1>7, Quotient DEF Below
<1>9. cursor'.id = rows[k] /\ cursor'.seconds = date[rows[k]] \div Second
  BY <1>5
<1>. QED
  BY <1>8, <1>9 DEF Earlier

LEMMA AnswerKeeps ==
    ASSUME PagesInv, Answer
    PROVE  PagesInv'
<1>1. Typed /\ Parted /\ PagesDisjoint
  BY DEF PagesInv
<1>2. /\ walk = "paged" /\ walk' = IF more THEN "asking" ELSE "over"
      /\ UNCHANGED <<now, date, bonds, folder, inside, cursor, more, page, before, seams, stayed>>
  BY DEF Answer
<1>3. Known' = Known /\ Shown' = Shown
  BY <1>2 DEF Known, Shown
<1>4. Typed'
  BY <1>1, <1>2, <1>3 DEF Typed
<1>5. GoesOn' <=> GoesOn
  BY <1>2 DEF GoesOn
<1>6. Parted'
  BY <1>1, <1>2, <1>3, <1>5 DEF Parted, BelowCursor, AtSeam
<1>7. PagesDisjoint'
  BY <1>1, <1>2 DEF PagesDisjoint
<1>. QED
  BY <1>4, <1>6, <1>7 DEF PagesInv

LEMMA OpenKeeps ==
    ASSUME PagesInv, Open
    PROVE  PagesInv'
<1>1. Typed /\ Parted /\ PagesDisjoint
  BY DEF PagesInv
<1>2. /\ walk = "idle" /\ walk' = "asking" /\ stayed' = inside
      /\ UNCHANGED <<now, date, bonds, folder, inside, cursor, more, page, before, seams>>
  BY DEF Open
<1>3. Known' = Known /\ Shown' = Shown /\ Shown = {} /\ cursor = FirstPage
  BY <1>1, <1>2 DEF Known, Shown, Parted
<1>4. Typed'
  BY <1>1, <1>2, <1>3 DEF Typed
<1>5. Parted'
  BY <1>2, <1>3 DEF Parted, GoesOn, BelowCursor
<1>6. PagesDisjoint'
  BY <1>1, <1>2 DEF PagesDisjoint
<1>. QED
  BY <1>4, <1>5, <1>6 DEF PagesInv

LEMMA ResolveKeeps ==
    ASSUME PagesInv, Resolve
    PROVE  PagesInv'
<1>1. Typed /\ Parted /\ PagesDisjoint
  BY DEF PagesInv
<1>2. /\ walk = "asking" /\ walk' \in {"resolved", "failed"}
      /\ UNCHANGED <<now, date, bonds, folder, inside, cursor, more, page, before, seams, stayed>>
  BY DEF Resolve
<1>3. Known' = Known /\ Shown' = Shown
  BY <1>2 DEF Known, Shown
<1>4. Typed'
  BY <1>1, <1>2, <1>3 DEF Typed
<1>5. Parted'
  BY <1>1, <1>2, <1>3 DEF Parted, GoesOn, BelowCursor, AtSeam
<1>6. PagesDisjoint'
  BY <1>1, <1>2 DEF PagesDisjoint
<1>. QED
  BY <1>4, <1>5, <1>6 DEF PagesInv

LEMMA FailKeeps ==
    ASSUME PagesInv, FailPage
    PROVE  PagesInv'
<1>1. Typed /\ PagesDisjoint
  BY DEF PagesInv
<1>2. /\ walk' = "failed" /\ more' = FALSE /\ page' \in {page, {}}
      /\ UNCHANGED <<now, date, bonds, folder, inside, cursor, before, seams, stayed>>
  BY DEF FailPage
<1>3. Known' = Known /\ Shown' \subseteq Shown
  BY <1>2 DEF Known, Shown
<1>4. Cardinality({}) = 0 /\ Limit \in Nat
  BY PagesAssumption, FS_EmptySet
<1>5. Cardinality(page') <= Limit
  BY <1>1, <1>2, <1>4 DEF Typed
<1>6. Typed'
  <2>1. Shown' \subseteq Known'
    BY <1>1, <1>3 DEF Typed
  <2>. QED
    BY <1>1, <1>2, <1>3, <1>5, <2>1 DEF Typed
<1>7. Parted'
  BY <1>2 DEF Parted, GoesOn
<1>8. PagesDisjoint'
  BY <1>1, <1>2 DEF PagesDisjoint
<1>. QED
  BY <1>6, <1>7, <1>8 DEF PagesInv

LEMMA PagesStep == PagesInv /\ [Next]_vars => PagesInv'
<1>. SUFFICES ASSUME PagesInv, [Next]_vars PROVE PagesInv'
  OBVIOUS
<1>1. CASE UNCHANGED vars
  BY <1>1 DEF vars, PagesInv, Typed, Parted, PagesDisjoint, Known, Shown, GoesOn,
     BelowCursor, AtSeam
<1>2. CASE Open
  BY <1>2, OpenKeeps
<1>3. CASE Walk
  BY <1>3, ResolveKeeps, ListKeeps, AnswerKeeps DEF Walk
<1>4. CASE FailPage
  BY <1>4, FailKeeps
<1>5. CASE Others
  BY <1>5, OthersKeep
<1>. QED
  BY <1>1, <1>2, <1>3, <1>4, <1>5 DEF Next

LEMMA PagesInvariant == Spec => []PagesInv
  BY PagesStart, PagesStep, PTL DEF Spec

-----------------------------------------------------------------------------

\* A page never has more messages than it may have rows, however many readers a
\* message has, and a cursor is always one that the query can be given.
THEOREM PagesTypeCorrect == Spec => []TypeOK
<1>1. PagesInv => TypeOK
  BY DEF PagesInv, Typed, TypeOK, Known, Shown
<1>. QED
  BY <1>1, PagesInvariant, PTL

\* No message is on two pages of a walk, whatever arrives, leaves or comes back
\* in between: rounding the cursor down to seconds can only lose rows.
THEOREM PagesDisjointHolds == Spec => []PagesDisjoint
<1>1. PagesInv => PagesDisjoint
  BY DEF PagesInv
<1>. QED
  BY <1>1, PagesInvariant, PTL

\* A complete walk skips nothing but messages of the second in which one of its
\* pages ended.
THEOREM SkippedAtSeamHolds == Spec => []SkippedAtSeam
<1>1. PagesInv => SkippedAtSeam
  BY DEF PagesInv, Parted, SkippedAtSeam, Shown, GoesOn, AtSeam
<1>. QED
  BY <1>1, PagesInvariant, PTL

\* Rounded to seconds or not, the cursor of an answer that says has_next is below
\* the one it was asked with: a walk gets further with every page, however much
\* mail arrives, comes back or is dated again.
THEOREM CursorDescendsHolds == Spec => CursorDescends
<1>1. ASSUME PagesInv, [Next]_vars, walk = "resolved", walk' = "paged", more'
      PROVE  cursor = FirstPage \/ Earlier(cursor', cursor)
  <2>1. List
    <3>1. ~(UNCHANGED vars) /\ ~Open /\ ~Resolve /\ ~Answer /\ ~FailPage
      BY <1>1 DEF vars, Open, Resolve, Answer, FailPage
    <3>2. Others => walk' = walk
      BY OthersMove, <1>1 DEF PagesInv, MailMoves
    <3>. QED
      BY <1>1, <3>1, <3>2 DEF Next, Walk
  <2>. QED
    BY <1>1, <2>1, ListDescends
<1>. QED
  BY <1>1, PagesInvariant, PTL DEF Spec, CursorDescends

=============================================================================
