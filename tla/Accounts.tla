------------------------------ MODULE Accounts ------------------------------
(***************************************************************************)
(* Accounts and sessions: the auth service, the profile service and the    *)
(* gateway's cookies over the tables base_profile and profile.             *)
(*                                                                         *)
(* A browser sends requests from any of its tabs; each carries the cookies *)
(* the browser has at that moment.  A request takes one step for each      *)
(* statement or call after which another request may run.  It may fail at  *)
(* any step; an open transaction is then rolled back, but the identity     *)
(* sequences of the tables never step back.                                *)
(*                                                                         *)
(* Names and passwords come without surrounding blanks, logins with the    *)
(* right password.  A wrong one is answered like a failure.                *)
(***************************************************************************)
EXTENDS Naturals, FiniteSets

CONSTANTS
    Names,        \* user names
    Browsers,
    Calls,        \* requests
    MaxBusy,      \* how many of them are served at a time
    Ops,          \* what the requests may be
    MaxTime,      \* bound of the clock
    AccessTTL, RefreshTTL,
    NoRow, Null

\* Every sign-up takes at most one number of each sequence.
Ids == 1 .. Cardinality(Calls)

\* A signed token.  since is a history variable: when the name and password
\* that the token goes back to were given.
Token ==
    [user : Ids, type : {"access", "refresh"}, exp : Nat, since : Nat]

\* Object names avatar/<user>/<random>: each upload draws a new random part.
Path == Ids \X Calls

\* filled: neither name nor gender is NULL.
ProfileRow == [base_profile_id : Ids, filled : BOOLEAN, image_path : Path \cup {Null}]

Working ==
    {"exists", "base", "index", "profile", "commit", "find", "refresh",
     "logout", "update", "reload", "put", "save"}

Call ==
    [op : {"signup", "login", "refresh", "logout", "update", "upload"},
     browser : Browsers,
     name : Names,
     filled : BOOLEAN,               \* the name and gender of an update are given
     token : Token \cup {Null},      \* the cookie the operation reads
     base : Ids \cup {Null},         \* base_profile row inserted
     prof : Ids \cup {Null},         \* profile row inserted
     access : Token \cup {Null}, refresh : Token \cup {Null},   \* the answer
     step : Working \cup {"ok", "done", "error"}]

ASSUME AccountsAssumption ==
    /\ IsFiniteSet(Calls)
    /\ MaxBusy \in Nat /\ MaxTime \in Nat
    /\ AccessTTL \in Nat /\ RefreshTTL \in Nat
    /\ Ops \subseteq {"signup", "login", "refresh", "logout", "update", "upload"}
    /\ NoRow \notin Names \cup ProfileRow
    /\ Null \notin Ids \cup Token \cup Path \cup Call

VARIABLES
    base_profile,  \* id -> user name
    profile,       \* id -> row
    baseSeq, profileSeq,   \* the next numbers of the identity columns
    objects,       \* of the MinIO bucket
    now,
    jar,           \* the cookies of each browser
    call

vars == <<base_profile, profile, baseSeq, profileSeq, objects, now, jar, call>>

tables == <<base_profile, profile, baseSeq, profileSeq>>

-----------------------------------------------------------------------------

Registered == {b \in Ids : base_profile[b] # NoRow}

Profiles == {p \in Ids : profile[p] # NoRow}

Busy(c) == call[c] # Null /\ call[c].step \in Working

At(c, step) == call[c] # Null /\ call[c].step = step

Goto(c, step) == call' = [call EXCEPT ![c].step = step]

\* The queries scan name and gender into Go strings, which fails for NULL.
Readable == {p \in Profiles : profile[p].filled}

FirstStep ==
    [signup |-> "exists", login |-> "find", refresh |-> "refresh",
     logout |-> "logout", update |-> "update", upload |-> "put"]

\* The cookie that the gateway reads for an operation.
Cookie(b, op) ==
    CASE op = "refresh" -> jar[b].refresh
      [] op \in {"update", "upload"} -> jar[b].access
      [] OTHER -> Null

\* A request without the cookie it needs is turned away by the gateway.
Send(c) ==
    /\ call[c] = Null
    /\ Cardinality({d \in Calls : Busy(d)}) < MaxBusy
    /\ \E op \in Ops, b \in Browsers, n \in Names, f \in BOOLEAN :
         /\ op \in {"refresh", "update", "upload"} => Cookie(b, op) # Null
         /\ op \notin {"signup", "login"} => n = CHOOSE x \in Names : TRUE
         /\ op # "update" => f
         /\ call' = [call EXCEPT ![c] =
               [op |-> op, browser |-> b, name |-> n, filled |-> f,
                token |-> Cookie(b, op), base |-> Null, prof |-> Null,
                access |-> Null, refresh |-> Null, step |-> FirstStep[op]]]
    /\ UNCHANGED <<tables, objects, now, jar>>

-----------------------------------------------------------------------------
(* Tokens. *)

\* Seeded fault: the expiry is not looked at.
CheckType(token, type) == token.type = type

\* The signature is genuine: browsers return the cookies they were given.
CheckSession(token, type) == token.type = type /\ now < token.exp

Issue(user, type, ttl, since) ==
    [user |-> user, type |-> type, exp |-> now + ttl, since |-> since]

\* Seeded fault: the two results are taken in the wrong order.
AnswerWithPairSwapped(c, user) ==
    call' = [call EXCEPT ![c].access = Issue(user, "refresh", RefreshTTL, now),
                         ![c].refresh = Issue(user, "access", AccessTTL, now),
                         ![c].step = "ok"]

\* generateTokenPair: the answer of a login and of a sign-up.
AnswerWithPair(c, user) ==
    call' = [call EXCEPT ![c].access = Issue(user, "access", AccessTTL, now),
                         ![c].refresh = Issue(user, "refresh", RefreshTTL, now),
                         ![c].step = "ok"]

Refresh(c) ==
    /\ At(c, "refresh")
    /\ CheckSession(call[c].token, "refresh")
    /\ call' = [call EXCEPT
           ![c].access = Issue(call[c].token.user, "access", AccessTTL, call[c].token.since),
           ![c].step = "ok"]
    /\ UNCHANGED <<tables, objects, now, jar>>

\* Nothing is revoked.
Logout(c) ==
    /\ At(c, "logout")
    /\ Goto(c, "ok")
    /\ UNCHANGED <<tables, objects, now, jar>>

-----------------------------------------------------------------------------
(* Signing up and logging in. *)

UserExists(c) ==
    /\ At(c, "exists")
    /\ Goto(c, IF \E b \in Registered : base_profile[b] = call[c].name
               THEN "error" ELSE "base")
    /\ UNCHANGED <<tables, objects, now, jar>>

\* The row gets its number before the unique index is asked.
InsertBaseProfile(c) ==
    /\ At(c, "base")
    /\ call' = [call EXCEPT ![c].base = baseSeq, ![c].step = "index"]
    /\ baseSeq' = baseSeq + 1
    /\ UNCHANGED <<base_profile, profile, profileSeq, objects, now, jar>>

\* Open transactions with an uncommitted row of name n.
Holders(n) ==
    {c \in Calls : At(c, "profile") \/ At(c, "commit")} \cap
    {c \in Calls : call[c] # Null /\ call[c].name = n}

\* Seeded fault: UNIQUE(username) is missing.
InsertUnchecked(c) ==
    /\ At(c, "index")
    /\ Goto(c, "profile")
    /\ UNCHANGED <<tables, objects, now, jar>>

\* UNIQUE(username): the INSERT waits for a transaction that holds the name.
UniqueIndex(c) ==
    /\ At(c, "index")
    /\ Holders(call[c].name) = {}
    /\ Goto(c, IF \E b \in Registered : base_profile[b] = call[c].name
               THEN "error" ELSE "profile")
    /\ UNCHANGED <<tables, objects, now, jar>>

\* Seeded fault: the base_profile row is inserted outside the transaction.
InsertProfileAlone(c) ==
    /\ At(c, "profile")
    /\ call' = [call EXCEPT ![c].prof = profileSeq, ![c].step = "commit"]
    /\ profileSeq' = profileSeq + 1
    /\ base_profile' = [base_profile EXCEPT ![call[c].base] = call[c].name]
    /\ UNCHANGED <<profile, baseSeq, objects, now, jar>>

InsertProfile(c) ==
    /\ At(c, "profile")
    /\ call' = [call EXCEPT ![c].prof = profileSeq, ![c].step = "commit"]
    /\ profileSeq' = profileSeq + 1
    /\ UNCHANGED <<base_profile, profile, baseSeq, objects, now, jar>>

NewProfile(b) == [base_profile_id |-> b, filled |-> TRUE, image_path |-> Null]

\* Seeded fault: the tokens name the profile row.
CreateUserReturningProfile(c) ==
    /\ At(c, "commit")
    /\ base_profile' = [base_profile EXCEPT ![call[c].base] = call[c].name]
    /\ profile' = [profile EXCEPT ![call[c].prof] = NewProfile(call[c].base)]
    /\ AnswerWithPair(c, call[c].prof)
    /\ UNCHANGED <<baseSeq, profileSeq, objects, now, jar>>

\* Both rows appear, with the folders of profile row call[c].prof, and the
\* tokens name the base_profile row.
CreateUser(c) ==
    /\ At(c, "commit")
    /\ base_profile' = [base_profile EXCEPT ![call[c].base] = call[c].name]
    /\ profile' = [profile EXCEPT ![call[c].prof] = NewProfile(call[c].base)]
    /\ AnswerWithPair(c, call[c].base)
    /\ UNCHANGED <<baseSeq, profileSeq, objects, now, jar>>

\* FindByUsernameAndDomain.
Login(c) ==
    /\ At(c, "find")
    /\ \E p \in Readable :
         /\ base_profile[profile[p].base_profile_id] = call[c].name
         /\ AnswerWithPair(c, profile[p].base_profile_id)
    /\ UNCHANGED <<tables, objects, now, jar>>

-----------------------------------------------------------------------------
(* The profile service: a token's user is a base_profile id. *)

\* WHERE base_profile_id = user
RowsOf(user) == {p \in Profiles : profile[p].base_profile_id = user}

\* An empty name, and a gender that is neither male nor female, become NULL.
UpdateProfileInfo(c) ==
    /\ At(c, "update")
    /\ CheckSession(call[c].token, "access")
    /\ profile' = [p \in Ids |->
           IF p \in RowsOf(call[c].token.user)
           THEN [profile[p] EXCEPT !.filled = call[c].filled] ELSE profile[p]]
    /\ Goto(c, "reload")
    /\ UNCHANGED <<base_profile, baseSeq, profileSeq, objects, now, jar>>

FindInfoByID(c) ==
    /\ At(c, "reload")
    /\ RowsOf(call[c].token.user) \cap Readable # {}
    /\ Goto(c, "ok")
    /\ UNCHANGED <<tables, objects, now, jar>>

\* Seeded fault: the object is not stored when the row names it.
PutNothing(c) ==
    /\ At(c, "put")
    /\ CheckSession(call[c].token, "access")
    /\ Goto(c, "save")
    /\ UNCHANGED <<tables, objects, now, jar>>

PutObject(c) ==
    /\ At(c, "put")
    /\ CheckSession(call[c].token, "access")
    /\ objects' = objects \cup {<<call[c].token.user, c>>}
    /\ Goto(c, "save")
    /\ UNCHANGED <<tables, now, jar>>

InsertProfileAvatar(c) ==
    /\ At(c, "save")
    /\ profile' = [p \in Ids |->
           IF p \in RowsOf(call[c].token.user)
           THEN [profile[p] EXCEPT !.image_path = <<call[c].token.user, c>>] ELSE profile[p]]
    /\ Goto(c, "ok")
    /\ UNCHANGED <<base_profile, baseSeq, profileSeq, objects, now, jar>>

-----------------------------------------------------------------------------

\* The token is of no use, or the row is not found or cannot be read.
Refuse(c) ==
    /\ \/ At(c, "refresh") /\ ~CheckSession(call[c].token, "refresh")
       \/ /\ At(c, "update") \/ At(c, "put")
          /\ ~CheckSession(call[c].token, "access")
       \/ /\ At(c, "find")
          /\ \A p \in Readable : base_profile[profile[p].base_profile_id] # call[c].name
       \/ At(c, "reload") /\ RowsOf(call[c].token.user) \cap Readable = {}
    /\ Goto(c, "error")
    /\ UNCHANGED <<tables, objects, now, jar>>

\* A statement fails, MinIO or a service cannot be reached, the server stops.
Fail(c) ==
    /\ Busy(c)
    /\ Goto(c, "error")
    /\ UNCHANGED <<tables, objects, now, jar>>

\* Seeded fault: a logout clears the refresh cookie only.
AnswerKeepingAccess(c) ==
    /\ At(c, "ok")
    /\ Goto(c, "done")
    /\ jar' = [jar EXCEPT ![call[c].browser] =
          CASE call[c].op \in {"signup", "login"} ->
                  [access |-> call[c].access, refresh |-> call[c].refresh]
            [] call[c].op = "refresh" -> [@ EXCEPT !.access = call[c].access]
            [] call[c].op = "logout" -> [@ EXCEPT !.refresh = Null]
            [] OTHER -> @]
    /\ UNCHANGED <<tables, objects, now>>

\* The answer reaches the browser, in any order with other answers, or never.
Answer(c) ==
    /\ At(c, "ok")
    /\ Goto(c, "done")
    /\ jar' = [jar EXCEPT ![call[c].browser] =
          CASE call[c].op \in {"signup", "login"} ->
                  [access |-> call[c].access, refresh |-> call[c].refresh]
            [] call[c].op = "refresh" -> [@ EXCEPT !.access = call[c].access]
            [] call[c].op = "logout" -> [access |-> Null, refresh |-> Null]
            [] OTHER -> @]
    /\ UNCHANGED <<tables, objects, now>>

Tick ==
    /\ now < MaxTime
    /\ now' = now + 1
    /\ UNCHANGED <<tables, objects, jar, call>>

Init ==
    /\ base_profile = [b \in Ids |-> NoRow]
    /\ profile = [p \in Ids |-> NoRow]
    /\ baseSeq = 1 /\ profileSeq = 1
    /\ objects = {}
    /\ now = 0
    /\ jar = [b \in Browsers |-> [access |-> Null, refresh |-> Null]]
    /\ call = [c \in Calls |-> Null]

Signup(c) ==
    \/ UserExists(c) \/ InsertBaseProfile(c) \/ UniqueIndex(c)
    \/ InsertProfile(c) \/ CreateUser(c)

Step(c) ==
    \/ Signup(c) \/ Login(c) \/ Refresh(c) \/ Logout(c)
    \/ UpdateProfileInfo(c) \/ FindInfoByID(c) \/ PutObject(c) \/ InsertProfileAvatar(c)
    \/ Refuse(c)

Next ==
    \/ \E c \in Calls : Send(c) \/ Step(c) \/ Fail(c) \/ Answer(c)
    \/ Tick

Spec == Init /\ [][Next]_vars

-----------------------------------------------------------------------------

TypeOK ==
    /\ base_profile \in [Ids -> Names \cup {NoRow}]
    /\ profile \in [Ids -> ProfileRow \cup {NoRow}]
    /\ baseSeq \in 1 .. Cardinality(Calls) + 1
    /\ profileSeq \in 1 .. baseSeq
    /\ objects \subseteq Path
    /\ now \in 0 .. MaxTime
    /\ jar \in [Browsers -> [access : Token \cup {Null}, refresh : Token \cup {Null}]]
    /\ \A b \in Browsers : /\ jar[b].access # Null => jar[b].access.type = "access"
                           /\ jar[b].refresh # Null => jar[b].refresh.type = "refresh"
    /\ call \in [Calls -> Call \cup {Null}]

\* However many people ask for one name at a time, after all of them were told
\* that it is free, one gets it.
OneWinner ==
    \A c, d \in Calls :
        /\ call[c] # Null /\ call[c].op = "signup" /\ call[c].access # Null
        /\ call[d] # Null /\ call[d].op = "signup" /\ call[d].access # Null
        /\ call[c].name = call[d].name
        => c = d

\* No failure leaves half an account: base_profile and profile rows belong
\* together one to one.
AccountsComplete ==
    /\ \A b \in Registered : \E p \in Profiles : profile[p].base_profile_id = b
    /\ \A p \in Profiles : profile[p].base_profile_id \in Registered
    /\ \A p, q \in Profiles : profile[p].base_profile_id = profile[q].base_profile_id => p = q

\* The tokens answered to a sign-up or a login name the account of the user
\* name given, whatever numbers the two tables have drawn for it.
TokenNamesItsAccount ==
    \A c \in Calls :
        call[c] # Null /\ call[c].op \in {"signup", "login"} /\ call[c].access # Null =>
            /\ base_profile[call[c].access.user] = call[c].name
            /\ call[c].refresh.user = call[c].access.user

\* Refreshing does not prolong a session: an access token is good for nothing
\* RefreshTTL + AccessTTL after the password was given.
SessionsEnd ==
    \A b \in Browsers :
        jar[b].access # Null => jar[b].access.exp <= jar[b].access.since + RefreshTTL + AccessTTL

\* A logout leaves the browser without tokens: the one answer that can still put
\* an access token back is that of a refresh it had sent before.  Nothing then
\* refreshes that token.
OnlyALateRefreshRemains ==
    \A b \in Browsers :
        jar[b].access # Null /\ jar[b].refresh = Null =>
            /\ \E c, d \in Calls :
                  /\ At(c, "done") /\ call[c].op = "refresh" /\ call[c].browser = b
                  /\ call[c].access = jar[b].access
                  /\ At(d, "done") /\ call[d].op = "logout" /\ call[d].browser = b
            /\ jar[b].access.exp <= now + AccessTTL

\* The avatar of a profile is an object that was stored for that user, however
\* uploads overlap or fail.
AvatarIsStored ==
    \A p \in Profiles : profile[p].image_path # Null =>
        /\ profile[p].image_path \in objects
        /\ profile[p].image_path[1] = profile[p].base_profile_id

\* The messages service takes the user of a token for the profile id that owns
\* folders and messages: both numbers of an account have to be the same.
OwnMailbox == \A p \in Profiles : profile[p].base_profile_id = p

\* Whoever has an account can log in.
RegisteredCanLogIn == Profiles \subseteq Readable

=============================================================================
