---------------------------- MODULE AccountsProofs ----------------------------
(***************************************************************************)
(* Theorems about Accounts, for any number of requests, browsers and names *)
(* and any lifetimes of the tokens.                                        *)
(***************************************************************************)
EXTENDS Accounts, FiniteSetTheorems, TLAPS

USE DEF tables

Steps == Working \cup {"ok", "done", "error"}

-----------------------------------------------------------------------------
(* What a step does to the request that takes it. *)

\* Request c now has these variables; the rest of it, and the others, are kept.
Becomes(c, base, prof, access, refresh, step) ==
    /\ \A d \in Calls \ {c} : call'[d] = call[d]
    /\ call'[c].op = call[c].op /\ call'[c].browser = call[c].browser
    /\ call'[c].name = call[c].name /\ call'[c].token = call[c].token
    /\ call'[c].base = base /\ call'[c].prof = prof
    /\ call'[c].access = access /\ call'[c].refresh = refresh
    /\ call'[c].step = step
    /\ call'[c] \in Call
    /\ call' \in [Calls -> Call \cup {Null}]

Moves(c, step) ==
    Becomes(c, call[c].base, call[c].prof, call[c].access, call[c].refresh, step)

CallsTyped == call \in [Calls -> Call \cup {Null}]

LEMMA GotoMoves ==
    ASSUME CallsTyped, NEW c \in Calls, call[c] # Null, NEW s \in Steps, Goto(c, s)
    PROVE  Moves(c, s)
<1>1. call[c] \in Call
  BY DEF CallsTyped
<1>2. call'[c] = [call[c] EXCEPT !.step = s] /\ \A d \in Calls \ {c} : call'[d] = call[d]
  BY DEF CallsTyped, Goto
<1>3. [call[c] EXCEPT !.step = s] \in Call
  BY <1>1 DEF Call, Steps
<1>4. call' \in [Calls -> Call \cup {Null}]
  BY <1>2, <1>3 DEF CallsTyped, Goto
<1>. QED
  BY <1>1, <1>2, <1>3, <1>4 DEF Call, Moves, Becomes

LEMMA BaseDrawn ==
    ASSUME CallsTyped, NEW c \in Calls, call[c] # Null, baseSeq \in Ids, InsertBaseProfile(c)
    PROVE  Becomes(c, baseSeq, call[c].prof, call[c].access, call[c].refresh, "index")
<1>1. call[c] \in Call
  BY DEF CallsTyped
<1>. DEFINE new == [call[c] EXCEPT !.base = baseSeq, !.step = "index"]
<1>2. call'[c] = new /\ \A d \in Calls \ {c} : call'[d] = call[d]
  BY DEF CallsTyped, InsertBaseProfile
<1>3. new \in Call
  BY <1>1 DEF Call, Working
<1>4. call' \in [Calls -> Call \cup {Null}]
  <2>. HIDE DEF new
  <2>. QED
    BY <1>2, <1>3 DEF CallsTyped, InsertBaseProfile
<1>. QED
  BY <1>1, <1>2, <1>3, <1>4 DEF Call, Becomes

LEMMA ProfileDrawn ==
    ASSUME CallsTyped, NEW c \in Calls, call[c] # Null, profileSeq \in Ids, InsertProfile(c)
    PROVE  Becomes(c, call[c].base, profileSeq, call[c].access, call[c].refresh, "commit")
<1>1. call[c] \in Call
  BY DEF CallsTyped
<1>. DEFINE new == [call[c] EXCEPT !.prof = profileSeq, !.step = "commit"]
<1>2. call'[c] = new /\ \A d \in Calls \ {c} : call'[d] = call[d]
  BY DEF CallsTyped, InsertProfile
<1>3. new \in Call
  BY <1>1 DEF Call, Working
<1>4. call' \in [Calls -> Call \cup {Null}]
  <2>. HIDE DEF new
  <2>. QED
    BY <1>2, <1>3 DEF CallsTyped, InsertProfile
<1>. QED
  BY <1>1, <1>2, <1>3, <1>4 DEF Call, Becomes

LEMMA Issued ==
    ASSUME NEW u \in Ids, NEW t \in {"access", "refresh"}, NEW ttl \in Nat, NEW since \in Nat,
           now \in Nat
    PROVE  /\ Issue(u, t, ttl, since) \in Token
           /\ Issue(u, t, ttl, since).user = u /\ Issue(u, t, ttl, since).type = t
           /\ Issue(u, t, ttl, since).exp = now + ttl
           /\ Issue(u, t, ttl, since).since = since
BY DEF Issue, Token

LEMMA PairAnswered ==
    ASSUME CallsTyped, NEW c \in Calls, call[c] # Null, now \in Nat, NEW u \in Ids, AnswerWithPair(c, u)
    PROVE  Becomes(c, call[c].base, call[c].prof, Issue(u, "access", AccessTTL, now),
                   Issue(u, "refresh", RefreshTTL, now), "ok")
<1>1. call[c] \in Call
  BY DEF CallsTyped
<1>. DEFINE a == Issue(u, "access", AccessTTL, now)
            r == Issue(u, "refresh", RefreshTTL, now)
            new == [call[c] EXCEPT !.access = a, !.refresh = r, !.step = "ok"]
<1>2. call'[c] = new /\ \A d \in Calls \ {c} : call'[d] = call[d]
  BY DEF CallsTyped, AnswerWithPair
<1>3. new \in Call
  <2>1. a \in Token /\ r \in Token
    BY Issued, AccountsAssumption
  <2>. HIDE DEF a, r
  <2>. QED
    BY <1>1, <2>1 DEF Call, Working
<1>4. call' \in [Calls -> Call \cup {Null}]
  <2>. HIDE DEF new
  <2>. QED
    BY <1>2, <1>3 DEF CallsTyped, AnswerWithPair
<1>. QED
  BY <1>1, <1>2, <1>3, <1>4 DEF Call, Becomes

LEMMA AccessAnswered ==
    ASSUME CallsTyped, NEW c \in Calls, call[c] # Null, now \in Nat, call[c].token \in Token, Refresh(c)
    PROVE  Becomes(c, call[c].base, call[c].prof,
                   Issue(call[c].token.user, "access", AccessTTL, call[c].token.since),
                   call[c].refresh, "ok")
<1>1. call[c] \in Call
  BY DEF CallsTyped
<1>. DEFINE a == Issue(call[c].token.user, "access", AccessTTL, call[c].token.since)
            new == [call[c] EXCEPT !.access = a, !.step = "ok"]
<1>2. call'[c] = new /\ \A d \in Calls \ {c} : call'[d] = call[d]
  BY DEF CallsTyped, Refresh
<1>3. new \in Call
  <2>1. call[c].token.user \in Ids /\ call[c].token.since \in Nat
    BY DEF Token
  <2>2. a \in Token
    BY <2>1, Issued, AccountsAssumption
  <2>. HIDE DEF a
  <2>. QED
    BY <1>1, <2>2 DEF Call, Working
<1>4. call' \in [Calls -> Call \cup {Null}]
  <2>. HIDE DEF new
  <2>. QED
    BY <1>2, <1>3 DEF CallsTyped, Refresh
<1>. QED
  BY <1>1, <1>2, <1>3, <1>4 DEF Call, Becomes

-----------------------------------------------------------------------------
(* Types, and the variables that a request has at each of its steps. *)

SignupSteps == {"exists", "base", "index", "profile", "commit"}

StepsOf ==
    [signup |-> SignupSteps, login |-> {"find"}, refresh |-> {"refresh"},
     logout |-> {"logout"}, update |-> {"update", "reload"}, upload |-> {"put", "save"}]

Local(r) ==
    /\ r.step \in StepsOf[r.op] \cup {"ok", "done", "error"}
    /\ r.op # "signup" => r.base = Null /\ r.prof = Null
    /\ r.step \in {"exists", "base"} => r.base = Null
    /\ r.step \in {"exists", "base", "index", "profile"} => r.prof = Null
    /\ r.step \in {"index", "profile", "commit"} => r.base # Null
    /\ r.step = "commit" => r.prof # Null
    /\ r.prof # Null => r.base # Null
    /\ r.access # Null => r.step \in {"ok", "done"}
    /\ r.op = "signup" /\ r.step \in {"ok", "done"} => r.base # Null /\ r.prof # Null
    /\ r.op \in {"signup", "login"} /\ r.step \in {"ok", "done"}
          => r.access # Null /\ r.refresh # Null
    /\ r.op \in {"refresh", "update", "upload"} => r.token # Null

Locals == \A c \in Calls : call[c] # Null => Local(call[c])

\* The requests that have drawn numbers.
Drawn == {c \in Calls : call[c] # Null /\ call[c].base # Null}

DrawnTwice == {c \in Calls : call[c] # Null /\ call[c].prof # Null}

Counted ==
    /\ baseSeq = Cardinality(Drawn) + 1
    /\ profileSeq = Cardinality(DrawnTwice) + 1

\* No number is drawn twice.
Distinct ==
    /\ \A c \in Drawn : call[c].base < baseSeq
    /\ \A c, d \in Drawn : call[c].base = call[d].base => c = d
    /\ \A c \in DrawnTwice : call[c].prof < profileSeq
    /\ \A c, d \in DrawnTwice : call[c].prof = call[d].prof => c = d

Tables ==
    /\ base_profile \in [Ids -> Names \cup {NoRow}]
    /\ profile \in [Ids -> ProfileRow \cup {NoRow}]
    /\ objects \subseteq Path
    /\ now \in 0 .. MaxTime

Jars ==
    /\ jar \in [Browsers -> [access : Token \cup {Null}, refresh : Token \cup {Null}]]
    /\ \A b \in Browsers : /\ jar[b].access # Null => jar[b].access.type = "access"
                           /\ jar[b].refresh # Null => jar[b].refresh.type = "refresh"

\* The tokens of an answer are of the right types.
Pairs ==
    \A c \in Calls : call[c] # Null =>
        /\ call[c].access # Null => call[c].access.type = "access"
        /\ call[c].refresh # Null => call[c].refresh.type = "refresh"

CallInv == CallsTyped /\ Locals /\ Counted /\ Distinct /\ Tables /\ Jars /\ Pairs

LEMMA Bounds ==
    ASSUME CallsTyped, Locals, Counted
    PROVE  /\ baseSeq \in 1 .. Cardinality(Calls) + 1
           /\ profileSeq \in 1 .. baseSeq
           /\ Drawn # Calls => baseSeq \in Ids
           /\ DrawnTwice # Drawn => profileSeq \in Ids
           /\ IsFiniteSet(Drawn) /\ IsFiniteSet(DrawnTwice)
<1>1. Drawn \subseteq Calls
  BY DEF Drawn
<1>2. DrawnTwice \subseteq Drawn
  BY DEF Drawn, DrawnTwice, Locals, Local
<1>3. /\ Cardinality(Calls) \in Nat
      /\ IsFiniteSet(Drawn) /\ Cardinality(Drawn) \in Nat
      /\ Cardinality(Drawn) <= Cardinality(Calls)
      /\ Drawn # Calls => Cardinality(Drawn) < Cardinality(Calls)
  BY <1>1, AccountsAssumption, FS_Subset, FS_CardinalityType
<1>4. /\ IsFiniteSet(DrawnTwice) /\ Cardinality(DrawnTwice) \in Nat
      /\ Cardinality(DrawnTwice) <= Cardinality(Drawn)
      /\ DrawnTwice # Drawn => Cardinality(DrawnTwice) < Cardinality(Drawn)
  BY <1>2, <1>3, FS_Subset, FS_CardinalityType
<1>. QED
  BY <1>3, <1>4 DEF Counted, Ids

\* The steps that change no variable of the request but the step itself.
Quiet(c) ==
    \/ UserExists(c) \/ UniqueIndex(c) \/ Logout(c) \/ UpdateProfileInfo(c) \/ FindInfoByID(c)
    \/ PutObject(c) \/ InsertProfileAvatar(c) \/ Refuse(c) \/ Fail(c) \/ Answer(c)

Leads(from, to) ==
    \/ from \in Working /\ to = "error"
    \/ <<from, to>> \in {<<"exists", "base">>, <<"index", "profile">>, <<"logout", "ok">>,
                         <<"update", "reload">>, <<"reload", "ok">>, <<"put", "save">>,
                         <<"save", "ok">>, <<"ok", "done">>}

LEMMA QuietMoves ==
    ASSUME CallsTyped, NEW c \in Calls, Quiet(c)
    PROVE  call[c] # Null /\ \E s \in Steps : Moves(c, s) /\ Leads(call[c].step, s)
<1>1. call[c] # Null
  BY DEF Quiet, UserExists, UniqueIndex, Logout, UpdateProfileInfo, FindInfoByID, PutObject,
     InsertProfileAvatar, Refuse, Fail, Answer, At, Busy
<1>2. ASSUME NEW s, Goto(c, s), Leads(call[c].step, s)
      PROVE  \E z \in Steps : Moves(c, z) /\ Leads(call[c].step, z)
  <2>1. s \in Steps
    BY <1>2 DEF Leads, Steps, Working
  <2>2. Moves(c, s)
    BY <1>1, <1>2, <2>1, GotoMoves
  <2>. QED
    BY <1>2, <2>1, <2>2
<1>3. \E s : Goto(c, s) /\ Leads(call[c].step, s)
  <2>1. CASE UserExists(c)
    BY <2>1 DEF UserExists, At, Leads, Working
  <2>2. CASE UniqueIndex(c)
    BY <2>2 DEF UniqueIndex, At, Leads, Working
  <2>3. CASE Logout(c) \/ UpdateProfileInfo(c) \/ FindInfoByID(c)
    BY <2>3 DEF Logout, UpdateProfileInfo, FindInfoByID, At, Leads
  <2>4. CASE PutObject(c) \/ InsertProfileAvatar(c) \/ Answer(c)
    BY <2>4 DEF PutObject, InsertProfileAvatar, Answer, At, Leads
  <2>5. CASE Refuse(c)
    BY <2>5 DEF Refuse, At, Leads, Working
  <2>6. CASE Fail(c)
    BY <2>6 DEF Fail, Busy, Leads
  <2>. QED
    BY <2>1, <2>2, <2>3, <2>4, <2>5, <2>6 DEF Quiet
<1>. QED
  BY <1>1, <1>2, <1>3

LEMMA QuietLocal ==
    ASSUME CallsTyped, Locals, NEW c \in Calls, call[c] # Null, NEW s \in Steps,
           Moves(c, s), Leads(call[c].step, s)
    PROVE  Local(call'[c])
<1>1. call[c] \in Call /\ Local(call[c])
  BY DEF CallsTyped, Locals
<1>2. call[c].op \in {"signup", "login", "refresh", "logout", "update", "upload"}
  BY <1>1 DEF Call
<1>3. /\ call'[c].op = call[c].op /\ call'[c].token = call[c].token
      /\ call'[c].base = call[c].base /\ call'[c].prof = call[c].prof
      /\ call'[c].access = call[c].access /\ call'[c].refresh = call[c].refresh
      /\ call'[c].step = s
  BY DEF Moves, Becomes
<1>4. call[c].step \in StepsOf[call[c].op] \cup {"ok", "done", "error"}
  BY <1>1 DEF Local
<1>5. s \in StepsOf[call[c].op] \cup {"ok", "done", "error"}
  BY <1>2, <1>4 DEF Leads, StepsOf, SignupSteps, Working
<1>6. call[c].op \in {"signup", "login"} /\ s \in {"ok", "done"} => call[c].step \in {"ok", "done"}
  BY <1>2, <1>4 DEF Leads, StepsOf, SignupSteps, Working
<1>7. call[c].access # Null => call[c].step = "ok" /\ s = "done"
  BY <1>1 DEF Leads, Local, Working
<1>. QED
  BY <1>1, <1>3, <1>5, <1>6, <1>7 DEF Local, Leads

LEMMA NumbersKept ==
    ASSUME Counted, Distinct, NEW c \in Calls, \A d \in Calls \ {c} : call'[d] = call[d],
           call'[c] # Null,
           call[c] = Null => call'[c].base = Null /\ call'[c].prof = Null,
           call[c] # Null => call'[c].base = call[c].base /\ call'[c].prof = call[c].prof,
           baseSeq' = baseSeq, profileSeq' = profileSeq
    PROVE  Counted' /\ Distinct'
<1>1. Drawn' = Drawn /\ DrawnTwice' = DrawnTwice
  BY DEF Drawn, DrawnTwice
<1>2. /\ \A d \in Drawn : call'[d].base = call[d].base
      /\ \A d \in DrawnTwice : call'[d].prof = call[d].prof
  BY DEF Drawn, DrawnTwice
<1>. QED
  BY <1>1, <1>2 DEF Counted, Distinct

NewRequest(op, b, n, f) ==
    [op |-> op, browser |-> b, name |-> n, filled |-> f, token |-> Cookie(b, op),
     base |-> Null, prof |-> Null, access |-> Null, refresh |-> Null, step |-> FirstStep[op]]

\* A request begins without numbers and without an answer.
Begins(c) ==
    /\ call[c] = Null
    /\ \A d \in Calls \ {c} : call'[d] = call[d]
    /\ call'[c].base = Null /\ call'[c].prof = Null
    /\ call'[c].access = Null /\ call'[c].refresh = Null
    /\ call'[c].browser \in Browsers
    /\ call'[c].token = Cookie(call'[c].browser, call'[c].op)
    /\ call'[c].step = FirstStep[call'[c].op]
    /\ call'[c] \in Call
    /\ call' \in [Calls -> Call \cup {Null}]

LEMMA SendBegins ==
    ASSUME CallsTyped, Jars, NEW c \in Calls, Send(c)
    PROVE  Begins(c) /\ Local(call'[c])
<1>0. PICK op \in Ops, b \in Browsers, n \in Names, f \in BOOLEAN :
         /\ op \in {"refresh", "update", "upload"} => Cookie(b, op) # Null
         /\ op \notin {"signup", "login"} => n = CHOOSE x \in Names : TRUE
         /\ op # "update" => f
         /\ call' = [call EXCEPT ![c] =
               [op |-> op, browser |-> b, name |-> n, filled |-> f,
                token |-> Cookie(b, op), base |-> Null, prof |-> Null,
                access |-> Null, refresh |-> Null, step |-> FirstStep[op]]]
  BY DEF Send
<1>1. /\ op \in {"refresh", "update", "upload"} => Cookie(b, op) # Null
      /\ call' = [call EXCEPT ![c] = NewRequest(op, b, n, f)]
  BY <1>0 DEF NewRequest
<1>2. op \in {"signup", "login", "refresh", "logout", "update", "upload"}
  BY AccountsAssumption
<1>3. Cookie(b, op) \in Token \cup {Null}
  BY DEF Jars, Cookie
<1>4. FirstStep[op] \in StepsOf[op] /\ FirstStep[op] \in Working
  BY <1>2 DEF FirstStep, StepsOf, SignupSteps, Working
<1>. DEFINE new == NewRequest(op, b, n, f)
<1>5. new \in Call
  BY <1>2, <1>3, <1>4 DEF NewRequest, Call
<1>6. /\ new.op = op /\ new.browser = b /\ new.token = Cookie(b, op)
      /\ new.base = Null /\ new.prof = Null /\ new.access = Null /\ new.refresh = Null
      /\ new.step = FirstStep[op]
  BY DEF NewRequest
<1>7. call'[c] = new /\ \A d \in Calls \ {c} : call'[d] = call[d]
  BY <1>1 DEF CallsTyped
<1>8. call' \in [Calls -> Call \cup {Null}]
  BY <1>1, <1>5 DEF CallsTyped
<1>9. Local(new)
  <2>1. op = "signup" => FirstStep[op] = "exists"
    BY DEF FirstStep
  <2>2. FirstStep[op] \notin {"index", "profile", "commit", "ok", "done"}
    BY <1>2 DEF FirstStep
  <2>. HIDE DEF new
  <2>. QED
    BY <1>1, <1>2, <1>4, <1>6, <2>1, <2>2 DEF Local
<1>10. call[c] = Null
  BY DEF Send
<1>. QED
  <2>. HIDE DEF new
  <2>. QED
    BY <1>5, <1>6, <1>7, <1>8, <1>9, <1>10 DEF Begins

LEMMA SpeakingLocal ==
    ASSUME CallsTyped, Locals, NEW c \in Calls, call[c] # Null,
           \/ /\ call[c].step = "base" /\ baseSeq # Null
              /\ Becomes(c, baseSeq, call[c].prof, call[c].access, call[c].refresh, "index")
           \/ /\ call[c].step = "profile" /\ profileSeq # Null
              /\ Becomes(c, call[c].base, profileSeq, call[c].access, call[c].refresh, "commit")
           \/ /\ call[c].step \in {"commit", "find"}
              /\ \E a, r \in Token : Becomes(c, call[c].base, call[c].prof, a, r, "ok")
           \/ /\ call[c].step = "refresh"
              /\ \E a \in Token : Becomes(c, call[c].base, call[c].prof, a, call[c].refresh, "ok")
    PROVE  Local(call'[c])
<1>1. call[c] \in Call /\ Local(call[c])
  BY DEF CallsTyped, Locals
<1>2. call[c].op \in {"signup", "login", "refresh", "logout", "update", "upload"}
  BY <1>1 DEF Call
<1>3. call[c].step \in StepsOf[call[c].op] \cup {"ok", "done", "error"}
  BY <1>1 DEF Local
<1>4. /\ call[c].step \in {"base", "profile", "commit"} => call[c].op = "signup"
      /\ call[c].step = "find" => call[c].op = "login"
      /\ call[c].step = "refresh" => call[c].op = "refresh"
  BY <1>2, <1>3 DEF StepsOf, SignupSteps
<1>5. Null \notin Token
  BY AccountsAssumption
<1>6. {"index", "commit"} \subseteq StepsOf["signup"]
  BY DEF StepsOf, SignupSteps
<1>7. call[c].step \in Working => call[c].access = Null
  BY <1>1 DEF Local, Working
<1>8. CASE /\ call[c].step = "base" /\ baseSeq # Null
           /\ Becomes(c, baseSeq, call[c].prof, call[c].access, call[c].refresh, "index")
  BY <1>1, <1>4, <1>6, <1>7, <1>8 DEF Local, Becomes, Working
<1>9. CASE /\ call[c].step = "profile" /\ profileSeq # Null
           /\ Becomes(c, call[c].base, profileSeq, call[c].access, call[c].refresh, "commit")
  BY <1>1, <1>4, <1>6, <1>7, <1>9 DEF Local, Becomes, Working
<1>10. CASE /\ call[c].step \in {"commit", "find"}
            /\ \E a, r \in Token : Becomes(c, call[c].base, call[c].prof, a, r, "ok")
  <2>1. PICK a \in Token, r \in Token : Becomes(c, call[c].base, call[c].prof, a, r, "ok")
    BY <1>10
  <2>. QED
    BY <1>1, <1>4, <1>5, <1>10, <2>1 DEF Local, Becomes
<1>11. CASE /\ call[c].step = "refresh"
            /\ \E a \in Token : Becomes(c, call[c].base, call[c].prof, a, call[c].refresh, "ok")
  <2>1. PICK a \in Token : Becomes(c, call[c].base, call[c].prof, a, call[c].refresh, "ok")
    BY <1>11
  <2>. QED
    BY <1>1, <1>4, <1>11, <2>1 DEF Local, Becomes
<1>. QED
  BY <1>8, <1>9, <1>10, <1>11

LEMMA OthersKeep ==
    ASSUME Locals, Pairs, NEW c \in Calls, \A d \in Calls \ {c} : call'[d] = call[d],
           Local(call'[c]),
           call'[c].access # Null => call'[c].access.type = "access",
           call'[c].refresh # Null => call'[c].refresh.type = "refresh"
    PROVE  Locals' /\ Pairs'
<1>1. ASSUME NEW d \in Calls, call'[d] # Null
      PROVE  Local(call'[d])
  BY <1>1 DEF Locals
<1>2. Locals'
  BY <1>1 DEF Locals
<1>3. Pairs'
  BY DEF Pairs
<1>. QED
  BY <1>2, <1>3

\* Each request of an operation that needs a cookie has one.
LEMMA HasToken ==
    ASSUME CallInv, NEW c \in Calls, call[c] # Null,
           call[c].op \in {"refresh", "update", "upload"}
              \/ call[c].step \in {"refresh", "update", "reload", "put", "save"}
    PROVE  call[c].token \in Token /\ call[c].token.user \in Ids
<1>1. call[c] \in Call /\ Local(call[c])
  BY DEF CallInv, CallsTyped, Locals
<1>2. call[c].op \in {"signup", "login", "refresh", "logout", "update", "upload"}
  BY <1>1 DEF Call
<1>3. call[c].op \in {"refresh", "update", "upload"}
  BY <1>1, <1>2 DEF Local, StepsOf, SignupSteps
<1>4. call[c].token \in Token
  BY <1>1, <1>3 DEF Local, Call
<1>. QED
  BY <1>4 DEF Token

LEMMA TablesStep ==
    ASSUME CallInv, NEW c \in Calls,
           Quiet(c) \/ InsertBaseProfile(c) \/ InsertProfile(c) \/ CreateUser(c)
              \/ Login(c) \/ Refresh(c) \/ Send(c)
    PROVE  Tables'
<1>. USE DEF Tables
<1>1. Tables
  BY DEF CallInv
<1>2. CASE CreateUser(c)
  <2>1. call[c] \in Call /\ Local(call[c]) /\ call[c].step = "commit"
    BY <1>2 DEF CreateUser, At, CallInv, CallsTyped, Locals
  <2>2. call[c].base \in Ids /\ call[c].prof \in Ids /\ call[c].name \in Names
    BY <2>1 DEF Local, Call
  <2>3. NewProfile(call[c].base) \in ProfileRow
    BY <2>2 DEF NewProfile, ProfileRow
  <2>. QED
    BY <1>1, <1>2, <2>2, <2>3 DEF CreateUser
<1>3. CASE UpdateProfileInfo(c)
  <2>1. call[c] \in Call
    BY <1>3 DEF UpdateProfileInfo, At, CallInv, CallsTyped
  <2>2. call[c].filled \in BOOLEAN
    BY <2>1 DEF Call
  <2>3. ASSUME NEW p \in RowsOf(call[c].token.user)
        PROVE  [profile[p] EXCEPT !.filled = call[c].filled] \in ProfileRow
    BY <1>1, <2>2 DEF RowsOf, Profiles, ProfileRow
  <2>4. profile' \in [Ids -> ProfileRow \cup {NoRow}]
    BY <1>1, <1>3, <2>3 DEF UpdateProfileInfo
  <2>. QED
    BY <1>1, <1>3, <2>4 DEF UpdateProfileInfo
<1>4. CASE InsertProfileAvatar(c)
  <2>1. call[c].token.user \in Ids
    BY <1>4, HasToken DEF InsertProfileAvatar, At
  <2>2. <<call[c].token.user, c>> \in Path
    BY <2>1 DEF Path
  <2>3. ASSUME NEW p \in RowsOf(call[c].token.user)
        PROVE  [profile[p] EXCEPT !.image_path = <<call[c].token.user, c>>] \in ProfileRow
    BY <1>1, <2>2 DEF RowsOf, Profiles, ProfileRow
  <2>4. profile' \in [Ids -> ProfileRow \cup {NoRow}]
    BY <1>1, <1>4, <2>3 DEF InsertProfileAvatar
  <2>. QED
    BY <1>1, <1>4, <2>4 DEF InsertProfileAvatar
<1>5. CASE PutObject(c)
  <2>1. call[c].token.user \in Ids
    BY <1>5, HasToken DEF PutObject, At
  <2>2. <<call[c].token.user, c>> \in Path
    BY <2>1 DEF Path
  <2>. QED
    BY <1>1, <1>5, <2>2 DEF PutObject
<1>6. CASE \/ UserExists(c) \/ UniqueIndex(c) \/ Logout(c) \/ FindInfoByID(c)
           \/ Refuse(c) \/ Fail(c) \/ Answer(c)
  BY <1>1, <1>6 DEF UserExists, UniqueIndex, Logout, FindInfoByID, Refuse, Fail, Answer
<1>7. CASE \/ InsertBaseProfile(c) \/ InsertProfile(c) \/ Login(c) \/ Refresh(c) \/ Send(c)
  BY <1>1, <1>7 DEF InsertBaseProfile, InsertProfile, Login, Refresh, Send
<1>. QED
  BY <1>2, <1>3, <1>4, <1>5, <1>6, <1>7 DEF Quiet

LEMMA JarsStep ==
    ASSUME CallInv, NEW c \in Calls, Answer(c)
    PROVE  Jars'
<1>1. call[c] \in Call /\ call[c].step = "ok" /\ Local(call[c])
  BY DEF Answer, At, CallInv, CallsTyped, Locals
<1>. DEFINE b == call[c].browser
<1>2. b \in Browsers /\ call[c].access \in Token \cup {Null} /\ call[c].refresh \in Token \cup {Null}
  BY <1>1 DEF Call
<1>3. /\ call[c].access # Null => call[c].access.type = "access"
      /\ call[c].refresh # Null => call[c].refresh.type = "refresh"
  BY <1>1, AccountsAssumption DEF CallInv, Pairs
<1>4. Jars
  BY DEF CallInv
<1>5. ASSUME NEW j \in [access : Token \cup {Null}, refresh : Token \cup {Null}],
             j.access # Null => j.access.type = "access",
             j.refresh # Null => j.refresh.type = "refresh",
             jar' = [jar EXCEPT ![b] = j]
      PROVE  Jars'
  BY <1>2, <1>4, <1>5 DEF Jars
<1>6. CASE call[c].op \in {"signup", "login"}
  <2>. DEFINE j == [access |-> call[c].access, refresh |-> call[c].refresh]
  <2>1. jar' = [jar EXCEPT ![b] = j]
    BY <1>6 DEF Answer
  <2>. QED
    BY <1>2, <1>3, <1>5, <2>1
<1>7. CASE call[c].op = "refresh"
  <2>. DEFINE j == [jar[b] EXCEPT !.access = call[c].access]
  <2>1. jar' = [jar EXCEPT ![b] = j]
    BY <1>7 DEF Answer
  <2>2. /\ j \in [access : Token \cup {Null}, refresh : Token \cup {Null}]
        /\ j.access = call[c].access /\ j.refresh = jar[b].refresh
    BY <1>2, <1>4 DEF Jars
  <2>3. j.refresh # Null => j.refresh.type = "refresh"
    BY <1>2, <1>4, <2>2 DEF Jars
  <2>. QED
    BY <1>3, <1>5, <2>1, <2>2, <2>3
<1>8. CASE call[c].op = "logout"
  <2>. DEFINE j == [access |-> Null, refresh |-> Null]
  <2>1. jar' = [jar EXCEPT ![b] = j]
    BY <1>8 DEF Answer
  <2>. QED
    BY <1>5, <2>1
<1>9. CASE call[c].op \notin {"signup", "login", "refresh", "logout"}
  <2>1. jar' = [jar EXCEPT ![b] = jar[b]]
    BY <1>9 DEF Answer
  <2>2. jar' = jar
    BY <2>1, <1>4 DEF Jars
  <2>. QED
    BY <2>2, <1>4 DEF Jars
<1>. QED
  BY <1>6, <1>7, <1>8, <1>9

\* The kinds of steps.
Still ==
    UNCHANGED <<base_profile, profile, baseSeq, profileSeq, objects, jar, call>>
        /\ now' \in {now, now + 1} /\ (now' = now \/ now < MaxTime)

LEMMA Kinds ==
    ASSUME [Next]_vars
    PROVE  \/ Still
           \/ \E c \in Calls :
                 \/ Send(c) \/ Quiet(c) \/ InsertBaseProfile(c) \/ InsertProfile(c)
                 \/ CreateUser(c) \/ Login(c) \/ Refresh(c)
<1>1. CASE UNCHANGED vars
  BY <1>1 DEF vars, Still
<1>2. CASE Tick
  BY <1>2 DEF Tick, Still
<1>. QED
  BY <1>1, <1>2 DEF Next, Step, Signup, Quiet

\* The answers that carry tokens.
LEMMA Speaks ==
    ASSUME CallInv, NEW c \in Calls, CreateUser(c) \/ Login(c)
    PROVE  /\ call[c] # Null /\ call[c].step \in {"commit", "find"}
           /\ \E u \in Ids :
                /\ CreateUser(c) => u = call[c].base
                /\ Login(c) => base_profile[u] = call[c].name
                /\ Issue(u, "access", AccessTTL, now) \in Token
                /\ Issue(u, "refresh", RefreshTTL, now) \in Token
                /\ Becomes(c, call[c].base, call[c].prof, Issue(u, "access", AccessTTL, now),
                           Issue(u, "refresh", RefreshTTL, now), "ok")
<1>1. call[c] # Null /\ call[c].step \in {"commit", "find"}
  BY DEF CreateUser, Login, At
<1>2. call[c] \in Call /\ Local(call[c]) /\ now \in Nat /\ CallsTyped
  BY <1>1, AccountsAssumption DEF CallInv, CallsTyped, Locals, Tables
<1>3. ASSUME NEW u \in Ids, AnswerWithPair(c, u)
      PROVE  /\ Issue(u, "access", AccessTTL, now) \in Token
             /\ Issue(u, "refresh", RefreshTTL, now) \in Token
             /\ Becomes(c, call[c].base, call[c].prof, Issue(u, "access", AccessTTL, now),
                        Issue(u, "refresh", RefreshTTL, now), "ok")
  BY <1>1, <1>2, <1>3, Issued, PairAnswered, AccountsAssumption
<1>4. CASE CreateUser(c)
  <2>1. call[c].base \in Ids /\ AnswerWithPair(c, call[c].base)
    BY <1>2, <1>4 DEF CreateUser, At, Local, Call
  <2>2. ~Login(c)
    BY <1>4 DEF CreateUser, Login, At
  <2>. QED
    BY <1>1, <1>3, <2>1, <2>2
<1>5. CASE Login(c)
  <2>1. PICK p \in Readable :
           /\ base_profile[profile[p].base_profile_id] = call[c].name
           /\ AnswerWithPair(c, profile[p].base_profile_id)
    BY <1>5 DEF Login
  <2>2. profile[p].base_profile_id \in Ids
    BY <2>1 DEF Readable, Profiles, CallInv, Tables, ProfileRow
  <2>3. ~CreateUser(c)
    BY <1>5 DEF CreateUser, Login, At
  <2>. QED
    BY <1>1, <1>3, <2>1, <2>2, <2>3
<1>. QED
  BY <1>4, <1>5

LEMMA RefreshSpeaks ==
    ASSUME CallInv, NEW c \in Calls, Refresh(c)
    PROVE  /\ call[c] # Null /\ call[c].step = "refresh" /\ call[c].op = "refresh"
           /\ call[c].token \in Token /\ CheckSession(call[c].token, "refresh")
           /\ \E a \in Token :
                /\ a.type = "access" /\ a.user = call[c].token.user
                /\ a.exp = now + AccessTTL /\ a.since = call[c].token.since
                /\ Becomes(c, call[c].base, call[c].prof, a, call[c].refresh, "ok")
<1>1. call[c] # Null /\ call[c].step = "refresh" /\ CheckSession(call[c].token, "refresh")
  BY DEF Refresh, At
<1>2. call[c].token \in Token
  BY <1>1, HasToken
<1>3. call[c].token.user \in Ids /\ call[c].token.since \in Nat /\ now \in Nat /\ AccessTTL \in Nat
  BY <1>2, AccountsAssumption DEF Token, CallInv, Tables
<1>4. call[c].op = "refresh"
  <2>1. call[c] \in Call /\ Local(call[c])
    BY <1>1 DEF CallInv, CallsTyped, Locals
  <2>. QED
    BY <1>1, <2>1 DEF Call, Local, StepsOf, SignupSteps
<1>. DEFINE a == Issue(call[c].token.user, "access", AccessTTL, call[c].token.since)
<1>5. /\ a \in Token /\ a.type = "access" /\ a.user = call[c].token.user
      /\ a.exp = now + AccessTTL /\ a.since = call[c].token.since
  BY <1>3, Issued
<1>6. Becomes(c, call[c].base, call[c].prof, a, call[c].refresh, "ok")
  BY <1>1, <1>2, <1>3, AccessAnswered DEF CallInv
<1>. QED
  <2>. HIDE DEF a
  <2>. QED
    BY <1>1, <1>2, <1>4, <1>5, <1>6

LEMMA InsertsBase ==
    ASSUME CallInv, NEW c \in Calls, InsertBaseProfile(c)
    PROVE  /\ call[c] # Null /\ call[c].step = "base" /\ call[c].op = "signup"
           /\ call[c].base = Null /\ baseSeq \in Ids /\ baseSeq' = baseSeq + 1
           /\ Becomes(c, baseSeq, call[c].prof, call[c].access, call[c].refresh, "index")
<1>1. call[c] # Null /\ call[c].step = "base" /\ baseSeq' = baseSeq + 1
  BY DEF InsertBaseProfile, At
<1>2. call[c] \in Call /\ Local(call[c])
  BY <1>1 DEF CallInv, CallsTyped, Locals
<1>3. call[c].op = "signup" /\ call[c].base = Null
  BY <1>1, <1>2 DEF Local, Call, StepsOf, SignupSteps
<1>4. Drawn # Calls
  BY <1>3 DEF Drawn
<1>5. baseSeq \in Ids
  BY <1>4, Bounds DEF CallInv
<1>. QED
  BY <1>1, <1>3, <1>5, BaseDrawn DEF CallInv

LEMMA InsertsProfile ==
    ASSUME CallInv, NEW c \in Calls, InsertProfile(c)
    PROVE  /\ call[c] # Null /\ call[c].step = "profile" /\ call[c].op = "signup"
           /\ call[c].base # Null /\ call[c].prof = Null
           /\ profileSeq \in Ids /\ profileSeq' = profileSeq + 1
           /\ Becomes(c, call[c].base, profileSeq, call[c].access, call[c].refresh, "commit")
<1>1. call[c] # Null /\ call[c].step = "profile" /\ profileSeq' = profileSeq + 1
  BY DEF InsertProfile, At
<1>2. call[c] \in Call /\ Local(call[c])
  BY <1>1 DEF CallInv, CallsTyped, Locals
<1>3. call[c].op = "signup" /\ call[c].base # Null /\ call[c].prof = Null
  BY <1>1, <1>2 DEF Local, Call, StepsOf, SignupSteps
<1>4. DrawnTwice # Drawn
  BY <1>1, <1>3 DEF Drawn, DrawnTwice
<1>5. profileSeq \in Ids
  BY <1>4, Bounds DEF CallInv
<1>. QED
  BY <1>1, <1>3, <1>5, ProfileDrawn DEF CallInv

LEMMA CallStarts == Init => CallInv
<1>. SUFFICES ASSUME Init PROVE CallInv
  OBVIOUS
<1>1. CallsTyped /\ Locals /\ Pairs
  BY DEF Init, CallsTyped, Locals, Pairs
<1>2. Drawn = {} /\ DrawnTwice = {}
  BY DEF Init, Drawn, DrawnTwice
<1>3. Counted /\ Distinct
  BY <1>2, FS_EmptySet DEF Init, Counted, Distinct
<1>4. Tables /\ Jars
  BY AccountsAssumption DEF Init, Tables, Jars
<1>. QED
  BY <1>1, <1>3, <1>4 DEF CallInv

LEMMA CallStep == CallInv /\ [Next]_vars => CallInv'
<1>. SUFFICES ASSUME CallInv, [Next]_vars PROVE CallInv'
  OBVIOUS
<1>0. /\ CallsTyped /\ Locals /\ Counted /\ Distinct /\ Tables /\ Jars /\ Pairs
      /\ Null \notin Call /\ Null \notin Token /\ Null \notin Ids
  BY AccountsAssumption DEF CallInv
<1>1. CASE Still
  <2>1. CallsTyped' /\ Locals' /\ Pairs' /\ Jars'
    BY <1>0, <1>1 DEF Still, CallsTyped, Locals, Pairs, Jars
  <2>2. Drawn' = Drawn /\ DrawnTwice' = DrawnTwice
    BY <1>1 DEF Still, Drawn, DrawnTwice
  <2>3. Counted' /\ Distinct'
    BY <1>0, <1>1, <2>2 DEF Still, Counted, Distinct
  <2>4. Tables'
    BY <1>0, <1>1, AccountsAssumption DEF Still, Tables
  <2>. QED
    BY <2>1, <2>3, <2>4 DEF CallInv
<1>2. ASSUME NEW c \in Calls, Send(c)
      PROVE  CallInv'
  <2>1. Begins(c) /\ Local(call'[c])
    BY <1>0, <1>2, SendBegins
  <2>2. Locals' /\ Pairs'
    BY <1>0, <2>1, OthersKeep DEF Begins
  <2>3. Counted' /\ Distinct'
    BY <1>0, <1>2, <2>1, NumbersKept DEF Begins, Send
  <2>4. Tables' /\ Jars'
    BY <1>0, <1>2, TablesStep DEF Send, Jars
  <2>. QED
    BY <2>1, <2>2, <2>3, <2>4 DEF CallInv, CallsTyped, Begins
<1>3. ASSUME NEW c \in Calls, Quiet(c)
      PROVE  CallInv'
  <2>1. call[c] # Null
    BY <1>0, <1>3, QuietMoves
  <2>2. PICK s \in Steps : Moves(c, s) /\ Leads(call[c].step, s)
    BY <1>0, <1>3, QuietMoves
  <2>3. Local(call'[c])
    BY <1>0, <2>1, <2>2, QuietLocal
  <2>4. Locals' /\ Pairs'
    BY <1>0, <2>1, <2>2, <2>3, OthersKeep DEF Moves, Becomes, Pairs
  <2>5. baseSeq' = baseSeq /\ profileSeq' = profileSeq
    BY <1>3 DEF Quiet, UserExists, UniqueIndex, Logout, UpdateProfileInfo, FindInfoByID,
       PutObject, InsertProfileAvatar, Refuse, Fail, Answer
  <2>6. Counted' /\ Distinct'
    BY <1>0, <2>1, <2>2, <2>5, NumbersKept DEF Moves, Becomes
  <2>7. Tables'
    BY <1>3, TablesStep
  <2>8. Jars'
    <3>1. CASE Answer(c)
      BY <3>1, JarsStep
    <3>2. CASE ~Answer(c)
      <4>1. jar' = jar
        BY <1>3, <3>2 DEF Quiet, UserExists, UniqueIndex, Logout, UpdateProfileInfo,
           FindInfoByID, PutObject, InsertProfileAvatar, Refuse, Fail
      <4>. QED
        BY <1>0, <4>1 DEF Jars
    <3>. QED
      BY <3>1, <3>2
  <2>. QED
    BY <2>2, <2>4, <2>6, <2>7, <2>8 DEF CallInv, CallsTyped, Moves, Becomes
<1>4. ASSUME NEW c \in Calls, InsertBaseProfile(c)
      PROVE  CallInv'
  <2>1. /\ call[c] # Null /\ call[c].step = "base"
        /\ call[c].base = Null /\ baseSeq \in Ids /\ baseSeq' = baseSeq + 1
        /\ Becomes(c, baseSeq, call[c].prof, call[c].access, call[c].refresh, "index")
    BY <1>4, InsertsBase
  <2>2. Local(call'[c])
    BY <1>0, <2>1, SpeakingLocal
  <2>3. Locals' /\ Pairs'
    BY <1>0, <2>1, <2>2, OthersKeep DEF Becomes, Pairs
  <2>4. profileSeq' = profileSeq /\ jar' = jar
    BY <1>4 DEF InsertBaseProfile
  <2>5. Drawn' = Drawn \cup {c} /\ c \notin Drawn /\ DrawnTwice' = DrawnTwice
    BY <1>0, <2>1 DEF Becomes, Drawn, DrawnTwice
  <2>6. Counted'
    <3>1. IsFiniteSet(Drawn)
      BY <1>0, Bounds
    <3>2. Cardinality(Drawn \cup {c}) = Cardinality(Drawn) + 1
      BY <2>5, <3>1, FS_AddElement
    <3>. QED
      BY <1>0, <2>1, <2>4, <2>5, <3>2 DEF Counted
  <2>7. Distinct'
    <3>1. /\ \A d \in Drawn : d # c /\ call'[d] = call[d] /\ call[d].base < baseSeq
          /\ call'[c].base = baseSeq /\ baseSeq \in Nat
      BY <1>0, <2>1, <2>5 DEF Becomes, Drawn, Distinct, Ids
    <3>2. \A d \in Drawn : call[d].base \in Nat
      BY <1>0 DEF Drawn, CallsTyped, Call, Ids
    <3>3. \A d \in Drawn' : call'[d].base < baseSeq'
      BY <2>1, <2>5, <3>1, <3>2
    <3>4. \A d, e \in Drawn' : call'[d].base = call'[e].base => d = e
      BY <1>0, <2>5, <3>1, <3>2 DEF Distinct
    <3>5. \A d \in DrawnTwice : call'[d].prof = call[d].prof
      BY <2>1 DEF Becomes, DrawnTwice
    <3>. QED
      BY <1>0, <2>4, <2>5, <3>3, <3>4, <3>5 DEF Distinct
  <2>8. Tables' /\ Jars'
    BY <1>0, <1>4, <2>4, TablesStep DEF Jars
  <2>. QED
    BY <2>1, <2>3, <2>6, <2>7, <2>8 DEF CallInv, CallsTyped, Becomes
<1>5. ASSUME NEW c \in Calls, InsertProfile(c)
      PROVE  CallInv'
  <2>1. /\ call[c] # Null /\ call[c].step = "profile"
        /\ call[c].prof = Null /\ profileSeq \in Ids /\ profileSeq' = profileSeq + 1
        /\ Becomes(c, call[c].base, profileSeq, call[c].access, call[c].refresh, "commit")
    BY <1>5, InsertsProfile
  <2>2. Local(call'[c])
    BY <1>0, <2>1, SpeakingLocal
  <2>3. Locals' /\ Pairs'
    BY <1>0, <2>1, <2>2, OthersKeep DEF Becomes, Pairs
  <2>4. baseSeq' = baseSeq /\ jar' = jar
    BY <1>5 DEF InsertProfile
  <2>5. DrawnTwice' = DrawnTwice \cup {c} /\ c \notin DrawnTwice /\ Drawn' = Drawn
    BY <1>0, <2>1 DEF Becomes, Drawn, DrawnTwice
  <2>6. Counted'
    <3>1. IsFiniteSet(DrawnTwice)
      BY <1>0, Bounds
    <3>2. Cardinality(DrawnTwice \cup {c}) = Cardinality(DrawnTwice) + 1
      BY <2>5, <3>1, FS_AddElement
    <3>. QED
      BY <1>0, <2>1, <2>4, <2>5, <3>2 DEF Counted
  <2>7. Distinct'
    <3>1. /\ \A d \in DrawnTwice : d # c /\ call'[d] = call[d] /\ call[d].prof < profileSeq
          /\ call'[c].prof = profileSeq /\ profileSeq \in Nat
      BY <1>0, <2>1, <2>5 DEF Becomes, DrawnTwice, Distinct, Ids
    <3>2. \A d \in DrawnTwice : call[d].prof \in Nat
      BY <1>0 DEF DrawnTwice, CallsTyped, Call, Ids
    <3>3. \A d \in DrawnTwice' : call'[d].prof < profileSeq'
      BY <2>1, <2>5, <3>1, <3>2
    <3>4. \A d, e \in DrawnTwice' : call'[d].prof = call'[e].prof => d = e
      BY <1>0, <2>5, <3>1, <3>2 DEF Distinct
    <3>5. \A d \in Drawn : call'[d].base = call[d].base
      BY <2>1 DEF Becomes, Drawn
    <3>. QED
      BY <1>0, <2>4, <2>5, <3>3, <3>4, <3>5 DEF Distinct
  <2>8. Tables' /\ Jars'
    BY <1>0, <1>5, <2>4, TablesStep DEF Jars
  <2>. QED
    BY <2>1, <2>3, <2>6, <2>7, <2>8 DEF CallInv, CallsTyped, Becomes
<1>6. ASSUME NEW c \in Calls, CreateUser(c) \/ Login(c)
      PROVE  CallInv'
  <2>1. call[c] # Null /\ call[c].step \in {"commit", "find"}
    BY <1>6, Speaks
  <2>2. PICK u \in Ids :
           /\ Issue(u, "access", AccessTTL, now) \in Token
           /\ Issue(u, "refresh", RefreshTTL, now) \in Token
           /\ Becomes(c, call[c].base, call[c].prof, Issue(u, "access", AccessTTL, now),
                      Issue(u, "refresh", RefreshTTL, now), "ok")
    BY <1>6, Speaks
  <2>3. Local(call'[c])
    BY <1>0, <2>1, <2>2, SpeakingLocal
  <2>4. /\ Issue(u, "access", AccessTTL, now).type = "access"
        /\ Issue(u, "refresh", RefreshTTL, now).type = "refresh"
    BY DEF Issue
  <2>5. Locals' /\ Pairs'
    BY <1>0, <2>1, <2>2, <2>3, <2>4, OthersKeep DEF Becomes
  <2>6. baseSeq' = baseSeq /\ profileSeq' = profileSeq /\ jar' = jar
    BY <1>6 DEF CreateUser, Login
  <2>7. Counted' /\ Distinct'
    BY <1>0, <2>1, <2>2, <2>6, NumbersKept DEF Becomes
  <2>8. Tables' /\ Jars'
    BY <1>0, <1>6, <2>6, TablesStep DEF Jars
  <2>. QED
    BY <2>2, <2>5, <2>7, <2>8 DEF CallInv, CallsTyped, Becomes
<1>7. ASSUME NEW c \in Calls, Refresh(c)
      PROVE  CallInv'
  <2>1. call[c] # Null /\ call[c].step = "refresh"
    BY <1>7, RefreshSpeaks
  <2>2. PICK a \in Token :
           /\ a.type = "access"
           /\ Becomes(c, call[c].base, call[c].prof, a, call[c].refresh, "ok")
    BY <1>7, RefreshSpeaks
  <2>3. Local(call'[c])
    BY <1>0, <2>1, <2>2, SpeakingLocal
  <2>4. Locals' /\ Pairs'
    BY <1>0, <2>1, <2>2, <2>3, OthersKeep DEF Becomes, Pairs
  <2>5. baseSeq' = baseSeq /\ profileSeq' = profileSeq /\ jar' = jar
    BY <1>7 DEF Refresh
  <2>6. Counted' /\ Distinct'
    BY <1>0, <2>1, <2>2, <2>5, NumbersKept DEF Becomes
  <2>7. Tables' /\ Jars'
    BY <1>0, <1>7, <2>5, TablesStep DEF Jars
  <2>. QED
    BY <2>2, <2>4, <2>6, <2>7 DEF CallInv, CallsTyped, Becomes
<1>. QED
  BY <1>1, <1>2, <1>3, <1>4, <1>5, <1>6, <1>7, Kinds

LEMMA CallInvariant == Spec => []CallInv
  BY CallStarts, CallStep, PTL DEF Spec

-----------------------------------------------------------------------------
(* Accounts. *)

\* The sign-ups that have made an account,
Committed(c) == call[c] # Null /\ call[c].op = "signup" /\ call[c].access # Null

\* and those that are sure of their name.
Claims(c) ==
    /\ call[c] # Null /\ call[c].op = "signup"
    /\ call[c].access # Null \/ call[c].step \in {"profile", "commit"}

\* The rows are those of the sign-ups that have made an account.
Rows ==
    /\ \A c \in Calls : Committed(c) =>
          /\ base_profile[call[c].base] = call[c].name
          /\ profile[call[c].prof] # NoRow
          /\ profile[call[c].prof].base_profile_id = call[c].base
    /\ \A b \in Registered : \E c \in Calls : Committed(c) /\ call[c].base = b
    /\ \A p \in Profiles : \E c \in Calls : Committed(c) /\ call[c].prof = p

OneClaim ==
    \A c, d \in Calls : Claims(c) /\ Claims(d) /\ call[c].name = call[d].name => c = d

AccountInv == CallInv /\ Rows /\ OneClaim

\* Rows of profile are made by sign-ups and keep their account.
RowsStay ==
    /\ base_profile' = base_profile
    /\ \A p \in Ids : /\ (profile'[p] = NoRow) <=> (profile[p] = NoRow)
                      /\ profile[p] # NoRow =>
                            profile'[p].base_profile_id = profile[p].base_profile_id

LEMMA ProfilesStay ==
    ASSUME CallInv, NEW c \in Calls,
           Quiet(c) \/ InsertBaseProfile(c) \/ InsertProfile(c)
              \/ Login(c) \/ Refresh(c) \/ Send(c)
    PROVE  RowsStay
<1>1. profile \in [Ids -> ProfileRow \cup {NoRow}] /\ NoRow \notin ProfileRow
  BY AccountsAssumption DEF CallInv, Tables
<1>2. CASE UpdateProfileInfo(c)
  <2>1. ASSUME NEW p \in Ids, profile[p] # NoRow
        PROVE  /\ [profile[p] EXCEPT !.filled = call[c].filled] # NoRow
               /\ [profile[p] EXCEPT !.filled = call[c].filled].base_profile_id
                     = profile[p].base_profile_id
    <3>1. profile[p] \in ProfileRow
      BY <1>1, <2>1
    <3>2. call[c].filled \in BOOLEAN
      BY <1>2 DEF UpdateProfileInfo, At, CallInv, CallsTyped, Call
    <3>3. [profile[p] EXCEPT !.filled = call[c].filled] \in ProfileRow
      BY <3>1, <3>2 DEF ProfileRow
    <3>. QED
      BY <1>1, <3>1, <3>3 DEF ProfileRow
  <2>2. \A p \in Ids :
           profile'[p] = IF p \in RowsOf(call[c].token.user)
                         THEN [profile[p] EXCEPT !.filled = call[c].filled] ELSE profile[p]
    BY <1>2 DEF UpdateProfileInfo
  <2>3. base_profile' = base_profile
    BY <1>2 DEF UpdateProfileInfo
  <2>4. \A p \in RowsOf(call[c].token.user) : profile[p] # NoRow
    BY DEF RowsOf, Profiles
  <2>. QED
    BY <2>1, <2>2, <2>3, <2>4 DEF RowsStay
<1>3. CASE InsertProfileAvatar(c)
  <2>0. <<call[c].token.user, c>> \in Path
    BY <1>3, HasToken DEF InsertProfileAvatar, At, Path
  <2>1. ASSUME NEW p \in Ids, profile[p] # NoRow
        PROVE  /\ [profile[p] EXCEPT !.image_path = <<call[c].token.user, c>>] # NoRow
               /\ [profile[p] EXCEPT !.image_path = <<call[c].token.user, c>>].base_profile_id
                     = profile[p].base_profile_id
    <3>1. profile[p] \in ProfileRow
      BY <1>1, <2>1
    <3>2. [profile[p] EXCEPT !.image_path = <<call[c].token.user, c>>] \in ProfileRow
      BY <2>0, <3>1 DEF ProfileRow
    <3>. QED
      BY <1>1, <3>1, <3>2 DEF ProfileRow
  <2>2. \A p \in Ids :
           profile'[p] = IF p \in RowsOf(call[c].token.user)
                         THEN [profile[p] EXCEPT !.image_path = <<call[c].token.user, c>>]
                         ELSE profile[p]
    BY <1>3 DEF InsertProfileAvatar
  <2>3. base_profile' = base_profile
    BY <1>3 DEF InsertProfileAvatar
  <2>4. \A p \in RowsOf(call[c].token.user) : profile[p] # NoRow
    BY DEF RowsOf, Profiles
  <2>. QED
    BY <2>1, <2>2, <2>3, <2>4 DEF RowsStay
<1>4. CASE profile' = profile /\ base_profile' = base_profile
  BY <1>4 DEF RowsStay
<1>5. CASE \/ UserExists(c) \/ UniqueIndex(c) \/ Logout(c) \/ FindInfoByID(c) \/ PutObject(c)
           \/ Refuse(c) \/ Fail(c) \/ Answer(c)
  BY <1>4, <1>5 DEF UserExists, UniqueIndex, Logout, FindInfoByID, PutObject, Refuse, Fail, Answer
<1>6. CASE \/ InsertBaseProfile(c) \/ InsertProfile(c) \/ Login(c) \/ Refresh(c) \/ Send(c)
  BY <1>4, <1>6 DEF InsertBaseProfile, InsertProfile, Login, Refresh, Send
<1>. QED
  BY <1>2, <1>3, <1>5, <1>6 DEF Quiet

\* A step after which no sign-up has newly made an account keeps Rows.
LEMMA RowsKept ==
    ASSUME Rows, CallInv, RowsStay,
           \A d \in Calls :
              \/ call'[d] = call[d]
              \/ ~Committed(d) /\ ~Committed(d)'
              \/ /\ Committed(d) /\ Committed(d)'
                 /\ call'[d].base = call[d].base /\ call'[d].prof = call[d].prof
                 /\ call'[d].name = call[d].name
    PROVE  Rows'
<1>1. \A d \in Calls :
         /\ Committed(d)' <=> Committed(d)
         /\ Committed(d) => /\ call'[d].base = call[d].base /\ call'[d].prof = call[d].prof
                            /\ call'[d].name = call[d].name
  BY DEF Committed
<1>2. Registered' = Registered /\ Profiles' = Profiles
  BY DEF RowsStay, Registered, Profiles
<1>3. \A d \in Calls : Committed(d) => call[d].prof \in Ids
  BY AccountsAssumption DEF Committed, CallInv, CallsTyped, Locals, Local, Call
<1>. QED
  BY <1>1, <1>2, <1>3 DEF Rows, RowsStay

\* A step after which no sign-up is newly sure of its name keeps OneClaim.
LEMMA OneClaimKept ==
    ASSUME OneClaim,
           \A d \in Calls : Claims(d)' => Claims(d) /\ call'[d].name = call[d].name
    PROVE  OneClaim'
BY DEF OneClaim

\* The account that a sign-up makes is a new one.
LEMMA CreateUserRows ==
    ASSUME AccountInv, NEW c \in Calls, CreateUser(c)
    PROVE  Rows' /\ OneClaim'
<1>1. call[c] # Null /\ call[c].step = "commit" /\ call[c] \in Call /\ Local(call[c])
  BY DEF CreateUser, At, AccountInv, CallInv, CallsTyped, Locals
<1>2. /\ call[c].op = "signup" /\ call[c].base \in Ids /\ call[c].prof \in Ids
      /\ call[c].base # Null /\ call[c].prof # Null
      /\ call[c].name \in Names /\ call[c].access = Null
  BY <1>1 DEF Local, Call, StepsOf, SignupSteps
<1>3. PICK u \in Ids :
         /\ Issue(u, "access", AccessTTL, now) \in Token
         /\ Becomes(c, call[c].base, call[c].prof, Issue(u, "access", AccessTTL, now),
                    Issue(u, "refresh", RefreshTTL, now), "ok")
  BY Speaks DEF AccountInv
<1>4. /\ call'[c].op = "signup" /\ call'[c].access # Null /\ call'[c].base = call[c].base
      /\ call'[c].prof = call[c].prof /\ call'[c].name = call[c].name
      /\ call'[c] # Null
      /\ \A d \in Calls \ {c} : call'[d] = call[d]
  BY <1>2, <1>3, AccountsAssumption DEF Becomes
<1>5. ASSUME NEW d \in Calls, Committed(d)
      PROVE  /\ d # c /\ call[d].base # call[c].base /\ call[d].prof # call[c].prof
             /\ call[d].base \in Ids /\ call[d].prof \in Ids
  <2>1. d # c
    BY <1>2, <1>5 DEF Committed
  <2>2. call[d] \in Call /\ Local(call[d])
    BY <1>5 DEF Committed, AccountInv, CallInv, CallsTyped, Locals
  <2>3. call[d].base # Null /\ call[d].prof # Null
    BY <1>5, <2>2 DEF Committed, Local
  <2>4. {c, d} \subseteq Drawn /\ {c, d} \subseteq DrawnTwice
    BY <1>1, <1>2, <1>5, <2>3 DEF Committed, Drawn, DrawnTwice
  <2>. QED
    BY <2>1, <2>2, <2>3, <2>4 DEF AccountInv, CallInv, Distinct, Call
<1>6. /\ base_profile' = [base_profile EXCEPT ![call[c].base] = call[c].name]
      /\ profile' = [profile EXCEPT ![call[c].prof] = NewProfile(call[c].base)]
  BY DEF CreateUser
<1>7. /\ base_profile \in [Ids -> Names \cup {NoRow}]
      /\ profile \in [Ids -> ProfileRow \cup {NoRow}]
  BY DEF AccountInv, CallInv, Tables
<1>8. NewProfile(call[c].base) # NoRow /\ NewProfile(call[c].base).base_profile_id = call[c].base
      /\ call[c].name # NoRow
  <2>1. NewProfile(call[c].base) \in ProfileRow
    BY <1>2 DEF NewProfile, ProfileRow
  <2>. QED
    BY <1>2, <2>1, AccountsAssumption DEF NewProfile
<1>9. \A d \in Calls : Committed(d)' <=> Committed(d) \/ d = c
  BY <1>4 DEF Committed
<1>10. \A d \in Calls : Committed(d) =>
          call'[d].base = call[d].base /\ call'[d].prof = call[d].prof
             /\ call'[d].name = call[d].name
  BY <1>4, <1>5
<1>11. ASSUME NEW d \in Calls, Committed(d)'
       PROVE  /\ base_profile'[call'[d].base] = call'[d].name
              /\ profile'[call'[d].prof] # NoRow
              /\ profile'[call'[d].prof].base_profile_id = call'[d].base
  <2>1. CASE d = c
    BY <1>2, <1>4, <1>6, <1>7, <1>8, <2>1
  <2>2. CASE d # c
    <3>1. Committed(d)
      BY <1>9, <1>11, <2>2
    <3>. QED
      BY <1>2, <1>5, <1>6, <1>7, <1>10, <3>1 DEF AccountInv, Rows
  <2>. QED
    BY <2>1, <2>2
<1>12. ASSUME NEW b \in Registered'
       PROVE  \E d \in Calls : Committed(d)' /\ call'[d].base = b
  <2>1. CASE b = call[c].base
    BY <1>4, <1>9, <2>1
  <2>2. CASE b # call[c].base
    <3>1. b \in Registered
      BY <1>2, <1>6, <1>7, <2>2 DEF Registered
    <3>. QED
      BY <1>9, <1>10, <3>1 DEF AccountInv, Rows
  <2>. QED
    BY <2>1, <2>2
<1>13. ASSUME NEW p \in Profiles'
       PROVE  \E d \in Calls : Committed(d)' /\ call'[d].prof = p
  <2>1. CASE p = call[c].prof
    BY <1>4, <1>9, <2>1
  <2>2. CASE p # call[c].prof
    <3>1. p \in Profiles
      BY <1>2, <1>6, <1>7, <2>2 DEF Profiles
    <3>. QED
      BY <1>9, <1>10, <3>1 DEF AccountInv, Rows
  <2>. QED
    BY <2>1, <2>2
<1>14. Rows'
  BY <1>11, <1>12, <1>13 DEF Rows
<1>15. \A d \in Calls : Claims(d)' => Claims(d) /\ call'[d].name = call[d].name
  BY <1>1, <1>2, <1>4 DEF Claims
<1>16. OneClaim'
  BY <1>15, OneClaimKept DEF AccountInv
<1>. QED
  BY <1>14, <1>16

\* The unique index lets a sign-up on only if nobody is sure of its name.
LEMMA IndexClaims ==
    ASSUME AccountInv, NEW c \in Calls, UniqueIndex(c)
    PROVE  OneClaim'
<1>1. call[c] # Null /\ call[c].step = "index" /\ call[c] \in Call /\ Local(call[c])
  BY DEF UniqueIndex, At, AccountInv, CallInv, CallsTyped, Locals
<1>2. call[c].op = "signup" /\ call[c].access = Null /\ call[c].name \in Names
  BY <1>1 DEF Local, Call, StepsOf, SignupSteps
<1>3. CASE Goto(c, "error")
  <2>1. Moves(c, "error")
    BY <1>1, <1>3, GotoMoves DEF Steps, AccountInv, CallInv
  <2>2. \A d \in Calls : Claims(d)' => Claims(d) /\ call'[d].name = call[d].name
    BY <1>1, <1>2, <2>1 DEF Claims, Moves, Becomes
  <2>. QED
    BY <2>2, OneClaimKept DEF AccountInv
<1>4. CASE /\ Goto(c, "profile")
           /\ \A b \in Registered : base_profile[b] # call[c].name
  <2>1. Moves(c, "profile")
    BY <1>1, <1>4, GotoMoves DEF Steps, Working, AccountInv, CallInv
  <2>2. \A d \in Calls \ {c} :
           /\ Claims(d)' => Claims(d)
           /\ call'[d].name = call[d].name
    BY <2>1 DEF Claims, Moves, Becomes
  <2>3. call'[c].name = call[c].name
    BY <2>1 DEF Moves, Becomes
  <2>4. ASSUME NEW d \in Calls, Claims(d), call[d].name = call[c].name
        PROVE  FALSE
    <3>1. CASE call[d].step \in {"profile", "commit"}
      BY <2>4, <3>1 DEF UniqueIndex, Holders, At, Claims
    <3>2. CASE call[d].access # Null
      <4>1. Committed(d)
        BY <2>4, <3>2 DEF Claims, Committed
      <4>2. base_profile[call[d].base] = call[c].name
        BY <2>4, <4>1 DEF AccountInv, Rows
      <4>3. call[d].base \in Ids
        BY <4>1, AccountsAssumption
        DEF Committed, AccountInv, CallInv, CallsTyped, Locals, Local, Call
      <4>4. call[d].base \in Registered
        BY <1>2, <4>2, <4>3, AccountsAssumption DEF Registered
      <4>. QED
        BY <1>4, <4>2, <4>4
    <3>. QED
      BY <2>4, <3>1, <3>2 DEF Claims
  <2>. QED
    BY <2>2, <2>3, <2>4 DEF AccountInv, OneClaim
<1>. QED
  BY <1>3, <1>4 DEF UniqueIndex

LEMMA AccountStep == AccountInv /\ [Next]_vars => AccountInv'
<1>. SUFFICES ASSUME AccountInv, [Next]_vars PROVE AccountInv'
  OBVIOUS
<1>0. CallInv /\ Rows /\ OneClaim
  BY DEF AccountInv
<1>1. CallInv'
  BY <1>0, CallStep
<1>2. \A d \in Calls : call[d] # Null => call[d] \in Call /\ Local(call[d])
  BY <1>0 DEF CallInv, CallsTyped, Locals
<1>3. CASE Still
  <2>1. RowsStay
    BY <1>3 DEF Still, RowsStay
  <2>2. Rows'
    BY <1>0, <1>3, <2>1, RowsKept DEF Still
  <2>3. OneClaim'
    BY <1>0, <1>3, OneClaimKept DEF Still, Claims
  <2>. QED
    BY <1>1, <2>2, <2>3 DEF AccountInv
<1>4. ASSUME NEW c \in Calls, Send(c)
      PROVE  AccountInv'
  <2>1. Begins(c)
    BY <1>0, <1>4, SendBegins DEF CallInv
  <2>2. RowsStay
    BY <1>0, <1>4, ProfilesStay
  <2>3. ~Committed(c) /\ ~Committed(c)'
    BY <2>1 DEF Begins, Committed
  <2>4. Rows'
    BY <1>0, <2>1, <2>2, <2>3, RowsKept DEF Begins
  <2>5. call'[c].step \notin {"profile", "commit"}
    <3>1. call'[c].op \in {"signup", "login", "refresh", "logout", "update", "upload"}
      BY <2>1 DEF Begins, Call
    <3>. QED
      BY <2>1, <3>1 DEF Begins, FirstStep
  <2>6. ~Claims(c)'
    BY <2>1, <2>5 DEF Begins, Claims
  <2>7. \A d \in Calls : Claims(d)' => Claims(d) /\ call'[d].name = call[d].name
    BY <2>1, <2>6 DEF Begins, Claims
  <2>8. OneClaim'
    BY <1>0, <2>7, OneClaimKept
  <2>. QED
    BY <1>1, <2>4, <2>8 DEF AccountInv
<1>5. ASSUME NEW c \in Calls, Quiet(c)
      PROVE  AccountInv'
  <2>1. call[c] # Null
    BY <1>0, <1>5, QuietMoves DEF CallInv
  <2>2. PICK s \in Steps : Moves(c, s) /\ Leads(call[c].step, s)
    BY <1>0, <1>5, QuietMoves DEF CallInv
  <2>3. RowsStay
    BY <1>0, <1>5, ProfilesStay
  <2>4. Committed(c)' <=> Committed(c)
    BY <2>1, <2>2, AccountsAssumption DEF Committed, Moves, Becomes
  <2>5. Rows'
    BY <1>0, <2>2, <2>3, <2>4, RowsKept DEF Moves, Becomes
  <2>6. CASE UniqueIndex(c)
    BY <1>1, <2>5, <2>6, IndexClaims DEF AccountInv
  <2>7. CASE ~UniqueIndex(c)
    <3>1. s = "profile" => call[c].step = "index"
      BY <2>2 DEF Leads
    <3>2. call[c].step = "index" => Fail(c)
      BY <1>5, <2>7 DEF Quiet, UserExists, Logout, UpdateProfileInfo, FindInfoByID, PutObject,
         InsertProfileAvatar, Refuse, Answer, At
    <3>3. Fail(c) => s = "error"
      <4>1. ASSUME Fail(c) PROVE s = "error"
        <5>1. Moves(c, "error")
          BY <1>0, <2>1, <4>1, GotoMoves DEF Fail, Steps, CallInv
        <5>. QED
          BY <2>2, <5>1 DEF Moves, Becomes
      <4>. QED
        BY <4>1
    <3>4. s \notin {"profile", "commit"}
      BY <2>2, <3>1, <3>2, <3>3 DEF Leads
    <3>5. \A d \in Calls : Claims(d)' => Claims(d) /\ call'[d].name = call[d].name
      BY <2>1, <2>2, <3>4 DEF Claims, Moves, Becomes
    <3>6. OneClaim'
      BY <1>0, <3>5, OneClaimKept
    <3>. QED
      BY <1>1, <2>5, <3>6 DEF AccountInv
  <2>. QED
    BY <2>6, <2>7
<1>6. ASSUME NEW c \in Calls,
             InsertBaseProfile(c) \/ InsertProfile(c) \/ Login(c) \/ Refresh(c)
      PROVE  AccountInv'
  <2>1. RowsStay
    BY <1>0, <1>6, ProfilesStay
  <2>2. call[c] # Null /\ call[c].step \in {"base", "profile", "find", "refresh"}
    BY <1>6 DEF InsertBaseProfile, InsertProfile, Login, Refresh, At
  <2>3. call[c].access = Null /\ (call[c].op = "signup" => call[c].step \in {"base", "profile"})
    BY <1>2, <2>2 DEF Local, Call, StepsOf, SignupSteps
  <2>4. /\ \A d \in Calls \ {c} : call'[d] = call[d]
        /\ call'[c].op = call[c].op /\ call'[c].name = call[c].name
        /\ call'[c].op = "signup" => call'[c].access = Null
        /\ call'[c].op = "signup" /\ call'[c].step \in {"profile", "commit"}
              => call[c].step = "profile"
    <3>1. CASE InsertBaseProfile(c)
      BY <1>0, <2>3, <3>1, InsertsBase DEF Becomes
    <3>2. CASE InsertProfile(c)
      BY <1>0, <2>3, <3>2, InsertsProfile DEF Becomes
    <3>3. CASE Login(c)
      <4>1. PICK u \in Ids :
               Becomes(c, call[c].base, call[c].prof, Issue(u, "access", AccessTTL, now),
                       Issue(u, "refresh", RefreshTTL, now), "ok")
        BY <1>0, <3>3, Speaks
      <4>2. call[c].op # "signup"
        BY <2>3, <3>3 DEF Login, At
      <4>. QED
        BY <4>1, <4>2 DEF Becomes
    <3>4. CASE Refresh(c)
      <4>1. PICK a \in Token : Becomes(c, call[c].base, call[c].prof, a, call[c].refresh, "ok")
        BY <1>0, <3>4, RefreshSpeaks
      <4>2. call[c].op # "signup"
        BY <2>3, <3>4 DEF Refresh, At
      <4>. QED
        BY <4>1, <4>2 DEF Becomes
    <3>. QED
      BY <1>6, <3>1, <3>2, <3>3, <3>4
  <2>5. ~Committed(c) /\ ~Committed(c)'
    BY <2>3, <2>4 DEF Committed
  <2>6. Rows'
    BY <1>0, <2>1, <2>4, <2>5, RowsKept
  <2>7. \A d \in Calls : Claims(d)' => Claims(d) /\ call'[d].name = call[d].name
    BY <2>2, <2>4 DEF Claims
  <2>8. OneClaim'
    BY <1>0, <2>7, OneClaimKept
  <2>. QED
    BY <1>1, <2>6, <2>8 DEF AccountInv
<1>7. ASSUME NEW c \in Calls, CreateUser(c)
      PROVE  AccountInv'
  BY <1>1, <1>7, CreateUserRows DEF AccountInv
<1>. QED
  BY <1>3, <1>4, <1>5, <1>6, <1>7, Kinds

LEMMA AccountStarts == Init => AccountInv
<1>. SUFFICES ASSUME Init PROVE AccountInv
  OBVIOUS
<1>1. CallInv
  BY CallStarts
<1>2. \A c \in Calls : ~Committed(c) /\ ~Claims(c)
  BY DEF Init, Committed, Claims
<1>3. Registered = {} /\ Profiles = {}
  BY DEF Init, Registered, Profiles
<1>. QED
  BY <1>1, <1>2, <1>3 DEF AccountInv, Rows, OneClaim

LEMMA AccountInvariant == Spec => []AccountInv
  BY AccountStarts, AccountStep, PTL DEF Spec

\* The numbers that sign-ups draw, also those that then fail, stay within the
\* number of requests, and each cookie holds a token of its own type.
THEOREM TypeCorrect == Spec => []TypeOK
<1>1. CallInv => TypeOK
  BY Bounds DEF CallInv, CallsTyped, Tables, Jars, TypeOK
<1>. QED
  BY <1>1, CallInvariant, PTL

\* However many sign-ups ask for one name, after all of them were told that it
\* is free, one gets it: the unique index sees both the accounts and the rows
\* of open transactions.
THEOREM OneWinnerHolds == Spec => []OneWinner
<1>1. AccountInv => OneWinner
  <2>. SUFFICES ASSUME AccountInv,
                       NEW c \in Calls, NEW d \in Calls, Committed(c), Committed(d),
                       call[c].name = call[d].name
                PROVE  c = d
    BY DEF OneWinner, Committed
  <2>1. Claims(c) /\ Claims(d)
    BY DEF Committed, Claims
  <2>. QED
    BY <2>1 DEF AccountInv, OneClaim
<1>. QED
  BY <1>1, AccountInvariant, PTL

\* A sign-up that fails leaves nothing behind but a gap in the numbers: rows of
\* base_profile and of profile belong together one to one.
THEOREM AccountsCompleteHold == Spec => []AccountsComplete
<1>1. ASSUME AccountInv PROVE AccountsComplete
  <2>1. ASSUME NEW c \in Calls, Committed(c)
        PROVE  /\ call[c].base \in Registered /\ call[c].prof \in Profiles
               /\ profile[call[c].prof].base_profile_id = call[c].base
               /\ c \in Drawn
    <3>1. call[c] \in Call /\ Local(call[c])
      BY <1>1, <2>1 DEF Committed, AccountInv, CallInv, CallsTyped, Locals
    <3>2. /\ call[c].base # Null /\ call[c].prof # Null
          /\ call[c].base \in Ids /\ call[c].prof \in Ids /\ call[c].name \in Names
      BY <2>1, <3>1 DEF Committed, Local, Call
    <3>3. NoRow \notin Names
      BY AccountsAssumption
    <3>. QED
      BY <1>1, <2>1, <3>2, <3>3 DEF Committed, AccountInv, Rows, Registered, Profiles, Drawn
  <2>2. ASSUME NEW b \in Registered
        PROVE  \E p \in Profiles : profile[p].base_profile_id = b
    <3>1. PICK c \in Calls : Committed(c) /\ call[c].base = b
      BY <1>1 DEF AccountInv, Rows
    <3>. QED
      BY <2>1, <3>1
  <2>3. ASSUME NEW p \in Profiles
        PROVE  \E c \in Calls : Committed(c) /\ call[c].prof = p
    BY <1>1 DEF AccountInv, Rows
  <2>4. \A p \in Profiles : profile[p].base_profile_id \in Registered
    BY <2>1, <2>3
  <2>5. ASSUME NEW p \in Profiles, NEW q \in Profiles,
               profile[p].base_profile_id = profile[q].base_profile_id
        PROVE  p = q
    <3>1. PICK c \in Calls : Committed(c) /\ call[c].prof = p
      BY <2>3
    <3>2. PICK d \in Calls : Committed(d) /\ call[d].prof = q
      BY <2>3
    <3>3. call[c].base = call[d].base
      BY <2>1, <2>5, <3>1, <3>2
    <3>4. c = d
      BY <1>1, <2>1, <3>1, <3>2, <3>3 DEF AccountInv, CallInv, Distinct
    <3>. QED
      BY <3>1, <3>2, <3>4
  <2>. QED
    BY <2>2, <2>4, <2>5 DEF AccountsComplete
<1>2. AccountInv => AccountsComplete
  BY <1>1
<1>. QED
  BY <1>2, AccountInvariant, PTL

-----------------------------------------------------------------------------
(* Tokens. *)

\* Request c has been sent before and keeps the variables that no step changes.
Remains(c) ==
    /\ call[c] # Null
    /\ call'[c].op = call[c].op /\ call'[c].browser = call[c].browser
    /\ call'[c].name = call[c].name /\ call'[c].token = call[c].token

AnswerKept(c) == call'[c].access = call[c].access /\ call'[c].refresh = call[c].refresh

\* The answer of a sign-up or a login, and that of a refresh.
PairIssued(c) ==
    /\ CreateUser(c) \/ Login(c)
    /\ call[c].step \in {"commit", "find"}
    /\ \E u \in Ids :
         /\ CreateUser(c) => u = call[c].base
         /\ Login(c) => base_profile[u] = call[c].name
         /\ call'[c].access = Issue(u, "access", AccessTTL, now)
         /\ call'[c].refresh = Issue(u, "refresh", RefreshTTL, now)

AccessIssued(c) ==
    /\ Refresh(c) /\ call[c].op = "refresh"
    /\ call[c].token \in Token /\ CheckSession(call[c].token, "refresh")
    /\ \E a \in Token :
         /\ a.exp = now + AccessTTL /\ a.since = call[c].token.since
         /\ call'[c].access = a /\ call'[c].refresh = call[c].refresh

LEMMA Answers ==
    ASSUME CallInv, [Next]_vars, NEW c \in Calls, call'[c] # Null
    PROVE  \/ Begins(c)
           \/ Remains(c) /\ (AnswerKept(c) \/ PairIssued(c) \/ AccessIssued(c))
<1>1. CASE call'[c] = call[c]
  BY <1>1 DEF Remains, AnswerKept
<1>2. CASE call'[c] # call[c]
  <2>1. ~Still
    BY <1>2 DEF Still
  <2>2. PICK d \in Calls :
           \/ Send(d) \/ Quiet(d) \/ InsertBaseProfile(d) \/ InsertProfile(d)
           \/ CreateUser(d) \/ Login(d) \/ Refresh(d)
    BY <2>1, Kinds
  <2>3. CASE Send(d)
    <3>1. Begins(d)
      BY <2>3, SendBegins DEF CallInv
    <3>. QED
      BY <1>2, <3>1 DEF Begins
  <2>4. CASE Quiet(d)
    <3>1. call[d] # Null /\ \E s \in Steps : Moves(d, s) /\ Leads(call[d].step, s)
      BY <2>4, QuietMoves DEF CallInv
    <3>. QED
      BY <1>2, <3>1 DEF Moves, Becomes, Remains, AnswerKept
  <2>5. CASE InsertBaseProfile(d)
    BY <1>2, <2>5, InsertsBase DEF Becomes, Remains, AnswerKept
  <2>6. CASE InsertProfile(d)
    BY <1>2, <2>6, InsertsProfile DEF Becomes, Remains, AnswerKept
  <2>7. CASE CreateUser(d) \/ Login(d)
    <3>1. call[d] # Null /\ call[d].step \in {"commit", "find"}
      BY <2>7, Speaks
    <3>2. PICK u \in Ids :
             /\ CreateUser(d) => u = call[d].base
             /\ Login(d) => base_profile[u] = call[d].name
             /\ Becomes(d, call[d].base, call[d].prof, Issue(u, "access", AccessTTL, now),
                        Issue(u, "refresh", RefreshTTL, now), "ok")
      BY <2>7, Speaks
    <3>3. d = c
      BY <1>2, <3>2 DEF Becomes
    <3>4. PairIssued(d)
      BY <2>7, <3>1, <3>2 DEF PairIssued, Becomes
    <3>5. Remains(d)
      BY <3>1, <3>2 DEF Remains, Becomes
    <3>. QED
      BY <3>3, <3>4, <3>5
  <2>8. CASE Refresh(d)
    <3>1. /\ call[d] # Null /\ call[d].op = "refresh"
          /\ call[d].token \in Token /\ CheckSession(call[d].token, "refresh")
      BY <2>8, RefreshSpeaks
    <3>2. PICK a \in Token :
             /\ a.exp = now + AccessTTL /\ a.since = call[d].token.since
             /\ Becomes(d, call[d].base, call[d].prof, a, call[d].refresh, "ok")
      BY <2>8, RefreshSpeaks
    <3>3. d = c
      BY <1>2, <3>2 DEF Becomes
    <3>4. AccessIssued(d)
      BY <2>8, <3>1, <3>2 DEF AccessIssued, Becomes
    <3>5. Remains(d)
      BY <3>1, <3>2 DEF Remains, Becomes
    <3>. QED
      BY <3>3, <3>4, <3>5
  <2>. QED
    BY <2>2, <2>3, <2>4, <2>5, <2>6, <2>7, <2>8
<1>. QED
  BY <1>1, <1>2

\* What becomes of the cookies of a browser.
LEMMA JarAnswered ==
    ASSUME CallInv, NEW c \in Calls, Answer(c)
    PROVE  /\ call[c] # Null /\ call[c].step = "ok" /\ call[c] \in Call /\ Local(call[c])
           /\ \A b \in Browsers \ {call[c].browser} : jar'[b] = jar[b]
           /\ call[c].op \in {"signup", "login"} =>
                 /\ jar'[call[c].browser].access = call[c].access
                 /\ jar'[call[c].browser].refresh = call[c].refresh
           /\ call[c].op = "refresh" =>
                 /\ jar'[call[c].browser].access = call[c].access
                 /\ jar'[call[c].browser].refresh = jar[call[c].browser].refresh
           /\ call[c].op = "logout" =>
                 /\ jar'[call[c].browser].access = Null
                 /\ jar'[call[c].browser].refresh = Null
           /\ call[c].op \in {"update", "upload"} =>
                 jar'[call[c].browser] = jar[call[c].browser]
<1>1. /\ call[c] # Null /\ call[c].step = "ok" /\ call[c] \in Call /\ Local(call[c])
      /\ jar \in [Browsers -> [access : Token \cup {Null}, refresh : Token \cup {Null}]]
  BY DEF Answer, At, CallInv, CallsTyped, Locals, Jars
<1>2. call[c].browser \in Browsers
  BY <1>1 DEF Call
<1>. QED
  BY <1>1, <1>2 DEF Answer

LEMMA JarsKept ==
    ASSUME CallInv, [Next]_vars, \A c \in Calls : ~Answer(c)
    PROVE  jar' = jar
BY DEF Next, Step, Signup, vars, Tick, Send, UserExists, InsertBaseProfile, UniqueIndex,
   InsertProfile, CreateUser, Login, Refresh, Logout, UpdateProfileInfo, FindInfoByID,
   PutObject, InsertProfileAvatar, Refuse, Fail

LEMMA NamesStep ==
    ASSUME AccountInv, TokenNamesItsAccount, [Next]_vars
    PROVE  TokenNamesItsAccount'
<1>. SUFFICES ASSUME NEW c \in Calls, call'[c] # Null, call'[c].op \in {"signup", "login"},
                     call'[c].access # Null
              PROVE  /\ base_profile'[call'[c].access.user] = call'[c].name
                     /\ call'[c].refresh.user = call'[c].access.user
  BY DEF TokenNamesItsAccount
<1>0. CallInv
  BY DEF AccountInv
<1>1. Remains(c) /\ (AnswerKept(c) \/ PairIssued(c) \/ AccessIssued(c))
  <2>1. ~Begins(c)
    BY DEF Begins
  <2>. QED
    BY <1>0, <2>1, Answers
<1>2. /\ call'[c].refresh.user = call'[c].access.user
      /\ call'[c].access.user \in Ids
      /\ \/ base_profile[call'[c].access.user] = call[c].name
         \/ CreateUser(c) /\ call'[c].access.user = call[c].base
  <2>1. CASE AnswerKept(c)
    <3>1. call[c].access \in Token
      BY <1>0, <1>1, <2>1 DEF AnswerKept, Remains, CallInv, CallsTyped, Call
    <3>. QED
      BY <1>1, <2>1, <3>1 DEF AnswerKept, Remains, TokenNamesItsAccount, Token
  <2>2. CASE PairIssued(c)
    <3>1. PICK u \in Ids :
             /\ CreateUser(c) => u = call[c].base
             /\ Login(c) => base_profile[u] = call[c].name
             /\ call'[c].access = Issue(u, "access", AccessTTL, now)
             /\ call'[c].refresh = Issue(u, "refresh", RefreshTTL, now)
      BY <2>2 DEF PairIssued
    <3>2. call'[c].access.user = u /\ call'[c].refresh.user = u
      BY <3>1 DEF Issue
    <3>. QED
      BY <2>2, <3>1, <3>2 DEF PairIssued
  <2>3. ~AccessIssued(c)
    BY <1>1 DEF AccessIssued, Remains
  <2>. QED
    BY <1>1, <2>1, <2>2, <2>3
<1>3. CASE \A d \in Calls : ~CreateUser(d)
  <2>1. base_profile' = base_profile
    BY <1>3 DEF Next, Step, Signup, vars, Tick, Send, UserExists, InsertBaseProfile, UniqueIndex,
       InsertProfile, Login, Refresh, Logout, UpdateProfileInfo, FindInfoByID,
       PutObject, InsertProfileAvatar, Refuse, Fail, Answer
  <2>. QED
    BY <1>1, <1>2, <1>3, <2>1 DEF Remains
<1>4. ASSUME NEW d \in Calls, CreateUser(d)
      PROVE  base_profile'[call'[c].access.user] = call'[c].name
  <2>1. /\ call[d] # Null /\ call[d].step = "commit" /\ call[d] \in Call /\ Local(call[d])
        /\ base_profile' = [base_profile EXCEPT ![call[d].base] = call[d].name]
        /\ base_profile \in [Ids -> Names \cup {NoRow}]
    BY <1>0, <1>4 DEF CreateUser, At, CallInv, CallsTyped, Locals, Tables
  <2>2. call[d].base \in Ids /\ call[d].base # Null /\ call[d].access = Null
    BY <2>1 DEF Local, Call
  <2>3. CASE CreateUser(c) /\ call'[c].access.user = call[c].base
    <3>1. c = d
      <4>1. call'[c].access # call[c].access /\ call'[c] # call[c]
        BY <2>3, <1>0 DEF CreateUser, At, CallInv, Locals, Local
      <4>. QED
        BY <1>0, <1>4, <4>1, Speaks DEF Becomes
    <3>. QED
      BY <1>1, <2>1, <2>2, <2>3, <3>1 DEF Remains
  <2>4. CASE base_profile[call'[c].access.user] = call[c].name
    <3>1. call[c].name \in Names /\ NoRow \notin Names
      BY <1>0, <1>1, AccountsAssumption DEF Remains, CallInv, CallsTyped, Call
    <3>2. call'[c].access.user \in Registered
      BY <1>2, <2>4, <3>1 DEF Registered
    <3>3. PICK e \in Calls : Committed(e) /\ call[e].base = call'[c].access.user
      BY <3>2 DEF AccountInv, Rows
    <3>4. e # d
      BY <2>2, <3>3 DEF Committed
    <3>5. e \in Drawn /\ d \in Drawn
      BY <1>0, <2>1, <2>2, <3>3 DEF Committed, Drawn, CallInv, Locals, Local
    <3>6. call[e].base # call[d].base
      BY <1>0, <3>4, <3>5 DEF CallInv, Distinct
    <3>. QED
      BY <1>1, <1>2, <2>1, <2>2, <2>4, <3>3, <3>6 DEF Remains
  <2>. QED
    BY <1>2, <2>3, <2>4
<1>. QED
  BY <1>2, <1>3, <1>4

\* The tokens that a sign-up or a login is answered name the account of the user
\* name given, whatever numbers failed sign-ups have drawn; no later sign-up
\* gets its row.
THEOREM TokenNamesItsAccountHolds == Spec => []TokenNamesItsAccount
<1>1. Init => TokenNamesItsAccount
  BY DEF Init, TokenNamesItsAccount
<1>. QED
  BY <1>1, AccountInvariant, NamesStep, PTL DEF Spec

\* A token that is good for no longer than span after the password was given.
Lasts(t, span) == t # Null => t.exp <= t.since + span

Sessions ==
    /\ \A b \in Browsers : /\ Lasts(jar[b].access, RefreshTTL + AccessTTL)
                           /\ Lasts(jar[b].refresh, RefreshTTL)
    /\ \A c \in Calls : call[c] # Null =>
          /\ Lasts(call[c].access, RefreshTTL + AccessTTL)
          /\ Lasts(call[c].refresh, RefreshTTL)
          /\ call[c].op = "refresh" => Lasts(call[c].token, RefreshTTL)

LEMMA SessionsStep ==
    ASSUME CallInv, Sessions, [Next]_vars
    PROVE  Sessions'
<1>0. now \in Nat /\ AccessTTL \in Nat /\ RefreshTTL \in Nat
  BY AccountsAssumption DEF CallInv, Tables
<1>1. ASSUME NEW c \in Calls, call'[c] # Null
      PROVE  /\ Lasts(call'[c].access, RefreshTTL + AccessTTL)
             /\ Lasts(call'[c].refresh, RefreshTTL)
             /\ call'[c].op = "refresh" => Lasts(call'[c].token, RefreshTTL)
  <2>1. CASE Begins(c)
    <3>1. Lasts(call'[c].access, RefreshTTL + AccessTTL) /\ Lasts(call'[c].refresh, RefreshTTL)
      BY <2>1 DEF Begins, Lasts
    <3>2. ASSUME call'[c].op = "refresh"
          PROVE  Lasts(call'[c].token, RefreshTTL)
      <4>1. call'[c].browser \in Browsers /\ call'[c].token = jar[call'[c].browser].refresh
        BY <2>1, <3>2 DEF Begins, Cookie
      <4>. QED
        BY <4>1 DEF Sessions
    <3>. QED
      BY <3>1, <3>2
  <2>2. CASE Remains(c) /\ AnswerKept(c)
    BY <2>2 DEF Remains, AnswerKept, Sessions
  <2>3. CASE Remains(c) /\ PairIssued(c)
    <3>1. PICK u \in Ids :
             /\ call'[c].access = Issue(u, "access", AccessTTL, now)
             /\ call'[c].refresh = Issue(u, "refresh", RefreshTTL, now)
      BY <2>3 DEF PairIssued
    <3>2. /\ call'[c].access.exp = now + AccessTTL /\ call'[c].access.since = now
          /\ call'[c].refresh.exp = now + RefreshTTL /\ call'[c].refresh.since = now
      BY <3>1 DEF Issue
    <3>3. Lasts(call'[c].access, RefreshTTL + AccessTTL) /\ Lasts(call'[c].refresh, RefreshTTL)
      BY <1>0, <3>2 DEF Lasts
    <3>. QED
      BY <2>3, <3>3 DEF Remains, Sessions
  <2>4. CASE Remains(c) /\ AccessIssued(c)
    <3>1. PICK a \in Token :
             /\ a.exp = now + AccessTTL /\ a.since = call[c].token.since
             /\ call'[c].access = a /\ call'[c].refresh = call[c].refresh
      BY <2>4 DEF AccessIssued
    <3>2. /\ call[c].token \in Token /\ Lasts(call[c].token, RefreshTTL)
          /\ now < call[c].token.exp
      BY <2>4 DEF AccessIssued, CheckSession, Remains, Sessions
    <3>3. /\ call[c].token.exp \in Nat /\ call[c].token.since \in Nat
          /\ call[c].token.exp <= call[c].token.since + RefreshTTL
      BY <3>2, AccountsAssumption DEF Lasts, Token
    <3>4. a.exp <= a.since + (RefreshTTL + AccessTTL)
      BY <1>0, <3>1, <3>2, <3>3
    <3>. QED
      BY <2>4, <3>1, <3>2, <3>4 DEF Remains, Sessions, Lasts
  <2>. QED
    BY <1>1, <2>1, <2>2, <2>3, <2>4, Answers
<1>2. ASSUME NEW b \in Browsers
      PROVE  Lasts(jar'[b].access, RefreshTTL + AccessTTL) /\ Lasts(jar'[b].refresh, RefreshTTL)
  <2>1. CASE \A c \in Calls : ~Answer(c)
    BY <2>1, JarsKept DEF Sessions
  <2>2. ASSUME NEW c \in Calls, Answer(c)
        PROVE  Lasts(jar'[b].access, RefreshTTL + AccessTTL) /\ Lasts(jar'[b].refresh, RefreshTTL)
    <3>1. call[c].op \in {"signup", "login", "refresh", "logout", "update", "upload"}
      BY <2>2, JarAnswered DEF Call
    <3>2. \/ jar'[b] = jar[b]
          \/ /\ call[c] # Null
             /\ jar'[b].access \in {call[c].access, Null}
             /\ jar'[b].refresh \in {call[c].refresh, jar[b].refresh, Null}
      BY <2>2, <3>1, JarAnswered
    <3>. QED
      BY <3>2 DEF Sessions, Lasts
  <2>. QED
    BY <2>1, <2>2
<1>. QED
  BY <1>1, <1>2 DEF Sessions

\* However often and however late a session is refreshed, its last access token
\* is good for nothing RefreshTTL + AccessTTL after the password was given: a
\* refresh keeps the refresh token and dates nothing back.
THEOREM SessionsEndHolds == Spec => []SessionsEnd
<1>1. Init => Sessions
  BY DEF Init, Sessions, Lasts
<1>2. ASSUME CallInv, Sessions PROVE SessionsEnd
  <2>1. ASSUME NEW b \in Browsers, jar[b].access # Null
        PROVE  jar[b].access.exp <= jar[b].access.since + RefreshTTL + AccessTTL
    <3>1. jar[b].access \in Token
      BY <1>2, <2>1 DEF CallInv, Jars
    <3>. QED
      BY <1>2, <2>1, <3>1, AccountsAssumption DEF Sessions, Lasts, Token
  <2>. QED
    BY <2>1 DEF SessionsEnd
<1>3. CallInv /\ Sessions => SessionsEnd
  BY <1>2
<1>. QED
  BY <1>1, <1>3, CallInvariant, SessionsStep, PTL DEF Spec

-----------------------------------------------------------------------------

LateInv ==
    /\ OnlyALateRefreshRemains
    /\ \A c \in Calls : call[c] # Null /\ call[c].access # Null =>
          call[c].access.exp <= now + AccessTTL
    /\ \A c \in Calls : call[c] # Null /\ call[c].op = "refresh" =>
          \/ jar[call[c].browser].refresh # Null
          \/ \E d \in Calls : At(d, "done") /\ call[d].op = "logout"
                               /\ call[d].browser = call[c].browser

\* A request whose answer has arrived takes no further step.
LEMMA DoneForGood ==
    ASSUME CallInv, [Next]_vars, NEW c \in Calls, At(c, "done")
    PROVE  call'[c] = call[c]
<1>1. SUFFICES ASSUME call'[c] # call[c] PROVE FALSE
  OBVIOUS
<1>2. ~Still
  BY <1>1 DEF Still
<1>3. PICK d \in Calls :
         \/ Send(d) \/ Quiet(d) \/ InsertBaseProfile(d) \/ InsertProfile(d)
         \/ CreateUser(d) \/ Login(d) \/ Refresh(d)
  BY <1>2, Kinds
<1>4. call[c] # Null /\ call[c].step = "done"
  BY DEF At
<1>5. CASE Send(d)
  BY <1>1, <1>4, <1>5, SendBegins DEF CallInv, Begins
<1>6. CASE Quiet(d)
  <2>1. \E s \in Steps : Moves(d, s) /\ Leads(call[d].step, s)
    BY <1>6, QuietMoves DEF CallInv
  <2>. QED
    BY <1>1, <1>4, <2>1 DEF Moves, Becomes, Leads, Working
<1>7. CASE InsertBaseProfile(d)
  BY <1>1, <1>4, <1>7, InsertsBase DEF Becomes
<1>8. CASE InsertProfile(d)
  BY <1>1, <1>4, <1>8, InsertsProfile DEF Becomes
<1>9. CASE CreateUser(d) \/ Login(d)
  BY <1>1, <1>4, <1>9, Speaks DEF Becomes
<1>10. CASE Refresh(d)
  BY <1>1, <1>4, <1>10, RefreshSpeaks DEF Becomes
<1>. QED
  BY <1>3, <1>5, <1>6, <1>7, <1>8, <1>9, <1>10

LEMMA Answered ==
    ASSUME CallInv, NEW c \in Calls, Answer(c)
    PROVE  /\ At(c, "done")' /\ call'[c].op = call[c].op
           /\ call'[c].browser = call[c].browser /\ call'[c].access = call[c].access
<1>1. call[c] # Null /\ Goto(c, "done")
  BY DEF Answer, At
<1>2. Moves(c, "done")
  BY <1>1, GotoMoves DEF Steps, CallInv
<1>. QED
  BY <1>2, AccountsAssumption DEF Moves, Becomes, At

LEMMA TimePasses ==
    ASSUME CallInv, [Next]_vars
    PROVE  now \in Nat /\ now' \in Nat /\ now <= now'
<1>1. now \in Nat
  BY AccountsAssumption DEF CallInv, Tables
<1>2. now' \in {now, now + 1}
  BY DEF Next, Step, Signup, vars, Tick, Send, UserExists, InsertBaseProfile, UniqueIndex,
     InsertProfile, CreateUser, Login, Refresh, Logout, UpdateProfileInfo, FindInfoByID,
     PutObject, InsertProfileAvatar, Refuse, Fail, Answer
<1>. QED
  BY <1>1, <1>2

LEMMA LateStep ==
    ASSUME CallInv, LateInv, [Next]_vars
    PROVE  LateInv'
<1>0. /\ now \in Nat /\ now' \in Nat /\ now <= now' /\ AccessTTL \in Nat
      /\ CallInv' /\ Null \notin Call
  BY CallStep, TimePasses, AccountsAssumption
<1>1. ASSUME NEW c \in Calls, call'[c] # Null, call'[c].access # Null
      PROVE  call'[c].access.exp <= now' + AccessTTL
  <2>0. call'[c].access \in Token /\ call'[c].access.exp \in Nat
    BY <1>0, <1>1 DEF CallInv, CallsTyped, Call, Token
  <2>1. ~Begins(c)
    BY <1>1 DEF Begins
  <2>2. CASE Remains(c) /\ AnswerKept(c)
    <3>1. call'[c].access.exp <= now + AccessTTL
      BY <1>1, <2>2 DEF Remains, AnswerKept, LateInv
    <3>. QED
      BY <1>0, <2>0, <3>1
  <2>3. CASE PairIssued(c) \/ AccessIssued(c)
    <3>1. ASSUME NEW u \in Ids, call'[c].access = Issue(u, "access", AccessTTL, now)
          PROVE  call'[c].access.exp = now + AccessTTL
      BY <3>1 DEF Issue
    <3>2. call'[c].access.exp = now + AccessTTL
      BY <2>3, <3>1 DEF PairIssued, AccessIssued
    <3>3. ASSUME NEW m \in Nat, NEW n \in Nat, NEW ttl \in Nat, m <= n
          PROVE  m + ttl <= n + ttl
      BY <3>3
    <3>. QED
      BY <1>0, <3>2, <3>3
  <2>. QED
    BY <1>1, <2>1, <2>2, <2>3, Answers
<1>2. ASSUME NEW b \in Browsers,
             \E d \in Calls : At(d, "done") /\ call[d].op = "logout" /\ call[d].browser = b
      PROVE  \E d \in Calls : At(d, "done")' /\ call'[d].op = "logout" /\ call'[d].browser = b
  BY <1>2, DoneForGood DEF At
<1>3. ASSUME NEW c \in Calls, call'[c] # Null, call'[c].op = "refresh"
      PROVE  \/ jar'[call'[c].browser].refresh # Null
             \/ \E d \in Calls : At(d, "done")' /\ call'[d].op = "logout"
                                  /\ call'[d].browser = call'[c].browser
  <2>. DEFINE b == call'[c].browser
  <2>0. b \in Browsers /\ call'[c].token # Null
    BY <1>0, <1>3 DEF CallInv, CallsTyped, Call, Locals, Local
  <2>1. \/ jar[b].refresh # Null
        \/ \E d \in Calls : At(d, "done") /\ call[d].op = "logout" /\ call[d].browser = b
    <3>1. CASE Begins(c)
      BY <1>3, <2>0, <3>1 DEF Begins, Cookie
    <3>2. CASE Remains(c)
      BY <1>3, <3>2 DEF Remains, LateInv
    <3>. QED
      BY <1>3, <3>1, <3>2, Answers
  <2>2. CASE \A e \in Calls : ~Answer(e)
    BY <1>2, <2>0, <2>1, <2>2, JarsKept
  <2>3. ASSUME NEW e \in Calls, Answer(e)
        PROVE  \/ jar'[b].refresh # Null
               \/ \E d \in Calls : At(d, "done")' /\ call'[d].op = "logout"
                                    /\ call'[d].browser = b
    <3>0. call[e].op \in {"signup", "login", "refresh", "logout", "update", "upload"}
      BY <2>3, JarAnswered DEF Call
    <3>1. CASE call[e].op = "logout" /\ call[e].browser = b
      BY <2>3, <3>1, Answered
    <3>2. CASE call[e].op \in {"signup", "login"} /\ call[e].browser = b
      BY <2>3, <3>2, JarAnswered DEF Local
    <3>3. CASE call[e].browser # b \/ call[e].op \in {"refresh", "update", "upload"}
      <4>1. jar'[b].refresh = jar[b].refresh
        BY <2>0, <2>3, <3>3, JarAnswered
      <4>. QED
        BY <1>2, <2>0, <2>1, <4>1
    <3>. QED
      BY <3>0, <3>1, <3>2, <3>3
  <2>. QED
    BY <2>2, <2>3
<1>4. ASSUME NEW b \in Browsers, jar'[b].access # Null, jar'[b].refresh = Null
      PROVE  /\ \E c, d \in Calls :
                   /\ At(c, "done")' /\ call'[c].op = "refresh" /\ call'[c].browser = b
                   /\ call'[c].access = jar'[b].access
                   /\ At(d, "done")' /\ call'[d].op = "logout" /\ call'[d].browser = b
             /\ jar'[b].access.exp <= now' + AccessTTL
  <2>0. jar'[b].access \in Token /\ jar'[b].access.exp \in Nat
    BY <1>0, <1>4 DEF CallInv, Jars, Token
  <2>1. CASE jar'[b] = jar[b]
    <3>1. PICK c \in Calls, d \in Calls :
             /\ At(c, "done") /\ call[c].op = "refresh" /\ call[c].browser = b
             /\ call[c].access = jar[b].access
             /\ At(d, "done") /\ call[d].op = "logout" /\ call[d].browser = b
      BY <1>4, <2>1 DEF LateInv, OnlyALateRefreshRemains
    <3>2. call'[c] = call[c] /\ call'[d] = call[d]
      BY <3>1, DoneForGood
    <3>3. jar[b].access.exp <= now + AccessTTL
      BY <1>4, <2>1 DEF LateInv, OnlyALateRefreshRemains
    <3>4. jar'[b].access.exp <= now' + AccessTTL
      BY <1>0, <2>0, <2>1, <3>3
    <3>. QED
      BY <2>1, <3>1, <3>2, <3>4 DEF At
  <2>2. CASE jar'[b] # jar[b]
    <3>1. PICK c \in Calls : Answer(c)
      BY <2>2, JarsKept
    <3>2. call[c].browser = b /\ call[c] # Null
      BY <2>2, <3>1, JarAnswered
    <3>3. call[c].op = "refresh"
      <4>1. call[c].op \in {"signup", "login", "refresh", "logout", "update", "upload"}
        BY <3>1, JarAnswered DEF Call
      <4>2. call[c].op \notin {"signup", "login"}
        BY <1>4, <3>1, <3>2, JarAnswered DEF Local
      <4>. QED
        BY <1>4, <2>2, <3>1, <3>2, <4>1, <4>2, JarAnswered
    <3>4. /\ jar'[b].access = call[c].access /\ jar[b].refresh = Null
      BY <1>4, <3>1, <3>2, <3>3, JarAnswered
    <3>5. /\ At(c, "done")' /\ call'[c].op = "refresh" /\ call'[c].browser = b
          /\ call'[c].access = jar'[b].access
      BY <3>1, <3>2, <3>3, <3>4, Answered
    <3>6. \E d \in Calls : At(d, "done")' /\ call'[d].op = "logout" /\ call'[d].browser = b
      BY <1>2, <3>2, <3>3, <3>4 DEF LateInv
    <3>7. jar'[b].access.exp <= now' + AccessTTL
      BY <1>1, <1>4, <3>5 DEF At
    <3>. QED
      BY <3>5, <3>6, <3>7
  <2>. QED
    BY <2>1, <2>2
<1>5. OnlyALateRefreshRemains'
  BY <1>4 DEF OnlyALateRefreshRemains
<1>. QED
  BY <1>1, <1>3, <1>5 DEF LateInv

\* A logout leaves a browser without tokens, except for the access token that a
\* refresh sent before it brings back; that one ends by itself.
THEOREM OnlyALateRefreshRemainsHolds == Spec => []OnlyALateRefreshRemains
<1>1. Init => LateInv
  BY DEF Init, LateInv, OnlyALateRefreshRemains
<1>2. LateInv => OnlyALateRefreshRemains
  BY DEF LateInv
<1>. QED
  BY <1>1, <1>2, CallInvariant, LateStep, PTL DEF Spec

-----------------------------------------------------------------------------

\* What an upload writes into the row has been stored before.
Stored ==
    /\ AvatarIsStored
    /\ \A c \in Calls : At(c, "save") => <<call[c].token.user, c>> \in objects

LEMMA StoredStep ==
    ASSUME CallInv, Stored, [Next]_vars
    PROVE  Stored'
<1>0. /\ CallInv'
      /\ profile \in [Ids -> ProfileRow \cup {NoRow}]
      /\ Null \notin Ids /\ NoRow \notin ProfileRow
  BY CallStep, AccountsAssumption DEF CallInv, Tables
<1>1. objects \subseteq objects'
  BY DEF Next, Step, Signup, vars, Tick, Send, UserExists, InsertBaseProfile, UniqueIndex,
     InsertProfile, CreateUser, Login, Refresh, Logout, UpdateProfileInfo, FindInfoByID,
     PutObject, InsertProfileAvatar, Refuse, Fail, Answer
<1>2. ASSUME NEW c \in Calls, At(c, "save")'
      PROVE  <<call'[c].token.user, c>> \in objects'
  <2>1. CASE call'[c] = call[c]
    BY <1>1, <1>2, <2>1 DEF At, Stored
  <2>2. CASE call'[c] # call[c]
    <3>1. ~Still
      BY <2>2 DEF Still
    <3>2. PICK d \in Calls :
             \/ Send(d) \/ Quiet(d) \/ InsertBaseProfile(d) \/ InsertProfile(d)
             \/ CreateUser(d) \/ Login(d) \/ Refresh(d)
      BY <3>1, Kinds
    <3>3. ~Send(d)
      <4>. SUFFICES ASSUME Send(d) PROVE FALSE
        OBVIOUS
      <4>1. Begins(d) /\ d = c
        BY <2>2, SendBegins DEF CallInv, Begins
      <4>2. call'[c].op \in {"signup", "login", "refresh", "logout", "update", "upload"}
        BY <4>1 DEF Begins, Call
      <4>. QED
        BY <1>2, <4>1, <4>2 DEF At, Begins, FirstStep
    <3>4. ~(InsertBaseProfile(d) \/ InsertProfile(d) \/ CreateUser(d) \/ Login(d) \/ Refresh(d))
      <4>1. ~InsertBaseProfile(d)
        BY <1>2, <2>2, InsertsBase DEF At, Becomes
      <4>2. ~InsertProfile(d)
        BY <1>2, <2>2, InsertsProfile DEF At, Becomes
      <4>3. ~CreateUser(d) /\ ~Login(d)
        BY <1>2, <2>2, Speaks DEF At, Becomes
      <4>4. ~Refresh(d)
        BY <1>2, <2>2, RefreshSpeaks DEF At, Becomes
      <4>. QED
        BY <4>1, <4>2, <4>3, <4>4
    <3>5. Quiet(d)
      BY <3>2, <3>3, <3>4
    <3>6. PICK s \in Steps : call[d] # Null /\ Moves(d, s) /\ Leads(call[d].step, s)
      BY <3>5, QuietMoves DEF CallInv
    <3>7. d = c /\ s = "save" /\ call[c].step = "put" /\ call'[c].token = call[c].token
      BY <1>2, <2>2, <3>6 DEF Moves, Becomes, At, Leads
    <3>8. ~Fail(c)
      <4>. SUFFICES ASSUME Fail(c) PROVE FALSE
        OBVIOUS
      <4>1. Moves(c, "error")
        BY <3>6, <3>7, GotoMoves DEF Fail, Steps, CallInv
      <4>. QED
        BY <3>7, <3>6, <4>1 DEF Moves, Becomes
    <3>9. ~Refuse(c)
      <4>. SUFFICES ASSUME Refuse(c) PROVE FALSE
        OBVIOUS
      <4>1. Moves(c, "error")
        BY <3>6, <3>7, GotoMoves DEF Refuse, Steps, CallInv
      <4>. QED
        BY <3>7, <3>6, <4>1 DEF Moves, Becomes
    <3>10. PutObject(c)
      BY <3>5, <3>7, <3>8, <3>9 DEF Quiet, UserExists, UniqueIndex, Logout, UpdateProfileInfo,
         FindInfoByID, InsertProfileAvatar, Answer, At
    <3>. QED
      BY <3>7, <3>10 DEF PutObject
  <2>. QED
    BY <2>1, <2>2
<1>. DEFINE Kept(p) ==
        /\ profile'[p] # NoRow
        /\ profile'[p].image_path # Null
        => /\ profile'[p].image_path \in objects'
           /\ profile'[p].image_path[1] = profile'[p].base_profile_id
<1>3. ASSUME NEW p \in Ids, profile[p] = profile'[p]
      PROVE  Kept(p)
  BY <1>1, <1>3 DEF Stored, AvatarIsStored, Profiles
<1>4. ASSUME NEW p \in Ids
      PROVE  Kept(p)
  <2>1. CASE \E c \in Calls : CreateUser(c)
    <3>1. PICK c \in Calls : CreateUser(c)
      BY <2>1
    <3>2. profile' = [profile EXCEPT ![call[c].prof] = NewProfile(call[c].base)]
      BY <3>1 DEF CreateUser
    <3>3. CASE p = call[c].prof
      BY <1>0, <3>2, <3>3 DEF NewProfile
    <3>4. CASE p # call[c].prof
      BY <1>0, <1>3, <3>2, <3>4
    <3>. QED
      BY <3>3, <3>4
  <2>2. CASE \E c \in Calls : UpdateProfileInfo(c)
    <3>1. PICK c \in Calls : UpdateProfileInfo(c)
      BY <2>2
    <3>2. profile'[p] = IF p \in RowsOf(call[c].token.user)
                        THEN [profile[p] EXCEPT !.filled = call[c].filled] ELSE profile[p]
      BY <3>1 DEF UpdateProfileInfo
    <3>3. CASE p \in RowsOf(call[c].token.user)
      <4>1. profile[p] \in ProfileRow
        BY <1>0, <3>3 DEF RowsOf, Profiles
      <4>2. /\ profile'[p].image_path = profile[p].image_path
            /\ profile'[p].base_profile_id = profile[p].base_profile_id
        BY <3>2, <3>3, <4>1 DEF ProfileRow
      <4>3. p \in Profiles
        BY <3>3 DEF RowsOf
      <4>. QED
        BY <1>1, <4>2, <4>3 DEF Stored, AvatarIsStored
    <3>4. CASE p \notin RowsOf(call[c].token.user)
      BY <1>3, <3>2, <3>4
    <3>. QED
      BY <3>3, <3>4
  <2>3. CASE \E c \in Calls : InsertProfileAvatar(c)
    <3>1. PICK c \in Calls : InsertProfileAvatar(c)
      BY <2>3
    <3>2. /\ profile'[p] = IF p \in RowsOf(call[c].token.user)
                           THEN [profile[p] EXCEPT !.image_path = <<call[c].token.user, c>>]
                           ELSE profile[p]
          /\ <<call[c].token.user, c>> \in objects
      BY <3>1 DEF InsertProfileAvatar, Stored
    <3>3. CASE p \in RowsOf(call[c].token.user)
      <4>1. profile[p] \in ProfileRow /\ profile[p].base_profile_id = call[c].token.user
        BY <1>0, <3>3 DEF RowsOf, Profiles
      <4>2. /\ profile'[p].image_path = <<call[c].token.user, c>>
            /\ profile'[p].base_profile_id = call[c].token.user
        BY <3>2, <3>3, <4>1 DEF ProfileRow
      <4>. QED
        BY <1>1, <3>2, <4>2
    <3>4. CASE p \notin RowsOf(call[c].token.user)
      BY <1>3, <3>2, <3>4
    <3>. QED
      BY <3>3, <3>4
  <2>4. CASE \A c \in Calls : ~CreateUser(c) /\ ~UpdateProfileInfo(c) /\ ~InsertProfileAvatar(c)
    <3>1. profile' = profile
      BY <2>4 DEF Next, Step, Signup, vars, Tick, Send, UserExists, InsertBaseProfile, UniqueIndex,
         InsertProfile, Login, Refresh, Logout, FindInfoByID, PutObject, Refuse, Fail, Answer
    <3>. QED
      BY <1>3, <3>1
  <2>. QED
    BY <2>1, <2>2, <2>3, <2>4
<1>5. AvatarIsStored'
  BY <1>4 DEF AvatarIsStored, Profiles
<1>. QED
  BY <1>2, <1>5 DEF Stored

\* The avatar of a profile is an object that has been stored for its user,
\* however uploads overlap and wherever they fail.
THEOREM AvatarIsStoredHolds == Spec => []AvatarIsStored
<1>1. Init => Stored
  BY DEF Init, Stored, AvatarIsStored, Profiles, At
<1>2. Stored => AvatarIsStored
  BY DEF Stored
<1>. QED
  BY <1>1, <1>2, CallInvariant, StoredStep, PTL DEF Spec

=============================================================================
