---------------------------- MODULE GatewayProofs ----------------------------
(***************************************************************************)
(* For every number of migrations and of faults: no request disturbs the   *)
(* deployment, no service that lacks what it should have prepared has      *)
(* started in silence, and what a request is answered is true: a refusal   *)
(* means that nothing was stored, and a failure on the way is not hidden.  *)
(***************************************************************************)
EXTENDS Gateway, TLAPS

-----------------------------------------------------------------------------
(* What requests do to the deployment: nothing. *)

LEMMA InitIsInit == Init => DeploymentInit
  BY DEF Init

LEMMA StepIsStep == [Next]_vars => [DeploymentNext]_deployment
  <1> SUFFICES ASSUME [Next]_vars
               PROVE  [DeploymentNext]_deployment
    OBVIOUS
  <1>1. CASE UNCHANGED vars
    BY <1>1 DEF vars
  <1>2. CASE UNCHANGED deployment
    BY <1>2
  <1>3. CASE \E p \in Programs : Crash(p) /\ Notice(p)
    BY <1>3 DEF DeploymentNext
  <1>4. CASE StopPostgres
    BY <1>4 DEF DeploymentNext, Outage
  <1>5. CASE \/ \E p \in Programs : StartUp(p) \/ Start(p)
             \/ RunMigrations \/ StopMinio \/ Recovery
    BY <1>5 DEF DeploymentNext, Outage
  <1> QED
    BY <1>1, <1>2, <1>3, <1>4, <1>5 DEF Next

\* The gateway and its requests, seen from the programs and the stores, are a
\* deployment: serving a request starts, stops and migrates nothing.
THEOREM ImplementsDeployment == Spec => DeploymentSpec
  <1>1. Init => DeploymentInit
    BY InitIsInit
  <1>2. [Next]_vars => [DeploymentNext]_deployment
    BY StepIsStep
  <1> QED
    BY <1>1, <1>2, PTL DEF Spec, DeploymentSpec

-----------------------------------------------------------------------------
(* The inductive invariant of the deployment. *)

\* A program is at a step of its own script.
OwnSteps ==
    /\ at["auth"] \notin {"bucket", "make bucket"}
    /\ at["gateway"] \in {"off", "serve"}

\* What holds between two statements of a migration.
Migrating ==
    /\ at["auth"] = "mark" => flag = "clean" /\ schema < Migrations
    /\ at["auth"] = "apply" => flag = "dirty" /\ schema < Migrations
    /\ at["auth"] = "clean" => flag = "dirty"

DeploymentInv == DeploymentTypeOK /\ OwnSteps /\ Migrating /\ BrokenIsLogged

LEMMA ProgramNames == Programs = {"auth", "profile", "messages", "gateway"}
  BY DEF Programs, Script

LEMMA Scripts ==
    /\ Script["auth"] = AuthInit /\ Script["profile"] = ProfileInit
    /\ Script["messages"] = MessagesInit /\ Script["gateway"] = GatewayInit
  BY DEF Script

LEMMA FirstSteps ==
    ASSUME NEW p \in Programs
    PROVE  Script[p][1] = IF p = "gateway" THEN "serve" ELSE "database"
  <1>1. AuthInit[1] = "database" /\ GatewayInit[1] = "serve"
    BY DEF AuthInit, GatewayInit
  <1>2. ProfileInit[1] = "database" /\ MessagesInit[1] = "database"
    BY DEF ProfileInit, MessagesInit
  <1> QED
    BY <1>1, <1>2, Scripts, ProgramNames

LEMMA SecondSteps ==
    ASSUME NEW p \in Programs \ {"gateway"}
    PROVE  Script[p][2] = IF p = "auth" THEN "up" ELSE "bucket"
  <1>1. AuthInit[2] = "up"
    BY DEF AuthInit
  <1>2. ProfileInit[2] = "bucket" /\ MessagesInit[2] = "bucket"
    BY DEF ProfileInit, MessagesInit
  <1> QED
    BY <1>1, <1>2, Scripts, ProgramNames

LEMMA FaultTyped ==
    ASSUME DeploymentTypeOK, Fault
    PROVE  failures' \in 0 .. MaxFailures
  <1>1. failures \in 0 .. MaxFailures /\ failures < MaxFailures /\ failures' = failures + 1
    BY DEF DeploymentTypeOK, Fault
  <1>2. MaxFailures \in Nat
    BY DeploymentAssumption DEF DeploymentAssumption
  <1> QED
    BY <1>1, <1>2

LEMMA DeploymentStarts == DeploymentInit => DeploymentInv
  <1> SUFFICES ASSUME DeploymentInit
               PROVE  DeploymentInv
    OBVIOUS
  <1>1. at \in [Programs -> Steps \cup {"off"}] /\ \A p \in Programs : at[p] = "off"
    BY DEF DeploymentInit
  <1>2. schema \in 0 .. Migrations /\ failures \in 0 .. MaxFailures
    BY DeploymentAssumption DEF DeploymentAssumption, DeploymentInit
  <1>3. DeploymentTypeOK
    BY <1>1, <1>2 DEF DeploymentInit, DeploymentTypeOK
  <1>4. OwnSteps /\ Migrating /\ BrokenIsLogged
    BY <1>1, ProgramNames DEF OwnSteps, Migrating, BrokenIsLogged, Serving
  <1> QED
    BY <1>3, <1>4 DEF DeploymentInv

LEMMA DeploymentGoesOn ==
    DeploymentInv /\ [DeploymentNext]_deployment => DeploymentInv'
  <1> SUFFICES ASSUME DeploymentInv, [DeploymentNext]_deployment
               PROVE  DeploymentInv'
    OBVIOUS
  <1> USE DEF DeploymentInv
  <1>1. ASSUME NEW p \in Programs, Start(p)
        PROVE  DeploymentInv'
    <2>1. DeploymentTypeOK'
      BY <1>1, FirstSteps, ProgramNames
      DEF Start, Go, stores, DeploymentTypeOK, OwnSteps, Steps
    <2>2. OwnSteps' /\ Migrating'
      BY <1>1, FirstSteps, ProgramNames
      DEF Start, Go, stores, DeploymentTypeOK, OwnSteps, Migrating, Steps
    <2>3. BrokenIsLogged'
      BY ZenonT(60), <1>1, FirstSteps, ProgramNames
      DEF Start, Go, stores, DeploymentTypeOK, OwnSteps,
          Migrating, BrokenIsLogged, Serving, Steps
    <2> QED
      BY <2>1, <2>2, <2>3
  <1>2. ASSUME NEW p \in Programs, Crash(p)
        PROVE  DeploymentInv'
    <2>0. failures' \in 0 .. MaxFailures
      BY <1>2, FaultTyped DEF Crash, Exit, Go, stores, DeploymentTypeOK
    <2>1. DeploymentTypeOK'
      BY <1>2, <2>0, ProgramNames
      DEF Crash, Exit, Go, stores, DeploymentTypeOK, OwnSteps, Steps
    <2>2. OwnSteps' /\ Migrating'
      BY <1>2, ProgramNames
      DEF Crash, Exit, Go, stores, DeploymentTypeOK, OwnSteps, Migrating, Steps
    <2>3. BrokenIsLogged'
      BY <1>2, ProgramNames
      DEF Crash, Exit, Go, stores, DeploymentTypeOK, OwnSteps,
          Migrating, BrokenIsLogged, Serving, Steps
    <2> QED
      BY <2>1, <2>2, <2>3
  <1>3. ASSUME NEW p \in Programs, NewDbConnection(p)
        PROVE  DeploymentInv'
    <2> DEFINE next == IF p = "auth" THEN "up" ELSE "bucket"
    <2>1. p # "gateway" /\ Script[p][2] = next
      BY <1>3, SecondSteps DEF NewDbConnection, OwnSteps
    <2>2. /\ \/ Go(p, next) /\ complained' = complained
             \/ Go(p, "off") /\ complained' = complained \ {p}
          /\ UNCHANGED <<stores, failures>>
      BY <1>3, <2>1 DEF NewDbConnection, Exit
    <2>3. DeploymentTypeOK'
      BY <2>2, ProgramNames DEF Go, stores, DeploymentTypeOK, Steps
    <2>4. OwnSteps' /\ Migrating'
      BY <2>1, <2>2, ProgramNames
      DEF Go, stores, DeploymentTypeOK, OwnSteps, Migrating, Steps
    <2>5. BrokenIsLogged'
      BY <2>2, ProgramNames
      DEF Go, stores, DeploymentTypeOK, BrokenIsLogged, Serving
    <2> QED
      BY <2>3, <2>4, <2>5
  <1>4. ASSUME NEW p \in Programs, BucketExists(p)
        PROVE  DeploymentInv'
    <2>1. DeploymentTypeOK'
      BY ZenonT(60), <1>4, ProgramNames
      DEF BucketExists, Complain, Go, stores, DeploymentTypeOK, OwnSteps, Steps
    <2>2. OwnSteps' /\ Migrating'
      BY <1>4, ProgramNames
      DEF BucketExists, Complain, Go, stores, DeploymentTypeOK, OwnSteps, Migrating, Steps
    <2>3. BrokenIsLogged'
      BY ZenonT(60), <1>4, ProgramNames
      DEF BucketExists, Complain, Go, stores, DeploymentTypeOK, OwnSteps,
          Migrating, BrokenIsLogged, Serving, Steps
    <2> QED
      BY <2>1, <2>2, <2>3
  <1>5. ASSUME NEW p \in Programs, MakeBucket(p)
        PROVE  DeploymentInv'
    <2>1. DeploymentTypeOK'
      BY <1>5, ProgramNames
      DEF MakeBucket, Complain, Go, DeploymentTypeOK, OwnSteps, Steps
    <2>2. OwnSteps' /\ Migrating'
      BY <1>5, ProgramNames
      DEF MakeBucket, Complain, Go, DeploymentTypeOK, OwnSteps, Migrating, Steps
    <2>3. BrokenIsLogged'
      BY <1>5, ProgramNames
      DEF MakeBucket, Complain, Go, DeploymentTypeOK, OwnSteps,
          Migrating, BrokenIsLogged, Serving, Steps
    <2> QED
      BY <2>1, <2>2, <2>3
  <1>6. CASE Up
    <2>1. DeploymentTypeOK'
      BY ZenonT(60), <1>6, ProgramNames
      DEF Up, Complain, Go, stores, DeploymentTypeOK, OwnSteps, Steps
    <2>2. OwnSteps' /\ Migrating'
      BY ZenonT(60), <1>6, ProgramNames
      DEF Up, Complain, Go, stores, DeploymentTypeOK, OwnSteps, Migrating, Steps
    <2>3. BrokenIsLogged'
      BY ZenonT(60), <1>6, ProgramNames
      DEF Up, Complain, Go, stores, DeploymentTypeOK, OwnSteps,
          Migrating, BrokenIsLogged, Serving, Steps
    <2> QED
      BY <2>1, <2>2, <2>3
  <1>7. CASE Mark
    <2>1. DeploymentTypeOK'
      BY <1>7, ProgramNames
      DEF Mark, Migrate, Go, DeploymentTypeOK, OwnSteps, Steps
    <2>2. OwnSteps' /\ Migrating'
      BY <1>7, ProgramNames
      DEF Mark, Migrate, Go, DeploymentTypeOK, OwnSteps, Migrating, Steps
    <2>3. BrokenIsLogged'
      BY <1>7, ProgramNames
      DEF Mark, Migrate, Go, DeploymentTypeOK, OwnSteps,
          Migrating, BrokenIsLogged, Serving, Steps
    <2> QED
      BY <2>1, <2>2, <2>3
  <1>8. CASE Apply
    <2>0. schema' \in 0 .. Migrations
      <3>1. schema \in 0 .. Migrations /\ schema < Migrations /\ schema' = schema + 1
        BY <1>8 DEF Apply, Migrate, Migrating, DeploymentTypeOK
      <3>2. Migrations \in Nat
        BY DeploymentAssumption DEF DeploymentAssumption
      <3> QED
        BY <3>1, <3>2
    <2>1. DeploymentTypeOK'
      BY <1>8, <2>0, ProgramNames DEF Apply, Migrate, Go, DeploymentTypeOK, Steps
    <2>2. OwnSteps' /\ Migrating'
      BY <1>8, ProgramNames
      DEF Apply, Migrate, Go, DeploymentTypeOK, OwnSteps, Migrating, Steps
    <2>3. BrokenIsLogged'
      BY <1>8, ProgramNames
      DEF Apply, Migrate, Go, DeploymentTypeOK, OwnSteps,
          Migrating, BrokenIsLogged, Serving, Steps
    <2> QED
      BY <2>1, <2>2, <2>3
  <1>9. CASE Clean
    <2>1. DeploymentTypeOK'
      BY <1>9, ProgramNames
      DEF Clean, Migrate, Go, DeploymentTypeOK, OwnSteps, Steps
    <2>2. OwnSteps' /\ Migrating'
      BY <1>9, ProgramNames
      DEF Clean, Migrate, Go, DeploymentTypeOK, OwnSteps, Migrating, Steps
    <2>3. BrokenIsLogged'
      <3>1. CASE schema < Migrations
        BY <1>9, <3>1, ProgramNames
        DEF Clean, Migrate, Go, DeploymentTypeOK, BrokenIsLogged, Serving
      <3>2. CASE ~(schema < Migrations)
        <4>1. schema = Migrations
          BY <3>2, DeploymentAssumption DEF DeploymentAssumption, DeploymentTypeOK
        <4> QED
          BY <1>9, <3>2, <4>1, ProgramNames
          DEF Clean, Migrate, Go, DeploymentTypeOK, BrokenIsLogged, Serving
      <3> QED
        BY <3>1, <3>2
    <2> QED
      BY <2>1, <2>2, <2>3
  <1>10. CASE StopPostgres
    <2>0. failures' \in 0 .. MaxFailures
      BY <1>10, FaultTyped DEF StopPostgres, Complain, Go, DeploymentTypeOK
    <2>1. DeploymentTypeOK'
      BY ZenonT(60), <1>10, <2>0, ProgramNames
      DEF StopPostgres, Complain, Go, DeploymentTypeOK, OwnSteps, Steps
    <2>2. OwnSteps' /\ Migrating'
      BY <1>10, ProgramNames
      DEF StopPostgres, Complain, Go, DeploymentTypeOK, OwnSteps, Migrating, Steps
    <2>3. BrokenIsLogged'
      BY ZenonT(60), <1>10, ProgramNames
      DEF StopPostgres, Complain, Go, DeploymentTypeOK, OwnSteps,
          Migrating, BrokenIsLogged, Serving, Steps
    <2> QED
      BY <2>1, <2>2, <2>3
  <1>11. CASE StopMinio \/ Recovery
    <2>0. failures' \in 0 .. MaxFailures
      BY <1>11, FaultTyped DEF StopMinio, Recovery, StartPostgres, StartMinio, DeploymentTypeOK
    <2>1. DeploymentTypeOK'
      BY <1>11, <2>0, ProgramNames
      DEF StopMinio, Recovery, StartPostgres, StartMinio, DeploymentTypeOK, OwnSteps, Steps
    <2>2. OwnSteps' /\ Migrating'
      BY <1>11, ProgramNames
      DEF StopMinio, Recovery, StartPostgres, StartMinio, DeploymentTypeOK, OwnSteps, Migrating, Steps
    <2>3. BrokenIsLogged'
      BY <1>11, ProgramNames
      DEF StopMinio, Recovery, StartPostgres, StartMinio, DeploymentTypeOK, OwnSteps,
          Migrating, BrokenIsLogged, Serving, Steps
    <2> QED
      BY <2>1, <2>2, <2>3
  <1>12. CASE UNCHANGED deployment
    BY <1>12
    DEF deployment, DeploymentTypeOK, OwnSteps, Migrating, BrokenIsLogged, Serving
  <1> QED
    BY <1>1, <1>2, <1>3, <1>4, <1>5, <1>6, <1>7, <1>8, <1>9, <1>10, <1>11, <1>12
    DEF DeploymentNext, StartUp, RunMigrations, Outage

LEMMA DeploymentInvHolds == Spec => []DeploymentInv
  <1>1. DeploymentSpec => []DeploymentInv
    BY DeploymentStarts, DeploymentGoesOn, PTL DEF DeploymentSpec
  <1> QED
    BY <1>1, ImplementsDeployment, PTL

\* The database never has more migrations than there are, every program is at
\* a step of its own, whatever is started, stopped and asked for.
THEOREM DeploymentTypeCorrect == Spec => []DeploymentTypeOK
  <1>1. DeploymentInv => DeploymentTypeOK
    BY DEF DeploymentInv
  <1> QED
    BY <1>1, DeploymentInvHolds, PTL

\* auth does not serve a half-migrated database, nor profile or messages without
\* the bucket, unless this start of theirs has logged an error.
THEOREM NothingBreaksInSilence == Spec => []BrokenIsLogged
  <1>1. DeploymentInv => BrokenIsLogged
    BY DEF DeploymentInv
  <1> QED
    BY <1>1, DeploymentInvHolds, PTL

-----------------------------------------------------------------------------
(* What the tables have to be like for the answers to be right. *)

Statuses == {200, 400, 401, 403, 404, 409, 500, 502}

\* What the handler makes of a procedure's code.
Says(c, code) == Status(c.errors, c.default, code)

\* One of the accesses before the i-th stores something; one of them is only
\* logged when it fails.
WritesBefore(a, i) == \E j \in 1 .. i - 1 : a[j].writes

WarnsBefore(a, i) == \E j \in 1 .. i - 1 : a[j].failure = "OK"

\* The picture is asked for by a name, as its link could not be made.
Second(r, k) == r = "getAvatar" /\ k = 2

\* The two properties, of a status that is about to be answered.
Untouched(r, s, stored) == s \in 400 .. 499 /\ r # "updateProfile" => ~stored

Told(r, s) ==
    \/ s >= 500
    \/ r \in Unillustrated \cup {"reply"} /\ s = 200
    \/ r = "refresh" /\ s = 401
    \/ r = "updateProfile" /\ s = 400

Fits(r, s, stored, broke) ==
    s \in Statuses /\ Untouched(r, s, stored) /\ (broke => Told(r, s))

\* Nothing is refused in the words of a mistake of the caller's once something
\* is stored, and no failure is.
AccessSound(r, k, c, i) ==
    LET a == c.rpc.accesses IN
    /\ a[i].writes \in BOOLEAN
    /\ \A code \in a[i].refuses :
          /\ code # "OK"
          /\ Fits(r, Says(c, code), WritesBefore(a, i), WarnsBefore(a, i) \/ Second(r, k))
    /\ a[i].failure # "OK" =>
          Fits(r, Says(c, a[i].failure), WritesBefore(a, i + 1), TRUE)
    /\ Second(r, k) => a[i].failure # "OK" /\ ~a[i].optional

\* A call that another one follows writes nothing, and only a picture's link may
\* fail in it unseen.
CallSound(r, k, c, last) ==
    LET a == c.rpc.accesses
        end == Len(a) + 1
    IN
    /\ Len(a) \in 0 .. 6 /\ (Second(r, k) => Len(a) > 0)
    /\ Fits(r, Says(c, "Unavailable"), WritesBefore(a, end), TRUE)
    /\ c.rpc.authenticated => ~Second(r, k) /\ Says(c, "Unauthenticated") \in Statuses
    /\ \A i \in 1 .. Len(a) : AccessSound(r, k, c, i)
    /\ IF last
       THEN WarnsBefore(a, end) => Told(r, 200)
       ELSE ~WritesBefore(a, end) /\ (WarnsBefore(a, end) => r = "getAvatar")

HandlerSound(r) ==
    LET calls == Routes[r].calls IN
    /\ Len(calls) \in {1, 2}
    /\ Routes[r].rejects \cup Routes[r].absent \subseteq Statuses
    /\ \A k \in 1 .. Len(calls) : CallSound(r, k, calls[k], k = Len(calls))

-----------------------------------------------------------------------------
(* The inductive invariant of the requests. *)

Request ==
    [route : DOMAIN Routes \cup {"none"}, call : 1 .. 2, pc : 0 .. 7,
     status : Statuses \cup {0}, stored : BOOLEAN, broke : BOOLEAN]

\* A request under way has stored something only by an access it is past, and
\* has met a failure only at one whose failure is logged.
UnderWay ==
    Active /\ request.status = 0 =>
        /\ request.call <= Len(ThisHandler.calls)
        /\ request.pc <= Len(Accesses) + 1
        /\ request.stored => WritesBefore(Accesses, request.pc)
        /\ request.broke => \/ WarnsBefore(Accesses, request.pc)
                            \/ Second(request.route, request.call) /\ request.pc <= 1

Answered ==
    request.status # 0 =>
        /\ Active /\ request.pc = 0
        /\ Fits(request.route, request.status, request.stored, request.broke)

RequestInv ==
    /\ request \in Request
    /\ Active => Serving("gateway")
    /\ ~Active => request = Idle
    /\ UnderWay /\ Answered

-----------------------------------------------------------------------------
(* The tables are sound.  Most handlers make one status of every code, and     *)
(* then the order of the accesses does not matter.                             *)

Codes ==
    {"Unauthenticated", "InvalidArgument", "NotFound", "PermissionDenied",
     "AlreadyExists", "Internal", "Unavailable", "BadGateway"}

AccessRecord ==
    [store : {"none", "postgres", "bucket"}, writes : BOOLEAN,
     failure : Codes \cup {"OK"}, refuses : SUBSET Codes, optional : BOOLEAN]

LEMMA CodesApart == "OK" \notin Codes /\ "none" \notin Codes
  BY DEF Codes

LEMMA AccessTyped ==
    ASSUME NEW store \in {"none", "postgres", "bucket"}, NEW writes \in BOOLEAN,
           NEW failure \in Codes \cup {"OK"}, NEW refuses \in SUBSET Codes
    PROVE  Access(store, writes, failure, refuses) \in AccessRecord
  BY DEF Access, AccessRecord

LEMMA CheckTyped ==
    ASSUME NEW refuses \in SUBSET Codes
    PROVE  Check(refuses) \in AccessRecord
  <1>1. "Internal" \in Codes
    BY DEF Codes
  <1> QED
    BY <1>1, AccessTyped DEF Check

LEMMA ReadTyped ==
    ASSUME NEW failure \in Codes \cup {"OK"}, NEW refuses \in SUBSET Codes
    PROVE  Read(failure, refuses) \in AccessRecord
  BY AccessTyped DEF Read

LEMMA WriteTyped ==
    ASSUME NEW failure \in Codes \cup {"OK"}, NEW refuses \in SUBSET Codes
    PROVE  Write(failure, refuses) \in AccessRecord
  BY AccessTyped DEF Write

LEMMA MaybeTyped ==
    ASSUME NEW a \in AccessRecord
    PROVE  /\ Maybe(a) \in AccessRecord /\ Maybe(a).failure = a.failure
           /\ Maybe(a).writes = a.writes /\ Maybe(a).refuses = a.refuses
  BY DEF Maybe, AccessRecord

LEMMA WarnedTyped ==
    ASSUME NEW a \in AccessRecord
    PROVE  /\ Warned(a) \in AccessRecord /\ Warned(a).failure = "OK"
           /\ Warned(a).writes = a.writes /\ Warned(a).refuses = a.refuses
  BY DEF Warned, AccessRecord

\* A procedure has at most six accesses; some of them write, or are only logged
\* when they fail.
Typed(rpc) == rpc.accesses \in Seq(AccessRecord) /\ Len(rpc.accesses) \in 0 .. 6

AnyWrite(rpc) == WritesBefore(rpc.accesses, Len(rpc.accesses) + 1)

AnyWarn(rpc) == WarnsBefore(rpc.accesses, Len(rpc.accesses) + 1)

\* A call that makes one status of every code.
Uniform(c, rpc, status) == c.errors = Opaque /\ c.default = status /\ c.rpc = rpc

\* The statuses that do not blame the caller.
Blameless == {200, 500, 502}

LEMMA UniformSays ==
    ASSUME NEW c, NEW rpc, NEW status, Uniform(c, rpc, status), NEW code \in Codes
    PROVE  Says(c, code) = status
  BY CodesApart DEF Uniform, Says, Status, Opaque

LEMMA Indifferent ==
    ASSUME NEW r, NEW k, NEW c, NEW rpc, NEW status \in Blameless,
           Uniform(c, rpc, status), Typed(rpc), Told(r, status), ~Second(r, k)
    PROVE  /\ (Told(r, 200) \/ ~AnyWarn(rpc)) => CallSound(r, k, c, TRUE)
           /\ ~AnyWrite(rpc) /\ ~AnyWarn(rpc) => CallSound(r, k, c, FALSE)
  <1> DEFINE a == c.rpc.accesses
  <1>1. ASSUME NEW code \in Codes
        PROVE  Says(c, code) = status
    BY <1>1, UniformSays
  <1>2. status \in Statuses /\ status \notin 400 .. 499
    BY DEF Statuses, Blameless
  <1>3. ASSUME NEW code \in Codes, NEW stored \in BOOLEAN, NEW broke \in BOOLEAN
        PROVE  Fits(r, Says(c, code), stored, broke)
    <2>1. Says(c, code) = status
      BY <1>1
    <2>2. Fits(r, status, stored, broke)
      BY <1>2 DEF Fits, Untouched
    <2> QED
      BY <2>1, <2>2
  <1>4. c.rpc = rpc /\ a \in Seq(AccessRecord) /\ Len(a) \in 0 .. 6
    BY DEF Uniform, Typed
  <1>5. \A i \in 1 .. Len(a) : a[i] \in AccessRecord
    BY <1>4
  <1>6. ASSUME NEW i \in 1 .. Len(a)
        PROVE  AccessSound(r, k, c, i)
    <2>1. /\ a[i].writes \in BOOLEAN /\ a[i].refuses \subseteq Codes
          /\ a[i].failure \in Codes \cup {"OK"}
      BY <1>5, <1>6 DEF AccessRecord
    <2>2. ASSUME NEW code \in a[i].refuses
          PROVE  /\ code # "OK"
                 /\ Fits(r, Says(c, code), WritesBefore(a, i), WarnsBefore(a, i) \/ Second(r, k))
      <3>1. code \in Codes /\ code # "OK"
        BY <2>1, CodesApart
      <3>2. /\ WritesBefore(a, i) \in BOOLEAN
            /\ (WarnsBefore(a, i) \/ Second(r, k)) \in BOOLEAN
        BY DEF WritesBefore, WarnsBefore
      <3> QED
        BY <1>3, <3>1, <3>2
    <2>3. ASSUME a[i].failure # "OK"
          PROVE  Fits(r, Says(c, a[i].failure), WritesBefore(a, i + 1), TRUE)
      <3>1. PICK code \in Codes : code = a[i].failure
        BY <2>1, <2>3
      <3>2. WritesBefore(a, i + 1) \in BOOLEAN
        BY DEF WritesBefore
      <3>3. Fits(r, Says(c, code), WritesBefore(a, i + 1), TRUE)
        BY <1>3, <3>2
      <3> QED
        BY <3>1, <3>3
    <2> QED
      BY <2>1, <2>2, <2>3 DEF AccessSound
  <1>7. "Unavailable" \in Codes /\ "Unauthenticated" \in Codes
    BY DEF Codes
  <1>8. Says(c, "Unauthenticated") \in Statuses
    BY <1>1, <1>2, <1>7
  <1>9. Fits(r, Says(c, "Unavailable"), WritesBefore(a, Len(a) + 1), TRUE)
    <2>1. WritesBefore(a, Len(a) + 1) \in BOOLEAN
      BY DEF WritesBefore
    <2> QED
      BY <1>3, <1>7, <2>1
  <1>10. ASSUME Told(r, 200) \/ ~AnyWarn(rpc)
         PROVE  CallSound(r, k, c, TRUE)
    BY <1>4, <1>6, <1>8, <1>9, <1>10 DEF CallSound, AnyWarn
  <1>11. ASSUME ~AnyWrite(rpc), ~AnyWarn(rpc)
         PROVE  CallSound(r, k, c, FALSE)
    BY <1>4, <1>6, <1>8, <1>9, <1>11 DEF CallSound, AnyWarn, AnyWrite
  <1> QED
    BY <1>10, <1>11

LEMMA LastIndifferent ==
    ASSUME NEW r, NEW k, NEW c, NEW rpc, NEW status \in Blameless,
           Uniform(c, rpc, status), Typed(rpc), Told(r, status), ~Second(r, k),
           Told(r, 200) \/ ~AnyWarn(rpc)
    PROVE  CallSound(r, k, c, TRUE)
  BY Indifferent

LEMMA FirstIndifferent ==
    ASSUME NEW r, NEW k, NEW c, NEW rpc, NEW status \in Blameless,
           Uniform(c, rpc, status), Typed(rpc), Told(r, status), ~Second(r, k),
           ~AnyWrite(rpc), ~AnyWarn(rpc)
    PROVE  CallSound(r, k, c, FALSE)
  BY Indifferent

LEMMA SixTyped ==
    ASSUME NEW a \in AccessRecord, NEW b \in AccessRecord, NEW c \in AccessRecord,
           NEW d \in AccessRecord, NEW e \in AccessRecord, NEW f \in AccessRecord,
           NEW rpc, rpc.accesses = <<a, b, c, d, e, f>>
    PROVE  Typed(rpc)
  BY DEF Typed

\* The procedures whose codes are all one to their handlers, or whose order
\* matters nothing.
LEMMA Checks ==
    /\ Check({"InvalidArgument"}) \in AccessRecord
    /\ Check({"Unauthenticated"}) \in AccessRecord
    /\ validateSendRequest \in AccessRecord /\ validateReplyRequest \in AccessRecord
    /\ validateDraftRequest \in AccessRecord /\ validateFolderName \in AccessRecord
    /\ Number \in AccessRecord
  <1>1. {"InvalidArgument"} \in SUBSET Codes /\ {"Unauthenticated"} \in SUBSET Codes
    BY DEF Codes
  <1> QED
    BY <1>1, CheckTyped
    DEF validateSendRequest, validateReplyRequest, validateDraftRequest, validateFolderName,
        Number

LEMMA Refusals ==
    /\ "Internal" \in Codes \cup {"OK"} /\ "OK" \in Codes \cup {"OK"}
    /\ "Unauthenticated" \in Codes \cup {"OK"}
    /\ "InvalidArgument" \in Codes \cup {"OK"}
    /\ {} \in SUBSET Codes /\ {"Internal"} \in SUBSET Codes
    /\ {"Unauthenticated"} \in SUBSET Codes /\ {"PermissionDenied"} \in SUBSET Codes
    /\ {"NotFound", "PermissionDenied", "Internal"} \in SUBSET Codes
  BY DEF Codes

LEMMA Accesses1 ==
    /\ Read("Internal", {}) \in AccessRecord
    /\ Read("Internal", {"PermissionDenied"}) \in AccessRecord
    /\ Read("Unauthenticated", {"Unauthenticated"}) \in AccessRecord
    /\ Read("OK", {}) \in AccessRecord
    /\ Write("Internal", {}) \in AccessRecord
    /\ Write("Internal", {"Internal"}) \in AccessRecord
    /\ Write("Internal", {"NotFound", "PermissionDenied", "Internal"}) \in AccessRecord
    /\ Write("OK", {}) \in AccessRecord
  BY Refusals, ReadTyped, WriteTyped

\* The accesses whose failure is an error of the procedure.
PlainAccess == {a \in AccessRecord : a.failure # "OK"}

LEMMA PlainChecks ==
    /\ Check({"InvalidArgument"}) \in PlainAccess
    /\ validateSendRequest \in PlainAccess /\ validateReplyRequest \in PlainAccess
    /\ validateDraftRequest \in PlainAccess /\ validateFolderName \in PlainAccess
    /\ Number \in PlainAccess
  <1>1. Check({"InvalidArgument"}).failure = "Internal"
    BY DEF Check, Access
  <1> QED
    BY <1>1, Checks
    DEF validateSendRequest, validateReplyRequest, validateDraftRequest, validateFolderName,
        Number, PlainAccess

LEMMA PlainAccesses ==
    /\ Read("Internal", {}) \in PlainAccess
    /\ Read("Internal", {"PermissionDenied"}) \in PlainAccess
    /\ Read("Unauthenticated", {"Unauthenticated"}) \in PlainAccess
    /\ Write("Internal", {}) \in PlainAccess
    /\ Write("Internal", {"Internal"}) \in PlainAccess
    /\ Maybe(Write("Internal", {"Internal"})) \in PlainAccess
    /\ Write("Internal", {"NotFound", "PermissionDenied", "Internal"}) \in PlainAccess
  <1>1. /\ Read("Internal", {}).failure = "Internal"
        /\ Read("Internal", {"PermissionDenied"}).failure = "Internal"
        /\ Read("Unauthenticated", {"Unauthenticated"}).failure = "Unauthenticated"
        /\ Write("Internal", {}).failure = "Internal"
        /\ Write("Internal", {"Internal"}).failure = "Internal"
        /\ Write("Internal", {"NotFound", "PermissionDenied", "Internal"}).failure = "Internal"
    BY DEF Read, Write, Access
  <1> QED
    BY <1>1, Accesses1, MaybeTyped DEF PlainAccess

LEMMA Accesses2 ==
    /\ Maybe(Warned(Write("OK", {}))) \in AccessRecord
    /\ Maybe(Warned(Read("OK", {}))) \in AccessRecord
    /\ enrichSenderAvatar \in AccessRecord
  BY Accesses1, MaybeTyped, WarnedTyped, AccessTyped, Refusals
  DEF Write, Access, enrichSenderAvatar

LEMMA PlainIsAccess == \A a \in PlainAccess : a \in AccessRecord /\ a.failure # "OK"
  BY DEF PlainAccess

\* A procedure no failure of which goes unsaid.
Plain(rpc) == rpc.accesses \in Seq(PlainAccess) /\ Len(rpc.accesses) \in 0 .. 6

LEMMA PlainTyped ==
    ASSUME NEW rpc, Plain(rpc)
    PROVE  Typed(rpc) /\ ~AnyWarn(rpc)
  <1>1. \A i \in 1 .. Len(rpc.accesses) : rpc.accesses[i] \in PlainAccess
    BY DEF Plain
  <1>2. Typed(rpc)
    <2>1. PlainAccess \subseteq AccessRecord
      BY PlainIsAccess
    <2> QED
      BY <2>1 DEF Plain, Typed
  <1>3. ASSUME NEW j \in 1 .. (Len(rpc.accesses) + 1) - 1
        PROVE  rpc.accesses[j].failure # "OK"
    <2>1. j \in 1 .. Len(rpc.accesses)
      BY <1>3 DEF Plain
    <2> QED
      BY <1>1, <2>1, PlainIsAccess
  <1> QED
    BY <1>2, <1>3 DEF AnyWarn, WarnsBefore

LEMMA OpaqueUniform ==
    ASSUME NEW rpc
    PROVE  Uniform(OpaqueCall(rpc), rpc, 500)
  BY DEF OpaqueCall, Call, Uniform

\* A handler that makes a single call.
MakesOne(r, c) ==
    Routes[r].calls = <<c>> /\ Routes[r].rejects \cup Routes[r].absent \subseteq Statuses

LEMMA OneCall ==
    ASSUME NEW r, NEW c, MakesOne(r, c), CallSound(r, 1, c, TRUE)
    PROVE  HandlerSound(r)
  <1>1. Len(Routes[r].calls) = 1 /\ Routes[r].calls[1] = c
    BY DEF MakesOne
  <1>2. \A k \in 1 .. 1 : k = 1
    OBVIOUS
  <1>3. (1 = Len(Routes[r].calls)) = TRUE
    BY <1>1
  <1> QED
    BY <1>1, <1>2, <1>3 DEF HandlerSound, MakesOne

\* A handler that makes two.
MakesTwo(r, c, d) ==
    Routes[r].calls = <<c, d>> /\ Routes[r].rejects \cup Routes[r].absent \subseteq Statuses

LEMMA TwoCalls ==
    ASSUME NEW r, NEW c, NEW d, MakesTwo(r, c, d),
           CallSound(r, 1, c, FALSE), CallSound(r, 2, d, TRUE)
    PROVE  HandlerSound(r)
  <1>1. Len(Routes[r].calls) = 2 /\ Routes[r].calls[1] = c /\ Routes[r].calls[2] = d
    BY DEF MakesTwo
  <1>2. \A k \in 1 .. 2 : k = 1 \/ k = 2
    OBVIOUS
  <1>3. (1 = Len(Routes[r].calls)) = FALSE /\ (2 = Len(Routes[r].calls)) = TRUE
    BY <1>1
  <1> QED
    BY <1>1, <1>2, <1>3 DEF HandlerSound, MakesTwo

-----------------------------------------------------------------------------
(* The handlers, one by one: first those that answer 500 to every failure. *)

LEMMA OpaqueHandlers ==
    ASSUME NEW r, NEW rpc, MakesOne(r, OpaqueCall(rpc)), Plain(rpc)
    PROVE  HandlerSound(r)
  <1>1. ~Second(r, 1) /\ Told(r, 500) /\ 500 \in Blameless
    BY DEF Second, Told, Blameless
  <1>2. Typed(rpc) /\ ~AnyWarn(rpc) /\ Uniform(OpaqueCall(rpc), rpc, 500)
    BY PlainTyped, OpaqueUniform
  <1>3. CallSound(r, 1, OpaqueCall(rpc), TRUE)
    BY <1>1, <1>2, LastIndifferent
  <1> QED
    BY <1>3, OneCall

LEMMA LoginSound == HandlerSound("login")
  <1>1. MakesOne("login", OpaqueCall(Login))
    BY DEF MakesOne, Routes, loginHandler, Handler, Statuses, NoToken, BadBody
  <1>2. Plain(Login)
    BY PlainChecks, PlainAccesses DEF Plain, Login, Rpc
  <1> QED
    BY <1>1, <1>2, OpaqueHandlers

LEMMA LogoutSound == HandlerSound("logout")
  <1>1. MakesOne("logout", OpaqueCall(Logout))
    BY DEF MakesOne, Routes, logoutHandler, Handler, Statuses, NoToken, BadBody
  <1>2. Plain(Logout)
    BY DEF Plain, Logout, Rpc
  <1> QED
    BY <1>1, <1>2, OpaqueHandlers

LEMMA SendSound == HandlerSound("send")
  <1>1. MakesOne("send", OpaqueCall(Send))
    BY DEF MakesOne, Routes, sendHandler, Handler, Statuses, NoToken, BadBody
  <1>2. Plain(Send)
    BY PlainChecks, PlainAccesses DEF Plain, Send, Rpc
  <1> QED
    BY <1>1, <1>2, OpaqueHandlers

LEMMA GetFoldersSound == HandlerSound("getFolders")
  <1>1. MakesOne("getFolders", OpaqueCall(GetFolders))
    BY DEF MakesOne, Routes, getFoldersHandler, Handler, Statuses, NoToken, BadBody
  <1>2. Plain(GetFolders)
    BY PlainChecks, PlainAccesses DEF Plain, GetFolders, Rpc
  <1> QED
    BY <1>1, <1>2, OpaqueHandlers

LEMMA DeleteFolderSound == HandlerSound("deleteFolder")
  <1>1. MakesOne("deleteFolder", OpaqueCall(DeleteFolder))
    BY DEF MakesOne, Routes, deleteFolderHandler, Handler, Statuses, NoToken, BadBody
  <1>2. Plain(DeleteFolder)
    BY PlainChecks, PlainAccesses DEF Plain, DeleteFolder, Rpc
  <1> QED
    BY <1>1, <1>2, OpaqueHandlers

LEMMA DeleteMessageFromFolderSound == HandlerSound("deleteMessageFromFolder")
  <1>1. MakesOne("deleteMessageFromFolder", OpaqueCall(DeleteMessageFromFolder))
    BY DEF MakesOne, Routes, deleteMessageFromFolderHandler, Handler, Statuses, NoToken, BadBody
  <1>2. Plain(DeleteMessageFromFolder)
    BY PlainChecks, PlainAccesses DEF Plain, DeleteMessageFromFolder, Rpc
  <1> QED
    BY <1>1, <1>2, OpaqueHandlers

LEMMA SaveDraftSound == HandlerSound("saveDraft")
  <1>1. MakesOne("saveDraft", OpaqueCall(SaveDraft))
    BY DEF MakesOne, Routes, saveDraftHandler, Handler, Statuses, NoToken, BadBody
  <1>2. Plain(SaveDraft)
    BY PlainChecks, PlainAccesses DEF Plain, SaveDraft, Rpc
  <1> QED
    BY <1>1, <1>2, OpaqueHandlers

LEMMA DeleteDraftSound == HandlerSound("deleteDraft")
  <1>1. MakesOne("deleteDraft", OpaqueCall(DeleteDraft))
    BY DEF MakesOne, Routes, deleteDraftHandler, Handler, Statuses, NoToken, BadBody
  <1>2. Plain(DeleteDraft)
    BY PlainChecks, PlainAccesses DEF Plain, DeleteDraft, Rpc
  <1> QED
    BY <1>1, <1>2, OpaqueHandlers

LEMMA SendDraftSound == HandlerSound("sendDraft")
  <1>1. MakesOne("sendDraft", OpaqueCall(SendDraft))
    BY DEF MakesOne, Routes, sendDraftHandler, Handler, Statuses, NoToken, BadBody
  <1>2. Plain(SendDraft)
    BY PlainChecks, PlainAccesses DEF Plain, SendDraft, Rpc
  <1> QED
    BY <1>1, <1>2, OpaqueHandlers

LEMMA MarkAsSpamSound == HandlerSound("markAsSpam")
  <1>1. MakesOne("markAsSpam", OpaqueCall(MarkAsSpam))
    BY DEF MakesOne, Routes, markAsSpamHandler, Handler, Statuses, NoToken, BadBody
  <1>2. Plain(MarkAsSpam)
    BY PlainChecks, PlainAccesses DEF Plain, MarkAsSpam, Rpc
  <1> QED
    BY <1>1, <1>2, OpaqueHandlers

LEMMA MoveToFolderSound == HandlerSound("moveToFolder")
  <1>1. MakesOne("moveToFolder", OpaqueCall(MoveToFolder))
    BY DEF MakesOne, Routes, moveToFolderHandler, Handler, Statuses, NoToken, BadBody
  <1>2. Plain(MoveToFolder)
    BY PlainChecks, PlainAccesses DEF Plain, MoveToFolder, Rpc
  <1> QED
    BY <1>1, <1>2, OpaqueHandlers

\* A reply whose thread cannot be looked up or attached is sent all the same.
LEMMA ReplySound == HandlerSound("reply")
  <1>1. MakesOne("reply", OpaqueCall(Reply))
    BY DEF MakesOne, Routes, replyHandler, Handler, Statuses, NoToken, BadBody
  <1>2. Typed(Reply)
    <2>1. Reply.accesses =
             <<validateReplyRequest, Maybe(Warned(Write("OK", {}))),
               Maybe(Warned(Read("OK", {}))), Maybe(Write("Internal", {"Internal"})),
               Write("Internal", {"Internal"}), Maybe(Write("Internal", {"Internal"}))>>
      BY DEF Reply, Rpc
    <2>2. /\ validateReplyRequest \in AccessRecord
          /\ Maybe(Warned(Write("OK", {}))) \in AccessRecord
          /\ Maybe(Warned(Read("OK", {}))) \in AccessRecord
          /\ Maybe(Write("Internal", {"Internal"})) \in AccessRecord
          /\ Write("Internal", {"Internal"}) \in AccessRecord
      BY Checks, Accesses1, Accesses2, PlainAccesses, PlainIsAccess
    <2> QED
      BY ZenonT(30), <2>1, <2>2, SixTyped
  <1>3. ~Second("reply", 1) /\ Told("reply", 500) /\ Told("reply", 200)
        /\ 500 \in Blameless
    BY DEF Second, Told, Blameless
  <1>4. CallSound("reply", 1, OpaqueCall(Reply), TRUE)
    <2>1. PICK s \in Blameless : s = 500
      BY <1>3
    <2>2. Uniform(OpaqueCall(Reply), Reply, s) /\ Told("reply", s)
      BY <1>3, <2>1, OpaqueUniform
    <2> QED
      BY <1>2, <1>3, <2>2, LastIndifferent
  <1> QED
    BY <1>1, <1>4, OneCall

\* A folder page that cannot be read is an empty one, even after a failure.
LEMMA FolderPageSound ==
    ASSUME NEW r \in {"getFolder", "inbox"}
    PROVE  /\ CallSound(r, 1, OpaqueCall(GetFolders), FALSE)
           /\ CallSound(r, 2, respondFolder, TRUE)
  <1>1. /\ ~Second(r, 1) /\ ~Second(r, 2) /\ Told(r, 200) /\ Told(r, 500)
        /\ 200 \in Blameless /\ 500 \in Blameless
    BY DEF Second, Told, Unillustrated, Blameless
  <1>2. CallSound(r, 1, OpaqueCall(GetFolders), FALSE)
    <2>1. Plain(GetFolders)
      BY PlainAccesses DEF Plain, GetFolders, Rpc
    <2>2. Len(GetFolders.accesses) = 1 /\ GetFolders.accesses[1] = Read("Internal", {})
      BY DEF GetFolders, Rpc
    <2>3. ~Read("Internal", {}).writes
      BY DEF Read, Access
    <2>4. \A j \in 1 .. 1 : j = 1
      OBVIOUS
    <2>5. ~AnyWrite(GetFolders)
      BY <2>2, <2>3, <2>4 DEF AnyWrite, WritesBefore
    <2>6. Typed(GetFolders) /\ ~AnyWarn(GetFolders)
      BY <2>1, PlainTyped
    <2>7. PICK s \in Blameless : s = 500
      BY <1>1
    <2>8. Uniform(OpaqueCall(GetFolders), GetFolders, s) /\ Told(r, s)
      BY <1>1, <2>7, OpaqueUniform
    <2> QED
      BY <1>1, <2>5, <2>6, <2>8, FirstIndifferent
  <1>3. CallSound(r, 2, respondFolder, TRUE)
    <2>1. Typed(GetFolder)
      BY Checks, Accesses1, Accesses2 DEF Typed, GetFolder, Rpc
    <2>2. Uniform(respondFolder, GetFolder, 200)
      BY DEF Uniform, respondFolder, Call
    <2> QED
      BY <1>1, <2>1, <2>2, LastIndifferent
  <1> QED
    BY <1>2, <1>3

LEMMA GetFolderSound == HandlerSound("getFolder")
  <1>1. MakesTwo("getFolder", OpaqueCall(GetFolders), respondFolder)
    BY DEF MakesTwo, Routes, getFolderHandler, Handler, Statuses, NoToken
  <1> QED
    BY <1>1, FolderPageSound, TwoCalls

LEMMA InboxSound == HandlerSound("inbox")
  <1>1. MakesTwo("inbox", OpaqueCall(GetFolders), respondFolder)
    BY DEF MakesTwo, Routes, inboxHandler, Handler, Statuses, NoToken
  <1> QED
    BY <1>1, FolderPageSound, TwoCalls

\* A handler of one code and a procedure of one access that stores nothing.
Single(rpc, a) ==
    /\ rpc.authenticated = FALSE /\ rpc.accesses = <<a>>
    /\ a \in PlainAccess /\ ~a.writes /\ ~a.optional

LEMMA SingleSound ==
    ASSUME NEW r, NEW k, NEW c, NEW rpc, NEW a, NEW status \in Statuses,
           Uniform(c, rpc, status), Single(rpc, a), Told(r, status)
    PROVE  CallSound(r, k, c, TRUE)
  <1>1. /\ Len(c.rpc.accesses) = 1 /\ c.rpc.accesses[1] = a
        /\ a \in PlainAccess /\ ~a.writes /\ ~a.optional /\ ~c.rpc.authenticated
    BY DEF Uniform, Single
  <1>2. \A i \in 1 .. 1 : i = 1
    OBVIOUS
  <1>3. ~WritesBefore(c.rpc.accesses, 1) /\ ~WritesBefore(c.rpc.accesses, 2)
    BY <1>1, <1>2 DEF WritesBefore
  <1>4. a.failure # "OK" /\ a \in AccessRecord
    BY <1>1, PlainIsAccess
  <1>5. ~WarnsBefore(c.rpc.accesses, 2)
    BY <1>1, <1>2, <1>4 DEF WarnsBefore
  <1>6. ASSUME NEW code \in Codes
        PROVE  Says(c, code) = status
    BY <1>6, UniformSays
  <1>7. a.writes \in BOOLEAN /\ a.refuses \subseteq Codes /\ a.failure \in Codes
    BY <1>4 DEF AccessRecord
  <1>8. ASSUME NEW broke \in BOOLEAN
        PROVE  Fits(r, status, FALSE, broke)
    BY DEF Fits, Untouched
  <1>9. AccessSound(r, k, c, 1)
    <2>1. ASSUME NEW code \in a.refuses
          PROVE  /\ code # "OK"
                 /\ Fits(r, Says(c, code), FALSE,
                         WarnsBefore(c.rpc.accesses, 1) \/ Second(r, k))
      <3>1. code \in Codes /\ code # "OK"
        BY <1>7, <2>1, CodesApart
      <3>2. (WarnsBefore(c.rpc.accesses, 1) \/ Second(r, k)) \in BOOLEAN
        BY DEF WarnsBefore, Second
      <3>3. Says(c, code) = status
        BY <1>6, <3>1
      <3>4. Fits(r, status, FALSE, WarnsBefore(c.rpc.accesses, 1) \/ Second(r, k))
        BY <1>8, <3>2
      <3> QED
        BY <3>1, <3>3, <3>4
    <2>2. Fits(r, Says(c, a.failure), FALSE, TRUE)
      <3>1. Says(c, a.failure) = status
        BY <1>6, <1>7
      <3> QED
        BY <1>8, <3>1
    <2>3. WritesBefore(c.rpc.accesses, 1) = FALSE /\ WritesBefore(c.rpc.accesses, 2) = FALSE
      BY <1>3 DEF WritesBefore
    <2>4. 1 + 1 = 2
      OBVIOUS
    <2> QED
      BY <1>1, <1>4, <1>7, <2>1, <2>2, <2>3, <2>4 DEF AccessSound
  <1>10. Fits(r, Says(c, "Unavailable"), WritesBefore(c.rpc.accesses, 2), TRUE)
    <2>1. "Unavailable" \in Codes
      BY DEF Codes
    <2>2. Says(c, "Unavailable") = status
      BY <1>6, <2>1
    <2>3. WritesBefore(c.rpc.accesses, 2) = FALSE
      BY <1>3 DEF WritesBefore
    <2> QED
      BY <1>8, <2>2, <2>3
  <1>11. Len(c.rpc.accesses) \in 0 .. 6 /\ Len(c.rpc.accesses) > 0
         /\ Len(c.rpc.accesses) + 1 = 2
    BY <1>1
  <1>12. \A i \in 1 .. Len(c.rpc.accesses) : AccessSound(r, k, c, i)
    BY <1>1, <1>2, <1>9
  <1> QED
    BY <1>1, <1>5, <1>10, <1>11, <1>12 DEF CallSound

\* The picture itself: MinIO is the only one asked.
LEMMA FetchAvatarSound == CallSound("getAvatar", 2, Call(FetchAvatar, Opaque, 502), TRUE)
  <1>1. PICK a : a = Access("bucket", FALSE, "BadGateway", {"BadGateway"})
    OBVIOUS
  <1>2. a \in PlainAccess /\ ~a.optional /\ ~a.writes
    <2>1. "BadGateway" \in Codes \cup {"OK"} /\ {"BadGateway"} \in SUBSET Codes
      BY DEF Codes
    <2>2. a \in AccessRecord
      BY <1>1, <2>1, AccessTyped
    <2>3. a.failure = "BadGateway" /\ ~a.optional /\ ~a.writes
      BY <1>1 DEF Access
    <2> QED
      BY <2>2, <2>3 DEF PlainAccess
  <1>3. Single(FetchAvatar, a)
    BY <1>1, <1>2 DEF Single, FetchAvatar, Rpc
  <1>4. Uniform(Call(FetchAvatar, Opaque, 502), FetchAvatar, 502)
    BY DEF Uniform, Call
  <1>5. 502 \in Statuses /\ Told("getAvatar", 502)
    BY DEF Statuses, Told
  <1> QED
    BY ZenonT(60), <1>3, <1>4, <1>5, SingleSound

LEMMA RefreshSound == HandlerSound("refresh")
  <1>1. MakesOne("refresh", Call(Refresh, Opaque, 401))
    BY DEF MakesOne, Routes, refreshHandler, Handler, Statuses, NoToken
  <1>2. PICK a : a = Check({"Unauthenticated"})
    OBVIOUS
  <1>3. a \in PlainAccess /\ ~a.optional /\ ~a.writes
    <2>1. a.failure = "Internal" /\ ~a.optional /\ ~a.writes
      BY <1>2 DEF Check, Access
    <2> QED
      BY <1>2, <2>1, Checks DEF PlainAccess
  <1>4. Single(Refresh, a)
    BY <1>2, <1>3 DEF Single, Refresh, Rpc
  <1>5. Uniform(Call(Refresh, Opaque, 401), Refresh, 401)
    BY DEF Uniform, Call
  <1>6. 401 \in Statuses /\ Told("refresh", 401)
    BY DEF Statuses, Told
  <1>7. CallSound("refresh", 1, Call(Refresh, Opaque, 401), TRUE)
    BY ZenonT(60), <1>4, <1>5, <1>6, SingleSound
  <1> QED
    BY <1>1, <1>7, OneCall

-----------------------------------------------------------------------------
(* The handlers that pass codes on: there the order of the accesses decides. *)

\* Calls that know the caller's mistakes, and answer 500 to everything else.
Minds(c, rpc) ==
    /\ c.rpc = rpc /\ \A code \in Codes : Says(c, code) \in Statuses
    /\ Says(c, "Internal") = 500 /\ Says(c, "Unavailable") = 500

LEMMA AwareMinds ==
    ASSUME NEW rpc
    PROVE  Minds(AwareCall(rpc), rpc)
  <1>1. AwareCall(rpc) = [rpc |-> rpc, errors |-> writeGrpcAwareError, default |-> 500]
    BY DEF AwareCall, Call
  <1> QED
    BY <1>1 DEF Minds, Says, Status, writeGrpcAwareError, Codes, Statuses

\* Mistakes of the caller's are found up to the e-th access, and before it nothing
\* is written and no failure passed over.
Orderly(rpc, e) ==
    /\ Typed(rpc) /\ e \in Nat
    /\ \A i \in 1 .. Len(rpc.accesses) :
          /\ rpc.accesses[i].failure \in {"OK", "Internal"}
          /\ i < e => ~rpc.accesses[i].writes /\ rpc.accesses[i].failure # "OK"
          /\ i > e => rpc.accesses[i].refuses \subseteq {"Internal"}

LEMMA AttentiveAccess ==
    ASSUME NEW r, NEW k, NEW c, NEW rpc, NEW e, ~Second(r, k), Minds(c, rpc),
           Orderly(rpc, e), NEW i \in 1 .. Len(rpc.accesses)
    PROVE  AccessSound(r, k, c, i)
  <1> DEFINE a == rpc.accesses
  <1>1. /\ Len(a) \in 0 .. 6 /\ a[i] \in AccessRecord /\ c.rpc = rpc /\ e \in Nat /\ i \in Nat
        /\ a[i].failure \in {"OK", "Internal"}
        /\ i > e => a[i].refuses \subseteq {"Internal"}
    BY DEF Orderly, Typed, Minds
  <1>2. a[i].writes \in BOOLEAN /\ a[i].refuses \subseteq Codes
    BY <1>1 DEF AccessRecord
  <1>3. ASSUME NEW stored \in BOOLEAN, NEW broke \in BOOLEAN
        PROVE  Fits(r, 500, stored, broke)
    BY DEF Fits, Untouched, Told, Statuses
  <1>4. Says(c, "Internal") = 500
    BY DEF Minds
  <1>5. a[i].failure # "OK" => Fits(r, Says(c, a[i].failure), WritesBefore(a, i + 1), TRUE)
    <2>1. WritesBefore(a, i + 1) \in BOOLEAN
      BY DEF WritesBefore
    <2>2. Fits(r, Says(c, "Internal"), WritesBefore(a, i + 1), TRUE)
      BY ZenonT(60), <1>3, <1>4, <2>1
    <2> QED
      BY <1>1, <2>2
  <1>6. ASSUME NEW code \in a[i].refuses
        PROVE  /\ code # "OK"
               /\ Fits(r, Says(c, code), WritesBefore(a, i), WarnsBefore(a, i) \/ Second(r, k))
    <2>1. code \in Codes /\ code # "OK"
      BY <1>2, <1>6, CodesApart
    <2>2. CASE i > e
      <3>1. code = "Internal"
        BY <1>1, <1>6, <2>2
      <3>2. WritesBefore(a, i) \in BOOLEAN /\ (WarnsBefore(a, i) \/ Second(r, k)) \in BOOLEAN
        BY DEF WritesBefore, WarnsBefore, Second
      <3>3. PICK s : s = 500
        OBVIOUS
      <3>4. Fits(r, 500, WritesBefore(a, i), WarnsBefore(a, i) \/ Second(r, k))
        BY ZenonT(60), <1>3, <3>2
      <3>5. Says(c, code) = s
        BY <1>4, <3>1, <3>3
      <3>6. Fits(r, Says(c, code), WritesBefore(a, i), WarnsBefore(a, i) \/ Second(r, k))
        BY <3>3, <3>4, <3>5
      <3> QED
        BY <2>1, <3>6
    <2>3. CASE ~(i > e)
      <3>1. ASSUME NEW j \in 1 .. i - 1
            PROVE  ~a[j].writes /\ a[j].failure # "OK"
        <4>1. j < e /\ j \in 1 .. Len(a)
          BY <1>1, <2>3
        <4> QED
          BY <4>1 DEF Orderly
      <3>2. ~WritesBefore(a, i) /\ ~WarnsBefore(a, i)
        BY <3>1 DEF WritesBefore, WarnsBefore
      <3>3. Says(c, code) \in Statuses
        BY <2>1 DEF Minds
      <3> QED
        BY <2>1, <3>2, <3>3 DEF Fits, Untouched
    <2> QED
      BY <2>2, <2>3
  <1> QED
    BY <1>1, <1>2, <1>5, <1>6 DEF AccessSound

LEMMA AttentiveSound ==
    ASSUME NEW r, NEW k, NEW c, NEW rpc, NEW e, ~Second(r, k), Minds(c, rpc),
           Orderly(rpc, e)
    PROVE  /\ (Told(r, 200) \/ ~AnyWarn(rpc)) => CallSound(r, k, c, TRUE)
           /\ r = "getAvatar" /\ ~AnyWrite(rpc) => CallSound(r, k, c, FALSE)
  <1>1. \A i \in 1 .. Len(rpc.accesses) : AccessSound(r, k, c, i)
    BY AttentiveAccess
  <1>2. c.rpc = rpc /\ Len(rpc.accesses) \in 0 .. 6
    BY DEF Minds, Orderly, Typed
  <1>3. Says(c, "Unauthenticated") \in Statuses /\ Says(c, "Unavailable") = 500
    BY DEF Minds, Codes
  <1>4. Fits(r, Says(c, "Unavailable"), WritesBefore(rpc.accesses, Len(rpc.accesses) + 1), TRUE)
    <2>1. Fits(r, 500, WritesBefore(rpc.accesses, Len(rpc.accesses) + 1), TRUE)
      BY DEF Fits, Untouched, Told, Statuses
    <2> QED
      BY <1>3, <2>1
  <1>5. ASSUME Told(r, 200) \/ ~AnyWarn(rpc)
        PROVE  CallSound(r, k, c, TRUE)
    BY <1>1, <1>2, <1>3, <1>4, <1>5 DEF CallSound, AnyWarn
  <1>6. ASSUME r = "getAvatar", ~AnyWrite(rpc)
        PROVE  CallSound(r, k, c, FALSE)
    BY <1>1, <1>2, <1>3, <1>4, <1>6 DEF CallSound, AnyWrite
  <1> QED
    BY <1>5, <1>6

\* An access that may come before the caller's mistakes are all found, the one at
\* which the last of them is, and one after it.
Early(a) == a \in AccessRecord /\ ~a.writes /\ a.failure = "Internal"

Middle(a) == a \in AccessRecord /\ a.failure \in {"OK", "Internal"}

Late(a) == Middle(a) /\ a.refuses \subseteq {"Internal"}

LEMMA ChecksAreEarly ==
    ASSUME NEW refuses \in SUBSET Codes
    PROVE  Early(Check(refuses))
  <1>1. Check(refuses).writes = FALSE /\ Check(refuses).failure = "Internal"
    BY DEF Check, Access
  <1> QED
    BY <1>1, CheckTyped DEF Early

LEMMA ReadsAreEarly ==
    ASSUME NEW refuses \in SUBSET Codes
    PROVE  Early(Read("Internal", refuses))
  <1>1. Read("Internal", refuses).writes = FALSE
        /\ Read("Internal", refuses).failure = "Internal"
    BY DEF Read, Access
  <1>2. "Internal" \in Codes \cup {"OK"}
    BY DEF Codes
  <1> QED
    BY <1>1, <1>2, ReadTyped DEF Early

LEMMA EarlyIsMiddle ==
    ASSUME NEW a, Early(a)
    PROVE  Middle(a)
  BY DEF Early, Middle

LEMMA WritesAreMiddle ==
    ASSUME NEW refuses \in SUBSET Codes
    PROVE  Middle(Write("Internal", refuses))
  <1>1. Write("Internal", refuses).failure = "Internal"
    BY DEF Write, Access
  <1>2. "Internal" \in Codes \cup {"OK"}
    BY DEF Codes
  <1> QED
    BY <1>1, <1>2, WriteTyped DEF Middle

LEMMA LinksAreLate ==
    /\ Late(enrichAvatarURL) /\ ~enrichAvatarURL.writes
    /\ enrichAvatarURL.failure = "OK" /\ enrichAvatarURL.refuses = {}
    /\ Late(enrichSenderAvatar)
  <1>1. PICK a : a = Access("bucket", FALSE, "OK", {})
    OBVIOUS
  <1>2. a \in AccessRecord
    BY <1>1, AccessTyped, Refusals
  <1>3. ~a.writes /\ a.refuses = {}
    BY <1>1 DEF Access
  <1>4. PICK b : b = Maybe(Warned(a))
    OBVIOUS
  <1>5. b \in AccessRecord /\ b.failure = "OK" /\ ~b.writes /\ b.refuses = {}
    BY <1>2, <1>3, <1>4, WarnedTyped, MaybeTyped
  <1>6. enrichAvatarURL = b /\ enrichSenderAvatar = b
    BY <1>1, <1>4 DEF enrichAvatarURL, enrichSenderAvatar
  <1> QED
    BY <1>5, <1>6 DEF Late, Middle

LEMMA OrderlyOne ==
    ASSUME NEW rpc, NEW a, rpc.accesses = <<a>>, Middle(a)
    PROVE  Orderly(rpc, 1)
  <1>1. Len(rpc.accesses) = 1 /\ rpc.accesses[1] = a
    OBVIOUS
  <1>2. \A i \in 1 .. 1 : i = 1
    OBVIOUS
  <1>3. Typed(rpc)
    BY DEF Typed, Middle
  <1> QED
    BY <1>1, <1>2, <1>3 DEF Orderly, Middle

LEMMA OrderlyTwo ==
    ASSUME NEW rpc, NEW a, NEW b, rpc.accesses = <<a, b>>, Early(a), Middle(b)
    PROVE  Orderly(rpc, 2)
  <1>1. Len(rpc.accesses) = 2 /\ rpc.accesses[1] = a /\ rpc.accesses[2] = b
    OBVIOUS
  <1>2. \A i \in 1 .. 2 : i = 1 \/ i = 2
    OBVIOUS
  <1>3. Typed(rpc)
    BY DEF Typed, Early, Middle
  <1> QED
    BY <1>1, <1>2, <1>3 DEF Orderly, Early, Middle

LEMMA OrderlyThree ==
    ASSUME NEW rpc, NEW a, NEW b, NEW c, rpc.accesses = <<a, b, c>>, Early(a)
    PROVE  /\ Early(b) /\ Middle(c) => Orderly(rpc, 3)
           /\ Middle(b) /\ Late(c) => Orderly(rpc, 2)
  <1>1. /\ Len(rpc.accesses) = 3
        /\ rpc.accesses[1] = a /\ rpc.accesses[2] = b /\ rpc.accesses[3] = c
    OBVIOUS
  <1>2. \A i \in 1 .. 3 : i = 1 \/ i = 2 \/ i = 3
    OBVIOUS
  <1>3. ASSUME Early(b), Middle(c)
        PROVE  Orderly(rpc, 3)
    <2>1. Typed(rpc)
      BY <1>3 DEF Typed, Early, Middle
    <2> QED
      BY <1>1, <1>2, <1>3, <2>1 DEF Orderly, Early, Middle
  <1>4. ASSUME Middle(b), Late(c)
        PROVE  Orderly(rpc, 2)
    <2>1. Typed(rpc)
      BY <1>4 DEF Typed, Early, Middle, Late
    <2> QED
      BY <1>1, <1>2, <1>4, <2>1 DEF Orderly, Early, Middle, Late
  <1> QED
    BY <1>3, <1>4

LEMMA OrderlyFive ==
    ASSUME NEW rpc, NEW a, NEW b, NEW c, NEW d, NEW e, rpc.accesses = <<a, b, c, d, e>>,
           Early(a), Early(b), Middle(c), Late(d), Late(e)
    PROVE  Orderly(rpc, 3)
  <1>1. /\ Len(rpc.accesses) = 5
        /\ rpc.accesses[1] = a /\ rpc.accesses[2] = b /\ rpc.accesses[3] = c
        /\ rpc.accesses[4] = d /\ rpc.accesses[5] = e
    OBVIOUS
  <1>2. \A i \in 1 .. 5 : i = 1 \/ i = 2 \/ i = 3 \/ i = 4 \/ i = 5
    OBVIOUS
  <1>3. Typed(rpc)
    BY DEF Typed, Early, Middle, Late
  <1> QED
    BY <1>1, <1>2, <1>3 DEF Orderly, Early, Middle, Late

\* A handler with one attentive call, after whose end a failure passed over may
\* show in the answer.
LEMMA AttentiveHandlers ==
    ASSUME NEW r, NEW c, NEW rpc, NEW e, MakesOne(r, c), Minds(c, rpc), Orderly(rpc, e),
           Told(r, 200) \/ ~AnyWarn(rpc)
    PROVE  HandlerSound(r)
  <1>1. ~Second(r, 1)
    BY DEF Second
  <1>2. CallSound(r, 1, c, TRUE)
    BY <1>1, AttentiveSound
  <1> QED
    BY <1>2, OneCall

\* What is only written or only read reports its failures.
LEMMA NoWarn ==
    ASSUME NEW rpc, Typed(rpc),
           \A i \in 1 .. Len(rpc.accesses) : rpc.accesses[i].failure # "OK"
    PROVE  ~AnyWarn(rpc)
  <1>1. \A j \in 1 .. (Len(rpc.accesses) + 1) - 1 : j \in 1 .. Len(rpc.accesses)
    BY DEF Typed
  <1> QED
    BY <1>1 DEF AnyWarn, WarnsBefore

LEMMA NoWarnInThree ==
    ASSUME NEW rpc, NEW a, NEW b, NEW c, rpc.accesses = <<a, b, c>>, Typed(rpc),
           a.failure = "Internal", b.failure = "Internal", c.failure = "Internal"
    PROVE  ~AnyWarn(rpc)
  <1>1. /\ Len(rpc.accesses) = 3
        /\ rpc.accesses[1] = a /\ rpc.accesses[2] = b /\ rpc.accesses[3] = c
    OBVIOUS
  <1>2. \A i \in 1 .. 3 : i = 1 \/ i = 2 \/ i = 3
    OBVIOUS
  <1> QED
    BY <1>1, <1>2, NoWarn

LEMMA GetProfileOrderly == Orderly(GetProfile, 2) /\ ~AnyWrite(GetProfile)
  <1>1. {"NotFound", "Internal"} \in SUBSET Codes
    BY DEF Codes
  <1>2. Early(FindInfoByID)
    BY <1>1, ReadsAreEarly DEF FindInfoByID
  <1>3. GetProfile.accesses = <<FindInfoByID, enrichAvatarURL>>
    BY DEF GetProfile, Rpc
  <1>4. /\ Len(GetProfile.accesses) = 2 /\ GetProfile.accesses[1] = FindInfoByID
        /\ GetProfile.accesses[2] = enrichAvatarURL
    BY <1>3
  <1>5. \A i \in 1 .. 2 : i = 1 \/ i = 2
    OBVIOUS
  <1>6. ~FindInfoByID.writes /\ ~enrichAvatarURL.writes
    BY <1>2, LinksAreLate DEF Early
  <1>7. ~AnyWrite(GetProfile)
    BY <1>4, <1>5, <1>6 DEF AnyWrite, WritesBefore
  <1>8. Middle(enrichAvatarURL)
    BY LinksAreLate DEF Late
  <1> QED
    BY <1>2, <1>3, <1>7, <1>8, OrderlyTwo

LEMMA GetProfileSound == HandlerSound("getProfile")
  <1>1. MakesOne("getProfile", AwareCall(GetProfile))
    BY DEF MakesOne, Routes, getProfileHandler, Handler, Statuses, NoToken
  <1>2. Told("getProfile", 200)
    BY DEF Told, Unillustrated
  <1> QED
    BY <1>1, <1>2, AwareMinds, GetProfileOrderly, AttentiveHandlers

LEMMA GetAvatarSound == HandlerSound("getAvatar")
  <1>1. MakesTwo("getAvatar", AwareCall(GetProfile), Call(FetchAvatar, Opaque, 502))
    BY DEF MakesTwo, Routes, getAvatarHandler, Handler, Statuses, NoToken
  <1>2. ~Second("getAvatar", 1)
    BY DEF Second
  <1>3. CallSound("getAvatar", 1, AwareCall(GetProfile), FALSE)
    BY <1>2, AwareMinds, GetProfileOrderly, AttentiveSound
  <1> QED
    BY <1>1, <1>3, FetchAvatarSound, TwoCalls

LEMMA MessagePageSound == HandlerSound("messagePage")
  <1>1. MakesOne("messagePage", AwareCall(MessagePage))
    BY DEF MakesOne, Routes, messagePageHandler, Handler, Statuses, NoToken
  <1>2. Told("messagePage", 200)
    BY DEF Told, Unillustrated
  <1>3. {"InvalidArgument"} \in SUBSET Codes /\ {"PermissionDenied"} \in SUBSET Codes
        /\ {} \in SUBSET Codes
    BY DEF Codes
  <1>4. PICK a : a = Number
    OBVIOUS
  <1>5. PICK b : b = Read("Internal", {"PermissionDenied"})
    OBVIOUS
  <1>6. PICK c : c = Read("Internal", {})
    OBVIOUS
  <1>7. PICK d : d = Maybe(Warned(Write("OK", {})))
    OBVIOUS
  <1>8. Early(a) /\ Early(b) /\ Early(c)
    BY <1>3, <1>4, <1>5, <1>6, ChecksAreEarly, ReadsAreEarly DEF Number
  <1>9. Late(d)
    <2>1. PICK w : w = Write("OK", {})
      OBVIOUS
    <2>2. w \in AccessRecord /\ w.refuses = {}
      BY <2>1, Accesses1 DEF Write, Access
    <2>3. d \in AccessRecord /\ d.failure = "OK" /\ d.refuses = {}
      BY <1>7, <2>1, <2>2, WarnedTyped, MaybeTyped
    <2> QED
      BY <2>3 DEF Late, Middle
  <1>10. MessagePage.accesses = <<a, b, c, d, enrichSenderAvatar>>
    BY <1>4, <1>5, <1>6, <1>7 DEF MessagePage, Rpc
  <1>11. Middle(c) /\ Late(enrichSenderAvatar)
    BY <1>8, EarlyIsMiddle, LinksAreLate
  <1>12. Orderly(MessagePage, 3)
    BY <1>8, <1>9, <1>10, <1>11, OrderlyFive
  <1> QED
    BY <1>1, <1>2, <1>12, AwareMinds, AttentiveHandlers

LEMMA SettingsSound == HandlerSound("settings")
  <1>1. MakesOne("settings", AwareCall(Settings))
    BY DEF MakesOne, Routes, settingsHandler, Handler, Statuses, NoToken
  <1>2. {"Internal"} \in SUBSET Codes
    BY DEF Codes
  <1>3. Early(FindSettingsByProfileId)
    BY <1>2, ReadsAreEarly DEF FindSettingsByProfileId
  <1>4. Settings.accesses = <<FindSettingsByProfileId>>
    BY DEF Settings, Rpc
  <1>5. Orderly(Settings, 1)
    BY <1>3, <1>4, EarlyIsMiddle, OrderlyOne
  <1>6. ~AnyWarn(Settings)
    <2>1. Len(Settings.accesses) = 1 /\ Settings.accesses[1] = FindSettingsByProfileId
      BY <1>4
    <2>2. \A i \in 1 .. 1 : i = 1
      OBVIOUS
    <2> QED
      BY <1>3, <1>5, <2>1, <2>2, NoWarn DEF Orderly, Early
  <1> QED
    BY <1>1, <1>5, <1>6, AwareMinds, AttentiveHandlers

LEMMA UploadAvatarSound == HandlerSound("uploadAvatar")
  <1>1. MakesOne("uploadAvatar", AwareCall(UploadAvatar))
    BY DEF MakesOne, Routes, uploadAvatarHandler, Handler, Statuses, NoToken, BadBody
  <1>2. {"InvalidArgument"} \in SUBSET Codes /\ {"Internal"} \in SUBSET Codes
        /\ {} \in SUBSET Codes
    BY DEF Codes
  <1>3. PICK a : a = Check({"InvalidArgument"})
    OBVIOUS
  <1>4. PICK b : b = Access("bucket", TRUE, "Internal", {"Internal"})
    OBVIOUS
  <1>5. PICK c : c = Write("Internal", {})
    OBVIOUS
  <1>6. Early(a)
    BY <1>2, <1>3, ChecksAreEarly
  <1>7. Middle(b) /\ b.failure = "Internal"
    <2>1. b \in AccessRecord
      BY <1>2, <1>4, Refusals, AccessTyped
    <2>2. b.failure = "Internal"
      BY <1>4 DEF Access
    <2> QED
      BY <2>1, <2>2 DEF Middle
  <1>8. Late(c) /\ c.failure = "Internal"
    <2>1. c.refuses = {} /\ c.failure = "Internal"
      BY <1>5 DEF Write, Access
    <2>2. Middle(c)
      BY <1>2, <1>5, WritesAreMiddle
    <2> QED
      BY <2>1, <2>2 DEF Late
  <1>9. UploadAvatar.accesses = <<a, b, c>>
    BY <1>3, <1>4, <1>5 DEF UploadAvatar, Rpc
  <1>10. Orderly(UploadAvatar, 2)
    BY <1>6, <1>7, <1>8, <1>9, OrderlyThree
  <1>11. ~AnyWarn(UploadAvatar)
    BY <1>6, <1>7, <1>8, <1>9, <1>10, NoWarnInThree DEF Orderly, Early
  <1> QED
    BY <1>1, <1>10, <1>11, AwareMinds, AttentiveHandlers

LEMMA CreateFolderSound == HandlerSound("createFolder")
  <1>1. MakesOne("createFolder", AwareCall(CreateFolder))
    BY DEF MakesOne, Routes, createFolderHandler, Handler, Statuses, NoToken, BadBody
  <1>2. {"InvalidArgument"} \in SUBSET Codes /\ {"AlreadyExists", "Internal"} \in SUBSET Codes
    BY DEF Codes
  <1>3. PICK b : b = Write("Internal", {"AlreadyExists", "Internal"})
    OBVIOUS
  <1>4. Early(validateFolderName)
    BY <1>2, ChecksAreEarly DEF validateFolderName
  <1>5. Middle(b) /\ b.failure = "Internal"
    <2>1. b.failure = "Internal"
      BY <1>3 DEF Write, Access
    <2> QED
      BY <1>2, <1>3, <2>1, WritesAreMiddle
  <1>6. CreateFolder.accesses = <<validateFolderName, b>>
    BY <1>3 DEF CreateFolder, Rpc
  <1>7. Orderly(CreateFolder, 2)
    BY <1>4, <1>5, <1>6, OrderlyTwo
  <1>8. ~AnyWarn(CreateFolder)
    <2>1. /\ Len(CreateFolder.accesses) = 2
          /\ CreateFolder.accesses[1] = validateFolderName /\ CreateFolder.accesses[2] = b
      BY <1>6
    <2>2. \A i \in 1 .. 2 : i = 1 \/ i = 2
      OBVIOUS
    <2> QED
      BY <1>4, <1>5, <1>7, <2>1, <2>2, NoWarn DEF Orderly, Early
  <1> QED
    BY <1>1, <1>7, <1>8, AwareMinds, AttentiveHandlers

LEMMA RenameFolderSound == HandlerSound("renameFolder")
  <1>1. MakesOne("renameFolder", AwareCall(RenameFolder))
    BY DEF MakesOne, Routes, renameFolderHandler, Handler, Statuses, NoToken, BadBody
  <1>2. {"InvalidArgument"} \in SUBSET Codes /\ {"AlreadyExists", "Internal"} \in SUBSET Codes
    BY DEF Codes
  <1>3. PICK c : c = Write("Internal", {"AlreadyExists", "Internal"})
    OBVIOUS
  <1>4. Early(Number) /\ Early(validateFolderName)
    BY <1>2, ChecksAreEarly DEF Number, validateFolderName
  <1>5. Middle(c) /\ c.failure = "Internal"
    <2>1. c.failure = "Internal"
      BY <1>3 DEF Write, Access
    <2> QED
      BY <1>2, <1>3, <2>1, WritesAreMiddle
  <1>6. RenameFolder.accesses = <<Number, validateFolderName, c>>
    BY <1>3 DEF RenameFolder, Rpc
  <1>7. Orderly(RenameFolder, 3)
    BY <1>4, <1>5, <1>6, OrderlyThree
  <1>8. ~AnyWarn(RenameFolder)
    BY <1>4, <1>5, <1>6, <1>7, NoWarnInThree DEF Orderly, Early
  <1> QED
    BY <1>1, <1>7, <1>8, AwareMinds, AttentiveHandlers

LEMMA SignupSound == HandlerSound("signup")
  <1>1. MakesOne("signup", Call(Signup, BadRequests, 500))
    BY DEF MakesOne, Routes, signupHandler, Handler, Statuses
  <1>2. Minds(Call(Signup, BadRequests, 500), Signup)
    <2>1. Call(Signup, BadRequests, 500) =
             [rpc |-> Signup, errors |-> BadRequests, default |-> 500]
      BY DEF Call
    <2> QED
      BY <2>1 DEF Minds, Says, Status, BadRequests, Codes, Statuses
  <1>3. {"InvalidArgument"} \in SUBSET Codes /\ {"AlreadyExists"} \in SUBSET Codes
        /\ {"Internal"} \in SUBSET Codes
    BY DEF Codes
  <1>4. PICK a : a = Check({"InvalidArgument"})
    OBVIOUS
  <1>5. PICK b : b = Read("Internal", {"AlreadyExists"})
    OBVIOUS
  <1>6. PICK c : c = Write("Internal", {"Internal"})
    OBVIOUS
  <1>7. Early(a) /\ Early(b)
    BY <1>3, <1>4, <1>5, ChecksAreEarly, ReadsAreEarly
  <1>8. Middle(c) /\ c.failure = "Internal"
    <2>1. c.failure = "Internal"
      BY <1>6 DEF Write, Access
    <2> QED
      BY <1>3, <1>6, <2>1, WritesAreMiddle
  <1>9. Signup.accesses = <<a, b, c>>
    BY <1>4, <1>5, <1>6 DEF Signup, Rpc
  <1>10. Orderly(Signup, 3)
    BY <1>7, <1>8, <1>9, OrderlyThree
  <1>11. ~AnyWarn(Signup)
    BY <1>7, <1>8, <1>9, <1>10, NoWarnInThree DEF Orderly, Early
  <1> QED
    BY <1>1, <1>2, <1>10, <1>11, AttentiveHandlers

\* The update passes its mistakes on after it has written: the exception that both
\* properties make.
LEMMA UpdateProfileSound == HandlerSound("updateProfile")
  <1>1. MakesOne("updateProfile", AwareCall(UpdateProfile))
    BY DEF MakesOne, Routes, updateProfileHandler, Handler, Statuses, NoToken, BadBody
  <1>2. PICK c : c = AwareCall(UpdateProfile)
    OBVIOUS
  <1>3. Minds(c, UpdateProfile)
    BY <1>2, AwareMinds
  <1>4. Says(c, "InvalidArgument") = 400
    BY <1>2 DEF AwareCall, Call, Says, Status, writeGrpcAwareError
  <1>5. PICK w : w = Write("InvalidArgument", {"InvalidArgument"})
    OBVIOUS
  <1>6. PICK f : f = FindInfoByID
    OBVIOUS
  <1>7. PICK l : l = enrichAvatarURL
    OBVIOUS
  <1>8. UpdateProfile.accesses = <<w, f, l>>
    BY <1>5, <1>6, <1>7 DEF UpdateProfile, Rpc
  <1>9. /\ Len(UpdateProfile.accesses) = 3 /\ UpdateProfile.accesses[1] = w
        /\ UpdateProfile.accesses[2] = f /\ UpdateProfile.accesses[3] = l
    BY <1>8
  <1>10. w.writes = TRUE /\ w.failure = "InvalidArgument" /\ w.refuses = {"InvalidArgument"}
    BY <1>5 DEF Write, Access
  <1>11. f.writes = FALSE /\ f.failure = "Internal" /\ f.refuses = {"NotFound", "Internal"}
    BY <1>6 DEF FindInfoByID, Read, Access
  <1>12. l.writes \in BOOLEAN /\ l.failure = "OK" /\ l.refuses = {}
    BY <1>7, LinksAreLate DEF Late, Middle, AccessRecord
  <1> DEFINE a == UpdateProfile.accesses
             r == "updateProfile"
  <1>13. ~WarnsBefore(a, 1) /\ ~WarnsBefore(a, 2) /\ ~Second(r, 1)
    <2>1. \A j \in 1 .. 1 : j = 1
      OBVIOUS
    <2> QED
      BY <1>9, <1>10, <2>1 DEF WarnsBefore, Second
  <1>14. ASSUME NEW stored \in BOOLEAN, NEW broke \in BOOLEAN
         PROVE  /\ Fits(r, 400, stored, broke) /\ Fits(r, 500, stored, broke)
                /\ Fits(r, 404, stored, FALSE)
    BY DEF Fits, Untouched, Told, Statuses
  <1>15. c.rpc = UpdateProfile /\ Says(c, "Internal") = 500 /\ Says(c, "Unavailable") = 500
         /\ Says(c, "NotFound") \in Statuses
    BY <1>3 DEF Minds, Codes
  <1>16. \A i \in 1 .. 4 : WritesBefore(a, i) \in BOOLEAN /\ WarnsBefore(a, i) \in BOOLEAN
    BY DEF WritesBefore, WarnsBefore
  <1>17. AccessSound(r, 1, c, 1)
    <2>1. Fits(r, Says(c, "InvalidArgument"), WritesBefore(a, 1),
               WarnsBefore(a, 1) \/ Second(r, 1))
      BY <1>4, <1>13, <1>14, <1>16 DEF Fits, Untouched, Told, Statuses
    <2>2. Fits(r, Says(c, "InvalidArgument"), WritesBefore(a, 1 + 1), TRUE)
      BY <1>4 DEF Fits, Untouched, Told, Statuses
    <2>3. ASSUME NEW code \in a[1].refuses
          PROVE  /\ code # "OK"
                 /\ Fits(r, Says(c, code), WritesBefore(a, 1), WarnsBefore(a, 1) \/ Second(r, 1))
      <3>1. code = "InvalidArgument"
        BY <1>9, <1>10
      <3> QED
        BY <2>1, <3>1
    <2>4. Fits(r, Says(c, a[1].failure), WritesBefore(a, 1 + 1), TRUE)
      <3>1. a[1].failure = "InvalidArgument"
        BY <1>9, <1>10
      <3> QED
        BY <2>2, <3>1
    <2>5. a[1].writes \in BOOLEAN
      BY <1>9, <1>10
    <2> HIDE DEF r, a
    <2>6. c.rpc.accesses = a
      BY <1>15 DEF a
    <2> QED
      BY <1>13, <2>3, <2>4, <2>5, <2>6 DEF AccessSound
  <1>18. AccessSound(r, 1, c, 2)
    <2>1. Fits(r, Says(c, "NotFound"), WritesBefore(a, 2), WarnsBefore(a, 2) \/ Second(r, 1))
      BY <1>13, <1>15 DEF Fits, Untouched
    <2>2. Fits(r, Says(c, "Internal"), WritesBefore(a, 2 + 1), TRUE)
      BY <1>15 DEF Fits, Untouched, Told, Statuses
    <2>3. ASSUME NEW code \in a[2].refuses
          PROVE  /\ code # "OK"
                 /\ Fits(r, Says(c, code), WritesBefore(a, 2), WarnsBefore(a, 2) \/ Second(r, 1))
      <3>1. code \in {"NotFound", "Internal"}
        BY <1>9, <1>11
      <3>2. Fits(r, Says(c, "Internal"), WritesBefore(a, 2), WarnsBefore(a, 2) \/ Second(r, 1))
        BY <1>13, <1>15 DEF Fits, Untouched, Told, Statuses
      <3> QED
        BY <2>1, <3>1, <3>2
    <2>4. Fits(r, Says(c, a[2].failure), WritesBefore(a, 2 + 1), TRUE)
      <3>1. a[2].failure = "Internal"
        BY <1>9, <1>11
      <3> QED
        BY <2>2, <3>1
    <2>5. a[2].writes \in BOOLEAN
      BY <1>9, <1>11
    <2> HIDE DEF r, a
    <2>6. c.rpc.accesses = a
      BY <1>15 DEF a
    <2> QED
      BY <1>13, <2>3, <2>4, <2>5, <2>6 DEF AccessSound
  <1>19. AccessSound(r, 1, c, 3)
    BY <1>9, <1>12, <1>13, <1>15 DEF AccessSound
  <1>20. \A i \in 1 .. Len(a) : AccessSound(r, 1, c, i)
    <2>1. \A i \in 1 .. 3 : i = 1 \/ i = 2 \/ i = 3
      OBVIOUS
    <2> QED
      BY <1>9, <1>17, <1>18, <1>19, <2>1
  <1>21. Fits(r, Says(c, "Unavailable"), WritesBefore(a, Len(a) + 1), TRUE)
    BY <1>15 DEF Fits, Untouched, Told, Statuses
  <1>22. Says(c, "Unauthenticated") \in Statuses /\ Told(r, 200) /\ Len(a) \in 0 .. 6
    <2>1. Says(c, "Unauthenticated") \in Statuses
      BY <1>3 DEF Minds, Codes
    <2>2. Told(r, 200)
      BY DEF Told, Unillustrated
    <2> QED
      BY <1>9, <2>1, <2>2
  <1>23. CallSound(r, 1, c, TRUE)
    BY <1>13, <1>15, <1>20, <1>21, <1>22 DEF CallSound
  <1>24. CallSound(r, 1, AwareCall(UpdateProfile), TRUE)
    BY <1>2, <1>23
  <1> QED
    BY <1>1, <1>24, OneCall

LEMMA TablesSound == \A r \in DOMAIN Routes : HandlerSound(r)
  <1>1. DOMAIN Routes =
           {"login", "signup", "refresh", "logout", "getProfile", "updateProfile",
            "settings", "uploadAvatar", "getAvatar", "messagePage", "reply", "send",
            "markAsSpam", "moveToFolder", "createFolder", "inbox", "getFolder",
            "getFolders", "renameFolder", "deleteFolder", "deleteMessageFromFolder",
            "saveDraft", "deleteDraft", "sendDraft"}
    BY DEF Routes
  <1> QED
    BY <1>1, LoginSound, SignupSound, RefreshSound, LogoutSound, GetProfileSound,
       UpdateProfileSound, SettingsSound, UploadAvatarSound, GetAvatarSound,
       MessagePageSound, ReplySound, SendSound, MarkAsSpamSound, MoveToFolderSound,
       CreateFolderSound, InboxSound, GetFolderSound, GetFoldersSound, RenameFolderSound,
       DeleteFolderSound, DeleteMessageFromFolderSound, SaveDraftSound, DeleteDraftSound,
       SendDraftSound

LEMMA StringsApart ==
    /\ 0 \notin Statuses /\ 200 \in Statuses
    /\ Statuses \cup {0} = {0, 200, 400, 401, 403, 404, 409, 500, 502}
  BY DEF Statuses

\* The call under way, as the tables have it.
LEMMA Here ==
    ASSUME RequestInv, Active, request.status = 0
    PROVE  /\ request.route \in DOMAIN Routes
           /\ Len(ThisHandler.calls) \in {1, 2}
           /\ request.call \in 1 .. Len(ThisHandler.calls)
           /\ ThisHandler.rejects \cup ThisHandler.absent \subseteq Statuses
           /\ CallSound(request.route, request.call, ThisCall,
                        request.call = Len(ThisHandler.calls))
  <1>1. request.route \in DOMAIN Routes /\ request.call \in 1 .. 2
    BY DEF RequestInv, Request, Active
  <1>2. HandlerSound(request.route)
    BY <1>1, TablesSound
  <1>3. request.call <= Len(ThisHandler.calls) /\ Len(ThisHandler.calls) \in {1, 2}
    BY <1>2 DEF RequestInv, UnderWay, HandlerSound, ThisHandler
  <1>4. request.call \in 1 .. Len(ThisHandler.calls)
    BY <1>1, <1>3
  <1> QED
    BY <1>1, <1>2, <1>3, <1>4 DEF HandlerSound, ThisHandler, ThisCall

\* What a sequence of accesses wrote is still written further on.
LEMMA Later ==
    ASSUME NEW a, NEW i \in Nat, NEW k \in Nat, i <= k
    PROVE  /\ WritesBefore(a, i) => WritesBefore(a, k)
           /\ WarnsBefore(a, i) => WarnsBefore(a, k)
  <1>1. \A j \in 1 .. i - 1 : j \in 1 .. k - 1
    OBVIOUS
  <1> QED
    BY <1>1 DEF WritesBefore, WarnsBefore

\* The tables decide of an answer with an error code.
LEMMA Coded ==
    ASSUME NEW r \in Request, r.route = request.route, r.route # "none",
           r.call = request.call,
           NEW code, code # "OK", request' = Receive(r, code), Serving("gateway")',
           Fits(r.route, Says(ThisCall, code), r.stored, r.broke)
    PROVE  RequestInv'
  <1>1. PICK s \in Statuses : s = Says(ThisCall, code)
    BY DEF Fits
  <1>2. request' = [r EXCEPT !.pc = 0, !.status = s]
    BY <1>1 DEF Receive, Says
  <1>3. /\ request' \in Request /\ request'.route = r.route /\ request'.pc = 0
        /\ request'.status = s /\ request'.stored = r.stored /\ request'.broke = r.broke
    <2>1. 0 \in 0 .. 7
      OBVIOUS
    <2> QED
      BY ZenonT(30), <1>2, <2>1 DEF Request
  <1>4. s # 0
    BY StringsApart
  <1>5. Active'
    BY <1>3 DEF Active
  <1>6. Answered'
    BY <1>1, <1>3, <1>5 DEF Answered
  <1> QED
    BY <1>3, <1>4, <1>5, <1>6 DEF RequestInv, UnderWay

\* A service that is gone is told of, whatever was stored before.
LEMMA Lost ==
    ASSUME RequestInv, Active, request.status = 0, request' = Unreachable(request),
           Serving("gateway")'
    PROVE  RequestInv'
  <1> DEFINE r == [request EXCEPT !.broke = TRUE]
  <1>1. /\ r \in Request /\ r.route = request.route /\ r.call = request.call
        /\ r.stored = request.stored /\ r.broke = TRUE
    BY DEF RequestInv, Request
  <1>2. request' = Receive(r, "Unavailable")
    BY DEF Unreachable
  <1>3. CallSound(request.route, request.call, ThisCall,
                  request.call = Len(ThisHandler.calls))
    BY Here
  <1>4. /\ Len(Accesses) \in 0 .. 6
        /\ Fits(request.route, Says(ThisCall, "Unavailable"),
                WritesBefore(Accesses, Len(Accesses) + 1), TRUE)
    BY <1>3 DEF CallSound, Accesses
  <1>5. request.stored => WritesBefore(Accesses, Len(Accesses) + 1)
    <2>1. /\ request.stored => WritesBefore(Accesses, request.pc)
          /\ request.pc \in Nat /\ request.pc <= Len(Accesses) + 1
      BY DEF RequestInv, Request, UnderWay
    <2> QED
      BY <2>1, <1>4, Later
  <1> HIDE DEF r
  <1>6. Fits(r.route, Says(ThisCall, "Unavailable"), r.stored, r.broke)
    BY <1>1, <1>4, <1>5 DEF Fits, Untouched
  <1> QED
    BY <1>1, <1>2, <1>6, Coded DEF Active

\* The procedure goes on to its next access.
LEMMA Passed ==
    ASSUME RequestInv, AtAccess, Active, request.status = 0, Serving("gateway")',
           request' \in Request,
           request'.route = request.route, request'.call = request.call,
           request'.status = 0, request'.pc = request.pc + 1,
           request'.stored => request.stored \/ ThisAccess.writes,
           request'.broke => \/ request.broke /\ ~Second(request.route, request.call)
                             \/ ThisAccess.failure = "OK"
    PROVE  RequestInv'
  <1>1. /\ ThisHandler' = ThisHandler /\ ThisCall' = ThisCall /\ Accesses' = Accesses
    BY DEF ThisHandler, ThisCall, Accesses
  <1>2. request.pc \in 1 .. Len(Accesses) /\ request.pc \in Nat
    <2>1. request.pc \in 0 .. 7 /\ request.pc > 0 /\ request.pc <= Len(Accesses)
      BY DEF RequestInv, Request, AtAccess, AtService
    <2>2. Len(Accesses) \in 0 .. 6
      BY Here DEF CallSound, Accesses
    <2> QED
      BY <2>1, <2>2
  <1>3. /\ request.call <= Len(ThisHandler.calls)
        /\ request.stored => WritesBefore(Accesses, request.pc)
        /\ request.broke => \/ WarnsBefore(Accesses, request.pc)
                            \/ Second(request.route, request.call)
    BY DEF RequestInv, UnderWay
  <1>4. /\ WritesBefore(Accesses, request.pc) => WritesBefore(Accesses, request.pc + 1)
        /\ WarnsBefore(Accesses, request.pc) => WarnsBefore(Accesses, request.pc + 1)
    BY <1>2, Later
  <1>5. request.pc \in 1 .. (request.pc + 1) - 1
    BY <1>2
  <1>6. /\ ThisAccess.writes => WritesBefore(Accesses, request.pc + 1)
        /\ ThisAccess.failure = "OK" => WarnsBefore(Accesses, request.pc + 1)
    BY <1>5 DEF ThisAccess, WritesBefore, WarnsBefore
  <1>7. /\ request'.stored => WritesBefore(Accesses', request'.pc)
        /\ request'.broke => WarnsBefore(Accesses', request'.pc)
    BY <1>1, <1>3, <1>4, <1>6
  <1>8. request'.pc <= Len(Accesses') + 1
    <2>1. Len(Accesses) \in Nat
      BY Here DEF CallSound, Accesses
    <2> QED
      BY <1>1, <1>2, <2>1
  <1>9. UnderWay'
    BY <1>1, <1>3, <1>7, <1>8 DEF UnderWay
  <1>10. Active'
    BY DEF Active
  <1> QED
    BY <1>9, <1>10 DEF RequestInv, Answered

-----------------------------------------------------------------------------
(* Each step keeps the invariant. *)

LEMMA IdleIsSound ==
    ASSUME request' = Idle
    PROVE  RequestInv'
  <1>1. Idle \in Request /\ Idle.route = "none" /\ Idle.status = 0
    BY DEF Idle, Request
  <1> QED
    BY <1>1 DEF RequestInv, Active, UnderWay, Answered

\* Nothing of a request that the gateway holds has been stored, and only a
\* picture's link may have failed.
LEMMA Untaken ==
    ASSUME RequestInv, AtGateway
    PROVE  ~request.stored /\ (request.broke => Second(request.route, request.call))
  <1>1. /\ request.stored => WritesBefore(Accesses, 0)
        /\ request.broke => \/ WarnsBefore(Accesses, 0)
                            \/ Second(request.route, request.call)
    BY DEF RequestInv, UnderWay, AtGateway
  <1> QED
    BY <1>1 DEF WritesBefore, WarnsBefore

\* A request that is being worked on has not been answered.
LEMMA Unanswered ==
    ASSUME RequestInv, request.pc > 0
    PROVE  Active /\ request.status = 0 /\ request \in Request
  <1>1. Idle.pc = 0
    BY DEF Idle
  <1> QED
    BY <1>1 DEF RequestInv, Answered

LEMMA ArriveSound ==
    ASSUME RequestInv, NEW route \in DOMAIN Routes, Arrive(route), UNCHANGED deployment
    PROVE  RequestInv'
  <1>1. request' = [Idle EXCEPT !.route = route]
    BY DEF Arrive
  <1>2. /\ request' \in Request /\ request'.route = route /\ request'.call = 1
        /\ request'.pc = 0 /\ request'.status = 0
        /\ request'.stored = FALSE /\ request'.broke = FALSE
    <2>1. 0 \in 0 .. 7 /\ 1 \in 1 .. 2
      OBVIOUS
    <2>2. Idle \in Request
      BY <2>1 DEF Idle, Request
    <2>3. request' = [route |-> route, call |-> 1, pc |-> 0, status |-> 0,
                      stored |-> FALSE, broke |-> FALSE]
      BY <1>1 DEF Idle
    <2> QED
      BY <2>1, <2>3 DEF Request
  <1>3. Serving("gateway")'
    BY DEF Arrive, Serving, deployment
  <1>4. HandlerSound(route) /\ ThisHandler' = Routes[route]
        /\ ThisCall' = Routes[route].calls[1]
        /\ Accesses' = Routes[route].calls[1].rpc.accesses
    BY <1>2, TablesSound DEF ThisHandler, ThisCall, Accesses
  <1>5. Len(Routes[route].calls) \in {1, 2}
    BY <1>4 DEF HandlerSound
  <1>6. Len(Accesses') \in 0 .. 6
    <2>1. 1 \in 1 .. Len(Routes[route].calls)
      BY SMTT(30), <1>5
    <2>2. \A k \in 1 .. Len(Routes[route].calls) :
             CallSound(route, k, Routes[route].calls[k], k = Len(Routes[route].calls))
      BY <1>4 DEF HandlerSound
    <2>3. CallSound(route, 1, Routes[route].calls[1], 1 = Len(Routes[route].calls))
      BY <2>1, <2>2
    <2> QED
      BY <1>4, <2>3 DEF CallSound
  <1>7. UnderWay'
    BY <1>2, <1>4, <1>5, <1>6 DEF UnderWay
  <1>8. route # "none"
    BY DEF Routes
  <1>9. Active'
    BY <1>2, <1>8 DEF Active
  <1> QED
    BY <1>2, <1>3, <1>7, <1>9 DEF RequestInv, Answered

LEMMA RejectSound ==
    ASSUME RequestInv, Reject, Serving("gateway")'
    PROVE  RequestInv'
  <1>1. AtGateway /\ ~Unlinked /\ request \in Request /\ Active /\ request.status = 0
    BY DEF Reject, AtGateway, RequestInv
  <1>2. PICK s \in Statuses : request' = [request EXCEPT !.status = s]
    BY <1>1, Here DEF Reject
  <1>3. ~request.stored /\ ~request.broke
    BY <1>1, Untaken DEF Unlinked, Second
  <1>4. /\ request' \in Request /\ request'.route = request.route
        /\ request'.pc = request.pc /\ request'.status = s
        /\ request'.stored = request.stored /\ request'.broke = request.broke
    BY <1>1, <1>2 DEF Request
  <1>5. Answered' /\ Active'
    BY <1>1, <1>3, <1>4 DEF Answered, Active, AtGateway, Fits, Untouched
  <1>6. s # 0
    BY StringsApart
  <1> QED
    BY <1>4, <1>5, <1>6 DEF RequestInv, UnderWay

LEMMA ForwardSound ==
    ASSUME RequestInv, Forward, Serving("gateway")'
    PROVE  RequestInv'
  <1>1. AtGateway /\ request \in Request /\ Active /\ request.status = 0 /\ request.pc = 0
    BY DEF Forward, AtGateway, RequestInv
  <1>2. CASE request' = Unreachable(request)
    BY <1>1, <1>2, Lost
  <1>3. CASE request' = [request EXCEPT !.pc = 1]
    <2>1. /\ request' \in Request /\ request'.route = request.route
          /\ request'.call = request.call /\ request'.pc = 1 /\ request'.status = 0
          /\ request'.stored = request.stored /\ request'.broke = request.broke
      BY <1>1, <1>3 DEF Request
    <2>2. ~request.stored /\ (request.broke => Second(request.route, request.call))
      BY <1>1, Untaken
    <2>3. /\ ThisHandler' = ThisHandler /\ Accesses' = Accesses
      BY <2>1 DEF ThisHandler, ThisCall, Accesses
    <2>4. Len(Accesses) \in 0 .. 6 /\ request.call <= Len(ThisHandler.calls)
      <3>1. Len(Accesses) \in 0 .. 6
        BY <1>1, Here DEF CallSound, Accesses
      <3> QED
        BY <1>1, <3>1 DEF RequestInv, UnderWay
    <2>5. request'.pc <= Len(Accesses') + 1 /\ request'.pc <= 1
      BY <2>1, <2>3, <2>4
    <2>6. UnderWay'
      BY <2>1, <2>2, <2>3, <2>4, <2>5 DEF UnderWay
    <2>7. Active' /\ Answered'
      BY <1>1, <2>1 DEF Active, Answered
    <2> QED
      BY <2>1, <2>6, <2>7 DEF RequestInv
  <1> QED
    BY <1>2, <1>3 DEF Forward

LEMMA PassOverSound ==
    ASSUME RequestInv, PassOver, Serving("gateway")'
    PROVE  RequestInv'
  <1>1. AtGateway /\ request \in Request /\ Active /\ request.status = 0 /\ request.pc = 0
    BY DEF PassOver, AtGateway, RequestInv
  <1>2. request.route = "getAvatar" /\ request.call = 1
    BY DEF PassOver
  <1>3. ~request.stored /\ ~request.broke
    BY <1>1, <1>2, Untaken DEF Second
  <1>4. /\ request' \in Request /\ request'.route = "getAvatar"
        /\ request'.call = 2 /\ request'.pc = 0 /\ request'.status = 0
        /\ request'.stored = request.stored /\ request'.broke = request.broke
    <2>1. 2 \in 1 .. 2
      OBVIOUS
    <2> QED
      BY ZenonT(30), <1>1, <1>2, <2>1 DEF PassOver, Request
  <1>5. Len(Routes["getAvatar"].calls) = 2
    BY DEF Routes, getAvatarHandler, Handler
  <1>6. request'.call <= Len(ThisHandler'.calls)
    <2>1. ThisHandler' = Routes["getAvatar"]
      BY <1>4 DEF ThisHandler
    <2>2. Len(ThisHandler'.calls) = 2
      BY <1>5, <2>1
    <2>3. request'.call = 2
      BY <1>4
    <2> QED
      BY <2>2, <2>3
  <1>7. Active' /\ HandlerSound("getAvatar")
    BY <1>1, <1>2, <1>4, TablesSound DEF Active, Routes
  <1>8. request'.pc <= Len(Accesses') + 1
    <2>1. CallSound("getAvatar", 2, Routes["getAvatar"].calls[2],
                    2 = Len(Routes["getAvatar"].calls))
      <3>1. 2 \in 1 .. Len(Routes["getAvatar"].calls)
        BY <1>5
      <3> QED
        BY <1>7, <3>1 DEF HandlerSound
    <2>2. Len(Routes["getAvatar"].calls[2].rpc.accesses) \in 0 .. 6
      BY <2>1 DEF CallSound
    <2>3. Accesses' = Routes["getAvatar"].calls[2].rpc.accesses
      BY <1>4 DEF Accesses, ThisCall, ThisHandler
    <2>4. Len(Accesses') \in 0 .. 6
      BY <2>2, <2>3
    <2>5. request'.pc = 0
      BY <1>4
    <2> QED
      BY <2>4, <2>5
  <1>9. UnderWay'
    BY <1>3, <1>4, <1>6, <1>8 DEF UnderWay
  <1> QED
    BY <1>4, <1>7, <1>9 DEF RequestInv, Answered

LEMMA TakeForInboxSound ==
    ASSUME RequestInv, TakeForInbox, Serving("gateway")'
    PROVE  RequestInv'
  <1>1. AtGateway /\ request \in Request /\ Active /\ request.status = 0 /\ request.pc = 0
    BY DEF TakeForInbox, AtGateway, RequestInv
  <1>2. ~request.stored /\ ~request.broke
    BY <1>1, Untaken DEF TakeForInbox, Second
  <1>3. /\ request' \in Request /\ request'.route = "inbox"
        /\ request'.call = 1 /\ request'.pc = 0 /\ request'.status = 0
        /\ request'.stored = request.stored /\ request'.broke = request.broke
    <2>1. 1 \in 1 .. 2
      OBVIOUS
    <2>2. "inbox" \in DOMAIN Routes
      BY DEF Routes
    <2> QED
      BY ZenonT(30), <1>1, <2>1, <2>2 DEF TakeForInbox, Request
  <1>4. HandlerSound("inbox")
    BY TablesSound DEF Routes
  <1>5. Len(Routes["inbox"].calls) \in {1, 2}
    BY <1>4 DEF HandlerSound
  <1>6. request'.call <= Len(ThisHandler'.calls)
    <2>1. ThisHandler' = Routes["inbox"]
      BY <1>3 DEF ThisHandler
    <2>2. 1 <= Len(Routes["inbox"].calls)
      BY SMTT(30), <1>5
    <2>3. 1 <= Len(ThisHandler'.calls)
      BY <2>1, <2>2
    <2> QED
      BY <1>3, <2>3
  <1>7. request'.pc <= Len(Accesses') + 1
    <2>1. CallSound("inbox", 1, Routes["inbox"].calls[1], 1 = Len(Routes["inbox"].calls))
      <3>1. 1 \in 1 .. Len(Routes["inbox"].calls)
        BY <1>5
      <3> QED
        BY <1>4, <3>1 DEF HandlerSound
    <2>2. Len(Routes["inbox"].calls[1].rpc.accesses) \in 0 .. 6
      BY <2>1 DEF CallSound
    <2>3. Accesses' = Routes["inbox"].calls[1].rpc.accesses
      BY <1>3 DEF Accesses, ThisCall, ThisHandler
    <2>4. Len(Accesses') \in 0 .. 6
      BY <2>2, <2>3
    <2>5. request'.pc = 0
      BY <1>3
    <2> QED
      BY <2>4, <2>5
  <1>8. UnderWay' /\ Active'
    BY <1>2, <1>3, <1>6, <1>7 DEF UnderWay, Active
  <1> QED
    BY <1>3, <1>8 DEF RequestInv, Answered

LEMMA UnauthenticatedSound ==
    ASSUME RequestInv, Unauthenticated, Serving("gateway")'
    PROVE  RequestInv'
  <1>1. Active /\ request.status = 0 /\ request \in Request /\ request.pc = 1
    BY Unanswered DEF Unauthenticated, AtService
  <1>2. CallSound(request.route, request.call, ThisCall,
                  request.call = Len(ThisHandler.calls))
    BY <1>1, Here
  <1>3. /\ ~Second(request.route, request.call)
        /\ Says(ThisCall, "Unauthenticated") \in Statuses
    BY <1>2 DEF CallSound, Unauthenticated
  <1>4. /\ request.stored => WritesBefore(Accesses, 1)
        /\ request.broke => WarnsBefore(Accesses, 1)
    BY <1>1, <1>3 DEF RequestInv, UnderWay
  <1>5. ~request.stored /\ ~request.broke
    BY <1>4 DEF WritesBefore, WarnsBefore
  <1>6. Fits(request.route, Says(ThisCall, "Unauthenticated"), request.stored, request.broke)
    BY <1>3, <1>5 DEF Fits, Untouched
  <1> QED
    BY <1>1, <1>6, Coded DEF Unauthenticated, Active

\* The access at which a service is, as the tables have it.
LEMMA HereAccess ==
    ASSUME RequestInv, AtAccess
    PROVE  /\ Active /\ request.status = 0 /\ request \in Request
           /\ request.pc \in 1 .. Len(Accesses) /\ request.pc \in 1 .. 6
           /\ AccessSound(request.route, request.call, ThisCall, request.pc)
           /\ ThisAccess = ThisCall.rpc.accesses[request.pc]
           /\ request.stored => WritesBefore(Accesses, request.pc)
           /\ request.broke => \/ WarnsBefore(Accesses, request.pc)
                               \/ Second(request.route, request.call)
  <1>1. Active /\ request.status = 0 /\ request \in Request
    BY Unanswered DEF AtAccess, AtService
  <1>2. CallSound(request.route, request.call, ThisCall,
                  request.call = Len(ThisHandler.calls))
    BY <1>1, Here
  <1>3. request.pc \in 0 .. 7 /\ request.pc > 0 /\ request.pc <= Len(Accesses)
    BY <1>1 DEF AtAccess, AtService, Request
  <1>4. Len(Accesses) \in 0 .. 6
    BY <1>2 DEF CallSound, Accesses
  <1>5. request.pc \in 1 .. Len(Accesses) /\ request.pc \in 1 .. 6
    <2> DEFINE n == Len(Accesses)
    <2>1. n \in 0 .. 6 /\ request.pc <= n
      BY <1>3, <1>4
    <2> HIDE DEF n
    <2>2. request.pc \in 1 .. n /\ request.pc \in 1 .. 6
      BY <1>3, <2>1
    <2> QED
      BY <2>2 DEF n
  <1>6. AccessSound(request.route, request.call, ThisCall, request.pc)
    <2>1. \A i \in 1 .. Len(Accesses) :
             AccessSound(request.route, request.call, ThisCall, i)
      BY <1>2 DEF CallSound, Accesses
    <2> QED
      BY <2>1, <1>5
  <1> QED
    BY <1>1, <1>5, <1>6 DEF RequestInv, UnderWay, ThisAccess, Accesses

LEMMA ServeSound ==
    ASSUME RequestInv, Serve, Serving("gateway")'
    PROVE  RequestInv'
  <1>1. AtAccess /\ ~Unlinked
    BY DEF Serve
  <1>2. /\ Active /\ request.status = 0 /\ request \in Request /\ request.pc \in 1 .. 6
        /\ ThisAccess.writes \in BOOLEAN
    BY <1>1, HereAccess DEF AccessSound
  <1>3. request' = [request EXCEPT !.pc = request.pc + 1,
                                   !.stored = request.stored \/ ThisAccess.writes]
    BY DEF Serve
  <1>4. request.pc + 1 \in 0 .. 7 /\ request.stored \in BOOLEAN
    BY <1>2 DEF Request
  <1>5. /\ request' \in Request /\ request'.route = request.route
        /\ request'.call = request.call /\ request'.status = request.status
        /\ request'.pc = request.pc + 1 /\ request'.broke = request.broke
        /\ request'.stored = (request.stored \/ ThisAccess.writes)
    <2>1. PICK n \in 0 .. 7, w \in BOOLEAN :
             n = request.pc + 1 /\ w = (request.stored \/ ThisAccess.writes)
      BY <1>2, <1>4
    <2>2. request' = [request EXCEPT !.pc = n, !.stored = w]
      BY <1>3, <2>1
    <2>3. /\ request' \in Request /\ request'.route = request.route
          /\ request'.call = request.call /\ request'.status = request.status
          /\ request'.pc = n /\ request'.broke = request.broke /\ request'.stored = w
      BY <1>2, <2>2 DEF Request
    <2> QED
      BY <2>1, <2>3
  <1>6. request.broke => ~Second(request.route, request.call)
    BY <1>1 DEF Unlinked, Second
  <1> QED
    BY <1>1, <1>2, <1>5, <1>6, Passed

LEMMA SkipSound ==
    ASSUME RequestInv, Skip, Serving("gateway")'
    PROVE  RequestInv'
  <1>1. AtAccess /\ ThisAccess.optional
    BY DEF Skip
  <1>2. /\ Active /\ request.status = 0 /\ request \in Request /\ request.pc \in 1 .. 6
    BY <1>1, HereAccess
  <1>3. ~Second(request.route, request.call)
    BY <1>1, HereAccess DEF AccessSound
  <1>4. /\ request' \in Request /\ request'.route = request.route
        /\ request'.call = request.call /\ request'.status = request.status
        /\ request'.pc = request.pc + 1 /\ request'.broke = request.broke
        /\ request'.stored = request.stored
    <2>1. PICK n \in 0 .. 7 : n = request.pc + 1
      BY <1>2
    <2>2. request' = [request EXCEPT !.pc = n]
      BY <2>1 DEF Skip
    <2>3. /\ request' \in Request /\ request'.route = request.route
          /\ request'.call = request.call /\ request'.status = request.status
          /\ request'.pc = n /\ request'.broke = request.broke
          /\ request'.stored = request.stored
      BY <1>2, <2>2 DEF Request
    <2> QED
      BY <2>1, <2>3
  <1> QED
    BY <1>1, <1>2, <1>3, <1>4, Passed

LEMMA RefuseSound ==
    ASSUME RequestInv, Refuse, Serving("gateway")'
    PROVE  RequestInv'
  <1>1. AtAccess
    BY DEF Refuse
  <1>2. PICK code \in ThisAccess.refuses : request' = Receive(request, code)
    BY DEF Refuse
  <1>3. /\ code # "OK"
        /\ Fits(request.route, Says(ThisCall, code), WritesBefore(Accesses, request.pc),
                WarnsBefore(Accesses, request.pc) \/ Second(request.route, request.call))
    BY <1>1, HereAccess DEF AccessSound, Accesses
  <1>4. Fits(request.route, Says(ThisCall, code), request.stored, request.broke)
    <2>1. /\ request.stored => WritesBefore(Accesses, request.pc)
          /\ request.broke => \/ WarnsBefore(Accesses, request.pc)
                              \/ Second(request.route, request.call)
      BY <1>1, HereAccess
    <2> QED
      BY <1>3, <2>1 DEF Fits, Untouched
  <1>5. request \in Request /\ request.route # "none"
    BY <1>1, HereAccess DEF Active
  <1> QED
    BY <1>2, <1>3, <1>4, <1>5, Coded

LEMMA FailsSound ==
    ASSUME RequestInv, AtAccess, NEW stored \in BOOLEAN, stored => ThisAccess.writes,
           Fails(stored), Serving("gateway")'
    PROVE  RequestInv'
  <1>1. /\ Active /\ request.status = 0 /\ request \in Request /\ request.pc \in 1 .. 6
    BY HereAccess
  <1>2. PICK w \in BOOLEAN : w = (request.stored \/ stored)
    OBVIOUS
  <1>3. PICK r \in Request : r = [request EXCEPT !.broke = TRUE, !.stored = w]
    BY <1>1 DEF Request
  <1>4. /\ r.route = request.route /\ r.call = request.call /\ r.pc = request.pc
        /\ r.status = request.status /\ r.stored = w /\ r.broke = TRUE
    BY <1>1, <1>3 DEF Request
  <1>5. request' = IF ThisAccess.failure = "OK"
                   THEN [r EXCEPT !.pc = r.pc + 1]
                   ELSE Receive(r, ThisAccess.failure)
    BY <1>2, <1>3 DEF Fails
  <1>6. CASE ThisAccess.failure = "OK"
    <2>1. PICK n \in 0 .. 7 : n = request.pc + 1
      BY <1>1
    <2>2. request' = [r EXCEPT !.pc = n]
      BY <1>4, <1>5, <1>6, <2>1
    <2>3. /\ request' \in Request /\ request'.route = r.route
          /\ request'.call = r.call /\ request'.status = r.status
          /\ request'.pc = n /\ request'.broke = r.broke
          /\ request'.stored = r.stored
      BY <2>2 DEF Request
    <2> QED
      BY <1>1, <1>2, <1>4, <1>6, <2>1, <2>3, Passed
  <1>7. CASE ThisAccess.failure # "OK"
    <2>1. Fits(request.route, Says(ThisCall, ThisAccess.failure),
               WritesBefore(Accesses, request.pc + 1), TRUE)
      BY <1>7, HereAccess DEF AccessSound, Accesses
    <2>2. w => WritesBefore(Accesses, request.pc + 1)
      <3>1. request.stored => WritesBefore(Accesses, request.pc + 1)
        <4>1. request.stored => WritesBefore(Accesses, request.pc)
          BY HereAccess
        <4> QED
          BY <1>1, <4>1, Later
      <3>2. ThisAccess.writes => WritesBefore(Accesses, request.pc + 1)
        <4>1. request.pc \in 1 .. (request.pc + 1) - 1
          BY <1>1
        <4> QED
          BY <4>1 DEF WritesBefore, ThisAccess
      <3> QED
        BY <1>2, <3>1, <3>2
    <2>3. Fits(r.route, Says(ThisCall, ThisAccess.failure), r.stored, r.broke)
      BY <1>4, <2>1, <2>2 DEF Fits, Untouched
    <2>4. request' = Receive(r, ThisAccess.failure) /\ r.route # "none"
      BY <1>1, <1>4, <1>5, <1>7 DEF Active
    <2> QED
      BY <1>4, <1>7, <2>3, <2>4, Coded
  <1> QED
    BY <1>6, <1>7

LEMMA AnswerSound ==
    ASSUME RequestInv, Answer, Serving("gateway")'
    PROVE  RequestInv'
  <1> DEFINE n == Len(Accesses)
             k == Len(ThisHandler.calls)
  <1>1. Active /\ request.status = 0 /\ request \in Request
    BY Unanswered DEF Answer, AtService
  <1>2. /\ CallSound(request.route, request.call, ThisCall, request.call = k)
        /\ k \in {1, 2} /\ request.call \in 1 .. k
    BY <1>1, Here
  <1>3. /\ n \in 0 .. 6 /\ (Second(request.route, request.call) => n > 0)
    BY <1>2 DEF CallSound, Accesses
  <1>4. request.pc = n + 1
    <2>1. request.pc \in 0 .. 7 /\ request.pc > n /\ request.pc <= n + 1
      BY <1>1 DEF RequestInv, Request, UnderWay, Answer
    <2> HIDE DEF n
    <2> QED
      BY <1>3, <2>1
  <1>5. /\ request.stored => WritesBefore(Accesses, n + 1)
        /\ request.broke => WarnsBefore(Accesses, n + 1)
    <2>1. /\ request.stored => WritesBefore(Accesses, request.pc)
          /\ request.broke => \/ WarnsBefore(Accesses, request.pc)
                              \/ Second(request.route, request.call) /\ request.pc <= 1
      BY <1>1 DEF RequestInv, UnderWay
    <2>2. ~(Second(request.route, request.call) /\ request.pc <= 1)
      <3> HIDE DEF n
      <3> QED
        BY <1>3, <1>4
    <2> QED
      BY <1>4, <2>1, <2>2
  <1>6. CASE request.call < k
    <2>1. request.call = 1 /\ k = 2
      <3> HIDE DEF k
      <3> QED
        BY <1>2, <1>6
    <2>2. ~request.stored /\ (request.broke => request.route = "getAvatar")
      BY <1>2, <1>5, <2>1 DEF CallSound, Accesses
    <2>3. request' = [request EXCEPT !.call = 2, !.pc = 0]
      BY <1>6, <2>1 DEF Answer, Receive
    <2>4. /\ request' \in Request /\ request'.route = request.route
          /\ request'.call = 2 /\ request'.pc = 0 /\ request'.status = request.status
          /\ request'.stored = request.stored /\ request'.broke = request.broke
      <3>1. 2 \in 1 .. 2 /\ 0 \in 0 .. 7
        OBVIOUS
      <3> QED
        BY ZenonT(30), <1>1, <2>3, <3>1 DEF Request
    <2>5. ThisHandler' = ThisHandler
      BY <2>4 DEF ThisHandler
    <2>6. request'.call <= Len(ThisHandler'.calls)
      <3>1. Len(ThisHandler'.calls) = 2
        BY <2>1, <2>5
      <3>2. request'.call = 2
        BY <2>4
      <3> QED
        BY <3>1, <3>2
    <2>7. request'.pc <= Len(Accesses') + 1
      <3>1. HandlerSound(request.route) /\ request.route \in DOMAIN Routes
        BY <1>1, TablesSound DEF Request, Active
      <3>2. 2 \in 1 .. Len(Routes[request.route].calls)
        BY <2>1 DEF ThisHandler
      <3>3. CallSound(request.route, 2, Routes[request.route].calls[2],
                      2 = Len(Routes[request.route].calls))
        BY <3>1, <3>2 DEF HandlerSound
      <3>4. Len(Routes[request.route].calls[2].rpc.accesses) \in 0 .. 6
        BY <3>3 DEF CallSound
      <3>5. Accesses' = Routes[request.route].calls[2].rpc.accesses
        BY <2>4 DEF Accesses, ThisCall, ThisHandler
      <3>6. Len(Accesses') \in 0 .. 6
        BY <3>4, <3>5
      <3>7. request'.pc = 0
        BY <2>4
      <3> QED
        BY <3>6, <3>7
    <2>8. request'.broke => Second(request'.route, request'.call) /\ request'.pc <= 1
      BY <2>2, <2>4 DEF Second
    <2>9. UnderWay' /\ Active'
      BY <1>1, <2>2, <2>4, <2>6, <2>7, <2>8 DEF UnderWay, Active
    <2> QED
      BY <1>1, <2>4, <2>9 DEF RequestInv, Answered
  <1>7. CASE ~(request.call < k)
    <2>1. request.call = k
      <3> HIDE DEF k
      <3> QED
        BY <1>2, <1>7
    <2>2. request.broke => Told(request.route, 200)
      BY <1>2, <1>5, <2>1 DEF CallSound, Accesses
    <2>3. request' = [request EXCEPT !.pc = 0, !.status = 200]
      BY <1>7 DEF Answer, Receive
    <2>4. /\ request' \in Request /\ request'.route = request.route
          /\ request'.pc = 0 /\ request'.status = 200
          /\ request'.stored = request.stored /\ request'.broke = request.broke
      <3>1. 0 \in 0 .. 7
        OBVIOUS
      <3>2. PICK s \in Statuses \cup {0} : s = 200
        BY StringsApart
      <3>3. request' = [request EXCEPT !.pc = 0, !.status = s]
        BY <2>3, <3>2
      <3>4. /\ request' \in Request /\ request'.route = request.route
            /\ request'.pc = 0 /\ request'.status = s
            /\ request'.stored = request.stored /\ request'.broke = request.broke
        BY ZenonT(30), <1>1, <3>1, <3>3 DEF Request
      <3> QED
        BY <3>2, <3>4
    <2>5. Fits(request'.route, request'.status, request'.stored, request'.broke)
      <3>1. 200 \in Statuses /\ 200 \notin 400 .. 499
        BY StringsApart
      <3> QED
        BY <2>2, <2>4, <3>1 DEF Fits, Untouched
    <2>6. Active' /\ request'.status # 0
      BY <1>1, <2>4 DEF Active
    <2> QED
      BY <2>4, <2>5, <2>6 DEF RequestInv, UnderWay, Answered
  <1> QED
    BY <1>6, <1>7

-----------------------------------------------------------------------------
(* What the deployment does beside the requests. *)

\* The steps of other programs, and of the stores, do not stop the gateway.
LEMMA GatewayStays ==
    ASSUME DeploymentInv, Serving("gateway"),
           NEW p \in Programs, p # "gateway", NEW s, Go(p, s)
    PROVE  Serving("gateway")'
  <1>1. "gateway" \in Programs /\ at \in [Programs -> Steps \cup {"off"}]
    BY ProgramNames DEF DeploymentInv, DeploymentTypeOK
  <1> QED
    BY <1>1 DEF Go, Serving

LEMMA GatewayServesOn ==
    ASSUME DeploymentInv, Serving("gateway"),
           \/ UNCHANGED deployment
           \/ \E p \in Programs : StartUp(p) \/ Start(p)
           \/ \E p \in Programs \ {"gateway"} : Crash(p)
           \/ RunMigrations \/ StopPostgres \/ StopMinio \/ Recovery
    PROVE  Serving("gateway")'
  <1>1. CASE UNCHANGED deployment
    BY <1>1 DEF deployment, Serving
  <1>2. ASSUME NEW p \in Programs, StartUp(p) \/ Start(p)
        PROVE  Serving("gateway")'
    <2>1. p # "gateway"
      BY <1>2 DEF StartUp, NewDbConnection, BucketExists, MakeBucket, Start, Serving
    <2>2. \E s : Go(p, s)
      BY <1>2 DEF StartUp, NewDbConnection, BucketExists, MakeBucket, Start, Exit
    <2> QED
      BY <2>1, <2>2, GatewayStays
  <1>3. CASE \E p \in Programs \ {"gateway"} : Crash(p)
    BY <1>3, GatewayStays DEF Crash, Exit
  <1>4. "auth" \in Programs /\ "auth" # "gateway"
    BY ProgramNames
  <1>5. CASE RunMigrations
    <2>1. \E s : Go("auth", s)
      BY <1>5 DEF RunMigrations, Up, Mark, Apply, Clean, Migrate
    <2> QED
      BY <1>4, <2>1, GatewayStays
  <1>6. CASE StopPostgres
    <2>1. at' = at \/ \E s : Go("auth", s)
      BY <1>6 DEF StopPostgres
    <2> QED
      BY <1>4, <2>1, GatewayStays DEF Serving
  <1>7. CASE StopMinio \/ Recovery
    BY <1>7 DEF StopMinio, Recovery, StartPostgres, StartMinio, Serving
  <1> QED
    BY <1>1, <1>2, <1>3, <1>5, <1>6, <1>7

LEMMA WorkSound ==
    ASSUME RequestInv, Work, Serving("gateway")'
    PROVE  RequestInv'
  <1>1. CASE Respond
    BY <1>1, IdleIsSound DEF Respond
  <1>2. CASE Fail
    BY <1>2, FailsSound DEF Fail
  <1> QED
    BY <1>1, <1>2, RejectSound, ForwardSound, PassOverSound, TakeForInboxSound,
       UnauthenticatedSound, ServeSound, SkipSound, RefuseSound, AnswerSound DEF Work

\* A step of the deployment that no request takes part in.
LEMMA BesideSound ==
    ASSUME RequestInv, UNCHANGED request, Active => Serving("gateway")'
    PROVE  RequestInv'
  BY DEF RequestInv, Active, UnderWay, Answered, Accesses, ThisCall, ThisHandler

LEMMA NoticeSound ==
    ASSUME RequestInv, NEW p \in Programs, p # "gateway", Notice(p),
           Active => Serving("gateway")'
    PROVE  RequestInv'
  <1>1. CASE UNCHANGED request
    BY <1>1, BesideSound
  <1>2. CASE request.pc > 0 /\ request' = Unreachable(request)
    <2>1. Active /\ request.status = 0
      BY <1>2, Unanswered
    <2> QED
      BY <1>2, <2>1, Lost
  <1> QED
    BY <1>1, <1>2 DEF Notice

LEMMA WorkIsForARequest ==
    ASSUME RequestInv, Work
    PROVE  Active
  <1>1. CASE AtGateway
    BY <1>1 DEF AtGateway
  <1>2. CASE request.pc > 0
    BY <1>2, Unanswered
  <1>3. CASE request.status # 0
    BY <1>3 DEF RequestInv, Answered
  <1>4. AtGateway \/ request.pc > 0 \/ request.status # 0
    BY DEF Work, Reject, Forward, PassOver, TakeForInbox, Respond, Unauthenticated, Serve,
           Skip, Refuse, Fail, Answer, AtAccess, AtService
  <1> QED
    BY <1>1, <1>2, <1>3, <1>4

LEMMA RequestsGoOn ==
    DeploymentInv /\ RequestInv /\ [Next]_vars => RequestInv'
  <1> SUFFICES ASSUME DeploymentInv, RequestInv, [Next]_vars
               PROVE  RequestInv'
    OBVIOUS
  <1>1. Active => Serving("gateway")
    BY DEF RequestInv
  <1>2. CASE Work /\ UNCHANGED deployment
    BY <1>1, <1>2, WorkIsForARequest, GatewayServesOn, WorkSound
  <1>3. CASE Leave
    BY <1>3, IdleIsSound DEF Leave
  <1>4. CASE \E route \in DOMAIN Routes : Arrive(route) /\ UNCHANGED deployment
    BY <1>4, ArriveSound
  <1>5. ASSUME NEW p \in Programs, Crash(p), Notice(p)
        PROVE  RequestInv'
    <2>1. CASE p = "gateway"
      BY <1>5, <2>1, IdleIsSound DEF Notice
    <2>2. CASE p # "gateway"
      BY <1>1, <1>5, <2>2, GatewayServesOn, NoticeSound
    <2> QED
      BY <2>1, <2>2
  <1>6. CASE StopPostgres /\ LoseCommit
    <2>1. /\ AtAccess /\ ThisAccess.writes /\ Fails(TRUE)
      BY <1>6 DEF LoseCommit
    <2>2. Serving("gateway")'
      BY <1>1, <1>6, <2>1, HereAccess, GatewayServesOn
    <2> QED
      BY <2>1, <2>2, FailsSound
  <1>7. CASE StopPostgres /\ UNCHANGED request
    BY <1>1, <1>7, GatewayServesOn, BesideSound
  <1>8. CASE /\ \/ \E p \in Programs : StartUp(p) \/ Start(p)
                \/ RunMigrations \/ StopMinio \/ Recovery
             /\ UNCHANGED request
    BY <1>1, <1>8, GatewayServesOn, BesideSound
  <1>9. CASE UNCHANGED <<deployment, request>>
    BY <1>1, <1>9, GatewayServesOn, BesideSound
  <1> QED
    BY <1>2, <1>3, <1>4, <1>5, <1>6, <1>7, <1>8, <1>9 DEF Next, vars

LEMMA RequestInvHolds == Spec => []RequestInv
  <1>1. Init => RequestInv
    <2>1. Idle \in Request /\ Idle.route = "none" /\ Idle.status = 0
      BY DEF Idle, Request
    <2> QED
      BY <2>1 DEF Init, RequestInv, Active, UnderWay, Answered
  <1> QED
    BY <1>1, DeploymentInvHolds, RequestsGoOn, PTL DEF Spec

PoolKnown == exhausted \in BOOLEAN

LEMMA PoolTyped == Spec => []PoolKnown
  <1> USE DEF PoolKnown
  <1>1. Init => PoolKnown
    BY DEF Init
  <1>2. ASSUME PoolKnown, [Next]_vars
        PROVE  PoolKnown'
    <2>1. CASE UNCHANGED exhausted
      BY <1>2, <2>1
    <2>2. CASE Exhaust \/ Relieve
      BY <2>2 DEF Exhaust, Relieve
    <2>3. CASE \E p \in Programs : Release(p)
      BY <2>3 DEF Release
    <2> QED
      BY <1>2, <2>1, <2>2, <2>3 DEF Next, vars
  <1> HIDE DEF PoolKnown
  <1> QED
    BY <1>1, <1>2, PTL DEF Spec

\* Programs, stores and the request under way keep to their values; a request
\* is at an access its procedure has, and only while the gateway serves.
THEOREM TypeCorrect == Spec => []TypeOK
  <1>1. DeploymentInv /\ RequestInv /\ PoolKnown => TypeOK
    <2> SUFFICES ASSUME DeploymentInv, RequestInv, PoolKnown
                 PROVE  TypeOK
      OBVIOUS
    <2>1. request \in Request
      BY DEF RequestInv
    <2>2. request.route \in DOMAIN Routes \cup {"none"} /\ request.status \in Statuses \cup {0}
          /\ request.call \in 1 .. 2 /\ request.pc \in 0 .. 7
      BY <2>1 DEF Request
    <2> QED
      BY <2>2, StringsApart DEF TypeOK, DeploymentInv, RequestInv, PoolKnown
  <1> QED
    BY <1>1, DeploymentInvHolds, RequestInvHolds, PoolTyped, PTL

\* Whoever is told 400, 401, 403, 404 or 409 has changed nothing, whatever
\* stopped, was lost or was started again meanwhile, but for the profile's
\* update.
THEOREM RefusedMeansUntouchedHolds == Spec => []RefusedMeansUntouched
  <1>1. RequestInv => RefusedMeansUntouched
    BY DEF RequestInv, Answered, Fits, Untouched, RefusedMeansUntouched
  <1> QED
    BY <1>1, RequestInvHolds, PTL

\* No request that met a program or a store without an answer is told anything
\* else than a failure of the server, but for the requests FailuresAreTold names.
THEOREM FailuresAreToldHold == Spec => []FailuresAreTold
  <1>1. RequestInv => FailuresAreTold
    BY DEF RequestInv, Answered, Fits, Told, FailuresAreTold
  <1> QED
    BY <1>1, RequestInvHolds, PTL

=============================================================================
