----------------------------- MODULE Deployment -----------------------------
(***************************************************************************)
(* The four programs of docker-compose.yml from their start to their end:  *)
(* what each does before it serves, what it needs from PostgreSQL and from *)
(* MinIO, and what it does without.  depends_on waits for no one to be     *)
(* ready and nothing restarts a program that has exited, so every order of *)
(* the starts is possible and the operator starts a program again.         *)
(*                                                                         *)
(* AuthInit migrates the database; the others use the tables they find.    *)
(* ProfileInit and MessagesInit make the avatar bucket, whoever is first.  *)
(***************************************************************************)
EXTENDS Naturals, Sequences

CONSTANTS
    Migrations,    \* how many migrations db/migrations holds
    MaxFailures    \* how many faults a behaviour contains

ASSUME DeploymentAssumption ==
    /\ Migrations \in Nat
    /\ MaxFailures \in Nat

\* The start-up of each program, step by step.  A configuration that cannot be
\* read ends it before the first step; "serve" includes net.Listen.
AuthInit == <<"database", "up", "mark", "apply", "clean", "serve">>

ProfileInit == <<"database", "bucket", "make bucket", "serve">>

MessagesInit == <<"database", "bucket", "make bucket", "serve">>

\* The gateway dials nobody: grpc.NewClient connects at the first call.
GatewayInit == <<"serve">>

Script ==
    [auth |-> AuthInit, profile |-> ProfileInit, messages |-> MessagesInit,
     gateway |-> GatewayInit]

Programs == DOMAIN Script

Steps ==
    {"database", "up", "mark", "apply", "clean", "bucket", "make bucket", "serve"}

VARIABLES
    at,          \* the step each program is at, "off" when it does not run
    complained,  \* the running programs that have logged an error
    postgres,    \* "up" when PostgreSQL answers
    minio,       \* "up" when MinIO answers
    schema,      \* how many migrations the database has
    flag,        \* "dirty" while a migration runs, and after it was cut off
    bucket,      \* "made" when the avatar bucket exists
    failures     \* the faults so far

deployment == <<at, complained, postgres, minio, schema, flag, bucket, failures>>

stores == <<postgres, minio, schema, flag, bucket>>

Serving(p) == at[p] = "serve"

Go(p, step) == at' = [at EXCEPT ![p] = step]

\* log.Error(...), and on.
Complain(p) == complained' = complained \cup {p}

\* os.Exit(1), a panic, or a kill from outside.
Exit(p) ==
    /\ Go(p, "off")
    /\ complained' = complained \ {p}

Fault == failures < MaxFailures /\ failures' = failures + 1

-----------------------------------------------------------------------------
(* Starting and ending. *)

Start(p) ==
    /\ at[p] = "off"
    /\ Go(p, Script[p][1])
    /\ UNCHANGED <<complained, stores, failures>>

NewDbConnection(p) ==
    /\ at[p] = "database"
    /\ IF postgres = "up"
       THEN Go(p, Script[p][2]) /\ UNCHANGED complained
       ELSE Exit(p)
    /\ UNCHANGED <<stores, failures>>

\* A port that is taken, a panic, a signal.
Crash(p) ==
    /\ at[p] # "off"
    /\ Exit(p)
    /\ Fault
    /\ UNCHANGED stores

-----------------------------------------------------------------------------
(* RunMigrations: its error is logged, and the service starts all the same. *)

\* Seeded fault: an interrupted migration is taken for a finished one.
UpSilently ==
    /\ at["auth"] = "up"
    /\ IF postgres = "up" /\ flag = "clean" /\ schema < Migrations
       THEN Go("auth", "mark") /\ UNCHANGED complained
       ELSE /\ Go("auth", "serve")
            /\ IF schema < Migrations /\ flag = "dirty"
               THEN UNCHANGED complained
               ELSE Complain("auth")
    /\ UNCHANGED <<stores, failures>>

\* Seeded fault: every start applies a migration.
UpAgain ==
    /\ at["auth"] = "up"
    /\ IF postgres = "up" /\ flag = "clean"
       THEN Go("auth", "mark") /\ UNCHANGED complained
       ELSE Go("auth", "serve") /\ Complain("auth")
    /\ UNCHANGED <<stores, failures>>

\* Up() refuses a dirty database, and says ErrNoChange when it has nothing to
\* do, which RunMigrations takes for an error, too.
Up ==
    /\ at["auth"] = "up"
    /\ IF postgres = "up" /\ flag = "clean" /\ schema < Migrations
       THEN Go("auth", "mark") /\ UNCHANGED complained
       ELSE Go("auth", "serve") /\ Complain("auth")
    /\ UNCHANGED <<stores, failures>>

\* One statement of a migration.
Migrate(step, next) ==
    /\ at["auth"] = step
    /\ Go("auth", next)
    /\ UNCHANGED <<complained, postgres, minio, bucket, failures>>

Mark ==
    /\ Migrate("mark", "apply")
    /\ flag' = "dirty"
    /\ UNCHANGED schema

Apply ==
    /\ Migrate("apply", "clean")
    /\ schema' = schema + 1
    /\ UNCHANGED flag

Clean ==
    /\ Migrate("clean", IF schema < Migrations THEN "mark" ELSE "serve")
    /\ flag' = "clean"
    /\ UNCHANGED schema

RunMigrations == Up \/ Mark \/ Apply \/ Clean

-----------------------------------------------------------------------------
(* bucketExists: its error is logged, and the service starts all the same. *)

BucketExists(p) ==
    /\ at[p] = "bucket"
    /\ IF minio = "down"
       THEN Go(p, "serve") /\ Complain(p)
       ELSE /\ Go(p, IF bucket = "made" THEN "serve" ELSE "make bucket")
            /\ UNCHANGED complained
    /\ UNCHANGED <<stores, failures>>

\* The second of two programs that both saw no bucket is refused.
MakeBucket(p) ==
    /\ at[p] = "make bucket"
    /\ Go(p, "serve")
    /\ IF minio = "up" /\ bucket = "missing"
       THEN bucket' = "made" /\ UNCHANGED complained
       ELSE Complain(p) /\ UNCHANGED bucket
    /\ UNCHANGED <<postgres, minio, schema, flag, failures>>

-----------------------------------------------------------------------------
(* PostgreSQL and MinIO keep their data when they stop. *)

\* A migration loses its connection and fails.
StopPostgres ==
    /\ postgres = "up" /\ postgres' = "down"
    /\ IF at["auth"] \in {"mark", "apply", "clean"}
       THEN Go("auth", "serve") /\ Complain("auth")
       ELSE UNCHANGED <<at, complained>>
    /\ Fault
    /\ UNCHANGED <<minio, schema, flag, bucket>>

StartPostgres ==
    /\ postgres = "down" /\ postgres' = "up"
    /\ UNCHANGED <<at, complained, minio, schema, flag, bucket, failures>>

StopMinio ==
    /\ minio = "up" /\ minio' = "down"
    /\ Fault
    /\ UNCHANGED <<at, complained, postgres, schema, flag, bucket>>

StartMinio ==
    /\ minio = "down" /\ minio' = "up"
    /\ UNCHANGED <<at, complained, postgres, schema, flag, bucket, failures>>

-----------------------------------------------------------------------------

\* Empty volumes, before docker compose up.
DeploymentInit ==
    /\ at = [p \in Programs |-> "off"]
    /\ complained = {}
    /\ postgres = "down"
    /\ minio = "down"
    /\ schema = 0
    /\ flag = "clean"
    /\ bucket = "missing"
    /\ failures = 0

StartUp(p) ==
    NewDbConnection(p) \/ BucketExists(p) \/ MakeBucket(p)

Outage == StopPostgres \/ StopMinio

Recovery == StartPostgres \/ StartMinio

DeploymentNext ==
    \/ \E p \in Programs : StartUp(p) \/ Start(p) \/ Crash(p)
    \/ RunMigrations
    \/ Outage \/ Recovery

DeploymentSpec == DeploymentInit /\ [][DeploymentNext]_deployment

DeploymentTypeOK ==
    /\ at \in [Programs -> Steps \cup {"off"}]
    /\ complained \subseteq Programs
    /\ postgres \in {"up", "down"} /\ minio \in {"up", "down"}
    /\ schema \in 0 .. Migrations
    /\ flag \in {"clean", "dirty"} /\ bucket \in {"missing", "made"}
    /\ failures \in 0 .. MaxFailures

\* A service that starts although something it should have prepared is missing
\* has said so: auth serves a half-migrated database, profile and messages serve
\* without the bucket, only after an error in the log of this very start.
\* Neither a restart nor an interrupted migration can hide it.
BrokenIsLogged ==
    \A p \in Programs \ complained :
        Serving(p) =>
            /\ p = "auth" => schema = Migrations /\ flag = "clean"
            /\ p \in {"profile", "messages"} => bucket = "made"

=============================================================================
