# Verification of the A4Code mail service

This directory holds TLA+ models of the mail service of this repository, the
TLC configurations that check them on small instances, and TLAPS proofs about
every component for instances of every size. Paths below are relative to `src/`. `PROJECT.json` lists components, runs, mutants, hazards, findings and theorems,
and maps every definition to the lines it stands for.

    tlc -workers 2 -config MCMailStore.cfg MCMailStore
    tlapm MailStoreProofs.tla
    tlapm MailTxProofs.tla
    tlapm MessagesServiceProofs.tla
    tlapm AccountsProofs.tla
    tlapm FolderPagesProofs.tla
    tlapm GatewayProofs.tla

## The system

A browser talks HTTP to the **gateway** (`gateway-service/server`), which calls
three gRPC services. They share one PostgreSQL database
(`db/migrations`), and the profile service keeps avatars in a MinIO bucket.
`docker-compose.yml` starts the four programs and the two stores in any order.

| part | state | operations |
|---|---|---|
| gateway | none; the browser keeps the `access_token` and `refresh_token` cookies | one handler for each URL: decode, call a service, set cookies, turn its error code into a status; `getFolderHandler`, `inboxHandler` and `getAvatarHandler` make two calls |
| auth service | none beyond the profile tables | Login, Signup, Refresh, Logout; signs and checks JWTs (`internal/lib/session`) |
| profile service | `base_profile`, `profile`, `settings`; the bucket | GetProfile, UpdateProfile, UploadAvatar, Settings |
| messages service | none of its own | Send, Reply, SaveDraft, SendDraft, DeleteDraft, MessagePage, MarkAsSpam, MoveToFolder, GetFolder, GetFolders, Create/Rename/DeleteFolder, DeleteMessageFromFolder |
| message repository | `message`, `thread`, `file`, `folder`, `folder_profile_message`, `profile_message` | one transaction, or one statement, for each operation |
| profile repository | `base_profile`, `profile` and the system folders of a new user | UserExists, CreateUser, FindByUsernameAndDomain, UpdateProfileInfo, InsertProfileAvatar |
| start-up (`*/app/init.go`, `internal/lib/init`) | the schema version and its dirty flag; the bucket | connect, migrate (auth), make the bucket (profile, messages), serve; most errors are logged and passed over |
| connection pool (`database/sql`) | 20 connections for each service | one for each open transaction, one for each query while it runs |

The services keep no state in memory. Everything that can go wrong between two
requests goes wrong in the database, between the repository calls of one
handler, or between a call and its answer:

* **One transaction beside another.** PostgreSQL runs at READ COMMITTED, so
  each statement sees its own snapshot. Ownership is checked before rows are
  locked, and rows are copied to the trash before the folder is locked.
* **One repository call after another.** Send, Reply and SaveDraft call the
  repository several times for each receiver; nothing is undone when a later
  call fails, and other requests run in between.
* **One table after another.** Sign-up inserts into two tables whose identity
  sequences do not roll back; an avatar goes to the bucket before the row.
* **One page after another.** A folder is read page by page with a cursor that
  the browser sends back, while messages come and go.
* **One connection after another.** DeleteDraft and reading a message in full
  ask for a second connection while they hold one, and nothing times out.
* **One program after another.** Nothing waits for a store or a service to be
  ready, calls carry no deadline, and a program, a store or the answer to a
  commit may be lost at any step of a request. What the browser is then told
  depends on the route: some handlers pass the service's code on, some make a
  500 of everything, some an empty page.

The properties that make each part correct are the ones of the tables below.

## Modules

| module | models | lines of the code |
|---|---|---|
| `MailStore` | the six mail tables and each repository operation on them as one atomic step | `message-repository.go`, `000000_init.up.sql` |
| `MailStoreProofs` | theorems about `MailStore` | |
| `MailTx` | the seven operations that place or remove messages, statement by statement under READ COMMITTED; implements `MailStore` when they run one by one | the same |
| `MailTxProofs` | theorems about `MailTx` | |
| `MessagesService` | the handlers that make several repository calls; EXTENDS `MailStore` and implements its specification | `messages-service/grpc-service` |
| `MessagesServiceProofs` | theorems about `MessagesService`, on top of `MailStoreProofs` | |
| `Accounts` | sign-up, login, refresh, logout, profile update, avatar upload | auth and profile services, profile repository, gateway cookies |
| `AccountsProofs` | theorems about `Accounts` | |
| `FolderPages` | a walk over a folder's pages beside other requests | `getFolderHandler`, `GetFolder`, the keyset query |
| `FolderPagesProofs` | theorems about `FolderPages` | |
| `Deployment` | the four programs from start to end, migrations, bucket, the stores' outages | `*/app/init.go`, `internal/lib/init/database.go`, `docker-compose.yml` |
| `Gateway` | one request on its way through gateway, service and stores, on top of `Deployment` | `gateway-service/server`, the three gRPC services |
| `GatewayProofs` | theorems about `Gateway` and `Deployment` | |

`MC*.tla` add the definitions that configurations need. A definition under a
comment `Seeded fault` is used nowhere: it is a mutant, which takes the place of
the definition after it to show that a property can be violated.

### MailStore

`message` maps ids to rows, `thread` maps threads to their root message,
`folder` maps ids to rows, `fpm` is the table `folder_profile_message` (a
message placed in a folder), `bond` and `read_status` are `profile_message`,
and `file` counts the file rows of a message. Every action is one method of the
repository that returned without error, with all of its statements; a method
that fails rolls back and is no step. Checks made by the handler before the
call are part of the action: DeleteDraft, SendDraft and SaveDraft need
`IsDraftBelongsToUser`.

* A client may name any message and any folder: MarkMessageAsSpam and
  MoveToFolder check neither the caller's relation to the message nor whose
  folder it is (`message-repository.go:442`, `:763`), and the actions do not
  either. A message can so lie in a folder of somebody who has no
  `profile_message` row for it (`Stray`), and a move into somebody else's folder
  takes it out of all of the caller's. Texts are members of a set; attachments
  are counted.
* That a user's folders have different names is the work of the unique index of
  `000003_folder_unique.up.sql` (`NameFree`); the check before the INSERT can be
  passed by two requests together.
* A user is a profile row here; what becomes of the identifiers that sign-up
  hands out is the business of `Accounts`.
* `MovableTypes` are the folder types that clients move messages into. The code
  sets no limit. The parameter separates what holds in general from what
  holds only while no client moves messages into the draft folder.
* A deleted row's id is recycled in the model, which a database does not do.
  This is the same because nothing refers to a deleted row, which is checked
  and proved (`NoDanglingReference`).
* `SaveMessage` (`message-repository.go:204`) has no caller and is left out.

### MailTx

A request is a script of statements. A statement takes the rows it acts on from
its snapshot (`Start`), handles them one at a time (`Handle`), waits for the
transactions that hold them, skips rows that are gone, and fails on a duplicate
key or a missing parent (`Refuse`). `fpm` keeps row versions with their
inserter, and `deleted` the uncommitted deletions. Foreign keys lock parent rows
FOR KEY SHARE, UPDATE locks FOR NO KEY UPDATE, DELETE locks FOR UPDATE and
cascades. `BreakDeadlock` is PostgreSQL's deadlock detector. `Fail` is a lost
connection or a stopped server at any statement. The database is external code:
its part is modelled from how the code relies on it, at the granularity of
single rows. Re-evaluation of an UPDATE's condition after a wait is not
needed, since the conditions are on columns that never change.

`load`, chosen once from `Loads`, says how many requests are served at a time
and on how many connections. An open transaction holds a connection from its
`begin`; a query outside a transaction needs a free one for a moment. The
ownership check inside DeleteDraft is such a query (`message-repository.go:634`):
it asks for a second connection while the transaction holds one. With
`load.open = 1` the requests come one after the other, and `ImplementsStore`
says that each script then does what `MailStore` says.

MoveToFolder does not check whose folder the target is
(`message-repository.go:763`), so the model lets a request name any folder. A move into somebody else's folder clears the caller's own, and
the properties about a user's folders name it as the exception it is:
`TwoFoldersNeedTwoFilings` and `SentForGood` hold until somebody else files the
message there. The requests start from placements with a message in one folder
of each user, or in "inbox" and "sent" of one (`StartsAssumption`).

### MessagesService

`call[c]` holds the local variables of one handler, and each step is one
repository call, an operation of `MailStore`. Any call may fail (`Fail`) and
the handler then answers an error. `copies` is a history of the messages the
loop has made. Handlers of a single call are not repeated: DeleteDraft and
SendDraft run as `OtherRequest`, because they reach into the work of the
handlers. `LookupFails` says whether the thread query of `resolveThreadRoot`
may fail, which the code takes for "no thread". SaveDraft makes a new draft for
each entry of the list of receivers (`SaveDraft`), but saves an existing one
again for each, adding the request's files every time (`SaveDraftAgain`,
`StoreFile`). The list is a sequence: Send and Reply refuse one that names a
receiver twice (`NoReceiverTwice`), validateDraftRequest does not
(`grpc_service.go:993`), so one request can make two drafts for one receiver.
A draft keeps no receiver, and what its entries say is any text
(`DraftAddresses`). When the repository's own check finds no draft, it wraps a
nil error: SaveDraft goes on with message 0 and answers OK (`SaveNothing`).

### Accounts

`call[c]` is a request, `jar[b]` the cookies of a browser. `CreateUser` is taken
apart into its statements, with the unique index that makes the second of two
sign-ups wait for the first; the identity sequences never step back. `Answer`
delivers answers in any order. `since`, in a token, is a history variable:
when the password was given. Expired cookies stay in the jar, because it is the
service's check that counts. Names come without surrounding blanks: login trims
them and sign-up does not (`auth-service/grpc-service/grpc_service.go:51`
and `:92`), so a name with blanks could not be logged in with.

### FolderPages

`walk` is a client that asks on while `has_next` is true. `Rows` is the keyset
query, whose join with `profile_message` gives a row for every reader of a
message; `bonds` says how many those are. A tick of the clock is the resolution
of `date_of_dispatch`, and `Second` ticks make a second, the resolution of the
cursor. `page`, `before`, `seams` and `stayed` are histories of the walk. A
failing GetFolder is answered as an empty last page (`FailPage`). GetFolder is
two steps, `List` for the page and `Answer` after the query for the counters.
Their values are left out: the counter counts placements whose message the
caller has a row for (`message-repository.go:1149`), the page shows those that
anybody has one for, once for each, so that neither bounds the other. `Redate`
is SendDraft, which dates a message again.

### Deployment

`at[p]` is the step of program p's start-up, `serve` when it is through, `off`
when it does not run. `complained` are the programs that have logged an error
since they started. Migrations are applied one by one, each between a mark that
sets the dirty flag and one that clears it, as golang-migrate does; a migration
that is cut off leaves the flag. RunMigrations returns an error then, and for a
database that is up to date, and AuthInit logs it and serves. ProfileInit and
MessagesInit both look for the bucket and make it, and serve without it when
they cannot. The environment stops programs and stores (`Fault`, bounded by
`MaxFailures`); starting them again is free.

### Gateway

What distinguishes the 24 handlers and the 22 procedures they call is data, in
two tables that follow the code function by function. A `Handler` has the
statuses of requests it does not forward, and calls, each with the way it maps
error codes. A procedure (`Rpc`) has its accesses in order: which store, whether
it writes, the codes with which it is refused, the code made of a failure,
whether it happens always. The actions interpret the tables: `Forward`, `Serve`,
`Refuse`, `Fail`, `Answer`, `Receive`. `request.stored` says whether anything
has been written for the request, `request.broke` whether it has met a program
or store that did not answer. What the writes do is in the other modules.

* `LoseCommit` is a transaction that commits just before PostgreSQL stops: the
  service sees an error although the change is stored.
* `Notice` is what gRPC does when a service dies under a call: the caller gets
  `Unavailable`. When the gateway dies the browser's connection breaks.
* `Leave` is the browser that goes away; its context is cancelled.
* `exhausted` says whether the requests of others keep every connection of the
  messages service to themselves, each waiting for one more (`Exhaust`). A
  request that needs PostgreSQL there waits then (`Starved`), until one of them
  is given up (`Relieve`) or the program is stopped (`Release`). `MailTx` shows
  how they come to it.
* `Unlinked`: when no link to a picture can be signed, the profile's answer
  carries its stored name, and getAvatarHandler makes an address of it
  (`normalizeAvatarURL`) that MinIO cannot serve.

## Runs

Every run ends within five minutes on two workers. Each property of a passing
run has a mutant that violates it.

| run | instance | shows |
|---|---|---|
| `store_filing` | 2 users, 1 message, 2 texts, 1 thread, 2 own folders, moves into anybody's own folders; 48,194 states | the tables' invariants and what no operation may do |
| `store_refiled` (violated) | 2 messages, moves into any folder | a received message moved into the drafts can be edited and deleted for everybody |
| `tx_all` | every pair of the 7 operations from every placement of a message, with failures, one by one and side by side on 1 and 2 connections; 230,777 states | one by one the scripts do what `MailStore` says; side by side no orphan, a draft is sent once and for good, answers are true, two folders take two filings or somebody else's, success without effect takes an overtaker, and waits end unless deletions starve the pool |
| `tx_lost` (violated) | move beside delete folder | a message moved into a folder being deleted is in no folder |
| `svc_calls` | 2 requests of send, reply, draft, page, up to 2 receivers and 1 file, drafts to the same one twice; 104,037 states | every handler step is a store operation; what an ok answer means; what a request that is under way or has failed has made |
| `svc_split` (violated) | send beside reply | two threads for one message, the reply's thread without its root |
| `accounts` | 3 requests of all kinds, 2 at a time, time 0..3; 639,824 states | one winner for a name, whole accounts, tokens and sessions, what survives a logout, avatars |
| `accounts_mailbox` (violated) | 3 sign-ups | the user id of a token is not the id that owns the mailbox |
| `accounts_lockout` (violated) | sign-up, update, login | a legal profile update locks the user out |
| `pages` | 3 messages, pages of 2 rows, 2 seconds; 306,353 states | no message is on two pages (one page may repeat it, once for each reader), what is skipped lies at a page's end, the cursor descends, the walk ends |
| `pages_skipped` (violated) | the same | messages of one second are skipped at a page's end |
| `front` | 24 routes, one request at a time, 2 migrations, 1 fault anywhere from the first start on; 567,887 states | a broken start is in the log; a refusal means nothing was stored; which outages are told as something else; every request ends, unless it waits for a connection that others keep |

### Why the bounds are enough

* *MailStore.* Operations take one message and at most two users, two folders
  and a name. Messages interact only through threads, and the proofs cover any
  number of them. Two users are needed for sharing, two own folders for name
  clashes, two texts for edits. Moves go into custom folders only, the mover's or
  the other user's: the proofs cover every set of types.
* *MailTx.* The races are between two requests on one message. Three
  transactions could form a longer ring of waits; PostgreSQL breaks rings of any
  length and so does `BreakDeadlock`. One user suffices since every statement is
  restricted to the caller's folders, except for the message row, which two
  requests of one user share as well.
* *MessagesService.* Two requests with two receivers have every pair of steps
  interleaved; the ids are enough for two copies. A request that finds no free
  message or thread id fails, as any request may. One thread is enough for
  `svc_calls`, whose properties do not tell two threads apart; `svc_split` has
  two.
* *Accounts.* Three requests are enough for two crossing sign-ups and a third
  action, and for login, refresh, use of a token. `MaxTime` 3 is
  `AccessTTL + RefreshTTL`, after which every token has expired.
* *FolderPages.* Three messages fill a page of two and begin another. With two
  copies of a message a page can end between the copies. Two seconds, the first
  of two ticks, tell apart the same tick, the same second and another second.
* *MailTx, the pool.* A request holds at most two connections. Two requests on
  two connections can starve each other, on three they cannot, and with one at
  a time two are enough: the three loads are the cases the property tells apart.
* *Gateway and Deployment.* Requests share nothing in the gateway and the
  services but the pools of connections, and only the messages service has
  requests that keep one and wait for another (`exhausted`). So one at a time
  meets everything that the programs, the stores and the other requests do to
  it. Two migrations give a schema that is missing, partial and whole. One fault
  at any step, from the first start on, is enough to lose any call, answer,
  commit or migration; what is proved about the deployment is proved for any
  number of both.

Symmetry is used in `MCMailStore` and `MCMessagesService`, whose properties are
safety properties and whose operations neither order nor compare ids.
`MCAccounts`, `MCFolderPages` and `MCMessagesService` set `CHECK_DEADLOCK
FALSE`: their requests are a finite supply and clients may stop asking. The
others can always go on; `MailTx` has a step for the end of all requests.

### Fairness

`MailTx!FairSpec` is weakly fair for each transaction's `Step` and for
`BreakDeadlock`: PostgreSQL executes what can be executed, and looks for rings
after `deadlock_timeout`. Nothing forces a request to arrive or to fail, and no
strong fairness is assumed: a waiting transaction never depends on winning a
race for ever because there are finitely many others. `EveryRequestIsAnswered`
excepts the state in which deletions hold every connection and each wants one
more (`Starved`): no timeout in the code ends that wait.
`FolderPages!FairSpec` is weakly fair for `Walk`: the client asks on, and the
gateway answers. Without that a browser that closes its tab would be a
counterexample to `WalkEnds`. Opening a walk, deliveries, moves and failures
are not fair.
`Gateway!Spec` is weakly fair for `Work`, what the gateway and a service that
runs do for the request under way. Programs and stores that have stopped need
not come back: `EveryRequestEnds` does not wait for them, as a failed connection
is an error at once. Nor need the connections that others keep be given back:
the fairness of `Work` forces no access while the pool is exhausted, no call has
a deadline, and the property names this wait as the only one that may last.

## Proofs

`MailStoreProofs` proves, for any sets of users, messages, threads, folders,
names and texts that satisfy `StoreAssumption`:

* `TypeCorrect`, `ReferencesHold`, `SystemFoldersHold`, `FolderNamesHold`: the
  invariants;
* `StraysAreFiledHolds`, `SecondPlaceByOthersHolds`, `NothingLostHolds`,
  `ReadStaysReadHolds`: the action properties;
* `DraftIsPrivateHolds`, `DeliveredIsSettledHolds`: under the assumption
  `"draft" \notin MovableTypes`. Without it `store_refiled` refutes the latter.

The inductive invariant is `StoreInv`, the conjunction of the four invariants,
each with a lemma that has one step for every operation. The action properties
are shown step by step from it, and none follows from the types alone.
`SecondPlaceByOthers` needs `SystemFolders`, since moving "to the trash" or "to
spam" has to mean one folder. It needs `NoDanglingReference` too: a new message
or folder has no placements left over from an earlier row. `StraysAreFiled`
needs the same for rows and folders: a cascade takes placement and row together.
That a user holds a message once, or that everything placed is bonded, is no
invariant of this code, since a client may name what is not his; the two
properties say which requests bring it about. `DraftIsPrivate` is
inductive relative to `StoreInv`: sent and received placements are never in a
draft folder, so a delivery cannot touch a draft, and a draft that is sent
leaves the draft folder. `DeliveredIsSettled` follows: only a draft is edited
or deleted, and a draft is bonded to its author alone.

`MailTxProofs` proves, for any numbers of requests, users, messages and folders,
any kinds of request and any loads, under `TxAssumption` and `StartsAssumption`,
all seven invariants of `MailTx` and the action property `KeepsItsWord`. A step is first put into
one of three classes (`StepsOf`): a request arrives, a statement begins, handles
an item or ends (`Works`), or a transaction ends, where `Commits` is the case that makes its work
visible. Statements change the tables in so few ways that most invariants need
one case for each way, not one for each statement of each script.

* `Locked` is what the locks amount to: a row another transaction inserts or
  deletes is touched by nobody else (`DeletedOnce`, `Exclusive`); a transaction
  with an UPDATE lock on a message or folder is deleting it (`DoomKnown`), and
  holds the lock to its end (`DoomHeld`); a transaction past its "keys" holds the
  parents of what it inserted (`Keyed`); a transaction past its cascade has
  deleted every placement in the parent (`Cascaded`). With `Rooted`, no placement
  is committed whose parent is gone, which is `NoOrphanHolds`. `NoOrphan` alone
  is not inductive: that a DELETE finds every child is known only because a child
  that was not yet committed would hold the parent's key share lock.
* `TypeOKHolds` adds that a connection is held only by one of the open requests
  and that the pool is never exceeded (`Pooled`).
* `Kinds` says what a statement may have inserted or chosen by then. From it
  follow `KeepsItsWordHolds` (`MoveFiled`: a move past its INSERT has its row or
  the one it found) and `NothingOnlyWhenOvertakenHolds` (`Found`: a draft seen by
  the handler's check is in the drafts until one of the named requests commits).
* `SendsOnceHolds`: the unique key of "sent" makes the second of two sendings
  wait and fail (`Unique`), and a committed sending's row stays until the message
  is refiled (`SentKept`).
* `TwoFoldersNeedTwoFilingsHold` (`OneFolder`) follows each request that files a
  message: `Cleared` says that its DELETE finds whatever lies elsewhere,
  `FromDrafts` and `FromFolder` that what is sent or copied to the trash lay in
  the drafts or in the folder only, each unless another filing was committed
  beside the request (`Crossed`). With one request at a time there is none, which
  takes `Pooled`.
* `SentForGoodHolds`: between its statements a sending holds the message row
  (`StampHeld`), so it stays dated; its two rows are there once committed
  (`SentKept`, `InboxKept`), and no other folder has the message unless it
  strayed (`SentOnly`, `Strayed`).

`MessagesServiceProofs` proves, for any number of requests, users, receivers,
ids and files, under `ServiceAssumption` and `"draft" \in MovableTypes` (the
handler SaveDraft files its new draft with MoveToFolder, which in `MailStore` is
a step of clients that move messages into the draft folder):

* `ServiceImplementsStore`: `ServiceSpec => ImplementsStore`, so the theorems
  of `MailStoreProofs` hold of the service. A message is marked as read in
  `MailStore` only by somebody who knows it, and the page asks that two calls
  before it marks: what has to be shown is that a page interrupted by a
  DeleteDraft never marks a message that took the deleted one's id. `ServiceInv`
  therefore says that a message a request works on has been made (`Used`), that
  ids are not used twice, and that a page's caller is related to the message
  while it exists (`Permitted`, `BondsLast`); that the handler has the variables
  its next call needs (`Ready`); that entries are served in order, each once
  (`InOrder`, `Served`); and that copies are apart (`CopiesApart`).
* `ServiceTypeCorrect` follows from the types in the invariant. The counts of
  `ServedInFullHolds` follow from `InOrder`, `Served` and `CopiesApart`, that all
  copies but the last are complete from `DeliveryInv`.
* `OkMeansDeliveredHolds` follows every copy of a send or reply to the answer
  and beyond (`DeliveryInv`). A delivered message never lies in a draft folder
  (`NeverDraft`), and a draft that is being saved is never another request's
  copy (`OthersApart`), so the drafts that others save, send and delete are not
  among the copies. For each copy, the files stored and those still to be
  stored make up the request's (`Complete`); each receiver has a copy or is
  still to be served (`Addressed`); and from the second copy on the first one is
  in a thread (`FirstInThread`). Clients who move delivered mail into their
  drafts are not in this module; `store_refiled` shows what they can do.

`AccountsProofs` proves, for any number of requests, at a time and in all,
browsers and names, and any lifetimes of the tokens, under
`AccountsAssumption`, all seven invariants of `Accounts`:

* `CallInv` is the base of all of them: a request at a step of its operation has
  the variables it should have by then (`Local`); a sequence has drawn as many
  numbers as there are requests with one (`Counted`), none twice (`Distinct`);
  tables and cookies have their types. `TypeCorrect` needs `Counted`: the numbers
  stay within `Ids` because every sign-up draws at most one of each.
* `OneWinnerHolds` strengthens the property to the sign-ups that are past the
  unique index and have not committed (`OneClaim`), and `Rows` ties the rows to
  the sign-ups that made them: the index sees a winner either as a row or as an
  open transaction. `AccountsCompleteHold` follows from `Rows` and `Distinct`.
* `TokenNamesItsAccountHolds`: no later sign-up writes the row that an issued
  token names, again by `Rows` and `Distinct`.
* `SessionsEndHolds` carries the bound through every token there is, of answers,
  cookies and requests (`Sessions`); it is the check of the refresh token's
  expiry that closes the induction.
* `OnlyALateRefreshRemainsHolds`: a refresh whose browser has no refresh cookie
  was overtaken by a logout (`LateInv`), and answered requests do not change
  (`DoneForGood`).
* `AvatarIsStoredHolds`: between its two steps an upload has its object stored,
  and objects are never removed (`Stored`).

`FolderPagesProofs` proves, for folders and pages of any size, any number of
readers of a message and any number of clock ticks in a second, under
`PagesAssumption`, the three invariants of `FolderPages` and its action property
(`PagesTypeCorrect`, `PagesDisjointHolds`, `SkippedAtSeamHolds`,
`CursorDescendsHolds`). The inductive invariant is that the cursor parts the
walk (`Parted`): while it goes on, nothing that was shown is below the cursor,
and what stayed and was not shown either is below it or is of the second of a
page's last row. `AtTheCursor` is the fact about rounding that both halves need,
`Listed` what a page of the query is: in order, and full if it leaves a row out.
Other requests date messages forward only (`MailMoves`), so that what was shown
stays above the cursor.

`GatewayProofs` proves, for any number of migrations and faults:

* `ImplementsDeployment`: `Gateway` implements `Deployment`; requests start, stop
  and migrate nothing.
* `DeploymentTypeCorrect` and `NothingBreaksInSilence` (`BrokenIsLogged`), from
  `DeploymentInv`: a program past a step of its start-up has either done it or
  complained. Without the steps that are behind a program, the property is not
  inductive: a program that begins to serve is broken or not because of what it
  did earlier.
* `TypeCorrect`, `RefusedMeansUntouchedHolds` and `FailuresAreToldHold`, of the
  request under way. The properties speak of answers only, and an answer depends
  on what the request did before it; `RequestInv` says what that can be: a
  request under way has stored something only by an access it is past
  (`WritesBefore`), and has met a failure only at a past access whose failure is
  logged (`WarnsBefore`), or at the picture it asked for by name (`Second`).
  With that, a step that answers is right if the tables are, and whether they
  are no longer depends on behaviours: `HandlerSound`, `CallSound` and
  `AccessSound` say of every access that the code it refuses or fails with is
  answered by a status that fits what lies before it (`Fits`). The lemmas
  `LoginSound` to `SendDraftSound` show it route by route. Most handlers make
  500 of every code; for those that pass codes on, the order of a procedure's
  accesses decides (`Orderly`): what may be the caller's mistake is found before
  anything is written. `UpdateProfileSound` is where that fails, and why both
  properties except that route.

The temporal steps use PTL; all others are first-order. Liveness, fairness and
ENABLED are out of the prover's reach and are checked by TLC only, as is the
refinement `ImplementsStore` of `MailTx`.

## Findings

Six runs end in a violation of what a comment, a test, the schema or an answer
says. `PROJECT.json` quotes both sides.

1. **Moved drafts** (`store_refiled`). "Draft" means "lies in the caller's draft
   folder", and MoveToFolder puts anything there: the one row that sender and
   receiver share is then edited or deleted by either.
2. **Lost with the folder** (`tx_lost`). DeleteFolder copies the messages it
   sees to the trash and then cascades over whatever is there, among it what a
   concurrent move has put in.
3. **Split thread** (`svc_split`). Looking up, making and attaching a thread are
   three transactions.
4. **Somebody else's mailbox** (`accounts_mailbox`). CreateUser makes folders
   for the `profile` id and returns the `base_profile` id, and the messages
   service uses the latter as the former. The two are equal only while no
   sign-up fails half-way or overtakes another.
5. **Locked out** (`accounts_lockout`). A profile update with an empty name or
   an unknown gender stores NULL, which login cannot scan.
6. **Skipped at the seam** (`pages_skipped`). The cursor is formatted in whole
   seconds.

The models also contain behaviour that no document speaks against, or that one
of the runs above stands for:

* two concurrent moves of one message leave it in two folders (`MailTx`;
  `TwoFoldersNeedTwoFilings` says that beside them only a move by somebody else
  does);
* a draft saved while it is being sent is edited after it was sent (`MailTx`);
* where the repository's own draft and folder checks refuse, it wraps a nil
  error and so reports success (`message-repository.go:522`, `:639`, `:1031`);
* a failing thread query counts as "no thread" (`LookupFails`);
* a send to several receivers may fail after some were served, and a repeated
  request serves them again;
* logout revokes nothing, and a late refresh answer sets the cookie again
  (`OnlyALateRefreshRemains` says that nothing else does);
* a draft saved again gets the request's files once for each receiver, and a
  new one to a receiver named twice is made twice;
* SaveDraft for a draft that is gone by the repository's check answers OK with
  the id 0 (`SaveNothing`, `message-repository.go:521`);
* a message can be put into the spam folder or, by MoveToFolder, into anybody's
  folder by a user it does not concern; the listing then shows it, the counter
  beside it does not count it (`message-repository.go:1076`, `:1149`);
* as many DeleteDraft requests as the pool has connections wait for each other
  for ever (`Starved`, `message-repository.go:634`);
* a refresh while the auth service is away is answered 401, as if the session
  were over, and every failure of a profile update is answered 400, a lost
  database among them (`FailuresAreTold` lists these);
* the loser of two simultaneous sign-ups is told of an internal error
  (`auth-service/grpc-service/grpc_service.go:109`);
* a database that is up to date is logged as a failed migration
  (`internal/lib/init/database.go:59`, ErrNoChange);
* a folder is asked for by its id, name or type, and the first of the list that
  has the string as any of them is taken: a folder named like a number can
  stand in for the folder with this id (`gateway-service/server/server.go:852`).

## Not modelled

* *Which strings pass validation.* Where each procedure validates and what a
  refusal is answered is in `Gateway`. One divergence is worth knowing: the
  service admits topics of 255 characters and the column 200.
* *Legacy handlers* under `internal/http-server/handlers`: no program wires
  them.
* *Middleware, metrics, logging of requests*: no decision of the modelled parts
  reads their state, and they keep none between requests that could go wrong.
* *Generated code* (`*/pkg/*proto`): the generator's; its error codes appear in
  `Gateway`.
* *The rows of some read-only queries*: thread lists, settings, sender data, the
  unread counter. `Gateway` has their accesses, failures and answers.
* *Values of the configuration*, JSON, presigned URLs: formatting.

## Plan

Done, in this order: `MailStore` and its proofs, `MailTx`, `MessagesService`,
`Accounts`, `FolderPages`; then `Deployment`, `Gateway` and their proofs, the
pool in `MailTx` and `Gateway`, the saving of existing drafts,
the proof that `MessagesService` implements `MailStore`, the proofs about
`Accounts`, `FolderPages` and `MailTx`, and those about what `Gateway` answers.

Left, in the order of what it would add:

1. Proofs: `ImplementsStore` of `MailTx`, where one request at a time makes
   every snapshot the current state.
2. `MailTx`: FindFullByMessageID, which holds a connection for its transaction
   and asks for another (`message-repository.go:95`), and moves under a failing
   pool.
3. Several requests of one browser in `Gateway`, with the cookies of `Accounts`.
