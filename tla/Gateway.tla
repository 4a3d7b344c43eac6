------------------------------- MODULE Gateway -------------------------------
(***************************************************************************)
(* A request from the browser through the gateway to the services and      *)
(* their stores, while programs and stores stop and start beside it.       *)
(*                                                                         *)
(* What differs between the HTTP handlers of server.go, and between the    *)
(* remote procedures they call, is in two tables.  A handler is the calls  *)
(* it makes, what it answers to a request it does not forward, and how it  *)
(* turns a procedure's error code into a status.  A procedure is the       *)
(* service that serves it and the accesses it makes in order.  What the    *)
(* accesses do to the mail and to the accounts is in the modules of the    *)
(* stores; here they succeed, are refused, or fail, and may have stored    *)
(* something by then.                                                      *)
(***************************************************************************)
EXTENDS Deployment, FiniteSets

-----------------------------------------------------------------------------
(* The procedures. *)

\* An access to a store.  It is refused with one of the codes "refuses", and
\* answered with the code "failure" when the store does not answer.
Access(store, writes, failure, refuses) ==
    [store |-> store, writes |-> writes, failure |-> failure, refuses |-> refuses,
     optional |-> FALSE]

Check(refuses) == Access("none", FALSE, "Internal", refuses)

Read(failure, refuses) == Access("postgres", FALSE, failure, refuses)

Write(failure, refuses) == Access("postgres", TRUE, failure, refuses)

\* An access the procedure makes in some cases only.
Maybe(access) == [access EXCEPT !.optional = TRUE]

\* The failure of this access is only logged.
Warned(access) == [access EXCEPT !.failure = "OK"]

Rpc(service, authenticated, accesses) ==
    [service |-> service, authenticated |-> authenticated, accesses |-> accesses]

\* What a client sent is looked at before anything else.
validateSendRequest == Check({"InvalidArgument"})

validateReplyRequest == Check({"InvalidArgument"})

validateDraftRequest == Check({"InvalidArgument"})

validateFolderName == Check({"InvalidArgument"})

\* strconv.ParseInt
Number == Check({"InvalidArgument"})

\* A presigned link instead of the stored name of a picture.  The client signs
\* without MinIO once it knows where the bucket is; before, it has to ask.
enrichAvatarURL == Maybe(Warned(Access("bucket", FALSE, "OK", {})))

enrichSenderAvatar == Maybe(Warned(Access("bucket", FALSE, "OK", {})))

\* auth-service.  Login makes one code of every failure.
Login ==
    Rpc("auth", FALSE,
        <<Check({"InvalidArgument"}), Read("Unauthenticated", {"Unauthenticated"})>>)

Signup ==
    Rpc("auth", FALSE,
        <<Check({"InvalidArgument"}), Read("Internal", {"AlreadyExists"}),
          Write("Internal", {"Internal"})>>)

Refresh == Rpc("auth", FALSE, <<Check({"Unauthenticated"})>>)

Logout == Rpc("auth", FALSE, <<>>)

\* profile-service.
\* A name or a gender that is NULL cannot be scanned.
FindInfoByID == Read("Internal", {"NotFound", "Internal"})

\* Who has no settings gets the defaults.
FindSettingsByProfileId == Read("Internal", {"Internal"})

GetProfile == Rpc("profile", TRUE, <<FindInfoByID, enrichAvatarURL>>)

UpdateProfile ==
    Rpc("profile", TRUE,
        <<Write("InvalidArgument", {"InvalidArgument"}), FindInfoByID, enrichAvatarURL>>)

Settings == Rpc("profile", TRUE, <<FindSettingsByProfileId>>)

UploadAvatar ==
    Rpc("profile", TRUE,
        <<Check({"InvalidArgument"}),
          Access("bucket", TRUE, "Internal", {"Internal"}),
          Write("Internal", {})>>)

\* messages-service.
MessagePage ==
    Rpc("messages", TRUE,
        <<Number, Read("Internal", {"PermissionDenied"}),
          Read("Internal", {}), Maybe(Warned(Write("OK", {}))), enrichSenderAvatar>>)

Reply ==
    Rpc("messages", TRUE,
        <<validateReplyRequest,
          Maybe(Warned(Write("OK", {}))),              \* the thread it names
          Maybe(Warned(Read("OK", {}))),               \* the thread it has
          Maybe(Write("Internal", {"Internal"})),      \* a new thread
          Write("Internal", {"Internal"}),             \* one receiver's copy
          Maybe(Write("Internal", {"Internal"}))>>)    \* files, other receivers

Send ==
    Rpc("messages", TRUE,
        <<validateSendRequest, Write("Internal", {"Internal"}),
          Write("Internal", {}), Maybe(Write("Internal", {"Internal"}))>>)

MarkAsSpam ==
    Rpc("messages", TRUE, <<Number, Write("Internal", {"Internal"})>>)

MoveToFolder ==
    Rpc("messages", TRUE, <<Number, Write("Internal", {"Internal"})>>)

CreateFolder ==
    Rpc("messages", TRUE,
        <<validateFolderName, Write("Internal", {"AlreadyExists", "Internal"})>>)

GetFolder ==
    Rpc("messages", TRUE,
        <<Number, Read("Internal", {}), Read("Internal", {}), enrichSenderAvatar>>)

GetFolders == Rpc("messages", TRUE, <<Read("Internal", {})>>)

RenameFolder ==
    Rpc("messages", TRUE,
        <<Number, validateFolderName, Write("Internal", {"AlreadyExists", "Internal"})>>)

DeleteFolder ==
    Rpc("messages", TRUE,
        <<Number,
          Write("Internal", {"NotFound", "PermissionDenied", "Internal"})>>)

\* Nothing is deleted where nothing is found, and that is no error.
DeleteMessageFromFolder ==
    Rpc("messages", TRUE,
        <<Number, Maybe(Write("Internal", {"Internal"}))>>)

\* The first access finds no draft to save, and that is no error.
SaveDraft ==
    Rpc("messages", TRUE,
        <<validateDraftRequest, Maybe(Write("Internal", {"Internal"})),
          Number, Maybe(Write("Internal", {"Internal"})),
          Maybe(Write("Internal", {"Internal"}))>>)

DeleteDraft ==
    Rpc("messages", TRUE,
        <<Number, Read("Internal", {"PermissionDenied"}),
          Maybe(Write("Internal", {"Internal"}))>>)

SendDraft ==
    Rpc("messages", TRUE,
        <<Number, Read("Internal", {"PermissionDenied"}),
          Write("Internal", {"Internal"})>>)

\* getAvatarHandler's own request to MinIO.
FetchAvatar == Rpc("gateway", FALSE, <<Access("bucket", FALSE, "BadGateway", {"BadGateway"})>>)

-----------------------------------------------------------------------------
(* The handlers. *)

\* What the browser sees of the code of a failed procedure.
writeGrpcAwareError ==
    [Unauthenticated |-> 401, InvalidArgument |-> 400, NotFound |-> 404,
     PermissionDenied |-> 403, AlreadyExists |-> 409]

Opaque == [none |-> 0]

BadRequests == [InvalidArgument |-> 400, AlreadyExists |-> 400]

Status(errors, default, code) ==
    IF code \in DOMAIN errors THEN errors[code] ELSE default

Call(rpc, errors, default) == [rpc |-> rpc, errors |-> errors, default |-> default]

AwareCall(rpc) == Call(rpc, writeGrpcAwareError, 500)

OpaqueCall(rpc) == Call(rpc, Opaque, 500)

\* "rejects" are the answers to requests that are not forwarded, "absent" those
\* to requests that end between two calls.
Handler(rejects, absent, calls) ==
    [rejects |-> rejects, absent |-> absent, calls |-> calls]

NoToken == 401
BadBody == 400

\* Seeded fault: Login's code is passed on.
loginHandlerAware == Handler({500}, {}, <<AwareCall(Login)>>)

loginHandler == Handler({500}, {}, <<OpaqueCall(Login)>>)

signupHandler == Handler({500}, {}, <<Call(Signup, BadRequests, 500)>>)

refreshHandler == Handler({NoToken}, {}, <<Call(Refresh, Opaque, 401)>>)

logoutHandler == Handler({}, {}, <<OpaqueCall(Logout)>>)

getProfileHandler == Handler({NoToken}, {}, <<AwareCall(GetProfile)>>)

updateProfileHandler == Handler({NoToken, BadBody}, {}, <<AwareCall(UpdateProfile)>>)

settingsHandler == Handler({NoToken}, {}, <<AwareCall(Settings)>>)

uploadAvatarHandler == Handler({NoToken, BadBody, 500}, {}, <<AwareCall(UploadAvatar)>>)

\* The first call is left out when the request names the picture.  No address, one
\* that does not parse, one no request can be made of.
getAvatarHandler ==
    Handler({NoToken}, {404, 400, 500},
        <<AwareCall(GetProfile), Call(FetchAvatar, Opaque, 502)>>)

messagePageHandler == Handler({NoToken}, {}, <<AwareCall(MessagePage)>>)

replyHandler == Handler({NoToken, BadBody}, {}, <<OpaqueCall(Reply)>>)

sendHandler == Handler({NoToken, BadBody}, {}, <<OpaqueCall(Send)>>)

\* A folder page that cannot be read is answered as an empty one.
respondFolder == Call(GetFolder, Opaque, 200)

getFolderHandler == Handler({NoToken}, {404}, <<OpaqueCall(GetFolders), respondFolder>>)

inboxHandler == Handler({NoToken}, {200}, <<OpaqueCall(GetFolders), respondFolder>>)

getFoldersHandler == Handler({NoToken}, {}, <<OpaqueCall(GetFolders)>>)

renameFolderHandler == Handler({NoToken, BadBody}, {}, <<AwareCall(RenameFolder)>>)

deleteFolderHandler == Handler({NoToken}, {}, <<OpaqueCall(DeleteFolder)>>)

deleteMessageFromFolderHandler ==
    Handler({NoToken, BadBody}, {}, <<OpaqueCall(DeleteMessageFromFolder)>>)

\* Seeded fault: SaveDraft's code is passed on.
saveDraftHandlerAware == Handler({NoToken, BadBody}, {}, <<AwareCall(SaveDraft)>>)

saveDraftHandler == Handler({NoToken, BadBody}, {}, <<OpaqueCall(SaveDraft)>>)

deleteDraftHandler == Handler({NoToken, BadBody}, {}, <<OpaqueCall(DeleteDraft)>>)

sendDraftHandler == Handler({NoToken, BadBody}, {}, <<OpaqueCall(SendDraft)>>)

markAsSpamHandler == Handler({NoToken, BadBody}, {}, <<OpaqueCall(MarkAsSpam)>>)

moveToFolderHandler == Handler({NoToken, BadBody}, {}, <<OpaqueCall(MoveToFolder)>>)

createFolderHandler == Handler({NoToken, BadBody}, {}, <<AwareCall(CreateFolder)>>)

\* The routes of Server.Start.
Routes ==
    [login |-> loginHandler, signup |-> signupHandler, refresh |-> refreshHandler,
     logout |-> logoutHandler, getProfile |-> getProfileHandler,
     updateProfile |-> updateProfileHandler, settings |-> settingsHandler,
     uploadAvatar |-> uploadAvatarHandler, getAvatar |-> getAvatarHandler,
     messagePage |-> messagePageHandler, reply |-> replyHandler,
     send |-> sendHandler, markAsSpam |-> markAsSpamHandler,
     moveToFolder |-> moveToFolderHandler, createFolder |-> createFolderHandler,
     inbox |-> inboxHandler, getFolder |-> getFolderHandler,
     getFolders |-> getFoldersHandler, renameFolder |-> renameFolderHandler,
     deleteFolder |-> deleteFolderHandler,
     deleteMessageFromFolder |-> deleteMessageFromFolderHandler,
     saveDraft |-> saveDraftHandler, deleteDraft |-> deleteDraftHandler,
     sendDraft |-> sendDraftHandler]

-----------------------------------------------------------------------------

VARIABLES
    request,   \* the request under way, Idle when there is none
    exhausted  \* do others keep all connections of the messages service to themselves?

vars == <<deployment, request, exhausted>>

\* route: its handler; call: which of the handler's calls; pc: the procedure's
\* access, 0 before the call; status: the gateway's answer; stored: has something
\* been written for it?; broke: has it met a program or a store that did not
\* answer?
Idle ==
    [route |-> "none", call |-> 1, pc |-> 0, status |-> 0, stored |-> FALSE,
     broke |-> FALSE]

Active == request.route # "none"

ThisHandler == Routes[request.route]

ThisCall == ThisHandler.calls[request.call]

Accesses == ThisCall.rpc.accesses

ThisAccess == Accesses[request.pc]

\* The gateway holds the request, and no call of it is under way.
AtGateway == Active /\ request.pc = 0 /\ request.status = 0

\* The service works on it.
AtService == request.pc > 0 /\ Serving(ThisCall.rpc.service)

AtAccess == AtService /\ request.pc <= Len(Accesses)

\* It waits for a connection, for as long as no other request gives one back.
Starved ==
    /\ exhausted /\ AtAccess
    /\ ThisCall.rpc.service = "messages" /\ ThisAccess.store = "postgres"

\* Tables that are not there make some statements fail, all of them when none is.
CanServe(store) ==
    /\ store = "postgres" => postgres = "up" /\ schema > 0
    /\ store = "bucket" => minio = "up" /\ bucket = "made"

CanFail(store) ==
    \/ store = "postgres" /\ (postgres = "down" \/ schema < Migrations)
    \/ store = "bucket" /\ (minio = "down" \/ bucket = "missing")

\* Without a link getAvatarHandler asks for the picture by its stored name: it
\* has something to ask for, but it is never a picture's address.
Unlinked == request.route = "getAvatar" /\ request.broke

\* The procedure called for r has answered with a code.
Receive(r, code) ==
    IF code # "OK"
    THEN [r EXCEPT !.pc = 0,
              !.status = Status(ThisCall.errors, ThisCall.default, code)]
    ELSE IF r.call < Len(ThisHandler.calls)
    THEN [r EXCEPT !.call = @ + 1, !.pc = 0]
    ELSE [r EXCEPT !.pc = 0, !.status = 200]

Unreachable(r) == Receive([r EXCEPT !.broke = TRUE], "Unavailable")

-----------------------------------------------------------------------------
(* The gateway. *)

Arrive(route) ==
    /\ ~Active /\ Serving("gateway")
    /\ request' = [Idle EXCEPT !.route = route]

\* No cookie, no JSON, no folder, no picture.
Reject ==
    /\ AtGateway /\ ~Unlinked
    /\ \E s \in IF request.call = 1 THEN ThisHandler.rejects ELSE ThisHandler.absent :
          request' = [request EXCEPT !.status = s]

Forward ==
    /\ AtGateway
    /\ request' = IF Serving(ThisCall.rpc.service)
                  THEN [request EXCEPT !.pc = 1]
                  ELSE Unreachable(request)

\* /user/avatar?url=...
PassOver ==
    /\ AtGateway /\ request.route = "getAvatar" /\ request.call = 1
    /\ request' = [request EXCEPT !.call = 2]

\* "inbox", asked for by that name, is looked up a second time.
TakeForInbox ==
    /\ AtGateway /\ request.route = "getFolder" /\ request.call = 2
    /\ request' = [request EXCEPT !.route = "inbox", !.call = 1]

Respond == request.status # 0 /\ request' = Idle

\* The browser has gone; the request's context is cancelled.
Leave == Active /\ request.status = 0 /\ request' = Idle

-----------------------------------------------------------------------------
(* The services. *)

\* getProfileID: no valid access token.
Unauthenticated ==
    /\ AtService /\ request.pc = 1 /\ ThisCall.rpc.authenticated
    /\ request' = Receive(request, "Unauthenticated")

Serve ==
    /\ AtAccess /\ CanServe(ThisAccess.store) /\ ~Unlinked /\ ~Starved
    /\ request' = [request EXCEPT !.pc = @ + 1, !.stored = @ \/ ThisAccess.writes]

Skip ==
    /\ AtAccess /\ ThisAccess.optional
    /\ request' = [request EXCEPT !.pc = @ + 1]

Refuse ==
    /\ AtAccess /\ CanServe(ThisAccess.store) /\ ~Starved
    /\ \E c \in ThisAccess.refuses : request' = Receive(request, c)

\* The store does not answer; "stored" says whether the access was made.
Fails(stored) ==
    LET r == [request EXCEPT !.broke = TRUE, !.stored = @ \/ stored]
    IN  request' = IF ThisAccess.failure = "OK"
                   THEN [r EXCEPT !.pc = @ + 1]
                   ELSE Receive(r, ThisAccess.failure)

Fail ==
    /\ AtAccess /\ CanFail(ThisAccess.store) /\ ~Starved
    /\ Fails(FALSE)

\* PostgreSQL stops after it has committed a transaction and before it says so.
LoseCommit ==
    /\ AtAccess /\ ThisAccess.store = "postgres" /\ ThisAccess.writes
    /\ CanServe("postgres") /\ ~Starved
    /\ Fails(TRUE)

Answer ==
    /\ AtService /\ request.pc > Len(Accesses)
    /\ request' = Receive(request, "OK")

-----------------------------------------------------------------------------
(* Requests of others. *)

\* DeleteDraft, and reading a message in full, asks for a second connection
\* while it holds one: when as many requests as the pool has connections are
\* half-way, none goes on, and nothing times out.
Exhaust ==
    /\ ~exhausted /\ exhausted' = TRUE
    /\ Serving("gateway") /\ Serving("messages") /\ CanServe("postgres")

\* The browser of one of them has gone.
Relieve == exhausted /\ exhausted' = FALSE

\* What becomes of them when program p ends.
Release(p) == exhausted' = (exhausted /\ p \notin {"gateway", "messages"})

-----------------------------------------------------------------------------

\* Seeded fault: a caller does not notice that the service is gone.
NoticeNothing(p) ==
    request' = IF p = "gateway" THEN Idle ELSE request

\* What becomes of the request when program p ends.
Notice(p) ==
    request' =
        IF p = "gateway" THEN Idle
        ELSE IF request.pc > 0 /\ ThisCall.rpc.service = p
        THEN Unreachable(request)
        ELSE request

Init == DeploymentInit /\ request = Idle /\ exhausted = FALSE

Work ==
    Reject \/ Forward \/ PassOver \/ TakeForInbox \/ Respond
    \/ Unauthenticated \/ Serve \/ Skip \/ Refuse \/ Fail \/ Answer

Next ==
    \/ /\ Work \/ Leave \/ \E route \in DOMAIN Routes : Arrive(route)
       /\ UNCHANGED <<deployment, exhausted>>
    \/ \E p \in Programs : Crash(p) /\ Notice(p) /\ Release(p)
    \/ StopPostgres /\ (LoseCommit \/ UNCHANGED request) /\ UNCHANGED exhausted
    \/ /\ \/ \E p \in Programs : StartUp(p) \/ Start(p)
          \/ RunMigrations \/ StopMinio \/ Recovery
       /\ UNCHANGED <<request, exhausted>>
    \/ (Exhaust \/ Relieve) /\ UNCHANGED <<deployment, request>>

\* Programs and stores do what they can; they need not come back, and the
\* connections need not be given back.
Spec == Init /\ [][Next]_vars /\ WF_vars(Work /\ UNCHANGED <<deployment, exhausted>>)

-----------------------------------------------------------------------------

TypeOK ==
    /\ DeploymentTypeOK
    /\ request.route \in DOMAIN Routes \cup {"none"}
    /\ request.call \in 1 .. 2 /\ request.pc \in 0 .. 7
    /\ request.status \in {0, 200, 400, 401, 403, 404, 409, 500, 502}
    /\ Active => Serving("gateway")
    /\ exhausted \in BOOLEAN

\* A request that is refused has stored nothing: whoever is told 400, 401, 403,
\* 404 or 409 may send a corrected request without doing anything twice, whatever
\* stopped meanwhile.  The exception is the profile's update, whose every failure
\* is told to be the caller's, a lost commit among them.
RefusedMeansUntouched ==
    request.status \in 400 .. 499 /\ request.route # "updateProfile" => ~request.stored

\* Without MinIO these show a name where a link to a picture should be.
Unillustrated == {"getProfile", "updateProfile", "messagePage", "getFolder", "inbox"}

\* A program or a store that did not answer is told as a failure of the server,
\* but for a few requests: those that lack a picture; a folder page, which is
\* then empty; a message, shown and not marked as read; a reply, put on another
\* thread; a refresh, refused as if the session were over; and an update,
\* refused as if the data were wrong.
FailuresAreTold ==
    request.status # 0 /\ request.broke =>
        \/ request.status >= 500
        \/ request.route \in Unillustrated \cup {"reply"} /\ request.status = 200
        \/ request.route = "refresh" /\ request.status = 401
        \/ request.route = "updateProfile" /\ request.status = 400

\* No call has a deadline.  A request that does not end waits, again and again,
\* for a connection that others keep: the messages service's pool is the only
\* thing that can hold one up.  A program or a store that stops is noticed, and
\* none waits for one that is not there.
EveryRequestEnds == Active ~> ~Active \/ Starved

=============================================================================
