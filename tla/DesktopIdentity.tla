--------------------------- MODULE DesktopIdentity ---------------------------
(***************************************************************************)
(* The PC's identity at the server: registration, rotation and loss of its *)
(* credential, the identity reset, and the usage preference that travels   *)
(* with them.  Requests run as tasks that meet at four locks of            *)
(* RemoteSyncService; a step of a task ends where it waits for a lock or   *)
(* for the server.  The server may handle a request the PC has given up.   *)
(*                                                                         *)
(* A credential is the pair of its installation and a number; the server   *)
(* has one live session per installation.  Not modelled: the HTTP session  *)
(* of the window (DesktopSession), what an acknowledgement of a former     *)
(* generation does (DesktopNotify), and settings that cannot be read,      *)
(* which switch the statistics off until the next start.                   *)
(***************************************************************************)
EXTENDS Naturals, FiniteSets, Sequences

CONSTANTS
    None,              \* no credential, file, choice or answer
    Callers,           \* tasks that run at the same time
    MaxInstallations,  \* bound: identity files written
    MaxSessions,       \* bound: credentials the server issues per installation
    MaxIncidents       \* bound: requests given up, failures of the credential store or
                       \* identity file, restarts, resets and changes of the setting

VARIABLES
    disk,      \* identity file, credential store and settings file
    app,       \* RemoteSyncService in memory
    task,      \* the tasks' positions, locks and requests
    server,    \* per installation: live session, sessions issued, usage preference
    late,      \* requests the PC gave up and the server still has
    age,       \* of each credential: "fresh", "due" for rotation, "expired"
    overtaken, \* history: an older choice about usage was stored over a later one
    incidents  \* history: counted for the bound

vars == <<disk, app, task, server, late, age, overtaken, incidents>>

Installations == 1..MaxInstallations
Credentials == Installations \X (1..MaxSessions)
Choices == {None, TRUE, FALSE}

ASSUME DesktopIdentityAssumption ==
    /\ {MaxInstallations, MaxSessions} \subseteq Nat \ {0}
    /\ MaxIncidents \in Nat
    /\ None \notin BOOLEAN /\ None \notin Installations /\ None \notin Credentials
    /\ IsFiniteSet(Callers)

Idle == [kind |-> "idle", pc |-> "idle", held |-> {}, gen |-> 0, bearer |-> None,
         desired |-> None, revision |-> 0, opens |-> FALSE, failed |-> FALSE]

--------------------------------------------------------------------------------
\* Credentials and status.

\* BearerCredential.is_valid_at, should_rotate_at
Valid(credential) == credential # None /\ age[credential] # "expired"
ShouldRotate(credential) == age[credential] # "fresh"

\* The server's bearer authentication: a live session that has not expired.
Honours(bearer) == Valid(bearer) /\ server.session[bearer[1]] = bearer[2]

\* The status the connections page asks for before it offers a reset.
Connected == app.enrollment # "ResetRequired" /\ Valid(app.credential)

Synced == app.synced = app.revision

--------------------------------------------------------------------------------
\* Locks.  `usage' and `identity' are RwLocks; a reset writes both, a choice `usage'.

Compatible(lock, c, d) ==
    lock \in {"usage", "identity"} /\ {"reset", "adopt"} \cap {task[c].kind, task[d].kind} = {}

Holders(c, lock) ==
    {d \in Callers \ {c} : lock \in task[d].held /\ ~Compatible(lock, c, d)}

CanTake(c, locks) == \A lock \in locks : Holders(c, lock) = {}

Goes(c, t) == task' = [task EXCEPT ![c] = t]
At(c, pc) == task[c].pc = pc

\* The order in which reset_identity takes them.
ResetOrderSwapped == <<"webview", "registration", "identity", "usage">>
ResetOrder == <<"webview", "registration", "usage", "identity">>

NextLock(held) == ResetOrder[Cardinality(held) + 1]

\* A reset that waits to write keeps new readers out.
Queued(c, lock) ==
    {d \in Callers \ {c} : At(d, "locking") /\ NextLock(task[d].held) = lock}

\* The locks a task waits for where it stands.
Wants(c) ==
    LET t == task[c] IN
    CASE t.pc = "webview" -> {"webview"}
      [] t.pc = "registration" -> {"registration"}
      [] t.pc = "enrol" -> {"usage"}
      [] t.pc = "ready" -> {"identity"}
      [] t.pc = "usage" -> {"usage"} \cup IF t.kind = "opened" THEN {"identity"} ELSE {}
      [] t.pc = "locking" -> {NextLock(t.held)}
      [] t.pc = "setting" -> {"usage"}
      [] t.pc \in {"rotating", "registering"} -> {"identity"}
      [] t.pc = "calling" /\ t.kind # "opened" -> {"identity"}
      [] OTHER -> {}

--------------------------------------------------------------------------------
\* Requests.

OnTheWire(c) == task[c].pc \in {"rotating", "registering", "calling", "deleting"}

Request(c) ==
    LET t == task[c] IN
    [call |-> CASE t.pc = "rotating" -> "rotate" [] t.pc = "registering" -> "register"
                [] t.pc = "deleting" -> "delete"
                [] t.pc = "calling" /\ t.kind = "sync" /\ t.desired # None -> "put"
                [] OTHER -> "call",
     bearer |-> t.bearer,
     installation |-> IF t.pc = "registering" THEN app.installation ELSE t.bearer[1],
     value |-> IF t.pc = "registering" THEN app.desired ELSE t.desired]

Following(r) == server.issued[r.installation] + 1

Answer(result, credential) == [result |-> result, credential |-> credential]
AnswerTo(r) ==
    IF r.call = "register"
    THEN IF server.session[r.installation] # 0 THEN Answer("rejected", None)
         ELSE Answer("issued", <<r.installation, Following(r)>>)
    ELSE IF ~Honours(r.bearer) THEN Answer("unauthorized", None)
    ELSE IF r.call = "rotate" THEN Answer("issued", <<r.installation, Following(r)>>)
    ELSE Answer("ok", None)

\* enrollDesktop, rotateDesktop, deleteDesktopIdentity, putUsagePreference: each one
\* transaction, after the bearer was authenticated
Handle(r) ==
    LET i == r.installation
        result == AnswerTo(r).result
    IN
    /\ result = "issued" => server.issued[i] < MaxSessions
    /\ server' =
         CASE result \in {"unauthorized", "rejected"} -> server
           [] result = "issued" -> [server EXCEPT !.session[i] = Following(r),
                                          !.issued[i] = Following(r),
                                          !.usage[i] = IF r.call = "register"
                                                       THEN r.value ELSE @]
           [] result = "ok" /\ r.call = "delete" -> [server EXCEPT !.session[i] = 0,
                                                                   !.usage[i] = None]
           [] result = "ok" /\ r.call = "put" -> [server EXCEPT !.usage[i] = r.value]
           [] OTHER -> server

\* The server gets to a request after the PC's fifteen seconds.
ServeLate(r) ==
    /\ Handle(r) /\ late' = late \ {r}
    /\ overtaken' = \/ overtaken
                    \/ /\ r.call = "put" /\ AnswerTo(r).result = "ok"
                       /\ r.value # app.desired
    /\ UNCHANGED <<disk, app, task, age, incidents>>

Incident == incidents < MaxIncidents /\ incidents' = incidents + 1

\* Requests that still matter when the PC has given them up.
Lasting(requests) == {r \in requests : r.call # "call"}

\* The PC hears the answer, or gives the request up: it, or its answer, is late or lost.
Answered(c) == Handle(Request(c)) /\ UNCHANGED late
GivenUp(c) == Incident /\ late' = late \cup Lasting({Request(c)}) /\ UNCHANGED server

\* One write of the credential store or the identity file, which may fail.
Attempt(ok) == IF ok THEN UNCHANGED incidents ELSE Incident

--------------------------------------------------------------------------------
\* Starting a task.  authenticated_request notes the generation and, unless the
\* credential is good for a while, goes to register or rotate first.

Authenticating(t) ==
    [t EXCEPT !.gen = app.generation, !.failed = FALSE,
              !.pc = IF Valid(app.credential) /\ ~ShouldRotate(app.credential)
                     THEN "ready" ELSE "registration"]

Running(kind) == \E c \in Callers : task[c].kind = kind

\* heartbeat, poll, upload, acknowledgement: any authenticated request
Call(c) ==
    /\ At(c, "idle")
    /\ Goes(c, Authenticating([Idle EXCEPT !.kind = "call"]))
    /\ UNCHANGED <<disk, app, server, late, age, overtaken, incidents>>

Bootstrap(c) ==
    /\ At(c, "idle")
    /\ Goes(c, [Idle EXCEPT !.kind = "webview", !.pc = "webview"])
    /\ UNCHANGED <<disk, app, server, late, age, overtaken, incidents>>

TakeWebview(c) ==
    /\ At(c, "webview") /\ CanTake(c, {"webview"})
    /\ Goes(c, Authenticating([task[c] EXCEPT !.held = {"webview"}]))
    /\ UNCHANGED <<disk, app, server, late, age, overtaken, incidents>>

Synchronising(opens) ==
    Authenticating([Idle EXCEPT !.kind = "sync", !.opens = opens,
                                !.desired = app.desired, !.revision = app.revision])

\* sync_usage_analytics_preference, one at a time
Sync(c) ==
    /\ At(c, "idle") /\ ~Synced /\ ~Running("sync")
    /\ Goes(c, Synchronising(FALSE))
    /\ UNCHANGED <<disk, app, server, late, age, overtaken, incidents>>

\* record_ui_opened_best_effort; a choice the server does not know goes first
RecordUiOpened(c) ==
    /\ At(c, "idle") /\ app.desired = TRUE /\ ~Running("opened")
    /\ \A d \in Callers : ~task[d].opens
    /\ IF Synced THEN Goes(c, Authenticating([Idle EXCEPT !.kind = "opened"]))
       ELSE ~Running("sync") /\ Goes(c, Synchronising(TRUE))
    /\ UNCHANGED <<disk, app, server, late, age, overtaken, incidents>>

\* The end of sync_usage_analytics_preference without an error.
Current(t) ==
    IF t.opens THEN Authenticating([Idle EXCEPT !.kind = "opened"]) ELSE Idle

--------------------------------------------------------------------------------
\* ensure_registered

RegisteredHoldingUsage(t, failed) ==
    IF t.kind = "renew" THEN Idle
    ELSE [t EXCEPT !.pc = "ready", !.failed = failed, !.bearer = None,
                   !.held = @ \ {"registration"}]
Registered(t, failed) ==
    IF t.kind = "renew" THEN Idle
    ELSE [t EXCEPT !.pc = "ready", !.failed = failed, !.bearer = None,
                   !.held = @ \ {"registration", "usage"}]

TakeRegistration(c) ==
    LET t == task[c]
        holding == [t EXCEPT !.held = @ \cup {"registration"}]
    IN
    /\ At(c, "registration") /\ CanTake(c, {"registration"})
    /\ Goes(c,
         IF Valid(app.credential)
         THEN IF ShouldRotate(app.credential)
              THEN [holding EXCEPT !.pc = "rotating", !.bearer = app.credential]
              ELSE Registered(t, FALSE)
         ELSE IF app.enrollment = "New" THEN [holding EXCEPT !.pc = "enrol"]
              ELSE Registered(t, TRUE))
    /\ UNCHANGED <<disk, app, server, late, age, overtaken, incidents>>

\* The preference goes with the registration and is held still until the answer.
Enrol(c) ==
    /\ At(c, "enrol") /\ CanTake(c, {"usage"})
    /\ Goes(c, [task[c] EXCEPT !.pc = "registering", !.held = @ \cup {"usage"}])
    /\ UNCHANGED <<disk, app, server, late, age, overtaken, incidents>>

\* install_credential: in memory whether or not the store takes it
Install(credential, synced) ==
    \E ok \in BOOLEAN :
        /\ Attempt(ok)
        /\ disk' = [disk EXCEPT !.credential = IF ok THEN credential ELSE @]
        /\ app' = [app EXCEPT !.credential = credential, !.enrollment = "Enrolled",
                              !.synced = synced]

\* invalidate_credential_if_current: only the credential the request was sent with
IsCurrentAnyway(bearer) == app.credential # None
IsCurrent(bearer) == app.credential = bearer

Invalidate(bearer) ==
    IF IsCurrent(bearer)
    THEN \E ok \in BOOLEAN :
            /\ Attempt(ok)
            /\ disk' = [disk EXCEPT !.credential = IF ok THEN None ELSE @]
            /\ app' = [app EXCEPT !.credential = None, !.enrollment = "ResetRequired"]
    ELSE UNCHANGED <<disk, app, incidents>>

HearRotation(c) ==
    LET t == task[c]
        answer == AnswerTo(Request(c))
    IN
    /\ At(c, "rotating") /\ CanTake(c, {"identity"})
    /\ \/ /\ Answered(c)
          /\ IF answer.result = "issued" THEN Install(answer.credential, app.synced)
             ELSE Invalidate(t.bearer)
       \/ GivenUp(c) /\ UNCHANGED <<disk, app>>
    /\ Goes(c, Registered(t, ~Valid(app'.credential)))
    /\ UNCHANGED <<age, overtaken>>

HearRegistration(c) ==
    LET t == task[c]
        answer == AnswerTo(Request(c))
    IN
    /\ At(c, "registering") /\ CanTake(c, {"identity"})
    /\ \/ /\ Answered(c)
          /\ IF answer.result = "issued" THEN Install(answer.credential, app.revision)
             ELSE /\ app' = [app EXCEPT !.enrollment = "ResetRequired"]
                  /\ UNCHANGED <<disk, incidents>>
          /\ Goes(c, Registered(t, answer.result # "issued"))
       \/ GivenUp(c) /\ Goes(c, Registered(t, TRUE)) /\ UNCHANGED <<disk, app>>
    /\ UNCHANGED <<age, overtaken>>

--------------------------------------------------------------------------------
\* The request itself and its answer.

\* authenticated_request again: the same generation, or all over
Ready(c) ==
    LET t == task[c] IN
    /\ At(c, "ready") /\ CanTake(c, {"identity"})
    /\ Goes(c,
         IF t.gen # app.generation THEN Authenticating(t)
         ELSE IF t.failed \/ ~Valid(app.credential) THEN Idle
         ELSE [t EXCEPT !.bearer = app.credential,
                        !.revision = IF t.kind = "opened" THEN app.revision ELSE @,
                        !.pc = IF t.kind \in {"sync", "opened"} THEN "usage"
                               ELSE "calling"])
    /\ UNCHANGED <<disk, app, server, late, age, overtaken, incidents>>

PutPreference(c) ==
    LET t == task[c] IN
    /\ At(c, "usage") /\ t.kind = "sync" /\ CanTake(c, {"usage"})
    /\ Goes(c,
         IF app.revision # t.revision \/ app.desired # t.desired \/ Synced
         THEN Current(t)
         ELSE [t EXCEPT !.pc = "calling", !.held = {"usage"}])
    /\ UNCHANGED <<disk, app, server, late, age, overtaken, incidents>>

\* What an attempt checks once it has the locks.
MayReportTheUser(t) ==
    /\ t.gen = app.generation
    /\ Valid(app.credential) /\ app.credential = t.bearer
MayReport(t) ==
    /\ app.desired = TRUE /\ app.revision = t.revision /\ Synced
    /\ t.gen = app.generation
    /\ Valid(app.credential) /\ app.credential = t.bearer

\* One attempt of record_ui_opened_for_request, between the user's changes of mind.
SendOpened(c) ==
    LET t == task[c] IN
    /\ At(c, "usage") /\ t.kind = "opened" /\ CanTake(c, {"usage", "identity"})
    /\ Goes(c,
         IF MayReport(t) THEN [t EXCEPT !.pc = "calling", !.held = {"usage", "identity"}]
         ELSE Idle)
    /\ UNCHANGED <<disk, app, server, late, age, overtaken, incidents>>

HearCall(c) ==
    LET t == task[c]
        ok == AnswerTo(Request(c)).result = "ok"
        latest == t.gen = app.generation
        remote == server.usage[t.bearer[1]]
        decided == t.kind = "sync" /\ t.desired = None /\ remote # None
        unchanged == app.revision = t.revision
    IN
    /\ At(c, "calling") /\ t.kind # "opened" /\ CanTake(c, {"identity"})
    /\ \/ /\ Answered(c)
          /\ IF latest /\ ~ok THEN Invalidate(t.bearer)
             ELSE /\ app' = IF latest /\ t.kind = "sync" /\ unchanged /\ ~decided
                            THEN [app EXCEPT !.synced = t.revision] ELSE app
                  /\ UNCHANGED <<disk, incidents>>
          /\ Goes(c,
               IF ~latest \/ ~ok THEN Idle
               ELSE IF decided /\ unchanged
                    THEN [Idle EXCEPT !.kind = "adopt", !.pc = "adopting",
                                      !.desired = remote, !.revision = t.revision]
                    ELSE Current(t))
       \/ GivenUp(c) /\ Goes(c, Idle) /\ UNCHANGED <<disk, app>>
    /\ UNCHANGED <<age, overtaken>>

\* Statistics never touch the credential; an unavailable server is asked again.
HearOpened(c) ==
    /\ At(c, "calling") /\ task[c].kind = "opened"
    /\ \/ Answered(c) /\ Goes(c, Idle) /\ UNCHANGED incidents
       \/ GivenUp(c) /\ Goes(c, [task[c] EXCEPT !.pc = "usage", !.held = {}])
    /\ UNCHANGED <<disk, app, age, overtaken>>

--------------------------------------------------------------------------------
\* sync_usage_analytics_setting: a PC without a choice adopts the account's.

\* What is in the settings by now is read here and set later.
Reads(t) == [t EXCEPT !.pc = "setting", !.desired = disk.choice]

\* adopt_usage_analytics_if_undecided
Adopt(c) ==
    LET t == task[c] IN
    /\ At(c, "adopting")
    /\ IF disk.choice # None
       THEN Goes(c, Reads(t)) /\ UNCHANGED <<disk, incidents>>
       ELSE \E ok \in BOOLEAN :
               /\ Attempt(ok)
               /\ disk' = [disk EXCEPT !.choice = IF ok THEN t.desired ELSE @]
               /\ Goes(c, IF ok THEN [t EXCEPT !.pc = "accepting"] ELSE Idle)
    /\ UNCHANGED <<app, server, late, age, overtaken>>

\* accept_remote_usage_preference, unless the choice changed meanwhile
AcceptableAlways(t) == TRUE
Acceptable(t) == app.revision = t.revision /\ app.desired = None

Accept(c) ==
    LET t == task[c] IN
    /\ At(c, "accepting")
    /\ IF Acceptable(t)
       THEN /\ app' = [app EXCEPT !.desired = t.desired, !.revision = @ + 1,
                                  !.synced = app.revision + 1]
            /\ Goes(c, Idle)
       ELSE Goes(c, Reads(t)) /\ UNCHANGED app
    /\ UNCHANGED <<disk, server, late, age, overtaken, incidents>>

Changed(desired) ==
    [app EXCEPT !.desired = desired,
                !.revision = IF app.desired = desired THEN @ ELSE @ + 1]

\* set_usage_analytics_preference
SetChoice(c) ==
    /\ At(c, "setting") /\ CanTake(c, {"usage"})
    /\ app' = Changed(task[c].desired)
    /\ overtaken' = (overtaken \/ task[c].desired # disk.choice)
    /\ Goes(c, Idle)
    /\ UNCHANGED <<disk, server, late, age, incidents>>

--------------------------------------------------------------------------------
\* reset_identity

StartReset(c) ==
    /\ At(c, "idle") /\ Connected
    /\ ~Running("reset") /\ ~Running("renew") /\ Incident
    /\ Goes(c, [Idle EXCEPT !.kind = "reset", !.pc = "locking"])
    /\ UNCHANGED <<disk, app, server, late, age, overtaken>>

TakeLock(c) ==
    LET t == task[c]
        held == t.held \cup {NextLock(t.held)}
    IN
    /\ At(c, "locking") /\ CanTake(c, {NextLock(t.held)})
    /\ Goes(c,
         IF Cardinality(held) < Len(ResetOrder) THEN [t EXCEPT !.held = held]
         ELSE IF Valid(app.credential)
              THEN [t EXCEPT !.held = held, !.pc = "deleting", !.bearer = app.credential]
              ELSE [t EXCEPT !.held = held, !.pc = "deleted"])
    /\ UNCHANGED <<disk, app, server, late, age, overtaken, incidents>>

HearDeletion(c) ==
    /\ At(c, "deleting")
    /\ \/ /\ Answered(c) /\ UNCHANGED incidents
          /\ Goes(c, IF AnswerTo(Request(c)).result = "ok"
                     THEN [task[c] EXCEPT !.pc = "deleted"] ELSE Idle)
       \/ GivenUp(c) /\ Goes(c, Idle)
    /\ UNCHANGED <<disk, app, age, overtaken>>

\* What a reset that clears the store and writes an identity file leaves.
Renewed ==
    [app EXCEPT !.installation = @ + 1, !.generation = @ + 1, !.credential = None,
                !.enrollment = "New", !.revision = @ + 1, !.synced = 0]

\* What is left when the credential store does not clear, or not all of it.
NotCleared(c) ==
    /\ Goes(c, Idle)
    /\ app' = [app EXCEPT !.generation = @ + 1]
    /\ \E left \in {disk.credential, None} : disk' = [disk EXCEPT !.credential = left]

ClearIdentity(c) ==
    /\ At(c, "deleted")
    /\ \/ Attempt(FALSE) /\ NotCleared(c)
       \* the identity file cannot be replaced; the old one may be gone
       \/ /\ Attempt(FALSE) /\ Goes(c, Idle)
          /\ app' = [app EXCEPT !.generation = @ + 1]
          /\ \E file \in {disk.installation, None} :
                disk' = [disk EXCEPT !.credential = None, !.installation = file]
       \/ /\ app.installation < MaxInstallations /\ Attempt(TRUE)
          /\ Goes(c, [Idle EXCEPT !.kind = "renew", !.pc = "registration",
                                  !.held = {"webview"}])
          /\ app' = Renewed
          /\ disk' = [disk EXCEPT !.credential = None, !.installation = app.installation + 1]
    /\ UNCHANGED <<server, late, age, overtaken>>

--------------------------------------------------------------------------------
\* The user, the server, the network and time.

\* update_desktop_settings; the file is saved under the write lock
Choose(desired) ==
    /\ desired # disk.choice /\ Incident
    /\ \A c \in Callers : "usage" \notin task[c].held
    /\ disk' = [disk EXCEPT !.choice = desired]
    /\ app' = Changed(desired)
    /\ UNCHANGED <<task, server, late, age, overtaken>>

Older == [fresh |-> "due", due |-> "expired"]

GrowOld(credential) ==
    /\ credential # None /\ age[credential] # "expired"
    /\ age' = [age EXCEPT ![credential] = Older[@]]
    /\ UNCHANGED <<disk, app, task, server, late, overtaken, incidents>>

\* The default counts as the first revision and a choice in the settings as the
\* second; neither is known to the server.
Started(installation, credential, enrollment, choice) ==
    [installation |-> installation, credential |-> credential, enrollment |-> enrollment,
     generation |-> 0, desired |-> choice, revision |-> IF choice = None THEN 1 ELSE 2,
     synced |-> 0]

\* The app stops anywhere and starts from its files (with_store).
Restart ==
    LET new == disk.installation = None
        installation == IF new THEN app.installation + 1 ELSE disk.installation
        unusable == disk.credential # None /\ ~Valid(disk.credential)
    IN
    /\ installation \in Installations
    /\ \E loads \in BOOLEAN :
         LET credential == IF loads /\ ~unusable THEN disk.credential ELSE None
             enrollment == IF credential # None THEN "Enrolled"
                           ELSE IF new /\ loads /\ ~unusable THEN "New"
                           ELSE "ResetRequired"
         IN
         /\ incidents' = incidents + (IF loads THEN 1 ELSE 2) /\ incidents' <= MaxIncidents
         /\ disk' = [disk EXCEPT !.installation = installation,
                                 !.credential = IF loads THEN credential ELSE @]
         /\ app' = Started(installation, credential, enrollment, disk.choice)
    /\ late' = late \cup Lasting({Request(c) : c \in {d \in Callers : OnTheWire(d)}})
    /\ task' = [c \in Callers |-> Idle]
    /\ UNCHANGED <<server, age, overtaken>>

--------------------------------------------------------------------------------
\* A first start, with a new installation's choice or with settings that leave it open;
\* or a PC that is registered and has lost its settings file.
IdentityInit ==
    /\ \/ /\ \E choice \in {None, TRUE} :
                /\ disk = [installation |-> 1, credential |-> None, choice |-> choice]
                /\ app = Started(1, None, "New", choice)
          /\ server = [session |-> [i \in Installations |-> 0],
                       issued |-> [i \in Installations |-> 0],
                       usage |-> [i \in Installations |-> None]]
       \/ /\ disk = [installation |-> 1, credential |-> <<1, 1>>, choice |-> None]
          /\ app = Started(1, <<1, 1>>, "Enrolled", None)
          /\ server = [session |-> [i \in Installations |-> IF i = 1 THEN 1 ELSE 0],
                       issued |-> [i \in Installations |-> IF i = 1 THEN 1 ELSE 0],
                       usage |-> [i \in Installations |-> IF i = 1 THEN TRUE ELSE None]]
    /\ task = [c \in Callers |-> Idle] /\ late = {}
    /\ age = [t \in Credentials |-> "fresh"]
    /\ overtaken = FALSE
    /\ incidents = 0

Registering(c) ==
    TakeRegistration(c) \/ Enrol(c) \/ HearRotation(c) \/ HearRegistration(c)
Adopting(c) == Adopt(c) \/ Accept(c) \/ SetChoice(c)
Resetting(c) == TakeLock(c) \/ HearDeletion(c) \/ ClearIdentity(c)
Step(c) ==
    \/ TakeWebview(c) \/ Registering(c) \/ Ready(c) \/ PutPreference(c)
    \/ SendOpened(c) \/ HearCall(c) \/ HearOpened(c) \/ Adopting(c) \/ Resetting(c)

IdentityNext ==
    \/ \E c \in Callers :
        \/ Call(c) \/ Bootstrap(c) \/ Sync(c) \/ RecordUiOpened(c) \/ StartReset(c)
        \/ Step(c)
    \/ Restart
    \/ \E desired \in BOOLEAN : Choose(desired)
    \/ \E r \in late : ServeLate(r)
    \/ GrowOld(app.credential)

IdentitySpec == IdentityInit /\ [][IdentityNext]_vars

--------------------------------------------------------------------------------
\* Properties.

Locks == {"webview", "registration", "usage", "identity"}

Task ==
    [kind: {"idle", "call", "webview", "sync", "opened", "adopt", "reset", "renew"},
     pc: {"idle", "webview", "registration", "enrol", "rotating", "registering", "ready",
          "usage", "calling", "adopting", "accepting", "setting", "locking", "deleting",
          "deleted"},
     held: SUBSET Locks, gen: 0..MaxIncidents, bearer: Credentials \cup {None},
     desired: Choices, revision: Nat, opens: BOOLEAN, failed: BOOLEAN]

Requests ==
    [call: {"rotate", "register", "delete", "put", "call"},
     bearer: Credentials \cup {None}, installation: Installations, value: Choices]

\* The values of identity, credentials and preference in memory, on disk, at the server
\* and in the requests between.
IdentityTypes ==
    /\ disk \in [installation: Installations \cup {None},
                 credential: Credentials \cup {None}, choice: Choices]
    /\ app \in [installation: Installations, credential: Credentials \cup {None},
                enrollment: {"New", "Enrolled", "ResetRequired"}, generation: 0..MaxIncidents,
                desired: Choices, revision: Nat, synced: Nat]
    /\ app.synced <= app.revision
    /\ task \in [Callers -> Task]
    /\ server \in [session: [Installations -> 0..MaxSessions],
                   issued: [Installations -> 0..MaxSessions],
                   usage: [Installations -> Choices]]
    /\ \A i \in Installations : server.session[i] <= server.issued[i]
    /\ late \subseteq Requests
    /\ age \in [Credentials -> {"fresh", "due", "expired"}]
    /\ overtaken \in BOOLEAN
    /\ incidents \in 0..MaxIncidents

(* Every variable keeps to the values the code can hold, and a task keeps no *)
(* lock but the window's while it is about to send or to decide.             *)
IdentityTypeOK ==
    /\ IdentityTypes
    /\ \A c \in Callers :
        task[c].pc \in {"idle", "ready", "usage"} => task[c].held \subseteq {"webview"}

(* A set of tasks that all wait for each other: the locks of the identity, *)
(* the registration, the usage preference and the window's session are     *)
(* never waited for in a circle (service.rs takes up to five at a time).   *)
NoCircularWait ==
    \A tasks \in (SUBSET Callers) \ {{}} :
        \E c \in tasks : \A lock \in Wants(c) :
            (Holders(c, lock) \cup Queued(c, lock)) \cap tasks = {}

(* While it runs, the PC gives up no credential that the server honours: a *)
(* rejection of an older one leaves its successor alone, and a reset goes  *)
(* on only after the server has deleted the user.                          *)
KeepsWorkingCredential ==
    [][/\ ~Restart /\ app'.credential # app.credential /\ Honours(app.credential)
       => Honours(app.credential)']_vars

(* Credentials in memory and in the store are this installation's, however *)
(* far a reset or an invalidation got.                                     *)
CredentialIsOurs ==
    \A credential \in {app.credential, disk.credential} \ {None} :
        credential[1] = app.installation

(* What the PC goes by is so, unless an older choice was stored over a     *)
(* later one: the credentials are of the installation in memory; the       *)
(* choice in memory is the one in the settings, except while it is being   *)
(* adopted; and a choice that counts as synchronised, over restarts and    *)
(* resets, is the one the server applies.                                  *)
MemoryIsTrue ==
    /\ CredentialIsOurs
    /\ ~overtaken =>
        /\ app.desired = disk.choice \/ Running("adopt")
        /\ Synced /\ Honours(app.credential) => server.usage[app.installation] = app.desired

(* An opened window is reported under a choice that stands and is known to *)
(* the server, and for the identity it was opened under.                   *)
ReportedByChoice ==
    \A c \in Callers : At(c, "calling") /\ task[c].kind = "opened" =>
        app.desired = TRUE /\ Synced /\ task[c].gen = app.generation

--------------------------------------------------------------------------------
\* The inductive invariant these follow from.

\* Where a task of each kind can stand, and the locks it holds there.
Own(t) == IF t.kind \in {"webview", "renew"} THEN {"webview"} ELSE {}

Stands(t) ==
    \/ t.pc = "idle" /\ t.kind = "idle" /\ t.held = {}
    \/ t.pc = "webview" /\ t.kind = "webview" /\ t.held = {}
    \/ /\ t.kind \in {"call", "webview", "sync", "opened", "renew"}
       /\ \/ t.pc = "registration" /\ t.held = Own(t)
          \/ t.pc \in {"enrol", "rotating"} /\ t.held = Own(t) \cup {"registration"}
          \/ t.pc = "registering" /\ t.held = Own(t) \cup {"registration", "usage"}
          \/ t.pc = "ready" /\ t.kind # "renew" /\ t.held = Own(t)
    \/ t.pc = "calling" /\ t.kind \in {"call", "webview"} /\ t.held = Own(t)
    \/ t.pc = "usage" /\ t.kind \in {"sync", "opened"} /\ t.held = {}
    \/ t.pc = "calling" /\ t.kind = "sync" /\ t.held = {"usage"}
    \/ t.pc = "calling" /\ t.kind = "opened" /\ t.held = {"usage", "identity"}
    \/ t.pc \in {"adopting", "accepting", "setting"} /\ t.kind = "adopt" /\ t.held = {}
    \/ /\ t.pc = "locking" /\ t.kind = "reset"
       /\ t.held \in {{}, {"webview"}, {"webview", "registration"},
                      {"webview", "registration", "usage"}}
    \/ t.pc \in {"deleting", "deleted"} /\ t.kind = "reset" /\ t.held = Locks

\* The locks exclude whom they should, and there is one reset at a time.
LockInv ==
    /\ \A c \in Callers : Stands(task[c]) /\ CanTake(c, task[c].held)
    /\ \A c, d \in Callers : task[c].kind = "reset" /\ task[d].kind = "reset" => c = d

\* A credential the server has issued; it issues no number twice.
Known(credential) == credential[2] <= server.issued[credential[1]]

CredentialInv ==
    /\ CredentialIsOurs
    /\ \A credential \in {app.credential, disk.credential} \ {None} : Known(credential)
    /\ \A credential \in Credentials : ~Known(credential) => age[credential] = "fresh"
    /\ app.enrollment = "New" => app.credential = None
    /\ disk.installation \in {app.installation, None}
    /\ disk.installation = None =>
          disk.credential = None /\ app.enrollment # "New" /\ ~Honours(app.credential)
    /\ app.generation <= incidents
    /\ Running("reset") => app.generation < incidents

\* What a task may still believe of the identity it started under.
BearerInv(t) ==
    /\ t.gen <= app.generation
    /\ t.bearer # None => Known(t.bearer)
    /\ t.pc \in {"usage", "calling", "rotating", "deleting"} => t.bearer # None
    /\ t.pc \in {"usage", "calling"} /\ t.gen = app.generation =>
          t.bearer[1] = app.installation /\ app.enrollment # "New"
    /\ t.pc = "rotating" =>
          /\ t.bearer[1] = app.installation
          /\ Honours(t.bearer) => t.bearer = app.credential
    /\ t.pc \in {"enrol", "registering"} => app.enrollment = "New"
    /\ t.kind = "reset" => app.enrollment # "New"
    /\ t.pc = "deleting" => t.bearer = app.credential
    /\ t.pc = "deleted" => ~Honours(app.credential)

\* What a task may still believe of the user's choice.
ChoiceInv(t) ==
    /\ t.pc = "calling" /\ t.kind = "opened" =>
          app.desired = TRUE /\ Synced /\ t.gen = app.generation
    /\ t.kind = "sync" =>
          /\ t.revision <= app.revision
          /\ t.revision = app.revision => t.desired = app.desired
          /\ t.pc = "calling" /\ t.desired # None => t.desired = app.desired
    /\ t.kind = "adopt" =>
          /\ t.revision <= app.revision /\ t.desired # None
          /\ t.revision = app.revision => app.enrollment # "New"
          /\ t.pc # "adopting" => disk.choice # None
          /\ t.pc = "accepting" /\ app.desired = None => disk.choice = t.desired
          /\ /\ t.pc # "setting" /\ t.revision = app.revision /\ app.desired = None
             /\ ~overtaken /\ Honours(app.credential)
             => server.usage[app.installation] = t.desired

AgreementInv ==
    /\ \A r \in late : r.call = "put" => r.value # None
    /\ ~overtaken =>
        /\ app.desired = disk.choice \/ \E c \in Callers : task[c].pc \in {"accepting", "setting"}
        /\ Synced /\ Honours(app.credential) => server.usage[app.installation] = app.desired

IInv ==
    /\ IdentityTypes
    /\ LockInv
    /\ CredentialInv
    /\ \A c \in Callers : BearerInv(task[c]) /\ ChoiceInv(task[c])
    /\ AgreementInv

================================================================================
