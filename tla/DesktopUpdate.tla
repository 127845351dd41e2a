----------------------------- MODULE DesktopUpdate -----------------------------
(***************************************************************************)
(* The update of the PC app: the coordinator of the native side (one       *)
(* operation at a time under its lock, a cache of the last check, the      *)
(* marker file that survives a restart) and the dashboard window, which    *)
(* polls it, is blocked by its answer and starts the installation.         *)
(*                                                                         *)
(* A release is a number, 0 the first; every second one raises the minor   *)
(* version.  The marker's file writes succeed.  A request of the window    *)
(* that still waits for the lock stands for the one an invalidation sends  *)
(* after it.                                                               *)
(***************************************************************************)
EXTENDS Naturals, FiniteSets

CONSTANTS
    NoStatus,          \* no answer yet, no marker
    Prereleases,       \* releases that are not stable
    MaxRelease,        \* bound: the newest release
    MaxStarts,         \* bound: starts of the app
    MaxAttempts        \* MAX_AUTO_INSTALL_ATTEMPTS

VARIABLES
    feed,              \* the newest release the update server offers
    installed,         \* the release on disk
    marker,            \* the pending-update file: [version, attempts, deferred]
    process,           \* [version, session, starting, window, starts]
    operation,         \* who holds the lock: [kind, step, version]
    queue,             \* who waits for it
    cached,            \* the last check: [status, update], or none
    snapshot,          \* the status published
    data,              \* the window's answer, isError and request
    install,           \* the install mutation of the gate and of the notice
    deferred,          \* releases put off in this window
    tries              \* history: installations begun at a start, per release

updateAppVars == <<feed, installed, marker, process, operation, queue, cached, snapshot,
                   data, install, deferred, tries>>

Releases == 0..MaxRelease
Minor(version) == version \div 2
Free == [kind |-> "none", step |-> "none", version |-> 0]

(* A status: version 0 is none. *)
Active == {"checking", "downloading", "verifying", "installing", "restart-required"}
Statuses == [stage : Active \cup {"latest", "optional", "mandatory", "failed"},
             version : Releases, progress : BOOLEAN, error : BOOLEAN]
Marks == [version : Releases, attempts : 0..MaxAttempts, deferred : BOOLEAN]
Checks == [status : Statuses, update : Releases]

ASSUME DesktopUpdateAssumption ==
    /\ MaxRelease \in Nat /\ MaxStarts \in Nat \ {0} /\ MaxAttempts \in Nat
    /\ NoStatus \notin Statuses \cup Marks \cup Checks

Status(stage, version, progress, error) ==
    [stage |-> stage, version |-> version, progress |-> progress, error |-> error]
Policy(version) ==
    IF version = 0 THEN "none"
    ELSE IF version \notin Prereleases /\ Minor(version) > Minor(process.version)
         THEN "mandatory" ELSE "optional"
NewStatus(version) ==
    Status(IF version = 0 THEN "latest" ELSE Policy(version), version, FALSE, FALSE)
CheckingFromNothing(status) == Status("checking", 0, FALSE, FALSE)
CheckingFrom(status) == Status("checking", status.version, FALSE, FALSE)
WithStage(status, stage) == Status(stage, status.version, TRUE, FALSE)
Failed(status) == [status EXCEPT !.stage = "failed", !.error = TRUE]

(* What the window accepts as an answer. *)
Parses(status) ==
    /\ status.stage = "latest" => status.version = 0
    /\ status.stage \in {"optional", "mandatory"} => Policy(status.version) = status.stage
    /\ status.stage \in {"latest", "optional", "mandatory", "checking"} =>
           ~status.progress /\ ~status.error
    /\ status.stage \in {"downloading", "verifying", "installing", "restart-required"} =>
           status.version # 0 /\ status.progress /\ ~status.error
    /\ status.stage = "failed" => status.error

--------------------------------------------------------------------------------
(* The marker file. *)

CanAttempt(mark) == mark # NoStatus /\ mark.attempts < MaxAttempts /\ ~mark.deferred
MarkerForFresh(mark, version) == [version |-> version, attempts |-> 0, deferred |-> FALSE]
MarkerFor(mark, version) ==
    IF mark # NoStatus /\ mark.version = version THEN mark
    ELSE [version |-> version, attempts |-> 0, deferred |-> FALSE]
Deferring(mark) == IF mark = NoStatus THEN mark ELSE [mark EXCEPT !.deferred = TRUE]
LoadMarker(mark, version) ==
    IF mark = NoStatus \/ mark.version <= version THEN NoStatus ELSE mark

--------------------------------------------------------------------------------
(* The window. *)

InstallPending == \E part \in DOMAIN install : install[part] = "pending"
NoAnswer == data.status = NoStatus
HasRelease == ~NoAnswer /\ data.status.version # 0
KnownPolicy == IF NoAnswer THEN "none" ELSE Policy(data.status.version)
CanAdmit == ~NoAnswer /\ (data.status.stage = "latest" \/ KnownPolicy = "optional")
Blocked == KnownPolicy = "mandatory" \/ ~CanAdmit

PanelFailed(checkFailed, installFailed) ==
    checkFailed \/ installFailed \/ (~NoAnswer /\ data.status.stage = "failed")
Progress(failed) == ~failed /\ (NoAnswer \/ data.status.stage \in Active)
PrimaryActionReadyOnly(failed, ready) == IF ready /\ ~InstallPending THEN {"install"} ELSE {}
PrimaryAction(failed, ready) ==
    IF InstallPending THEN {}
    ELSE IF ready \/ (failed /\ HasRelease) THEN {"install"}
    ELSE IF failed THEN {"check-again"} ELSE {}
Actions(failed, later) ==
    LET ready == ~NoAnswer /\ data.status.stage \in {"optional", "mandatory"} IN
    PrimaryAction(failed, ready)
        \cup (IF later /\ ~NoAnswer /\ data.status.stage = "optional" THEN {"later"} ELSE {})
        \cup (IF failed THEN {"logs", "release"} ELSE {})

\* The dialog over the whole window, and the notice inside it.
Gate == IF Blocked
        THEN Actions(PanelFailed(data.isError, install["gate"] = "error"), FALSE) ELSE {}
NoticeShown == KnownPolicy = "optional" /\
               ~(data.status.stage = "optional" /\ data.status.version \in deferred)
Notice == IF NoticeShown
          THEN Actions(PanelFailed(FALSE, install["notice"] = "error"), TRUE) ELSE {}
Offered(part) == IF part = "gate" THEN Gate ELSE IF Blocked THEN {} ELSE Notice

--------------------------------------------------------------------------------
NoRequest == [step |-> "none", user |-> FALSE, asked |-> FALSE, retried |-> FALSE,
              answer |-> NoStatus]
WindowInit ==
    /\ data = [status |-> NoStatus, isError |-> FALSE, request |-> NoRequest]
    /\ install = [gate |-> "idle", notice |-> "idle"]

\* The native side comes up with what the marker says; with a marker it may
\* install, that comes before everything else.
Started(version, mark, starts) ==
    /\ process' = [version |-> version, session |-> "background",
                   starting |-> CanAttempt(mark), window |-> FALSE, starts |-> starts]
    /\ marker' = mark
    /\ operation' = Free /\ cached' = NoStatus
    /\ queue' = IF CanAttempt(mark) THEN {"startup"} ELSE {"initial"}
    /\ data' = [status |-> NoStatus, isError |-> FALSE, request |-> NoRequest]
    /\ install' = [gate |-> "idle", notice |-> "idle"]
    /\ deferred' = {}

\* A first start, or one after a release was found and the app was ended.
UpdateAppInit ==
    /\ feed \in Releases \cap {0, 1} /\ installed = 0
    /\ marker = IF feed = 0 THEN NoStatus ELSE MarkerFor(NoStatus, feed)
    /\ process = [version |-> 0, session |-> "background", starting |-> CanAttempt(marker),
                  window |-> FALSE, starts |-> 1]
    /\ operation = Free /\ cached = NoStatus
    /\ queue = IF CanAttempt(marker) THEN {"startup"} ELSE {"initial"}
    /\ snapshot = IF feed = 0 THEN Status("checking", 0, FALSE, FALSE) ELSE NewStatus(feed)
    /\ WindowInit /\ deferred = {}
    /\ tries = [version \in Releases |-> 0]

\* The app ends, at any time, and is started again.
Restart(version) ==
    LET mark == LoadMarker(marker, version) IN
    /\ process.starts < MaxStarts
    /\ installed' = version
    /\ Started(version, mark, process.starts + 1)
    /\ snapshot' = IF mark = NoStatus THEN Status("checking", 0, FALSE, FALSE)
                   ELSE [stage |-> IF mark.version \notin Prereleases /\
                                      Minor(mark.version) > Minor(version)
                                   THEN "mandatory" ELSE "optional",
                         version |-> mark.version, progress |-> FALSE, error |-> FALSE]
    /\ UNCHANGED <<feed, tries>>
\* The installer may end the process itself, with its work done or not.
Ends == \/ operation.step \notin {"installing", "restarting"} /\ Restart(installed)
        \/ operation.step = "installing" /\
               \E version \in {installed, operation.version} : Restart(version)
        \/ operation.step = "restarting" /\ Restart(operation.version)

\* A newer release appears.
FeedChanges == feed < MaxRelease /\ feed' = feed + 1
    /\ UNCHANGED <<installed, marker, process, operation, queue, cached, snapshot,
                   data, install, deferred, tries>>
BackoffPasses == marker # NoStatus /\ marker.deferred
    /\ marker' = [marker EXCEPT !.deferred = FALSE]
    /\ UNCHANGED <<feed, installed, process, operation, queue, cached, snapshot,
                   data, install, deferred, tries>>

--------------------------------------------------------------------------------
(* How an operation ends: what its caller gets. *)

Release(session) ==
    process' = [process EXCEPT !.session = session,
                    !.starting = @ /\ operation.kind # "startup"]
MutationEnds(result) ==
    install' = [part \in DOMAIN install |->
                    IF install[part] = "pending" THEN result ELSE install[part]]
\* An answer to the window's own request; "asked": did the feed take part?
Answered(request, answer, asked) ==
    [request EXCEPT !.step = "answered", !.answer = answer, !.asked = asked]
Failing == Status("rejected", 0, FALSE, FALSE)
Ending(kind, answer, asked, ok) ==
    /\ data' = IF kind = "ui"
               THEN [data EXCEPT !.request = Answered(@, IF ok THEN answer ELSE Failing, asked)]
               ELSE IF kind = "install" /\ data.request.step # "asked"
               THEN [data EXCEPT !.request = [NoRequest EXCEPT !.step = "asked"]]
               ELSE data
    /\ IF kind = "install" THEN MutationEnds(IF ok THEN "idle" ELSE "error")
       ELSE UNCHANGED install
\* The invalidation after an installation asks again.
QueueAfter(kind) ==
    queue' = queue \cup (IF kind = "install" /\ data.request.step # "asked" THEN {"ui"} ELSE {})
SessionAfter(kind) ==
    IF process.session = "installing" /\ kind = "install" THEN "foreground"
    ELSE IF process.session = "installing" /\ kind = "startup" THEN "background"
    ELSE process.session
Ends0(kind, answer, asked, ok) ==
    /\ operation' = Free /\ Release(SessionAfter(kind))
    /\ Ending(kind, answer, asked, ok) /\ QueueAfter(kind)
    /\ UNCHANGED <<feed, installed, deferred>>

Remember(status) ==
    /\ snapshot' = status
    /\ cached' = IF cached = NoStatus THEN cached ELSE [cached EXCEPT !.status = status]
\* A failed check keeps what was known of a release.
RememberFailure ==
    LET status == IF cached # NoStatus THEN Failed(cached.status)
                  ELSE Failed(CheckingFrom(snapshot)) IN
    /\ snapshot' = status
    /\ cached' = IF cached # NoStatus THEN [cached EXCEPT !.status = status]
                 ELSE IF status.version # 0 THEN [status |-> status, update |-> 0] ELSE cached

--------------------------------------------------------------------------------
(* Operations of the coordinator, one at a time. *)

Kinds == {"ui", "initial", "hourly", "install", "startup"}

FromCache(kind) == kind \in {"ui", "initial"} /\ cached # NoStatus
TakeLock(kind) ==
    /\ kind \in queue /\ operation = Free
    /\ CASE FromCache(kind) ->
              /\ snapshot' = cached.status
              /\ data' = IF kind = "ui"
                         THEN [data EXCEPT !.request = Answered(@, cached.status, FALSE)] ELSE data
              /\ UNCHANGED <<operation, process>>
         [] kind = "startup" /\ ~CanAttempt(marker) ->
              process' = [process EXCEPT !.starting = FALSE]
              /\ UNCHANGED <<operation, snapshot, data>>
         [] OTHER ->
              /\ snapshot' = CheckingFrom(snapshot)
              /\ operation' = [kind |-> kind, step |-> "asking", version |-> 0]
              /\ UNCHANGED <<data, process>>
    /\ queue' = queue \ {kind}
    /\ UNCHANGED <<feed, installed, marker, cached, install, deferred, tries>>

CheckFails ==
    /\ operation.step = "asking"
    /\ RememberFailure /\ marker' = Deferring(marker)
    /\ Ends0(operation.kind, NoStatus, TRUE, FALSE)
    /\ UNCHANGED tries

Safe == process.session = "background" /\ ~process.window
Goes(kind, mark, version) ==
    /\ version # 0
    /\ \/ kind = "install"
       \/ kind = "startup" /\ Safe /\ CanAttempt(mark)
CheckAnswers ==
    LET version == IF feed > process.version THEN feed ELSE 0
        mark == IF version = 0 THEN NoStatus ELSE MarkerFor(marker, version)
        status == NewStatus(version) IN
    /\ operation.step = "asking"
    /\ marker' = mark
    /\ cached' = [status |-> status, update |-> version]
    /\ UNCHANGED tries
    /\ IF Goes(operation.kind, mark, version)
       THEN /\ operation' = [operation EXCEPT !.step = "downloading", !.version = version]
            /\ snapshot' = WithStage(status, "downloading")
            /\ UNCHANGED <<feed, installed, process, queue, data, install, deferred>>
       ELSE snapshot' = status /\ Ends0(operation.kind, status, TRUE, TRUE)

Verify ==
    /\ operation.step = "downloading"
    /\ operation' = [operation EXCEPT !.step = "verifying"]
    /\ snapshot' = WithStage(cached.status, "verifying")
    /\ UNCHANGED <<feed, installed, marker, process, queue, cached, data, install,
                   deferred, tries>>

DownloadFails ==
    /\ operation.step \in {"downloading", "verifying"}
    /\ Remember(Failed(snapshot)) /\ marker' = Deferring(marker)
    /\ Ends0(operation.kind, NoStatus, TRUE, FALSE)
    /\ UNCHANGED tries

RecordAttempt(mark, version) ==
    LET kept == MarkerFor(mark, version) IN
    [kept EXCEPT !.attempts = @ + 1, !.deferred = FALSE]
Install ==
    LET startup == operation.kind = "startup" IN
    /\ operation.step = "verifying"
    /\ startup => Safe
    /\ operation' = [operation EXCEPT !.step = "installing"]
    /\ marker' = IF startup THEN RecordAttempt(marker, operation.version) ELSE marker
    /\ process' = [process EXCEPT !.session = "installing"]
    /\ tries' = IF startup THEN [tries EXCEPT ![operation.version] = @ + 1] ELSE tries
    /\ Remember(WithStage(cached.status, "installing"))
    /\ UNCHANGED <<feed, installed, queue, data, install, deferred>>
\* A window was opened during the download.
PutOff ==
    /\ operation.step = "verifying" /\ operation.kind = "startup" /\ ~Safe
    /\ snapshot' = cached.status
    /\ Ends0("startup", NoStatus, TRUE, TRUE)
    /\ UNCHANGED <<marker, cached, tries>>
InstallFails ==
    /\ operation.step = "installing"
    /\ Remember([Failed(cached.status) EXCEPT !.progress = TRUE])
    /\ marker' = Deferring(marker)
    /\ Ends0(operation.kind, NoStatus, TRUE, FALSE)
    /\ UNCHANGED tries
Installed ==
    /\ operation.step = "installing"
    /\ operation' = [operation EXCEPT !.step = "restarting"]
    /\ Remember(WithStage(cached.status, "restart-required"))
    /\ IF operation.kind = "install"
       THEN /\ MutationEnds("idle")
            /\ data' = IF data.request.step = "asked" THEN data
                       ELSE [data EXCEPT !.request = Answered(NoRequest, snapshot', FALSE)]
       ELSE UNCHANGED <<install, data>>
    /\ UNCHANGED <<feed, installed, marker, process, queue, deferred, tries>>

HourlyCheck ==
    /\ ~process.starting /\ "hourly" \notin queue /\ operation.kind # "hourly"
    /\ process.session # "installing"
    /\ queue' = queue \cup {"hourly"}
    /\ UNCHANGED <<feed, installed, marker, process, operation, cached, snapshot,
                   data, install, deferred, tries>>

--------------------------------------------------------------------------------
(* The window. *)

OpenDashboard ==
    /\ ~process.window /\ process.session # "installing"
    /\ process' = [process EXCEPT !.window = TRUE, !.session = "foreground"]
    /\ UNCHANGED <<feed, installed, marker, operation, queue, cached, snapshot,
                   data, install, deferred, tries>>

\* check_desktop_update: at once while an installation runs, else under the lock.
Ask(user, retried) ==
    LET request == [NoRequest EXCEPT !.step = "asked", !.user = user, !.retried = retried] IN
    IF process.session = "installing"
    THEN data' = [data EXCEPT !.request = Answered(request, snapshot, FALSE)] /\ UNCHANGED queue
    ELSE data' = [data EXCEPT !.request = request] /\ queue' = queue \cup {"ui"}
Poll ==
    /\ process.window /\ data.request = NoRequest
    /\ Ask(FALSE, FALSE)
    /\ UNCHANGED <<feed, installed, marker, process, operation, cached, snapshot,
                   install, deferred, tries>>
CheckAgain ==
    /\ process.window /\ data.request = NoRequest
    /\ \E part \in DOMAIN install : "check-again" \in Offered(part)
    /\ Ask(TRUE, FALSE)
    /\ UNCHANGED <<feed, installed, marker, process, operation, cached, snapshot,
                   install, deferred, tries>>

\* An answer that cannot be read is an error; an error is asked again once.
Receive ==
    LET answer == data.request.answer
        bad == answer = Failing \/ ~Parses(answer) IN
    /\ data.request.step = "answered"
    /\ IF bad /\ ~data.request.retried THEN Ask(data.request.user, TRUE)
       ELSE /\ data' = [status |-> IF bad THEN data.status ELSE answer,
                        isError |-> bad, request |-> NoRequest]
            /\ UNCHANGED queue
    /\ UNCHANGED <<feed, installed, marker, process, operation, cached, snapshot,
                   install, deferred, tries>>

StartInstall(part) ==
    /\ process.window /\ "install" \in Offered(part)
    /\ IF process.session = "foreground"
       THEN /\ process' = [process EXCEPT !.session = "installing"]
            /\ install' = [install EXCEPT ![part] = "pending"]
            /\ queue' = queue \cup {"install"}
       ELSE /\ install' = [install EXCEPT ![part] = "error"]      \* one is running
            /\ UNCHANGED <<process, queue>>
    /\ UNCHANGED <<feed, installed, marker, operation, cached, snapshot, data, deferred, tries>>
Later ==
    /\ process.window /\ "later" \in Offered("notice")
    /\ deferred' = deferred \cup {data.status.version}
    /\ UNCHANGED <<feed, installed, marker, process, operation, queue, cached, snapshot,
                   data, install, tries>>

UpdateAppNext ==
    \/ Ends \/ FeedChanges \/ BackoffPasses
    \/ \E kind \in Kinds : TakeLock(kind)
    \/ CheckFails \/ CheckAnswers \/ Verify \/ DownloadFails
    \/ Install \/ PutOff \/ InstallFails \/ Installed \/ HourlyCheck
    \/ OpenDashboard \/ Poll \/ CheckAgain \/ Receive
    \/ \E part \in DOMAIN install : StartInstall(part)
    \/ Later
UpdateAppSpec == UpdateAppInit /\ [][UpdateAppNext]_updateAppVars

--------------------------------------------------------------------------------
Mutations == {"idle", "pending", "error"}
StatusQueries == [step : {"none", "asked", "answered"}, user : BOOLEAN, asked : BOOLEAN,
                  retried : BOOLEAN, answer : {NoStatus, Failing} \cup Statuses]

\* Every variable stays within the values the code can hold.
UpdateAppTypeOK ==
    /\ feed \in Releases /\ installed \in Releases /\ marker \in {NoStatus} \cup Marks
    /\ process \in [version : Releases, session : {"background", "foreground", "installing"},
                    starting : BOOLEAN, window : BOOLEAN, starts : 1..MaxStarts]
    /\ operation \in [kind : {"none"} \cup Kinds, version : Releases,
           step : {"none", "asking", "downloading", "verifying", "installing", "restarting"}]
    /\ queue \subseteq Kinds
    /\ cached \in {NoStatus} \cup Checks /\ snapshot \in Statuses
    /\ data \in [status : {NoStatus} \cup Statuses, isError : BOOLEAN, request : StatusQueries]
    /\ install \in [gate : Mutations, notice : Mutations]
    /\ deferred \subseteq Releases
    /\ tries \in [Releases -> Nat]

\* Whatever the coordinator publishes or remembers, from whichever operation and
\* failure, is a status the window's strict reader accepts (updater.rs,
\* desktop-settings.ts): otherwise a valid state would reach the user as an error.
EveryStatusParses == Parses(snapshot) /\ (cached # NoStatus => Parses(cached.status))

\* While the app runs, a window that has seen a mandatory update stays blocked: no
\* failed or new check, failed installation or lost answer takes the block away, only
\* a newer release that is not mandatory.
MandatoryStaysShut == [][
    process'.starts = process.starts /\ KnownPolicy = "mandatory" /\ KnownPolicy' # "mandatory"
        => data'.status.version > data.status.version]_updateAppVars

\* A release that fails to install, or whose installer kills the app, is tried
\* at start-up at most MaxAttempts times, over all restarts.
AutoInstallsBounded == \A version \in Releases : tries[version] <= MaxAttempts

\* A window that is blocked is being asked about, is installing, or offers a way on.
GateOffersAWay ==
    process.window /\ Blocked =>
        \/ Gate \cap {"install", "check-again"} # {}
        \/ InstallPending \/ data.request # NoRequest
        \/ NoAnswer /\ ~data.isError
        \/ ~NoAnswer /\ data.status.stage \in Active

\* Every status passes the window's reader, and a window it blocks leads on.
UpdateGateOffersAWay == EveryStatusParses /\ GateOffersAWay

\* "Check again" has the update server asked.
CheckAgainAsks ==
    data.request.step = "answered" /\ data.request.user => data.request.asked
================================================================================
