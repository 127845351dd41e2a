--------------------------- MODULE AttendanceChecker ---------------------------
(***************************************************************************)
(* The hidden window of the PC app that watches the attendance on the LMS: *)
(* the script in each of its pages (checker.ts) asks the LMS when it is    *)
(* triggered and reports; the app (checker.rs) triggers, believes reports  *)
(* of the page it loaded last only, and reloads a page that does not       *)
(* report.  Pages come and go under messages in both directions.           *)
(***************************************************************************)
EXTENDS Naturals, Sequences, FiniteSets

CONSTANTS
    NoCohort,          \* the LMS lists no cohort of today
    MaxPages,          \* bound: documents the window loads
    MaxSelections,     \* bound: changes of the selected cohort
    MaxEvents,         \* bound: messages on their way, in each direction
    RefreshLimit       \* CHECKER_NO_REPORT_REFRESH_LIMIT

VARIABLES
    runtime,           \* CheckerRuntime of the app, and where its page was loaded from
    window,            \* the window: [shown, moving, place]
    page,              \* the script of the current document
    triggers,          \* trigger-check events on their way to the window
    reports,           \* attendanceSnapshot messages on their way to the app
    watched,           \* the report watchdog of the page loaded last still sleeps
    signedIn,          \* does the LMS know this window?
    selected,          \* the cohort chosen in the app
    view,              \* what the app shows: [login, cohort, dday, page]; dday: the D-Day's cohort
    selections         \* the bounded counter of choices

checkerVars == <<runtime, window, page, triggers, reports, watched, signedIn, selected, view,
                 selections>>

ASSUME CheckerAssumption ==
    /\ {MaxPages, MaxSelections, MaxEvents, RefreshLimit} \subseteq Nat
    /\ NoCohort \notin Nat

Cohorts == {1, 2}
Places == {"attendance", "login", "elsewhere"}
OnLms(place) == place \in {"attendance", "login"}

\* A document whose script has not registered its listener yet.
Script(number) ==
    [number |-> number, listening |-> FALSE, generation |-> 0, step |-> "idle", check |-> 0,
     queued |-> 0, cached |-> FALSE, fresh |-> FALSE, cohort |-> NoCohort]

Result(login, error, cohort) == [login |-> login, error |-> error, cohort |-> cohort]
LoginNeeded == Result(TRUE, FALSE, NoCohort)
ApiError(cohort) == Result(FALSE, TRUE, cohort)

Trigger(generation) == triggers' = Append(triggers, generation)
Room(queue) == Len(queue) < MaxEvents

CheckerInit ==
    /\ runtime = [loaded |-> 0, ready |-> 0, reported |-> 0, refreshes |-> 0,
                  status |-> "loading", place |-> "attendance"]
    /\ window = [shown |-> FALSE, moving |-> "loading", place |-> "attendance"]
    /\ page = Script(1)
    /\ triggers = <<>> /\ reports = <<>> /\ watched = FALSE
    /\ signedIn \in BOOLEAN /\ selected = 1 /\ selections = 0
    /\ view = [login |-> FALSE, cohort |-> NoCohort, dday |-> NoCohort, page |-> 0]

--------------------------------------------------------------------------------
(* The script.                                                             *)

\* checkAttendance up to its first answer from outside.
CheckStarted(script, generation) ==
    [script EXCEPT !.check = generation, !.queued = 0, !.fresh = FALSE, !.cohort = NoCohort,
        !.step = IF window.place = "login" THEN "done"
                 ELSE IF script.cached THEN "resolve" ELSE "cohorts"]

\* runCheck: while a check is under way the trigger is kept for when it ends.
RunCheckDropping(script) ==
    IF script.step # "idle" THEN script ELSE CheckStarted(script, script.generation)
RunCheck(script) ==
    IF script.step # "idle" THEN [script EXCEPT !.queued = script.generation]
    ELSE CheckStarted(script, script.generation)

Listen ==
    /\ ~page.listening
    /\ page' = [page EXCEPT !.listening = TRUE]
    /\ UNCHANGED <<runtime, window, triggers, reports, watched, signedIn, selected, view, selections>>

\* The app takes the "ready" of the page it loaded last; the call and its answer are one step.
Ready(generation) ==
    IF OnLms(runtime.place) /\ generation # 0 /\ generation = runtime.loaded
    THEN [runtime EXCEPT !.ready = generation, !.status = "ready"]
    ELSE runtime

\* A trigger reaches the document of the moment, or nobody who listens yet.
HearTrigger ==
    /\ triggers # <<>>
    /\ triggers' = Tail(triggers)
    /\ IF page.listening /\ Head(triggers) > 0 /\ OnLms(window.place)
       THEN /\ page' = RunCheck([page EXCEPT !.generation = Head(triggers)])
            /\ runtime' = Ready(Head(triggers))
       ELSE UNCHANGED <<page, runtime>>
    /\ UNCHANGED <<window, reports, watched, signedIn, selected, view, selections>>

\* reportResult, and the end of runCheck: the trigger kept starts the next check.
Finish(script, result) ==
    /\ Room(reports)
    /\ reports' = Append(reports, [generation |-> script.check, page |-> script.number,
                                   result |-> result])
    /\ page' = LET ended == [script EXCEPT !.step = "idle", !.check = 0, !.queued = 0]
               IN IF script.queued # 0 /\ script.queued = script.generation
                  THEN RunCheck(ended) ELSE ended

AtLogin ==
    /\ page.step = "done"
    /\ Finish(page, LoginNeeded)
    /\ UNCHANGED <<runtime, window, triggers, watched, signedIn, selected, view, selections>>

\* fetchCohortSelection up to the list of cohorts; nothing is cached before it is resolved.
FetchCohorts(answered) ==
    /\ page.step = "cohorts"
    /\ IF ~answered THEN Finish(page, ApiError(NoCohort))
       ELSE IF ~signedIn THEN Finish([page EXCEPT !.cached = FALSE], LoginNeeded)
       ELSE page' = [page EXCEPT !.step = "resolve", !.fresh = TRUE] /\ UNCHANGED reports
    /\ UNCHANGED <<runtime, window, triggers, watched, signedIn, selected, view, selections>>

\* The app resolves the cohort by the selection of the moment, unless it does not allow
\* the place it saw last.
ResolveCohort(found) ==
    /\ page.step = "resolve"
    /\ LET script == [page EXCEPT !.cached = @ \/ page.fresh]
       IN IF ~OnLms(runtime.place) THEN Finish(page, ApiError(NoCohort))
          ELSE IF ~found THEN Finish(script, Result(FALSE, FALSE, NoCohort))
          ELSE page' = [script EXCEPT !.step = "attendance", !.cohort = selected] /\ UNCHANGED reports
    /\ UNCHANGED <<runtime, window, triggers, watched, signedIn, selected, view, selections>>

\* Without an answer the report still brings the cohort that was found, for its D-Day.
FetchAttendance(answered) ==
    /\ page.step = "attendance"
    /\ IF ~answered THEN Finish(page, ApiError(page.cohort))
       ELSE IF ~signedIn THEN Finish([page EXCEPT !.cached = FALSE], LoginNeeded)
       ELSE Finish(page, Result(FALSE, FALSE, page.cohort))
    /\ UNCHANGED <<runtime, window, triggers, watched, signedIn, selected, view, selections>>

\* A new day, or the options of yesterday: fetched again by the next check.
CacheExpires ==
    /\ page.cached /\ page.step = "idle"
    /\ page' = [page EXCEPT !.cached = FALSE]
    /\ UNCHANGED <<runtime, window, triggers, reports, watched, signedIn, selected, view, selections>>

--------------------------------------------------------------------------------
(* The window: a navigation ends the old document, then the new one loads. *)

Leave(w) == [w EXCEPT !.moving = "leaving"]

Commit(place) ==
    /\ window.moving = "leaving" /\ page.number < MaxPages
    /\ place = "attendance" \/ ~signedIn
    /\ window' = [window EXCEPT !.moving = "loading", !.place = place]
    /\ page' = Script(page.number + 1)
    /\ UNCHANGED <<runtime, triggers, reports, watched, signedIn, selected, view, selections>>

\* on_page_load: a page of the LMS is triggered and watched, another one only counted.
\* The watchdog of an earlier page finds that it is not the last one and does nothing.
PageLoaded ==
    /\ window.moving = "loading" /\ Room(triggers)
    /\ window' = [window EXCEPT !.moving = "no"]
    /\ runtime' = [runtime EXCEPT !.loaded = @ + 1, !.status = "page-loaded",
                                  !.place = window.place]
    /\ IF OnLms(window.place)
       THEN Trigger(runtime'.loaded) /\ watched' = TRUE
       ELSE UNCHANGED triggers /\ watched' = FALSE
    /\ UNCHANGED <<page, reports, signedIn, selected, view, selections>>

\* refresh_webview: not under the eyes of a person who is signing in.
Refreshed(w) == IF w.shown THEN w ELSE Leave(w)

ScheduledRefresh ==
    /\ window.moving = "no" /\ page.number < MaxPages
    /\ window' = Refreshed(window)
    /\ UNCHANGED <<runtime, page, triggers, reports, watched, signedIn, selected, view, selections>>

\* The watchdog reloads a page without a report, a limited number of times.
TimeoutOnceMore ==
    IF runtime.refreshes > RefreshLimit THEN [runtime EXCEPT !.status = "offline"]
    ELSE [runtime EXCEPT !.refreshes = @ + 1, !.status = "refreshing"]
Timeout ==
    IF runtime.refreshes >= RefreshLimit THEN [runtime EXCEPT !.status = "offline"]
    ELSE [runtime EXCEPT !.refreshes = @ + 1, !.status = "refreshing"]

Watchdog ==
    /\ watched
    /\ watched' = FALSE
    /\ IF window.shown \/ runtime.reported >= runtime.loaded
       THEN UNCHANGED <<runtime, window>>
       ELSE /\ runtime' = Timeout
            /\ window' = IF runtime'.status = "refreshing" THEN Refreshed(window) ELSE window
    /\ UNCHANGED <<page, triggers, reports, signedIn, selected, view, selections>>

ShowWindow ==
    /\ ~window.shown
    /\ window' = [window EXCEPT !.shown = TRUE]
    /\ UNCHANGED <<runtime, page, triggers, reports, watched, signedIn, selected, view, selections>>

\* Closing hides the window and looks at the session anew.
Closed(w) == Refreshed([w EXCEPT !.shown = FALSE])
CloseWindow ==
    /\ window.shown
    /\ window' = Closed(window)
    /\ UNCHANGED <<runtime, page, triggers, reports, watched, signedIn, selected, view, selections>>

\* A person follows a link or signs in, in the window they see.
Navigate ==
    /\ window.shown /\ window.moving = "no" /\ page.number < MaxPages
    /\ window' = Leave(window)
    /\ signedIn' \in BOOLEAN
    /\ UNCHANGED <<runtime, page, triggers, reports, watched, selected, view, selections>>

SessionExpires ==
    /\ signedIn
    /\ signedIn' = FALSE
    /\ UNCHANGED <<runtime, window, page, triggers, reports, watched, selected, view, selections>>

--------------------------------------------------------------------------------
(* The app.                                                                *)

\* Only the page loaded last is believed.
BelievedAnyway(report) == OnLms(runtime.place) /\ report.generation # 0
Believed(report) == OnLms(runtime.place) /\ report.generation # 0
                    /\ report.generation = runtime.loaded

\* apply_attendance_report: an error of the LMS changes the D-Day, if the cohort was found
\* before it, and nothing else that was known.
Applied(report) ==
    LET result == report.result
    IN IF result.error
       THEN [view EXCEPT !.dday = IF result.cohort = NoCohort THEN @ ELSE result.cohort]
       ELSE [login |-> result.login, page |-> report.page, dday |-> result.cohort,
             cohort |-> IF result.login THEN view.cohort ELSE result.cohort]

HandleReport ==
    /\ reports # <<>>
    /\ reports' = Tail(reports)
    /\ IF Believed(Head(reports))
       THEN /\ runtime' = [runtime EXCEPT !.reported = Head(reports).generation, !.refreshes = 0,
                  !.status = IF Head(reports).result.error THEN "offline" ELSE "healthy"]
            /\ view' = Applied(Head(reports))
       ELSE UNCHANGED <<runtime, view>>
    /\ UNCHANGED <<window, page, triggers, watched, signedIn, selected, selections>>

\* A cohort is chosen, or a person asks for a refresh: the page is triggered again.
SelectCohort(cohort) ==
    /\ selections < MaxSelections /\ Room(triggers)
    /\ selected' = cohort /\ selections' = selections + 1
    /\ Trigger(runtime.loaded)
    /\ UNCHANGED <<runtime, window, page, reports, watched, signedIn, view>>

CheckerNext ==
    \/ Listen \/ HearTrigger \/ AtLogin \/ CacheExpires
    \/ \E answered \in BOOLEAN : FetchCohorts(answered) \/ FetchAttendance(answered)
    \/ \E found \in BOOLEAN : ResolveCohort(found)
    \/ \E place \in Places : Commit(place)
    \/ PageLoaded \/ ScheduledRefresh \/ Watchdog
    \/ ShowWindow \/ CloseWindow \/ Navigate \/ SessionExpires
    \/ HandleReport \/ \E cohort \in Cohorts : SelectCohort(cohort)

CheckerSpec == CheckerInit /\ [][CheckerNext]_checkerVars

--------------------------------------------------------------------------------
Results == [login : BOOLEAN, error : BOOLEAN, cohort : Cohorts \cup {NoCohort}]
Reports == [generation : Nat, page : Nat, result : Results]
Scripts == [number : Nat, listening : BOOLEAN, generation : Nat, check : Nat, queued : Nat,
            step : {"idle", "cohorts", "resolve", "attendance", "done"},
            cached : BOOLEAN, fresh : BOOLEAN, cohort : Cohorts \cup {NoCohort}]
Runtimes == [loaded : Nat, ready : Nat, reported : Nat, refreshes : 0..RefreshLimit,
             place : Places,
             status : {"loading", "page-loaded", "ready", "refreshing", "offline", "healthy"}]

CheckerTypeOK ==
    /\ runtime \in Runtimes /\ page \in Scripts
    /\ window \in [shown : BOOLEAN, moving : {"no", "leaving", "loading"}, place : Places]
    /\ triggers \in Seq(Nat) /\ reports \in Seq(Reports)
    /\ watched \in BOOLEAN /\ signedIn \in BOOLEAN /\ selected \in Cohorts
    /\ view \in [login : BOOLEAN, page : Nat, cohort : Cohorts \cup {NoCohort},
                 dday : Cohorts \cup {NoCohort}]
    /\ selections \in 0..MaxSelections
    /\ runtime.reported <= runtime.loaded /\ runtime.ready <= runtime.loaded
    /\ runtime.loaded <= page.number
    /\ page.queued # 0 => page.step # "idle" /\ page.queued = page.generation
    /\ page.check <= page.generation /\ page.generation <= runtime.loaded
    /\ watched => runtime.loaded > 0

(* What is shown was read by the document that is loaded now or by the one  *)
(* that is loading: a report never outlives the page that asked for it.     *)
ShowsThisPage == view'.page # view.page => view'.page >= runtime.loaded
ShownByThisPage == [][ShowsThisPage]_checkerVars

(* A cohort that was chosen is looked up sooner or later: as long as the    *)
(* attendance shown is of another one, a trigger, a check that will resolve *)
(* the new one, its report or a new page is on its way, or the LMS could    *)
(* not be asked.                                                            *)
WillResolve(cohort) ==
    \/ page.step \in {"cohorts", "resolve", "done"}
    \/ page.step = "attendance" /\ page.cohort = cohort
OnItsWay(cohort) ==
    \/ triggers # <<>>
    \/ page.queued # 0 \/ WillResolve(cohort)
    \/ window.moving # "no"
    \/ \E i \in DOMAIN reports : reports[i].result.cohort \in {cohort, NoCohort}
SelectionIsFollowed ==
    view.cohort \in Cohorts \ {selected} /\ ~view.login /\ runtime.status = "healthy"
        => OnItsWay(selected)

(* A page of the LMS that never reported is noticed: while the app has not  *)
(* given up and nobody looks at the window, a watchdog is awake or the page *)
(* is being replaced, whatever was shown, closed or left in between.        *)
SilenceIsNoticed ==
    runtime.reported < runtime.loaded /\ runtime.refreshes < RefreshLimit
            /\ OnLms(runtime.place) /\ ~window.shown
        => watched \/ window.moving # "no"

CheckerGoesOn == SelectionIsFollowed /\ SilenceIsNoticed

--------------------------------------------------------------------------------
(* The inductive invariant these follow from.                              *)

\* Only the script of a loaded or loading page of the LMS checks, and it listens.
PageInv ==
    /\ window.moving = "no" => window.place = runtime.place
    /\ window.moving = "loading" => runtime.loaded < page.number
    /\ page.step # "idle" => page.listening /\ OnLms(window.place) /\ page.check > 0
    /\ page.step = "idle" => page.check = 0
    /\ page.step = "attendance" => page.cohort \in Cohorts
    /\ page.generation > 0 => page.listening

\* Triggers are heard and answered in order, and each report names its page.
OrderInv ==
    /\ \A i \in DOMAIN triggers :
          /\ page.generation <= triggers[i] /\ triggers[i] <= runtime.loaded
          /\ \A j \in 1..i : triggers[j] <= triggers[i]
    /\ \A i \in DOMAIN reports :
          /\ 0 < reports[i].generation /\ reports[i].generation <= reports[i].page
          /\ reports[i].generation <= runtime.loaded /\ reports[i].page <= page.number
          /\ reports[i].page = page.number => reports[i].generation <= page.generation
          /\ reports[i].generation = runtime.loaded /\ window.moving = "no"
                => reports[i].page = page.number
          /\ page.step # "idle" => reports[i].generation <= page.check
          /\ \A j \in DOMAIN triggers : reports[i].generation <= triggers[j]
          /\ \A j \in 1..i : reports[j].generation <= reports[i].generation

\* After the first report of a page everything on its way is about that page.
HealthyInv ==
    runtime.status = "healthy" /\ window.moving = "no" =>
        /\ runtime.loaded > 0 /\ OnLms(runtime.place) /\ page.generation = runtime.loaded
        /\ page.step # "idle" => page.check = runtime.loaded
        /\ \A i \in DOMAIN reports : reports[i].generation = runtime.loaded

\* A check for a cohort that is not chosen any more is followed by another one.
Again == triggers # <<>> \/ page.queued # 0 \/ window.moving # "no"
FollowedInv ==
    /\ page.step = "attendance" /\ page.cohort # selected => Again
    /\ \A i \in DOMAIN reports :
          reports[i].result.cohort \in Cohorts \ {selected}
          /\ reports[i].generation = runtime.loaded /\ OnLms(runtime.place)
          => \/ Again
             \/ WillResolve(selected)
             \/ \E j \in DOMAIN reports : j > i /\ reports[j].result.cohort \in {selected, NoCohort}

CheckerInv ==
    /\ CheckerTypeOK
    /\ PageInv
    /\ OrderInv
    /\ HealthyInv
    /\ FollowedInv
    /\ CheckerGoesOn
================================================================================
