---------------------------- MODULE AttendancePages ----------------------------
(***************************************************************************)
(* The two pages that show a student's attendance: the attendance page,    *)
(* which is behind the personal gate, and the home page's campus card,     *)
(* which is not and decides for itself what it may show.  Both read one    *)
(* query; each has a refresh button with a mutation of its own.  A day has *)
(* DayTicks instants and the attendance day begins DayStart into it.       *)
(***************************************************************************)
EXTENDS AccountStates

CONSTANTS
    DayTicks, DayStart,
    ExpiresAfter,      \* ATTENDANCE_FRESHNESS_MS
    MaxPeriodDays,     \* MAX_PERIOD_DAYS
    Profiles,          \* what comes with a record: [cohort, devices]
    PcStates,          \* what the PC's connection comes to say: [state, persistent, lms]
    LastInstant        \* bound: the clock

VARIABLES
    client,            \* "web", "pwa" or "pc"
    instant,           \* the clock
    account,           \* [cookie: personal access of the PWA, connection: the PC's query]
    attendance,        \* the query: [data, isError, fetching]
    refreshes          \* the mutations of the two refresh buttons

pagesVars == <<client, instant, account, attendance, refreshes>>

AttendancePagesAssumption ==
    /\ {DayTicks, DayStart, ExpiresAfter, MaxPeriodDays, LastInstant} \subseteq Nat
    /\ DayStart < DayTicks

Day(t) == t \div DayTicks
EffectiveAttendanceDate(t) == IF t % DayTicks < DayStart THEN Day(t) - 1 ELSE Day(t)

\* What the query holds: an answer of the server or this PC's own observation.
AuthRequired == [kind |-> "auth-required"]
Unavailable == [kind |-> "unavailable"]
\* A record names its attendance day; it may be synchronised on a later one.
Available(source, day, at, fresh, profile) ==
    [kind |-> "available", source |-> source, day |-> day, at |-> at, fresh |-> fresh,
     profile |-> profile]
HasRecord(query) == query.data # None /\ query.data.kind = "available"
LocalObservationExpired(record) == record.source = "desktop" /\ instant - record.at > ExpiresAfter

--------------------------------------------------------------------------------
(* The account, as both pages read it.                                     *)

Desktop == client = "pc"
Status == DashboardAccountStatus(IF Desktop THEN "desktop" ELSE "browser", account.connection)
Personal == CASE client = "web" -> "not-applicable"
              [] client = "pwa" -> account.cookie
              [] OTHER -> PersonalAccessState("desktop-session", Status).status
Connected == Personal = "connected"

--------------------------------------------------------------------------------
(* D-Day: days are numbers, and a cohort has a status, a start and an end. *)

DdayPeriod(cohort) ==
    IF None \in {cohort.start, cohort.end} THEN None
    ELSE IF cohort.end < cohort.start THEN None ELSE [start |-> cohort.start, end |-> cohort.end]
DdayLabel(cohort, today) ==
    LET period == DdayPeriod(cohort) IN
    CASE period = None -> None
      [] period # None /\ (cohort.status = "ended" \/ today > cohort.end) -> [to |-> "over", days |-> 0]
      [] OTHER ->
         IF cohort.status = "upcoming" \/ today < cohort.start
         THEN [to |-> "start", days |-> IF today < cohort.start THEN cohort.start - today ELSE 0]
         ELSE [to |-> "end", days |-> cohort.end - today]

CellState(day, period, today) ==
    CASE today < period.start -> "remaining"
      [] today > period.end -> "elapsed"
      [] OTHER -> IF day < today THEN "elapsed" ELSE IF day > today THEN "remaining" ELSE "current"
CalendarCells(period, today) ==
    [day \in period.start..period.end |-> CellState(day, period, today)]
Summary(cells, percent) ==
    LET Count(state) == Cardinality({day \in DOMAIN cells : cells[day] = state})
    IN  [total |-> Cardinality(DOMAIN cells), elapsed |-> Count("elapsed"),
         current |-> Count("current"), remaining |-> Count("remaining"), percent |-> percent]
\* In tenths of a percent, rounded.
ProgressPercent(period, total, today) ==
    LET done == IF today < period.start THEN 0
                ELSE IF today - period.start > total THEN total ELSE today - period.start
    IN  (2000 * done + total) \div (2 * total)
DdayProgress(period, today) ==
    LET total == period.end - period.start + 1
    IN  IF total > MaxPeriodDays THEN None
        ELSE Summary(CalendarCells(period, today), ProgressPercent(period, total, today))
DdayView ==
    IF ~HasRecord(attendance) THEN None
    ELSE LET cohort == attendance.data.profile.cohort
             period == DdayPeriod(cohort)
         IN  IF period = None THEN None
             ELSE [text |-> DdayLabel(cohort, Day(instant)), period |-> period,
                   progress |-> DdayProgress(period, Day(instant))]
DdayCard(view) == [text |-> view.text, canExpand |-> view.progress # None]

--------------------------------------------------------------------------------
(* The attendance page.                                                    *)

AttendanceDetail ==
    CASE attendance.isError -> [kind |-> "error"]
      [] attendance.data = None -> [kind |-> "loading"]
      [] HasRecord(attendance) ->
             [kind |-> "available", record |-> attendance.data,
              fresh |-> attendance.data.fresh /\ ~LocalObservationExpired(attendance.data)]
      [] OTHER -> [kind |-> attendance.data.kind]

DetailIsLocal ==
    Desktop /\ AttendanceDetail.kind = "available" /\ AttendanceDetail.record.source = "desktop"
ServerAccess == IF Desktop /\ ~DetailIsLocal THEN Status.server ELSE "not-applicable"

AttendanceContent ==
    LET Show(kind, about) == [kind |-> kind, about |-> about] IN
    CASE ~Desktop /\ ~Connected ->
             Show(CASE Personal = "checking" -> "loading" [] Personal = "error" -> "error"
                    [] OTHER -> "empty", "browser-session")
      [] Desktop /\ ~LmsAuthenticated(Status) ->
             Show(CASE Status.lms = "checking" -> "loading" [] Status.lms = "required" -> "empty"
                    [] OTHER -> "error", "desktop-connection")
      [] ServerAccess \in {"checking", "recovery-required", "missing"} ->
             Show(IF ServerAccess = "checking" THEN "loading" ELSE "empty", "server-session")
      [] OTHER ->
             Show(CASE AttendanceDetail.kind \in {"loading", "error", "available"} -> AttendanceDetail.kind
                    [] OTHER -> "empty", "attendance")

RefreshControl ==
    LET pending == refreshes["attendance"].status = "pending" IN
    [enabled |-> /\ ~pending
                 /\ Connected \/ DetailIsLocal
                 /\ Status.lms \notin {"checking", "unavailable"}
                 /\ ServerAccess \notin {"checking", "recovery-required"},
     label |-> CASE pending -> "refreshing"
                 [] ~pending /\ Status.lms = "checking" -> "checking"
                 [] OTHER -> IF ServerAccess = "missing" THEN "connect" ELSE "refresh"]

AttendancePageState ==
    [busy |-> Personal # "not-applicable" /\ AttendanceDetail.kind = "loading",
     content |-> AttendanceContent, control |-> RefreshControl]

AttendancePageHeader == IF Status.lms = "required" THEN {"login"}
                        ELSE IF RefreshControl.enabled THEN {"refresh"} ELSE {}

AvailableAttendance(detail) ==
    [day |-> detail.record.day,
     caption |-> IF detail.record.source = "desktop" THEN "checked" ELSE "synchronised",
     pending |-> detail.record.source = "desktop", warned |-> ~detail.fresh]

TodayAttendanceCard ==
    LET content == AttendanceContent IN
    [shown |-> IF content.kind = "available" THEN AvailableAttendance(AttendanceDetail)
               ELSE content,
     retry |-> IF content.kind = "error" THEN content.about ELSE None]

DeviceStatus(device) ==
    CASE device.health = "offline" -> "offline"
      [] device.health # "offline" /\ device.lms = "login-required" -> "login-required"
      [] device.health = "online" /\ device.lms = "connected" -> "connected"
      [] OTHER -> "checking"
Devices == IF HasRecord(attendance) THEN attendance.data.profile.devices ELSE <<>>
AttendanceDevicesCard == [i \in DOMAIN Devices |-> DeviceStatus(Devices[i])]

\* The PC says of itself whether the LMS wants a login; elsewhere the first device does.
CampusNotice ==
    LET lms == IF Desktop
               THEN IF account.connection.data = None THEN None ELSE account.connection.data.lms
               ELSE IF Devices = <<>> THEN None ELSE Devices[1].lms
    IN  lms = "login-required"
JungleCampusCard == [notice |-> CampusNotice, seen |-> Devices # <<>>,
                     open |-> IF Desktop THEN "window" ELSE "link"]

AttendanceRefreshError ==
    IF refreshes["attendance"].status # "error" THEN None
    ELSE IF refreshes["attendance"].refused THEN "login first" ELSE "network or app"

AttendancePage ==
    [header |-> AttendancePageHeader, refreshError |-> AttendanceRefreshError,
     today |-> TodayAttendanceCard, campus |-> JungleCampusCard,
     dday |-> LET view == DdayView IN IF view = None THEN None ELSE DdayCard(view),
     devices |-> AttendanceDevicesCard]

--------------------------------------------------------------------------------
(* The home page.                                                          *)

HomeAttendanceOfAnyDay ==
    IF ~HasRecord(attendance) THEN "unavailable"
    ELSE IF ~attendance.data.fresh \/ LocalObservationExpired(attendance.data) THEN "stale"
    ELSE "current"
HomeAttendanceState ==
    IF ~HasRecord(attendance) THEN "unavailable"
    ELSE IF attendance.data.day # EffectiveAttendanceDate(instant)
    THEN "different-attendance-day"
    ELSE IF ~attendance.data.fresh \/ LocalObservationExpired(attendance.data) THEN "stale"
    ELSE "current"

DesktopLocalAttendance ==
    Desktop /\ HasRecord(attendance) /\ attendance.data.source = "desktop"

CampusAccessLocalFirst ==
    CASE ~Desktop -> IF Connected THEN "attendance" ELSE Personal
      [] Desktop /\ DesktopLocalAttendance -> "attendance"
      [] OTHER -> IF Status.lms # "authenticated" THEN "lms-" \o Status.lms ELSE "attendance"
CampusAccessState ==
    CASE ~Desktop -> IF Connected THEN "attendance" ELSE Personal
      [] Desktop /\ Status.lms \in {"checking", "required", "unavailable"} -> "lms-" \o Status.lms
      [] Desktop /\ Status.lms = "authenticated" /\ ~DesktopLocalAttendance
             /\ Status.server \in {"checking", "recovery-required", "missing"} ->
             "session-" \o Status.server
      [] OTHER -> "attendance"

PersonalReady == Connected \/ DesktopLocalAttendance
CampusAttendanceContent ==
    LET home == IF PersonalReady THEN HomeAttendanceState ELSE "unavailable"
        Show(kind) == [kind |-> kind, record |-> None, refreshFailed |-> FALSE]
    IN  CASE attendance.data = None -> Show(IF attendance.isError THEN "error" ELSE "loading")
          [] attendance.data = AuthRequired -> Show("authentication-required")
          [] attendance.data = Unavailable -> Show("unavailable")
          [] HasRecord(attendance) /\ home \in {"stale", "different-attendance-day"} ->
                 [Show(home) EXCEPT !.record = attendance.data]
          [] OTHER -> [kind |-> "ready", record |-> IF home = "current" THEN attendance.data ELSE None,
                       refreshFailed |-> attendance.isError]

BrowserAccessContent(status) ==
    CASE status \in {"not-applicable", "unconnected"} -> {"devices"}
      [] status = "checking" -> {}
      [] OTHER -> {"ask-session"}
DesktopAccessContent(status) ==
    CASE status \in {"lms-checking", "lms-required", "session-checking"} -> {}
      [] status = "lms-unavailable" -> {"ask-connection"}
      [] status = "session-recovery-required" -> {"devices"}
      [] OTHER -> {"refresh"}
AttendanceSummaryContent(content) ==
    IF content.kind \in {"error", "stale", "different-attendance-day"} THEN {"refresh"} ELSE {}
AttendanceReadyContent(content) ==
    [checks |-> content.record # None,
     note |-> CASE content.record # None /\ content.record.source = "desktop" -> "pending elsewhere"
                [] content.refreshFailed -> "last value"
                [] OTHER -> None]
CampusCardActions ==
    IF Desktop THEN IF Status.lms = "required" THEN {"login", "details"} ELSE {"campus", "details"}
    ELSE {"campus", "details"}

\* The buttons of the card; "refresh" is disabled while one is under way.
CampusSummaryContent ==
    LET buttons == CASE CampusAccessState = "attendance" ->
                            AttendanceSummaryContent(CampusAttendanceContent)
                     [] OTHER -> IF Desktop THEN DesktopAccessContent(CampusAccessState)
                                 ELSE BrowserAccessContent(CampusAccessState)
    IN  IF refreshes["attendance"].status = "pending" THEN buttons \ {"refresh"} ELSE buttons

SummaryShown == client # "web"
HomeShows(kind) == /\ SummaryShown /\ CampusAccessState = "attendance"
                   /\ CampusAttendanceContent.kind = kind
JungleCampusSummary ==
    [buttons |-> CampusSummaryContent \union CampusCardActions,
     ready |-> IF HomeShows("ready") THEN AttendanceReadyContent(CampusAttendanceContent) ELSE None,
     dday |-> IF PersonalReady /\ DdayView # None THEN DdayCard(DdayView) ELSE None]
HomePage ==
    [notice |-> ~SummaryShown, failed |-> refreshes["home"].status = "error",
     summary |-> IF SummaryShown THEN JungleCampusSummary ELSE None]

--------------------------------------------------------------------------------
TimePassesOn ==
    /\ instant < LastInstant /\ instant' = instant + 1
    /\ UNCHANGED <<client, account, attendance, refreshes>>

\* What the account's own queries come to say.
CookieChanges ==
    /\ client = "pwa"
    /\ account' \in {[account EXCEPT !.cookie = c] :
                        c \in {"checking", "error", "unconnected", "connected"} \ {account.cookie}}
    /\ UNCHANGED <<client, instant, attendance, refreshes>>
Connections == {[data |-> d, isError |-> FALSE] :
                   d \in {None} \union PcStates}
ConnectionChanges ==
    /\ client = "pc"
    /\ account' \in {[account EXCEPT !.connection = c] :
                        c \in (Connections \union {[account.connection EXCEPT !.isError = TRUE]})
                                  \ {account.connection}}
    /\ UNCHANGED <<client, instant, attendance, refreshes>>

\* A fetch that starts without data forgets the last error.
Started(query) == [query EXCEPT !.fetching = TRUE, !.isError = @ /\ query.data # None]

\* The minute's interval, the focus, or the retry of a page.
AskAttendance ==
    /\ Connected /\ ~attendance.fetching
    /\ attendance' = Started(attendance)
    /\ UNCHANGED <<client, instant, account, refreshes>>

\* What is left of a mutation when its last part ends well, or one part fails.
Ends(flow) == IF flow.step = "done" /\ flow.campus = "done" /\ flow.status = "pending"
              THEN [flow EXCEPT !.status = "success"] ELSE flow
Fails(flow) == [flow EXCEPT !.step = "done", !.status = "error"]
AttendanceRead(Outcome(_)) ==
    [which \in DOMAIN refreshes |->
        IF refreshes[which].step = "attendance" THEN Outcome(refreshes[which]) ELSE refreshes[which]]

Preferred(fetched) ==
    LET current == attendance.data IN
    IF /\ Desktop /\ HasRecord(attendance)
       /\ current.source = "desktop" /\ ~LocalObservationExpired(current)
       /\ ~ (fetched.kind = "available" /\ fetched.at >= current.at)
    THEN current ELSE fetched

AttendanceArrives(fetched) ==
    /\ attendance.fetching
    /\ attendance' = [data |-> Preferred(fetched), isError |-> FALSE, fetching |-> FALSE]
    /\ refreshes' = AttendanceRead(LAMBDA flow : Ends([flow EXCEPT !.step = "done"]))
    /\ UNCHANGED <<client, instant, account>>

AttendanceFails ==
    /\ attendance.fetching
    /\ attendance' = [attendance EXCEPT !.isError = TRUE, !.fetching = FALSE]
    /\ refreshes' = AttendanceRead(Fails)
    /\ UNCHANGED <<client, instant, account>>

\* The checker's observation, written to the query before it is uploaded.
LocalObservation(profile) ==
    /\ Desktop
    /\ attendance' = [attendance EXCEPT !.isError = FALSE,
                         !.data = Available("desktop", EffectiveAttendanceDate(instant), instant, TRUE,
                                          profile)]
    /\ UNCHANGED <<client, instant, account, refreshes>>

\* The identity was deleted, or this browser disconnected.
ForgetAttendance ==
    /\ attendance.data # None
    /\ attendance' = [data |-> None, isError |-> FALSE, fetching |-> FALSE]
    /\ refreshes' = AttendanceRead(Fails)
    /\ account' = IF Desktop THEN [account EXCEPT !.connection = [data |-> None, isError |-> FALSE]]
                  ELSE [account EXCEPT !.cookie = "unconnected"]
    /\ UNCHANGED <<client, instant>>

\* The step after the platform's: the read, when there is a session to read with.
\* Without a reading session the flow is done.
Reading(flow) == IF flow.reads THEN [flow EXCEPT !.step = "attendance"]
                 ELSE Ends([flow EXCEPT !.step = "done"])

\* Pressed on either page.  Whether to read is decided now, by the account as it is.
PressRefresh ==
    /\ \/ Connected /\ "refresh" \in AttendancePageHeader
       \/ SummaryShown /\ "refresh" \in CampusSummaryContent
    /\ refreshes["attendance"].step = "done"
    /\ LET refused == Desktop /\ ~LmsAuthenticated(Status)
           reads == ~Desktop \/ ServerSessionReady(Status)
           flow == [status |-> "pending", step |-> "platform", reads |-> reads,
                    campus |-> "done", refused |-> FALSE]
       IN  CASE refused -> /\ refreshes' = [refreshes EXCEPT !["attendance"] =
                                  [Fails(flow) EXCEPT !.refused = TRUE]]
                           /\ UNCHANGED attendance
             [] Desktop /\ ~refused -> /\ refreshes' = [refreshes EXCEPT !["attendance"] = flow]
                                       /\ UNCHANGED attendance
             [] OTHER -> /\ refreshes' = [refreshes EXCEPT !["attendance"] = Reading(flow)]
                         /\ attendance' = Started(attendance)
    /\ UNCHANGED <<client, instant, account>>

\* The home page's button: the campus beside the platform and, after it, the read.
PressHomeRefresh ==
    /\ refreshes["home"].status # "pending" /\ refreshes["home"].step = "done"
    /\ LET platform == Desktop /\ LmsAuthenticated(Status)
           flow == [status |-> "pending", step |-> "platform", refused |-> FALSE,
                    reads |-> Connected /\ (~Desktop \/ (platform /\ ServerSessionReady(Status))),
                    campus |-> "pending"]
       IN  /\ refreshes' = [refreshes EXCEPT !["home"] = IF platform THEN flow ELSE Reading(flow)]
           /\ attendance' = IF ~platform /\ flow.reads THEN Started(attendance) ELSE attendance
    /\ UNCHANGED <<client, instant, account>>

\* The PC's check ends: the connection query is invalidated, and after a good end
\* the attendance is read.  A query that is disabled by then is not refetched.
PlatformRefreshed(which) ==
    /\ refreshes[which].step = "platform"
    /\ LET reads == refreshes[which].reads /\ Connected IN
       /\ refreshes' = [refreshes EXCEPT ![which] = Reading([@ EXCEPT !.reads = reads])]
       /\ attendance' = IF reads THEN Started(attendance) ELSE attendance
    /\ UNCHANGED <<client, instant, account>>

PlatformRefreshFails(which) ==
    /\ refreshes[which].step = "platform"
    /\ refreshes' = [refreshes EXCEPT ![which] = Fails(@)]
    /\ UNCHANGED <<client, instant, account, attendance>>

CampusRefreshed(outcome) ==
    /\ refreshes["home"].campus = "pending"
    /\ refreshes' = [refreshes EXCEPT !["home"] =
           IF outcome = "done" THEN Ends([@ EXCEPT !.campus = "done"])
           ELSE [@ EXCEPT !.campus = "done", !.status = "error"]]
    /\ UNCHANGED <<client, instant, account, attendance>>

Idle == [status |-> "idle", step |-> "done", reads |-> FALSE, campus |-> "done", refused |-> FALSE]

PagesInit ==
    /\ client \in {"web", "pwa", "pc"}
    /\ instant = DayTicks
    /\ account = [cookie |-> "checking", connection |-> [data |-> None, isError |-> FALSE]]
    /\ attendance = [data |-> None, isError |-> FALSE, fetching |-> FALSE]
    /\ refreshes = [which \in {"attendance", "home"} |-> Idle]

\* The server's record is as old as it is; it calls one stale that is too old.
Answers == {AuthRequired, Unavailable} \union
           {Available("server", EffectiveAttendanceDate(seen), at, instant - at <= ExpiresAfter, p) :
               <<seen, at>> \in {<<s, a>> \in (DayTicks..instant) \X (DayTicks..instant) : s <= a},
               p \in Profiles}

PagesNext ==
    \/ TimePassesOn \/ CookieChanges \/ ConnectionChanges \/ AskAttendance
    \/ \E fetched \in Answers : AttendanceArrives(fetched)
    \/ AttendanceFails \/ \E p \in Profiles : LocalObservation(p)
    \/ ForgetAttendance \/ PressRefresh \/ PressHomeRefresh
    \/ \E which \in DOMAIN refreshes : PlatformRefreshed(which) \/ PlatformRefreshFails(which)
    \/ \E outcome \in {"done", "failed"} : CampusRefreshed(outcome)

PagesSpec == PagesInit /\ [][PagesNext]_pagesVars

--------------------------------------------------------------------------------
PagesTypeOK ==
    /\ instant \in DayTicks..LastInstant /\ attendance.isError \in BOOLEAN
    /\ AttendancePageState.content.kind \in {"loading", "empty", "error", "available"}
    /\ AttendancePage.header \subseteq {"login", "refresh"}
    /\ HomePage.failed \in BOOLEAN
    /\ DdayView # None => DdayView.text.to \in {"start", "end", "over"}

(* The home page's checks are those of the attendance day that is running, *)
(* recent, and the ones the attendance page shows without a warning, which  *)
(* may show nothing only while its last read failed; and "ready" never      *)
(* stands over an empty card.                                               *)
HomeChecksAreToday ==
    HomeShows("ready") =>
        LET record == CampusAttendanceContent.record IN
        /\ record # None
        /\ record.day = EffectiveAttendanceDate(instant)
        /\ ~LocalObservationExpired(record)
        /\ \/ attendance.isError
           \/ AttendanceContent.kind = "available" /\ AttendanceDetail.fresh

(* A refresh that a page offers is not refused for want of an LMS login: the *)
(* pages' conditions cover the one the mutation asserts.                     *)
OfferedRefreshIsAccepted ==
    /\ SummaryShown /\ "refresh" \in CampusSummaryContent => ~Desktop \/ LmsAuthenticated(Status)
    /\ Connected /\ "refresh" \in AttendancePageHeader => ~Desktop \/ LmsAuthenticated(Status)
================================================================================
