-------------------------------- MODULE MCClient --------------------------------
(***************************************************************************)
(* The stateful parts of the client, each on a small instance.  `part' is  *)
(* chosen at the start and TLC explores the part's states.  The parts that *)
(* theorems are about are extended and keep their own variables, which     *)
(* stand still in the other parts.  The others are instances; they share   *)
(* no state in the model, so they share the variables v1, v2, ..., which   *)
(* each instance names for itself.                                         *)
(***************************************************************************)
EXTENDS DesktopSession, AttendanceChecker, DesktopUpdate, PushRegistration, PwaUpdate,
        DesktopAttendance, AccountAccess, PreferenceForms

\* Two washing machines and a dryer between them, in the states a load goes through.
Appliance(operational, projection, load, remaining) ==
    [operational |-> operational, projection |-> projection, session |-> load,
     remaining |-> remaining, finishAt |-> 1, total |-> 60, observedAt |-> 0,
     estimated |-> TRUE, errorCode |-> None, code |-> None, startedAt |-> None, risk |-> None]
Running == Appliance("RUNNING", "ESTIMATED_RUNNING", 1, 1)
Finished == Appliance("RUNNING", "CONFIRMED_COMPLETED", 1, 0)
Resting == Appliance("IDLE", "IDLE", None, None)
Washer(appliance) == [number |-> 1, id |-> 1, washer |-> appliance, dryer |-> None]
Dryer(appliance) == [number |-> None, id |-> 2, washer |-> None, dryer |-> appliance]
LaundrySnapshot(machines, freshness, age) ==
    [machines |-> machines, collectorHealthy |-> TRUE, collection |-> "SUCCESS",
     freshness |-> freshness, asOf |-> age, capacity |-> [men |-> 1, women |-> None]]
LaundrySnapshots ==
    {LaundrySnapshot(<<Dryer(Resting), Washer(Running)>>, "REFRESH_OBSERVED", 0),
     LaundrySnapshot(<<Washer(Finished)>>, "WITHIN_REFRESH_WINDOW", 0),
     LaundrySnapshot(<<Dryer(Running)>>, "REFRESH_OVERDUE", 0),
     LaundrySnapshot(<<>>, "REFRESH_OBSERVED", 3)}

\* Posts of two days, one of them in both lists; a day with four posts.
Post(id, period, titled, published) ==
    [id |-> id, period |-> period, year |-> None, titled |-> titled, published |-> published,
     pictures |-> id % 2, text |-> id = 1]
MealAnswer(daily, recent, weekly) ==
    [daily |-> daily, recent |-> recent, weekly |-> weekly,
     menus |-> {[week |-> 0, pictures |-> 0, text |-> FALSE]}]
MealAnswers ==
    {MealAnswer(<<Post(1, "dinner", 1, None), Post(2, "lunch", None, 1)>>,
                <<Post(2, "lunch", None, 1), Post(3, "breakfast", 0, 0)>>, None),
     MealAnswer(<<Post(4, "lunch", None, 3)>>, <<>>,
                [available |-> TRUE, pictures |-> 1, text |-> FALSE])}
MonthAnswers == {<<Post(5, "dinner", None, 0), Post(6, "lunch", None, 2)>>}

\* A cohort that runs, with a PC.
Cohort(status, start, end) == [status |-> status, start |-> start, end |-> end]
RecordProfiles ==
    {[cohort |-> Cohort("active", 1, 3),
      devices |-> <<[health |-> "online", lms |-> "connected"]>>]}

VARIABLES part, v1, v2, v3, v4, v5, v6, v7, v8, v9
pool == <<v1, v2, v3, v4, v5, v6, v7, v8, v9>>
clientVars == <<part, pool, sessionVars, checkerVars, updateAppVars, vars, updateVars,
                attendanceVars, accountVars, formVars>>

\* The PC signed in to the server or not, with the three states of its LMS session.
Wire(authenticated, resetRequired, persistent, lms) ==
    [authenticated |-> authenticated, resetRequired |-> resetRequired,
     persistent |-> persistent, lms |-> lms]
NativeWires ==
    {Wire(TRUE, FALSE, TRUE, "connected"), Wire(TRUE, FALSE, FALSE, "login-required"),
     Wire(FALSE, FALSE, FALSE, "connected"), Wire(FALSE, TRUE, FALSE, "unknown"),
     Wire(TRUE, FALSE, TRUE, "unknown")}
Reported(sync, lms) == [state |-> sync, persistent |-> TRUE, lms |-> lms]
PcReports ==
    {Reported("connected", "connected"), Reported("connected", "login-required"),
     Reported("disconnected", "connected"), Reported("reset-required", "unknown")}

Laundry == INSTANCE LaundryPage WITH
    Snapshots <- LaundrySnapshots, StaleTime <- 0, SnapshotGrace <- 1,
    Conditions <- {<<"before-completion", 0>>}, Accounts <- {"pending", "ready"},
    MaxLaundryTime <- 1, now <- v1, online <- v2, laundry <- v3, refresh <- v4,
    personal <- v5, choice <- v6, watches <- v7, listed <- v8, request <- v9

Meals == INSTANCE MealPages WITH
    YearDays <- 5, MonthDays <- 2, MaxDay <- 2, MealSnapshots <- MealAnswers,
    MonthPosts <- MonthAnswers, day <- v1, connected <- v2, meals <- v3, reload <- v4,
    todays <- v5, history <- v6

Pages == INSTANCE AttendancePages WITH
    DayTicks <- 3, DayStart <- 1, ExpiresAfter <- 1, MaxPeriodDays <- 5,
    LastInstant <- 4, Profiles <- RecordProfiles, PcStates <- PcReports, client <- v1,
    instant <- v2, account <- v3, attendance <- v4, refreshes <- v5

--------------------------------------------------------------------------------
\* Variables a part has no use for stay None.
PoolInit ==
    \/ part = "laundry" /\ Laundry!LaundryInit
    \/ part = "meals" /\ Meals!MealInit /\ v7 = None /\ v8 = None /\ v9 = None
    \/ part = "attendance pages" /\ Pages!PagesInit
         /\ v6 = None /\ v7 = None /\ v8 = None /\ v9 = None
    \/ part \in {"session", "checker", "updater", "push registration", "pwa update",
                 "attendance", "account", "forms"}
         /\ v1 = None /\ v2 = None /\ v3 = None /\ v4 = None /\ v5 = None /\ v6 = None
         /\ v7 = None /\ v8 = None /\ v9 = None

\* Each part starts in any of its initial states, the others in one of theirs.
ClientInit ==
    /\ PoolInit /\ SessionInit /\ CheckerInit /\ UpdateAppInit /\ Init /\ UpdateInit
    /\ AttendanceInit /\ AccountInit /\ FormInit
    /\ part # "checker" => signedIn
    /\ part # "updater" => feed = 0
    /\ part # "push registration" => record = None
    /\ part # "pwa update" => ~controlled /\ With("activated") = {}
    /\ part # "account" => surface = "web" /\ remote = Null
    /\ part # "forms" => form = "meals"

PoolNext ==
    \/ part = "laundry" /\ Laundry!LaundryNext
    \/ part = "meals" /\ UNCHANGED <<v7, v8, v9>> /\ Meals!MealNext
    \/ part = "attendance pages" /\ UNCHANGED <<v6, v7, v8, v9>> /\ Pages!PagesNext

\* What stands still is said first: TLC works it out once for a state, not for every step.
ClientNext ==
    \/ /\ part \in {"laundry", "meals", "attendance pages"}
       /\ UNCHANGED <<part, sessionVars, checkerVars, updateAppVars, vars, updateVars,
                       attendanceVars, accountVars, formVars>>
       /\ PoolNext
    \/ /\ part = "session"
       /\ UNCHANGED <<part, pool, checkerVars, updateAppVars, vars, updateVars,
                       attendanceVars, accountVars, formVars>>
       /\ SessionNext
    \/ /\ part = "checker"
       /\ UNCHANGED <<part, pool, sessionVars, updateAppVars, vars, updateVars,
                       attendanceVars, accountVars, formVars>>
       /\ CheckerNext
    \/ /\ part = "updater"
       /\ UNCHANGED <<part, pool, sessionVars, checkerVars, vars, updateVars,
                       attendanceVars, accountVars, formVars>>
       /\ UpdateAppNext
    \/ /\ part = "push registration"
       /\ UNCHANGED <<part, pool, sessionVars, checkerVars, updateAppVars, updateVars,
                       attendanceVars, accountVars, formVars>>
       /\ Next
    \/ /\ part = "pwa update"
       /\ UNCHANGED <<part, pool, sessionVars, checkerVars, updateAppVars, vars,
                       attendanceVars, accountVars, formVars>>
       /\ UpdateNext
    \/ /\ part = "attendance"
       /\ UNCHANGED <<part, pool, sessionVars, checkerVars, updateAppVars, vars,
                       updateVars, accountVars, formVars>>
       /\ AttendanceNext
    \/ /\ part = "account"
       /\ UNCHANGED <<part, pool, sessionVars, checkerVars, updateAppVars, vars,
                       updateVars, attendanceVars, formVars>>
       /\ AccountNext
    \/ /\ part = "forms"
       /\ UNCHANGED <<part, pool, sessionVars, checkerVars, updateAppVars, vars,
                       updateVars, attendanceVars, accountVars>>
       /\ FormNext

ClientSpec == ClientInit /\ [][ClientNext]_clientVars

ASSUME Parameters == Pages!AttendancePagesAssumption

\* For cohorts of any status and length, on any day: the calendar's days add up, and
\* the label beside it counts the days the calendar calls remaining.
ASSUME CountdownAgreesWithCalendar ==
    \A status \in {"upcoming", "active", "ended"}, start, end, today \in 0..7 :
        LET cohort == Cohort(status, start, end)
            progress == Pages!DdayProgress(Pages!DdayPeriod(cohort), today)
            label == Pages!DdayLabel(cohort, today)
        IN  start <= end /\ progress # None =>
              /\ progress.percent \in 0..1000
              /\ progress.elapsed + progress.current + progress.remaining = progress.total
              /\ label.to = "end" => label.days = progress.remaining
              /\ label.to = "over" /\ status # "ended" => progress.elapsed = progress.total

--------------------------------------------------------------------------------
\* The properties are defined and described in the parts' modules; what an extended
\* module states is checked under its own name.

(* Each part's variables stay within the values its code can hold.          *)
ClientTypeOK ==
    /\ part = "session" => SessionTypeOK
    /\ part = "checker" => CheckerTypeOK
    /\ part = "updater" => UpdateAppTypeOK
    /\ part = "push registration" => TypeOK
    /\ part = "pwa update" => UpdateTypeOK
    /\ part = "attendance" => AttendanceTypeOK
    /\ part = "account" => AccountTypeOK
    /\ part = "forms" => FormTypeOK
    /\ part = "laundry" => Laundry!LaundryTypeOK
    /\ part = "meals" => Meals!MealTypeOK
    /\ part = "attendance pages" => Pages!PagesTypeOK

(* What a page offers or shows agrees with the data and with the other pages *)
(* that show the same: a watch is offered on a running load only, history is *)
(* of past days, home and its detail pages name the same meals and the same  *)
(* attendance, a refresh that is offered is not refused, and a record called *)
(* synchronised is on the server.                                            *)
PagesTellTheTruth ==
    /\ SyncedIsStored
    /\ part = "laundry" => Laundry!WatchOfferIsLive
    /\ part = "meals" => Meals!HistoryIsPast /\ Meals!HomeAgreesWithPage
    /\ part = "attendance pages" => Pages!HomeChecksAreToday /\ Pages!OfferedRefreshIsAccepted
================================================================================
