----------------------------- MODULE AccountAccess -----------------------------
(***************************************************************************)
(* The account as one window of the client lives with it: the query that   *)
(* watches it, the clock that ends a session, the evidence that there was   *)
(* one, the wait for the PC's checker, and the gate in front of the         *)
(* personal pages.  `surface' says which client this is: the plain web     *)
(* page, the PWA with its cookie, or the PC app.                           *)
(***************************************************************************)
EXTENDS AppStatus

CONSTANTS
    MaxTicks,          \* bound: ticks of the wall clock
    Life,              \* length of a mobile session, in ticks
    MaxDelay,          \* longest timer of the browser (setTimeout's 32 bits)
    Asked,             \* a request the other side has not looked at yet
    WaitLimit,         \* ticks until the wait for the checker is called late
    MaxRetries,        \* bound: retries of that wait
    Natives            \* the states of the PC it may come to report, of NativeStates

VARIABLES
    surface,           \* "web", "pwa" or "pc"
    time,              \* the wall clock
    remote,            \* the server's end of this browser's session, Null if revoked
    sessionQuery,      \* browserSessionQuery: [data, isError, paused, updatedAt, ask]
    clock,             \* currentTime of useSessionExpiryClock
    timer,             \* when its timeout is due, or None
    evidence,          \* cookieSessionEvidence
    confirmed,         \* history: has this page life seen the session connected?
    native,            \* what the native side would answer
    connection,        \* connectionQuery: [data, isError, ask]
    wait,              \* checkerWait: [attempt, timedOut]
    waiting,           \* since when its timeout runs, or None
    login              \* the login mutation: "idle", "pending" or "error"

web == <<remote, sessionQuery, clock, timer, evidence, confirmed>>
pc == <<native, connection, wait, waiting, login>>
accountVars == <<surface, time, web, pc>>

\* A query's `ask' is None, Asked, or the answer on its way back.
Fetching(query) == query.ask # None
LmsStates == {"unknown", "connected", "login-required"}
NativeStates ==
    {wire \in [authenticated: BOOLEAN, resetRequired: BOOLEAN, persistent: BOOLEAN,
               lms: LmsStates] :
        (wire.persistent => wire.authenticated) /\ (wire.resetRequired => ~wire.authenticated)}

\* What the queries hold: the end of a session, and what the PC says of itself.
SessionEnds == 0..(MaxTicks + Life)
SessionAnswers == [end : SessionEnds \union {Null}]
Evidence == [expiresAt : SessionEnds, at : 0..MaxTicks]
Connections == [state : {"connected", "disconnected", "reset-required"}, persistent : BOOLEAN,
                lms : LmsStates]

ASSUME AccountAccessAssumption ==
    /\ {MaxTicks, Life, MaxDelay, WaitLimit, MaxRetries} \subseteq Nat
    /\ Life > 0 /\ MaxDelay > 0 /\ WaitLimit > 0 /\ Natives \subseteq NativeStates
    /\ None # Null /\ None # Asked
    /\ \A special \in {None, Null, Asked} :
           /\ special \notin Nat /\ special \notin SessionAnswers /\ special \notin Evidence
           /\ special \notin NativeStates /\ special \notin Connections

EarlierOf(a, b) == IF a < b THEN a ELSE b
LaterOf(a, b) == IF a > b THEN a ELSE b

--------------------------------------------------------------------------------
(* What is derived from the queries on every render. *)

CookieTransition(query, now, previous) ==
    TransitionCookieSessionAccess(previous, BrowserSessionObservation(query),
                                  LaterOf(now, query.updatedAt))

AccountStatus == DashboardAccountStatus(IF surface = "pc" THEN "desktop" ELSE "browser",
                                        connection)
PersonalAccess ==
    CASE surface = "pwa" -> CookieTransition(sessionQuery, clock, evidence).state
      [] surface = "pc" -> PersonalAccessState("desktop-session", AccountStatus)
      [] OTHER -> PersonalAccessState("none", AccountStatus)

Open == PersonalAccess.status = "connected"

\* The effect of useSessionExpiryClock: a timeout to the end of the session, or as
\* far as one timeout reaches; none without a session or once the clock passed it.
ArmedOnce(data, now) ==
    IF data \in {None, Null} \/ now >= data \/ timer # None THEN None
    ELSE time + EarlierOf(LaterOf(data, time) - time, MaxDelay)
Armed(data, now) ==
    IF data \in {None, Null} THEN None
    ELSE IF now >= data THEN None
    ELSE time + EarlierOf(LaterOf(data, time) - time, MaxDelay)

\* A render with another session query or clock: evidence and timeout follow.
Render(query, now) ==
    LET transition == CookieTransition(query, now, evidence)
    IN /\ sessionQuery' = query /\ clock' = now
       /\ evidence' = transition.evidence
       /\ timer' = IF query.data # sessionQuery.data \/ now # clock THEN Armed(query.data, now)
                   ELSE timer
       /\ confirmed' = (confirmed \/ transition.state.status = "connected")

\* The wait's effect: its timeout runs while the PC account is being checked, afresh
\* after a retry, and is over with the check.
Checking(query) ==
    PersonalAccessState("desktop-session", DashboardAccountStatus("desktop", query)).status
        = "checking"
RenderPc(query, next) ==
    /\ connection' = query
    /\ IF Checking(query)
       THEN /\ wait' = next
            /\ waiting' = IF waiting = None \/ next.attempt # wait.attempt THEN time ELSE waiting
       ELSE /\ wait' = CheckerWaitTransition(next, [type |-> "resolved"])
            /\ waiting' = None

--------------------------------------------------------------------------------
(* The gate: which panel stands in for the page, and what it offers. *)

Panel(title, actions) == [title |-> title, actions |-> actions \union {"home"}]

WebPersonalGate == Panel("install-required", {"install"})

BrowserPersonalGate(access) ==
    IF access.status = "checking" THEN Panel("checking", {"devices"})
    ELSE IF access.status = "error" THEN Panel(access.reason, {"retry", "devices"})
    ELSE Panel(IF access.reason = "expired" THEN "expired" ELSE "first-connect", {"devices"})

DesktopCheckingGate(kind, timedOut) ==
    IF timedOut THEN Panel("late", {"retry", "login"})
    ELSE Panel("checking", IF kind = "lms" THEN {"login"} ELSE {})

DesktopLmsGate(status, timedOut) ==
    CASE status = "checking" -> DesktopCheckingGate("lms", timedOut)
      [] status = "required" -> Panel("login-required", {"login"})
      [] OTHER -> Panel("failed", {"retry", "login"})

DesktopServerGate(status, timedOut) ==
    CASE status = "checking" -> DesktopCheckingGate("server", timedOut)
      [] status = "recovery-required" -> Panel("recovery-required", {"devices"})
      [] status = "missing" -> Panel("connection-required", {"connect"})
      [] OTHER -> Panel("failed", {"retry", "devices"})

PersonalGate ==
    IF Open THEN Panel("children", {})
    ELSE IF surface = "web" THEN WebPersonalGate
    ELSE IF surface = "pwa" THEN BrowserPersonalGate(PersonalAccess)
    ELSE IF AccountStatus.lms # "authenticated"
    THEN DesktopLmsGate(AccountStatus.lms, wait.timedOut)
    ELSE DesktopServerGate(AccountStatus.server, wait.timedOut)

GateOffers(action) == action \in PersonalGate.actions

--------------------------------------------------------------------------------
AccountTick ==
    /\ time < MaxTicks
    /\ time' = time + 1
    /\ UNCHANGED <<surface, web, pc>>

(* The PWA's session. *)

ExpiryTimer ==
    /\ surface = "pwa" /\ timer # None /\ timer <= time
    /\ Render(sessionQuery, time)
    /\ UNCHANGED <<surface, time, remote, pc>>

\* Started by the interval, the focus, an invalidation or the retry button; without a
\* network the request waits and the query is paused.
AskSession(online) ==
    /\ surface = "pwa" /\ ~Fetching(sessionQuery)
    /\ Render([sessionQuery EXCEPT !.ask = Asked, !.paused = ~online,
                              !.isError = sessionQuery.isError /\ sessionQuery.data # None], clock)
    /\ UNCHANGED <<surface, time, remote, pc>>

ResumeSession ==
    /\ surface = "pwa" /\ sessionQuery.paused
    /\ Render([sessionQuery EXCEPT !.paused = FALSE], clock)
    /\ UNCHANGED <<surface, time, remote, pc>>

\* The server's answer: the session's end, or null for a 401.
SessionRead ==
    /\ surface = "pwa" /\ sessionQuery.ask = Asked /\ ~sessionQuery.paused
    /\ sessionQuery' = [sessionQuery EXCEPT !.ask = IF remote = Null THEN [end |-> Null]
                                          ELSE IF remote <= time THEN [end |-> Null]
                                          ELSE [end |-> remote]]
    /\ UNCHANGED <<surface, time, remote, clock, timer, evidence, confirmed, pc>>

SessionAnswered ==
    /\ surface = "pwa" /\ Fetching(sessionQuery) /\ sessionQuery.ask # Asked
    /\ Render([sessionQuery EXCEPT !.data = sessionQuery.ask.end, !.isError = FALSE, !.ask = None,
                              !.updatedAt = time], clock)
    /\ UNCHANGED <<surface, time, remote, pc>>

SessionFailed ==
    /\ surface = "pwa" /\ Fetching(sessionQuery) /\ ~sessionQuery.paused
    /\ Render([sessionQuery EXCEPT !.isError = TRUE, !.ask = None, !.updatedAt = time], clock)
    /\ UNCHANGED <<surface, time, remote, pc>>

\* The session ends elsewhere, or this PWA is paired again.
RemoteChanges ==
    /\ surface = "pwa"
    /\ remote' \in {Null, time + Life}
    /\ UNCHANGED <<surface, time, sessionQuery, clock, timer, evidence, confirmed, pc>>

\* removeBrowserPersonalQueries, once the server has ended the session.
DisconnectBrowser ==
    /\ surface = "pwa" /\ sessionQuery.data \notin {None, Null}
    /\ remote' = Null
    /\ Render([sessionQuery EXCEPT !.data = Null, !.isError = FALSE, !.updatedAt = time], clock)
    /\ UNCHANGED <<surface, time, pc>>

(* The PC's connection. *)

NativeChanges ==
    /\ surface = "pc"
    /\ native' \in Natives \ {native}
    /\ UNCHANGED <<surface, time, web, connection, wait, waiting, login>>

\* An LMS event changes the cached answer, or has the query asked when there is none.
LmsEvent ==
    /\ surface = "pc"
    /\ IF connection.data # None
       THEN RenderPc([connection EXCEPT !.data = WithLmsSessionState(connection.data, native.lms),
                                        !.isError = FALSE], wait)
       ELSE RenderPc([connection EXCEPT !.ask = IF Fetching(connection) THEN @ ELSE Asked,
                                        !.isError = FALSE], wait)
    /\ UNCHANGED <<surface, time, web, native, login>>

AskConnection ==
    /\ surface = "pc" /\ ~Fetching(connection)
    /\ RenderPc([connection EXCEPT !.ask = Asked,
                    !.isError = connection.isError /\ connection.data # None], wait)
    /\ UNCHANGED <<surface, time, web, native, login>>

\* The native side reads the LMS state before it waits for its locks.
ConnectionRead ==
    /\ surface = "pc" /\ connection.ask = Asked
    /\ connection' = [connection EXCEPT !.ask = native]
    /\ UNCHANGED <<surface, time, web, native, wait, waiting, login>>

ConnectionAnswered ==
    /\ surface = "pc" /\ Fetching(connection) /\ connection.ask # Asked
    /\ RenderPc([data |-> ParseDesktopConnection(connection.ask), isError |-> FALSE,
                 ask |-> None], wait)
    /\ UNCHANGED <<surface, time, web, native, login>>

ConnectionFailed ==
    /\ surface = "pc" /\ Fetching(connection)
    /\ RenderPc([connection EXCEPT !.isError = TRUE, !.ask = None], wait)
    /\ UNCHANGED <<surface, time, web, native, login>>

WaitTimeout ==
    /\ surface = "pc" /\ waiting # None /\ time >= waiting + WaitLimit /\ ~wait.timedOut
    /\ RenderPc(connection,
                CheckerWaitTransition(wait, [type |-> "timeout", attempt |-> wait.attempt]))
    /\ UNCHANGED <<surface, time, web, native, login>>

\* The retry button: a new wait, and the query is asked unless it is already.
RetryDesktop ==
    /\ surface = "pc" /\ GateOffers("retry") /\ ~Fetching(connection) /\ wait.attempt < MaxRetries
    /\ RenderPc([connection EXCEPT !.ask = Asked,
                    !.isError = connection.isError /\ connection.data # None],
                CheckerWaitTransition(wait, [type |-> "retry"]))
    /\ UNCHANGED <<surface, time, web, native, login>>

OpenLogin ==
    /\ surface = "pc" /\ GateOffers("login") /\ login # "pending"
    /\ login' = "pending"
    /\ UNCHANGED <<surface, time, web, native, connection, wait, waiting>>

LoginOpened ==
    /\ surface = "pc" /\ login = "pending"
    /\ login' \in {"idle", "error"}
    /\ UNCHANGED <<surface, time, web, native, connection, wait, waiting>>

--------------------------------------------------------------------------------
AccountInit ==
    /\ surface \in {"web", "pwa", "pc"}
    /\ time = 0 /\ clock = 0
    /\ remote \in {Null, Life}
    /\ sessionQuery = [data |-> None, isError |-> FALSE, paused |-> FALSE, updatedAt |-> 0,
                  ask |-> IF surface = "pwa" THEN Asked ELSE None]
    /\ timer = None /\ evidence = None /\ confirmed = FALSE
    /\ native = [authenticated |-> FALSE, resetRequired |-> FALSE, persistent |-> FALSE,
                 lms |-> "unknown"]
    /\ connection = [data |-> None, isError |-> FALSE,
                     ask |-> IF surface = "pc" THEN Asked ELSE None]
    /\ wait = [attempt |-> 0, timedOut |-> FALSE]
    /\ waiting = IF surface = "pc" THEN 0 ELSE None
    /\ login = "idle"

AccountNext ==
    \/ AccountTick \/ ExpiryTimer \/ \E online \in BOOLEAN : AskSession(online)
    \/ ResumeSession \/ SessionRead \/ SessionAnswered \/ SessionFailed \/ RemoteChanges
    \/ DisconnectBrowser
    \/ NativeChanges \/ LmsEvent \/ AskConnection \/ ConnectionRead \/ ConnectionAnswered
    \/ ConnectionFailed \/ WaitTimeout \/ RetryDesktop \/ OpenLogin \/ LoginOpened

AccountSpec == AccountInit /\ [][AccountNext]_accountVars

--------------------------------------------------------------------------------
SessionQueries == [data : SessionEnds \union {None, Null}, isError : BOOLEAN, paused : BOOLEAN,
                   updatedAt : 0..MaxTicks, ask : SessionAnswers \union {None, Asked}]
ConnectionQueries == [data : Connections \union {None}, isError : BOOLEAN,
                      ask : NativeStates \union {None, Asked}]

(* Every variable stays within the values the code can hold.                *)
AccountTypeOK ==
    /\ surface \in {"web", "pwa", "pc"} /\ time \in 0..MaxTicks /\ clock \in 0..time
    /\ timer \in 0..(MaxTicks + Life) \union {None}
    /\ remote \in SessionEnds \union {Null} /\ confirmed \in BOOLEAN
    /\ sessionQuery \in SessionQueries /\ sessionQuery.updatedAt <= time
    /\ evidence \in Evidence \union {None}
    /\ evidence = None \/ evidence.expiresAt > evidence.at
    /\ wait \in [attempt : 0..MaxRetries, timedOut : BOOLEAN]
    /\ waiting \in 0..time \union {None}
    /\ native \in NativeStates /\ login \in {"idle", "pending", "error"}
    /\ connection \in ConnectionQueries

(* Personal pages never outlive their session unnoticed: while the gate is  *)
(* open past the session's end, the timeout that closes it is already due,  *)
(* for sessions longer than one timeout can reach as well; and a page that  *)
(* was connected calls a missing session expired, not a first connection.   *)
SessionEndCloses ==
    surface = "pwa" =>
        /\ Open /\ sessionQuery.data <= time => timer # None /\ timer <= time
        /\ confirmed => PersonalAccess.reason # "first-connect"

(* The status page and the gate agree: an account shown as connected is one *)
(* whose personal pages are open, and a session shown as running past now   *)
(* has not been answered "missing" or expired by the gate.                  *)
StatusAgreesWithGate ==
    surface = "pwa" =>
        LET shown == AuthenticationStateFromProducer(PersonalAccess,
                         [data |-> sessionQuery.data, isError |-> sessionQuery.isError,
                          paused |-> sessionQuery.paused, isFetching |-> Fetching(sessionQuery)])
            expiry == SessionExpiryRow(PwaSessionExpiry(PersonalAccess, sessionQuery.data), time)
        IN /\ PersonalAccessRow(shown).status = "ready" => Open
           /\ expiry.status = "ready" => PersonalAccess.status \in {"connected", "error"}

(* A closed gate is no dead end: it offers something besides the way home;  *)
(* and it calls the checker late only after the full time, counted from the  *)
(* last retry.                                                              *)
GateLeadsOn ==
    /\ ~Open => PersonalGate.actions \ {"home"} # {}
    /\ wait.timedOut => waiting # None /\ time >= waiting + WaitLimit

(* Status page and gate derive the same account from the same queries, and a *)
(* closed gate always offers something.                                      *)
GateAgreesAndLeadsOn == StatusAgreesWithGate /\ GateLeadsOn
================================================================================
