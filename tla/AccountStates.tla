----------------------------- MODULE AccountStates -----------------------------
(***************************************************************************)
(* What the client concludes about the account from the two queries that   *)
(* watch it: the PC's connection state and the browser's cookie session.   *)
(* Pure; AccountAccess has the clock, the queries and the gate around it.  *)
(***************************************************************************)
EXTENDS NoValue, Naturals, FiniteSets, Sequences, TLC

CONSTANTS Null,        \* null: the server said there is none
          Unread       \* a time that does not parse

LmsStatuses == {"not-applicable", "checking", "authenticated", "required", "unavailable"}
ServerStatuses == {"not-applicable", "checking", "stored", "memory-only", "missing",
                   "recovery-required", "unavailable"}

\* What the native side reports of the PC's connection, as the client reads it.
ParseDesktopConnection(wire) ==
    [state |-> IF wire.resetRequired THEN "reset-required"
               ELSE IF wire.authenticated THEN "connected" ELSE "disconnected",
     persistent |-> wire.persistent, lms |-> wire.lms]

\* query: [data, isError]
DashboardAccountStatus(platform, query) ==
    IF platform # "desktop" THEN [server |-> "not-applicable", lms |-> "not-applicable"]
    ELSE IF query.isError THEN [server |-> "unavailable", lms |-> "unavailable"]
    ELSE IF query.data = None THEN [server |-> "checking", lms |-> "checking"]
    ELSE [server |-> CASE query.data.state = "reset-required" -> "recovery-required"
                       [] query.data.state = "connected" ->
                              IF query.data.persistent THEN "stored" ELSE "memory-only"
                       [] query.data.state = "disconnected" -> "missing"
                       [] OTHER -> "checking",
          lms |-> CASE query.data.lms = "connected" -> "authenticated"
                    [] query.data.lms = "login-required" -> "required"
                    [] OTHER -> "checking"]

LmsAuthenticated(status) == status.lms = "authenticated"
ServerSessionReady(status) == status.server \in {"stored", "memory-only"}

Access(status, reason) == [status |-> status, reason |-> reason]

\* query: [data, isError, paused]; data is None, Null or the end of the session
BrowserSessionObservation(query) ==
    IF query.paused THEN [kind |-> "failed", reason |-> "offline"]
    ELSE IF query.isError THEN [kind |-> "failed", reason |-> "server-error"]
    ELSE IF query.data = None THEN [kind |-> "checking"]
    ELSE IF query.data = Null THEN [kind |-> "missing"]
    ELSE [kind |-> "authenticated", expiresAt |-> query.data]

\* The evidence of the last confirmed session is kept for the life of the page, so
\* that its absence later is an expiry and no first connection.
TransitionCookieSessionAccess(previous, observation, now) ==
    CASE observation.kind = "authenticated" ->
            IF observation.expiresAt <= now
            THEN [state |-> Access("unconnected", "expired"), evidence |-> previous]
            ELSE [state |-> Access("connected", "authenticated"),
                  evidence |-> [expiresAt |-> observation.expiresAt, at |-> now]]
      [] observation.kind = "checking" ->
            [state |-> Access("checking", IF previous = None THEN "initial-check"
                                          ELSE "refreshing"), evidence |-> previous]
      [] observation.kind = "failed" ->
            [state |-> Access("error", observation.reason), evidence |-> previous]
      [] OTHER ->
            [state |-> Access("unconnected", IF previous = None THEN "first-connect"
                                             ELSE "expired"), evidence |-> previous]

\* Where there is no cookie session: the plain web page and the PC app.
PersonalAccessState(authentication, desktop) ==
    IF authentication = "none" THEN Access("not-applicable", "not-applicable")
    ELSE IF "checking" \in {desktop.lms, desktop.server} THEN Access("checking", "initial-check")
    ELSE IF "unavailable" \in {desktop.lms, desktop.server} THEN Access("error", "server-error")
    ELSE IF LmsAuthenticated(desktop) /\ ServerSessionReady(desktop)
    THEN Access("connected", "authenticated")
    ELSE IF desktop.server = "recovery-required" THEN Access("unconnected", "recovery-required")
    ELSE Access("unconnected", IF desktop.lms = "required" THEN "expired" ELSE "first-connect")

\* The wait for the checker, shown as late after a time limit.
CheckerWaitTransitionSticky(wait, action) ==
    CASE action.type = "timeout" /\ action.attempt = wait.attempt ->
             [wait EXCEPT !.timedOut = TRUE]
      [] action.type = "retry" -> [attempt |-> wait.attempt + 1, timedOut |-> FALSE]
      [] OTHER -> wait
CheckerWaitTransition(wait, action) ==
    CASE action.type = "timeout" /\ action.attempt = wait.attempt ->
             [wait EXCEPT !.timedOut = TRUE]
      [] action.type = "retry" -> [attempt |-> wait.attempt + 1, timedOut |-> FALSE]
      [] action.type = "resolved" -> [wait EXCEPT !.timedOut = FALSE]
      [] OTHER -> wait

WithLmsSessionState(current, lms) == [current EXCEPT !.lms = lms]
================================================================================
