------------------------------- MODULE AppStatus -------------------------------
(***************************************************************************)
(* The app status page: one row per part of the app, each with one of five *)
(* statuses, computed from the answers the page's queries hold at the      *)
(* moment.  Wording is left out; a moment in time is a number, or Unread   *)
(* where the text of it does not parse.                                    *)
(***************************************************************************)
EXTENDS AccountStates

RowStatus == {"attention", "checking", "error", "ready", "unavailable"}
UpdateStatuses == {"checking", "latest", "optional", "mandatory", "downloading",
                   "verifying", "installing", "restart-required", "failed"}

Row(id, status) == [id |-> id, status |-> status]

\* A value the code does not name falls through to an "unavailable" row.
StatusFrom(table, value) == IF value \in DOMAIN table THEN table[value] ELSE "unavailable"

\* The tab of the connections page a row's button opens; none for the rest.
RowTab(id) ==
    CASE id \in {"lms-authentication", "server-credential", "last-sync", "mobile-sessions",
                 "personal-access", "session-expiry"} -> "devices"
      [] id \in {"os-notification", "notification-permission", "local-push",
                 "server-registration", "last-test", "service-worker"} -> "notifications"
      [] id = "update" -> "services"
      [] OTHER -> None

--------------------------------------------------------------------------------
(* Rows of the PC app. *)

LmsAuthenticationRow(value) == Row("lms-authentication",
    StatusFrom([authenticated |-> "ready", required |-> "attention",
                checking |-> "checking"], value))

ServerCredentialRow(value) == Row("server-credential",
    StatusFrom("stored" :> "ready" @@ "memory-only" :> "attention" @@
               "missing" :> "attention" @@ "recovery-required" :> "error" @@
               "checking" :> "checking", value))

\* value.kind: "checking", "unavailable", "none" (null), "pending", "stale" or "synced"
LastSyncRow(value) == Row("last-sync",
    CASE value.kind = "checking" -> "checking"
      [] value.kind = "unavailable" -> "unavailable"
      [] value.kind \in {"none", "stale", "pending"} -> "attention"
      [] value.at = Unread -> "unavailable"
      [] OTHER -> "ready")

\* value: "checking", "unavailable", "0" or "some"
MobileSessionsRow(value) == Row("mobile-sessions",
    CASE value \in {"checking", "unavailable"} -> value
      [] value = "0" -> "attention"
      [] OTHER -> "ready")

\* value: "checking", "error", None or the state of the last test
TestStatus(value) ==
    CASE value = None -> "attention"
      [] value = "arrived" -> "ready"
      [] value \in {"checking", "test-sending"} -> "checking"
      [] OTHER -> "error"
DesktopNotificationRow(value) == Row("os-notification", TestStatus(value))

\* value: [state, queryStatus]
DesktopUpdateRow(value) == Row("update",
    CASE value.state = None -> StatusFrom([checking |-> "checking", error |-> "error"],
                                          value.queryStatus)
      [] value.queryStatus = "error" -> "error"
      [] value.queryStatus = "stale" -> "attention"
      [] OTHER -> StatusFrom("checking" :> "checking" @@ "latest" :> "ready" @@
                      "optional" :> "attention" @@ "mandatory" :> "attention" @@
                      "downloading" :> "checking" @@ "verifying" :> "checking" @@
                      "installing" :> "checking" @@ "restart-required" :> "attention" @@
                      "failed" :> "error", value.state))

DesktopRows(input) ==
    <<LmsAuthenticationRow(input.lmsAuthentication), ServerCredentialRow(input.serverSession),
      LastSyncRow(input.lastSyncedAt), MobileSessionsRow(input.mobileSessionCount),
      DesktopNotificationRow(input.osNotification), DesktopUpdateRow(input.update)>>

--------------------------------------------------------------------------------
(* Rows of the PWA. *)

PersonalAccessRow(authentication) == Row("personal-access",
    CASE authentication = "authenticated" -> "ready"
      [] authentication \in {"checking", "recovering"} -> "checking"
      [] authentication \in {"first-connect", "expired"} -> "attention"
      [] OTHER -> "error")

\* value.kind: "checking", "unavailable", "none" or "until" the time the session ends
SessionExpiryRow(value, now) == Row("session-expiry",
    IF value.kind \in {"checking", "unavailable"} THEN value.kind
    ELSE IF value.kind = "none" THEN "attention"
    ELSE IF value.at = Unread THEN "unavailable"
    ELSE IF value.at <= now THEN "attention" ELSE "ready")

NotificationPermissionRow(value) == Row("notification-permission",
    CASE value = "granted" -> "ready"
      [] value \in {"denied", "default"} -> "attention"
      [] OTHER -> "error")

\* A lifecycle is [status, evidence]: evidence when this page life saw the
\* server's answer to the registration itself.
ServerVerified(lifecycle) == lifecycle.status = "matched-registered" /\ lifecycle.evidence

LocalPushRow(lifecycle) == Row("local-push",
    CASE lifecycle.status = "checking" -> "checking"
      [] lifecycle.status \in {"matched-registered", "matched-registration-unverified",
                               "matched-server-removed", "local-only"} ->
             IF ServerVerified(lifecycle) THEN "ready" ELSE "attention"
      [] lifecycle.status \in {"none", "record-only"} -> "attention"
      [] OTHER -> "error")

ServerRegistrationRowOnTrust(lifecycle) == Row("server-registration",
    IF lifecycle.status \in {"matched-registered", "matched-registration-unverified"}
    THEN "ready" ELSE "attention")
ServerRegistrationRow(lifecycle) == Row("server-registration",
    CASE lifecycle.status = "checking" -> "checking"
      [] ServerVerified(lifecycle) /\ lifecycle.id # None -> "ready"
      [] lifecycle.status \in {"matched-registered", "matched-registration-unverified",
             "matched-server-removed", "local-only", "none", "record-only"} -> "attention"
      [] OTHER -> "error")

LastTestRow(value) == Row("last-test", TestStatus(value))

ServiceWorkerRow(value) == Row("service-worker",
    CASE value = "checking" -> "checking"
      [] value = "active" -> "ready"
      [] value \in {"installing", "waiting"} -> "checking"
      [] value = "missing" -> "attention"
      [] OTHER -> "error")

PwaRows(input, now) ==
    <<PersonalAccessRow(input.authentication), SessionExpiryRow(input.sessionExpiresAt, now),
      NotificationPermissionRow(input.notificationPermission), LocalPushRow(input.lifecycle),
      ServerRegistrationRow(input.lifecycle), LastTestRow(input.lastTest),
      ServiceWorkerRow(input.serviceWorker)>>

\* Rows of the plain web page.
WebRows(installSupported, installed) ==
    <<Row("public-access", "ready"),
      Row("install-support", IF installSupported THEN "ready" ELSE "attention"),
      Row("installation", IF installed THEN "ready" ELSE "attention")>>

Warns(row) == row.status \in {"attention", "error"}
WarningCount(rows) == Cardinality({i \in DOMAIN rows : Warns(rows[i])})

--------------------------------------------------------------------------------
(* What the rows are fed with: the queries of the page, each a record       *)
(* [data, isError, isPending, ...]; data is None while there is none.       *)

AuthenticationStateFromProducer(access, query) ==
    IF query.paused THEN "offline"
    ELSE IF query.isError THEN "server-error"
    ELSE IF query.data # None /\ query.isFetching THEN "recovering"
    ELSE CASE access.status = "checking" ->
                IF access.reason = "refreshing" THEN "recovering" ELSE "checking"
           [] access.status = "connected" -> "authenticated"
           [] access.status = "unconnected" ->
                IF access.reason \in {"first-connect", "expired"} THEN access.reason
                ELSE "recovering"
           [] access.status = "error" -> access.reason
           [] OTHER -> "first-connect"

DesktopUpdateObservation(query) ==
    [state |-> query.data,
     queryStatus |-> CASE query.isError -> "error"
                       [] query.data # None -> IF query.isStale THEN "stale" ELSE "fresh"
                       [] query.isPending -> "checking"
                       [] OTHER -> "unavailable"]

PushStateFromRuntime(permission, lifecycle, lastTest) ==
    CASE permission = "unsupported" -> "unsupported"
      [] permission = "denied" -> "denied"
      [] permission = "default" -> "permission-default"
      [] ServerVerified(lifecycle) -> IF lastTest = None THEN "registered-server" ELSE lastTest
      [] lifecycle.status \in {"matched-registration-unverified", "matched-server-removed",
                               "local-only"} -> "subscribed-local"
      [] OTHER -> "error"

\* The attendance the server or this PC saw last: [available, at, pending, stale]
DesktopLastSyncedAtForgiving(connected, query) ==
    IF query.data = None THEN [kind |-> IF query.isPending THEN "checking" ELSE "none"]
    ELSE [kind |-> "synced", at |-> query.data.at]
DesktopLastSyncedAt(connected, query) ==
    LET value == query.data
        degraded == query.isError \/ ~connected
    IN CASE degraded -> IF value # None /\ value.available
                        THEN [kind |-> "stale", at |-> value.at]
                        ELSE [kind |-> "unavailable"]
         [] value = None -> [kind |-> IF query.isPending THEN "checking" ELSE "none"]
         [] ~value.available -> IF value.at = None THEN [kind |-> "none"]
                                ELSE [kind |-> "synced", at |-> value.at]
         [] value.pending -> [kind |-> "pending", at |-> value.at]
         [] value.stale -> [kind |-> "stale", at |-> value.at]
         [] OTHER -> [kind |-> "synced", at |-> value.at]

\* query.data: None or the number of active sessions, "0" or "some"
DesktopMobileSessionCount(personalReady, query) ==
    CASE ~personalReady \/ query.isError -> "unavailable"
      [] query.data # None -> query.data
      [] query.isPending -> "checking"
      [] OTHER -> "unavailable"

\* The row of a stored test: of this kind of app only.
TestShown(query, surface) ==
    CASE query.isPending -> "checking"
      [] query.isError -> "error"
      [] query.data = None \/ query.surface # surface -> None
      [] OTHER -> query.data

Producers == [connection |-> {"lms-authentication", "server-credential"},
              attendance |-> {"last-sync"}, sessions |-> {"mobile-sessions"},
              test |-> {"os-notification"}, update |-> {"update"}]

\* queries: one record per producer
DesktopInput(queries) ==
    LET account == DashboardAccountStatus("desktop", queries.connection)
        access == PersonalAccessState("desktop-session", account)
        ready == LmsAuthenticated(account) /\ ServerSessionReady(account)
    IN [lmsAuthentication |-> account.lms, serverSession |-> account.server,
        lastSyncedAt |-> DesktopLastSyncedAt(access.status = "connected", queries.attendance),
        mobileSessionCount |-> DesktopMobileSessionCount(ready, queries.sessions),
        osNotification |-> TestShown(queries.test, "pc"),
        update |-> DesktopUpdateObservation(queries.update)]

FailedProducers(queries) == {p \in DOMAIN Producers : queries[p].isError}

\* Rows that warn, and failures none of whose rows does.
DesktopWarningCountRowsOnly(rows, failures) == WarningCount(rows)
DesktopWarningCount(rows, failures) ==
    LET warning == {rows[i].id : i \in {j \in DOMAIN rows : Warns(rows[j])}}
    IN Cardinality(warning) + Cardinality({p \in failures : Producers[p] \cap warning = {}})

\* The panel over the rows: its retry asks the failed producers only, and not
\* while one of them is being asked.
RefreshFailure(queries) ==
    LET failures == FailedProducers(queries)
    IN [shown |-> failures # {},
        retryOffered |-> failures # {} /\ \A p \in failures : ~queries[p].isFetching,
        cached |-> \E p \in failures : queries[p].data # None]

DesktopStatus(queries) ==
    LET rows == DesktopRows(DesktopInput(queries))
    IN [rows |-> rows, failure |-> RefreshFailure(queries),
        warningCount |-> DesktopWarningCount(rows, FailedProducers(queries))]

PwaSessionExpiry(access, data) ==
    IF data \notin {None, Null} THEN [kind |-> "until", at |-> data]
    ELSE CASE access.status = "checking" -> [kind |-> "checking"]
           [] access.status = "unconnected" -> [kind |-> "none"]
           [] OTHER -> [kind |-> "unavailable"]

LifecycleObservation(query) ==
    CASE query.isError -> [status |-> "error", evidence |-> FALSE, id |-> None]
      [] query.data = None -> [status |-> IF query.isPending THEN "checking" ELSE "error",
                               evidence |-> FALSE, id |-> None]
      [] OTHER -> query.data

PwaStatus(access, session, permission, queries, now) ==
    LET rows == PwaRows([authentication |-> AuthenticationStateFromProducer(access, session),
                  sessionExpiresAt |-> PwaSessionExpiry(access, session.data),
                  notificationPermission |-> permission,
                  lifecycle |-> LifecycleObservation(queries.lifecycle),
                  lastTest |-> TestShown(queries.test, "pwa"),
                  serviceWorker |-> IF queries.worker.isPending THEN "checking"
                                    ELSE IF queries.worker.data = None THEN "error"
                                    ELSE queries.worker.data], now)
    IN [rows |-> rows, warningCount |-> WarningCount(rows)]

--------------------------------------------------------------------------------
StatusOf(rows, id) == rows[CHOOSE i \in DOMAIN rows : rows[i].id = id].status

(* A status whose query failed is never called ready from what was cached   *)
(* before, and every failed query raises the warning count of the tab.      *)
FailuresAreShown(queries, screen) ==
    /\ \A p \in FailedProducers(queries) : \A id \in Producers[p] :
           StatusOf(screen.rows, id) # "ready"
    /\ screen.warningCount >= Cardinality(FailedProducers(queries))

(* Push is shown ready on the server's word only: the registration row is   *)
(* ready for a registration this page saw answered, and then the local one  *)
(* is ready too.                                                            *)
PushReadyIsVerified(queries, screen) ==
    StatusOf(screen.rows, "server-registration") = "ready" =>
        /\ StatusOf(screen.rows, "local-push") = "ready"
        /\ queries.lifecycle.data # None /\ ServerVerified(queries.lifecycle.data)
================================================================================
