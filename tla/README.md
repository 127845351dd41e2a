# Jungle Bell: TLA+ models, checks and proofs

Jungle Bell tells the members of a campus programme about attendance, meals and
laundry. Three programs make it up:

- `server/`: a Kotlin server in two processes over one PostgreSQL database, the
  **API** and the **worker** (`core` holds the domain services and stores of both);
- `desktop/`: a Tauri (Rust) app on the PC, the owner of a user's identity;
- `frontend/`: a React application, shown inside the desktop app and installed as
  a PWA on phones.

This directory holds TLA+ modules that model the parts where order, failure and
concurrency matter, TLC configurations that check them, and proofs. Source paths
below are relative to the repository; in the Kotlin core,
`domain/` stands for `server/core/src/main/kotlin/app/junglebell/server/domain/`.

## 1. Inventory

| Component | State it keeps | Operations | Talks to |
| --- | --- | --- | --- |
| **Web Push queue** (`domain/automation`, `domain/notification`, `worker/automation`) | rows of `notification`, `notification_delivery`, `push_subscription`, `app_session`; per cycle a batch in memory | create and fan out, claim under a lease, send, settle, close inactive, subscribe, revoke, housekeeping | push services (HTTP), browsers, API |
| **Device pairing, server** (`domain/pairing`, `PairingController`) | `pairing_challenge`, mobile `app_session`, cookies it sets | create/replace, status, claim (QR, typed, hand-over), approve, complete | PC card, PWA |
| **Device pairing, PWA and PC card** (`frontend/src/features/connections`) | card (code, shown device, request), PWA phase, persisted pairing, cookies | show, approve, claim, wait, cancel, restart, resume | server |
| **Desktop notification delivery** (`desktop/src/remote_sync.rs`, `notification_service.rs`, `notification_inbox.rs`) | polled batch, inbox file and its memory, identity generation, late main-thread shows | poll, record, show, acknowledge, test notification | server (HTTP), OS, windows |
| **Desktop identity** (`remote_sync/service.rs`, `secure_credential.rs`, `domain/account`) | installation id, credential store, enrolment state, server sessions | register, rotate, invalidate, reset, restart | server |
| **Usage preference, PC** (`remote_sync/service.rs`, `desktop_settings.rs`) | settings file, choice with revisions, server's value | change, upload, adopt, report an opened window | server |
| **Notification planning** (`AutomationEngine.runMinuteCycle`) | maintenance leases, `source_event_id` keys | plan attendance, publish meals, apply laundry watches | store |
| **Laundry watches** | `laundry_watch`, laundry events | start, cancel, attention, resume, complete | planning, collector |
| **Attendance snapshots** | `attendance_snapshot` | upload (monotone in collection time), roll over | PC, planning |
| **Desktop checker** (`desktop/src/checker.rs`, `frontend/src/platform/tauri/checker`) | hidden LMS window, page token, watchdog | load, trigger, check, report, reload, select a cohort | LMS, windows |
| **Desktop updater** (`desktop/src/updater.rs`, `frontend/src/app/desktop-update-*`) | remembered check, marker file, attempts, gate and notice | check, download, defer, install, reconcile | release server, windows |
| **Account, gate and status page** (`frontend/src/state`, `features/app-status`) | session and connection queries, evidence, timer, wait | observe, expire, wait, open, close | server, PC |
| **HTTP session and attendance record in the window** (`frontend/src/platform/tauri`, `state`) | leased token, cached record, refreshes | lease, renew, reset, observe, merge | PC, server |
| **Preference forms** (`features/attendance`, `features/meals`, `features/settings`) | cached value, draft, save, stored draft | load, edit, save, restore | server, PC |
| **Laundry, meals, attendance and home pages** | cached answers, refreshes, choices | refresh, select, watch | server |
| **Desktop scheduler, tray** | schedule, runtime state | schedule, show | checker, windows |
| **Usage records, aggregation** | daily records, aggregates | record, aggregate | PC, PWA, server |
| **Collectors and public data** | raw snapshots, versions, laundry events | collect, normalise, publish | external sites |
| **PWA push registration** (`frontend/src/api/push-*`, `features/notifications`) | browser subscription, record, server row, shown steps | register, test, clean up, disconnect | browser, server |
| **Service worker and its update** (`frontend/src/platform/pwa`) | waiting worker, prepared input | find, offer, activate, reload | browser |
| Controllers, security filters, shell and other pages, observer tool, installers, CI | none or presentation | | |

What makes them hard:

- **several processes over one table.** Workers claim push rows under leases, browsers
  and the PC revoke the targets, housekeeping deletes the rows, and a cycle goes on
  with what it read (`AutomationEngine.kt:268-289`);
- **a read and a later write.** The pairing service looks a challenge up and updates
  it in a second statement, so every pair of requests can overlap;
- **answers that are lost.** The PC acknowledges, the PWA asks again, the worker sends
  again; the server may have done the first one;
- **restarts.** Leases, the inbox file, cookies and the persisted pairing outlive
  the process that wrote them; batches and requests do not;
- **time.** Leases, backoff, expiry of codes, ten-second patience on macOS.

The full list, with the line where each hazard bites and the property that covers
it, is under `hazards` in `PROJECT.json`.

What each component must get right:

- *push queue*: no delivery is lost, reopened or overwritten by a worker that is late;
  attempts are counted exactly; a second push has a known cause; it ends;
- *pairing*: the device on the PC's screen is the one let in, once, and no other;
  a lost answer costs a retry; a wait ends;
- *desktop notifications*: shown once, reported as what happened, nothing of a former
  user, nothing left pending;
- *identity and usage preference*: a late answer never invalidates a newer credential, a
  reset that half fails leaves nothing of two installations mixed, no two requests wait for
  each other, and what counts as synchronised the server has;
- *account and gate*: personal pages close with their session and on time; a closed gate
  leads on; two pages that read the same queries say the same;
- *window, record, forms*: nothing of a former identity is delivered, nothing older is
  shown over something newer, no input is lost or saved over somebody else's change unseen;
- *checker*: a report counts only for the page that was asked, silence is noticed, a choice
  of cohort is followed;
- *app update*: a mandatory block stays until it is taken back, installations at start-up
  are bounded, a blocked window offers a way on;
- *push registration*: no record of a live registration is given up, and a result that is
  reported is true;
- *planning and laundry* (planned): one notification per event although cycles
  overlap, and a watch that fires and closes in step with it;
- *pages*: an offer can be taken, and pages that show the same agree.

## 2. Plan

Most important behaviour first. Modules a theorem is about use no recursive operator, and
each component's proofs are in a module of their own.

| # | Module | Abstract specification | Status |
| --- | --- | --- | --- |
| 1 | `PushDelivery` | `DeliveryContract` | modelled, checked, proved |
| 2 | `Pairing` | `DeviceAccess` | modelled, checked, proved |
| 3 | `DesktopNotify` | `DeliveryContract` | modelled, checked, proved |
| 4 | `PushRegistration` | | modelled with flows in flight together, checked, proved |
| 5 | `AccountStates`, `AppStatus`, `AccountAccess`; `DesktopSession`, `DesktopAttendance`; `PwaUpdate`; `PreferenceForms`; `AttendanceChecker`; `DesktopUpdate`; `CampusQuery`, `LaundryPage`, `MealPages`, `AttendancePages` | | modelled, checked together by `MCClient`; all but the last four proved |
| 6 | `DesktopIdentity`, with the PC's usage preference | | modelled, checked, proved |
| 7 | `LaundryWatch` and `MinuteCycle`: overlapping cycles, planning keys, attention, completion, attendance upserts | one notification per event | later |
| 8 | `LaundryCollector`: the observation state machine that produces laundry events | a cycle starts and completes once | later |

`DeliveryContract` is the promise both delivery paths keep: the push queue and the PC's
rows are two implementations of one abstract specification. `DeviceAccess` is what
the owner of a PC may rely on. A server-side module gets one or two runs: a race
run for safety and refinement, and, where the code owes progress, a smaller run with
fairness. The parts of the client are checked by one run of `MCClient`.

Theorems planned beyond those of section 5: that a laundry event is planned once although
cycles overlap (with `MinuteCycle`), and that history on the meals page is of past days
(`MealPages`).

## 3. Modules

Each module's header states its abstractions; `map` in `PROJECT.json` gives the
source lines of every definition.

### `PushDelivery`

One action is one SQL statement or transaction, or one HTTP request. Instants are
kept as the number of 30 s ticks until they pass: `row[d].wait = 0` is
`next_attempt_at_epoch_ms <= now`, `leaseLeft = 0` is an expired or missing lease.

| TLA+ | Code |
| --- | --- |
| `row`, `NewRow`, `CreateNotification` | `notification_delivery`; `JdbcNotificationStore.create` with its fan-out |
| `sub`, `session`, `SavePush`, `RevokePush`, `EndSession` | `push_subscription`, mobile `app_session` and their updates |
| `Inactive`, `Claimable`, `ClaimPushDeliveries` | `claimPushDeliveries`, which calls `settleInactivePushDeliveries` in its transaction |
| `cycle[w]` | what `deliverPushes` has in memory: token, clock reading, batch with the attempts it read |
| `Send`, `SettlePush` | `WebPushSender.send`; `settlePush`, conditional on the lease token |
| `SettleRefused` | the CHECK of `push_subscription` refuses a revocation dated before the row's renewed `created_at`; `runStage` swallows the exception |
| `AbandonCycle` | the worker stops, or an exception ends its cycle |
| `DeleteExpired`, `DeleteUser` | housekeeping; the PC's identity reset, with its cascades |

`arrivals`, `lapsed` and `answerLost` are history variables: they are written and never
read by an action. Expiry of a notification is an action that may happen at any moment.

### `Pairing`

A server thread carries a request through two steps, `LookupFor...` and the update,
so that any two requests interleave; `Forsaken` is a thread whose client has given up
and which goes on. `client[m]` is the PWA together with its browser: `stored` is the
persisted pairing, `receipt` and `device` the two cookies. Cookies are set when the browser
takes the answer, before the page sees it, which is why `Restart` may keep them.
A receipt is named by challenge and claimant, and a session by the challenge and the
device its token was derived for. `shown` in a request and a session is history: the device
that was on the PC's card when the user approved.

### `DesktopNotify`

The loop handles one notification at a time: `Poll` and `HearPoll` (the request and
its answer, dropped if the identity changed), `Record` (inbox, file first), `Show`,
`SendAck`, `HearAck`. `Record` to `Show` runs under the identity lock, which is
what `Locked` says. `acks` holds acknowledgements on the way, including those the
client gave up on. `late` holds macOS shows whose waiter went away after ten seconds.
`ResetIdentity` has the outcomes the code leaves: enrolled at once, later, or not at
all because the credential store failed; or the answer to the deletion was lost and the
PC keeps an identity the server no longer knows. Otherwise credentials are assumed to keep
working: rotation and 401 are in `DesktopIdentity`.

### `DeliveryContract`, `DeviceAccess`

Abstract specifications of a few lines each. A delivery opens once, closes once, is
`delivered` only if its target was reached, and a dropped one does not come back. A code
is asked with by one device, admits only that one, once, and an ended access stays ended.

### `DesktopIdentity`

`RemoteSyncService` of the PC (`remote_sync/service.rs`) with the stores under it. `task[c]`
is one asynchronous call of the service: a request (heartbeat, poll, upload), the window's
session, an upload of the usage preference, the report of an opened window, a reset. A
step ends where the code waits for a lock or for the server, so `pc` names the place.

| TLA+ | Code |
| --- | --- |
| `disk` | the identity file, the credential store (`secure_credential.rs`) and the settings file |
| `app` | the service's memory: installation, credential, enrolment, generation, choice and its revisions |
| locks `webview`, `registration`, `usage`, `identity` in `held` | `webview_session_transition`, `registration`, and the RwLocks of the usage preference and of identity requests |
| `Call`, `TakeRegistration`, `HearRotation`, `HearRegistration`, `Ready`, `HearCall` | `authenticated_request` with `ensure_registered`, `rotate_credential`, `register`, `invalidate_credential_if_current` |
| `Sync`, `PutPreference`, `Adopt`, `Accept`, `SetChoice` | `sync_usage_analytics_preference`, and `sync_usage_analytics_setting` with `adopt_usage_analytics_if_undecided` |
| `RecordUiOpened`, `SendOpened`, `HearOpened` | `record_ui_opened_best_effort` |
| `StartReset`, `TakeLock` and the steps after it | `reset_identity` |
| `server`, `Handle` | `JdbcAccountStore`: enrolment, rotation, deletion, preference, each one transaction |
| `late` | requests the PC gave up after fifteen seconds and the server has not handled yet |
| `age` | how far a credential is from `should_rotate_at` and from its expiry |

Each write of a store may fail; a restart keeps `disk` and the server. `overtaken` is history.

### `PushRegistration`

A PWA's registration lives in four places that no transaction joins: the browser's
`PushManager` (`local`), the record in localStorage (`record`), the server's rows (`server`)
and the screen (`pd`, `reconciled`). `reg` is a registration or a test
(`push-registration.ts`), `cln` a cleanup (`push-subscription-lifecycle.ts`), alone or as the
first half of a disconnect (`companion-disconnect*`); every `await` is a step, and
every request is answered, lost before or after the server handled it, or refused.
`ReduceDelivery` is the reducer of `push-delivery-state.ts`, `StepsView` the steps of
`notification-delivery-setup.tsx`. `reg` and `cln` hold one flow each per number: flows are in
flight together wherever the code lets them, for only `busy` disables a row of buttons, the two
retry buttons are always enabled, and a flow goes on when its tab is left (`Detach`) or another
mutation takes its place on the screen (`Superseded`). `company` is history: "alone" for a flow
beside which no other was in flight, from its start on; `asked` is that of the test the screen
asks about, `done` that of the remembered cleanup.

### The client's parts

| Module | Models | State and actions |
| --- | --- | --- |
| `AccountStates`, `AppStatus`, `AccountAccess` | `dashboard-account*.ts(x)`, `app-status-model.ts`, `platform-authentication-gate.tsx` | the first two are pure: account, gate and status rows as functions of the queries' answers. `AccountAccess` adds the clock, the queries of the PWA (`sessionQuery`) and the PC (`connection`), the expiry timer, the evidence of an earlier session and the wait for the PC's checker |
| `DesktopSession` | `desktop-http-session.ts`, `http-api-client.ts` | one leased token and one bootstrap shared by requests (`caller`); a reset of the identity starts a new `generation` before it asks the native side; `commands` are native commands worked off one at a time and in any order, since a reset waits for the `AppState` mutex before it takes `webview_session_transition` (`remote_sync.rs:276`) and a bootstrap does not. `early` is history: the server answered while a reset was still to be worked off |
| `DesktopAttendance` | `desktop-attendance-event.ts`, `use-dashboard-queries.ts`, `remote_sync.rs` | observations reach the window as events before they are uploaded; fetches and refreshes answer with older or newer records. A reset of the identity clears the query when it is asked for (`ResetAsked`); the server deletes the record later (`IdentityRemoved`) or does not (`RemovalRefused`) |
| `PwaUpdate` | `update-lifecycle.ts`, `pwa-update-controller.tsx`, `update-bootstrap.ts` | a waiting worker is found, offered, activated here or in another tab; input is prepared before the one reload |
| `PreferenceForms` | `meal-preferences-*`, `attendance-preferences-section.tsx`, `service-settings` | `form` is chosen at the start; what the query knows (`known`), its request (`reading`), draft, the draft stored over a reload, and `saves`: one that was begun on an earlier page goes on beside those of the page shown, and its answer removes the stored draft. `cleared` is history of that |
| `AttendanceChecker` | `checker.rs`, `platform/tauri/checker/checker.ts` | `page` is the script in the LMS page, `window` and `runtime` the app; triggers and reports are queues between them, and pages end under both. An error of the LMS changes the D-Day at most, if the cohort was found (`Applied`) |
| `DesktopUpdate` | `updater.rs`, `app/desktop-update-*` | coordinator and its lock, remembered check, marker file over restarts; the window's query, gate, panel and Later. A release is a number |
| `CampusQuery`, `LaundryPage`, `MealPages`, `AttendancePages` | pages of `features/laundry`, `features/meals`, `features/attendance`, `features/home` | `CampusQuery` is the cached query and refresh both public pages share; the others are what each page shows and offers as functions of cached answers, with the actions that change those |

### `MC*`

`MC*` are the TLC instances: the table of delays, symmetry sets, the view of the liveness
run. `MCClient` holds the client's parts: `part` is chosen in the initial state and never
changes. It extends the eight parts that theorems are about (`DesktopSession`,
`AttendanceChecker`, `DesktopUpdate`, `PushRegistration`, `PwaUpdate`, `DesktopAttendance`,
`AccountAccess`, `PreferenceForms`), so that TLC checks the very definitions the theorems
state; their variables stand still in the other parts. The laundry, meals and attendance
pages are instances, and the pool variables `v1` to `v9` are what each of them calls by its own
names. `ClientNext` is the chosen part's next step, so that one run explores the sum of
the parts' states, not their product. `NoValue` declares the placeholder `None` that several
of them share.

## 4. Runs

| Run | Instance | Shows | Distinct states |
| --- | --- | --- | --- |
| `push_two_workers` | 1 delivery, 2 workers, 3 attempts, lease of 2 ticks, 1 abandoned cycle | `TypeOK`, `LeaseKeepsSnapshot`, `AttemptsExact`, `SecondPushExplained`, `ImplementsContract` | 127 369 |
| `push_settles` | 2 deliveries, 1 worker, 2 attempts, 1 abandoned cycle | `QueuedIsSettled` | 153 641 |
| `pairing_two_devices` | 2 devices, 2 codes, 2 threads | `TypeOK`, `ApprovedAsShown`, `DeviceHoldsOwnSession`, `ImplementsAccess` | 750 256 |
| `pairing_wait_ends` | 1 device, 1 code, 2 lost connections or restarts | `WaitEnds` | 58 227 |
| `pairing_lost_answer` | 1 device, 1 code, 1 lost answer | `ClaimantNotRefused` is violated | |
| `notify_races` | 1 planned and 1 test notification, inbox of 1, 1 loss, 1 reset, macOS | `TypeOK`, `DisplayedOnce`, `DeliveredWasShown`, `OldIdentityNotShown`, `PendingIsSettled`, `ImplementsContract` | 584 871 |
| `notify_lost_ack` | 2 notifications, 1 loss | `FailedWasNotShown` is violated | |
| `notify_test_twice` | 1 planned and 1 test notification | `TestShownOnce` is violated | |
| `desktop_identity` | 2 tasks, 2 installations, 2 credentials each, 2 incidents | `IdentityTypeOK`, `NoCircularWait`, `MemoryIsTrue`, `ReportedByChoice`, `KeepsWorkingCredential` | 2 188 589 |
| `client_parts` | 11 parts, see the bounds | 18 properties, below | 1 557 895 |
| `push_reported_removed` | 1 endpoint, 4 flows, no outside event | `CompleteMeansServerRemoved` is violated | |
| `update_check_again` | 3 releases, 2 starts | `CheckAgainAsks` is violated | |

What the properties of the two largest runs say:

- *identity*: no set of tasks waits for locks in a circle, a reset that queues as a writer
  included (`NoCircularWait`); what memory and the stores hold are this
  installation's credentials and agree, and a choice that counts as synchronised
  is the server's (`MemoryIsTrue`); a window is reported only under a choice that stands and
  the server knows, for the identity it was opened under (`ReportedByChoice`); no late
  rejection and no failed reset drops a credential the server honours
  (`KeepsWorkingCredential`);
- *account*: an ended session closes the personal pages within a bounded delay
  (`SessionEndCloses`); the status page calls ready only what the gate opens, and a shut
  gate offers something besides the way home (`GateAgreesAndLeadsOn`);
- *window and record*: no answer of a former identity is delivered, except one the server gave
  before the native side came to the reset (`DeliveredForThisIdentity`), many rejected requests
  ask for one new token (`NoNeedlessBootstrap`), no older record is shown over a newer one,
  except after the clearing that begins a reset (`NeverOlder`);
- *update of the PWA and forms*: a reload happens once, prepared (`ReloadIsPrepared`); the
  meal form edits what it shows and keeps the input over that reload, unless a save of an earlier
  page removes it (`MealInputIsKept`);
- *checker*: a report never outlives the page that was asked (`ShownByThisPage`); a chosen
  cohort is looked up, and a page that never reports is noticed (`CheckerGoesOn`);
- *updater*: while the app runs, a mandatory block gives way only to a newer release that is
  not mandatory (`MandatoryStaysShut`), starts
  install a bounded number of times (`AutoInstallsBounded`), the window can read every
  status and offers a way on when blocked (`UpdateGateOffersAWay`);
- *push registration*, of flows that ran alone, whatever flows in flight together did before: a
  registration that was accepted is on the server while the browser keeps its subscription
  (`RegisteredIsOnServer`), a record goes only after its row (`RecordGivenUpAfterRemoval`), a
  disconnect reports what happened (`DisconnectReportIsTrue`), the user's answer is about the
  last test (`AnswerIsForTheLastTest`);
- *pages* (`PagesTellTheTruth`): a watch is offered for a running load only, history is of past
  days, home and the detail pages name the same meals and the same attendance, a refresh
  that is offered is not refused, a record called synchronised is on the server.

**Bounds.** Every race in the push queue is between workers over one row, or between
a worker and the row's own target, so one delivery and two workers reach it: three
attempts give a first, a middle and a last send, and a maximal age of the clock reading
of two ticks reaches both a cycle older than its lease and the delay that has already passed when it
is written. `BatchLimit` of 2 is filled by the two deliveries of the liveness run.
Three lease tokens suffice because a token is free again once no row and no cycle has it.
In the pairing, two codes allow replacement and the confusion of codes, two devices the
confusion of devices, two threads an overlap of any two requests. `MaxPolls = 1` and
`MaxLost = 0` there keep the product small, so `pairing_two_devices` has no lost
connection and no restart of a PWA: lost answers and restarts are in the two other runs, and of
`DeviceHoldsOwnSession` over a restart the theorem `CookieIsOwn` is the evidence. The
inbox of one item makes eviction happen at the second item.
Counters (`MaxCrashes`, `MaxLost`, `MaxResets`, `MaxLocal`, `MaxIncidents`,
`MaxDisturbances`, `MaxFlows`, `MaxVersion`, ...) bound how often something happens, not when.

*Identity*: each race is between a request and one other task (rotation, reset, change of
the setting), so two tasks reach it; the second installation is the one after a reset, the second
credential the one after a rotation, and two incidents allow a fault inside a
reset. Three initial states: a first start, a registered PC, and one that lost its settings
file. *Client*: account 3 ticks with a session of 3, a wait of 2 and five states of the
PC; session 2 requests, 2 tokens, 1 reset; attendance 4 ticks, records stale after 1, 2
events, 1 reset under way; PWA 3 workers, 2 reloads; forms 1 later version, 2 saves under way;
checker 2 pages, 1 choice of
cohort, 2 events, 1 refresh; updater 3 releases, 2 starts, 1 attempt, the first start with or
without the marker of an earlier one; laundry 1 tick; meals a year of 5 days, 3 of them
seen; registration 2 endpoints, 2 flows, 1 event; attendance pages days of 3 instants, 2 of them
seen, four states of the PC, and one cohort in the state machine: label and calendar of
cohorts anywhere within eight days are compared by `CountdownAgreesWithCalendar`, which TLC
evaluates before the run.
The parts with a theorem have small bounds here, because the theorem has none; the inductive
invariants were checked on larger ones (section 5).
Each part reaches every one of its actions within them, and each property has a known
mutation of the code that breaks it within them.

**Assumptions of the client's models.** Events of the native side keep their order, its commands do
not. The marker file of the updater can be written and calls into a WebView succeed. One chain of
mutations at a time in `AttendancePages`. `push_reported_removed` takes the behaviours in which a
flow begins when no other is in flight (`OneAfterAnother`): a subset of those of the code,
which is enough for a counterexample and keeps four flows small.

**What overlap does.** Four promises of the client are not kept in every order of events, and the
properties name the exceptions, mostly by a history variable. The models reach each of them:

- two push flows in flight together (`company = "beside"`): a cleanup removes the record a
  registration beside it has just written, or leaves a row whose record is gone; a disconnect
  reports a clean state another flow undoes (with three flows, one more than in the run); the
  question about a test stays up while another one is sent, and its answer is recorded for that
  one. The buttons that let this happen are at `notification-delivery-setup.tsx:639`;
- a request begun after `clear()` whose token was issued and used before the native side came to
  the reset (`early`) delivers what the former identity may see;
- a reset clears the attendance query before the server deletes the record: in the gap, or when
  the reset is refused, a record may come back that is older than the one cleared;
- a save begun on an earlier visit of the meals page that ends between the preparation
  of a reload and the reload removes the draft stored for it (`cleared`).

**Symmetry and views.** Symmetry is used only in runs without liveness properties
(deliveries, devices and tasks of the same kind). The
liveness run of the push queue uses the view `WithoutHistory`: the hidden
variables influence no action and the property does not mention them.

**Deadlock** is checked for push and pairing. A PC or a page with nothing to do and all
counters of the model used up stops, so the other runs say `CHECK_DEADLOCK FALSE`;
`NoCircularWait` says there what a deadlock of the locks would be.

**Fairness.** *Push*: the worker's scheduler runs the cycle every five seconds
(`AutomationScheduler.kt`), a cycle runs to its end, and time passes; `AbandonCycle`,
users, the planner and expiry owe nothing. The push service is assumed to answer or fail:
`WebPushSender.kt:53` has no timeout, which is a listed hazard. `QueuedIsSettled` is claimed
for behaviours in which browsers do not renew their subscription inside every
cycle for ever, since each such renewal may refuse one settle. *Pairing*: threads finish, answers
are heard or lost, time passes, a PWA that waits goes on asking; strong fairness of
`SendComplete` because a free thread comes and goes with other requests. *PC*: the loop
polls and works off its batch, and an acknowledgement under way reaches the server.

**Findings.** The five violated properties are statements of the repository's own
documents and tests:

1. two overlapping completion checks, the first one's answer lost, refuse a device
   whose pairing is approved (`domain/pairing/PairingService.kt:226`);
2. a displayed notification whose acknowledgement is lost is recorded as failed at the
   next poll, because the inbox already has it (`desktop/src/notification_service.rs:110`);
3. a test notification can be displayed twice, since row and acknowledgement are two
   statements (`domain/notification/NotificationService.kt:68`);
4. a cleanup of push registration reports that everything was removed and leaves a server row,
   when an earlier one stopped half way and the answer to a registration between them
   was lost (`frontend/src/api/push-subscription-lifecycle.ts:370`);
5. "check again" after a failed hourly check answers from memory and asks nobody
   (`desktop/src/updater.rs:540`).

Two behaviours the models reach and no document contradicts: a PC that lost its credential
(the answer to a rotation or registration lost and the app restarted) stays in
`reset-required`, because the connections page offers a reset only to a PC that is connected
(`features/connections/connections-page.tsx:552`); and an older choice about usage statistics
can be stored over a newer one, by a request the server handles late and by
`remote_sync.rs:227`, which sets what it read before another change. `MemoryIsTrue`
excludes the second by the history variable `overtaken`.

## 5. Proofs

Each component's proofs are in `<module>_proofs`. They hold for every value of the constants that
satisfies the component's named assumption: `ConstantsOK` (`PushDelivery`, `Pairing`,
`DesktopNotify`), `CheckerAssumption`, and `<module>Assumption` in the others, which TLC evaluates
for the constants of each run. They say that bounds are numbers, that the placeholders (`NoToken`,
`NoCohort`, ...) are no values of the kind they stand for, and, for the identity, that tasks are
finitely many. Counters such as `MaxLost` or `MaxPages` are arbitrary, so the bounds of the runs
do not limit the theorems; the revision of the usage preference has no bound.

| Module | Theorem | Statement |
| --- | --- | --- |
| `PushDelivery_proofs` | `Invariant`, `TypeCorrect` | `Spec => []IInv`, `Spec => []TypeOK` |
| | `SnapshotKept` | `Spec => []LeaseKeepsSnapshot` |
| | `AttemptsAreExact` | `Spec => []AttemptsExact` |
| | `NoUnexplainedSecondPush` | `Spec => []SecondPushExplained` |
| | `QueueImplementsContract` | `Spec => ImplementsContract` |
| `Pairing_proofs` | `Invariant`, `TypeCorrect` | `Spec => []IInv`, `Spec => []TypeOK` |
| | `SessionIsForTheDeviceShown` | `Spec => []ApprovedAsShown` |
| | `CookieIsOwn` | `Spec => []DeviceHoldsOwnSession` |
| | `PairingImplementsAccess` | `Spec => ImplementsAccess` |
| `DesktopNotify_proofs` | `Invariant`, `TypeCorrect` | `Spec => []IInv`, `Spec => []TypeOK` |
| | `SecondDisplayExplained` | `Spec => []DisplayedOnce` |
| | `DeliveredMeansShown` | `Spec => []DeliveredWasShown` |
| | `NothingShownForOldIdentity` | `Spec => OldIdentityNotShown` |
| | `DesktopNotifyImplementsContract` | `Spec => ImplementsContract` |
| `DesktopIdentity_proofs` | `Invariant`, `TypeCorrect` | `IdentitySpec => []IInv`, `IdentitySpec => []IdentityTypeOK` |
| | `NobodyWaitsInACircle` | `IdentitySpec => []NoCircularWait` |
| | `TheMemoryIsTrue` | `IdentitySpec => []MemoryIsTrue` |
| | `OpenedWindowsAreReportedByChoice` | `IdentitySpec => []ReportedByChoice` |
| | `WorkingCredentialIsKept` | `IdentitySpec => KeepsWorkingCredential` |
| `ClientSession_proofs` | `Invariant`, `TypeCorrect` | `SessionSpec => []SessionInv`, `SessionSpec => []SessionTypeOK` |
| | `AnswersAreForThisIdentity` | `SessionSpec => DeliveredForThisIdentity` |
| | `TokenIsAskedForWhenNeeded` | `SessionSpec => NoNeedlessBootstrap` |
| | `AttendanceTypes` | `AttendanceSpec => []AttendanceTypeOK` |
| | `AttendanceSyncedIsStored` | `AttendanceSpec => []SyncedIsStored` |
| | `AttendanceNeverOlder` | `AttendanceSpec => NeverOlder` |
| | `AccountTypes` | `AccountSpec => []AccountTypeOK` |
| | `GateClosesWithSession` | `AccountSpec => []SessionEndCloses` |
| | `GateAgreesWithStatus` | `AccountSpec => []GateAgreesAndLeadsOn` |
| `AttendanceChecker_proofs` | `Invariant`, `TypeCorrect` | `CheckerSpec => []CheckerInv`, `CheckerSpec => []CheckerTypeOK` |
| | `SelectionAndSilenceAreFollowed` | `CheckerSpec => []CheckerGoesOn` |
| | `ShownIsOfThisPage` | `CheckerSpec => ShownByThisPage` |
| `DesktopUpdate_proofs` | `UpdateInvariant`, `UpdateTypes` | `UpdateAppSpec => []UpdateIInv`, `UpdateAppSpec => []UpdateAppTypeOK` |
| | `UpdateInstallsBounded` | `UpdateAppSpec => []AutoInstallsBounded` |
| | `UpdateOffersAWay` | `UpdateAppSpec => []UpdateGateOffersAWay` |
| | `UpdateMandatoryStays` | `UpdateAppSpec => MandatoryStaysShut` |
| `Pwa_proofs` | `PushRegistrationTypes` | `Spec => []TypeOK` |
| | `PushInvariant` | `Spec => []PushIInv` |
| | `PushRegisteredIsOnServer` | `Spec => []RegisteredIsOnServer` |
| | `PushRecordGivenUp` | `Spec => RecordGivenUpAfterRemoval` |
| | `PushDisconnectReport` | `Spec => DisconnectReportIsTrue` |
| | `PushAnswerForLastTest` | `Spec => AnswerIsForTheLastTest` |
| | `PwaUpdateTypes` | `UpdateSpec => []UpdateTypeOK` |
| | `PwaReloadPrepared` | `UpdateSpec => []ReloadIsPrepared` |
| | `FormTypes` | `FormSpec => []FormTypeOK` |
| | `MealInputStaysKept` | `FormSpec => []MealInputIsKept` |

Every proof has one lemma per action that says the action keeps the invariant (`...Step` or
`...Keeps`), a lemma that puts them together (`NextIInv`, `NextInv`), and, for a refinement, one
lemma per action that maps its step to a step of the abstract specification or to a stutter
(`...Maps`). TLC checked each inductive invariant before it was proved: `SessionInv` on 2
requests, 2 tokens and 2 resets (826 615 states) and with 3 tokens (496 296), `CheckerInv` on 2
pages, 2 choices and 2 messages (2 592 956), `IInv` of the identity on the instance of its run,
`UpdateIInv` on that of the updater, `PushIInv` on three flows (1 309 812), `PwaInv` on 1 242,
`RecordInv` on two resets under way (357 364), `AccountInv` on 70 431, and `FormInv`, with two
later versions, on 252 144. A `CASE` a proof takes apart has arms that exclude each other, or is
an `IF`: TLC takes the first arm that holds, the prover any.

**Push queue.** `LeaseKeepsSnapshot` and `SecondPushExplained` are not inductive. `IInv` adds

- `CycleInv`: a token belongs to one cycle, an idle cycle has nothing in memory, a row
  that is closed has no lease (this is where `GoneRow` clearing the lease matters: a
  late `settlePush` then finds no row);
- `RowInv`: rows and batches exist only from creation to deletion of their notification;
- `PushInv`: while no lease of a delivery lapsed, one cycle at most has it; and while also
  no answer was lost, a queued row was pushed only if the one cycle that has it was just told
  "delivered".

From `PushInv` a second push needs a second cycle, hence a lapsed lease, or a retry
after a push that was taken, hence a lost answer. The refinement: `CreateMaps` (Open),
`ClaimMaps` (GiveUp of the rows closed as inactive), `SendMaps` (Reach), `SettleMaps`
(Confirm or GiveUp), `MappedDrop` (Drop).

**Pairing.** That a session is of the device shown on the PC depends on what requests
have read before. `IInv` adds that a challenge has a claimant from its claim on and never
another one (`ChallengeInv`), that what the card shows is that claimant (`CardInv`), that
a thread's approval carries the device it was sent for and its lookup found no other
(`RequestInv`), and that a PWA waits for its own request (`ClientInv`). Whatever overlaps
between lookup and update, the update finds the claimant that was shown, or no row. In
`DeviceAccess` a claim is Ask, an approval Grant, and the ends of session and challenge map to
its ends; the completion only hands out what was granted and maps to a stutter.

**Notifications of the PC.** A second display is explained by eviction from the inbox, so
`InboxInv` says that until then the inbox has whatever was displayed or is about to be, and
that of a done display, one in hand and one that outlives its waiter there is one at most.
`LoopInv` and `TestInv` say that who claims a display has one behind it: the loop, an
acknowledgement on its way, a test that is still a request. `RowInv` ties rows to their
notification. The same `DeliveryContract` as that of the push queue is implemented by
`CreateNotificationMaps` (Open), `DisplayMaps` (Reach), `ServerAckMaps` (Confirm or GiveUp) and
the maps of expiry, deletion and reset (Drop).

**Identity.** `Stands` lists where a task of each kind can stand and with which locks,
`LockInv` that locks exclude whom they should. Locks are taken in the order window,
registration, usage, identity, so each place has a rank and whom a task waits for ranks
higher; a circle of waiting tasks, being finite, would have one of highest rank
(`FurthestOn`, `NoCircle`). `CredentialInv` says which credentials the memory, the store and the
server can hold; `BearerInv` and `ChoiceInv` what a task in the middle of a request may
still believe of its identity and of the user's choice, for its generation and its revision;
`AgreementInv` that the choice in memory, on disk and on the server agree unless one was
`overtaken`. `MemoryIsTrue`, `ReportedByChoice` and `KeepsWorkingCredential` follow: a rejection
that comes late is of a former credential, because the credential in memory has changed
since (`InvalidatedWasRefused`).

**Session of the window.** A reset is asked for long before the PC works it off, and a bootstrap
asked for later may be served first. `CommandInv` therefore says nothing of the order of commands,
only that a token that still works is of the identity of this moment. `RequestInv` follows a
request from its answer on: what it was answered in this generation with no reset to come was
given by a working token, hence is of this identity, and stays so, since the next reset begins
with a new generation; a 401 is never the answer to a token that works.

**Checker.** `OrderInv`: triggers and reports come in the order of generations, and a report
is of a document no older than its generation; from it `ShownByThisPage`. `HealthyInv`: once a
report of this page was believed, every trigger, check and report on its way is about this
page, so none of them is refused; `FollowedInv`: a check or report for a cohort that is no longer
chosen is followed by another one. `SelectionIsFollowed` needs both.

**Updater.** `AutoInstallsBounded` counts over restarts what only the marker file remembers.
`CountedTries` says that the marker of a release has counted each of its starts, that a marker
of a newer release means the older one is not tried again, and without a marker
nothing newer was tried. `UnderWay`: an installation from its download on is of the release that
is remembered and marked, with an attempt left. `OneRelease` and `Told` order what is
published, remembered, on its way to the window and known to it; from them a status
of an older release never follows a newer one, and `MandatoryStaysShut` says what
may take the place of a mandatory one. `EveryStatusParses` is itself inductive with them.

**Push registration.** `Solitary`: a flow that is alone has all flows to itself, since a start
ends the solitude of those in flight. For such a flow `Replacing` and `Removing` say of each place
what it has removed so far and whose record and row it has read, so that what it clears next
is a row the server no longer has; flows that overlapped before may have left anything, which its
first steps read anew. `Attending` and `AskedAbout` tie the screen to the flow it started and to
the test it asks about; `Remembered` says that a cleanup remembered as complete is still true. What
restores or loses the browser's subscription between the steps keeps all of them.

**Update of the PWA.** `ReloadAwaited`: the page listens for a new controller only for an
activation that it waits for and whose input was saved.

**Attendance record.** `AnswerIsStored`: an answer on its way is no newer than the server's
record, and no older than a record already shown as synchronised, unless they are of an
identity deleted since (`Former`), which by `NotFromTheFuture` is all there is at the deletion;
`SyncedIsStored` and `NeverOlder` follow from what `PreferDesktopAttendance` keeps.

**Account and gate.** `TimerReaches`: while the page's reading of the clock is before the end of
the session, a timer is set that is due by that end, or by now if the end has passed; so a page
that still shows a session past its end has its timer due. `EvidenceKept` makes a later absence an
expiry, `WaitRuns` the checker late only after the whole wait.

**Forms.** That the input kept over a reload is shown again if the preferences are the same
compares versions in the model and contents in the code. `OneHistory` reconciles
them: there is one sequence of stored values, and whatever the query, its answer, the answer to
a save and the stored draft hold is the value of their version in it. `KeptIsStored` then
says where the input is until the reloaded page has it or a save of an earlier page removed it.

**Only model-checked.** The liveness properties `QueuedIsSettled`, `WaitEnds` and
`PendingIsSettled` (the prover does not handle fairness and `ENABLED`). `PagesTellTheTruth`, but
for its conjunct `SyncedIsStored`: the laundry, meals and attendance pages are functions over
small tables, sequences and joined strings, which TLC covers. `ClientTypeOK`, of which the
conjuncts of the eight extended parts are proved. The violated properties are refuted by TLC's
counterexamples. No module needs a recursive operator.

## 6. Not modelled

- *Server*: notification planning, the minute cycle's leases, laundry watches and attendance
  upserts (planned, section 2); usage records and aggregation; collectors and the
  publication of public data; controllers and security filters, which are stateless.
- *Both sides*: payload encryption, token hashing, rate limits, attempt limits of typed
  codes, signature checks, formats and migrations of stores.
- *Desktop*: tray, autostart, the table of scheduling intervals, OS integration, unreadable
  settings (they switch the statistics off until the next start).
- *Frontend*: wording, layout, formatting of dates, the calendar's keyboard handling, vendored UI
  components, the shell's cache and the display of a push in the service worker.
- Installers, CI, deployment and the observer tool.

`components` in `PROJECT.json` gives the state of each.
