--------------------------- MODULE PushRegistration ---------------------------
(***************************************************************************)
(* One installed PWA and its Web Push registration, kept in four places    *)
(* that no transaction joins: the browser's PushManager (`local'), the     *)
(* metadata in localStorage (`record'), the server's push_subscription     *)
(* rows (`server') and the state of the delivery screen (`pd' and          *)
(* `reconciled').  A registration (connect or test) and a cleanup (turn    *)
(* off, or the first half of a disconnect) are asynchronous flows; every   *)
(* await is a step.  Nothing in the code keeps two flows apart but the     *)
(* buttons a screen disables: a retry beside a cleanup and a flow whose    *)
(* screen was left are in flight together.                                 *)
(* The subscription id and the endpoint fingerprint are both digests of    *)
(* the endpoint, so a record is the endpoint and its cleanup phase.        *)
(***************************************************************************)
EXTENDS NoValue, Naturals

CONSTANTS
    MaxEndpoints,      \* bound: subscriptions the push service hands out
    Corrupt,           \* metadata that does not parse or has another version
    MaxFlows,          \* bound: registrations and cleanups started
    MaxDisturbances    \* bound: rotations, permission changes and reloads

VARIABLES
    permission,        \* Notification.permission
    local,             \* pushManager.getSubscription(): an endpoint or None
    issued,            \* endpoints handed out so far, each one only once
    record,            \* localStorage metadata: a record, Corrupt or None
    server,            \* endpoints with an active push_subscription row
    session,           \* is the mobile session alive on the server?
    tab,               \* mounted settings tab: "notifications" or "devices"
    setup,             \* push-setup query holds the key, the worker is ready
    pd,                \* pushDeliveryState of the mounted screen, None when null
    reconciled,        \* cached reconciliation status, None when never loaded
    lastTest,          \* persisted notification test record
    reg,               \* the registrations in flight: of each flow, or None
    cln,               \* the cleanups in flight: of each flow, or None
    done,              \* completedPushCleanup.current of the devices tab, with
                       \* whether that cleanup ran alone
    asked,             \* history: did the test queued last run alone?
    flows,             \* history: flows started (MaxFlows)
    events             \* history: environment events (MaxDisturbances)

world == <<permission, local, issued, record, server, session>>
screen == <<tab, setup, pd, reconciled, lastTest>>
vars == <<world, screen, reg, cln, done, asked, flows, events>>

Flows == 1..MaxFlows

Endpoints == 1..MaxEndpoints
Phases == {"registered", "server-removed"}
Metadata == [endpoint: Endpoints, phase: Phases]
StepNames == <<"permission", "localSubscription", "serverRegistration",
               "testSend", "arrival">>
StepStatus == {"complete", "current", "error", "waiting"}
Reconciliations == {"matched-registered", "matched-registration-unverified",
    "matched-server-removed", "local-only", "record-only", "mismatch", "none",
    "invalid", "failed"}

Deliveries == [permission: StepStatus, localSubscription: StepStatus,
               serverRegistration: StepStatus, testSend: StepStatus, arrival: StepStatus]

\* What a cleanup answers.
CleanupResults == {"complete", "incomplete", "not-verified"}

\* History: a flow ran alone when no other was in flight from its start to its end.
Company == {"alone", "beside"}

\* The two values are no endpoint, answer, record or state of a screen.
ASSUME PushRegistrationAssumption ==
    /\ {MaxEndpoints, MaxFlows, MaxDisturbances} \subseteq Nat
    /\ Corrupt # None
    /\ \A special \in {Corrupt, None} :
           special \notin Nat /\ special \notin CleanupResults /\ special \notin Company
           /\ special \notin Metadata /\ special \notin Deliveries

Steps(p, l, s, t, a) == [permission |-> p, localSubscription |-> l,
                         serverRegistration |-> s, testSend |-> t, arrival |-> a]

(***************************************************************************)
(* The delivery steps shown on the screen (push-delivery-state.ts).        *)
(***************************************************************************)
CreateDelivery(p) ==
    CASE p = "granted" -> Steps("complete", "current", "waiting", "waiting", "waiting")
      [] p = "denied"  -> Steps("error", "waiting", "waiting", "waiting", "waiting")
      [] OTHER         -> Steps("current", "waiting", "waiting", "waiting", "waiting")

RestoredDelivery(status, p) ==
    CASE status = "matched-registered" ->
             Steps("complete", "complete", "complete", "current", "waiting")
      [] status \in {"matched-registration-unverified", "matched-server-removed",
                     "local-only", "mismatch"} ->
             Steps("complete", "complete", "error", "waiting", "waiting")
      [] status = "record-only" ->
             Steps("complete", "error", "error", "waiting", "waiting")
      [] status \in {"invalid", "failed"} ->
             [CreateDelivery("default") EXCEPT !.serverRegistration = "error"]
      [] OTHER -> CreateDelivery(p)

ReduceDelivery(s, event) ==
    CASE event = "connection-started" -> CreateDelivery("default")
      [] event = "permission-denied" -> CreateDelivery("denied")
      [] event = "local-subscription-failed" ->
             Steps("complete", "error", "waiting", "waiting", "waiting")
      [] event = "local-subscribed" ->
             Steps("complete", "complete", "current", "waiting", "waiting")
      [] event = "server-registration-failed" ->
             [s EXCEPT !.serverRegistration = "error", !.testSend = "waiting",
                       !.arrival = "waiting"]
      [] event = "server-registered" ->
             Steps("complete", "complete", "complete", "current", "waiting")
      [] event = "test-started" /\ s.serverRegistration = "complete" ->
             [s EXCEPT !.testSend = "current", !.arrival = "waiting"]
      [] event = "test-failed" /\ s.serverRegistration = "complete" ->
             [s EXCEPT !.testSend = "error", !.arrival = "waiting"]
      [] event = "test-queued" ->
             [s EXCEPT !.testSend = "complete", !.arrival = "current"]
      [] event = "arrival-confirmed" /\ s.testSend = "complete" ->
             [s EXCEPT !.arrival = "complete"]
      [] event = "arrival-missing" /\ s.testSend = "complete" ->
             [s EXCEPT !.arrival = "error"]
      [] OTHER -> s

(***************************************************************************)
(* What the screen shows, and what a reconciliation would answer now.      *)
(***************************************************************************)
Restored == RestoredDelivery(IF reconciled = None THEN "none" ELSE reconciled, permission)
Shown == IF pd = None THEN Restored ELSE pd
StepsView == [i \in DOMAIN StepNames |-> Shown[StepNames[i]]]

\* A record that does not parse, or is of another version, is no record.
Stored == CASE record = Corrupt -> "invalid"
            [] record = None    -> "missing"
            [] OTHER            -> "found"

\* The fingerprint of an endpoint equals the recorded one.
Matches(endpoint) == endpoint = record.endpoint

Reconcile ==
    CASE Stored = "invalid" -> "invalid"
      [] Stored = "missing" -> IF local = None THEN "none" ELSE "local-only"
      [] Stored = "found" ->
             IF local = None THEN "record-only"
             ELSE IF ~Matches(local) THEN "mismatch"
             ELSE IF record.phase = "registered" THEN "matched-registration-unverified"
             ELSE "matched-server-removed"

\* The screen is behind the account gate: it is mounted while connected only.
Mounted == tab = "notifications" /\ session

(***************************************************************************)
(* Flows.  A flow outlives the screen that started it; only one of the     *)
(* mounted screen moves its steps, and only the mutation the screen        *)
(* observes makes it busy: a registration takes the place of the one       *)
(* observed before.                                                        *)
(***************************************************************************)
InFlight == {f \in Flows : reg[f] # None \/ cln[f] # None}
Busy == \E f \in InFlight :
    \/ reg[f] # None /\ reg[f].mount = "observed"
    \/ cln[f] # None /\ cln[f].mount = "observed" /\ cln[f].by = "screen"

\* The flow started next is alone while no other is in flight; it ends the
\* solitude of those that are.
NewFlow == flows + 1
CanStart == flows < MaxFlows
Solitude == IF InFlight = {} THEN "alone" ELSE "beside"
Joined(flow) == IF flow = None THEN None ELSE [flow EXCEPT !.company = "beside"]
Superseded(flow) ==
    IF flow = None THEN None
    ELSE [flow EXCEPT !.company = "beside",
                      !.mount = IF flow.mount = "observed" THEN "mounted" ELSE flow.mount]
Detach(flow) == IF flow = None THEN None ELSE [flow EXCEPT !.mount = "gone"]

\* The steps the screen shows, or those it restored when the flow was started:
\* "test-queued" is reported by the screen as it is now while it observes the flow.
Drawn(f, event) ==
    CASE pd # None -> pd
      [] pd = None /\ event = "test-queued" /\ reg[f].mount = "observed" -> Restored
      [] OTHER -> reg[f].base
RegTransition(f, event) ==
    pd' = IF reg[f].mount = "gone" THEN pd ELSE ReduceDelivery(Drawn(f, event), event)

(***************************************************************************)
(* Calls to the server: handled and answered, handled with the answer      *)
(* lost, or refused.  Without a session every call is refused.             *)
(***************************************************************************)
Answers == IF session THEN {"answered", "lost", "refused"} ELSE {"refused"}
Handled(answer) == answer # "refused"

(***************************************************************************)
(* Registration.  A click starts pushManager.subscribe() at once, then the *)
(* mutation; `kind' says which mutation it is.                             *)
(***************************************************************************)
\* Buttons of the delivery screen: the row of actions is disabled while busy and
\* its first two until the push is prepared; the buttons of the "did not arrive"
\* alert are always enabled, but do nothing before the push is prepared.
RowOffered == ~Busy
RetryOffered == Shown.arrival = "error"
AnswerOffered == Shown.arrival = "current"

StartRegistration(kind) ==
    /\ Mounted /\ setup /\ (RowOffered \/ RetryOffered) /\ CanStart
    /\ reg' = [f \in Flows |->
           IF f = NewFlow
           THEN [step |-> "subscribe", kind |-> kind, sub |-> None, old |-> None,
                 mount |-> "observed", base |-> Restored, company |-> Solitude]
           ELSE Superseded(reg[f])]
    /\ cln' = [f \in Flows |-> Joined(cln[f])]
    /\ pd' = ReduceDelivery(Shown, IF kind = "test" THEN "test-started"
                                   ELSE "connection-started")
    /\ lastTest' = IF kind = "test" THEN "test-sending" ELSE lastTest
    /\ flows' = flows + 1
    /\ UNCHANGED <<world, tab, setup, reconciled, done, asked, events>>

Registering(f, step) == reg[f] # None /\ reg[f].step = step
RegistrationIs(f, flow) == reg' = [reg EXCEPT ![f] = flow]

\* The registration gives up after `event'.
EndRegistration(f, event) ==
    /\ RegistrationIs(f, None)
    /\ RegTransition(f, event)
    /\ lastTest' = IF reg[f].kind = "test" THEN "error" ELSE lastTest
    /\ UNCHANGED <<tab, setup, reconciled>>

SubscribeDenied(f) ==
    /\ Registering(f, "subscribe") /\ permission # "granted"
    /\ permission' = "denied"
    /\ EndRegistration(f, "permission-denied")
    /\ UNCHANGED <<local, issued, record, server, session, cln, done, asked, flows, events>>

SubscribeFails(f) ==
    /\ Registering(f, "subscribe")
    /\ EndRegistration(f, "local-subscription-failed")
    /\ UNCHANGED <<world, cln, done, asked, flows, events>>

\* subscribe() returns the existing subscription or makes a new one.
Subscription == IF local = None THEN issued + 1 ELSE local

Subscribed(f) ==
    /\ Registering(f, "subscribe") /\ permission # "denied"
    /\ local # None \/ issued < MaxEndpoints
    /\ permission' = "granted"
    /\ local' = Subscription
    /\ issued' = IF local = None THEN issued + 1 ELSE issued
    /\ RegistrationIs(f, [reg[f] EXCEPT !.step = "prepare", !.sub = Subscription])
    /\ RegTransition(f, "local-subscribed")
    /\ UNCHANGED <<record, server, session, tab, setup, reconciled, lastTest, cln, done,
                   asked, flows, events>>

\* preparePushSubscriptionRegistration up to its first server call.
PrepareRegistrationForgetful(f) ==
    /\ Registering(f, "prepare")
    /\ record' = None
    /\ RegistrationIs(f, [reg[f] EXCEPT !.step = "register"])
    /\ UNCHANGED <<permission, local, issued, server, session, screen, cln, done, asked,
                   flows, events>>
PrepareRegistration(f) ==
    /\ Registering(f, "prepare")
    /\ record' = IF Stored = "invalid" THEN None ELSE record
    /\ RegistrationIs(f,
           IF Stored = "found" /\ ~Matches(reg[f].sub)
           THEN [reg[f] EXCEPT !.old = record.endpoint,
                               !.step = IF record.phase = "registered"
                                        THEN "unregister" ELSE "clear"]
           ELSE [reg[f] EXCEPT !.step = "register"])
    /\ UNCHANGED <<permission, local, issued, server, session, screen, cln, done, asked,
                   flows, events>>

RegistrationFails(f) ==
    /\ \E step \in {"prepare", "clear", "store"} : Registering(f, step)
    /\ EndRegistration(f, "server-registration-failed")
    /\ UNCHANGED <<world, cln, done, asked, flows, events>>

\* DELETE of the registration of an endpoint; "not found" counts as removed.
Unregister(answer, endpoint) ==
    server' = IF Handled(answer) THEN server \ {endpoint} ELSE server

UnregisterOld(f) == \E answer \in Answers :
    /\ Registering(f, "unregister")
    /\ Unregister(answer, reg[f].old)
    /\ IF answer = "answered"
       THEN RegistrationIs(f, [reg[f] EXCEPT !.step = "clear"]) /\ UNCHANGED screen
       ELSE EndRegistration(f, "server-registration-failed")
    /\ UNCHANGED <<permission, local, issued, record, session, cln, done, asked, flows, events>>

ClearOldRecord(f) ==
    /\ Registering(f, "clear")
    /\ record' = None
    /\ RegistrationIs(f, [reg[f] EXCEPT !.step = "register"])
    /\ UNCHANGED <<permission, local, issued, server, session, screen, cln, done, asked,
                   flows, events>>

RegisterServerUnchecked(f) == \E answer \in Answers :
    /\ Registering(f, "register")
    /\ server' = IF Handled(answer) THEN server \union {reg[f].sub} ELSE server
    /\ RegistrationIs(f, [reg[f] EXCEPT !.step = "store"])
    /\ UNCHANGED <<permission, local, issued, record, session, screen, cln, done, asked,
                   flows, events>>
RegisterServer(f) == \E answer \in Answers :
    /\ Registering(f, "register")
    /\ server' = IF Handled(answer) THEN server \union {reg[f].sub} ELSE server
    /\ IF answer = "answered"
       THEN RegistrationIs(f, [reg[f] EXCEPT !.step = "store"]) /\ UNCHANGED screen
       ELSE EndRegistration(f, "server-registration-failed")
    /\ UNCHANGED <<permission, local, issued, record, session, cln, done, asked, flows, events>>

\* The answer is stored and published; a test goes on to its send.
StoreRegistration(f) ==
    /\ Registering(f, "store")
    /\ record' = [endpoint |-> reg[f].sub, phase |-> "registered"]
    /\ reconciled' = "matched-registered"
    /\ RegTransition(f, "server-registered")
    /\ RegistrationIs(f, IF reg[f].kind = "test" THEN [reg[f] EXCEPT !.step = "test"] ELSE None)
    /\ UNCHANGED <<permission, local, issued, server, session, tab, setup, lastTest,
                   cln, done, asked, flows, events>>

\* The server queues the test for every active subscription of the user;
\* an answer of none queued is an error.
SendTest(f) == \E answer \in Answers :
    /\ Registering(f, "test")
    /\ IF answer = "answered" /\ server # {}
       THEN /\ RegistrationIs(f, None)
            /\ RegTransition(f, "test-queued")
            /\ asked' = IF reg[f].mount = "gone" THEN asked ELSE reg[f].company
            /\ UNCHANGED <<tab, setup, reconciled, lastTest>>
       ELSE EndRegistration(f, "test-failed") /\ UNCHANGED asked
    /\ UNCHANGED <<world, cln, done, flows, events>>

\* The user says whether the test arrived.
ConfirmArrivalWhileBusy(arrived) ==
    /\ Mounted /\ (AnswerOffered \/ Busy)
    /\ pd' = ReduceDelivery(Shown, IF arrived THEN "arrival-confirmed" ELSE "arrival-missing")
    /\ lastTest' = IF arrived THEN "arrived" ELSE "not-arrived"
    /\ UNCHANGED <<world, tab, setup, reconciled, reg, cln, done, asked, flows, events>>
ConfirmArrival(arrived) ==
    /\ Mounted /\ AnswerOffered
    /\ pd' = ReduceDelivery(Shown, IF arrived THEN "arrival-confirmed" ELSE "arrival-missing")
    /\ lastTest' = IF arrived THEN "arrived" ELSE "not-arrived"
    /\ UNCHANGED <<world, tab, setup, reconciled, reg, cln, done, asked, flows, events>>

(***************************************************************************)
(* Cleanup: "turn push off" on the screen, or the first half of a          *)
(* disconnect on the devices tab.                                          *)
(***************************************************************************)
NewCleanup(by) == [step |-> "query", by |-> by, sub |-> None, meta |-> None,
                   result |-> None, mount |-> "observed", company |-> Solitude]

StartCleanup(flow) ==
    /\ CanStart
    /\ cln' = [f \in Flows |-> IF f = NewFlow THEN flow ELSE Joined(cln[f])]
    /\ reg' = [f \in Flows |-> Joined(reg[f])]
    /\ flows' = flows + 1
    /\ UNCHANGED <<world, screen, done, asked, events>>

TurnPushOff == Mounted /\ RowOffered /\ StartCleanup(NewCleanup("screen"))

\* A tab that waits for a disconnect starts no other; a cleanup that completed
\* before is not repeated.
Disconnecting == \E f \in Flows :
    cln[f] # None /\ cln[f].by = "disconnect" /\ cln[f].mount = "observed"
Disconnect ==
    /\ tab = "devices" /\ session /\ ~Disconnecting
    /\ StartCleanup(
           IF done = None THEN NewCleanup("disconnect")
           ELSE [NewCleanup("disconnect") EXCEPT
                     !.step = "session", !.result = "complete",
                     !.company = IF done = "alone" THEN Solitude ELSE done])

Cleaning(f, step) == cln[f] # None /\ cln[f].step = step
CleanupIs(f, flow) == cln' = [cln EXCEPT ![f] = flow]

\* The result reaches the screen, or the disconnect goes on to its session.
EndCleanup(f, result) ==
    /\ CleanupIs(f, IF cln[f].by = "screen" THEN None
                    ELSE [cln[f] EXCEPT !.step = "session", !.result = result])
    /\ pd' = IF cln[f].by = "screen" /\ cln[f].mount # "gone" THEN None ELSE pd
    /\ UNCHANGED <<tab, setup, reconciled, lastTest>>

CleanupFails(f) ==
    /\ \E step \in {"query", "phase", "unsubscribe", "clear"} : Cleaning(f, step)
    /\ EndCleanup(f, "incomplete")
    /\ UNCHANGED <<world, reg, done, asked, flows, events>>

\* Local subscription and record are read and reconciled.
CleanupQuery(f) ==
    /\ Cleaning(f, "query")
    /\ CASE Reconcile \in {"invalid", "local-only", "mismatch"} -> EndCleanup(f, "incomplete")
         [] Reconcile = "none" -> EndCleanup(f, "not-verified")
         [] OTHER ->
              /\ CleanupIs(f, [cln[f] EXCEPT
                   !.sub = local, !.meta = record,
                   !.step = IF record.phase = "registered" THEN "unregister"
                            ELSE IF local # None THEN "unsubscribe" ELSE "clear"])
              /\ UNCHANGED screen
    /\ UNCHANGED <<world, reg, done, asked, flows, events>>

CleanupUnregister(f) == \E answer \in Answers :
    /\ Cleaning(f, "unregister")
    /\ Unregister(answer, cln[f].meta.endpoint)
    /\ IF answer = "answered"
       THEN CleanupIs(f, [cln[f] EXCEPT !.step = "phase"]) /\ UNCHANGED screen
       ELSE EndCleanup(f, "incomplete")
    /\ UNCHANGED <<permission, local, issued, record, session, reg, done, asked, flows, events>>

\* The record as it was read, in its next phase.
Removed(meta) == [meta EXCEPT !.phase = "server-removed"]

CleanupWritePhase(f) ==
    /\ Cleaning(f, "phase")
    /\ record' = Removed(cln[f].meta)
    /\ CleanupIs(f, [cln[f] EXCEPT
           !.step = IF cln[f].sub # None THEN "unsubscribe" ELSE "clear"])
    /\ UNCHANGED <<permission, local, issued, server, session, screen, reg, done, asked,
                   flows, events>>

\* Only the subscription that was reconciled is removed: another one is left
\* alone, and none at all is a rejection.
SameSubscription(f) == local = cln[f].sub

CleanupUnsubscribe(f) ==
    /\ Cleaning(f, "unsubscribe")
    /\ IF SameSubscription(f)
       THEN /\ local' = None
            /\ CleanupIs(f, [cln[f] EXCEPT !.step = "clear"])
            /\ UNCHANGED screen
       ELSE UNCHANGED local /\ EndCleanup(f, "incomplete")
    /\ UNCHANGED <<permission, issued, record, server, session, reg, done, asked, flows, events>>

CleanupClear(f) ==
    /\ Cleaning(f, "clear")
    /\ record' = None
    /\ EndCleanup(f, "complete")
    /\ UNCHANGED <<permission, local, issued, server, session, reg, done, asked, flows, events>>

SaysCleanedUpUnlessUnverified(flow) == flow.result # "not-verified"

\* What the panel says of a disconnect, by the result of its cleanup.
SaysCleanedUp(flow) == flow.result = "complete"

\* The session is disconnected whatever the cleanup said.
DisconnectSession(f) == \E answer \in Answers :
    /\ Cleaning(f, "session")
    /\ session' = (session /\ ~Handled(answer))
    /\ CleanupIs(f, None)
    /\ done' = IF cln[f].mount # "gone" /\ SaysCleanedUp(cln[f]) THEN cln[f].company ELSE done
    /\ UNCHANGED <<permission, local, issued, record, server, screen, reg, asked, flows, events>>

(***************************************************************************)
(* The page, the browser and the server around the flows.                  *)
(***************************************************************************)
PreparePush ==
    /\ Mounted /\ ~setup
    /\ setup' = TRUE
    /\ UNCHANGED <<world, tab, pd, reconciled, lastTest, reg, cln, done, asked, flows, events>>

\* The lifecycle query runs on mount, on focus and after a failure.
LoadReconciliation(answer) ==
    /\ Mounted
    /\ answer \in {Reconcile, "failed"}
    /\ reconciled' = answer
    /\ UNCHANGED <<world, tab, setup, pd, lastTest, reg, cln, done, asked, flows, events>>

SelectTab ==
    /\ tab' = IF tab = "devices" THEN "notifications" ELSE "devices"
    /\ pd' = None /\ done' = None
    /\ reg' = [f \in Flows |-> Detach(reg[f])] /\ cln' = [f \in Flows |-> Detach(cln[f])]
    /\ UNCHANGED <<world, setup, reconciled, lastTest, asked, flows, events>>

NoFlow == [f \in Flows |-> None]

Reload ==
    /\ events < MaxDisturbances
    /\ reg' = NoFlow /\ cln' = NoFlow /\ pd' = None /\ reconciled' = None /\ done' = None
    /\ setup' = FALSE
    /\ events' = events + 1
    /\ UNCHANGED <<world, tab, lastTest, asked, flows>>

\* The browser replaces or drops the subscription, or the user changes the
\* permission, which drops it too.
SubscriptionChanges ==
    /\ events < MaxDisturbances /\ local # None
    /\ \/ issued < MaxEndpoints /\ local' = issued + 1 /\ issued' = issued + 1
       \/ local' = None /\ UNCHANGED issued
    /\ events' = events + 1
    /\ UNCHANGED <<permission, record, server, session, screen, reg, cln, done, asked, flows>>

PermissionChanges ==
    /\ events < MaxDisturbances
    /\ permission' \in {"default", "denied", "granted"} \ {permission}
    /\ local' = IF permission' = "granted" THEN local ELSE None
    /\ events' = events + 1
    /\ UNCHANGED <<issued, record, server, session, screen, reg, cln, done, asked, flows>>

\* A push to an endpoint the browser dropped is answered Gone: the row goes.
EndpointGone ==
    /\ \E endpoint \in server \ {local} : server' = server \ {endpoint}
    /\ UNCHANGED <<permission, local, issued, record, session, screen, reg, cln, done,
                   asked, flows, events>>

PairAgain ==
    /\ ~session /\ tab = "devices"
    /\ session' = TRUE
    /\ UNCHANGED <<permission, local, issued, record, server, screen, reg, cln, done,
                   asked, flows, events>>

Init ==
    /\ permission = "default" /\ local = None /\ issued = 0
    /\ record \in {None, Corrupt}
    /\ server = {} /\ session = TRUE
    /\ tab = "notifications" /\ setup = FALSE /\ pd = None /\ reconciled = None
    /\ lastTest = None
    /\ reg = NoFlow /\ cln = NoFlow /\ done = None /\ asked = None
    /\ flows = 0 /\ events = 0

RegistrationStep(f) ==
    \/ SubscribeDenied(f) \/ SubscribeFails(f) \/ Subscribed(f)
    \/ PrepareRegistration(f) \/ RegistrationFails(f) \/ UnregisterOld(f)
    \/ ClearOldRecord(f) \/ RegisterServer(f) \/ StoreRegistration(f) \/ SendTest(f)

CleanupStep(f) ==
    \/ CleanupFails(f) \/ CleanupQuery(f) \/ CleanupUnregister(f) \/ CleanupWritePhase(f)
    \/ CleanupUnsubscribe(f) \/ CleanupClear(f) \/ DisconnectSession(f)

Next ==
    \/ \E kind \in {"connect", "test"} : StartRegistration(kind)
    \/ TurnPushOff \/ Disconnect
    \/ \E f \in Flows : RegistrationStep(f) \/ CleanupStep(f)
    \/ \E arrived \in BOOLEAN : ConfirmArrival(arrived)
    \/ PreparePush \/ \E answer \in Reconciliations : LoadReconciliation(answer)
    \/ SelectTab \/ Reload \/ SubscriptionChanges \/ PermissionChanges \/ EndpointGone
    \/ PairAgain

Spec == Init /\ [][Next]_vars

--------------------------------------------------------------------------------
Mounts == {"observed", "mounted", "gone"}
Cleanups == [step: {"query", "unregister", "phase", "unsubscribe", "clear", "session"},
             by: {"screen", "disconnect"}, sub: Endpoints \union {None},
             meta: Metadata \union {None}, result: CleanupResults \union {None},
             mount: Mounts, company: Company]
Registrations == [step: {"subscribe", "prepare", "unregister", "clear", "register",
                         "store", "test"},
                  kind: {"connect", "test"}, sub: Endpoints \union {None},
                  old: Endpoints \union {None}, mount: Mounts, base: Deliveries,
                  company: Company]

(* Every variable keeps to its type. *)
TypeOK ==
    /\ permission \in {"default", "denied", "granted"}
    /\ issued \in 0..MaxEndpoints /\ local \in 1..issued \union {None}
    /\ record \in Metadata \union {None, Corrupt}
    /\ server \subseteq 1..issued /\ session \in BOOLEAN
    /\ tab \in {"notifications", "devices"} /\ setup \in BOOLEAN
    /\ pd \in Deliveries \union {None}
    /\ reconciled \in Reconciliations \union {None}
    /\ lastTest \in {None, "test-sending", "arrived", "not-arrived", "error"}
    /\ reg \in [Flows -> Registrations \union {None}]
    /\ cln \in [Flows -> Cleanups \union {None}]
    /\ done \in Company \union {None} /\ asked \in Company \union {None}
    /\ flows \in 0..MaxFlows /\ events \in 0..MaxDisturbances

Alone(flow) == flow # None /\ flow.company = "alone"

(* A registration that ran alone and was accepted is on the server as long   *)
(* as the browser keeps the subscription, whatever flows before it left      *)
(* behind: the row the screen calls registered is there.                    *)
RegisteredIsOnServer == \A f \in Flows :
    Alone(reg[f]) /\ reg[f].step \in {"store", "test"} /\ reg[f].sub = local
    => local \in server

(* A record of a live registration is only given up once the server has     *)
(* dropped that registration, whatever fails, is lost or is reloaded in      *)
(* between: without the record nothing here can remove the row any more.     *)
(* A flow that shares the browser with another one is not held to it.        *)
RecordGivenUpAfterRemoval == [][
    (\A f \in InFlight : Alone(reg[f]) \/ Alone(cln[f])) =>
        \A endpoint \in Endpoints :
            record = [endpoint |-> endpoint, phase |-> "registered"]
            /\ record' # record => endpoint \notin server]_vars

(* A disconnect that reports its push cleanup complete, the one of an       *)
(* earlier attempt included, leaves no local subscription and no record, if  *)
(* no other flow was in flight beside it or beside that attempt.            *)
DisconnectReportIsTrue == [][
    \A f \in Flows :
        Alone(cln[f]) /\ cln[f].step = "session" /\ cln'[f] = None /\ SaysCleanedUp(cln[f])
        => local = None /\ record = None]_vars

(* The user's answer about a test that ran alone is recorded for that test:  *)
(* none was sent after it, and the test recorded last did not fail.         *)
AnswerIsForTheLastTest == [][
    lastTest' # lastTest /\ lastTest' \in {"arrived", "not-arrived"} /\ asked = "alone"
    => lastTest # "error" /\ \A f \in Flows : reg[f] # None => reg[f].mount = "gone"]_vars

(* "Server and local subscription are both removed": when a cleanup reports  *)
(* complete the server has no row for the endpoint it cleaned up.            *)
CompleteMeansServerRemoved == [][
    \A f \in Flows :
        Cleaning(f, "clear") /\ record' = None /\ record # None
        => cln[f].meta.endpoint \notin server]_vars
================================================================================
