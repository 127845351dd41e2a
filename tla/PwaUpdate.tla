-------------------------------- MODULE PwaUpdate --------------------------------
(***************************************************************************)
(* How a page of the installed web app is replaced by a new version: a new *)
(* service worker waits, the page offers it, saves the user's input when   *)
(* told to, lets the worker take over, and only then loads itself again.   *)
(* Another page of the app may let the worker take over at any time.       *)
(***************************************************************************)
EXTENDS Naturals, FiniteSets

CONSTANTS
    Workers,           \* versions of the service worker: 1..n, in order
    MaxReloads,        \* bound: reloads of the page
    NoWorker           \* none

VARIABLES
    state,             \* per worker, as the browser has it
    controlled,        \* does a worker control this page?
    registration,      \* the page's registration: "asked", "held" or "failed"
    found,             \* workers whose installation this page watches
    lifecycle,         \* its snapshot: [status, error]
    waitingWorker,     \* the worker the lifecycle would activate
    listening,         \* a controllerchange handler that reloads the page
    activation,        \* the run of activateWhenSafe: "none" or "waiting"
    notice,            \* [registrationFailed, actionError] of the controller
    retrying,          \* update() asked for by the user's retry
    handoff,           \* is what the user typed saved, with the route?
    reloads            \* history: [count, prepared]

updateVars == <<state, controlled, registration, found, lifecycle, waitingWorker, listening,
                activation, notice, retrying, handoff, reloads>>

ASSUME PwaUpdateAssumption == NoWorker \notin Workers /\ MaxReloads \in Nat

With(s) == {w \in Workers : state[w] = s}
Waiting == IF With("installed") = {} THEN NoWorker ELSE CHOOSE w \in With("installed") : TRUE
Snapshot(status, error) == [status |-> status, error |-> error]

\* What the lifecycle is left with after an event: its snapshot and its worker.
Lifecycle(s, w) == lifecycle' = s /\ waitingWorker' = w
MarkReady(w) == Lifecycle(Snapshot("ready", ""), w)
LifecycleUnchanged == UNCHANGED <<lifecycle, waitingWorker>>

FreshNotice == [registrationFailed |-> FALSE, actionError |-> FALSE]
PageStart ==
    /\ registration = "asked" /\ found = {} /\ lifecycle = Snapshot("idle", "")
    /\ waitingWorker = NoWorker /\ listening = FALSE /\ activation = "none"
    /\ notice = FreshNotice /\ retrying = FALSE /\ handoff = FALSE

UpdateInit ==
    /\ state \in {[w \in Workers |-> IF w = 1 THEN s ELSE "unknown"] : s \in {"unknown", "activated"}}
    /\ controlled \in IF state[1] = "activated" THEN BOOLEAN ELSE {FALSE}
    /\ PageStart
    /\ reloads = [count |-> 0, prepared |-> TRUE]

\* observeRegistration: what waits is ready; what installs is watched, once.
ObserveRegistration ==
    /\ registration' = "held"
    /\ IF registration = "held"
       THEN /\ UNCHANGED found
            /\ IF Waiting # NoWorker /\ controlled THEN MarkReady(Waiting) ELSE LifecycleUnchanged
       ELSE /\ found' = found \cup With("installing")
            /\ IF With("installing") # {}
               THEN Lifecycle(Snapshot("installing", ""),
                              IF Waiting # NoWorker /\ controlled THEN Waiting ELSE waitingWorker)
               ELSE IF Waiting # NoWorker /\ controlled THEN MarkReady(Waiting)
               ELSE LifecycleUnchanged

RegistrationReady ==
    /\ registration = "asked"
    /\ ObserveRegistration
    /\ UNCHANGED <<state, controlled, listening, activation, notice, retrying, handoff, reloads>>

RegistrationRejected ==
    /\ registration = "asked"
    /\ registration' = "failed"
    /\ notice' = [notice EXCEPT !.registrationFailed = TRUE]
    /\ UNCHANGED <<state, controlled, found, lifecycle, waitingWorker, listening, activation,
                   retrying, handoff, reloads>>

\* The browser meets the next version of the script.
UpdateFound(w) ==
    /\ state[w] = "unknown" /\ With("installing") = {}
    /\ \A v \in Workers : v < w => state[v] # "unknown"
    /\ state' = [state EXCEPT ![w] = "installing"]
    /\ IF registration = "held"
       THEN /\ found' = found \cup {w}
            /\ Lifecycle(Snapshot("installing", ""), waitingWorker)
       ELSE LifecycleUnchanged /\ UNCHANGED found
    /\ UNCHANGED <<controlled, registration, listening, activation, notice, retrying, handoff, reloads>>

\* It is installed: what waited before is redundant, and without a worker in
\* charge it takes over at once.
WorkerInstalled(w) ==
    /\ state[w] = "installing"
    /\ state' = [v \in Workers |-> CASE v = w -> "installed"
                                     [] state[v] = "installed" -> "redundant"
                                     [] OTHER -> state[v]]
    /\ IF w \notin found THEN LifecycleUnchanged
       ELSE IF controlled THEN MarkReady(w)
       ELSE Lifecycle(Snapshot("idle", ""), NoWorker)
    /\ UNCHANGED <<controlled, registration, found, listening, activation, notice, retrying,
                   handoff, reloads>>

WorkerFails(w) ==
    /\ state[w] = "installing"
    /\ state' = [state EXCEPT ![w] = "redundant"]
    /\ IF w \in found THEN Lifecycle(Snapshot("failed", "install"), NoWorker)
                      ELSE LifecycleUnchanged
    /\ UNCHANGED <<controlled, registration, found, listening, activation, notice, retrying,
                   handoff, reloads>>

NewPage ==
    /\ registration' = "asked" /\ found' = {} /\ lifecycle' = Snapshot("idle", "")
    /\ waitingWorker' = NoWorker /\ listening' = FALSE /\ activation' = "none"
    /\ notice' = FreshNotice /\ retrying' = FALSE

\* The waiting worker takes over: the first one, or by skipWaiting() from this page
\* (asked) or another one.  It claims every page, and this one reloads if it waits
\* for that; a worker put out of charge, if watched, counts as a failed installation.
TakeOver(asked) ==
    LET w == Waiting
        former == With("activated")
    IN /\ w # NoWorker /\ reloads.count < MaxReloads
       /\ asked => activation = "waiting" /\ waitingWorker = w
       /\ state' = [v \in Workers |-> CASE v = w -> "activated"
                                        [] v \in former -> "redundant" [] OTHER -> state[v]]
       /\ controlled' = TRUE
       /\ IF listening
          THEN /\ NewPage
               /\ handoff' = FALSE
               /\ reloads' = [count |-> reloads.count + 1,
                              prepared |-> activation = "waiting" /\ handoff]
          ELSE /\ IF former \cap found # {} THEN Lifecycle(Snapshot("failed", "install"), NoWorker)
                                            ELSE LifecycleUnchanged
               /\ UNCHANGED <<registration, found, listening, activation, notice, retrying, handoff,
                              reloads>>

VisibleStatus == IF notice.registrationFailed THEN "failed" ELSE lifecycle.status
Offers == [activate |-> VisibleStatus = "ready" /\ activation = "none",
           retry |-> VisibleStatus = "failed"]

\* The button: the preservers save what was typed, and the handoff is written.
Activate(preserved) ==
    /\ Offers.activate
    /\ notice' = [notice EXCEPT !.actionError = ~preserved /\ waitingWorker # NoWorker]
    /\ IF waitingWorker = NoWorker \/ ~preserved
       THEN UNCHANGED <<lifecycle, activation, listening, handoff>>
       ELSE /\ lifecycle' = Snapshot("activating", "")
            /\ activation' = "waiting" /\ listening' = TRUE
            /\ handoff' = TRUE
    /\ UNCHANGED <<state, controlled, registration, found, waitingWorker, retrying, reloads>>

\* No controllerchange within ten seconds.
FinishStillListening == UNCHANGED listening
FinishActivation == listening' = FALSE

ActivationTimeout ==
    /\ activation = "waiting"
    /\ lifecycle' = Snapshot("failed", "timeout")
    /\ activation' = "none" /\ FinishActivation
    /\ notice' = [notice EXCEPT !.actionError = FALSE]
    /\ UNCHANGED <<state, controlled, registration, found, waitingWorker, retrying, handoff, reloads>>

\* The retry button: registers again if need be, looks at the registration and
\* asks the browser for a newer script.
Retry ==
    /\ Offers.retry /\ ~retrying
    /\ notice' = FreshNotice
    /\ ObserveRegistration
    /\ retrying' = TRUE
    /\ UNCHANGED <<state, controlled, listening, activation, handoff, reloads>>

RetryEnds(failed) ==
    /\ retrying
    /\ retrying' = FALSE
    /\ notice' = IF failed THEN [notice EXCEPT !.registrationFailed = TRUE] ELSE notice
    /\ UNCHANGED <<state, controlled, registration, found, lifecycle, waitingWorker, listening,
                   activation, handoff, reloads>>

UpdateNext ==
    \/ RegistrationReady \/ RegistrationRejected
    \/ \E w \in Workers : UpdateFound(w) \/ WorkerInstalled(w) \/ WorkerFails(w)
    \/ \E asked \in BOOLEAN : TakeOver(asked)
    \/ ActivationTimeout \/ Retry
    \/ \E ok \in BOOLEAN : Activate(ok) \/ RetryEnds(ok)

UpdateSpec == UpdateInit /\ [][UpdateNext]_updateVars

--------------------------------------------------------------------------------
(* Every variable stays within the values the code can hold.                *)
UpdateTypeOK ==
    /\ state \in [Workers -> {"unknown", "installing", "installed", "activated", "redundant"}]
    /\ controlled \in BOOLEAN /\ listening \in BOOLEAN /\ retrying \in BOOLEAN
    /\ registration \in {"asked", "held", "failed"} /\ found \subseteq Workers
    /\ lifecycle \in [status : {"idle", "installing", "ready", "activating", "failed"},
                      error : {"", "install", "timeout"}]
    /\ waitingWorker \in Workers \cup {NoWorker} /\ activation \in {"none", "waiting"}
    /\ notice \in [registrationFailed : BOOLEAN, actionError : BOOLEAN]
    /\ handoff \in BOOLEAN
    /\ reloads \in [count : 0..MaxReloads, prepared : BOOLEAN]

(* The page is loaded again only by an activation the user asked for, that  *)
(* has not been given up, and after what was typed had been saved: a worker *)
(* that takes over late, or for another page, reloads nothing.              *)
ReloadIsPrepared == reloads.prepared
================================================================================
