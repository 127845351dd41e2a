----------------------------- MODULE LaundryPage -----------------------------
(***************************************************************************)
(* The laundry page: the server's snapshot of the washing towers, cached   *)
(* and refreshed while the network comes and goes; what the page, its      *)
(* tower grid and its machine list make of it; and the watch card, which   *)
(* asks the server to notify about one appliance's session.                *)
(***************************************************************************)
EXTENDS CampusQuery, SequencesExt

CONSTANTS Snapshots,     \* the snapshots the server may send, their age aside
          StaleTime,     \* ticks after which the page refetches
          SnapshotGrace, \* ticks for which a snapshot counts as recent
          Conditions,    \* the modes, with their minutes, that are chosen
          Accounts,      \* the account's states in front of the watch card
          MaxLaundryTime

VARIABLES now, online, laundry, refresh, personal, choice, watches, listed, request
laundryVars == <<now, online, laundry, refresh, personal, choice, watches, listed, request>>

----------------------------------------------------------------------------
(* One appliance, as a cell of the grid and a card of the list show it.    *)

\* Whether a load could be started: errors first, then the server's
\* projection, and the machine's own status only without one.
AvailabilityState(a) ==
    IF a = None THEN "unavailable"
    ELSE IF a.errorCode # None \/ "ERROR" \in {a.operational, a.projection} THEN "error"
    ELSE IF a.projection # None
    THEN IF \/ a.projection = "CONFIRMED_COMPLETED"
            \/ a.projection = "IDLE" /\ a.operational # "SCHEDULED"
         THEN "available" ELSE "unavailable"
    ELSE IF a.operational \in {"IDLE", "COMPLETED"} THEN "available" ELSE "unavailable"

CountdownProjections == {"OBSERVED", "ESTIMATED_RUNNING", "AWAITING_COMPLETION_CONFIRMATION"}

NonNegative(n) == IF n < 0 THEN 0 ELSE n

\* Minutes left; they count down only while the machine says it is running.
RemainingMinutes(a, at) ==
    IF a = None THEN None
    ELSE IF a.remaining = None THEN None
    ELSE IF /\ a.operational = "RUNNING"
            /\ a.projection \in CountdownProjections
            /\ a.finishAt # None
    THEN NonNegative(a.finishAt - at) ELSE NonNegative(a.remaining)

OverviewText(a, at) ==
    LET state == AvailabilityState(a) IN
    IF state = "available" THEN "blank" ELSE IF state = "error" THEN "error"
    ELSE RemainingMinutes(a, at)

RemainingText(a, at) ==
    IF a = None THEN None
    ELSE CASE a.projection = "CONFIRMED_COMPLETED" -> "completed"
           [] a.projection = "ERROR" -> "error"
           [] a.projection = "IDLE" ->
                 IF a.operational = "SCHEDULED" THEN "scheduled" ELSE "available"
           [] a.projection = "UNKNOWN" -> None
           [] OTHER -> RemainingMinutes(a, at)

Percent(part, whole) ==
    LET value == (100 * part) \div whole
    IN  IF value < 0 THEN 0 ELSE IF value > 100 THEN 100 ELSE value

ProgressOf(a, at) ==
    LET left == RemainingMinutes(a, at) IN
    IF AvailabilityState(a) = "error" THEN 0
    ELSE IF a = None THEN None
    ELSE IF a.total = 0 \/ left = None \/ AvailabilityState(a) = "available" THEN None
    ELSE Percent(a.total - left, a.total)

\* A start counts for a day, and may lie five minutes ahead of the clock.
DayMinutes == 24 * 60
ValidStartedAt(a, at) ==
    IF a = None THEN None
    ELSE IF a.startedAt = None THEN None
    ELSE IF a.startedAt >= at - DayMinutes /\ a.startedAt <= at + 5 THEN a.startedAt ELSE None

\* The card's tone, which decides the rest of the card.
ApplianceTone(a) ==
    LET state == AvailabilityState(a) IN
    IF a = None THEN "neutral"
    ELSE IF state # "unavailable" THEN state
    ELSE IF a.projection = "AWAITING_COMPLETION_CONFIRMATION" THEN "confirming"
    ELSE IF "PAUSED" \in {a.projection, a.operational} \/ a.code = "PAUSE" THEN "warning"
    ELSE IF a.operational # "SCHEDULED" /\ a.projection = "UNKNOWN" THEN "neutral" ELSE "active"

RemainingLabel(a, tone, at) ==
    IF a = None THEN "unknown"
    ELSE IF tone = "available" THEN "available"
    ELSE IF tone = "error" THEN "check"
    ELSE LET text == RemainingText(a, at) IN IF text = None THEN "checking" ELSE text

VisibleRisk(a) == IF a = None THEN None
                  ELSE IF a.risk \in {"slight", "caution"} THEN a.risk ELSE None

ApplianceDetail(a, at) ==
    LET tone == ApplianceTone(a)
        timed == tone \in {"active", "confirming", "warning"}
    IN  [tone |-> tone,
         hint |-> tone \in {"error", "confirming"} \/ (a # None /\ a.errorCode # None),
         remaining |-> RemainingLabel(a, tone, at),
         progress |-> CASE tone = "error" -> 0
                        [] tone = "confirming" -> 100
                        [] tone \in {"active", "warning"} -> ProgressOf(a, at)
                        [] OTHER -> None,
         startedAt |-> IF timed THEN ValidStartedAt(a, at) ELSE None,
         finishAt |-> IF timed THEN a.finishAt ELSE None,
         estimated |-> timed /\ a.estimated,
         risk |-> VisibleRisk(a)]

TowerCell(a, at, showRisk) ==
    [state |-> AvailabilityState(a),
     text |-> OverviewText(a, at),
     label |-> IF AvailabilityState(a) = "error" THEN "warning" ELSE RemainingText(a, at),
     risk |-> IF showRisk THEN VisibleRisk(a) ELSE None]

\* Towers are numbered by the end of their id; those without a number last.
SortedTowers(machines) ==
    SortSeq(machines, LAMBDA m, n : /\ m.number # None
                                    /\ n.number = None \/ m.number < n.number)

WashTowerGrid(machines, at, showRisk) ==
    [i \in DOMAIN machines |-> [kind \in {"washer", "dryer"} |->
        TowerCell(SortedTowers(machines)[i][kind], at, showRisk)]]

\* The parts of an appliance's section, from its detail.
RecentRiskNotice(detail, showRisk) == IF showRisk THEN detail.risk ELSE None
ProgressText(detail) ==
    IF detail.progress = None THEN None
    ELSE IF detail.tone = "error" THEN "unknown" ELSE <<detail.progress, detail.remaining>>
ApplianceStatus(detail) == [tone |-> detail.tone, hint |-> detail.hint]
ApplianceProgress(detail) ==
    [bar |-> detail.progress, text |-> ProgressText(detail), warning |-> detail.tone = "warning"]
ApplianceTiming(detail) == [started |-> detail.startedAt, ends |-> detail.finishAt]
ApplianceSection(detail, showRisk) ==
    [status |-> ApplianceStatus(detail), remaining |-> detail.remaining,
     progress |-> ApplianceProgress(detail), timing |-> ApplianceTiming(detail),
     risk |-> RecentRiskNotice(detail, showRisk)]
MachineCard(machine, at, showRisk) ==
    [kind \in {"washer", "dryer"} |-> ApplianceSection(ApplianceDetail(machine[kind], at), showRisk)]
MachineList(machines, at, showRisk) ==
    [i \in DOMAIN machines |-> MachineCard(SortedTowers(machines)[i], at, showRisk)]

----------------------------------------------------------------------------
(* The page's own judgement of the snapshot.                               *)

SnapshotIsRecent(snapshot, at) ==
    /\ at - snapshot.asOf >= -1
    /\ at - snapshot.asOf <= SnapshotGrace

ReliableFreshness == {"REFRESH_OBSERVED", "WITHIN_REFRESH_WINDOW", "UNVERIFIABLE_STABLE"}

SituationIsReliable(snapshot, error, at) ==
    /\ snapshot.machines # <<>>
    /\ ~error
    /\ snapshot.freshness \in ReliableFreshness
    /\ SnapshotIsRecent(snapshot, at)

CapacityReliable(snapshot, error, at) ==
    /\ snapshot.collectorHealthy
    /\ snapshot.collection = "SUCCESS"
    /\ SituationIsReliable(snapshot, error, at)

\* How many loads each side could start, as the server counted them; no
\* number when the server or the page does not trust it.
CapacityCards(snapshot, reliable) ==
    [access \in {"men", "women"} |->
        LET count == IF reliable /\ snapshot.capacity # None
                     THEN snapshot.capacity[access] ELSE None
        IN  [count |-> count,
             status |-> IF count = None THEN "checking"
                        ELSE IF count > 0 THEN "available" ELSE "full"]]

\* Why the page says its data is not live; the first reason wins.
PageReason(snapshot, offline, error, at) ==
    CASE offline -> "offline"
      [] ~offline /\ error -> "refresh-failed"
      [] ~offline /\ ~error /\ ~snapshot.collectorHealthy -> "collector-unavailable"
      [] ~offline /\ ~error /\ snapshot.collectorHealthy
         /\ snapshot.collection # "SUCCESS" -> "collection-incomplete"
      [] OTHER ->
           IF snapshot.machines = <<>> THEN "no-machines"
           ELSE IF SituationIsReliable(snapshot, FALSE, at) THEN None
           ELSE IF ~SnapshotIsRecent(snapshot, at) THEN "snapshot-unreliable"
           ELSE IF snapshot.freshness = "REFRESH_OVERDUE" THEN "source-overdue"
           ELSE "source-stale"

KindFor(reason, recovered) ==
    CASE reason = None -> IF recovered THEN "recovered" ELSE "normal"
      [] reason = "offline" -> "offline"
      [] reason = "no-machines" -> "empty"
      [] OTHER -> "stale"

\* The page judges at the time its data came, not at the time it is looked at.
PageState ==
    LET snapshot == laundry.data
        failed == laundry.error \/ RefreshFailureIsCurrent(laundry, refresh)
        kind == IF snapshot = None THEN BoundaryKind(laundry, online)
                ELSE KindFor(PageReason(snapshot, IsOffline(laundry, online), failed,
                                        laundry.dataAt),
                             Recovered(laundry, refresh, now, StaleTime))
    IN  [kind |-> kind,
         canRetry |-> RetryShown(kind \in {"stale", "error"}, refresh.status = "pending"),
         allowWatch |-> snapshot # None /\ kind \in {"normal", "recovered"}]

IsFailureKind(kind) == kind \in {"stale", "offline", "error"}

\* The newest first observation of any appliance's present content.
SourceObservedAt(snapshot) ==
    LET times == UNION {{m[kind].observedAt : kind \in {k \in {"washer", "dryer"} : m[k] # None}} :
                          m \in ToSet(snapshot.machines)} \ {None}
    IN  IF times = {} THEN None ELSE Max(times)

\* The notice above the page: the collector's trouble goes first in its words.
StatusNotice ==
    IF PageState.kind \in {"normal", "loading"} THEN None
    ELSE [type |-> PageState.kind,
          collector |-> ~laundry.data.collectorHealthy,
          retry |-> PageState.kind # "empty" /\ PageState.canRetry]

\* The counts leave the network and the refresh button out; only the query's
\* own error takes them away.
Presentation ==
    [cards |-> CapacityCards(laundry.data,
                             CapacityReliable(laundry.data, laundry.error, laundry.dataAt)),
     stale |-> ~laundry.data.collectorHealthy \/ IsFailureKind(PageState.kind)]
CapacitySummary ==
    [cards |-> Presentation.cards, observedAt |-> SourceObservedAt(laundry.data)]
TowerStatus(indicator, showRisk) ==
    [toggle |-> indicator,
     grid |-> WashTowerGrid(laundry.data.machines, laundry.dataAt, showRisk)]
MachineDetails(showRisk) == MachineList(laundry.data.machines, laundry.dataAt, showRisk)
LaundryContent(indicator, showRisk) ==
    [stale |-> Presentation.stale, notice |-> StatusNotice, capacity |-> CapacitySummary,
     towers |-> TowerStatus(indicator, showRisk), machines |-> MachineDetails(showRisk)]

\* The home page's card judges the same snapshot at the time it is drawn and
\* leaves a failed refetch out of it.
HomeCard ==
    [failed |-> laundry.error,
     unhealthy |-> ~laundry.data.collectorHealthy,
     counts |-> CapacityCards(laundry.data, CapacityReliable(laundry.data, FALSE, now))]

----------------------------------------------------------------------------
(* The watch card: one appliance, one condition.                           *)

AvailableStates == {"AVAILABLE", "IDLE", "READY", "COMPLETED", "CONFIRMED_COMPLETED"}
ActiveStates == {"RUNNING", "SCHEDULED", "PAUSED", "ERROR", "ESTIMATED_RUNNING",
                 "OBSERVED", "AWAITING_COMPLETION_CONFIRMATION"}

\* A mutant: only the machine's own status is looked at for a finished load.
HasActiveSessionByMachine(a) ==
    /\ a.session # None
    /\ a.operational \notin AvailableStates
    /\ {a.operational, a.projection} \cap ActiveStates # {}

HasActiveSession(a) ==
    /\ a.session # None
    /\ {a.operational, a.projection} \cap AvailableStates = {}
    /\ {a.operational, a.projection} \cap ActiveStates # {}

\* Every present appliance is a target; one without a live session has none.
LaundryTargets(machines) ==
    {[machine |-> m.id, kind |-> kind,
      session |-> IF HasActiveSession(m[kind]) THEN m[kind].session ELSE None,
      left |-> IF HasActiveSession(m[kind]) /\ m[kind].remaining # None
               THEN NonNegative(m[kind].remaining) ELSE None] :
         <<m, kind>> \in {mk \in ToSet(machines) \X {"washer", "dryer"} : mk[1][mk[2]] # None}}

\* A choice the snapshot no longer holds falls back to the first that it does.
SelectedTarget(machines) ==
    LET targets == LaundryTargets(machines)
        present == SelectSeq(machines, LAMBDA m : m.washer # None \/ m.dryer # None)
        machine == IF \E t \in targets : t.machine = choice.machine
                   THEN choice.machine ELSE present[1].id
        mine == {t \in targets : t.machine = machine}
        kind == IF \E t \in mine : t.kind = choice.kind THEN choice.kind
                ELSE IF \E t \in mine : t.kind = "washer" THEN "washer" ELSE "dryer"
    IN  IF targets = {} THEN None ELSE CHOOSE t \in mine : t.kind = kind

HasDuplicateActiveWatch(list, target) ==
    \E w \in list : w.machine = target.machine /\ w.kind = target.kind
                   /\ w.session = target.session

BuildInput(target) ==
    [machine |-> target.machine, kind |-> target.kind, session |-> target.session,
     mode |-> choice.mode,
     minutes |-> IF choice.mode = "before-completion" THEN choice.minutes ELSE 0]

\* A mutation counts as under way until the list it invalidated was refetched.
Busy == request # None
ListedWatches == IF listed.data = None THEN {} ELSE listed.data

WatchModel ==
    LET targets == LaundryTargets(laundry.data.machines)
        target == SelectedTarget(laundry.data.machines)
        sessionUnavailable == target # None /\ target.session = None
    IN  [machines |-> {t.machine : t \in targets},
         kinds |-> IF target = None THEN {}
                   ELSE {t.kind : t \in {u \in targets : u.machine = target.machine}},
         target |-> target,
         sessionUnavailable |-> sessionUnavailable,
         addDisabled |->
             \/ ~PageState.allowWatch
             \/ target = None
             \/ sessionUnavailable
             \/ choice.mode = "before-completion" /\ choice.minutes \notin 1..180
             \/ Busy
             \/ target # None /\ HasDuplicateActiveWatch(ListedWatches, target)]

\* The card's controls and what can be done with each.
WatchSelectors == [machines |-> WatchModel.machines, kinds |-> WatchModel.kinds]
WatchCondition ==
    [minutes |-> choice.mode = "before-completion", add |-> ~WatchModel.addDisabled,
     adding |-> IF Busy THEN request.kind = "add" ELSE FALSE]
ActiveWatches == [list |-> ListedWatches, remove |-> ~Busy]
LoadedCard ==
    [selectors |-> laundry.data.machines # <<>>, condition |-> WatchCondition,
     notLive |-> ~PageState.allowWatch, noSession |-> WatchModel.sessionUnavailable,
     watches |-> ActiveWatches]

\* What stands where the card would be, and what its button does.
PersonalContent ==
    CASE personal = "auth-required" -> "connect the PC"
      [] personal = "pending" -> "loading"
      [] personal = "error" -> "account failed"
      [] personal = "unsynchronized" -> "synchronize"
      [] OTHER -> IF listed.data = None /\ ~listed.error THEN "list loading" ELSE "card"

CardShown == laundry.data # None /\ PersonalContent = "card"
AddEnabled ==
    /\ CardShown
    /\ laundry.data.machines # <<>>
    /\ ~WatchModel.addDisabled

----------------------------------------------------------------------------
(* Steps: the query and its refresh.                                       *)

LaundryTick ==
    /\ now < MaxLaundryTime
    /\ now' = now + 1
    /\ UNCHANGED <<online, laundry, refresh, personal, choice, watches, listed, request>>

NetworkChanges ==
    /\ online' = ~online
    /\ UNCHANGED <<now, laundry, refresh, personal, choice, watches, listed, request>>

\* The interval, a focus, a reconnect or the boundary's retry.
Refetch ==
    /\ online /\ ~laundry.fetching
    /\ laundry' = Fetching(laundry)
    /\ UNCHANGED <<now, online, refresh, personal, choice, watches, listed, request>>

ManualRefresh ==
    /\ RefreshButton(refresh, online).enabled
    /\ refresh' = [status |-> "pending", submittedAt |-> now]
    /\ laundry' = IF laundry.data = None THEN laundry ELSE Fetching(laundry)
    /\ UNCHANGED <<now, online, personal, choice, watches, listed, request>>

RefreshEnds(status) ==
    refresh' = IF refresh.status = "pending" THEN [refresh EXCEPT !.status = status] ELSE refresh

\* The snapshot is as old as the server says when it arrives.
LaundryArrives ==
    /\ laundry.fetching /\ online
    /\ \E s \in Snapshots :
          laundry' = Settled(laundry, [s EXCEPT !.asOf = now - s.asOf], now)
    /\ RefreshEnds("success")
    /\ UNCHANGED <<now, online, personal, choice, watches, listed, request>>

LaundryFails ==
    /\ laundry.fetching
    /\ laundry' = Failed(laundry, now)
    /\ RefreshEnds("error")
    /\ UNCHANGED <<now, online, personal, choice, watches, listed, request>>

(* Steps: the account, the watch card and the server's watches.            *)

PersonalChanges ==
    /\ personal' \in Accounts \ {personal}
    /\ UNCHANGED <<now, online, laundry, refresh, choice, watches, listed, request>>

\* The list is asked for while there is an account to ask for; when it came is
\* of no account.
ListRefetch ==
    /\ personal = "ready" /\ online
    /\ \/ listed' = Settled(listed, watches, 0)
       \/ listed' = Failed(listed, 0)
    /\ request' = IF request # None /\ request.phase = "reload" THEN None ELSE request
    /\ UNCHANGED <<now, online, laundry, refresh, personal, choice, watches>>

Choose ==
    /\ CardShown
    /\ \/ \E t \in LaundryTargets(laundry.data.machines) :
              choice' = [choice EXCEPT !.machine = t.machine, !.kind = t.kind]
       \/ \E c \in Conditions :
              choice' = [choice EXCEPT !.mode = c[1], !.minutes = c[2]]
    /\ UNCHANGED <<now, online, laundry, refresh, personal, watches, listed, request>>

AddWatch ==
    /\ AddEnabled
    /\ request' = [kind |-> "add", phase |-> "call",
                   watch |-> BuildInput(SelectedTarget(laundry.data.machines))]
    /\ UNCHANGED <<now, online, laundry, refresh, personal, choice, watches, listed>>

RemoveWatch ==
    /\ CardShown /\ ~Busy
    /\ \E w \in ListedWatches : request' = [kind |-> "remove", phase |-> "call", watch |-> w]
    /\ UNCHANGED <<now, online, laundry, refresh, personal, choice, watches, listed>>

\* The server takes one active watch for a session; the answer may be lost.
RequestAnswered ==
    /\ IF request = None THEN FALSE ELSE request.phase = "call"
    /\ LET taken == request.kind = "add" /\ HasDuplicateActiveWatch(watches, request.watch)
       IN  watches' = CASE taken -> watches
                        [] request.kind = "remove" -> watches \ {request.watch}
                        [] OTHER -> watches \cup {request.watch}
    /\ request' \in {None} \cup (IF watches' = watches THEN {} ELSE {[request EXCEPT !.phase = "reload"]})
    /\ UNCHANGED <<now, online, laundry, refresh, personal, choice, listed>>

RequestFails ==
    /\ IF request = None THEN FALSE ELSE request.phase = "call"
    /\ request' = None
    /\ UNCHANGED <<now, online, laundry, refresh, personal, choice, watches, listed>>

\* A watch ends when its notice was sent or its session was replaced.
WatchEnds ==
    /\ \E w \in watches : watches' = watches \ {w}
    /\ UNCHANGED <<now, online, laundry, refresh, personal, choice, listed, request>>

LaundryInit ==
    /\ now = 1 /\ online \in BOOLEAN
    /\ laundry = Fetching(NewQuery) /\ refresh = NewRefresh
    /\ personal = "pending"
    /\ choice = [machine |-> None, kind |-> "washer", mode |-> "before-completion", minutes |-> 10]
    /\ watches = {} /\ listed = NewQuery /\ request = None

LaundryNext ==
    \/ LaundryTick \/ NetworkChanges \/ Refetch \/ ManualRefresh
    \/ LaundryArrives \/ LaundryFails \/ PersonalChanges \/ ListRefetch
    \/ Choose \/ AddWatch \/ RemoveWatch \/ RequestAnswered \/ RequestFails \/ WatchEnds

----------------------------------------------------------------------------
Kinds == {"normal", "recovered", "empty", "stale", "offline", "error", "loading"}

LaundryTypeOK ==
    /\ now \in Nat /\ online \in BOOLEAN
    /\ refresh.status \in {"idle", "pending", "success", "error"}
    /\ PageState.kind \in Kinds
    /\ laundry.data # None =>
          LET content == LaundryContent(TRUE, TRUE)
              counts == HomeCard.counts
          IN
          /\ \A i \in DOMAIN laundry.data.machines : \A kind \in {"washer", "dryer"} :
                /\ content.towers.grid[i][kind].state \in {"available", "unavailable", "error"}
                /\ content.machines[i][kind].progress.bar \in {None} \cup 0..100
          /\ \A access \in {"men", "women"} :
                content.capacity.cards[access].status \in {"checking", "available", "full"}
          /\ counts["men"].count # None => ~HomeCard.unhealthy
          /\ LoadedCard.condition.add => WatchSelectors.machines # {}
    /\ request # None => request.phase \in {"call", "reload"}

\* A notification can be asked for only while the page calls its data live and
\* trusts its counts, for an appliance that the same page does not offer as
\* free: the watch card, the tower grid and the capacity cards classify the
\* same appliance by three separate tables of states.
WatchOfferIsLive ==
    AddEnabled =>
        LET target == SelectedTarget(laundry.data.machines)
            machine == CHOOSE m \in ToSet(laundry.data.machines) : m.id = target.machine
        IN  /\ ~IsFailureKind(PageState.kind)
            /\ CapacityReliable(laundry.data, FALSE, laundry.dataAt)
            /\ AvailabilityState(machine[target.kind]) # "available"
            /\ ApplianceTone(machine[target.kind]) # "available"
=============================================================================
