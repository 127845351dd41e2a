---------------------------- MODULE PushDelivery ----------------------------
(***************************************************************************)
(* The Web Push queue: notification_delivery rows of target kind 'push',   *)
(* the subscriptions and mobile sessions they depend on, and the workers   *)
(* that claim, send and settle them (AutomationEngine.deliverPushes over   *)
(* JdbcAutomationStore and JdbcNotificationStore).                         *)
(*                                                                         *)
(* One action is one database statement or transaction, or one HTTP        *)
(* request to the push service.  Instants are kept as the number of ticks  *)
(* (30 s) until they pass: "next_attempt_at <= now" is wait = 0 and        *)
(* "lease_expires_at <= now" is leaseLeft = 0.  A worker reads the clock   *)
(* once per cycle; age counts the ticks since that reading.                *)
(***************************************************************************)
EXTENDS Naturals, FiniteSets

CONSTANTS
    Notification,   \* source events: (user_id, source_event_id) keys
    Subscription,   \* push_subscription ids, one per browser endpoint
    Session,        \* mobile sessions that may own subscriptions
    Worker,         \* processes that run the push cycle
    Token,          \* lease tokens (random UUIDs, never drawn twice)
    NoToken,        \* a NULL lease_token; a worker between cycles
    BatchLimit,     \* rows one cycle claims at most (50)
    LeaseTicks,     \* lease duration (60 s)
    MaxAttempts,    \* answered sends before a delivery is given up (5)
    Backoff,        \* Backoff[k]: ticks from the k-th failed send to the next
    MaxAge,         \* ticks after which a cycle's clock reading no longer matters
    MaxCrashes      \* bound on abandoned cycles

Delivery == Notification \X Subscription
Queued == {"pending", "retry"}
Closed == {"delivered", "gone", "failed"}
Answer == {"delivered", "gone", "retry"}
NoReply == [answer |-> "none"]

ASSUME ConstantsOK ==
    /\ BatchLimit \in Nat \ {0}
    /\ LeaseTicks \in Nat \ {0}
    /\ MaxAttempts \in Nat \ {0}
    /\ MaxAge \in Nat
    /\ MaxCrashes \in Nat
    /\ Backoff \in [1 .. MaxAttempts -> 0 .. MaxAge]
    /\ NoToken \notin Token

VARIABLES
    notif,      \* notif[n]: "absent", "live", "expired" or "deleted"
    session,    \* session[s]: "active", or "ended" by revocation or expiry
    sub,        \* sub[p]: the push_subscription row, its status and owning session
    row,        \* row[d]: the notification_delivery row
    cycle,      \* cycle[w]: what the push cycle of worker w has in memory
    arrivals,   \* history: pushes of d the push service took (2 stands for more)
    lapsed,     \* history: d was claimed again over an expired lease
    answerLost, \* history: the push service took d and its answer was lost
    crashes     \* cycles abandoned so far

vars == <<notif, session, sub, row, cycle, arrivals, lapsed, answerLost, crashes>>
history == <<arrivals, lapsed, answerLost, crashes>>

Row == [status : {"none"} \cup Queued \cup Closed, attempts : 0 .. MaxAttempts,
        wait : 0 .. MaxAge, lease : Token \cup {NoToken}, leaseLeft : 0 .. LeaseTicks]
Reply == [delivery : Delivery, answer : Answer] \cup {NoReply}
Cycle == [token : Token \cup {NoToken}, age : 0 .. MaxAge, batch : SUBSET Delivery,
          snap : [Delivery -> 0 .. MaxAttempts], reply : Reply,
          renewed : SUBSET Subscription]

Monus(a, b) == IF a > b THEN a - b ELSE 0

NoRow == [status |-> "none", attempts |-> 0, wait |-> 0,
          lease |-> NoToken, leaseLeft |-> 0]
NewRow == [status |-> "pending", attempts |-> 0, wait |-> 0,
           lease |-> NoToken, leaseLeft |-> 0]
Idle == [token |-> NoToken, age |-> 0, batch |-> {},
         snap |-> [d \in Delivery |-> 0], reply |-> NoReply, renewed |-> {}]

Init ==
    /\ notif = [n \in Notification |-> "absent"]
    /\ session = [s \in Session |-> "active"]
    /\ sub \in [Subscription -> [status : {"none"}, session : Session]]
    /\ row = [d \in Delivery |-> NoRow]
    /\ cycle = [w \in Worker |-> Idle]
    /\ arrivals = [d \in Delivery |-> 0]
    /\ lapsed = [d \in Delivery |-> FALSE]
    /\ answerLost = [d \in Delivery |-> FALSE]
    /\ crashes = 0

-----------------------------------------------------------------------------
(* Targets: subscriptions, and the sessions that own them *)

\* The target may be sent to: subscription not revoked, session not revoked or expired.
ActiveTarget(p) == sub[p].status = "active" /\ session[sub[p].session] = "active"

\* The created_at of p is now later than the clock reading of a cycle under way.
Renewed(c, p) == [token |-> c.token, age |-> c.age, batch |-> c.batch, snap |-> c.snap,
                  reply |-> c.reply,
                  renewed |-> IF c.token = NoToken THEN c.renewed ELSE c.renewed \cup {p}]

\* The browser (re-)registers its endpoint: the row is upserted with the caller's session
\* and a new created_at.
SavePush(p, s) ==
    /\ session[s] = "active"
    /\ sub' = [sub EXCEPT ![p] = [status |-> "active", session |-> s]]
    /\ cycle' = [w \in Worker |-> Renewed(cycle[w], p)]
    /\ UNCHANGED <<notif, session, row, history>>

Ended(subscription, status) == [status |-> status, session |-> subscription.session]

RevokePush(p) ==
    /\ sub[p].status = "active"
    /\ sub' = [sub EXCEPT ![p] = Ended(@, "revoked")]
    /\ UNCHANGED <<notif, session, row, cycle, history>>

\* The session is revoked by either side, or its 30 days are over.
EndSession(s) ==
    /\ session[s] = "active"
    /\ session' = [session EXCEPT ![s] = "ended"]
    /\ UNCHANGED <<notif, sub, row, cycle, history>>

-----------------------------------------------------------------------------
(* Notifications *)

\* INSERT ... ON CONFLICT DO NOTHING and the fan-out to the active targets, in one
\* statement.  A second call for the same source event changes nothing.
CreateNotification(n) ==
    /\ notif[n] = "absent"
    /\ notif' = [notif EXCEPT ![n] = "live"]
    /\ row' = [d \in Delivery |->
                 IF d[1] = n /\ ActiveTarget(d[2]) THEN NewRow ELSE row[d]]
    /\ UNCHANGED <<session, sub, cycle, history>>

ExpireNotification(n) ==
    /\ notif[n] = "live"
    /\ notif' = [notif EXCEPT ![n] = "expired"]
    /\ UNCHANGED <<session, sub, row, cycle, history>>

\* The rows of the notifications in N go with them (ON DELETE CASCADE).
RowsWithout(N) == [d \in Delivery |-> IF d[1] \in N THEN NoRow ELSE row[d]]

\* Housekeeping drops a notification 30 days after it expired.
DeleteExpired(n) ==
    /\ notif[n] = "expired"
    /\ notif' = [notif EXCEPT ![n] = "deleted"]
    /\ row' = RowsWithout({n})
    /\ UNCHANGED <<session, sub, cycle, history>>

\* The PC resets its identity: the user goes, with everything that belongs to it.
DeleteUser ==
    /\ notif' = [n \in Notification |->
                   IF notif[n] = "absent" THEN "absent" ELSE "deleted"]
    /\ row' = RowsWithout({n \in Notification : notif[n] # "absent"})
    /\ session' = [s \in Session |-> "ended"]
    /\ sub' = [p \in Subscription |-> Ended(sub[p], "none")]
    /\ UNCHANGED <<cycle, history>>

-----------------------------------------------------------------------------
(* The push cycle of a worker *)

Due(d) == row[d].status \in Queued /\ row[d].wait = 0

\* Mutated Inactive: looks at the subscription and forgets its session.
InactiveBySubscription(d) == Due(d) /\ sub[d[2]].status # "active"

\* settleInactivePushDeliveries: due rows without an active target are closed, leased or not.
Inactive(d) == Due(d) /\ ~ActiveTarget(d[2])

\* Mutated GoneRow: the lease survives the closing of the row.
GoneRowLeased(r) == [status |-> "gone", attempts |-> r.attempts, wait |-> 0,
                     lease |-> r.lease, leaseLeft |-> r.leaseLeft]
GoneRow(r) == [status |-> "gone", attempts |-> r.attempts, wait |-> 0,
               lease |-> NoToken, leaseLeft |-> 0]

\* Mutated Claimable: takes leased rows too.
ClaimableLeased(d) == Due(d) /\ notif[d[1]] = "live" /\ ActiveTarget(d[2])

Claimable(d) ==
    /\ Due(d)
    /\ notif[d[1]] = "live"
    /\ row[d].leaseLeft = 0
    /\ ActiveTarget(d[2])

\* As many claimable rows as the limit allows.
Batches ==
    LET C == {d \in Delivery : Claimable(d)}
    IN  {S \in SUBSET C : \/ Cardinality(S) = BatchLimit
                          \/ S = C /\ Cardinality(C) <= BatchLimit}

FreshTokens ==
    Token \ ({row[d].lease : d \in Delivery} \cup {cycle[w].token : w \in Worker})

LeasedRow(r, t) == [status |-> r.status, attempts |-> r.attempts, wait |-> r.wait,
                    lease |-> t, leaseLeft |-> LeaseTicks]

NewCycle(t, S) == [token |-> t, age |-> 0, batch |-> S,
                   snap |-> [d \in Delivery |-> IF d \in S THEN row[d].attempts ELSE 0],
                   reply |-> NoReply, renewed |-> {}]

\* claimPushDeliveries: one transaction.  A cycle that gets no row ends at once.
ClaimPushDeliveries(w) ==
    /\ cycle[w].token = NoToken
    /\ \E t \in FreshTokens, S \in Batches :
         /\ row' = [d \in Delivery |->
                      IF Inactive(d) THEN GoneRow(row[d])
                      ELSE IF d \in S THEN LeasedRow(row[d], t) ELSE row[d]]
         /\ cycle' = IF S = {} THEN cycle ELSE [cycle EXCEPT ![w] = NewCycle(t, S)]
         /\ lapsed' = [d \in Delivery |->
                         \/ lapsed[d]
                         \/ d \in S /\ row[d].lease # NoToken /\ row[d].leaseLeft = 0]
    /\ UNCHANGED <<notif, session, sub, arrivals, answerLost, crashes>>

Replied(c, d, answer) == [token |-> c.token, age |-> c.age, batch |-> c.batch,
                          snap |-> c.snap,
                          reply |-> [delivery |-> d, answer |-> answer],
                          renewed |-> c.renewed]

\* One request to the push service.  It may be accepted and its answer lost, which the
\* sender reports as "retry"; "gone" is a 404 or 410.
Send(w, d) ==
    /\ d \in cycle[w].batch
    /\ cycle[w].reply = NoReply
    /\ \E accepted \in BOOLEAN, answer \in Answer :
         /\ answer = "delivered" => accepted
         /\ answer = "gone" => ~accepted
         /\ cycle' = [cycle EXCEPT ![w] = Replied(@, d, answer)]
         /\ arrivals' = IF accepted /\ arrivals[d] < 2
                        THEN [arrivals EXCEPT ![d] = @ + 1] ELSE arrivals
         /\ answerLost' = [answerLost EXCEPT ![d] = @ \/ (accepted /\ answer = "retry")]
    /\ UNCHANGED <<notif, session, sub, row, lapsed, crashes>>

\* Mutated FinalStatus: one retry too many.
FinalStatusLate(answer, k) ==
    IF answer = "retry" THEN (IF k <= MaxAttempts THEN "retry" ELSE "failed") ELSE answer

\* The status deliverPushes writes after the k-th answered send.  Its further condition,
\* that the notification outlives the cycle's clock reading, holds for every claimed row.
FinalStatus(answer, k) ==
    IF answer = "retry" THEN (IF k < MaxAttempts THEN "retry" ELSE "failed") ELSE answer

\* Mutated SettledRow: the delay counts from the wrong end of the cycle.
SettledRowLater(r, answer, k, age) ==
    [status |-> FinalStatus(answer, k), attempts |-> r.attempts + 1,
     wait |-> IF FinalStatus(answer, k) = "retry" THEN Backoff[k] + age ELSE 0,
     lease |-> NoToken, leaseLeft |-> 0]

SettledRow(r, answer, k, age) ==
    [status |-> FinalStatus(answer, k), attempts |-> r.attempts + 1,
     wait |-> IF FinalStatus(answer, k) = "retry" THEN Monus(Backoff[k], age) ELSE 0,
     lease |-> NoToken, leaseLeft |-> 0]

\* The worker's memory once d is dealt with; the cycle ends with its last row.
Without(c, d) ==
    IF c.batch = {d} THEN Idle
    ELSE [token |-> c.token, age |-> c.age, batch |-> c.batch \ {d},
          snap |-> [c.snap EXCEPT ![d] = 0], reply |-> NoReply, renewed |-> c.renewed]

\* Mutated Holds: settles without comparing the token.
HoldsAnyway(w, d) == row[d].status # "none"

\* The lease is still the cycle's own.
Holds(w, d) == row[d].lease = cycle[w].token

\* The answered delivery was to a subscription that is gone and still marked active.
Revokes(w, d) ==
    Holds(w, d) /\ cycle[w].reply.answer = "gone" /\ sub[d[2]].status = "active"

\* A revocation dated by the cycle's clock reading would precede the created_at of a
\* subscription registered again meanwhile, which push_subscription's CHECK refuses.
Refused(w, d) == Revokes(w, d) /\ d[2] \in cycle[w].renewed

\* settlePush: the row only if the lease is still the cycle's own, and with it the
\* revocation of a subscription the push service no longer knows.
SettlePush(w) ==
    /\ cycle[w].reply # NoReply
    /\ LET d == cycle[w].reply.delivery
           k == cycle[w].snap[d] + 1
       IN  /\ ~Refused(w, d)
           /\ row' = IF Holds(w, d)
                     THEN [row EXCEPT ![d] =
                             SettledRow(@, cycle[w].reply.answer, k, cycle[w].age)]
                     ELSE row
           /\ sub' = IF Revokes(w, d) THEN [sub EXCEPT ![d[2]] = Ended(@, "revoked")]
                     ELSE sub
           /\ cycle' = [cycle EXCEPT ![w] = Without(@, d)]
    /\ UNCHANGED <<notif, session, history>>

\* settlePush is refused by the CHECK: nothing of it happens, and runStage ends the cycle
\* with the rest of the batch unsent.
SettleRefused(w) ==
    /\ cycle[w].reply # NoReply
    /\ Refused(w, cycle[w].reply.delivery)
    /\ cycle' = [cycle EXCEPT ![w] = Idle]
    /\ UNCHANGED <<notif, session, sub, row, history>>

\* The worker stops, or an exception ends the cycle: the rest of the batch is forgotten
\* and its leases stay.
AbandonCycle(w) ==
    /\ cycle[w].token # NoToken
    /\ crashes < MaxCrashes
    /\ crashes' = crashes + 1
    /\ cycle' = [cycle EXCEPT ![w] = Idle]
    /\ UNCHANGED <<notif, session, sub, row, arrivals, lapsed, answerLost>>

TickedRow(r) == [status |-> r.status, attempts |-> r.attempts, wait |-> Monus(r.wait, 1),
                 lease |-> r.lease, leaseLeft |-> Monus(r.leaseLeft, 1)]
TickedCycle(c) ==
    IF c.token = NoToken \/ c.age = MaxAge THEN c
    ELSE [token |-> c.token, age |-> c.age + 1, batch |-> c.batch, snap |-> c.snap,
          reply |-> c.reply, renewed |-> c.renewed]

\* 30 seconds pass.
Tick ==
    /\ row' = [d \in Delivery |-> TickedRow(row[d])]
    /\ cycle' = [w \in Worker |-> TickedCycle(cycle[w])]
    /\ UNCHANGED <<notif, session, sub, history>>

-----------------------------------------------------------------------------

Next ==
    \/ \E p \in Subscription, s \in Session : SavePush(p, s)
    \/ \E p \in Subscription : RevokePush(p)
    \/ \E s \in Session : EndSession(s)
    \/ \E n \in Notification :
          CreateNotification(n) \/ ExpireNotification(n) \/ DeleteExpired(n)
    \/ DeleteUser
    \/ \E w \in Worker : \/ ClaimPushDeliveries(w) \/ SettlePush(w) \/ SettleRefused(w)
                        \/ AbandonCycle(w)
    \/ \E w \in Worker, d \in Delivery : Send(w, d)
    \/ Tick

Spec == Init /\ [][Next]_vars

\* The worker's scheduler runs the push cycle every five seconds, a started cycle goes
\* on to its end, and time passes.  Users, the planner and expiry owe nothing.
Fairness ==
    /\ \A w \in Worker : /\ WF_vars(ClaimPushDeliveries(w))
                         /\ WF_vars(\E d \in Delivery : Send(w, d))
                         /\ WF_vars(SettlePush(w) \/ SettleRefused(w))
    /\ WF_vars(Tick)

FairSpec == Spec /\ Fairness

-----------------------------------------------------------------------------
(* Properties *)

TypeOK ==
    /\ notif \in [Notification -> {"absent", "live", "expired", "deleted"}]
    /\ session \in [Session -> {"active", "ended"}]
    /\ sub \in [Subscription -> [status : {"none", "active", "revoked"},
                                 session : Session]]
    /\ row \in [Delivery -> Row]
    /\ cycle \in [Worker -> Cycle]
    /\ arrivals \in [Delivery -> 0 .. 2]
    /\ lapsed \in [Delivery -> BOOLEAN]
    /\ answerLost \in [Delivery -> BOOLEAN]
    /\ crashes \in 0 .. MaxCrashes

\* A worker whose lease is still on the row decides from what the row says: nobody
\* counted an attempt or closed the row since it was claimed, however old the cycle is.
\* (deliverPushes computes the final status from the claim's attempts while settlePush
\* increments the row's.)
LeaseKeepsSnapshot ==
    \A w \in Worker, d \in Delivery :
        cycle[w].token # NoToken /\ Holds(w, d)
            => /\ d \in cycle[w].batch
               /\ row[d].status \in Queued
               /\ cycle[w].snap[d] = row[d].attempts

\* A delivery is retried while attempts remain and given up exactly at the limit: an
\* overrun lease or a crash neither costs it an attempt nor grants it one.
AttemptsExact ==
    \A d \in Delivery :
        /\ row[d].status \in Queued => row[d].attempts < MaxAttempts
        /\ row[d].status = "failed" => row[d].attempts = MaxAttempts

\* The push service takes a delivery twice only after a worker let a lease run out
\* unsettled, or after an answer was lost: two workers never send the same row otherwise.
SecondPushExplained ==
    \A d \in Delivery : arrivals[d] > 1 => lapsed[d] \/ answerLost[d]

\* The rest of the inductive invariant.  Cycles and their leases:
CycleInv ==
    /\ \A w \in Worker :
          /\ cycle[w].token = NoToken => cycle[w] = Idle
          /\ cycle[w].reply # NoReply => cycle[w].reply.delivery \in cycle[w].batch
    /\ \A v, w \in Worker :
          cycle[v].token = cycle[w].token /\ cycle[w].token # NoToken => v = w
    /\ \A d \in Delivery : row[d].status \notin Queued => row[d].lease = NoToken

\* A notification has rows and senders only between its creation and its deletion.
RowInv ==
    \A d \in Delivery :
        /\ notif[d[1]] = "absent" => /\ row[d].status = "none"
                                     /\ arrivals[d] = 0
                                     /\ \A w \in Worker : d \notin cycle[w].batch
        /\ notif[d[1]] = "deleted" => row[d].status = "none"
        /\ \A w \in Worker : d \in cycle[w].batch
                              => row[d].status # "none" \/ notif[d[1]] = "deleted"

\* Until its lease is overrun or an answer is lost, one cycle at most holds a delivery,
\* and no push of it was taken unless that cycle has been told so or the row is closed.
PushInv ==
    \A d \in Delivery :
        /\ \A w \in Worker :
              cycle[w].reply = [delivery |-> d, answer |-> "delivered"] => arrivals[d] > 0
        /\ ~lapsed[d] =>
              /\ \A v, w \in Worker :
                    d \in cycle[v].batch /\ d \in cycle[w].batch => v = w
              /\ row[d].status \in Queued /\ row[d].lease = NoToken =>
                    \A w \in Worker : d \notin cycle[w].batch
        /\ ~lapsed[d] /\ ~answerLost[d] =>
              /\ arrivals[d] < 2
              /\ row[d].status \in Queued /\ row[d].lease = NoToken => arrivals[d] = 0
              /\ \A w \in Worker :
                    d \in cycle[w].batch /\ arrivals[d] > 0 =>
                        cycle[w].reply = [delivery |-> d, answer |-> "delivered"]

IInv ==
    /\ TypeOK
    /\ CycleInv
    /\ RowInv
    /\ LeaseKeepsSnapshot
    /\ AttemptsExact
    /\ PushInv

\* What each delivery looks like from outside (see DeliveryContract).
OutcomeOf(d) ==
    IF notif[d[1]] = "deleted" THEN "dropped"
    ELSE IF row[d].status \in Queued THEN "open"
    ELSE row[d].status

Contract == INSTANCE DeliveryContract WITH
    outcome <- [d \in Delivery |-> OutcomeOf(d)],
    reached <- [d \in Delivery |-> arrivals[d] > 0]

\* The queue keeps the contract: rows open once, close once and stay closed, and
\* 'delivered' is only ever written for a push that was taken.
ImplementsContract == Contract!ContractSpec

\* A queued delivery does not stay queued: it is settled, or its notification expires or
\* is deleted first, unless browsers go on registering again while their own gone
\* subscription is being settled, every time.
QueuedIsSettled ==
    <>[](\A w \in Worker : cycle[w].renewed = {}) =>
        \A d \in Delivery :
            row[d].status \in Queued
                ~> row[d].status \notin Queued \/ notif[d[1]] # "live"
=============================================================================
