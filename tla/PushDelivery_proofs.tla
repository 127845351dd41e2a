------------------------ MODULE PushDelivery_proofs ------------------------
(***************************************************************************)
(* Proofs about the push queue for every set of workers, notifications,    *)
(* subscriptions and tokens, every limit and every table of delays.        *)
(***************************************************************************)
EXTENDS PushDelivery, TLAPS

(* The records the actions build have their types. *)

LEMMA NewRowType == NoRow \in Row /\ NewRow \in Row
BY ConstantsOK DEF NoRow, NewRow, Row, Queued

LEMMA GoneRowType == ASSUME NEW r \in Row PROVE GoneRow(r) \in Row
BY ConstantsOK DEF GoneRow, Row, Closed

LEMMA LeasedRowType ==
    ASSUME NEW r \in Row, NEW t \in Token
    PROVE  LeasedRow(r, t) \in Row
BY ConstantsOK DEF LeasedRow, Row

LEMMA MonusRange ==
    ASSUME NEW m \in Nat, NEW a \in 0 .. m, NEW b \in Nat
    PROVE  Monus(a, b) \in 0 .. m
BY DEF Monus

LEMMA NextInRange ==
    ASSUME NEW m \in Nat, NEW a \in 0 .. m, a < m
    PROVE  a + 1 \in 1 .. m
OBVIOUS

LEMMA TickedRowType ==
    ASSUME NEW r \in Row
    PROVE  TickedRow(r) \in Row
BY ConstantsOK, MonusRange DEF TickedRow, Row

LEMMA SettledRowType ==
    ASSUME NEW r \in Row, r.attempts < MaxAttempts, NEW answer \in Answer,
           NEW k \in 1 .. MaxAttempts, NEW age \in 0 .. MaxAge
    PROVE  SettledRow(r, answer, k, age) \in Row
<1>1. FinalStatus(answer, k) \in Queued \cup Closed
  BY DEF FinalStatus, Answer, Queued, Closed
<1>2. Monus(Backoff[k], age) \in 0 .. MaxAge
  BY ConstantsOK DEF Monus
<1>3. r.attempts + 1 \in 0 .. MaxAttempts
  BY ConstantsOK DEF Row
<1>4. QED
  BY <1>1, <1>2, <1>3, ConstantsOK DEF SettledRow, Row

LEMMA IdleType == Idle \in Cycle
BY ConstantsOK DEF Idle, Cycle, Reply, NoReply

LEMMA NewCycleType ==
    ASSUME TypeOK, NEW t \in Token, NEW S \in SUBSET Delivery
    PROVE  NewCycle(t, S) \in Cycle
BY ConstantsOK DEF NewCycle, TypeOK, Row, Cycle, Reply

LEMMA RepliedType ==
    ASSUME NEW c \in Cycle, NEW d \in Delivery, NEW answer \in Answer
    PROVE  Replied(c, d, answer) \in Cycle
BY DEF Replied, Cycle, Reply

LEMMA TickedCycleType == ASSUME NEW c \in Cycle PROVE TickedCycle(c) \in Cycle
BY ConstantsOK DEF TickedCycle, Cycle

LEMMA RenewedType ==
    ASSUME NEW c \in Cycle, NEW p \in Subscription
    PROVE  Renewed(c, p) \in Cycle
BY DEF Renewed, Cycle

LEMMA IdleFields ==
    Idle.token = NoToken /\ Idle.batch = {} /\ Idle.reply = NoReply /\ Idle.renewed = {}
BY DEF Idle

LEMMA WithoutType ==
    ASSUME NEW c \in Cycle, NEW d \in Delivery
    PROVE  Without(c, d) \in Cycle
BY IdleType, ConstantsOK DEF Without, Cycle, Reply

LEMMA InitIInv == Init => IInv
BY ConstantsOK, NewRowType, IdleType
DEF Init, IInv, TypeOK, CycleInv, RowInv, LeaseKeepsSnapshot, AttemptsExact, PushInv,
    Holds, NoRow, Idle, Queued, Delivery, NoReply

LEMMA SavePushStep ==
    ASSUME IInv, NEW p \in Subscription, NEW s \in Session, SavePush(p, s)
    PROVE  IInv'
<1> USE DEF SavePush, history
<1>1. TypeOK'
  BY RenewedType DEF IInv, TypeOK
<1>2. \A w \in Worker : /\ cycle'[w].token = cycle[w].token
                        /\ cycle'[w].batch = cycle[w].batch
                        /\ cycle'[w].snap = cycle[w].snap
                        /\ cycle'[w].reply = cycle[w].reply
  BY DEF Renewed
<1>3. \A w \in Worker : cycle[w].token = NoToken => cycle'[w] = Idle
  BY DEF Renewed, Idle, IInv, CycleInv
<1>4. CycleInv'
  BY <1>2, <1>3 DEF IInv, CycleInv
<1>5. RowInv' /\ AttemptsExact'
  BY <1>2 DEF IInv, RowInv, AttemptsExact
<1>6. LeaseKeepsSnapshot'
  BY <1>2 DEF IInv, LeaseKeepsSnapshot, Holds
<1>7. PushInv'
  BY <1>2 DEF IInv, PushInv
<1>8. QED
  BY <1>1, <1>4, <1>5, <1>6, <1>7 DEF IInv

LEMMA RevokePushStep ==
    ASSUME IInv, NEW p \in Subscription, RevokePush(p)
    PROVE  IInv'
BY DEF RevokePush, Ended, history, IInv, TypeOK, CycleInv, RowInv, LeaseKeepsSnapshot,
       AttemptsExact, PushInv, Holds

LEMMA EndSessionStep ==
    ASSUME IInv, NEW s \in Session, EndSession(s)
    PROVE  IInv'
BY DEF EndSession, history, IInv, TypeOK, CycleInv, RowInv, LeaseKeepsSnapshot,
       AttemptsExact, PushInv, Holds

LEMMA CreateNotificationStep ==
    ASSUME IInv, NEW n \in Notification, CreateNotification(n)
    PROVE  IInv'
<1> USE DEF CreateNotification, history
<1> USE NewRowType, ConstantsOK
<1>1. TypeOK'
  BY DEF IInv, TypeOK
<1>2. \A d \in Delivery : row'[d] = row[d]
         \/ /\ row'[d] = NewRow
            /\ notif[d[1]] = "absent"
            /\ notif'[d[1]] = "live"
  BY DEF IInv, TypeOK, Delivery
<1>3. \A d \in Delivery :
         \/ notif'[d[1]] = notif[d[1]]
         \/ notif[d[1]] = "absent" /\ notif'[d[1]] = "live"
  BY DEF IInv, TypeOK, Delivery
<1>4. CycleInv'
  BY <1>2 DEF IInv, CycleInv, NewRow, Queued
<1>5. RowInv'
  BY <1>2, <1>3 DEF IInv, RowInv, NewRow
<1>6. LeaseKeepsSnapshot'
  BY <1>2 DEF IInv, LeaseKeepsSnapshot, Holds, NewRow
<1>7. AttemptsExact'
  BY <1>2 DEF IInv, AttemptsExact, NewRow, Queued
<1>8. PushInv'
  BY <1>2 DEF IInv, PushInv, RowInv, NewRow, Queued
<1>9. QED
  BY <1>1, <1>4, <1>5, <1>6, <1>7, <1>8 DEF IInv

LEMMA ExpireNotificationStep ==
    ASSUME IInv, NEW n \in Notification, ExpireNotification(n)
    PROVE  IInv'
<1> USE DEF ExpireNotification, history
<1>1. TypeOK'
  BY DEF IInv, TypeOK
<1>2. \A d \in Delivery :
         \/ notif'[d[1]] = notif[d[1]]
         \/ notif[d[1]] = "live" /\ notif'[d[1]] = "expired"
  BY DEF IInv, TypeOK, Delivery
<1>3. QED
  BY <1>1, <1>2 DEF IInv, CycleInv, RowInv, LeaseKeepsSnapshot, AttemptsExact, PushInv, Holds

\* Both deletions clear the rows of notifications that become "deleted".
LEMMA DeletionStep ==
    ASSUME IInv, TypeOK', NEW N \in SUBSET Notification, row' = RowsWithout(N),
           \A n \in N : notif[n] # "absent" /\ notif'[n] = "deleted",
           \A n \in Notification \ N : notif'[n] = notif[n],
           UNCHANGED <<cycle, history>>
    PROVE  IInv'
<1> USE DEF history
<1>1. \A d \in Delivery :
         \/ /\ row'[d] = row[d]
            /\ notif'[d[1]] = notif[d[1]]
         \/ /\ row'[d] = NoRow
            /\ notif[d[1]] # "absent"
            /\ notif'[d[1]] = "deleted"
  BY DEF RowsWithout, Delivery
<1>2. CycleInv'
  BY <1>1 DEF IInv, CycleInv, NoRow
<1>3. RowInv'
  BY <1>1 DEF IInv, RowInv, NoRow
<1>4. LeaseKeepsSnapshot'
  BY <1>1 DEF IInv, LeaseKeepsSnapshot, Holds, NoRow
<1>5. AttemptsExact'
  BY <1>1 DEF IInv, AttemptsExact, NoRow, Queued
<1>6. PushInv'
  BY <1>1 DEF IInv, PushInv, NoRow, Queued
<1>7. QED
  BY <1>2, <1>3, <1>4, <1>5, <1>6 DEF IInv

LEMMA DeleteExpiredStep ==
    ASSUME IInv, NEW n \in Notification, DeleteExpired(n)
    PROVE  IInv'
<1>1. TypeOK'
  BY NewRowType DEF DeleteExpired, history, RowsWithout, IInv, TypeOK
<1>2. /\ row' = RowsWithout({n})
      /\ \A m \in {n} : notif[m] # "absent" /\ notif'[m] = "deleted"
      /\ \A m \in Notification \ {n} : notif'[m] = notif[m]
      /\ UNCHANGED <<cycle, history>>
  BY DEF DeleteExpired, IInv, TypeOK
<1>3. QED
  BY <1>1, <1>2, DeletionStep

LEMMA DeleteUserStep ==
    ASSUME IInv, DeleteUser
    PROVE  IInv'
<1> DEFINE N == {n \in Notification : notif[n] # "absent"}
<1>1. TypeOK'
  BY NewRowType DEF DeleteUser, history, RowsWithout, Ended, IInv, TypeOK
<1>2. /\ row' = RowsWithout(N)
      /\ \A n \in N : notif[n] # "absent" /\ notif'[n] = "deleted"
      /\ \A n \in Notification \ N : notif'[n] = notif[n]
      /\ UNCHANGED <<cycle, history>>
  BY DEF DeleteUser, IInv, TypeOK
<1>3. QED
  BY <1>1, <1>2, DeletionStep

LEMMA SendStep ==
    ASSUME IInv, NEW w \in Worker, NEW d \in Delivery, Send(w, d)
    PROVE  IInv'
<1>1. PICK accepted \in BOOLEAN, answer \in Answer :
         /\ answer = "delivered" => accepted
         /\ answer = "gone" => ~accepted
         /\ cycle' = [cycle EXCEPT ![w] = Replied(@, d, answer)]
         /\ arrivals' = IF accepted /\ arrivals[d] < 2
                        THEN [arrivals EXCEPT ![d] = @ + 1] ELSE arrivals
         /\ answerLost' = [answerLost EXCEPT ![d] = @ \/ (accepted /\ answer = "retry")]
  BY DEF Send
<1>2. /\ d \in cycle[w].batch
      /\ cycle[w].reply = NoReply
      /\ cycle[w].token # NoToken
      /\ UNCHANGED <<notif, session, sub, row, lapsed, crashes>>
  BY DEF Send, IInv, CycleInv, Idle
<1>3. TypeOK'
  <2>1. cycle' \in [Worker -> Cycle]
    BY <1>1, RepliedType DEF IInv, TypeOK
  <2>2. arrivals' \in [Delivery -> 0 .. 2]
    BY <1>1 DEF IInv, TypeOK
  <2>3. answerLost' \in [Delivery -> BOOLEAN]
    BY <1>1, Zenon DEF IInv, TypeOK
  <2>4. QED
    BY <1>2, <2>1, <2>2, <2>3 DEF IInv, TypeOK
<1>4. /\ \A v \in Worker : /\ cycle'[v].token = cycle[v].token
                           /\ cycle'[v].batch = cycle[v].batch
                           /\ cycle'[v].snap = cycle[v].snap
      /\ \A v \in Worker \ {w} : cycle'[v] = cycle[v]
      /\ cycle'[w].reply = [delivery |-> d, answer |-> answer]
  BY <1>1 DEF IInv, TypeOK, Replied
<1>5. CycleInv'
  BY <1>2, <1>4 DEF IInv, CycleInv, NoReply
<1>6. RowInv'
  BY <1>1, <1>2, <1>4 DEF IInv, RowInv, TypeOK
<1>7. LeaseKeepsSnapshot' /\ AttemptsExact'
  BY <1>2, <1>4 DEF IInv, LeaseKeepsSnapshot, AttemptsExact, Holds
<1>8. \A e \in Delivery : ~answerLost'[e] =>
         /\ ~answerLost[e]
         /\ e = d /\ answer = "retry" => ~accepted
  BY <1>1, Zenon DEF IInv, TypeOK
<1>9. \A e \in Delivery :
         \/ arrivals'[e] = arrivals[e] /\ (e = d => ~accepted \/ arrivals[d] = 2)
         \/ e = d /\ accepted /\ arrivals[d] < 2 /\ arrivals'[e] = arrivals[d] + 1
  BY <1>1 DEF IInv, TypeOK
<1>10. arrivals \in [Delivery -> 0 .. 2]
  BY DEF IInv, TypeOK
<1>11. PushInv'
  BY <1>1, <1>2, <1>4, <1>8, <1>9, <1>10 DEF IInv, PushInv, NoReply, Answer
<1>12. QED
  BY <1>3, <1>5, <1>6, <1>7, <1>11 DEF IInv

\* A cycle that ends without touching a row.
LEMMA CycleEnds ==
    ASSUME IInv, NEW w \in Worker, cycle' = [cycle EXCEPT ![w] = Idle],
           crashes' \in 0 .. MaxCrashes,
           UNCHANGED <<notif, session, sub, row, arrivals, lapsed, answerLost>>
    PROVE  IInv'
<1>1. TypeOK'
  BY IdleType DEF IInv, TypeOK
<1>2. /\ \A v \in Worker \ {w} : cycle'[v] = cycle[v]
      /\ cycle'[w] = Idle
  BY DEF IInv, TypeOK
<1>3. CycleInv'
  BY <1>2, IdleFields DEF IInv, CycleInv
<1>4. RowInv' /\ AttemptsExact'
  BY <1>2, IdleFields DEF IInv, RowInv, AttemptsExact
<1>5. LeaseKeepsSnapshot'
  BY <1>2, IdleFields DEF IInv, LeaseKeepsSnapshot, Holds
<1>6. PushInv'
  BY <1>2, IdleFields DEF IInv, PushInv, NoReply
<1>7. QED
  BY <1>1, <1>3, <1>4, <1>5, <1>6 DEF IInv

LEMMA AbandonCycleStep ==
    ASSUME IInv, NEW w \in Worker, AbandonCycle(w)
    PROVE  IInv'
<1>1. crashes' \in 0 .. MaxCrashes
  BY ConstantsOK DEF AbandonCycle, IInv, TypeOK
<1>2. QED
  BY <1>1, CycleEnds DEF AbandonCycle

LEMMA SettleRefusedStep ==
    ASSUME IInv, NEW w \in Worker, SettleRefused(w)
    PROVE  IInv'
<1>1. crashes' \in 0 .. MaxCrashes
  BY DEF SettleRefused, history, IInv, TypeOK
<1>2. QED
  BY <1>1, CycleEnds DEF SettleRefused, history

LEMMA TickStep ==
    ASSUME IInv, Tick
    PROVE  IInv'
<1> USE DEF Tick, history
<1>1. TypeOK'
  BY TickedRowType, TickedCycleType DEF IInv, TypeOK
<1>2. \A d \in Delivery : /\ row'[d].status = row[d].status
                          /\ row'[d].attempts = row[d].attempts
                          /\ row'[d].lease = row[d].lease
  BY DEF TickedRow
<1>3. \A w \in Worker : /\ cycle'[w].token = cycle[w].token
                        /\ cycle'[w].batch = cycle[w].batch
                        /\ cycle'[w].snap = cycle[w].snap
                        /\ cycle'[w].reply = cycle[w].reply
                        /\ cycle[w].token = NoToken => cycle'[w] = cycle[w]
  BY DEF TickedCycle
<1>4. CycleInv'
  BY <1>2, <1>3 DEF IInv, CycleInv
<1>5. RowInv' /\ AttemptsExact'
  BY <1>2, <1>3 DEF IInv, RowInv, AttemptsExact
<1>6. LeaseKeepsSnapshot'
  BY <1>2, <1>3 DEF IInv, LeaseKeepsSnapshot, Holds
<1>7. PushInv'
  BY <1>2, <1>3 DEF IInv, PushInv
<1>8. QED
  BY <1>1, <1>4, <1>5, <1>6, <1>7 DEF IInv

LEMMA ClaimStep ==
    ASSUME IInv, NEW w \in Worker, ClaimPushDeliveries(w)
    PROVE  IInv'
<1>1. PICK t \in FreshTokens, S \in Batches :
         /\ row' = [d \in Delivery |->
                      IF Inactive(d) THEN GoneRow(row[d])
                      ELSE IF d \in S THEN LeasedRow(row[d], t) ELSE row[d]]
         /\ cycle' = IF S = {} THEN cycle ELSE [cycle EXCEPT ![w] = NewCycle(t, S)]
         /\ lapsed' = [d \in Delivery |->
                         \/ lapsed[d]
                         \/ d \in S /\ row[d].lease # NoToken /\ row[d].leaseLeft = 0]
  BY DEF ClaimPushDeliveries
<1>2. /\ cycle[w].token = NoToken
      /\ cycle[w] = Idle
      /\ UNCHANGED <<notif, session, sub, arrivals, answerLost, crashes>>
  BY DEF ClaimPushDeliveries, IInv, CycleInv
<1>3. /\ t \in Token
      /\ t # NoToken
      /\ \A d \in Delivery : row[d].lease # t
      /\ \A v \in Worker : cycle[v].token # t
  BY ConstantsOK DEF FreshTokens
<1>4. /\ S \in SUBSET Delivery
      /\ \A d \in S : /\ row[d].status \in Queued
                      /\ row[d].leaseLeft = 0
                      /\ notif[d[1]] = "live"
                      /\ ~Inactive(d)
  BY DEF Batches, Claimable, Due, Inactive
<1>5. \A d \in Delivery :
         \/ row'[d] = row[d] /\ d \notin S
         \/ /\ d \in S
            /\ row'[d].status = row[d].status
            /\ row'[d].attempts = row[d].attempts
            /\ row'[d].lease = t
         \/ /\ d \notin S
            /\ row[d].status \in Queued
            /\ row'[d].status = "gone"
            /\ row'[d].lease = NoToken
  BY <1>1, <1>4 DEF Inactive, Due, LeasedRow, GoneRow
<1>6. \A v \in Worker :
         \/ cycle'[v] = cycle[v] /\ (v = w => S = {})
         \/ /\ v = w
            /\ S # {}
            /\ cycle'[v].token = t
            /\ cycle'[v].batch = S
            /\ cycle'[v].reply = NoReply
            /\ \A d \in S : cycle'[v].snap[d] = row[d].attempts
  BY <1>1, <1>4 DEF IInv, TypeOK, NewCycle
<1>7. \A d \in Delivery : ~lapsed'[d] => ~lapsed[d] /\ (d \in S => row[d].lease = NoToken)
  BY <1>1, <1>4
<1>8. TypeOK'
  <2>1. row' \in [Delivery -> Row]
    BY <1>1, <1>3, <1>4, GoneRowType, LeasedRowType DEF IInv, TypeOK
  <2>2. cycle' \in [Worker -> Cycle]
    BY <1>1, <1>3, <1>4, NewCycleType DEF IInv, TypeOK
  <2>3. lapsed' \in [Delivery -> BOOLEAN]
    BY <1>1, Zenon DEF IInv, TypeOK
  <2>4. QED
    BY <1>2, <2>1, <2>2, <2>3 DEF IInv, TypeOK
<1>9. CycleInv'
  BY <1>2, <1>3, <1>4, <1>5, <1>6 DEF IInv, CycleInv, Queued
<1>10. RowInv'
  BY <1>2, <1>4, <1>5, <1>6 DEF IInv, RowInv, Queued
<1>11. LeaseKeepsSnapshot'
  BY <1>2, <1>3, <1>4, <1>5, <1>6 DEF IInv, LeaseKeepsSnapshot, Holds
<1>12. AttemptsExact'
  BY <1>4, <1>5 DEF IInv, AttemptsExact, Queued
<1>13. PushInv'
  BY <1>2, <1>3, <1>4, <1>5, <1>6, <1>7, IdleFields DEF IInv, PushInv, Queued, NoReply
<1>14. QED
  BY <1>8, <1>9, <1>10, <1>11, <1>12, <1>13 DEF IInv

\* The settlement of w's answered delivery d as the k-th attempt.
Settles(w, d, answer, k) ==
    /\ cycle[w].token # NoToken
    /\ d \in cycle[w].batch
    /\ cycle[w].reply = [delivery |-> d, answer |-> answer]
    /\ Holds(w, d) => /\ row[d].status \in Queued
                      /\ row[d].attempts < MaxAttempts
                      /\ k = row[d].attempts + 1
                      /\ k \in 1 .. MaxAttempts
    /\ row' = IF Holds(w, d)
              THEN [row EXCEPT ![d] = SettledRow(@, answer, k, cycle[w].age)]
              ELSE row
    /\ sub' \in {sub, [sub EXCEPT ![d[2]] = Ended(@, "revoked")]}
    /\ cycle' = [cycle EXCEPT ![w] = Without(@, d)]
    /\ UNCHANGED <<notif, session, arrivals, lapsed, answerLost, crashes>>

LEMMA SettleFacts ==
    ASSUME IInv, NEW w \in Worker, SettlePush(w)
    PROVE  \E d \in Delivery, answer \in Answer, k \in Nat : Settles(w, d, answer, k)
<1> DEFINE d == cycle[w].reply.delivery
           answer == cycle[w].reply.answer
           k == cycle[w].snap[d] + 1
<1>1. /\ cycle[w].reply # NoReply
      /\ row' = IF Holds(w, d)
                THEN [row EXCEPT ![d] = SettledRow(@, answer, k, cycle[w].age)]
                ELSE row
      /\ sub' \in {sub, [sub EXCEPT ![d[2]] = Ended(@, "revoked")]}
      /\ cycle' = [cycle EXCEPT ![w] = Without(@, d)]
      /\ UNCHANGED <<notif, session, arrivals, lapsed, answerLost, crashes>>
  BY DEF SettlePush, history
<1>2. /\ cycle[w].token # NoToken
      /\ d \in cycle[w].batch
      /\ d \in Delivery
      /\ answer \in Answer
      /\ k \in Nat
      /\ cycle[w].reply = [delivery |-> d, answer |-> answer]
  BY <1>1, IdleFields, ConstantsOK DEF IInv, TypeOK, CycleInv, Cycle, Reply
<1>3. Holds(w, d) => /\ row[d].status \in Queued
                     /\ row[d].attempts < MaxAttempts
                     /\ k = row[d].attempts + 1
                     /\ k \in 1 .. MaxAttempts
  <2>1. row[d].attempts \in 0 .. MaxAttempts
    BY <1>2 DEF IInv, TypeOK, Row
  <2>2. LeaseKeepsSnapshot /\ AttemptsExact
    BY DEF IInv
  <2>3. Holds(w, d) => row[d].status \in Queued /\ cycle[w].snap[d] = row[d].attempts
    BY <1>2, <2>2 DEF LeaseKeepsSnapshot
  <2>4. row[d].status \in Queued => row[d].attempts < MaxAttempts
    BY <1>2, <2>2 DEF AttemptsExact
  <2>5. Holds(w, d) => k = row[d].attempts + 1
    BY <2>3
  <2>6. row[d].attempts < MaxAttempts => row[d].attempts + 1 \in 1 .. MaxAttempts
    <3>1. MaxAttempts \in Nat
      BY ConstantsOK
    <3>2. QED
      BY <2>1, <3>1, NextInRange
  <2>7. QED
    BY <2>3, <2>4, <2>5, <2>6
<1> HIDE DEF d, answer, k
<1>4. QED
  BY <1>1, <1>2, <1>3 DEF Settles

LEMMA SettledFields ==
    ASSUME IInv, NEW w \in Worker, NEW d \in Delivery, NEW answer \in Answer, NEW k \in Nat,
           Settles(w, d, answer, k)
    PROVE  \A e \in Delivery :
              \/ row'[e] = row[e] /\ (e = d => ~Holds(w, d))
              \/ /\ e = d
                 /\ Holds(w, d)
                 /\ row'[e].status = FinalStatus(answer, k)
                 /\ row'[e].attempts = k
                 /\ row'[e].lease = NoToken
BY DEF Settles, IInv, TypeOK, SettledRow

LEMMA SettlePushStep ==
    ASSUME IInv, NEW w \in Worker, SettlePush(w)
    PROVE  IInv'
<1>0. PICK d \in Delivery, answer \in Answer, k \in Nat : Settles(w, d, answer, k)
  BY SettleFacts
<1>1. /\ row' = IF Holds(w, d)
                THEN [row EXCEPT ![d] = SettledRow(@, answer, k, cycle[w].age)]
                ELSE row
      /\ sub' \in {sub, [sub EXCEPT ![d[2]] = Ended(@, "revoked")]}
      /\ cycle' = [cycle EXCEPT ![w] = Without(@, d)]
      /\ UNCHANGED <<notif, session, arrivals, lapsed, answerLost, crashes>>
  BY <1>0 DEF Settles
<1>2. /\ cycle[w] \in Cycle
      /\ cycle[w].age \in 0 .. MaxAge
      /\ cycle[w].token # NoToken
      /\ d \in cycle[w].batch
      /\ cycle[w].reply = [delivery |-> d, answer |-> answer]
  BY <1>0 DEF Settles, IInv, TypeOK, Cycle
<1>3. Holds(w, d) => /\ row[d].status \in Queued
                     /\ row[d].attempts < MaxAttempts
                     /\ k = row[d].attempts + 1
                     /\ k \in 1 .. MaxAttempts
  BY <1>0 DEF Settles
<1>4. \A e \in Delivery :
         \/ row'[e] = row[e] /\ (e = d => ~Holds(w, d))
         \/ /\ e = d
            /\ Holds(w, d)
            /\ row'[e].status = FinalStatus(answer, k)
            /\ row'[e].attempts = k
            /\ row'[e].lease = NoToken
  BY <1>0, SettledFields
<1>5. /\ \A v \in Worker \ {w} : cycle'[v] = cycle[v]
      /\ \/ cycle'[w] = Idle /\ cycle[w].batch = {d}
         \/ /\ cycle'[w].token = cycle[w].token
            /\ cycle'[w].batch = cycle[w].batch \ {d}
            /\ cycle'[w].reply = NoReply
            /\ \A e \in Delivery \ {d} : cycle'[w].snap[e] = cycle[w].snap[e]
  BY <1>1, <1>2 DEF IInv, TypeOK, Without, Cycle
<1>6. TypeOK'
  <2>1. row' \in [Delivery -> Row]
    BY <1>1, <1>2, <1>3, SettledRowType DEF IInv, TypeOK
  <2>2. sub' \in [Subscription -> [status : {"none", "active", "revoked"},
                                   session : Session]]
    <3> DEFINE Rows == [status : {"none", "active", "revoked"}, session : Session]
    <3>1. sub \in [Subscription -> Rows]
      BY DEF IInv, TypeOK
    <3>2. d[2] \in Subscription
      BY DEF Delivery
    <3>3. Ended(sub[d[2]], "revoked") \in Rows
      BY <3>1, <3>2 DEF Ended
    <3>4. sub' \in {sub, [sub EXCEPT ![d[2]] = Ended(@, "revoked")]}
      BY <1>1
    <3> HIDE DEF Rows
    <3>5. sub' \in [Subscription -> Rows]
      BY <3>1, <3>3, <3>4
    <3>6. QED
      BY <3>5 DEF Rows
  <2>3. cycle' \in [Worker -> Cycle]
    <3>1. cycle \in [Worker -> Cycle]
      BY DEF IInv, TypeOK
    <3>2. Without(cycle[w], d) \in Cycle
      BY <3>1, <1>2, WithoutType
    <3>3. cycle' = [cycle EXCEPT ![w] = Without(@, d)]
      BY <1>1
    <3>4. QED
      BY <3>1, <3>2, <3>3
  <2>4. QED
    BY <1>1, <2>1, <2>2, <2>3 DEF IInv, TypeOK
<1>7. FinalStatus(answer, k) \in {"delivered", "gone", "retry", "failed"}
  BY <1>2 DEF FinalStatus, Answer
<1>8. \A v \in Worker :
         /\ cycle'[v].batch \subseteq cycle[v].batch
         /\ cycle'[v].token \in {cycle[v].token, NoToken}
         /\ v = w => d \notin cycle'[v].batch
         /\ cycle'[v].reply = cycle[v].reply \/ cycle'[v].reply = NoReply
  BY <1>5, IdleFields
<1>9. CycleInv'
  <2>1. \A v \in Worker :
           /\ cycle'[v].token = NoToken => cycle'[v] = Idle
           /\ cycle'[v].reply # NoReply => cycle'[v].reply.delivery \in cycle'[v].batch
    BY <1>2, <1>5, IdleFields DEF IInv, CycleInv
  <2>2. \A u, v \in Worker :
           cycle'[u].token = cycle'[v].token /\ cycle'[v].token # NoToken => u = v
    BY <1>8 DEF IInv, CycleInv
  <2>3. \A e \in Delivery : row'[e].status \notin Queued => row'[e].lease = NoToken
    BY <1>4 DEF IInv, CycleInv
  <2>4. QED
    BY <2>1, <2>2, <2>3 DEF CycleInv
<1>10. RowInv'
  <2>1. \A e \in Delivery :
           \/ row'[e].status = row[e].status
           \/ row[e].status \in Queued /\ row'[e].status # "none"
    BY <1>3, <1>4, <1>7
  <2>2. QED
    BY <1>1, <1>8, <2>1 DEF IInv, RowInv, Queued
<1>11. LeaseKeepsSnapshot'
  BY <1>2, <1>4, <1>5, IdleFields DEF IInv, LeaseKeepsSnapshot, CycleInv, Holds
<1>12. AttemptsExact'
  <2>1. /\ FinalStatus(answer, k) \in Queued => k # MaxAttempts
        /\ FinalStatus(answer, k) = "failed" => ~(k < MaxAttempts)
    BY <1>2, ConstantsOK DEF FinalStatus, Queued, Answer
  <2>2. Holds(w, d) => k \in 1 .. MaxAttempts
    BY <1>3
  <2>3. QED
    BY <1>4, <2>1, <2>2, ConstantsOK DEF IInv, AttemptsExact
<1>13. PushInv'
  <2>1. \A e \in Delivery, v \in Worker :
           cycle'[v].reply = [delivery |-> e, answer |-> "delivered"] => arrivals[e] > 0
    BY <1>8 DEF IInv, PushInv, NoReply
  <2>2. \A e \in Delivery : ~lapsed[e] =>
           /\ \A u, v \in Worker :
                 e \in cycle'[u].batch /\ e \in cycle'[v].batch => u = v
           /\ row'[e].status \in Queued /\ row'[e].lease = NoToken =>
                 \A v \in Worker : e \notin cycle'[v].batch
    <3>1. \A e \in Delivery : ~lapsed[e] =>
             \A u, v \in Worker : e \in cycle[u].batch /\ e \in cycle[v].batch => u = v
      BY DEF IInv, PushInv
    <3>2. \A e \in Delivery : ~lapsed[e] /\ row[e].status \in Queued /\ row[e].lease = NoToken =>
             \A v \in Worker : e \notin cycle[v].batch
      BY DEF IInv, PushInv
    <3>3. \A v \in Worker : cycle'[v].batch \subseteq cycle[v].batch /\ (v = w => d \notin cycle'[v].batch)
      BY <1>8
    <3>4. \A e \in Delivery : e # d => row'[e] = row[e]
      BY <1>4
    <3>5. ~lapsed[d] => \A v \in Worker : d \notin cycle'[v].batch
      BY <1>2, <3>1, <3>3
    <3>6. QED
      BY <3>1, <3>2, <3>3, <3>4, <3>5
  <2>3. \A e \in Delivery : ~lapsed[e] /\ ~answerLost[e] =>
           /\ arrivals[e] < 2
           /\ row'[e].status \in Queued /\ row'[e].lease = NoToken => arrivals[e] = 0
           /\ \A v \in Worker :
                 e \in cycle'[v].batch /\ arrivals[e] > 0 =>
                     cycle'[v].reply = [delivery |-> e, answer |-> "delivered"]
    <3>1. ASSUME NEW e \in Delivery, ~lapsed[e], ~answerLost[e], e # d
          PROVE  /\ arrivals[e] < 2
                 /\ row'[e].status \in Queued /\ row'[e].lease = NoToken => arrivals[e] = 0
                 /\ \A v \in Worker :
                       e \in cycle'[v].batch /\ arrivals[e] > 0 =>
                           cycle'[v].reply = [delivery |-> e, answer |-> "delivered"]
      BY <3>1, <1>2, <1>4, <1>5, <1>8 DEF IInv, PushInv
    <3>2. ASSUME ~lapsed[d], ~answerLost[d]
          PROVE  /\ arrivals[d] < 2
                 /\ row'[d].status \in Queued /\ row'[d].lease = NoToken => arrivals[d] = 0
                 /\ \A v \in Worker : d \notin cycle'[v].batch
      <4>1. arrivals[d] < 2 /\ \A v \in Worker : d \notin cycle'[v].batch
        BY <3>2, <1>2, <1>8 DEF IInv, PushInv
      <4>2. ASSUME row'[d].status \in Queued, row'[d].lease = NoToken
            PROVE  arrivals[d] = 0
        <5>1. CASE Holds(w, d)
          <6>1. answer # "delivered"
            BY <5>1, <4>2, <1>2, <1>4 DEF FinalStatus, Queued
          <6>2. ~(arrivals[d] > 0)
            <7>1. arrivals[d] > 0 => cycle[w].reply = [delivery |-> d, answer |-> "delivered"]
              BY <3>2, <1>2 DEF IInv, PushInv
            <7>2. QED
              BY <6>1, <7>1, <1>2
          <6>3. arrivals[d] \in 0 .. 2
            BY <1>2 DEF IInv, TypeOK
          <6>4. QED
            BY <6>2, <6>3
        <5>2. CASE ~Holds(w, d)
          BY <5>2, <3>2, <4>2, <1>2, <1>4 DEF IInv, PushInv
        <5>3. QED
          BY <5>1, <5>2
      <4>3. QED
        BY <4>1, <4>2
    <3>3. QED
      BY <3>1, <3>2, <1>2
  <2>4. QED
    BY <1>1, <2>1, <2>2, <2>3 DEF PushInv
<1>14. QED
  BY <1>6, <1>9, <1>10, <1>11, <1>12, <1>13 DEF IInv

LEMMA NextIInv == IInv /\ [Next]_vars => IInv'
<1> SUFFICES ASSUME IInv, [Next]_vars PROVE IInv'
  OBVIOUS
<1>1. ASSUME NEW p \in Subscription, NEW s \in Session, SavePush(p, s) PROVE IInv'
  BY <1>1, SavePushStep
<1>2. ASSUME NEW p \in Subscription, RevokePush(p) PROVE IInv'
  BY <1>2, RevokePushStep
<1>3. ASSUME NEW s \in Session, EndSession(s) PROVE IInv'
  BY <1>3, EndSessionStep
<1>4. ASSUME NEW n \in Notification,
             CreateNotification(n) \/ ExpireNotification(n) \/ DeleteExpired(n)
      PROVE  IInv'
  BY <1>4, CreateNotificationStep, ExpireNotificationStep, DeleteExpiredStep
<1>5. CASE DeleteUser
  BY <1>5, DeleteUserStep
<1>6. ASSUME NEW w \in Worker, \/ ClaimPushDeliveries(w) \/ SettlePush(w)
                                \/ SettleRefused(w) \/ AbandonCycle(w)
      PROVE  IInv'
  BY <1>6, ClaimStep, SettlePushStep, SettleRefusedStep, AbandonCycleStep
<1>7. ASSUME NEW w \in Worker, NEW d \in Delivery, Send(w, d) PROVE IInv'
  BY <1>7, SendStep
<1>8. CASE Tick
  BY <1>8, TickStep
<1>9. CASE UNCHANGED vars
  BY <1>9 DEF vars, history, IInv, TypeOK, CycleInv, RowInv, LeaseKeepsSnapshot,
              AttemptsExact, PushInv, Holds
<1>10. QED
  BY <1>1, <1>2, <1>3, <1>4, <1>5, <1>6, <1>7, <1>8, <1>9 DEF Next

\* The inductive invariant holds in every reachable state.
THEOREM Invariant == Spec => []IInv
BY InitIInv, NextIInv, PTL DEF Spec

\* Every row, cycle and history variable keeps its type; attempts never pass the limit.
THEOREM TypeCorrect == Spec => []TypeOK
<1>1. IInv => TypeOK
  BY DEF IInv
<1>2. QED
  BY <1>1, Invariant, PTL

\* settlePush and deliverPushes agree on the attempts whenever the lease is still held.
THEOREM SnapshotKept == Spec => []LeaseKeepsSnapshot
<1>1. IInv => LeaseKeepsSnapshot
  BY DEF IInv
<1>2. QED
  BY <1>1, Invariant, PTL

\* No delivery is given up early or retried past MaxAttempts.
THEOREM AttemptsAreExact == Spec => []AttemptsExact
<1>1. IInv => AttemptsExact
  BY DEF IInv
<1>2. QED
  BY <1>1, Invariant, PTL

\* A second push of one delivery needs an overrun lease or a lost answer.
THEOREM NoUnexplainedSecondPush == Spec => []SecondPushExplained
<1>1. IInv => SecondPushExplained
  <2>1. ASSUME IInv, NEW d \in Delivery
        PROVE  arrivals[d] < 2 <=> ~(arrivals[d] > 1)
    BY <2>1 DEF IInv, TypeOK
  <2>2. ASSUME IInv, NEW d \in Delivery, ~lapsed[d], ~answerLost[d]
        PROVE  arrivals[d] < 2
    BY <2>2 DEF IInv, PushInv
  <2>3. QED
    BY <2>1, <2>2, Zenon DEF SecondPushExplained
<1>2. QED
  BY <1>1, Invariant, PTL

-----------------------------------------------------------------------------
(* The queue implements DeliveryContract. *)

LEMMA InitRefines == Init => Contract!ContractInit
<1> SUFFICES ASSUME Init PROVE Contract!ContractInit
  OBVIOUS
<1>1. \A d \in Delivery : OutcomeOf(d) = "none"
  BY DEF Init, NoRow, OutcomeOf, Queued, Delivery
<1>2. \A d \in Delivery : (arrivals[d] > 0) = FALSE
  BY DEF Init
<1>3. [d \in Delivery |-> arrivals[d] > 0] = [d \in Delivery |-> FALSE]
  BY <1>2
<1>4. QED
  BY <1>1, <1>3 DEF Contract!ContractInit

\* The mapped outcomes of S become o and the others stay.
LEMMA MappedBecomes ==
    ASSUME NEW S \in SUBSET Delivery, NEW o,
           \A d \in S : OutcomeOf(d)' = o,
           \A d \in Delivery \ S : OutcomeOf(d)' = OutcomeOf(d)
    PROVE  Contract!Becomes(S, o)
<1>1. \A d \in Delivery :
         OutcomeOf(d)' = IF d \in S THEN o ELSE [e \in Delivery |-> OutcomeOf(e)][d]
  OBVIOUS
<1>2. QED
  BY <1>1 DEF Contract!Becomes

LEMMA MappedDrop ==
    ASSUME NEW N \in SUBSET Notification, row' = RowsWithout(N), UNCHANGED arrivals,
           \A n \in N : notif'[n] = "deleted",
           \A n \in Notification \ N : notif'[n] = notif[n]
    PROVE  \E S \in SUBSET Delivery : Contract!Drop(S)
<1> DEFINE S == {d \in Delivery : d[1] \in N}
<1>1. \A d \in S : OutcomeOf(d)' = "dropped"
  BY DEF OutcomeOf
<1>2. \A d \in Delivery \ S : OutcomeOf(d)' = OutcomeOf(d)
  BY DEF OutcomeOf, RowsWithout, Delivery
<1> HIDE DEF S
<1>3. S \in SUBSET Delivery
  BY DEF S
<1>4. Contract!Becomes(S, "dropped")
  BY <1>1, <1>2, <1>3, MappedBecomes
<1>5. QED
  BY <1>3, <1>4 DEF Contract!Drop

LEMMA CreateMaps ==
    ASSUME IInv, NEW n \in Notification, CreateNotification(n)
    PROVE  \E S \in SUBSET Delivery : Contract!Open(S)
<1> DEFINE S == {d \in Delivery : d[1] = n /\ ActiveTarget(d[2])}
<1>1. \A d \in S : OutcomeOf(d) = "none"
  BY DEF CreateNotification, OutcomeOf, IInv, RowInv, Queued
<1>2. \A d \in S : OutcomeOf(d)' = "open"
  BY DEF CreateNotification, OutcomeOf, NewRow, Queued, IInv, TypeOK, Delivery
<1>3. \A d \in Delivery \ S : OutcomeOf(d)' = OutcomeOf(d)
  BY DEF CreateNotification, OutcomeOf, IInv, TypeOK, Delivery
<1>4. UNCHANGED arrivals
  BY DEF CreateNotification, history
<1>5. S \in SUBSET Delivery
  OBVIOUS
<1> HIDE DEF S
<1>6. Contract!Becomes(S, "open")
  BY <1>2, <1>3, <1>5, MappedBecomes
<1>7. QED
  BY <1>1, <1>4, <1>5, <1>6 DEF Contract!Open

LEMMA ClaimMaps ==
    ASSUME IInv, NEW w \in Worker, ClaimPushDeliveries(w)
    PROVE  \E S \in SUBSET Delivery : Contract!GiveUp(S, "gone")
<1> DEFINE S == {d \in Delivery : Inactive(d) /\ notif[d[1]] # "deleted"}
<1>1. /\ UNCHANGED <<notif, arrivals>>
      /\ \A d \in Delivery : IF Inactive(d)
                             THEN row[d].status \in Queued /\ row'[d].status = "gone"
                             ELSE row'[d].status = row[d].status
  BY DEF ClaimPushDeliveries, GoneRow, LeasedRow, Inactive, Due
<1>2. \A d \in S : OutcomeOf(d) = "open" /\ OutcomeOf(d)' = "gone"
  BY <1>1 DEF OutcomeOf, Queued
<1>3. \A d \in Delivery \ S : OutcomeOf(d)' = OutcomeOf(d)
  BY <1>1 DEF OutcomeOf
<1>4. S \in SUBSET Delivery
  OBVIOUS
<1> HIDE DEF S
<1>5. Contract!Becomes(S, "gone")
  BY <1>2, <1>3, <1>4, MappedBecomes
<1>6. QED
  BY <1>1, <1>2, <1>4, <1>5 DEF Contract!GiveUp

LEMMA SendMaps ==
    ASSUME IInv, NEW w \in Worker, NEW d \in Delivery, Send(w, d)
    PROVE  Contract!Reach(d) \/ UNCHANGED Contract!contractVars
<1>1. /\ UNCHANGED <<notif, row>>
      /\ OutcomeOf(d) # "none"
  BY DEF Send, OutcomeOf, IInv, RowInv, Queued
<1>2. /\ arrivals \in [Delivery -> 0 .. 2]
      /\ \/ arrivals' = arrivals
         \/ arrivals' = [arrivals EXCEPT ![d] = @ + 1]
  BY DEF Send, IInv, TypeOK
<1>3. \A e \in Delivery : OutcomeOf(e)' = OutcomeOf(e)
  BY <1>1 DEF OutcomeOf
<1>4. CASE arrivals' = arrivals
  BY <1>3, <1>4 DEF Contract!contractVars
<1>5. CASE arrivals' = [arrivals EXCEPT ![d] = @ + 1]
  <2>1. /\ (arrivals'[d] > 0) = TRUE
        /\ \A e \in Delivery \ {d} : arrivals'[e] = arrivals[e]
    BY <1>2, <1>5
  <2>2. [e \in Delivery |-> arrivals'[e] > 0] =
           [[e \in Delivery |-> arrivals[e] > 0] EXCEPT ![d] = TRUE]
    BY <2>1
  <2>3. QED
    BY <1>1, <1>3, <2>2 DEF Contract!Reach
<1>6. QED
  BY <1>2, <1>4, <1>5

LEMMA SettleMaps ==
    ASSUME IInv, NEW w \in Worker, SettlePush(w)
    PROVE  \/ \E d \in Delivery : Contract!Confirm(d)
           \/ \E S \in SUBSET Delivery, o \in {"gone", "failed"} : Contract!GiveUp(S, o)
           \/ UNCHANGED Contract!contractVars
<1>1. PICK d \in Delivery, answer \in Answer, k \in Nat : Settles(w, d, answer, k)
  BY SettleFacts
<1>2. /\ cycle[w].reply = [delivery |-> d, answer |-> answer]
      /\ UNCHANGED <<notif, arrivals>>
      /\ Holds(w, d) => row[d].status \in Queued
      /\ ~Holds(w, d) => row' = row
  BY <1>1 DEF Settles
<1>3. /\ \A e \in Delivery \ {d} : row'[e] = row[e]
      /\ Holds(w, d) => row'[d].status = FinalStatus(answer, k)
  BY <1>1, SettledFields
<1>4. FinalStatus(answer, k) \in {"delivered", "gone", "failed", "retry"}
  BY DEF FinalStatus, Answer
<1>5. \A e \in Delivery \ {d} : OutcomeOf(e)' = OutcomeOf(e)
  BY <1>2, <1>3 DEF OutcomeOf
<1>6. CASE ~Holds(w, d) \/ FinalStatus(answer, k) = "retry" \/ notif[d[1]] = "deleted"
  <2>1. OutcomeOf(d)' = OutcomeOf(d)
    BY <1>2, <1>3, <1>6 DEF OutcomeOf, Queued
  <2>2. \A e \in Delivery : OutcomeOf(e)' = OutcomeOf(e)
    BY <1>5, <2>1
  <2>3. QED
    BY <1>2, <2>2 DEF Contract!contractVars
<1>7. CASE Holds(w, d) /\ FinalStatus(answer, k) # "retry" /\ notif[d[1]] # "deleted"
  <2>1. /\ OutcomeOf(d) = "open"
        /\ OutcomeOf(d)' = FinalStatus(answer, k)
    BY <1>2, <1>3, <1>4, <1>7 DEF OutcomeOf, Queued
  <2>2. Contract!Becomes({d}, FinalStatus(answer, k))
    <3> HIDE DEF OutcomeOf
    <3>1. {d} \in SUBSET Delivery /\ \A e \in {d} : OutcomeOf(e)' = FinalStatus(answer, k)
      BY <2>1
    <3>2. \A e \in Delivery \ {d} : OutcomeOf(e)' = OutcomeOf(e)
      BY <1>5
    <3>3. QED
      BY <3>1, <3>2, MappedBecomes
  <2>3. CASE FinalStatus(answer, k) = "delivered"
    <3>1. answer = "delivered"
      BY <2>3 DEF FinalStatus
    <3>2. arrivals[d] > 0
      BY <3>1, <1>2 DEF IInv, PushInv
    <3>3. Contract!Confirm(d)
      BY <1>2, <2>1, <2>2, <2>3, <3>2 DEF Contract!Confirm
    <3>4. QED
      BY <3>3
  <2>4. CASE FinalStatus(answer, k) \in {"gone", "failed"}
    <3>1. Contract!GiveUp({d}, FinalStatus(answer, k))
      BY <1>2, <2>1, <2>2, <2>4 DEF Contract!GiveUp
    <3>2. QED
      BY <2>4, <3>1
  <2>5. QED
    BY <1>4, <1>7, <2>3, <2>4
<1>8. QED
  BY <1>6, <1>7

\* Every step of the queue is a step of the contract or leaves what it shows alone.
LEMMA StepRefines ==
    ASSUME IInv, [Next]_vars
    PROVE  [Contract!ContractNext]_(Contract!contractVars)
<1>1. ASSUME UNCHANGED <<notif, arrivals>>, \A d \in Delivery : row'[d].status = row[d].status
      PROVE  UNCHANGED Contract!contractVars
  BY <1>1 DEF Contract!contractVars, OutcomeOf
<1>2. ASSUME NEW p \in Subscription, NEW s \in Session, SavePush(p, s)
      PROVE  UNCHANGED Contract!contractVars
  BY <1>1, <1>2 DEF SavePush, history
<1>3. ASSUME NEW p \in Subscription, RevokePush(p)
      PROVE  UNCHANGED Contract!contractVars
  BY <1>1, <1>3 DEF RevokePush, history
<1>4. ASSUME NEW s \in Session, EndSession(s)
      PROVE  UNCHANGED Contract!contractVars
  BY <1>1, <1>4 DEF EndSession, history
<1>5. ASSUME NEW n \in Notification, CreateNotification(n)
      PROVE  Contract!ContractNext
  BY <1>5, CreateMaps DEF Contract!ContractNext
<1>6. ASSUME NEW n \in Notification, ExpireNotification(n)
      PROVE  UNCHANGED Contract!contractVars
  <2>1. \A d \in Delivery : notif'[d[1]] = "deleted" <=> notif[d[1]] = "deleted"
    BY <1>6 DEF ExpireNotification, IInv, TypeOK, Delivery
  <2>2. UNCHANGED <<row, arrivals>>
    BY <1>6 DEF ExpireNotification, history
  <2>3. QED
    BY <2>1, <2>2 DEF Contract!contractVars, OutcomeOf
<1>7. ASSUME NEW n \in Notification, DeleteExpired(n)
      PROVE  Contract!ContractNext
  <2>1. /\ row' = RowsWithout({n})
        /\ UNCHANGED arrivals
        /\ \A m \in {n} : notif'[m] = "deleted"
        /\ \A m \in Notification \ {n} : notif'[m] = notif[m]
    BY <1>7 DEF DeleteExpired, history, IInv, TypeOK
  <2>2. QED
    BY <2>1, MappedDrop DEF Contract!ContractNext
<1>8. CASE DeleteUser
  <2> DEFINE N == {n \in Notification : notif[n] # "absent"}
  <2>1. /\ row' = RowsWithout(N)
        /\ UNCHANGED arrivals
        /\ \A n \in N : notif'[n] = "deleted"
        /\ \A n \in Notification \ N : notif'[n] = notif[n]
    BY <1>8 DEF DeleteUser, history, IInv, TypeOK
  <2>2. QED
    BY <2>1, MappedDrop DEF Contract!ContractNext
<1>9. ASSUME NEW w \in Worker, ClaimPushDeliveries(w)
      PROVE  Contract!ContractNext
  BY <1>9, ClaimMaps DEF Contract!ContractNext
<1>10. ASSUME NEW w \in Worker, SettlePush(w)
       PROVE  [Contract!ContractNext]_(Contract!contractVars)
  BY <1>10, SettleMaps DEF Contract!ContractNext
<1>11. ASSUME NEW w \in Worker, AbandonCycle(w) \/ SettleRefused(w)
       PROVE  UNCHANGED Contract!contractVars
  BY <1>1, <1>11 DEF AbandonCycle, SettleRefused, history
<1>12. ASSUME NEW w \in Worker, NEW d \in Delivery, Send(w, d)
       PROVE  [Contract!ContractNext]_(Contract!contractVars)
  BY <1>12, SendMaps DEF Contract!ContractNext
<1>13. CASE Tick
  BY <1>1, <1>13 DEF Tick, TickedRow, history
<1>14. CASE UNCHANGED vars
  BY <1>1, <1>14 DEF vars
<1>15. QED
  BY <1>2, <1>3, <1>4, <1>5, <1>6, <1>7, <1>8, <1>9, <1>10, <1>11, <1>12, <1>13, <1>14
  DEF Next

\* The queue implements the contract: deliveries open once, close once, stay closed, and
\* read 'delivered' only when the push service took them.
THEOREM QueueImplementsContract == Spec => ImplementsContract
BY Invariant, InitRefines, StepRefines, PTL DEF Spec, ImplementsContract, Contract!ContractSpec
=============================================================================
