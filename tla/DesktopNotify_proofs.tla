------------------------ MODULE DesktopNotify_proofs ------------------------
(***************************************************************************)
(* Proofs about the notifications of the PC for every set of planned and   *)
(* test notifications, every limit of the poll and of the inbox, and any   *)
(* number of lost connections, restarts and identity resets.               *)
(***************************************************************************)
EXTENDS DesktopNotify, SequenceTheorems, TLAPS

\* What the inbox may hold.
Item == Notification \cup {LocalItem}

-----------------------------------------------------------------------------
(* The inbox as a sequence. *)

LEMMA KeptType ==
    ASSUME NEW s \in Seq(Item)
    PROVE  Kept(s) \in Seq(Item) /\ Len(Kept(s)) <= MaxItems
<1> DEFINE n == IF Len(s) < MaxItems THEN Len(s) ELSE MaxItems
<1>1. /\ Len(s) \in Nat /\ MaxItems \in Nat
      /\ n \in Nat /\ n <= Len(s) /\ n <= MaxItems
  BY ConstantsOK, LenProperties
<1> HIDE DEF n
<1>2. \A i \in 1 .. n : s[i] \in Item
  BY <1>1, ElementOfSeq
<1>3. SubSeq(s, 1, n) \in Seq(Item) /\ Len(SubSeq(s, 1, n)) = IF 1 <= n THEN n - 1 + 1 ELSE 0
  BY <1>1, <1>2, SubSeqProperties
<1>4. QED
  BY <1>1, <1>3 DEF Kept, n

LEMMA PushedType ==
    ASSUME NEW item \in Item, NEW s \in Seq(Item)
    PROVE  <<item>> \o s \in Seq(Item)
<1>1. <<item>> \in Seq(Item)
  OBVIOUS
<1>2. QED
  BY <1>1, ConcatProperties

LEMMA PushedItems ==
    ASSUME NEW item \in Item, NEW s \in Seq(Item)
    PROVE  /\ item \in Items(<<item>> \o s)
           /\ \A n \in Items(s) : n \in Items(<<item>> \o s)
<1> DEFINE p == <<item>> \o s
<1>1. <<item>> \in Seq(Item) /\ Len(<<item>>) = 1 /\ <<item>>[1] = item
  OBVIOUS
<1>2. /\ p \in Seq(Item)
      /\ Len(p) = 1 + Len(s)
      /\ \A i \in 1 .. 1 + Len(s) : p[i] = IF i <= 1 THEN <<item>>[i] ELSE s[i - 1]
  BY <1>1, ConcatProperties
<1>3. /\ Len(s) \in Nat /\ DOMAIN s = 1 .. Len(s)
      /\ DOMAIN p = 1 .. 1 + Len(s)
  BY <1>2, LenProperties
<1> HIDE DEF p
<1>4. item \in Items(p)
  BY <1>1, <1>2, <1>3 DEF Items
<1>5. ASSUME NEW n \in Items(s) PROVE n \in Items(p)
  <2>1. PICK i \in 1 .. Len(s) : n = s[i]
    BY <1>3 DEF Items
  <2>2. i + 1 \in 1 .. 1 + Len(s) /\ p[i + 1] = s[i]
    BY <1>2, <1>3, <2>1
  <2>3. QED
    BY <1>3, <2>1, <2>2 DEF Items
<1>6. QED
  BY <1>4, <1>5 DEF p

\* After an insertion, what the inbox had and the new item are there or forgotten.
LEMMA InsertFacts ==
    ASSUME TypeOK, NEW item \in Item, Insert(item)
    PROVE  /\ inbox' \in Seq(Item) /\ Len(inbox') <= MaxItems
           /\ evicted' \in SUBSET Notification
           /\ \A n \in Notification \ evicted' :
                 /\ n \notin evicted
                 /\ n \in Items(inbox) => n \in Items(inbox')
                 /\ n = item => n \in Items(inbox')
<1>1. inbox \in Seq(Item)
  BY DEF TypeOK, Item
<1>2. <<item>> \o inbox \in Seq(Item)
  BY <1>1, PushedType
<1>3. inbox' \in Seq(Item) /\ Len(inbox') <= MaxItems
  BY <1>2, KeptType DEF Insert
<1>4. evicted' \in SUBSET Notification
  BY DEF Insert, Forgotten, TypeOK
<1>5. ASSUME NEW n \in Notification \ evicted', n \in Items(inbox) \/ n = item
      PROVE  n \in Items(inbox')
  <2>1. n \in Items(<<item>> \o inbox)
    BY <1>1, <1>5, PushedItems
  <2>2. QED
    BY <2>1 DEF Insert, Forgotten
<1>6. QED
  BY <1>3, <1>4, <1>5 DEF Insert

-----------------------------------------------------------------------------
(* Types of what the actions build. *)

LEMMA RestingType == Resting \in Loop
BY ConstantsOK DEF Resting, Loop

LEMMA RestingFields ==
    Resting.phase = "idle" /\ Resting.item = NoNotification /\ Resting.batch = {}
BY DEF Resting

LEMMA NoTestType == NoTest \in TestRequest
BY DEF NoTest, TestRequest

LEMMA ReportingType ==
    ASSUME TypeOK, NEW n \in Notification, NEW outcome \in {"displayed", "failed"}
    PROVE  /\ Reporting(n, outcome) \in Loop
           /\ Reporting(n, outcome).phase = "report"
           /\ Reporting(n, outcome).item = n
           /\ Reporting(n, outcome).outcome = outcome
           /\ Reporting(n, outcome).batch = loop.batch
           /\ Reporting(n, outcome).generation = loop.generation
BY DEF Reporting, TypeOK, Loop

LEMMA NextItemType ==
    ASSUME TypeOK
    PROVE  /\ NextItem \in Loop
           /\ NextItem.phase \in {"idle", "batch"}
           /\ NextItem.item = NoNotification
           /\ NextItem.batch \subseteq loop.batch
<1>1. CASE loop.batch = {loop.item}
  BY <1>1, RestingType, RestingFields DEF NextItem
<1>2. CASE loop.batch # {loop.item}
  BY <1>2 DEF NextItem, TypeOK, Loop
<1>3. QED
  BY <1>1, <1>2

LEMMA AcknowledgedType ==
    ASSUME TypeOK, NEW n \in Notification, NEW outcome
    PROVE  /\ Acknowledged(n, outcome) \in {"none", "pending", "delivered", "failed"}
           /\ delivery[n] = "none" <=> Acknowledged(n, outcome) = "none"
           /\ delivery[n] # "delivered" /\ Acknowledged(n, outcome) = "delivered"
                 => outcome = "displayed"
BY DEF Acknowledged, TypeOK

-----------------------------------------------------------------------------
(* The inductive invariant. *)

LEMMA InitIInv == Init => IInv
<1> SUFFICES ASSUME Init PROVE IInv
  OBVIOUS
<1>1. TypeOK
  <2>1. /\ inbox \in Seq(Notification \cup {LocalItem}) /\ Len(inbox) = 0
        /\ 0 <= MaxItems /\ 0 \in 0 .. MaxResets /\ 0 \in 0 .. MaxLocal /\ 0 \in 0 .. MaxLost
    BY ConstantsOK DEF Init
  <2>2. shownByTest \in [Notification -> BOOLEAN]
    BY DEF Init
  <2>3. QED
    BY <2>1, <2>2, RestingType, NoTestType DEF Init, TypeOK
<1>2. RowInv
  BY RestingFields, ConstantsOK DEF Init, RowInv
<1>3. InboxInv
  BY RestingFields DEF Init, InboxInv
<1>4. LoopInv /\ TestInv
  BY RestingFields DEF Init, LoopInv, TestInv, NoTest
<1>5. DeliveredWasShown
  BY DEF Init, DeliveredWasShown
<1>6. QED
  BY <1>1, <1>2, <1>3, <1>4, <1>5 DEF IInv

\* The server's steps on one row: the PC and the tests are as they were.
LEMMA RowStep ==
    ASSUME IInv, TypeOK', NEW n \in Notification,
           UNCHANGED <<test, generation, loop, inbox, late, history>>,
           acks' \subseteq acks,
           \A m \in Notification \ {n} : notif'[m] = notif[m] /\ delivery'[m] = delivery[m],
           notif'[n] = "absent" => notif[n] = "absent" /\ delivery'[n] = "none",
           notif'[n] \in {"live", "expired"} => delivery'[n] # "none",
           delivery'[n] = "delivered" =>
              delivery[n] = "delivered" \/ shown[n] > 0 \/ shownByTest[n]
    PROVE  IInv'
<1> USE DEF history
<1>1. RowInv'
  BY DEF IInv, RowInv
<1>2. InboxInv'
  BY DEF IInv, InboxInv
<1>3. LoopInv'
  BY DEF IInv, LoopInv
<1>4. TestInv'
  BY DEF IInv, TestInv
<1>5. DeliveredWasShown'
  BY DEF IInv, DeliveredWasShown
<1>6. QED
  BY <1>1, <1>2, <1>3, <1>4, <1>5 DEF IInv

LEMMA CreateNotificationStep ==
    ASSUME IInv, NEW n \in Notification, CreateNotification(n)
    PROVE  IInv'
<1> USE DEF CreateNotification, pc, history
<1>1. TypeOK'
  BY DEF IInv, TypeOK
<1>2. QED
  BY <1>1, RowStep DEF IInv, TypeOK

LEMMA ExpireNotificationStep ==
    ASSUME IInv, NEW n \in Notification, ExpireNotification(n)
    PROVE  IInv'
<1> USE DEF ExpireNotification, pc, history
<1>1. TypeOK'
  BY DEF IInv, TypeOK
<1>2. QED
  BY <1>1, RowStep DEF IInv, TypeOK, RowInv

LEMMA DeleteExpiredStep ==
    ASSUME IInv, NEW n \in Notification, DeleteExpired(n)
    PROVE  IInv'
<1> USE DEF DeleteExpired, pc, history
<1>1. TypeOK'
  BY DEF IInv, TypeOK
<1>2. QED
  BY <1>1, RowStep DEF IInv, TypeOK

LEMMA ServerAckStep ==
    ASSUME IInv, NEW a \in acks, ServerAck(a)
    PROVE  IInv'
<1> USE DEF ServerAck, pc, history
<1>1. a.item \in Notification
  BY DEF IInv, TypeOK, Ack
<1>2. /\ delivery' \in [Notification -> {"none", "pending", "delivered", "failed"}]
      /\ delivery'[a.item] = Acknowledged(a.item, a.outcome)
      /\ \A m \in Notification \ {a.item} : delivery'[m] = delivery[m]
  BY <1>1, AcknowledgedType DEF IInv, TypeOK
<1>3. TypeOK'
  BY <1>2 DEF IInv, TypeOK
<1>4. delivery'[a.item] = "none" <=> delivery[a.item] = "none"
  BY <1>1, <1>2, AcknowledgedType DEF IInv
<1>5. delivery'[a.item] = "delivered" => delivery[a.item] = "delivered" \/ shown[a.item] > 0
  BY <1>1, <1>2, AcknowledgedType DEF IInv, LoopInv
<1>6. QED
  BY <1>1, <1>2, <1>3, <1>4, <1>5, RowStep DEF IInv, RowInv

LEMMA RecordLocalItemStep ==
    ASSUME IInv, RecordLocalItem
    PROVE  IInv'
<1> USE DEF RecordLocalItem, server
<1>1. LocalItem \in Item
  BY DEF Item
<1>2. /\ inbox' \in Seq(Item) /\ Len(inbox') <= MaxItems
      /\ evicted' \in SUBSET Notification
      /\ \A n \in Notification \ evicted' :
            n \notin evicted /\ (n \in Items(inbox) => n \in Items(inbox'))
  BY <1>1, InsertFacts DEF IInv
<1>3. locals' \in 0 .. MaxLocal
  BY ConstantsOK DEF IInv, TypeOK
<1>4. TypeOK'
  BY <1>2, <1>3 DEF IInv, TypeOK, Item
<1>5. InboxInv'
  BY <1>2 DEF IInv, InboxInv
<1>6. QED
  BY <1>4, <1>5 DEF IInv, RowInv, LoopInv, TestInv, DeliveredWasShown

\* The loop has nothing in hand afterwards and knows of no notification but existing ones.
LEMMA LoopRests ==
    ASSUME IInv, loop' \in Loop, loop'.phase \in {"idle", "polled", "batch"},
           loop'.item = NoNotification, loop'.batch \subseteq loop.batch \cup Waiting,
           UNCHANGED <<notif, delivery, test, generation, inbox, history>>,
           account' \in {"active", "unregistered", "unusable"},
           locals' \in 0 .. MaxLocal, lost' \in 0 .. MaxLost,
           acks' \subseteq acks, late' \subseteq late
    PROVE  IInv'
<1> USE DEF history
<1>1. TypeOK'
  BY DEF IInv, TypeOK
<1>2. RowInv'
  BY ConstantsOK DEF IInv, RowInv, Waiting
<1>3. InboxInv'
  BY DEF IInv, InboxInv
<1>4. LoopInv'
  BY DEF IInv, LoopInv
<1>5. TestInv' /\ DeliveredWasShown'
  BY DEF IInv, TestInv, DeliveredWasShown
<1>6. QED
  BY <1>1, <1>2, <1>3, <1>4, <1>5 DEF IInv

LEMMA PollStep ==
    ASSUME IInv, Poll
    PROVE  IInv'
<1>1. PICK S \in Batches :
         loop' = [Resting EXCEPT !.phase = "polled", !.generation = generation, !.batch = S]
  BY DEF Poll
<1>2. S \subseteq Waiting /\ S \subseteq Notification
  BY DEF Batches, Waiting
<1>3. generation \in 0 .. MaxResets
  BY DEF IInv, TypeOK
<1>4. /\ loop' \in Loop
      /\ loop'.phase = "polled"
      /\ loop'.item = NoNotification
      /\ loop'.batch = S
  BY <1>1, <1>2, <1>3 DEF Resting, Loop
<1>5. QED
  BY <1>2, <1>4, LoopRests DEF Poll, server, IInv, TypeOK

\* A loop that is only moved on: the batch at hand, or rest.
LEMMA HearPollStep ==
    ASSUME IInv, HearPoll
    PROVE  IInv'
<1>1. CASE loop.generation = generation
  <2>1. loop' = [loop EXCEPT !.phase = "batch"] /\ loop.phase = "polled"
    BY <1>1 DEF HearPoll
  <2>2. /\ loop' \in Loop /\ loop'.phase = "batch"
        /\ loop'.item = loop.item /\ loop'.batch = loop.batch
        /\ loop'.outcome = loop.outcome /\ loop'.generation = loop.generation
    BY <2>1 DEF IInv, TypeOK, Loop
  <2>3. UNCHANGED <<server, generation, inbox, late, history, locals, lost>>
    BY DEF HearPoll
  <2>4. TypeOK'
    BY <2>2, <2>3 DEF IInv, TypeOK, server, history
  <2>5. InboxInv' /\ RowInv' /\ LoopInv'
    BY <2>1, <2>2, <2>3 DEF IInv, InboxInv, RowInv, LoopInv, server, history
  <2>6. TestInv' /\ DeliveredWasShown'
    BY <2>3 DEF IInv, TestInv, DeliveredWasShown, server, history
  <2>7. QED
    BY <2>4, <2>5, <2>6 DEF IInv
<1>2. CASE loop.generation # generation
  <2>1. loop' = Resting
    BY <1>2 DEF HearPoll
  <2>2. QED
    BY <2>1, RestingType, RestingFields, LoopRests DEF HearPoll, server, IInv, TypeOK
<1>3. QED
  BY <1>1, <1>2

LEMMA LosePollStep ==
    ASSUME IInv, LosePoll
    PROVE  IInv'
<1>1. lost' \in 0 .. MaxLost
  BY ConstantsOK DEF LosePoll, Lose, IInv, TypeOK
<1>2. QED
  BY <1>1, RestingType, RestingFields, LoopRests DEF LosePoll, server, IInv, TypeOK

\* The loop has an outcome to report that is true of the display.
LEMMA LoopReports ==
    ASSUME IInv, NEW n \in Notification, NEW outcome \in {"displayed", "failed"},
           loop' = Reporting(n, outcome),
           (loop.phase = "recorded" /\ loop.item = n) \/ n \in loop.batch,
           UNCHANGED <<server, generation, inbox, shownByTest, evicted, locals, lost>>,
           shown' \in [Notification -> 0 .. 2],
           \A m \in Notification \ {n} : shown'[m] = shown[m] /\ (m \in late' => m \in late),
           shown'[n] >= shown[n],
           late' \subseteq Notification,
           outcome = "displayed" => shown'[n] > 0,
           n \notin evicted /\ (shown'[n] > 0 \/ n \in late') =>
              /\ n \in Items(inbox)
              /\ shown'[n] > 0 => shown'[n] = 1 /\ n \notin late'
    PROVE  IInv'
<1> USE DEF server
<1>1. /\ loop' \in Loop
      /\ loop'.phase = "report" /\ loop'.item = n /\ loop'.outcome = outcome
      /\ loop'.batch = loop.batch /\ loop'.generation = loop.generation
  BY ReportingType DEF IInv
<1>2. TypeOK'
  BY <1>1 DEF IInv, TypeOK
<1>3. RowInv'
  BY <1>1 DEF IInv, RowInv
<1>4. InboxInv'
  BY <1>1 DEF IInv, InboxInv
<1>5. \A m \in Notification : shown[m] > 0 => shown'[m] > 0
  BY DEF IInv, TypeOK
<1>6. LoopInv'
  BY <1>1, <1>5 DEF IInv, LoopInv, TypeOK, Ack
<1>7. TestInv' /\ DeliveredWasShown'
  BY <1>5 DEF IInv, TestInv, DeliveredWasShown
<1>8. QED
  BY <1>2, <1>3, <1>4, <1>6, <1>7 DEF IInv

LEMMA RecordStep ==
    ASSUME IInv, NEW n \in Notification, Record(n)
    PROVE  IInv'
<1>1. /\ loop.phase = "batch" /\ n \in loop.batch
      /\ UNCHANGED <<server, generation, late, shown, shownByTest, locals, lost>>
  BY DEF Record
<1>2. CASE loop' = Resting /\ UNCHANGED <<inbox, evicted>>
  BY <1>1, <1>2, RestingType, RestingFields, LoopRests DEF server, history, IInv, TypeOK
<1>3. CASE /\ loop.generation = generation
           /\ Inserted(n)
           /\ loop' = [loop EXCEPT !.phase = "recorded", !.item = n]
           /\ Insert(n)
  <2>1. n \in Item
    BY DEF Item
  <2>2. /\ inbox' \in Seq(Item) /\ Len(inbox') <= MaxItems
        /\ evicted' \in SUBSET Notification
        /\ \A m \in Notification \ evicted' :
              /\ m \notin evicted
              /\ m \in Items(inbox) => m \in Items(inbox')
              /\ m = n => m \in Items(inbox')
    BY <1>3, <2>1, InsertFacts DEF IInv
  <2>3. /\ loop' \in Loop
        /\ loop'.phase = "recorded" /\ loop'.item = n
        /\ loop'.batch = loop.batch /\ loop'.generation = loop.generation
    BY <1>3 DEF IInv, TypeOK, Loop
  <2>4. TypeOK'
    BY <1>1, <2>2, <2>3 DEF server, IInv, TypeOK, Item
  <2>5. RowInv'
    BY <1>1, <2>3 DEF server, IInv, RowInv
  <2>6. InboxInv'
    <3>1. n \notin evicted' => ~(shown[n] > 0) /\ n \notin late
      BY <1>1, <1>3, <2>2 DEF Inserted, IInv, InboxInv
    <3>2. QED
      BY <1>1, <2>2, <2>3, <3>1 DEF IInv, InboxInv
  <2>7. LoopInv'
    BY <1>1, <1>3, <2>3 DEF server, IInv, LoopInv
  <2>8. TestInv' /\ DeliveredWasShown'
    BY <1>1 DEF server, IInv, TestInv, DeliveredWasShown
  <2>9. QED
    BY <2>4, <2>5, <2>6, <2>7, <2>8 DEF IInv
<1>4. CASE loop' = Reporting(n, "failed") /\ UNCHANGED <<inbox, evicted>>
  BY <1>1, <1>4, LoopReports DEF IInv, TypeOK, InboxInv
<1>5. QED
  BY <1>2, <1>3, <1>4 DEF Record

LEMMA DisplayedFacts ==
    ASSUME TypeOK, NEW n \in Notification, Displayed(n)
    PROVE  /\ shown' \in [Notification -> 0 .. 2]
           /\ \A m \in Notification \ {n} : shown'[m] = shown[m]
           /\ shown'[n] >= shown[n] /\ shown'[n] > 0
           /\ shown[n] = 0 => shown'[n] = 1
BY DEF Displayed, TypeOK

LEMMA ShowStep ==
    ASSUME IInv, Show
    PROVE  IInv'
<1> DEFINE n == loop.item
<1>1. PICK outcome \in ShowOutcomes :
         /\ IF outcome[1] THEN Displayed(n) ELSE UNCHANGED shown
         /\ late' = IF outcome[2] THEN late \cup {n} ELSE late
         /\ loop' = Reporting(n, outcome[3])
  BY DEF Show
<1>2. /\ n \in Notification
      /\ loop.phase = "recorded"
      /\ UNCHANGED <<server, generation, inbox, shownByTest, evicted, locals, lost>>
  BY DEF Show, IInv, LoopInv
<1>3. n \notin evicted => shown[n] = 0 /\ n \notin late /\ n \in Items(inbox)
  BY <1>2 DEF IInv, InboxInv, TypeOK
<1>4. PICK m \in Notification : m = n
  BY <1>2
<1>5. CASE outcome = <<TRUE, FALSE, "displayed">>
  <2>1. Displayed(m) /\ late' = late /\ loop' = Reporting(m, "displayed")
    BY <1>1, <1>4, <1>5
  <2>2. /\ shown' \in [Notification -> 0 .. 2]
        /\ \A x \in Notification \ {m} : shown'[x] = shown[x]
        /\ shown'[m] >= shown[m] /\ shown'[m] > 0
        /\ shown[m] = 0 => shown'[m] = 1
    BY <2>1, DisplayedFacts DEF IInv
  <2>3. late \subseteq Notification
    BY DEF IInv, TypeOK
  <2>4. QED
    BY <1>2, <1>3, <1>4, <2>1, <2>2, <2>3, LoopReports
<1>6. CASE outcome = <<FALSE, FALSE, "failed">>
  <2>1. UNCHANGED shown /\ late' = late /\ loop' = Reporting(m, "failed")
    BY <1>1, <1>4, <1>6
  <2>2. QED
    BY <1>2, <1>3, <1>4, <2>1, LoopReports DEF IInv, TypeOK
<1>7. CASE outcome = <<FALSE, TRUE, "failed">>
  <2>1. UNCHANGED shown /\ late' = late \cup {m} /\ loop' = Reporting(m, "failed")
    BY <1>1, <1>4, <1>7
  <2>2. QED
    BY <1>2, <1>3, <1>4, <2>1, LoopReports DEF IInv, TypeOK
<1>8. QED
  BY <1>5, <1>6, <1>7 DEF ShowOutcomes

LEMMA ShowLateStep ==
    ASSUME IInv, NEW n \in Notification, ShowLate(n)
    PROVE  IInv'
<1> USE DEF server
<1>1. /\ n \in late /\ late' = late \ {n} /\ Displayed(n)
      /\ UNCHANGED <<server, generation, loop, inbox, shownByTest, evicted, locals, lost>>
  BY DEF ShowLate
<1>2. /\ shown' \in [Notification -> 0 .. 2]
      /\ \A m \in Notification \ {n} : shown'[m] = shown[m]
      /\ shown'[n] >= shown[n] /\ shown'[n] > 0
      /\ shown[n] = 0 => shown'[n] = 1
  BY <1>1, DisplayedFacts DEF IInv
<1>3. TypeOK'
  BY <1>1, <1>2 DEF IInv, TypeOK
<1>4. RowInv'
  BY <1>1 DEF IInv, RowInv
<1>5. n \notin evicted => shown[n] = 0 /\ n \in Items(inbox)
  BY <1>1 DEF IInv, InboxInv, TypeOK
<1>6. InboxInv'
  BY <1>1, <1>2, <1>5 DEF IInv, InboxInv
<1>7. \A m \in Notification : shown[m] > 0 => shown'[m] > 0
  BY <1>2
<1>8. LoopInv'
  BY <1>1, <1>7 DEF IInv, LoopInv, TypeOK, Ack
<1>9. TestInv' /\ DeliveredWasShown'
  BY <1>1, <1>7 DEF IInv, TestInv, DeliveredWasShown
<1>10. QED
  BY <1>3, <1>4, <1>6, <1>8, <1>9 DEF IInv

\* The acknowledgement claims what the loop found out.
LEMMA SendAckStep ==
    ASSUME IInv, SendAck
    PROVE  IInv'
<1>1. /\ loop.phase = "report"
      /\ UNCHANGED <<notif, delivery, test, account, generation, inbox, late, history,
                     locals, lost>>
  BY DEF SendAck
<1>2. CASE loop.generation = generation
  <2> USE DEF history
  <2>1. /\ acks' = acks \cup {[item |-> loop.item, outcome |-> loop.outcome]}
        /\ loop' = [loop EXCEPT !.phase = "acking"]
    BY <1>2 DEF SendAck
  <2>2. loop.item \in Notification /\ loop \in Loop
    BY <1>1 DEF IInv, LoopInv, TypeOK
  <2>3. /\ loop' \in Loop /\ loop'.phase = "acking"
        /\ loop'.item = loop.item /\ loop'.batch = loop.batch
        /\ loop'.outcome = loop.outcome
    BY <2>1, <2>2 DEF Loop
  <2>4. acks' \subseteq Ack
    BY <2>1, <2>2 DEF IInv, TypeOK, Ack, Loop
  <2>5. TypeOK'
    BY <1>1, <2>3, <2>4 DEF IInv, TypeOK
  <2>6. RowInv' /\ InboxInv'
    BY <1>1, <2>3 DEF IInv, RowInv, InboxInv
  <2>7. LoopInv'
    BY <1>1, <2>1, <2>2, <2>3 DEF IInv, LoopInv
  <2>8. TestInv' /\ DeliveredWasShown'
    BY <1>1 DEF IInv, TestInv, DeliveredWasShown
  <2>9. QED
    BY <2>5, <2>6, <2>7, <2>8 DEF IInv
<1>3. CASE loop.generation # generation
  <2>1. loop' = NextItem /\ acks' = acks
    BY <1>3 DEF SendAck
  <2>2. QED
    BY <1>1, <2>1, NextItemType, LoopRests DEF IInv, TypeOK
<1>4. QED
  BY <1>2, <1>3

LEMMA HearAckStep ==
    ASSUME IInv, HearAck
    PROVE  IInv'
BY NextItemType, LoopRests DEF HearAck, server, IInv, TypeOK

LEMMA LoseAckStep ==
    ASSUME IInv, LoseAck
    PROVE  IInv'
<1>1. lost' \in 0 .. MaxLost
  BY ConstantsOK DEF LoseAck, Lose, IInv, TypeOK
<1>2. acks' \subseteq acks
  BY DEF LoseAck
<1>3. QED
  BY <1>1, <1>2, NextItemType, LoopRests DEF LoseAck, IInv, TypeOK

-----------------------------------------------------------------------------
(* The test notification. *)

\* A step of the test request: the loop, the inbox and what was displayed stay.
LEMMA TestStep ==
    ASSUME IInv, test' \in TestRequest, TestInv',
           UNCHANGED <<acks, account, pc, shown, evicted, locals>>,
           notif' \in [Notification -> {"absent", "live", "expired", "void"}],
           delivery' \in [Notification -> {"none", "pending", "delivered", "failed"}],
           shownByTest' \in [Notification -> BOOLEAN],
           lost' \in 0 .. MaxLost,
           \A n \in Notification :
              /\ notif'[n] = "absent" => notif[n] = "absent" /\ delivery'[n] = "none"
              /\ notif'[n] \in {"live", "expired"} => delivery'[n] # "none"
              /\ delivery'[n] = "delivered" => shown[n] > 0 \/ shownByTest'[n]
    PROVE  IInv'
<1> USE DEF pc
<1>1. TypeOK'
  BY DEF IInv, TypeOK
<1>2. RowInv' /\ InboxInv' /\ LoopInv'
  BY DEF IInv, RowInv, InboxInv, LoopInv
<1>3. DeliveredWasShown'
  BY DEF DeliveredWasShown
<1>4. QED
  BY <1>1, <1>2, <1>3 DEF IInv

\* What is known of the test request at hand.
LEMMA TestAtHand ==
    ASSUME IInv, test.stage # "idle"
    PROVE  /\ test.item \in Test /\ test.item \in Notification
           /\ test \in TestRequest
BY ConstantsOK DEF IInv, TestInv, TypeOK

LEMMA ShowTestStep ==
    ASSUME IInv, NEW n \in Notification, ShowTest(n)
    PROVE  IInv'
<1>1. PICK displayed, confirmed \in BOOLEAN :
         /\ confirmed => displayed
         /\ shownByTest' = [shownByTest EXCEPT ![n] = displayed]
         /\ test' = [stage |-> "asked", item |-> n, displayed |-> confirmed]
  BY DEF ShowTest
<1>2. /\ n \in Test /\ notif[n] = "absent"
      /\ UNCHANGED <<notif, delivery, acks, account, pc, shown, evicted, locals, lost>>
  BY DEF ShowTest
<1>3. shownByTest' \in [Notification -> BOOLEAN]
  BY <1>1, Zenon DEF IInv, TypeOK
<1>4. test' \in TestRequest
  BY <1>1 DEF TestRequest
<1>5. /\ shownByTest'[n] = displayed
      /\ \A m \in Notification \ {n} : shownByTest'[m] = shownByTest[m]
  BY <1>1 DEF IInv, TypeOK
<1>6. /\ test'.stage = "asked" /\ test'.item = n
      /\ test'.displayed => displayed
  BY <1>1
<1>7. TestInv'
  BY <1>2, <1>5, <1>6 DEF TestInv
<1>8. \A m \in Notification :
         /\ notif'[m] = "absent" => notif[m] = "absent" /\ delivery'[m] = "none"
         /\ notif'[m] \in {"live", "expired"} => delivery'[m] # "none"
         /\ delivery'[m] = "delivered" => shown[m] > 0 \/ shownByTest'[m]
  BY <1>2, <1>5 DEF IInv, RowInv, DeliveredWasShown
<1>9. QED
  BY <1>2, <1>3, <1>4, <1>7, <1>8, TestStep DEF IInv, TypeOK

LEMMA NoTestInv == test' = NoTest => TestInv'
BY DEF NoTest, TestInv

LEMMA RefuseTestStep ==
    ASSUME IInv, RefuseTest
    PROVE  IInv'
<1>1. test.item \in Notification /\ test' = NoTest
  BY TestAtHand DEF RefuseTest
<1>2. /\ notif' \in [Notification -> {"absent", "live", "expired", "void"}]
      /\ notif'[test.item] = "void"
      /\ \A m \in Notification \ {test.item} : notif'[m] = notif[m]
      /\ UNCHANGED <<delivery, acks, account, pc, history, locals, lost>>
  BY <1>1 DEF RefuseTest, IInv, TypeOK
<1>3. QED
  BY <1>1, <1>2, NoTestType, NoTestInv, TestStep
  DEF history, IInv, TypeOK, RowInv, DeliveredWasShown

LEMMA CreateTestStep ==
    ASSUME IInv, CreateTest
    PROVE  IInv'
<1>1. /\ test.stage = "asked"
      /\ test.item \in Notification /\ test.item \in Test /\ test \in TestRequest
      /\ UNCHANGED <<acks, account, pc, history, locals, lost>>
  BY TestAtHand DEF CreateTest
<1>2. /\ notif' \in [Notification -> {"absent", "live", "expired", "void"}]
      /\ delivery' \in [Notification -> {"none", "pending", "delivered", "failed"}]
      /\ notif'[test.item] = "live" /\ delivery'[test.item] = "pending"
      /\ \A m \in Notification \ {test.item} :
            notif'[m] = notif[m] /\ delivery'[m] = delivery[m]
  BY <1>1 DEF CreateTest, IInv, TypeOK
<1>3. test' \in TestRequest /\ TestInv'
  <2>1. CASE test.displayed
    <3>1. test' = [test EXCEPT !.stage = "created"]
      BY <2>1 DEF CreateTest
    <3>2. /\ test' \in TestRequest
          /\ test'.item = test.item
          /\ test'.stage = "created"
          /\ test'.displayed = test.displayed
      BY <1>1, <3>1 DEF TestRequest
    <3>3. QED
      BY <1>1, <2>1, <3>2 DEF history, IInv, TestInv
  <2>2. CASE ~test.displayed
    BY <2>2, NoTestType, NoTestInv DEF CreateTest
  <2>3. QED
    BY <2>1, <2>2
<1>4. \A m \in Notification :
         /\ notif'[m] = "absent" => notif[m] = "absent" /\ delivery'[m] = "none"
         /\ notif'[m] \in {"live", "expired"} => delivery'[m] # "none"
         /\ delivery'[m] = "delivered" => shown[m] > 0 \/ shownByTest'[m]
  BY <1>1, <1>2 DEF history, IInv, RowInv, DeliveredWasShown
<1>5. QED
  BY <1>1, <1>2, <1>3, <1>4, TestStep DEF history, IInv, TypeOK

\* The server acknowledges for a PC that said it had displayed the test.
LEMMA AckTestStep ==
    ASSUME IInv, AckTest
    PROVE  IInv'
<1>1. /\ test.stage = "created"
      /\ test.item \in Notification /\ test' = NoTest
      /\ UNCHANGED <<notif, acks, account, pc, history, locals, lost>>
  BY TestAtHand DEF AckTest
<1>2. /\ delivery' \in [Notification -> {"none", "pending", "delivered", "failed"}]
      /\ delivery'[test.item] = "none" <=> delivery[test.item] = "none"
      /\ \A m \in Notification \ {test.item} : delivery'[m] = delivery[m]
  BY <1>1, AcknowledgedType DEF AckTest, IInv, TypeOK
<1>3. shownByTest[test.item]
  BY <1>1 DEF IInv, TestInv
<1>4. QED
  BY <1>1, <1>2, <1>3, NoTestType, NoTestInv, TestStep
  DEF history, IInv, TypeOK, RowInv, DeliveredWasShown

LEMMA LoseTestStep ==
    ASSUME IInv, LoseTest
    PROVE  IInv'
<1>1. lost' \in 0 .. MaxLost
  BY ConstantsOK DEF LoseTest, Lose, IInv, TypeOK
<1>2. QED
  BY <1>1, NoTestType, NoTestInv, TestStep
  DEF LoseTest, history, IInv, TypeOK, RowInv, DeliveredWasShown

-----------------------------------------------------------------------------
(* Identity and restarts. *)

\* The rows go with their user; what the PC has in hand was not polled for another one.
LEMMA ResetIdentityStep ==
    ASSUME IInv, ResetIdentity
    PROVE  IInv'
<1>1. /\ loop.phase # "recorded"
      /\ notif' = [n \in Notification |->
                     IF notif[n] = "absent" /\ n # test.item THEN "absent" ELSE "void"]
      /\ delivery' = [n \in Notification |-> "none"]
      /\ test' = NoTest
      /\ UNCHANGED <<acks, loop, inbox, late, history, locals>>
  BY DEF ResetIdentity, Locked
<1>2. /\ account' \in {"active", "unregistered", "unusable"}
      /\ generation' \in 0 .. MaxResets
      /\ lost' \in 0 .. MaxLost
  BY ConstantsOK DEF ResetIdentity, Lose, IInv, TypeOK
<1> USE DEF history
<1>3. TypeOK'
  BY <1>1, <1>2, NoTestType DEF IInv, TypeOK
<1>4. RowInv'
  BY <1>1 DEF IInv, RowInv
<1>5. InboxInv' /\ LoopInv'
  BY <1>1 DEF IInv, InboxInv, LoopInv
<1>6. DeliveredWasShown' /\ TestInv'
  BY <1>1, NoTestInv DEF DeliveredWasShown
<1>7. QED
  BY <1>3, <1>4, <1>5, <1>6 DEF IInv

LEMMA RegisterStep ==
    ASSUME IInv, Register
    PROVE  IInv'
<1>1. /\ account' \in {"active", "unregistered", "unusable"} /\ lost' \in 0 .. MaxLost
      /\ UNCHANGED <<notif, delivery, acks, test, pc, history, locals>>
  BY ConstantsOK DEF Register, Lose, IInv, TypeOK
<1>2. QED
  BY <1>1 DEF pc, history, IInv, TypeOK, RowInv, InboxInv, LoopInv, TestInv,
              DeliveredWasShown

\* A restart takes up nothing: the inbox remembers what was recorded.
LEMMA RestartStep ==
    ASSUME IInv, Restart
    PROVE  IInv'
<1>1. lost' \in 0 .. MaxLost
  BY ConstantsOK DEF Restart, Lose, IInv, TypeOK
<1>2. QED
  BY <1>1, RestingType, RestingFields, LoopRests DEF Restart, server, IInv, TypeOK

LEMMA NextIInv == IInv /\ [Next]_vars => IInv'
<1> SUFFICES ASSUME IInv, [Next]_vars PROVE IInv'
  OBVIOUS
<1>1. ASSUME NEW n \in Notification,
             \/ CreateNotification(n) \/ ExpireNotification(n) \/ DeleteExpired(n)
             \/ ShowLate(n) \/ ShowTest(n)
      PROVE  IInv'
  BY <1>1, CreateNotificationStep, ExpireNotificationStep, DeleteExpiredStep,
     ShowLateStep, ShowTestStep
<1>2. ASSUME NEW a \in acks, ServerAck(a) PROVE IInv'
  BY <1>2, ServerAckStep
<1>3. CASE RecordLocalItem
  BY <1>3, RecordLocalItemStep
<1>4. CASE Poll \/ LosePoll \/ LoseAck
  BY <1>4, PollStep, LosePollStep, LoseAckStep
<1>5. CASE LoopStep
  BY <1>5, HearPollStep, RecordStep, ShowStep, SendAckStep, HearAckStep DEF LoopStep
<1>6. CASE RefuseTest \/ CreateTest \/ AckTest \/ LoseTest
  BY <1>6, RefuseTestStep, CreateTestStep, AckTestStep, LoseTestStep
<1>7. CASE ResetIdentity \/ Register \/ Restart
  BY <1>7, ResetIdentityStep, RegisterStep, RestartStep
<1>8. CASE UNCHANGED vars
  BY <1>8 DEF vars, server, pc, history, IInv, TypeOK, RowInv, InboxInv, LoopInv, TestInv,
              DeliveredWasShown
<1>9. QED
  BY <1>1, <1>2, <1>3, <1>4, <1>5, <1>6, <1>7, <1>8 DEF Next

-----------------------------------------------------------------------------
(* The theorems. *)

\* The inductive invariant holds in every reachable state.
THEOREM Invariant == Spec => []IInv
BY InitIInv, NextIInv, PTL DEF Spec

\* Rows, loop, inbox and histories keep their types; the inbox never outgrows MaxItems.
THEOREM TypeCorrect == Spec => []TypeOK
<1>1. IInv => TypeOK
  BY DEF IInv
<1>2. QED
  BY <1>1, Invariant, PTL

\* The loop displays twice only what the inbox has forgotten in between.
THEOREM SecondDisplayExplained == Spec => []DisplayedOnce
<1>1. IInv => DisplayedOnce
  <2>1. ASSUME IInv, NEW n \in Notification, shown[n] > 1, n \notin evicted
        PROVE  FALSE
    <3>1. shown[n] > 0 /\ shown[n] # 1
      BY <2>1 DEF IInv, TypeOK
    <3>2. QED
      BY <2>1, <3>1 DEF IInv, InboxInv
  <2>2. QED
    BY <2>1 DEF DisplayedOnce
<1>2. QED
  BY <1>1, Invariant, PTL

\* 'delivered' is recorded only for what the PC displayed.
THEOREM DeliveredMeansShown == Spec => []DeliveredWasShown
<1>1. IInv => DeliveredWasShown
  BY DEF IInv
<1>2. QED
  BY <1>1, Invariant, PTL

\* The loop displays for the identity it polled with, or late: no reset comes between its
\* check of the generation and the display.
THEOREM NothingShownForOldIdentity == Spec => OldIdentityNotShown
<1>1. ASSUME IInv, [Next]_vars
      PROVE  [\A n \in Notification :
                 shown'[n] > shown[n] => n \in late \/ loop.generation = generation]_vars
  <2>1. CASE Show
    BY <2>1, <1>1 DEF Show, IInv, LoopInv
  <2>2. ASSUME NEW n \in Notification, ShowLate(n)
        PROVE  \A m \in Notification : shown'[m] > shown[m] => m \in late
    BY <1>1, <2>2, DisplayedFacts DEF ShowLate, IInv, TypeOK
  <2>3. CASE UNCHANGED shown
    BY <1>1, <2>3 DEF IInv, TypeOK
  <2>4. QED
    BY <1>1, <2>1, <2>2, <2>3
    DEF Next, LoopStep, CreateNotification, ExpireNotification, DeleteExpired, ShowTest,
        ServerAck, RecordLocalItem, Poll, LosePoll, HearPoll, Record, SendAck, HearAck,
        LoseAck, RefuseTest, CreateTest, AckTest, LoseTest, ResetIdentity, Register,
        Restart, history
<1>2. QED
  BY <1>1, Invariant, PTL DEF Spec, OldIdentityNotShown
-----------------------------------------------------------------------------
(* DesktopNotify implements DeliveryContract. *)

\* What one step makes of the mapped variables.
LEMMA MappedOutcome ==
    ASSUME NEW S \in SUBSET Planned, NEW o,
           \A n \in S : OutcomeOf(n)' = o,
           \A n \in Planned \ S : OutcomeOf(n)' = OutcomeOf(n)
    PROVE  Contract!Becomes(S, o)
BY DEF Contract!Becomes

LEMMA OutcomeKept ==
    ASSUME \A n \in Planned : OutcomeOf(n)' = OutcomeOf(n),
           \A n \in Planned : shown'[n] = shown[n]
    PROVE  UNCHANGED Contract!contractVars
BY DEF Contract!contractVars

LEMMA ReachedKept ==
    ASSUME UNCHANGED shown
    PROVE  UNCHANGED [n \in Planned |-> shown[n] > 0]
OBVIOUS

\* A step that leaves the rows of planned notifications alone.
LEMMA NothingMapped ==
    ASSUME UNCHANGED shown,
           \A n \in Planned : notif'[n] = notif[n] /\ delivery'[n] = delivery[n]
    PROVE  UNCHANGED Contract!contractVars
BY OutcomeKept DEF OutcomeOf

LEMMA InitRefines == Init => Contract!ContractInit
<1> SUFFICES ASSUME Init PROVE Contract!ContractInit
  OBVIOUS
<1>1. \A n \in Planned : OutcomeOf(n) = "none"
  BY DEF Init, OutcomeOf, Planned
<1>2. \A n \in Planned : (shown[n] > 0) = FALSE
  BY DEF Init, Planned
<1>3. [n \in Planned |-> shown[n] > 0] = [n \in Planned |-> FALSE]
  BY <1>2, Zenon
<1>4. QED
  BY <1>1, <1>3 DEF Contract!ContractInit

LEMMA CreateNotificationMaps ==
    ASSUME IInv, NEW n \in Notification, CreateNotification(n)
    PROVE  Contract!ContractNext
<1>1. n \in Planned /\ UNCHANGED shown /\ notif[n] = "absent" /\ delivery[n] = "none"
  BY DEF CreateNotification, Planned, history, IInv, RowInv
<1>2. /\ notif'[n] = "live" /\ delivery'[n] = "pending"
      /\ \A m \in Planned \ {n} : notif'[m] = notif[m] /\ delivery'[m] = delivery[m]
  BY <1>1 DEF CreateNotification, IInv, TypeOK, Planned
<1>3. Contract!Becomes({n}, "open")
  BY <1>1, <1>2, MappedOutcome DEF OutcomeOf
<1>4. Contract!Open({n})
  BY <1>1, <1>3, ReachedKept DEF Contract!Open, OutcomeOf
<1>5. QED
  BY <1>1, <1>4 DEF Contract!ContractNext

LEMMA ExpireNotificationMaps ==
    ASSUME IInv, NEW n \in Notification, ExpireNotification(n)
    PROVE  UNCHANGED Contract!contractVars
<1>1. /\ UNCHANGED <<shown, delivery>>
      /\ notif[n] = "live" /\ notif'[n] = "expired"
      /\ \A m \in Notification \ {n} : notif'[m] = notif[m]
  BY DEF ExpireNotification, history, IInv, TypeOK
<1>2. \A m \in Planned : OutcomeOf(m)' = OutcomeOf(m)
  BY <1>1 DEF OutcomeOf, Planned
<1>3. QED
  BY <1>1, <1>2, OutcomeKept

\* Housekeeping drops a planned notification's row; a test's row is not mapped.
LEMMA DeleteExpiredMaps ==
    ASSUME IInv, NEW n \in Notification, DeleteExpired(n)
    PROVE  Contract!ContractNext
<1> DEFINE S == {n} \cap Planned
<1>1. /\ UNCHANGED shown /\ notif'[n] = "void"
      /\ \A m \in Planned \ S : notif'[m] = notif[m] /\ delivery'[m] = delivery[m]
  BY DEF DeleteExpired, history, IInv, TypeOK, Planned
<1>2. Contract!Becomes(S, "dropped")
  BY <1>1, MappedOutcome DEF OutcomeOf
<1>3. Contract!Drop(S)
  BY <1>1, <1>2, ReachedKept DEF Contract!Drop
<1>4. QED
  BY <1>3 DEF Contract!ContractNext

\* An acknowledgement that counts closes an open row, with an outcome that is true of the
\* display.
LEMMA ServerAckMaps ==
    ASSUME IInv, NEW a \in acks, ServerAck(a)
    PROVE  [Contract!ContractNext]_(Contract!contractVars)
<1>0. PICK n \in Notification : n = a.item
  BY DEF IInv, TypeOK, Ack
<1>1. /\ UNCHANGED <<shown, notif>>
      /\ a.outcome \in {"displayed", "failed"}
      /\ delivery'[n] = Acknowledged(n, a.outcome)
      /\ \A m \in Notification \ {n} : delivery'[m] = delivery[m]
  BY <1>0 DEF ServerAck, history, IInv, TypeOK, Ack
<1>2. CASE delivery[n] # "pending" \/ notif[n] = "void" \/ n \notin Planned
  <2>1. \A m \in Planned : OutcomeOf(m)' = OutcomeOf(m)
    BY <1>1, <1>2 DEF OutcomeOf, Acknowledged, Planned
  <2>2. QED
    BY <1>1, <2>1, OutcomeKept
<1>3. CASE delivery[n] = "pending" /\ notif[n] # "void" /\ n \in Planned
  <2>1. OutcomeOf(n) = "open"
    BY <1>3 DEF OutcomeOf
  <2>2. \A m \in Planned \ {n} : OutcomeOf(m)' = OutcomeOf(m)
    BY <1>1 DEF OutcomeOf, Planned
  <2>3. CASE a.outcome = "displayed"
    <3>1. OutcomeOf(n)' = "delivered"
      BY <1>1, <1>3, <2>3 DEF OutcomeOf, Acknowledged
    <3>2. Contract!Becomes({n}, "delivered")
      BY <1>3, <2>2, <3>1, MappedOutcome
    <3>3. shown[n] > 0
      BY <1>0, <2>3 DEF IInv, LoopInv
    <3>4. Contract!Confirm(n)
      BY <1>1, <1>3, <2>1, <3>2, <3>3, ReachedKept DEF Contract!Confirm
    <3>5. QED
      BY <1>3, <3>4 DEF Contract!ContractNext
  <2>4. CASE a.outcome = "failed"
    <3>1. OutcomeOf(n)' = "failed"
      BY <1>1, <1>3, <2>4 DEF OutcomeOf, Acknowledged
    <3>2. Contract!Becomes({n}, "failed")
      BY <1>3, <2>2, <3>1, MappedOutcome
    <3>3. Contract!GiveUp({n}, "failed")
      BY <1>1, <1>3, <2>1, <3>2, ReachedKept DEF Contract!GiveUp
    <3>4. QED
      BY <1>3, <3>3 DEF Contract!ContractNext
  <2>5. QED
    BY <1>1, <2>3, <2>4
<1>4. QED
  BY <1>2, <1>3

\* A display reaches the user for a notification whose row was made, whatever became of
\* the row since.
LEMMA DisplayMaps ==
    ASSUME IInv, NEW n \in Notification, Displayed(n), UNCHANGED <<notif, delivery>>,
           notif[n] # "absent"
    PROVE  [Contract!ContractNext]_(Contract!contractVars)
<1>1. /\ shown'[n] > 0
      /\ \A m \in Notification \ {n} : shown'[m] = shown[m]
  BY DisplayedFacts DEF IInv
<1>2. \A m \in Planned : OutcomeOf(m)' = OutcomeOf(m)
  BY DEF OutcomeOf
<1>3. CASE n \notin Planned
  BY <1>1, <1>2, <1>3, OutcomeKept DEF Planned
<1>4. CASE n \in Planned
  <2>1. OutcomeOf(n) # "none"
    BY DEF OutcomeOf, IInv, RowInv, TypeOK
  <2>2. UNCHANGED [m \in Planned |-> OutcomeOf(m)]
    BY <1>2
  <2>3. [m \in Planned |-> shown[m] > 0]'
           = [[m \in Planned |-> shown[m] > 0] EXCEPT ![n] = TRUE]
    BY <1>1, <1>4 DEF Planned
  <2>4. Contract!Reach(n)
    BY <1>4, <2>1, <2>2, <2>3 DEF Contract!Reach
  <2>5. QED
    BY <1>4, <2>4 DEF Contract!ContractNext
<1>5. QED
  BY <1>3, <1>4

LEMMA ShowMaps ==
    ASSUME IInv, Show
    PROVE  [Contract!ContractNext]_(Contract!contractVars)
<1>1. PICK n \in Notification : n = loop.item
  BY DEF Show, IInv, LoopInv
<1>2. UNCHANGED <<notif, delivery>> /\ notif[n] # "absent"
  BY <1>1 DEF Show, server, IInv, RowInv
<1>3. CASE Displayed(n)
  BY <1>2, <1>3, DisplayMaps
<1>4. CASE UNCHANGED shown
  BY <1>2, <1>4, NothingMapped
<1>5. QED
  BY <1>1, <1>3, <1>4 DEF Show

LEMMA ShowLateMaps ==
    ASSUME IInv, NEW n \in Notification, ShowLate(n)
    PROVE  [Contract!ContractNext]_(Contract!contractVars)
BY DisplayMaps DEF ShowLate, server, IInv, RowInv

\* The test notifications are no deliveries of the contract.
LEMMA TestMaps ==
    ASSUME IInv, RefuseTest \/ CreateTest \/ AckTest \/ LoseTest
    PROVE  UNCHANGED Contract!contractVars
<1>1. test.item \in Test /\ UNCHANGED shown
  BY DEF RefuseTest, CreateTest, AckTest, LoseTest, history, IInv, TestInv
<1>2. \A m \in Planned : notif'[m] = notif[m] /\ delivery'[m] = delivery[m]
  BY <1>1 DEF RefuseTest, CreateTest, AckTest, LoseTest, IInv, TypeOK, Planned
<1>3. QED
  BY <1>1, <1>2, NothingMapped

\* A reset drops what the old user had.
LEMMA ResetIdentityMaps ==
    ASSUME IInv, ResetIdentity
    PROVE  Contract!ContractNext
<1> DEFINE S == {n \in Planned : notif[n] # "absent" \/ n = test.item}
<1>1. /\ UNCHANGED shown
      /\ notif' = [n \in Notification |->
                     IF notif[n] = "absent" /\ n # test.item THEN "absent" ELSE "void"]
      /\ delivery' = [n \in Notification |-> "none"]
  BY DEF ResetIdentity, history
<1>2. \A n \in S : OutcomeOf(n)' = "dropped"
  BY <1>1 DEF OutcomeOf, Planned
<1>3. \A n \in Planned \ S : OutcomeOf(n)' = OutcomeOf(n)
  BY <1>1 DEF OutcomeOf, Planned, IInv, RowInv
<1>4. Contract!Becomes(S, "dropped")
  BY <1>2, <1>3, MappedOutcome
<1>5. Contract!Drop(S)
  BY <1>1, <1>4, ReachedKept DEF Contract!Drop
<1>6. QED
  BY <1>5 DEF Contract!ContractNext

LEMMA StepRefines ==
    ASSUME IInv, [Next]_vars
    PROVE  [Contract!ContractNext]_(Contract!contractVars)
<1>1. ASSUME NEW n \in Notification,
             \/ CreateNotification(n) \/ ExpireNotification(n) \/ DeleteExpired(n)
             \/ ShowLate(n)
      PROVE  [Contract!ContractNext]_(Contract!contractVars)
  BY <1>1, CreateNotificationMaps, ExpireNotificationMaps, DeleteExpiredMaps, ShowLateMaps
<1>2. ASSUME NEW a \in acks, ServerAck(a)
      PROVE  [Contract!ContractNext]_(Contract!contractVars)
  BY <1>2, ServerAckMaps
<1>3. CASE Show \/ ResetIdentity
  BY <1>3, ShowMaps, ResetIdentityMaps
<1>4. CASE RefuseTest \/ CreateTest \/ AckTest \/ LoseTest
  BY <1>4, TestMaps
<1>5. CASE UNCHANGED <<notif, delivery, shown>>
  BY <1>5, NothingMapped
<1>6. QED
  BY <1>1, <1>2, <1>3, <1>4, <1>5
  DEF Next, vars, LoopStep, ShowTest, RecordLocalItem, Poll, LosePoll, HearPoll, Record,
      SendAck, HearAck, LoseAck, Register, Restart, server, history

\* The PC's notifications keep the delivery contract: a row is opened once and closed once,
\* and recorded as delivered only when the PC displayed the notification.
THEOREM DesktopNotifyImplementsContract == Spec => ImplementsContract
BY Invariant, InitRefines, StepRefines, PTL
   DEF Spec, ImplementsContract, Contract!ContractSpec

=============================================================================
