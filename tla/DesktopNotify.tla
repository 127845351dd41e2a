---------------------------- MODULE DesktopNotify ----------------------------
(***************************************************************************)
(* Server notifications on the PC: the notification_delivery rows of       *)
(* target kind 'desktop', the background loop that polls, records, shows   *)
(* and acknowledges them (remote_sync.rs), the notification inbox it       *)
(* records them in, and the test notification, which the PC shows by       *)
(* itself before the server hears of it (send_test_notification).          *)
(*                                                                         *)
(* The loop works on one notification at a time; what it does under the    *)
(* identity lock is Record and Show.  An acknowledgement the loop has      *)
(* given up on may still reach the server.                                 *)
(***************************************************************************)
EXTENDS Naturals, FiniteSets, Sequences

CONSTANTS
    Notification,   \* notifications of the PC's user
    Test,           \* the test notifications among them, each requested at most once
    NoNotification, \* the loop works on none
    LocalItem,      \* an inbox item of the PC's own (update ready, test, start-up)
    MacOS,          \* shows wait for the main thread, for 10 s at most
    PollLimit,      \* notifications one poll returns at most (20)
    MaxItems,       \* items the inbox keeps (100)
    MaxLocal,       \* bound on LocalItems recorded
    MaxLost,        \* bound on lost connections and restarts
    MaxResets       \* bound on identity resets

ASSUME ConstantsOK ==
    /\ Test \subseteq Notification
    /\ NoNotification \notin Notification
    /\ LocalItem \notin Notification
    /\ MacOS \in BOOLEAN
    /\ PollLimit \in Nat \ {0}
    /\ MaxItems \in Nat \ {0}
    /\ {MaxLocal, MaxLost, MaxResets} \subseteq Nat

VARIABLES
    notif,          \* notif[n]: "absent", "live", "expired", or "void": gone, or never made
    delivery,       \* delivery[n]: status of the PC's row, "none" without one
    acks,           \* acknowledgements on their way to the server
    test,           \* the test request in progress
    generation,     \* identity_generation: identity resets of the PC
    account,        \* the PC's credential: "active", "unregistered" before it is enrolled
                    \* again, or "unusable": its user is gone and a reset is needed
    loop,           \* the background loop
    inbox,          \* the inbox, newest first; its file and its memory change together
    late,           \* shows that outlived the loop's patience (10 s, macOS main thread)
    shown,          \* history: times the loop had n displayed (2 stands for more)
    shownByTest,    \* history: the test command displayed n before requesting it
    evicted,        \* history: notifications the inbox has forgotten
    locals, lost    \* counters of the bounded actions

server == <<notif, delivery, acks, test, account>>
pc == <<generation, loop, inbox, late>>
history == <<shown, shownByTest, evicted>>
vars == <<server, pc, history, locals, lost>>

Ack == [item : Notification, outcome : {"displayed", "failed"}]
Loop == [phase : {"idle", "polled", "batch", "recorded", "report", "acking"},
         generation : 0 .. MaxResets, batch : SUBSET Notification,
         item : Notification \cup {NoNotification}, outcome : {"displayed", "failed"}]
TestRequest == [stage : {"idle", "asked", "created"},
                item : Notification \cup {NoNotification}, displayed : BOOLEAN]

Resting == [phase |-> "idle", generation |-> 0, batch |-> {},
            item |-> NoNotification, outcome |-> "failed"]
NoTest == [stage |-> "idle", item |-> NoNotification, displayed |-> FALSE]

Init ==
    /\ notif = [n \in Notification |-> "absent"]
    /\ delivery = [n \in Notification |-> "none"]
    /\ acks = {}
    /\ test = NoTest
    /\ generation = 0
    /\ account = "active"
    /\ loop = Resting
    /\ inbox = <<>>
    /\ late = {}
    /\ shown = [n \in Notification |-> 0]
    /\ shownByTest = [n \in Notification |-> FALSE]
    /\ evicted = {}
    /\ locals = 0
    /\ lost = 0

Lose == lost < MaxLost /\ lost' = lost + 1

-----------------------------------------------------------------------------
(* The server *)

\* A notification falls due with its row for the PC.
CreateNotification(n) ==
    /\ n \notin Test
    /\ account = "active"
    /\ notif[n] = "absent"
    /\ notif' = [notif EXCEPT ![n] = "live"]
    /\ delivery' = [delivery EXCEPT ![n] = "pending"]
    /\ UNCHANGED <<acks, test, account, pc, history, locals, lost>>

ExpireNotification(n) ==
    /\ notif[n] = "live"
    /\ notif' = [notif EXCEPT ![n] = "expired"]
    /\ UNCHANGED <<delivery, acks, test, account, pc, history, locals, lost>>

\* Housekeeping, 30 days later; the row goes with it.
DeleteExpired(n) ==
    /\ notif[n] = "expired"
    /\ notif' = [notif EXCEPT ![n] = "void"]
    /\ delivery' = [delivery EXCEPT ![n] = "none"]
    /\ UNCHANGED <<acks, test, account, pc, history, locals, lost>>

\* Mutated Acknowledged: settles a row that is settled.
AcknowledgedAgain(n, outcome) ==
    IF delivery[n] = "none" THEN delivery[n]
    ELSE IF outcome = "displayed" THEN "delivered" ELSE "failed"

\* The row after an acknowledgement: only one that is still pending is settled.
Acknowledged(n, outcome) ==
    IF delivery[n] # "pending" THEN delivery[n]
    ELSE IF outcome = "displayed" THEN "delivered" ELSE "failed"

ServerAck(a) ==
    /\ a \in acks
    /\ delivery' = [delivery EXCEPT ![a.item] = Acknowledged(a.item, a.outcome)]
    /\ acks' = acks \ {a}
    /\ UNCHANGED <<notif, test, account, pc, history, locals, lost>>

-----------------------------------------------------------------------------
(* The notification inbox *)

\* Mutated Kept: one item too many.
KeptOneMore(s) == SubSeq(s, 1, IF Len(s) <= MaxItems THEN Len(s) ELSE MaxItems + 1)

\* The newest MaxItems items, and what no longer fits.
Kept(s) == SubSeq(s, 1, IF Len(s) < MaxItems THEN Len(s) ELSE MaxItems)
Items(s) == {s[i] : i \in DOMAIN s}
Forgotten(s) == {n \in Notification : n \in Items(s) /\ n \notin Items(Kept(s))}

\* push of a key the inbox does not have: saved to the file, then taken over in memory.
Insert(item) ==
    /\ inbox' = Kept(<<item>> \o inbox)
    /\ evicted' = evicted \cup Forgotten(<<item>> \o inbox)

RecordLocalItem ==
    /\ locals < MaxLocal
    /\ locals' = locals + 1
    /\ Insert(LocalItem)
    /\ UNCHANGED <<server, generation, loop, late, shown, shownByTest, lost>>

-----------------------------------------------------------------------------
(* The background loop *)

Waiting == {n \in Notification : notif[n] = "live" /\ delivery[n] = "pending"}

\* The rows a poll returns; creation order is left out.
Batches == {S \in SUBSET Waiting :
              \/ Cardinality(S) = PollLimit
              \/ S = Waiting /\ Cardinality(S) <= PollLimit}

\* The server reads the rows that wait for the PC.  An empty answer changes nothing.
Poll ==
    /\ loop.phase = "idle"
    /\ account = "active"
    /\ Waiting # {}
    /\ \E S \in Batches :
          loop' = [Resting EXCEPT !.phase = "polled", !.generation = generation, !.batch = S]
    /\ UNCHANGED <<server, generation, inbox, late, history, locals, lost>>

\* complete_authenticated_success: the answer to a previous identity is dropped.
HearPoll ==
    /\ loop.phase = "polled"
    /\ loop' = IF loop.generation = generation THEN [loop EXCEPT !.phase = "batch"]
               ELSE Resting
    /\ UNCHANGED <<server, generation, inbox, late, history, locals, lost>>

LosePoll ==
    /\ loop.phase = "polled"
    /\ Lose
    /\ loop' = Resting
    /\ UNCHANGED <<server, generation, inbox, late, history, locals>>

\* Mutated Reporting: a notification that was not displayed is passed over.
ReportingSuccess(n, outcome) ==
    IF outcome = "displayed"
    THEN [loop EXCEPT !.phase = "report", !.item = n, !.outcome = outcome]
    ELSE IF loop.batch = {n} THEN Resting
    ELSE [loop EXCEPT !.phase = "batch", !.batch = @ \ {n}, !.item = NoNotification]

Reporting(n, outcome) ==
    [loop EXCEPT !.phase = "report", !.item = n, !.outcome = outcome]

\* Mutated Inserted: the inbox does not look for the key.
InsertedAnyway(n) == TRUE

\* record inserts only a key the inbox does not have.
Inserted(n) == n \notin Items(inbox)

\* with_current_identity: a batch of a previous identity is dropped; otherwise the
\* notification is recorded, unless the inbox has it already or cannot be written.
Record(n) ==
    /\ loop.phase = "batch"
    /\ n \in loop.batch
    /\ \/ /\ loop.generation # generation
          /\ loop' = Resting
          /\ UNCHANGED <<inbox, evicted>>
       \/ /\ loop.generation = generation
          /\ Inserted(n)
          /\ loop' = [loop EXCEPT !.phase = "recorded", !.item = n]
          /\ Insert(n)
       \/ /\ loop.generation = generation
          /\ loop' = Reporting(n, "failed")
          /\ UNCHANGED <<inbox, evicted>>
    /\ UNCHANGED <<server, generation, late, shown, shownByTest, locals, lost>>

Displayed(n) ==
    shown' = [shown EXCEPT ![n] = IF @ < 2 THEN @ + 1 ELSE @]

\* Mutated ShowOutcomes: being recorded counts as being shown.
ShowOutcomesByRecord ==
    {<<TRUE, FALSE, "displayed">>, <<FALSE, FALSE, "displayed">>, <<FALSE, TRUE, "failed">>}

\* What becomes of showing an item: displayed now, displayed later, the outcome reported.
\* Only the main thread of macOS can be late.
ShowOutcomes ==
    {<<TRUE, FALSE, "displayed">>, <<FALSE, FALSE, "failed">>, <<FALSE, TRUE, "failed">>}

Show ==
    /\ loop.phase = "recorded"
    /\ \E outcome \in ShowOutcomes :
          /\ outcome[2] => MacOS
          /\ IF outcome[1] THEN Displayed(loop.item) ELSE UNCHANGED shown
          /\ late' = IF outcome[2] THEN late \cup {loop.item} ELSE late
          /\ loop' = Reporting(loop.item, outcome[3])
    /\ UNCHANGED <<server, generation, inbox, shownByTest, evicted, locals, lost>>

\* The main thread comes round to a show whose waiter has given up.
ShowLate(n) ==
    /\ n \in late
    /\ late' = late \ {n}
    /\ Displayed(n)
    /\ UNCHANGED <<server, generation, loop, inbox, shownByTest, evicted, locals, lost>>

\* On to the next notification of the batch, or to the next poll.
NextItem ==
    IF loop.batch = {loop.item} THEN Resting
    ELSE [loop EXCEPT !.phase = "batch", !.batch = @ \ {loop.item},
                      !.item = NoNotification, !.outcome = "failed"]

\* The acknowledgement is sent for the identity of the batch only.
SendAck ==
    /\ loop.phase = "report"
    /\ IF loop.generation = generation
       THEN /\ acks' = acks \cup {[item |-> loop.item, outcome |-> loop.outcome]}
            /\ loop' = [loop EXCEPT !.phase = "acking"]
       ELSE loop' = NextItem /\ UNCHANGED acks
    /\ UNCHANGED <<notif, delivery, test, account, generation, inbox, late, history,
                   locals, lost>>

\* Accepted or refused, the loop goes on.
HearAck ==
    /\ loop.phase = "acking"
    /\ [item |-> loop.item, outcome |-> loop.outcome] \notin acks
    /\ loop' = NextItem
    /\ UNCHANGED <<server, generation, inbox, late, history, locals, lost>>

\* The request fails; the server may get to it all the same, now or later.
LoseAck ==
    /\ loop.phase = "acking"
    /\ Lose
    /\ acks' \in {acks, acks \ {[item |-> loop.item, outcome |-> loop.outcome]}}
    /\ loop' = NextItem
    /\ UNCHANGED <<notif, delivery, test, account, generation, inbox, late, history, locals>>

-----------------------------------------------------------------------------
(* The test notification *)

\* The user asks for a test: it is shown here and now, and the server is asked for one,
\* which the PC need not show if it was displayed.  On macOS a display that was not
\* confirmed in time may have happened.
ShowTest(n) ==
    /\ test.stage = "idle"
    /\ n \in Test
    /\ notif[n] = "absent"
    /\ \E displayed, confirmed \in BOOLEAN :
          /\ confirmed => displayed
          /\ displayed => confirmed \/ MacOS
          /\ shownByTest' = [shownByTest EXCEPT ![n] = displayed]
          /\ test' = [stage |-> "asked", item |-> n, displayed |-> confirmed]
    /\ UNCHANGED <<notif, delivery, acks, account, pc, shown, evicted, locals, lost>>

\* The request was refused (rate limit, no account) or never arrived.
RefuseTest ==
    /\ test.stage = "asked"
    /\ notif' = [notif EXCEPT ![test.item] = "void"]
    /\ test' = NoTest
    /\ UNCHANGED <<delivery, acks, account, pc, history, locals, lost>>

\* sendTest, first statement.
CreateTest ==
    /\ test.stage = "asked"
    /\ account = "active"
    /\ notif' = [notif EXCEPT ![test.item] = "live"]
    /\ delivery' = [delivery EXCEPT ![test.item] = "pending"]
    /\ test' = IF test.displayed THEN [test EXCEPT !.stage = "created"] ELSE NoTest
    /\ UNCHANGED <<acks, account, pc, history, locals, lost>>

\* sendTest, second statement: acknowledges on behalf of the PC.
AckTest ==
    /\ test.stage = "created"
    /\ delivery' = [delivery EXCEPT ![test.item] = Acknowledged(test.item, "displayed")]
    /\ test' = NoTest
    /\ UNCHANGED <<notif, acks, account, pc, history, locals, lost>>

\* The server stops between the two.
LoseTest ==
    /\ test.stage = "created"
    /\ Lose
    /\ test' = NoTest
    /\ UNCHANGED <<notif, delivery, acks, account, pc, history, locals>>

-----------------------------------------------------------------------------

\* Mutated Locked: an identity change does not wait for the display.
LockedNever == FALSE

\* The loop is inside with_current_identity.
Locked == loop.phase = "recorded"

\* reset_identity deletes the user with everything it has, a test request on its way will
\* be refused, the inbox stays.  The new identity is enrolled at once or later, or never if
\* the old credential could not be cleared.  If the answer to the deletion is lost, the PC
\* keeps the old identity.
ResetIdentity ==
    /\ ~Locked
    /\ generation < MaxResets
    /\ notif' = [n \in Notification |->
                   IF notif[n] = "absent" /\ n # test.item THEN "absent" ELSE "void"]
    /\ delivery' = [n \in Notification |-> "none"]
    /\ test' = NoTest
    /\ \/ /\ account' \in {"active", "unregistered", "unusable"}
          /\ generation' = generation + 1
          /\ UNCHANGED lost
       \/ account' = "unusable" /\ UNCHANGED generation /\ Lose
    /\ UNCHANGED <<acks, loop, inbox, late, history, locals>>

\* ensure_registered.  The server refuses an installation it has, so an enrolment whose
\* answer is lost needs a reset.
Register ==
    /\ account = "unregistered"
    /\ \/ account' = "active" /\ UNCHANGED lost
       \/ account' = "unusable" /\ Lose
    /\ UNCHANGED <<notif, delivery, acks, test, pc, history, locals>>

\* The app is closed or crashes, and starts again with the inbox of the file.
Restart ==
    /\ Lose
    /\ loop' = Resting
    /\ late' = {}
    /\ UNCHANGED <<server, generation, inbox, history, locals>>

LoopStep == HearPoll \/ (\E n \in Notification : Record(n)) \/ Show \/ SendAck \/ HearAck

Next ==
    \/ \E n \in Notification :
          \/ CreateNotification(n) \/ ExpireNotification(n) \/ DeleteExpired(n)
          \/ ShowLate(n) \/ ShowTest(n)
    \/ \E a \in acks : ServerAck(a)
    \/ RecordLocalItem
    \/ Poll \/ LosePoll \/ LoopStep \/ LoseAck
    \/ RefuseTest \/ CreateTest \/ AckTest \/ LoseTest
    \/ ResetIdentity \/ Register \/ Restart

Spec == Init /\ [][Next]_vars

\* The loop polls every interval and works its batch off; requests reach the server or fail.
Fairness ==
    /\ WF_vars(Poll)
    /\ WF_vars(LoopStep)
    /\ WF_vars(\E a \in acks : ServerAck(a))

FairSpec == Spec /\ Fairness

-----------------------------------------------------------------------------
(* Properties *)

TypeOK ==
    /\ notif \in [Notification -> {"absent", "live", "expired", "void"}]
    /\ delivery \in [Notification -> {"none", "pending", "delivered", "failed"}]
    /\ acks \subseteq Ack
    /\ test \in TestRequest
    /\ generation \in 0 .. MaxResets
    /\ account \in {"active", "unregistered", "unusable"}
    /\ loop \in Loop
    /\ inbox \in Seq(Notification \cup {LocalItem}) /\ Len(inbox) <= MaxItems
    /\ late \subseteq Notification
    /\ shown \in [Notification -> 0 .. 2]
    /\ shownByTest \in [Notification -> BOOLEAN]
    /\ evicted \subseteq Notification
    /\ locals \in 0 .. MaxLocal
    /\ lost \in 0 .. MaxLost

\* The loop has a notification displayed a second time only if the inbox has forgotten it
\* meanwhile: lost acknowledgements, repeated polls and restarts repeat nothing.
DisplayedOnce == \A n \in Notification : shown[n] > 1 => n \in evicted

\* 'delivered' is only recorded for what was really displayed, by the loop or, for a test,
\* by the command that asked for it.
DeliveredWasShown ==
    \A n \in Notification : delivery[n] = "delivered" => shown[n] > 0 \/ shownByTest[n]

\* While an identity is in use, the loop displays nothing that was polled for a previous
\* one; only a show that had outlived its waiter before the reset may still come.
OldIdentityNotShown ==
    [][\A n \in Notification :
          shown'[n] > shown[n] => n \in late \/ loop.generation = generation]_vars

\* The rest of the inductive invariant.  A row lives with its notification, and nothing on
\* the PC speaks of one that does not exist yet:
RowInv ==
    \A n \in Notification :
        /\ notif[n] = "absent" =>
              delivery[n] = "none" /\ n \notin loop.batch /\ loop.item # n /\ n \notin late
        /\ notif[n] \in {"live", "expired"} => delivery[n] # "none"

\* Until the inbox forgets a notification, it has what was displayed or is about to be, and
\* there is one display at most: done, in hand, or outliving its waiter.
InboxInv ==
    \A n \in Notification \ evicted :
        LET inHand == loop.phase = "recorded" /\ loop.item = n IN
        /\ shown[n] > 0 \/ inHand \/ n \in late => n \in Items(inbox)
        /\ shown[n] > 0 => shown[n] = 1 /\ ~inHand /\ n \notin late
        /\ inHand => n \notin late

\* What the loop has in hand, and what it and the acknowledgements claim:
LoopInv ==
    /\ loop.phase \in {"recorded", "report", "acking"} => loop.item \in Notification
    /\ loop.phase = "recorded" => loop.generation = generation
    /\ loop.phase \in {"report", "acking"} /\ loop.outcome = "displayed"
          => shown[loop.item] > 0
    /\ \A a \in acks : a.outcome = "displayed" => shown[a.item] > 0

TestInv ==
    /\ test.stage # "idle" => test.item \in Test
    /\ test.stage # "idle" /\ test.displayed => shownByTest[test.item]
    /\ test.stage = "created" => test.displayed

IInv ==
    /\ TypeOK
    /\ RowInv
    /\ InboxInv
    /\ LoopInv
    /\ TestInv
    /\ DeliveredWasShown

\* Every notification that waits for the PC is acknowledged, unless it expires first.
PendingIsSettled ==
    \A n \in Notification :
        delivery[n] = "pending" ~> delivery[n] # "pending" \/ notif[n] # "live"

\* The PC acknowledges whether a notification was displayed: what it showed is not
\* recorded as failed.
FailedWasNotShown ==
    \A n \in Notification : delivery[n] = "failed" => shown[n] = 0

\* A test that the PC has displayed, and says so in its request, is not displayed again by
\* the loop while the server works on that request.
TestShownOnce ==
    test.stage # "idle" /\ test.displayed => shown[test.item] = 0

\* See DeliveryContract; tests, which the PC shows before they exist, are left out.
OutcomeOf(n) ==
    IF notif[n] = "void" THEN "dropped"
    ELSE IF delivery[n] = "pending" THEN "open"
    ELSE delivery[n]

Planned == Notification \ Test

Contract == INSTANCE DeliveryContract WITH
    Delivery <- Planned,
    outcome <- [n \in Planned |-> OutcomeOf(n)],
    reached <- [n \in Planned |-> shown[n] > 0]

\* The PC's half of the delivery table keeps the same contract as the push queue.
ImplementsContract == Contract!ContractSpec
=============================================================================
