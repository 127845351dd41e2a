----------------------- MODULE AttendanceChecker_proofs ------------------------
(***************************************************************************)
(* Proofs about the hidden window that watches the attendance, for every   *)
(* number of pages, choices and messages on their way.                     *)
(***************************************************************************)
EXTENDS AttendanceChecker, SequenceTheorems, TLAPS

Windows == [shown : BOOLEAN, moving : {"no", "leaving", "loading"}, place : Places]
Views == [login : BOOLEAN, page : Nat, cohort : Cohorts \cup {NoCohort},
          dday : Cohorts \cup {NoCohort}]

-----------------------------------------------------------------------------
(* The values that the state is made of.                                   *)

\* The first message of a queue is gone, the others keep their order.
LEMMA Received ==
    ASSUME NEW S, NEW queue \in Seq(S), queue # <<>>
    PROVE  /\ Len(queue) \in Nat \ {0} /\ DOMAIN queue = 1 .. Len(queue)
           /\ Head(queue) = queue[1] /\ queue[1] \in S
           /\ Tail(queue) \in Seq(S) /\ DOMAIN Tail(queue) = 1 .. (Len(queue) - 1)
           /\ \A i \in 1 .. (Len(queue) - 1) : Tail(queue)[i] = queue[i + 1]
  BY LenProperties, HeadTailProperties, EmptySeq

\* A message more stands behind the others.
LEMMA Sent ==
    ASSUME NEW S, NEW queue \in Seq(S), NEW message \in S
    PROVE  /\ Len(queue) \in Nat /\ DOMAIN queue = 1 .. Len(queue)
           /\ Append(queue, message) \in Seq(S) /\ Append(queue, message) # <<>>
           /\ DOMAIN Append(queue, message) = 1 .. (Len(queue) + 1)
           /\ \A i \in 1 .. Len(queue) : Append(queue, message)[i] = queue[i]
           /\ Append(queue, message)[Len(queue) + 1] = message
  BY LenProperties, AppendProperties

LEMMA Types ==
    ASSUME CheckerInv
    PROVE  /\ RefreshLimit \in Nat /\ NoCohort \notin Nat
           /\ runtime \in Runtimes /\ page \in Scripts /\ window \in Windows
           /\ triggers \in Seq(Nat) /\ reports \in Seq(Reports) /\ view \in Views
           /\ DOMAIN triggers = 1 .. Len(triggers) /\ DOMAIN reports = 1 .. Len(reports)
           /\ Len(triggers) \in Nat /\ Len(reports) \in Nat
           /\ \A i \in 1 .. Len(triggers) : triggers[i] \in Nat
           /\ \A i \in 1 .. Len(reports) : reports[i] \in Reports
           /\ runtime.loaded \in Nat /\ page.generation \in Nat /\ page.check \in Nat
           /\ page.number \in Nat /\ page.queued \in Nat
<1>1. RefreshLimit \in Nat /\ NoCohort \notin Nat
  BY CheckerAssumption
<1>2. /\ runtime \in Runtimes /\ page \in Scripts /\ window \in Windows
      /\ triggers \in Seq(Nat) /\ reports \in Seq(Reports) /\ view \in Views
  BY DEF CheckerInv, CheckerTypeOK, Windows, Views
<1>3. runtime.loaded \in Nat
  BY <1>2 DEF Runtimes
<1>4. /\ page.generation \in Nat /\ page.check \in Nat /\ page.number \in Nat
      /\ page.queued \in Nat
  BY <1>2 DEF Scripts
<1>5. /\ DOMAIN triggers = 1 .. Len(triggers) /\ Len(triggers) \in Nat
      /\ DOMAIN reports = 1 .. Len(reports) /\ Len(reports) \in Nat
  BY <1>2, LenProperties
<1>6. /\ \A i \in 1 .. Len(triggers) : triggers[i] \in Nat
      /\ \A i \in 1 .. Len(reports) : reports[i] \in Reports
  BY <1>2, ElementOfSeq
<1>7. QED
  BY <1>1, <1>2, <1>3, <1>4, <1>5, <1>6

\* A script that starts a check keeps what it knows of its page.
LEMMA Started ==
    ASSUME NEW script \in Scripts, NEW generation \in Nat
    PROVE  LET started == CheckStarted(script, generation)
           IN /\ started \in Scripts
              /\ started.number = script.number /\ started.listening = script.listening
              /\ started.generation = script.generation /\ started.check = generation
              /\ started.queued = 0 /\ started.step \in {"cohorts", "resolve", "done"}
<1> DEFINE step == IF window.place = "login" THEN "done"
                   ELSE IF script.cached THEN "resolve" ELSE "cohorts"
<1>1. PICK s1 : s1 = [script EXCEPT !.check = generation]
  OBVIOUS
<1>2. s1 \in Scripts
  BY <1>1 DEF Scripts
<1>3. PICK s2 : s2 = [s1 EXCEPT !.queued = 0]
  OBVIOUS
<1>4. s2 \in Scripts
  BY <1>2, <1>3 DEF Scripts
<1>5. PICK s3 : s3 = [s2 EXCEPT !.fresh = FALSE]
  OBVIOUS
<1>6. s3 \in Scripts
  BY <1>4, <1>5 DEF Scripts
<1>7. PICK s4 : s4 = [s3 EXCEPT !.cohort = NoCohort]
  OBVIOUS
<1>8. s4 \in Scripts
  BY <1>6, <1>7 DEF Scripts
<1>9. PICK s5 : s5 = [s4 EXCEPT !.step = step]
  OBVIOUS
<1>10. s5 \in Scripts
  BY <1>8, <1>9 DEF Scripts
<1>11. s5 = CheckStarted(script, generation)
  BY <1>1, <1>3, <1>5, <1>7, <1>9 DEF CheckStarted, Scripts
<1>12. /\ s5.number = script.number /\ s5.listening = script.listening
       /\ s5.generation = script.generation /\ s5.check = generation
       /\ s5.queued = 0 /\ s5.step \in {"cohorts", "resolve", "done"}
  BY <1>1, <1>2, <1>3, <1>4, <1>5, <1>6, <1>7, <1>8, <1>9, <1>10 DEF Scripts
<1>13. QED
  BY <1>10, <1>11, <1>12

\* A script whose check has ended.
LEMMA Ended ==
    ASSUME NEW script \in Scripts
    PROVE  LET ended == [script EXCEPT !.step = "idle", !.check = 0, !.queued = 0]
           IN /\ ended \in Scripts
              /\ ended.number = script.number /\ ended.listening = script.listening
              /\ ended.generation = script.generation
              /\ ended.step = "idle" /\ ended.check = 0 /\ ended.queued = 0
<1>1. PICK s1 : s1 = [script EXCEPT !.step = "idle"]
  OBVIOUS
<1>2. s1 \in Scripts
  BY <1>1 DEF Scripts
<1>3. PICK s2 : s2 = [s1 EXCEPT !.check = 0]
  OBVIOUS
<1>4. s2 \in Scripts
  BY <1>2, <1>3 DEF Scripts
<1>5. PICK s3 : s3 = [s2 EXCEPT !.queued = 0]
  OBVIOUS
<1>6. s3 \in Scripts
  BY <1>4, <1>5 DEF Scripts
<1>7. s3 = [script EXCEPT !.step = "idle", !.check = 0, !.queued = 0]
  BY <1>1, <1>3, <1>5 DEF Scripts
<1>8. /\ s3.number = script.number /\ s3.listening = script.listening
      /\ s3.generation = script.generation
      /\ s3.step = "idle" /\ s3.check = 0 /\ s3.queued = 0
  BY <1>1, <1>2, <1>3, <1>4, <1>5, <1>6 DEF Scripts
<1>9. QED
  BY <1>6, <1>7, <1>8

\* What an assignment to some fields of the runtime leaves alone.
Statuses == {"loading", "page-loaded", "ready", "refreshing", "offline", "healthy"}
ReadyWith(r, generation, status) == [r EXCEPT !.ready = generation, !.status = status]
Refreshing(r, refreshes, status) == [r EXCEPT !.refreshes = refreshes, !.status = status]
ReportedWith(r, generation, status) ==
    [r EXCEPT !.reported = generation, !.refreshes = 0, !.status = status]
LoadedWith(r, generation, status, place) ==
    [r EXCEPT !.loaded = generation, !.status = status, !.place = place]

LEMMA ReadyUpdate ==
    ASSUME NEW r \in Runtimes, NEW generation \in Nat, NEW status \in Statuses
    PROVE  LET s == ReadyWith(r, generation, status)
           IN /\ s \in Runtimes /\ s.ready = generation /\ s.status = status
              /\ s.loaded = r.loaded /\ s.place = r.place
              /\ s.reported = r.reported /\ s.refreshes = r.refreshes
<1>1. PICK s : s = [r EXCEPT !.status = status]
  OBVIOUS
<1>2. /\ s \in Runtimes /\ s.status = status /\ s.loaded = r.loaded
      /\ s.place = r.place /\ s.ready = r.ready /\ s.reported = r.reported
      /\ s.refreshes = r.refreshes
  BY <1>1 DEF Runtimes, Statuses
<1>3. [s EXCEPT !.ready = generation] \in Runtimes
  BY <1>2 DEF Runtimes
<1>4. ReadyWith(r, generation, status) = [s EXCEPT !.ready = generation]
  BY <1>1 DEF Runtimes, ReadyWith
<1>5. QED
  BY <1>2, <1>3, <1>4 DEF Runtimes

LEMMA RefreshesUpdate ==
    ASSUME NEW r \in Runtimes, NEW refreshes \in 0..RefreshLimit, NEW status \in Statuses
    PROVE  LET s == Refreshing(r, refreshes, status)
           IN /\ s \in Runtimes /\ s.refreshes = refreshes /\ s.status = status
              /\ s.loaded = r.loaded /\ s.place = r.place
              /\ s.reported = r.reported /\ s.ready = r.ready
<1>1. PICK s : s = [r EXCEPT !.status = status]
  OBVIOUS
<1>2. /\ s \in Runtimes /\ s.status = status /\ s.loaded = r.loaded
      /\ s.place = r.place /\ s.ready = r.ready /\ s.reported = r.reported
  BY <1>1 DEF Runtimes, Statuses
<1>3. [s EXCEPT !.refreshes = refreshes] \in Runtimes
  BY <1>2 DEF Runtimes
<1>4. Refreshing(r, refreshes, status) = [s EXCEPT !.refreshes = refreshes]
  BY <1>1 DEF Runtimes, Refreshing
<1>5. QED
  BY <1>2, <1>3, <1>4 DEF Runtimes

LEMMA ReportedUpdate ==
    ASSUME NEW r \in Runtimes, NEW generation \in Nat, NEW status \in Statuses, RefreshLimit \in Nat
    PROVE  LET s == ReportedWith(r, generation, status)
           IN /\ s \in Runtimes /\ s.reported = generation /\ s.refreshes = 0
              /\ s.status = status /\ s.loaded = r.loaded /\ s.place = r.place
              /\ s.ready = r.ready
<1>1. PICK s : s = Refreshing(r, 0, status)
  OBVIOUS
<1>2. /\ s \in Runtimes /\ s.refreshes = 0 /\ s.status = status
      /\ s.loaded = r.loaded /\ s.place = r.place
      /\ s.reported = r.reported /\ s.ready = r.ready
  BY <1>1, RefreshesUpdate
<1>3. [s EXCEPT !.reported = generation] \in Runtimes
  BY <1>2 DEF Runtimes
<1>4. ReportedWith(r, generation, status) = [s EXCEPT !.reported = generation]
  BY <1>1 DEF Runtimes, ReportedWith, Refreshing
<1>5. QED
  BY <1>2, <1>3, <1>4 DEF Runtimes

LEMMA LoadedUpdate ==
    ASSUME NEW r \in Runtimes, NEW generation \in Nat, NEW status \in Statuses, NEW place \in Places
    PROVE  LET s == LoadedWith(r, generation, status, place)
           IN /\ s \in Runtimes /\ s.loaded = generation /\ s.status = status /\ s.place = place
              /\ s.ready = r.ready /\ s.reported = r.reported /\ s.refreshes = r.refreshes
<1>1. PICK s : s = [r EXCEPT !.status = status]
  OBVIOUS
<1>2. /\ s \in Runtimes /\ s.status = status /\ s.refreshes = r.refreshes
      /\ s.place = r.place /\ s.ready = r.ready /\ s.reported = r.reported
  BY <1>1 DEF Runtimes, Statuses
<1>3. PICK v : v = [s EXCEPT !.loaded = generation]
  OBVIOUS
<1>4. /\ v \in Runtimes /\ v.loaded = generation /\ v.status = status
      /\ v.ready = r.ready /\ v.reported = r.reported /\ v.refreshes = r.refreshes
  BY <1>2, <1>3 DEF Runtimes
<1>5. [v EXCEPT !.place = place] \in Runtimes
  BY <1>4 DEF Runtimes
<1>6. LoadedWith(r, generation, status, place) = [v EXCEPT !.place = place]
  BY <1>1, <1>3 DEF Runtimes, LoadedWith
<1>7. QED
  BY <1>4, <1>5, <1>6 DEF Runtimes

-----------------------------------------------------------------------------
(* Steps of the script.                                                    *)

\* What the end of a check leaves: an idle script, or the check that was asked for meanwhile.
LEMMA FinishedPage ==
    ASSUME CheckerInv, page.step # "idle",
           NEW script \in Scripts, NEW result \in Results, Finish(script, result),
           script.number = page.number, script.listening = page.listening,
           script.generation = page.generation, script.check = page.check,
           script.queued = page.queued
    PROVE  /\ page' \in Scripts
           /\ page'.number = page.number /\ page'.listening = page.listening
           /\ page'.generation = page.generation /\ page'.queued = 0
           /\ page.queued # 0 => /\ page'.check = page.generation
                                 /\ page'.step \in {"cohorts", "resolve", "done"}
           /\ page.queued = 0 => page'.check = 0 /\ page'.step = "idle"
<1> DEFINE ended == [script EXCEPT !.step = "idle", !.check = 0, !.queued = 0]
<1>1. /\ ended \in Scripts
      /\ ended.number = script.number /\ ended.listening = script.listening
      /\ ended.generation = script.generation
      /\ ended.step = "idle" /\ ended.check = 0 /\ ended.queued = 0
  BY Ended
<1>2. page' = IF script.queued # 0 /\ script.queued = script.generation
              THEN RunCheck(ended) ELSE ended
  BY DEF Finish
<1> HIDE DEF ended
<1>3. page.queued # 0 => page.queued = page.generation
  BY DEF CheckerInv, CheckerTypeOK
<1>4. CASE page.queued = 0
  BY <1>1, <1>2, <1>4
<1>5. CASE page.queued # 0
  <2>1. page' = CheckStarted(ended, ended.generation)
    BY <1>1, <1>2, <1>3, <1>5 DEF RunCheck
  <2>2. ended.generation \in Nat
    BY <1>1 DEF Scripts
  <2>3. QED
    BY <1>1, <1>5, <2>1, <2>2, Started
<1>6. QED
  BY <1>4, <1>5

\* An answer of the LMS that ends the check.
LEMMA FinishKeeps ==
    ASSUME CheckerInv, page.step # "idle",
           NEW script \in Scripts, NEW result \in Results, Finish(script, result),
           script.number = page.number, script.listening = page.listening,
           script.generation = page.generation, script.check = page.check,
           script.queued = page.queued,
           result.cohort # NoCohort => page.step = "attendance" /\ result.cohort = page.cohort,
           UNCHANGED <<runtime, window, triggers, watched, signedIn, selected, view, selections>>
    PROVE  CheckerInv'
<1> DEFINE report == [generation |-> page.check, page |-> page.number, result |-> result]
<1>1. reports' = Append(reports, report) /\ report \in Reports
  BY Types DEF Finish, Reports
<1>2. /\ reports' \in Seq(Reports)
      /\ DOMAIN reports = 1 .. Len(reports) /\ Len(reports) \in Nat
      /\ DOMAIN reports' = 1 .. (Len(reports) + 1)
      /\ \A i \in 1 .. Len(reports) : reports'[i] = reports[i]
      /\ reports'[Len(reports) + 1] = report
  BY <1>1, Sent, Types
<1>3. /\ report.generation = page.check /\ report.page = page.number /\ report.result = result
  OBVIOUS
<1> HIDE DEF report
<1>4. /\ page' \in Scripts
      /\ page'.number = page.number /\ page'.listening = page.listening
      /\ page'.generation = page.generation /\ page'.queued = 0
      /\ page.queued # 0 => /\ page'.check = page.generation
                            /\ page'.step \in {"cohorts", "resolve", "done"}
      /\ page.queued = 0 => page'.check = 0 /\ page'.step = "idle"
  BY FinishedPage
<1>5. CheckerTypeOK'
  BY <1>2, <1>4, Types DEF CheckerInv, CheckerTypeOK
<1>6. PageInv'
  BY <1>4, Types DEF CheckerInv, CheckerTypeOK, PageInv
<1>7. OrderInv'
  <2>1. ASSUME NEW i \in DOMAIN triggers'
        PROVE  /\ page'.generation <= triggers'[i] /\ triggers'[i] <= runtime'.loaded
               /\ \A j \in 1..i : triggers'[j] <= triggers'[i]
    BY <1>4 DEF CheckerInv, OrderInv
  <2>2. ASSUME NEW i \in DOMAIN reports'
        PROVE  /\ 0 < reports'[i].generation /\ reports'[i].generation <= reports'[i].page
               /\ reports'[i].generation <= runtime'.loaded /\ reports'[i].page <= page'.number
               /\ reports'[i].page = page'.number => reports'[i].generation <= page'.generation
               /\ reports'[i].generation = runtime'.loaded /\ window'.moving = "no"
                     => reports'[i].page = page'.number
               /\ page'.step # "idle" => reports'[i].generation <= page'.check
               /\ \A j \in DOMAIN triggers' : reports'[i].generation <= triggers'[j]
               /\ \A j \in 1..i : reports'[j].generation <= reports'[i].generation
    <3>1. CASE i \in 1 .. Len(reports)
      <4>1. reports'[i] = reports[i] /\ \A j \in 1..i : reports'[j] = reports[j]
        BY <1>2, <3>1
      <4>2. reports[i].generation <= page.check /\ page.check <= page.generation
        BY <3>1, Types DEF CheckerInv, OrderInv, CheckerTypeOK
      <4>3. reports[i].generation \in Nat
        BY <3>1, Types DEF Reports
      <4>4. page'.step # "idle" => reports[i].generation <= page'.check
        BY <1>4, <4>2, <4>3, Types
      <4>5. QED
        BY <1>4, <3>1, <4>1, <4>4, Types DEF CheckerInv, OrderInv
    <3>2. CASE i = Len(reports) + 1
      <4>1. reports'[i].generation = page.check /\ reports'[i].page = page.number
        BY <1>2, <1>3, <3>2
      <4>2. 0 < page.check /\ page.check <= page.generation
            /\ page.generation <= runtime.loaded /\ runtime.loaded <= page.number
        BY DEF CheckerInv, CheckerTypeOK, PageInv
      <4>3. \A j \in 1..i : reports'[j].generation <= page.check
        <5>1. \A j \in 1 .. Len(reports) : reports[j].generation <= page.check
          BY Types DEF CheckerInv, OrderInv
        <5>2. page.check <= page.check
          BY Types
        <5>3. \A j \in 1..i : j \in 1 .. Len(reports) \/ j = i
          BY <1>2, <3>2
        <5>4. QED
          BY <1>2, <4>1, <5>1, <5>2, <5>3
      <4>4. \A j \in DOMAIN triggers : page.check <= triggers[j]
        BY <4>2, Types DEF CheckerInv, OrderInv
      <4>5. page'.step # "idle" => page.check <= page'.check
        BY <1>4, <4>2
      <4>6. page.check <= page.number /\ page.check <= runtime.loaded
        BY <4>2, Types
      <4>7. QED
        BY <1>4, <4>1, <4>2, <4>3, <4>4, <4>5, <4>6, Types
    <3>3. QED
      BY <1>2, <3>1, <3>2
  <2>3. QED
    BY <2>1, <2>2 DEF OrderInv
<1>8. HealthyInv'
  <2>1. SUFFICES ASSUME runtime.status = "healthy", window.moving = "no"
        PROVE  /\ page'.step # "idle" => page'.check = runtime.loaded
               /\ \A i \in DOMAIN reports' : reports'[i].generation = runtime.loaded
    BY <1>4 DEF CheckerInv, HealthyInv
  <2>2. /\ page.generation = runtime.loaded /\ page.check = runtime.loaded
        /\ \A i \in DOMAIN reports : reports[i].generation = runtime.loaded
    BY <2>1 DEF CheckerInv, HealthyInv
  <2>3. page'.step # "idle" => page'.check = runtime.loaded
    BY <1>4, <2>2
  <2>4. \A i \in DOMAIN reports' : reports'[i].generation = runtime.loaded
    BY <1>2, <1>3, <2>2
  <2>5. QED
    BY <2>3, <2>4
<1>9. Again => Again' \/ page'.step \in {"cohorts", "resolve", "done"}
  BY <1>4 DEF Again
<1>10. WillResolve(selected) => result.cohort \in {selected, NoCohort}
  BY DEF WillResolve, Results
<1>11. FollowedInv'
  <2>1. ~(page'.step = "attendance")
    BY <1>4
  <2>2. ASSUME NEW i \in DOMAIN reports', reports'[i].result.cohort \in Cohorts \ {selected},
               reports'[i].generation = runtime.loaded, OnLms(runtime.place)
        PROVE  \/ Again' \/ page'.step \in {"cohorts", "resolve", "done"}
               \/ \E j \in DOMAIN reports' :
                     j > i /\ reports'[j].result.cohort \in {selected, NoCohort}
    <3>1. CASE i = Len(reports) + 1
      <4>1. page.step = "attendance" /\ page.cohort # selected
        BY <1>2, <1>3, <2>2, <3>1, Types, CheckerAssumption DEF Cohorts
      <4>2. QED
        BY <1>9, <4>1 DEF CheckerInv, FollowedInv
    <3>2. CASE i \in 1 .. Len(reports)
      <4>1. \/ Again \/ WillResolve(selected)
            \/ \E j \in DOMAIN reports : j > i /\ reports[j].result.cohort \in {selected, NoCohort}
        BY <1>2, <2>2, <3>2 DEF CheckerInv, FollowedInv
      <4>2. CASE WillResolve(selected)
        BY <1>2, <1>3, <1>10, <3>2, <4>2
      <4>3. QED
        BY <1>2, <1>9, <4>1, <4>2
    <3>3. QED
      BY <1>2, <3>1, <3>2
  <2>3. QED
    BY <2>1, <2>2 DEF FollowedInv, WillResolve
<1>12. SelectionIsFollowed'
  <2>1. SUFFICES ASSUME OnItsWay(selected) PROVE OnItsWay(selected)'
    BY DEF CheckerInv, CheckerGoesOn, SelectionIsFollowed
  <2>2. CASE WillResolve(selected)
    BY <1>2, <1>3, <1>10, <2>2 DEF OnItsWay
  <2>3. CASE \E i \in DOMAIN reports : reports[i].result.cohort \in {selected, NoCohort}
    BY <1>2, <2>3 DEF OnItsWay
  <2>4. CASE page.queued # 0 \/ triggers # <<>> \/ window.moving # "no"
    BY <1>4, <2>4 DEF OnItsWay, WillResolve
  <2>5. QED
    BY <2>1, <2>2, <2>3, <2>4 DEF OnItsWay
<1>13. SilenceIsNoticed'
  BY DEF CheckerInv, CheckerGoesOn, SilenceIsNoticed
<1>14. QED
  BY <1>5, <1>6, <1>7, <1>8, <1>11, <1>12, <1>13 DEF CheckerInv, CheckerGoesOn

\* An answer after which the check goes on.
LEMMA AdvanceKeeps ==
    ASSUME CheckerInv, page.step # "idle", page' \in Scripts,
           page'.number = page.number, page'.listening = page.listening,
           page'.generation = page.generation, page'.check = page.check,
           page'.queued = page.queued,
           \/ page'.step = "resolve"
           \/ page'.step = "attendance" /\ page'.cohort = selected,
           UNCHANGED <<runtime, window, triggers, reports, watched, signedIn, selected, view,
                       selections>>
    PROVE  CheckerInv'
<1>1. CheckerTypeOK' /\ PageInv'
  BY DEF CheckerInv, CheckerTypeOK, PageInv
<1>2. OrderInv'
  BY DEF CheckerInv, OrderInv
<1>3. HealthyInv'
  BY DEF CheckerInv, HealthyInv
<1>4. WillResolve(selected)'
  BY DEF WillResolve
<1>5. FollowedInv' /\ SelectionIsFollowed'
  BY <1>4 DEF FollowedInv, SelectionIsFollowed, OnItsWay, WillResolve
<1>6. SilenceIsNoticed'
  BY DEF CheckerInv, CheckerGoesOn, SilenceIsNoticed
<1>7. QED
  BY <1>1, <1>2, <1>3, <1>5, <1>6 DEF CheckerInv, CheckerGoesOn

\* The listener is registered, or the cached cohorts are dropped.
LEMMA QuietKeeps ==
    ASSUME CheckerInv, Listen \/ CacheExpires
    PROVE  CheckerInv'
<1>1. /\ page' \in Scripts /\ page'.number = page.number
      /\ page.listening => page'.listening
      /\ page'.generation = page.generation /\ page'.check = page.check
      /\ page'.queued = page.queued /\ page'.step = page.step /\ page'.cohort = page.cohort
  BY Types DEF Listen, CacheExpires, Scripts
<1>2. UNCHANGED <<runtime, window, triggers, reports, watched, signedIn, selected, view, selections>>
  BY DEF Listen, CacheExpires
<1>3. CheckerTypeOK' /\ PageInv'
  BY <1>1, <1>2 DEF CheckerInv, CheckerTypeOK, PageInv
<1>4. OrderInv'
  BY <1>1, <1>2 DEF CheckerInv, OrderInv
<1>5. HealthyInv' /\ SilenceIsNoticed'
  BY <1>1, <1>2 DEF CheckerInv, CheckerGoesOn, HealthyInv, SilenceIsNoticed
<1>6. FollowedInv'
  BY <1>1, <1>2 DEF CheckerInv, FollowedInv, Again, WillResolve
<1>7. SelectionIsFollowed'
  BY <1>1, <1>2 DEF CheckerInv, CheckerGoesOn, SelectionIsFollowed, OnItsWay, WillResolve
<1>8. QED
  BY <1>3, <1>4, <1>5, <1>6, <1>7 DEF CheckerInv, CheckerGoesOn

LEMMA AtLoginKeeps ==
    ASSUME CheckerInv, AtLogin
    PROVE  CheckerInv'
<1>1. LoginNeeded \in Results /\ LoginNeeded.cohort = NoCohort
  BY DEF LoginNeeded, Result, Results
<1>2. QED
  BY <1>1, Types, FinishKeeps DEF AtLogin

LEMMA FetchCohortsKeeps ==
    ASSUME CheckerInv, NEW answered \in BOOLEAN, FetchCohorts(answered)
    PROVE  CheckerInv'
<1>1. /\ LoginNeeded \in Results /\ LoginNeeded.cohort = NoCohort
      /\ ApiError(NoCohort) \in Results /\ ApiError(NoCohort).cohort = NoCohort
  BY DEF LoginNeeded, ApiError, Result, Results
<1>2. /\ page.step = "cohorts" /\ page \in Scripts
      /\ UNCHANGED <<runtime, window, triggers, watched, signedIn, selected, view, selections>>
  BY Types DEF FetchCohorts
<1>3. CASE ~answered
  BY <1>1, <1>2, <1>3, FinishKeeps DEF FetchCohorts
<1>4. CASE answered /\ ~signedIn
  <2>1. PICK script : script = [page EXCEPT !.cached = FALSE]
    OBVIOUS
  <2>2. /\ script \in Scripts /\ script.number = page.number
        /\ script.listening = page.listening /\ script.generation = page.generation
        /\ script.check = page.check /\ script.queued = page.queued
    BY <1>2, <2>1 DEF Scripts
  <2>3. Finish(script, LoginNeeded)
    BY <1>4, <2>1 DEF FetchCohorts
  <2>4. QED
    BY <1>1, <1>2, <2>2, <2>3, FinishKeeps
<1>5. CASE answered /\ signedIn
  <2>1. page' = [page EXCEPT !.step = "resolve", !.fresh = TRUE] /\ UNCHANGED reports
    BY <1>5 DEF FetchCohorts
  <2>2. PICK script : script = [page EXCEPT !.step = "resolve"]
    OBVIOUS
  <2>3. /\ script \in Scripts /\ script.number = page.number
        /\ script.listening = page.listening /\ script.generation = page.generation
        /\ script.check = page.check /\ script.queued = page.queued /\ script.step = "resolve"
    BY <1>2, <2>2 DEF Scripts
  <2>4. page' = [script EXCEPT !.fresh = TRUE]
    BY <1>2, <2>1, <2>2 DEF Scripts
  <2>5. /\ page' \in Scripts /\ page'.number = page.number
        /\ page'.listening = page.listening /\ page'.generation = page.generation
        /\ page'.check = page.check /\ page'.queued = page.queued /\ page'.step = "resolve"
    BY <2>3, <2>4 DEF Scripts
  <2>6. QED
    BY <1>2, <2>1, <2>5, AdvanceKeeps
<1>6. QED
  BY <1>3, <1>4, <1>5

LEMMA ResolveCohortKeeps ==
    ASSUME CheckerInv, NEW found \in BOOLEAN, ResolveCohort(found)
    PROVE  CheckerInv'
<1>1. /\ ApiError(NoCohort) \in Results /\ ApiError(NoCohort).cohort = NoCohort
      /\ Result(FALSE, FALSE, NoCohort) \in Results
      /\ Result(FALSE, FALSE, NoCohort).cohort = NoCohort
  BY DEF ApiError, Result, Results
<1>2. /\ page.step = "resolve" /\ page \in Scripts
      /\ UNCHANGED <<runtime, window, triggers, watched, signedIn, selected, view, selections>>
  BY Types DEF ResolveCohort
<1>3. PICK script : script = [page EXCEPT !.cached = @ \/ page.fresh]
  OBVIOUS
<1>4. /\ script \in Scripts /\ script.number = page.number
      /\ script.listening = page.listening /\ script.generation = page.generation
      /\ script.check = page.check /\ script.queued = page.queued
  BY <1>2, <1>3 DEF Scripts
<1>5. CASE ~OnLms(runtime.place)
  BY <1>1, <1>2, <1>5, FinishKeeps DEF ResolveCohort
<1>6. CASE OnLms(runtime.place) /\ ~found
  <2>1. Finish(script, Result(FALSE, FALSE, NoCohort))
    BY <1>3, <1>6 DEF ResolveCohort
  <2>2. QED
    BY <1>1, <1>2, <1>4, <2>1, FinishKeeps
<1>7. CASE OnLms(runtime.place) /\ found
  <2>1. page' = [script EXCEPT !.step = "attendance", !.cohort = selected] /\ UNCHANGED reports
    BY <1>3, <1>7 DEF ResolveCohort
  <2>2. PICK next : next = [script EXCEPT !.step = "attendance"]
    OBVIOUS
  <2>3. /\ next \in Scripts /\ next.number = page.number
        /\ next.listening = page.listening /\ next.generation = page.generation
        /\ next.check = page.check /\ next.queued = page.queued /\ next.step = "attendance"
    BY <1>4, <2>2 DEF Scripts
  <2>4. page' = [next EXCEPT !.cohort = selected]
    BY <1>4, <2>1, <2>2 DEF Scripts
  <2>5. selected \in Cohorts \cup {NoCohort}
    BY DEF CheckerInv, CheckerTypeOK
  <2>6. /\ page' \in Scripts /\ page'.number = page.number
        /\ page'.listening = page.listening /\ page'.generation = page.generation
        /\ page'.check = page.check /\ page'.queued = page.queued
        /\ page'.step = "attendance" /\ page'.cohort = selected
    BY <2>3, <2>4, <2>5 DEF Scripts
  <2>7. QED
    BY <1>2, <2>1, <2>6, AdvanceKeeps
<1>8. QED
  BY <1>5, <1>6, <1>7

LEMMA FetchAttendanceKeeps ==
    ASSUME CheckerInv, NEW answered \in BOOLEAN, FetchAttendance(answered)
    PROVE  CheckerInv'
<1>1. /\ LoginNeeded \in Results /\ LoginNeeded.cohort = NoCohort
  BY DEF LoginNeeded, Result, Results
<1>2. /\ page.step = "attendance" /\ page \in Scripts
      /\ UNCHANGED <<runtime, window, triggers, watched, signedIn, selected, view, selections>>
  BY Types DEF FetchAttendance
<1>3. CASE ~answered
  <2>1. /\ ApiError(page.cohort) \in Results /\ ApiError(page.cohort).cohort = page.cohort
    BY <1>2 DEF ApiError, Result, Results, Scripts
  <2>2. Finish(page, ApiError(page.cohort))
    BY <1>3 DEF FetchAttendance
  <2> QED
    BY <1>2, <2>1, <2>2, FinishKeeps
<1>4. CASE answered /\ ~signedIn
  <2>1. PICK script : script = [page EXCEPT !.cached = FALSE]
    OBVIOUS
  <2>2. /\ script \in Scripts /\ script.number = page.number
        /\ script.listening = page.listening /\ script.generation = page.generation
        /\ script.check = page.check /\ script.queued = page.queued
    BY <1>2, <2>1 DEF Scripts
  <2>3. Finish(script, LoginNeeded)
    BY <1>4, <2>1 DEF FetchAttendance
  <2>4. QED
    BY <1>1, <1>2, <2>2, <2>3, FinishKeeps
<1>5. CASE answered /\ signedIn
  <2>1. /\ Result(FALSE, FALSE, page.cohort) \in Results
        /\ Result(FALSE, FALSE, page.cohort).cohort = page.cohort
    BY <1>2 DEF Result, Results, Scripts
  <2>2. Finish(page, Result(FALSE, FALSE, page.cohort))
    BY <1>5 DEF FetchAttendance
  <2>3. QED
    BY <1>2, <2>1, <2>2, FinishKeeps
<1>6. QED
  BY <1>3, <1>4, <1>5

\* A trigger starts a check, or asks for another one, or nobody listens yet.
LEMMA HearTriggerKeeps ==
    ASSUME CheckerInv, HearTrigger
    PROVE  CheckerInv'
<1> DEFINE heard == page.listening /\ Head(triggers) > 0 /\ OnLms(window.place)
<1>1. /\ triggers # <<>> /\ triggers' = Tail(triggers)
      /\ UNCHANGED <<window, reports, watched, signedIn, selected, view, selections>>
  BY DEF HearTrigger
<1>2. /\ triggers' \in Seq(Nat) /\ Len(triggers) \in Nat \ {0}
      /\ DOMAIN triggers = 1 .. Len(triggers) /\ DOMAIN triggers' = 1 .. (Len(triggers) - 1)
      /\ Head(triggers) = triggers[1] /\ triggers[1] \in Nat
      /\ \A i \in 1 .. (Len(triggers) - 1) : triggers'[i] = triggers[i + 1]
  BY <1>1, Types, Received
<1>3. /\ page.generation <= triggers[1] /\ triggers[1] <= runtime.loaded
      /\ \A i \in DOMAIN triggers' : triggers[1] <= triggers'[i] /\ triggers'[i] <= runtime.loaded
  <2>1. ASSUME NEW i \in DOMAIN triggers'
        PROVE  triggers[1] <= triggers'[i] /\ triggers'[i] <= runtime.loaded
    <3>1. i + 1 \in DOMAIN triggers /\ 1 \in 1 .. (i + 1) /\ triggers'[i] = triggers[i + 1]
      BY <1>2
    <3>2. QED
      BY <3>1 DEF CheckerInv, OrderInv
  <2>2. 1 \in DOMAIN triggers
    BY <1>2
  <2>3. QED
    BY <2>1, <2>2 DEF CheckerInv, OrderInv
<1>4. \A i \in DOMAIN triggers' : \A j \in 1..i : triggers'[j] <= triggers'[i]
  <2> SUFFICES ASSUME NEW i \in DOMAIN triggers', NEW j \in 1..i
               PROVE  triggers'[j] <= triggers'[i]
    OBVIOUS
  <2>1. /\ i + 1 \in DOMAIN triggers /\ j + 1 \in 1 .. (i + 1)
        /\ triggers'[i] = triggers[i + 1] /\ triggers'[j] = triggers[j + 1]
    BY <1>2
  <2>2. QED
    BY <2>1 DEF CheckerInv, OrderInv
<1>5. \A i \in DOMAIN reports : /\ reports[i].generation <= triggers[1]
                                /\ \A j \in DOMAIN triggers' : reports[i].generation <= triggers'[j]
  <2>1. 1 \in DOMAIN triggers /\ \A j \in DOMAIN triggers' : j + 1 \in DOMAIN triggers
    BY <1>2
  <2>2. QED
    BY <1>2, <2>1 DEF CheckerInv, OrderInv
<1>6. CASE heard
  <2> DEFINE script == [page EXCEPT !.generation = Head(triggers)]
  <2>1. page' = RunCheck(script) /\ runtime' = Ready(Head(triggers))
    BY <1>6 DEF HearTrigger
  <2>2. /\ script \in Scripts /\ script.number = page.number
        /\ script.listening = page.listening /\ script.generation = triggers[1]
        /\ script.check = page.check /\ script.queued = page.queued
        /\ script.step = page.step /\ script.cohort = page.cohort
    BY <1>2, Types DEF Scripts
  <2> HIDE DEF script
  <2>3. /\ page' \in Scripts /\ page'.number = page.number
        /\ page'.listening /\ page'.generation = triggers[1]
        /\ page.step = "idle" => /\ page'.check = triggers[1] /\ page'.queued = 0
                                 /\ page'.step \in {"cohorts", "resolve", "done"}
        /\ page.step # "idle" => /\ page'.check = page.check /\ page'.queued = triggers[1]
                                 /\ page'.step = page.step /\ page'.cohort = page.cohort
    <3>1. CASE page.step = "idle"
      <4>1. page' = CheckStarted(script, triggers[1])
        BY <2>1, <2>2, <3>1 DEF RunCheck
      <4>2. QED
        BY <1>2, <1>6, <2>2, <3>1, <4>1, Started
    <3>2. CASE page.step # "idle"
      <4>1. page' = [script EXCEPT !.queued = triggers[1]]
        BY <2>1, <2>2, <3>2 DEF RunCheck
      <4>2. QED
        BY <1>2, <1>6, <2>2, <3>2, <4>1 DEF Scripts
    <3>3. QED
      BY <3>1, <3>2
  <2>4. /\ runtime' \in Runtimes /\ runtime'.loaded = runtime.loaded
        /\ runtime'.place = runtime.place /\ runtime'.reported = runtime.reported
        /\ runtime'.refreshes = runtime.refreshes
        /\ runtime'.ready = runtime.ready \/ runtime'.ready = runtime.loaded
        /\ runtime'.status = runtime.status \/ runtime'.status = "ready"
        /\ OnLms(runtime.place) /\ triggers[1] = runtime.loaded => runtime'.status = "ready"
    <3>1. runtime' = Ready(triggers[1])
      BY <1>2, <2>1
    <3>2. CASE OnLms(runtime.place) /\ triggers[1] = runtime.loaded
      <4>1. runtime' = ReadyWith(runtime, triggers[1], "ready")
        BY <1>2, <1>6, <3>1, <3>2 DEF Ready, ReadyWith
      <4>2. "ready" \in Statuses
        BY DEF Statuses
      <4>3. runtime \in Runtimes
        BY Types
      <4>4. /\ runtime' \in Runtimes /\ runtime'.loaded = runtime.loaded
            /\ runtime'.place = runtime.place /\ runtime'.reported = runtime.reported
            /\ runtime'.refreshes = runtime.refreshes
            /\ runtime'.ready = triggers[1] /\ runtime'.status = "ready"
        <5>1. PICK generation \in Nat : generation = triggers[1]
          BY <1>2
        <5>2. runtime' = ReadyWith(runtime, generation, "ready")
          BY <4>1, <5>1
        <5>3. /\ runtime' \in Runtimes /\ runtime'.loaded = runtime.loaded
              /\ runtime'.place = runtime.place /\ runtime'.reported = runtime.reported
              /\ runtime'.refreshes = runtime.refreshes
              /\ runtime'.ready = generation /\ runtime'.status = "ready"
          BY ONLY <5>2, <4>2, <4>3, ReadyUpdate
        <5>4. QED
          BY <5>1, <5>3
      <4>5. QED
        BY <3>2, <4>4
    <3>3. CASE ~(OnLms(runtime.place) /\ triggers[1] = runtime.loaded)
      BY <3>1, <3>3, Types DEF Ready
    <3>4. QED
      BY <3>2, <3>3
  <2>5. triggers[1] > 0 /\ OnLms(window.place)
    BY <1>2, <1>6
  <2>6. CheckerTypeOK'
    <3>1. page.check <= triggers[1]
      BY <1>2, <1>3, Types DEF CheckerInv, CheckerTypeOK
    <3>2. page'.check <= page'.generation /\ page'.generation <= runtime'.loaded
      BY <1>2, <1>3, <2>3, <2>4, <3>1
    <3>3. page'.queued # 0 => page'.step # "idle" /\ page'.queued = page'.generation
      BY <2>3
    <3>4. runtime'.ready <= runtime'.loaded
      BY <2>4, Types DEF CheckerInv, CheckerTypeOK
    <3>5. QED
      BY <1>1, <1>2, <2>3, <2>4, <3>2, <3>3, <3>4 DEF CheckerInv, CheckerTypeOK
  <2>7. PageInv'
    BY <1>1, <2>3, <2>4, <2>5 DEF CheckerInv, PageInv
  <2>8. OrderInv'
    <3>1. ASSUME NEW i \in DOMAIN reports
          PROVE  /\ reports[i].page = page'.number => reports[i].generation <= page'.generation
                 /\ page'.step # "idle" => reports[i].generation <= page'.check
      BY <1>5, <2>3, <3>1 DEF CheckerInv, OrderInv
    <3>2. \A i \in DOMAIN reports : \A j \in 1..i : reports[j].generation <= reports[i].generation
      BY DEF CheckerInv, OrderInv
    <3>3. \A i \in DOMAIN reports :
             /\ 0 < reports[i].generation /\ reports[i].generation <= reports[i].page
             /\ reports[i].generation <= runtime.loaded /\ reports[i].page <= page.number
             /\ reports[i].generation = runtime.loaded /\ window.moving = "no"
                   => reports[i].page = page.number
      BY DEF CheckerInv, OrderInv
    <3>4. /\ reports' = reports /\ window' = window /\ runtime'.loaded = runtime.loaded
          /\ page'.generation = triggers[1] /\ page'.number = page.number
      BY <1>1, <2>3, <2>4
    <3>5. QED
      BY <1>3, <1>4, <1>5, <3>1, <3>2, <3>3, <3>4 DEF OrderInv
  <2>9. HealthyInv'
    <3>1. SUFFICES ASSUME runtime'.status = "healthy", window.moving = "no" PROVE FALSE
      BY <1>1 DEF HealthyInv
    <3>2. OnLms(runtime.place) /\ page.generation = runtime.loaded
      BY <2>4, <3>1 DEF CheckerInv, HealthyInv
    <3>3. triggers[1] = runtime.loaded
      BY <1>2, <1>3, <3>2, Types
    <3>4. QED
      BY <2>4, <3>1, <3>2, <3>3
  <2>10. page'.queued # 0 \/ page'.step \in {"cohorts", "resolve", "done"}
    BY <2>3, <2>5, <1>2
  <2>11. FollowedInv' /\ SelectionIsFollowed'
    BY <2>10 DEF FollowedInv, SelectionIsFollowed, OnItsWay, WillResolve, Again
  <2>12. SilenceIsNoticed'
    BY <1>1, <2>4 DEF CheckerInv, CheckerGoesOn, SilenceIsNoticed
  <2>13. QED
    BY <2>6, <2>7, <2>8, <2>9, <2>11, <2>12 DEF CheckerInv, CheckerGoesOn
<1>7. CASE ~heard
  <2>1. UNCHANGED <<page, runtime>>
    BY <1>7 DEF HearTrigger
  <2>2. CheckerTypeOK' /\ PageInv' /\ HealthyInv' /\ SilenceIsNoticed'
    BY <1>1, <1>2, <2>1 DEF CheckerInv, CheckerGoesOn, CheckerTypeOK, PageInv, HealthyInv, SilenceIsNoticed
  <2>3. OrderInv'
    <3>1. \A i \in DOMAIN triggers' : page.generation <= triggers'[i]
      <4>1. \A i \in DOMAIN triggers' : i + 1 \in DOMAIN triggers
        BY <1>2
      <4>2. QED
        BY <1>2, <4>1 DEF CheckerInv, OrderInv
    <3>2. QED
      BY <1>1, <1>3, <1>4, <1>5, <2>1, <3>1 DEF CheckerInv, OrderInv
  <2>4. page.generation > 0 /\ window.moving = "no" => ~OnLms(runtime.place)
    <3>1. SUFFICES ASSUME page.generation > 0, window.moving = "no", OnLms(runtime.place)
                   PROVE  FALSE
      OBVIOUS
    <3>2. Head(triggers) > 0
      BY <1>2, <1>3, <3>1, Types
    <3>3. page.listening /\ OnLms(window.place)
      BY <3>1 DEF CheckerInv, PageInv
    <3>4. QED
      BY <1>7, <3>2, <3>3
  <2>5. page.step # "idle" /\ window.moving = "no" => page.generation > 0 /\ OnLms(runtime.place)
    BY Types DEF CheckerInv, PageInv, CheckerTypeOK
  <2>6. page.step = "idle" \/ window.moving # "no"
    BY <2>4, <2>5
  <2>7. FollowedInv'
    <3>1. ASSUME NEW i \in DOMAIN reports, reports[i].generation = runtime.loaded,
                 OnLms(runtime.place), window.moving = "no"
          PROVE  FALSE
      <4>1. /\ 0 < reports[i].generation /\ reports[i].generation <= page.generation
            /\ reports[i].generation \in Nat
        BY <3>1, Types DEF CheckerInv, OrderInv, Reports
      <4>2. page.generation > 0
        BY <4>1, Types
      <4>3. QED
        BY <2>4, <3>1, <4>2
    <3>2. QED
      BY <1>1, <2>1, <2>6, <3>1 DEF FollowedInv, Again
  <2>8. SelectionIsFollowed'
    <3>1. SUFFICES ASSUME runtime.status = "healthy", window.moving = "no" PROVE FALSE
      BY <1>1, <2>1 DEF SelectionIsFollowed, OnItsWay
    <3>2. page.generation > 0 /\ OnLms(runtime.place)
      BY <3>1 DEF CheckerInv, HealthyInv
    <3>3. QED
      BY <2>4, <3>1, <3>2
  <2>9. QED
    BY <2>2, <2>3, <2>7, <2>8 DEF CheckerInv, CheckerGoesOn
<1>8. QED
  BY <1>6, <1>7

-----------------------------------------------------------------------------
(* Steps of the window.                                                    *)

\* The old document ends; nothing that it was asked is heard by the next one as its own.
LEMMA CommitKeeps ==
    ASSUME CheckerInv, NEW place \in Places, Commit(place)
    PROVE  CheckerInv'
<1>1. /\ window.moving = "leaving" /\ page' = Script(page.number + 1)
      /\ window' = [window EXCEPT !.moving = "loading", !.place = place]
      /\ UNCHANGED <<runtime, triggers, reports, watched, signedIn, selected, view, selections>>
  BY DEF Commit
<1>2. /\ page' \in Scripts /\ page'.number = page.number + 1 /\ page'.generation = 0
      /\ page'.step = "idle" /\ page'.check = 0 /\ page'.queued = 0
  BY <1>1, Types DEF Script, Scripts
<1>3. window' \in Windows /\ window'.moving = "loading" /\ window'.shown = window.shown
  BY <1>1, Types DEF Windows
<1>4. CheckerTypeOK'
  BY <1>1, <1>2, <1>3, Types DEF CheckerInv, CheckerTypeOK, Windows
<1>5. PageInv'
  BY <1>1, <1>2, <1>3, Types DEF CheckerInv, CheckerTypeOK, PageInv
<1>6. OrderInv'
  <2>1. ASSUME NEW i \in DOMAIN reports
        PROVE  reports[i].page < page'.number /\ reports[i].page <= page'.number
    <3>1. reports[i].page <= page.number /\ reports[i].page \in Nat
      BY Types DEF CheckerInv, OrderInv, Reports
    <3>2. QED
      BY <1>2, <3>1, Types
  <2>2. \A i \in DOMAIN reports : reports[i].page # page'.number
    <3>1. \A i \in DOMAIN reports : reports[i].page \in Nat
      BY Types DEF Reports
    <3>2. QED
      BY <1>2, <2>1, <3>1, Types
  <2>3. \A i \in DOMAIN triggers : page'.generation <= triggers[i]
    BY <1>2, Types
  <2>4. QED
    BY <1>1, <1>2, <1>3, <2>1, <2>2, <2>3 DEF CheckerInv, OrderInv
<1>7. HealthyInv' /\ FollowedInv' /\ SelectionIsFollowed' /\ SilenceIsNoticed'
  BY <1>2, <1>3 DEF HealthyInv, FollowedInv, SelectionIsFollowed, SilenceIsNoticed, Again, OnItsWay
<1>8. QED
  BY <1>4, <1>5, <1>6, <1>7 DEF CheckerInv, CheckerGoesOn

\* The app counts a page more; no trigger and no report of it exists yet.
LEMMA PageLoadedKeeps ==
    ASSUME CheckerInv, PageLoaded
    PROVE  CheckerInv'
<1>1. /\ window.moving = "loading" /\ window' = [window EXCEPT !.moving = "no"]
      /\ runtime' = LoadedWith(runtime, runtime.loaded + 1, "page-loaded", window.place)
      /\ UNCHANGED <<page, reports, signedIn, selected, view, selections>>
  BY DEF PageLoaded, LoadedWith
<1>2. window' \in Windows /\ window'.moving = "no" /\ window'.shown = window.shown
      /\ window'.place = window.place /\ window.place \in Places
  BY <1>1, Types DEF Windows
<1>3. /\ runtime' \in Runtimes /\ runtime'.loaded = runtime.loaded + 1
      /\ runtime'.status = "page-loaded" /\ runtime'.place = window.place
      /\ runtime'.ready = runtime.ready /\ runtime'.reported = runtime.reported
      /\ runtime'.refreshes = runtime.refreshes
  <2>1. "page-loaded" \in Statuses /\ runtime \in Runtimes
    BY Types DEF Statuses
  <2>2. PICK generation \in Nat : generation = runtime.loaded + 1
    BY Types
  <2>3. PICK place \in Places : place = window.place
    BY <1>2
  <2>4. runtime' = LoadedWith(runtime, generation, "page-loaded", place)
    BY <1>1, <2>2, <2>3
  <2>5. /\ runtime' \in Runtimes /\ runtime'.loaded = generation
        /\ runtime'.status = "page-loaded" /\ runtime'.place = place
        /\ runtime'.ready = runtime.ready /\ runtime'.reported = runtime.reported
        /\ runtime'.refreshes = runtime.refreshes
    BY ONLY <2>1, <2>4, LoadedUpdate
  <2>6. QED
    BY <2>2, <2>3, <2>5
<1>4. runtime.loaded < page.number /\ page.generation <= runtime.loaded
  BY <1>1 DEF CheckerInv, PageInv, CheckerTypeOK
<1>5. \/ OnLms(window.place) /\ triggers' = Append(triggers, runtime.loaded + 1) /\ watched' = TRUE
      \/ ~OnLms(window.place) /\ triggers' = triggers /\ watched' = FALSE
  BY <1>3 DEF PageLoaded, Trigger
<1>6. /\ triggers' \in Seq(Nat) /\ DOMAIN triggers' = 1 .. Len(triggers')
      /\ Len(triggers') \in Nat /\ OnLms(window.place) => triggers' # <<>>
      /\ \A i \in DOMAIN triggers' :
            \/ i \in DOMAIN triggers /\ triggers'[i] = triggers[i]
            \/ triggers'[i] = runtime.loaded + 1
      /\ \A i \in DOMAIN triggers' : i \in DOMAIN triggers =>
            \A j \in 1..i : j \in DOMAIN triggers /\ triggers'[j] = triggers[j]
  <2>1. CASE OnLms(window.place) /\ triggers' = Append(triggers, runtime.loaded + 1)
    <3>1. runtime.loaded + 1 \in Nat
      BY Types
    <3>2. /\ Len(triggers) \in Nat /\ DOMAIN triggers = 1 .. Len(triggers)
          /\ triggers' \in Seq(Nat) /\ triggers' # <<>>
          /\ DOMAIN triggers' = 1 .. (Len(triggers) + 1)
          /\ \A i \in 1 .. Len(triggers) : triggers'[i] = triggers[i]
          /\ triggers'[Len(triggers) + 1] = runtime.loaded + 1
      BY <2>1, <3>1, Types, Sent
    <3>3. Len(triggers') \in Nat /\ DOMAIN triggers' = 1 .. Len(triggers')
      BY <3>2, LenProperties
    <3>4. QED
      BY <3>2, <3>3
  <2>2. CASE ~OnLms(window.place) /\ triggers' = triggers
    BY <2>2, Types
  <2>3. QED
    BY <1>5, <2>1, <2>2
<1>7. CheckerTypeOK'
  <2>1. /\ runtime'.reported <= runtime'.loaded /\ runtime'.ready <= runtime'.loaded
        /\ runtime'.loaded <= page'.number /\ page'.generation <= runtime'.loaded
        /\ runtime'.loaded > 0
    <3>1. /\ runtime.reported <= runtime.loaded /\ runtime.ready <= runtime.loaded
          /\ runtime.reported \in Nat /\ runtime.ready \in Nat
      BY Types DEF CheckerInv, CheckerTypeOK, Runtimes
    <3>2. page' = page
      BY <1>1
    <3>3. QED
      BY <1>3, <1>4, <3>1, <3>2, Types
  <2>2. watched' \in BOOLEAN
    BY <1>5
  <2>3. QED
    BY <1>1, <1>2, <1>3, <1>6, <2>1, <2>2 DEF CheckerInv, CheckerTypeOK, Windows
<1>8. PageInv'
  BY <1>1, <1>2, <1>3 DEF CheckerInv, PageInv
<1>9. \A i \in DOMAIN reports : /\ reports[i].generation <= runtime.loaded
                                /\ reports[i].generation <= runtime'.loaded
                                /\ reports[i].generation # runtime'.loaded
  <2>1. \A i \in DOMAIN reports :
          reports[i].generation <= runtime.loaded /\ reports[i].generation \in Nat
    BY Types DEF CheckerInv, OrderInv, Reports
  <2>2. QED
    BY <1>3, <2>1, Types
<1>10. OrderInv'
  <2>1. ASSUME NEW i \in DOMAIN triggers'
        PROVE  /\ page'.generation <= triggers'[i] /\ triggers'[i] <= runtime'.loaded
               /\ \A j \in 1..i : triggers'[j] <= triggers'[i]
               /\ \A k \in DOMAIN reports : reports[k].generation <= triggers'[i]
    <3>1. CASE i \in DOMAIN triggers /\ triggers'[i] = triggers[i]
      <4>1. \A j \in 1..i : triggers'[j] = triggers[j]
        BY <1>6, <3>1
      <4>2. triggers[i] \in Nat /\ triggers[i] <= runtime.loaded
        BY <3>1, Types DEF CheckerInv, OrderInv
      <4>3. triggers[i] <= runtime'.loaded
        BY <1>3, <4>2, Types
      <4>4. QED
        BY <1>1, <3>1, <4>1, <4>3 DEF CheckerInv, OrderInv
    <3>2. CASE triggers'[i] = runtime.loaded + 1
      <4>1. ASSUME NEW j \in 1..i PROVE triggers'[j] <= runtime.loaded + 1
        <5>1. j \in DOMAIN triggers'
          BY <1>6
        <5>2. CASE j \in DOMAIN triggers /\ triggers'[j] = triggers[j]
          <6>1. triggers[j] <= runtime.loaded /\ triggers[j] \in Nat
            BY <5>2, Types DEF CheckerInv, OrderInv
          <6>2. QED
            BY <5>2, <6>1, Types
        <5>3. CASE triggers'[j] = runtime.loaded + 1
          BY <5>3, Types
        <5>4. QED
          BY <1>6, <5>1, <5>2, <5>3
      <4>2. page'.generation <= runtime.loaded + 1 /\ runtime.loaded + 1 <= runtime'.loaded
        BY <1>1, <1>3, <1>4, Types
      <4>3. \A k \in DOMAIN reports : reports[k].generation <= runtime.loaded + 1
        BY <1>3, <1>9
      <4>4. QED
        BY <3>2, <4>1, <4>2, <4>3
    <3>3. QED
      BY <1>6, <3>1, <3>2
  <2>2. ASSUME NEW i \in DOMAIN reports
        PROVE  /\ 0 < reports[i].generation /\ reports[i].generation <= reports[i].page
               /\ reports[i].page <= page.number
               /\ reports[i].page = page.number => reports[i].generation <= page.generation
               /\ page.step # "idle" => reports[i].generation <= page.check
               /\ \A j \in 1..i : reports[j].generation <= reports[i].generation
    BY DEF CheckerInv, OrderInv
  <2>3. \A i \in DOMAIN reports : \A j \in DOMAIN triggers' : reports[i].generation <= triggers'[j]
    BY <2>1
  <2>4. page' = page /\ reports' = reports
    BY <1>1
  <2>5. \A i \in DOMAIN triggers' :
          /\ page'.generation <= triggers'[i] /\ triggers'[i] <= runtime'.loaded
          /\ \A j \in 1..i : triggers'[j] <= triggers'[i]
    BY <2>1
  <2>6. QED
    BY <1>9, <2>2, <2>3, <2>4, <2>5 DEF OrderInv
<1>11. HealthyInv' /\ SelectionIsFollowed'
  BY <1>3 DEF HealthyInv, SelectionIsFollowed
<1>12. FollowedInv'
  <2>1. page'.step = "attendance" => triggers' # <<>>
    BY <1>1, <1>6 DEF CheckerInv, PageInv
  <2>2. QED
    BY <1>1, <1>9, <2>1 DEF FollowedInv, Again
<1>13. SilenceIsNoticed'
  BY <1>3, <1>5 DEF SilenceIsNoticed
<1>14. QED
  BY <1>7, <1>8, <1>10, <1>11, <1>12, <1>13 DEF CheckerInv, CheckerGoesOn

\* A window that is shown, hidden, or told to load a page: it can only begin to leave.
LEMMA WindowKeeps ==
    ASSUME CheckerInv, window' \in Windows, window'.place = window.place,
           window'.moving \in {window.moving, "leaving"},
           window'.shown \/ window'.shown = window.shown \/ window'.moving = "leaving",
           signedIn' \in BOOLEAN,
           UNCHANGED <<runtime, page, triggers, reports, watched, selected, view, selections>>
    PROVE  CheckerInv'
<1>1. CheckerTypeOK' /\ PageInv'
  BY DEF CheckerInv, CheckerTypeOK, PageInv, Windows
<1>2. OrderInv'
  BY DEF CheckerInv, OrderInv
<1>3. HealthyInv'
  BY DEF CheckerInv, HealthyInv
<1>4. window.moving # "no" => window'.moving # "no"
  OBVIOUS
<1>5. FollowedInv'
  BY <1>4 DEF CheckerInv, FollowedInv, Again, WillResolve
<1>6. SelectionIsFollowed'
  BY <1>4 DEF CheckerInv, CheckerGoesOn, SelectionIsFollowed, OnItsWay, WillResolve
<1>7. SilenceIsNoticed'
  BY <1>4 DEF CheckerInv, CheckerGoesOn, SilenceIsNoticed, Windows
<1>8. QED
  BY <1>1, <1>2, <1>3, <1>5, <1>6, <1>7 DEF CheckerInv, CheckerGoesOn

LEMMA WindowActionsKeep ==
    ASSUME CheckerInv,
           ScheduledRefresh \/ ShowWindow \/ CloseWindow \/ Navigate \/ SessionExpires
    PROVE  CheckerInv'
<1>1. window \in Windows /\ signedIn \in BOOLEAN
  BY Types DEF CheckerInv, CheckerTypeOK
<1>2. UNCHANGED <<runtime, page, triggers, reports, watched, selected, view, selections>>
  BY DEF ScheduledRefresh, ShowWindow, CloseWindow, Navigate, SessionExpires
<1>3. signedIn' \in BOOLEAN
  BY <1>1 DEF ScheduledRefresh, ShowWindow, CloseWindow, Navigate, SessionExpires
<1>4. /\ window' \in Windows /\ window'.place = window.place
      /\ window'.moving \in {window.moving, "leaving"}
      /\ window'.shown \/ window'.shown = window.shown \/ window'.moving = "leaving"
  <2>1. CASE ScheduledRefresh
    BY <1>1, <2>1 DEF ScheduledRefresh, Refreshed, Leave, Windows
  <2>2. CASE ShowWindow
    BY <1>1, <2>2 DEF ShowWindow, Windows
  <2>3. CASE CloseWindow
    <3>1. PICK hidden : hidden = [window EXCEPT !.shown = FALSE]
      OBVIOUS
    <3>2. hidden \in Windows /\ hidden.place = window.place /\ ~hidden.shown
      BY <1>1, <3>1 DEF Windows
    <3>3. window' = [hidden EXCEPT !.moving = "leaving"]
      BY <2>3, <3>1, <3>2 DEF CloseWindow, Closed, Refreshed, Leave
    <3>4. QED
      BY <3>2, <3>3 DEF Windows
  <2>4. CASE Navigate
    BY <1>1, <2>4 DEF Navigate, Leave, Windows
  <2>5. CASE SessionExpires
    BY <1>1, <2>5 DEF SessionExpires
  <2>6. QED
    BY <2>1, <2>2, <2>3, <2>4, <2>5
<1>5. QED
  BY <1>2, <1>3, <1>4, WindowKeeps

\* The watchdog gives up or reloads the page.
LEMMA WatchdogKeeps ==
    ASSUME CheckerInv, Watchdog
    PROVE  CheckerInv'
<1>1. /\ watched' = FALSE
      /\ UNCHANGED <<page, triggers, reports, signedIn, selected, view, selections>>
  BY DEF Watchdog
<1>2. CASE window.shown \/ runtime.reported >= runtime.loaded
  <2>1. UNCHANGED <<runtime, window>>
    BY <1>2 DEF Watchdog
  <2>2. runtime.reported \in Nat
    BY Types DEF Runtimes
  <2>3. ~(runtime.reported < runtime.loaded /\ ~window.shown)
    BY <1>2, <2>2, Types
  <2>4. SilenceIsNoticed'
    BY <2>1, <2>3 DEF SilenceIsNoticed
  <2>5. CheckerTypeOK' /\ PageInv' /\ HealthyInv'
    BY <1>1, <2>1 DEF CheckerInv, CheckerTypeOK, PageInv, HealthyInv
  <2>6. OrderInv'
    BY <1>1, <2>1 DEF CheckerInv, OrderInv
  <2>7. FollowedInv' /\ SelectionIsFollowed'
    BY <1>1, <2>1 DEF CheckerInv, CheckerGoesOn, FollowedInv, SelectionIsFollowed, OnItsWay, WillResolve, Again
  <2>8. QED
    BY <2>4, <2>5, <2>6, <2>7 DEF CheckerInv, CheckerGoesOn
<1>3. CASE ~(window.shown \/ runtime.reported >= runtime.loaded)
  <2>1. /\ runtime' = Timeout /\ ~window.shown
        /\ window' = IF runtime'.status = "refreshing" THEN Refreshed(window) ELSE window
    BY <1>3 DEF Watchdog
  <2>2. /\ runtime' \in Runtimes /\ runtime'.loaded = runtime.loaded
        /\ runtime'.place = runtime.place /\ runtime'.reported = runtime.reported
        /\ runtime'.ready = runtime.ready
        /\ \/ runtime'.status = "offline" /\ runtime'.refreshes = runtime.refreshes
              /\ runtime.refreshes >= RefreshLimit
           \/ runtime'.status = "refreshing"
    <3>1. CASE runtime.refreshes >= RefreshLimit
      <4>1. runtime' = [runtime EXCEPT !.status = "offline"]
        BY <2>1, <3>1 DEF Timeout
      <4>2. QED
        BY <3>1, <4>1, Types DEF Runtimes
    <3>2. CASE ~(runtime.refreshes >= RefreshLimit)
      <4>1. PICK refreshes \in 0..RefreshLimit : refreshes = runtime.refreshes + 1
        BY <3>2, Types DEF Runtimes
      <4>2. runtime' = Refreshing(runtime, refreshes, "refreshing")
        BY <2>1, <3>2, <4>1 DEF Timeout, Refreshing
      <4>3. runtime \in Runtimes /\ "refreshing" \in Statuses
        BY Types DEF Statuses
      <4>4. /\ runtime' \in Runtimes /\ runtime'.status = "refreshing"
            /\ runtime'.loaded = runtime.loaded /\ runtime'.place = runtime.place
            /\ runtime'.reported = runtime.reported /\ runtime'.ready = runtime.ready
        BY ONLY <4>2, <4>3, RefreshesUpdate
      <4>5. QED
        BY <4>4
    <3>3. QED
      BY <3>1, <3>2
  <2>3. /\ window' \in Windows /\ window'.place = window.place /\ window'.shown = window.shown
        /\ window'.moving \in {window.moving, "leaving"}
        /\ runtime'.status = "refreshing" => window'.moving = "leaving"
    BY <2>1, Types DEF Refreshed, Leave, Windows
  <2>4. runtime'.status # "healthy"
    BY <2>2
  <2>5. CheckerTypeOK'
    BY <1>1, <2>2, <2>3 DEF CheckerInv, CheckerTypeOK, Windows
  <2>6. PageInv'
    BY <1>1, <2>2, <2>3 DEF CheckerInv, PageInv
  <2>7. OrderInv'
    BY <1>1, <2>2, <2>3 DEF CheckerInv, OrderInv
  <2>8. HealthyInv' /\ SelectionIsFollowed'
    BY <2>4 DEF HealthyInv, SelectionIsFollowed
  <2>9. FollowedInv'
    BY <1>1, <2>2, <2>3 DEF CheckerInv, FollowedInv, Again, WillResolve
  <2>10. SilenceIsNoticed'
    <3>1. CASE runtime'.status = "refreshing"
      BY <2>3, <3>1 DEF SilenceIsNoticed
    <3>2. CASE runtime'.refreshes = runtime.refreshes /\ runtime.refreshes >= RefreshLimit
      <4>1. runtime.refreshes \in Nat /\ RefreshLimit \in Nat
        BY Types DEF Runtimes
      <4>2. ~(runtime'.refreshes < RefreshLimit)
        BY <3>2, <4>1
      <4>3. QED
        BY <4>2 DEF SilenceIsNoticed
    <3>3. QED
      BY <2>2, <3>1, <3>2
  <2>11. QED
    BY <2>5, <2>6, <2>7, <2>8, <2>9, <2>10 DEF CheckerInv, CheckerGoesOn
<1>4. QED
  BY <1>2, <1>3

-----------------------------------------------------------------------------
(* Steps of the app.                                                       *)

\* A trigger more, for the page that was loaded last.
LEMMA SelectCohortKeeps ==
    ASSUME CheckerInv, NEW cohort \in Cohorts, SelectCohort(cohort)
    PROVE  CheckerInv'
<1>1. /\ selected' = cohort /\ selections' = selections + 1 /\ selections < MaxSelections
      /\ triggers' = Append(triggers, runtime.loaded)
      /\ UNCHANGED <<runtime, window, page, reports, watched, signedIn, view>>
  BY DEF SelectCohort, Trigger
<1>2. /\ triggers' \in Seq(Nat) /\ triggers' # <<>>
      /\ DOMAIN triggers = 1 .. Len(triggers) /\ Len(triggers) \in Nat
      /\ DOMAIN triggers' = 1 .. (Len(triggers) + 1)
      /\ \A i \in 1 .. Len(triggers) : triggers'[i] = triggers[i]
      /\ triggers'[Len(triggers) + 1] = runtime.loaded
  BY <1>1, Types, Sent
<1>3. CheckerTypeOK'
  <2>1. selections' \in 0..MaxSelections
    BY <1>1, CheckerAssumption DEF CheckerInv, CheckerTypeOK
  <2>2. QED
    BY <1>1, <1>2, <2>1 DEF CheckerInv, CheckerTypeOK
<1>4. PageInv' /\ HealthyInv' /\ SilenceIsNoticed'
  BY <1>1 DEF CheckerInv, CheckerGoesOn, PageInv, HealthyInv, SilenceIsNoticed
<1>5. OrderInv'
  <2>1. ASSUME NEW i \in DOMAIN triggers'
        PROVE  /\ page.generation <= triggers'[i] /\ triggers'[i] <= runtime.loaded
               /\ \A j \in 1..i : triggers'[j] <= triggers'[i]
               /\ \A k \in DOMAIN reports : reports[k].generation <= triggers'[i]
    <3>1. CASE i \in 1 .. Len(triggers)
      <4>1. \A j \in 1..i : triggers'[j] = triggers[j]
        BY <1>2, <3>1
      <4>2. triggers'[i] = triggers[i] /\ i \in DOMAIN triggers
        BY <1>2, <3>1
      <4>3. QED
        BY <4>1, <4>2 DEF CheckerInv, OrderInv
    <3>2. CASE i = Len(triggers) + 1
      <4>1. \A j \in 1..i : triggers'[j] <= runtime.loaded
        <5>1. \A j \in 1 .. Len(triggers) : triggers[j] <= runtime.loaded
          BY Types DEF CheckerInv, OrderInv
        <5>2. runtime.loaded <= runtime.loaded
          BY Types
        <5>3. \A j \in 1..i : j \in 1 .. Len(triggers) \/ j = Len(triggers) + 1
          BY <1>2, <3>2
        <5>4. QED
          BY <1>2, <5>1, <5>2, <5>3
      <4>2. page.generation <= runtime.loaded /\ runtime.loaded <= runtime.loaded
        BY Types DEF CheckerInv, CheckerTypeOK
      <4>3. \A k \in DOMAIN reports : reports[k].generation <= runtime.loaded
        BY DEF CheckerInv, OrderInv
      <4>4. QED
        BY <1>2, <3>2, <4>1, <4>2, <4>3
    <3>3. QED
      BY <1>2, <3>1, <3>2
  <2>2. ASSUME NEW i \in DOMAIN reports
        PROVE  /\ 0 < reports[i].generation /\ reports[i].generation <= reports[i].page
               /\ reports[i].generation <= runtime.loaded /\ reports[i].page <= page.number
               /\ reports[i].page = page.number => reports[i].generation <= page.generation
               /\ reports[i].generation = runtime.loaded /\ window.moving = "no"
                     => reports[i].page = page.number
               /\ page.step # "idle" => reports[i].generation <= page.check
               /\ \A j \in 1..i : reports[j].generation <= reports[i].generation
    BY DEF CheckerInv, OrderInv
  <2>3. \A i \in DOMAIN reports : \A j \in DOMAIN triggers' : reports[i].generation <= triggers'[j]
    BY <2>1
  <2>4. QED
    BY <1>1, <2>1, <2>2, <2>3 DEF OrderInv
<1>6. FollowedInv' /\ SelectionIsFollowed'
  BY <1>2 DEF FollowedInv, SelectionIsFollowed, OnItsWay, Again
<1>7. QED
  BY <1>3, <1>4, <1>5, <1>6 DEF CheckerInv, CheckerGoesOn

\* The report that is taken, and those behind it.
LEMMA ReportTaken ==
    ASSUME CheckerInv, HandleReport
    PROVE  /\ reports # <<>> /\ Len(reports) \in Nat \ {0} /\ DOMAIN reports = 1 .. Len(reports)
           /\ Head(reports) = reports[1] /\ reports[1] \in Reports
           /\ reports' \in Seq(Reports) /\ DOMAIN reports' = 1 .. (Len(reports) - 1)
           /\ \A i \in 1 .. (Len(reports) - 1) :
                 reports'[i] = reports[i + 1] /\ i + 1 \in DOMAIN reports
           /\ 1 \in DOMAIN reports
           /\ UNCHANGED <<window, page, triggers, watched, signedIn, selected, selections>>
<1>1. /\ reports # <<>> /\ reports' = Tail(reports)
      /\ UNCHANGED <<window, page, triggers, watched, signedIn, selected, selections>>
  BY DEF HandleReport
<1>2. /\ Len(reports) \in Nat \ {0} /\ DOMAIN reports = 1 .. Len(reports)
      /\ Head(reports) = reports[1] /\ reports[1] \in Reports
      /\ reports' \in Seq(Reports) /\ DOMAIN reports' = 1 .. (Len(reports) - 1)
      /\ \A i \in 1 .. (Len(reports) - 1) : reports'[i] = reports[i + 1]
  BY <1>1, Types, Received
<1>3. /\ 1 \in DOMAIN reports
      /\ \A i \in 1 .. (Len(reports) - 1) : i + 1 \in DOMAIN reports
  BY <1>2
<1>4. QED
  BY <1>1, <1>2, <1>3

\* A report more is behind us: what said something of every report says it of the others.
LEMMA ReportOrder ==
    ASSUME CheckerInv, HandleReport, runtime'.loaded = runtime.loaded
    PROVE  OrderInv'
<1>1. page' = page /\ triggers' = triggers /\ window' = window
  BY ReportTaken
<1>2. ASSUME NEW i \in DOMAIN reports'
      PROVE  /\ 0 < reports'[i].generation /\ reports'[i].generation <= reports'[i].page
             /\ reports'[i].generation <= runtime.loaded /\ reports'[i].page <= page.number
             /\ reports'[i].page = page.number => reports'[i].generation <= page.generation
             /\ reports'[i].generation = runtime.loaded /\ window.moving = "no"
                   => reports'[i].page = page.number
             /\ page.step # "idle" => reports'[i].generation <= page.check
             /\ \A j \in DOMAIN triggers : reports'[i].generation <= triggers[j]
  <2>1. reports'[i] = reports[i + 1] /\ i + 1 \in DOMAIN reports
    BY ReportTaken
  <2>2. QED
    BY <2>1 DEF CheckerInv, OrderInv
<1>3. ASSUME NEW i \in DOMAIN reports', NEW j \in 1..i
      PROVE  reports'[j].generation <= reports'[i].generation
  <2>1. /\ reports'[i] = reports[i + 1] /\ i + 1 \in DOMAIN reports
        /\ reports'[j] = reports[j + 1] /\ j + 1 \in 1 .. (i + 1)
    BY ReportTaken
  <2>2. QED
    BY <2>1 DEF CheckerInv, OrderInv
<1>4. QED
  BY <1>1, <1>2, <1>3 DEF CheckerInv, OrderInv

LEMMA ReportFollowed ==
    ASSUME CheckerInv, HandleReport,
           runtime'.loaded = runtime.loaded, runtime'.place = runtime.place
    PROVE  FollowedInv'
<1>1. page' = page /\ triggers' = triggers /\ window' = window /\ selected' = selected
  BY ReportTaken
<1>2. Again' = Again /\ WillResolve(selected)' = WillResolve(selected)
  BY <1>1 DEF Again, WillResolve
<1>3. ASSUME NEW i \in DOMAIN reports', reports'[i].result.cohort \in Cohorts \ {selected},
             reports'[i].generation = runtime.loaded, OnLms(runtime.place),
             ~Again, ~WillResolve(selected)
      PROVE  \E j \in DOMAIN reports' :
                j > i /\ reports'[j].result.cohort \in {selected, NoCohort}
  <2>1. reports'[i] = reports[i + 1] /\ i + 1 \in DOMAIN reports
    BY ReportTaken
  <2>2. PICK j \in DOMAIN reports : j > i + 1 /\ reports[j].result.cohort \in {selected, NoCohort}
    BY <1>3, <2>1 DEF CheckerInv, FollowedInv
  <2>3. j - 1 \in DOMAIN reports' /\ j - 1 > i /\ (j - 1) + 1 = j
    BY <2>2, ReportTaken
  <2>4. reports'[j - 1] = reports[j]
    BY <2>3, ReportTaken
  <2>5. QED
    BY <2>2, <2>3, <2>4
<1>4. page.step = "attendance" /\ page.cohort # selected => Again
  BY DEF CheckerInv, FollowedInv
<1>5. QED
  BY <1>1, <1>2, <1>3, <1>4 DEF FollowedInv

\* A report that is believed says what the app knows from now on.
LEMMA BelievedKeeps ==
    ASSUME CheckerInv, HandleReport, Believed(Head(reports))
    PROVE  CheckerInv'
<1> DEFINE report == reports[1]
<1>1. /\ OnLms(runtime.place) /\ report.generation # 0 /\ report.generation = runtime.loaded
      /\ view' = Applied(report)
      /\ runtime' = ReportedWith(runtime, report.generation,
                        IF report.result.error THEN "offline" ELSE "healthy")
  BY ReportTaken DEF HandleReport, Believed, ReportedWith
<1>2. /\ runtime' \in Runtimes /\ runtime'.reported = runtime.loaded /\ runtime'.refreshes = 0
      /\ runtime'.status = (IF report.result.error THEN "offline" ELSE "healthy")
      /\ runtime'.loaded = runtime.loaded /\ runtime'.place = runtime.place
      /\ runtime'.ready = runtime.ready
  <2>1. PICK generation \in Nat : generation = report.generation
    BY <1>1, Types
  <2>2. PICK status \in Statuses : status = IF report.result.error THEN "offline" ELSE "healthy"
    BY DEF Statuses
  <2>3. runtime' = ReportedWith(runtime, generation, status)
    BY <1>1, <2>1, <2>2
  <2>4. runtime \in Runtimes /\ RefreshLimit \in Nat
    BY Types
  <2>5. /\ runtime' \in Runtimes /\ runtime'.reported = generation /\ runtime'.refreshes = 0
        /\ runtime'.status = status /\ runtime'.loaded = runtime.loaded
        /\ runtime'.place = runtime.place /\ runtime'.ready = runtime.ready
    BY ONLY <2>3, <2>4, ReportedUpdate
  <2>6. QED
    BY <1>1, <2>1, <2>2, <2>5
<1>3. report \in Reports /\ report.result \in Results /\ report.page \in Nat
  BY ReportTaken DEF Reports
<1>4. view' \in Views
  <2>1. CASE report.result.error
    <3>1. PICK dday \in Cohorts \cup {NoCohort} :
             dday = IF report.result.cohort = NoCohort THEN view.dday ELSE report.result.cohort
      BY <1>3, Types DEF Views, Results
    <3>2. view' = [view EXCEPT !.dday = dday]
      BY <1>1, <2>1, <3>1 DEF Applied
    <3>3. QED
      BY <3>2, Types DEF Views
  <2>2. CASE ~report.result.error
    BY <1>1, <1>3, <2>2, Types DEF Applied, Views, Results
  <2>3. QED
    BY <2>1, <2>2
<1>5. CheckerTypeOK'
  <2>1. /\ runtime'.reported <= runtime'.loaded /\ runtime'.ready <= runtime'.loaded
        /\ runtime'.loaded <= page.number /\ page.generation <= runtime'.loaded
        /\ watched => runtime'.loaded > 0
    BY <1>2, Types DEF CheckerInv, CheckerTypeOK
  <2>2. UNCHANGED <<window, page, triggers, watched, signedIn, selected, selections>>
        /\ reports' \in Seq(Reports)
    BY ReportTaken
  <2>3. QED
    BY <1>2, <1>4, <2>1, <2>2 DEF CheckerInv, CheckerTypeOK, Views
<1>6. PageInv'
  BY <1>2, ReportTaken DEF CheckerInv, PageInv
<1>7. OrderInv'
  BY <1>2, ReportOrder
<1>8. HealthyInv'
  <2>1. SUFFICES ASSUME window.moving = "no"
        PROVE  /\ runtime.loaded > 0 /\ page.generation = runtime.loaded
               /\ page.step # "idle" => page.check = runtime.loaded
               /\ \A i \in DOMAIN reports' : reports'[i].generation = runtime.loaded
    BY <1>1, <1>2, ReportTaken DEF HealthyInv
  <2>2. /\ report.generation <= page.generation
        /\ page.step # "idle" => report.generation <= page.check
    BY <1>1, <2>1, ReportTaken DEF CheckerInv, OrderInv
  <2>3. page.generation = runtime.loaded
    BY <1>1, <2>2, Types DEF CheckerInv, CheckerTypeOK
  <2>4. page.step # "idle" => page.check = runtime.loaded
    BY <1>1, <2>2, <2>3, Types DEF CheckerInv, CheckerTypeOK
  <2>5. ASSUME NEW i \in DOMAIN reports' PROVE reports'[i].generation = runtime.loaded
    <3>1. reports'[i] = reports[i + 1] /\ i + 1 \in DOMAIN reports /\ 1 \in 1 .. (i + 1)
      BY ReportTaken
    <3>2. /\ report.generation <= reports[i + 1].generation
          /\ reports[i + 1].generation <= runtime.loaded
      BY <3>1 DEF CheckerInv, OrderInv
    <3>3. reports[i + 1].generation \in Nat
      BY <3>1, Types DEF Reports
    <3>4. QED
      BY <1>1, <3>1, <3>2, <3>3, Types
  <2>6. runtime.loaded > 0
    BY <1>1, Types
  <2>7. QED
    BY <2>3, <2>4, <2>5, <2>6
<1>9. FollowedInv'
  BY <1>2, ReportFollowed
<1>10. SelectionIsFollowed'
  <2>1. SUFFICES ASSUME view'.cohort \in Cohorts \ {selected}, ~view'.login,
                        runtime'.status = "healthy"
                 PROVE  OnItsWay(selected)'
    BY ReportTaken DEF SelectionIsFollowed
  <2>2. report.result.cohort \in Cohorts \ {selected}
    BY <1>1, <1>2, <2>1 DEF Applied
  <2>3. \/ Again \/ WillResolve(selected)
        \/ \E j \in DOMAIN reports : j > 1 /\ reports[j].result.cohort \in {selected, NoCohort}
    BY <1>1, <2>2, ReportTaken DEF CheckerInv, FollowedInv
  <2>4. CASE Again \/ WillResolve(selected)
    BY <2>4, ReportTaken DEF Again, WillResolve, OnItsWay
  <2>5. CASE \E j \in DOMAIN reports : j > 1 /\ reports[j].result.cohort \in {selected, NoCohort}
    <3>1. PICK j \in DOMAIN reports : j > 1 /\ reports[j].result.cohort \in {selected, NoCohort}
      BY <2>5
    <3>2. j - 1 \in DOMAIN reports' /\ (j - 1) + 1 = j
      BY <3>1, ReportTaken
    <3>3. reports'[j - 1] = reports[j]
      BY <3>2, ReportTaken
    <3>4. selected' = selected
      BY ReportTaken
    <3>5. QED
      BY <3>1, <3>2, <3>3, <3>4 DEF OnItsWay
  <2>6. QED
    BY <2>3, <2>4, <2>5
<1>11. SilenceIsNoticed'
  BY <1>2, Types DEF SilenceIsNoticed
<1>12. QED
  BY <1>5, <1>6, <1>7, <1>8, <1>9, <1>10, <1>11 DEF CheckerInv, CheckerGoesOn

\* A report that is not believed was of no page the app calls healthy.
LEMMA DisbelievedKeeps ==
    ASSUME CheckerInv, HandleReport, ~Believed(Head(reports))
    PROVE  CheckerInv'
<1>1. UNCHANGED <<runtime, view>>
  BY DEF HandleReport
<1>2. CheckerTypeOK' /\ PageInv' /\ SilenceIsNoticed'
  BY <1>1, ReportTaken DEF CheckerInv, CheckerGoesOn, CheckerTypeOK, PageInv, SilenceIsNoticed
<1>3. OrderInv' /\ FollowedInv'
  BY <1>1, ReportOrder, ReportFollowed
<1>4. HealthyInv'
  <2>1. (\A i \in DOMAIN reports : reports[i].generation = runtime.loaded)
          => \A i \in DOMAIN reports' : reports'[i].generation = runtime.loaded
    BY ReportTaken
  <2>2. QED
    BY <1>1, <2>1, ReportTaken DEF CheckerInv, HealthyInv
<1>5. SelectionIsFollowed'
  <2>1. SUFFICES ASSUME runtime.status = "healthy", window.moving = "no" PROVE FALSE
    BY <1>1, ReportTaken DEF SelectionIsFollowed, OnItsWay
  <2>2. /\ runtime.loaded > 0 /\ OnLms(runtime.place) /\ reports[1].generation = runtime.loaded
    BY <2>1, ReportTaken DEF CheckerInv, HealthyInv
  <2>3. Believed(Head(reports))
    BY <2>2, Types, ReportTaken DEF Believed
  <2>4. QED
    BY <2>3
<1>6. QED
  BY <1>2, <1>3, <1>4, <1>5 DEF CheckerInv, CheckerGoesOn

-----------------------------------------------------------------------------
(* The invariant and what follows from it.                                 *)

LEMMA InitInv ==
    ASSUME CheckerInit
    PROVE  CheckerInv
<1>1. runtime \in Runtimes /\ window \in Windows /\ view \in Views
  BY CheckerAssumption DEF CheckerInit, Runtimes, Windows, Views, Places, Cohorts
<1>2. /\ page \in Scripts /\ page.number = 1 /\ page.step = "idle" /\ page.check = 0
      /\ page.queued = 0 /\ page.generation = 0
  BY DEF CheckerInit, Script, Scripts
<1>3. triggers = <<>> /\ reports = <<>> /\ triggers \in Seq(Nat) /\ reports \in Seq(Reports)
  BY DEF CheckerInit
<1>4. runtime.loaded = 0 /\ runtime.reported = 0 /\ runtime.ready = 0
      /\ runtime.status = "loading" /\ window.moving = "loading"
  BY DEF CheckerInit
<1>5. CheckerTypeOK
  <2>1. selected \in Cohorts /\ signedIn \in BOOLEAN /\ watched = FALSE
    BY DEF CheckerInit, Cohorts
  <2>2. selections \in 0..MaxSelections
    BY CheckerAssumption DEF CheckerInit
  <2>3. /\ runtime.reported <= runtime.loaded /\ runtime.ready <= runtime.loaded
        /\ runtime.loaded <= page.number
        /\ page.check <= page.generation /\ page.generation <= runtime.loaded
    BY <1>2, <1>4
  <2>4. QED
    BY <1>1, <1>2, <1>3, <2>1, <2>2, <2>3 DEF CheckerTypeOK, Windows, Views
<1>6. PageInv
  BY <1>2, <1>4 DEF PageInv
<1>7. OrderInv
  BY <1>3 DEF OrderInv
<1>8. HealthyInv /\ FollowedInv /\ CheckerGoesOn
  BY <1>2, <1>3, <1>4
     DEF HealthyInv, FollowedInv, CheckerGoesOn, SelectionIsFollowed, SilenceIsNoticed
<1>9. QED
  BY <1>5, <1>6, <1>7, <1>8 DEF CheckerInv

LEMMA NextInv ==
    ASSUME CheckerInv, [CheckerNext]_checkerVars
    PROVE  CheckerInv'
<1>1. ASSUME NEW answered \in BOOLEAN, FetchCohorts(answered) \/ FetchAttendance(answered)
      PROVE  CheckerInv'
  BY <1>1, FetchCohortsKeeps, FetchAttendanceKeeps
<1>2. ASSUME NEW found \in BOOLEAN, ResolveCohort(found)
      PROVE  CheckerInv'
  BY <1>2, ResolveCohortKeeps
<1>3. ASSUME NEW place \in Places, Commit(place)
      PROVE  CheckerInv'
  BY <1>3, CommitKeeps
<1>4. ASSUME NEW cohort \in Cohorts, SelectCohort(cohort)
      PROVE  CheckerInv'
  BY <1>4, SelectCohortKeeps
<1>5. CASE Listen \/ CacheExpires
  BY <1>5, QuietKeeps
<1>6. CASE HearTrigger
  BY <1>6, HearTriggerKeeps
<1>7. CASE AtLogin
  BY <1>7, AtLoginKeeps
<1>8. CASE PageLoaded
  BY <1>8, PageLoadedKeeps
<1>9. CASE Watchdog
  BY <1>9, WatchdogKeeps
<1>10. CASE ScheduledRefresh \/ ShowWindow \/ CloseWindow \/ Navigate \/ SessionExpires
  BY <1>10, WindowActionsKeep
<1>11. CASE HandleReport
  BY <1>11, BelievedKeeps, DisbelievedKeeps
<1>12. CASE UNCHANGED checkerVars
  <2>1. CheckerTypeOK' /\ PageInv' /\ HealthyInv'
    BY <1>12 DEF CheckerInv, checkerVars, CheckerTypeOK, PageInv, HealthyInv
  <2>2. OrderInv'
    <3>1. page' = page /\ window' = window /\ runtime' = runtime
          /\ triggers' = triggers /\ reports' = reports
      BY <1>12 DEF checkerVars
    <3>2. QED
      BY <3>1 DEF CheckerInv, OrderInv
  <2>3. FollowedInv' /\ CheckerGoesOn'
    BY <1>12 DEF CheckerInv, checkerVars, FollowedInv, Again, WillResolve, CheckerGoesOn,
                 SelectionIsFollowed, SilenceIsNoticed, OnItsWay
  <2>4. QED
    BY <2>1, <2>2, <2>3 DEF CheckerInv
<1>13. QED
  BY <1>1, <1>2, <1>3, <1>4, <1>5, <1>6, <1>7, <1>8, <1>9, <1>10, <1>11, <1>12 DEF CheckerNext

\* The inductive invariant of the checker window: pages, triggers and reports come in one
\* order, and what a believed report leaves behind belongs to its page.
THEOREM Invariant ==
    CheckerSpec => []CheckerInv
  BY InitInv, NextInv, PTL DEF CheckerSpec

\* Types, and the order of generations: nothing is reported or ready that was not loaded, and
\* a check belongs to a trigger that was heard (checker.rs, checker.ts).
THEOREM TypeCorrect ==
    CheckerSpec => []CheckerTypeOK
<1>1. CheckerInv => CheckerTypeOK
  BY DEF CheckerInv
<1>2. QED
  BY <1>1, Invariant, PTL

\* A cohort that was chosen is looked up and a silent page is noticed, however the pages, the
\* triggers and the reports of before and after overlap.
THEOREM SelectionAndSilenceAreFollowed ==
    CheckerSpec => []CheckerGoesOn
<1>1. CheckerInv => CheckerGoesOn
  BY DEF CheckerInv
<1>2. QED
  BY <1>1, Invariant, PTL

\* Only a believed report changes what the app shows.
LEMMA OnlyBelieved ==
    ASSUME [CheckerNext]_checkerVars, view' # view
    PROVE  HandleReport /\ Believed(Head(reports))
<1>1. HandleReport
  BY DEF CheckerNext, checkerVars, FetchCohorts, FetchAttendance, ResolveCohort, Commit,
         SelectCohort, Listen, CacheExpires, HearTrigger, AtLogin, PageLoaded, Watchdog,
         ScheduledRefresh, ShowWindow, CloseWindow, Navigate, SessionExpires
<1>2. QED
  BY <1>1 DEF HandleReport

\* What the app shows anew was read by the document it loaded last or by the one that is
\* loading, never by one that is gone (handle_attendance_snapshot of checker.rs).
THEOREM ShownIsOfThisPage ==
    CheckerSpec => ShownByThisPage
<1>1. CheckerInv /\ [CheckerNext]_checkerVars => ShowsThisPage
  <2> SUFFICES ASSUME CheckerInv, [CheckerNext]_checkerVars, view'.page # view.page
               PROVE  view'.page >= runtime.loaded
    BY DEF ShowsThisPage
  <2>1. HandleReport /\ Believed(Head(reports))
    BY OnlyBelieved
  <2>2. /\ reports[1] \in Reports /\ 1 \in DOMAIN reports
        /\ reports[1].generation = runtime.loaded /\ view' = Applied(reports[1])
    BY <2>1, ReportTaken DEF HandleReport, Believed
  <2>3. view'.page = reports[1].page
    BY <2>2 DEF Applied
  <2>4. reports[1].generation <= reports[1].page /\ reports[1].page \in Nat
    BY <2>2 DEF CheckerInv, OrderInv, Reports
  <2>5. QED
    BY <2>2, <2>3, <2>4, Types
<1>2. QED
  BY <1>1, Invariant, PTL DEF CheckerSpec, ShownByThisPage
================================================================================
