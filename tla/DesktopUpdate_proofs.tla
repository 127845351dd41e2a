-------------------------- MODULE DesktopUpdate_proofs --------------------------
(***************************************************************************)
(* The update of the PC app, for any number of releases, starts and        *)
(* attempts: starts install a release a bounded number of times, whatever  *)
(* the coordinator says can be read by the window, a window that is        *)
(* blocked has a way on, and a mandatory block gives way to a newer        *)
(* release only.                                                           *)
(***************************************************************************)
EXTENDS DesktopUpdate, TLAPS

(* The attempts of a release are counted in its marker, and a release that *)
(* has no marker any more does not come back: the update server only goes  *)
(* on to newer ones.                                                       *)
CountedTries ==
    /\ marker # NoStatus =>
           /\ marker.version <= feed /\ tries[marker.version] <= marker.attempts
           /\ \A version \in Releases : version > marker.version => tries[version] = 0
    /\ marker = NoStatus =>
           \A version \in Releases : version > process.version => tries[version] = 0
    /\ AutoInstallsBounded

(* An installation under way, from its download on, is of the release the   *)
(* coordinator remembers and has marked; a start goes so far only with an   *)
(* attempt left.                                                           *)
UnderWay ==
    operation.step \in {"downloading", "verifying", "installing", "restarting"} =>
        /\ operation.version # 0
        /\ cached # NoStatus /\ cached.status.version = operation.version
        /\ marker # NoStatus /\ marker.version = operation.version
        /\ operation.kind = "startup" /\ operation.step \in {"downloading", "verifying"} =>
               marker.attempts < MaxAttempts

(* What is published and what is remembered are of one release, which is    *)
(* newer than the running one.                                             *)
OneRelease ==
    /\ installed = process.version
    /\ snapshot.version <= feed
    /\ snapshot.version = 0 \/ process.version < snapshot.version
    /\ cached # NoStatus => cached.status.version = snapshot.version

(* What the window knows, and what it is about to hear, was published in    *)
(* this order.                                                             *)
Told ==
    /\ data.status # NoStatus => Parses(data.status) /\ data.status.version <= snapshot.version
    /\ data.request.step = "answered" /\ data.request.answer # Failing =>
           /\ data.request.answer \in Statuses
           /\ data.request.answer.version <= snapshot.version
           /\ data.status # NoStatus => data.status.version <= data.request.answer.version

UpdateIInv == UpdateAppTypeOK /\ CountedTries /\ UnderWay /\ OneRelease /\ Told /\ EveryStatusParses

--------------------------------------------------------------------------------
(* Releases, statuses and markers. *)

LEMMA ReleasesAreNat == Releases \subseteq Nat /\ 0 \in Releases
BY DesktopUpdateAssumption DEF Releases

LEMMA NoStatusIsNone == NoStatus \notin Statuses /\ NoStatus \notin Marks /\ NoStatus \notin Checks
BY DesktopUpdateAssumption

(* A failing answer is no status the coordinator publishes.                 *)
LEMMA FailingIsNoStatus == Failing \notin Statuses
BY DEF Failing, Status, Statuses, Active

LEMMA StatusOfRelease ==
    ASSUME NEW status \in Statuses
    PROVE  status.version \in Nat /\ status.version <= status.version
<1>1. status.version \in Nat
  BY ReleasesAreNat DEF Statuses
<1>. QED BY <1>1

LEMMA NewStatusParses ==
    ASSUME NEW version \in Releases
    PROVE  NewStatus(version) \in Statuses /\ NewStatus(version).version = version
           /\ Parses(NewStatus(version))
BY DEF NewStatus, Status, Statuses, Active, Policy, Parses

LEMMA CheckingParses ==
    ASSUME NEW status \in Statuses
    PROVE  CheckingFrom(status) \in Statuses /\ CheckingFrom(status).version = status.version
           /\ Parses(CheckingFrom(status))
BY DEF CheckingFrom, Status, Statuses, Active, Parses

LEMMA StageParses ==
    ASSUME NEW status \in Statuses, status.version # 0,
           NEW stage \in {"downloading", "verifying", "installing", "restart-required"}
    PROVE  WithStage(status, stage) \in Statuses
           /\ WithStage(status, stage).version = status.version /\ Parses(WithStage(status, stage))
BY DEF WithStage, Status, Statuses, Active, Parses

LEMMA FailedParses ==
    ASSUME NEW status \in Statuses
    PROVE  Failed(status) \in Statuses /\ Failed(status).version = status.version
           /\ Parses(Failed(status))
BY DEF Failed, Statuses, Active, Parses

LEMMA FailedInstallParses ==
    ASSUME NEW status \in Statuses
    PROVE  [Failed(status) EXCEPT !.progress = TRUE] \in Statuses
           /\ [Failed(status) EXCEPT !.progress = TRUE].version = status.version
           /\ Parses([Failed(status) EXCEPT !.progress = TRUE])
BY DEF Failed, Statuses, Active, Parses

LEMMA InitialStatusParses ==
    Status("checking", 0, FALSE, FALSE) \in Statuses
    /\ Status("checking", 0, FALSE, FALSE).version = 0
    /\ Parses(Status("checking", 0, FALSE, FALSE))
BY ReleasesAreNat DEF Status, Statuses, Active, Parses

LEMMA MarkerForIsMark ==
    ASSUME NEW mark \in {NoStatus} \cup Marks, NEW version \in Releases
    PROVE  /\ MarkerFor(mark, version) \in Marks /\ MarkerFor(mark, version).version = version
           /\ mark # NoStatus /\ mark.version = version => MarkerFor(mark, version) = mark
           /\ ~ (mark # NoStatus /\ mark.version = version) => MarkerFor(mark, version).attempts = 0
BY DesktopUpdateAssumption DEF MarkerFor, Marks

LEMMA DeferringKeeps ==
    ASSUME NEW mark \in {NoStatus} \cup Marks
    PROVE  /\ mark = NoStatus => Deferring(mark) = NoStatus
           /\ mark # NoStatus => /\ Deferring(mark) \in Marks
                                 /\ Deferring(mark).version = mark.version
                                 /\ Deferring(mark).attempts = mark.attempts
BY DEF Deferring, Marks

LEMMA CanAttemptIsTruth == ASSUME NEW mark PROVE CanAttempt(mark) \in BOOLEAN
BY DEF CanAttempt

LEMMA LoadedMarker ==
    ASSUME NEW mark \in {NoStatus} \cup Marks, NEW version \in Releases
    PROVE  /\ LoadMarker(mark, version) \in {NoStatus} \cup Marks
           /\ LoadMarker(mark, version) # NoStatus =>
                  LoadMarker(mark, version) = mark /\ version < mark.version
           /\ LoadMarker(mark, version) = NoStatus /\ mark # NoStatus => mark.version <= version
<1>1. version \in Nat /\ (mark # NoStatus => mark.version \in Nat)
  BY ReleasesAreNat DEF Marks
<1>2. CASE mark = NoStatus \/ mark.version <= version
  BY <1>2 DEF LoadMarker
<1>3. CASE mark # NoStatus /\ ~ (mark.version <= version)
  BY <1>1, <1>3 DEF LoadMarker
<1>. QED BY <1>2, <1>3

LEMMA AttemptIsCounted ==
    ASSUME NEW mark \in Marks, mark.attempts < MaxAttempts
    PROVE  /\ RecordAttempt(mark, mark.version) \in Marks
           /\ RecordAttempt(mark, mark.version).version = mark.version
           /\ RecordAttempt(mark, mark.version).attempts = mark.attempts + 1
<1>1. MarkerFor(mark, mark.version) = mark
  BY NoStatusIsNone DEF MarkerFor
<1>2. mark.attempts + 1 \in 0..MaxAttempts
  BY DesktopUpdateAssumption DEF Marks
<1>. QED BY <1>1, <1>2 DEF RecordAttempt, Marks

(* The marker changes its note of a failure only.                          *)
LEMMA MarkerKeepsCount ==
    ASSUME CountedTries, NEW mark,
           marker = NoStatus => mark = NoStatus,
           marker # NoStatus => /\ mark # NoStatus /\ mark.version = marker.version
                                /\ mark.attempts = marker.attempts,
           marker' = mark, feed' = feed, tries' = tries, process'.version = process.version
    PROVE  CountedTries'
BY DEF CountedTries, AutoInstallsBounded

--------------------------------------------------------------------------------
(* How an operation ends. *)

LEMMA RequestTypes ==
    /\ NoRequest \in StatusQueries /\ NoRequest.step = "none"
    /\ [NoRequest EXCEPT !.step = "asked"] \in StatusQueries
    /\ [NoRequest EXCEPT !.step = "asked"].step = "asked"
BY DEF NoRequest, StatusQueries

LEMMA AnsweredType ==
    ASSUME NEW request \in StatusQueries, NEW answer \in {Failing} \cup Statuses, NEW asked \in BOOLEAN
    PROVE  /\ Answered(request, answer, asked) \in StatusQueries
           /\ Answered(request, answer, asked).step = "answered"
           /\ Answered(request, answer, asked).answer = answer
BY DEF Answered, StatusQueries

LEMMA MutationEndsType ==
    ASSUME install \in [gate : Mutations, notice : Mutations], NEW result \in Mutations,
           MutationEnds(result)
    PROVE  install' \in [gate : Mutations, notice : Mutations]
BY DEF MutationEnds

(* The window keeps its answer; its request is left, asked again or answered. *)
LEMMA EndingTells ==
    ASSUME UpdateAppTypeOK, NEW kind, NEW answer, NEW asked \in BOOLEAN, NEW ok \in BOOLEAN,
           ok /\ kind = "ui" => answer \in Statuses, Ending(kind, answer, asked, ok)
    PROVE  /\ data' \in [status : {NoStatus} \cup Statuses, isError : BOOLEAN, request : StatusQueries]
           /\ data'.status = data.status
           /\ \/ data'.request = data.request
              \/ data'.request.step = "asked"
              \/ data'.request.step = "answered" /\ data'.request.answer = Failing
              \/ ok /\ kind = "ui" /\ data'.request.step = "answered"
                 /\ data'.request.answer = answer
           /\ install' \in [gate : Mutations, notice : Mutations]
<1>. DEFINE told == IF ok THEN answer ELSE Failing
<1>1. install' \in [gate : Mutations, notice : Mutations]
  BY MutationEndsType DEF Ending, UpdateAppTypeOK, Mutations
<1>2. CASE kind = "ui"
  <2>1. told \in {Failing} \cup Statuses
    BY <1>2
  <2>2. PICK request : request = Answered(data.request, told, asked)
    OBVIOUS
  <2>3. request \in StatusQueries /\ request.step = "answered" /\ request.answer = told
    <3>1. data.request \in StatusQueries
      BY DEF UpdateAppTypeOK
    <3>. HIDE DEF told
    <3>. QED BY <2>1, <2>2, <3>1, AnsweredType
  <2>4. data' = [data EXCEPT !.request = request]
    BY <1>2, <2>2 DEF Ending
  <2>. QED BY <1>1, <1>2, <2>3, <2>4 DEF UpdateAppTypeOK
<1>3. CASE kind = "install" /\ data.request.step # "asked"
  <2>1. PICK request : request = [NoRequest EXCEPT !.step = "asked"]
    OBVIOUS
  <2>2. data' = [data EXCEPT !.request = request]
    BY <1>3, <2>1 DEF Ending
  <2>. QED BY <1>1, <2>1, <2>2, RequestTypes DEF UpdateAppTypeOK
<1>4. CASE kind # "ui" /\ ~ (kind = "install" /\ data.request.step # "asked")
  <2>1. data' = data
    BY <1>4 DEF Ending
  <2>. QED BY <1>1, <2>1 DEF UpdateAppTypeOK
<1>. QED BY <1>2, <1>3, <1>4

LEMMA ReleaseKeepsProcess ==
    ASSUME UpdateAppTypeOK, NEW session \in {"background", "foreground", "installing"},
           Release(session)
    PROVE  /\ process' \in [version : Releases, session : {"background", "foreground", "installing"},
                            starting : BOOLEAN, window : BOOLEAN, starts : 1..MaxStarts]
           /\ process'.version = process.version
<1>1. PICK starting \in BOOLEAN : starting = (process.starting /\ operation.kind # "startup")
  OBVIOUS
<1>2. process' = [process EXCEPT !.session = session, !.starting = starting]
  BY <1>1 DEF Release, UpdateAppTypeOK
<1>. QED BY <1>2 DEF UpdateAppTypeOK

(* The lock is free again, and nothing but the window's request and the     *)
(* session is touched.                                                     *)
LEMMA EndsType ==
    ASSUME UpdateAppTypeOK, NEW kind, NEW answer, NEW asked \in BOOLEAN, NEW ok \in BOOLEAN,
           ok /\ kind = "ui" => answer \in Statuses, Ends0(kind, answer, asked, ok)
    PROVE  /\ feed' = feed /\ installed' = installed /\ operation' = Free
           /\ deferred' = deferred /\ queue' \subseteq Kinds
           /\ process' \in [version : Releases, session : {"background", "foreground", "installing"},
                            starting : BOOLEAN, window : BOOLEAN, starts : 1..MaxStarts]
           /\ process'.version = process.version
<1>1. SessionAfter(kind) \in {"background", "foreground", "installing"}
  BY DEF SessionAfter, UpdateAppTypeOK
<1>2. queue' \subseteq Kinds
  BY DEF Ends0, QueueAfter, UpdateAppTypeOK, Kinds
<1>. QED BY <1>1, <1>2, ReleaseKeepsProcess DEF Ends0

(* What is left when an operation ends, with what it then published,        *)
(* remembered and marked.                                                  *)
LEMMA EndsInvariant ==
    ASSUME UpdateIInv, NEW kind, NEW answer, NEW asked \in BOOLEAN, NEW ok \in BOOLEAN,
           Ends0(kind, answer, asked, ok),
           NEW status \in Statuses, snapshot' = status, Parses(status),
           snapshot.version <= status.version, status.version <= feed,
           status.version = 0 \/ process.version < status.version,
           ok /\ kind = "ui" => answer = status,
           NEW check \in {NoStatus} \cup Checks, cached' = check,
           check # NoStatus => Parses(check.status) /\ check.status.version = status.version,
           marker' \in {NoStatus} \cup Marks, tries' = tries, CountedTries'
    PROVE  UpdateIInv'
<1>. USE DEF UpdateIInv
<1>1. ok /\ kind = "ui" => answer \in Statuses
  OBVIOUS
<1>2. /\ feed' = feed /\ installed' = installed /\ operation' = Free
      /\ deferred' = deferred /\ queue' \subseteq Kinds
      /\ process' \in [version : Releases, session : {"background", "foreground", "installing"},
                       starting : BOOLEAN, window : BOOLEAN, starts : 1..MaxStarts]
      /\ process'.version = process.version
  BY <1>1, EndsType
<1>3. Ending(kind, answer, asked, ok)
  BY DEF Ends0
<1>4. /\ data' \in [status : {NoStatus} \cup Statuses, isError : BOOLEAN, request : StatusQueries]
      /\ data'.status = data.status
      /\ \/ data'.request = data.request
         \/ data'.request.step = "asked"
         \/ data'.request.step = "answered" /\ data'.request.answer = Failing
         \/ ok /\ kind = "ui" /\ data'.request.step = "answered"
            /\ data'.request.answer = answer
      /\ install' \in [gate : Mutations, notice : Mutations]
  BY <1>1, <1>3, EndingTells
<1>5. UpdateAppTypeOK'
  BY <1>2, <1>4, ReleasesAreNat DEF UpdateAppTypeOK, Free
<1>6. UnderWay'
  BY <1>2 DEF UnderWay, Free
<1>7. OneRelease'
  BY <1>2 DEF OneRelease
<1>8. EveryStatusParses'
  BY <1>2 DEF EveryStatusParses, Parses, Policy
<1>9. Told'
  <2>1. /\ data.status # NoStatus => data.status.version \in Nat
        /\ snapshot.version \in Nat /\ status.version \in Nat
        /\ data.request.answer \in Statuses => data.request.answer.version \in Nat
    BY ReleasesAreNat DEF UpdateAppTypeOK, Statuses
  <2>2. data.status # NoStatus => Parses(data.status) /\ data.status.version <= status.version
    BY <2>1 DEF Told
  <2>3. data'.status # NoStatus => Parses(data.status)' /\ data'.status.version <= status.version
    BY <2>2, <1>2, <1>4 DEF Parses, Policy
  <2>4. ASSUME data'.request.step = "answered", data'.request.answer # Failing
        PROVE  /\ data'.request.answer \in Statuses
               /\ data'.request.answer.version <= status.version
               /\ data'.status # NoStatus => data'.status.version <= data'.request.answer.version
    <3>1. CASE data'.request = data.request
      BY <2>1, <2>4, <3>1, <1>4 DEF Told
    <3>2. CASE ok /\ kind = "ui" /\ data'.request.answer = answer
      BY <2>1, <2>2, <3>2, <1>4
    <3>. QED BY <2>4, <3>1, <3>2, <1>4
  <2>. QED BY <2>3, <2>4 DEF Told
<1>. QED BY <1>5, <1>6, <1>7, <1>8, <1>9

--------------------------------------------------------------------------------
(* The app comes up. *)

LEMMA UpdateInitIInv == UpdateAppInit => UpdateIInv
<1>. SUFFICES ASSUME UpdateAppInit PROVE UpdateIInv
  OBVIOUS
<1>1. feed \in Releases /\ feed \in Nat /\ 0 \in Releases
  BY ReleasesAreNat DEF UpdateAppInit
<1>2. marker \in {NoStatus} \cup Marks /\ (marker = NoStatus <=> feed = 0)
      /\ (marker # NoStatus => marker.version = feed /\ marker.attempts = 0)
  BY <1>1, MarkerForIsMark, NoStatusIsNone DEF UpdateAppInit
<1>3. snapshot \in Statuses /\ Parses(snapshot) /\ snapshot.version = feed
  BY <1>1, NewStatusParses, InitialStatusParses DEF UpdateAppInit
<1>4. /\ process \in [version : Releases, session : {"background", "foreground", "installing"},
                      starting : BOOLEAN, window : BOOLEAN, starts : 1..MaxStarts]
      /\ queue \subseteq Kinds
  <2>1. CanAttempt(marker) \in BOOLEAN /\ 1 \in 1..MaxStarts
    BY CanAttemptIsTruth, DesktopUpdateAssumption
  <2>. QED BY <1>1, <2>1 DEF UpdateAppInit, Kinds
<1>5. UpdateAppTypeOK
  <2>1. /\ operation \in [kind : {"none"} \cup Kinds, version : Releases,
            step : {"none", "asking", "downloading", "verifying", "installing", "restarting"}]
        /\ cached \in {NoStatus} \cup Checks
    BY <1>1 DEF UpdateAppInit, Free
  <2>2. data \in [status : {NoStatus} \cup Statuses, isError : BOOLEAN, request : StatusQueries]
        /\ install \in [gate : Mutations, notice : Mutations]
    BY RequestTypes DEF UpdateAppInit, WindowInit, Mutations
  <2>3. deferred \subseteq Releases /\ tries \in [Releases -> Nat] /\ installed \in Releases
    BY <1>1 DEF UpdateAppInit
  <2>. QED BY <1>1, <1>2, <1>3, <1>4, <2>1, <2>2, <2>3 DEF UpdateAppTypeOK
<1>6. CountedTries
  BY <1>1, <1>2, DesktopUpdateAssumption DEF UpdateAppInit, CountedTries, AutoInstallsBounded
<1>7. UnderWay
  BY DEF UpdateAppInit, UnderWay, Free
<1>8. OneRelease
  <2>1. installed = 0 /\ process.version = 0 /\ cached = NoStatus
    BY DEF UpdateAppInit
  <2>. QED BY <1>1, <1>3, <2>1 DEF OneRelease
<1>9. Told
  BY RequestTypes DEF UpdateAppInit, Told, WindowInit
<1>10. EveryStatusParses
  BY <1>3 DEF UpdateAppInit, EveryStatusParses
<1>. QED BY <1>5, <1>6, <1>7, <1>8, <1>9, <1>10 DEF UpdateIInv

(* A restart reads the marker, and drops it when its release is the one     *)
(* that runs.                                                              *)
LEMMA RestartInvariant ==
    ASSUME UpdateIInv, NEW version \in Releases, marker = NoStatus => process.version <= version,
           Restart(version)
    PROVE  UpdateIInv'
<1>. DEFINE mark == LoadMarker(marker, version)
<1>1. /\ UpdateAppTypeOK /\ version \in Nat /\ process.version \in Nat /\ feed \in Nat
      /\ Releases \subseteq Nat
  BY ReleasesAreNat DEF UpdateIInv, UpdateAppTypeOK
<1>2. /\ mark \in {NoStatus} \cup Marks
      /\ mark # NoStatus => mark = marker /\ marker # NoStatus /\ version < marker.version
      /\ mark = NoStatus => marker = NoStatus \/ marker.version <= version
      /\ marker # NoStatus => marker.version \in Nat
  <2>1. marker \in {NoStatus} \cup Marks
    BY <1>1 DEF UpdateAppTypeOK
  <2>2. marker # NoStatus => marker.version \in Nat
    BY <1>1, <2>1 DEF Marks
  <2>. QED BY <2>1, <2>2, LoadedMarker
<1>. HIDE DEF mark
<1>3. /\ marker' = mark /\ feed' = feed /\ tries' = tries /\ installed' = version
      /\ process'.version = version /\ operation' = Free /\ cached' = NoStatus
      /\ data' = [status |-> NoStatus, isError |-> FALSE, request |-> NoRequest]
      /\ snapshot' = IF mark = NoStatus THEN Status("checking", 0, FALSE, FALSE)
                     ELSE [stage |-> IF mark.version \notin Prereleases /\
                                        Minor(mark.version) > Minor(version)
                                     THEN "mandatory" ELSE "optional",
                           version |-> mark.version, progress |-> FALSE, error |-> FALSE]
  BY DEF Restart, Started, mark
<1>4. snapshot' \in Statuses /\ Parses(snapshot)'
      /\ snapshot'.version = (IF mark = NoStatus THEN 0 ELSE mark.version)
  <2>1. CASE mark = NoStatus
    BY <2>1, <1>3, InitialStatusParses DEF Parses, Status
  <2>2. CASE mark # NoStatus
    <3>1. mark \in Marks /\ mark.version \in Releases /\ mark.version # 0
      BY <2>2, <1>1, <1>2 DEF Marks
    <3>. QED BY <2>2, <3>1, <1>3 DEF Parses, Policy, Statuses
  <2>. QED BY <2>1, <2>2
<1>5. UpdateAppTypeOK'
  <2>1. CanAttempt(mark) \in BOOLEAN
    BY CanAttemptIsTruth
  <2>2. process.starts + 1 \in 1..MaxStarts
    BY <1>1, DesktopUpdateAssumption DEF Restart, UpdateAppTypeOK
  <2>3. process' \in [version : Releases, session : {"background", "foreground", "installing"},
                      starting : BOOLEAN, window : BOOLEAN, starts : 1..MaxStarts]
    BY <2>1, <2>2 DEF Restart, Started, mark
  <2>4. /\ queue' \subseteq Kinds /\ deferred' \subseteq Releases
        /\ install' \in [gate : Mutations, notice : Mutations]
    BY DEF Restart, Started, Kinds, Mutations
  <2>5. data' \in [status : {NoStatus} \cup Statuses, isError : BOOLEAN, request : StatusQueries]
    BY <1>3, RequestTypes
  <2>6. operation' \in [kind : {"none"} \cup Kinds, version : Releases,
            step : {"none", "asking", "downloading", "verifying", "installing", "restarting"}]
    BY <1>3, ReleasesAreNat DEF Free
  <2>7. feed' \in Releases /\ installed' \in Releases /\ tries' \in [Releases -> Nat]
        /\ marker' \in {NoStatus} \cup Marks /\ cached' \in {NoStatus} \cup Checks
    BY <1>1, <1>2, <1>3 DEF UpdateAppTypeOK
  <2>. QED BY <1>4, <2>3, <2>4, <2>5, <2>6, <2>7 DEF UpdateAppTypeOK
<1>6. CountedTries'
  BY <1>1, <1>2, <1>3 DEF UpdateIInv, CountedTries, AutoInstallsBounded
<1>7. UnderWay' /\ Told'
  BY <1>3, RequestTypes DEF UnderWay, Told, Free
<1>8. OneRelease'
  <2>1. marker # NoStatus => marker.version <= feed
    BY DEF UpdateIInv, CountedTries
  <2>2. CASE mark = NoStatus
    <3>1. snapshot'.version = 0 /\ 0 <= feed
      BY <1>1, <1>4, <2>2
    <3>2. installed' = version /\ process'.version = version /\ feed' = feed /\ cached' = NoStatus
      BY <1>3
    <3>. QED BY <3>1, <3>2 DEF OneRelease
  <2>3. CASE mark # NoStatus
    <3>1. snapshot'.version = marker.version /\ version < marker.version /\ marker.version <= feed
      BY <1>2, <1>4, <2>1, <2>3
    <3>. QED BY <1>3, <3>1 DEF OneRelease
  <2>. QED BY <2>2, <2>3
<1>9. EveryStatusParses'
  BY <1>3, <1>4 DEF EveryStatusParses
<1>. QED BY <1>5, <1>6, <1>7, <1>8, <1>9 DEF UpdateIInv

LEMMA EndsOfApp ==
    ASSUME UpdateIInv, Ends
    PROVE  UpdateIInv'
<1>1. /\ installed \in Releases /\ operation.version \in Releases
      /\ installed = process.version /\ process.version <= installed
  BY ReleasesAreNat DEF UpdateIInv, UpdateAppTypeOK, OneRelease
<1>2. operation.step \in {"installing", "restarting"} => marker # NoStatus
  BY DEF UpdateIInv, UnderWay
<1>. QED BY <1>1, <1>2, RestartInvariant DEF Ends

--------------------------------------------------------------------------------
(* The coordinator's operations. *)

LEMMA FeedChangesInvariant ==
    ASSUME UpdateIInv, FeedChanges
    PROVE  UpdateIInv'
<1>. USE DEF UpdateIInv
<1>1. /\ feed' \in Releases /\ feed \in Nat /\ feed' = feed + 1
  BY ReleasesAreNat, DesktopUpdateAssumption DEF FeedChanges, UpdateAppTypeOK, Releases
<1>2. /\ UNCHANGED <<installed, marker, process, operation, queue, cached, snapshot,
                     data, install, deferred, tries>>
  BY DEF FeedChanges
<1>3. snapshot.version \in Nat /\ (marker # NoStatus => marker.version \in Nat)
  BY ReleasesAreNat DEF UpdateAppTypeOK, Statuses, Marks
<1>4. UpdateAppTypeOK'
  BY <1>1, <1>2 DEF UpdateAppTypeOK
<1>5. CountedTries'
  BY <1>1, <1>2, <1>3 DEF CountedTries, AutoInstallsBounded
<1>6. UnderWay'
  BY <1>2 DEF UnderWay
<1>7. OneRelease'
  BY <1>1, <1>2, <1>3 DEF OneRelease
<1>8. Told' /\ EveryStatusParses'
  BY <1>2 DEF Told, EveryStatusParses, Parses, Policy
<1>. QED BY <1>4, <1>5, <1>6, <1>7, <1>8

LEMMA BackoffPassesInvariant ==
    ASSUME UpdateIInv, BackoffPasses
    PROVE  UpdateIInv'
<1>. USE DEF UpdateIInv
<1>1. PICK mark : mark = [marker EXCEPT !.deferred = FALSE]
  OBVIOUS
<1>2. /\ marker # NoStatus /\ marker' = mark
      /\ UNCHANGED <<feed, installed, process, operation, queue, cached, snapshot,
                     data, install, deferred, tries>>
  BY <1>1 DEF BackoffPasses
<1>3. /\ marker \in Marks /\ mark \in Marks
      /\ mark.version = marker.version /\ mark.attempts = marker.attempts
  BY <1>1, <1>2 DEF UpdateAppTypeOK, Marks
<1>4. mark # NoStatus
  BY <1>3, NoStatusIsNone
<1>5. UpdateAppTypeOK'
  BY <1>2, <1>3 DEF UpdateAppTypeOK
<1>6. CountedTries'
  BY <1>2, <1>3, <1>4, MarkerKeepsCount
<1>7. UnderWay'
  BY <1>2, <1>3, <1>4 DEF UnderWay
<1>8. OneRelease' /\ Told' /\ EveryStatusParses'
  BY <1>2 DEF OneRelease, Told, EveryStatusParses, Parses, Policy
<1>. QED BY <1>5, <1>6, <1>7, <1>8

(* Steps after which the same release is published, remembered and marked,  *)
(* with the lock where it was.                                             *)
LEMMA SameReleaseInvariant ==
    ASSUME UpdateIInv, UpdateAppTypeOK', NEW status \in Statuses, snapshot' = status,
           Parses(status), status.version = snapshot.version,
           NEW check, cached' = check, cached = NoStatus => check = NoStatus,
           cached # NoStatus => /\ check # NoStatus /\ Parses(check.status)
                                /\ check.status.version = cached.status.version,
           UNCHANGED <<feed, installed, data>>, process'.version = process.version,
           UnderWay', CountedTries'
    PROVE  UpdateIInv'
<1>. USE DEF UpdateIInv
<1>1. OneRelease'
  BY DEF OneRelease
<1>2. Told'
  BY DEF Told, Parses, Policy
<1>3. EveryStatusParses'
  BY DEF EveryStatusParses, Parses, Policy
<1>. QED BY <1>1, <1>2, <1>3

LEMMA TakeLockInvariant ==
    ASSUME UpdateIInv, NEW kind \in Kinds, TakeLock(kind)
    PROVE  UpdateIInv'
<1>. USE DEF UpdateIInv
<1>1. /\ UNCHANGED <<feed, installed, marker, cached, install, deferred, tries>>
      /\ queue' \subseteq Kinds /\ operation = Free
  BY DEF TakeLock, UpdateAppTypeOK
<1>2. CASE FromCache(kind)
  <2>1. /\ cached # NoStatus /\ cached \in Checks /\ snapshot' = cached.status
        /\ UNCHANGED <<operation, process>>
        /\ data' = IF kind = "ui"
                   THEN [data EXCEPT !.request = Answered(@, cached.status, FALSE)] ELSE data
    BY <1>2 DEF TakeLock, FromCache, UpdateAppTypeOK
  <2>2. PICK status : status = cached.status
    OBVIOUS
  <2>3. status \in Statuses /\ Parses(status) /\ status.version = snapshot.version
    BY <2>1, <2>2 DEF OneRelease, EveryStatusParses, Checks
  <2>4. PICK request : request = Answered(data.request, status, FALSE)
    OBVIOUS
  <2>5. request \in StatusQueries /\ request.step = "answered" /\ request.answer = status
    <3>1. data.request \in StatusQueries
      BY DEF UpdateAppTypeOK
    <3>. QED BY <2>3, <2>4, <3>1, AnsweredType
  <2>6. data' = [data EXCEPT !.request = request] \/ data' = data
    BY <2>1, <2>2, <2>4
  <2>7. data' \in [status : {NoStatus} \cup Statuses, isError : BOOLEAN, request : StatusQueries]
        /\ data'.status = data.status /\ (data'.request = request \/ data' = data)
    BY <2>5, <2>6 DEF UpdateAppTypeOK
  <2>8. UpdateAppTypeOK'
    BY <1>1, <2>1, <2>2, <2>3, <2>7 DEF UpdateAppTypeOK
  <2>9. CountedTries' /\ UnderWay'
    BY <1>1, <2>1 DEF CountedTries, AutoInstallsBounded, UnderWay
  <2>10. OneRelease' /\ EveryStatusParses'
    BY <1>1, <2>1, <2>2, <2>3 DEF OneRelease, EveryStatusParses, Parses, Policy
  <2>11. Told'
    <3>1. CASE data' = data
      BY <2>1, <2>2, <2>3, <3>1 DEF Told, Parses, Policy
    <3>2. CASE data'.request = request
      <4>1. status.version <= status.version
        BY <2>3, StatusOfRelease
      <4>2. data'.status # NoStatus =>
                Parses(data.status)' /\ data'.status.version <= status.version
        BY <2>1, <2>3, <2>7 DEF Told, Parses, Policy
      <4>. QED BY <2>1, <2>2, <2>3, <2>5, <3>2, <4>1, <4>2 DEF Told
    <3>. QED BY <2>7, <3>1, <3>2
  <2>. QED BY <2>8, <2>9, <2>10, <2>11
<1>3. CASE ~FromCache(kind) /\ kind = "startup" /\ ~CanAttempt(marker)
  <2>1. /\ process' = [process EXCEPT !.starting = FALSE]
        /\ UNCHANGED <<operation, snapshot, data>>
    BY <1>3 DEF TakeLock
  <2>2. process' \in [version : Releases, session : {"background", "foreground", "installing"},
                      starting : BOOLEAN, window : BOOLEAN, starts : 1..MaxStarts]
        /\ process'.version = process.version
    BY <2>1 DEF UpdateAppTypeOK
  <2>3. UpdateAppTypeOK'
    BY <1>1, <2>1, <2>2 DEF UpdateAppTypeOK
  <2>4. CountedTries' /\ UnderWay'
    BY <1>1, <2>1, <2>2 DEF CountedTries, AutoInstallsBounded, UnderWay
  <2>5. snapshot \in Statuses /\ Parses(snapshot) /\ (cached # NoStatus => Parses(cached.status))
    BY DEF UpdateAppTypeOK, EveryStatusParses
  <2>. QED BY <1>1, <2>1, <2>2, <2>3, <2>4, <2>5, SameReleaseInvariant
<1>4. CASE ~FromCache(kind) /\ ~ (kind = "startup" /\ ~CanAttempt(marker))
  <2>1. /\ snapshot' = CheckingFrom(snapshot)
        /\ operation' = [kind |-> kind, step |-> "asking", version |-> 0]
        /\ UNCHANGED <<data, process>>
    BY <1>4 DEF TakeLock
  <2>2. snapshot' \in Statuses /\ Parses(CheckingFrom(snapshot))
        /\ CheckingFrom(snapshot).version = snapshot.version
    BY <2>1, CheckingParses DEF UpdateAppTypeOK
  <2>3. UpdateAppTypeOK'
    BY <1>1, <2>1, <2>2, ReleasesAreNat DEF UpdateAppTypeOK
  <2>4. CountedTries' /\ UnderWay'
    BY <1>1, <2>1 DEF CountedTries, AutoInstallsBounded, UnderWay
  <2>5. cached # NoStatus => Parses(cached.status)
    BY DEF EveryStatusParses
  <2>. QED BY <1>1, <2>1, <2>2, <2>3, <2>4, <2>5, SameReleaseInvariant
<1>. QED BY <1>2, <1>3, <1>4

(* A failure is published and, if a release is known, remembered.           *)
LEMMA FailureKeepsRelease ==
    ASSUME UpdateIInv, NEW status \in Statuses, status.version = snapshot.version, Parses(status),
           NEW check, check = (IF cached = NoStatus THEN cached ELSE [cached EXCEPT !.status = status])
    PROVE  /\ check \in {NoStatus} \cup Checks
           /\ check = NoStatus <=> cached = NoStatus
           /\ check # NoStatus => check.status = status
<1>1. CASE cached = NoStatus
  BY <1>1
<1>2. CASE cached # NoStatus
  <2>1. check \in Checks /\ check.status = status
    BY <1>2 DEF UpdateIInv, UpdateAppTypeOK, Checks
  <2>. QED BY <1>2, <2>1, NoStatusIsNone
<1>. QED BY <1>1, <1>2

LEMMA SnapshotBounds ==
    ASSUME UpdateIInv
    PROVE  /\ snapshot.version <= snapshot.version /\ snapshot.version <= feed
           /\ snapshot.version = 0 \/ process.version < snapshot.version
BY ReleasesAreNat DEF UpdateIInv, OneRelease, UpdateAppTypeOK, Statuses

LEMMA CheckFailsInvariant ==
    ASSUME UpdateIInv, CheckFails
    PROVE  UpdateIInv'
<1>. DEFINE status == IF cached # NoStatus THEN Failed(cached.status)
                      ELSE Failed(CheckingFrom(snapshot))
<1>1. /\ snapshot' = status /\ marker' = Deferring(marker) /\ tries' = tries
      /\ Ends0(operation.kind, NoStatus, TRUE, FALSE)
      /\ cached' = IF cached # NoStatus THEN [cached EXCEPT !.status = status]
                   ELSE IF status.version # 0 THEN [status |-> status, update |-> 0] ELSE cached
  BY DEF CheckFails, RememberFailure
<1>2. status \in Statuses /\ Parses(status) /\ status.version = snapshot.version
  <2>1. CASE cached # NoStatus
    <3>1. cached.status \in Statuses /\ cached.status.version = snapshot.version
      BY <2>1 DEF UpdateIInv, UpdateAppTypeOK, Checks, OneRelease
    <3>. QED BY <2>1, <3>1, FailedParses
  <2>2. CASE cached = NoStatus
    <3>1. CheckingFrom(snapshot) \in Statuses
          /\ CheckingFrom(snapshot).version = snapshot.version
      BY CheckingParses DEF UpdateIInv, UpdateAppTypeOK
    <3>. QED BY <2>2, <3>1, FailedParses
  <2>. QED BY <2>1, <2>2
<1>. HIDE DEF status
<1>3. cached' \in {NoStatus} \cup Checks /\ (cached' # NoStatus => cached'.status = status)
  <2>1. CASE cached # NoStatus
    BY <1>1, <1>2, <2>1, FailureKeepsRelease
  <2>2. CASE cached = NoStatus
    BY <1>1, <1>2, <2>2, ReleasesAreNat DEF Checks
  <2>. QED BY <2>1, <2>2
<1>4. /\ marker' \in {NoStatus} \cup Marks
      /\ marker = NoStatus => marker' = NoStatus
      /\ marker # NoStatus => /\ marker' # NoStatus /\ marker'.version = marker.version
                              /\ marker'.attempts = marker.attempts
  BY <1>1, DeferringKeeps, NoStatusIsNone DEF UpdateIInv, UpdateAppTypeOK
<1>5. feed' = feed /\ process'.version = process.version
  BY <1>1, EndsType DEF UpdateIInv
<1>6. CountedTries'
  BY <1>1, <1>4, <1>5, MarkerKeepsCount DEF UpdateIInv
<1>7. PICK check : check = cached'
  OBVIOUS
<1>. QED BY <1>1, <1>2, <1>3, <1>4, <1>6, <1>7, SnapshotBounds, EndsInvariant

LEMMA DownloadFailsInvariant ==
    ASSUME UpdateIInv, DownloadFails
    PROVE  UpdateIInv'
<1>1. PICK status : status = Failed(snapshot)
  OBVIOUS
<1>2. PICK check : check = IF cached = NoStatus THEN cached ELSE [cached EXCEPT !.status = status]
  OBVIOUS
<1>3. /\ snapshot' = status /\ marker' = Deferring(marker) /\ tries' = tries /\ cached' = check
      /\ Ends0(operation.kind, NoStatus, TRUE, FALSE)
  BY <1>1, <1>2 DEF DownloadFails, Remember
<1>4. status \in Statuses /\ Parses(status) /\ status.version = snapshot.version
  BY <1>1, FailedParses DEF UpdateIInv, UpdateAppTypeOK
<1>5. check \in {NoStatus} \cup Checks /\ (check # NoStatus => check.status = status)
  BY <1>2, <1>4, FailureKeepsRelease
<1>6. /\ marker' \in {NoStatus} \cup Marks
      /\ marker = NoStatus => marker' = NoStatus
      /\ marker # NoStatus => /\ marker' # NoStatus /\ marker'.version = marker.version
                              /\ marker'.attempts = marker.attempts
  BY <1>3, DeferringKeeps, NoStatusIsNone DEF UpdateIInv, UpdateAppTypeOK
<1>7. feed' = feed /\ process'.version = process.version
  BY <1>3, EndsType DEF UpdateIInv
<1>8. CountedTries'
  BY <1>3, <1>6, <1>7, MarkerKeepsCount DEF UpdateIInv
<1>. QED BY <1>3, <1>4, <1>5, <1>6, <1>8, SnapshotBounds, EndsInvariant

(* The update server's answer: a release at least as new as the one known,  *)
(* with a marker that counts its attempts.                                 *)
LEMMA CheckedRelease ==
    ASSUME UpdateIInv, NEW version, version = (IF feed > process.version THEN feed ELSE 0),
           NEW mark, mark = (IF version = 0 THEN NoStatus ELSE MarkerFor(marker, version))
    PROVE  /\ version \in Releases /\ snapshot.version <= version /\ version <= feed
           /\ version = 0 \/ process.version < version
           /\ mark \in {NoStatus} \cup Marks
           /\ version # 0 => mark # NoStatus /\ mark.version = version
<1>1. /\ feed \in Releases /\ process.version \in Nat /\ feed \in Nat /\ snapshot.version \in Nat
      /\ marker \in {NoStatus} \cup Marks
  BY ReleasesAreNat, StatusOfRelease DEF UpdateIInv, UpdateAppTypeOK
<1>2. version \in Releases /\ version <= feed /\ (version = 0 \/ process.version < version)
  BY <1>1, ReleasesAreNat
<1>3. snapshot.version <= version
  BY <1>1, SnapshotBounds
<1>4. mark \in {NoStatus} \cup Marks /\ (version # 0 => mark # NoStatus /\ mark.version = version)
  BY <1>1, <1>2, MarkerForIsMark, NoStatusIsNone
<1>. QED BY <1>2, <1>3, <1>4

LEMMA CheckKeepsCount ==
    ASSUME UpdateIInv, NEW version, version = (IF feed > process.version THEN feed ELSE 0),
           NEW mark, mark = (IF version = 0 THEN NoStatus ELSE MarkerFor(marker, version)),
           marker' = mark, feed' = feed, tries' = tries, process'.version = process.version
    PROVE  CountedTries'
<1>1. /\ feed \in Releases /\ process.version \in Nat /\ feed \in Nat /\ Releases \subseteq Nat
      /\ marker \in {NoStatus} \cup Marks /\ (marker # NoStatus => marker.version \in Nat)
      /\ CountedTries
  BY ReleasesAreNat DEF UpdateIInv, UpdateAppTypeOK, Marks
<1>2. CASE version = 0
  <2>1. feed <= process.version /\ mark = NoStatus
    BY <1>1, <1>2
  <2>2. ASSUME NEW v \in Releases, v > process.version PROVE tries[v] = 0
    BY <1>1, <2>1, <2>2 DEF CountedTries
  <2>. QED BY <1>1, <2>1, <2>2 DEF CountedTries, AutoInstallsBounded
<1>3. CASE version # 0
  <2>1. version = feed /\ process.version < feed /\ mark \in Marks /\ mark # NoStatus
        /\ mark.version = feed
    BY <1>1, <1>3, CheckedRelease
  <2>2. CASE marker # NoStatus /\ marker.version = feed
    <3>1. mark = marker
      BY <1>1, <1>3, <2>1, <2>2, MarkerForIsMark
    <3>. QED BY <1>1, <3>1 DEF CountedTries, AutoInstallsBounded
  <2>3. CASE ~ (marker # NoStatus /\ marker.version = feed)
    <3>1. mark.attempts = 0
      BY <1>1, <1>3, <2>1, <2>3, MarkerForIsMark
    <3>2. ASSUME NEW v \in Releases, v >= feed PROVE tries[v] = 0
      BY <1>1, <2>1, <2>3, <3>2 DEF CountedTries
    <3>3. tries[feed] = 0
      BY <1>1, <3>2
    <3>. QED BY <1>1, <2>1, <3>1, <3>2, <3>3 DEF CountedTries, AutoInstallsBounded
  <2>. QED BY <2>2, <2>3
<1>. QED BY <1>2, <1>3

LEMMA CheckAnswersInvariant ==
    ASSUME UpdateIInv, CheckAnswers
    PROVE  UpdateIInv'
<1>1. PICK version : version = IF feed > process.version THEN feed ELSE 0
  OBVIOUS
<1>2. PICK mark : mark = IF version = 0 THEN NoStatus ELSE MarkerFor(marker, version)
  OBVIOUS
<1>3. PICK status : status = NewStatus(version)
  OBVIOUS
<1>4. PICK check : check = [status |-> status, update |-> version]
  OBVIOUS
<1>5. /\ version \in Releases /\ snapshot.version <= version /\ version <= feed
      /\ version = 0 \/ process.version < version
      /\ mark \in {NoStatus} \cup Marks
      /\ version # 0 => mark # NoStatus /\ mark.version = version
  BY <1>1, <1>2, CheckedRelease
<1>6. status \in Statuses /\ Parses(status) /\ status.version = version
  BY <1>3, <1>5, NewStatusParses
<1>7. check \in Checks /\ check.status = status /\ check # NoStatus
  BY <1>4, <1>5, <1>6, NoStatusIsNone DEF Checks
<1>8. marker' = mark /\ cached' = check /\ tries' = tries /\ operation.step = "asking"
  BY <1>1, <1>2, <1>3, <1>4 DEF CheckAnswers
<1>9. CASE Goes(operation.kind, mark, version)
  <2>1. /\ operation' = [operation EXCEPT !.step = "downloading", !.version = version]
        /\ snapshot' = WithStage(status, "downloading")
        /\ UNCHANGED <<feed, installed, process, queue, data, install, deferred>>
    BY <1>1, <1>2, <1>3, <1>9 DEF CheckAnswers
  <2>2. version # 0 /\ (operation.kind = "startup" => mark.attempts < MaxAttempts)
    BY <1>9 DEF Goes, CanAttempt
  <2>3. PICK next : next = WithStage(status, "downloading")
    OBVIOUS
  <2>4. next \in Statuses /\ Parses(next) /\ next.version = version
    BY <1>6, <2>2, <2>3, StageParses
  <2>5. operation' \in [kind : {"none"} \cup Kinds, version : Releases,
             step : {"none", "asking", "downloading", "verifying", "installing", "restarting"}]
        /\ operation'.step = "downloading" /\ operation'.version = version
        /\ operation'.kind = operation.kind
    BY <1>5, <2>1 DEF UpdateIInv, UpdateAppTypeOK
  <2>6. UpdateAppTypeOK'
    BY <1>5, <1>7, <1>8, <2>1, <2>3, <2>4, <2>5 DEF UpdateIInv, UpdateAppTypeOK
  <2>7. CountedTries'
    BY <1>1, <1>2, <1>8, <2>1, CheckKeepsCount
  <2>8. UnderWay'
    BY <1>5, <1>6, <1>7, <1>8, <2>2, <2>5 DEF UnderWay
  <2>9. OneRelease'
    BY <1>5, <1>6, <1>7, <1>8, <2>1, <2>3, <2>4 DEF UpdateIInv, OneRelease
  <2>10. EveryStatusParses'
    BY <1>6, <1>7, <1>8, <2>1, <2>3, <2>4 DEF EveryStatusParses, Parses, Policy
  <2>11. Told'
    <3>1. /\ snapshot.version \in Nat /\ version \in Nat
          /\ data.status # NoStatus => data.status.version \in Nat
          /\ data.request.answer \in Statuses => data.request.answer.version \in Nat
      BY <1>5, ReleasesAreNat, StatusOfRelease DEF UpdateIInv, UpdateAppTypeOK
    <3>2. snapshot'.version = version
      BY <2>1, <2>3, <2>4
    <3>. QED BY <1>5, <2>1, <3>1, <3>2 DEF UpdateIInv, Told, Parses, Policy
  <2>. QED BY <2>6, <2>7, <2>8, <2>9, <2>10, <2>11 DEF UpdateIInv
<1>10. CASE ~Goes(operation.kind, mark, version)
  <2>1. snapshot' = status /\ Ends0(operation.kind, status, TRUE, TRUE)
    BY <1>1, <1>2, <1>3, <1>10 DEF CheckAnswers
  <2>2. feed' = feed /\ process'.version = process.version
    BY <1>6, <2>1, EndsType DEF UpdateIInv
  <2>3. CountedTries'
    BY <1>1, <1>2, <1>8, <2>2, CheckKeepsCount
  <2>4. marker' \in {NoStatus} \cup Marks
    BY <1>5, <1>8
  <2>. QED BY <1>5, <1>6, <1>7, <1>8, <2>1, <2>3, <2>4, EndsInvariant
<1>. QED BY <1>9, <1>10

(* A stage of the installation under way.                                  *)
LEMMA StageOfRelease ==
    ASSUME UpdateIInv, operation.step \in {"downloading", "verifying", "installing"},
           NEW stage \in {"downloading", "verifying", "installing", "restart-required"},
           NEW status, status = WithStage(cached.status, stage)
    PROVE  /\ status \in Statuses /\ Parses(status) /\ status.version = snapshot.version
           /\ cached # NoStatus /\ cached \in Checks /\ Parses(cached.status)
           /\ cached.status \in Statuses /\ cached.status.version = snapshot.version
<1>1. cached # NoStatus /\ cached \in Checks /\ cached.status.version # 0 /\ Parses(cached.status)
      /\ cached.status.version = snapshot.version
  BY DEF UpdateIInv, UpdateAppTypeOK, UnderWay, OneRelease, EveryStatusParses
<1>2. cached.status \in Statuses
  BY <1>1 DEF Checks
<1>. QED BY <1>1, <1>2, StageParses

LEMMA VerifyInvariant ==
    ASSUME UpdateIInv, Verify
    PROVE  UpdateIInv'
<1>. USE DEF UpdateIInv
<1>1. PICK status : status = WithStage(cached.status, "verifying")
  OBVIOUS
<1>2. /\ operation.step = "downloading" /\ snapshot' = status
      /\ operation' = [operation EXCEPT !.step = "verifying"]
      /\ UNCHANGED <<feed, installed, marker, process, queue, cached, data, install,
                     deferred, tries>>
  BY <1>1 DEF Verify
<1>3. status \in Statuses /\ Parses(status) /\ status.version = snapshot.version
      /\ cached # NoStatus /\ Parses(cached.status)
  BY <1>1, <1>2, StageOfRelease
<1>4. operation' \in [kind : {"none"} \cup Kinds, version : Releases,
           step : {"none", "asking", "downloading", "verifying", "installing", "restarting"}]
      /\ operation'.kind = operation.kind /\ operation'.version = operation.version
      /\ operation'.step = "verifying"
  BY <1>2 DEF UpdateAppTypeOK
<1>5. UpdateAppTypeOK'
  BY <1>2, <1>3, <1>4 DEF UpdateAppTypeOK
<1>6. CountedTries' /\ UnderWay'
  BY <1>2, <1>4 DEF CountedTries, AutoInstallsBounded, UnderWay
<1>. QED BY <1>2, <1>3, <1>5, <1>6, SameReleaseInvariant

(* The attempt is counted before the installer is handed the release.       *)
LEMMA InstallInvariant ==
    ASSUME UpdateIInv, Install
    PROVE  UpdateIInv'
<1>. USE DEF UpdateIInv
<1>1. PICK status : status = WithStage(cached.status, "installing")
  OBVIOUS
<1>2. PICK check : check = IF cached = NoStatus THEN cached ELSE [cached EXCEPT !.status = status]
  OBVIOUS
<1>3. /\ operation.step = "verifying" /\ snapshot' = status /\ cached' = check
      /\ operation' = [operation EXCEPT !.step = "installing"]
      /\ process' = [process EXCEPT !.session = "installing"]
      /\ UNCHANGED <<feed, installed, queue, data, install, deferred>>
  BY <1>1, <1>2 DEF Install, Remember
<1>4. status \in Statuses /\ Parses(status) /\ status.version = snapshot.version
      /\ cached # NoStatus /\ cached.status.version = snapshot.version
  BY <1>1, <1>3, StageOfRelease
<1>5. check \in Checks /\ check # NoStatus /\ check.status = status
  BY <1>2, <1>4, FailureKeepsRelease
<1>6. operation' \in [kind : {"none"} \cup Kinds, version : Releases,
           step : {"none", "asking", "downloading", "verifying", "installing", "restarting"}]
      /\ operation'.step = "installing" /\ operation'.version = operation.version
  BY <1>3 DEF UpdateAppTypeOK
<1>7. process' \in [version : Releases, session : {"background", "foreground", "installing"},
                    starting : BOOLEAN, window : BOOLEAN, starts : 1..MaxStarts]
      /\ process'.version = process.version
  BY <1>3 DEF UpdateAppTypeOK
<1>8. /\ operation.version # 0 /\ cached.status.version = operation.version
      /\ marker \in Marks /\ marker # NoStatus /\ marker.version = operation.version
      /\ operation.kind = "startup" => marker.attempts < MaxAttempts
  BY <1>3 DEF UnderWay, UpdateAppTypeOK
<1>9. /\ marker' \in Marks /\ marker' # NoStatus /\ marker'.version = operation.version
      /\ tries' \in [Releases -> Nat] /\ CountedTries'
  <2>1. CASE operation.kind = "startup"
    <3>1. PICK mark : mark = RecordAttempt(marker, operation.version)
      OBVIOUS
    <3>2. marker' = mark /\ tries' = [tries EXCEPT ![operation.version] = @ + 1]
      BY <2>1, <3>1 DEF Install
    <3>3. /\ mark \in Marks /\ mark.version = marker.version
          /\ mark.attempts = marker.attempts + 1 /\ mark # NoStatus
      BY <1>8, <2>1, <3>1, AttemptIsCounted, NoStatusIsNone
    <3>4. /\ marker.version \in Releases /\ tries \in [Releases -> Nat]
          /\ marker.attempts \in Nat /\ marker.attempts + 1 <= MaxAttempts
          /\ tries[marker.version] \in Nat /\ Releases \subseteq Nat
      <4>1. marker.version \in Releases /\ marker.attempts \in 0..MaxAttempts
        BY <1>8 DEF Marks
      <4>2. marker.attempts < MaxAttempts
        BY <1>8, <2>1
      <4>3. tries \in [Releases -> Nat]
        BY DEF UpdateAppTypeOK
      <4>4. tries[marker.version] \in Nat
        BY <4>1, <4>3
      <4>5. marker.attempts \in Nat /\ marker.attempts + 1 <= MaxAttempts
        BY <4>1, <4>2, DesktopUpdateAssumption
      <4>. QED BY <4>1, <4>3, <4>4, <4>5, ReleasesAreNat
    <3>5. /\ tries' \in [Releases -> Nat] /\ tries'[marker.version] = tries[marker.version] + 1
          /\ \A version \in Releases \ {marker.version} : tries'[version] = tries[version]
      BY <1>8, <3>2, <3>4
    <3>6. tries'[marker.version] <= mark.attempts /\ tries'[marker.version] <= MaxAttempts
      BY <1>8, <3>3, <3>4, <3>5, DesktopUpdateAssumption DEF CountedTries
    <3>7. AutoInstallsBounded'
      BY <3>5, <3>6 DEF CountedTries, AutoInstallsBounded
    <3>8. ASSUME NEW version \in Releases, version > marker.version PROVE tries'[version] = 0
      BY <1>8, <3>4, <3>5, <3>8 DEF CountedTries
    <3>9. mark.version <= feed
      BY <1>8, <3>3 DEF CountedTries
    <3>. QED BY <1>3, <1>8, <3>2, <3>3, <3>5, <3>6, <3>7, <3>8, <3>9 DEF CountedTries
  <2>2. CASE operation.kind # "startup"
    <3>1. marker' = marker /\ tries' = tries
      BY <2>2 DEF Install
    <3>. QED BY <1>3, <1>7, <1>8, <3>1 DEF UpdateAppTypeOK, CountedTries, AutoInstallsBounded
  <2>. QED BY <2>1, <2>2
<1>10. UpdateAppTypeOK'
  BY <1>3, <1>4, <1>5, <1>6, <1>7, <1>9 DEF UpdateAppTypeOK
<1>11. UnderWay'
  BY <1>3, <1>4, <1>5, <1>6, <1>8, <1>9 DEF UnderWay
<1>. QED BY <1>3, <1>4, <1>5, <1>7, <1>9, <1>10, <1>11, SameReleaseInvariant

LEMMA PutOffInvariant ==
    ASSUME UpdateIInv, PutOff
    PROVE  UpdateIInv'
<1>1. PICK status : status = cached.status
  OBVIOUS
<1>2. /\ operation.step = "verifying" /\ snapshot' = status
      /\ Ends0("startup", NoStatus, TRUE, TRUE)
      /\ UNCHANGED <<marker, cached, tries>>
  BY <1>1 DEF PutOff
<1>3. PICK check : check = cached
  OBVIOUS
<1>4. check \in Checks /\ check.status = status /\ status \in Statuses /\ Parses(status)
      /\ status.version = snapshot.version
  BY <1>1, <1>2, <1>3, StageOfRelease
<1>5. marker' \in {NoStatus} \cup Marks
  BY <1>2 DEF UpdateIInv, UpdateAppTypeOK
<1>6. feed' = feed /\ process'.version = process.version
  BY <1>2, EndsType DEF UpdateIInv
<1>7. CountedTries'
  BY <1>2, <1>6 DEF UpdateIInv, CountedTries, AutoInstallsBounded
<1>8. PICK kind : kind = "startup"
  OBVIOUS
<1>9. Ends0(kind, NoStatus, TRUE, TRUE) /\ ~ (TRUE /\ kind = "ui") /\ cached' = check
  BY <1>2, <1>3, <1>8
<1>. QED BY <1>2, <1>4, <1>5, <1>7, <1>9, SnapshotBounds, EndsInvariant

LEMMA InstallFailsInvariant ==
    ASSUME UpdateIInv, InstallFails
    PROVE  UpdateIInv'
<1>1. PICK status : status = [Failed(cached.status) EXCEPT !.progress = TRUE]
  OBVIOUS
<1>2. PICK check : check = IF cached = NoStatus THEN cached ELSE [cached EXCEPT !.status = status]
  OBVIOUS
<1>3. /\ snapshot' = status /\ marker' = Deferring(marker) /\ tries' = tries /\ cached' = check
      /\ operation.step = "installing" /\ Ends0(operation.kind, NoStatus, TRUE, FALSE)
  BY <1>1, <1>2 DEF InstallFails, Remember
<1>4. cached.status \in Statuses /\ cached.status.version = snapshot.version
  <2>1. PICK stage : stage = WithStage(cached.status, "installing")
    OBVIOUS
  <2>. QED BY <1>3, <2>1, StageOfRelease
<1>5. status \in Statuses /\ Parses(status) /\ status.version = snapshot.version
  BY <1>1, <1>4, FailedInstallParses
<1>6. check \in {NoStatus} \cup Checks /\ (check # NoStatus => check.status = status)
  BY <1>2, <1>5, FailureKeepsRelease
<1>7. /\ marker' \in {NoStatus} \cup Marks
      /\ marker = NoStatus => marker' = NoStatus
      /\ marker # NoStatus => /\ marker' # NoStatus /\ marker'.version = marker.version
                              /\ marker'.attempts = marker.attempts
  BY <1>3, DeferringKeeps, NoStatusIsNone DEF UpdateIInv, UpdateAppTypeOK
<1>8. feed' = feed /\ process'.version = process.version
  BY <1>3, EndsType DEF UpdateIInv
<1>9. CountedTries'
  BY <1>3, <1>7, <1>8, MarkerKeepsCount DEF UpdateIInv
<1>. QED BY <1>3, <1>5, <1>6, <1>7, <1>9, SnapshotBounds, EndsInvariant

LEMMA InstalledInvariant ==
    ASSUME UpdateIInv, Installed
    PROVE  UpdateIInv'
<1>. USE DEF UpdateIInv
<1>1. PICK status : status = WithStage(cached.status, "restart-required")
  OBVIOUS
<1>2. PICK check : check = IF cached = NoStatus THEN cached ELSE [cached EXCEPT !.status = status]
  OBVIOUS
<1>3. PICK request : request = Answered(NoRequest, status, FALSE)
  OBVIOUS
<1>4. /\ operation.step = "installing" /\ snapshot' = status /\ cached' = check
      /\ operation' = [operation EXCEPT !.step = "restarting"]
      /\ UNCHANGED <<feed, installed, marker, process, queue, deferred, tries>>
      /\ \/ MutationEnds("idle") /\ (data' = data \/ data' = [data EXCEPT !.request = request])
         \/ UNCHANGED <<install, data>>
  BY <1>1, <1>2, <1>3 DEF Installed, Remember
<1>5. status \in Statuses /\ Parses(status) /\ status.version = snapshot.version
      /\ cached # NoStatus /\ cached.status.version = snapshot.version
  BY <1>1, <1>4, StageOfRelease
<1>6. check \in Checks /\ check # NoStatus /\ check.status = status
  BY <1>2, <1>5, FailureKeepsRelease
<1>7. request \in StatusQueries /\ request.step = "answered" /\ request.answer = status
  BY <1>3, <1>5, RequestTypes, AnsweredType
<1>8. data' \in [status : {NoStatus} \cup Statuses, isError : BOOLEAN, request : StatusQueries]
      /\ data'.status = data.status /\ (data'.request = request \/ data' = data)
  BY <1>4, <1>7 DEF UpdateAppTypeOK
<1>9. install' \in [gate : Mutations, notice : Mutations]
  BY <1>4, MutationEndsType DEF UpdateAppTypeOK, Mutations
<1>10. operation' \in [kind : {"none"} \cup Kinds, version : Releases,
            step : {"none", "asking", "downloading", "verifying", "installing", "restarting"}]
       /\ operation'.step = "restarting" /\ operation'.version = operation.version
  BY <1>4 DEF UpdateAppTypeOK
<1>11. UpdateAppTypeOK'
  BY <1>4, <1>5, <1>6, <1>8, <1>9, <1>10 DEF UpdateAppTypeOK
<1>12. CountedTries'
  BY <1>4 DEF CountedTries, AutoInstallsBounded
<1>13. UnderWay'
  BY <1>4, <1>5, <1>6, <1>10 DEF UnderWay
<1>14. OneRelease'
  BY <1>4, <1>5, <1>6 DEF OneRelease
<1>15. EveryStatusParses'
  BY <1>4, <1>5, <1>6 DEF EveryStatusParses, Parses, Policy
<1>16. Told'
  <2>1. data'.status # NoStatus =>
            Parses(data.status)' /\ data'.status.version <= status.version
    BY <1>4, <1>5, <1>8 DEF Told, Parses, Policy
  <2>2. CASE data' = data
    BY <1>4, <1>5, <2>1, <2>2 DEF Told
  <2>3. CASE data'.request = request
    <3>1. status.version <= status.version
      BY <1>5, StatusOfRelease
    <3>. QED BY <1>4, <1>5, <1>7, <2>1, <2>3, <3>1 DEF Told
  <2>. QED BY <1>8, <2>2, <2>3
<1>. QED BY <1>11, <1>12, <1>13, <1>14, <1>15, <1>16

LEMMA HourlyCheckInvariant ==
    ASSUME UpdateIInv, HourlyCheck
    PROVE  UpdateIInv'
<1>1. /\ queue' = queue \cup {"hourly"}
      /\ UNCHANGED <<feed, installed, marker, process, operation, cached, snapshot,
                     data, install, deferred, tries>>
  BY DEF HourlyCheck
<1>2. UpdateAppTypeOK'
  BY <1>1 DEF UpdateIInv, UpdateAppTypeOK, Kinds
<1>3. CountedTries' /\ UnderWay' /\ OneRelease' /\ Told' /\ EveryStatusParses'
  BY <1>1 DEF UpdateIInv, CountedTries, AutoInstallsBounded, UnderWay, OneRelease, Told,
              EveryStatusParses, Parses, Policy
<1>. QED BY <1>2, <1>3 DEF UpdateIInv

--------------------------------------------------------------------------------
(* The window. *)

LEMMA OpenDashboardInvariant ==
    ASSUME UpdateIInv, OpenDashboard
    PROVE  UpdateIInv'
<1>1. /\ process' = [process EXCEPT !.window = TRUE, !.session = "foreground"]
      /\ UNCHANGED <<feed, installed, marker, operation, queue, cached, snapshot,
                     data, install, deferred, tries>>
  BY DEF OpenDashboard
<1>2. process' \in [version : Releases, session : {"background", "foreground", "installing"},
                    starting : BOOLEAN, window : BOOLEAN, starts : 1..MaxStarts]
      /\ process'.version = process.version
  BY <1>1 DEF UpdateIInv, UpdateAppTypeOK
<1>3. UpdateAppTypeOK'
  BY <1>1, <1>2 DEF UpdateIInv, UpdateAppTypeOK
<1>4. CountedTries' /\ UnderWay' /\ OneRelease' /\ Told' /\ EveryStatusParses'
  BY <1>1, <1>2 DEF UpdateIInv, CountedTries, AutoInstallsBounded, UnderWay, OneRelease, Told,
                    EveryStatusParses, Parses, Policy
<1>. QED BY <1>3, <1>4 DEF UpdateIInv

(* Asking leaves the answer shown; what an installation answers at once is  *)
(* what is published.                                                      *)
LEMMA AskingTells ==
    ASSUME UpdateAppTypeOK, NEW user \in BOOLEAN, NEW retried \in BOOLEAN, Ask(user, retried)
    PROVE  /\ data' \in [status : {NoStatus} \cup Statuses, isError : BOOLEAN, request : StatusQueries]
           /\ data'.status = data.status /\ queue' \subseteq Kinds
           /\ \/ data'.request.step = "asked"
              \/ data'.request.step = "answered" /\ data'.request.answer = snapshot
<1>1. PICK request : request = [NoRequest EXCEPT !.step = "asked", !.user = user, !.retried = retried]
  OBVIOUS
<1>2. request \in StatusQueries /\ request.step = "asked"
  BY <1>1 DEF NoRequest, StatusQueries
<1>3. PICK answered : answered = Answered(request, snapshot, FALSE)
  OBVIOUS
<1>4. answered \in StatusQueries /\ answered.step = "answered" /\ answered.answer = snapshot
  BY <1>2, <1>3, AnsweredType DEF UpdateAppTypeOK
<1>5. /\ data' = [data EXCEPT !.request = request] \/ data' = [data EXCEPT !.request = answered]
      /\ queue' = queue \/ queue' = queue \cup {"ui"}
  BY <1>1, <1>3 DEF Ask
<1>6. queue' \subseteq Kinds
  BY <1>5 DEF UpdateAppTypeOK, Kinds
<1>. QED BY <1>2, <1>4, <1>5, <1>6 DEF UpdateAppTypeOK

LEMMA AskInvariant ==
    ASSUME UpdateIInv, NEW user \in BOOLEAN, NEW retried \in BOOLEAN, Ask(user, retried),
           UNCHANGED <<feed, installed, marker, process, operation, cached, snapshot,
                       install, deferred, tries>>
    PROVE  UpdateIInv'
<1>1. /\ data' \in [status : {NoStatus} \cup Statuses, isError : BOOLEAN, request : StatusQueries]
      /\ data'.status = data.status /\ queue' \subseteq Kinds
      /\ \/ data'.request.step = "asked"
         \/ data'.request.step = "answered" /\ data'.request.answer = snapshot
  BY AskingTells DEF UpdateIInv
<1>2. UpdateAppTypeOK'
  BY <1>1 DEF UpdateIInv, UpdateAppTypeOK
<1>3. CountedTries' /\ UnderWay' /\ OneRelease' /\ EveryStatusParses'
  BY DEF UpdateIInv, CountedTries, AutoInstallsBounded, UnderWay, OneRelease,
         EveryStatusParses, Parses, Policy
<1>4. Told'
  <2>1. data'.status # NoStatus =>
            Parses(data.status)' /\ data'.status.version <= snapshot.version
    BY <1>1 DEF UpdateIInv, Told, Parses, Policy
  <2>2. snapshot \in Statuses /\ snapshot.version <= snapshot.version
    BY SnapshotBounds DEF UpdateIInv, UpdateAppTypeOK
  <2>. QED BY <1>1, <2>1, <2>2 DEF Told
<1>. QED BY <1>2, <1>3, <1>4 DEF UpdateIInv

(* An answer is read after the one shown was, so it is of no older release. *)
LEMMA ReceiveInvariant ==
    ASSUME UpdateIInv, Receive
    PROVE  UpdateIInv'
<1>. DEFINE answer == data.request.answer
            bad == answer = Failing \/ ~Parses(answer)
<1>1. /\ data.request.step = "answered" /\ data.request \in StatusQueries
      /\ UNCHANGED <<feed, installed, marker, process, operation, cached, snapshot,
                     install, deferred, tries>>
  BY DEF Receive, UpdateIInv, UpdateAppTypeOK
<1>2. CASE bad /\ ~data.request.retried
  <2>1. Ask(data.request.user, TRUE)
    BY <1>2 DEF Receive
  <2>2. data.request.user \in BOOLEAN
    BY <1>1 DEF StatusQueries
  <2>. QED BY <1>1, <2>1, <2>2, AskInvariant
<1>3. CASE ~ (bad /\ ~data.request.retried)
  <2>1. PICK isError \in BOOLEAN : isError = bad
    OBVIOUS
  <2>2. /\ data' = [status |-> IF bad THEN data.status ELSE answer,
                    isError |-> isError, request |-> NoRequest]
        /\ UNCHANGED queue
    BY <1>3, <2>1 DEF Receive
  <2>3. ~bad => answer \in Statuses /\ Parses(answer) /\ answer.version <= snapshot.version
    BY <1>1 DEF UpdateIInv, Told
  <2>4. data.status \in {NoStatus} \cup Statuses
    BY DEF UpdateIInv, UpdateAppTypeOK
  <2>. HIDE DEF bad
  <2>5. data' \in [status : {NoStatus} \cup Statuses, isError : BOOLEAN, request : StatusQueries]
        /\ data'.request.step = "none"
    BY <2>2, <2>3, <2>4, RequestTypes
  <2>6. UpdateAppTypeOK'
    BY <1>1, <2>2, <2>5 DEF UpdateIInv, UpdateAppTypeOK
  <2>7. CountedTries' /\ UnderWay' /\ OneRelease' /\ EveryStatusParses'
    BY <1>1 DEF UpdateIInv, CountedTries, AutoInstallsBounded, UnderWay, OneRelease,
                EveryStatusParses, Parses, Policy
  <2>8. Told'
    <3>1. CASE bad
      BY <1>1, <2>2, <2>5, <3>1 DEF UpdateIInv, Told, Parses, Policy
    <3>2. CASE ~bad
      BY <1>1, <2>2, <2>3, <2>5, <3>2 DEF Told, Parses, Policy
    <3>. QED BY <3>1, <3>2
  <2>. QED BY <2>6, <2>7, <2>8 DEF UpdateIInv
<1>. QED BY <1>2, <1>3

LEMMA StartInstallInvariant ==
    ASSUME UpdateIInv, NEW part \in {"gate", "notice"}, StartInstall(part)
    PROVE  UpdateIInv'
<1>1. UNCHANGED <<feed, installed, marker, operation, cached, snapshot, data, deferred, tries>>
  BY DEF StartInstall
<1>2. /\ process' \in [version : Releases, session : {"background", "foreground", "installing"},
                       starting : BOOLEAN, window : BOOLEAN, starts : 1..MaxStarts]
      /\ process'.version = process.version
      /\ install' \in [gate : Mutations, notice : Mutations] /\ queue' \subseteq Kinds
  BY DEF StartInstall, UpdateIInv, UpdateAppTypeOK, Mutations, Kinds
<1>3. UpdateAppTypeOK'
  BY <1>1, <1>2 DEF UpdateIInv, UpdateAppTypeOK
<1>4. CountedTries' /\ UnderWay' /\ OneRelease' /\ Told' /\ EveryStatusParses'
  BY <1>1, <1>2 DEF UpdateIInv, CountedTries, AutoInstallsBounded, UnderWay, OneRelease, Told,
                    EveryStatusParses, Parses, Policy
<1>. QED BY <1>3, <1>4 DEF UpdateIInv

LEMMA LaterInvariant ==
    ASSUME UpdateIInv, Later
    PROVE  UpdateIInv'
<1>1. /\ deferred' = deferred \cup {data.status.version}
      /\ UNCHANGED <<feed, installed, marker, process, operation, queue, cached, snapshot,
                     data, install, tries>>
  BY DEF Later
<1>2. data.status # NoStatus
  BY DEF Later, Offered, Notice, NoticeShown, KnownPolicy, NoAnswer
<1>3. data.status.version \in Releases
  BY <1>2 DEF UpdateIInv, UpdateAppTypeOK, Statuses
<1>4. UpdateAppTypeOK'
  BY <1>1, <1>3 DEF UpdateIInv, UpdateAppTypeOK
<1>5. CountedTries' /\ UnderWay' /\ OneRelease' /\ Told' /\ EveryStatusParses'
  BY <1>1 DEF UpdateIInv, CountedTries, AutoInstallsBounded, UnderWay, OneRelease, Told,
              EveryStatusParses, Parses, Policy
<1>. QED BY <1>4, <1>5 DEF UpdateIInv

LEMMA UpdateStutterInvariant ==
    ASSUME UpdateIInv, UNCHANGED updateAppVars
    PROVE  UpdateIInv'
<1>1. UpdateAppTypeOK'
  BY DEF UpdateIInv, UpdateAppTypeOK, updateAppVars
<1>2. CountedTries' /\ UnderWay' /\ OneRelease' /\ Told' /\ EveryStatusParses'
  BY DEF UpdateIInv, CountedTries, AutoInstallsBounded, UnderWay, OneRelease, Told,
         EveryStatusParses, Parses, Policy, updateAppVars
<1>. QED BY <1>1, <1>2 DEF UpdateIInv

LEMMA UpdateNextIInv == UpdateIInv /\ [UpdateAppNext]_updateAppVars => UpdateIInv'
<1>. SUFFICES ASSUME UpdateIInv, [UpdateAppNext]_updateAppVars PROVE UpdateIInv'
  OBVIOUS
<1>1. CASE Ends
  BY <1>1, EndsOfApp
<1>2. CASE FeedChanges \/ BackoffPasses
  BY <1>2, FeedChangesInvariant, BackoffPassesInvariant
<1>3. CASE \E kind \in Kinds : TakeLock(kind)
  BY <1>3, TakeLockInvariant
<1>4. CASE CheckFails \/ CheckAnswers \/ Verify \/ DownloadFails
  BY <1>4, CheckFailsInvariant, CheckAnswersInvariant, VerifyInvariant, DownloadFailsInvariant
<1>5. CASE Install \/ PutOff \/ InstallFails \/ Installed \/ HourlyCheck
  BY <1>5, InstallInvariant, PutOffInvariant, InstallFailsInvariant, InstalledInvariant,
     HourlyCheckInvariant
<1>6. CASE OpenDashboard \/ Receive \/ Later
  BY <1>6, OpenDashboardInvariant, ReceiveInvariant, LaterInvariant
<1>7. CASE Poll
  <2>1. Ask(FALSE, FALSE) /\ UNCHANGED <<feed, installed, marker, process, operation, cached,
                                         snapshot, install, deferred, tries>>
    BY <1>7 DEF Poll
  <2>. QED BY <2>1, AskInvariant
<1>8. CASE CheckAgain
  <2>1. Ask(TRUE, FALSE) /\ UNCHANGED <<feed, installed, marker, process, operation, cached,
                                        snapshot, install, deferred, tries>>
    BY <1>8 DEF CheckAgain
  <2>. QED BY <2>1, AskInvariant
<1>9. CASE \E part \in DOMAIN install : StartInstall(part)
  <2>1. DOMAIN install = {"gate", "notice"}
    BY DEF UpdateIInv, UpdateAppTypeOK
  <2>. QED BY <1>9, <2>1, StartInstallInvariant
<1>10. CASE UNCHANGED updateAppVars
  BY <1>10, UpdateStutterInvariant
<1>. QED BY <1>1, <1>2, <1>3, <1>4, <1>5, <1>6, <1>7, <1>8, <1>9, <1>10 DEF UpdateAppNext

--------------------------------------------------------------------------------
(* What follows from the invariant. *)

(* A window that is blocked knows no release, or reads a mandatory one, or   *)
(* a failure, and each has its button.                                     *)
LEMMA BlockedLeadsOn == UpdateIInv => GateOffersAWay
<1>. SUFFICES ASSUME UpdateIInv, process.window, Blocked, ~InstallPending,
                     ~ (NoAnswer /\ ~data.isError),
                     ~ (~NoAnswer /\ data.status.stage \in Active)
              PROVE  Gate \cap {"install", "check-again"} # {}
  BY DEF GateOffersAWay
<1>1. CASE NoAnswer
  <2>1. data.isError
    BY <1>1
  <2>2. PanelFailed(data.isError, install["gate"] = "error")
    BY <2>1 DEF PanelFailed
  <2>3. ~HasRelease /\ ~ (~NoAnswer /\ data.status.stage \in {"optional", "mandatory"})
    BY <1>1 DEF HasRelease
  <2>. QED BY <2>2, <2>3 DEF Gate, Actions, PrimaryAction
<1>2. CASE ~NoAnswer
  <2>1. data.status \in Statuses /\ Parses(data.status)
    BY <1>2 DEF UpdateIInv, UpdateAppTypeOK, Told, NoAnswer
  <2>2. data.status.stage \in {"latest", "optional", "mandatory", "failed"}
    BY <1>2, <2>1 DEF Statuses
  <2>3. data.status.stage # "latest"
    BY <1>2, <2>1 DEF Blocked, CanAdmit, KnownPolicy, Parses, Policy
  <2>4. CASE data.status.stage \in {"optional", "mandatory"}
    BY <1>2, <2>4 DEF Gate, Actions, PrimaryAction
  <2>5. CASE data.status.stage = "failed"
    <3>1. PanelFailed(data.isError, install["gate"] = "error")
      BY <1>2, <2>5 DEF PanelFailed
    <3>. QED BY <3>1 DEF Gate, Actions, PrimaryAction
  <2>. QED BY <2>2, <2>3, <2>4, <2>5
<1>. QED BY <1>1, <1>2

(* Only an answer the window reads changes what it knows while the app runs. *)
LEMMA KnownChangesByAnswer ==
    ASSUME UpdateIInv, [UpdateAppNext]_updateAppVars, process'.starts = process.starts
    PROVE  process'.version = process.version /\ (data'.status = data.status \/ Receive)
<1>. USE DEF UpdateIInv
<1>1. UpdateAppTypeOK /\ process.starts \in Nat
  BY DesktopUpdateAssumption DEF UpdateAppTypeOK
<1>2. ~Ends
  <2>1. ASSUME NEW version, Restart(version) PROVE FALSE
    <3>1. process'.starts = process.starts + 1
      BY <2>1 DEF Restart, Started
    <3>. QED BY <1>1, <3>1
  <2>. QED BY <2>1 DEF Ends
<1>3. CASE \E kind \in Kinds : TakeLock(kind)
  BY <1>1, <1>3 DEF TakeLock, UpdateAppTypeOK
<1>4. CASE CheckFails \/ DownloadFails \/ InstallFails
  <2>1. Ends0(operation.kind, NoStatus, TRUE, FALSE)
    BY <1>4 DEF CheckFails, DownloadFails, InstallFails
  <2>. QED BY <1>1, <2>1, EndsType, EndingTells DEF Ends0
<1>5. CASE CheckAnswers
  <2>1. PICK status : status = NewStatus(IF feed > process.version THEN feed ELSE 0)
    OBVIOUS
  <2>2. status \in Statuses
    <3>1. (IF feed > process.version THEN feed ELSE 0) \in Releases
      BY <1>1, ReleasesAreNat DEF UpdateAppTypeOK
    <3>. QED BY <2>1, <3>1, NewStatusParses
  <2>3. UNCHANGED <<process, data>> \/ Ends0(operation.kind, status, TRUE, TRUE)
    BY <1>5, <2>1 DEF CheckAnswers
  <2>. QED BY <1>1, <2>2, <2>3, EndsType, EndingTells DEF Ends0
<1>6. CASE PutOff
  <2>1. PICK kind : kind = "startup"
    OBVIOUS
  <2>2. Ends0(kind, NoStatus, TRUE, TRUE) /\ ~ (TRUE /\ kind = "ui")
    BY <1>6, <2>1 DEF PutOff
  <2>. QED BY <1>1, <2>2, EndsType, EndingTells DEF Ends0
<1>7. CASE FeedChanges \/ BackoffPasses \/ Verify \/ HourlyCheck \/ Later
  BY <1>7 DEF FeedChanges, BackoffPasses, Verify, HourlyCheck, Later
<1>8. CASE Install \/ OpenDashboard
  BY <1>1, <1>8 DEF Install, OpenDashboard, UpdateAppTypeOK
<1>9. CASE Installed
  BY <1>1, <1>9 DEF Installed, UpdateAppTypeOK
<1>10. CASE Poll \/ CheckAgain
  <2>1. UNCHANGED process /\ (Ask(FALSE, FALSE) \/ Ask(TRUE, FALSE))
    BY <1>10 DEF Poll, CheckAgain
  <2>. QED BY <1>1, <2>1, AskingTells
<1>11. CASE Receive
  BY <1>11 DEF Receive
<1>12. CASE \E part \in DOMAIN install : StartInstall(part)
  BY <1>1, <1>12 DEF StartInstall, UpdateAppTypeOK
<1>13. CASE UNCHANGED updateAppVars
  BY <1>13 DEF updateAppVars
<1>. QED BY <1>2, <1>3, <1>4, <1>5, <1>6, <1>7, <1>8, <1>9, <1>10, <1>11, <1>12, <1>13
         DEF UpdateAppNext

LEMMA BlockEndsByNewer ==
    ASSUME UpdateIInv, [UpdateAppNext]_updateAppVars, process'.starts = process.starts,
           KnownPolicy = "mandatory", KnownPolicy' # "mandatory"
    PROVE  data'.status.version > data.status.version
<1>1. process'.version = process.version /\ (data'.status = data.status \/ Receive)
  BY KnownChangesByAnswer
<1>2. ~NoAnswer /\ Policy(data.status.version) = "mandatory" /\ data.status # NoStatus
  BY DEF KnownPolicy, NoAnswer
<1>3. data'.status # data.status
  BY <1>1, <1>2 DEF KnownPolicy, NoAnswer, Policy
<1>4. data.request.step = "answered" /\ Receive
  BY <1>1, <1>3 DEF Receive
<1>5. data'.status = data.request.answer /\ data.request.answer # Failing
  <2>. DEFINE answer == data.request.answer
              bad == answer = Failing \/ ~Parses(answer)
  <2>1. CASE bad /\ ~data.request.retried
    <3>1. Ask(data.request.user, TRUE) /\ data.request.user \in BOOLEAN
      BY <1>4, <2>1 DEF Receive, UpdateIInv, UpdateAppTypeOK, StatusQueries
    <3>. QED BY <1>3, <3>1, AskingTells DEF UpdateIInv
  <2>2. CASE ~ (bad /\ ~data.request.retried)
    <3>1. PICK isError \in BOOLEAN : isError = bad
      OBVIOUS
    <3>2. data' = [status |-> IF bad THEN data.status ELSE answer,
                   isError |-> isError, request |-> NoRequest]
      BY <1>4, <2>2, <3>1 DEF Receive
    <3>. QED BY <1>3, <3>2
  <2>. QED BY <2>1, <2>2
<1>6. /\ data.request.answer \in Statuses
      /\ data.status.version <= data.request.answer.version
  BY <1>2, <1>4, <1>5 DEF UpdateIInv, Told
<1>7. data.status.version \in Nat /\ data.request.answer.version \in Nat
  BY <1>2, <1>6, StatusOfRelease DEF UpdateIInv, UpdateAppTypeOK
<1>8. data'.status # NoStatus
  BY <1>5, <1>6, NoStatusIsNone
<1>9. data'.status.version # data.status.version
  BY <1>1, <1>2, <1>8 DEF KnownPolicy, NoAnswer, Policy
<1>. QED BY <1>5, <1>6, <1>7, <1>9

--------------------------------------------------------------------------------
(* The inductive invariant holds in every state of the specification.       *)
THEOREM UpdateInvariant == UpdateAppSpec => []UpdateIInv
BY UpdateInitIInv, UpdateNextIInv, PTL DEF UpdateAppSpec

(* Every variable of the updater keeps to what its code can hold.            *)
THEOREM UpdateTypes == UpdateAppSpec => []UpdateAppTypeOK
<1>1. UpdateIInv => UpdateAppTypeOK
  BY DEF UpdateIInv
<1>. QED BY <1>1, UpdateInvariant, PTL

(* A release that cannot be installed is tried at the starts of the app at   *)
(* most MaxAttempts times, over crashes, restarts and newer releases        *)
(* (pending-update marker of updater.rs).                                   *)
THEOREM UpdateInstallsBounded == UpdateAppSpec => []AutoInstallsBounded
<1>1. UpdateIInv => AutoInstallsBounded
  BY DEF UpdateIInv, CountedTries
<1>. QED BY <1>1, UpdateInvariant, PTL

(* Every status the coordinator publishes or remembers passes the window's   *)
(* strict reader, and a window that the answer blocks is asking, installing  *)
(* or shows a button that leads on (updater.rs, desktop-settings.ts and the  *)
(* dialog of the update gate).                                              *)
THEOREM UpdateOffersAWay == UpdateAppSpec => []UpdateGateOffersAWay
<1>1. UpdateIInv => UpdateGateOffersAWay
  BY BlockedLeadsOn DEF UpdateIInv, UpdateGateOffersAWay
<1>. QED BY <1>1, UpdateInvariant, PTL

(* While the app runs, nothing but a newer release that is not mandatory     *)
(* takes a mandatory block away from the window: no failed or new check, no  *)
(* failed installation and no late answer.                                  *)
THEOREM UpdateMandatoryStays == UpdateAppSpec => MandatoryStaysShut
<1>1. UpdateIInv /\ [UpdateAppNext]_updateAppVars =>
        [process'.starts = process.starts /\ KnownPolicy = "mandatory"
            /\ KnownPolicy' # "mandatory"
         => data'.status.version > data.status.version]_updateAppVars
  BY BlockEndsByNewer
<1>. QED BY <1>1, UpdateInvariant, PTL DEF UpdateAppSpec, MandatoryStaysShut
================================================================================
