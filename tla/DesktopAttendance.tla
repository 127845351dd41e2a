---------------------------- MODULE DesktopAttendance ----------------------------
(***************************************************************************)
(* The attendance record the PC app shows.  The checker's observation      *)
(* reaches the web view as an event before it has been uploaded; the query *)
(* asks the server for the same record; and the answer of the server must  *)
(* not put an older record over the one this PC has just seen.  A reset of *)
(* the PC's identity clears the screen first and has the server delete the *)
(* record later, if it does.                                               *)
(***************************************************************************)
EXTENDS Naturals, Sequences

CONSTANTS
    Fresh,             \* ATTENDANCE_FRESHNESS_MS
    MaxTime,           \* bound: the clock
    MaxNotices,        \* bound: events under way to the web view
    MaxRemovals        \* bound: resets of the identity under way

VARIABLES
    now,               \* the clock
    uploads,           \* observations the PC still uploads
    serverRecord,      \* the collection time the server has; 0: none
    notices,           \* to the dashboard window, in order
    cache,             \* the attendance query's data
    fetch,             \* its request: "none", "asked" or the answer under way
    refresh,           \* the refresh button's flow
    removals,          \* resets of the identity asked for and not worked off
    removedAt          \* history: when the last identity was deleted; 0: never

identityVars == <<removals, removedAt>>
attendanceVars == <<now, uploads, serverRecord, notices, cache, fetch, refresh, identityVars>>

ASSUME DesktopAttendanceAssumption ==
    Fresh \in Nat /\ MaxTime \in Nat \ {0} /\ {MaxNotices, MaxRemovals} \subseteq Nat

\* at = 0: no record.  signedIn is FALSE for the answer 401.
NoData == [loaded |-> FALSE, signedIn |-> FALSE, at |-> 0, pending |-> FALSE]
Loaded(at, pending) == [loaded |-> TRUE, signedIn |-> TRUE, at |-> at, pending |-> pending]
AuthRequired == [NoData EXCEPT !.loaded = TRUE]
\* No answer yet, under way or lost; or the answer.
NoFetch == [step |-> "none", answer |-> NoData]
Asking == [step |-> "asked", answer |-> NoData]

ParseAttendance(stored) == Loaded(stored, FALSE)

WithLocalObservation(current, observed) ==
    IF current.at # 0 /\ current.at >= observed THEN current ELSE Loaded(observed, TRUE)

PreferFetched(current, fetched) == fetched
PreferDesktopAttendance(current, fetched) ==
    IF /\ current.at # 0 /\ current.pending /\ now - current.at <= Fresh
       /\ ~ (fetched.at # 0 /\ fetched.at >= current.at)
    THEN current ELSE fetched

\* A request that runs is started again when there is data to show meanwhile,
\* and shared else.
Refetched(data) ==
    IF fetch.step # "none" /\ ~data.loaded THEN fetch ELSE Asking

AttendanceInit ==
    /\ now = 1 /\ uploads = {} /\ serverRecord = 0 /\ notices = <<>>
    /\ cache = NoData /\ fetch = NoFetch /\ refresh = "idle"
    /\ removals = 0 /\ removedAt = 0

\* A report of the checker: recorded, published, and its upload started.
Observe ==
    /\ Len(notices) < MaxNotices /\ now < MaxTime
    /\ now' = now + 1
    /\ notices' = Append(notices, [kind |-> "observed", at |-> now'])
    /\ uploads' = uploads \cup {now'}
    /\ refresh' = IF refresh = "checking" THEN "checked" ELSE refresh
    /\ UNCHANGED <<serverRecord, cache, fetch, identityVars>>

\* The upload arrives; a record older than the stored one is left out.
Upload(at) ==
    /\ Len(notices) < MaxNotices
    /\ uploads' = uploads \ {at}
    /\ serverRecord' = IF at > serverRecord THEN at ELSE serverRecord
    /\ notices' = Append(notices, [kind |-> "synced", at |-> 0])
    /\ UNCHANGED <<now, cache, fetch, refresh, identityVars>>

UploadDeferred(at) ==
    /\ uploads' = uploads \ {at}
    /\ UNCHANGED <<now, serverRecord, notices, cache, fetch, refresh, identityVars>>

HandleObserved ==
    /\ notices # <<>> /\ Head(notices).kind = "observed"
    /\ cache' = WithLocalObservation(cache, Head(notices).at)
    /\ notices' = Tail(notices)
    /\ UNCHANGED <<now, uploads, serverRecord, fetch, refresh, identityVars>>

HandleSynced ==
    /\ notices # <<>> /\ Head(notices).kind = "synced"
    /\ notices' = Tail(notices) /\ fetch' = Refetched(cache)
    /\ UNCHANGED <<now, uploads, serverRecord, cache, refresh, identityVars>>

\* The interval, the focus or the return of the network.
PollRecord ==
    /\ fetch.step = "none"
    /\ fetch' = Asking
    /\ UNCHANGED <<now, uploads, serverRecord, notices, cache, refresh, identityVars>>

RecordAnswered(signedIn) ==
    /\ fetch.step = "asked"
    /\ fetch' = [step |-> "answered",
                 answer |-> IF signedIn THEN ParseAttendance(serverRecord) ELSE AuthRequired]
    /\ UNCHANGED <<now, uploads, serverRecord, notices, cache, refresh, identityVars>>

Fetched ==
    /\ fetch.step = "answered"
    /\ cache' = PreferDesktopAttendance(cache, fetch.answer)
    /\ fetch' = NoFetch
    /\ refresh' = IF refresh = "reading" THEN "idle" ELSE refresh
    /\ UNCHANGED <<now, uploads, serverRecord, notices, identityVars>>

FetchFails ==
    /\ fetch.step # "none"
    /\ fetch' = NoFetch
    /\ refresh' = IF refresh = "reading" THEN "idle" ELSE refresh
    /\ UNCHANGED <<now, uploads, serverRecord, notices, cache, identityVars>>

\* The button: a check of the platform is asked for, and its answer awaited.
RefreshPlatform ==
    /\ refresh = "idle"
    /\ refresh' = "checking"
    /\ UNCHANGED <<now, uploads, serverRecord, notices, cache, fetch, identityVars>>

\* The checker is missing, busy or does not report within 15 seconds.
RefreshFails ==
    /\ refresh = "checking"
    /\ refresh' = "idle"
    /\ UNCHANGED <<now, uploads, serverRecord, notices, cache, fetch, identityVars>>

\* Only after the platform answered is the record read again.
RefreshAttendance ==
    /\ refresh = "checked"
    /\ refresh' = "reading" /\ fetch' = Refetched(cache)
    /\ UNCHANGED <<now, uploads, serverRecord, notices, cache, identityVars>>

\* A reset of the identity: the mutation first removes the query and cancels its
\* request, then asks the native side.
ResetAsked ==
    /\ removals < MaxRemovals
    /\ removals' = removals + 1
    /\ cache' = NoData /\ fetch' = NoFetch
    /\ refresh' = IF refresh = "reading" THEN "idle" ELSE refresh
    /\ UNCHANGED <<now, uploads, serverRecord, notices, removedAt>>

\* The server forgets the identity; the screen is not cleared again.
IdentityRemoved ==
    /\ removals > 0 /\ removals' = removals - 1
    /\ serverRecord' = 0 /\ uploads' = {} /\ removedAt' = now
    /\ UNCHANGED <<now, notices, cache, fetch, refresh>>

RemovalRefused ==
    /\ removals > 0 /\ removals' = removals - 1
    /\ UNCHANGED <<now, uploads, serverRecord, notices, cache, fetch, refresh, removedAt>>

TimePasses ==
    /\ now < MaxTime /\ now' = now + 1
    /\ UNCHANGED <<uploads, serverRecord, notices, cache, fetch, refresh, identityVars>>

AttendanceNext ==
    \/ Observe \/ HandleObserved \/ HandleSynced
    \/ \E at \in uploads : Upload(at) \/ UploadDeferred(at)
    \/ PollRecord \/ Fetched \/ FetchFails
    \/ \E signedIn \in BOOLEAN : RecordAnswered(signedIn)
    \/ RefreshPlatform \/ RefreshFails \/ RefreshAttendance
    \/ ResetAsked \/ IdentityRemoved \/ RemovalRefused \/ TimePasses

AttendanceSpec == AttendanceInit /\ [][AttendanceNext]_attendanceVars

--------------------------------------------------------------------------------
Datum == [loaded : BOOLEAN, signedIn : BOOLEAN, at : 0..MaxTime, pending : BOOLEAN]
WindowEvents == [kind : {"observed", "synced"}, at : 0..MaxTime]

(* Every variable stays within the values the code can hold.                *)
AttendanceTypeOK ==
    /\ now \in 1..MaxTime /\ serverRecord \in 0..MaxTime /\ uploads \subseteq 1..MaxTime
    /\ cache \in Datum
    /\ fetch \in [step : {"none", "asked", "answered"}, answer : Datum]
    /\ refresh \in {"idle", "checking", "checked", "reading"}
    /\ notices \in Seq(WindowEvents) /\ Len(notices) <= MaxNotices
    /\ removals \in 0..MaxRemovals /\ removedAt \in 0..MaxTime

\* The record was seen for an identity that has been deleted since.
Former(at) == at <= removedAt

(* What the screen says was seen never gets older: a record this PC has      *)
(* seen gives way only to one at least as new, to the end of its quarter of  *)
(* an hour or to the request for a reset, done or refused.  One the server   *)
(* has gives way also when the server says that the PC is not signed in and, *)
(* if it is of a deleted identity, to what there is of the new one.          *)
NeverOlder == [][
    cache.at # 0 /\ cache'.at < cache.at =>
        \/ cache.pending /\ now - cache.at > Fresh
        \/ ~cache.pending /\ (cache' = AuthRequired \/ Former(cache.at))
        \/ cache' = NoData /\ removals' > removals]_attendanceVars

(* A record shown as synchronised is one the server holds, or held of an     *)
(* identity deleted since.                                                   *)
SyncedIsStored ==
    cache.at # 0 /\ ~cache.pending => serverRecord >= cache.at \/ Former(cache.at)
================================================================================
