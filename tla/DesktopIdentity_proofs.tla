------------------------ MODULE DesktopIdentity_proofs ------------------------
(***************************************************************************)
(* Proofs about the PC's identity and credential for every number of       *)
(* tasks, installations, credentials and incidents.                        *)
(***************************************************************************)
EXTENDS DesktopIdentity, FiniteSetTheorems, TLAPS

-----------------------------------------------------------------------------
(* Locks are waited for in one order, so never in a circle. *)

\* How many locks a reset has at each stage.
LEMMA PrefixCardinality ==
    /\ Cardinality({}) = 0
    /\ Cardinality({"webview"}) = 1
    /\ Cardinality({"webview", "registration"}) = 2
    /\ Cardinality({"webview", "registration", "usage"}) = 3
    /\ IsFiniteSet({"webview", "registration", "usage"})
<1>1. Cardinality({}) = 0 /\ IsFiniteSet({})
  BY FS_EmptySet
<1>2. Cardinality({"webview"}) = 1 /\ IsFiniteSet({"webview"})
  BY FS_Singleton
<1>3. /\ Cardinality({"webview"} \cup {"registration"}) = 2
      /\ IsFiniteSet({"webview"} \cup {"registration"})
  BY <1>2, FS_AddElement
<1>4. {"webview"} \cup {"registration"} = {"webview", "registration"}
  OBVIOUS
<1>5. /\ Cardinality({"webview", "registration"} \cup {"usage"}) = 3
      /\ IsFiniteSet({"webview", "registration"} \cup {"usage"})
  BY <1>3, <1>4, FS_AddElement
<1>6. {"webview", "registration"} \cup {"usage"} = {"webview", "registration", "usage"}
  OBVIOUS
<1>7. QED
  BY <1>1, <1>2, <1>3, <1>4, <1>5, <1>6

\* The locks a reset takes one after the other.
LEMMA NextLocks ==
    /\ NextLock({}) = "webview"
    /\ NextLock({"webview"}) = "registration"
    /\ NextLock({"webview", "registration"}) = "usage"
    /\ NextLock({"webview", "registration", "usage"}) = "identity"
    /\ Cardinality(Locks) = 4
<1>1. Locks = {"webview", "registration", "usage"} \cup {"identity"}
  BY DEF Locks
<1>2. Cardinality(Locks) = 4
  BY <1>1, PrefixCardinality, FS_AddElement
<1>3. QED
  BY <1>2, PrefixCardinality DEF NextLock, ResetOrder

\* The first lock a task waits for, in the order of the reset; the reset itself comes
\* after those it keeps out, and who waits for nothing comes last.
Rank(t) ==
    IF t.pc = "webview" THEN 0
    ELSE IF t.pc = "registration" THEN 2
    ELSE IF t.pc \in {"enrol", "usage", "setting"} THEN 4
    ELSE IF t.pc \in {"ready", "rotating", "registering"} THEN 6
    ELSE IF t.pc = "calling" /\ t.kind # "opened" THEN 6
    ELSE IF t.pc = "locking"
         THEN IF t.held = {} THEN 1
              ELSE IF t.held = {"webview"} THEN 3
              ELSE IF t.held = {"webview", "registration"} THEN 5 ELSE 7
    ELSE 8

LEMMA RankType == \A c \in Callers : Rank(task[c]) \in 0 .. 8
BY DEF Rank

\* Whom a task waits for is further on in the order.
LEMMA Outranked ==
    ASSUME LockInv, NEW c \in Callers, NEW d \in Callers, NEW lock \in Wants(c),
           d \in Holders(c, lock) \cup Queued(c, lock)
    PROVE  Rank(task[c]) < Rank(task[d])
<1>1. Stands(task[c]) /\ Stands(task[d]) /\ c # d
  BY DEF LockInv, Holders, Queued
<1>2. CASE d \in Holders(c, lock)
  <2>1. lock \in task[d].held
    BY <1>2 DEF Holders
  <2>2. CASE lock = "webview"
    <3>1. Rank(task[c]) <= 1
      BY <1>1, <2>2, NextLocks DEF Wants, At, Rank, Stands
    <3>2. Rank(task[d]) >= 2
      BY <1>1, <2>1, <2>2 DEF Rank, Stands, Own
    <3>3. QED
      BY <3>1, <3>2, RankType
  <2>3. CASE lock = "registration"
    <3>1. Rank(task[c]) <= 3
      BY <1>1, <2>3, NextLocks DEF Wants, At, Rank, Stands
    <3>2. Rank(task[d]) >= 4
      BY <1>1, <2>1, <2>3 DEF Rank, Stands, Own
    <3>3. QED
      BY <3>1, <3>2, RankType
  <2>4. CASE lock = "usage"
    <3>1. Rank(task[c]) <= 5
      BY <1>1, <2>4, NextLocks DEF Wants, At, Rank, Stands
    <3>2. Rank(task[d]) >= 6
      BY <1>1, <2>1, <2>4 DEF Rank, Stands, Own
    <3>3. QED
      BY <3>1, <3>2, RankType
  <2>5. CASE lock = "identity"
    <3>1. Rank(task[c]) <= 7
      BY <1>1, <2>5, NextLocks DEF Wants, At, Rank, Stands
    <3>2. Rank(task[d]) = 8
      BY <1>1, <2>1, <2>5 DEF Rank, Stands, Own
    <3>3. QED
      BY <3>1, <3>2, RankType
  <2>6. task[d].held \subseteq Locks
    BY <1>1 DEF Stands, Own, Locks
  <2>7. QED
    BY <2>1, <2>2, <2>3, <2>4, <2>5, <2>6 DEF Locks
<1>3. CASE d \in Queued(c, lock)
  <2>1. /\ task[d].pc = "locking" /\ lock = NextLock(task[d].held)
        /\ task[d].kind = "reset"
    BY <1>1, <1>3 DEF Queued, At, Stands
  <2>2. task[c].kind # "reset"
    BY <1>1, <2>1 DEF LockInv
  <2>3. CASE task[d].held = {}
    BY <1>1, <2>1, <2>2, <2>3, NextLocks DEF Wants, Rank, Stands
  <2>4. CASE task[d].held = {"webview"}
    BY <1>1, <2>1, <2>2, <2>4, NextLocks DEF Wants, Rank, Stands
  <2>5. CASE task[d].held = {"webview", "registration"}
    BY <1>1, <2>1, <2>2, <2>5, NextLocks DEF Wants, Rank, Stands
  <2>6. CASE task[d].held = {"webview", "registration", "usage"}
    BY <1>1, <2>1, <2>2, <2>6, NextLocks DEF Wants, Rank, Stands
  <2>7. QED
    BY <1>1, <2>1, <2>3, <2>4, <2>5, <2>6 DEF Stands
<1>4. QED
  BY <1>2, <1>3

\* Among any tasks there is one that is furthest on.
LEMMA FurthestOn ==
    ASSUME NEW tasks \in SUBSET Callers, tasks # {}
    PROVE  \E c \in tasks : \A d \in tasks : ~(Rank(task[c]) < Rank(task[d]))
<1> DEFINE R(n) == \E c \in tasks : Rank(task[c]) >= n
<1>1. \A d \in tasks : Rank(task[d]) \in 0 .. 8
  BY RankType
<1>2. R(0) /\ ~R(9)
  BY <1>1
<1>3. ASSUME NEW n \in 0 .. 8, R(n), ~R(n + 1)
      PROVE  \E c \in tasks : \A d \in tasks : ~(Rank(task[c]) < Rank(task[d]))
  BY <1>1, <1>3
<1> HIDE DEF R
<1>4. \E n \in 0 .. 8 : R(n) /\ ~R(n + 1)
  <2>1. /\ 0 + 1 = 1 /\ 1 + 1 = 2 /\ 2 + 1 = 3 /\ 3 + 1 = 4 /\ 4 + 1 = 5 /\ 5 + 1 = 6
        /\ 6 + 1 = 7 /\ 7 + 1 = 8 /\ 8 + 1 = 9
    OBVIOUS
  <2>2. SUFFICES ASSUME \A n \in 0 .. 8 : R(n) => R(n + 1) PROVE FALSE
    OBVIOUS
  <2>3. R(1) /\ R(2) /\ R(3) /\ R(4) /\ R(5) /\ R(6) /\ R(7) /\ R(8) /\ R(9)
    BY <1>2, <2>1, <2>2
  <2>4. QED
    BY <1>2, <2>3
<1>5. QED
  BY <1>3, <1>4

LEMMA NoCircle == LockInv => NoCircularWait
<1> SUFFICES ASSUME LockInv, NEW tasks \in SUBSET Callers, tasks # {}
             PROVE  \E c \in tasks : \A lock \in Wants(c) :
                       (Holders(c, lock) \cup Queued(c, lock)) \cap tasks = {}
  BY DEF NoCircularWait
<1>1. PICK c \in tasks : \A d \in tasks : ~(Rank(task[c]) < Rank(task[d]))
  BY FurthestOn
<1>2. ASSUME NEW lock \in Wants(c), NEW d \in tasks,
             d \in Holders(c, lock) \cup Queued(c, lock)
      PROVE  FALSE
  BY <1>1, <1>2, Outranked
<1>3. QED
  BY <1>2

-----------------------------------------------------------------------------
(* The tasks the steps make. *)

LEMMA IdleFacts ==
    /\ Idle \in Task
    /\ Idle.kind = "idle" /\ Idle.pc = "idle" /\ Idle.held = {} /\ Idle.gen = 0
    /\ Idle.bearer = None /\ Idle.desired = None /\ Idle.revision = 0 /\ Idle.opens = FALSE
BY DesktopIdentityAssumption DEF Idle, Task, Choices

LEMMA IdleIsHarmless ==
    ASSUME IdentityTypes
    PROVE  Stands(Idle) /\ BearerInv(Idle) /\ ChoiceInv(Idle)
BY IdleFacts DEF Stands, BearerInv, ChoiceInv, IdentityTypes

LEMMA AuthenticatingFacts ==
    ASSUME IdentityTypes, NEW t \in Task
    PROVE  /\ Authenticating(t) \in Task
           /\ Authenticating(t).pc \in {"ready", "registration"}
           /\ Authenticating(t).gen = app.generation
           /\ Authenticating(t).kind = t.kind
           /\ Authenticating(t).held = t.held
           /\ Authenticating(t).bearer = t.bearer
           /\ Authenticating(t).desired = t.desired
           /\ Authenticating(t).revision = t.revision
BY DEF Authenticating, Task, IdentityTypes

LEMMA RegisteredFacts ==
    ASSUME NEW t \in Task, NEW failed \in BOOLEAN, t.kind # "renew"
    PROVE  /\ Registered(t, failed) \in Task
           /\ Registered(t, failed).pc = "ready"
           /\ Registered(t, failed).gen = t.gen
           /\ Registered(t, failed).kind = t.kind
           /\ Registered(t, failed).held = t.held \ {"registration", "usage"}
           /\ Registered(t, failed).bearer = None
           /\ Registered(t, failed).desired = t.desired
           /\ Registered(t, failed).revision = t.revision
BY DEF Registered, Task

-----------------------------------------------------------------------------
(* One task moves on. *)

\* A task takes free locks and gives back what it likes.
LEMMA LockStep ==
    ASSUME LockInv, IdentityTypes, NEW c \in Callers, NEW t \in Task, Goes(c, t),
           Stands(t), NEW L, CanTake(c, L), t.held \subseteq task[c].held \cup L,
           t.kind = task[c].kind \/ t.held \subseteq {"webview", "registration"},
           t.kind = "reset" => task[c].kind = "reset" \/ ~Running("reset")
    PROVE  LockInv'
<1>1. /\ task \in [Callers -> Task]
      /\ task' = [task EXCEPT ![c] = t]
  BY DEF IdentityTypes, Goes
<1>2. task'[c] = t /\ \A d \in Callers \ {c} : task'[d] = task[d]
  BY <1>1
<1>3. \A d \in Callers : Stands(task'[d])
  BY <1>2 DEF LockInv
<1>4. \A d \in Callers : task[d].kind # "reset" \/ d = c \/ t.kind # "reset"
  BY DEF LockInv, Running
<1>5. ASSUME NEW d \in Callers \ {c}, NEW lock \in t.held, lock \in task[d].held
      PROVE  /\ lock \in {"usage", "identity"}
             /\ t.kind \notin {"reset", "adopt"}
             /\ task[d].kind \notin {"reset", "adopt"}
  <2>1. Compatible(lock, c, d)
    BY <1>5 DEF LockInv, CanTake, Holders
  <2>2. QED
    BY <2>1 DEF Compatible
<1>6. \A d \in Callers : CanTake(d, task[d].held)'
  <2>1. ASSUME NEW d \in Callers, NEW e \in Callers \ {d}, NEW lock \in task'[d].held,
               lock \in task'[e].held
        PROVE  Compatible(lock, d, e)'
    <3>1. CASE d = c
      BY <1>2, <1>5, <2>1, <3>1 DEF Compatible
    <3>2. CASE e = c
      BY <1>2, <1>5, <2>1, <3>2 DEF Compatible
    <3>3. CASE d # c /\ e # c
      BY <1>2, <2>1, <3>3 DEF LockInv, CanTake, Holders, Compatible
    <3>4. QED
      BY <3>1, <3>2, <3>3
  <2>2. QED
    BY <2>1 DEF CanTake, Holders
<1>7. \A d, e \in Callers : task'[d].kind = "reset" /\ task'[e].kind = "reset" => d = e
  BY <1>2, <1>4 DEF LockInv
<1>8. QED
  BY <1>3, <1>6, <1>7 DEF LockInv

\* A step that changes one task and nothing else.
LEMMA TaskOnly ==
    ASSUME IInv, NEW c \in Callers, NEW t \in Task, Goes(c, t),
           UNCHANGED <<disk, app, server, late, age, overtaken, incidents>>,
           Stands(t), BearerInv(t), ChoiceInv(t),
           NEW L, CanTake(c, L), t.held \subseteq task[c].held \cup L,
           t.kind = task[c].kind \/ t.held \subseteq {"webview", "registration"},
           t.kind = "reset" => task[c].kind = "reset",
           task[c].pc \in {"accepting", "setting"} => t.pc \in {"accepting", "setting"}
    PROVE  IInv'
<1>1. /\ task \in [Callers -> Task]
      /\ task' = [task EXCEPT ![c] = t]
  BY DEF IInv, IdentityTypes, Goes
<1>2. task'[c] = t /\ \A d \in Callers \ {c} : task'[d] = task[d]
  BY <1>1
<1>3. IdentityTypes'
  BY <1>1 DEF IInv, IdentityTypes
<1>4. LockInv'
  BY LockStep DEF IInv
<1>5. CredentialInv'
  <2>1. Running("reset")' => Running("reset")
    BY <1>2 DEF Running
  <2>2. QED
    BY <2>1 DEF IInv, CredentialInv, CredentialIsOurs, Known, Honours, Valid
<1>6. ASSUME NEW d \in Callers
      PROVE  BearerInv(task[d])' /\ ChoiceInv(task[d])'
  BY <1>2 DEF IInv, BearerInv, ChoiceInv, Known, Honours, Valid, Synced
<1>7. AgreementInv'
  BY <1>2 DEF IInv, AgreementInv, Honours, Valid, Synced
<1>8. QED
  BY <1>3, <1>4, <1>5, <1>6, <1>7 DEF IInv

LEMMA NoLocks == \A c \in Callers : CanTake(c, {})
BY DEF CanTake

\* A task that goes to authenticate believes nothing yet but the choice it started with.
LEMMA AuthenticatingIsHarmless ==
    ASSUME IInv, NEW t \in Task, t.kind \in {"call", "webview", "sync", "opened"},
           t.held = Own(t), t.bearer # None => Known(t.bearer),
           t.kind = "sync" =>
              t.revision <= app.revision /\ (t.revision = app.revision => t.desired = app.desired)
    PROVE  LET a == Authenticating(t) IN
           /\ a \in Task /\ a.kind = t.kind /\ a.held = t.held
           /\ Stands(a) /\ BearerInv(a) /\ ChoiceInv(a)
<1>1. IdentityTypes
  BY DEF IInv
<1>2. app.generation \in Nat /\ app.generation <= app.generation
  BY <1>1 DEF IdentityTypes
<1>3. QED
  BY <1>1, <1>2, AuthenticatingFacts DEF Stands, Own, BearerInv, ChoiceInv

LEMMA CallStep ==
    ASSUME IInv, NEW c \in Callers, Call(c)
    PROVE  IInv'
<1> DEFINE t == [Idle EXCEPT !.kind = "call"]
<1>1. /\ t \in Task /\ t.kind = "call" /\ t.held = {} /\ t.bearer = None
  BY IdleFacts DEF Task
<1>2. /\ Goes(c, Authenticating(t)) /\ task[c].pc = "idle"
      /\ UNCHANGED <<disk, app, server, late, age, overtaken, incidents>>
  BY DEF Call, At
<1> HIDE DEF t
<1>3. QED
  BY <1>1, <1>2, AuthenticatingIsHarmless, TaskOnly, NoLocks DEF Own

LEMMA BootstrapStep ==
    ASSUME IInv, NEW c \in Callers, Bootstrap(c)
    PROVE  IInv'
<1> DEFINE t == [Idle EXCEPT !.kind = "webview", !.pc = "webview"]
<1>1. /\ t \in Task /\ t.kind = "webview" /\ t.pc = "webview" /\ t.held = {}
      /\ t.bearer = None /\ t.gen = 0
  BY IdleFacts DEF Task
<1>2. /\ Goes(c, t) /\ task[c].pc = "idle"
      /\ UNCHANGED <<disk, app, server, late, age, overtaken, incidents>>
  BY DEF Bootstrap, At
<1> HIDE DEF t
<1>3. Stands(t) /\ BearerInv(t) /\ ChoiceInv(t)
  BY <1>1 DEF Stands, BearerInv, ChoiceInv, IInv, IdentityTypes
<1>4. QED
  BY <1>1, <1>2, <1>3, TaskOnly, NoLocks

LEMMA TakeWebviewStep ==
    ASSUME IInv, NEW c \in Callers, TakeWebview(c)
    PROVE  IInv'
<1> DEFINE t == [task[c] EXCEPT !.held = {"webview"}]
<1>1. /\ Goes(c, Authenticating(t)) /\ task[c].pc = "webview" /\ CanTake(c, {"webview"})
      /\ UNCHANGED <<disk, app, server, late, age, overtaken, incidents>>
  BY DEF TakeWebview, At
<1>2. task[c] \in Task /\ task[c].kind = "webview"
  BY <1>1 DEF IInv, IdentityTypes, LockInv, Stands
<1>3. /\ t \in Task /\ t.kind = "webview" /\ t.held = {"webview"}
      /\ t.bearer = task[c].bearer
  BY <1>2 DEF Task, Locks
<1>4. t.bearer # None => Known(t.bearer)
  BY <1>3 DEF IInv, BearerInv
<1> HIDE DEF t
<1>5. QED
  BY <1>1, <1>2, <1>3, <1>4, AuthenticatingIsHarmless, TaskOnly DEF Own

\* The synchronisation takes the choice as it is.
LEMMA SynchronisingFacts ==
    ASSUME IInv, NEW opens \in BOOLEAN
    PROVE  LET a == Synchronising(opens) IN
           /\ a \in Task /\ a.kind = "sync" /\ a.held = {}
           /\ Stands(a) /\ BearerInv(a) /\ ChoiceInv(a)
<1> DEFINE t == [Idle EXCEPT !.kind = "sync", !.opens = opens,
                             !.desired = app.desired, !.revision = app.revision]
<1>1. app.desired \in Choices /\ app.revision \in Nat
  BY DEF IInv, IdentityTypes
<1>2. /\ t \in Task /\ t.kind = "sync" /\ t.held = {} /\ t.bearer = None
      /\ t.revision = app.revision /\ t.desired = app.desired
  BY <1>1, IdleFacts DEF Task
<1>3. Synchronising(opens) = Authenticating(t)
  BY DEF Synchronising
<1> HIDE DEF t
<1>4. QED
  BY <1>1, <1>2, <1>3, AuthenticatingIsHarmless DEF Own

LEMMA OpenedFacts ==
    ASSUME IInv
    PROVE  LET a == Authenticating([Idle EXCEPT !.kind = "opened"]) IN
           /\ a \in Task /\ a.kind = "opened" /\ a.held = {}
           /\ a.pc \in {"ready", "registration"} /\ a.bearer = None
           /\ Stands(a) /\ BearerInv(a) /\ ChoiceInv(a)
<1> DEFINE t == [Idle EXCEPT !.kind = "opened"]
<1>1. /\ t \in Task /\ t.kind = "opened" /\ t.held = {} /\ t.bearer = None
  BY IdleFacts DEF Task
<1> HIDE DEF t
<1>2. /\ Authenticating(t) \in Task /\ Authenticating(t).kind = "opened"
      /\ Authenticating(t).held = {}
      /\ Stands(Authenticating(t)) /\ BearerInv(Authenticating(t)) /\ ChoiceInv(Authenticating(t))
  BY <1>1, AuthenticatingIsHarmless DEF Own
<1>3. Authenticating(t).pc \in {"ready", "registration"} /\ Authenticating(t).bearer = None
  BY <1>1, AuthenticatingFacts DEF IInv
<1>4. QED
  BY <1>2, <1>3 DEF t

LEMMA SyncStep ==
    ASSUME IInv, NEW c \in Callers, Sync(c)
    PROVE  IInv'
<1>1. /\ Goes(c, Synchronising(FALSE)) /\ task[c].pc = "idle"
      /\ UNCHANGED <<disk, app, server, late, age, overtaken, incidents>>
  BY DEF Sync, At
<1>2. QED
  BY <1>1, SynchronisingFacts, TaskOnly, NoLocks

LEMMA RecordUiOpenedStep ==
    ASSUME IInv, NEW c \in Callers, RecordUiOpened(c)
    PROVE  IInv'
<1>1. /\ task[c].pc = "idle"
      /\ UNCHANGED <<disk, app, server, late, age, overtaken, incidents>>
  BY DEF RecordUiOpened, At
<1>2. CASE Goes(c, Authenticating([Idle EXCEPT !.kind = "opened"]))
  BY <1>1, <1>2, OpenedFacts, TaskOnly, NoLocks
<1>3. CASE Goes(c, Synchronising(TRUE))
  BY <1>1, <1>3, SynchronisingFacts, TaskOnly, NoLocks
<1>4. QED
  BY <1>2, <1>3 DEF RecordUiOpened

-----------------------------------------------------------------------------
(* Registration, readiness and preference: the steps of one task. *)

\* What every task that runs is known to be.
LEMMA TaskFacts ==
    ASSUME IInv, NEW c \in Callers
    PROVE  /\ task[c] \in Task /\ Stands(task[c])
           /\ BearerInv(task[c]) /\ ChoiceInv(task[c])
           /\ task[c].gen \in 0 .. MaxIncidents /\ app.generation \in 0 .. MaxIncidents
           /\ task[c].held \subseteq Locks
BY DEF IInv, IdentityTypes, LockInv, Task

\* The end of ensure_registered, without a lock it took.
LEMMA RegisteredIsHarmless ==
    ASSUME IInv, NEW c \in Callers, NEW failed \in BOOLEAN,
           task[c].pc \in {"registration", "rotating", "registering"}
    PROVE  LET r == Registered(task[c], failed) IN
           /\ r \in Task /\ Stands(r) /\ BearerInv(r) /\ ChoiceInv(r)
           /\ r.held \subseteq task[c].held
           /\ r.kind = task[c].kind \/ r.held = {}
           /\ r.kind \in {"idle", "call", "webview", "sync", "opened"}
           /\ r.pc \in {"idle", "ready"} /\ r.bearer = None
<1>1. IdentityTypes
  BY DEF IInv
<1>2. CASE task[c].kind = "renew"
  <2>1. Registered(task[c], failed) = Idle
    BY <1>2 DEF Registered
  <2>2. QED
    BY <1>1, <2>1, IdleFacts, IdleIsHarmless
<1>3. CASE task[c].kind # "renew"
  <2>1. /\ task[c].kind \in {"call", "webview", "sync", "opened"}
        /\ task[c].held \ {"registration", "usage"} = Own(task[c])
        /\ task[c].pc # "calling"
    BY <1>3, TaskFacts DEF Stands, Own
  <2>2. PICK r \in Task : r = Registered(task[c], failed)
    BY <1>3, TaskFacts, RegisteredFacts
  <2>3. /\ r.pc = "ready" /\ r.gen = task[c].gen /\ r.kind = task[c].kind
        /\ r.held = Own(task[c]) /\ r.bearer = None
        /\ r.desired = task[c].desired /\ r.revision = task[c].revision
    <3>1. task[c] \in Task
      BY TaskFacts
    <3>2. QED
      BY <1>3, <2>1, <2>2, <3>1, RegisteredFacts
  <2>4. Stands(r) /\ r.held \subseteq task[c].held
    BY <1>3, <2>1, <2>3 DEF Stands, Own
  <2>5. BearerInv(r)
    BY <2>1, <2>3, TaskFacts DEF BearerInv
  <2>6. ChoiceInv(r)
    BY <2>1, <2>3, TaskFacts DEF ChoiceInv
  <2>7. QED
    BY <2>1, <2>2, <2>3, <2>4, <2>5, <2>6
<1>4. QED
  BY <1>2, <1>3

LEMMA TakeRegistrationStep ==
    ASSUME IInv, NEW c \in Callers, TakeRegistration(c)
    PROVE  IInv'
<1> DEFINE t == task[c]
           holding == [t EXCEPT !.held = @ \cup {"registration"}]
           rotating == [holding EXCEPT !.pc = "rotating", !.bearer = app.credential]
           enrolling == [holding EXCEPT !.pc = "enrol"]
<1>1. /\ t.pc = "registration" /\ CanTake(c, {"registration"})
      /\ UNCHANGED <<disk, app, server, late, age, overtaken, incidents>>
  BY DEF TakeRegistration, At
<1>2. /\ t \in Task /\ t.kind \in {"call", "webview", "sync", "opened", "renew"}
      /\ t.held = Own(t)
  BY <1>1, TaskFacts DEF Stands
<1>3. CASE /\ Valid(app.credential) /\ ShouldRotate(app.credential)
           /\ Goes(c, rotating)
  <2>1. /\ app.credential \in Credentials /\ app.credential # None
        /\ Known(app.credential) /\ app.credential[1] = app.installation
    BY <1>3 DEF Valid, IInv, IdentityTypes, CredentialInv, CredentialIsOurs
  <2>2. /\ rotating \in Task /\ rotating.pc = "rotating" /\ rotating.kind = t.kind
        /\ rotating.held = Own(t) \cup {"registration"}
        /\ rotating.bearer = app.credential /\ rotating.gen = t.gen
        /\ rotating.desired = t.desired /\ rotating.revision = t.revision
    BY <1>2, <2>1 DEF Task, Locks
  <2> HIDE DEF rotating
  <2>3. Stands(rotating) /\ BearerInv(rotating) /\ ChoiceInv(rotating)
    BY <1>1, <1>2, <2>1, <2>2, TaskFacts DEF Stands, Own, BearerInv, ChoiceInv
  <2>4. QED
    BY <1>1, <1>2, <1>3, <2>2, <2>3, TaskOnly
<1>4. CASE app.enrollment = "New" /\ Goes(c, enrolling)
  <2>1. /\ enrolling \in Task /\ enrolling.pc = "enrol" /\ enrolling.kind = t.kind
        /\ enrolling.held = Own(t) \cup {"registration"}
        /\ enrolling.bearer = t.bearer /\ enrolling.gen = t.gen
        /\ enrolling.desired = t.desired /\ enrolling.revision = t.revision
    BY <1>2 DEF Task, Locks
  <2> HIDE DEF enrolling
  <2>2. Stands(enrolling) /\ BearerInv(enrolling) /\ ChoiceInv(enrolling)
    BY <1>1, <1>2, <1>4, <2>1, TaskFacts DEF Stands, Own, BearerInv, ChoiceInv
  <2>3. QED
    BY <1>1, <1>2, <1>4, <2>1, <2>2, TaskOnly
<1>5. ASSUME NEW failed \in BOOLEAN, Goes(c, Registered(t, failed))
      PROVE  IInv'
  BY <1>1, <1>5, RegisteredIsHarmless, TaskOnly, NoLocks
<1>6. QED
  BY <1>3, <1>4, <1>5 DEF TakeRegistration

LEMMA EnrolStep ==
    ASSUME IInv, NEW c \in Callers, Enrol(c)
    PROVE  IInv'
<1> DEFINE t == [task[c] EXCEPT !.pc = "registering", !.held = @ \cup {"usage"}]
<1>1. /\ task[c].pc = "enrol" /\ CanTake(c, {"usage"}) /\ Goes(c, t)
      /\ UNCHANGED <<disk, app, server, late, age, overtaken, incidents>>
  BY DEF Enrol, At
<1>2. task[c] \in Task
  BY TaskFacts
<1>3. /\ t \in Task /\ t.pc = "registering" /\ t.kind = task[c].kind
      /\ t.held = task[c].held \cup {"usage"}
      /\ t.bearer = task[c].bearer /\ t.gen = task[c].gen
      /\ t.desired = task[c].desired /\ t.revision = task[c].revision
  BY <1>2 DEF Task, Locks
<1> HIDE DEF t
<1>4. Stands(t) /\ BearerInv(t) /\ ChoiceInv(t)
  BY <1>1, <1>3, TaskFacts DEF Stands, Own, BearerInv, ChoiceInv
<1>5. QED
  BY <1>1, <1>3, <1>4, TaskOnly

\* A bearer the generation vouches for is this installation's.
LEMMA ReadyStep ==
    ASSUME IInv, NEW c \in Callers, Ready(c)
    PROVE  IInv'
<1> DEFINE t == task[c]
           calling == [t EXCEPT !.bearer = app.credential,
                                !.revision = IF t.kind = "opened" THEN app.revision ELSE @,
                                !.pc = IF t.kind \in {"sync", "opened"} THEN "usage"
                                       ELSE "calling"]
<1>1. /\ t.pc = "ready"
      /\ UNCHANGED <<disk, app, server, late, age, overtaken, incidents>>
  BY DEF Ready, At
<1>2. /\ t \in Task /\ t.kind \in {"call", "webview", "sync", "opened"}
      /\ t.held = Own(t)
  BY <1>1, TaskFacts DEF Stands
<1>3. CASE Goes(c, Authenticating(t))
  <2>1. /\ t.bearer # None => Known(t.bearer)
        /\ t.kind = "sync" => t.revision <= app.revision
                              /\ (t.revision = app.revision => t.desired = app.desired)
    BY TaskFacts DEF BearerInv, ChoiceInv
  <2>2. QED
    BY <1>1, <1>2, <1>3, <2>1, AuthenticatingIsHarmless, TaskOnly, NoLocks
<1>4. CASE Goes(c, Idle)
  <2>1. IdentityTypes
    BY DEF IInv
  <2>2. QED
    BY <1>1, <1>4, <2>1, IdleFacts, IdleIsHarmless, TaskOnly, NoLocks
<1>5. CASE Valid(app.credential) /\ t.gen = app.generation /\ Goes(c, calling)
  <2>1. /\ app.credential \in Credentials /\ app.credential # None
        /\ Known(app.credential) /\ app.credential[1] = app.installation
        /\ app.enrollment # "New" /\ app.revision \in Nat
    BY <1>5 DEF Valid, IInv, IdentityTypes, CredentialInv, CredentialIsOurs
  <2>2. /\ calling \in Task /\ calling.kind = t.kind /\ calling.held = t.held
        /\ calling.pc = IF t.kind \in {"sync", "opened"} THEN "usage" ELSE "calling"
        /\ calling.bearer = app.credential /\ calling.gen = t.gen
        /\ calling.desired = t.desired
        /\ calling.revision = IF t.kind = "opened" THEN app.revision ELSE t.revision
    BY <1>2, <2>1 DEF Task
  <2> HIDE DEF calling
  <2>3. Stands(calling) /\ BearerInv(calling) /\ ChoiceInv(calling)
    BY <1>1, <1>2, <2>1, <2>2, TaskFacts DEF Stands, Own, BearerInv, ChoiceInv
  <2>4. QED
    BY <1>1, <1>2, <1>5, <2>2, <2>3, TaskOnly, NoLocks
<1>6. QED
  BY <1>3, <1>4, <1>5 DEF Ready

\* Every branch of Current(t) is a task that may stand anywhere.
LEMMA CurrentIsHarmless ==
    ASSUME IInv, NEW t
    PROVE  LET r == Current(t) IN
           /\ r \in Task /\ r.kind \in {"idle", "opened"} /\ r.held = {}
           /\ r.pc \in {"idle", "ready", "registration"} /\ r.bearer = None
           /\ Stands(r) /\ BearerInv(r) /\ ChoiceInv(r)
<1>1. IdentityTypes
  BY DEF IInv
<1>2. CASE t.opens
  BY <1>2, OpenedFacts DEF Current
<1>3. CASE ~t.opens
  BY <1>1, <1>3, IdleFacts, IdleIsHarmless DEF Current
<1>4. QED
  BY <1>2, <1>3

\* The choice a request carries is the one in force, until the answer.
LEMMA PutPreferenceStep ==
    ASSUME IInv, NEW c \in Callers, PutPreference(c)
    PROVE  IInv'
<1> DEFINE t == task[c]
           calling == [t EXCEPT !.pc = "calling", !.held = {"usage"}]
<1>1. /\ t.pc = "usage" /\ t.kind = "sync" /\ CanTake(c, {"usage"})
      /\ UNCHANGED <<disk, app, server, late, age, overtaken, incidents>>
      /\ t \in Task
  BY TaskFacts DEF PutPreference, At
<1>2. CASE Goes(c, Current(t))
  BY <1>1, <1>2, CurrentIsHarmless, TaskOnly, NoLocks
<1>3. CASE /\ app.revision = t.revision /\ app.desired = t.desired
           /\ Goes(c, calling)
  <2>1. /\ calling \in Task /\ calling.kind = "sync" /\ calling.held = {"usage"}
        /\ calling.pc = "calling"
        /\ calling.bearer = t.bearer /\ calling.gen = t.gen
        /\ calling.desired = t.desired /\ calling.revision = t.revision
    BY <1>1 DEF Task, Locks
  <2> HIDE DEF calling
  <2>2. Stands(calling) /\ BearerInv(calling) /\ ChoiceInv(calling)
    BY <1>1, <1>3, <2>1, TaskFacts DEF Stands, BearerInv, ChoiceInv
  <2>3. QED
    BY <1>1, <1>3, <2>1, <2>2, TaskOnly
<1>4. QED
  BY <1>2, <1>3 DEF PutPreference

\* An attempt to report the opened window goes out under locks, for the choice in force.
LEMMA SendOpenedStep ==
    ASSUME IInv, NEW c \in Callers, SendOpened(c)
    PROVE  IInv'
<1> DEFINE t == task[c]
           calling == [t EXCEPT !.pc = "calling", !.held = {"usage", "identity"}]
<1>1. /\ t.pc = "usage" /\ t.kind = "opened" /\ CanTake(c, {"usage", "identity"})
      /\ UNCHANGED <<disk, app, server, late, age, overtaken, incidents>>
      /\ t \in Task
  BY TaskFacts DEF SendOpened, At
<1>2. CASE Goes(c, Idle)
  <2>1. IdentityTypes
    BY DEF IInv
  <2>2. QED
    BY <1>1, <1>2, <2>1, IdleFacts, IdleIsHarmless, TaskOnly, NoLocks
<1>3. CASE MayReport(t) /\ Goes(c, calling)
  <2>1. /\ calling \in Task /\ calling.kind = "opened"
        /\ calling.held = {"usage", "identity"}
        /\ calling.pc = "calling"
        /\ calling.bearer = t.bearer /\ calling.gen = t.gen
        /\ calling.desired = t.desired /\ calling.revision = t.revision
    BY <1>1 DEF Task, Locks
  <2> HIDE DEF calling
  <2>2. Stands(calling)
    BY <2>1 DEF Stands
  <2>3. BearerInv(calling)
    BY <1>1, <2>1, TaskFacts DEF BearerInv
  <2>4. ChoiceInv(calling)
    BY <1>3, <2>1 DEF MayReport, ChoiceInv
  <2>5. QED
    BY <1>1, <1>3, <2>1, <2>2, <2>3, <2>4, TaskOnly
<1>4. QED
  BY <1>2, <1>3 DEF SendOpened

\* A reset waits for its locks with an incident of its own.
LEMMA StartResetStep ==
    ASSUME IInv, NEW c \in Callers, StartReset(c)
    PROVE  IInv'
<1> DEFINE t == [Idle EXCEPT !.kind = "reset", !.pc = "locking"]
<1>1. /\ task[c].pc = "idle" /\ Goes(c, t)
      /\ app.enrollment # "ResetRequired" /\ Valid(app.credential)
      /\ ~Running("reset")
      /\ incidents < MaxIncidents /\ incidents' = incidents + 1
      /\ UNCHANGED <<disk, app, server, late, age, overtaken>>
  BY DEF StartReset, Incident, Connected, At
<1>2. /\ t \in Task /\ t.kind = "reset" /\ t.pc = "locking" /\ t.held = {}
      /\ t.bearer = None /\ t.gen = 0
  BY IdleFacts DEF Task
<1> HIDE DEF t
<1>3. /\ task \in [Callers -> Task]
      /\ task' = [task EXCEPT ![c] = t]
  BY <1>1 DEF IInv, IdentityTypes, Goes
<1>4. task'[c] = t /\ \A d \in Callers \ {c} : task'[d] = task[d]
  BY <1>3
<1>5. incidents' \in 0 .. MaxIncidents /\ incidents \in Nat /\ app.generation \in Nat
  BY <1>1, DesktopIdentityAssumption DEF IInv, IdentityTypes
<1>6. IdentityTypes'
  BY <1>1, <1>2, <1>3, <1>5 DEF IInv, IdentityTypes
<1>7. LockInv'
  BY <1>1, <1>2, LockStep, NoLocks DEF IInv, Stands
<1>8. CredentialInv'
  BY <1>1, <1>5 DEF IInv, CredentialInv, CredentialIsOurs, Known, Honours, Valid
<1>9. ASSUME NEW d \in Callers
      PROVE  BearerInv(task[d])' /\ ChoiceInv(task[d])'
  <2>1. CASE d = c
    <3>1. app.enrollment # "New" /\ 0 <= app.generation
      BY <1>1, <1>5 DEF IInv, CredentialInv, Valid
    <3>2. QED
      BY <1>1, <1>2, <1>4, <2>1, <3>1 DEF BearerInv, ChoiceInv
  <2>2. CASE d # c
    BY <1>1, <1>4, <2>2 DEF IInv, BearerInv, ChoiceInv, Known, Honours, Valid, Synced
  <2>3. QED
    BY <2>1, <2>2
<1>10. AgreementInv'
  BY <1>1, <1>4 DEF IInv, AgreementInv, Honours, Valid, Synced
<1>11. QED
  BY <1>6, <1>7, <1>8, <1>9, <1>10 DEF IInv

\* The reset takes the next lock, or has them all.
LEMMA LocksInTurn ==
    ASSUME NEW held \in {{}, {"webview"}, {"webview", "registration"},
                         {"webview", "registration", "usage"}}
    PROVE  LET next == held \cup {NextLock(held)} IN
           /\ NextLock(held) \in Locks
           /\ Cardinality(next) < Len(ResetOrder) =>
                 next \in {{}, {"webview"}, {"webview", "registration"},
                           {"webview", "registration", "usage"}}
           /\ ~(Cardinality(next) < Len(ResetOrder)) => next = Locks
<1>0. Len(ResetOrder) = 4
  BY DEF ResetOrder
<1>1. CASE held = {}
  <2>1. held \cup {NextLock(held)} = {"webview"}
    BY <1>1, NextLocks
  <2>2. QED
    BY <1>0, <1>1, <2>1, NextLocks, PrefixCardinality DEF Locks
<1>2. CASE held = {"webview"}
  <2>1. held \cup {NextLock(held)} = {"webview", "registration"}
    BY <1>2, NextLocks
  <2>2. Cardinality({"webview", "registration"}) < 4
    BY PrefixCardinality
  <2>3. QED
    BY <1>0, <1>2, <2>1, <2>2, NextLocks DEF Locks
<1>3. CASE held = {"webview", "registration"}
  <2>1. held \cup {NextLock(held)} = {"webview", "registration", "usage"}
    BY <1>3, NextLocks
  <2>2. Cardinality({"webview", "registration", "usage"}) < 4
    BY PrefixCardinality
  <2>3. QED
    BY <1>0, <1>3, <2>1, <2>2, NextLocks DEF Locks
<1>4. CASE held = {"webview", "registration", "usage"}
  <2>1. held \cup {NextLock(held)} = Locks
    BY <1>4, NextLocks DEF Locks
  <2>2. QED
    BY <1>0, <1>4, <2>1, NextLocks
<1>5. QED
  BY <1>1, <1>2, <1>3, <1>4

LEMMA TakeLockStep ==
    ASSUME IInv, NEW c \in Callers, TakeLock(c)
    PROVE  IInv'
<1> DEFINE t == task[c]
           held == t.held \cup {NextLock(t.held)}
           further == [t EXCEPT !.held = held]
           deleting == [t EXCEPT !.held = held, !.pc = "deleting", !.bearer = app.credential]
           deleted == [t EXCEPT !.held = held, !.pc = "deleted"]
<1>1. /\ t.pc = "locking" /\ CanTake(c, {NextLock(t.held)})
      /\ UNCHANGED <<disk, app, server, late, age, overtaken, incidents>>
      /\ t \in Task /\ Stands(t) /\ BearerInv(t) /\ ChoiceInv(t)
  BY TaskFacts DEF TakeLock, At
<1>2. /\ t.kind = "reset" /\ app.enrollment # "New"
      /\ t.held \in {{}, {"webview"}, {"webview", "registration"},
                     {"webview", "registration", "usage"}}
  BY <1>1 DEF Stands, BearerInv
<1>3. held \in SUBSET Locks
  BY <1>2, LocksInTurn DEF Locks
<1>4. CASE Cardinality(held) < Len(ResetOrder) /\ Goes(c, further)
  <2>1. /\ further \in Task /\ further.kind = "reset" /\ further.pc = "locking"
        /\ further.held = held /\ further.gen = t.gen /\ further.bearer = t.bearer
    BY <1>1, <1>2, <1>3 DEF Task
  <2>2. held \in {{}, {"webview"}, {"webview", "registration"},
                  {"webview", "registration", "usage"}}
    BY <1>2, <1>4, LocksInTurn
  <2> HIDE DEF further
  <2>3. Stands(further) /\ BearerInv(further) /\ ChoiceInv(further)
    BY <1>1, <1>2, <2>1, <2>2 DEF Stands, BearerInv, ChoiceInv
  <2>4. QED
    BY <1>1, <1>2, <1>4, <2>1, <2>3, TaskOnly
<1>5. CASE /\ ~(Cardinality(held) < Len(ResetOrder)) /\ Valid(app.credential)
           /\ Goes(c, deleting)
  <2>1. /\ app.credential \in Credentials /\ app.credential # None /\ Known(app.credential)
    BY <1>5 DEF Valid, IInv, IdentityTypes, CredentialInv
  <2>2. /\ deleting \in Task /\ deleting.kind = "reset" /\ deleting.pc = "deleting"
        /\ deleting.held = held /\ deleting.gen = t.gen /\ deleting.bearer = app.credential
    BY <1>1, <1>2, <1>3, <2>1 DEF Task
  <2>3. held = Locks
    BY <1>2, <1>5, LocksInTurn
  <2> HIDE DEF deleting
  <2>4. Stands(deleting) /\ BearerInv(deleting) /\ ChoiceInv(deleting)
    BY <1>1, <1>2, <2>1, <2>2, <2>3 DEF Stands, BearerInv, ChoiceInv
  <2>5. QED
    BY <1>1, <1>2, <1>5, <2>2, <2>4, TaskOnly
<1>6. CASE /\ ~(Cardinality(held) < Len(ResetOrder)) /\ ~Valid(app.credential)
           /\ Goes(c, deleted)
  <2>1. /\ deleted \in Task /\ deleted.kind = "reset" /\ deleted.pc = "deleted"
        /\ deleted.held = held /\ deleted.gen = t.gen /\ deleted.bearer = t.bearer
    BY <1>1, <1>2, <1>3 DEF Task
  <2>2. held = Locks
    BY <1>2, <1>6, LocksInTurn
  <2> HIDE DEF deleted
  <2>3. Stands(deleted) /\ BearerInv(deleted) /\ ChoiceInv(deleted)
    BY <1>1, <1>2, <1>6, <2>1, <2>2 DEF Stands, BearerInv, ChoiceInv, Honours
  <2>4. QED
    BY <1>1, <1>2, <1>6, <2>1, <2>3, TaskOnly
<1>7. QED
  BY <1>4, <1>5, <1>6 DEF TakeLock

-----------------------------------------------------------------------------
(* What the server makes of a request. *)

\* Only a put it accepts changes the preference of a credential it still honours, and it
\* honours none it did not honour before, but the one it issues.
LEMMA HandleFacts ==
    ASSUME IdentityTypes, NEW r \in Requests, Handle(r), UNCHANGED age
    PROVE  /\ server' \in [session: [Installations -> 0..MaxSessions],
                           issued: [Installations -> 0..MaxSessions],
                           usage: [Installations -> Choices]]
           /\ \A i \in Installations : /\ server'.session[i] <= server'.issued[i]
                                       /\ server.issued[i] <= server'.issued[i]
           /\ \A b \in Credentials : Known(b) => Known(b)'
           /\ \A b \in Credentials : Known(b) /\ Honours(b)' => Honours(b)
           /\ \A b \in Credentials :
                 Known(b) /\ Honours(b)' =>
                    \/ server'.usage[b[1]] = server.usage[b[1]]
                    \/ /\ r.call = "put" /\ AnswerTo(r).result = "ok"
                       /\ server'.usage[b[1]] = r.value
           /\ AnswerTo(r).result = "issued" =>
                 /\ r.call \in {"register", "rotate"}
                 /\ r.call = "rotate" => Honours(r.bearer)
                 /\ AnswerTo(r).credential = <<r.installation, server.issued[r.installation] + 1>>
                 /\ AnswerTo(r).credential \in Credentials
                 /\ server'.session[r.installation] = server.issued[r.installation] + 1
                 /\ server'.issued[r.installation] = server.issued[r.installation] + 1
                 /\ server'.usage[r.installation] =
                       IF r.call = "register" THEN r.value ELSE server.usage[r.installation]
           /\ AnswerTo(r).result = "ok" /\ r.call = "put" =>
                 server'.usage[r.installation] = r.value
           /\ AnswerTo(r).result = "ok" /\ r.call = "delete" =>
                 server'.session[r.installation] = 0
           /\ AnswerTo(r).result = "ok" =>
                 /\ Honours(r.bearer)
                 /\ r.call \notin {"put", "delete"} => UNCHANGED server
           /\ AnswerTo(r).result \in {"unauthorized", "rejected"} =>
                 /\ UNCHANGED server
                 /\ r.call # "register" => ~Honours(r.bearer)
<1> DEFINE i == r.installation
           n == server.issued[i] + 1
<1>1. /\ i \in Installations /\ r.value \in Choices /\ None \in Choices
      /\ r.call \in {"rotate", "register", "delete", "put", "call"}
      /\ r.bearer \in Credentials \cup {None}
  BY DEF Requests, Choices
<1>2. /\ server \in [session: [Installations -> 0..MaxSessions],
                     issued: [Installations -> 0..MaxSessions],
                     usage: [Installations -> Choices]]
      /\ \A j \in Installations : server.session[j] <= server.issued[j]
      /\ MaxSessions \in Nat \ {0}
  BY DesktopIdentityAssumption DEF IdentityTypes
<1>3. \A b \in Credentials : b[1] \in Installations /\ b[2] \in 1 .. MaxSessions
  BY DEF Credentials
<1>4. \A b \in Credentials : /\ Honours(b) <=> Valid(b) /\ server.session[b[1]] = b[2]
                             /\ Honours(b)' <=> Valid(b)' /\ server'.session[b[1]] = b[2]
                             /\ Valid(b)' <=> Valid(b)
                             /\ Known(b) <=> b[2] <= server.issued[b[1]]
                             /\ Known(b)' <=> b[2] <= server'.issued[b[1]]
  BY DEF Honours, Valid, Known
<1>5. CASE AnswerTo(r).result \in {"unauthorized", "rejected"}
  <2>1. server' = server
    BY <1>5 DEF Handle
  <2>2. r.call # "register" => ~Honours(r.bearer)
    BY <1>5 DEF AnswerTo, Answer
  <2>3. QED
    BY <1>2, <1>3, <1>4, <1>5, <2>1, <2>2
<1>6. CASE AnswerTo(r).result = "issued"
  <2>1. /\ server.issued[i] < MaxSessions
        /\ server' = [server EXCEPT !.session[i] = n, !.issued[i] = n,
                                    !.usage[i] = IF r.call = "register" THEN r.value ELSE @]
    BY <1>6 DEF Handle, Following
  <2>2. /\ r.call \in {"register", "rotate"}
        /\ AnswerTo(r).credential = <<i, n>>
        /\ r.call = "register" => server.session[i] = 0
        /\ r.call = "rotate" => Honours(r.bearer)
    BY <1>1, <1>6 DEF AnswerTo, Answer, Following
  <2>3. n \in 1 .. MaxSessions /\ <<i, n>> \in Credentials
    BY <1>1, <1>2, <2>1 DEF Credentials
  <2>4. /\ server'.session = [server.session EXCEPT ![i] = n]
        /\ server'.issued = [server.issued EXCEPT ![i] = n]
        /\ server'.usage = [server.usage EXCEPT ![i] = IF r.call = "register" THEN r.value ELSE @]
        /\ server' \in [session: [Installations -> 0..MaxSessions],
                        issued: [Installations -> 0..MaxSessions],
                        usage: [Installations -> Choices]]
    <3>1. server'.session = [server.session EXCEPT ![i] = n]
      BY <1>1, <1>2, <2>1, <2>3
    <3>2. server'.issued = [server.issued EXCEPT ![i] = n]
      BY <1>1, <1>2, <2>1, <2>3
    <3>3. server'.usage
             = [server.usage EXCEPT ![i] = IF r.call = "register" THEN r.value ELSE @]
      BY <1>1, <1>2, <2>1, <2>3
    <3>4. server' = [session |-> server'.session, issued |-> server'.issued,
                     usage |-> server'.usage]
      BY <1>1, <1>2, <2>1, <2>3
    <3>5. n \in 0 .. MaxSessions
      BY <1>2, <2>3
    <3>6. QED
      BY <1>1, <1>2, <3>1, <3>2, <3>3, <3>4, <3>5
  <2>5. /\ server'.session[i] = n /\ server'.issued[i] = n
        /\ server'.usage[i] = IF r.call = "register" THEN r.value ELSE server.usage[i]
        /\ \A j \in Installations \ {i} : /\ server'.session[j] = server.session[j]
                                          /\ server'.issued[j] = server.issued[j]
                                          /\ server'.usage[j] = server.usage[j]
    BY <1>1, <1>2, <2>4
  <2>6. \A j \in Installations : /\ server'.session[j] <= server'.issued[j]
                                 /\ server.issued[j] <= server'.issued[j]
    BY <1>1, <1>2, <2>3, <2>5
  <2>7. \A b \in Credentials :
           Known(b) => /\ Known(b)'
                       /\ Honours(b)' => Honours(b) /\ server'.usage[b[1]] = server.usage[b[1]]
    BY <1>1, <1>2, <1>3, <1>4, <2>3, <2>5
  <2>8. QED
    BY <1>6, <2>2, <2>3, <2>4, <2>5, <2>6, <2>7
<1>7. CASE AnswerTo(r).result = "ok"
  <2>1. r.call # "register" /\ Honours(r.bearer)
    BY <1>7 DEF AnswerTo, Answer
  <2>2. CASE r.call = "delete"
    <3>1. server' = [server EXCEPT !.session[i] = 0, !.usage[i] = None]
      BY <1>7, <2>2 DEF Handle
    <3>2. /\ server'.session = [server.session EXCEPT ![i] = 0]
          /\ server'.issued = server.issued
          /\ server'.usage = [server.usage EXCEPT ![i] = None]
          /\ server' \in [session: [Installations -> 0..MaxSessions],
                          issued: [Installations -> 0..MaxSessions],
                          usage: [Installations -> Choices]]
      <4>1. server'.session = [server.session EXCEPT ![i] = 0]
        BY <1>1, <1>2, <3>1
      <4>2. server'.issued = server.issued
        BY <1>1, <1>2, <3>1
      <4>3. server'.usage = [server.usage EXCEPT ![i] = None]
        BY <1>1, <1>2, <3>1
      <4>4. server' = [session |-> server'.session, issued |-> server'.issued,
                       usage |-> server'.usage]
        BY <1>1, <1>2, <3>1
      <4>5. QED
        BY <1>1, <1>2, <4>1, <4>2, <4>3, <4>4
    <3>3. /\ server'.session[i] = 0
          /\ \A j \in Installations \ {i} : /\ server'.session[j] = server.session[j]
                                            /\ server'.usage[j] = server.usage[j]
      BY <1>1, <1>2, <3>2
    <3>4. QED
      BY <1>1, <1>2, <1>3, <1>4, <1>7, <2>1, <2>2, <3>2, <3>3
  <2>3. CASE r.call = "put"
    <3>1. server' = [server EXCEPT !.usage[i] = r.value]
      BY <1>7, <2>3 DEF Handle
    <3>2. /\ server'.session = server.session
          /\ server'.issued = server.issued
          /\ server'.usage = [server.usage EXCEPT ![i] = r.value]
          /\ server' \in [session: [Installations -> 0..MaxSessions],
                          issued: [Installations -> 0..MaxSessions],
                          usage: [Installations -> Choices]]
      BY <1>1, <1>2, <3>1
    <3>3. /\ server'.usage[i] = r.value
          /\ \A j \in Installations \ {i} : server'.usage[j] = server.usage[j]
      BY <1>1, <1>2, <3>2
    <3>4. QED
      BY <1>1, <1>2, <1>3, <1>4, <1>7, <2>1, <2>3, <3>2, <3>3
  <2>4. CASE r.call \notin {"delete", "put"}
    <3>1. server' = server
      BY <1>7, <2>1, <2>4 DEF Handle
    <3>2. QED
      BY <1>2, <1>3, <1>4, <1>7, <2>1, <2>4, <3>1
  <2>5. QED
    BY <2>2, <2>3, <2>4
<1>8. AnswerTo(r).result \in {"unauthorized", "rejected", "issued", "ok"}
  BY DEF AnswerTo, Answer
<1>9. QED
  BY <1>5, <1>6, <1>7, <1>8

LEMMA RequestFacts ==
    ASSUME IInv, NEW c \in Callers, OnTheWire(c)
    PROVE  /\ Request(c) \in Requests
           /\ Request(c).bearer = task[c].bearer
           /\ task[c].pc = "registering" =>
                 /\ Request(c).call = "register"
                 /\ Request(c).installation = app.installation
                 /\ Request(c).value = app.desired
           /\ task[c].pc # "registering" =>
                 /\ task[c].bearer \in Credentials
                 /\ Request(c).installation = task[c].bearer[1]
                 /\ Request(c).value = task[c].desired
           /\ task[c].pc = "rotating" => Request(c).call = "rotate"
           /\ task[c].pc = "deleting" => Request(c).call = "delete"
           /\ task[c].pc = "calling" =>
                 Request(c).call = IF task[c].kind = "sync" /\ task[c].desired # None
                                   THEN "put" ELSE "call"
<1> DEFINE t == task[c]
<1>1. /\ t.pc \in {"rotating", "registering", "calling", "deleting"}
      /\ t \in Task /\ BearerInv(t)
  BY TaskFacts DEF OnTheWire
<1>2. /\ t.bearer \in Credentials \cup {None} /\ t.desired \in Choices
      /\ app.installation \in Installations /\ app.desired \in Choices
  BY <1>1 DEF Task, IInv, IdentityTypes
<1>3. t.pc # "registering" => t.bearer \in Credentials /\ t.bearer[1] \in Installations
  BY <1>1, <1>2 DEF BearerInv, Credentials
<1>4. CASE t.pc = "registering"
  BY <1>1, <1>2, <1>4 DEF Request, Requests
<1>5. CASE t.pc = "rotating"
  BY <1>1, <1>2, <1>3, <1>5 DEF Request, Requests
<1>6. CASE t.pc = "deleting"
  BY <1>1, <1>2, <1>3, <1>6 DEF Request, Requests
<1>7. CASE t.pc = "calling"
  BY <1>1, <1>2, <1>3, <1>7 DEF Request, Requests
<1>8. QED
  BY <1>1, <1>4, <1>5, <1>6, <1>7

\* The server's side changes: what the PC holds to stays true, if a put is of the choice in
\* force or counts as overtaking it.
LEMMA ServerSide ==
    ASSUME IInv, NEW r \in Requests, Handle(r), UNCHANGED <<disk, age>>,
           app' = app \/ app' = [app EXCEPT !.synced = app.revision],
           overtaken' \in BOOLEAN, overtaken => overtaken',
           incidents' \in 0 .. MaxIncidents, incidents <= incidents',
           Running("reset")' => Running("reset"),
           r.call = "put" /\ AnswerTo(r).result = "ok" /\ ~overtaken' =>
              r.value = app.desired /\ r.value # None
    PROVE  /\ CredentialInv'
           /\ \A d \in Callers : task'[d] = task[d] =>
                 BearerInv(task[d])' /\ ChoiceInv(task[d])'
           /\ ~overtaken' /\ Synced /\ Honours(app.credential)' =>
                 server'.usage[app.installation] = app.desired
<1> DEFINE own == app.credential
<1>0. /\ app'.installation = app.installation /\ app'.credential = app.credential
      /\ app'.enrollment = app.enrollment /\ app'.generation = app.generation
      /\ app'.desired = app.desired /\ app'.revision = app.revision
      /\ Synced => app'.synced = app'.revision
  BY DEF IInv, IdentityTypes, Synced
<1>1. /\ IdentityTypes
      /\ CredentialInv /\ AgreementInv
      /\ \A d \in Callers : BearerInv(task[d]) /\ ChoiceInv(task[d])
  BY DEF IInv
<1>2. own # None =>
         own \in Credentials /\ own[1] = app.installation /\ Known(own) /\ Known(own)'
  BY <1>0, <1>1, HandleFacts DEF IdentityTypes, CredentialInv, CredentialIsOurs
<1>3. /\ Honours(own)' => own # None /\ Honours(own)
      /\ \A b \in Credentials : Known(b) => Known(b)' /\ (Honours(b)' => Honours(b))
      /\ \A b \in Credentials : age[b] = age'[b]
  <2>1. Honours(own)' => own # None
    BY <1>0 DEF Honours, Valid
  <2>2. CASE own = None
    BY <1>1, <2>1, <2>2, HandleFacts
  <2>3. CASE own # None
    <3>1. PICK b \in Credentials : b = own
      BY <1>2, <2>3
    <3>2. Honours(b)' => Honours(b)
      BY <1>1, <1>2, <2>3, <3>1, HandleFacts
    <3>3. Honours(own)' <=> Honours(b)'
      BY <1>0, <3>1
    <3>4. QED
      BY <1>1, <2>1, <3>1, <3>2, <3>3, HandleFacts
  <2>4. QED
    BY <2>2, <2>3
<1>4. Honours(own)' =>
         \/ server'.usage[app.installation] = server.usage[app.installation]
         \/ /\ r.call = "put" /\ AnswerTo(r).result = "ok"
            /\ server'.usage[app.installation] = r.value
  <2>1. SUFFICES ASSUME Honours(own)'
                 PROVE  \/ server'.usage[app.installation] = server.usage[app.installation]
                        \/ /\ r.call = "put" /\ AnswerTo(r).result = "ok"
                           /\ server'.usage[app.installation] = r.value
    OBVIOUS
  <2>2. PICK b \in Credentials : b = own
    BY <1>2, <1>3, <2>1
  <2>3. Known(b) /\ Honours(b)' /\ b[1] = app.installation
    BY <1>0, <1>2, <1>3, <2>1, <2>2
  <2>4. QED
    BY <1>1, <2>3, HandleFacts
<1>5. CredentialInv'
  <2>1. \A credential \in {app.credential, disk.credential} \ {None} : Known(credential)'
    <3>1. \A credential \in {app.credential, disk.credential} \ {None} :
             credential \in Credentials /\ Known(credential)
      BY <1>1 DEF IdentityTypes, CredentialInv
    <3>2. QED
      BY <1>0, <1>3, <3>1
  <2>2. \A credential \in Credentials : ~Known(credential)' => age'[credential] = "fresh"
    BY <1>1, <1>3 DEF CredentialInv
  <2>3. CredentialIsOurs'
    BY <1>0, <1>1 DEF CredentialInv, CredentialIsOurs
  <2>4. disk.installation = None => ~Honours(app.credential)'
    BY <1>0, <1>1, <1>3 DEF CredentialInv
  <2>5. app.generation \in Nat /\ incidents \in Nat /\ incidents' \in Nat
    BY <1>1 DEF IdentityTypes
  <2>6. app.generation <= incidents' /\ (Running("reset")' => app.generation < incidents')
    BY <1>1, <2>5 DEF CredentialInv
  <2>7. QED
    BY <1>0, <1>1, <2>1, <2>2, <2>3, <2>4, <2>6 DEF CredentialInv
<1>6. ASSUME NEW d \in Callers, task'[d] = task[d]
      PROVE  BearerInv(task[d])' /\ ChoiceInv(task[d])'
  <2>1. PICK t \in Task : t = task[d]
    BY TaskFacts
  <2>2. t.bearer # None => t.bearer \in Credentials
    BY DEF Task
  <2>3. BearerInv(t) /\ ChoiceInv(t)
    BY <1>1, <2>1
  <2>4. t.bearer # None => Known(t.bearer)' /\ (Honours(t.bearer)' => Honours(t.bearer))
    BY <1>3, <2>2, <2>3 DEF BearerInv
  <2>5. BearerInv(t)'
    BY <1>0, <1>3, <2>3, <2>4 DEF BearerInv
  <2>6. ChoiceInv(t)'
    BY <1>0, <1>3, <1>4, <2>3 DEF ChoiceInv, Synced
  <2>7. QED
    BY <1>6, <2>1, <2>5, <2>6
<1>7. ~overtaken' /\ Synced /\ Honours(own)' =>
         server'.usage[app.installation] = app.desired
  BY <1>1, <1>3, <1>4 DEF AgreementInv
<1>8. QED
  BY <1>5, <1>6, <1>7

LEMMA ServeLateStep ==
    ASSUME IInv, NEW r \in late, ServeLate(r)
    PROVE  IInv'
<1>1. /\ r \in Requests /\ Handle(r) /\ late' = late \ {r}
      /\ UNCHANGED <<disk, app, task, age, incidents>>
      /\ IdentityTypes /\ AgreementInv
  BY DEF ServeLate, IInv, IdentityTypes
<1>2. /\ overtaken' = \/ overtaken
                      \/ /\ r.call = "put" /\ AnswerTo(r).result = "ok"
                         /\ r.value # app.desired
      /\ overtaken' \in BOOLEAN
  BY DEF ServeLate, IInv, IdentityTypes
<1>3. /\ incidents' \in 0 .. MaxIncidents /\ incidents <= incidents'
      /\ Running("reset")' => Running("reset")
      /\ r.call = "put" => r.value # None
  BY <1>1 DEF IdentityTypes, Running, AgreementInv
<1>4. /\ CredentialInv'
      /\ \A d \in Callers : BearerInv(task[d])' /\ ChoiceInv(task[d])'
      /\ ~overtaken' /\ Synced /\ Honours(app.credential)' =>
            server'.usage[app.installation] = app.desired
  BY <1>1, <1>2, <1>3, ServerSide
<1>5. IdentityTypes'
  BY <1>1, <1>2, HandleFacts DEF IdentityTypes
<1>6. LockInv'
  BY <1>1 DEF IInv, LockInv, CanTake, Holders, Compatible
<1>7. AgreementInv'
  BY <1>1, <1>2, <1>4 DEF AgreementInv, Synced
<1>8. QED
  BY <1>4, <1>5, <1>6, <1>7 DEF IInv

-----------------------------------------------------------------------------
(* The PC hears an answer, or gives the request up. *)

LEMMA IdleLater ==
    ASSUME app'.generation \in Nat
    PROVE  BearerInv(Idle)' /\ ChoiceInv(Idle)'
BY IdleFacts DEF BearerInv, ChoiceInv

\* What the server did, or what it may still do, with the request of c.
LEMMA AnswerOthers ==
    ASSUME IInv, NEW c \in Callers, OnTheWire(c), UNCHANGED <<disk, app, age, overtaken>>,
           \/ Answered(c) /\ UNCHANGED incidents
           \/ GivenUp(c),
           Running("reset")' => Running("reset")
    PROVE  /\ CredentialInv'
           /\ \A d \in Callers : task'[d] = task[d] =>
                 BearerInv(task[d])' /\ ChoiceInv(task[d])'
           /\ ~overtaken' /\ Synced /\ Honours(app.credential)' =>
                 server'.usage[app.installation] = app.desired
           /\ server' \in [session: [Installations -> 0..MaxSessions],
                           issued: [Installations -> 0..MaxSessions],
                           usage: [Installations -> Choices]]
           /\ \A i \in Installations : server'.session[i] <= server'.issued[i]
           /\ late' \subseteq Requests
           /\ \A r \in late' : r.call = "put" => r.value # None
           /\ incidents' \in 0 .. MaxIncidents
<1>1. /\ IdentityTypes
      /\ CredentialInv /\ AgreementInv
      /\ \A d \in Callers : BearerInv(task[d]) /\ ChoiceInv(task[d])
      /\ MaxIncidents \in Nat
  BY DesktopIdentityAssumption DEF IInv
<1>2. PICK r \in Requests : r = Request(c)
  BY RequestFacts
<1>3. r.call = "put" => r.value = app.desired /\ r.value # None
  <2>1. task[c].pc \in {"rotating", "registering", "calling", "deleting"}
    BY DEF OnTheWire
  <2>2. QED
    BY <1>1, <1>2, <2>1, RequestFacts DEF ChoiceInv
<1>4. CASE Answered(c) /\ UNCHANGED incidents
  <2>1. /\ Handle(r) /\ late' = late
        /\ incidents' \in 0 .. MaxIncidents /\ incidents <= incidents'
        /\ overtaken' \in BOOLEAN
    BY <1>1, <1>2, <1>4 DEF Answered, IdentityTypes
  <2>2. /\ CredentialInv'
        /\ \A d \in Callers : task'[d] = task[d] =>
              BearerInv(task[d])' /\ ChoiceInv(task[d])'
        /\ ~overtaken' /\ Synced /\ Honours(app.credential)' =>
              server'.usage[app.installation] = app.desired
    BY <1>3, <2>1, ServerSide
  <2>3. QED
    BY <1>1, <2>1, <2>2, HandleFacts DEF IdentityTypes, AgreementInv
<1>5. CASE GivenUp(c)
  <2>1. /\ server' = server
        /\ late' \subseteq late \cup {r}
        /\ incidents' = incidents + 1 /\ incidents < MaxIncidents
    BY <1>2, <1>5 DEF GivenUp, Incident, Lasting
  <2>2. /\ incidents \in Nat /\ app.generation \in Nat
        /\ incidents' \in 0 .. MaxIncidents
    BY <1>1, <2>1 DEF IdentityTypes
  <2>3. CredentialInv'
    BY <1>1, <2>1, <2>2 DEF CredentialInv, CredentialIsOurs, Known, Honours, Valid
  <2>4. \A d \in Callers : task'[d] = task[d] =>
           BearerInv(task[d])' /\ ChoiceInv(task[d])'
    BY <1>1, <2>1 DEF BearerInv, ChoiceInv, Known, Honours, Valid, Synced
  <2>5. ~overtaken' /\ Synced /\ Honours(app.credential)' =>
           server'.usage[app.installation] = app.desired
    BY <1>1, <2>1 DEF AgreementInv, Honours, Valid
  <2>6. late' \subseteq Requests /\ \A q \in late' : q.call = "put" => q.value # None
    BY <1>1, <1>3, <2>1 DEF IdentityTypes, AgreementInv
  <2>7. QED
    BY <1>1, <2>1, <2>2, <2>3, <2>4, <2>5, <2>6 DEF IdentityTypes
<1>6. QED
  BY <1>4, <1>5

\* The task of c goes on, with nothing new for the PC.
LEMMA AnswerStep ==
    ASSUME IInv, NEW c \in Callers, OnTheWire(c), UNCHANGED <<disk, app, age, overtaken>>,
           \/ Answered(c) /\ UNCHANGED incidents
           \/ GivenUp(c),
           NEW t \in Task, Goes(c, t), Stands(t), BearerInv(t)', ChoiceInv(t)',
           t.held \subseteq task[c].held,
           t.kind = task[c].kind \/ t.held \subseteq {"webview", "registration"},
           t.kind = "reset" => task[c].kind = "reset"
    PROVE  IInv'
<1>1. /\ task \in [Callers -> Task]
      /\ task' = [task EXCEPT ![c] = t]
      /\ IdentityTypes
  BY DEF IInv, IdentityTypes, Goes
<1>2. /\ task'[c] = t
      /\ \A d \in Callers \ {c} : task'[d] = task[d]
      /\ Running("reset")' => Running("reset")
  BY <1>1 DEF Running
<1>3. /\ CredentialInv'
      /\ \A d \in Callers : task'[d] = task[d] =>
            BearerInv(task[d])' /\ ChoiceInv(task[d])'
      /\ ~overtaken' /\ Synced /\ Honours(app.credential)' =>
            server'.usage[app.installation] = app.desired
      /\ server' \in [session: [Installations -> 0..MaxSessions],
                      issued: [Installations -> 0..MaxSessions],
                      usage: [Installations -> Choices]]
      /\ \A i \in Installations : server'.session[i] <= server'.issued[i]
      /\ late' \subseteq Requests
      /\ \A r \in late' : r.call = "put" => r.value # None
      /\ incidents' \in 0 .. MaxIncidents
  BY <1>2, AnswerOthers
<1>4. IdentityTypes'
  BY <1>1, <1>3 DEF IdentityTypes
<1>5. LockInv'
  <2>1. CanTake(c, {})
    BY NoLocks
  <2>2. QED
    BY <1>1, <2>1, LockStep DEF IInv
<1>6. \A d \in Callers : BearerInv(task[d])' /\ ChoiceInv(task[d])'
  <2>1. BearerInv(task[c])' /\ ChoiceInv(task[c])'
    BY <1>2
  <2>2. QED
    BY <1>2, <1>3, <2>1
<1>7. AgreementInv'
  <2>1. task[c].pc \notin {"accepting", "setting"}
    BY DEF OnTheWire
  <2>2. ~overtaken' =>
           \/ app'.desired = disk'.choice
           \/ \E d \in Callers : task'[d].pc \in {"accepting", "setting"}
    BY <1>2, <2>1 DEF IInv, AgreementInv
  <2>3. QED
    BY <1>3, <2>2 DEF AgreementInv, Synced
<1>8. QED
  BY <1>3, <1>4, <1>5, <1>6, <1>7 DEF IInv

\* A reset goes on only when the server has deleted the user, or there is no credential.
LEMMA HearDeletionStep ==
    ASSUME IInv, NEW c \in Callers, HearDeletion(c)
    PROVE  IInv'
<1>1. /\ task[c].pc = "deleting" /\ OnTheWire(c)
      /\ UNCHANGED <<disk, app, age, overtaken>>
      /\ IdentityTypes
  BY DEF HearDeletion, At, OnTheWire, IInv
<1>2. app'.generation \in Nat
  BY <1>1 DEF IdentityTypes
<1>3. CASE /\ \/ Answered(c) /\ UNCHANGED incidents
              \/ GivenUp(c)
           /\ Goes(c, Idle)
  BY <1>1, <1>2, <1>3, IdleFacts, IdleIsHarmless, IdleLater, AnswerStep
<1>4. CASE /\ Answered(c) /\ UNCHANGED incidents
           /\ AnswerTo(Request(c)).result = "ok"
           /\ Goes(c, [task[c] EXCEPT !.pc = "deleted"])
  <2>1. PICK t \in Task : t = [task[c] EXCEPT !.pc = "deleted"]
    BY TaskFacts DEF Task
  <2>2. /\ t.pc = "deleted" /\ t.kind = task[c].kind /\ t.held = task[c].held
        /\ t.bearer = task[c].bearer /\ t.gen = task[c].gen
    BY <2>1, TaskFacts DEF Task
  <2>3. Stands(t) /\ t.kind = "reset"
    BY <1>1, <2>2, TaskFacts DEF Stands
  <2>4. PICK r \in Requests : r = Request(c)
    BY <1>1, RequestFacts
  <2>5. /\ Handle(r) /\ r.call = "delete"
        /\ task[c].bearer \in Credentials
        /\ task[c].bearer = app.credential /\ r.installation = app.credential[1]
    BY <1>1, <1>4, <2>4, RequestFacts, TaskFacts DEF Answered, BearerInv
  <2>6. server'.session[app.credential[1]] = 0
    BY <1>1, <1>4, <2>4, <2>5, HandleFacts
  <2>7. ~Honours(app.credential)'
    <3>1. app.credential[2] # 0
      BY <2>5 DEF Credentials
    <3>2. QED
      BY <1>1, <2>6, <3>1 DEF Honours
  <2>8. BearerInv(t)'
    <3>1. t.bearer # None => Known(t.bearer)'
      BY <1>1, <2>2, <2>4, <2>5, HandleFacts, TaskFacts DEF BearerInv
    <3>2. QED
      BY <1>1, <2>2, <2>3, <2>7, <3>1, TaskFacts DEF BearerInv
  <2>9. ChoiceInv(t)'
    BY <2>2, <2>3 DEF ChoiceInv
  <2>10. QED
    BY <1>1, <1>4, <2>1, <2>2, <2>3, <2>8, <2>9, AnswerStep
<1>5. QED
  BY <1>3, <1>4 DEF HearDeletion

\* Statistics: the request is repeated under locks, or done with.
LEMMA HearOpenedStep ==
    ASSUME IInv, NEW c \in Callers, HearOpened(c)
    PROVE  IInv'
<1>1. /\ task[c].pc = "calling" /\ task[c].kind = "opened" /\ OnTheWire(c)
      /\ UNCHANGED <<disk, app, age, overtaken>>
      /\ IdentityTypes
  BY DEF HearOpened, At, OnTheWire, IInv
<1>2. app'.generation \in Nat
  BY <1>1 DEF IdentityTypes
<1>3. CASE Answered(c) /\ Goes(c, Idle) /\ UNCHANGED incidents
  BY <1>1, <1>2, <1>3, IdleFacts, IdleIsHarmless, IdleLater, AnswerStep
<1>4. CASE GivenUp(c) /\ Goes(c, [task[c] EXCEPT !.pc = "usage", !.held = {}])
  <2>1. PICK t \in Task : t = [task[c] EXCEPT !.pc = "usage", !.held = {}]
    BY TaskFacts DEF Task
  <2>2. /\ t.pc = "usage" /\ t.kind = "opened" /\ t.held = {}
        /\ t.bearer = task[c].bearer /\ t.gen = task[c].gen
    BY <1>1, <2>1, TaskFacts DEF Task
  <2>3. Stands(t)
    BY <2>2 DEF Stands
  <2>4. server' = server
    BY <1>4 DEF GivenUp
  <2>5. BearerInv(t)'
    BY <1>1, <2>2, <2>4, TaskFacts DEF BearerInv, Known
  <2>6. ChoiceInv(t)'
    BY <2>2 DEF ChoiceInv
  <2>7. QED
    BY <1>1, <1>4, <2>1, <2>2, <2>3, <2>5, <2>6, AnswerStep
<1>5. QED
  BY <1>3, <1>4 DEF HearOpened

-----------------------------------------------------------------------------
(* Answers that change what the PC holds. *)

\* A task that holds nothing for sure is at ease with any credential.
LEMMA FreshLater ==
    ASSUME NEW t \in Task, t.pc \in {"idle", "ready", "registration"}, t.bearer = None,
           t.kind \in {"idle", "call", "webview", "sync", "opened"},
           t.gen <= app'.generation,
           t.kind = "sync" =>
              /\ t.revision <= app'.revision
              /\ t.revision = app'.revision => t.desired = app'.desired
    PROVE  BearerInv(t)' /\ ChoiceInv(t)'
BY DEF BearerInv, ChoiceInv

\* The parts of a step of c that changes more than its task.
LEMMA Assemble ==
    ASSUME IInv, NEW c \in Callers, NEW t \in Task, Goes(c, t), Stands(t),
           t.held \subseteq task[c].held,
           t.kind = task[c].kind \/ t.held \subseteq {"webview", "registration"},
           t.kind = "reset" => task[c].kind = "reset",
           disk' \in [installation: Installations \cup {None},
                      credential: Credentials \cup {None}, choice: Choices],
           app' \in [installation: Installations, credential: Credentials \cup {None},
                     enrollment: {"New", "Enrolled", "ResetRequired"},
                     generation: 0..MaxIncidents,
                     desired: Choices, revision: Nat, synced: Nat],
           app'.synced <= app'.revision,
           server' \in [session: [Installations -> 0..MaxSessions],
                        issued: [Installations -> 0..MaxSessions],
                        usage: [Installations -> Choices]],
           \A i \in Installations : server'.session[i] <= server'.issued[i],
           late' \subseteq Requests, UNCHANGED age, overtaken' \in BOOLEAN,
           incidents' \in 0..MaxIncidents,
           CredentialInv', BearerInv(t)', ChoiceInv(t)',
           \A d \in Callers \ {c} : BearerInv(task[d])' /\ ChoiceInv(task[d])',
           AgreementInv'
    PROVE  IInv'
<1>1. /\ task \in [Callers -> Task]
      /\ task' = [task EXCEPT ![c] = t]
      /\ IdentityTypes
  BY DEF IInv, IdentityTypes, Goes
<1>2. task'[c] = t
  BY <1>1
<1>3. IdentityTypes'
  BY <1>1 DEF IdentityTypes
<1>4. LockInv'
  BY <1>1, LockStep, NoLocks DEF IInv
<1>5. BearerInv(task[c])' /\ ChoiceInv(task[c])'
  BY <1>2
<1>6. QED
  BY <1>3, <1>4, <1>5 DEF IInv

\* The other tasks do not register while c does.
LEMMA RegistrationIsExclusive ==
    ASSUME IInv, NEW c \in Callers, "registration" \in task[c].held, NEW d \in Callers \ {c}
    PROVE  /\ task[d].pc \notin {"enrol", "rotating", "registering", "deleting", "deleted"}
           /\ "registration" \notin task[d].held
<1>1. d \notin Holders(c, "registration")
  BY DEF IInv, LockInv, CanTake
<1>2. "registration" \notin task[d].held
  BY <1>1 DEF Holders, Compatible
<1>3. QED
  BY <1>2, TaskFacts DEF Stands, Locks

\* The PC takes the credential it registered or rotated for.
LEMMA InstallOthers ==
    ASSUME IInv, NEW c \in Callers, task[c].pc \in {"rotating", "registering"},
           NEW r \in Requests, r = Request(c), Handle(r), AnswerTo(r).result = "issued",
           NEW synced \in {app.synced, app.revision},
           task[c].pc = "rotating" => synced = app.synced,
           task[c].pc = "registering" => synced = app.revision,
           Install(AnswerTo(r).credential, synced),
           UNCHANGED <<late, age, overtaken>>,
           Running("reset")' => Running("reset"),
           task'[c].pc \in {"idle", "ready"},
           \A d \in Callers \ {c} : task'[d] = task[d]
    PROVE  /\ CredentialInv'
           /\ \A d \in Callers \ {c} : BearerInv(task[d])' /\ ChoiceInv(task[d])'
           /\ AgreementInv'
           /\ disk' \in [installation: Installations \cup {None},
                         credential: Credentials \cup {None}, choice: Choices]
           /\ app' \in [installation: Installations, credential: Credentials \cup {None},
                        enrollment: {"New", "Enrolled", "ResetRequired"},
                        generation: 0..MaxIncidents,
                        desired: Choices, revision: Nat, synced: Nat]
           /\ app'.synced <= app'.revision
           /\ incidents' \in 0..MaxIncidents
           /\ app'.generation = app.generation /\ app'.revision = app.revision
           /\ app'.desired = app.desired
<1> DEFINE i == app.installation
<1>0. PICK new \in Credentials : new = AnswerTo(r).credential
  BY HandleFacts DEF IInv
<1>1. /\ IdentityTypes /\ CredentialInv /\ AgreementInv
      /\ \A d \in Callers : BearerInv(task[d]) /\ ChoiceInv(task[d])
      /\ MaxIncidents \in Nat /\ MaxSessions \in Nat
  BY DesktopIdentityAssumption DEF IInv
<1>2. /\ OnTheWire(c)
      /\ "registration" \in task[c].held
  BY TaskFacts DEF OnTheWire, Stands
<1>3. /\ r.installation = i
      /\ task[c].pc = "rotating" =>
            /\ r.call = "rotate"
            /\ Honours(app.credential)
            /\ app.credential \in Credentials /\ app.credential[1] = i
      /\ task[c].pc = "registering" =>
            r.call = "register" /\ r.value = app.desired /\ app.enrollment = "New"
  <2>1. CASE task[c].pc = "registering"
    BY <1>1, <1>2, <2>1, RequestFacts DEF BearerInv
  <2>2. CASE task[c].pc = "rotating"
    <3>1. /\ r.call = "rotate" /\ r.installation = task[c].bearer[1]
          /\ r.bearer = task[c].bearer /\ task[c].bearer \in Credentials
      BY <1>2, <2>2, RequestFacts
    <3>2. Honours(task[c].bearer)
      BY <1>1, <3>1, HandleFacts
    <3>3. task[c].bearer = app.credential /\ task[c].bearer[1] = i
      BY <1>1, <2>2, <3>2 DEF BearerInv
    <3>4. QED
      BY <2>2, <3>1, <3>2, <3>3
  <2>3. QED
    BY <2>1, <2>2
<1>4. /\ new = <<i, server'.issued[i]>>
      /\ new[1] = i /\ new[2] = server'.issued[i] /\ new # None
      /\ server'.usage[i] = IF r.call = "register" THEN r.value ELSE server.usage[i]
  BY <1>0, <1>1, <1>3, HandleFacts, DesktopIdentityAssumption
<1>5. PICK ok \in BOOLEAN :
         /\ Attempt(ok)
         /\ disk' = [disk EXCEPT !.credential = IF ok THEN new ELSE @]
         /\ app' = [app EXCEPT !.credential = new, !.enrollment = "Enrolled",
                               !.synced = synced]
  BY <1>0 DEF Install
<1>6. /\ app'.credential = new /\ app'.enrollment = "Enrolled" /\ app'.synced = synced
      /\ app'.installation = i /\ app'.generation = app.generation
      /\ app'.desired = app.desired /\ app'.revision = app.revision
      /\ disk'.installation = disk.installation /\ disk'.choice = disk.choice
      /\ disk'.credential \in {disk.credential, new}
  BY <1>1, <1>5 DEF IdentityTypes
<1>7. /\ app' \in [installation: Installations, credential: Credentials \cup {None},
                   enrollment: {"New", "Enrolled", "ResetRequired"},
                   generation: 0..MaxIncidents,
                   desired: Choices, revision: Nat, synced: Nat]
      /\ app'.synced <= app'.revision
  <2>1. synced \in Nat /\ synced <= app.revision /\ app.revision \in Nat
    BY <1>1 DEF IdentityTypes
  <2>2. QED
    BY <1>1, <1>4, <1>5, <1>6, <2>1 DEF IdentityTypes
<1>8. disk' \in [installation: Installations \cup {None},
                 credential: Credentials \cup {None}, choice: Choices]
  BY <1>1, <1>4, <1>5 DEF IdentityTypes
<1>9. /\ incidents' \in 0 .. MaxIncidents /\ incidents <= incidents'
      /\ incidents \in Nat /\ app.generation \in Nat
  BY <1>1, <1>5 DEF Attempt, Incident, IdentityTypes
<1>10. CredentialInv'
  <2>1. Known(new)' /\ \A b \in Credentials : Known(b) => Known(b)'
    <3>1. server'.issued[i] \in 0 .. MaxSessions
      BY <1>1, HandleFacts DEF IdentityTypes
    <3>2. new[2] <= server'.issued[new[1]]
      BY <1>1, <1>4, <3>1
    <3>3. QED
      BY <1>1, <3>2, HandleFacts DEF Known
  <2>2. \A credential \in {app'.credential, disk'.credential} \ {None} :
           credential \in Credentials /\ (credential = new \/ Known(credential))
                                      /\ credential[1] = i
    BY <1>1, <1>4, <1>6 DEF IdentityTypes, CredentialInv, CredentialIsOurs
  <2>3. \A credential \in {app'.credential, disk'.credential} \ {None} : Known(credential)'
    BY <1>1, <2>1, <2>2 DEF Known
  <2>4. disk.installation # None
    BY <1>1, <1>3 DEF CredentialInv
  <2>5. \A b \in Credentials : ~Known(b)' => age'[b] = "fresh"
    BY <1>1, <2>1 DEF CredentialInv
  <2>6. CredentialIsOurs'
    BY <1>6, <2>2 DEF CredentialIsOurs
  <2>7. app'.generation <= incidents' /\ (Running("reset")' => app'.generation < incidents')
    BY <1>1, <1>6, <1>9 DEF CredentialInv
  <2>8. QED
    BY <1>1, <1>6, <2>3, <2>4, <2>5, <2>6, <2>7 DEF CredentialInv
<1>11. ASSUME NEW d \in Callers \ {c}
       PROVE  BearerInv(task[d])' /\ ChoiceInv(task[d])'
  <2>1. PICK t \in Task : t = task[d]
    BY TaskFacts
  <2>2. /\ t.pc \notin {"enrol", "rotating", "registering", "deleting", "deleted"}
        /\ BearerInv(t) /\ ChoiceInv(t)
    BY <1>1, <1>2, <2>1, RegistrationIsExclusive
  <2>3. t.bearer # None => t.bearer \in Credentials /\ Known(t.bearer)'
    BY <1>1, <2>2, HandleFacts DEF Task, BearerInv
  <2>4. BearerInv(t)'
    BY <1>6, <2>2, <2>3 DEF BearerInv
  <2>5. ChoiceInv(t)'
    <3>1. Synced => app'.synced = app'.revision
      BY <1>6 DEF Synced
    <3>2. t.kind = "adopt" /\ t.revision = app.revision => task[c].pc = "rotating"
      BY <1>3, <2>2 DEF ChoiceInv
    <3>3. task[c].pc = "rotating" => server'.usage[i] = server.usage[i] /\ Honours(app.credential)
      BY <1>3, <1>4
    <3>4. QED
      BY <1>6, <2>2, <3>1, <3>2, <3>3 DEF ChoiceInv, Synced
  <2>6. QED
    BY <2>1, <2>4, <2>5
<1>12. AgreementInv'
  <2>1. ~overtaken /\ app'.synced = app'.revision => server'.usage[i] = app.desired
    <3>1. CASE task[c].pc = "registering"
      BY <1>3, <1>4, <3>1
    <3>2. CASE task[c].pc = "rotating"
      BY <1>1, <1>3, <1>4, <1>6, <3>2 DEF AgreementInv, Synced
    <3>3. QED
      BY <3>1, <3>2
  <2>2. ~overtaken => \/ app'.desired = disk'.choice
                      \/ \E d \in Callers : task'[d].pc \in {"accepting", "setting"}
    <3>1. task[c].pc \notin {"accepting", "setting"}
      OBVIOUS
    <3>2. QED
      BY <1>1, <1>6, <3>1 DEF AgreementInv
  <2>3. QED
    BY <1>1, <1>6, <2>1, <2>2 DEF AgreementInv, Synced
<1>13. QED
  BY <1>6, <1>7, <1>8, <1>9, <1>10, <1>11, <1>12

\* The PC drops the credential it was refused with, if that is still the one it has.
LEMMA InvalidateOthers ==
    ASSUME IInv, NEW c \in Callers, task[c].pc \in {"rotating", "calling"},
           CanTake(c, {"identity"}), ~Honours(task[c].bearer), Invalidate(task[c].bearer),
           UNCHANGED <<server, late, age, overtaken>>,
           Running("reset")' => Running("reset"),
           task'[c].pc \in {"idle", "ready"},
           \A d \in Callers \ {c} : task'[d] = task[d]
    PROVE  /\ CredentialInv'
           /\ \A d \in Callers \ {c} : BearerInv(task[d])' /\ ChoiceInv(task[d])'
           /\ AgreementInv'
           /\ disk' \in [installation: Installations \cup {None},
                         credential: Credentials \cup {None}, choice: Choices]
           /\ app' \in [installation: Installations, credential: Credentials \cup {None},
                        enrollment: {"New", "Enrolled", "ResetRequired"},
                        generation: 0..MaxIncidents,
                        desired: Choices, revision: Nat, synced: Nat]
           /\ app'.synced <= app'.revision
           /\ incidents' \in 0..MaxIncidents
           /\ app'.generation = app.generation /\ app'.revision = app.revision
           /\ app'.desired = app.desired
<1>1. /\ IdentityTypes /\ CredentialInv /\ AgreementInv
      /\ \A d \in Callers : BearerInv(task[d]) /\ ChoiceInv(task[d])
      /\ MaxIncidents \in Nat
      /\ task[c].bearer # None
  BY DesktopIdentityAssumption DEF IInv, BearerInv
<1>2. CASE UNCHANGED <<disk, app, incidents>>
  <2>1. CredentialInv'
    BY <1>1, <1>2 DEF CredentialInv, CredentialIsOurs, Known, Honours, Valid
  <2>2. \A d \in Callers \ {c} : BearerInv(task[d])' /\ ChoiceInv(task[d])'
    BY <1>1, <1>2 DEF BearerInv, ChoiceInv, Known, Honours, Valid, Synced
  <2>3. AgreementInv'
    BY <1>1, <1>2 DEF AgreementInv, Honours, Valid, Synced
  <2>4. QED
    BY <1>1, <1>2, <2>1, <2>2, <2>3 DEF IdentityTypes
<1>3. CASE app.credential = task[c].bearer /\ ~(UNCHANGED <<disk, app, incidents>>)
  <2>1. PICK ok \in BOOLEAN :
           /\ Attempt(ok)
           /\ disk' = [disk EXCEPT !.credential = IF ok THEN None ELSE @]
           /\ app' = [app EXCEPT !.credential = None, !.enrollment = "ResetRequired"]
    BY <1>3 DEF Invalidate, IsCurrent
  <2>2. /\ app'.credential = None /\ app'.enrollment = "ResetRequired"
        /\ app'.synced = app.synced
        /\ app'.installation = app.installation /\ app'.generation = app.generation
        /\ app'.desired = app.desired /\ app'.revision = app.revision
        /\ disk'.installation = disk.installation /\ disk'.choice = disk.choice
        /\ disk'.credential \in {disk.credential, None}
    BY <1>1, <2>1 DEF IdentityTypes
  <2>3. /\ disk' \in [installation: Installations \cup {None},
                      credential: Credentials \cup {None}, choice: Choices]
        /\ app' \in [installation: Installations, credential: Credentials \cup {None},
                     enrollment: {"New", "Enrolled", "ResetRequired"},
                     generation: 0..MaxIncidents,
                     desired: Choices, revision: Nat, synced: Nat]
        /\ app'.synced <= app'.revision
    BY <1>1, <2>1, <2>2 DEF IdentityTypes
  <2>4. /\ incidents' \in 0 .. MaxIncidents /\ incidents <= incidents'
        /\ incidents \in Nat /\ app.generation \in Nat
    BY <1>1, <2>1 DEF Attempt, Incident, IdentityTypes
  <2>5. ~Honours(app.credential)'
    BY <2>2 DEF Honours, Valid
  <2>6. app.enrollment # "New" /\ ~Honours(app.credential)
    BY <1>1, <1>3 DEF CredentialInv
  <2>7. CredentialInv'
    <3>1. CredentialIsOurs'
      BY <1>1, <2>2 DEF CredentialInv, CredentialIsOurs
    <3>2. \A b \in {app'.credential, disk'.credential} \ {None} : Known(b)'
      BY <1>1, <2>2 DEF CredentialInv, Known
    <3>3. \A b \in Credentials : ~Known(b)' => age'[b] = "fresh"
      BY <1>1 DEF CredentialInv, Known
    <3>4. app'.generation <= incidents' /\ (Running("reset")' => app'.generation < incidents')
      BY <1>1, <2>2, <2>4 DEF CredentialInv
    <3>5. QED
      BY <1>1, <2>2, <2>5, <3>1, <3>2, <3>3, <3>4 DEF CredentialInv
  <2>8. ASSUME NEW d \in Callers \ {c}
        PROVE  BearerInv(task[d])' /\ ChoiceInv(task[d])'
    <3>1. PICK t \in Task : t = task[d]
      BY TaskFacts
    <3>2. BearerInv(t) /\ ChoiceInv(t) /\ Stands(t)
      BY <1>1, <3>1, TaskFacts
    <3>3. t.pc \notin {"deleting", "deleted"}
      <4>1. d \notin Holders(c, "identity")
        BY DEF CanTake
      <4>2. "identity" \in t.held => t.kind # "reset"
        BY <3>1, <4>1 DEF Holders, Compatible
      <4>3. QED
        BY <3>2, <4>2 DEF Stands, Locks
    <3>4. t.bearer # None =>
             /\ Known(t.bearer)'
             /\ Honours(t.bearer)' => Honours(t.bearer)
      BY <3>2 DEF BearerInv, Known, Honours, Valid
    <3>5. BearerInv(t)'
      BY <2>2, <2>6, <3>2, <3>3, <3>4 DEF BearerInv
    <3>6. ChoiceInv(t)'
      BY <2>2, <2>5, <3>2 DEF ChoiceInv, Synced
    <3>7. QED
      BY <3>1, <3>5, <3>6
  <2>9. AgreementInv'
    <3>1. ~overtaken => \/ app'.desired = disk'.choice
                        \/ \E d \in Callers : task'[d].pc \in {"accepting", "setting"}
      BY <1>1, <2>2 DEF AgreementInv
    <3>2. QED
      BY <1>1, <2>5, <3>1 DEF AgreementInv
  <2>10. QED
    BY <2>2, <2>3, <2>4, <2>7, <2>8, <2>9
<1>4. QED
  BY <1>2, <1>3 DEF Invalidate, IsCurrent

LEMMA HearRotationStep ==
    ASSUME IInv, NEW c \in Callers, HearRotation(c)
    PROVE  IInv'
<1> DEFINE failed == ~Valid(app'.credential)
<1>1. /\ task[c].pc = "rotating" /\ OnTheWire(c) /\ CanTake(c, {"identity"})
      /\ Goes(c, Registered(task[c], failed))
      /\ UNCHANGED <<age, overtaken>>
      /\ IdentityTypes
  BY DEF HearRotation, At, OnTheWire, IInv
<1>2. PICK t \in Task : t = Registered(task[c], failed)
  BY <1>1, RegisteredIsHarmless
<1>3. /\ Stands(t) /\ BearerInv(t) /\ ChoiceInv(t)
      /\ t.held \subseteq task[c].held
      /\ t.kind = task[c].kind \/ t.held = {}
      /\ t.kind \in {"idle", "call", "webview", "sync", "opened"}
      /\ t.pc \in {"idle", "ready"} /\ t.bearer = None
  BY <1>1, <1>2, RegisteredIsHarmless
<1>4. /\ Goes(c, t)
      /\ task \in [Callers -> Task]
      /\ task' = [task EXCEPT ![c] = t]
  BY <1>1, <1>2 DEF Goes, IdentityTypes
<1>5. /\ task'[c] = t /\ \A d \in Callers \ {c} : task'[d] = task[d]
      /\ Running("reset")' => Running("reset")
  BY <1>3, <1>4 DEF Running
<1>6. /\ app'.generation = app.generation /\ app'.revision = app.revision
      /\ app'.desired = app.desired
      => BearerInv(t)' /\ ChoiceInv(t)'
  <2>1. /\ t.gen <= app.generation
        /\ t.kind = "sync" =>
              /\ t.revision <= app.revision
              /\ t.revision = app.revision => t.desired = app.desired
    BY <1>3 DEF BearerInv, ChoiceInv
  <2>2. QED
    BY <1>3, <2>1, FreshLater
<1>7. CASE GivenUp(c) /\ UNCHANGED <<disk, app>>
  BY <1>1, <1>3, <1>4, <1>6, <1>7, AnswerStep
<1>8. PICK r \in Requests : r = Request(c)
  BY <1>1, RequestFacts
<1>9. CASE /\ Handle(r) /\ late' = late /\ AnswerTo(r).result = "issued"
           /\ Install(AnswerTo(r).credential, app.synced)
  <2>1. /\ CredentialInv'
        /\ \A d \in Callers \ {c} : BearerInv(task[d])' /\ ChoiceInv(task[d])'
        /\ AgreementInv'
        /\ disk' \in [installation: Installations \cup {None},
                      credential: Credentials \cup {None}, choice: Choices]
        /\ app' \in [installation: Installations, credential: Credentials \cup {None},
                     enrollment: {"New", "Enrolled", "ResetRequired"},
                     generation: 0..MaxIncidents,
                     desired: Choices, revision: Nat, synced: Nat]
        /\ app'.synced <= app'.revision
        /\ incidents' \in 0..MaxIncidents
        /\ app'.generation = app.generation /\ app'.revision = app.revision
        /\ app'.desired = app.desired
    BY <1>1, <1>3, <1>5, <1>8, <1>9, InstallOthers
  <2>2. /\ server' \in [session: [Installations -> 0..MaxSessions],
                        issued: [Installations -> 0..MaxSessions],
                        usage: [Installations -> Choices]]
        /\ \A i \in Installations : server'.session[i] <= server'.issued[i]
        /\ late' \subseteq Requests /\ overtaken' \in BOOLEAN
    BY <1>1, <1>9, HandleFacts DEF IdentityTypes
  <2>3. QED
    BY <1>1, <1>3, <1>4, <1>6, <2>1, <2>2, Assemble
<1>10. CASE /\ Handle(r) /\ late' = late /\ AnswerTo(r).result # "issued"
            /\ Invalidate(task[c].bearer)
  <2>1. AnswerTo(r).result = "unauthorized"
    BY <1>1, <1>8, <1>10, RequestFacts DEF AnswerTo, Answer
  <2>2. server' = server /\ ~Honours(task[c].bearer)
    BY <1>1, <1>8, <1>10, <2>1, RequestFacts, HandleFacts
  <2>3. /\ CredentialInv'
        /\ \A d \in Callers \ {c} : BearerInv(task[d])' /\ ChoiceInv(task[d])'
        /\ AgreementInv'
        /\ disk' \in [installation: Installations \cup {None},
                      credential: Credentials \cup {None}, choice: Choices]
        /\ app' \in [installation: Installations, credential: Credentials \cup {None},
                     enrollment: {"New", "Enrolled", "ResetRequired"},
                     generation: 0..MaxIncidents,
                     desired: Choices, revision: Nat, synced: Nat]
        /\ app'.synced <= app'.revision
        /\ incidents' \in 0..MaxIncidents
        /\ app'.generation = app.generation /\ app'.revision = app.revision
        /\ app'.desired = app.desired
    BY <1>1, <1>3, <1>5, <1>10, <2>2, InvalidateOthers
  <2>4. /\ server' \in [session: [Installations -> 0..MaxSessions],
                        issued: [Installations -> 0..MaxSessions],
                        usage: [Installations -> Choices]]
        /\ \A i \in Installations : server'.session[i] <= server'.issued[i]
        /\ late' \subseteq Requests /\ overtaken' \in BOOLEAN
    BY <1>1, <1>10, <2>2 DEF IdentityTypes
  <2>5. QED
    BY <1>1, <1>3, <1>4, <1>6, <2>3, <2>4, Assemble
<1>11. QED
  BY <1>7, <1>8, <1>9, <1>10 DEF HearRotation, Answered

LEMMA HearRegistrationStep ==
    ASSUME IInv, NEW c \in Callers, HearRegistration(c)
    PROVE  IInv'
<1> DEFINE failed == AnswerTo(Request(c)).result # "issued"
<1>1. /\ task[c].pc = "registering" /\ OnTheWire(c)
      /\ UNCHANGED <<age, overtaken>>
      /\ IdentityTypes /\ CredentialInv /\ AgreementInv
      /\ \A d \in Callers : BearerInv(task[d]) /\ ChoiceInv(task[d])
      /\ app.enrollment = "New" /\ "registration" \in task[c].held
  BY TaskFacts DEF HearRegistration, At, OnTheWire, IInv, BearerInv, Stands
<1>2. ASSUME NEW f \in BOOLEAN, NEW t, t = Registered(task[c], f), Goes(c, t)
      PROVE  /\ t \in Task /\ Stands(t)
             /\ t.held \subseteq task[c].held
             /\ t.kind = task[c].kind \/ t.held = {}
             /\ t.kind \in {"idle", "call", "webview", "sync", "opened"}
             /\ t.pc \in {"idle", "ready"} /\ t.bearer = None
             /\ task'[c] = t /\ \A d \in Callers \ {c} : task'[d] = task[d]
             /\ Running("reset")' => Running("reset")
             /\ /\ app'.generation = app.generation /\ app'.revision = app.revision
                /\ app'.desired = app.desired
                => BearerInv(t)' /\ ChoiceInv(t)'
  <2>1. /\ t \in Task /\ Stands(t) /\ BearerInv(t) /\ ChoiceInv(t)
        /\ t.held \subseteq task[c].held
        /\ t.kind = task[c].kind \/ t.held = {}
        /\ t.kind \in {"idle", "call", "webview", "sync", "opened"}
        /\ t.pc \in {"idle", "ready"} /\ t.bearer = None
    BY <1>1, <1>2, RegisteredIsHarmless
  <2>2. task \in [Callers -> Task] /\ task' = [task EXCEPT ![c] = t]
    BY <1>1, <1>2 DEF Goes, IdentityTypes
  <2>3. task'[c] = t /\ \A d \in Callers \ {c} : task'[d] = task[d]
    BY <2>2
  <2>4. Running("reset")' => Running("reset")
    BY <2>1, <2>3 DEF Running
  <2>5. /\ t.gen <= app.generation
        /\ t.kind = "sync" =>
              /\ t.revision <= app.revision
              /\ t.revision = app.revision => t.desired = app.desired
    BY <2>1 DEF BearerInv, ChoiceInv
  <2>6. /\ app'.generation = app.generation /\ app'.revision = app.revision
        /\ app'.desired = app.desired
        => BearerInv(t)' /\ ChoiceInv(t)'
    BY <2>1, <2>5, FreshLater
  <2>7. QED
    BY <2>1, <2>3, <2>4, <2>6
<1>3. CASE GivenUp(c) /\ Goes(c, Registered(task[c], TRUE)) /\ UNCHANGED <<disk, app>>
  <2>1. PICK t : t = Registered(task[c], TRUE)
    OBVIOUS
  <2>2. Goes(c, t)
    BY <1>3, <2>1
  <2>3. QED
    BY <1>1, <1>2, <1>3, <2>1, <2>2, AnswerStep
<1>4. PICK r \in Requests : r = Request(c)
  BY <1>1, RequestFacts
<1>5. CASE /\ Handle(r) /\ late' = late /\ Goes(c, Registered(task[c], failed))
           /\ AnswerTo(r).result = "issued"
           /\ Install(AnswerTo(r).credential, app.revision)
  <2>1. PICK t : t = Registered(task[c], failed)
    OBVIOUS
  <2>2. Goes(c, t)
    BY <1>5, <2>1
  <2>3. /\ CredentialInv'
        /\ \A d \in Callers \ {c} : BearerInv(task[d])' /\ ChoiceInv(task[d])'
        /\ AgreementInv'
        /\ disk' \in [installation: Installations \cup {None},
                      credential: Credentials \cup {None}, choice: Choices]
        /\ app' \in [installation: Installations, credential: Credentials \cup {None},
                     enrollment: {"New", "Enrolled", "ResetRequired"},
                     generation: 0..MaxIncidents,
                     desired: Choices, revision: Nat, synced: Nat]
        /\ app'.synced <= app'.revision
        /\ incidents' \in 0..MaxIncidents
        /\ app'.generation = app.generation /\ app'.revision = app.revision
        /\ app'.desired = app.desired
    BY <1>1, <1>2, <1>4, <1>5, <2>1, <2>2, InstallOthers
  <2>4. /\ server' \in [session: [Installations -> 0..MaxSessions],
                        issued: [Installations -> 0..MaxSessions],
                        usage: [Installations -> Choices]]
        /\ \A i \in Installations : server'.session[i] <= server'.issued[i]
        /\ late' \subseteq Requests /\ overtaken' \in BOOLEAN
    BY <1>1, <1>5, HandleFacts DEF IdentityTypes
  <2>5. QED
    BY <1>1, <1>2, <2>1, <2>2, <2>3, <2>4, Assemble
<1>6. CASE /\ Handle(r) /\ late' = late /\ Goes(c, Registered(task[c], failed))
           /\ AnswerTo(r).result # "issued"
           /\ app' = [app EXCEPT !.enrollment = "ResetRequired"]
           /\ UNCHANGED <<disk, incidents>>
  <2>1. PICK t : t = Registered(task[c], failed)
    OBVIOUS
  <2>2. Goes(c, t)
    BY <1>6, <2>1
  <2>3. server' = server
    <3>1. AnswerTo(r).result = "rejected"
      BY <1>1, <1>4, <1>6, RequestFacts DEF AnswerTo, Answer
    <3>2. QED
      BY <1>6, <3>1 DEF Handle
  <2>4. /\ app'.enrollment = "ResetRequired" /\ app'.credential = app.credential
        /\ app'.synced = app.synced
        /\ app'.installation = app.installation /\ app'.generation = app.generation
        /\ app'.desired = app.desired /\ app'.revision = app.revision
    BY <1>1, <1>6 DEF IdentityTypes
  <2>5. /\ app' \in [installation: Installations, credential: Credentials \cup {None},
                     enrollment: {"New", "Enrolled", "ResetRequired"},
                     generation: 0..MaxIncidents,
                     desired: Choices, revision: Nat, synced: Nat]
        /\ app'.synced <= app'.revision
    BY <1>1, <1>6, <2>4 DEF IdentityTypes
  <2>6. CredentialInv'
    <3>1. Running("reset")' => Running("reset")
      BY <1>2, <2>1, <2>2
    <3>2. QED
      BY <1>1, <1>6, <2>3, <2>4, <3>1
         DEF CredentialInv, CredentialIsOurs, Known, Honours, Valid
  <2>7. ASSUME NEW d \in Callers \ {c}
        PROVE  BearerInv(task[d])' /\ ChoiceInv(task[d])'
    <3>1. PICK u \in Task : u = task[d]
      BY TaskFacts
    <3>2. /\ u.pc \notin {"enrol", "rotating", "registering", "deleting", "deleted"}
          /\ BearerInv(u) /\ ChoiceInv(u)
      BY <1>1, <3>1, RegistrationIsExclusive
    <3>3. BearerInv(u)'
      BY <2>3, <2>4, <3>2 DEF BearerInv, Known
    <3>4. ChoiceInv(u)'
      BY <1>1, <1>6, <2>3, <2>4, <3>2 DEF ChoiceInv, Synced, Honours, Valid
    <3>5. task'[d] = u
      BY <1>2, <2>1, <2>2, <3>1
    <3>6. QED
      BY <3>3, <3>4, <3>5
  <2>8. AgreementInv'
    <3>1. \A d \in Callers : task[d].pc \in {"accepting", "setting"} => task'[d] = task[d]
      BY <1>1, <1>2, <2>1, <2>2
    <3>2. QED
      BY <1>1, <1>6, <2>3, <2>4, <3>1 DEF AgreementInv, Synced, Honours, Valid
  <2>9. QED
    BY <1>1, <1>2, <1>6, <2>1, <2>2, <2>3, <2>4, <2>5, <2>6, <2>7, <2>8, Assemble
       DEF IdentityTypes
<1>7. QED
  BY <1>3, <1>4, <1>5, <1>6 DEF HearRegistration, Answered


\* The answer under way says what the server has for the choice that now counts as known.
LEMMA SynchronisedFacts ==
    ASSUME IInv, NEW c \in Callers, task[c].pc = "calling", task[c].kind = "sync",
           task[c].gen = app.generation, task[c].revision = app.revision,
           NEW r \in Requests, r = Request(c), Handle(r), UNCHANGED age,
           AnswerTo(r).result = "ok",
           ~(task[c].desired = None /\ server.usage[task[c].bearer[1]] # None)
    PROVE  /\ server'.usage[app.installation] = app.desired
           /\ r.call = "put" => r.value = app.desired /\ r.value # None
<1>1. /\ IdentityTypes /\ OnTheWire(c)
      /\ task[c].bearer[1] = app.installation
      /\ task[c].desired = app.desired
  BY TaskFacts DEF IInv, OnTheWire, BearerInv, ChoiceInv
<1>2. CASE task[c].desired # None
  <2>1. r.call = "put" /\ r.value = app.desired /\ r.installation = app.installation
    BY <1>1, <1>2, RequestFacts
  <2>2. QED
    BY <1>1, <1>2, <2>1, HandleFacts
<1>3. CASE task[c].desired = None
  <2>1. r.call = "call"
    BY <1>1, <1>3, RequestFacts
  <2>2. server' = server
    BY <1>1, <2>1, HandleFacts
  <2>3. QED
    BY <1>1, <1>3, <2>1, <2>2
<1>4. QED
  BY <1>2, <1>3

LEMMA HearCallStep ==
    ASSUME IInv, NEW c \in Callers, HearCall(c)
    PROVE  IInv'
<1> DEFINE t == task[c]
           remote == server.usage[t.bearer[1]]
           decided == t.kind = "sync" /\ t.desired = None /\ remote # None
           adopting == [Idle EXCEPT !.kind = "adopt", !.pc = "adopting",
                                    !.desired = remote, !.revision = t.revision]
<1>1. /\ t.pc = "calling" /\ t.kind # "opened" /\ OnTheWire(c) /\ CanTake(c, {"identity"})
      /\ UNCHANGED <<age, overtaken>>
      /\ IdentityTypes /\ AgreementInv
      /\ t \in Task /\ Stands(t) /\ BearerInv(t) /\ ChoiceInv(t)
      /\ app.generation \in Nat /\ app.revision \in Nat
  BY TaskFacts DEF HearCall, At, OnTheWire, IInv, IdentityTypes
<1>2. ASSUME Goes(c, Idle), UNCHANGED <<disk, app>>,
             \/ Answered(c) /\ UNCHANGED incidents
             \/ GivenUp(c)
      PROVE  IInv'
  BY <1>1, <1>2, IdleFacts, IdleIsHarmless, IdleLater, AnswerStep
<1>3. PICK r \in Requests : r = Request(c)
  BY <1>1, RequestFacts
<1>4. /\ t.kind \in {"call", "webview", "sync"}
      /\ r.call \in {"put", "call"} /\ t.bearer \in Credentials
      /\ r.bearer = t.bearer
      /\ t.bearer[1] \in Installations
  BY <1>1, <1>3, RequestFacts DEF Stands, Credentials
\* The answer is a refusal.
<1>5. CASE /\ Handle(r) /\ late' = late /\ AnswerTo(r).result # "ok"
           /\ Invalidate(t.bearer) /\ Goes(c, Idle)
  <2>1. AnswerTo(r).result = "unauthorized"
    BY <1>4, <1>5 DEF AnswerTo, Answer
  <2>2. server' = server /\ ~Honours(t.bearer)
    BY <1>1, <1>4, <1>5, <2>1, HandleFacts
  <2>3. /\ task' = [task EXCEPT ![c] = Idle] /\ task \in [Callers -> Task]
    BY <1>1, <1>5 DEF Goes, IdentityTypes
  <2>4. /\ task'[c] = Idle /\ \A d \in Callers \ {c} : task'[d] = task[d]
        /\ Running("reset")' => Running("reset")
    BY <2>3, IdleFacts DEF Running
  <2>5. /\ CredentialInv'
        /\ \A d \in Callers \ {c} : BearerInv(task[d])' /\ ChoiceInv(task[d])'
        /\ AgreementInv'
        /\ disk' \in [installation: Installations \cup {None},
                      credential: Credentials \cup {None}, choice: Choices]
        /\ app' \in [installation: Installations, credential: Credentials \cup {None},
                     enrollment: {"New", "Enrolled", "ResetRequired"},
                     generation: 0..MaxIncidents,
                     desired: Choices, revision: Nat, synced: Nat]
        /\ app'.synced <= app'.revision
        /\ incidents' \in 0..MaxIncidents
        /\ app'.generation = app.generation
    BY <1>1, <1>5, <2>2, <2>4, IdleFacts, InvalidateOthers
  <2>6. BearerInv(Idle)' /\ ChoiceInv(Idle)'
    BY <1>1, <2>5, IdleLater
  <2>7. QED
    BY <1>1, <1>5, <2>2, <2>5, <2>6, IdleFacts, IdleIsHarmless, Assemble
       DEF IdentityTypes
\* The choice the request was about is still the one in force, and now known.
<1>6. CASE /\ Handle(r) /\ late' = late /\ AnswerTo(r).result = "ok"
           /\ t.gen = app.generation /\ t.kind = "sync" /\ app.revision = t.revision
           /\ ~decided /\ app' = [app EXCEPT !.synced = t.revision]
           /\ UNCHANGED <<disk, incidents>>
           /\ Goes(c, Current(t))
  <2>1. PICK next \in Task : next = Current(t)
    BY CurrentIsHarmless
  <2>2. /\ next.kind \in {"idle", "opened"} /\ next.held = {} /\ Stands(next)
        /\ next.pc \in {"idle", "ready", "registration"} /\ next.bearer = None
        /\ next.gen <= app.generation
    BY <2>1, CurrentIsHarmless DEF BearerInv
  <2>3. /\ Goes(c, next) /\ task' = [task EXCEPT ![c] = next] /\ task \in [Callers -> Task]
    BY <1>1, <1>6, <2>1 DEF Goes, IdentityTypes
  <2>4. /\ task'[c] = next /\ \A d \in Callers \ {c} : task'[d] = task[d]
        /\ Running("reset")' => Running("reset")
    BY <2>2, <2>3 DEF Running
  <2>5. /\ app' = [app EXCEPT !.synced = app.revision]
        /\ app'.generation = app.generation /\ app'.revision = app.revision
        /\ app'.desired = app.desired /\ app'.synced = app.revision
        /\ app'.installation = app.installation /\ app'.credential = app.credential
    BY <1>1, <1>6 DEF IdentityTypes
  <2>6. app' \in [installation: Installations, credential: Credentials \cup {None},
                  enrollment: {"New", "Enrolled", "ResetRequired"},
                  generation: 0..MaxIncidents,
                  desired: Choices, revision: Nat, synced: Nat]
    BY <1>1, <2>5 DEF IdentityTypes
  <2>7. /\ server'.usage[app.installation] = app.desired
        /\ r.call = "put" => r.value = app.desired /\ r.value # None
    BY <1>1, <1>3, <1>6, SynchronisedFacts
  <2>8. /\ incidents' \in 0 .. MaxIncidents /\ incidents <= incidents'
        /\ overtaken' \in BOOLEAN
    BY <1>1, <1>6 DEF IdentityTypes
  <2>9. /\ CredentialInv'
        /\ \A d \in Callers \ {c} : BearerInv(task[d])' /\ ChoiceInv(task[d])'
    BY <1>1, <1>6, <2>4, <2>5, <2>7, <2>8, ServerSide
  <2>10. BearerInv(next)' /\ ChoiceInv(next)'
    BY <2>2, <2>5, FreshLater
  <2>11. AgreementInv'
    BY <1>1, <1>6, <2>4, <2>5, <2>7 DEF AgreementInv
  <2>12. /\ server' \in [session: [Installations -> 0..MaxSessions],
                         issued: [Installations -> 0..MaxSessions],
                         usage: [Installations -> Choices]]
         /\ \A i \in Installations : server'.session[i] <= server'.issued[i]
         /\ late' \subseteq Requests
         /\ disk' \in [installation: Installations \cup {None},
                       credential: Credentials \cup {None}, choice: Choices]
         /\ app'.synced <= app'.revision
    BY <1>1, <1>6, <2>5, HandleFacts DEF IdentityTypes
  <2>13. QED
    BY <1>1, <2>2, <2>3, <2>6, <2>8, <2>9, <2>10, <2>11, <2>12, Assemble
\* The account has a choice and the PC none: it is adopted.
<1>7. CASE /\ Answered(c) /\ AnswerTo(r).result = "ok" /\ t.gen = app.generation
           /\ decided /\ app.revision = t.revision
           /\ UNCHANGED <<disk, app, incidents>> /\ Goes(c, adopting)
  <2>1. remote \in Choices /\ t.revision \in Nat
    BY <1>1, <1>4, <1>7 DEF IdentityTypes
  <2>2. PICK next \in Task : next = adopting
    BY <2>1, IdleFacts DEF Task
  <2>3. /\ next.kind = "adopt" /\ next.pc = "adopting" /\ next.held = {}
        /\ next.bearer = None /\ next.gen = 0 /\ next.desired = remote
        /\ next.revision = t.revision
    BY <2>1, <2>2, IdleFacts DEF Task
  <2>4. server' = server
    <3>1. Handle(r) /\ r.call = "call"
      BY <1>1, <1>3, <1>7, RequestFacts DEF Answered
    <3>2. QED
      BY <1>1, <1>7, <3>1, HandleFacts
  <2>5. Stands(next)
    BY <2>3 DEF Stands
  <2>6. BearerInv(next)'
    BY <1>1, <1>7, <2>3 DEF BearerInv
  <2>7. ChoiceInv(next)'
    <3>1. t.bearer[1] = app.installation /\ app.enrollment # "New"
      BY <1>1, <1>7 DEF BearerInv
    <3>2. QED
      BY <1>1, <1>7, <2>3, <2>4, <3>1 DEF ChoiceInv
  <2>8. QED
    BY <1>1, <1>7, <2>2, <2>3, <2>5, <2>6, <2>7, AnswerStep
\* Nothing the PC goes by changes.
<1>8. CASE /\ Answered(c) /\ UNCHANGED <<disk, app, incidents>> /\ Goes(c, Current(t))
  <2>1. PICK next \in Task : next = Current(t)
    BY CurrentIsHarmless
  <2>2. /\ next.kind \in {"idle", "opened"} /\ next.held = {} /\ Stands(next)
        /\ next.pc \in {"idle", "ready", "registration"} /\ next.bearer = None
        /\ next.gen <= app.generation
    BY <2>1, CurrentIsHarmless DEF BearerInv
  <2>3. BearerInv(next)' /\ ChoiceInv(next)'
    BY <1>8, <2>2, FreshLater
  <2>4. Goes(c, next)
    BY <1>8, <2>1
  <2>5. QED
    BY <1>1, <1>8, <2>2, <2>3, <2>4, AnswerStep
<1>9. ASSUME Answered(c)
      PROVE  Handle(r) /\ late' = late
  BY <1>3, <1>9 DEF Answered
<1>10. CASE GivenUp(c) /\ Goes(c, Idle) /\ UNCHANGED <<disk, app>>
  BY <1>2, <1>10
<1>11. CASE Answered(c)
  BY <1>2, <1>3, <1>5, <1>6, <1>7, <1>8, <1>9, <1>11, Zenon DEF HearCall
<1>12. QED
  BY <1>10, <1>11 DEF HearCall


-----------------------------------------------------------------------------
(* The user's choice, and the account's where the user has none. *)

\* A task that reads the settings and is about to go by them.
LEMMA ReadsIsHarmless ==
    ASSUME IInv, NEW c \in Callers, task[c].pc \in {"adopting", "accepting"},
           disk.choice # None
    PROVE  LET r == Reads(task[c]) IN
           /\ r \in Task /\ r.kind = task[c].kind /\ r.held = {} /\ r.pc = "setting"
           /\ Stands(r) /\ BearerInv(r) /\ ChoiceInv(r)
<1>1. /\ task[c] \in Task /\ task[c].kind = "adopt" /\ task[c].held = {}
      /\ BearerInv(task[c]) /\ ChoiceInv(task[c]) /\ disk.choice \in Choices
  BY TaskFacts DEF Stands, IInv, IdentityTypes
<1>2. PICK r \in Task : r = Reads(task[c])
  BY <1>1 DEF Reads, Task
<1>3. /\ r.pc = "setting" /\ r.desired = disk.choice /\ r.kind = "adopt" /\ r.held = {}
      /\ r.gen = task[c].gen /\ r.bearer = task[c].bearer
      /\ r.revision = task[c].revision
  BY <1>1, <1>2 DEF Reads, Task
<1>4. Stands(r)
  BY <1>3 DEF Stands
<1>5. BearerInv(r)
  BY <1>1, <1>3 DEF BearerInv
<1>6. ChoiceInv(r)
  BY <1>1, <1>3 DEF ChoiceInv
<1>7. QED
  BY <1>1, <1>2, <1>3, <1>4, <1>5, <1>6

LEMMA AdoptStep ==
    ASSUME IInv, NEW c \in Callers, Adopt(c)
    PROVE  IInv'
<1> DEFINE t == task[c]
           accepting == [t EXCEPT !.pc = "accepting"]
<1>1. /\ t.pc = "adopting" /\ UNCHANGED <<app, server, late, age, overtaken>>
      /\ t \in Task /\ Stands(t) /\ BearerInv(t) /\ ChoiceInv(t)
      /\ t.kind = "adopt" /\ t.held = {} /\ t.desired \in Choices /\ t.desired # None
      /\ IdentityTypes /\ CredentialInv /\ AgreementInv
      /\ MaxIncidents \in Nat
  BY TaskFacts, DesktopIdentityAssumption DEF Adopt, At, IInv, Stands, ChoiceInv, Task
<1>2. CASE disk.choice # None /\ Goes(c, Reads(t)) /\ UNCHANGED <<disk, incidents>>
  BY <1>1, <1>2, ReadsIsHarmless, TaskOnly, NoLocks
<1>3. CASE disk.choice = None
  <2>1. PICK ok \in BOOLEAN :
           /\ Attempt(ok)
           /\ disk' = [disk EXCEPT !.choice = IF ok THEN t.desired ELSE @]
           /\ Goes(c, IF ok THEN accepting ELSE Idle)
    BY <1>3 DEF Adopt
  <2>2. PICK next \in Task : next = IF ok THEN accepting ELSE Idle
    BY <1>1, IdleFacts DEF Task
  <2>3. ok => /\ next.kind = "adopt" /\ next.pc = "accepting" /\ next.held = {}
              /\ next.gen = t.gen /\ next.bearer = t.bearer
              /\ next.desired = t.desired /\ next.revision = t.revision
    BY <1>1, <2>2 DEF Task
  <2>4. /\ disk'.credential = disk.credential /\ disk'.installation = disk.installation
        /\ disk'.choice = IF ok THEN t.desired ELSE None
        /\ disk' \in [installation: Installations \cup {None},
                      credential: Credentials \cup {None}, choice: Choices]
    BY <1>1, <1>3, <2>1 DEF IdentityTypes
  <2>5. Goes(c, next) /\ task' = [task EXCEPT ![c] = next] /\ task \in [Callers -> Task]
    BY <1>1, <2>1, <2>2 DEF Goes, IdentityTypes
  <2>6. /\ task'[c] = next /\ \A d \in Callers \ {c} : task'[d] = task[d]
        /\ Running("reset")' => Running("reset")
    BY <2>2, <2>3, <2>5, IdleFacts DEF Running
  <2>7. /\ incidents' \in 0 .. MaxIncidents /\ incidents <= incidents'
        /\ incidents \in Nat /\ app.generation \in Nat
    BY <1>1, <2>1 DEF Attempt, Incident, IdentityTypes
  <2>8. CredentialInv'
    BY <1>1, <2>4, <2>6, <2>7 DEF CredentialInv, CredentialIsOurs, Known, Honours, Valid
  <2>9. Stands(next) /\ BearerInv(next)' /\ ChoiceInv(next)' /\ next.held = {}
    <3>1. CASE ok
      <4>1. Stands(next)
        BY <2>3, <3>1 DEF Stands
      <4>2. BearerInv(next)'
        BY <1>1, <2>3, <3>1 DEF BearerInv, Known
      <4>3. ChoiceInv(next)'
        BY <1>1, <2>3, <2>4, <3>1 DEF ChoiceInv, Honours, Valid
      <4>4. QED
        BY <2>3, <3>1, <4>1, <4>2, <4>3
    <3>2. CASE ~ok
      BY <1>1, <2>2, <2>7, <3>2, IdleFacts, IdleIsHarmless, IdleLater
    <3>3. QED
      BY <3>1, <3>2
  <2>10. ASSUME NEW d \in Callers \ {c}
         PROVE  BearerInv(task[d])' /\ ChoiceInv(task[d])'
    <3>1. PICK u \in Task : u = task[d]
      BY TaskFacts
    <3>2. BearerInv(u) /\ ChoiceInv(u)
      BY <3>1, TaskFacts
    <3>3. BearerInv(u)'
      BY <1>1, <3>2 DEF BearerInv, Known, Honours, Valid
    <3>4. ChoiceInv(u)'
      BY <1>1, <1>3, <3>2 DEF ChoiceInv, Synced, Honours, Valid
    <3>5. QED
      BY <2>6, <3>1, <3>3, <3>4
  <2>11. AgreementInv'
    <3>1. CASE ok
      BY <1>1, <2>3, <2>6, <3>1 DEF AgreementInv, Synced, Honours, Valid
    <3>2. CASE ~ok
      BY <1>1, <1>3, <2>4, <2>6, <3>2 DEF AgreementInv, Synced, Honours, Valid
    <3>3. QED
      BY <3>1, <3>2
  <2>12. next.kind = t.kind \/ next.held \subseteq {"webview", "registration"}
    BY <2>9
  <2>13. next.kind = "reset" => t.kind = "reset"
    BY <2>2, <2>3, IdleFacts
  <2>14. QED
    BY <1>1, <2>4, <2>5, <2>7, <2>8, <2>9, <2>10, <2>11, <2>12, <2>13, Assemble
       DEF IdentityTypes
<1>4. QED
  BY <1>2, <1>3 DEF Adopt


\* The account's choice takes effect only while there is none on the PC.
LEMMA AcceptStep ==
    ASSUME IInv, NEW c \in Callers, Accept(c)
    PROVE  IInv'
<1> DEFINE t == task[c]
<1>1. /\ t.pc = "accepting" /\ UNCHANGED <<disk, server, late, age, overtaken, incidents>>
      /\ t \in Task /\ BearerInv(t) /\ ChoiceInv(t)
      /\ t.kind = "adopt" /\ t.desired \in Choices /\ t.desired # None
      /\ disk.choice # None
      /\ IdentityTypes /\ CredentialInv /\ AgreementInv
  BY TaskFacts DEF Accept, At, IInv, Stands, ChoiceInv, Task
<1>2. CASE Goes(c, Reads(t)) /\ UNCHANGED app
  BY <1>1, <1>2, ReadsIsHarmless, TaskOnly, NoLocks
<1>3. CASE /\ app.revision = t.revision /\ app.desired = None
           /\ app' = [app EXCEPT !.desired = t.desired, !.revision = @ + 1,
                                 !.synced = app.revision + 1]
           /\ Goes(c, Idle)
  <2>1. app.revision \in Nat /\ app.synced \in Nat
    BY <1>1 DEF IdentityTypes
  <2>2. /\ app'.installation = app.installation /\ app'.credential = app.credential
        /\ app'.enrollment = app.enrollment /\ app'.generation = app.generation
        /\ app'.desired = t.desired /\ app'.revision = app.revision + 1
        /\ app'.synced = app.revision + 1
    BY <1>1, <1>3 DEF IdentityTypes
  <2>3. app' \in [installation: Installations, credential: Credentials \cup {None},
                  enrollment: {"New", "Enrolled", "ResetRequired"},
                  generation: 0..MaxIncidents,
                  desired: Choices, revision: Nat, synced: Nat]
    <3>1. PICK n \in Nat : n = app.revision + 1
      BY <2>1
    <3>2. app' = [app EXCEPT !.desired = t.desired, !.revision = n, !.synced = n]
      BY <1>1, <1>3, <3>1 DEF IdentityTypes
    <3>3. QED
      BY <1>1, <3>2 DEF IdentityTypes
  <2>4. /\ task \in [Callers -> Task] /\ task' = [task EXCEPT ![c] = Idle]
    BY <1>1, <1>3 DEF Goes, IdentityTypes
  <2>5. /\ task'[c] = Idle /\ \A d \in Callers \ {c} : task'[d] = task[d]
        /\ Running("reset")' => Running("reset")
    BY <2>4, IdleFacts DEF Running
  <2>6. CredentialInv'
    BY <1>1, <2>2, <2>5 DEF CredentialInv, CredentialIsOurs, Known, Honours, Valid
  <2>7. ASSUME NEW d \in Callers \ {c}
        PROVE  BearerInv(task[d])' /\ ChoiceInv(task[d])'
    <3>1. PICK u \in Task : u = task[d]
      BY TaskFacts
    <3>2. BearerInv(u) /\ ChoiceInv(u) /\ u.revision \in Nat
      BY <3>1, TaskFacts DEF Task
    <3>3. BearerInv(u)'
      BY <1>1, <2>2, <3>2 DEF BearerInv, Known, Honours, Valid
    <3>4. ChoiceInv(u)'
      <4>1. u.pc = "calling" => u.kind # "opened" /\ (u.kind = "sync" => u.desired = None)
        BY <1>3, <3>2, DesktopIdentityAssumption DEF ChoiceInv
      <4>2. u.revision <= app.revision => u.revision < app'.revision
        BY <2>1, <2>2, <3>2
      <4>3. QED
        BY <1>1, <2>1, <2>2, <3>2, <4>1, <4>2 DEF ChoiceInv
    <3>5. QED
      BY <2>5, <3>1, <3>3, <3>4
  <2>8. AgreementInv'
    <3>1. app'.desired = disk.choice
      BY <1>1, <1>3, <2>2 DEF ChoiceInv
    <3>2. ~overtaken /\ Honours(app.credential) => server.usage[app.installation] = t.desired
      BY <1>1, <1>3 DEF ChoiceInv
    <3>3. QED
      BY <1>1, <2>2, <3>1, <3>2 DEF AgreementInv, Honours, Valid
  <2>9. BearerInv(Idle)' /\ ChoiceInv(Idle)'
    BY <2>3, IdleLater
  <2>10. app'.synced <= app'.revision
    BY <2>1, <2>2
  <2>11. Idle.held = {} /\ Idle.kind # "reset" /\ Idle \in Task /\ Stands(Idle)
    BY <1>1, IdleFacts, IdleIsHarmless
  <2>12. QED
    BY <1>1, <1>3, <2>3, <2>6, <2>7, <2>8, <2>9, <2>10, <2>11, Assemble
       DEF IdentityTypes
<1>4. QED
  BY <1>2, <1>3 DEF Accept, Acceptable

\* A choice that changes starts a revision the server does not know.
LEMMA ChangedFacts ==
    ASSUME IdentityTypes, NEW desired \in Choices, app' = Changed(desired)
    PROVE  /\ app' \in [installation: Installations, credential: Credentials \cup {None},
                        enrollment: {"New", "Enrolled", "ResetRequired"},
                        generation: 0..MaxIncidents,
                        desired: Choices, revision: Nat, synced: Nat]
           /\ app'.installation = app.installation /\ app'.credential = app.credential
           /\ app'.enrollment = app.enrollment /\ app'.generation = app.generation
           /\ app'.synced = app.synced /\ app'.desired = desired
           /\ app.revision <= app'.revision /\ app.synced <= app'.revision
           /\ app.revision \in Nat /\ app'.revision \in Nat
           /\ app'.revision = app.revision => desired = app.desired
           /\ app.synced = app'.revision => Synced /\ desired = app.desired
<1>1. /\ app' = [app EXCEPT !.desired = desired,
                            !.revision = IF app.desired = desired THEN @ ELSE @ + 1]
      /\ app \in [installation: Installations, credential: Credentials \cup {None},
                  enrollment: {"New", "Enrolled", "ResetRequired"},
                  generation: 0..MaxIncidents,
                  desired: Choices, revision: Nat, synced: Nat]
      /\ app.synced <= app.revision /\ app.revision \in Nat /\ app.synced \in Nat
  BY DEF IdentityTypes, Changed
<1>2. PICK n \in Nat : n = IF app.desired = desired THEN app.revision ELSE app.revision + 1
  BY <1>1
<1>3. app' = [app EXCEPT !.desired = desired, !.revision = n]
  BY <1>1, <1>2
<1>4. /\ app.revision <= n /\ app.synced <= n
      /\ n = app.revision => desired = app.desired
      /\ app.synced = n => app.synced = app.revision
  BY <1>1, <1>2
<1>5. /\ app'.installation = app.installation /\ app'.credential = app.credential
      /\ app'.enrollment = app.enrollment /\ app'.generation = app.generation
      /\ app'.synced = app.synced /\ app'.desired = desired /\ app'.revision = n
  BY <1>1, <1>3
<1>6. app' \in [installation: Installations, credential: Credentials \cup {None},
                enrollment: {"New", "Enrolled", "ResetRequired"},
                generation: 0..MaxIncidents,
                desired: Choices, revision: Nat, synced: Nat]
  BY <1>1, <1>3
<1>7. QED
  BY <1>1, <1>4, <1>5, <1>6 DEF Synced

\* Nobody is asking the server under a choice that now changes.
LEMMA ChangeOthers ==
    ASSUME IInv, NEW desired \in BOOLEAN, app' = Changed(desired),
           UNCHANGED <<server, age>>, overtaken => overtaken',
           disk.choice # None => disk'.choice # None,
           NEW d \in Callers, task'[d] = task[d], "usage" \notin task[d].held
    PROVE  BearerInv(task[d])' /\ ChoiceInv(task[d])'
<1>1. PICK u \in Task : u = task[d]
  BY TaskFacts
<1>2. /\ BearerInv(u) /\ ChoiceInv(u) /\ u.revision \in Nat
      /\ u.pc = "calling" => u.kind \notin {"sync", "opened"}
  BY <1>1, TaskFacts DEF Task, Stands
<1>3. /\ desired \in Choices /\ desired # None /\ IdentityTypes
  BY DesktopIdentityAssumption DEF Choices, IInv
<1>4. /\ app'.installation = app.installation /\ app'.credential = app.credential
      /\ app'.enrollment = app.enrollment /\ app'.generation = app.generation
      /\ app'.desired = desired
      /\ app.revision <= app'.revision
      /\ app.revision \in Nat /\ app'.revision \in Nat
      /\ app'.revision = app.revision => desired = app.desired
  BY <1>3, ChangedFacts
<1>5. BearerInv(u)'
  BY <1>2, <1>4 DEF BearerInv, Known, Honours, Valid
<1>6. u.revision <= app.revision =>
         /\ u.revision <= app'.revision
         /\ u.revision = app'.revision => u.revision = app.revision /\ desired = app.desired
  BY <1>2, <1>4
<1>7. ChoiceInv(u)'
  BY <1>2, <1>3, <1>4, <1>6 DEF ChoiceInv
<1>8. QED
  BY <1>1, <1>5, <1>7

LEMMA SetChoiceStep ==
    ASSUME IInv, NEW c \in Callers, SetChoice(c)
    PROVE  IInv'
<1> DEFINE desired == task[c].desired
<1>1. /\ task[c].pc = "setting" /\ CanTake(c, {"usage"})
      /\ app' = Changed(desired)
      /\ overtaken' = (overtaken \/ desired # disk.choice)
      /\ Goes(c, Idle)
      /\ UNCHANGED <<disk, server, late, age, incidents>>
      /\ task[c] \in Task /\ task[c].kind = "adopt"
      /\ IdentityTypes /\ CredentialInv /\ AgreementInv
  BY TaskFacts DEF SetChoice, At, IInv, Stands
<1>2. desired \in BOOLEAN /\ desired \in Choices
  BY <1>1, TaskFacts DEF ChoiceInv, Task, Choices
<1>3. /\ task \in [Callers -> Task] /\ task' = [task EXCEPT ![c] = Idle]
  BY <1>1 DEF Goes, IdentityTypes
<1>4. /\ task'[c] = Idle /\ \A d \in Callers \ {c} : task'[d] = task[d]
      /\ Running("reset")' => Running("reset")
  BY <1>3, IdleFacts DEF Running
<1>5. /\ app' \in [installation: Installations, credential: Credentials \cup {None},
                   enrollment: {"New", "Enrolled", "ResetRequired"},
                   generation: 0..MaxIncidents,
                   desired: Choices, revision: Nat, synced: Nat]
      /\ app'.installation = app.installation /\ app'.credential = app.credential
      /\ app'.enrollment = app.enrollment /\ app'.generation = app.generation
      /\ app'.synced = app.synced /\ app'.desired = desired
      /\ app'.synced <= app'.revision
      /\ app'.synced = app'.revision => Synced /\ desired = app.desired
  BY <1>1, <1>2, ChangedFacts
<1>6. \A d \in Callers \ {c} : "usage" \notin task[d].held
  BY <1>1 DEF CanTake, Holders, Compatible
<1>7. overtaken => overtaken'
  BY <1>1
<1>8. \A d \in Callers \ {c} : BearerInv(task[d])' /\ ChoiceInv(task[d])'
  BY <1>1, <1>2, <1>4, <1>6, <1>7, ChangeOthers
<1>9. CredentialInv'
  BY <1>1, <1>4, <1>5 DEF CredentialInv, CredentialIsOurs, Known, Honours, Valid
<1>10. AgreementInv'
  BY <1>1, <1>5 DEF AgreementInv, Synced, Honours, Valid
<1>11. BearerInv(Idle)' /\ ChoiceInv(Idle)'
  BY <1>5, IdleLater
<1>12. Idle.held = {} /\ Idle.kind # "reset" /\ Idle \in Task /\ Stands(Idle)
  BY <1>1, IdleFacts, IdleIsHarmless
<1>13. overtaken' \in BOOLEAN
  BY <1>1 DEF IdentityTypes
<1>14. QED
  BY <1>1, <1>5, <1>8, <1>9, <1>10, <1>11, <1>12, <1>13, Assemble DEF IdentityTypes

LEMMA ChooseStep ==
    ASSUME IInv, NEW desired \in BOOLEAN, Choose(desired)
    PROVE  IInv'
<1>1. /\ incidents < MaxIncidents /\ incidents' = incidents + 1
      /\ \A c \in Callers : "usage" \notin task[c].held
      /\ disk' = [disk EXCEPT !.choice = desired]
      /\ app' = Changed(desired)
      /\ UNCHANGED <<task, server, late, age, overtaken>>
      /\ IdentityTypes /\ CredentialInv /\ AgreementInv
      /\ desired \in Choices /\ desired # None
      /\ MaxIncidents \in Nat
  BY DesktopIdentityAssumption DEF Choose, Incident, IInv, Choices
<1>2. /\ disk'.choice = desired /\ disk'.installation = disk.installation
      /\ disk'.credential = disk.credential
      /\ disk' \in [installation: Installations \cup {None},
                    credential: Credentials \cup {None}, choice: Choices]
  BY <1>1 DEF IdentityTypes
<1>3. /\ app' \in [installation: Installations, credential: Credentials \cup {None},
                   enrollment: {"New", "Enrolled", "ResetRequired"},
                   generation: 0..MaxIncidents,
                   desired: Choices, revision: Nat, synced: Nat]
      /\ app'.installation = app.installation /\ app'.credential = app.credential
      /\ app'.enrollment = app.enrollment /\ app'.generation = app.generation
      /\ app'.synced = app.synced /\ app'.desired = desired
      /\ app'.synced <= app'.revision
      /\ app'.synced = app'.revision => Synced /\ desired = app.desired
  BY <1>1, ChangedFacts
<1>4. /\ incidents' \in 0 .. MaxIncidents /\ incidents <= incidents'
      /\ incidents \in Nat /\ app.generation \in Nat
  BY <1>1 DEF IdentityTypes
<1>5. IdentityTypes'
  BY <1>1, <1>2, <1>3, <1>4 DEF IdentityTypes
<1>6. LockInv'
  BY <1>1 DEF IInv, LockInv, CanTake, Holders, Compatible
<1>7. CredentialInv'
  BY <1>1, <1>2, <1>3, <1>4
     DEF CredentialInv, CredentialIsOurs, Known, Honours, Valid, Running
<1>8. \A d \in Callers : BearerInv(task[d])' /\ ChoiceInv(task[d])'
  BY <1>1, <1>2, ChangeOthers
<1>9. AgreementInv'
  BY <1>1, <1>2, <1>3 DEF AgreementInv, Synced, Honours, Valid
<1>10. QED
  BY <1>5, <1>6, <1>7, <1>8, <1>9 DEF IInv


-----------------------------------------------------------------------------
(* The reset itself. *)

\* A reset with all its locks is alone: the other tasks hold none.
LEMMA ResetIsAlone ==
    ASSUME IInv, NEW c \in Callers, task[c].kind = "reset", task[c].held = Locks,
           NEW d \in Callers \ {c}
    PROVE  task[d].held = {} /\ task[d].kind \notin {"reset", "renew"}
           /\ task[d].pc \notin {"enrol", "rotating", "registering", "deleting", "deleted"}
           /\ (task[d].pc = "calling" => task[d].kind \in {"call", "webview"})
<1>1. \A lock \in Locks : d \notin Holders(c, lock)
  BY DEF IInv, LockInv, CanTake
<1>2. \A lock \in Locks : lock \notin task[d].held
  BY <1>1 DEF Holders, Compatible
<1>3. task[d].held = {} /\ Stands(task[d])
  BY <1>2, TaskFacts
<1>4. task[d].kind # "reset"
  BY DEF IInv, LockInv
<1>5. QED
  BY <1>3, <1>4 DEF Stands, Own, Locks

\* The generation ends, with or without a new installation: what the others believe of the
\* old one no longer counts.
LEMMA GenerationEnds ==
    ASSUME IInv, NEW c \in Callers, task[c].kind = "reset", task[c].held = Locks,
           UNCHANGED <<server, age, overtaken>>,
           app'.generation = app.generation + 1, app'.desired = app.desired,
           disk'.choice = disk.choice,
           \/ app'.revision = app.revision /\ app'.installation = app.installation
              /\ app'.credential = app.credential /\ app'.enrollment = app.enrollment
           \/ app'.revision = app.revision + 1,
           NEW d \in Callers \ {c}, task'[d] = task[d]
    PROVE  BearerInv(task[d])' /\ ChoiceInv(task[d])'
<1>1. PICK u \in Task : u = task[d]
  BY TaskFacts
<1>2. /\ BearerInv(u) /\ ChoiceInv(u)
      /\ u.kind # "reset"
      /\ u.pc \notin {"enrol", "rotating", "registering", "deleting", "deleted"}
      /\ u.pc = "calling" => u.kind \in {"call", "webview"}
      /\ u.gen \in Nat /\ u.revision \in Nat
      /\ app.generation \in Nat /\ app.revision \in Nat
  <2>1. u.gen \in 0 .. MaxIncidents /\ app.generation \in 0 .. MaxIncidents
    BY <1>1, TaskFacts
  <2>2. u.revision \in Nat /\ app.revision \in Nat
    BY DEF Task, IInv, IdentityTypes
  <2>3. QED
    BY <1>1, <2>1, <2>2, TaskFacts, ResetIsAlone
<1>3. u.gen <= app.generation => u.gen <= app'.generation /\ u.gen # app'.generation
  BY <1>2
<1>4. BearerInv(u)'
  BY <1>2, <1>3 DEF BearerInv, Known
<1>5. ChoiceInv(u)'
  <2>1. CASE app'.revision = app.revision
    <3>1. UNCHANGED <<app.revision, app.installation, app.credential, app.enrollment>>
      BY <1>2, <2>1
    <3>2. QED
      BY <1>2, <3>1 DEF ChoiceInv, Honours, Valid
  <2>2. CASE app'.revision = app.revision + 1
    <3>1. u.revision <= app.revision =>
             u.revision <= app'.revision /\ u.revision # app'.revision
      BY <1>2, <2>2
    <3>2. QED
      BY <1>2, <3>1 DEF ChoiceInv
  <2>3. QED
    BY <2>1, <2>2
<1>6. QED
  BY <1>1, <1>4, <1>5

LEMMA ClearIdentityStep ==
    ASSUME IInv, NEW c \in Callers, ClearIdentity(c)
    PROVE  IInv'
<1>1. /\ task[c].pc = "deleted" /\ UNCHANGED <<server, late, age, overtaken>>
      /\ task[c].kind = "reset" /\ task[c].held = Locks
      /\ ~Honours(app.credential) /\ app.enrollment # "New"
      /\ IdentityTypes /\ CredentialInv /\ AgreementInv
      /\ MaxIncidents \in Nat /\ MaxInstallations \in Nat
      /\ app.generation \in Nat /\ incidents \in 0 .. MaxIncidents
      /\ app.generation < incidents
      /\ app.revision \in Nat /\ app.synced \in Nat /\ app.synced <= app.revision
  BY TaskFacts, DesktopIdentityAssumption
     DEF ClearIdentity, At, IInv, Stands, BearerInv, IdentityTypes, CredentialInv, Running
<1>2. app.generation + 1 \in 0 .. MaxIncidents /\ app.generation + 1 <= incidents
  BY <1>1
<1>3. \A d \in Callers \ {c} : task[d].kind # "reset"
  BY <1>1, ResetIsAlone
\* The old identity goes on in memory, with less of it on disk.
<1>4. CASE /\ Incident /\ Goes(c, Idle)
           /\ app' = [app EXCEPT !.generation = @ + 1]
           /\ disk' = [disk EXCEPT !.credential = disk'.credential,
                                   !.installation = disk'.installation]
           /\ disk'.credential \in {disk.credential, None}
           /\ disk'.installation \in {disk.installation, None}
           /\ disk'.installation # disk.installation => disk'.credential = None
  <2>1. PICK generation \in 0 .. MaxIncidents : generation = app.generation + 1
    BY <1>2
  <2>2. app' = [app EXCEPT !.generation = generation]
    BY <1>1, <1>4, <2>1 DEF IdentityTypes
  <2>3. /\ app'.installation = app.installation /\ app'.credential = app.credential
        /\ app'.enrollment = app.enrollment /\ app'.generation = app.generation + 1
        /\ app'.desired = app.desired /\ app'.revision = app.revision
        /\ app'.synced = app.synced
    BY <1>1, <2>1, <2>2 DEF IdentityTypes
  <2>4. /\ app' \in [installation: Installations, credential: Credentials \cup {None},
                     enrollment: {"New", "Enrolled", "ResetRequired"},
                     generation: 0..MaxIncidents,
                     desired: Choices, revision: Nat, synced: Nat]
        /\ app'.synced <= app'.revision
    BY <1>1, <2>2, <2>3 DEF IdentityTypes
  <2>5. /\ disk'.choice = disk.choice
        /\ disk' \in [installation: Installations \cup {None},
                      credential: Credentials \cup {None}, choice: Choices]
    <3>1. PICK i \in Installations \cup {None} : i = disk'.installation
      BY <1>1, <1>4 DEF IdentityTypes
    <3>2. PICK b \in Credentials \cup {None} : b = disk'.credential
      BY <1>1, <1>4 DEF IdentityTypes
    <3>3. disk' = [disk EXCEPT !.credential = b, !.installation = i]
      BY <1>4, <3>1, <3>2
    <3>4. QED
      BY <1>1, <3>3 DEF IdentityTypes
  <2>6. /\ task \in [Callers -> Task] /\ task' = [task EXCEPT ![c] = Idle]
    BY <1>1, <1>4 DEF Goes, IdentityTypes
  <2>7. task'[c] = Idle /\ \A d \in Callers \ {c} : task'[d] = task[d]
    BY <2>6
  <2>8. ~Running("reset")'
    BY <1>3, <2>7, IdleFacts DEF Running
  <2>9. incidents' \in 0 .. MaxIncidents /\ app'.generation <= incidents'
    BY <1>1, <1>2, <1>4, <2>3 DEF Incident
  <2>10. CredentialInv'
    <3>1. CredentialIsOurs'
      BY <1>1, <1>4, <2>3 DEF CredentialInv, CredentialIsOurs
    <3>2. \A b \in {app'.credential, disk'.credential} \ {None} : Known(b)'
      BY <1>1, <1>4, <2>3 DEF CredentialInv, Known
    <3>3. \A b \in Credentials : ~Known(b)' => age'[b] = "fresh"
      BY <1>1 DEF CredentialInv, Known
    <3>4. ~Honours(app.credential)'
      BY <1>1, <2>3 DEF Honours, Valid
    <3>5. disk'.installation \in {app'.installation, None}
      BY <1>1, <1>4, <2>3 DEF CredentialInv
    <3>6. disk'.installation = None => disk'.credential = None
      BY <1>1, <1>4 DEF CredentialInv
    <3>7. QED
      BY <1>1, <2>3, <2>8, <2>9, <3>1, <3>2, <3>3, <3>4, <3>5, <3>6 DEF CredentialInv
  <2>11. \A d \in Callers \ {c} : BearerInv(task[d])' /\ ChoiceInv(task[d])'
    BY <1>1, <2>3, <2>5, <2>7, GenerationEnds
  <2>12. AgreementInv'
    BY <1>1, <2>3, <2>5, <2>7 DEF AgreementInv, Synced, Honours, Valid
  <2>13. BearerInv(Idle)' /\ ChoiceInv(Idle)'
    BY <2>4, IdleLater
  <2>14. Idle.held = {} /\ Idle.kind # "reset" /\ Idle \in Task /\ Stands(Idle)
    BY <1>1, IdleFacts, IdleIsHarmless
  <2>15. QED
    BY <1>1, <1>4, <2>4, <2>5, <2>9, <2>10, <2>11, <2>12, <2>13, <2>14, Assemble
       DEF IdentityTypes
\* A new installation, which is registered before the window's session is used again.
<1>5. CASE /\ app.installation < MaxInstallations /\ incidents' = incidents
           /\ Goes(c, [Idle EXCEPT !.kind = "renew", !.pc = "registration",
                                   !.held = {"webview"}])
           /\ app' = Renewed
           /\ disk' = [disk EXCEPT !.credential = None,
                                   !.installation = app.installation + 1]
  <2>1. PICK next \in Task : next = [Idle EXCEPT !.kind = "renew", !.pc = "registration",
                                                 !.held = {"webview"}]
    BY IdleFacts DEF Task, Locks
  <2>2. /\ next.kind = "renew" /\ next.pc = "registration" /\ next.held = {"webview"}
        /\ next.gen = 0 /\ next.bearer = None
    BY <2>1, IdleFacts DEF Task
  <2>3. PICK i \in Installations : i = app.installation + 1
    BY <1>1, <1>5 DEF Installations, IdentityTypes
  <2>4. PICK generation \in 0 .. MaxIncidents : generation = app.generation + 1
    BY <1>2
  <2>5. PICK revision \in Nat : revision = app.revision + 1
    BY <1>1
  <2>6. app' = [app EXCEPT !.installation = i, !.generation = generation,
                           !.credential = None, !.enrollment = "New",
                           !.revision = revision, !.synced = 0]
    BY <1>1, <1>5, <2>3, <2>4, <2>5 DEF Renewed, IdentityTypes
  <2>7. /\ app'.installation = i /\ app'.credential = None
        /\ app'.enrollment = "New" /\ app'.generation = generation
        /\ app'.desired = app.desired /\ app'.revision = revision
        /\ app'.synced = 0
    BY <1>1, <2>6 DEF IdentityTypes
  <2>8. /\ app' \in [installation: Installations, credential: Credentials \cup {None},
                     enrollment: {"New", "Enrolled", "ResetRequired"},
                     generation: 0..MaxIncidents,
                     desired: Choices, revision: Nat, synced: Nat]
        /\ app'.synced <= app'.revision
    <3>1. app' = [installation |-> app'.installation, credential |-> app'.credential,
                  enrollment |-> app'.enrollment, generation |-> app'.generation,
                  desired |-> app'.desired, revision |-> app'.revision,
                  synced |-> app'.synced]
      BY <1>1, <2>6 DEF IdentityTypes
    <3>2. app'.desired \in Choices
      BY <1>1, <2>7 DEF IdentityTypes
    <3>3. QED
      BY <2>7, <3>1, <3>2
  <2>9. /\ disk'.choice = disk.choice /\ disk'.credential = None /\ disk'.installation = i
        /\ disk' \in [installation: Installations \cup {None},
                      credential: Credentials \cup {None}, choice: Choices]
    BY <1>1, <1>5, <2>3 DEF IdentityTypes
  <2>10. Goes(c, next) /\ task \in [Callers -> Task] /\ task' = [task EXCEPT ![c] = next]
    BY <1>1, <1>5, <2>1 DEF Goes, IdentityTypes
  <2>11. task'[c] = next /\ \A d \in Callers \ {c} : task'[d] = task[d]
    BY <2>10
  <2>12. ~Running("reset")'
    BY <1>3, <2>2, <2>11 DEF Running
  <2>13. incidents' \in 0 .. MaxIncidents /\ app'.generation <= incidents'
    BY <1>1, <1>2, <1>5, <2>4, <2>7
  <2>14. CredentialInv'
    <3>1. i # None
      BY DesktopIdentityAssumption
    <3>2. \A b \in Credentials : ~Known(b)' => age'[b] = "fresh"
      BY <1>1 DEF CredentialInv, Known
    <3>3. QED
      BY <2>7, <2>9, <2>12, <2>13, <3>1, <3>2 DEF CredentialInv, CredentialIsOurs
  <2>15. \A d \in Callers \ {c} : BearerInv(task[d])' /\ ChoiceInv(task[d])'
    BY <1>1, <2>4, <2>5, <2>7, <2>9, <2>11, GenerationEnds
  <2>16. AgreementInv'
    <3>1. app'.synced # app'.revision
      BY <1>1, <2>5, <2>7
    <3>2. QED
      BY <1>1, <2>7, <2>9, <2>11, <3>1 DEF AgreementInv, Synced
  <2>17. Stands(next) /\ BearerInv(next)' /\ ChoiceInv(next)'
    BY <2>2, <2>7 DEF Stands, Own, BearerInv, ChoiceInv
  <2>18. next.held \subseteq task[c].held
    BY <1>1, <2>2 DEF Locks
  <2>19. QED
    BY <1>1, <2>2, <2>8, <2>9, <2>10, <2>13, <2>14, <2>15, <2>16, <2>17, <2>18, Assemble
       DEF IdentityTypes
<1>6. CASE Attempt(FALSE) /\ NotCleared(c)
  <2>1. PICK left \in {disk.credential, None} : disk' = [disk EXCEPT !.credential = left]
    BY <1>6 DEF NotCleared
  <2>2. disk'.credential = left /\ disk'.installation = disk.installation
    BY <1>1, <2>1 DEF IdentityTypes
  <2>3. disk' = [disk EXCEPT !.credential = disk'.credential,
                             !.installation = disk'.installation]
    BY <1>1, <2>1, <2>2 DEF IdentityTypes
  <2>4. QED
    BY <1>4, <1>6, <2>2, <2>3 DEF NotCleared, Attempt
<1>7. CASE /\ Attempt(FALSE) /\ Goes(c, Idle)
           /\ app' = [app EXCEPT !.generation = @ + 1]
           /\ \E file \in {disk.installation, None} :
                 disk' = [disk EXCEPT !.credential = None, !.installation = file]
  <2>1. PICK file \in {disk.installation, None} :
           disk' = [disk EXCEPT !.credential = None, !.installation = file]
    BY <1>7
  <2>2. disk'.credential = None /\ disk'.installation = file
    BY <1>1, <2>1 DEF IdentityTypes
  <2>3. disk' = [disk EXCEPT !.credential = disk'.credential,
                             !.installation = disk'.installation]
    BY <2>1, <2>2
  <2>4. QED
    BY <1>4, <1>7, <2>2, <2>3 DEF Attempt
<1>8. QED
  BY <1>5, <1>6, <1>7 DEF ClearIdentity, Attempt


-----------------------------------------------------------------------------
(* Time, restarts and the first start. *)

\* Only a credential the server has issued grows old, and none comes back by it.
LEMMA GrowOldStep ==
    ASSUME IInv, GrowOld(app.credential)
    PROVE  IInv'
<1>1. /\ app.credential # None /\ age[app.credential] # "expired"
      /\ age' = [age EXCEPT ![app.credential] = Older[@]]
      /\ UNCHANGED <<disk, app, task, server, late, overtaken, incidents>>
      /\ IdentityTypes /\ CredentialInv /\ AgreementInv
  BY DEF GrowOld, IInv
<1>2. PICK own \in Credentials : own = app.credential
  BY <1>1 DEF IdentityTypes
<1>3. /\ age \in [Credentials -> {"fresh", "due", "expired"}]
      /\ age[own] \in {"fresh", "due"}
      /\ Older[age[own]] \in {"due", "expired"}
  BY <1>1, <1>2 DEF IdentityTypes, Older
<1>4. /\ age' = [age EXCEPT ![own] = Older[age[own]]]
      /\ age' \in [Credentials -> {"fresh", "due", "expired"}]
      /\ \A b \in Credentials \ {own} : age'[b] = age[b]
  BY <1>1, <1>2, <1>3
<1>5. \A b \in Credentials : Honours(b)' => Honours(b)
  BY <1>1, <1>3, <1>4 DEF Honours, Valid
<1>6. \A b \in Credentials \cup {None} : b # None /\ Honours(b)' => Honours(b)
  BY <1>5
<1>7. Honours(app.credential)' => Honours(app.credential)
  BY <1>1, <1>2, <1>5
<1>8. IdentityTypes'
  BY <1>1, <1>4 DEF IdentityTypes
<1>9. LockInv'
  BY <1>1 DEF IInv, LockInv, CanTake, Holders, Compatible
<1>10. CredentialInv'
  <2>1. \A b \in Credentials : ~Known(b)' => age'[b] = "fresh"
    BY <1>1, <1>2, <1>4 DEF CredentialInv, Known
  <2>2. QED
    BY <1>1, <1>7, <2>1 DEF CredentialInv, CredentialIsOurs, Known, Running
<1>11. ASSUME NEW d \in Callers
       PROVE  BearerInv(task[d])' /\ ChoiceInv(task[d])'
  <2>1. PICK u \in Task : u = task[d]
    BY TaskFacts
  <2>2. /\ BearerInv(u) /\ ChoiceInv(u)
        /\ u.bearer # None => (Honours(u.bearer)' => Honours(u.bearer))
    BY <1>6, <2>1, TaskFacts DEF Task
  <2>3. BearerInv(u)'
    BY <1>1, <1>7, <2>2 DEF BearerInv, Known
  <2>4. ChoiceInv(u)'
    BY <1>1, <1>7, <2>2 DEF ChoiceInv, Synced
  <2>5. task'[d] = u
    BY <1>1, <2>1
  <2>6. QED
    BY <2>3, <2>4, <2>5
<1>12. AgreementInv'
  BY <1>1, <1>7 DEF AgreementInv, Synced
<1>13. QED
  BY <1>8, <1>9, <1>10, <1>11, <1>12 DEF IInv

\* Tasks that have not begun hold nothing and believe nothing.
LEMMA AllIdle ==
    ASSUME app'.generation \in Nat, task' = [c \in Callers |-> Idle]
    PROVE  /\ task' \in [Callers -> Task] /\ LockInv' /\ ~Running("reset")'
           /\ \A c \in Callers : BearerInv(task[c])' /\ ChoiceInv(task[c])'
<1>1. \A c \in Callers : task'[c] = Idle
  OBVIOUS
<1>2. task' \in [Callers -> Task]
  BY IdleFacts
<1>3. Stands(Idle)
  BY IdleFacts DEF Stands
<1>4. LockInv'
  BY <1>1, <1>3, IdleFacts DEF LockInv, CanTake
<1>5. ~Running("reset")'
  BY <1>1, IdleFacts DEF Running
<1>6. BearerInv(Idle)' /\ ChoiceInv(Idle)'
  BY IdleLater
<1>7. \A c \in Callers : BearerInv(task[c])' /\ ChoiceInv(task[c])'
  BY <1>1, <1>6
<1>8. QED
  BY <1>2, <1>4, <1>5, <1>7

LEMMA StartedFacts ==
    ASSUME NEW installation \in Installations, NEW credential \in Credentials \cup {None},
           NEW enrollment \in {"New", "Enrolled", "ResetRequired"}, NEW choice \in Choices
    PROVE  LET s == Started(installation, credential, enrollment, choice) IN
           /\ s \in [installation: Installations, credential: Credentials \cup {None},
                     enrollment: {"New", "Enrolled", "ResetRequired"},
                     generation: 0..MaxIncidents,
                     desired: Choices, revision: Nat, synced: Nat]
           /\ s.installation = installation /\ s.credential = credential
           /\ s.enrollment = enrollment /\ s.generation = 0 /\ s.desired = choice
           /\ s.synced = 0 /\ s.synced <= s.revision /\ s.synced # s.revision
BY DesktopIdentityAssumption DEF Started

\* The PC goes by its files, and by nothing else.
LEMMA RestartStep ==
    ASSUME IInv, Restart
    PROVE  IInv'
<1> DEFINE new == disk.installation = None
           installation == IF new THEN app.installation + 1 ELSE disk.installation
           unusable == disk.credential # None /\ ~Valid(disk.credential)
           Credential(loads) == IF loads /\ ~unusable THEN disk.credential ELSE None
           Enrollment(loads) == IF Credential(loads) # None THEN "Enrolled"
                                ELSE IF new /\ loads /\ ~unusable THEN "New"
                                ELSE "ResetRequired"
<1>1. /\ installation \in Installations
      /\ late' = late \cup Lasting({Request(c) : c \in {d \in Callers : OnTheWire(d)}})
      /\ task' = [c \in Callers |-> Idle]
      /\ UNCHANGED <<server, age, overtaken>>
      /\ IdentityTypes /\ CredentialInv /\ AgreementInv
      /\ MaxIncidents \in Nat
  BY DesktopIdentityAssumption DEF Restart, IInv
<1>2. PICK loads \in BOOLEAN :
         /\ incidents' = incidents + (IF loads THEN 1 ELSE 2) /\ incidents' <= MaxIncidents
         /\ disk' = [disk EXCEPT !.installation = installation,
                                 !.credential = IF loads THEN Credential(loads) ELSE @]
         /\ app' = Started(installation, Credential(loads), Enrollment(loads), disk.choice)
  BY DEF Restart
<1>3. PICK i \in Installations : i = installation
  BY <1>1
<1>4. PICK credential \in Credentials \cup {None} : credential = Credential(loads)
  BY <1>1 DEF IdentityTypes
<1>5. PICK enrollment \in {"New", "Enrolled", "ResetRequired"} :
         enrollment = Enrollment(loads)
  OBVIOUS
<1>6. PICK stored \in Credentials \cup {None} :
         stored = IF loads THEN credential ELSE disk.credential
  BY <1>1 DEF IdentityTypes
<1>7. /\ credential \in {disk.credential, None} /\ stored \in {disk.credential, None}
      /\ enrollment = "New" => credential = None
      /\ disk.credential # None => i = app.installation
  BY <1>1, <1>3, <1>4, <1>5, <1>6 DEF CredentialInv
<1>8. disk.choice \in Choices
  BY <1>1 DEF IdentityTypes
<1>9. app' = Started(i, credential, enrollment, disk.choice)
  BY <1>2, <1>3, <1>4, <1>5
<1>10. disk' = [disk EXCEPT !.installation = i, !.credential = stored]
  BY <1>1, <1>2, <1>3, <1>4, <1>6 DEF IdentityTypes
<1> HIDE DEF new, installation, unusable, Credential, Enrollment
<1>11. /\ app' \in [installation: Installations, credential: Credentials \cup {None},
                    enrollment: {"New", "Enrolled", "ResetRequired"},
                    generation: 0..MaxIncidents,
                    desired: Choices, revision: Nat, synced: Nat]
       /\ app'.installation = i /\ app'.credential = credential
       /\ app'.enrollment = enrollment /\ app'.generation = 0 /\ app'.desired = disk.choice
       /\ app'.synced <= app'.revision /\ app'.synced # app'.revision
  BY <1>8, <1>9, StartedFacts
<1>12. /\ disk'.installation = i /\ disk'.credential = stored /\ disk'.choice = disk.choice
       /\ disk' \in [installation: Installations \cup {None},
                     credential: Credentials \cup {None}, choice: Choices]
  BY <1>1, <1>10 DEF IdentityTypes
<1>13. /\ incidents' \in 0 .. MaxIncidents /\ 0 <= incidents'
  BY <1>1, <1>2 DEF IdentityTypes
<1>14. late' \subseteq Requests /\ \A r \in late' : r.call = "put" => r.value # None
  <2>1. ASSUME NEW c \in Callers, OnTheWire(c)
        PROVE  /\ Request(c) \in Requests
               /\ Request(c).call = "put" => Request(c).value # None
    <3>1. task[c].pc \in {"rotating", "registering", "calling", "deleting"}
      BY <2>1 DEF OnTheWire
    <3>2. QED
      BY <2>1, <3>1, RequestFacts
  <2>2. QED
    BY <1>1, <2>1 DEF Lasting, IdentityTypes, AgreementInv
<1>15. /\ task' \in [Callers -> Task] /\ LockInv' /\ ~Running("reset")'
       /\ \A c \in Callers : BearerInv(task[c])' /\ ChoiceInv(task[c])'
  <2>1. app'.generation \in Nat
    BY <1>11
  <2>2. QED
    BY <1>1, <2>1, AllIdle
<1>16. IdentityTypes'
  BY <1>1, <1>11, <1>12, <1>13, <1>14, <1>15 DEF IdentityTypes
<1>17. CredentialInv'
  <2>1. i # None
    BY DesktopIdentityAssumption
  <2>2. CredentialIsOurs'
    BY <1>1, <1>7, <1>11, <1>12 DEF CredentialInv, CredentialIsOurs
  <2>3. \A b \in {app'.credential, disk'.credential} \ {None} : Known(b)'
    BY <1>1, <1>7, <1>11, <1>12 DEF CredentialInv, Known
  <2>4. \A b \in Credentials : ~Known(b)' => age'[b] = "fresh"
    BY <1>1 DEF CredentialInv, Known
  <2>5. QED
    BY <1>7, <1>11, <1>12, <1>13, <1>15, <2>1, <2>2, <2>3, <2>4 DEF CredentialInv
<1>18. AgreementInv'
  BY <1>11, <1>12, <1>14 DEF AgreementInv, Synced
<1>19. QED
  BY <1>15, <1>16, <1>17, <1>18 DEF IInv

LEMMA InitIInv ==
    ASSUME IdentityInit
    PROVE  IInv
<1>1. /\ task = [c \in Callers |-> Idle] /\ late = {}
      /\ age = [b \in Credentials |-> "fresh"] /\ overtaken = FALSE /\ incidents = 0
  BY DEF IdentityInit
<1>2. /\ 1 \in Installations /\ <<1, 1>> \in Credentials /\ None \in Choices /\ TRUE \in Choices
      /\ 0 \in 0 .. MaxIncidents /\ 1 \in 0 .. MaxSessions /\ 0 \in 0 .. MaxSessions
      /\ <<1, 1>> # None /\ 1 # None
  BY DesktopIdentityAssumption DEF Installations, Credentials, Choices
<1>3. PICK choice \in {None, TRUE}, credential \in {None, <<1, 1>>},
           enrollment \in {"New", "Enrolled"}, n \in {0, 1}, preference \in {None, TRUE} :
         /\ disk = [installation |-> 1, credential |-> credential, choice |-> choice]
         /\ app = Started(1, credential, enrollment, choice)
         /\ server = [session |-> [i \in Installations |-> IF i = 1 THEN n ELSE 0],
                      issued |-> [i \in Installations |-> IF i = 1 THEN n ELSE 0],
                      usage |-> [i \in Installations |-> IF i = 1 THEN preference ELSE None]]
         /\ enrollment = "New" => credential = None
         /\ credential # None => n = 1
  <2>1. CASE /\ \E choice \in {None, TRUE} :
                   /\ disk = [installation |-> 1, credential |-> None, choice |-> choice]
                   /\ app = Started(1, None, "New", choice)
             /\ server = [session |-> [i \in Installations |-> 0],
                          issued |-> [i \in Installations |-> 0],
                          usage |-> [i \in Installations |-> None]]
    <3>1. server = [session |-> [i \in Installations |-> IF i = 1 THEN 0 ELSE 0],
                    issued |-> [i \in Installations |-> IF i = 1 THEN 0 ELSE 0],
                    usage |-> [i \in Installations |-> IF i = 1 THEN None ELSE None]]
      BY <2>1
    <3>2. PICK choice \in {None, TRUE} :
             /\ disk = [installation |-> 1, credential |-> None, choice |-> choice]
             /\ app = Started(1, None, "New", choice)
      BY <2>1
    <3>3. QED
      BY <3>1, <3>2
  <2>2. CASE /\ disk = [installation |-> 1, credential |-> <<1, 1>>, choice |-> None]
             /\ app = Started(1, <<1, 1>>, "Enrolled", None)
             /\ server = [session |-> [i \in Installations |-> IF i = 1 THEN 1 ELSE 0],
                          issued |-> [i \in Installations |-> IF i = 1 THEN 1 ELSE 0],
                          usage |-> [i \in Installations |-> IF i = 1 THEN TRUE ELSE None]]
    BY <2>2
  <2>3. QED
    BY <2>1, <2>2 DEF IdentityInit
<1>4. /\ app \in [installation: Installations, credential: Credentials \cup {None},
                  enrollment: {"New", "Enrolled", "ResetRequired"},
                  generation: 0..MaxIncidents,
                  desired: Choices, revision: Nat, synced: Nat]
      /\ app.installation = 1 /\ app.credential = credential
      /\ app.enrollment = enrollment /\ app.generation = 0 /\ app.desired = choice
      /\ app.synced <= app.revision /\ app.synced # app.revision
  <2>1. /\ credential \in Credentials \cup {None} /\ choice \in Choices
        /\ enrollment \in {"New", "Enrolled", "ResetRequired"}
    BY <1>2
  <2>2. QED
    BY <1>2, <1>3, <2>1, StartedFacts
<1>5. /\ server.session = [i \in Installations |-> IF i = 1 THEN n ELSE 0]
      /\ server.issued = [i \in Installations |-> IF i = 1 THEN n ELSE 0]
      /\ server.usage = [i \in Installations |-> IF i = 1 THEN preference ELSE None]
      /\ n \in 0 .. MaxSessions /\ preference \in Choices
  BY <1>2, <1>3
<1>6. \A c \in Callers : task[c] = Idle
  BY <1>1
<1>7. IdentityTypes
  <2>1. server \in [session: [Installations -> 0..MaxSessions],
                    issued: [Installations -> 0..MaxSessions],
                    usage: [Installations -> Choices]]
    BY <1>2, <1>3, <1>5
  <2>2. \A i \in Installations : server.session[i] <= server.issued[i]
    BY <1>3, <1>5
  <2>3. disk \in [installation: Installations \cup {None},
                  credential: Credentials \cup {None}, choice: Choices]
    BY <1>2, <1>3
  <2>4. task \in [Callers -> Task]
    BY <1>1, IdleFacts
  <2>5. QED
    BY <1>1, <1>2, <1>4, <2>1, <2>2, <2>3, <2>4 DEF IdentityTypes
<1>8. LockInv
  <2>1. Stands(Idle)
    BY IdleFacts DEF Stands
  <2>2. QED
    BY <1>6, <2>1, IdleFacts DEF LockInv, CanTake
<1>9. CredentialInv
  <2>1. disk.installation = 1 /\ disk.credential = credential
    BY <1>3
  <2>2. credential # None => credential = <<1, 1>> /\ server.issued[1] = 1
    BY <1>2, <1>3, <1>5
  <2>3. ~Running("reset")
    BY <1>6, IdleFacts DEF Running
  <2>4. QED
    BY <1>1, <1>2, <1>3, <1>4, <2>1, <2>2, <2>3
       DEF CredentialInv, CredentialIsOurs, Known
<1>10. \A c \in Callers : BearerInv(task[c]) /\ ChoiceInv(task[c])
  BY <1>6, <1>7, IdleIsHarmless
<1>11. AgreementInv
  <2>1. app.desired = disk.choice
    BY <1>3, <1>4
  <2>2. QED
    BY <1>1, <1>4, <2>1 DEF AgreementInv, Synced
<1>12. QED
  BY <1>7, <1>8, <1>9, <1>10, <1>11 DEF IInv


-----------------------------------------------------------------------------
(* Every step keeps the invariant. *)

LEMMA StutterIInv ==
    ASSUME IInv, UNCHANGED vars
    PROVE  IInv'
<1>1. UNCHANGED <<disk, app, task, server, late, age, overtaken, incidents>>
  BY DEF vars
<1>2. IdentityTypes'
  BY <1>1 DEF IInv, IdentityTypes
<1>3. LockInv'
  BY <1>1 DEF IInv, LockInv, CanTake, Holders, Compatible
<1>4. CredentialInv'
  BY <1>1 DEF IInv, CredentialInv, CredentialIsOurs, Known, Honours, Valid, Running
<1>5. \A c \in Callers : BearerInv(task[c])' /\ ChoiceInv(task[c])'
  BY <1>1 DEF IInv, BearerInv, ChoiceInv, Known, Honours, Valid, Synced
<1>6. AgreementInv'
  BY <1>1 DEF IInv, AgreementInv, Synced, Honours, Valid
<1>7. QED
  BY <1>2, <1>3, <1>4, <1>5, <1>6 DEF IInv

LEMMA NextIInv ==
    ASSUME IInv, [IdentityNext]_vars
    PROVE  IInv'
<1>1. ASSUME NEW c \in Callers,
             \/ Call(c) \/ Bootstrap(c) \/ Sync(c) \/ RecordUiOpened(c) \/ StartReset(c)
      PROVE  IInv'
  BY <1>1, CallStep, BootstrapStep, SyncStep, RecordUiOpenedStep, StartResetStep
<1>2. ASSUME NEW c \in Callers, TakeWebview(c) \/ Registering(c) \/ Ready(c)
      PROVE  IInv'
  BY <1>2, TakeWebviewStep, TakeRegistrationStep, EnrolStep, HearRotationStep,
     HearRegistrationStep, ReadyStep DEF Registering
<1>3. ASSUME NEW c \in Callers,
             PutPreference(c) \/ SendOpened(c) \/ HearCall(c) \/ HearOpened(c)
      PROVE  IInv'
  BY <1>3, PutPreferenceStep, SendOpenedStep, HearCallStep, HearOpenedStep
<1>4. ASSUME NEW c \in Callers, Adopting(c) \/ Resetting(c)
      PROVE  IInv'
  BY <1>4, AdoptStep, AcceptStep, SetChoiceStep, TakeLockStep, HearDeletionStep,
     ClearIdentityStep DEF Adopting, Resetting
<1>5. CASE Restart
  BY <1>5, RestartStep
<1>6. ASSUME NEW desired \in BOOLEAN, Choose(desired)
      PROVE  IInv'
  BY <1>6, ChooseStep
<1>7. ASSUME NEW r \in late, ServeLate(r)
      PROVE  IInv'
  BY <1>7, ServeLateStep
<1>8. CASE GrowOld(app.credential)
  BY <1>8, GrowOldStep
<1>9. CASE UNCHANGED vars
  BY <1>9, StutterIInv
<1>10. QED
  BY <1>1, <1>2, <1>3, <1>4, <1>5, <1>6, <1>7, <1>8, <1>9 DEF IdentityNext, Step

(* The inductive invariant of the PC's identity. *)
THEOREM Invariant == IdentitySpec => []IInv
<1>1. IdentityInit => IInv
  BY InitIInv
<1>2. IInv /\ [IdentityNext]_vars => IInv'
  BY NextIInv
<1>3. QED
  BY <1>1, <1>2, PTL DEF IdentitySpec

(* Identity, credentials and preference take the values the code can hold, in    *)
(* memory, on disk, at the server and in the requests between, and a task keeps  *)
(* no lock but the window's while it is about to send or to decide.              *)
THEOREM TypeCorrect == IdentitySpec => []IdentityTypeOK
<1>1. IInv => IdentityTypeOK
  <2> SUFFICES ASSUME IInv, NEW c \in Callers, task[c].pc \in {"idle", "ready", "usage"}
               PROVE  task[c].held \subseteq {"webview"}
    BY DEF IInv, IdentityTypeOK
  <2>1. Stands(task[c])
    BY DEF IInv, LockInv
  <2>2. QED
    BY <2>1 DEF Stands, Own
<1>2. QED
  BY <1>1, Invariant, PTL

(* No tasks ever wait for each other in a circle: service.rs takes the locks of  *)
(* the window's session, the registration, the preference and the identity in    *)
(* one order, and a reset that waits keeps out only tasks that it comes before.  *)
THEOREM NobodyWaitsInACircle == IdentitySpec => []NoCircularWait
<1>1. IInv => NoCircularWait
  BY NoCircle DEF IInv
<1>2. QED
  BY <1>1, Invariant, PTL

(* The credentials in memory and in the store are this installation's, and what  *)
(* counts as the user's choice and as known to the server is, however restarts,  *)
(* resets, late answers and the account's choice come between.                   *)
THEOREM TheMemoryIsTrue == IdentitySpec => []MemoryIsTrue
<1>1. IInv => MemoryIsTrue
  <2> SUFFICES ASSUME IInv PROVE MemoryIsTrue
    OBVIOUS
  <2>1. \A c \in Callers : task[c].pc \in {"accepting", "setting"} => task[c].kind = "adopt"
    BY TaskFacts DEF Stands
  <2>2. CredentialIsOurs /\ AgreementInv
    BY DEF IInv, CredentialInv
  <2>3. QED
    BY <2>1, <2>2 DEF MemoryIsTrue, AgreementInv, Running
<1>2. QED
  BY <1>1, Invariant, PTL

(* An opened window is reported only under a choice that stands and that the     *)
(* server knows, and for the identity it was opened under.                       *)
THEOREM OpenedWindowsAreReportedByChoice == IdentitySpec => []ReportedByChoice
<1>1. IInv => ReportedByChoice
  BY DEF IInv, ChoiceInv, ReportedByChoice, At
<1>2. QED
  BY <1>1, Invariant, PTL

-----------------------------------------------------------------------------
(* The credential the PC works with. *)

\* What a rotation hands out is honoured: its number is new, so it has not grown old.
LEMMA InstalledIsHonoured ==
    ASSUME IInv, NEW c \in Callers, task[c].pc = "rotating",
           NEW r \in Requests, r = Request(c), Handle(r), AnswerTo(r).result = "issued",
           UNCHANGED age, app'.credential = AnswerTo(r).credential
    PROVE  Honours(app.credential)'
<1>1. PICK b \in Credentials : b = AnswerTo(r).credential
  BY HandleFacts DEF IInv
<1>2. /\ IdentityTypes /\ CredentialInv
      /\ MaxSessions \in Nat
  BY DesktopIdentityAssumption DEF IInv
<1>3. /\ r.installation \in Installations
      /\ b = <<r.installation, server.issued[r.installation] + 1>>
      /\ server'.session[r.installation] = server.issued[r.installation] + 1
  BY <1>1, <1>2, HandleFacts DEF Requests
<1>4. /\ b[1] = r.installation /\ server'.session[b[1]] = b[2]
      /\ server.issued[b[1]] \in Nat /\ b[2] = server.issued[b[1]] + 1
  BY <1>2, <1>3 DEF IdentityTypes
<1>5. ~Known(b)
  BY <1>4 DEF Known
<1>6. age[b] = "fresh"
  BY <1>2, <1>5 DEF CredentialInv
<1>7. b # None
  BY DesktopIdentityAssumption
<1>8. QED
  BY <1>1, <1>4, <1>6, <1>7 DEF Honours, Valid

\* A refused credential is dropped only if it is the one refused.
LEMMA InvalidatedWasRefused ==
    ASSUME IInv, NEW c \in Callers, OnTheWire(c), task[c].pc # "registering",
           Answered(c), AnswerTo(Request(c)).result \notin {"issued", "ok"},
           Invalidate(task[c].bearer), app'.credential # app.credential
    PROVE  ~Honours(app.credential)
<1>1. PICK r \in Requests : r = Request(c)
  BY RequestFacts
<1>2. r.bearer = task[c].bearer /\ r.call # "register"
  <2>1. task[c].pc \in {"rotating", "calling", "deleting"}
    BY DEF OnTheWire
  <2>2. QED
    BY <1>1, <2>1, RequestFacts
<1>3. ~Honours(task[c].bearer)
  BY <1>1, <1>2 DEF AnswerTo, Answer
<1>4. app.credential = task[c].bearer
  BY DEF Invalidate, IsCurrent
<1>5. QED
  BY <1>3, <1>4

LEMMA KeepsStep ==
    ASSUME IInv, IdentityNext, ~Restart, app'.credential # app.credential,
           Honours(app.credential)
    PROVE  Honours(app.credential)'
<1>1. /\ IdentityTypes /\ CredentialInv
      /\ \A c \in Callers : BearerInv(task[c])
  BY DEF IInv
<1>2. ASSUME NEW d \in Choices, app' = Changed(d)
      PROVE  FALSE
  BY <1>1, <1>2, ChangedFacts
<1>3. ASSUME NEW c \in Callers, HearRotation(c)
      PROVE  Honours(app.credential)'
  <2>1. task[c].pc = "rotating" /\ OnTheWire(c) /\ UNCHANGED age
    BY <1>3 DEF HearRotation, At, OnTheWire
  <2>2. PICK r \in Requests : r = Request(c)
    BY <2>1, RequestFacts
  <2>3. CASE /\ Answered(c) /\ AnswerTo(r).result = "issued"
             /\ Install(AnswerTo(r).credential, app.synced)
    <3>1. Handle(r)
      BY <2>2, <2>3 DEF Answered
    <3>2. app'.credential = AnswerTo(r).credential
      BY <1>1, <2>3 DEF Install, IdentityTypes
    <3>3. QED
      BY <2>1, <2>2, <2>3, <3>1, <3>2, InstalledIsHonoured
  <2>4. CASE /\ Answered(c) /\ AnswerTo(r).result # "issued"
             /\ Invalidate(task[c].bearer)
    <3>1. r.call = "rotate"
      BY <2>1, <2>2, RequestFacts
    <3>2. AnswerTo(r).result # "ok"
      BY <3>1 DEF AnswerTo, Answer
    <3>3. QED
      BY <2>1, <2>2, <2>4, <3>2, InvalidatedWasRefused
  <2>5. QED
    BY <1>3, <2>2, <2>3, <2>4 DEF HearRotation
<1>4. ASSUME NEW c \in Callers, HearRegistration(c)
      PROVE  FALSE
  <2>1. app.enrollment = "New"
    BY <1>1, <1>4 DEF HearRegistration, At, BearerInv
  <2>2. app.credential = None
    BY <1>1, <2>1 DEF CredentialInv
  <2>3. QED
    BY <2>2 DEF Honours, Valid
<1>5. ASSUME NEW c \in Callers, HearCall(c)
      PROVE  FALSE
  <2>1. task[c].pc = "calling" /\ OnTheWire(c)
    BY <1>5 DEF HearCall, At, OnTheWire
  <2>2. AnswerTo(Request(c)).result # "issued"
    <3>1. Request(c).call \in {"put", "call"}
      BY <2>1, RequestFacts
    <3>2. QED
      BY <3>1 DEF AnswerTo, Answer
  <2>3. CASE /\ Answered(c) /\ AnswerTo(Request(c)).result # "ok"
             /\ Invalidate(task[c].bearer)
    BY <2>1, <2>2, <2>3, InvalidatedWasRefused
  <2>4. CASE app' \in {app, [app EXCEPT !.synced = task[c].revision]}
    BY <1>1, <2>4 DEF IdentityTypes
  <2>5. QED
    BY <1>5, <2>3, <2>4 DEF HearCall
<1>6. ASSUME NEW c \in Callers, ClearIdentity(c)
      PROVE  FALSE
  BY <1>1, <1>6 DEF ClearIdentity, At, BearerInv
<1>7. ASSUME NEW c \in Callers, Accept(c)
      PROVE  FALSE
  BY <1>1, <1>7 DEF Accept, IdentityTypes
<1>8. ASSUME NEW c \in Callers, SetChoice(c)
      PROVE  FALSE
  <2>1. task[c].desired \in Choices
    BY TaskFacts DEF Task
  <2>2. QED
    BY <1>2, <1>8, <2>1 DEF SetChoice
<1>9. ASSUME NEW desired \in BOOLEAN, Choose(desired)
      PROVE  FALSE
  BY <1>2, <1>9, DesktopIdentityAssumption DEF Choose, Choices
<1>10. ASSUME UNCHANGED app
       PROVE  FALSE
  BY <1>10
<1>11. ASSUME NEW c \in Callers,
              \/ Call(c) \/ Bootstrap(c) \/ Sync(c) \/ RecordUiOpened(c) \/ StartReset(c)
              \/ TakeWebview(c) \/ TakeRegistration(c) \/ Enrol(c) \/ Ready(c)
              \/ PutPreference(c) \/ SendOpened(c) \/ HearOpened(c) \/ Adopt(c)
              \/ TakeLock(c) \/ HearDeletion(c)
       PROVE  FALSE
  BY <1>10, <1>11 DEF Call, Bootstrap, Sync, RecordUiOpened, StartReset, TakeWebview,
     TakeRegistration, Enrol, Ready, PutPreference, SendOpened, HearOpened, Adopt,
     TakeLock, HearDeletion
<1>12. QED
  BY <1>3, <1>4, <1>5, <1>6, <1>7, <1>8, <1>9, <1>10, <1>11
     DEF IdentityNext, Step, Registering, Adopting, Resetting, ServeLate, GrowOld

(* While it runs, the PC gives up no credential that the server honours: the one *)
(* it drops after a refusal was the one refused, a rotation brings one that is   *)
(* honoured in its place, and a reset comes after the server's deletion.         *)
THEOREM WorkingCredentialIsKept == IdentitySpec => KeepsWorkingCredential
<1>1. IInv /\ [IdentityNext]_vars =>
         [/\ ~Restart /\ app'.credential # app.credential /\ Honours(app.credential)
          => Honours(app.credential)']_vars
  BY KeepsStep
<1>2. QED
  BY <1>1, Invariant, PTL DEF IdentitySpec, KeepsWorkingCredential


=============================================================================
