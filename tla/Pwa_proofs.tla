------------------------------ MODULE Pwa_proofs ------------------------------
(***************************************************************************)
(* Proofs about the installed web app.  PushRegistration, for any number   *)
(* of endpoints, flows in flight together and disturbances: the types, and *)
(* for a flow that ran alone, whatever others did before it, that what it  *)
(* shows and stores and reports is so.  PwaUpdate, for any number of       *)
(* workers and reloads: the types, and that no reload loses what the user  *)
(* typed.  PreferenceForms, for any number of changes and of saves in      *)
(* flight: the types, and that the edit kept for such a reload is the one  *)
(* the page begins with after it.                                          *)
(***************************************************************************)
EXTENDS PushRegistration, PwaUpdate, PreferenceForms, TLAPS

\* What a flow in flight knows for its next step: a registration its endpoint once
\* the browser gave one, a cleanup the record it read.
RegFit(r, n) ==
    /\ r \in Registrations
    /\ r.step # "subscribe" => r.sub \in 1..n
    /\ r.step = "test" => r.kind = "test"
    /\ r.base.arrival = "waiting"
ClnFit(c) == c \in Cleanups /\ (c.step \in {"unregister", "phase"} => c.meta \in Metadata)

Fit == \A f \in Flows : /\ reg[f] # None => RegFit(reg[f], issued)
                        /\ cln[f] # None => ClnFit(cln[f])

PushTypes == TypeOK /\ Fit

\* A flow that ran alone so far has all flows to itself.
Solitary(f) ==
    Alone(reg[f]) \/ Alone(cln[f]) =>
        /\ reg[f] = None \/ cln[f] = None
        /\ \A g \in Flows : g # f => reg[g] = None /\ cln[g] = None

\* A registration takes the place of the recorded one only when the server has
\* dropped that one; it is stored only when the server has it.
Replacing(r) ==
    /\ r.step \in {"unregister", "clear"} => record \in Metadata /\ record.endpoint = r.old
    /\ r.step = "clear" /\ record.phase = "registered" => r.old \notin server
    /\ r.step \in {"register", "store"}
       => record = None \/ (record \in Metadata /\ record.endpoint = r.sub)
    /\ r.step \in {"store", "test"} /\ r.sub = local => local \in server

\* Its screen shows its steps, another screen shows none; the test recorded last is
\* no failed one while a test is under way.
Attending(r) ==
    /\ IF r.mount = "gone" THEN pd = None
       ELSE pd # None /\ (r.step = "test" => pd.serverRegistration = "complete")
    /\ r.kind = "test" => lastTest # "error"

\* What a cleanup has removed so far: server, phase of the record, browser.
Removing(c) ==
    /\ c.step \in {"unregister", "phase"} => record = c.meta
    /\ c.step = "phase" => c.meta.endpoint \notin server
    /\ c.step \in {"unsubscribe", "clear"} => record \in Metadata /\ record.phase = "server-removed"
    /\ c.step \in {"unregister", "phase"} /\ c.sub = None => local = None
    /\ c.step = "clear" => local = None
    /\ c.step = "session" /\ c.result = "complete" => local = None /\ record = None
    /\ c.by = "screen" => c.step # "session"
    /\ c.by = "disconnect" /\ c.mount # "gone" => tab = "devices"

\* A cleanup remembered as complete, if it ran alone, is still true: nothing was
\* registered since, and what is in flight goes straight to its session.
Remembered ==
    done = "alone" => /\ tab = "devices" /\ local = None /\ record = None
                      /\ \A f \in Flows : /\ reg[f] = None
                                          /\ cln[f] # None => cln[f].step = "session"

\* The test the screen asks about, if it ran alone, is the one sent last.
AskedAbout ==
    asked = "alone" /\ pd # None /\ pd.arrival = "current" =>
        /\ lastTest # "error" /\ pd.serverRegistration = "complete"
        /\ pd.testSend = "complete" /\ \A f \in Flows : reg[f] = None

PushIInv ==
    /\ PushTypes /\ Remembered /\ AskedAbout
    /\ \A f \in Flows : /\ Solitary(f)
                        /\ Alone(reg[f]) => Replacing(reg[f]) /\ Attending(reg[f])
                        /\ Alone(cln[f]) => Removing(cln[f])

--------------------------------------------------------------------------------
(***************************************************************************)
(* The delivery steps.                                                     *)
(***************************************************************************)
LEMMA NoneIsApart ==
    /\ None # "alone" /\ None # "beside" /\ None # "complete"
    /\ None \notin Nat /\ None \notin Metadata /\ None \notin Deliveries
    /\ Corrupt # None /\ Corrupt \notin Nat /\ Corrupt \notin Metadata
BY PushRegistrationAssumption DEF CleanupResults, Company

\* What is drawn before any flow of the screen: neither the test nor its arrival has begun.
LEMMA CreatedDelivery ==
    ASSUME NEW p
    PROVE  CreateDelivery(p) \in Deliveries /\ CreateDelivery(p).arrival = "waiting"
<1>1. /\ Steps("complete", "current", "waiting", "waiting", "waiting") \in Deliveries
      /\ Steps("error", "waiting", "waiting", "waiting", "waiting") \in Deliveries
      /\ Steps("current", "waiting", "waiting", "waiting", "waiting") \in Deliveries
  BY DEF Steps, Deliveries, StepStatus
<1> QED
  BY <1>1 DEF CreateDelivery, Steps

LEMMA RestoredTyped ==
    ASSUME NEW status, NEW p
    PROVE  /\ RestoredDelivery(status, p) \in Deliveries
           /\ RestoredDelivery(status, p).arrival = "waiting"
<1>1. CASE status \in {"invalid", "failed"}
  <2>1. PICK s \in Deliveries : s = CreateDelivery("default") /\ s.arrival = "waiting"
    BY CreatedDelivery
  <2>2. PICK r \in Deliveries : r = [s EXCEPT !.serverRegistration = "error"]
    BY DEF Deliveries, StepStatus
  <2>3. r.arrival = "waiting"
    BY <2>1, <2>2 DEF Deliveries
  <2>4. RestoredDelivery(status, p) = r
    BY <1>1, <2>1, <2>2 DEF RestoredDelivery
  <2> QED
    BY <2>3, <2>4
<1>2. CASE status \notin {"invalid", "failed"}
  <2>1. /\ Steps("complete", "complete", "complete", "current", "waiting") \in Deliveries
        /\ Steps("complete", "complete", "error", "waiting", "waiting") \in Deliveries
        /\ Steps("complete", "error", "error", "waiting", "waiting") \in Deliveries
    BY DEF Steps, Deliveries, StepStatus
  <2>2. /\ Steps("complete", "complete", "complete", "current", "waiting").arrival = "waiting"
        /\ Steps("complete", "complete", "error", "waiting", "waiting").arrival = "waiting"
        /\ Steps("complete", "error", "error", "waiting", "waiting").arrival = "waiting"
    BY DEF Steps
  <2>3. RestoredDelivery(status, p) \in
            {Steps("complete", "complete", "complete", "current", "waiting"),
             Steps("complete", "complete", "error", "waiting", "waiting"),
             Steps("complete", "error", "error", "waiting", "waiting"), CreateDelivery(p)}
    BY <1>2, Zenon DEF RestoredDelivery
  <2> QED
    BY <2>1, <2>2, <2>3, CreatedDelivery
<1> QED
  BY <1>1, <1>2

LEMMA ReducedTyped ==
    ASSUME NEW s \in Deliveries, NEW event
    PROVE  ReduceDelivery(s, event) \in Deliveries
<1>1. /\ CreateDelivery("default") \in Deliveries /\ CreateDelivery("denied") \in Deliveries
  BY CreatedDelivery
<1>2. /\ Steps("complete", "error", "waiting", "waiting", "waiting") \in Deliveries
      /\ Steps("complete", "complete", "current", "waiting", "waiting") \in Deliveries
      /\ Steps("complete", "complete", "complete", "current", "waiting") \in Deliveries
  BY DEF Steps, Deliveries, StepStatus
<1>3. /\ [s EXCEPT !.serverRegistration = "error", !.testSend = "waiting",
                   !.arrival = "waiting"] \in Deliveries
      /\ [s EXCEPT !.testSend = "current", !.arrival = "waiting"] \in Deliveries
      /\ [s EXCEPT !.testSend = "error", !.arrival = "waiting"] \in Deliveries
      /\ [s EXCEPT !.testSend = "complete", !.arrival = "current"] \in Deliveries
      /\ [s EXCEPT !.arrival = "complete"] \in Deliveries
      /\ [s EXCEPT !.arrival = "error"] \in Deliveries
  BY DEF Deliveries, StepStatus
<1> QED
  BY <1>1, <1>2, <1>3, Zenon DEF ReduceDelivery

\* Only a queued test makes the screen ask whether it arrived; the user's answer, and
\* the start of a registration, end the question.
LEMMA ReducedAsks ==
    ASSUME NEW s \in Deliveries, NEW event, event # "test-queued"
    PROVE  /\ s.arrival # "current" => ReduceDelivery(s, event).arrival # "current"
           /\ event = "connection-started" => ReduceDelivery(s, event).arrival # "current"
           /\ event = "test-started" /\ s.serverRegistration = "complete"
              => ReduceDelivery(s, event).arrival # "current"
<1>1. /\ CreateDelivery("default").arrival = "waiting"
      /\ CreateDelivery("denied").arrival = "waiting"
  BY CreatedDelivery
<1>2. /\ Steps("complete", "error", "waiting", "waiting", "waiting").arrival = "waiting"
      /\ Steps("complete", "complete", "current", "waiting", "waiting").arrival = "waiting"
      /\ Steps("complete", "complete", "complete", "current", "waiting").arrival = "waiting"
  BY DEF Steps
<1>3. /\ [s EXCEPT !.serverRegistration = "error", !.testSend = "waiting",
                   !.arrival = "waiting"].arrival = "waiting"
      /\ [s EXCEPT !.testSend = "current", !.arrival = "waiting"].arrival = "waiting"
      /\ [s EXCEPT !.testSend = "error", !.arrival = "waiting"].arrival = "waiting"
      /\ [s EXCEPT !.arrival = "complete"].arrival = "complete"
      /\ [s EXCEPT !.arrival = "error"].arrival = "error"
  BY DEF Deliveries
<1> QED
  BY <1>1, <1>2, <1>3 DEF ReduceDelivery

LEMMA AnsweredIsNotAsked ==
    ASSUME NEW s \in Deliveries, NEW event \in {"arrival-confirmed", "arrival-missing"},
           s.testSend = "complete"
    PROVE  ReduceDelivery(s, event).arrival # "current"
BY DEF ReduceDelivery, Deliveries

LEMMA ShownTyped ==
    ASSUME TypeOK
    PROVE  /\ Shown \in Deliveries /\ Restored \in Deliveries /\ Restored.arrival = "waiting"
           /\ Shown.arrival = "current" => pd # None
           /\ pd # None => Shown = pd
BY RestoredTyped DEF Shown, Restored, TypeOK

--------------------------------------------------------------------------------
(***************************************************************************)
(* Types, whatever flows are in flight together.                           *)
(***************************************************************************)
LEMMA DrawnTyped ==
    ASSUME PushTypes, NEW f \in Flows, reg[f] # None, NEW event
    PROVE  /\ Drawn(f, event) \in Deliveries
           /\ IF pd # None THEN Drawn(f, event) = pd ELSE Drawn(f, event).arrival = "waiting"
<1>1. reg[f].base \in Deliveries /\ reg[f].base.arrival = "waiting"
  BY DEF PushTypes, Fit, RegFit, Registrations
<1>2. CASE pd # None
  BY <1>2 DEF Drawn, PushTypes, TypeOK
<1>3. CASE pd = None
  <2>1. Drawn(f, event) \in {Restored, reg[f].base}
    BY <1>3, Zenon DEF Drawn
  <2> QED
    BY <1>1, <1>3, <2>1, ShownTyped DEF PushTypes
<1> QED
  BY <1>2, <1>3

LEMMA RegTransitionTyped ==
    ASSUME PushTypes, NEW f \in Flows, reg[f] # None, NEW event, RegTransition(f, event)
    PROVE  pd' \in Deliveries \union {None}
BY DrawnTyped, ReducedTyped DEF RegTransition, PushTypes, TypeOK

\* One flow moves on, the others stand still.
LEMMA RegistrationMoves ==
    ASSUME PushTypes, NEW f \in Flows, NEW q, RegistrationIs(f, q),
           issued' \in Nat, issued <= issued',
           q = None \/ RegFit(q, issued')
    PROVE  /\ reg' \in [Flows -> Registrations \union {None}]
           /\ reg'[f] = q /\ \A g \in Flows : g # f => reg'[g] = reg[g]
           /\ \A g \in Flows : reg'[g] # None => RegFit(reg'[g], issued')
<1>1. q \in Registrations \union {None}
  BY DEF RegFit
<1>2. reg' = [reg EXCEPT ![f] = q] /\ reg \in [Flows -> Registrations \union {None}]
  BY DEF RegistrationIs, PushTypes, TypeOK
<1>3. reg' \in [Flows -> Registrations \union {None}]
      /\ reg'[f] = q /\ \A g \in Flows : g # f => reg'[g] = reg[g]
  BY <1>1, <1>2
<1>4. issued \in Nat
  BY PushRegistrationAssumption DEF PushTypes, TypeOK
<1>5. ASSUME NEW g \in Flows, reg'[g] # None
      PROVE  RegFit(reg'[g], issued')
  <2>1. CASE g = f
    BY <1>3, <1>5, <2>1
  <2>2. CASE g # f
    BY <1>3, <1>4, <1>5, <2>2 DEF PushTypes, Fit, RegFit
  <2> QED
    BY <2>1, <2>2
<1> QED
  BY <1>3, <1>5

LEMMA CleanupMoves ==
    ASSUME PushTypes, NEW f \in Flows, NEW q, CleanupIs(f, q), q = None \/ ClnFit(q)
    PROVE  /\ cln' \in [Flows -> Cleanups \union {None}]
           /\ cln'[f] = q /\ \A g \in Flows : g # f => cln'[g] = cln[g]
           /\ \A g \in Flows : cln'[g] # None => ClnFit(cln'[g])
<1>1. q \in Cleanups \union {None}
  BY DEF ClnFit
<1>2. cln' = [cln EXCEPT ![f] = q] /\ cln \in [Flows -> Cleanups \union {None}]
  BY DEF CleanupIs, PushTypes, TypeOK
<1>3. cln' \in [Flows -> Cleanups \union {None}]
      /\ cln'[f] = q /\ \A g \in Flows : g # f => cln'[g] = cln[g]
  BY <1>1, <1>2
<1> QED
  BY <1>3 DEF PushTypes, Fit

\* A flow in its next step.
LEMMA RegistrationAt ==
    ASSUME PushTypes, NEW f \in Flows, reg[f] # None,
           NEW step \in {"prepare", "unregister", "clear", "register", "store", "test"}
    PROVE  \E q \in Registrations :
               /\ q = [reg[f] EXCEPT !.step = step]
               /\ q.step = step /\ q.kind = reg[f].kind /\ q.sub = reg[f].sub
               /\ q.old = reg[f].old /\ q.mount = reg[f].mount /\ q.base = reg[f].base
               /\ q.company = reg[f].company
<1>1. PICK q : q = [reg[f] EXCEPT !.step = step]
  OBVIOUS
<1>2. reg[f] \in Registrations
  BY DEF PushTypes, Fit, RegFit
<1> QED
  BY <1>1, <1>2 DEF Registrations

LEMMA CleanupAt ==
    ASSUME PushTypes, NEW f \in Flows, cln[f] # None,
           NEW step \in {"query", "unregister", "phase", "unsubscribe", "clear", "session"}
    PROVE  \E q \in Cleanups :
               /\ q = [cln[f] EXCEPT !.step = step]
               /\ q.step = step /\ q.by = cln[f].by /\ q.sub = cln[f].sub
               /\ q.meta = cln[f].meta /\ q.mount = cln[f].mount
               /\ q.result = cln[f].result /\ q.company = cln[f].company
<1>1. PICK q : q = [cln[f] EXCEPT !.step = step]
  OBVIOUS
<1>2. cln[f] \in Cleanups
  BY DEF PushTypes, Fit, ClnFit
<1> QED
  BY <1>1, <1>2 DEF Cleanups

\* What a registration's step comes to: its next record, and what its screen shows.
LEMMA EndRegistrationDoes ==
    ASSUME PushTypes, NEW f \in Flows, reg[f] # None, NEW event, EndRegistration(f, event)
    PROVE  /\ RegistrationIs(f, None) /\ pd' \in Deliveries \union {None}
           /\ lastTest' \in {lastTest, "error"} /\ UNCHANGED <<tab, setup, reconciled>>
BY RegTransitionTyped DEF EndRegistration

LEMMA SubscribedDoes ==
    ASSUME PushTypes, NEW f \in Flows, Subscribed(f)
    PROVE  /\ issued' \in 0..MaxEndpoints /\ issued <= issued' /\ local' \in 1..issued'
           /\ pd' \in Deliveries \union {None}
           /\ \E q : /\ RegistrationIs(f, q) /\ RegFit(q, issued')
                     /\ q.step = "prepare" /\ q.kind = reg[f].kind /\ q.mount = reg[f].mount
                     /\ q.company = reg[f].company
<1>1. /\ issued' \in 0..MaxEndpoints /\ issued <= issued' /\ local' \in 1..issued'
      /\ Subscription = local' /\ Subscription \in Endpoints
  BY PushRegistrationAssumption DEF Subscribed, Subscription, PushTypes, TypeOK, Endpoints
<1>2. reg[f] # None /\ RegFit(reg[f], issued)
  BY DEF Subscribed, Registering, PushTypes, Fit
<1>3. PICK q \in Registrations :
          /\ q = [reg[f] EXCEPT !.step = "prepare"] /\ q.step = "prepare"
          /\ q.kind = reg[f].kind /\ q.mount = reg[f].mount /\ q.base = reg[f].base
          /\ q.company = reg[f].company
  BY <1>2, RegistrationAt
<1>4. PICK r : r = [q EXCEPT !.sub = Subscription]
  OBVIOUS
<1>5. /\ r \in Registrations /\ r.step = "prepare" /\ r.sub = Subscription
      /\ r.kind = q.kind /\ r.mount = q.mount /\ r.base = q.base /\ r.company = q.company
  BY <1>1, <1>3, <1>4 DEF Registrations
<1>6. RegistrationIs(f, r)
  <2>1. r = [reg[f] EXCEPT !.step = "prepare", !.sub = Subscription]
    BY <1>3, <1>4
  <2> QED
    BY <2>1 DEF Subscribed
<1>7. pd' \in Deliveries \union {None}
  BY <1>2, RegTransitionTyped DEF Subscribed
<1>8. RegFit(r, issued')
  BY <1>1, <1>2, <1>3, <1>5 DEF RegFit
<1> QED
  BY <1>1, <1>3, <1>5, <1>6, <1>7, <1>8

\* Where the preparation goes on: at once to the server, or to the recorded registration.
LEMMA PrepareDoes ==
    ASSUME PushTypes, NEW f \in Flows, PrepareRegistration(f)
    PROVE  \E q : /\ RegistrationIs(f, q) /\ RegFit(q, issued)
                  /\ q.kind = reg[f].kind /\ q.mount = reg[f].mount
                  /\ q.company = reg[f].company /\ q.sub = reg[f].sub
                  /\ \/ /\ q.step = "register"
                        /\ record' = None \/ (record \in Metadata /\ record' = record
                                              /\ record.endpoint = reg[f].sub)
                     \/ /\ record \in Metadata /\ record' = record /\ q.old = record.endpoint
                        /\ q.step = IF record.phase = "registered" THEN "unregister" ELSE "clear"
<1>1. reg[f] # None /\ RegFit(reg[f], issued) /\ reg[f].step = "prepare"
  BY DEF PrepareRegistration, Registering, PushTypes, Fit
<1>2. CASE Stored = "found" /\ ~Matches(reg[f].sub)
  <2> DEFINE next == IF record.phase = "registered" THEN "unregister" ELSE "clear"
  <2>1. record \in Metadata /\ record' = record
    BY <1>2 DEF PrepareRegistration, Stored, PushTypes, TypeOK
  <2>2. PICK q \in Registrations :
            /\ q = [reg[f] EXCEPT !.step = next] /\ q.step = next
            /\ q.kind = reg[f].kind /\ q.mount = reg[f].mount /\ q.base = reg[f].base
            /\ q.company = reg[f].company /\ q.sub = reg[f].sub
    BY <1>1, RegistrationAt
  <2>3. PICK r : r = [q EXCEPT !.old = record.endpoint]
    OBVIOUS
  <2>4. /\ r \in Registrations /\ r.step = next /\ r.sub = q.sub /\ r.old = record.endpoint
        /\ r.kind = q.kind /\ r.mount = q.mount /\ r.base = q.base /\ r.company = q.company
    BY <2>1, <2>2, <2>3 DEF Registrations, Metadata
  <2>5. r = [reg[f] EXCEPT !.old = record.endpoint, !.step = next]
    BY <2>2, <2>3
  <2>6. RegistrationIs(f, r)
    BY <1>2, <2>5 DEF PrepareRegistration
  <2>7. RegFit(r, issued)
    BY <1>1, <2>2, <2>4 DEF RegFit
  <2> HIDE DEF next
  <2>8. r.step = next
    BY <2>4
  <2> QED
    BY <2>1, <2>2, <2>4, <2>6, <2>7, <2>8 DEF next
<1>3. CASE ~(Stored = "found" /\ ~Matches(reg[f].sub))
  <2>1. PICK q \in Registrations :
            /\ q = [reg[f] EXCEPT !.step = "register"] /\ q.step = "register"
            /\ q.kind = reg[f].kind /\ q.mount = reg[f].mount /\ q.base = reg[f].base
            /\ q.company = reg[f].company /\ q.sub = reg[f].sub
    BY <1>1, RegistrationAt
  <2>2. RegistrationIs(f, q) /\ RegFit(q, issued)
    BY <1>1, <1>3, <2>1 DEF PrepareRegistration, RegFit
  <2>3. record' = None \/ (record \in Metadata /\ record' = record
                           /\ record.endpoint = reg[f].sub)
    <3>1. CASE record = Corrupt
      BY <3>1, NoneIsApart DEF PrepareRegistration, Stored
    <3>2. CASE record = None
      BY <3>2, NoneIsApart DEF PrepareRegistration, Stored
    <3>3. CASE record \in Metadata
      BY <1>3, <3>3, NoneIsApart DEF PrepareRegistration, Stored, Matches
    <3> QED
      BY <3>1, <3>2, <3>3 DEF PushTypes, TypeOK
  <2> QED
    BY <2>1, <2>2, <2>3
<1> QED
  BY <1>2, <1>3

\* A step of one registration keeps the types, if it keeps those of what it writes.
LEMMA RegistrationStepTypes ==
    ASSUME PushTypes, NEW f \in Flows, NEW q, RegistrationIs(f, q),
           issued' \in 0..MaxEndpoints, issued <= issued', q = None \/ RegFit(q, issued'),
           permission' \in {"default", "denied", "granted"},
           local' \in 1..issued' \union {None}, server' \subseteq 1..issued',
           record' \in Metadata \union {None, Corrupt},
           pd' \in Deliveries \union {None}, reconciled' \in Reconciliations \union {None},
           lastTest' \in {lastTest, "error"}, asked' \in Company \union {None},
           UNCHANGED <<session, tab, setup, cln, done, flows, events>>
    PROVE  PushTypes'
<1>1. issued' \in Nat
  BY PushRegistrationAssumption
<1>2. /\ reg' \in [Flows -> Registrations \union {None}]
      /\ \A g \in Flows : reg'[g] # None => RegFit(reg'[g], issued')
  BY <1>1, RegistrationMoves
<1>3. TypeOK'
  BY <1>2 DEF PushTypes, TypeOK
<1>4. Fit'
  BY <1>2 DEF PushTypes, Fit
<1> QED
  BY <1>3, <1>4 DEF PushTypes

LEMMA CallDoes ==
    ASSUME PushTypes, NEW f \in Flows,
           RegistrationFails(f) \/ UnregisterOld(f) \/ ClearOldRecord(f) \/ RegisterServer(f)
    PROVE  /\ reg[f] # None /\ server' \subseteq 1..issued /\ record' \in {record, None}
           /\ pd' \in Deliveries \union {None} /\ lastTest' \in {lastTest, "error"}
           /\ UNCHANGED <<permission, local, issued, session, tab, setup, reconciled, cln,
                          done, asked, flows, events>>
           /\ \E q : /\ RegistrationIs(f, q)
                     /\ \/ q = None /\ record' = record
                        \/ /\ RegFit(q, issued) /\ q.kind = reg[f].kind
                           /\ q.mount = reg[f].mount /\ q.company = reg[f].company
                           /\ q.sub = reg[f].sub /\ q.old = reg[f].old
                           /\ UNCHANGED <<pd, lastTest>>
                           /\ \/ /\ reg[f].step = "unregister" /\ q.step = "clear"
                                 /\ server' = server \ {reg[f].old} /\ UNCHANGED record
                              \/ /\ reg[f].step = "clear" /\ q.step = "register"
                                 /\ record' = None /\ UNCHANGED server
                              \/ /\ reg[f].step = "register" /\ q.step = "store"
                                 /\ server' = server \union {reg[f].sub} /\ UNCHANGED record
<1>1. reg[f] # None /\ RegFit(reg[f], issued) /\ server \subseteq 1..issued
  BY DEF RegistrationFails, UnregisterOld, ClearOldRecord, RegisterServer, Registering,
         PushTypes, Fit, TypeOK
<1>2. ASSUME NEW step \in {"clear", "register", "store"}, reg[f].step # "subscribe"
      PROVE  \E q : /\ q = [reg[f] EXCEPT !.step = step] /\ RegFit(q, issued)
                    /\ q.step = step /\ q.kind = reg[f].kind
                    /\ q.mount = reg[f].mount /\ q.company = reg[f].company
                    /\ q.sub = reg[f].sub /\ q.old = reg[f].old
  BY <1>1, <1>2, RegistrationAt DEF RegFit
<1>3. CASE RegistrationFails(f)
  BY <1>1, <1>3, EndRegistrationDoes DEF RegistrationFails, world
<1>4. CASE UnregisterOld(f)
  <2>1. PICK answer \in Answers :
            /\ Unregister(answer, reg[f].old)
            /\ IF answer = "answered"
               THEN RegistrationIs(f, [reg[f] EXCEPT !.step = "clear"]) /\ UNCHANGED screen
               ELSE EndRegistration(f, "server-registration-failed")
    BY <1>4 DEF UnregisterOld
  <2>2. /\ reg[f].step = "unregister"
        /\ UNCHANGED <<permission, local, issued, record, session, cln, done, asked, flows,
                       events>>
    BY <1>4 DEF UnregisterOld, Registering
  <2>3. server' \subseteq 1..issued
    BY <1>1, <2>1 DEF Unregister
  <2>4. CASE answer = "answered"
    <3>1. server' = server \ {reg[f].old}
      BY <2>1, <2>4 DEF Unregister, Handled
    <3>2. PICK q : /\ q = [reg[f] EXCEPT !.step = "clear"] /\ RegFit(q, issued)
                   /\ q.step = "clear" /\ q.kind = reg[f].kind
                   /\ q.mount = reg[f].mount /\ q.company = reg[f].company
                   /\ q.sub = reg[f].sub /\ q.old = reg[f].old
      BY <1>2, <2>2
    <3>3. RegistrationIs(f, q) /\ UNCHANGED screen
      BY <2>1, <2>4, <3>2
    <3> QED
      BY <1>1, <2>2, <2>3, <3>1, <3>2, <3>3 DEF screen, PushTypes, TypeOK
  <2>5. CASE answer # "answered"
    BY <1>1, <2>1, <2>2, <2>3, <2>5, EndRegistrationDoes
  <2> QED
    BY <2>4, <2>5
<1>5. CASE ClearOldRecord(f)
  <2>1. PICK q : /\ q = [reg[f] EXCEPT !.step = "register"] /\ RegFit(q, issued)
                 /\ q.step = "register" /\ q.kind = reg[f].kind
                 /\ q.mount = reg[f].mount /\ q.company = reg[f].company
                 /\ q.sub = reg[f].sub /\ q.old = reg[f].old
    BY <1>2, <1>5 DEF ClearOldRecord, Registering
  <2>2. RegistrationIs(f, q)
    BY <1>5, <2>1 DEF ClearOldRecord
  <2> QED
    BY <1>1, <1>5, <2>1, <2>2 DEF ClearOldRecord, Registering, screen, PushTypes, TypeOK
<1>6. CASE RegisterServer(f)
  <2>1. PICK answer \in Answers :
            /\ server' = IF Handled(answer) THEN server \union {reg[f].sub} ELSE server
            /\ IF answer = "answered"
               THEN RegistrationIs(f, [reg[f] EXCEPT !.step = "store"]) /\ UNCHANGED screen
               ELSE EndRegistration(f, "server-registration-failed")
    BY <1>6 DEF RegisterServer
  <2>2. /\ reg[f].step = "register"
        /\ UNCHANGED <<permission, local, issued, record, session, cln, done, asked, flows,
                       events>>
    BY <1>6 DEF RegisterServer, Registering
  <2>3. server' \subseteq 1..issued
    BY <1>1, <2>1, <2>2 DEF RegFit
  <2>4. CASE answer = "answered"
    <3>1. server' = server \union {reg[f].sub}
      BY <2>1, <2>4 DEF Handled
    <3>2. PICK q : /\ q = [reg[f] EXCEPT !.step = "store"] /\ RegFit(q, issued)
                   /\ q.step = "store" /\ q.kind = reg[f].kind
                   /\ q.mount = reg[f].mount /\ q.company = reg[f].company
                   /\ q.sub = reg[f].sub /\ q.old = reg[f].old
      BY <1>2, <2>2
    <3>3. RegistrationIs(f, q) /\ UNCHANGED screen
      BY <2>1, <2>4, <3>2
    <3> QED
      BY <1>1, <2>2, <2>3, <3>1, <3>2, <3>3 DEF screen, PushTypes, TypeOK
  <2>5. CASE answer # "answered"
    BY <1>1, <2>1, <2>2, <2>3, <2>5, EndRegistrationDoes
  <2> QED
    BY <2>4, <2>5
<1> QED
  BY <1>3, <1>4, <1>5, <1>6

LEMMA StoreDoes ==
    ASSUME PushTypes, NEW f \in Flows, StoreRegistration(f)
    PROVE  /\ record' \in Metadata /\ record'.endpoint = reg[f].sub
           /\ record'.phase = "registered" /\ pd' \in Deliveries \union {None}
           /\ \E q : /\ RegistrationIs(f, q)
                     /\ \/ q = None
                        \/ /\ RegFit(q, issued) /\ q.step = "test" /\ q.kind = reg[f].kind
                           /\ q.mount = reg[f].mount /\ q.company = reg[f].company
                           /\ q.sub = reg[f].sub
<1>1. reg[f] # None /\ RegFit(reg[f], issued) /\ reg[f].step = "store"
  BY DEF StoreRegistration, Registering, PushTypes, Fit
<1>2. reg[f].sub \in Endpoints
  BY <1>1, PushRegistrationAssumption DEF RegFit, Endpoints, PushTypes, TypeOK
<1>3. record' \in Metadata /\ record'.endpoint = reg[f].sub /\ record'.phase = "registered"
  BY <1>2 DEF StoreRegistration, Metadata, Phases
<1>4. PICK q \in Registrations :
          /\ q = [reg[f] EXCEPT !.step = "test"] /\ q.step = "test"
          /\ q.kind = reg[f].kind /\ q.sub = reg[f].sub
          /\ q.mount = reg[f].mount /\ q.base = reg[f].base /\ q.company = reg[f].company
  BY <1>1, RegistrationAt
<1>5. RegistrationIs(f, None) \/ (RegistrationIs(f, q) /\ reg[f].kind = "test")
  BY <1>4 DEF StoreRegistration
<1>6. pd' \in Deliveries \union {None}
  BY <1>1, RegTransitionTyped DEF StoreRegistration
<1> QED
  BY <1>1, <1>3, <1>4, <1>5, <1>6 DEF RegFit

LEMMA SendTestDoes ==
    ASSUME PushTypes, NEW f \in Flows, SendTest(f)
    PROVE  /\ RegistrationIs(f, None) /\ pd' \in Deliveries \union {None}
           /\ reg[f] # None /\ reg[f].step = "test"
           /\ UNCHANGED <<world, tab, setup, reconciled, cln, done, flows, events>>
           /\ \/ EndRegistration(f, "test-failed") /\ UNCHANGED asked
              \/ /\ RegTransition(f, "test-queued") /\ UNCHANGED lastTest
                 /\ asked' = IF reg[f].mount = "gone" THEN asked ELSE reg[f].company
<1>1. reg[f] # None /\ reg[f].step = "test"
  BY DEF SendTest, Registering
<1>2. RegistrationIs(f, None) /\ UNCHANGED <<tab, setup, reconciled>>
  BY DEF SendTest, EndRegistration
<1>3. pd' \in Deliveries \union {None}
  BY <1>1, RegTransitionTyped DEF SendTest, EndRegistration
<1> QED
  BY <1>1, <1>2, <1>3 DEF SendTest

LEMMA RegistrationTypes ==
    ASSUME PushTypes, NEW f \in Flows, RegistrationStep(f)
    PROVE  PushTypes'
<1>1. CASE SubscribeDenied(f) \/ SubscribeFails(f)
  <2>1. reg[f] # None /\ \E event : EndRegistration(f, event)
    BY <1>1 DEF SubscribeDenied, SubscribeFails, Registering
  <2>2. /\ UNCHANGED <<local, issued, record, server, session, cln, done, asked, flows, events>>
        /\ permission' \in {"default", "denied", "granted"}
    BY <1>1 DEF SubscribeDenied, SubscribeFails, world, PushTypes, TypeOK
  <2>3. /\ RegistrationIs(f, None) /\ pd' \in Deliveries \union {None}
        /\ lastTest' \in {lastTest, "error"} /\ UNCHANGED <<tab, setup, reconciled>>
    BY <2>1, EndRegistrationDoes
  <2>4. issued \in Nat
    BY PushRegistrationAssumption DEF PushTypes, TypeOK
  <2> QED
    BY <2>2, <2>3, <2>4, RegistrationStepTypes DEF PushTypes, TypeOK
<1>2. CASE Subscribed(f)
  <2>1. /\ UNCHANGED <<record, server, session, tab, setup, reconciled, lastTest, cln, done,
                       asked, flows, events>>
        /\ permission' = "granted"
    BY <1>2 DEF Subscribed
  <2>2. PICK q : RegistrationIs(f, q) /\ RegFit(q, issued')
    BY <1>2, SubscribedDoes
  <2>3. /\ issued' \in 0..MaxEndpoints /\ issued <= issued' /\ local' \in 1..issued'
        /\ pd' \in Deliveries \union {None}
    BY <1>2, SubscribedDoes
  <2>4. server' \subseteq 1..issued'
    BY <2>1, <2>3, PushRegistrationAssumption DEF PushTypes, TypeOK
  <2> QED
    BY <2>1, <2>2, <2>3, <2>4, RegistrationStepTypes DEF PushTypes, TypeOK
<1>3. CASE PrepareRegistration(f)
  <2>1. UNCHANGED <<permission, local, issued, server, session, screen, cln, done, asked,
                    flows, events>>
    BY <1>3 DEF PrepareRegistration
  <2>2. PICK q : RegistrationIs(f, q) /\ RegFit(q, issued)
    BY <1>3, PrepareDoes
  <2>3. record' \in {record, None} /\ issued \in Nat
    BY <1>3, PushRegistrationAssumption DEF PrepareRegistration, PushTypes, TypeOK
  <2> QED
    BY <2>1, <2>2, <2>3, RegistrationStepTypes DEF PushTypes, TypeOK, screen
<1>4. CASE RegistrationFails(f) \/ UnregisterOld(f) \/ ClearOldRecord(f) \/ RegisterServer(f)
  <2>1. /\ server' \subseteq 1..issued /\ record' \in {record, None}
        /\ pd' \in Deliveries \union {None} /\ lastTest' \in {lastTest, "error"}
        /\ UNCHANGED <<permission, local, issued, session, tab, setup, reconciled, cln,
                       done, asked, flows, events>>
    BY <1>4, CallDoes
  <2>2. PICK q : RegistrationIs(f, q) /\ (q = None \/ RegFit(q, issued))
    BY <1>4, CallDoes
  <2>3. issued \in Nat
    BY PushRegistrationAssumption DEF PushTypes, TypeOK
  <2> QED
    BY <2>1, <2>2, <2>3, RegistrationStepTypes DEF PushTypes, TypeOK
<1>5. CASE StoreRegistration(f)
  <2>1. /\ UNCHANGED <<permission, local, issued, server, session, tab, setup, lastTest, cln,
                       done, asked, flows, events>>
        /\ reconciled' \in Reconciliations
    BY <1>5 DEF StoreRegistration, Reconciliations
  <2>2. PICK q : RegistrationIs(f, q) /\ (q = None \/ RegFit(q, issued))
    BY <1>5, StoreDoes
  <2>3. record' \in Metadata /\ pd' \in Deliveries \union {None}
    BY <1>5, StoreDoes
  <2>4. issued \in Nat
    BY PushRegistrationAssumption DEF PushTypes, TypeOK
  <2> QED
    BY <2>1, <2>2, <2>3, <2>4, RegistrationStepTypes DEF PushTypes, TypeOK
<1>6. CASE SendTest(f)
  <2>1. /\ RegistrationIs(f, None) /\ pd' \in Deliveries \union {None}
        /\ UNCHANGED <<world, tab, setup, reconciled, cln, done, flows, events>>
    BY <1>6, SendTestDoes
  <2>2. lastTest' \in {lastTest, "error"}
    BY <1>6 DEF SendTest, EndRegistration
  <2>3. reg[f] # None => reg[f].company \in Company
    BY DEF PushTypes, Fit, RegFit, Registrations
  <2>4. asked' \in Company \union {None}
    BY <1>6, <2>3, SendTestDoes DEF PushTypes, TypeOK
  <2>5. issued \in Nat
    BY PushRegistrationAssumption DEF PushTypes, TypeOK
  <2> QED
    BY <2>1, <2>2, <2>4, <2>5, RegistrationStepTypes DEF PushTypes, TypeOK, world
<1> QED
  BY <1>1, <1>2, <1>3, <1>4, <1>5, <1>6 DEF RegistrationStep

\* How a cleanup ends: on the screen with it, in a disconnect with the session's turn.
LEMMA EndCleanupDoes ==
    ASSUME PushTypes, NEW f \in Flows, cln[f] # None, NEW result \in CleanupResults,
           EndCleanup(f, result)
    PROVE  /\ pd' \in {pd, None} /\ UNCHANGED <<tab, setup, reconciled, lastTest>>
           /\ \E q : /\ CleanupIs(f, q)
                     /\ \/ q = None
                        \/ /\ ClnFit(q) /\ q.step = "session" /\ q.result = result
                           /\ q.by = "disconnect" /\ cln[f].by = "disconnect"
                           /\ q.mount = cln[f].mount /\ q.company = cln[f].company
<1>1. cln[f] \in Cleanups
  BY DEF PushTypes, Fit, ClnFit
<1>2. CASE cln[f].by = "screen"
  BY <1>2 DEF EndCleanup
<1>3. CASE cln[f].by # "screen"
  <2>1. PICK c \in Cleanups :
            /\ c = [cln[f] EXCEPT !.step = "session"] /\ c.step = "session"
            /\ c.by = cln[f].by /\ c.mount = cln[f].mount /\ c.company = cln[f].company
    BY CleanupAt
  <2>2. PICK q : q = [c EXCEPT !.result = result]
    OBVIOUS
  <2>3. /\ q \in Cleanups /\ q.step = "session" /\ q.result = result
        /\ q.by = cln[f].by /\ q.mount = cln[f].mount /\ q.company = cln[f].company
    BY <2>1, <2>2 DEF Cleanups
  <2>4. q = [cln[f] EXCEPT !.step = "session", !.result = result]
    BY <2>1, <2>2
  <2>5. CleanupIs(f, q) /\ UNCHANGED pd
    BY <1>3, <2>4 DEF EndCleanup
  <2>6. cln[f].by = "disconnect"
    BY <1>1, <1>3 DEF Cleanups
  <2> QED
    BY <2>3, <2>5, <2>6 DEF EndCleanup, ClnFit
<1> QED
  BY <1>2, <1>3

\* What a cleanup has read when it goes on.
LEMMA QueryDoes ==
    ASSUME PushTypes, NEW f \in Flows, CleanupQuery(f)
    PROVE  \/ \E result \in {"incomplete", "not-verified"} : EndCleanup(f, result)
           \/ /\ record \in Metadata /\ UNCHANGED screen
              /\ \E q : /\ CleanupIs(f, q) /\ ClnFit(q) /\ q.sub = local /\ q.meta = record
                        /\ q.by = cln[f].by /\ q.mount = cln[f].mount
                        /\ q.company = cln[f].company
                        /\ q.step = IF record.phase = "registered" THEN "unregister"
                                    ELSE IF local # None THEN "unsubscribe" ELSE "clear"
<1>1. CASE Reconcile \in {"invalid", "local-only", "mismatch", "none"}
  BY <1>1 DEF CleanupQuery
<1>2. CASE Reconcile \notin {"invalid", "local-only", "mismatch", "none"}
  <2> DEFINE next == IF record.phase = "registered" THEN "unregister"
                     ELSE IF local # None THEN "unsubscribe" ELSE "clear"
  <2>1. record \in Metadata
    <3>1. record # Corrupt
      <4>1. record = Corrupt => Stored = "invalid"
        BY NoneIsApart DEF Stored
      <4>2. Stored = "invalid" => Reconcile = "invalid"
        BY DEF Reconcile
      <4> QED
        BY <1>2, <4>1, <4>2
    <3>2. record # None
      <4>1. record = None => Stored = "missing"
        BY <3>1 DEF Stored
      <4>2. Stored = "missing" => Reconcile \in {"none", "local-only"}
        BY DEF Reconcile
      <4> QED
        BY <1>2, <4>1, <4>2
    <3> QED
      BY <3>1, <3>2 DEF PushTypes, TypeOK
  <2>2. cln[f] \in Cleanups
    BY DEF CleanupQuery, Cleaning, PushTypes, Fit, ClnFit
  <2>3. local \in Endpoints \union {None}
    BY PushRegistrationAssumption DEF PushTypes, TypeOK, Endpoints
  <2>4. PICK c1 : c1 = [cln[f] EXCEPT !.sub = local]
    OBVIOUS
  <2>5. /\ c1 \in Cleanups /\ c1.sub = local /\ c1.by = cln[f].by
        /\ c1.mount = cln[f].mount /\ c1.company = cln[f].company
    BY <2>2, <2>3, <2>4 DEF Cleanups
  <2>6. PICK c2 : c2 = [c1 EXCEPT !.meta = record]
    OBVIOUS
  <2>7. /\ c2 \in Cleanups /\ c2.sub = local /\ c2.by = cln[f].by
        /\ c2.mount = cln[f].mount /\ c2.company = cln[f].company /\ c2.meta = record
    BY <2>1, <2>5, <2>6 DEF Cleanups
  <2>8. PICK q : q = [c2 EXCEPT !.step = next]
    OBVIOUS
  <2>9. /\ q \in Cleanups /\ q.sub = local /\ q.by = cln[f].by
        /\ q.mount = cln[f].mount /\ q.company = cln[f].company /\ q.meta = record
        /\ q.step = next
    BY <2>7, <2>8 DEF Cleanups
  <2>10. CleanupIs(f, q) /\ UNCHANGED screen
    <3>1. q = [cln[f] EXCEPT !.sub = local, !.meta = record, !.step = next]
      BY <2>4, <2>6, <2>8
    <3> QED
      BY <1>2, <3>1 DEF CleanupQuery
  <2> QED
    BY <2>1, <2>9, <2>10 DEF ClnFit
<1> QED
  BY <1>1, <1>2

\* The steps of a cleanup that neither read nor end it.
LEMMA CleanupGoesOn ==
    ASSUME PushTypes, NEW f \in Flows, cln[f] # None,
           NEW step \in {"phase", "unsubscribe", "clear"},
           step = "phase" => cln[f].step = "unregister"
    PROVE  \E q : /\ q = [cln[f] EXCEPT !.step = step] /\ ClnFit(q)
                  /\ q.step = step /\ q.by = cln[f].by /\ q.sub = cln[f].sub
                  /\ q.meta = cln[f].meta /\ q.mount = cln[f].mount
                  /\ q.company = cln[f].company
BY CleanupAt DEF PushTypes, Fit, ClnFit

\* A step of one cleanup keeps the types, if it keeps those of what it writes.
LEMMA CleanupStepTypes ==
    ASSUME PushTypes, NEW f \in Flows, NEW q, CleanupIs(f, q), q = None \/ ClnFit(q),
           local' \in {local, None}, server' \subseteq server, session' \in BOOLEAN,
           record' \in Metadata \union {None, Corrupt}, pd' \in {pd, None},
           done' \in Company \union {None},
           UNCHANGED <<permission, issued, tab, setup, reconciled, lastTest, reg, asked,
                       flows, events>>
    PROVE  PushTypes'
<1>1. /\ cln' \in [Flows -> Cleanups \union {None}]
      /\ \A g \in Flows : cln'[g] # None => ClnFit(cln'[g])
  BY CleanupMoves
<1>2. TypeOK'
  BY <1>1 DEF PushTypes, TypeOK
<1>3. Fit'
  BY <1>1 DEF PushTypes, Fit
<1> QED
  BY <1>2, <1>3 DEF PushTypes

\* What the steps of a cleanup come to.
LEMMA CleanupDoes ==
    ASSUME PushTypes, NEW f \in Flows, CleanupStep(f), ~DisconnectSession(f)
    PROVE  /\ cln[f] # None /\ cln[f].step # "session"
           /\ local' \in {local, None} /\ server' \subseteq server
           /\ record' \in Metadata \union {None, Corrupt} /\ pd' \in {pd, None}
           /\ UNCHANGED <<permission, issued, session, tab, setup, reconciled, lastTest, reg,
                          done, asked, flows, events>>
           /\ \E q : /\ CleanupIs(f, q)
                     /\ \/ q = None /\ UNCHANGED local
                        \/ /\ ClnFit(q) /\ q.by = cln[f].by
                           /\ q.mount = cln[f].mount /\ q.company = cln[f].company
                           /\ \/ /\ q.step = "session" /\ q.by = "disconnect" /\ UNCHANGED local
                                 /\ q.result = "complete"
                                    => cln[f].step = "clear" /\ record' = None
                              \/ /\ record \in Metadata /\ q.sub = local /\ q.meta = record
                                 /\ q.step = IF record.phase = "registered" THEN "unregister"
                                             ELSE IF local # None THEN "unsubscribe" ELSE "clear"
                                 /\ UNCHANGED <<local, record, server>>
                              \/ /\ cln[f].step = "unregister" /\ q.step = "phase"
                                 /\ q.meta = cln[f].meta /\ q.sub = cln[f].sub
                                 /\ server' = server \ {cln[f].meta.endpoint}
                                 /\ UNCHANGED <<local, record>>
                              \/ /\ cln[f].step = "phase"
                                 /\ q.step = IF cln[f].sub # None THEN "unsubscribe" ELSE "clear"
                                 /\ record' \in Metadata /\ record'.phase = "server-removed"
                                 /\ record' = Removed(cln[f].meta)
                                 /\ UNCHANGED <<local, server>>
                              \/ /\ cln[f].step = "unsubscribe" /\ q.step = "clear"
                                 /\ local' = None /\ UNCHANGED <<record, server>>
           /\ record' # record => cln[f].step = "clear" \/ record' = Removed(cln[f].meta)
<1>1. /\ cln[f] # None /\ ClnFit(cln[f]) /\ cln[f].step # "session"
      /\ record \in Metadata \union {None, Corrupt}
  BY DEF CleanupStep, CleanupFails, CleanupQuery, CleanupUnregister, CleanupWritePhase,
         CleanupUnsubscribe, CleanupClear, Cleaning, PushTypes, Fit, TypeOK
<1>2. CASE CleanupFails(f)
  <2>1. EndCleanup(f, "incomplete") /\ UNCHANGED <<world, reg, done, asked, flows, events>>
    BY <1>2 DEF CleanupFails
  <2> QED
    BY <1>1, <2>1, EndCleanupDoes DEF world, CleanupResults
<1>3. CASE CleanupQuery(f)
  <2>1. UNCHANGED <<world, reg, done, asked, flows, events>>
    BY <1>3 DEF CleanupQuery
  <2>2. CASE \E result \in {"incomplete", "not-verified"} : EndCleanup(f, result)
    BY <1>1, <2>1, <2>2, EndCleanupDoes DEF world, CleanupResults
  <2>3. CASE ~\E result \in {"incomplete", "not-verified"} : EndCleanup(f, result)
    BY <1>1, <1>3, <2>1, <2>3, QueryDoes DEF world, screen
  <2> QED
    BY <2>2, <2>3
<1>4. CASE CleanupUnregister(f)
  <2>1. PICK answer \in Answers :
            /\ Unregister(answer, cln[f].meta.endpoint)
            /\ IF answer = "answered"
               THEN CleanupIs(f, [cln[f] EXCEPT !.step = "phase"]) /\ UNCHANGED screen
               ELSE EndCleanup(f, "incomplete")
    BY <1>4 DEF CleanupUnregister
  <2>2. /\ cln[f].step = "unregister"
        /\ UNCHANGED <<permission, local, issued, record, session, reg, done, asked, flows,
                       events>>
    BY <1>4 DEF CleanupUnregister, Cleaning
  <2>3. server' \subseteq server
    BY <2>1 DEF Unregister
  <2>4. CASE answer = "answered"
    <3>1. server' = server \ {cln[f].meta.endpoint}
      BY <2>1, <2>4 DEF Unregister, Handled
    <3>2. PICK q : /\ q = [cln[f] EXCEPT !.step = "phase"] /\ ClnFit(q)
                   /\ q.step = "phase" /\ q.by = cln[f].by /\ q.sub = cln[f].sub
                   /\ q.meta = cln[f].meta /\ q.mount = cln[f].mount
                   /\ q.company = cln[f].company
      BY <1>1, <2>2, CleanupGoesOn
    <3>3. CleanupIs(f, q) /\ UNCHANGED screen
      BY <2>1, <2>4, <3>2
    <3> QED
      BY <1>1, <2>2, <2>3, <3>1, <3>2, <3>3 DEF screen
  <2>5. CASE answer # "answered"
    BY <1>1, <2>1, <2>2, <2>3, <2>5, EndCleanupDoes DEF CleanupResults
  <2> QED
    BY <2>4, <2>5
<1>5. CASE CleanupWritePhase(f)
  <2>1. /\ cln[f].step = "phase" /\ record' = Removed(cln[f].meta)
        /\ UNCHANGED <<permission, local, issued, server, session, screen, reg, done, asked,
                       flows, events>>
    BY <1>5 DEF CleanupWritePhase, Cleaning
  <2>2. record' \in Metadata /\ record'.phase = "server-removed"
    BY <1>1, <2>1 DEF ClnFit, Removed, Metadata, Phases
  <2>3. PICK step \in {"unsubscribe", "clear"} :
            step = IF cln[f].sub # None THEN "unsubscribe" ELSE "clear"
    OBVIOUS
  <2>4. PICK q : /\ q = [cln[f] EXCEPT !.step = step] /\ ClnFit(q)
                 /\ q.step = step /\ q.by = cln[f].by /\ q.mount = cln[f].mount
                 /\ q.company = cln[f].company
    BY <1>1, <2>3, CleanupGoesOn
  <2>5. CleanupIs(f, q)
    BY <1>5, <2>3, <2>4 DEF CleanupWritePhase
  <2> QED
    BY <1>1, <2>1, <2>2, <2>3, <2>4, <2>5 DEF screen
<1>6. CASE CleanupUnsubscribe(f)
  <2>1. /\ cln[f].step = "unsubscribe"
        /\ UNCHANGED <<permission, issued, record, server, session, reg, done, asked, flows,
                       events>>
    BY <1>6 DEF CleanupUnsubscribe, Cleaning
  <2>2. CASE SameSubscription(f)
    <3>1. PICK q : /\ q = [cln[f] EXCEPT !.step = "clear"] /\ ClnFit(q)
                   /\ q.step = "clear" /\ q.by = cln[f].by /\ q.mount = cln[f].mount
                   /\ q.company = cln[f].company
      BY <1>1, CleanupGoesOn
    <3>2. CleanupIs(f, q) /\ UNCHANGED screen /\ local' = None
      BY <1>6, <2>2, <3>1 DEF CleanupUnsubscribe
    <3> QED
      BY <1>1, <2>1, <3>1, <3>2 DEF screen
  <2>3. CASE ~SameSubscription(f)
    <3>1. EndCleanup(f, "incomplete") /\ UNCHANGED local
      BY <1>6, <2>3 DEF CleanupUnsubscribe
    <3> QED
      BY <1>1, <2>1, <3>1, EndCleanupDoes DEF CleanupResults
  <2> QED
    BY <2>2, <2>3
<1>7. CASE CleanupClear(f)
  <2>1. /\ cln[f].step = "clear" /\ record' = None /\ EndCleanup(f, "complete")
        /\ UNCHANGED <<permission, local, issued, server, session, reg, done, asked, flows,
                       events>>
    BY <1>7 DEF CleanupClear, Cleaning
  <2> QED
    BY <1>1, <2>1, EndCleanupDoes DEF CleanupResults
<1> QED
  BY <1>2, <1>3, <1>4, <1>5, <1>6, <1>7 DEF CleanupStep

LEMMA CleanupTypes ==
    ASSUME PushTypes, NEW f \in Flows, CleanupStep(f)
    PROVE  PushTypes'
<1>1. CASE ~DisconnectSession(f)
  <2>1. PICK q : CleanupIs(f, q) /\ (q = None \/ ClnFit(q))
    BY <1>1, CleanupDoes
  <2>2. /\ local' \in {local, None} /\ server' \subseteq server
        /\ record' \in Metadata \union {None, Corrupt} /\ pd' \in {pd, None}
        /\ UNCHANGED <<permission, issued, session, tab, setup, reconciled, lastTest, reg,
                       done, asked, flows, events>>
    BY <1>1, CleanupDoes
  <2> QED
    BY <2>1, <2>2, CleanupStepTypes DEF PushTypes, TypeOK
<1>2. CASE DisconnectSession(f)
  <2>1. cln[f] # None /\ cln[f].company \in Company
    BY <1>2 DEF DisconnectSession, Cleaning, PushTypes, Fit, ClnFit, Cleanups
  <2>2. CleanupIs(f, None) /\ done' \in {done, cln[f].company} /\ session' \in BOOLEAN
        /\ UNCHANGED <<permission, local, issued, record, server, screen, reg, asked, flows,
                       events>>
    BY <1>2 DEF DisconnectSession
  <2> QED
    BY <2>1, <2>2, CleanupStepTypes DEF PushTypes, TypeOK, screen
<1> QED
  BY <1>1, <1>2

\* Another flow begins beside this one; a screen is left; nothing else of it changes.
LEMMA OtherRegistration ==
    ASSUME PushTypes, NEW f \in Flows
    PROVE  /\ reg[f] = None => Joined(reg[f]) = None /\ Superseded(reg[f]) = None
                               /\ Detach(reg[f]) = None
           /\ reg[f] # None =>
                /\ RegFit(Joined(reg[f]), issued) /\ Joined(reg[f]).company = "beside"
                /\ RegFit(Superseded(reg[f]), issued) /\ Superseded(reg[f]).company = "beside"
                /\ RegFit(Detach(reg[f]), issued) /\ Detach(reg[f]).mount = "gone"
                /\ Detach(reg[f]).company = reg[f].company /\ Detach(reg[f]).step = reg[f].step
                /\ Detach(reg[f]).kind = reg[f].kind /\ Detach(reg[f]).sub = reg[f].sub
                /\ Detach(reg[f]).old = reg[f].old
<1>1. CASE reg[f] = None
  BY <1>1 DEF Joined, Superseded, Detach
<1>2. CASE reg[f] # None
  <2>1. RegFit(reg[f], issued) /\ reg[f] \in Registrations
    BY <1>2 DEF PushTypes, Fit, RegFit
  <2>2. PICK j : j = [reg[f] EXCEPT !.company = "beside"]
    OBVIOUS
  <2>3. j \in Registrations /\ j.company = "beside" /\ RegFit(j, issued)
    BY <2>1, <2>2 DEF Registrations, Company, RegFit
  <2>4. PICK m \in Mounts : m = IF reg[f].mount = "observed" THEN "mounted" ELSE reg[f].mount
    BY <2>1 DEF Registrations, Mounts
  <2>5. PICK s : s = [j EXCEPT !.mount = m]
    OBVIOUS
  <2>6. s \in Registrations /\ s.company = "beside" /\ RegFit(s, issued)
    BY <2>3, <2>5 DEF Registrations, RegFit
  <2>7. s = [reg[f] EXCEPT !.company = "beside", !.mount = m]
    BY <2>2, <2>5
  <2>8. PICK d : d = [reg[f] EXCEPT !.mount = "gone"]
    OBVIOUS
  <2>9. /\ d \in Registrations /\ d.mount = "gone" /\ RegFit(d, issued)
        /\ d.company = reg[f].company /\ d.step = reg[f].step /\ d.kind = reg[f].kind
        /\ d.sub = reg[f].sub /\ d.old = reg[f].old
    BY <2>1, <2>8 DEF Registrations, Mounts, RegFit
  <2>10. Joined(reg[f]) = j /\ Superseded(reg[f]) = s /\ Detach(reg[f]) = d
    BY <1>2, <2>2, <2>4, <2>7, <2>8 DEF Joined, Superseded, Detach
  <2> QED
    BY <1>2, <2>3, <2>6, <2>9, <2>10
<1> QED
  BY <1>1, <1>2

LEMMA OtherCleanup ==
    ASSUME PushTypes, NEW f \in Flows
    PROVE  /\ cln[f] = None => Joined(cln[f]) = None /\ Detach(cln[f]) = None
           /\ cln[f] # None =>
                /\ ClnFit(Joined(cln[f])) /\ Joined(cln[f]).company = "beside"
                /\ Joined(cln[f]).step = cln[f].step
                /\ ClnFit(Detach(cln[f])) /\ Detach(cln[f]).mount = "gone"
                /\ Detach(cln[f]).company = cln[f].company /\ Detach(cln[f]).step = cln[f].step
                /\ Detach(cln[f]).by = cln[f].by /\ Detach(cln[f]).sub = cln[f].sub
                /\ Detach(cln[f]).meta = cln[f].meta /\ Detach(cln[f]).result = cln[f].result
<1>1. CASE cln[f] = None
  BY <1>1 DEF Joined, Detach
<1>2. CASE cln[f] # None
  <2>1. ClnFit(cln[f]) /\ cln[f] \in Cleanups
    BY <1>2 DEF PushTypes, Fit, ClnFit
  <2>2. PICK j : j = [cln[f] EXCEPT !.company = "beside"]
    OBVIOUS
  <2>3. j.company = "beside" /\ j.step = cln[f].step /\ ClnFit(j)
    BY <2>1, <2>2 DEF Cleanups, Company, ClnFit
  <2>4. PICK d : d = [cln[f] EXCEPT !.mount = "gone"]
    OBVIOUS
  <2>5. /\ d.mount = "gone" /\ ClnFit(d) /\ d.company = cln[f].company /\ d.step = cln[f].step
        /\ d.by = cln[f].by /\ d.sub = cln[f].sub /\ d.meta = cln[f].meta
        /\ d.result = cln[f].result
    BY <2>1, <2>4 DEF Cleanups, Mounts, ClnFit
  <2>6. Joined(cln[f]) = j /\ Detach(cln[f]) = d
    BY <1>2, <2>2, <2>4 DEF Joined, Detach
  <2> QED
    BY <1>2, <2>3, <2>5, <2>6
<1> QED
  BY <1>1, <1>2

LEMMA SolitudeIsCompany == Solitude \in Company /\ (Solitude = "alone" => InFlight = {})
BY DEF Solitude, Company

\* A registration begins: the others are beside it, its steps are drawn, and the
\* screen asks about no test if what it showed was a delivery.
LEMMA StartRegistrationDoes ==
    ASSUME PushTypes, NEW kind \in {"connect", "test"}, StartRegistration(kind)
    PROVE  /\ PushTypes'
           /\ \A f \in Flows :
                /\ reg'[f] # None /\ reg'[f].company = "alone" =>
                     /\ f = NewFlow /\ InFlight = {} /\ reg'[f].step = "subscribe"
                     /\ reg'[f].kind = kind /\ reg'[f].mount # "gone"
                     /\ \A g \in Flows : cln'[g] = None /\ (g # f => reg'[g] = None)
                /\ cln'[f] # None => cln'[f].company = "beside"
           /\ pd' \in Deliveries /\ (pd' = ReduceDelivery(Shown, "test-started")
                                     \/ pd' = ReduceDelivery(Shown, "connection-started"))
<1>1. PICK r : r = [step |-> "subscribe", kind |-> kind, sub |-> None, old |-> None,
                    mount |-> "observed", base |-> Restored, company |-> Solitude]
  OBVIOUS
<1>2. Restored \in Deliveries /\ Shown \in Deliveries /\ Restored.arrival = "waiting"
  BY ShownTyped DEF PushTypes
<1>3. /\ r \in Registrations /\ r.step = "subscribe" /\ r.kind = kind /\ r.mount # "gone"
      /\ r.company = Solitude /\ RegFit(r, issued)
  BY <1>1, <1>2, SolitudeIsCompany DEF Registrations, Mounts, RegFit
<1>4. /\ reg' = [f \in Flows |-> IF f = NewFlow THEN r ELSE Superseded(reg[f])]
      /\ cln' = [f \in Flows |-> Joined(cln[f])]
  BY <1>1 DEF StartRegistration
<1>5. \A f \in Flows : /\ reg'[f] # None => RegFit(reg'[f], issued)
                       /\ cln'[f] # None => ClnFit(cln'[f]) /\ cln'[f].company = "beside"
                       /\ f # NewFlow /\ reg'[f] # None => reg'[f].company = "beside"
                       /\ f # NewFlow /\ reg[f] = None => reg'[f] = None
                       /\ cln[f] = None => cln'[f] = None
  BY <1>3, <1>4, OtherRegistration, OtherCleanup
<1>6. pd' \in Deliveries /\ (pd' = ReduceDelivery(Shown, "test-started")
                             \/ pd' = ReduceDelivery(Shown, "connection-started"))
  BY <1>2, ReducedTyped DEF StartRegistration
<1>7. flows' \in 0..MaxFlows
  BY PushRegistrationAssumption DEF StartRegistration, CanStart, PushTypes, TypeOK
<1>8. /\ reg' \in [Flows -> Registrations \union {None}]
      /\ cln' \in [Flows -> Cleanups \union {None}]
  BY <1>4, <1>5 DEF RegFit, ClnFit
<1>9. UNCHANGED <<world, tab, setup, reconciled, done, asked, events>>
      /\ lastTest' \in {lastTest, "test-sending"}
  BY DEF StartRegistration
<1>10. PushTypes'
  BY <1>5, <1>6, <1>7, <1>8, <1>9 DEF PushTypes, TypeOK, Fit, world
<1>11. ASSUME NEW f \in Flows, reg'[f] # None, reg'[f].company = "alone"
       PROVE  /\ f = NewFlow /\ InFlight = {} /\ reg'[f].step = "subscribe"
              /\ reg'[f].kind = kind /\ reg'[f].mount # "gone"
              /\ \A g \in Flows : cln'[g] = None /\ (g # f => reg'[g] = None)
  <2>1. f = NewFlow
    BY <1>5, <1>11
  <2>2. reg'[f] = r
    BY <1>4, <2>1
  <2>3. InFlight = {}
    BY <1>3, <1>11, <2>2, SolitudeIsCompany
  <2>4. \A g \in Flows : reg[g] = None /\ cln[g] = None
    BY <2>3 DEF InFlight
  <2> QED
    BY <1>3, <1>5, <2>1, <2>2, <2>3, <2>4
<1> QED
  BY <1>5, <1>6, <1>10, <1>11

\* A cleanup begins: the others are beside it, and it goes straight to the session
\* only when an earlier one had completed.
LEMMA StartCleanupDoes ==
    ASSUME PushTypes, TurnPushOff \/ Disconnect
    PROVE  /\ PushTypes' /\ UNCHANGED <<world, screen, done, asked, events>>
           /\ \A f \in Flows :
                /\ reg'[f] # None => reg'[f].company = "beside"
                /\ reg[f] = None => reg'[f] = None
                /\ cln'[f] # None => f = NewFlow \/ (cln[f] # None /\ cln'[f].step = cln[f].step)
                /\ cln'[f] # None /\ cln'[f].company = "alone" =>
                     /\ f = NewFlow /\ InFlight = {}
                     /\ cln'[f].by = "disconnect" => tab = "devices"
                     /\ cln'[f].step \in {"query", "session"}
                     /\ cln'[f].by = "screen" => cln'[f].step = "query"
                     /\ cln'[f].step = "session" => done = "alone"
                     /\ \A g \in Flows : reg'[g] = None /\ (g # f => cln'[g] = None)
                /\ f = NewFlow /\ cln'[f] # None /\ done # None /\ Disconnect
                   => cln'[f].step = "session"
<1>1. PICK n : n \in {"screen", "disconnect"} /\ n = IF TurnPushOff THEN "screen" ELSE "disconnect"
  OBVIOUS
<1>2. PICK c : c = [step |-> "query", by |-> n, sub |-> None, meta |-> None,
                    result |-> None, mount |-> "observed", company |-> Solitude]
  OBVIOUS
<1>3. /\ c \in Cleanups /\ c.step = "query" /\ c.by = n /\ c.company = Solitude
      /\ c = NewCleanup(n)
  BY <1>1, <1>2, SolitudeIsCompany DEF Cleanups, Mounts, NewCleanup
<1>4. ~(TurnPushOff /\ Disconnect)
  BY DEF TurnPushOff, Disconnect, Mounted
<1>5. PICK q : /\ StartCleanup(q) /\ ClnFit(q) /\ q.by = n
               /\ \/ q.step = "query" /\ q.company = Solitude /\ (done = None \/ TurnPushOff)
                  \/ /\ Disconnect /\ q.step = "session" /\ done # None
                     /\ q.company = IF done = "alone" THEN Solitude ELSE done
  <2>1. CASE TurnPushOff \/ done = None
    <3>1. StartCleanup(c)
      BY <1>1, <1>3, <1>4, <2>1 DEF TurnPushOff, Disconnect
    <3> QED
      BY <1>3, <2>1, <3>1 DEF ClnFit
  <2>2. CASE Disconnect /\ done # None
    <3>1. PICK s : s = [c EXCEPT !.step = "session"]
      OBVIOUS
    <3>2. s \in Cleanups /\ s.step = "session" /\ s.by = n
      BY <1>3, <3>1 DEF Cleanups
    <3>3. PICK t : t = [s EXCEPT !.result = "complete"]
      OBVIOUS
    <3>4. t \in Cleanups /\ t.step = "session" /\ t.by = n
      BY <3>2, <3>3 DEF Cleanups, CleanupResults
    <3>5. PICK w : w \in Company /\ w = IF done = "alone" THEN Solitude ELSE done
      BY <2>2, SolitudeIsCompany DEF PushTypes, TypeOK
    <3>6. PICK q : q = [t EXCEPT !.company = w]
      OBVIOUS
    <3>7. q \in Cleanups /\ q.step = "session" /\ q.by = n /\ q.company = w
      BY <3>4, <3>5, <3>6 DEF Cleanups
    <3>8. q = [c EXCEPT !.step = "session", !.result = "complete", !.company = w]
      BY <3>1, <3>3, <3>6
    <3>9. n = "disconnect"
      BY <1>1, <1>4, <2>2
    <3>10. StartCleanup(q)
      BY <1>3, <2>2, <3>5, <3>8, <3>9 DEF Disconnect
    <3> QED
      BY <2>2, <3>5, <3>7, <3>10 DEF ClnFit
  <2> QED
    BY <2>1, <2>2
<1>6. /\ cln' = [f \in Flows |-> IF f = NewFlow THEN q ELSE Joined(cln[f])]
      /\ reg' = [f \in Flows |-> Joined(reg[f])] /\ flows' = flows + 1 /\ CanStart
      /\ UNCHANGED <<world, screen, done, asked, events>>
  BY <1>5 DEF StartCleanup
<1>7. \A f \in Flows :
          /\ reg'[f] # None => RegFit(reg'[f], issued) /\ reg'[f].company = "beside"
          /\ reg[f] = None => reg'[f] = None
          /\ cln'[f] # None => ClnFit(cln'[f])
          /\ f # NewFlow /\ cln'[f] # None
             => cln[f] # None /\ cln'[f].company = "beside" /\ cln'[f].step = cln[f].step
          /\ f # NewFlow /\ cln[f] = None => cln'[f] = None
  BY <1>5, <1>6, OtherRegistration, OtherCleanup
<1>8. flows' \in 0..MaxFlows
  BY <1>6, PushRegistrationAssumption DEF CanStart, PushTypes, TypeOK
<1>9. /\ reg' \in [Flows -> Registrations \union {None}]
      /\ cln' \in [Flows -> Cleanups \union {None}]
  BY <1>6, <1>7 DEF RegFit, ClnFit
<1>10. PushTypes'
  BY <1>6, <1>7, <1>8, <1>9 DEF PushTypes, TypeOK, Fit, world, screen
<1>11. ASSUME NEW f \in Flows, cln'[f] # None, cln'[f].company = "alone"
       PROVE  /\ f = NewFlow /\ InFlight = {}
              /\ cln'[f].by = "disconnect" => tab = "devices"
              /\ cln'[f].step \in {"query", "session"}
              /\ cln'[f].by = "screen" => cln'[f].step = "query"
              /\ cln'[f].step = "session" => done = "alone"
              /\ \A g \in Flows : reg'[g] = None /\ (g # f => cln'[g] = None)
  <2>1. f = NewFlow
    BY <1>7, <1>11
  <2>2. cln'[f] = q
    BY <1>6, <2>1
  <2>3. Solitude = "alone" /\ (q.step = "session" => done = "alone")
    BY <1>5, <1>11, <2>2
  <2>4. InFlight = {}
    BY <2>3, SolitudeIsCompany
  <2>5. \A g \in Flows : reg[g] = None /\ cln[g] = None
    BY <2>4 DEF InFlight
  <2>6. q.by = "disconnect" => tab = "devices"
    BY <1>1, <1>5 DEF Disconnect
  <2>7. q.by = "screen" => q.step = "query"
    BY <1>1, <1>4, <1>5
  <2> QED
    BY <1>5, <1>7, <2>1, <2>2, <2>3, <2>4, <2>5, <2>6, <2>7
<1>12. \A f \in Flows : f = NewFlow /\ cln'[f] # None /\ done # None /\ Disconnect
                        => cln'[f].step = "session"
  BY <1>4, <1>5, <1>6
<1> QED
  BY <1>6, <1>7, <1>10, <1>11, <1>12

LEMMA SelectTabDoes ==
    ASSUME PushTypes, SelectTab
    PROVE  /\ PushTypes' /\ pd' = None /\ done' = None
           /\ UNCHANGED <<world, setup, reconciled, lastTest, asked, flows, events>>
           /\ \A f \in Flows : reg'[f] = Detach(reg[f]) /\ cln'[f] = Detach(cln[f])
<1>1. /\ reg' = [f \in Flows |-> Detach(reg[f])] /\ cln' = [f \in Flows |-> Detach(cln[f])]
      /\ pd' = None /\ done' = None /\ tab' \in {"devices", "notifications"}
      /\ UNCHANGED <<world, setup, reconciled, lastTest, asked, flows, events>>
  BY DEF SelectTab
<1>2. \A f \in Flows : /\ reg'[f] # None => RegFit(reg'[f], issued)
                       /\ cln'[f] # None => ClnFit(cln'[f])
  BY <1>1, OtherRegistration, OtherCleanup
<1>3. /\ reg' \in [Flows -> Registrations \union {None}]
      /\ cln' \in [Flows -> Cleanups \union {None}]
  BY <1>1, <1>2 DEF RegFit, ClnFit
<1> QED
  BY <1>1, <1>2, <1>3 DEF PushTypes, TypeOK, Fit, world

LEMMA PageTypes ==
    ASSUME PushTypes,
           \/ \E arrived \in BOOLEAN : ConfirmArrival(arrived)
           \/ PreparePush \/ \E answer \in Reconciliations : LoadReconciliation(answer)
           \/ SelectTab \/ Reload \/ SubscriptionChanges \/ PermissionChanges \/ EndpointGone
           \/ PairAgain
    PROVE  PushTypes'
<1>1. ASSUME NEW arrived \in BOOLEAN, ConfirmArrival(arrived)
      PROVE  PushTypes'
  <2>1. pd' \in Deliveries
    BY <1>1, ShownTyped, ReducedTyped DEF ConfirmArrival, PushTypes
  <2> QED
    BY <1>1, <2>1 DEF ConfirmArrival, PushTypes, TypeOK, Fit, world
<1>2. CASE PreparePush
  BY <1>2 DEF PreparePush, PushTypes, TypeOK, Fit, world
<1>3. CASE \E answer \in Reconciliations : LoadReconciliation(answer)
  BY <1>3 DEF LoadReconciliation, PushTypes, TypeOK, Fit, world
<1>4. CASE SelectTab
  BY <1>4, SelectTabDoes
<1>5. CASE Reload
  <2>1. events' \in 0..MaxDisturbances
    BY <1>5, PushRegistrationAssumption DEF Reload, PushTypes, TypeOK
  <2>2. /\ reg' \in [Flows -> Registrations \union {None}]
        /\ cln' \in [Flows -> Cleanups \union {None}]
        /\ \A f \in Flows : reg'[f] = None /\ cln'[f] = None
    BY <1>5 DEF Reload, NoFlow
  <2> QED
    BY <1>5, <2>1, <2>2 DEF Reload, PushTypes, TypeOK, Fit, world
<1>6. CASE SubscriptionChanges
  <2>1. /\ issued' \in 0..MaxEndpoints /\ issued <= issued' /\ local' \in 1..issued' \union {None}
        /\ events' \in 0..MaxDisturbances /\ \A n \in 1..issued : n \in 1..issued'
    BY <1>6, PushRegistrationAssumption DEF SubscriptionChanges, PushTypes, TypeOK
  <2>2. server' \subseteq 1..issued'
    BY <1>6, <2>1 DEF SubscriptionChanges, PushTypes, TypeOK
  <2>3. TypeOK'
    BY <1>6, <2>1, <2>2 DEF SubscriptionChanges, PushTypes, TypeOK, screen
  <2>4. Fit'
    BY <1>6, <2>1 DEF SubscriptionChanges, PushTypes, Fit, RegFit
  <2> QED
    BY <2>3, <2>4 DEF PushTypes
<1>7. CASE PermissionChanges
  <2>1. events' \in 0..MaxDisturbances /\ local' \in {local, None}
    BY <1>7, PushRegistrationAssumption DEF PermissionChanges, PushTypes, TypeOK
  <2> QED
    BY <1>7, <2>1 DEF PermissionChanges, PushTypes, TypeOK, Fit, screen
<1>8. CASE EndpointGone
  <2>1. /\ server' \subseteq server
        /\ UNCHANGED <<permission, local, issued, record, session, tab, setup, pd, reconciled,
                       lastTest, reg, cln, done, asked, flows, events>>
    BY <1>8 DEF EndpointGone, screen
  <2>2. TypeOK'
    BY <2>1 DEF PushTypes, TypeOK
  <2>3. Fit'
    BY <2>1 DEF PushTypes, Fit
  <2> QED
    BY <2>2, <2>3 DEF PushTypes
<1>9. CASE PairAgain
  BY <1>9 DEF PairAgain, PushTypes, TypeOK, Fit, screen
<1> QED
  BY <1>1, <1>2, <1>3, <1>4, <1>5, <1>6, <1>7, <1>8, <1>9

LEMMA NextTypes ==
    ASSUME PushTypes, [Next]_vars
    PROVE  PushTypes'
<1>1. CASE Next
  BY <1>1, StartRegistrationDoes, StartCleanupDoes, RegistrationTypes, CleanupTypes, PageTypes
     DEF Next
<1>2. CASE UNCHANGED vars
  BY <1>2 DEF vars, world, screen, PushTypes, TypeOK, Fit
<1> QED
  BY <1>1, <1>2

LEMMA InitTypes == Init => PushTypes
<1> SUFFICES ASSUME Init
             PROVE  PushTypes
  OBVIOUS
<1>1. 0 \in 0..MaxEndpoints /\ 0 \in 0..MaxFlows /\ 0 \in 0..MaxDisturbances
  BY PushRegistrationAssumption
<1>2. /\ reg \in [Flows -> Registrations \union {None}]
      /\ cln \in [Flows -> Cleanups \union {None}]
      /\ \A f \in Flows : reg[f] = None /\ cln[f] = None
  BY DEF Init, NoFlow
<1> QED
  BY <1>1, <1>2 DEF Init, PushTypes, TypeOK, Fit

(* For any number of endpoints, flows in flight together and disturbances,   *)
(* every variable of the registration keeps to its type.                    *)
THEOREM PushRegistrationTypes == Spec => []TypeOK
<1>1. PushTypes => TypeOK
  BY DEF PushTypes
<1> QED
  BY <1>1, InitTypes, NextTypes, PTL DEF Spec

--------------------------------------------------------------------------------
(***************************************************************************)
(* What a flow that runs alone does to the four places, whatever other     *)
(* flows left there before it.                                             *)
(***************************************************************************)
\* No flow is alone beside another: a step of a flow that has company concerns none.
LEMMA AloneOrNone ==
    ASSUME PushIInv, NEW f \in Flows
    PROVE  /\ reg[f] # None => /\ done # "alone" /\ ~Alone(cln[f])
                               /\ asked = "alone" /\ pd # None => pd.arrival # "current"
                               /\ \A g \in Flows : g # f => ~Alone(reg[g]) /\ ~Alone(cln[g])
                               /\ Alone(reg[f]) => \A g \in Flows :
                                      cln[g] = None /\ (g # f => reg[g] = None)
           /\ cln[f] # None => /\ ~Alone(reg[f])
                               /\ \A g \in Flows : g # f => ~Alone(reg[g]) /\ ~Alone(cln[g])
                               /\ Alone(cln[f]) => \A g \in Flows :
                                      reg[g] = None /\ (g # f => cln[g] = None)
BY DEF PushIInv, Remembered, AskedAbout, Solitary, Alone

LEMMA RegistrationStepKeeps ==
    ASSUME PushIInv, PushTypes', NEW f \in Flows, reg[f] # None, NEW q, RegistrationIs(f, q),
           q # None => q.company = reg[f].company,
           q # None /\ Alone(reg[f]) => Replacing(q)' /\ Attending(q)',
           UNCHANGED <<tab, cln, done>>, AskedAbout'
    PROVE  PushIInv'
<1>1. reg'[f] = q /\ \A g \in Flows : g # f => reg'[g] = reg[g]
  BY DEF RegistrationIs, PushIInv, PushTypes, TypeOK
<1>2. Remembered'
  BY AloneOrNone DEF Remembered
<1>3. ASSUME NEW g \in Flows
      PROVE  /\ Solitary(g)' /\ (Alone(reg[g]) => Replacing(reg[g]) /\ Attending(reg[g]))'
             /\ (Alone(cln[g]) => Removing(cln[g]))'
  <2>1. ~Alone(cln[g])'
    BY <1>3, AloneOrNone DEF Alone
  <2>2. g # f => ~Alone(reg[g])'
    BY <1>1, <1>3, AloneOrNone DEF Alone
  <2>3. Alone(reg[f])' => q # None /\ Alone(reg[f])
    BY <1>1 DEF Alone
  <2>4. Alone(reg[f])' => Replacing(reg[f])' /\ Attending(reg[f])'
    <3>1. Replacing(q)' => Replacing(reg[f])'
      BY <1>1 DEF Replacing
    <3>2. Attending(q)' => Attending(reg[f])'
      BY <1>1 DEF Attending
    <3> QED
      BY <2>3, <3>1, <3>2
  <2>5. Solitary(g)'
    <3>1. CASE g # f
      BY <2>1, <2>2, <3>1 DEF Solitary
    <3>2. CASE g = f
      BY <1>1, <2>1, <2>3, <3>2, AloneOrNone DEF Solitary
    <3> QED
      BY <3>1, <3>2
  <2> QED
    BY <2>1, <2>2, <2>4, <2>5
<1> QED
  BY <1>2, <1>3 DEF PushIInv

LEMMA CleanupStepKeeps ==
    ASSUME PushIInv, PushTypes', NEW f \in Flows, cln[f] # None, NEW q, CleanupIs(f, q),
           q # None => q.company = cln[f].company,
           q # None /\ Alone(cln[f]) => Removing(q)',
           pd' \in {pd, None}, UNCHANGED <<tab, lastTest, reg, asked>>, Remembered'
    PROVE  PushIInv'
<1>1. cln'[f] = q /\ \A g \in Flows : g # f => cln'[g] = cln[g]
  BY DEF CleanupIs, PushIInv, PushTypes, TypeOK
<1>2. AskedAbout'
  BY DEF PushIInv, AskedAbout
<1>3. ASSUME NEW g \in Flows
      PROVE  /\ Solitary(g)' /\ (Alone(reg[g]) => Replacing(reg[g]) /\ Attending(reg[g]))'
             /\ (Alone(cln[g]) => Removing(cln[g]))'
  <2>1. ~Alone(reg[g])'
    BY <1>3, AloneOrNone DEF Alone
  <2>2. g # f => ~Alone(cln[g])'
    BY <1>1, <1>3, AloneOrNone DEF Alone
  <2>3. Alone(cln[f])' => q # None /\ Alone(cln[f])
    BY <1>1 DEF Alone
  <2>4. Alone(cln[f])' => Removing(cln[f])'
    <3>1. Removing(q)' => Removing(cln[f])'
      BY <1>1 DEF Removing
    <3> QED
      BY <2>3, <3>1
  <2>5. Solitary(g)'
    <3>1. CASE g # f
      BY <2>1, <2>2, <3>1 DEF Solitary
    <3>2. CASE g = f
      BY <1>1, <2>1, <2>3, <3>2, AloneOrNone DEF Solitary
    <3> QED
      BY <3>1, <3>2
  <2> QED
    BY <2>1, <2>2, <2>4, <2>5
<1> QED
  BY <1>2, <1>3 DEF PushIInv

\* While the screen asks about no test that ran alone, only a queued test makes it.
LEMMA StillUnasked ==
    ASSUME PushIInv, NEW f \in Flows, reg[f] # None, NEW event, event # "test-queued",
           RegTransition(f, event) \/ UNCHANGED pd, UNCHANGED asked
    PROVE  AskedAbout'
<1>1. asked = "alone" /\ pd # None => pd.arrival # "current"
  BY AloneOrNone
<1>2. CASE pd' = pd
  BY <1>1, <1>2 DEF AskedAbout
<1>3. CASE pd' # pd
  <2>1. pd' = ReduceDelivery(Drawn(f, event), event)
    BY <1>3 DEF RegTransition
  <2>2. /\ Drawn(f, event) \in Deliveries
        /\ IF pd # None THEN Drawn(f, event) = pd ELSE Drawn(f, event).arrival = "waiting"
    BY DrawnTyped DEF PushIInv
  <2>3. asked = "alone" => Drawn(f, event).arrival # "current"
    BY <1>1, <2>2
  <2>4. asked = "alone" => pd'.arrival # "current"
    BY <2>1, <2>2, <2>3, ReducedAsks
  <2> QED
    BY <2>4 DEF AskedAbout
<1> QED
  BY <1>2, <1>3

LEMMA FollowedByItsScreen ==
    ASSUME PushIInv, NEW f \in Flows, Alone(reg[f]), NEW event, event # "test-queued",
           RegTransition(f, event)
    PROVE  IF reg[f].mount = "gone" THEN pd' = None
           ELSE /\ pd' # None
                /\ event = "server-registered" => pd'.serverRegistration = "complete"
<1>1. Attending(reg[f]) /\ reg[f] # None
  BY DEF PushIInv, Alone
<1>2. CASE reg[f].mount = "gone"
  BY <1>1, <1>2 DEF Attending, RegTransition
<1>3. CASE reg[f].mount # "gone"
  <2>1. pd \in Deliveries /\ Drawn(f, event) = pd
    BY <1>1, <1>3, DrawnTyped DEF Attending, PushIInv, PushTypes, TypeOK
  <2>2. pd' = ReduceDelivery(pd, event)
    BY <1>3, <2>1 DEF RegTransition
  <2>3. pd' \in Deliveries
    BY <2>1, <2>2, ReducedTyped
  <2>4. event = "server-registered" => pd'.serverRegistration = "complete"
    BY <2>2 DEF ReduceDelivery, Steps
  <2> QED
    BY <1>3, <2>3, <2>4, NoneIsApart
<1> QED
  BY <1>2, <1>3

LEMMA SubscribeKeeps ==
    ASSUME PushIInv, NEW f \in Flows, SubscribeDenied(f) \/ SubscribeFails(f) \/ Subscribed(f)
    PROVE  PushIInv'
<1>1. PushTypes' /\ reg[f] # None /\ UNCHANGED <<tab, cln, done, asked>>
  BY RegistrationTypes
     DEF PushIInv, RegistrationStep, SubscribeDenied, SubscribeFails, Subscribed, Registering,
         EndRegistration
<1>2. CASE SubscribeDenied(f) \/ SubscribeFails(f)
  <2>1. PICK event : event # "test-queued" /\ EndRegistration(f, event)
    BY <1>2 DEF SubscribeDenied, SubscribeFails
  <2>2. RegistrationIs(f, None) /\ RegTransition(f, event)
    BY <2>1 DEF EndRegistration
  <2>3. AskedAbout'
    BY <1>1, <2>1, <2>2, StillUnasked
  <2> QED
    BY <1>1, <2>2, <2>3, RegistrationStepKeeps
<1>3. CASE Subscribed(f)
  <2>1. RegTransition(f, "local-subscribed") /\ UNCHANGED lastTest
    BY <1>3 DEF Subscribed
  <2>2. PICK q : /\ RegistrationIs(f, q) /\ q.step = "prepare" /\ q.kind = reg[f].kind
                 /\ q.mount = reg[f].mount /\ q.company = reg[f].company
    BY <1>3, SubscribedDoes DEF PushIInv
  <2>3. AskedAbout'
    BY <1>1, <2>1, StillUnasked
  <2>4. Replacing(q)'
    BY <2>2 DEF Replacing
  <2>5. Alone(reg[f]) => Attending(q)'
    BY <2>1, <2>2, FollowedByItsScreen DEF Attending, PushIInv
  <2> QED
    BY <1>1, <2>2, <2>3, <2>4, <2>5, RegistrationStepKeeps
<1> QED
  BY <1>2, <1>3

LEMMA PrepareKeeps ==
    ASSUME PushIInv, NEW f \in Flows, PrepareRegistration(f)
    PROVE  PushIInv'
<1>1. PushTypes' /\ reg[f] # None /\ reg[f].step = "prepare"
      /\ UNCHANGED <<local, server, screen, cln, done, asked>>
  BY RegistrationTypes DEF PushIInv, RegistrationStep, PrepareRegistration, Registering
<1>2. PICK q : /\ RegistrationIs(f, q)
               /\ q.kind = reg[f].kind /\ q.mount = reg[f].mount
               /\ q.company = reg[f].company /\ q.sub = reg[f].sub
               /\ \/ /\ q.step = "register"
                     /\ record' = None \/ (record \in Metadata /\ record' = record
                                           /\ record.endpoint = reg[f].sub)
                  \/ /\ record \in Metadata /\ record' = record /\ q.old = record.endpoint
                     /\ q.step = IF record.phase = "registered" THEN "unregister" ELSE "clear"
  BY PrepareDoes DEF PushIInv
<1>3. AskedAbout'
  BY <1>1, StillUnasked DEF screen
<1>4. Replacing(q)'
  BY <1>2 DEF Replacing
<1>5. Alone(reg[f]) => Attending(q)'
  BY <1>1, <1>2 DEF Attending, PushIInv, screen
<1> QED
  BY <1>1, <1>2, <1>3, <1>4, <1>5, RegistrationStepKeeps DEF screen

LEMMA CallKeeps ==
    ASSUME PushIInv, NEW f \in Flows,
           RegistrationFails(f) \/ UnregisterOld(f) \/ ClearOldRecord(f) \/ RegisterServer(f)
    PROVE  PushIInv'
<1>1. PushTypes' /\ reg[f] # None /\ UNCHANGED <<local, tab, cln, done, asked>>
  BY RegistrationTypes, CallDoes DEF PushIInv, RegistrationStep
<1>2. PICK q : /\ RegistrationIs(f, q)
               /\ \/ q = None
                  \/ /\ q.kind = reg[f].kind
                     /\ q.mount = reg[f].mount /\ q.company = reg[f].company
                     /\ q.sub = reg[f].sub /\ q.old = reg[f].old
                     /\ UNCHANGED <<pd, lastTest>>
                     /\ \/ /\ reg[f].step = "unregister" /\ q.step = "clear"
                           /\ server' = server \ {reg[f].old} /\ UNCHANGED record
                        \/ /\ reg[f].step = "clear" /\ q.step = "register"
                           /\ record' = None /\ UNCHANGED server
                        \/ /\ reg[f].step = "register" /\ q.step = "store"
                           /\ server' = server \union {reg[f].sub} /\ UNCHANGED record
  BY CallDoes DEF PushIInv
<1>3. UNCHANGED pd \/ RegTransition(f, "server-registration-failed")
  BY DEF RegistrationFails, UnregisterOld, ClearOldRecord, RegisterServer, EndRegistration,
         screen
<1>4. AskedAbout'
  BY <1>1, <1>3, StillUnasked
<1>5. ASSUME q # None, Alone(reg[f])
      PROVE  Replacing(q)' /\ Attending(q)'
  <2>1. Replacing(reg[f]) /\ Attending(reg[f])
    BY <1>5 DEF PushIInv
  <2>2. Attending(q)'
    BY <1>2, <1>5, <2>1 DEF Attending
  <2>3. Replacing(q)'
    BY <1>1, <1>2, <1>5, <2>1 DEF Replacing
  <2> QED
    BY <2>2, <2>3
<1> QED
  BY <1>1, <1>2, <1>4, <1>5, RegistrationStepKeeps

LEMMA StoreKeeps ==
    ASSUME PushIInv, NEW f \in Flows, StoreRegistration(f)
    PROVE  PushIInv'
<1>1. PushTypes' /\ reg[f] # None /\ reg[f].step = "store"
      /\ UNCHANGED <<local, server, tab, lastTest, cln, done, asked>>
      /\ RegTransition(f, "server-registered")
  BY RegistrationTypes DEF PushIInv, RegistrationStep, StoreRegistration, Registering
<1>2. PICK q : /\ RegistrationIs(f, q)
               /\ \/ q = None
                  \/ /\ q.step = "test" /\ q.kind = reg[f].kind
                     /\ q.mount = reg[f].mount /\ q.company = reg[f].company
                     /\ q.sub = reg[f].sub
  BY StoreDoes DEF PushIInv
<1>3. AskedAbout'
  BY <1>1, StillUnasked
<1>4. ASSUME q # None, Alone(reg[f])
      PROVE  Replacing(q)' /\ Attending(q)'
  <2>1. Replacing(reg[f]) /\ Attending(reg[f])
    BY <1>4 DEF PushIInv
  <2>2. Replacing(q)'
    BY <1>1, <1>2, <1>4, <2>1 DEF Replacing
  <2>3. Attending(q)'
    BY <1>1, <1>2, <1>4, <2>1, FollowedByItsScreen DEF Attending
  <2> QED
    BY <2>2, <2>3
<1> QED
  BY <1>1, <1>2, <1>3, <1>4, RegistrationStepKeeps

LEMMA SendTestKeeps ==
    ASSUME PushIInv, NEW f \in Flows, SendTest(f)
    PROVE  PushIInv'
<1>1. /\ PushTypes' /\ RegistrationIs(f, None) /\ reg[f] # None /\ reg[f].step = "test"
      /\ UNCHANGED <<tab, cln, done>>
  BY RegistrationTypes, SendTestDoes DEF PushIInv, RegistrationStep
<1>2. CASE EndRegistration(f, "test-failed") /\ UNCHANGED asked
  <2>1. AskedAbout'
    BY <1>1, <1>2, StillUnasked DEF EndRegistration
  <2> QED
    BY <1>1, <2>1, RegistrationStepKeeps
<1>3. CASE /\ RegTransition(f, "test-queued") /\ UNCHANGED lastTest
           /\ asked' = IF reg[f].mount = "gone" THEN asked ELSE reg[f].company
  <2>1. CASE reg[f].mount = "gone"
    <3>1. pd' = pd /\ asked' = asked
      BY <1>3, <2>1 DEF RegTransition
    <3>2. AskedAbout'
      BY <1>1, <3>1, StillUnasked
    <3> QED
      BY <1>1, <3>2, RegistrationStepKeeps
  <2>2. CASE reg[f].mount # "gone" /\ ~Alone(reg[f])
    <3>1. asked' # "alone"
      BY <1>1, <1>3, <2>2 DEF Alone
    <3>2. AskedAbout'
      BY <3>1 DEF AskedAbout
    <3> QED
      BY <1>1, <3>2, RegistrationStepKeeps
  <2>3. CASE reg[f].mount # "gone" /\ Alone(reg[f])
    <3>1. Attending(reg[f]) /\ reg[f].kind = "test"
      BY <1>1, <2>3 DEF PushIInv, PushTypes, Fit, RegFit
    <3>2. pd \in Deliveries /\ pd.serverRegistration = "complete"
          /\ Drawn(f, "test-queued") = pd /\ lastTest # "error"
      BY <1>1, <2>3, <3>1, DrawnTyped DEF Attending, PushIInv, PushTypes, TypeOK
    <3>3. pd' = [pd EXCEPT !.testSend = "complete", !.arrival = "current"]
      BY <1>3, <2>3, <3>2 DEF RegTransition, ReduceDelivery
    <3>4. pd'.serverRegistration = "complete" /\ pd'.testSend = "complete"
      BY <3>2, <3>3 DEF Deliveries
    <3>5. \A g \in Flows : reg'[g] = None
      BY <1>1, <2>3, AloneOrNone DEF RegistrationIs, PushIInv, PushTypes, TypeOK
    <3>6. AskedAbout'
      BY <1>3, <3>2, <3>4, <3>5 DEF AskedAbout
    <3> QED
      BY <1>1, <3>6, RegistrationStepKeeps
  <2> QED
    BY <2>1, <2>2, <2>3
<1> QED
  BY <1>2, <1>3, SendTestDoes DEF PushIInv

LEMMA CleanupKeeps ==
    ASSUME PushIInv, NEW f \in Flows, CleanupStep(f), ~DisconnectSession(f)
    PROVE  PushIInv'
<1>1. PushTypes' /\ cln[f] # None /\ cln[f].step # "session" /\ pd' \in {pd, None}
      /\ UNCHANGED <<tab, lastTest, reg, asked, done>>
  BY CleanupTypes, CleanupDoes DEF PushIInv
<1>2. PICK q : /\ CleanupIs(f, q)
               /\ \/ q = None
                  \/ /\ q.by = cln[f].by /\ q.mount = cln[f].mount
                     /\ q.company = cln[f].company
                     /\ \/ /\ q.step = "session" /\ q.by = "disconnect" /\ UNCHANGED local
                           /\ q.result = "complete" => cln[f].step = "clear" /\ record' = None
                        \/ /\ record \in Metadata /\ q.sub = local /\ q.meta = record
                           /\ q.step = IF record.phase = "registered" THEN "unregister"
                                       ELSE IF local # None THEN "unsubscribe" ELSE "clear"
                           /\ UNCHANGED <<local, record, server>>
                        \/ /\ cln[f].step = "unregister" /\ q.step = "phase"
                           /\ q.meta = cln[f].meta /\ q.sub = cln[f].sub
                           /\ server' = server \ {cln[f].meta.endpoint}
                           /\ UNCHANGED <<local, record>>
                        \/ /\ cln[f].step = "phase"
                           /\ q.step = IF cln[f].sub # None THEN "unsubscribe" ELSE "clear"
                           /\ record' \in Metadata /\ record'.phase = "server-removed"
                           /\ UNCHANGED <<local, server>>
                        \/ /\ cln[f].step = "unsubscribe" /\ q.step = "clear"
                           /\ local' = None /\ UNCHANGED <<record, server>>
  BY CleanupDoes DEF PushIInv
<1>3. Remembered'
  BY <1>1 DEF Remembered, PushIInv
<1>4. ASSUME q # None, Alone(cln[f])
      PROVE  Removing(q)'
  <2>1. Removing(cln[f])
    BY <1>4 DEF PushIInv
  <2>2. CASE /\ q.step = "session" /\ q.by = "disconnect" /\ UNCHANGED local
             /\ q.result = "complete" => cln[f].step = "clear" /\ record' = None
    BY <1>1, <1>2, <1>4, <2>1, <2>2 DEF Removing
  <2>3. CASE /\ record \in Metadata /\ q.sub = local /\ q.meta = record
             /\ q.step = IF record.phase = "registered" THEN "unregister"
                         ELSE IF local # None THEN "unsubscribe" ELSE "clear"
             /\ UNCHANGED <<local, record, server>>
    <3>1. record.phase \in {"registered", "server-removed"}
      BY <2>3 DEF Metadata, Phases
    <3> QED
      BY <1>1, <1>2, <1>4, <2>1, <2>3, <3>1 DEF Removing
  <2>4. CASE /\ cln[f].step = "unregister" /\ q.step = "phase"
             /\ q.meta = cln[f].meta /\ q.sub = cln[f].sub
             /\ server' = server \ {cln[f].meta.endpoint} /\ UNCHANGED <<local, record>>
    BY <1>1, <1>2, <1>4, <2>1, <2>4 DEF Removing
  <2>5. CASE /\ cln[f].step = "phase"
             /\ q.step = IF cln[f].sub # None THEN "unsubscribe" ELSE "clear"
             /\ record' \in Metadata /\ record'.phase = "server-removed"
             /\ UNCHANGED <<local, server>>
    BY <1>1, <1>2, <1>4, <2>1, <2>5 DEF Removing
  <2>6. CASE /\ cln[f].step = "unsubscribe" /\ q.step = "clear"
             /\ local' = None /\ UNCHANGED <<record, server>>
    BY <1>1, <1>2, <1>4, <2>1, <2>6 DEF Removing
  <2> QED
    BY <1>2, <1>4, <2>2, <2>3, <2>4, <2>5, <2>6
<1> QED
  BY <1>1, <1>2, <1>3, <1>4, CleanupStepKeeps

LEMMA DisconnectKeeps ==
    ASSUME PushIInv, NEW f \in Flows, DisconnectSession(f)
    PROVE  PushIInv'
<1>1. /\ PushTypes' /\ cln[f] # None /\ cln[f].step = "session" /\ CleanupIs(f, None)
      /\ UNCHANGED <<local, record, tab, pd, lastTest, reg, asked>>
      /\ done' = IF cln[f].mount # "gone" /\ SaysCleanedUp(cln[f])
                 THEN cln[f].company ELSE done
  BY CleanupTypes DEF PushIInv, CleanupStep, DisconnectSession, Cleaning, screen
<1>2. cln'[f] = None /\ \A g \in Flows : g # f => cln'[g] = cln[g]
  BY <1>1 DEF CleanupIs, PushIInv, PushTypes, TypeOK
<1>3. Remembered'
  <2>1. CASE done' = done
    BY <1>1, <1>2, <2>1 DEF PushIInv, Remembered
  <2>2. CASE done' # done /\ done' = "alone"
    <3>1. Alone(cln[f]) /\ SaysCleanedUp(cln[f]) /\ cln[f].mount # "gone"
      BY <1>1, <2>2 DEF Alone
    <3>2. Removing(cln[f]) /\ cln[f].by \in {"screen", "disconnect"}
      BY <1>1, <3>1 DEF PushIInv, PushTypes, Fit, ClnFit, Cleanups
    <3>3. tab = "devices" /\ local = None /\ record = None
      BY <1>1, <3>1, <3>2 DEF Removing, SaysCleanedUp
    <3>4. \A g \in Flows : reg[g] = None /\ (g # f => cln[g] = None)
      BY <1>1, <3>1, AloneOrNone
    <3> QED
      BY <1>1, <1>2, <3>3, <3>4 DEF Remembered
  <2> QED
    BY <2>1, <2>2 DEF Remembered
<1> QED
  BY <1>1, <1>3, CleanupStepKeeps

LEMMA StartRegistrationKeeps ==
    ASSUME PushIInv, NEW kind \in {"connect", "test"}, StartRegistration(kind)
    PROVE  PushIInv'
<1>1. /\ PushTypes' /\ pd' \in Deliveries
      /\ pd' = ReduceDelivery(Shown, "test-started")
         \/ pd' = ReduceDelivery(Shown, "connection-started")
      /\ \A f \in Flows :
           /\ reg'[f] # None /\ reg'[f].company = "alone" =>
                /\ f = NewFlow /\ InFlight = {} /\ reg'[f].step = "subscribe"
                /\ reg'[f].kind = kind /\ reg'[f].mount # "gone"
                /\ \A g \in Flows : cln'[g] = None /\ (g # f => reg'[g] = None)
           /\ cln'[f] # None => cln'[f].company = "beside"
  BY StartRegistrationDoes DEF PushIInv
<1>2. /\ tab = "notifications" /\ UNCHANGED <<tab, done, asked>>
      /\ kind = "test" => lastTest' = "test-sending"
  BY DEF StartRegistration, Mounted
<1>3. Shown \in Deliveries /\ (Shown.arrival = "current" => pd # None /\ Shown = pd)
  BY ShownTyped DEF PushIInv, PushTypes
<1>4. Remembered'
  BY <1>2 DEF PushIInv, Remembered
<1>5. asked = "alone" => pd'.arrival # "current"
  <2>1. asked = "alone" /\ Shown.arrival = "current" => Shown.serverRegistration = "complete"
    BY <1>3 DEF PushIInv, AskedAbout
  <2>2. asked = "alone" => ReduceDelivery(Shown, "test-started").arrival # "current"
    BY <1>3, <2>1, ReducedAsks
  <2>3. ReduceDelivery(Shown, "connection-started").arrival # "current"
    BY <1>3, ReducedAsks
  <2> QED
    BY <1>1, <2>2, <2>3
<1>6. AskedAbout'
  BY <1>2, <1>5 DEF AskedAbout
<1>7. ASSUME NEW f \in Flows
      PROVE  /\ Solitary(f)' /\ (Alone(reg[f]) => Replacing(reg[f]) /\ Attending(reg[f]))'
             /\ (Alone(cln[f]) => Removing(cln[f]))'
  <2>1. ~Alone(cln[f])'
    BY <1>1 DEF Alone
  <2>2. Solitary(f)'
    BY <1>1, <2>1 DEF Solitary, Alone
  <2>3. Alone(reg[f])' => Replacing(reg[f])'
    BY <1>1 DEF Alone, Replacing
  <2>4. Alone(reg[f])' => Attending(reg[f])'
    BY <1>1, <1>2, NoneIsApart DEF Alone, Attending
  <2> QED
    BY <2>1, <2>2, <2>3, <2>4
<1> QED
  BY <1>1, <1>4, <1>6, <1>7 DEF PushIInv

LEMMA StartCleanupKeeps ==
    ASSUME PushIInv, TurnPushOff \/ Disconnect
    PROVE  PushIInv'
<1>1. /\ PushTypes' /\ UNCHANGED <<world, screen, done, asked, events>>
      /\ \A f \in Flows :
           /\ reg'[f] # None => reg'[f].company = "beside"
           /\ reg[f] = None => reg'[f] = None
           /\ cln'[f] # None => f = NewFlow \/ (cln[f] # None /\ cln'[f].step = cln[f].step)
           /\ cln'[f] # None /\ cln'[f].company = "alone" =>
                /\ f = NewFlow /\ InFlight = {}
                /\ cln'[f].by = "disconnect" => tab = "devices"
                /\ cln'[f].step \in {"query", "session"}
                /\ cln'[f].by = "screen" => cln'[f].step = "query"
                /\ cln'[f].step = "session" => done = "alone"
                /\ \A g \in Flows : reg'[g] = None /\ (g # f => cln'[g] = None)
           /\ f = NewFlow /\ cln'[f] # None /\ done # None /\ Disconnect
              => cln'[f].step = "session"
  BY StartCleanupDoes DEF PushIInv
<1>2. UNCHANGED <<tab, pd, lastTest, local, record, server>>
  BY <1>1 DEF world, screen
<1>3. done = "alone" => Disconnect
  BY DEF PushIInv, Remembered, TurnPushOff, Mounted
<1>4. Remembered'
  BY <1>1, <1>2, <1>3, NoneIsApart DEF PushIInv, Remembered
<1>5. AskedAbout'
  BY <1>1, <1>2 DEF PushIInv, AskedAbout
<1>6. ASSUME NEW f \in Flows
      PROVE  /\ Solitary(f)' /\ (Alone(reg[f]) => Replacing(reg[f]) /\ Attending(reg[f]))'
             /\ (Alone(cln[f]) => Removing(cln[f]))'
  <2>1. ~Alone(reg[f])'
    BY <1>1 DEF Alone
  <2>2. Solitary(f)'
    BY <1>1, <2>1 DEF Solitary, Alone
  <2>3. Alone(cln[f])' => Removing(cln[f])'
    <3> SUFFICES ASSUME Alone(cln[f])'
                 PROVE  Removing(cln[f])'
      OBVIOUS
    <3>1. /\ cln'[f].by = "disconnect" => tab = "devices"
          /\ cln'[f].step \in {"query", "session"}
          /\ cln'[f].by = "screen" => cln'[f].step = "query"
          /\ cln'[f].step = "session" => done = "alone"
      BY <1>1 DEF Alone
    <3>2. cln'[f].step = "session" => local = None /\ record = None
      BY <3>1 DEF PushIInv, Remembered
    <3> QED
      BY <1>2, <3>1, <3>2 DEF Removing
  <2> QED
    BY <2>1, <2>2, <2>3
<1> QED
  BY <1>1, <1>4, <1>5, <1>6 DEF PushIInv

\* The page, the browser and the server leave the flows as they are.
LEMMA AroundTheFlows ==
    ASSUME PushIInv, PushTypes', UNCHANGED <<reg, cln>>, Remembered', AskedAbout',
           \A f \in Flows : /\ Alone(reg[f]) => Replacing(reg[f])' /\ Attending(reg[f])'
                            /\ Alone(cln[f]) => Removing(cln[f])'
    PROVE  PushIInv'
<1>1. ASSUME NEW f \in Flows
      PROVE  /\ Solitary(f)' /\ (Alone(reg[f]) => Replacing(reg[f]) /\ Attending(reg[f]))'
             /\ (Alone(cln[f]) => Removing(cln[f]))'
  <2>1. Solitary(f)'
    BY DEF PushIInv, Solitary, Alone
  <2>2. (Alone(reg[f])' <=> Alone(reg[f])) /\ (Alone(cln[f])' <=> Alone(cln[f]))
    BY DEF Alone
  <2> QED
    BY <2>1, <2>2
<1> QED
  BY <1>1 DEF PushIInv

LEMMA ConfirmKeeps ==
    ASSUME PushIInv, NEW arrived \in BOOLEAN, ConfirmArrival(arrived)
    PROVE  PushIInv'
<1>1. /\ UNCHANGED <<world, tab, reg, cln, done, asked>> /\ lastTest' # "error"
      /\ Shown.arrival = "current"
  BY DEF ConfirmArrival, AnswerOffered
<1>2. pd # None /\ Shown = pd /\ pd \in Deliveries /\ pd.arrival = "current"
  BY <1>1, ShownTyped DEF PushIInv, PushTypes
<1>3. PushTypes'
  BY PageTypes DEF PushIInv
<1>4. PICK event \in {"arrival-confirmed", "arrival-missing"} : pd' = ReduceDelivery(pd, event)
  BY <1>2 DEF ConfirmArrival
<1>5. pd' \in Deliveries /\ pd'.serverRegistration = pd.serverRegistration
  BY <1>2, <1>4, ReducedTyped DEF ReduceDelivery, Deliveries
<1>6. asked = "alone" => pd'.arrival # "current"
  BY <1>2, <1>4, AnsweredIsNotAsked DEF PushIInv, AskedAbout
<1>7. AskedAbout'
  BY <1>1, <1>6 DEF AskedAbout
<1>8. Remembered'
  BY <1>1 DEF PushIInv, Remembered, world
<1>9. \A f \in Flows : /\ Alone(reg[f]) => Replacing(reg[f])' /\ Attending(reg[f])'
                       /\ Alone(cln[f]) => Removing(cln[f])'
  <2> SUFFICES ASSUME NEW f \in Flows
               PROVE  /\ Alone(reg[f]) => Replacing(reg[f])' /\ Attending(reg[f])'
                      /\ Alone(cln[f]) => Removing(cln[f])'
    OBVIOUS
  <2>1. Alone(reg[f]) => Replacing(reg[f])'
    BY <1>1 DEF PushIInv, Replacing, world
  <2>2. Alone(reg[f]) => Attending(reg[f])'
    BY <1>1, <1>2, <1>5, NoneIsApart DEF PushIInv, Attending
  <2>3. Alone(cln[f]) => Removing(cln[f])'
    BY <1>1 DEF PushIInv, Removing, world
  <2> QED
    BY <2>1, <2>2, <2>3
<1> QED
  BY <1>1, <1>3, <1>7, <1>8, <1>9, AroundTheFlows

LEMMA WorldKeeps ==
    ASSUME PushIInv,
           \/ PreparePush \/ \E answer \in Reconciliations : LoadReconciliation(answer)
           \/ SubscriptionChanges \/ PermissionChanges \/ EndpointGone \/ PairAgain
    PROVE  PushIInv'
<1>1. PushTypes'
  BY PageTypes DEF PushIInv
<1>2. UNCHANGED <<record, tab, pd, lastTest, reg, cln, done, asked>>
  BY DEF PreparePush, LoadReconciliation, SubscriptionChanges, PermissionChanges, EndpointGone,
         PairAgain, world, screen
<1>3. /\ server' \subseteq server /\ (local \in server => local \in server' \/ local' # local)
      /\ local' = local \/ (local # None /\ (local' = None \/ local' = issued + 1))
         \/ local' = None
  BY DEF PreparePush, LoadReconciliation, SubscriptionChanges, PermissionChanges, EndpointGone,
         PairAgain, world
<1>4. Remembered'
  <2>1. done = "alone" => local' = None
    BY <1>3 DEF PushIInv, Remembered
  <2> QED
    BY <1>2, <2>1 DEF PushIInv, Remembered
<1>5. AskedAbout'
  BY <1>2 DEF PushIInv, AskedAbout
<1>6. ASSUME NEW f \in Flows, Alone(reg[f])
      PROVE  Replacing(reg[f])' /\ Attending(reg[f])'
  <2>1. Replacing(reg[f]) /\ Attending(reg[f]) /\ RegFit(reg[f], issued)
    BY <1>6 DEF PushIInv, PushTypes, Fit, Alone
  <2>2. reg[f].step \in {"store", "test"} /\ reg[f].sub = local' => local' \in server'
    <3>1. CASE local' = local
      BY <1>3, <2>1, <3>1 DEF Replacing
    <3>2. CASE local' = None
      BY <2>1, <3>2, NoneIsApart, PushRegistrationAssumption DEF RegFit, PushIInv, PushTypes, TypeOK
    <3>3. CASE local' = issued + 1
      BY <2>1, <3>3, PushRegistrationAssumption DEF RegFit, PushIInv, PushTypes, TypeOK
    <3> QED
      BY <1>3, <3>1, <3>2, <3>3
  <2>3. Replacing(reg[f])'
    BY <1>2, <1>3, <2>1, <2>2 DEF Replacing
  <2>4. Attending(reg[f])'
    BY <1>2, <2>1 DEF Attending
  <2> QED
    BY <2>3, <2>4
<1>7. ASSUME NEW f \in Flows, Alone(cln[f])
      PROVE  Removing(cln[f])'
  BY <1>2, <1>3, <1>7 DEF PushIInv, Removing
<1> QED
  BY <1>1, <1>2, <1>4, <1>5, <1>6, <1>7, AroundTheFlows

LEMMA SelectTabKeeps ==
    ASSUME PushIInv, SelectTab
    PROVE  PushIInv'
<1>1. /\ PushTypes' /\ pd' = None /\ done' = None
      /\ UNCHANGED <<world, setup, reconciled, lastTest, asked, flows, events>>
      /\ \A f \in Flows : reg'[f] = Detach(reg[f]) /\ cln'[f] = Detach(cln[f])
  BY SelectTabDoes DEF PushIInv
<1>2. \A f \in Flows :
        /\ reg[f] = None => reg'[f] = None
        /\ reg[f] # None => /\ reg'[f].mount = "gone" /\ reg'[f].company = reg[f].company
                            /\ reg'[f].step = reg[f].step /\ reg'[f].kind = reg[f].kind
                            /\ reg'[f].sub = reg[f].sub /\ reg'[f].old = reg[f].old
        /\ cln[f] = None => cln'[f] = None
        /\ cln[f] # None => /\ cln'[f].mount = "gone" /\ cln'[f].company = cln[f].company
                            /\ cln'[f].step = cln[f].step /\ cln'[f].by = cln[f].by
                            /\ cln'[f].sub = cln[f].sub /\ cln'[f].meta = cln[f].meta
                            /\ cln'[f].result = cln[f].result
  BY <1>1, OtherRegistration, OtherCleanup DEF PushIInv
<1>3. Remembered' /\ AskedAbout'
  BY <1>1, NoneIsApart DEF Remembered, AskedAbout
<1>4. ASSUME NEW f \in Flows
      PROVE  /\ Solitary(f)' /\ (Alone(reg[f]) => Replacing(reg[f]) /\ Attending(reg[f]))'
             /\ (Alone(cln[f]) => Removing(cln[f]))'
  <2>1. (Alone(reg[f])' => Alone(reg[f])) /\ (Alone(cln[f])' => Alone(cln[f]))
    BY <1>2 DEF Alone
  <2>2. Solitary(f)'
    BY <1>2, <2>1 DEF PushIInv, Solitary
  <2>3. Alone(reg[f])' => Replacing(reg[f])'
    <3>1. Alone(reg[f]) => Replacing(reg[f]) /\ reg[f] # None
      BY DEF PushIInv, Alone
    <3> QED
      BY <1>1, <1>2, <2>1, <3>1 DEF Replacing, world
  <2>4. Alone(reg[f])' => Attending(reg[f])'
    <3>1. Alone(reg[f]) => Attending(reg[f]) /\ reg[f] # None
      BY DEF PushIInv, Alone
    <3> QED
      BY <1>1, <1>2, <2>1, <3>1 DEF Attending
  <2>5. Alone(cln[f])' => Removing(cln[f])'
    <3>1. Alone(cln[f]) => Removing(cln[f]) /\ cln[f] # None
      BY DEF PushIInv, Alone
    <3> QED
      BY <1>1, <1>2, <2>1, <3>1 DEF Removing, world
  <2> QED
    BY <2>2, <2>3, <2>4, <2>5
<1> QED
  BY <1>1, <1>3, <1>4 DEF PushIInv

LEMMA NoFlowKeeps ==
    ASSUME PushTypes, \A f \in Flows : reg[f] = None /\ cln[f] = None, done = None, pd = None
    PROVE  PushIInv
BY NoneIsApart DEF PushIInv, Remembered, AskedAbout, Solitary, Alone

LEMMA PushReloadKeeps ==
    ASSUME PushIInv, Reload
    PROVE  PushIInv'
<1>1. PushTypes'
  BY PageTypes DEF PushIInv
<1>2. /\ \A f \in Flows : reg'[f] = None /\ cln'[f] = None
      /\ done' = None /\ pd' = None
  BY DEF Reload, NoFlow
<1> QED
  BY <1>1, <1>2, NoneIsApart DEF PushIInv, Remembered, AskedAbout, Solitary, Alone

LEMMA NextPushIInv ==
    ASSUME PushIInv, [Next]_vars
    PROVE  PushIInv'
<1>1. ASSUME NEW f \in Flows, RegistrationStep(f)
      PROVE  PushIInv'
  BY <1>1, SubscribeKeeps, PrepareKeeps, CallKeeps, StoreKeeps, SendTestKeeps
     DEF RegistrationStep
<1>2. ASSUME NEW f \in Flows, CleanupStep(f)
      PROVE  PushIInv'
  BY <1>2, CleanupKeeps, DisconnectKeeps
<1>3. CASE Next
  BY <1>1, <1>2, <1>3, StartRegistrationKeeps, StartCleanupKeeps, ConfirmKeeps, WorldKeeps,
     SelectTabKeeps, PushReloadKeeps DEF Next
<1>4. CASE UNCHANGED vars
  <2>1. UNCHANGED <<permission, local, issued, record, server, session, tab, setup, pd,
                    reconciled, lastTest, reg, cln, done, asked, flows, events>>
    BY <1>4 DEF vars, world, screen
  <2>2. PushTypes' /\ Remembered' /\ AskedAbout'
    BY <2>1 DEF PushIInv, PushTypes, TypeOK, Fit, Remembered, AskedAbout
  <2>3. \A f \in Flows : /\ Alone(reg[f]) => Replacing(reg[f])' /\ Attending(reg[f])'
                         /\ Alone(cln[f]) => Removing(cln[f])'
    BY <2>1 DEF PushIInv, Replacing, Attending, Removing
  <2> QED
    BY <2>1, <2>2, <2>3, AroundTheFlows
<1> QED
  BY <1>3, <1>4

LEMMA InitPushIInv == Init => PushIInv
<1>1. Init => \A f \in Flows : reg[f] = None /\ cln[f] = None
  BY DEF Init, NoFlow
<1> QED
  BY <1>1, InitTypes, NoFlowKeeps DEF Init

(* Whatever flows are in flight together before and after, a flow that runs  *)
(* alone finds in each of the four places what its last step left there.     *)
THEOREM PushInvariant == Spec => []PushIInv
BY InitPushIInv, NextPushIInv, PTL DEF Spec

(* The row of a subscription the screen calls registered is on the server,   *)
(* if the registration ran alone, for as long as the browser keeps it.       *)
THEOREM PushRegisteredIsOnServer == Spec => []RegisteredIsOnServer
<1>1. PushIInv => RegisteredIsOnServer
  BY DEF PushIInv, RegisteredIsOnServer, Replacing
<1> QED
  BY <1>1, PushInvariant, PTL

\* The steps that write the record, and what they write.
LEMMA RecordChanges ==
    ASSUME PushIInv, [Next]_vars, record' # record
    PROVE  \E f \in Flows :
               \/ PrepareRegistration(f) \/ ClearOldRecord(f) \/ StoreRegistration(f)
               \/ CleanupWritePhase(f) \/ CleanupClear(f)
<1>1. CASE UNCHANGED vars
  BY <1>1 DEF vars, world
<1>2. ~\E kind \in {"connect", "test"} : StartRegistration(kind)
  BY DEF StartRegistration, world
<1>3. ~(TurnPushOff \/ Disconnect)
  BY DEF TurnPushOff, Disconnect, StartCleanup, world
<1>4. ~(\/ \E arrived \in BOOLEAN : ConfirmArrival(arrived)
        \/ PreparePush \/ \E answer \in Reconciliations : LoadReconciliation(answer)
        \/ SelectTab \/ Reload \/ SubscriptionChanges \/ PermissionChanges \/ EndpointGone
        \/ PairAgain)
  BY DEF ConfirmArrival, PreparePush, LoadReconciliation, SelectTab, Reload,
         SubscriptionChanges, PermissionChanges, EndpointGone, PairAgain, world
<1>5. ASSUME NEW f \in Flows, RegistrationStep(f)
      PROVE  PrepareRegistration(f) \/ ClearOldRecord(f) \/ StoreRegistration(f)
  BY <1>5 DEF RegistrationStep, SubscribeDenied, SubscribeFails, Subscribed, RegistrationFails,
         UnregisterOld, RegisterServer, SendTest, world
<1>6. ASSUME NEW f \in Flows, CleanupStep(f)
      PROVE  CleanupWritePhase(f) \/ CleanupClear(f)
  BY <1>6 DEF CleanupStep, CleanupFails, CleanupQuery, CleanupUnregister, CleanupUnsubscribe,
         DisconnectSession, world
<1>7. ~UNCHANGED vars
  BY DEF vars, world
<1> QED
  BY <1>2, <1>3, <1>4, <1>5, <1>6, <1>7 DEF Next

LEMMA GivenUpAfterRemoval ==
    ASSUME PushIInv, [Next]_vars, \A f \in InFlight : Alone(reg[f]) \/ Alone(cln[f]),
           NEW endpoint \in Endpoints,
           record = [endpoint |-> endpoint, phase |-> "registered"], record' # record
    PROVE  endpoint \notin server
<1>1. record \in Metadata /\ record.endpoint = endpoint /\ record.phase = "registered"
  BY DEF Metadata, Phases
<1>2. PICK f \in Flows : \/ PrepareRegistration(f) \/ ClearOldRecord(f) \/ StoreRegistration(f)
                         \/ CleanupWritePhase(f) \/ CleanupClear(f)
  BY RecordChanges
<1>3. f \in InFlight => Alone(reg[f]) \/ Alone(cln[f])
  OBVIOUS
<1>4. reg[f] # None => Alone(reg[f]) /\ Replacing(reg[f])
  BY <1>3, AloneOrNone DEF InFlight, PushIInv
<1>5. cln[f] # None => Alone(cln[f]) /\ Removing(cln[f])
  BY <1>3, AloneOrNone DEF InFlight, PushIInv
<1>6. CASE PrepareRegistration(f)
  BY <1>1, <1>6, NoneIsApart DEF PrepareRegistration, Stored
<1>7. CASE ClearOldRecord(f)
  BY <1>1, <1>4, <1>7 DEF ClearOldRecord, Registering, Replacing
<1>8. CASE StoreRegistration(f)
  <2>1. record.endpoint = reg[f].sub
    BY <1>1, <1>4, <1>8, NoneIsApart DEF StoreRegistration, Registering, Replacing
  <2> QED
    BY <1>1, <1>8, <2>1 DEF StoreRegistration
<1>9. CASE CleanupWritePhase(f)
  BY <1>1, <1>5, <1>9 DEF CleanupWritePhase, Cleaning, Removing
<1>10. CASE CleanupClear(f)
  BY <1>1, <1>5, <1>10 DEF CleanupClear, Cleaning, Removing
<1> QED
  BY <1>2, <1>6, <1>7, <1>8, <1>9, <1>10

(* The record of a live registration is given up only after the server has   *)
(* dropped that registration, by every flow that has the browser to itself.  *)
THEOREM PushRecordGivenUp == Spec => RecordGivenUpAfterRemoval
<1>1. PushIInv /\ [Next]_vars =>
        [(\A f \in InFlight : Alone(reg[f]) \/ Alone(cln[f])) =>
            \A endpoint \in Endpoints :
                record = [endpoint |-> endpoint, phase |-> "registered"]
                /\ record' # record => endpoint \notin server]_vars
  BY GivenUpAfterRemoval
<1> QED
  BY <1>1, PushInvariant, PTL DEF Spec, RecordGivenUpAfterRemoval

(* A disconnect that ran alone and reports its cleanup complete, its own or   *)
(* that of an earlier attempt that ran alone, left no subscription and no     *)
(* record.                                                                   *)
THEOREM PushDisconnectReport == Spec => DisconnectReportIsTrue
<1>1. PushIInv /\ [Next]_vars =>
        [\A f \in Flows :
            Alone(cln[f]) /\ cln[f].step = "session" /\ cln'[f] = None /\ SaysCleanedUp(cln[f])
            => local = None /\ record = None]_vars
  BY DEF PushIInv, Removing, SaysCleanedUp
<1> QED
  BY <1>1, PushInvariant, PTL DEF Spec, DisconnectReportIsTrue

\* Only the user's answer is recorded as one.
LEMMA AnswersAreConfirmed ==
    ASSUME [Next]_vars, lastTest' # lastTest, lastTest' \in {"arrived", "not-arrived"}
    PROVE  \E arrived \in BOOLEAN : ConfirmArrival(arrived)
<1>1. ~UNCHANGED vars
  BY DEF vars, screen
<1>2. ~\E kind \in {"connect", "test"} : StartRegistration(kind)
  BY DEF StartRegistration
<1>3. ~(TurnPushOff \/ Disconnect)
  BY DEF TurnPushOff, Disconnect, StartCleanup, screen
<1>4. ~(\/ PreparePush \/ \E answer \in Reconciliations : LoadReconciliation(answer)
        \/ SelectTab \/ Reload \/ SubscriptionChanges \/ PermissionChanges \/ EndpointGone
        \/ PairAgain)
  BY DEF PreparePush, LoadReconciliation, SelectTab, Reload, SubscriptionChanges,
         PermissionChanges, EndpointGone, PairAgain, screen
<1>5. ASSUME NEW f \in Flows, RegistrationStep(f)
      PROVE  FALSE
  BY <1>5 DEF RegistrationStep, SubscribeDenied, SubscribeFails, Subscribed,
         PrepareRegistration, RegistrationFails, UnregisterOld, ClearOldRecord, RegisterServer,
         StoreRegistration, SendTest, EndRegistration, screen
<1>6. ASSUME NEW f \in Flows, CleanupStep(f)
      PROVE  FALSE
  BY <1>6 DEF CleanupStep, CleanupFails, CleanupQuery, CleanupUnregister, CleanupWritePhase,
         CleanupUnsubscribe, CleanupClear, DisconnectSession, EndCleanup, screen
<1> QED
  BY <1>1, <1>2, <1>3, <1>4, <1>5, <1>6 DEF Next

(* The answer about a test that ran alone is recorded for that test: nothing  *)
(* was sent after it, and the test recorded last did not fail.               *)
THEOREM PushAnswerForLastTest == Spec => AnswerIsForTheLastTest
<1>1. ASSUME PushIInv, [Next]_vars, lastTest' # lastTest, asked = "alone",
             lastTest' \in {"arrived", "not-arrived"}
      PROVE  lastTest # "error" /\ \A f \in Flows : reg[f] # None => reg[f].mount = "gone"
  <2>1. Shown.arrival = "current"
    BY <1>1, AnswersAreConfirmed DEF ConfirmArrival, AnswerOffered
  <2>2. pd # None /\ pd.arrival = "current"
    BY <1>1, <2>1, ShownTyped DEF PushIInv, PushTypes
  <2> QED
    BY <1>1, <2>2 DEF PushIInv, AskedAbout
<1>2. PushIInv /\ [Next]_vars =>
        [lastTest' # lastTest /\ lastTest' \in {"arrived", "not-arrived"} /\ asked = "alone"
         => lastTest # "error"
            /\ \A f \in Flows : reg[f] # None => reg[f].mount = "gone"]_vars
  BY <1>1
<1> QED
  BY <1>2, PushInvariant, PTL DEF Spec, AnswerIsForTheLastTest

--------------------------------------------------------------------------------
(***************************************************************************)
(* A new version of the app.                                               *)
(***************************************************************************)
\* The page waits to be reloaded only for an activation of its own, and with
\* what the user typed saved.
ReloadAwaited == listening => activation = "waiting" /\ handoff

PwaInv == UpdateTypeOK /\ ReloadAwaited /\ ReloadIsPrepared

LEMMA SnapshotTyped ==
    ASSUME NEW status \in {"idle", "installing", "ready", "activating", "failed"},
           NEW error \in {"", "install", "timeout"}
    PROVE  Snapshot(status, error) \in
               [status : {"idle", "installing", "ready", "activating", "failed"},
                error : {"", "install", "timeout"}]
BY DEF Snapshot

\* What a lifecycle event leaves is a snapshot and a worker of the browser.
LEMMA LifecycleTyped ==
    ASSUME PwaInv,
           \/ LifecycleUnchanged
           \/ \E w \in Workers \cup {NoWorker}, status \in {"idle", "installing", "ready", "failed"},
                 error \in {"", "install"} : Lifecycle(Snapshot(status, error), w)
    PROVE  /\ lifecycle' \in [status : {"idle", "installing", "ready", "activating", "failed"},
                              error : {"", "install", "timeout"}]
           /\ waitingWorker' \in Workers \cup {NoWorker}
<1>1. CASE LifecycleUnchanged
  BY <1>1 DEF LifecycleUnchanged, PwaInv, UpdateTypeOK
<1>2. ASSUME NEW w \in Workers \cup {NoWorker}, NEW status \in {"idle", "installing", "ready", "failed"},
             NEW error \in {"", "install"}, Lifecycle(Snapshot(status, error), w)
      PROVE  /\ lifecycle' \in [status : {"idle", "installing", "ready", "activating", "failed"},
                                error : {"", "install", "timeout"}]
             /\ waitingWorker' \in Workers \cup {NoWorker}
  BY <1>2, SnapshotTyped DEF Lifecycle
<1> QED
  BY <1>1, <1>2

LEMMA WaitingTyped == Waiting \in Workers \cup {NoWorker} /\ \A s : With(s) \subseteq Workers
<1>1. \A s : With(s) \subseteq Workers
  BY DEF With
<1>2. With("installed") # {} => (CHOOSE w \in With("installed") : TRUE) \in With("installed")
  OBVIOUS
<1> QED
  BY <1>1, <1>2 DEF Waiting

LEMMA ObserveTyped ==
    ASSUME PwaInv, ObserveRegistration
    PROVE  /\ registration' = "held" /\ found' \subseteq Workers
           /\ lifecycle' \in [status : {"idle", "installing", "ready", "activating", "failed"},
                              error : {"", "install", "timeout"}]
           /\ waitingWorker' \in Workers \cup {NoWorker}
<1>1. registration' = "held" /\ found' \subseteq Workers
  BY WaitingTyped DEF ObserveRegistration, PwaInv, UpdateTypeOK
<1>2. \/ LifecycleUnchanged
      \/ Lifecycle(Snapshot("ready", ""), Waiting)
      \/ Lifecycle(Snapshot("installing", ""), Waiting)
      \/ Lifecycle(Snapshot("installing", ""), waitingWorker)
  BY DEF ObserveRegistration, MarkReady
<1>3. waitingWorker \in Workers \cup {NoWorker}
  BY DEF PwaInv, UpdateTypeOK
<1> QED
  BY <1>1, <1>2, <1>3, WaitingTyped, LifecycleTyped

LEMMA FreshNoticeTyped == FreshNotice \in [registrationFailed : BOOLEAN, actionError : BOOLEAN]
BY DEF FreshNotice

\* Events of the browser's registration and of its workers.
LEMMA WorkersKeep ==
    ASSUME PwaInv,
           \/ RegistrationReady \/ RegistrationRejected
           \/ \E w \in Workers : UpdateFound(w) \/ WorkerInstalled(w) \/ WorkerFails(w)
    PROVE  PwaInv'
<1>1. CASE RegistrationReady
  BY <1>1, ObserveTyped DEF RegistrationReady, PwaInv, UpdateTypeOK, ReloadAwaited, ReloadIsPrepared
<1>2. CASE RegistrationRejected
  <2>1. notice' \in [registrationFailed : BOOLEAN, actionError : BOOLEAN]
    BY <1>2 DEF RegistrationRejected, PwaInv, UpdateTypeOK
  <2> QED
    BY <1>2, <2>1 DEF RegistrationRejected, PwaInv, UpdateTypeOK, ReloadAwaited, ReloadIsPrepared
<1>3. ASSUME NEW w \in Workers, UpdateFound(w)
      PROVE  PwaInv'
  <2>1. state' \in [Workers -> {"unknown", "installing", "installed", "activated", "redundant"}]
    BY <1>3 DEF UpdateFound, PwaInv, UpdateTypeOK
  <2>2. /\ lifecycle' \in [status : {"idle", "installing", "ready", "activating", "failed"},
                           error : {"", "install", "timeout"}]
        /\ waitingWorker' \in Workers \cup {NoWorker}
    <3>1. LifecycleUnchanged \/ Lifecycle(Snapshot("installing", ""), waitingWorker)
      BY <1>3 DEF UpdateFound
    <3>2. waitingWorker \in Workers \cup {NoWorker}
      BY DEF PwaInv, UpdateTypeOK
    <3> QED
      BY <3>1, <3>2, LifecycleTyped
  <2>3. found' \subseteq Workers
    BY <1>3 DEF UpdateFound, PwaInv, UpdateTypeOK
  <2> QED
    BY <1>3, <2>1, <2>2, <2>3
       DEF UpdateFound, PwaInv, UpdateTypeOK, ReloadAwaited, ReloadIsPrepared
<1>4. ASSUME NEW w \in Workers, WorkerInstalled(w)
      PROVE  PwaInv'
  <2>1. state' \in [Workers -> {"unknown", "installing", "installed", "activated", "redundant"}]
    <3>1. state' = [v \in Workers |-> CASE v = w -> "installed"
                                        [] state[v] = "installed" -> "redundant"
                                        [] OTHER -> state[v]]
      BY <1>4 DEF WorkerInstalled
    <3>2. \A v \in Workers : v = w => state[v] # "installed"
      BY <1>4 DEF WorkerInstalled
    <3> QED
      BY <3>1, <3>2 DEF PwaInv, UpdateTypeOK
  <2>2. /\ lifecycle' \in [status : {"idle", "installing", "ready", "activating", "failed"},
                           error : {"", "install", "timeout"}]
        /\ waitingWorker' \in Workers \cup {NoWorker}
    <3>1. \/ LifecycleUnchanged \/ Lifecycle(Snapshot("ready", ""), w)
          \/ Lifecycle(Snapshot("idle", ""), NoWorker)
      BY <1>4 DEF WorkerInstalled, MarkReady
    <3> QED
      BY <3>1, LifecycleTyped
  <2> QED
    BY <1>4, <2>1, <2>2 DEF WorkerInstalled, PwaInv, UpdateTypeOK, ReloadAwaited, ReloadIsPrepared
<1>5. ASSUME NEW w \in Workers, WorkerFails(w)
      PROVE  PwaInv'
  <2>1. state' \in [Workers -> {"unknown", "installing", "installed", "activated", "redundant"}]
    BY <1>5 DEF WorkerFails, PwaInv, UpdateTypeOK
  <2>2. /\ lifecycle' \in [status : {"idle", "installing", "ready", "activating", "failed"},
                           error : {"", "install", "timeout"}]
        /\ waitingWorker' \in Workers \cup {NoWorker}
    <3>1. LifecycleUnchanged \/ Lifecycle(Snapshot("failed", "install"), NoWorker)
      BY <1>5 DEF WorkerFails
    <3> QED
      BY <3>1, LifecycleTyped
  <2> QED
    BY <1>5, <2>1, <2>2 DEF WorkerFails, PwaInv, UpdateTypeOK, ReloadAwaited, ReloadIsPrepared
<1> QED
  BY <1>1, <1>2, <1>3, <1>4, <1>5

\* A worker takes over: the page that waits for it is loaded again, no other one.
LEMMA TakeOverKeeps ==
    ASSUME PwaInv, NEW askedFor \in BOOLEAN, TakeOver(askedFor)
    PROVE  PwaInv'
<1>1. state' \in [Workers -> {"unknown", "installing", "installed", "activated", "redundant"}]
  <2>1. state' = [v \in Workers |-> CASE v = Waiting -> "activated"
                                      [] v \in With("activated") -> "redundant"
                                      [] OTHER -> state[v]]
    BY DEF TakeOver
  <2>2. \A v \in Workers : v = Waiting /\ Waiting # NoWorker => v \notin With("activated")
    BY DEF Waiting, With
  <2> QED
    BY <2>1, <2>2 DEF TakeOver, PwaInv, UpdateTypeOK
<1>2. controlled' = TRUE
  BY DEF TakeOver
<1>3. CASE listening
  <2>1. NewPage /\ handoff' = FALSE
    BY <1>3 DEF TakeOver
  <2>2. activation = "waiting" /\ handoff
    BY <1>3 DEF PwaInv, ReloadAwaited
  <2>3. reloads' = [count |-> reloads.count + 1, prepared |-> activation = "waiting" /\ handoff]
        /\ reloads.count < MaxReloads
    BY <1>3 DEF TakeOver
  <2>4. reloads' = [count |-> reloads.count + 1, prepared |-> TRUE]
    BY <2>2, <2>3, Zenon
  <2>5. reloads.count + 1 \in 0..MaxReloads
    <3>1. reloads.count < MaxReloads
      BY DEF TakeOver
    <3>2. reloads.count \in 0..MaxReloads
      BY DEF PwaInv, UpdateTypeOK
    <3> QED
      BY <3>1, <3>2, PwaUpdateAssumption
  <2>6. reloads' \in [count : 0..MaxReloads, prepared : BOOLEAN] /\ reloads'.prepared
    BY <2>4, <2>5
  <2> QED
    BY <1>1, <1>2, <2>1, <2>6, SnapshotTyped, FreshNoticeTyped
       DEF NewPage, PwaInv, UpdateTypeOK, ReloadAwaited, ReloadIsPrepared
<1>4. CASE ~listening
  <2>1. \/ LifecycleUnchanged \/ Lifecycle(Snapshot("failed", "install"), NoWorker)
    BY <1>4 DEF TakeOver
  <2>2. /\ lifecycle' \in [status : {"idle", "installing", "ready", "activating", "failed"},
                           error : {"", "install", "timeout"}]
        /\ waitingWorker' \in Workers \cup {NoWorker}
    BY <2>1, LifecycleTyped
  <2>3. UNCHANGED <<registration, found, listening, activation, notice, retrying, handoff, reloads>>
    BY <1>4 DEF TakeOver
  <2> QED
    BY <1>1, <1>2, <2>2, <2>3 DEF PwaInv, UpdateTypeOK, ReloadAwaited, ReloadIsPrepared
<1> QED
  BY <1>3, <1>4

\* The user's buttons, and the timeout of the activation.
LEMMA ButtonsKeep ==
    ASSUME PwaInv,
           \/ ActivationTimeout \/ Retry \/ \E ok \in BOOLEAN : Activate(ok) \/ RetryEnds(ok)
    PROVE  PwaInv'
<1>0. /\ lifecycle \in [status : {"idle", "installing", "ready", "activating", "failed"},
                       error : {"", "install", "timeout"}]
      /\ activation \in {"none", "waiting"} /\ handoff \in BOOLEAN /\ listening \in BOOLEAN
      /\ ReloadAwaited /\ ReloadIsPrepared
  BY DEF PwaInv, UpdateTypeOK
<1>1. CASE ActivationTimeout
  <2>1. notice' \in [registrationFailed : BOOLEAN, actionError : BOOLEAN]
    BY <1>1 DEF ActivationTimeout, PwaInv, UpdateTypeOK
  <2> QED
    BY <1>1, <2>1, SnapshotTyped DEF ActivationTimeout, FinishActivation, PwaInv, UpdateTypeOK,
                                    ReloadAwaited, ReloadIsPrepared
<1>2. CASE Retry
  BY <1>2, ObserveTyped, FreshNoticeTyped
     DEF Retry, PwaInv, UpdateTypeOK, ReloadAwaited, ReloadIsPrepared
<1>3. ASSUME NEW preserved \in BOOLEAN, Activate(preserved)
      PROVE  PwaInv'
  <2>1. PICK error \in BOOLEAN : error = (~preserved /\ waitingWorker # NoWorker)
    OBVIOUS
  <2>2. notice' = [notice EXCEPT !.actionError = error]
    BY <1>3, <2>1, Zenon DEF Activate
  <2>3. notice' \in [registrationFailed : BOOLEAN, actionError : BOOLEAN]
    BY <2>2 DEF PwaInv, UpdateTypeOK
  <2>4. UNCHANGED <<state, controlled, registration, found, waitingWorker, retrying, reloads>>
    BY <1>3 DEF Activate
  <2>5. \/ /\ lifecycle' = lifecycle /\ activation' = activation
           /\ listening' = listening /\ handoff' = handoff
        \/ /\ lifecycle' = Snapshot("activating", "")
           /\ activation' = "waiting" /\ listening' = TRUE /\ handoff' = TRUE
    BY <1>3 DEF Activate
  <2>6. lifecycle' \in [status : {"idle", "installing", "ready", "activating", "failed"},
                        error : {"", "install", "timeout"}]
    <3>1. CASE lifecycle' = lifecycle
      BY <1>0, <3>1
    <3>2. Snapshot("activating", "")
             \in [status : {"idle", "installing", "ready", "activating", "failed"},
                  error : {"", "install", "timeout"}]
      BY SnapshotTyped
    <3>3. CASE lifecycle' = Snapshot("activating", "")
      BY <3>2, <3>3
    <3> QED
      BY <2>5, <3>1, <3>3
  <2>7. /\ listening' \in BOOLEAN /\ handoff' \in BOOLEAN /\ activation' \in {"none", "waiting"}
        /\ ReloadAwaited'
    <3>1. CASE /\ activation' = activation /\ listening' = listening /\ handoff' = handoff
      BY <1>0, <3>1 DEF ReloadAwaited
    <3>2. CASE /\ activation' = "waiting" /\ listening' = TRUE /\ handoff' = TRUE
      BY <3>2 DEF ReloadAwaited
    <3> QED
      BY <2>5, <3>1, <3>2
  <2>8. /\ state' = state /\ controlled' = controlled /\ registration' = registration
        /\ found' = found /\ waitingWorker' = waitingWorker /\ retrying' = retrying
        /\ reloads' = reloads
    BY <2>4
  <2> QED
    BY <1>0, <2>3, <2>6, <2>7, <2>8 DEF PwaInv, UpdateTypeOK, ReloadIsPrepared
<1>4. ASSUME NEW failed \in BOOLEAN, RetryEnds(failed)
      PROVE  PwaInv'
  <2>1. notice' \in [registrationFailed : BOOLEAN, actionError : BOOLEAN]
    BY <1>4 DEF RetryEnds, PwaInv, UpdateTypeOK
  <2> QED
    BY <1>4, <2>1 DEF RetryEnds, PwaInv, UpdateTypeOK, ReloadAwaited, ReloadIsPrepared
<1> QED
  BY <1>1, <1>2, <1>3, <1>4

LEMMA NextPwaInv ==
    ASSUME PwaInv, [UpdateNext]_updateVars
    PROVE  PwaInv'
<1>1. CASE UpdateNext
  BY <1>1, WorkersKeep, TakeOverKeeps, ButtonsKeep DEF UpdateNext
<1>2. CASE UNCHANGED updateVars
  <2>1. UpdateTypeOK'
    <3>1. /\ state' = state /\ controlled' = controlled /\ listening' = listening
          /\ retrying' = retrying /\ registration' = registration /\ found' = found
          /\ lifecycle' = lifecycle /\ waitingWorker' = waitingWorker
          /\ activation' = activation /\ notice' = notice /\ handoff' = handoff
          /\ reloads' = reloads
      BY <1>2 DEF updateVars
    <3>2. UpdateTypeOK
      BY DEF PwaInv
    <3>3. state' \in [Workers -> {"unknown", "installing", "installed", "activated", "redundant"}]
      BY <3>1, <3>2 DEF UpdateTypeOK
    <3>4. lifecycle' \in [status : {"idle", "installing", "ready", "activating", "failed"},
                          error : {"", "install", "timeout"}]
      BY <3>1, <3>2 DEF UpdateTypeOK
    <3>5. /\ notice' \in [registrationFailed : BOOLEAN, actionError : BOOLEAN]
          /\ reloads' \in [count : 0..MaxReloads, prepared : BOOLEAN]
      BY <3>1, <3>2 DEF UpdateTypeOK
    <3>6. /\ controlled' \in BOOLEAN /\ listening' \in BOOLEAN /\ retrying' \in BOOLEAN
          /\ handoff' \in BOOLEAN
      BY <3>1, <3>2 DEF UpdateTypeOK
    <3>7. /\ registration' \in {"asked", "held", "failed"} /\ found' \subseteq Workers
          /\ waitingWorker' \in Workers \cup {NoWorker} /\ activation' \in {"none", "waiting"}
      BY <3>1, <3>2 DEF UpdateTypeOK
    <3> QED
      BY <3>3, <3>4, <3>5, <3>6, <3>7 DEF UpdateTypeOK
  <2>2. ReloadAwaited' /\ ReloadIsPrepared'
    BY <1>2 DEF updateVars, PwaInv, ReloadAwaited, ReloadIsPrepared
  <2> QED
    BY <2>1, <2>2 DEF PwaInv
<1> QED
  BY <1>1, <1>2

LEMMA InitPwaInv == UpdateInit => PwaInv
<1> SUFFICES ASSUME UpdateInit PROVE PwaInv
  OBVIOUS
<1>1. state \in [Workers -> {"unknown", "installing", "installed", "activated", "redundant"}]
  BY DEF UpdateInit
<1>2. controlled \in BOOLEAN
  BY DEF UpdateInit
<1>3. reloads \in [count : 0..MaxReloads, prepared : BOOLEAN] /\ reloads.prepared
  BY PwaUpdateAssumption DEF UpdateInit
<1> QED
  BY <1>1, <1>2, <1>3, SnapshotTyped, FreshNoticeTyped
     DEF UpdateInit, PageStart, PwaInv, UpdateTypeOK, ReloadAwaited, ReloadIsPrepared

(* The types of the update of the web app, for any workers and reloads.      *)
THEOREM PwaUpdateTypes == UpdateSpec => []UpdateTypeOK
<1>1. PwaInv => UpdateTypeOK
  BY DEF PwaInv
<1> QED
  BY <1>1, InitPwaInv, NextPwaInv, PTL DEF UpdateSpec

(* A page is loaded again only by an activation that its user asked for and  *)
(* that has not timed out, after what was typed had been saved, whatever     *)
(* workers another page lets take over.                                      *)
THEOREM PwaReloadPrepared == UpdateSpec => []ReloadIsPrepared
<1>1. PwaInv => ReloadIsPrepared
  BY DEF PwaInv
<1> QED
  BY <1>1, InitPwaInv, NextPwaInv, PTL DEF UpdateSpec

-----------------------------------------------------------------------------
(* The preference forms: every change of the settings has a version, and    *)
(* what holds settings holds those that were stored under their version.    *)

\* A draft is the page's, over loaded settings.
PageHolds ==
    /\ draft # None => known # None
    /\ ~open => draft = None

\* The input kept for a reload is in the session storage, and on screen once the settings
\* it was made over are loaded, as long as no save of an earlier page has removed it.
KeptIsStored ==
    form = "meals" /\ kept # None =>
        /\ open
        /\ ~kept.cleared =>
              /\ stored # None
              /\ stored.base.version = kept.version /\ stored.value = kept.value
              /\ known # None =>
                    draft # None /\ draft.value = kept.value /\ known.version = kept.version

\* Whatever holds settings holds those that were stored under their version.
FromHistory(entry, past) == entry.version <= store.version /\ entry.value = past[entry.version]
OneHistory(past) ==
    /\ FromHistory(store, past)
    /\ known # None => FromHistory(known, past)
    /\ reading.step = "answered" => FromHistory(reading.answer, past)
    /\ \A s \in Slots : saves[s].step = "answered" => FromHistory(saves[s].value, past)
    /\ stored # None => FromHistory(stored.base, past)

FormInv ==
    /\ FormTypeOK /\ PageHolds /\ MealDraftOverCurrent /\ KeptIsStored
    /\ \E past \in [Nat -> Values] : OneHistory(past)

\* What the assumption gives.
LEMMA NoEntry ==
    /\ MaxVersion \in Nat /\ MaxSaves \in Nat
    /\ None \notin Values /\ None \notin Entries /\ None \notin Drafts /\ None \notin Inputs
BY PreferenceFormsAssumption

\* An entry made of a value and a version, and an entry taken apart.
LEMMA EntryMade ==
    ASSUME NEW value \in Values, NEW version \in 0..MaxVersion
    PROVE  /\ Entry(value, version) \in Entries /\ Entry(value, version) # None
           /\ Entry(value, version).value = value /\ Entry(value, version).version = version
BY NoEntry DEF Entry, Entries

LEMMA EntryParts ==
    ASSUME NEW entry \in Entries
    PROVE  /\ entry.value \in Values /\ entry.version \in 0..MaxVersion /\ entry.version \in Nat
           /\ entry # None
           /\ \A other \in Entries :
                 entry.value = other.value /\ entry.version = other.version => entry = other
BY NoEntry DEF Entries

\* A stored draft.
LEMMA DraftMade ==
    ASSUME NEW base \in Entries, NEW value \in Values, NEW made,
           made = [base |-> base, value |-> value]
    PROVE  made \in Drafts /\ made # None /\ made.base = base /\ made.value = value
BY NoEntry DEF Drafts

\* A control changes one field of a value.
LEMMA ChangedIsValue ==
    ASSUME NEW value \in Values, NEW field \in {"enabled", "detail"}
    PROVE  Changed(value, field) \in Values
<1>1. PICK on \in BOOLEAN : on = ~value.enabled
  OBVIOUS
<1>2. PICK choice \in BOOLEAN : choice = ~value.detail
  OBVIOUS
<1>3. CASE field = "enabled"
  <2>1. Changed(value, field) = [value EXCEPT !.enabled = on]
    BY <1>1, <1>3, Zenon DEF Changed
  <2> QED
    BY <2>1 DEF Values
<1>4. CASE field = "detail"
  <2>1. Changed(value, field) = [value EXCEPT !.detail = choice]
    BY <1>2, <1>4 DEF Changed
  <2> QED
    BY <2>1 DEF Values
<1> QED
  BY <1>3, <1>4

\* What a saving request is at each of its steps.
LEMMA SaveSteps ==
    ASSUME NEW save \in Saves
    PROVE  /\ save.step \in {"none", "sent", "failed", "answered"} /\ save.owned \in BOOLEAN
           /\ save.step = "none" => save = NoSave
           /\ save.step = "sent" => save.value \in Values
           /\ save.step = "answered" => save.value \in Entries
           /\ save = [step |-> save.step, value |-> save.value, owned |-> save.owned]
<1>1. CASE save = NoSave
  BY <1>1 DEF NoSave
<1>2. CASE save \in [step : {"sent"}, value : Values, owned : BOOLEAN]
  BY <1>2
<1>3. CASE save \in [step : {"answered"}, value : Entries, owned : BOOLEAN]
  BY <1>3
<1>4. CASE save \in [step : {"failed"}, value : {None}, owned : BOOLEAN]
  BY <1>4
<1> QED
  BY <1>1, <1>2, <1>3, <1>4 DEF Saves

\* A save made of its parts.
LEMMA SaveMade ==
    ASSUME NEW owned \in BOOLEAN, NEW step, NEW value, NEW made,
           made = [step |-> step, value |-> value, owned |-> owned],
           \/ step = "sent" /\ value \in Values
           \/ step = "failed" /\ value = None
           \/ step = "answered" /\ value \in Entries
    PROVE  made \in Saves /\ made.step = step /\ made.value = value
BY DEF Saves

\* One save becomes another, or none.
LEMMA SaveMoves ==
    ASSUME FormInv, NEW s \in Slots, NEW save \in Saves, saves' = [saves EXCEPT ![s] = save]
    PROVE  /\ saves' \in [Slots -> Saves] /\ saves'[s] = save
           /\ \A r \in Slots : r # s => saves'[r] = saves[r]
BY DEF FormInv, FormTypeOK

LEMMA NoSaveIsSave == NoSave \in Saves /\ NoSave.step = "none"
BY DEF Saves, NoSave

LEMMA ReadingSteps ==
    ASSUME reading \in Readings
    PROVE  /\ reading.step \in {"none", "asked", "answered"}
           /\ reading.step = "answered" => reading.answer \in Entries
BY DEF Readings

\* The requests of the query.
LEMMA ReadingMade ==
    /\ ReadAsked \in Readings /\ ReadAsked.step = "asked"
    /\ NotReading \in Readings /\ NotReading.step = "none"
    /\ \A entry \in Entries : [step |-> "answered", answer |-> entry] \in Readings
BY DEF Readings, ReadAsked, NotReading

\* The facts of the invariant, one by one.
LEMMA FormFacts ==
    ASSUME FormInv
    PROVE  /\ form \in {"meals", "attendance", "settings"} /\ store \in Entries
           /\ open \in BOOLEAN /\ loadFailed \in BOOLEAN
           /\ known \in Entries \union {None} /\ draft \in Entries \union {None}
           /\ kept \in Inputs \union {None} /\ stored \in Drafts \union {None}
           /\ reading \in Readings /\ saves \in [Slots -> Saves]
           /\ saved \in {"none", "saved", "failed"} /\ reload \in {"none", "prepared"}
           /\ PageHolds /\ MealDraftOverCurrent /\ KeptIsStored
BY DEF FormInv, FormTypeOK

\* A step that leaves the store alone keeps the history if every entry it leaves behind was
\* held before.
LEMMA HistoryStands ==
    ASSUME FormInv, store' = store,
           known' # None => \/ known # None /\ known' = known
                            \/ reading.step = "answered" /\ known' = reading.answer
                            \/ \E s \in Slots :
                                  saves[s].step = "answered" /\ known' = saves[s].value,
           reading'.step = "answered" => \/ reading' = reading
                                         \/ reading'.answer = store,
           \A s \in Slots : saves'[s].step = "answered" =>
                               saves[s].step = "answered" /\ saves'[s].value = saves[s].value,
           stored' # None => \/ stored # None /\ stored'.base = stored.base
                             \/ known # None /\ stored'.base = known
    PROVE  \E past \in [Nat -> Values] : OneHistory(past)'
<1>1. PICK past \in [Nat -> Values] : OneHistory(past)
  BY DEF FormInv
<1>2. OneHistory(past)'
  BY <1>1 DEF OneHistory, FromHistory
<1> QED
  BY <1>2

\* A change of the store begins a new version, which nothing held yet.
LEMMA HistoryGrows ==
    ASSUME FormInv, NEW value \in Values, store.version < MaxVersion,
           store' = Entry(value, store.version + 1),
           known' = known, reading' = reading, stored' = stored,
           \A s \in Slots : saves'[s].step = "answered" =>
                               \/ saves[s].step = "answered" /\ saves'[s].value = saves[s].value
                               \/ saves'[s].value = store'
    PROVE  \E past \in [Nat -> Values] : OneHistory(past)'
<1>1. PICK past \in [Nat -> Values] : OneHistory(past)
  BY DEF FormInv
<1>2. /\ store.version \in Nat /\ store'.version = store.version + 1 /\ store'.value = value
  BY FormFacts, EntryParts, EntryMade, NoEntry
<1>3. PICK next : next = [past EXCEPT ![store.version + 1] = value]
  OBVIOUS
<1>4. next \in [Nat -> Values] /\ next[store.version + 1] = value
  BY <1>2, <1>3
<1>5. ASSUME NEW entry \in Entries, FromHistory(entry, past)
      PROVE  entry.version <= store'.version /\ entry.value = next[entry.version]
  BY <1>2, <1>3, <1>5, EntryParts DEF FromHistory
<1>6. /\ store \in Entries
      /\ known # None => known \in Entries
      /\ reading.step = "answered" => reading.answer \in Entries
      /\ \A s \in Slots : saves[s].step = "answered" => saves[s].value \in Entries
      /\ stored # None => stored.base \in Entries
  BY FormFacts, ReadingSteps, SaveSteps DEF Drafts
<1>7. store'.version <= store'.version /\ store'.value = next[store'.version]
  BY <1>2, <1>4
<1>8. known' # None => known'.version <= store'.version /\ known'.value = next[known'.version]
  BY <1>1, <1>5, <1>6 DEF OneHistory
<1>9. reading'.step = "answered" =>
        /\ reading'.answer.version <= store'.version
        /\ reading'.answer.value = next[reading'.answer.version]
  BY <1>1, <1>5, <1>6 DEF OneHistory
<1>10. stored' # None =>
        /\ stored'.base.version <= store'.version
        /\ stored'.base.value = next[stored'.base.version]
  BY <1>1, <1>5, <1>6 DEF OneHistory
<1>11. ASSUME NEW s \in Slots, saves'[s].step = "answered"
       PROVE  /\ saves'[s].value.version <= store'.version
              /\ saves'[s].value.value = next[saves'[s].value.version]
  <2>1. CASE saves[s].step = "answered" /\ saves'[s].value = saves[s].value
    BY <1>1, <1>5, <1>6, <2>1 DEF OneHistory
  <2>2. CASE saves'[s].value = store'
    BY <1>7, <2>2
  <2> QED
    BY <1>11, <2>1, <2>2
<1>12. OneHistory(next)'
  BY <1>7, <1>8, <1>9, <1>10, <1>11 DEF OneHistory, FromHistory
<1> QED
  BY <1>4, <1>12

\* The query's steps that take nothing over, and the end of a reload not made.
LEMMA ReadingKeeps ==
    ASSUME FormInv, Refetch \/ Answer \/ LoadFails \/ ReloadGivenUp
    PROVE  FormInv'
<1>1. /\ form' = form /\ store' = store /\ open' = open /\ known' = known /\ draft' = draft
      /\ saves' = saves /\ saved' = saved /\ stored' = stored
      /\ kept' = kept \/ kept' = None
      /\ reload' = reload \/ reload' = "none"
      /\ loadFailed' = loadFailed \/ loadFailed' = TRUE
      /\ \/ reading' = reading \/ reading' = ReadAsked \/ reading' = NotReading
         \/ reading' = [step |-> "answered", answer |-> store]
  BY DEF Refetch, Answer, LoadFails, ReloadGivenUp
<1>2. reading' \in Readings /\ (reading'.step = "answered" => reading' = reading
                                                             \/ reading'.answer = store)
  BY <1>1, FormFacts, ReadingMade
<1>3. FormTypeOK'
  BY <1>1, <1>2, FormFacts DEF FormTypeOK
<1>4. PageHolds' /\ MealDraftOverCurrent'
  BY <1>1, FormFacts DEF PageHolds, MealDraftOverCurrent
<1>5. KeptIsStored'
  BY <1>1, FormFacts DEF KeptIsStored
<1>6. \E past \in [Nat -> Values] : OneHistory(past)'
  BY <1>1, <1>2, HistoryStands
<1> QED
  BY <1>3, <1>4, <1>5, <1>6 DEF FormInv

\* What the editor begins with: its draft is over the loaded preferences, and a stored one
\* comes back or is thrown away.
LEMMA EditorBegins ==
    ASSUME FormInv, NEW data \in Entries, EditorMounts(data)
    PROVE  /\ draft' \in Entries \union {None} /\ stored' \in Drafts \union {None}
           /\ stored' # None => stored' = stored
           /\ form # "meals" => draft' = draft
           /\ form = "meals" => draft' # None
           /\ form = "meals" /\ EditorAnew(data) =>
                 /\ draft'.version = data.version
                 /\ stored # None /\ stored.base = data =>
                       stored' = stored /\ draft'.value = stored.value
           /\ form = "meals" /\ ~EditorAnew(data) => draft' = draft /\ stored' = stored
<1>1. /\ draft \in Entries \union {None} /\ stored \in Drafts \union {None}
      /\ data.version \in 0..MaxVersion /\ data # None
  BY FormFacts, EntryParts
<1>2. CASE form = "meals" /\ EditorAnew(data)
  <2>1. draft' = ReadDraft(data) /\ stored' = StoredAfterRead(data)
    BY <1>2 DEF EditorMounts
  <2>2. CASE stored # None /\ stored.base = data
    <3>1. stored.value \in Values
      BY <1>1, <2>2 DEF Drafts
    <3>2. draft' = Entry(stored.value, data.version) /\ stored' = stored
      BY <2>1, <2>2 DEF ReadDraft, StoredAfterRead
    <3> QED
      BY <1>1, <1>2, <2>2, <3>1, <3>2, EntryMade
  <2>3. CASE ~(stored # None /\ stored.base = data)
    <3>1. draft' = data /\ stored' = None
      BY <2>1, <2>3 DEF ReadDraft, StoredAfterRead
    <3> QED
      BY <1>1, <1>2, <2>3, <3>1
  <2> QED
    BY <2>2, <2>3
<1>3. CASE ~(form = "meals" /\ EditorAnew(data))
  <2>1. draft' = draft /\ stored' = stored
    BY <1>3 DEF EditorMounts
  <2>2. form = "meals" => draft # None
    BY <1>3 DEF EditorAnew
  <2> QED
    BY <1>1, <1>3, <2>1, <2>2
<1> QED
  BY <1>2, <1>3

\* An answer taken over: the kept input stands if the answer has its version, and then the
\* stored draft was made over just this answer.
LEMMA ValueLoadedKeeps ==
    ASSUME FormInv, ValueLoaded
    PROVE  FormInv'
<1>0. /\ form \in {"meals", "attendance", "settings"} /\ open \in BOOLEAN
      /\ known \in Entries \union {None} /\ draft \in Entries \union {None}
      /\ kept \in Inputs \union {None} /\ stored \in Drafts \union {None}
      /\ PageHolds /\ MealDraftOverCurrent /\ KeptIsStored
  BY FormFacts
<1>1. /\ form' = form /\ store' = store /\ open' = open /\ saves' = saves /\ saved' = saved
      /\ reload' = reload /\ known' = reading.answer /\ loadFailed' = FALSE
      /\ reading' = NotReading /\ reading.step = "answered"
      /\ kept' = IF kept = None THEN None
                 ELSE IF kept.version = reading.answer.version THEN kept ELSE None
  BY DEF ValueLoaded
<1>2. PICK answer \in Entries : answer = reading.answer
  BY <1>1, FormFacts, ReadingSteps
<1>3. answer # None /\ kept' \in {kept, None} /\ reading'.step = "none" /\ reading' \in Readings
  BY <1>1, <1>2, EntryParts, ReadingMade
<1>4. CASE ~open
  <2>1. draft' = draft /\ stored' = stored
    BY <1>4 DEF ValueLoaded
  <2>2. kept' = None \/ form # "meals"
    BY <1>0, <1>3, <1>4 DEF KeptIsStored
  <2>3. FormTypeOK'
    BY <1>0, <1>1, <1>2, <1>3, <2>1, FormFacts DEF FormTypeOK
  <2>4. PageHolds' /\ MealDraftOverCurrent' /\ KeptIsStored'
    BY <1>0, <1>1, <1>4, <2>1, <2>2 DEF PageHolds, MealDraftOverCurrent, KeptIsStored
  <2>5. \E past \in [Nat -> Values] : OneHistory(past)'
    BY <1>1, <1>3, <2>1, HistoryStands
  <2> QED
    BY <2>3, <2>4, <2>5 DEF FormInv
<1>5. CASE open
  <2>1. EditorMounts(answer)
    BY <1>2, <1>5 DEF ValueLoaded
  <2>2. /\ draft' \in Entries \union {None} /\ stored' \in Drafts \union {None}
        /\ stored' # None => stored' = stored
        /\ form # "meals" => draft' = draft
        /\ form = "meals" => draft' # None
        /\ form = "meals" /\ EditorAnew(answer) =>
              /\ draft'.version = answer.version
              /\ stored # None /\ stored.base = answer =>
                    stored' = stored /\ draft'.value = stored.value
        /\ form = "meals" /\ ~EditorAnew(answer) => draft' = draft /\ stored' = stored
    BY <2>1, EditorBegins
  <2>3. FormTypeOK'
    BY <1>0, <1>1, <1>2, <1>3, <2>2, FormFacts DEF FormTypeOK
  <2>4. PageHolds'
    BY <1>0, <1>1, <1>2, <1>3, <1>5 DEF PageHolds
  <2>5. form = "meals" /\ ~EditorAnew(answer) =>
          draft # None /\ known # None /\ draft.version = known.version
          /\ known.version = answer.version
    BY <1>0, <1>5 DEF EditorAnew, PageHolds, MealDraftOverCurrent
  <2>6. MealDraftOverCurrent'
    BY <1>1, <1>2, <2>2, <2>5 DEF MealDraftOverCurrent
  <2>7. KeptIsStored'
    <3> SUFFICES ASSUME form = "meals", kept' # None, ~kept'.cleared
                 PROVE  /\ stored' # None
                        /\ stored'.base.version = kept'.version /\ stored'.value = kept'.value
                        /\ draft' # None /\ draft'.value = kept'.value
                        /\ answer.version = kept'.version
      BY <1>1, <1>2, <1>5 DEF KeptIsStored
    <3>1. kept' = kept /\ kept # None /\ ~kept.cleared /\ kept.version = answer.version
      BY <1>1, <1>2
    <3>2. /\ stored # None /\ stored.base.version = kept.version /\ stored.value = kept.value
          /\ known # None => draft # None /\ draft.value = kept.value
      BY <1>0, <3>1 DEF KeptIsStored
    <3>3. stored.base = answer
      <4>1. PICK past \in [Nat -> Values] : OneHistory(past)
        BY DEF FormInv
      <4>2. stored.base.value = past[stored.base.version] /\ answer.value = past[answer.version]
        BY <1>1, <1>2, <3>2, <4>1 DEF OneHistory, FromHistory
      <4>3. stored.base \in Entries
        BY <1>0, <3>2 DEF Drafts
      <4> QED
        BY <3>1, <3>2, <4>2, <4>3, EntryParts
    <3> QED
      BY <2>2, <2>5, <3>1, <3>2, <3>3
  <2>8. \E past \in [Nat -> Values] : OneHistory(past)'
    BY <1>1, <1>3, <2>2, HistoryStands
  <2> QED
    BY <2>3, <2>4, <2>6, <2>7, <2>8 DEF FormInv
<1> QED
  BY <1>0, <1>4, <1>5

\* The page shown again begins its editor over what the query still holds.
LEMMA ReturnKeeps ==
    ASSUME FormInv, Return
    PROVE  FormInv'
<1>0. /\ form \in {"meals", "attendance", "settings"} /\ ~open
      /\ known \in Entries \union {None} /\ draft = None
      /\ kept \in Inputs \union {None} /\ stored \in Drafts \union {None}
      /\ PageHolds /\ MealDraftOverCurrent /\ KeptIsStored
  BY FormFacts DEF Return, PageHolds
<1>1. /\ form' = form /\ store' = store /\ open' = TRUE /\ saves' = saves /\ saved' = saved
      /\ reload' = reload /\ known' = known /\ loadFailed' = loadFailed /\ kept' = kept
      /\ reading' = IF reading.step = "none" THEN ReadAsked ELSE reading
      /\ IF known # None THEN EditorMounts(known) ELSE UNCHANGED <<draft, stored>>
  BY DEF Return
<1>2. reading' \in Readings /\ (reading'.step = "answered" => reading' = reading)
  BY <1>1, FormFacts, ReadingMade
<1>3. form = "meals" => kept = None
  BY <1>0 DEF KeptIsStored
<1>4. /\ draft' \in Entries \union {None} /\ stored' \in Drafts \union {None}
      /\ stored' # None => stored' = stored
      /\ known = None => draft' = None
      /\ form = "meals" /\ known # None => draft' # None /\ draft'.version = known.version
  BY <1>0, <1>1, EditorBegins DEF EditorAnew
<1>5. FormTypeOK'
  BY <1>0, <1>1, <1>2, <1>4, FormFacts DEF FormTypeOK
<1>6. PageHolds' /\ MealDraftOverCurrent' /\ KeptIsStored'
  BY <1>0, <1>1, <1>3, <1>4 DEF PageHolds, MealDraftOverCurrent, KeptIsStored
<1>7. \E past \in [Nat -> Values] : OneHistory(past)'
  BY <1>1, <1>2, <1>4, HistoryStands
<1> QED
  BY <1>5, <1>6, <1>7 DEF FormInv

\* An edit drops the input kept for a reload.
LEMMA EditKeeps ==
    ASSUME FormInv, NEW field \in {"enabled", "detail"}, Edit(field)
    PROVE  FormInv'
<1>0. /\ form \in {"meals", "attendance", "settings"} /\ open
      /\ known \in Entries /\ draft \in Entries \union {None} /\ MealDraftOverCurrent
      /\ saved \in {"none", "saved", "failed"}
  BY FormFacts DEF Edit, Editable, Content
<1>1. /\ form' = form /\ store' = store /\ open' = open /\ known' = known
      /\ loadFailed' = loadFailed /\ reading' = reading /\ saves' = saves /\ stored' = stored
      /\ reload' = reload /\ kept' = None
      /\ saved' = IF form = "meals" THEN "none" ELSE saved
      /\ draft' = Entry(Changed(CurrentInput, field),
                        IF draft # None THEN draft.version ELSE known.version)
  BY DEF Edit
<1>2. CurrentInput \in Values
  BY <1>0, EntryParts DEF CurrentInput
<1>3. PICK value \in Values : value = Changed(CurrentInput, field)
  BY <1>2, ChangedIsValue
<1>4. PICK version \in 0..MaxVersion :
        version = IF draft # None THEN draft.version ELSE known.version
  BY <1>0, EntryParts
<1>5. draft' \in Entries /\ draft' # None /\ draft'.version = version
  BY <1>1, <1>3, <1>4, EntryMade
<1>6. FormTypeOK'
  BY <1>0, <1>1, <1>5, FormFacts DEF FormTypeOK
<1>7. known # None
  BY <1>0, EntryParts
<1>8. PageHolds' /\ MealDraftOverCurrent' /\ KeptIsStored'
  BY <1>0, <1>1, <1>4, <1>5, <1>7 DEF PageHolds, MealDraftOverCurrent, KeptIsStored
<1>9. \E past \in [Nat -> Values] : OneHistory(past)'
  BY <1>1, HistoryStands
<1> QED
  BY <1>6, <1>8, <1>9 DEF FormInv

\* A save is sent: of a draft, or of the loaded settings with one switch changed.
LEMMA SendKeeps ==
    ASSUME FormInv, SaveDraft \/ Toggle
    PROVE  FormInv'
<1>0. /\ form \in {"meals", "attendance", "settings"} /\ open
      /\ known \in Entries /\ draft \in Entries \union {None}
      /\ saved \in {"none", "saved", "failed"}
  BY FormFacts DEF SaveDraft, Toggle, Editable, Content
<1>1. PICK value \in Values : Send(value)
  <2>1. CASE SaveDraft
    <3>1. draft # None /\ draft \in Entries
      BY <1>0, <2>1 DEF SaveDraft, Dirty
    <3>2. draft.value \in Values /\ draft.value.detail \in BOOLEAN /\ known.value \in Values
      BY <1>0, <3>1, EntryParts DEF Values
    <3>3. [known.value EXCEPT !.detail = draft.value.detail] \in Values
      BY <3>2 DEF Values
    <3> QED
      BY <2>1, <3>2, <3>3 DEF SaveDraft
  <2>2. CASE Toggle
    <3>1. known.value \in Values
      BY <1>0, EntryParts
    <3> QED
      BY <2>2, <3>1, ChangedIsValue DEF Toggle
  <2> QED
    BY <2>1, <2>2
<1>2. /\ form' = form /\ store' = store /\ open' = open /\ known' = known
      /\ loadFailed' = loadFailed /\ reading' = reading /\ draft' = draft /\ stored' = stored
      /\ reload' = reload /\ kept' = None
      /\ saved' = IF form = "meals" THEN saved ELSE "none"
  BY <1>1 DEF Send
<1>3. /\ saves' \in [Slots -> Saves]
      /\ \A r \in Slots : saves'[r].step = "answered" => saves'[r] = saves[r]
  <2>1. PICK s \in Slots :
           saves' = [saves EXCEPT ![s] = [step |-> "sent", value |-> value, owned |-> TRUE]]
    BY <1>1 DEF Send
  <2>2. PICK made : made = [step |-> "sent", value |-> value, owned |-> TRUE]
    OBVIOUS
  <2>3. made \in Saves /\ made.step = "sent"
    BY <2>2 DEF Saves
  <2>4. /\ saves' \in [Slots -> Saves] /\ saves'[s] = made
        /\ \A r \in Slots : r # s => saves'[r] = saves[r]
    BY <2>1, <2>2, <2>3, SaveMoves
  <2> QED
    BY <2>3, <2>4
<1>4. FormTypeOK'
  BY <1>0, <1>2, <1>3, FormFacts DEF FormTypeOK
<1>5. PageHolds' /\ MealDraftOverCurrent' /\ KeptIsStored'
  BY <1>2, FormFacts DEF PageHolds, MealDraftOverCurrent, KeptIsStored
<1>6. \E past \in [Nat -> Values] : OneHistory(past)'
  BY <1>2, <1>3, HistoryStands
<1> QED
  BY <1>4, <1>5, <1>6 DEF FormInv

\* The store takes a save or another change, or refuses.
LEMMA SettingsKeep ==
    ASSUME FormInv,
           \/ \E s \in Slots, lost \in BOOLEAN : StoreSaves(s, lost)
           \/ \E s \in Slots : SaveRefused(s)
           \/ \E value \in Values : OtherChange(value)
    PROVE  FormInv'
<1>1. /\ form' = form /\ open' = open /\ known' = known /\ loadFailed' = loadFailed
      /\ reading' = reading /\ draft' = draft /\ saved' = saved /\ stored' = stored
      /\ reload' = reload /\ kept' = kept
  BY DEF StoreSaves, SaveRefused, OtherChange
<1>2. store.version \in Nat /\ store.version \in 0..MaxVersion /\ saves \in [Slots -> Saves]
  BY FormFacts, EntryParts
<1>3. ASSUME NEW s \in Slots, NEW failed, failed = SaveLost(s)
      PROVE  failed \in Saves /\ failed.step = "failed"
  <2>1. PICK save \in Saves : save = saves[s]
    BY <1>2
  <2>2. save = [step |-> save.step, value |-> save.value, owned |-> save.owned]
        /\ save.owned \in BOOLEAN
    BY SaveSteps
  <2>3. failed = [save EXCEPT !.step = "failed", !.value = None]
    BY <1>3, <2>1 DEF SaveLost
  <2>4. failed = [step |-> "failed", value |-> None, owned |-> save.owned]
    BY <2>2, <2>3
  <2> QED
    BY <2>2, <2>4, SaveMade
<1>4. /\ store' \in Entries /\ saves' \in [Slots -> Saves]
      /\ \E past \in [Nat -> Values] : OneHistory(past)'
  <2>1. ASSUME NEW s \in Slots, NEW lost \in BOOLEAN, StoreSaves(s, lost)
        PROVE  <1>4!:
    <3>1. PICK save \in Saves : save = saves[s]
      BY <1>2
    <3>2. /\ save.step = "sent" /\ store.version < MaxVersion
          /\ save.value \in Values /\ save.owned \in BOOLEAN
          /\ save = [step |-> save.step, value |-> save.value, owned |-> save.owned]
      BY <2>1, <3>1, SaveSteps DEF StoreSaves
    <3>3. store.version + 1 \in 0..MaxVersion
      BY <1>2, <3>2, NoEntry
    <3>4. store' = Entry(save.value, store.version + 1) /\ store' \in Entries
      BY <2>1, <3>1, <3>2, <3>3, EntryMade DEF StoreSaves
    <3>5. CASE lost
      <4>1. PICK failed : failed = SaveLost(s)
        OBVIOUS
      <4>2. failed \in Saves /\ failed.step = "failed"
        BY <1>3, <4>1
      <4>3. saves' = [saves EXCEPT ![s] = failed]
        BY <2>1, <3>5, <4>1 DEF StoreSaves
      <4>4. /\ saves' \in [Slots -> Saves] /\ saves'[s] = failed
            /\ \A r \in Slots : r # s => saves'[r] = saves[r]
        BY <4>2, <4>3, SaveMoves
      <4> QED
        BY <1>1, <3>2, <3>4, <4>2, <4>4, HistoryGrows
    <3>6. CASE ~lost
      <4>1. PICK made : made = [save EXCEPT !.step = "answered", !.value = store']
        OBVIOUS
      <4>2. made = [step |-> "answered", value |-> store', owned |-> save.owned]
        BY <3>2, <4>1
      <4>3. made \in Saves /\ made.value = store'
        BY <3>2, <3>4, <4>2, SaveMade
      <4>4. saves' = [saves EXCEPT ![s] = made]
        BY <2>1, <3>1, <3>4, <3>6, <4>1 DEF StoreSaves
      <4>5. /\ saves' \in [Slots -> Saves] /\ saves'[s] = made
            /\ \A r \in Slots : r # s => saves'[r] = saves[r]
        BY <4>3, <4>4, SaveMoves
      <4> QED
        BY <1>1, <3>2, <3>4, <4>3, <4>5, HistoryGrows
    <3> QED
      BY <3>5, <3>6
  <2>2. ASSUME NEW s \in Slots, SaveRefused(s)
        PROVE  <1>4!:
    <3>1. PICK failed : failed = SaveLost(s)
      OBVIOUS
    <3>2. failed \in Saves /\ failed.step = "failed"
      BY <1>3, <3>1
    <3>3. saves' = [saves EXCEPT ![s] = failed] /\ store' = store
      BY <2>2, <3>1 DEF SaveRefused
    <3>4. /\ saves' \in [Slots -> Saves] /\ saves'[s] = failed
          /\ \A r \in Slots : r # s => saves'[r] = saves[r]
      BY <3>2, <3>3, SaveMoves
    <3> QED
      BY <1>1, <3>2, <3>3, <3>4, FormFacts, HistoryStands
  <2>3. ASSUME NEW value \in Values, OtherChange(value)
        PROVE  <1>4!:
    <3>1. /\ store.version < MaxVersion /\ store' = Entry(value, store.version + 1)
          /\ saves' = saves
      BY <2>3 DEF OtherChange
    <3>2. store.version + 1 \in 0..MaxVersion
      BY <1>2, <3>1, NoEntry
    <3>3. store' \in Entries
      BY <3>1, <3>2, EntryMade
    <3> QED
      BY <1>1, <1>2, <3>1, <3>3, HistoryGrows
  <2> QED
    BY <2>1, <2>2, <2>3
<1>5. FormTypeOK'
  BY <1>1, <1>4, FormFacts DEF FormTypeOK
<1>6. PageHolds' /\ MealDraftOverCurrent' /\ KeptIsStored'
  BY <1>1, FormFacts DEF PageHolds, MealDraftOverCurrent, KeptIsStored
<1> QED
  BY <1>4, <1>5, <1>6 DEF FormInv

\* The input kept for a reload outlives a save of an earlier page, without its stored draft.
LEMMA KeptAfterSave ==
    ASSUME FormInv, NEW s \in Slots, NEW left, left = KeptAfter(s)
    PROVE  /\ left \in Inputs \union {None}
           /\ left # None => kept # None /\ left.cleared
<1>1. kept \in Inputs \union {None}
  BY FormFacts
<1>2. CASE left = None
  BY <1>2
<1>3. CASE left # None
  <2>1. PICK was \in Inputs : was = kept /\ kept # None
    BY <1>1, <1>3 DEF KeptAfter
  <2>2. left = [was EXCEPT !.cleared = TRUE]
    BY <1>3, <2>1 DEF KeptAfter
  <2> QED
    BY <2>1, <2>2 DEF Inputs
<1> QED
  BY <1>2, <1>3

\* The answers of a save.
LEMMA SaveAnswerKeeps ==
    ASSUME FormInv, NEW s \in Slots, SaveSucceeds(s) \/ SaveFails(s)
    PROVE  FormInv'
<1>0. /\ form \in {"meals", "attendance", "settings"} /\ open \in BOOLEAN
      /\ known \in Entries \union {None} /\ draft \in Entries \union {None}
      /\ kept \in Inputs \union {None} /\ stored \in Drafts \union {None}
      /\ saved \in {"none", "saved", "failed"} /\ saves[s] \in Saves
      /\ PageHolds /\ MealDraftOverCurrent /\ KeptIsStored
  BY FormFacts
<1>1. /\ saves' \in [Slots -> Saves]
      /\ \A r \in Slots : saves'[r].step = "answered" => saves'[r] = saves[r]
  <2>1. saves' = [saves EXCEPT ![s] = NoSave]
    BY DEF SaveSucceeds, SaveFails
  <2>2. /\ saves' \in [Slots -> Saves] /\ saves'[s] = NoSave
        /\ \A r \in Slots : r # s => saves'[r] = saves[r]
    BY <2>1, NoSaveIsSave, SaveMoves
  <2> QED
    BY <2>2, NoSaveIsSave
<1>2. CASE SaveSucceeds(s)
  <2>1. PICK answer \in Entries : answer = saves[s].value /\ saves[s].step = "answered"
    BY <1>0, <1>2, SaveSteps DEF SaveSucceeds
  <2>2. /\ form' = form /\ store' = store /\ open' = open /\ reload' = reload
        /\ known' = answer /\ loadFailed' = FALSE /\ kept' = KeptAfter(s)
        /\ saved' \in {"saved", saved}
        /\ reading' = IF open THEN ReadAsked ELSE reading
        /\ stored' = IF form = "meals" THEN None ELSE stored
    BY <1>2, <2>1 DEF SaveSucceeds
  <2>3. answer # None /\ answer \in Entries
    BY <2>1, EntryParts
  <2>4. form = "meals" =>
           \/ draft' = draft /\ (~open \/ ~EditorAnew(answer))
           \/ draft' = answer /\ open
    BY <1>2, <2>1 DEF SaveSucceeds, MealEditorAnew
  <2>5. form # "meals" => draft' \in {None, draft}
    BY <1>0, <1>2 DEF SaveSucceeds
  <2>6. form = "meals" /\ open => draft' # None /\ draft'.version = answer.version
    <3> SUFFICES ASSUME form = "meals", open, ~EditorAnew(answer), draft' = draft
                 PROVE  draft' # None /\ draft'.version = answer.version
      BY <2>3, <2>4
    <3>1. draft # None /\ known # None /\ known.version = answer.version
      BY <1>0 DEF EditorAnew, PageHolds
    <3> QED
      BY <1>0, <3>1 DEF MealDraftOverCurrent
  <2>7. reading' \in Readings /\ (reading'.step = "answered" => reading' = reading)
    BY <2>2, FormFacts, ReadingMade
  <2>8. kept' \in Inputs \union {None} /\ (kept' # None => kept # None /\ kept'.cleared)
    BY <2>2, KeptAfterSave
  <2>9. FormTypeOK'
    BY <1>0, <1>1, <2>2, <2>3, <2>4, <2>5, <2>7, <2>8, FormFacts DEF FormTypeOK
  <2>10. PageHolds' /\ MealDraftOverCurrent'
    BY <1>0, <2>2, <2>3, <2>4, <2>5, <2>6 DEF PageHolds, MealDraftOverCurrent
  <2>11. KeptIsStored'
    BY <1>0, <2>2, <2>8 DEF KeptIsStored
  <2>12. \E past \in [Nat -> Values] : OneHistory(past)'
    BY <1>0, <1>1, <2>1, <2>2, <2>7, HistoryStands
  <2> QED
    BY <2>9, <2>10, <2>11, <2>12 DEF FormInv
<1>3. CASE SaveFails(s)
  <2>1. /\ form' = form /\ store' = store /\ open' = open /\ known' = known
        /\ loadFailed' = loadFailed /\ draft' = draft /\ stored' = stored /\ reload' = reload
        /\ kept' = kept /\ saved' \in {"failed", saved}
        /\ reading' = IF form # "meals" /\ open THEN ReadAsked ELSE reading
    BY <1>3 DEF SaveFails
  <2>2. reading' \in Readings /\ (reading'.step = "answered" => reading' = reading)
    BY <2>1, FormFacts, ReadingMade
  <2>3. saved' \in {"none", "saved", "failed"}
    BY <1>0, <2>1
  <2>4. FormTypeOK'
    BY <1>0, <1>1, <2>1, <2>2, <2>3, FormFacts DEF FormTypeOK
  <2>5. PageHolds' /\ MealDraftOverCurrent' /\ KeptIsStored'
    BY <1>0, <2>1 DEF PageHolds, MealDraftOverCurrent, KeptIsStored
  <2>6. \E past \in [Nat -> Values] : OneHistory(past)'
    BY <1>0, <1>1, <2>1, <2>2, HistoryStands
  <2> QED
    BY <2>4, <2>5, <2>6 DEF FormInv
<1> QED
  BY <1>2, <1>3

\* The page is left.
LEMMA LeavePageKeeps ==
    ASSUME FormInv, LeavePage
    PROVE  FormInv'
<1>1. /\ form' = form /\ store' = store /\ open' = FALSE /\ known' = known
      /\ loadFailed' = loadFailed /\ reading' = reading /\ draft' = None /\ stored' = stored
      /\ reload' = reload /\ kept' = None /\ saved' = "none"
      /\ saves' = [s \in Slots |-> [saves[s] EXCEPT !.owned = FALSE]]
  BY DEF LeavePage
<1>2. ASSUME NEW s \in Slots
      PROVE  /\ saves'[s] \in Saves
             /\ saves'[s].step = saves[s].step /\ saves'[s].value = saves[s].value
  <2>1. PICK save \in Saves : save = saves[s]
    BY FormFacts
  <2>2. /\ save.step \in {"none", "sent", "failed", "answered"}
        /\ save = [step |-> save.step, value |-> save.value, owned |-> save.owned]
        /\ save.step = "none" => save = NoSave
    BY SaveSteps
  <2>3. saves'[s] = [step |-> save.step, value |-> save.value, owned |-> FALSE]
    BY <1>1, <2>1, <2>2
  <2>4. CASE save.step = "none"
    <3>1. save.value = None
      BY <2>2, <2>4 DEF NoSave
    <3>2. saves'[s] = NoSave
      BY <2>3, <2>4, <3>1 DEF NoSave
    <3> QED
      BY <2>1, <2>2, <2>4, <3>2, NoSaveIsSave
  <2>5. CASE save.step # "none"
    <3>1. \/ save.step = "sent" /\ save.value \in Values
          \/ save.step = "failed" /\ save.value = None
          \/ save.step = "answered" /\ save.value \in Entries
      BY <2>2, <2>5 DEF Saves, NoSave
    <3> QED
      BY <2>1, <2>3, <3>1 DEF Saves
  <2> QED
    BY <2>4, <2>5
<1>21. saves' \in [Slots -> Saves]
  BY <1>1, <1>2
<1>3. FormTypeOK'
  BY <1>1, <1>21, FormFacts DEF FormTypeOK
<1>4. PageHolds' /\ MealDraftOverCurrent' /\ KeptIsStored'
  BY <1>1, FormFacts DEF PageHolds, MealDraftOverCurrent, KeptIsStored
<1>5. \E past \in [Nat -> Values] : OneHistory(past)'
  BY <1>1, <1>2, HistoryStands
<1> QED
  BY <1>3, <1>4, <1>5 DEF FormInv

\* Before a reload an edit of the meals is stored with the preferences it was made over.
LEMMA PreserveKeeps ==
    ASSUME FormInv, PrepareReload
    PROVE  FormInv'
<1>0. /\ form \in {"meals", "attendance", "settings"} /\ open \in BOOLEAN
      /\ known \in Entries \union {None} /\ draft \in Entries \union {None}
      /\ stored \in Drafts \union {None} /\ PageHolds /\ MealDraftOverCurrent
  BY FormFacts
<1>1. /\ form' = form /\ store' = store /\ open' = open /\ known' = known
      /\ loadFailed' = loadFailed /\ reading' = reading /\ draft' = draft /\ saves' = saves
      /\ saved' = saved /\ reload' = "prepared" /\ PreserveDraft
      /\ kept' = IF form = "meals" /\ open /\ Dirty
                 THEN [value |-> draft.value, version |-> known.version, cleared |-> FALSE]
                 ELSE None
  BY DEF PrepareReload
<1>2. CASE form = "meals" /\ open /\ Dirty
  <2>1. /\ known \in Entries /\ draft \in Entries /\ known # None /\ draft # None
        /\ draft.value \in Values /\ known.version \in 0..MaxVersion
    BY <1>0, <1>2, EntryParts DEF Dirty
  <2>2. /\ kept' \in Inputs /\ kept'.value = draft.value /\ kept'.version = known.version
    BY <1>1, <1>2, <2>1 DEF Inputs
  <2>3. stored' = [base |-> known, value |-> draft.value]
    BY <1>1, <1>2, <2>1 DEF PreserveDraft
  <2>4. /\ stored' \in Drafts /\ stored' # None
        /\ stored'.base = known /\ stored'.value = draft.value
    BY <2>1, <2>3, DraftMade
  <2>6. FormTypeOK'
    BY <1>0, <1>1, <2>2, <2>4, FormFacts DEF FormTypeOK
  <2>7. PageHolds' /\ MealDraftOverCurrent' /\ KeptIsStored'
    BY <1>0, <1>1, <1>2, <2>1, <2>2, <2>4 DEF PageHolds, MealDraftOverCurrent, KeptIsStored
  <2>8. \E past \in [Nat -> Values] : OneHistory(past)'
    BY <1>1, <2>1, <2>4, HistoryStands
  <2> QED
    BY <2>6, <2>7, <2>8 DEF FormInv
<1>3. CASE ~(form = "meals" /\ open /\ Dirty)
  <2>1. kept' = None
    BY <1>1, <1>3
  <2>2. stored' = None \/ stored' = stored
    BY <1>1, <1>3 DEF PreserveDraft
  <2>3. FormTypeOK'
    BY <1>0, <1>1, <2>1, <2>2, FormFacts DEF FormTypeOK
  <2>4. PageHolds' /\ MealDraftOverCurrent' /\ KeptIsStored'
    BY <1>0, <1>1, <2>1 DEF PageHolds, MealDraftOverCurrent, KeptIsStored
  <2>5. \E past \in [Nat -> Values] : OneHistory(past)'
    BY <1>1, <2>2, HistoryStands
  <2> QED
    BY <2>3, <2>4, <2>5 DEF FormInv
<1> QED
  BY <1>2, <1>3

\* The page is loaded anew: what it held is gone, the session storage is not.
LEMMA ReloadKeeps ==
    ASSUME FormInv, PageReloads
    PROVE  FormInv'
<1>1. /\ form' = form /\ store' = store /\ open' = open /\ known' = None
      /\ loadFailed' = FALSE /\ draft' = None /\ stored' = stored /\ reload' = "none"
      /\ kept' = kept /\ saved' = "none" /\ saves' = [s \in Slots |-> NoSave]
      /\ reading' = IF open THEN ReadAsked ELSE NotReading
  BY DEF PageReloads
<1>2. /\ reading' \in Readings /\ reading'.step # "answered"
      /\ saves' \in [Slots -> Saves] /\ \A s \in Slots : saves'[s].step # "answered"
  BY <1>1, ReadingMade, NoSaveIsSave
<1>3. FormTypeOK'
  BY <1>1, <1>2, FormFacts DEF FormTypeOK
<1>4. PageHolds' /\ MealDraftOverCurrent' /\ KeptIsStored'
  BY <1>1, FormFacts DEF PageHolds, MealDraftOverCurrent, KeptIsStored
<1>5. \E past \in [Nat -> Values] : OneHistory(past)'
  BY <1>1, <1>2, HistoryStands
<1> QED
  BY <1>3, <1>4, <1>5 DEF FormInv

\* The invariant of the forms.
LEMMA FormInvariant == FormSpec => []FormInv
<1>1. FormInit => FormInv
  <2> SUFFICES ASSUME FormInit PROVE FormInv
    OBVIOUS
  <2>1. PICK start \in Values : start = [enabled |-> TRUE, detail |-> FALSE]
    BY DEF Values
  <2>2. 0 \in 0..MaxVersion
    BY NoEntry
  <2>3. store \in Entries /\ store.version = 0 /\ store.value = start
    BY <2>1, <2>2, EntryMade DEF FormInit
  <2>4. /\ reading \in Readings /\ reading.step = "asked"
        /\ saves \in [Slots -> Saves] /\ \A s \in Slots : saves[s].step = "none"
    BY ReadingMade, NoSaveIsSave DEF FormInit
  <2>5. FormTypeOK
    BY <2>3, <2>4 DEF FormInit, FormTypeOK
  <2>6. PageHolds /\ MealDraftOverCurrent /\ KeptIsStored
    BY DEF FormInit, PageHolds, MealDraftOverCurrent, KeptIsStored
  <2>7. PICK past : past = [version \in Nat |-> start]
    OBVIOUS
  <2>8. past \in [Nat -> Values] /\ past[0] = start
    BY <2>7
  <2>9. known = None /\ stored = None
    BY DEF FormInit
  <2>10. OneHistory(past)
    BY <2>3, <2>4, <2>8, <2>9 DEF OneHistory, FromHistory
  <2> QED
    BY <2>5, <2>6, <2>8, <2>10 DEF FormInv
<1>2. FormInv /\ [FormNext]_formVars => FormInv'
  <2> SUFFICES ASSUME FormInv, [FormNext]_formVars PROVE FormInv'
    OBVIOUS
  <2>1. CASE UNCHANGED formVars
    BY <2>1 DEF formVars, FormInv, FormTypeOK, PageHolds, MealDraftOverCurrent, KeptIsStored,
                OneHistory, FromHistory
  <2>2. CASE FormNext
    BY <2>2, ReadingKeeps, EditorBegins, ValueLoadedKeeps, ReturnKeeps, EditKeeps, SendKeeps,
       SettingsKeep, SaveAnswerKeeps, LeavePageKeeps, PreserveKeeps, ReloadKeeps DEF FormNext
  <2> QED
    BY <2>1, <2>2
<1> QED
  BY <1>1, <1>2, PTL DEF FormSpec

\* The form's query, draft, save and stored draft stay within the values the three forms can
\* hold, whatever other devices and reloads do.
THEOREM FormTypes == FormSpec => []FormTypeOK
<1>1. FormInv => FormTypeOK
  BY DEF FormInv
<1> QED
  BY <1>1, FormInvariant, PTL

\* The meal form edits the preferences it shows, and an edit that an update's reload interrupted
\* is there again if the preferences are the same: meal-preferences-draft.ts and
\* MealPreferencesSection.
THEOREM MealInputStaysKept == FormSpec => []MealInputIsKept
<1>1. FormInv => MealInputIsKept
  <2> SUFFICES ASSUME FormInv PROVE MealInputIsKept
    OBVIOUS
  <2>1. MealDraftOverCurrent /\ KeptIsStored
    BY FormFacts
  <2>2. MealInputSurvivesReload
    BY <2>1 DEF MealInputSurvivesReload, InputRestored, KeptIsStored, CurrentInput
  <2> QED
    BY <2>1, <2>2 DEF MealInputIsKept
<1> QED
  BY <1>1, FormInvariant, PTL
================================================================================
