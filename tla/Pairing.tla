------------------------------ MODULE Pairing ------------------------------
(***************************************************************************)
(* Pairing a mobile PWA with a PC: the pairing_challenge and app_session   *)
(* rows (PairingService over JdbcPairingStore), the PC's pairing card, the *)
(* PWA's claim and its wait for completion, and the cookies the browser    *)
(* keeps for it (PairingController).                                       *)
(*                                                                         *)
(* The service reads a challenge and then updates it in a second           *)
(* statement, so claim, approve and complete are two steps of a server     *)
(* thread each, and an answer may find nobody waiting for it any more.     *)
(* A claim receipt is drawn by one successful claim of a challenge and is  *)
(* named here by that challenge and its claimant; the session token is     *)
(* derived from it (TokenCodec.mobileToken), so that a session is named by *)
(* its challenge and carries the device the token was derived for.         *)
(***************************************************************************)
EXTENDS Naturals, FiniteSets

CONSTANTS
    Challenge,      \* pairing challenges the PC may create
    Mobile,         \* installed PWAs, by installation id
    Thread,         \* server threads
    NoChallenge, NoMobile, NoThread,
    Ttl,            \* ticks a challenge lives (10 minutes)
    MaxPolls,       \* completion checks of one wait (600)
    MaxLost         \* bound on lost connections and restarts

ASSUME ConstantsOK ==
    /\ Ttl \in Nat \ {0}
    /\ MaxPolls \in Nat \ {0}
    /\ MaxLost \in Nat
    /\ NoChallenge \notin Challenge
    /\ NoMobile \notin Mobile
    /\ NoThread \notin Thread

VARIABLES
    challenge,      \* challenge[c]: the pairing_challenge row
    session,        \* session[c]: the mobile app_session with source_pairing_id c
    desktop,        \* the PC's pairing card
    client,         \* client[m]: the PWA of m and its browser's storage and cookies
    thread,         \* thread[t]: the request a server thread is working on
    lost            \* lost connections and restarts so far

vars == <<challenge, session, desktop, client, thread, lost>>

Active == {"pending", "claimed", "approved"}
Stored == Active \cup {"consumed"}

ChallengeRow == [status : {"unused", "deleted"} \cup Stored,
                 claimant : Mobile \cup {NoMobile}, left : 0 .. Ttl]
SessionRow == [status : {"none", "active", "ended"}, mobile : Mobile \cup {NoMobile},
               token : Mobile \cup {NoMobile}, shown : Mobile \cup {NoMobile}]
Desktop == [code : Challenge \cup {NoChallenge}, shown : Mobile \cup {NoMobile},
            call : Thread \cup {NoThread}]
Client == [phase : {"idle", "claiming", "waiting"}, cancelled : BOOLEAN,
           pairing : Challenge \cup {NoChallenge}, polls : 0 .. MaxPolls,
           stored : Challenge \cup {NoChallenge},
           receipt : Challenge \cup {NoChallenge},
           device : Challenge \cup {NoChallenge},
           call : Thread \cup {NoThread}]
Request == [op : {"none", "claim", "approve", "complete"},
            stage : {"received", "found", "answered"},
            challenge : Challenge \cup {NoChallenge}, by : Mobile \cup {NoMobile},
            receipt : Challenge \cup {NoChallenge}, found : Mobile \cup {NoMobile},
            answer : {"none", "ok", "not approved", "refused"}]

NoSession == [status |-> "none", mobile |-> NoMobile, token |-> NoMobile,
              shown |-> NoMobile]
Free == [op |-> "none", stage |-> "received", challenge |-> NoChallenge,
         by |-> NoMobile, receipt |-> NoChallenge, found |-> NoMobile, answer |-> "none"]
Fresh == [phase |-> "idle", cancelled |-> FALSE, pairing |-> NoChallenge, polls |-> 0,
          stored |-> NoChallenge, receipt |-> NoChallenge, device |-> NoChallenge,
          call |-> NoThread]

Init ==
    /\ challenge = [c \in Challenge |->
                      [status |-> "unused", claimant |-> NoMobile, left |-> Ttl]]
    /\ session = [c \in Challenge |-> NoSession]
    /\ desktop = [code |-> NoChallenge, shown |-> NoMobile, call |-> NoThread]
    /\ client = [m \in Mobile |-> Fresh]
    /\ thread = [t \in Thread |-> Free]
    /\ lost = 0

Unexpired(c) == challenge[c].left > 0
Received(t, op) == thread[t].op = op /\ thread[t].stage = "received"
Found(t, op) == thread[t].op = op /\ thread[t].stage = "found"
Answered(t) == thread[t].stage = "answered"
Awaited(t) == desktop.call = t \/ \E m \in Mobile : client[m].call = t

\* The thread is done; its answer is kept only while somebody waits for it.
Answer(t, a) ==
    thread' = [thread EXCEPT ![t] =
                 IF Awaited(t) THEN [@ EXCEPT !.stage = "answered", !.answer = a] ELSE Free]

\* Nobody waits for the thread any more: an answer on its way is lost, work goes on.
Forsaken(t) == IF Answered(t) THEN [thread EXCEPT ![t] = Free] ELSE thread

-----------------------------------------------------------------------------
(* The PC's pairing card *)

\* Mutated CardFor: the claim on screen is kept over the new code.
CardKeepingClaim(c) ==
    [code |-> c, shown |-> IF c = NoChallenge THEN NoMobile ELSE desktop.shown,
     call |-> NoThread]

\* The card for a new code: what it showed of the previous claim is gone.
CardFor(c) == [code |-> c, shown |-> NoMobile, call |-> NoThread]

\* replaceActive: the PC's active challenges are deleted and the new one inserted, in one
\* transaction.  The PC may miss the answer and keep the previous code on screen.
CreatePairing(c) ==
    /\ desktop.call = NoThread
    /\ challenge[c].status = "unused"
    /\ challenge' = [x \in Challenge |->
                       IF x = c THEN [challenge[x] EXCEPT !.status = "pending"]
                       ELSE IF challenge[x].status \in Active
                         THEN [challenge[x] EXCEPT !.status = "deleted"]
                       ELSE challenge[x]]
    /\ desktop' \in {CardFor(c), desktop}
    /\ UNCHANGED <<session, client, thread, lost>>

\* The status poll shows the claim to compare; a poll that fails keeps what is shown.
PollStatus ==
    LET c == desktop.code IN
    /\ c # NoChallenge
    /\ challenge[c].status \in Stored
    /\ desktop' = [desktop EXCEPT !.shown =
                     IF challenge[c].status = "claimed" /\ Unexpired(c)
                     THEN challenge[c].claimant ELSE NoMobile]
    /\ UNCHANGED <<challenge, session, client, thread, lost>>

\* The card is closed; the challenge stays until it expires or is replaced.
CancelCard ==
    /\ desktop.code # NoChallenge
    /\ desktop.call = NoThread
    /\ desktop' = CardFor(NoChallenge)
    /\ UNCHANGED <<challenge, session, client, thread, lost>>

\* The user approves the device on screen.  The request only names the challenge; the
\* device shown is kept as history.
SendApprove(t) ==
    /\ desktop.shown # NoMobile
    /\ desktop.call = NoThread
    /\ thread[t] = Free
    /\ thread' = [thread EXCEPT ![t] = [Free EXCEPT !.op = "approve", !.by = desktop.shown,
                                                    !.challenge = desktop.code]]
    /\ desktop' = [desktop EXCEPT !.call = t]
    /\ UNCHANGED <<challenge, session, client, lost>>

HearApproval ==
    /\ desktop.call # NoThread
    /\ Answered(desktop.call)
    /\ thread' = [thread EXCEPT ![desktop.call] = Free]
    /\ desktop' = [desktop EXCEPT !.call = NoThread]
    /\ UNCHANGED <<challenge, session, client, lost>>

DesktopLosesConnection ==
    /\ desktop.call # NoThread
    /\ lost < MaxLost
    /\ lost' = lost + 1
    /\ thread' = Forsaken(desktop.call)
    /\ desktop' = [desktop EXCEPT !.call = NoThread]
    /\ UNCHANGED <<challenge, session, client>>

-----------------------------------------------------------------------------
(* The server: a thread looks the challenge up, then updates it *)

\* ensurePending
LookupForClaim(t) ==
    LET c == thread[t].challenge IN
    /\ Received(t, "claim")
    /\ IF challenge[c].status = "pending" /\ Unexpired(c)
       THEN thread' = [thread EXCEPT ![t].stage = "found"]
       ELSE Answer(t, "refused")
    /\ UNCHANGED <<challenge, session, desktop, client, lost>>

\* Mutated StillClaimable: the update trusts the lookup.
StillClaimableTwice(c) == challenge[c].status \in {"pending", "claimed"}

\* UPDATE ... WHERE status = 'pending'; expiry is not looked at again.
StillClaimable(c) == challenge[c].status = "pending"

Claim(t) ==
    LET c == thread[t].challenge IN
    /\ Found(t, "claim")
    /\ IF StillClaimable(c)
       THEN /\ challenge' = [challenge EXCEPT ![c].status = "claimed",
                                              ![c].claimant = thread[t].by]
            /\ Answer(t, "ok")
       ELSE Answer(t, "refused") /\ UNCHANGED challenge
    /\ UNCHANGED <<session, desktop, client, lost>>

\* approve reads the receipt it will derive the token from.
LookupForApproval(t) ==
    LET c == thread[t].challenge IN
    /\ Received(t, "approve")
    /\ IF challenge[c].status = "claimed" /\ Unexpired(c)
       THEN thread' = [thread EXCEPT ![t].stage = "found",
                                     ![t].found = challenge[c].claimant]
       ELSE Answer(t, "refused")
    /\ UNCHANGED <<challenge, session, desktop, client, lost>>

\* approveAndCreateMobileSession: one statement marks the challenge and inserts the session
\* of the challenge's device.  Its expiry condition uses the instant of the lookup.
Approve(t) ==
    LET c == thread[t].challenge IN
    /\ Found(t, "approve")
    /\ IF challenge[c].status = "claimed"
       THEN /\ challenge' = [challenge EXCEPT ![c].status = "approved"]
            /\ session' = [session EXCEPT ![c] =
                             [status |-> "active", mobile |-> challenge[c].claimant,
                              token |-> thread[t].found, shown |-> thread[t].by]]
            /\ Answer(t, "ok")
       ELSE Answer(t, "refused") /\ UNCHANGED <<challenge, session>>
    /\ UNCHANGED <<desktop, client, lost>>

\* The receipt cookie of the request is the one the challenge was claimed with.
ReceiptMatches(r) ==
    /\ challenge[r.challenge].status \in Stored
    /\ r.receipt = r.challenge
    /\ challenge[r.challenge].claimant = r.by

IsApproved(c) == challenge[c].status \in {"approved", "consumed"}

\* The session's own 30 days outlast every challenge and are not looked at here.
LookupForCompletion(t) ==
    LET c == thread[t].challenge IN
    /\ Received(t, "complete")
    /\ IF ~ReceiptMatches(thread[t]) \/ ~Unexpired(c) THEN Answer(t, "refused")
       ELSE IF ~IsApproved(c) THEN Answer(t, "not approved")
       ELSE IF challenge[c].status = "consumed" THEN Answer(t, "ok")
       ELSE thread' = [thread EXCEPT ![t].stage = "found"]
    /\ UNCHANGED <<challenge, session, desktop, client, lost>>

\* consume, which refuses a challenge that another completion has consumed meanwhile.
Consume(t) ==
    LET c == thread[t].challenge IN
    /\ Found(t, "complete")
    /\ IF challenge[c].status = "approved"
       THEN /\ challenge' = [challenge EXCEPT ![c].status = "consumed"]
            /\ Answer(t, "ok")
       ELSE Answer(t, "refused") /\ UNCHANGED challenge
    /\ UNCHANGED <<session, desktop, client, lost>>

\* The session is revoked by the PC or the device, or its 30 days are over.
EndSession(c) ==
    /\ session[c].status = "active"
    /\ session' = [session EXCEPT ![c].status = "ended"]
    /\ UNCHANGED <<challenge, desktop, client, thread, lost>>

\* The PC resets its identity: the user's challenges and sessions are deleted.
ResetIdentity ==
    /\ challenge' = [c \in Challenge |->
                       IF challenge[c].status \in Stored
                       THEN [challenge[c] EXCEPT !.status = "deleted"] ELSE challenge[c]]
    /\ session' = [c \in Challenge |->
                     IF session[c].status = "active"
                     THEN [session[c] EXCEPT !.status = "ended"] ELSE session[c]]
    /\ desktop' = [desktop EXCEPT !.code = NoChallenge, !.shown = NoMobile]
    /\ UNCHANGED <<client, thread, lost>>

Tick ==
    /\ \E c \in Challenge : challenge[c].status # "unused" /\ Unexpired(c)
    /\ challenge' = [c \in Challenge |->
                       IF challenge[c].status # "unused" /\ Unexpired(c)
                       THEN [challenge[c] EXCEPT !.left = @ - 1] ELSE challenge[c]]
    /\ UNCHANGED <<session, desktop, client, thread, lost>>

\* Housekeeping, a day after the challenge expired.
DeleteChallenge(c) ==
    /\ challenge[c].status \in Stored
    /\ ~Unexpired(c)
    /\ challenge' = [challenge EXCEPT ![c].status = "deleted"]
    /\ UNCHANGED <<session, desktop, client, thread, lost>>

-----------------------------------------------------------------------------
(* The PWA *)

Connected(m) ==
    client[m].device # NoChallenge /\ session[client[m].device].status = "active"

\* The wait is over: its memory and the persisted pairing are cleared, cookies stay.
Stopped(k) == [k EXCEPT !.phase = "idle", !.cancelled = FALSE, !.pairing = NoChallenge,
                        !.polls = 0, !.stored = NoChallenge, !.call = NoThread]

\* Mutated Retried: no limit on the number of checks.
RetriedForever(k) == IF k.cancelled THEN Stopped(k)
                     ELSE [k EXCEPT !.polls = @ + 1, !.call = NoThread]

\* The next completion check, or the end of the wait after MaxPolls of them.
Retried(k) == IF k.cancelled \/ k.polls + 1 = MaxPolls THEN Stopped(k)
              ELSE [k EXCEPT !.polls = @ + 1, !.call = NoThread]

\* A code the PC has shown is scanned, typed in, or handed over by the install page.
SendClaim(m, t, c) ==
    /\ client[m].phase = "idle"
    /\ client[m].stored = NoChallenge
    /\ ~Connected(m)
    /\ thread[t] = Free
    /\ challenge[c].status # "unused"
    /\ thread' = [thread EXCEPT ![t] = [Free EXCEPT !.op = "claim", !.by = m,
                                                    !.challenge = c]]
    /\ client' = [client EXCEPT ![m].phase = "claiming", ![m].call = t]
    /\ UNCHANGED <<challenge, session, desktop, lost>>

\* The install page of a code is opened in the device's browser: the cookie that hands the
\* code over replaces the receipt of an earlier claim.
PrepareHandoff(m, c) ==
    /\ challenge[c].status = "pending"
    /\ Unexpired(c)
    /\ client[m].receipt # NoChallenge
    /\ client' = [client EXCEPT ![m].receipt = NoChallenge]
    /\ UNCHANGED <<challenge, session, desktop, thread, lost>>

SendComplete(m, t) ==
    /\ client[m].phase = "waiting"
    /\ client[m].call = NoThread
    /\ thread[t] = Free
    /\ thread' = [thread EXCEPT ![t] = [Free EXCEPT !.op = "complete", !.by = m,
                                          !.challenge = client[m].pairing,
                                          !.receipt = client[m].receipt]]
    /\ client' = [client EXCEPT ![m].call = t]
    /\ UNCHANGED <<challenge, session, desktop, lost>>

\* What the browser does with an answer before the page sees it: Set-Cookie.
WithCookies(k, r) ==
    IF r.answer # "ok" THEN k
    ELSE IF r.op = "claim" THEN [k EXCEPT !.receipt = r.challenge]
    ELSE [k EXCEPT !.receipt = NoChallenge, !.device = r.challenge]

\* What the page does with it.
AfterClaim(k, r) ==
    IF r.answer = "ok" /\ ~k.cancelled
    THEN [k EXCEPT !.phase = "waiting", !.pairing = r.challenge, !.stored = r.challenge,
                   !.call = NoThread]
    ELSE Stopped(k)

\* Mutated AfterCompletion: every failure is taken for a passing one.
AfterCompletionInsisting(k, r) ==
    IF r.answer = "ok" THEN Stopped(k) ELSE [k EXCEPT !.call = NoThread]

AfterCompletion(k, r) ==
    IF r.answer = "not approved" THEN Retried(k) ELSE Stopped(k)

HearAnswer(m) ==
    LET t == client[m].call
        k == WithCookies(client[m], thread[t])
    IN  /\ t # NoThread
        /\ Answered(t)
        /\ client' = [client EXCEPT ![m] =
                        IF thread[t].op = "claim" THEN AfterClaim(k, thread[t])
                        ELSE AfterCompletion(k, thread[t])]
        /\ thread' = [thread EXCEPT ![t] = Free]
        /\ UNCHANGED <<challenge, session, desktop, lost>>

\* The request fails on the network; the server may go on with it.
LoseConnection(m) ==
    /\ client[m].call # NoThread
    /\ lost < MaxLost
    /\ lost' = lost + 1
    /\ client' = [client EXCEPT ![m] =
                    IF client[m].phase = "claiming" THEN Stopped(@) ELSE Retried(@)]
    /\ thread' = Forsaken(client[m].call)
    /\ UNCHANGED <<challenge, session, desktop>>

\* The user stops waiting.  A request on its way is heard to its end.
CancelWait(m) ==
    /\ client[m].phase # "idle"
    /\ ~client[m].cancelled
    /\ client' = [client EXCEPT ![m] =
                    IF client[m].call = NoThread THEN Stopped(@)
                    ELSE [@ EXCEPT !.cancelled = TRUE, !.stored = NoChallenge]]
    /\ UNCHANGED <<challenge, session, desktop, thread, lost>>

\* The PWA is closed or reloaded: persisted pairing and cookies stay.  The browser may have
\* taken an answer's cookies before the page could see it.
Restart(m) ==
    LET t == client[m].call IN
    /\ client[m].phase # "idle"
    /\ lost < MaxLost
    /\ lost' = lost + 1
    /\ \E k \in {client[m]} \cup (IF t # NoThread /\ Answered(t)
                                  THEN {WithCookies(client[m], thread[t])} ELSE {}) :
          client' = [client EXCEPT ![m] = [Stopped(k) EXCEPT !.stored = k.stored]]
    /\ thread' = IF t = NoThread THEN thread ELSE Forsaken(t)
    /\ UNCHANGED <<challenge, session, desktop>>

\* On start, an unfinished pairing is taken up again, unless the device is connected.
Resume(m) ==
    /\ client[m].phase = "idle"
    /\ client[m].stored # NoChallenge
    /\ client' = [client EXCEPT ![m] =
                    IF Connected(m) THEN Stopped(@)
                    ELSE [@ EXCEPT !.phase = "waiting", !.pairing = client[m].stored]]
    /\ UNCHANGED <<challenge, session, desktop, thread, lost>>

-----------------------------------------------------------------------------

ServerStep(t) ==
    \/ LookupForClaim(t) \/ Claim(t)
    \/ LookupForApproval(t) \/ Approve(t)
    \/ LookupForCompletion(t) \/ Consume(t)

Next ==
    \/ \E c \in Challenge : CreatePairing(c) \/ EndSession(c) \/ DeleteChallenge(c)
    \/ PollStatus \/ CancelCard \/ HearApproval \/ DesktopLosesConnection
    \/ ResetIdentity \/ Tick
    \/ \E t \in Thread : SendApprove(t) \/ ServerStep(t)
    \/ \E m \in Mobile, t \in Thread : SendComplete(m, t)
    \/ \E m \in Mobile, t \in Thread, c \in Challenge : SendClaim(m, t, c)
    \/ \E m \in Mobile, c \in Challenge : PrepareHandoff(m, c)
    \/ \E m \in Mobile : HearAnswer(m) \/ LoseConnection(m) \/ CancelWait(m)
                         \/ Restart(m) \/ Resume(m)

Spec == Init /\ [][Next]_vars

\* Requests are worked on, answers arrive or are lost, and an open PWA goes on asking.
\* Nobody has to issue, claim, approve or cancel anything.
Fairness ==
    /\ WF_vars(Tick)
    /\ WF_vars(HearApproval)
    /\ \A t \in Thread : WF_vars(ServerStep(t))
    /\ \A m \in Mobile : /\ WF_vars(HearAnswer(m))
                         /\ WF_vars(Resume(m))
                         /\ SF_vars(\E t \in Thread : SendComplete(m, t))

FairSpec == Spec /\ Fairness

-----------------------------------------------------------------------------
(* Properties *)

TypeOK ==
    /\ challenge \in [Challenge -> ChallengeRow]
    /\ session \in [Challenge -> SessionRow]
    /\ desktop \in Desktop
    /\ client \in [Mobile -> Client]
    /\ thread \in [Thread -> Request]
    /\ lost \in 0 .. MaxLost

\* The device that gets a session is the one the PC's screen showed when the user
\* approved, and the token handed out later is derived for that same device, although
\* display, lookup and update are three separate moments.
ApprovedAsShown ==
    \A c \in Challenge : session[c].status # "none" =>
        /\ session[c].mobile \in Mobile
        /\ session[c].shown = session[c].mobile
        /\ session[c].token = session[c].mobile

\* A device cookie only ever exists for a session that was created for that device.
DeviceHoldsOwnSession ==
    \A m \in Mobile : client[m].device # NoChallenge =>
        /\ session[client[m].device].status # "none"
        /\ session[client[m].device].token = m
        /\ session[client[m].device].mobile = m

\* The rest of the inductive invariant.  A challenge has a claimant from its claim on, and
\* only the session of that claimant, once it was approved:
ChallengeInv ==
    \A c \in Challenge :
        /\ challenge[c].status \in {"unused", "pending"} => challenge[c].claimant = NoMobile
        /\ challenge[c].status \in {"claimed", "approved", "consumed"}
              => challenge[c].claimant \in Mobile
        /\ challenge[c].status \in {"unused", "pending", "claimed"}
              => session[c].status = "none"
        /\ IsApproved(c) => session[c].status # "none"
        /\ session[c].status # "none" => session[c].mobile = challenge[c].claimant

\* What the screen shows, an approval names and its lookup found is the claimant for good:
CardInv ==
    /\ desktop.shown # NoMobile =>
          /\ desktop.code \in Challenge
          /\ challenge[desktop.code].claimant = desktop.shown
    /\ desktop.call # NoThread => thread[desktop.call].op = "approve"

RequestInv ==
    \A t \in Thread : thread[t].op # "none" =>
        LET c == thread[t].challenge IN
        /\ c \in Challenge
        /\ thread[t].by \in Mobile
        /\ thread[t].op = "approve" =>
              /\ challenge[c].claimant = thread[t].by
              /\ thread[t].stage = "found" => thread[t].found = thread[t].by
        /\ thread[t].op = "complete" /\ (thread[t].stage = "found" \/ thread[t].answer = "ok")
              => session[c].status # "none" /\ session[c].mobile = thread[t].by

\* A PWA waits for a request of its own, and gives up before MaxPolls checks have passed:
ClientInv ==
    \A m \in Mobile :
        /\ client[m].polls < MaxPolls
        /\ client[m].phase = "waiting" => client[m].pairing \in Challenge
        /\ client[m].call # NoThread =>
              /\ thread[client[m].call].op \in {"claim", "complete"}
              /\ thread[client[m].call].by = m

IInv ==
    /\ TypeOK
    /\ ChallengeInv
    /\ CardInv
    /\ RequestInv
    /\ ClientInv
    /\ ApprovedAsShown
    /\ DeviceHoldsOwnSession

\* A PWA that claimed a code does not wait forever: it is connected, refused, cancelled,
\* or gives up.
WaitEnds == \A m \in Mobile : client[m].phase = "waiting" ~> client[m].phase # "waiting"

\* A claimant that still has its receipt is not refused while its pairing is approved and
\* unexpired: a lost answer costs a retry and not the connection.
ClaimantNotRefused ==
    \A t \in Thread :
        LET c == thread[t].challenge IN
        thread[t].op = "complete" /\ Answered(t) /\ thread[t].answer = "refused"
            => ~(ReceiptMatches(thread[t]) /\ Unexpired(c) /\ IsApproved(c))

\* What the owner of the PC sees of a code (see DeviceAccess).
AccessOf(c) ==
    IF session[c].status = "active" THEN "granted"
    ELSE IF session[c].status = "ended" \/ challenge[c].status = "deleted" THEN "over"
    ELSE IF challenge[c].status = "claimed" THEN "asked"
    ELSE "none"

Access == INSTANCE DeviceAccess WITH
    access <- [c \in Challenge |-> AccessOf(c)],
    device <- [c \in Challenge |-> challenge[c].claimant]

\* Pairing keeps the promise of DeviceAccess.
ImplementsAccess == Access!AccessSpec
=============================================================================
