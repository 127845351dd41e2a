--------------------------- MODULE Pairing_proofs ---------------------------
(***************************************************************************)
(* Proofs about pairing for every set of challenges, devices and server    *)
(* threads, every time to live, number of checks and lost connections.     *)
(***************************************************************************)
EXTENDS Pairing, TLAPS

(* The records the actions build have their types. *)

LEMMA FreeType == Free \in Request
BY DEF Free, Request

LEMMA FreeFields ==
    /\ Free.op = "none" /\ Free.stage = "received" /\ Free.by = NoMobile
    /\ Free.answer = "none"
BY DEF Free

LEMMA NoSessionType == NoSession \in SessionRow
BY DEF NoSession, SessionRow

LEMMA FreshType == Fresh \in Client
BY ConstantsOK DEF Fresh, Client

LEMMA StoppedType ==
    ASSUME NEW k \in Client
    PROVE  /\ Stopped(k) \in Client
           /\ Stopped(k).device = k.device
           /\ Stopped(k).phase = "idle"
           /\ Stopped(k).polls = 0
           /\ Stopped(k).call = NoThread
<1>1. ASSUME NEW none \in 0 .. MaxPolls
      PROVE  [k EXCEPT !.phase = "idle", !.cancelled = FALSE, !.pairing = NoChallenge,
                       !.polls = none, !.stored = NoChallenge, !.call = NoThread] \in Client
  BY DEF Client
<1>2. 0 \in 0 .. MaxPolls
  BY ConstantsOK
<1>3. Stopped(k) \in Client
  BY <1>1, <1>2, Zenon DEF Stopped
<1>4. QED
  BY <1>3 DEF Stopped, Client

LEMMA RetriedType ==
    ASSUME NEW k \in Client, k.polls < MaxPolls
    PROVE  /\ Retried(k) \in Client
           /\ Retried(k).device = k.device
           /\ Retried(k).polls < MaxPolls
           /\ Retried(k).call = NoThread
           /\ Retried(k).phase # "idle" => /\ Retried(k).phase = k.phase
                                           /\ Retried(k).pairing = k.pairing
<1>1. CASE k.cancelled \/ k.polls + 1 = MaxPolls
  BY <1>1, StoppedType, ConstantsOK DEF Retried
<1>2. CASE ~(k.cancelled \/ k.polls + 1 = MaxPolls)
  <2>1. k.polls + 1 \in 0 .. MaxPolls /\ k.polls + 1 < MaxPolls
    BY <1>2, ConstantsOK DEF Client
  <2>2. QED
    BY <1>2, <2>1 DEF Retried, Client
<1>3. QED
  BY <1>1, <1>2

\* Cookies change the receipt, and the device only with the answer to a completion.
LEMMA WithCookiesType ==
    ASSUME NEW k \in Client, NEW r \in Request, r.op # "none" => r.challenge \in Challenge
    PROVE  /\ WithCookies(k, r) \in Client
           /\ WithCookies(k, r).polls = k.polls
           /\ WithCookies(k, r).phase = k.phase
           /\ WithCookies(k, r).pairing = k.pairing
           /\ WithCookies(k, r).call = k.call
           /\ WithCookies(k, r).device # k.device =>
                 r.answer = "ok" /\ r.op # "claim" /\ WithCookies(k, r).device = r.challenge
BY DEF WithCookies, Client, Request

LEMMA AfterClaimType ==
    ASSUME NEW k \in Client, NEW r \in Request, k.polls < MaxPolls, r.challenge \in Challenge
    PROVE  /\ AfterClaim(k, r) \in Client
           /\ AfterClaim(k, r).device = k.device
           /\ AfterClaim(k, r).polls < MaxPolls
           /\ AfterClaim(k, r).call = NoThread
           /\ AfterClaim(k, r).phase # "idle" => AfterClaim(k, r).pairing \in Challenge
<1>1. CASE r.answer = "ok" /\ ~k.cancelled
  BY <1>1 DEF AfterClaim, Client, Request
<1>2. CASE ~(r.answer = "ok" /\ ~k.cancelled)
  BY <1>2, StoppedType, ConstantsOK DEF AfterClaim
<1>3. QED
  BY <1>1, <1>2

LEMMA AfterCompletionType ==
    ASSUME NEW k \in Client, NEW r \in Request, k.polls < MaxPolls
    PROVE  /\ AfterCompletion(k, r) \in Client
           /\ AfterCompletion(k, r).device = k.device
           /\ AfterCompletion(k, r).polls < MaxPolls
           /\ AfterCompletion(k, r).call = NoThread
           /\ AfterCompletion(k, r).phase # "idle" =>
                 /\ AfterCompletion(k, r).phase = k.phase
                 /\ AfterCompletion(k, r).pairing = k.pairing
<1>1. CASE r.answer = "not approved"
  BY <1>1, RetriedType DEF AfterCompletion
<1>2. CASE r.answer # "not approved"
  <2>1. AfterCompletion(k, r) = Stopped(k)
    BY <1>2 DEF AfterCompletion
  <2>2. 0 < MaxPolls
    BY ConstantsOK
  <2>3. QED
    BY <2>1, <2>2, StoppedType
<1>3. QED
  BY <1>1, <1>2

\* A thread that is done keeps its request and gets an answer, or nobody waits for it.
LEMMA AnswerFacts ==
    ASSUME TypeOK, NEW t \in Thread, NEW a \in {"none", "ok", "not approved", "refused"},
           Answer(t, a)
    PROVE  /\ thread' \in [Thread -> Request]
           /\ \A u \in Thread \ {t} : thread'[u] = thread[u]
           /\ \/ /\ Awaited(t)
                 /\ thread'[t].op = thread[t].op
                 /\ thread'[t].by = thread[t].by
                 /\ thread'[t].challenge = thread[t].challenge
                 /\ thread'[t].found = thread[t].found
                 /\ thread'[t].stage = "answered"
                 /\ thread'[t].answer = a
              \/ ~Awaited(t) /\ thread'[t] = Free
<1>1. CASE Awaited(t)
  <2>1. thread' = [thread EXCEPT ![t] = [@ EXCEPT !.stage = "answered", !.answer = a]]
    BY <1>1 DEF Answer
  <2>2. QED
    BY <1>1, <2>1 DEF TypeOK, Request
<1>2. CASE ~Awaited(t)
  <2>1. thread' = [thread EXCEPT ![t] = Free]
    BY <1>2 DEF Answer
  <2>2. QED
    BY <1>2, <2>1, FreeType DEF TypeOK
<1>3. QED
  BY <1>1, <1>2

LEMMA ForsakenFacts ==
    ASSUME TypeOK, NEW t \in Thread, thread' = Forsaken(t)
    PROVE  /\ thread' \in [Thread -> Request]
           /\ \A u \in Thread : thread'[u] = thread[u] \/ thread'[u] = Free
           /\ \A u \in Thread \ {t} : thread'[u] = thread[u]
BY FreeType DEF Forsaken, TypeOK

-----------------------------------------------------------------------------
(* The inductive invariant: the initial states. *)

LEMMA InitIInv == Init => IInv
<1> SUFFICES ASSUME Init PROVE IInv
  OBVIOUS
<1>1. TypeOK
  <2>1. [status |-> "unused", claimant |-> NoMobile, left |-> Ttl] \in ChallengeRow
    BY ConstantsOK DEF ChallengeRow
  <2>2. [code |-> NoChallenge, shown |-> NoMobile, call |-> NoThread] \in Desktop
    BY DEF Desktop
  <2>3. 0 \in 0 .. MaxLost
    BY ConstantsOK
  <2>4. QED
    BY <2>1, <2>2, <2>3, NoSessionType, FreshType, FreeType DEF Init, TypeOK
<1>2. ChallengeInv /\ ApprovedAsShown
  BY DEF Init, ChallengeInv, ApprovedAsShown, IsApproved, NoSession
<1>3. CardInv
  BY DEF Init, CardInv
<1>4. RequestInv
  BY FreeFields DEF Init, RequestInv
<1>5. ClientInv /\ DeviceHoldsOwnSession
  BY ConstantsOK DEF Init, ClientInv, DeviceHoldsOwnSession, Fresh
<1>6. QED
  BY <1>1, <1>2, <1>3, <1>4, <1>5 DEF IInv

-----------------------------------------------------------------------------
(* The steps of the PC. *)

\* Challenges change their status only: nobody is told anything else than before.
LEMMA StatusChange ==
    ASSUME IInv, TypeOK', UNCHANGED <<client, thread>>,
           \A c \in Challenge :
              /\ challenge'[c].claimant = challenge[c].claimant
              /\ \/ challenge'[c].status = challenge[c].status
                 \/ challenge'[c].status = "deleted"
                 \/ challenge[c].status = "unused" /\ challenge'[c].status = "pending"
              /\ session'[c].mobile = session[c].mobile
              /\ session'[c].token = session[c].token
              /\ session'[c].shown = session[c].shown
              /\ session'[c].status = "none" <=> session[c].status = "none",
           CardInv'
    PROVE  IInv'
<1>1. ChallengeInv'
  BY DEF IInv, ChallengeInv, IsApproved
<1>2. RequestInv'
  BY DEF IInv, RequestInv
<1>3. ClientInv'
  BY DEF IInv, ClientInv
<1>4. ApprovedAsShown'
  BY DEF IInv, ApprovedAsShown
<1>5. DeviceHoldsOwnSession'
  BY DEF IInv, DeviceHoldsOwnSession, TypeOK, Client
<1>6. QED
  BY <1>1, <1>2, <1>3, <1>4, <1>5 DEF IInv

LEMMA CreatePairingStep ==
    ASSUME IInv, NEW c \in Challenge, CreatePairing(c)
    PROVE  IInv'
<1> USE DEF CreatePairing
<1>1. CardFor(c) \in Desktop /\ desktop' \in Desktop
  BY DEF CardFor, Desktop, IInv, TypeOK
<1>2. challenge' \in [Challenge -> ChallengeRow]
  BY DEF IInv, TypeOK, ChallengeRow, Stored, Active
<1>3. TypeOK'
  BY <1>1, <1>2 DEF IInv, TypeOK
<1>4. \A x \in Challenge :
         /\ challenge'[x].claimant = challenge[x].claimant
         /\ \/ challenge'[x].status = challenge[x].status
            \/ challenge'[x].status = "deleted"
            \/ challenge[x].status = "unused" /\ challenge'[x].status = "pending"
  BY DEF IInv, TypeOK, ChallengeRow
<1>5. CardInv'
  BY <1>4 DEF CardFor, IInv, CardInv
<1>6. UNCHANGED <<session, client, thread>>
  OBVIOUS
<1>7. QED
  BY <1>3, <1>4, <1>5, <1>6, StatusChange

LEMMA EndSessionStep ==
    ASSUME IInv, NEW c \in Challenge, EndSession(c)
    PROVE  IInv'
<1> USE DEF EndSession
<1>1. TypeOK'
  BY DEF IInv, TypeOK, SessionRow
<1>2. CardInv'
  BY DEF IInv, CardInv
<1>3. QED
  BY <1>1, <1>2, StatusChange DEF IInv, TypeOK, SessionRow

LEMMA DeleteChallengeStep ==
    ASSUME IInv, NEW c \in Challenge, DeleteChallenge(c)
    PROVE  IInv'
<1> USE DEF DeleteChallenge
<1>1. TypeOK'
  BY DEF IInv, TypeOK, ChallengeRow
<1>2. \A x \in Challenge :
         /\ challenge'[x].claimant = challenge[x].claimant
         /\ challenge'[x].status \in {challenge[x].status, "deleted"}
  BY DEF IInv, TypeOK, ChallengeRow
<1>3. CardInv'
  BY <1>2 DEF IInv, CardInv
<1>4. UNCHANGED <<session, client, thread>>
  OBVIOUS
<1>5. QED
  BY <1>1, <1>2, <1>3, <1>4, StatusChange

LEMMA ResetIdentityStep ==
    ASSUME IInv, ResetIdentity
    PROVE  IInv'
<1> USE DEF ResetIdentity
<1>1. challenge' \in [Challenge -> ChallengeRow]
  BY DEF IInv, TypeOK, ChallengeRow
<1>2. session' \in [Challenge -> SessionRow]
  BY DEF IInv, TypeOK, SessionRow
<1>3. desktop' \in Desktop
  BY DEF IInv, TypeOK, Desktop
<1>4. TypeOK'
  BY <1>1, <1>2, <1>3 DEF IInv, TypeOK
<1>5. \A c \in Challenge :
         /\ challenge'[c].claimant = challenge[c].claimant
         /\ challenge'[c].status \in {challenge[c].status, "deleted"}
  BY DEF IInv, TypeOK, ChallengeRow
<1>6. \A c \in Challenge :
         /\ session'[c].mobile = session[c].mobile
         /\ session'[c].token = session[c].token
         /\ session'[c].shown = session[c].shown
         /\ session'[c].status = "none" <=> session[c].status = "none"
  BY DEF IInv, TypeOK, SessionRow
<1>7. CardInv'
  BY DEF IInv, CardInv, TypeOK, Desktop
<1>8. UNCHANGED <<client, thread>>
  OBVIOUS
<1>9. QED
  BY <1>4, <1>5, <1>6, <1>7, <1>8, StatusChange

LEMMA TickStep ==
    ASSUME IInv, Tick
    PROVE  IInv'
<1> USE DEF Tick
<1>1. \A c \in Challenge : Unexpired(c) => challenge[c].left - 1 \in 0 .. Ttl
  BY ConstantsOK DEF IInv, TypeOK, ChallengeRow, Unexpired
<1>2. challenge' \in [Challenge -> ChallengeRow]
  BY <1>1 DEF IInv, TypeOK, ChallengeRow
<1>3. TypeOK'
  BY <1>2 DEF IInv, TypeOK
<1>4. \A c \in Challenge : /\ challenge'[c].claimant = challenge[c].claimant
                           /\ challenge'[c].status = challenge[c].status
  BY DEF IInv, TypeOK, ChallengeRow
<1>5. CardInv'
  BY <1>4 DEF IInv, CardInv
<1>6. UNCHANGED <<session, client, thread>>
  OBVIOUS
<1>7. QED
  BY <1>3, <1>4, <1>5, <1>6, StatusChange

LEMMA PollStatusStep ==
    ASSUME IInv, PollStatus
    PROVE  IInv'
<1> USE DEF PollStatus
<1>1. desktop.code \in Challenge
  BY DEF IInv, TypeOK, Desktop
<1>2. /\ desktop' \in Desktop
      /\ desktop'.code = desktop.code
      /\ desktop'.call = desktop.call
      /\ desktop'.shown \in {challenge[desktop.code].claimant, NoMobile}
  BY <1>1 DEF IInv, TypeOK, Desktop, ChallengeRow
<1>3. TypeOK'
  BY <1>2 DEF IInv, TypeOK
<1>4. CardInv'
  BY <1>1, <1>2 DEF IInv, CardInv
<1>5. UNCHANGED <<challenge, session, client, thread>>
  OBVIOUS
<1>6. QED
  BY <1>3, <1>4, <1>5, StatusChange

LEMMA CancelCardStep ==
    ASSUME IInv, CancelCard
    PROVE  IInv'
<1>1. TypeOK' /\ CardInv'
  BY DEF CancelCard, CardFor, IInv, TypeOK, CardInv, Desktop
<1>2. QED
  BY <1>1, StatusChange DEF CancelCard

\* The rows stay, and a thread keeps its request or is free again.
LEMMA RowsStay ==
    ASSUME IInv, UNCHANGED <<challenge, session>>,
           \A t \in Thread : thread'[t] \in {thread[t], Free}
    PROVE  ChallengeInv' /\ RequestInv' /\ ApprovedAsShown'
<1>1. ChallengeInv' /\ ApprovedAsShown'
  BY DEF IInv, ChallengeInv, ApprovedAsShown, IsApproved
<1>2. RequestInv'
  BY FreeFields DEF IInv, RequestInv
<1>3. QED
  BY <1>1, <1>2

LEMMA SendApproveStep ==
    ASSUME IInv, NEW t \in Thread, SendApprove(t)
    PROVE  IInv'
<1> USE DEF SendApprove
<1> DEFINE r == [Free EXCEPT !.op = "approve", !.by = desktop.shown,
                             !.challenge = desktop.code]
<1>1. /\ desktop.code \in Challenge
      /\ challenge[desktop.code].claimant = desktop.shown
      /\ desktop.shown \in Mobile
  BY DEF IInv, CardInv, TypeOK, Desktop
<1>2. /\ r \in Request
      /\ r.op = "approve" /\ r.stage = "received" /\ r.by = desktop.shown
      /\ r.challenge = desktop.code
  BY <1>1 DEF Free, Request
<1> HIDE DEF r
<1>3. /\ thread' = [thread EXCEPT ![t] = r]
      /\ desktop' = [desktop EXCEPT !.call = t]
      /\ thread[t] = Free
      /\ UNCHANGED <<challenge, session, client, lost>>
  BY DEF r
<1> HIDE DEF SendApprove
<1>4. /\ thread'[t] = r
      /\ \A u \in Thread \ {t} : thread'[u] = thread[u]
  BY <1>3 DEF IInv, TypeOK
<1>5. TypeOK'
  BY <1>2, <1>3 DEF IInv, TypeOK, Desktop
<1>6. ChallengeInv' /\ ApprovedAsShown' /\ DeviceHoldsOwnSession'
  BY <1>3 DEF IInv, ChallengeInv, ApprovedAsShown, DeviceHoldsOwnSession, IsApproved
<1>7. CardInv'
  BY <1>1, <1>2, <1>3, <1>4 DEF IInv, CardInv, TypeOK, Desktop
<1>8. RequestInv'
  <2>1. ASSUME NEW u \in Thread \ {t} PROVE RequestInv!(u)'
    BY <1>3, <1>4, <2>1 DEF IInv, RequestInv
  <2>2. RequestInv!(t)'
    BY <1>1, <1>2, <1>3, <1>4
  <2>3. QED
    BY <2>1, <2>2 DEF RequestInv
<1>9. ClientInv'
  BY <1>3, <1>4, FreeFields DEF IInv, ClientInv, TypeOK, Client
<1>10. QED
  BY <1>5, <1>6, <1>7, <1>8, <1>9 DEF IInv

\* The PC stops waiting for a thread, and only threads nobody waits for are freed.
LEMMA DesktopHangsUp ==
    ASSUME IInv, TypeOK', UNCHANGED <<challenge, session, client>>,
           desktop' = [desktop EXCEPT !.call = NoThread],
           \A t \in Thread : thread'[t] \in {thread[t], Free},
           \A t \in Thread \ {desktop.call} : thread'[t] = thread[t],
           desktop.call # NoThread
    PROVE  IInv'
<1>1. ChallengeInv' /\ RequestInv' /\ ApprovedAsShown'
  BY RowsStay
<1>2. CardInv'
  BY DEF IInv, CardInv, TypeOK, Desktop
<1>3. ClientInv'
  BY DEF IInv, CardInv, ClientInv, TypeOK, Client
<1>4. DeviceHoldsOwnSession'
  BY DEF IInv, DeviceHoldsOwnSession
<1>5. QED
  BY <1>1, <1>2, <1>3, <1>4 DEF IInv

LEMMA HearApprovalStep ==
    ASSUME IInv, HearApproval
    PROVE  IInv'
<1> USE DEF HearApproval
<1>1. desktop.call \in Thread
  BY DEF IInv, TypeOK, Desktop
<1>2. TypeOK'
  BY <1>1, FreeType DEF IInv, TypeOK, Desktop
<1>3. /\ \A t \in Thread : thread'[t] \in {thread[t], Free}
      /\ \A t \in Thread \ {desktop.call} : thread'[t] = thread[t]
  BY <1>1 DEF IInv, TypeOK
<1>4. QED
  BY <1>2, <1>3, DesktopHangsUp

LEMMA DesktopLosesConnectionStep ==
    ASSUME IInv, DesktopLosesConnection
    PROVE  IInv'
<1> USE DEF DesktopLosesConnection
<1>1. desktop.call \in Thread
  BY DEF IInv, TypeOK, Desktop
<1>2. /\ thread' \in [Thread -> Request]
      /\ \A t \in Thread : thread'[t] \in {thread[t], Free}
      /\ \A t \in Thread \ {desktop.call} : thread'[t] = thread[t]
  BY <1>1, ForsakenFacts DEF IInv
<1>3. TypeOK'
  BY <1>2, ConstantsOK DEF IInv, TypeOK, Desktop
<1>4. QED
  BY <1>2, <1>3, DesktopHangsUp

-----------------------------------------------------------------------------
(* The steps of the server. *)

\* A server thread keeps its request, or frees itself if nobody waits for it, and no
\* challenge changes its claimant.
LEMMA ThreadMoves ==
    ASSUME IInv, NEW t \in Thread, UNCHANGED <<desktop, client>>,
           \A u \in Thread \ {t} : thread'[u] = thread[u],
           \/ thread'[t].op = thread[t].op /\ thread'[t].by = thread[t].by
           \/ ~Awaited(t),
           \A c \in Challenge : challenge[c].claimant \in {NoMobile, challenge'[c].claimant}
    PROVE  CardInv' /\ ClientInv'
<1>1. CardInv'
  BY DEF IInv, CardInv, Awaited, TypeOK, Desktop
<1>2. ASSUME NEW m \in Mobile PROVE ClientInv!(m)'
  BY DEF IInv, ClientInv, Awaited, TypeOK, Client
<1>3. QED
  BY <1>1, <1>2 DEF ClientInv

\* A lookup only touches its thread.
LEMMA LookupMoves ==
    ASSUME IInv, NEW t \in Thread, UNCHANGED <<challenge, session, desktop, client, lost>>,
           thread' \in [Thread -> Request],
           \A u \in Thread \ {t} : thread'[u] = thread[u],
           \/ thread'[t].op = thread[t].op /\ thread'[t].by = thread[t].by
           \/ ~Awaited(t),
           RequestInv!(t)'
    PROVE  IInv'
<1>1. TypeOK'
  BY DEF IInv, TypeOK
<1>2. ChallengeInv' /\ ApprovedAsShown' /\ DeviceHoldsOwnSession'
  BY DEF IInv, ChallengeInv, ApprovedAsShown, DeviceHoldsOwnSession, IsApproved
<1>3. CardInv' /\ ClientInv'
  BY ThreadMoves
<1>4. RequestInv'
  <2>1. ASSUME NEW u \in Thread \ {t} PROVE RequestInv!(u)'
    BY DEF IInv, RequestInv
  <2>2. QED
    BY <2>1 DEF RequestInv
<1>5. QED
  BY <1>1, <1>2, <1>3, <1>4 DEF IInv

\* An answer keeps RequestInv, if an answered completion is one of the claimant's session.
LEMMA AnswerMoves ==
    ASSUME IInv, NEW t \in Thread, NEW a \in {"none", "ok", "not approved", "refused"},
           Answer(t, a), thread[t].op # "none",
           challenge'[thread[t].challenge].claimant = challenge[thread[t].challenge].claimant
              \/ thread[t].op = "claim",
           thread[t].op = "complete" /\ a = "ok" =>
              /\ session'[thread[t].challenge].status # "none"
              /\ session'[thread[t].challenge].mobile = thread[t].by
    PROVE  RequestInv!(t)'
BY AnswerFacts, FreeFields DEF IInv, RequestInv

LEMMA LookupForClaimStep ==
    ASSUME IInv, NEW t \in Thread, LookupForClaim(t)
    PROVE  IInv'
<1> USE DEF LookupForClaim, Received
<1>1. CASE Answer(t, "refused")
  BY <1>1, AnswerFacts, AnswerMoves, LookupMoves DEF IInv
<1>2. CASE thread' = [thread EXCEPT ![t].stage = "found"]
  <2>1. /\ thread' \in [Thread -> Request]
        /\ \A u \in Thread \ {t} : thread'[u] = thread[u]
        /\ thread'[t] = [thread[t] EXCEPT !.stage = "found"]
    BY <1>2 DEF IInv, TypeOK, Request
  <2>2. /\ thread'[t].op = "claim"
        /\ thread'[t].by = thread[t].by
        /\ thread'[t].challenge = thread[t].challenge
    BY <2>1 DEF IInv, TypeOK, Request
  <2>3. RequestInv!(t)'
    BY <2>2 DEF IInv, RequestInv
  <2>4. QED
    BY <2>1, <2>2, <2>3, LookupMoves
<1>3. QED
  BY <1>1, <1>2

\* The claimant of a challenge is set once, by the claim.
LEMMA ClaimStep ==
    ASSUME IInv, NEW t \in Thread, Claim(t)
    PROVE  IInv'
<1> USE DEF Claim, Found
<1> DEFINE c == thread[t].challenge
<1>1. c \in Challenge /\ thread[t].by \in Mobile
  BY DEF IInv, RequestInv
<1>2. UNCHANGED <<session, desktop, client, lost>>
  OBVIOUS
<1>3. CASE ~StillClaimable(c)
  <2>1. Answer(t, "refused") /\ UNCHANGED challenge
    BY <1>3
  <2>2. QED
    BY <1>2, <2>1, AnswerFacts, AnswerMoves, LookupMoves DEF IInv
<1>4. CASE StillClaimable(c)
  <2>1. /\ challenge' = [challenge EXCEPT ![c].status = "claimed",
                                          ![c].claimant = thread[t].by]
        /\ Answer(t, "ok")
    BY <1>4
  <2>2. /\ challenge[c].status = "pending"
        /\ challenge[c].claimant = NoMobile
        /\ session[c].status = "none"
    BY <1>1, <1>4 DEF StillClaimable, IInv, ChallengeInv
  <2>3. /\ challenge' \in [Challenge -> ChallengeRow]
        /\ challenge'[c].status = "claimed"
        /\ challenge'[c].claimant = thread[t].by
        /\ \A x \in Challenge \ {c} : challenge'[x] = challenge[x]
    BY <1>1, <2>1 DEF IInv, TypeOK, ChallengeRow, Stored, Active
  <2>4. /\ thread' \in [Thread -> Request]
        /\ \A u \in Thread \ {t} : thread'[u] = thread[u]
        /\ \/ thread'[t].op = thread[t].op /\ thread'[t].by = thread[t].by
           \/ ~Awaited(t)
    BY <2>1, AnswerFacts DEF IInv
  <2>5. TypeOK'
    BY <1>2, <2>3, <2>4 DEF IInv, TypeOK
  <2>6. ChallengeInv'
    BY <1>1, <1>2, <2>2, <2>3 DEF IInv, ChallengeInv, IsApproved
  <2>7. CardInv' /\ ClientInv'
    BY <1>2, <2>2, <2>3, <2>4, ThreadMoves
  <2>8. RequestInv'
    <3>1. ASSUME NEW u \in Thread \ {t} PROVE RequestInv!(u)'
      BY <1>2, <2>2, <2>3, <2>4, ConstantsOK DEF IInv, RequestInv
    <3>2. RequestInv!(t)'
      BY <2>1, AnswerMoves
    <3>3. QED
      BY <3>1, <3>2 DEF RequestInv
  <2>9. ApprovedAsShown' /\ DeviceHoldsOwnSession'
    BY <1>2 DEF IInv, ApprovedAsShown, DeviceHoldsOwnSession
  <2>10. QED
    BY <2>5, <2>6, <2>7, <2>8, <2>9 DEF IInv
<1>5. QED
  BY <1>3, <1>4

LEMMA LookupForApprovalStep ==
    ASSUME IInv, NEW t \in Thread, LookupForApproval(t)
    PROVE  IInv'
<1> USE DEF LookupForApproval, Received
<1> DEFINE c == thread[t].challenge
<1>1. /\ c \in Challenge
      /\ challenge[c].claimant = thread[t].by
      /\ thread[t].by \in Mobile
  BY DEF IInv, RequestInv
<1>2. CASE Answer(t, "refused")
  BY <1>2, AnswerFacts, AnswerMoves, LookupMoves DEF IInv
<1>3. CASE thread' = [thread EXCEPT ![t].stage = "found",
                                    ![t].found = challenge[c].claimant]
  <2>1. /\ thread' \in [Thread -> Request]
        /\ \A u \in Thread \ {t} : thread'[u] = thread[u]
        /\ thread'[t] = [thread[t] EXCEPT !.stage = "found", !.found = thread[t].by]
    <3>1. [thread[t] EXCEPT !.stage = "found", !.found = thread[t].by] \in Request
      BY <1>1 DEF IInv, TypeOK, Request
    <3>2. thread' = [thread EXCEPT ![t] = [thread[t] EXCEPT !.stage = "found",
                                                            !.found = thread[t].by]]
      BY <1>1, <1>3 DEF IInv, TypeOK
    <3>3. QED
      BY <3>1, <3>2 DEF IInv, TypeOK
  <2>2. /\ thread'[t].op = "approve"
        /\ thread'[t].by = thread[t].by
        /\ thread'[t].found = thread[t].by
        /\ thread'[t].challenge = c
    BY <2>1 DEF IInv, TypeOK, Request
  <2>3. RequestInv!(t)'
    BY <1>1, <2>2
  <2>4. QED
    BY <2>1, <2>2, <2>3, LookupMoves
<1>4. QED
  BY <1>2, <1>3

\* The session is created for the claimant, and lookup and screen named the same device.
LEMMA ApproveStep ==
    ASSUME IInv, NEW t \in Thread, Approve(t)
    PROVE  IInv'
<1> USE DEF Approve, Found
<1> DEFINE c == thread[t].challenge
<1>1. /\ c \in Challenge
      /\ thread[t].by \in Mobile
      /\ challenge[c].claimant = thread[t].by
      /\ thread[t].found = thread[t].by
  BY DEF IInv, RequestInv
<1>2. UNCHANGED <<desktop, client, lost>>
  OBVIOUS
<1>3. CASE challenge[c].status # "claimed"
  <2>1. Answer(t, "refused") /\ UNCHANGED <<challenge, session>>
    BY <1>3
  <2>2. QED
    BY <1>2, <2>1, AnswerFacts, AnswerMoves, LookupMoves DEF IInv
<1>4. CASE challenge[c].status = "claimed"
  <2>1. /\ challenge' = [challenge EXCEPT ![c].status = "approved"]
        /\ session' = [session EXCEPT ![c] =
                         [status |-> "active", mobile |-> thread[t].by,
                          token |-> thread[t].by, shown |-> thread[t].by]]
        /\ Answer(t, "ok")
    BY <1>1, <1>4
  <2>2. /\ challenge' \in [Challenge -> ChallengeRow]
        /\ challenge'[c].status = "approved"
        /\ \A x \in Challenge : challenge'[x].claimant = challenge[x].claimant
        /\ \A x \in Challenge \ {c} : challenge'[x] = challenge[x]
    BY <1>1, <2>1 DEF IInv, TypeOK, ChallengeRow, Stored, Active
  <2>3. /\ session' \in [Challenge -> SessionRow]
        /\ session'[c].status = "active"
        /\ session'[c].mobile = thread[t].by
        /\ session'[c].token = thread[t].by
        /\ session'[c].shown = thread[t].by
        /\ \A x \in Challenge \ {c} : session'[x] = session[x]
        /\ session[c].status = "none"
    BY <1>1, <1>4, <2>1 DEF IInv, TypeOK, SessionRow, ChallengeInv
  <2>4. /\ thread' \in [Thread -> Request]
        /\ \A u \in Thread \ {t} : thread'[u] = thread[u]
        /\ \/ thread'[t].op = thread[t].op /\ thread'[t].by = thread[t].by
           \/ ~Awaited(t)
    BY <2>1, AnswerFacts DEF IInv
  <2>5. TypeOK'
    BY <1>2, <2>2, <2>3, <2>4 DEF IInv, TypeOK
  <2>6. ChallengeInv'
    BY <1>1, <2>2, <2>3 DEF IInv, ChallengeInv, IsApproved
  <2>7. CardInv' /\ ClientInv'
    BY <1>2, <2>2, <2>4, ThreadMoves
  <2>8. RequestInv'
    <3>1. ASSUME NEW u \in Thread \ {t} PROVE RequestInv!(u)'
      BY <2>2, <2>3, <2>4 DEF IInv, RequestInv
    <3>2. RequestInv!(t)'
      BY <1>1, <2>1, <2>2, AnswerMoves
    <3>3. QED
      BY <3>1, <3>2 DEF RequestInv
  <2>9. ApprovedAsShown'
    BY <1>1, <2>3 DEF IInv, ApprovedAsShown
  <2>10. DeviceHoldsOwnSession'
    BY <1>2, <2>3 DEF IInv, DeviceHoldsOwnSession, TypeOK, Client
  <2>11. QED
    BY <2>5, <2>6, <2>7, <2>8, <2>9, <2>10 DEF IInv
<1>5. QED
  BY <1>3, <1>4

\* Whose receipt matches is the claimant of the session, once there is one.
LEMMA ReceiptIsOfClaimant ==
    ASSUME IInv, NEW t \in Thread, thread[t].challenge \in Challenge,
           ReceiptMatches(thread[t]), IsApproved(thread[t].challenge)
    PROVE  /\ session[thread[t].challenge].status # "none"
           /\ session[thread[t].challenge].mobile = thread[t].by
BY DEF IInv, ChallengeInv, ReceiptMatches

LEMMA LookupForCompletionStep ==
    ASSUME IInv, NEW t \in Thread, LookupForCompletion(t)
    PROVE  IInv'
<1> USE DEF LookupForCompletion, Received
<1> DEFINE c == thread[t].challenge
<1>1. c \in Challenge /\ thread[t].by \in Mobile
  BY DEF IInv, RequestInv
<1>2. ASSUME NEW a \in {"ok", "not approved", "refused"}, Answer(t, a),
             a = "ok" => ReceiptMatches(thread[t]) /\ IsApproved(c)
      PROVE  IInv'
  <2>1. a = "ok" => session[c].status # "none" /\ session[c].mobile = thread[t].by
    BY <1>1, <1>2, ReceiptIsOfClaimant
  <2>2. QED
    BY <1>2, <2>1, AnswerFacts, AnswerMoves, LookupMoves DEF IInv
<1>3. ASSUME thread' = [thread EXCEPT ![t].stage = "found"],
             ReceiptMatches(thread[t]), IsApproved(c)
      PROVE  IInv'
  <2>1. /\ thread' \in [Thread -> Request]
        /\ \A u \in Thread \ {t} : thread'[u] = thread[u]
        /\ thread'[t] = [thread[t] EXCEPT !.stage = "found"]
    BY <1>3 DEF IInv, TypeOK, Request
  <2>2. /\ thread'[t].op = "complete"
        /\ thread'[t].by = thread[t].by
        /\ thread'[t].challenge = c
    BY <2>1 DEF IInv, TypeOK, Request
  <2>3. RequestInv!(t)'
    BY <1>1, <1>3, <2>2, ReceiptIsOfClaimant
  <2>4. QED
    BY <2>1, <2>2, <2>3, LookupMoves
<1>4. QED
  BY <1>2, <1>3 DEF IsApproved

LEMMA ConsumeStep ==
    ASSUME IInv, NEW t \in Thread, Consume(t)
    PROVE  IInv'
<1> USE DEF Consume, Found
<1> DEFINE c == thread[t].challenge
<1>1. /\ c \in Challenge
      /\ session[c].status # "none"
      /\ session[c].mobile = thread[t].by
  BY DEF IInv, RequestInv
<1>2. UNCHANGED <<session, desktop, client, lost>>
  OBVIOUS
<1>3. CASE challenge[c].status # "approved"
  <2>1. Answer(t, "refused") /\ UNCHANGED challenge
    BY <1>3
  <2>2. QED
    BY <1>2, <2>1, AnswerFacts, AnswerMoves, LookupMoves DEF IInv
<1>4. CASE challenge[c].status = "approved"
  <2>1. /\ challenge' = [challenge EXCEPT ![c].status = "consumed"]
        /\ Answer(t, "ok")
    BY <1>4
  <2>2. /\ challenge' \in [Challenge -> ChallengeRow]
        /\ challenge'[c].status = "consumed"
        /\ \A x \in Challenge : challenge'[x].claimant = challenge[x].claimant
        /\ \A x \in Challenge \ {c} : challenge'[x] = challenge[x]
    BY <1>1, <2>1 DEF IInv, TypeOK, ChallengeRow, Stored, Active
  <2>3. /\ thread' \in [Thread -> Request]
        /\ \A u \in Thread \ {t} : thread'[u] = thread[u]
        /\ \/ thread'[t].op = thread[t].op /\ thread'[t].by = thread[t].by
           \/ ~Awaited(t)
    BY <2>1, AnswerFacts DEF IInv
  <2>4. TypeOK'
    BY <1>2, <2>2, <2>3 DEF IInv, TypeOK
  <2>5. ChallengeInv'
    BY <1>2, <1>4, <2>2 DEF IInv, ChallengeInv, IsApproved
  <2>6. CardInv' /\ ClientInv'
    BY <1>2, <2>2, <2>3, ThreadMoves
  <2>7. RequestInv'
    <3>1. ASSUME NEW u \in Thread \ {t} PROVE RequestInv!(u)'
      BY <1>2, <2>2, <2>3 DEF IInv, RequestInv
    <3>2. RequestInv!(t)'
      BY <1>1, <1>2, <2>1, <2>2, AnswerMoves
    <3>3. QED
      BY <3>1, <3>2 DEF RequestInv
  <2>8. ApprovedAsShown' /\ DeviceHoldsOwnSession'
    BY <1>2 DEF IInv, ApprovedAsShown, DeviceHoldsOwnSession
  <2>9. QED
    BY <2>4, <2>5, <2>6, <2>7, <2>8 DEF IInv
<1>5. QED
  BY <1>3, <1>4

-----------------------------------------------------------------------------
(* The steps of the PWA. *)

\* A device cookie is of a session of that device (DeviceHoldsOwnSession for one PWA).
HoldsOwnSession(m, k) ==
    k.device # NoChallenge =>
        /\ session[k.device].status # "none"
        /\ session[k.device].token = m
        /\ session[k.device].mobile = m

\* A PWA changes, and stops waiting for its request unless the threads are left alone.
LEMMA ClientMoves ==
    ASSUME IInv, NEW m \in Mobile, NEW k \in Client, UNCHANGED <<challenge, session, desktop>>,
           lost' \in 0 .. MaxLost,
           client' = [client EXCEPT ![m] = k],
           thread' \in [Thread -> Request],
           \A t \in Thread : thread'[t] \in {thread[t], Free},
           \A t \in Thread : t # client[m].call => thread'[t] = thread[t],
           \/ k.call = NoThread
           \/ k.call = client[m].call /\ thread' = thread,
           k.polls < MaxPolls,
           k.phase = "waiting" => k.pairing \in Challenge,
           HoldsOwnSession(m, k)
    PROVE  IInv'
<1>1. TypeOK'
  BY DEF IInv, TypeOK
<1>2. ChallengeInv' /\ RequestInv' /\ ApprovedAsShown'
  BY RowsStay
<1>3. CardInv'
  BY DEF IInv, CardInv, ClientInv, TypeOK, Desktop
<1>4. client'[m] = k /\ \A n \in Mobile \ {m} : client'[n] = client[n]
  BY DEF IInv, TypeOK
<1>5. ClientInv'
  <2>1. ASSUME NEW n \in Mobile \ {m} PROVE ClientInv!(n)'
    <3>1. client[n].call # NoThread => client[n].call # client[m].call
      BY DEF IInv, ClientInv
    <3>2. QED
      BY <3>1, <1>4 DEF IInv, ClientInv, TypeOK, Client
  <2>2. ClientInv!(m)'
    BY <1>4 DEF IInv, ClientInv
  <2>3. QED
    BY <2>1, <2>2 DEF ClientInv
<1>6. DeviceHoldsOwnSession'
  BY <1>4 DEF IInv, DeviceHoldsOwnSession, HoldsOwnSession
<1>7. QED
  BY <1>1, <1>2, <1>3, <1>5, <1>6 DEF IInv

LEMMA OwnSession ==
    ASSUME IInv, NEW m \in Mobile
    PROVE  HoldsOwnSession(m, client[m])
BY DEF IInv, DeviceHoldsOwnSession, HoldsOwnSession

\* Cookies of an answer the PWA waits for: a device cookie is of its own session.
LEMMA CookiesHoldOwnSession ==
    ASSUME IInv, NEW m \in Mobile, client[m].call # NoThread
    PROVE  /\ client[m].call \in Thread
           /\ thread[client[m].call] \in Request
           /\ thread[client[m].call].challenge \in Challenge
           /\ WithCookies(client[m], thread[client[m].call]) \in Client
           /\ HoldsOwnSession(m, WithCookies(client[m], thread[client[m].call]))
<1> DEFINE t == client[m].call
           r == thread[t]
           k == WithCookies(client[m], r)
<1>1. t \in Thread /\ client[m] \in Client /\ r \in Request
  BY DEF IInv, TypeOK, Client
<1>2. /\ r.op \in {"claim", "complete"}
      /\ r.by = m
      /\ r.challenge \in Challenge
      /\ r.op = "complete" /\ r.answer = "ok" =>
            session[r.challenge].status # "none" /\ session[r.challenge].mobile = m
  BY <1>1 DEF IInv, ClientInv, RequestInv
<1>3. k.device # client[m].device => r.answer = "ok" /\ r.op # "claim" /\ k.device = r.challenge
  BY <1>1, <1>2, WithCookiesType
<1>4. CASE k.device = client[m].device
  BY <1>1, <1>2, <1>4, OwnSession, WithCookiesType DEF HoldsOwnSession
<1>5. CASE k.device # client[m].device
  <2>1. session[r.challenge].token = m
    BY <1>2, <1>3, <1>5 DEF IInv, ApprovedAsShown
  <2>2. QED
    BY <1>1, <1>2, <1>3, <1>5, <2>1, WithCookiesType DEF HoldsOwnSession
<1>6. QED
  BY <1>4, <1>5

\* A PWA sends a request of its own with a free thread.
LEMMA RequestSent ==
    ASSUME IInv, NEW m \in Mobile, NEW t \in Thread, NEW r \in Request, NEW k \in Client,
           UNCHANGED <<challenge, session, desktop, lost>>,
           thread[t] = Free,
           thread' = [thread EXCEPT ![t] = r],
           client' = [client EXCEPT ![m] = k],
           r.op \in {"claim", "complete"}, r.by = m, r.challenge \in Challenge,
           r.stage = "received", r.answer = "none",
           k.call = t, k.polls < MaxPolls, k.device = client[m].device,
           k.phase = "waiting" => k.pairing \in Challenge
    PROVE  IInv'
<1>1. TypeOK'
  BY DEF IInv, TypeOK
<1>2. ChallengeInv' /\ ApprovedAsShown'
  BY DEF IInv, ChallengeInv, ApprovedAsShown, IsApproved
<1>3. /\ thread'[t] = r /\ \A u \in Thread \ {t} : thread'[u] = thread[u]
      /\ client'[m] = k /\ \A n \in Mobile \ {m} : client'[n] = client[n]
  BY DEF IInv, TypeOK
<1>4. CardInv'
  BY <1>3, FreeFields DEF IInv, CardInv, TypeOK, Desktop
<1>5. RequestInv'
  <2>1. ASSUME NEW u \in Thread \ {t} PROVE RequestInv!(u)'
    BY <1>3 DEF IInv, RequestInv
  <2>2. RequestInv!(t)'
    BY <1>3
  <2>3. QED
    BY <2>1, <2>2 DEF RequestInv
<1>6. ClientInv'
  <2>1. ASSUME NEW n \in Mobile \ {m} PROVE ClientInv!(n)'
    BY <1>3, FreeFields DEF IInv, ClientInv, TypeOK, Client
  <2>2. ClientInv!(m)'
    BY <1>3
  <2>3. QED
    BY <2>1, <2>2 DEF ClientInv
<1>7. DeviceHoldsOwnSession'
  BY <1>3 DEF IInv, DeviceHoldsOwnSession
<1>8. QED
  BY <1>1, <1>2, <1>4, <1>5, <1>6, <1>7 DEF IInv

LEMMA SendClaimStep ==
    ASSUME IInv, NEW m \in Mobile, NEW t \in Thread, NEW c \in Challenge, SendClaim(m, t, c)
    PROVE  IInv'
<1> DEFINE r == [Free EXCEPT !.op = "claim", !.by = m, !.challenge = c]
           k == [client[m] EXCEPT !.phase = "claiming", !.call = t]
<1>1. /\ r \in Request
      /\ r.op = "claim" /\ r.by = m /\ r.challenge = c
      /\ r.stage = "received" /\ r.answer = "none"
  BY DEF Free, Request
<1>2. /\ k \in Client
      /\ k.call = t /\ k.phase = "claiming" /\ k.polls < MaxPolls
      /\ k.device = client[m].device
  <2>1. client[m] \in Client /\ client[m].polls < MaxPolls
    BY DEF IInv, TypeOK, ClientInv
  <2>2. QED
    BY <2>1 DEF Client
<1>3. /\ UNCHANGED <<challenge, session, desktop, lost>>
      /\ thread[t] = Free
      /\ thread' = [thread EXCEPT ![t] = r]
      /\ client' = [client EXCEPT ![m] = k]
  BY DEF SendClaim, IInv, TypeOK
<1> HIDE DEF r, k
<1>4. QED
  BY <1>1, <1>2, <1>3, RequestSent

LEMMA SendCompleteStep ==
    ASSUME IInv, NEW m \in Mobile, NEW t \in Thread, SendComplete(m, t)
    PROVE  IInv'
<1> DEFINE r == [Free EXCEPT !.op = "complete", !.by = m, !.challenge = client[m].pairing,
                             !.receipt = client[m].receipt]
           k == [client[m] EXCEPT !.call = t]
<1>1. client[m] \in Client /\ client[m].pairing \in Challenge
  BY DEF SendComplete, IInv, TypeOK, ClientInv
<1>2. /\ r \in Request
      /\ r.op = "complete" /\ r.by = m /\ r.challenge = client[m].pairing
      /\ r.stage = "received" /\ r.answer = "none"
  BY <1>1 DEF Free, Request, Client
<1>3. /\ k \in Client
      /\ k.call = t /\ k.pairing = client[m].pairing /\ k.polls < MaxPolls
      /\ k.device = client[m].device
  BY <1>1 DEF IInv, Client, ClientInv
<1>4. /\ UNCHANGED <<challenge, session, desktop, lost>>
      /\ thread[t] = Free
      /\ thread' = [thread EXCEPT ![t] = r]
      /\ client' = [client EXCEPT ![m] = k]
  BY DEF SendComplete, IInv, TypeOK
<1> HIDE DEF r, k
<1>5. QED
  BY <1>1, <1>2, <1>3, <1>4, RequestSent

LEMMA PrepareHandoffStep ==
    ASSUME IInv, NEW m \in Mobile, NEW c \in Challenge, PrepareHandoff(m, c)
    PROVE  IInv'
<1> DEFINE k == [client[m] EXCEPT !.receipt = NoChallenge]
<1>1. /\ k \in Client
      /\ k.call = client[m].call /\ k.phase = client[m].phase /\ k.polls = client[m].polls
      /\ k.pairing = client[m].pairing /\ k.device = client[m].device
  BY DEF IInv, TypeOK, Client
<1>2. /\ UNCHANGED <<challenge, session, desktop, thread, lost>>
      /\ client' = [client EXCEPT ![m] = k]
  BY DEF PrepareHandoff, IInv, TypeOK
<1>3. HoldsOwnSession(m, k)
  BY <1>1, OwnSession DEF HoldsOwnSession
<1> HIDE DEF k
<1>4. QED
  BY <1>1, <1>2, <1>3, ClientMoves DEF IInv, TypeOK, ClientInv

LEMMA HearAnswerStep ==
    ASSUME IInv, NEW m \in Mobile, HearAnswer(m)
    PROVE  IInv'
<1> DEFINE t == client[m].call
           k == WithCookies(client[m], thread[t])
           h == IF thread[t].op = "claim" THEN AfterClaim(k, thread[t])
                ELSE AfterCompletion(k, thread[t])
<1>1. /\ t # NoThread
      /\ client' = [client EXCEPT ![m] = h]
      /\ thread' = [thread EXCEPT ![t] = Free]
      /\ UNCHANGED <<challenge, session, desktop, lost>>
  BY DEF HearAnswer
<1>2. /\ t \in Thread
      /\ thread[t] \in Request
      /\ thread[t].challenge \in Challenge
      /\ k \in Client
      /\ HoldsOwnSession(m, k)
  BY <1>1, CookiesHoldOwnSession
<1>3. /\ k.polls < MaxPolls
      /\ k.phase = "waiting" => k.pairing \in Challenge
  BY <1>2, WithCookiesType DEF IInv, TypeOK, ClientInv
<1> HIDE DEF k
<1>4. /\ h \in Client
      /\ h.device = k.device
      /\ h.polls < MaxPolls
      /\ h.call = NoThread
      /\ h.phase = "waiting" => h.pairing \in Challenge
  <2>1. CASE thread[t].op = "claim"
    BY <2>1, <1>2, <1>3, AfterClaimType
  <2>2. CASE thread[t].op # "claim"
    BY <2>2, <1>2, <1>3, AfterCompletionType
  <2>3. QED
    BY <2>1, <2>2
<1>5. HoldsOwnSession(m, h)
  BY <1>2, <1>4 DEF HoldsOwnSession
<1>6. /\ thread' \in [Thread -> Request]
      /\ \A u \in Thread : thread'[u] \in {thread[u], Free}
      /\ \A u \in Thread : u # client[m].call => thread'[u] = thread[u]
  BY <1>1, <1>2, FreeType DEF IInv, TypeOK
<1> HIDE DEF h, t
<1>7. QED
  BY <1>1, <1>4, <1>5, <1>6, ClientMoves DEF IInv, TypeOK

LEMMA LoseConnectionStep ==
    ASSUME IInv, NEW m \in Mobile, LoseConnection(m)
    PROVE  IInv'
<1> DEFINE h == IF client[m].phase = "claiming" THEN Stopped(client[m])
                ELSE Retried(client[m])
<1>1. /\ client[m] \in Client
      /\ client[m].polls < MaxPolls
      /\ client[m].phase = "waiting" => client[m].pairing \in Challenge
      /\ client[m].call \in Thread
  BY DEF LoseConnection, IInv, TypeOK, ClientInv, Client
<1>2. /\ client' = [client EXCEPT ![m] = h]
      /\ thread' = Forsaken(client[m].call)
      /\ UNCHANGED <<challenge, session, desktop>>
  BY DEF LoseConnection, IInv, TypeOK
<1>3. lost' \in 0 .. MaxLost
  BY ConstantsOK DEF LoseConnection, IInv, TypeOK
<1>4. /\ h \in Client
      /\ h.device = client[m].device
      /\ h.polls < MaxPolls
      /\ h.call = NoThread
      /\ h.phase = "waiting" => h.pairing \in Challenge
  <2>1. 0 < MaxPolls
    BY ConstantsOK
  <2>2. CASE client[m].phase = "claiming"
    BY <1>1, <2>1, <2>2, StoppedType
  <2>3. CASE client[m].phase # "claiming"
    BY <1>1, <2>3, RetriedType
  <2>4. QED
    BY <2>2, <2>3
<1>5. HoldsOwnSession(m, h)
  BY <1>4, OwnSession DEF HoldsOwnSession
<1> HIDE DEF h
<1>6. /\ thread' \in [Thread -> Request]
      /\ \A u \in Thread : thread'[u] \in {thread[u], Free}
      /\ \A u \in Thread : u # client[m].call => thread'[u] = thread[u]
  BY <1>1, <1>2, ForsakenFacts DEF IInv
<1>7. QED
  BY <1>2, <1>3, <1>4, <1>5, <1>6, ClientMoves

LEMMA CancelWaitStep ==
    ASSUME IInv, NEW m \in Mobile, CancelWait(m)
    PROVE  IInv'
<1> DEFINE h == IF client[m].call = NoThread THEN Stopped(client[m])
                ELSE [client[m] EXCEPT !.cancelled = TRUE, !.stored = NoChallenge]
<1>1. /\ client[m] \in Client
      /\ client[m].polls < MaxPolls
      /\ client[m].phase = "waiting" => client[m].pairing \in Challenge
  BY DEF IInv, TypeOK, ClientInv
<1>2. /\ client' = [client EXCEPT ![m] = h]
      /\ UNCHANGED <<challenge, session, desktop, thread, lost>>
  BY DEF CancelWait, IInv, TypeOK
<1>3. /\ h \in Client
      /\ h.device = client[m].device
      /\ h.polls < MaxPolls
      /\ h.call = client[m].call
      /\ h.phase = "waiting" => h.pairing \in Challenge
  <2>1. 0 < MaxPolls
    BY ConstantsOK
  <2>2. CASE client[m].call = NoThread
    BY <1>1, <2>1, <2>2, StoppedType
  <2>3. CASE client[m].call # NoThread
    BY <1>1, <2>3 DEF Client
  <2>4. QED
    BY <2>2, <2>3
<1>4. HoldsOwnSession(m, h)
  BY <1>3, OwnSession DEF HoldsOwnSession
<1> HIDE DEF h
<1>5. QED
  BY <1>2, <1>3, <1>4, ClientMoves DEF IInv, TypeOK

LEMMA RestartStep ==
    ASSUME IInv, NEW m \in Mobile, Restart(m)
    PROVE  IInv'
<1> DEFINE t == client[m].call
<1>1. PICK k \in {client[m]} \cup (IF t # NoThread /\ Answered(t)
                                   THEN {WithCookies(client[m], thread[t])} ELSE {}) :
         client' = [client EXCEPT ![m] = [Stopped(k) EXCEPT !.stored = k.stored]]
  BY DEF Restart
<1>2. /\ thread' = IF t = NoThread THEN thread ELSE Forsaken(t)
      /\ UNCHANGED <<challenge, session, desktop>>
  BY DEF Restart
<1>3. lost' \in 0 .. MaxLost
  BY ConstantsOK DEF Restart, IInv, TypeOK
<1>4. k \in Client /\ HoldsOwnSession(m, k)
  <2>1. client[m] \in Client
    BY DEF IInv, TypeOK
  <2>2. QED
    BY <1>1, <2>1, OwnSession, CookiesHoldOwnSession
<1> DEFINE h == [Stopped(k) EXCEPT !.stored = k.stored]
<1>5. /\ h \in Client
      /\ h.device = k.device
      /\ h.polls = 0
      /\ h.call = NoThread
      /\ h.phase = "idle"
  BY <1>4, StoppedType DEF Client
<1>6. HoldsOwnSession(m, h)
  BY <1>4, <1>5 DEF HoldsOwnSession
<1>7. /\ thread' \in [Thread -> Request]
      /\ \A u \in Thread : thread'[u] \in {thread[u], Free}
      /\ \A u \in Thread : u # client[m].call => thread'[u] = thread[u]
  <2>1. CASE t = NoThread
    BY <1>2, <2>1 DEF IInv, TypeOK
  <2>2. CASE t # NoThread
    BY <1>2, <2>2, ForsakenFacts DEF IInv, TypeOK, Client
  <2>3. QED
    BY <2>1, <2>2
<1>8. 0 < MaxPolls
  BY ConstantsOK
<1> HIDE DEF h, t
<1>9. client' = [client EXCEPT ![m] = h]
  BY <1>1 DEF h
<1>10. QED
  BY <1>2, <1>3, <1>5, <1>6, <1>7, <1>8, <1>9, ClientMoves

LEMMA ResumeStep ==
    ASSUME IInv, NEW m \in Mobile, Resume(m)
    PROVE  IInv'
<1> DEFINE h == IF Connected(m) THEN Stopped(client[m])
                ELSE [client[m] EXCEPT !.phase = "waiting", !.pairing = client[m].stored]
<1>1. /\ client[m] \in Client
      /\ client[m].polls < MaxPolls
      /\ client[m].stored \in Challenge
  BY DEF Resume, IInv, TypeOK, ClientInv, Client
<1>2. /\ client' = [client EXCEPT ![m] = h]
      /\ UNCHANGED <<challenge, session, desktop, thread, lost>>
  BY DEF Resume, IInv, TypeOK
<1>3. /\ h \in Client
      /\ h.device = client[m].device
      /\ h.polls < MaxPolls
      /\ h.call \in {client[m].call, NoThread}
      /\ h.phase = "waiting" => h.pairing \in Challenge
  <2>1. 0 < MaxPolls
    BY ConstantsOK
  <2>2. CASE Connected(m)
    BY <1>1, <2>1, <2>2, StoppedType
  <2>3. CASE ~Connected(m)
    BY <1>1, <2>3 DEF Client
  <2>4. QED
    BY <2>2, <2>3
<1>4. HoldsOwnSession(m, h)
  BY <1>3, OwnSession DEF HoldsOwnSession
<1> HIDE DEF h
<1>5. QED
  BY <1>2, <1>3, <1>4, ClientMoves DEF IInv, TypeOK

-----------------------------------------------------------------------------
(* The theorems. *)

LEMMA NextIInv == IInv /\ [Next]_vars => IInv'
<1> SUFFICES ASSUME IInv, [Next]_vars PROVE IInv'
  OBVIOUS
<1>1. ASSUME NEW c \in Challenge, CreatePairing(c) \/ EndSession(c) \/ DeleteChallenge(c)
      PROVE  IInv'
  BY <1>1, CreatePairingStep, EndSessionStep, DeleteChallengeStep
<1>2. CASE PollStatus \/ CancelCard \/ HearApproval \/ DesktopLosesConnection
  BY <1>2, PollStatusStep, CancelCardStep, HearApprovalStep, DesktopLosesConnectionStep
<1>3. CASE ResetIdentity \/ Tick
  BY <1>3, ResetIdentityStep, TickStep
<1>4. ASSUME NEW t \in Thread, SendApprove(t) \/ ServerStep(t)
      PROVE  IInv'
  BY <1>4, SendApproveStep, LookupForClaimStep, ClaimStep, LookupForApprovalStep,
     ApproveStep, LookupForCompletionStep, ConsumeStep DEF ServerStep
<1>5. ASSUME NEW m \in Mobile, NEW t \in Thread, SendComplete(m, t) PROVE IInv'
  BY <1>5, SendCompleteStep
<1>6. ASSUME NEW m \in Mobile, NEW t \in Thread, NEW c \in Challenge, SendClaim(m, t, c)
      PROVE  IInv'
  BY <1>6, SendClaimStep
<1>7. ASSUME NEW m \in Mobile, NEW c \in Challenge, PrepareHandoff(m, c) PROVE IInv'
  BY <1>7, PrepareHandoffStep
<1>8. ASSUME NEW m \in Mobile, \/ HearAnswer(m) \/ LoseConnection(m) \/ CancelWait(m)
                                \/ Restart(m) \/ Resume(m)
      PROVE  IInv'
  BY <1>8, HearAnswerStep, LoseConnectionStep, CancelWaitStep, RestartStep, ResumeStep
<1>9. CASE UNCHANGED vars
  BY <1>9 DEF vars, IInv, TypeOK, ChallengeInv, CardInv, RequestInv, ClientInv,
              ApprovedAsShown, DeviceHoldsOwnSession, IsApproved
<1>10. QED
  BY <1>1, <1>2, <1>3, <1>4, <1>5, <1>6, <1>7, <1>8, <1>9 DEF Next

\* The inductive invariant holds in every reachable state.
THEOREM Invariant == Spec => []IInv
BY InitIInv, NextIInv, PTL DEF Spec

\* Rows, card, clients and requests keep their types; a wait never counts past its limit.
THEOREM TypeCorrect == Spec => []TypeOK
<1>1. IInv => TypeOK
  BY DEF IInv
<1>2. QED
  BY <1>1, Invariant, PTL

\* approveAndCreateMobileSession gives the session to the device the PC showed.
THEOREM SessionIsForTheDeviceShown == Spec => []ApprovedAsShown
<1>1. IInv => ApprovedAsShown
  BY DEF IInv
<1>2. QED
  BY <1>1, Invariant, PTL

\* No PWA ever holds the cookie of a session made for another one.
THEOREM CookieIsOwn == Spec => []DeviceHoldsOwnSession
<1>1. IInv => DeviceHoldsOwnSession
  BY DEF IInv
<1>2. QED
  BY <1>1, Invariant, PTL

-----------------------------------------------------------------------------
(* Pairing implements DeviceAccess. *)

LEMMA InitRefines == Init => Access!AccessInit
BY DEF Init, NoSession, AccessOf, Access!AccessInit

\* Codes keep what the owner sees of them, or are over.
LEMMA MappedEnd ==
    ASSUME \A c \in Challenge : challenge'[c].claimant = challenge[c].claimant,
           \A c \in Challenge : AccessOf(c)' \in {AccessOf(c), "over"}
    PROVE  Access!AccessNext
<1> DEFINE S == {c \in Challenge : AccessOf(c)' = "over"}
<1>1. \A c \in Challenge :
         AccessOf(c)' = IF c \in S THEN "over" ELSE [x \in Challenge |-> AccessOf(x)][c]
  OBVIOUS
<1>2. Access!End(S)
  BY <1>1 DEF Access!End
<1>3. S \in SUBSET Challenge
  OBVIOUS
<1> HIDE DEF S
<1>4. QED
  BY <1>2, <1>3 DEF Access!AccessNext

LEMMA NothingMapped ==
    ASSUME UNCHANGED <<challenge, session>>
    PROVE  UNCHANGED Access!accessVars
BY DEF Access!accessVars, AccessOf

\* What the owner sees of a challenge whose rows stay as they are.
LEMMA AccessStays ==
    ASSUME NEW c \in Challenge, challenge'[c] = challenge[c], session'[c] = session[c]
    PROVE  AccessOf(c)' = AccessOf(c)
BY DEF AccessOf

LEMMA CreateMaps ==
    ASSUME IInv, NEW c \in Challenge, CreatePairing(c)
    PROVE  Access!AccessNext
<1>1. \A x \in Challenge :
         /\ challenge'[x].claimant = challenge[x].claimant
         /\ \/ challenge'[x].status = challenge[x].status
            \/ challenge'[x].status = "deleted"
            \/ challenge[x].status = "unused" /\ challenge'[x].status = "pending"
         /\ session'[x] = session[x]
  BY DEF CreatePairing, IInv, TypeOK, ChallengeRow
<1>2. QED
  BY <1>1, MappedEnd DEF AccessOf

LEMMA EndSessionMaps ==
    ASSUME IInv, NEW c \in Challenge, EndSession(c)
    PROVE  Access!AccessNext
<1>1. /\ challenge' = challenge
      /\ session'[c].status = "ended"
      /\ \A x \in Challenge \ {c} : session'[x] = session[x]
  BY DEF EndSession, IInv, TypeOK, SessionRow
<1>2. QED
  BY <1>1, MappedEnd DEF AccessOf

LEMMA DeleteMaps ==
    ASSUME IInv, NEW c \in Challenge, DeleteChallenge(c)
    PROVE  Access!AccessNext
<1>1. /\ session' = session
      /\ \A x \in Challenge : /\ challenge'[x].claimant = challenge[x].claimant
                              /\ challenge'[x].status \in {challenge[x].status, "deleted"}
  BY DEF DeleteChallenge, IInv, TypeOK, ChallengeRow
<1>2. QED
  BY <1>1, MappedEnd DEF AccessOf

LEMMA ResetMaps ==
    ASSUME IInv, ResetIdentity
    PROVE  Access!AccessNext
<1>1. \A x \in Challenge :
         /\ challenge'[x].claimant = challenge[x].claimant
         /\ challenge'[x].status \in {challenge[x].status, "deleted"}
         /\ session'[x].status = IF session[x].status = "active" THEN "ended"
                                 ELSE session[x].status
  BY DEF ResetIdentity, IInv, TypeOK, ChallengeRow, SessionRow
<1>2. QED
  BY <1>1, MappedEnd DEF AccessOf

LEMMA TickMaps ==
    ASSUME IInv, Tick
    PROVE  Access!AccessNext
<1>1. /\ session' = session
      /\ \A x \in Challenge : /\ challenge'[x].claimant = challenge[x].claimant
                              /\ challenge'[x].status = challenge[x].status
  BY DEF Tick, IInv, TypeOK, ChallengeRow
<1>2. QED
  BY <1>1, MappedEnd DEF AccessOf

\* A claim that takes is the first question asked with its code.
LEMMA ClaimMaps ==
    ASSUME IInv, NEW t \in Thread, Claim(t)
    PROVE  [Access!AccessNext]_(Access!accessVars)
<1>0. PICK c \in Challenge : c = thread[t].challenge
  BY DEF Claim, Found, IInv, RequestInv
<1>1. thread[t].by \in Mobile /\ session' = session
  BY DEF Claim, Found, IInv, RequestInv
<1>2. CASE ~StillClaimable(c)
  BY <1>0, <1>2, NothingMapped DEF Claim
<1>3. CASE StillClaimable(c)
  <2>1. /\ challenge[c].status = "pending"
        /\ session[c].status = "none"
        /\ challenge' = [challenge EXCEPT ![c].status = "claimed",
                                          ![c].claimant = thread[t].by]
    BY <1>0, <1>1, <1>3 DEF Claim, StillClaimable, IInv, ChallengeInv
  <2>2. /\ challenge'[c].status = "claimed"
        /\ challenge'[c].claimant = thread[t].by
        /\ \A x \in Challenge \ {c} : challenge'[x] = challenge[x]
    BY <1>1, <2>1 DEF IInv, TypeOK, ChallengeRow
  <2>3. AccessOf(c) = "none" /\ AccessOf(c)' = "asked"
    BY <1>1, <2>1, <2>2 DEF AccessOf
  <2>4. \A x \in Challenge \ {c} : AccessOf(x)' = AccessOf(x)
    BY <1>1, <2>2, AccessStays
  <2>5. PICK m \in Mobile : m = thread[t].by
    BY <1>1
  <2>6. Access!Ask(c, m)
    BY <2>2, <2>3, <2>4, <2>5 DEF Access!Ask
  <2>7. QED
    BY <2>6 DEF Access!AccessNext
<1>4. QED
  BY <1>2, <1>3

\* An approval that takes lets in the device that asked.
LEMMA ApproveMaps ==
    ASSUME IInv, NEW t \in Thread, Approve(t)
    PROVE  [Access!AccessNext]_(Access!accessVars)
<1>0. PICK c \in Challenge : c = thread[t].challenge
  BY DEF Approve, Found, IInv, RequestInv
<1>2. CASE challenge[c].status # "claimed"
  BY <1>0, <1>2, NothingMapped DEF Approve
<1>3. CASE challenge[c].status = "claimed"
  <2>1. /\ session[c].status = "none"
        /\ challenge' = [challenge EXCEPT ![c].status = "approved"]
        /\ session' = [session EXCEPT ![c] =
                         [status |-> "active", mobile |-> challenge[c].claimant,
                          token |-> thread[t].found, shown |-> thread[t].by]]
    BY <1>0, <1>3 DEF Approve, IInv, ChallengeInv
  <2>2. /\ session'[c].status = "active"
        /\ \A x \in Challenge : challenge'[x].claimant = challenge[x].claimant
        /\ \A x \in Challenge \ {c} : challenge'[x] = challenge[x] /\ session'[x] = session[x]
    BY <2>1 DEF IInv, TypeOK, ChallengeRow
  <2>3. AccessOf(c) = "asked" /\ AccessOf(c)' = "granted"
    BY <1>3, <2>1, <2>2 DEF AccessOf
  <2>4. \A x \in Challenge \ {c} : AccessOf(x)' = AccessOf(x)
    BY <2>2, AccessStays
  <2>5. Access!Grant(c)
    BY <2>2, <2>3, <2>4 DEF Access!Grant
  <2>6. QED
    BY <2>5 DEF Access!AccessNext
<1>4. QED
  BY <1>2, <1>3

\* A completion hands the token out and changes nothing for the owner.
LEMMA ConsumeMaps ==
    ASSUME IInv, NEW t \in Thread, Consume(t)
    PROVE  [Access!AccessNext]_(Access!accessVars)
<1>0. PICK c \in Challenge : c = thread[t].challenge
  BY DEF Consume, Found, IInv, RequestInv
<1>1. session' = session
  BY DEF Consume
<1>2. CASE challenge[c].status # "approved"
  BY <1>0, <1>2, NothingMapped DEF Consume
<1>3. CASE challenge[c].status = "approved"
  <2>1. /\ session[c].status # "none"
        /\ challenge' = [challenge EXCEPT ![c].status = "consumed"]
    BY <1>0, <1>1, <1>3 DEF Consume, IInv, ChallengeInv, IsApproved
  <2>2. /\ challenge'[c].status = "consumed"
        /\ \A x \in Challenge : challenge'[x].claimant = challenge[x].claimant
        /\ \A x \in Challenge \ {c} : challenge'[x] = challenge[x]
    BY <1>1, <2>1 DEF IInv, TypeOK, ChallengeRow
  <2>3. AccessOf(c)' = AccessOf(c)
    BY <1>1, <1>3, <2>1, <2>2 DEF AccessOf
  <2>4. \A x \in Challenge : AccessOf(x)' = AccessOf(x)
    BY <1>1, <2>2, <2>3, AccessStays
  <2>5. QED
    BY <2>2, <2>4, MappedEnd
<1>4. QED
  BY <1>2, <1>3

\* Every step of pairing is a step of DeviceAccess or leaves what the owner sees alone.
LEMMA StepRefines ==
    ASSUME IInv, [Next]_vars
    PROVE  [Access!AccessNext]_(Access!accessVars)
<1>1. ASSUME NEW c \in Challenge, CreatePairing(c) \/ EndSession(c) \/ DeleteChallenge(c)
      PROVE  Access!AccessNext
  BY <1>1, CreateMaps, EndSessionMaps, DeleteMaps
<1>2. CASE PollStatus \/ CancelCard \/ HearApproval \/ DesktopLosesConnection
  BY <1>2, NothingMapped DEF PollStatus, CancelCard, HearApproval, DesktopLosesConnection
<1>3. CASE ResetIdentity \/ Tick
  BY <1>3, ResetMaps, TickMaps
<1>4. ASSUME NEW t \in Thread, SendApprove(t) \/ ServerStep(t)
      PROVE  [Access!AccessNext]_(Access!accessVars)
  <2>1. CASE \/ SendApprove(t) \/ LookupForClaim(t) \/ LookupForApproval(t)
             \/ LookupForCompletion(t)
    BY <2>1, NothingMapped
    DEF SendApprove, LookupForClaim, LookupForApproval, LookupForCompletion
  <2>2. QED
    BY <1>4, <2>1, ClaimMaps, ApproveMaps, ConsumeMaps DEF ServerStep
<1>5. ASSUME NEW m \in Mobile, NEW t \in Thread, SendComplete(m, t)
      PROVE  UNCHANGED Access!accessVars
  BY <1>5, NothingMapped DEF SendComplete
<1>6. ASSUME NEW m \in Mobile, NEW t \in Thread, NEW c \in Challenge, SendClaim(m, t, c)
      PROVE  UNCHANGED Access!accessVars
  BY <1>6, NothingMapped DEF SendClaim
<1>7. ASSUME NEW m \in Mobile, NEW c \in Challenge, PrepareHandoff(m, c)
      PROVE  UNCHANGED Access!accessVars
  BY <1>7, NothingMapped DEF PrepareHandoff
<1>8. ASSUME NEW m \in Mobile, \/ HearAnswer(m) \/ LoseConnection(m) \/ CancelWait(m)
                                \/ Restart(m) \/ Resume(m)
      PROVE  UNCHANGED Access!accessVars
  BY <1>8, NothingMapped DEF HearAnswer, LoseConnection, CancelWait, Restart, Resume
<1>9. CASE UNCHANGED vars
  BY <1>9, NothingMapped DEF vars
<1>10. QED
  BY <1>1, <1>2, <1>3, <1>4, <1>5, <1>6, <1>7, <1>8, <1>9 DEF Next

\* Pairing keeps its promise to the owner of the PC: one device per code, let in once at
\* most, after it asked, and never again once its access is over.
THEOREM PairingImplementsAccess == Spec => ImplementsAccess
BY Invariant, InitRefines, StepRefines, PTL DEF Spec, ImplementsAccess, Access!AccessSpec
=============================================================================
