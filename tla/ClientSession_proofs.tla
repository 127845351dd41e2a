------------------------- MODULE ClientSession_proofs -------------------------
(***************************************************************************)
(* Proofs about the sessions the client lives by: the token the requests   *)
(* of the PC's web view share, for every number of requests, tokens and    *)
(* resets; the attendance record it shows, for every clock, every queue of *)
(* events and every reset; and the account with its gate, for every length *)
(* of a session, reach of a timer and length of the wait.                  *)
(***************************************************************************)
EXTENDS DesktopSession, DesktopAttendance, AccountAccess, SequenceTheorems, TLAPS

Commands == [kind : {"bootstrap", "reset"}, generation : 0..MaxResets]
Tokens == [identity : 0..MaxResets, life : Lives, revoked : BOOLEAN]

-----------------------------------------------------------------------------
(* Steps of a request. *)

\* The types by their short names.
LEMMA Types ==
    ASSUME SessionInv
    PROVE  /\ MaxResets \in Nat /\ MaxTokens \in Nat /\ NoToken \notin Nat
           /\ tokens \in Seq(Tokens) /\ commands \subseteq Commands
           /\ Len(tokens) \in Nat /\ DOMAIN tokens = 1 .. Len(tokens)
           /\ \A t \in 1 .. Len(tokens) : tokens[t] \in Tokens
           /\ Idle \in Requests /\ RequestInv(Idle)
           /\ \A c \in Callers : caller[c] \in Requests /\ RequestInv(caller[c])
           /\ generation \in 0..MaxResets /\ identity \in 0..MaxResets
<1>1. /\ MaxResets \in Nat /\ MaxTokens \in Nat /\ NoToken \notin Nat
      /\ generation \in 0..MaxResets /\ identity \in 0..MaxResets
      /\ \A c \in Callers : caller[c] \in Requests /\ RequestInv(caller[c])
  BY DesktopSessionAssumption DEF SessionInv, SessionTypeOK
<1>2. tokens \in Seq(Tokens) /\ commands \subseteq Commands
  BY DEF SessionInv, SessionTypeOK, Tokens, Commands
<1>3. /\ Len(tokens) \in Nat /\ DOMAIN tokens = 1 .. Len(tokens)
      /\ \A t \in 1 .. Len(tokens) : tokens[t] \in Tokens
  BY <1>2, LenProperties, ElementOfSeq
<1>4. Idle \in Requests /\ RequestInv(Idle)
  BY <1>1 DEF Idle, Requests, RequestInv
<1>5. QED
  BY <1>1, <1>2, <1>3, <1>4

\* A command by its parts.
LEMMA CommandParts ==
    ASSUME NEW kind \in {"bootstrap", "reset"}, NEW g \in 0..MaxResets
    PROVE  /\ Command(kind, g) \in Commands
           /\ Command(kind, g).kind = kind /\ Command(kind, g).generation = g
BY DEF Command, Commands

\* A request changes; with it a bootstrap may be asked for and the token dropped.
LEMMA RequestStep ==
    ASSUME SessionInv, NEW c \in Callers, NEW request \in Requests,
           RequestInv(request), caller' = [caller EXCEPT ![c] = request],
           commands' = commands \/ commands' = BootstrapAsked,
           current' = current \/ current' = NoToken,
           UNCHANGED <<identity, registered, tokens, generation, resets>>
    PROVE  SessionInv'
<1>0. PICK bootstrap \in Commands :
         /\ bootstrap = Command("bootstrap", generation)
         /\ bootstrap.kind = "bootstrap" /\ bootstrap.generation = generation
  BY Types, CommandParts
<1>1. commands' = commands \/ commands' = commands \union {bootstrap}
  BY <1>0 DEF BootstrapAsked
<1>2. commands' \subseteq Commands /\ Resets' = Resets
  BY <1>0, <1>1, Types DEF Resets
<1>3. SessionTypeOK'
  BY <1>2 DEF SessionInv, SessionTypeOK, Requests, Commands
<1>4. CommandInv'
  <2>1. \A command \in commands' : command.generation <= generation
    BY <1>0, <1>1, Types DEF SessionInv, CommandInv
  <2>2. QED
    BY <2>1 DEF SessionInv, CommandInv
<1>5. ASSUME NEW d \in Callers PROVE RequestInv(caller[d])'
  <2>1. RequestInv(caller'[d])
    BY DEF SessionInv, SessionTypeOK
  <2>2. QED
    BY <1>2, <2>1 DEF RequestInv, Accepted
<1>6. QED
  BY <1>3, <1>4, <1>5 DEF SessionInv

\* A request that fails starts anew.
LEMMA FailStep ==
    ASSUME SessionInv, NEW c \in Callers, Fail(c),
           UNCHANGED <<identity, registered, tokens, commands, generation, current, resets>>
    PROVE  SessionInv'
BY Types, RequestStep DEF Fail

LEMMA ServerAnswersStep ==
    ASSUME SessionInv, NEW c \in Callers, ServerAnswers(c)
    PROVE  SessionInv'
<1>0. caller[c] \in Requests /\ RequestInv(caller[c])
  BY Types
<1>1. PICK early : early \in BOOLEAN /\ early = (Resets # {})
  OBVIOUS
<1>2. PICK status \in AnswersTo(caller[c].token) :
         caller' = [caller EXCEPT ![c] = [@ EXCEPT !.step = "answered", !.status = status,
                                            !.identity = tokens[caller[c].token].identity,
                                            !.early = early]]
  <2>1. PICK status \in AnswersTo(caller[c].token) :
           caller' = [caller EXCEPT ![c] = [@ EXCEPT !.step = "answered", !.status = status,
                                              !.identity = tokens[caller[c].token].identity,
                                              !.early = Resets # {}]]
    BY Zenon DEF ServerAnswers
  <2>2. caller' = [caller EXCEPT ![c] = [@ EXCEPT !.step = "answered", !.status = status,
                                              !.identity = tokens[caller[c].token].identity,
                                              !.early = early]]
    BY <1>1, <2>1, Zenon
  <2>3. QED
    BY <2>2
<1>21. early \in BOOLEAN
  BY <1>1
<1>3. caller[c].token \in DOMAIN tokens /\ tokens[caller[c].token] \in Tokens
  BY <1>0, Types DEF ServerAnswers, Requests, RequestInv
<1>4. PICK who \in 0..MaxResets : who = tokens[caller[c].token].identity
  BY <1>3 DEF Tokens
<1>5. status \in {0, 200, 401, 500}
  BY <1>2 DEF AnswersTo
<1>6. PICK moved : moved = [caller[c] EXCEPT !.step = "answered"]
  OBVIOUS
<1>7. PICK marked : marked = [moved EXCEPT !.status = status]
  OBVIOUS
<1>8. PICK named : named = [marked EXCEPT !.identity = who]
  OBVIOUS
<1>9. PICK request : request = [named EXCEPT !.early = early]
  OBVIOUS
<1>10. moved \in Requests
  BY <1>0, <1>6 DEF Requests
<1>11. marked \in Requests
  BY <1>5, <1>7, <1>10 DEF Requests
<1>12. named \in Requests
  BY <1>4, <1>8, <1>11 DEF Requests
<1>13. request \in Requests
  BY <1>21, <1>9, <1>12 DEF Requests
<1>14. /\ request.step = "answered" /\ request.status = status
       /\ request.identity = who /\ request.early = early
       /\ request.generation = caller[c].generation /\ request.token = caller[c].token
  BY <1>0, <1>6, <1>7, <1>8, <1>9, <1>10, <1>11, <1>12, <1>13 DEF Requests
<1>15. request = [caller[c] EXCEPT !.step = "answered", !.status = status,
                                   !.identity = who, !.early = early]
  BY <1>0, <1>6, <1>7, <1>8, <1>9, <1>10, <1>11, <1>12, <1>13 DEF Requests
<1>16. caller' = [caller EXCEPT ![c] = request]
  BY <1>2, <1>4, <1>15 DEF SessionInv, SessionTypeOK
<1>17. Accepted(caller[c].token) => who = identity
  BY <1>3, <1>4 DEF Accepted, SessionInv, CommandInv
<1>18. RequestInv(request)
  <2>1. request.generation <= generation /\ request.token # NoToken
    BY <1>0, <1>14 DEF RequestInv, ServerAnswers
  <2>2. status = 401 => ~Accepted(caller[c].token)
    BY <1>2 DEF AnswersTo
  <2>3. status # 401 => Accepted(caller[c].token)
    BY <1>2 DEF AnswersTo
  <2>4. QED
    BY <1>1, <1>14, <1>17, <2>1, <2>2, <2>3 DEF RequestInv
<1>19. QED
  BY <1>13, <1>16, <1>18, RequestStep DEF ServerAnswers

LEMMA DeliverStep ==
    ASSUME SessionInv, NEW c \in Callers, Deliver(c)
    PROVE  SessionInv'
<1>1. CASE Fail(c)
  BY <1>1, FailStep DEF Deliver
<1>2. CASE caller' = [caller EXCEPT ![c] = [Idle EXCEPT !.step = "delivered"]]
  <2>1. PICK request : request = [Idle EXCEPT !.step = "delivered"]
    OBVIOUS
  <2>2. request \in Requests
    BY <2>1, Types DEF Requests
  <2>6. request.step = "delivered" /\ request.generation = 0
    BY <2>1 DEF Idle
  <2>3. RequestInv(request)
    BY <2>6, Types DEF RequestInv
  <2>4. caller' = [caller EXCEPT ![c] = request]
    BY <1>2, <2>1
  <2>5. QED
    BY <2>2, <2>3, <2>4, RequestStep DEF Deliver
<1>3. QED
  BY <1>1, <1>2 DEF Deliver

\* A request that gets a token is sent with it.
LEMMA SentFields ==
    ASSUME SessionInv, NEW retry \in BOOLEAN,
           NEW token \in DOMAIN tokens
    PROVE  \E request \in Requests :
             /\ request = [Idle EXCEPT !.step = "sent", !.token = token,
                                       !.generation = generation, !.retry = retry]
             /\ request.step = "sent" /\ request.token = token
             /\ request.generation = generation
<1>1. Idle \in Requests /\ generation \in 0..MaxResets
  BY Types
<1>2. PICK placed : placed = [Idle EXCEPT !.step = "sent"]
  OBVIOUS
<1>3. placed \in Requests
  BY <1>1, <1>2 DEF Requests
<1>4. PICK leased : leased = [placed EXCEPT !.token = token]
  OBVIOUS
<1>5. leased \in Requests
  BY <1>3, <1>4 DEF Requests
<1>6. PICK dated : dated = [leased EXCEPT !.generation = generation]
  OBVIOUS
<1>7. dated \in Requests
  BY <1>1, <1>5, <1>6 DEF Requests
<1>8. PICK request : request = [dated EXCEPT !.retry = retry]
  OBVIOUS
<1>9. request \in Requests
  BY <1>7, <1>8 DEF Requests
<1>10. /\ request = [Idle EXCEPT !.step = "sent", !.token = token,
                                 !.generation = generation, !.retry = retry]
       /\ request.step = "sent" /\ request.token = token
       /\ request.generation = generation
  BY <1>1, <1>2, <1>3, <1>4, <1>5, <1>6, <1>7, <1>8, <1>9 DEF Requests
<1>11. QED
  BY <1>9, <1>10

\* A request without a token waits for the bootstrap of this generation.
LEMMA WaitingFields ==
    ASSUME SessionInv, NEW retry \in BOOLEAN
    PROVE  \E request \in Requests :
             /\ request = [Idle EXCEPT !.step = "waiting",
                                       !.generation = generation, !.retry = retry]
             /\ request.step = "waiting" /\ request.generation = generation
<1>1. Idle \in Requests /\ generation \in 0..MaxResets
  BY Types
<1>2. PICK placed : placed = [Idle EXCEPT !.step = "waiting"]
  OBVIOUS
<1>3. placed \in Requests
  BY <1>1, <1>2 DEF Requests
<1>4. PICK dated : dated = [placed EXCEPT !.generation = generation]
  OBVIOUS
<1>5. dated \in Requests
  BY <1>1, <1>3, <1>4 DEF Requests
<1>6. PICK request : request = [dated EXCEPT !.retry = retry]
  OBVIOUS
<1>7. request \in Requests
  BY <1>5, <1>6 DEF Requests
<1>8. /\ request = [Idle EXCEPT !.step = "waiting",
                                !.generation = generation, !.retry = retry]
      /\ request.step = "waiting" /\ request.generation = generation
  BY <1>1, <1>2, <1>3, <1>4, <1>5, <1>6, <1>7 DEF Requests
<1>9. QED
  BY <1>7, <1>8

\* sessionLease() with the token that is current or with none.
LEMMA LeaseStep ==
    ASSUME SessionInv, NEW c \in Callers, NEW retry \in BOOLEAN,
           NEW token \in {current, NoToken}, Lease(c, token, retry), current' = token,
           UNCHANGED <<identity, registered, tokens, generation, resets>>
    PROVE  SessionInv'
<1>1. token \in DOMAIN tokens \union {NoToken}
  BY DEF SessionInv, SessionTypeOK
<1>2. PICK request \in Requests :
        /\ caller' = [caller EXCEPT ![c] = request]
        /\ request.generation = generation
        /\ request.step = "sent" => token # NoToken /\ request.token = token
        /\ request.step \in {"sent", "waiting"}
  <2>1. CASE Usable(token)
    <3>1. token # NoToken /\ token \in DOMAIN tokens
      BY <1>1, <2>1 DEF Usable
    <3>2. PICK request \in Requests :
            /\ request = [Idle EXCEPT !.step = "sent", !.token = token,
                                      !.generation = generation, !.retry = retry]
            /\ request.step = "sent" /\ request.token = token
            /\ request.generation = generation
      BY <3>1, SentFields
    <3>3. caller' = [caller EXCEPT ![c] = request]
      BY <2>1, <3>2 DEF Lease
    <3>4. QED
      BY <3>1, <3>2, <3>3
  <2>2. CASE ~Usable(token)
    <3>1. PICK request \in Requests :
            /\ request = [Idle EXCEPT !.step = "waiting",
                                      !.generation = generation, !.retry = retry]
            /\ request.step = "waiting" /\ request.generation = generation
      BY WaitingFields
    <3>2. caller' = [caller EXCEPT ![c] = request]
      BY <2>2, <3>1 DEF Lease
    <3>3. QED
      BY <3>1, <3>2
  <2>3. QED
    BY <2>1, <2>2
<1>3. commands' = commands \/ commands' = BootstrapAsked
  BY DEF Lease
<1>4. RequestInv(request)
  BY <1>2, Types DEF RequestInv
<1>5. QED
  BY <1>2, <1>3, <1>4, RequestStep

LEMMA AnswerArrivesStep ==
    ASSUME SessionInv, NEW c \in Callers, AnswerArrives(c)
    PROVE  SessionInv'
<1>1. CASE ~Current(c)
  BY <1>1, FailStep DEF AnswerArrives
<1>2. CASE Current(c) /\ Rejected(c)
  <2>1. AfterRejection(c) \in {current, NoToken}
    BY DEF AfterRejection
  <2>2. QED
    BY <1>2, <2>1, LeaseStep DEF AnswerArrives
<1>3. CASE Current(c) /\ ~Rejected(c)
  <2>0. caller[c] \in Requests /\ RequestInv(caller[c])
    BY Types
  <2>1. PICK request : request = [caller[c] EXCEPT !.step = "reading"]
    OBVIOUS
  <2>2. /\ request \in Requests
        /\ request.step = "reading" /\ request.status = caller[c].status
        /\ request.identity = caller[c].identity /\ request.early = caller[c].early
        /\ request.generation = caller[c].generation /\ request.token = caller[c].token
    BY <2>0, <2>1 DEF Requests
  <2>3. RequestInv(request)
    BY <2>0, <2>2 DEF RequestInv, AnswerArrives
  <2>4. caller' = [caller EXCEPT ![c] = request]
    BY <1>3, <2>1 DEF AnswerArrives, SessionInv, SessionTypeOK
  <2>5. QED
    BY <1>3, <2>2, <2>3, <2>4, RequestStep DEF AnswerArrives
<1>4. QED
  BY <1>1, <1>2, <1>3

\* What happens to one request.
LEMMA CallerSteps ==
    ASSUME SessionInv, NEW c \in Callers,
           StartRequest(c) \/ ServerAnswers(c) \/ ConnectionLost(c) \/ AnswerArrives(c)
           \/ Deliver(c) \/ Forget(c)
    PROVE  SessionInv'
<1>1. CASE StartRequest(c)
  BY <1>1, LeaseStep DEF StartRequest
<1>2. CASE ConnectionLost(c)
  BY <1>2, FailStep DEF ConnectionLost
<1>3. CASE Forget(c)
  BY <1>3, Types, RequestStep DEF Forget
<1>4. QED
  BY <1>1, <1>2, <1>3, ServerAnswersStep, AnswerArrivesStep, DeliverStep

\* clear() makes all that is under way one of a former generation.
LEMMA ResetIdentityStep ==
    ASSUME SessionInv, ResetIdentity
    PROVE  SessionInv'
<1>1. /\ generation' = generation + 1 /\ current' = NoToken
      /\ resets' = resets + 1 /\ resets < MaxResets /\ resets = generation
      /\ UNCHANGED <<identity, registered, tokens, caller>>
  BY DEF ResetIdentity, Cleared, SessionInv, CommandInv
<1>2. generation + 1 \in 0..MaxResets
  BY <1>1, Types
<1>3. PICK reset \in Commands :
         reset = Command("reset", generation + 1) /\ reset.generation = generation + 1
  BY <1>2, CommandParts
<1>4. commands' = commands \union {reset}
  BY <1>3 DEF ResetIdentity, Cleared
<1>5. SessionTypeOK'
  BY <1>1, <1>2, <1>4 DEF SessionInv, SessionTypeOK, Requests, Commands
<1>6. CommandInv'
  <2>1. ASSUME NEW command \in commands' PROVE command.generation <= generation + 1
    <3>1. CASE command = reset
      BY <1>2, <1>3, <3>1
    <3>2. CASE command \in commands
      <4>1. command.generation \in 0..MaxResets /\ command.generation <= generation
        BY <3>2, Types DEF Commands, SessionInv, CommandInv
      <4>2. QED
        BY <4>1, Types
    <3>3. QED
      BY <1>4, <3>1, <3>2
  <2>2. QED
    BY <1>1, <2>1 DEF SessionInv, CommandInv
<1>7. ASSUME NEW d \in Callers PROVE RequestInv(caller[d])'
  <2>1. RequestInv(caller[d]) /\ caller[d].generation \in 0..MaxResets
    BY Types DEF Requests
  <2>2. caller[d].generation < generation + 1
    BY <2>1, Types DEF RequestInv
  <2>3. QED
    BY <1>1, <2>1, <2>2, Types DEF RequestInv, Accepted
<1>8. QED
  BY <1>5, <1>6, <1>7 DEF SessionInv

-----------------------------------------------------------------------------
(* Steps of the native side and the server. *)

\* A bootstrap that is worked off leaves the resets as they are.
LEMMA BootstrapTaken ==
    ASSUME SessionInv, NEW g \in 0..MaxResets,
           commands' = commands \ {Command("bootstrap", g)}
    PROVE  /\ commands' \subseteq Commands /\ Resets' = Resets
           /\ \A command \in commands' : command.generation <= generation
BY Types, CommandParts DEF Resets, SessionInv, CommandInv

LEMMA BootstrapRefusedStep ==
    ASSUME SessionInv, NEW g \in 0..MaxResets, BootstrapRefused(g)
    PROVE  SessionInv'
<1>1. /\ commands' \subseteq Commands /\ Resets' = Resets
      /\ \A command \in commands' : command.generation <= generation
      /\ UNCHANGED <<identity, registered, tokens, generation, current, resets>>
  BY BootstrapTaken DEF BootstrapRefused
<1>2. ASSUME NEW c \in Callers
      PROVE  caller'[c] \in Requests /\ RequestInv(caller'[c])
  BY Types DEF BootstrapRefused
<1>3. SessionTypeOK'
  BY <1>1, <1>2 DEF BootstrapRefused, SessionInv, SessionTypeOK, Requests, Commands
<1>4. CommandInv'
  BY <1>1 DEF SessionInv, CommandInv
<1>5. ASSUME NEW c \in Callers PROVE RequestInv(caller[c])'
  BY <1>1, <1>2 DEF RequestInv, Accepted
<1>6. QED
  BY <1>3, <1>4, <1>5 DEF SessionInv

\* A new token is of the identity of this moment.
LEMMA BootstrapIssuedStep ==
    ASSUME SessionInv, NEW g \in 0..MaxResets, BootstrapIssued(g)
    PROVE  SessionInv'
<1>1. PICK token : token = [identity |-> identity, life |-> "fresh", revoked |-> FALSE]
  OBVIOUS
<1>2. token \in Tokens /\ token.identity = identity
  BY <1>1, Types DEF Tokens, Lives
<1>3. /\ commands' \subseteq Commands /\ Resets' = Resets
      /\ \A command \in commands' : command.generation <= generation
  BY BootstrapTaken DEF BootstrapIssued
<1>4. /\ tokens' = Append(tokens, token)
      /\ current' = IF g = generation THEN Len(tokens) + 1 ELSE current
      /\ caller' = [c \in Callers |->
            IF ~Waits(c, g) THEN caller[c]
            ELSE IF g = generation
            THEN [caller[c] EXCEPT !.step = "sent", !.token = Len(tokens) + 1]
            ELSE Idle]
      /\ UNCHANGED <<identity, registered, generation, resets>>
  BY <1>1 DEF BootstrapIssued
<1>5. /\ tokens' \in Seq(Tokens) /\ DOMAIN tokens' = 1 .. Len(tokens) + 1
      /\ \A t \in 1 .. Len(tokens) : tokens'[t] = tokens[t]
      /\ tokens'[Len(tokens) + 1] = token
  <2>1. tokens \in Seq(Tokens)
    BY Types
  <2>2. /\ tokens' \in Seq(Tokens) /\ Len(tokens') = Len(tokens) + 1
        /\ \A t \in 1 .. Len(tokens) : tokens'[t] = tokens[t]
        /\ tokens'[Len(tokens) + 1] = token
    <3>1. tokens' = Append(tokens, token)
      BY <1>4
    <3>2. QED
      BY <1>2, <2>1, <3>1, AppendProperties
  <2>3. DOMAIN tokens' = 1 .. Len(tokens')
    BY <2>2, LenProperties
  <2>4. QED
    BY <2>2, <2>3
<1>6. PICK new : new = Len(tokens) + 1 /\ new \in DOMAIN tokens' /\ new # NoToken
  BY <1>5, Types
<1>7. ASSUME NEW c \in Callers, NEW request, request = caller'[c]
      PROVE  request \in Requests' /\ RequestInv(request)'
  <2>1. caller[c] \in Requests' /\ Idle \in Requests'
    BY <1>5, Types DEF Requests
  <2>2. CASE ~Waits(c, g)
    <3>1. request = caller[c]
      BY <1>4, <1>7, <2>2
    <3>2. RequestInv(request) /\ request.token \in DOMAIN tokens \union {NoToken}
      BY <3>1, Types DEF Requests
    <3>3. request.token # NoToken => tokens'[request.token] = tokens[request.token]
      BY <1>5, <3>2, Types
    <3>4. RequestInv(request)'
      BY <1>3, <1>4, <3>2, <3>3 DEF RequestInv, Accepted
    <3>5. QED
      BY <2>1, <3>1, <3>4
  <2>3. CASE Waits(c, g) /\ g = generation
    <3>1. request = [caller[c] EXCEPT !.step = "sent", !.token = new]
      BY <1>4, <1>6, <1>7, <2>3
    <3>2. PICK placed : placed = [caller[c] EXCEPT !.step = "sent"]
      OBVIOUS
    <3>3. placed \in Requests'
      BY <2>1, <3>2 DEF Requests
    <3>4. request = [placed EXCEPT !.token = new]
      BY <2>1, <3>1, <3>2, <3>3 DEF Requests
    <3>5. request \in Requests'
      BY <1>6, <3>3, <3>4 DEF Requests
    <3>6. /\ request.step = "sent" /\ request.token = new
          /\ request.generation = caller[c].generation
      BY <2>1, <3>1 DEF Requests
    <3>7. RequestInv(request)'
      BY <1>4, <1>6, <2>3, <3>6, Types DEF RequestInv, Waits
    <3>8. QED
      BY <3>5, <3>7
  <2>4. CASE Waits(c, g) /\ g # generation
    <3>1. request = Idle
      BY <1>4, <1>7, <2>4
    <3>2. RequestInv(Idle)'
      BY <1>4, Types DEF RequestInv, Idle
    <3>3. QED
      BY <2>1, <3>1, <3>2
  <2>5. QED
    BY <2>2, <2>3, <2>4
<1>8. caller' \in [Callers -> Requests']
  BY <1>4, <1>7
<1>9. current' \in DOMAIN tokens' \union {NoToken}
  <2>1. DOMAIN tokens = 1 .. Len(tokens) /\ Len(tokens) \in Nat
    BY Types
  <2>2. current \in DOMAIN tokens' \union {NoToken}
    BY <1>5, <2>1 DEF SessionInv, SessionTypeOK
  <2>3. QED
    BY <1>4, <1>6, <2>2
<1>10. SessionTypeOK'
  BY <1>3, <1>4, <1>5, <1>8, <1>9 DEF SessionInv, SessionTypeOK, Tokens, Commands
<1>11. CommandInv'
  <2>1. ASSUME NEW t \in DOMAIN tokens'
        PROVE  tokens'[t].revoked \/ tokens'[t].identity = identity
    BY <1>2, <1>5, <2>1, Types DEF SessionInv, CommandInv
  <2>2. QED
    BY <1>3, <1>4, <2>1 DEF SessionInv, CommandInv
<1>12. QED
  BY <1>7, <1>10, <1>11 DEF SessionInv

\* Tokens that wear out or are revoked, and nothing else of theirs changes.
LEMMA TokensWorn ==
    ASSUME SessionInv, DOMAIN tokens' = DOMAIN tokens,
           tokens' \in [DOMAIN tokens -> Tokens],
           \A t \in DOMAIN tokens :
               /\ tokens[t].life = "over" => tokens'[t].life = "over"
               /\ tokens[t].revoked => tokens'[t].revoked,
           Resets # {} \/ (identity' = identity /\ Resets' = Resets),
           UNCHANGED <<generation, caller>>
    PROVE  /\ tokens' \in Seq(Tokens)
           /\ Requests' = Requests
           /\ \A c \in Callers : RequestInv(caller[c])'
<1>1. DOMAIN tokens = 1 .. Len(tokens) /\ Len(tokens) \in Nat
  BY Types
<1>2. tokens' \in Seq(Tokens)
  BY <1>1, SeqDef
<1>3. Requests' = Requests
  BY DEF Requests
<1>4. \A t \in DOMAIN tokens : ~Accepted(t) => ~Accepted(t)'
  BY DEF Accepted
<1>5. ASSUME NEW c \in Callers, NEW request, request = caller[c]
      PROVE  RequestInv(request)'
  <2>1. RequestInv(request) /\ request.token \in DOMAIN tokens \union {NoToken}
    BY <1>5, Types DEF Requests
  <2>2. request.step = "answered" => request.token \in DOMAIN tokens
    BY <2>1 DEF RequestInv
  <2>3. request.step = "answered" /\ request.status = 401 => ~Accepted(request.token)'
    BY <1>4, <2>1, <2>2 DEF RequestInv
  <2>4. CASE Resets # {}
    BY <2>1, <2>3, <2>4 DEF RequestInv
  <2>5. CASE identity' = identity /\ Resets' = Resets
    BY <2>1, <2>3, <2>5 DEF RequestInv
  <2>6. QED
    BY <2>4, <2>5
<1>6. ASSUME NEW c \in Callers PROVE RequestInv(caller[c])'
  <2>1. PICK request : request = caller[c]
    OBVIOUS
  <2>2. RequestInv(request)' /\ request = caller'[c]
    BY <1>5, <2>1
  <2>3. QED
    BY <2>2
<1>7. QED
  BY <1>2, <1>3, <1>6

\* A reset that is worked off finds no answer of this generation that waits for nothing.
LEMMA ResetWorkedOffStep ==
    ASSUME SessionInv, NEW g \in 0..MaxResets, ResetWorkedOff(g)
    PROVE  SessionInv'
<1>1. /\ commands' \subseteq Commands /\ Resets # {}
      /\ \A command \in commands' : command.generation <= generation
      /\ UNCHANGED <<generation, current, caller, resets>>
  BY Types, CommandParts DEF ResetWorkedOff, Resets, SessionInv, CommandInv
<1>2. PICK outcome \in {"refused", "halfway", "unregistered", "done"} :
         /\ identity' = IF outcome \in {"unregistered", "done"} THEN g ELSE identity
         /\ registered' = CASE outcome = "refused" -> registered
                            [] OTHER -> outcome = "done"
         /\ tokens' = IF outcome = "refused" THEN tokens
                      ELSE [t \in DOMAIN tokens |-> [tokens[t] EXCEPT !.revoked = TRUE]]
  BY DEF ResetWorkedOff
<1>3. identity' \in 0..MaxResets /\ registered' \in BOOLEAN
  BY <1>2, Types DEF SessionInv, SessionTypeOK
<1>4. /\ tokens' \in [DOMAIN tokens -> Tokens]
      /\ \A t \in DOMAIN tokens :
            /\ tokens'[t].life = tokens[t].life
            /\ tokens[t].revoked => tokens'[t].revoked
            /\ tokens'[t].revoked \/ tokens'[t].identity = identity'
  <2>1. \A t \in DOMAIN tokens : tokens[t] \in Tokens
    BY Types
  <2>2. tokens \in [DOMAIN tokens -> Tokens]
    BY Types, <2>1, LenProperties
  <2>3. CASE outcome = "refused"
    BY <1>2, <2>2, <2>3 DEF SessionInv, CommandInv
  <2>4. CASE outcome # "refused"
    <3>1. tokens' = [t \in DOMAIN tokens |-> [tokens[t] EXCEPT !.revoked = TRUE]]
      BY <1>2, <2>4
    <3>2. QED
      BY <2>1, <3>1 DEF Tokens
  <2>5. QED
    BY <2>3, <2>4
<1>5. DOMAIN tokens' = DOMAIN tokens
  BY <1>4
<1>6. /\ tokens' \in Seq(Tokens) /\ Requests' = Requests
      /\ \A c \in Callers : RequestInv(caller[c])'
  BY <1>1, <1>4, <1>5, TokensWorn
<1>7. SessionTypeOK'
  BY <1>1, <1>3, <1>5, <1>6 DEF SessionInv, SessionTypeOK, Tokens, Commands
<1>8. CommandInv'
  BY <1>1, <1>4, <1>5 DEF SessionInv, CommandInv
<1>9. QED
  BY <1>6, <1>7, <1>8 DEF SessionInv

LEMMA TokenAgesStep ==
    ASSUME SessionInv, TokenAges
    PROVE  SessionInv'
<1>1. PICK t \in DOMAIN tokens :
        /\ tokens[t].life # "over"
        /\ tokens' = [tokens EXCEPT ![t].life = IF @ = "fresh" THEN "closing" ELSE "over"]
  BY DEF TokenAges
<1>2. UNCHANGED <<identity, registered, commands, generation, current, caller, resets>>
  BY DEF TokenAges
<1>3. \A u \in DOMAIN tokens : tokens[u] \in Tokens
  BY Types
<1>4. PICK life \in Lives : life = IF tokens[t].life = "fresh" THEN "closing" ELSE "over"
  BY DEF Lives
<1>5. PICK token : token = [tokens[t] EXCEPT !.life = life]
  OBVIOUS
<1>6. /\ token \in Tokens /\ token.identity = tokens[t].identity
      /\ token.revoked = tokens[t].revoked
  BY <1>3, <1>5 DEF Tokens
<1>7. tokens' = [tokens EXCEPT ![t] = token]
  BY <1>1, <1>4, <1>5
<1>8. tokens \in [DOMAIN tokens -> Tokens]
  BY Types, LenProperties
<1>9. /\ tokens' \in [DOMAIN tokens -> Tokens] /\ DOMAIN tokens' = DOMAIN tokens
      /\ \A u \in DOMAIN tokens :
            /\ tokens'[u].identity = tokens[u].identity
            /\ tokens[u].life = "over" => tokens'[u].life = "over"
            /\ tokens'[u].revoked = tokens[u].revoked
  BY <1>1, <1>6, <1>7, <1>8
<1>10. Resets' = Resets
  BY <1>2 DEF Resets
<1>11. /\ tokens' \in Seq(Tokens) /\ Requests' = Requests
       /\ \A c \in Callers : RequestInv(caller[c])'
  BY <1>2, <1>9, <1>10, TokensWorn
<1>12. SessionTypeOK'
  BY <1>2, <1>9, <1>11 DEF SessionInv, SessionTypeOK, Tokens
<1>13. CommandInv'
  BY <1>2, <1>9 DEF SessionInv, CommandInv
<1>14. QED
  BY <1>11, <1>12, <1>13 DEF SessionInv

\* Nothing of the invariant turns on whether the server knows the installation.
LEMMA RegisteredOnly ==
    ASSUME SessionInv, registered' \in BOOLEAN,
           UNCHANGED <<identity, tokens, commands, generation, current, caller, resets>>
    PROVE  SessionInv'
<1>1. SessionTypeOK' /\ CommandInv'
  BY DEF SessionInv, SessionTypeOK, CommandInv, Requests
<1>2. \A c \in Callers : RequestInv(caller[c])'
  BY DEF SessionInv, RequestInv, Accepted, Resets
<1>3. QED
  BY <1>1, <1>2 DEF SessionInv

-----------------------------------------------------------------------------
(* The theorems. *)

LEMMA InitSessionInv ==
    ASSUME SessionInit
    PROVE  SessionInv
<1>1. /\ identity = 0 /\ registered = TRUE /\ generation = 0 /\ current = NoToken /\ resets = 0
      /\ tokens = <<>> /\ commands = {} /\ caller = [c \in Callers |-> Idle]
      /\ MaxResets \in Nat
  BY DesktopSessionAssumption DEF SessionInit
<1>2. Idle \in Requests /\ RequestInv(Idle)
  BY <1>1 DEF Idle, Requests, RequestInv
<1>3. SessionTypeOK
  BY <1>1, <1>2 DEF SessionTypeOK
<1>4. CommandInv
  BY <1>1 DEF CommandInv
<1>5. QED
  BY <1>1, <1>2, <1>3, <1>4 DEF SessionInv

LEMMA NextSessionInv ==
    ASSUME SessionInv, [SessionNext]_sessionVars
    PROVE  SessionInv'
<1>1. CASE RegisterAgain
  BY <1>1, RegisteredOnly DEF RegisterAgain
<1>2. CASE UNCHANGED sessionVars
  BY <1>2, RegisteredOnly DEF sessionVars, SessionInv, SessionTypeOK
<1>3. QED
  BY <1>1, <1>2, CallerSteps, ResetIdentityStep, BootstrapIssuedStep, BootstrapRefusedStep,
     ResetWorkedOffStep, TokenAgesStep DEF SessionNext

\* The inductive invariant of the shared token.
THEOREM Invariant ==
    SessionSpec => []SessionInv
<1>1. SessionInit => SessionInv
  BY InitSessionInv
<1>2. SessionInv /\ [SessionNext]_sessionVars => SessionInv'
  BY NextSessionInv
<1>3. QED
  BY <1>1, <1>2, PTL DEF SessionSpec

\* Tokens, commands and requests keep their types, in whatever order the native side
\* works off its commands.
THEOREM TypeCorrect ==
    SessionSpec => []SessionTypeOK
<1>1. SessionInv => SessionTypeOK
  BY DEF SessionInv
<1>2. QED
  BY <1>1, Invariant, PTL

\* A request that is read is delivered by Deliver only.
LEMMA OnlyDeliver ==
    ASSUME SessionInv, [SessionNext]_sessionVars,
           NEW c \in Callers, caller[c].step = "reading", caller'[c].step = "delivered"
    PROVE  Current(c) /\ UNCHANGED identity
<1>1. caller \in [Callers -> Requests]
  BY DEF SessionInv, SessionTypeOK
<1>2. ASSUME NEW d \in Callers,
             StartRequest(d) \/ ServerAnswers(d) \/ ConnectionLost(d) \/ AnswerArrives(d)
             \/ Forget(d)
      PROVE  FALSE
  <2>1. d # c
    BY <1>2 DEF StartRequest, ServerAnswers, ConnectionLost, AnswerArrives, Forget
  <2>2. \E request : caller' = [caller EXCEPT ![d] = request]
    <3>1. CASE StartRequest(d) \/ AnswerArrives(d)
      BY <3>1 DEF StartRequest, AnswerArrives, Lease, Fail
    <3>2. CASE ServerAnswers(d)
      <4>1. PICK status : caller' = [caller EXCEPT ![d] =
                    [@ EXCEPT !.step = "answered", !.status = status,
                              !.identity = tokens[caller[d].token].identity,
                              !.early = Resets # {}]]
        BY <3>2, Zenon DEF ServerAnswers
      <4>2. QED
        BY <4>1
    <3>3. CASE ConnectionLost(d) \/ Forget(d)
      BY <3>3 DEF ConnectionLost, Forget, Fail
    <3>4. QED
      BY <1>2, <3>1, <3>2, <3>3
  <2>3. caller'[c] = caller[c]
    BY <1>1, <2>1, <2>2
  <2>4. QED
    BY <2>3
<1>3. ASSUME NEW d \in Callers, Deliver(d)
      PROVE  Current(c) /\ UNCHANGED identity
  <2>1. \E request : caller' = [caller EXCEPT ![d] = request]
    BY <1>3 DEF Deliver, Fail
  <2>2. d = c
    BY <1>1, <2>1
  <2>3. ~Fail(d)
    BY <1>1, <2>2 DEF Fail, Idle
  <2>4. QED
    BY <1>3, <2>2, <2>3 DEF Deliver
<1>4. ASSUME NEW g \in 0..MaxResets, BootstrapIssued(g) \/ BootstrapRefused(g)
      PROVE  FALSE
  <2>1. ~Waits(c, g)
    BY DEF Waits
  <2>2. caller'[c] = caller[c]
    BY <1>4, <2>1 DEF BootstrapIssued, BootstrapRefused
  <2>3. QED
    BY <2>2
<1>5. ASSUME NEW g \in 0..MaxResets, ResetWorkedOff(g)
      PROVE  FALSE
  BY <1>5 DEF ResetWorkedOff
<1>6. ~(ResetIdentity \/ RegisterAgain \/ TokenAges \/ UNCHANGED sessionVars)
  BY DEF ResetIdentity, RegisterAgain, TokenAges, sessionVars
<1>7. QED
  BY <1>2, <1>3, <1>4, <1>5, <1>6 DEF SessionNext

\* What is delivered to a caller was fetched for the identity the PC has at that moment,
\* although the native side works off bootstraps and resets in any order and answers of
\* all of them overtake each other (sessionLease, clear, bufferedResponseWithinLease); the
\* exception is what the server answered while a reset asked for was still to come.
THEOREM AnswersAreForThisIdentity ==
    SessionSpec => DeliveredForThisIdentity
<1>1. SessionInv /\ [SessionNext]_sessionVars => DeliversForThisIdentity
  <2> SUFFICES ASSUME SessionInv, [SessionNext]_sessionVars, NEW c \in Callers,
                      caller[c].step = "reading", caller'[c].step = "delivered",
                      caller[c].status # 401, ~caller[c].early
               PROVE  caller[c].identity = identity
    BY DEF DeliversForThisIdentity
  <2>1. Current(c) /\ RequestInv(caller[c])
    BY OnlyDeliver, Types
  <2>2. QED
    BY <2>1 DEF Current, RequestInv
<1>2. QED
  BY <1>1, Invariant, PTL DEF SessionSpec, DeliveredForThisIdentity

\* A lease of an unusable token asks for a bootstrap, and nothing else does.
LEMMA OnlyLease ==
    ASSUME SessionInv, [SessionNext]_sessionVars, NEW g \in 0..MaxResets,
           Command("bootstrap", g) \in commands' \ commands
    PROVE  \/ ~Usable(current)
           \/ \E c \in Callers : /\ caller[c].step = "answered" /\ caller[c].status = 401
                                 /\ current = caller[c].token
<1>1. ASSUME NEW c \in Callers, StartRequest(c)
      PROVE  ~Usable(current)
  BY <1>1 DEF StartRequest, Lease
<1>2. ASSUME NEW c \in Callers, AnswerArrives(c)
      PROVE  ~Usable(current) \/ (/\ caller[c].step = "answered" /\ caller[c].status = 401
                                  /\ current = caller[c].token)
  BY <1>2 DEF AnswerArrives, Lease, Rejected, AfterRejection
<1>3. ASSUME NEW h \in 0..MaxResets,
             BootstrapIssued(h) \/ BootstrapRefused(h) \/ ResetWorkedOff(h)
      PROVE  FALSE
  BY <1>3 DEF BootstrapIssued, BootstrapRefused, ResetWorkedOff
<1>4. ~ResetIdentity
  BY DEF ResetIdentity, Command
<1>5. ~(RegisterAgain \/ TokenAges \/ UNCHANGED sessionVars)
  BY DEF RegisterAgain, TokenAges, sessionVars
<1>6. ASSUME NEW c \in Callers
      PROVE  ~(ServerAnswers(c) \/ ConnectionLost(c) \/ Deliver(c) \/ Forget(c))
  BY DEF ServerAnswers, ConnectionLost, Deliver, Forget
<1>7. QED
  BY <1>1, <1>2, <1>3, <1>4, <1>5, <1>6 DEF SessionNext

\* A token is asked for only when the one there is does not work: many rejected requests
\* lead to one new token, and a late rejection spares its successor
\* (refreshAfterUnauthorized).
THEOREM TokenIsAskedForWhenNeeded ==
    SessionSpec => NoNeedlessBootstrap
<1>1. SessionInv /\ [SessionNext]_sessionVars => BootstrapIsNeeded
  <2> SUFFICES ASSUME SessionInv, [SessionNext]_sessionVars, NEW g \in 0..MaxResets,
                      Command("bootstrap", g) \in commands' \ commands
               PROVE  \/ current = NoToken \/ tokens[current].life # "fresh"
                      \/ tokens[current].revoked
    BY DEF BootstrapIsNeeded
  <2>1. CASE ~Usable(current)
    BY <2>1 DEF Usable
  <2>2. ASSUME NEW c \in Callers, caller[c].step = "answered", caller[c].status = 401,
               current = caller[c].token
        PROVE  \/ tokens[current].life # "fresh" \/ tokens[current].revoked
    <3>1. RequestInv(caller[c])
      BY Types
    <3>2. QED
      BY <2>2, <3>1 DEF RequestInv, Accepted
  <2>3. QED
    BY <2>1, <2>2, OnlyLease
<1>2. QED
  BY <1>1, Invariant, PTL DEF SessionSpec, NoNeedlessBootstrap

-----------------------------------------------------------------------------
\* The attendance record on the PC screen: what the server has, the answer under way
\* and the record shown.
AnswerIsStored ==
    /\ ~fetch.answer.pending
    /\ fetch.step # "answered" => fetch.answer = NoData
    /\ fetch.step = "answered" =>
          IF fetch.answer.signedIn
          THEN /\ fetch.answer.at <= serverRecord \/ Former(fetch.answer.at)
               /\ cache.at # 0 /\ ~cache.pending
                     => fetch.answer.at >= cache.at \/ Former(cache.at)
          ELSE fetch.answer = AuthRequired

\* Nothing was seen after this moment, so the deletion of an identity makes all that is
\* under way one of a former identity.
NotFromTheFuture ==
    /\ serverRecord <= now /\ cache.at <= now /\ fetch.answer.at <= now
    /\ \A at \in uploads : at <= now
    /\ \A i \in 1 .. Len(notices) : notices[i].at <= now

RecordInv == AttendanceTypeOK /\ SyncedIsStored /\ AnswerIsStored /\ NotFromTheFuture

\* What the definitions of records give.
LEMMA RecordData ==
    /\ NoData \in Datum /\ AuthRequired \in Datum /\ NoData.at = 0 /\ ~NoData.pending
    /\ AuthRequired = [loaded |-> TRUE, signedIn |-> FALSE, at |-> 0, pending |-> FALSE]
    /\ \A at \in 0..MaxTime, pending \in BOOLEAN :
          /\ Loaded(at, pending) \in Datum /\ Loaded(at, pending).at = at
          /\ Loaded(at, pending).pending = pending /\ Loaded(at, pending).signedIn
<1>1. 0 \in 0..MaxTime
  BY DesktopAttendanceAssumption
<1>2. AuthRequired = [loaded |-> TRUE, signedIn |-> FALSE, at |-> 0, pending |-> FALSE]
  <2>1. PICK d : d = [loaded |-> FALSE, signedIn |-> FALSE, at |-> 0, pending |-> FALSE]
    OBVIOUS
  <2>2. AuthRequired = [d EXCEPT !.loaded = TRUE]
    BY <2>1 DEF AuthRequired, NoData
  <2> QED
    BY <2>1, <2>2
<1> QED
  BY <1>1, <1>2 DEF NoData, Loaded, Datum

\* The values by their short names.
LEMMA RecordValues ==
    ASSUME RecordInv
    PROVE  /\ now \in Nat /\ now \in 1..MaxTime
           /\ serverRecord \in Nat /\ serverRecord \in 0..MaxTime
           /\ uploads \subseteq 1..MaxTime
           /\ cache \in Datum /\ cache.at \in Nat /\ fetch.answer \in Datum
           /\ fetch.answer.at \in Nat /\ removedAt \in Nat /\ removals \in Nat
           /\ notices \in Seq(WindowEvents) /\ Len(notices) \in Nat /\ Len(notices) <= MaxNotices
           /\ MaxTime \in Nat /\ MaxNotices \in Nat /\ MaxRemovals \in Nat /\ Fresh \in Nat
BY DesktopAttendanceAssumption, LenProperties DEF RecordInv, AttendanceTypeOK, Datum

\* A request that starts, or is shared, or ends without an answer.
LEMMA RequestKeeps ==
    ASSUME RecordInv, fetch' = fetch \/ fetch' = NoFetch \/ fetch' = Asking,
           UNCHANGED <<now, uploads, serverRecord, cache, notices, identityVars>>,
           refresh' \in {"idle", "checking", "checked", "reading"}
    PROVE  RecordInv'
<1>1. CASE fetch' = fetch
  BY <1>1 DEF RecordInv, AttendanceTypeOK, AnswerIsStored, SyncedIsStored, NotFromTheFuture,
              Former, identityVars
<1>2. CASE fetch' = NoFetch \/ fetch' = Asking
  <2>1. /\ fetch'.answer = NoData /\ fetch'.step \in {"none", "asked"}
        /\ fetch' \in [step : {"none", "asked", "answered"}, answer : Datum]
    BY <1>2, RecordData DEF NoFetch, Asking
  <2>2. AttendanceTypeOK'
    BY <2>1 DEF RecordInv, AttendanceTypeOK, identityVars
  <2>3. SyncedIsStored'
    BY DEF RecordInv, SyncedIsStored, Former, identityVars
  <2>4. AnswerIsStored'
    BY <2>1, RecordData DEF AnswerIsStored
  <2>5. NotFromTheFuture'
    BY <2>1, RecordData, RecordValues DEF RecordInv, NotFromTheFuture
  <2> QED
    BY <2>2, <2>3, <2>4, <2>5 DEF RecordInv
<1> QED
  BY <1>1, <1>2

\* An event more to the window.
LEMMA NoticeSent ==
    ASSUME RecordInv, NEW notice \in WindowEvents, notices' = Append(notices, notice),
           Len(notices) < MaxNotices, now' \in Nat, now' >= now, notice.at <= now'
    PROVE  /\ notices' \in Seq(WindowEvents) /\ Len(notices') <= MaxNotices
           /\ \A i \in 1 .. Len(notices') : notices'[i].at <= now'
<1>1. notices \in Seq(WindowEvents) /\ Len(notices) \in Nat /\ MaxNotices \in Nat /\ now \in Nat
  BY RecordValues
<1>2. /\ notices' \in Seq(WindowEvents) /\ Len(notices') = Len(notices) + 1
      /\ \A i \in 1 .. Len(notices) : notices'[i] = notices[i]
      /\ notices'[Len(notices) + 1] = notice
  BY <1>1, AppendProperties
<1>3. ASSUME NEW i \in 1 .. Len(notices') PROVE notices'[i].at <= now'
  <2>1. CASE i = Len(notices) + 1
    BY <1>2, <2>1
  <2>2. CASE i \in 1 .. Len(notices)
    <3>1. notices[i] \in WindowEvents
      BY <1>1, <2>2, ElementOfSeq
    <3>2. notices[i].at \in Nat
      BY <3>1, RecordValues DEF WindowEvents
    <3>3. notices[i].at <= now
      BY <2>2 DEF RecordInv, NotFromTheFuture
    <3> QED
      BY <1>1, <1>2, <2>2, <3>2, <3>3
  <2> QED
    BY <1>1, <1>2, <2>1, <2>2
<1> QED
  BY <1>1, <1>2, <1>3

\* The reports of the checker and their uploads.
LEMMA ReportsKeep ==
    ASSUME RecordInv,
           Observe \/ \E at \in uploads : Upload(at) \/ UploadDeferred(at)
    PROVE  RecordInv'
<1> USE RecordValues
<1>1. CASE Observe
  <2>1. /\ now' = now + 1 /\ now < MaxTime /\ Len(notices) < MaxNotices
        /\ uploads' = uploads \cup {now'}
        /\ UNCHANGED <<serverRecord, cache, fetch, removals, removedAt>>
        /\ refresh' \in {refresh, "checked"}
    BY <1>1 DEF Observe, identityVars
  <2>2. now' \in 1..MaxTime /\ uploads' \subseteq 1..MaxTime
    BY <2>1
  <2>3. PICK notice : notice = [kind |-> "observed", at |-> now']
    OBVIOUS
  <2>4. notice \in WindowEvents /\ notice.at = now'
    BY <2>2, <2>3 DEF WindowEvents
  <2>5. notices' = Append(notices, notice)
    BY <1>1, <2>3 DEF Observe
  <2>6. /\ notices' \in Seq(WindowEvents) /\ Len(notices') <= MaxNotices
        /\ \A i \in 1 .. Len(notices') : notices'[i].at <= now'
    BY <2>1, <2>4, <2>5, NoticeSent
  <2>7. AttendanceTypeOK'
    BY <2>1, <2>2, <2>6 DEF RecordInv, AttendanceTypeOK
  <2>8. SyncedIsStored' /\ AnswerIsStored'
    BY <2>1 DEF RecordInv, SyncedIsStored, AnswerIsStored, Former
  <2>9. NotFromTheFuture'
    BY <2>1, <2>2, <2>6 DEF RecordInv, NotFromTheFuture
  <2> QED
    BY <2>7, <2>8, <2>9 DEF RecordInv
<1>2. ASSUME NEW at \in uploads, Upload(at)
      PROVE  RecordInv'
  <2>1. at \in 1..MaxTime /\ at <= now
    BY DEF RecordInv, NotFromTheFuture
  <2>2. /\ serverRecord' \in 0..MaxTime /\ serverRecord' >= serverRecord
        /\ serverRecord' <= now
    BY <1>2, <2>1 DEF Upload, RecordInv, NotFromTheFuture
  <2>3. PICK notice : notice = [kind |-> "synced", at |-> 0]
    OBVIOUS
  <2>4. notice \in WindowEvents /\ notice.at = 0
    BY <2>3 DEF WindowEvents
  <2>5. notices' = Append(notices, notice) /\ Len(notices) < MaxNotices
    BY <1>2, <2>3 DEF Upload
  <2>6. /\ uploads' = uploads \ {at}
        /\ UNCHANGED <<now, cache, fetch, refresh, removals, removedAt>>
    BY <1>2 DEF Upload, identityVars
  <2>7. /\ notices' \in Seq(WindowEvents) /\ Len(notices') <= MaxNotices
        /\ \A i \in 1 .. Len(notices') : notices'[i].at <= now'
    BY <2>4, <2>5, <2>6, NoticeSent
  <2>8. AttendanceTypeOK'
    BY <2>2, <2>6, <2>7 DEF RecordInv, AttendanceTypeOK
  <2>9. SyncedIsStored' /\ AnswerIsStored'
    BY <2>2, <2>6 DEF RecordInv, SyncedIsStored, AnswerIsStored, Former
  <2>10. NotFromTheFuture'
    BY <2>2, <2>6, <2>7 DEF RecordInv, NotFromTheFuture
  <2> QED
    BY <2>8, <2>9, <2>10 DEF RecordInv
<1>3. ASSUME NEW at \in uploads, UploadDeferred(at)
      PROVE  RecordInv'
  BY <1>3 DEF UploadDeferred, RecordInv, AttendanceTypeOK, SyncedIsStored, AnswerIsStored,
              NotFromTheFuture, Former, identityVars
<1> QED
  BY <1>1, <1>2, <1>3

\* The events at the web view.
LEMMA EventsKeep ==
    ASSUME RecordInv, HandleObserved \/ HandleSynced
    PROVE  RecordInv'
<1>0. notices # <<>> /\ notices' = Tail(notices)
  BY DEF HandleObserved, HandleSynced
<1>1. /\ Head(notices) \in WindowEvents /\ notices' \in Seq(WindowEvents)
      /\ Len(notices') = Len(notices) - 1
      /\ \A i \in 1 .. Len(notices') : notices'[i] = notices[i + 1]
      /\ Head(notices) = notices[1] /\ Len(notices) \in Nat \ {0}
  BY <1>0, RecordValues, HeadTailProperties, LenProperties, EmptySeq
<1>2. Len(notices') <= MaxNotices
  BY <1>0, <1>1, RecordValues
<1>3. /\ \A i \in 1 .. Len(notices') : notices'[i].at <= now
      /\ Head(notices).at <= now /\ Head(notices).at \in 0..MaxTime
  BY <1>1 DEF RecordInv, NotFromTheFuture, WindowEvents
<1>4. CASE HandleObserved
  <2>1. cache' = WithLocalObservation(cache, Head(notices).at)
    BY <1>4 DEF HandleObserved
  <2>2. cache' = cache \/ cache' = Loaded(Head(notices).at, TRUE)
    BY <2>1 DEF WithLocalObservation
  <2>3. (cache' = cache \/ cache'.pending) /\ cache' \in Datum /\ cache'.at <= now
    BY <1>3, <2>2, RecordData DEF RecordInv, AttendanceTypeOK, NotFromTheFuture
  <2>4. UNCHANGED <<now, uploads, serverRecord, fetch, refresh, removals, removedAt>>
    BY <1>4 DEF HandleObserved, identityVars
  <2>5. AttendanceTypeOK'
    BY <1>1, <1>2, <2>3, <2>4 DEF RecordInv, AttendanceTypeOK
  <2>6. SyncedIsStored' /\ AnswerIsStored'
    BY <2>3, <2>4 DEF RecordInv, SyncedIsStored, AnswerIsStored, Former
  <2>7. NotFromTheFuture'
    BY <1>3, <2>3, <2>4 DEF RecordInv, NotFromTheFuture
  <2> QED
    BY <2>5, <2>6, <2>7 DEF RecordInv
<1>5. CASE HandleSynced
  <2>1. /\ UNCHANGED <<now, uploads, serverRecord, cache, refresh, removals, removedAt>>
        /\ fetch' = fetch \/ fetch' = Asking
    BY <1>5 DEF HandleSynced, Refetched, identityVars
  <2>2. /\ fetch' = fetch
        \/ /\ fetch'.answer = NoData /\ fetch'.step = "asked"
           /\ fetch' \in [step : {"none", "asked", "answered"}, answer : Datum]
    BY <2>1, RecordData DEF Asking
  <2>3. AttendanceTypeOK'
    BY <1>1, <1>2, <2>1, <2>2 DEF RecordInv, AttendanceTypeOK
  <2>4. SyncedIsStored' /\ AnswerIsStored'
    BY <2>1, <2>2, RecordData DEF RecordInv, SyncedIsStored, AnswerIsStored, Former
  <2>5. NotFromTheFuture'
    BY <1>3, <2>1, <2>2, RecordData, RecordValues DEF RecordInv, NotFromTheFuture
  <2> QED
    BY <2>3, <2>4, <2>5 DEF RecordInv
<1> QED
  BY <1>4, <1>5

\* The query and its answers.
LEMMA QueryKeeps ==
    ASSUME RecordInv,
           \/ PollRecord \/ Fetched \/ FetchFails \/ RefreshAttendance
           \/ \E signedIn \in BOOLEAN : RecordAnswered(signedIn)
    PROVE  RecordInv'
<1>1. CASE PollRecord \/ FetchFails \/ RefreshAttendance
  <2>1. /\ UNCHANGED <<now, uploads, serverRecord, cache, notices, identityVars>>
        /\ fetch' = fetch \/ fetch' = NoFetch \/ fetch' = Asking
        /\ refresh' \in {refresh, "idle", "reading"}
    BY <1>1 DEF PollRecord, FetchFails, RefreshAttendance, Refetched, identityVars
  <2> QED
    BY <2>1, RequestKeeps DEF RecordInv, AttendanceTypeOK
<1>2. CASE Fetched
  <2>1. /\ UNCHANGED <<now, uploads, serverRecord, notices, removals, removedAt>>
        /\ refresh' \in {refresh, "idle"}
        /\ fetch' = NoFetch /\ fetch.step = "answered"
        /\ cache' = cache \/ cache' = fetch.answer
    BY <1>2 DEF Fetched, PreferDesktopAttendance, identityVars
  <2>2. cache' \in Datum
    BY <2>1, RecordValues
  <2>3. /\ fetch'.answer = NoData /\ fetch'.step = "none"
        /\ fetch' \in [step : {"none", "asked", "answered"}, answer : Datum]
    BY <2>1, RecordData DEF NoFetch
  <2>4. AttendanceTypeOK'
    BY <2>1, <2>2, <2>3 DEF RecordInv, AttendanceTypeOK
  <2>5. SyncedIsStored'
    BY <2>1, RecordData, RecordValues DEF RecordInv, SyncedIsStored, AnswerIsStored, Former
  <2>6. AnswerIsStored'
    BY <2>3, RecordData DEF AnswerIsStored
  <2>7. NotFromTheFuture'
    BY <2>1, <2>3, RecordData, RecordValues DEF RecordInv, NotFromTheFuture
  <2> QED
    BY <2>4, <2>5, <2>6, <2>7 DEF RecordInv
<1>3. ASSUME NEW signedIn \in BOOLEAN, RecordAnswered(signedIn)
      PROVE  RecordInv'
  <2>1. UNCHANGED <<now, uploads, serverRecord, notices, refresh, cache, removals, removedAt>>
    BY <1>3 DEF RecordAnswered, identityVars
  <2>2. PICK answer : answer = IF signedIn THEN Loaded(serverRecord, FALSE) ELSE AuthRequired
    OBVIOUS
  <2>3. fetch' = [step |-> "answered", answer |-> answer]
    BY <1>3, <2>2 DEF RecordAnswered, ParseAttendance
  <2>4. /\ answer \in Datum /\ answer.at <= serverRecord /\ ~answer.pending
        /\ answer.signedIn => answer.at = serverRecord
        /\ ~answer.signedIn => answer = AuthRequired
    <3>1. CASE signedIn
      <4>1. answer = Loaded(serverRecord, FALSE)
        BY <2>2, <3>1
      <4>2. /\ answer \in Datum /\ answer.at = serverRecord /\ answer.pending = FALSE
            /\ answer.signedIn
        BY <4>1, RecordData, RecordValues
      <4> QED
        BY <4>2, RecordValues
    <3>2. CASE ~signedIn
      BY <2>2, <3>2, RecordData, RecordValues
    <3> QED
      BY <3>1, <3>2
  <2>5. /\ fetch' \in [step : {"none", "asked", "answered"}, answer : Datum]
        /\ fetch'.step = "answered" /\ fetch'.answer = answer
    BY <2>3, <2>4
  <2>6. AttendanceTypeOK'
    BY <2>1, <2>5 DEF RecordInv, AttendanceTypeOK
  <2>7. SyncedIsStored'
    BY <2>1 DEF RecordInv, SyncedIsStored, Former
  <2>8. cache.at # 0 /\ ~cache.pending /\ answer.signedIn
          => answer.at >= cache.at \/ Former(cache.at)
    BY <2>4 DEF RecordInv, SyncedIsStored
  <2>9. AnswerIsStored'
    BY <2>1, <2>4, <2>5, <2>8 DEF AnswerIsStored, Former
  <2>10. answer.at \in Nat
    BY <2>4, RecordValues DEF Datum
  <2>11. NotFromTheFuture'
    BY <2>1, <2>4, <2>5, <2>10, RecordValues DEF RecordInv, NotFromTheFuture
  <2> QED
    BY <2>6, <2>7, <2>9, <2>11 DEF RecordInv
<1> QED
  BY <1>1, <1>2, <1>3

\* The button, the resets of the identity and the clock.
LEMMA ScreenKeeps ==
    ASSUME RecordInv,
           \/ RefreshPlatform \/ RefreshFails \/ ResetAsked \/ IdentityRemoved
           \/ RemovalRefused \/ TimePasses
    PROVE  RecordInv'
<1>1. CASE RefreshPlatform \/ RefreshFails
  BY <1>1, RequestKeeps DEF RefreshPlatform, RefreshFails
<1>2. CASE ResetAsked
  <2>1. /\ removals' \in 0..MaxRemovals /\ cache' = NoData /\ fetch' = NoFetch
        /\ UNCHANGED <<now, uploads, serverRecord, notices, removedAt>>
        /\ refresh' \in {refresh, "idle"}
    BY <1>2, RecordValues DEF ResetAsked
  <2>2. /\ fetch'.answer = NoData /\ fetch'.step = "none"
        /\ fetch' \in [step : {"none", "asked", "answered"}, answer : Datum]
    BY <2>1, RecordData DEF NoFetch
  <2>3. AttendanceTypeOK'
    BY <2>1, <2>2, RecordData DEF RecordInv, AttendanceTypeOK
  <2>4. SyncedIsStored' /\ AnswerIsStored'
    BY <2>1, <2>2, RecordData DEF SyncedIsStored, AnswerIsStored
  <2>5. NotFromTheFuture'
    BY <2>1, <2>2, RecordData, RecordValues DEF RecordInv, NotFromTheFuture
  <2> QED
    BY <2>3, <2>4, <2>5 DEF RecordInv
<1>3. CASE IdentityRemoved
  <2>1. /\ removals' \in 0..MaxRemovals /\ serverRecord' = 0 /\ uploads' = {}
        /\ removedAt' = now /\ UNCHANGED <<now, notices, cache, fetch, refresh>>
    BY <1>3, RecordValues DEF IdentityRemoved, RecordInv, AttendanceTypeOK
  <2>2. AttendanceTypeOK'
    BY <2>1, RecordValues DEF RecordInv, AttendanceTypeOK
  <2>3. cache.at <= removedAt' /\ fetch.answer.at <= removedAt'
    BY <2>1 DEF RecordInv, NotFromTheFuture
  <2>4. SyncedIsStored' /\ AnswerIsStored'
    BY <2>1, <2>3 DEF RecordInv, SyncedIsStored, AnswerIsStored, Former
  <2>5. NotFromTheFuture'
    BY <2>1, RecordValues DEF RecordInv, NotFromTheFuture
  <2> QED
    BY <2>2, <2>4, <2>5 DEF RecordInv
<1>4. CASE RemovalRefused
  BY <1>4, RecordValues DEF RemovalRefused, RecordInv, AttendanceTypeOK, SyncedIsStored,
                            AnswerIsStored, NotFromTheFuture, Former
<1>5. CASE TimePasses
  <2>1. /\ now' = now + 1 /\ now' \in 1..MaxTime
        /\ UNCHANGED <<uploads, serverRecord, notices, cache, fetch, refresh, removals, removedAt>>
    BY <1>5, RecordValues DEF TimePasses, identityVars
  <2>2. AttendanceTypeOK' /\ SyncedIsStored' /\ AnswerIsStored'
    BY <2>1 DEF RecordInv, AttendanceTypeOK, SyncedIsStored, AnswerIsStored, Former
  <2>3. ASSUME NEW i \in 1 .. Len(notices) PROVE notices[i].at \in Nat
    <3>1. notices[i] \in WindowEvents
      BY RecordValues, ElementOfSeq
    <3> QED
      BY <3>1, RecordValues DEF WindowEvents
  <2>4. NotFromTheFuture'
    BY <2>1, <2>3, RecordValues DEF RecordInv, NotFromTheFuture
  <2> QED
    BY <2>2, <2>4 DEF RecordInv
<1> QED
  BY <1>1, <1>2, <1>3, <1>4, <1>5

LEMMA NextRecordInv ==
    ASSUME RecordInv, [AttendanceNext]_attendanceVars
    PROVE  RecordInv'
<1>1. CASE AttendanceNext
  BY <1>1, ReportsKeep, EventsKeep, QueryKeeps, ScreenKeeps DEF AttendanceNext
<1>2. CASE UNCHANGED attendanceVars
  BY <1>2 DEF attendanceVars, identityVars, RecordInv, AttendanceTypeOK, SyncedIsStored,
              AnswerIsStored, NotFromTheFuture, Former
<1> QED
  BY <1>1, <1>2

LEMMA InitRecordInv == AttendanceInit => RecordInv
<1> SUFFICES ASSUME AttendanceInit PROVE RecordInv
  OBVIOUS
<1>1. /\ fetch.answer = NoData /\ fetch.step = "none"
      /\ fetch \in [step : {"none", "asked", "answered"}, answer : Datum]
  BY RecordData DEF AttendanceInit, NoFetch
<1>2. notices \in Seq(WindowEvents) /\ Len(notices) = 0
  BY DEF AttendanceInit
<1>3. AttendanceTypeOK
  BY <1>1, <1>2, RecordData, DesktopAttendanceAssumption DEF AttendanceInit, AttendanceTypeOK
<1>4. NotFromTheFuture
  BY <1>1, <1>2, RecordData DEF AttendanceInit, NotFromTheFuture
<1> QED
  BY <1>1, <1>3, <1>4, RecordData DEF AttendanceInit, RecordInv, SyncedIsStored, AnswerIsStored

LEMMA RecordInvariant == AttendanceSpec => []RecordInv
BY InitRecordInv, NextRecordInv, PTL DEF AttendanceSpec

\* The values of the attendance record in the window, for every clock and every queue of
\* events.
THEOREM AttendanceTypes == AttendanceSpec => []AttendanceTypeOK
<1>1. RecordInv => AttendanceTypeOK
  BY DEF RecordInv
<1> QED
  BY <1>1, RecordInvariant, PTL

\* A record shown as synchronised is one the server holds, or held of an identity deleted
\* since: an observation of this PC stays marked as pending until an answer of the server,
\* asked for after the record was stored, takes its place (preferDesktopAttendance).
THEOREM AttendanceSyncedIsStored == AttendanceSpec => []SyncedIsStored
<1>1. RecordInv => SyncedIsStored
  BY DEF RecordInv
<1> QED
  BY <1>1, RecordInvariant, PTL

\* The record on the screen never gets older, whatever order the events, the answers and
\* the two halves of a reset come in, but for the cases the property names
\* (preferDesktopAttendance, clearDesktopIdentityQueries).
THEOREM AttendanceNeverOlder == AttendanceSpec => NeverOlder
<1> DEFINE GivesWay ==
      cache.at # 0 /\ cache'.at < cache.at =>
        \/ cache.pending /\ now - cache.at > Fresh
        \/ ~cache.pending /\ (cache' = AuthRequired \/ Former(cache.at))
        \/ cache' = NoData /\ removals' > removals
<1>1. ASSUME RecordInv, [AttendanceNext]_attendanceVars PROVE GivesWay
  <2>0. /\ cache \in Datum /\ fetch.answer \in Datum /\ now \in Nat /\ Fresh \in Nat
        /\ cache.at \in Nat /\ fetch.answer.at \in Nat
    BY <1>1, RecordValues
  <2>1. CASE HandleObserved
    <3>1. cache' = cache \/ (~(cache.at # 0 /\ cache.at >= Head(notices).at)
                             /\ cache'.at = Head(notices).at)
      BY <2>1 DEF HandleObserved, WithLocalObservation, Loaded
    <3>2. Head(notices).at \in Nat
      <4>1. notices \in Seq(WindowEvents) /\ notices # <<>>
        BY <1>1, <2>1 DEF RecordInv, AttendanceTypeOK, HandleObserved
      <4>2. Head(notices) \in WindowEvents
        BY <4>1, HeadTailProperties
      <4> QED
        BY <4>2, DesktopAttendanceAssumption DEF WindowEvents
    <3> QED
      BY <2>0, <3>1, <3>2
  <2>2. CASE Fetched
    <3> SUFFICES ASSUME cache.at # 0, cache'.at < cache.at
                 PROVE  \/ cache.pending /\ now - cache.at > Fresh
                        \/ ~cache.pending /\ (cache' = AuthRequired \/ Former(cache.at))
      OBVIOUS
    <3>1. /\ fetch.step = "answered" /\ cache' = PreferDesktopAttendance(cache, fetch.answer)
      BY <2>2 DEF Fetched
    <3>2. cache' = fetch.answer
      BY <2>0, <3>1 DEF PreferDesktopAttendance
    <3>3. CASE cache.pending
      <4>1. ~(fetch.answer.at >= cache.at)
        BY <2>0, <3>2
      <4>2. ~(now - cache.at <= Fresh)
        BY <2>0, <3>1, <3>2, <3>3, <4>1 DEF PreferDesktopAttendance
      <4> QED
        BY <2>0, <3>3, <4>2
    <3>4. CASE ~cache.pending
      BY <1>1, <2>0, <3>1, <3>2, <3>4 DEF RecordInv, AnswerIsStored
    <3> QED
      BY <3>3, <3>4
  <2>3. CASE ResetAsked
    BY <1>1, <2>3, RecordValues DEF ResetAsked
  <2>4. CASE cache' = cache
    BY <2>0, <2>4
  <2>5. \/ HandleObserved \/ Fetched \/ ResetAsked \/ cache' = cache
    BY <1>1 DEF AttendanceNext, attendanceVars, Observe, Upload, UploadDeferred, HandleSynced,
                PollRecord, RecordAnswered, FetchFails, RefreshPlatform, RefreshFails,
                RefreshAttendance, IdentityRemoved, RemovalRefused, TimePasses
  <2> QED
    BY <2>1, <2>2, <2>3, <2>4, <2>5
<1> QED
  BY <1>1, RecordInvariant, PTL DEF AttendanceSpec, NeverOlder

-----------------------------------------------------------------------------
(* The account: the timer of the session's end, the evidence that there     *)
(* was a session, and the wait for the checker.                             *)

TimerReaches ==
    sessionQuery.data \notin {None, Null} /\ clock < sessionQuery.data =>
        timer # None /\ timer <= LaterOf(sessionQuery.data, time)
EvidenceKept == confirmed => evidence # None
WaitRuns ==
    /\ waiting # None => Checking(connection)
    /\ wait.timedOut => waiting # None /\ time >= waiting + WaitLimit

\* What the browser's session needs, and what the PC's connection needs.
WebInv ==
    /\ remote \in SessionEnds \union {Null} /\ confirmed \in BOOLEAN
    /\ sessionQuery \in SessionQueries /\ sessionQuery.updatedAt <= time
    /\ clock \in 0..time /\ timer \in SessionEnds \union {None}
    /\ evidence \in Evidence \union {None} /\ (evidence = None \/ evidence.expiresAt > evidence.at)
    /\ TimerReaches /\ EvidenceKept
PcInv ==
    /\ native \in NativeStates /\ login \in {"idle", "pending", "error"}
    /\ connection \in ConnectionQueries
    /\ wait \in [attempt : 0..MaxRetries, timedOut : BOOLEAN] /\ waiting \in 0..time \union {None}
    /\ WaitRuns
AccountInv ==
    /\ surface \in {"web", "pwa", "pc"} /\ time \in 0..MaxTicks
    /\ WebInv /\ PcInv

\* What the assumption gives of the values that stand for something missing.
LEMMA AccountConstants ==
    /\ None \notin Nat /\ Null \notin Nat /\ None # Null /\ None # Asked /\ None \notin Evidence
    /\ None \notin SessionAnswers /\ Asked \notin SessionAnswers
    /\ None \notin NativeStates /\ Asked \notin NativeStates /\ None \notin Connections
    /\ MaxTicks \in Nat /\ Life \in Nat /\ MaxDelay \in Nat /\ WaitLimit \in Nat
    /\ MaxRetries \in Nat /\ MaxDelay > 0 /\ SessionEnds \subseteq Nat
BY AccountAccessAssumption DEF SessionEnds

\* What the page concludes from an answer, by what the answer is.
LEMMA CookieCases ==
    ASSUME NEW query \in SessionQueries, NEW moment \in Nat, NEW previous \in Evidence \union {None},
           previous = None \/ previous.expiresAt > previous.at,
           moment <= MaxTicks, NEW reading, reading = CookieTransition(query, moment, previous)
    PROVE  /\ reading.evidence \in Evidence \union {None}
           /\ reading.evidence = None \/ reading.evidence.expiresAt > reading.evidence.at
           /\ previous # None => reading.evidence # None
           /\ reading.state.status \in {"connected", "unconnected", "checking", "error"}
           /\ reading.state.status = "connected" =>
                 /\ query.data \in SessionEnds /\ query.data > moment /\ query.data > query.updatedAt
                 /\ reading.evidence # None
           /\ reading.state.status = "error" => reading.state.reason \in {"offline", "server-error"}
           /\ reading.state.reason = "first-connect" => previous = None
           /\ query.data \in SessionEnds /\ query.data > moment /\ query.data > query.updatedAt =>
                 reading.state.status \in {"connected", "error"}
<1> DEFINE later == LaterOf(moment, query.updatedAt)
<1>1. /\ query.updatedAt \in 0..MaxTicks /\ query.data \in SessionEnds \union {None, Null}
      /\ query.paused \in BOOLEAN /\ query.isError \in BOOLEAN
  BY DEF SessionQueries
<1>2. later \in 0..MaxTicks /\ later >= moment /\ later >= query.updatedAt
      /\ (later = moment \/ later = query.updatedAt)
  BY <1>1, AccountConstants DEF LaterOf
<1> HIDE DEF later
<1>3. CASE query.paused \/ query.isError
  <2>1. PICK why \in {"offline", "server-error"} :
          BrowserSessionObservation(query) = [kind |-> "failed", reason |-> why]
    BY <1>3 DEF BrowserSessionObservation
  <2>2. reading = [state |-> Access("error", why), evidence |-> previous]
    BY <2>1 DEF CookieTransition, TransitionCookieSessionAccess
  <2> QED
    BY <2>1, <2>2 DEF Access
<1>4. CASE ~query.paused /\ ~query.isError /\ query.data = None
  <2>1. BrowserSessionObservation(query) = [kind |-> "checking"]
    BY <1>4 DEF BrowserSessionObservation
  <2>2. PICK why \in {"initial-check", "refreshing"} :
          reading = [state |-> Access("checking", why), evidence |-> previous]
    BY <2>1 DEF CookieTransition, TransitionCookieSessionAccess
  <2>3. query.data \notin SessionEnds
    BY <1>4, AccountConstants
  <2>4. reading.evidence = previous /\ reading.state = [status |-> "checking", reason |-> why]
    BY <2>2 DEF Access
  <2> QED
    BY <2>3, <2>4
<1>5. CASE ~query.paused /\ ~query.isError /\ query.data = Null
  <2>1. BrowserSessionObservation(query) = [kind |-> "missing"]
    BY <1>5, AccountConstants DEF BrowserSessionObservation
  <2>2. PICK why : why = IF previous = None THEN "first-connect" ELSE "expired"
    OBVIOUS
  <2>3. reading = [state |-> Access("unconnected", why), evidence |-> previous]
    BY <2>1, <2>2 DEF CookieTransition, TransitionCookieSessionAccess
  <2>4. query.data \notin SessionEnds
    BY <1>5, AccountConstants
  <2>5. reading.evidence = previous /\ reading.state = [status |-> "unconnected", reason |-> why]
    BY <2>3 DEF Access
  <2> QED
    BY <2>2, <2>4, <2>5
<1>6. CASE ~query.paused /\ ~query.isError /\ query.data \notin {None, Null}
  <2>1. BrowserSessionObservation(query) = [kind |-> "authenticated", expiresAt |-> query.data]
    BY <1>6 DEF BrowserSessionObservation
  <2>2. query.data \in SessionEnds /\ query.data \in Nat
    BY <1>1, <1>6, AccountConstants
  <2>3. CASE query.data <= later
    <3>1. reading = [state |-> Access("unconnected", "expired"), evidence |-> previous]
      BY <2>1, <2>3 DEF CookieTransition, TransitionCookieSessionAccess, later
    <3>2. ~(query.data > moment /\ query.data > query.updatedAt)
      BY <1>1, <1>2, <2>2, <2>3, AccountConstants
    <3> QED
      BY <3>1, <3>2 DEF Access
  <2>4. CASE ~(query.data <= later)
    <3>1. PICK proof : proof = [expiresAt |-> query.data, at |-> later]
      OBVIOUS
    <3>2. reading = [state |-> Access("connected", "authenticated"), evidence |-> proof]
      BY <2>1, <2>4, <3>1 DEF CookieTransition, TransitionCookieSessionAccess, later
    <3>3. proof \in Evidence /\ proof.expiresAt = query.data /\ proof.at = later
      BY <1>2, <2>2, <3>1 DEF Evidence
    <3>4. query.data > later /\ query.data > moment /\ query.data > query.updatedAt
      BY <1>1, <1>2, <2>2, <2>4, AccountConstants
    <3>5. proof # None
      BY <3>3, AccountConstants
    <3> QED
      BY <2>2, <3>2, <3>3, <3>4, <3>5 DEF Access
  <2> QED
    BY <2>3, <2>4
<1> QED
  BY <1>1, <1>3, <1>4, <1>5, <1>6

\* The timer ends no later than the session, or at once.
LEMMA ArmedReaches ==
    ASSUME time \in 0..MaxTicks, NEW data \in SessionEnds \union {None, Null}, NEW moment \in Nat
    PROVE  /\ Armed(data, moment) \in SessionEnds \union {None}
           /\ data \notin {None, Null} /\ moment < data =>
                 /\ Armed(data, moment) # None
                 /\ Armed(data, moment) <= LaterOf(data, time)
<1>1. CASE data \in {None, Null}
  BY <1>1 DEF Armed
<1>2. CASE data \notin {None, Null} /\ ~(moment < data)
  BY <1>2, AccountConstants DEF Armed
<1>3. CASE data \notin {None, Null} /\ moment < data
  <2>1. data \in Nat /\ time \in Nat /\ data <= MaxTicks + Life /\ time <= MaxTicks
    BY <1>3, AccountConstants DEF SessionEnds
  <2>2. Armed(data, moment) = time + EarlierOf(LaterOf(data, time) - time, MaxDelay)
    BY <1>3, <2>1 DEF Armed
  <2>3. /\ LaterOf(data, time) \in Nat /\ LaterOf(data, time) >= time
        /\ LaterOf(data, time) <= MaxTicks + Life
    BY <2>1, AccountConstants DEF LaterOf
  <2>4. /\ EarlierOf(LaterOf(data, time) - time, MaxDelay) \in Nat
        /\ EarlierOf(LaterOf(data, time) - time, MaxDelay) <= LaterOf(data, time) - time
    BY <2>1, <2>3, AccountConstants DEF EarlierOf
  <2>5. Armed(data, moment) \in 0..(MaxTicks + Life) /\ Armed(data, moment) <= LaterOf(data, time)
    BY <2>1, <2>2, <2>3, <2>4, AccountConstants
  <2>6. Armed(data, moment) # None
    BY <2>5, AccountConstants
  <2> QED
    BY <2>5, <2>6 DEF SessionEnds
<1> QED
  BY <1>1, <1>2, <1>3

\* An answer stores a value, an error flag and the time it came.
LEMMA AnswerStored ==
    ASSUME sessionQuery \in SessionQueries, time \in 0..MaxTicks,
           NEW data \in SessionEnds \union {None, Null}, NEW error \in BOOLEAN,
           NEW ask \in SessionAnswers \union {None, Asked}, NEW query,
           query = [sessionQuery EXCEPT !.data = data, !.isError = error, !.ask = ask,
                                        !.updatedAt = time]
    PROVE  query \in SessionQueries /\ query.updatedAt = time
<1>1. PICK a : a = [sessionQuery EXCEPT !.data = data]
  OBVIOUS
<1>2. PICK b : b = [a EXCEPT !.isError = error]
  OBVIOUS
<1>3. PICK c : c = [b EXCEPT !.ask = ask]
  OBVIOUS
<1>4. a \in SessionQueries
  BY <1>1 DEF SessionQueries
<1>5. b \in SessionQueries
  BY <1>2, <1>4 DEF SessionQueries
<1>6. c \in SessionQueries
  BY <1>3, <1>5 DEF SessionQueries
<1>7. query = [c EXCEPT !.updatedAt = time]
  BY <1>1, <1>2, <1>3
<1> QED
  BY <1>6, <1>7 DEF SessionQueries

\* A render keeps what the browser's session needs.
LEMMA RenderKeeps ==
    ASSUME AccountInv, NEW query \in SessionQueries, query.updatedAt <= time,
           NEW moment \in 0..time, Render(query, moment), time' = time,
           remote' \in SessionEnds \union {Null}
    PROVE  WebInv'
<1> DEFINE reading == CookieTransition(query, moment, evidence)
<1>1. /\ sessionQuery' = query /\ clock' = moment /\ evidence' = reading.evidence
      /\ timer' = IF query.data # sessionQuery.data \/ moment # clock THEN Armed(query.data, moment)
                  ELSE timer
      /\ confirmed' = (confirmed \/ reading.state.status = "connected")
  BY DEF Render
<1>2. /\ time \in 0..MaxTicks /\ moment \in Nat /\ moment <= MaxTicks /\ WebInv
      /\ evidence \in Evidence \union {None}
      /\ evidence = None \/ evidence.expiresAt > evidence.at
  BY AccountConstants DEF AccountInv, WebInv
<1>3. /\ reading.evidence \in Evidence \union {None}
      /\ reading.evidence = None \/ reading.evidence.expiresAt > reading.evidence.at
      /\ evidence # None => reading.evidence # None
      /\ reading.state.status = "connected" => reading.evidence # None
  BY <1>2, CookieCases
<1> HIDE DEF reading
<1>4. EvidenceKept'
  BY <1>1, <1>2, <1>3 DEF WebInv, EvidenceKept
<1>5. confirmed' \in BOOLEAN
  BY <1>1, <1>2, Zenon DEF WebInv
<1>6. query.data \in SessionEnds \union {None, Null}
  BY DEF SessionQueries
<1>7. /\ Armed(query.data, moment) \in SessionEnds \union {None}
      /\ query.data \notin {None, Null} /\ moment < query.data =>
            /\ Armed(query.data, moment) # None
            /\ Armed(query.data, moment) <= LaterOf(query.data, time)
  BY <1>2, <1>6, ArmedReaches
<1>8. TimerReaches' /\ timer' \in SessionEnds \union {None}
  <2>1. CASE query.data # sessionQuery.data \/ moment # clock
    BY <1>1, <1>7, <2>1 DEF TimerReaches, LaterOf
  <2>2. CASE ~(query.data # sessionQuery.data \/ moment # clock)
    BY <1>1, <1>2, <2>2 DEF WebInv, TimerReaches, LaterOf
  <2> QED
    BY <2>1, <2>2
<1>9. sessionQuery' \in SessionQueries /\ sessionQuery'.updatedAt <= time' /\ clock' \in 0..time'
  BY <1>1
<1> QED
  BY <1>1, <1>3, <1>4, <1>5, <1>8, <1>9 DEF WebInv

\* A step that leaves one side alone keeps what that side needs.
LEMMA WebStands ==
    ASSUME AccountInv, UNCHANGED web, time' \in 0..MaxTicks, time' >= time
    PROVE  WebInv'
<1>1. /\ remote' = remote /\ sessionQuery' = sessionQuery /\ clock' = clock /\ timer' = timer
      /\ evidence' = evidence /\ confirmed' = confirmed
  BY DEF web
<1>2. /\ time \in Nat /\ time' \in Nat /\ WebInv /\ clock \in 0..time
      /\ sessionQuery.updatedAt \in Nat /\ sessionQuery.updatedAt <= time
      /\ sessionQuery.data \in SessionEnds \union {None, Null}
      /\ timer \in SessionEnds \union {None}
  BY AccountConstants DEF AccountInv, WebInv, SessionQueries
<1>3. sessionQuery'.updatedAt <= time' /\ clock' \in 0..time'
  BY <1>1, <1>2
<1>4. TimerReaches'
  <2> SUFFICES ASSUME sessionQuery.data \notin {None, Null}, clock < sessionQuery.data
               PROVE  timer # None /\ timer <= LaterOf(sessionQuery.data, time')
    BY <1>1 DEF TimerReaches
  <2>1. timer # None /\ timer <= LaterOf(sessionQuery.data, time)
    BY <1>2 DEF WebInv, TimerReaches
  <2>2. timer \in Nat /\ sessionQuery.data \in Nat
    BY <1>2, <2>1, AccountConstants
  <2> QED
    BY <1>2, <2>1, <2>2 DEF LaterOf
<1>5. EvidenceKept'
  BY <1>1, <1>2 DEF WebInv, EvidenceKept
<1> QED
  BY <1>1, <1>2, <1>3, <1>4, <1>5 DEF WebInv

LEMMA PcStands ==
    ASSUME AccountInv, connection' = connection, wait' = wait, waiting' = waiting,
           native' \in NativeStates, login' \in {"idle", "pending", "error"},
           time' \in 0..MaxTicks, time' >= time
    PROVE  PcInv'
<1>1. time \in Nat /\ time' \in Nat /\ PcInv /\ waiting \in 0..time \union {None}
  BY AccountConstants DEF AccountInv, PcInv
<1>2. waiting' \in 0..time' \union {None}
  BY <1>1
<1>3. WaitRuns'
  <2>1. waiting # None => Checking(connection')
    BY <1>1 DEF PcInv, WaitRuns
  <2>2. wait.timedOut => waiting # None /\ time' >= waiting + WaitLimit
    BY <1>1, AccountConstants DEF PcInv, WaitRuns
  <2> QED
    BY <2>1, <2>2 DEF WaitRuns, Checking
<1> QED
  BY <1>1, <1>2, <1>3 DEF PcInv

\* A render of the PC's page starts the wait with the check and ends it with the check.
LEMMA RenderPcKeeps ==
    ASSUME AccountInv, NEW query \in ConnectionQueries,
           NEW next \in [attempt : 0..MaxRetries, timedOut : BOOLEAN],
           next.timedOut => /\ waiting # None /\ next.attempt = wait.attempt
                            /\ time >= waiting + WaitLimit,
           RenderPc(query, next), UNCHANGED <<time, native, login>>
    PROVE  PcInv'
<1>1. time \in Nat /\ PcInv /\ waiting \in 0..time \union {None} /\ connection' = query
  BY AccountConstants DEF AccountInv, PcInv, RenderPc
<1>2. CASE Checking(query)
  <2>1. wait' = next /\ waiting' = IF waiting = None \/ next.attempt # wait.attempt
                                   THEN time ELSE waiting
    BY <1>2 DEF RenderPc
  <2>2. waiting' \in 0..time
    BY <1>1, <2>1
  <2>3. waiting' # None
    BY <1>1, <2>2, AccountConstants
  <2>4. next.timedOut => waiting' = waiting
    BY <2>1
  <2>5. WaitRuns'
    BY <1>1, <1>2, <2>1, <2>3, <2>4 DEF WaitRuns, Checking
  <2> QED
    BY <1>1, <2>1, <2>2, <2>5 DEF PcInv
<1>3. CASE ~Checking(query)
  <2>1. wait' = [next EXCEPT !.timedOut = FALSE] /\ waiting' = None
    BY <1>3 DEF RenderPc, CheckerWaitTransition
  <2>2. wait' \in [attempt : 0..MaxRetries, timedOut : BOOLEAN] /\ ~wait'.timedOut
    BY <2>1
  <2>3. WaitRuns'
    BY <2>1, <2>2 DEF WaitRuns
  <2> QED
    BY <1>1, <2>1, <2>2, <2>3 DEF PcInv
<1> QED
  BY <1>2, <1>3

\* The steps of the browser's session.
LEMMA SessionKeeps ==
    ASSUME AccountInv,
           \/ ExpiryTimer \/ (\E online \in BOOLEAN : AskSession(online))
           \/ ResumeSession \/ SessionRead \/ SessionAnswered \/ SessionFailed
           \/ RemoteChanges \/ DisconnectBrowser
    PROVE  AccountInv'
<1>0. /\ time \in 0..MaxTicks /\ time \in Nat /\ clock \in 0..time /\ time <= MaxTicks
      /\ sessionQuery \in SessionQueries /\ sessionQuery.updatedAt <= time
      /\ remote \in SessionEnds \union {Null} /\ WebInv
      /\ native \in NativeStates /\ login \in {"idle", "pending", "error"}
  BY AccountConstants DEF AccountInv, WebInv, PcInv
<1>1. /\ surface' = surface /\ time' = time /\ UNCHANGED pc
  BY DEF ExpiryTimer, AskSession, ResumeSession, SessionRead, SessionAnswered, SessionFailed,
         RemoteChanges, DisconnectBrowser, pc
<1>2. PcInv'
  BY <1>0, <1>1, PcStands DEF pc
<1>3. CASE ExpiryTimer
  <2>1. Render(sessionQuery, time) /\ remote' = remote
    BY <1>3 DEF ExpiryTimer
  <2>2. time \in 0..time
    BY <1>0
  <2> QED
    BY <1>0, <1>1, <1>2, <2>1, <2>2, RenderKeeps DEF AccountInv
<1>4. ASSUME NEW online \in BOOLEAN, AskSession(online)
      PROVE  AccountInv'
  <2>1. PICK paused \in BOOLEAN, error \in BOOLEAN :
           /\ paused = ~online
           /\ error = (sessionQuery.isError /\ sessionQuery.data # None)
    OBVIOUS
  <2>2. PICK query : query = [sessionQuery EXCEPT !.ask = Asked, !.paused = paused,
                                                  !.isError = error]
    OBVIOUS
  <2>3. query \in SessionQueries /\ query.updatedAt <= time
    BY <1>0, <2>2 DEF SessionQueries
  <2>4. Render(query, clock) /\ remote' = remote
    BY <1>4, <2>1, <2>2, Zenon DEF AskSession
  <2> QED
    BY <1>0, <1>1, <1>2, <2>3, <2>4, RenderKeeps DEF AccountInv
<1>5. CASE ResumeSession
  <2>1. PICK query : query = [sessionQuery EXCEPT !.paused = FALSE]
    OBVIOUS
  <2>2. query \in SessionQueries /\ query.updatedAt <= time
    BY <1>0, <2>1 DEF SessionQueries
  <2>3. Render(query, clock) /\ remote' = remote
    BY <1>5, <2>1 DEF ResumeSession
  <2> QED
    BY <1>0, <1>1, <1>2, <2>2, <2>3, RenderKeeps DEF AccountInv
<1>6. CASE SessionRead
  <2>1. PICK answer \in SessionAnswers : sessionQuery' = [sessionQuery EXCEPT !.ask = answer]
    <3>1. PICK end \in SessionEnds \union {Null} :
            end = IF remote = Null THEN Null ELSE IF remote <= time THEN Null ELSE remote
      BY <1>0
    <3>2. PICK answer : answer = [end |-> end]
      OBVIOUS
    <3>3. answer \in SessionAnswers
      BY <3>1, <3>2 DEF SessionAnswers
    <3>4. answer = IF remote = Null THEN [end |-> Null]
                   ELSE IF remote <= time THEN [end |-> Null] ELSE [end |-> remote]
      BY <3>1, <3>2
    <3>5. sessionQuery' = [sessionQuery EXCEPT !.ask = answer]
      BY <1>6, <3>4 DEF SessionRead
    <3> QED
      BY <3>3, <3>5
  <2>2. /\ sessionQuery' \in SessionQueries /\ sessionQuery'.updatedAt = sessionQuery.updatedAt
        /\ sessionQuery'.data = sessionQuery.data
    BY <1>0, <2>1 DEF SessionQueries
  <2>3. /\ remote' = remote /\ clock' = clock /\ timer' = timer /\ evidence' = evidence
        /\ confirmed' = confirmed
    BY <1>6 DEF SessionRead
  <2>4. WebInv'
    BY <1>0, <1>1, <2>2, <2>3 DEF WebInv, TimerReaches, EvidenceKept
  <2> QED
    BY <1>1, <1>2, <2>4 DEF AccountInv
<1>7. CASE SessionAnswered
  <2>1. sessionQuery.ask \in SessionAnswers
    BY <1>0, <1>7 DEF SessionAnswered, Fetching, SessionQueries
  <2>2. sessionQuery.ask.end \in SessionEnds \union {Null}
    BY <2>1 DEF SessionAnswers
  <2>3. PICK query : query = [sessionQuery EXCEPT !.data = sessionQuery.ask.end, !.isError = FALSE,
                                                  !.ask = None, !.updatedAt = time]
    OBVIOUS
  <2>4. query \in SessionQueries /\ query.updatedAt <= time
    <3>1. PICK data \in SessionEnds \union {None, Null}, error \in BOOLEAN,
               ask \in SessionAnswers \union {None, Asked} :
            data = sessionQuery.ask.end /\ error = FALSE /\ ask = None
      BY <2>2
    <3>2. query = [sessionQuery EXCEPT !.data = data, !.isError = error, !.ask = ask,
                                       !.updatedAt = time]
      BY <2>3, <3>1
    <3>3. query.updatedAt = time /\ query \in SessionQueries
      BY <1>0, <3>2, AnswerStored
    <3> QED
      BY <1>0, <3>3
  <2>5. Render(query, clock) /\ remote' = remote
    BY <1>7, <2>3 DEF SessionAnswered
  <2> QED
    BY <1>0, <1>1, <1>2, <2>4, <2>5, RenderKeeps DEF AccountInv
<1>8. CASE SessionFailed
  <2>1. PICK query : query = [sessionQuery EXCEPT !.isError = TRUE, !.ask = None,
                                                  !.updatedAt = time]
    OBVIOUS
  <2>2. query \in SessionQueries /\ query.updatedAt <= time
    <3>1. PICK data \in SessionEnds \union {None, Null}, error \in BOOLEAN,
               ask \in SessionAnswers \union {None, Asked} :
            data = sessionQuery.data /\ error = TRUE /\ ask = None
      BY <1>0 DEF SessionQueries
    <3>2. query = [sessionQuery EXCEPT !.data = data, !.isError = error, !.ask = ask,
                                       !.updatedAt = time]
      BY <1>0, <2>1, <3>1 DEF SessionQueries
    <3>3. query.updatedAt = time /\ query \in SessionQueries
      BY <1>0, <3>2, AnswerStored
    <3> QED
      BY <1>0, <3>3
  <2>3. Render(query, clock) /\ remote' = remote
    BY <1>8, <2>1 DEF SessionFailed
  <2> QED
    BY <1>0, <1>1, <1>2, <2>2, <2>3, RenderKeeps DEF AccountInv
<1>9. CASE RemoteChanges
  <2>1. /\ remote' \in {Null, time + Life} /\ sessionQuery' = sessionQuery /\ clock' = clock
        /\ timer' = timer /\ evidence' = evidence /\ confirmed' = confirmed
    BY <1>9 DEF RemoteChanges
  <2>2. remote' \in SessionEnds \union {Null}
    BY <1>0, <2>1, AccountConstants DEF SessionEnds
  <2>3. WebInv'
    BY <1>0, <1>1, <2>1, <2>2 DEF WebInv, TimerReaches, EvidenceKept
  <2> QED
    BY <1>1, <1>2, <2>3 DEF AccountInv
<1>10. CASE DisconnectBrowser
  <2>1. PICK query : query = [sessionQuery EXCEPT !.data = Null, !.isError = FALSE,
                                                  !.updatedAt = time]
    OBVIOUS
  <2>2. query \in SessionQueries /\ query.updatedAt <= time
    <3>1. PICK data \in SessionEnds \union {None, Null}, error \in BOOLEAN,
               ask \in SessionAnswers \union {None, Asked} :
            data = Null /\ error = FALSE /\ ask = sessionQuery.ask
      BY <1>0 DEF SessionQueries
    <3>2. query = [sessionQuery EXCEPT !.data = data, !.isError = error, !.ask = ask,
                                       !.updatedAt = time]
      BY <1>0, <2>1, <3>1 DEF SessionQueries
    <3>3. query.updatedAt = time /\ query \in SessionQueries
      BY <1>0, <3>2, AnswerStored
    <3> QED
      BY <1>0, <3>3
  <2>3. Render(query, clock) /\ remote' = Null
    BY <1>10, <2>1 DEF DisconnectBrowser
  <2> QED
    BY <1>0, <1>1, <1>2, <2>2, <2>3, RenderKeeps DEF AccountInv
<1> QED
  BY <1>3, <1>4, <1>5, <1>6, <1>7, <1>8, <1>9, <1>10

\* What a request of the PC's connection leaves of the query.
LEMMA ConnectionStored ==
    ASSUME NEW old \in ConnectionQueries, NEW data \in Connections \union {None},
           NEW error \in BOOLEAN, NEW ask \in NativeStates \union {None, Asked}, NEW query,
           query = [old EXCEPT !.data = data, !.isError = error, !.ask = ask]
    PROVE  query \in ConnectionQueries
<1>1. PICK a : a = [old EXCEPT !.data = data]
  OBVIOUS
<1>2. PICK b : b = [a EXCEPT !.isError = error]
  OBVIOUS
<1>3. PICK c : c = [b EXCEPT !.ask = ask]
  OBVIOUS
<1>4. a \in ConnectionQueries
  BY <1>1 DEF ConnectionQueries
<1>5. b \in ConnectionQueries
  BY <1>2, <1>4 DEF ConnectionQueries
<1>6. c \in ConnectionQueries
  BY <1>3, <1>5 DEF ConnectionQueries
<1>7. c = query
  BY <1>1, <1>2, <1>3
<1> QED
  BY <1>6, <1>7

\* A request for the PC's connection keeps an error only over an answer it has.
LEMMA AskStored ==
    ASSUME NEW old \in ConnectionQueries, NEW query,
           query = [old EXCEPT !.ask = Asked, !.isError = old.isError /\ old.data # None]
    PROVE  query \in ConnectionQueries
<1>1. PICK error \in BOOLEAN : error = (old.isError /\ old.data # None)
  OBVIOUS
<1>2. old.data \in Connections \union {None}
  BY DEF ConnectionQueries
<1>3. query = [old EXCEPT !.ask = Asked, !.isError = error]
  BY <1>1, Zenon
<1>4. PICK data \in Connections \union {None}, ask \in NativeStates \union {None, Asked} :
        data = old.data /\ ask = Asked
  BY <1>2
<1>5. query = [old EXCEPT !.data = data, !.isError = error, !.ask = ask]
  BY <1>3, <1>4 DEF ConnectionQueries
<1> QED
  BY <1>5, ConnectionStored

\* What the client reads of a native state is a connection.
LEMMA ParsedIsConnection ==
    ASSUME NEW wire \in NativeStates
    PROVE  ParseDesktopConnection(wire) \in Connections
BY DEF ParseDesktopConnection, NativeStates, Connections

\* The steps of the PC's connection that render the page anew.
LEMMA ConnectionKeeps ==
    ASSUME AccountInv,
           \/ LmsEvent \/ AskConnection \/ ConnectionAnswered \/ ConnectionFailed
           \/ WaitTimeout \/ RetryDesktop
    PROVE  AccountInv'
<1>0. /\ time \in 0..MaxTicks /\ time \in Nat /\ surface \in {"web", "pwa", "pc"}
      /\ native \in NativeStates /\ connection \in ConnectionQueries
      /\ connection.data \in Connections \union {None} /\ connection.isError \in BOOLEAN
      /\ connection.ask \in NativeStates \union {None, Asked}
      /\ wait \in [attempt : 0..MaxRetries, timedOut : BOOLEAN] /\ WaitRuns
      /\ wait.attempt \in 0..MaxRetries /\ wait.timedOut \in BOOLEAN
  BY AccountConstants DEF AccountInv, PcInv, ConnectionQueries
<1>1. UNCHANGED <<surface, time, web, native, login>>
  BY DEF LmsEvent, AskConnection, ConnectionAnswered, ConnectionFailed, WaitTimeout, RetryDesktop
<1>2. WebInv'
  BY <1>0, <1>1, WebStands
<1>3. wait.timedOut => waiting # None /\ wait.attempt = wait.attempt /\ time >= waiting + WaitLimit
  BY <1>0 DEF WaitRuns
<1>4. CASE LmsEvent
  <2>1. CASE connection.data # None
    <3>1. PICK data : data = [connection.data EXCEPT !.lms = native.lms]
      OBVIOUS
    <3>2. native.lms \in LmsStates
      BY <1>0 DEF NativeStates
    <3>3. data \in Connections
      BY <1>0, <2>1, <3>1, <3>2 DEF Connections
    <3>4. PICK query : query = [connection EXCEPT !.data = data, !.isError = FALSE]
      OBVIOUS
    <3>5. query \in ConnectionQueries
      BY <1>0, <3>3, <3>4 DEF ConnectionQueries
    <3>6. RenderPc(query, wait)
      BY <1>4, <2>1, <3>1, <3>4 DEF LmsEvent, WithLmsSessionState
    <3> QED
      BY <1>0, <1>1, <1>2, <1>3, <3>5, <3>6, RenderPcKeeps DEF AccountInv
  <2>2. CASE connection.data = None
    <3>1. PICK ask \in NativeStates \union {None, Asked} :
            ask = IF Fetching(connection) THEN connection.ask ELSE Asked
      BY <1>0
    <3>2. PICK query : query = [connection EXCEPT !.ask = ask, !.isError = FALSE]
      OBVIOUS
    <3>3. query \in ConnectionQueries
      BY <1>0, <3>2 DEF ConnectionQueries
    <3>4. RenderPc(query, wait)
      BY <1>4, <2>2, <3>1, <3>2 DEF LmsEvent
    <3> QED
      BY <1>0, <1>1, <1>2, <1>3, <3>3, <3>4, RenderPcKeeps DEF AccountInv
  <2> QED
    BY <2>1, <2>2
<1>5. CASE AskConnection
  <2>1. PICK query : query = [connection EXCEPT !.ask = Asked,
                                  !.isError = connection.isError /\ connection.data # None]
    OBVIOUS
  <2>2. query \in ConnectionQueries
    BY <1>0, <2>1, AskStored
  <2>3. RenderPc(query, wait)
    BY <1>5, <2>1, Zenon DEF AskConnection
  <2> QED
    BY <1>0, <1>1, <1>2, <1>3, <2>2, <2>3, RenderPcKeeps DEF AccountInv
<1>6. CASE ConnectionAnswered
  <2>1. connection.ask \in NativeStates
    BY <1>0, <1>6 DEF ConnectionAnswered, Fetching
  <2>2. PICK answer \in Connections : answer = ParseDesktopConnection(connection.ask)
    BY <2>1, ParsedIsConnection
  <2>3. PICK query : query = [data |-> answer, isError |-> FALSE, ask |-> None]
    OBVIOUS
  <2>4. query \in ConnectionQueries
    BY <2>2, <2>3 DEF ConnectionQueries
  <2>5. RenderPc(query, wait)
    BY <1>6, <2>2, <2>3 DEF ConnectionAnswered
  <2> QED
    BY <1>0, <1>1, <1>2, <1>3, <2>4, <2>5, RenderPcKeeps DEF AccountInv
<1>7. CASE ConnectionFailed
  <2>1. PICK query : query = [connection EXCEPT !.isError = TRUE, !.ask = None]
    OBVIOUS
  <2>2. query \in ConnectionQueries
    BY <1>0, <2>1 DEF ConnectionQueries
  <2>3. RenderPc(query, wait)
    BY <1>7, <2>1 DEF ConnectionFailed
  <2> QED
    BY <1>0, <1>1, <1>2, <1>3, <2>2, <2>3, RenderPcKeeps DEF AccountInv
<1>8. CASE WaitTimeout
  <2>1. waiting # None /\ time >= waiting + WaitLimit
    BY <1>8 DEF WaitTimeout
  <2>2. PICK next : next = [wait EXCEPT !.timedOut = TRUE]
    OBVIOUS
  <2>3. next \in [attempt : 0..MaxRetries, timedOut : BOOLEAN] /\ next.attempt = wait.attempt
    BY <1>0, <2>2
  <2>4. RenderPc(connection, next)
    BY <1>8, <2>2 DEF WaitTimeout, CheckerWaitTransition
  <2> QED
    BY <1>0, <1>1, <1>2, <2>1, <2>3, <2>4, RenderPcKeeps DEF AccountInv
<1>9. CASE RetryDesktop
  <2>1. PICK query : query = [connection EXCEPT !.ask = Asked,
                                  !.isError = connection.isError /\ connection.data # None]
    OBVIOUS
  <2>2. query \in ConnectionQueries
    BY <1>0, <2>1, AskStored
  <2>3. PICK next : next = [attempt |-> wait.attempt + 1, timedOut |-> FALSE]
    OBVIOUS
  <2>4. next \in [attempt : 0..MaxRetries, timedOut : BOOLEAN] /\ ~next.timedOut
    BY <1>0, <1>9, <2>3, AccountConstants DEF RetryDesktop
  <2>5. RenderPc(query, CheckerWaitTransition(wait, [type |-> "retry"]))
    BY <1>9, <2>1, Zenon DEF RetryDesktop
  <2>6. CheckerWaitTransition(wait, [type |-> "retry"]) = next
    BY <2>3 DEF CheckerWaitTransition
  <2> QED
    BY <1>0, <1>1, <1>2, <2>2, <2>4, <2>5, <2>6, RenderPcKeeps DEF AccountInv
<1> QED
  BY <1>4, <1>5, <1>6, <1>7, <1>8, <1>9

\* The steps that render nothing.
LEMMA OutsideKeeps ==
    ASSUME AccountInv,
           AccountTick \/ NativeChanges \/ ConnectionRead \/ OpenLogin \/ LoginOpened
    PROVE  AccountInv'
<1>0. /\ time \in 0..MaxTicks /\ time \in Nat /\ surface \in {"web", "pwa", "pc"} /\ PcInv
      /\ MaxTicks \in Nat /\ Natives \subseteq NativeStates
  BY AccountConstants, AccountAccessAssumption DEF AccountInv
<1>1. /\ surface' = surface /\ UNCHANGED web /\ time' \in 0..MaxTicks /\ time' >= time
  BY <1>0 DEF AccountTick, NativeChanges, ConnectionRead, OpenLogin, LoginOpened
<1>2. WebInv'
  BY <1>1, WebStands
<1>3. CASE AccountTick \/ NativeChanges \/ OpenLogin \/ LoginOpened
  <2>1. /\ connection' = connection /\ wait' = wait /\ waiting' = waiting
        /\ native' \in NativeStates /\ login' \in {"idle", "pending", "error"}
    BY <1>0, <1>3 DEF PcInv, AccountTick, NativeChanges, OpenLogin, LoginOpened, pc
  <2> QED
    BY <1>0, <1>1, <1>2, <2>1, PcStands DEF AccountInv
<1>4. CASE ConnectionRead
  <2>1. connection' = [connection EXCEPT !.ask = native]
        /\ time' = time /\ native' = native /\ wait' = wait /\ waiting' = waiting /\ login' = login
    BY <1>4 DEF ConnectionRead
  <2>2. /\ connection' \in ConnectionQueries
        /\ connection'.data = connection.data /\ connection'.isError = connection.isError
    BY <1>0, <2>1 DEF PcInv, ConnectionQueries
  <2>3. Checking(connection') = Checking(connection)
    BY <2>2 DEF Checking, DashboardAccountStatus
  <2>4. WaitRuns'
    BY <1>0, <2>1, <2>3 DEF PcInv, WaitRuns, Checking
  <2> QED
    BY <1>0, <1>1, <1>2, <2>1, <2>2, <2>4 DEF AccountInv, PcInv
<1> QED
  BY <1>3, <1>4

\* The invariant of the account.
LEMMA AccountInvariant == AccountSpec => []AccountInv
<1>1. AccountInit => AccountInv
  <2> SUFFICES ASSUME AccountInit PROVE AccountInv
    OBVIOUS
  <2>1. time = 0 /\ clock = 0 /\ time \in 0..MaxTicks /\ clock \in 0..time
    BY AccountConstants DEF AccountInit
  <2>2. PICK ask \in {None, Asked} : sessionQuery = [data |-> None, isError |-> FALSE,
                                         paused |-> FALSE, updatedAt |-> 0, ask |-> ask]
    BY DEF AccountInit
  <2>3. sessionQuery \in SessionQueries /\ sessionQuery.data = None /\ sessionQuery.updatedAt = 0
    BY <2>1, <2>2 DEF SessionQueries
  <2>4. remote \in SessionEnds \union {Null}
    BY AccountConstants DEF AccountInit, SessionEnds
  <2>5. timer = None /\ evidence = None /\ confirmed = FALSE
    BY DEF AccountInit
  <2>6. WebInv
    <3>1. sessionQuery.updatedAt <= time
      BY <2>1, <2>3
    <3>2. TimerReaches /\ EvidenceKept
      BY <2>3, <2>5 DEF TimerReaches, EvidenceKept
    <3> QED
      BY <2>1, <2>3, <2>4, <2>5, <3>1, <3>2 DEF WebInv
  <2>7. native \in NativeStates
    BY DEF AccountInit, NativeStates, LmsStates
  <2>8. PICK fromPc \in {None, Asked} :
           connection = [data |-> None, isError |-> FALSE, ask |-> fromPc]
    BY DEF AccountInit
  <2>9. connection \in ConnectionQueries /\ connection.data = None /\ ~connection.isError
    BY <2>8 DEF ConnectionQueries
  <2>10. Checking(connection)
    BY <2>9 DEF Checking, DashboardAccountStatus, PersonalAccessState, Access
  <2>11. /\ wait \in [attempt : 0..MaxRetries, timedOut : BOOLEAN] /\ ~wait.timedOut
         /\ waiting \in 0..time \union {None} /\ login \in {"idle", "pending", "error"}
    BY <2>1, AccountConstants DEF AccountInit
  <2>12. PcInv
    BY <2>7, <2>9, <2>10, <2>11 DEF PcInv, WaitRuns
  <2>13. surface \in {"web", "pwa", "pc"}
    BY DEF AccountInit
  <2> QED
    BY <2>1, <2>6, <2>12, <2>13 DEF AccountInv
<1>2. AccountInv /\ [AccountNext]_accountVars => AccountInv'
  <2> SUFFICES ASSUME AccountInv, [AccountNext]_accountVars PROVE AccountInv'
    OBVIOUS
  <2>1. CASE UNCHANGED accountVars
    <3>1. /\ surface' = surface /\ time' = time /\ UNCHANGED web
          /\ connection' = connection /\ wait' = wait /\ waiting' = waiting
          /\ native' = native /\ login' = login
      BY <2>1 DEF accountVars, pc
    <3>2. time \in 0..MaxTicks /\ time' >= time /\ native \in NativeStates
          /\ login \in {"idle", "pending", "error"}
      BY <3>1, AccountConstants DEF AccountInv, PcInv
    <3> QED
      BY <3>1, <3>2, WebStands, PcStands DEF AccountInv
  <2>2. CASE AccountNext
    BY <2>2, SessionKeeps, ConnectionKeeps, OutsideKeeps DEF AccountNext
  <2> QED
    BY <2>1, <2>2
<1> QED
  BY <1>1, <1>2, PTL DEF AccountSpec

\* The account's variables stay within the values the client and the server give them:
\* dashboard-account.tsx and platform-authentication-gate.tsx.
THEOREM AccountTypes == AccountSpec => []AccountTypeOK
<1>1. AccountInv => AccountTypeOK
  BY DEF AccountInv, WebInv, PcInv, AccountTypeOK, SessionEnds
<1> QED
  BY <1>1, AccountInvariant, PTL

\* The gate is not open past the end of the session without the timeout that closes it being
\* due, and a page that was connected never calls the missing session a first connection:
\* useSessionExpiryClock and the evidence of transitionCookieSessionAccess.
THEOREM GateClosesWithSession == AccountSpec => []SessionEndCloses
<1>1. AccountInv => SessionEndCloses
  <2> SUFFICES ASSUME AccountInv, surface = "pwa"
               PROVE  /\ Open /\ sessionQuery.data <= time => timer # None /\ timer <= time
                      /\ confirmed => PersonalAccess.reason # "first-connect"
    BY DEF SessionEndCloses
  <2>1. PICK reading : reading = CookieTransition(sessionQuery, clock, evidence)
    OBVIOUS
  <2>2. PersonalAccess = reading.state
    BY <2>1 DEF PersonalAccess
  <2>3. /\ time \in Nat /\ clock \in Nat /\ clock <= MaxTicks /\ clock <= time
        /\ sessionQuery \in SessionQueries /\ sessionQuery.updatedAt \in Nat
        /\ evidence \in Evidence \union {None}
        /\ evidence = None \/ evidence.expiresAt > evidence.at
        /\ timer \in SessionEnds \union {None} /\ TimerReaches /\ EvidenceKept
    BY AccountConstants DEF AccountInv, WebInv, SessionQueries
  <2>4. /\ reading.state.status = "connected" =>
              sessionQuery.data \in SessionEnds /\ sessionQuery.data > clock
        /\ reading.state.reason = "first-connect" => evidence = None
    BY <2>1, <2>3, CookieCases
  <2>5. ASSUME Open, sessionQuery.data <= time
        PROVE  timer # None /\ timer <= time
    <3>1. sessionQuery.data \in Nat /\ sessionQuery.data > clock
      BY <2>2, <2>4, <2>5, AccountConstants DEF Open
    <3>2. sessionQuery.data \notin {None, Null} /\ clock < sessionQuery.data
      BY <2>3, <3>1, AccountConstants
    <3>3. timer # None /\ timer <= LaterOf(sessionQuery.data, time)
      BY <2>3, <3>2 DEF TimerReaches
    <3>4. LaterOf(sessionQuery.data, time) = time
      BY <2>3, <2>5, <3>1 DEF LaterOf
    <3> QED
      BY <3>3, <3>4
  <2>6. confirmed => PersonalAccess.reason # "first-connect"
    BY <2>2, <2>3, <2>4 DEF EvidenceKept
  <2> QED
    BY <2>5, <2>6
<1> QED
  BY <1>1, AccountInvariant, PTL

\* The status page calls the account ready where the gate is open, and a session good past
\* now where the gate has neither missed it nor let it expire.
LEMMA StatusFollowsGate == AccountInv => StatusAgreesWithGate
<1> SUFFICES ASSUME AccountInv, surface = "pwa",
                    NEW shown, NEW expiry, NEW fetching,
                    shown = AuthenticationStateFromProducer(PersonalAccess,
                         [data |-> sessionQuery.data, isError |-> sessionQuery.isError,
                          paused |-> sessionQuery.paused, isFetching |-> fetching]),
                    expiry = SessionExpiryRow(PwaSessionExpiry(PersonalAccess, sessionQuery.data),
                                              time)
             PROVE  /\ PersonalAccessRow(shown).status = "ready" => Open
                    /\ expiry.status = "ready" => PersonalAccess.status \in {"connected", "error"}
  BY DEF StatusAgreesWithGate
<1>1. PICK reading : reading = CookieTransition(sessionQuery, clock, evidence)
  OBVIOUS
<1>2. PersonalAccess = reading.state
  BY <1>1 DEF PersonalAccess
<1>3. /\ time \in Nat /\ clock \in Nat /\ clock <= MaxTicks /\ clock <= time
      /\ sessionQuery \in SessionQueries /\ sessionQuery.updatedAt \in Nat
      /\ sessionQuery.updatedAt <= time /\ sessionQuery.data \in SessionEnds \union {None, Null}
      /\ evidence \in Evidence \union {None}
      /\ evidence = None \/ evidence.expiresAt > evidence.at
  BY AccountConstants DEF AccountInv, WebInv, SessionQueries
<1>4. /\ reading.state.status \in {"connected", "unconnected", "checking", "error"}
      /\ reading.state.status = "error" => reading.state.reason \in {"offline", "server-error"}
      /\ /\ sessionQuery.data \in SessionEnds /\ sessionQuery.data > clock
         /\ sessionQuery.data > sessionQuery.updatedAt
         => reading.state.status \in {"connected", "error"}
  BY <1>1, <1>3, CookieCases
<1>5. ASSUME ~Open
      PROVE  PersonalAccessRow(shown).status # "ready"
  <2>1. reading.state.status # "connected"
    BY <1>2, <1>5 DEF Open
  <2>2. shown \in {"offline", "server-error", "recovering", "checking", "first-connect", "expired"}
    BY <1>2, <1>4, <2>1 DEF AuthenticationStateFromProducer
  <2> QED
    BY <2>2 DEF PersonalAccessRow, Row
<1>6. ASSUME expiry.status = "ready"
      PROVE  PersonalAccess.status \in {"connected", "error"}
  <2>1. CASE sessionQuery.data \in {None, Null}
    <3>1. PwaSessionExpiry(PersonalAccess, sessionQuery.data).kind
            \in {"checking", "none", "unavailable"}
      BY <1>2, <1>4, <2>1 DEF PwaSessionExpiry
    <3> QED
      BY <1>6, <3>1 DEF SessionExpiryRow, Row
  <2>2. CASE sessionQuery.data \notin {None, Null}
    <3>1. PwaSessionExpiry(PersonalAccess, sessionQuery.data) =
            [kind |-> "until", at |-> sessionQuery.data]
      BY <2>2 DEF PwaSessionExpiry
    <3>2. ~(sessionQuery.data <= time)
      BY <1>6, <3>1 DEF SessionExpiryRow, Row
    <3>3. sessionQuery.data \in SessionEnds /\ sessionQuery.data \in Nat
      BY <1>3, <2>2, AccountConstants
    <3>4. sessionQuery.data > clock /\ sessionQuery.data > sessionQuery.updatedAt
      BY <1>3, <3>2, <3>3
    <3> QED
      BY <1>2, <1>4, <3>3, <3>4
  <2> QED
    BY <2>1, <2>2
<1> QED
  BY <1>5, <1>6

\* A closed gate always offers something: in front of the PC's server panels the LMS is
\* authenticated, so that the answer was loaded and the server is no longer checked.
LEMMA GateOffersSomething == AccountInv => GateLeadsOn
<1> SUFFICES ASSUME AccountInv PROVE GateLeadsOn
  OBVIOUS
<1>1. /\ surface \in {"web", "pwa", "pc"} /\ WaitRuns
      /\ connection.data \in Connections \union {None} /\ wait.timedOut \in BOOLEAN
  BY DEF AccountInv, PcInv, ConnectionQueries
<1>2. ASSUME ~Open
      PROVE  PersonalGate.actions \ {"home"} # {}
  <2>1. CASE surface = "web"
    <3>1. "install" \in PersonalGate.actions
      BY <1>2, <2>1 DEF PersonalGate, WebPersonalGate, Panel
    <3> QED
      BY <3>1
  <2>2. CASE surface = "pwa"
    <3>1. "devices" \in PersonalGate.actions
      BY <1>2, <2>2 DEF PersonalGate, BrowserPersonalGate, Panel
    <3> QED
      BY <3>1
  <2>3. CASE surface = "pc" /\ AccountStatus.lms # "authenticated"
    <3>1. "login" \in PersonalGate.actions
      BY <1>2, <2>3 DEF PersonalGate, DesktopLmsGate, DesktopCheckingGate, Panel
    <3> QED
      BY <3>1
  <2>4. CASE surface = "pc" /\ AccountStatus.lms = "authenticated"
    <3>1. AccountStatus = DashboardAccountStatus("desktop", connection)
      BY <2>4 DEF AccountStatus
    <3>2. ~connection.isError /\ connection.data \in Connections
      BY <1>1, <2>4, <3>1 DEF DashboardAccountStatus
    <3>3. connection.data # None
      BY <3>2, AccountConstants
    <3>4. AccountStatus.server \in {"recovery-required", "stored", "memory-only", "missing"}
      BY <3>1, <3>2, <3>3 DEF DashboardAccountStatus, Connections
    <3>5. PersonalGate = DesktopServerGate(AccountStatus.server, wait.timedOut)
      BY <1>2, <2>4 DEF PersonalGate
    <3>6. PersonalGate.actions \cap {"devices", "connect"} # {}
      BY <3>4, <3>5 DEF DesktopServerGate, Panel
    <3> QED
      BY <3>6
  <2> QED
    BY <1>1, <2>1, <2>2, <2>3, <2>4
<1>3. wait.timedOut => waiting # None /\ time >= waiting + WaitLimit
  BY <1>1 DEF WaitRuns
<1> QED
  BY <1>2, <1>3 DEF GateLeadsOn

\* The status page calls ready only what the gate opens, a closed gate offers something besides
\* the way home, and the wait for the checker is called late after its whole time only:
\* app-status-contract.ts beside platform-authentication-gate.tsx.
THEOREM GateAgreesWithStatus == AccountSpec => []GateAgreesAndLeadsOn
<1>1. AccountInv => GateAgreesAndLeadsOn
  BY StatusFollowsGate, GateOffersSomething DEF GateAgreesAndLeadsOn
<1> QED
  BY <1>1, AccountInvariant, PTL
================================================================================
