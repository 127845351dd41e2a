----------------------------- MODULE DesktopSession -----------------------------
(***************************************************************************)
(* The PC app's web view talks to the server with short-lived tokens it    *)
(* gets from the native side.  Requests share one token and one request    *)
(* for the next; a rejected token is replaced once; and a reset of the     *)
(* identity must cut off everything that was asked for the former one.     *)
(* The native side works off its commands one at a time, for it holds      *)
(* webview_session_transition across each, but in no fixed order: a reset  *)
(* waits for another mutex before it takes that one.                       *)
(***************************************************************************)
EXTENDS Naturals, Sequences

CONSTANTS
    Callers,           \* requests of the client
    MaxTokens,         \* bound: tokens issued
    MaxResets,         \* bound: identity resets asked for
    NoToken            \* no token

VARIABLES
    identity,          \* the native installation identity: the generation of the reset that
                       \* made it, 0 the first one
    registered,        \* does the server know it?
    tokens,            \* tokens issued: [identity, life, revoked]
    commands,          \* native commands not worked off, in no order: [kind, generation]
    generation,        \* of the session manager
    current,           \* its token
    caller,            \* per request: [step, generation, token, retry, identity, status] and,
                       \* as history, early: answered while a reset was still to be worked off
    resets             \* history: resets asked for (MaxResets)

sessionVars == <<identity, registered, tokens, commands, generation, current, caller, resets>>

ASSUME DesktopSessionAssumption ==
    MaxTokens \in Nat /\ MaxResets \in Nat /\ NoToken \notin Nat

Lives == {"fresh", "closing", "over"}
Idle == [step |-> "idle", generation |-> 0, token |-> NoToken, retry |-> FALSE,
         identity |-> 0, status |-> 0, early |-> FALSE]

\* The server accepts a token until it is over or its installation is deleted.
Accepted(token) ==
    /\ tokens[token].life # "over" /\ ~tokens[token].revoked

\* The session manager keeps a token until shortly before its end.
Usable(token) ==
    IF token = NoToken THEN FALSE ELSE tokens[token].life = "fresh"

Command(kind, g) == [kind |-> kind, generation |-> g]
\* The resets that are asked for and not worked off.
Resets == {command \in commands : command.kind = "reset"}

\* A request for the next token is shared while it is under way: there is at most one of
\* a generation.  clear() lets go of it.
BootstrapAsked == commands \union {Command("bootstrap", generation)}

\* sessionLease(): at once with a usable token, else with the answer to the bootstrap.
Lease(c, token, retry) ==
    IF Usable(token)
    THEN /\ caller' = [caller EXCEPT ![c] = [Idle EXCEPT !.step = "sent", !.token = token,
                                               !.generation = generation, !.retry = retry]]
         /\ UNCHANGED commands
    ELSE /\ caller' = [caller EXCEPT ![c] = [Idle EXCEPT !.step = "waiting",
                                               !.generation = generation, !.retry = retry]]
         /\ commands' = BootstrapAsked

\* The caller gets an error.
Fail(c) == caller' = [caller EXCEPT ![c] = Idle]

CurrentAtStart(c) == TRUE
\* assertCurrent: the lease is of this generation.
Current(c) == caller[c].generation = generation

--------------------------------------------------------------------------------
(* The client. *)

StartRequest(c) ==
    /\ caller[c].step = "idle"
    /\ Lease(c, current, FALSE)
    /\ UNCHANGED <<identity, registered, tokens, generation, current, resets>>

\* What the server answers to a token, with what it knows at this moment.
AnswersTo(token) == IF Accepted(token) THEN {200, 500} ELSE {401}

ServerAnswers(c) ==
    /\ caller[c].step = "sent"
    /\ \E status \in AnswersTo(caller[c].token) :
          caller' = [caller EXCEPT ![c] = [@ EXCEPT !.step = "answered", !.status = status,
                                             !.identity = tokens[caller[c].token].identity,
                                             !.early = Resets # {}]]
    /\ UNCHANGED <<identity, registered, tokens, commands, generation, current, resets>>

ConnectionLost(c) ==
    /\ caller[c].step = "sent"
    /\ Fail(c)
    /\ UNCHANGED <<identity, registered, tokens, commands, generation, current, resets>>

\* A 401 is tried once more with another token; any other answer is read to its end.
Rejected(c) == caller[c].status = 401 /\ ~caller[c].retry

DropAlways(c) == NoToken
\* refreshAfterUnauthorized: only the rejected token itself is dropped.
AfterRejection(c) == IF current = caller[c].token THEN NoToken ELSE current

AnswerArrives(c) ==
    /\ caller[c].step = "answered"
    /\ IF ~Current(c)
       THEN Fail(c) /\ UNCHANGED <<commands, current>>
       ELSE IF Rejected(c)
       THEN current' = AfterRejection(c) /\ Lease(c, AfterRejection(c), TRUE)
       ELSE /\ caller' = [caller EXCEPT ![c] = [@ EXCEPT !.step = "reading"]]
            /\ UNCHANGED <<commands, current>>
    /\ UNCHANGED <<identity, registered, tokens, generation, resets>>

\* bufferedResponseWithinLease: the caller gets the whole body or nothing.
Deliver(c) ==
    /\ caller[c].step = "reading"
    /\ \/ Current(c) /\ caller' = [caller EXCEPT ![c] = [Idle EXCEPT !.step = "delivered"]]
       \/ Fail(c)
    /\ UNCHANGED <<identity, registered, tokens, commands, generation, current, resets>>

Forget(c) ==
    /\ caller[c].step = "delivered"
    /\ caller' = [caller EXCEPT ![c] = Idle]
    /\ UNCHANGED <<identity, registered, tokens, commands, generation, current, resets>>

\* clear(): the next generation; what is under way belongs to the former one.
Cleared == [generation |-> generation + 1, current |-> NoToken]

\* resetDesktopIdentity: clear() first, then the native command.
ResetIdentity ==
    /\ resets < MaxResets
    /\ resets' = resets + 1
    /\ generation' = Cleared.generation /\ current' = Cleared.current
    /\ commands' = commands \union {Command("reset", Cleared.generation)}
    /\ UNCHANGED <<identity, registered, tokens, caller>>

--------------------------------------------------------------------------------
(* The native side and the server. *)

\* Who waits for a bootstrap of generation g.
Waits(c, g) == caller[c].step = "waiting" /\ caller[c].generation = g

\* The answer to a bootstrap reaches the manager and, in the same turn of its event
\* loop, everyone who waits for it; an answer of a former generation is an error.
BootstrapIssued(g) ==
    /\ Command("bootstrap", g) \in commands /\ registered
    /\ Len(tokens) < MaxTokens
    /\ LET token == Len(tokens) + 1
       IN /\ current' = IF g = generation THEN token ELSE current
          /\ caller' = [c \in Callers |->
                IF ~Waits(c, g) THEN caller[c]
                ELSE IF g = generation THEN [caller[c] EXCEPT !.step = "sent", !.token = token]
                ELSE Idle]
    /\ tokens' = Append(tokens, [identity |-> identity, life |-> "fresh", revoked |-> FALSE])
    /\ commands' = commands \ {Command("bootstrap", g)}
    /\ UNCHANGED <<identity, registered, generation, resets>>

\* The native side refuses, or its answer is not one validateSession accepts.
BootstrapRefused(g) ==
    /\ Command("bootstrap", g) \in commands
    /\ commands' = commands \ {Command("bootstrap", g)}
    /\ caller' = [c \in Callers |-> IF Waits(c, g) THEN Idle ELSE caller[c]]
    /\ UNCHANGED <<identity, registered, tokens, generation, current, resets>>

\* reset_identity: the installation is deleted on the server with its tokens, then the
\* native side takes a new identity and registers it; each part can fail.
ResetWorkedOff(g) ==
    /\ Command("reset", g) \in commands
    /\ commands' = commands \ {Command("reset", g)}
    /\ \E outcome \in {"refused", "halfway", "unregistered", "done"} :
          /\ identity' = IF outcome \in {"unregistered", "done"} THEN g ELSE identity
          /\ registered' = CASE outcome = "refused" -> registered
                             [] OTHER -> outcome = "done"
          /\ tokens' = IF outcome = "refused" THEN tokens
                       ELSE [t \in DOMAIN tokens |-> [tokens[t] EXCEPT !.revoked = TRUE]]
    /\ UNCHANGED <<generation, current, caller, resets>>

RegisterAgain ==
    /\ ~registered
    /\ registered' = TRUE
    /\ UNCHANGED <<identity, tokens, commands, generation, current, caller, resets>>

TokenAges ==
    /\ \E t \in DOMAIN tokens :
          /\ tokens[t].life # "over"
          /\ tokens' = [tokens EXCEPT ![t].life = IF @ = "fresh" THEN "closing" ELSE "over"]
    /\ UNCHANGED <<identity, registered, commands, generation, current, caller, resets>>

SessionInit ==
    /\ identity = 0 /\ registered = TRUE
    /\ tokens = <<>> /\ commands = {}
    /\ generation = 0 /\ current = NoToken
    /\ caller = [c \in Callers |-> Idle] /\ resets = 0

SessionNext ==
    \/ \E c \in Callers : StartRequest(c) \/ ServerAnswers(c) \/ ConnectionLost(c)
                          \/ AnswerArrives(c) \/ Deliver(c) \/ Forget(c)
    \/ \E g \in 0..MaxResets : BootstrapIssued(g) \/ BootstrapRefused(g) \/ ResetWorkedOff(g)
    \/ ResetIdentity \/ RegisterAgain \/ TokenAges

SessionSpec == SessionInit /\ [][SessionNext]_sessionVars

--------------------------------------------------------------------------------
\* A request of the client, as the code can have it.
Requests ==
    [step : {"idle", "waiting", "sent", "answered", "reading", "delivered"},
     generation : 0..MaxResets, token : DOMAIN tokens \union {NoToken}, retry : BOOLEAN,
     identity : 0..MaxResets, status : {0, 200, 401, 500}, early : BOOLEAN]

(* Every variable stays within the values the code can hold.                *)
SessionTypeOK ==
    /\ generation \in 0..MaxResets /\ identity \in 0..MaxResets /\ registered \in BOOLEAN
    /\ tokens \in Seq([identity : 0..MaxResets, life : Lives, revoked : BOOLEAN])
    /\ commands \subseteq [kind : {"bootstrap", "reset"}, generation : 0..MaxResets]
    /\ current \in DOMAIN tokens \union {NoToken}
    /\ caller \in [Callers -> Requests]

(* Nothing of a former identity that the server gave after the reset reaches *)
(* a caller, nor what it gave before the client asked for it, whatever was   *)
(* on its way then: a delivered answer is of the identity the PC has at that *)
(* moment.  Only a request begun after clear(), with a token issued and      *)
(* answered before the native side came to the reset, slips through.         *)
DeliversForThisIdentity ==
    \A c \in Callers : caller[c].step = "reading" /\ caller'[c].step = "delivered"
                       => \/ caller[c].status = 401
                          \/ caller[c].identity = identity
                          \/ caller[c].early
DeliveredForThisIdentity == [][DeliversForThisIdentity]_sessionVars

(* A token is asked for only when no token of this generation works: many   *)
(* rejected requests lead to one new token, and a late rejection of an old  *)
(* token does not throw away its successor.                                 *)
BootstrapIsNeeded ==
    (\E g \in 0..MaxResets : Command("bootstrap", g) \in commands' \ commands)
       => current = NoToken \/ tokens[current].life # "fresh" \/ tokens[current].revoked
NoNeedlessBootstrap == [][BootstrapIsNeeded]_sessionVars

--------------------------------------------------------------------------------
(* The inductive invariant these follow from.                               *)

\* Commands are of a generation there was, and the server accepts a token only of the
\* identity it was issued to while the PC still has it.
CommandInv ==
    /\ resets = generation
    /\ \A command \in commands : command.generation <= generation
    /\ \A t \in DOMAIN tokens : tokens[t].revoked \/ tokens[t].identity = identity

\* What the server gave a request of this generation with no reset to come is of the
\* identity of this moment, and none has been asked for since.
RequestInv(request) ==
    /\ request.generation <= generation
    /\ request.step \in {"sent", "answered", "reading"} => request.token # NoToken
    /\ request.step = "answered" /\ request.status = 401 => ~Accepted(request.token)
    /\ /\ request.step \in {"answered", "reading"} /\ request.generation = generation
       /\ request.status # 401 /\ ~request.early
       => Resets = {} /\ request.identity = identity

SessionInv ==
    /\ SessionTypeOK
    /\ CommandInv
    /\ \A c \in Callers : RequestInv(caller[c])
================================================================================
