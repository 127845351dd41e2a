-------------------------- MODULE DeliveryContract --------------------------
(***************************************************************************)
(* What the server promises about one delivery of a notification to one    *)
(* target, whatever workers, leases, retries and restarts happen below:    *)
(* a delivery is opened once, is closed once, never changes afterwards,    *)
(* and is recorded as delivered only when the target was really reached.   *)
(***************************************************************************)
EXTENDS Naturals

CONSTANT Delivery   \* the (notification, target) pairs

VARIABLES
    outcome,        \* outcome[d]: what the server has on record for d
    reached         \* reached[d]: the push service took d at least once

contractVars == <<outcome, reached>>

Outcome == {"none", "open", "delivered", "gone", "failed", "dropped"}

ContractTypeOK ==
    /\ outcome \in [Delivery -> Outcome]
    /\ reached \in [Delivery -> BOOLEAN]

ContractInit ==
    /\ outcome = [d \in Delivery |-> "none"]
    /\ reached = [d \in Delivery |-> FALSE]

\* Becomes(S, o): every delivery of S gets the outcome o, the others keep theirs.
Becomes(S, o) == outcome' = [d \in Delivery |-> IF d \in S THEN o ELSE outcome[d]]

\* A notification is fanned out to the targets it has at that moment.
Open(S) ==
    /\ \A d \in S : outcome[d] = "none"
    /\ Becomes(S, "open")
    /\ UNCHANGED reached

\* A push of d reaches the push service: possibly again, possibly after d is closed.
Reach(d) ==
    /\ outcome[d] # "none"
    /\ reached' = [reached EXCEPT ![d] = TRUE]
    /\ UNCHANGED outcome

Confirm(d) ==
    /\ outcome[d] = "open"
    /\ reached[d]
    /\ Becomes({d}, "delivered")
    /\ UNCHANGED reached

GiveUp(S, o) ==
    /\ o \in {"gone", "failed"}
    /\ \A d \in S : outcome[d] = "open"
    /\ Becomes(S, o)
    /\ UNCHANGED reached

\* Rows disappear with their notification or their user, and do not come back.
Drop(S) ==
    /\ Becomes(S, "dropped")
    /\ UNCHANGED reached

ContractNext ==
    \/ \E S \in SUBSET Delivery :
          \/ Open(S)
          \/ \E o \in {"gone", "failed"} : GiveUp(S, o)
          \/ Drop(S)
    \/ \E d \in Delivery : Reach(d) \/ Confirm(d)

ContractSpec == ContractInit /\ [][ContractNext]_contractVars
=============================================================================
