---------------------------- MODULE DeviceAccess ----------------------------
(***************************************************************************)
(* What pairing promises to the owner of a PC about one connection code:   *)
(* at most one device asks with it, only that device is ever let in, it is *)
(* let in at most once, and an access that has ended never comes back.     *)
(***************************************************************************)
CONSTANTS
    Challenge,      \* connection codes the PC issues
    Mobile,         \* devices
    NoMobile

VARIABLES
    access,         \* access[c]: "none", "asked", "granted" or "over"
    device          \* device[c]: the device that asked with c

accessVars == <<access, device>>

AccessInit ==
    /\ access = [c \in Challenge |-> "none"]
    /\ device = [c \in Challenge |-> NoMobile]

Ask(c, m) ==
    /\ access[c] = "none"
    /\ access' = [access EXCEPT ![c] = "asked"]
    /\ device' = [device EXCEPT ![c] = m]

Grant(c) ==
    /\ access[c] = "asked"
    /\ access' = [access EXCEPT ![c] = "granted"]
    /\ UNCHANGED device

\* Codes are withdrawn and accesses revoked, several of them when the identity is reset.
End(S) ==
    /\ access' = [c \in Challenge |-> IF c \in S THEN "over" ELSE access[c]]
    /\ UNCHANGED device

AccessNext ==
    \/ \E c \in Challenge, m \in Mobile : Ask(c, m)
    \/ \E c \in Challenge : Grant(c)
    \/ \E S \in SUBSET Challenge : End(S)

AccessSpec == AccessInit /\ [][AccessNext]_accessVars
=============================================================================
