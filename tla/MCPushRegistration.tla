------------------------- MODULE MCPushRegistration -------------------------
EXTENDS PushRegistration, FiniteSets

\* The behaviours in which a flow begins when no other is in flight: enough for
\* the disagreement this instance shows, which needs four flows.
OneAfterAnother == Init /\ [][Next /\ Cardinality(InFlight') <= 1]_vars
=============================================================================
