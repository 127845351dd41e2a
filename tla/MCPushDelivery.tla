--------------------------- MODULE MCPushDelivery ---------------------------
(* Small instances of PushDelivery for TLC. *)
EXTENDS PushDelivery, TLC

\* deliverPushes waits min(15 min, 30 s shl min(k - 1, 5)) after the k-th failed send,
\* here in ticks of 30 s; the table is cut at MaxAttempts entries.
Least(a, b) == IF a < b THEN a ELSE b
BackoffTable == [k \in 1 .. MaxAttempts |-> Least(MaxAge, Least(30, 2 ^ Least(k - 1, 5)))]

Symmetry == Permutations(Token) \cup Permutations(Worker)

\* The history variables are written and never read: without them the states of the
\* liveness run are fewer and its behaviours the same.
WithoutHistory == <<notif, session, sub, row, cycle, crashes>>
=============================================================================
