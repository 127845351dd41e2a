----------------------------- MODULE CampusQuery -----------------------------
(***************************************************************************)
(* What the laundry and meals pages share: one cached query of the public  *)
(* server, the refresh button's mutation over it, and the states a page    *)
(* derives from the two.  Times are ticks of the page's clock.             *)
(***************************************************************************)
EXTENDS NoValue, Integers

\* An answered query: its data, when the data and the last error came, and
\* whether the last finished fetch failed.  A mutation keeps the outcome and
\* the start of its last call.
NewQuery == [data |-> None, dataAt |-> 0, error |-> FALSE, errorAt |-> 0,
             fetching |-> FALSE]
NewRefresh == [status |-> "idle", submittedAt |-> 0]

Fetching(q) == [q EXCEPT !.fetching = TRUE]
Settled(q, data, now) ==
    [q EXCEPT !.data = data, !.dataAt = now, !.error = FALSE, !.fetching = FALSE]
Failed(q, now) == [q EXCEPT !.error = TRUE, !.errorAt = now, !.fetching = FALSE]

\* Data older than the stale time is refetched on the next occasion.
IsStale(q, now, staleTime) == now - q.dataAt > staleTime

\* A fetch that cannot start without a network is paused, not failed.
IsOffline(q, online) == ~online

\* The refresh button's failure counts until newer data came ...
RefreshFailureIsCurrent(q, refresh) ==
    refresh.status = "error" /\ refresh.submittedAt >= q.dataAt

\* ... and from then on the page says it has recovered.
Recovered(q, refresh, now, staleTime) ==
    /\ \/ refresh.status = "error" /\ refresh.submittedAt > 0
                                   /\ q.dataAt > refresh.submittedAt
       \/ q.errorAt > 0 /\ q.dataAt > q.errorAt
    /\ ~q.error
    /\ ~IsStale(q, now, staleTime)
    /\ ~RefreshFailureIsCurrent(q, refresh)

\* Without data a page is inside its boundary: it waits, or shows the error
\* with a retry, and says so when the network is gone.
BoundaryKind(q, online) ==
    IF ~online THEN "offline" ELSE IF q.error THEN "error" ELSE "loading"

\* The button in the page's header.
RefreshButton(refresh, online) ==
    [enabled |-> refresh.status # "pending" /\ online,
     label |-> IF ~online THEN "offline"
               ELSE IF refresh.status = "pending" THEN "refreshing" ELSE "refresh"]

\* A notice of kind k offers its retry unless a refresh is under way.
RetryShown(canRetry, refreshing) == canRetry /\ ~refreshing
==============================================================================
