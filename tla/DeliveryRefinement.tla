------------------------- MODULE DeliveryRefinement -------------------------
(***************************************************************************)
(* notification_deliveries and its workers keep the promise AtLeastOnce.   *)
(* A row is open from its insertion until it is settled, whether it waits, *)
(* is being sent, or lies under a lease that nobody holds any more; an     *)
(* attempt of the promise is a claim of the row.                           *)
(***************************************************************************)
EXTENDS NotificationDelivery

JobState(d) ==
    CASE delivery[d].status = "absent"                        -> "absent"
      [] delivery[d].status \in {"pending", "sending", "retry"} -> "open"
      [] delivery[d].status = "sent"                          -> "sent"
      [] delivery[d].status = "dead"                          -> "dead"
      [] delivery[d].status \in {"skipped", "failed"}         -> "closed"

Promise == INSTANCE AtLeastOnce
           WITH Jobs <- Deliveries, Attempts <- MaxAttempts,
                state <- [d \in Deliveries |-> JobState(d)],
                begun <- claims, reached <- accepted, rounds <- replays

\* Whatever crashes, lapses or comes late, the table does nothing the promise
\* forbids: every transaction is a step of AtLeastOnce or invisible to it.
KeepsThePromise == Promise!Safe

\* And it does not stop short of it either, with one worker that keeps running.
KeepsThePromiseInTime == Promise!Spec
=============================================================================
