--------------------- MODULE NotificationDeliveryProofs ---------------------
(***************************************************************************)
(* Theorems about NotificationDelivery, for every value of its constants.  *)
(*                                                                         *)
(* Shape is the first inductive invariant: types, what a busy worker holds *)
(* and the lease columns.  They need each other: a lapsed lease hands its  *)
(* token to the history, so the token of a row being sent is a number.     *)
(***************************************************************************)
EXTENDS NotificationDelivery, TLAPS

\* What a worker holds while it is busy; its attempt is one MAX_ATTEMPTS allows,
\* so that the backoff computed from it is a number.
WorkerOK ==
    \A w \in Workers :
        worker[w].phase # "idle" =>
            /\ worker[w].job \in Deliveries
            /\ worker[w].token \in Nat
            /\ worker[w].attempt \in 1..MaxAttempts
            /\ worker[w].phase = "answered" => worker[w].result \in Result

Shape == TypeOK /\ WorkerOK /\ LeaseColumnsAgree

-----------------------------------------------------------------------------
(* Helpers return what their types promise. *)

\* The delay of a failed attempt is a natural number, whatever retry_after says.
LEMMA DelayType ==
    ASSUME NEW attempt \in 1..MaxAttempts, NEW retry_after \in Int
    PROVE  /\ Backoff(attempt) \in Nat
           /\ JitteredDelays(attempt, 0) \subseteq Nat
           /\ JitteredDelays(attempt, ClampedRetryAfter(retry_after)) \subseteq Nat
<1>1. Backoff(attempt) \in Nat
  BY BackoffAssumption
<1>2. ClampedRetryAfter(retry_after) \in Nat
  BY NumberAssumption DEF ClampedRetryAfter, Min2, Max2
<1>3. ASSUME NEW n \in Nat PROVE JitteredDelays(attempt, n) \subseteq Nat
  BY <1>1, <1>3 DEF JitteredDelays, Max2
<1> QED BY <1>1, <1>2, <1>3

\* The result of a failed attempt has the type of a result.
LEMMA FailureType ==
    ASSUME NEW attempt, NEW permanent, NEW error \in Errors, NEW delay \in Nat
    PROVE  Failure(attempt, permanent, error, delay) \in Result
BY DEF Failure, Result

\* What the transactions make of a row is a row.  First, a claimed one.
LEMMA RowClaimed ==
    ASSUME NEW row \in Row, NEW attempts \in Nat, NEW token \in Nat, NEW until \in Nat
    PROVE  [row EXCEPT !.status = "sending", !.attempts = attempts,
                       !.lease_token = token, !.lease_until = until] \in Row
BY DEF Row, Statuses

\* A row given up by claim_delivery is a row.
LEMMA RowGivenUp ==
    ASSUME NEW row \in Row
    PROVE  [row EXCEPT !.status = "dead", !.error = "attempts_exhausted",
                       !.lease_until = Null, !.lease_token = Null] \in Row
BY DEF Row, Statuses, Errors

\* A row sent round again by an administrator is a row.
LEMMA RowReplayed ==
    ASSUME NEW row \in Row, NEW time \in Nat
    PROVE  [row EXCEPT !.status = "retry", !.attempts = 0, !.error = "none",
                       !.next_attempt_at = time] \in Row
BY DEF Row, Statuses, Errors

\* A row with its result recorded is a row.
LEMMA RowRecorded ==
    ASSUME NEW row \in Row, NEW result \in Result, now \in Nat
    PROVE  Recorded(row, result) \in Row
<1>1. result.state \in Statuses /\ result.error \in Errors /\ now + result.delay \in Nat
  BY DEF Result, Statuses
<1>2. ASSUME NEW status \in Statuses, NEW error \in Errors, NEW time \in Nat
      PROVE  [row EXCEPT !.status = status, !.error = error, !.lease_token = Null,
                         !.lease_until = Null, !.next_attempt_at = time] \in Row
  BY DEF Row
<1> QED BY <1>1, <1>2 DEF Recorded

\* What the steps of a worker make of its state is a worker's state.  First, a
\* claim.
LEMMA WorkerClaimed ==
    ASSUME NEW d \in Deliveries, NEW token \in Nat, NEW attempt \in Nat, NEW until \in Nat,
           NEW linked \in BOOLEAN
    PROVE  [Idle EXCEPT !.phase = "claimed", !.job = d, !.token = token,
                        !.attempt = attempt, !.until = until,
                        !.linked = linked] \in WorkerState
BY DEF WorkerState, Idle

\* A worker with an answer is a worker's state.
LEMMA WorkerAnswered ==
    ASSUME NEW s \in WorkerState, NEW result \in Result
    PROVE  [s EXCEPT !.phase = "answered", !.result = result] \in WorkerState
BY DEF WorkerState

\* So is one whose recipient was linked since its claim.
LEMMA WorkerLinked ==
    ASSUME NEW s \in WorkerState
    PROVE  [s EXCEPT !.linked = TRUE] \in WorkerState
BY DEF WorkerState

-----------------------------------------------------------------------------
\* The initial states have the shape.
LEMMA ShapeInit == Init => Shape
<1> SUFFICES ASSUME Init PROVE Shape
  OBVIOUS
<1>1. TypeOK
  BY NumberAssumption DEF Init, TypeOK, EmptyRow, Row, Idle, WorkerState, Statuses, Errors
<1>2. WorkerOK
  BY DEF Init, WorkerOK, Idle
<1>3. LeaseColumnsAgree
  BY DEF Init, LeaseColumnsAgree, EmptyRow
<1> QED BY <1>1, <1>2, <1>3 DEF Shape

\* Every way a call to Telegram ends stores a result and touches nothing else
\* but the history.
LEMMA AnswerShape ==
    ASSUME Shape, NEW w \in Workers, NEW result \in Result, worker[w].phase # "idle",
           Answer(w, result), UNCHANGED <<delivery, chat, now, replays, claims>>,
           accepted' = accepted \/ Accept(w),
           \/ uncertain' = uncertain
           \/ uncertain' = [uncertain EXCEPT ![worker[w].job] = @ \cup {worker[w].token}]
    PROVE  Shape'
<1> USE DEF Shape
<1>1. worker' \in [Workers -> WorkerState]
  <2>1. [worker[w] EXCEPT !.phase = "answered", !.result = result] \in WorkerState
    BY WorkerAnswered DEF TypeOK
  <2> QED BY <2>1 DEF Answer, TypeOK
<1>2. worker[w].job \in Deliveries /\ worker[w].token \in Nat
  BY DEF WorkerOK
<1>3. accepted' \in [Deliveries -> SUBSET Nat] /\ uncertain' \in [Deliveries -> SUBSET Nat]
  BY <1>2 DEF Accept, TypeOK
<1>4. TypeOK'
  BY <1>1, <1>3 DEF TypeOK
<1>5. WorkerOK'
  BY DEF Answer, TypeOK, WorkerOK
<1>6. LeaseColumnsAgree'
  BY DEF LeaseColumnsAgree
<1> QED BY <1>4, <1>5, <1>6

\* Each action keeps the shape.
LEMMA ShapeNext == Shape /\ [Next]_vars => Shape'
<1> SUFFICES ASSUME Shape, [Next]_vars PROVE Shape'
  OBVIOUS
<1> USE DEF Shape
<1>1. ASSUME NEW e \in Events, ProcessEvent(e) PROVE Shape'
  <2>1. \A d \in Deliveries : NewRow(d) \in Row
    BY DEF TypeOK, NewRow, EmptyRow, Row, Statuses, Errors
  <2>2. TypeOK'
    BY <1>1, <2>1 DEF ProcessEvent, TypeOK, history
  <2>3. WorkerOK'
    BY <1>1 DEF ProcessEvent, WorkerOK
  <2>4. LeaseColumnsAgree'
    BY <1>1 DEF ProcessEvent, LeaseColumnsAgree, NewRow, EmptyRow
  <2> QED BY <2>2, <2>3, <2>4
<1>2. ASSUME NEW w \in Workers, NEW d \in Deliveries, ClaimDelivery(w, d) PROVE Shape'
  <2>1. delivery[d].attempts + 1 \in 1..MaxAttempts
    BY <1>2, NumberAssumption DEF ClaimDelivery, Exhausted, TypeOK, Row
  <2>2. delivery[d].status = "sending" => delivery[d].lease_token \in Nat
    BY DEF LeaseColumnsAgree, TypeOK, Row
  <2>3. TypeOK'
    <3>1. delivery' \in [Deliveries -> Row]
      <4>1. /\ delivery[d] \in Row /\ delivery[d].attempts + 1 \in Nat
            /\ claims[d] + 1 \in Nat /\ now + LeaseSeconds \in Nat
        BY <2>1, NumberAssumption DEF TypeOK
      <4>2. [delivery[d] EXCEPT !.status = "sending", !.attempts = delivery[d].attempts + 1,
                                !.lease_token = claims[d] + 1,
                                !.lease_until = now + LeaseSeconds] \in Row
        BY <4>1, RowClaimed
      <4> QED BY <1>2, <4>2 DEF ClaimDelivery, TypeOK
    <3>2. worker' \in [Workers -> WorkerState]
      <4>1. /\ claims[d] + 1 \in Nat /\ now + LeaseSeconds \in Nat
            /\ delivery[d].attempts + 1 \in Nat /\ (chat[ClientOf(d)] = d[2]) \in BOOLEAN
        BY <2>1, NumberAssumption DEF TypeOK
      <4>2. [Idle EXCEPT !.phase = "claimed", !.job = d, !.token = claims[d] + 1,
                         !.attempt = delivery[d].attempts + 1,
                         !.until = now + LeaseSeconds,
                         !.linked = (chat[ClientOf(d)] = d[2])] \in WorkerState
        BY <4>1, WorkerClaimed
      <4> QED BY <1>2, <4>2 DEF ClaimDelivery, TypeOK
    <3>3. uncertain' \in [Deliveries -> SUBSET Nat]
      BY <1>2, <2>2 DEF ClaimDelivery, Lapse, LeaseLapsed, TypeOK
    <3>4. claims' \in [Deliveries -> Nat]
      BY <1>2 DEF ClaimDelivery, TypeOK
    <3> QED BY <1>2, <3>1, <3>2, <3>3, <3>4 DEF ClaimDelivery, TypeOK
  <2>4. WorkerOK'
    BY <1>2, <2>1 DEF ClaimDelivery, WorkerOK, Idle, TypeOK
  <2>5. LeaseColumnsAgree'
    BY <1>2, NullAssumption, NumberAssumption DEF ClaimDelivery, LeaseColumnsAgree, TypeOK
  <2> QED BY <2>3, <2>4, <2>5
<1>3. ASSUME NEW w \in Workers, NEW d \in Deliveries, GiveUpDelivery(w, d) PROVE Shape'
  <2>1. delivery[d].status = "sending" => delivery[d].lease_token \in Nat
    BY DEF LeaseColumnsAgree, TypeOK, Row
  <2>2. TypeOK'
    <3>1. delivery' \in [Deliveries -> Row]
      BY <1>3, RowGivenUp DEF GiveUpDelivery, TypeOK
    <3>2. uncertain' \in [Deliveries -> SUBSET Nat]
      BY <1>3, <2>1 DEF GiveUpDelivery, Lapse, LeaseLapsed, TypeOK
    <3> QED BY <1>3, <3>1, <3>2 DEF GiveUpDelivery, TypeOK
  <2>3. WorkerOK'
    BY <1>3 DEF GiveUpDelivery, WorkerOK
  <2>4. LeaseColumnsAgree'
    BY <1>3 DEF GiveUpDelivery, LeaseColumnsAgree, TypeOK
  <2> QED BY <2>2, <2>3, <2>4
<1>4. ASSUME NEW w \in Workers, CheckRecipientOk(w) PROVE Shape'
  <2>1. worker' \in [Workers -> WorkerState]
    BY <1>4 DEF CheckRecipientOk, TypeOK, WorkerState
  <2> QED BY <1>4, <2>1 DEF CheckRecipientOk, TypeOK, WorkerOK, LeaseColumnsAgree, history
<1>5. ASSUME NEW w \in Workers, CheckRecipientChanged(w) PROVE Shape'
  <2>1. PICK delay \in JitteredDelays(worker[w].attempt, 0) :
            Answer(w, Failure(worker[w].attempt, TRUE, "recipient_changed", delay))
    BY <1>5 DEF CheckRecipientChanged
  <2>2. delay \in Nat
    BY <1>5, <2>1, DelayType DEF CheckRecipientChanged, WorkerOK
  <2>3. Failure(worker[w].attempt, TRUE, "recipient_changed", delay) \in Result
    BY <2>2, FailureType DEF Errors
  <2> QED BY <1>5, <2>1, <2>3, AnswerShape DEF CheckRecipientChanged, history
<1>6. ASSUME NEW w \in Workers, LookupFailed(w) PROVE Shape'
  <2>1. Backoff(worker[w].attempt) \in Nat
    BY <1>6, BackoffAssumption DEF LookupFailed, WorkerOK
  <2>2. Failure(worker[w].attempt, FALSE, "transient", Backoff(worker[w].attempt)) \in Result
    BY <2>1, FailureType DEF Errors
  <2> QED BY <1>6, <2>2, AnswerShape DEF LookupFailed, history
<1>7. ASSUME NEW w \in Workers, SendConfirmed(w) PROVE Shape'
  <2>1. Success \in Result
    BY DEF Success, Result, Errors
  <2> QED BY <1>7, <2>1, AnswerShape DEF SendConfirmed
<1>8. ASSUME NEW w \in Workers, SendUnconfirmed(w) PROVE Shape'
  <2>1. PICK delay \in JitteredDelays(worker[w].attempt, 0) :
            Answer(w, Failure(worker[w].attempt, FALSE, "transient", delay))
    BY <1>8 DEF SendUnconfirmed
  <2>2. delay \in Nat
    BY <1>8, <2>1, DelayType DEF SendUnconfirmed, WorkerOK
  <2>3. Failure(worker[w].attempt, FALSE, "transient", delay) \in Result
    BY <2>2, FailureType DEF Errors
  <2> QED BY <1>8, <2>1, <2>3, AnswerShape DEF SendUnconfirmed
<1>9. ASSUME NEW w \in Workers, SendFailed(w) PROVE Shape'
  <2>0. PICK retry_after \in RetryAfters :
            \E delay \in JitteredDelays(worker[w].attempt, ClampedRetryAfter(retry_after)) :
                Answer(w, Failure(worker[w].attempt, FALSE, "transient", delay))
    BY <1>9 DEF SendFailed
  <2>1. PICK delay \in JitteredDelays(worker[w].attempt, ClampedRetryAfter(retry_after)) :
            Answer(w, Failure(worker[w].attempt, FALSE, "transient", delay))
    BY <2>0
  <2>2. delay \in Nat
    BY <1>9, <2>1, DelayType, NumberAssumption DEF SendFailed, WorkerOK
  <2>3. Failure(worker[w].attempt, FALSE, "transient", delay) \in Result
    BY <2>2, FailureType DEF Errors
  <2> QED BY <1>9, <2>1, <2>3, AnswerShape DEF SendFailed, history
<1>10. ASSUME NEW w \in Workers, SendRejected(w) PROVE Shape'
  <2>0. PICK retry_after \in RetryAfters :
            \E delay \in JitteredDelays(worker[w].attempt, ClampedRetryAfter(retry_after)) :
                Answer(w, Failure(worker[w].attempt, TRUE, "rejected", delay))
    BY <1>10 DEF SendRejected
  <2>1. PICK delay \in JitteredDelays(worker[w].attempt, ClampedRetryAfter(retry_after)) :
            Answer(w, Failure(worker[w].attempt, TRUE, "rejected", delay))
    BY <2>0
  <2>2. delay \in Nat
    BY <1>10, <2>1, DelayType, NumberAssumption DEF SendRejected, WorkerOK
  <2>3. Failure(worker[w].attempt, TRUE, "rejected", delay) \in Result
    BY <2>2, FailureType DEF Errors
  <2> QED BY <1>10, <2>1, <2>3, AnswerShape DEF SendRejected, history
<1>11. ASSUME NEW w \in Workers, FinishDelivery(w) PROVE Shape'
  <2>1. worker[w].job \in Deliveries /\ worker[w].result \in Result
    BY <1>11 DEF FinishDelivery, WorkerOK
  <2>2. \A row \in Row : Recorded(row, worker[w].result) \in Row
    BY <2>1, RowRecorded DEF TypeOK
  <2>3. TypeOK'
    <3>1. delivery' \in [Deliveries -> Row]
      BY <1>11, <2>2 DEF FinishDelivery, TypeOK
    <3>2. worker' \in [Workers -> WorkerState]
      BY <1>11, NumberAssumption DEF FinishDelivery, TypeOK, Idle, WorkerState
    <3> QED BY <1>11, <3>1, <3>2 DEF FinishDelivery, TypeOK, history
  <2>4. WorkerOK'
    BY <1>11 DEF FinishDelivery, WorkerOK, Idle, TypeOK
  <2>5. LeaseColumnsAgree'
    BY <1>11, <2>1 DEF FinishDelivery, LeaseColumnsAgree, Recorded, Result, TypeOK, Row
  <2> QED BY <2>3, <2>4, <2>5
<1>12. ASSUME NEW w \in Workers, WorkerCrash(w) PROVE Shape'
  <2>1. worker' \in [Workers -> WorkerState]
    BY <1>12 DEF WorkerCrash, TypeOK, Idle, WorkerState
  <2> QED BY <1>12, <2>1 DEF WorkerCrash, TypeOK, WorkerOK, LeaseColumnsAgree, Idle, history
<1>13. ASSUME NEW d \in Deliveries, RetryNotification(d) PROVE Shape'
  <2>1. delivery' \in [Deliveries -> Row]
    BY <1>13, RowReplayed DEF RetryNotification, TypeOK
  <2>2. TypeOK'
    BY <1>13, <2>1 DEF RetryNotification, TypeOK, history
  <2>3. LeaseColumnsAgree'
    BY <1>13 DEF RetryNotification, LeaseColumnsAgree, TypeOK
  <2> QED BY <1>13, <2>2, <2>3 DEF RetryNotification, WorkerOK
<1>14. ASSUME NEW c \in Clients, NEW k \in Chats \cup {NoChat}, RebindChat(c, k) PROVE Shape'
  <2>1. worker' \in [Workers -> WorkerState]
    BY <1>14, WorkerLinked DEF RebindChat, TypeOK
  <2>2. TypeOK'
    BY <1>14, <2>1 DEF RebindChat, TypeOK, history
  <2>3. WorkerOK'
    BY <1>14 DEF RebindChat, WorkerOK, TypeOK, WorkerState
  <2> QED BY <1>14, <2>2, <2>3 DEF RebindChat, LeaseColumnsAgree
<1>15. ASSUME Tick PROVE Shape'
  BY <1>15 DEF Tick, TypeOK, WorkerOK, LeaseColumnsAgree, history
<1>16. ASSUME UNCHANGED vars PROVE Shape'
  BY <1>16 DEF vars, TypeOK, WorkerOK, LeaseColumnsAgree
<1> QED
  BY <1>1, <1>2, <1>3, <1>4, <1>5, <1>6, <1>7, <1>8, <1>9, <1>10, <1>11, <1>12, <1>13,
     <1>14, <1>15, <1>16 DEF Next, Claim, Attempt

\* The shape holds in every reachable state.
LEMMA ShapeInvariant == Spec => []Shape
BY ShapeInit, ShapeNext, PTL DEF Spec

\* Every reachable state has the declared types; in particular no delay the code
\* computes is negative and no token of the history is Null.
THEOREM TypeCorrect == Spec => []TypeOK
BY ShapeInvariant, PTL DEF Shape

\* lease_token and lease_until are set exactly while the row is being sent.
THEOREM LeaseColumns == Spec => []LeaseColumnsAgree
BY ShapeInvariant, PTL DEF Shape

-----------------------------------------------------------------------------
\* Whatever a step does to a row, it does not take it out of the table.
LEMMA RowsStay ==
    ASSUME Shape, [Next]_vars, NEW d \in Deliveries, delivery[d].status # "absent"
    PROVE  delivery'[d].status # "absent"
<1>1. ASSUME NEW e \in Events, ProcessEvent(e) PROVE delivery'[d].status # "absent"
  BY <1>1 DEF ProcessEvent, Received, Shape, TypeOK
<1>2. ASSUME NEW w \in Workers, NEW c \in Deliveries, ClaimDelivery(w, c)
      PROVE  delivery'[d].status # "absent"
  <2>1. PICK n \in Int, t \in Int, u \in Int :
          n = delivery[c].attempts + 1 /\ t = claims[c] + 1 /\ u = now + LeaseSeconds
    BY NumberAssumption DEF Shape, TypeOK, Row
  <2>2. delivery' = [delivery EXCEPT ![c] =
            [delivery[c] EXCEPT !.status = "sending", !.attempts = n,
                                !.lease_token = t, !.lease_until = u]]
    BY <1>2, <2>1 DEF ClaimDelivery
  <2> QED BY <2>2 DEF Shape, TypeOK, Row
<1>3. ASSUME NEW w \in Workers, NEW c \in Deliveries, GiveUpDelivery(w, c)
      PROVE  delivery'[d].status # "absent"
  BY <1>3 DEF GiveUpDelivery, Shape, TypeOK, Row
<1>4. ASSUME NEW w \in Workers, FinishDelivery(w) PROVE delivery'[d].status # "absent"
  <2> DEFINE r == worker[w].result
  <2>1. worker[w].job \in Deliveries /\ r.state \in {"sent", "retry", "dead"}
    BY <1>4 DEF FinishDelivery, Shape, WorkerOK, Result
  <2>2. \A row \in Row : Recorded(row, r).status = r.state
    BY DEF Recorded, Row
  <2> HIDE DEF r
  <2>3. delivery'[d] = delivery[d] \/ delivery'[d] = Recorded(delivery[d], r)
    BY <1>4, <2>1 DEF FinishDelivery, Shape, TypeOK, r
  <2> QED BY <2>1, <2>2, <2>3 DEF Shape, TypeOK
<1>5. ASSUME NEW c \in Deliveries, RetryNotification(c) PROVE delivery'[d].status # "absent"
  BY <1>5 DEF RetryNotification, Shape, TypeOK, Row
<1>6. ASSUME delivery' = delivery PROVE delivery'[d].status # "absent"
  BY <1>6
<1> QED
  BY <1>1, <1>2, <1>3, <1>4, <1>5, <1>6
  DEF Next, vars, Claim, Attempt, CheckRecipientOk, CheckRecipientChanged, LookupFailed,
      SendConfirmed, SendUnconfirmed, SendFailed, SendRejected, WorkerCrash, RebindChat, Tick

-----------------------------------------------------------------------------
\* sent, skipped and legacy failed rows never change again, and a dead row moves
\* only by an audited replay: late workers, duplicates of the event and replays
\* all meet a guard on the status.
THEOREM SettledForGood == Spec => SettledStaysSettled
<1> DEFINE Kept(d) ==
      /\ delivery[d].status \in {"sent", "skipped", "failed"} => delivery'[d] = delivery[d]
      /\ delivery[d].status = "dead" =>
            delivery'[d] = delivery[d] \/ replays'[d] = replays[d] + 1
<1>1. Shape /\ [Next]_vars => [\A d \in Deliveries : Kept(d)]_vars
  <2> SUFFICES ASSUME Shape, Next, NEW d \in Deliveries PROVE Kept(d)
    OBVIOUS
  <2>1. ASSUME NEW e \in Events, ProcessEvent(e) PROVE Kept(d)
    BY <2>1 DEF ProcessEvent, Received, Shape, TypeOK
  <2>2. ASSUME NEW w \in Workers, NEW c \in Deliveries,
               ClaimDelivery(w, c) \/ GiveUpDelivery(w, c)
        PROVE  Kept(d)
    BY <2>2 DEF ClaimDelivery, GiveUpDelivery, Claimable, Due, LeaseLapsed, Shape, TypeOK
  <2>3. ASSUME NEW w \in Workers, FinishDelivery(w) PROVE Kept(d)
    BY <2>3 DEF FinishDelivery, HoldsRow, Shape, TypeOK
  <2>4. ASSUME NEW c \in Deliveries, RetryNotification(c) PROVE Kept(d)
    BY <2>4 DEF RetryNotification, Shape, TypeOK
  <2>5. ASSUME delivery' = delivery PROVE Kept(d)
    BY <2>5
  <2> QED
    BY <2>1, <2>2, <2>3, <2>4, <2>5
    DEF Next, Claim, Attempt, CheckRecipientOk, CheckRecipientChanged, LookupFailed,
        SendConfirmed, SendUnconfirmed, SendFailed, SendRejected, WorkerCrash, RebindChat, Tick
<1> QED BY <1>1, ShapeInvariant, PTL DEF Spec, SettledStaysSettled

-----------------------------------------------------------------------------
(* The claim budget.  A cycle is what lies between two replays; the claims *)
(* of a row are those of its full cycles and the attempts of this one.     *)

Budget ==
    \A d \in Deliveries :
        /\ delivery[d].attempts <= MaxAttempts
        /\ delivery[d].attempts <= claims[d]
        /\ claims[d] <= MaxAttempts * replays[d] + delivery[d].attempts
        /\ delivery[d].status = "absent" => claims[d] = 0

\* Before anything happens nothing is spent.
LEMMA BudgetInit == Init => Budget
BY NumberAssumption DEF Init, Budget, EmptyRow

\* Claiming raises both sides by one; a replay trades the attempts of a cycle for
\* a full cycle.
LEMMA BudgetNext == Shape /\ Budget /\ [Next]_vars => Budget'
<1> DEFINE Within(d) ==
      /\ delivery'[d].attempts <= MaxAttempts
      /\ delivery'[d].attempts <= claims'[d]
      /\ claims'[d] <= MaxAttempts * replays'[d] + delivery'[d].attempts
      /\ delivery'[d].status = "absent" => claims'[d] = 0
<1> SUFFICES ASSUME Shape, Budget, [Next]_vars, NEW d \in Deliveries
             PROVE  Within(d)
  BY DEF Budget
<1>1. /\ delivery[d].attempts \in Nat /\ claims[d] \in Nat /\ replays[d] \in Nat
      /\ MaxAttempts \in Nat /\ MaxAttempts * replays[d] \in Nat
      /\ delivery[d].attempts <= MaxAttempts /\ delivery[d].attempts <= claims[d]
      /\ claims[d] <= MaxAttempts * replays[d] + delivery[d].attempts
      /\ delivery[d].status = "absent" => claims[d] = 0
  BY NumberAssumption DEF Shape, TypeOK, Row, Budget
<1>2. ASSUME NEW e \in Events, ProcessEvent(e) PROVE Within(d)
  <2>1. CASE d[1] = e
    BY <1>1, <1>2, <2>1 DEF ProcessEvent, Received, NewRow, EmptyRow, history, Shape, TypeOK
  <2>2. CASE d[1] # e
    BY <1>1, <1>2, <2>2 DEF ProcessEvent, history, Shape, TypeOK
  <2> QED BY <2>1, <2>2
<1>3. ASSUME NEW w \in Workers, NEW c \in Deliveries, ClaimDelivery(w, c) PROVE Within(d)
  <2>1. CASE c = d
    <3>1. /\ delivery[d].attempts < MaxAttempts
          /\ delivery'[d].attempts = delivery[d].attempts + 1
          /\ delivery'[d].status = "sending"
          /\ claims'[d] = claims[d] + 1
          /\ replays' = replays
      BY <1>1, <1>3, <2>1 DEF ClaimDelivery, Exhausted, Shape, TypeOK
    <3> QED BY <1>1, <3>1
  <2>2. CASE c # d
    BY <1>1, <1>3, <2>2 DEF ClaimDelivery, Shape, TypeOK
  <2> QED BY <2>1, <2>2
<1>4. ASSUME NEW w \in Workers, NEW c \in Deliveries, GiveUpDelivery(w, c) PROVE Within(d)
  BY <1>1, <1>4 DEF GiveUpDelivery, Shape, TypeOK
<1>5. ASSUME NEW w \in Workers, FinishDelivery(w) PROVE Within(d)
  <2>1. /\ delivery'[d].attempts = delivery[d].attempts
        /\ delivery'[d].status = "absent" => delivery[d].status = "absent"
    BY <1>5 DEF FinishDelivery, Recorded, Shape, TypeOK, WorkerOK, Result
  <2> QED BY <1>1, <1>5, <2>1 DEF FinishDelivery, history
<1>6. ASSUME NEW c \in Deliveries, RetryNotification(c) PROVE Within(d)
  <2>1. CASE c = d
    <3>1. /\ delivery'[d].attempts = 0
          /\ delivery'[d].status = "retry"
          /\ claims'[d] = claims[d]
          /\ replays'[d] = replays[d] + 1
      BY <1>6, <2>1 DEF RetryNotification, history, Shape, TypeOK
    <3>2. MaxAttempts * (replays[d] + 1) = MaxAttempts * replays[d] + MaxAttempts
      BY <1>1
    <3> QED BY <1>1, <3>1, <3>2
  <2>2. CASE c # d
    BY <1>1, <1>6, <2>2 DEF RetryNotification, history, Shape, TypeOK
  <2> QED BY <2>1, <2>2
<1>7. ASSUME UNCHANGED <<delivery, claims, replays>> PROVE Within(d)
  BY <1>1, <1>7
<1> QED
  BY <1>2, <1>3, <1>4, <1>5, <1>6, <1>7
  DEF Next, Claim, Attempt, CheckRecipientOk, CheckRecipientChanged, LookupFailed,
      SendConfirmed, SendUnconfirmed, SendFailed, SendRejected, WorkerCrash, RebindChat,
      Tick, vars, history

\* The budget holds in every reachable state.
LEMMA BudgetInvariant == Spec => [](Shape /\ Budget)
BY BudgetInit, BudgetNext, ShapeInvariant, PTL DEF Spec

\* Every claim is paid for, whatever takeovers, crashes and replays there are.
THEOREM ClaimsBounded == Spec => []ClaimBudget
<1>1. Shape /\ Budget => ClaimBudget
  <2> SUFFICES ASSUME Shape, Budget, NEW d \in Deliveries
               PROVE  claims[d] <= MaxAttempts * (1 + replays[d])
    BY DEF ClaimBudget
  <2>1. /\ delivery[d].attempts \in Nat /\ claims[d] \in Nat /\ replays[d] \in Nat
        /\ MaxAttempts \in Nat /\ MaxAttempts * replays[d] \in Nat
    BY NumberAssumption DEF Shape, TypeOK, Row
  <2>2. MaxAttempts * (1 + replays[d]) = MaxAttempts + MaxAttempts * replays[d]
    BY <2>1
  <2> QED BY <2>1, <2>2 DEF Budget
<1> QED BY <1>1, BudgetInvariant, PTL

-----------------------------------------------------------------------------
(* The fence.  Known(d) are the claims whose message was accepted and      *)
(* whose result is not lost.  What makes "sent" and the count of           *)
(* duplicates right is that every busy worker either holds its row with    *)
(* the newest claim, or its claim is already written off as uncertain.     *)

Known(d) == accepted[d] \ uncertain[d]

RowFence(d) ==
    /\ accepted[d] \subseteq 1..claims[d]
    /\ delivery[d].status = "sending" =>
          /\ delivery[d].lease_token = claims[d]
          /\ Known(d) \subseteq {claims[d]}
    /\ delivery[d].status = "sent" =>
          /\ claims[d] \in accepted[d]
          /\ Known(d) \subseteq {claims[d]}
    /\ delivery[d].status \notin {"sending", "sent"} => Known(d) = {}

WorkerFence(w) ==
    worker[w].phase # "idle" =>
        /\ worker[w].token \in 1..claims[worker[w].job]
        /\ HoldsRow(w) \/ worker[w].token \in uncertain[worker[w].job]
        /\ worker[w].phase \in {"claimed", "cleared"} =>
              worker[w].token \notin accepted[worker[w].job]
        /\ worker[w].phase = "answered" =>
              IF worker[w].result.state = "sent"
              THEN worker[w].token \in accepted[worker[w].job]
              ELSE worker[w].token \notin Known(worker[w].job)

DistinctClaims(v, w) ==
    /\ v # w
    /\ worker[v].phase # "idle" /\ worker[w].phase # "idle"
    /\ worker[v].job = worker[w].job
    => worker[v].token # worker[w].token

Fence ==
    /\ \A d \in Deliveries : RowFence(d)
    /\ \A w \in Workers : WorkerFence(w)
    /\ \A v, w \in Workers : DistinctClaims(v, w)

\* No claims, no messages, no workers at the start.
LEMMA FenceInit == Init => Fence
BY DEF Init, Fence, RowFence, WorkerFence, DistinctClaims, Known, Idle, EmptyRow

\* What the fence says of one row, in the types of Shape.
LEMMA RowFacts ==
    ASSUME Shape, Fence, NEW d \in Deliveries
    PROVE  /\ RowFence(d)
           /\ claims[d] \in Nat
           /\ accepted[d] \subseteq Nat /\ uncertain[d] \subseteq Nat
           /\ delivery[d] \in Row
BY DEF Shape, TypeOK, Fence

\* What the fence says of one busy worker.
LEMMA WorkerFacts ==
    ASSUME Shape, Fence, NEW w \in Workers, worker[w].phase # "idle"
    PROVE  /\ WorkerFence(w)
           /\ worker[w].job \in Deliveries
           /\ worker[w].token \in Nat
           /\ worker[w].token \in 1..claims[worker[w].job]
           /\ worker[w] \in WorkerState
BY DEF Shape, TypeOK, WorkerOK, Fence, WorkerFence

\* A claim: the newest number goes to the worker and to the row, and a claim
\* taken over is written off.
LEMMA FenceClaim ==
    ASSUME Shape, Fence, NEW w \in Workers, NEW c \in Deliveries, ClaimDelivery(w, c)
    PROVE  Fence'
<1>1. /\ claims[c] \in Nat /\ claims'[c] = claims[c] + 1
      /\ delivery'[c].status = "sending" /\ delivery'[c].lease_token = claims[c] + 1
      /\ worker'[w].phase = "claimed" /\ worker'[w].job = c
      /\ worker'[w].token = claims[c] + 1
      /\ accepted' = accepted
  BY RowFacts DEF ClaimDelivery, Shape, TypeOK, Idle
<1>2. \A d \in Deliveries \ {c} :
          delivery'[d] = delivery[d] /\ claims'[d] = claims[d] /\ uncertain'[d] = uncertain[d]
  BY DEF ClaimDelivery, Lapse, Shape, TypeOK
<1>3. \A v \in Workers \ {w} : worker'[v] = worker[v]
  BY DEF ClaimDelivery, Shape, TypeOK
<1>4. uncertain'[c] = IF LeaseLapsed(c) THEN uncertain[c] \cup {delivery[c].lease_token}
                      ELSE uncertain[c]
  BY DEF ClaimDelivery, Lapse, Shape, TypeOK
<1>5. LeaseLapsed(c) \/ delivery[c].status \in {"pending", "retry"}
  BY DEF ClaimDelivery, Claimable, Due
<1>6. accepted[c] \subseteq 1..claims[c]
  BY RowFacts DEF RowFence
<1>7. ASSUME NEW d \in Deliveries PROVE RowFence(d)'
  <2>1. CASE d = c
    <3>1. accepted[c] \ uncertain'[c] = {}
      BY <1>4, <1>5, RowFacts DEF RowFence, Known, LeaseLapsed
    <3> QED BY <1>1, <1>6, <2>1, <3>1 DEF RowFence, Known
  <2>2. CASE d # c
    BY <1>1, <1>2, <2>2, RowFacts DEF RowFence, Known
  <2> QED BY <2>1, <2>2
<1>8. ASSUME NEW v \in Workers PROVE WorkerFence(v)'
  <2>1. CASE v = w
    BY <1>1, <1>6, <2>1 DEF WorkerFence, HoldsRow
  <2>2. CASE v # w /\ worker[v].phase # "idle"
    <3>1. worker'[v] = worker[v] /\ worker[v].job \in Deliveries
      BY <1>3, <2>2, WorkerFacts
    <3>2. CASE worker[v].job = c
      <4>1. worker[v].token \in uncertain'[c]
        BY <1>4, <1>5, <2>2, <3>2, WorkerFacts DEF WorkerFence, HoldsRow
      <4>2. worker[v].token \in 1..claims'[c]
        BY <1>1, <2>2, <3>2, WorkerFacts
      <4> QED BY <1>1, <2>2, <3>1, <3>2, <4>1, <4>2, WorkerFacts DEF WorkerFence, Known
    <3>3. CASE worker[v].job # c
      BY <1>1, <1>2, <2>2, <3>1, <3>3, WorkerFacts DEF WorkerFence, HoldsRow, Known
    <3> QED BY <3>2, <3>3
  <2>3. CASE v # w /\ worker[v].phase = "idle"
    BY <1>3, <2>3 DEF WorkerFence
  <2> QED BY <2>1, <2>2, <2>3
<1>9. ASSUME NEW u \in Workers, NEW v \in Workers PROVE DistinctClaims(u, v)'
  <2>1. CASE u # w /\ v # w
    BY <1>3, <2>1 DEF DistinctClaims, Fence
  <2>2. \A x \in Workers \ {w} :
            worker[x].phase # "idle" /\ worker[x].job = c => worker[x].token # claims[c] + 1
    BY <1>1, WorkerFacts
  <2> QED BY <1>1, <1>3, <2>1, <2>2 DEF DistinctClaims
<1> QED BY <1>7, <1>8, <1>9 DEF Fence

\* Giving up: the claim whose lease lapsed is written off.
LEMMA FenceGiveUp ==
    ASSUME Shape, Fence, NEW w \in Workers, NEW c \in Deliveries, GiveUpDelivery(w, c)
    PROVE  Fence'
<1>1. /\ delivery'[c].status = "dead" /\ worker' = worker
      /\ accepted' = accepted /\ claims' = claims
      /\ uncertain'[c] = IF LeaseLapsed(c) THEN uncertain[c] \cup {delivery[c].lease_token}
                         ELSE uncertain[c]
  BY DEF GiveUpDelivery, Lapse, Shape, TypeOK
<1>2. \A d \in Deliveries \ {c} : delivery'[d] = delivery[d] /\ uncertain'[d] = uncertain[d]
  BY DEF GiveUpDelivery, Lapse, Shape, TypeOK
<1>3. LeaseLapsed(c) \/ delivery[c].status \in {"pending", "retry"}
  BY DEF GiveUpDelivery, Claimable, Due
<1>4. ASSUME NEW d \in Deliveries PROVE RowFence(d)'
  <2>1. CASE d = c
    <3>1. accepted[c] \ uncertain'[c] = {}
      BY <1>1, <1>3, RowFacts DEF RowFence, Known, LeaseLapsed
    <3> QED BY <1>1, <2>1, <3>1, RowFacts DEF RowFence, Known
  <2>2. CASE d # c
    BY <1>1, <1>2, <2>2, RowFacts DEF RowFence, Known
  <2> QED BY <2>1, <2>2
<1>5. ASSUME NEW v \in Workers, worker[v].phase # "idle" PROVE WorkerFence(v)'
  <2>1. CASE worker[v].job = c
    <3>1. worker[v].token \in uncertain'[c]
      BY <1>1, <1>3, <1>5, <2>1, WorkerFacts DEF WorkerFence, HoldsRow
    <3> QED BY <1>1, <1>5, <2>1, <3>1, WorkerFacts DEF WorkerFence, Known
  <2>2. CASE worker[v].job # c
    BY <1>1, <1>2, <1>5, <2>2, WorkerFacts DEF WorkerFence, HoldsRow, Known
  <2> QED BY <2>1, <2>2
<1> QED BY <1>1, <1>4, <1>5 DEF Fence, WorkerFence, DistinctClaims

\* An attempt ends.  Nothing was accepted and the result says so; or the message
\* was accepted and the result says so; or it was accepted and its claim is
\* written off because the result does not say so.
Outcome(w, result) ==
    \/ UNCHANGED <<accepted, uncertain>> /\ result.state # "sent"
    \/ Accept(w) /\ UNCHANGED uncertain /\ result.state = "sent"
    \/ /\ Accept(w) /\ result.state # "sent"
       /\ uncertain' = [uncertain EXCEPT ![worker[w].job] = @ \cup {worker[w].token}]

\* Each of these outcomes keeps the fence.
LEMMA FenceAnswer ==
    ASSUME Shape, Fence, NEW w \in Workers, NEW result,
           worker[w].phase \in {"claimed", "cleared"}, Answer(w, result),
           UNCHANGED <<delivery, claims>>, Outcome(w, result)
    PROVE  Fence'
<1> DEFINE c == worker[w].job
           n == worker[w].token
<1>1. /\ c \in Deliveries /\ n \in 1..claims[c] /\ n \in Nat
      /\ HoldsRow(w) \/ n \in uncertain[c]
      /\ n \notin accepted[c]
  BY WorkerFacts DEF WorkerFence
<1>2. /\ worker'[w].phase = "answered" /\ worker'[w].job = c /\ worker'[w].token = n
      /\ worker'[w].result = result
  BY DEF Answer, Shape, TypeOK, WorkerState
<1>3. \A v \in Workers \ {w} : worker'[v] = worker[v]
  BY DEF Answer, Shape, TypeOK
<1>4. \A d \in Deliveries \ {c} : accepted'[d] = accepted[d] /\ uncertain'[d] = uncertain[d]
  BY <1>1 DEF Outcome, Accept, Shape, TypeOK
<1>5. \/ accepted'[c] = accepted[c] /\ uncertain'[c] = uncertain[c] /\ result.state # "sent"
      \/ accepted'[c] = accepted[c] \cup {n} /\ uncertain'[c] = uncertain[c] /\ result.state = "sent"
      \/ /\ accepted'[c] = accepted[c] \cup {n} /\ uncertain'[c] = uncertain[c] \cup {n}
         /\ result.state # "sent"
  BY <1>1 DEF Outcome, Accept, Shape, TypeOK
<1>6. ASSUME NEW d \in Deliveries PROVE RowFence(d)'
  <2>1. CASE d = c
    <3>1. LET known == accepted'[c] \ uncertain'[c]
          IN  known \subseteq Known(c) \/ (HoldsRow(w) /\ known \subseteq Known(c) \cup {n})
      BY <1>1, <1>5 DEF Known
    <3>2. HoldsRow(w) => delivery[c].status = "sending" /\ n = claims[c]
      BY <1>1, RowFacts DEF HoldsRow, RowFence
    <3>3. accepted'[c] \subseteq 1..claims[c] /\ accepted[c] \subseteq accepted'[c]
      BY <1>1, <1>5, RowFacts DEF RowFence
    <3> QED BY <1>1, <2>1, <3>1, <3>2, <3>3, RowFacts DEF RowFence, Known
  <2>2. CASE d # c
    BY <1>4, <2>2, RowFacts DEF RowFence, Known
  <2> QED BY <2>1, <2>2
<1>7. ASSUME NEW v \in Workers PROVE WorkerFence(v)'
  <2>1. CASE v = w
    <3>1. IF result.state = "sent" THEN n \in accepted'[c]
          ELSE n \notin accepted'[c] \ uncertain'[c]
      BY <1>1, <1>5
    <3>2. HoldsRow(w)' \/ n \in uncertain'[c]
      BY <1>1, <1>2, <1>5 DEF HoldsRow
    <3> QED BY <1>1, <1>2, <2>1, <3>1, <3>2 DEF WorkerFence, Known
  <2>2. CASE v # w /\ worker[v].phase # "idle"
    <3>1. worker'[v] = worker[v] /\ worker[v].job \in Deliveries /\ WorkerFence(v)
      BY <1>3, <2>2, WorkerFacts
    <3>2. worker[v].job = c => worker[v].token # n
      BY <2>2, WorkerFacts DEF Fence, DistinctClaims
    <3>3. /\ worker[v].token \in accepted'[worker[v].job]
                <=> worker[v].token \in accepted[worker[v].job]
          /\ worker[v].token \in uncertain'[worker[v].job]
                <=> worker[v].token \in uncertain[worker[v].job]
      BY <1>4, <1>5, <3>1, <3>2
    <3> QED BY <2>2, <3>1, <3>3 DEF WorkerFence, HoldsRow, Known
  <2>3. CASE v # w /\ worker[v].phase = "idle"
    BY <1>3, <2>3 DEF WorkerFence
  <2> QED BY <2>1, <2>2, <2>3
<1>8. ASSUME NEW u \in Workers, NEW v \in Workers PROVE DistinctClaims(u, v)'
  BY <1>2, <1>3 DEF DistinctClaims, Fence
<1> QED BY <1>6, <1>7, <1>8 DEF Fence

\* A result is recorded, or refused: only the newest claim holds its row.
LEMMA FenceFinish ==
    ASSUME Shape, Fence, NEW w \in Workers, FinishDelivery(w)
    PROVE  Fence'
<1> DEFINE c == worker[w].job
           n == worker[w].token
<1>1. /\ c \in Deliveries /\ n \in 1..claims[c]
      /\ IF worker[w].result.state = "sent" THEN n \in accepted[c] ELSE n \notin Known(c)
      /\ worker[w].result \in Result
  BY WorkerFacts DEF FinishDelivery, WorkerFence, Shape, WorkerOK
<1>2. /\ worker'[w].phase = "idle"
      /\ \A v \in Workers \ {w} : worker'[v] = worker[v]
      /\ claims' = claims /\ accepted' = accepted /\ uncertain' = uncertain
  BY DEF FinishDelivery, history, Idle, Shape, TypeOK
<1>3. \A d \in Deliveries \ {c} : delivery'[d] = delivery[d]
  BY DEF FinishDelivery, Shape, TypeOK
<1>4. /\ ~HoldsRow(w) => delivery'[c] = delivery[c]
      /\ HoldsRow(w) => /\ delivery'[c].status = worker[w].result.state
                         /\ delivery[c].status = "sending" /\ n = claims[c]
  <2>1. ~HoldsRow(w) => delivery'[c] = delivery[c]
    BY <1>1 DEF FinishDelivery, Shape, TypeOK
  <2>2. HoldsRow(w) => delivery'[c] = Recorded(delivery[c], worker[w].result)
    BY <1>1 DEF FinishDelivery, Shape, TypeOK
  <2>3. Recorded(delivery[c], worker[w].result).status = worker[w].result.state
    BY <1>1, RowFacts DEF Recorded, Row
  <2>4. HoldsRow(w) => delivery[c].status = "sending" /\ n = claims[c]
    BY <1>1, RowFacts DEF HoldsRow, RowFence
  <2> QED BY <2>1, <2>2, <2>3, <2>4
<1>5. ASSUME NEW d \in Deliveries PROVE RowFence(d)'
  <2>1. CASE d = c /\ HoldsRow(w)
    <3>1. worker[w].result.state \in {"sent", "retry", "dead"}
      BY <1>1 DEF Result
    <3> QED BY <1>1, <1>2, <1>4, <2>1, <3>1, RowFacts DEF RowFence, Known
  <2>2. CASE d # c \/ ~HoldsRow(w)
    BY <1>1, <1>2, <1>3, <1>4, <2>2, RowFacts DEF RowFence, Known
  <2> QED BY <2>1, <2>2
<1>6. ASSUME NEW v \in Workers, v # w, worker[v].phase # "idle" PROVE WorkerFence(v)'
  <2>1. HoldsRow(v) => HoldsRow(v)'
    <3>1. worker[v].job = c => worker[v].token # n
      BY <1>6, WorkerFacts DEF Fence, DistinctClaims, FinishDelivery
    <3>2. HoldsRow(v) /\ HoldsRow(w) => worker[v].job # c
      BY <3>1 DEF HoldsRow
    <3>3. worker[v].job \in Deliveries
      BY <1>6, WorkerFacts
    <3> QED BY <1>2, <1>3, <1>4, <1>6, <3>2, <3>3 DEF HoldsRow
  <2> QED BY <1>2, <1>6, <2>1, WorkerFacts DEF WorkerFence, Known
<1>7. \A v \in Workers : WorkerFence(v)'
  BY <1>2, <1>6 DEF WorkerFence
<1>8. \A u, v \in Workers : DistinctClaims(u, v)'
  BY <1>2 DEF DistinctClaims, Fence
<1> QED BY <1>5, <1>7, <1>8 DEF Fence

\* A step that only moves rows which are neither being sent nor sent, to states
\* that are neither, keeps the fence.
LEMMA FenceOtherRows ==
    ASSUME Shape, Fence, UNCHANGED <<worker, claims, accepted, uncertain>>,
           \A d \in Deliveries :
              \/ delivery'[d] = delivery[d]
              \/ /\ delivery[d].status \notin {"sending", "sent"}
                 /\ delivery'[d].status \notin {"sending", "sent"}
    PROVE  Fence'
<1>1. ASSUME NEW d \in Deliveries PROVE RowFence(d)'
  BY RowFacts DEF RowFence, Known
<1>2. ASSUME NEW w \in Workers, worker[w].phase # "idle" PROVE WorkerFence(w)'
  BY <1>2, WorkerFacts DEF WorkerFence, HoldsRow, Known
<1> QED BY <1>1, <1>2 DEF Fence, WorkerFence, DistinctClaims

\* A step in which a worker at most becomes idle, learns that its recipient still
\* stands, or has its history of links extended, keeps the fence.
LEMMA FenceOtherWorkers ==
    ASSUME Shape, Fence, UNCHANGED <<delivery, claims, accepted, uncertain>>,
           \A w \in Workers :
              \/ worker'[w].phase = "idle"
              \/ /\ worker[w].phase # "idle"
                 /\ worker'[w].job = worker[w].job /\ worker'[w].token = worker[w].token
                 /\ \/ worker'[w].phase = worker[w].phase /\ worker'[w].result = worker[w].result
                    \/ worker[w].phase = "claimed" /\ worker'[w].phase = "cleared"
    PROVE  Fence'
<1>1. ASSUME NEW d \in Deliveries PROVE RowFence(d)'
  BY RowFacts DEF RowFence, Known
<1>2. ASSUME NEW w \in Workers PROVE WorkerFence(w)'
  BY WorkerFacts DEF WorkerFence, HoldsRow, Known
<1>3. ASSUME NEW v \in Workers, NEW w \in Workers PROVE DistinctClaims(v, w)'
  BY DEF DistinctClaims, Fence
<1> QED BY <1>1, <1>2, <1>3 DEF Fence

\* Each action keeps the fence.
LEMMA FenceNext == Shape /\ Fence /\ [Next]_vars => Fence'
<1> SUFFICES ASSUME Shape, Fence, [Next]_vars PROVE Fence'
  OBVIOUS
<1>1. ASSUME NEW e \in Events, ProcessEvent(e) PROVE Fence'
  <2>1. ASSUME NEW d \in Deliveries
        PROVE  \/ delivery'[d] = delivery[d]
               \/ /\ delivery[d].status \notin {"sending", "sent"}
                  /\ delivery'[d].status \notin {"sending", "sent"}
    BY <1>1 DEF ProcessEvent, Received, NewRow, EmptyRow, Shape, TypeOK
  <2> QED BY <1>1, <2>1, FenceOtherRows DEF ProcessEvent, history
<1>2. ASSUME NEW w \in Workers, NEW d \in Deliveries, ClaimDelivery(w, d) PROVE Fence'
  BY <1>2, FenceClaim
<1>3. ASSUME NEW w \in Workers, NEW d \in Deliveries, GiveUpDelivery(w, d) PROVE Fence'
  BY <1>3, FenceGiveUp
<1>4. ASSUME NEW w \in Workers, CheckRecipientOk(w) PROVE Fence'
  <2>1. ASSUME NEW v \in Workers
        PROVE  \/ worker'[v] = worker[v]
               \/ /\ worker[v].phase = "claimed" /\ worker'[v].phase = "cleared"
                  /\ worker'[v].job = worker[v].job /\ worker'[v].token = worker[v].token
    BY <1>4 DEF CheckRecipientOk, Shape, TypeOK, WorkerState
  <2> QED BY <1>4, <2>1, FenceOtherWorkers DEF CheckRecipientOk, history
<1>5. \A attempt, permanent, error, delay :
          Failure(attempt, permanent, error, delay).state # "sent"
  BY DEF Failure
<1>6. ASSUME NEW w \in Workers, CheckRecipientChanged(w) PROVE Fence'
  <2>1. PICK result : Answer(w, result) /\ result.state # "sent"
    BY <1>5, <1>6 DEF CheckRecipientChanged
  <2>2. Outcome(w, result)
    BY <1>6, <2>1 DEF CheckRecipientChanged, Outcome, history
  <2> QED BY <1>6, <2>1, <2>2, FenceAnswer DEF CheckRecipientChanged, history
<1>7. ASSUME NEW w \in Workers, LookupFailed(w) PROVE Fence'
  <2>1. PICK result : Answer(w, result) /\ result.state # "sent"
    BY <1>5, <1>7 DEF LookupFailed
  <2>2. Outcome(w, result)
    BY <1>7, <2>1 DEF LookupFailed, Outcome, history
  <2> QED BY <1>7, <2>1, <2>2, FenceAnswer DEF LookupFailed, history
<1>8. ASSUME NEW w \in Workers, SendConfirmed(w) PROVE Fence'
  <2>1. Success.state = "sent"
    BY DEF Success
  <2>2. Outcome(w, Success)
    BY <1>8, <2>1 DEF SendConfirmed, Outcome
  <2> QED BY <1>8, <2>2, FenceAnswer DEF SendConfirmed
<1>9. ASSUME NEW w \in Workers, SendUnconfirmed(w) PROVE Fence'
  <2>1. PICK result : Answer(w, result) /\ result.state # "sent"
    BY <1>5, <1>9 DEF SendUnconfirmed
  <2>2. Outcome(w, result)
    BY <1>9, <2>1 DEF SendUnconfirmed, Outcome
  <2> QED BY <1>9, <2>1, <2>2, FenceAnswer DEF SendUnconfirmed
<1>10. ASSUME NEW w \in Workers, SendFailed(w) PROVE Fence'
  <2>1. PICK result : Answer(w, result) /\ result.state # "sent"
    BY <1>5, <1>10 DEF SendFailed
  <2>2. Outcome(w, result)
    BY <1>10, <2>1 DEF SendFailed, Outcome, history
  <2> QED BY <1>10, <2>1, <2>2, FenceAnswer DEF SendFailed, history
<1>11. ASSUME NEW w \in Workers, SendRejected(w) PROVE Fence'
  <2>1. PICK result : Answer(w, result) /\ result.state # "sent"
    BY <1>5, <1>11 DEF SendRejected
  <2>2. Outcome(w, result)
    BY <1>11, <2>1 DEF SendRejected, Outcome, history
  <2> QED BY <1>11, <2>1, <2>2, FenceAnswer DEF SendRejected, history
<1>12. ASSUME NEW w \in Workers, FinishDelivery(w) PROVE Fence'
  BY <1>12, FenceFinish
<1>13. ASSUME NEW w \in Workers, WorkerCrash(w) PROVE Fence'
  <2>1. \A v \in Workers : worker'[v] = worker[v] \/ worker'[v].phase = "idle"
    BY <1>13 DEF WorkerCrash, Idle, Shape, TypeOK
  <2> QED BY <1>13, <2>1, FenceOtherWorkers DEF WorkerCrash, history
<1>14. ASSUME NEW d \in Deliveries, RetryNotification(d) PROVE Fence'
  <2>1. ASSUME NEW c \in Deliveries
        PROVE  \/ delivery'[c] = delivery[c]
               \/ /\ delivery[c].status \notin {"sending", "sent"}
                  /\ delivery'[c].status \notin {"sending", "sent"}
    BY <1>14 DEF RetryNotification, Shape, TypeOK
  <2> QED BY <1>14, <2>1, FenceOtherRows DEF RetryNotification, history
<1>15. ASSUME NEW c \in Clients, NEW k \in Chats \cup {NoChat}, RebindChat(c, k) PROVE Fence'
  <2>1. ASSUME NEW v \in Workers
        PROVE  /\ worker'[v].phase = worker[v].phase /\ worker'[v].job = worker[v].job
               /\ worker'[v].token = worker[v].token /\ worker'[v].result = worker[v].result
    BY <1>15 DEF RebindChat, Shape, TypeOK, WorkerState
  <2> QED BY <1>15, <2>1, FenceOtherWorkers DEF RebindChat, history
<1>16. ASSUME Tick \/ UNCHANGED vars PROVE Fence'
  BY <1>16, FenceOtherRows DEF Tick, vars, history
<1> QED
  BY <1>1, <1>2, <1>3, <1>4, <1>6, <1>7, <1>8, <1>9, <1>10, <1>11, <1>12, <1>13, <1>14,
     <1>15, <1>16 DEF Next, Claim, Attempt

\* The fence stands in every reachable state.
LEMMA FenceInvariant == Spec => [](Shape /\ Fence)
BY FenceInit, FenceNext, ShapeInvariant, PTL DEF Spec

\* A row is "sent" only if Telegram accepted the message of its newest claim: no
\* fenced-off worker and no lost answer ever marks a row.
THEOREM SentIsAccepted == Spec => []SentOnlyIfAccepted
<1>1. Shape /\ Fence => SentOnlyIfAccepted
  BY DEF SentOnlyIfAccepted, Fence, RowFence
<1> QED BY <1>1, FenceInvariant, PTL

\* The price of at-least-once delivery: of all messages Telegram accepted for a
\* row, at most one is of a claim whose result was not lost.
THEOREM DuplicatesArePaidFor == Spec => []DuplicatesNeedALostResult
<1>1. Shape /\ Fence => DuplicatesNeedALostResult
  BY DEF DuplicatesNeedALostResult, Fence, RowFence, Known
<1> QED BY <1>1, FenceInvariant, PTL

\* Only the newest claim moves a row out of "sending", but for giving up a lapsed
\* lease.
THEOREM LatestClaimDecides == Spec => OnlyLatestClaimDecides
<1> DEFINE Decided(d) ==
      \/ \E w \in Workers :
            /\ worker[w].phase = "answered" /\ worker[w].job = d
            /\ worker[w].token = claims[d]
            /\ delivery'[d].status = worker[w].result.state
      \/ LeaseLapsed(d) /\ delivery'[d].status = "dead"
<1>1. Shape /\ Fence /\ [Next]_vars =>
          [\A d \in Deliveries :
              delivery[d].status = "sending" /\ delivery'[d].status # "sending" => Decided(d)]_vars
  <2> SUFFICES ASSUME Shape, Fence, Next, NEW d \in Deliveries,
                      delivery[d].status = "sending", delivery'[d].status # "sending"
               PROVE  Decided(d)
    OBVIOUS
  <2>1. ASSUME NEW e \in Events, ProcessEvent(e) PROVE FALSE
    BY <2>1 DEF ProcessEvent, Received, Shape, TypeOK
  <2>2. ASSUME NEW w \in Workers, NEW c \in Deliveries, ClaimDelivery(w, c) PROVE FALSE
    BY <2>2 DEF ClaimDelivery, Shape, TypeOK
  <2>3. ASSUME NEW w \in Workers, NEW c \in Deliveries, GiveUpDelivery(w, c) PROVE Decided(d)
    BY <2>3 DEF GiveUpDelivery, Claimable, Due, Shape, TypeOK
  <2>4. ASSUME NEW w \in Workers, FinishDelivery(w) PROVE Decided(d)
    <3>1. worker[w].job = d /\ HoldsRow(w) /\ worker[w].phase = "answered"
      BY <2>4 DEF FinishDelivery, Shape, TypeOK
    <3>2. worker[w].token = claims[d]
      BY <3>1, RowFacts DEF HoldsRow, RowFence
    <3>3. delivery'[d] = Recorded(delivery[d], worker[w].result)
      BY <2>4, <3>1 DEF FinishDelivery, Shape, TypeOK
    <3>4. delivery'[d].status = worker[w].result.state
      BY <3>3, RowFacts DEF Recorded, Row
    <3> QED BY <3>1, <3>2, <3>4
  <2>5. ASSUME NEW c \in Deliveries, RetryNotification(c) PROVE FALSE
    BY <2>5 DEF RetryNotification, Shape, TypeOK
  <2>6. ASSUME delivery' = delivery PROVE FALSE
    BY <2>6
  <2> QED
    BY <2>1, <2>2, <2>3, <2>4, <2>5, <2>6
    DEF Next, Claim, Attempt, CheckRecipientOk, CheckRecipientChanged, LookupFailed,
        SendConfirmed, SendUnconfirmed, SendFailed, SendRejected, WorkerCrash, RebindChat, Tick
<1> QED BY <1>1, FenceInvariant, PTL DEF Spec, OnlyLatestClaimDecides

-----------------------------------------------------------------------------
(* What a step can do to one row and to one worker.  The theorems below    *)
(* are about times and reasons; for them it is enough to know which of     *)
(* these few things happened.                                              *)

Horizon == Max2(RetryAfterCap, BackoffCap + 1)

\* What the result of an attempt may say: no delay beyond the horizon, and death
\* for a permanent error or after the last attempt only.
Explained(result, attempt) ==
    /\ result.delay <= Horizon
    /\ result.state = "dead" =>
          \/ result.error \in {"recipient_changed", "rejected"}
          \/ result.error = "transient" /\ attempt >= MaxAttempts

\* No backoff exceeds its cap, by more than the jitter, and no retry_after its
\* clamp, so no delay exceeds the horizon.
LEMMA DelayBound ==
    ASSUME NEW attempt \in 1..MaxAttempts, NEW retry_after \in Int
    PROVE  /\ Backoff(attempt) <= Horizon
           /\ \A delay \in JitteredDelays(attempt, 0) : delay <= Horizon
           /\ \A delay \in JitteredDelays(attempt, ClampedRetryAfter(retry_after)) :
                 delay <= Horizon
<1>1. ASSUME NEW a \in Nat, NEW b, Min2(a, b) \in Nat PROVE Min2(a, b) <= a
  BY <1>1 DEF Min2
<1>2. Backoff(attempt) \in Nat /\ Backoff(attempt) <= BackoffCap
  BY <1>1, BackoffAssumption, NumberAssumption DEF Backoff
<1>3. ClampedRetryAfter(retry_after) \in 0..RetryAfterCap
  BY NumberAssumption DEF ClampedRetryAfter, Min2, Max2
<1>4. ASSUME NEW n \in 0..RetryAfterCap, NEW delay \in JitteredDelays(attempt, n)
      PROVE  delay <= Horizon
  <2>1. PICK jitter \in 0..1 : delay = Max2(n, Backoff(attempt) + jitter)
    BY <1>4 DEF JitteredDelays
  <2> QED BY <1>2, <2>1, NumberAssumption DEF Horizon, Max2
<1>5. 0 \in 0..RetryAfterCap
  BY NumberAssumption
<1>6. Backoff(attempt) <= Horizon
  BY <1>2, NumberAssumption DEF Horizon, Max2
<1> QED BY <1>3, <1>4, <1>5, <1>6

\* A failure explains itself.
LEMMA FailureExplained ==
    ASSUME NEW attempt \in 1..MaxAttempts, NEW delay \in Nat, delay <= Horizon
    PROVE  /\ Explained(Failure(attempt, TRUE, "recipient_changed", delay), attempt)
           /\ Explained(Failure(attempt, TRUE, "rejected", delay), attempt)
           /\ Explained(Failure(attempt, FALSE, "transient", delay), attempt)
BY DEF Explained, Failure

\* The step in which an attempt ends.
Ends(w) ==
    \/ CheckRecipientChanged(w) \/ LookupFailed(w)
    \/ SendConfirmed(w) \/ SendUnconfirmed(w) \/ SendFailed(w) \/ SendRejected(w)

\* Every attempt ends with a result that explains itself.
LEMMA EndExplained ==
    ASSUME Shape, NEW w \in Workers, Ends(w)
    PROVE  /\ worker[w].phase # "idle" /\ delivery' = delivery
           /\ \E result \in Result :
                 Answer(w, result) /\ Explained(result, worker[w].attempt)
<1>1. worker[w].phase # "idle" /\ delivery' = delivery
  BY DEF Ends, CheckRecipientChanged, LookupFailed, SendConfirmed, SendUnconfirmed,
         SendFailed, SendRejected
<1>2. worker[w].attempt \in 1..MaxAttempts
  BY <1>1 DEF Shape, WorkerOK
<1>3. ASSUME NEW delay \in Nat, delay <= Horizon, NEW permanent \in BOOLEAN, NEW error,
             \/ permanent = TRUE /\ error \in {"recipient_changed", "rejected"}
             \/ permanent = FALSE /\ error = "transient",
             Answer(w, Failure(worker[w].attempt, permanent, error, delay))
      PROVE  \E result \in Result : Answer(w, result) /\ Explained(result, worker[w].attempt)
  <2>1. error \in Errors
    BY <1>3 DEF Errors
  <2>2. Failure(worker[w].attempt, permanent, error, delay) \in Result
    BY <2>1, FailureType
  <2>3. Explained(Failure(worker[w].attempt, permanent, error, delay), worker[w].attempt)
    BY <1>2, <1>3, FailureExplained
  <2> QED BY <1>3, <2>2, <2>3
<1>4. 0 \in Int
  OBVIOUS
<1>5. CASE CheckRecipientChanged(w)
  <2>1. PICK delay \in JitteredDelays(worker[w].attempt, 0) :
            Answer(w, Failure(worker[w].attempt, TRUE, "recipient_changed", delay))
    BY <1>5 DEF CheckRecipientChanged
  <2>2. delay \in Nat /\ delay <= Horizon
    BY <1>2, <1>4, DelayType, DelayBound
  <2> QED BY <1>1, <1>3, <2>1, <2>2
<1>6. CASE LookupFailed(w)
  <2>1. Answer(w, Failure(worker[w].attempt, FALSE, "transient", Backoff(worker[w].attempt)))
    BY <1>6 DEF LookupFailed
  <2>2. Backoff(worker[w].attempt) \in Nat /\ Backoff(worker[w].attempt) <= Horizon
    BY <1>2, <1>4, DelayType, DelayBound
  <2> QED BY <1>1, <1>3, <2>1, <2>2
<1>7. CASE SendConfirmed(w)
  <2>1. Success \in Result /\ Explained(Success, worker[w].attempt)
    BY NumberAssumption DEF Success, Result, Errors, Explained, Horizon, Max2
  <2> QED BY <1>1, <1>7, <2>1 DEF SendConfirmed
<1>8. CASE SendUnconfirmed(w)
  <2>1. PICK delay \in JitteredDelays(worker[w].attempt, 0) :
            Answer(w, Failure(worker[w].attempt, FALSE, "transient", delay))
    BY <1>8 DEF SendUnconfirmed
  <2>2. delay \in Nat /\ delay <= Horizon
    BY <1>2, <1>4, DelayType, DelayBound
  <2> QED BY <1>1, <1>3, <2>1, <2>2
<1>9. CASE SendFailed(w)
  <2>0. PICK retry_after \in RetryAfters :
            \E delay \in JitteredDelays(worker[w].attempt, ClampedRetryAfter(retry_after)) :
                Answer(w, Failure(worker[w].attempt, FALSE, "transient", delay))
    BY <1>9 DEF SendFailed
  <2>1. PICK delay \in JitteredDelays(worker[w].attempt, ClampedRetryAfter(retry_after)) :
            Answer(w, Failure(worker[w].attempt, FALSE, "transient", delay))
    BY <2>0
  <2>2. delay \in Nat /\ delay <= Horizon
    BY <1>2, DelayType, DelayBound, NumberAssumption
  <2> QED BY <1>1, <1>3, <2>1, <2>2
<1>10. CASE SendRejected(w)
  <2>0. PICK retry_after \in RetryAfters :
            \E delay \in JitteredDelays(worker[w].attempt, ClampedRetryAfter(retry_after)) :
                Answer(w, Failure(worker[w].attempt, TRUE, "rejected", delay))
    BY <1>10 DEF SendRejected
  <2>1. PICK delay \in JitteredDelays(worker[w].attempt, ClampedRetryAfter(retry_after)) :
            Answer(w, Failure(worker[w].attempt, TRUE, "rejected", delay))
    BY <2>0
  <2>2. delay \in Nat /\ delay <= Horizon
    BY <1>2, DelayType, DelayBound, NumberAssumption
  <2> QED BY <1>1, <1>3, <2>1, <2>2
<1> QED BY <1>5, <1>6, <1>7, <1>8, <1>9, <1>10 DEF Ends

\* A row is received, claimed, given up, replayed, or gets the result of the one
\* worker that holds it; nothing else happens to it.
RowStep(d) ==
    \/ delivery'[d] = delivery[d]
    \/ delivery[d].status = "absent" /\ delivery'[d] = NewRow(d)
    \/ \E w \in Workers : ClaimDelivery(w, d) \/ GiveUpDelivery(w, d)
    \/ \E w \in Workers :
          /\ FinishDelivery(w) /\ worker[w].job = d /\ HoldsRow(w)
          /\ delivery'[d] = Recorded(delivery[d], worker[w].result)
    \/ RetryNotification(d)

\* Each action is one of these for each row.
LEMMA RowSteps == ASSUME Shape, [Next]_vars, NEW d \in Deliveries PROVE RowStep(d)
<1>1. ASSUME NEW e \in Events, ProcessEvent(e) PROVE RowStep(d)
  BY <1>1 DEF ProcessEvent, Received, RowStep, Shape, TypeOK
<1>2. ASSUME NEW w \in Workers, NEW c \in Deliveries,
             ClaimDelivery(w, c) \/ GiveUpDelivery(w, c)
      PROVE  RowStep(d)
  <2>1. c # d => delivery'[d] = delivery[d]
    BY <1>2 DEF ClaimDelivery, GiveUpDelivery, Shape, TypeOK
  <2> QED BY <1>2, <2>1 DEF RowStep
<1>3. ASSUME NEW w \in Workers, FinishDelivery(w) PROVE RowStep(d)
  <2>1. \/ delivery'[d] = delivery[d]
        \/ /\ worker[w].job = d /\ HoldsRow(w)
           /\ delivery'[d] = Recorded(delivery[d], worker[w].result)
    BY <1>3 DEF FinishDelivery, Shape, TypeOK
  <2> QED BY <1>3, <2>1 DEF RowStep
<1>4. ASSUME NEW c \in Deliveries, RetryNotification(c) PROVE RowStep(d)
  <2>1. c # d => delivery'[d] = delivery[d]
    BY <1>4 DEF RetryNotification, Shape, TypeOK
  <2> QED BY <1>4, <2>1 DEF RowStep
<1>5. ASSUME delivery' = delivery PROVE RowStep(d)
  BY <1>5 DEF RowStep
<1> QED
  BY <1>1, <1>2, <1>3, <1>4, <1>5
  DEF Next, vars, Claim, Attempt, CheckRecipientOk, CheckRecipientChanged, LookupFailed,
      SendConfirmed, SendUnconfirmed, SendFailed, SendRejected, WorkerCrash, RebindChat, Tick

\* A busy worker goes on with its claim; its phase advances one by one, and a new
\* result explains itself.
Goes(w) ==
    /\ worker[w].phase # "idle"
    /\ worker'[w].job = worker[w].job /\ worker'[w].token = worker[w].token
    /\ worker'[w].attempt = worker[w].attempt /\ worker'[w].until = worker[w].until
    /\ worker[w].linked => worker'[w].linked
    /\ \/ worker'[w].phase = worker[w].phase /\ worker'[w].result = worker[w].result
       \/ /\ worker'[w].phase = "cleared" /\ CheckRecipientOk(w)
       \/ /\ worker'[w].phase = "answered"
          /\ Explained(worker'[w].result, worker[w].attempt)

\* Each action leaves a worker idle, gives it a claim, or lets it go on.
LEMMA WorkerSteps ==
    ASSUME Shape, [Next]_vars, NEW w \in Workers, worker'[w].phase # "idle"
    PROVE  (\E d \in Deliveries : ClaimDelivery(w, d)) \/ Goes(w)
<1>1. ASSUME NEW v \in Workers, NEW d \in Deliveries, ClaimDelivery(v, d)
      PROVE  ClaimDelivery(w, d) \/ Goes(w)
  <2>1. v # w => worker'[w] = worker[w]
    BY <1>1 DEF ClaimDelivery, Shape, TypeOK
  <2> QED BY <1>1, <2>1 DEF Goes
<1>2. ASSUME NEW v \in Workers, CheckRecipientOk(v) PROVE Goes(w)
  <2>1. CASE v = w
    BY <1>2, <2>1 DEF CheckRecipientOk, Goes, Shape, TypeOK, WorkerState
  <2>2. CASE v # w
    BY <1>2, <2>2 DEF CheckRecipientOk, Goes, Shape, TypeOK
  <2> QED BY <2>1, <2>2
<1>3. ASSUME NEW v \in Workers, Ends(v) PROVE Goes(w)
  <2>1. PICK result \in Result : Answer(v, result) /\ Explained(result, worker[v].attempt)
    BY <1>3, EndExplained
  <2>2. worker[v].phase # "idle"
    BY <1>3, EndExplained
  <2>3. CASE v = w
    BY <2>1, <2>2, <2>3 DEF Answer, Goes, Shape, TypeOK, WorkerState
  <2>4. CASE v # w
    BY <2>1, <2>4 DEF Answer, Goes, Shape, TypeOK
  <2> QED BY <2>3, <2>4
<1>4. ASSUME NEW v \in Workers, FinishDelivery(v) \/ WorkerCrash(v) PROVE Goes(w)
  <2>1. worker' = [worker EXCEPT ![v] = Idle] /\ Idle.phase = "idle"
    BY <1>4 DEF FinishDelivery, WorkerCrash, Idle
  <2> QED BY <2>1 DEF Goes, Shape, TypeOK
<1>5. ASSUME NEW c \in Clients, NEW k \in Chats \cup {NoChat}, RebindChat(c, k) PROVE Goes(w)
  <2>1. worker'[w] = worker[w] \/ worker'[w] = [worker[w] EXCEPT !.linked = TRUE]
    BY <1>5 DEF RebindChat
  <2> QED BY <2>1 DEF Goes, Shape, TypeOK, WorkerState
<1>6. ASSUME worker' = worker PROVE Goes(w)
  BY <1>6 DEF Goes
<1> QED
  BY <1>1, <1>2, <1>3, <1>4, <1>5, <1>6
  DEF Next, vars, Claim, Attempt, Ends, ProcessEvent, GiveUpDelivery, RetryNotification, Tick

-----------------------------------------------------------------------------
(* The chat a message goes to: linked remembers that the recipient was the *)
(* client's chat at some moment since the claim.                           *)

Links ==
    \A w \in Workers :
        worker[w].phase # "idle" =>
            /\ chat[ClientOf(worker[w].job)] = worker[w].job[2] => worker[w].linked
            /\ worker[w].phase = "cleared" /\ ClientAddressed(worker[w].job) => worker[w].linked

\* A chat only becomes the recipient's in the claim's sight, and a worker is only
\* cleared while it is.
LEMMA LinksNext == Shape /\ Links /\ [Next]_vars => Links'
<1> SUFFICES ASSUME Shape, Links, [Next]_vars, NEW w \in Workers, worker'[w].phase # "idle"
             PROVE  /\ chat'[ClientOf(worker'[w].job)] = worker'[w].job[2] => worker'[w].linked
                    /\ worker'[w].phase = "cleared" /\ ClientAddressed(worker'[w].job)
                          => worker'[w].linked
  BY DEF Links
<1>1. CASE \E d \in Deliveries : ClaimDelivery(w, d)
  <2>1. PICK d \in Deliveries : ClaimDelivery(w, d)
    BY <1>1
  <2>2. /\ worker'[w].phase = "claimed" /\ worker'[w].job = d /\ chat' = chat
        /\ worker'[w].linked = (chat[ClientOf(d)] = d[2])
    BY <2>1 DEF ClaimDelivery, Shape, TypeOK, Idle
  <2> QED BY <2>2
<1>2. CASE Goes(w)
  <2>1. worker[w].phase # "idle" /\ worker'[w].job = worker[w].job
        /\ (worker[w].linked => worker'[w].linked)
    BY <1>2 DEF Goes
  <2>2. worker[w].job \in Deliveries /\ ClientOf(worker[w].job) \in Clients
    BY <2>1, PayloadAssumption DEF Shape, WorkerOK, ClientOf, PayloadRecord, Deliveries
  <2>3. chat'[ClientOf(worker[w].job)] = worker[w].job[2] => worker'[w].linked
    <3>1. CASE chat' = chat
      BY <2>1, <3>1 DEF Links
    <3>2. CASE \E c \in Clients, k \in Chats \cup {NoChat} : RebindChat(c, k)
      <4>1. PICK c \in Clients, k \in Chats \cup {NoChat} : RebindChat(c, k)
        BY <3>2
      <4>2. CASE ClientOf(worker[w].job) = c /\ worker[w].job[2] = k
        BY <2>2, <4>1, <4>2, NullAssumption DEF RebindChat, Shape, TypeOK, WorkerState
      <4>3. CASE ClientOf(worker[w].job) = c /\ worker[w].job[2] # k
        BY <2>2, <4>1, <4>3 DEF RebindChat, Shape, TypeOK
      <4>4. CASE ClientOf(worker[w].job) # c
        <5>1. chat'[ClientOf(worker[w].job)] = chat[ClientOf(worker[w].job)]
          BY <2>2, <4>1, <4>4 DEF RebindChat, Shape, TypeOK
        <5> QED BY <2>1, <5>1 DEF Links
      <4> QED BY <4>2, <4>3, <4>4
    <3> QED
      BY <3>1, <3>2
      DEF Next, vars, Claim, Attempt, ProcessEvent, ClaimDelivery, GiveUpDelivery,
          CheckRecipientOk, CheckRecipientChanged, LookupFailed, SendConfirmed,
          SendUnconfirmed, SendFailed, SendRejected, FinishDelivery, WorkerCrash,
          RetryNotification, Tick
  <2>4. worker'[w].phase = "cleared" /\ ClientAddressed(worker[w].job) => worker'[w].linked
    <3>1. CASE worker'[w].phase = worker[w].phase
      BY <2>1, <3>1 DEF Links
    <3>2. CASE CheckRecipientOk(w)
      BY <2>1, <3>2 DEF CheckRecipientOk, BindingHolds, Links
    <3>3. CASE worker'[w].phase = "answered"
      BY <3>3
    <3> QED BY <1>2, <3>1, <3>2, <3>3 DEF Goes
  <2> QED BY <2>1, <2>3, <2>4
<1> QED BY <1>1, <1>2, WorkerSteps

\* No message goes to a chat that was not the client's at any moment since the
\* claim, however the binding moved before and meanwhile.
THEOREM NoChatIsStale == Spec => []NoStaleChat
<1>1. Init => Links
  BY DEF Init, Links, Idle
<1>2. Links => NoStaleChat
  BY DEF Links, NoStaleChat
<1> QED BY <1>1, <1>2, LinksNext, ShapeInvariant, PTL DEF Spec

-----------------------------------------------------------------------------
(* The horizon: what a row waits for was added to a clock that only goes on. *)

Bounded ==
    /\ RetryWithinHorizon
    /\ \A w \in Workers : worker[w].phase = "answered" => worker[w].result.delay <= Horizon

\* A delay is bounded when the attempt ends and when it is recorded.
LEMMA BoundedNext == Shape /\ Bounded /\ [Next]_vars => Bounded'
<1> SUFFICES ASSUME Shape, Bounded, [Next]_vars PROVE Bounded'
  OBVIOUS
<1>1. now \in Nat /\ now' \in Nat /\ now <= now' /\ Horizon \in Nat
  <2>1. now' = now \/ now' = now + 1
    BY DEF Next, vars, Claim, Attempt, ProcessEvent, ClaimDelivery, GiveUpDelivery,
           CheckRecipientOk, CheckRecipientChanged, LookupFailed, SendConfirmed,
           SendUnconfirmed, SendFailed, SendRejected, FinishDelivery, WorkerCrash,
           RetryNotification, RebindChat, Tick
  <2> QED BY <2>1, NumberAssumption DEF Horizon, Max2, Shape, TypeOK
<1>2. ASSUME NEW d \in Deliveries, delivery'[d].status = "retry"
      PROVE  delivery'[d].next_attempt_at <= now' + Horizon
  <2>1. delivery[d] \in Row /\ delivery[d].next_attempt_at \in Nat
    BY DEF Shape, TypeOK, Row
  <2>2. CASE delivery'[d] = delivery[d]
    BY <1>1, <1>2, <2>1, <2>2 DEF Bounded, RetryWithinHorizon, Horizon
  <2>3. CASE delivery'[d] = NewRow(d)
    BY <1>2, <2>3 DEF NewRow, EmptyRow
  <2>4. ASSUME NEW w \in Workers, ClaimDelivery(w, d) PROVE FALSE
    BY <1>2, <2>1, <2>4 DEF ClaimDelivery, Shape, TypeOK
  <2>5. ASSUME NEW w \in Workers, GiveUpDelivery(w, d) PROVE FALSE
    BY <1>2, <2>1, <2>5 DEF GiveUpDelivery, Shape, TypeOK, Row
  <2>6. ASSUME NEW w \in Workers, FinishDelivery(w),
               delivery'[d] = Recorded(delivery[d], worker[w].result)
        PROVE  delivery'[d].next_attempt_at <= now' + Horizon
    <3>1. worker[w].result.delay \in Nat /\ worker[w].result.delay <= Horizon
      BY <2>6 DEF FinishDelivery, Bounded, Shape, WorkerOK, Result
    <3>2. delivery'[d].next_attempt_at = now + worker[w].result.delay
      BY <2>1, <2>6 DEF Recorded, Row
    <3> QED BY <1>1, <3>1, <3>2
  <2>7. CASE RetryNotification(d)
    <3>1. delivery'[d].next_attempt_at = now
      BY <2>1, <2>7 DEF RetryNotification, Shape, TypeOK, Row
    <3>2. \A a, b, h \in Nat : a <= b => a <= b + h
      OBVIOUS
    <3> QED BY <1>1, <3>1, <3>2
  <2> QED BY <2>2, <2>3, <2>4, <2>5, <2>6, <2>7, RowSteps DEF RowStep
<1>3. ASSUME NEW w \in Workers, worker'[w].phase = "answered"
      PROVE  worker'[w].result.delay <= Horizon
  <2>1. ASSUME NEW d \in Deliveries, ClaimDelivery(w, d) PROVE FALSE
    BY <1>3, <2>1 DEF ClaimDelivery, Shape, TypeOK, Idle
  <2>2. CASE Goes(w)
    BY <1>3, <2>2 DEF Goes, Bounded, Explained
  <2> QED BY <1>3, <2>1, <2>2, WorkerSteps
<1> QED BY <1>2, <1>3 DEF Bounded, RetryWithinHorizon, Horizon

\* Nothing Telegram answers parks a row beyond the clamp, and no number of
\* failures backs off for longer than the cap and the jitter.
THEOREM RowsComeBack == Spec => []RetryWithinHorizon
<1>1. Init => Bounded
  BY DEF Init, Bounded, RetryWithinHorizon, Idle, EmptyRow
<1>2. Bounded => RetryWithinHorizon
  BY DEF Bounded
<1> QED BY <1>1, <1>2, BoundedNext, ShapeInvariant, PTL DEF Spec

-----------------------------------------------------------------------------
(* The reasons for giving up: an attempt is counted in the row when it is  *)
(* claimed, and judged by the worker's copy of that count.                 *)

Reasons ==
    /\ DeadForAReason
    /\ \A w \in Workers :
          worker[w].phase # "idle" =>
              /\ HoldsRow(w) => delivery[worker[w].job].attempts = worker[w].attempt
              /\ worker[w].phase = "answered" => Explained(worker[w].result, worker[w].attempt)

\* The worker that holds a row has the row's count, so that what it gives up
\* after its last attempt is a row after its last attempt.
LEMMA ReasonsNext == Shape /\ Budget /\ Fence /\ Reasons /\ [Next]_vars => Reasons'
<1> SUFFICES ASSUME Shape, Budget, Fence, Reasons, [Next]_vars PROVE Reasons'
  OBVIOUS
<1> DEFINE Reasoned(row) ==
      row.status = "dead" =>
          \/ row.error \in {"recipient_changed", "rejected"}
          \/ /\ row.error \in {"attempts_exhausted", "transient"}
             /\ row.attempts = MaxAttempts
<1>1. ASSUME NEW d \in Deliveries PROVE Reasoned(delivery'[d])
  <2>1. delivery[d] \in Row /\ delivery[d].attempts \in 0..MaxAttempts
    BY NumberAssumption DEF Shape, TypeOK, Row, Budget
  <2>2. CASE delivery'[d] = delivery[d]
    BY <2>2 DEF Reasons, DeadForAReason
  <2>3. CASE delivery'[d] = NewRow(d)
    BY <2>3 DEF NewRow, EmptyRow
  <2>4. ASSUME NEW w \in Workers, ClaimDelivery(w, d) PROVE delivery'[d].status # "dead"
    BY <2>1, <2>4 DEF ClaimDelivery, Shape, TypeOK
  <2>5. ASSUME NEW w \in Workers, GiveUpDelivery(w, d) PROVE Reasoned(delivery'[d])
    <3>1. /\ delivery'[d].error = "attempts_exhausted"
          /\ delivery'[d].attempts = delivery[d].attempts
      BY <2>1, <2>5 DEF GiveUpDelivery, Shape, TypeOK, Row
    <3>2. delivery[d].attempts = MaxAttempts
      BY <2>1, <2>5, NumberAssumption DEF GiveUpDelivery, Exhausted
    <3> QED BY <3>1, <3>2
  <2>6. ASSUME NEW w \in Workers, FinishDelivery(w), worker[w].job = d, HoldsRow(w),
               delivery'[d] = Recorded(delivery[d], worker[w].result)
        PROVE  Reasoned(delivery'[d])
    <3>1. /\ worker[w].attempt \in 1..MaxAttempts
          /\ delivery[d].attempts = worker[w].attempt
          /\ Explained(worker[w].result, worker[w].attempt)
      BY <2>6 DEF FinishDelivery, Reasons, Shape, WorkerOK
    <3>2. /\ delivery'[d].status = worker[w].result.state
          /\ delivery'[d].error = worker[w].result.error
          /\ delivery'[d].attempts = delivery[d].attempts
      BY <2>1, <2>6 DEF Recorded, Row
    <3>3. worker[w].attempt >= MaxAttempts => delivery'[d].attempts = MaxAttempts
      BY <3>1, <3>2, NumberAssumption
    <3> QED BY <3>1, <3>2, <3>3 DEF Explained
  <2>7. CASE RetryNotification(d)
    BY <2>1, <2>7 DEF RetryNotification, Shape, TypeOK, Row
  <2> QED BY <2>2, <2>3, <2>4, <2>5, <2>6, <2>7, RowSteps DEF RowStep
<1>2. ASSUME NEW w \in Workers, worker'[w].phase # "idle"
      PROVE  /\ HoldsRow(w)' => delivery'[worker'[w].job].attempts = worker'[w].attempt
             /\ worker'[w].phase = "answered" =>
                   Explained(worker'[w].result, worker'[w].attempt)
  <2>1. ASSUME NEW d \in Deliveries, ClaimDelivery(w, d)
        PROVE  /\ delivery'[worker'[w].job].attempts = worker'[w].attempt
               /\ worker'[w].phase = "claimed"
    <3>1. /\ worker'[w].job = d /\ worker'[w].phase = "claimed"
          /\ worker'[w].attempt = delivery[d].attempts + 1
      BY <2>1 DEF ClaimDelivery, Shape, TypeOK, Idle
    <3>2. delivery'[d].attempts = delivery[d].attempts + 1
      BY <2>1 DEF ClaimDelivery, Shape, TypeOK, Row
    <3> QED BY <3>1, <3>2
  <2>2. CASE Goes(w)
    <3> DEFINE d == worker[w].job
    <3>1. /\ worker[w].phase # "idle" /\ worker'[w].job = d
          /\ worker'[w].token = worker[w].token /\ worker'[w].attempt = worker[w].attempt
      BY <2>2 DEF Goes
    <3>2. d \in Deliveries /\ worker[w].token \in 1..claims[d] /\ claims[d] \in Nat
      BY <3>1, WorkerFacts DEF Shape, TypeOK
    <3>3. HoldsRow(w)' => delivery'[d].attempts = worker[w].attempt
      <4>1. delivery[d] \in Row
        BY <3>2 DEF Shape, TypeOK
      <4>2. CASE delivery'[d] = delivery[d]
        BY <3>1, <4>2 DEF HoldsRow, Reasons
      <4>3. CASE delivery'[d] = NewRow(d)
        BY <3>1, <4>3 DEF HoldsRow, NewRow, EmptyRow
      <4>4. ASSUME NEW v \in Workers, ClaimDelivery(v, d) PROVE ~HoldsRow(w)'
        <5>1. delivery'[d].lease_token = claims[d] + 1
          BY <3>2, <4>1, <4>4 DEF ClaimDelivery, Shape, TypeOK, Row
        <5> QED BY <3>1, <3>2, <5>1 DEF HoldsRow
      <4>5. ASSUME NEW v \in Workers, GiveUpDelivery(v, d) PROVE ~HoldsRow(w)'
        BY <3>1, <3>2, <4>5 DEF GiveUpDelivery, HoldsRow, Shape, TypeOK, Row
      <4>6. ASSUME NEW v \in Workers, FinishDelivery(v),
                   delivery'[d] = Recorded(delivery[d], worker[v].result)
            PROVE  ~HoldsRow(w)'
        <5>1. delivery'[d].status = worker[v].result.state
          BY <4>1, <4>6 DEF Recorded, Row
        <5>2. worker[v].result.state # "sending"
          BY <4>6 DEF FinishDelivery, Shape, WorkerOK, Result
        <5> QED BY <3>1, <5>1, <5>2 DEF HoldsRow
      <4>7. CASE RetryNotification(d)
        BY <3>1, <3>2, <4>7 DEF RetryNotification, HoldsRow, Shape, TypeOK, Row
      <4> QED BY <3>2, <4>2, <4>3, <4>4, <4>5, <4>6, <4>7, RowSteps DEF RowStep
    <3>4. worker'[w].phase = "answered" => Explained(worker'[w].result, worker[w].attempt)
      BY <2>2, <3>1 DEF Goes, Reasons
    <3> QED BY <3>1, <3>3, <3>4
  <2> QED BY <1>2, <2>1, <2>2, WorkerSteps
<1> QED BY <1>1, <1>2 DEF Reasons, DeadForAReason

\* A row is given up for a permanent error, or after exactly all its attempts,
\* those of crashed workers and lapsed leases included.
THEOREM DeathHasAReason == Spec => []DeadForAReason
<1>1. Init => Reasons
  BY DEF Init, Reasons, DeadForAReason, Idle, EmptyRow
<1>2. Reasons => DeadForAReason
  BY DEF Reasons
<1> QED BY <1>1, <1>2, ReasonsNext, BudgetInvariant, FenceInvariant, PTL DEF Spec

-----------------------------------------------------------------------------
(* One live lease: a worker whose lease has not run out still has the row. *)

LiveHolds ==
    \A w \in Workers :
        worker[w].phase # "idle" /\ worker[w].until > now =>
            HoldsRow(w) /\ delivery[worker[w].job].lease_until = worker[w].until

\* Nobody takes a row from a live lease but the worker that has it.
LEMMA LiveHoldsNext == Shape /\ Fence /\ LiveHolds /\ [Next]_vars => LiveHolds'
<1> SUFFICES ASSUME Shape, Fence, LiveHolds, [Next]_vars,
                    NEW w \in Workers, worker'[w].phase # "idle", worker'[w].until > now'
             PROVE  HoldsRow(w)' /\ delivery'[worker'[w].job].lease_until = worker'[w].until
  BY DEF LiveHolds
<1>1. now \in Nat /\ now' \in Nat /\ now <= now'
  <2>1. now' = now \/ now' = now + 1
    BY DEF Next, vars, Claim, Attempt, ProcessEvent, ClaimDelivery, GiveUpDelivery,
           CheckRecipientOk, CheckRecipientChanged, LookupFailed, SendConfirmed,
           SendUnconfirmed, SendFailed, SendRejected, FinishDelivery, WorkerCrash,
           RetryNotification, RebindChat, Tick
  <2> QED BY <2>1 DEF Shape, TypeOK
<1>2. ASSUME NEW d \in Deliveries, ClaimDelivery(w, d)
      PROVE  HoldsRow(w)' /\ delivery'[worker'[w].job].lease_until = worker'[w].until
  <2>1. /\ worker'[w].job = d /\ worker'[w].token = claims[d] + 1
        /\ worker'[w].until = now + LeaseSeconds
    BY <1>2 DEF ClaimDelivery, Shape, TypeOK, Idle
  <2>2. /\ delivery'[d].status = "sending" /\ delivery'[d].lease_token = claims[d] + 1
        /\ delivery'[d].lease_until = now + LeaseSeconds
    BY <1>2 DEF ClaimDelivery, Shape, TypeOK, Row
  <2> QED BY <2>1, <2>2 DEF HoldsRow
<1>3. CASE Goes(w)
  <2> DEFINE d == worker[w].job
  <2>1. /\ worker[w].phase # "idle" /\ worker'[w].job = d
        /\ worker'[w].token = worker[w].token /\ worker'[w].until = worker[w].until
    BY <1>3 DEF Goes
  <2>2. d \in Deliveries /\ worker[w].until \in Nat /\ worker[w].until > now
    BY <1>1, <2>1, WorkerFacts DEF WorkerState
  <2>3. HoldsRow(w) /\ delivery[d].lease_until = worker[w].until
    BY <2>1, <2>2 DEF LiveHolds
  <2>4. delivery[d].status = "sending" /\ ~LeaseLapsed(d) /\ ~Due(d)
    BY <1>1, <2>2, <2>3 DEF HoldsRow, LeaseLapsed, Due
  <2>5. delivery'[d] = delivery[d]
    <3>1. ASSUME NEW v \in Workers, ClaimDelivery(v, d) \/ GiveUpDelivery(v, d) PROVE FALSE
      BY <2>4, <3>1 DEF ClaimDelivery, GiveUpDelivery, Claimable
    <3>2. ASSUME NEW v \in Workers, FinishDelivery(v), worker[v].job = d, HoldsRow(v)
          PROVE  FALSE
      <4>1. worker[v].phase # "idle" /\ worker'[v].phase = "idle"
        BY <3>2 DEF FinishDelivery, Idle, Shape, TypeOK
      <4>2. v # w
        BY <4>1
      <4>3. worker[v].token # worker[w].token
        BY <2>1, <3>2, <4>1, <4>2 DEF Fence, DistinctClaims
      <4> QED BY <2>3, <3>2, <4>3 DEF HoldsRow
    <3>3. ~RetryNotification(d)
      BY <2>4 DEF RetryNotification
    <3> QED BY <2>2, <2>4, <3>1, <3>2, <3>3, RowSteps DEF RowStep
  <2> QED BY <2>1, <2>3, <2>5 DEF HoldsRow
<1> QED BY <1>2, <1>3, WorkerSteps

\* Two workers never hold live leases on one row: LEASE_SECONDS is a mutual
\* exclusion, with the clock for a key.
THEOREM LeasesExclude == Spec => []OneLiveLease
<1>1. Init => LiveHolds
  BY DEF Init, LiveHolds, Idle
<1>2. Shape /\ Fence /\ LiveHolds => OneLiveLease
  <2> SUFFICES ASSUME Shape, Fence, LiveHolds, NEW v \in Workers, NEW w \in Workers, v # w,
                      worker[v].phase # "idle", worker[w].phase # "idle",
                      worker[v].job = worker[w].job,
                      ~(worker[v].until <= now), ~(worker[w].until <= now)
               PROVE  FALSE
    BY DEF OneLiveLease
  <2>1. worker[v].until > now /\ worker[w].until > now
    BY WorkerFacts DEF WorkerState, Shape, TypeOK
  <2>2. worker[v].token = worker[w].token
    BY <2>1 DEF LiveHolds, HoldsRow
  <2> QED BY <2>2 DEF Fence, DistinctClaims
<1> QED BY <1>1, <1>2, LiveHoldsNext, FenceInvariant, PTL DEF Spec

=============================================================================
