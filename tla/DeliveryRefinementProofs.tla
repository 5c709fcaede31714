---------------------- MODULE DeliveryRefinementProofs ----------------------
(***************************************************************************)
(* NotificationDelivery implements AtLeastOnce, for every value of the     *)
(* constants: its initial states are initial states of the promise, and    *)
(* every step from a state that satisfies the invariants proved in         *)
(* NotificationDeliveryProofs is a step of the promise or a stutter.       *)
(***************************************************************************)
EXTENDS DeliveryRefinement, NotificationDeliveryProofs

jobStates == [d \in Deliveries |-> JobState(d)]

\* The state of a job depends on the status of its row alone.
LEMMA JobStates ==
    ASSUME NEW d \in Deliveries
    PROVE  /\ delivery[d].status = "absent" => JobState(d) = "absent"
           /\ delivery[d].status \in {"pending", "sending", "retry"} => JobState(d) = "open"
           /\ delivery[d].status = "sent" => JobState(d) = "sent"
           /\ delivery[d].status = "dead" => JobState(d) = "dead"
           /\ delivery[d].status \in {"skipped", "failed"} => JobState(d) = "closed"
BY DEF JobState

\* The same after a step.
LEMMA JobStatesPrime ==
    ASSUME NEW d \in Deliveries
    PROVE  /\ delivery'[d].status = "absent" => JobState(d)' = "absent"
           /\ delivery'[d].status \in {"pending", "sending", "retry"} => JobState(d)' = "open"
           /\ delivery'[d].status = "sent" => JobState(d)' = "sent"
           /\ delivery'[d].status = "dead" => JobState(d)' = "dead"
           /\ delivery'[d].status \in {"skipped", "failed"} => JobState(d)' = "closed"
BY DEF JobState

\* A row that stays leaves its job where it is.
LEMMA JobStays ==
    ASSUME NEW d \in Deliveries, delivery'[d] = delivery[d]
    PROVE  JobState(d)' = JobState(d)
BY DEF JobState

\* The table starts with rows nobody promised anything about.
LEMMA PromiseInit == Init => Promise!Init
<1> SUFFICES ASSUME Init PROVE Promise!Init
  OBVIOUS
<1>1. \A d \in Deliveries : JobState(d) \in {"absent", "closed"}
  BY JobStates DEF Init, EmptyRow
<1> QED BY <1>1 DEF Promise!Init, Init

\* A step that leaves every row in its job state, and the history alone, is
\* invisible to the promise.
LEMMA Invisible ==
    ASSUME \A d \in Deliveries : JobState(d)' = JobState(d),
           UNCHANGED <<claims, accepted, replays>>
    PROVE  UNCHANGED Promise!vars
<1>1. jobStates' = jobStates
  BY DEF jobStates
<1> QED BY <1>1 DEF Promise!vars, jobStates

\* A step that settles, or sends round again, one row of the table.
LEMMA OneMoves ==
    ASSUME NEW c \in Deliveries, NEW state,
           JobState(c)' = state,
           \A d \in Deliveries \ {c} : JobState(d)' = JobState(d)
    PROVE  jobStates' = [jobStates EXCEPT ![c] = state]
BY DEF jobStates

\* process_event creates its rows together.
LEMMA CreateSteps ==
    ASSUME Shape, NEW e \in Events, ProcessEvent(e)
    PROVE  Promise!Next
<1> DEFINE new == {d \in Deliveries : d[1] = e}
           open == {d \in new : d[2] # NoChat}
<1>1. \A d \in new : delivery[d].status = "absent"
  BY DEF ProcessEvent, Received
<1>2. \A d \in new : JobState(d) = "absent"
  BY <1>1, JobStates
<1>3. \A d \in new : JobState(d)' = IF d \in open THEN "open" ELSE "closed"
  <2> SUFFICES ASSUME NEW d \in new
               PROVE  JobState(d)' = IF d \in open THEN "open" ELSE "closed"
    OBVIOUS
  <2>1. delivery'[d].status = IF d \in open THEN "pending" ELSE "skipped"
    BY DEF ProcessEvent, NewRow, EmptyRow
  <2> QED BY <2>1, JobStatesPrime
<1>4. \A d \in Deliveries \ new : delivery'[d] = delivery[d]
  BY DEF ProcessEvent
<1>5. \A d \in Deliveries \ new : JobState(d)' = JobState(d)
  BY <1>4, JobStays
<1>6. Promise!Create(new, open)
  BY <1>2, <1>3, <1>5 DEF Promise!Create, ProcessEvent, history
<1> QED BY <1>6 DEF Promise!Next

\* A claim begins an attempt; the budget of ClaimBudget lets it.
LEMMA ClaimSteps ==
    ASSUME Shape, Budget, NEW w \in Workers, NEW c \in Deliveries, ClaimDelivery(w, c)
    PROVE  Promise!Next
<1>1. delivery[c].status \in {"pending", "retry", "sending"}
  BY DEF ClaimDelivery, Claimable, Due, LeaseLapsed
<1>2. delivery'[c].status = "sending" /\ \A d \in Deliveries \ {c} : delivery'[d] = delivery[d]
  BY DEF ClaimDelivery, Shape, TypeOK
<1>3. \A d \in Deliveries : JobState(d)' = JobState(d)
  BY <1>1, <1>2, JobStates, JobStatesPrime, JobStays
<1>4. jobStates' = jobStates
  BY <1>3 DEF jobStates
<1>5. claims[c] < MaxAttempts * (1 + replays[c])
  <2>1. /\ delivery[c].attempts \in Nat /\ claims[c] \in Nat /\ replays[c] \in Nat
        /\ MaxAttempts \in Nat /\ MaxAttempts * replays[c] \in Nat
        /\ delivery[c].attempts < MaxAttempts
    BY NumberAssumption DEF Shape, TypeOK, Row, ClaimDelivery, Exhausted
  <2>2. MaxAttempts * (1 + replays[c]) = MaxAttempts + MaxAttempts * replays[c]
    BY <2>1
  <2> QED BY <2>1, <2>2 DEF Budget
<1>6. Promise!Begin(c)
  BY <1>1, <1>4, <1>5, JobStates DEF Promise!Begin, ClaimDelivery, jobStates
<1> QED BY <1>6 DEF Promise!Next

\* Giving a lapsed row up settles it; it was tried before.
LEMMA GiveUpSteps ==
    ASSUME Shape, Budget, NEW w \in Workers, NEW c \in Deliveries, GiveUpDelivery(w, c)
    PROVE  Promise!Next
<1>1. delivery[c].status \in {"pending", "retry", "sending"}
  BY DEF GiveUpDelivery, Claimable, Due, LeaseLapsed
<1>2. delivery'[c].status = "dead" /\ \A d \in Deliveries \ {c} : delivery'[d] = delivery[d]
  BY DEF GiveUpDelivery, Shape, TypeOK
<1>3. jobStates' = [jobStates EXCEPT ![c] = "dead"]
  <2>1. JobState(c)' = "dead"
    BY <1>2, JobStatesPrime
  <2>2. \A d \in Deliveries \ {c} : JobState(d)' = JobState(d)
    BY <1>2, JobStays
  <2> QED BY <2>1, <2>2, OneMoves
<1>4. claims[c] > 0
  BY NumberAssumption DEF GiveUpDelivery, Exhausted, Budget, Shape, TypeOK, Row
<1>5. Promise!GiveUp(c)
  BY <1>1, <1>3, <1>4, JobStates DEF Promise!GiveUp, GiveUpDelivery, jobStates
<1> QED BY <1>5 DEF Promise!Next

\* A message that Telegram accepts reaches its recipient, whatever has become of
\* the row meanwhile.
LEMMA AcceptSteps ==
    ASSUME Shape, Fence, NEW w \in Workers, worker[w].phase # "idle", Accept(w),
           UNCHANGED <<delivery, claims, replays>>
    PROVE  Promise!Next
<1>1. worker[w].job \in Deliveries /\ worker[w].token \in 1..claims[worker[w].job]
  BY WorkerFacts
<1>2. jobStates' = jobStates
  BY DEF jobStates, JobState
<1>3. Promise!Reach(worker[w].job, worker[w].token)
  BY <1>1, <1>2 DEF Promise!Reach, Accept, jobStates
<1> QED BY <1>1, <1>3 DEF Promise!Next

\* A result settles the row if it is the newest claim's and final; if not, the
\* promise sees nothing.
LEMMA FinishSteps ==
    ASSUME Shape, Fence, NEW w \in Workers, FinishDelivery(w)
    PROVE  [Promise!Next]_(Promise!vars)
<1> PICK c \in Deliveries : c = worker[w].job
  BY WorkerFacts DEF FinishDelivery
<1>1. /\ WorkerFence(w) /\ worker[w].token \in 1..claims[c]
      /\ worker[w].phase = "answered" /\ worker[w].result \in Result
  BY WorkerFacts DEF FinishDelivery, Shape, WorkerOK
<1>2. \A d \in Deliveries \ {c} : JobState(d)' = JobState(d)
  BY JobStays DEF FinishDelivery, Shape, TypeOK
<1>3. CASE ~HoldsRow(w)
  <2>1. delivery' = delivery
    BY <1>3 DEF FinishDelivery, Shape, TypeOK
  <2> QED BY <2>1, Invisible DEF FinishDelivery, history, JobState
<1>4. CASE HoldsRow(w)
  <2>1. JobState(c) = "open" /\ worker[w].token = claims[c]
    BY <1>1, <1>4, RowFacts, JobStates DEF HoldsRow, RowFence
  <2>2. delivery'[c].status = worker[w].result.state
    <3>1. delivery'[c] = Recorded(delivery[c], worker[w].result)
      BY <1>1, <1>4 DEF FinishDelivery, Shape, TypeOK
    <3> QED BY <1>1, <3>1, RowFacts DEF Recorded, Row
  <2>3. CASE worker[w].result.state = "sent"
    <3>1. jobStates' = [jobStates EXCEPT ![c] = "sent"]
      <4>1. JobState(c)' = "sent"
        BY <2>2, <2>3, JobStatesPrime
      <4> QED BY <1>2, <4>1, OneMoves
    <3>2. claims[c] \in accepted[c]
      BY <1>1, <2>1, <2>3 DEF WorkerFence
    <3>3. Promise!Succeed(c)
      BY <1>1, <2>1, <3>1, <3>2 DEF Promise!Succeed, FinishDelivery, history, jobStates
    <3> QED BY <1>1, <3>3 DEF Promise!Next
  <2>4. CASE worker[w].result.state = "dead"
    <3>1. jobStates' = [jobStates EXCEPT ![c] = "dead"]
      <4>1. JobState(c)' = "dead"
        BY <2>2, <2>4, JobStatesPrime
      <4> QED BY <1>2, <4>1, OneMoves
    <3>2. claims[c] > 0
      BY <1>1, RowFacts
    <3>3. Promise!GiveUp(c)
      BY <1>1, <2>1, <3>1, <3>2 DEF Promise!GiveUp, FinishDelivery, history, jobStates
    <3> QED BY <1>1, <3>3 DEF Promise!Next
  <2>5. CASE worker[w].result.state = "retry"
    <3>1. JobState(c)' = "open"
      BY <1>1, <2>2, <2>5, JobStatesPrime
    <3>2. \A d \in Deliveries : JobState(d)' = JobState(d)
      BY <1>2, <2>1, <3>1
    <3> QED BY <3>2, Invisible DEF FinishDelivery, history
  <2> QED BY <1>1, <2>3, <2>4, <2>5 DEF Result
<1> QED BY <1>3, <1>4

\* An administrator's replay sends a dead row round again.
LEMMA ReplaySteps ==
    ASSUME Shape, NEW c \in Deliveries, RetryNotification(c)
    PROVE  Promise!Next
<1>1. delivery'[c].status = "retry" /\ \A d \in Deliveries \ {c} : delivery'[d] = delivery[d]
  BY DEF RetryNotification, Shape, TypeOK
<1>2. jobStates' = [jobStates EXCEPT ![c] = "open"]
  <2>1. JobState(c)' = "open"
    BY <1>1, JobStatesPrime
  <2>2. \A d \in Deliveries \ {c} : JobState(d)' = JobState(d)
    BY <1>1, JobStays
  <2> QED BY <2>1, <2>2, OneMoves
<1>3. Promise!SendRoundAgain(c)
  BY <1>2, JobStates DEF Promise!SendRoundAgain, RetryNotification, history, jobStates
<1> QED BY <1>3 DEF Promise!Next

\* Every step of the table and its workers is one of these, or changes nothing
\* the promise can see.
LEMMA PromiseNext ==
    Shape /\ Budget /\ Fence /\ [Next]_vars => [Promise!Next]_(Promise!vars)
<1> SUFFICES ASSUME Shape, Budget, Fence, [Next]_vars
             PROVE  [Promise!Next]_(Promise!vars)
  OBVIOUS
<1>1. ASSUME NEW w \in Workers, SendConfirmed(w) \/ SendUnconfirmed(w)
      PROVE  Promise!Next
  BY <1>1, AcceptSteps DEF SendConfirmed, SendUnconfirmed
<1>2. ASSUME UNCHANGED <<delivery, claims, accepted, replays>>
      PROVE  UNCHANGED Promise!vars
  BY <1>2, Invisible DEF JobState
<1> QED
  BY <1>1, <1>2, CreateSteps, ClaimSteps, GiveUpSteps, FinishSteps, ReplaySteps
  DEF Next, Claim, Attempt, CheckRecipientOk, CheckRecipientChanged, LookupFailed,
      SendFailed, SendRejected, WorkerCrash, RebindChat, Tick, vars, history

\* The notification workers keep the promise of at-least-once delivery: bounded
\* attempts, "sent" on the newest attempt's word only, settled for good.
THEOREM DeliveryKeepsThePromise == Spec => KeepsThePromise
BY PromiseInit, PromiseNext, BudgetInvariant, FenceInvariant, PTL
DEF KeepsThePromise, Promise!Safe, Spec
=============================================================================
