--------------------------- MODULE PipelineProofs ---------------------------
(***************************************************************************)
(* Proofs about Pipeline, for any number of events, workers and failures.  *)
(*                                                                         *)
(* A step of the composition is a step of each part or leaves it alone.    *)
(* So the theorems about OutboxRelay and NotificationDelivery, which were  *)
(* proved of each part in an arbitrary environment, hold of the two in one *)
(* loop; they come in through the instances RelayProofs and DeliveryProofs,*)
(* whose definitions are those of Relay and Delivery (lemmas Same...).     *)
(***************************************************************************)
EXTENDS Pipeline, TLAPS

RelayProofs == INSTANCE OutboxRelayProofs WITH Consumers <- Workers
DeliveryProofs == INSTANCE DeliveryRefinementProofs WITH Legacy <- {}

-----------------------------------------------------------------------------
(* The relay's part.                                                       *)

LEMMA RelayStep == [Next]_vars => [Relay!Next]_relayVars
  <1> SUFFICES ASSUME Next, ~UNCHANGED relayVars PROVE Relay!Next
    BY Zenon DEF vars
  <1>1. ASSUME NEW w \in Workers, Run(w) PROVE Relay!Next
    BY <1>1, Zenon
    DEF Run, DeliverStep, SkipDelivery, Connect, ConnectFails, QueueEmpty, HandleMessage,
        ReceiveEvent, Acknowledge, Get, Relay!Next, Relay!Consume
  <1>2. ASSUME NEW w \in Workers, Fail(w) PROVE Relay!Next
    BY <1>2, Zenon
    DEF Fail, LeaveLoop, ConsumeFails, DeliverFails, ReturnInFlight, Relay!Next, Relay!Fail
  <1>3. ASSUME NEW p \in Publishers, Publish(p) \/ PublishFails(p) PROVE Relay!Next
    BY <1>3, Zenon DEF Publish, PublishFails, Relay!Next, Relay!Fail
  <1>4. ASSUME Arrive \/ Intervene \/ Tick PROVE Relay!Next
    BY <1>4, Zenon DEF Arrive, Intervene, Tick, Relay!Next
  <1> QED BY <1>1, <1>2, <1>3, <1>4, Zenon DEF Next

\* The loop only ever takes the steps OutboxRelay allows its consumers.
THEOREM PipelineRelays == Spec => Relay!Spec
  <1>1. Init => Relay!Init
    BY DEF Init
  <1>2. [Next]_vars => [Relay!Next]_(Relay!vars)
    BY RelayStep, Zenon DEF relayVars, Relay!vars, Relay!history
  <1> QED BY <1>1, <1>2, PTL DEF Spec, Relay!Spec

\* The definitions of the two instances of OutboxRelay are the same.
LEMMA SameRelay ==
    /\ Relay!Init <=> RelayProofs!Init
    /\ [Relay!Next]_(Relay!vars) <=> [RelayProofs!Next]_(RelayProofs!vars)
  <1>1. Relay!Init <=> RelayProofs!Init
    BY DEF Relay!Init, RelayProofs!Init, Relay!NoBatch, RelayProofs!NoBatch,
           Relay!NoMessage, RelayProofs!NoMessage, Relay!Messages, RelayProofs!Messages
  <1>2. UNCHANGED Relay!vars <=> UNCHANGED RelayProofs!vars
    BY Zenon DEF Relay!history, RelayProofs!history, Relay!vars, RelayProofs!vars
  <1>3. Relay!Fault <=> RelayProofs!Fault
    BY Zenon DEF Relay!Fault, RelayProofs!Fault
  <1>4. Relay!NoBatch = RelayProofs!NoBatch /\ Relay!NoMessage = RelayProofs!NoMessage
        /\ Relay!Messages = RelayProofs!Messages
    BY Zenon DEF Relay!NoBatch, RelayProofs!NoBatch, Relay!NoMessage, RelayProofs!NoMessage,
                 Relay!Messages, RelayProofs!Messages
  <1>5. ASSUME NEW p \in Publishers PROVE Relay!Publish(p) <=> RelayProofs!Publish(p)
    <2>1. Relay!Publishable = RelayProofs!Publishable
      BY DEF Relay!Publishable, RelayProofs!Publishable, Relay!Locked, RelayProofs!Locked
    <2>2. Relay!Batch = RelayProofs!Batch
      <3>1. \A S : Relay!Cardinality(S) = RelayProofs!Cardinality(S)
        BY DEF Relay!Cardinality, RelayProofs!Cardinality
      <3> QED BY <2>1, <3>1 DEF Relay!Batch, RelayProofs!Batch
    <2>3. Relay!SelectBatch(p) <=> RelayProofs!SelectBatch(p)
      BY <1>4, <2>2 DEF Relay!SelectBatch, RelayProofs!SelectBatch,
                        Relay!history, RelayProofs!history
    <2>4. Relay!CommitBatch(p) <=> RelayProofs!CommitBatch(p)
      BY <1>4
      DEF Relay!CommitBatch, RelayProofs!CommitBatch, Relay!Complete, RelayProofs!Complete,
          Relay!history, RelayProofs!history
    <2>5. Relay!CommitLostBatch(p) <=> RelayProofs!CommitLostBatch(p)
      BY <1>4
      DEF Relay!CommitLostBatch, RelayProofs!CommitLostBatch,
          Relay!Complete, RelayProofs!Complete, Relay!history, RelayProofs!history
    <2>6. ASSUME NEW e \in Events
          PROVE  Relay!PublishConfirmed(p, e) <=> RelayProofs!PublishConfirmed(p, e)
      BY DEF Relay!PublishConfirmed, RelayProofs!PublishConfirmed, Relay!IsNext,
             RelayProofs!IsNext, Relay!Enqueue, RelayProofs!Enqueue
    <2> QED
      BY <2>3, <2>4, <2>5, <2>6, Zenon DEF Relay!Publish, RelayProofs!Publish
  <1>6. ASSUME NEW c \in Workers PROVE Relay!Consume(c) <=> RelayProofs!Consume(c)
    BY DEF Relay!Consume, RelayProofs!Consume, Relay!OpenInbox, RelayProofs!OpenInbox,
           Relay!SkipDuplicate, RelayProofs!SkipDuplicate,
           Relay!CommitInbox, RelayProofs!CommitInbox,
           Relay!RejectMessage, RelayProofs!RejectMessage,
           Relay!QuarantineConfirmed, RelayProofs!QuarantineConfirmed,
           Relay!Ack, RelayProofs!Ack, Relay!MayAck, RelayProofs!MayAck,
           Relay!Known, RelayProofs!Known, Relay!Unknown, RelayProofs!Unknown,
           Relay!InboxFree, RelayProofs!InboxFree, Relay!IsEvent, RelayProofs!IsEvent,
           Relay!Turn, RelayProofs!Turn, Relay!Quarantined, RelayProofs!Quarantined,
           Relay!NoMessage, RelayProofs!NoMessage, Relay!history, RelayProofs!history
  <1>7. ASSUME NEW c \in Workers, NEW m PROVE Relay!Get(c, m) <=> RelayProofs!Get(c, m)
    BY DEF Relay!Get, RelayProofs!Get, Relay!Ready, RelayProofs!Ready,
           Relay!history, RelayProofs!history
  <1>8. Relay!Fail <=> RelayProofs!Fail
    <2>1. ASSUME NEW p \in Publishers
          PROVE  (Relay!EndTransaction(p) <=> RelayProofs!EndTransaction(p))
                 /\ (Relay!RollBack(p) <=> RelayProofs!RollBack(p))
      BY <1>4 DEF Relay!EndTransaction, RelayProofs!EndTransaction,
                  Relay!RollBack, RelayProofs!RollBack
    <2>2. ASSUME NEW c \in Workers PROVE Relay!Close(c) <=> RelayProofs!Close(c)
      BY <1>4 DEF Relay!Close, RelayProofs!Close
    <2>3. ASSUME NEW p \in Publishers
          PROVE  (Relay!PublisherFails(p) <=> RelayProofs!PublisherFails(p))
                 /\ (Relay!LoseTransaction(p) <=> RelayProofs!LoseTransaction(p))
      BY <1>3, <2>1 DEF Relay!PublisherFails, RelayProofs!PublisherFails,
                        Relay!LoseTransaction, RelayProofs!LoseTransaction
    <2>4. ASSUME NEW p \in Publishers, NEW e \in Events
          PROVE  Relay!PublishUnconfirmed(p, e) <=> RelayProofs!PublishUnconfirmed(p, e)
      BY <1>3, <2>1
      DEF Relay!PublishUnconfirmed, RelayProofs!PublishUnconfirmed, Relay!IsNext,
          RelayProofs!IsNext, Relay!Enqueue, RelayProofs!Enqueue
    <2>5. ASSUME NEW c \in Workers
          PROVE  (Relay!ConsumerFails(c) <=> RelayProofs!ConsumerFails(c))
                 /\ (Relay!ReturnInFlight(c) <=> RelayProofs!ReturnInFlight(c))
                 /\ (Relay!QuarantineUnconfirmed(c) <=> RelayProofs!QuarantineUnconfirmed(c))
      BY <1>3, <2>2
      DEF Relay!history, RelayProofs!history, Relay!ConsumerFails, RelayProofs!ConsumerFails, Relay!ReturnInFlight,
          RelayProofs!ReturnInFlight, Relay!QuarantineUnconfirmed,
          RelayProofs!QuarantineUnconfirmed, Relay!Enqueue, RelayProofs!Enqueue,
          Relay!Quarantined, RelayProofs!Quarantined
    <2> QED BY <2>3, <2>4, <2>5, Zenon DEF Relay!Fail, RelayProofs!Fail
  <1>9. \A e \in Events : Relay!CommitEvent(e) <=> RelayProofs!CommitEvent(e)
    BY DEF Relay!CommitEvent, RelayProofs!CommitEvent, Relay!history, RelayProofs!history
  <1>10. \A j \in Junk : Relay!InjectJunk(j) <=> RelayProofs!InjectJunk(j)
    BY DEF Relay!InjectJunk, RelayProofs!InjectJunk
  <1>11. Relay!Next <=> RelayProofs!Next
    BY <1>4, <1>5, <1>6, <1>7, <1>8, <1>9, <1>10, Zenon DEF Relay!Next, RelayProofs!Next
  <1> QED BY <1>1, <1>2, <1>11, Zenon

\* Every message of the composition is in custody, see OutboxRelayProofs.
LEMMA PipelineCustody == Spec => [](RelayProofs!Custody /\ RelayProofs!NoEventLost)
  <1>1. Relay!Spec => RelayProofs!Spec
    BY SameRelay, PTL DEF Relay!Spec, RelayProofs!Spec
  <1>2. RelayProofs!Spec => []RelayProofs!Custody
    BY RelayAssumption, RelayProofs!CustodyInvariant
    DEF RelayProofs!Messages, RelayProofs!IsFiniteSet, IsFiniteSet
  <1>3. RelayProofs!Spec => []RelayProofs!NoEventLost
    BY RelayAssumption, RelayProofs!NoEventIsLost
    DEF RelayProofs!Messages, RelayProofs!IsFiniteSet, IsFiniteSet
  <1> QED BY <1>1, <1>2, <1>3, PipelineRelays, PTL

-----------------------------------------------------------------------------
(* The deliveries' part.                                                   *)

LEMMA DeliveryStep ==
    RelayProofs!Custody /\ [Next]_vars => [Delivery!Next]_deliveryVars
  <1> SUFFICES ASSUME RelayProofs!Custody, Next, ~UNCHANGED deliveryVars
               PROVE  Delivery!Next
    BY Zenon DEF vars
  <1>1. ASSUME NEW w \in Workers, ReceiveEvent(w) PROVE Delivery!Next
    <2>1. consumer[w].msg \in Events
      BY <1>1
      DEF ReceiveEvent, Relay!CommitInbox, RelayProofs!Custody, RelayProofs!ConsumerOK,
          RelayProofs!KnowsMessage
    <2>2. Delivery!ProcessEvent(consumer[w].msg)
      BY <1>1, Zenon DEF ReceiveEvent, Stored
    <2> QED BY <2>1, <2>2, Zenon DEF Delivery!Next
  <1>2. ASSUME NEW w \in Workers, Run(w) PROVE Delivery!Next
    BY <1>1, <1>2, Zenon
    DEF Run, DeliverStep, SkipDelivery, Connect, ConnectFails, QueueEmpty, HandleMessage,
        Acknowledge, Get, Delivery!Next
  <1>3. ASSUME NEW w \in Workers, Fail(w) PROVE Delivery!Next
    BY <1>3, Zenon
    DEF Fail, LeaveLoop, ConsumeFails, DeliverFails, ReturnInFlight, Delivery!Next
  <1>4. ASSUME NEW p \in Publishers, Publish(p) \/ PublishFails(p) PROVE Delivery!Next
    BY <1>4, Zenon DEF Publish, PublishFails
  <1>5. ASSUME Arrive \/ Intervene \/ Tick PROVE Delivery!Next
    BY <1>5, Zenon DEF Arrive, Intervene, Tick, Delivery!Next
  <1> QED BY <1>2, <1>3, <1>4, <1>5, Zenon DEF Next

\* The loop only ever takes the steps NotificationDelivery allows its workers.
THEOREM PipelineDelivers == Spec => Delivery!Spec
  <1>1. Init => Delivery!Init
    BY DEF Init
  <1>2. RelayProofs!Custody /\ [Next]_vars => [Delivery!Next]_(Delivery!vars)
    BY DeliveryStep, Zenon DEF deliveryVars, Delivery!vars
  <1> QED BY <1>1, <1>2, PipelineCustody, PTL DEF Spec, Delivery!Spec

\* The definitions of the two instances of NotificationDelivery are the same.
LEMMA SameDelivery ==
    /\ Delivery!Init <=> DeliveryProofs!Init
    /\ [Delivery!Next]_(Delivery!vars) <=> [DeliveryProofs!Next]_(DeliveryProofs!vars)
    /\ Delivery!Deliveries = DeliveryProofs!Deliveries
  <1>0. Delivery!Deliveries = DeliveryProofs!Deliveries
    BY DEF Delivery!Deliveries, DeliveryProofs!Deliveries, Delivery!RecipientsOf,
           DeliveryProofs!RecipientsOf, Delivery!Candidates, DeliveryProofs!Candidates
  <1>1. Delivery!Idle = DeliveryProofs!Idle /\ Delivery!EmptyRow = DeliveryProofs!EmptyRow
    BY Zenon DEF Delivery!Idle, DeliveryProofs!Idle, Delivery!EmptyRow, DeliveryProofs!EmptyRow
  <1>2. Delivery!Init <=> DeliveryProofs!Init
    BY <1>0, <1>1, Zenon DEF Delivery!Init, DeliveryProofs!Init
  <1>3. UNCHANGED Delivery!vars <=> UNCHANGED DeliveryProofs!vars
    BY Zenon DEF Delivery!vars, DeliveryProofs!vars
  <1>4. \A d : (Delivery!LeaseLapsed(d) <=> DeliveryProofs!LeaseLapsed(d))
               /\ (Delivery!Due(d) <=> DeliveryProofs!Due(d))
               /\ (Delivery!Exhausted(d) <=> DeliveryProofs!Exhausted(d))
               /\ (Delivery!Lapse(d) <=> DeliveryProofs!Lapse(d))
               /\ Delivery!ClientOf(d) = DeliveryProofs!ClientOf(d)
               /\ (Delivery!ClientAddressed(d) <=> DeliveryProofs!ClientAddressed(d))
               /\ (Delivery!BindingHolds(d) <=> DeliveryProofs!BindingHolds(d))
    BY DEF Delivery!LeaseLapsed, DeliveryProofs!LeaseLapsed, Delivery!Due, DeliveryProofs!Due,
           Delivery!Exhausted, DeliveryProofs!Exhausted, Delivery!Lapse, DeliveryProofs!Lapse,
           Delivery!ClientOf, DeliveryProofs!ClientOf, Delivery!ClientAddressed,
           DeliveryProofs!ClientAddressed, Delivery!BindingHolds, DeliveryProofs!BindingHolds
  <1>5. ASSUME NEW w \in Workers PROVE Delivery!Claim(w) <=> DeliveryProofs!Claim(w)
    <2>1. Delivery!Claimable = DeliveryProofs!Claimable
      <3>1. \A S : Delivery!Cardinality(S) = DeliveryProofs!Cardinality(S)
        BY DEF Delivery!Cardinality, DeliveryProofs!Cardinality
      <3> QED BY <1>0, <1>4, <3>1 DEF Delivery!Claimable, DeliveryProofs!Claimable
    <2>2. ASSUME NEW d PROVE Delivery!ClaimDelivery(w, d) <=> DeliveryProofs!ClaimDelivery(w, d)
      BY <1>1, <1>4, <2>1, Zenon DEF Delivery!ClaimDelivery, DeliveryProofs!ClaimDelivery
    <2>3. ASSUME NEW d
          PROVE  Delivery!GiveUpDelivery(w, d) <=> DeliveryProofs!GiveUpDelivery(w, d)
      BY <1>4, <2>1, Zenon DEF Delivery!GiveUpDelivery, DeliveryProofs!GiveUpDelivery
    <2> QED BY <1>0, <2>2, <2>3, Zenon DEF Delivery!Claim, DeliveryProofs!Claim
  <1>6. ASSUME NEW w \in Workers PROVE Delivery!Attempt(w) <=> DeliveryProofs!Attempt(w)
    <2>1. \A a, p, e, t : Delivery!Failure(a, p, e, t) = DeliveryProofs!Failure(a, p, e, t)
      BY Zenon DEF Delivery!Failure, DeliveryProofs!Failure
    <2>2. \A a, b : Delivery!Max2(a, b) = DeliveryProofs!Max2(a, b)
                    /\ Delivery!Min2(a, b) = DeliveryProofs!Min2(a, b)
      BY Zenon DEF Delivery!Max2, DeliveryProofs!Max2, Delivery!Min2, DeliveryProofs!Min2
    <2>3. \A a : Delivery!Backoff(a) = DeliveryProofs!Backoff(a)
      BY <2>2, Zenon DEF Delivery!Backoff, DeliveryProofs!Backoff
    <2>4. \A a, r : Delivery!JitteredDelays(a, r) = DeliveryProofs!JitteredDelays(a, r)
      BY <2>2, <2>3, Zenon DEF Delivery!JitteredDelays, DeliveryProofs!JitteredDelays
    <2>5. \A r : Delivery!ClampedRetryAfter(r) = DeliveryProofs!ClampedRetryAfter(r)
      BY <2>2, Zenon DEF Delivery!ClampedRetryAfter, DeliveryProofs!ClampedRetryAfter
    <2>6. Delivery!Success = DeliveryProofs!Success
      BY Zenon DEF Delivery!Success, DeliveryProofs!Success
    <2>7. \A r : Delivery!Answer(w, r) <=> DeliveryProofs!Answer(w, r)
      BY Zenon DEF Delivery!Answer, DeliveryProofs!Answer
    <2>8. Delivery!Accept(w) <=> DeliveryProofs!Accept(w)
      BY Zenon DEF Delivery!Accept, DeliveryProofs!Accept
    <2>9. UNCHANGED Delivery!history <=> UNCHANGED DeliveryProofs!history
      BY Zenon DEF Delivery!history, DeliveryProofs!history
    <2>10. /\ Delivery!CheckRecipientOk(w) <=> DeliveryProofs!CheckRecipientOk(w)
           /\ Delivery!CheckRecipientChanged(w) <=> DeliveryProofs!CheckRecipientChanged(w)
           /\ Delivery!LookupFailed(w) <=> DeliveryProofs!LookupFailed(w)
      BY <1>4, <2>1, <2>3, <2>4, <2>7, <2>9, Zenon
      DEF Delivery!CheckRecipientOk, DeliveryProofs!CheckRecipientOk,
          Delivery!CheckRecipientChanged, DeliveryProofs!CheckRecipientChanged,
          Delivery!LookupFailed, DeliveryProofs!LookupFailed
    <2>11. /\ Delivery!SendConfirmed(w) <=> DeliveryProofs!SendConfirmed(w)
           /\ Delivery!SendUnconfirmed(w) <=> DeliveryProofs!SendUnconfirmed(w)
      BY <2>1, <2>4, <2>6, <2>7, <2>8, Zenon
      DEF Delivery!SendConfirmed, DeliveryProofs!SendConfirmed,
          Delivery!SendUnconfirmed, DeliveryProofs!SendUnconfirmed
    <2>12. /\ Delivery!SendFailed(w) <=> DeliveryProofs!SendFailed(w)
           /\ Delivery!SendRejected(w) <=> DeliveryProofs!SendRejected(w)
      BY <2>1, <2>4, <2>5, <2>7, <2>9, Zenon
      DEF Delivery!SendFailed, DeliveryProofs!SendFailed,
          Delivery!SendRejected, DeliveryProofs!SendRejected
    <2>13. Delivery!FinishDelivery(w) <=> DeliveryProofs!FinishDelivery(w)
      <3>1. \A r, s : Delivery!Recorded(r, s) = DeliveryProofs!Recorded(r, s)
        BY Zenon DEF Delivery!Recorded, DeliveryProofs!Recorded
      <3>2. Delivery!HoldsRow(w) <=> DeliveryProofs!HoldsRow(w)
        BY Zenon DEF Delivery!HoldsRow, DeliveryProofs!HoldsRow
      <3> QED
        BY <1>1, <2>9, <3>1, <3>2, Zenon DEF Delivery!FinishDelivery, DeliveryProofs!FinishDelivery
    <2> QED
      BY <2>10, <2>11, <2>12, <2>13, Zenon DEF Delivery!Attempt, DeliveryProofs!Attempt
  <1>7. \A e : Delivery!ProcessEvent(e) <=> DeliveryProofs!ProcessEvent(e)
    BY <1>0, <1>1
    DEF Delivery!ProcessEvent, DeliveryProofs!ProcessEvent, Delivery!Received,
        DeliveryProofs!Received, Delivery!NewRow, DeliveryProofs!NewRow, Delivery!EmptyRow,
        DeliveryProofs!EmptyRow, Delivery!history, DeliveryProofs!history
  <1>8. \A w \in Workers : Delivery!WorkerCrash(w) <=> DeliveryProofs!WorkerCrash(w)
    BY <1>1 DEF Delivery!WorkerCrash, DeliveryProofs!WorkerCrash, Delivery!Idle,
                DeliveryProofs!Idle, Delivery!history, DeliveryProofs!history
  <1>9. \A d : Delivery!RetryNotification(d) <=> DeliveryProofs!RetryNotification(d)
    BY Zenon DEF Delivery!RetryNotification, DeliveryProofs!RetryNotification,
                 Delivery!history, DeliveryProofs!history
  <1>10. \A c, k : Delivery!RebindChat(c, k) <=> DeliveryProofs!RebindChat(c, k)
    BY <1>4 DEF Delivery!RebindChat, DeliveryProofs!RebindChat, Delivery!ClientOf,
                DeliveryProofs!ClientOf, Delivery!history, DeliveryProofs!history
  <1>11. Delivery!Tick <=> DeliveryProofs!Tick
    BY <1>0 DEF Delivery!Tick, DeliveryProofs!Tick, Delivery!Waiting, DeliveryProofs!Waiting,
                Delivery!history, DeliveryProofs!history
  <1>12. Delivery!Next <=> DeliveryProofs!Next
    BY <1>0, <1>5, <1>6, <1>7, <1>8, <1>9, <1>10, <1>11, Zenon
    DEF Delivery!Next, DeliveryProofs!Next
  <1> QED BY <1>0, <1>2, <1>3, <1>12, Zenon

\* What NotificationDelivery assumes, in the words of its instance.
LEMMA DeliveryFacts ==
    /\ DeliveryAssumption
    /\ DeliveryProofs!PayloadRecord = Delivery!PayloadRecord
    /\ DeliveryProofs!Deliveries = Delivery!Deliveries
    /\ \A a : DeliveryProofs!Backoff(a) = Delivery!Backoff(a)
  <1>1. \A a, b : Delivery!Min2(a, b) = DeliveryProofs!Min2(a, b)
    BY Zenon DEF Delivery!Min2, DeliveryProofs!Min2
  <1>2. \A a : DeliveryProofs!Backoff(a) = Delivery!Backoff(a)
    BY <1>1, Zenon DEF Delivery!Backoff, DeliveryProofs!Backoff
  <1>3. DeliveryProofs!PayloadRecord = Delivery!PayloadRecord
    BY Zenon DEF DeliveryProofs!PayloadRecord, Delivery!PayloadRecord,
                 DeliveryProofs!EventTypes, Delivery!EventTypes
  <1> QED BY <1>2, <1>3, SameDelivery, DeliveryAssumption, Zenon

LEMMA PipelineShape == Spec => []DeliveryProofs!Shape
  <1>1. Delivery!Spec => DeliveryProofs!Spec
    BY SameDelivery, PTL DEF Delivery!Spec, DeliveryProofs!Spec
  <1>2. DeliveryProofs!Spec => []DeliveryProofs!Shape
    BY DeliveryFacts, DeliveryProofs!ShapeInvariant
  <1> QED BY <1>1, <1>2, PipelineDelivers, PTL

\* End to end the table keeps what AtLeastOnce promises, whatever happens to the
\* broker, the publishers and the loop.
THEOREM PipelineKeepsThePromise == Spec => DeliveryProofs!KeepsThePromise
  <1>1. Delivery!Spec => DeliveryProofs!Spec
    BY SameDelivery, PTL DEF Delivery!Spec, DeliveryProofs!Spec
  <1>2. DeliveryProofs!Spec => DeliveryProofs!KeepsThePromise
    BY DeliveryFacts, DeliveryProofs!DeliveryKeepsThePromise
  <1> QED BY <1>1, <1>2, PipelineDelivers, PTL

-----------------------------------------------------------------------------
(* The two parts together.                                                 *)

\* What the relay calls received has its rows in the table.
RowsStored ==
    \A e \in Events : received[e] =>
        \A d \in Delivery!Deliveries : d[1] = e => delivery[d].status # "absent"

\* CommitInbox is the only step of the relay that sets received.
LEMMA ReceivedStep ==
    ASSUME RelayProofs!Custody, [Next]_vars, NEW e \in Events, received'[e], ~received[e]
    PROVE  \E w \in Workers : ReceiveEvent(w) /\ consumer[w].msg = e
  <1>0. received \in [Events -> BOOLEAN]
    BY DEF RelayProofs!Custody, RelayProofs!TypeOK
  <1>1. received' # received
    OBVIOUS
  <1>2. PICK w \in Workers : ReceiveEvent(w)
    <2>1. Next
      BY <1>1, Zenon DEF vars, relayVars
    <2>2. ASSUME NEW w \in Workers, Run(w), ~ReceiveEvent(w) PROVE received' = received
      BY <2>2, Zenon
      DEF Run, DeliverStep, SkipDelivery, Connect, ConnectFails, QueueEmpty, HandleMessage,
          Acknowledge, Get, relayVars, Relay!OpenInbox, Relay!SkipDuplicate,
          Relay!RejectMessage, Relay!QuarantineConfirmed, Relay!Ack, Relay!Get
    <2>3. ASSUME NEW w \in Workers, Fail(w) PROVE received' = received
      BY <2>3, Zenon
      DEF Fail, LeaveLoop, ConsumeFails, DeliverFails, ReturnInFlight, relayVars,
          Relay!ConsumerFails, Relay!QuarantineUnconfirmed, Relay!ReturnInFlight
    <2>4. ASSUME NEW p \in Publishers, Publish(p) \/ PublishFails(p)
          PROVE  received' = received
      BY <2>4, Zenon
      DEF Publish, PublishFails, Relay!Publish, Relay!SelectBatch, Relay!CommitBatch,
          Relay!CommitLostBatch, Relay!PublishConfirmed, Relay!PublisherFails,
          Relay!LoseTransaction, Relay!PublishUnconfirmed
    <2>5. ASSUME Arrive \/ Intervene \/ Tick PROVE received' = received
      BY <2>5, Zenon
      DEF Arrive, Intervene, Tick, relayVars, Relay!CommitEvent, Relay!InjectJunk
    <2> QED BY <1>1, <2>1, <2>2, <2>3, <2>4, <2>5, Zenon DEF Next
  <1>3. received' = [received EXCEPT ![consumer[w].msg] = TRUE]
    BY <1>2 DEF ReceiveEvent, Relay!CommitInbox
  <1>4. consumer[w].msg = e
    BY <1>0, <1>3
  <1> QED BY <1>2, <1>4

LEMMA RowsStoredStep ==
    RelayProofs!Custody /\ DeliveryProofs!Shape /\ RowsStored /\ [Next]_vars => RowsStored'
  <1> SUFFICES ASSUME RelayProofs!Custody, DeliveryProofs!Shape, RowsStored, [Next]_vars,
                      NEW e \in Events, received'[e],
                      NEW d \in Delivery!Deliveries, d[1] = e
               PROVE  delivery'[d].status # "absent"
    BY DEF RowsStored
  <1>1. CASE received[e]
    <2>1. delivery[d].status # "absent"
      BY <1>1 DEF RowsStored
    <2>2. d \in DeliveryProofs!Deliveries
      BY SameDelivery
    <2>3. [DeliveryProofs!Next]_(DeliveryProofs!vars)
      <3>1. [Delivery!Next]_(Delivery!vars)
        BY DeliveryStep, Zenon DEF deliveryVars, Delivery!vars
      <3> QED BY <3>1, SameDelivery, Zenon
    <2> QED BY <2>1, <2>2, <2>3, DeliveryFacts, DeliveryProofs!RowsStay
  <1>2. CASE ~received[e]
    <2>1. PICK w \in Workers : ReceiveEvent(w) /\ consumer[w].msg = e
      BY <1>2, ReceivedStep
    <2>2. Delivery!ProcessEvent(e)
      BY <2>1, Zenon DEF ReceiveEvent, Stored
    <2>3. delivery'[d] = Delivery!NewRow(d)
      BY <2>2 DEF Delivery!ProcessEvent
    <2> QED BY <2>3 DEF Delivery!NewRow, Delivery!EmptyRow
  <1> QED BY <1>1, <1>2

\* Between the outbox, the broker and the table nothing is lost: the event of a
\* row with published_at is in the queue, in flight, or stored for everyone.
THEOREM NobodyIsForgotten == Spec => []NobodyForgotten
  <1>1. Init => RowsStored
    BY DEF Init, Relay!Init, RowsStored
  <1>2. Spec => []RowsStored
    BY <1>1, RowsStoredStep, PipelineCustody, PipelineShape, PTL DEF Spec
  <1>3. RelayProofs!NoEventLost /\ RowsStored => NobodyForgotten
    BY Zenon DEF RelayProofs!NoEventLost, RelayProofs!InFlight, RowsStored, NobodyForgotten,
                 Relay!InFlight
  <1> QED BY <1>2, <1>3, PipelineCustody, PTL

\* A row, and a message that reached its recipient, are about an event that was
\* committed: what was rolled back is told to nobody.
OnlyCommittedIsTold ==
    \A d \in Delivery!Deliveries :
        delivery[d].status # "absent" \/ accepted[d] # {} => outbox[d[1]].committed

RowsReal ==
    \A d \in Delivery!Deliveries : delivery[d].status # "absent" => outbox[d[1]].committed

\* The relay never takes a commit back.
LEMMA CommitsLast ==
    ASSUME RelayProofs!Custody, [Next]_vars, NEW e \in Events, outbox[e].committed
    PROVE  outbox'[e].committed
  <1>0. outbox \in [Events -> RelayProofs!Row] /\ outbox[e] \in RelayProofs!Row
    BY DEF RelayProofs!Custody, RelayProofs!TypeOK
  <1>1. ASSUME NEW f \in Events, Relay!CommitEvent(f) PROVE outbox'[e].committed
    BY <1>0, <1>1 DEF Relay!CommitEvent, RelayProofs!Row
  <1>2. ASSUME NEW p \in Publishers, Relay!CommitBatch(p) PROVE outbox'[e].committed
    BY <1>0, <1>2 DEF Relay!CommitBatch, RelayProofs!Row
  <1>3. \/ outbox' = outbox
        \/ \E f \in Events : Relay!CommitEvent(f)
        \/ \E p \in Publishers : Relay!CommitBatch(p)
    <2>1. [Relay!Next]_relayVars
      BY RelayStep
    <2> QED
      BY <2>1, Zenon
      DEF relayVars, Relay!Next, Relay!InjectJunk, Relay!Publish, Relay!SelectBatch,
          Relay!CommitLostBatch, Relay!PublishConfirmed, Relay!Consume, Relay!OpenInbox,
          Relay!SkipDuplicate, Relay!CommitInbox, Relay!RejectMessage,
          Relay!QuarantineConfirmed, Relay!Ack, Relay!Get, Relay!Fail, Relay!PublisherFails,
          Relay!LoseTransaction, Relay!PublishUnconfirmed, Relay!ConsumerFails,
          Relay!ReturnInFlight, Relay!QuarantineUnconfirmed
  <1> QED BY <1>1, <1>2, <1>3

\* Only process_event inserts rows.
LEMMA InsertStep ==
    ASSUME DeliveryProofs!Shape, [Next]_vars, NEW d \in Delivery!Deliveries,
           delivery[d].status = "absent", delivery'[d].status # "absent"
    PROVE  \E w \in Workers : ReceiveEvent(w) /\ consumer[w].msg = d[1]
  <1>0. /\ delivery \in [Delivery!Deliveries -> DeliveryProofs!Row]
        /\ delivery'[d] # delivery[d]
    BY SameDelivery DEF DeliveryProofs!Shape, DeliveryProofs!TypeOK
  <1>1. ASSUME NEW w \in Workers, Delivery!Claim(w) PROVE FALSE
    <2>1. PICK c \in Delivery!Deliveries :
              /\ c \in Delivery!Claimable
              /\ \A b \in Delivery!Deliveries \ {c} : delivery'[b] = delivery[b]
      BY <1>0, <1>1
      DEF Delivery!Claim, Delivery!ClaimDelivery, Delivery!GiveUpDelivery
    <2>2. delivery[c].status # "absent"
      BY <2>1 DEF Delivery!Claimable, Delivery!Due, Delivery!LeaseLapsed
    <2> QED BY <1>0, <2>1, <2>2
  <1>2. ASSUME NEW w \in Workers, Delivery!Attempt(w) PROVE FALSE
    <2>1. CASE delivery' = delivery
      BY <1>0, <2>1
    <2>2. CASE Delivery!FinishDelivery(w)
      <3>1. delivery' = [delivery EXCEPT ![worker[w].job] =
                IF Delivery!HoldsRow(w)
                THEN Delivery!Recorded(delivery[worker[w].job], worker[w].result)
                ELSE delivery[worker[w].job]]
        BY <2>2, Zenon DEF Delivery!FinishDelivery
      <3>2. CASE Delivery!HoldsRow(w)
        <4>1. PICK row : delivery' = [delivery EXCEPT ![worker[w].job] = row]
          BY <3>1, Zenon
        <4>2. delivery[worker[w].job].status = "sending"
          BY <3>2, Zenon DEF Delivery!HoldsRow
        <4> QED BY <1>0, <4>1, <4>2
      <3>3. CASE ~Delivery!HoldsRow(w)
        <4>1. delivery' = [delivery EXCEPT ![worker[w].job] = delivery[worker[w].job]]
          BY <3>1, <3>3
        <4> QED BY <1>0, <4>1
      <3> QED BY <3>2, <3>3
    <2> QED
      BY <1>2, <2>1, <2>2, Zenon
      DEF Delivery!Attempt, Delivery!CheckRecipientOk, Delivery!CheckRecipientChanged,
          Delivery!LookupFailed, Delivery!SendConfirmed, Delivery!SendUnconfirmed,
          Delivery!SendFailed, Delivery!SendRejected
  <1>3. ASSUME NEW c, Delivery!RetryNotification(c) PROVE FALSE
    BY <1>0, <1>3 DEF Delivery!RetryNotification
  <1>4. ASSUME NEW w \in Workers, ReceiveEvent(w) PROVE consumer[w].msg = d[1]
    BY <1>0, <1>4 DEF ReceiveEvent, Stored, Delivery!ProcessEvent
  <1>5. ASSUME NEW w \in Workers, Run(w) PROVE ReceiveEvent(w)
    BY <1>0, <1>1, <1>2, <1>5, Zenon
    DEF Run, DeliverStep, SkipDelivery, Connect, ConnectFails, QueueEmpty, HandleMessage,
        Acknowledge, Get, deliveryVars
  <1>6. ASSUME NEW w \in Workers, Fail(w) PROVE FALSE
    BY <1>0, <1>6, Zenon
    DEF Fail, LeaveLoop, ConsumeFails, DeliverFails, ReturnInFlight, deliveryVars,
        Delivery!WorkerCrash
  <1>7. ASSUME NEW p \in Publishers, Publish(p) \/ PublishFails(p) PROVE FALSE
    BY <1>0, <1>7, Zenon DEF Publish, PublishFails, deliveryVars
  <1>8. ASSUME Arrive \/ Intervene \/ Tick PROVE FALSE
    BY <1>0, <1>3, <1>8, Zenon
    DEF Arrive, Intervene, Tick, deliveryVars, Delivery!RebindChat, Delivery!Tick
  <1>9. Next
    BY <1>0, Zenon DEF vars, deliveryVars
  <1> QED BY <1>4, <1>5, <1>6, <1>7, <1>8, <1>9, Zenon DEF Next

LEMMA RowsRealStep ==
    RelayProofs!Custody /\ DeliveryProofs!Shape /\ RowsReal /\ [Next]_vars => RowsReal'
  <1> SUFFICES ASSUME RelayProofs!Custody, DeliveryProofs!Shape, RowsReal, [Next]_vars,
                      NEW d \in Delivery!Deliveries, delivery'[d].status # "absent"
               PROVE  outbox'[d[1]].committed
    BY DEF RowsReal
  <1>1. d[1] \in Events
    BY DEF Delivery!Deliveries
  <1>2. CASE delivery[d].status # "absent"
    BY <1>1, <1>2, CommitsLast DEF RowsReal
  <1>3. CASE delivery[d].status = "absent"
    <2>1. PICK w \in Workers : consumer[w].msg = d[1]
      BY <1>3, InsertStep
    <2>2. outbox[d[1]].committed
      BY <1>1, <2>1 DEF RelayProofs!Custody, RelayProofs!Real
    <2> QED BY <1>1, <2>2, CommitsLast
  <1> QED BY <1>2, <1>3

\* Nobody is told of what was never committed: a row needs a message that went out
\* after the commit, and an accepted message needs a row.
THEOREM NothingIsInvented == Spec => []OnlyCommittedIsTold
  <1>1. Init => RowsReal
    BY DEF Init, Delivery!Init, Delivery!EmptyRow, RowsReal
  <1>2. Spec => []RowsReal
    BY <1>1, RowsRealStep, PipelineCustody, PipelineShape, PTL DEF Spec
  <1>3. Delivery!Spec => DeliveryProofs!Spec
    BY SameDelivery, PTL DEF Delivery!Spec, DeliveryProofs!Spec
  <1>4. DeliveryProofs!Spec => [](DeliveryProofs!Shape /\ DeliveryProofs!Budget)
    BY DeliveryFacts, DeliveryProofs!BudgetInvariant
  <1>5. DeliveryProofs!Spec => [](DeliveryProofs!Shape /\ DeliveryProofs!Fence)
    BY DeliveryFacts, DeliveryProofs!FenceInvariant
  <1>6. DeliveryProofs!Budget /\ DeliveryProofs!Fence /\ RowsReal => OnlyCommittedIsTold
    <2> SUFFICES ASSUME DeliveryProofs!Budget, DeliveryProofs!Fence,
                        NEW d \in DeliveryProofs!Deliveries, delivery[d].status = "absent"
                 PROVE  accepted[d] = {}
      BY SameDelivery DEF RowsReal, OnlyCommittedIsTold
    <2>1. claims[d] = 0
      BY DEF DeliveryProofs!Budget
    <2>2. accepted[d] \subseteq 1..claims[d]
      BY DEF DeliveryProofs!Fence, DeliveryProofs!RowFence
    <2> QED BY <2>1, <2>2
  <1> QED BY <1>2, <1>3, <1>4, <1>5, <1>6, PipelineDelivers, PTL

\* run() stands at one of its places.
Placed == place \in [Workers -> Places]

\* The types of both parts hold in the composition, the counters of messages
\* included, and run() is always at one of its places.
THEOREM TypeCorrect == Spec => []TypeOK
  <1>1. RelayProofs!TypeOK <=> Relay!TypeOK
    BY Zenon DEF RelayProofs!TypeOK, Relay!TypeOK, RelayProofs!Messages, Relay!Messages,
                 RelayProofs!Row, Relay!Row, RelayProofs!PublisherState,
                 Relay!PublisherState, RelayProofs!ConsumerState, Relay!ConsumerState
  <1>2. DeliveryProofs!TypeOK <=> Delivery!TypeOK
    BY SameDelivery, Zenon
    DEF DeliveryProofs!TypeOK, Delivery!TypeOK, DeliveryProofs!Row, Delivery!Row,
        DeliveryProofs!WorkerState, Delivery!WorkerState, DeliveryProofs!Result,
        Delivery!Result, DeliveryProofs!Statuses, Delivery!Statuses, DeliveryProofs!Errors,
        Delivery!Errors
  <1>3. Init => Placed
    BY DEF Init, Start, Places, Placed
  <1>4. Placed /\ [Next]_vars => Placed'
    <2> SUFFICES ASSUME Placed, Next PROVE Placed'
      BY DEF vars, Placed
    <2>1. ASSUME NEW w \in Workers, NEW p \in Places, GoTo(w, p)
          PROVE  Placed'
      BY <2>1 DEF GoTo, Placed
    <2>2. Start \in Places /\ "connect" \in Places /\ "consume" \in Places
          /\ "deliver" \in Places
      BY DEF Start, Places
    <2>3. ASSUME NEW w \in Workers
          PROVE  AfterDelivery(w) \in Places /\ AfterAck(w) \in Places /\ place[w] \in Places
      BY <2>2 DEF AfterDelivery, AfterAck, Placed
    <2>4. ASSUME NEW w \in Workers, DeliverStep(w) PROVE Placed'
      <3>1. (IF worker'[w] = Delivery!Idle THEN AfterDelivery(w) ELSE place[w]) \in Places
        BY <2>3
      <3> QED BY <2>1, <2>4, <3>1, Zenon DEF DeliverStep
    <2>5. ASSUME NEW w \in Workers, Run(w) PROVE Placed'
      BY <2>1, <2>2, <2>3, <2>4, <2>5, Zenon
      DEF Run, SkipDelivery, Connect, ConnectFails, QueueEmpty, HandleMessage,
          ReceiveEvent, Acknowledge, Get, Placed
    <2>6. ASSUME NEW w \in Workers, Fail(w) PROVE Placed'
      BY <2>1, <2>2, <2>6, Zenon
      DEF Fail, LeaveLoop, ConsumeFails, DeliverFails, ReturnInFlight, Placed
    <2>7. ASSUME NEW p \in Publishers, Publish(p) \/ PublishFails(p)
          PROVE  Placed'
      BY <2>7, Zenon DEF Publish, PublishFails, Placed
    <2>8. ASSUME Arrive \/ Intervene \/ Tick PROVE Placed'
      BY <2>8, Zenon DEF Arrive, Intervene, Tick, Placed
    <2> QED BY <2>5, <2>6, <2>7, <2>8, Zenon DEF Next
  <1>5. Spec => []Placed
    BY <1>3, <1>4, PTL DEF Spec
  <1>6. RelayProofs!Custody /\ DeliveryProofs!Shape /\ Placed => TypeOK
    BY <1>1, <1>2, Zenon DEF RelayProofs!Custody, DeliveryProofs!Shape, TypeOK, Placed
  <1> QED BY <1>5, <1>6, PipelineCustody, PipelineShape, PTL
=============================================================================
