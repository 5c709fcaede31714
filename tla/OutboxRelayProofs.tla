-------------------------- MODULE OutboxRelayProofs --------------------------
(***************************************************************************)
(* Proofs about OutboxRelay, for any number of events, publishers,         *)
(* consumers and failures.                                                 *)
(*                                                                         *)
(* Custody is the inductive invariant: what a message, once it is in the   *)
(* queue, is safe by at every moment (Safe), what each consumer knows of   *)
(* the message it works on (ConsumerOK, OneInbox), that messages of events *)
(* only exist once the event is committed (Real), and that a publisher     *)
(* counts as sent only what is safe (PublisherOK).                         *)
(***************************************************************************)
EXTENDS OutboxRelay, FiniteSetTheorems, TLAPS

\* The message was dealt with: in quarantine, or a duplicate of what is received.
Kept(m) == invalid[m] > 0 \/ (IdOf[m] # Null /\ received[IdOf[m]])

Held(m) == \E c \in Consumers : consumer[c].held /\ consumer[c].msg = m

Safe(m) == queue[m] > 0 \/ Held(m) \/ Kept(m)

KnowsMessage(c) ==
    /\ consumer[c].phase = "idle" <=> consumer[c].msg = Null
    /\ consumer[c].held => consumer[c].msg # Null
    /\ consumer[c].phase = "inbox" =>
          consumer[c].msg \in Events /\ ~received[consumer[c].msg]
    /\ consumer[c].phase = "rejected" => consumer[c].msg \notin Events
    /\ consumer[c].phase = "handled" => Kept(consumer[c].msg)

ConsumerOK == \A c \in Consumers : KnowsMessage(c)

OneInbox ==
    \A c, d \in Consumers :
        consumer[c].phase = "inbox" /\ consumer[d].phase = "inbox"
        /\ consumer[c].msg = consumer[d].msg => c = d

Real ==
    \A e \in Events :
        /\ queue[e] > 0 => outbox[e].committed
        /\ \A c \in Consumers : consumer[c].msg = e => outbox[e].committed

PublisherOK ==
    \A p \in Publishers :
        /\ publisher[p].sent \subseteq publisher[p].batch
        /\ \A e \in publisher[p].batch : outbox[e].committed
        /\ \A e \in publisher[p].sent : Safe(e)

PublishedSafe == \A e \in Events : outbox[e].published_at => Safe(e)
InjectedSafe == \A j \in injected : Safe(j)

Custody ==
    /\ TypeOK
    /\ ConsumerOK
    /\ OneInbox
    /\ Real
    /\ PublisherOK
    /\ OnlyJunkQuarantined
    /\ PublishedSafe
    /\ InjectedSafe

-----------------------------------------------------------------------------
(* Types *)

LEMMA MessageFacts ==
    /\ \A e \in Events : e \in Messages /\ IdOf[e] = e /\ e # Null
    /\ \A j \in Junk : j \in Messages /\ j \notin Events
    /\ \A m \in Messages : m # Null /\ IdOf[m] \in Events \cup {Null}
    /\ Null \notin Events
  BY EventAssumption, NullAssumption, IdAssumption DEF Messages

LEMMA TypeInit == Init => TypeOK
  BY DEF Init, TypeOK, Row, PublisherState, NoBatch, ConsumerState, NoMessage, Messages

LEMMA OneMore ==
  ASSUME NEW f \in [Messages -> Nat], NEW m
  PROVE  [f EXCEPT ![m] = @ + 1] \in [Messages -> Nat]
  <1>1. CASE m \in Messages
    BY <1>1
  <1>2. CASE m \notin Messages
    <2>1. [f EXCEPT ![m] = @ + 1] = [x \in Messages |-> f[x]]
      BY <1>2, Zenon
    <2> QED BY <2>1
  <1> QED BY <1>1, <1>2

LEMMA TypeStep == TypeOK /\ [Next]_vars => TypeOK'
  <1> SUFFICES ASSUME TypeOK, [Next]_vars PROVE TypeOK'
    OBVIOUS
  <1> USE DEF TypeOK
  <1>0. ASSUME NEW m, Quarantined(m) PROVE invalid' \in [Messages -> Nat]
    BY <1>0, OneMore DEF Quarantined
  <1>1. \A e \in Events : CommitEvent(e) => TypeOK'
    <2> SUFFICES ASSUME NEW e \in Events, CommitEvent(e) PROVE outbox' \in [Events -> Row]
      BY DEF CommitEvent, history
    <2>1. [outbox[e] EXCEPT !.committed = TRUE] \in Row
      BY DEF Row
    <2> QED BY <2>1 DEF CommitEvent
  <1>2. \A j \in Junk : InjectJunk(j) => TypeOK'
    BY DEF InjectJunk, Messages
  <1>3. ASSUME NEW p \in Publishers, Publish(p) PROVE TypeOK'
    <2>1. CASE SelectBatch(p)
      <3>1. Batch \in SUBSET Events
        BY DEF Batch, Publishable
      <3>2. [NoBatch EXCEPT !.batch = Batch, !.txn = "open"] \in PublisherState
        BY <3>1 DEF NoBatch, PublisherState
      <3> QED BY <2>1, <3>2 DEF SelectBatch, history
    <2>2. CASE CommitBatch(p)
      <3>1. NoBatch \in PublisherState
        BY DEF NoBatch, PublisherState
      <3>2. outbox' \in [Events -> Row]
        <4>1. ASSUME NEW e \in Events
              PROVE [outbox[e] EXCEPT !.published_at = TRUE, !.attempts = @ + 1] \in Row
          <5>1. PICK n \in Nat : n = outbox[e].attempts + 1
            BY DEF Row
          <5>2. [outbox[e] EXCEPT !.published_at = TRUE, !.attempts = n] \in Row
            BY DEF Row
          <5> QED BY <5>1, <5>2
        <4> QED BY <2>2, <4>1 DEF CommitBatch
      <3> QED BY <2>2, <3>1, <3>2 DEF CommitBatch, history
    <2>3. CASE CommitLostBatch(p)
      BY <2>3 DEF CommitLostBatch, NoBatch, PublisherState, history
    <2>4. ASSUME NEW e \in Events, PublishConfirmed(p, e) PROVE TypeOK'
      BY <2>4 DEF PublishConfirmed, Enqueue, PublisherState, Messages
    <2> QED BY <1>3, <2>1, <2>2, <2>3, <2>4 DEF Publish
  <1>4. ASSUME NEW c \in Consumers, Consume(c) PROVE TypeOK'
    <2>1. CASE OpenInbox(c) \/ SkipDuplicate(c) \/ RejectMessage(c)
      BY <2>1 DEF OpenInbox, SkipDuplicate, RejectMessage, Turn, ConsumerState, history
    <2>2. CASE CommitInbox(c)
      BY <2>2 DEF CommitInbox, Turn, ConsumerState, history
    <2>3. CASE QuarantineConfirmed(c)
      BY <2>3, <1>0 DEF QuarantineConfirmed, Turn, ConsumerState, history
    <2>4. CASE Ack(c)
      BY <2>4 DEF Ack, NoMessage, ConsumerState, history
    <2> QED BY <1>4, <2>1, <2>2, <2>3, <2>4 DEF Consume
  <1>5. ASSUME NEW c \in Consumers, NEW m \in Messages, Get(c, m) PROVE TypeOK'
    BY <1>5 DEF Get, Ready, ConsumerState, history
  <1>6. ASSUME NEW p \in Publishers, RollBack(p)
        PROVE publisher' \in [Publishers -> PublisherState] /\ rolledback' \in [Events -> Nat]
    BY <1>6 DEF RollBack, EndTransaction, NoBatch, PublisherState
  <1>7. ASSUME NEW c \in Consumers, Close(c)
        PROVE consumer' \in [Consumers -> ConsumerState] /\ queue' \in [Messages -> Nat]
    BY <1>7 DEF Close, NoMessage, ConsumerState
  <1>8. ASSUME Fail PROVE TypeOK'
    <2>1. ASSUME NEW p \in Publishers, PublisherFails(p) PROVE TypeOK'
      BY <2>1, <1>6 DEF PublisherFails, Fault
    <2>2. ASSUME NEW p \in Publishers, LoseTransaction(p) PROVE TypeOK'
      BY <2>2 DEF LoseTransaction, EndTransaction, Fault, PublisherState
    <2>3. ASSUME NEW p \in Publishers, NEW e \in Events, PublishUnconfirmed(p, e)
          PROVE TypeOK'
      BY <2>3, <1>6 DEF PublishUnconfirmed, Enqueue, Fault, Messages
    <2>4. ASSUME NEW c \in Consumers, ConsumerFails(c) PROVE TypeOK'
      BY <2>4, <1>7 DEF ConsumerFails, Fault, history
    <2>5. ASSUME NEW c \in Consumers, ReturnInFlight(c) PROVE TypeOK'
      <3>1. queue' \in [Messages -> Nat]
        BY <2>5, OneMore DEF ReturnInFlight, Enqueue
      <3>2. [consumer[c] EXCEPT !.held = FALSE] \in ConsumerState
        BY DEF ConsumerState
      <3>3. consumer' \in [Consumers -> ConsumerState]
        BY <2>5, <3>2 DEF ReturnInFlight
      <3> QED BY <2>5, <3>1, <3>3 DEF ReturnInFlight, Fault, history
    <2>6. ASSUME NEW c \in Consumers, QuarantineUnconfirmed(c) PROVE TypeOK'
      BY <2>6, <1>7, <1>0 DEF QuarantineUnconfirmed, Fault, history
    <2> QED BY <1>8, <2>1, <2>2, <2>3, <2>4, <2>5, <2>6 DEF Fail
  <1>9. CASE UNCHANGED vars
    BY <1>9 DEF vars, history
  <1> QED BY <1>1, <1>2, <1>3, <1>4, <1>5, <1>8, <1>9 DEF Next

-----------------------------------------------------------------------------
(* Nothing that is safe is lost: the three places a message is safe in, and *)
(* how a step moves it between them.                                        *)

\* What every step does to a message that was dealt with: nothing.
Remembers ==
    /\ \A m \in Messages : invalid'[m] >= invalid[m]
    /\ \A e \in Events : received[e] => received'[e]

LEMMA KeptStays ==
  ASSUME TypeOK, TypeOK', Remembers, NEW m \in Messages, Kept(m)
  PROVE  Kept(m)'
  <1>1. IdOf[m] \in Events \cup {Null}
    BY MessageFacts
  <1>2. invalid[m] \in Nat /\ invalid'[m] \in Nat
    BY DEF TypeOK
  <1> QED BY <1>1, <1>2 DEF Kept, Remembers

LEMMA SafeWhileHeld ==
  ASSUME TypeOK, TypeOK', Remembers,
         \A m \in Messages : queue'[m] >= queue[m],
         \A c \in Consumers : consumer'[c].held = consumer[c].held
                              /\ consumer'[c].msg = consumer[c].msg
  PROVE  \A m \in Messages : Safe(m) => Safe(m)'
  <1> SUFFICES ASSUME NEW m \in Messages, Safe(m) PROVE Safe(m)'
    OBVIOUS
  <1>1. CASE queue[m] > 0
    <2>1. queue[m] \in Nat /\ queue'[m] \in Nat
      BY DEF TypeOK
    <2> QED BY <1>1, <2>1 DEF Safe
  <1>2. CASE Held(m)
    BY <1>2 DEF Safe, Held
  <1>3. CASE Kept(m)
    BY <1>3, KeptStays DEF Safe
  <1> QED BY <1>1, <1>2, <1>3 DEF Safe

LEMMA SafeStep ==
  ASSUME Custody, [Next]_vars, TypeOK'
  PROVE  \A m \in Messages : Safe(m) => Safe(m)'
  <1> USE DEF Custody
  <1>0. /\ queue \in [Messages -> Nat] /\ invalid \in [Messages -> Nat]
        /\ consumer \in [Consumers -> ConsumerState] /\ received \in [Events -> BOOLEAN]
    BY DEF TypeOK
  <1>1. ASSUME UNCHANGED <<queue, consumer, invalid, received>>
        PROVE  \A m \in Messages : Safe(m) => Safe(m)'
    BY <1>1 DEF Safe, Held, Kept
  <1>2. ASSUME NEW m, Enqueue(m), UNCHANGED <<consumer, invalid, received>>
        PROVE  \A n \in Messages : Safe(n) => Safe(n)'
    <2>1. \A n \in Messages : queue'[n] >= queue[n]
      BY <1>0, <1>2 DEF Enqueue
    <2>2. Remembers
      BY <1>0, <1>2 DEF Remembers
    <2> QED BY <1>2, <2>1, <2>2, SafeWhileHeld, Zenon
  <1>3. ASSUME NEW c \in Consumers, NEW phase, Turn(c, phase), Remembers, UNCHANGED queue
        PROVE  \A n \in Messages : Safe(n) => Safe(n)'
    <2>1. \A n \in Messages : queue'[n] >= queue[n]
      BY <1>0, <1>3
    <2>2. \A d \in Consumers : consumer'[d].held = consumer[d].held
                               /\ consumer'[d].msg = consumer[d].msg
      BY <1>0, <1>3 DEF Turn, ConsumerState
    <2> QED BY <1>3, <2>1, <2>2, SafeWhileHeld, Zenon
  <1>4. ASSUME NEW c \in Consumers, Close(c), Remembers
        PROVE  \A n \in Messages : Safe(n) => Safe(n)'
    <2> SUFFICES ASSUME NEW n \in Messages, Safe(n) PROVE Safe(n)'
      OBVIOUS
    <2>1. CASE queue[n] > 0
      BY <1>0, <1>4, <2>1 DEF Close, Safe
    <2>2. CASE Held(n)
      <3>1. PICK d \in Consumers : consumer[d].held /\ consumer[d].msg = n
        BY <2>2 DEF Held
      <3>2. CASE d = c
        BY <1>0, <1>4, <3>1, <3>2 DEF Close, Safe
      <3>3. CASE d # c
        BY <1>0, <1>4, <3>1, <3>3 DEF Close, Safe, Held
      <3> QED BY <3>2, <3>3
    <2>3. CASE Kept(n)
      BY <2>3, <1>4, KeptStays DEF Safe
    <2> QED BY <2>1, <2>2, <2>3 DEF Safe
  <1>5. ASSUME NEW c \in Consumers, NEW m \in Messages, Get(c, m)
        PROVE  \A n \in Messages : Safe(n) => Safe(n)'
    <2> SUFFICES ASSUME NEW n \in Messages, Safe(n) PROVE Safe(n)'
      OBVIOUS
    <2>1. CASE n = m
      BY <1>0, <1>5, <2>1 DEF Get, Safe, Held
    <2>2. CASE n # m /\ queue[n] > 0
      BY <1>0, <1>5, <2>2 DEF Get, Safe
    <2>3. CASE Held(n)
      <3>1. PICK d \in Consumers : consumer[d].held /\ consumer[d].msg = n
        BY <2>3 DEF Held
      <3>2. d # c
        <4>1. consumer[c].msg = Null
          BY <1>5 DEF Get, ConsumerOK, KnowsMessage
        <4> QED BY <3>1, <4>1, MessageFacts
      <3> QED BY <1>0, <1>5, <3>1, <3>2 DEF Get, Safe, Held
    <2>4. CASE Kept(n)
      BY <1>5, <2>4 DEF Get, Safe, Kept
    <2> QED BY <2>1, <2>2, <2>3, <2>4 DEF Safe
  <1>6. ASSUME NEW c \in Consumers, Ack(c)
        PROVE  \A n \in Messages : Safe(n) => Safe(n)'
    <2> SUFFICES ASSUME NEW n \in Messages, Safe(n) PROVE Safe(n)'
      OBVIOUS
    <2>1. CASE queue[n] > 0 \/ Kept(n)
      BY <1>6, <2>1 DEF Ack, Safe, Kept
    <2>2. CASE Held(n)
      <3>1. PICK d \in Consumers : consumer[d].held /\ consumer[d].msg = n
        BY <2>2 DEF Held
      <3>2. CASE d = c
        <4>1. Kept(n)
          BY <1>6, <3>1, <3>2 DEF Ack, MayAck, ConsumerOK, KnowsMessage
        <4> QED BY <1>6, <4>1 DEF Ack, Safe, Kept
      <3>3. CASE d # c
        BY <1>0, <1>6, <3>1, <3>3 DEF Ack, Safe, Held
      <3> QED BY <3>2, <3>3
    <2> QED BY <2>1, <2>2 DEF Safe
  <1>7. ASSUME NEW c \in Consumers, ReturnInFlight(c)
        PROVE  \A n \in Messages : Safe(n) => Safe(n)'
    <2> SUFFICES ASSUME NEW n \in Messages, Safe(n) PROVE Safe(n)'
      OBVIOUS
    <2>1. consumer[c].msg \in Messages
      BY <1>0, <1>7 DEF ReturnInFlight, ConsumerOK, KnowsMessage, ConsumerState
    <2>2. CASE queue[n] > 0 \/ Kept(n)
      BY <1>0, <1>7, <2>1, <2>2 DEF ReturnInFlight, Enqueue, Safe, Kept
    <2>3. CASE Held(n)
      <3>1. PICK d \in Consumers : consumer[d].held /\ consumer[d].msg = n
        BY <2>3 DEF Held
      <3>2. CASE d = c
        BY <1>0, <1>7, <2>1, <3>1, <3>2 DEF ReturnInFlight, Enqueue, Safe
      <3>3. CASE d # c
        BY <1>0, <1>7, <3>1, <3>3 DEF ReturnInFlight, Safe, Held
      <3> QED BY <3>2, <3>3
    <2> QED BY <2>2, <2>3 DEF Safe
  <1>8. ASSUME UNCHANGED <<invalid, received>> PROVE Remembers
    BY <1>0, <1>8 DEF Remembers
  <1>9. ASSUME NEW c \in Consumers, Quarantined(consumer[c].msg), UNCHANGED received
        PROVE Remembers
    BY <1>0, <1>9 DEF Remembers, Quarantined
  <1>10. ASSUME NEW c \in Consumers, CommitInbox(c) PROVE Remembers
    BY <1>0, <1>10 DEF Remembers, CommitInbox
  <1>11. ASSUME NEW c \in Consumers, Consume(c)
         PROVE  \A n \in Messages : Safe(n) => Safe(n)'
    BY <1>3, <1>6, <1>8, <1>9, <1>10, <1>11, Zenon
       DEF Consume, OpenInbox, SkipDuplicate, RejectMessage, CommitInbox, QuarantineConfirmed
  <1>12. ASSUME NEW p \in Publishers, Publish(p)
         PROVE  \A n \in Messages : Safe(n) => Safe(n)'
    BY <1>1, <1>2, <1>12, Zenon
       DEF Publish, SelectBatch, CommitBatch, CommitLostBatch, PublishConfirmed
  <1>13. ASSUME Fail PROVE \A n \in Messages : Safe(n) => Safe(n)'
    BY <1>1, <1>2, <1>4, <1>7, <1>8, <1>9, <1>13, Zenon
       DEF Fail, PublisherFails, LoseTransaction, PublishUnconfirmed, ConsumerFails,
           QuarantineUnconfirmed
  <1>14. ASSUME NEW j \in Junk, InjectJunk(j)
         PROVE  \A n \in Messages : Safe(n) => Safe(n)'
    BY <1>2, <1>14, Zenon DEF InjectJunk, Enqueue
  <1>15. ASSUME NEW e \in Events, CommitEvent(e)
         PROVE  \A n \in Messages : Safe(n) => Safe(n)'
    BY <1>1, <1>15, Zenon DEF CommitEvent
  <1>16. CASE UNCHANGED vars
    BY <1>1, <1>16 DEF vars
  <1> QED BY <1>5, <1>11, <1>12, <1>13, <1>14, <1>15, <1>16 DEF Next

-----------------------------------------------------------------------------
(* What a consumer knows of its message, and what a message stands for.    *)

LEMMA CommittedStays ==
  ASSUME TypeOK, [Next]_vars, NEW e \in Events, outbox[e].committed
  PROVE  outbox'[e].committed
  <1>0. outbox \in [Events -> Row]
    BY DEF TypeOK
  <1>1. \A f \in Events : CommitEvent(f) => outbox'[e].committed
    BY <1>0 DEF CommitEvent, Row
  <1>2. ASSUME NEW p \in Publishers, CommitBatch(p) PROVE outbox'[e].committed
    <2>1. PICK n : n = outbox[e].attempts + 1
      OBVIOUS
    <2>2. \/ outbox'[e] = [outbox[e] EXCEPT !.published_at = TRUE, !.attempts = n]
          \/ outbox'[e] = outbox[e]
      BY <1>2, <2>1 DEF CommitBatch
    <2>3. [outbox[e] EXCEPT !.published_at = TRUE, !.attempts = n].committed
      BY <1>0 DEF Row
    <2> QED BY <2>2, <2>3
  <1>3. UNCHANGED outbox => outbox'[e].committed
    OBVIOUS
  <1> QED BY <1>1, <1>2, <1>3, Zenon
       DEF Next, InjectJunk, Publish, SelectBatch, CommitLostBatch, PublishConfirmed, Consume,
           OpenInbox, SkipDuplicate, CommitInbox, RejectMessage, QuarantineConfirmed, Ack, Get,
           Fail, PublisherFails, LoseTransaction, PublishUnconfirmed, ConsumerFails,
           ReturnInFlight, QuarantineUnconfirmed, vars

LEMMA RealStep ==
  ASSUME Custody, [Next]_vars, TypeOK'
  PROVE  Real'
  <1> USE DEF Custody
  <1>0. /\ queue \in [Messages -> Nat] /\ outbox \in [Events -> Row]
        /\ consumer \in [Consumers -> ConsumerState]
    BY DEF TypeOK
  <1>1. ASSUME NEW e \in Events, outbox[e].committed PROVE outbox'[e].committed
    BY <1>1, CommittedStays
  <1> SUFFICES ASSUME NEW e \in Events
               PROVE  /\ queue'[e] > 0 => outbox'[e].committed
                      /\ \A c \in Consumers : consumer'[c].msg = e => outbox'[e].committed
    BY DEF Real
  <1>2. CASE queue[e] > 0 \/ (\E c \in Consumers : consumer[c].msg = e) \/ outbox[e].committed
    BY <1>1, <1>2 DEF Real
  <1> SUFFICES ASSUME queue[e] = 0, \A c \in Consumers : consumer[c].msg # e,
                      ~outbox[e].committed
               PROVE  queue'[e] = 0 /\ \A c \in Consumers : consumer'[c].msg # e
    BY <1>0, <1>2, MessageFacts
  <1>3. e \in Messages /\ e # Null
    BY MessageFacts
  <1>4. ASSUME NEW m \in Messages \cup {Null}, m # e, Enqueue(m) PROVE queue'[e] = 0
    BY <1>0, <1>3, <1>4 DEF Enqueue
  <1>5. ASSUME NEW p \in Publishers, NEW f \in publisher[p].batch PROVE f # e /\ f \in Messages
    BY <1>5, MessageFacts DEF PublisherOK, TypeOK, PublisherState
  <1>6. ASSUME NEW c \in Consumers, Close(c)
        PROVE  queue'[e] = 0 /\ \A d \in Consumers : consumer'[d].msg # e
    BY <1>0, <1>3, <1>6 DEF Close, NoMessage
  <1>7. ASSUME NEW c \in Consumers, NEW phase, Turn(c, phase)
        PROVE  \A d \in Consumers : consumer'[d].msg # e
    BY <1>0, <1>7 DEF Turn, ConsumerState
  <1>8. ASSUME NEW f \in Events, CommitEvent(f) PROVE queue'[e] = 0 /\ consumer' = consumer
    BY <1>8 DEF CommitEvent
  <1>9. ASSUME NEW j \in Junk, InjectJunk(j) PROVE queue'[e] = 0 /\ consumer' = consumer
    BY <1>4, <1>9, MessageFacts DEF InjectJunk, Enqueue
  <1>10. ASSUME NEW p \in Publishers, Publish(p) PROVE queue'[e] = 0 /\ consumer' = consumer
    <2>1. ASSUME NEW f \in Events, PublishConfirmed(p, f) PROVE queue'[e] = 0 /\ consumer' = consumer
      <3>1. f \in publisher[p].batch
        BY <2>1 DEF PublishConfirmed, IsNext
      <3> QED BY <1>4, <1>5, <2>1, <3>1 DEF PublishConfirmed
    <2> QED BY <1>10, <2>1 DEF Publish, SelectBatch, CommitBatch, CommitLostBatch
  <1>11. ASSUME NEW c \in Consumers, Consume(c)
         PROVE  queue'[e] = 0 /\ \A d \in Consumers : consumer'[d].msg # e
    <2>1. CASE Ack(c)
      BY <1>0, <1>3, <2>1 DEF Ack, NoMessage
    <2> QED BY <1>7, <1>11, <2>1, Zenon
         DEF Consume, OpenInbox, SkipDuplicate, CommitInbox, RejectMessage, QuarantineConfirmed
  <1>12. ASSUME NEW c \in Consumers, NEW m \in Messages, Get(c, m)
         PROVE  queue'[e] = 0 /\ \A d \in Consumers : consumer'[d].msg # e
    <2>1. m # e
      BY <1>0, <1>12 DEF Get, Ready
    <2> QED BY <1>0, <1>3, <1>12, <2>1 DEF Get
  <1>13. ASSUME Fail
         PROVE  queue'[e] = 0 /\ \A d \in Consumers : consumer'[d].msg # e
    <2>1. ASSUME NEW p \in Publishers, NEW f \in Events, PublishUnconfirmed(p, f)
          PROVE queue'[e] = 0 /\ consumer' = consumer
      <3>1. f \in publisher[p].batch
        BY <2>1 DEF PublishUnconfirmed, IsNext
      <3> QED BY <1>4, <1>5, <2>1, <3>1 DEF PublishUnconfirmed
    <2>2. ASSUME NEW c \in Consumers, ReturnInFlight(c)
          PROVE  queue'[e] = 0 /\ \A d \in Consumers : consumer'[d].msg # e
      <3>1. consumer[c].msg \in Messages \cup {Null} /\ consumer[c].msg # e
        BY <1>0 DEF ConsumerState
      <3>2. queue'[e] = 0
        BY <1>4, <2>2, <3>1 DEF ReturnInFlight
      <3> QED BY <1>0, <2>2, <3>2 DEF ReturnInFlight, ConsumerState
    <2>3. ASSUME NEW c \in Consumers, ConsumerFails(c) \/ QuarantineUnconfirmed(c)
          PROVE  queue'[e] = 0 /\ \A d \in Consumers : consumer'[d].msg # e
      BY <1>6, <2>3, Zenon DEF ConsumerFails, QuarantineUnconfirmed
    <2>4. ASSUME NEW p \in Publishers, PublisherFails(p) \/ LoseTransaction(p)
          PROVE  queue'[e] = 0 /\ consumer' = consumer
      BY <2>4 DEF PublisherFails, LoseTransaction
    <2> QED BY <1>13, <2>1, <2>2, <2>3, <2>4 DEF Fail
  <1>14. CASE UNCHANGED vars
    BY <1>14 DEF vars
  <1> QED BY <1>8, <1>9, <1>10, <1>11, <1>12, <1>13, <1>14 DEF Next

LEMMA ConsumerStep ==
  ASSUME Custody, [Next]_vars, TypeOK'
  PROVE  ConsumerOK' /\ OneInbox' /\ OnlyJunkQuarantined'
  <1> USE DEF Custody
  <1>0. /\ invalid \in [Messages -> Nat] /\ received \in [Events -> BOOLEAN]
        /\ consumer \in [Consumers -> ConsumerState]
        /\ \A c \in Consumers : consumer[c].msg \in Messages \cup {Null}
    BY DEF TypeOK, ConsumerState
  <1>1. ASSUME UNCHANGED <<invalid, received>> PROVE Remembers
    BY <1>0, <1>1 DEF Remembers
  <1>2. ASSUME NEW c \in Consumers, Remembers, consumer'[c] = consumer[c],
               consumer[c].phase = "inbox" => ~received'[consumer[c].msg]
        PROVE  KnowsMessage(c)'
    <2>1. PICK m : m = consumer[c].msg
      OBVIOUS
    <2>2. consumer[c].phase = "handled" => m \in Messages /\ Kept(m)
      BY <1>0, <2>1 DEF ConsumerOK, KnowsMessage
    <2>3. consumer[c].phase = "handled" => Kept(m)'
      BY <1>2, <2>2, KeptStays
    <2>4. consumer'[c].msg = m
      BY <1>2, <2>1
    <2>5. consumer[c].phase = "handled" => Kept(consumer[c].msg)'
      BY <2>3, <2>4 DEF Kept
    <2> QED BY <1>2, <2>5 DEF ConsumerOK, KnowsMessage
  <1>3. ASSUME NEW c \in Consumers, Remembers, UNCHANGED received,
               \A d \in Consumers \ {c} : consumer'[d] = consumer[d],
               KnowsMessage(c)',
               consumer'[c].phase = "inbox" => InboxFree(consumer'[c].msg)
        PROVE  ConsumerOK' /\ OneInbox'
    <2>1. \A d \in Consumers \ {c} : KnowsMessage(d)'
      BY <1>2, <1>3 DEF ConsumerOK, KnowsMessage
    <2>2. ConsumerOK'
      BY <1>3, <2>1 DEF ConsumerOK
    <2>3. OneInbox'
      BY <1>3 DEF OneInbox, InboxFree
    <2> QED BY <2>2, <2>3
  <1>4. ASSUME NEW c \in Consumers, consumer' = [consumer EXCEPT ![c] = NoMessage],
               Remembers, UNCHANGED received
        PROVE  ConsumerOK' /\ OneInbox'
    <2>1. KnowsMessage(c)'
      BY <1>0, <1>4 DEF KnowsMessage, NoMessage
    <2>2. consumer'[c].phase = "idle"
      BY <1>0, <1>4 DEF NoMessage
    <2>3. \A d \in Consumers \ {c} : consumer'[d] = consumer[d]
      BY <1>0, <1>4
    <2> QED BY <1>3, <1>4, <2>1, <2>2, <2>3
  <1>5. ASSUME NEW c \in Consumers, NEW phase, Turn(c, phase)
        PROVE  /\ \A d \in Consumers \ {c} : consumer'[d] = consumer[d]
               /\ consumer'[c].phase = phase
               /\ consumer'[c].msg = consumer[c].msg
               /\ consumer'[c].held = consumer[c].held
    BY <1>0, <1>5 DEF Turn, ConsumerState
  <1>6. ASSUME NEW c \in Consumers, consumer[c].phase = "rejected", Quarantined(consumer[c].msg)
        PROVE  OnlyJunkQuarantined' /\ invalid'[consumer[c].msg] > 0
    <2>1. consumer[c].msg \in Messages \ Events
      BY <1>0, <1>6 DEF ConsumerOK, KnowsMessage
    <2>2. invalid'[consumer[c].msg] = invalid[consumer[c].msg] + 1
      BY <1>0, <1>6, <2>1 DEF Quarantined
    <2>3. \A e \in Events : invalid'[e] = invalid[e]
      BY <1>0, <1>6, <2>1, MessageFacts DEF Quarantined
    <2> QED BY <1>0, <2>1, <2>2, <2>3 DEF OnlyJunkQuarantined
  <1>7. ASSUME NEW c \in Consumers, Quarantined(consumer[c].msg), UNCHANGED received
        PROVE  Remembers
    BY <1>0, <1>7 DEF Remembers, Quarantined
  <1>8. ASSUME UNCHANGED <<consumer, received, invalid>>
        PROVE  ConsumerOK' /\ OneInbox' /\ OnlyJunkQuarantined'
    BY <1>8 DEF ConsumerOK, KnowsMessage, Kept, OneInbox, OnlyJunkQuarantined
  <1>9. ASSUME UNCHANGED invalid PROVE OnlyJunkQuarantined'
    BY <1>9 DEF OnlyJunkQuarantined
  <1>10. ASSUME NEW c \in Consumers, Consume(c)
         PROVE  ConsumerOK' /\ OneInbox' /\ OnlyJunkQuarantined'
    <2>1. CASE OpenInbox(c)
      <3>1. consumer[c].msg \in Events /\ IdOf[consumer[c].msg] = consumer[c].msg
        BY <2>1, MessageFacts DEF OpenInbox, IsEvent
      <3>2. InboxFree(consumer[c].msg) /\ ~received[consumer[c].msg]
        BY <2>1, <3>1, MessageFacts DEF OpenInbox, Unknown
      <3>3. KnowsMessage(c)'
        BY <1>5, <2>1, <3>1, <3>2 DEF OpenInbox, ConsumerOK, KnowsMessage
      <3> QED BY <1>1, <1>3, <1>5, <1>9, <2>1, <3>2, <3>3 DEF OpenInbox
    <2>2. CASE SkipDuplicate(c)
      <3>1. Kept(consumer[c].msg)
        BY <2>2 DEF SkipDuplicate, Known, Kept
      <3>2. Kept(consumer[c].msg)'
        BY <1>5, <2>2, <3>1 DEF SkipDuplicate, Kept
      <3>3. KnowsMessage(c)'
        BY <1>5, <2>2, <3>2 DEF SkipDuplicate, ConsumerOK, KnowsMessage
      <3> QED BY <1>1, <1>3, <1>5, <1>9, <2>2, <3>3 DEF SkipDuplicate
    <2>3. CASE RejectMessage(c)
      <3>1. consumer[c].msg \notin Events
        BY <2>3 DEF RejectMessage, IsEvent, Real
      <3>2. KnowsMessage(c)'
        BY <1>5, <2>3, <3>1 DEF RejectMessage, ConsumerOK, KnowsMessage
      <3> QED BY <1>1, <1>3, <1>5, <1>9, <2>3, <3>2 DEF RejectMessage
    <2>4. CASE QuarantineConfirmed(c)
      <3>1. Remembers /\ OnlyJunkQuarantined' /\ invalid'[consumer[c].msg] > 0
        BY <1>6, <1>7, <2>4 DEF QuarantineConfirmed
      <3>2. Kept(consumer[c].msg)'
        BY <1>5, <2>4, <3>1 DEF QuarantineConfirmed, Kept
      <3>3. KnowsMessage(c)'
        BY <1>5, <2>4, <3>2 DEF QuarantineConfirmed, ConsumerOK, KnowsMessage
      <3> QED BY <1>3, <1>5, <2>4, <3>1, <3>3 DEF QuarantineConfirmed
    <2>5. CASE Ack(c)
      BY <1>1, <1>4, <1>9, <2>5 DEF Ack
    <2>6. CASE CommitInbox(c)
      <3>1. consumer[c].phase = "inbox" /\ consumer[c].msg \in Events
        BY <2>6 DEF CommitInbox, ConsumerOK, KnowsMessage
      <3>2. received'[consumer[c].msg] /\ Remembers
        BY <1>0, <2>6, <3>1 DEF CommitInbox, Remembers
      <3>3. Kept(consumer[c].msg)'
        BY <1>5, <2>6, <3>1, <3>2, MessageFacts DEF CommitInbox, Kept
      <3>4. KnowsMessage(c)'
        BY <1>5, <2>6, <3>1, <3>3 DEF CommitInbox, ConsumerOK, KnowsMessage
      <3>5. \A d \in Consumers \ {c} : KnowsMessage(d)'
        <4> SUFFICES ASSUME NEW d \in Consumers \ {c} PROVE KnowsMessage(d)'
          OBVIOUS
        <4>1. consumer[d].phase = "inbox" => consumer[d].msg # consumer[c].msg
          BY <3>1 DEF OneInbox
        <4>2. consumer[d].phase = "inbox" => ~received'[consumer[d].msg]
          BY <1>0, <2>6, <4>1 DEF CommitInbox, ConsumerOK, KnowsMessage
        <4> QED BY <1>2, <1>5, <2>6, <3>2, <4>2 DEF CommitInbox
      <3>6. ConsumerOK'
        BY <3>4, <3>5 DEF ConsumerOK
      <3>7. OneInbox'
        BY <1>5, <2>6 DEF CommitInbox, OneInbox
      <3> QED BY <1>9, <2>6, <3>6, <3>7 DEF CommitInbox
    <2> QED BY <1>10, <2>1, <2>2, <2>3, <2>4, <2>5, <2>6 DEF Consume
  <1>11. ASSUME NEW c \in Consumers, NEW m \in Messages, Get(c, m)
         PROVE  ConsumerOK' /\ OneInbox' /\ OnlyJunkQuarantined'
    <2>1. consumer'[c] = [phase |-> "got", msg |-> m, held |-> TRUE]
      BY <1>0, <1>11 DEF Get
    <2>2. KnowsMessage(c)'
      BY <2>1, MessageFacts DEF KnowsMessage
    <2>3. \A d \in Consumers \ {c} : consumer'[d] = consumer[d]
      BY <1>0, <1>11 DEF Get
    <2> QED BY <1>1, <1>3, <1>9, <1>11, <2>1, <2>2, <2>3 DEF Get
  <1>12. ASSUME Fail PROVE ConsumerOK' /\ OneInbox' /\ OnlyJunkQuarantined'
    <2>1. ASSUME NEW p \in Publishers, NEW e \in Events,
                 PublisherFails(p) \/ LoseTransaction(p) \/ PublishUnconfirmed(p, e)
          PROVE  ConsumerOK' /\ OneInbox' /\ OnlyJunkQuarantined'
      BY <1>8, <2>1, Zenon DEF PublisherFails, LoseTransaction, PublishUnconfirmed
    <2>2. ASSUME NEW p \in Publishers, PublisherFails(p) \/ LoseTransaction(p)
          PROVE  ConsumerOK' /\ OneInbox' /\ OnlyJunkQuarantined'
      BY <1>8, <2>2, Zenon DEF PublisherFails, LoseTransaction
    <2>3. ASSUME NEW c \in Consumers, ConsumerFails(c)
          PROVE  ConsumerOK' /\ OneInbox' /\ OnlyJunkQuarantined'
      BY <1>1, <1>4, <1>9, <2>3 DEF ConsumerFails, Close
    <2>4. ASSUME NEW c \in Consumers, QuarantineUnconfirmed(c)
          PROVE  ConsumerOK' /\ OneInbox' /\ OnlyJunkQuarantined'
      BY <1>4, <1>6, <1>7, <2>4 DEF QuarantineUnconfirmed, Close
    <2>5. ASSUME NEW c \in Consumers, ReturnInFlight(c)
          PROVE  ConsumerOK' /\ OneInbox' /\ OnlyJunkQuarantined'
      <3>1. /\ \A d \in Consumers \ {c} : consumer'[d] = consumer[d]
            /\ consumer'[c].phase = consumer[c].phase
            /\ consumer'[c].msg = consumer[c].msg
            /\ ~consumer'[c].held
        BY <1>0, <2>5 DEF ReturnInFlight, ConsumerState
      <3>2. ConsumerOK'
        BY <2>5, <3>1 DEF ReturnInFlight, ConsumerOK, KnowsMessage, Kept
      <3>3. OneInbox'
        BY <3>1 DEF OneInbox
      <3> QED BY <1>9, <2>5, <3>2, <3>3 DEF ReturnInFlight
    <2> QED BY <1>12, <2>1, <2>2, <2>3, <2>4, <2>5 DEF Fail
  <1>13. ASSUME NEW p \in Publishers, Publish(p)
         PROVE  ConsumerOK' /\ OneInbox' /\ OnlyJunkQuarantined'
    BY <1>8, <1>13, Zenon DEF Publish, SelectBatch, CommitBatch, CommitLostBatch, PublishConfirmed
  <1>14. ASSUME NEW e \in Events, CommitEvent(e)
         PROVE  ConsumerOK' /\ OneInbox' /\ OnlyJunkQuarantined'
    BY <1>8, <1>14, Zenon DEF CommitEvent
  <1>15. ASSUME NEW j \in Junk, InjectJunk(j)
         PROVE  ConsumerOK' /\ OneInbox' /\ OnlyJunkQuarantined'
    BY <1>8, <1>15, Zenon DEF InjectJunk
  <1>16. CASE UNCHANGED vars
    BY <1>8, <1>16 DEF vars
  <1> QED BY <1>10, <1>11, <1>12, <1>13, <1>14, <1>15, <1>16 DEF Next

-----------------------------------------------------------------------------
(* What a publisher counts as sent, and what is marked as published.       *)

LEMMA PublisherStep ==
  ASSUME Custody, [Next]_vars, TypeOK'
  PROVE  PublisherOK' /\ PublishedSafe' /\ InjectedSafe'
  <1> USE DEF Custody
  <1>0. /\ queue \in [Messages -> Nat] /\ outbox \in [Events -> Row]
        /\ publisher \in [Publishers -> PublisherState]
        /\ \A p \in Publishers : publisher[p].batch \subseteq Events
    BY DEF TypeOK, PublisherState
  <1>1. /\ \A e \in Events : Safe(e) => Safe(e)'
        /\ \A j \in Junk : Safe(j) => Safe(j)'
    BY SafeStep, MessageFacts
  <1>2. \A e \in Events : outbox[e].committed => outbox'[e].committed
    BY CommittedStays
  <1> DEFINE Good(q) ==
        /\ q.sent \subseteq q.batch
        /\ q.batch \subseteq Events
        /\ \A e \in q.batch : outbox[e].committed
  <1>3. ASSUME NEW p \in Publishers
        PROVE  Good(publisher[p]) /\ \A e \in publisher[p].sent : Safe(e)
    BY <1>0 DEF PublisherOK
  <1>4. ASSUME NEW p \in Publishers, NEW q, Good(q),
               \A e \in q.sent \ publisher[p].sent : Safe(e)',
               publisher' = [publisher EXCEPT ![p] = q]
        PROVE  PublisherOK'
    <2> SUFFICES ASSUME NEW r \in Publishers
                 PROVE  /\ publisher'[r].sent \subseteq publisher'[r].batch
                        /\ \A e \in publisher'[r].batch : outbox'[e].committed
                        /\ \A e \in publisher'[r].sent : Safe(e)'
      BY DEF PublisherOK
    <2>1. CASE r = p
      <3>1. publisher'[r] = q
        BY <1>0, <1>4, <2>1
      <3>2. \A e \in q.sent : Safe(e)'
        BY <1>1, <1>3, <1>4
      <3> QED BY <1>2, <1>4, <3>1, <3>2
    <2>2. CASE r # p
      <3>1. publisher'[r] = publisher[r]
        BY <1>0, <1>4, <2>2
      <3> QED BY <1>1, <1>2, <1>3, <3>1
    <2> QED BY <2>1, <2>2
  <1>5. UNCHANGED publisher => PublisherOK'
    <2> SUFFICES ASSUME UNCHANGED publisher, NEW r \in Publishers
                 PROVE  /\ publisher[r].sent \subseteq publisher[r].batch
                        /\ \A e \in publisher[r].batch : outbox'[e].committed
                        /\ \A e \in publisher[r].sent : Safe(e)'
      BY DEF PublisherOK
    <2> QED BY <1>1, <1>2, <1>3
  <1>6. \A p \in Publishers : RollBack(p) => PublisherOK'
    <2> SUFFICES ASSUME NEW p \in Publishers, RollBack(p) PROVE PublisherOK'
      OBVIOUS
    <2>1. Good(NoBatch) /\ NoBatch.sent = {}
      BY DEF NoBatch
    <2> HIDE DEF Good
    <2> QED BY <1>4, <2>1 DEF RollBack
  <1>7. ASSUME NEW p \in Publishers, NEW e \in Events, IsNext(p, e), Enqueue(e)
        PROVE  Safe(e)' /\ e \in publisher[p].batch
    <2>1. queue'[e] > 0
      BY <1>0, <1>7, MessageFacts DEF Enqueue
    <2> QED BY <1>7, <2>1 DEF IsNext, Safe
  <1>8. UNCHANGED outbox => PublishedSafe'
    BY <1>1 DEF PublishedSafe
  <1>9. UNCHANGED injected => InjectedSafe'
    BY <1>1 DEF InjectedSafe, TypeOK
  <1>10. ASSUME NEW p \in Publishers, Publish(p)
         PROVE  PublisherOK' /\ PublishedSafe' /\ InjectedSafe'
    <2>1. CASE SelectBatch(p)
      <3> DEFINE q == [NoBatch EXCEPT !.batch = Batch, !.txn = "open"]
      <3>1. Good(q) /\ q.sent = {}
        BY DEF NoBatch, Batch, Publishable
      <3>2. publisher' = [publisher EXCEPT ![p] = q]
        BY <2>1 DEF SelectBatch
      <3> HIDE DEF Good, q
      <3>3. PublisherOK'
        BY <1>4, <3>1, <3>2
      <3> QED BY <1>8, <1>9, <2>1, <3>3 DEF SelectBatch, history
    <2>2. CASE CommitBatch(p)
      <3>1. Good(NoBatch) /\ NoBatch.sent = {}
        BY DEF NoBatch
      <3> HIDE DEF Good
      <3>2. PublisherOK'
        BY <1>4, <2>2, <3>1 DEF CommitBatch
      <3>3. PublishedSafe'
        <4> SUFFICES ASSUME NEW e \in Events, outbox'[e].published_at PROVE Safe(e)'
          BY DEF PublishedSafe
        <4>1. CASE e \in publisher[p].batch
          BY <1>1, <2>2, <4>1 DEF CommitBatch, Complete, PublisherOK
        <4>2. CASE e \notin publisher[p].batch
          BY <1>1, <2>2, <4>2 DEF CommitBatch, PublishedSafe
        <4> QED BY <4>1, <4>2
      <3> QED BY <1>9, <2>2, <3>2, <3>3 DEF CommitBatch, history
    <2>3. CASE CommitLostBatch(p)
      <3>1. Good(NoBatch) /\ NoBatch.sent = {}
        BY DEF NoBatch
      <3> HIDE DEF Good
      <3>2. PublisherOK'
        BY <1>4, <2>3, <3>1 DEF CommitLostBatch
      <3> QED BY <1>8, <1>9, <2>3, <3>2 DEF CommitLostBatch, history
    <2>4. ASSUME NEW e \in Events, PublishConfirmed(p, e)
          PROVE  PublisherOK' /\ PublishedSafe' /\ InjectedSafe'
      <3> DEFINE q == [publisher[p] EXCEPT !.sent = @ \cup {e}]
      <3>1. Safe(e)' /\ e \in publisher[p].batch
        BY <1>7, <2>4 DEF PublishConfirmed
      <3>2. q.sent = publisher[p].sent \cup {e} /\ q.batch = publisher[p].batch
        BY <1>0 DEF PublisherState
      <3>3. Good(q)
        BY <1>3, <3>1, <3>2
      <3>4. \A f \in q.sent \ publisher[p].sent : Safe(f)'
        BY <3>1, <3>2
      <3>5. publisher' = [publisher EXCEPT ![p] = q]
        BY <1>0, <2>4 DEF PublishConfirmed
      <3> HIDE DEF Good, q
      <3>6. PublisherOK'
        BY <1>4, <3>3, <3>4, <3>5
      <3> QED BY <1>8, <1>9, <2>4, <3>6 DEF PublishConfirmed
    <2> QED BY <1>10, <2>1, <2>2, <2>3, <2>4 DEF Publish
  <1>11. ASSUME Fail PROVE PublisherOK' /\ PublishedSafe' /\ InjectedSafe'
    <2>1. ASSUME NEW p \in Publishers, LoseTransaction(p)
          PROVE  PublisherOK' /\ PublishedSafe' /\ InjectedSafe'
      <3> DEFINE q == [publisher[p] EXCEPT !.txn = "lost"]
      <3>1. q.sent = publisher[p].sent /\ q.batch = publisher[p].batch
        BY <1>0 DEF PublisherState
      <3>2. Good(q) /\ q.sent \ publisher[p].sent = {}
        BY <1>3, <3>1
      <3>3. publisher' = [publisher EXCEPT ![p] = q]
        BY <1>0, <2>1 DEF LoseTransaction
      <3> HIDE DEF Good, q
      <3>4. PublisherOK'
        BY <1>4, <3>2, <3>3
      <3> QED BY <1>8, <1>9, <2>1, <3>4 DEF LoseTransaction
    <2>2. ASSUME NEW p \in Publishers, PublisherFails(p)
          PROVE  PublisherOK' /\ PublishedSafe' /\ InjectedSafe'
      BY <1>6, <1>8, <1>9, <2>2 DEF PublisherFails
    <2>3. ASSUME NEW p \in Publishers, NEW e \in Events, PublishUnconfirmed(p, e)
          PROVE  PublisherOK' /\ PublishedSafe' /\ InjectedSafe'
      BY <1>6, <1>8, <1>9, <2>3 DEF PublishUnconfirmed
    <2>4. ASSUME NEW c \in Consumers,
                 ConsumerFails(c) \/ ReturnInFlight(c) \/ QuarantineUnconfirmed(c)
          PROVE  PublisherOK' /\ PublishedSafe' /\ InjectedSafe'
      BY <1>5, <1>8, <1>9, <2>4, Zenon
         DEF ConsumerFails, ReturnInFlight, QuarantineUnconfirmed, history
    <2> QED BY <1>11, <2>1, <2>2, <2>3, <2>4 DEF Fail
  <1>12. ASSUME NEW c \in Consumers, Consume(c) \/ \E m \in Messages : Get(c, m)
         PROVE  PublisherOK' /\ PublishedSafe' /\ InjectedSafe'
    BY <1>5, <1>8, <1>9, <1>12, Zenon
       DEF Consume, OpenInbox, SkipDuplicate, CommitInbox, RejectMessage, QuarantineConfirmed,
           Ack, Get, history
  <1>13. ASSUME NEW e \in Events, CommitEvent(e)
         PROVE  PublisherOK' /\ PublishedSafe' /\ InjectedSafe'
    <2>1. \A f \in Events : outbox'[f].published_at = outbox[f].published_at
      BY <1>0, <1>13 DEF CommitEvent, Row
    <2>2. PublishedSafe'
      BY <1>1, <2>1 DEF PublishedSafe
    <2> QED BY <1>5, <1>9, <1>13, <2>2 DEF CommitEvent, history
  <1>14. ASSUME NEW j \in Junk, InjectJunk(j)
         PROVE  PublisherOK' /\ PublishedSafe' /\ InjectedSafe'
    <2>1. queue'[j] > 0
      BY <1>0, <1>14, MessageFacts DEF InjectJunk
    <2>2. InjectedSafe'
      BY <1>1, <1>14, <2>1 DEF InjectJunk, InjectedSafe, Safe, TypeOK
    <2> QED BY <1>5, <1>8, <1>14, <2>2 DEF InjectJunk
  <1>15. CASE UNCHANGED vars
    BY <1>5, <1>8, <1>9, <1>15 DEF vars, history
  <1> QED BY <1>10, <1>11, <1>12, <1>13, <1>14, <1>15 DEF Next

-----------------------------------------------------------------------------
LEMMA CustodyInit == Init => Custody
  <1> SUFFICES ASSUME Init PROVE Custody
    OBVIOUS
  <1>1. TypeOK
    BY TypeInit
  <1>2. ConsumerOK /\ OneInbox
    BY DEF Init, NoMessage, ConsumerOK, KnowsMessage, OneInbox
  <1>3. Real /\ OnlyJunkQuarantined
    BY MessageFacts DEF Init, NoMessage, Real, OnlyJunkQuarantined
  <1>4. PublisherOK /\ PublishedSafe /\ InjectedSafe
    BY DEF Init, NoBatch, PublisherOK, PublishedSafe, InjectedSafe
  <1> QED BY <1>1, <1>2, <1>3, <1>4 DEF Custody

LEMMA CustodyStep == Custody /\ [Next]_vars => Custody'
  <1> SUFFICES ASSUME Custody, [Next]_vars PROVE Custody'
    OBVIOUS
  <1>1. TypeOK'
    BY TypeStep DEF Custody
  <1> QED BY <1>1, RealStep, ConsumerStep, PublisherStep DEF Custody

LEMMA CustodyInvariant == Spec => []Custody
  BY CustodyInit, CustodyStep, PTL DEF Spec

\* Records, batches, counters and the queue keep their types: in particular no
\* counter of messages ever falls below zero.
THEOREM TypeCorrect == Spec => []TypeOK
  <1>1. Custody => TypeOK
    BY DEF Custody
  <1> QED BY <1>1, CustodyInvariant, PTL

\* An event whose published_at is committed is in the queue, in flight, or its
\* rows are there, for any number of processes and failures.
THEOREM NoEventIsLost == Spec => []NoEventLost
  <1>1. Custody => NoEventLost
    <2> SUFFICES ASSUME Custody, NEW e \in Events, outbox[e].published_at
                 PROVE  queue[e] > 0 \/ InFlight(e) # {} \/ received[e]
      BY DEF NoEventLost
    <2>1. Safe(e) /\ invalid[e] = 0
      BY DEF Custody, PublishedSafe, OnlyJunkQuarantined
    <2>2. Held(e) => InFlight(e) # {}
      BY DEF Held, InFlight
    <2> QED BY <2>1, <2>2, MessageFacts DEF Safe, Kept
  <1> QED BY <1>1, CustodyInvariant, PTL

\* A message that is no event stays in the queue or in flight until it is in the
\* quarantine, or is skipped as the duplicate of an event that was received.
THEOREM NoJunkIsLost == Spec => []NoJunkLost
  <1>1. Custody => NoJunkLost
    <2> SUFFICES ASSUME Custody, NEW j \in injected
                 PROVE  \/ queue[j] > 0 \/ InFlight(j) # {} \/ invalid[j] > 0
                        \/ IdOf[j] # Null /\ received[IdOf[j]]
      BY DEF NoJunkLost
    <2>1. Safe(j)
      BY DEF Custody, InjectedSafe
    <2>2. Held(j) => InFlight(j) # {}
      BY DEF Held, InFlight
    <2> QED BY <2>1, <2>2 DEF Safe, Kept
  <1> QED BY <1>1, CustodyInvariant, PTL

\* No event of the outbox is ever taken for a malformed message.
THEOREM EventsStayOutOfQuarantine == Spec => []OnlyJunkQuarantined
  <1>1. Custody => OnlyJunkQuarantined
    BY DEF Custody
  <1> QED BY <1>1, CustodyInvariant, PTL

\* Consumers that hold the same event at once never both insert its rows.
THEOREM InsertsNeverCollide == Spec => []InboxNeverCollides
  <1>1. Custody => InboxNeverCollides
    BY DEF Custody, ConsumerOK, KnowsMessage, InboxNeverCollides
  <1> QED BY <1>1, CustodyInvariant, PTL

-----------------------------------------------------------------------------
(* How often an event is enqueued.  A publication is paid for by the       *)
(* transaction that holds the event: if it commits, by published_at, which *)
(* ends all publishing; if not, by rolledback.  One that was lost before   *)
(* the publication has paid in advance (Lost).                             *)

Owes(p, e) == publisher[p].txn = "lost" /\ e \in publisher[p].batch \ publisher[p].sent
Lost(e) == {p \in Publishers : Owes(p, e)}

Sends(p, e) == publisher[p].txn = "open" /\ e \in publisher[p].sent
Spent(e) == outbox[e].published_at \/ \E p \in Publishers : Sends(p, e)

Exclusive ==
    /\ \A p \in Publishers : publisher[p].txn = "none" => publisher[p].batch = {}
    /\ \A p \in Publishers : publisher[p].txn = "open" =>
          \A e \in publisher[p].batch : ~outbox[e].published_at
    /\ \A p, q \in Publishers :
          publisher[p].txn = "open" /\ publisher[q].txn = "open"
          /\ publisher[p].batch \cap publisher[q].batch # {} => p = q

Balance(e) ==
    enqueued[e] + Cardinality(Lost(e)) <= rolledback[e] + (IF Spent(e) THEN 1 ELSE 0)

Paid == Exclusive /\ \A e \in Events : Balance(e)

LEMMA LostFinite ==
  \A e \in Events : IsFiniteSet(Lost(e)) /\ Cardinality(Lost(e)) \in Nat
  <1>1. \A e \in Events : Lost(e) \subseteq Publishers
    BY DEF Lost
  <1> QED BY <1>1, PublisherAssumption, FS_Subset, FS_CardinalityType

LEMMA LostStep ==
  ASSUME NEW e \in Events, NEW p \in Publishers,
         \A q \in Publishers \ {p} : Owes(q, e)' <=> Owes(q, e)
  PROVE  /\ Cardinality(Lost(e))' \in Nat
         /\ (Owes(p, e)' <=> Owes(p, e)) => Cardinality(Lost(e))' = Cardinality(Lost(e))
         /\ ~Owes(p, e)' /\ Owes(p, e) => Cardinality(Lost(e))' = Cardinality(Lost(e)) - 1
         /\ Owes(p, e)' /\ ~Owes(p, e) => Cardinality(Lost(e))' = Cardinality(Lost(e)) + 1
  <1>0. IsFiniteSet(Lost(e)) /\ Cardinality(Lost(e)) \in Nat
    BY LostFinite
  <1>1. CASE Owes(p, e)' <=> Owes(p, e)
    <2>1. Lost(e)' = Lost(e)
      BY <1>1 DEF Lost
    <2> QED BY <1>0, <1>1, <2>1
  <1>2. CASE ~Owes(p, e)' /\ Owes(p, e)
    <2>1. Lost(e)' = Lost(e) \ {p} /\ p \in Lost(e)
      BY <1>2 DEF Lost
    <2>2. Cardinality(Lost(e) \ {p}) = Cardinality(Lost(e)) - 1
          /\ Cardinality(Lost(e) \ {p}) \in Nat
      BY <1>0, <2>1, FS_RemoveElement, FS_CardinalityType
    <2> QED BY <1>2, <2>1, <2>2
  <1>3. CASE Owes(p, e)' /\ ~Owes(p, e)
    <2>1. Lost(e)' = Lost(e) \cup {p} /\ p \notin Lost(e)
      BY <1>3 DEF Lost
    <2>2. Cardinality(Lost(e) \cup {p}) = Cardinality(Lost(e)) + 1
      BY <1>0, <2>1, FS_AddElement
    <2> QED BY <1>0, <1>3, <2>1, <2>2
  <1> QED BY <1>1, <1>2, <1>3

\* The publisher p moves, the others do not.
Moves(p, batch, sent, txn) ==
    /\ publisher'[p].batch = batch
    /\ publisher'[p].sent = sent
    /\ publisher'[p].txn = txn
    /\ \A q \in Publishers \ {p} : publisher'[q] = publisher[q]

LEMMA MovesFacts ==
  ASSUME TypeOK, NEW p \in Publishers
  PROVE  /\ SelectBatch(p) => Moves(p, Batch, {}, "open")
         /\ CommitBatch(p) => Moves(p, {}, {}, "none")
         /\ CommitLostBatch(p) => Moves(p, {}, {}, "none")
         /\ \A e \in Events : PublishConfirmed(p, e) =>
               Moves(p, publisher[p].batch, publisher[p].sent \cup {e}, publisher[p].txn)
         /\ RollBack(p) => Moves(p, {}, {}, "none")
         /\ LoseTransaction(p) => Moves(p, publisher[p].batch, publisher[p].sent, "lost")
  <1>0. publisher \in [Publishers -> PublisherState]
    BY DEF TypeOK
  <1>1. SelectBatch(p) => Moves(p, Batch, {}, "open")
    BY <1>0 DEF SelectBatch, NoBatch, Moves
  <1>2. publisher' = [publisher EXCEPT ![p] = NoBatch] => Moves(p, {}, {}, "none")
    BY <1>0 DEF NoBatch, Moves
  <1>3. ASSUME NEW e \in Events, PublishConfirmed(p, e)
        PROVE  Moves(p, publisher[p].batch, publisher[p].sent \cup {e}, publisher[p].txn)
    BY <1>0, <1>3 DEF PublishConfirmed, PublisherState, Moves
  <1>4. LoseTransaction(p) => Moves(p, publisher[p].batch, publisher[p].sent, "lost")
    BY <1>0 DEF LoseTransaction, PublisherState, Moves
  <1> QED BY <1>1, <1>2, <1>3, <1>4, Zenon DEF CommitBatch, CommitLostBatch, RollBack

LEMMA BalanceStep ==
  ASSUME Custody, Exclusive, [Next]_vars, TypeOK', NEW e \in Events, Balance(e)
  PROVE  Balance(e)'
  <1> DEFINE N == Cardinality(Lost(e))
  <1>0. /\ enqueued[e] \in Nat /\ rolledback[e] \in Nat /\ N \in Nat
        /\ enqueued \in [Events -> Nat]
        /\ outbox \in [Events -> Row]
        /\ TypeOK
    BY LostFinite DEF Custody, TypeOK
  <1>1. \A p \in Publishers : publisher[p].sent \subseteq publisher[p].batch
    BY DEF Custody, PublisherOK
  <1>2. ASSUME \A q \in Publishers : publisher'[q] = publisher[q],
               outbox'[e].published_at = outbox[e].published_at,
               enqueued'[e] = enqueued[e], rolledback'[e] = rolledback[e]
        PROVE  Balance(e)'
    <2>1. Lost(e)' = Lost(e) /\ (Spent(e)' <=> Spent(e))
      BY <1>2 DEF Lost, Owes, Spent, Sends
    <2> QED BY <1>2, <2>1 DEF Balance
  <1>3. ASSUME NEW p \in Publishers, NEW b, NEW s, NEW t, Moves(p, b, s, t)
        PROVE  /\ \A q \in Publishers \ {p} : Owes(q, e)' <=> Owes(q, e)
               /\ Owes(p, e)' <=> t = "lost" /\ e \in b \ s
               /\ \A q \in Publishers \ {p} : Sends(q, e)' <=> Sends(q, e)
               /\ Sends(p, e)' <=> t = "open" /\ e \in s
    BY <1>3 DEF Moves, Owes, Sends
  <1>4. ASSUME NEW p \in Publishers, RollBack(p), UNCHANGED outbox,
               enqueued'[e] = enqueued[e]
        PROVE  Balance(e)'
    <2>1. Moves(p, {}, {}, "none")
      BY <1>0, <1>4, MovesFacts
    <2>2. ~Owes(p, e)' /\ ~Sends(p, e)'
      BY <1>3, <2>1
    <2>3. N' \in Nat /\ N' <= N
      BY <1>0, <1>3, <2>1, <2>2, LostStep
    <2>4. CASE publisher[p].txn = "open" /\ e \in publisher[p].batch
      <3>1. rolledback'[e] = rolledback[e] + 1
        BY <1>4, <2>4 DEF RollBack, EndTransaction
      <3> QED BY <1>0, <1>4, <2>3, <3>1 DEF Balance
    <2>5. CASE ~(publisher[p].txn = "open" /\ e \in publisher[p].batch)
      <3>1. rolledback'[e] = rolledback[e]
        BY <1>4, <2>5 DEF RollBack, EndTransaction
      <3>2. ~Sends(p, e)
        BY <1>1, <2>5 DEF Sends
      <3>3. Spent(e)' <=> Spent(e)
        BY <1>3, <1>4, <2>1, <2>2, <3>2 DEF Spent
      <3> QED BY <1>0, <1>4, <2>3, <3>1, <3>3 DEF Balance
    <2> QED BY <2>4, <2>5
  <1>5. ASSUME NEW p \in Publishers, Publish(p) PROVE Balance(e)'
    <2>1. CASE SelectBatch(p)
      <3>1. Moves(p, Batch, {}, "open") /\ publisher[p].txn = "none"
        BY <1>0, <2>1, MovesFacts DEF SelectBatch
      <3>2. (Owes(p, e)' <=> Owes(p, e)) /\ (Sends(p, e)' <=> Sends(p, e))
        BY <1>3, <3>1 DEF Owes, Sends
      <3>3. N' = N
        BY <1>3, <3>1, <3>2, LostStep
      <3>4. Spent(e)' <=> Spent(e)
        BY <1>3, <2>1, <3>1, <3>2 DEF Spent, SelectBatch
      <3> QED BY <1>0, <2>1, <3>3, <3>4 DEF Balance, SelectBatch, history
    <2>2. CASE CommitBatch(p)
      <3>1. Moves(p, {}, {}, "none") /\ publisher[p].txn = "open"
            /\ publisher[p].sent = publisher[p].batch
        BY <1>0, <2>2, MovesFacts DEF CommitBatch, Complete
      <3>2. (Owes(p, e)' <=> Owes(p, e)) /\ ~Sends(p, e)'
        BY <1>3, <3>1 DEF Owes
      <3>3. N' = N
        BY <1>3, <3>1, <3>2, LostStep
      <3>4. CASE e \in publisher[p].batch
        <4>1. Spent(e)
          BY <3>1, <3>4 DEF Spent, Sends
        <4>2. outbox'[e].published_at
          <5>1. PICK n : n = outbox[e].attempts + 1
            OBVIOUS
          <5>2. outbox'[e] = [outbox[e] EXCEPT !.published_at = TRUE, !.attempts = n]
            BY <2>2, <3>4, <5>1 DEF CommitBatch
          <5>3. [outbox[e] EXCEPT !.published_at = TRUE, !.attempts = n].published_at
            BY <1>0 DEF Row
          <5> QED BY <5>2, <5>3
        <4>3. Spent(e)'
          BY <4>2 DEF Spent
        <4> QED BY <1>0, <2>2, <3>3, <4>1, <4>3 DEF Balance, CommitBatch, history
      <3>5. CASE e \notin publisher[p].batch
        <4>1. ~Sends(p, e) /\ outbox'[e] = outbox[e]
          BY <2>2, <3>1, <3>5 DEF Sends, CommitBatch
        <4>2. Spent(e)' <=> Spent(e)
          BY <1>3, <3>1, <3>2, <4>1 DEF Spent
        <4> QED BY <1>0, <2>2, <3>3, <4>2 DEF Balance, CommitBatch, history
      <3> QED BY <3>4, <3>5
    <2>3. CASE CommitLostBatch(p)
      <3>1. Moves(p, {}, {}, "none") /\ publisher[p].txn = "lost"
            /\ publisher[p].sent = publisher[p].batch
        BY <1>0, <2>3, MovesFacts DEF CommitLostBatch, Complete
      <3>2. (Owes(p, e)' <=> Owes(p, e)) /\ (Sends(p, e)' <=> Sends(p, e))
        BY <1>3, <3>1 DEF Owes, Sends
      <3>3. N' = N
        BY <1>3, <3>1, <3>2, LostStep
      <3>4. Spent(e)' <=> Spent(e)
        BY <1>3, <2>3, <3>1, <3>2 DEF Spent, CommitLostBatch
      <3> QED BY <1>0, <2>3, <3>3, <3>4 DEF Balance, CommitLostBatch, history
    <2>4. ASSUME NEW f \in Events, PublishConfirmed(p, f) PROVE Balance(e)'
      <3>1. /\ Moves(p, publisher[p].batch, publisher[p].sent \cup {f}, publisher[p].txn)
            /\ f \in publisher[p].batch \ publisher[p].sent
            /\ rolledback' = rolledback /\ outbox' = outbox
        BY <1>0, <2>4, MovesFacts DEF PublishConfirmed, IsNext
      <3>2. CASE f # e
        <4>1. (Owes(p, e)' <=> Owes(p, e)) /\ (Sends(p, e)' <=> Sends(p, e))
          BY <1>3, <3>1, <3>2 DEF Owes, Sends
        <4>2. N' = N
          BY <1>3, <3>1, <4>1, LostStep
        <4>3. Spent(e)' <=> Spent(e)
          BY <1>3, <3>1, <4>1 DEF Spent
        <4>4. enqueued'[e] = enqueued[e]
          BY <1>0, <2>4, <3>2 DEF PublishConfirmed
        <4> QED BY <1>0, <3>1, <4>2, <4>3, <4>4 DEF Balance
      <3>3. CASE f = e /\ publisher[p].txn = "open"
        <4>1. ~Spent(e)
          BY <1>1, <3>1, <3>3 DEF Spent, Sends, Exclusive
        <4>2. Sends(p, e)' /\ (Owes(p, e)' <=> Owes(p, e))
          BY <1>3, <3>1, <3>3 DEF Owes
        <4>3. N' = N
          BY <1>3, <3>1, <4>2, LostStep
        <4>4. Spent(e)'
          BY <4>2 DEF Spent
        <4>5. enqueued'[e] = enqueued[e] + 1
          BY <1>0, <2>4, <3>3 DEF PublishConfirmed
        <4> QED BY <1>0, <3>1, <4>1, <4>3, <4>4, <4>5 DEF Balance
      <3>4. CASE f = e /\ publisher[p].txn = "lost"
        <4>1. Owes(p, e) /\ ~Owes(p, e)' /\ ~Sends(p, e) /\ ~Sends(p, e)'
          BY <1>3, <3>1, <3>4 DEF Owes, Sends
        <4>2. N' = N - 1
          BY <1>3, <3>1, <4>1, LostStep
        <4>3. Spent(e)' <=> Spent(e)
          BY <1>3, <3>1, <4>1 DEF Spent
        <4>4. enqueued'[e] = enqueued[e] + 1
          BY <1>0, <2>4, <3>4 DEF PublishConfirmed
        <4> QED BY <1>0, <3>1, <4>2, <4>3, <4>4 DEF Balance
      <3>5. publisher[p].txn \in {"open", "lost"}
        BY <1>0, <3>1 DEF TypeOK, PublisherState, Exclusive
      <3> QED BY <3>2, <3>3, <3>4, <3>5
    <2> QED BY <1>5, <2>1, <2>2, <2>3, <2>4 DEF Publish
  <1>6. ASSUME Fail PROVE Balance(e)'
    <2>1. ASSUME NEW p \in Publishers, PublisherFails(p) PROVE Balance(e)'
      BY <1>4, <2>1 DEF PublisherFails
    <2>2. ASSUME NEW p \in Publishers, NEW f \in Events, PublishUnconfirmed(p, f)
          PROVE  Balance(e)'
      <3>1. /\ RollBack(p) /\ UNCHANGED outbox
            /\ f \in publisher[p].batch \ publisher[p].sent
            /\ Moves(p, {}, {}, "none")
        BY <1>0, <2>2, MovesFacts DEF PublishUnconfirmed, IsNext
      <3>2. CASE f # e
        <4>1. enqueued'[e] = enqueued[e]
          BY <1>0, <2>2, <3>2 DEF PublishUnconfirmed
        <4> QED BY <1>4, <3>1, <4>1
      <3>3. ASSUME f = e PROVE Balance(e)'
        <4>1. enqueued'[e] = enqueued[e] + 1
          BY <1>0, <2>2, <3>3 DEF PublishUnconfirmed
        <4>2. ~Sends(p, e) /\ ~Sends(p, e)' /\ ~Owes(p, e)'
          BY <1>3, <3>1, <3>3 DEF Sends
        <4>3. Spent(e)' <=> Spent(e)
          BY <1>3, <3>1, <4>2 DEF Spent
        <4>4. CASE publisher[p].txn = "open"
          <5>1. rolledback'[e] = rolledback[e] + 1
            BY <3>1, <3>3, <4>4 DEF RollBack, EndTransaction
          <5>2. N' = N
            BY <1>3, <3>1, <4>2, <4>4, LostStep DEF Owes
          <5> QED BY <1>0, <4>1, <4>3, <5>1, <5>2 DEF Balance
        <4>5. CASE publisher[p].txn = "lost"
          <5>1. rolledback'[e] = rolledback[e]
            BY <3>1, <4>5 DEF RollBack, EndTransaction
          <5>2. Owes(p, e)
            BY <3>1, <3>3, <4>5 DEF Owes
          <5>3. N' = N - 1
            BY <1>3, <3>1, <4>2, <5>2, LostStep
          <5> QED BY <1>0, <4>1, <4>3, <5>1, <5>3 DEF Balance
        <4>6. publisher[p].txn \in {"open", "lost"}
          BY <1>0, <3>1 DEF TypeOK, PublisherState, Exclusive
        <4> QED BY <4>4, <4>5, <4>6
      <3> QED BY <3>2, <3>3
    <2>3. ASSUME NEW p \in Publishers, LoseTransaction(p) PROVE Balance(e)'
      <3>1. /\ Moves(p, publisher[p].batch, publisher[p].sent, "lost")
            /\ publisher[p].txn = "open"
            /\ UNCHANGED <<outbox, enqueued>>
        BY <1>0, <2>3, MovesFacts DEF LoseTransaction
      <3>2. ~Sends(p, e)' /\ ~Owes(p, e)
            /\ (Owes(p, e)' <=> e \in publisher[p].batch \ publisher[p].sent)
        BY <1>3, <3>1 DEF Owes
      <3>3. CASE e \in publisher[p].batch
        <4>1. rolledback'[e] = rolledback[e] + 1
          BY <2>3, <3>1, <3>3 DEF LoseTransaction, EndTransaction
        <4>2. CASE e \in publisher[p].sent
          <5>1. N' = N
            BY <1>3, <3>1, <3>2, <4>2, LostStep
          <5> QED BY <1>0, <3>1, <4>1, <5>1 DEF Balance
        <4>3. CASE e \notin publisher[p].sent
          <5>1. N' = N + 1
            BY <1>3, <3>1, <3>2, <3>3, <4>3, LostStep
          <5>2. ~Sends(p, e)
            BY <4>3 DEF Sends
          <5>3. Spent(e)' <=> Spent(e)
            BY <1>3, <3>1, <3>2, <5>2 DEF Spent
          <5> QED BY <1>0, <3>1, <4>1, <5>1, <5>3 DEF Balance
        <4> QED BY <4>2, <4>3
      <3>4. CASE e \notin publisher[p].batch
        <4>1. rolledback'[e] = rolledback[e]
          BY <2>3, <3>4 DEF LoseTransaction, EndTransaction
        <4>2. N' = N
          BY <1>3, <3>1, <3>2, <3>4, LostStep
        <4>3. ~Sends(p, e)
          BY <1>1, <3>4 DEF Sends
        <4>4. Spent(e)' <=> Spent(e)
          BY <1>3, <3>1, <3>2, <4>3 DEF Spent
        <4> QED BY <1>0, <3>1, <4>1, <4>2, <4>4 DEF Balance
      <3> QED BY <3>3, <3>4
    <2>4. ASSUME NEW c \in Consumers,
                 ConsumerFails(c) \/ ReturnInFlight(c) \/ QuarantineUnconfirmed(c)
          PROVE  Balance(e)'
      <3>1. UNCHANGED <<outbox, publisher, enqueued, rolledback>>
        BY <2>4, Zenon DEF ConsumerFails, ReturnInFlight, QuarantineUnconfirmed, history
      <3> QED BY <1>2, <3>1
    <2> QED BY <1>6, <2>1, <2>2, <2>3, <2>4 DEF Fail
  <1>7. ASSUME NEW c \in Consumers, Consume(c) \/ \E m \in Messages : Get(c, m)
        PROVE  Balance(e)'
    <2>1. UNCHANGED <<outbox, publisher, enqueued, rolledback>>
      BY <1>7, Zenon
         DEF Consume, OpenInbox, SkipDuplicate, CommitInbox, RejectMessage, QuarantineConfirmed,
             Ack, Get, history
    <2> QED BY <1>2, <2>1
  <1>8. ASSUME NEW f \in Events, CommitEvent(f) PROVE Balance(e)'
    <2>1. outbox'[e].published_at = outbox[e].published_at
      BY <1>0, <1>8 DEF CommitEvent, Row
    <2> QED BY <1>2, <1>8, <2>1 DEF CommitEvent, history
  <1>9. ASSUME NEW j \in Junk, InjectJunk(j) PROVE Balance(e)'
    BY <1>2, <1>9 DEF InjectJunk
  <1>10. CASE UNCHANGED vars
    BY <1>2, <1>10 DEF vars, history
  <1> QED BY <1>5, <1>6, <1>7, <1>8, <1>9, <1>10 DEF Next

LEMMA ExclusiveStep ==
  ASSUME Custody, Exclusive, [Next]_vars, TypeOK'
  PROVE  Exclusive'
  <1>0. /\ outbox \in [Events -> Row]
        /\ publisher \in [Publishers -> PublisherState]
        /\ TypeOK
    BY DEF Custody, TypeOK
  <1> DEFINE SamePublished == \A e \in Events : outbox'[e].published_at = outbox[e].published_at
             Alone(p, e) == /\ ~outbox'[e].published_at
                            /\ \A q \in Publishers \ {p} :
                                  ~(publisher[q].txn = "open" /\ e \in publisher[q].batch)
  <1>1. \A p \in Publishers : publisher[p].batch \subseteq Events
    BY <1>0 DEF PublisherState
  <1>2. ASSUME NEW p \in Publishers, NEW b, NEW s, NEW t, Moves(p, b, s, t),
               t = "none" => b = {},
               t = "open" => \A e \in b : Alone(p, e),
               \A q \in Publishers \ {p} : publisher[q].txn = "open" =>
                  \A e \in publisher[q].batch : ~outbox'[e].published_at
        PROVE  Exclusive'
    <2>1. \A q \in Publishers : publisher'[q].txn = "none" => publisher'[q].batch = {}
      BY <1>2 DEF Moves, Exclusive
    <2>2. \A q \in Publishers : publisher'[q].txn = "open" =>
              \A e \in publisher'[q].batch : ~outbox'[e].published_at
      BY <1>2 DEF Moves
    <2>3. ASSUME NEW q \in Publishers, NEW r \in Publishers,
                 publisher'[q].txn = "open", publisher'[r].txn = "open",
                 publisher'[q].batch \cap publisher'[r].batch # {}
          PROVE  q = r
      BY <1>2, <2>3 DEF Moves, Exclusive
    <2> QED BY <2>1, <2>2, <2>3 DEF Exclusive
  <1>3. ASSUME SamePublished, NEW q \in Publishers, publisher[q].txn = "open",
               NEW e \in publisher[q].batch
        PROVE  ~outbox'[e].published_at
    BY <1>1, <1>3 DEF Exclusive
  <1>4. ASSUME NEW p \in Publishers, NEW s, NEW t, SamePublished,
               Moves(p, publisher[p].batch, s, t), t # "none",
               t = "open" => publisher[p].txn = "open"
        PROVE  Exclusive'
    <2>1. ASSUME t = "open", NEW e \in publisher[p].batch PROVE Alone(p, e)
      BY <1>3, <1>4, <2>1 DEF Exclusive
    <2> HIDE DEF Alone
    <2> QED BY <1>2, <1>3, <1>4, <2>1
  <1>5. ASSUME NEW p \in Publishers, RollBack(p), SamePublished PROVE Exclusive'
    <2>1. Moves(p, {}, {}, "none")
      BY <1>0, <1>5, MovesFacts
    <2> QED BY <1>2, <1>3, <1>5, <2>1
  <1>6. ASSUME \A q \in Publishers : publisher'[q] = publisher[q], SamePublished
        PROVE  Exclusive'
    BY <1>1, <1>6 DEF Exclusive
  <1>7. ASSUME UNCHANGED outbox PROVE SamePublished
    BY <1>7
  <1>8. ASSUME NEW p \in Publishers, Publish(p) PROVE Exclusive'
    <2>1. CASE SelectBatch(p)
      <3>1. Moves(p, Batch, {}, "open") /\ SamePublished
        BY <1>0, <1>7, <2>1, MovesFacts DEF SelectBatch
      <3>2. ASSUME NEW e \in Batch PROVE Alone(p, e)
        BY <3>1 DEF Batch, Publishable, Locked
      <3> HIDE DEF Alone
      <3> QED BY <1>2, <1>3, <3>1, <3>2
    <2>2. CASE CommitBatch(p)
      <3>1. Moves(p, {}, {}, "none") /\ publisher[p].txn = "open"
        BY <1>0, <2>2, MovesFacts DEF CommitBatch
      <3>2. ASSUME NEW q \in Publishers \ {p}, publisher[q].txn = "open",
                   NEW e \in publisher[q].batch
            PROVE  ~outbox'[e].published_at
        <4>1. e \in Events /\ e \notin publisher[p].batch
          BY <1>1, <3>1, <3>2 DEF Exclusive
        <4>2. outbox'[e] = outbox[e]
          BY <2>2, <4>1 DEF CommitBatch
        <4> QED BY <3>2, <4>2 DEF Exclusive
      <3> QED BY <1>2, <3>1, <3>2
    <2>3. CASE CommitLostBatch(p)
      <3>1. Moves(p, {}, {}, "none") /\ SamePublished
        BY <1>0, <1>7, <2>3, MovesFacts DEF CommitLostBatch
      <3> QED BY <1>2, <1>3, <3>1
    <2>4. ASSUME NEW e \in Events, PublishConfirmed(p, e) PROVE Exclusive'
      <3>1. Moves(p, publisher[p].batch, publisher[p].sent \cup {e}, publisher[p].txn)
            /\ SamePublished
        BY <1>0, <1>7, <2>4, MovesFacts DEF PublishConfirmed
      <3>2. publisher[p].txn # "none"
        BY <2>4 DEF PublishConfirmed, IsNext, Exclusive
      <3> QED BY <1>4, <3>1, <3>2
    <2> QED BY <1>8, <2>1, <2>2, <2>3, <2>4 DEF Publish
  <1>9. ASSUME Fail PROVE Exclusive'
    <2>1. ASSUME NEW p \in Publishers, PublisherFails(p) PROVE Exclusive'
      BY <1>5, <1>7, <2>1 DEF PublisherFails
    <2>2. ASSUME NEW p \in Publishers, NEW e \in Events, PublishUnconfirmed(p, e)
          PROVE  Exclusive'
      BY <1>5, <1>7, <2>2 DEF PublishUnconfirmed
    <2>3. ASSUME NEW p \in Publishers, LoseTransaction(p) PROVE Exclusive'
      <3>1. Moves(p, publisher[p].batch, publisher[p].sent, "lost") /\ SamePublished
        BY <1>0, <1>7, <2>3, MovesFacts DEF LoseTransaction
      <3> QED BY <1>4, <3>1
    <2>4. ASSUME NEW c \in Consumers,
                 ConsumerFails(c) \/ ReturnInFlight(c) \/ QuarantineUnconfirmed(c)
          PROVE  Exclusive'
      <3>1. UNCHANGED <<outbox, publisher>>
        BY <2>4, Zenon DEF ConsumerFails, ReturnInFlight, QuarantineUnconfirmed, history
      <3> QED BY <1>6, <1>7, <3>1
    <2> QED BY <1>9, <2>1, <2>2, <2>3, <2>4 DEF Fail
  <1>10. ASSUME NEW c \in Consumers, Consume(c) \/ \E m \in Messages : Get(c, m)
         PROVE  Exclusive'
    <2>1. UNCHANGED <<outbox, publisher>>
      BY <1>10, Zenon
         DEF Consume, OpenInbox, SkipDuplicate, CommitInbox, RejectMessage, QuarantineConfirmed,
             Ack, Get, history
    <2> QED BY <1>6, <1>7, <2>1
  <1>11. ASSUME NEW f \in Events, CommitEvent(f) PROVE Exclusive'
    <2>1. SamePublished
      BY <1>0, <1>11 DEF CommitEvent, Row
    <2> QED BY <1>6, <1>11, <2>1 DEF CommitEvent
  <1>12. ASSUME NEW j \in Junk, InjectJunk(j) PROVE Exclusive'
    BY <1>6, <1>7, <1>12 DEF InjectJunk
  <1>13. CASE UNCHANGED vars
    BY <1>6, <1>7, <1>13 DEF vars, history
  <1> QED BY <1>8, <1>9, <1>10, <1>11, <1>12, <1>13 DEF Next

LEMMA PaidInit == Init => Paid
  <1> SUFFICES ASSUME Init PROVE Paid
    OBVIOUS
  <1>1. Exclusive
    BY DEF Init, NoBatch, Exclusive
  <1>2. ASSUME NEW e \in Events PROVE Balance(e)
    <2>1. Lost(e) = {}
      BY DEF Init, NoBatch, Lost, Owes
    <2>2. Cardinality(Lost(e)) = 0
      BY <2>1, FS_EmptySet
    <2>3. ~Spent(e) /\ enqueued[e] = 0 /\ rolledback[e] = 0
      BY DEF Init, NoBatch, Spent, Sends
    <2> QED BY <2>2, <2>3 DEF Balance
  <1> QED BY <1>1, <1>2 DEF Paid

LEMMA PaidStep == Custody /\ Paid /\ [Next]_vars => Custody' /\ Paid'
  <1> SUFFICES ASSUME Custody, Paid, [Next]_vars PROVE Custody' /\ Paid'
    OBVIOUS
  <1>1. Custody'
    BY CustodyStep
  <1>2. TypeOK'
    BY <1>1 DEF Custody
  <1>3. Exclusive'
    BY <1>2, ExclusiveStep DEF Paid
  <1>4. ASSUME NEW e \in Events PROVE Balance(e)'
    BY <1>2, BalanceStep DEF Paid
  <1> QED BY <1>1, <1>3, <1>4 DEF Paid

\* An event is published once more only for each transaction that held it and
\* failed: publishers that run side by side never publish it twice.
THEOREM DuplicatesArePaidFor == Spec => []DuplicatesNeedAFailure
  <1>1. Custody /\ Paid => DuplicatesNeedAFailure
    <2> SUFFICES ASSUME Custody, Paid, NEW e \in Events
                 PROVE  enqueued[e] <= 1 + rolledback[e]
      BY DEF DuplicatesNeedAFailure
    <2>1. enqueued[e] \in Nat /\ rolledback[e] \in Nat /\ Cardinality(Lost(e)) \in Nat
      BY LostFinite DEF Custody, TypeOK
    <2>2. Balance(e)
      BY DEF Paid
    <2> QED BY <2>1, <2>2 DEF Balance
  <1> QED BY <1>1, CustodyInit, PaidInit, PaidStep, PTL DEF Spec
=============================================================================
