------------------------------ MODULE Pipeline -------------------------------
(***************************************************************************)
(* The way of an event from the outbox to Telegram: OutboxRelay and        *)
(* NotificationDelivery side by side, tied together by the                 *)
(* notification-worker processes.  A worker is one thread, run(): it       *)
(* delivers once, connects to the broker, and then takes turns: at most    *)
(* one message consumed, at most one row delivered.  An exception anywhere *)
(* takes it back to the first delivery.                                    *)
(*                                                                         *)
(* The two modules assume that a worker goes on consuming and goes on      *)
(* delivering; here both are one loop, and the assumptions are properties. *)
(*                                                                         *)
(* A definition named Wrong... is no part of the model: it is a plausible  *)
(* bug, put in the place of the definition below it to show that the       *)
(* properties notice.                                                      *)
(***************************************************************************)
EXTENDS Integers, FiniteSets

CONSTANTS
    Events, Junk, IdOf, Publishers, BatchLimit, MaxFaults,       \* OutboxRelay
    Clients, Chats, NoChat, Payload, MaxAttempts, LeaseSeconds,  \* NotificationDelivery
    BackoffCap, RetryAfterCap, RetryAfters, MaxReplays,
    Workers,        \* notification-worker processes: consumers and senders
    Reliable,       \* the workers that keep running (fairness only)
    Null

VARIABLES
    outbox, publisher, queue, consumer, received, invalid, faults,
    injected, enqueued, confirmed, rolledback,
    delivery, worker, chat, now, replays, claims, accepted, uncertain,
    place       \* place[w]: where run() of w stands

Relay == INSTANCE OutboxRelay WITH Consumers <- Workers
Delivery == INSTANCE NotificationDelivery WITH Legacy <- {}

relayVars == <<outbox, publisher, queue, consumer, received, invalid, faults,
               injected, enqueued, confirmed, rolledback>>
deliveryVars == <<delivery, worker, chat, now, replays, claims, accepted, uncertain>>
vars == <<relayVars, deliveryVars, place>>

\* What the two modules assume of their constants.
ASSUME RelayAssumption ==
    /\ Events \subseteq Nat /\ Junk \cap Events = {}
    /\ Null \notin Events \cup Junk
    /\ IdOf \in [Events \cup Junk -> Events \cup {Null}]
    /\ \A e \in Events : IdOf[e] = e
    /\ IsFiniteSet(Publishers)
    /\ BatchLimit \in Nat \ {0} /\ MaxFaults \in Nat
ASSUME DeliveryAssumption ==
    /\ Payload \in [Events -> Delivery!PayloadRecord]
    /\ NoChat \notin Chats
    /\ Null \notin Int /\ Null \notin Delivery!Deliveries
    /\ Reliable \subseteq Workers
    /\ MaxAttempts \in Nat \ {0} /\ LeaseSeconds \in Nat \ {0}
    /\ BackoffCap \in Nat /\ RetryAfterCap \in Nat
    /\ RetryAfters \subseteq Int /\ MaxReplays \in Nat
    /\ \A attempt \in 1..MaxAttempts : Delivery!Backoff(attempt) \in Nat

\* "first" is the deliver_one() before connect(), "deliver" the one in the loop.
Places == {"first", "connect", "consume", "deliver"}

WrongStart == "connect"    \* nothing is delivered before connect()
Start == "first"

TypeOK ==
    /\ Relay!TypeOK
    /\ Delivery!TypeOK
    /\ place \in [Workers -> Places]

Init ==
    /\ Relay!Init
    /\ Delivery!Init
    /\ place = [w \in Workers |-> Start]

GoTo(w, p) == place' = [place EXCEPT ![w] = p]

-----------------------------------------------------------------------------
(* deliver_one *)

Delivers(w) == place[w] \in {"first", "deliver"}

WrongAfterDelivery(w) ==    \* consume_one stands before the loop
    IF place[w] = "first" THEN "connect" ELSE "deliver"
AfterDelivery(w) == IF place[w] = "first" THEN "connect" ELSE "consume"

DeliverStep(w) ==
    /\ Delivers(w)
    /\ Delivery!Claim(w) \/ Delivery!Attempt(w)
    /\ GoTo(w, IF worker'[w] = Delivery!Idle THEN AfterDelivery(w) ELSE place[w])
    /\ UNCHANGED relayVars

\* claim_delivery found no row.
NothingDue(w) == worker[w].phase = "idle" /\ Delivery!Claimable = {}

SkipDelivery(w) ==
    /\ Delivers(w)
    /\ NothingDue(w)
    /\ GoTo(w, AfterDelivery(w))
    /\ UNCHANGED <<relayVars, deliveryVars>>

-----------------------------------------------------------------------------
(* connect, consume_one *)

Connect(w) ==
    /\ place[w] = "connect"
    /\ GoTo(w, "consume")
    /\ UNCHANGED <<relayVars, deliveryVars>>

\* The broker cannot be reached, however often: three attempts, an exception.
ConnectFails(w) ==
    /\ place[w] = "connect"
    /\ GoTo(w, Start)
    /\ UNCHANGED <<relayVars, deliveryVars>>

Get(w, m) ==
    /\ place[w] = "consume"
    /\ Relay!Get(w, m)
    /\ UNCHANGED <<deliveryVars, place>>

\* basic_get answers that the queue is empty.
QueueEmpty(w) ==
    /\ place[w] = "consume"
    /\ consumer[w].phase = "idle"
    /\ \A m \in Relay!Messages : queue[m] = 0
    /\ GoTo(w, "deliver")
    /\ UNCHANGED <<relayVars, deliveryVars>>

HandleMessage(w) ==
    /\ Relay!OpenInbox(w) \/ Relay!SkipDuplicate(w)
       \/ Relay!RejectMessage(w) \/ Relay!QuarantineConfirmed(w)
    /\ UNCHANGED <<deliveryVars, place>>

\* The commit of process_event: the inbox of the one module is the table of the other.
WrongStored(e) == UNCHANGED deliveryVars    \* acknowledged, but the rows are not there
Stored(e) == Delivery!ProcessEvent(e)

ReceiveEvent(w) ==
    /\ Relay!CommitInbox(w)
    /\ Stored(consumer[w].msg)
    /\ UNCHANGED place

\* On a channel that is gone the acknowledgement raises.
AfterAck(w) == IF consumer[w].held THEN "deliver" ELSE Start

Acknowledge(w) ==
    /\ Relay!Ack(w)
    /\ GoTo(w, AfterAck(w))
    /\ UNCHANGED deliveryVars

-----------------------------------------------------------------------------
(* Exceptions and crashes: the thread drops what it holds of either kind.  *)

\* With nothing in hand: basic_get, claim_delivery or process_data_events raises,
\* or the connection is closed.
LeaveLoop(w) ==
    /\ place[w] \in {"consume", "deliver"}
    /\ consumer[w].phase = "idle" /\ worker[w].phase = "idle"
    /\ GoTo(w, Start)
    /\ UNCHANGED <<relayVars, deliveryVars>>

ConsumeFails(w) ==
    /\ Relay!ConsumerFails(w) \/ Relay!QuarantineUnconfirmed(w)
    /\ GoTo(w, Start)
    /\ UNCHANGED deliveryVars

DeliverFails(w) ==
    /\ Delivery!WorkerCrash(w)
    /\ GoTo(w, Start)
    /\ UNCHANGED relayVars

ReturnInFlight(w) ==
    /\ Relay!ReturnInFlight(w)
    /\ UNCHANGED <<deliveryVars, place>>

-----------------------------------------------------------------------------
(* Everybody else *)

Publish(p) ==
    /\ Relay!Publish(p)
    /\ UNCHANGED <<deliveryVars, place>>

PublishFails(p) ==
    /\ \/ Relay!PublisherFails(p) \/ Relay!LoseTransaction(p)
       \/ \E e \in Events : Relay!PublishUnconfirmed(p, e)
    /\ UNCHANGED <<deliveryVars, place>>

Arrive ==
    /\ \/ \E e \in Events : Relay!CommitEvent(e)
       \/ \E j \in Junk : Relay!InjectJunk(j)
    /\ UNCHANGED <<deliveryVars, place>>

Intervene ==
    /\ \/ \E d \in Delivery!Deliveries : Delivery!RetryNotification(d)
       \/ \E c \in Clients, k \in Chats \cup {NoChat} : Delivery!RebindChat(c, k)
    /\ UNCHANGED <<relayVars, place>>

Tick ==
    /\ Delivery!Tick
    /\ UNCHANGED <<relayVars, place>>

-----------------------------------------------------------------------------
Run(w) ==
    \/ DeliverStep(w) \/ SkipDelivery(w)
    \/ Connect(w) \/ ConnectFails(w)
    \/ QueueEmpty(w) \/ HandleMessage(w) \/ ReceiveEvent(w) \/ Acknowledge(w)
    \/ \E m \in Relay!Messages : Get(w, m)

Fail(w) == LeaveLoop(w) \/ ConsumeFails(w) \/ DeliverFails(w) \/ ReturnInFlight(w)

Next ==
    \/ \E w \in Workers : Run(w) \/ Fail(w)
    \/ \E p \in Publishers : Publish(p) \/ PublishFails(p)
    \/ Arrive \/ Intervene \/ Tick

Spec == Init /\ [][Next]_vars

\* run() never ends.  Nothing is said of the broker: it may be down for good.
FairSpec ==
    /\ Spec
    /\ WF_vars(Tick)
    /\ \A w \in Reliable : WF_vars(Run(w))

\* The broker can be reached again and again, and hands out what it holds.
BrokerAnswers ==
    /\ \A p \in Publishers : WF_vars(Publish(p))
    /\ \A w \in Reliable : SF_vars(Connect(w))
    /\ \A m \in Relay!Messages : SF_vars(\E w \in Reliable : Get(w, m))

-----------------------------------------------------------------------------
(* Properties *)

\* Once published_at is set, an event is in the queue, in flight, or every
\* recipient has a row: between the outbox, the broker and the table nothing is
\* lost, whichever process fails between two of their commits.
NobodyForgotten ==
    \A e \in Events : outbox[e].published_at =>
        \/ queue[e] > 0 \/ Relay!InFlight(e) # {}
        \/ \A d \in Delivery!Deliveries :
              d[1] = e => delivery[d].status # "absent"

\* The loop keeps what NotificationDelivery assumes of its workers, even if the
\* broker never comes back: rows that are stored need no message to be sent.
DeliveryNeedsNoBroker == Delivery!FairSpec

\* The loop keeps what OutboxRelay assumes of its consumers, although the same
\* thread waits for Telegram between two messages.
ConsumingGoesOn == BrokerAnswers => Relay!Fairness

\* End to end: a committed event is settled with every recipient, or given up
\* in the administrator's sight; neither the broker nor a worker can stop it.
EveryEventSettles ==
    BrokerAnswers =>
        \A e \in Events : outbox[e].committed ~>
            \A d \in Delivery!Deliveries :
                d[1] = e => delivery[d].status \in Delivery!Settled
=============================================================================
