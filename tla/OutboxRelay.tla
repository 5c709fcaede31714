---------------------------- MODULE OutboxRelay -----------------------------
(***************************************************************************)
(* The way of an event from outbox_events to notification_deliveries:      *)
(*   - publishers (publish_batch) select a batch with FOR UPDATE SKIP      *)
(*     LOCKED, publish each event and wait for the broker's confirm, then  *)
(*     commit published_at; a failure anywhere rolls the batch back;       *)
(*   - the queue helpflow.notifications, durable, with messages in flight  *)
(*     (got, not yet acknowledged) that go back when a channel closes;     *)
(*   - consumers (consume_one, process_event) receive an event under an    *)
(*     advisory lock, or quarantine what is no event of the outbox, and    *)
(*     only then acknowledge.                                              *)
(* The order of messages within the queue is left open.                    *)
(*                                                                         *)
(* A definition named Wrong... is no part of the model: it is a plausible  *)
(* bug, put in the place of the definition below it to show that the       *)
(* properties notice.                                                      *)
(***************************************************************************)
EXTENDS Integers, FiniteSets

CONSTANTS
    Events,         \* events, numbered in the order of created_at
    Junk,           \* messages that are no event: malformed, unknown, mistyped
    IdOf,           \* IdOf[m]: the event whose id m carries, or Null
    Publishers,     \* outbox-publisher processes
    Consumers,      \* notification-worker processes
    BatchLimit,     \* the 50 of limit(50)
    MaxFaults,      \* bound: failures of processes, network and database
    Null            \* no message

Messages == Events \cup Junk

ASSUME EventAssumption == Events \subseteq Nat /\ Junk \cap Events = {}
ASSUME NullAssumption == Null \notin Messages
ASSUME IdAssumption ==
    /\ IdOf \in [Messages -> Events \cup {Null}]
    /\ \A e \in Events : IdOf[e] = e
ASSUME PublisherAssumption == IsFiniteSet(Publishers)
ASSUME BoundAssumption == BatchLimit \in Nat \ {0} /\ MaxFaults \in Nat

-----------------------------------------------------------------------------
VARIABLES
    outbox,     \* outbox[e]: the row of e, once it is committed
    publisher,  \* the batch of each publisher and the state of its transaction
    queue,      \* queue[m]: copies of m ready in helpflow.notifications
    consumer,   \* the message each consumer works on
    received,   \* received[e]: e has rows in notification_deliveries
    invalid,    \* invalid[m]: copies of m in helpflow.notifications.invalid
    faults,     \* how many failures there have been
    (* History, read by the properties only: *)
    injected,   \* junk that was sent
    enqueued,   \* enqueued[e]: publications of e the broker stored
    confirmed,  \* confirmed[e]: publications of e whose confirm arrived
    rolledback  \* rolledback[e]: transactions that held e and did not commit

history == <<injected, enqueued, confirmed, rolledback>>
vars == <<outbox, publisher, queue, consumer, received, invalid, faults, history>>

Row == [committed : BOOLEAN, published_at : BOOLEAN, attempts : Nat]

\* txn is "lost" when the server has ended the transaction, and released its
\* locks, before the publisher notices.
PublisherState == [batch : SUBSET Events, sent : SUBSET Events,
                   txn : {"none", "open", "lost"}]
NoBatch == [batch |-> {}, sent |-> {}, txn |-> "none"]

\* held: the broker still counts msg as in flight on this consumer's channel.
ConsumerState ==
    [phase : {"idle", "got", "inbox", "rejected", "handled"},
     msg : Messages \cup {Null}, held : BOOLEAN]
NoMessage == [phase |-> "idle", msg |-> Null, held |-> FALSE]

TypeOK ==
    /\ outbox \in [Events -> Row]
    /\ publisher \in [Publishers -> PublisherState]
    /\ queue \in [Messages -> Nat]
    /\ consumer \in [Consumers -> ConsumerState]
    /\ received \in [Events -> BOOLEAN]
    /\ invalid \in [Messages -> Nat]
    /\ faults \in Nat
    /\ injected \in SUBSET Junk
    /\ enqueued \in [Events -> Nat]
    /\ confirmed \in [Events -> Nat]
    /\ rolledback \in [Events -> Nat]

Init ==
    /\ outbox = [e \in Events |->
            [committed |-> FALSE, published_at |-> FALSE, attempts |-> 0]]
    /\ publisher = [p \in Publishers |-> NoBatch]
    /\ queue = [m \in Messages |-> 0]
    /\ consumer = [c \in Consumers |-> NoMessage]
    /\ received = [e \in Events |-> FALSE]
    /\ invalid = [m \in Messages |-> 0]
    /\ faults = 0
    /\ injected = {}
    /\ enqueued = [e \in Events |-> 0]
    /\ confirmed = [e \in Events |-> 0]
    /\ rolledback = [e \in Events |-> 0]

Fault ==
    /\ faults < MaxFaults
    /\ faults' = faults + 1

-----------------------------------------------------------------------------
(* The environment: a ticket's transaction commits its event, in any order *)
(* of the created_at that its start has fixed; junk reaches the queue.     *)

CommitEvent(e) ==
    /\ ~outbox[e].committed
    /\ outbox' = [outbox EXCEPT ![e].committed = TRUE]
    /\ UNCHANGED <<publisher, queue, consumer, received, invalid, faults, history>>

InjectJunk(j) ==
    /\ j \notin injected
    /\ injected' = injected \cup {j}
    /\ queue' = [queue EXCEPT ![j] = @ + 1]
    /\ UNCHANGED <<outbox, publisher, consumer, received, invalid, faults,
                   enqueued, confirmed, rolledback>>

-----------------------------------------------------------------------------
(* publish_batch *)

WrongLocked(e) == FALSE    \* a select without FOR UPDATE
Locked(e) == \E q \in Publishers : publisher[q].txn = "open" /\ e \in publisher[q].batch

Publishable ==
    {e \in Events : outbox[e].committed /\ ~outbox[e].published_at /\ ~Locked(e)}

\* ORDER BY created_at LIMIT 50
Batch == {e \in Publishable : Cardinality({f \in Publishable : f < e}) < BatchLimit}

SelectBatch(p) ==
    /\ publisher[p].txn = "none"
    /\ Batch # {}
    /\ publisher' = [publisher EXCEPT ![p] = [NoBatch EXCEPT !.batch = Batch, !.txn = "open"]]
    /\ UNCHANGED <<outbox, queue, consumer, received, invalid, faults, history>>

IsNext(p, e) ==
    /\ e \in publisher[p].batch \ publisher[p].sent
    /\ \A f \in publisher[p].batch \ publisher[p].sent : e <= f

Enqueue(m) == queue' = [queue EXCEPT ![m] = @ + 1]

PublishConfirmed(p, e) ==
    /\ IsNext(p, e)
    /\ Enqueue(e)
    /\ publisher' = [publisher EXCEPT ![p].sent = @ \cup {e}]
    /\ enqueued' = [enqueued EXCEPT ![e] = @ + 1]
    /\ confirmed' = [confirmed EXCEPT ![e] = @ + 1]
    /\ UNCHANGED <<outbox, consumer, received, invalid, faults, injected, rolledback>>

\* The transaction ends without a commit, unless it had been lost before.
EndTransaction(p) ==
    rolledback' = [e \in Events |->
        IF publisher[p].txn = "open" /\ e \in publisher[p].batch
        THEN rolledback[e] + 1 ELSE rolledback[e]]

RollBack(p) ==
    /\ publisher' = [publisher EXCEPT ![p] = NoBatch]
    /\ EndTransaction(p)

\* The broker stored the message, the confirm did not arrive: an exception.
PublishUnconfirmed(p, e) ==
    /\ IsNext(p, e)
    /\ Fault
    /\ Enqueue(e)
    /\ enqueued' = [enqueued EXCEPT ![e] = @ + 1]
    /\ RollBack(p)
    /\ UNCHANGED <<outbox, consumer, received, invalid, injected, confirmed>>

\* A publication that is lost, nacked or returned, a failing commit, a crash:
\* nothing of the batch is marked, whatever the broker has confirmed of it.
PublisherFails(p) ==
    /\ publisher[p].txn # "none"
    /\ Fault
    /\ RollBack(p)
    /\ UNCHANGED <<outbox, queue, consumer, received, invalid, injected, enqueued, confirmed>>

\* The server ends the session; the publisher goes on publishing for a while.
LoseTransaction(p) ==
    /\ publisher[p].txn = "open"
    /\ Fault
    /\ publisher' = [publisher EXCEPT ![p].txn = "lost"]
    /\ EndTransaction(p)
    /\ UNCHANGED <<outbox, queue, consumer, received, invalid, injected, enqueued, confirmed>>

WrongComplete(p) == publisher[p].sent # {}    \* the rest counts as published
Complete(p) == publisher[p].sent = publisher[p].batch

CommitBatch(p) ==
    /\ publisher[p].txn = "open"
    /\ Complete(p)
    /\ outbox' = [e \in Events |->
            IF e \in publisher[p].batch
            THEN [outbox[e] EXCEPT !.published_at = TRUE, !.attempts = @ + 1]
            ELSE outbox[e]]
    /\ publisher' = [publisher EXCEPT ![p] = NoBatch]
    /\ UNCHANGED <<queue, consumer, received, invalid, faults, history>>

\* The commit of a lost transaction raises.
CommitLostBatch(p) ==
    /\ publisher[p].txn = "lost"
    /\ Complete(p)
    /\ publisher' = [publisher EXCEPT ![p] = NoBatch]
    /\ UNCHANGED <<outbox, queue, consumer, received, invalid, faults, history>>

-----------------------------------------------------------------------------
(* consume_one *)

Ready(m) == queue[m] > 0

Get(c, m) ==
    /\ consumer[c].phase = "idle"
    /\ Ready(m)
    /\ queue' = [queue EXCEPT ![m] = @ - 1]
    /\ consumer' = [consumer EXCEPT ![c] = [phase |-> "got", msg |-> m, held |-> TRUE]]
    /\ UNCHANGED <<outbox, publisher, received, invalid, faults, history>>

\* json.loads, the id and db.get(OutboxEvent, event_id) with its type.
WrongIsEvent(m) == m \in Events /\ outbox[m].published_at    \* trusts published_at
IsEvent(m) == m \in Events /\ outbox[m].committed

Turn(c, phase) == consumer' = [consumer EXCEPT ![c].phase = phase]

\* pg_advisory_xact_lock on the event's id, whatever the message's type is.
WrongInboxFree(e) == TRUE
InboxFree(e) == \A d \in Consumers : ~(consumer[d].phase = "inbox" /\ consumer[d].msg = e)

\* Rows of the event are there: the first question, before the type is compared.
Known(m) == IdOf[m] # Null /\ InboxFree(IdOf[m]) /\ received[IdOf[m]]
Unknown(m) == IdOf[m] # Null => InboxFree(IdOf[m]) /\ ~received[IdOf[m]]

\* process_event: the event is new, its rows are about to be inserted.
OpenInbox(c) ==
    /\ consumer[c].phase = "got"
    /\ Unknown(consumer[c].msg)
    /\ IsEvent(consumer[c].msg)
    /\ Turn(c, "inbox")
    /\ UNCHANGED <<outbox, publisher, queue, received, invalid, faults, history>>

\* process_event: it returns early, for a mistyped message too.
SkipDuplicate(c) ==
    /\ consumer[c].phase = "got"
    /\ Known(consumer[c].msg)
    /\ Turn(c, "handled")
    /\ UNCHANGED <<outbox, publisher, queue, received, invalid, faults, history>>

CommitInbox(c) ==
    /\ consumer[c].phase = "inbox"
    /\ received' = [received EXCEPT ![consumer[c].msg] = TRUE]
    /\ Turn(c, "handled")
    /\ UNCHANGED <<outbox, publisher, queue, invalid, faults, history>>

\* ValueError, KeyError or TypeError.
RejectMessage(c) ==
    /\ consumer[c].phase = "got"
    /\ Unknown(consumer[c].msg)
    /\ ~IsEvent(consumer[c].msg)
    /\ Turn(c, "rejected")
    /\ UNCHANGED <<outbox, publisher, queue, received, invalid, faults, history>>

Quarantined(m) == invalid' = [invalid EXCEPT ![m] = @ + 1]

QuarantineConfirmed(c) ==
    /\ consumer[c].phase = "rejected"
    /\ Quarantined(consumer[c].msg)
    /\ Turn(c, "handled")
    /\ UNCHANGED <<outbox, publisher, queue, received, faults, history>>

\* The connection is closed: what is in flight goes back to the queue.
Close(c) ==
    /\ consumer' = [consumer EXCEPT ![c] = NoMessage]
    /\ queue' = [m \in Messages |->
            IF m = consumer[c].msg /\ consumer[c].held THEN queue[m] + 1 ELSE queue[m]]

QuarantineUnconfirmed(c) ==
    /\ consumer[c].phase = "rejected"
    /\ Fault
    /\ Quarantined(consumer[c].msg)
    /\ Close(c)
    /\ UNCHANGED <<outbox, publisher, received, history>>

\* A database error, a failing publication or acknowledgement, a crash.
ConsumerFails(c) ==
    /\ consumer[c].phase # "idle"
    /\ Fault
    /\ Close(c)
    /\ UNCHANGED <<outbox, publisher, received, invalid, history>>

\* The broker gives the consumer up (missed heartbeats, restart) and returns the
\* message; the consumer learns of it when it next talks to the broker.
ReturnInFlight(c) ==
    /\ consumer[c].held
    /\ Fault
    /\ Enqueue(consumer[c].msg)
    /\ consumer' = [consumer EXCEPT ![c].held = FALSE]
    /\ UNCHANGED <<outbox, publisher, received, invalid, history>>

WrongMayAck(c) == consumer[c].phase \in {"got", "handled"}    \* before the commit
WrongMayAckEvent(c) ==    \* acknowledged inside the try only
    consumer[c].phase = "handled" /\ consumer[c].msg \in Events
MayAck(c) == consumer[c].phase = "handled"

\* basic_ack; on a channel that is gone it raises, and the message is back.
Ack(c) ==
    /\ MayAck(c)
    /\ consumer' = [consumer EXCEPT ![c] = NoMessage]
    /\ UNCHANGED <<outbox, publisher, queue, received, invalid, faults, history>>

-----------------------------------------------------------------------------
Publish(p) ==
    \/ SelectBatch(p) \/ CommitBatch(p) \/ CommitLostBatch(p)
    \/ \E e \in Events : PublishConfirmed(p, e)

Consume(c) ==
    \/ OpenInbox(c) \/ SkipDuplicate(c) \/ CommitInbox(c)
    \/ RejectMessage(c) \/ QuarantineConfirmed(c) \/ Ack(c)

Fail ==
    \/ \E p \in Publishers :
          \/ PublisherFails(p) \/ LoseTransaction(p)
          \/ \E e \in Events : PublishUnconfirmed(p, e)
    \/ \E c \in Consumers :
          ConsumerFails(c) \/ ReturnInFlight(c) \/ QuarantineUnconfirmed(c)

Next ==
    \/ \E e \in Events : CommitEvent(e)
    \/ \E j \in Junk : InjectJunk(j)
    \/ \E p \in Publishers : Publish(p)
    \/ \E c \in Consumers : Consume(c) \/ \E m \in Messages : Get(c, m)
    \/ Fail

Spec == Init /\ [][Next]_vars

\* run() of either process reconnects and goes on after every exception, and
\* the queue hands out what it holds.  Failures end some time (MaxFaults).
Fairness ==
    /\ \A p \in Publishers : WF_vars(Publish(p))
    /\ \A c \in Consumers : WF_vars(Consume(c))
    /\ \A m \in Messages : SF_vars(\E c \in Consumers : Get(c, m))

FairSpec == Spec /\ Fairness

-----------------------------------------------------------------------------
(* Properties *)

InFlight(m) == {c \in Consumers : consumer[c].held /\ consumer[c].msg = m}

\* No event is lost between two commits: once published_at is set, the event is
\* in the queue, in flight, or received, whatever failed on the way.
NoEventLost ==
    \A e \in Events :
        outbox[e].published_at => queue[e] > 0 \/ InFlight(e) # {} \/ received[e]

\* Nor is a message the consumer cannot use: it stays in the queue or in flight
\* until the quarantine holds it; only one that names an event already received
\* may go the way of a duplicate.
NoJunkLost ==
    \A j \in injected :
        \/ queue[j] > 0 \/ InFlight(j) # {} \/ invalid[j] > 0
        \/ IdOf[j] # Null /\ received[IdOf[j]]

\* No event of the outbox ends in quarantine, however early its message comes
\* and whatever the database does: a failure is not taken for a bad format.
OnlyJunkQuarantined ==
    \A e \in Events : invalid[e] = 0

\* A transaction that inserts an event's rows never meets rows of that event:
\* uq_delivery_recipient is a second line of defence that is not needed.
InboxNeverCollides ==
    \A c \in Consumers : consumer[c].phase = "inbox" => ~received[consumer[c].msg]

\* An event is enqueued again only after a transaction that held it failed:
\* publishers that work side by side never publish the same event twice.
DuplicatesNeedAFailure ==
    \A e \in Events : enqueued[e] <= 1 + rolledback[e]

\* docs/architecture.md:14: OutboxEvent.attempts reflects confirmed publications.
AttemptsReflectConfirms ==
    \A e \in Events : outbox[e].published_at => outbox[e].attempts = confirmed[e]

\* Every committed event is received in the end.
EveryEventReceived ==
    \A e \in Events : outbox[e].committed ~> received[e]

\* The queue drains: no message, duplicate or junk, goes round for ever.
QueueDrains ==
    \A m \in Messages : queue[m] > 0 ~> queue[m] = 0 /\ InFlight(m) = {}
=============================================================================
