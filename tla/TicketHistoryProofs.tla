------------------------- MODULE TicketHistoryProofs ------------------------
(***************************************************************************)
(* TicketWorkflow implements TicketLedger, and its history tells what has  *)
(* become of every ticket, for any number of tickets, accounts and         *)
(* concurrent requests.                                                    *)
(***************************************************************************)
EXTENDS TicketProofs

-----------------------------------------------------------------------------
(* The ledger *)

told == [t \in Tickets |-> ToldOf(t)]

\* An entry more in the history is an entry more in the ledger's log.
LEMMA ToldGrows ==
    ASSUME Shape, NEW t \in Tickets, NEW entry \in Entry,
           history' = [history EXCEPT ![t] = Append(@, entry)]
    PROVE  told' = [told EXCEPT ![t] = Append(@, Told(entry))]
<1>1. history[t] \in Seq(Entry) /\ history'[t] = Append(history[t], entry)
      /\ \A u \in Tickets \ {t} : history'[u] = history[u]
  BY DEF Shape, TypeOK
<1>2. ToldOf(t)' = Append(ToldOf(t), Told(entry))
  <2> PICK h \in Seq(Entry) : h = history[t]
    BY <1>1
  <2>1. [i \in 1..Len(Append(h, entry)) |-> Told(Append(h, entry)[i])]
          = Append([i \in 1..Len(h) |-> Told(h[i])], Told(entry))
    OBVIOUS
  <2> QED BY <1>1, <2>1 DEF ToldOf
<1>3. \A u \in Tickets \ {t} : ToldOf(u)' = ToldOf(u)
  BY <1>1 DEF ToldOf
<1> QED BY <1>2, <1>3 DEF told

LEMMA LedgerInit == Init => Ledger!Init
<1> SUFFICES ASSUME Init PROVE Ledger!Init
  OBVIOUS
<1>1. \A t \in Tickets : ToldOf(t) = <<>>
  BY DEF Init, ToldOf
<1> QED BY <1>1 DEF Init, Ledger!Init, Ledger!NoTicket, NoRow, NoStatus

LEMMA CreateIsLedger ==
    ASSUME Shape, NEW t \in Tickets, NEW user \in Users, CreateTicket(t, user)
    PROVE  Ledger!Next
<1>1. HistoryEntry("ticket.created", user, NoStatus, NoStatus, FALSE, clock) \in Entry
  BY DEF HistoryEntry, Entry, Actions, Shape, TypeOK
<1> PICK entry \in Entry :
        entry = HistoryEntry("ticket.created", user, NoStatus, NoStatus, FALSE, clock)
  BY <1>1
<1>2. told' = [told EXCEPT ![t] = Append(@, Told(entry))]
  BY ToldGrows DEF CreateTicket, Record, HistoryEntry, OutboxEvent
<1>3. Told(entry) = [action |-> "ticket.created", actor |-> user, from |-> "none", to |-> "none"]
  BY DEF Told, HistoryEntry, NoStatus
<1>4. ticket[t].version = 0 /\ user \in Active /\ ticket' = [ticket EXCEPT ![t] = NewTicket(user)]
  <2>1. ticket[t] = NoRow
    BY CreateEffect
  <2> QED BY <2>1 DEF CreateTicket, NoRow, Record, HistoryEntry, OutboxEvent
<1>5. NewTicket(user) = [Ledger!NoTicket EXCEPT !.status = "new", !.version = 1, !.client = user]
  BY DEF NewTicket, NoRow, Ledger!NoTicket, NoStatus
<1>6. Ledger!Create(t, user)
  BY <1>2, <1>3, <1>4, <1>5 DEF Ledger!Create, Ledger!Do, told
<1> QED BY <1>4, <1>6 DEF Ledger!Next

\* The holder of a lock is someone the ledger lets touch the ticket.
LEMMA HolderMayTouch ==
    ASSUME Shape, NEW r \in Requests, request[r].phase = "locked"
    PROVE  Ledger!MayTouch(request[r].of, request[r].actor)
<1>1. SessionOK(r) /\ request[r].of \in Tickets /\ request[r].row = ticket[request[r].of]
  BY Holder DEF Shape
<1> QED BY <1>1 DEF Ledger!MayTouch, SessionOK, Engaged, Exists, HasAccess

LEMMA AssignIsLedger ==
    ASSUME Shape, NEW r \in Requests, NEW assignee \in Users, AssignTicket(r, assignee)
    PROVE  Ledger!Next
<1>1. request[r].phase = "locked" /\ request[r].kind = "assign"
      /\ assignee \in Staff /\ assignee \in Active
  BY DEF AssignTicket
<1> PICK t \in Tickets : t = request[r].of /\ request[r].row = ticket[t]
  BY <1>1, Holder
<1> PICK actor \in Active : actor = request[r].actor
  BY <1>1, Holder
<1>2. actor \in Staff /\ Ledger!MayTouch(t, actor)
  BY <1>1, HolderMayTouch DEF Shape, SessionOK
<1>3. ticket[t].status \in Statuses /\ actor \in Users /\ request[r].started \in Nat
  BY <1>1, Holder
<1> PICK status \in Statuses :
        status = IF ticket[t].status = "new" THEN "in_progress" ELSE ticket[t].status
  BY <1>3 DEF Statuses
<1> PICK entry \in Entry :
        entry = HistoryEntry("ticket.assigned", actor, ticket[t].status, status,
                             FALSE, request[r].started)
  BY <1>3 DEF HistoryEntry, Entry, Actions
<1>4. told' = [told EXCEPT ![t] = Append(@, Told(entry))]
  BY ToldGrows DEF AssignTicket, CommitRow, Record, HistoryEntry, OutboxEvent
<1>5. Told(entry) = [action |-> "ticket.assigned", actor |-> actor,
                     from |-> ticket[t].status, to |-> status]
  BY DEF Told, HistoryEntry
<1>6. ticket[t].status \in {"new", "in_progress", "waiting_customer"}
  BY <1>3 DEF AssignTicket, Assignable, Statuses
<1>7. ticket' = [ticket EXCEPT ![t] =
            [ticket[t] EXCEPT !.version = @ + 1, !.assignee = assignee, !.status = status]]
  BY DEF AssignTicket, CommitRow
<1>8. Ledger!Assign(t, actor, assignee)
  BY <1>1, <1>2, <1>4, <1>5, <1>6, <1>7 DEF Ledger!Assign, Ledger!Do, told
<1> QED BY <1>1, <1>8 DEF Ledger!Next

LEMMA TransitionIsLedger ==
    ASSUME Shape, ResolvedAtAgrees, NEW r \in Requests, NEW target \in Statuses,
           TransitionTicket(r, target)
    PROVE  Ledger!Next
<1>1. request[r].phase = "locked" /\ target \in Allowed(request[r].actor, request[r].row.status)
  BY DEF TransitionTicket
<1> PICK t \in Tickets : t = request[r].of /\ request[r].row = ticket[t]
  BY <1>1, Holder
<1> PICK actor \in Active : actor = request[r].actor
  BY <1>1, Holder
<1>2. Ledger!MayTouch(t, actor)
  BY <1>1, HolderMayTouch
<1>3. ticket[t].status \in Statuses /\ actor \in Users /\ request[r].started \in Nat
  BY <1>1, Holder
<1>4. /\ <<ticket[t].status, target>> \in
            IF actor \in Staff THEN Ledger!StaffMoves ELSE Ledger!ClientMoves
      /\ target # "new"
      /\ target = "closed" => ticket[t].status = "resolved"
  BY <1>1, <1>3 DEF Allowed, STAFF_TRANSITIONS, CLIENT_TRANSITIONS, Statuses,
                    Ledger!StaffMoves, Ledger!ClientMoves
<1> PICK entry \in Entry :
        entry = HistoryEntry("ticket.status_changed", actor, ticket[t].status, target,
                             FALSE, request[r].started)
  BY <1>3 DEF HistoryEntry, Entry, Actions
<1>5. told' = [told EXCEPT ![t] = Append(@, Told(entry))]
  BY ToldGrows DEF TransitionTicket, CommitRow, Record, HistoryEntry, OutboxEvent
<1>6. Told(entry) = [action |-> "ticket.status_changed", actor |-> actor,
                     from |-> ticket[t].status, to |-> target]
  BY DEF Told, HistoryEntry
<1>7. ticket' = [ticket EXCEPT ![t] =
            [ticket[t] EXCEPT !.version = @ + 1, !.status = target,
                              !.resolved = target \in {"resolved", "closed"}]]
  <2>1. ResolvedAt(ticket[t], target) <=> target \in {"resolved", "closed"}
    BY <1>4 DEF ResolvedAt, ResolvedAtAgrees
  <2>2. ResolvedAt(ticket[t], target) = (target \in {"resolved", "closed"})
    <3>1. CASE target \in {"resolved", "closed"}
      <4>1. ResolvedAt(ticket[t], target) = TRUE /\ (target \in {"resolved", "closed"}) = TRUE
        BY <2>1, <3>1, SMT DEF ResolvedAt
      <4> QED BY <4>1, Zenon
    <3>2. CASE target \notin {"resolved", "closed"}
      <4>1. ResolvedAt(ticket[t], target) = FALSE /\ (target \in {"resolved", "closed"}) = FALSE
        BY <2>1, <3>2, SMT DEF ResolvedAt
      <4> QED BY <4>1, Zenon
    <3> QED BY <3>1, <3>2, Zenon
  <2>3. ticket' = [ticket EXCEPT ![t] =
            [ticket[t] EXCEPT !.version = @ + 1, !.status = target,
                              !.resolved = ResolvedAt(ticket[t], target)]]
    BY DEF TransitionTicket, CommitRow
  <2> QED BY <2>2, <2>3, Zenon
<1>8. Ledger!Move(t, actor, target)
  BY <1>2, <1>4, <1>5, <1>6, <1>7 DEF Ledger!Move, Ledger!Do, told
<1> QED BY <1>4, <1>8 DEF Ledger!Next, Statuses

LEMMA CommentIsLedger ==
    ASSUME Shape, NEW r \in Requests, NEW internal \in BOOLEAN, AddComment(r, internal)
    PROVE  Ledger!Next
<1>1. request[r].phase = "locked" /\ ticket' = ticket
  BY DEF AddComment
<1> PICK t \in Tickets : t = request[r].of /\ request[r].row = ticket[t]
  BY <1>1, Holder
<1> PICK actor \in Active : actor = request[r].actor
  BY <1>1, Holder
<1>2. Ledger!MayTouch(t, actor) /\ actor \in Users /\ request[r].started \in Nat
  BY <1>1, HolderMayTouch, Holder
<1> PICK entry \in Entry :
        entry = HistoryEntry("ticket.comment_added", actor, NoStatus, NoStatus,
                             internal, request[r].started)
  BY <1>2 DEF HistoryEntry, Entry, Actions
<1>3. told' = [told EXCEPT ![t] = Append(@, Told(entry))]
  BY ToldGrows DEF AddComment, EntryInternal, Record, HistoryEntry, OutboxEvent
<1>4. Told(entry) = [action |-> "ticket.comment_added", actor |-> actor,
                     from |-> "none", to |-> "none"]
  BY DEF Told, HistoryEntry, NoStatus
<1>5. ticket' = [ticket EXCEPT ![t] = ticket[t]]
  BY <1>1 DEF Shape, TypeOK
<1>6. Ledger!Remark(t, actor)
  BY <1>2, <1>3, <1>4, <1>5 DEF Ledger!Remark, Ledger!Do, told
<1> QED BY <1>6 DEF Ledger!Next

LEMMA LedgerStep ==
    ASSUME Shape, ResolvedAtAgrees, [Next]_vars
    PROVE  [Ledger!Next]_(Ledger!vars)
<1>1. ASSUME UNCHANGED <<ticket, history>>
      PROVE  UNCHANGED Ledger!vars
  BY <1>1 DEF Ledger!vars, ToldOf
<1>2. ASSUME NEW r \in Requests, Serve(r)
      PROVE  [Ledger!Next]_(Ledger!vars)
  <2>1. CASE \E assignee \in Users : AssignTicket(r, assignee)
    BY <2>1, AssignIsLedger
  <2>2. CASE \E target \in Statuses : TransitionTicket(r, target)
    BY <2>2, TransitionIsLedger
  <2>3. CASE \E internal \in BOOLEAN : AddComment(r, internal)
    BY <2>3, CommentIsLedger
  <2>4. CASE UNCHANGED <<ticket, history>>
    BY <1>1, <2>4
  <2> QED
    BY <1>2, <2>1, <2>2, <2>3, <2>4
    DEF Serve, BeginAny, Begin, DenyAccess, Abort, Refuse, LockTicket, RefuseVersion, RefuseAssign,
        RefuseTransition, RefuseComment, AnswerChange, LoseAnswer, ReadComments, ReadHistory,
        ListPage, CountTotal
<1> QED BY <1>1, <1>2, CreateIsLedger DEF Next, vars

\* Sessions with stale reads, locks, refusals and lost answers do to the tables
\* what single, well-judged operations do.
THEOREM WorkflowActsLikeALedger == Spec => ActsLikeALedger
BY LedgerInit, LedgerStep, ShapeInvariant, ResolvedAtCorrect, PTL
DEF ActsLikeALedger, Ledger!Spec, Spec

-----------------------------------------------------------------------------
(* What the history tells *)

LEMMA ChangesAreFinite ==
    ASSUME NEW h, NEW n \in Nat
    PROVE  IsFiniteSet(Changes(h, n)) /\ Cardinality(Changes(h, n)) \in Nat
<1>1. IsFiniteSet(1..n)
  BY FS_Interval
<1>2. Changes(h, n) \in SUBSET (1..n)
  BY DEF Changes
<1> QED BY <1>1, <1>2, FS_Subset, FS_CardinalityType

\* new is h, of n entries, and entry behind them.
Grown(new, h, entry, n) ==
    /\ h \in Seq(Entry) /\ entry \in Entry /\ n = Len(h)
    /\ new \in Seq(Entry) /\ new = Append(h, entry)

LEMMA GrownEntries ==
    ASSUME NEW new, NEW h, NEW entry, NEW n, Grown(new, h, entry, n)
    PROVE  /\ n \in Nat /\ Len(h) = n /\ Len(new) = n + 1 /\ new[n + 1] = entry
           /\ \A i \in 1..n : new[i] = h[i]
BY DEF Grown

\* more is events, and behind them the event that tells of entry and row.
Reported(more, events, event, entry, row) ==
    /\ events \in Seq(Event) /\ event \in Event /\ more = Append(events, event)
    /\ event.type = entry.action /\ event.version = row.version /\ event.status = row.status

\* A history that grows tells what it told, and then the new entry.
LEMMA TellsMore ==
    ASSUME NEW new, NEW h, NEW entry, NEW n, Grown(new, h, entry, n)
    PROVE  /\ \A m \in 0..n : Changes(new, m) = Changes(h, m)
           /\ \A m \in 0..n : \A s : Tells(new, m, s) <=> Tells(h, m, s)
           /\ IsChange(entry) => Changes(new, n + 1) = Changes(h, n) \cup {n + 1}
           /\ IsChange(entry) => Tells(new, n + 1, entry.to)
           /\ ~IsChange(entry) => Changes(new, n + 1) = Changes(h, n)
           /\ ~IsChange(entry) => \A s : Tells(new, n + 1, s) <=> Tells(h, n, s)
<1>1. /\ \A i \in 1..n : new[i] = h[i]
      /\ new[n + 1] = entry /\ n \in Nat
  BY GrownEntries
<1>2. \A m \in 0..n : Changes(new, m) = Changes(h, m)
  BY <1>1 DEF Changes
<1>3. ASSUME NEW m \in 0..n, NEW s
      PROVE  Tells(new, m, s) <=> Tells(h, m, s)
  <2>1. \A i \in Changes(h, m) : new[i] = h[i]
    BY <1>1 DEF Changes
  <2> QED BY <1>2, <2>1 DEF Tells
<1>4. IsChange(entry) => Changes(new, n + 1) = Changes(h, n) \cup {n + 1}
  BY <1>1 DEF Changes
<1>5. ASSUME IsChange(entry)
      PROVE  Tells(new, n + 1, entry.to)
  <2>1. n + 1 \in Changes(new, n + 1) /\ \A k \in Changes(new, n + 1) : k <= n + 1
    BY <1>4, <1>5 DEF Changes
  <2> QED BY <1>1, <2>1 DEF Tells
<1>6. ~IsChange(entry) => Changes(new, n + 1) = Changes(h, n)
  BY <1>1 DEF Changes
<1>7. ASSUME ~IsChange(entry), NEW s
      PROVE  Tells(new, n + 1, s) <=> Tells(h, n, s)
  <2>1. \A i \in Changes(h, n) : new[i] = h[i]
    BY <1>1 DEF Changes
  <2> QED BY <1>6, <1>7, <2>1 DEF Tells
<1> QED BY <1>2, <1>3, <1>4, <1>5, <1>6, <1>7

\* What NoLostUpdate and EventsTellTheState say of one ticket: of a row and of
\* its events, given its history h.
RowStory(row, h) ==
    LET n == Len(h)
    IN  /\ row.version = Cardinality(Changes(h, n)) + 1
        /\ \A i \in Changes(h, n) : Tells(h, i - 1, h[i].from)
        /\ Tells(h, n, row.status)

EventStory(events, h) ==
    /\ Len(events) = Len(h)
    /\ \A i \in 1..Len(events) :
          /\ events[i].type = h[i].action
          /\ events[i].version = Cardinality(Changes(h, i)) + 1
          /\ Tells(h, i, events[i].status)

Story(t) ==
    /\ Exists(t) <=> history[t] # <<>>
    /\ Exists(t) => RowStory(ticket[t], history[t])
    /\ EventStory(outbox[t], history[t])

\* A change more takes a row's story on.
LEMMA RowStoryChanges ==
    ASSUME NEW new, NEW h, NEW entry, NEW n, Grown(new, h, entry, n), IsChange(entry),
           NEW old \in Row, NEW row \in Row, RowStory(old, h),
           row.version = old.version + 1, entry.from = old.status, entry.to = row.status
    PROVE  RowStory(row, new)
<1>1. /\ n \in Nat /\ Len(h) = n /\ Len(new) = n + 1 /\ new[n + 1] = entry
      /\ \A i \in 1..n : new[i] = h[i]
  BY GrownEntries
<1>2. /\ Changes(new, n + 1) = Changes(h, n) \cup {n + 1} /\ Tells(new, n + 1, row.status)
      /\ \A m \in 0..n : \A s : Tells(new, m, s) <=> Tells(h, m, s)
  BY TellsMore
<1>3. Cardinality(Changes(new, n + 1)) = Cardinality(Changes(h, n)) + 1
  <2>1. n + 1 \notin Changes(h, n)
    BY <1>1 DEF Changes
  <2> QED BY <1>1, <1>2, <2>1, ChangesAreFinite, FS_AddElement
<1>4. row.version = Cardinality(Changes(new, n + 1)) + 1
  <2>1. old.version = Cardinality(Changes(h, n)) + 1
    BY <1>1 DEF RowStory
  <2> QED BY <1>3, <2>1
<1>5. ASSUME NEW i \in Changes(new, n + 1)
      PROVE  Tells(new, i - 1, new[i].from)
  <2>1. CASE i = n + 1
    <3>1. Tells(h, n, old.status) /\ n \in 0..n /\ i - 1 = n
      BY <1>1, <2>1 DEF RowStory
    <3> QED BY <1>1, <1>2, <2>1, <3>1
  <2>2. CASE i # n + 1
    <3>1. i \in Changes(h, n) /\ i \in 1..n
      BY <1>2, <2>2 DEF Changes
    <3>2. Tells(h, i - 1, h[i].from) /\ i - 1 \in 0..n
      BY <1>1, <3>1 DEF RowStory
    <3> QED BY <1>1, <1>2, <3>1, <3>2
  <2> QED BY <2>1, <2>2
<1> QED BY <1>1, <1>2, <1>4, <1>5 DEF RowStory

\* An entry that tells of no change leaves the row's story as it is.
LEMMA RowStoryStays ==
    ASSUME NEW new, NEW h, NEW entry, NEW n, Grown(new, h, entry, n), ~IsChange(entry),
           NEW row \in Row, RowStory(row, h)
    PROVE  RowStory(row, new)
<1>1. n \in Nat /\ Len(h) = n /\ Len(new) = n + 1 /\ \A i \in 1..n : new[i] = h[i]
  BY GrownEntries
<1>2. /\ Changes(new, n + 1) = Changes(h, n)
      /\ \A m \in 0..n : \A s : Tells(new, m, s) <=> Tells(h, m, s)
      /\ \A s : Tells(new, n + 1, s) <=> Tells(h, n, s)
  BY TellsMore
<1>3. ASSUME NEW i \in Changes(h, n)
      PROVE  Tells(new, i - 1, new[i].from)
  <2>1. i \in 1..n /\ i - 1 \in 0..n
    BY <1>1 DEF Changes
  <2>2. Tells(h, i - 1, h[i].from)
    BY <1>1 DEF RowStory
  <2> QED BY <1>1, <1>2, <2>1, <2>2
<1> QED BY <1>1, <1>2, <1>3 DEF RowStory

\* The first entry of a ticket's history.
LEMMA RowStoryBegins ==
    ASSUME NEW new, NEW h, NEW entry, NEW n, Grown(new, h, entry, n), n = 0, ~IsChange(entry),
           NEW row \in Row, row.version = 1, row.status = "new"
    PROVE  RowStory(row, new)
<1>1. Len(new) = 1 /\ new[1] = entry
  <2>1. Len(new) = n + 1 /\ new[n + 1] = entry
    BY GrownEntries
  <2> QED BY <2>1
<1>2. Changes(new, 1) = {}
  BY <1>1 DEF Changes
<1> QED BY <1>1, <1>2, FS_EmptySet DEF RowStory, Tells

\* The events' story goes on with an event that tells the row the story has come to.
LEMMA EventStoryGoesOn ==
    ASSUME NEW new, NEW h, NEW entry, NEW n, Grown(new, h, entry, n),
           NEW more, NEW events, NEW event, NEW row, Reported(more, events, event, entry, row),
           EventStory(events, h), RowStory(row, new)
    PROVE  EventStory(more, new)
<1>1. /\ n \in Nat /\ Len(h) = n /\ Len(new) = n + 1 /\ new[n + 1] = entry
      /\ \A i \in 1..n : new[i] = h[i]
  BY GrownEntries
<1>2. Len(events) = n
  BY <1>1 DEF EventStory
<1>3. Len(more) = n + 1 /\ more[n + 1] = event /\ \A i \in 1..n : more[i] = events[i]
  BY <1>2 DEF Reported
<1>4. /\ \A m \in 0..n : Changes(new, m) = Changes(h, m)
      /\ \A m \in 0..n : \A s : Tells(new, m, s) <=> Tells(h, m, s)
  BY TellsMore
<1>5. row.version = Cardinality(Changes(new, n + 1)) + 1 /\ Tells(new, n + 1, row.status)
  BY <1>1 DEF RowStory
<1>6. ASSUME NEW i \in 1..(n + 1)
      PROVE  /\ more[i].type = new[i].action
             /\ more[i].version = Cardinality(Changes(new, i)) + 1
             /\ Tells(new, i, more[i].status)
  <2>1. CASE i = n + 1
    BY <1>1, <1>3, <1>5, <2>1 DEF Reported
  <2>2. CASE i # n + 1
    <3>1. i \in 1..n /\ i \in 0..n
      BY <1>1, <2>2
    <3>2. /\ events[i].type = h[i].action
          /\ events[i].version = Cardinality(Changes(h, i)) + 1
          /\ Tells(h, i, events[i].status)
      BY <1>2, <3>1 DEF EventStory
    <3> QED BY <1>1, <1>3, <1>4, <3>1, <3>2
  <2> QED BY <2>1, <2>2
<1> QED BY <1>1, <1>3, <1>6 DEF EventStory

\* A ticket nobody touches keeps its story.
LEMMA StoryStays ==
    ASSUME NEW t \in Tickets, Story(t),
           ticket'[t] = ticket[t], history'[t] = history[t], outbox'[t] = outbox[t]
    PROVE  Story(t)'
BY DEF Story, Exists

\* A new ticket's story begins, a committed change or comment goes on with it.
LEMMA CreateStory ==
    ASSUME Shape, NEW t \in Tickets, NEW user \in Users, CreateTicket(t, user), Story(t)
    PROVE  Story(t)'
<1>1. HistoryEntry("ticket.created", user, NoStatus, NoStatus, FALSE, clock) \in Entry
  BY DEF HistoryEntry, Entry, Actions, Shape, TypeOK
<1> PICK entry \in Entry :
        entry = HistoryEntry("ticket.created", user, NoStatus, NoStatus, FALSE, clock)
  BY <1>1
<1>2. entry.action = "ticket.created" /\ ~IsChange(entry)
  BY DEF HistoryEntry, IsChange
<1>3. NewTicket(user) \in Row /\ NewTicket(user).version = 1 /\ NewTicket(user).status = "new"
      /\ NewTicket(user).client = user
  BY DEF NewTicket, NoRow, Row, Statuses
<1> PICK row \in Row : row = NewTicket(user)
  BY <1>3
<1>4. OutboxEvent("ticket.created", row, FALSE) \in Event
  BY <1>3 DEF OutboxEvent, Event, Actions, Statuses
<1> PICK event \in Event : event = OutboxEvent("ticket.created", row, FALSE)
  BY <1>4
<1>5. event.type = entry.action /\ event.version = row.version /\ event.status = row.status
  BY <1>2 DEF OutboxEvent
<1>6. /\ ~Exists(t) /\ ticket'[t] = row
      /\ history'[t] = Append(history[t], entry) /\ outbox'[t] = Append(outbox[t], event)
  BY DEF CreateTicket, Record, HistoryEntry, OutboxEvent, Shape, TypeOK
<1>7. history[t] \in Seq(Entry) /\ outbox[t] \in Seq(Event) /\ history'[t] \in Seq(Entry)
  BY StepKinds DEF Shape, TypeOK, Next
<1> PICK n \in Nat : n = 0
  OBVIOUS
<1>8. Grown(history'[t], history[t], entry, n)
  BY <1>6, <1>7 DEF Grown, Story
<1>9. RowStory(row, history'[t])
  BY <1>3, <1>2, <1>8, RowStoryBegins
<1>10. EventStory(outbox'[t], history'[t])
  <2>1. Reported(outbox'[t], outbox[t], event, entry, row)
    BY <1>5, <1>6, <1>7 DEF Reported, OutboxEvent, HistoryEntry
  <2>2. EventStory(outbox[t], history[t])
    BY DEF Story
  <2> QED BY <1>8, <1>9, <2>1, <2>2, EventStoryGoesOn DEF OutboxEvent, HistoryEntry
<1>11. history'[t] # <<>>
  BY <1>7, <1>8, GrownEntries DEF OutboxEvent, HistoryEntry
<1> QED BY <1>3, <1>6, <1>9, <1>10, <1>11 DEF Story, Exists, OutboxEvent, HistoryEntry

LEMMA CommitStory ==
    ASSUME Shape, NEW r \in Requests, NEW row \in Row, NEW entry \in Entry, NEW event \in Event,
           SoundCommit(r, row, entry, event), \A t \in Tickets : Story(t)
    PROVE  \A t \in Tickets : Story(t)'
<1> PICK t \in Tickets :
        /\ t = request[r].of /\ ticket[t] = request[r].row /\ Exists(t)
        /\ ticket[t].version \in Nat \ {0} /\ ticket[t] \in Row
        /\ ticket'[t] = row /\ \A u \in Tickets \ {t} : ticket'[u] = ticket[u]
        /\ history'[t] = Append(history[t], entry)
        /\ \A u \in Tickets \ {t} : history'[u] = history[u]
        /\ outbox'[t] = Append(outbox[t], event)
        /\ \A u \in Tickets \ {t} : outbox'[u] = outbox[u]
  BY CommitEffect
<1>1. \A u \in Tickets \ {t} : Story(u)'
  BY StoryStays
<1>2. history[t] \in Seq(Entry) /\ outbox[t] \in Seq(Event) /\ history'[t] \in Seq(Entry)
  BY DEF Shape, TypeOK
<1> PICK n \in Nat : n = Len(history[t])
  BY DEF Shape, TypeOK
<1>3. Grown(history'[t], history[t], entry, n)
  BY <1>2 DEF Grown
<1>4. RowStory(ticket[t], history[t]) /\ EventStory(outbox[t], history[t])
  BY DEF Story
<1>5. RowStory(row, history'[t])
  <2>1. CASE IsChange(entry)
    <3>1. row.version = ticket[t].version + 1 /\ entry.from = ticket[t].status
          /\ entry.to = row.status
      BY <2>1 DEF SoundCommit
    <3> QED BY <1>3, <1>4, <2>1, <3>1, RowStoryChanges
  <2>2. CASE ~IsChange(entry)
    <3>1. row = ticket[t]
      BY <2>2 DEF SoundCommit
    <3> QED BY <1>3, <1>4, <2>2, <3>1, RowStoryStays
  <2> QED BY <2>1, <2>2
<1>6. EventStory(outbox'[t], history'[t])
  <2>1. Reported(outbox'[t], outbox[t], event, entry, row)
    BY <1>2 DEF SoundCommit, Reported
  <2> QED BY <1>3, <1>4, <1>5, <2>1, EventStoryGoesOn
<1>7. row.version > 0
  BY DEF SoundCommit, Row
<1>8. history'[t] # <<>>
  BY <1>2, <1>3, GrownEntries
<1>9. Story(t)'
  BY <1>5, <1>6, <1>7, <1>8 DEF Story, Exists
<1> QED BY <1>1, <1>9

LEMMA StoryStep ==
    ASSUME Shape, \A t \in Tickets : Story(t), [Next]_vars
    PROVE  \A t \in Tickets : Story(t)'
<1>1. ASSUME Quiet
      PROVE  \A t \in Tickets : Story(t)'
  BY <1>1, StoryStays DEF Quiet
<1>2. ASSUME NEW t \in Tickets, NEW user \in Users, CreateTicket(t, user)
      PROVE  \A u \in Tickets : Story(u)'
  <2>1. \A u \in Tickets \ {t} :
            ticket'[u] = ticket[u] /\ history'[u] = history[u] /\ outbox'[u] = outbox[u]
    BY <1>2 DEF CreateTicket, Record, HistoryEntry, OutboxEvent, Shape, TypeOK
  <2>2. \A u \in Tickets \ {t} : Story(u)'
    BY <2>1, StoryStays
  <2> QED BY <1>2, <2>2, CreateStory
<1> QED
  BY <1>1, <1>2, CommitStory, StepKinds DEF SoundStep, SessionStep, Quiet, vars

LEMMA StoryInvariant == Spec => [](\A t \in Tickets : Story(t))
<1>1. Init => \A t \in Tickets : Story(t)
  BY DEF Init, Story, Exists, NoRow, EventStory
<1>2. Shape /\ (\A t \in Tickets : Story(t)) /\ [Next]_vars => (\A t \in Tickets : Story(t))'
  BY StoryStep
<1> QED BY <1>1, <1>2, ShapeInvariant, PTL DEF Spec

\* Whatever requests raced for a ticket, its history accounts for its version and
\* its status, change by change.
THEOREM NoUpdateIsLost == Spec => []NoLostUpdate
<1>1. (\A t \in Tickets : Story(t)) => NoLostUpdate
  BY DEF Story, RowStory, NoLostUpdate
<1> QED BY <1>1, StoryInvariant, PTL

\* Every event told the truth when it was committed.
THEOREM EventsAreTrue == Spec => []EventsTellTheState
<1>1. (\A t \in Tickets : Story(t)) => EventsTellTheState
  BY DEF Story, EventStory, EventsTellTheState
<1> QED BY <1>1, StoryInvariant, PTL

-----------------------------------------------------------------------------
(* Answers *)

\* The row is told by a beginning of the history.
Remembered(row, h) ==
    \E n \in 1..Len(h) :
        /\ row.version = Cardinality(Changes(h, n)) + 1
        /\ Tells(h, n, row.status)

LEMMA RowIsRemembered ==
    ASSUME NEW row, NEW h \in Seq(Entry), RowStory(row, h), h # <<>>
    PROVE  Remembered(row, h)
<1> PICK n \in Nat : n = Len(h) /\ n # 0
  OBVIOUS
<1> QED BY DEF RowStory, Remembered

LEMMA RowStaysRemembered ==
    ASSUME NEW row, NEW new, NEW h, NEW entry, NEW n, Grown(new, h, entry, n), Remembered(row, h)
    PROVE  Remembered(row, new)
<1>1. n \in Nat /\ Len(h) = n /\ Len(new) = n + 1
  BY GrownEntries
<1> PICK m \in 1..n : row.version = Cardinality(Changes(h, m)) + 1 /\ Tells(h, m, row.status)
  BY <1>1 DEF Remembered
<1>2. Changes(new, m) = Changes(h, m) /\ (Tells(new, m, row.status) <=> Tells(h, m, row.status))
  BY <1>1, TellsMore
<1> QED BY <1>1, <1>2 DEF Remembered

\* Histories only grow, and those of tickets that somebody is engaged with are kept.
LEMMA HistoryGrows ==
    ASSUME Shape, [Next]_vars, NEW t \in Tickets
    PROVE  \/ history'[t] = history[t]
           \/ \E entry \in Entry, n \in Nat : Grown(history'[t], history[t], entry, n)
<1>0. history[t] \in Seq(Entry) /\ Len(history[t]) \in Nat
  BY DEF Shape, TypeOK
<1>1. ASSUME NEW u \in Tickets, NEW user \in Users, CreateTicket(u, user)
      PROVE  \/ history'[t] = history[t]
             \/ \E entry \in Entry : history'[t] = Append(history[t], entry)
  <2>1. HistoryEntry("ticket.created", user, NoStatus, NoStatus, FALSE, clock) \in Entry
    BY DEF HistoryEntry, Entry, Actions, Shape, TypeOK
  <2> PICK entry \in Entry :
          entry = HistoryEntry("ticket.created", user, NoStatus, NoStatus, FALSE, clock)
    BY <2>1
  <2>2. history' = [history EXCEPT ![u] = Append(@, entry)]
    BY <1>1 DEF CreateTicket, Record, HistoryEntry, OutboxEvent
  <2>3. history'[t] = history[t] \/ history'[t] = Append(history[t], entry)
    BY <2>2 DEF Shape, TypeOK, HistoryEntry
  <2> QED BY <2>3, Zenon
<1>2. ASSUME NEW r \in Requests, NEW row \in Row, NEW entry \in Entry, NEW event \in Event,
             SoundCommit(r, row, entry, event)
      PROVE  history'[t] = history[t] \/ history'[t] = Append(history[t], entry)
  BY <1>2 DEF SoundCommit, CommitStep, Shape, TypeOK
<1>3. \/ history'[t] = history[t]
      \/ \E entry \in Entry : history'[t] = Append(history[t], entry)
  BY <1>1, <1>2, StepKinds DEF SoundStep, SessionStep, Quiet, vars
<1>4. ASSUME NEW entry \in Entry, history'[t] = Append(history[t], entry)
      PROVE  Grown(history'[t], history[t], entry, Len(history[t]))
  BY <1>0, <1>4 DEF Grown
<1> QED BY <1>0, <1>3, <1>4

\* What AnswersShowTheChange says of one request.
AnswerOK(r) ==
    request[r].phase = "done" /\ Versioned(request[r].kind) =>
        /\ request[r].version < request[r].row.version
        /\ Remembered(request[r].row, history[request[r].of])

LEMMA AnswerStays ==
    ASSUME Shape, [Next]_vars, NEW r \in Requests, request'[r] = request[r], AnswerOK(r)
    PROVE  AnswerOK(r)'
<1> SUFFICES ASSUME request[r].phase = "done", Versioned(request[r].kind)
             PROVE  Remembered(request[r].row, history'[request[r].of])
  BY DEF AnswerOK
<1> PICK t \in Tickets : t = request[r].of
  BY DEF Shape, SessionOK, Engaged, Versioned
<1>1. Remembered(request[r].row, history[t])
  BY DEF AnswerOK
<1>2. \/ history'[t] = history[t]
      \/ \E entry \in Entry, n \in Nat : Grown(history'[t], history[t], entry, n)
  BY HistoryGrows
<1> QED BY <1>1, <1>2, RowStaysRemembered

LEMMA AnswerStep ==
    ASSUME Shape, \A t \in Tickets : Story(t), [Next]_vars, \A r \in Requests : AnswerOK(r)
    PROVE  \A r \in Requests : AnswerOK(r)'
<1>1. CASE request' = request
  BY <1>1, AnswerStays
<1>2. ASSUME NEW p \in Requests, NEW row \in Row, NEW entry \in Entry, NEW event \in Event,
             SoundCommit(p, row, entry, event)
      PROVE  \A r \in Requests : AnswerOK(r)'
  <2>1. \A r \in Requests \ {p} : request'[r] = request[r]
    BY <1>2 DEF SoundCommit, CommitStep, Shape, TypeOK
  <2>2. request'[p].phase = "committed"
    BY <1>2 DEF SoundCommit, CommitStep, Shape, TypeOK, Request
  <2> QED BY <2>1, <2>2, AnswerStays DEF AnswerOK
<1>3. ASSUME NEW p \in Requests, NEW q \in Request, SoundStep(p, q)
      PROVE  \A r \in Requests : AnswerOK(r)'
  <2>1. request'[p] = q /\ history' = history /\ \A r \in Requests \ {p} : request'[r] = request[r]
    BY <1>3 DEF SoundStep, SessionStep, Quiet, Shape, TypeOK
  <2>2. ASSUME q.phase = "done", Versioned(q.kind)
        PROVE  q.version < q.row.version /\ Remembered(q.row, history[q.of])
    <3>1. /\ request[p].phase = "committed" /\ q.kind = request[p].kind /\ q.of = request[p].of
          /\ q.version = request[p].version /\ q.row = ticket[q.of]
      BY <1>3, <2>2 DEF SoundStep, Begins, GoesOn
    <3> PICK t \in Tickets : t = q.of /\ Exists(t)
      BY <3>1 DEF Shape, SessionOK, Engaged
    <3>2. q.version < ticket[t].version /\ q.version \in Nat /\ ticket[t].version \in Nat
      BY <2>2, <3>1 DEF Shape, SessionOK, Committed, TypeOK, Row, Request
    <3>3. RowStory(ticket[t], history[t]) /\ history[t] \in Seq(Entry) /\ history[t] # <<>>
      BY DEF Story, Shape, TypeOK
    <3> QED BY <3>1, <3>2, <3>3, RowIsRemembered
  <2> QED BY <2>1, <2>2, AnswerStays DEF AnswerOK
<1> QED BY <1>1, <1>2, <1>3, StepKinds DEF CreateTicket, vars

\* The answer to a change is a row that was committed, and no older than the change.
THEOREM AnswersAreTrue == Spec => []AnswersShowTheChange
<1>1. Init => \A r \in Requests : AnswerOK(r)
  BY DEF Init, AnswerOK, Unused
<1>2. /\ Shape /\ (\A t \in Tickets : Story(t)) /\ [Next]_vars /\ (\A r \in Requests : AnswerOK(r))
      => (\A r \in Requests : AnswerOK(r))'
  BY AnswerStep
<1>3. (\A r \in Requests : AnswerOK(r)) => AnswersShowTheChange
  BY DEF AnswerOK, Remembered, AnswersShowTheChange
<1> QED BY <1>1, <1>2, <1>3, ShapeInvariant, StoryInvariant, PTL DEF Spec

-----------------------------------------------------------------------------
(* Pages *)

\* A ticket that exists stays, with its client, and its version only grows.
LEMMA RowsLast ==
    ASSUME Shape, [Next]_vars, NEW t \in Tickets
    PROVE  /\ ticket[t].version \in Nat /\ ticket'[t].version \in Nat
           /\ ticket[t].version <= ticket'[t].version
           /\ Exists(t) => Exists(t)' /\ ticket'[t].client = ticket[t].client
<1>1. ticket[t].version \in Nat
  BY DEF Shape, TypeOK, Row
<1>2. ASSUME NEW u \in Tickets, NEW user \in Users, CreateTicket(u, user)
      PROVE  t = u \/ ticket'[t] = ticket[t]
  BY <1>2, CreateEffect
<1>3. ASSUME NEW u \in Tickets, NEW user \in Users, CreateTicket(u, user)
      PROVE  t = u => ~Exists(t) /\ ticket[t].version = 0 /\ ticket'[t].version = 1
  <2>1. NoRow.version = 0 /\ NewTicket(user).version = 1
    BY DEF NewTicket, NoRow
  <2> QED BY <1>3, <2>1, CreateEffect
<1>4. ASSUME NEW r \in Requests, NEW row \in Row, NEW entry \in Entry, NEW event \in Event,
             SoundCommit(r, row, entry, event)
      PROVE  \/ ticket'[t] = ticket[t]
             \/ /\ ticket'[t].version \in {ticket[t].version, ticket[t].version + 1}
                /\ ticket'[t].client = ticket[t].client
  <2> PICK u \in Tickets :
          /\ ticket[u] = request[r].row
          /\ ticket'[u] = row /\ \A v \in Tickets \ {u} : ticket'[v] = ticket[v]
    BY <1>4, CommitEffect
  <2> QED BY <1>4 DEF SoundCommit
<1>5. \/ ticket'[t] = ticket[t]
      \/ ~Exists(t) /\ ticket[t].version = 0 /\ ticket'[t].version = 1
      \/ /\ ticket'[t].version \in {ticket[t].version, ticket[t].version + 1}
         /\ ticket'[t].client = ticket[t].client
  BY <1>2, <1>3, <1>4, StepKinds DEF SoundStep, SessionStep, Quiet, vars
<1> QED BY <1>1, <1>5 DEF Exists

\* How a request comes to read: it begins to, or takes the next statement's result.
LEMMA ReadingSteps ==
    ASSUME Shape, [Next]_vars, NEW r \in Requests,
           request'[r] # request[r], request'[r].kind \in {"read", "list"}
    PROVE  \/ \E user \in Users, t \in Tickets : Begin(r, "read", user, t, 0)
           \/ ReadComments(r) \/ ReadHistory(r)
           \/ \E user \in Users, filter \in Statuses \cup {NoStatus}, page \in SUBSET Tickets :
                  ListPage(r, user, filter, page)
           \/ CountTotal(r)
<1>1. request[r] \in Request /\ SessionOK(r)
  BY DEF Shape, TypeOK
<1>2. PICK p \in Requests : Serve(p)
  BY DEF Next, vars, CreateTicket
<1>3. p = r
  BY <1>2 DEF Serve, BeginAny, Begin, DenyAccess, Abort, Refuse, LockTicket, RefuseVersion,
              AssignTicket, TransitionTicket, AddComment, CommitRow, Advance, RefuseAssign,
              RefuseTransition, RefuseComment, AnswerChange, LoseAnswer, ReadComments,
              ReadHistory, ListPage, CountTotal, Shape, TypeOK
<1>4. ASSUME Refuse(r)
      PROVE  FALSE
  <2>1. request'[r].kind = "none"
    BY <1>4 DEF Refuse, Shape, TypeOK, Unused
  <2> QED BY <2>1
<1>5. ASSUME BeginAny(r)
      PROVE  \E user \in Users, t \in Tickets : Begin(r, "read", user, t, 0)
  <2>1. ASSUME NEW kind, NEW user, NEW t, NEW version, Begin(r, kind, user, t, version)
        PROVE  request'[r].kind = kind
    BY <2>1 DEF Begin, Shape, TypeOK, Unused
  <2> QED BY <1>5, <2>1 DEF BeginAny
<1>6. ASSUME \/ LockTicket(r) \/ AnswerChange(r) \/ LoseAnswer(r)
             \/ \E assignee \in Users : AssignTicket(r, assignee)
             \/ \E target \in Statuses : TransitionTicket(r, target)
             \/ \E internal \in BOOLEAN : AddComment(r, internal)
      PROVE  FALSE
  <2>1. /\ request[r].phase \in {"open", "locked", "committed"}
        /\ request[r].phase = "open" => request[r].kind # "read"
    BY <1>6 DEF LockTicket, CanLock, AnswerChange, LoseAnswer, Answers, AssignTicket,
                TransitionTicket, AddComment
  <2>2. request'[r].kind = request[r].kind
    <3>1. CASE LockTicket(r)
      BY <1>1, <3>1 DEF LockTicket, Shape, TypeOK, Request
    <3>2. CASE AnswerChange(r)
      BY <1>1, <3>2 DEF AnswerChange, Shape, TypeOK, Request
    <3>3. CASE Advance(r, "lost") \/ Advance(r, "committed")
      BY <1>1, <3>3 DEF Advance, Shape, TypeOK, Request
    <3> QED BY <1>6, <3>1, <3>2, <3>3
            DEF LoseAnswer, AssignTicket, TransitionTicket, AddComment, CommitRow
  <2> QED BY <1>1, <2>1, <2>2 DEF SessionOK, Engaged
<1> QED BY <1>2, <1>3, <1>4, <1>5, <1>6
        DEF Serve, DenyAccess, Abort, RefuseVersion, RefuseAssign, RefuseTransition, RefuseComment

\* An unfiltered page holds tickets its reader may still see when they are
\* counted, and then no more of them than are counted.
PageOK(r) ==
    LET q == request[r]
    IN  q.kind = "list" /\ q.filter = NoStatus =>
            /\ q.phase = "reading" =>
                  \A t \in q.page : /\ t \in Tickets /\ Exists(t)
                                    /\ q.actor \in Staff \/ ticket[t].client = q.actor
            /\ q.phase = "done" => Cardinality(q.page) <= q.total

LEMMA PageStays ==
    ASSUME Shape, [Next]_vars, NEW r \in Requests, request'[r] = request[r], PageOK(r)
    PROVE  PageOK(r)'
BY RowsLast DEF PageOK

LEMMA PageListed ==
    ASSUME Shape, NEW r \in Requests, NEW user \in Users,
           NEW filter \in Statuses \cup {NoStatus}, NEW page \in SUBSET Tickets,
           ListPage(r, user, filter, page)
    PROVE  PageOK(r)'
<1>1. /\ request'[r].phase = "reading" /\ request'[r].actor = user /\ request'[r].page = page
      /\ ticket' = ticket
  BY DEF ListPage, Shape, TypeOK, Unused
<1>2. \A t \in page : t \in Tickets /\ Exists(t) /\ (user \in Staff \/ ticket[t].client = user)
  BY DEF ListPage, Passes, Mine
<1> QED BY <1>1, <1>2 DEF PageOK, Exists

LEMMA PageCounted ==
    ASSUME Shape, NEW r \in Requests, PageOK(r), CountTotal(r)
    PROVE  PageOK(r)'
<1> DEFINE q == request[r]
           counted == {t \in Tickets :
                          /\ Passes(t, q.filter)
                          /\ q.actor \in Staff \/ ticket[t].client = q.actor}
<1>1. /\ request'[r].kind = q.kind /\ request'[r].filter = q.filter
      /\ request'[r].phase = "done" /\ request'[r].page = q.page
      /\ request'[r].total = Cardinality(counted)
  BY DEF CountTotal, Shape, TypeOK, Request
<1>2. ASSUME q.filter = NoStatus
      PROVE  Cardinality(q.page) <= Cardinality(counted)
  <2>1. q.page \subseteq counted
    BY <1>2 DEF PageOK, CountTotal, Passes
  <2>2. IsFiniteSet(counted)
    BY TableAssumption, FS_Subset
  <2> QED BY <2>1, <2>2, FS_Subset
<1> QED BY <1>1, <1>2 DEF PageOK

LEMMA PageStep ==
    ASSUME Shape, [Next]_vars, NEW r \in Requests, PageOK(r)
    PROVE  PageOK(r)'
<1>1. CASE request'[r] = request[r]
  BY <1>1, PageStays
<1>2. CASE request'[r] # request[r] /\ request'[r].kind = "list"
  <2>1. ASSUME NEW user \in Users, NEW t \in Tickets, Begin(r, "read", user, t, 0)
        PROVE  FALSE
    BY <1>2, <2>1 DEF Begin, Shape, TypeOK, Unused
  <2>2. ~(ReadComments(r) \/ ReadHistory(r))
    <3>1. ASSUME ReadComments(r) \/ ReadHistory(r)
          PROVE  request'[r].kind = "read"
      <4>1. request[r] \in Request /\ request[r].kind = "read"
        BY <3>1 DEF ReadComments, ReadHistory, CanLoad, Shape, TypeOK
      <4>2. \A part \in Parts : Loaded(r, part) \in Request /\ Loaded(r, part).kind = "read"
        BY <4>1, LoadedPart
      <4>3. "comments" \in Parts /\ "history" \in Parts
        BY DEF Parts
      <4> QED BY <3>1, <4>2, <4>3 DEF ReadComments, ReadHistory, Shape, TypeOK, Request
    <3> QED BY <1>2, <3>1
  <2> QED BY <1>2, <2>1, <2>2, ReadingSteps, PageListed, PageCounted
<1>3. CASE request'[r].kind # "list"
  BY <1>3 DEF PageOK
<1> QED BY <1>1, <1>2, <1>3

\* Whatever is created between the page and its count, the count covers the page.
THEOREM TotalsCoverPages == Spec => []TotalCoversPage
<1>1. Init => \A r \in Requests : PageOK(r)
  BY DEF Init, PageOK, Unused
<1>2. Shape /\ (\A r \in Requests : PageOK(r)) /\ [Next]_vars => (\A r \in Requests : PageOK(r))'
  BY PageStep
<1>3. (\A r \in Requests : PageOK(r)) => TotalCoversPage
  BY DEF PageOK, TotalCoversPage
<1> QED BY <1>1, <1>2, <1>3, ShapeInvariant, PTL DEF Spec

-----------------------------------------------------------------------------
(* The order of the display *)

\* What happened so far happened before the next transaction starts, and no two
\* sessions start together.
Stamped ==
    /\ \A t \in Tickets : \A i \in 1..Len(history[t]) : history[t][i].created_at < clock
    /\ \A r \in Requests : Engaged(r) => request[r].started < clock
    /\ \A q, r \in Requests :
          /\ Engaged(q) /\ Engaged(r) /\ request[q].started = request[r].started
          => q = r

\* A session that has not committed has left no entry yet; one that quotes a
\* version it has seen starts after the changes up to that version, and is late
\* as soon as there is another.
Pending(r) ==
    LET q == request[r]
        h == history[q.of]
    IN  q.phase \in {"open", "locked"} =>
            /\ \A i \in 1..Len(h) : h[i].created_at # q.started
            /\ Versioned(q.kind) /\ ~q.guess =>
                  /\ q.version <= ticket[q.of].version
                  /\ \/ q.version < ticket[q.of].version
                     \/ \A i \in 1..Len(h) : IsChange(h[i]) => h[i].created_at < q.started

\* What DisplayedOrderIsCommitOrder says of one request.
InDisplayOrder(h, started) ==
    \A i, j \in 1..Len(h) :
        /\ i < j /\ IsChange(h[i]) /\ h[j].created_at = started
        => h[i].created_at < h[j].created_at

Settled(r) ==
    LET q == request[r]
    IN  Committed(r) /\ Versioned(q.kind) /\ ~q.guess => InDisplayOrder(history[q.of], q.started)

InOrderSoFar == Stamped /\ \A r \in Requests : Pending(r) /\ Settled(r)

\* What a request that is under way with its ticket, or through, is known to hold.
LEMMA EngagedRequest ==
    ASSUME Shape, NEW r \in Requests
    PROVE  /\ request[r] \in Request /\ request[r].started \in Nat /\ request[r].version \in Nat
           /\ request[r].phase \in {"open", "locked", "committed"} => Engaged(r)
           /\ Committed(r) /\ Versioned(request[r].kind) => Engaged(r)
           /\ Engaged(r) => request[r].of \in Tickets /\ Exists(request[r].of)
<1>1. request[r] \in Request /\ SessionOK(r)
  BY DEF Shape, TypeOK
<1>2. request[r].started \in Nat /\ request[r].version \in Nat
  BY <1>1 DEF Request
<1> QED BY <1>1, <1>2 DEF SessionOK, Engaged, Committed, Versioned

\* The entries of a history, and of one that grew.
LEMMA EntryTimes ==
    ASSUME Shape, NEW t \in Tickets
    PROVE  /\ history[t] \in Seq(Entry) /\ Len(history[t]) \in Nat
           /\ \A i \in 1..Len(history[t]) : history[t][i].created_at \in Nat
<1>1. history[t] \in Seq(Entry)
  BY DEF Shape, TypeOK
<1>2. \A i \in 1..Len(history[t]) : history[t][i] \in Entry
  BY <1>1
<1> QED BY <1>1, <1>2 DEF Entry

\* An entry of another moment leaves a request's order as it is.
LEMMA OrderStays ==
    ASSUME NEW new, NEW h, NEW entry, NEW n, Grown(new, h, entry, n), NEW started,
           entry.created_at # started, InDisplayOrder(h, started)
    PROVE  InDisplayOrder(new, started)
<1>1. /\ n \in Nat /\ Len(h) = n /\ Len(new) = n + 1 /\ new[n + 1] = entry
      /\ \A i \in 1..n : new[i] = h[i]
  BY GrownEntries
<1> SUFFICES ASSUME NEW i \in 1..(n + 1), NEW j \in 1..(n + 1), i < j, IsChange(new[i]),
                    new[j].created_at = started
             PROVE  new[i].created_at < new[j].created_at
  BY <1>1 DEF InDisplayOrder
<1>2. j # n + 1
  BY <1>1
<1>3. i \in 1..n /\ j \in 1..n
  BY <1>1, <1>2
<1> QED BY <1>1, <1>3 DEF InDisplayOrder

\* An entry behind changes that are all older than it, and the first of its moment.
LEMMA OrderBegins ==
    ASSUME NEW new, NEW h, NEW entry, NEW n, Grown(new, h, entry, n), NEW started,
           entry.created_at = started,
           \A i \in 1..Len(h) : h[i].created_at # started,
           \A i \in 1..Len(h) : IsChange(h[i]) => h[i].created_at < started
    PROVE  InDisplayOrder(new, started)
<1>1. /\ n \in Nat /\ Len(h) = n /\ Len(new) = n + 1 /\ new[n + 1] = entry
      /\ \A i \in 1..n : new[i] = h[i]
  BY GrownEntries
<1> SUFFICES ASSUME NEW i \in 1..(n + 1), NEW j \in 1..(n + 1), i < j, IsChange(new[i]),
                    new[j].created_at = started
             PROVE  new[i].created_at < new[j].created_at
  BY <1>1 DEF InDisplayOrder
<1>2. j = n + 1
  BY <1>1
<1>3. i \in 1..n
  BY <1>1, <1>2
<1> QED BY <1>1, <1>2, <1>3

\* What is older than a moment stays so when an older entry is added.
LEMMA OlderThan ==
    ASSUME NEW new, NEW h, NEW entry, NEW n, Grown(new, h, entry, n), NEW now,
           entry.created_at < now, \A i \in 1..Len(h) : h[i].created_at < now
    PROVE  \A i \in 1..Len(new) : new[i].created_at < now
<1>1. /\ n \in Nat /\ Len(h) = n /\ Len(new) = n + 1 /\ new[n + 1] = entry
      /\ \A i \in 1..n : new[i] = h[i]
  BY GrownEntries
<1> SUFFICES ASSUME NEW i \in 1..(n + 1)
             PROVE  new[i].created_at < now
  BY <1>1
<1>2. CASE i = n + 1
  BY <1>1, <1>2
<1>3. CASE i # n + 1
  BY <1>1, <1>3
<1> QED BY <1>2, <1>3

LEMMA CreateKeepsOrder ==
    ASSUME Shape, Shape', InOrderSoFar, NEW t \in Tickets, NEW user \in Users,
           CreateTicket(t, user)
    PROVE  InOrderSoFar'
<1>1. /\ request' = request /\ clock \in Nat /\ clock' = clock + 1 /\ ~Exists(t)
      /\ \A u \in Tickets \ {t} : ticket'[u] = ticket[u]
  BY CreateEffect DEF CreateTicket, Shape, TypeOK
<1>2. HistoryEntry("ticket.created", user, NoStatus, NoStatus, FALSE, clock) \in Entry
  BY DEF HistoryEntry, Entry, Actions, Shape, TypeOK
<1> PICK entry \in Entry :
        entry = HistoryEntry("ticket.created", user, NoStatus, NoStatus, FALSE, clock)
  BY <1>2
<1>3. entry.created_at = clock
  BY DEF HistoryEntry
<1>4. history' = [history EXCEPT ![t] = Append(@, entry)]
  BY DEF CreateTicket, Record, HistoryEntry, OutboxEvent
<1>5. \A u \in Tickets \ {t} : history'[u] = history[u]
  BY <1>4 DEF Shape, TypeOK
<1>6. Stamped'
  <2>1. ASSUME NEW u \in Tickets, NEW i \in 1..Len(history'[u])
        PROVE  history'[u][i].created_at < clock'
    <3>1. /\ Len(history[u]) \in Nat
          /\ \A k \in 1..Len(history[u]) : /\ history[u][k].created_at \in Nat
                                           /\ history[u][k].created_at < clock
      BY EntryTimes DEF InOrderSoFar, Stamped
    <3>2. CASE u = t
      <4> PICK n \in Nat : n = Len(history[t])
        BY <3>1, <3>2
      <4>1. Grown(history'[t], history[t], entry, n)
        BY <1>4 DEF Grown, Shape, TypeOK
      <4>2. \A k \in 1..Len(history[t]) : history[t][k].created_at < clock'
        BY <1>1, <3>1, <3>2 DEF HistoryEntry
      <4>3. entry.created_at < clock'
        BY <1>1, <1>3 DEF HistoryEntry
      <4>4. \A k \in 1..Len(history'[t]) : history'[t][k].created_at < clock'
        BY <4>1, <4>2, <4>3, OlderThan DEF HistoryEntry
      <4> QED BY <2>1, <3>2, <4>4 DEF HistoryEntry
    <3>3. CASE u # t
      BY <1>1, <1>5, <2>1, <3>1, <3>3
    <3> QED BY <3>2, <3>3
  <2>2. \A r \in Requests : Engaged(r) => request[r].started < clock'
    BY <1>1, EngagedRequest DEF InOrderSoFar, Stamped
  <2> QED BY <1>1, <2>1, <2>2 DEF InOrderSoFar, Stamped, Engaged
<1>7. ASSUME NEW r \in Requests
      PROVE  Pending(r)' /\ Settled(r)'
  <2>1. Engaged(r) => request[r].of \in Tickets \ {t}
    BY <1>1, EngagedRequest
  <2>2. Engaged(r) => history'[request[r].of] = history[request[r].of]
                      /\ ticket'[request[r].of] = ticket[request[r].of]
    BY <1>1, <1>5, <2>1
  <2>3. Pending(r)'
    BY <1>1, <2>2, EngagedRequest DEF InOrderSoFar, Pending
  <2>4. Settled(r)'
    BY <1>1, <2>2, EngagedRequest DEF InOrderSoFar, Settled, Committed
  <2> QED BY <2>3, <2>4
<1> QED BY <1>6, <1>7 DEF InOrderSoFar

\* What a commit means for the requests: its own, and the others.
LEMMA CommitTimes ==
    ASSUME Shape, InOrderSoFar, NEW p \in Requests, NEW row \in Row, NEW entry \in Entry,
           NEW event \in Event, SoundCommit(p, row, entry, event)
    PROVE  \E t \in Tickets, n \in Nat :
              /\ t = request[p].of /\ Grown(history'[t], history[t], entry, n)
              /\ \A u \in Tickets \ {t} : history'[u] = history[u] /\ ticket'[u] = ticket[u]
              /\ entry.created_at = request[p].started /\ request[p].started \in Nat
              /\ request[p].started < clock /\ clock' = clock /\ clock \in Nat
              /\ request[p].phase = "locked" /\ Engaged(p)
              /\ request'[p].phase = "committed" /\ request'[p].of = t
              /\ request'[p].kind = request[p].kind /\ request'[p].started = request[p].started
              /\ request'[p].guess = request[p].guess
              /\ \A r \in Requests \ {p} :
                    /\ request'[r] = request[r]
                    /\ Engaged(r) => request[r].started # entry.created_at
<1> PICK t \in Tickets :
        /\ t = request[p].of
        /\ \A u \in Tickets \ {t} : ticket'[u] = ticket[u]
        /\ history'[t] = Append(history[t], entry)
        /\ \A u \in Tickets \ {t} : history'[u] = history[u]
  BY CommitEffect
<1> PICK n \in Nat : n = Len(history[t])
  BY EntryTimes
<1>1. history'[t] \in Seq(Entry)
  BY EntryTimes
<1>2. Grown(history'[t], history[t], entry, n)
  BY <1>1, EntryTimes DEF Grown
<1>3. /\ request[p].phase = "locked" /\ entry.created_at = request[p].started
      /\ clock' = clock /\ clock \in Nat
      /\ request' = [request EXCEPT ![p] = [@ EXCEPT !.phase = "committed"]]
  BY DEF SoundCommit, CommitStep, Shape, TypeOK
<1>4. Engaged(p) /\ request[p].started \in Nat
  BY <1>3, EngagedRequest
<1>5. /\ request'[p].phase = "committed" /\ request'[p].of = t
      /\ request'[p].kind = request[p].kind /\ request'[p].started = request[p].started
      /\ request'[p].guess = request[p].guess
      /\ \A r \in Requests \ {p} : request'[r] = request[r]
  BY <1>3 DEF Shape, TypeOK, Request
<1>6. /\ request[p].started < clock
      /\ \A r \in Requests \ {p} : Engaged(r) => request[r].started # entry.created_at
  BY <1>3, <1>4 DEF InOrderSoFar, Stamped
<1> WITNESS t \in Tickets, n \in Nat
<1> QED BY <1>2, <1>3, <1>4, <1>5, <1>6

LEMMA CommitKeepsStamps ==
    ASSUME Shape, InOrderSoFar, NEW p \in Requests, NEW row \in Row, NEW entry \in Entry,
           NEW event \in Event, SoundCommit(p, row, entry, event)
    PROVE  Stamped'
<1> PICK t \in Tickets, n \in Nat :
        /\ Grown(history'[t], history[t], entry, n)
        /\ \A u \in Tickets \ {t} : history'[u] = history[u]
        /\ entry.created_at = request[p].started /\ request[p].started < clock /\ clock' = clock
        /\ Engaged(p)
        /\ request'[p].phase = "committed" /\ request'[p].kind = request[p].kind
        /\ request'[p].started = request[p].started
        /\ \A r \in Requests \ {p} : request'[r] = request[r]
  BY CommitTimes
<1>1. ASSUME NEW u \in Tickets
      PROVE  \A i \in 1..Len(history'[u]) : history'[u][i].created_at < clock
  <2>1. \A i \in 1..Len(history[u]) : history[u][i].created_at < clock
    BY DEF InOrderSoFar, Stamped
  <2>2. CASE u = t
    BY <2>1, <2>2, OlderThan
  <2>3. CASE u # t
    BY <2>1, <2>3
  <2> QED BY <2>2, <2>3
<1>2. \A r \in Requests : /\ Engaged(r)' <=> Engaged(r)
                          /\ request'[r].started = request[r].started
  BY DEF Engaged
<1> QED BY <1>1, <1>2 DEF InOrderSoFar, Stamped

\* Who commits with a version it has seen finds only older changes before it.
LEMMA CommitterInOrder ==
    ASSUME Shape, InOrderSoFar, NEW p \in Requests, NEW row \in Row, NEW entry \in Entry,
           NEW event \in Event, SoundCommit(p, row, entry, event)
    PROVE  Pending(p)' /\ Settled(p)'
<1> PICK t \in Tickets, n \in Nat :
        /\ t = request[p].of /\ Grown(history'[t], history[t], entry, n)
        /\ entry.created_at = request[p].started
        /\ request[p].phase = "locked"
        /\ request'[p].phase = "committed" /\ request'[p].of = t
        /\ request'[p].kind = request[p].kind /\ request'[p].started = request[p].started
        /\ request'[p].guess = request[p].guess
  BY CommitTimes
<1>1. Pending(p)'
  BY DEF Pending
<1>2. ASSUME Versioned(request[p].kind), ~request[p].guess
      PROVE  InDisplayOrder(history'[t], request[p].started)
  <2>1. request[p].version = ticket[t].version /\ ticket[t].version \in Nat
    BY <1>2 DEF Shape, SessionOK, TypeOK, Row
  <2>2. /\ \A i \in 1..Len(history[t]) : history[t][i].created_at # request[p].started
        /\ \A i \in 1..Len(history[t]) : IsChange(history[t][i])
                                             => history[t][i].created_at < request[p].started
    BY <1>2, <2>1 DEF InOrderSoFar, Pending
  <2> QED BY <2>2, OrderBegins
<1> QED BY <1>1, <1>2 DEF Settled

\* The others stay as they are: an entry that tells of a change makes those late
\* that wait with the version it spent.
LEMMA OthersInOrder ==
    ASSUME Shape, Shape', InOrderSoFar, NEW p \in Requests, NEW row \in Row, NEW entry \in Entry,
           NEW event \in Event, SoundCommit(p, row, entry, event), NEW r \in Requests \ {p}
    PROVE  Pending(r)' /\ Settled(r)'
<1> PICK t \in Tickets, n \in Nat :
        /\ t = request[p].of /\ Grown(history'[t], history[t], entry, n)
        /\ \A u \in Tickets \ {t} : history'[u] = history[u] /\ ticket'[u] = ticket[u]
        /\ \A q \in Requests \ {p} :
              /\ request'[q] = request[q]
              /\ Engaged(q) => request[q].started # entry.created_at
  BY CommitTimes
<1>1. Pending(r) /\ Settled(r) /\ request'[r] = request[r]
  BY DEF InOrderSoFar
<1>2. CASE ~Engaged(r)
  BY <1>2, EngagedRequest DEF Pending, Settled, Committed
<1>3. CASE Engaged(r) /\ request[r].of # t
  <2>1. history'[request[r].of] = history[request[r].of]
        /\ ticket'[request[r].of] = ticket[request[r].of]
    BY <1>3, EngagedRequest
  <2> QED BY <1>1, <2>1 DEF Pending, Settled, Committed
<1>4. CASE Engaged(r) /\ request[r].of = t
  <2>1. /\ n \in Nat /\ Len(history[t]) = n /\ Len(history'[t]) = n + 1
        /\ history'[t][n + 1] = entry
        /\ \A i \in 1..n : history'[t][i] = history[t][i]
    BY GrownEntries
  <2>2. Settled(r)'
    BY <1>1, <1>4, OrderStays DEF Settled, Committed
  <2>3. /\ ticket[t].version \in Nat /\ ticket'[t].version \in Nat
        /\ ticket[t].version <= ticket'[t].version
        /\ IsChange(entry) => ticket'[t].version = ticket[t].version + 1
    <3>1. t = request[p].of /\ ticket[t] = request[p].row /\ ticket'[t] = row
      BY CommitEffect
    <3> QED BY <3>1 DEF SoundCommit, Shape, TypeOK, Row
  <2>4. Pending(r)'
    <3> SUFFICES ASSUME request[r].phase \in {"open", "locked"}
                 PROVE  Pending(r)'
      BY DEF Pending
    <3>1. \A i \in 1..(n + 1) : history'[t][i].created_at # request[r].started
      BY <1>1, <1>4, <2>1 DEF Pending
    <3>2. ASSUME Versioned(request[r].kind), ~request[r].guess
          PROVE  /\ request[r].version <= ticket'[t].version
                 /\ \/ request[r].version < ticket'[t].version
                    \/ \A i \in 1..(n + 1) : IsChange(history'[t][i])
                                               => history'[t][i].created_at < request[r].started
      <4>1. /\ request[r].version <= ticket[t].version /\ request[r].version \in Nat
            /\ \/ request[r].version < ticket[t].version
               \/ \A i \in 1..n : IsChange(history[t][i])
                                    => history[t][i].created_at < request[r].started
        BY <1>1, <1>4, <2>1, <3>2, EngagedRequest DEF Pending
      <4>2. CASE request[r].version < ticket'[t].version
        BY <2>3, <4>1, <4>2
      <4>3. CASE request[r].version = ticket'[t].version
        <5>1. ~IsChange(entry) /\ ~(request[r].version < ticket[t].version)
          BY <2>3, <4>1, <4>3
        <5> QED BY <2>1, <4>1, <4>3, <5>1
      <4> QED BY <2>3, <4>1, <4>2, <4>3
    <3> QED BY <1>4, <2>1, <3>1, <3>2 DEF Pending
  <2> QED BY <2>2, <2>4
<1> QED BY <1>2, <1>3, <1>4

LEMMA SessionKeepsOrder ==
    ASSUME Shape, Shape', InOrderSoFar, NEW p \in Requests, NEW q \in Request, SoundStep(p, q)
    PROVE  InOrderSoFar'
<1>1. /\ request'[p] = q /\ \A r \in Requests \ {p} : request'[r] = request[r]
      /\ ticket' = ticket /\ history' = history
      /\ clock \in Nat /\ clock' \in {clock, clock + 1}
  BY DEF SoundStep, SessionStep, Quiet, Shape, TypeOK
<1>2. \A t \in Tickets : \A i \in 1..Len(history[t]) :
          history[t][i].created_at \in Nat /\ history[t][i].created_at < clock
  BY EntryTimes DEF InOrderSoFar, Stamped
<1>3. \A r \in Requests : /\ request[r].started \in Nat
                          /\ Engaged(r) => request[r].started < clock
  BY EngagedRequest DEF InOrderSoFar, Stamped
<1>4. CASE q.phase = "failed"
  <2>1. ~Engaged(p)' /\ Pending(p)' /\ Settled(p)'
    BY <1>1, <1>4 DEF Engaged, Pending, Settled, Committed
  <2>2. Stamped'
    BY <1>1, <1>2, <1>3, <2>1 DEF InOrderSoFar, Stamped, Engaged
  <2>3. \A r \in Requests \ {p} : Pending(r)' /\ Settled(r)'
    BY <1>1 DEF InOrderSoFar, Pending, Settled, Committed
  <2> QED BY <2>1, <2>2, <2>3 DEF InOrderSoFar
<1>5. CASE Begins(p, q)
  <2>1. q.started = clock /\ clock' = clock + 1
    BY <1>5 DEF Begins
  <2>2. Stamped'
    <3>1. \A r \in Requests \ {p} : Engaged(r)' <=> Engaged(r)
      BY <1>1 DEF Engaged
    <3> QED BY <1>1, <1>2, <1>3, <2>1, <3>1 DEF InOrderSoFar, Stamped
  <2>3. Pending(p)'
    <3> SUFFICES ASSUME q.phase = "open"
                 PROVE  Pending(p)'
      BY <1>1, <1>5 DEF Pending, Begins
    <3>1. q.of \in Tickets
      BY <1>1, EngagedRequest DEF Shape, SessionOK, Engaged
    <3>2. ~q.guess => q.version <= ticket[q.of].version
      BY <1>5 DEF Begins
    <3> QED BY <1>1, <1>2, <2>1, <3>1, <3>2 DEF Pending
  <2>4. Settled(p)'
    BY <1>1, <1>5 DEF Settled, Begins, Committed
  <2>5. \A r \in Requests \ {p} : Pending(r)' /\ Settled(r)'
    BY <1>1 DEF InOrderSoFar, Pending, Settled, Committed
  <2> QED BY <2>2, <2>3, <2>4, <2>5 DEF InOrderSoFar
<1>6. CASE GoesOn(p, q)
  <2>1. /\ clock' = clock /\ q.started = request[p].started /\ q.kind = request[p].kind
        /\ q.of = request[p].of /\ q.version = request[p].version /\ q.guess = request[p].guess
        /\ request[p].phase \in {"open", "reading", "committed"}
        /\ q.phase = "locked" => request[p].phase = "open"
        /\ q.phase # "open"
        /\ Versioned(q.kind) /\ q.phase # "locked" => request[p].phase = "committed"
    BY <1>6 DEF GoesOn
  <2>2. \A r \in Requests : /\ Engaged(r)' => Engaged(r)
                            /\ request'[r].started = request[r].started
    BY <1>1, <2>1 DEF Engaged
  <2>3. Stamped'
    BY <1>1, <1>2, <2>1, <2>2 DEF InOrderSoFar, Stamped
  <2>4. Pending(p)'
    BY <1>1, <2>1 DEF InOrderSoFar, Pending
  <2>5. Settled(p)'
    BY <1>1, <2>1 DEF InOrderSoFar, Settled, Committed
  <2>6. \A r \in Requests \ {p} : Pending(r)' /\ Settled(r)'
    BY <1>1 DEF InOrderSoFar, Pending, Settled, Committed
  <2> QED BY <2>3, <2>4, <2>5, <2>6 DEF InOrderSoFar
<1> QED BY <1>4, <1>5, <1>6 DEF SoundStep

LEMMA OrderStep ==
    ASSUME Shape, Shape', InOrderSoFar, [Next]_vars
    PROVE  InOrderSoFar'
<1>1. ASSUME NEW p \in Requests, NEW row \in Row, NEW entry \in Entry, NEW event \in Event,
             SoundCommit(p, row, entry, event)
      PROVE  InOrderSoFar'
  BY <1>1, CommitKeepsStamps, CommitterInOrder, OthersInOrder DEF InOrderSoFar
<1>2. CASE UNCHANGED vars
  BY <1>2 DEF vars, InOrderSoFar, Stamped, Engaged, Pending, Settled, Committed
<1> QED BY <1>1, <1>2, StepKinds, CreateKeepsOrder, SessionKeepsOrder

\* The history's changes are shown in the order they were committed, whatever the
\* transactions that made them waited for.
THEOREM DisplayKeepsOrder == Spec => []DisplayedOrderIsCommitOrder
<1>1. Init => InOrderSoFar
  BY DEF Init, InOrderSoFar, Stamped, Engaged, Pending, Settled, Committed, Unused
<1>2. Shape /\ Shape' /\ InOrderSoFar /\ [Next]_vars => InOrderSoFar'
  BY OrderStep
<1>3. InOrderSoFar => DisplayedOrderIsCommitOrder
  BY DEF InOrderSoFar, Settled, InDisplayOrder, DisplayedOrderIsCommitOrder
<1> QED BY <1>1, <1>2, <1>3, ShapeInvariant, PTL DEF Spec

-----------------------------------------------------------------------------
(* Views *)

\* new goes on where old ends.
GoesOnFrom(new, old) ==
    /\ Len(old) \in Nat /\ Len(new) \in Nat /\ Len(old) <= Len(new)
    /\ \A i \in 1..Len(old) : new[i] = old[i]

LEMMA StillThere ==
    ASSUME NEW new, NEW old, GoesOnFrom(new, old), NEW n \in Nat, n <= Len(old)
    PROVE  n <= Len(new)
BY DEF GoesOnFrom

LEMMA TablesGrow ==
    ASSUME Shape, [Next]_vars, NEW t \in Tickets
    PROVE  GoesOnFrom(history'[t], history[t]) /\ GoesOnFrom(comments'[t], comments[t])
<1>1. GoesOnFrom(history'[t], history[t])
  <2>1. CASE history'[t] = history[t]
    BY <2>1, EntryTimes DEF GoesOnFrom
  <2>2. ASSUME NEW entry \in Entry, NEW n \in Nat, Grown(history'[t], history[t], entry, n)
        PROVE  GoesOnFrom(history'[t], history[t])
    BY <2>2, GrownEntries DEF GoesOnFrom
  <2> QED BY <2>1, <2>2, HistoryGrows
<1>2. GoesOnFrom(comments'[t], comments[t])
  <2>1. comments[t] \in Seq(Comment)
    BY DEF Shape, TypeOK
  <2>2. CASE comments'[t] = comments[t]
    BY <2>1, <2>2 DEF GoesOnFrom
  <2>3. ASSUME NEW comment \in Comment, comments'[t] = Append(comments[t], comment)
        PROVE  GoesOnFrom(comments'[t], comments[t])
    BY <2>1, <2>3 DEF GoesOnFrom
  <2>4. ASSUME NEW r \in Requests, NEW entry \in Entry, CommentsFit(r, entry)
        PROVE  \/ comments'[t] = comments[t]
               \/ \E comment \in Comment : comments'[t] = Append(comments[t], comment)
    BY <2>4 DEF CommentsFit, Shape, TypeOK
  <2>5. ASSUME NEW u \in Tickets, NEW user \in Users, CreateTicket(u, user)
        PROVE  comments' = comments
    BY <2>5 DEF CreateTicket
  <2>6. ASSUME NEW r \in Requests, NEW row \in Row, NEW entry \in Entry, NEW event \in Event,
               SoundCommit(r, row, entry, event)
        PROVE  CommentsFit(r, entry)
    BY <2>6 DEF SoundCommit
  <2>7. ASSUME NEW r \in Requests, NEW q \in Request, SoundStep(r, q)
        PROVE  comments' = comments
    BY <2>7 DEF SoundStep, SessionStep, Quiet
  <2>8. UNCHANGED vars => comments' = comments
    BY DEF vars
  <2>9. \/ comments' = comments
        \/ \E r \in Requests, entry \in Entry : CommentsFit(r, entry)
    BY <2>5, <2>6, <2>7, <2>8, StepKinds
  <2> QED BY <2>2, <2>3, <2>4, <2>9
<1> QED BY <1>1, <1>2

\* Where a reader, of the staff or not, finds comments told and comments shown.
ListedTo(h, staff) == {i \in 1..Len(h) : IsComment(h[i]) /\ (staff \/ ~h[i].internal)}
ShownTo(c, staff) == {i \in 1..Len(c) : staff \/ ~c[i].internal}

\* The history tells of the comments, to everyone exactly of those the reader may
\* see, and of the changes openly.
CommentStory(h, c) ==
    /\ \A staff \in BOOLEAN : Cardinality(ListedTo(h, staff)) = Cardinality(ShownTo(c, staff))
    /\ \A i \in 1..Len(h) : IsChange(h[i]) => ~h[i].internal

LEMMA PartsAreFinite ==
    ASSUME NEW n \in Nat, NEW S \in SUBSET (1..n)
    PROVE  IsFiniteSet(S) /\ Cardinality(S) \in Nat
<1>1. IsFiniteSet(1..n)
  BY FS_Interval
<1> QED BY <1>1, FS_Subset, FS_CardinalityType

\* An entry that tells of no comment, beside comments that stay.
LEMMA CommentStoryStays ==
    ASSUME NEW new, NEW h, NEW entry, NEW n, Grown(new, h, entry, n), NEW c,
           ~IsComment(entry), ~entry.internal, CommentStory(h, c)
    PROVE  CommentStory(new, c)
<1>1. /\ n \in Nat /\ Len(h) = n /\ Len(new) = n + 1 /\ new[n + 1] = entry
      /\ \A i \in 1..n : new[i] = h[i]
  BY GrownEntries
<1>2. ASSUME NEW staff \in BOOLEAN
      PROVE  ListedTo(new, staff) = ListedTo(h, staff)
  BY <1>1 DEF ListedTo
<1>3. ASSUME NEW i \in 1..(n + 1), IsChange(new[i])
      PROVE  ~new[i].internal
  <2>1. CASE i = n + 1
    BY <1>1, <2>1
  <2>2. CASE i # n + 1
    BY <1>1, <1>3, <2>2 DEF CommentStory
  <2> QED BY <2>1, <2>2
<1> QED BY <1>1, <1>2, <1>3 DEF CommentStory

\* A comment and the entry that tells of it.
LEMMA CommentStoryGoesOn ==
    ASSUME NEW new, NEW h, NEW entry, NEW n, Grown(new, h, entry, n), NEW c \in Seq(Comment),
           NEW comment \in Comment, IsComment(entry), comment.internal <=> entry.internal,
           CommentStory(h, c)
    PROVE  CommentStory(new, Append(c, comment))
<1> SUFFICES ASSUME NEW more, more = Append(c, comment)
             PROVE  CommentStory(new, more)
  OBVIOUS
<1>1. /\ n \in Nat /\ Len(h) = n /\ Len(new) = n + 1 /\ new[n + 1] = entry
      /\ \A i \in 1..n : new[i] = h[i]
  BY GrownEntries
<1> PICK m \in Nat : m = Len(c)
  OBVIOUS
<1>2. Len(more) = m + 1 /\ more[m + 1] = comment /\ \A i \in 1..m : more[i] = c[i]
  OBVIOUS
<1>3. ASSUME NEW staff \in BOOLEAN
      PROVE  Cardinality(ListedTo(new, staff)) = Cardinality(ShownTo(more, staff))
  <2>1. Cardinality(ListedTo(h, staff)) = Cardinality(ShownTo(c, staff))
    BY DEF CommentStory
  <2>2. CASE staff \/ ~entry.internal
    <3>1. ListedTo(new, staff) = ListedTo(h, staff) \cup {n + 1} /\ n + 1 \notin ListedTo(h, staff)
      BY <1>1, <2>2 DEF ListedTo
    <3>2. ShownTo(more, staff) = ShownTo(c, staff) \cup {m + 1} /\ m + 1 \notin ShownTo(c, staff)
      BY <1>2, <2>2 DEF ShownTo
    <3>3. IsFiniteSet(ListedTo(h, staff)) /\ IsFiniteSet(ShownTo(c, staff))
      <4>1. ListedTo(h, staff) \in SUBSET (1..n)
        BY <1>1 DEF ListedTo
      <4>2. ShownTo(c, staff) \in SUBSET (1..m)
        BY DEF ShownTo
      <4> QED BY <1>1, <4>1, <4>2, PartsAreFinite
    <3>4. Cardinality(ListedTo(h, staff) \cup {n + 1}) = Cardinality(ListedTo(h, staff)) + 1
      BY <3>1, <3>3, FS_AddElement
    <3>5. Cardinality(ShownTo(c, staff) \cup {m + 1}) = Cardinality(ShownTo(c, staff)) + 1
      BY <3>2, <3>3, FS_AddElement
    <3> QED BY <2>1, <3>1, <3>2, <3>4, <3>5
  <2>3. CASE ~(staff \/ ~entry.internal)
    <3>1. ListedTo(new, staff) = ListedTo(h, staff)
      BY <1>1, <2>3 DEF ListedTo
    <3>2. ShownTo(more, staff) = ShownTo(c, staff)
      BY <1>2, <2>3 DEF ShownTo
    <3> QED BY <2>1, <3>1, <3>2
  <2> QED BY <2>2, <2>3
<1>4. ASSUME NEW i \in 1..(n + 1), IsChange(new[i])
      PROVE  ~new[i].internal
  <2>1. i # n + 1
    BY <1>1, <1>4 DEF IsChange, IsComment
  <2> QED BY <1>1, <1>4, <2>1 DEF CommentStory
<1> QED BY <1>1, <1>3, <1>4 DEF CommentStory

LEMMA CommentStoryCreate ==
    ASSUME Shape, \A t \in Tickets : CommentStory(history[t], comments[t]),
           NEW t \in Tickets, NEW user \in Users, CreateTicket(t, user)
    PROVE  \A u \in Tickets : CommentStory(history[u], comments[u])'
<1>1. HistoryEntry("ticket.created", user, NoStatus, NoStatus, FALSE, clock) \in Entry
  BY DEF HistoryEntry, Entry, Actions, Shape, TypeOK
<1> PICK entry \in Entry :
        entry = HistoryEntry("ticket.created", user, NoStatus, NoStatus, FALSE, clock)
  BY <1>1
<1>2. ~IsComment(entry) /\ ~entry.internal
  BY DEF HistoryEntry, IsComment
<1>3. history' = [history EXCEPT ![t] = Append(@, entry)] /\ comments' = comments
  BY DEF CreateTicket, Record, HistoryEntry, OutboxEvent
<1> PICK n \in Nat : n = Len(history[t])
  BY EntryTimes DEF HistoryEntry
<1>4. Grown(history'[t], history[t], entry, n)
  BY <1>3 DEF Grown, Shape, TypeOK, HistoryEntry
<1>5. CommentStory(history'[t], comments[t])
  BY <1>2, <1>4, CommentStoryStays DEF HistoryEntry
<1>6. \A u \in Tickets \ {t} : history'[u] = history[u]
  BY <1>3 DEF Shape, TypeOK, HistoryEntry
<1> QED BY <1>3, <1>5, <1>6 DEF HistoryEntry

LEMMA CommentStoryCommit ==
    ASSUME Shape, \A t \in Tickets : CommentStory(history[t], comments[t]),
           NEW r \in Requests, NEW row \in Row, NEW entry \in Entry, NEW event \in Event,
           SoundCommit(r, row, entry, event)
    PROVE  \A t \in Tickets : CommentStory(history[t], comments[t])'
<1> PICK t \in Tickets :
        /\ t = request[r].of /\ history'[t] = Append(history[t], entry)
        /\ \A u \in Tickets \ {t} : history'[u] = history[u]
  BY CommitEffect
<1> PICK n \in Nat : n = Len(history[t])
  BY EntryTimes
<1>1. history'[t] \in Seq(Entry)
  BY EntryTimes
<1>2. Grown(history'[t], history[t], entry, n)
  BY <1>1, EntryTimes DEF Grown
<1>3. comments[t] \in Seq(Comment) /\ CommentStory(history[t], comments[t])
  BY DEF Shape, TypeOK
<1>4. CASE IsChange(entry)
  <2>1. ~IsComment(entry) /\ ~entry.internal /\ comments' = comments
    BY <1>4 DEF SoundCommit, CommentsFit, IsChange, IsComment
  <2>2. CommentStory(history'[t], comments[t])
    BY <1>2, <1>3, <2>1, CommentStoryStays
  <2> QED BY <2>1, <2>2
<1>5. CASE ~IsChange(entry)
  <2> PICK comment \in Comment :
          /\ comment.internal <=> entry.internal
          /\ comments' = [comments EXCEPT ![t] = Append(@, comment)]
    BY <1>5 DEF SoundCommit, CommentsFit
  <2>1. IsComment(entry)
    BY <1>5 DEF SoundCommit, CommentsFit
  <2>2. /\ comments'[t] = Append(comments[t], comment)
        /\ \A u \in Tickets \ {t} : comments'[u] = comments[u]
    BY DEF Shape, TypeOK
  <2>3. CommentStory(history'[t], Append(comments[t], comment))
    BY <1>2, <1>3, <2>1, CommentStoryGoesOn
  <2>4. CommentStory(history'[t], comments'[t])
    BY <2>2, <2>3
  <2> QED BY <2>2, <2>4
<1> QED BY <1>4, <1>5

LEMMA CommentStoryInvariant ==
    Spec => [](\A t \in Tickets : CommentStory(history[t], comments[t]))
<1>1. Init => \A t \in Tickets : CommentStory(history[t], comments[t])
  <2> SUFFICES ASSUME Init, NEW t \in Tickets PROVE CommentStory(history[t], comments[t])
    OBVIOUS
  <2>1. history[t] = <<>> /\ comments[t] = <<>>
    BY DEF Init
  <2>2. \A staff \in BOOLEAN : ListedTo(<<>>, staff) = {} /\ ShownTo(<<>>, staff) = {}
    BY DEF ListedTo, ShownTo
  <2>3. \A i \in 1..Len(<<>>) : IsChange(<<>>[i]) => ~<<>>[i].internal
    OBVIOUS
  <2> QED BY <2>1, <2>2, <2>3, Zenon DEF CommentStory
<1>2. /\ Shape /\ (\A t \in Tickets : CommentStory(history[t], comments[t])) /\ [Next]_vars
      => (\A t \in Tickets : CommentStory(history[t], comments[t]))'
  BY CommentStoryCreate, CommentStoryCommit, StepKinds DEF SoundStep, SessionStep, Quiet, vars
<1> QED BY <1>1, <1>2, ShapeInvariant, PTL DEF Spec

\* What the first n elements tell a reader, and of entries which parts.
Visible(seq, n, actor) == {i \in 1..n : actor \in Staff \/ ~seq[i].internal}
ChangesTold(h, n, actor) == {i \in Visible(h, n, actor) : IsChange(h[i])}
CommentsTold(h, n, actor) == {i \in Visible(h, n, actor) : IsComment(h[i])}

TellsChanges(row, h, n, actor) == row.version <= Cardinality(ChangesTold(h, n, actor)) + 1

\* The part that was loaded second knows of as many comments as the first.
Agree(first, h, n, c, m, actor) ==
    LET listed == Cardinality(CommentsTold(h, n, actor))
        shown == Cardinality(Visible(c, m, actor))
    IN  /\ first = "comments" => shown <= listed
        /\ first = "history" => listed <= shown

\* What was told is told still when the tables have grown.
LEMMA ToldStays ==
    ASSUME NEW new, NEW h, GoesOnFrom(new, h), NEW n \in Nat, n <= Len(h), NEW actor
    PROVE  /\ Visible(new, n, actor) = Visible(h, n, actor)
           /\ ChangesTold(new, n, actor) = ChangesTold(h, n, actor)
           /\ CommentsTold(new, n, actor) = CommentsTold(h, n, actor)
<1>1. \A i \in 1..n : new[i] = h[i]
  BY DEF GoesOnFrom
<1>2. Visible(new, n, actor) = Visible(h, n, actor)
  BY <1>1 DEF Visible
<1>3. \A i \in Visible(h, n, actor) : new[i] = h[i]
  BY <1>1 DEF Visible
<1> QED BY <1>2, <1>3 DEF ChangesTold, CommentsTold

\* The comments a reader may see, and where the history tells of them, are the
\* same in number; the history of a reader who is a client leaves out nothing else.
LEMMA ReaderStory ==
    ASSUME NEW h, NEW c, CommentStory(h, c), NEW actor
    PROVE  /\ Cardinality(CommentsTold(h, Len(h), actor)) = Cardinality(Visible(c, Len(c), actor))
           /\ ChangesTold(h, Len(h), actor) = Changes(h, Len(h))
<1>1. CASE actor \in Staff
  <2>1. CommentsTold(h, Len(h), actor) = ListedTo(h, TRUE)
    BY <1>1 DEF CommentsTold, Visible, ListedTo
  <2>2. Visible(c, Len(c), actor) = ShownTo(c, TRUE)
    BY <1>1 DEF Visible, ShownTo
  <2>3. ChangesTold(h, Len(h), actor) = Changes(h, Len(h))
    BY <1>1 DEF ChangesTold, Visible, Changes
  <2>4. Cardinality(ListedTo(h, TRUE)) = Cardinality(ShownTo(c, TRUE))
    BY DEF CommentStory
  <2> QED BY <2>1, <2>2, <2>3, <2>4
<1>2. CASE actor \notin Staff
  <2>1. CommentsTold(h, Len(h), actor) = ListedTo(h, FALSE)
    BY <1>2 DEF CommentsTold, Visible, ListedTo
  <2>2. Visible(c, Len(c), actor) = ShownTo(c, FALSE)
    BY <1>2 DEF Visible, ShownTo
  <2>3. ChangesTold(h, Len(h), actor) = Changes(h, Len(h))
    BY <1>2 DEF ChangesTold, Visible, Changes, CommentStory
  <2>4. Cardinality(ListedTo(h, FALSE)) = Cardinality(ShownTo(c, FALSE))
    BY DEF CommentStory
  <2> QED BY <2>1, <2>2, <2>3, <2>4
<1> QED BY <1>1, <1>2

\* The whole history tells every change of a row that is no newer than the ticket's.
LEMMA ChangesAreTold ==
    ASSUME NEW h, NEW c, CommentStory(h, c), NEW old \in Row, RowStory(old, h),
           NEW row \in Row, row.version <= old.version, NEW actor
    PROVE  TellsChanges(row, h, Len(h), actor)
<1>1. ChangesTold(h, Len(h), actor) = Changes(h, Len(h))
  BY ReaderStory
<1>2. row.version <= Cardinality(Changes(h, Len(h))) + 1
  BY DEF RowStory
<1> QED BY <1>1, <1>2 DEF TellsChanges

\* All comments together are no fewer than a part of the history lists, and the
\* whole history lists no fewer than a part of the comments.
LEMMA WholeKnowsMore ==
    ASSUME NEW h \in Seq(Entry), NEW c \in Seq(Comment), CommentStory(h, c),
           NEW n \in Nat, n <= Len(h), NEW m \in Nat, m <= Len(c), NEW actor
    PROVE  /\ Cardinality(CommentsTold(h, n, actor)) <= Cardinality(Visible(c, Len(c), actor))
           /\ Cardinality(Visible(c, m, actor)) <= Cardinality(CommentsTold(h, Len(h), actor))
<1> PICK k \in Nat : k = Len(h)
  OBVIOUS
<1> PICK l \in Nat : l = Len(c)
  OBVIOUS
<1>1. /\ CommentsTold(h, n, actor) \subseteq CommentsTold(h, k, actor)
      /\ CommentsTold(h, k, actor) \in SUBSET (1..k)
  BY DEF CommentsTold, Visible
<1>2. /\ Visible(c, m, actor) \subseteq Visible(c, l, actor)
      /\ Visible(c, l, actor) \in SUBSET (1..l)
  BY DEF Visible
<1>3. Cardinality(CommentsTold(h, n, actor)) <= Cardinality(CommentsTold(h, k, actor))
  BY <1>1, PartsAreFinite, FS_Subset
<1>4. Cardinality(Visible(c, m, actor)) <= Cardinality(Visible(c, l, actor))
  BY <1>2, PartsAreFinite, FS_Subset
<1>5. Cardinality(CommentsTold(h, k, actor)) = Cardinality(Visible(c, l, actor))
  BY ReaderStory
<1> QED BY <1>3, <1>4, <1>5

\* What a reader holds: a row no newer than the ticket's; of the comments and the
\* history, once loaded, a part that is still there, the history's with every change
\* the row shows; and in the end two parts that agree.
Holds(q, part) == q.phase = "done" \/ (q.phase = "reading" /\ q.first = part)

ViewOK(r) ==
    LET q == request[r]
        h == history[q.of]
        c == comments[q.of]
    IN  q.kind = "read" =>
            /\ q.phase \in {"open", "reading"} => q.row.version <= ticket[q.of].version
            /\ q.phase = "reading" => q.first \in Parts
            /\ Holds(q, "comments") => q.comments <= Len(c)
            /\ Holds(q, "history") =>
                  q.history <= Len(h) /\ TellsChanges(q.row, h, q.history, q.actor)
            /\ q.phase = "done" => Agree(q.first, h, q.history, c, q.comments, q.actor)

\* What a reader that is under way, or through, holds is about a ticket.
LEMMA Reader ==
    ASSUME Shape, NEW r \in Requests, request[r].kind = "read"
    PROVE  /\ request[r] \in Request /\ request[r].row \in Row /\ request[r].row.version \in Nat
           /\ request[r].comments \in Nat /\ request[r].history \in Nat
           /\ request[r].phase \in {"open", "reading", "done"} =>
                 request[r].of \in Tickets /\ Exists(request[r].of)
<1>1. request[r] \in Request /\ SessionOK(r)
  BY DEF Shape, TypeOK
<1>2. request[r].row \in Row /\ request[r].comments \in Nat /\ request[r].history \in Nat
  BY <1>1 DEF Request
<1> QED BY <1>1, <1>2 DEF SessionOK, Engaged, Row

LEMMA ViewStays ==
    ASSUME Shape, [Next]_vars, NEW r \in Requests, request'[r] = request[r], ViewOK(r)
    PROVE  ViewOK(r)'
<1> SUFFICES ASSUME request[r].kind = "read", request[r].phase \in {"open", "reading", "done"}
             PROVE  ViewOK(r)'
  BY DEF ViewOK, Holds
<1> PICK t \in Tickets : t = request[r].of
  BY Reader
<1> PICK q : q = request[r]
  OBVIOUS
<1>1. /\ ticket[t].version \in Nat /\ ticket'[t].version \in Nat
      /\ ticket[t].version <= ticket'[t].version
  BY RowsLast
<1>2. GoesOnFrom(history'[t], history[t]) /\ GoesOnFrom(comments'[t], comments[t])
  BY TablesGrow
<1>3. q.row.version \in Nat /\ q.comments \in Nat /\ q.history \in Nat
  BY Reader
<1>4. q.phase \in {"open", "reading"} => q.row.version <= ticket'[t].version
  BY <1>1, <1>3 DEF ViewOK
<1>5. Holds(q, "comments") => q.comments <= Len(comments[t]) /\ q.comments <= Len(comments'[t])
  BY <1>2, <1>3, StillThere DEF ViewOK
<1>6. Holds(q, "history") => q.history <= Len(history[t]) /\ q.history <= Len(history'[t])
  BY <1>2, <1>3, StillThere DEF ViewOK
<1>7. Holds(q, "history") => TellsChanges(q.row, history'[t], q.history, q.actor)
  BY <1>2, <1>3, <1>6, ToldStays DEF ViewOK, TellsChanges
<1>8. ASSUME q.phase = "done"
      PROVE  Agree(q.first, history'[t], q.history, comments'[t], q.comments, q.actor)
  <2>1. q.comments <= Len(comments[t]) /\ q.history <= Len(history[t])
    BY <1>5, <1>6, <1>8 DEF Holds
  <2>2. /\ CommentsTold(history'[t], q.history, q.actor) = CommentsTold(history[t], q.history, q.actor)
        /\ Visible(comments'[t], q.comments, q.actor) = Visible(comments[t], q.comments, q.actor)
    BY <1>2, <1>3, <2>1, ToldStays
  <2>3. Agree(q.first, history[t], q.history, comments[t], q.comments, q.actor)
    BY <1>8 DEF ViewOK
  <2> QED BY <2>2, <2>3 DEF Agree
<1> QED BY <1>4, <1>5, <1>6, <1>7, <1>8 DEF ViewOK

LEMMA ViewBegins ==
    ASSUME Shape, NEW r \in Requests, NEW user \in Users, NEW t \in Tickets,
           Begin(r, "read", user, t, 0)
    PROVE  ViewOK(r)'
<1>1. request'[r].phase = "open" /\ request'[r].row = ticket[t] /\ request'[r].of = t
  BY DEF Begin, Shape, TypeOK, Unused
<1>2. ticket' = ticket /\ ticket[t].version \in Nat
  BY DEF Begin, Shape, TypeOK, Row
<1> QED BY <1>1, <1>2 DEF ViewOK, Holds

\* A session that has loaded a part, and what it held before.
Loads(r, part, q) ==
    /\ request'[r] = q
    /\ UNCHANGED <<ticket, history, comments>>
    /\ q.row = request[r].row /\ q.actor = request[r].actor /\ q.of = request[r].of
    /\ \/ request[r].phase = "open" /\ q.phase = "reading" /\ q.first = part
       \/ /\ request[r].phase = "reading" /\ q.phase = "done"
          /\ request[r].first # part /\ q.first = request[r].first

LEMMA CommentsLoad ==
    ASSUME Shape, NEW r \in Requests, ReadComments(r)
    PROVE  /\ Loads(r, "comments", request'[r])
           /\ request'[r].history = request[r].history
           /\ request'[r].comments = Len(comments[request[r].of])
<1>1. request[r] \in Request
  BY DEF Shape, TypeOK
<1> PICK l \in Request :
        /\ l = Loaded(r, "comments") /\ l.history = request[r].history
        /\ l.row = request[r].row /\ l.actor = request[r].actor /\ l.of = request[r].of
        /\ request[r].phase = "open" => l.phase = "reading" /\ l.first = "comments"
        /\ request[r].phase # "open" => l.phase = "done" /\ l.first = request[r].first
  BY <1>1, LoadedPart DEF Parts
<1> PICK q : q = [l EXCEPT !.comments = Len(comments[request[r].of])]
  OBVIOUS
<1>2. /\ request'[r] = q
      /\ UNCHANGED <<ticket, history, comments>>
      /\ request[r].phase = "open" \/ (request[r].phase = "reading" /\ request[r].first # "comments")
  BY DEF ReadComments, CanLoad, Shape, TypeOK
<1>3. /\ q.phase = l.phase /\ q.first = l.first /\ q.row = l.row /\ q.actor = l.actor
      /\ q.of = l.of /\ q.history = l.history /\ q.comments = Len(comments[request[r].of])
  BY DEF Request
<1> QED BY <1>2, <1>3 DEF Loads

LEMMA HistoryLoads ==
    ASSUME Shape, NEW r \in Requests, ReadHistory(r)
    PROVE  /\ Loads(r, "history", request'[r])
           /\ request'[r].comments = request[r].comments
           /\ request'[r].history = Len(history[request[r].of])
<1>1. request[r] \in Request
  BY DEF Shape, TypeOK
<1> PICK l \in Request :
        /\ l = Loaded(r, "history") /\ l.comments = request[r].comments
        /\ l.row = request[r].row /\ l.actor = request[r].actor /\ l.of = request[r].of
        /\ request[r].phase = "open" => l.phase = "reading" /\ l.first = "history"
        /\ request[r].phase # "open" => l.phase = "done" /\ l.first = request[r].first
  BY <1>1, LoadedPart DEF Parts
<1> PICK q : q = [l EXCEPT !.history = Len(history[request[r].of])]
  OBVIOUS
<1>2. /\ request'[r] = q
      /\ UNCHANGED <<ticket, history, comments>>
      /\ request[r].phase = "open" \/ (request[r].phase = "reading" /\ request[r].first # "history")
  BY DEF ReadHistory, CanLoad, Shape, TypeOK
<1>3. /\ q.phase = l.phase /\ q.first = l.first /\ q.row = l.row /\ q.actor = l.actor
      /\ q.of = l.of /\ q.comments = l.comments /\ q.history = Len(history[request[r].of])
  BY DEF Request
<1> QED BY <1>2, <1>3 DEF Loads

\* All comments there are: first, or after a history that lists no more of them.
LEMMA ViewWithComments ==
    ASSUME Shape, \A t \in Tickets : CommentStory(history[t], comments[t]),
           NEW r \in Requests, ViewOK(r), ReadComments(r)
    PROVE  ViewOK(r)'
<1> PICK t \in Tickets : t = request[r].of
  BY Reader DEF ReadComments, CanLoad
<1> PICK q : q = request'[r] /\ Loads(r, "comments", q) /\ q.history = request[r].history
             /\ q.comments = Len(comments[t])
  BY CommentsLoad
<1>1. /\ history[t] \in Seq(Entry) /\ comments[t] \in Seq(Comment) /\ Len(comments[t]) \in Nat
      /\ history' = history /\ comments' = comments /\ ticket' = ticket
  BY DEF Loads, Shape, TypeOK
<1>2. request[r].kind = "read" /\ request[r].history \in Nat
  BY Reader DEF ReadComments, CanLoad
<1>3. q.row = request[r].row /\ q.row.version <= ticket[t].version
      /\ q.of = t /\ q.actor = request[r].actor
  BY <1>2 DEF Loads, ViewOK
<1>4. CASE request[r].phase = "open"
  BY <1>1, <1>3, <1>4 DEF ViewOK, Holds, Loads, Parts
<1>5. CASE request[r].phase = "reading"
  <2>1. q.phase = "done" /\ q.first = "history" /\ request[r].first = "history"
    BY <1>2, <1>5 DEF Loads, ViewOK, Parts
  <2>2. q.history <= Len(history[t]) /\ TellsChanges(q.row, history[t], q.history, q.actor)
    BY <1>2, <1>3, <1>5, <2>1 DEF ViewOK, Holds
  <2>3. Cardinality(CommentsTold(history[t], q.history, q.actor))
          <= Cardinality(Visible(comments[t], Len(comments[t]), q.actor))
    BY <1>1, <1>2, <2>2, WholeKnowsMore
  <2>4. Agree(q.first, history[t], q.history, comments[t], q.comments, q.actor)
    BY <2>1, <2>3 DEF Agree
  <2> QED BY <1>1, <1>3, <2>1, <2>2, <2>4 DEF ViewOK
<1> QED BY <1>4, <1>5 DEF Loads

\* The whole history: first, or after comments that it lists all.
LEMMA ViewWithHistory ==
    ASSUME Shape, \A t \in Tickets : Story(t),
           \A t \in Tickets : CommentStory(history[t], comments[t]),
           NEW r \in Requests, ViewOK(r), ReadHistory(r)
    PROVE  ViewOK(r)'
<1> PICK t \in Tickets : t = request[r].of /\ Exists(t)
  BY Reader DEF ReadHistory, CanLoad
<1> PICK q : q = request'[r] /\ Loads(r, "history", q) /\ q.comments = request[r].comments
             /\ q.history = Len(history[t])
  BY HistoryLoads
<1>1. /\ history[t] \in Seq(Entry) /\ comments[t] \in Seq(Comment) /\ ticket[t] \in Row
      /\ Len(history[t]) \in Nat /\ history' = history /\ comments' = comments /\ ticket' = ticket
  BY EntryTimes DEF Loads, Shape, TypeOK
<1>2. request[r].kind = "read" /\ request[r].comments \in Nat /\ request[r].row \in Row
  BY Reader DEF ReadHistory, CanLoad
<1>3. q.row = request[r].row /\ q.row.version <= ticket[t].version
      /\ q.of = t /\ q.actor = request[r].actor
  BY <1>2 DEF Loads, ViewOK
<1>4. TellsChanges(q.row, history[t], q.history, q.actor)
  <2>1. RowStory(ticket[t], history[t]) /\ CommentStory(history[t], comments[t])
    BY DEF Story
  <2> QED BY <1>1, <1>2, <1>3, <2>1, ChangesAreTold
<1>5. CASE request[r].phase = "open"
  BY <1>1, <1>3, <1>4, <1>5 DEF ViewOK, Holds, Loads, Parts
<1>6. CASE request[r].phase = "reading"
  <2>1. q.phase = "done" /\ q.first = "comments" /\ request[r].first = "comments"
    BY <1>2, <1>6 DEF Loads, ViewOK, Parts
  <2>2. q.comments <= Len(comments[t])
    BY <1>2, <1>6, <2>1 DEF ViewOK, Holds
  <2>3. Cardinality(Visible(comments[t], q.comments, q.actor))
          <= Cardinality(CommentsTold(history[t], Len(history[t]), q.actor))
    BY <1>1, <1>2, <2>2, WholeKnowsMore
  <2>4. Agree(q.first, history[t], q.history, comments[t], q.comments, q.actor)
    BY <2>1, <2>3 DEF Agree
  <2> QED BY <1>1, <1>3, <1>4, <2>1, <2>2, <2>4 DEF ViewOK
<1> QED BY <1>5, <1>6 DEF Loads

LEMMA ViewStep ==
    ASSUME Shape, \A t \in Tickets : Story(t),
           \A t \in Tickets : CommentStory(history[t], comments[t]),
           [Next]_vars, NEW r \in Requests, ViewOK(r)
    PROVE  ViewOK(r)'
<1>1. CASE request'[r] = request[r]
  BY <1>1, ViewStays
<1>2. CASE request'[r] # request[r] /\ request'[r].kind = "read"
  <2>1. ASSUME NEW user \in Users, NEW filter \in Statuses \cup {NoStatus},
               NEW page \in SUBSET Tickets, ListPage(r, user, filter, page)
        PROVE  FALSE
    BY <1>2, <2>1 DEF ListPage, Shape, TypeOK, Unused
  <2>2. ~CountTotal(r)
    BY <1>2 DEF CountTotal, Shape, TypeOK, Request
  <2> QED BY <1>2, <2>1, <2>2, ReadingSteps, ViewBegins, ViewWithComments, ViewWithHistory
<1>3. CASE request'[r].kind # "read"
  BY <1>3 DEF ViewOK
<1> QED BY <1>1, <1>2, <1>3

LEMMA ViewsExplained ==
    ASSUME Shape, \A t \in Tickets : CommentStory(history[t], comments[t]),
           \A r \in Requests : ViewOK(r)
    PROVE  ViewsExplainThemselves
<1> SUFFICES ASSUME NEW r \in Requests, request[r].phase = "done", request[r].kind = "read"
             PROVE  LET t == request[r].of
                        seen == Shown(r, history[t], request[r].history)
                        changes == {i \in seen : IsChange(history[t][i])}
                        listed == Cardinality({i \in seen : IsComment(history[t][i])})
                        shown == Cardinality(Shown(r, comments[t], request[r].comments))
                    IN  /\ request[r].row.version <= Cardinality(changes) + 1
                        /\ request[r].first = "comments" => shown <= listed
                        /\ request[r].first = "history" => listed <= shown
                        /\ request[r].actor \notin Staff =>
                              listed <= Cardinality(Public(comments[t]))
  BY DEF ViewsExplainThemselves
<1> PICK t \in Tickets : t = request[r].of
  BY Reader
<1> DEFINE q == request[r]
<1>1. \A seq, n : Shown(r, seq, n) = Visible(seq, n, q.actor)
  BY DEF Shown, Visible
<1>2. /\ q.history <= Len(history[t]) /\ q.history \in Nat
      /\ TellsChanges(q.row, history[t], q.history, q.actor)
      /\ Agree(q.first, history[t], q.history, comments[t], q.comments, q.actor)
  BY Reader DEF ViewOK, Holds
<1>3. /\ history[t] \in Seq(Entry) /\ comments[t] \in Seq(Comment)
      /\ CommentStory(history[t], comments[t])
  BY DEF Shape, TypeOK
<1>4. ASSUME q.actor \notin Staff
      PROVE  Cardinality(CommentsTold(history[t], q.history, q.actor))
                <= Cardinality(Public(comments[t]))
  <2>1. Visible(comments[t], Len(comments[t]), q.actor) = Public(comments[t])
    BY <1>4 DEF Visible, Public
  <2>2. 0 \in Nat /\ 0 <= Len(comments[t])
    BY <1>3
  <2> QED BY <1>2, <1>3, <2>1, <2>2, WholeKnowsMore
<1> QED BY <1>1, <1>2, <1>4 DEF TellsChanges, Agree, ChangesTold, CommentsTold

\* A reader who loads the ticket, then its comments and its history in either order,
\* is told every change the row shows, finds no comment in the part loaded first that
\* the other lacks, and as a client finds nothing listed that is hidden.
THEOREM ReadersAreToldEnough == Spec => []ViewsExplainThemselves
<1>1. Init => \A r \in Requests : ViewOK(r)
  BY DEF Init, ViewOK, Unused
<1>2. /\ Shape /\ (\A t \in Tickets : Story(t))
      /\ (\A t \in Tickets : CommentStory(history[t], comments[t]))
      /\ [Next]_vars /\ (\A r \in Requests : ViewOK(r))
      => (\A r \in Requests : ViewOK(r))'
  BY ViewStep
<1>3. /\ Shape /\ (\A t \in Tickets : CommentStory(history[t], comments[t]))
      /\ (\A r \in Requests : ViewOK(r))
      => ViewsExplainThemselves
  BY ViewsExplained
<1> QED BY <1>1, <1>2, <1>3, ShapeInvariant, StoryInvariant, CommentStoryInvariant, PTL DEF Spec
=============================================================================
