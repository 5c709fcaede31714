--------------------------- MODULE TicketWorkflow ---------------------------
(***************************************************************************)
(* The tickets, ticket_history, comments and outbox_events tables and the  *)
(* HTTP requests that change or read them (services.py and the ticket      *)
(* routes of api.py).  A request is one database session: it loads the     *)
(* caller and the ticket, waits for the row lock, re-reads the row,        *)
(* decides and commits.  Requests interleave between these steps, under    *)
(* READ COMMITTED; a request that fails anywhere rolls back.               *)
(*                                                                         *)
(* A definition named Wrong... is no part of the model: it is a plausible  *)
(* bug, put in the place of the definition below it to show that the       *)
(* properties notice.                                                      *)
(***************************************************************************)
EXTENDS Integers, Sequences, FiniteSets

CONSTANTS
    Tickets,    \* tickets that may be created
    Users,      \* accounts; the role and the activity of one do not change
    Staff,      \* operators and administrators: STAFF_ROLES
    Active,     \* users with is_active
    Requests,   \* the requests that ever arrive after a ticket's creation
    Kinds,      \* what they may ask for
    MaxAnswers, \* bound: changes whose answers are followed
    Nobody      \* no client, no assignee, no role

ASSUME UserAssumption == Staff \subseteq Users /\ Active \subseteq Users
ASSUME NobodyAssumption == Nobody \notin Users
ASSUME BoundAssumption == MaxAnswers \in Nat
ASSUME TableAssumption == IsFiniteSet(Tickets)
ASSUME KindAssumption == Kinds \subseteq {"assign", "transition", "comment", "read", "list"}

Statuses == {"new", "in_progress", "waiting_customer", "resolved", "closed"}
NoStatus == "none"

STAFF_TRANSITIONS ==
    [new |-> {"in_progress"},
     in_progress |-> {"waiting_customer", "resolved"},
     waiting_customer |-> {"in_progress", "resolved"},
     resolved |-> {"in_progress", "closed"},
     closed |-> {}]

CLIENT_TRANSITIONS ==
    [status \in Statuses |->
        IF status = "resolved" THEN {"in_progress", "closed"} ELSE {}]

Allowed(user, status) ==
    IF user \in Staff THEN STAFF_TRANSITIONS[status] ELSE CLIENT_TRANSITIONS[status]

-----------------------------------------------------------------------------
VARIABLES
    ticket,     \* ticket[t]: the committed row
    history,    \* history[t]: rows of ticket_history, in commit order
    outbox,     \* outbox[t]: events about t, in commit order
    comments,   \* comments[t]: in commit order
    request,    \* request[r]: what a session holds
    clock       \* starts of transactions so far: func.now() of the next one

vars == <<ticket, history, outbox, comments, request, clock>>

Row == [status : Statuses \cup {NoStatus}, version : Nat, resolved : BOOLEAN,
        client : Users \cup {Nobody}, assignee : Users \cup {Nobody}]

Actions == {"ticket.created", "ticket.assigned", "ticket.status_changed",
            "ticket.comment_added"}
Entry == [action : Actions, actor : Users, from : Statuses \cup {NoStatus},
          to : Statuses \cup {NoStatus}, internal : BOOLEAN, created_at : Nat]
Event == [type : Actions, status : Statuses, version : Nat \ {0}, client : Users,
          internal : BOOLEAN]
Comment == [author : Users, internal : BOOLEAN]
Parts == {"comments", "history"}

NoRow == [status |-> NoStatus, version |-> 0, resolved |-> FALSE,
          client |-> Nobody, assignee |-> Nobody]

\* Phases: open (loaded, no lock), locked (row locked and fresh), reading
\* (one of a ticket's two parts, or a page, loaded), committed, then done
\* (answered) or lost (committed, but the answer is an error); failed (nothing
\* committed).  comments and history count what a reading request has loaded:
\* nothing is ever deleted, so that a snapshot is what had been committed first.
\* first: the part that was loaded before the other.
\* guess is history: the version quoted did not exist when the request began.
Request ==
    [phase : {"unused", "open", "locked", "reading", "committed", "done", "lost", "failed"},
     kind : Kinds \cup {"none"},
     actor : Users \cup {Nobody}, of : Tickets \cup {Nobody}, version : Nat,
     guess : BOOLEAN, row : Row, started : Nat,
     first : Parts \cup {"none"}, comments : Nat, history : Nat,
     filter : Statuses \cup {NoStatus}, page : SUBSET Tickets, total : Nat]

Unused == [phase |-> "unused", kind |-> "none", actor |-> Nobody, of |-> Nobody,
           version |-> 0, guess |-> FALSE, row |-> NoRow, started |-> 0,
           first |-> "none", comments |-> 0, history |-> 0, filter |-> NoStatus, page |-> {}, total |-> 0]

TypeOK ==
    /\ ticket \in [Tickets -> Row]
    /\ history \in [Tickets -> Seq(Entry)]
    /\ outbox \in [Tickets -> Seq(Event)]
    /\ comments \in [Tickets -> Seq(Comment)]
    /\ request \in [Requests -> Request]
    /\ clock \in Nat

Init ==
    /\ ticket = [t \in Tickets |-> NoRow]
    /\ history = [t \in Tickets |-> <<>>]
    /\ outbox = [t \in Tickets |-> <<>>]
    /\ comments = [t \in Tickets |-> <<>>]
    /\ request = [r \in Requests |-> Unused]
    /\ clock = 0

Exists(t) == ticket[t].version > 0

-----------------------------------------------------------------------------
(* What a transaction adds.  The entry's created_at is the start of its    *)
(* transaction; the event's payload is taken from the row as it is left.   *)

HistoryEntry(action, actor, from, to, internal, started) ==
    [action |-> action, actor |-> actor, from |-> from, to |-> to,
     internal |-> internal, created_at |-> started]

OutboxEvent(type, row, internal) ==
    [type |-> type, status |-> row.status, version |-> row.version,
     client |-> row.client, internal |-> internal]

Record(t, row, entry, internal) ==
    /\ history' = [history EXCEPT ![t] = Append(@, entry)]
    /\ outbox' = [outbox EXCEPT ![t] = Append(@, OutboxEvent(entry.action, row, internal))]

NewTicket(user) == [NoRow EXCEPT !.status = "new", !.version = 1, !.client = user]

\* create_ticket: nothing to lock, nobody knows the ticket before the commit.
CreateTicket(t, user) ==
    /\ user \in Active
    /\ ~Exists(t)
    /\ clock' = clock + 1
    /\ ticket' = [ticket EXCEPT ![t] = NewTicket(user)]
    /\ Record(t, NewTicket(user),
              HistoryEntry("ticket.created", user, NoStatus, NoStatus, FALSE, clock), FALSE)
    /\ UNCHANGED <<comments, request>>

-----------------------------------------------------------------------------
(* A request begins: get_current_user, require_staff for an assignment,    *)
(* get_ticket.  A caller may quote any version up to the newest, or guess  *)
(* the one that comes next.                                                *)

Versions(t) == 1 .. ticket[t].version + 1

Begin(r, kind, user, t, version) ==
    /\ request[r].phase = "unused"
    /\ user \in Active
    /\ kind = "assign" => user \in Staff
    /\ Exists(t)
    /\ clock' = clock + 1
    /\ request' = [request EXCEPT ![r] =
            [Unused EXCEPT !.phase = "open", !.kind = kind, !.actor = user, !.of = t,
                           !.version = version, !.guess = version > ticket[t].version,
                           !.row = ticket[t], !.started = clock]]
    /\ UNCHANGED <<ticket, history, outbox, comments>>

\* lock_ticket compares the version for these.
Versioned(kind) == kind \in {"assign", "transition"}

BeginAny(r) ==
    \E user \in Users, t \in Tickets :
        \/ \E kind \in Kinds \cap {"assign", "transition"}, version \in Versions(t) :
               Begin(r, kind, user, t, version)
        \/ \E kind \in Kinds \cap {"comment", "read"} : Begin(r, kind, user, t, 0)

Advance(r, phase) == request' = [request EXCEPT ![r].phase = phase]

\* HTTPException, a database error (a lock wait of three seconds is one) or the
\* death of the process: all of them end the session without a commit.
Refuse(r) ==
    /\ request' = [request EXCEPT ![r] = [Unused EXCEPT !.phase = "failed"]]
    /\ UNCHANGED <<ticket, history, outbox, comments, clock>>

HasAccess(r) == request[r].actor \in Staff \/ request[r].row.client = request[r].actor

DenyAccess(r) ==
    /\ request[r].phase = "open"
    /\ ~HasAccess(r)
    /\ Refuse(r)

Abort(r) ==
    /\ request[r].phase \in {"open", "locked", "reading"}
    /\ Refuse(r)

-----------------------------------------------------------------------------
(* lock_ticket: db.refresh(ticket, with_for_update=True), then the version. *)

Free(t) == \A q \in Requests : ~(request[q].phase = "locked" /\ request[q].of = t)

WrongLockedRow(r) == request[r].row    \* the row as it was before the lock
LockedRow(r) == ticket[request[r].of]

WrongVersionMatches(r) == TRUE
VersionMatches(r) == Versioned(request[r].kind) => LockedRow(r).version = request[r].version

CanLock(r) ==
    /\ request[r].phase = "open"
    /\ request[r].kind # "read"
    /\ HasAccess(r)
    /\ Free(request[r].of)

LockTicket(r) ==
    /\ CanLock(r)
    /\ VersionMatches(r)
    /\ request' = [request EXCEPT ![r] =
            [@ EXCEPT !.phase = "locked", !.row = LockedRow(r)]]
    /\ UNCHANGED <<ticket, history, outbox, comments, clock>>

RefuseVersion(r) ==
    /\ CanLock(r)
    /\ ~VersionMatches(r)
    /\ Refuse(r)

-----------------------------------------------------------------------------
(* assign_ticket, transition_ticket, add_comment: from the lock to the     *)
(* commit.                                                                 *)

CommitRow(r, row, entry) ==
    /\ Advance(r, "committed")
    /\ ticket' = [ticket EXCEPT ![request[r].of] = row]
    /\ Record(request[r].of, row, entry, FALSE)
    /\ UNCHANGED <<comments, clock>>

Assignable(row) == row.status \notin {"resolved", "closed"}

AssignTicket(r, assignee) ==
    LET row == request[r].row
        status == IF row.status = "new" THEN "in_progress" ELSE row.status
    IN  /\ request[r].phase = "locked" /\ request[r].kind = "assign"
        /\ Assignable(row)
        /\ assignee \in Staff \cap Active
        /\ CommitRow(r,
               [row EXCEPT !.version = @ + 1, !.assignee = assignee, !.status = status],
               HistoryEntry("ticket.assigned", request[r].actor, row.status, status,
                            FALSE, request[r].started))

\* The row in memory already has the next version here: it is not committed.
RefuseAssign(r) ==
    /\ request[r].phase = "locked" /\ request[r].kind = "assign"
    /\ ~Assignable(request[r].row) \/ \E assignee \in Users : assignee \notin Staff \cap Active
    /\ Refuse(r)

WrongResolvedAt(row, target) == target = "resolved"    \* closing clears it
ResolvedAt(row, target) ==
    \/ target = "resolved"
    \/ target = "closed" /\ row.resolved

TransitionTicket(r, target) ==
    LET row == request[r].row
    IN  /\ request[r].phase = "locked" /\ request[r].kind = "transition"
        /\ target \in Allowed(request[r].actor, row.status)
        /\ CommitRow(r,
               [row EXCEPT !.version = @ + 1, !.status = target,
                           !.resolved = ResolvedAt(row, target)],
               HistoryEntry("ticket.status_changed", request[r].actor, row.status, target,
                            FALSE, request[r].started))

RefuseTransition(r) ==
    /\ request[r].phase = "locked" /\ request[r].kind = "transition"
    /\ \E target \in Statuses : target \notin Allowed(request[r].actor, request[r].row.status)
    /\ Refuse(r)

WrongEntryInternal(internal) == FALSE    \* details without the flag
EntryInternal(internal) == internal

\* A comment leaves the row and its version alone; the lock keeps the payload
\* of its event true.
AddComment(r, internal) ==
    /\ request[r].phase = "locked" /\ request[r].kind = "comment"
    /\ internal => request[r].actor \in Staff
    /\ Advance(r, "committed")
    /\ comments' = [comments EXCEPT ![request[r].of] =
            Append(@, [author |-> request[r].actor, internal |-> internal])]
    /\ Record(request[r].of, request[r].row,
              HistoryEntry("ticket.comment_added", request[r].actor, NoStatus, NoStatus,
                           EntryInternal(internal), request[r].started), internal)
    /\ UNCHANGED <<ticket, clock>>

RefuseComment(r) ==
    /\ request[r].phase = "locked" /\ request[r].kind = "comment"
    /\ request[r].actor \notin Staff
    /\ Refuse(r)

-----------------------------------------------------------------------------
(* The answer to a change: db.refresh in a transaction of its own, after   *)
(* the commit.                                                             *)

WrongAnsweredRow(r) == request[r].row    \* refreshed before the commit
AnsweredRow(r) == ticket[request[r].of]

\* An answer changes nothing: how many of them a run follows is its own affair.
Answers(r) ==
    /\ request[r].phase = "committed"
    /\ Cardinality({q \in Requests : /\ request[q].phase \in {"done", "lost"}
                                     /\ request[q].kind \notin {"read", "list"}}) < MaxAnswers

AnswerChange(r) ==
    /\ Answers(r)
    /\ request' = [request EXCEPT ![r] = [@ EXCEPT !.phase = "done", !.row = AnsweredRow(r)]]
    /\ UNCHANGED <<ticket, history, outbox, comments, clock>>

\* The refresh fails, or the process dies: the caller takes the change for failed.
LoseAnswer(r) ==
    /\ Answers(r)
    /\ Advance(r, "lost")
    /\ UNCHANGED <<ticket, history, outbox, comments, clock>>

-----------------------------------------------------------------------------
(* read_ticket: the row came with get_ticket; the selectinload of the      *)
(* comments and that of the history are statements of their own, each with *)
(* a snapshot of its own.  Which of them comes first is not the code's     *)
(* choice: the options of a query have no order.                           *)

\* Which of the first n elements of seq the answer shows.
Shown(r, seq, n) == {i \in 1..n : request[r].actor \in Staff \/ ~seq[i].internal}

CanLoad(r, part) ==
    /\ request[r].kind = "read"
    /\ \/ request[r].phase = "open" /\ HasAccess(r)
       \/ request[r].phase = "reading" /\ request[r].first # part

Loaded(r, part) ==
    IF request[r].phase = "open"
      THEN [request[r] EXCEPT !.phase = "reading", !.first = part]
      ELSE [request[r] EXCEPT !.phase = "done"]

ReadComments(r) ==
    /\ CanLoad(r, "comments")
    /\ request' = [request EXCEPT ![r] =
            [Loaded(r, "comments") EXCEPT !.comments = Len(comments[request[r].of])]]
    /\ UNCHANGED <<ticket, history, outbox, comments, clock>>

ReadHistory(r) ==
    /\ CanLoad(r, "history")
    /\ request' = [request EXCEPT ![r] =
            [Loaded(r, "history") EXCEPT !.history = Len(history[request[r].of])]]
    /\ UNCHANGED <<ticket, history, outbox, comments, clock>>

-----------------------------------------------------------------------------
(* list_tickets: a page of the tickets that match, then their number.  The  *)
(* order and the size of the page are left open; the filter by assignee,    *)
(* for staff only, is like the one by status and left out.                  *)

WrongMine(user, t) == TRUE    \* the client's filter is missing from the page
Mine(user, t) == user \in Staff \/ ticket[t].client = user

Passes(t, filter) == Exists(t) /\ (filter = NoStatus \/ ticket[t].status = filter)

ListPage(r, user, filter, page) ==
    /\ "list" \in Kinds
    /\ request[r].phase = "unused"
    /\ user \in Active
    /\ page \subseteq {t \in Tickets : Passes(t, filter) /\ Mine(user, t)}
    /\ clock' = clock + 1
    /\ request' = [request EXCEPT ![r] =
            [Unused EXCEPT !.phase = "reading", !.kind = "list", !.actor = user,
                           !.started = clock, !.filter = filter, !.page = page]]
    /\ UNCHANGED <<ticket, history, outbox, comments>>

CountTotal(r) ==
    LET counted(t) == /\ Passes(t, request[r].filter)
                      /\ request[r].actor \in Staff \/ ticket[t].client = request[r].actor
    IN  /\ request[r].phase = "reading" /\ request[r].kind = "list"
        /\ request' = [request EXCEPT ![r] =
                [@ EXCEPT !.phase = "done",
                          !.total = Cardinality({t \in Tickets : counted(t)})]]
        /\ UNCHANGED <<ticket, history, outbox, comments, clock>>

-----------------------------------------------------------------------------
Serve(r) ==
    \/ BeginAny(r) \/ DenyAccess(r) \/ Abort(r)
    \/ LockTicket(r) \/ RefuseVersion(r)
    \/ \E assignee \in Users : AssignTicket(r, assignee)
    \/ \E target \in Statuses : TransitionTicket(r, target)
    \/ \E internal \in BOOLEAN : AddComment(r, internal)
    \/ RefuseAssign(r) \/ RefuseTransition(r) \/ RefuseComment(r)
    \/ AnswerChange(r) \/ LoseAnswer(r)
    \/ ReadComments(r) \/ ReadHistory(r)
    \/ \E user \in Users, filter \in Statuses \cup {NoStatus}, page \in SUBSET Tickets :
           ListPage(r, user, filter, page)
    \/ CountTotal(r)

Next ==
    \/ \E t \in Tickets, user \in Users : CreateTicket(t, user)
    \/ \E r \in Requests : Serve(r)

Spec == Init /\ [][Next]_vars

-----------------------------------------------------------------------------
(* Properties *)

Committed(r) == request[r].phase \in {"committed", "done", "lost"}

IsChange(entry) == entry.action \in {"ticket.assigned", "ticket.status_changed"}

IsComment(entry) == entry.action = "ticket.comment_added"

\* Where seq holds what a client may see.
Public(seq) == {i \in 1..Len(seq) : ~seq[i].internal}

\* Where the first n of these entries tell of a change.
Changes(entries, n) == {i \in 1..n : IsChange(entries[i])}

\* The first n of these entries leave their ticket in status.
Tells(entries, n, status) ==
    \/ Changes(entries, n) = {} /\ status = "new"
    \/ \E i \in Changes(entries, n) :
          (\A k \in Changes(entries, n) : k <= i) /\ entries[i].to = status

\* No update is lost: read in commit order, the history leads from "new" to the
\* row's status, each change starting where the one before it ended, and the
\* version counts the changes.
NoLostUpdate ==
    \A t \in Tickets :
        LET n == Len(history[t])
        IN  Exists(t) =>
                /\ ticket[t].version = Cardinality(Changes(history[t], n)) + 1
                /\ \A i \in Changes(history[t], n) :
                      Tells(history[t], i - 1, history[t][i].from)
                /\ Tells(history[t], n, ticket[t].status)

\* Concurrent actions on one version have one success: of all requests that
\* quote a version of a ticket, one at most is ever committed, the repetition of
\* one whose answer was lost included.
OneWinnerPerVersion ==
    \A q, r \in Requests :
        /\ Committed(q) /\ Committed(r)
        /\ Versioned(request[q].kind) /\ Versioned(request[r].kind)
        /\ request[q].of = request[r].of /\ request[q].version = request[r].version
        => q = r

\* resolved_at is set exactly on resolved and closed tickets, along every path
\* of reopening, reassigning and closing.
ResolvedAtAgrees ==
    \A t \in Tickets : ticket[t].resolved <=> ticket[t].status \in {"resolved", "closed"}

\* Every event, a comment's included, tells the state its ticket was in when it
\* was committed: version and status never run ahead nor lag behind.
EventsTellTheState ==
    \A t \in Tickets :
        /\ Len(outbox[t]) = Len(history[t])
        /\ \A i \in 1..Len(outbox[t]) :
              /\ outbox[t][i].type = history[t][i].action
              /\ outbox[t][i].version = Cardinality(Changes(history[t], i)) + 1
              /\ Tells(history[t], i, outbox[t][i].status)

\* created_at is the start of a transaction, not its commit.  Still, sorted by
\* created_at as Ticket.history is, the changes stand in the order they were
\* committed, except for one whose caller guessed a version before it existed.
DisplayedOrderIsCommitOrder ==
    \A r \in Requests :
        Committed(r) /\ Versioned(request[r].kind) /\ ~request[r].guess =>
            \A i, j \in 1..Len(history[request[r].of]) :
                LET entry == history[request[r].of]
                IN  /\ i < j /\ IsChange(entry[i])
                    /\ entry[j].created_at = request[r].started
                    => entry[i].created_at < entry[j].created_at

\* What a reader gets is loaded by three statements, the row first and the two
\* parts in either order.  The history tells at least every change the row shows.
\* Of the comments, the part loaded second knows at least as many as the first:
\* a history loaded after the comments lists all that are shown, and comments
\* loaded after the history are all that it lists, perhaps with later ones.  And a
\* client's history never lists a comment the client may not see.
ViewsExplainThemselves ==
    \A r \in Requests :
        request[r].phase = "done" /\ request[r].kind = "read" =>
            LET t == request[r].of
                told == Shown(r, history[t], request[r].history)
                changes == {i \in told : IsChange(history[t][i])}
                listed == Cardinality({i \in told : IsComment(history[t][i])})
                shown == Cardinality(Shown(r, comments[t], request[r].comments))
            IN  /\ request[r].row.version <= Cardinality(changes) + 1
                /\ request[r].first = "comments" => shown <= listed
                /\ request[r].first = "history" => listed <= shown
                /\ request[r].actor \notin Staff =>
                      listed <= Cardinality(Public(comments[t]))

\* A change is answered with the row as it is some time later, perhaps with other
\* changes on top; but it is always a row that was committed, and no older than
\* the change itself.
AnswersShowTheChange ==
    \A r \in Requests :
        request[r].phase = "done" /\ Versioned(request[r].kind) =>
            LET entries == history[request[r].of]
                shown == request[r].row
            IN  /\ request[r].version < shown.version
                /\ \E n \in 1..Len(entries) :
                      /\ shown.version = Cardinality(Changes(entries, n)) + 1
                      /\ Tells(entries, n, shown.status)

\* A page and its total are of two moments, and both apply the caller's filter.
\* Still the total counts all that is on the page: what a caller may see never
\* gets less.  Only a filter by an attribute that changes (the status) can make
\* the total the smaller of the two.
TotalCoversPage ==
    \A r \in Requests :
        request[r].phase = "done" /\ request[r].kind = "list" /\ request[r].filter = NoStatus =>
            Cardinality(request[r].page) <= request[r].total

\* A closed ticket is never written again, by whatever was waiting for its lock.
ClosedIsFinal ==
    [][\A t \in Tickets : ticket[t].status = "closed" => ticket'[t] = ticket[t]]_vars
=============================================================================
