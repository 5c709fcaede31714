---------------------------- MODULE TicketProofs ----------------------------
(***************************************************************************)
(* Proofs about TicketWorkflow for any number of tickets, accounts and     *)
(* concurrent requests.  Shape says what a session knows of the row it     *)
(* works on; everything else is proved of steps from states of that shape. *)
(***************************************************************************)
EXTENDS TicketRefinement, FiniteSetTheorems, TLAPS

\* A row that exists was created by a client and has a status; the others are blank.
RowOK(t) ==
    /\ ~Exists(t) => ticket[t] = NoRow
    /\ Exists(t) => ticket[t].status \in Statuses /\ ticket[t].client \in Users

\* A request that is under way, or succeeded, with one ticket.
Engaged(r) == request[r].phase \notin {"unused", "failed"} /\ request[r].kind # "list"

\* What a session holds is about a ticket that exists; the lock keeps its row
\* fresh and at the version it quoted; that version is past once it committed.
SessionOK(r) ==
    LET q == request[r]
    IN  /\ Engaged(r) =>
              /\ q.of \in Tickets /\ Exists(q.of) /\ q.actor \in Active
              /\ q.kind \in {"assign", "transition", "comment", "read"}
        /\ q.phase \in {"open", "locked", "committed"} => Engaged(r)
        /\ q.phase \in {"open", "locked"} =>
              /\ q.row.client = ticket[q.of].client
              /\ q.kind = "assign" => q.actor \in Staff
        /\ q.phase \in {"locked", "committed"} => q.kind # "read"
        /\ q.phase = "locked" =>
              /\ q.row = ticket[q.of] /\ HasAccess(r)
              /\ Versioned(q.kind) => q.version = ticket[q.of].version
        /\ Committed(r) /\ Versioned(q.kind) => q.version < ticket[q.of].version

\* A ticket's lock is held once.
OneLock ==
    \A q, r \in Requests :
        /\ request[q].phase = "locked" /\ request[r].phase = "locked"
        /\ request[q].of = request[r].of
        => q = r

Shape ==
    /\ TypeOK
    /\ \A t \in Tickets : RowOK(t)
    /\ \A r \in Requests : SessionOK(r)
    /\ OneLock

-----------------------------------------------------------------------------
(* Kinds of steps *)

\* The tables stay as they are.
Quiet == UNCHANGED <<ticket, history, outbox, comments>>

\* One session goes from one state to another; the tables stay.
SessionStep(r, q) ==
    /\ Quiet
    /\ clock' \in {clock, clock + 1}
    /\ request' = [request EXCEPT ![r] = q]

\* A session that holds a lock leaves row behind, an entry and an event.
CommitStep(r, row, entry, event) ==
    LET t == request[r].of
    IN  /\ request[r].phase = "locked"
        /\ request' = [request EXCEPT ![r] = [@ EXCEPT !.phase = "committed"]]
        /\ ticket' = [ticket EXCEPT ![t] = row]
        /\ history' = [history EXCEPT ![t] = Append(@, entry)]
        /\ outbox' = [outbox EXCEPT ![t] = Append(@, event)]
        /\ clock' = clock

LEMMA BlankRow == NoRow \in Row
BY DEF NoRow, Row

LEMMA BlankRequest == Unused \in Request
BY BlankRow DEF Unused, Request

\* A session's step keeps the shape if the session itself is sound.
LEMMA SessionKeepsShape ==
    ASSUME Shape, NEW r \in Requests, NEW q \in Request, SessionStep(r, q), SessionOK(r)',
           q.phase = "locked" => Free(q.of)
    PROVE  Shape'
<1>1. TypeOK'
  BY DEF Shape, TypeOK, SessionStep, Quiet
<1>2. request' \in [Requests -> Request] /\ request'[r] = q
      /\ \A p \in Requests \ {r} : request'[p] = request[p]
  BY DEF Shape, TypeOK, SessionStep
<1>3. ticket' = ticket
  BY DEF SessionStep, Quiet
<1>4. \A t \in Tickets : RowOK(t)'
  BY <1>3 DEF Shape, RowOK, Exists
<1>5. \A p \in Requests : SessionOK(p)'
  BY <1>2, <1>3 DEF Shape, SessionOK, Engaged, Exists, HasAccess, Committed
<1>6. OneLock'
  BY <1>2 DEF Shape, OneLock, Free
<1> QED BY <1>1, <1>4, <1>5, <1>6 DEF Shape

LEMMA Advanced ==
    ASSUME NEW q \in Request,
           NEW phase \in {"unused", "open", "locked", "reading", "committed", "done", "lost",
                          "failed"}
    PROVE  /\ [q EXCEPT !.phase = phase] \in Request
           /\ [q EXCEPT !.phase = phase].phase = phase
           /\ [q EXCEPT !.phase = phase].kind = q.kind
           /\ [q EXCEPT !.phase = phase].actor = q.actor
           /\ [q EXCEPT !.phase = phase].of = q.of
           /\ [q EXCEPT !.phase = phase].version = q.version
           /\ [q EXCEPT !.phase = phase].row = q.row
BY DEF Request

\* The commit of a sound row by the holder of the lock keeps the shape.
LEMMA CommitKeepsShape ==
    ASSUME Shape, NEW r \in Requests, NEW row \in Row, NEW entry \in Entry,
           NEW event \in Event, CommitStep(r, row, entry, event),
           row.status \in Statuses,
           row.client = request[r].row.client,
           row.version >= request[r].row.version,
           Versioned(request[r].kind) => row.version > request[r].row.version,
           comments' \in [Tickets -> Seq(Comment)]
    PROVE  Shape'
<1> PICK t \in Tickets : t = request[r].of
  BY DEF Shape, SessionOK, CommitStep
<1>1. /\ request[r].row = ticket[t] /\ Exists(t) /\ ticket[t] \in Row /\ request[r] \in Request
      /\ ticket[t].status \in Statuses /\ ticket[t].client \in Users /\ ticket[t].version \in Nat
      /\ row.version \in Nat
  BY DEF Shape, SessionOK, CommitStep, RowOK, TypeOK, Row
<1>2. /\ request' \in [Requests -> Request]
      /\ request'[r] = [request[r] EXCEPT !.phase = "committed"]
      /\ \A p \in Requests \ {r} : request'[p] = request[p]
  <2> PICK q \in Request : q = [request[r] EXCEPT !.phase = "committed"]
    BY <1>1, Advanced
  <2>1. request' = [request EXCEPT ![r] = q]
    BY DEF CommitStep
  <2> QED BY <2>1 DEF Shape, TypeOK
<1>3. /\ ticket' \in [Tickets -> Row] /\ ticket'[t] = row
      /\ \A u \in Tickets \ {t} : ticket'[u] = ticket[u]
  BY DEF Shape, TypeOK, CommitStep
<1>5. TypeOK'
  <2>1. history' \in [Tickets -> Seq(Entry)]
    BY DEF Shape, TypeOK, CommitStep
  <2>2. outbox' \in [Tickets -> Seq(Event)]
    BY DEF Shape, TypeOK, CommitStep
  <2>3. clock' \in Nat
    BY DEF Shape, TypeOK, CommitStep
  <2> QED BY <1>2, <1>3, <2>1, <2>2, <2>3 DEF TypeOK
<1>6. \A u \in Tickets : RowOK(u)'
  BY <1>1, <1>3 DEF Shape, RowOK, Exists
<1>7. \A u \in Tickets : /\ Exists(u) => Exists(u)'
                         /\ ticket'[u].client = ticket[u].client
                         /\ ticket[u].version \in Nat /\ ticket'[u].version \in Nat
                         /\ ticket[u].version <= ticket'[u].version
  <2> SUFFICES ASSUME NEW u \in Tickets
               PROVE  /\ Exists(u) => Exists(u)'
                      /\ ticket'[u].client = ticket[u].client
                      /\ ticket[u].version \in Nat /\ ticket'[u].version \in Nat
                      /\ ticket[u].version <= ticket'[u].version
    OBVIOUS
  <2>1. ticket[u].version \in Nat /\ ticket'[u].version \in Nat
    BY <1>3 DEF Shape, TypeOK, Row
  <2>2. CASE u = t
    BY <1>1, <1>3, <2>1, <2>2 DEF Exists
  <2>3. CASE u # t
    BY <1>3, <2>1, <2>3 DEF Exists
  <2> QED BY <2>2, <2>3
<1>8. \A p \in Requests : SessionOK(p)'
  <2>1. SessionOK(r)'
    <3>1. /\ request'[r].phase = "committed" /\ request'[r].kind = request[r].kind
          /\ request'[r].of = t /\ request'[r].actor = request[r].actor
          /\ request'[r].version = request[r].version
      BY <1>1, <1>2, Advanced
    <3>2. SessionOK(r) /\ request[r].phase = "locked"
      BY DEF Shape, CommitStep
    <3>3. Versioned(request[r].kind) => request[r].version < row.version
      BY <1>1, <3>2 DEF SessionOK
    <3> QED BY <1>1, <1>3, <1>7, <3>1, <3>2, <3>3 DEF SessionOK, Engaged, Committed
  <2>2. ASSUME NEW p \in Requests \ {r}
        PROVE  SessionOK(p)'
    <3>1. request[p].phase = "locked" => request[p].of # t
      BY DEF Shape, OneLock, CommitStep
    <3>2. SessionOK(p) /\ request'[p] = request[p] /\ request[p].version \in Nat
      BY <1>2 DEF Shape, TypeOK, Request
    <3>3. Committed(p) /\ Versioned(request[p].kind) => Engaged(p)
      BY DEF Committed, Versioned, Engaged
    <3> QED
      BY <1>3, <1>7, <3>1, <3>2, <3>3 DEF SessionOK, Engaged, HasAccess, Committed
  <2> QED BY <2>1, <2>2
<1>9. OneLock'
  <2>1. request'[r].phase = "committed"
    BY <1>1, <1>2, Advanced
  <2> QED BY <1>2, <2>1 DEF Shape, OneLock
<1> QED BY <1>5, <1>6, <1>8, <1>9 DEF Shape

\* So does a new ticket, which no session knows yet.
LEMMA CreateKeepsShape ==
    ASSUME Shape, NEW t \in Tickets, NEW user \in Users, CreateTicket(t, user)
    PROVE  Shape'
<1>1. NewTicket(user) \in Row /\ NewTicket(user).version = 1
      /\ NewTicket(user).status = "new" /\ NewTicket(user).client = user
  BY DEF NewTicket, NoRow, Row, Statuses
<1>2. /\ ticket' \in [Tickets -> Row] /\ ticket'[t] = NewTicket(user)
      /\ \A u \in Tickets \ {t} : ticket'[u] = ticket[u]
  BY <1>1 DEF Shape, TypeOK, CreateTicket
<1>3. TypeOK'
  <2>1. HistoryEntry("ticket.created", user, NoStatus, NoStatus, FALSE, clock) \in Entry
    BY DEF HistoryEntry, Entry, Actions, Shape, TypeOK
  <2> PICK entry \in Entry :
          entry = HistoryEntry("ticket.created", user, NoStatus, NoStatus, FALSE, clock)
    BY <2>1
  <2>2. OutboxEvent(entry.action, NewTicket(user), FALSE) \in Event
    <3>1. entry.action = "ticket.created"
      BY DEF HistoryEntry
    <3> QED BY <1>1, <3>1 DEF OutboxEvent, Event, Actions, Statuses, HistoryEntry
  <2>3. Record(t, NewTicket(user), entry, FALSE)
    BY DEF CreateTicket
  <2>4. history' \in [Tickets -> Seq(Entry)] /\ outbox' \in [Tickets -> Seq(Event)]
    BY <2>2, <2>3 DEF Shape, TypeOK, Record, OutboxEvent, HistoryEntry
  <2> QED BY <1>2, <2>4 DEF Shape, TypeOK, CreateTicket
<1>4. \A u \in Tickets : RowOK(u)'
  BY <1>1, <1>2 DEF Shape, RowOK, Exists, Statuses
<1>5. request' = request
  BY DEF CreateTicket
<1>6. \A p \in Requests : SessionOK(p)'
  <2> SUFFICES ASSUME NEW p \in Requests PROVE SessionOK(p)'
    OBVIOUS
  <2>1. request[p] \in Request /\ SessionOK(p)
    BY DEF Shape, TypeOK
  <2>2. Engaged(p) => request[p].of # t
    BY <2>1 DEF CreateTicket, SessionOK
  <2>3. Committed(p) /\ Versioned(request[p].kind) => Engaged(p)
    BY DEF Committed, Versioned, Engaged
  <2> QED
    BY <1>2, <1>5, <2>1, <2>2, <2>3 DEF SessionOK, Engaged, Exists, HasAccess, Committed
<1>7. OneLock'
  BY <1>5 DEF Shape, OneLock
<1> QED BY <1>3, <1>4, <1>6, <1>7 DEF Shape

-----------------------------------------------------------------------------
(* The steps of a session, one by one *)

\* A session begins with a transaction of its own, on a ticket as it is then.
Begins(r, q) ==
    /\ request[r].phase = "unused" /\ clock' = clock + 1 /\ q.started = clock
    /\ q.phase = "open" \/ (q.phase = "reading" /\ q.kind = "list")
    /\ q.phase = "open" /\ ~q.guess => q.version <= ticket[q.of].version

\* It goes on with what it is about; only a committed change is answered, with the
\* row as it is then.
GoesOn(r, q) ==
    /\ request[r].phase \in {"open", "reading", "committed"} /\ clock' = clock
    /\ q.kind = request[r].kind /\ q.actor = request[r].actor /\ q.of = request[r].of
    /\ q.version = request[r].version /\ q.started = request[r].started
    /\ q.guess = request[r].guess
    /\ \/ q.phase = "locked" /\ request[r].phase = "open"
       \/ /\ q.phase \in {"reading", "done", "lost"}
          /\ Versioned(q.kind) => request[r].phase = "committed"
    /\ q.phase = "done" /\ Versioned(q.kind) => q.row = ticket[q.of]

SoundStep(r, q) ==
    /\ SessionStep(r, q)
    /\ \/ q.phase = "failed" /\ clock' = clock
       \/ Begins(r, q)
       \/ GoesOn(r, q)

LEMMA RefuseSound ==
    ASSUME Shape, NEW r \in Requests, Refuse(r)
    PROVE  Shape' /\ \E q \in Request : SoundStep(r, q)
<1> PICK q \in Request : q = [Unused EXCEPT !.phase = "failed"]
  BY BlankRow DEF Unused, Request
<1>1. q.phase = "failed" /\ SessionStep(r, q) /\ clock' = clock
  BY DEF Unused, Request, Refuse, SessionStep, Quiet
<1>2. request'[r].phase = "failed"
  BY <1>1 DEF SessionStep, Shape, TypeOK
<1>3. SessionOK(r)'
  BY <1>2 DEF SessionOK, Engaged, Committed
<1> QED BY <1>1, <1>3, SessionKeepsShape DEF SoundStep

LEMMA BeginSound ==
    ASSUME Shape, NEW r \in Requests, NEW kind \in Kinds \ {"list"}, NEW user \in Users,
           NEW t \in Tickets, NEW version \in Nat, Begin(r, kind, user, t, version)
    PROVE  Shape' /\ \E q \in Request : SoundStep(r, q)
<1>1. ticket[t] \in Row /\ ticket[t].version \in Nat /\ clock \in Nat /\ user \in Active
  BY DEF Shape, TypeOK, Row, Begin
<1>2. \E q \in Request :
         /\ q.phase = "open" /\ q.kind = kind /\ q.actor = user /\ q.of = t /\ q.row = ticket[t]
         /\ q.version = version /\ q.started = clock
         /\ ~q.guess => version <= ticket[t].version
         /\ SessionStep(r, q)
  <2>0. \E guess \in BOOLEAN :
           guess = (version > ticket[t].version) /\ (guess \/ version <= ticket[t].version)
    <3>1. CASE version > ticket[t].version
      <4>1. TRUE = (version > ticket[t].version)
        BY <3>1
      <4> QED BY <4>1, Zenon
    <3>2. CASE ~(version > ticket[t].version)
      <4>1. FALSE = (version > ticket[t].version) /\ version <= ticket[t].version
        BY <1>1, <3>2
      <4> QED BY <4>1, Zenon
    <3> QED BY <3>1, <3>2
  <2> PICK guess \in BOOLEAN :
          guess = (version > ticket[t].version) /\ (guess \/ version <= ticket[t].version)
    BY <2>0
  <2> DEFINE q == [Unused EXCEPT !.phase = "open", !.kind = kind, !.actor = user, !.of = t,
                                 !.version = version, !.guess = guess,
                                 !.row = ticket[t], !.started = clock]
  <2>1. /\ q \in Request
        /\ q.phase = "open" /\ q.kind = kind /\ q.actor = user /\ q.of = t /\ q.row = ticket[t]
        /\ q.version = version /\ q.started = clock
    BY <1>1 DEF Unused, Request
  <2>2. ~q.guess => version <= ticket[t].version
    <3>1. q.guess <=> guess
      BY DEF Unused
    <3> QED BY <3>1, Zenon
  <2>3. SessionStep(r, q)
    BY DEF Begin, SessionStep, Quiet
  <2> HIDE DEF q
  <2> QED BY <2>1, <2>2, <2>3
<1> PICK q \in Request :
         /\ q.phase = "open" /\ q.kind = kind /\ q.actor = user /\ q.of = t /\ q.row = ticket[t]
         /\ q.version = version /\ q.started = clock
         /\ ~q.guess => version <= ticket[t].version
         /\ SessionStep(r, q)
  BY <1>2
<1>3. request'[r] = q /\ ticket' = ticket
  BY DEF Shape, TypeOK, SessionStep, Quiet
<1>4. SessionOK(r)'
  BY <1>1, <1>3, KindAssumption DEF SessionOK, Engaged, Committed, Exists, Begin
<1>5. request[r].phase = "unused" /\ clock' = clock + 1
  BY DEF Begin
<1>6. Begins(r, q)
  BY <1>5 DEF Begins
<1> QED BY <1>4, <1>6, SessionKeepsShape DEF SoundStep

LEMMA ListPageSound ==
    ASSUME Shape, NEW r \in Requests, NEW user \in Users,
           NEW filter \in Statuses \cup {NoStatus}, NEW page \in SUBSET Tickets,
           ListPage(r, user, filter, page)
    PROVE  Shape' /\ \E q \in Request : SoundStep(r, q)
<1> PICK q \in Request :
        q = [Unused EXCEPT !.phase = "reading", !.kind = "list", !.actor = user,
                           !.started = clock, !.filter = filter, !.page = page]
  BY BlankRow DEF Unused, Request, ListPage, Shape, TypeOK
<1>1. q.phase = "reading" /\ q.kind = "list" /\ q.started = clock
  BY DEF Unused, Request
<1>2. SessionStep(r, q)
  BY DEF ListPage, SessionStep, Quiet
<1>3. request'[r] = q
  BY <1>2 DEF Shape, TypeOK, SessionStep
<1>4. SessionOK(r)'
  BY <1>1, <1>3 DEF SessionOK, Engaged, Committed, Versioned
<1>5. Begins(r, q)
  BY <1>1 DEF Begins, ListPage
<1> QED BY <1>1, <1>2, <1>4, <1>5, SessionKeepsShape DEF SoundStep

LEMMA LockSound ==
    ASSUME Shape, NEW r \in Requests, LockTicket(r)
    PROVE  Shape' /\ \E q \in Request : SoundStep(r, q)
<1>1. /\ request[r] \in Request /\ request[r].phase = "open" /\ Engaged(r)
      /\ request[r].of \in Tickets /\ SessionOK(r)
  BY DEF Shape, TypeOK, LockTicket, CanLock, SessionOK
<1>2. LockedRow(r) \in Row
  BY <1>1 DEF Shape, TypeOK, LockedRow
<1> PICK q \in Request : q = [request[r] EXCEPT !.phase = "locked", !.row = LockedRow(r)]
  BY <1>1, <1>2 DEF Request
<1>3. /\ q.phase = "locked" /\ q.row = ticket[request[r].of]
      /\ q.kind = request[r].kind /\ q.actor = request[r].actor
      /\ q.of = request[r].of /\ q.version = request[r].version
      /\ q.started = request[r].started /\ q.guess = request[r].guess
  BY <1>1 DEF Request, LockedRow
<1>4. SessionStep(r, q)
  BY DEF LockTicket, SessionStep, Quiet
<1>5. request'[r] = q /\ ticket' = ticket
  BY <1>4 DEF Shape, TypeOK, SessionStep, Quiet
<1>6. SessionOK(r)'
  BY <1>1, <1>3, <1>5
  DEF SessionOK, Engaged, Committed, Exists, HasAccess, LockTicket, CanLock, VersionMatches,
      LockedRow
<1>7. GoesOn(r, q)
  BY <1>1, <1>3 DEF GoesOn, LockTicket
<1> QED BY <1>1, <1>3, <1>4, <1>6, <1>7, SessionKeepsShape DEF LockTicket, CanLock, SoundStep

\* Answering and reading change what a session holds, not what it knows.
LEMMA GoingOnKeepsShape ==
    ASSUME Shape, NEW r \in Requests, NEW q \in Request, SessionStep(r, q), GoesOn(r, q),
           q.phase # "locked"
    PROVE  Shape'
<1>1. request'[r] = q /\ ticket' = ticket
  BY DEF Shape, TypeOK, SessionStep, Quiet
<1>2. SessionOK(r)'
  BY <1>1 DEF Shape, SessionOK, Engaged, Committed, Exists, GoesOn
<1> QED BY <1>2, SessionKeepsShape DEF GoesOn

LEMMA AnswerSound ==
    ASSUME Shape, NEW r \in Requests, AnswerChange(r) \/ LoseAnswer(r)
    PROVE  Shape' /\ \E q \in Request : SoundStep(r, q)
<1>1. /\ request[r] \in Request /\ request[r].phase = "committed" /\ request[r].of \in Tickets
      /\ ticket[request[r].of] \in Row /\ clock' = clock
  BY DEF Shape, TypeOK, SessionOK, AnswerChange, LoseAnswer, Answers
<1>2. CASE AnswerChange(r)
  <2> PICK q \in Request : q = [request[r] EXCEPT !.phase = "done", !.row = AnsweredRow(r)]
    BY <1>1 DEF Request, AnsweredRow
  <2>1. /\ q.phase = "done" /\ q.row = ticket[request[r].of]
        /\ q.kind = request[r].kind /\ q.actor = request[r].actor
        /\ q.of = request[r].of /\ q.version = request[r].version
        /\ q.started = request[r].started /\ q.guess = request[r].guess
    BY <1>1 DEF Request, AnsweredRow
  <2>2. SessionStep(r, q) /\ GoesOn(r, q)
    BY <1>1, <1>2, <2>1 DEF AnswerChange, SessionStep, Quiet, GoesOn
  <2> QED BY <2>1, <2>2, GoingOnKeepsShape DEF SoundStep
<1>3. CASE LoseAnswer(r)
  <2> PICK q \in Request : q = [request[r] EXCEPT !.phase = "lost"]
    BY <1>1 DEF Request
  <2>1. /\ q.phase = "lost"
        /\ q.kind = request[r].kind /\ q.actor = request[r].actor
        /\ q.of = request[r].of /\ q.version = request[r].version
        /\ q.started = request[r].started /\ q.guess = request[r].guess
    BY <1>1 DEF Request
  <2>2. SessionStep(r, q) /\ GoesOn(r, q)
    BY <1>1, <1>3, <2>1 DEF LoseAnswer, Advance, SessionStep, Quiet, GoesOn
  <2> QED BY <2>1, <2>2, GoingOnKeepsShape DEF SoundStep
<1> QED BY <1>2, <1>3

\* What a session is once it has loaded a part of its ticket.
LEMMA LoadedPart ==
    ASSUME NEW r \in Requests, request[r] \in Request, NEW part \in Parts
    PROVE  /\ Loaded(r, part) \in Request
           /\ request[r].phase = "open" =>
                 Loaded(r, part).phase = "reading" /\ Loaded(r, part).first = part
           /\ request[r].phase # "open" =>
                 Loaded(r, part).phase = "done" /\ Loaded(r, part).first = request[r].first
           /\ Loaded(r, part).kind = request[r].kind
           /\ Loaded(r, part).actor = request[r].actor
           /\ Loaded(r, part).of = request[r].of
           /\ Loaded(r, part).version = request[r].version
           /\ Loaded(r, part).started = request[r].started
           /\ Loaded(r, part).guess = request[r].guess
           /\ Loaded(r, part).row = request[r].row
           /\ Loaded(r, part).comments = request[r].comments
           /\ Loaded(r, part).history = request[r].history
<1>1. CASE request[r].phase = "open"
  BY <1>1 DEF Loaded, Request
<1>2. CASE request[r].phase # "open"
  BY <1>2 DEF Loaded, Request
<1> QED BY <1>1, <1>2

LEMMA ReadSound ==
    ASSUME Shape, NEW r \in Requests, ReadComments(r) \/ ReadHistory(r) \/ CountTotal(r)
    PROVE  Shape' /\ \E q \in Request : SoundStep(r, q)
<1>1. /\ request[r] \in Request /\ clock' = clock /\ SessionOK(r)
      /\ request[r].phase \in {"open", "reading"} /\ request[r].kind \in {"read", "list"}
  BY DEF Shape, TypeOK, ReadComments, ReadHistory, CanLoad, CountTotal
<1>2. CASE ReadComments(r)
  <2>1. Len(comments[request[r].of]) \in Nat
    BY <1>1, <1>2 DEF ReadComments, CanLoad, SessionOK, Engaged, Shape, TypeOK
  <2> PICK l \in Request :
          /\ l = Loaded(r, "comments") /\ l.phase \in {"reading", "done"}
          /\ l.kind = request[r].kind /\ l.actor = request[r].actor
          /\ l.of = request[r].of /\ l.version = request[r].version
          /\ l.started = request[r].started /\ l.guess = request[r].guess
    BY <1>1, LoadedPart DEF Parts
  <2> PICK q \in Request : q = [l EXCEPT !.comments = Len(comments[request[r].of])]
    BY <2>1 DEF Request
  <2>2. /\ q.phase \in {"reading", "done"}
        /\ q.kind = request[r].kind /\ q.actor = request[r].actor
        /\ q.of = request[r].of /\ q.version = request[r].version
        /\ q.started = request[r].started /\ q.guess = request[r].guess
    BY DEF Request
  <2>3. request[r].kind = "read" /\ request' = [request EXCEPT ![r] = q]
        /\ UNCHANGED <<ticket, history, outbox, comments, clock>>
    BY <1>2 DEF ReadComments, CanLoad
  <2>4. SessionStep(r, q) /\ GoesOn(r, q)
    BY <1>1, <2>2, <2>3 DEF SessionStep, Quiet, GoesOn, Versioned
  <2> QED BY <2>2, <2>4, GoingOnKeepsShape DEF SoundStep
<1>3. CASE ReadHistory(r)
  <2>1. Len(history[request[r].of]) \in Nat
    BY <1>1, <1>3 DEF ReadHistory, CanLoad, SessionOK, Engaged, Shape, TypeOK
  <2> PICK l \in Request :
          /\ l = Loaded(r, "history") /\ l.phase \in {"reading", "done"}
          /\ l.kind = request[r].kind /\ l.actor = request[r].actor
          /\ l.of = request[r].of /\ l.version = request[r].version
          /\ l.started = request[r].started /\ l.guess = request[r].guess
    BY <1>1, LoadedPart DEF Parts
  <2> PICK q \in Request : q = [l EXCEPT !.history = Len(history[request[r].of])]
    BY <2>1 DEF Request
  <2>2. /\ q.phase \in {"reading", "done"}
        /\ q.kind = request[r].kind /\ q.actor = request[r].actor
        /\ q.of = request[r].of /\ q.version = request[r].version
        /\ q.started = request[r].started /\ q.guess = request[r].guess
    BY DEF Request
  <2>3. request[r].kind = "read" /\ request' = [request EXCEPT ![r] = q]
        /\ UNCHANGED <<ticket, history, outbox, comments, clock>>
    BY <1>3 DEF ReadHistory, CanLoad
  <2>4. SessionStep(r, q) /\ GoesOn(r, q)
    BY <1>1, <2>2, <2>3 DEF SessionStep, Quiet, GoesOn, Versioned
  <2> QED BY <2>2, <2>4, GoingOnKeepsShape DEF SoundStep
<1>4. CASE CountTotal(r)
  <2> DEFINE counted == {t \in Tickets :
                            /\ Passes(t, request[r].filter)
                            /\ request[r].actor \in Staff \/ ticket[t].client = request[r].actor}
  <2>1. Cardinality(counted) \in Nat
    BY TableAssumption, FS_Subset, FS_CardinalityType
  <2> PICK q \in Request : q = [request[r] EXCEPT !.phase = "done",
                                                  !.total = Cardinality(counted)]
    BY <1>1, <2>1 DEF Request
  <2>2. /\ q.phase = "done"
        /\ q.kind = request[r].kind /\ q.actor = request[r].actor
        /\ q.of = request[r].of /\ q.version = request[r].version
        /\ q.started = request[r].started /\ q.guess = request[r].guess
    BY <1>1 DEF Request
  <2>3. SessionStep(r, q) /\ GoesOn(r, q)
    BY <1>1, <1>4, <2>2 DEF CountTotal, SessionStep, Quiet, GoesOn, Versioned
  <2> QED BY <2>2, <2>3, GoingOnKeepsShape DEF SoundStep
<1> QED BY <1>1, <1>2, <1>3, <1>4

\* What a session that holds its ticket's lock has in hand.
LEMMA Holder ==
    ASSUME Shape, NEW r \in Requests, request[r].phase = "locked"
    PROVE  /\ request[r].of \in Tickets /\ request[r].row = ticket[request[r].of]
           /\ request[r].row \in Row /\ request[r].row.status \in Statuses
           /\ request[r].row.version \in Nat \ {0} /\ request[r].row.client \in Users
           /\ request[r].actor \in Users /\ request[r].actor \in Active
           /\ request[r].started \in Nat
<1>1. SessionOK(r) /\ request[r] \in Request
  BY DEF Shape, TypeOK
<1>2. request[r].of \in Tickets /\ request[r].row = ticket[request[r].of]
      /\ request[r].row \in Row /\ request[r].actor \in Active /\ request[r].started \in Nat
  BY <1>1 DEF SessionOK, Engaged, Request
<1> QED BY <1>1, <1>2, UserAssumption DEF Shape, RowOK, SessionOK, Row, Exists

\* What an assignment makes of a row.
LEMMA AssignedRow ==
    ASSUME NEW row \in Row, NEW version \in Nat, NEW status \in Statuses,
           NEW assignee \in Users
    PROVE  LET new == [row EXCEPT !.version = version, !.assignee = assignee, !.status = status]
           IN  /\ new \in Row /\ new.status = status /\ new.client = row.client
               /\ new.version = version /\ new.resolved = row.resolved
BY DEF Row

\* What a transition makes of a row.
LEMMA MovedRow ==
    ASSUME NEW row \in Row, NEW version \in Nat, NEW status \in Statuses,
           NEW resolved \in BOOLEAN
    PROVE  LET new == [row EXCEPT !.version = version, !.status = status, !.resolved = resolved]
           IN  /\ new \in Row /\ new.status = status /\ new.client = row.client
               /\ new.version = version /\ new.resolved = resolved
BY DEF Row

\* resolved_at is set on resolved and closed tickets.
Agrees(row) == row.resolved <=> row.status \in {"resolved", "closed"}

\* A change adds no comment and is told to everybody; a comment is told to whom
\* it is shown.
CommentsFit(r, entry) ==
    /\ IsChange(entry) => ~entry.internal /\ comments' = comments
    /\ ~IsChange(entry) =>
          /\ IsComment(entry)
          /\ \E comment \in Comment :
                /\ comment.internal <=> entry.internal
                /\ comments' = [comments EXCEPT ![request[r].of] = Append(@, comment)]

\* What every commit is like, whichever the operation.
SoundCommit(r, row, entry, event) ==
    LET old == request[r].row
    IN  /\ CommitStep(r, row, entry, event)
        /\ row.status \in Statuses /\ row.client = old.client
        /\ IsChange(entry) <=> Versioned(request[r].kind)
        /\ IsChange(entry) =>
              /\ row.version = old.version + 1
              /\ entry.from = old.status /\ entry.to = row.status
              /\ old.status # "closed"
        /\ ~IsChange(entry) => row = old
        /\ Agrees(old) => Agrees(row)
        /\ entry.created_at = request[r].started
        /\ event.type = entry.action /\ event.version = row.version
        /\ event.status = row.status
        /\ CommentsFit(r, entry)
        /\ comments' \in [Tickets -> Seq(Comment)]

\* assign_ticket from the lock to the commit.
LEMMA AssignCommits ==
    ASSUME Shape, NEW r \in Requests, NEW assignee \in Users, AssignTicket(r, assignee)
    PROVE  \E row \in Row, entry \in Entry, event \in Event : SoundCommit(r, row, entry, event)
<1>0. request[r].phase = "locked"
  BY DEF AssignTicket
<1> PICK old \in Row : old = request[r].row
  BY <1>0, Holder
<1>1. /\ old.status \in Statuses /\ old.client \in Users /\ old.version \in Nat \ {0}
      /\ request[r].actor \in Users /\ request[r].started \in Nat
  BY <1>0, Holder
<1> PICK status \in Statuses :
        status = IF old.status = "new" THEN "in_progress" ELSE old.status
  BY <1>1 DEF Statuses
<1> PICK version \in Nat \ {0} : version = old.version + 1
  BY <1>1
<1> PICK row \in Row :
        row = [old EXCEPT !.version = version, !.assignee = assignee, !.status = status]
  BY AssignedRow
<1>2. row.status = status /\ row.client = old.client /\ row.version = version
      /\ row.resolved = old.resolved
  BY DEF Row
<1> PICK entry \in Entry :
        entry = HistoryEntry("ticket.assigned", request[r].actor, old.status, status,
                             FALSE, request[r].started)
  BY <1>1 DEF HistoryEntry, Entry, Actions
<1> PICK event \in Event : event = OutboxEvent("ticket.assigned", row, FALSE)
  BY <1>1, <1>2 DEF OutboxEvent, Event, Actions
<1>3. CommitStep(r, row, entry, event)
  BY DEF AssignTicket, CommitRow, CommitStep, Advance, HistoryEntry, Record, OutboxEvent
<1>4. entry.action = "ticket.assigned" /\ entry.from = old.status /\ entry.to = status
      /\ entry.created_at = request[r].started /\ ~entry.internal
  BY DEF HistoryEntry
<1>5. event.type = "ticket.assigned" /\ event.version = row.version /\ event.status = row.status
  BY DEF OutboxEvent
<1>6. Versioned(request[r].kind) /\ old.status \notin {"resolved", "closed"}
      /\ status \notin {"resolved", "closed"}
  BY DEF AssignTicket, Versioned, Assignable
<1>7. Agrees(old) => Agrees(row)
  BY <1>2, <1>6 DEF Agrees
<1>8. comments' = comments /\ comments' \in [Tickets -> Seq(Comment)]
  BY DEF AssignTicket, CommitRow, Shape, TypeOK
<1>9. IsChange(entry) /\ CommentsFit(r, entry)
  BY <1>4, <1>8 DEF CommentsFit, IsChange
<1> WITNESS row \in Row, entry \in Entry, event \in Event
<1> QED BY <1>2, <1>3, <1>4, <1>5, <1>6, <1>7, <1>8, <1>9 DEF SoundCommit

\* transition_ticket from the lock to the commit.
LEMMA TransitionCommits ==
    ASSUME Shape, NEW r \in Requests, NEW target \in Statuses, TransitionTicket(r, target)
    PROVE  \E row \in Row, entry \in Entry, event \in Event : SoundCommit(r, row, entry, event)
<1>0. request[r].phase = "locked"
  BY DEF TransitionTicket
<1> PICK old \in Row : old = request[r].row
  BY <1>0, Holder
<1>1. /\ old.status \in Statuses /\ old.client \in Users /\ old.version \in Nat \ {0}
      /\ request[r].actor \in Users /\ request[r].started \in Nat
  BY <1>0, Holder
<1> PICK resolved \in BOOLEAN : resolved = ResolvedAt(old, target)
  BY DEF ResolvedAt, Row
<1> PICK version \in Nat \ {0} : version = old.version + 1
  BY <1>1
<1> PICK row \in Row :
        row = [old EXCEPT !.version = version, !.status = target, !.resolved = resolved]
  BY MovedRow
<1>2. row.status = target /\ row.client = old.client /\ row.version = version
      /\ row.resolved = resolved
  BY DEF Row
<1> PICK entry \in Entry :
        entry = HistoryEntry("ticket.status_changed", request[r].actor, old.status, target,
                             FALSE, request[r].started)
  BY <1>1 DEF HistoryEntry, Entry, Actions
<1> PICK event \in Event : event = OutboxEvent("ticket.status_changed", row, FALSE)
  BY <1>1, <1>2 DEF OutboxEvent, Event, Actions
<1>3. CommitStep(r, row, entry, event)
  BY DEF TransitionTicket, CommitRow, CommitStep, Advance, HistoryEntry, Record, OutboxEvent
<1>4. entry.action = "ticket.status_changed" /\ entry.from = old.status /\ entry.to = target
      /\ entry.created_at = request[r].started /\ ~entry.internal
  BY DEF HistoryEntry
<1>5. event.type = "ticket.status_changed" /\ event.version = row.version
      /\ event.status = row.status
  BY DEF OutboxEvent
<1>6. Versioned(request[r].kind) /\ target \in Allowed(request[r].actor, old.status)
  BY DEF TransitionTicket, Versioned
<1>7. old.status # "closed" /\ (target = "closed" => old.status = "resolved")
  BY <1>1, <1>6 DEF Allowed, STAFF_TRANSITIONS, CLIENT_TRANSITIONS, Statuses
<1>8. Agrees(old) => Agrees(row)
  BY <1>2, <1>7 DEF Agrees, ResolvedAt
<1>9. comments' = comments /\ comments' \in [Tickets -> Seq(Comment)]
  BY DEF TransitionTicket, CommitRow, Shape, TypeOK
<1>10. IsChange(entry) /\ CommentsFit(r, entry)
  BY <1>4, <1>9 DEF CommentsFit, IsChange
<1> WITNESS row \in Row, entry \in Entry, event \in Event
<1> QED BY <1>2, <1>3, <1>4, <1>5, <1>6, <1>7, <1>8, <1>9, <1>10 DEF SoundCommit

\* add_comment from the lock to the commit.
LEMMA CommentCommits ==
    ASSUME Shape, NEW r \in Requests, NEW internal \in BOOLEAN, AddComment(r, internal)
    PROVE  \E row \in Row, entry \in Entry, event \in Event : SoundCommit(r, row, entry, event)
<1>0. request[r].phase = "locked"
  BY DEF AddComment
<1> PICK row \in Row : row = request[r].row
  BY <1>0, Holder
<1>1. /\ row.status \in Statuses /\ row.client \in Users /\ row.version \in Nat \ {0}
      /\ request[r].actor \in Users /\ request[r].started \in Nat
  BY <1>0, Holder
<1> PICK entry \in Entry :
        entry = HistoryEntry("ticket.comment_added", request[r].actor, NoStatus, NoStatus,
                             internal, request[r].started)
  BY <1>1 DEF HistoryEntry, Entry, Actions
<1> PICK event \in Event : event = OutboxEvent("ticket.comment_added", row, internal)
  BY <1>1 DEF OutboxEvent, Event, Actions
<1>2. ticket' = [ticket EXCEPT ![request[r].of] = row]
  BY <1>0, Holder DEF AddComment, Shape, TypeOK
<1>3. CommitStep(r, row, entry, event)
  BY <1>2 DEF AddComment, CommitStep, Advance, HistoryEntry, EntryInternal, Record, OutboxEvent
<1>4. /\ entry.action = "ticket.comment_added" /\ entry.created_at = request[r].started
      /\ entry.internal <=> internal
  BY DEF HistoryEntry
<1>5. event.type = "ticket.comment_added" /\ event.version = row.version
      /\ event.status = row.status
  BY DEF OutboxEvent
<1>6. ~Versioned(request[r].kind)
  BY DEF AddComment, Versioned
<1>7. comments' \in [Tickets -> Seq(Comment)] /\ CommentsFit(r, entry)
  <2> PICK comment \in Comment : comment = [author |-> request[r].actor, internal |-> internal]
    BY <1>1 DEF Comment
  <2>1. comments' = [comments EXCEPT ![request[r].of] = Append(@, comment)]
    BY DEF AddComment
  <2>2. comment.internal <=> entry.internal
    BY <1>4
  <2>3. ~IsChange(entry) /\ IsComment(entry)
    BY <1>4 DEF IsChange, IsComment
  <2>4. comments' \in [Tickets -> Seq(Comment)]
    BY <1>0, <2>1, Holder DEF Shape, TypeOK
  <2>5. CommentsFit(r, entry)
    BY <2>1, <2>2, <2>3, Zenon DEF CommentsFit
  <2> QED BY <2>4, <2>5
<1> WITNESS row \in Row, entry \in Entry, event \in Event
<1> QED BY <1>1, <1>3, <1>4, <1>5, <1>6, <1>7 DEF SoundCommit, IsChange

LEMMA CommitShape ==
    ASSUME Shape, NEW r \in Requests, NEW row \in Row, NEW entry \in Entry, NEW event \in Event,
           SoundCommit(r, row, entry, event)
    PROVE  Shape'
<1>1. request[r].row.version \in Nat
  BY Holder DEF SoundCommit, CommitStep
<1> QED BY <1>1, CommitKeepsShape DEF SoundCommit

\* Every step from a state of this shape is a creation, a commit or a session's own.
LEMMA StepKinds ==
    ASSUME Shape, Next
    PROVE  /\ Shape'
           /\ \/ \E t \in Tickets, user \in Users : CreateTicket(t, user)
              \/ \E r \in Requests, row \in Row, entry \in Entry, event \in Event :
                     SoundCommit(r, row, entry, event)
              \/ \E r \in Requests, q \in Request : SoundStep(r, q)
<1>1. ASSUME NEW t \in Tickets, NEW user \in Users, CreateTicket(t, user)
      PROVE  Shape'
  BY <1>1, CreateKeepsShape
<1>2. ASSUME NEW r \in Requests, Serve(r)
      PROVE  \/ \E row \in Row, entry \in Entry, event \in Event :
                    SoundCommit(r, row, entry, event)
             \/ Shape' /\ \E q \in Request : SoundStep(r, q)
  <2>1. CASE BeginAny(r)
    <3> PICK user \in Users, t \in Tickets, kind \in Kinds \ {"list"}, version \in Nat :
            Begin(r, kind, user, t, version)
      <4>1. \A t \in Tickets : Versions(t) \subseteq Nat
        BY DEF Versions, Shape, TypeOK, Row
      <4> QED BY <2>1, <4>1 DEF BeginAny
    <3> QED BY BeginSound
  <2>2. CASE \/ DenyAccess(r) \/ Abort(r) \/ RefuseVersion(r)
             \/ RefuseAssign(r) \/ RefuseTransition(r) \/ RefuseComment(r)
    <3>1. Refuse(r)
      BY <2>2 DEF DenyAccess, Abort, RefuseVersion, RefuseAssign, RefuseTransition, RefuseComment
    <3> QED BY <3>1, RefuseSound
  <2>3. CASE LockTicket(r)
    BY <2>3, LockSound
  <2>4. CASE \E assignee \in Users : AssignTicket(r, assignee)
    BY <2>4, AssignCommits
  <2>5. CASE \E target \in Statuses : TransitionTicket(r, target)
    BY <2>5, TransitionCommits
  <2>6. CASE \E internal \in BOOLEAN : AddComment(r, internal)
    BY <2>6, CommentCommits
  <2>7. CASE AnswerChange(r) \/ LoseAnswer(r)
    BY <2>7, AnswerSound
  <2>8. CASE ReadComments(r) \/ ReadHistory(r) \/ CountTotal(r)
    BY <2>8, ReadSound
  <2>9. CASE \E user \in Users, filter \in Statuses \cup {NoStatus}, page \in SUBSET Tickets :
                 ListPage(r, user, filter, page)
    BY <2>9, ListPageSound
  <2> QED BY <1>2, <2>1, <2>2, <2>3, <2>4, <2>5, <2>6, <2>7, <2>8, <2>9 DEF Serve
<1>3. ASSUME NEW r \in Requests, NEW row \in Row, NEW entry \in Entry, NEW event \in Event,
             SoundCommit(r, row, entry, event)
      PROVE  Shape'
  BY <1>3, CommitShape
<1> QED BY <1>1, <1>2, <1>3 DEF Next

LEMMA ShapeInit == Init => Shape
<1> SUFFICES ASSUME Init PROVE Shape
  OBVIOUS
<1>1. TypeOK
  BY BlankRow, BlankRequest DEF Init, TypeOK
<1>2. \A t \in Tickets : RowOK(t)
  BY DEF Init, RowOK, Exists, NoRow
<1>3. \A r \in Requests : request[r].phase = "unused"
  BY DEF Init, Unused
<1>4. (\A r \in Requests : SessionOK(r)) /\ OneLock
  BY <1>3 DEF SessionOK, Engaged, OneLock, Committed
<1> QED BY <1>1, <1>2, <1>4 DEF Shape

LEMMA ShapeStutter == Shape /\ UNCHANGED vars => Shape'
BY DEF vars, Shape, TypeOK, RowOK, SessionOK, Engaged, OneLock, Committed, Exists, HasAccess

LEMMA ShapeInvariant == Spec => []Shape
<1>1. Shape /\ [Next]_vars => Shape'
  BY StepKinds, ShapeStutter
<1> QED BY <1>1, ShapeInit, PTL DEF Spec

\* The variables keep their types.
THEOREM TypeCorrect == Spec => []TypeOK
<1>1. Shape => TypeOK
  BY DEF Shape
<1> QED BY <1>1, ShapeInvariant, PTL

-----------------------------------------------------------------------------
(* Rows *)

\* What a commit does to the tables.
LEMMA CommitEffect ==
    ASSUME Shape, NEW r \in Requests, NEW row \in Row, NEW entry \in Entry, NEW event \in Event,
           SoundCommit(r, row, entry, event)
    PROVE  \E t \in Tickets :
              /\ t = request[r].of /\ ticket[t] = request[r].row /\ Exists(t)
              /\ ticket[t].version \in Nat \ {0} /\ ticket[t] \in Row
              /\ ticket'[t] = row /\ \A u \in Tickets \ {t} : ticket'[u] = ticket[u]
              /\ history'[t] = Append(history[t], entry)
              /\ \A u \in Tickets \ {t} : history'[u] = history[u]
              /\ outbox'[t] = Append(outbox[t], event)
              /\ \A u \in Tickets \ {t} : outbox'[u] = outbox[u]
<1> PICK t \in Tickets : t = request[r].of
  BY Holder DEF SoundCommit, CommitStep
<1>1. request[r].phase = "locked" /\ CommitStep(r, row, entry, event)
  BY DEF SoundCommit, CommitStep
<1>2. ticket[t] = request[r].row /\ ticket[t].version \in Nat \ {0} /\ ticket[t] \in Row
  BY <1>1, Holder
<1>3. Exists(t)
  BY <1>2 DEF Exists
<1> WITNESS t \in Tickets
<1> QED BY <1>1, <1>2, <1>3 DEF CommitStep, Shape, TypeOK

LEMMA CreateEffect ==
    ASSUME Shape, NEW t \in Tickets, NEW user \in Users, CreateTicket(t, user)
    PROVE  /\ ~Exists(t) /\ ticket[t] = NoRow
           /\ ticket'[t] = NewTicket(user) /\ \A u \in Tickets \ {t} : ticket'[u] = ticket[u]
BY DEF CreateTicket, Shape, TypeOK, RowOK

\* resolved_at stays set exactly on resolved and closed tickets.
LEMMA ResolvedStep ==
    ASSUME Shape, ResolvedAtAgrees, [Next]_vars
    PROVE  ResolvedAtAgrees'
<1>1. ASSUME NEW t \in Tickets, NEW user \in Users, CreateTicket(t, user)
      PROVE  ResolvedAtAgrees'
  <2>1. NewTicket(user).status = "new" /\ ~NewTicket(user).resolved
    BY DEF NewTicket, NoRow
  <2> QED BY <1>1, <2>1, CreateEffect DEF ResolvedAtAgrees
<1>2. ASSUME NEW r \in Requests, NEW row \in Row, NEW entry \in Entry, NEW event \in Event,
             SoundCommit(r, row, entry, event)
      PROVE  ResolvedAtAgrees'
  <2> PICK t \in Tickets :
          /\ ticket[t] = request[r].row
          /\ ticket'[t] = row /\ \A u \in Tickets \ {t} : ticket'[u] = ticket[u]
    BY <1>2, CommitEffect
  <2>1. Agrees(ticket[t]) => Agrees(row)
    BY <1>2 DEF SoundCommit
  <2> QED BY <2>1 DEF ResolvedAtAgrees, Agrees
<1>3. ASSUME NEW r \in Requests, NEW q \in Request, SoundStep(r, q)
      PROVE  ResolvedAtAgrees'
  BY <1>3 DEF SoundStep, SessionStep, Quiet, ResolvedAtAgrees
<1>4. CASE UNCHANGED vars
  BY <1>4 DEF vars, ResolvedAtAgrees
<1> QED BY <1>1, <1>2, <1>3, <1>4, StepKinds

\* However a ticket came to its status, resolved_at says whether it is resolved.
THEOREM ResolvedAtCorrect == Spec => []ResolvedAtAgrees
<1>1. Init => ResolvedAtAgrees
  BY DEF Init, ResolvedAtAgrees, NoRow, NoStatus
<1>2. Shape /\ ResolvedAtAgrees /\ [Next]_vars => ResolvedAtAgrees'
  BY ResolvedStep
<1> QED BY <1>1, <1>2, ShapeInvariant, PTL DEF Spec

\* No commit touches the row of a closed ticket: not even one that waited for the
\* lock while another request closed it.
LEMMA ClosedStep ==
    ASSUME Shape, [Next]_vars, NEW t \in Tickets, ticket[t].status = "closed"
    PROVE  ticket'[t] = ticket[t]
<1>1. ASSUME NEW u \in Tickets, NEW user \in Users, CreateTicket(u, user)
      PROVE  ticket'[t] = ticket[t]
  BY <1>1, CreateEffect DEF NoRow, NoStatus
<1>2. ASSUME NEW r \in Requests, NEW row \in Row, NEW entry \in Entry, NEW event \in Event,
             SoundCommit(r, row, entry, event)
      PROVE  ticket'[t] = ticket[t]
  <2> PICK u \in Tickets :
          /\ ticket[u] = request[r].row
          /\ ticket'[u] = row /\ \A v \in Tickets \ {u} : ticket'[v] = ticket[v]
    BY <1>2, CommitEffect
  <2> QED BY <1>2 DEF SoundCommit
<1>3. ASSUME NEW r \in Requests, NEW q \in Request, SoundStep(r, q)
      PROVE  ticket'[t] = ticket[t]
  BY <1>3 DEF SoundStep, SessionStep, Quiet
<1>4. CASE UNCHANGED vars
  BY <1>4 DEF vars
<1> QED BY <1>1, <1>2, <1>3, <1>4, StepKinds

\* A closed ticket is never written again.
THEOREM ClosedStaysClosed == Spec => ClosedIsFinal
<1>1. Shape /\ [Next]_vars => [\A t \in Tickets : ticket[t].status = "closed"
                                                   => ticket'[t] = ticket[t]]_vars
  BY ClosedStep
<1> QED BY <1>1, ShapeInvariant, PTL DEF Spec, ClosedIsFinal

-----------------------------------------------------------------------------
(* Winners *)

\* A commit spends the version it was made on: whoever quotes it afterwards, or
\* waits with it for the lock, is refused.
LEMMA WinnerStep ==
    ASSUME Shape, OneWinnerPerVersion, [Next]_vars
    PROVE  OneWinnerPerVersion'
<1>1. ASSUME request' = request
      PROVE  OneWinnerPerVersion'
  BY <1>1 DEF OneWinnerPerVersion, Committed
<1>2. ASSUME NEW r \in Requests, NEW row \in Row, NEW entry \in Entry, NEW event \in Event,
             SoundCommit(r, row, entry, event)
      PROVE  OneWinnerPerVersion'
  <2>1. /\ request[r] \in Request /\ request[r].phase = "locked" /\ SessionOK(r)
        /\ request' = [request EXCEPT ![r] = [@ EXCEPT !.phase = "committed"]]
    BY <1>2 DEF Shape, TypeOK, SoundCommit, CommitStep
  <2>2. /\ request'[r].kind = request[r].kind /\ request'[r].of = request[r].of
        /\ request'[r].version = request[r].version
        /\ \A p \in Requests \ {r} : request'[p] = request[p]
    BY <2>1, Advanced DEF Shape, TypeOK
  <2>3. ASSUME NEW p \in Requests \ {r}, Committed(p), Versioned(request[p].kind),
               Versioned(request[r].kind), request[p].of = request[r].of
        PROVE  request[p].version # request[r].version
    <3>1. request[p].version < ticket[request[p].of].version
      BY <2>3 DEF Shape, SessionOK
    <3>2. request[r].version = ticket[request[r].of].version
      BY <2>1, <2>3 DEF SessionOK
    <3>3. ticket[request[r].of].version \in Nat
      BY <2>1 DEF Shape, TypeOK, SessionOK, Engaged, Row
    <3> QED BY <2>3, <3>1, <3>2, <3>3
  <2> QED BY <2>2, <2>3 DEF OneWinnerPerVersion, Committed
<1>3. ASSUME NEW r \in Requests, NEW q \in Request, SoundStep(r, q)
      PROVE  OneWinnerPerVersion'
  <2>1. request'[r] = q /\ \A p \in Requests \ {r} : request'[p] = request[p]
    BY <1>3 DEF SoundStep, SessionStep, Shape, TypeOK
  <2>2. q.phase \in {"committed", "done", "lost"} /\ Versioned(q.kind) =>
            /\ Committed(r) /\ q.kind = request[r].kind /\ q.of = request[r].of
            /\ q.version = request[r].version
    BY <1>3 DEF SoundStep, Begins, GoesOn, Committed, Versioned
  <2> QED BY <2>1, <2>2 DEF OneWinnerPerVersion, Committed
<1> QED BY <1>1, <1>2, <1>3, StepKinds DEF CreateTicket, vars

\* Of all requests that quote one version of a ticket, one at most is committed.
THEOREM VersionsAreSpentOnce == Spec => []OneWinnerPerVersion
<1>1. Init => OneWinnerPerVersion
  BY DEF Init, OneWinnerPerVersion, Committed, Unused
<1>2. Shape /\ OneWinnerPerVersion /\ [Next]_vars => OneWinnerPerVersion'
  BY WinnerStep
<1> QED BY <1>1, <1>2, ShapeInvariant, PTL DEF Spec
=============================================================================
