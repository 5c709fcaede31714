--------------------------- MODULE AccountsProofs ---------------------------
(***************************************************************************)
(* Proofs about Accounts, for any spellings, sessions and seeds.  The heart *)
(* is that of the processes between INSERT and commit no two have the same *)
(* key, and none has a key that is taken.                                  *)
(***************************************************************************)
EXTENDS Accounts, TLAPS

Waiting(p) == session[p].phase \in {"absent", "inserted"}

\* What a process holds: a request to insert, or a row that was read.
SessionOK(p) ==
    /\ Waiting(p) => session[p].email \in Spellings /\ session[p].password \in Passwords
    /\ Waiting(p) /\ p \in Sessions => session[p].role = "client"
    /\ Waiting(p) /\ p \in Seeders => ~Done(p) /\ session[p].email = Staff[step[p]].email
    /\ session[p].phase = "inserted" => account[Key(p)] = Null
    /\ session[p].phase = "read" =>
          /\ session[p].row \in Spellings
          /\ account[session[p].row] # Null
          /\ session[p].hash = account[session[p].row].password

\* Rows stand under their lower-case key.
KeysAreLower == \A s \in Spellings : account[s] # Null => Lower[s] = s

OneInserter ==
    \A p, q \in Processes :
        /\ session[p].phase = "inserted" /\ session[q].phase = "inserted"
        /\ Key(p) = Key(q)
        => p = q

Shape ==
    /\ TypeOK
    /\ \A p \in Processes : SessionOK(p)
    /\ KeysAreLower
    /\ OneInserter

-----------------------------------------------------------------------------
(* Kinds of steps *)

\* A row there was keeps all but its activity.
Kept(s) ==
    account[s] # Null =>
        /\ account'[s] # Null
        /\ account'[s].password = account[s].password
        /\ account'[s].role = account[s].role
        /\ account'[s].active => account[s].active

\* The row of an inserter's key is new, all others stay.
Created(p) ==
    /\ p \in Processes
    /\ session[p].phase = "inserted"
    /\ Stored(p)
    /\ session'[p].phase = "idle"

LEMMA KeyIsLower ==
    ASSUME Shape, NEW p \in Processes, Waiting(p)
    PROVE  Key(p) \in Spellings /\ Lower[Key(p)] = Key(p)
BY LowerAssumption DEF Shape, SessionOK, Key

LEMMA CreatedRow ==
    ASSUME Shape, NEW p \in Processes, session[p].phase = "inserted"
    PROVE  [password |-> session[p].password, role |-> session[p].role, active |-> TRUE]
               \in Account
BY DEF Shape, TypeOK, SessionOK, Waiting, Account, Session

\* A commit, a deactivation, or nothing happens to the table.
LEMMA TableSteps ==
    ASSUME Shape, [Next]_vars
    PROVE  \/ account' = account
           \/ \E p \in Processes : Created(p)
           \/ \E s \in Spellings : Deactivate(s) /\ UNCHANGED <<session, step, created, tokens>>
<1>0. ASSUME NEW p \in Processes, NEW r, End(p, r)
      PROVE  session'[p].phase = "idle"
  BY <1>0 DEF End, Idle, Shape, TypeOK
<1>1. ASSUME NEW p \in Processes, Transact(p)
      PROVE  account' = account \/ Created(p)
  BY <1>0, <1>1 DEF Transact, Insert, InsertCollides, Abort, CommitUnanswered, Created
<1>2. ASSUME NEW p \in Seeders, Seed(p)
      PROVE  account' = account \/ Created(p)
  BY <1>0, <1>2 DEF Seed, SeedLooks, SeedFinds, Found, CommitSeed, RestartSeed, Created, Processes
<1>3. ASSUME NEW p \in Sessions, Request(p)
      PROVE  account' = account \/ Created(p)
  BY <1>0, <1>3 DEF Request, Register, LoginReads, LoginFindsNobody, CommitRegistration,
              LoginVerifies, Created, Processes
<1>4. ASSUME NEW s \in Spellings, Deactivate(s)
      PROVE  Deactivate(s) /\ UNCHANGED <<session, step, created, tokens>>
  BY <1>4 DEF Deactivate
<1> QED BY <1>1, <1>2, <1>3, <1>4 DEF Next, vars, Processes

LEMMA RowsAreKept ==
    ASSUME Shape, [Next]_vars
    PROVE  /\ account' \in [Spellings -> Account \cup {Null}]
           /\ \A s \in Spellings : Kept(s)
           /\ KeysAreLower'
<1> USE DEF Kept
<1>0. account \in [Spellings -> Account \cup {Null}]
  BY DEF Shape, TypeOK
<1>1. CASE account' = account
  BY <1>0, <1>1 DEF Shape, KeysAreLower
<1>2. ASSUME NEW p \in Processes, Created(p)
      PROVE  /\ account' \in [Spellings -> Account \cup {Null}]
             /\ \A s \in Spellings : Kept(s)
             /\ KeysAreLower'
  <2>1. Key(p) \in Spellings /\ Lower[Key(p)] = Key(p) /\ account[Key(p)] = Null
    BY <1>2, KeyIsLower DEF Created, Waiting, Shape, SessionOK
  <2> DEFINE new == [password |-> session[p].password, role |-> session[p].role,
                     active |-> TRUE]
  <2>2. new \in Account
    BY <1>2, CreatedRow DEF Created
  <2>3. account' = [account EXCEPT ![Key(p)] = new]
    BY <1>2 DEF Created, Stored
  <2> QED BY <1>0, <2>1, <2>2, <2>3 DEF Shape, KeysAreLower
<1>3. ASSUME NEW t \in Spellings, Deactivate(t)
      PROVE  /\ account' \in [Spellings -> Account \cup {Null}]
             /\ \A s \in Spellings : Kept(s)
             /\ KeysAreLower'
  <2>1. account' = [account EXCEPT ![t] = [account[t] EXCEPT !.active = FALSE]]
    BY <1>3 DEF Deactivate
  <2>2. account[t] \in Account /\ account[t].active
    BY <1>0, <1>3 DEF Deactivate
  <2>3. [account[t] EXCEPT !.active = FALSE] \in Account
    BY <2>2 DEF Account
  <2> QED BY <1>0, <2>1, <2>2, <2>3, NullAssumption DEF Shape, KeysAreLower, Account
<1> QED BY <1>1, <1>2, <1>3, TableSteps

-----------------------------------------------------------------------------
(* Sessions *)

Others(p) == \A q \in Processes \ {p} : session'[q] = session[q]

\* Looked, and found nobody.
Begins(p) ==
    /\ session[p].phase = "idle" /\ session'[p].phase = "absent"
    /\ session'[p].email \in Spellings /\ session'[p].password \in Passwords
    /\ p \in Sessions => session'[p].role = "client"
    /\ p \in Seeders => ~Done(p) /\ session'[p].email = Staff[step[p]].email

Inserts(p) == Insert(p) /\ session'[p] = [session[p] EXCEPT !.phase = "inserted"]

Reads(p) ==
    /\ session'[p].phase = "read" /\ account' = account
    /\ session'[p].row \in Spellings /\ account[session'[p].row] # Null
    /\ session'[p].hash = account[session'[p].row].password

Ends(p) == session'[p].phase = "idle"

LEMMA IdleIsSession ==
    ASSUME NEW r \in {"none", "created", "taken", "token", "refused", "failed"}
    PROVE  Idle(r) \in Session /\ Idle(r).phase = "idle" /\ Idle(r).reply = r
BY DEF Idle, Session, Roles

\* The seed's steps and types, taken once for both kinds of processes.
LEMMA StaffRows ==
    ASSUME Shape, NEW p \in Seeders, ~Done(p)
    PROVE  /\ step[p] \in 1..Len(Staff) /\ step[p] + 1 \in 1..(Len(Staff) + 1)
           /\ Staff[step[p]].email \in Spellings
           /\ Staff[step[p]].password \in Passwords
           /\ Staff[step[p]].role \in Roles
<1>1. step[p] \in 1..(Len(Staff) + 1) /\ Len(Staff) \in Nat
  BY StaffAssumption DEF Shape, TypeOK
<1>2. step[p] \in 1..Len(Staff)
  BY <1>1 DEF Done
<1>3. Staff[step[p]] \in StaffRecord
  BY <1>2, StaffAssumption
<1> QED BY <1>1, <1>2, <1>3 DEF StaffRecord

LEMMA TransactStep ==
    ASSUME Shape, NEW p \in Processes, Transact(p)
    PROVE  /\ session' \in [Processes -> Session] /\ Others(p)
           /\ Ends(p) \/ Inserts(p)
           /\ UNCHANGED <<step, created, tokens>>
<1>1. session \in [Processes -> Session]
  BY DEF Shape, TypeOK
<1>2. CASE Insert(p)
  <2>1. session' = [session EXCEPT ![p] = [session[p] EXCEPT !.phase = "inserted"]]
    BY <1>2 DEF Insert
  <2>2. [session[p] EXCEPT !.phase = "inserted"] \in Session
    BY <1>1 DEF Session
  <2> QED BY <1>1, <1>2, <2>1, <2>2 DEF Insert, Inserts, Others
<1>3. ASSUME NEW r \in {"none", "created", "taken", "token", "refused", "failed"}, End(p, r)
      PROVE  session' \in [Processes -> Session] /\ Others(p) /\ Ends(p)
  BY <1>1, <1>3, IdleIsSession DEF End, Others, Ends
<1> QED BY <1>2, <1>3 DEF Transact, InsertCollides, Abort, CommitUnanswered

LEMMA SeedStep ==
    ASSUME Shape, NEW p \in Seeders, Seed(p)
    PROVE  /\ session' \in [Processes -> Session] /\ Others(p)
           /\ Ends(p) \/ (Begins(p) /\ step' = step)
           /\ step' \in [Seeders -> 1..(Len(Staff) + 1)]
           /\ UNCHANGED <<created, tokens>>
<1>1. session \in [Processes -> Session] /\ step \in [Seeders -> 1..(Len(Staff) + 1)]
      /\ p \in Processes /\ p \notin Sessions
  BY ProcessAssumption DEF Shape, TypeOK, Processes
<1>0. End(p, "none") =>
          session' \in [Processes -> Session] /\ Others(p) /\ Ends(p)
  BY <1>1, IdleIsSession DEF End, Others, Ends
<1>6. ~Done(p) => step[p] + 1 \in 1..(Len(Staff) + 1)
  BY StaffRows
<1>2. CASE SeedLooks(p)
  <2> DEFINE staff == Staff[step[p]]
             new == [Idle("none") EXCEPT !.phase = "absent", !.email = staff.email,
                         !.password = staff.password, !.role = staff.role]
  <2>1. session' = [session EXCEPT ![p] = new] /\ ~Done(p) /\ session[p].phase = "idle"
        /\ UNCHANGED <<step, created, tokens>>
    BY <1>2 DEF SeedLooks, Begin, Seeding
  <2>2. new \in Session /\ new.phase = "absent" /\ new.email = staff.email
        /\ new.password = staff.password
    BY <2>1, StaffRows DEF Idle, Session
  <2> HIDE DEF new
  <2> QED BY <1>1, <2>1, <2>2, StaffRows DEF Begins, Others
<1>3. CASE SeedFinds(p)
  <2>1. ~Done(p) /\ session[p].phase = "idle" /\ session' = session
        /\ step' = [step EXCEPT ![p] = step[p] + 1] /\ UNCHANGED <<created, tokens>>
    BY <1>3 DEF SeedFinds, Seeding, AfterFound
  <2>2. step' \in [Seeders -> 1..(Len(Staff) + 1)]
    BY <1>1, <1>6, <2>1
  <2> QED BY <1>1, <2>1, <2>2 DEF Others, Ends
<1>4. CASE CommitSeed(p)
  <2>1. ~Done(p)
    BY <1>1, <1>4 DEF CommitSeed, Shape, SessionOK, Waiting
  <2>2. End(p, "none") /\ step' = [step EXCEPT ![p] = step[p] + 1]
        /\ UNCHANGED <<created, tokens>>
    BY <1>4 DEF CommitSeed
  <2>3. step' \in [Seeders -> 1..(Len(Staff) + 1)]
    BY <1>1, <1>6, <2>1, <2>2
  <2> QED BY <1>0, <2>2, <2>3
<1>5. CASE RestartSeed(p)
  <2>1. 1 \in 1..(Len(Staff) + 1)
    BY StaffAssumption
  <2>2. End(p, "none") /\ step' = [step EXCEPT ![p] = 1] /\ UNCHANGED <<created, tokens>>
    BY <1>5 DEF RestartSeed
  <2> QED BY <1>0, <1>1, <2>1, <2>2
<1> QED BY <1>2, <1>3, <1>4, <1>5 DEF Seed

LEMMA RequestStep ==
    ASSUME Shape, NEW p \in Sessions, Request(p)
    PROVE  /\ session' \in [Processes -> Session] /\ Others(p)
           /\ Ends(p) \/ Begins(p) \/ Reads(p)
           /\ step' = step
<1>1. session \in [Processes -> Session] /\ p \in Processes /\ p \notin Seeders
  BY ProcessAssumption DEF Shape, TypeOK, Processes
<1>0. ASSUME NEW r \in {"none", "created", "taken", "token", "refused", "failed"}, End(p, r)
      PROVE  session' \in [Processes -> Session] /\ Others(p) /\ Ends(p)
  BY <1>0, <1>1, IdleIsSession DEF End, Others, Ends
<1>2. ASSUME NEW e \in Spellings, NEW w \in Passwords, Register(p, e, w)
      PROVE  session' \in [Processes -> Session] /\ Others(p) /\ (Ends(p) \/ Begins(p))
  <2>1. CASE End(p, "taken")
    BY <1>0, <2>1
  <2>2. CASE Begin(p, e, w, "client")
    <3> DEFINE new == [Idle("none") EXCEPT !.phase = "absent", !.email = e,
                           !.password = w, !.role = "client"]
    <3>1. session' = [session EXCEPT ![p] = new]
      BY <2>2 DEF Begin
    <3>2. new \in Session /\ new.phase = "absent" /\ new.email = e
          /\ new.password = w /\ new.role = "client"
      BY DEF Idle, Session, Roles
    <3> HIDE DEF new
    <3> QED BY <1>1, <1>2, <3>1, <3>2 DEF Register, Begins, Others
  <2> QED BY <1>2, <2>1, <2>2 DEF Register
<1>3. ASSUME NEW e \in Spellings, NEW w \in Passwords, LoginReads(p, e, w)
      PROVE  session' \in [Processes -> Session] /\ Others(p) /\ Reads(p)
  <2>1. PICK s \in Named(e) :
            session' = [session EXCEPT ![p] =
                [Idle("none") EXCEPT !.phase = "read", !.email = e, !.password = w,
                                     !.row = s, !.hash = account[s].password]]
    BY <1>3 DEF LoginReads
  <2>2. s \in Spellings /\ account[s] # Null /\ account[s] \in Account
        /\ account[s].password \in Passwords
    BY DEF Named, Shape, TypeOK, Account
  <2> DEFINE new == [Idle("none") EXCEPT !.phase = "read", !.email = e, !.password = w,
                         !.row = s, !.hash = account[s].password]
  <2>3. new \in Session /\ new.phase = "read" /\ new.row = s
        /\ new.hash = account[s].password
    BY <2>2 DEF Idle, Session, Roles
  <2>4. session' = [session EXCEPT ![p] = new] /\ account' = account
    BY <1>3, <2>1 DEF LoginReads
  <2> HIDE DEF new
  <2> QED BY <1>1, <2>2, <2>3, <2>4 DEF Reads, Others
<1>4. step' = step
  BY DEF Request, Register, LoginReads, LoginFindsNobody, CommitRegistration, LoginVerifies
<1> QED BY <1>0, <1>2, <1>3, <1>4
       DEF Request, LoginFindsNobody, CommitRegistration, LoginVerifies

-----------------------------------------------------------------------------
(* The shape is inductive. *)

\* What becomes of a process in a step, its own or another's.
Moves(p) ==
    \/ session'[p] = session[p] /\ (p \in Seeders => step'[p] = step[p])
    \/ Ends(p)
    \/ Others(p) /\ step' = step /\ (Inserts(p) \/ Begins(p) \/ Reads(p))

LEMMA SessionSteps ==
    ASSUME Shape, [Next]_vars
    PROVE  /\ session' \in [Processes -> Session]
           /\ step' \in [Seeders -> 1..(Len(Staff) + 1)]
           /\ \A p \in Processes : Moves(p)
<1>0. session \in [Processes -> Session] /\ step \in [Seeders -> 1..(Len(Staff) + 1)]
  BY DEF Shape, TypeOK
<1>1. CASE UNCHANGED <<session, step>>
  BY <1>0, <1>1 DEF Moves
<1>2. ASSUME NEW q \in Processes, Transact(q)
      PROVE  /\ session' \in [Processes -> Session] /\ step' = step
             /\ \A p \in Processes : Moves(p)
  <2>1. /\ session' \in [Processes -> Session] /\ Others(q)
        /\ Ends(q) \/ Inserts(q)
        /\ UNCHANGED <<step, created, tokens>>
    BY <1>2, TransactStep
  <2> QED BY <2>1 DEF Moves, Others
<1>3. ASSUME NEW q \in Seeders, Seed(q)
      PROVE  /\ session' \in [Processes -> Session]
             /\ step' \in [Seeders -> 1..(Len(Staff) + 1)]
             /\ \A p \in Processes : Moves(p)
  <2>1. /\ session' \in [Processes -> Session] /\ Others(q)
        /\ Ends(q) \/ (Begins(q) /\ step' = step)
        /\ step' \in [Seeders -> 1..(Len(Staff) + 1)]
    BY <1>3, SeedStep
  <2>2. \A p \in Seeders \ {q} : step'[p] = step[p]
    BY <1>0, <1>3 DEF Seed, SeedLooks, SeedFinds, CommitSeed, RestartSeed
  <2> QED BY <2>1, <2>2 DEF Moves, Others
<1>4. ASSUME NEW q \in Sessions, Request(q)
      PROVE  /\ session' \in [Processes -> Session] /\ step' = step
             /\ \A p \in Processes : Moves(p)
  <2>1. /\ session' \in [Processes -> Session] /\ Others(q)
        /\ Ends(q) \/ Begins(q) \/ Reads(q)
        /\ step' = step
    BY <1>4, RequestStep
  <2> QED BY <2>1 DEF Moves, Others
<1>5. ASSUME NEW s \in Spellings, Deactivate(s)
      PROVE  UNCHANGED <<session, step>>
  BY <1>5 DEF Deactivate
<1> QED BY <1>0, <1>1, <1>2, <1>3, <1>4, <1>5 DEF Next, vars

\* The row of an inserter's key is written by its own commit only.
LEMMA KeyStaysFree ==
    ASSUME Shape, [Next]_vars, NEW p \in Processes,
           session[p].phase = "inserted", session'[p] = session[p]
    PROVE  account'[Key(p)] = Null
<1>1. account[Key(p)] = Null /\ Key(p) \in Spellings
  BY KeyIsLower DEF Shape, SessionOK, Waiting
<1>2. ASSUME NEW q \in Processes, Created(q), q # p
      PROVE  account'[Key(p)] = Null
  <2>1. Key(q) # Key(p)
    BY <1>2 DEF Created, Shape, OneInserter
  <2> QED BY <1>1, <1>2, <2>1 DEF Created, Stored, Shape, TypeOK
<1>3. ~Created(p)
  BY DEF Created
<1>4. ASSUME NEW s \in Spellings, Deactivate(s)
      PROVE  account'[Key(p)] = Null
  BY <1>1, <1>4 DEF Deactivate, Shape, TypeOK
<1> QED BY <1>1, <1>2, <1>3, <1>4, TableSteps

LEMMA SessionOKNext ==
    ASSUME Shape, [Next]_vars, NEW p \in Processes
    PROVE  SessionOK(p)'
<1>1. CASE Ends(p)
  BY <1>1 DEF Ends, SessionOK, Waiting
<1>2. CASE session'[p] = session[p] /\ (p \in Seeders => step'[p] = step[p])
  <2>1. SessionOK(p)
    BY DEF Shape
  <2>2. session[p].phase = "inserted" => account'[Key(p)] = Null
    BY <1>2, KeyStaysFree
  <2>3. session[p].phase = "read" =>
            /\ account'[session[p].row] # Null
            /\ session[p].hash = account'[session[p].row].password
    BY <2>1, RowsAreKept DEF Kept, SessionOK
  <2> QED BY <1>2, <2>1, <2>2, <2>3 DEF SessionOK, Waiting, Done, Key
<1>3. CASE Inserts(p) /\ step' = step
  <2>1. SessionOK(p) /\ session \in [Processes -> Session]
    BY DEF Shape, TypeOK
  <2>2. session[p].phase = "absent" /\ account[Key(p)] = Null /\ account' = account
    BY <1>3 DEF Inserts, Insert, Collides
  <2>3. session'[p].phase = "inserted" /\ session'[p].email = session[p].email
        /\ session'[p].password = session[p].password /\ session'[p].role = session[p].role
    BY <1>3, <2>1 DEF Inserts, Session
  <2> QED BY <1>3, <2>1, <2>2, <2>3 DEF SessionOK, Waiting, Done, Key
<1>4. CASE Begins(p) /\ step' = step
  BY <1>4 DEF Begins, SessionOK, Waiting, Done
<1>5. CASE Reads(p)
  BY <1>5 DEF Reads, SessionOK, Waiting
<1> QED BY <1>1, <1>2, <1>3, <1>4, <1>5, SessionSteps DEF Moves

LEMMA OneInserterNext ==
    ASSUME Shape, [Next]_vars
    PROVE  OneInserter'
<1> SUFFICES ASSUME NEW p \in Processes, NEW q \in Processes, p # q,
                    session'[p].phase = "inserted", session'[q].phase = "inserted",
                    Key(p)' = Key(q)'
             PROVE  FALSE
  BY DEF OneInserter
<1>1. ASSUME NEW r \in Processes, session'[r].phase = "inserted"
      PROVE  session'[r] = session[r] \/ (Others(r) /\ Inserts(r))
  BY <1>1, SessionSteps DEF Moves, Ends, Begins, Reads
<1>2. ASSUME NEW r \in Processes, NEW o \in Processes, r # o, Inserts(r),
             session'[o] = session[o], session'[o].phase = "inserted", Key(r)' = Key(o)'
      PROVE  FALSE
  <2>1. Key(r)' = Key(r)
    BY <1>2 DEF Inserts, Key, Shape, TypeOK, Session
  <2>2. Key(o)' = Key(o)
    BY <1>2 DEF Key
  <2> QED BY <1>2, <2>1, <2>2 DEF Inserts, Insert, KeyFree
<1>3. CASE session'[p] = session[p] /\ session'[q] = session[q]
  BY <1>3 DEF Shape, OneInserter, Key
<1>4. CASE Others(p) /\ Inserts(p)
  BY <1>2, <1>4 DEF Others
<1>5. CASE Others(q) /\ Inserts(q)
  BY <1>2, <1>5 DEF Others
<1> QED BY <1>1, <1>3, <1>4, <1>5

LEMMA HistoryTypes ==
    ASSUME Shape, [Next]_vars
    PROVE  /\ created' \in [Spellings -> Seq(Passwords)]
           /\ tokens' \in SUBSET [owner : Spellings, password : Passwords]
<1>0. /\ created \in [Spellings -> Seq(Passwords)]
      /\ tokens \in SUBSET [owner : Spellings, password : Passwords]
  BY DEF Shape, TypeOK
<1>1. ASSUME NEW p \in Sessions, CommitRegistration(p)
      PROVE  created' \in [Spellings -> Seq(Passwords)] /\ tokens' = tokens
  BY <1>0, <1>1, KeyIsLower DEF CommitRegistration, Shape, SessionOK, Waiting, Processes, Key
<1>2. ASSUME NEW p \in Sessions, LoginVerifies(p)
      PROVE  /\ created' = created
             /\ tokens' \in SUBSET [owner : Spellings, password : Passwords]
  <2>1. session[p].row \in Spellings /\ session[p].hash \in Passwords
    BY <1>2 DEF LoginVerifies, Shape, TypeOK, SessionOK, Processes, Account
  <2> QED BY <1>0, <1>2, <2>1 DEF LoginVerifies, Verified
<1> QED BY <1>0, <1>1, <1>2
       DEF Next, vars, Transact, Insert, InsertCollides, Abort, CommitUnanswered, Seed,
           SeedLooks, SeedFinds, CommitSeed, RestartSeed, Request, Register, LoginReads,
           LoginFindsNobody, Deactivate

LEMMA ShapeInvariant == Spec => []Shape
<1>1. Init => Shape
  <2> SUFFICES ASSUME Init PROVE Shape
    OBVIOUS
  <2>1. TypeOK
    BY StaffAssumption, IdleIsSession DEF Init, TypeOK
  <2>2. \A p \in Processes : session[p].phase = "idle"
    BY IdleIsSession DEF Init
  <2>3. \A s \in Spellings : account[s] = Null
    BY DEF Init
  <2> QED BY <2>1, <2>2, <2>3 DEF Shape, SessionOK, Waiting, KeysAreLower, OneInserter
<1>2. Shape /\ [Next]_vars => Shape'
  <2> SUFFICES ASSUME Shape, [Next]_vars PROVE Shape'
    OBVIOUS
  <2>1. TypeOK'
    BY RowsAreKept, SessionSteps, HistoryTypes DEF TypeOK
  <2> QED BY <2>1, SessionOKNext, RowsAreKept, OneInserterNext DEF Shape
<1> QED BY <1>1, <1>2, PTL DEF Spec

-----------------------------------------------------------------------------
(* What follows *)

\* Every reachable state has the declared types.
THEOREM TypeCorrect == Spec => []TypeOK
<1>1. Shape => TypeOK
  BY DEF Shape
<1> QED BY <1>1, ShapeInvariant, PTL

\* However many look before one of them inserts, and however they spell it.
THEOREM EmailsAreUnique == Spec => []OneAccountPerEmail
<1>1. Shape => OneAccountPerEmail
  BY DEF Shape, KeysAreLower, OneAccountPerEmail
<1> QED BY <1>1, ShapeInvariant, PTL

\* Nothing but an operator's own statement touches an account that is there.
THEOREM AccountsStayAsTheyAre == Spec => AccountsAreKept
<1>1. Shape /\ [Next]_vars =>
          [\A s \in Spellings : account[s] # Null =>
              /\ account'[s] # Null
              /\ account'[s].password = account[s].password
              /\ account'[s].role = account[s].role
              /\ account'[s].active => account[s].active]_account
  BY RowsAreKept DEF Kept
<1> QED BY <1>1, ShapeInvariant, PTL DEF Spec, AccountsAreKept

\* No registration is confirmed twice, and none that lost is confirmed at all.
LEMMA AnswersNext == Shape /\ AnswersHold /\ [Next]_vars => AnswersHold'
<1> SUFFICES ASSUME Shape, AnswersHold, [Next]_vars PROVE AnswersHold'
  OBVIOUS
<1>0. created \in [Spellings -> Seq(Passwords)] /\ (\A s \in Spellings : Kept(s))
  BY RowsAreKept DEF Shape, TypeOK
<1>1. ASSUME NEW s \in Spellings, created'[s] = created[s], created[s] # <<>>
      PROVE  /\ Len(created'[s]) = 1
             /\ account'[s] # Null /\ account'[s].role = "client"
             /\ account'[s].password = created'[s][1]
  BY <1>0, <1>1 DEF AnswersHold, Kept
<1>2. ASSUME NEW p \in Sessions, CommitRegistration(p), NEW s \in Spellings,
             created'[s] # <<>>
      PROVE  /\ Len(created'[s]) = 1
             /\ account'[s] # Null /\ account'[s].role = "client"
             /\ account'[s].password = created'[s][1]
  <2> DEFINE new == [password |-> session[p].password, role |-> session[p].role,
                     active |-> TRUE]
  <2>1. p \in Processes /\ session[p].phase = "inserted" /\ Key(p) \in Spellings
        /\ account[Key(p)] = Null /\ session[p].role = "client"
    BY <1>2, KeyIsLower DEF CommitRegistration, Processes, Waiting, Shape, SessionOK
  <2>2. created[Key(p)] = <<>>
    BY <2>1 DEF AnswersHold
  <2>3. created'[s] = IF s = Key(p) THEN Append(created[s], session[p].password)
                                    ELSE created[s]
    BY <1>0, <1>2 DEF CommitRegistration, Key
  <2>4. CASE s = Key(p)
    <3>0. session[p].password \in Passwords
      BY <2>1 DEF Shape, SessionOK, Waiting
    <3>1. Len(created'[s]) = 1 /\ created'[s][1] = session[p].password
      BY <2>2, <2>3, <2>4, <3>0
    <3>2. account'[s] = new /\ new \in Account
      BY <1>2, <2>1, <2>4, CreatedRow DEF CommitRegistration, Stored, Shape, TypeOK
    <3>3. account'[s] # Null
      BY <3>2, NullAssumption
    <3>4. account'[s].role = session[p].role /\ account'[s].password = session[p].password
      BY <3>2
    <3> HIDE DEF new
    <3> QED BY <2>1, <3>1, <3>3, <3>4
  <2>5. CASE s # Key(p)
    BY <1>1, <1>2, <2>3, <2>5
  <2> QED BY <2>4, <2>5
<1>3. ASSUME NEW p \in Sessions, LoginVerifies(p), NEW token \in tokens'
      PROVE  account'[token.owner] # Null /\ account'[token.owner].password = token.password
  BY <1>3 DEF LoginVerifies, Verified, AnswersHold, Shape, SessionOK, Processes
<1>4. ASSUME NEW token \in tokens
      PROVE  account'[token.owner] # Null /\ account'[token.owner].password = token.password
  BY <1>0, <1>4 DEF AnswersHold, Kept, Shape, TypeOK
<1>5. \/ UNCHANGED <<created, tokens>>
      \/ \E p \in Sessions : CommitRegistration(p) /\ UNCHANGED tokens
      \/ \E p \in Sessions : LoginVerifies(p) /\ UNCHANGED created
  BY DEF Next, vars, Transact, Insert, InsertCollides, Abort, CommitUnanswered, Seed,
         SeedLooks, SeedFinds, CommitSeed, RestartSeed, Request, Register, LoginReads,
         LoginFindsNobody, LoginVerifies, CommitRegistration, Deactivate
<1> QED BY <1>1, <1>2, <1>3, <1>4, <1>5 DEF AnswersHold

\* An answer 201 or a token is never a lie about the account.
THEOREM AnswersAreTrue == Spec => []AnswersHold
<1>1. Init => AnswersHold
  BY DEF Init, AnswersHold
<1> QED BY <1>1, AnswersNext, ShapeInvariant, PTL DEF Spec

\* The part of the list that a seed has passed is there, whoever created it.
Passed == \A p \in Seeders : \A i \in 1..Len(Staff) : i < step[p] => Named(Staff[i].email) # {}

LEMMA PassedNext == Shape /\ Passed /\ [Next]_vars => Passed'
<1> SUFFICES ASSUME Shape, Passed, [Next]_vars,
                    NEW p \in Seeders, NEW i \in 1..Len(Staff), i < step'[p]
             PROVE  Named(Staff[i].email)' # {}
  BY DEF Passed
<1>0. p \in Processes /\ step \in [Seeders -> 1..(Len(Staff) + 1)] /\ Len(Staff) \in Nat
  BY StaffAssumption DEF Processes, Shape, TypeOK
<1>1. ASSUME Named(Staff[i].email) # {}
      PROVE  Named(Staff[i].email)' # {}
  BY <1>1, RowsAreKept DEF Named, Kept
<1>2. ASSUME CommitSeed(p), i = step[p]
      PROVE  Named(Staff[i].email)' # {}
  <2>1. session[p].email = Staff[i].email
        /\ Key(p) \in Spellings /\ Lower[Key(p)] = Key(p)
    BY <1>0, <1>2, KeyIsLower DEF CommitSeed, Waiting, Shape, SessionOK
  <2>2. account'[Key(p)] # Null
    BY <1>0, <1>2, <2>1, CreatedRow, NullAssumption DEF CommitSeed, Stored, Shape, TypeOK
  <2> QED BY <2>1, <2>2 DEF Named, Key
<1>3. ASSUME SeedFinds(p)
      PROVE  Named(Staff[step[p]].email) # {}
  BY <1>3 DEF SeedFinds
<1>4. \/ step'[p] = step[p]
      \/ step'[p] = 1
      \/ step'[p] = step[p] + 1 /\ (CommitSeed(p) \/ SeedFinds(p))
  BY <1>0 DEF Next, vars, Transact, Insert, InsertCollides, Abort, CommitUnanswered, Seed,
         SeedLooks, SeedFinds, AfterFound, CommitSeed, RestartSeed, Request, Register,
         LoginReads, LoginFindsNobody, LoginVerifies, CommitRegistration, Deactivate
<1>5. CASE i < step[p]
  BY <1>1, <1>5 DEF Passed
<1>6. CASE ~(i < step[p])
  <2>1. i = step[p] /\ (CommitSeed(p) \/ SeedFinds(p))
    BY <1>0, <1>4, <1>6
  <2> QED BY <1>1, <1>2, <1>3, <2>1
<1> QED BY <1>5, <1>6

\* A seed that ran through leaves no staff email without an account.
THEOREM SeedsPrepare == Spec => []SeedPrepares
<1>1. Init => Passed
  BY StaffAssumption DEF Init, Passed
<1>2. Passed => SeedPrepares
  BY StaffAssumption DEF Passed, SeedPrepares, Done
<1> QED BY <1>1, <1>2, PassedNext, ShapeInvariant, PTL DEF Spec
=============================================================================
