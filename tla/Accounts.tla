------------------------------ MODULE Accounts -------------------------------
(***************************************************************************)
(* Accounts: register and login of the API, the seed that runs before the  *)
(* API starts (and again whenever the stand is brought up), deactivation.  *)
(* Each looks first and inserts later; between the two, and until the      *)
(* commit, others do the same.  The rows are keyed by the stored email,    *)
(* which is what users_email_key makes unique; they are looked up by       *)
(* lower(email).                                                           *)
(*                                                                         *)
(* A definition named Wrong... is no part of the model: it is a plausible  *)
(* bug, put in the place of the definition below it to show that the       *)
(* properties notice.                                                      *)
(***************************************************************************)
EXTENDS Integers, Sequences

CONSTANTS
    Spellings,  \* emails as they are written
    Lower,      \* Lower[s]: s in lower case, a spelling itself
    Passwords,
    Sessions,   \* requests at work at one time
    Seeders,    \* processes of helpflow.seed
    Staff,      \* the accounts the seed is to prepare, in order
    Null        \* no row

Roles == {"client", "operator", "admin"}
StaffRecord == [email : Spellings, password : Passwords, role : Roles \ {"client"}]

ASSUME LowerAssumption ==
    /\ Lower \in [Spellings -> Spellings]
    /\ \A s \in Spellings : Lower[Lower[s]] = Lower[s]
ASSUME StaffAssumption == Staff \in Seq(StaffRecord)
ASSUME ProcessAssumption == Sessions \cap Seeders = {}

-----------------------------------------------------------------------------
VARIABLES
    account,    \* account[s]: the row with the email s, or Null
    session,    \* what each request, and each seed, is about
    step,       \* step[p]: the staff account the seed p is at
    (* History, read by the properties only: *)
    created,    \* created[s]: passwords of the registrations of s answered 201
    tokens      \* tokens issued: for which account, for which password

vars == <<account, session, step, created, tokens>>

Processes == Sessions \cup Seeders
Account == [password : Passwords, role : Roles, active : BOOLEAN]

ASSUME NullAssumption == Null \notin Account

\* row and hash: what login has read.
Session ==
    [phase : {"idle", "absent", "inserted", "read"}, email : Spellings \cup {Null},
     password : Passwords \cup {Null}, role : Roles, row : Spellings \cup {Null},
     hash : Passwords \cup {Null},
     reply : {"none", "created", "taken", "token", "refused", "failed"}]

Idle(reply) == [phase |-> "idle", email |-> Null, password |-> Null,
                role |-> "client", row |-> Null, hash |-> Null, reply |-> reply]

Done(p) == step[p] = Len(Staff) + 1

TypeOK ==
    /\ account \in [Spellings -> Account \cup {Null}]
    /\ session \in [Processes -> Session]
    /\ step \in [Seeders -> 1..(Len(Staff) + 1)]
    /\ created \in [Spellings -> Seq(Passwords)]
    /\ tokens \in SUBSET [owner : Spellings, password : Passwords]

Init ==
    /\ account = [s \in Spellings |-> Null]
    /\ session = [p \in Processes |-> Idle("none")]
    /\ step = [p \in Seeders |-> 1]
    /\ created = [s \in Spellings |-> <<>>]
    /\ tokens = {}

Named(email) == {s \in Spellings : account[s] # Null /\ Lower[s] = Lower[email]}

WrongKey(p) == session[p].email    \* stored as it was written
Key(p) == Lower[session[p].email]

End(p, reply) == session' = [session EXCEPT ![p] = Idle(reply)]

-----------------------------------------------------------------------------
(* register and _upsert_staff: the same statements, other answers.         *)

Begin(p, email, password, role) ==
    session' = [session EXCEPT ![p] =
        [Idle("none") EXCEPT !.phase = "absent", !.email = email,
                             !.password = password, !.role = role]]

Register(p, email, password) ==
    /\ session[p].phase = "idle"
    /\ IF Named(email) = {} THEN Begin(p, email, password, "client") ELSE End(p, "taken")
    /\ UNCHANGED <<account, step, created, tokens>>

\* A process that failed has ended: see RestartSeed.
Seeding(p) == session[p].phase = "idle" /\ session[p].reply # "failed" /\ ~Done(p)

SeedLooks(p) ==
    /\ Seeding(p)
    /\ LET staff == Staff[step[p]]
       IN  /\ Named(staff.email) = {}
           /\ Begin(p, staff.email, staff.password, staff.role)
    /\ UNCHANGED <<account, step, created, tokens>>

WrongFound(p) ==    \* an upsert, as the name says
    account' = [s \in Spellings |->
        IF s \in Named(Staff[step[p]].email)
        THEN [account[s] EXCEPT !.password = Staff[step[p]].password, !.active = TRUE]
        ELSE account[s]]
Found(p) == UNCHANGED account

WrongAfterFound(p) == Len(Staff) + 1    \* returns from the whole seed
AfterFound(p) == step[p] + 1

SeedFinds(p) ==
    /\ Seeding(p)
    /\ Named(Staff[step[p]].email) # {}
    /\ Found(p)
    /\ step' = [step EXCEPT ![p] = AfterFound(p)]
    /\ UNCHANGED <<session, created, tokens>>

\* The INSERT waits for a transaction that has inserted the same key.
KeyFree(p) ==
    \A q \in Processes \ {p} : session[q].phase = "inserted" => Key(q) # Key(p)

WrongCollides(p) == FALSE    \* ON CONFLICT DO UPDATE
Collides(p) == account[Key(p)] # Null

Insert(p) ==
    /\ session[p].phase = "absent"
    /\ KeyFree(p)
    /\ ~Collides(p)
    /\ session' = [session EXCEPT ![p].phase = "inserted"]
    /\ UNCHANGED <<account, step, created, tokens>>

\* IntegrityError: 409, or the end of the seed.
InsertCollides(p) ==
    /\ session[p].phase = "absent"
    /\ KeyFree(p)
    /\ Collides(p)
    /\ End(p, IF p \in Seeders THEN "failed" ELSE "taken")
    /\ UNCHANGED <<account, step, created, tokens>>

Stored(p) ==
    account' = [account EXCEPT ![Key(p)] =
        [password |-> session[p].password, role |-> session[p].role, active |-> TRUE]]

CommitRegistration(p) ==
    /\ p \in Sessions
    /\ session[p].phase = "inserted"
    /\ Stored(p)
    /\ End(p, "created")
    /\ created' = [created EXCEPT ![Lower[session[p].email]] = Append(@, session[p].password)]
    /\ UNCHANGED <<step, tokens>>

CommitSeed(p) ==
    /\ p \in Seeders
    /\ session[p].phase = "inserted"
    /\ Stored(p)
    /\ End(p, "none")
    /\ step' = [step EXCEPT ![p] = @ + 1]
    /\ UNCHANGED <<created, tokens>>

\* A statement or the connection fails, the process dies: rolled back.
Abort(p) ==
    /\ session[p].phase # "idle"
    /\ End(p, "failed")
    /\ UNCHANGED <<account, step, created, tokens>>

\* Committed, but the answer does not arrive (an error of the refresh, a crash).
CommitUnanswered(p) ==
    /\ session[p].phase = "inserted"
    /\ Stored(p)
    /\ End(p, "failed")
    /\ UNCHANGED <<step, created, tokens>>

\* The stand is brought up again, after a failed seed or a complete one.
RestartSeed(p) ==
    /\ session[p].phase = "idle"
    /\ session[p].reply = "failed" \/ Done(p)
    /\ step' = [step EXCEPT ![p] = 1]
    /\ End(p, "none")
    /\ UNCHANGED <<account, created, tokens>>

-----------------------------------------------------------------------------
(* login: the row is read, then the password is verified against it.       *)

LoginReads(p, email, password) ==
    /\ session[p].phase = "idle"
    /\ \E s \in Named(email) :
          /\ account[s].active
          /\ session' = [session EXCEPT ![p] =
                [Idle("none") EXCEPT !.phase = "read", !.email = email,
                                     !.password = password, !.row = s,
                                     !.hash = account[s].password]]
    /\ UNCHANGED <<account, step, created, tokens>>

LoginFindsNobody(p, email) ==
    /\ session[p].phase = "idle"
    /\ \A s \in Named(email) : ~account[s].active
    /\ End(p, "refused")
    /\ UNCHANGED <<account, step, created, tokens>>

Verified(p) == session[p].hash = session[p].password

LoginVerifies(p) ==
    /\ session[p].phase = "read"
    /\ End(p, IF Verified(p) THEN "token" ELSE "refused")
    /\ tokens' =
          IF Verified(p)
          THEN tokens \cup {[owner |-> session[p].row, password |-> session[p].password]}
          ELSE tokens
    /\ UNCHANGED <<account, step, created>>

-----------------------------------------------------------------------------
\* By hand, in the database: no route does it.
Deactivate(s) ==
    /\ account[s] # Null
    /\ account[s].active
    /\ account' = [account EXCEPT ![s].active = FALSE]
    /\ UNCHANGED <<session, step, created, tokens>>

Transact(p) ==
    Insert(p) \/ InsertCollides(p) \/ Abort(p) \/ CommitUnanswered(p)

Seed(p) == SeedLooks(p) \/ SeedFinds(p) \/ CommitSeed(p) \/ RestartSeed(p)

Request(p) ==
    \/ \E email \in Spellings, password \in Passwords :
          Register(p, email, password) \/ LoginReads(p, email, password)
    \/ \E email \in Spellings : LoginFindsNobody(p, email)
    \/ CommitRegistration(p) \/ LoginVerifies(p)

Next ==
    \/ \E p \in Processes : Transact(p)
    \/ \E p \in Seeders : Seed(p)
    \/ \E p \in Sessions : Request(p)
    \/ \E s \in Spellings : Deactivate(s)

Spec == Init /\ [][Next]_vars

-----------------------------------------------------------------------------
(* Properties *)

\* However an email is written and however many register it at once: one account.
OneAccountPerEmail ==
    \A s, t \in Spellings :
        account[s] # Null /\ account[t] # Null /\ Lower[s] = Lower[t] => s = t

\* What a visitor was told holds.  Of all registrations of an email at most one
\* is answered 201, and the account is a client's with the password of that one:
\* losing the race to another registration or to the seed is never answered as a
\* success.  And a token was asked for with the password the account still has.
AnswersHold ==
    /\ \A s \in Spellings : created[s] # <<>> =>
          /\ Len(created[s]) = 1
          /\ account[s] # Null /\ account[s].role = "client"
          /\ account[s].password = created[s][1]
    /\ \A token \in tokens :
          /\ account[token.owner] # Null
          /\ account[token.owner].password = token.password

\* A seed that ran to its end leaves every staff email with an account, whoever
\* else created accounts meanwhile and however often it failed before.
SeedPrepares ==
    \A p \in Seeders : Done(p) =>
        \A i \in DOMAIN Staff : Named(Staff[i].email) # {}

\* README.md:48: the seed does not change password, role or activity of accounts
\* that are there; nor does anything else in this module, repeated at will.
AccountsAreKept ==
    [][\A s \in Spellings : account[s] # Null =>
        /\ account'[s] # Null
        /\ account'[s].password = account[s].password
        /\ account'[s].role = account[s].role
        /\ account'[s].active => account[s].active]_account
=============================================================================
