---------------------------- MODULE TelegramLink -----------------------------
(***************************************************************************)
(* Binding a Telegram chat to an account and creating tickets from it      *)
(* (telegram.py): issue_link hands a user a one-time code, handle_update   *)
(* receives Telegram's updates, which come repeatedly, concurrently and in *)
(* any order.  A session is one request and one transaction: it takes its  *)
(* locks one by one, each with the statement that reads under it, and      *)
(* commits or rolls back everything at once.                               *)
(*                                                                         *)
(* A definition named Wrong... is no part of the model: it is a plausible  *)
(* bug, put in the place of the definition below it to show that the       *)
(* properties notice.                                                      *)
(***************************************************************************)
EXTENDS Integers, Sequences, FiniteSets

CONSTANTS
    Users,
    Chats,
    Updates,    \* contents of updates Telegram may send: see Update
    Legacy,     \* Legacy[u]: the chat the first schema kept for u, unverified
    Sessions,   \* requests at work at one time
    TTL,        \* the ten minutes of a code
    MaxCodes,   \* bound: codes issued; the k-th one is the number k
    Null        \* no chat, no user, no update

\* code 0 is one that was never issued.  An update without a text, not from a
\* private chat or with a text that is no command is "unusable".
Update == [id : Nat, kind : {"start", "new", "unusable"}, chat : Chats, code : 0..MaxCodes]
Ids == {update.id : update \in Updates}

ASSUME UpdateAssumption == Updates \subseteq Update
ASSUME NullAssumption == Null \notin Users \cup Chats \cup Updates
ASSUME LegacyAssumption ==
    /\ Legacy \in [Users -> Chats \cup {Null}]
    /\ \A u, v \in Users : Legacy[u] = Legacy[v] => u = v \/ Legacy[u] = Null
ASSUME BoundAssumption == TTL \in Nat \ {0} /\ MaxCodes \in Nat
ASSUME SessionAssumption == IsFiniteSet(Sessions)

-----------------------------------------------------------------------------
VARIABLES
    user,       \* user[u]: the row's chat, whether it is verified, is_active
    link,       \* link[u]: the row of telegram_links; code 0: there is none
    receipt,    \* receipt[i]: the row of telegram_receipts, or Null
    tickets,    \* tickets created from Telegram
    session,    \* what each session holds
    now,        \* datetime.now(UTC)
    (* History, read by the properties only: *)
    issued,     \* issued[k]: the user that the k-th code was issued to
    grants,     \* committed bindings, in commit order
    answers     \* answers[update]: the answers Telegram got to it

vars == <<user, link, receipt, tickets, session, now, issued, grants, answers>>
history == <<issued, grants, answers>>

Replies == {"accepted", "rejected", "conflict"}
Receipt == [update : Updates, reply : Replies \ {"conflict"}]
Lock == {"update"} \X Ids \cup {"chat"} \X Chats \cup {"user", "share", "link"} \X Users

ASSUME ReceiptAssumption == Null \notin Receipt

\* owner: the user a code or a chat led to.  at: when the code was spent.
Session ==
    [phase : {"idle", "received", "applying", "found", "chat", "half", "client",
              "finished", "asked", "refreshed"},
     update : Updates \cup {Null}, owner : Users \cup {Null}, reply : Replies \cup {Null},
     at : Nat, locks : SUBSET Lock]

Idle == [phase |-> "idle", update |-> Null, owner |-> Null, reply |-> Null,
         at |-> 0, locks |-> {}]

TypeOK ==
    /\ user \in [Users -> [chat : Chats \cup {Null}, verified : BOOLEAN, active : BOOLEAN]]
    /\ link \in [Users -> [code : 0..MaxCodes, expires_at : Nat]]
    /\ receipt \in [Ids -> Receipt \cup {Null}]
    /\ tickets \in Seq([client : Users, update : Updates])
    /\ session \in [Sessions -> Session]
    /\ now \in Nat
    /\ issued \in Seq(Users) /\ Len(issued) <= MaxCodes
    /\ grants \in Seq([user : Users, update : Updates])
    /\ answers \in [Updates -> SUBSET Replies]

Init ==
    /\ user = [u \in Users |-> [chat |-> Legacy[u], verified |-> FALSE, active |-> TRUE]]
    /\ link = [u \in Users |-> [code |-> 0, expires_at |-> 0]]
    /\ receipt = [i \in Ids |-> Null]
    /\ tickets = <<>>
    /\ session = [s \in Sessions |-> Idle]
    /\ now = 0
    /\ issued = <<>>
    /\ grants = <<>>
    /\ answers = [update \in Updates |-> {}]

-----------------------------------------------------------------------------
(* Locks.  "update" and "chat" are advisory, "user" and "link" are rows     *)
(* FOR UPDATE; "share" is the KEY SHARE a foreign key takes on the user.    *)
(* All are held until the transaction ends.                                 *)

Conflict(a, b) ==
    \/ a = b /\ a[1] # "share"
    \/ a[2] = b[2] /\ {a[1], b[1]} = {"user", "share"}

HeldBy(t, lock) == \E held \in session[t].locks : Conflict(lock, held)
Free(s, lock) == \A t \in Sessions \ {s} : ~HeldBy(t, lock)

WrongRedeemLocks(u) == <<<<"link", u>>, <<"user", u>>>>    \* not the order of issue_link
RedeemLocks(u) == <<<<"user", u>>, <<"link", u>>>>

UpdateLock(s) == {<<"update", session[s].update.id>>}

WrongChatLock(s) == {}
ChatLock(s) == {<<"chat", session[s].update.chat>>}

\* The lock that the next statement of s needs.
Wants(s) ==
    CASE session[s].phase = "received"  -> UpdateLock(s)
      [] session[s].phase = "found"     -> ChatLock(s)
      [] session[s].phase = "chat"      -> {RedeemLocks(session[s].owner)[1]}
      [] session[s].phase = "half"      -> {RedeemLocks(session[s].owner)[2]}
      [] session[s].phase = "client"    -> {<<"share", session[s].owner>>}
      [] session[s].phase = "asked"     -> {<<"user", session[s].owner>>}
      [] session[s].phase = "refreshed" -> {<<"link", session[s].owner>>}
      [] OTHER                          -> {}

CanGo(s, phase) ==
    /\ session[s].phase = phase
    /\ \A lock \in Wants(s) : Free(s, lock)

\* The session goes on, with the lock it waited for.
Turn(s, phase) ==
    session' = [session EXCEPT ![s].phase = phase, ![s].locks = @ \cup Wants(s)]

Finish(s, reply) ==
    session' = [session EXCEPT ![s].phase = "finished", ![s].reply = reply,
                               ![s].locks = @ \cup Wants(s)]

Release(s) == session' = [session EXCEPT ![s] = Idle]

TablesUnchanged == UNCHANGED <<user, link, receipt, tickets, now, history>>

-----------------------------------------------------------------------------
(* issue_link *)

Issues(s) == session[s].phase \in {"asked", "refreshed"}

AskForLink(s, u) ==
    /\ session[s].phase = "idle"
    /\ user[u].active
    /\ Len(issued) + Cardinality({t \in Sessions : Issues(t)}) < MaxCodes
    /\ session' = [session EXCEPT ![s] = [Idle EXCEPT !.phase = "asked", !.owner = u]]
    /\ TablesUnchanged

RefreshUser(s) ==
    /\ CanGo(s, "asked")
    /\ Turn(s, "refreshed")
    /\ TablesUnchanged

\* The clock is read under the lock of the user, a moment before the UPDATE.
CommitLink(s) ==
    /\ CanGo(s, "refreshed")
    /\ link' = [link EXCEPT ![session[s].owner] =
            [code |-> Len(issued) + 1, expires_at |-> now + TTL]]
    /\ issued' = Append(issued, session[s].owner)
    /\ Release(s)
    /\ UNCHANGED <<user, receipt, tickets, now, grants, answers>>

-----------------------------------------------------------------------------
(* handle_update: Telegram sends an update, for the first time or again.    *)

ReceiveUpdate(s, update) ==
    /\ session[s].phase = "idle"
    /\ update.code <= Len(issued)
    /\ session' = [session EXCEPT ![s] = [Idle EXCEPT !.phase = "received", !.update = update]]
    /\ TablesUnchanged

Stored(s) == receipt[session[s].update.id]

Answered(s, reply) ==
    answers' = [answers EXCEPT ![session[s].update] = @ \cup {reply}]

WrongSameContent(s) == TRUE
SameContent(s) == Stored(s).update = session[s].update

\* The stored answer, or 409 for a content the receipt does not know.
AnswerFromReceipt(s) ==
    /\ CanGo(s, "received")
    /\ Stored(s) # Null
    /\ Answered(s, IF SameContent(s) THEN Stored(s).reply ELSE "conflict")
    /\ Release(s)
    /\ UNCHANGED <<user, link, receipt, tickets, now, issued, grants>>

ApplyUpdate(s) ==
    /\ CanGo(s, "received")
    /\ Stored(s) = Null
    /\ IF session[s].update.kind = "unusable" THEN Finish(s, "rejected") ELSE Turn(s, "applying")
    /\ TablesUnchanged

-----------------------------------------------------------------------------
(* apply_update: "/start <code>" *)

LinksOf(code) == {u \in Users : code # 0 /\ link[u].code = code}

FindLink(s) ==
    /\ session[s].phase = "applying" /\ session[s].update.kind = "start"
    /\ IF LinksOf(session[s].update.code) = {}
       THEN Finish(s, "rejected")
       ELSE \E u \in LinksOf(session[s].update.code) :
                session' = [session EXCEPT ![s] = [@ EXCEPT !.phase = "found", !.owner = u]]
    /\ TablesUnchanged

\* Verified or not, a chat that another account has stays that account's.
Taken(s) == \E u \in Users \ {session[s].owner} : user[u].chat = session[s].update.chat

LockChat(s) ==
    /\ CanGo(s, "found")
    /\ IF Taken(s) THEN Finish(s, "rejected") ELSE Turn(s, "chat")
    /\ TablesUnchanged

LockFirst(s) ==
    /\ CanGo(s, "chat")
    /\ Turn(s, "half")
    /\ TablesUnchanged

WrongRefreshedCode(s) == session[s].update.code    \* the link as it was found
RefreshedCode(s) == link[session[s].owner].code

WrongExpired(s) == link[session[s].owner].expires_at < now
Expired(s) == link[session[s].owner].expires_at <= now

Redeemable(s) ==
    /\ user[session[s].owner].active
    /\ RefreshedCode(s) = session[s].update.code
    /\ ~Expired(s)

\* Both rows are locked: what has been read of them holds until the commit.
LockSecond(s) ==
    /\ CanGo(s, "half")
    /\ session' = [session EXCEPT
            ![s].phase = "finished", ![s].locks = @ \cup Wants(s), ![s].at = now,
            ![s].reply = IF Redeemable(s) THEN "accepted" ELSE "rejected"]
    /\ TablesUnchanged

-----------------------------------------------------------------------------
(* apply_update: "/new <subject> | <description>" *)

WrongMayWrite(u) == user[u].active    \* a binding nobody confirmed
MayWrite(u) == user[u].active /\ user[u].verified

ClientsOf(chat) == {u \in Users : user[u].chat = chat /\ MayWrite(u)}

\* The user is read without a lock.
FindClient(s) ==
    /\ session[s].phase = "applying" /\ session[s].update.kind = "new"
    /\ IF ClientsOf(session[s].update.chat) = {}
       THEN Finish(s, "rejected")
       ELSE \E u \in ClientsOf(session[s].update.chat) :
                session' = [session EXCEPT ![s] = [@ EXCEPT !.phase = "client", !.owner = u]]
    /\ TablesUnchanged

Ticket(s) == [client |-> session[s].owner, update |-> session[s].update]

WrongFlushed(s) == Append(tickets, Ticket(s))    \* create_ticket commits by itself
Flushed(s) == tickets

\* create_ticket(commit=False): the flush waits for the user's row.
FlushTicket(s) ==
    /\ CanGo(s, "client")
    /\ Finish(s, "accepted")
    /\ tickets' = Flushed(s)
    /\ UNCHANGED <<user, link, receipt, now, history>>

-----------------------------------------------------------------------------
(* The end of a transaction, and the environment.                           *)

Writes(s, kind) == session[s].reply = "accepted" /\ session[s].update.kind = kind

\* The effect and the receipt in one commit, then the answer.
CommitUpdate(s) ==
    LET u == session[s].owner
    IN  /\ session[s].phase = "finished"
        /\ user' = IF Writes(s, "start")
                   THEN [user EXCEPT ![u] =
                            [@ EXCEPT !.chat = session[s].update.chat, !.verified = TRUE]]
                   ELSE user
        /\ link' = IF Writes(s, "start")
                   THEN [link EXCEPT ![u].expires_at = session[s].at] ELSE link
        /\ grants' = IF Writes(s, "start")
                     THEN Append(grants, [user |-> u, update |-> session[s].update]) ELSE grants
        /\ tickets' = IF Writes(s, "new") THEN Append(tickets, Ticket(s)) ELSE tickets
        /\ receipt' = [receipt EXCEPT ![session[s].update.id] =
                [update |-> session[s].update, reply |-> session[s].reply]]
        /\ Answered(s, session[s].reply)
        /\ Release(s)
        /\ UNCHANGED <<now, issued>>

\* A lock wait of three seconds, another database error, a crash: rolled back.
Abort(s) ==
    /\ session[s].phase # "idle"
    /\ Release(s)
    /\ TablesUnchanged

\* Nobody but an administrator at the database does this.
Deactivate(u) ==
    /\ user[u].active
    /\ \A s \in Sessions : <<"user", u>> \notin session[s].locks
    /\ user' = [user EXCEPT ![u].active = FALSE]
    /\ UNCHANGED <<link, receipt, tickets, session, now, history>>

\* Time only matters while a code has not expired.
Tick ==
    /\ \E u \in Users : link[u].expires_at > now
    /\ now' = now + 1
    /\ UNCHANGED <<user, link, receipt, tickets, session, history>>

-----------------------------------------------------------------------------
Work(s) ==
    \/ RefreshUser(s) \/ CommitLink(s)
    \/ AnswerFromReceipt(s) \/ ApplyUpdate(s)
    \/ FindLink(s) \/ LockChat(s) \/ LockFirst(s) \/ LockSecond(s)
    \/ FindClient(s) \/ FlushTicket(s) \/ CommitUpdate(s)

Next ==
    \/ \E s \in Sessions :
          \/ \E u \in Users : AskForLink(s, u)
          \/ \E update \in Updates : ReceiveUpdate(s, update)
          \/ Work(s) \/ Abort(s)
    \/ \E u \in Users : Deactivate(u)
    \/ Tick

Spec == Init /\ [][Next]_vars

\* Telegram repeats an update until it is answered, PostgreSQL hands a lock to
\* whoever waits for it, and there is an end to failures.
FairSpec ==
    /\ Spec
    /\ \A update \in Updates : SF_vars(\E s \in Sessions : ReceiveUpdate(s, update))
    /\ \A s \in Sessions : SF_vars(Work(s))
    /\ <>[][\A s \in Sessions : ~Abort(s)]_vars

-----------------------------------------------------------------------------
(* Properties *)

\* A code binds one chat at most, whatever updates carry it, however close
\* together they come and whatever is issued, repeated or rolled back between.
CodeUsedOnce ==
    \A i, j \in 1..Len(grants) :
        grants[i].update.code = grants[j].update.code => i = j

\* The code that binds a chat was issued to that very user, and is the newest
\* one issued to them at the moment of the commit.
NewestCodeBinds ==
    [][\A u \in Users :
        <<user'[u].chat, user'[u].verified>> # <<user[u].chat, user[u].verified>> =>
            LET code == grants'[Len(grants')].update.code
            IN  /\ issued[code] = u
                /\ \A later \in code + 1 .. Len(issued) : issued[later] # u]_vars

\* Two unique keys are a second line of defence that is not needed.
\* users_telegram_chat_id_key, whose violation would be answered by a 409: a
\* session about to bind a chat never finds it with another account, one from the
\* first schema included.  The primary key of telegram_receipts, whose violation
\* would be answered by a 500: concurrent copies of an update never both reach
\* their commit.
KeysNeverCollide ==
    \A s \in Sessions : session[s].phase = "finished" =>
        /\ Stored(s) = Null
        /\ Writes(s, "start") =>
              \A u \in Users \ {session[s].owner} : user[u].chat # session[s].update.chat

\* Where effects holds one of the update with the id i.
EffectsOf(effects, i) == {n \in 1..Len(effects) : effects[n].update.id = i}

\* An update has its effect once if its receipt says so, and none otherwise,
\* though it is applied anew after every rollback and every lost answer.
OneEffectPerUpdate ==
    \A i \in Ids :
        Cardinality(EffectsOf(tickets, i)) + Cardinality(EffectsOf(grants, i))
            = IF receipt[i] # Null /\ receipt[i].reply = "accepted" THEN 1 ELSE 0

\* Telegram never gets two different answers to an update, and an answer is
\* only given for good: once the receipt that explains it is committed.
AnswersAreFinal ==
    \A update \in Updates : \A reply \in answers[update] :
        LET stored == receipt[update.id]
        IN  /\ stored # Null
            /\ reply = IF stored.update = update THEN stored.reply ELSE "conflict"

\* Tickets are only written in the name of a client who confirmed that chat with
\* a code of their own; a binding of the first schema is not enough.
TicketsNeedAConfirmedChat ==
    \A i \in 1..Len(tickets) : \E j \in 1..Len(grants) :
        /\ grants[j].user = tickets[i].client
        /\ grants[j].update.chat = tickets[i].update.chat

\* Sessions never wait for each other in a circle: in every set of them there is
\* one that waits for nobody in the set.
NoDeadlock ==
    \A waiting \in (SUBSET Sessions) \ {{}} :
        \E s \in waiting :
            \A lock \in Wants(s) : \A t \in waiting \ {s} : ~HeldBy(t, lock)

\* Every update that can be sent is answered in the end, however often it and
\* the transactions in its way were rolled back before.
EveryUpdateAnswered ==
    \A update \in Updates : update.code <= Len(issued) ~> answers[update] # {}
=============================================================================
