------------------------- MODULE TelegramLinkProofs -------------------------
(***************************************************************************)
(* Proofs about TelegramLink for any users, chats, updates and sessions.   *)
(* A session acts on what it read under locks that it still holds: Facts   *)
(* says what it relies on, Exclusive why no other session can spoil it.    *)
(***************************************************************************)
EXTENDS LinkRefinement, FiniteSetTheorems, TLAPS

\* The user confirmed the chat at some time.
Confirmed(u, chat) ==
    \E j \in 1..Len(grants) : grants[j].user = u /\ grants[j].update.chat = chat

Unused(code) == \A i \in 1..Len(grants) : grants[i].update.code # code

ChatIsFree(q) ==
    /\ <<"chat", q.update.chat>> \in q.locks
    /\ \A u \in Users \ {q.owner} : user[u].chat # q.update.chat

\* A session that may bind its chat.
MayBind(q) ==
    /\ q.owner \in Users
    /\ <<"user", q.owner>> \in q.locks
    /\ ChatIsFree(q)
    /\ q.update.code # 0 /\ link[q.owner].code = q.update.code
    /\ q.at <= now
    /\ Unused(q.update.code)

\* What the session q holds is true of the tables.
Facts(q) ==
    /\ q.phase = "idle" => q.locks = {}
    /\ q.phase \notin {"idle", "asked", "refreshed"} => q.update \in Updates
    /\ q.phase \notin {"idle", "asked", "refreshed", "received"} =>
          <<"update", q.update.id>> \in q.locks /\ receipt[q.update.id] = Null
    /\ q.phase \in {"found", "chat", "half", "client", "asked", "refreshed"} =>
          q.owner \in Users
    /\ q.phase \in {"found", "chat", "half"} =>
          q.update.kind = "start" /\ q.update.code # 0
    /\ q.phase \in {"chat", "half"} => ChatIsFree(q)
    /\ q.phase \in {"half", "refreshed"} => <<"user", q.owner>> \in q.locks
    /\ q.phase = "client" => q.update.kind = "new" /\ Confirmed(q.owner, q.update.chat)
    /\ q.phase = "finished" =>
          /\ q.reply \in {"accepted", "rejected"}
          /\ q.reply = "accepted" =>
                \/ q.update.kind = "start" /\ MayBind(q)
                \/ /\ q.update.kind = "new"
                   /\ q.owner \in Users /\ Confirmed(q.owner, q.update.chat)

Exclusive ==
    \A s, t \in Sessions : s # t =>
        \A a \in session[s].locks, b \in session[t].locks : ~Conflict(a, b)

\* The codes of a user: the one in the row is the newest.
CodesOK(u) ==
    /\ link[u].code # 0 => link[u].code \in 1..Len(issued) /\ issued[link[u].code] = u
    /\ \A k \in 1..Len(issued) : issued[k] = u => k <= link[u].code

\* A binding was made with a code of that user, which is spent or replaced.
GrantOK(i) ==
    /\ grants[i].update.code \in 1..Len(issued)
    /\ issued[grants[i].update.code] = grants[i].user
    /\ link[grants[i].user].code = grants[i].update.code =>
          link[grants[i].user].expires_at <= now

Issuing == {t \in Sessions : Issues(t)}

Shape ==
    /\ TypeOK
    /\ Len(issued) + Cardinality(Issuing) <= MaxCodes
    /\ \A s \in Sessions : Facts(session[s])
    /\ Exclusive
    /\ \A u \in Users : CodesOK(u)
    /\ \A i \in 1..Len(grants) : GrantOK(i)
    /\ \A u \in Users : user[u].verified => Confirmed(u, user[u].chat)

-----------------------------------------------------------------------------
(* Locks and types *)

LEMMA WantsOf ==
    ASSUME NEW s \in Sessions
    PROVE  /\ session[s].phase = "received" =>
                 Wants(s) = {<<"update", session[s].update.id>>}
           /\ session[s].phase = "found" => Wants(s) = {<<"chat", session[s].update.chat>>}
           /\ session[s].phase = "chat" => Wants(s) = {<<"user", session[s].owner>>}
           /\ session[s].phase = "half" => Wants(s) = {<<"link", session[s].owner>>}
           /\ session[s].phase = "client" => Wants(s) = {<<"share", session[s].owner>>}
           /\ session[s].phase = "asked" => Wants(s) = {<<"user", session[s].owner>>}
           /\ session[s].phase = "refreshed" => Wants(s) = {<<"link", session[s].owner>>}
           /\ session[s].phase \in {"idle", "applying", "finished"} => Wants(s) = {}
BY DEF Wants, UpdateLock, ChatLock, RedeemLocks

LEMMA Typed ==
    ASSUME TypeOK, NEW s \in Sessions
    PROVE  /\ session[s] \in Session
           /\ session[s].locks \in SUBSET Lock
           /\ session[s].update \in Updates =>
                 /\ session[s].update.id \in Ids /\ session[s].update.chat \in Chats
                 /\ session[s].update.code \in Nat
                 /\ session[s].update.kind \in {"start", "new", "unusable"}
<1>1. session[s] \in Session
  BY DEF TypeOK
<1>2. session[s].update \in Updates => session[s].update \in Update
  BY UpdateAssumption
<1> QED BY <1>1, <1>2, BoundAssumption DEF Session, Update, Ids

LEMMA WantsAreLocks ==
    ASSUME TypeOK, NEW s \in Sessions, Facts(session[s])
    PROVE  Wants(s) \in SUBSET Lock
<1>1. session[s].phase \in {"idle", "received", "applying", "found", "chat", "half",
                            "client", "finished", "asked", "refreshed"}
  BY Typed DEF Session
<1>2. session[s].phase = "received" => session[s].update.id \in Ids
  BY Typed DEF Facts
<1>3. session[s].phase = "found" => session[s].update.chat \in Chats
  BY Typed DEF Facts
<1>4. session[s].phase \in {"chat", "half", "client", "asked", "refreshed"} =>
          session[s].owner \in Users
  BY DEF Facts
<1> QED BY <1>1, <1>2, <1>3, <1>4, WantsOf DEF Lock

\* Two sessions never hold the same lock, a KEY SHARE excepted.
LEMMA OneHolder ==
    ASSUME Exclusive, NEW s \in Sessions, NEW t \in Sessions, NEW k, NEW x,
           k # "share", <<k, x>> \in session[s].locks, <<k, x>> \in session[t].locks
    PROVE  s = t
BY DEF Exclusive, Conflict

-----------------------------------------------------------------------------
(* How a session moves *)

\* Only s moves, and takes no lock that another session holds.
Moves(s) ==
    /\ session' \in [Sessions -> Session]
    /\ \A t \in Sessions \ {s} : session'[t] = session[t]
    /\ \A lock \in session'[s].locks : lock \in session[s].locks \/ Free(s, lock)

\* What s holds from now on.
Becomes(s, phase, update, owner, reply, at) ==
    /\ session'[s].phase = phase
    /\ session'[s].update = update
    /\ session'[s].owner = owner
    /\ session'[s].reply = reply
    /\ session'[s].at = at

Keeps(s, phase, reply) ==
    /\ Becomes(s, phase, session[s].update, session[s].owner, reply, session[s].at)
    /\ session'[s].locks = session[s].locks \cup Wants(s)

LEMMA Turned ==
    ASSUME Shape, NEW s \in Sessions, NEW from, CanGo(s, from),
           NEW to \in {"received", "applying", "found", "chat", "half", "client",
                       "finished", "asked", "refreshed"},
           Turn(s, to)
    PROVE  Moves(s) /\ Keeps(s, to, session[s].reply)
<1> DEFINE new == [session[s] EXCEPT !.phase = to, !.locks = session[s].locks \cup Wants(s)]
<1>1. session \in [Sessions -> Session] /\ session[s] \in Session /\ Wants(s) \in SUBSET Lock
  BY WantsAreLocks DEF Shape, TypeOK
<1>2. new \in Session /\ new.locks = session[s].locks \cup Wants(s)
      /\ new.phase = to /\ new.update = session[s].update /\ new.owner = session[s].owner
      /\ new.reply = session[s].reply /\ new.at = session[s].at
  BY <1>1 DEF Session
<1>3. session' = [session EXCEPT ![s] = new]
  BY <1>1 DEF Turn
<1>4. \A lock \in Wants(s) : Free(s, lock)
  BY DEF CanGo
<1> HIDE DEF new
<1> QED BY <1>1, <1>2, <1>3, <1>4 DEF Moves, Keeps, Becomes

LEMMA Finished ==
    ASSUME Shape, NEW s \in Sessions, \A lock \in Wants(s) : Free(s, lock),
           NEW reply \in {"accepted", "rejected"}, Finish(s, reply)
    PROVE  Moves(s) /\ Keeps(s, "finished", reply)
<1> DEFINE new == [session[s] EXCEPT !.phase = "finished", !.reply = reply,
                       !.locks = session[s].locks \cup Wants(s)]
<1>1. session \in [Sessions -> Session] /\ session[s] \in Session /\ Wants(s) \in SUBSET Lock
  BY WantsAreLocks DEF Shape, TypeOK
<1>2. new \in Session /\ new.locks = session[s].locks \cup Wants(s)
      /\ new.phase = "finished" /\ new.update = session[s].update
      /\ new.owner = session[s].owner /\ new.reply = reply /\ new.at = session[s].at
  BY <1>1 DEF Session, Replies
<1>3. session' = [session EXCEPT ![s] = new]
  BY <1>1 DEF Finish
<1> HIDE DEF new
<1> QED BY <1>1, <1>2, <1>3 DEF Moves, Keeps, Becomes

LEMMA Released ==
    ASSUME Shape, NEW s \in Sessions, Release(s)
    PROVE  Moves(s) /\ session'[s] = Idle /\ Facts(session[s])'
<1>1. Idle \in Session /\ Idle.phase = "idle" /\ Idle.locks = {}
  BY DEF Idle, Session
<1>2. session' = [session EXCEPT ![s] = Idle] /\ session \in [Sessions -> Session]
  BY DEF Release, Shape, TypeOK
<1>3. session'[s] = Idle
  BY <1>2
<1>4. Facts(session[s])'
  BY <1>1, <1>3 DEF Facts
<1> QED BY <1>1, <1>2, <1>3, <1>4 DEF Moves

LEMMA Started ==
    ASSUME Shape, NEW s \in Sessions, NEW new \in Session, new.locks = {},
           session' = [session EXCEPT ![s] = new]
    PROVE  Moves(s) /\ session'[s] = new
BY DEF Moves, Shape, TypeOK

\* What Facts says of the tables is said of the same tables.
SameTables == UNCHANGED <<user, link, receipt, tickets, now, issued, grants, answers>>

LEMMA TablesSame == TablesUnchanged => SameTables
BY DEF TablesUnchanged, SameTables, history

-----------------------------------------------------------------------------
(* Each step of a session leaves it with true facts. *)

LEMMA AskStep ==
    ASSUME Shape, NEW s \in Sessions, NEW u \in Users, AskForLink(s, u)
    PROVE  Moves(s) /\ Facts(session[s])' /\ SameTables
<1> DEFINE new == [Idle EXCEPT !.phase = "asked", !.owner = u]
<1>1. new \in Session /\ new.phase = "asked" /\ new.owner = u /\ new.locks = {}
  BY DEF Idle, Session
<1>2. session' = [session EXCEPT ![s] = new] /\ SameTables
  BY TablesSame DEF AskForLink
<1> HIDE DEF new
<1>3. Moves(s) /\ session'[s] = new
  BY <1>1, <1>2, Started
<1> QED BY <1>1, <1>2, <1>3 DEF Facts

LEMMA ReceiveStep ==
    ASSUME Shape, NEW s \in Sessions, NEW update \in Updates, ReceiveUpdate(s, update)
    PROVE  Moves(s) /\ Facts(session[s])' /\ SameTables
<1> DEFINE new == [Idle EXCEPT !.phase = "received", !.update = update]
<1>1. new \in Session /\ new.phase = "received" /\ new.update = update /\ new.locks = {}
  BY DEF Idle, Session
<1>2. session' = [session EXCEPT ![s] = new] /\ SameTables
  BY TablesSame DEF ReceiveUpdate
<1> HIDE DEF new
<1>3. Moves(s) /\ session'[s] = new
  BY <1>1, <1>2, Started
<1> QED BY <1>1, <1>2, <1>3 DEF Facts

LEMMA RefreshUserStep ==
    ASSUME Shape, NEW s \in Sessions, RefreshUser(s)
    PROVE  Moves(s) /\ Facts(session[s])' /\ SameTables
<1>1. Moves(s) /\ Keeps(s, "refreshed", session[s].reply) /\ SameTables
  BY Turned, TablesSame DEF RefreshUser
<1>2. session[s].phase = "asked" /\ Facts(session[s])
  BY DEF RefreshUser, CanGo, Shape
<1> QED BY <1>1, <1>2, WantsOf DEF Facts, Keeps, Becomes

LEMMA ApplyStep ==
    ASSUME Shape, NEW s \in Sessions, ApplyUpdate(s)
    PROVE  Moves(s) /\ Facts(session[s])' /\ SameTables
<1>1. session[s].phase = "received" /\ Facts(session[s]) /\ SameTables
      /\ receipt[session[s].update.id] = Null /\ CanGo(s, "received")
      /\ (\A lock \in Wants(s) : Free(s, lock))
  BY TablesSame DEF ApplyUpdate, CanGo, Stored, Shape
<1>2. CASE Finish(s, "rejected")
  <2>1. Moves(s) /\ Keeps(s, "finished", "rejected")
    BY <1>1, <1>2, Finished
  <2> QED BY <1>1, <2>1, WantsOf DEF Facts, Keeps, Becomes, SameTables
<1>3. CASE Turn(s, "applying")
  <2>1. Moves(s) /\ Keeps(s, "applying", session[s].reply)
    BY <1>1, <1>3, Turned
  <2> QED BY <1>1, <2>1, WantsOf DEF Facts, Keeps, Becomes, SameTables
<1> QED BY <1>2, <1>3 DEF ApplyUpdate

LEMMA FindLinkStep ==
    ASSUME Shape, NEW s \in Sessions, FindLink(s)
    PROVE  Moves(s) /\ Facts(session[s])' /\ SameTables
<1>1. session[s].phase = "applying" /\ Facts(session[s]) /\ SameTables
      /\ session[s].update.kind = "start" /\ Wants(s) = {}
      /\ session \in [Sessions -> Session] /\ session[s] \in Session
  BY TablesSame, WantsOf DEF FindLink, Shape, TypeOK
<1>2. CASE Finish(s, "rejected")
  <2>1. Moves(s) /\ Keeps(s, "finished", "rejected")
    BY <1>1, <1>2, Finished
  <2> QED BY <1>1, <2>1 DEF Facts, Keeps, Becomes, SameTables
<1>3. ASSUME NEW u \in LinksOf(session[s].update.code),
             session' = [session EXCEPT ![s] = [@ EXCEPT !.phase = "found", !.owner = u]]
      PROVE  Moves(s) /\ Facts(session[s])'
  <2> DEFINE new == [session[s] EXCEPT !.phase = "found", !.owner = u]
  <2>1. u \in Users /\ session[s].update.code # 0
    BY DEF LinksOf
  <2>2. new \in Session /\ new.phase = "found" /\ new.owner = u
        /\ new.update = session[s].update /\ new.locks = session[s].locks
    BY <1>1, <2>1 DEF Session
  <2>3. session' = [session EXCEPT ![s] = new]
    BY <1>3
  <2> HIDE DEF new
  <2>4. session'[s] = new
    BY <1>1, <2>3
  <2> QED BY <1>1, <2>1, <2>2, <2>3, <2>4 DEF Moves, Facts, SameTables
<1> QED BY <1>1, <1>2, <1>3 DEF FindLink

LEMMA LockChatStep ==
    ASSUME Shape, NEW s \in Sessions, LockChat(s)
    PROVE  Moves(s) /\ Facts(session[s])' /\ SameTables
<1>1. session[s].phase = "found" /\ Facts(session[s]) /\ SameTables /\ CanGo(s, "found")
      /\ (\A lock \in Wants(s) : Free(s, lock))
  BY TablesSame DEF LockChat, CanGo, Shape
<1>2. CASE Finish(s, "rejected")
  <2>1. Moves(s) /\ Keeps(s, "finished", "rejected")
    BY <1>1, <1>2, Finished
  <2> QED BY <1>1, <2>1 DEF Facts, Keeps, Becomes, SameTables
<1>3. CASE ~Taken(s) /\ Turn(s, "chat")
  <2>1. Moves(s) /\ Keeps(s, "chat", session[s].reply)
    BY <1>1, <1>3, Turned
  <2>2. <<"chat", session[s].update.chat>> \in session'[s].locks
    BY <1>1, <2>1, WantsOf DEF Keeps
  <2> QED BY <1>1, <1>3, <2>1, <2>2 DEF Facts, Keeps, Becomes, SameTables, ChatIsFree, Taken
<1> QED BY <1>1, <1>2, <1>3 DEF LockChat

LEMMA LockFirstStep ==
    ASSUME Shape, NEW s \in Sessions, LockFirst(s)
    PROVE  Moves(s) /\ Facts(session[s])' /\ SameTables
<1>1. session[s].phase = "chat" /\ Facts(session[s]) /\ SameTables /\ CanGo(s, "chat")
  BY TablesSame DEF LockFirst, CanGo, Shape
<1>2. Moves(s) /\ Keeps(s, "half", session[s].reply)
  BY <1>1, Turned DEF LockFirst
<1>3. <<"user", session[s].owner>> \in session'[s].locks
  BY <1>1, <1>2, WantsOf DEF Keeps
<1> QED BY <1>1, <1>2, <1>3 DEF Facts, Keeps, Becomes, SameTables, ChatIsFree

\* A code that has not expired is in no binding: there it would be spent.
LEMMA LockSecondStep ==
    ASSUME Shape, NEW s \in Sessions, LockSecond(s)
    PROVE  Moves(s) /\ Facts(session[s])' /\ SameTables
<1>1. session[s].phase = "half" /\ Facts(session[s]) /\ SameTables
      /\ (\A lock \in Wants(s) : Free(s, lock)) /\ now \in Nat
      /\ session \in [Sessions -> Session] /\ session[s] \in Session
      /\ Wants(s) \in SUBSET Lock
  BY TablesSame, WantsAreLocks DEF LockSecond, CanGo, Shape, TypeOK
<1> DEFINE reply == IF Redeemable(s) THEN "accepted" ELSE "rejected"
           new == [session[s] EXCEPT !.phase = "finished",
                       !.locks = session[s].locks \cup Wants(s), !.at = now, !.reply = reply]
<1>2. new \in Session /\ new.phase = "finished" /\ new.reply = reply /\ new.at = now
      /\ new.update = session[s].update /\ new.owner = session[s].owner
      /\ new.locks = session[s].locks \cup Wants(s)
  BY <1>1 DEF Session, Replies
<1>3. session' = [session EXCEPT ![s] = new]
  BY <1>1 DEF LockSecond
<1> HIDE DEF new
<1>4. session'[s] = new
  BY <1>1, <1>3
<1>5. Moves(s)
  BY <1>1, <1>2, <1>3, <1>4 DEF Moves
<1>6. ASSUME Redeemable(s) PROVE MayBind(new)
  <2>1. session[s].owner \in Users /\ session[s].update.code # 0
        /\ link[session[s].owner].code = session[s].update.code
        /\ ~(link[session[s].owner].expires_at <= now)
    BY <1>1, <1>6 DEF Facts, Redeemable, RefreshedCode, Expired
  <2>2. Unused(session[s].update.code)
    <3> SUFFICES ASSUME NEW i \in 1..Len(grants),
                        grants[i].update.code = session[s].update.code
                 PROVE  FALSE
      BY DEF Unused
    <3>1. issued[session[s].update.code] = session[s].owner
      BY <2>1 DEF Shape, CodesOK
    <3> QED BY <2>1, <3>1 DEF Shape, GrantOK
  <2> QED BY <1>1, <1>2, <2>1, <2>2 DEF MayBind, Facts, ChatIsFree
<1>7. Facts(new)
  BY <1>1, <1>2, <1>6 DEF Facts
<1>8. Facts(session[s])'
  BY <1>1, <1>4, <1>7 DEF Facts, SameTables, MayBind, Confirmed, Unused, ChatIsFree
<1> QED BY <1>1, <1>5, <1>8

LEMMA FindClientStep ==
    ASSUME Shape, NEW s \in Sessions, FindClient(s)
    PROVE  Moves(s) /\ Facts(session[s])' /\ SameTables
<1>1. session[s].phase = "applying" /\ Facts(session[s]) /\ SameTables
      /\ session[s].update.kind = "new" /\ Wants(s) = {}
      /\ session \in [Sessions -> Session] /\ session[s] \in Session
  BY TablesSame, WantsOf DEF FindClient, Shape, TypeOK
<1>2. CASE Finish(s, "rejected")
  <2>1. Moves(s) /\ Keeps(s, "finished", "rejected")
    BY <1>1, <1>2, Finished
  <2> QED BY <1>1, <2>1 DEF Facts, Keeps, Becomes, SameTables
<1>3. ASSUME NEW u \in ClientsOf(session[s].update.chat),
             session' = [session EXCEPT ![s] = [@ EXCEPT !.phase = "client", !.owner = u]]
      PROVE  Moves(s) /\ Facts(session[s])'
  <2> DEFINE new == [session[s] EXCEPT !.phase = "client", !.owner = u]
  <2>1. u \in Users /\ Confirmed(u, session[s].update.chat)
    BY DEF ClientsOf, MayWrite, Shape
  <2>2. new \in Session /\ new.phase = "client" /\ new.owner = u
        /\ new.update = session[s].update /\ new.locks = session[s].locks
    BY <1>1, <2>1 DEF Session
  <2>3. session' = [session EXCEPT ![s] = new]
    BY <1>3
  <2> HIDE DEF new
  <2>4. session'[s] = new
    BY <1>1, <2>3
  <2> QED BY <1>1, <2>1, <2>2, <2>3, <2>4 DEF Moves, Facts, SameTables, Confirmed
<1> QED BY <1>1, <1>2, <1>3 DEF FindClient

LEMMA FlushStep ==
    ASSUME Shape, NEW s \in Sessions, FlushTicket(s)
    PROVE  Moves(s) /\ Facts(session[s])' /\ SameTables
<1>1. session[s].phase = "client" /\ Facts(session[s]) /\ SameTables
      /\ (\A lock \in Wants(s) : Free(s, lock))
  BY DEF FlushTicket, Flushed, CanGo, Shape, SameTables, history
<1>2. Moves(s) /\ Keeps(s, "finished", "accepted")
  BY <1>1, Finished DEF FlushTicket
<1> QED BY <1>1, <1>2 DEF Facts, Keeps, Becomes, SameTables, Confirmed

\* The other steps end a session.
LEMMA ReleaseSteps ==
    ASSUME Shape, NEW s \in Sessions,
           Abort(s) \/ AnswerFromReceipt(s) \/ CommitLink(s) \/ CommitUpdate(s)
    PROVE  Release(s)
BY DEF Abort, AnswerFromReceipt, CommitLink, CommitUpdate

-----------------------------------------------------------------------------
(* What a commit does *)

\* The rows that Facts speaks of.
SameRows == UNCHANGED <<user, link, receipt, now, issued, grants>>

Grant(s) == [user |-> session[s].owner, update |-> session[s].update]

\* A binding is written by a session that may bind.
Binding(s) ==
    /\ session[s].update.kind = "start" /\ MayBind(session[s])
    /\ session[s].update \in Updates /\ session[s].at \in Nat
    /\ user' = [user EXCEPT ![session[s].owner] =
            [user[session[s].owner] EXCEPT !.chat = session[s].update.chat, !.verified = TRUE]]
    /\ link' = [link EXCEPT ![session[s].owner].expires_at = session[s].at]
    /\ grants' = Append(grants, Grant(s))
    /\ tickets' = tickets

NoBinding(s) ==
    /\ UNCHANGED <<user, link, grants>>
    /\ \/ tickets' = tickets
       \/ /\ session[s].owner \in Users /\ Confirmed(session[s].owner, session[s].update.chat)
          /\ tickets' = Append(tickets, Ticket(s))

LEMMA CommitStep ==
    ASSUME Shape, NEW s \in Sessions, CommitUpdate(s)
    PROVE  /\ session[s].update \in Updates /\ session[s].update.id \in Ids
           /\ session[s].reply \in {"accepted", "rejected"}
           /\ <<"update", session[s].update.id>> \in session[s].locks
           /\ receipt[session[s].update.id] = Null
           /\ receipt' = [receipt EXCEPT ![session[s].update.id] =
                  [update |-> session[s].update, reply |-> session[s].reply]]
           /\ answers' = [answers EXCEPT ![session[s].update] = @ \cup {session[s].reply}]
           /\ UNCHANGED <<now, issued>>
           /\ Binding(s) \/ NoBinding(s)
<1>1. session[s].phase = "finished" /\ Facts(session[s]) /\ session[s].at \in Nat
  BY Typed DEF CommitUpdate, Shape, Session
<1>2. session[s].update \in Updates /\ session[s].update.id \in Ids
  BY <1>1, Typed DEF Facts, Shape
<1>3. CASE Writes(s, "start")
  BY <1>1, <1>2, <1>3 DEF CommitUpdate, Answered, Writes, Facts, Binding, Grant
<1>4. CASE Writes(s, "new")
  BY <1>1, <1>2, <1>4 DEF CommitUpdate, Answered, Writes, Facts, NoBinding
<1>5. CASE ~Writes(s, "start") /\ ~Writes(s, "new")
  BY <1>1, <1>2, <1>5 DEF CommitUpdate, Answered, Facts, NoBinding
<1> QED BY <1>3, <1>4, <1>5

LEMMA GrantAppended ==
    ASSUME Shape, NEW s \in Sessions, Binding(s)
    PROVE  /\ grants' \in Seq([user : Users, update : Updates])
           /\ Len(grants') = Len(grants) + 1
           /\ \A i \in 1..Len(grants) : grants'[i] = grants[i]
           /\ grants'[Len(grants) + 1] = Grant(s)
           /\ Grant(s).user = session[s].owner /\ Grant(s).update = session[s].update
           /\ Len(grants) \in Nat
<1>1. grants \in Seq([user : Users, update : Updates])
  BY DEF Shape, TypeOK
<1>2. Grant(s) \in [user : Users, update : Updates]
  BY DEF Binding, MayBind, Grant
<1>3. Grant(s).user = session[s].owner /\ Grant(s).update = session[s].update
  BY DEF Grant
<1> QED BY <1>1, <1>2, <1>3 DEF Binding

\* A chat once confirmed stays confirmed in the history.
LEMMA ConfirmedStays ==
    ASSUME Shape, NEW s \in Sessions, Binding(s) \/ grants' = grants,
           NEW u, NEW chat, Confirmed(u, chat)
    PROVE  Confirmed(u, chat)'
<1>1. CASE grants' = grants
  BY <1>1 DEF Confirmed
<1>2. CASE Binding(s)
  <2>1. PICK j \in 1..Len(grants) : grants[j].user = u /\ grants[j].update.chat = chat
    BY DEF Confirmed
  <2>2. j \in 1..Len(grants') /\ grants'[j] = grants[j]
    BY <1>2, GrantAppended
  <2> QED BY <2>1, <2>2 DEF Confirmed
<1> QED BY <1>1, <1>2

-----------------------------------------------------------------------------
(* What the others hold stays true: they hold the locks that protect it. *)

LEMMA SameFacts ==
    ASSUME NEW t \in Sessions, Facts(session[t]), session'[t] = session[t], SameRows
    PROVE  Facts(session[t])'
BY DEF Facts, SameRows, MayBind, Confirmed, Unused, ChatIsFree

LEMMA OthersAfterLink ==
    ASSUME Shape, NEW s \in Sessions, CommitLink(s),
           NEW t \in Sessions, t # s, session'[t] = session[t]
    PROVE  Facts(session[t])'
<1>1. <<"user", session[s].owner>> \in session[s].locks /\ Facts(session[t])
  BY DEF Shape, Facts, CommitLink, CanGo
<1>2. UNCHANGED <<user, receipt, now, grants>>
      /\ link' = [link EXCEPT ![session[s].owner] =
             [code |-> Len(issued) + 1, expires_at |-> now + TTL]]
      /\ link \in [Users -> [code : 0..MaxCodes, expires_at : Nat]]
  BY DEF CommitLink, Shape, TypeOK
<1>3. ASSUME MayBind(session[t]) PROVE MayBind(session[t])'
  <2>1. session[t].owner # session[s].owner
    BY <1>1, <1>3, OneHolder DEF MayBind, Shape
  <2> QED BY <1>2, <1>3, <2>1 DEF MayBind, ChatIsFree, Unused
<1> QED BY <1>1, <1>2, <1>3 DEF Facts, Confirmed, ChatIsFree

LEMMA OthersAfterUpdate ==
    ASSUME Shape, NEW s \in Sessions, CommitUpdate(s),
           NEW t \in Sessions, t # s, session'[t] = session[t]
    PROVE  Facts(session[t])'
<1>1. Facts(session[t]) /\ session[t] \in Session
  BY DEF Shape, TypeOK
<1>2. ASSUME <<"update", session[t].update.id>> \in session[t].locks,
             session[t].update \in Updates, receipt[session[t].update.id] = Null
      PROVE  receipt'[session[t].update.id] = Null
  <2>1. <<"update", session[s].update.id>> \in session[s].locks
    BY CommitStep
  <2>2. session[t].update.id # session[s].update.id
    BY <1>2, <2>1, OneHolder DEF Shape
  <2>3. session[t].update.id \in Ids
    BY <1>2, Typed DEF Shape
  <2>4. receipt' = [receipt EXCEPT ![session[s].update.id] =
            [update |-> session[s].update, reply |-> session[s].reply]]
    BY CommitStep
  <2>5. DOMAIN receipt = Ids
    BY DEF Shape, TypeOK
  <2> QED BY <1>2, <2>2, <2>3, <2>4, <2>5
<1>3. ASSUME ChatIsFree(session[t]) PROVE ChatIsFree(session[t])'
  <2>1. CASE Binding(s)
    <3>1. session[s].update.chat # session[t].update.chat
      BY <1>3, <2>1, OneHolder DEF Binding, MayBind, ChatIsFree, Shape
    <3>2. \A u \in Users : user'[u].chat \in {user[u].chat, session[s].update.chat}
      BY <2>1 DEF Binding, Shape, TypeOK
    <3> QED BY <1>3, <3>1, <3>2 DEF ChatIsFree
  <2>2. CASE NoBinding(s)
    BY <1>3, <2>2 DEF NoBinding, ChatIsFree
  <2> QED BY <2>1, <2>2, CommitStep
<1>4. ASSUME MayBind(session[t]) PROVE MayBind(session[t])'
  <2>1. CASE Binding(s)
    <3>1. session[s].owner # session[t].owner
      BY <1>4, <2>1, OneHolder DEF Binding, MayBind, Shape
    <3>2. link'[session[t].owner].code = link[session[t].owner].code
      BY <1>4, <2>1, <3>1 DEF Binding, MayBind, Shape, TypeOK
    <3>3. session[s].update.code # session[t].update.code
      BY <1>4, <2>1, <3>1 DEF Binding, MayBind, Shape, CodesOK
    <3>4. Unused(session[t].update.code)'
      <4>1. ASSUME NEW i \in 1..Len(grants')
            PROVE  grants'[i].update.code # session[t].update.code
        <5>1. i \in 1..Len(grants) \/ i = Len(grants) + 1
          BY <2>1, GrantAppended
        <5>2. grants'[i] = Grant(s) \/ (i \in 1..Len(grants) /\ grants'[i] = grants[i])
          BY <2>1, <5>1, GrantAppended
        <5> QED BY <1>4, <3>3, <5>2 DEF MayBind, Unused, Grant
      <4> QED BY <4>1 DEF Unused
    <3> QED BY <1>3, <1>4, <3>2, <3>4, CommitStep DEF MayBind
  <2>2. CASE NoBinding(s)
    BY <1>3, <1>4, <2>2, CommitStep DEF NoBinding, MayBind, Unused
  <2> QED BY <2>1, <2>2, CommitStep
<1>5. ASSUME Confirmed(session[t].owner, session[t].update.chat)
      PROVE  Confirmed(session[t].owner, session[t].update.chat)'
  <2>1. Binding(s) \/ grants' = grants
    BY CommitStep DEF NoBinding
  <2>2. Confirmed(session[t].owner, session[t].update.chat)
        => \E j \in 1..Len(grants') : /\ grants'[j].user = session[t].owner
                                      /\ grants'[j].update.chat = session[t].update.chat
    BY <2>1, ConfirmedStays DEF Confirmed
  <2> QED BY <1>5, <2>2 DEF Confirmed
<1> QED BY <1>1, <1>2, <1>3, <1>4, <1>5 DEF Facts

-----------------------------------------------------------------------------
(* The shape is inductive. *)

\* A session's step: by its effect on the tables.
Acts(s) ==
    /\ Moves(s)
    /\ Facts(session[s])'
    /\ SameTables \/ AnswerFromReceipt(s) \/ CommitLink(s) \/ CommitUpdate(s)

LEMMA Steps ==
    ASSUME Shape, [Next]_vars
    PROVE  \/ UNCHANGED vars
           \/ \E u \in Users : Deactivate(u)
           \/ Tick
           \/ \E s \in Sessions : Acts(s)
<1>1. ASSUME NEW s \in Sessions, NEW u \in Users, AskForLink(s, u) PROVE Acts(s)
  BY <1>1, AskStep DEF Acts
<1>2. ASSUME NEW s \in Sessions, NEW update \in Updates, ReceiveUpdate(s, update)
      PROVE  Acts(s)
  BY <1>2, ReceiveStep DEF Acts
<1>3. ASSUME NEW s \in Sessions, Work(s) PROVE Acts(s)
  BY <1>3, RefreshUserStep, ApplyStep, FindLinkStep, LockChatStep, LockFirstStep,
     LockSecondStep, FindClientStep, FlushStep, ReleaseSteps, Released DEF Acts, Work
<1>4. ASSUME NEW s \in Sessions, Abort(s) PROVE Acts(s)
  BY <1>4, ReleaseSteps, Released, TablesSame DEF Acts, Abort
<1> QED BY <1>1, <1>2, <1>3, <1>4 DEF Next

LEMMA FactsNext ==
    ASSUME Shape, [Next]_vars, NEW t \in Sessions
    PROVE  Facts(session[t])'
<1>0. Facts(session[t])
  BY DEF Shape
<1>1. CASE UNCHANGED vars
  BY <1>0, <1>1, SameFacts DEF vars, SameRows
<1>2. ASSUME NEW u \in Users, Deactivate(u) PROVE Facts(session[t])'
  <2>1. \A v \in Users : user'[v].chat = user[v].chat
    BY <1>2 DEF Deactivate, Shape, TypeOK
  <2>2. UNCHANGED <<link, receipt, session, now, grants>>
    BY <1>2 DEF Deactivate, history
  <2>3. ChatIsFree(session[t]) => ChatIsFree(session[t])'
    BY <2>1, <2>2 DEF ChatIsFree
  <2>4. MayBind(session[t]) => MayBind(session[t])'
    BY <2>2, <2>3 DEF MayBind, Unused
  <2> QED BY <1>0, <2>2, <2>3, <2>4 DEF Facts, Confirmed
<1>3. CASE Tick
  <2>1. UNCHANGED <<user, link, receipt, session, grants>> /\ now' = now + 1 /\ now \in Nat
        /\ session[t].at \in Nat
    BY <1>3, Typed DEF Tick, history, Shape, TypeOK, Session
  <2>2. MayBind(session[t]) => MayBind(session[t])'
    BY <2>1 DEF MayBind, Unused, ChatIsFree
  <2> QED BY <1>0, <2>1, <2>2 DEF Facts, Confirmed, ChatIsFree
<1>4. ASSUME NEW s \in Sessions, Acts(s) PROVE Facts(session[t])'
  <2>1. CASE t = s
    BY <1>4, <2>1 DEF Acts
  <2>2. CASE t # s
    <3>1. session'[t] = session[t]
      BY <1>4, <2>2 DEF Acts, Moves
    <3>2. SameTables \/ AnswerFromReceipt(s) => SameRows
      BY DEF SameTables, AnswerFromReceipt, SameRows
    <3> QED BY <1>0, <1>4, <2>2, <3>1, <3>2, SameFacts, OthersAfterLink, OthersAfterUpdate
           DEF Acts
  <2> QED BY <2>1, <2>2
<1> QED BY <1>1, <1>2, <1>3, <1>4, Steps

LEMMA SessionsNext ==
    ASSUME Shape, [Next]_vars
    PROVE  session' \in [Sessions -> Session] /\ Exclusive'
<1>0. session \in [Sessions -> Session] /\ Exclusive
  BY DEF Shape, TypeOK
<1>1. CASE session' = session
  BY <1>0, <1>1 DEF Exclusive
<1>2. ASSUME NEW s \in Sessions, Acts(s)
      PROVE  session' \in [Sessions -> Session] /\ Exclusive'
  <2>1. session' \in [Sessions -> Session]
        /\ (\A t \in Sessions \ {s} : session'[t] = session[t])
        /\ (\A lock \in session'[s].locks : lock \in session[s].locks \/ Free(s, lock))
    BY <1>2 DEF Acts, Moves
  <2>2. ASSUME NEW t \in Sessions \ {s}, NEW a \in session'[s].locks, NEW b \in session[t].locks
        PROVE  ~Conflict(a, b) /\ ~Conflict(b, a)
    <3>1. Conflict(a, b) <=> Conflict(b, a)
      BY DEF Conflict
    <3>2. CASE a \in session[s].locks
      BY <1>0, <3>1, <3>2 DEF Exclusive
    <3>3. CASE Free(s, a)
      BY <3>1, <3>3 DEF Free, HeldBy
    <3> QED BY <2>1, <3>2, <3>3
  <2>3. Exclusive'
    BY <1>0, <2>1, <2>2 DEF Exclusive
  <2> QED BY <2>1, <2>3
<1> QED BY <1>1, <1>2, Steps DEF vars, Deactivate, Tick

\* What the tables are after each kind of step.
LEMMA TablesNext ==
    ASSUME Shape, [Next]_vars
    PROVE  /\ user' \in [Users -> [chat : Chats \cup {Null}, verified : BOOLEAN,
                                   active : BOOLEAN]]
           /\ receipt' \in [Ids -> Receipt \cup {Null}]
           /\ tickets' \in Seq([client : Users, update : Updates])
           /\ now' \in Nat
           /\ grants' \in Seq([user : Users, update : Updates])
           /\ answers' \in [Updates -> SUBSET Replies]
<1>0. /\ user \in [Users -> [chat : Chats \cup {Null}, verified : BOOLEAN, active : BOOLEAN]]
      /\ receipt \in [Ids -> Receipt \cup {Null}]
      /\ tickets \in Seq([client : Users, update : Updates])
      /\ now \in Nat
      /\ grants \in Seq([user : Users, update : Updates])
      /\ answers \in [Updates -> SUBSET Replies]
  BY DEF Shape, TypeOK
<1>1. CASE SameTables
  BY <1>0, <1>1 DEF SameTables
<1>2. ASSUME NEW u \in Users, Deactivate(u)
      PROVE  /\ user' \in [Users -> [chat : Chats \cup {Null}, verified : BOOLEAN,
                                     active : BOOLEAN]]
             /\ UNCHANGED <<receipt, tickets, now, grants, answers>>
  BY <1>0, <1>2 DEF Deactivate, history
<1>3. CASE Tick
  BY <1>0, <1>3 DEF Tick, history
<1>4. ASSUME NEW s \in Sessions, AnswerFromReceipt(s)
      PROVE  /\ answers' \in [Updates -> SUBSET Replies]
             /\ UNCHANGED <<user, receipt, tickets, now, grants>>
  <2>1. session[s].update \in Updates /\ session[s].update.id \in Ids
    BY <1>4, Typed DEF AnswerFromReceipt, CanGo, Shape, Facts
  <2>2. Stored(s) \in Receipt
    BY <1>0, <1>4, <2>1 DEF AnswerFromReceipt, Stored
  <2>3. Stored(s).reply \in Replies /\ "conflict" \in Replies
    BY <2>2 DEF Receipt, Replies
  <2> QED BY <1>0, <1>4, <2>1, <2>3 DEF AnswerFromReceipt, Answered
<1>5. ASSUME NEW s \in Sessions, CommitLink(s)
      PROVE  UNCHANGED <<user, receipt, tickets, now, grants, answers>>
  BY <1>5 DEF CommitLink
<1>6. ASSUME NEW s \in Sessions, CommitUpdate(s)
      PROVE  /\ user' \in [Users -> [chat : Chats \cup {Null}, verified : BOOLEAN,
                                     active : BOOLEAN]]
             /\ receipt' \in [Ids -> Receipt \cup {Null}]
             /\ tickets' \in Seq([client : Users, update : Updates])
             /\ now' \in Nat
             /\ grants' \in Seq([user : Users, update : Updates])
             /\ answers' \in [Updates -> SUBSET Replies]
  <2>1. session[s].update \in Updates /\ session[s].update.id \in Ids
        /\ session[s].reply \in {"accepted", "rejected"} /\ session[s].update.chat \in Chats
        /\ now' = now
    BY <1>6, CommitStep, Typed DEF Shape
  <2>2. receipt' \in [Ids -> Receipt \cup {Null}]
    <3>1. [update |-> session[s].update, reply |-> session[s].reply] \in Receipt
      BY <2>1 DEF Receipt, Replies
    <3>2. receipt' = [receipt EXCEPT ![session[s].update.id] =
              [update |-> session[s].update, reply |-> session[s].reply]]
      BY <1>6, CommitStep
    <3> QED BY <1>0, <3>1, <3>2
  <2>3. answers' \in [Updates -> SUBSET Replies]
    <3>1. answers' = [answers EXCEPT ![session[s].update] = @ \cup {session[s].reply}]
      BY <1>6, CommitStep
    <3> QED BY <1>0, <2>1, <3>1 DEF Replies
  <2>4. CASE Binding(s)
    BY <1>0, <2>1, <2>2, <2>3, <2>4, GrantAppended DEF Binding, MayBind
  <2>5. CASE NoBinding(s)
    <3>1. tickets' \in Seq([client : Users, update : Updates])
      <4> DEFINE S == [client : Users, update : Updates]
      <4>1. tickets \in Seq(S)
        BY <1>0
      <4>2. session[s].owner \in Users => Ticket(s) \in S
        BY <2>1 DEF Ticket
      <4>3. tickets' = tickets
            \/ (session[s].owner \in Users /\ tickets' = Append(tickets, Ticket(s)))
        BY <2>5 DEF NoBinding
      <4> HIDE DEF S
      <4>4. tickets' \in Seq(S)
        BY <4>1, <4>2, <4>3
      <4> QED BY <4>4 DEF S
    <3> QED BY <1>0, <2>1, <2>2, <2>3, <2>5, <3>1 DEF NoBinding
  <2> QED BY <1>6, <2>4, <2>5, CommitStep
<1>7. UNCHANGED vars => SameTables
  BY DEF vars, SameTables
<1> QED BY <1>0, <1>1, <1>2, <1>3, <1>4, <1>5, <1>6, <1>7, Steps DEF Acts

\* A session that starts to issue a code makes sure of a number for it.
LEMMA IssuingNext ==
    ASSUME Shape, [Next]_vars
    PROVE  Issuing' \subseteq Issuing
           \/ \E s \in Sessions : /\ Issuing' \subseteq Issuing \cup {s}
                                  /\ Len(issued) + Cardinality(Issuing) < MaxCodes
<1>0. session \in [Sessions -> Session]
  BY DEF Shape, TypeOK
<1>1. CASE session' = session
  BY <1>1 DEF Issuing, Issues
<1>2. ASSUME NEW s \in Sessions, NEW u \in Users, AskForLink(s, u)
      PROVE  /\ Issuing' \subseteq Issuing \cup {s}
             /\ Len(issued) + Cardinality(Issuing) < MaxCodes
  <2>1. Len(issued) + Cardinality(Issuing) < MaxCodes
    BY <1>2 DEF AskForLink, Issuing
  <2>2. \A t \in Sessions \ {s} : session'[t] = session[t]
    BY <1>2, AskStep DEF Moves
  <2> QED BY <2>1, <2>2 DEF Issuing, Issues
<1>3. ASSUME NEW s \in Sessions, Moves(s), Issues(s)' => Issues(s)
      PROVE  Issuing' \subseteq Issuing
  BY <1>3 DEF Moves, Issuing, Issues
<1>4. ASSUME NEW s \in Sessions, NEW update \in Updates, ReceiveUpdate(s, update)
      PROVE  Moves(s) /\ ~Issues(s)'
  <2>1. session'[s] = [Idle EXCEPT !.phase = "received", !.update = update]
    BY <1>0, <1>4 DEF ReceiveUpdate
  <2> QED BY <1>4, <2>1, ReceiveStep DEF Issues, Idle
<1>5. ASSUME NEW s \in Sessions, Work(s) PROVE Moves(s) /\ (Issues(s)' => Issues(s))
  <2>1. Moves(s)
    BY <1>5, RefreshUserStep, ApplyStep, FindLinkStep, LockChatStep, LockFirstStep,
       LockSecondStep, FindClientStep, FlushStep, ReleaseSteps, Released DEF Work
  <2>2. CASE Release(s)
    BY <2>2, Released DEF Issues, Idle
  <2>3. CASE RefreshUser(s)
    <3>1. session[s].phase = "asked"
      BY <2>3 DEF RefreshUser, CanGo
    <3> QED BY <2>1, <3>1 DEF Issues
  <2>4. CASE ~RefreshUser(s) /\ ~Release(s)
    <3>1. ASSUME NEW to \in {"applying", "chat", "half"}, Turn(s, to) PROVE ~Issues(s)'
      BY <1>0, <3>1 DEF Turn, Issues
    <3>2. ASSUME NEW reply, Finish(s, reply) PROVE ~Issues(s)'
      BY <1>0, <3>2 DEF Finish, Issues
    <3>3. FindLink(s) => ~Issues(s)'
      BY <1>0, <3>2 DEF FindLink, Issues, Session
    <3>4. FindClient(s) => ~Issues(s)'
      BY <1>0, <3>2 DEF FindClient, Issues, Session
    <3>5. LockSecond(s) => ~Issues(s)'
      BY <1>0 DEF LockSecond, Issues
    <3>6. ApplyUpdate(s) \/ LockChat(s) \/ LockFirst(s) \/ FlushTicket(s) => ~Issues(s)'
      BY <3>1, <3>2 DEF ApplyUpdate, LockChat, LockFirst, FlushTicket
    <3> QED BY <1>5, <2>1, <2>4, <3>3, <3>4, <3>5, <3>6, ReleaseSteps DEF Work
  <2> QED BY <2>1, <2>2, <2>3, <2>4
<1>6. ASSUME NEW s \in Sessions, Abort(s) PROVE Moves(s) /\ ~Issues(s)'
  BY <1>6, ReleaseSteps, Released DEF Issues, Idle
<1> QED BY <1>1, <1>2, <1>3, <1>4, <1>5, <1>6 DEF Next, vars, Deactivate, Tick

LEMMA CodesFit ==
    ASSUME Shape, [Next]_vars
    PROVE  /\ issued' \in Seq(Users)
           /\ Len(issued') + Cardinality(Issuing)' <= MaxCodes
           /\ Len(issued') <= MaxCodes
           /\ link' \in [Users -> [code : 0..MaxCodes, expires_at : Nat]]
<1>0. /\ issued \in Seq(Users) /\ Len(issued) \in Nat /\ MaxCodes \in Nat /\ TTL \in Nat
      /\ link \in [Users -> [code : 0..MaxCodes, expires_at : Nat]] /\ now \in Nat
      /\ Len(issued) + Cardinality(Issuing) <= MaxCodes
  BY BoundAssumption DEF Shape, TypeOK
<1>1. /\ IsFiniteSet(Issuing) /\ IsFiniteSet(Issuing')
      /\ Cardinality(Issuing) \in Nat /\ Cardinality(Issuing') \in Nat
  <2>1. Issuing \subseteq Sessions /\ Issuing' \subseteq Sessions
    BY DEF Issuing
  <2> QED BY <2>1, SessionAssumption, FS_Subset, FS_CardinalityType
<1>2. CASE issued' = issued /\ link' = link
  <2>1. CASE Issuing' \subseteq Issuing
    <3>1. Cardinality(Issuing') <= Cardinality(Issuing)
      BY <1>1, <2>1, FS_Subset
    <3> QED BY <1>0, <1>1, <1>2, <3>1
  <2>2. ASSUME NEW s \in Sessions, Issuing' \subseteq Issuing \cup {s},
               Len(issued) + Cardinality(Issuing) < MaxCodes
        PROVE  Len(issued) + Cardinality(Issuing') <= MaxCodes
    <3>1. IsFiniteSet(Issuing \cup {s})
          /\ Cardinality(Issuing \cup {s}) \in {Cardinality(Issuing), Cardinality(Issuing) + 1}
      BY <1>1, FS_AddElement
    <3>2. Cardinality(Issuing') <= Cardinality(Issuing \cup {s})
      BY <2>2, <3>1, FS_Subset
    <3> QED BY <1>0, <1>1, <2>2, <3>1, <3>2
  <2>3. Len(issued') + Cardinality(Issuing') <= MaxCodes
    BY <1>2, <2>1, <2>2, IssuingNext
  <2> QED BY <1>0, <1>1, <1>2, <2>3
<1>3. ASSUME NEW s \in Sessions, CommitLink(s), Acts(s)
      PROVE  /\ issued' \in Seq(Users)
             /\ Len(issued') + Cardinality(Issuing') <= MaxCodes
             /\ link' \in [Users -> [code : 0..MaxCodes, expires_at : Nat]]
  <2>1. session[s].phase = "refreshed" /\ session[s].owner \in Users
    BY <1>3 DEF CommitLink, CanGo, Shape, Facts
  <2>2. issued' = Append(issued, session[s].owner)
        /\ link' = [link EXCEPT ![session[s].owner] =
               [code |-> Len(issued) + 1, expires_at |-> now + TTL]]
    BY <1>3 DEF CommitLink
  <2>3. session'[s].phase = "idle"
    BY <1>3, ReleaseSteps, Released DEF Idle
  <2>4. Issuing' = Issuing \ {s} /\ s \in Issuing
    BY <1>3, <2>1, <2>3 DEF Acts, Moves, Issuing, Issues
  <2>5. Cardinality(Issuing \ {s}) = Cardinality(Issuing) - 1
    BY <1>1, <2>4, FS_RemoveElement
  <2>6. issued' \in Seq(Users) /\ Len(issued') = Len(issued) + 1
    BY <1>0, <2>1, <2>2
  <2>7. Len(issued) + 1 \in 0..MaxCodes
    BY <1>0, <1>1, <2>4, <2>5
  <2>9. [code |-> Len(issued) + 1, expires_at |-> now + TTL]
            \in [code : 0..MaxCodes, expires_at : Nat]
    BY <1>0, <2>7
  <2>8. link' \in [Users -> [code : 0..MaxCodes, expires_at : Nat]]
    BY <1>0, <2>2, <2>9
  <2> QED BY <1>0, <1>1, <2>4, <2>5, <2>6, <2>8
<1>4. ASSUME NEW s \in Sessions, CommitUpdate(s), Acts(s)
      PROVE  issued' = issued /\ link' \in [Users -> [code : 0..MaxCodes, expires_at : Nat]]
  <2>1. issued' = issued /\ (Binding(s) \/ NoBinding(s))
    BY <1>4, CommitStep
  <2>2. ASSUME Binding(s)
        PROVE  link' \in [Users -> [code : 0..MaxCodes, expires_at : Nat]]
    <3>1. link' = [link EXCEPT ![session[s].owner].expires_at = session[s].at]
          /\ session[s].at \in Nat
      BY <2>2 DEF Binding
    <3> QED BY <1>0, <3>1
  <2> QED BY <1>0, <2>1, <2>2 DEF NoBinding
<1>5. ASSUME NEW s \in Sessions, CommitUpdate(s), Acts(s)
      PROVE  Len(issued') + Cardinality(Issuing') <= MaxCodes
  <2>1. session'[s].phase = "idle"
    BY <1>5, ReleaseSteps, Released DEF Idle
  <2>2. Issuing' \subseteq Issuing
    BY <1>5, <2>1 DEF Acts, Moves, Issuing, Issues
  <2>3. Cardinality(Issuing') <= Cardinality(Issuing)
    BY <1>1, <2>2, FS_Subset
  <2> QED BY <1>0, <1>1, <1>4, <1>5, <2>3
<1>6. \/ issued' = issued /\ link' = link
      \/ \E s \in Sessions : Acts(s) /\ (CommitLink(s) \/ CommitUpdate(s))
  BY Steps DEF vars, Deactivate, Tick, history, Acts, SameTables, AnswerFromReceipt
<1>7. Len(issued') + Cardinality(Issuing') <= MaxCodes /\ issued' \in Seq(Users)
      /\ link' \in [Users -> [code : 0..MaxCodes, expires_at : Nat]]
  BY <1>0, <1>2, <1>3, <1>4, <1>5, <1>6
<1> QED BY <1>0, <1>1, <1>7

\* The numbers of the codes, and what was spent, survive each step.
LEMMA CodesNext ==
    ASSUME Shape, [Next]_vars, NEW u \in Users
    PROVE  CodesOK(u)'
<1>0. /\ issued \in Seq(Users) /\ Len(issued) \in Nat /\ CodesOK(u)
      /\ link \in [Users -> [code : 0..MaxCodes, expires_at : Nat]]
  BY DEF Shape, TypeOK
<1>1. CASE issued' = issued /\ link'[u].code = link[u].code
  BY <1>0, <1>1 DEF CodesOK
<1>2. ASSUME NEW s \in Sessions, CommitLink(s) PROVE CodesOK(u)'
  <2>1. issued' = Append(issued, session[s].owner) /\ session[s].owner \in Users
        /\ link' = [link EXCEPT ![session[s].owner] =
               [code |-> Len(issued) + 1, expires_at |-> now + TTL]]
    BY <1>2 DEF CommitLink, CanGo, Shape, Facts
  <2>2. Len(issued') = Len(issued) + 1 /\ issued'[Len(issued) + 1] = session[s].owner
        /\ (\A k \in 1..Len(issued) : issued'[k] = issued[k])
    BY <1>0, <2>1
  <2>3. CASE u = session[s].owner
    <3>1. link'[u].code = Len(issued) + 1
      BY <1>0, <2>1, <2>3
    <3> QED BY <1>0, <2>2, <2>3, <3>1 DEF CodesOK
  <2>4. CASE u # session[s].owner
    <3>1. link'[u] = link[u]
      BY <1>0, <2>1, <2>4
    <3>2. \A k \in 1..Len(issued') : issued'[k] = u => k \in 1..Len(issued) /\ issued[k] = u
      BY <1>0, <2>2, <2>4
    <3>3. link[u].code # 0 => link[u].code \in 1..Len(issued') /\ issued'[link[u].code] = u
      BY <1>0, <2>2 DEF CodesOK
    <3>4. \A k \in 1..Len(issued') : issued'[k] = u => k <= link[u].code
      BY <1>0, <3>2 DEF CodesOK
    <3> QED BY <3>1, <3>3, <3>4 DEF CodesOK
  <2> QED BY <2>3, <2>4
<1>3. ASSUME NEW s \in Sessions, CommitUpdate(s)
      PROVE  issued' = issued /\ link'[u].code = link[u].code
  <2>1. issued' = issued /\ (Binding(s) \/ NoBinding(s))
    BY <1>3, CommitStep
  <2>2. Binding(s) => link'[u].code = link[u].code
    BY <1>0 DEF Binding
  <2> QED BY <2>1, <2>2 DEF NoBinding
<1>4. \/ issued' = issued /\ link' = link
      \/ \E s \in Sessions : CommitLink(s) \/ CommitUpdate(s)
  BY Steps DEF vars, Deactivate, Tick, history, Acts, SameTables, AnswerFromReceipt
<1> QED BY <1>1, <1>2, <1>3, <1>4

LEMMA GrantsNext ==
    ASSUME Shape, [Next]_vars, NEW i \in 1..Len(grants')
    PROVE  GrantOK(i)'
<1>0. /\ issued \in Seq(Users) /\ Len(issued) \in Nat /\ now \in Nat
      /\ link \in [Users -> [code : 0..MaxCodes, expires_at : Nat]]
      /\ grants \in Seq([user : Users, update : Updates])
  BY DEF Shape, TypeOK
<1>1. ASSUME i \in 1..Len(grants)
      PROVE  GrantOK(i) /\ grants[i].user \in Users
  <2> DEFINE S == [user : Users, update : Updates]
  <2>1. grants \in Seq(S) /\ \A g \in S : g.user \in Users
    BY <1>0
  <2> HIDE DEF S
  <2>2. grants[i] \in S
    BY <1>1, <2>1
  <2> QED BY <1>1, <2>1, <2>2 DEF Shape
<1>2. CASE UNCHANGED <<grants, issued, link>> /\ (now' = now \/ now' = now + 1)
  BY <1>0, <1>1, <1>2 DEF GrantOK
<1>3. ASSUME NEW s \in Sessions, CommitLink(s) PROVE GrantOK(i)'
  <2>1. issued' = Append(issued, session[s].owner) /\ session[s].owner \in Users
        /\ link' = [link EXCEPT ![session[s].owner] =
               [code |-> Len(issued) + 1, expires_at |-> now + TTL]]
        /\ grants' = grants /\ now' = now
    BY <1>3 DEF CommitLink, CanGo, Shape, Facts
  <2>2. Len(issued') = Len(issued) + 1
        /\ (\A k \in 1..Len(issued) : issued'[k] = issued[k])
    BY <1>0, <2>1
  <2>3. GrantOK(i) /\ grants[i].user \in Users /\ grants[i].update.code \in 1..Len(issued)
    BY <1>1, <2>1 DEF GrantOK
  <2>4. link'[grants[i].user].code = grants[i].update.code
            => link'[grants[i].user] = link[grants[i].user]
    BY <1>0, <2>1, <2>3
  <2>5. grants'[i].update.code \in 1..Len(issued')
        /\ issued'[grants'[i].update.code] = grants'[i].user
    <3> DEFINE c == grants[i].update.code
    <3>1. c \in 1..Len(issued) /\ issued[c] = grants[i].user
      BY <2>3 DEF GrantOK
    <3>2. grants'[i].update.code = c /\ grants'[i].user = grants[i].user
      BY <2>1
    <3> HIDE DEF c
    <3>3. c \in 1..Len(issued') /\ issued'[c] = issued[c]
      <4>1. Len(issued) \in Nat
        BY <1>0
      <4> QED BY <2>2, <3>1, <4>1
    <3> QED BY <3>1, <3>2, <3>3
  <2> QED BY <2>1, <2>3, <2>4, <2>5 DEF GrantOK
<1>4. ASSUME NEW s \in Sessions, CommitUpdate(s) PROVE GrantOK(i)'
  <2>1. issued' = issued /\ now' = now /\ (Binding(s) \/ NoBinding(s))
    BY <1>4, CommitStep
  <2>2. CASE NoBinding(s)
    BY <1>1, <2>1, <2>2 DEF NoBinding, GrantOK
  <2>3. CASE Binding(s)
    <3>1. /\ session[s].owner \in Users /\ session[s].at <= now /\ session[s].at \in Nat
          /\ session[s].update.code # 0
          /\ link[session[s].owner].code = session[s].update.code
          /\ link' = [link EXCEPT ![session[s].owner].expires_at = session[s].at]
      BY <2>3 DEF Binding, MayBind
    <3>2. \A v \in Users : link'[v].code = link[v].code
      BY <1>0, <3>1
    <3>3. \A v \in Users \ {session[s].owner} : link'[v] = link[v]
      BY <1>0, <3>1
    <3>4. link'[session[s].owner].expires_at <= now
      BY <1>0, <3>1
    <3>5. CASE i \in 1..Len(grants)
      <4>1. grants'[i] = grants[i]
        BY <2>3, <3>5, GrantAppended
      <4> QED BY <1>1, <2>1, <3>2, <3>3, <3>4, <3>5, <4>1 DEF GrantOK
    <3>6. CASE i = Len(grants) + 1
      <4>1. grants'[i].user = session[s].owner /\ grants'[i].update = session[s].update
        BY <2>3, <3>6, GrantAppended
      <4>2. CodesOK(session[s].owner)
        BY <3>1 DEF Shape
      <4> QED BY <2>1, <3>1, <3>4, <4>1, <4>2 DEF GrantOK, CodesOK
    <3>7. i \in 1..Len(grants) \/ i = Len(grants) + 1
      BY <2>3, GrantAppended
    <3> QED BY <3>5, <3>6, <3>7
  <2> QED BY <2>1, <2>2, <2>3
<1>5. \/ UNCHANGED <<grants, issued, link>> /\ (now' = now \/ now' = now + 1)
      \/ \E s \in Sessions : CommitLink(s) \/ CommitUpdate(s)
  BY Steps DEF vars, Deactivate, Tick, history, Acts, SameTables, AnswerFromReceipt
<1> QED BY <1>2, <1>3, <1>4, <1>5

LEMMA VerifiedNext ==
    ASSUME Shape, [Next]_vars, NEW u \in Users, user'[u].verified
    PROVE  Confirmed(u, user[u].chat)'
<1>0. user \in [Users -> [chat : Chats \cup {Null}, verified : BOOLEAN, active : BOOLEAN]]
  BY DEF Shape, TypeOK
<1>1. CASE /\ user'[u].verified = user[u].verified /\ user'[u].chat = user[u].chat
           /\ grants' = grants
  BY <1>1 DEF Shape, Confirmed
<1>2. ASSUME NEW v \in Users, Deactivate(v)
      PROVE  /\ user'[u].verified = user[u].verified /\ user'[u].chat = user[u].chat
             /\ grants' = grants
  BY <1>0, <1>2 DEF Deactivate, history
<1>3. ASSUME NEW s \in Sessions, CommitUpdate(s), Binding(s)
      PROVE  Confirmed(u, user[u].chat)'
  <2>1. CASE u = session[s].owner
    <3>1. user'[u].chat = session[s].update.chat
      BY <1>0, <1>3, <2>1 DEF Binding
    <3>2. Len(grants) + 1 \in 1..Len(grants') /\ grants'[Len(grants) + 1] = Grant(s)
      BY <1>3, GrantAppended
    <3> QED BY <2>1, <3>1, <3>2 DEF Confirmed, Grant
  <2>2. CASE u # session[s].owner
    <3>1. user'[u] = user[u]
      BY <1>0, <1>3, <2>2 DEF Binding
    <3>2. PICK j \in 1..Len(grants) : /\ grants[j].user = u
                                      /\ grants[j].update.chat = user[u].chat
      BY <3>1 DEF Shape, Confirmed
    <3>3. j \in 1..Len(grants') /\ grants'[j] = grants[j]
      BY <1>3, GrantAppended
    <3> QED BY <3>1, <3>2, <3>3 DEF Confirmed
  <2> QED BY <2>1, <2>2
<1>4. \/ UNCHANGED <<user, grants>>
      \/ \E v \in Users : Deactivate(v)
      \/ \E s \in Sessions : CommitUpdate(s) /\ Binding(s)
  BY Steps, CommitStep
     DEF vars, Tick, history, Acts, SameTables, AnswerFromReceipt, CommitLink, NoBinding
<1> QED BY <1>1, <1>2, <1>3, <1>4

LEMMA ShapeInvariant == Spec => []Shape
<1>1. Init => Shape
  <2> SUFFICES ASSUME Init PROVE Shape
    OBVIOUS
  <2>1. Idle \in Session /\ Idle.phase = "idle" /\ Idle.locks = {}
    BY DEF Idle, Session
  <2>2. \A s \in Sessions : session[s] = Idle
    BY DEF Init
  <2>3. issued = <<>> /\ grants = <<>> /\ tickets = <<>> /\ now = 0
        /\ \A u \in Users : link[u].code = 0 /\ ~user[u].verified
    BY DEF Init
  <2>4. Issuing = {}
    BY <2>1, <2>2 DEF Issuing, Issues
  <2>5. Cardinality(Issuing) = 0 /\ Len(issued) = 0 /\ Len(grants) = 0
    BY <2>3, <2>4, FS_EmptySet
  <2>6. TypeOK
    BY <2>1, <2>3, LegacyAssumption, BoundAssumption DEF Init, TypeOK
  <2>7. \A s \in Sessions : Facts(session[s])
    BY <2>1, <2>2 DEF Facts
  <2>8. Exclusive
    BY <2>1, <2>2 DEF Exclusive
  <2>9. \A u \in Users : CodesOK(u)
    BY <2>3, <2>5 DEF CodesOK
  <2> QED BY <2>3, <2>5, <2>6, <2>7, <2>8, <2>9, BoundAssumption DEF Shape
<1>2. Shape /\ [Next]_vars => Shape'
  <2> SUFFICES ASSUME Shape, [Next]_vars PROVE Shape'
    OBVIOUS
  <2>1. TypeOK'
    BY SessionsNext, TablesNext, CodesFit DEF TypeOK
  <2>2. (Len(issued) + Cardinality(Issuing) <= MaxCodes)'
    BY CodesFit
  <2> QED BY <2>1, <2>2, SessionsNext, FactsNext, CodesNext, GrantsNext, VerifiedNext DEF Shape
<1> QED BY <1>1, <1>2, PTL DEF Spec

-----------------------------------------------------------------------------
(* What follows *)

\* Every reachable state has the declared types, and codes stay within the bound.
THEOREM TypeCorrect == Spec => []TypeOK
<1>1. Shape => TypeOK
  BY DEF Shape
<1> QED BY <1>1, ShapeInvariant, PTL

\* The advisory locks on update and chat make both unique keys a mere safety net.
THEOREM KeysDoNotCollide == Spec => []KeysNeverCollide
<1>1. Shape => KeysNeverCollide
  BY DEF Shape, Facts, KeysNeverCollide, Stored, Writes, MayBind, ChatIsFree
<1> QED BY <1>1, ShapeInvariant, PTL

\* What binds is a code of the very user, the newest one, not spent before.
THEOREM NewestCodesBind == Spec => NewestCodeBinds
<1>1. Shape /\ [Next]_vars =>
          [\A u \in Users :
              <<user'[u].chat, user'[u].verified>> # <<user[u].chat, user[u].verified>> =>
                  LET code == grants'[Len(grants')].update.code
                  IN  /\ issued[code] = u
                      /\ \A later \in code + 1 .. Len(issued) : issued[later] # u]_vars
  <2> SUFFICES ASSUME Shape, [Next]_vars, NEW u \in Users,
                      <<user'[u].chat, user'[u].verified>> # <<user[u].chat, user[u].verified>>
               PROVE  LET code == grants'[Len(grants')].update.code
                      IN  /\ issued[code] = u
                          /\ \A later \in code + 1 .. Len(issued) : issued[later] # u
    OBVIOUS
  <2>0. user \in [Users -> [chat : Chats \cup {Null}, verified : BOOLEAN, active : BOOLEAN]]
        /\ Len(issued) \in Nat
    BY DEF Shape, TypeOK
  <2>1. ~(\E v \in Users : Deactivate(v))
    <3> SUFFICES ASSUME NEW v \in Users, Deactivate(v) PROVE FALSE
      OBVIOUS
    <3>1. user'[u].chat = user[u].chat /\ user'[u].verified = user[u].verified
      BY <2>0 DEF Deactivate
    <3> QED BY <3>1
  <2>2. PICK s \in Sessions : CommitUpdate(s)
    BY <2>1, Steps DEF vars, Tick, Acts, SameTables, AnswerFromReceipt, CommitLink
  <2>3. Binding(s)
    BY <2>2, CommitStep DEF NoBinding
  <2>4. u = session[s].owner
    BY <2>0, <2>3 DEF Binding
  <2>5. grants'[Len(grants')].update.code = link[u].code /\ link[u].code # 0
    <3>1. session[s].update.code = link[u].code /\ link[u].code # 0
      BY <2>3, <2>4 DEF Binding, MayBind
    <3>2. grants'[Len(grants')].update = session[s].update
      BY <2>3, GrantAppended
    <3> QED BY <3>1, <3>2
  <2>6. CodesOK(u)
    BY DEF Shape
  <2> QED BY <2>0, <2>5, <2>6 DEF CodesOK
<1> QED BY <1>1, ShapeInvariant, PTL DEF Spec, NewestCodeBinds

LEMMA OnceNext == Shape /\ CodeUsedOnce /\ [Next]_vars => CodeUsedOnce'
<1> SUFFICES ASSUME Shape, CodeUsedOnce, [Next]_vars PROVE CodeUsedOnce'
  OBVIOUS
<1>1. CASE grants' = grants
  BY <1>1 DEF CodeUsedOnce
<1>2. ASSUME NEW s \in Sessions, Binding(s) PROVE CodeUsedOnce'
  <2>1. Unused(session[s].update.code)
    BY <1>2 DEF Binding, MayBind
  <2>2. \A i \in 1..Len(grants') :
            \/ (i \in 1..Len(grants) /\ grants'[i] = grants[i])
            \/ (i = Len(grants) + 1 /\ grants'[i].update = session[s].update)
    <3> SUFFICES ASSUME NEW i \in 1..Len(grants')
                 PROVE  \/ (i \in 1..Len(grants) /\ grants'[i] = grants[i])
                        \/ (i = Len(grants) + 1 /\ grants'[i].update = session[s].update)
      OBVIOUS
    <3>1. i \in 1..Len(grants) \/ i = Len(grants) + 1
      BY <1>2, GrantAppended
    <3> QED BY <1>2, <3>1, GrantAppended
  <2> QED BY <2>1, <2>2 DEF CodeUsedOnce, Unused
<1>3. grants' = grants \/ \E s \in Sessions : Binding(s)
  BY Steps, CommitStep
     DEF vars, Tick, Deactivate, history, Acts, SameTables, AnswerFromReceipt, CommitLink,
         NoBinding
<1> QED BY <1>1, <1>2, <1>3

\* However many sessions found the code before one of them committed.
THEOREM CodesAreUsedOnce == Spec => []CodeUsedOnce
<1>1. Init => CodeUsedOnce
  BY DEF Init, CodeUsedOnce
<1> QED BY <1>1, OnceNext, ShapeInvariant, PTL DEF Spec

LEMMA AnswersNext == Shape /\ AnswersAreFinal /\ [Next]_vars => AnswersAreFinal'
<1> SUFFICES ASSUME Shape, AnswersAreFinal, [Next]_vars PROVE AnswersAreFinal'
  OBVIOUS
<1>0. /\ answers \in [Updates -> SUBSET Replies] /\ receipt \in [Ids -> Receipt \cup {Null}]
      /\ \A update \in Updates : update.id \in Ids
  BY DEF Shape, TypeOK, Ids
<1>1. CASE UNCHANGED <<answers, receipt>>
  BY <1>1 DEF AnswersAreFinal
<1>2. ASSUME NEW s \in Sessions, AnswerFromReceipt(s) PROVE AnswersAreFinal'
  BY <1>0, <1>2
     DEF AnswerFromReceipt, CanGo, Answered, Stored, SameContent, AnswersAreFinal, Shape, Facts
<1>3. ASSUME NEW s \in Sessions, CommitUpdate(s) PROVE AnswersAreFinal'
  <2> DEFINE new == [update |-> session[s].update, reply |-> session[s].reply]
  <2>1. /\ session[s].update \in Updates /\ session[s].update.id \in Ids
        /\ session[s].reply \in {"accepted", "rejected"}
        /\ receipt[session[s].update.id] = Null
        /\ receipt' = [receipt EXCEPT ![session[s].update.id] = new]
        /\ answers' = [answers EXCEPT ![session[s].update] = @ \cup {session[s].reply}]
    BY <1>3, CommitStep
  <2>2. new # Null /\ new.update = session[s].update /\ new.reply = session[s].reply
    BY <2>1, ReceiptAssumption DEF Receipt, Replies
  <2> HIDE DEF new
  <2>3. ASSUME NEW update \in Updates, NEW reply \in answers[update]
        PROVE  receipt'[update.id] = receipt[update.id]
    BY <1>0, <2>1, <2>3 DEF AnswersAreFinal
  <2>4. ASSUME NEW update \in Updates, NEW reply \in answers'[update]
        PROVE  \/ reply \in answers[update]
               \/ update = session[s].update /\ reply = session[s].reply
    BY <1>0, <2>1, <2>4
  <2>5. receipt'[session[s].update.id] = new
    BY <1>0, <2>1
  <2> QED BY <2>2, <2>3, <2>4, <2>5 DEF AnswersAreFinal
<1>4. \/ UNCHANGED <<answers, receipt>>
      \/ \E s \in Sessions : AnswerFromReceipt(s) \/ CommitUpdate(s)
  BY Steps DEF vars, Tick, Deactivate, history, Acts, SameTables, CommitLink
<1> QED BY <1>1, <1>2, <1>3, <1>4

\* Repeated, concurrent or lost on the way: an update has one answer.
THEOREM AnswersStay == Spec => []AnswersAreFinal
<1>1. Init => AnswersAreFinal
  BY DEF Init, AnswersAreFinal
<1> QED BY <1>1, AnswersNext, ShapeInvariant, PTL DEF Spec

LEMMA TicketsNext ==
    Shape /\ TicketsNeedAConfirmedChat /\ [Next]_vars => TicketsNeedAConfirmedChat'
<1> SUFFICES ASSUME Shape, TicketsNeedAConfirmedChat, [Next]_vars,
                    NEW i \in 1..Len(tickets')
             PROVE  Confirmed(tickets[i].client, tickets[i].update.chat)'
  BY DEF TicketsNeedAConfirmedChat, Confirmed
<1>0. tickets \in Seq([client : Users, update : Updates]) /\ Len(tickets) \in Nat
  BY DEF Shape, TypeOK
<1>1. ASSUME i \in 1..Len(tickets)
      PROVE  Confirmed(tickets[i].client, tickets[i].update.chat)
  BY <1>1 DEF TicketsNeedAConfirmedChat, Confirmed
<1>2. CASE UNCHANGED <<tickets, grants>>
  BY <1>1, <1>2 DEF Confirmed
<1>3. ASSUME NEW s \in Sessions, Binding(s)
      PROVE  Confirmed(tickets[i].client, tickets[i].update.chat)'
  <2>1. tickets' = tickets
    BY <1>3 DEF Binding
  <2>2. PICK j \in 1..Len(grants) : /\ grants[j].user = tickets[i].client
                                    /\ grants[j].update.chat = tickets[i].update.chat
    BY <1>1, <2>1 DEF Confirmed
  <2>3. j \in 1..Len(grants') /\ grants'[j] = grants[j]
    BY <1>3, GrantAppended
  <2> QED BY <2>1, <2>2, <2>3 DEF Confirmed
<1>4. ASSUME NEW s \in Sessions, NoBinding(s), tickets' # tickets, session[s].update \in Updates
      PROVE  Confirmed(tickets[i].client, tickets[i].update.chat)'
  <2> DEFINE S == [client : Users, update : Updates]
  <2>1. /\ session[s].owner \in Users /\ Confirmed(session[s].owner, session[s].update.chat)
        /\ tickets' = Append(tickets, Ticket(s)) /\ grants' = grants
    BY <1>4 DEF NoBinding
  <2>2. tickets \in Seq(S) /\ Ticket(s) \in S
    BY <1>0, <1>4, <2>1 DEF Ticket
  <2> HIDE DEF S
  <2>3. (i \in 1..Len(tickets) /\ tickets'[i] = tickets[i]) \/ tickets'[i] = Ticket(s)
    BY <1>0, <2>1, <2>2
  <2> QED BY <1>1, <2>1, <2>3 DEF Confirmed, Ticket
<1>5. \/ UNCHANGED <<tickets, grants>>
      \/ \E s \in Sessions : Binding(s)
      \/ \E s \in Sessions : NoBinding(s) /\ tickets' # tickets /\ session[s].update \in Updates
  BY Steps, CommitStep
     DEF vars, Tick, Deactivate, history, Acts, SameTables, AnswerFromReceipt, CommitLink,
         NoBinding
<1> QED BY <1>2, <1>3, <1>4, <1>5

\* A binding of the first schema never writes a ticket.
THEOREM TicketsHaveConfirmedChats == Spec => []TicketsNeedAConfirmedChat
<1>1. Init => TicketsNeedAConfirmedChat
  BY DEF Init, TicketsNeedAConfirmedChat
<1> QED BY <1>1, TicketsNext, ShapeInvariant, PTL DEF Spec

-----------------------------------------------------------------------------
(* Deadlock.  There is one order in which every session takes its locks:    *)
(* the update's, the chat's, the user's, the code's.                        *)

RankOf(lock) ==
    CASE lock[1] = "update" -> 1
      [] lock[1] = "chat"   -> 2
      [] lock[1] = "link"   -> 4
      [] OTHER              -> 3

\* The least rank of a lock that a session may need from this phase on.
NextRank(phase) ==
    CASE phase \in {"idle", "received"}         -> 1
      [] phase \in {"applying", "found"}        -> 2
      [] phase \in {"chat", "client", "asked"}  -> 3
      [] phase \in {"half", "refreshed"}        -> 4
      [] OTHER                                  -> 5

\* Whoever may need a lock holds lower ones only.
Ordered(q) == \A lock \in q.locks : RankOf(lock) < NextRank(q.phase)

InOrder == \A s \in Sessions : Ordered(session[s])

LEMMA RanksAreNumbers ==
    /\ \A lock : RankOf(lock) \in 1..4
    /\ \A phase : NextRank(phase) \in 1..5
BY DEF RankOf, NextRank

LEMMA RankWanted ==
    ASSUME Shape, NEW s \in Sessions, NEW lock \in Wants(s)
    PROVE  RankOf(lock) = NextRank(session[s].phase)
<1>1. session[s].phase \in {"idle", "received", "applying", "found", "chat", "half",
                            "client", "finished", "asked", "refreshed"}
  BY Typed DEF Session, Shape
<1> QED BY <1>1, WantsOf DEF RankOf, NextRank

\* Locks only stand in the way of others of their rank.
LEMMA ConflictsOfRank ==
    ASSUME NEW a, NEW b, Conflict(a, b)
    PROVE  RankOf(a) = RankOf(b)
<1>1. CASE a = b
  BY <1>1
<1>2. CASE {a[1], b[1]} = {"user", "share"}
  <2>1. a[1] \in {"user", "share"} /\ b[1] \in {"user", "share"}
    BY <1>2
  <2> QED BY <2>1 DEF RankOf
<1> QED BY <1>1, <1>2 DEF Conflict

\* A session that has got what it waited for needs higher locks from then on.
LEMMA OrderedTurn ==
    ASSUME Shape, NEW s \in Sessions, Ordered(session[s]),
           NEW phase, session'[s].phase = phase,
           session'[s].locks = session[s].locks \cup Wants(s),
           NextRank(session[s].phase) <= NextRank(phase),
           Wants(s) = {} \/ NextRank(session[s].phase) # NextRank(phase)
    PROVE  Ordered(session[s])'
<1>1. ASSUME NEW lock \in session'[s].locks
      PROVE  RankOf(lock) < NextRank(phase)
  <2>1. CASE lock \in session[s].locks
    BY <2>1, RanksAreNumbers DEF Ordered
  <2>2. CASE lock \in Wants(s)
    BY <2>2, RankWanted, RanksAreNumbers
  <2> QED BY <2>1, <2>2
<1> QED BY <1>1 DEF Ordered

LEMMA OrderedStart ==
    ASSUME Shape, NEW s \in Sessions, NEW new \in Session, new.locks = {},
           session' = [session EXCEPT ![s] = new]
    PROVE  Ordered(session[s])'
BY DEF Ordered, Shape, TypeOK

LEMMA OrderedFinish ==
    ASSUME Shape, NEW s \in Sessions, Ordered(session[s]), session[s].phase # "finished",
           NEW reply \in {"accepted", "rejected"}, Keeps(s, "finished", reply)
    PROVE  Ordered(session[s])'
<1>1. session[s].phase \in {"idle", "received", "applying", "found", "chat", "half",
                            "client", "asked", "refreshed"}
  BY Typed DEF Session, Shape
<1>2. NextRank(session[s].phase) < NextRank("finished")
  BY <1>1 DEF NextRank
<1> QED BY <1>2, OrderedTurn, RanksAreNumbers DEF Keeps, Becomes

\* It takes the locks of an update in order,
LEMMA OrderedUpdate ==
    ASSUME Shape, NEW s \in Sessions, Ordered(session[s]),
           \/ ApplyUpdate(s) \/ FindLink(s) \/ LockChat(s) \/ LockFirst(s)
           \/ LockSecond(s) \/ FindClient(s) \/ FlushTicket(s)
    PROVE  Ordered(session[s])'
<1>0. session \in [Sessions -> Session] /\ session[s] \in Session
  BY DEF Shape, TypeOK
<1>1. session[s].phase \in {"received", "applying", "found", "chat", "half", "client"}
      /\ (\A lock \in Wants(s) : Free(s, lock))
  BY WantsOf DEF ApplyUpdate, FindLink, LockChat, LockFirst, LockSecond, FindClient,
                 FlushTicket, CanGo
<1>2. ASSUME NEW reply \in {"accepted", "rejected"}, Finish(s, reply)
      PROVE  Ordered(session[s])'
  BY <1>1, <1>2, Finished, OrderedFinish
<1>3. ASSUME NEW from \in {"received", "found", "chat"}, NEW to \in {"applying", "chat", "half"},
             CanGo(s, from), Turn(s, to), NextRank(from) < NextRank(to)
      PROVE  Ordered(session[s])'
  <2>1. Keeps(s, to, session[s].reply) /\ session[s].phase = from
    BY <1>3, Turned DEF CanGo
  <2> QED BY <1>3, <2>1, OrderedTurn, RanksAreNumbers DEF Keeps, Becomes
<1>4. ASSUME NEW phase \in {"found", "client"}, NEW u \in Users, session[s].phase = "applying",
             session' = [session EXCEPT ![s] = [@ EXCEPT !.phase = phase, !.owner = u]]
      PROVE  Ordered(session[s])'
  <2>1. session'[s].phase = phase /\ session'[s].locks = session[s].locks
    BY <1>0, <1>4 DEF Session
  <2>2. NextRank("applying") <= NextRank(phase) /\ Wants(s) = {}
    BY <1>4, WantsOf DEF NextRank
  <2> QED BY <1>4, <2>1, <2>2, OrderedTurn
<1>5. CASE ApplyUpdate(s)
  BY <1>2, <1>3, <1>5 DEF ApplyUpdate, NextRank
<1>6. CASE FindLink(s)
  BY <1>2, <1>4, <1>6 DEF FindLink, LinksOf
<1>7. CASE LockChat(s)
  <2>1. NextRank("found") < NextRank("chat")
    BY DEF NextRank
  <2> QED BY <1>2, <1>3, <1>7, <2>1 DEF LockChat
<1>8. CASE LockFirst(s)
  <2>1. NextRank("chat") < NextRank("half")
    BY DEF NextRank
  <2> QED BY <1>3, <1>8, <2>1 DEF LockFirst
<1>9. CASE LockSecond(s)
  <2>1. session'[s].phase = "finished" /\ session'[s].locks = session[s].locks \cup Wants(s)
    BY <1>0, <1>9 DEF LockSecond, Session
  <2>2. session[s].phase = "half" /\ NextRank("half") < NextRank("finished")
    BY <1>9 DEF LockSecond, CanGo, NextRank
  <2> QED BY <2>1, <2>2, OrderedTurn, RanksAreNumbers
<1>10. CASE FindClient(s)
  BY <1>2, <1>4, <1>10 DEF FindClient, ClientsOf
<1>11. CASE FlushTicket(s)
  BY <1>2, <1>11 DEF FlushTicket
<1> QED BY <1>5, <1>6, <1>7, <1>8, <1>9, <1>10, <1>11

\* and those of issue_link in the same order.
LEMMA OrderedStep ==
    ASSUME Shape, NEW s \in Sessions, Ordered(session[s]),
           \/ \E u \in Users : AskForLink(s, u)
           \/ \E update \in Updates : ReceiveUpdate(s, update)
           \/ Work(s) \/ Abort(s)
    PROVE  Ordered(session[s])'
<1>1. ASSUME NEW u \in Users, AskForLink(s, u) PROVE Ordered(session[s])'
  <2> DEFINE new == [Idle EXCEPT !.phase = "asked", !.owner = u]
  <2>1. new \in Session /\ new.locks = {}
    BY DEF Idle, Session
  <2>2. session' = [session EXCEPT ![s] = new]
    BY <1>1 DEF AskForLink
  <2> QED BY <2>1, <2>2, OrderedStart
<1>2. ASSUME NEW update \in Updates, ReceiveUpdate(s, update) PROVE Ordered(session[s])'
  <2> DEFINE new == [Idle EXCEPT !.phase = "received", !.update = update]
  <2>1. new \in Session /\ new.locks = {}
    BY DEF Idle, Session
  <2>2. session' = [session EXCEPT ![s] = new]
    BY <1>2 DEF ReceiveUpdate
  <2> QED BY <2>1, <2>2, OrderedStart
<1>3. CASE Abort(s) \/ AnswerFromReceipt(s) \/ CommitLink(s) \/ CommitUpdate(s)
  <2>1. session'[s].locks = {}
    BY <1>3, ReleaseSteps, Released DEF Idle
  <2> QED BY <2>1 DEF Ordered
<1>4. CASE RefreshUser(s)
  <2>1. Keeps(s, "refreshed", session[s].reply) /\ session[s].phase = "asked"
    BY <1>4, Turned DEF RefreshUser, CanGo
  <2>2. NextRank("asked") < NextRank("refreshed")
    BY DEF NextRank
  <2> QED BY <2>1, <2>2, OrderedTurn, RanksAreNumbers DEF Keeps, Becomes
<1> QED BY <1>1, <1>2, <1>3, <1>4, OrderedUpdate DEF Work

\* The other sessions stay as they are.
LEMMA OnlyOneMoves ==
    ASSUME Shape, NEW s \in Sessions,
           \/ \E u \in Users : AskForLink(s, u)
           \/ \E update \in Updates : ReceiveUpdate(s, update)
           \/ Work(s) \/ Abort(s)
    PROVE  \A t \in Sessions \ {s} : session'[t] = session[t]
<1>1. session \in [Sessions -> Session]
  BY DEF Shape, TypeOK
<1> QED
  BY <1>1 DEF AskForLink, ReceiveUpdate, Work, Abort, RefreshUser, CommitLink, AnswerFromReceipt,
              ApplyUpdate, FindLink, LockChat, LockFirst, LockSecond, FindClient, FlushTicket,
              CommitUpdate, Turn, Finish, Release

LEMMA InOrderNext == Shape /\ InOrder /\ [Next]_vars => InOrder'
<1> SUFFICES ASSUME Shape, InOrder, [Next]_vars PROVE InOrder'
  OBVIOUS
<1>1. CASE session' = session
  BY <1>1 DEF InOrder, Ordered
<1>2. ASSUME NEW s \in Sessions,
             \/ \E u \in Users : AskForLink(s, u)
             \/ \E update \in Updates : ReceiveUpdate(s, update)
             \/ Work(s) \/ Abort(s)
      PROVE  InOrder'
  <2>1. Ordered(session[s])'
    BY <1>2, OrderedStep DEF InOrder
  <2>2. \A t \in Sessions \ {s} : session'[t] = session[t]
    BY <1>2, OnlyOneMoves
  <2>3. \A t \in Sessions \ {s} : Ordered(session[t])'
    BY <2>2 DEF InOrder, Ordered
  <2> QED BY <2>1, <2>3 DEF InOrder
<1> QED BY <1>1, <1>2 DEF Next, vars, Deactivate, Tick

\* In any set of sessions, one whose next lock is of the highest rank waits for
\* nobody in the set: they all hold lower ones.
LEMMA OrderPreventsCircles == Shape /\ InOrder => NoDeadlock
<1> SUFFICES ASSUME Shape, InOrder, NEW waiting \in (SUBSET Sessions) \ {{}}
             PROVE  \E s \in waiting : \A lock \in Wants(s) :
                        \A t \in waiting \ {s} : ~HeldBy(t, lock)
  BY DEF NoDeadlock
<1> DEFINE rank(s) == NextRank(session[s].phase)
<1>1. \E s \in waiting : \A t \in waiting : rank(t) <= rank(s)
  <2>1. \A s \in waiting : rank(s) \in 1..5
    BY RanksAreNumbers
  <2> HIDE DEF rank
  <2>2. CASE \E s \in waiting : rank(s) = 5
    BY <2>1, <2>2
  <2>3. CASE ~(\E s \in waiting : rank(s) = 5) /\ \E s \in waiting : rank(s) = 4
    BY <2>1, <2>3
  <2>4. CASE ~(\E s \in waiting : rank(s) \in {4, 5}) /\ \E s \in waiting : rank(s) = 3
    BY <2>1, <2>4
  <2>5. CASE ~(\E s \in waiting : rank(s) \in {3, 4, 5}) /\ \E s \in waiting : rank(s) = 2
    BY <2>1, <2>5
  <2>6. CASE \A s \in waiting : rank(s) = 1
    <3>0. waiting # {}
      OBVIOUS
    <3> PICK s \in waiting : TRUE
      BY <3>0
    <3>1. rank(s) = 1 /\ \A t \in waiting : rank(t) <= rank(s)
      BY <2>6, SMT
    <3> QED BY <3>1
  <2> QED BY <2>1, <2>2, <2>3, <2>4, <2>5, <2>6
<1> PICK s \in waiting : \A t \in waiting : rank(t) <= rank(s)
  BY <1>1
<1>2. ASSUME NEW lock \in Wants(s), NEW t \in waiting \ {s}, HeldBy(t, lock)
      PROVE  FALSE
  <2> PICK held \in session[t].locks : Conflict(lock, held)
    BY <1>2 DEF HeldBy
  <2>1. RankOf(held) = rank(s)
    BY RankWanted, ConflictsOfRank
  <2>2. RankOf(held) < rank(t)
    BY DEF InOrder, Ordered
  <2> QED BY <2>1, <2>2, RanksAreNumbers
<1> WITNESS s \in waiting
<1> QED BY <1>2

\* Whatever requests meet, the locks they hold and wait for never make a circle.
THEOREM LocksMakeNoCircle == Spec => []NoDeadlock
<1>1. Init => InOrder
  BY DEF Init, InOrder, Ordered, Idle
<1> QED BY <1>1, InOrderNext, OrderPreventsCircles, ShapeInvariant, PTL DEF Spec

-----------------------------------------------------------------------------
(* Effects *)

LEMMA EffectsAreFinite ==
    ASSUME NEW S, NEW effects \in Seq(S), NEW i
    PROVE  IsFiniteSet(EffectsOf(effects, i)) /\ Cardinality(EffectsOf(effects, i)) \in Nat
<1>1. IsFiniteSet(1..Len(effects))
  BY FS_Interval
<1>2. EffectsOf(effects, i) \in SUBSET (1..Len(effects))
  BY DEF EffectsOf
<1> QED BY <1>1, <1>2, FS_Subset, FS_CardinalityType

\* An effect more counts for the update it is of, and for no other.
LEMMA EffectsGrow ==
    ASSUME NEW S, NEW effects \in Seq(S), NEW effect \in S, NEW i,
           NEW more, more = Append(effects, effect)
    PROVE  Cardinality(EffectsOf(more, i)) =
               Cardinality(EffectsOf(effects, i)) + IF effect.update.id = i THEN 1 ELSE 0
<1>1. /\ Len(effects) \in Nat /\ Len(more) = Len(effects) + 1
      /\ more[Len(effects) + 1] = effect
      /\ \A n \in 1..Len(effects) : more[n] = effects[n]
  OBVIOUS
<1>2. CASE effect.update.id = i
  <2>1. EffectsOf(more, i) = EffectsOf(effects, i) \cup {Len(effects) + 1}
    BY <1>1, <1>2 DEF EffectsOf
  <2>2. Len(effects) + 1 \notin EffectsOf(effects, i)
    BY <1>1 DEF EffectsOf
  <2>3. IsFiniteSet(EffectsOf(effects, i))
    BY EffectsAreFinite
  <2>4. Cardinality(EffectsOf(effects, i) \cup {Len(effects) + 1}) =
            Cardinality(EffectsOf(effects, i)) + 1
    BY <2>2, <2>3, FS_AddElement
  <2> QED BY <1>2, <2>1, <2>4
<1>3. CASE effect.update.id # i
  <2>1. EffectsOf(more, i) = EffectsOf(effects, i)
    BY <1>1, <1>3 DEF EffectsOf
  <2> QED BY <1>3, <2>1, EffectsAreFinite
<1> QED BY <1>2, <1>3

\* What OneEffectPerUpdate says of one id.
Effects(i) == Cardinality(EffectsOf(tickets, i)) + Cardinality(EffectsOf(grants, i))

EffectOK(i) == Effects(i) = IF receipt[i] # Null /\ receipt[i].reply = "accepted" THEN 1 ELSE 0

LEMMA CommitHasItsEffect ==
    ASSUME Shape, NEW s \in Sessions, CommitUpdate(s), \A i \in Ids : EffectOK(i),
           NEW i \in Ids
    PROVE  EffectOK(i)'
<1> DEFINE id == session[s].update.id
           one == IF session[s].reply = "accepted" /\ id = i THEN 1 ELSE 0
<1>1. /\ session[s].update \in Updates /\ id \in Ids
      /\ session[s].reply \in {"accepted", "rejected"} /\ receipt[id] = Null
      /\ receipt' = [receipt EXCEPT ![id] =
             [update |-> session[s].update, reply |-> session[s].reply]]
      /\ receipt \in [Ids -> Receipt \cup {Null}]
  BY CommitStep DEF Shape, TypeOK
<1>2. /\ tickets \in Seq([client : Users, update : Updates])
      /\ grants \in Seq([user : Users, update : Updates])
  BY DEF Shape, TypeOK
<1>3. session[s].phase = "finished" /\ Facts(session[s])
  BY DEF CommitUpdate, Shape
<1>4. Effects(i)' = Effects(i) + one
  <2>1. CASE Writes(s, "start")
    <3>1. session[s].owner \in Users /\ session[s].reply = "accepted"
      BY <1>3, <2>1 DEF Facts, Writes, MayBind
    <3>2. grants' = Append(grants, Grant(s)) /\ tickets' = tickets
      BY <2>1 DEF CommitUpdate, Writes, Grant
    <3>3. Grant(s) \in [user : Users, update : Updates] /\ Grant(s).update = session[s].update
      BY <1>1, <3>1 DEF Grant
    <3>4. Cardinality(EffectsOf(grants', i)) =
              Cardinality(EffectsOf(grants, i)) + one
      <4> DEFINE S == [user : Users, update : Updates]
      <4>1. grants \in Seq(S) /\ Grant(s) \in S
        BY <1>2, <3>3
      <4> HIDE DEF S
      <4>2. Cardinality(EffectsOf(grants', i)) = Cardinality(EffectsOf(grants, i))
                + IF Grant(s).update.id = i THEN 1 ELSE 0
        BY <3>2, <4>1, EffectsGrow
      <4> QED BY <3>1, <3>3, <4>2
    <3> QED BY <1>2, <3>2, <3>4, EffectsAreFinite DEF Effects
  <2>2. CASE Writes(s, "new")
    <3>1. session[s].owner \in Users /\ session[s].reply = "accepted"
      BY <1>3, <2>2 DEF Facts, Writes
    <3>2. tickets' = Append(tickets, Ticket(s)) /\ grants' = grants
      BY <2>2 DEF CommitUpdate, Writes
    <3>3. Ticket(s) \in [client : Users, update : Updates] /\ Ticket(s).update = session[s].update
      BY <1>1, <3>1 DEF Ticket
    <3>4. Cardinality(EffectsOf(tickets', i)) =
              Cardinality(EffectsOf(tickets, i)) + one
      <4> DEFINE S == [client : Users, update : Updates]
      <4>1. tickets \in Seq(S) /\ Ticket(s) \in S
        BY <1>2, <3>3
      <4> HIDE DEF S
      <4>2. Cardinality(EffectsOf(tickets', i)) = Cardinality(EffectsOf(tickets, i))
                + IF Ticket(s).update.id = i THEN 1 ELSE 0
        BY <3>2, <4>1, EffectsGrow
      <4> QED BY <3>1, <3>3, <4>2
    <3> QED BY <1>2, <3>2, <3>4, EffectsAreFinite DEF Effects
  <2>3. CASE ~Writes(s, "start") /\ ~Writes(s, "new")
    <3>1. session[s].reply # "accepted" /\ tickets' = tickets /\ grants' = grants
      BY <1>3, <2>3 DEF CommitUpdate, Facts, Writes
    <3> QED BY <1>2, <3>1, EffectsAreFinite DEF Effects
  <2> QED BY <2>1, <2>2, <2>3
<1>5. CASE id = i
  <2> DEFINE new == [update |-> session[s].update, reply |-> session[s].reply]
  <2>1. new \in Receipt /\ new.reply = session[s].reply
    BY <1>1 DEF Receipt, Replies
  <2>2. receipt'[i] = new /\ receipt'[i] # Null
    BY <1>1, <1>5, <2>1, ReceiptAssumption
  <2>3. Effects(i) = 0
    BY <1>1, <1>5 DEF EffectOK
  <2> HIDE DEF new
  <2> QED BY <1>4, <1>5, <2>1, <2>2, <2>3 DEF EffectOK
<1>6. CASE id # i
  <2>1. receipt'[i] = receipt[i] /\ Effects(i)' = Effects(i)
    <3>1. Effects(i) \in Nat
      BY <1>2, EffectsAreFinite DEF Effects
    <3> QED BY <1>1, <1>4, <1>6, <3>1
  <2> QED BY <2>1 DEF EffectOK
<1> QED BY <1>5, <1>6

LEMMA EffectsNext ==
    Shape /\ (\A i \in Ids : EffectOK(i)) /\ [Next]_vars => (\A i \in Ids : EffectOK(i))'
<1> SUFFICES ASSUME Shape, \A i \in Ids : EffectOK(i), [Next]_vars
             PROVE  (\A i \in Ids : EffectOK(i))'
  OBVIOUS
<1>1. CASE UNCHANGED <<tickets, grants, receipt>>
  BY <1>1 DEF EffectOK, Effects
<1>2. ASSUME NEW s \in Sessions, CommitUpdate(s) PROVE (\A i \in Ids : EffectOK(i))'
  BY <1>2, CommitHasItsEffect
<1>3. \/ UNCHANGED <<tickets, grants, receipt>>
      \/ \E s \in Sessions : CommitUpdate(s)
  BY Steps DEF vars, Tick, Deactivate, history, Acts, SameTables, AnswerFromReceipt, CommitLink
<1> QED BY <1>1, <1>2, <1>3

\* However often an update comes and its transaction is rolled back, it has its
\* effect once, and only if its receipt says so.
THEOREM EffectsHappenOnce == Spec => []OneEffectPerUpdate
<1>1. Init => \A i \in Ids : EffectOK(i)
  <2> SUFFICES ASSUME Init, NEW i \in Ids PROVE EffectOK(i)
    OBVIOUS
  <2>1. EffectsOf(tickets, i) = {} /\ EffectsOf(grants, i) = {} /\ receipt[i] = Null
    BY DEF Init, EffectsOf
  <2> QED BY <2>1, FS_EmptySet DEF EffectOK, Effects
<1>2. (\A i \in Ids : EffectOK(i)) => OneEffectPerUpdate
  BY DEF EffectOK, Effects, OneEffectPerUpdate
<1> QED BY <1>1, <1>2, EffectsNext, ShapeInvariant, PTL DEF Spec

-----------------------------------------------------------------------------
(* The ledger.  What a session has judged under the locks of both rows stays *)
(* as it was until its commit: nobody else may write them.                   *)

JudgedOK(q) ==
    q.phase = "finished" /\ q.reply = "accepted" /\ q.update.kind = "start" =>
        user[q.owner].active /\ q.at < link[q.owner].expires_at

Judged == \A s \in Sessions : JudgedOK(session[s])

LEMMA JudgedStays ==
    ASSUME Shape, [Next]_vars, NEW t \in Sessions, JudgedOK(session[t]),
           session'[t] = session[t]
    PROVE  JudgedOK(session[t])'
<1> SUFFICES ASSUME session[t].phase = "finished", session[t].reply = "accepted",
                    session[t].update.kind = "start"
             PROVE  user'[session[t].owner].active
                    /\ session[t].at < link'[session[t].owner].expires_at
  BY DEF JudgedOK
<1> DEFINE u == session[t].owner
<1>0. /\ u \in Users /\ <<"user", u>> \in session[t].locks
      /\ user[u].active /\ session[t].at < link[u].expires_at
      /\ user \in [Users -> [chat : Chats \cup {Null}, verified : BOOLEAN, active : BOOLEAN]]
      /\ link \in [Users -> [code : 0..MaxCodes, expires_at : Nat]]
  BY DEF JudgedOK, Shape, TypeOK, Facts, MayBind
<1> HIDE DEF u
<1>1. CASE UNCHANGED <<user, link>>
  BY <1>0, <1>1 DEF u
<1>2. ASSUME NEW v \in Users, Deactivate(v)
      PROVE  user'[u] = user[u] /\ link' = link
  <2>1. v # u
    BY <1>0, <1>2 DEF Deactivate
  <2> QED BY <1>0, <1>2, <2>1 DEF Deactivate
<1>3. ASSUME NEW s \in Sessions, CommitLink(s)
      PROVE  user' = user /\ link'[u] = link[u]
  <2>1. <<"user", session[s].owner>> \in session[s].locks /\ session[s].phase = "refreshed"
    BY <1>3 DEF Shape, Facts, CommitLink, CanGo
  <2>2. session[s].owner # u
    BY <1>0, <2>1, OneHolder DEF Shape
  <2> QED BY <1>0, <1>3, <2>2 DEF CommitLink
<1>4. ASSUME NEW s \in Sessions, CommitUpdate(s)
      PROVE  user'[u].active = user[u].active /\ link'[u] = link[u]
  <2>1. CASE NoBinding(s)
    BY <2>1 DEF NoBinding
  <2>2. CASE Binding(s)
    <3>1. session[s].owner \in Users /\ <<"user", session[s].owner>> \in session[s].locks
      BY <2>2 DEF Binding, MayBind
    <3>2. session[s].owner # u
      <4>1. s # t
        <5>1. session'[s].phase = "idle"
          BY <1>4, ReleaseSteps, Released DEF Idle
        <5> QED BY <5>1
      <4> QED BY <1>0, <3>1, <4>1, OneHolder DEF Shape
    <3> QED BY <1>0, <2>2, <3>2 DEF Binding
  <2> QED BY <1>4, <2>1, <2>2, CommitStep
<1>5. \/ UNCHANGED <<user, link>>
      \/ \E v \in Users : Deactivate(v)
      \/ \E s \in Sessions : CommitLink(s) \/ CommitUpdate(s)
  BY Steps DEF vars, Tick, Acts, SameTables, AnswerFromReceipt
<1> QED BY <1>0, <1>1, <1>2, <1>3, <1>4, <1>5 DEF u

\* Only LockSecond comes to accept a binding, and it has looked at both rows.
LEMMA JudgedStep ==
    ASSUME Shape, NEW s \in Sessions,
           \/ \E u \in Users : AskForLink(s, u)
           \/ \E update \in Updates : ReceiveUpdate(s, update)
           \/ Work(s) \/ Abort(s)
    PROVE  JudgedOK(session[s])'
<1>0. session \in [Sessions -> Session] /\ session[s] \in Session
  BY DEF Shape, TypeOK
<1>1. CASE \/ session'[s].phase # "finished" \/ session'[s].reply # "accepted"
           \/ session'[s].update.kind # "start"
  BY <1>1 DEF JudgedOK
<1>2. ASSUME NEW reply \in {"accepted", "rejected"}, Finish(s, reply)
      PROVE  session'[s].reply = reply /\ session'[s].update = session[s].update
  BY <1>0, <1>2 DEF Finish, Session
<1>3. ASSUME NEW phase \in {"applying", "chat", "half", "refreshed"}, Turn(s, phase)
      PROVE  session'[s].phase # "finished"
  BY <1>0, <1>3 DEF Turn, Session
<1>4. CASE \/ \E u \in Users : AskForLink(s, u)
           \/ \E update \in Updates : ReceiveUpdate(s, update)
  <2>1. session'[s].phase \in {"asked", "received"}
    <3>1. ASSUME NEW u \in Users, AskForLink(s, u) PROVE session'[s].phase = "asked"
      <4>1. [Idle EXCEPT !.phase = "asked", !.owner = u].phase = "asked"
        BY DEF Idle
      <4> QED BY <1>0, <3>1, <4>1 DEF AskForLink
    <3>2. ASSUME NEW update \in Updates, ReceiveUpdate(s, update)
          PROVE  session'[s].phase = "received"
      <4>1. [Idle EXCEPT !.phase = "received", !.update = update].phase = "received"
        BY DEF Idle
      <4> QED BY <1>0, <3>2, <4>1 DEF ReceiveUpdate
    <3> QED BY <1>4, <3>1, <3>2
  <2> QED BY <1>1, <2>1
<1>5. CASE Abort(s) \/ AnswerFromReceipt(s) \/ CommitLink(s) \/ CommitUpdate(s)
  <2>1. session'[s].phase = "idle"
    BY <1>5, ReleaseSteps, Released DEF Idle
  <2> QED BY <1>1, <2>1
<1>6. CASE RefreshUser(s) \/ ApplyUpdate(s) \/ LockChat(s) \/ LockFirst(s)
  BY <1>1, <1>2, <1>3, <1>6 DEF RefreshUser, ApplyUpdate, LockChat, LockFirst
<1>7. CASE FindLink(s) \/ FindClient(s)
  <2>1. ASSUME NEW phase \in {"found", "client"}, NEW u,
               session' = [session EXCEPT ![s] = [@ EXCEPT !.phase = phase, !.owner = u]]
        PROVE  session'[s].phase # "finished"
    BY <1>0, <2>1 DEF Session
  <2> QED BY <1>1, <1>2, <1>7, <2>1 DEF FindLink, FindClient
<1>8. CASE LockSecond(s)
  <2>1. /\ session'[s].owner = session[s].owner /\ session'[s].at = now
        /\ session'[s].reply = IF Redeemable(s) THEN "accepted" ELSE "rejected"
    BY <1>0, <1>8 DEF LockSecond, Session
  <2>2. UNCHANGED <<user, link>> /\ session[s].owner \in Users
        /\ now \in Nat /\ link[session[s].owner].expires_at \in Nat
    BY <1>8 DEF LockSecond, TablesUnchanged, CanGo, Shape, Facts, TypeOK
  <2>3. Redeemable(s) =>
            user[session[s].owner].active /\ now < link[session[s].owner].expires_at
    BY <2>2 DEF Redeemable, Expired
  <2> QED BY <2>1, <2>2, <2>3 DEF JudgedOK
<1>9. CASE FlushTicket(s)
  <2>1. session'[s].update = session[s].update /\ session[s].update.kind = "new"
    BY <1>2, <1>9 DEF FlushTicket, CanGo, Shape, Facts
  <2> QED BY <1>1, <2>1
<1> QED BY <1>4, <1>5, <1>6, <1>7, <1>8, <1>9 DEF Work

LEMMA JudgedNext == Shape /\ Judged /\ [Next]_vars => Judged'
<1> SUFFICES ASSUME Shape, Judged, [Next]_vars, NEW t \in Sessions
             PROVE  JudgedOK(session[t])'
  BY DEF Judged
<1>1. CASE session' = session
  BY <1>1, JudgedStays DEF Judged
<1>2. ASSUME NEW s \in Sessions,
             \/ \E u \in Users : AskForLink(s, u)
             \/ \E update \in Updates : ReceiveUpdate(s, update)
             \/ Work(s) \/ Abort(s)
      PROVE  JudgedOK(session[t])'
  <2>1. CASE t = s
    BY <1>2, <2>1, JudgedStep
  <2>2. CASE t # s
    <3>1. session'[t] = session[t]
      BY <1>2, <2>2, OnlyOneMoves
    <3> QED BY <3>1, JudgedStays DEF Judged
  <2> QED BY <2>1, <2>2
<1> QED BY <1>1, <1>2 DEF Next, vars, Deactivate, Tick

\* The commit of an update is one step of the ledger,
LEMMA CommitActsAtOnce ==
    ASSUME Shape, Judged, NEW s \in Sessions, CommitUpdate(s)
    PROVE  Ledger!Next
<1> DEFINE update == session[s].update
           u == session[s].owner
<1>0. /\ update \in Updates /\ session[s].reply \in {"accepted", "rejected"}
      /\ session[s].phase = "finished" /\ Facts(session[s])
  BY CommitStep DEF CommitUpdate, Shape
<1>1. Ledger!Settle(update, session[s].reply)
  BY CommitStep DEF Ledger!Settle, Ledger!Answer
<1>2. CASE Writes(s, "start")
  <2>1. MayBind(session[s]) /\ update.kind = "start" /\ session[s].reply = "accepted"
    BY <1>0, <1>2 DEF Facts, Writes
  <2>2. /\ u \in Users /\ update.code # 0 /\ link[u].code = update.code
        /\ \A v \in Users \ {u} : user[v].chat # update.chat
        /\ Unused(update.code) /\ session[s].at <= now
    BY <2>1 DEF MayBind, ChatIsFree
  <2>3. user[u].active /\ session[s].at < link[u].expires_at
    BY <1>0, <2>1 DEF Judged, JudgedOK
  <2>4. update.code \in 1..Len(issued) /\ issued[update.code] = u
    BY <2>2 DEF Shape, CodesOK
  <2>5. session[s].at \in 0..now
    BY <2>2, Typed DEF Session, Shape, TypeOK
  <2>6. /\ user' = [user EXCEPT ![u] = [@ EXCEPT !.chat = update.chat, !.verified = TRUE]]
        /\ link' = [link EXCEPT ![u].expires_at = session[s].at]
        /\ grants' = Append(grants, Ledger!BoundBy(u, update))
        /\ tickets' = tickets
    BY <1>2 DEF CommitUpdate, Writes, Ledger!BoundBy
  <2>7. Ledger!Bind(update, u)
    <3>1. \E at \in 0..now : /\ at < link[u].expires_at
                             /\ link' = [link EXCEPT ![u].expires_at = at]
      BY <2>3, <2>5, <2>6
    <3> QED BY <1>1, <2>1, <2>2, <2>3, <2>4, <2>6, <3>1
            DEF Ledger!Bind, Ledger!Unspent, Unused
  <2> QED BY <1>0, <2>2, <2>7 DEF Ledger!Next
<1>3. CASE Writes(s, "new")
  <2>1. /\ update.kind = "new" /\ session[s].reply = "accepted"
        /\ u \in Users /\ Confirmed(u, update.chat)
    BY <1>0, <1>3 DEF Facts, Writes
  <2>2. tickets' = Append(tickets, [client |-> u, update |-> update])
        /\ UNCHANGED <<user, link, grants>>
    BY <1>3 DEF CommitUpdate, Writes, Ticket
  <2>3. Ledger!Write(update, u)
    BY <1>1, <2>1, <2>2 DEF Ledger!Write, Confirmed
  <2> QED BY <1>0, <2>1, <2>3 DEF Ledger!Next
<1>4. CASE ~Writes(s, "start") /\ ~Writes(s, "new")
  <2>1. session[s].reply = "rejected" /\ UNCHANGED <<user, link, tickets, grants>>
    BY <1>0, <1>4 DEF CommitUpdate, Facts, Writes
  <2>2. Ledger!Refuse(update)
    BY <1>1, <2>1 DEF Ledger!Refuse
  <2> QED BY <1>0, <2>2 DEF Ledger!Next
<1> QED BY <1>2, <1>3, <1>4

\* and so is every other step, unless the ledger sees nothing of it.
LEMMA LedgerStep == Shape /\ Judged /\ [Next]_vars => [Ledger!Next]_(Ledger!vars)
<1> SUFFICES ASSUME Shape, Judged, [Next]_vars
             PROVE  Ledger!Next \/ UNCHANGED Ledger!vars
  OBVIOUS
<1>1. ASSUME NEW u \in Users, Deactivate(u) PROVE Ledger!Next
  BY <1>1 DEF Deactivate, history, Ledger!Next, Ledger!Deactivate
<1>2. CASE Tick
  BY <1>2 DEF Tick, history, Ledger!Next, Ledger!Tick
<1>3. ASSUME NEW s \in Sessions, AnswerFromReceipt(s) PROVE Ledger!Next
  <2>1. session[s].update \in Updates
    BY <1>3 DEF AnswerFromReceipt, CanGo, Shape, Facts
  <2>2. Ledger!Repeat(session[s].update)
    BY <1>3 DEF AnswerFromReceipt, Answered, Stored, SameContent, Ledger!Repeat, Ledger!Answer
  <2> QED BY <2>1, <2>2 DEF Ledger!Next
<1>4. ASSUME NEW s \in Sessions, CommitLink(s) PROVE Ledger!Next
  <2>1. session[s].owner \in Users
    BY <1>4 DEF CommitLink, CanGo, Shape, Facts
  <2>2. Ledger!Issue(session[s].owner)
    BY <1>4 DEF CommitLink, Ledger!Issue
  <2> QED BY <2>1, <2>2 DEF Ledger!Next
<1>5. UNCHANGED vars \/ SameTables => UNCHANGED Ledger!vars
  BY DEF vars, SameTables, Ledger!vars
<1> QED BY <1>1, <1>2, <1>3, <1>4, <1>5, Steps, CommitActsAtOnce DEF Acts

\* What sessions do to the tables, with all their waiting, their stale reads and
\* their rollbacks, could have been done by one update after the other.
THEOREM LinkingActsAtOnce == Spec => UpdatesActAtOnce
<1>1. Init => Ledger!Init
  BY DEF Init, Ids, Ledger!Init
<1>2. Init => Judged
  BY DEF Init, Judged, JudgedOK, Idle
<1>3. Spec => []Judged
  BY <1>2, JudgedNext, ShapeInvariant, PTL DEF Spec
<1>4. Spec => [][Ledger!Next]_(Ledger!vars)
  BY <1>3, LedgerStep, ShapeInvariant, PTL DEF Spec
<1> QED BY <1>1, <1>4, PTL DEF Spec, UpdatesActAtOnce, Ledger!Spec
=============================================================================
