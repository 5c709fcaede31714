----------------------------- MODULE LinkLedger ------------------------------
(***************************************************************************)
(* What linking promises, with no sessions, locks or rollbacks: a code is  *)
(* issued, and an update of Telegram's is settled, in a single step, which *)
(* is judged by the tables as they are at that very moment.                *)
(***************************************************************************)
EXTENDS Integers, Sequences

CONSTANTS Users, Updates, Legacy, TTL, Null

VARIABLES
    user,       \* user[u]: chat, verified, active
    link,       \* link[u]: the newest code issued to u, or 0, and its expiry
    receipt,    \* receipt[i]: how the update with the id i was settled, or Null
    tickets,    \* tickets written, with their updates
    now,
    issued,     \* issued[k]: whom the code k was issued to
    grants,     \* bindings made, with their updates
    answers     \* answers[update]: what Telegram was told

vars == <<user, link, receipt, tickets, now, issued, grants, answers>>

Init ==
    /\ user = [u \in Users |-> [chat |-> Legacy[u], verified |-> FALSE, active |-> TRUE]]
    /\ link = [u \in Users |-> [code |-> 0, expires_at |-> 0]]
    /\ receipt = [i \in {update.id : update \in Updates} |-> Null]
    /\ tickets = <<>> /\ issued = <<>> /\ grants = <<>>
    /\ answers = [update \in Updates |-> {}]
    /\ now = 0

Issue(u) ==
    /\ link' = [link EXCEPT ![u] = [code |-> Len(issued) + 1, expires_at |-> now + TTL]]
    /\ issued' = Append(issued, u)
    /\ UNCHANGED <<user, receipt, tickets, now, grants, answers>>

Answer(update, reply) == answers' = [answers EXCEPT ![update] = @ \cup {reply}]

\* An update is settled once, together with its effect if it has one.
Settle(update, reply) ==
    /\ receipt[update.id] = Null
    /\ receipt' = [receipt EXCEPT ![update.id] = [update |-> update, reply |-> reply]]
    /\ Answer(update, reply)
    /\ UNCHANGED <<now, issued>>

BoundBy(u, update) == [user |-> u, update |-> update]
Unspent(code) == \A i \in 1..Len(grants) : grants[i].update.code # code

\* The chat is nobody else's; the code is the newest of a user who is active, has
\* bound nothing yet, and was spent at a time when it had not expired.
Bind(update, u) ==
    /\ update.kind = "start"
    /\ user[u].active
    /\ update.code \in 1..Len(issued) /\ issued[update.code] = u
    /\ link[u].code = update.code /\ Unspent(update.code)
    /\ \A v \in Users \ {u} : user[v].chat # update.chat
    /\ user' = [user EXCEPT ![u] = [@ EXCEPT !.chat = update.chat, !.verified = TRUE]]
    /\ \E at \in 0..now : /\ at < link[u].expires_at
                          /\ link' = [link EXCEPT ![u].expires_at = at]
    /\ grants' = Append(grants, BoundBy(u, update))
    /\ Settle(update, "accepted")
    /\ UNCHANGED tickets

\* The client is one who bound this chat, then or at another time.
Write(update, u) ==
    /\ update.kind = "new"
    /\ \E i \in 1..Len(grants) : grants[i].user = u /\ grants[i].update.chat = update.chat
    /\ tickets' = Append(tickets, [client |-> u, update |-> update])
    /\ Settle(update, "accepted")
    /\ UNCHANGED <<user, link, grants>>

Refuse(update) ==
    /\ Settle(update, "rejected")
    /\ UNCHANGED <<user, link, tickets, grants>>

Repeat(update) ==
    LET stored == receipt[update.id]
    IN  /\ stored # Null
        /\ Answer(update, IF stored.update = update THEN stored.reply ELSE "conflict")
        /\ UNCHANGED <<user, link, receipt, tickets, now, issued, grants>>

Deactivate(u) ==
    /\ user' = [user EXCEPT ![u].active = FALSE]
    /\ UNCHANGED <<link, receipt, tickets, now, issued, grants, answers>>

Tick ==
    /\ now' = now + 1
    /\ UNCHANGED <<user, link, receipt, tickets, issued, grants, answers>>

Next ==
    \/ \E u \in Users : Issue(u) \/ Deactivate(u)
    \/ \E update \in Updates :
          \/ Refuse(update) \/ Repeat(update)
          \/ \E u \in Users : Bind(update, u) \/ Write(update, u)
    \/ Tick

Spec == Init /\ [][Next]_vars
=============================================================================
