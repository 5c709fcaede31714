---------------------------- MODULE TicketLedger -----------------------------
(***************************************************************************)
(* What the ticket workflow promises, with no sessions, locks or stale     *)
(* reads: tickets change one operation at a time, each operation judged    *)
(* by the state the ticket is in at that very moment, and leaving one      *)
(* entry, with the actor and both states, in the ticket's log.             *)
(***************************************************************************)
EXTENDS Integers, Sequences

CONSTANTS Tickets, Users, Staff, Active, Nobody

VARIABLES
    ticket,     \* ticket[t]: status, version, resolved, client, assignee
    log         \* log[t]: what has been done to t

vars == <<ticket, log>>

\* What staff may do to a ticket's status, and the part of it clients may.
ClientMoves == {<<"resolved", "in_progress">>, <<"resolved", "closed">>}
StaffMoves ==
    {<<"new", "in_progress">>,
     <<"in_progress", "waiting_customer">>, <<"waiting_customer", "in_progress">>,
     <<"in_progress", "resolved">>, <<"waiting_customer", "resolved">>} \cup ClientMoves

NoTicket == [status |-> "none", version |-> 0, resolved |-> FALSE,
             client |-> Nobody, assignee |-> Nobody]

Init ==
    /\ ticket = [t \in Tickets |-> NoTicket]
    /\ log = [t \in Tickets |-> <<>>]

Do(t, row, action, actor, from, to) ==
    /\ ticket' = [ticket EXCEPT ![t] = row]
    /\ log' = [log EXCEPT ![t] =
            Append(@, [action |-> action, actor |-> actor, from |-> from, to |-> to])]

Create(t, client) ==
    /\ ticket[t].version = 0
    /\ Do(t, [NoTicket EXCEPT !.status = "new", !.version = 1, !.client = client],
          "ticket.created", client, "none", "none")

MayTouch(t, actor) == ticket[t].version > 0 /\ (actor \in Staff \/ actor = ticket[t].client)

\* Taking a new ticket in hand starts the work on it.
Assign(t, actor, assignee) ==
    LET status == IF ticket[t].status = "new" THEN "in_progress" ELSE ticket[t].status
    IN  /\ MayTouch(t, actor)
        /\ actor \in Staff /\ assignee \in Staff
        /\ ticket[t].status \in {"new", "in_progress", "waiting_customer"}
        /\ Do(t, [ticket[t] EXCEPT !.version = @ + 1, !.assignee = assignee, !.status = status],
              "ticket.assigned", actor, ticket[t].status, status)

Move(t, actor, to) ==
    /\ MayTouch(t, actor)
    /\ <<ticket[t].status, to>> \in IF actor \in Staff THEN StaffMoves ELSE ClientMoves
    /\ Do(t, [ticket[t] EXCEPT !.version = @ + 1, !.status = to,
                               !.resolved = to \in {"resolved", "closed"}],
          "ticket.status_changed", actor, ticket[t].status, to)

Remark(t, actor) ==
    /\ MayTouch(t, actor)
    /\ Do(t, ticket[t], "ticket.comment_added", actor, "none", "none")

Next ==
    \E t \in Tickets, actor \in Active :
        \/ Create(t, actor) \/ Remark(t, actor)
        \/ \E assignee \in Active : Assign(t, actor, assignee)
        \/ \E to \in {"in_progress", "waiting_customer", "resolved", "closed"} :
               Move(t, actor, to)

Spec == Init /\ [][Next]_vars
=============================================================================
