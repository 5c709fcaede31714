-------------------------- MODULE TicketRefinement ---------------------------
(***************************************************************************)
(* The sessions of TicketWorkflow, with their stale reads, locks and       *)
(* rollbacks, do to the tables what TicketLedger does in single steps: a   *)
(* request takes effect at its commit or not at all.                       *)
(***************************************************************************)
EXTENDS TicketWorkflow

\* The ledger knows neither when a transaction began nor what is internal.
Told(entry) == [action |-> entry.action, actor |-> entry.actor,
                from |-> entry.from, to |-> entry.to]
ToldOf(t) == [i \in 1..Len(history[t]) |-> Told(history[t][i])]

Ledger == INSTANCE TicketLedger WITH log <- [t \in Tickets |-> ToldOf(t)]

\* Every commit is one legal operation of the ledger on the row as it was just
\* before, whatever the request had read, and with the entry that tells it.
ActsLikeALedger == Ledger!Spec
=============================================================================
