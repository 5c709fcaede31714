-------------------------- MODULE MCTicketWorkflow --------------------------
(* A small instance of TicketWorkflow.                                     *)
EXTENDS TicketRefinement, TLC

RequestSymmetry == Permutations(Requests)
=============================================================================
