----------------------------- MODULE MCPipeline -----------------------------
(* A small instance of Pipeline: every event is an internal comment, told  *)
(* to the operators' chat.                                                 *)
EXTENDS Pipeline

CONSTANTS
    malformed,      \* a message without the id of an event
    client, desk

MCIdOf == [m \in Events \cup Junk |-> IF m \in Events THEN m ELSE Null]

MCInternal ==
    [e \in Events |->
        [type |-> "ticket.comment_added", internal |-> TRUE, client |-> client,
         client_chat |-> NoChat, operator_chat |-> desk]]

MCRetryAfters == {0}
=============================================================================
