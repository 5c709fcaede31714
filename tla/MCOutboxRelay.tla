--------------------------- MODULE MCOutboxRelay ----------------------------
(* A small instance of OutboxRelay.                                        *)
EXTENDS OutboxRelay, TLC

CONSTANTS
    malformed,      \* a message without the id of an event
    mistyped        \* the id of event 1 with another event_type

MCIdOf ==
    [m \in Messages |->
        IF m \in Events THEN m ELSE IF m = mistyped THEN 1 ELSE Null]

ProcessSymmetry == Permutations(Publishers) \cup Permutations(Consumers)
=============================================================================
