----------------------- MODULE MCNotificationDelivery -----------------------
(* Small instances of NotificationDelivery.  A configuration names the     *)
(* events it wants; MCPayload describes each of them.                      *)
EXTENDS DeliveryRefinement, TLC

CONSTANTS
    status_changed,     \* to the client's chat
    commented,          \* to the client's and the operators' chat
    unlinked,           \* status change of a client without a chat: skipped
    legacy_created,     \* ticket.created with a row of the first schema
    client, home, desk

MCPayload ==
    LET p(type, internal, client_chat) ==
            [type |-> type, internal |-> internal, client |-> client,
             client_chat |-> client_chat, operator_chat |-> desk]
    IN  [e \in Events |->
            CASE e = status_changed   -> p("ticket.status_changed", FALSE, home)
              [] e = commented        -> p("ticket.comment_added", FALSE, home)
              [] e = unlinked         -> p("ticket.status_changed", FALSE, NoChat)
              [] e = legacy_created   -> p("ticket.created", FALSE, home)]

MCLegacy == {d \in Deliveries : d[1] = legacy_created}
MCRetryAfters == {-1, 0, 5}
MCNoRetryAfter == {0}

WorkerSymmetry == Permutations(Workers)
=============================================================================
