--------------------------- MODULE MCTelegramLink ---------------------------
(* Small instances of TelegramLink: what Telegram may send, and which       *)
(* bindings the first schema left behind.                                   *)
EXTENDS LinkRefinement, TLC

CONSTANTS ann, bob, home, work

U(id, kind, chat, code) == [id |-> id, kind |-> kind, chat |-> chat, code |-> code]

\* The first code comes from two chats, the second from one of these, a ticket
\* from the other.
MCRacingCodes ==
    {U(1, "start", home, 1), U(2, "start", work, 1), U(3, "start", home, 2),
     U(4, "new", work, 0)}

\* A chat that bob has from the first schema: a code and a ticket from it, and
\* the update_id of the ticket again for another content.
MCRepeats ==
    {U(1, "start", work, 1), U(2, "new", work, 0), U(2, "unusable", home, 0)}

MCLegacy == [u \in Users |-> IF u = bob THEN work ELSE Null]

SessionSymmetry == Permutations(Sessions)
=============================================================================
