----------------------------- MODULE MCAccounts -----------------------------
(* A small instance of Accounts: the administrator's email is written in   *)
(* two ways, and visitors try to register it with a password of their own. *)
EXTENDS Accounts, TLC

CONSTANTS admin, Admin, desk, known, guessed

MCLower == [s \in Spellings |-> IF s = Admin THEN admin ELSE s]

MCStaff == <<[email |-> Admin, password |-> known, role |-> "admin"],
             [email |-> desk, password |-> known, role |-> "operator"]>>

SessionSymmetry == Permutations(Sessions)
=============================================================================
