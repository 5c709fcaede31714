--------------------------- MODULE LinkRefinement ----------------------------
(***************************************************************************)
(* The sessions of TelegramLink, which take their locks one by one and act *)
(* on what they read under each, do to the tables what LinkLedger does in  *)
(* single steps.                                                           *)
(***************************************************************************)
EXTENDS TelegramLink

Ledger == INSTANCE LinkLedger

\* The commit of a code or of an update is one legal step of the ledger, judged by
\* the tables just before it: what a session of issue_link or handle_update read
\* long before still holds, or is checked again under a lock.  By its other steps,
\* and by a rollback, the tables do not change.
UpdatesActAtOnce == Ledger!Spec
=============================================================================
