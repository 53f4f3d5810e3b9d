----------------------------- MODULE MCFillDedup -----------------------------
(***************************************************************************)
(* Small instances of FillDedup for TLC.                                   *)
(***************************************************************************)
EXTENDS FillDedup

\* Every call that may fail does, and the process restarts.
Failing == {"crash", "tradesFail", "openFails", "cancelFails", "notCanceled", "dbFails"}

=============================================================================
