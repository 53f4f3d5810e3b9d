----------------------------- MODULE MCMergeExit -----------------------------
(***************************************************************************)
(* Small instances of MergeExit for TLC.                                   *)
(***************************************************************************)
EXTENDS MergeExit

OneThread == {"tick"}

\* Every call is answered, if late, and the process stays up, while the account
\* changes under the router's hands.
Answered == {"lag", "sellFills", "outsideSell", "lowCash", "lateTrades"}

\* A call, the process and the read of the active row may be cut short.
Interrupted == {"crash", "lostReply", "rowUnread"}

NoDisturbance == {}

=============================================================================
