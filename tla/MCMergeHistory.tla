---------------------------- MODULE MCMergeHistory ----------------------------
(***************************************************************************)
(* A small instance of MergeHistory for TLC.                               *)
(***************************************************************************)
EXTENDS MergeHistory

OneThread == {"tick"}

NoDisturbance == {}

=============================================================================
