----------------------------- MODULE MergeHistory -----------------------------
(***************************************************************************)
(* MergeExit with two history variables.  A tick reads the positions first *)
(* and the trades later; a buy filled in between makes the rebuilt size of *)
(* a position larger than the reported one, and may hide a burn that the   *)
(* snapshot does not show.  late and doubtful record where that happened.  *)
(***************************************************************************)
EXTENDS MergeExit

VARIABLES
    late,       \* sides bought between this tick's positions and its trades
    doubtful    \* rows reserved for such a side

hvars == <<vars, late, doubtful>>

HInit == Init /\ late = {} /\ doubtful = {}

\* The tick has read the positions and not yet the trades.
BetweenReads == \E t \in Threads : loc[t].at = "trades"

RecordLate ==
    late' = IF BetweenReads THEN late \cup {s \in Sides : bal'[s] > bal[s]}
            ELSE IF BetweenReads' THEN {}
            ELSE late

\* The rows a step reserves.
NewRows == {e \in Events : events[e].status = "NONE" /\ events'[e].status # "NONE"}

RecordDoubtful ==
    doubtful' = doubtful \cup {e \in NewRows : events'[e].side \in late}

HNext == Next /\ RecordLate /\ RecordDoubtful

HSpec == HInit /\ [][HNext]_hvars

\* What MergeLedger sees when only the doubtful rows may be presumed burnt.
Sure == INSTANCE MergeLedger WITH stage <- Stage, presumable <- doubtful

\* Where only the router takes shares away, the books run ahead of the chain
\* for no row but one reserved on trades that were read after a buy the
\* snapshot misses.
BooksOnlyBurnt == Sure!Spec

=============================================================================
