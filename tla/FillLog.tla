------------------------------- MODULE FillLog -------------------------------
(***************************************************************************)
(* What Step 1 of the tick promises of the fills of reward buys: each is    *)
(* acted on (cooldown, cancel of the rest of its order) at most once, over  *)
(* all lives of the process.  Only what a later life takes up before it is  *)
(* primed may be acted on again, and in that life once.                     *)
(***************************************************************************)
EXTENDS Naturals, Sequences

CONSTANT Fill

VARIABLES
    log,    \* the lives and fills of what was acted on, in order
    life,   \* which life of the process this is
    hasty   \* the fills this life took up before it was primed

Acted(f) == {log[i].life : i \in {j \in 1 .. Len(log) : log[j].fill = f}}

LogInit == log = <<>>

Act(f) == /\ life \notin Acted(f)
          /\ Acted(f) = {} \/ f \in hasty
          /\ log' = Append(log, [life |-> life, fill |-> f])

LogNext == \E f \in Fill : Act(f)

LogSpec == LogInit /\ [][LogNext]_log

=============================================================================
