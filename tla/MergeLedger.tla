----------------------------- MODULE MergeLedger -----------------------------
(***************************************************************************)
(* What the merge_events table promises the profit ledger.  There is one   *)
(* reservation at a time.  A reservation that was burnt on chain is booked *)
(* and never dropped; one that was dropped was never burnt.  A reservation *)
(* of those in presumable may also be booked ahead of the chain, on the    *)
(* presumption that it was burnt, the account no longer holding the pair.  *)
(***************************************************************************)
CONSTANT Events

VARIABLES stage, presumable

Open == {e \in Events : stage[e] \in {"reserved", "burnt"}}

Init == stage = [e \in Events |-> "unused"]

Move(e, from, to) == stage[e] = from /\ stage' = [stage EXCEPT ![e] = to]

Reserve(e) == Open = {} /\ Move(e, "unused", "reserved")
Burn(e) == Move(e, "reserved", "burnt") \/ Move(e, "presumed", "booked")
Book(e) == Move(e, "burnt", "booked")
Presume(e) == e \in presumable /\ Move(e, "reserved", "presumed")
Drop(e) == Move(e, "reserved", "void")

Next == \E e \in Events : Reserve(e) \/ Burn(e) \/ Book(e) \/ Presume(e) \/ Drop(e)

Spec == Init /\ [][Next]_stage

=============================================================================
