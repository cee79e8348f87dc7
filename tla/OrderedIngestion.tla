-------------------------- MODULE OrderedIngestion --------------------------
(***************************************************************************)
(* What recovery promises of a task's accumulator: the merged samples are  *)
(* always the first ones in production order; they grow by merging, and    *)
(* the only other thing that can happen to them is that they fall back to  *)
(* what was saved.  A save keeps exactly what is merged at that moment.    *)
(***************************************************************************)
EXTENDS Naturals

CONSTANT MaxDraws  \* draws of the task

VARIABLES live,   \* draws merged into the live accumulator
          saved   \* draws merged into the saved one

Init == live = {} /\ saved = {}

Merge ==
  /\ live \subseteq live' /\ live' # live
  /\ \E n \in 1 .. MaxDraws : live' = 1 .. n
  /\ UNCHANGED saved

Save    == saved' = live /\ UNCHANGED live
Recover == live' = saved /\ UNCHANGED saved

Next == Merge \/ Save \/ Recover

Spec == Init /\ [][Next]_<<live, saved>>
=============================================================================
