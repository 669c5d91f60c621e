---------------------------- MODULE MCScheduler -----------------------------
(***************************************************************************)
(* Scheduler for TLC: a field of three values, so that a step of two is    *)
(* shorter where the field starts again.                                   *)
(***************************************************************************)
EXTENDS Scheduler, TLC

Symmetry == Permutations(Runs)

\* No property is about edits and failing calls together: a state with both is
\* checked, what follows it is not.
EditsOrFaults == changes = 0 \/ faults = 0
=============================================================================
