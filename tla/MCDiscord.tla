----------------------------- MODULE MCDiscord ------------------------------
(***************************************************************************)
(* What reaches Discord, for TLC.  An event is quiet for one step of the   *)
(* clock; a rule may send two requests in three steps.                     *)
(***************************************************************************)
EXTENDS Discord, TLC

\* Three lines, two of them in the same second.
ThreeLines == <<1, 2, 2>>
Symmetry == Permutations(Appends) \cup Permutations(Rules) \cup Permutations(Sources)
=============================================================================
