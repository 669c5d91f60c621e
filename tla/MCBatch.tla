------------------------------ MODULE MCBatch -------------------------------
(* One batch of two servers on one host; they are interchangeable. *)
EXTENDS JobPipeline, TLC

CONSTANTS h1, b1, b2

MCRuns      == {b1, b2}
MCHostOf    == [r \in {b1, b2} |-> h1]
MCJobType   == [r \in {b1, b2} |-> "SERVER_RESTART"]
MCSymmetry  == Permutations({b1, b2})
=============================================================================
