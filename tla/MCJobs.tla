------------------------------- MODULE MCJobs -------------------------------
(* One host and single jobs: two mutations. *)
EXTENDS JobPipeline, TLC

CONSTANTS h1, m1, m2

MCHosts    == {h1}
MCRuns     == {m1, m2}
MCHostOf   == [r \in {m1, m2} |-> h1]
MCJobType  == [r \in {m1, m2} |-> "SERVER_RESTART"]
MCSymmetry == Permutations({m1, m2})
=============================================================================
