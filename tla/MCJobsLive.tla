----------------------------- MODULE MCJobsLive -----------------------------
(* One host, a mutation and a read, under the fairness of the pipeline. *)
EXTENDS JobPipeline

CONSTANTS h1, m1, q1

MCHosts    == {h1}
MCRuns     == {m1, q1}
MCHostOf   == [r \in {m1, q1} |-> h1]
MCJobType  == [r \in {m1, q1} |-> IF r = m1 THEN "SERVER_RESTART" ELSE "MOD_LIST"]
=============================================================================
