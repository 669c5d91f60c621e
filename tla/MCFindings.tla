---------------------------- MODULE MCFindings ------------------------------
(***************************************************************************)
(* Statements of the repository's documents and comments that the code, as *)
(* modelled by JobPipeline, does not keep.  Each has a run of its own.     *)
(***************************************************************************)
EXTENDS JobPipeline

CONSTANTS h1, b1, b2

MCHostOf  == [r \in {b1, b2} |-> h1]
MCJobType == [r \in {b1, b2} |-> "SERVER_RESTART"]

\* docs/design-bulk-server-operations.md: "Batch is completed when no run is
\* pending or running (all finished or cancelled)".  failStaleRunningJobs ends a
\* run without telling its batch, which then stays running for ever.
BatchCompletes ==
    (batch = "running" /\ \A r \in Batched : status[r] \in Terminal)
        ~> (batch # "running" \/ \E r \in Batched : status[r] \notin Terminal)
=============================================================================
