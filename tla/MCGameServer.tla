---------------------------- MODULE MCGameServer ----------------------------
(***************************************************************************)
(* GameServer for TLC, and a statement of the documentation that the code  *)
(* does not keep.                                                          *)
(***************************************************************************)
EXTENDS GameServer

MCRetentions == {0, 1}

\* A restore of a snapshot that met no failure and has copied everything
\* reports success: "SAVE_RESTORE supports full-world or Region-only restore"
\* (docs/release-0.0.6-context.md:54, RestoreSave).
RegionRestoreSupported ==
  [][pc = "drop" /\ pc' = "idle" /\ ~ IsFull /\ faults' = 0 => result' = "ok"]_vars
=============================================================================
