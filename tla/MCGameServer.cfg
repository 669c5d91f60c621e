SPECIFICATION Spec
CONSTANTS
  None = None
  Half = Half
  Bad = Bad
  Snaps = {snap}
  MaxSaves = 3
  Retentions <- MCRetentions
  MaxAge = 1
  MaxBoots = 4
  MaxJobs = 3
  MaxFaults = 2
INVARIANTS
  FullIsWhole
  SafeRestartHasBackup
  RestoreKeepsWorld
  HealerResumes
  RestartIsNew
PROPERTY WipeOnlyWhenStopped
CHECK_DEADLOCK FALSE
