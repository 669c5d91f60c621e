SPECIFICATION Spec
CONSTANTS
  None = None
  Half = Half
  Bad = Bad
  Snaps = {snap}
  MaxSaves = 3
  Retentions <- MCRetentions
  MaxAge = 1
  MaxBoots = 4
  MaxJobs = 3
  MaxFaults = 2
PROPERTY RegionRestoreSupported
CHECK_DEADLOCK FALSE
