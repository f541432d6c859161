SPECIFICATION Spec
CONSTANTS
  Digests    = {"d1"}
  Dirs       = {"x", "y"}
  DirOf     <- MCDirOf
  MaxEntries = 3
INVARIANTS
  BackupComplete
  ProjectComplete
  RollbackMarked
