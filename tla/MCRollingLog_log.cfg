CONSTANTS
  Threads = {t1, t2}
  None = None
  maxFiles = 3
  maxFileSize = 2
  LowerLimit = 4
  Lengths = {1, 4}
  Failures = {"open", "write", "unlink", "rename"}
  MaxRecords = 7
SPECIFICATION Spec
INVARIANT LogIsASuffix RolledFilesAreFull
PROPERTY EnoughIsKept
SYMMETRY AnyThread
