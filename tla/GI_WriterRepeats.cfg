SPECIFICATION Spec
CONSTANTS
  DiskFaults = {}
  ReleaseAttempts = 1
PROPERTIES WriterRepeats
