\* Two attempts, each of them an install or an upgrade, with one edit, removal or file
\* written by the operator, who may also enable any job at any time.  Attempts
\* end, and with them the run.
CONSTANTS
  a1 = a1
  a2 = a2
  Attempt = {a1, a2}
  Prior = Prior
  Foreign = Foreign
  NoFile = NoFile
  MaxJobs = 4
  MaxChanges = 1
SPECIFICATION InstallSpec
SYMMETRY Alike
CHECK_DEADLOCK FALSE
INVARIANTS
  TypeOK
  AppliedIsPlanned
  RolledBackIsRestored
  EnabledIsReported
  StagedIsWhole
