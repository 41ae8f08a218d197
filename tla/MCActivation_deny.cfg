\* One attempt, that may upgrade a prior release; one change by the operator of
\* a job, a file or Hermes itself, one deactivation.
CONSTANTS
  a1 = a1
  Attempt = {a1}
  Prior = Prior
  Foreign = Foreign
  NoFile = NoFile
  MaxJobs = 2
  MaxChanges = 1
  MaxDenies = 1
SPECIFICATION Spec
INVARIANTS
  DenyIsImmediate
