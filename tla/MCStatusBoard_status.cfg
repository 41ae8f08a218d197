\* A chain of three phases that end done or without evidence, room for one
\* incident row, and two faults.
CONSTANTS
  announce = announce
  build = build
  check = check
  Phase = {announce, build, check}
  KeyOrder <- MCKeyOrder
  Deps <- MCDeps
  Final = announce
  Outcomes = {"done", "bare"}
  Capacity = 1
  MaxFaults = 2
SPECIFICATION Spec
INVARIANTS
  TypeOK
  DoneIsDone
  NextIsDue
  RunningIsDue
PROPERTIES
  ProgressIsKept
  StatusCatchesUp
