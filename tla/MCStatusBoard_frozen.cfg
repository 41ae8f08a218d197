\* The instance of MCStatusBoard_status.cfg, for the status that stays frozen once
\* there are more incident rows than the projection may list.
CONSTANTS
  announce = announce
  build = build
  check = check
  Phase = {announce, build, check}
  KeyOrder <- MCKeyOrder
  Deps <- MCDeps
  Final = announce
  Outcomes = {"done", "bare"}
  Capacity = 1
  MaxFaults = 2
SPECIFICATION Spec
PROPERTY
  StatusStaysCurrent
