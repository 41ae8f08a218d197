\* Two runs at a time, three phases, and two faults: a lost or failed call, a
\* crash, a lost ledger, or a card edited or copied.
CONSTANTS
  build = build
  docs = docs
  release = release
  Phase = {build, docs, release}
  Plan <- MCPlan
  Deps <- MCDeps
  Process = {x1, x2}
  MaxFaults = 2
SPECIFICATION Spec
INVARIANTS
  TypeOK
  FlawIsNotExposed
PROPERTIES
  ImplementsGraph
  BootstrapCompletes
