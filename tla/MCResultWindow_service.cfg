\* Both jobs, with a window of six runs and a lease of three fires.
CONSTANTS
  Window = 6
  LeaseFires = 3
SPECIFICATION Spec
INVARIANTS
  TypeOK
PROPERTIES
  ServiceSettles
  OutageInViewSettles
  LostIsForever
  LeaseStaysInView
