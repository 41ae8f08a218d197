\* The instance of MCResultWindow_service.cfg, for an answer that names its attempt
\* but has a wrong fence: it keeps the lease until the window has passed it.
CONSTANTS
  Window = 6
  LeaseFires = 3
SPECIFICATION Spec
PROPERTIES
  MismatchExpires
