\* The instance of MCResultWindow_service.cfg, for an answer over the adapter's
\* bounds: it fails every collection until the window has passed the lease.
CONSTANTS
  Window = 6
  LeaseFires = 3
SPECIFICATION Spec
PROPERTIES
  InvalidAnswerExpires
