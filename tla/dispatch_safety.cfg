SPECIFICATION Spec
CONSTANTS
  p1 = p1
  Principal <- OnePrincipal
  MaxRequests = 2
  Window = 2
  MaxClock = 6
  RequireConfirm = TRUE
  AuditMayFail = TRUE
INVARIANTS
  TypeOK
  AuditAgreesWithReply
  RefusedHasNoEffect
PROPERTIES
  DecidesByHistory
CHECK_DEADLOCK FALSE
