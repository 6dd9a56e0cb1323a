\* An abandoned lease beyond the attempt limit.
CONSTANTS
  a = a
  b = b
  c = c
  Nobody = Nobody
  EligibilityAnswered = TRUE
  Recipients <- Single
  Role <- SingleRole
  RoutingOrder <- SingleOrder
  Sessions = {s1}
  Commands = {"send"}
  MaxIssues = 1
  MaxReissues = 2
  MaxAuditAttempts = 2
  MaxDeliveryAttempts = 2
  ClaimBatch = 1
  CleanupBatch = 2
  MaxCrashes = 1
  MaxOverruns = 0
SPECIFICATION Spec
INVARIANTS AttemptsBounded
\* An envelope may rest: nobody has to act on it.
CHECK_DEADLOCK FALSE
