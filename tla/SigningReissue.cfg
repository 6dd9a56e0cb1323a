\* Two parallel signers whose links lapse at different times, with reissues,
\* retries, failed deliveries and expiry drains in flight.
CONSTANTS
  a = a
  b = b
  c = c
  Nobody = Nobody
  EligibilityAnswered = TRUE
  Recipients <- Pair
  Role <- ParallelPairRole
  RoutingOrder <- ParallelPairOrder
  Sessions = {s1, s2}
  Commands = {"send", "reissue", "expire"}
  MaxIssues = 3
  MaxReissues = 1
  MaxAuditAttempts = 2
  MaxDeliveryAttempts = 2
  ClaimBatch = 1
  CleanupBatch = 6
  MaxCrashes = 0
  MaxOverruns = 0
SPECIFICATION Spec
SYMMETRY SessionSymmetry
INVARIANTS OpenRowCurrent LineageLinear
PROPERTIES ExpiryOnlyWhenLapsed
\* An envelope may rest: nobody has to act on it.
CHECK_DEADLOCK FALSE
