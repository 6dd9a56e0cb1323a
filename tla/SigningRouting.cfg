\* Two parallel approvers, then a signer; two commands in flight.
CONSTANTS
  a = a
  b = b
  c = c
  Nobody = Nobody
  EligibilityAnswered = TRUE
  Recipients <- ParallelThenSigner
  Role <- ParallelRole
  RoutingOrder <- ParallelOrder
  Sessions = {s1, s2}
  Commands = {"send", "view", "approve", "sign", "decline", "void", "expire"}
  MaxIssues = 1
  MaxReissues = 2
  MaxAuditAttempts = 2
  MaxDeliveryAttempts = 1
  ClaimBatch = 3
  CleanupBatch = 3
  MaxCrashes = 0
  MaxOverruns = 0
SPECIFICATION Spec
SYMMETRY SessionSymmetry
INVARIANTS TypeOK ReleasedExactly
PROPERTIES ImplementsLifecycle
\* An envelope may rest: nobody has to act on it.
CHECK_DEADLOCK FALSE
