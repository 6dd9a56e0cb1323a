\* One signer's link lapses, with the eligibility query as PostgreSQL gets it.
CONSTANTS
  a = a
  b = b
  c = c
  Nobody = Nobody
  EligibilityAnswered = FALSE
  Recipients <- Single
  Role <- SingleRole
  RoutingOrder <- SingleOrder
  Sessions = {s1}
  Commands = {"send", "sign", "expire"}
  MaxIssues = 1
  MaxReissues = 2
  MaxAuditAttempts = 2
  MaxDeliveryAttempts = 1
  ClaimBatch = 1
  CleanupBatch = 2
  MaxCrashes = 0
  MaxOverruns = 0
SPECIFICATION FairSpec
PROPERTIES AbandonedEnds
\* An envelope may rest: nobody has to act on it.
CHECK_DEADLOCK FALSE
