\* A viewed recipient is sent a new link.
CONSTANTS
  a = a
  b = b
  c = c
  Nobody = Nobody
  EligibilityAnswered = TRUE
  Recipients <- Single
  Role <- SingleRole
  RoutingOrder <- SingleOrder
  Sessions = {s1}
  Commands = {"send", "view", "reissue"}
  MaxIssues = 2
  MaxReissues = 2
  MaxAuditAttempts = 2
  MaxDeliveryAttempts = 1
  ClaimBatch = 1
  CleanupBatch = 2
  MaxCrashes = 0
  MaxOverruns = 0
SPECIFICATION FairSpec
PROPERTIES LiveInvitationKept
\* An envelope may rest: nobody has to act on it.
CHECK_DEADLOCK FALSE
