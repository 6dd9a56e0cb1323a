\* One signer; delivery retries, a crash and an outlived lease, with fairness.
CONSTANTS
  a = a
  b = b
  c = c
  Nobody = Nobody
  EligibilityAnswered = TRUE
  Recipients <- Single
  Role <- SingleRole
  RoutingOrder <- SingleOrder
  Sessions = {s1}
  Commands = {"send", "view", "sign", "decline", "void", "reissue", "expire"}
  MaxIssues = 2
  MaxReissues = 2
  MaxAuditAttempts = 2
  MaxDeliveryAttempts = 2
  ClaimBatch = 1
  CleanupBatch = 2
  MaxCrashes = 1
  MaxOverruns = 1
SPECIFICATION FairSpec
INVARIANTS TerminalScrubbed SubmissionFenced OpenRowCurrent
PROPERTIES CiphertextDestroyed InvitationSettles AbandonedEnds
\* An envelope may rest: nobody has to act on it.
CHECK_DEADLOCK FALSE
