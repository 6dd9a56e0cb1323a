\* Administration by several people at once.  The constants below are those of
\* the API keys; members, contacts and the deployment have theirs in
\* MCAdministration.  Everything stops once the calls are used up.
CONSTANTS
  o1 = o1
  c1 = c1
  c2 = c2
  i1 = i1
  i2 = i2
  i3 = i3
  r1 = r1
  r2 = r2
  r3 = r3
  Backend = "d1"
  Owners = {o1}
  KeyIds = {1, 2}
  Idems = {i1, i2}
  Callers = {c1, c2}
  MaxAttempts = 2
  PageLimit = 1
  Window = 2
  MaxRequests = 1
  Lifetime = 4
  MaxTime = 4
  MaxCalls = 3
  MaxUses = 4
  MaxFaults = 1
SPECIFICATION PartSpec
INVARIANTS OneKeyPerCommand RevocationMatchesReceipt RateBounded ListingsComplete MembersSound
PROPERTIES WritesWhileActive RevokedNeverAuthenticates ContactsSound ImplementsGovernance DeploymentSound
CHECK_DEADLOCK FALSE
