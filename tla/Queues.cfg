\* Safety of the background queues.  The constants below are those of the DOCX
\* conversions: two requests, two attempts, one export, one draft edit and one
\* outlived lease.  Every other component has its own bounds in MCQueues.
\* Everything stops once the jobs are over and the budgets are spent.
CONSTANTS
  o1 = o1
  o2 = o2
  k1 = k1
  k2 = k2
  k3 = k3
  r1 = r1
  d1 = d1
  d2 = d2
  e1 = e1
  e2 = e2
  v1 = v1
  v2 = v2
  Keys = {k1, k2}
  Sources = {good}
  Invalid = {}
  MaxAttempts = 2
  MaxRequests = 2
  MaxExports = 1
  MaxEdits = 1
  MaxCrashes = 0
  MaxFaults = 0
  MaxOverruns = 1
SPECIFICATION PartSpec
INVARIANTS ConversionsSound GrantsSound WebhooksSound
PROPERTIES ArtifactsSound SealsSound
CHECK_DEADLOCK FALSE
