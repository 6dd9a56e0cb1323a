\* Liveness and leases of the queues under PartSpec, whose fairness is that of
\* the cron drains.  The constants below are those of the DOCX conversions: one
\* request that meets a crash, a fault and an outlived lease.
CONSTANTS
  o1 = o1
  k1 = k1
  k2 = k2
  k3 = k3
  r1 = r1
  d1 = d1
  d2 = d2
  e1 = e1
  e2 = e2
  v1 = v1
  Keys = {k1}
  Sources = {good, bad}
  Invalid = {bad}
  MaxAttempts = 2
  MaxRequests = 1
  MaxExports = 1
  MaxEdits = 1
  MaxCrashes = 1
  MaxFaults = 1
  MaxOverruns = 1
SPECIFICATION PartSpec
PROPERTIES ImplementsDocxLeases ImplementsLeases WorkSettles RotationsSound RerunConverges
CHECK_DEADLOCK FALSE
