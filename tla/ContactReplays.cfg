\* One member creates contacts in D1 and repeats a request, suspended and
\* reactivated once.  Everything stops once the calls are used up.
CONSTANTS
  Backend = "d1"
  Owners = {o1}
  Ids = {1, 2, 3, 4}
  Idems = {i1, i2}
  Callers = {c1}
  Names = {1}
  Emails = {1, 2}
  MaxIdAttempts = 2
  PageLimit = 1
  MaxCalls = 3
  MaxSuspends = 2
  MaxFaults = 0
SPECIFICATION Spec
INVARIANT ReplaySafe
CHECK_DEADLOCK FALSE
