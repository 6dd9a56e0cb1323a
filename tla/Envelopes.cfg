\* The envelope outside the PostgreSQL signing commands.  The constants below
\* are those of the object retention; authoring, the D1 stores, the document set
\* and the differ have theirs in MCEnvelopes.  Everything stops once the
\* commands and uploads are used up.
CONSTANTS
  None = None
  s1 = s1
  s2 = s2
  k1 = k1
  k2 = k2
  p1 = p1
  p2 = p2
  m1 = m1
  m2 = m2
  a = a
  b = b
  c = c
  SigKeys = {1}
  DocKeys = {}
  Sweepers = {s1, s2}
  PageSize = 1
  MaxDays = 3
  MaxClients = 2
  MaxFaults = 0
SPECIFICATION PartSpec
SYMMETRY Symmetry
INVARIANTS SignedAssetsKept AuthoringSound D1SigningSound DifferSound
PROPERTIES LedgerDecidesOnce ImplementsText ImplementsLifecycle DocumentSetSound
CHECK_DEADLOCK FALSE
