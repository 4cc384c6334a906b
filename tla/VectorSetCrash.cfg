SPECIFICATION Spec
CONSTANTS
  s1 = s1
  s2 = s2
  s3 = s3
  b1 = b1
  b1x = b1x
  d2 = d2
  other = other
  A = A
  B = B
  w1 = w1
  w2 = w2
  c1 = c1
  r1 = r1
  Damaged = Damaged
  None = None
  FallsBackTo <- SameModel
  Releases <- Repairs
  Downloads = {}
  Installers = {w1}
  Compactors = {w2}
  Scrubs = {}
  Readers = {}
  LastGen = 4
  MaxGen = 3
  FaultKinds = {}
  Midway = {}
  MaxFaults = 0
  MaxCrashes = 1
  UnflushedFlip = TRUE
INVARIANTS PointersOpen
PROPERTIES ServedBytesStay Implements
