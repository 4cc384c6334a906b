SPECIFICATION Spec
CONSTANTS
  s1 = s1
  s2 = s2
  s3 = s3
  b1 = b1
  b1x = b1x
  d2 = d2
  other = other
  A = A
  B = B
  w1 = w1
  w2 = w2
  c1 = c1
  r1 = r1
  Damaged = Damaged
  None = None
  FallsBackTo <- SameModel
  Releases <- Bases
  Downloads <- Bases
  Installers = {w1}
  Compactors = {w2}
  Scrubs = {c1}
  Readers = {}
  LastGen = 2
  MaxGen = 2
  FaultKinds = {"rot", "lost"}
  Midway = {}
  MaxFaults = 1
  MaxCrashes = 1
  UnflushedFlip = FALSE
PROPERTIES OnlyCutOffsMislead SupersededScrubCondemnsNothing FoundDamageStaysShut
