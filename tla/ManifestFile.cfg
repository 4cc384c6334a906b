SPECIFICATION Spec
CONSTANTS
  None = None
  Torn = Torn
  Manifests = {m1, m2, m3}
  MaxFind = 5
SYMMETRY Symmetry
INVARIANTS LatestIsFound SavedSurvives
