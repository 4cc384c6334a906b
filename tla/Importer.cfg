SPECIFICATION Spec
CONSTANTS
  None = None
  Torn = Torn
  Artifacts = {a1, a2}
INVARIANTS NeverTorn ReportedSurvives RecoveredIsClean PlainFailureLeavesATarget
PROPERTIES Implements
