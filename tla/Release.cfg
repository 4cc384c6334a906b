SPECIFICATION ReleaseSpec
CONSTANTS
    short1 = short1
    text1 = text1
    text2 = text2
    NoText = NoText
    Keys = {short1, text1, text2}
    Short = {short1}
    Lines <- MCLines
    Cosine <- MCCosine
    Kinds = {"lines", "sharing"}
    MaxVersion = 3
    MaxChange = 2
    WarehouseWhole = TRUE
INVARIANTS CoverageComplete AnswersAsBase FilterAgrees LedgerKnowsTheDevice
CHECK_DEADLOCK FALSE
