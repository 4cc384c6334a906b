SPECIFICATION Spec
CONSTANTS
    Last = 3
    Ranks = {0, 1}
    Roles <- MCRoles
    None = None
    Penalty <- MCPenalty
    Holdings <- MCHoldings
    Deletions = {{}, {1}}
    Asides <- MCAsides
    MaxK = 2
    Threads = {0, 2}
    MinSlots = 1
    Interval = 1
INVARIANTS AnswerIsTheBest NamedIsAnswered
CHECK_DEADLOCK FALSE
