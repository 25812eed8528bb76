SPECIFICATION Spec
CONSTANTS
    MaxSessions = 1
    MaxTurns = 2
    MaxAgents = 2
INVARIANTS OneEnd ResponderHasRoom RestartIsClean
PROPERTIES CloseReleases TurnsEnd
CHECK_DEADLOCK FALSE
