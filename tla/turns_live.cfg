CONSTANTS
    Turns = {t1, t2, t3}
    None = None
    MaxQueuedTurns = 2
    Callers = {}
    MaxDispatchers = 2
    Ops = {"sendNext", "remove", "appendError"}
SPECIFICATION FairSpec
PROPERTY TurnsEnd
PROPERTY QueueDrains
CHECK_DEADLOCK FALSE
