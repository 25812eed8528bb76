CONSTANTS
    Turns = {t1, t2}
    None = None
    MaxQueuedTurns = 2
    Callers = {c1}
    MaxDispatchers = 1
    Ops = {"interruptActive"}
SPECIFICATION Spec
INVARIANT QueuedWorkSurvives
CHECK_DEADLOCK FALSE
