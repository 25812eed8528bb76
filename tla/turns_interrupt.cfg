CONSTANTS
    Turns = {t1, t2}
    None = None
    MaxQueuedTurns = 2
    Callers = {c1, c2}
    MaxDispatchers = 1
    Ops = {"interrupt", "interruptActive", "sendError", "interruptError"}
SPECIFICATION Spec
SYMMETRY Symmetry
INVARIANT NotStranded
INVARIANT PromptExclusion
CHECK_DEADLOCK FALSE
