CONSTANTS
    Turns = {t1, t2}
    None = None
    MaxQueuedTurns = 2
    Callers = {c1, c2}
    MaxDispatchers = 1
    Ops = {"crash", "close", "closeError", "closeLogError", "ask"}
SPECIFICATION Spec
SYMMETRY Symmetry
INVARIANT PendingHasTurn
PROPERTY ReconcileResolves
PROPERTY ClosedIsFinal
CHECK_DEADLOCK FALSE
