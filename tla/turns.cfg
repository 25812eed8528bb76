CONSTANTS
    Turns = {t1, t2, t3, t4}
    None = None
    MaxQueuedTurns = 2
    Callers = {}
    MaxDispatchers = 2
    Ops = {"sendNext", "remove", "block"}
SPECIFICATION Spec
SYMMETRY Symmetry
INVARIANT TypeOK
INVARIANT SubmitFindsFree
INVARIANT RunningIsActive
INVARIANT NotStranded
INVARIANT JournalCurrent
INVARIANT QueueEntriesOnce
CHECK_DEADLOCK FALSE
