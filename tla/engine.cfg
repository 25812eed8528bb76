SPECIFICATION Spec
CONSTANTS
    Callers = {c1}
    Updaters = {u1, u2}
    None = None
    MaxFaults = 3
    MaxCrashes = 2
    MaxTampers = 1
INVARIANTS ManifestIsTrue RemovedIsGone FailedStartLeavesNothing
PROPERTIES ClosedStays
