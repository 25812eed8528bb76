CONSTANTS
    Versions = {0, 1, 2}
    MaxHops = 2
SPECIFICATION Spec
INVARIANT TagDecides
INVARIANT RequiredSurvive
INVARIANT UnknownNeverSelects
PROPERTY StartDecides
PROPERTY PassingOnIsStable
CHECK_DEADLOCK FALSE
