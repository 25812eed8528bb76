CONSTANTS
    Events = {e1, e2}
    NoEvent = NoEvent
    MaxLines = 4
SPECIFICATION Spec
SYMMETRY Symmetry
INVARIANT AckedSurvives
INVARIANT Readable
PROPERTY ReadsSeeAcked
PROPERTY ImplementsLog
