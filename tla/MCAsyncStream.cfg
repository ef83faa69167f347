SPECIFICATION Spec
CONSTANTS
    Reqs = {q1, q2}
    MaxConns = 2
    MaxFails = 1
    RaceSets <- Harmless
    None = None
SYMMETRY MCSymmetry
INVARIANTS
    CallersSound
PROPERTIES
    ResultsTrue
\* The bounds end the program.
CHECK_DEADLOCK FALSE
