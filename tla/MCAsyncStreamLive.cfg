SPECIFICATION FairSpec
CONSTANTS
    Reqs = {q1}
    MaxConns = 2
    MaxFails = 1
    RaceSets <- MCRaceSets
    None = None
INVARIANTS
    ConnectionsSound
PROPERTIES
    StreamGoesOn
\* The bounds end the program.
CHECK_DEADLOCK FALSE
