SPECIFICATION FairSpec
CONSTANTS
    Pollers = {p1, p2}
    MaxOpens = 2
    MaxCalls = 2
    RaceSets <- MCRaceSets
INVARIANTS
    ArmedOrQueuedOnce
    EventsSound
PROPERTIES
    ResultsHonest
    HeldCallWakes
\* The program ends; an assert stops it.
CHECK_DEADLOCK FALSE
