SPECIFICATION FairSpec
CONSTANTS
    c1 = c1
    c2 = c2
    ch1 = ch1
    ch2 = ch2
    Clients = {c1, c2}
    Channels = {ch1, ch2}
    s1 = s1
    s2 = s2
    Sids = {s1, s2}
    Backlog = 1
    Scenarios <- MCScenarios
    None = None
INVARIANTS
    SessionsSound
PROPERTIES
    TimeoutHonest
    Ends
\* The bounds end the program.
CHECK_DEADLOCK FALSE
