SPECIFICATION FairSpec
CONSTANTS
    Workers = {w1, w2}
    Spare = w2
    Caller = c
    MainJobs = {j1}
    ChildJobs = {k1}
    NumFibers = 3
    MaxYields = 1
    MaxSwitches = 0
    None = None
PROPERTIES
    SchedulerEnds
\* The program ends.
CHECK_DEADLOCK FALSE
