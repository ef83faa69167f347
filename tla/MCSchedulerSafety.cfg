SPECIFICATION Spec
CONSTANTS
    Workers = {w1, w2}
    Spare = w2
    Caller = c
    MainJobs = {j1}
    ChildJobs = {k1}
    NumFibers = 3
    MaxYields = 2
    MaxSwitches = 1
    None = None
INVARIANTS
    OneThreadPerFiber
    TasksKept
    CountersSound
\* The program ends.
CHECK_DEADLOCK FALSE
