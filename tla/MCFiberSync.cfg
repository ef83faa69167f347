SPECIFICATION FairSpec
CONSTANTS
    Fibers = {f1, f2, f3, f4}
    Nil = Nil
INVARIANTS
    AssertsHold
    WokenExactlyOnce
PROPERTIES
    StrictFifo
    MonitorSpec
    CallsReturn
\* Every fiber may be waiting on the condition with nobody left to signal it.
CHECK_DEADLOCK FALSE
