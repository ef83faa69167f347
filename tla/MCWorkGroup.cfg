SPECIFICATION GroupFairSpec
CONSTANTS
    Submitters = {owner, s1}
    Owner = owner
    Tasks = {t1, t2, t3, t4}
    BatchSize = 2
    BulkSizes = {2}
    Timed = {FALSE, TRUE}
INVARIANTS
    GroupSound
PROPERTIES
    GroupEnds
\* The program ends.
CHECK_DEADLOCK FALSE
