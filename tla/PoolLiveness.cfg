\* Two workers, two producers, one slot, two tasks: both producers can wait for
\* the slot; the owner may destroy the pool at any time, or never.
SPECIFICATION FairSpec
CONSTANTS
    Workers = {w1, w2}
    Producers = {p1, p2}
    Manager = manager
    Tasks = {t1, t2}
    Capacity = 1
    MaxNum = 3
    Destroys = TRUE
    None = None
PROPERTIES
    EveryTaskRuns
    AddReturns
    DestroyReturns
\* A destroyed pool stops.
CHECK_DEADLOCK FALSE
