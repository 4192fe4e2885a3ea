\* The owner destroys the pool while a worker is busy.
SPECIFICATION Spec
CONSTANTS
    Workers = {w1, w2}
    Producers = {p1}
    Manager = manager
    Tasks = {t1, t2}
    Capacity = 2
    MaxNum = 3
    Destroys = TRUE
    None = None
INVARIANT NoWorkerUsesFreedPool
\* A destroyed pool stops.
CHECK_DEADLOCK FALSE
