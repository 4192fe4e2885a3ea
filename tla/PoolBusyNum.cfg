\* Two workers: an unlocked decrement races an increment.
SPECIFICATION Spec
CONSTANTS
    Workers = {w1, w2}
    Producers = {p1}
    Manager = manager
    Tasks = {t1, t2}
    Capacity = 2
    MaxNum = 3
    Destroys = FALSE
    None = None
INVARIANT BusyNumExact
