\* Two workers, two producers, a ring of two slots, four tasks: both producers
\* can sleep on a full ring, both workers on an empty one, the indices wrap.
SPECIFICATION Spec
CONSTANTS
    Workers = {w1, w2}
    Producers = {p1, p2}
    Manager = manager
    Tasks = {t1, t2, t3, t4}
    Capacity = 2
    MaxNum = 3
    Destroys = TRUE
    None = None
SYMMETRY Symmetry
INVARIANTS
    TypeOK
    RingConsistent
    WorkConserving
    ProducersNotStranded
    ManagerJoined
PROPERTY PoolSpec
\* A destroyed pool stops.
CHECK_DEADLOCK FALSE
