\* The event loops: two clients, with two bytes and with one, a buffer of one, and
\* sockets that hold one returned byte: a byte may arrive between two reads, a write
\* wait or fall short, and a descriptor be closed and reused within a round.
\*
\* The demonstrations: both queues with two threads on each side and a heap of three
\* nodes, the first with two places, so that threads queue up on both semaphores, a
\* broadcast is outstanding while a consumer goes back to sleep, and nodes are used
\* again.  The counters with two threads and three rounds; three children, whose ends
\* can merge in one signal while another is handled.
SPECIFICATION MCSpec
CONSTANTS
    Clients = {c1, c2}
    MaxFd = 2
    MaxSend = 2
    BufSize = 1
    Room = 1
    Brief = {c2}
    None = None
    Variants = {"select", "level", "edge"}
    Producers = {p1, p2}
    Consumers = {c1, c2}
    Nodes = {n1, n2, n3}
    Places = 2
    ThreadA = a
    ThreadB = b
    MutexThreads = {a, b}
    WriteThreads = {}
    ReadThreads = {}
    Rounds = 3
    Unset = unset
    Children = {k1, k2, k3}
INVARIANTS
    NeverBlocks
    WatchedOpen
    EdgeNotLost
    PopFindsNode
    PlacesConserved
    NoLostWakeup
    PrintedExact
    ZombieAccount
PROPERTIES
    EchoSpec
    EchoComplete
    HangupNoticed
    StackSpec
    Served
