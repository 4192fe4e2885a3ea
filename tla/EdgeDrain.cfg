\* One client of the edge-triggered server, one byte.
CONSTANTS
    Clients = {c1}
    MaxFd = 1
    MaxSend = 1
    BufSize = 1
    Room = 1
    None = None
    Variants = {"edge"}
SPECIFICATION FairSpec
PROPERTY DrainEnds
\* The server may end, or spin.
CHECK_DEADLOCK FALSE
