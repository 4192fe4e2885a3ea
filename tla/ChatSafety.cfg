\* Three clients that may connect, say one thing and leave in any order: shared
\* and reused descriptors, wrong entries removed, table slots to spare; or two of
\* them and a call of accept that fails; or two that come, or one and a failing
\* accept, where clients read slowly and a socket holds one of their two chunks.
SPECIFICATION MCSpec
CONSTANTS
    Clients = {a, b, c}
    Failures = {failure}
    MaxFd = 3
    MaxCli = 5
    MaxSay = 1
    Room = 1
    None = None
SYMMETRY Symmetry
CONSTRAINT FewCome
INVARIANTS
    CountExact
    SameOrder
    LatecomersGetSuffix
\* Everybody may have come and gone, or SIGPIPE may have ended the server.
CHECK_DEADLOCK FALSE
