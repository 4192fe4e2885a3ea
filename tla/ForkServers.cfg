\* Two clients, two bytes of buffer, so records of four; a pipe of one record, one
\* read of the writer.
SPECIFICATION MCSpec
CONSTANTS
    Patient = patient
    Hasty = hasty
    Clients = {patient, hasty}
    Polite = {patient}
    Lines <- MCLines
    BufSize = 2
    None = none
    Writer = writer
    PipeCap = 1
    MaxReads = 1
    Room <- MCRoom
INVARIANTS
    NothingLost
    BuffersHold
    StoreOrder
PROPERTIES
    ReapsLikeDemo
    Accepted
    PoliteAnswered
    HangupCompletes
\* A server with no clients left waits for the next one.
CHECK_DEADLOCK FALSE
