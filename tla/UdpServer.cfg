\* One client, one message, no bound on what it is started with.
SPECIFICATION UdpSpec
CONSTANTS
    Senders = {c1}
    Addresses = {given, chosen, outside}
    Chosen = chosen
    Outside = outside
    MaxSent = 1
    Nothing = nothing
INVARIANTS
    FromServer
\* All clients may have left.
CHECK_DEADLOCK FALSE
