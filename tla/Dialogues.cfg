\* Two clients of the calculator, the second with every small formula; three
\* clients of the stdio server, which takes two; a file of three lines; two UDP
\* clients and two datagrams of strangers; two clients of the chat, which both
\* get two chunks through a socket that holds one, and a failing accept.
SPECIFICATION FairSpec
CONSTANTS
    c1 = c1
    c2 = c2
    c3 = c3
    failure = failure
    Users = {c1, c2}
    Trees <- CalcTrees
    Height <- CalcHeight
    Formulas <- CalcFormulas
    MaxAsk <- CalcAsks
    MaxUsers = 2
    Size = 8
    Nil = nil
    None = none
    Clients = {c1, c2, c3}
    MaxLines = 2
    MaxClients = 2
    Receivers = {c1}
    NumLines = 3
    Senders = {c1, c2}
    Addresses = {given, chosen, outside}
    Chosen = chosen
    Outside = outside
    MaxSent = 2
    Nothing = nothing
INVARIANTS
    CalculatorRight
    LinesExact
    NewsSent
PROPERTIES
    Replied
    Relayed
\* Every program but the UDP server ends.
CHECK_DEADLOCK FALSE
