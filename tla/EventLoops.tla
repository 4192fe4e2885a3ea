----------------------------- MODULE EventLoops -----------------------------
(***************************************************************************)
(* The three event-loop servers, each on its own with the same clients:    *)
(* a behaviour chooses one of them and keeps it.  They differ in what they *)
(* do with the kernel's events, and promise the same (EchoService).        *)
(***************************************************************************)
EXTENDS SelectServer, EpollServer, EdgeServer

CONSTANT Variants       \* those of "select", "level", "edge" that are run

VARIABLE variant

vars == <<selectVars, variant>>

Init ==
    /\ variant \in Variants
    /\ \/ variant = "select" /\ SelectInit
       \/ variant = "level" /\ EpollInit /\ fd_max = Listener
       \/ variant = "edge" /\ EdgeInit /\ fd_max = Listener

Select == variant = "select" /\ SelectStep
Level  == variant = "level" /\ EpollStep /\ UNCHANGED fd_max
Edge   == variant = "edge" /\ EdgeStep /\ UNCHANGED fd_max
Server == (Select \/ Level \/ Edge) /\ UNCHANGED variant

Next ==
    \/ \E c \in Clients : ClientStep(c) /\ UNCHANGED <<fd_max, variant>>
    \/ Server

\* A server that can go on does.  A client reads what it is returned (one that does
\* not stops a server whose writes block, for all others too), and nothing else
\* obliges it.  The order of events within a round is the kernel's.
Spec == Init /\ [][Next]_vars
Fairness ==
    /\ WF_vars(Server)
    /\ \A c \in Clients : WF_vars(Read(c) /\ UNCHANGED <<fd_max, variant>>)
FairSpec == Spec /\ Fairness

-----------------------------------------------------------------------------
\* select and level-triggered epoll run on blocking sockets: whatever descriptor
\* of the round is still to be handled, however the round has changed the set it
\* came from, and however long a write has taken, neither accept nor read will
\* block on it.
NeverBlocks == variant # "edge" => \A f \in events : Readable(f)

\* What the kernel is asked to watch are the descriptors that are open: none
\* that is closed (select would fail with EBADF and end the server), and none
\* forgotten; a number closed and reused within a round counts as new.
WatchedOpen ==
    /\ SocketsTyped /\ fd_max \in Fds \cup {Listener}
    /\ watched = {Listener} \cup {f \in Fds : file[f] # None}

\* Edge triggered: outside the read loop, input that is there has an edge or an
\* event; otherwise nobody would ever read it.
EdgeNotLost ==
    variant = "edge" /\ pc = "loop" =>
        \A f \in Fds : Readable(f) => f \in edges \cup events

\* Each client gets its own bytes, in order and once, up to the first that the
\* edge-triggered server has dropped.
Echo == INSTANCE EchoService
EchoSpec == Echo!Spec

\* The server is gone, by SIGPIPE, or caught in its read loop.
Down == ~alive \/ Stuck

\* Every byte a client sends comes back to it if it waits, also one that was
\* sent before accept, unless the server is down or is the edge-triggered one and
\* has dropped a byte of the client.
EchoComplete ==
    \A c \in Clients : \A i \in 1..MaxSend :
        sent[c] >= i ~>
            Len(got[c]) >= i \/ c \in left \/ (variant = "edge" /\ c \in lost) \/ Down

\* The descriptor of a client that has finished is closed, unless the server is
\* down.
HangupNoticed ==
    \A c \in Clients : c \in fin ~> conn[c] = "closed" \/ Down

\* The read loop of the edge-triggered server ends: echo_EPETserv.c:86 says the
\* branch that leaves it is taken when all input has been read.
DrainEnds == pc \in {"drain", "write"} ~> pc = "loop" \/ ~alive
=============================================================================
