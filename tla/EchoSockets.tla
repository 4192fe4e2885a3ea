----------------------------- MODULE EchoSockets -----------------------------
(***************************************************************************)
(* What the three single-threaded echo servers (echo_selectserv.c,         *)
(* echo_epollserv.c, echo_EPETserv.c) share: their clients, the sockets    *)
(* between them, the descriptors of the server and the events the kernel   *)
(* has for it.                                                             *)
(*                                                                         *)
(* Descriptor 0 stands for the listening socket, 1..MaxFd for connections. *)
(* Bytes are numbered per client.  accept does not fail: it does not run   *)
(* out of descriptors, and a client that resets its connection early still *)
(* gets one.                                                               *)
(***************************************************************************)
EXTENDS Integers, Sequences, FiniteSets

CONSTANTS
    Clients,    \* connections, each made at most once
    MaxFd,      \* descriptors 1..MaxFd are available to accept
    MaxSend,    \* bound: bytes a client sends
    BufSize,    \* BUF_SIZE
    Room,       \* returned bytes the sockets hold for a client that does not read
    None        \* a closed descriptor

ASSUME SocketAssumption ==
    /\ IsFiniteSet(Clients) /\ None \notin Clients
    /\ MaxFd \in Nat /\ Cardinality(Clients) <= MaxFd
    /\ MaxSend \in Nat /\ BufSize \in Nat \ {0} /\ Room \in Nat \ {0}

VARIABLES
    \* connections: where each stands, bytes sent, bytes in the receive buffer
    \* of the server, bytes returned before the first that was dropped, how many
    \* returned ones the client has not read; who has shut down, closed, was reset,
    \* and of whom a byte was dropped
    conn, sent, inbuf, got, unread, fin, left, rst, lost,
    \* the process: is it running, and what its descriptors refer to
    alive, file,
    \* the kernel's view: descriptors to report on, those of them that are edge
    \* triggered, and the edges not yet reported
    watched, armed, edges,
    \* the server: program counter, events of this round still to be handled,
    \* descriptor and content of buf
    pc, events, cur, buf

outVars    == <<got, unread, lost>>
netVars    == <<conn, sent, inbuf, outVars, fin, left, rst>>
kernelVars == <<watched, armed, edges>>
serverVars == <<pc, events, cur, buf>>
socketVars == <<netVars, alive, file, kernelVars, serverVars>>

Listener == 0
Fds == 1..MaxFd
AllBytes == Clients \X (1..MaxSend)

SocketsTyped ==
    /\ conn \in [Clients -> {"none", "backlog", "open", "closed"}]
    /\ sent \in [Clients -> 0..MaxSend]
    /\ inbuf \in [Clients -> Seq(AllBytes)] /\ got \in [Clients -> Seq(AllBytes)]
    /\ unread \in [Clients -> 0..Room]
    /\ fin \subseteq Clients /\ left \subseteq Clients
    /\ rst \subseteq Clients /\ lost \subseteq Clients
    /\ alive \in BOOLEAN /\ file \in [Fds -> Clients \cup {None}]
    /\ watched \subseteq Fds \cup {Listener}
    /\ armed \subseteq Fds /\ edges \subseteq armed
    /\ pc \in {"loop", "drain", "write"} /\ events \subseteq Fds \cup {Listener}
    /\ cur \in Fds \cup {Listener} /\ buf \in Seq(AllBytes)

\* socket, bind, listen, and the listening socket in the set to watch.
SocketsInit ==
    /\ conn = [c \in Clients |-> "none"] /\ sent = [c \in Clients |-> 0]
    /\ inbuf = [c \in Clients |-> <<>>] /\ got = [c \in Clients |-> <<>>]
    /\ unread = [c \in Clients |-> 0]
    /\ fin = {} /\ left = {} /\ rst = {} /\ lost = {}
    /\ alive = TRUE /\ file = [f \in Fds |-> None]
    /\ watched = {Listener} /\ armed = {} /\ edges = {}
    /\ pc = "loop" /\ events = {} /\ cur = Listener /\ buf = <<>>

-----------------------------------------------------------------------------
\* A variant of ReadData, used to show that the properties can fail.
Peek(f) ==                                                \* read takes nothing
    /\ file[f] # None /\ inbuf[file[f]] # <<>>
    /\ buf' = <<Head(inbuf[file[f]])>> /\ cur' = f
    /\ UNCHANGED inbuf

-----------------------------------------------------------------------------
\* The edges after something has arrived from c: one for its descriptor, if that
\* is edge triggered.
Arrival(c) == edges \cup {f \in armed : file[f] = c}

\* The connections accept may return.
Pending == {c \in Clients : conn[c] = "backlog"}

\* read would not block on f; accept would not block on the listener.
Readable(f) ==
    IF f = Listener THEN Pending # {}
    ELSE file[f] # None /\ (inbuf[file[f]] # <<>> \/ file[f] \in fin \cup rst)

\* The descriptor accept returns: the lowest one that is closed.
LowestFree == CHOOSE f \in Fds : /\ file[f] = None
                                 /\ \A g \in 1..(f - 1) : file[g] # None

\* connect completes in the kernel, before accept.
Connect(c) ==
    /\ alive /\ conn[c] = "none"
    /\ conn' = [conn EXCEPT ![c] = "backlog"]
    /\ UNCHANGED <<sent, inbuf, outVars, fin, left, rst, alive, file, kernelVars, serverVars>>

\* A client sends a byte.
Send(c) ==
    /\ alive /\ conn[c] \in {"backlog", "open"} /\ c \notin fin /\ sent[c] < MaxSend
    /\ sent' = [sent EXCEPT ![c] = @ + 1]
    /\ inbuf' = [inbuf EXCEPT ![c] = Append(@, <<c, sent[c] + 1>>)]
    /\ edges' = Arrival(c)
    /\ UNCHANGED <<conn, outVars, fin, left, rst, alive, file, watched, armed, serverVars>>

\* shutdown(SHUT_WR): the client will send no more, but still reads.
Finish(c) ==
    /\ alive /\ conn[c] \in {"backlog", "open"} /\ c \notin fin
    /\ fin' = fin \cup {c}
    /\ edges' = Arrival(c)
    /\ UNCHANGED <<conn, sent, inbuf, outVars, left, rst, alive, file, watched, armed,
                   serverVars>>

\* close, or the end of the client.  If the client has unread input the
\* connection is reset: after what has arrived a read of the server fails.
Leave(c) ==
    /\ alive /\ conn[c] \in {"backlog", "open"} /\ c \notin left
    /\ left' = left \cup {c} /\ fin' = fin \cup {c}
    /\ rst' \in {rst, rst \cup {c}}
    /\ edges' = Arrival(c)
    /\ UNCHANGED <<conn, sent, inbuf, outVars, alive, file, watched, armed, serverVars>>

\* A client reads some of what has been returned to it.
Read(c) ==
    /\ alive /\ c \notin left
    /\ \E n \in 0..(unread[c] - 1) : unread' = [unread EXCEPT ![c] = n]
    /\ UNCHANGED <<conn, sent, inbuf, got, fin, left, rst, lost, alive, file, kernelVars,
                   serverVars>>

ClientStep(c) == Connect(c) \/ Send(c) \/ Finish(c) \/ Leave(c) \/ Read(c)

-----------------------------------------------------------------------------
\* Calls of the server, on the connection a descriptor refers to.

\* read returns min(BufSize, what is there) bytes, more than 0.
ReadData(f) ==
    LET c == file[f]
        n == IF Len(inbuf[c]) < BufSize THEN Len(inbuf[c]) ELSE BufSize
    IN  /\ c # None /\ n > 0
        /\ buf' = SubSeq(inbuf[c], 1, n)
        /\ inbuf' = [inbuf EXCEPT ![c] = SubSeq(@, n + 1, Len(@))]
        /\ cur' = f

\* read returns 0.
AtEof(f) ==
    LET c == file[f] IN c # None /\ c \in fin \ rst /\ inbuf[c] = <<>>

\* read returns -1 with ECONNRESET, once.
ReadReset(f) ==
    /\ file[f] # None /\ file[f] \in rst /\ inbuf[file[f]] = <<>>
    /\ rst' = rst \ {file[f]}

\* close(f); a closed descriptor also leaves an epoll instance.
Close(f) ==
    /\ conn' = [conn EXCEPT ![file[f]] = "closed"]
    /\ file' = [file EXCEPT ![f] = None]
    /\ armed' = armed \ {f} /\ edges' = edges \ {f}

\* write(cur, buf, str_len) takes what there is room for.
Written ==
    LET room == Room - unread[file[cur]]
    IN  IF Len(buf) < room THEN Len(buf) ELSE room

Return(c, n) ==
    /\ unread' = [unread EXCEPT ![c] = @ + n]
    /\ got' = IF c \in lost THEN got ELSE [got EXCEPT ![c] = @ \o SubSeq(buf, 1, n)]
    /\ UNCHANGED alive

\* A client that has left may answer with SIGPIPE, which no server handles.
WriteInVain ==
    /\ file[cur] \in left /\ alive' \in BOOLEAN
    /\ buf' = <<>> /\ UNCHANGED outVars

\* A blocking write returns when all of buf is taken, and waits for a client that
\* does not read.
WriteAll ==
    \/ WriteInVain
    \/ /\ file[cur] \notin left /\ Written > 0
       /\ Return(file[cur], Written)
       /\ buf' = SubSeq(buf, Written + 1, Len(buf)) /\ UNCHANGED lost

\* A non-blocking write returns at once, short or with EAGAIN; nobody looks, and
\* what it has not taken is dropped.
WriteSome ==
    \/ WriteInVain
    \/ /\ file[cur] \notin left
       /\ Return(file[cur], Written)
       /\ lost' = IF Written < Len(buf) THEN lost \cup {file[cur]} ELSE lost
       /\ buf' = <<>>
=============================================================================
