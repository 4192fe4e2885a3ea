------------------------------ MODULE UdpEcho ------------------------------
(***************************************************************************)
(* uecho_server.c and uecho_client.c.  The server takes its port from      *)
(* argv[0], the name of the program, which atoi makes 0: it gets a port of *)
(* the kernel's choice.  The client binds its socket to the very address   *)
(* it then sends to, and so receives its own datagrams.                    *)
(*                                                                         *)
(* An address stands for a host and a port; a client may be started with   *)
(* any.  Strangers are programs that are not in the repository and send to *)
(* any address; a datagram of theirs may be lost.  All sockets are on one  *)
(* host.                                                                   *)
(***************************************************************************)
EXTENDS Integers, Sequences, FiniteSets

CONSTANTS
    Senders,            \* the clients
    Addresses,
    Chosen,             \* the address the kernel gives the server
    Outside,            \* the address of the strangers
    MaxSent,            \* bound: datagrams of each client, and of the strangers
    Nothing             \* no owner, no datagram

ASSUME UdpAssumption ==
    /\ {Chosen, Outside} \subseteq Addresses /\ Chosen # Outside
    /\ Nothing \notin Senders \cup {"server", "stranger"}
    /\ {"server", "stranger"} \cap Senders = {}

VARIABLES
    given,      \* the address each client is started with
    bound,      \* whom each address belongs to
    queue,      \* datagrams received at each address: from, owner, number
    ucpc,       \* of each client: program counter
    tried, back,\* of each client: messages sent, the datagram last received
    strange     \* datagrams sent by strangers

udpVars == <<given, bound, queue, ucpc, tried, back, strange>>

-----------------------------------------------------------------------------
\* The address the server is bound to.
ServerAddress == Chosen

\* bind fails: EADDRINUSE.
InUse(a) == bound[a] # Nothing

\* Where the server sends what it has received.
ReplyTo(d) == d[1]

\* The queue of a after the arrival of d.
Arrived(a, d) == Append(queue[a], d)

UdpInit ==
    /\ given \in [Senders -> Addresses]
    /\ bound = [a \in Addresses |-> IF a = ServerAddress THEN "server"
                                    ELSE IF a = Outside THEN "stranger" ELSE Nothing]
    /\ queue = [a \in Addresses |-> <<>>]
    /\ ucpc = [c \in Senders |-> "bind"] /\ tried = [c \in Senders |-> 0]
    /\ back = [c \in Senders |-> Nothing] /\ strange = 0

\* bind, or the exit when the address is in use.
UdpBind(c) ==
    /\ ucpc[c] = "bind"
    /\ IF InUse(given[c])
       THEN UNCHANGED bound /\ ucpc' = [ucpc EXCEPT ![c] = "gone"]
       ELSE bound' = [bound EXCEPT ![given[c]] = c] /\ ucpc' = [ucpc EXCEPT ![c] = "type"]
    /\ UNCHANGED <<given, queue, tried, back, strange>>

\* sendto the address given, from the address given.
UdpSend(c) ==
    /\ ucpc[c] = "type" /\ tried[c] < MaxSent
    /\ tried' = [tried EXCEPT ![c] = @ + 1]
    /\ queue' = [queue EXCEPT ![given[c]] =
                    Arrived(given[c], <<given[c], c, tried[c] + 1>>)]
    /\ ucpc' = [ucpc EXCEPT ![c] = "wait"]
    /\ UNCHANGED <<given, bound, back, strange>>

\* recvfrom: whatever has come; it is printed as the message from the server.
\* Every datagram of these programs fills the array, and the zero that ends it is
\* written behind the array.
UdpReceive(c) ==
    /\ ucpc[c] = "wait" /\ queue[given[c]] # <<>>
    /\ back' = [back EXCEPT ![c] = Head(queue[given[c]])]
    /\ queue' = [queue EXCEPT ![given[c]] = Tail(@)]
    /\ \E next \in {"type", "undefined"} : ucpc' = [ucpc EXCEPT ![c] = next]
    /\ UNCHANGED <<given, bound, tried, strange>>

\* q, or the end of a client in an undefined state: the socket is closed, and its
\* queue with it.
UdpQuit(c) ==
    /\ ucpc[c] \in {"type", "undefined"}
    /\ ucpc' = [ucpc EXCEPT ![c] = "gone"]
    /\ bound' = [bound EXCEPT ![given[c]] = Nothing]
    /\ queue' = [queue EXCEPT ![given[c]] = <<>>]
    /\ UNCHANGED <<given, tried, back, strange>>

\* The server: recvfrom, and sendto where the datagram came from.
ServerEcho ==
    /\ queue[ServerAddress] # <<>>
    /\ LET d == Head(queue[ServerAddress])
       IN  queue' = [queue EXCEPT ![ServerAddress] = Tail(@),
                 ![ReplyTo(d)] = Arrived(ReplyTo(d), <<ServerAddress, d[2], d[3]>>)]
    /\ UNCHANGED <<given, bound, ucpc, tried, back, strange>>

\* A stranger sends to an address that is bound.
Stranger ==
    /\ strange < MaxSent /\ strange' = strange + 1
    /\ \E a \in Addresses \ {Outside} :
          /\ bound[a] # Nothing
          /\ queue' = [queue EXCEPT ![a] = Arrived(a, <<Outside, Outside, strange + 1>>)]
    /\ UNCHANGED <<given, bound, ucpc, tried, back>>

UdpNext ==
    \/ ServerEcho \/ Stranger
    \/ \E c \in Senders : UdpBind(c) \/ UdpSend(c) \/ UdpReceive(c) \/ UdpQuit(c)

UdpSpec == UdpInit /\ [][UdpNext]_udpVars

-----------------------------------------------------------------------------
\* What a client prints as "Message from server" (uecho_client.c:53) is from the
\* server, unless strangers send.
FromServer ==
    strange = 0 => \A c \in Senders : back[c] # Nothing => back[c][1] = ServerAddress
=============================================================================
