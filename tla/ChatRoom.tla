------------------------------ MODULE ChatRoom ------------------------------
(***************************************************************************)
(* chat_server.c and chat_client.c together: ChatServer with clients that  *)
(* read what they are sent in a thread of their own (recv_msg), and with   *)
(* sockets that hold Room chunks between the two.  A write to a client     *)
(* that is behind waits, with mutex held.                                  *)
(*                                                                         *)
(* The sending thread of a client is Say and Leave of ChatServer, which    *)
(* also stands for an interrupt.  What happens to the clients when the     *)
(* server has ended is here.                                               *)
(***************************************************************************)
EXTENDS ChatServer

CONSTANT Room       \* chunks sent to a client and not read by it

ASSUME RoomAssumption == Room \in Nat

VARIABLES
    shown,      \* of each client: chunks it has printed
    receiver,   \* of each client: recv_msg is in its loop, or has returned
    broken      \* clients that have written to the server after its end

listenVars == <<shown, receiver, broken>>
roomVars   == <<vars, listenVars>>

RoomInit ==
    /\ Init
    /\ shown = [c \in Clients |-> 0] /\ receiver = [c \in Clients |-> "read"]
    /\ broken = {}

-----------------------------------------------------------------------------
\* A variant of AfterChunk, used to show that Relayed can fail.
OneChunk == "ended"                 \* no loop around read

-----------------------------------------------------------------------------
\* A write to c does not block.
HasRoom(c) == c \in Clients \ left => Len(inbox[c]) < shown[c] + Room

\* The loop of recv_msg goes on.
AfterChunk == "read"

Running(c) == c \in (backlog \cup accepted) \ left

\* recv_msg: read returns a chunk, which is printed; also when the server has
\* ended.
Hear(c) ==
    /\ Running(c) /\ receiver[c] = "read" /\ shown[c] < Len(inbox[c])
    /\ shown' = [shown EXCEPT ![c] = @ + 1]
    /\ receiver' = [receiver EXCEPT ![c] = AfterChunk]
    /\ UNCHANGED <<vars, broken>>

\* The server has ended with input of c unread, or c has written since: the
\* connection is reset.
WasReset(c) == ~alive /\ (outbox[c] # <<>> \/ c \in broken)

\* recv_msg: read returns -1 and the thread ends; main stays in the join of the
\* sending thread.  (On a mere end of file read returns 0 for ever and recv_msg
\* spins, which is no step here.)
HearReset(c) ==
    /\ Running(c) /\ WasReset(c)
    /\ receiver[c] = "read" /\ shown[c] = Len(inbox[c])
    /\ receiver' = [receiver EXCEPT ![c] = "ended"]
    /\ UNCHANGED <<vars, shown, broken>>

\* send_msg after the end of the server: the first write goes out and brings a
\* reset, a later one fails or raises SIGPIPE.
SayInVain(c) ==
    /\ Running(c) /\ ~alive
    /\ broken' = broken \cup {c}
    /\ left' \in IF WasReset(c) THEN {left, left \cup {c}} ELSE {left}
    /\ UNCHANGED <<backlog, accepted, outbox, said, inbox, alive, file, tableVars, mutex,
                   mainVars, handVars, shown, receiver>>

\* The user types q after the end of the server.
Quit(c) ==
    /\ Running(c) /\ ~alive
    /\ left' = left \cup {c}
    /\ UNCHANGED <<backlog, accepted, outbox, said, inbox, alive, file, tableVars, mutex,
                   mainVars, handVars, listenVars>>

-----------------------------------------------------------------------------
\* send_msg of the server waits for room in the socket it writes to.
RoomHandler(h) ==
    /\ HandlerStep(h)
    /\ hpc[h] = "send" /\ hi[h] < cli_cnt => HasRoom(RefersTo(cli_socks[hi[h]]))
    /\ UNCHANGED listenVars

RoomMain == MainStep /\ UNCHANGED listenVars

RoomClient(c) ==
    \/ (Connect(c) \/ Say(c) \/ Leave(c)) /\ UNCHANGED listenVars
    \/ Hear(c) \/ HearReset(c) \/ SayInVain(c) \/ Quit(c)

RoomNext ==
    \/ RoomMain
    \/ \E h \in Threads : RoomHandler(h)
    \/ \E c \in Clients : RoomClient(c)

RoomSpec == RoomInit /\ [][RoomNext]_roomVars
=============================================================================
