----------------------------- MODULE ChatServer -----------------------------
(***************************************************************************)
(* chat_server.c: the main thread accepts connections and registers their  *)
(* descriptors in cli_socks; one detached thread per connection relays     *)
(* what it reads to every registered descriptor and, at end of file,       *)
(* removes an entry and closes its descriptor.                             *)
(*                                                                         *)
(* The abstractions: a read returns one chunk, whole; pthread_create       *)
(* succeeds; a write does not block (ChatRoom adds when it does); fewer    *)
(* than MAX_CLI calls of accept return.  A thread is named after the call  *)
(* of accept it was created for: the connection, which need not be the     *)
(* one it reads (see HandlerStart), or the failure.                        *)
(***************************************************************************)
EXTENDS Integers, Sequences, FiniteSets

CONSTANTS
    Clients,    \* connections, each made at most once
    Failures,   \* calls of accept that fail
    MaxFd,      \* descriptors 1..MaxFd are available to accept
    MaxCli,     \* MAX_CLI, the size of cli_socks
    MaxSay,     \* bound: chunks a client sends
    None        \* an unlocked mutex, a closed descriptor, no client

ASSUME ChatAssumption ==
    /\ IsFiniteSet(Clients) /\ IsFiniteSet(Failures) /\ Clients \cap Failures = {}
    /\ None \notin Clients \cup Failures
    /\ MaxCli \in Nat /\ Cardinality(Clients \cup Failures) < MaxCli
    /\ MaxFd \in Nat /\ Cardinality(Clients) <= MaxFd
    /\ MaxSay \in Nat

VARIABLES
    \* the clients: which have connected, been accepted, closed their socket;
    \* what they sent that is still unread, how many they sent, what they got
    backlog, accepted, left, outbox, said, inbox,
    \* the process: is it running, and what its descriptors refer to
    alive, file,
    \* under mutex
    cli_socks, cli_cnt, mutex,
    \* main: program counter, its cli_sock, the call of accept that set it
    mpc, cli_sock, newest,
    \* handlers: program counter, their own cli_sock, msg, index of send_msg
    hpc, hsock, hmsg, hi

clientVars == <<backlog, accepted, left, outbox, said, inbox>>
mainVars   == <<mpc, cli_sock, newest>>
handVars   == <<hpc, hsock, hmsg, hi>>
tableVars  == <<cli_socks, cli_cnt>>
vars == <<clientVars, alive, file, tableVars, mutex, mainVars, handVars>>

Threads == Clients \cup Failures
Fds == 1..MaxFd
Failed == -1                        \* what a failing accept returns
Chunks == Clients \X (1..MaxSay)
HandlerPC == {"none", "start", "read", "lock", "send", "remove", "close", "gone"}

TypeOK ==
    /\ backlog \subseteq Clients /\ accepted \subseteq Clients /\ left \subseteq Clients
    /\ outbox \in [Clients -> Seq(Chunks)] /\ inbox \in [Clients -> Seq(Chunks)]
    /\ said \in [Clients -> 0..MaxSay]
    /\ alive \in BOOLEAN /\ file \in [Fds -> Clients \cup {None}]
    /\ cli_socks \in [0..MaxCli -> Fds \cup {0, Failed}] /\ cli_cnt \in 0..MaxCli
    /\ mutex \in Threads \cup {None}
    /\ mpc \in {"accept", "register", "create"}
    /\ cli_sock \in Fds \cup {0, Failed} /\ newest \in Threads \cup {None}
    /\ hpc \in [Threads -> HandlerPC] /\ hsock \in [Threads -> Fds \cup {0, Failed}]
    /\ hmsg \in [Threads -> Chunks \cup {None}] /\ hi \in [Threads -> Nat]

-----------------------------------------------------------------------------
\* Variants of the operators below, used to show that the properties can fail.
LockIgnored == TRUE                          \* the lock left out
FromSecond == 1                              \* the loop starts at 1
NotCounted == cli_cnt                        \* cli_cnt-- left out

-----------------------------------------------------------------------------
\* pthread_mutex_lock goes through.
MutexFree == mutex = None

\* The first index of the loop in send_msg.
FirstIndex == 0

\* cli_cnt--
CountAfterRemoval == cli_cnt - 1

\* The table after the loop of handle_cli: whatever descriptor is to go, entry 0
\* stays and entries 2..cli_cnt (one past the last) move down by one.
TableAfterRemoval ==
    [k \in 0..MaxCli |-> IF k >= 1 /\ k <= cli_cnt - 1 THEN cli_socks[k + 1]
                         ELSE cli_socks[k]]

\* The descriptor accept returns: the lowest one that is closed.
LowestFree == CHOOSE f \in Fds : /\ file[f] = None
                                 /\ \A g \in 1..(f - 1) : file[g] # None

\* What a descriptor refers to.
RefersTo(f) == IF f \in Fds THEN file[f] ELSE None

\* The mutex and the table are zeroed globals.
Init ==
    /\ backlog = {} /\ accepted = {} /\ left = {}
    /\ outbox = [c \in Clients |-> <<>>] /\ inbox = [c \in Clients |-> <<>>]
    /\ said = [c \in Clients |-> 0]
    /\ alive = TRUE /\ file = [f \in Fds |-> None]
    /\ cli_socks = [k \in 0..MaxCli |-> 0] /\ cli_cnt = 0 /\ mutex = None
    /\ mpc = "accept" /\ cli_sock = 0 /\ newest = None
    /\ hpc = [h \in Threads |-> "none"] /\ hsock = [h \in Threads |-> 0]
    /\ hmsg = [h \in Threads |-> None] /\ hi = [h \in Threads |-> 0]

-----------------------------------------------------------------------------
\* The clients.

\* connect completes in the kernel, before accept.
Connect(c) ==
    /\ alive /\ c \notin backlog \cup accepted
    /\ backlog' = backlog \cup {c}
    /\ UNCHANGED <<accepted, left, outbox, said, inbox, alive, file, tableVars,
                   mutex, mainVars, handVars>>

\* A connected client sends a chunk.
Say(c) ==
    /\ alive /\ c \in (backlog \cup accepted) \ left /\ said[c] < MaxSay
    /\ said' = [said EXCEPT ![c] = @ + 1]
    /\ outbox' = [outbox EXCEPT ![c] = Append(@, <<c, said[c] + 1>>)]
    /\ UNCHANGED <<backlog, accepted, left, inbox, alive, file, tableVars,
                   mutex, mainVars, handVars>>

\* A client closes its socket.  If it had unread input the connection is reset
\* and what the server has not read is lost.
Leave(c) ==
    /\ alive /\ c \in (backlog \cup accepted) \ left
    /\ left' = left \cup {c}
    /\ outbox' \in {outbox, [outbox EXCEPT ![c] = <<>>]}
    /\ UNCHANGED <<backlog, accepted, said, inbox, alive, file, tableVars,
                   mutex, mainVars, handVars>>

-----------------------------------------------------------------------------
\* The main thread.

\* accept stores a new descriptor in the one variable cli_sock of main.
MainAccept ==
    /\ alive /\ mpc = "accept"
    /\ \E c \in backlog :
          /\ backlog' = backlog \ {c} /\ accepted' = accepted \cup {c}
          /\ file' = [file EXCEPT ![LowestFree] = c]
          /\ newest' = c
    /\ cli_sock' = LowestFree
    /\ mpc' = "register"
    /\ UNCHANGED <<left, outbox, said, inbox, alive, tableVars, mutex, handVars>>

\* accept fails (ECONNABORTED, EMFILE): -1 is treated like a descriptor.
MainAcceptFails ==
    /\ alive /\ mpc = "accept"
    /\ newest' \in {f \in Failures : hpc[f] = "none"}
    /\ cli_sock' = Failed
    /\ mpc' = "register"
    /\ UNCHANGED <<clientVars, alive, file, tableVars, mutex, handVars>>

\* Under mutex: cli_socks[cli_cnt++] = cli_sock.
MainRegister ==
    /\ alive /\ mpc = "register" /\ MutexFree
    /\ cli_socks' = [cli_socks EXCEPT ![cli_cnt] = cli_sock]
    /\ cli_cnt' = cli_cnt + 1
    /\ mpc' = "create"
    /\ UNCHANGED <<clientVars, alive, file, mutex, cli_sock, newest, handVars>>

\* pthread_create with the address of cli_sock as argument; pthread_detach.
MainCreate ==
    /\ alive /\ mpc = "create"
    /\ hpc' = [hpc EXCEPT ![newest] = "start"]
    /\ mpc' = "accept"
    /\ UNCHANGED <<clientVars, alive, file, tableVars, mutex, cli_sock, newest,
                   hsock, hmsg, hi>>

-----------------------------------------------------------------------------
\* The handler threads.

\* cli_sock = *((int *)arg): main's variable, which the next accept may already
\* have overwritten.
HandlerStart(h) ==
    /\ alive /\ hpc[h] = "start"
    /\ hsock' = [hsock EXCEPT ![h] = cli_sock]
    /\ hpc' = [hpc EXCEPT ![h] = "read"]
    /\ UNCHANGED <<clientVars, alive, file, tableVars, mutex, mainVars, hmsg, hi>>

\* read returns a chunk, or 0 when the client has closed and nothing is left.
\* On a closed descriptor, and on -1, it returns -1 for ever and send_msg(msg, -1)
\* writes nothing: the thread spins, which is no step here.
HandlerRead(h) ==
    /\ alive /\ hpc[h] = "read" /\ RefersTo(hsock[h]) # None
    /\ LET c == RefersTo(hsock[h])
       IN  \/ /\ outbox[c] # <<>>
              /\ hmsg' = [hmsg EXCEPT ![h] = Head(outbox[c])]
              /\ outbox' = [outbox EXCEPT ![c] = Tail(@)]
              /\ hpc' = [hpc EXCEPT ![h] = "lock"]
           \/ /\ outbox[c] = <<>> /\ c \in left
              /\ hpc' = [hpc EXCEPT ![h] = "remove"]
              /\ UNCHANGED <<hmsg, outbox>>
    /\ UNCHANGED <<backlog, accepted, left, said, inbox, alive, file, tableVars,
                   mutex, mainVars, hsock, hi>>

\* send_msg: lock.
HandlerLock(h) ==
    /\ alive /\ hpc[h] = "lock" /\ MutexFree
    /\ mutex' = h
    /\ hi' = [hi EXCEPT ![h] = FirstIndex]
    /\ hpc' = [hpc EXCEPT ![h] = "send"]
    /\ UNCHANGED <<clientVars, alive, file, tableVars, mainVars, hsock, hmsg>>

\* send_msg: one write of the loop.  A closed descriptor is an ignored error; a
\* peer that has closed may answer with SIGPIPE, which ends the process.
HandlerWrite(h) ==
    /\ alive /\ hpc[h] = "send" /\ hi[h] < cli_cnt
    /\ LET c == RefersTo(cli_socks[hi[h]])
       IN  \/ /\ c # None /\ c \notin left
              /\ inbox' = [inbox EXCEPT ![c] = Append(@, hmsg[h])]
              /\ UNCHANGED alive
           \/ /\ c = None
              /\ UNCHANGED <<inbox, alive>>
           \/ /\ c # None /\ c \in left
              /\ alive' \in BOOLEAN
              /\ UNCHANGED inbox
    /\ hi' = [hi EXCEPT ![h] = @ + 1]
    /\ UNCHANGED <<backlog, accepted, left, outbox, said, file, tableVars, mutex,
                   mainVars, hpc, hsock, hmsg>>

\* send_msg: unlock and return to read.
HandlerUnlock(h) ==
    /\ alive /\ hpc[h] = "send" /\ hi[h] >= cli_cnt
    /\ mutex' = None
    /\ hi' = [hi EXCEPT ![h] = 0]
    /\ hmsg' = [hmsg EXCEPT ![h] = None]
    /\ hpc' = [hpc EXCEPT ![h] = "read"]
    /\ UNCHANGED <<clientVars, alive, file, tableVars, mainVars, hsock>>

\* Under mutex: the removal loop and cli_cnt--.
HandlerRemove(h) ==
    /\ alive /\ hpc[h] = "remove" /\ MutexFree
    /\ cli_socks' = TableAfterRemoval
    /\ cli_cnt' = CountAfterRemoval
    /\ hpc' = [hpc EXCEPT ![h] = "close"]
    /\ UNCHANGED <<clientVars, alive, file, mutex, mainVars, hsock, hmsg, hi>>

\* close(cli_sock): whatever connection the descriptor refers to by now.
HandlerClose(h) ==
    /\ alive /\ hpc[h] = "close"
    /\ file' = [file EXCEPT ![hsock[h]] = None]
    /\ hpc' = [hpc EXCEPT ![h] = "gone"]
    /\ UNCHANGED <<clientVars, alive, tableVars, mutex, mainVars, hsock, hmsg, hi>>

MainStep == MainAccept \/ MainAcceptFails \/ MainRegister \/ MainCreate

HandlerStep(h) ==
    \/ HandlerStart(h) \/ HandlerRead(h)
    \/ HandlerLock(h) \/ HandlerWrite(h) \/ HandlerUnlock(h)
    \/ HandlerRemove(h) \/ HandlerClose(h)

Next ==
    \/ \E c \in Clients : Connect(c) \/ Say(c) \/ Leave(c)
    \/ MainStep
    \/ \E h \in Threads : HandlerStep(h)

Spec == Init /\ [][Next]_vars

-----------------------------------------------------------------------------
\* cli_cnt is the number of registered calls of accept whose handler has not left,
\* although several handlers may serve one descriptor: each removes once.  So
\* send_msg never runs past the table and cli_cnt never goes below zero.
CountExact ==
    cli_cnt = Cardinality({h \in Threads :
                  \/ hpc[h] \in {"start", "read", "lock", "send", "remove"}
                  \/ h = newest /\ mpc = "create"})

\* x comes before y in s.
Before(s, x, y) == \E i, j \in 1..Len(s) : i < j /\ s[i] = x /\ s[j] = y

\* The relay is totally ordered: no two clients (nor one, twice) see two chunks
\* in different orders, because mutex is held over the whole loop of send_msg.
\* It holds through departures, reused and shared descriptors.
SameOrder ==
    \A c, d \in Clients : \A m, n \in Chunks :
        m # n => ~(Before(inbox[c], m, n) /\ Before(inbox[d], n, m))

\* s ends with t.
EndsWith(s, t) ==
    /\ Len(t) <= Len(s)
    /\ t = SubSeq(s, Len(s) - Len(t) + 1, Len(s))

\* Until the first removal everybody present gets everything: between two
\* relays, of two clients in the table the one registered first has received
\* all that the other has, and last.
LatecomersGetSuffix ==
    mutex = None /\ (\A h \in Threads : hpc[h] \notin {"close", "gone"}) =>
        \A i, j \in 0..(cli_cnt - 1) : i < j =>
            LET c == RefersTo(cli_socks[i])
                d == RefersTo(cli_socks[j])
            IN  None \notin {c, d} /\ {c, d} \cap left = {} =>
                    EndsWith(inbox[c], inbox[d])
=============================================================================
