----------------------------- MODULE EpollServer -----------------------------
(***************************************************************************)
(* echo_epollserv.c: level-triggered epoll.  A round handles the events    *)
(* epoll_wait returned, in the order of the kernel, with one read each.    *)
(* EPOLL_CTL_ADD with a null event, where a removal is meant, fails; the   *)
(* close that follows removes the descriptor.                              *)
(***************************************************************************)
EXTENDS EchoSockets

-----------------------------------------------------------------------------
\* A variant of the operator below, used to show that the properties can fail.
NotAdded(f) == watched                      \* epoll_ctl left out

-----------------------------------------------------------------------------
\* epoll_create, and the listening socket added to the instance.
EpollInit == SocketsInit

\* epoll_ctl(epfd, EPOLL_CTL_ADD, f, &event)
Added(f) == watched \cup {f}

\* All that is ready is reported: the 50 of EPOLL_SIZE are not reached.
EpollWait ==
    /\ alive /\ pc = "loop" /\ events = {}
    /\ \E f \in watched : Readable(f)
    /\ events' = {f \in watched : Readable(f)}
    /\ UNCHANGED <<netVars, alive, file, kernelVars, pc, cur, buf>>

EpollAccept ==
    /\ alive /\ pc = "loop" /\ Listener \in events
    /\ \E c \in Pending :
          /\ conn' = [conn EXCEPT ![c] = "open"]
          /\ file' = [file EXCEPT ![LowestFree] = c]
    /\ watched' = Added(LowestFree)
    /\ events' = events \ {Listener}
    /\ UNCHANGED <<sent, inbuf, outVars, fin, left, rst, alive, armed, edges, pc, cur, buf>>

\* An error is no end of file: write is called with length -1, in vain.
EpollRead ==
    /\ alive /\ pc = "loop"
    /\ \E f \in events \ {Listener} :
          /\ events' = events \ {f}
          /\ \/ /\ ReadData(f) /\ pc' = "write"
                /\ UNCHANGED <<conn, rst, file, kernelVars>>
             \/ /\ AtEof(f)
                /\ watched' = watched \ {f} /\ Close(f)
                /\ UNCHANGED <<inbuf, rst, pc, cur, buf>>
             \/ /\ ReadReset(f)
                /\ UNCHANGED <<conn, inbuf, file, kernelVars, pc, cur, buf>>
    /\ UNCHANGED <<sent, outVars, fin, left, alive>>

EpollWrite ==
    /\ alive /\ pc = "write" /\ WriteAll
    /\ pc' = IF buf' = <<>> THEN "loop" ELSE "write"
    /\ UNCHANGED <<conn, sent, inbuf, fin, left, rst, file, kernelVars, events, cur>>

EpollStep == EpollWait \/ EpollAccept \/ EpollRead \/ EpollWrite
=============================================================================
