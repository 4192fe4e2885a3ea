----------------------------- MODULE EdgeServer -----------------------------
(***************************************************************************)
(* echo_EPETserv.c: connections are edge triggered and non-blocking, and   *)
(* an event is answered by reading until EAGAIN.  The loop has no other    *)
(* way out: after end of file the descriptor is closed, read fails with    *)
(* EBADF for ever, and that is no step here (Stuck).                       *)
(***************************************************************************)
EXTENDS EchoSockets

-----------------------------------------------------------------------------
\* A variant of AfterWrite, used to show that EdgeNotLost can fail.
LeaveAfterOneRead == "loop"                 \* no loop around read

-----------------------------------------------------------------------------
\* The listening socket, non-blocking, is added without EPOLLET.
EdgeInit == SocketsInit

\* Where the server goes after it has written what it read: to the next read.
AfterWrite == "drain"

\* Registering the connection of c is an edge if it is readable already.
EdgesAfterAdd(c) ==
    IF inbuf[c] # <<>> \/ c \in fin THEN edges \cup {LowestFree} ELSE edges

\* The listening socket is level triggered.
EdgeWait ==
    /\ alive /\ pc = "loop" /\ events = {}
    /\ LET ready == edges \cup {f \in {Listener} : Readable(f)}
       IN  ready # {} /\ events' = ready
    /\ edges' = {}
    /\ UNCHANGED <<netVars, alive, file, watched, armed, pc, cur, buf>>

EdgeAccept ==
    /\ alive /\ pc = "loop" /\ Listener \in events
    /\ \E c \in Pending :
          /\ conn' = [conn EXCEPT ![c] = "open"]
          /\ file' = [file EXCEPT ![LowestFree] = c]
          /\ edges' = EdgesAfterAdd(c)
    /\ watched' = watched \cup {LowestFree} /\ armed' = armed \cup {LowestFree}
    /\ events' = events \ {Listener}
    /\ UNCHANGED <<sent, inbuf, outVars, fin, left, rst, alive, pc, cur, buf>>

\* The inner loop is entered for an event of a connection.
EdgeEvent ==
    /\ alive /\ pc = "loop"
    /\ \E f \in events \ {Listener} : events' = events \ {f} /\ cur' = f
    /\ pc' = "drain"
    /\ UNCHANGED <<netVars, alive, file, kernelVars, buf>>

\* One read of the inner loop: data; end of file, after which the loop goes on;
\* an error that is not EAGAIN, likewise; or EAGAIN, the way out.
EdgeRead ==
    /\ alive /\ pc = "drain"
    /\ \/ /\ ReadData(cur) /\ pc' = "write"
          /\ UNCHANGED <<conn, rst, file, kernelVars>>
       \/ /\ AtEof(cur)
          /\ watched' = watched \ {cur} /\ Close(cur)
          /\ UNCHANGED <<inbuf, rst, pc, cur, buf>>
       \/ /\ ReadReset(cur)
          /\ UNCHANGED <<conn, inbuf, file, kernelVars, pc, cur, buf>>
       \/ /\ file[cur] # None /\ ~Readable(cur) /\ pc' = "loop"
          /\ UNCHANGED <<conn, inbuf, rst, file, kernelVars, cur, buf>>
    /\ UNCHANGED <<sent, outVars, fin, left, alive, events>>

EdgeWrite ==
    /\ alive /\ pc = "write" /\ WriteSome
    /\ pc' = AfterWrite
    /\ UNCHANGED <<conn, sent, inbuf, fin, left, rst, file, kernelVars, events, cur>>

EdgeStep == EdgeWait \/ EdgeAccept \/ EdgeEvent \/ EdgeRead \/ EdgeWrite

\* The inner loop can no longer be left.
Stuck == pc = "drain" /\ cur # Listener /\ file[cur] = None
=============================================================================
