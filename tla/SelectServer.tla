---------------------------- MODULE SelectServer ----------------------------
(***************************************************************************)
(* echo_selectserv.c: one round is a copy of the set reads, select, and a  *)
(* loop over the descriptors up to fd_max that select left in the copy.    *)
(* The five-second timeout only starts another round, which is no step.    *)
(***************************************************************************)
EXTENDS EchoSockets

VARIABLE fd_max

selectVars == <<socketVars, fd_max>>

SelectInit == SocketsInit /\ fd_max = Listener

-----------------------------------------------------------------------------
\* Variants of the operators below, used to show that the properties can fail.
EveryWatched(ready) == watched              \* FD_ISSET(i, &reads)
KeptInSet(f) == watched                     \* FD_CLR left out
MaxUnchanged(f) == fd_max                   \* fd_max not raised

-----------------------------------------------------------------------------
\* The descriptors the loop tests positive: those select left in cpy_reads.
LoopSet(ready) == ready

\* FD_CLR(f, &reads)
Cleared(f) == watched \ {f}

\* if (fd_max < f) fd_max = f
Raised(f) == IF fd_max < f THEN f ELSE fd_max

\* The loop goes up: the listener first, then the connections in order.
FirstEvent == CHOOSE f \in events : \A g \in events : f <= g

SelectWait ==
    /\ alive /\ pc = "loop" /\ events = {}
    /\ LET ready == {f \in watched : f <= fd_max /\ Readable(f)}
       IN  ready # {} /\ events' = LoopSet(ready)
    /\ UNCHANGED <<netVars, alive, file, kernelVars, pc, cur, buf, fd_max>>

SelectAccept ==
    /\ alive /\ pc = "loop" /\ Listener \in events
    /\ \E c \in Pending :
          /\ conn' = [conn EXCEPT ![c] = "open"]
          /\ file' = [file EXCEPT ![LowestFree] = c]
    /\ watched' = watched \cup {LowestFree}
    /\ fd_max' = Raised(LowestFree)
    /\ events' = events \ {Listener}
    /\ UNCHANGED <<sent, inbuf, outVars, fin, left, rst, alive, armed, edges, pc, cur, buf>>

\* read: data to be written back, end of file, or an error, for which the code
\* calls write with length -1, in vain.
SelectRead ==
    /\ alive /\ pc = "loop" /\ events # {} /\ FirstEvent # Listener
    /\ events' = events \ {FirstEvent}
    /\ \/ /\ ReadData(FirstEvent) /\ pc' = "write"
          /\ UNCHANGED <<conn, rst, file, kernelVars>>
       \/ /\ AtEof(FirstEvent)
          /\ watched' = Cleared(FirstEvent) /\ Close(FirstEvent)
          /\ UNCHANGED <<inbuf, rst, pc, cur, buf>>
       \/ /\ ReadReset(FirstEvent)
          /\ UNCHANGED <<conn, inbuf, file, kernelVars, pc, cur, buf>>
    /\ UNCHANGED <<sent, outVars, fin, left, alive, fd_max>>

SelectWrite ==
    /\ alive /\ pc = "write" /\ WriteAll
    /\ pc' = IF buf' = <<>> THEN "loop" ELSE "write"
    /\ UNCHANGED <<conn, sent, inbuf, fin, left, rst, file, kernelVars, events, cur, fd_max>>

SelectStep == SelectWait \/ SelectAccept \/ SelectRead \/ SelectWrite
=============================================================================
