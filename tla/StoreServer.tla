----------------------------- MODULE StoreServer -----------------------------
(***************************************************************************)
(* echo_storeserv.c: the forking server of ForkServer, whose children also *)
(* write each line they answer to a pipe.  A writer, forked before the     *)
(* first accept, copies records from the pipe to a file, MaxReads of them, *)
(* and ends.                                                               *)
(*                                                                         *)
(* Every process keeps both ends of the pipe, so its reader sees no end of *)
(* file and its writers no SIGPIPE: once the writer is gone, the pipe      *)
(* fills.  A record is sizeof(mes) bytes, no more than PIPE_BUF: it is     *)
(* written and read whole.                                                 *)
(***************************************************************************)
EXTENDS ForkServer

CONSTANTS
    Writer,     \* the process that writes the file
    PipeCap,    \* how many records fit into the pipe
    MaxReads    \* the reads of the writer, 10 in main

ASSUME StoreAssumption ==
    /\ Writer \notin Clients \cup {None}
    /\ PipeCap \in Nat \ {0} /\ MaxReads \in Nat

VARIABLES
    wpc, reads,     \* the writer: program counter, reads done
    pipe, file      \* records <<client, line>>

writerVars == <<wpc, reads, pipe, file>>

StoreTyped ==
    /\ wpc \in {"none", "open", "read", "close", "undefined", "zombie", "reaped"}
    /\ reads \in 0..MaxReads /\ Len(pipe) <= PipeCap /\ Len(file) <= reads

\* pipe, and the fork of the writer, which is not checked for failure.
StoreInit ==
    /\ ForkInit
    /\ wpc \in {"open", "none"} /\ reads = 0
    /\ pipe = <<>> /\ file = <<>>

-----------------------------------------------------------------------------
\* A variant of Piped, used to show that the properties can fail.
NoRecord(c) == pipe                 \* write to the pipe left out

-----------------------------------------------------------------------------
\* fopen, which may fail: the writer ends at once.
WriterOpen ==
    /\ wpc = "open" /\ wpc' \in {"read", "close"}
    /\ UNCHANGED <<forkVars, reads, pipe, file>>

\* The loop is over after n reads.
ReadsDone(n) == n >= MaxReads

\* read a record, fputs.  The record fills msgbuf and its terminator is written
\* one past the end, which may do no harm.
WriterRead ==
    /\ wpc = "read" /\ ~ReadsDone(reads) /\ pipe # <<>>
    /\ file' = Append(file, Head(pipe)) /\ pipe' = Tail(pipe)
    /\ reads' = reads + 1
    /\ wpc' \in {"read", "undefined"}
    /\ UNCHANGED forkVars

\* fclose, return; or killed.
WriterEnd ==
    /\ wpc \in {"close", "undefined"} \/ (wpc = "read" /\ ReadsDone(reads))
    /\ wpc' = "zombie"
    /\ Raise
    /\ UNCHANGED <<linkVars, clientVars, childVars, parentVars, reads, pipe, file>>

-----------------------------------------------------------------------------
\* The answer to the client, before the record.
StoreAnswer(c) ==
    /\ WriteBack(c)
    /\ cpc' = [cpc EXCEPT ![c] = "store"]
    /\ UNCHANGED <<linkVars, clientVars, mes, parentVars, signalVars, writerVars>>

\* write(fds[1], mes, sizeof(mes)), which waits for room in the pipe.
Piped(c) == Append(pipe, <<c, FirstLine(mes[c])>>)

ChildStore(c) ==
    /\ cpc[c] = "store" /\ Len(pipe) < PipeCap
    /\ pipe' = Piped(c)
    /\ mes' = [mes EXCEPT ![c] = AfterLine(@)]
    /\ cpc' = [cpc EXCEPT ![c] = "read"]
    /\ UNCHANGED <<linkVars, clientVars, answered, parentVars, signalVars,
                   wpc, reads, file>>

\* accept, fork and read are as in ForkServer.
StoreParent == (ParentStep \/ Deliver) /\ UNCHANGED writerVars
StoreRead(c) == ChildRead(c) /\ UNCHANGED writerVars
StoreEnd(c) == (ChildEnd(c) \/ ChildKilled(c)) /\ UNCHANGED writerVars

\* read_childproc: the writer is a child like the others.
StoreReap ==
    \/ /\ wpc # "zombie" \/ \E c \in Clients : cpc[c] = "zombie"
       /\ Reap /\ UNCHANGED writerVars
    \/ /\ handling /\ handling' = FALSE
       /\ wpc = "zombie" /\ wpc' = "reaped"
       /\ UNCHANGED <<linkVars, clientVars, childVars, parentVars, pending, merged,
                      reads, pipe, file>>

StoreStep ==
    \/ StoreParent \/ StoreReap \/ WriterOpen \/ WriterRead \/ WriterEnd
    \/ \E c \in Clients : StoreRead(c) \/ StoreAnswer(c) \/ ChildStore(c) \/ StoreEnd(c)
=============================================================================
