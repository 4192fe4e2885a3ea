----------------------------- MODULE StreamEcho -----------------------------
(***************************************************************************)
(* echo_stdserv.c and echo_stdclient.c: an echo server on stdio streams,   *)
(* one client after the other, and its client.  Neither looks at what      *)
(* fgets returns: when it reads nothing, message keeps the line before.    *)
(*                                                                         *)
(* A line is <<client, number>>.  Lines end in a newline and fit into      *)
(* message; the write of the server to a client that has closed succeeds,  *)
(* to one that was reset it raises SIGPIPE.                                *)
(***************************************************************************)
EXTENDS Integers, Sequences, FiniteSets

CONSTANTS
    Clients,
    MaxLines,       \* bound: lines a client types
    MaxClients,     \* 5 in main
    None            \* no client; a buffer never written to

ASSUME StreamAssumption == None \notin Clients /\ MaxLines \in Nat

VARIABLES
    link,           \* where each client's connection stands
    typed, shown,   \* of each client: lines written; what it has printed
    replies,        \* of each client: what the server has written to it
    fed,            \* of each client: lines the server has read
    current, taken, \* the client of readfp and writefp; clients accepted
    run,            \* the server runs, has left its loop, or was killed
    message         \* the line in the buffer of the server

streamVars == <<link, typed, shown, replies, fed, current, taken, run, message>>

StreamInit ==
    /\ link = [c \in Clients |-> "none"]
    /\ typed = [c \in Clients |-> 0] /\ shown = [c \in Clients |-> <<>>]
    /\ replies = [c \in Clients |-> <<>>] /\ fed = [c \in Clients |-> 0]
    /\ current = None /\ taken = 0 /\ run = "run" /\ message = None

-----------------------------------------------------------------------------
\* Variants of the operators below, used to show that the properties can fail.
WrittenFirst(before, after) == before       \* fputs comes before fgets
WaitsForReply(c) == Len(replies[c]) > Len(shown[c])    \* fgets never fails

-----------------------------------------------------------------------------
\* The client.

StreamConnect(c) ==
    /\ run = "run" /\ link[c] = "none"
    /\ link' = [link EXCEPT ![c] = "backlog"]
    /\ UNCHANGED <<typed, shown, replies, fed, current, taken, run, message>>

\* fgets from the user, fputs, fflush; after the reply to the line before.  Without
\* a server the write may raise SIGPIPE, which ends the client as StreamQuit does.
Type(c) ==
    /\ link[c] \in {"backlog", "open"}
    /\ typed[c] < MaxLines /\ Len(shown[c]) = typed[c]
    /\ typed' = [typed EXCEPT ![c] = @ + 1]
    /\ UNCHANGED <<link, shown, replies, fed, current, taken, run, message>>

\* fgets in the client returns: there is a reply, or no server any more.
Returns(c) == Len(replies[c]) > Len(shown[c]) \/ run # "run"

\* The reply is printed; without one, the line just typed, which is still there.
Show(c) ==
    /\ link[c] \in {"backlog", "open"} /\ Len(shown[c]) < typed[c] /\ Returns(c)
    /\ shown' = [shown EXCEPT ![c] =
          Append(@, IF Len(replies[c]) > Len(@) THEN replies[c][Len(@) + 1]
                    ELSE <<c, typed[c]>>)]
    /\ UNCHANGED <<link, typed, replies, fed, current, taken, run, message>>

\* q, with every reply read: the streams are closed.  A client interrupted while
\* a reply is on its way resets the connection.
StreamQuit(c) ==
    /\ link[c] \in {"backlog", "open"}
    /\ link' = [link EXCEPT ![c] = IF Len(shown[c]) = typed[c] THEN "fin" ELSE "reset"]
    /\ UNCHANGED <<typed, shown, replies, fed, current, taken, run, message>>

-----------------------------------------------------------------------------
\* The server.

\* The loop of main is over after n clients.
AllTaken(n) == n = MaxClients

\* What fputs writes, of the lines in message before and after fgets.
Echoed(before, after) == after

StreamAccept ==
    /\ run = "run" /\ current = None
    /\ \E c \in Clients :
          /\ link[c] \in {"backlog", "fin", "reset"}
          /\ link' = [link EXCEPT ![c] = IF @ = "backlog" THEN "open" ELSE @]
          /\ current' = c
    /\ taken' = taken + 1
    /\ UNCHANGED <<typed, shown, replies, fed, run, message>>

\* fgets gets a line, and feof does not hold yet.
EchoLine ==
    /\ run = "run" /\ current # None /\ fed[current] < typed[current]
    /\ message' = <<current, fed[current] + 1>>
    /\ fed' = [fed EXCEPT ![current] = @ + 1]
    /\ replies' = [replies EXCEPT ![current] = Append(@, Echoed(message, message'))]
    /\ UNCHANGED <<link, typed, shown, current, taken, run>>

\* fgets meets the end of the stream; what is in message is written once more,
\* the loop ends, and both streams are closed.
EchoEnd ==
    /\ run = "run" /\ current # None
    /\ link[current] = "fin" /\ fed[current] = typed[current]
    /\ replies' = [replies EXCEPT ![current] = Append(@, message)]
    /\ link' = [link EXCEPT ![current] = "closed"]
    /\ current' = None
    /\ run' = IF AllTaken(taken) THEN "left" ELSE "run"
    /\ UNCHANGED <<typed, shown, fed, taken, message>>

\* fgets fails; feof does not hold, and the next write raises SIGPIPE.
EchoReset ==
    /\ run = "run" /\ current # None
    /\ link[current] = "reset" /\ fed[current] = typed[current]
    /\ run' = "killed"
    /\ UNCHANGED <<link, typed, shown, replies, fed, current, taken, message>>

StreamServer == StreamAccept \/ EchoLine \/ EchoEnd \/ EchoReset
StreamClient(c) == StreamConnect(c) \/ Type(c) \/ Show(c) \/ StreamQuit(c)
StreamNext == StreamServer \/ \E c \in Clients : StreamClient(c)

StreamSpec == StreamInit /\ [][StreamNext]_streamVars

-----------------------------------------------------------------------------
Own(c, n) == [i \in 1..n |-> <<c, i>>]

\* A closed client got one line more: its last line, or, if it never sent any, a
\* line of a client before it or what was on the stack.
OneMore(c) ==
    \E extra \in (Clients \X (1..MaxLines)) \cup {None} :
        /\ replies[c] = Append(Own(c, typed[c]), extra)
        /\ IF typed[c] > 0 THEN extra = <<c, typed[c]>>
           ELSE extra # None => extra[1] # c /\ extra[2] = typed[extra[1]]

\* A client is sent its lines in order, and one more when it has closed.
RepliesExact ==
    \A c \in Clients :
        IF link[c] # "closed" THEN replies[c] = Own(c, fed[c]) ELSE OneMore(c)

\* While the server runs, what a client prints is what the server has sent it.
ShownIsSent ==
    run = "run" => \A c \in Clients :
        shown[c] = SubSeq(replies[c], 1, Len(shown[c]))

\* The server sends what it has read, and clients print what they were sent.
LinesExact == RepliesExact /\ ShownIsSent
=============================================================================
