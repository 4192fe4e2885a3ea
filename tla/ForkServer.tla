----------------------------- MODULE ForkServer -----------------------------
(***************************************************************************)
(* echo_mpserv.c and its client echo_mpclient.c.  The parent accepts and   *)
(* forks a child per connection, and reaps children in its handler of      *)
(* SIGCHLD.  A child collects what it reads in mes and answers a line when *)
(* there is one: one line per read.                                        *)
(*                                                                         *)
(* A byte is <<i, j, last>>: byte j of line i, and its newline if last     *)
(* holds.  A client is polite if it writes a line only when it has begun   *)
(* to read the answer to the one before.  Answers are records of           *)
(* sizeof(mes) bytes; reads of the client cut and merge them.  They do not *)
(* fill the socket; what a read prints (up to its first NUL) is left out.  *)
(***************************************************************************)
EXTENDS Integers, Sequences, FiniteSets

CONSTANTS
    Clients,
    Polite,     \* the clients that wait for answers
    Lines,      \* the lengths of the lines each client may write
    BufSize,    \* BUF_SIZE; mes has twice that size
    None        \* the parent holds no new connection

ASSUME ForkAssumption ==
    /\ IsFiniteSet(Clients) /\ Polite \subseteq Clients /\ None \notin Clients
    /\ Lines \in [Clients -> Seq(Nat)] /\ BufSize \in Nat \ {0}

VARIABLES
    \* connections: where each stands, the processes that hold a descriptor of
    \* it, who has shut down its writing half, unread input of the server
    conn, holders, fin, inbuf,
    \* clients: lines written; answers begun to be read, the bytes of the last of
    \* these that are unread; the process in read_routine
    said, seen, rest, reader,
    \* children: program counter, mes, the lines written back
    cpc, mes, answered,
    \* the parent: program counter, cli_sock
    ppc, pcur,
    \* SIGCHLD of the parent, as in ChildReaper
    pending, handling, merged

linkVars   == <<conn, holders, fin, inbuf>>
clientVars == <<said, seen, rest, reader>>
childVars  == <<cpc, mes, answered>>
parentVars == <<ppc, pcur>>
signalVars == <<pending, handling, merged>>
forkVars   == <<linkVars, clientVars, childVars, parentVars, signalVars>>

\* A variant of Line, used to show that the properties can fail.
LineWithNul(c, i) ==                \* write(sock, buf, strlen(buf) + 1)
    [j \in 1..(Lines[c][i] + 2) |-> <<i, j, j = Lines[c][i] + 1>>]

\* Line i of c as it is sent: its newline is the last byte.
Line(c, i) == [j \in 1..(Lines[c][i] + 1) |-> <<i, j, j = Lines[c][i] + 1>>]

Record == 2 * BufSize               \* sizeof(mes)

Bytes(c) == (1..Len(Lines[c])) \X (Nat \ {0}) \X BOOLEAN
Alive == {"read", "answer", "store", "undefined"}

ForkTyped ==
    /\ conn \in [Clients -> {"none", "backlog", "accepted"}]
    /\ holders \in [Clients -> SUBSET {"parent", "child"}]
    /\ fin \subseteq Clients
    /\ cpc \in [Clients -> Alive \cup {"none", "zombie", "reaped"}]
    /\ ppc \in {"accept", "fork", "close", "ended"} /\ pcur \in Clients \cup {None}
    /\ pending \in BOOLEAN /\ handling \in BOOLEAN /\ merged \in Nat
    /\ reader \in [Clients -> {"read", "undefined", "gone"}]
    /\ \A c \in Clients :
          /\ rest[c] \in 0..(Record - 1)
          /\ inbuf[c] \in Seq(Bytes(c)) /\ mes[c] \in Seq(Bytes(c))
          /\ cpc[c] \in {"read", "answer", "store"} => Len(mes[c]) < 2 * BufSize
          /\ 0 <= seen[c] /\ seen[c] <= Len(answered[c])
          /\ Len(answered[c]) <= said[c] /\ said[c] <= Len(Lines[c])

\* sigaction, socket, bind, listen.
ForkInit ==
    /\ conn = [c \in Clients |-> "none"] /\ holders = [c \in Clients |-> {}]
    /\ fin = {} /\ inbuf = [c \in Clients |-> <<>>]
    /\ said = [c \in Clients |-> 0] /\ seen = [c \in Clients |-> 0]
    /\ rest = [c \in Clients |-> 0] /\ reader = [c \in Clients |-> "read"]
    /\ cpc = [c \in Clients |-> "none"] /\ mes = [c \in Clients |-> <<>>]
    /\ answered = [c \in Clients |-> <<>>]
    /\ ppc = "accept" /\ pcur = None
    /\ pending = FALSE /\ handling = FALSE /\ merged = 0

-----------------------------------------------------------------------------
\* Variants of the operators below, used to show that the properties can fail.
GiveUp == "ended"                   \* EINTR taken for a fatal error
KeptByParent == {"parent", "child"} \* close(cli_sock) left out in the parent
HasLaterLine(m) ==                  \* strchr(mes + 1, '\n')
    \E k \in 2..Len(m) : m[k][3]
CharLost(m) ==                      \* memmove from newline + 2
    LET k == CHOOSE j \in 1..Len(m) : m[j][3] /\ \A i \in 1..(j - 1) : ~m[i][3]
    IN  SubSeq(m, k + 2, Len(m))
NoWait == {cpc}                     \* waitpid left out

-----------------------------------------------------------------------------
\* The clients.

\* connect completes in the kernel; the client forks its reader and its writer.
Connect(c) ==
    /\ conn[c] = "none"
    /\ conn' = [conn EXCEPT ![c] = "backlog"]
    /\ UNCHANGED <<holders, fin, inbuf, clientVars, childVars, parentVars, signalVars>>

\* write_routine: the next line.  (After the end of its input fgets leaves buf as
\* it is: that sends the last line again, which is one more of Lines.)
WriteLine(c) ==
    /\ conn[c] # "none" /\ c \notin fin /\ said[c] < Len(Lines[c])
    /\ c \in Polite => seen[c] = said[c]
    /\ said' = [said EXCEPT ![c] = @ + 1]
    /\ inbuf' = [inbuf EXCEPT ![c] = @ \o Line(c, said[c] + 1)]
    /\ UNCHANGED <<conn, holders, fin, seen, rest, reader, childVars, parentVars,
                   signalVars>>

\* write_routine: "q\n", shutdown(sock, SHUT_WR).
Quit(c) ==
    /\ conn[c] # "none" /\ c \notin fin
    /\ fin' = fin \cup {c}
    /\ UNCHANGED <<conn, holders, inbuf, clientVars, childVars, parentVars, signalVars>>

\* The connection is closed by all processes of the server, or by both of a client.
Closed(c) == conn[c] = "accepted" /\ holders[c] = {}
HungUp(c) == c \in fin /\ reader[c] = "gone"

\* read_routine: n bytes of the answers that have arrived, at most room, which is
\* BUF_SIZE of the client: up to byte Record - r of answer k.  A read that fills
\* buf writes its terminator one past the end, which may do no harm.
ReadAnswer(c, room) ==
    /\ reader[c] = "read"
    /\ \E k \in seen[c]..Len(answered[c]), r \in 0..(Record - 1) :
          LET n == (k - seen[c]) * Record + rest[c] - r
          IN  /\ n \in 1..room
              /\ seen' = [seen EXCEPT ![c] = k] /\ rest' = [rest EXCEPT ![c] = r]
              /\ \/ UNCHANGED reader
                 \/ n = room /\ reader' = [reader EXCEPT ![c] = "undefined"]
    /\ UNCHANGED <<linkVars, said, childVars, parentVars, signalVars>>

\* read_routine: read returns 0, and it returns; or the server has closed with
\* input unread, and read returns -1 before, which writes to buf[-1].
ReadEnd(c) ==
    /\ reader[c] = "read" /\ Closed(c)
    /\ \/ /\ inbuf[c] = <<>> /\ seen[c] = Len(answered[c]) /\ rest[c] = 0
          /\ reader' = [reader EXCEPT ![c] = "gone"]
       \/ /\ inbuf[c] # <<>>
          /\ \E end \in {"gone", "undefined"} : reader' = [reader EXCEPT ![c] = end]
    /\ UNCHANGED <<linkVars, said, seen, rest, childVars, parentVars, signalVars>>

\* A reader whose memory is corrupted may be killed; the user may interrupt both
\* processes of a client.
ClientKilled(c) ==
    /\ conn[c] # "none" /\ reader[c] # "gone"
    /\ reader' = [reader EXCEPT ![c] = "gone"]
    /\ \/ fin' = fin \cup {c}
       \/ reader[c] = "undefined" /\ UNCHANGED fin
    /\ UNCHANGED <<conn, holders, inbuf, said, seen, rest, childVars, parentVars,
                   signalVars>>

ClientStep(c, room) ==
    \/ Connect(c) \/ WriteLine(c) \/ Quit(c)
    \/ ReadAnswer(c, room) \/ ReadEnd(c) \/ ClientKilled(c)

-----------------------------------------------------------------------------
\* The parent.  Its handler runs between any two of its steps.

\* Where the loop goes when accept fails with EINTR: continue.
AfterInterrupt == "accept"

\* The processes that hold the connection after the close in the parent.
HoldersAfterClose == {"child"}

ParentAccept ==
    /\ ~handling /\ ppc = "accept"
    /\ \E c \in Clients :
          /\ conn[c] = "backlog"
          /\ conn' = [conn EXCEPT ![c] = "accepted"]
          /\ holders' = [holders EXCEPT ![c] = {"parent"}]
          /\ pcur' = c
    /\ ppc' = "fork"
    /\ UNCHANGED <<fin, inbuf, clientVars, childVars, signalVars>>

\* fork: the child has the connection too, and an empty message.
ParentFork ==
    /\ ~handling /\ ppc = "fork"
    /\ cpc' = [cpc EXCEPT ![pcur] = "read"]
    /\ holders' = [holders EXCEPT ![pcur] = @ \cup {"child"}]
    /\ ppc' = "close"
    /\ UNCHANGED <<conn, fin, inbuf, clientVars, mes, answered, pcur, signalVars>>

\* fork fails: the connection is closed unserved.
ParentForkFails ==
    /\ ~handling /\ ppc = "fork"
    /\ holders' = [holders EXCEPT ![pcur] = {}]
    /\ ppc' = "accept" /\ pcur' = None
    /\ UNCHANGED <<conn, fin, inbuf, clientVars, childVars, signalVars>>

\* The child may have closed its descriptor already.
ParentClose ==
    /\ ~handling /\ ppc = "close"
    /\ holders' = [holders EXCEPT ![pcur] = @ \cap HoldersAfterClose]
    /\ ppc' = "accept" /\ pcur' = None
    /\ UNCHANGED <<conn, fin, inbuf, clientVars, childVars, signalVars>>

\* SIGCHLD interrupts the parent; accept is not restarted.
Deliver ==
    /\ pending /\ ~handling
    /\ pending' = FALSE /\ handling' = TRUE
    /\ ppc' = IF ppc = "accept" THEN AfterInterrupt ELSE ppc
    /\ UNCHANGED <<linkVars, clientVars, childVars, pcur, merged>>

ParentStep == ParentAccept \/ ParentFork \/ ParentForkFails \/ ParentClose

-----------------------------------------------------------------------------
\* The children.

\* The end of a process of the parent raises SIGCHLD.
Raise ==
    /\ pending' = TRUE
    /\ merged' = merged + IF pending THEN 1 ELSE 0
    /\ UNCHANGED handling

\* strchr(mes, '\n')
FirstNewline(m) ==
    CHOOSE k \in 1..Len(m) : m[k][3] /\ \A j \in 1..(k - 1) : ~m[j][3]

HasLine(m) == \E k \in 1..Len(m) : m[k][3]

\* The line, cut at its newline, and what memmove leaves in mes.
FirstLine(m) == SubSeq(m, 1, FirstNewline(m) - 1)
AfterLine(m) == SubSeq(m, FirstNewline(m) + 1, Len(m))

\* read, of what has arrived and fits; buf[str_len] = '\0'; strcat.  A read that
\* fills buf writes its terminator one past the end, which may do no harm; mes
\* with no room for buf is overrun.
ChildRead(c) ==
    /\ cpc[c] = "read"
    /\ \E n \in 1..Len(inbuf[c]) :
          LET m == mes[c] \o SubSeq(inbuf[c], 1, n)
              next == IF HasLine(m) THEN "answer" ELSE "read"
          IN  /\ n <= BufSize
              /\ \/ Len(m) < 2 * BufSize /\ cpc' = [cpc EXCEPT ![c] = next]
                 \/ ~(n < BufSize /\ Len(m) < 2 * BufSize)
                       /\ cpc' = [cpc EXCEPT ![c] = "undefined"]
              /\ mes' = [mes EXCEPT ![c] = m]
              /\ inbuf' = [inbuf EXCEPT ![c] = SubSeq(@, n + 1, Len(@))]
    /\ UNCHANGED <<conn, holders, fin, clientVars, answered, parentVars, signalVars>>

\* write(cli_sock, mes, sizeof(mes)): the line; the client stops at its end.
WriteBack(c) ==
    /\ cpc[c] = "answer"
    /\ answered' = [answered EXCEPT ![c] = Append(@, FirstLine(mes[c]))]

\* The answer; then memmove, and the next read.
ChildAnswer(c) ==
    /\ WriteBack(c)
    /\ mes' = [mes EXCEPT ![c] = AfterLine(@)]
    /\ cpc' = [cpc EXCEPT ![c] = "read"]
    /\ UNCHANGED <<linkVars, clientVars, parentVars, signalVars>>

\* End of file, or an error when the client has closed its socket with answers
\* unread: close, return.  What is left in mes, or unread, is dropped.
ChildEnd(c) ==
    /\ cpc[c] = "read" /\ ((inbuf[c] = <<>> /\ c \in fin) \/ HungUp(c))
    /\ cpc' = [cpc EXCEPT ![c] = "zombie"]
    /\ holders' = [holders EXCEPT ![c] = @ \ {"child"}]
    /\ Raise
    /\ UNCHANGED <<conn, fin, inbuf, clientVars, mes, answered, parentVars>>

\* A child whose memory is corrupted may be killed; SIGPIPE kills one that answers
\* a client that is gone.
ChildKilled(c) ==
    /\ \/ cpc[c] = "undefined"
       \/ cpc[c] = "answer" /\ HungUp(c)
    /\ cpc' = [cpc EXCEPT ![c] = "zombie"]
    /\ holders' = [holders EXCEPT ![c] = @ \ {"child"}]
    /\ Raise
    /\ UNCHANGED <<conn, fin, inbuf, clientVars, mes, answered, parentVars>>

\* read_childproc, with a zombie or without: one waitpid, and the handler returns.
WaitOne ==
    LET Z == {c \in Clients : cpc[c] = "zombie"}
    IN  IF Z = {} THEN {cpc} ELSE {[cpc EXCEPT ![c] = "reaped"] : c \in Z}

Reap ==
    /\ handling /\ handling' = FALSE
    /\ cpc' \in WaitOne
    /\ UNCHANGED <<linkVars, clientVars, mes, answered, parentVars, pending, merged>>

ForkStep ==
    \/ ParentStep \/ Deliver \/ Reap
    \/ \E c \in Clients : ChildRead(c) \/ ChildAnswer(c) \/ ChildEnd(c) \/ ChildKilled(c)
=============================================================================
