----------------------------- MODULE ForkServers -----------------------------
(***************************************************************************)
(* The two forking servers, each on its own with the same clients: a       *)
(* behaviour chooses one of them and keeps it.                             *)
(***************************************************************************)
EXTENDS StoreServer

\* The bytes a client reads at once, 1024, which are more than three records of
\* the one server (300 bytes) and half a record of the other (2048).
CONSTANT Room

ASSUME RoomAssumption == Room \in [{"plain", "store"} -> Nat \ {0}]

VARIABLE server

vars == <<forkVars, writerVars, server>>

Init ==
    \/ server = "plain" /\ ForkInit
          /\ wpc = "none" /\ reads = 0 /\ pipe = <<>> /\ file = <<>>
    \/ server = "store" /\ StoreInit

Plain(A) == server = "plain" /\ A /\ UNCHANGED <<writerVars, server>>
Store(A) == server = "store" /\ A /\ UNCHANGED server

Next ==
    \/ \E c \in Clients : ClientStep(c, Room[server]) /\ UNCHANGED <<writerVars, server>>
    \/ Plain(ForkStep)
    \/ Store(StoreStep)

Spec == Init /\ [][Next]_vars

\* Every process of a server goes on when it can, and so does the reader of a
\* polite client.  Nothing makes a client write or quit, or kills a corrupted process.
ServeClient(c) ==
    \/ Plain(ChildRead(c) \/ ChildAnswer(c) \/ ChildEnd(c))
    \/ Store(StoreRead(c) \/ StoreAnswer(c) \/ ChildStore(c)
             \/ (ChildEnd(c) /\ UNCHANGED writerVars))

Fairness ==
    /\ WF_vars(Plain(ParentStep) \/ Store(ParentStep /\ UNCHANGED writerVars))
    /\ WF_vars(Plain(Deliver) \/ Store(Deliver /\ UNCHANGED writerVars))
    /\ WF_vars(Plain(Reap) \/ Store(StoreReap))
    /\ WF_vars(Store(WriterOpen \/ WriterRead \/ WriterEnd))
    /\ \A c \in Clients : WF_vars(ServeClient(c))
    /\ \A c \in Polite :
          WF_vars(ReadAnswer(c, Room[server]) /\ UNCHANGED <<writerVars, server>>)

FairSpec == Spec /\ Fairness

-----------------------------------------------------------------------------
\* Byte j of line i of c, and the byte of c that follows b.
Byte(c, i, j) == <<i, j, j = Lines[c][i] + 1>>
Following(c, b) == IF b[3] THEN Byte(c, b[1] + 1, 1) ELSE Byte(c, b[1], b[2] + 1)

\* s is the lines m to n of c.
AreLines(c, s, m, n) ==
    IF s = <<>> THEN n = m - 1
    ELSE /\ s[1] = Byte(c, m, 1) /\ s[Len(s)] = Byte(c, n, Lines[c][n] + 1)
         /\ \A k \in 1..(Len(s) - 1) : s[k + 1] = Following(c, s[k])

\* What the server has not answered: the rest of mes and what is still unread.
Ahead(c) == (IF cpc[c] = "store" THEN AfterLine(mes[c]) ELSE mes[c]) \o inbuf[c]

\* Every byte a client has sent is in an answer, in mes or still unread, in the
\* order it was sent, however reads and lines are cut: the answers are the first
\* lines of the client and what is ahead are the others.  (A child that has
\* overrun its memory promises nothing; one that has ended has dropped what it had
\* in mes.)
NothingLost ==
    \A c \in Clients : cpc[c] \notin {"undefined", "zombie", "reaped"} =>
        LET n == Len(answered[c])
        IN  /\ \A i \in 1..n : answered[c][i] = [j \in 1..Lines[c][i] |-> Byte(c, i, j)]
            /\ AreLines(c, Ahead(c), n + 1, said[c])

\* A polite client whose lines fit into buf with their terminator never makes
\* its child overrun a buffer; nor does it overrun its own, while it is connected,
\* if that has room for two records; and all lengths and types are as they should.
BuffersHold ==
    /\ ForkTyped /\ StoreTyped
    /\ \A c \in Polite : 2 * Record <= Room[server] /\ ~Closed(c) =>
          reader[c] # "undefined"
    /\ \A c \in Polite : (\A i \in 1..Len(Lines[c]) : Lines[c][i] + 1 < BufSize) =>
          cpc[c] # "undefined"

\* The file with what is in the pipe, and the records of c among its first k.
Stored == file \o pipe
Records(c, k) == Cardinality({j \in 1..k : Stored[j][1] = c})

\* The i-th record of a client is the i-th answer it has been sent; only its last
\* answer may be missing.
StoreOrder ==
    server = "store" =>
        /\ \A c \in Clients : Len(answered[c]) - Records(c, Len(Stored)) \in {0, 1}
        /\ \A k \in 1..Len(Stored) :
              LET c == Stored[k][1]
              IN  Stored[k] = <<c, answered[c][Records(c, k)]>>

\* What ChildReaper sees of a child.
Stage(c) ==
    LET pc == IF c = Writer THEN wpc ELSE cpc[c]
    IN  IF pc \in {"none", "zombie", "reaped"} THEN pc ELSE "running"

Reaper == INSTANCE ChildReaper
    WITH Children <- Clients \cup {Writer},
         status <- [c \in Clients \cup {Writer} |-> Stage(c)]

\* Children are collected as in ChildReaper (whose Init precedes the fork of the
\* writer), although SIGCHLD comes at any point of the parent and the writer is a
\* child like the others.
ReapsLikeDemo == [][Reaper!ReaperNext]_(Reaper!reaperVars)

\* A client in the backlog is accepted, also when SIGCHLD interrupts accept.
Accepted == \A c \in Clients : conn[c] = "backlog" ~> conn[c] = "accepted"

\* A child waits for room in a pipe that nobody empties.
StuckOnPipe(c) == cpc[c] = "store" /\ wpc \notin {"open", "read"}

\* A polite client reads the answer to each of its lines, to the last byte, however
\* its reads cut and merge them, unless it is interrupted or its reader or its child
\* has overrun a buffer, its connection was refused, or the pipe is full for good.
PoliteAnswered ==
    \A c \in Polite : said[c] > seen[c] \/ rest[c] > 0 ~>
        \/ said[c] = seen[c] /\ rest[c] = 0
        \/ reader[c] # "read" \/ cpc[c] = "undefined"
        \/ Closed(c) \/ StuckOnPipe(c)

\* When a client has quit, its connection is closed by all processes that hold
\* it (only then does its reader end), with the same exceptions.
HangupCompletes ==
    \A c \in Clients : c \in fin ~>
        Closed(c)
        \/ cpc[c] = "undefined" \/ StuckOnPipe(c)
=============================================================================
