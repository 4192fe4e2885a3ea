------------------------------ MODULE NewsCast ------------------------------
(***************************************************************************)
(* news_sender.c and news_receiver.c: a file is sent line by line to a     *)
(* multicast group.  A receiver joins at any time.  Datagrams are lost,    *)
(* overtake each other and arrive more than once.                          *)
(*                                                                         *)
(* The end of the stream is known only after a read that meets it: at once *)
(* if the last line has no newline, else with a read that gets nothing.    *)
(***************************************************************************)
EXTENDS Integers, Sequences, FiniteSets

CONSTANTS
    Receivers,
    NumLines        \* lines of news.txt

\* An empty file would send what is on the stack.
ASSUME NewsAssumption == NumLines \in Nat \ {0}

VARIABLES
    terminated,     \* does the last line end in a newline?
    line, eof,      \* the line in buf, 0 before the first; feof
    sender,         \* "loop" or "done"
    sent,           \* the lines sent
    joined, inbox,  \* receivers in the group, the lines on the way to each
    printed         \* the lines each receiver has printed

newsVars == <<terminated, line, eof, sender, sent, joined, inbox, printed>>

\* news.txt as it is has one line and no newline; another file may end in one.
NewsInit ==
    /\ terminated \in BOOLEAN
    /\ line = 0 /\ eof = FALSE /\ sender = "loop" /\ sent = <<>>
    /\ joined = {} /\ inbox = [r \in Receivers |-> {}]
    /\ printed = [r \in Receivers |-> {}]

-----------------------------------------------------------------------------
\* Is the end of the file met by the read of line n (or of nothing after it)?
EndsAt(n) == n > NumLines \/ (n = NumLines /\ ~terminated)

\* Variant of MeetsEof, used to show that NewsSent can fail.
ReadsAhead(n) == EndsAt(n + 1)          \* the next fgets comes before the sendto

\* feof, after the read of line n.
MeetsEof(n) == EndsAt(n)

\* setsockopt(IP_ADD_MEMBERSHIP)
Join(r) ==
    /\ r \notin joined /\ joined' = joined \cup {r}
    /\ UNCHANGED <<terminated, line, eof, sender, sent, inbox, printed>>

\* A round of the loop: fgets, whose result is not looked at, and sendto.
SendLine ==
    /\ sender = "loop" /\ ~eof
    /\ LET n == IF line < NumLines THEN line + 1 ELSE line
       IN  /\ line' = n /\ sent' = Append(sent, n)
           /\ \E reached \in SUBSET joined :
                 inbox' = [r \in Receivers |-> IF r \in reached
                              THEN inbox[r] \cup {n} ELSE inbox[r]]
    /\ eof' = MeetsEof(line + 1)
    /\ UNCHANGED <<terminated, sender, joined, printed>>

EndNews ==
    /\ sender = "loop" /\ eof /\ sender' = "done"
    /\ UNCHANGED <<terminated, line, eof, sent, joined, inbox, printed>>

\* recvfrom of any line on the way, which may come again, and fputs.
Output(r) ==
    /\ \E n \in inbox[r], again \in BOOLEAN :
          /\ printed' = [printed EXCEPT ![r] = @ \cup {n}]
          /\ inbox' = [inbox EXCEPT ![r] = IF again THEN @ ELSE @ \ {n}]
    /\ UNCHANGED <<terminated, line, eof, sender, sent, joined>>

NewsNext == SendLine \/ EndNews \/ \E r \in Receivers : Join(r) \/ Output(r)

NewsSpec == NewsInit /\ [][NewsNext]_newsVars

-----------------------------------------------------------------------------
\* The lines go out in order and once, except that the last goes out twice when
\* it ends in a newline.  Nothing is said of what arrives: UDP promises nothing.
NewsSent ==
    sender = "done" =>
        sent = [i \in 1..NumLines |-> i] \o IF terminated THEN <<NumLines>> ELSE <<>>
=============================================================================
