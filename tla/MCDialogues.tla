----------------------------- MODULE MCDialogues -----------------------------
(***************************************************************************)
(* Small instances of the programs in which users talk to a server:        *)
(* Calculator, StreamEcho, NewsCast, UdpEcho and ChatRoom, each on its     *)
(* own.  A behaviour chooses a program and keeps it, and the variables of  *)
(* the others stay at rest.                                                *)
(***************************************************************************)
EXTENDS Calculator, StreamEcho, NewsCast, UdpEcho, TLC

CONSTANTS c1, c2, c3, failure

VARIABLES
    program,
    backlog, accepted, left, outbox, said, relayed, alive, file,
    cli_socks, cli_cnt, mutex, mpc, cli_sock, newest, hpc, hsock, hmsg, hi,
    heard, receiver, broken

chatVars == <<backlog, accepted, left, outbox, said, relayed, alive, file,
              cli_socks, cli_cnt, mutex, mpc, cli_sock, newest, hpc, hsock, hmsg, hi,
              heard, receiver, broken>>
vars     == <<program, calcVars, streamVars, newsVars, udpVars, chatVars>>

\* Formulas of two digits, of three and of four, with all operators; and a few of
\* different lengths.
Two == <<2>>
Nine == <<9>>
Pairs == {<<op, a, b>> : op \in Operators, a, b \in {Two, Nine}}
Triples == {<<op, <<under, Nine, Two>>, Two>> : op, under \in Operators}
           \cup {<<op, Nine, <<under, Two, Nine>>>> : op, under \in Operators}
Quads == {<<op, <<under, Nine, Nine>>, <<beside, Nine, Two>>>> :
            op \in Operators, under, beside \in {Plus, Over}}
Few == {<<7>>, <<Over, <<7>>, <<0>>>>, <<Times, <<3>>, <<Minus, Two, Nine>>>>}

\* 1+1, 1+1+1 and so on; the postfix form of the last one does not fit into 8.
Chain[n \in 2..5] == <<Plus, IF n = 2 THEN <<1>> ELSE Chain[n - 1], <<1>>>>
Chains == {Chain[n] : n \in 2..5}

CalcTrees ==
    {<<d>> : d \in 0..9} \cup Pairs \cup Triples \cup Quads \cup Few \cup Chains
CalcHeight ==
    LET height[t \in CalcTrees] ==
            IF Len(t) = 1 THEN 0
            ELSE IF height[t[2]] > height[t[3]] THEN height[t[2]] + 1 ELSE height[t[3]] + 1
    IN  height
CalcFormulas == (c1 :> Few \cup {Chain[5]}) @@ (c2 :> Pairs \cup Triples \cup Quads)
CalcAsks == (c1 :> 2) @@ (c2 :> 1)

Chat == INSTANCE ChatRoom
    WITH Clients <- {c1, c2}, Failures <- {failure}, MaxFd <- 2, MaxCli <- 4, MaxSay <- 1,
         Room <- 1, inbox <- relayed, shown <- heard

Init ==
    /\ program \in {"calc", "stream", "news", "udp", "chat"}
    /\ CalcInit /\ StreamInit /\ NewsInit /\ UdpInit /\ Chat!RoomInit
    /\ program # "calc" => request = <<>>
    /\ program # "news" => ~terminated
    /\ program # "udp" => given = [c \in Senders |-> Chosen]

\* Bound: the second client connects or a call of accept fails.
ChatBound == c2 \in backlog' \cup accepted' => newest' # failure /\ hpc'[failure] = "none"

RunCalc(A) ==
    program = "calc" /\ A /\ UNCHANGED <<program, streamVars, newsVars, udpVars, chatVars>>
RunStream(A) ==
    program = "stream" /\ A /\ UNCHANGED <<program, calcVars, newsVars, udpVars, chatVars>>
RunNews(A) ==
    program = "news" /\ A /\ UNCHANGED <<program, calcVars, streamVars, udpVars, chatVars>>
RunUdp(A) ==
    program = "udp" /\ A /\ UNCHANGED <<program, calcVars, streamVars, newsVars, chatVars>>
RunChat(A) ==
    /\ program = "chat" /\ A /\ ChatBound
    /\ UNCHANGED <<program, calcVars, streamVars, newsVars, udpVars>>

Next ==
    \/ RunCalc(CalcNext) \/ RunStream(StreamNext)
    \/ RunNews(NewsNext) \/ RunUdp(UdpNext) \/ RunChat(Chat!RoomNext)

\* Servers, the sender and the reading threads go on; nothing makes a user type,
\* but a client that waits for a reply reads it.  In the chat server a thread that
\* finds the mutex free again and again gets it.
Fairness ==
    /\ WF_vars(RunCalc(CalcServer))
    /\ WF_vars(RunStream(StreamServer))
    /\ \A c \in {c1, c2, c3} : WF_vars(RunStream(Show(c)))
    /\ WF_vars(RunNews(SendLine \/ EndNews))
    /\ SF_vars(RunChat(Chat!RoomMain))
    /\ \A h \in {c1, c2, failure} : SF_vars(RunChat(Chat!RoomHandler(h)))
    /\ \A c \in {c1, c2} : WF_vars(RunChat(Chat!Hear(c)))

FairSpec == Init /\ [][Next]_vars /\ Fairness

-----------------------------------------------------------------------------
\* A client of the calculator is answered, unless the server ends or serves another
\* one, who may keep it as long as he likes.  A line typed to the stdio server by
\* the client it serves, or when it has ended, is followed by a printed one.  The
\* news end.
Replied ==
    /\ \A c \in {c1, c2} :
          program = "calc" /\ asked[c] # Nil /\ answer[c] = Nil ~>
              answer[c] # Nil \/ spc # "run" \/ (serving # c /\ serving # Nil)
    /\ \A c \in {c1, c2, c3} :
          program = "stream" /\ Len(shown[c]) < typed[c] /\ (current = c \/ run # "run") ~>
              Len(shown[c]) = typed[c] \/ link[c] = "reset"
    /\ program = "news" ~> sender = "done"

\* chat_server.c and chat_client.c: while the server runs, a chunk a handler has
\* read goes out to all and a client is accepted, although writes with mutex held
\* wait for clients that are behind; a chunk that is there is printed.
Relayed ==
    /\ \A h \in {c1, c2, failure} : hpc[h] = "lock" ~> hpc[h] = "read" \/ ~alive
    /\ \A c \in {c1, c2} : c \in backlog ~> c \notin backlog \/ ~alive
    /\ \A c \in {c1, c2} :
          Len(relayed[c]) > heard[c] ~> Len(relayed[c]) = heard[c] \/ c \in left
=============================================================================
