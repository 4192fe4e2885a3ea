--------------------------- MODULE DialogueProofs ---------------------------
(***************************************************************************)
(* The UDP echo, the news, the stdio echo and the calculator, for any      *)
(* number of clients and receivers and any bounds: UDP clients reach       *)
(* nobody but themselves and strangers, the news go out in order, what the *)
(* stdio server sends and its clients print is exact, and a formula that   *)
(* overruns no array has the value the calculator answers.                 *)
(***************************************************************************)
EXTENDS Calculator, StreamEcho, NewsCast, UdpEcho, LeastNumber, SequenceTheorems,
        TLAPS

-----------------------------------------------------------------------------
(***************************************************************************)
(* uecho_server.c and uecho_client.c.                                      *)
(***************************************************************************)

\* A client has the address it was given from bind to close, and nobody else has it
\* then; the server and the strangers keep theirs.
Bound ==
    /\ given \in [Senders -> Addresses] /\ DOMAIN bound = Addresses /\ DOMAIN queue = Addresses
    /\ ucpc \in [Senders -> {"bind", "type", "wait", "undefined", "gone"}]
    /\ tried \in [Senders -> Nat] /\ DOMAIN back = Senders /\ strange \in Nat
    /\ bound[Chosen] = "server" /\ bound[Outside] = "stranger"
    /\ \A c \in Senders :
          ucpc[c] \in {"type", "wait", "undefined"} <=> bound[given[c]] = c

\* Datagrams at the server are all from strangers.  Those at any other address but
\* that of the strangers are from there or from strangers, and so is what a client
\* has received.
Mail(a) == {a, Outside} \X ({Outside} \cup Senders) \X Nat
AtServer == {Outside} \X ({Outside} \cup Senders) \X Nat

Origins ==
    /\ queue[Chosen] \in Seq(AtServer)
    /\ \A a \in Addresses \ {Chosen, Outside} : queue[a] \in Seq(Mail(a))
    /\ \A c \in Senders : back[c] # Nothing => back[c][1] \in {given[c], Outside} \ {Chosen}

UdpInv == Bound /\ Origins

LEMMA UdpInitially == UdpInit => UdpInv
  BY UdpAssumption
  DEF UdpInit, UdpInv, Bound, Origins, ServerAddress

\* The address of a client that has its socket is its own.
LEMMA OwnAddress ==
  ASSUME UdpInv, NEW c \in Senders, ucpc[c] \in {"type", "wait", "undefined"}
  PROVE  /\ given[c] \in Addresses \ {Chosen, Outside} /\ bound[given[c]] = c
         /\ \A d \in Senders \ {c} : given[d] = given[c] =>
               ucpc[d] \notin {"type", "wait", "undefined"}
  BY UdpAssumption DEF UdpInv, Bound

LEMMA BindKeeps == ASSUME UdpInv, NEW c \in Senders, UdpBind(c) PROVE UdpInv'
  <1>1. /\ UNCHANGED <<given, queue, tried, back, strange>> /\ ucpc[c] = "bind"
        /\ c # Nothing /\ given[c] \in Addresses
    BY UdpAssumption DEF UdpBind, UdpInv, Bound
  <1>2. Origins'
    BY <1>1 DEF UdpInv, Origins
  <1>3. CASE bound[given[c]] # Nothing
    <2>1. UNCHANGED bound /\ ucpc' = [ucpc EXCEPT ![c] = "gone"]
      BY <1>3 DEF UdpBind, InUse
    <2> QED
      BY <1>1, <1>2, <2>1 DEF UdpInv, Bound
  <1>4. CASE bound[given[c]] = Nothing
    <2>1. /\ ucpc' = [ucpc EXCEPT ![c] = "type"] /\ bound' = [bound EXCEPT ![given[c]] = c]
          /\ given[c] # Chosen /\ given[c] # Outside
      BY <1>4, UdpAssumption DEF UdpInv, Bound, UdpBind, InUse
    <2>2. \A d \in Senders : d # Nothing
      BY UdpAssumption
    <2> QED
      BY <1>1, <1>2, <1>4, <2>1, <2>2 DEF UdpInv, Bound
  <1> QED
    BY <1>3, <1>4

LEMMA SendKeeps == ASSUME UdpInv, NEW c \in Senders, UdpSend(c) PROVE UdpInv'
  <1> DEFINE a == given[c]
             d == <<a, c, tried[c] + 1>>
  <1>1. /\ UNCHANGED <<given, bound, back, strange>> /\ ucpc[c] = "type"
        /\ tried' = [tried EXCEPT ![c] = @ + 1] /\ ucpc' = [ucpc EXCEPT ![c] = "wait"]
        /\ queue' = [queue EXCEPT ![a] = Append(@, d)]
    BY DEF UdpSend, Arrived
  <1>2. a \in Addresses \ {Chosen, Outside}
    BY <1>1, OwnAddress
  <1>3. Bound'
    BY <1>1 DEF UdpInv, Bound
  <1>4. Origins'
    <2>1. d \in Mail(a)
      BY DEF Mail, UdpInv, Bound
    <2>2. Append(queue[a], d) \in Seq(Mail(a))
      BY <1>2, <2>1, AppendProperties DEF UdpInv, Origins
    <2>3. queue'[a] = Append(queue[a], d) /\ \A b \in Addresses \ {a} : queue'[b] = queue[b]
      BY <1>1, <1>2 DEF UdpInv, Bound
    <2> QED
      BY <1>1, <1>2, <2>2, <2>3, UdpAssumption DEF UdpInv, Origins
  <1> QED
    BY <1>3, <1>4 DEF UdpInv

LEMMA ReceiveKeeps == ASSUME UdpInv, NEW c \in Senders, UdpReceive(c) PROVE UdpInv'
  <1> DEFINE a == given[c]
             q == queue[a]
  <1>1. /\ UNCHANGED <<given, bound, tried, strange>> /\ ucpc[c] = "wait" /\ q # <<>>
        /\ back' = [back EXCEPT ![c] = Head(q)] /\ queue' = [queue EXCEPT ![a] = Tail(q)]
    BY DEF UdpReceive
  <1>2. PICK next \in {"type", "undefined"} : ucpc' = [ucpc EXCEPT ![c] = next]
    BY DEF UdpReceive
  <1>3. a \in Addresses \ {Chosen, Outside}
    BY <1>1, OwnAddress
  <1>4. Bound'
    BY <1>1, <1>2 DEF UdpInv, Bound
  <1>5. Origins'
    <2>1. q \in Seq(Mail(a))
      BY <1>3 DEF UdpInv, Origins
    <2>2. Head(q) \in Mail(a) /\ Tail(q) \in Seq(Mail(a))
      BY <1>1, <2>1, HeadTailProperties
    <2>3. queue'[a] = Tail(q) /\ \A b \in Addresses \ {a} : queue'[b] = queue[b]
      BY <1>1, <1>3 DEF UdpInv, Bound
    <2>4. Head(q)[1] \in {a, Outside} \ {Chosen}
      BY <1>3, <2>2, UdpAssumption DEF Mail
    <2> QED
      BY <1>1, <1>3, <2>2, <2>3, <2>4, UdpAssumption DEF UdpInv, Origins, Bound
  <1> QED
    BY <1>4, <1>5 DEF UdpInv

LEMMA QuitKeeps == ASSUME UdpInv, NEW c \in Senders, UdpQuit(c) PROVE UdpInv'
  <1>1. /\ UNCHANGED <<given, tried, back, strange>> /\ ucpc' = [ucpc EXCEPT ![c] = "gone"]
        /\ bound' = [bound EXCEPT ![given[c]] = Nothing]
        /\ queue' = [queue EXCEPT ![given[c]] = <<>>]
    BY DEF UdpQuit
  <1>2. /\ given[c] \in Addresses \ {Chosen, Outside} /\ bound[given[c]] = c
        /\ \A d \in Senders \ {c} : given[d] = given[c] =>
              ucpc[d] \notin {"type", "wait", "undefined"}
    BY OwnAddress DEF UdpQuit
  <1>3. Bound'
    BY <1>1, <1>2, UdpAssumption DEF UdpInv, Bound
  <1>4. Origins'
    BY <1>1, <1>2, UdpAssumption DEF UdpInv, Origins, Bound
  <1> QED
    BY <1>3, <1>4 DEF UdpInv

\* What the server echoes goes to strangers.
LEMMA ServerKeeps == ASSUME UdpInv, ServerEcho PROVE UdpInv'
  <1> DEFINE q == queue[Chosen]
  <1>1. /\ UNCHANGED <<given, bound, ucpc, tried, back, strange>> /\ q # <<>>
        /\ Outside # Chosen /\ {Chosen, Outside} \subseteq Addresses
    BY UdpAssumption DEF ServerEcho, ServerAddress
  <1>2. q \in Seq(AtServer)
    BY DEF UdpInv, Origins
  <1>3. Head(q) \in AtServer /\ Tail(q) \in Seq(AtServer)
    BY <1>1, <1>2, HeadTailProperties
  <1>4. Head(q)[1] = Outside
    BY <1>3 DEF AtServer
  <1>5. /\ DOMAIN queue' = Addresses /\ queue'[Chosen] = Tail(q)
        /\ \A a \in Addresses \ {Chosen, Outside} : queue'[a] = queue[a]
    BY <1>1, <1>4 DEF UdpInv, Bound, ServerEcho, ServerAddress, ReplyTo
  <1> QED
    BY <1>1, <1>3, <1>5 DEF UdpInv, Bound, Origins

LEMMA StrangerKeeps == ASSUME UdpInv, Stranger PROVE UdpInv'
  <1> DEFINE d == <<Outside, Outside, strange + 1>>
  <1>1. /\ UNCHANGED <<given, bound, ucpc, tried, back>> /\ strange' = strange + 1
    BY DEF Stranger
  <1>2. PICK a \in Addresses \ {Outside} : queue' = [queue EXCEPT ![a] = Append(@, d)]
    BY DEF Stranger, Arrived
  <1>3. d \in AtServer /\ \A b \in Addresses : d \in Mail(b)
    BY DEF AtServer, Mail, UdpInv, Bound
  <1>4. /\ Append(queue[Chosen], d) \in Seq(AtServer)
        /\ \A b \in Addresses \ {Chosen, Outside} : Append(queue[b], d) \in Seq(Mail(b))
    BY <1>3, AppendProperties DEF UdpInv, Origins
  <1>5. \A b \in Addresses :
           queue'[b] = IF b = a THEN Append(queue[b], d) ELSE queue[b]
    BY <1>2 DEF UdpInv, Bound
  <1>6. Origins'
    BY <1>1, <1>4, <1>5, UdpAssumption DEF UdpInv, Origins
  <1> QED
    BY <1>1, <1>2, <1>6 DEF UdpInv, Bound

\* Whatever address it is started with, no client of the UDP echo sends anything to
\* the server, which only strangers reach, or receives anything from it: what
\* UdpEcho's FromServer fails on holds always (uecho_server.c:31-47,
\* uecho_client.c:32-53).
THEOREM TalksToNobody ==
  UdpSpec => [](/\ \A i \in 1..Len(queue[Chosen]) : queue[Chosen][i][1] = Outside
                /\ \A c \in Senders : back[c] # Nothing => back[c][1] # ServerAddress)
  <1> DEFINE Unreached == /\ \A i \in 1..Len(queue[Chosen]) : queue[Chosen][i][1] = Outside
                          /\ \A c \in Senders : back[c] # Nothing => back[c][1] # ServerAddress
  <1>1. UdpInv => Unreached
    <2> SUFFICES ASSUME UdpInv PROVE Unreached
      OBVIOUS
    <2>1. \A i \in 1..Len(queue[Chosen]) : queue[Chosen][i] \in AtServer
      BY ElementOfSeq DEF UdpInv, Origins
    <2>2. \A i \in 1..Len(queue[Chosen]) : queue[Chosen][i][1] = Outside
      BY <2>1 DEF AtServer
    <2> QED
      BY <2>2 DEF UdpInv, Origins, ServerAddress
  <1>2. UdpInv /\ [UdpNext]_udpVars => UdpInv'
    <2> SUFFICES ASSUME UdpInv, [UdpNext]_udpVars PROVE UdpInv'
      OBVIOUS
    <2>1. CASE UNCHANGED udpVars
      BY <2>1 DEF udpVars, UdpInv, Bound, Origins
    <2> QED
      BY <2>1, BindKeeps, SendKeeps, ReceiveKeeps, QuitKeeps, ServerKeeps, StrangerKeeps
      DEF UdpNext
  <1> QED
    BY <1>1, <1>2, UdpInitially, PTL DEF UdpSpec

-----------------------------------------------------------------------------
(***************************************************************************)
(* news_sender.c and news_receiver.c.                                      *)
(***************************************************************************)

NewsTyped ==
    /\ terminated \in BOOLEAN /\ line \in 0..NumLines /\ eof \in BOOLEAN
    /\ sender \in {"loop", "done"} /\ sent \in Seq(Nat) /\ joined \subseteq Receivers
    /\ inbox \in [Receivers -> SUBSET (1..NumLines)]
    /\ printed \in [Receivers -> SUBSET (1..NumLines)]

\* What the rounds of the sender have sent: line after line, and the last one
\* until the end of the file is met.
LineOf(i) == IF i < NumLines THEN i ELSE NumLines
Rounds ==
    LET n == Len(sent)
    IN  /\ line = LineOf(n) /\ \A i \in 1..n : sent[i] = LineOf(i)
        /\ n <= NumLines + 1 /\ (eof <=> n # 0 /\ MeetsEof(n))
        /\ n = NumLines + 1 => terminated
        /\ sender = "done" => eof

NewsInv == NewsTyped /\ Rounds

LEMMA NewsInitially == NewsInit => NewsInv
  <1> SUFFICES ASSUME NewsInit PROVE NewsInv
    OBVIOUS
  <1>1. NewsTyped
    <2>1. 0 \in 0..NumLines /\ <<>> \in Seq(Nat)
      BY NewsAssumption, EmptySeq
    <2> QED
      BY <2>1 DEF NewsInit, NewsTyped
  <1>2. Rounds
    <2>1. LineOf(0) = 0 /\ 0 <= NumLines + 1 /\ 0 # NumLines + 1
      BY NewsAssumption DEF LineOf
    <2> QED
      BY EmptySeq, <2>1 DEF NewsInit, Rounds
  <1> QED
    BY <1>1, <1>2 DEF NewsInv

\* The line of the next round is the one its number asks for.
LEMMA NextLine ==
  ASSUME NewsInv, sender = "loop", ~eof, NEW n,
         n = IF line < NumLines THEN line + 1 ELSE line
  PROVE  /\ n \in 1..NumLines /\ n >= line /\ n = LineOf(Len(sent) + 1)
         /\ line = Len(sent) /\ Len(sent) + 1 <= NumLines + 1
         /\ Len(sent) + 1 = NumLines + 1 => terminated
  <1> DEFINE l == Len(sent)
  <1>1. l \in Nat /\ NumLines \in Nat /\ NumLines > 0
    BY NewsAssumption, LenProperties DEF NewsInv, NewsTyped
  <1>2. /\ line = LineOf(l) /\ l <= NumLines + 1 /\ (eof <=> l # 0 /\ MeetsEof(l))
        /\ terminated \in BOOLEAN
    BY DEF NewsInv, NewsTyped, Rounds
  <1> HIDE DEF l
  <1>3. ~(l # 0 /\ MeetsEof(l))
    BY <1>2
  <1>4. l <= NumLines /\ (l = NumLines => terminated)
    BY <1>1, <1>3 DEF MeetsEof, EndsAt
  <1>5. line = l /\ n = LineOf(l + 1) /\ n \in 1..NumLines /\ n >= line
    BY <1>1, <1>2, <1>4 DEF LineOf
  <1> QED
    BY <1>1, <1>4, <1>5 DEF l

LEMMA SendLineKeeps == ASSUME NewsInv, SendLine PROVE NewsInv'
  <1> DEFINE n == IF line < NumLines THEN line + 1 ELSE line
  <1>1. /\ sender = "loop" /\ ~eof /\ line' = n /\ sent' = Append(sent, n)
        /\ eof' = MeetsEof(line + 1) /\ UNCHANGED <<terminated, sender, joined, printed>>
    BY DEF SendLine
  <1>2. PICK reached \in SUBSET joined :
           inbox' = [r \in Receivers |-> IF r \in reached THEN inbox[r] \cup {n} ELSE inbox[r]]
    BY DEF SendLine
  <1>3. /\ n \in 1..NumLines /\ n >= line /\ n = LineOf(Len(sent) + 1)
        /\ line = Len(sent) /\ Len(sent) + 1 <= NumLines + 1
        /\ Len(sent) + 1 = NumLines + 1 => terminated
    BY <1>1, NextLine
  <1> HIDE DEF n
  <1>4. n \in Nat /\ n \in 0..NumLines /\ NumLines \in Nat /\ line \in Nat
    BY <1>3, NewsAssumption DEF NewsInv, NewsTyped
  <1>5. /\ sent' \in Seq(Nat) /\ Len(sent) \in Nat /\ Len(sent') = Len(sent) + 1
        /\ sent'[Len(sent) + 1] = n /\ \A i \in 1..Len(sent) : sent'[i] = sent[i]
    BY <1>1, <1>4, AppendProperties, LenProperties DEF NewsInv, NewsTyped
  <1>6. NewsTyped'
    <2>1. inbox' \in [Receivers -> SUBSET (1..NumLines)]
      BY <1>2, <1>3 DEF NewsInv, NewsTyped
    <2> QED
      BY <1>1, <1>4, <1>5, <2>1 DEF NewsInv, NewsTyped, MeetsEof, EndsAt
  <1>7. Rounds'
    <2> DEFINE l == Len(sent)
               k == Len(sent')
    <2>1. /\ l \in Nat /\ k = l + 1 /\ sent'[l + 1] = n /\ \A i \in 1..l : sent'[i] = LineOf(i)
      BY <1>5 DEF NewsInv, Rounds
    <2>2. /\ line' = LineOf(k) /\ k <= NumLines + 1 /\ (k = NumLines + 1 => terminated')
          /\ (eof' <=> k > NumLines \/ (k = NumLines /\ ~terminated)) /\ sender' = "loop"
      <3>1. line + 1 = k /\ (eof' <=> MeetsEof(line + 1)) /\ Len(sent) + 1 = k
        BY <1>1, <1>3, <2>1
      <3> HIDE DEF k, l
      <3> QED
        BY <1>1, <1>3, <3>1 DEF MeetsEof, EndsAt
    <2>3. \A i \in 1..k : sent'[i] = LineOf(i)
      <3> HIDE DEF l, k
      <3> SUFFICES ASSUME NEW i \in 1..(l + 1) PROVE sent'[i] = LineOf(i)
        BY <2>1
      <3>1. i \in 1..l \/ i = l + 1
        BY <2>1
      <3> QED
        BY <1>3, <2>1, <3>1 DEF l
    <2>4. k # 0
      BY <2>1
    <2>5. UNCHANGED terminated /\ \A i : LineOf(i)' = LineOf(i)
      BY <1>1 DEF LineOf
    <2> QED
      BY <2>2, <2>3, <2>4, <2>5 DEF Rounds, MeetsEof, EndsAt
  <1> QED
    BY <1>6, <1>7 DEF NewsInv

\* For a file of any length, the lines are sent in order and once, the last one
\* twice when it ends in a newline (news_sender.c:37-43).
THEOREM LinesGoOutOnce == NewsSpec => []NewsSent
  <1>1. NewsInv => NewsSent
    <2> SUFFICES ASSUME NewsInv PROVE NewsSent
      OBVIOUS
    <2>2. ASSUME sender = "done"
          PROVE  sent = [i \in 1..NumLines |-> i] \o IF terminated THEN <<NumLines>> ELSE <<>>
      <3> DEFINE all == [i \in 1..NumLines |-> i]
                 more == IF terminated THEN <<NumLines>> ELSE <<>>
                 l == Len(sent)
      <3>1. /\ sent \in Seq(Nat) /\ l \in Nat /\ NumLines \in Nat /\ NumLines > 0
            /\ \A i \in 1..l : sent[i] = LineOf(i)
            /\ l <= NumLines + 1 /\ MeetsEof(l) /\ (l = NumLines + 1 => terminated)
        <4>1. sent \in Seq(Nat) /\ l \in Nat /\ NumLines \in Nat /\ NumLines > 0
          BY NewsAssumption, LenProperties DEF NewsInv, NewsTyped
        <4> QED
          BY <2>2, <4>1 DEF NewsInv, Rounds
      <3>2. l = IF terminated THEN NumLines + 1 ELSE NumLines
        BY <3>1 DEF MeetsEof, EndsAt
      <3>3. all \in Seq(Nat) /\ Len(all) = NumLines /\ \A i \in 1..NumLines : all[i] = i
        BY <3>1
      <3>4. more \in Seq(Nat) /\ Len(more) = IF terminated THEN 1 ELSE 0
        BY <3>1
      <3>5. /\ all \o more \in Seq(Nat) /\ Len(all \o more) = l
            /\ \A i \in 1..l : (all \o more)[i] = IF i <= NumLines THEN i ELSE more[i - NumLines]
        BY <3>1, <3>2, <3>3, <3>4, ConcatProperties
      <3>6. \A i \in 1..l : (all \o more)[i] = sent[i]
        <4> SUFFICES ASSUME NEW i \in 1..l PROVE (all \o more)[i] = LineOf(i)
          BY <3>1
        <4> QED
          BY <3>1, <3>2, <3>5 DEF LineOf
      <3> QED
        BY <3>1, <3>5, <3>6, SeqEqual
    <2> QED
      BY <2>2 DEF NewsSent
  <1>2. NewsInv /\ [NewsNext]_newsVars => NewsInv'
    <2> SUFFICES ASSUME NewsInv, [NewsNext]_newsVars PROVE NewsInv'
      OBVIOUS
    <2> USE DEF NewsInv, NewsTyped, Rounds, LineOf, MeetsEof, EndsAt
    <2>1. CASE UNCHANGED newsVars
      BY <2>1 DEF newsVars
    <2>2. CASE EndNews
      BY <2>2 DEF EndNews
    <2>3. ASSUME NEW r \in Receivers, Join(r) PROVE NewsInv'
      BY <2>3 DEF Join
    <2>4. ASSUME NEW r \in Receivers, Output(r) PROVE NewsInv'
      BY <2>4 DEF Output
    <2> QED
      BY <2>1, <2>2, <2>3, <2>4, SendLineKeeps DEF NewsNext
  <1> QED
    BY <1>1, <1>2, NewsInitially, PTL DEF NewsSpec

-----------------------------------------------------------------------------
(***************************************************************************)
(* echo_stdserv.c and echo_stdclient.c.                                    *)
(***************************************************************************)

\* What a buffer can hold.
Message == (Clients \X (1..MaxLines)) \cup {None}

StreamTyped ==
    /\ link \in [Clients -> {"none", "backlog", "open", "fin", "reset", "closed"}]
    /\ typed \in [Clients -> 0..MaxLines] /\ fed \in [Clients -> 0..MaxLines]
    /\ replies \in [Clients -> Seq(Message)] /\ shown \in [Clients -> Seq(Message)]
    /\ current \in Clients \cup {None} /\ run \in {"run", "left", "killed"}

\* One client after the other: the server has read lines of the present client and
\* of those it has closed, and from these it has read everything.
OneByOne ==
    /\ current # None => link[current] \in {"open", "fin", "reset"}
    /\ \A c \in Clients :
          /\ fed[c] <= typed[c]
          /\ fed[c] > 0 => c = current \/ link[c] = "closed"
          /\ link[c] = "closed" => fed[c] = typed[c]

\* message holds the line read last.
LastRead(d) == fed[d] > 0 /\ message = <<d, fed[d]>>
Buffered ==
    /\ message = None \/ \E d \in Clients : LastRead(d)
    /\ current # None => fed[current] = 0 \/ LastRead(current)

\* The line too many that a client without lines gets is the last one of a client
\* that has closed as well, and will type no more.
Stale(c, extra) ==
    \/ extra = None
    \/ \E d \in Clients \ {c} :
          link[d] = "closed" /\ typed[d] > 0 /\ extra = <<d, typed[d]>>

RepliesSent ==
    \A c \in Clients :
        /\ link[c] # "closed" => replies[c] = Own(c, fed[c])
        /\ link[c] = "closed" =>
              \E extra \in Message :
                  /\ replies[c] = Append(Own(c, typed[c]), extra)
                  /\ IF typed[c] > 0 THEN extra = <<c, typed[c]>> ELSE Stale(c, extra)

\* s starts as t does.
Starts(s, t) == Len(s) <= Len(t) /\ \A i \in 1..Len(s) : s[i] = t[i]
ShownStarts == run = "run" => \A c \in Clients : Starts(shown[c], replies[c])

StreamInv == StreamTyped /\ OneByOne /\ Buffered /\ RepliesSent /\ ShownStarts

\* Lines in order, and one more in order.
LEMMA OwnLines ==
  ASSUME NEW c \in Clients, NEW n \in 0..MaxLines
  PROVE  /\ Own(c, n) \in Seq(Message) /\ Len(Own(c, n)) = n
         /\ \A i \in 1..n : Own(c, n)[i] = <<c, i>>
  <1>1. n \in Nat /\ \A i \in 1..n : <<c, i>> \in Message
    BY StreamAssumption DEF Message
  <1>2. Own(c, n) \in [1..n -> Message]
    BY <1>1 DEF Own
  <1> QED
    BY <1>1, <1>2 DEF Own

LEMMA OwnNext ==
  ASSUME NEW c \in Clients, NEW n \in 0..MaxLines, n < MaxLines
  PROVE  Append(Own(c, n), <<c, n + 1>>) = Own(c, n + 1)
  <1>1. MaxLines \in Nat /\ n \in Nat /\ n + 1 \in 0..MaxLines /\ <<c, n + 1>> \in Message
    BY StreamAssumption DEF Message
  <1> DEFINE s == Own(c, n)
             u == Append(s, <<c, n + 1>>)
             t == Own(c, n + 1)
  <1>2. s \in Seq(Message) /\ Len(s) = n /\ \A i \in 1..n : s[i] = <<c, i>>
    BY OwnLines
  <1>3. t \in Seq(Message) /\ Len(t) = n + 1 /\ \A i \in 1..(n + 1) : t[i] = <<c, i>>
    BY <1>1, OwnLines
  <1> HIDE DEF s, t
  <1>4. u \in Seq(Message) /\ Len(u) = n + 1 /\ u[n + 1] = <<c, n + 1>>
        /\ \A i \in 1..n : u[i] = <<c, i>>
    BY <1>1, <1>2, AppendProperties
  <1> HIDE DEF u
  <1>5. \A i \in 1..(n + 1) : u[i] = t[i]
    <2> SUFFICES ASSUME NEW i \in 1..(n + 1) PROVE u[i] = <<c, i>>
      BY <1>3
    <2>1. i \in 1..n \/ i = n + 1
      BY <1>1
    <2> QED
      BY <1>4, <2>1
  <1>6. u = t
    BY <1>3, <1>4, <1>5, SeqEqual
  <1> QED
    BY <1>6 DEF s, t, u

LEMMA StreamInitially == StreamInit => StreamInv
  <1> SUFFICES ASSUME StreamInit PROVE StreamInv
    OBVIOUS
  <1>1. <<>> \in Seq(Message) /\ Len(<<>>) = 0 /\ 0 \in 0..MaxLines
    BY EmptySeq, StreamAssumption
  <1>2. StreamTyped
    BY <1>1 DEF StreamInit, StreamTyped
  <1>3. \A c \in Clients : Own(c, 0) = <<>>
    BY DEF Own
  <1>4. RepliesSent
    BY <1>3 DEF StreamInit, RepliesSent
  <1>5. ShownStarts
    BY <1>1 DEF StreamInit, ShownStarts, Starts
  <1> QED
    BY <1>2, <1>4, <1>5 DEF StreamInit, StreamInv, OneByOne, Buffered

\* One more line at the end: of what is there, of both.
LEMMA StartsLonger ==
  ASSUME NEW s \in Seq(Message), NEW t \in Seq(Message), NEW m \in Message, Starts(s, t)
  PROVE  /\ Starts(s, Append(t, m))
         /\ Len(s) < Len(t) /\ m = t[Len(s) + 1] => Starts(Append(s, m), t)
  <1> DEFINE k == Len(s)
             l == Len(t)
             u == Append(s, m)
             v == Append(t, m)
  <1>1. k \in Nat /\ l \in Nat
    BY LenProperties
  <1>2. Len(u) = k + 1 /\ u[k + 1] = m /\ \A i \in 1..k : u[i] = s[i]
    BY AppendProperties
  <1>3. Len(v) = l + 1 /\ \A i \in 1..l : v[i] = t[i]
    BY AppendProperties
  <1>4. k <= l /\ \A i \in 1..k : s[i] = t[i]
    BY DEF Starts
  <1> HIDE DEF k, l, u, v
  <1>5. k <= l + 1 /\ \A i \in 1..k : s[i] = v[i]
    BY <1>1, <1>3, <1>4
  <1>6. ASSUME k < l, m = t[k + 1] PROVE k + 1 <= l /\ \A i \in 1..(k + 1) : u[i] = t[i]
    <2> SUFFICES ASSUME NEW i \in 1..(k + 1) PROVE u[i] = t[i]
      BY <1>1, <1>6
    <2>1. i \in 1..k \/ i = k + 1
      BY <1>1
    <2> QED
      BY <1>2, <1>4, <1>6, <2>1
  <1> QED
    BY <1>2, <1>3, <1>5, <1>6 DEF Starts, k, l, u, v

\* What follows from the state of the link alone, when it changes short of closing.
LEMMA LinkKeeps ==
  ASSUME StreamInv, NEW c \in Clients, NEW to \in {"backlog", "open", "fin", "reset"},
         link[c] # "closed", link' = [link EXCEPT ![c] = to],
         UNCHANGED <<typed, shown, replies, fed, run, message>>
  PROVE  /\ \A d \in Clients : link'[d] = "closed" <=> link[d] = "closed"
         /\ RepliesSent' /\ ShownStarts'
  <1>1. link'[c] = to /\ \A d \in Clients \ {c} : link'[d] = link[d]
    BY DEF StreamInv, StreamTyped
  <1>2. \A d \in Clients : link'[d] = "closed" <=> link[d] = "closed"
    BY <1>1
  <1>3. RepliesSent'
    BY <1>2 DEF StreamInv, RepliesSent, Stale
  <1> QED
    BY <1>2, <1>3 DEF StreamInv, ShownStarts

LEMMA ConnectKeeps == ASSUME StreamInv, NEW c \in Clients, StreamConnect(c) PROVE StreamInv'
  <1>1. /\ UNCHANGED <<typed, shown, replies, fed, current, taken, run, message>>
        /\ link[c] = "none" /\ link' = [link EXCEPT ![c] = "backlog"]
    BY DEF StreamConnect
  <1>2. /\ \A d \in Clients : link'[d] = "closed" <=> link[d] = "closed"
        /\ RepliesSent' /\ ShownStarts'
    BY <1>1, LinkKeeps
  <1>3. current # c /\ \A d \in Clients \ {c} : link'[d] = link[d]
    BY <1>1, StreamAssumption DEF StreamInv, StreamTyped, OneByOne
  <1>4. StreamTyped'
    BY <1>1 DEF StreamInv, StreamTyped
  <1>5. OneByOne' /\ Buffered'
    BY <1>1, <1>2, <1>3 DEF StreamInv, StreamTyped, OneByOne, Buffered, LastRead
  <1> QED
    BY <1>2, <1>4, <1>5 DEF StreamInv

LEMMA QuitsKeeps == ASSUME StreamInv, NEW c \in Clients, StreamQuit(c) PROVE StreamInv'
  <1> DEFINE to == IF Len(shown[c]) = typed[c] THEN "fin" ELSE "reset"
  <1>1. /\ UNCHANGED <<typed, shown, replies, fed, current, taken, run, message>>
        /\ link[c] \in {"backlog", "open"} /\ link' = [link EXCEPT ![c] = to]
        /\ to \in {"fin", "reset"}
    BY DEF StreamQuit
  <1> HIDE DEF to
  <1>2. /\ \A d \in Clients : link'[d] = "closed" <=> link[d] = "closed"
        /\ RepliesSent' /\ ShownStarts'
    BY <1>1, LinkKeeps
  <1>3. link'[c] \in {"fin", "reset"} /\ \A d \in Clients \ {c} : link'[d] = link[d]
    BY <1>1 DEF StreamInv, StreamTyped
  <1>4. StreamTyped'
    BY <1>1 DEF StreamInv, StreamTyped
  <1>5. OneByOne' /\ Buffered'
    BY <1>1, <1>2, <1>3 DEF StreamInv, StreamTyped, OneByOne, Buffered, LastRead
  <1> QED
    BY <1>2, <1>4, <1>5 DEF StreamInv

\* A client that may type has not been closed.
LEMMA TypeKeeps == ASSUME StreamInv, NEW c \in Clients, Type(c) PROVE StreamInv'
  <1>1. /\ UNCHANGED <<link, shown, replies, fed, current, taken, run, message>>
        /\ link[c] \in {"backlog", "open"} /\ typed[c] < MaxLines
        /\ typed' = [typed EXCEPT ![c] = @ + 1]
    BY DEF Type
  <1>2. typed'[c] = typed[c] + 1 /\ \A d \in Clients \ {c} : typed'[d] = typed[d]
    BY <1>1 DEF StreamInv, StreamTyped
  <1>3. StreamTyped'
    <2>1. typed[c] + 1 \in 0..MaxLines
      BY <1>1, StreamAssumption DEF StreamInv, StreamTyped
    <2> QED
      BY <1>1, <2>1 DEF StreamInv, StreamTyped
  <1>4. OneByOne'
    BY <1>1, <1>2 DEF StreamInv, StreamTyped, OneByOne
  <1>5. Buffered'
    BY <1>1 DEF StreamInv, Buffered, LastRead
  <1>6. \A d \in Clients : link[d] = "closed" => typed'[d] = typed[d]
    BY <1>1, <1>2
  <1>7. RepliesSent'
    BY <1>1, <1>6 DEF StreamInv, RepliesSent, Stale
  <1>8. ShownStarts'
    BY <1>1 DEF StreamInv, ShownStarts
  <1> QED
    BY <1>3, <1>4, <1>5, <1>7, <1>8 DEF StreamInv

LEMMA ShowKeeps == ASSUME StreamInv, NEW c \in Clients, Show(c) PROVE StreamInv'
  <1> DEFINE l == Len(shown[c])
             there == Len(replies[c]) > l
             m == IF there THEN replies[c][l + 1] ELSE <<c, typed[c]>>
  <1>1. /\ UNCHANGED <<link, typed, replies, fed, current, taken, run, message>>
        /\ l < typed[c] /\ (there \/ run # "run")
        /\ shown' = [shown EXCEPT ![c] = Append(@, m)]
    BY DEF Show, Returns
  <1>2. shown[c] \in Seq(Message) /\ replies[c] \in Seq(Message) /\ typed[c] \in 0..MaxLines
    BY DEF StreamInv, StreamTyped
  <1>3. l \in Nat /\ Len(replies[c]) \in Nat
    BY <1>2, LenProperties
  <1>4. m \in Message
    <2>1. CASE there
      <3>1. l + 1 \in 1..Len(replies[c])
        BY <1>3, <2>1
      <3> QED
        BY <1>2, <2>1, <3>1, ElementOfSeq
    <2>2. CASE ~there
      <3>1. typed[c] \in 1..MaxLines
        BY <1>1, <1>2, <1>3, StreamAssumption
      <3> QED
        BY <2>2, <3>1 DEF Message
    <2> QED
      BY <2>1, <2>2
  <1>5. /\ shown'[c] = Append(shown[c], m) /\ Append(shown[c], m) \in Seq(Message)
        /\ \A d \in Clients \ {c} : shown'[d] = shown[d]
    BY <1>1, <1>2, <1>4, AppendProperties DEF StreamInv, StreamTyped
  <1>6. StreamTyped'
    BY <1>1, <1>5 DEF StreamInv, StreamTyped
  <1>7. run = "run" => Starts(shown'[c], replies[c])
    <2> SUFFICES ASSUME run = "run" PROVE Starts(shown'[c], replies[c])
      OBVIOUS
    <2>1. Starts(shown[c], replies[c]) /\ there
      BY <1>1 DEF StreamInv, ShownStarts
    <2>2. l < Len(replies[c]) /\ m = replies[c][l + 1]
      BY <1>3, <2>1
    <2> HIDE DEF m
    <2> QED
      BY <1>2, <1>4, <1>5, <2>1, <2>2, StartsLonger
  <1>8. ShownStarts'
    BY <1>1, <1>5, <1>7 DEF StreamInv, ShownStarts
  <1> QED
    BY <1>1, <1>6, <1>8 DEF StreamInv, OneByOne, Buffered, LastRead, RepliesSent, Stale

LEMMA AcceptKeeps == ASSUME StreamInv, StreamAccept PROVE StreamInv'
  <1>1. /\ UNCHANGED <<typed, shown, replies, fed, run, message>> /\ current = None
    BY DEF StreamAccept
  <1>2. PICK c \in Clients :
          /\ link[c] \in {"backlog", "fin", "reset"} /\ current' = c
          /\ link' = [link EXCEPT ![c] = IF @ = "backlog" THEN "open" ELSE @]
    BY DEF StreamAccept
  <1> DEFINE to == IF link[c] = "backlog" THEN "open" ELSE link[c]
  <1>3. to \in {"open", "fin", "reset"} /\ link' = [link EXCEPT ![c] = to]
    BY <1>2
  <1> HIDE DEF to
  <1>4. /\ \A d \in Clients : link'[d] = "closed" <=> link[d] = "closed"
        /\ RepliesSent' /\ ShownStarts'
    BY <1>1, <1>2, <1>3, LinkKeeps
  <1>5. fed[c] = 0 /\ link'[c] \in {"open", "fin", "reset"}
    <2>1. ~(fed[c] > 0) /\ fed[c] \in 0..MaxLines
      BY <1>1, <1>2, StreamAssumption DEF StreamInv, StreamTyped, OneByOne
    <2>2. fed[c] = 0
      BY <2>1, StreamAssumption
    <2>3. link'[c] = to
      BY <1>3 DEF StreamInv, StreamTyped
    <2> QED
      BY <1>3, <2>2, <2>3
  <1>6. StreamTyped'
    BY <1>1, <1>2, <1>3 DEF StreamInv, StreamTyped
  <1>7. OneByOne'
    BY <1>1, <1>2, <1>4, <1>5, StreamAssumption DEF StreamInv, StreamTyped, OneByOne
  <1>8. Buffered'
    BY <1>1, <1>2, <1>5 DEF StreamInv, Buffered, LastRead
  <1> QED
    BY <1>4, <1>6, <1>7, <1>8 DEF StreamInv

LEMMA EchoLineKeeps == ASSUME StreamInv, EchoLine PROVE StreamInv'
  <1> DEFINE c == current
             m == <<c, fed[c] + 1>>
  <1>1. /\ UNCHANGED <<link, typed, shown, current, taken, run>>
        /\ c \in Clients /\ fed[c] < typed[c] /\ message' = m
        /\ fed' = [fed EXCEPT ![c] = @ + 1]
        /\ replies' = [replies EXCEPT ![c] = Append(@, m)]
    BY DEF EchoLine, Echoed, StreamInv, StreamTyped
  <1>2. link[c] # "closed" /\ fed[c] \in 0..MaxLines /\ typed[c] \in 0..MaxLines
        /\ link[c] \in {"open", "fin", "reset"}
    BY <1>1, StreamAssumption DEF StreamInv, StreamTyped, OneByOne
  <1>3. fed[c] + 1 \in 1..MaxLines /\ fed[c] < MaxLines /\ m \in Message
    BY <1>1, <1>2, StreamAssumption DEF Message
  <1>4. fed'[c] = fed[c] + 1 /\ \A d \in Clients \ {c} : fed'[d] = fed[d]
    BY <1>1 DEF StreamInv, StreamTyped
  <1>5. /\ replies'[c] = Append(replies[c], m) /\ \A d \in Clients \ {c} : replies'[d] = replies[d]
        /\ replies[c] \in Seq(Message) /\ Append(replies[c], m) \in Seq(Message)
    BY <1>1, <1>3, AppendProperties DEF StreamInv, StreamTyped
  <1> HIDE DEF m
  <1>6. StreamTyped'
    BY <1>1, <1>3, <1>5 DEF StreamInv, StreamTyped
  <1>7. OneByOne'
    BY <1>1, <1>2, <1>4 DEF StreamInv, StreamTyped, OneByOne
  <1>8. Buffered'
    <2>1. fed'[c] > 0 /\ message' = <<c, fed'[c]>>
      BY <1>1, <1>2, <1>4 DEF m
    <2> QED
      BY <1>1, <2>1 DEF Buffered, LastRead
  <1>9. RepliesSent'
    <2>1. replies'[c] = Own(c, fed'[c])
      BY <1>1, <1>2, <1>3, <1>4, <1>5, OwnNext DEF StreamInv, RepliesSent, m
    <2>2. \A d \in Clients \ {c} : replies'[d] = replies[d] /\ fed'[d] = fed[d]
      BY <1>4, <1>5
    <2> QED
      BY <1>1, <1>2, <2>1, <2>2 DEF StreamInv, RepliesSent, Stale
  <1>10. ShownStarts'
    <2>1. run = "run" => Starts(shown[c], Append(replies[c], m))
      BY <1>1, <1>3, <1>5, StartsLonger DEF StreamInv, StreamTyped, ShownStarts
    <2> QED
      BY <1>1, <1>5, <2>1 DEF StreamInv, ShownStarts
  <1> QED
    BY <1>6, <1>7, <1>8, <1>9, <1>10 DEF StreamInv

\* The end of a stream sends the buffer again; what it holds is the last line of
\* this client, or a line of one that has closed.
LEMMA EchoEndKeeps == ASSUME StreamInv, EchoEnd PROVE StreamInv'
  <1> PICK c \in Clients : c = current
    BY DEF EchoEnd, StreamInv, StreamTyped
  <1>1. /\ UNCHANGED <<typed, shown, fed, taken, message>> /\ run = "run"
        /\ c # None /\ c = current /\ link[c] = "fin" /\ fed[c] = typed[c]
        /\ replies' = [replies EXCEPT ![c] = Append(@, message)]
        /\ link' = [link EXCEPT ![c] = "closed"] /\ current' = None
        /\ run' \in {"left", "run"}
    BY DEF EchoEnd, StreamInv, StreamTyped
  <1>2. link'[c] = "closed" /\ \A d \in Clients \ {c} : link'[d] = link[d]
    BY <1>1 DEF StreamInv, StreamTyped
  <1>3. message \in Message
    <2>1. CASE message = None
      BY <2>1 DEF Message
    <2>2. ASSUME NEW d \in Clients, LastRead(d) PROVE message \in Message
      <3>1. fed[d] \in 1..MaxLines
        BY <2>2, StreamAssumption DEF LastRead, StreamInv, StreamTyped
      <3> QED
        BY <2>2, <3>1 DEF LastRead, Message
    <2> QED
      BY <2>1, <2>2 DEF StreamInv, Buffered
  <1>4. /\ replies'[c] = Append(replies[c], message)
        /\ \A d \in Clients \ {c} : replies'[d] = replies[d]
        /\ replies[c] \in Seq(Message) /\ Append(replies[c], message) \in Seq(Message)
    BY <1>1, <1>3, AppendProperties DEF StreamInv, StreamTyped
  <1>5. StreamTyped'
    BY <1>1, <1>4 DEF StreamInv, StreamTyped
  <1>6. OneByOne'
    BY <1>1, <1>2 DEF StreamInv, StreamTyped, OneByOne
  <1>7. Buffered'
    BY <1>1 DEF StreamInv, Buffered, LastRead
  <1>8. IF typed[c] > 0 THEN message = <<c, typed[c]>> ELSE Stale(c, message)'
    <2>1. CASE typed[c] > 0
      BY <1>1, <2>1, StreamAssumption DEF StreamInv, StreamTyped, Buffered, LastRead
    <2>2. CASE ~(typed[c] > 0)
      <3>1. CASE message = None
        BY <1>1, <2>2, <3>1 DEF Stale
      <3>2. ASSUME NEW d \in Clients, LastRead(d) PROVE Stale(c, message)'
        <4>1. d # c /\ link[d] = "closed" /\ fed[d] = typed[d] /\ typed[d] > 0
          BY <1>1, <2>2, <3>2 DEF LastRead, StreamInv, OneByOne
        <4> QED
          BY <1>1, <1>2, <3>2, <4>1 DEF LastRead, Stale
      <3> QED
        BY <2>2, <3>1, <3>2 DEF StreamInv, Buffered
    <2> QED
      BY <2>1, <2>2
  <1>9. RepliesSent'
    <2>1. replies'[c] = Append(Own(c, typed[c]), message)
      BY <1>1, <1>4 DEF StreamInv, RepliesSent
    <2>2. \A d \in Clients, e \in Message : Stale(d, e) => Stale(d, e)'
      BY <1>1, <1>2 DEF Stale
    <2>3. ASSUME NEW d \in Clients \ {c}, link[d] = "closed"
          PROVE  \E extra \in Message :
                    /\ replies'[d] = Append(Own(d, typed'[d]), extra)
                    /\ IF typed'[d] > 0 THEN extra = <<d, typed'[d]>> ELSE Stale(d, extra)'
      BY <1>1, <1>4, <2>2, <2>3 DEF StreamInv, RepliesSent
    <2>4. ASSUME NEW d \in Clients \ {c}, link[d] # "closed"
          PROVE  replies'[d] = Own(d, fed'[d])
      BY <1>1, <1>4, <2>4 DEF StreamInv, RepliesSent
    <2> QED
      BY <1>1, <1>2, <1>3, <1>8, <2>1, <2>3, <2>4 DEF RepliesSent
  <1>10. ShownStarts'
    <2>1. Starts(shown[c], Append(replies[c], message))
      BY <1>1, <1>3, <1>4, StartsLonger DEF StreamInv, StreamTyped, ShownStarts
    <2> QED
      BY <1>1, <1>4, <2>1 DEF StreamInv, ShownStarts
  <1> QED
    BY <1>5, <1>6, <1>7, <1>9, <1>10 DEF StreamInv

LEMMA EchoResetKeeps == ASSUME StreamInv, EchoReset PROVE StreamInv'
  BY DEF EchoReset, StreamInv, StreamTyped, OneByOne, Buffered, LastRead, RepliesSent, Stale,
         ShownStarts

LEMMA StreamInvMeans == ASSUME StreamInv PROVE LinesExact
  <1>1. RepliesExact
    <2>1. ASSUME NEW c \in Clients, link[c] = "closed" PROVE OneMore(c)
      <3>1. PICK extra \in Message :
              /\ replies[c] = Append(Own(c, typed[c]), extra)
              /\ IF typed[c] > 0 THEN extra = <<c, typed[c]>> ELSE Stale(c, extra)
        BY <2>1 DEF StreamInv, RepliesSent
      <3>2. Stale(c, extra) => (extra # None => extra[1] # c /\ extra[2] = typed[extra[1]])
        BY DEF Stale
      <3> QED
        BY <3>1, <3>2 DEF OneMore, Message
    <2> QED
      BY <2>1 DEF RepliesExact, StreamInv, RepliesSent
  <1>2. ShownIsSent
    <2> SUFFICES ASSUME run = "run", NEW c \in Clients
                 PROVE  shown[c] = SubSeq(replies[c], 1, Len(shown[c]))
      BY DEF ShownIsSent
    <2> DEFINE s == shown[c]
               t == replies[c]
               k == Len(s)
               p == SubSeq(t, 1, k)
    <2>1. s \in Seq(Message) /\ t \in Seq(Message) /\ Starts(s, t)
      BY DEF StreamInv, StreamTyped, ShownStarts
    <2>2. k \in Nat /\ Len(t) \in Nat /\ k <= Len(t) /\ \A i \in 1..k : s[i] = t[i]
      BY <2>1, LenProperties DEF Starts
    <2>3. \A i \in 1..k : t[i] \in Message
      BY <2>1, <2>2, ElementOfSeq
    <2>4. p \in Seq(Message) /\ Len(p) = k /\ \A i \in 1..k : p[i] = t[i]
      BY <2>2, <2>3, SubSeqProperties
    <2> HIDE DEF s, t, p, k
    <2>5. s = p
      BY <2>1, <2>2, <2>4, SeqEqual DEF k
    <2> QED
      BY <2>5 DEF s, t, p, k
  <1> QED
    BY <1>1, <1>2 DEF LinesExact

\* The stdio server sends each client its lines in order and, when the client has
\* closed, one line more, which is the last one of that client or what the buffer
\* held before; while it runs, clients print what they were sent
\* (echo_stdserv.c:53-71, echo_stdclient.c:50-65).
THEOREM LinesAreExact == StreamSpec => []LinesExact
  <1>1. StreamInv /\ [StreamNext]_streamVars => StreamInv'
    <2> SUFFICES ASSUME StreamInv, [StreamNext]_streamVars PROVE StreamInv'
      OBVIOUS
    <2>1. CASE UNCHANGED streamVars
      BY <2>1 DEF streamVars, StreamInv, StreamTyped, OneByOne, Buffered, LastRead, RepliesSent,
                  Stale, ShownStarts
    <2>2. ASSUME StreamServer PROVE StreamInv'
      BY <2>2, AcceptKeeps, EchoLineKeeps, EchoEndKeeps, EchoResetKeeps DEF StreamServer
    <2>3. ASSUME NEW c \in Clients, StreamClient(c) PROVE StreamInv'
      BY <2>3, ConnectKeeps, TypeKeeps, ShowKeeps, QuitsKeeps DEF StreamClient
    <2> QED
      BY <2>1, <2>2, <2>3 DEF StreamNext
  <1> QED
    BY <1>1, StreamInitially, StreamInvMeans, PTL DEF StreamSpec

-----------------------------------------------------------------------------
(***************************************************************************)
(* Recursion: what is given by equations over the characters of a string   *)
(* or over formulas exists.                                                *)
(***************************************************************************)

\* What holds of digits, and of a node when it holds of its two parts, holds of
\* all formulas: a formula of least height without it would have it.
LEMMA TreeInduction ==
  ASSUME NEW Good,
         \A t \in Trees : Leaf(t) => t \in Good,
         \A t \in Trees : Node(t) /\ t[2] \in Good /\ t[3] \in Good => t \in Good
  PROVE  Trees \subseteq Good
  <1> DEFINE Bad == {Height[t] : t \in Trees \ Good}
  <1>1. ASSUME NEW t \in Trees, t \notin Good PROVE FALSE
    <2>1. Bad \in SUBSET Nat /\ Bad # {}
      BY <1>1, CalcAssumption
    <2>2. PICK h \in Bad : \A k \in Bad : h <= k
      BY <2>1, LeastElement
    <2>3. PICK u \in Trees \ Good : h = Height[u]
      BY <2>2
    <2>4. Node(u)
      BY <2>3, CalcAssumption
    <2>5. ASSUME NEW part \in {u[2], u[3]} PROVE part \in Good
      <3>1. part \in Trees /\ Height[part] < h /\ Height[part] \in Nat /\ h \in Nat
        BY <2>3, <2>4, CalcAssumption DEF Node
      <3>2. part \notin Good => Height[part] \in Bad
        BY <3>1
      <3>3. ~(h <= Height[part])
        BY <3>1
      <3> HIDE DEF Bad
      <3> QED
        BY <2>2, <3>2, <3>3
    <2> QED
      BY <2>3, <2>4, <2>5
  <1> QED
    BY <1>1

\* The same for the natural numbers.
LEMMA NumberInduction ==
  ASSUME NEW Good, 0 \in Good, \A n \in Nat : n \in Good => n + 1 \in Good
  PROVE  Nat \subseteq Good
  <1> DEFINE Bad == Nat \ Good
  <1> SUFFICES ASSUME Bad # {} PROVE FALSE
    OBVIOUS
  <1>1. PICK h \in Bad : \A k \in Bad : h <= k
    BY LeastElement
  <1>2. h # 0 /\ h - 1 \in Nat /\ ~(h <= h - 1)
    OBVIOUS
  <1>3. h - 1 \in Good /\ (h - 1) + 1 = h
    BY <1>1, <1>2
  <1> QED
    BY <1>2, <1>3

\* Reading a string: step, applied to one character after the other, leads from
\* state a to state b.
Through(S, step, str, a, f) ==
    /\ f \in [0..Len(str) -> S] /\ f[0] = a
    /\ \A i \in 1..Len(str) : f[i] = step[<<f[i - 1], str[i]>>]
Reads(S, step, str, a, b) == \E f : Through(S, step, str, a, f) /\ f[Len(str)] = b

LEMMA LoopRuns ==
  ASSUME NEW S, NEW C, NEW step \in [S \X C -> S], NEW first \in S, NEW str \in Seq(C)
  PROVE  \E f : Through(S, step, str, first, f)
  <1> DEFINE Runs(n, f) ==
               /\ f \in [0..n -> S] /\ f[0] = first
               /\ \A i \in 1..n : f[i] = step[<<f[i - 1], str[i]>>]
             Good == {n \in Nat : n <= Len(str) => \E f : Runs(n, f)}
  <1>1. 0 \in Good
    <2>1. Runs(0, [i \in 0..0 |-> first])
      OBVIOUS
    <2> QED
      BY <2>1
  <1>2. ASSUME NEW n \in Nat, n \in Good PROVE n + 1 \in Good
    <2> SUFFICES ASSUME n + 1 <= Len(str) PROVE \E f : Runs(n + 1, f)
      OBVIOUS
    <2>1. PICK f : Runs(n, f)
      BY <1>2, LenProperties
    <2> DEFINE last == step[<<f[n], str[n + 1]>>]
               g == [i \in 0..(n + 1) |-> IF i = n + 1 THEN last ELSE f[i]]
    <2>2. str[n + 1] \in C
      <3>1. n + 1 \in 1..Len(str)
        BY LenProperties
      <3> QED
        BY <3>1, ElementOfSeq
    <2>3. f[n] \in S /\ last \in S
      BY <2>1, <2>2
    <2> HIDE DEF last
    <2>4. g \in [0..(n + 1) -> S] /\ g[0] = first
      BY <2>1, <2>3
    <2>5. \A i \in 1..(n + 1) : g[i] = step[<<g[i - 1], str[i]>>]
      <3> SUFFICES ASSUME NEW i \in 1..(n + 1) PROVE g[i] = step[<<g[i - 1], str[i]>>]
        OBVIOUS
      <3>1. CASE i = n + 1
        <4>1. g[i] = last /\ g[i - 1] = f[n]
          BY <3>1
        <4> QED
          BY <3>1, <4>1 DEF last
      <3>2. CASE i # n + 1
        <4>1. i \in 1..n /\ i \in 0..(n + 1) /\ i - 1 \in 0..(n + 1) /\ i - 1 # n + 1
          BY <3>2
        <4>2. g[i] = f[i] /\ g[i - 1] = f[i - 1]
          BY <3>2, <4>1
        <4> HIDE DEF g
        <4> QED
          BY <2>1, <4>1, <4>2
      <3> QED
        BY <3>1, <3>2
    <2>6. Runs(n + 1, g)
      BY <2>4, <2>5
    <2> QED
      BY <2>6
  <1> HIDE DEF Good
  <1>3. Len(str) \in Good
    BY <1>1, <1>2, NumberInduction, LenProperties
  <1> QED
    BY <1>3, LenProperties DEF Good, Through

\* A function of formulas, from its values for digits and for nodes.
LEMMA TreesRecur ==
  ASSUME NEW V, NEW leaf \in [Trees -> V], NEW node \in [Trees \X V \X V -> V]
  PROVE  \E f \in [Trees -> V] : \A t \in Trees :
            f[t] = IF Len(t) = 1 THEN leaf[t] ELSE node[<<t, f[t[2]], f[t[3]]>>]
  <1> DEFINE Up(n) == {t \in Trees : Height[t] <= n}
             Eq(f, t) ==
               f[t] = IF Len(t) = 1 THEN leaf[t] ELSE node[<<t, f[t[2]], f[t[3]]>>]
             Runs(n, f) == f \in [Up(n) -> V] /\ \A t \in Up(n) : Eq(f, t)
             Good == {n \in Nat : \E f : Runs(n, f)}
  <1>1. \A t \in Trees : Height[t] \in Nat /\ (Leaf(t) \/ Node(t)) /\ (Leaf(t) => Len(t) = 1)
                         /\ (Node(t) => Len(t) = 3)
    BY CalcAssumption DEF Leaf, Node
  <1>2. ASSUME NEW n \in Nat, NEW t \in Up(n), Len(t) # 1
        PROVE  /\ t[2] \in Up(n) /\ t[3] \in Up(n) /\ n # 0
               /\ t[2] \in Up(n - 1) /\ t[3] \in Up(n - 1)
    BY <1>1, <1>2 DEF Node
  <1>3. 0 \in Good
    <2>1. Runs(0, [t \in Up(0) |-> leaf[t]])
      BY <1>2
    <2> QED
      BY <2>1
  <1>4. ASSUME NEW n \in Nat, n \in Good PROVE n + 1 \in Good
    <2>1. PICK f : Runs(n, f)
      BY <1>4
    <2> DEFINE g == [t \in Up(n + 1) |->
                        IF t \in Up(n) THEN f[t]
                        ELSE IF Len(t) = 1 THEN leaf[t] ELSE node[<<t, f[t[2]], f[t[3]]>>]]
    <2>2. ASSUME NEW t \in Up(n + 1) PROVE g[t] \in V /\ Eq(g, t)
      <3>1. CASE Len(t) = 1
        BY <2>1, <3>1
      <3>2. CASE Len(t) # 1
        <4>1. t[2] \in Up(n) /\ t[3] \in Up(n)
          BY <1>2, <3>2
        <4>2. t[2] \in Up(n + 1) /\ t[3] \in Up(n + 1)
          BY <1>2, <3>2
        <4>3. g[t[2]] = f[t[2]] /\ g[t[3]] = f[t[3]] /\ f[t[2]] \in V /\ f[t[3]] \in V
          BY <2>1, <4>1, <4>2
        <4>4. g[t] = node[<<t, f[t[2]], f[t[3]]>>]
          BY <2>1, <3>2
        <4> HIDE DEF g
        <4> QED
          BY <3>2, <4>3, <4>4
      <3> QED
        BY <3>1, <3>2
    <2>3. Runs(n + 1, g)
      BY <2>2
    <2> HIDE DEF g, Runs
    <2> QED
      BY <2>3
  <1>5. \A n \in Nat : \E f : Runs(n, f)
    <2>1. Nat \subseteq Good
      <3> HIDE DEF Good
      <3> QED
        BY <1>3, <1>4, NumberInduction
    <2> QED
      BY <2>1
  <1>6. ASSUME NEW n \in Nat, NEW m \in Nat, NEW f, NEW g, Runs(n, f), Runs(m, g)
        PROVE  \A t \in Up(n) \cap Up(m) : f[t] = g[t]
    <2> DEFINE Same == {t \in Trees : t \in Up(n) \cap Up(m) => f[t] = g[t]}
    <2>1. \A t \in Trees : Leaf(t) => t \in Same
      BY <1>1, <1>6
    <2>2. ASSUME NEW t \in Trees, Node(t), t[2] \in Same, t[3] \in Same PROVE t \in Same
      <3> SUFFICES ASSUME t \in Up(n) \cap Up(m) PROVE f[t] = g[t]
        OBVIOUS
      <3>1. Len(t) # 1
        BY <1>1, <2>2
      <3>2. t[2] \in Up(n) \cap Up(m) /\ t[3] \in Up(n) \cap Up(m)
        BY <1>2, <3>1
      <3>3. f[t[2]] = g[t[2]] /\ f[t[3]] = g[t[3]]
        BY <2>2, <3>2
      <3> QED
        BY <1>6, <3>1, <3>3
    <2> HIDE DEF Same
    <2>3. Trees \subseteq Same
      BY <2>1, <2>2, TreeInduction
    <2> QED
      BY <2>3 DEF Same
  <1> DEFINE F(n) == CHOOSE f : Runs(n, f)
             h == [t \in Trees |-> F(Height[t])[t]]
  <1>7. \A n \in Nat : Runs(n, F(n))
    <2> HIDE DEF Runs
    <2> QED
      BY <1>5
  <1> HIDE DEF F
  <1>8. ASSUME NEW n \in Nat, NEW t \in Up(n) PROVE h[t] = F(n)[t]
    <2>1. Height[t] \in Nat /\ t \in Up(Height[t])
      BY <1>1
    <2> HIDE DEF Runs
    <2> QED
      BY <1>6, <1>7, <2>1
  <1>9. ASSUME NEW t \in Trees PROVE h[t] \in V /\ Eq(h, t)
    <2>1. Height[t] \in Nat /\ t \in Up(Height[t])
      BY <1>1
    <2> DEFINE n == Height[t]
               f == F(n)
    <2>2. Runs(n, f)
      BY <1>7, <2>1
    <2>3. h[t] = f[t] /\ (Len(t) # 1 => h[t[2]] = f[t[2]] /\ h[t[3]] = f[t[3]])
      <3> HIDE DEF h, f
      <3> QED
        BY <1>2, <1>8, <2>1 DEF f
    <2> HIDE DEF h, f, n
    <2> QED
      BY <2>1, <2>2, <2>3 DEF n
  <1>10. h \in [Trees -> V]
    BY <1>9
  <1> HIDE DEF h
  <1> QED
    BY <1>9, <1>10

-----------------------------------------------------------------------------
(***************************************************************************)
(* The recursive definitions of the model satisfy their equations.         *)
(***************************************************************************)
\* A formula is a leaf or a node, and its length tells which.
LEMMA Shape ==
  ASSUME NEW t \in Trees
  PROVE  /\ Leaf(t) <=> Len(t) = 1
         /\ Node(t) <=> Len(t) # 1
         /\ Node(t) <=> Len(t) = 3
         /\ t[1] \in Int
         /\ Leaf(t) => t[1] \in 0..9
         /\ Node(t) => t[1] \in Operators /\ t[2] \in Trees /\ t[3] \in Trees
  BY CalcAssumption DEF Leaf, Node, Operators, Plus, Minus, Times, Over

\* A function of formulas has the type its values at leaves and nodes have.
LEMMA TreesTyped ==
  ASSUME NEW V, NEW f, f = [t \in Trees |-> f[t]],
         \A t \in Trees : Len(t) = 1 => f[t] \in V,
         \A t \in Trees : Len(t) # 1 /\ f[t[2]] \in V /\ f[t[3]] \in V => f[t] \in V
  PROVE  f \in [Trees -> V]
  <1> DEFINE Good == {t \in Trees : f[t] \in V}
  <1>1. \A t \in Trees : Leaf(t) => t \in Good
    BY Shape
  <1>2. \A t \in Trees : Node(t) /\ t[2] \in Good /\ t[3] \in Good => t \in Good
    BY Shape
  <1>3. Trees \subseteq Good
    BY <1>1, <1>2, TreeInduction
  <1> QED
    BY <1>3

LEMMA BracketedType ==
  ASSUME NEW t, NEW text \in Seq(Int), NEW weaker
  PROVE  Bracketed(t, text, weaker) \in Seq(Int)
  <1>1. <<Open>> \in Seq(Int) /\ <<Close>> \in Seq(Int)
    BY DEF Open, Close
  <1>2. <<Open>> \o text \in Seq(Int)
    BY <1>1, ConcatProperties
  <1>3. (<<Open>> \o text) \o <<Close>> \in Seq(Int)
    BY <1>1, <1>2, ConcatProperties
  <1> QED
    BY <1>3 DEF Bracketed

\* The text of a node, from the texts of its parts.
Written(t, left, right) ==
    Bracketed(t[2], left, IF t[1] \in Sums THEN {} ELSE Sums) \o <<t[1]>>
    \o Bracketed(t[3], right, IF t[1] \in Sums THEN Sums ELSE Operators)

LEMMA WrittenType ==
  ASSUME NEW t \in Trees, NEW left \in Seq(Int), NEW right \in Seq(Int)
  PROVE  Written(t, left, right) \in Seq(Int)
  <1> DEFINE a == Bracketed(t[2], left, IF t[1] \in Sums THEN {} ELSE Sums)
             b == Bracketed(t[3], right, IF t[1] \in Sums THEN Sums ELSE Operators)
  <1>1. a \in Seq(Int) /\ b \in Seq(Int) /\ <<t[1]>> \in Seq(Int)
    BY Shape, BracketedType
  <1> HIDE DEF a, b
  <1>2. a \o <<t[1]>> \in Seq(Int)
    BY <1>1, ConcatProperties
  <1>3. (a \o <<t[1]>>) \o b \in Seq(Int)
    BY <1>1, <1>2, ConcatProperties
  <1> QED
    BY <1>3 DEF Written, a, b

\* The recursive functions of Calculator satisfy their equations.
LEMMA TextDef ==
  /\ Text \in [Trees -> Seq(Int)]
  /\ \A t \in Trees :
        Text[t] = IF Len(t) = 1 THEN <<Zero + t[1]>> ELSE Written(t, Text[t[2]], Text[t[3]])
  <1> DEFINE V == Seq(Int)
             leaf == [t \in Trees |-> <<Zero + t[1]>>]
             node == [p \in Trees \X V \X V |-> Written(p[1], p[2], p[3])]
  <1>1. leaf \in [Trees -> V]
    <2>1. \A t \in Trees : Zero + t[1] \in Int
      BY Shape DEF Zero
    <2> QED
      BY <2>1
  <1>2. node \in [Trees \X V \X V -> V]
    BY WrittenType
  <1>3. PICK f \in [Trees -> V] : \A t \in Trees :
           f[t] = IF Len(t) = 1 THEN leaf[t] ELSE node[<<t, f[t[2]], f[t[3]]>>]
    <2> HIDE DEF leaf, node, V
    <2> QED
      BY <1>1, <1>2, TreesRecur
  <1>4. ASSUME NEW t \in Trees
        PROVE  f[t] = IF Len(t) = 1 THEN <<Zero + t[1]>> ELSE Written(t, f[t[2]], f[t[3]])
    <2>1. Len(t) # 1 => f[t[2]] \in V /\ f[t[3]] \in V
      BY <1>3, Shape
    <2> HIDE DEF V
    <2> QED
      BY <1>3, <2>1
  <1>5. f = [t \in Trees |-> IF Len(t) = 1 THEN <<Zero + t[1]>> ELSE Written(t, f[t[2]], f[t[3]])]
    BY <1>3, <1>4
  <1>6. Text = [t \in Trees |->
                  IF Len(t) = 1 THEN <<Zero + t[1]>> ELSE Written(t, Text[t[2]], Text[t[3]])]
    BY <1>5, Zenon DEF Text, Written
  <1>7. ASSUME NEW t \in Trees
        PROVE  Text[t] = IF Len(t) = 1 THEN <<Zero + t[1]>> ELSE Written(t, Text[t[2]], Text[t[3]])
    BY <1>6, Zenon
  <1>8. Text = [t \in Trees |-> Text[t]]
    BY <1>6, Zenon
  <1>9. \A t \in Trees : Len(t) = 1 => Text[t] \in V
    BY <1>1, <1>7
  <1>10. \A t \in Trees : Len(t) # 1 /\ Text[t[2]] \in V /\ Text[t[3]] \in V => Text[t] \in V
    BY <1>7, WrittenType
  <1> HIDE DEF V
  <1>11. Text \in [Trees -> V]
    BY <1>8, <1>9, <1>10, TreesTyped
  <1> QED
    BY <1>7, <1>11 DEF V

\* A result kept in a char.
LEMMA CharRange ==
  ASSUME NEW v \in Int
  PROVE  Char(v) \in Chars /\ (v \in Chars => Char(v) = v)
  BY DEF Char, Chars

LEMMA QuotientType ==
  ASSUME NEW a \in Int, NEW b \in Int, b # 0
  PROVE  Quotient(a, b) \in Int
  <1> DEFINE abs(n) == IF n < 0 THEN -n ELSE n
             q == abs(a) \div abs(b)
  <1>1. abs(a) \in Int /\ abs(b) \in Int /\ abs(b) > 0
    OBVIOUS
  <1>2. q \in Int
    <2> HIDE DEF abs
    <2> QED
      BY <1>1
  <1>3. Quotient(a, b) = IF (a < 0) = (b < 0) THEN q ELSE -q
    BY DEF Quotient
  <1> HIDE DEF q
  <1>4. CASE (a < 0) = (b < 0)
    BY <1>2, <1>3, <1>4
  <1>5. CASE ~((a < 0) = (b < 0))
    BY <1>2, <1>3, <1>5
  <1> QED
    BY <1>4, <1>5

\* Results are numbers or Nil.
LEMMA CombinedType ==
  ASSUME NEW op \in Operators, NEW a \in Int \cup {Nil}, NEW b \in Int \cup {Nil}
  PROVE  /\ Combined(op, a, b) \in Int \cup {Nil}
         /\ Narrowed(Combined(op, a, b)) \in Chars \cup {Nil}
  <1>1. Combined(op, a, b) \in Int \cup {Nil}
    <2>1. CASE Nil \in {a, b} \/ (op = Over /\ b = 0)
      BY <2>1 DEF Combined
    <2>2. CASE ~(Nil \in {a, b} \/ (op = Over /\ b = 0))
      <3>1. a \in Int /\ b \in Int /\ Combined(op, a, b) = Apply(op, a, b)
        BY <2>2 DEF Combined
      <3>2. op = Over => Quotient(a, b) \in Int
        BY <2>2, <3>1, QuotientType
      <3> QED
        BY <3>1, <3>2 DEF Apply, Operators, Plus, Minus, Times, Over
    <2> QED
      BY <2>1, <2>2
  <1> QED
    BY <1>1, CharRange DEF Narrowed

LEMMA ValueDef ==
  /\ Value \in [Trees -> Int \cup {Nil}]
  /\ \A t \in Trees :
        Value[t] = IF Len(t) = 1 THEN t[1] ELSE Combined(t[1], Value[t[2]], Value[t[3]])
  <1> DEFINE V == Int \cup {Nil}
             leaf == [t \in Trees |-> t[1]]
             node == [p \in Trees \X V \X V |->
                        IF p[1][1] \in Operators THEN Combined(p[1][1], p[2], p[3]) ELSE Nil]
  <1>1. leaf \in [Trees -> V]
    BY Shape
  <1>2. node \in [Trees \X V \X V -> V]
    BY CombinedType
  <1>3. PICK f \in [Trees -> V] : \A t \in Trees :
           f[t] = IF Len(t) = 1 THEN leaf[t] ELSE node[<<t, f[t[2]], f[t[3]]>>]
    <2> HIDE DEF leaf, node, V
    <2> QED
      BY <1>1, <1>2, TreesRecur
  <1>4. ASSUME NEW t \in Trees
        PROVE  f[t] = IF Len(t) = 1 THEN t[1] ELSE Combined(t[1], f[t[2]], f[t[3]])
    <2>1. Len(t) # 1 => f[t[2]] \in V /\ f[t[3]] \in V /\ t[1] \in Operators
      BY <1>3, Shape
    <2> HIDE DEF V
    <2> QED
      BY <1>3, <2>1
  <1>5. f = [t \in Trees |-> IF Len(t) = 1 THEN t[1] ELSE Combined(t[1], f[t[2]], f[t[3]])]
    BY <1>3, <1>4
  <1>6. Value = [t \in Trees |->
                   IF Len(t) = 1 THEN t[1] ELSE Combined(t[1], Value[t[2]], Value[t[3]])]
    BY <1>5, Zenon DEF Value
  <1>7. ASSUME NEW t \in Trees
        PROVE  Value[t] = IF Len(t) = 1 THEN t[1] ELSE Combined(t[1], Value[t[2]], Value[t[3]])
    BY <1>6, Zenon
  <1>8. Value = [t \in Trees |-> Value[t]]
    BY <1>6, Zenon
  <1>9. \A t \in Trees : Len(t) = 1 => Value[t] \in V
    BY <1>1, <1>7
  <1>10. \A t \in Trees : Len(t) # 1 /\ Value[t[2]] \in V /\ Value[t[3]] \in V => Value[t] \in V
    <2> SUFFICES ASSUME NEW t \in Trees, Len(t) # 1, Value[t[2]] \in V, Value[t[3]] \in V
                 PROVE  Value[t] \in V
      OBVIOUS
    <2>1. t[1] \in Operators /\ Value[t] = Combined(t[1], Value[t[2]], Value[t[3]])
      BY <1>7, Shape
    <2> QED
      BY <2>1, CombinedType
  <1> HIDE DEF V
  <1>11. Value \in [Trees -> V]
    BY <1>8, <1>9, <1>10, TreesTyped
  <1> QED
    BY <1>7, <1>11 DEF V

LEMMA CharValueDef ==
  /\ CharValue \in [Trees -> Chars \cup {Nil}]
  /\ \A t \in Trees :
        CharValue[t] = IF Len(t) = 1 THEN t[1]
                       ELSE Narrowed(Combined(t[1], CharValue[t[2]], CharValue[t[3]]))
  <1> DEFINE V == Chars \cup {Nil}
             leaf == [t \in Trees |-> t[1]]
             node == [p \in Trees \X V \X V |->
                        IF p[1][1] \in Operators THEN Narrowed(Combined(p[1][1], p[2], p[3])) ELSE Nil]
  <1>0. V \subseteq Int \cup {Nil}
    BY DEF Chars
  <1>1. leaf \in [Trees -> V]
    <2>1. \A t \in Trees : t[1] \in Chars
      BY Shape DEF Chars, Operators, Plus, Minus, Times, Over
    <2> QED
      BY <2>1
  <1>2. node \in [Trees \X V \X V -> V]
    BY CombinedType, <1>0
  <1>3. PICK f \in [Trees -> V] : \A t \in Trees :
           f[t] = IF Len(t) = 1 THEN leaf[t] ELSE node[<<t, f[t[2]], f[t[3]]>>]
    <2> HIDE DEF leaf, node, V
    <2> QED
      BY <1>1, <1>2, TreesRecur
  <1>4. ASSUME NEW t \in Trees
        PROVE  f[t] = IF Len(t) = 1 THEN t[1] ELSE Narrowed(Combined(t[1], f[t[2]], f[t[3]]))
    <2>1. Len(t) # 1 => f[t[2]] \in V /\ f[t[3]] \in V /\ t[1] \in Operators
      BY <1>3, Shape
    <2> HIDE DEF V
    <2> QED
      BY <1>3, <2>1
  <1>5. f = [t \in Trees |-> IF Len(t) = 1 THEN t[1] ELSE Narrowed(Combined(t[1], f[t[2]], f[t[3]]))]
    BY <1>3, <1>4
  <1>6. CharValue = [t \in Trees |->
           IF Len(t) = 1 THEN t[1]
           ELSE Narrowed(Combined(t[1], CharValue[t[2]], CharValue[t[3]]))]
    BY <1>5, Zenon DEF CharValue
  <1>7. ASSUME NEW t \in Trees
        PROVE  CharValue[t] = IF Len(t) = 1 THEN t[1]
                              ELSE Narrowed(Combined(t[1], CharValue[t[2]], CharValue[t[3]]))
    BY <1>6, Zenon
  <1>8. CharValue = [t \in Trees |-> CharValue[t]]
    BY <1>6, Zenon
  <1>9. \A t \in Trees : Len(t) = 1 => CharValue[t] \in V
    BY <1>1, <1>7
  <1>10. \A t \in Trees :
            Len(t) # 1 /\ CharValue[t[2]] \in V /\ CharValue[t[3]] \in V => CharValue[t] \in V
    BY <1>0, <1>7, Shape, CombinedType
  <1> HIDE DEF V
  <1>11. CharValue \in [Trees -> V]
    BY <1>8, <1>9, <1>10, TreesTyped
  <1> QED
    BY <1>7, <1>11 DEF V

LEMMA PartsDef ==
  /\ Parts \in [Trees -> SUBSET Trees]
  /\ \A t \in Trees :
        Parts[t] = {t} \cup IF Len(t) = 1 THEN {} ELSE Parts[t[2]] \cup Parts[t[3]]
  <1> DEFINE V == SUBSET Trees
             leaf == [t \in Trees |-> {t}]
             node == [p \in Trees \X V \X V |-> {p[1]} \cup (p[2] \cup p[3])]
  <1>1. leaf \in [Trees -> V] /\ node \in [Trees \X V \X V -> V]
    OBVIOUS
  <1>2. PICK f \in [Trees -> V] : \A t \in Trees :
           f[t] = IF Len(t) = 1 THEN leaf[t] ELSE node[<<t, f[t[2]], f[t[3]]>>]
    <2> HIDE DEF leaf, node, V
    <2> QED
      BY <1>1, TreesRecur
  <1>3. ASSUME NEW t \in Trees
        PROVE  f[t] = {t} \cup IF Len(t) = 1 THEN {} ELSE f[t[2]] \cup f[t[3]]
    <2>1. Len(t) # 1 => f[t[2]] \in V /\ f[t[3]] \in V
      BY <1>2, Shape
    <2>2. Len(t) # 1 => node[<<t, f[t[2]], f[t[3]]>>] = {t} \cup (f[t[2]] \cup f[t[3]])
      <3> HIDE DEF V
      <3> QED
        BY <2>1
    <2> HIDE DEF V, node
    <2> QED
      BY <1>2, <2>2
  <1>4. f = [t \in Trees |-> {t} \cup IF Len(t) = 1 THEN {} ELSE f[t[2]] \cup f[t[3]]]
    BY <1>2, <1>3
  <1>5. Parts = [t \in Trees |-> {t} \cup IF Len(t) = 1 THEN {} ELSE Parts[t[2]] \cup Parts[t[3]]]
    BY <1>4, Zenon DEF Parts
  <1>6. ASSUME NEW t \in Trees
        PROVE  Parts[t] = {t} \cup IF Len(t) = 1 THEN {} ELSE Parts[t[2]] \cup Parts[t[3]]
    BY <1>5, Zenon
  <1>7. Parts = [t \in Trees |-> Parts[t]]
    BY <1>5, Zenon
  <1>8. \A t \in Trees : Len(t) = 1 => Parts[t] \in V
    BY <1>6
  <1>9. \A t \in Trees : Len(t) # 1 /\ Parts[t[2]] \in V /\ Parts[t[3]] \in V => Parts[t] \in V
    <2> SUFFICES ASSUME NEW t \in Trees, Len(t) # 1, Parts[t[2]] \in V, Parts[t[3]] \in V
                 PROVE  Parts[t] \in V
      OBVIOUS
    <2>1. Parts[t] = {t} \cup (Parts[t[2]] \cup Parts[t[3]])
      BY <1>6
    <2> QED
      BY <2>1
  <1> HIDE DEF V
  <1>10. Parts \in [Trees -> V]
    BY <1>7, <1>8, <1>9, TreesTyped
  <1> QED
    BY <1>6, <1>10 DEF V

\* Where no result on the way leaves the range of a char, chars do no harm.
LEMMA FitsAgree ==
  ASSUME NEW t \in Trees, Fits(t)
  PROVE  CharValue[t] = Value[t]
  <1> DEFINE Good == {u \in Trees : Fits(u) => CharValue[u] = Value[u]}
  <1>1. \A u \in Trees : Leaf(u) => u \in Good
    BY Shape, ValueDef, CharValueDef
  <1>2. ASSUME NEW u \in Trees, Node(u), u[2] \in Good, u[3] \in Good, Fits(u)
        PROVE  CharValue[u] = Value[u]
    <2>1. Len(u) # 1 /\ u[2] \in Trees /\ u[3] \in Trees
      BY <1>2, Shape
    <2>2. Parts[u] = {u} \cup (Parts[u[2]] \cup Parts[u[3]])
      BY <2>1, PartsDef
    <2>3. Fits(u[2]) /\ Fits(u[3]) /\ Value[u] \in Chars
      BY <1>2, <2>2 DEF Fits
    <2>4. CharValue[u[2]] = Value[u[2]] /\ CharValue[u[3]] = Value[u[3]]
      BY <1>2, <2>3
    <2>5. CharValue[u] = Narrowed(Value[u])
      BY <2>1, <2>4, ValueDef, CharValueDef
    <2>6. Value[u] \in Int /\ Value[u] # Nil /\ Char(Value[u]) = Value[u]
      BY <2>3, CharRange, CalcAssumption DEF Chars
    <2> QED
      BY <2>5, <2>6 DEF Narrowed
  <1> HIDE DEF Good
  <1>3. \A u \in Trees : Node(u) /\ u[2] \in Good /\ u[3] \in Good => u \in Good
    BY <1>2 DEF Good
  <1>4. Trees \subseteq Good
    BY <1>1, <1>3, TreeInduction
  <1> QED
    BY <1>4 DEF Good

-----------------------------------------------------------------------------
(***************************************************************************)
(* The stack of operators.                                                 *)
(***************************************************************************)
StaysIs(stack, c, n) ==
    /\ n \in 0..Len(stack)
    /\ n > 0 => Stops(stack[n], c)
    /\ \A k \in (n + 1)..Len(stack) : ~Stops(stack[k], c)

\* What stays of the stack is determined.
LEMMA StaysAt ==
  ASSUME NEW stack \in Seq(Int), NEW c
  PROVE  StaysIs(stack, c, Stays(stack, c))
  <1> DEFINE l == Len(stack)
             S == {m \in 0..l : m = l \/ Stops(stack[l - m], c)}
  <1>1. l \in Nat
    BY LenProperties
  <1> HIDE DEF l
  <1>2. S \in SUBSET Nat /\ l \in S
    BY <1>1
  <1>3. PICK m \in S : \A k \in S : m <= k
    <2> HIDE DEF S
    <2> QED
      BY <1>2, LeastElement
  <1> DEFINE n == l - m
  <1>4. n \in 0..l /\ (n > 0 => Stops(stack[n], c))
    BY <1>1, <1>3
  <1>5. ASSUME NEW k \in (n + 1)..l, Stops(stack[k], c) PROVE FALSE
    <2>1. l - k \in 0..l /\ l - (l - k) = k /\ l - k < m /\ m \in Nat
      BY <1>1, <1>3
    <2>2. l - k \in S
      BY <1>5, <2>1
    <2> QED
      BY <1>3, <2>1, <2>2
  <1>6. StaysIs(stack, c, n)
    BY <1>4, <1>5 DEF StaysIs, l
  <1> HIDE DEF n
  <1> QED
    BY <1>6 DEF StaysIs, Stays

LEMMA StaysUnique ==
  ASSUME NEW stack \in Seq(Int), NEW c, NEW n, StaysIs(stack, c, n)
  PROVE  Stays(stack, c) = n
  <1> DEFINE l == Len(stack)
             m == Stays(stack, c)
  <1>1. l \in Nat /\ StaysIs(stack, c, m)
    BY StaysAt, LenProperties
  <1> HIDE DEF l, m
  <1>2. n \in 0..l /\ m \in 0..l
    BY <1>1 DEF StaysIs, l
  <1>3. ~(m < n)
    <2> SUFFICES ASSUME m < n PROVE FALSE
      OBVIOUS
    <2>1. n \in (m + 1)..l /\ n > 0
      BY <1>1, <1>2
    <2> QED
      BY <1>1, <2>1 DEF StaysIs, l
  <1>4. ~(n < m)
    <2> SUFFICES ASSUME n < m PROVE FALSE
      OBVIOUS
    <2>1. m \in (n + 1)..l /\ m > 0
      BY <1>1, <1>2
    <2> QED
      BY <1>1, <2>1 DEF StaysIs, l
  <1> QED
    BY <1>1, <1>2, <1>3, <1>4 DEF m

\* What is popped of the stack.
LEMMA PoppedType ==
  ASSUME NEW stack \in Seq(Int), NEW n \in 0..Len(stack)
  PROVE  /\ Popped(stack, n) \in Seq(Int)
         /\ Len(Popped(stack, n)) = Len(stack) - n
         /\ \A k \in 1..(Len(stack) - n) : Popped(stack, n)[k] = stack[Len(stack) + 1 - k]
  <1> DEFINE l == Len(stack)
  <1>1. l \in Nat
    BY LenProperties
  <1> HIDE DEF l
  <1>2. n \in 0..l
    BY DEF l
  <1>3. \A k \in 1..(l - n) : l + 1 - k \in 1..l
    BY <1>1, <1>2
  <1>4. \A k \in 1..(l - n) : stack[l + 1 - k] \in Int
    BY <1>3, ElementOfSeq DEF l
  <1>5. l - n \in Nat
    BY <1>1, <1>2
  <1> DEFINE q == [k \in 1..(l - n) |-> stack[l + 1 - k]]
  <1>6. q \in [1..(l - n) -> Int]
    BY <1>4
  <1>7. q \in Seq(Int) /\ Len(q) = l - n
    <2> HIDE DEF q
    <2> DEFINE m == l - n
    <2>1. q \in [1..m -> Int] /\ m \in Nat
      BY <1>5, <1>6
    <2> HIDE DEF m
    <2>2. q \in Seq(Int) /\ Len(q) = m
      BY <2>1, LenProperties, SeqDef
    <2> QED
      BY <2>2 DEF m
  <1>8. Popped(stack, n) = q
    BY DEF Popped, l
  <1> QED
    BY <1>7, <1>8 DEF l

\* What was pushed comes back in reverse.
LEMMA PoppedTop ==
  ASSUME NEW stack \in Seq(Int), NEW q \in Seq(Int)
  PROVE  /\ Len(stack) \in 0..Len(stack \o q)
         /\ Popped(stack \o q, Len(stack)) = Popped(q, 0)
         /\ SubSeq(stack \o q, 1, Len(stack)) = stack
  <1> DEFINE l == Len(stack)
             m == Len(q)
             b == stack \o q
  <1>1. l \in Nat /\ m \in Nat /\ b \in Seq(Int) /\ Len(b) = l + m
    BY LenProperties, ConcatProperties
  <1>2. \A k \in 1..(l + m) : b[k] = IF k <= l THEN stack[k] ELSE q[k - l]
    BY ConcatProperties
  <1> HIDE DEF l, m, b
  <1>3. l \in 0..(l + m)
    BY <1>1
  <1>4. Popped(b, l) = [k \in 1..(l + m - l) |-> b[l + m + 1 - k]]
    BY <1>1 DEF Popped
  <1>5. Popped(q, 0) = [k \in 1..m |-> q[m + 1 - k]]
    BY <1>1 DEF Popped, m
  <1>6. \A k \in 1..m : b[l + m + 1 - k] = q[m + 1 - k]
    <2> SUFFICES ASSUME NEW k \in 1..m PROVE b[l + m + 1 - k] = q[m + 1 - k]
      OBVIOUS
    <2>1. l + m + 1 - k \in 1..(l + m) /\ ~(l + m + 1 - k <= l) /\ (l + m + 1 - k) - l = m + 1 - k
      BY <1>1
    <2> QED
      BY <1>2, <2>1
  <1>7. l + m - l = m
    BY <1>1
  <1>8. Popped(b, l) = Popped(q, 0)
    BY <1>4, <1>5, <1>6, <1>7
  <1>9. SubSeq(b, 1, l) = stack
    <2>1. SubSeq(b, 1, l) \in Seq(Int) /\ Len(SubSeq(b, 1, l)) = l
          /\ \A k \in 1..l : SubSeq(b, 1, l)[k] = b[k]
      BY <1>1, SubSeqProperties
    <2>2. \A k \in 1..l : b[k] = stack[k]
      BY <1>1, <1>2
    <2> QED
      BY <2>1, <2>2, SeqEqual DEF l
  <1> QED
    BY <1>1, <1>3, <1>8, <1>9 DEF l, b

-----------------------------------------------------------------------------
(***************************************************************************)
(* Reading strings, one after the other.                                   *)
(***************************************************************************)
\* One character is one step; what is read in two parts is read; a string leads to
\* one state only.
LEMMA ReadsOne ==
  ASSUME NEW S, NEW C, NEW step \in [S \X C -> S], NEW a \in S, NEW c \in C
  PROVE  Reads(S, step, <<c>>, a, step[<<a, c>>])
  <1> DEFINE b == step[<<a, c>>]
             f == [i \in 0..1 |-> IF i = 0 THEN a ELSE b]
  <1>1. b \in S
    OBVIOUS
  <1> HIDE DEF b
  <1>2. f \in [0..1 -> S] /\ f[0] = a /\ f[1] = b
    BY <1>1
  <1> HIDE DEF f
  <1>3. \A i \in 1..1 : f[i] = step[<<f[i - 1], <<c>>[i]>>]
    BY <1>2 DEF b
  <1>4. Len(<<c>>) = 1
    OBVIOUS
  <1>5. Through(S, step, <<c>>, a, f)
    BY <1>2, <1>3, <1>4 DEF Through
  <1> QED
    BY <1>2, <1>4, <1>5 DEF Reads, b

LEMMA ReadsType ==
  ASSUME NEW S, NEW C, NEW step, NEW str \in Seq(C), NEW a, NEW b, Reads(S, step, str, a, b)
  PROVE  b \in S
  <1>1. Len(str) \in 0..Len(str)
    BY LenProperties
  <1> QED
    BY <1>1 DEF Reads, Through

LEMMA ReadsOn ==
  ASSUME NEW S, NEW C, NEW step, NEW left \in Seq(C), NEW right \in Seq(C),
         NEW a, NEW b, NEW c, Reads(S, step, left, a, b), Reads(S, step, right, b, c)
  PROVE  Reads(S, step, left \o right, a, c)
  <1> DEFINE l == Len(left)
             r == Len(right)
             u == left \o right
  <1>1. l \in Nat /\ r \in Nat /\ u \in Seq(C) /\ Len(u) = l + r
    BY LenProperties, ConcatProperties
  <1>2. \A i \in 1..(l + r) : u[i] = IF i <= l THEN left[i] ELSE right[i - l]
    BY ConcatProperties
  <1>3. PICK f : Through(S, step, left, a, f) /\ f[l] = b
    BY DEF Reads
  <1>4. PICK g : Through(S, step, right, b, g) /\ g[r] = c
    BY DEF Reads
  <1>5. /\ f \in [0..l -> S] /\ f[0] = a /\ f[l] = b
        /\ \A i \in 1..l : f[i] = step[<<f[i - 1], left[i]>>]
    BY <1>3 DEF Through
  <1>6. /\ g \in [0..r -> S] /\ g[0] = b /\ g[r] = c
        /\ \A i \in 1..r : g[i] = step[<<g[i - 1], right[i]>>]
    BY <1>4 DEF Through
  <1> HIDE DEF l, r, u
  <1> DEFINE h == [i \in 0..(l + r) |-> IF i <= l THEN f[i] ELSE g[i - l]]
  <1>7. \A i \in 0..(l + r) : (i <= l => i \in 0..l) /\ (~(i <= l) => i - l \in 0..r)
    BY <1>1
  <1>8. h \in [0..(l + r) -> S]
    BY <1>5, <1>6, <1>7
  <1>9. \A i \in 0..l : h[i] = f[i]
    BY <1>1
  <1>10. \A i \in 0..r : h[l + i] = g[i]
    <2> SUFFICES ASSUME NEW i \in 0..r PROVE h[l + i] = g[i]
      OBVIOUS
    <2>1. l + i \in 0..(l + r) /\ (l + i) - l = i /\ (l + i <= l => i = 0 /\ l + i = l)
      BY <1>1
    <2>2. h[l + i] = IF l + i <= l THEN f[l + i] ELSE g[i]
      BY <2>1
    <2> QED
      BY <1>5, <1>6, <2>1, <2>2
  <1> HIDE DEF h
  <1>11. ASSUME NEW i \in 1..(l + r) PROVE h[i] = step[<<h[i - 1], u[i]>>]
    <2>1. CASE i <= l
      <3>1. i \in 1..l /\ i \in 0..l /\ i - 1 \in 0..l
        BY <1>1, <2>1
      <3>2. h[i] = f[i] /\ h[i - 1] = f[i - 1] /\ u[i] = left[i]
        BY <1>2, <1>9, <2>1, <3>1
      <3> QED
        BY <1>5, <3>1, <3>2
    <2>2. CASE ~(i <= l)
      <3> DEFINE j == i - l
      <3>1. j \in 1..r /\ j \in 0..r /\ j - 1 \in 0..r /\ l + j = i /\ l + (j - 1) = i - 1
        BY <1>1, <2>2
      <3>2. u[i] = right[j]
        BY <1>2, <2>2
      <3> HIDE DEF j
      <3>3. h[i] = g[j] /\ h[i - 1] = g[j - 1]
        BY <1>10, <3>1
      <3> QED
        BY <1>6, <3>1, <3>2, <3>3
    <2> QED
      BY <2>1, <2>2
  <1>12. h[0] = a /\ h[l + r] = c
    BY <1>1, <1>5, <1>6, <1>9, <1>10
  <1>13. Through(S, step, u, a, h)
    BY <1>1, <1>8, <1>11, <1>12 DEF Through
  <1> QED
    BY <1>1, <1>12, <1>13 DEF Reads, u

LEMMA ThroughSame ==
  ASSUME NEW S, NEW T, NEW C, NEW step, NEW str \in Seq(C), NEW a, NEW f, NEW g,
         Through(S, step, str, a, f), Through(T, step, str, a, g)
  PROVE  f[Len(str)] = g[Len(str)]
  <1> DEFINE l == Len(str)
             Good == {i \in Nat : i <= l => f[i] = g[i]}
  <1>1. l \in Nat
    BY LenProperties
  <1>2. /\ f[0] = a /\ \A i \in 1..l : f[i] = step[<<f[i - 1], str[i]>>]
        /\ g[0] = a /\ \A i \in 1..l : g[i] = step[<<g[i - 1], str[i]>>]
    BY DEF Through
  <1> HIDE DEF l
  <1>3. 0 \in Good
    BY <1>2
  <1>4. ASSUME NEW n \in Nat, n \in Good PROVE n + 1 \in Good
    <2> SUFFICES ASSUME n + 1 <= l PROVE f[n + 1] = g[n + 1]
      OBVIOUS
    <2>1. n + 1 \in 1..l /\ (n + 1) - 1 = n /\ n <= l
      BY <1>1
    <2>2. f[n] = g[n]
      BY <1>4, <2>1
    <2> QED
      BY <1>2, <2>1, <2>2
  <1> HIDE DEF Good
  <1>5. l \in Good
    BY <1>1, <1>3, <1>4, NumberInduction
  <1> QED
    BY <1>1, <1>5 DEF Good, l

LEMMA ReadsSame ==
  ASSUME NEW S, NEW C, NEW step, NEW str \in Seq(C), NEW a, NEW b, NEW c,
         Reads(S, step, str, a, b), Reads(S, step, str, a, c)
  PROVE  b = c
  <1>1. PICK f : Through(S, step, str, a, f) /\ f[Len(str)] = b
    BY DEF Reads
  <1>2. PICK g : Through(S, step, str, a, g) /\ g[Len(str)] = c
    BY DEF Reads
  <1>3. f[Len(str)] = g[Len(str)]
    BY <1>1, <1>2, ThroughSame
  <1> QED
    BY <1>1, <1>2, <1>3

-----------------------------------------------------------------------------
(***************************************************************************)
(* The conversion, character by character.                                 *)
(***************************************************************************)
Infix == [p \in Conversions \X Int |-> InfixStep(p[2])[p[1]]]
Start == [post |-> <<>>, stack |-> <<>>, stray |-> FALSE]

LEMMA StartType == Start \in Conversions
  BY DEF Start, Conversions

\* The steps of infixToPostfix stay among the states of the conversion.
LEMMA InfixType ==
  Infix \in [Conversions \X Int -> Conversions]
  <1> SUFFICES ASSUME NEW s \in Conversions, NEW c \in Int PROVE InfixStep(c)[s] \in Conversions
    BY DEF Infix
  <1> DEFINE n == Stays(s.stack, c)
             post == s.post \o Popped(s.stack, n)
  <1>0. /\ c \in Digits => c \notin Operators /\ c # Open /\ c # Close
        /\ c \in Operators => c # Open /\ c # Close
        /\ Open # Close
    BY DEF Digits, Operators, Open, Close, Zero, Plus, Minus, Times, Over
  <1>1. s.post \in Seq(Int) /\ s.stack \in Seq(Int) /\ s.stray \in BOOLEAN
    BY DEF Conversions
  <1>2. n \in 0..Len(s.stack)
    BY <1>1, StaysAt DEF StaysIs
  <1>3. Popped(s.stack, n) \in Seq(Int)
    BY <1>1, <1>2, PoppedType
  <1>4. post \in Seq(Int)
    BY <1>1, <1>3, ConcatProperties
  <1>5. ASSUME NEW m \in Int, m <= Len(s.stack) PROVE SubSeq(s.stack, 1, m) \in Seq(Int)
    <2>1. \A i \in 1..m : i \in 1..Len(s.stack)
      BY <1>1, <1>5, LenProperties
    <2>2. \A i \in 1..m : s.stack[i] \in Int
      BY <1>1, <2>1, ElementOfSeq
    <2> QED
      BY <2>2, SubSeqProperties
  <1>6. SubSeq(s.stack, 1, n) \in Seq(Int) /\ SubSeq(s.stack, 1, n - 1) \in Seq(Int)
    <2>1. n \in Int /\ n - 1 \in Int /\ n <= Len(s.stack) /\ n - 1 <= Len(s.stack)
      BY <1>1, <1>2, LenProperties
    <2> HIDE DEF n
    <2> QED
      BY <1>5, <2>1
  <1>7. InfixStep(c)[s] =
          CASE c \in Digits    -> [s EXCEPT !.post = Append(@, c)]
            [] c \in Operators -> [s EXCEPT !.post = post, !.stack = Append(SubSeq(@, 1, n), c)]
            [] c = Open        -> [s EXCEPT !.stack = Append(@, c)]
            [] c = Close       -> [post |-> post, stack |-> SubSeq(s.stack, 1, n - 1),
                                   stray |-> s.stray \/ n = 0]
            [] OTHER           -> s
    BY DEF InfixStep
  <1> HIDE DEF n, post
  <1>8. Append(s.post, c) \in Seq(Int) /\ Append(s.stack, c) \in Seq(Int)
        /\ Append(SubSeq(s.stack, 1, n), c) \in Seq(Int)
    BY <1>1, <1>6, AppendProperties
  <1>9. ASSUME NEW x \in Seq(Int), NEW y \in Seq(Int)
        PROVE  /\ [s EXCEPT !.post = x] \in Conversions
               /\ [s EXCEPT !.stack = x] \in Conversions
               /\ [s EXCEPT !.post = x, !.stack = y] \in Conversions
    BY DEF Conversions
  <1>10. CASE c \in Digits
    <2>1. InfixStep(c)[s] = [s EXCEPT !.post = Append(s.post, c)]
      BY <1>0, <1>7, <1>10
    <2> QED
      BY <1>8, <1>9, <2>1
  <1>11. CASE c \notin Digits /\ c \in Operators
    <2>1. InfixStep(c)[s] = [s EXCEPT !.post = post, !.stack = Append(SubSeq(s.stack, 1, n), c)]
      BY <1>0, <1>7, <1>11
    <2> QED
      BY <1>4, <1>8, <1>9, <2>1
  <1>12. CASE c \notin Digits /\ c \notin Operators /\ c = Open
    <2>1. InfixStep(c)[s] = [s EXCEPT !.stack = Append(s.stack, c)]
      BY <1>0, <1>7, <1>12
    <2> QED
      BY <1>8, <1>9, <2>1
  <1>13. CASE c \notin Digits /\ c \notin Operators /\ c # Open /\ c = Close
    BY <1>1, <1>4, <1>6, <1>7, <1>13 DEF Conversions
  <1>14. CASE c \notin Digits /\ c \notin Operators /\ c # Open /\ c # Close
    BY <1>7, <1>14
  <1> QED
    BY <1>10, <1>11, <1>12, <1>13, <1>14

\* The value of infixToPostfix is where reading the string leads.
LEMMA InfixRun ==
  ASSUME NEW str \in Seq(Int)
  PROVE  /\ infixToPostfix[str] \in Conversions
         /\ Reads(Conversions, Infix, str, Start, infixToPostfix[str])
  <1>1. PICK f : Through(Conversions, Infix, str, Start, f)
    BY InfixType, StartType, LoopRuns
  <1>2. \A i \in 1..Len(str) : str[i] \in Int /\ i - 1 \in 0..Len(str)
    BY ElementOfSeq, LenProperties
  <1>3. /\ f \in [0..Len(str) -> Conversions] /\ f[0] = Start
        /\ \A i \in 1..Len(str) : f[i] = InfixStep(str[i])[f[i - 1]]
    BY <1>1, <1>2 DEF Through, Infix
  <1>4. f = [i \in 0..Len(str) |-> IF i = 0 THEN Start ELSE InfixStep(str[i])[f[i - 1]]]
    <2>1. \A i \in 0..Len(str) : i = 0 \/ i \in 1..Len(str)
      BY LenProperties
    <2> QED
      BY <1>3, <2>1
  <1>5. \E h : /\ h = [i \in 0..Len(str) |-> IF i = 0 THEN Start ELSE InfixStep(str[i])[h[i - 1]]]
               /\ infixToPostfix[str] = h[Len(str)]
    BY <1>4 DEF infixToPostfix, Start
  <1>6. PICK h : /\ h = [i \in 0..Len(str) |-> IF i = 0 THEN Start ELSE InfixStep(str[i])[h[i - 1]]]
                 /\ infixToPostfix[str] = h[Len(str)]
    BY <1>5
  <1>7. Through(Conversions, Infix, str, Start, h)
    <2> HIDE DEF Start
    <2>1. 0 \in 0..Len(str)
      BY LenProperties
    <2>2. h[0] = Start
      BY <1>6, <2>1
    <2>3. ASSUME NEW i \in 1..Len(str) PROVE h[i] = InfixStep(str[i])[h[i - 1]]
      <3>1. i \in 0..Len(str) /\ i # 0
        BY LenProperties
      <3> QED
        BY <1>6, <3>1, Zenon
    <2>4. DOMAIN h = 0..Len(str) /\ h = [i \in 0..Len(str) |-> h[i]]
      BY <1>6, Zenon
    <2> DEFINE Good == {i \in Nat : i <= Len(str) => h[i] \in Conversions}
    <2>5. 0 \in Good
      BY <2>2, StartType
    <2>6. ASSUME NEW n \in Nat, n \in Good PROVE n + 1 \in Good
      <3> SUFFICES ASSUME n + 1 <= Len(str) PROVE h[n + 1] \in Conversions
        OBVIOUS
      <3>1. n + 1 \in 1..Len(str) /\ (n + 1) - 1 = n /\ n <= Len(str)
        BY LenProperties
      <3>2. h[n] \in Conversions /\ h[n + 1] = Infix[<<h[n], str[n + 1]>>]
        BY <1>2, <2>3, <2>6, <3>1 DEF Infix
      <3> QED
        BY <1>2, <3>1, <3>2, InfixType
    <2> HIDE DEF Good
    <2>7. Nat \subseteq Good
      BY <2>5, <2>6, NumberInduction
    <2>8. \A i \in 0..Len(str) : h[i] \in Conversions
      BY <2>7, LenProperties DEF Good
    <2>9. h \in [0..Len(str) -> Conversions]
      BY <2>4, <2>8
    <2> QED
      BY <1>2, <2>2, <2>3, <2>8, <2>9 DEF Through, Infix
  <1>8. Len(str) \in 0..Len(str)
    BY LenProperties
  <1> QED
    BY <1>6, <1>7, <1>8 DEF Reads, Through

\* What the characters of a formula do.
LEMMA Kinds ==
  /\ \A c \in Digits : c \in Int /\ c \notin Operators /\ c # Open /\ c # Close
  /\ \A c \in Operators : c \in Int /\ c \notin Digits /\ c # Open /\ c # Close
  /\ Open # Close /\ Open \in Int /\ Close \in Int /\ Newline \in Int
  /\ {Open, Close, Newline} \cap (Digits \cup Operators) = {}
  /\ Newline # Open /\ Newline # Close
  /\ Sums \subseteq Operators /\ Products \subseteq Operators /\ Sums \cap Products = {}
  /\ Operators = Sums \cup Products
  BY DEF Digits, Operators, Open, Close, Newline, Zero, Plus, Minus, Times, Over, Sums, Products

\* An operation on the stack base \o q that stops on base.
LEMMA StaysBelow ==
  ASSUME NEW base \in Seq(Int), NEW q \in Seq(Int), NEW c,
         Len(base) > 0 => Stops(base[Len(base)], c),
         \A k \in 1..Len(q) : ~Stops(q[k], c)
  PROVE  Stays(base \o q, c) = Len(base)
  <1> DEFINE l == Len(base)
             m == Len(q)
             b == base \o q
  <1>1. l \in Nat /\ m \in Nat /\ b \in Seq(Int) /\ Len(b) = l + m
    BY LenProperties, ConcatProperties
  <1>2. \A k \in 1..(l + m) : b[k] = IF k <= l THEN base[k] ELSE q[k - l]
    BY ConcatProperties
  <1>3. (l > 0 => Stops(base[l], c)) /\ \A k \in 1..m : ~Stops(q[k], c)
    OBVIOUS
  <1> HIDE DEF l, m, b
  <1>4. l > 0 => Stops(b[l], c)
    BY <1>1, <1>2, <1>3
  <1>5. ASSUME NEW k \in (l + 1)..(l + m) PROVE ~Stops(b[k], c)
    <2>1. k \in 1..(l + m) /\ ~(k <= l) /\ k - l \in 1..m
      BY <1>1
    <2> QED
      BY <1>2, <1>3, <2>1
  <1>6. l \in 0..Len(b)
    BY <1>1
  <1>7. StaysIs(b, c, l)
    BY <1>1, <1>4, <1>5, <1>6 DEF StaysIs
  <1> QED
    BY <1>1, <1>7, StaysUnique DEF l, b

\* What is made of a digit, an opening parenthesis and the newline.
LEMMA DigitRead ==
  ASSUME NEW s \in Conversions, NEW d \in 0..9
  PROVE  Infix[<<s, Zero + d>>] =
           [post |-> Append(s.post, Zero + d), stack |-> s.stack, stray |-> s.stray]
  <1>1. Zero + d \in Digits
    BY DEF Digits, Zero
  <1>2. Infix[<<s, Zero + d>>] = InfixStep(Zero + d)[s]
    BY <1>1, Kinds DEF Infix
  <1>3. InfixStep(Zero + d)[s] = [s EXCEPT !.post = Append(s.post, Zero + d)]
    BY <1>1, Kinds DEF InfixStep
  <1> QED
    BY <1>2, <1>3 DEF Conversions

LEMMA OpenRead ==
  ASSUME NEW s \in Conversions
  PROVE  Infix[<<s, Open>>] =
           [post |-> s.post, stack |-> Append(s.stack, Open), stray |-> s.stray]
  <1>1. Infix[<<s, Open>>] = InfixStep(Open)[s]
    BY Kinds DEF Infix
  <1>2. InfixStep(Open)[s] = [s EXCEPT !.stack = Append(s.stack, Open)]
    BY Kinds DEF InfixStep
  <1> QED
    BY <1>1, <1>2 DEF Conversions

LEMMA NewlineRead ==
  ASSUME NEW s \in Conversions
  PROVE  Infix[<<s, Newline>>] = s
  <1>1. Infix[<<s, Newline>>] = InfixStep(Newline)[s]
    BY Kinds DEF Infix
  <1> QED
    BY <1>1, Kinds DEF InfixStep

\* Of the stack base \o q, an arriving op pops q.
Yields(base, q, op) ==
    /\ Len(base) > 0 => ~Pops(base[Len(base)], op)
    /\ \A k \in 1..Len(q) : Pops(q[k], op)

Reduced(s, stack, q) == [post |-> s.post \o Popped(q, 0), stack |-> stack, stray |-> s.stray]

LEMMA OperatorRead ==
  ASSUME NEW s \in Conversions, NEW op \in Operators,
         NEW base \in Seq(Int), NEW q \in Seq(Int), s.stack = base \o q, Yields(base, q, op)
  PROVE  Infix[<<s, op>>] = Reduced(s, Append(base, op), q)
  <1> DEFINE n == Stays(s.stack, op)
             post == s.post \o Popped(s.stack, n)
  <1>1. Infix[<<s, op>>] = InfixStep(op)[s]
    BY Kinds DEF Infix
  <1>2. InfixStep(op)[s] = [s EXCEPT !.post = post, !.stack = Append(SubSeq(s.stack, 1, n), op)]
    BY Kinds DEF InfixStep
  <1>3. \A top : Stops(top, op) <=> ~Pops(top, op)
    BY Kinds DEF Stops
  <1>4. n = Len(base)
    BY <1>3, StaysBelow DEF Yields
  <1>5. Popped(s.stack, n) = Popped(q, 0) /\ SubSeq(s.stack, 1, n) = base
    BY <1>4, PoppedTop
  <1> HIDE DEF n
  <1> QED
    BY <1>1, <1>2, <1>5 DEF Conversions, Reduced

\* The operators in q are popped, down to the opening parenthesis.
LEMMA CloseRead ==
  ASSUME NEW s \in Conversions, NEW base \in Seq(Int), NEW q \in Seq(Int),
         s.stack = Append(base, Open) \o q, \A k \in 1..Len(q) : q[k] # Open
  PROVE  Infix[<<s, Close>>] = Reduced(s, base, q)
  <1> DEFINE b == Append(base, Open)
             n == Stays(s.stack, Close)
             post == s.post \o Popped(s.stack, n)
  <1>1. Infix[<<s, Close>>] = InfixStep(Close)[s]
    BY Kinds DEF Infix
  <1>2. InfixStep(Close)[s] = [post |-> post, stack |-> SubSeq(s.stack, 1, n - 1),
                               stray |-> s.stray \/ n = 0]
    BY Kinds DEF InfixStep
  <1>3. \A top : Stops(top, Close) <=> top = Open
    BY Kinds DEF Stops
  <1>4. b \in Seq(Int) /\ Len(b) = Len(base) + 1 /\ b[Len(base) + 1] = Open
    BY Kinds, AppendProperties
  <1>5. Len(base) \in Nat /\ Len(b) \in Nat
    BY <1>4, LenProperties
  <1> HIDE DEF b
  <1>6. n = Len(b)
    BY <1>3, <1>4, StaysBelow DEF b
  <1>7. Popped(s.stack, n) = Popped(q, 0)
    BY <1>4, <1>6, PoppedTop DEF b
  <1>8. SubSeq(s.stack, 1, n - 1) = base
    <2>1. <<Open>> \in Seq(Int) /\ b = base \o <<Open>>
      BY Kinds, AppendIsConcat DEF b
    <2>2. <<Open>> \o q \in Seq(Int) /\ s.stack = base \o (<<Open>> \o q)
      BY <2>1, ConcatProperties, ConcatAssociative DEF b
    <2>3. n - 1 = Len(base)
      BY <1>4, <1>5, <1>6
    <2> HIDE DEF n
    <2> QED
      BY <2>2, <2>3, PoppedTop
  <1>9. n # 0 /\ (s.stray \/ n = 0) = s.stray
    <2>1. n # 0
      BY <1>4, <1>5, <1>6
    <2>2. s.stray \in BOOLEAN
      BY DEF Conversions
    <2> HIDE DEF n
    <2> QED
      BY <2>1, <2>2
  <1> HIDE DEF n
  <1> QED
    BY <1>1, <1>2, <1>7, <1>8, <1>9 DEF Reduced

-----------------------------------------------------------------------------
(***************************************************************************)
(* The conversion of a formula.                                            *)
(***************************************************************************)
\* The reference: the two parts, then the operator.
Postfix[t \in Trees] ==
    IF Len(t) = 1 THEN <<Zero + t[1]>> ELSE Postfix[t[2]] \o Postfix[t[3]] \o <<t[1]>>

LEMMA PostfixDef ==
  /\ Postfix \in [Trees -> Seq(Int)]
  /\ \A t \in Trees :
        Postfix[t] = IF Len(t) = 1 THEN <<Zero + t[1]>>
                     ELSE Postfix[t[2]] \o Postfix[t[3]] \o <<t[1]>>
  <1> DEFINE V == Seq(Int)
             leaf == [t \in Trees |-> <<Zero + t[1]>>]
             node == [p \in Trees \X V \X V |-> p[2] \o p[3] \o <<p[1][1]>>]
  <1>1. leaf \in [Trees -> V] /\ \A t \in Trees : <<t[1]>> \in V /\ <<Zero + t[1]>> \in V
    <2>1. \A t \in Trees : Zero + t[1] \in Int
      BY Shape DEF Zero
    <2> QED
      BY <2>1, Shape
  <1>2. \A t \in Trees : \A a, b \in V : a \o b \o <<t[1]>> \in V
    BY <1>1, ConcatProperties
  <1>3. node \in [Trees \X V \X V -> V]
    <2> HIDE DEF V
    <2> QED
      BY <1>2
  <1>4. PICK f \in [Trees -> V] : \A t \in Trees :
           f[t] = IF Len(t) = 1 THEN leaf[t] ELSE node[<<t, f[t[2]], f[t[3]]>>]
    <2>1. leaf \in [Trees -> V]
      BY <1>1
    <2> HIDE DEF leaf, node, V
    <2> QED
      BY <2>1, <1>3, TreesRecur
  <1>5. ASSUME NEW t \in Trees
        PROVE  f[t] = IF Len(t) = 1 THEN <<Zero + t[1]>> ELSE f[t[2]] \o f[t[3]] \o <<t[1]>>
    <2>1. Len(t) # 1 => f[t[2]] \in V /\ f[t[3]] \in V
      BY <1>4, Shape
    <2>2. Len(t) # 1 => node[<<t, f[t[2]], f[t[3]]>>] = f[t[2]] \o f[t[3]] \o <<t[1]>>
      <3> HIDE DEF V
      <3> QED
        BY <2>1
    <2> HIDE DEF V, node
    <2> QED
      BY <1>4, <2>2
  <1>6. f = [t \in Trees |-> IF Len(t) = 1 THEN <<Zero + t[1]>> ELSE f[t[2]] \o f[t[3]] \o <<t[1]>>]
    BY <1>4, <1>5
  <1>7. Postfix = [t \in Trees |->
           IF Len(t) = 1 THEN <<Zero + t[1]>> ELSE Postfix[t[2]] \o Postfix[t[3]] \o <<t[1]>>]
    BY <1>6, Zenon DEF Postfix
  <1>8. ASSUME NEW t \in Trees
        PROVE  Postfix[t] = IF Len(t) = 1 THEN <<Zero + t[1]>>
                            ELSE Postfix[t[2]] \o Postfix[t[3]] \o <<t[1]>>
    BY <1>7, Zenon
  <1>9. Postfix = [t \in Trees |-> Postfix[t]]
    BY <1>7, Zenon
  <1>10. \A t \in Trees : Len(t) = 1 => Postfix[t] \in V
    BY <1>1, <1>8
  <1>11. \A t \in Trees : Len(t) # 1 /\ Postfix[t[2]] \in V /\ Postfix[t[3]] \in V => Postfix[t] \in V
    <2> HIDE DEF V
    <2> QED
      BY <1>2, <1>8
  <1> HIDE DEF V
  <1>12. Postfix \in [Trees -> V]
    BY <1>9, <1>10, <1>11, TreesTyped
  <1> QED
    BY <1>8, <1>12 DEF V

\* The operators of a formula that are still on the stack once it is read.
Pending(t) ==
    IF Len(t) = 1 THEN <<>>
    ELSE IF t[1] \in Sums /\ Len(t[3]) = 3 /\ t[3][1] \in Products THEN <<t[1], t[3][1]>>
    ELSE <<t[1]>>
InBrackets(t, weaker) == Len(t) = 3 /\ t[1] \in weaker
Held(t, weaker) == IF InBrackets(t, weaker) THEN <<>> ELSE Pending(t)

\* Nothing on the stack is kept back by a formula that is read.
Free(stack, t) ==
    Len(stack) > 0 /\ Len(t) = 3 =>
        \/ stack[Len(stack)] = Open
        \/ t[1] \in Products /\ stack[Len(stack)] \notin Products

\* Reading str from state s leaves the operators q on the stack, and makes p of the
\* postfix form once they are popped.
Leaves(s, str, q, p) ==
    \E post \in Seq(Int) :
       /\ Reads(Conversions, Infix, str, s,
                [post |-> post, stack |-> s.stack \o q, stray |-> s.stray])
       /\ post \o Popped(q, 0) = s.post \o p
ReadsWell(t) ==
    \A s \in Conversions : Free(s.stack, t) => Leaves(s, Text[t], Pending(t), Postfix[t])

\* At most two operators are pending.
LEMMA PendingType ==
  ASSUME NEW t \in Trees
  PROVE  /\ Pending(t) \in Seq(Int)
         /\ \A k \in 1..Len(Pending(t)) : Pending(t)[k] \in Operators
         /\ Len(t) = 3 /\ t[1] \in Products => Pending(t) = <<t[1]>>
         /\ Popped(Pending(t), 0) \in Seq(Int)
  <1>1. Len(t) # 1 => t[1] \in Operators /\ t[3] \in Trees
    BY Shape
  <1>2. Pending(t) \in Seq(Int) /\ \A k \in 1..Len(Pending(t)) : Pending(t)[k] \in Operators
    <2>1. CASE Len(t) = 1
      BY <2>1 DEF Pending
    <2>2. CASE Len(t) # 1 /\ t[1] \in Sums /\ Len(t[3]) = 3 /\ t[3][1] \in Products
      BY <1>1, <2>2, Kinds DEF Pending
    <2>3. CASE Len(t) # 1 /\ ~(t[1] \in Sums /\ Len(t[3]) = 3 /\ t[3][1] \in Products)
      BY <1>1, <2>3, Kinds DEF Pending
    <2> QED
      BY <2>1, <2>2, <2>3
  <1>3. Len(t) = 3 /\ t[1] \in Products => Pending(t) = <<t[1]>>
    BY Kinds DEF Pending
  <1>4. Popped(Pending(t), 0) \in Seq(Int)
    <2>1. 0 \in 0..Len(Pending(t))
      BY <1>2, LenProperties
    <2> QED
      BY <1>2, <2>1, PoppedType
  <1> QED
    BY <1>2, <1>3, <1>4

\* What is at the bottom of the stack is popped last.
LEMMA PoppedLast ==
  ASSUME NEW q \in Seq(Int), NEW c \in Int
  PROVE  /\ Popped(<<>>, 0) = <<>>
         /\ Popped(<<c>> \o q, 0) = Popped(q, 0) \o <<c>>
  <1>1. Popped(<<>>, 0) = <<>>
    BY DEF Popped
  <1> DEFINE m == Len(q)
             r == Popped(q, 0)
             b == <<c>> \o q
  <1>2. m \in Nat /\ 0 \in 0..m
    BY LenProperties
  <1>3. <<c>> \in Seq(Int) /\ Len(<<c>>) = 1 /\ <<c>>[1] = c
    OBVIOUS
  <1>4. r \in Seq(Int) /\ Len(r) = m /\ \A k \in 1..m : r[k] = q[m + 1 - k]
    BY <1>2, PoppedType
  <1>5. b \in Seq(Int) /\ Len(b) = m + 1
        /\ \A k \in 1..(1 + m) : b[k] = IF k <= 1 THEN <<c>>[k] ELSE q[k - 1]
    BY <1>2, <1>3, ConcatProperties
  <1> HIDE DEF r, b, m
  <1> DEFINE u == Popped(b, 0)
             v == r \o <<c>>
  <1>6. u \in Seq(Int) /\ Len(u) = m + 1 /\ \A k \in 1..(m + 1) : u[k] = b[m + 2 - k]
    <2>1. 0 \in 0..Len(b) /\ Len(b) - 0 = m + 1 /\ Len(b) + 1 = m + 2
      BY <1>2, <1>5
    <2>2. /\ u \in Seq(Int) /\ Len(u) = Len(b) - 0
          /\ \A k \in 1..(Len(b) - 0) : u[k] = b[Len(b) + 1 - k]
      BY <1>5, <2>1, PoppedType
    <2> HIDE DEF u
    <2>3. ASSUME NEW k \in 1..(m + 1) PROVE u[k] = b[m + 2 - k]
      <3>1. k \in 1..(Len(b) - 0) /\ Len(b) + 1 - k = m + 2 - k
        BY <1>2, <2>1
      <3> QED
        BY <2>2, <3>1
    <2> QED
      BY <2>1, <2>2, <2>3
  <1>7. v \in Seq(Int) /\ Len(v) = m + 1
        /\ \A k \in 1..(m + 1) : v[k] = IF k <= m THEN r[k] ELSE <<c>>[k - m]
    BY <1>3, <1>4, ConcatProperties
  <1> HIDE DEF u, v
  <1>8. ASSUME NEW k \in 1..(m + 1) PROVE u[k] = v[k]
    <2>1. CASE k = m + 1
      <3>1. m + 2 - k = 1 /\ 1 \in 1..(1 + m) /\ ~(k <= m) /\ k - m = 1
        BY <1>2, <2>1
      <3>2. u[k] = b[1] /\ b[1] = <<c>>[1]
        BY <1>5, <1>6, <3>1
      <3>3. v[k] = <<c>>[1]
        BY <1>7, <3>1
      <3> QED
        BY <3>2, <3>3
    <2>2. CASE k # m + 1
      <3>1. k <= m /\ m + 2 - k \in 1..(1 + m) /\ ~(m + 2 - k <= 1) /\ (m + 2 - k) - 1 = m + 1 - k
            /\ k \in 1..m
        BY <1>2, <2>2
      <3> QED
        BY <1>4, <1>5, <1>6, <1>7, <3>1
    <2> QED
      BY <2>1, <2>2
  <1>9. u = v
    BY <1>6, <1>7, <1>8, SeqEqual
  <1> QED
    BY <1>1, <1>9 DEF u, v, b, r

\* An operand: put in brackets, it leaves nothing on the stack.
LEMMA OperandRead ==
  ASSUME NEW t \in Trees, NEW s \in Conversions, NEW weaker, ReadsWell(t),
         InBrackets(t, weaker) \/ Free(s.stack, t)
  PROVE  Leaves(s, Bracketed(t, Text[t], weaker), Held(t, weaker), Postfix[t])
  <1>1. CASE ~InBrackets(t, weaker)
    <2>1. Bracketed(t, Text[t], weaker) = Text[t] /\ Held(t, weaker) = Pending(t)
      BY <1>1 DEF InBrackets, Bracketed, Held
    <2> QED
      BY <1>1, <2>1 DEF ReadsWell
  <1>2. CASE InBrackets(t, weaker)
    <2> DEFINE q == Pending(t)
               text == Text[t]
               p == Postfix[t]
    <2>1. /\ Bracketed(t, text, weaker) = (<<Open>> \o text) \o <<Close>>
          /\ Held(t, weaker) = <<>>
      BY <1>2 DEF InBrackets, Bracketed, Held
    <2>2. /\ text \in Seq(Int) /\ q \in Seq(Int) /\ Popped(q, 0) \in Seq(Int) /\ p \in Seq(Int)
          /\ s.stack \in Seq(Int) /\ s.post \in Seq(Int)
          /\ <<Open>> \in Seq(Int) /\ <<Close>> \in Seq(Int)
      BY TextDef, PostfixDef, PendingType, Kinds DEF Conversions
    <2>3. \A k \in 1..Len(q) : q[k] # Open
      BY PendingType, Kinds
    <2> DEFINE s1 == [post |-> s.post, stack |-> Append(s.stack, Open), stray |-> s.stray]
    <2>4. s1 \in Conversions /\ Reads(Conversions, Infix, <<Open>>, s, s1)
      <3>1. Infix[<<s, Open>>] = s1
        BY OpenRead
      <3>2. Reads(Conversions, Infix, <<Open>>, s, Infix[<<s, Open>>])
        BY Kinds, InfixType, ReadsOne
      <3> HIDE DEF s1
      <3> QED
        BY <3>1, <3>2, InfixType, Kinds
    <2>5. Free(s1.stack, t)
      <3>1. Len(s1.stack) = Len(s.stack) + 1 /\ s1.stack[Len(s.stack) + 1] = Open
        BY <2>2, Kinds, AppendProperties
      <3> QED
        BY <3>1 DEF Free
    <2>6. PICK post \in Seq(Int) :
             /\ Reads(Conversions, Infix, text, s1,
                      [post |-> post, stack |-> s1.stack \o q, stray |-> s1.stray])
             /\ post \o Popped(q, 0) = s1.post \o p
      <3> HIDE DEF s1, text, q, p
      <3> QED
        BY <2>4, <2>5 DEF ReadsWell, Leaves, text, q, p
    <2> DEFINE s2 == [post |-> post, stack |-> s1.stack \o q, stray |-> s1.stray]
               s3 == [post |-> post \o Popped(q, 0), stack |-> s.stack, stray |-> s.stray]
    <2>7. s2 \in Conversions
      <3> HIDE DEF s1, s2, text, q
      <3> QED
        BY <2>2, <2>6, ReadsType DEF s2
    <2>8. Infix[<<s2, Close>>] = s3
      <3>1. s2.stack = Append(s.stack, Open) \o q /\ s2.post = post /\ s2.stray = s.stray
        OBVIOUS
      <3> HIDE DEF s1, s2, q
      <3>2. Infix[<<s2, Close>>] =
              [post |-> s2.post \o Popped(q, 0), stack |-> s.stack, stray |-> s2.stray]
        <4> DEFINE base == s.stack
        <4>1. base \in Seq(Int) /\ q \in Seq(Int) /\ s2.stack = Append(base, Open) \o q
          BY <2>2, <3>1
        <4> HIDE DEF base
        <4>2. Infix[<<s2, Close>>] = Reduced(s2, base, q)
          BY ONLY <2>3, <2>7, <4>1, CloseRead
        <4> QED
          BY <4>2 DEF base, Reduced
      <3> QED
        BY <3>1, <3>2
    <2> HIDE DEF s1, s2, s3, q, text, p
    <2>9. Reads(Conversions, Infix, <<Close>>, s2, s3)
      BY <2>7, <2>8, Kinds, InfixType, ReadsOne
    <2>10. Reads(Conversions, Infix, <<Open>> \o text, s, s2) /\ <<Open>> \o text \in Seq(Int)
      BY <2>2, <2>4, <2>6, ReadsOn, ConcatProperties DEF s2
    <2>11. Reads(Conversions, Infix, (<<Open>> \o text) \o <<Close>>, s, s3)
      BY <2>2, <2>9, <2>10, ReadsOn
    <2>12. post \o Popped(q, 0) = s.post \o p
      BY <2>6 DEF s1
    <2> DEFINE last == post \o Popped(q, 0)
    <2>13. s3 = [post |-> last, stack |-> s.stack \o <<>>, stray |-> s.stray]
      BY <2>2, ConcatEmptySeq DEF s3
    <2>14. last \in Seq(Int) /\ last \o Popped(<<>>, 0) = s.post \o p
      <3>1. last \in Seq(Int)
        BY <2>2, ConcatProperties
      <3>2. Popped(<<>>, 0) = <<>>
        BY PoppedLast, Kinds, EmptySeq
      <3> HIDE DEF last
      <3>3. last \o <<>> = last
        BY <3>1, ConcatEmptySeq
      <3> QED
        BY <2>12, <3>1, <3>2, <3>3 DEF last
    <2> HIDE DEF last
    <2>15. Leaves(s, (<<Open>> \o text) \o <<Close>>, <<>>, p)
      BY <2>11, <2>13, <2>14 DEF Leaves
    <2> QED
      BY <2>1, <2>15 DEF text, p
  <1> QED
    BY <1>1, <1>2

\* A sequence of two.
LEMMA PairOf ==
  ASSUME NEW a \in Int, NEW b \in Int
  PROVE  <<a>> \o <<b>> = <<a, b>>
  <1> DEFINE u == <<a>>
             v == <<b>>
             p == <<a, b>>
  <1>1. u \in Seq(Int) /\ v \in Seq(Int) /\ Len(u) = 1 /\ Len(v) = 1 /\ u[1] = a /\ v[1] = b
    OBVIOUS
  <1>2. p \in Seq(Int) /\ Len(p) = 2 /\ p[1] = a /\ p[2] = b
    OBVIOUS
  <1> HIDE DEF u, v, p
  <1>3. u \o v \in Seq(Int) /\ Len(u \o v) = Len(u) + Len(v)
        /\ \A i \in 1..(Len(u) + Len(v)) : (u \o v)[i] = IF i <= Len(u) THEN u[i] ELSE v[i - Len(u)]
    BY <1>1, ConcatProperties
  <1> DEFINE w == u \o v
  <1> HIDE DEF w
  <1>4. w \in Seq(Int) /\ Len(w) = 2 /\ w[1] = a /\ w[2] = b
    <2>1. 1 \in 1..(Len(u) + Len(v)) /\ 2 \in 1..(Len(u) + Len(v)) /\ Len(u) + Len(v) = 2
      BY <1>1
    <2>2. w[1] = u[1] /\ w[2] = v[1]
      BY <1>1, <1>3, <2>1 DEF w
    <2> QED
      BY <1>1, <1>3, <2>1, <2>2 DEF w
  <1>5. \A i \in 1..2 : w[i] = p[i]
    <2>1. \A i \in 1..2 : i = 1 \/ i = 2
      OBVIOUS
    <2> QED
      BY <1>2, <1>4, <2>1
  <1>6. w = p
    BY <1>2, <1>4, <1>5, SeqEqual
  <1> QED
    BY <1>6 DEF u, v, p, w

\* Concatenation, under a name the provers leave alone.
Cat(s, t) == s \o t

LEMMA CatAssociative ==
  ASSUME NEW S, NEW s \in Seq(S), NEW t \in Seq(S), NEW u \in Seq(S)
  PROVE  Cat(Cat(s, t), u) = Cat(s, Cat(t, u))
  BY ConcatAssociative DEF Cat

LEMMA CatFour ==
  ASSUME NEW S, NEW a \in Seq(S), NEW b \in Seq(S), NEW c \in Seq(S), NEW d \in Seq(S)
  PROVE  Cat(Cat(Cat(a, b), c), d) = Cat(a, Cat(Cat(b, c), d))
  <1> DEFINE u == Cat(b, c)
  <1>1. Cat(Cat(a, b), c) = Cat(a, u)
    BY CatAssociative
  <1>2. u \in Seq(S)
    BY ConcatProperties DEF Cat
  <1> HIDE DEF u
  <1>3. Cat(Cat(a, u), d) = Cat(a, Cat(u, d))
    BY <1>2, CatAssociative
  <1> QED
    BY <1>1, <1>3 DEF u

\* The operators that bind less than, or as little as, that of t.
LeftWeaker(t) == IF t[1] \in Sums THEN {} ELSE Sums
RightWeaker(t) == IF t[1] \in Sums THEN Sums ELSE Operators

\* The left part of a node: its operators go when that of the node comes, those
\* below it do not.
LEMMA LeftPart ==
  ASSUME NEW t \in Trees, Len(t) # 1, NEW stack \in Seq(Int), Free(stack, t)
  PROVE  /\ InBrackets(t[2], LeftWeaker(t)) \/ Free(stack, t[2])
         /\ Held(t[2], LeftWeaker(t)) \in Seq(Int)
         /\ Yields(stack, Held(t[2], LeftWeaker(t)), t[1])
  <1> DEFINE u == t[2]
             w == LeftWeaker(t)
             q == Held(u, w)
  <1>1. Len(t) = 3 /\ t[1] \in Operators /\ u \in Trees
    BY Shape
  <1>2. Len(u) # 1 <=> Len(u) = 3
    BY <1>1, Shape
  <1>3. Len(u) = 3 => u[1] \in Operators
    BY <1>1, <1>2, Shape
  <1> HIDE DEF u
  <1>4. /\ Pending(u) \in Seq(Int) /\ \A k \in 1..Len(Pending(u)) : Pending(u)[k] \in Operators
        /\ Len(u) = 3 /\ u[1] \in Products => Pending(u) = <<u[1]>>
        /\ Len(u) = 1 => Pending(u) = <<>>
    BY <1>1, PendingType DEF Pending
  <1>5. CASE t[1] \in Sums
    <2>1. w = {} /\ q = Pending(u)
      BY <1>5 DEF LeftWeaker, InBrackets, Held
    <2>2. Len(stack) > 0 => stack[Len(stack)] = Open
      BY <1>1, <1>5, Kinds DEF Free
    <2>3. \A k \in 1..Len(q) : Pops(q[k], t[1])
      BY <1>4, <1>5, <2>1, Kinds DEF Pops
    <2>4. Free(stack, u)
      BY <2>2 DEF Free
    <2> HIDE DEF q
    <2> QED
      BY <1>4, <2>1, <2>2, <2>3, <2>4 DEF u, q, Pops, Yields
  <1>6. CASE t[1] \notin Sums
    <2>1. w = Sums /\ t[1] \in Products
      BY <1>1, <1>6, Kinds DEF LeftWeaker
    <2>2. Len(stack) > 0 => stack[Len(stack)] = Open \/ stack[Len(stack)] \notin Products
      BY <1>1 DEF Free
    <2>3. InBrackets(u, w) \/ Free(stack, u)
      BY <1>2, <1>3, <2>1, <2>2, Kinds DEF InBrackets, Free
    <2>4. q \in Seq(Int) /\ \A k \in 1..Len(q) : Pops(q[k], t[1])
      <3>1. CASE InBrackets(u, w)
        BY <3>1 DEF Held
      <3>2. CASE ~InBrackets(u, w) /\ Len(u) = 1
        BY <1>4, <3>2 DEF Held
      <3>3. CASE ~InBrackets(u, w) /\ Len(u) # 1
        <4>1. u[1] \in Products /\ q = <<u[1]>>
          BY <1>2, <1>3, <1>4, <2>1, <3>3, Kinds DEF InBrackets, Held
        <4> QED
          BY <4>1, Kinds DEF Pops
      <3> QED
        BY <3>1, <3>2, <3>3
    <2>5. Len(stack) > 0 => ~Pops(stack[Len(stack)], t[1])
      BY <1>6, <2>2 DEF Pops
    <2> HIDE DEF q
    <2> QED
      BY <2>3, <2>4, <2>5 DEF u, q, Yields
  <1> QED
    BY <1>5, <1>6

\* The right part of a node: its operators stay above that of the node.
LEMMA RightPart ==
  ASSUME NEW t \in Trees, Len(t) # 1, NEW stack \in Seq(Int)
  PROVE  /\ InBrackets(t[3], RightWeaker(t)) \/ Free(Append(stack, t[1]), t[3])
         /\ Held(t[3], RightWeaker(t)) \in Seq(Int)
         /\ Pending(t) = <<t[1]>> \o Held(t[3], RightWeaker(t))
  <1> DEFINE u == t[3]
             w == RightWeaker(t)
             q == Held(u, w)
             b == Append(stack, t[1])
  <1>1. Len(t) = 3 /\ t[1] \in Operators /\ u \in Trees /\ t[1] \in Int
    BY Shape
  <1>2. (Len(u) # 1 <=> Len(u) = 3) /\ (Len(u) = 3 => u[1] \in Operators)
    BY <1>1, Shape
  <1>3. b[Len(b)] = t[1]
    BY <1>1, AppendProperties, LenProperties
  <1> HIDE DEF u, b
  <1>4. /\ Len(u) = 3 /\ u[1] \in Products => Pending(u) = <<u[1]>>
        /\ Len(u) = 1 => Pending(u) = <<>>
    BY <1>1, PendingType DEF Pending
  <1>5. Pending(t) = IF t[1] \in Sums /\ Len(u) = 3 /\ u[1] \in Products THEN <<t[1], u[1]>>
                     ELSE <<t[1]>>
    BY DEF Pending, u
  <1>6. <<t[1]>> \o <<>> = <<t[1]>> /\ \A c \in Operators : <<t[1]>> \o <<c>> = <<t[1], c>>
    <2>1. <<t[1]>> \in Seq(Int)
      BY <1>1
    <2>2. ASSUME NEW c \in Operators PROVE <<t[1]>> \o <<c>> = <<t[1], c>>
      BY <1>1, Kinds, PairOf
    <2> QED
      BY <2>1, <2>2, ConcatEmptySeq
  <1>7. CASE Len(u) = 1
    <2>1. q = <<>> /\ Free(b, u)
      BY <1>4, <1>7 DEF Held, InBrackets, Free
    <2>2. Pending(t) = <<t[1]>>
      BY <1>5, <1>7
    <2> QED
      BY <1>6, <2>1, <2>2 DEF u, b
  <1>8. CASE Len(u) # 1 /\ InBrackets(u, w)
    <2>1. q = <<>>
      BY <1>8 DEF Held
    <2>2. Pending(t) = <<t[1]>>
      BY <1>5, <1>8, Kinds DEF InBrackets, RightWeaker
    <2> QED
      BY <1>6, <1>8, <2>1, <2>2 DEF u
  <1>9. CASE Len(u) # 1 /\ ~InBrackets(u, w)
    <2>1. t[1] \in Sums /\ u[1] \in Products
      BY <1>1, <1>2, <1>9, Kinds DEF InBrackets, RightWeaker
    <2>2. q = <<u[1]>> /\ Pending(t) = <<t[1], u[1]>>
      BY <1>2, <1>4, <1>5, <1>9, <2>1 DEF Held
    <2>3. Free(b, u)
      BY <1>3, <2>1, Kinds DEF Free
    <2>4. q \in Seq(Int)
      BY <1>2, <1>9, <2>2, Kinds
    <2> HIDE DEF q
    <2> QED
      BY <1>2, <1>6, <1>9, <2>2, <2>3, <2>4 DEF u, b, q
  <1> QED
    BY <1>7, <1>8, <1>9

\* A node whose parts are read well is read well.
LEMMA NodeRead ==
  ASSUME NEW t \in Trees, Len(t) # 1, ReadsWell(t[2]), ReadsWell(t[3])
  PROVE  ReadsWell(t)
  <1> SUFFICES ASSUME NEW s \in Conversions, Free(s.stack, t)
               PROVE  Leaves(s, Text[t], Pending(t), Postfix[t])
    BY DEF ReadsWell
  <1> DEFINE op == t[1]
             base == s.stack
             b2 == Bracketed(t[2], Text[t[2]], LeftWeaker(t))
             b3 == Bracketed(t[3], Text[t[3]], RightWeaker(t))
             q2 == Held(t[2], LeftWeaker(t))
             q3 == Held(t[3], RightWeaker(t))
             p2 == Postfix[t[2]]
             p3 == Postfix[t[3]]
  <1>1. t[2] \in Trees /\ t[3] \in Trees /\ op \in Operators /\ op \in Int
    BY Shape
  <1>2. /\ b2 \in Seq(Int) /\ b3 \in Seq(Int) /\ p2 \in Seq(Int) /\ p3 \in Seq(Int)
        /\ base \in Seq(Int) /\ s.post \in Seq(Int) /\ <<op>> \in Seq(Int)
    BY <1>1, TextDef, PostfixDef, BracketedType DEF Conversions
  <1>3. /\ InBrackets(t[2], LeftWeaker(t)) \/ Free(base, t[2])
        /\ q2 \in Seq(Int) /\ Yields(base, q2, op)
    BY <1>2, LeftPart
  <1>4. /\ InBrackets(t[3], RightWeaker(t)) \/ Free(Append(base, op), t[3])
        /\ q3 \in Seq(Int) /\ Pending(t) = <<op>> \o q3
    BY <1>2, RightPart
  <1>5. Text[t] = (b2 \o <<op>>) \o b3
    <2>1. Text[t] = Written(t, Text[t[2]], Text[t[3]])
      BY TextDef
    <2> QED
      BY <2>1 DEF Written, LeftWeaker, RightWeaker
  <1>6. Postfix[t] = (p2 \o p3) \o <<op>>
    BY PostfixDef
  <1>7. Leaves(s, b2, q2, p2)
    BY <1>1, <1>3, OperandRead
  <1>8. \A r \in Conversions : r.stack = Append(base, op) => Leaves(r, b3, q3, p3)
    BY <1>1, <1>4, OperandRead
  <1> HIDE DEF op, base, b2, b3, q2, q3, p2, p3
  <1>9. PICK post1 \in Seq(Int) :
           /\ Reads(Conversions, Infix, b2, s,
                    [post |-> post1, stack |-> base \o q2, stray |-> s.stray])
           /\ post1 \o Popped(q2, 0) = s.post \o p2
    BY <1>7 DEF Leaves, base
  <1> DEFINE s1 == [post |-> post1, stack |-> base \o q2, stray |-> s.stray]
             s2 == [post |-> s.post \o p2, stack |-> Append(base, op), stray |-> s.stray]
  <1>10. s1 \in Conversions
    <2> HIDE DEF s1
    <2> QED
      BY <1>2, <1>9, ReadsType DEF s1
  <1>11. Infix[<<s1, op>>] = s2
    <2>1. s1.stack = base \o q2 /\ s1.post = post1 /\ s1.stray = s.stray
      OBVIOUS
    <2> HIDE DEF s1
    <2>2. Infix[<<s1, op>>] = Reduced(s1, Append(base, op), q2)
      <3>1. op \in Operators
        BY <1>1
      <3>2. base \in Seq(Int)
        BY <1>2
      <3>3. q2 \in Seq(Int)
        BY <1>3
      <3>4. Yields(base, q2, op)
        BY <1>3
      <3>5. s1.stack = base \o q2
        BY <2>1
      <3> QED
        BY ONLY <1>10, <3>1, <3>2, <3>3, <3>4, <3>5, OperatorRead
    <2> QED
      BY <1>9, <2>1, <2>2 DEF Reduced
  <1> HIDE DEF s1, s2
  <1>12. s2 \in Conversions /\ Reads(Conversions, Infix, <<op>>, s1, s2)
    BY <1>1, <1>10, <1>11, InfixType, ReadsOne
  <1>13. s2.post = s.post \o p2 /\ s2.stack = Append(base, op) /\ s2.stray = s.stray
    BY DEF s2
  <1>14. Leaves(s2, b3, q3, p3)
    BY <1>8, <1>12, <1>13
  <1>15. PICK post3 \in Seq(Int) :
            /\ Reads(Conversions, Infix, b3, s2,
                     [post |-> post3, stack |-> s2.stack \o q3, stray |-> s2.stray])
            /\ post3 \o Popped(q3, 0) = s2.post \o p3
    BY <1>14 DEF Leaves
  <1> DEFINE s3 == [post |-> post3, stack |-> s2.stack \o q3, stray |-> s2.stray]
  <1>16. Reads(Conversions, Infix, b2 \o <<op>>, s, s2) /\ b2 \o <<op>> \in Seq(Int)
    BY <1>2, <1>9, <1>12, ReadsOn, ConcatProperties DEF s1
  <1>17. Reads(Conversions, Infix, (b2 \o <<op>>) \o b3, s, s3)
    <2> HIDE DEF s3
    <2> QED
      BY <1>2, <1>15, <1>16, ReadsOn DEF s3
  <1>18. s3 = [post |-> post3, stack |-> base \o Pending(t), stray |-> s.stray]
    <2>1. Append(base, op) \o q3 = base \o (<<op>> \o q3)
      <3>1. Append(base, op) = base \o <<op>>
        BY <1>1, <1>2, AppendIsConcat
      <3> DEFINE o == <<op>>
      <3>2. base \in Seq(Int) /\ o \in Seq(Int) /\ q3 \in Seq(Int)
        BY <1>2, <1>4
      <3> HIDE DEF o
      <3>3. Cat(Cat(base, o), q3) = Cat(base, Cat(o, q3))
        BY ONLY <3>2, CatAssociative
      <3> QED
        BY <3>1, <3>3 DEF Cat, o
    <2> QED
      BY <1>4, <1>13, <2>1
  <1>19. post3 \o Popped(Pending(t), 0) = s.post \o Postfix[t]
    <2> DEFINE r == Popped(q3, 0)
    <2>1. r \in Seq(Int) /\ Popped(Pending(t), 0) = r \o <<op>>
      <3>1. 0 \in 0..Len(q3)
        BY <1>4, LenProperties
      <3> QED
        BY <1>1, <1>4, <3>1, PoppedType, PoppedLast
    <2>2. post3 \o r = (s.post \o p2) \o p3
      BY <1>13, <1>15
    <2> DEFINE o == <<op>>
               a == s.post
    <2>3. /\ post3 \in Seq(Int) /\ r \in Seq(Int) /\ a \in Seq(Int)
          /\ p2 \in Seq(Int) /\ p3 \in Seq(Int) /\ o \in Seq(Int)
      BY <1>2, <2>1
    <2> HIDE DEF r, o, a
    <2>4. Cat(post3, Cat(r, o)) = Cat(Cat(post3, r), o)
      BY ONLY <2>3, CatAssociative
    <2>5. Cat(Cat(Cat(a, p2), p3), o) = Cat(a, Cat(Cat(p2, p3), o))
      BY ONLY <2>3, CatFour
    <2>6. post3 \o (r \o o) = a \o ((p2 \o p3) \o o)
      <3>1. Cat(post3, r) = Cat(Cat(a, p2), p3)
        BY <2>2 DEF Cat, a
      <3> QED
        BY <2>4, <2>5, <3>1 DEF Cat
    <2> QED
      BY <1>6, <2>1, <2>6 DEF o, a
  <1> HIDE DEF s3
  <1> QED
    BY <1>5, <1>17, <1>18, <1>19 DEF Leaves, base

\* Every formula is read well: by induction.
LEMMA TextRead ==
  ASSUME NEW t \in Trees
  PROVE  ReadsWell(t)
  <1> DEFINE Good == {u \in Trees : ReadsWell(u)}
  <1>1. ASSUME NEW u \in Trees, Leaf(u), NEW s \in Conversions
        PROVE  Leaves(s, Text[u], Pending(u), Postfix[u])
    <2> DEFINE c == Zero + u[1]
               post == Append(s.post, c)
               s1 == [post |-> post, stack |-> s.stack, stray |-> s.stray]
    <2>0. u[1] \in 0..9 /\ Len(u) = 1
      BY <1>1, Shape
    <2>1. u[1] \in 0..9 /\ c \in Int /\ Text[u] = <<c>> /\ Postfix[u] = <<c>> /\ Pending(u) = <<>>
      <3>1. c \in Int
        BY <2>0 DEF Zero
      <3>2. Text[u] = <<c>> /\ Postfix[u] = <<c>> /\ Pending(u) = <<>>
        BY <2>0, TextDef, PostfixDef DEF Pending
      <3> QED
        BY <2>0, <3>1, <3>2
    <2>2. s.post \in Seq(Int) /\ s.stack \in Seq(Int)
      BY DEF Conversions
    <2>3. Infix[<<s, c>>] = s1
      BY <2>1, DigitRead
    <2>4. Reads(Conversions, Infix, <<c>>, s, Infix[<<s, c>>])
      BY <2>1, InfixType, ReadsOne
    <2>5. s1 = [post |-> post, stack |-> s.stack \o <<>>, stray |-> s.stray]
      BY <2>2, ConcatEmptySeq
    <2>6. post \in Seq(Int) /\ post = s.post \o <<c>>
      BY <2>1, <2>2, AppendProperties, AppendIsConcat
    <2>7. Popped(<<>>, 0) = <<>>
      BY PoppedLast, <2>1, EmptySeq
    <2> HIDE DEF post, c
    <2>8. post \o Popped(<<>>, 0) = s.post \o <<c>>
      BY <2>6, <2>7, ConcatEmptySeq
    <2> HIDE DEF s1
    <2> QED
      BY <2>1, <2>3, <2>4, <2>5, <2>6, <2>8 DEF Leaves
  <1>2. \A u \in Trees : Leaf(u) => u \in Good
    BY <1>1 DEF ReadsWell
  <1>3. \A u \in Trees : Node(u) /\ u[2] \in Good /\ u[3] \in Good => u \in Good
    BY Shape, NodeRead
  <1> HIDE DEF Good
  <1>4. Trees \subseteq Good
    BY <1>2, <1>3, TreeInduction
  <1> QED
    BY <1>4 DEF Good

\* One character adds at most one to what there is of the postfix form and on the
\* stack.
Used(s) == Len(s.post) + Len(s.stack)

LEMMA OneMoreUsed ==
  ASSUME NEW s \in Conversions, NEW c \in Int
  PROVE  Used(Infix[<<s, c>>]) <= Used(s) + 1
  <1> DEFINE n == Stays(s.stack, c)
             sub(m) == SubSeq(s.stack, 1, m)
             l == Len(s.stack)
             k == Len(s.post)
  <1>0. /\ c \in Digits => c \notin Operators /\ c # Open /\ c # Close
        /\ c \in Operators => c # Open /\ c # Close
        /\ Open # Close
    BY Kinds
  <1>1. s.post \in Seq(Int) /\ s.stack \in Seq(Int) /\ k \in Nat /\ l \in Nat
    BY LenProperties DEF Conversions
  <1>2. n \in 0..l
    BY <1>1, StaysAt DEF StaysIs
  <1> DEFINE popped == Popped(s.stack, n)
  <1>3. popped \in Seq(Int) /\ Len(popped) = l - n
    BY <1>1, <1>2, PoppedType DEF Popped
  <1> HIDE DEF popped
  <1>4. Len(s.post \o popped) = k + Len(popped)
    BY <1>1, <1>3, ConcatProperties
  <1>5. ASSUME NEW m \in Int, m <= l
        PROVE  sub(m) \in Seq(Int) /\ Len(sub(m)) = IF m <= 0 THEN 0 ELSE m
    <2>1. \A i \in 1..m : i \in 1..Len(s.stack)
      BY <1>1, <1>5
    <2>2. \A i \in 1..m : s.stack[i] \in Int
      BY <1>1, <2>1, ElementOfSeq
    <2> QED
      BY <2>2, <1>5, SubSeqProperties
  <1> DEFINE u == Infix[<<s, c>>]
  <1>6. u =
          CASE c \in Digits    -> [s EXCEPT !.post = Append(@, c)]
            [] c \in Operators -> [s EXCEPT !.post = s.post \o popped,
                                            !.stack = Append(SubSeq(@, 1, n), c)]
            [] c = Open        -> [s EXCEPT !.stack = Append(@, c)]
            [] c = Close       -> [post |-> s.post \o popped, stack |-> SubSeq(s.stack, 1, n - 1),
                                   stray |-> s.stray \/ n = 0]
            [] OTHER           -> s
    BY DEF Infix, InfixStep, popped
  <1> HIDE DEF n, u
  <1>7. n \in Int /\ n - 1 \in Int /\ n <= l /\ n - 1 <= l /\ n >= 0
    BY <1>1, <1>2
  <1>8. /\ Len(sub(n)) = n /\ sub(n) \in Seq(Int)
        /\ Len(sub(n - 1)) = IF n = 0 THEN 0 ELSE n - 1
    <2> HIDE DEF sub, l
    <2>1. /\ sub(n) \in Seq(Int) /\ Len(sub(n)) = IF n <= 0 THEN 0 ELSE n
          /\ Len(sub(n - 1)) = IF n - 1 <= 0 THEN 0 ELSE n - 1
      BY <1>5, <1>7
    <2> QED
      BY <1>7, <2>1
  <1>9. /\ Len(Append(s.post, c)) = k + 1 /\ Len(Append(s.stack, c)) = l + 1
        /\ Len(Append(sub(n), c)) = n + 1
    BY <1>1, <1>8, AppendProperties
  <1>10. /\ Len(s.post) = k /\ Len(s.stack) = l /\ k \in Nat /\ l \in Nat
         /\ Len(s.post \o popped) = k + (l - n)
    BY <1>1, <1>3, <1>4
  <1>11. CASE c \in Digits
    <2>1. u = [s EXCEPT !.post = Append(s.post, c)]
      BY <1>0, <1>6, <1>11
    <2>2. u.post = Append(s.post, c) /\ u.stack = s.stack
      BY <2>1 DEF Conversions
    <2>3. Len(u.post) = k + 1 /\ Len(u.stack) = l
      BY <1>9, <2>2
    <2> HIDE DEF k, l
    <2> QED
      BY <1>10, <2>3 DEF Used, u
  <1>12. CASE c \notin Digits /\ c \in Operators
    <2>1. u = [s EXCEPT !.post = s.post \o popped, !.stack = Append(sub(n), c)]
      BY <1>0, <1>6, <1>12
    <2>2. u.post = s.post \o popped /\ u.stack = Append(sub(n), c)
      BY <2>1 DEF Conversions
    <2> HIDE DEF sub, k, l
    <2>3. Len(u.post) = k + (l - n) /\ Len(u.stack) = n + 1
      BY <1>9, <1>10, <2>2
    <2> QED
      BY <1>7, <1>10, <2>3 DEF Used, u
  <1>13. CASE c \notin Digits /\ c \notin Operators /\ c = Open
    <2>1. u = [s EXCEPT !.stack = Append(s.stack, c)]
      BY <1>0, <1>6, <1>13
    <2>2. u.post = s.post /\ u.stack = Append(s.stack, c)
      BY <2>1 DEF Conversions
    <2>3. Len(u.post) = k /\ Len(u.stack) = l + 1
      BY <1>9, <2>2
    <2> HIDE DEF k, l
    <2> QED
      BY <1>10, <2>3 DEF Used, u
  <1>14. CASE c \notin Digits /\ c \notin Operators /\ c # Open /\ c = Close
    <2>1. u.post = s.post \o popped /\ u.stack = sub(n - 1)
      BY <1>6, <1>14
    <2> HIDE DEF sub, k, l
    <2>2. Len(u.post) = k + (l - n) /\ Len(u.stack) = IF n = 0 THEN 0 ELSE n - 1
      BY <1>8, <1>10, <2>1
    <2>3. Used(u) = Len(u.post) + Len(u.stack) /\ Used(s) = k + l
      BY <1>10 DEF Used
    <2>4. Used(u) <= Used(s) + 1
      <3>1. CASE n = 0
        BY <1>7, <1>10, <2>2, <2>3, <3>1
      <3>2. CASE n # 0
        BY <1>7, <1>10, <2>2, <2>3, <3>2
      <3> QED
        BY <3>1, <3>2
    <2> QED
      BY ONLY <2>4 DEF u
  <1>15. CASE c \notin Digits /\ c \notin Operators /\ c # Open /\ c # Close
    <2>1. u = s
      BY <1>6, <1>15
    <2> HIDE DEF k, l
    <2>2. Used(u) = k + l /\ Used(s) = k + l
      BY <1>10, <2>1 DEF Used
    <2> QED
      BY <1>10, <2>2 DEF u
  <1> QED
    BY <1>11, <1>12, <1>13, <1>14, <1>15 DEF u

LEMMA UsedByString ==
  ASSUME NEW str \in Seq(Int)
  PROVE  /\ infixToPostfix[str] \in Conversions /\ Used(infixToPostfix[str]) \in Nat
         /\ Used(infixToPostfix[str]) <= Len(str)
         /\ Len(infixToPostfix[str].stack) <= Len(str)
  <1>1. PICK f : Through(Conversions, Infix, str, Start, f) /\ f[Len(str)] = infixToPostfix[str]
    BY InfixRun DEF Reads
  <1> DEFINE l == Len(str)
             Good == {i \in Nat : i <= l => f[i] \in Conversions /\ Used(f[i]) <= i}
  <1>2. l \in Nat /\ \A i \in 1..l : str[i] \in Int
    BY LenProperties, ElementOfSeq
  <1>3. /\ f[0] = Start /\ \A i \in 1..l : f[i] = Infix[<<f[i - 1], str[i]>>]
    BY <1>1 DEF Through
  <1>4. \A s \in Conversions : Used(s) \in Nat /\ Len(s.post) \in Nat /\ Len(s.stack) \in Nat
    BY LenProperties DEF Used, Conversions
  <1> HIDE DEF l
  <1>5. 0 \in Good
    <2>1. Start.post = <<>> /\ Start.stack = <<>> /\ Len(<<>>) = 0
      BY EmptySeq DEF Start
    <2>2. Used(Start) = 0
      BY <2>1 DEF Used
    <2> QED
      BY <1>3, <2>2, StartType
  <1>6. ASSUME NEW n \in Nat, n \in Good PROVE n + 1 \in Good
    <2> SUFFICES ASSUME n + 1 <= l PROVE f[n + 1] \in Conversions /\ Used(f[n + 1]) <= n + 1
      OBVIOUS
    <2>1. n + 1 \in 1..l /\ (n + 1) - 1 = n /\ n <= l
      BY <1>2
    <2>2. f[n] \in Conversions /\ Used(f[n]) <= n /\ str[n + 1] \in Int
      BY <1>2, <1>6, <2>1
    <2>3. f[n + 1] = Infix[<<f[n], str[n + 1]>>]
      BY <1>3, <2>1
    <2>4. f[n + 1] \in Conversions /\ Used(f[n + 1]) <= Used(f[n]) + 1
      BY <2>2, <2>3, OneMoreUsed, InfixType
    <2> QED
      BY <1>4, <2>2, <2>4
  <1> HIDE DEF Good
  <1>7. l \in Good
    BY <1>2, <1>5, <1>6, NumberInduction
  <1>8. f[l] \in Conversions /\ Used(f[l]) <= l
    BY <1>2, <1>7 DEF Good
  <1>9. f[l] = infixToPostfix[str]
    BY <1>1 DEF l
  <1> DEFINE s == infixToPostfix[str]
  <1>10. s \in Conversions /\ Used(s) <= l
    BY <1>8, <1>9
  <1> HIDE DEF s
  <1>11. /\ Used(s) = Len(s.post) + Len(s.stack) /\ Used(s) \in Nat
         /\ Len(s.post) \in Nat /\ Len(s.stack) \in Nat
    BY <1>4, <1>10 DEF Used
  <1>12. Len(s.stack) <= l
    <2> DEFINE a == Len(s.post)
               b == Len(s.stack)
    <2>1. a \in Nat /\ b \in Nat /\ a + b <= l
      BY <1>10, <1>11
    <2> HIDE DEF a, b
    <2>2. b <= l
      BY <1>2, <2>1
    <2> QED
      BY <2>2 DEF b
  <1> QED
    BY <1>10, <1>11, <1>12 DEF s, l

\* A string shorter than the arrays overruns none of them.
LEMMA ShortFits ==
  ASSUME NEW str \in Seq(Int), Len(str) < Size
  PROVE  ~Overruns[str]
  <1>1. Size \in Nat /\ Len(str) \in Nat
    BY CalcAssumption, LenProperties
  <1>2. Used(infixToPostfix[str]) \in Nat /\ Used(infixToPostfix[str]) < Size
    <2> DEFINE u == Used(infixToPostfix[str])
    <2>1. u \in Nat /\ u <= Len(str)
      BY UsedByString
    <2> HIDE DEF u
    <2>2. u < Size
      BY <1>1, <2>1
    <2> QED
      BY <2>1, <2>2 DEF u
  <1>3. (Size + 1)..Len(str) = {}
    BY <1>1
  <1>4. ~(Len(infixToPostfix[str].post) + Len(infixToPostfix[str].stack) >= Size)
    <2> DEFINE u == Len(infixToPostfix[str].post) + Len(infixToPostfix[str].stack)
    <2>1. u \in Nat /\ u < Size
      BY <1>2 DEF Used
    <2> HIDE DEF u
    <2>2. ~(u >= Size)
      BY <1>1, <2>1
    <2> QED
      BY <2>2 DEF u
  <1> QED
    BY <1>3, <1>4 DEF Overruns

\* infixToPostfix (echo_server.c): of a formula and a newline that together are
\* shorter than its arrays nothing is written outside them, and of every one for
\* which that is so it makes the postfix form, once the rest of the stack is popped;
\* no parenthesis is closed on an empty stack.
THEOREM FormulaConverted ==
  ASSUME NEW t \in Trees
  PROVE  LET str == Append(Text[t], Newline)
             s == infixToPostfix[str]
         IN  /\ Len(str) < Size => ~Overruns[str]
             /\ ~Overruns[str] => s.post \o Popped(s.stack, 0) = Postfix[t] /\ s.stray = FALSE
  <1> DEFINE text == Text[t]
             str == Append(text, Newline)
             q == Pending(t)
             p == Postfix[t]
  <1>1. text \in Seq(Int) /\ str = text \o <<Newline>> /\ str \in Seq(Int) /\ <<Newline>> \in Seq(Int)
    BY TextDef, Kinds, AppendIsConcat, AppendProperties
  <1>2. Start.stack = <<>> /\ Start.post = <<>> /\ Start.stray = FALSE
    BY DEF Start
  <1>3. Free(Start.stack, t)
    BY <1>2 DEF Free
  <1>4. Leaves(Start, text, q, p)
    BY <1>3, TextRead, StartType DEF ReadsWell
  <1> HIDE DEF text, str, q, p
  <1>5. PICK post \in Seq(Int) :
           /\ Reads(Conversions, Infix, text, Start,
                    [post |-> post, stack |-> Start.stack \o q, stray |-> Start.stray])
           /\ post \o Popped(q, 0) = Start.post \o p
    BY <1>4 DEF Leaves
  <1> DEFINE s == [post |-> post, stack |-> Start.stack \o q, stray |-> Start.stray]
  <1>6. s.post = post /\ s.stack = q /\ s.stray = FALSE
    BY <1>2, PendingType, ConcatEmptySeq DEF q
  <1>7. s \in Conversions
    <2> HIDE DEF s
    <2> QED
      BY <1>1, <1>5, ReadsType DEF s
  <1>8. Reads(Conversions, Infix, text, Start, s)
    BY <1>5
  <1> HIDE DEF s
  <1>9. Reads(Conversions, Infix, <<Newline>>, s, s)
    <2>1. Infix[<<s, Newline>>] = s
      BY <1>7, NewlineRead
    <2>2. Reads(Conversions, Infix, <<Newline>>, s, Infix[<<s, Newline>>])
      BY <1>7, Kinds, InfixType, ReadsOne
    <2> QED
      BY <2>1, <2>2
  <1>10. Reads(Conversions, Infix, str, Start, s)
    BY <1>1, <1>8, <1>9, ReadsOn
  <1>11. Reads(Conversions, Infix, str, Start, infixToPostfix[str])
    BY <1>1, InfixRun
  <1>12. infixToPostfix[str] = s
    BY <1>1, <1>10, <1>11, ReadsSame
  <1>13. s.post \o Popped(s.stack, 0) = p
    BY <1>2, <1>5, <1>6, PostfixDef, ConcatEmptySeq DEF p
  <1>14. Len(str) < Size => ~Overruns[str]
    BY <1>1, ShortFits DEF str, text
  <1> QED
    BY <1>6, <1>12, <1>13, <1>14 DEF str, text, p

-----------------------------------------------------------------------------
(***************************************************************************)
(* The evaluation of the postfix form of a formula.                        *)
(***************************************************************************)
EvalStates == Seq(Chars) \cup {<<Nil>>}
Eval == [p \in EvalStates \X Int |-> PostfixStep(p[2])[p[1]]]

\* The stack of numbers is a sequence of chars, or <<Nil>>.
LEMMA EvalStatesType ==
  /\ EvalStates \subseteq Seq(Int \cup {Nil})
  /\ <<Nil>> \notin Seq(Chars) /\ Nil \notin Chars /\ Nil \notin Int /\ Chars \subseteq Int
  /\ <<>> \in EvalStates
  <1>1. Nil \notin Int /\ Chars \subseteq Int
    BY CalcAssumption DEF Chars
  <1>2. <<Nil>> \notin Seq(Chars)
    <2> SUFFICES ASSUME <<Nil>> \in Seq(Chars) PROVE FALSE
      OBVIOUS
    <2>1. 1 \in 1..Len(<<Nil>>)
      OBVIOUS
    <2>2. <<Nil>>[1] \in Chars
      BY <2>1, ElementOfSeq
    <2> QED
      BY <1>1, <2>2
  <1>3. Seq(Chars) \subseteq Seq(Int \cup {Nil})
    <2>1. Chars \subseteq Int \cup {Nil}
      BY <1>1
    <2> QED
      BY <2>1, SeqMonotonic
  <1>4. <<Nil>> \in Seq(Int \cup {Nil}) /\ <<>> \in Seq(Chars)
    BY EmptySeq
  <1> QED
    BY <1>1, <1>2, <1>3, <1>4 DEF EvalStates

\* Two operands a and b on top: what is below them, and their result.
LEMMA OperandsOnTop ==
  ASSUME NEW stack \in Seq(Chars), Len(stack) >= 2
  PROVE  /\ stack[Len(stack) - 1] \in Chars /\ stack[Len(stack)] \in Chars
         /\ SubSeq(stack, 1, Len(stack) - 2) \in Seq(Chars)
  <1> DEFINE l == Len(stack)
  <1>1. l \in Nat /\ l >= 2
    BY LenProperties
  <1> HIDE DEF l
  <1>2. l - 1 \in 1..l /\ l \in 1..l /\ \A i \in 1..(l - 2) : i \in 1..l
    BY <1>1
  <1>3. \A i \in 1..l : stack[i] \in Chars
    BY ElementOfSeq DEF l
  <1> DEFINE m == l - 2
  <1>4. m \in Int /\ \A i \in 1..m : stack[i] \in Chars
    BY <1>1, <1>2, <1>3
  <1> HIDE DEF m
  <1>5. SubSeq(stack, 1, m) \in Seq(Chars)
    BY <1>4, SubSeqProperties
  <1> QED
    BY <1>2, <1>3, <1>5 DEF l, m

\* The steps of evaluatePostfix stay among these.
LEMMA EvalType ==
  Eval \in [EvalStates \X Int -> EvalStates]
  <1> SUFFICES ASSUME NEW stack \in EvalStates, NEW c \in Int
               PROVE  PostfixStep(c)[stack] \in EvalStates
    BY DEF Eval
  <1>1. stack \in Seq(Int \cup {Nil})
    BY EvalStatesType
  <1>2. CASE stack = <<Nil>>
    BY <1>1, <1>2 DEF PostfixStep
  <1>3. CASE stack # <<Nil>>
    <2>1. stack \in Seq(Chars)
      BY <1>3 DEF EvalStates
    <2>2. CASE c \in Digits
      <3>1. PostfixStep(c)[stack] = Append(stack, c - Zero)
        BY <1>1, <1>3, <2>2, Kinds DEF PostfixStep
      <3>2. c - Zero \in Chars
        BY <2>2 DEF Digits, Zero, Chars
      <3> QED
        BY <2>1, <3>1, <3>2, AppendProperties DEF EvalStates
    <2>3. CASE c \in Operators
      <3>1. PostfixStep(c)[stack] =
              IF TooFew(stack) \/ (c = Over /\ stack[Len(stack)] = 0) THEN <<Nil>>
              ELSE Append(SubSeq(stack, 1, Len(stack) - 2), Char(Result(c, stack)))
        BY <1>1, <1>3, <2>3, Kinds DEF PostfixStep
      <3>2. CASE TooFew(stack) \/ (c = Over /\ stack[Len(stack)] = 0)
        BY <3>1, <3>2 DEF EvalStates
      <3>3. CASE ~(TooFew(stack) \/ (c = Over /\ stack[Len(stack)] = 0))
        <4>1. Len(stack) >= 2
          BY <2>1, <3>3, LenProperties DEF TooFew
        <4> DEFINE a == stack[Len(stack) - 1]
                   b == stack[Len(stack)]
        <4>2. a \in Int /\ b \in Int /\ (c = Over => b # 0)
          BY <2>1, <3>3, <4>1, OperandsOnTop, EvalStatesType
        <4>3. Result(c, stack) = Apply(c, a, b)
          BY DEF Result
        <4> HIDE DEF a, b
        <4>4. c = Over => Quotient(a, b) \in Int
          BY <4>2, QuotientType
        <4>5. Apply(c, a, b) \in Int
          BY <2>3, <4>2, <4>4 DEF Apply, Operators, Plus, Minus, Times, Over
        <4>6. Char(Result(c, stack)) \in Chars
          BY <4>3, <4>5, CharRange
        <4> QED
          BY <2>1, <3>1, <3>3, <4>1, <4>6, OperandsOnTop, AppendProperties DEF EvalStates
      <3> QED
        BY <3>2, <3>3
    <2>4. CASE c \notin Digits /\ c \notin Operators
      BY <1>1, <1>3, <2>4 DEF PostfixStep
    <2> QED
      BY <2>2, <2>3, <2>4
  <1> QED
    BY <1>2, <1>3

\* The value of evaluatePostfix is on top of the stack that reading leads to.
LEMMA EvalRun ==
  ASSUME NEW str \in Seq(Int)
  PROVE  \E stack \in EvalStates :
            /\ Reads(EvalStates, Eval, str, <<>>, stack)
            /\ evaluatePostfix[str] = IF Len(stack) = 1 THEN stack[1] ELSE Nil
  <1>1. PICK f : Through(EvalStates, Eval, str, <<>>, f)
    BY EvalType, EvalStatesType, LoopRuns
  <1>2. \A i \in 1..Len(str) : str[i] \in Int /\ i - 1 \in 0..Len(str)
    BY ElementOfSeq, LenProperties
  <1>3. /\ f \in [0..Len(str) -> EvalStates] /\ f[0] = <<>>
        /\ \A i \in 1..Len(str) : f[i] = PostfixStep(str[i])[f[i - 1]]
    BY <1>1, <1>2 DEF Through, Eval
  <1>4. f = [i \in 0..Len(str) |-> IF i = 0 THEN <<>> ELSE PostfixStep(str[i])[f[i - 1]]]
    <2>1. \A i \in 0..Len(str) : i = 0 \/ i \in 1..Len(str)
      BY LenProperties
    <2> QED
      BY <1>3, <2>1
  <1>5. \E h : /\ h = [i \in 0..Len(str) |-> IF i = 0 THEN <<>> ELSE PostfixStep(str[i])[h[i - 1]]]
               /\ evaluatePostfix[str] = IF Len(h[Len(str)]) = 1 THEN h[Len(str)][1] ELSE Nil
    BY <1>4 DEF evaluatePostfix
  <1>6. PICK h : /\ h = [i \in 0..Len(str) |-> IF i = 0 THEN <<>> ELSE PostfixStep(str[i])[h[i - 1]]]
                 /\ evaluatePostfix[str] = IF Len(h[Len(str)]) = 1 THEN h[Len(str)][1] ELSE Nil
    BY <1>5
  <1>7. Through(EvalStates, Eval, str, <<>>, h)
    <2>1. 0 \in 0..Len(str)
      BY LenProperties
    <2>2. h[0] = <<>>
      BY <1>6, <2>1
    <2>3. ASSUME NEW i \in 1..Len(str) PROVE h[i] = PostfixStep(str[i])[h[i - 1]]
      <3>1. i \in 0..Len(str) /\ i # 0
        BY LenProperties
      <3> QED
        BY <1>6, <3>1, Zenon
    <2>4. DOMAIN h = 0..Len(str) /\ h = [i \in 0..Len(str) |-> h[i]]
      BY <1>6, Zenon
    <2> DEFINE Good == {i \in Nat : i <= Len(str) => h[i] \in EvalStates}
    <2>5. 0 \in Good
      BY <2>2, EvalStatesType
    <2>6. ASSUME NEW n \in Nat, n \in Good PROVE n + 1 \in Good
      <3> SUFFICES ASSUME n + 1 <= Len(str) PROVE h[n + 1] \in EvalStates
        OBVIOUS
      <3>1. n + 1 \in 1..Len(str) /\ (n + 1) - 1 = n /\ n <= Len(str)
        BY LenProperties
      <3>2. h[n] \in EvalStates /\ h[n + 1] = Eval[<<h[n], str[n + 1]>>]
        BY <1>2, <2>3, <2>6, <3>1 DEF Eval
      <3> QED
        BY <1>2, <3>1, <3>2, EvalType
    <2> HIDE DEF Good
    <2>7. Nat \subseteq Good
      BY <2>5, <2>6, NumberInduction
    <2>8. \A i \in 0..Len(str) : h[i] \in EvalStates
      BY <2>7, LenProperties DEF Good
    <2>9. h \in [0..Len(str) -> EvalStates]
      BY <2>4, <2>8
    <2> QED
      BY <1>2, <2>2, <2>3, <2>8, <2>9 DEF Through, Eval
  <1>8. Len(str) \in 0..Len(str)
    BY LenProperties
  <1> QED
    BY <1>6, <1>7, <1>8 DEF Reads, Through

\* The stack once a formula of value v has been evaluated on it.
Valued(stack, v) == IF v = Nil THEN <<Nil>> ELSE Append(stack, v)
Evaluates(t) ==
    /\ Reads(EvalStates, Eval, Postfix[t], <<Nil>>, <<Nil>>)
    /\ \A stack \in Seq(Chars) :
          Reads(EvalStates, Eval, Postfix[t], stack, Valued(stack, CharValue[t]))

\* One character; after an exit there is nothing more.
LEMMA OneEvaluated ==
  ASSUME NEW stack \in EvalStates, NEW c \in Int
  PROVE  /\ Reads(EvalStates, Eval, <<c>>, stack, PostfixStep(c)[stack])
         /\ stack = <<Nil>> => PostfixStep(c)[stack] = <<Nil>>
  <1>1. stack \in Seq(Int \cup {Nil})
    BY EvalStatesType
  <1>2. stack = <<Nil>> => PostfixStep(c)[stack] = <<Nil>>
    BY <1>1 DEF PostfixStep
  <1>3. Reads(EvalStates, Eval, <<c>>, stack, Eval[<<stack, c>>])
    BY EvalType, ReadsOne
  <1>4. Eval[<<stack, c>>] = PostfixStep(c)[stack]
    BY DEF Eval
  <1> QED
    BY <1>2, <1>3, <1>4

\* An operator on the values a and b of its operands.
LEMMA OperatorEvaluated ==
  ASSUME NEW stack \in Seq(Chars), NEW op \in Operators, NEW a \in Chars, NEW b \in Chars
  PROVE  PostfixStep(op)[Append(Append(stack, a), b)] =
           Valued(stack, Narrowed(Combined(op, a, b)))
  <1> DEFINE sa == Append(stack, a)
             sb == Append(sa, b)
             l == Len(stack)
  <1>1. /\ sa \in Seq(Chars) /\ Len(sa) = l + 1 /\ sa[l + 1] = a
        /\ \A i \in 1..l : sa[i] = stack[i]
    BY AppendProperties
  <1> HIDE DEF sa
  <1>2. /\ sb \in Seq(Chars) /\ Len(sb) = l + 2 /\ sb[l + 2] = b
        /\ \A i \in 1..(l + 1) : sb[i] = sa[i]
    <2>1. /\ sb \in Seq(Chars) /\ Len(sb) = Len(sa) + 1 /\ sb[Len(sa) + 1] = b
          /\ \A i \in 1..Len(sa) : sb[i] = sa[i]
      BY <1>1, AppendProperties
    <2>2. Len(sa) + 1 = l + 2
      BY <1>1, LenProperties
    <2> HIDE DEF sb
    <2> QED
      BY <1>1, <2>1, <2>2
  <1> HIDE DEF sb
  <1>3. l \in Nat
    BY LenProperties
  <1>4. SubSeq(sb, 1, l) = stack
    <2> DEFINE x == SubSeq(sb, 1, l)
    <2>1. \A i \in 1..l : i \in 1..(l + 1) /\ sb[i] = stack[i] /\ stack[i] \in Chars
      BY <1>1, <1>2, <1>3, ElementOfSeq
    <2>2. l - 1 + 1 = l /\ \A i \in 1..l : 1 + i - 1 = i
      BY <1>3
    <2> HIDE DEF l
    <2>3. /\ x \in Seq(Chars) /\ Len(x) = IF 1 <= l THEN l - 1 + 1 ELSE 0
          /\ \A i \in 1..(l - 1 + 1) : x[i] = sb[1 + i - 1]
      BY <1>3, <2>1, SubSeqProperties
    <2> HIDE DEF x
    <2>4. Len(x) = l /\ \A i \in 1..l : x[i] = stack[i]
      BY <1>3, <2>1, <2>2, <2>3
    <2>5. x = stack
      BY <2>3, <2>4, SeqEqual DEF l
    <2> QED
      BY <2>5 DEF x
  <1> HIDE DEF l
  <1>5. l + 2 - 2 = l /\ l + 2 - 1 = l + 1 /\ ~(l + 2 < 2) /\ l + 1 \in 1..(l + 1) /\ l + 2 # 1
    BY <1>3
  <1>6. /\ ~TooFew(sb) /\ Result(op, sb) = Apply(op, a, b)
        /\ Len(sb) - 2 = l /\ sb[Len(sb)] = b
    <2>1. Len(sb) < 2 <=> FALSE
      BY <1>2, <1>5
    <2>2. Len(sb) = l + 2
      BY <1>2
    <2>3. Len(sb) - 1 = l + 1 /\ Len(sb) - 2 = l
      BY ONLY <1>3, <2>2
    <2>4. sb[Len(sb)] = b /\ sb[Len(sb) - 1] = a
      BY <1>1, <1>2, <1>5, <2>3
    <2>5. ~TooFew(sb) /\ Result(op, sb) = Apply(op, a, b)
      BY <2>1, <2>4 DEF TooFew, Result
    <2> QED
      BY <2>3, <2>4, <2>5
  <1>7. sb \in Seq(Int \cup {Nil}) /\ sb # <<Nil>>
    BY <1>2, EvalStatesType DEF EvalStates
  <1>8. PostfixStep(op)[sb] =
          IF TooFew(sb) \/ (op = Over /\ sb[Len(sb)] = 0) THEN <<Nil>>
          ELSE Append(SubSeq(sb, 1, Len(sb) - 2), Char(Result(op, sb)))
    BY <1>7, Kinds DEF PostfixStep
  <1>9. PostfixStep(op)[sb] =
          IF op = Over /\ b = 0 THEN <<Nil>> ELSE Append(stack, Char(Apply(op, a, b)))
    BY <1>4, <1>6, <1>8
  <1>10. a # Nil /\ b # Nil /\ a \in Int /\ b \in Int
    BY EvalStatesType
  <1>11. CASE op = Over /\ b = 0
    BY <1>9, <1>11 DEF Combined, Narrowed, Valued, sa, sb
  <1>12. CASE ~(op = Over /\ b = 0)
    <2>1. Combined(op, a, b) = Apply(op, a, b)
      BY <1>10, <1>12 DEF Combined
    <2>2. op = Over => Quotient(a, b) \in Int
      BY <1>10, <1>12, QuotientType
    <2>3. Apply(op, a, b) \in Int
      BY <1>10, <2>2 DEF Apply, Operators, Plus, Minus, Times, Over
    <2>4. Narrowed(Apply(op, a, b)) = Char(Apply(op, a, b)) /\ Char(Apply(op, a, b)) # Nil
      BY <2>3, CharRange, EvalStatesType DEF Narrowed
    <2> QED
      BY <1>9, <1>12, <2>1, <2>4 DEF Valued, sa, sb
  <1> QED
    BY <1>11, <1>12

\* The postfix form of a formula leaves its value on the stack.
LEMMA TreeEvaluated ==
  ASSUME NEW t \in Trees
  PROVE  Evaluates(t)
  <1> DEFINE Good == {u \in Trees : Evaluates(u)}
  <1>1. <<Nil>> \in EvalStates /\ Seq(Chars) \subseteq EvalStates
    BY DEF EvalStates
  <1>2. ASSUME NEW u \in Trees, Leaf(u) PROVE Evaluates(u)
    <2> DEFINE c == Zero + u[1]
    <2>1. u[1] \in 0..9 /\ Len(u) = 1
      BY <1>2, Shape
    <2>2. c \in Int /\ c \in Digits /\ c - Zero = u[1] /\ u[1] \in Chars
      BY <2>1 DEF Digits, Zero, Chars
    <2>3. Postfix[u] = <<c>> /\ CharValue[u] = u[1]
      BY <2>1, PostfixDef, CharValueDef
    <2> HIDE DEF c
    <2>4. Reads(EvalStates, Eval, <<c>>, <<Nil>>, <<Nil>>)
      BY <1>1, <2>2, OneEvaluated
    <2>5. ASSUME NEW stack \in Seq(Chars)
          PROVE  Reads(EvalStates, Eval, <<c>>, stack, Valued(stack, u[1]))
      <3>1. stack \in Seq(Int \cup {Nil}) /\ stack # <<Nil>> /\ u[1] # Nil
        BY <1>1, <2>2, EvalStatesType
      <3>2. PostfixStep(c)[stack] = Append(stack, c - Zero)
        BY <2>2, <3>1, Kinds DEF PostfixStep
      <3>3. PostfixStep(c)[stack] = Valued(stack, u[1])
        BY <2>2, <3>1, <3>2 DEF Valued
      <3>4. Reads(EvalStates, Eval, <<c>>, stack, PostfixStep(c)[stack])
        BY <1>1, <2>2, OneEvaluated
      <3> QED
        BY <3>3, <3>4
    <2> QED
      BY <2>3, <2>4, <2>5 DEF Evaluates
  <1>3. ASSUME NEW u \in Trees, Node(u), Evaluates(u[2]), Evaluates(u[3]) PROVE Evaluates(u)
    <2> DEFINE op == u[1]
               o == <<op>>
               p == Postfix[u[2]]
               q == Postfix[u[3]]
               a == CharValue[u[2]]
               b == CharValue[u[3]]
    <2>1. Len(u) # 1 /\ op \in Operators /\ op \in Int /\ u[2] \in Trees /\ u[3] \in Trees
      BY <1>3, Shape
    <2>2. /\ p \in Seq(Int) /\ q \in Seq(Int) /\ o \in Seq(Int)
          /\ a \in Chars \cup {Nil} /\ b \in Chars \cup {Nil}
          /\ Postfix[u] = (p \o q) \o o
          /\ CharValue[u] = Narrowed(Combined(op, a, b))
      <3>1. p \in Seq(Int) /\ q \in Seq(Int) /\ o \in Seq(Int) /\ Postfix[u] = (p \o q) \o o
        <4>1. o \in Seq(Int)
          BY <2>1
        <4>2. p \in Seq(Int) /\ q \in Seq(Int)
          BY <2>1, PostfixDef
        <4>3. Postfix[u] = (p \o q) \o o
          BY <2>1, PostfixDef
        <4> QED
          BY <4>1, <4>2, <4>3
      <3>2. a \in Chars \cup {Nil} /\ b \in Chars \cup {Nil}
        BY <2>1, CharValueDef
      <3>3. CharValue[u] = Narrowed(Combined(op, a, b))
        BY <2>1, CharValueDef
      <3> QED
        BY <3>1, <3>2, <3>3
    <2>3. /\ Reads(EvalStates, Eval, p, <<Nil>>, <<Nil>>) /\ Reads(EvalStates, Eval, q, <<Nil>>, <<Nil>>)
          /\ \A stack \in Seq(Chars) :
                /\ Reads(EvalStates, Eval, p, stack, Valued(stack, a))
                /\ Reads(EvalStates, Eval, q, stack, Valued(stack, b))
      BY <1>3 DEF Evaluates
    <2>4. \A stack \in EvalStates : Reads(EvalStates, Eval, o, stack, PostfixStep(op)[stack])
      BY <2>1, OneEvaluated
    <2>5. PostfixStep(op)[<<Nil>>] = <<Nil>>
      BY <1>1, <2>1, OneEvaluated
    <2> HIDE DEF op, o, p, q, a, b
    <2>6. p \o q \in Seq(Int)
      BY <2>2, ConcatProperties
    <2>7. ASSUME NEW x, NEW y, NEW z \in EvalStates,
                 Reads(EvalStates, Eval, p, x, y), Reads(EvalStates, Eval, q, y, z)
          PROVE  Reads(EvalStates, Eval, (p \o q) \o o, x, PostfixStep(op)[z])
      <3>1. Reads(EvalStates, Eval, p \o q, x, z)
        BY <2>2, <2>7, ReadsOn
      <3>2. Reads(EvalStates, Eval, o, z, PostfixStep(op)[z])
        BY <2>4, <2>7
      <3> QED
        BY <2>2, <2>6, <3>1, <3>2, ReadsOn
    <2>8. Reads(EvalStates, Eval, (p \o q) \o o, <<Nil>>, <<Nil>>)
      BY <1>1, <2>3, <2>5, <2>7
    <2>9. ASSUME NEW stack \in Seq(Chars)
          PROVE  Reads(EvalStates, Eval, (p \o q) \o o, stack,
                       Valued(stack, Narrowed(Combined(op, a, b))))
      <3>1. CASE a = Nil
        <4>1. Valued(stack, a) = <<Nil>> /\ Valued(stack, Narrowed(Combined(op, a, b))) = <<Nil>>
          BY <3>1 DEF Valued, Narrowed, Combined
        <4> QED
          BY <1>1, <2>3, <2>5, <2>7, <4>1
      <3>2. CASE a # Nil /\ b = Nil
        <4>1. Valued(stack, Narrowed(Combined(op, a, b))) = <<Nil>>
          BY <3>2 DEF Valued, Narrowed, Combined
        <4>2. Valued(stack, a) \in Seq(Chars) /\ Valued(Valued(stack, a), b) = <<Nil>>
          BY <2>2, <3>2, AppendProperties DEF Valued
        <4> QED
          BY <1>1, <2>3, <2>5, <2>7, <4>1, <4>2
      <3>3. CASE a # Nil /\ b # Nil
        <4> DEFINE sa == Append(stack, a)
                   sb == Append(sa, b)
        <4>1. a \in Chars /\ b \in Chars /\ sa \in Seq(Chars) /\ sb \in Seq(Chars)
          BY <2>2, <3>3, AppendProperties
        <4>2. Valued(stack, a) = sa /\ Valued(sa, b) = sb
          BY <3>3 DEF Valued
        <4>3. PostfixStep(op)[sb] = Valued(stack, Narrowed(Combined(op, a, b)))
          BY <2>1, <4>1, OperatorEvaluated
        <4> HIDE DEF sa, sb
        <4>4. Reads(EvalStates, Eval, p, stack, sa) /\ Reads(EvalStates, Eval, q, sa, sb)
          BY <2>3, <4>1, <4>2
        <4> QED
          BY <1>1, <2>7, <4>1, <4>3, <4>4
      <3> QED
        BY <3>1, <3>2, <3>3
    <2> QED
      BY <2>2, <2>8, <2>9 DEF Evaluates
  <1> HIDE DEF Good
  <1>4. \A u \in Trees : Leaf(u) => u \in Good
    BY <1>2 DEF Good
  <1>5. \A u \in Trees : Node(u) /\ u[2] \in Good /\ u[3] \in Good => u \in Good
    BY <1>3 DEF Good
  <1>6. Trees \subseteq Good
    BY <1>4, <1>5, TreeInduction
  <1> QED
    BY <1>6 DEF Good

\* Whatever the buffer holds, an answer fits into a char.
LEMMA OutcomesType ==
  ASSUME NEW str \in Seq(Int)
  PROVE  Outcomes[str] \subseteq Chars \cup {Nil}
  <1> DEFINE s == infixToPostfix[str]
             post == s.post \o Popped(s.stack, 0)
  <1>1. s \in Conversions
    BY InfixRun
  <1>2. s.post \in Seq(Int) /\ s.stack \in Seq(Int) /\ 0 \in 0..Len(s.stack)
    BY <1>1, LenProperties DEF Conversions
  <1>3. post \in Seq(Int)
    <2>1. Popped(s.stack, 0) \in Seq(Int)
      BY <1>2, PoppedType
    <2> QED
      BY <1>2, <2>1, ConcatProperties
  <1>4. Outcomes[str] = {evaluatePostfix[post]} \cup (IF s.stray THEN {Nil} ELSE {})
    BY DEF Outcomes
  <1> HIDE DEF post, s
  <1>5. PICK stack \in EvalStates :
           evaluatePostfix[post] = IF Len(stack) = 1 THEN stack[1] ELSE Nil
    BY <1>3, EvalRun
  <1>6. Len(stack) = 1 => stack[1] \in Chars \cup {Nil}
    <2>1. CASE stack \in Seq(Chars)
      <3>1. Len(stack) = 1 => 1 \in 1..Len(stack)
        OBVIOUS
      <3> QED
        BY <2>1, <3>1, ElementOfSeq
    <2>2. CASE stack = <<Nil>>
      BY <2>2
    <2> QED
      BY <2>1, <2>2 DEF EvalStates
  <1> QED
    BY <1>4, <1>5, <1>6

\* infixToPostfix and evaluatePostfix (echo_server.c): a formula alone in the buffer
\* that is shorter than the arrays overruns none of them, and one that does not
\* overrun them has one outcome, its value as computed in chars, or the exit if that
\* divides by zero.
THEOREM FormulaOutcome ==
  ASSUME NEW t \in Trees
  PROVE  LET str == Append(Text[t], Newline)
         IN  /\ Len(str) < Size => ~Overruns[str]
             /\ ~Overruns[str] => Outcomes[str] = {CharValue[t]}
  <1> DEFINE str == Append(Text[t], Newline)
             s == infixToPostfix[str]
             p == Postfix[t]
             v == CharValue[t]
  <1>0. Len(str) < Size => ~Overruns[str]
    BY FormulaConverted
  <1> SUFFICES ASSUME ~Overruns[str] PROVE Outcomes[str] = {v}
    BY <1>0
  <1>1. str \in Seq(Int) /\ p \in Seq(Int) /\ v \in Chars \cup {Nil}
    BY TextDef, PostfixDef, CharValueDef, Kinds, AppendProperties
  <1>2. s.post \o Popped(s.stack, 0) = p /\ s.stray = FALSE
    BY FormulaConverted
  <1>3. Outcomes[str] = {evaluatePostfix[s.post \o Popped(s.stack, 0)]}
                        \cup (IF s.stray THEN {Nil} ELSE {})
    BY <1>1 DEF Outcomes
  <1>4. Reads(EvalStates, Eval, p, <<>>, Valued(<<>>, v))
    BY TreeEvaluated, EmptySeq DEF Evaluates
  <1> HIDE DEF str, s, p, v
  <1>5. Outcomes[str] = {evaluatePostfix[p]}
    BY <1>2, <1>3
  <1>6. PICK stack \in EvalStates :
           /\ Reads(EvalStates, Eval, p, <<>>, stack)
           /\ evaluatePostfix[p] = IF Len(stack) = 1 THEN stack[1] ELSE Nil
    BY <1>1, EvalRun
  <1>7. stack = Valued(<<>>, v)
    BY <1>1, <1>4, <1>6, ReadsSame
  <1>8. evaluatePostfix[p] = v
    <2>1. CASE v = Nil
      <3>1. stack = <<Nil>>
        BY <1>7, <2>1 DEF Valued
      <3> QED
        BY <1>6, <2>1, <3>1
    <2>2. CASE v # Nil
      <3>1. stack = <<v>>
        <4>1. Append(<<>>, v) = <<v>>
          OBVIOUS
        <4> QED
          BY <1>7, <2>2, <4>1 DEF Valued
      <3> QED
        BY <1>6, <3>1
    <2> QED
      BY <2>1, <2>2
  <1> QED
    BY <1>5, <1>8 DEF str, v

-----------------------------------------------------------------------------
(***************************************************************************)
(* The calculator server.  Only the client served, and those whose         *)
(* connection is closed, have an answer; while the buffer held no more     *)
(* than the last request, that answer is the value of the formula asked,   *)
(* as chars go.                                                            *)
(***************************************************************************)
Buffers == request \in Seq(Int) /\ asks \in [Users -> Int] /\ asked \in [Users -> Trees \cup {Nil}]
Answered ==
    \A c \in Users : answer[c] # Nil => asked[c] # Nil /\ (c = serving \/ conn[c] = "closed")
AnswerExact ==
    \A c \in Users : answer[c] # Nil /\ c = serving /\ exact => answer[c] = CharValue[asked[c]]
Ended ==
    spc \in {"exited", "undefined"} =>
        /\ serving \in Users
        /\ conn[serving] # "reset" =>
              /\ asked[serving] # Nil /\ answer[serving] = Nil
              /\ exact => IF spc = "exited" THEN CharValue[asked[serving]] = Nil
                         ELSE Len(Append(Text[asked[serving]], Newline)) >= Size
Serves == spc = "run" /\ serving = Nil => served < MaxUsers
CalcInv == CalcTyped /\ Buffers /\ Answered /\ AnswerExact /\ Ended /\ Serves

\* What CalcAssumption says of the constants.
LEMMA CalcConstants ==
  /\ Nil \notin Int /\ Nil \notin Users /\ Nil \notin Trees
  /\ \A c \in Users : MaxAsk[c] \in Nat /\ \A t \in Formulas[c] : t \in Trees /\ t # Nil
  /\ MaxUsers \in Nat /\ MaxUsers > 0
  BY CalcAssumption

\* What a request leaves in the buffer is a string.
LEMMA BufferType ==
  ASSUME NEW text \in Seq(Int), NEW old \in Seq(Int)
  PROVE  text \o SubSeq(old, Len(text) + 1, Len(old)) \in Seq(Int)
  <1> DEFINE m == Len(text) + 1
             n == Len(old)
  <1>1. m \in Int /\ n \in Int /\ m >= 1
    BY LenProperties
  <1>2. \A i \in m..n : old[i] \in Int
    <2>1. \A i \in m..n : i \in 1..n
      BY <1>1
    <2> QED
      BY <2>1, ElementOfSeq
  <1> HIDE DEF m, n
  <1>3. SubSeq(old, m, n) \in Seq(Int)
    BY <1>1, <1>2, SubSeqProperties
  <1> QED
    BY <1>3, ConcatProperties DEF m, n

\* The invariant holds initially and is kept, action by action.
LEMMA CalcInitial ==
  CalcInit => CalcInv
  <1> SUFFICES ASSUME CalcInit PROVE CalcInv
    OBVIOUS
  <1>1. request \in Seq(Int)
    <2>1. <<>> \in Seq(Int)
      BY EmptySeq
    <2>2. Zero + 7 \in Int
      BY DEF Zero
    <2> DEFINE z == Zero + 7
    <2>3. <<z, z>> \in Seq(Int)
      <3> HIDE DEF z
      <3> QED
        BY <2>2 DEF z
    <2> QED
      BY <2>1, <2>3 DEF CalcInit
  <1>2. Buffers
    <2>1. asks \in [Users -> Int] /\ asked \in [Users -> Trees \cup {Nil}]
      BY DEF CalcInit
    <2> QED
      BY <1>1, <2>1 DEF Buffers
  <1>3. CalcTyped
    BY CalcConstants DEF CalcInit, CalcTyped
  <1>4. Answered /\ AnswerExact /\ Ended /\ Serves
    BY CalcConstants DEF CalcInit, Answered, AnswerExact, Ended, Serves
  <1> QED
    BY <1>2, <1>3, <1>4 DEF CalcInv

LEMMA ConnectKeepsCalc ==
  ASSUME CalcInv, NEW c \in Users, Connect(c)
  PROVE  CalcInv'
  <1>1. /\ spc = "run" /\ conn[c] = "none" /\ conn \in [Users -> {"none", "backlog", "open", "fin", "reset", "closed"}]
        /\ conn'[c] = "backlog" /\ \A d \in Users \ {c} : conn'[d] = conn[d]
        /\ conn' \in [Users -> {"none", "backlog", "open", "fin", "reset", "closed"}]
        /\ asks' = asks /\ asked' = asked /\ answer' = answer /\ serving' = serving
        /\ served' = served /\ spc' = spc /\ request' = request /\ exact' = exact
    BY DEF Connect, CalcInv, CalcTyped
  <1>2. CalcTyped' /\ Buffers'
    BY <1>1 DEF CalcInv, CalcTyped, Buffers
  <1>3. Answered'
    BY <1>1 DEF CalcInv, Answered
  <1>4. AnswerExact' /\ Ended' /\ Serves'
    BY <1>1 DEF CalcInv, AnswerExact, Ended, Serves
  <1> QED
    BY <1>2, <1>3, <1>4 DEF CalcInv

LEMMA AskKeepsCalc ==
  ASSUME CalcInv, NEW c \in Users, Ask(c)
  PROVE  CalcInv'
  <1>1. PICK t \in Formulas[c] : asked' = [asked EXCEPT ![c] = t]
    BY DEF Ask
  <1>2. /\ conn[c] \in {"backlog", "open"} /\ asks[c] < MaxAsk[c]
        /\ asked[c] = Nil \/ answer[c] # Nil
        /\ asks[c] \in 0..MaxAsk[c] /\ MaxAsk[c] \in Nat
        /\ asked \in [Users -> Trees \cup {Nil}] /\ asks \in [Users -> Int]
        /\ answer \in [Users -> Chars \cup {Nil}]
        /\ t \in Trees /\ t # Nil
    BY CalcConstants DEF Ask, CalcInv, CalcTyped, Buffers
  <1>3. /\ asked'[c] = t /\ asks'[c] = asks[c] + 1 /\ answer'[c] = Nil
        /\ \A d \in Users \ {c} : asked'[d] = asked[d] /\ asks'[d] = asks[d] /\ answer'[d] = answer[d]
        /\ asked' \in [Users -> Trees \cup {Nil}] /\ asks' \in [Users -> Int]
        /\ answer' \in [Users -> Chars \cup {Nil}]
    BY <1>1, <1>2 DEF Ask
  <1>4. /\ conn' = conn /\ serving' = serving /\ served' = served /\ spc' = spc
        /\ request' = request /\ exact' = exact
    BY DEF Ask
  <1>5. asks'[c] \in 0..MaxAsk[c]
    BY <1>2, <1>3
  <1>6. CalcTyped' /\ Buffers'
    BY <1>3, <1>4, <1>5 DEF CalcInv, CalcTyped, Buffers
  <1>7. Answered' /\ AnswerExact'
    BY <1>3, <1>4 DEF CalcInv, Answered, AnswerExact
  <1>8. Ended'
    BY <1>2, <1>3, <1>4 DEF CalcInv, Ended
  <1>9. Serves'
    BY <1>4 DEF CalcInv, Serves
  <1> QED
    BY <1>6, <1>7, <1>8, <1>9 DEF CalcInv

LEMMA LeaveKeepsCalc ==
  ASSUME CalcInv, NEW c \in Users, Leave(c)
  PROVE  CalcInv'
  <1>1. /\ conn[c] \in {"backlog", "open"}
        /\ conn'[c] \in {"fin", "reset"} /\ \A d \in Users \ {c} : conn'[d] = conn[d]
        /\ conn' \in [Users -> {"none", "backlog", "open", "fin", "reset", "closed"}]
        /\ asks' = asks /\ asked' = asked /\ answer' = answer /\ serving' = serving
        /\ served' = served /\ spc' = spc /\ request' = request /\ exact' = exact
    BY DEF Leave, CalcInv, CalcTyped
  <1>2. CalcTyped' /\ Buffers'
    BY <1>1 DEF CalcInv, CalcTyped, Buffers
  <1>3. Answered'
    BY <1>1 DEF CalcInv, Answered
  <1>4. Ended'
    BY <1>1 DEF CalcInv, Ended
  <1>5. AnswerExact' /\ Serves'
    BY <1>1 DEF CalcInv, AnswerExact, Serves
  <1> QED
    BY <1>2, <1>3, <1>4, <1>5 DEF CalcInv

LEMMA AcceptKeepsCalc ==
  ASSUME CalcInv, Accept
  PROVE  CalcInv'
  <1>1. PICK c \in Users :
           /\ conn[c] \in {"backlog", "fin", "reset"} /\ serving' = c
           /\ conn' = [conn EXCEPT ![c] = IF @ = "backlog" THEN "open" ELSE @]
    BY DEF Accept
  <1>2. /\ spc = "run" /\ serving = Nil /\ served' = served + 1
        /\ asks' = asks /\ asked' = asked /\ answer' = answer
        /\ spc' = spc /\ request' = request /\ exact' = exact
    BY DEF Accept
  <1>3. /\ \A d \in Users \ {c} : conn'[d] = conn[d]
        /\ conn' \in [Users -> {"none", "backlog", "open", "fin", "reset", "closed"}]
    BY <1>1 DEF CalcInv, CalcTyped
  <1>4. served + 1 \in 0..MaxUsers
    BY <1>2, CalcConstants DEF CalcInv, Serves, CalcTyped
  <1>5. \A d \in Users : answer[d] # Nil => conn[d] = "closed" /\ d # c /\ asked[d] # Nil
    BY <1>1, <1>2, CalcConstants DEF CalcInv, Answered
  <1>6. CalcTyped' /\ Buffers'
    BY <1>1, <1>2, <1>3, <1>4 DEF CalcInv, CalcTyped, Buffers
  <1>7. Answered' /\ AnswerExact'
    BY <1>1, <1>2, <1>3, <1>5 DEF Answered, AnswerExact
  <1>8. Ended' /\ Serves'
    BY <1>1, <1>2, CalcConstants DEF Ended, Serves
  <1> QED
    BY <1>6, <1>7, <1>8 DEF CalcInv

LEMMA AnswerKeepsCalc ==
  ASSUME CalcInv, Answer
  PROVE  CalcInv'
  <1> DEFINE text == Append(Text[asked[serving]], Newline)
             str == text \o SubSeq(request, Len(text) + 1, Len(request))
             v == CharValue[asked[serving]]
  <1>1. PICK c \in Users : c = serving
    BY DEF Answer, CalcInv, CalcTyped
  <1>2. /\ spc = "run" /\ asked[c] # Nil /\ answer[c] = Nil /\ request' = str
        /\ (exact' <=> (str = text))
    BY <1>1 DEF Answer, Requested
  <1>4. /\ conn' = conn /\ asks' = asks /\ asked' = asked /\ serving' = serving
        /\ served' = served
    BY DEF Answer
  <1>5. asked[c] \in Trees
    BY <1>2 DEF CalcInv, Buffers
  <1>6. text \in Seq(Int) /\ str \in Seq(Int)
    <2>1. text \in Seq(Int)
      BY <1>1, <1>5, TextDef, Kinds, AppendProperties
    <2> HIDE DEF text
    <2> QED
      BY <2>1, BufferType DEF CalcInv, Buffers
  <1>7. answer \in [Users -> Chars \cup {Nil}]
    BY DEF CalcInv, CalcTyped
  <1>8. CASE Overruns[str]
    <2>1. spc' = "undefined" /\ answer' = answer
      BY <1>8 DEF Answer
    <2>2. exact' => Len(text) >= Size
      <3>1. Len(str) \in Nat /\ Size \in Nat /\ ~(Len(str) < Size)
        <4> HIDE DEF str
        <4> QED
          BY <1>6, <1>8, ShortFits, CalcAssumption, LenProperties
      <3> HIDE DEF str, text
      <3> QED
        BY <1>2, <3>1
    <2>3. CalcTyped' /\ Buffers'
      <3> HIDE DEF str, text
      <3> QED
        BY <1>2, <1>4, <1>6, <2>1 DEF CalcInv, CalcTyped, Buffers
    <2>4. Answered' /\ AnswerExact'
      BY <1>1, <1>2, <1>4, <2>1 DEF CalcInv, Answered, AnswerExact
    <2>5. Ended' /\ Serves'
      BY <1>1, <1>2, <1>4, <2>1, <2>2 DEF Ended, Serves
    <2> QED
      BY <2>3, <2>4, <2>5 DEF CalcInv
  <1> SUFFICES ASSUME ~Overruns[str] PROVE CalcInv'
    BY <1>8
  <1>9. PICK result \in Outcomes[str] :
           IF result = Nil THEN spc' = "exited" /\ UNCHANGED answer
           ELSE answer' = [answer EXCEPT ![serving] = result] /\ UNCHANGED spc
    BY DEF Answer
  <1>10. result \in Chars \cup {Nil}
    <2> HIDE DEF str
    <2> QED
      BY <1>6, <1>9, OutcomesType
  <1>11. exact' => result = v
    <2> SUFFICES ASSUME exact' PROVE result = v
      OBVIOUS
    <2>1. str = text
      BY <1>2
    <2>2. ~Overruns[text]
      BY <2>1
    <2>3. Outcomes[text] = {v}
      BY <1>1, <1>5, <2>2, FormulaOutcome
    <2> HIDE DEF str, text, v
    <2> QED
      BY <1>9, <2>1, <2>3
  <1> HIDE DEF str, text
  <1>12. CASE result = Nil
    <2>1. spc' = "exited" /\ answer' = answer
      BY <1>9, <1>12
    <2>2. CalcTyped' /\ Buffers'
      BY <1>2, <1>4, <1>6, <2>1 DEF CalcInv, CalcTyped, Buffers
    <2>3. Answered' /\ AnswerExact'
      BY <1>1, <1>2, <1>4, <2>1 DEF CalcInv, Answered, AnswerExact
    <2>4. Ended' /\ Serves'
      BY <1>1, <1>2, <1>4, <1>11, <1>12, <2>1 DEF Ended, Serves
    <2> QED
      BY <2>2, <2>3, <2>4 DEF CalcInv
  <1>13. CASE result # Nil
    <2>1. /\ spc' = spc /\ answer'[c] = result
          /\ \A d \in Users \ {c} : answer'[d] = answer[d]
          /\ answer' \in [Users -> Chars \cup {Nil}]
      BY <1>1, <1>7, <1>9, <1>10, <1>13
    <2>2. CalcTyped' /\ Buffers'
      BY <1>2, <1>4, <1>6, <2>1 DEF CalcInv, CalcTyped, Buffers
    <2>3. Answered'
      BY <1>1, <1>2, <1>4, <2>1 DEF CalcInv, Answered
    <2>4. AnswerExact'
      BY <1>1, <1>4, <1>11, <2>1 DEF AnswerExact
    <2>5. Ended' /\ Serves'
      BY <1>2, <1>4, <2>1 DEF CalcInv, Ended, Serves
    <2> QED
      BY <2>2, <2>3, <2>4, <2>5 DEF CalcInv
  <1> QED
    BY <1>12, <1>13

LEMMA EndClientKeepsCalc ==
  ASSUME CalcInv, EndClient
  PROVE  CalcInv'
  <1>1. PICK c \in Users : c = serving
    BY DEF EndClient, CalcInv, CalcTyped
  <1>2. /\ spc = "run" /\ serving' = Nil /\ spc' = IF served = MaxUsers THEN "left" ELSE "run"
        /\ asks' = asks /\ asked' = asked /\ answer' = answer
        /\ served' = served /\ request' = request /\ exact' = exact
    BY DEF EndClient, ServedAll
  <1>3. /\ conn'[c] = "closed" /\ \A d \in Users \ {c} : conn'[d] = conn[d]
        /\ conn' \in [Users -> {"none", "backlog", "open", "fin", "reset", "closed"}]
    BY <1>1 DEF EndClient, CalcInv, CalcTyped
  <1>4. CalcTyped' /\ Buffers'
    BY <1>2, <1>3 DEF CalcInv, CalcTyped, Buffers
  <1>5. Answered'
    BY <1>1, <1>2, <1>3 DEF CalcInv, Answered
  <1>6. AnswerExact' /\ Ended'
    BY <1>2, CalcConstants DEF AnswerExact, Ended
  <1>7. Serves'
    <2>1. served \in 0..MaxUsers
      BY DEF CalcInv, CalcTyped
    <2> QED
      BY <1>2, <2>1, CalcConstants DEF Serves
  <1> QED
    BY <1>4, <1>5, <1>6, <1>7 DEF CalcInv

LEMMA ResetKeepsCalc ==
  ASSUME CalcInv, Reset
  PROVE  CalcInv'
  <1>1. PICK c \in Users : c = serving
    BY DEF Reset, CalcInv, CalcTyped
  <1>2. /\ conn[c] = "reset" /\ spc' \in {"exited", "killed", "undefined"}
        /\ conn' = conn /\ asks' = asks /\ asked' = asked /\ answer' = answer
        /\ serving' = serving /\ served' = served /\ request' = request /\ exact' = exact
    BY <1>1 DEF Reset
  <1>3. CalcTyped' /\ Buffers'
    BY <1>2 DEF CalcInv, CalcTyped, Buffers
  <1>4. Answered' /\ AnswerExact'
    BY <1>2 DEF CalcInv, Answered, AnswerExact
  <1>5. Ended' /\ Serves'
    BY <1>1, <1>2 DEF Ended, Serves
  <1> QED
    BY <1>3, <1>4, <1>5 DEF CalcInv

\* All steps together.
LEMMA CalcInvariance ==
  CalcInv /\ [CalcNext]_calcVars => CalcInv'
  <1> SUFFICES ASSUME CalcInv, [CalcNext]_calcVars PROVE CalcInv'
    OBVIOUS
  <1>1. ASSUME NEW c \in Users, Connect(c) \/ Ask(c) \/ Leave(c) PROVE CalcInv'
    BY <1>1, ConnectKeepsCalc, AskKeepsCalc, LeaveKeepsCalc
  <1>2. CASE CalcServer
    BY <1>2, AcceptKeepsCalc, AnswerKeepsCalc, EndClientKeepsCalc, ResetKeepsCalc DEF CalcServer
  <1>3. CASE UNCHANGED calcVars
    BY <1>3 DEF calcVars, CalcInv, CalcTyped, Buffers, Answered, AnswerExact, Ended, Serves
  <1> QED
    BY <1>1, <1>2, <1>3 DEF CalcNext

\* What the invariant says of answers and exits.
LEMMA CalcImplied ==
  CalcInv => CalculatorRight
  <1> SUFFICES ASSUME CalcInv PROVE CalculatorRight
    OBVIOUS
  <1>1. AnswersRight
    <2> SUFFICES ASSUME NEW c \in Users, answer[c] # Nil, c = serving, exact, Fits(asked[c])
                 PROVE  answer[c] = Value[asked[c]]
      BY DEF AnswersRight
    <2>1. asked[c] \in Trees /\ answer[c] = CharValue[asked[c]]
      BY DEF CalcInv, Buffers, Answered, AnswerExact
    <2> QED
      BY <2>1, FitsAgree
  <1>2. ExitJustified
    BY DEF CalcInv, Ended, ExitJustified
  <1>3. OverrunJustified
    BY DEF CalcInv, Ended, OverrunJustified
  <1> QED
    BY <1>1, <1>2, <1>3 DEF CalcInv, CalculatorRight

\* The calculator (echo_server.c) answers a formula with its value, if no longer
\* string was in the buffer before and every result on the way fits into a char,
\* and without an old tail it exits on a request only for a division by zero and
\* overruns an array only for a formula that is not shorter: for any clients, any
\* formulas and any number of them.
THEOREM FormulasAnswered == CalcSpec => []CalculatorRight
  <1>1. CalcInit => CalcInv
    BY CalcInitial
  <1>2. CalcInv /\ [CalcNext]_calcVars => CalcInv'
    BY CalcInvariance
  <1>3. CalcInv => CalculatorRight
    BY CalcImplied
  <1> QED
    BY <1>1, <1>2, <1>3, PTL DEF CalcSpec
=============================================================================
