-------------------------- MODULE EventLoopsProofs --------------------------
(***************************************************************************)
(* The three event-loop echo servers, for any number of clients, bytes and *)
(* descriptors and any sizes of the buffers: each implements EchoService,  *)
(* watches exactly the open descriptors, never calls accept or read where  *)
(* it would block, and the edge-triggered one loses no edge.               *)
(***************************************************************************)
EXTENDS EventLoops, LeastNumber, SequenceTheorems

\* s is a run of the bytes of c that follow the first k.
Run(c, s, k) == \A i \in 1..Len(s) : s[i] = <<c, k + i>>

\* What the server has read from c and not yet written back.
Held(c) == IF pc = "write" /\ file[cur] = c THEN buf ELSE <<>>

\* An open descriptor refers to an open connection, and no two to the same; who
\* was reset has left, and who has left sends no more.
Descriptors ==
    /\ \A f \in Fds : file[f] # None => conn[file[f]] = "open"
    /\ \A f, g \in Fds : file[f] # None /\ file[f] = file[g] => f = g
    /\ rst \subseteq left /\ left \subseteq fin

\* The bytes of a client are on their way in order: those returned, those in buf
\* and those not read.  What is read from a client that has left may be dropped, and
\* so may what follows a byte that was.
Stream ==
    \A c \in Clients :
       /\ Run(c, got[c], 0) /\ Len(got[c]) <= sent[c]
       /\ c \notin left \cup lost =>
             /\ Run(c, Held(c), Len(got[c]))
             /\ Run(c, inbuf[c], Len(got[c]) + Len(Held(c)))
             /\ Len(got[c]) + Len(Held(c)) + Len(inbuf[c]) = sent[c]

\* The descriptor in hand is that of a connection, open while buf is to be
\* written to it; there is no inner loop but that of the edge-triggered server.
InHand ==
    /\ variant \in {"select", "level", "edge"}
    /\ pc = "drain" => variant = "edge" /\ cur \in Fds
    /\ pc = "write" => cur \in Fds /\ file[cur] # None /\ buf # <<>>

\* Every connection is edge triggered in the edge-triggered server and none in
\* the others; in the former, input has an edge or an event or is in hand.
Edges ==
    /\ armed = IF variant = "edge" THEN {f \in Fds : file[f] # None} ELSE {}
    /\ variant = "edge" =>
          \A f \in Fds : Readable(f) =>
             f \in edges \cup events \/ (pc # "loop" /\ f = cur)

IInv == WatchedOpen /\ Descriptors /\ Stream /\ InHand /\ Edges /\ NeverBlocks

-----------------------------------------------------------------------------
\* Runs of bytes under the operations on sequences.
LEMMA RunAppend ==
  ASSUME NEW S, NEW s \in Seq(S), NEW c, NEW k \in Nat, Run(c, s, k),
         <<c, k + Len(s) + 1>> \in S
  PROVE  Run(c, Append(s, <<c, k + Len(s) + 1>>), k)
  <1> DEFINE e == <<c, k + Len(s) + 1>>
  <1>1. /\ Len(s) \in Nat /\ Len(Append(s, e)) = Len(s) + 1
        /\ \A i \in 1..Len(s) : Append(s, e)[i] = s[i]
        /\ Append(s, e)[Len(s) + 1] = e
    BY AppendProperties
  <1>2. e = <<c, k + (Len(s) + 1)>>
    BY <1>1
  <1> HIDE DEF e
  <1>3. \A i \in 1..(Len(s) + 1) : i \in 1..Len(s) \/ i = Len(s) + 1
    BY <1>1
  <1> QED
    BY <1>1, <1>2, <1>3 DEF Run, e

LEMMA RunConcat ==
  ASSUME NEW S, NEW s \in Seq(S), NEW t \in Seq(S), NEW c,
         Run(c, s, 0), Run(c, t, Len(s))
  PROVE  Run(c, s \o t, 0)
  BY ConcatProperties DEF Run

LEMMA RunSplit ==
  ASSUME NEW S, NEW s \in Seq(S), NEW c, NEW k \in Nat, Run(c, s, k),
         NEW n \in 0..Len(s)
  PROVE  /\ SubSeq(s, 1, n) \in Seq(S) /\ SubSeq(s, n + 1, Len(s)) \in Seq(S)
         /\ Len(SubSeq(s, 1, n)) = n /\ Len(SubSeq(s, n + 1, Len(s))) = Len(s) - n
         /\ Run(c, SubSeq(s, 1, n), k) /\ Run(c, SubSeq(s, n + 1, Len(s)), k + n)
  <1>1. Len(s) \in Nat /\ n \in Int /\ \A i \in 1..Len(s) : s[i] \in S
    BY ElementOfSeq
  <1>2. /\ SubSeq(s, 1, n) \in Seq(S) /\ Len(SubSeq(s, 1, n)) = n
        /\ \A i \in 1..n : SubSeq(s, 1, n)[i] = s[i]
    BY <1>1, SubSeqProperties
  <1>3. /\ SubSeq(s, n + 1, Len(s)) \in Seq(S)
        /\ Len(SubSeq(s, n + 1, Len(s))) = Len(s) - n
        /\ \A i \in 1..(Len(s) - n) : SubSeq(s, n + 1, Len(s))[i] = s[n + i]
    <2>1. \A i \in (n + 1)..Len(s) : s[i] \in S
      BY <1>1
    <2>2. \A i \in 1..(Len(s) - (n + 1) + 1) : (n + 1) + i - 1 = n + i
      BY <1>1
    <2> QED
      BY <1>1, <2>1, <2>2, SubSeqProperties
  <1> QED
    BY <1>1, <1>2, <1>3 DEF Run

-----------------------------------------------------------------------------
\* With a connection waiting, a descriptor is free: each open one has a client of
\* its own, and there are as many as clients.  accept returns the lowest.
LEMMA DescriptorIsFree ==
  ASSUME IInv, Pending # {}
  PROVE  LowestFree \in Fds /\ file[LowestFree] = None
  <1>1. PICK c \in Clients : conn[c] = "backlog"
    BY DEF Pending
  <1>2. /\ file \in [Fds -> Clients \cup {None}] /\ None \notin Clients
        /\ IsFiniteSet(Clients) /\ MaxFd \in Nat /\ Cardinality(Clients) <= MaxFd
    BY SocketAssumption DEF IInv, WatchedOpen, SocketsTyped
  <1>3. \E f \in Fds : file[f] = None
    <2> SUFFICES ASSUME \A f \in Fds : file[f] # None PROVE FALSE
      OBVIOUS
    <2>1. file \in Injection(Fds, Clients \ {c})
      BY <1>1, <1>2 DEF IInv, Descriptors, Injection, IsInjective
    <2>2. /\ IsFiniteSet(Clients \ {c}) /\ Cardinality(Clients) \in Nat
          /\ Cardinality(Clients \ {c}) = Cardinality(Clients) - 1
      BY <1>2, FS_RemoveElement, FS_CardinalityType
    <2>3. Cardinality(Fds) <= Cardinality(Clients \ {c})
      BY <2>1, <2>2, FS_Injection
    <2>4. Cardinality(Fds) = MaxFd
      <3>1. Cardinality(1..MaxFd) = IF 1 > MaxFd THEN 0 ELSE MaxFd - 1 + 1
        BY <1>2, FS_Interval
      <3> QED
        BY <1>2, <3>1 DEF Fds
    <2> QED
      BY <1>2, <2>2, <2>3, <2>4
  <1> DEFINE Free == {f \in Fds : file[f] = None}
  <1>4. PICK f \in Free : \A g \in Free : f <= g
    <2>1. Free \in SUBSET Nat /\ Free # {}
      BY <1>2, <1>3 DEF Fds
    <2> HIDE DEF Free
    <2> QED
      BY <2>1, LeastElement
  <1>5. \A g \in 1..(f - 1) : file[g] # None
    BY <1>2, <1>4 DEF Fds
  <1> QED
    BY <1>4, <1>5 DEF LowestFree

-----------------------------------------------------------------------------
\* The clients.  What is readable stays readable, and what becomes readable has
\* an edge; a byte sent joins the end of its stream.
LEMMA ConnectStep ==
  ASSUME IInv, NEW c \in Clients, Connect(c), UNCHANGED <<fd_max, variant>>
  PROVE  IInv'
  <1>1. /\ conn[c] = "none" /\ conn' = [conn EXCEPT ![c] = "backlog"]
        /\ UNCHANGED <<sent, inbuf, got, unread, fin, left, rst, lost, alive, file,
                       watched,
                       armed, edges, pc, events, cur, buf, fd_max, variant>>
    BY DEF Connect, outVars, kernelVars, serverVars
  <1>2. SocketsTyped
    BY DEF IInv, WatchedOpen
  <1>3. WatchedOpen'
    BY <1>1 DEF IInv, WatchedOpen, SocketsTyped
  <1>4. Descriptors'
    BY <1>1, <1>2 DEF IInv, Descriptors, SocketsTyped
  <1>5. Stream' /\ InHand'
    BY <1>1 DEF IInv, Stream, Held, InHand
  <1>6. \A f \in Fds \cup {Listener} : Readable(f) => Readable(f)'
    BY <1>1, <1>2 DEF Readable, Pending, SocketsTyped
  <1>7. \A f \in Fds : Readable(f)' => Readable(f)
    BY <1>1 DEF Readable, Fds, Listener
  <1>8. Edges' /\ NeverBlocks'
    BY <1>1, <1>2, <1>6, <1>7 DEF IInv, Edges, NeverBlocks, SocketsTyped
  <1> QED
    BY <1>3, <1>4, <1>5, <1>8 DEF IInv

LEMMA SendStep ==
  ASSUME IInv, NEW c \in Clients, Send(c), UNCHANGED <<fd_max, variant>>
  PROVE  IInv'
  <1> DEFINE b == <<c, sent[c] + 1>>
  <1>1. /\ c \notin fin /\ sent[c] < MaxSend
        /\ sent' = [sent EXCEPT ![c] = @ + 1]
        /\ inbuf' = [inbuf EXCEPT ![c] = Append(@, b)]
        /\ edges' = edges \cup {f \in armed : file[f] = c}
        /\ UNCHANGED <<conn, got, unread, fin, left, rst, lost, alive, file, watched,
                       armed, pc, events, cur, buf, fd_max, variant>>
    BY DEF Send, outVars, Arrival, serverVars
  <1>2. SocketsTyped /\ MaxSend \in Nat
    BY SocketAssumption DEF IInv, WatchedOpen
  <1>3. b \in AllBytes /\ inbuf[c] \in Seq(AllBytes) /\ sent[c] \in Nat
    BY <1>1, <1>2 DEF SocketsTyped, AllBytes
  <1>4. /\ Append(inbuf[c], b) \in Seq(AllBytes) /\ Append(inbuf[c], b) # <<>>
        /\ Len(Append(inbuf[c], b)) = Len(inbuf[c]) + 1 /\ Len(inbuf[c]) \in Nat
    BY <1>3, AppendProperties
  <1>5. SocketsTyped'
    BY <1>1, <1>2, <1>4 DEF SocketsTyped
  <1>6. WatchedOpen' /\ Descriptors' /\ InHand'
    BY <1>1, <1>5 DEF IInv, WatchedOpen, Descriptors, InHand
  <1>7. \A d \in Clients : Held(d)' = Held(d)
    BY <1>1 DEF Held
  <1>8. Stream'
    <2> SUFFICES ASSUME NEW d \in Clients
                 PROVE  /\ Run(d, got'[d], 0) /\ Len(got'[d]) <= sent'[d]
                        /\ d \notin left \cup lost =>
                              /\ Run(d, Held(d), Len(got[d]))
                              /\ Run(d, inbuf'[d], Len(got[d]) + Len(Held(d)))
                              /\ Len(got[d]) + Len(Held(d)) + Len(inbuf'[d]) = sent'[d]
      BY <1>1, <1>7 DEF Stream
    <2>1. CASE d # c
      BY <1>1, <1>2, <2>1 DEF IInv, Stream, SocketsTyped
    <2>2. CASE d = c /\ c \notin lost
      <3>1. /\ Len(got[c]) \in Nat /\ Len(Held(c)) \in Nat
            /\ inbuf'[c] = Append(inbuf[c], b) /\ sent'[c] = sent[c] + 1
            /\ c \notin left
        BY <1>1, <1>2 DEF IInv, Descriptors, SocketsTyped, Held
      <3>2. /\ Run(c, inbuf[c], Len(got[c]) + Len(Held(c)))
            /\ Len(got[c]) + Len(Held(c)) + Len(inbuf[c]) = sent[c]
        BY <2>2, <3>1 DEF IInv, Stream
      <3>3. Run(c, inbuf'[c], Len(got[c]) + Len(Held(c)))
        <4>1. b = <<c, (Len(got[c]) + Len(Held(c))) + Len(inbuf[c]) + 1>>
          BY <3>1, <3>2, <1>4
        <4>2. Len(got[c]) + Len(Held(c)) \in Nat
          BY <3>1
        <4> HIDE DEF b
        <4> QED
          BY <1>3, <3>1, <3>2, <4>1, <4>2, RunAppend
      <3>4. Len(inbuf'[c]) = Len(inbuf[c]) + 1
        BY <1>4, <3>1
      <3>5. /\ Run(c, got'[c], 0) /\ Len(got'[c]) <= sent[c]
            /\ Run(c, Held(c), Len(got[c]))
        BY <1>1, <2>2, <3>1 DEF IInv, Stream
      <3>6. Len(got'[c]) <= sent'[c] /\ Len(got[c]) + Len(Held(c)) + Len(inbuf'[c]) = sent'[c]
        <4>1. Len(got'[c]) \in Nat /\ sent[c] \in Nat /\ Len(inbuf[c]) \in Nat
          BY <1>1, <1>3, <3>1
        <4> DEFINE g == Len(got[c])  h == Len(Held(c))  n == Len(inbuf[c])
        <4>2. g \in Nat /\ h \in Nat /\ n \in Nat /\ g + h + n = sent[c] /\ sent[c] \in Nat
          BY <3>1, <3>2, <4>1
        <4>3. Len(got'[c]) = g /\ g <= sent[c]
          BY <1>1, <3>5
        <4>4. Len(inbuf'[c]) = n + 1
          BY <3>4
        <4>5. sent'[c] = sent[c] + 1
          BY <3>1
        <4> HIDE DEF g, h, n
        <4>6. Len(got'[c]) <= sent'[c] /\ g + h + Len(inbuf'[c]) = sent'[c]
          BY <4>2, <4>3, <4>4, <4>5
        <4> QED
          BY <4>6 DEF g, h
      <3> QED
        BY <2>2, <3>3, <3>5, <3>6
    <2>3. CASE d = c /\ c \in lost
      <3> DEFINE g == Len(got[c])
      <3>1. g \in Nat /\ g <= sent[c] /\ Run(c, got[c], 0)
        BY <1>2 DEF IInv, Stream, SocketsTyped
      <3>2. got'[c] = got[c] /\ sent'[c] = sent[c] + 1
        BY <1>1, <1>2 DEF SocketsTyped
      <3> HIDE DEF g
      <3>3. g <= sent'[c]
        BY <1>3, <3>1, <3>2
      <3> QED
        BY <2>3, <3>1, <3>2, <3>3 DEF g
    <2> QED
      BY <2>1, <2>2, <2>3
  <1>9. \A f \in Fds \cup {Listener} :
           /\ Readable(f) => Readable(f)'
           /\ f \in Fds /\ Readable(f)' => Readable(f) \/ file[f] = c
    BY <1>1, <1>2, <1>4 DEF Readable, Pending, SocketsTyped, Fds, Listener
  <1>10. Edges' /\ NeverBlocks'
    <2>1. NeverBlocks'
      BY <1>1, <1>2, <1>9 DEF IInv, NeverBlocks, SocketsTyped
    <2>2. ASSUME variant = "edge", NEW f \in Fds, Readable(f)'
          PROVE  f \in edges' \cup events' \/ (pc' # "loop" /\ f = cur')
      <3>1. CASE Readable(f)
        BY <1>1, <2>2, <3>1 DEF IInv, Edges
      <3>2. CASE file[f] = c
        BY <1>1, <2>2, <3>2, SocketAssumption DEF IInv, Edges
      <3> QED
        BY <1>9, <2>2, <3>1, <3>2
    <2> QED
      BY <1>1, <2>1, <2>2 DEF IInv, Edges
  <1> QED
    BY <1>6, <1>8, <1>10 DEF IInv

\* shutdown, close, and the reset that may come with it.
LEMMA EndStep ==
  ASSUME IInv, NEW c \in Clients, Finish(c) \/ Leave(c), UNCHANGED <<fd_max, variant>>
  PROVE  IInv'
  <1>1. /\ fin' = fin \cup {c} /\ left' \in {left, left \cup {c}}
        /\ rst' = rst \/ (rst' = rst \cup {c} /\ c \in left')
        /\ edges' = edges \cup {f \in armed : file[f] = c}
        /\ UNCHANGED <<conn, sent, inbuf, got, unread, lost, alive, file, watched,
                       armed, pc, events, cur, buf, fd_max, variant>>
    BY DEF Finish, Leave, outVars, Arrival, serverVars
  <1>2. SocketsTyped
    BY DEF IInv, WatchedOpen
  <1>3. SocketsTyped'
    BY <1>1, <1>2 DEF SocketsTyped
  <1>4. WatchedOpen' /\ InHand'
    BY <1>1, <1>3 DEF IInv, WatchedOpen, InHand
  <1>5. Descriptors'
    BY <1>1 DEF IInv, Descriptors
  <1>6. Stream'
    BY <1>1 DEF IInv, Stream, Held
  <1>7. \A f \in Fds \cup {Listener} :
           /\ Readable(f) => Readable(f)'
           /\ f \in Fds /\ Readable(f)' => Readable(f) \/ file[f] = c
    BY <1>1 DEF Readable, Pending, Fds, Listener
  <1>8. Edges' /\ NeverBlocks'
    <2>1. NeverBlocks'
      BY <1>1, <1>2, <1>7 DEF IInv, NeverBlocks, SocketsTyped
    <2>2. ASSUME variant = "edge", NEW f \in Fds, Readable(f)'
          PROVE  f \in edges' \cup events' \/ (pc' # "loop" /\ f = cur')
      <3>1. CASE Readable(f)
        BY <1>1, <2>2, <3>1 DEF IInv, Edges
      <3>2. CASE file[f] = c
        BY <1>1, <2>2, <3>2, SocketAssumption DEF IInv, Edges
      <3> QED
        BY <1>7, <2>2, <3>1, <3>2
    <2> QED
      BY <1>1, <2>1, <2>2 DEF IInv, Edges
  <1> QED
    BY <1>4, <1>5, <1>6, <1>8 DEF IInv

\* What a client has read makes room, and changes nothing else.
LEMMA ReadStep ==
  ASSUME IInv, NEW c \in Clients, Read(c), UNCHANGED <<fd_max, variant>>
  PROVE  IInv'
  <1>1. UNCHANGED <<conn, sent, inbuf, got, fin, left, rst, lost, alive, file, watched,
                    armed, edges, pc, events, cur, buf, fd_max, variant>>
    BY DEF Read, kernelVars, serverVars
  <1>2. unread' \in [Clients -> 0..Room]
    <2>1. unread \in [Clients -> 0..Room] /\ Room \in Nat
      BY SocketAssumption DEF IInv, WatchedOpen, SocketsTyped
    <2> QED
      BY <2>1 DEF Read
  <1>3. WatchedOpen'
    BY <1>1, <1>2 DEF IInv, WatchedOpen, SocketsTyped
  <1> QED
    BY <1>1, <1>3 DEF IInv, Descriptors, Stream, Held, InHand, Edges, NeverBlocks,
                      Readable, Pending

-----------------------------------------------------------------------------
\* What the calls of the server do to the connections, whichever server it is.

\* accept opens a descriptor that no event of the round refers to.
LEMMA AcceptCall ==
  ASSUME IInv, pc = "loop", NEW c \in Pending,
         conn' = [conn EXCEPT ![c] = "open"],
         file' = [file EXCEPT ![LowestFree] = c],
         UNCHANGED <<sent, inbuf, got, unread, fin, left, rst, lost, pc, cur, buf,
                     variant>>
  PROVE  /\ LowestFree \in Fds /\ file[LowestFree] = None /\ file'[LowestFree] = c
         /\ conn' \in [Clients -> {"none", "backlog", "open", "closed"}]
         /\ file' \in [Fds -> Clients \cup {None}] /\ c \in Clients
         /\ \A f \in Fds \ {LowestFree} :
               file'[f] = file[f] /\ (Readable(f)' <=> Readable(f))
         /\ Descriptors' /\ Stream' /\ InHand'
  <1>1. LowestFree \in Fds /\ file[LowestFree] = None
    BY DescriptorIsFree
  <1>2. SocketsTyped /\ c \in Clients /\ conn[c] = "backlog"
    BY DEF IInv, WatchedOpen, Pending
  <1> DEFINE n == LowestFree
  <1> HIDE DEF n
  <1>3. n \in Fds /\ file[n] = None /\ file' = [file EXCEPT ![n] = c]
    BY <1>1 DEF n
  <1>4. /\ file'[n] = c /\ file' \in [Fds -> Clients \cup {None}]
        /\ conn' \in [Clients -> {"none", "backlog", "open", "closed"}]
        /\ \A f \in Fds \ {n} : file'[f] = file[f]
    BY <1>2, <1>3 DEF SocketsTyped
  <1>5. \A f \in Fds \ {n} : Readable(f)' <=> Readable(f)
    BY <1>4 DEF Readable, Fds, Listener
  <1>6. \A f \in Fds : file[f] # c
    BY <1>2, SocketAssumption DEF IInv, Descriptors
  <1>7. Descriptors'
    BY <1>2, <1>4, <1>6 DEF IInv, Descriptors, SocketsTyped
  <1>8. Stream' /\ InHand'
    BY DEF IInv, Stream, InHand, Held
  <1> QED
    BY <1>1, <1>2, <1>4, <1>5, <1>7, <1>8 DEF n

\* A read of data moves the front of what has arrived into buf.
LEMMA ReadCall ==
  ASSUME IInv, pc # "write", NEW f \in Fds, ReadData(f), pc' = "write",
         UNCHANGED <<conn, sent, got, unread, fin, left, rst, lost, file, variant>>
  PROVE  /\ inbuf' \in [Clients -> Seq(AllBytes)] /\ buf' \in Seq(AllBytes)
         /\ cur' = f /\ file[f] # None /\ buf' # <<>>
         /\ \A g \in (Fds \cup {Listener}) \ {f} : Readable(g)' <=> Readable(g)
         /\ Descriptors' /\ Stream'
  <1> DEFINE c == file[f]
             n == IF Len(inbuf[c]) < BufSize THEN Len(inbuf[c]) ELSE BufSize
  <1>1. /\ c # None /\ n > 0 /\ cur' = f
        /\ buf' = SubSeq(inbuf[c], 1, n)
        /\ inbuf' = [inbuf EXCEPT ![c] = SubSeq(@, n + 1, Len(@))]
    BY DEF ReadData
  <1>2. SocketsTyped /\ BufSize \in Nat
    BY SocketAssumption DEF IInv, WatchedOpen
  <1>3. c \in Clients /\ inbuf[c] \in Seq(AllBytes) /\ Len(inbuf[c]) \in Nat
    BY <1>1, <1>2 DEF SocketsTyped
  <1>4. n \in 1..Len(inbuf[c])
    BY <1>1, <1>2, <1>3
  <1> HIDE DEF n, c
  <1>5. /\ buf' \in Seq(AllBytes) /\ Len(buf') = n /\ buf' # <<>>
        /\ SubSeq(inbuf[c], n + 1, Len(inbuf[c])) \in Seq(AllBytes)
        /\ Len(SubSeq(inbuf[c], n + 1, Len(inbuf[c]))) = Len(inbuf[c]) - n
    <2>1. \A i \in 1..Len(inbuf[c]) : inbuf[c][i] \in AllBytes
      BY <1>3, ElementOfSeq
    <2>2. n \in Int /\ n + 1 \in Int /\ Len(inbuf[c]) \in Int /\ 1 \in Int
      BY <1>3, <1>4
    <2>3. buf' \in Seq(AllBytes) /\ Len(buf') = n
      <3>1. \A i \in 1..n : inbuf[c][i] \in AllBytes
        BY <1>3, <1>4, <2>1
      <3>2. Len(SubSeq(inbuf[c], 1, n)) = IF 1 <= n THEN n - 1 + 1 ELSE 0
        BY <2>2, <3>1, SubSeqProperties
      <3>3. SubSeq(inbuf[c], 1, n) \in Seq(AllBytes)
        BY <2>2, <3>1, SubSeqProperties
      <3> QED
        BY <1>1, <1>4, <3>2, <3>3
    <2>4. /\ SubSeq(inbuf[c], n + 1, Len(inbuf[c])) \in Seq(AllBytes)
          /\ Len(SubSeq(inbuf[c], n + 1, Len(inbuf[c]))) = Len(inbuf[c]) - n
      <3>1. \A i \in (n + 1)..Len(inbuf[c]) : inbuf[c][i] \in AllBytes
        BY <1>3, <1>4, <2>1
      <3>2. Len(SubSeq(inbuf[c], n + 1, Len(inbuf[c])))
               = IF n + 1 <= Len(inbuf[c]) THEN Len(inbuf[c]) - (n + 1) + 1 ELSE 0
        BY <2>2, <3>1, SubSeqProperties
      <3>3. SubSeq(inbuf[c], n + 1, Len(inbuf[c])) \in Seq(AllBytes)
        BY <2>2, <3>1, SubSeqProperties
      <3> QED
        BY <1>3, <1>4, <3>2, <3>3
    <2>5. buf' # <<>>
      BY <1>4, <2>3, EmptySeq
    <2> QED
      BY <2>3, <2>4, <2>5
  <1>6. inbuf' \in [Clients -> Seq(AllBytes)] /\ \A d \in Clients \ {c} : inbuf'[d] = inbuf[d]
    BY <1>1, <1>2, <1>3, <1>5 DEF SocketsTyped
  <1>7. \A g \in Fds \ {f} : file[g] # None => file[g] \in Clients \ {c}
    BY <1>1, <1>2 DEF IInv, Descriptors, SocketsTyped, c
  <1>8. \A g \in (Fds \cup {Listener}) \ {f} : Readable(g)' <=> Readable(g)
    BY <1>6, <1>7 DEF Readable, Pending
  <1>9. Descriptors'
    BY DEF IInv, Descriptors
  <1>10. /\ \A d \in Clients : Held(d) = <<>>
         /\ Held(c)' = buf' /\ \A d \in Clients \ {c} : Held(d)' = <<>>
    BY <1>1 DEF Held, c
  <1>11. ASSUME NEW d \in Clients, d # c
         PROVE  /\ Run(d, got'[d], 0) /\ Len(got'[d]) <= sent'[d]
                /\ d \notin left' \cup lost' =>
                      /\ Run(d, Held(d)', Len(got'[d]))
                      /\ Run(d, inbuf'[d], Len(got'[d]) + Len(Held(d)'))
                      /\ Len(got'[d]) + Len(Held(d)') + Len(inbuf'[d]) = sent'[d]
    BY <1>6, <1>10, <1>11 DEF IInv, Stream
  <1>12. /\ Run(c, got'[c], 0) /\ Len(got'[c]) <= sent'[c]
         /\ c \notin left' \cup lost' =>
               /\ Run(c, buf', Len(got'[c]))
               /\ Run(c, inbuf'[c], Len(got'[c]) + Len(buf'))
               /\ Len(got'[c]) + Len(buf') + Len(inbuf'[c]) = sent'[c]
    <2>1. Run(c, got'[c], 0) /\ Len(got'[c]) <= sent'[c]
      BY <1>3 DEF IInv, Stream
    <2>2. ASSUME c \notin left \cup lost
          PROVE  /\ Run(c, buf', Len(got[c]))
                 /\ Run(c, inbuf'[c], Len(got[c]) + n)
                 /\ Len(got[c]) + n + Len(inbuf'[c]) = sent[c]
      <3>1. /\ Len(<<>>) = 0 /\ Len(got[c]) \in Nat
            /\ inbuf'[c] = SubSeq(inbuf[c], n + 1, Len(inbuf[c]))
        <4>1. inbuf'[c] = SubSeq(inbuf[c], n + 1, Len(inbuf[c]))
          BY <1>1, <1>2, <1>3 DEF SocketsTyped
        <4>2. got[c] \in Seq(AllBytes)
          BY <1>2, <1>3 DEF SocketsTyped
        <4> QED
          BY <4>1, <4>2, LenProperties, EmptySeq
      <3>2. Run(c, inbuf[c], Len(got[c])) /\ Len(got[c]) + Len(inbuf[c]) = sent[c]
        <4>1. /\ Run(c, inbuf[c], Len(got[c]) + Len(<<>>))
              /\ Len(got[c]) + Len(<<>>) + Len(inbuf[c]) = sent[c]
          BY <1>3, <1>10, <2>2 DEF IInv, Stream
        <4>2. Len(got[c]) + Len(<<>>) = Len(got[c])
          BY <3>1
        <4> QED
          BY <4>1, <4>2
      <3>3. Run(c, SubSeq(inbuf[c], 1, n), Len(got[c]))
            /\ Run(c, SubSeq(inbuf[c], n + 1, Len(inbuf[c])), Len(got[c]) + n)
        BY <1>3, <1>4, <3>1, <3>2, RunSplit
      <3> DEFINE g == Len(got[c])  m == Len(inbuf[c])
      <3>4. g \in Nat /\ m \in Nat /\ n \in 1..m /\ g + m = sent[c]
            /\ Len(inbuf'[c]) = m - n
        BY <1>3, <1>4, <1>5, <3>1, <3>2
      <3> HIDE DEF g, m
      <3>5. g + n + Len(inbuf'[c]) = sent[c]
        BY <3>4
      <3> QED
        BY <1>1, <3>1, <3>3, <3>5 DEF g
    <2> QED
      BY <1>5, <2>1, <2>2
  <1>13. Stream'
    <2> SUFFICES ASSUME NEW d \in Clients
                 PROVE  /\ Run(d, got'[d], 0) /\ Len(got'[d]) <= sent'[d]
                        /\ d \notin left' \cup lost' =>
                              /\ Run(d, Held(d)', Len(got'[d]))
                              /\ Run(d, inbuf'[d], Len(got'[d]) + Len(Held(d)'))
                              /\ Len(got'[d]) + Len(Held(d)') + Len(inbuf'[d]) = sent'[d]
      BY DEF Stream
    <2>1. CASE d = c
      <3>1. Held(d)' = buf'
        BY <1>1, <2>1 DEF Held, c
      <3> QED
        BY <1>12, <2>1, <3>1
    <2>2. CASE d # c
      BY <1>11, <2>2
    <2> QED
      BY <2>1, <2>2
  <1> QED
    BY <1>1, <1>5, <1>6, <1>8, <1>9, <1>13 DEF c

\* close: the descriptor is free, and nothing else changes.
LEMMA CloseCall ==
  ASSUME IInv, pc # "write", NEW f \in Fds, file[f] # None,
         conn' = [conn EXCEPT ![file[f]] = "closed"],
         file' = [file EXCEPT ![f] = None],
         UNCHANGED <<sent, inbuf, got, unread, fin, left, rst, lost, pc, cur, buf,
                     variant>>
  PROVE  /\ conn' \in [Clients -> {"none", "backlog", "open", "closed"}]
         /\ file' \in [Fds -> Clients \cup {None}] /\ file'[f] = None
         /\ \A g \in Fds \ {f} : file'[g] = file[g]
         /\ \A g \in (Fds \cup {Listener}) \ {f} : Readable(g)' <=> Readable(g)
         /\ Descriptors' /\ Stream' /\ InHand'
  <1>1. SocketsTyped /\ file[f] \in Clients /\ None \notin Clients /\ conn[file[f]] = "open"
    BY SocketAssumption DEF IInv, WatchedOpen, SocketsTyped, Descriptors
  <1>2. /\ conn' \in [Clients -> {"none", "backlog", "open", "closed"}]
        /\ file' \in [Fds -> Clients \cup {None}] /\ file'[f] = None
        /\ \A g \in Fds \ {f} : file'[g] = file[g]
    BY <1>1 DEF SocketsTyped
  <1>3. Pending' = Pending
    BY <1>1 DEF Pending, SocketsTyped
  <1>4. \A g \in (Fds \cup {Listener}) \ {f} : Readable(g)' <=> Readable(g)
    BY <1>2, <1>3 DEF Readable
  <1>5. Descriptors'
    BY <1>1, <1>2 DEF IInv, Descriptors, SocketsTyped
  <1>6. Stream' /\ InHand'
    BY DEF IInv, Stream, InHand, Held
  <1> QED
    BY <1>2, <1>4, <1>5, <1>6

\* The reset is reported once; what else there is to read is not touched.
LEMMA ResetCall ==
  ASSUME IInv, NEW f \in Fds, ReadReset(f),
         UNCHANGED <<conn, sent, inbuf, got, unread, fin, left, lost, file, pc, cur,
                     buf, variant>>
  PROVE  /\ rst' \subseteq Clients
         /\ \A g \in (Fds \cup {Listener}) \ {f} : Readable(g)' <=> Readable(g)
         /\ Descriptors' /\ Stream' /\ InHand'
  <1>1. /\ file[f] # None /\ rst' = rst \ {file[f]} /\ SocketsTyped
        /\ \A g \in Fds \ {f} : file[g] # file[f]
    BY DEF IInv, WatchedOpen, Descriptors, ReadReset
  <1> QED
    BY <1>1 DEF IInv, Readable, Pending, Descriptors, Stream, InHand, Held, SocketsTyped

\* write takes what is left of buf or what there is room for.
LEMMA WrittenFits ==
  ASSUME SocketsTyped, file[cur] \in Clients
  PROVE  Written \in 0..Len(buf) /\ unread[file[cur]] + Written \in 0..Room
  <1>1. unread[file[cur]] \in 0..Room /\ Room \in Nat /\ Len(buf) \in Nat
    BY SocketAssumption DEF SocketsTyped
  <1> DEFINE l == Len(buf)  u == unread[file[cur]]
  <1>2. l \in Nat /\ u \in 0..Room /\ Written = IF l < Room - u THEN l ELSE Room - u
    BY <1>1 DEF Written
  <1> HIDE DEF l, u
  <1>3. Written \in 0..l /\ u + Written \in 0..Room
    BY <1>1, <1>2
  <1> QED
    BY <1>3 DEF l, u

\* write returns the front of buf, if the client is still there, and what it does
\* not take stays in buf or is dropped.
LEMMA WriteCall ==
  ASSUME IInv, pc = "write", WriteAll \/ WriteSome, pc' = "write" <=> buf' # <<>>,
         UNCHANGED <<conn, sent, inbuf, fin, left, rst, file, cur>>
  PROVE  /\ got' \in [Clients -> Seq(AllBytes)] /\ alive' \in BOOLEAN
         /\ unread' \in [Clients -> 0..Room] /\ lost' \subseteq Clients
         /\ buf' \in Seq(AllBytes)
         /\ \A g \in Fds \cup {Listener} : Readable(g)' <=> Readable(g)
         /\ Descriptors' /\ Stream'
         /\ [Echo!Next]_<<sent, got>>
  <1> DEFINE c == file[cur]
             n == Written
             part == SubSeq(buf, 1, n)
             rest == SubSeq(buf, n + 1, Len(buf))
  <1>1. SocketsTyped /\ c \in Clients /\ buf # <<>> /\ buf \in Seq(AllBytes)
        /\ got[c] \in Seq(AllBytes)
    BY DEF IInv, WatchedOpen, SocketsTyped, InHand
  <1>2. /\ Held(c) = buf /\ Held(c)' = buf'
        /\ \A d \in Clients \ {c} : Held(d) = <<>> /\ Held(d)' = <<>>
    BY DEF Held
  <1>3. \A g \in Fds \cup {Listener} : Readable(g)' <=> Readable(g)
    BY DEF Readable, Pending
  <1>4. Descriptors'
    BY DEF IInv, Descriptors
  <1>5. n \in 0..Len(buf) /\ unread[c] + n \in 0..Room
    BY <1>1, WrittenFits
  <1>6. \/ /\ c \in left /\ alive' \in BOOLEAN /\ buf' = <<>>
           /\ got' = got /\ unread' = unread /\ lost' = lost
        \/ /\ c \notin left /\ alive' = alive
           /\ unread' = [unread EXCEPT ![c] = @ + n]
           /\ got' = IF c \in lost THEN got ELSE [got EXCEPT ![c] = @ \o part]
           /\ \/ lost' = lost /\ buf' = rest
              \/ buf' = <<>> /\ IF n < Len(buf) THEN lost' = lost \cup {c} ELSE lost' = lost
    BY DEF WriteAll, WriteSome, WriteInVain, Return, outVars
  <1> HIDE DEF n, c
  <1>7. /\ part \in Seq(AllBytes) /\ Len(part) = n
        /\ rest \in Seq(AllBytes) /\ Len(rest) = Len(buf) - n
        /\ \A k \in Nat : Run(c, buf, k) => Run(c, part, k) /\ Run(c, rest, k + n)
    <2>1. \A i \in 1..Len(buf) : buf[i] \in AllBytes
      BY <1>1, ElementOfSeq
    <2>2. n \in Int /\ n + 1 \in Int /\ Len(buf) \in Int /\ 1 \in Int /\ Len(buf) \in Nat
      BY <1>1, <1>5
    <2>3. part \in Seq(AllBytes) /\ Len(part) = n
      <3>1. \A i \in 1..n : buf[i] \in AllBytes
        BY <1>5, <2>1, <2>2
      <3>2. part \in Seq(AllBytes) /\ Len(part) = IF 1 <= n THEN n - 1 + 1 ELSE 0
        BY <2>2, <3>1, SubSeqProperties
      <3> QED
        BY <1>5, <2>2, <3>2
    <2>4. rest \in Seq(AllBytes) /\ Len(rest) = Len(buf) - n
      <3>1. \A i \in (n + 1)..Len(buf) : buf[i] \in AllBytes
        BY <1>5, <2>1, <2>2
      <3>2. rest \in Seq(AllBytes)
            /\ Len(rest) = IF n + 1 <= Len(buf) THEN Len(buf) - (n + 1) + 1 ELSE 0
        BY <2>2, <3>1, SubSeqProperties
      <3> QED
        BY <1>5, <2>2, <3>2
    <2> QED
      BY <1>1, <1>5, <2>3, <2>4, RunSplit
  <1> HIDE DEF part, rest
  <1>8. /\ alive' \in BOOLEAN /\ lost' \subseteq Clients /\ lost \subseteq lost'
        /\ \A d \in Clients \ {c} : d \in lost' => d \in lost
    BY <1>1, <1>6 DEF SocketsTyped
  <1>9. unread' \in [Clients -> 0..Room]
    BY <1>1, <1>5, <1>6 DEF SocketsTyped
  <1>10. buf' \in Seq(AllBytes)
    BY <1>6, <1>7, EmptySeq
  <1>11. \A d \in Clients \ {c} :
           /\ Run(d, got[d], 0) /\ Len(got[d]) <= sent[d]
           /\ d \notin left \cup lost' =>
                 /\ Run(d, <<>>, Len(got[d]))
                 /\ Run(d, inbuf[d], Len(got[d]) + Len(<<>>))
                 /\ Len(got[d]) + Len(<<>>) + Len(inbuf[d]) = sent[d]
    BY <1>2, <1>8 DEF IInv, Stream
  <1>12. CASE c \in left \cup lost
    <2>1. got' = got
      BY <1>6, <1>12
    <2>2. Run(c, got[c], 0) /\ Len(got[c]) <= sent[c]
      BY <1>1 DEF IInv, Stream
    <2>3. Stream'
      BY <1>2, <1>8, <1>11, <1>12, <2>1, <2>2 DEF Stream
    <2> QED
      BY <1>1, <1>3, <1>4, <1>8, <1>9, <1>10, <2>1, <2>3 DEF SocketsTyped
  <1>13. CASE c \notin left \cup lost
    <2> DEFINE new == got[c] \o part
               g == Len(got[c])  h == Len(buf)  m == Len(inbuf[c])
    <2>1. got' = [got EXCEPT ![c] = new]
      BY <1>6, <1>13
    <2>2. /\ Run(c, got[c], 0) /\ Run(c, buf, g) /\ Run(c, inbuf[c], g + h)
          /\ g + h + m = sent[c]
      BY <1>1, <1>2, <1>13 DEF IInv, Stream
    <2>3. new \in Seq(AllBytes) /\ Len(new) = g + n /\ g \in Nat /\ h \in Nat /\ m \in Nat
      <3>1. new \in Seq(AllBytes) /\ Len(new) = g + n
        BY <1>1, <1>7, ConcatProperties
      <3>2. inbuf[c] \in Seq(AllBytes)
        BY <1>1 DEF SocketsTyped
      <3> QED
        BY <1>1, <3>1, <3>2, LenProperties
    <2>4. Run(c, part, g) /\ Run(c, rest, g + n) /\ Len(rest) = h - n /\ n \in 0..h
      BY <1>5, <1>7, <2>2, <2>3
    <2>5. Run(c, new, 0)
      BY <1>1, <1>7, <2>2, <2>4, RunConcat
    <2>6. got[c] = new \/ n > 0
      <3> SUFFICES ASSUME n = 0 PROVE new = got[c]
        BY <1>5, <2>3
      <3>1. part = <<>>
        BY <1>7, EmptySeq
      <3> QED
        BY <1>1, <3>1, ConcatEmptySeq
    <2> HIDE DEF new, g, h
    <2>7. new = [i \in 1..(g + n) |-> <<c, i>>]
      <3>1. new \in [1..(g + n) -> AllBytes]
        BY <2>3, LenProperties
      <3>2. \A i \in 1..Len(new) : new[i] = <<c, 0 + i>>
        BY <2>5 DEF Run
      <3>3. \A i \in 1..(g + n) : 0 + i = i
        BY <2>3, <2>4
      <3> QED
        BY <2>3, <3>1, <3>2, <3>3
    <2> HIDE DEF m
    <2>8. n > 0 => g + n \in (g + 1)..sent[c]
      BY <2>2, <2>3, <2>4
    <2>9. [Echo!Next]_<<sent, got>>
      <3>1. CASE n > 0
        <4>1. got' = [got EXCEPT ![c] = Echo!Bytes(c, g + n)]
          BY <2>1, <2>7 DEF Echo!Bytes
        <4>2. Echo!Return(c)
          BY <2>8, <3>1, <4>1 DEF Echo!Return, g
        <4> QED
          BY <1>1, <4>2 DEF Echo!Next
      <3>2. CASE ~(n > 0)
        <4>1. got' = got
          BY <1>1, <2>1, <2>6, <3>2 DEF SocketsTyped
        <4> QED
          BY <4>1
      <3> QED
        BY <3>1, <3>2
    <2>10. got' \in [Clients -> Seq(AllBytes)] /\ got'[c] = new
          /\ \A d \in Clients \ {c} : got'[d] = got[d]
      BY <1>1, <2>1, <2>3 DEF SocketsTyped
    <2>11. Run(c, got'[c], 0) /\ Len(got'[c]) <= sent[c]
      BY <2>2, <2>3, <2>4, <2>5, <2>10
    <2>12. ASSUME c \notin left \cup lost'
           PROVE  /\ Run(c, buf', Len(got'[c]))
                  /\ Run(c, inbuf[c], Len(got'[c]) + Len(buf'))
                  /\ Len(got'[c]) + Len(buf') + Len(inbuf[c]) = sent[c]
      <3>1. buf' = rest
        <4>1. CASE n < Len(buf)
          BY <1>6, <2>12, <4>1
        <4>2. CASE ~(n < Len(buf))
          <5>1. Len(rest) = 0
            BY <2>3, <2>4, <4>2 DEF h
          <5>2. rest = <<>>
            BY <1>7, <5>1, EmptySeq
          <5> QED
            BY <1>6, <2>12, <5>2
        <4> QED
          BY <4>1, <4>2
      <3>2. Len(got'[c]) = g + n /\ Len(buf') = h - n
        BY <2>3, <2>4, <2>10, <3>1
      <3>3. (g + n) + (h - n) = g + h /\ (g + n) + (h - n) + m = sent[c]
        BY <2>2, <2>3, <2>4
      <3> QED
        BY <2>2, <2>4, <3>1, <3>2, <3>3 DEF m
    <2>13. Stream'
      <3> SUFFICES ASSUME NEW d \in Clients
                   PROVE  /\ Run(d, got'[d], 0) /\ Len(got'[d]) <= sent[d]
                          /\ d \notin left \cup lost' =>
                                /\ Run(d, Held(d)', Len(got'[d]))
                                /\ Run(d, inbuf[d], Len(got'[d]) + Len(Held(d)'))
                                /\ Len(got'[d]) + Len(Held(d)') + Len(inbuf[d]) = sent[d]
        BY DEF Stream
      <3>1. CASE d # c
        <4>1. Held(d)' = <<>> /\ got'[d] = got[d]
          BY <1>2, <2>10, <3>1
        <4> QED
          BY <1>11, <3>1, <4>1
      <3>2. CASE d = c
        <4>1. Held(d)' = buf'
          BY <3>2 DEF Held, c
        <4> QED
          BY <2>11, <2>12, <3>2, <4>1
      <3> QED
        BY <3>1, <3>2
    <2> QED
      BY <1>3, <1>4, <1>8, <1>9, <1>10, <2>9, <2>10, <2>13
  <1> QED
    BY <1>12, <1>13

-----------------------------------------------------------------------------
\* A round of select or of level-triggered epoll: the two differ in the order of
\* the events and in fd_max, which the invariant does not depend on.

LEMMA RoundWait ==
  ASSUME IInv, variant # "edge", pc = "loop",
         events' \subseteq {f \in watched : Readable(f)},
         UNCHANGED <<netVars, alive, file, kernelVars, pc, cur, buf, fd_max, variant>>
  PROVE  IInv'
  <1>1. UNCHANGED <<conn, sent, inbuf, got, unread, fin, left, rst, lost, alive, file,
                    watched,
                    armed, edges, pc, cur, buf, fd_max, variant>>
    BY DEF netVars, outVars, kernelVars
  <1>2. WatchedOpen'
    BY <1>1 DEF IInv, WatchedOpen, SocketsTyped
  <1>3. Descriptors' /\ Stream' /\ InHand'
    BY <1>1 DEF IInv, Descriptors, Stream, InHand, Held
  <1>4. Edges' /\ NeverBlocks'
    BY <1>1 DEF IInv, Edges, NeverBlocks, Readable, Pending
  <1> QED
    BY <1>2, <1>3, <1>4 DEF IInv

LEMMA RoundAccept ==
  ASSUME IInv, variant # "edge", pc = "loop", NEW c \in Pending,
         conn' = [conn EXCEPT ![c] = "open"],
         file' = [file EXCEPT ![LowestFree] = c],
         watched' = watched \cup {LowestFree}, events' = events \ {Listener},
         fd_max' \in {fd_max, LowestFree},
         UNCHANGED <<sent, inbuf, got, unread, fin, left, rst, lost, alive, armed, edges,
                     pc, cur, buf, variant>>
  PROVE  IInv'
  <1> DEFINE n == LowestFree
  <1>1. /\ n \in Fds /\ file[n] = None /\ file'[n] = c
        /\ conn' \in [Clients -> {"none", "backlog", "open", "closed"}]
        /\ file' \in [Fds -> Clients \cup {None}] /\ c \in Clients
        /\ \A f \in Fds \ {n} : file'[f] = file[f] /\ (Readable(f)' <=> Readable(f))
        /\ Descriptors' /\ Stream' /\ InHand'
    BY AcceptCall
  <1>2. SocketsTyped /\ None \notin Clients /\ watched' = watched \cup {n}
        /\ fd_max' \in {fd_max, n}
    BY SocketAssumption DEF IInv, WatchedOpen
  <1> HIDE DEF n
  <1>3. SocketsTyped'
    BY <1>1, <1>2 DEF SocketsTyped
  <1>4. WatchedOpen'
    BY <1>1, <1>2, <1>3 DEF IInv, WatchedOpen
  <1>5. events \cap {n} = {} /\ 0 \notin Fds
    BY <1>1 DEF IInv, NeverBlocks, Readable, Fds, Listener
  <1>6. NeverBlocks'
    BY <1>1, <1>2, <1>5 DEF IInv, NeverBlocks, SocketsTyped, Listener
  <1>7. Edges'
    BY DEF IInv, Edges
  <1> QED
    BY <1>1, <1>4, <1>6, <1>7 DEF IInv

LEMMA RoundRead ==
  ASSUME IInv, variant # "edge", pc = "loop", NEW f \in events, f # Listener,
         events' = events \ {f},
         UNCHANGED <<sent, got, unread, fin, left, lost, alive, fd_max, variant>>,
         \/ /\ ReadData(f) /\ pc' = "write"
            /\ UNCHANGED <<conn, rst, file, kernelVars>>
         \/ /\ AtEof(f)
            /\ watched' = watched \ {f} /\ Close(f)
            /\ UNCHANGED <<inbuf, rst, pc, cur, buf>>
         \/ /\ ReadReset(f)
            /\ UNCHANGED <<conn, inbuf, file, kernelVars, pc, cur, buf>>
  PROVE  IInv'
  <1>1. SocketsTyped /\ f \in Fds /\ armed = {} /\ edges = {}
    BY DEF IInv, WatchedOpen, SocketsTyped, Edges
  <1>2. ASSUME \A g \in (Fds \cup {Listener}) \ {f} : Readable(g)' <=> Readable(g)
        PROVE  NeverBlocks'
    BY <1>1, <1>2 DEF IInv, NeverBlocks, SocketsTyped
  <1>3. CASE ReadData(f) /\ pc' = "write" /\ UNCHANGED <<conn, rst, file, kernelVars>>
    <2>1. UNCHANGED <<conn, rst, file, watched, armed, edges>>
      BY <1>3 DEF kernelVars
    <2>2. /\ inbuf' \in [Clients -> Seq(AllBytes)] /\ buf' \in Seq(AllBytes)
          /\ cur' = f /\ file[f] # None /\ buf' # <<>>
          /\ \A g \in (Fds \cup {Listener}) \ {f} : Readable(g)' <=> Readable(g)
          /\ Descriptors' /\ Stream'
      BY <1>1, <1>3, ReadCall
    <2>3. WatchedOpen'
      BY <1>1, <1>3, <2>1, <2>2 DEF IInv, WatchedOpen, SocketsTyped
    <2>4. InHand' /\ Edges'
      BY <1>1, <1>3, <2>1, <2>2 DEF IInv, InHand, Edges
    <2> QED
      BY <1>2, <2>2, <2>3, <2>4 DEF IInv
  <1>4. CASE /\ AtEof(f)
             /\ watched' = watched \ {f} /\ Close(f)
             /\ UNCHANGED <<inbuf, rst, pc, cur, buf>>
    <2>1. /\ file[f] # None /\ armed' = {} /\ edges' = {}
          /\ conn' = [conn EXCEPT ![file[f]] = "closed"]
          /\ file' = [file EXCEPT ![f] = None]
      BY <1>1, <1>4 DEF AtEof, Close
    <2>2. /\ conn' \in [Clients -> {"none", "backlog", "open", "closed"}]
          /\ file' \in [Fds -> Clients \cup {None}] /\ file'[f] = None
          /\ \A g \in Fds \ {f} : file'[g] = file[g]
          /\ \A g \in (Fds \cup {Listener}) \ {f} : Readable(g)' <=> Readable(g)
          /\ Descriptors' /\ Stream' /\ InHand'
      BY <1>1, <1>4, <2>1, CloseCall
    <2>3. SocketsTyped'
      BY <1>1, <1>4, <2>1, <2>2 DEF SocketsTyped
    <2>4. WatchedOpen'
      BY <1>1, <1>4, <2>2, <2>3 DEF IInv, WatchedOpen, Listener
    <2>5. Edges'
      BY <2>1 DEF Edges
    <2> QED
      BY <1>2, <2>2, <2>4, <2>5 DEF IInv
  <1>5. CASE ReadReset(f) /\ UNCHANGED <<conn, inbuf, file, kernelVars, pc, cur, buf>>
    <2>1. UNCHANGED <<conn, inbuf, file, watched, armed, edges, pc, cur, buf>>
      BY <1>5 DEF kernelVars
    <2>2. /\ rst' \subseteq Clients
          /\ \A g \in (Fds \cup {Listener}) \ {f} : Readable(g)' <=> Readable(g)
          /\ Descriptors' /\ Stream' /\ InHand'
      BY <1>1, <1>5, <2>1, ResetCall
    <2>3. WatchedOpen' /\ Edges'
      BY <1>1, <2>1, <2>2 DEF IInv, WatchedOpen, SocketsTyped, Edges
    <2> QED
      BY <1>2, <2>2, <2>3 DEF IInv
  <1> QED
    BY <1>3, <1>4, <1>5

LEMMA RoundWrite ==
  ASSUME IInv, variant # "edge", pc = "write", WriteAll,
         pc' = IF buf' = <<>> THEN "loop" ELSE "write",
         UNCHANGED <<conn, sent, inbuf, fin, left, rst, file, kernelVars, events, cur,
                     fd_max, variant>>
  PROVE  IInv' /\ [Echo!Next]_<<sent, got>>
  <1>1. UNCHANGED <<watched, armed, edges>>
    BY DEF kernelVars
  <1>2. /\ got' \in [Clients -> Seq(AllBytes)] /\ alive' \in BOOLEAN
        /\ unread' \in [Clients -> 0..Room] /\ lost' \subseteq Clients
        /\ buf' \in Seq(AllBytes)
        /\ \A g \in Fds \cup {Listener} : Readable(g)' <=> Readable(g)
        /\ Descriptors' /\ Stream' /\ [Echo!Next]_<<sent, got>>
    BY WriteCall
  <1>3. WatchedOpen' /\ InHand' /\ Edges'
    BY <1>1, <1>2 DEF IInv, WatchedOpen, SocketsTyped, InHand, Edges
  <1>4. NeverBlocks'
    BY <1>2 DEF IInv, WatchedOpen, SocketsTyped, NeverBlocks
  <1> QED
    BY <1>2, <1>3, <1>4 DEF IInv

LEMMA FirstEventIsEvent ==
  ASSUME IInv, events # {}
  PROVE  FirstEvent \in events
  <1>1. events \in SUBSET Nat
    BY SocketAssumption DEF IInv, WatchedOpen, SocketsTyped, Fds, Listener
  <1>2. \E f \in events : \A g \in events : f <= g
    BY <1>1, LeastElement
  <1> QED
    BY <1>2 DEF FirstEvent

LEMMA SelectKeeps ==
  ASSUME IInv, Select, UNCHANGED variant
  PROVE  IInv' /\ [Echo!Next]_<<sent, got>>
  <1>1. variant # "edge"
    BY DEF Select
  <1>2. CASE SelectWait
    <2>1. /\ pc = "loop" /\ events' \subseteq {f \in watched : Readable(f)}
          /\ UNCHANGED <<netVars, alive, file, kernelVars, pc, cur, buf, fd_max>>
      BY <1>2 DEF SelectWait, LoopSet
    <2> QED
      BY <1>1, <2>1, RoundWait DEF netVars, outVars
  <1>3. CASE SelectAccept
    <2>1. PICK c \in Pending : /\ conn' = [conn EXCEPT ![c] = "open"]
                               /\ file' = [file EXCEPT ![LowestFree] = c]
      BY <1>3 DEF SelectAccept
    <2>2. /\ pc = "loop" /\ watched' = watched \cup {LowestFree}
          /\ fd_max' \in {fd_max, LowestFree} /\ events' = events \ {Listener}
          /\ UNCHANGED <<sent, inbuf, got, unread, fin, left, rst, lost, alive, armed,
                         edges, pc, cur, buf>>
      BY <1>3 DEF SelectAccept, Raised, outVars
    <2> QED
      BY <1>1, <2>1, <2>2, RoundAccept
  <1>4. CASE SelectRead
    <2>1. pc = "loop" /\ FirstEvent \in events /\ FirstEvent # Listener
      BY <1>4, FirstEventIsEvent DEF SelectRead
    <2> QED
      BY <1>1, <1>4, <2>1, RoundRead DEF SelectRead, Cleared, outVars
  <1>5. CASE SelectWrite
    BY <1>1, <1>5, RoundWrite DEF SelectWrite
  <1> QED
    BY <1>2, <1>3, <1>4, <1>5 DEF Select, SelectStep

LEMMA LevelKeeps ==
  ASSUME IInv, Level, UNCHANGED variant
  PROVE  IInv' /\ [Echo!Next]_<<sent, got>>
  <1>1. variant # "edge" /\ UNCHANGED fd_max
    BY DEF Level
  <1>2. CASE EpollWait
    <2>1. /\ pc = "loop" /\ events' \subseteq {f \in watched : Readable(f)}
          /\ UNCHANGED <<netVars, alive, file, kernelVars, pc, cur, buf>>
      BY <1>2 DEF EpollWait
    <2> QED
      BY <1>1, <2>1, RoundWait DEF netVars, outVars
  <1>3. CASE EpollAccept
    <2>1. PICK c \in Pending : /\ conn' = [conn EXCEPT ![c] = "open"]
                               /\ file' = [file EXCEPT ![LowestFree] = c]
      BY <1>3 DEF EpollAccept
    <2>2. /\ pc = "loop" /\ watched' = watched \cup {LowestFree}
          /\ fd_max' \in {fd_max, LowestFree} /\ events' = events \ {Listener}
          /\ UNCHANGED <<sent, inbuf, got, unread, fin, left, rst, lost, alive, armed,
                         edges, pc, cur, buf>>
      BY <1>1, <1>3 DEF EpollAccept, Added, outVars
    <2> QED
      BY <1>1, <2>1, <2>2, RoundAccept
  <1>4. CASE EpollRead
    BY <1>1, <1>4, RoundRead DEF EpollRead, outVars
  <1>5. CASE EpollWrite
    BY <1>1, <1>5, RoundWrite DEF EpollWrite
  <1> QED
    BY <1>2, <1>3, <1>4, <1>5 DEF Level, EpollStep

-----------------------------------------------------------------------------
\* The edge-triggered server: an edge becomes an event, an event the descriptor
\* in hand, and the inner loop is left only when there is nothing to read.

LEMMA EdgeWaitStep ==
  ASSUME IInv, variant = "edge", EdgeWait, UNCHANGED <<fd_max, variant>>
  PROVE  IInv'
  <1>1. /\ pc = "loop" /\ events = {} /\ edges' = {}
        /\ events' = edges \cup {f \in {Listener} : Readable(f)}
        /\ UNCHANGED <<conn, sent, inbuf, got, unread, fin, left, rst, lost, alive,
                       file, watched,
                       armed, pc, cur, buf, fd_max, variant>>
    BY DEF EdgeWait, netVars, outVars
  <1>2. WatchedOpen'
    BY <1>1 DEF IInv, WatchedOpen, SocketsTyped
  <1>3. Descriptors' /\ Stream' /\ InHand'
    BY <1>1 DEF IInv, Descriptors, Stream, InHand, Held
  <1>4. \A f \in Fds : Readable(f)' <=> Readable(f)
    BY <1>1 DEF Readable, Pending
  <1>5. Edges' /\ NeverBlocks'
    BY <1>1, <1>4 DEF IInv, Edges, NeverBlocks
  <1> QED
    BY <1>2, <1>3, <1>5 DEF IInv

LEMMA EdgeAcceptStep ==
  ASSUME IInv, variant = "edge", EdgeAccept, UNCHANGED <<fd_max, variant>>
  PROVE  IInv'
  <1> DEFINE n == LowestFree
  <1>0. \A f \in Fds : f # Listener
    BY DEF Fds, Listener
  <1>1. PICK c \in Pending : /\ conn' = [conn EXCEPT ![c] = "open"]
                             /\ file' = [file EXCEPT ![LowestFree] = c]
                             /\ edges' = EdgesAfterAdd(c)
    BY DEF EdgeAccept, outVars
  <1>2. /\ pc = "loop" /\ watched' = watched \cup {n} /\ armed' = armed \cup {n}
        /\ events' = events \ {Listener}
        /\ UNCHANGED <<sent, inbuf, got, unread, fin, left, rst, lost, alive, pc, cur,
                       buf, fd_max, variant>>
    BY DEF EdgeAccept, outVars
  <1>3. edges' = IF inbuf[c] # <<>> \/ c \in fin THEN edges \cup {n} ELSE edges
    BY <1>1 DEF EdgesAfterAdd
  <1>4. /\ n \in Fds /\ file[n] = None /\ file'[n] = c
        /\ conn' \in [Clients -> {"none", "backlog", "open", "closed"}]
        /\ file' \in [Fds -> Clients \cup {None}] /\ c \in Clients
        /\ \A f \in Fds \ {n} : file'[f] = file[f] /\ (Readable(f)' <=> Readable(f))
        /\ Descriptors' /\ Stream' /\ InHand'
    BY <1>1, <1>2, AcceptCall
  <1>5. SocketsTyped /\ None \notin Clients /\ rst \subseteq fin
    BY SocketAssumption DEF IInv, WatchedOpen, Descriptors
  <1> HIDE DEF n
  <1>6. SocketsTyped'
    BY <1>2, <1>3, <1>4, <1>5 DEF SocketsTyped
  <1>7. WatchedOpen'
    BY <1>2, <1>4, <1>5, <1>6 DEF IInv, WatchedOpen
  <1>8. ASSUME NEW f \in Fds, f = n, Readable(f)' PROVE f \in edges'
    <2>1. inbuf[c] # <<>> \/ c \in fin \cup rst
      BY <1>0, <1>2, <1>4, <1>8 DEF Readable
    <2> QED
      BY <1>3, <1>5, <1>8, <2>1
  <1>9. Edges'
    <2>1. armed' = {f \in Fds : file'[f] # None}
      BY <1>2, <1>4, <1>5 DEF IInv, Edges
    <2>2. ASSUME NEW f \in Fds, Readable(f)' PROVE f \in edges' \cup events'
      <3>1. CASE f = n
        BY <1>8, <2>2, <3>1
      <3>2. CASE f # n
        <4>1. Readable(f) /\ f # Listener
          BY <1>0, <1>4, <2>2, <3>2
        <4> QED
          BY <1>2, <1>3, <4>1 DEF IInv, Edges
      <3> QED
        BY <3>1, <3>2
    <2> QED
      BY <1>2, <2>1, <2>2 DEF Edges
  <1> QED
    BY <1>2, <1>4, <1>7, <1>9 DEF IInv, NeverBlocks

LEMMA EdgeEventStep ==
  ASSUME IInv, variant = "edge", EdgeEvent, UNCHANGED <<fd_max, variant>>
  PROVE  IInv'
  <1>1. /\ pc = "loop" /\ pc' = "drain" /\ cur' \in events \ {Listener}
        /\ events' = events \ {cur'}
        /\ UNCHANGED <<conn, sent, inbuf, got, unread, fin, left, rst, lost, alive,
                       file, watched,
                       armed, edges, buf, fd_max, variant>>
    BY DEF EdgeEvent, netVars, outVars, kernelVars
  <1>2. WatchedOpen'
    BY <1>1 DEF IInv, WatchedOpen, SocketsTyped
  <1>3. Descriptors' /\ Stream' /\ InHand'
    BY <1>1 DEF IInv, Descriptors, Stream, InHand, Held, WatchedOpen, SocketsTyped
  <1>4. \A f \in Fds : Readable(f)' <=> Readable(f)
    BY <1>1 DEF Readable, Pending
  <1>5. Edges' /\ NeverBlocks'
    BY <1>1, <1>4 DEF IInv, Edges, NeverBlocks
  <1> QED
    BY <1>2, <1>3, <1>5 DEF IInv

LEMMA EdgeReadStep ==
  ASSUME IInv, variant = "edge", EdgeRead, UNCHANGED <<fd_max, variant>>
  PROVE  IInv'
  <1>1. /\ pc = "drain" /\ cur \in Fds
        /\ UNCHANGED <<sent, got, unread, fin, left, lost, alive, events, fd_max,
                       variant>>
    BY DEF EdgeRead, outVars, IInv, InHand
  <1>2. SocketsTyped /\ armed = {f \in Fds : file[f] # None}
        /\ \A f \in Fds \ {cur} : Readable(f) => f \in edges \cup events
    BY <1>1 DEF IInv, WatchedOpen, Edges
  <1>3. CASE ReadData(cur) /\ pc' = "write" /\ UNCHANGED <<conn, rst, file, kernelVars>>
    <2>1. UNCHANGED <<conn, rst, file, watched, armed, edges>>
      BY <1>3 DEF kernelVars
    <2>2. /\ inbuf' \in [Clients -> Seq(AllBytes)] /\ buf' \in Seq(AllBytes)
          /\ cur' = cur /\ file[cur] # None /\ buf' # <<>>
          /\ \A g \in (Fds \cup {Listener}) \ {cur} : Readable(g)' <=> Readable(g)
          /\ Descriptors' /\ Stream'
      BY <1>1, <1>3, ReadCall
    <2>3. WatchedOpen'
      BY <1>1, <1>2, <1>3, <2>1, <2>2 DEF IInv, WatchedOpen, SocketsTyped
    <2>4. InHand' /\ Edges'
      BY <1>1, <1>2, <1>3, <2>1, <2>2 DEF IInv, InHand, Edges
    <2> QED
      BY <1>1, <2>2, <2>3, <2>4 DEF IInv, NeverBlocks
  <1>4. CASE /\ AtEof(cur)
             /\ watched' = watched \ {cur} /\ Close(cur)
             /\ UNCHANGED <<inbuf, rst, pc, cur, buf>>
    <2>1. /\ file[cur] # None /\ armed' = armed \ {cur} /\ edges' = edges \ {cur}
          /\ conn' = [conn EXCEPT ![file[cur]] = "closed"]
          /\ file' = [file EXCEPT ![cur] = None]
      BY <1>4 DEF AtEof, Close
    <2>2. /\ conn' \in [Clients -> {"none", "backlog", "open", "closed"}]
          /\ file' \in [Fds -> Clients \cup {None}] /\ file'[cur] = None
          /\ \A g \in Fds \ {cur} : file'[g] = file[g]
          /\ \A g \in (Fds \cup {Listener}) \ {cur} : Readable(g)' <=> Readable(g)
          /\ Descriptors' /\ Stream' /\ InHand'
      BY <1>1, <1>4, <2>1, CloseCall
    <2>3. SocketsTyped'
      BY <1>1, <1>2, <1>4, <2>1, <2>2 DEF SocketsTyped
    <2>4. WatchedOpen'
      BY <1>1, <1>4, <2>2, <2>3 DEF IInv, WatchedOpen, Fds, Listener
    <2>5. Edges'
      BY <1>1, <1>2, <1>4, <2>1, <2>2 DEF Edges
    <2> QED
      BY <1>1, <2>2, <2>4, <2>5 DEF IInv, NeverBlocks
  <1>5. CASE ReadReset(cur) /\ UNCHANGED <<conn, inbuf, file, kernelVars, pc, cur, buf>>
    <2>1. UNCHANGED <<conn, inbuf, file, watched, armed, edges, pc, cur, buf>>
      BY <1>5 DEF kernelVars
    <2>2. /\ rst' \subseteq Clients
          /\ \A g \in (Fds \cup {Listener}) \ {cur} : Readable(g)' <=> Readable(g)
          /\ Descriptors' /\ Stream' /\ InHand'
      BY <1>1, <1>5, <2>1, ResetCall
    <2>3. WatchedOpen' /\ Edges'
      BY <1>1, <1>2, <2>1, <2>2 DEF IInv, WatchedOpen, SocketsTyped, Edges
    <2> QED
      BY <1>1, <2>2, <2>3 DEF IInv, NeverBlocks
  <1>6. CASE /\ file[cur] # None /\ ~Readable(cur) /\ pc' = "loop"
             /\ UNCHANGED <<conn, inbuf, rst, file, kernelVars, cur, buf>>
    <2>1. UNCHANGED <<conn, inbuf, rst, file, watched, armed, edges, cur, buf>>
      BY <1>6 DEF kernelVars
    <2>2. WatchedOpen' /\ Descriptors' /\ Stream' /\ InHand'
      BY <1>1, <1>2, <1>6, <2>1
      DEF IInv, WatchedOpen, SocketsTyped, Descriptors, Stream, Held, InHand
    <2>3. \A f \in Fds : Readable(f)' <=> Readable(f)
      BY <1>1, <2>1 DEF Readable, Pending
    <2>4. Edges' /\ NeverBlocks'
      BY <1>1, <1>2, <1>6, <2>1, <2>3 DEF Edges, NeverBlocks
    <2> QED
      BY <2>2, <2>4 DEF IInv
  <1> QED
    BY <1>3, <1>4, <1>5, <1>6 DEF EdgeRead

LEMMA EdgeWriteStep ==
  ASSUME IInv, variant = "edge", EdgeWrite, UNCHANGED <<fd_max, variant>>
  PROVE  IInv' /\ [Echo!Next]_<<sent, got>>
  <1>1. /\ pc = "write" /\ WriteSome /\ pc' = "drain" /\ buf' = <<>>
        /\ UNCHANGED <<conn, sent, inbuf, fin, left, rst, file, watched, armed, edges,
                       events, cur, fd_max, variant>>
    BY DEF EdgeWrite, AfterWrite, WriteSome, WriteInVain, kernelVars
  <1>2. /\ got' \in [Clients -> Seq(AllBytes)] /\ alive' \in BOOLEAN
        /\ unread' \in [Clients -> 0..Room] /\ lost' \subseteq Clients
        /\ buf' \in Seq(AllBytes)
        /\ \A g \in Fds \cup {Listener} : Readable(g)' <=> Readable(g)
        /\ Descriptors' /\ Stream' /\ [Echo!Next]_<<sent, got>>
    BY <1>1, WriteCall
  <1>3. WatchedOpen' /\ InHand'
    BY <1>1, <1>2 DEF IInv, WatchedOpen, SocketsTyped, InHand
  <1>4. Edges' /\ NeverBlocks'
    BY <1>1, <1>2 DEF IInv, Edges, NeverBlocks
  <1> QED
    BY <1>2, <1>3, <1>4 DEF IInv

LEMMA EdgeKeeps ==
  ASSUME IInv, Edge, UNCHANGED variant
  PROVE  IInv' /\ [Echo!Next]_<<sent, got>>
  <1>1. variant = "edge" /\ EdgeStep /\ UNCHANGED <<fd_max, variant>>
    BY DEF Edge
  <1>2. EdgeWrite \/ UNCHANGED <<sent, got>>
    BY <1>1 DEF EdgeStep, EdgeWait, EdgeAccept, EdgeEvent, EdgeRead, netVars, outVars
  <1> QED
    BY <1>1, <1>2, EdgeWaitStep, EdgeAcceptStep, EdgeEventStep, EdgeReadStep,
       EdgeWriteStep DEF EdgeStep

-----------------------------------------------------------------------------
LEMMA InitIInv == Init => IInv /\ Echo!Init
  <1> SUFFICES ASSUME Init PROVE IInv /\ Echo!Init
    OBVIOUS
  <1>1. SocketsInit /\ fd_max = Listener /\ variant \in {"select", "level", "edge"}
    BY DEF Init, SelectInit, EpollInit, EdgeInit
  <1>2. SocketsTyped
    BY <1>1, SocketAssumption DEF SocketsInit, SocketsTyped
  <1>3. WatchedOpen
    BY <1>1, <1>2 DEF SocketsInit, WatchedOpen
  <1>4. Descriptors /\ InHand
    BY <1>1 DEF SocketsInit, Descriptors, InHand
  <1>5. Stream
    <2>1. Len(<<>>) = 0 /\ \A c \in Clients : Held(c) = <<>>
      BY <1>1, EmptySeq DEF SocketsInit, Held
    <2> QED
      BY <1>1, <2>1 DEF SocketsInit, Stream, Run
  <1>6. Edges /\ NeverBlocks
    BY <1>1 DEF SocketsInit, Edges, NeverBlocks, Readable, Fds, Listener
  <1> QED
    BY <1>1, <1>3, <1>4, <1>5, <1>6 DEF IInv, SocketsInit, Echo!Init

\* A byte sent is Send of EchoService, a write of the server Return, and all
\* other steps change neither what was sent nor what was returned.
LEMMA StepIInv == IInv /\ [Next]_vars => IInv' /\ [Echo!Next]_<<sent, got>>
  <1> SUFFICES ASSUME IInv, [Next]_vars PROVE IInv' /\ [Echo!Next]_<<sent, got>>
    OBVIOUS
  <1>1. ASSUME NEW c \in Clients, ClientStep(c), UNCHANGED <<fd_max, variant>>
        PROVE  IInv' /\ [Echo!Next]_<<sent, got>>
    <2>1. IInv'
      BY <1>1, ConnectStep, SendStep, EndStep, ReadStep DEF ClientStep
    <2>2. Send(c) => Echo!Next
      BY DEF Send, outVars, Echo!Next, Echo!Send
    <2>3. Send(c) \/ UNCHANGED <<sent, got>>
      BY <1>1 DEF ClientStep, Connect, Finish, Leave, Read, outVars
    <2> QED
      BY <2>1, <2>2, <2>3
  <1>2. ASSUME Server PROVE IInv' /\ [Echo!Next]_<<sent, got>>
    BY <1>2, SelectKeeps, LevelKeeps, EdgeKeeps DEF Server
  <1>3. ASSUME UNCHANGED vars PROVE IInv' /\ UNCHANGED <<sent, got>>
    <2>1. UNCHANGED <<conn, sent, inbuf, got, unread, fin, left, rst, lost, alive,
                      file, watched,
                      armed, edges, pc, events, cur, buf, fd_max, variant>>
      BY <1>3 DEF vars, selectVars, socketVars, netVars, outVars, kernelVars, serverVars
    <2> QED
      BY <2>1 DEF IInv, WatchedOpen, SocketsTyped, Descriptors, Stream, Held, InHand,
                  Edges, NeverBlocks, Readable, Pending
  <1> QED
    BY <1>1, <1>2, <1>3 DEF Next

\* The invariant below all others: what is watched, open, on its way and in hand
\* fits together after every call of the three loops (echo_selectserv.c:50-90,
\* echo_epollserv.c:51-90, echo_EPETserv.c:55-98).
THEOREM Invariance == Spec => []IInv
  <1>1. Init => IInv
    BY InitIInv
  <1>2. IInv /\ [Next]_vars => IInv'
    BY StepIInv
  <1> QED
    BY <1>1, <1>2, PTL DEF Spec

\* Types, and what the kernel watches is what is open, whatever is closed and
\* opened again within a round (echo_selectserv.c:61-89, echo_epollserv.c:64-89,
\* echo_EPETserv.c:61-97).
THEOREM WatchesWhatIsOpen == Spec => []WatchedOpen
  <1>1. IInv => WatchedOpen
    BY DEF IInv
  <1> QED
    BY <1>1, Invariance, PTL

\* accept and read of the select and the level-triggered server do not block.
THEOREM ServesWithoutBlocking == Spec => []NeverBlocks
  <1>1. IInv => NeverBlocks
    BY DEF IInv
  <1> QED
    BY <1>1, Invariance, PTL

\* Input of an edge-triggered connection that nobody is reading has an edge or an
\* event: the read loop does not stop early (echo_EPETserv.c:77-95).
THEOREM NoEdgeLost == Spec => []EdgeNotLost
  <1>1. IInv => EdgeNotLost
    BY DEF IInv, Edges, EdgeNotLost
  <1> QED
    BY <1>1, Invariance, PTL

\* The three servers implement the echo service: each client is sent back its
\* own bytes, in order, none twice, up to the first that write of the edge-triggered
\* server did not take (echo_EPETserv.c:93), however few bytes the sockets hold.
THEOREM ServersEcho == Spec => EchoSpec
  <1>1. Init => Echo!Init
    BY InitIInv
  <1>2. IInv /\ [Next]_vars => [Echo!Next]_<<sent, got>>
    BY StepIInv
  <1> QED
    BY <1>1, <1>2, Invariance, PTL DEF Spec, EchoSpec, Echo!Spec
=============================================================================
