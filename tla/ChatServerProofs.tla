-------------------------- MODULE ChatServerProofs --------------------------
(***************************************************************************)
(* chat_server.c counts its connections right, relays in one order, and    *)
(* lets latecomers miss only the beginning, for any number of clients and  *)
(* however many handlers share a descriptor; the first two also when a     *)
(* client is slow to read (ChatRoom).                                      *)
(*                                                                         *)
(* Four layers, each an invariant that rests on those before it: CountInv, *)
(* TypeInv, OrderInv, SuffixInv.                                           *)
(***************************************************************************)
EXTENDS ChatRoom, LeastNumber, SequenceTheorems

\* The handlers that stand for an entry of cli_socks.
Serving == {"start", "read", "lock", "send", "remove"}
Registered == {h \in Threads : hpc[h] \in Serving \/ (h = newest /\ mpc = "create")}

CountTyped ==
    /\ hpc \in [Threads -> HandlerPC]
    /\ mpc \in {"accept", "register", "create"}
    /\ backlog \subseteq Clients /\ accepted \subseteq Clients

\* A thread is created once: only for a connection that has been accepted or a
\* call of accept that has failed, and the one main is working on has none yet.
ThreadsFresh ==
    /\ backlog \cap accepted = {}
    /\ \A c \in Clients \ accepted : hpc[c] = "none"
    /\ mpc # "accept" => newest \in accepted \cup Failures /\ hpc[newest] = "none"

CountInv == CountTyped /\ ThreadsFresh /\ cli_cnt = Cardinality(Registered)

-----------------------------------------------------------------------------
\* The registered handlers are finitely many.
LEMMA RegisteredFinite ==
  IsFiniteSet(Registered) /\ Cardinality(Registered) \in Nat
  <1>1. Registered \in SUBSET Threads /\ IsFiniteSet(Threads)
    BY ChatAssumption, FS_Union DEF Registered, Threads
  <1> QED
    BY <1>1, FS_Subset, FS_CardinalityType

LEMMA InitCount == Init => CountInv
  <1> SUFFICES ASSUME Init PROVE CountInv
    OBVIOUS
  <1>1. CountTyped /\ ThreadsFresh
    BY DEF Init, CountTyped, ThreadsFresh, HandlerPC, Threads
  <1>2. Registered = {} /\ cli_cnt = 0
    BY DEF Init, Registered, Serving
  <1> QED
    BY <1>1, <1>2, FS_EmptySet DEF CountInv

\* MainRegister adds a connection and an entry.
LEMMA RegisterStep ==
  ASSUME CountInv, MainRegister
  PROVE  CountInv'
  <1>1. /\ CountTyped /\ ThreadsFresh /\ mpc = "register" /\ mpc' = "create"
        /\ hpc' = hpc /\ newest' = newest /\ backlog' = backlog
        /\ accepted' = accepted /\ cli_cnt' = cli_cnt + 1
    BY DEF CountInv, MainRegister, clientVars, handVars
  <1>2. newest \in Threads /\ hpc[newest] = "none"
    BY <1>1 DEF CountTyped, ThreadsFresh, Threads
  <1>3. Registered' = Registered \cup {newest} /\ newest \notin Registered
    BY <1>1, <1>2 DEF Registered, Serving
  <1>4. Cardinality(Registered') = Cardinality(Registered) + 1
    BY <1>3, RegisteredFinite, FS_AddElement
  <1>5. CountTyped' /\ ThreadsFresh'
    BY <1>1 DEF CountTyped, ThreadsFresh
  <1> QED
    BY <1>1, <1>4, <1>5 DEF CountInv

\* HandlerRemove takes away one handler and one entry.
LEMMA RemoveStep ==
  ASSUME CountInv, NEW h \in Threads, HandlerRemove(h)
  PROVE  CountInv'
  <1>1. /\ CountTyped /\ ThreadsFresh /\ hpc[h] = "remove"
        /\ hpc' = [hpc EXCEPT ![h] = "close"] /\ cli_cnt' = cli_cnt - 1
        /\ mpc' = mpc /\ newest' = newest /\ backlog' = backlog
        /\ accepted' = accepted
    BY DEF CountInv, HandlerRemove, CountAfterRemoval, clientVars, mainVars
  <1>2. hpc'[h] = "close" /\ \A c \in Threads \ {h} : hpc'[c] = hpc[c]
    BY <1>1 DEF CountTyped
  <1>3. h \in accepted \cup Failures /\ (mpc # "accept" => h # newest)
    BY <1>1 DEF ThreadsFresh, Threads
  <1>4. Registered' = Registered \ {h} /\ h \in Registered
    BY <1>1, <1>2, <1>3 DEF Registered, Serving
  <1>5. Cardinality(Registered') = Cardinality(Registered) - 1
    BY <1>4, RegisteredFinite, FS_RemoveElement
  <1>6. CountTyped'
    BY <1>1 DEF CountTyped, HandlerPC
  <1>7. ThreadsFresh'
    BY <1>1, <1>2, <1>3 DEF CountTyped, ThreadsFresh
  <1> QED
    BY <1>1, <1>5, <1>6, <1>7 DEF CountInv

\* The other steps of a handler keep it registered, or unregistered.
LEMMA HandlerKeeps ==
  ASSUME CountInv, NEW h \in Threads, NEW l \in HandlerPC,
         hpc' = [hpc EXCEPT ![h] = l], hpc[h] # "none", l # "none",
         hpc[h] \in Serving <=> l \in Serving,
         UNCHANGED <<mpc, newest, backlog, accepted, cli_cnt>>
  PROVE  CountInv'
  <1>1. CountTyped /\ ThreadsFresh
    BY DEF CountInv
  <1>2. hpc'[h] = l /\ \A c \in Threads \ {h} : hpc'[c] = hpc[c]
    BY <1>1 DEF CountTyped
  <1>3. h \in accepted \cup Failures /\ (mpc # "accept" => h # newest)
    BY <1>1 DEF ThreadsFresh, Threads
  <1>4. Registered' = Registered
    BY <1>2 DEF Registered
  <1>5. CountTyped'
    BY <1>1 DEF CountTyped
  <1>6. ThreadsFresh'
    BY <1>1, <1>2, <1>3 DEF CountTyped, ThreadsFresh
  <1> QED
    BY <1>4, <1>5, <1>6 DEF CountInv

LEMMA HandlerStepCount ==
  ASSUME CountInv, NEW h \in Threads, HandlerStep(h)
  PROVE  CountInv'
  <1> USE DEF clientVars, mainVars, tableVars, Serving, HandlerPC
  <1>0. CountTyped /\ ThreadsFresh
    BY DEF CountInv
  <1>1. CASE HandlerStart(h)
    BY <1>1, HandlerKeeps DEF HandlerStart
  <1>2. CASE HandlerRead(h)
    <2>1. hpc' = [hpc EXCEPT ![h] = "lock"] \/ hpc' = [hpc EXCEPT ![h] = "remove"]
      BY <1>2 DEF HandlerRead
    <2>2. hpc[h] = "read" /\ UNCHANGED <<mpc, newest, backlog, accepted, cli_cnt>>
      BY <1>2 DEF HandlerRead
    <2> QED
      BY <2>1, <2>2, HandlerKeeps
  <1>3. CASE HandlerLock(h)
    BY <1>3, HandlerKeeps DEF HandlerLock
  <1>4. CASE HandlerWrite(h)
    <2>1. UNCHANGED <<hpc, mpc, newest, backlog, accepted, cli_cnt>>
      BY <1>4 DEF HandlerWrite
    <2> QED
      BY <2>1 DEF CountInv, CountTyped, ThreadsFresh, Registered
  <1>5. CASE HandlerUnlock(h)
    BY <1>5, HandlerKeeps DEF HandlerUnlock
  <1>6. CASE HandlerRemove(h)
    BY <1>6, RemoveStep
  <1>7. CASE HandlerClose(h)
    BY <1>7, HandlerKeeps DEF HandlerClose
  <1> QED
    BY <1>1, <1>2, <1>3, <1>4, <1>5, <1>6, <1>7 DEF HandlerStep

LEMMA MainStepCount ==
  ASSUME CountInv, MainStep
  PROVE  CountInv'
  <1>0. CountTyped /\ ThreadsFresh
    BY DEF CountInv
  <1>1. CASE MainAccept
    <2>1. /\ mpc = "accept" /\ mpc' = "register" /\ hpc' = hpc /\ cli_cnt' = cli_cnt
          /\ newest' \in backlog /\ backlog' = backlog \ {newest'}
          /\ accepted' = accepted \cup {newest'}
      BY <1>1 DEF MainAccept, handVars, tableVars
    <2>2. Registered' = Registered
      BY <2>1 DEF Registered
    <2>3. CountTyped' /\ ThreadsFresh'
      BY <1>0, <2>1 DEF CountTyped, ThreadsFresh
    <2> QED
      BY <2>1, <2>2, <2>3 DEF CountInv
  <1>2. CASE MainRegister
    BY <1>2, RegisterStep
  <1>4. CASE MainAcceptFails
    <2>1. /\ mpc = "accept" /\ mpc' = "register" /\ hpc' = hpc /\ cli_cnt' = cli_cnt
          /\ newest' \in Failures /\ hpc[newest'] = "none"
          /\ backlog' = backlog /\ accepted' = accepted
      BY <1>4 DEF MainAcceptFails, clientVars, handVars, tableVars
    <2>2. Registered' = Registered
      BY <2>1 DEF Registered
    <2>3. CountTyped' /\ ThreadsFresh'
      BY <1>0, <2>1 DEF CountTyped, ThreadsFresh
    <2> QED
      BY <2>1, <2>2, <2>3 DEF CountInv
  <1>3. CASE MainCreate
    <2>1. /\ mpc = "create" /\ mpc' = "accept" /\ cli_cnt' = cli_cnt
          /\ hpc' = [hpc EXCEPT ![newest] = "start"] /\ newest' = newest
          /\ backlog' = backlog /\ accepted' = accepted
      BY <1>3 DEF MainCreate, clientVars, tableVars
    <2>2. newest \in accepted \cup Failures /\ newest \in Threads /\ hpc[newest] = "none"
      BY <1>0, <2>1 DEF ThreadsFresh, CountTyped, Threads
    <2>3. hpc'[newest] = "start" /\ \A c \in Threads \ {newest} : hpc'[c] = hpc[c]
      BY <1>0, <2>1, <2>2 DEF CountTyped
    <2>4. Registered' = Registered
      BY <2>1, <2>2, <2>3 DEF Registered, Serving
    <2>5. CountTyped'
      BY <1>0, <2>1 DEF CountTyped, HandlerPC
    <2>6. ThreadsFresh'
      BY ChatAssumption, <1>0, <2>1, <2>2, <2>3 DEF CountTyped, ThreadsFresh, Threads
    <2> QED
      BY <2>1, <2>4, <2>5, <2>6 DEF CountInv
  <1> QED
    BY <1>1, <1>2, <1>3, <1>4 DEF MainStep

LEMMA ClientStepCount ==
  ASSUME CountInv, NEW c \in Clients, Connect(c) \/ Say(c) \/ Leave(c)
  PROVE  CountInv'
  <1>1. /\ CountTyped /\ ThreadsFresh
        /\ UNCHANGED <<hpc, mpc, newest, accepted, cli_cnt>>
        /\ backlog' = backlog \/ (backlog' = backlog \cup {c} /\ c \notin accepted)
    BY DEF CountInv, Connect, Say, Leave, mainVars, handVars, tableVars
  <1>2. Registered' = Registered
    BY <1>1 DEF Registered
  <1>3. CountTyped' /\ ThreadsFresh'
    BY <1>1 DEF CountTyped, ThreadsFresh
  <1> QED
    BY <1>1, <1>2, <1>3 DEF CountInv

LEMMA StepCount == CountInv /\ [Next]_vars => CountInv'
  <1> SUFFICES ASSUME CountInv, [Next]_vars PROVE CountInv'
    OBVIOUS
  <1>1. ASSUME UNCHANGED vars PROVE CountInv'
    <2>1. UNCHANGED <<hpc, mpc, newest, accepted, backlog, cli_cnt>>
      BY <1>1 DEF vars, clientVars, tableVars, mainVars, handVars
    <2> QED
      BY <2>1 DEF CountInv, CountTyped, ThreadsFresh, Registered
  <1> QED
    BY <1>1, ClientStepCount, MainStepCount, HandlerStepCount DEF Next

\* Each registered connection is counted once and removed once, for any number
\* of clients and whichever descriptor their handlers read from cli_sock
\* (chat_server.c:58-62, 73, 81-89).
THEOREM CountIsExact == Spec => []CountExact
  <1>1. CountInv => CountExact
    BY DEF CountInv, CountExact, Registered, Serving
  <1> QED
    BY <1>1, InitCount, StepCount, PTL DEF Spec

-----------------------------------------------------------------------------
(***************************************************************************)
(* Types, and what descriptors refer to.                                   *)
(***************************************************************************)

\* Descriptors refer to different connections, all of them accepted.
FilesDistinct ==
    /\ \A f \in Fds : file[f] # None => file[f] \in accepted
    /\ \A f, g \in Fds : file[f] # None /\ file[f] = file[g] => f = g

\* A handler has a chunk from read to the end of send_msg.
Relaying(h) == hpc[h] \in {"lock", "send"}
MessageHeld == \A h \in Threads : Relaying(h) => hmsg[h] \in Chunks

TypeInv == CountInv /\ TypeOK /\ FilesDistinct /\ MessageHeld

(***************************************************************************)
(* The order of the relays.                                                *)
(***************************************************************************)

\* x occurs in s.
Occurs(x, s) == \E i \in 1..Len(s) : s[i] = x

\* x has been said, when each client has said n[c] chunks.
WasSaid(x, n) == x \in Chunks /\ x[2] <= n[x[1]]

\* mutex is held by the handler that is sending, and by nobody else.
OneSender == \A h \in Threads : mutex = h <=> hpc[h] = "send"

\* A chunk is in one place until its relay begins: in one receive buffer, once,
\* or in the hands of one handler, and in no inbox.
RelayedOnce ==
    /\ \A c \in Clients : \A i \in 1..Len(outbox[c]) :
          /\ outbox[c][i][1] = c /\ WasSaid(outbox[c][i], said)
          /\ \A d \in Clients : ~Occurs(outbox[c][i], inbox[d])
          /\ \A j \in 1..Len(outbox[c]) : outbox[c][j] = outbox[c][i] => j = i
    /\ \A h \in Threads : Relaying(h) =>
          /\ WasSaid(hmsg[h], said)
          /\ \A c \in Clients : ~Occurs(hmsg[h], outbox[c])
          /\ hpc[h] = "lock" => \A d \in Clients : ~Occurs(hmsg[h], inbox[d])
          /\ \A g \in Threads : Relaying(g) /\ hmsg[g] = hmsg[h] => g = h
    /\ \A c \in Clients : \A i \in 1..Len(inbox[c]) : WasSaid(inbox[c][i], said)

\* What is being sent is the last in every inbox that has it.
SendingIsLast ==
    \A h \in Threads : hpc[h] = "send" =>
        \A c \in Clients : \A n \in Chunks : n # hmsg[h] => ~Before(inbox[c], hmsg[h], n)

OrderInv == OneSender /\ RelayedOnce /\ SendingIsLast /\ SameOrder

(***************************************************************************)
(* What a client gets that registers late.                                 *)
(***************************************************************************)

NobodyRemoved == \A h \in Threads : hpc[h] \notin {"close", "gone"}

\* The client of entry i, or None.
ClientAt(i) == RefersTo(cli_socks[i])

Entries == 0..(cli_cnt - 1)

\* Before the first removal an entry is an open descriptor or a failure of accept,
\* no descriptor is registered twice, and main's next one not at all.
EntriesOpen ==
    /\ \A i \in Entries : cli_socks[i] = Failed \/ ClientAt(i) # None
    /\ \A i, j \in Entries : ClientAt(i) # None /\ ClientAt(i) = ClientAt(j) => i = j
    /\ mpc = "register" => cli_sock = Failed \/ RefersTo(cli_sock) # None
    /\ mpc = "register" /\ cli_sock # Failed => \A i \in Entries : cli_socks[i] # cli_sock

\* Who is not registered has got nothing.
NothingBefore ==
    \A c \in Clients : (\A i \in Entries : ClientAt(i) # c) => inbox[c] = <<>>

\* Of two clients in the table the first is ahead by the chunk being sent, while
\* the loop of send_msg is between them.
InStep ==
    \A i, j \in Entries : i < j =>
        LET c == ClientAt(i)
            d == ClientAt(j)
        IN  None \notin {c, d} /\ {c, d} \cap left = {} =>
               IF \E h \in Threads : hpc[h] = "send" /\ i < hi[h] /\ hi[h] <= j
               THEN \A h \in Threads : hpc[h] = "send" =>
                       EndsWith(inbox[c], Append(inbox[d], hmsg[h]))
               ELSE EndsWith(inbox[c], inbox[d])

SuffixInv == NobodyRemoved => EntriesOpen /\ NothingBefore /\ InStep

-----------------------------------------------------------------------------
\* A step of ChatRoom that is none of ChatServer: at most somebody leaves.
LeftOnly ==
    /\ left \subseteq left' /\ left' \subseteq Clients
    /\ UNCHANGED <<backlog, accepted, outbox, said, inbox, alive, file, tableVars, mutex,
                   mainVars, handVars>>

\* send_msg and cli_cnt stay inside the table.
LEMMA FewThreads ==
  ASSUME NEW R \in SUBSET Threads
  PROVE  Cardinality(R) \in 0..(MaxCli - 1) /\ MaxCli \in Nat
  <1>1. IsFiniteSet(Threads)
    BY ChatAssumption, FS_Union DEF Threads
  <1>2. Cardinality(R) <= Cardinality(Threads) /\ IsFiniteSet(R)
    BY <1>1, FS_Subset
  <1>3. Cardinality(R) \in Nat /\ Cardinality(Threads) \in Nat
    BY <1>1, <1>2, FS_CardinalityType
  <1> QED
    BY <1>2, <1>3, ChatAssumption DEF Threads

LEMMA CountBound ==
  /\ MaxCli \in Nat
  /\ CountInv => cli_cnt \in 0..(MaxCli - 1)
  /\ CountInv' => cli_cnt' \in 0..(MaxCli - 1)
  <1>1. Registered \in SUBSET Threads /\ Registered' \in SUBSET Threads
    BY DEF Registered
  <1> QED
    BY <1>1, FewThreads DEF CountInv

\* While somebody waits in the backlog a descriptor is free.
LEMMA DescriptorIsFree ==
  ASSUME TypeInv, backlog # {}
  PROVE  LowestFree \in Fds /\ file[LowestFree] = None
  <1>1. PICK c \in Clients : c \in backlog /\ c \notin accepted
    BY DEF TypeInv, CountInv, ThreadsFresh, CountTyped
  <1>2. /\ file \in [Fds -> Clients \cup {None}] /\ None \notin Clients
        /\ IsFiniteSet(Clients) /\ MaxFd \in Nat /\ Cardinality(Clients) <= MaxFd
    BY ChatAssumption DEF TypeInv, TypeOK
  <1>3. \E f \in Fds : file[f] = None
    <2> SUFFICES ASSUME \A f \in Fds : file[f] # None PROVE FALSE
      OBVIOUS
    <2>1. file \in Injection(Fds, Clients \ {c})
      BY <1>1, <1>2 DEF TypeInv, FilesDistinct, Injection, IsInjective
    <2>2. /\ IsFiniteSet(Clients \ {c}) /\ Cardinality(Clients) \in Nat
          /\ Cardinality(Clients \ {c}) = Cardinality(Clients) - 1
      BY <1>2, FS_RemoveElement, FS_CardinalityType
    <2>3. Cardinality(Fds) <= Cardinality(Clients \ {c})
      BY <2>1, <2>2, FS_Injection
    <2>4. Cardinality(Fds) = MaxFd
      <3>1. Cardinality(1..MaxFd) = IF 1 > MaxFd THEN 0 ELSE MaxFd - 1 + 1
        BY <1>2, FS_Interval
      <3> QED
        BY <1>2, <3>1 DEF Fds
    <2> QED
      BY <1>2, <2>2, <2>3, <2>4
  <1> DEFINE Free == {f \in Fds : file[f] = None}
  <1>4. PICK f \in Free : \A g \in Free : f <= g
    <2>1. Free \in SUBSET Nat /\ Free # {}
      BY <1>2, <1>3 DEF Fds
    <2> HIDE DEF Free
    <2> QED
      BY <2>1, LeastElement
  <1>5. \A g \in 1..(f - 1) : file[g] # None
    BY <1>2, <1>4 DEF Fds
  <1> QED
    BY <1>4, <1>5 DEF LowestFree

-----------------------------------------------------------------------------
\* Types are kept by every step.

LEMMA ClientKeepsTypes ==
  ASSUME TypeInv, NEW c \in Clients, Connect(c) \/ Say(c) \/ Leave(c)
  PROVE  TypeInv'
  <1>1. CountInv' /\ TypeOK /\ FilesDistinct /\ MessageHeld
    BY ClientStepCount DEF TypeInv
  <1>2. /\ UNCHANGED <<accepted, inbox, file, cli_socks, cli_cnt, mutex, mpc, cli_sock,
                       newest, hpc, hsock, hmsg, hi, alive>>
        /\ backlog' \subseteq Clients /\ left' \subseteq Clients
    BY <1>1 DEF Connect, Say, Leave, TypeOK, tableVars, mainVars, handVars
  <1>3. outbox' \in [Clients -> Seq(Chunks)] /\ said' \in [Clients -> 0..MaxSay]
    <2>1. CASE Connect(c)
      BY <1>1, <2>1 DEF Connect, TypeOK
    <2>2. CASE Leave(c)
      <3>1. <<>> \in Seq(Chunks) /\ UNCHANGED said
        BY <2>2, EmptySeq DEF Leave
      <3>2. outbox' = outbox \/ outbox' = [outbox EXCEPT ![c] = <<>>]
        BY <2>2 DEF Leave
      <3> QED
        BY <1>1, <3>1, <3>2 DEF TypeOK
    <2>3. CASE Say(c)
      <3>1. /\ said[c] < MaxSay /\ said' = [said EXCEPT ![c] = @ + 1]
            /\ outbox' = [outbox EXCEPT ![c] = Append(@, <<c, said[c] + 1>>)]
        BY <2>3 DEF Say
      <3>2. <<c, said[c] + 1>> \in Chunks /\ MaxSay \in Nat
        BY <1>1, <3>1, ChatAssumption DEF TypeOK, Chunks
      <3>3. Append(outbox[c], <<c, said[c] + 1>>) \in Seq(Chunks)
        BY <1>1, <3>2, AppendProperties DEF TypeOK
      <3>4. said[c] + 1 \in 0..MaxSay
        BY <1>1, <3>1, <3>2 DEF TypeOK
      <3>5. outbox' \in [Clients -> Seq(Chunks)]
        BY <1>1, <3>1, <3>3 DEF TypeOK
      <3>6. said' \in [Clients -> 0..MaxSay]
        BY <1>1, <3>1, <3>4 DEF TypeOK
      <3> QED
        BY <3>5, <3>6
    <2> QED
      BY <2>1, <2>2, <2>3
  <1>4. TypeOK'
    BY <1>1, <1>2, <1>3 DEF TypeOK
  <1> QED
    BY <1>1, <1>2, <1>4 DEF TypeInv, FilesDistinct, MessageHeld, Relaying

LEMMA MainKeepsTypes ==
  ASSUME TypeInv, MainStep
  PROVE  TypeInv'
  <1>1. CountInv /\ CountInv' /\ TypeOK /\ FilesDistinct /\ MessageHeld
    BY MainStepCount DEF TypeInv
  <1>2. cli_cnt \in 0..(MaxCli - 1) /\ cli_cnt' \in 0..MaxCli
    BY <1>1, CountBound
  <1>3. CASE MainAccept
    <2> DEFINE n == LowestFree
    <2>1. PICK c \in backlog :
             /\ backlog' = backlog \ {c} /\ accepted' = accepted \cup {c}
             /\ file' = [file EXCEPT ![n] = c] /\ newest' = c
      BY <1>3 DEF MainAccept
    <2>2. /\ cli_sock' = n /\ mpc' = "register"
          /\ UNCHANGED <<left, outbox, said, inbox, alive, cli_socks, cli_cnt, mutex,
                         hpc, hsock, hmsg, hi>>
      BY <1>3 DEF MainAccept, tableVars, handVars
    <2>3. n \in Fds /\ file[n] = None
      BY <2>1, DescriptorIsFree
    <2> HIDE DEF n
    <2>4. TypeOK'
      BY <1>1, <2>1, <2>2, <2>3 DEF TypeOK, Threads
    <2>5. c \in Clients /\ c \notin accepted /\ c # None
      BY <1>1, <2>1, ChatAssumption DEF TypeOK, CountInv, ThreadsFresh
    <2>6. FilesDistinct'
      BY <1>1, <2>1, <2>3, <2>5 DEF FilesDistinct, TypeOK
    <2> QED
      BY <1>1, <2>2, <2>4, <2>6 DEF TypeInv, MessageHeld, Relaying
  <1>4. CASE MainAcceptFails
    <2>1. /\ newest' \in Failures /\ cli_sock' = Failed /\ mpc' = "register"
          /\ UNCHANGED <<backlog, accepted, left, outbox, said, inbox, alive, file,
                         cli_socks, cli_cnt, mutex, hpc, hsock, hmsg, hi>>
      BY <1>4 DEF MainAcceptFails, clientVars, tableVars, handVars
    <2>2. TypeOK'
      BY <1>1, <2>1 DEF TypeOK, Threads
    <2> QED
      BY <1>1, <2>1, <2>2 DEF TypeInv, FilesDistinct, MessageHeld, Relaying
  <1>5. CASE MainRegister
    <2>1. /\ cli_socks' = [cli_socks EXCEPT ![cli_cnt] = cli_sock] /\ mpc' = "create"
          /\ UNCHANGED <<backlog, accepted, left, outbox, said, inbox, alive, file,
                         mutex, cli_sock, newest, hpc, hsock, hmsg, hi>>
      BY <1>5 DEF MainRegister, clientVars, handVars
    <2>2. TypeOK'
      BY <1>1, <1>2, <2>1 DEF TypeOK
    <2> QED
      BY <1>1, <2>1, <2>2 DEF TypeInv, FilesDistinct, MessageHeld, Relaying
  <1>6. CASE MainCreate
    <2>1. /\ hpc' = [hpc EXCEPT ![newest] = "start"] /\ mpc' = "accept" /\ mpc = "create"
          /\ UNCHANGED <<backlog, accepted, left, outbox, said, inbox, alive, file,
                         cli_socks, cli_cnt, mutex, cli_sock, newest, hsock, hmsg, hi>>
      BY <1>6 DEF MainCreate, clientVars, tableVars
    <2>2. newest \in Threads /\ hpc[newest] = "none"
      BY <1>1, <2>1 DEF CountInv, ThreadsFresh, CountTyped, Threads
    <2>3. TypeOK'
      BY <1>1, <2>1 DEF TypeOK, HandlerPC
    <2>4. MessageHeld'
      BY <1>1, <2>1, <2>2 DEF MessageHeld, Relaying, TypeOK
    <2> QED
      BY <1>1, <2>1, <2>3, <2>4 DEF TypeInv, FilesDistinct
  <1> QED
    BY <1>3, <1>4, <1>5, <1>6 DEF MainStep

LEMMA HandlerKeepsTypes ==
  ASSUME TypeInv, NEW h \in Threads, HandlerStep(h)
  PROVE  TypeInv'
  <1> USE DEF clientVars, mainVars, tableVars, handVars
  <1>1. CountInv' /\ TypeOK /\ FilesDistinct /\ MessageHeld /\ None \notin Clients \cup Failures
    BY HandlerStepCount, ChatAssumption DEF TypeInv
  <1>2. MaxCli \in Nat /\ cli_cnt' \in 0..MaxCli
    BY <1>1, CountBound
  <1>3. CASE HandlerStart(h)
    <2>1. TypeOK'
      BY <1>1, <1>3 DEF HandlerStart, TypeOK, HandlerPC
    <2>2. FilesDistinct' /\ MessageHeld'
      BY <1>1, <1>3 DEF HandlerStart, FilesDistinct, MessageHeld, Relaying, TypeOK
    <2> QED
      BY <1>1, <2>1, <2>2 DEF TypeInv
  <1>4. CASE HandlerRead(h)
    <2> DEFINE c == RefersTo(hsock[h])
    <2>1. /\ hpc[h] = "read" /\ c # None
          /\ UNCHANGED <<backlog, accepted, left, said, inbox, alive, file, cli_socks, cli_cnt,
                         mutex, mpc, cli_sock, newest, hsock, hi>>
      BY <1>4 DEF HandlerRead
    <2>2. c \in Clients /\ outbox[c] \in Seq(Chunks)
      BY <1>1, <2>1 DEF RefersTo, TypeOK
    <2>3. \/ /\ outbox[c] # <<>> /\ hmsg' = [hmsg EXCEPT ![h] = Head(outbox[c])]
             /\ outbox' = [outbox EXCEPT ![c] = Tail(@)] /\ hpc' = [hpc EXCEPT ![h] = "lock"]
          \/ hpc' = [hpc EXCEPT ![h] = "remove"] /\ hmsg' = hmsg /\ outbox' = outbox
      BY <1>4 DEF HandlerRead
    <2> HIDE DEF c
    <2>4. outbox[c] # <<>> => Head(outbox[c]) \in Chunks /\ Tail(outbox[c]) \in Seq(Chunks)
      BY <2>2, HeadTailProperties
    <2>5. TypeOK'
      <3>1. hpc' \in [Threads -> HandlerPC]
        <4>1. hpc' = [hpc EXCEPT ![h] = "lock"] \/ hpc' = [hpc EXCEPT ![h] = "remove"]
          BY <2>3
        <4> QED
          BY <1>1, <4>1 DEF TypeOK, HandlerPC
      <3>3. hmsg' \in [Threads -> Chunks \cup {None}]
        <4>1. \/ hmsg' = hmsg
              \/ Head(outbox[c]) \in Chunks /\ hmsg' = [hmsg EXCEPT ![h] = Head(outbox[c])]
          BY <2>3, <2>4
        <4> QED
          BY <1>1, <4>1 DEF TypeOK
      <3>2. outbox' \in [Clients -> Seq(Chunks)]
        BY <1>1, <2>2, <2>3, <2>4 DEF TypeOK
      <3> QED
        BY <1>1, <2>1, <3>1, <3>2, <3>3 DEF TypeOK
    <2>6. MessageHeld'
      BY <1>1, <2>1, <2>3, <2>4 DEF MessageHeld, Relaying, TypeOK
    <2> QED
      BY <1>1, <2>1, <2>5, <2>6 DEF TypeInv, FilesDistinct
  <1>5. CASE HandlerLock(h)
    <2>1. TypeOK'
      BY <1>1, <1>5 DEF HandlerLock, FirstIndex, TypeOK, HandlerPC
    <2>2. FilesDistinct' /\ MessageHeld'
      BY <1>1, <1>5 DEF HandlerLock, FilesDistinct, MessageHeld, Relaying, TypeOK
    <2> QED
      BY <1>1, <2>1, <2>2 DEF TypeInv
  <1>6. CASE HandlerWrite(h)
    <2> DEFINE c == RefersTo(cli_socks[hi[h]])
    <2>1. /\ hpc[h] = "send" /\ hi' = [hi EXCEPT ![h] = @ + 1]
          /\ UNCHANGED <<backlog, accepted, left, outbox, said, file, cli_socks, cli_cnt,
                         mutex, mpc, cli_sock, newest, hpc, hsock, hmsg>>
      BY <1>6 DEF HandlerWrite
    <2>2. alive' \in BOOLEAN
          /\ (inbox' = inbox \/ (c # None /\ inbox' = [inbox EXCEPT ![c] = Append(@, hmsg[h])]))
      BY <1>1, <1>6 DEF HandlerWrite, TypeOK
    <2>3. c # None => c \in Clients
      BY <1>1 DEF RefersTo, TypeOK
    <2> HIDE DEF c
    <2>4. hmsg[h] \in Chunks /\ (c # None => Append(inbox[c], hmsg[h]) \in Seq(Chunks))
      BY <1>1, <2>1, <2>3, AppendProperties DEF TypeOK, MessageHeld, Relaying
    <2>5. inbox' \in [Clients -> Seq(Chunks)]
      BY <1>1, <2>2, <2>3, <2>4 DEF TypeOK
    <2>6. hi' \in [Threads -> Nat]
      BY <1>1, <2>1 DEF TypeOK
    <2>7. TypeOK'
      BY <1>1, <2>1, <2>2, <2>5, <2>6 DEF TypeOK
    <2> QED
      BY <1>1, <2>1, <2>7 DEF TypeInv, FilesDistinct, MessageHeld, Relaying
  <1>7. CASE HandlerUnlock(h)
    <2>1. TypeOK'
      BY <1>1, <1>7 DEF HandlerUnlock, TypeOK, HandlerPC
    <2>2. FilesDistinct' /\ MessageHeld'
      BY <1>1, <1>7 DEF HandlerUnlock, FilesDistinct, MessageHeld, Relaying, TypeOK
    <2> QED
      BY <1>1, <2>1, <2>2 DEF TypeInv
  <1>8. CASE HandlerRemove(h)
    <2>1. cli_cnt \in 0..(MaxCli - 1)
      BY CountBound DEF TypeInv
    <2>2. cli_socks' \in [0..MaxCli -> Fds \cup {0, Failed}]
      <3>1. cli_socks \in [0..MaxCli -> Fds \cup {0, Failed}]
        BY <1>1 DEF TypeOK
      <3>2. \A k \in 0..MaxCli : k <= cli_cnt - 1 => k + 1 \in 0..MaxCli
        BY <1>2, <2>1
      <3> QED
        BY <1>8, <3>1, <3>2 DEF HandlerRemove, TableAfterRemoval
    <2>3. TypeOK'
      BY <1>1, <1>2, <1>8, <2>2 DEF HandlerRemove, TypeOK, HandlerPC
    <2>4. FilesDistinct' /\ MessageHeld'
      BY <1>1, <1>8 DEF HandlerRemove, FilesDistinct, MessageHeld, Relaying, TypeOK
    <2> QED
      BY <1>1, <2>3, <2>4 DEF TypeInv
  <1>9. CASE HandlerClose(h)
    <2>1. TypeOK'
      BY <1>1, <1>9 DEF HandlerClose, TypeOK, HandlerPC
    <2>2. FilesDistinct' /\ MessageHeld'
      BY <1>1, <1>9 DEF HandlerClose, FilesDistinct, MessageHeld, Relaying, TypeOK
    <2> QED
      BY <1>1, <2>1, <2>2 DEF TypeInv
  <1> QED
    BY <1>3, <1>4, <1>5, <1>6, <1>7, <1>8, <1>9 DEF HandlerStep

LEMMA LeftOnlyKeepsTypes == TypeInv /\ LeftOnly => TypeInv'
  <1> SUFFICES ASSUME TypeInv, LeftOnly PROVE TypeInv'
    OBVIOUS
  <1>1. /\ left' \subseteq Clients
        /\ UNCHANGED <<backlog, accepted, outbox, said, inbox, alive, file, cli_socks, cli_cnt,
                       mutex, mpc, cli_sock, newest, hpc, hsock, hmsg, hi>>
    BY DEF LeftOnly, tableVars, mainVars, handVars
  <1>2. TypeOK'
    BY <1>1 DEF TypeInv, TypeOK
  <1>3. CountInv'
    BY <1>1 DEF TypeInv, CountInv, CountTyped, ThreadsFresh, Registered
  <1> QED
    BY <1>1, <1>2, <1>3 DEF TypeInv, FilesDistinct, MessageHeld, Relaying

LEMMA InitTypes == Init => TypeInv
  <1> SUFFICES ASSUME Init PROVE TypeInv
    OBVIOUS
  <1>1. TypeOK
    BY EmptySeq, ChatAssumption DEF Init, TypeOK, HandlerPC
  <1>2. FilesDistinct /\ MessageHeld
    BY DEF Init, FilesDistinct, MessageHeld, Relaying
  <1> QED
    BY <1>1, <1>2, InitCount DEF TypeInv

-----------------------------------------------------------------------------
\* The order of the relays is kept by every step.

\* Steps that touch neither the chunks nor mutex, of threads that are not relaying.
LEMMA OrderElsewhere ==
  ASSUME TypeInv, OrderInv, UNCHANGED <<outbox, inbox, said, mutex, hmsg>>,
         \A h \in Threads : /\ Relaying(h)' <=> Relaying(h)
                            /\ hpc'[h] \in {"lock", "send"} => hpc'[h] = hpc[h]
  PROVE  OrderInv'
  <1>1. OneSender /\ RelayedOnce /\ SendingIsLast /\ SameOrder
    BY DEF OrderInv
  <1>2. \A h \in Threads : /\ hpc'[h] = "send" <=> hpc[h] = "send"
                           /\ hpc'[h] = "lock" <=> hpc[h] = "lock"
    BY DEF Relaying
  <1>3. OneSender'
    BY <1>1, <1>2 DEF OneSender
  <1>4. \A x : WasSaid(x, said') <=> WasSaid(x, said)
    BY DEF WasSaid
  <1>5. RelayedOnce'
    BY <1>1, <1>2, <1>4 DEF RelayedOnce, Occurs
  <1>6. SendingIsLast'
    BY <1>1, <1>2 DEF SendingIsLast
  <1>7. SameOrder'
    BY <1>1 DEF SameOrder
  <1> QED
    BY <1>3, <1>5, <1>6, <1>7 DEF OrderInv

LEMMA SayKeepsOrder ==
  ASSUME TypeInv, OrderInv, NEW c \in Clients, Say(c)
  PROVE  OrderInv'
  <1> DEFINE x == <<c, said[c] + 1>>
  <1>1. /\ said[c] < MaxSay /\ said' = [said EXCEPT ![c] = @ + 1]
        /\ outbox' = [outbox EXCEPT ![c] = Append(@, x)]
        /\ UNCHANGED <<inbox, mutex, hpc, hmsg>>
    BY DEF Say, handVars
  <1>2. TypeOK /\ OneSender /\ RelayedOnce /\ SendingIsLast /\ SameOrder /\ MaxSay \in Nat
    BY ChatAssumption DEF TypeInv, OrderInv
  <1>3. x \in Chunks /\ x[1] = c /\ x[2] = said[c] + 1 /\ said[c] \in Nat /\ said'[c] = said[c] + 1
    BY <1>1, <1>2 DEF TypeOK, Chunks
  <1>4. ~WasSaid(x, said) /\ (x[2] <= said'[x[1]])
    BY <1>3 DEF WasSaid
  <1>5. ASSUME NEW y, WasSaid(y, said) PROVE WasSaid(y, said') /\ y # x
    <2>1. y \in Chunks /\ y[1] \in Clients /\ y[2] \in Nat /\ y[2] <= said[y[1]]
      BY <1>2, <1>5 DEF WasSaid, Chunks
    <2>2. y[2] <= said'[y[1]]
      BY <1>1, <1>2, <2>1 DEF TypeOK
    <2> QED
      BY <1>4, <1>5, <2>1, <2>2 DEF WasSaid
  <1>6. /\ outbox[c] \in Seq(Chunks) /\ Len(outbox[c]) \in Nat
        /\ outbox'[c] = Append(outbox[c], x)
        /\ \A d \in Clients \ {c} : outbox'[d] = outbox[d]
    BY <1>1, <1>2 DEF TypeOK
  <1> HIDE DEF x
  <1>7. /\ Len(outbox'[c]) = Len(outbox[c]) + 1
        /\ \A i \in 1..Len(outbox[c]) : outbox'[c][i] = outbox[c][i]
        /\ outbox'[c][Len(outbox[c]) + 1] = x
    BY <1>3, <1>6, AppendProperties
  <1>8. \A i \in 1..Len(outbox'[c]) : i \in 1..Len(outbox[c]) \/ i = Len(outbox[c]) + 1
    BY <1>6, <1>7
  <1>9. \A d \in Clients : ~Occurs(x, inbox[d])
    BY <1>2, <1>4 DEF RelayedOnce, Occurs
  <1>10. ASSUME NEW d \in Clients, NEW i \in 1..Len(outbox'[d])
         PROVE  /\ outbox'[d][i][1] = d /\ WasSaid(outbox'[d][i], said')
                /\ \A e \in Clients : ~Occurs(outbox'[d][i], inbox[e])
                /\ \A j \in 1..Len(outbox'[d]) : outbox'[d][j] = outbox'[d][i] => j = i
    <2>1. CASE d # c
      BY <1>2, <1>5, <1>6, <2>1 DEF RelayedOnce
    <2>2. CASE d = c /\ i \in 1..Len(outbox[c])
      <3>1. outbox'[d][i] = outbox[c][i]
        BY <1>7, <2>2
      <3>2. /\ outbox[c][i][1] = c /\ WasSaid(outbox[c][i], said)
            /\ \A e \in Clients : ~Occurs(outbox[c][i], inbox[e])
            /\ \A j \in 1..Len(outbox[c]) : outbox[c][j] = outbox[c][i] => j = i
        BY <1>2, <2>2 DEF RelayedOnce
      <3>3. WasSaid(outbox[c][i], said') /\ outbox[c][i] # x
        BY <1>5, <3>2
      <3>4. WasSaid(outbox'[d][i], said')
        BY <3>1, <3>3 DEF WasSaid
      <3> QED
        BY <1>7, <1>8, <2>2, <3>1, <3>2, <3>3, <3>4
    <2>3. CASE d = c /\ i = Len(outbox[c]) + 1
      <3>1. outbox'[d][i] = x
        BY <1>7, <2>3
      <3>2. WasSaid(outbox'[d][i], said')
        BY <1>3, <1>4, <3>1 DEF WasSaid
      <3>3. \A j \in 1..Len(outbox[c]) : outbox[c][j] # x
        BY <1>2, <1>5 DEF RelayedOnce
      <3> QED
        BY <1>3, <1>7, <1>8, <1>9, <2>3, <3>1, <3>2, <3>3
    <2> QED
      BY <1>8, <2>1, <2>2, <2>3
  <1>11. ASSUME NEW h \in Threads, Relaying(h)
         PROVE  /\ WasSaid(hmsg[h], said') /\ \A d \in Clients : ~Occurs(hmsg[h], outbox'[d])
    <2>1. WasSaid(hmsg[h], said) /\ \A d \in Clients : ~Occurs(hmsg[h], outbox[d])
      BY <1>2, <1>11 DEF RelayedOnce
    <2>2. WasSaid(hmsg[h], said') /\ hmsg[h] # x
      <3>1. \A y : y = hmsg[h] => WasSaid(y, said') /\ y # x
        BY <1>5, <2>1
      <3> QED
        BY <1>1, <3>1 DEF WasSaid
    <2> QED
      BY <1>6, <1>7, <1>8, <2>1, <2>2 DEF Occurs
  <1>12. \A d \in Clients : \A i \in 1..Len(inbox[d]) : WasSaid(inbox[d][i], said')
    <2> SUFFICES ASSUME NEW d \in Clients, NEW i \in 1..Len(inbox[d])
                 PROVE  WasSaid(inbox[d][i], said')
      OBVIOUS
    <2>1. \A y : y = inbox[d][i] => WasSaid(y, said')
      BY <1>2, <1>5 DEF RelayedOnce
    <2> QED
      BY <1>1, <2>1 DEF WasSaid
  <1>13. RelayedOnce'
    <2>1. \A d \in Clients : \A i \in 1..Len(outbox'[d]) :
             /\ outbox'[d][i][1] = d /\ WasSaid(outbox'[d][i], said')
             /\ \A e \in Clients : ~Occurs(outbox'[d][i], inbox'[e])
             /\ \A j \in 1..Len(outbox'[d]) : outbox'[d][j] = outbox'[d][i] => j = i
      BY <1>1, <1>10
    <2>2. \A h \in Threads : Relaying(h)' =>
             /\ WasSaid(hmsg'[h], said')
             /\ \A d \in Clients : ~Occurs(hmsg'[h], outbox'[d])
             /\ hpc'[h] = "lock" => \A d \in Clients : ~Occurs(hmsg'[h], inbox'[d])
             /\ \A g \in Threads : Relaying(g)' /\ hmsg'[g] = hmsg'[h] => g = h
      <3>1. \A h \in Threads : Relaying(h)' <=> Relaying(h)
        BY <1>1 DEF Relaying
      <3> QED
        BY <1>1, <1>2, <1>11, <3>1 DEF RelayedOnce
    <2>3. \A d \in Clients : \A i \in 1..Len(inbox'[d]) : WasSaid(inbox'[d][i], said')
      BY <1>1, <1>12
    <2> QED
      BY <2>1, <2>2, <2>3 DEF RelayedOnce
  <1>14. OneSender' /\ SendingIsLast' /\ SameOrder'
    <2>1. OneSender'
      BY <1>1, <1>2 DEF OneSender
    <2>2. SendingIsLast'
      BY <1>1, <1>2 DEF SendingIsLast
    <2>3. SameOrder'
      BY <1>1, <1>2 DEF SameOrder
    <2> QED
      BY <2>1, <2>2, <2>3
  <1> QED
    BY <1>13, <1>14 DEF OrderInv

LEMMA LeaveKeepsOrder ==
  ASSUME TypeInv, OrderInv, NEW c \in Clients, Leave(c)
  PROVE  OrderInv'
  <1>1. /\ \A d \in Clients : outbox'[d] = outbox[d] \/ outbox'[d] = <<>>
        /\ UNCHANGED <<inbox, said, mutex, hpc, hmsg>>
    BY DEF Leave, handVars, TypeInv, TypeOK
  <1>2. OneSender /\ RelayedOnce /\ SendingIsLast /\ SameOrder
    BY DEF OrderInv
  <1>3. \A d \in Clients : \A i \in 1..Len(outbox'[d]) : outbox'[d] = outbox[d]
    BY <1>1, EmptySeq
  <1>4. \A x : WasSaid(x, said') <=> WasSaid(x, said)
    BY <1>1 DEF WasSaid
  <1>5. RelayedOnce'
    BY <1>1, <1>2, <1>3, <1>4 DEF RelayedOnce, Relaying, Occurs
  <1>6. OneSender' /\ SendingIsLast' /\ SameOrder'
    <2>1. OneSender'
      BY <1>1, <1>2 DEF OneSender
    <2>2. SendingIsLast'
      BY <1>1, <1>2 DEF SendingIsLast
    <2>3. SameOrder'
      BY <1>1, <1>2 DEF SameOrder
    <2> QED
      BY <2>1, <2>2, <2>3
  <1> QED
    BY <1>5, <1>6 DEF OrderInv

LEMMA ReadKeepsOrder ==
  ASSUME TypeInv, OrderInv, NEW h \in Threads, HandlerRead(h), hpc'[h] = "lock"
  PROVE  OrderInv'
  <1>1. PICK c \in Clients :
           /\ outbox[c] # <<>> /\ hmsg' = [hmsg EXCEPT ![h] = Head(outbox[c])]
           /\ outbox' = [outbox EXCEPT ![c] = Tail(@)]
           /\ hpc' = [hpc EXCEPT ![h] = "lock"]
    <2>1. RefersTo(hsock[h]) \in Clients
      BY DEF HandlerRead, RefersTo, TypeInv, TypeOK
    <2>2. "remove" # "lock" /\ hpc \in [Threads -> HandlerPC]
      BY DEF TypeInv, TypeOK
    <2> QED
      BY <2>1, <2>2 DEF HandlerRead
  <1>2. /\ hpc[h] = "read" /\ UNCHANGED <<said, inbox, mutex>>
        /\ TypeOK /\ OneSender /\ RelayedOnce /\ SendingIsLast /\ SameOrder
    BY DEF HandlerRead, TypeInv, OrderInv
  <1> DEFINE m == Head(outbox[c])
  <1>3. /\ outbox[c] \in Seq(Chunks) /\ Len(outbox[c]) \in Nat /\ Len(outbox[c]) >= 1
        /\ m \in Chunks /\ m = outbox[c][1]
        /\ Len(Tail(outbox[c])) = Len(outbox[c]) - 1
        /\ \A i \in 1..Len(Tail(outbox[c])) : Tail(outbox[c])[i] = outbox[c][i + 1]
    BY <1>1, <1>2, HeadTailProperties, EmptySeq, LenProperties DEF TypeOK
  <1>4. /\ outbox'[c] = Tail(outbox[c]) /\ \A d \in Clients \ {c} : outbox'[d] = outbox[d]
        /\ hmsg'[h] = m /\ \A g \in Threads \ {h} : hmsg'[g] = hmsg[g]
        /\ hpc'[h] = "lock" /\ \A g \in Threads \ {h} : hpc'[g] = hpc[g]
    BY <1>1, <1>2 DEF TypeOK
  <1>5. /\ m[1] = c /\ WasSaid(m, said) /\ \A d \in Clients : ~Occurs(m, inbox[d])
        /\ \A j \in 1..Len(outbox[c]) : outbox[c][j] = m => j = 1
    BY <1>2, <1>3 DEF RelayedOnce
  <1> HIDE DEF m
  <1>6. \A d \in Clients : \A i \in 1..Len(outbox'[d]) :
           \E k \in 1..Len(outbox[d]) : /\ outbox'[d][i] = outbox[d][k]
                                        /\ k = IF d = c THEN i + 1 ELSE i
    <2>1. ASSUME NEW i \in 1..Len(outbox'[c])
          PROVE  i + 1 \in 1..Len(outbox[c]) /\ outbox'[c][i] = outbox[c][i + 1]
      BY <1>3, <1>4
    <2> QED
      BY <1>4, <2>1
  <1>7. \A d \in Clients : ~Occurs(m, outbox'[d])
    <2> SUFFICES ASSUME NEW d \in Clients, NEW i \in 1..Len(outbox'[d]), outbox'[d][i] = m
                 PROVE  FALSE
      BY DEF Occurs
    <2>1. PICK k \in 1..Len(outbox[d]) : /\ outbox[d][k] = m
                                         /\ k = IF d = c THEN i + 1 ELSE i
      BY <1>6
    <2>2. d = c
      BY <1>2, <1>5, <2>1 DEF RelayedOnce
    <2>3. k = 1 /\ k = i + 1 /\ i \in Nat /\ i >= 1
      BY <1>3, <1>5, <2>1, <2>2
    <2> QED
      BY <2>3
  <1>8. \A x : WasSaid(x, said') <=> WasSaid(x, said)
    BY <1>2 DEF WasSaid
  <1>9. ASSUME NEW d \in Clients, NEW i \in 1..Len(outbox'[d])
        PROVE  /\ outbox'[d][i][1] = d /\ WasSaid(outbox'[d][i], said')
               /\ \A e \in Clients : ~Occurs(outbox'[d][i], inbox'[e])
               /\ \A j \in 1..Len(outbox'[d]) : outbox'[d][j] = outbox'[d][i] => j = i
    <2>1. PICK k \in 1..Len(outbox[d]) : /\ outbox'[d][i] = outbox[d][k]
                                         /\ k = IF d = c THEN i + 1 ELSE i
      BY <1>6
    <2>2. /\ outbox[d][k][1] = d /\ WasSaid(outbox[d][k], said)
          /\ \A e \in Clients : ~Occurs(outbox[d][k], inbox[e])
          /\ \A j \in 1..Len(outbox[d]) : outbox[d][j] = outbox[d][k] => j = k
      BY <1>2 DEF RelayedOnce
    <2>3. ASSUME NEW j \in 1..Len(outbox'[d]), outbox'[d][j] = outbox'[d][i] PROVE j = i
      <3>1. PICK l \in 1..Len(outbox[d]) : /\ outbox'[d][j] = outbox[d][l]
                                           /\ l = IF d = c THEN j + 1 ELSE j
        BY <1>6
      <3>2. l = k
        BY <2>1, <2>2, <2>3, <3>1
      <3> QED
        BY <2>1, <3>1, <3>2
    <2> QED
      BY <1>2, <1>8, <2>1, <2>2, <2>3
  <1>10. ASSUME NEW g \in Threads, Relaying(g)
         PROVE  /\ g # h /\ WasSaid(hmsg[g], said') /\ hmsg[g] # m
                /\ \A d \in Clients : ~Occurs(hmsg[g], outbox'[d])
    <2>1. g # h
      BY <1>2, <1>10 DEF Relaying
    <2>2. WasSaid(hmsg[g], said) /\ \A d \in Clients : ~Occurs(hmsg[g], outbox[d])
      BY <1>2, <1>10 DEF RelayedOnce
    <2>3. hmsg[g] # m
      BY <1>3, <2>2 DEF Occurs
    <2>4. \A d \in Clients : ~Occurs(hmsg[g], outbox'[d])
      BY <1>6, <2>2 DEF Occurs
    <2> QED
      BY <1>8, <2>1, <2>2, <2>3, <2>4
  <1>11. /\ \A g \in Threads : Relaying(g)' <=> g = h \/ Relaying(g)
         /\ \A g \in Threads : hpc'[g] = "send" <=> hpc[g] = "send"
         /\ \A g \in Threads : hpc'[g] = "lock" <=> g = h \/ hpc[g] = "lock"
         /\ ~Relaying(h)
    BY <1>2, <1>4 DEF Relaying
  <1>12. ASSUME NEW g \in Threads, Relaying(g)'
         PROVE  /\ WasSaid(hmsg'[g], said')
                /\ \A d \in Clients : ~Occurs(hmsg'[g], outbox'[d])
                /\ hpc'[g] = "lock" => \A d \in Clients : ~Occurs(hmsg'[g], inbox'[d])
                /\ \A k \in Threads : Relaying(k)' /\ hmsg'[k] = hmsg'[g] => k = g
    <2>1. CASE g = h
      BY <1>2, <1>4, <1>5, <1>7, <1>8, <1>10, <1>11, <2>1
    <2>2. CASE g # h
      <3>1. Relaying(g) /\ hmsg'[g] = hmsg[g]
        BY <1>4, <1>11, <1>12, <2>2
      <3>2. \A k \in Threads : Relaying(k)' /\ hmsg'[k] = hmsg'[g] => k = g
        <4> SUFFICES ASSUME NEW k \in Threads, Relaying(k)', hmsg'[k] = hmsg'[g] PROVE k = g
          OBVIOUS
        <4>1. k # h
          BY <1>4, <1>10, <3>1
        <4>2. Relaying(k) /\ hmsg[k] = hmsg[g]
          BY <1>4, <1>11, <3>1, <4>1
        <4> QED
          BY <1>2, <3>1, <4>2 DEF RelayedOnce
      <3>3. hpc'[g] = "lock" => \A d \in Clients : ~Occurs(hmsg'[g], inbox'[d])
        BY <1>2, <1>11, <2>2, <3>1 DEF RelayedOnce
      <3>4. WasSaid(hmsg'[g], said') /\ \A d \in Clients : ~Occurs(hmsg'[g], outbox'[d])
        BY <1>10, <3>1
      <3> QED
        BY <3>2, <3>3, <3>4
    <2> QED
      BY <2>1, <2>2
  <1>13. RelayedOnce'
    <2>1. \A d \in Clients : \A i \in 1..Len(inbox'[d]) : WasSaid(inbox'[d][i], said')
      BY <1>2, <1>8 DEF RelayedOnce
    <2> QED
      BY <1>9, <1>12, <2>1 DEF RelayedOnce
  <1>14. OneSender' /\ SameOrder'
    BY <1>2, <1>11 DEF OneSender, SameOrder, Before
  <1>15. SendingIsLast'
    <2>1. \A g \in Threads : hpc'[g] = "send" => hpc[g] = "send" /\ hmsg'[g] = hmsg[g]
      BY <1>2, <1>4
    <2> QED
      BY <1>2, <2>1 DEF SendingIsLast, Before
  <1> QED
    BY <1>13, <1>14, <1>15 DEF OrderInv

\* mutex is free, so nobody sends: what h sends is in no inbox yet.
LEMMA LockKeepsOrder ==
  ASSUME TypeInv, OrderInv, NEW h \in Threads, HandlerLock(h)
  PROVE  OrderInv'
  <1>1. /\ hpc[h] = "lock" /\ mutex = None /\ mutex' = h
        /\ hpc' = [hpc EXCEPT ![h] = "send"]
        /\ UNCHANGED <<outbox, inbox, said, hmsg>>
    BY DEF HandlerLock, MutexFree, clientVars
  <1>2. /\ TypeOK /\ OneSender /\ RelayedOnce /\ SendingIsLast /\ SameOrder
        /\ None \notin Threads
    BY ChatAssumption DEF TypeInv, OrderInv, Threads
  <1>3. hpc'[h] = "send" /\ \A g \in Threads \ {h} : hpc'[g] = hpc[g] /\ hpc[g] # "send"
    BY <1>1, <1>2 DEF TypeOK, OneSender
  <1>4. OneSender'
    BY <1>1, <1>3 DEF OneSender
  <1>5. RelayedOnce'
    <2>1. \A g \in Threads : /\ Relaying(g)' <=> Relaying(g)
                             /\ hpc'[g] = "lock" => hpc[g] = "lock"
      BY <1>1, <1>3 DEF Relaying
    <2>2. \A x : WasSaid(x, said') <=> WasSaid(x, said)
      BY <1>1 DEF WasSaid
    <2> QED
      BY <1>1, <1>2, <2>1, <2>2 DEF RelayedOnce, Occurs
  <1>6. SendingIsLast'
    <2>1. \A d \in Clients : ~Occurs(hmsg[h], inbox[d])
      BY <1>1, <1>2 DEF RelayedOnce, Relaying
    <2> QED
      BY <1>1, <1>3, <2>1 DEF SendingIsLast, Before, Occurs
  <1> QED
    BY <1>1, <1>2, <1>4, <1>5, <1>6 DEF OrderInv, SameOrder, Before

\* What h has sent has been said, by nobody who is still to relay it.
LEMMA UnlockKeepsOrder ==
  ASSUME TypeInv, OrderInv, NEW h \in Threads, HandlerUnlock(h)
  PROVE  OrderInv'
  <1>1. /\ hpc[h] = "send" /\ mutex' = None
        /\ hpc' = [hpc EXCEPT ![h] = "read"] /\ hmsg' = [hmsg EXCEPT ![h] = None]
        /\ UNCHANGED <<outbox, inbox, said>>
    BY DEF HandlerUnlock, clientVars
  <1>2. /\ TypeOK /\ OneSender /\ RelayedOnce /\ SendingIsLast /\ SameOrder
        /\ None \notin Threads
    BY ChatAssumption DEF TypeInv, OrderInv, Threads
  <1>3. /\ hpc'[h] = "read"
        /\ \A g \in Threads \ {h} : hpc'[g] = hpc[g] /\ hmsg'[g] = hmsg[g] /\ hpc[g] # "send"
    BY <1>1, <1>2 DEF TypeOK, OneSender
  <1>4. OneSender' /\ SendingIsLast'
    BY <1>1, <1>2, <1>3 DEF OneSender, SendingIsLast
  <1>5. RelayedOnce'
    <2>1. \A g \in Threads : Relaying(g)' => /\ Relaying(g) /\ hmsg'[g] = hmsg[g]
                                             /\ hpc'[g] = "lock" => hpc[g] = "lock"
      BY <1>1, <1>3 DEF Relaying
    <2>2. \A x : WasSaid(x, said') <=> WasSaid(x, said)
      BY <1>1 DEF WasSaid
    <2> QED
      BY <1>1, <1>2, <2>1, <2>2 DEF RelayedOnce, Occurs
  <1> QED
    BY <1>1, <1>2, <1>4, <1>5 DEF OrderInv, SameOrder, Before

\* What is written now comes after everything else, wherever it is.
LEMMA WriteKeepsOrder ==
  ASSUME TypeInv, OrderInv, NEW h \in Threads, HandlerWrite(h)
  PROVE  OrderInv'
  <1>1. /\ hpc[h] = "send" /\ UNCHANGED <<outbox, said, mutex, hpc, hmsg>>
        /\ TypeOK /\ OneSender /\ RelayedOnce /\ SendingIsLast /\ SameOrder
        /\ \A g \in Threads : Relaying(g)' <=> Relaying(g)
    BY DEF HandlerWrite, TypeInv, OrderInv, Relaying
  <1>2. CASE UNCHANGED inbox
    BY <1>1, <1>2, OrderElsewhere
  <1>3. ASSUME NEW c \in Clients, inbox' = [inbox EXCEPT ![c] = Append(@, hmsg[h])]
        PROVE  OrderInv'
    <2> DEFINE m == hmsg[h]
               L == Len(inbox[c])
    <2>1. /\ inbox[c] \in Seq(Chunks) /\ m \in Chunks /\ L \in Nat
          /\ inbox'[c] = Append(inbox[c], m) /\ \A d \in Clients \ {c} : inbox'[d] = inbox[d]
      BY <1>1, <1>3 DEF TypeInv, TypeOK, MessageHeld, Relaying
    <2>2. /\ WasSaid(m, said) /\ \A d \in Clients : ~Occurs(m, outbox[d])
          /\ \A g \in Threads : Relaying(g) /\ hmsg[g] = m => g = h
          /\ \A g \in Threads : hpc[g] = "send" => g = h
      BY <1>1 DEF RelayedOnce, OneSender, Relaying
    <2>3. /\ Len(inbox'[c]) = L + 1 /\ inbox'[c][L + 1] = m
          /\ \A i \in 1..L : inbox'[c][i] = inbox[c][i]
      BY <2>1, AppendProperties
    <2> HIDE DEF m
    <2>4. \A d \in Clients : \A i \in 1..Len(inbox'[d]) :
             (i \in 1..Len(inbox[d]) /\ inbox'[d][i] = inbox[d][i]) \/ (d = c /\ i = L + 1)
      <3>1. \A i \in 1..Len(inbox'[c]) : i \in 1..L \/ i = L + 1
        BY <2>1, <2>3
      <3> QED
        BY <2>1, <2>3, <3>1
    <2>5. \A x : \A d \in Clients : Occurs(x, inbox'[d]) => Occurs(x, inbox[d]) \/ x = m
      BY <2>3, <2>4 DEF Occurs
    <2>6. ASSUME NEW d \in Clients, NEW x \in Chunks, NEW y \in Chunks,
                 Before(inbox'[d], x, y), y # m
          PROVE  Before(inbox[d], x, y)
      <3>1. PICK i, j \in 1..Len(inbox'[d]) : i < j /\ inbox'[d][i] = x /\ inbox'[d][j] = y
        BY <2>6 DEF Before
      <3>2. j \in 1..Len(inbox[d]) /\ inbox[d][j] = y
        BY <2>3, <2>4, <2>6, <3>1
      <3>3. i \in 1..Len(inbox[d]) /\ inbox[d][i] = x
        BY <2>1, <2>4, <3>1, <3>2
      <3> QED
        BY <3>1, <3>2, <3>3 DEF Before
    <2>7. RelayedOnce'
      <3>1. \A x : WasSaid(x, said') <=> WasSaid(x, said)
        BY <1>1 DEF WasSaid
      <3>2. \A d \in Clients : \A i \in 1..Len(outbox[d]) :
               \A e \in Clients : ~Occurs(outbox[d][i], inbox'[e])
        <4>1. \A d \in Clients : \A i \in 1..Len(outbox[d]) : outbox[d][i] # m
          BY <2>2 DEF Occurs
        <4>2. \A d \in Clients : \A i \in 1..Len(outbox[d]) :
                 \A e \in Clients : ~Occurs(outbox[d][i], inbox[e])
          BY <1>1 DEF RelayedOnce
        <4> QED
          BY <2>5, <4>1, <4>2
      <3>3. \A g \in Threads : hpc[g] = "lock" => \A e \in Clients : ~Occurs(hmsg[g], inbox'[e])
        <4>1. \A g \in Threads : hpc[g] = "lock" => Relaying(g) /\ hmsg[g] # m
          BY <1>1, <2>2 DEF Relaying
        <4> QED
          BY <1>1, <2>5, <4>1 DEF RelayedOnce
      <3>4. \A d \in Clients : \A i \in 1..Len(inbox'[d]) : WasSaid(inbox'[d][i], said)
        BY <1>1, <2>2, <2>3, <2>4 DEF RelayedOnce
      <3>5. \A d \in Clients : \A i \in 1..Len(outbox'[d]) :
               /\ outbox'[d][i][1] = d /\ WasSaid(outbox'[d][i], said')
               /\ \A e \in Clients : ~Occurs(outbox'[d][i], inbox'[e])
               /\ \A j \in 1..Len(outbox'[d]) : outbox'[d][j] = outbox'[d][i] => j = i
        BY <1>1, <3>1, <3>2 DEF RelayedOnce
      <3>6. \A g \in Threads : Relaying(g)' =>
               /\ WasSaid(hmsg'[g], said')
               /\ \A d \in Clients : ~Occurs(hmsg'[g], outbox'[d])
               /\ hpc'[g] = "lock" => \A d \in Clients : ~Occurs(hmsg'[g], inbox'[d])
               /\ \A k \in Threads : Relaying(k)' /\ hmsg'[k] = hmsg'[g] => k = g
        BY <1>1, <3>1, <3>3 DEF RelayedOnce
      <3>7. \A d \in Clients : \A i \in 1..Len(inbox'[d]) : WasSaid(inbox'[d][i], said')
        BY <3>1, <3>4
      <3> QED
        BY <3>5, <3>6, <3>7 DEF RelayedOnce
    <2>8. \A d \in Clients : \A n \in Chunks : n # m => ~Before(inbox'[d], m, n)
      BY <1>1, <2>1, <2>6 DEF SendingIsLast, m
    <2>9. SendingIsLast'
      BY <1>1, <2>2, <2>8 DEF SendingIsLast, m
    <2>10. SameOrder'
      <3> SUFFICES ASSUME NEW d \in Clients, NEW e \in Clients,
                          NEW x \in Chunks, NEW y \in Chunks, x # y,
                          Before(inbox'[d], x, y), Before(inbox'[e], y, x)
                   PROVE  FALSE
        BY DEF SameOrder
      <3>1. x # m /\ y # m
        BY <2>8
      <3>2. Before(inbox[d], x, y) /\ Before(inbox[e], y, x)
        BY <2>6, <3>1
      <3> QED
        BY <1>1, <3>2 DEF SameOrder
    <2>11. OneSender'
      BY <1>1 DEF OneSender
    <2> QED
      BY <2>7, <2>9, <2>10, <2>11 DEF OrderInv
  <1>4. RefersTo(cli_socks[hi[h]]) # None => RefersTo(cli_socks[hi[h]]) \in Clients
    BY <1>1 DEF RefersTo, TypeOK
  <1> QED
    BY <1>2, <1>3, <1>4 DEF HandlerWrite

LEMMA HandlerKeepsOrder ==
  ASSUME TypeInv, OrderInv, NEW h \in Threads, HandlerStep(h)
  PROVE  OrderInv'
  <1>0. hpc \in [Threads -> HandlerPC]
    BY DEF TypeInv, TypeOK
  <1>1. CASE HandlerStart(h)
    BY <1>0, <1>1, OrderElsewhere DEF HandlerStart, Relaying, clientVars
  <1>2. CASE HandlerRead(h)
    <2>1. CASE hpc'[h] = "lock"
      BY <1>2, <2>1, ReadKeepsOrder
    <2>2. CASE hpc'[h] # "lock"
      <3>1. /\ hpc[h] = "read" /\ hpc' = [hpc EXCEPT ![h] = "remove"]
            /\ UNCHANGED <<outbox, inbox, said, mutex, hmsg>>
        BY <1>0, <1>2, <2>2 DEF HandlerRead
      <3> QED
        BY <1>0, <3>1, OrderElsewhere DEF Relaying
    <2> QED
      BY <2>1, <2>2
  <1>3. CASE HandlerRemove(h)
    BY <1>0, <1>3, OrderElsewhere DEF HandlerRemove, Relaying, clientVars
  <1>4. CASE HandlerClose(h)
    BY <1>0, <1>4, OrderElsewhere DEF HandlerClose, Relaying, clientVars
  <1> QED
    BY <1>1, <1>2, <1>3, <1>4, LockKeepsOrder, WriteKeepsOrder, UnlockKeepsOrder DEF HandlerStep

LEMMA MainKeepsOrder ==
  ASSUME TypeInv, OrderInv, MainStep
  PROVE  OrderInv'
  <1>1. CASE MainCreate
    <2>1. /\ hpc \in [Threads -> HandlerPC] /\ newest \in Threads /\ hpc[newest] = "none"
          /\ hpc' = [hpc EXCEPT ![newest] = "start"]
          /\ UNCHANGED <<outbox, inbox, said, mutex, hmsg>>
      BY <1>1 DEF MainCreate, clientVars, TypeInv, TypeOK, CountInv, CountTyped,
                  ThreadsFresh, Threads
    <2> QED
      BY <2>1, OrderElsewhere DEF Relaying
  <1>2. CASE MainAccept \/ MainAcceptFails \/ MainRegister
    <2>1. UNCHANGED <<outbox, inbox, said, mutex, hmsg, hpc>>
      BY <1>2 DEF MainAccept, MainAcceptFails, MainRegister, clientVars, handVars
    <2> QED
      BY <2>1, OrderElsewhere DEF Relaying
  <1> QED
    BY <1>1, <1>2 DEF MainStep

LEMMA ClientKeepsOrder ==
  ASSUME TypeInv, OrderInv, NEW c \in Clients, Connect(c) \/ Say(c) \/ Leave(c)
  PROVE  OrderInv'
  <1>1. CASE Connect(c)
    <2>1. UNCHANGED <<outbox, inbox, said, mutex, hmsg, hpc>>
      BY <1>1 DEF Connect, handVars
    <2> QED
      BY <2>1, OrderElsewhere DEF Relaying
  <1> QED
    BY <1>1, SayKeepsOrder, LeaveKeepsOrder

LEMMA LeftOnlyKeepsOrder == TypeInv /\ OrderInv /\ LeftOnly => OrderInv'
  <1> SUFFICES ASSUME TypeInv, OrderInv, LeftOnly PROVE OrderInv'
    OBVIOUS
  <1>1. UNCHANGED <<outbox, inbox, said, mutex, hmsg, hpc>>
    BY DEF LeftOnly, handVars
  <1> QED
    BY <1>1, OrderElsewhere DEF Relaying

LEMMA InitOrder == Init => OrderInv
  <1> SUFFICES ASSUME Init PROVE OrderInv
    OBVIOUS
  <1>1. /\ \A c \in Clients : inbox[c] = <<>> /\ outbox[c] = <<>>
        /\ \A h \in Threads : hpc[h] = "none"
        /\ mutex = None /\ None \notin Threads
    BY ChatAssumption DEF Init, Threads
  <1>2. \A c \in Clients : 1..Len(inbox[c]) = {} /\ 1..Len(outbox[c]) = {}
    BY <1>1, EmptySeq
  <1> QED
    BY <1>1, <1>2 DEF OrderInv, OneSender, RelayedOnce, SendingIsLast, SameOrder, Relaying, Before

\* A step that changes nothing is one in which nobody leaves.
LEMMA StutterIsLeftOnly == TypeInv /\ UNCHANGED vars => LeftOnly
  BY DEF TypeInv, TypeOK, LeftOnly, vars, clientVars, tableVars, mainVars, handVars

LEMMA StepTypes == TypeInv /\ [Next]_vars => TypeInv'
  <1> SUFFICES ASSUME TypeInv, [Next]_vars PROVE TypeInv'
    OBVIOUS
  <1> QED
    BY ClientKeepsTypes, MainKeepsTypes, HandlerKeepsTypes, LeftOnlyKeepsTypes, StutterIsLeftOnly
    DEF Next

LEMMA StepOrder == TypeInv /\ OrderInv /\ [Next]_vars => OrderInv'
  <1> SUFFICES ASSUME TypeInv, OrderInv, [Next]_vars PROVE OrderInv'
    OBVIOUS
  <1> QED
    BY ClientKeepsOrder, MainKeepsOrder, HandlerKeepsOrder, LeftOnlyKeepsOrder, StutterIsLeftOnly
    DEF Next

\* The relay is totally ordered: mutex is held over the whole loop of send_msg,
\* each chunk is relayed by one handler, and what is being sent is the last that
\* every inbox that has it (chat_server.c:78-79, 94-101).
THEOREM RelaysInOneOrder == Spec => []SameOrder
  <1>1. TypeInv /\ OrderInv => SameOrder
    BY DEF OrderInv
  <1>2. Init => TypeInv /\ OrderInv
    BY InitTypes, InitOrder
  <1>3. TypeInv /\ OrderInv /\ [Next]_vars => (TypeInv /\ OrderInv)'
    BY StepTypes, StepOrder
  <1> QED
    BY <1>1, <1>2, <1>3, PTL DEF Spec

-----------------------------------------------------------------------------
\* Who registers late gets a suffix.

\* The end of a sequence, by its elements.
LEMMA EndsWithByIndex ==
  ASSUME NEW S, NEW s \in Seq(S), NEW t \in Seq(S), Len(t) <= Len(s)
  PROVE  EndsWith(s, t) <=> \A i \in 1..Len(t) : t[i] = s[Len(s) - Len(t) + i]
  <1> DEFINE k == Len(s)
             l == Len(t)
             u == SubSeq(s, k - l + 1, k)
  <1>1. k \in Nat /\ l \in Nat /\ l <= k /\ s \in [1..k -> S]
    BY LenProperties
  <1> HIDE DEF k, l
  <1>2. /\ k - l + 1 \in Int /\ k \in Int /\ \A i \in (k - l + 1)..k : s[i] \in S
        /\ k - (k - l + 1) + 1 = l /\ (k - l + 1 <= k <=> l # 0)
        /\ \A i \in 1..l : (k - l + 1) + i - 1 = k - l + i
    BY <1>1
  <1>3. /\ u \in Seq(S) /\ Len(u) = IF k - l + 1 <= k THEN k - (k - l + 1) + 1 ELSE 0
        /\ \A i \in 1..(k - (k - l + 1) + 1) : u[i] = s[(k - l + 1) + i - 1]
    BY <1>2, SubSeqProperties
  <1> HIDE DEF u
  <1>4. Len(u) = l /\ \A i \in 1..l : u[i] = s[k - l + i]
    BY <1>1, <1>2, <1>3
  <1>5. t = u <=> \A i \in 1..l : t[i] = u[i]
    BY <1>3, <1>4, SeqEqual DEF l
  <1> QED
    BY <1>4, <1>5 DEF EndsWith, k, l, u

LEMMA EndsWithNothing ==
  ASSUME NEW S, NEW s \in Seq(S)
  PROVE  EndsWith(s, <<>>)
  <1>1. <<>> \in Seq(S) /\ Len(<<>>) = 0 /\ Len(s) \in Nat
    BY EmptySeq, LenProperties
  <1>2. Len(<<>>) <= Len(s) /\ 1..Len(<<>>) = {}
    BY <1>1
  <1> QED
    BY <1>1, <1>2, EndsWithByIndex

LEMMA EndsWithAppended ==
  ASSUME NEW S, NEW s \in Seq(S), NEW t \in Seq(S), NEW m \in S, EndsWith(s, t)
  PROVE  EndsWith(Append(s, m), Append(t, m))
  <1> DEFINE k == Len(s)
             l == Len(t)
             sm == Append(s, m)
             tm == Append(t, m)
  <1>1. /\ k \in Nat /\ l \in Nat /\ l <= k /\ sm \in Seq(S) /\ tm \in Seq(S)
        /\ Len(sm) = k + 1 /\ Len(tm) = l + 1 /\ sm[k + 1] = m /\ tm[l + 1] = m
        /\ \A i \in 1..k : sm[i] = s[i]
        /\ \A i \in 1..l : tm[i] = t[i]
    BY LenProperties, AppendProperties DEF EndsWith
  <1>2. \A i \in 1..l : t[i] = s[k - l + i]
    BY <1>1, EndsWithByIndex
  <1> HIDE DEF k, l, sm, tm
  <1>3. \A i \in 1..(l + 1) : tm[i] = sm[(k + 1) - (l + 1) + i]
    <2> SUFFICES ASSUME NEW i \in 1..(l + 1) PROVE tm[i] = sm[(k + 1) - (l + 1) + i]
      OBVIOUS
    <2>1. CASE i = l + 1
      BY <1>1, <2>1
    <2>2. CASE i \in 1..l
      <3>1. k - l + i \in 1..k /\ (k + 1) - (l + 1) + i = k - l + i
        BY <1>1, <2>2
      <3> QED
        BY <1>1, <1>2, <2>2, <3>1
    <2> QED
      BY <1>1, <2>1, <2>2
  <1>4. Len(tm) <= Len(sm)
    BY <1>1
  <1> QED
    BY <1>1, <1>3, <1>4, EndsWithByIndex DEF sm, tm

\* Steps that leave the entries, what they refer to and the relay as they are.
LEMMA SuffixElsewhere ==
  ASSUME TypeInv, SuffixInv, left \subseteq left', UNCHANGED <<inbox, cli_socks, cli_cnt>>,
         NobodyRemoved' => NobodyRemoved,
         NobodyRemoved' => EntriesOpen',
         NobodyRemoved' => \A i \in Entries : RefersTo(cli_socks[i])' = RefersTo(cli_socks[i]),
         \A h \in Threads : /\ hpc'[h] = "send" <=> hpc[h] = "send"
                            /\ hpc[h] = "send" => hi'[h] = hi[h] /\ hmsg'[h] = hmsg[h]
  PROVE  SuffixInv'
  <1> SUFFICES ASSUME NobodyRemoved' PROVE NothingBefore' /\ InStep'
    BY DEF SuffixInv
  <1>1. /\ NothingBefore /\ InStep /\ Entries' = Entries
        /\ \A i \in Entries : ClientAt(i)' = ClientAt(i)
    BY DEF SuffixInv, ClientAt, Entries
  <1>2. NothingBefore'
    BY <1>1 DEF NothingBefore
  <1>3. InStep'
    <2> SUFFICES ASSUME NEW i \in Entries, NEW j \in Entries, i < j,
                        None \notin {ClientAt(i), ClientAt(j)},
                        {ClientAt(i), ClientAt(j)} \cap left' = {}
                 PROVE  IF \E h \in Threads : hpc'[h] = "send" /\ i < hi'[h] /\ hi'[h] <= j
                        THEN \A h \in Threads : hpc'[h] = "send" =>
                                EndsWith(inbox[ClientAt(i)], Append(inbox[ClientAt(j)], hmsg'[h]))
                        ELSE EndsWith(inbox[ClientAt(i)], inbox[ClientAt(j)])
      BY <1>1 DEF InStep
    <2>1. {ClientAt(i), ClientAt(j)} \cap left = {}
      OBVIOUS
    <2>2. IF \E h \in Threads : hpc[h] = "send" /\ i < hi[h] /\ hi[h] <= j
          THEN \A h \in Threads : hpc[h] = "send" =>
                  EndsWith(inbox[ClientAt(i)], Append(inbox[ClientAt(j)], hmsg[h]))
          ELSE EndsWith(inbox[ClientAt(i)], inbox[ClientAt(j)])
      BY <1>1, <2>1 DEF InStep
    <2>3. \A h \in Threads : hpc'[h] = "send" =>
             hpc[h] = "send" /\ hi'[h] = hi[h] /\ hmsg'[h] = hmsg[h]
      OBVIOUS
    <2>4. \A h \in Threads : hpc[h] = "send" =>
             hpc'[h] = "send" /\ hi'[h] = hi[h] /\ hmsg'[h] = hmsg[h]
      OBVIOUS
    <2> QED
      BY <2>2, <2>3, <2>4
  <1> QED
    BY <1>2, <1>3

LEMMA AcceptKeepsSuffix ==
  ASSUME TypeInv, SuffixInv, MainAccept
  PROVE  SuffixInv'
  <1>1. PICK n, c : /\ n = LowestFree /\ c \in backlog
                    /\ file' = [file EXCEPT ![n] = c] /\ cli_sock' = n
    BY DEF MainAccept
  <1>2. /\ mpc' = "register" /\ left' = left
        /\ UNCHANGED <<inbox, cli_socks, cli_cnt, hpc, hi, hmsg>>
    BY DEF MainAccept, tableVars, handVars
  <1>3. /\ n \in Fds /\ file[n] = None /\ c \in Clients /\ c # None
        /\ file \in [Fds -> Clients \cup {None}]
        /\ cli_socks \in [0..MaxCli -> Fds \cup {0, Failed}] /\ MaxFd \in Nat
        /\ \A f \in Fds : file[f] # c
    BY <1>1, DescriptorIsFree, ChatAssumption
    DEF TypeInv, TypeOK, CountInv, CountTyped, ThreadsFresh, FilesDistinct
  <1>4. Failed \notin Fds
    BY <1>3 DEF Failed, Fds
  <1>5. NobodyRemoved' => NobodyRemoved
    BY <1>2 DEF NobodyRemoved
  <1>6. ASSUME NobodyRemoved
        PROVE  \A i \in Entries : /\ RefersTo(cli_socks[i])' = RefersTo(cli_socks[i])
                                  /\ cli_socks[i] # n
    <2> SUFFICES ASSUME NEW i \in Entries
                 PROVE  /\ RefersTo(cli_socks[i])' = RefersTo(cli_socks[i])
                        /\ cli_socks[i] # n
      OBVIOUS
    <2>1. cli_socks[i] = Failed \/ RefersTo(cli_socks[i]) # None
      BY <1>6 DEF SuffixInv, EntriesOpen, ClientAt
    <2>2. cli_socks[i] # n
      BY <1>3, <1>4, <2>1 DEF RefersTo
    <2> QED
      BY <1>1, <1>2, <1>3, <2>2 DEF RefersTo
  <1>7. ASSUME NobodyRemoved PROVE EntriesOpen'
    <2>1. EntriesOpen /\ Entries' = Entries
      BY <1>2, <1>7 DEF SuffixInv, Entries
    <2>2. RefersTo(cli_sock)' # None
      BY <1>1, <1>3 DEF RefersTo
    <2>3. \A i \in Entries : ClientAt(i)' = ClientAt(i) /\ cli_socks'[i] = cli_socks[i]
      BY <1>2, <1>6, <1>7 DEF ClientAt
    <2> QED
      BY <1>1, <1>6, <1>7, <2>1, <2>2, <2>3 DEF EntriesOpen
  <1> QED
    BY <1>2, <1>5, <1>6, <1>7, SuffixElsewhere

LEMMA AcceptFailsKeepsSuffix ==
  ASSUME TypeInv, SuffixInv, MainAcceptFails
  PROVE  SuffixInv'
  <1>1. /\ cli_sock' = Failed
        /\ UNCHANGED <<inbox, left, cli_socks, cli_cnt, file, hpc, hi, hmsg>>
    BY DEF MainAcceptFails, clientVars, tableVars, handVars
  <1>2. NobodyRemoved' => NobodyRemoved
    BY <1>1 DEF NobodyRemoved
  <1>3. \A i \in Entries : RefersTo(cli_socks[i])' = RefersTo(cli_socks[i])
    BY <1>1 DEF RefersTo
  <1>4. ASSUME NobodyRemoved PROVE EntriesOpen'
    <2>1. EntriesOpen /\ Entries' = Entries
      BY <1>1, <1>4 DEF SuffixInv, Entries
    <2>2. \A i \in Entries : ClientAt(i)' = ClientAt(i) /\ cli_socks'[i] = cli_socks[i]
      BY <1>1, <1>3 DEF ClientAt
    <2> QED
      BY <1>1, <2>1, <2>2 DEF EntriesOpen
  <1> QED
    BY <1>1, <1>2, <1>3, <1>4, SuffixElsewhere

LEMMA CreateKeepsSuffix ==
  ASSUME TypeInv, SuffixInv, MainCreate
  PROVE  SuffixInv'
  <1>1. /\ mpc' = "accept" /\ hpc' = [hpc EXCEPT ![newest] = "start"]
        /\ UNCHANGED <<inbox, left, cli_socks, cli_cnt, file, hi, hmsg>>
    BY DEF MainCreate, clientVars, tableVars
  <1>2. newest \in Threads /\ hpc[newest] = "none" /\ hpc \in [Threads -> HandlerPC]
    BY DEF MainCreate, TypeInv, TypeOK, CountInv, ThreadsFresh, CountTyped, Threads
  <1>3. NobodyRemoved' => NobodyRemoved
    BY <1>1, <1>2 DEF NobodyRemoved
  <1>4. \A i \in Entries : RefersTo(cli_socks[i])' = RefersTo(cli_socks[i])
    BY <1>1 DEF RefersTo
  <1>5. ASSUME NobodyRemoved PROVE EntriesOpen'
    <2>1. EntriesOpen /\ Entries' = Entries
      BY <1>1, <1>5 DEF SuffixInv, Entries
    <2>2. \A i \in Entries : ClientAt(i)' = ClientAt(i) /\ cli_socks'[i] = cli_socks[i]
      BY <1>1, <1>4 DEF ClientAt
    <2> QED
      BY <1>1, <2>1, <2>2 DEF EntriesOpen
  <1>6. \A h \in Threads : hpc'[h] = "send" <=> hpc[h] = "send"
    BY <1>1, <1>2
  <1> QED
    BY <1>1, <1>3, <1>4, <1>5, <1>6, SuffixElsewhere

\* mutex is free: nobody is in the middle of the table, and who is added has got
\* nothing.
LEMMA RegisterKeepsSuffix ==
  ASSUME TypeInv, OrderInv, SuffixInv, MainRegister
  PROVE  SuffixInv'
  <1>1. /\ mpc = "register" /\ mutex = None /\ mpc' = "create" /\ cli_cnt' = cli_cnt + 1
        /\ cli_socks' = [cli_socks EXCEPT ![cli_cnt] = cli_sock]
        /\ UNCHANGED <<inbox, left, file, hpc, hi, hmsg>>
    BY DEF MainRegister, MutexFree, clientVars, handVars
  <1>2. /\ cli_cnt \in 0..(MaxCli - 1) /\ MaxCli \in Nat
        /\ cli_socks \in [0..MaxCli -> Fds \cup {0, Failed}]
        /\ file \in [Fds -> Clients \cup {None}] /\ None \notin Threads
        /\ inbox \in [Clients -> Seq(Chunks)]
    BY CountBound, ChatAssumption DEF TypeInv, TypeOK, Threads
  <1>3. \A h \in Threads : hpc[h] # "send"
    BY <1>1, <1>2 DEF OrderInv, OneSender
  <1> SUFFICES ASSUME NobodyRemoved' PROVE EntriesOpen' /\ NothingBefore' /\ InStep'
    BY DEF SuffixInv
  <1>4. NobodyRemoved /\ EntriesOpen /\ NothingBefore /\ InStep
    BY <1>1 DEF NobodyRemoved, SuffixInv
  <1>5. /\ Entries' = Entries \cup {cli_cnt} /\ cli_cnt \notin Entries
        /\ \A i \in Entries : i \in 0..MaxCli /\ i < cli_cnt
    BY <1>1, <1>2 DEF Entries
  <1>6. \A i \in Entries : cli_socks'[i] = cli_socks[i]
    BY <1>1, <1>2, <1>5
  <1>7. cli_socks'[cli_cnt] = cli_sock
    BY <1>1, <1>2
  <1> DEFINE new == RefersTo(cli_sock)
  <1>8. \A i \in Entries : ClientAt(i)' = ClientAt(i)
    BY <1>1, <1>6 DEF ClientAt, RefersTo
  <1>9. ASSUME NEW i, i = cli_cnt PROVE ClientAt(i)' = new
    BY <1>1, <1>7, <1>9 DEF ClientAt, RefersTo
  <1>10. new # None => new \in Clients /\ \A i \in Entries : ClientAt(i) # new
    <2> SUFFICES ASSUME new # None PROVE new \in Clients /\ \A i \in Entries : ClientAt(i) # new
      OBVIOUS
    <2>1. cli_sock \in Fds /\ file[cli_sock] = new /\ new \in Clients
      BY <1>2 DEF RefersTo
    <2>2. ASSUME NEW i \in Entries, ClientAt(i) = new PROVE FALSE
      <3>1. cli_socks[i] \in Fds /\ file[cli_socks[i]] = file[cli_sock]
        BY <2>1, <2>2 DEF ClientAt, RefersTo
      <3>2. cli_socks[i] = cli_sock
        BY <2>1, <3>1 DEF TypeInv, FilesDistinct
      <3>3. cli_sock # Failed
        BY <2>1, ChatAssumption DEF Fds, Failed
      <3> QED
        BY <1>1, <1>4, <3>2, <3>3 DEF EntriesOpen
    <2> QED
      BY <2>1, <2>2
  <1>11. cli_sock = Failed \/ new # None
    BY <1>1, <1>4 DEF EntriesOpen
  <1> HIDE DEF new
  <1>12. EntriesOpen'
    <2>1. \A i \in Entries' : cli_socks'[i] = Failed \/ ClientAt(i)' # None
      BY <1>4, <1>5, <1>6, <1>7, <1>8, <1>9, <1>11 DEF EntriesOpen
    <2>2. \A i, j \in Entries' : ClientAt(i)' # None /\ ClientAt(i)' = ClientAt(j)' => i = j
      BY <1>4, <1>5, <1>8, <1>9, <1>10 DEF EntriesOpen
    <2> QED
      BY <1>1, <2>1, <2>2 DEF EntriesOpen
  <1>13. NothingBefore'
    <2>1. \A c \in Clients : (\A i \in Entries' : ClientAt(i)' # c)
                            => \A i \in Entries : ClientAt(i) # c
      BY <1>5, <1>8
    <2> QED
      BY <1>1, <1>4, <2>1 DEF NothingBefore
  <1>14. InStep'
    <2> SUFFICES ASSUME NEW i \in Entries', NEW j \in Entries', i < j,
                        None \notin {ClientAt(i)', ClientAt(j)'},
                        {ClientAt(i)', ClientAt(j)'} \cap left' = {}
                 PROVE  EndsWith(inbox[ClientAt(i)'], inbox[ClientAt(j)'])
      BY <1>1, <1>3 DEF InStep
    <2>1. i \in Entries
      BY <1>2, <1>5
    <2>2. ClientAt(i)' = ClientAt(i) /\ ClientAt(i) \in Clients
      BY <1>2, <1>8, <2>1 DEF ClientAt, RefersTo
    <2>3. CASE j \in Entries
      <3>1. ClientAt(j)' = ClientAt(j)
        BY <1>8, <2>3
      <3> QED
        BY <1>1, <1>3, <1>4, <2>1, <2>2, <2>3, <3>1 DEF InStep
    <2>4. CASE j = cli_cnt
      <3>1. ClientAt(j)' = new /\ inbox[new] = <<>>
        BY <1>4, <1>9, <1>10, <2>4 DEF NothingBefore
      <3> QED
        BY <1>2, <2>2, <3>1, EndsWithNothing
    <2> QED
      BY <1>5, <2>3, <2>4
  <1> QED
    BY <1>12, <1>13, <1>14

LEMMA WriteKeepsSuffix ==
  ASSUME TypeInv, OrderInv, SuffixInv, NEW h \in Threads, HandlerWrite(h)
  PROVE  SuffixInv'
  <1> DEFINE k == hi[h]
             m == hmsg[h]
             e == ClientAt(k)
  <1>1. /\ hpc[h] = "send" /\ hi[h] < cli_cnt /\ hi' = [hi EXCEPT ![h] = @ + 1]
        /\ UNCHANGED <<left, cli_socks, cli_cnt, file, hpc, hmsg, mpc, cli_sock>>
    BY DEF HandlerWrite, tableVars, mainVars
  <1>2. \/ inbox' = inbox /\ (e = None \/ e \in left)
        \/ e # None /\ e \notin left /\ inbox' = [inbox EXCEPT ![e] = Append(@, m)]
    BY DEF HandlerWrite, ClientAt
  <1>3. /\ inbox \in [Clients -> Seq(Chunks)] /\ file \in [Fds -> Clients \cup {None}]
        /\ hi \in [Threads -> Nat] /\ cli_cnt \in Nat /\ m \in Chunks
        /\ \A g \in Threads : hpc[g] = "send" => g = h
    BY <1>1 DEF TypeInv, TypeOK, MessageHeld, Relaying, OrderInv, OneSender
  <1>4. k \in Entries /\ hi'[h] = k + 1 /\ k \in Nat
    BY <1>1, <1>3 DEF Entries
  <1> SUFFICES ASSUME NobodyRemoved PROVE EntriesOpen' /\ NothingBefore' /\ InStep'
    BY <1>1 DEF SuffixInv, NobodyRemoved
  <1>5. EntriesOpen /\ NothingBefore /\ InStep /\ Entries' = Entries
    BY <1>1 DEF SuffixInv, Entries
  <1>6. \A i \in Entries : ClientAt(i)' = ClientAt(i) /\ cli_socks'[i] = cli_socks[i]
    BY <1>1 DEF ClientAt, RefersTo
  <1>7. \A i \in Entries : ClientAt(i) # None => ClientAt(i) \in Clients
    BY <1>3 DEF ClientAt, RefersTo
  <1> HIDE DEF k, m, e
  <1>8. EntriesOpen'
    <2>1. RefersTo(cli_sock)' = RefersTo(cli_sock)
      BY <1>1 DEF RefersTo
    <2> QED
      BY <1>1, <1>5, <1>6, <2>1 DEF EntriesOpen
  <1>9. NothingBefore'
    <2>1. ASSUME NEW d \in Clients, \A i \in Entries : ClientAt(i) # d
          PROVE  inbox'[d] = <<>>
      <3>1. d # e
        BY <1>4, <2>1 DEF e
      <3> QED
        BY <1>2, <1>3, <1>5, <2>1, <3>1 DEF NothingBefore
    <2> QED
      BY <1>5, <1>6, <2>1 DEF NothingBefore
  <1>10. ASSUME NEW i \in Entries, NEW j \in Entries, i < j,
                None \notin {ClientAt(i), ClientAt(j)}, {ClientAt(i), ClientAt(j)} \cap left = {}
         PROVE  IF i < k + 1 /\ k + 1 <= j
                THEN EndsWith(inbox'[ClientAt(i)], Append(inbox'[ClientAt(j)], m))
                ELSE EndsWith(inbox'[ClientAt(i)], inbox'[ClientAt(j)])
    <2>1. IF i < k /\ k <= j THEN EndsWith(inbox[ClientAt(i)], Append(inbox[ClientAt(j)], m))
                             ELSE EndsWith(inbox[ClientAt(i)], inbox[ClientAt(j)])
      BY <1>1, <1>3, <1>5, <1>10 DEF InStep, k, m
    <2>2. /\ ClientAt(i) \in Clients /\ ClientAt(j) \in Clients /\ ClientAt(i) # ClientAt(j)
          /\ i \in Int /\ j \in Int
      BY <1>3, <1>5, <1>7, <1>10 DEF EntriesOpen, Entries
    <2>3. CASE i # k /\ j # k
      <3>1. ClientAt(i) # e /\ ClientAt(j) # e
        BY <1>4, <1>5, <1>10, <2>3 DEF EntriesOpen, e
      <3>2. inbox'[ClientAt(i)] = inbox[ClientAt(i)] /\ inbox'[ClientAt(j)] = inbox[ClientAt(j)]
        BY <1>2, <1>3, <2>2, <3>1
      <3>3. i < k + 1 /\ k + 1 <= j <=> i < k /\ k <= j
        BY <1>4, <2>2, <2>3
      <3> QED
        BY <2>1, <3>2, <3>3
    <2>4. CASE i = k
      <3>1. ClientAt(i) = e /\ inbox' = [inbox EXCEPT ![e] = Append(@, m)]
        BY <1>2, <1>10, <2>4 DEF e
      <3>2. /\ inbox'[ClientAt(i)] = Append(inbox[ClientAt(i)], m)
            /\ inbox'[ClientAt(j)] = inbox[ClientAt(j)]
        BY <1>3, <2>2, <3>1
      <3>3. EndsWith(inbox[ClientAt(i)], inbox[ClientAt(j)]) /\ i < k + 1 /\ k + 1 <= j
        BY <1>4, <1>10, <2>1, <2>2, <2>4
      <3>4. EndsWith(Append(inbox[ClientAt(i)], m), Append(inbox[ClientAt(j)], m))
        BY <1>3, <2>2, <3>3, EndsWithAppended
      <3> QED
        BY <3>2, <3>3, <3>4
    <2>5. CASE j = k
      <3>1. ClientAt(j) = e /\ inbox' = [inbox EXCEPT ![e] = Append(@, m)]
        BY <1>2, <1>10, <2>5 DEF e
      <3>2. /\ inbox'[ClientAt(j)] = Append(inbox[ClientAt(j)], m)
            /\ inbox'[ClientAt(i)] = inbox[ClientAt(i)]
        BY <1>3, <2>2, <3>1
      <3>3. EndsWith(inbox[ClientAt(i)], Append(inbox[ClientAt(j)], m)) /\ ~(k + 1 <= j)
        BY <1>4, <1>10, <2>1, <2>2, <2>5
      <3> QED
        BY <3>2, <3>3
    <2> QED
      BY <2>3, <2>4, <2>5
  <1>11. InStep'
    <2> SUFFICES ASSUME NEW i \in Entries, NEW j \in Entries, i < j,
                        None \notin {ClientAt(i), ClientAt(j)},
                        {ClientAt(i), ClientAt(j)} \cap left = {}
                 PROVE  IF \E g \in Threads : hpc'[g] = "send" /\ i < hi'[g] /\ hi'[g] <= j
                        THEN \A g \in Threads : hpc'[g] = "send" =>
                                EndsWith(inbox'[ClientAt(i)], Append(inbox'[ClientAt(j)], hmsg'[g]))
                        ELSE EndsWith(inbox'[ClientAt(i)], inbox'[ClientAt(j)])
      BY <1>1, <1>5, <1>6 DEF InStep
    <2>1. \A g \in Threads : hpc'[g] = "send" <=> g = h
      BY <1>1, <1>3
    <2>2. hi'[h] = k + 1 /\ hmsg'[h] = m
      BY <1>1, <1>4 DEF m
    <2> QED
      BY <1>10, <2>1, <2>2
  <1> QED
    BY <1>8, <1>9, <1>11

\* At the end of the loop all have got what was sent.
LEMMA UnlockKeepsSuffix ==
  ASSUME TypeInv, OrderInv, SuffixInv, NEW h \in Threads, HandlerUnlock(h) \/ HandlerLock(h)
  PROVE  SuffixInv'
  <1>1. /\ hpc[h] \in {"lock", "send"} /\ hpc'[h] \in {"read", "send"}
        /\ UNCHANGED <<inbox, left, cli_socks, cli_cnt, file, mpc, cli_sock>>
        /\ \A g \in Threads \ {h} : hpc'[g] = hpc[g]
    BY DEF HandlerUnlock, HandlerLock, clientVars, tableVars, mainVars, TypeInv, TypeOK
  <1> SUFFICES ASSUME NobodyRemoved PROVE EntriesOpen' /\ NothingBefore' /\ InStep'
    BY <1>1 DEF SuffixInv, NobodyRemoved
  <1>2. EntriesOpen /\ NothingBefore /\ InStep /\ Entries' = Entries
    BY <1>1 DEF SuffixInv, Entries
  <1>3. \A i \in Entries : ClientAt(i)' = ClientAt(i) /\ cli_socks'[i] = cli_socks[i]
    BY <1>1 DEF ClientAt, RefersTo
  <1>4. EntriesOpen' /\ NothingBefore'
    <2>1. RefersTo(cli_sock)' = RefersTo(cli_sock)
      BY <1>1 DEF RefersTo
    <2> QED
      BY <1>1, <1>2, <1>3, <2>1 DEF EntriesOpen, NothingBefore
  <1>5. \A i, j \in Entries : \A g \in Threads :
           /\ ~(hpc[g] = "send" /\ i < hi[g] /\ hi[g] <= j)
           /\ ~(hpc'[g] = "send" /\ i < hi'[g] /\ hi'[g] <= j)
    <2>1. /\ hpc \in [Threads -> HandlerPC] /\ hi \in [Threads -> Nat] /\ cli_cnt \in Nat
          /\ \A g \in Threads : mutex = g <=> hpc[g] = "send"
          /\ None \notin Threads
      BY ChatAssumption DEF TypeInv, TypeOK, OrderInv, OneSender, Threads
    <2>2. \A i \in Entries : i \in Nat /\ i < cli_cnt
      BY <2>1 DEF Entries
    <2>3. CASE HandlerUnlock(h)
      <3>1. hpc[h] = "send" /\ hi[h] >= cli_cnt /\ hpc'[h] = "read"
        BY <2>1, <2>3 DEF HandlerUnlock
      <3>2. \A g \in Threads : hpc[g] = "send" => g = h
        BY <2>1, <3>1
      <3>3. \A g \in Threads : hpc'[g] # "send"
        BY <1>1, <3>1, <3>2
      <3> QED
        BY <2>1, <2>2, <3>1, <3>2, <3>3
    <2>4. CASE HandlerLock(h)
      <3>1. mutex = None /\ hi'[h] = 0
        BY <2>1, <2>4 DEF HandlerLock, MutexFree, FirstIndex
      <3>2. \A g \in Threads : hpc[g] # "send" /\ (hpc'[g] = "send" => g = h)
        BY <1>1, <2>1, <3>1
      <3> QED
        BY <2>1, <2>2, <3>1, <3>2
    <2> QED
      BY <2>3, <2>4
  <1>6. InStep'
    BY <1>1, <1>2, <1>3, <1>5 DEF InStep
  <1> QED
    BY <1>4, <1>6

LEMMA HandlerKeepsSuffix ==
  ASSUME TypeInv, OrderInv, SuffixInv, NEW h \in Threads, HandlerStep(h)
  PROVE  SuffixInv'
  <1>0. hpc \in [Threads -> HandlerPC] /\ hmsg \in [Threads -> Chunks \cup {None}]
    BY DEF TypeInv, TypeOK
  <1>1. CASE HandlerStart(h) \/ HandlerRead(h)
    <2>1. /\ UNCHANGED <<inbox, left, cli_socks, cli_cnt, file, mpc, cli_sock, hi>>
          /\ hpc[h] \in {"start", "read"} /\ hpc'[h] # "send"
          /\ \A g \in Threads \ {h} : hpc'[g] = hpc[g] /\ hmsg'[g] = hmsg[g]
      BY <1>0, <1>1 DEF HandlerStart, HandlerRead, clientVars, tableVars, mainVars
    <2>2. NobodyRemoved' => NobodyRemoved
      BY <2>1 DEF NobodyRemoved
    <2>3. \A i \in Entries : RefersTo(cli_socks[i])' = RefersTo(cli_socks[i])
      BY <2>1 DEF RefersTo
    <2>4. ASSUME NobodyRemoved PROVE EntriesOpen'
      <3>1. EntriesOpen /\ Entries' = Entries
        BY <2>1, <2>4 DEF SuffixInv, Entries
      <3>2. \A i \in Entries : ClientAt(i)' = ClientAt(i) /\ cli_socks'[i] = cli_socks[i]
        BY <2>1, <2>3 DEF ClientAt
      <3>3. RefersTo(cli_sock)' = RefersTo(cli_sock)
        BY <2>1 DEF RefersTo
      <3> QED
        BY <2>1, <3>1, <3>2, <3>3 DEF EntriesOpen
    <2>5. \A g \in Threads : /\ hpc'[g] = "send" <=> hpc[g] = "send"
                             /\ hpc[g] = "send" => hi'[g] = hi[g] /\ hmsg'[g] = hmsg[g]
      BY <2>1
    <2> QED
      BY <2>1, <2>2, <2>3, <2>4, <2>5, SuffixElsewhere
  <1>2. CASE HandlerRemove(h) \/ HandlerClose(h)
    <2>1. hpc'[h] \in {"close", "gone"}
      BY <1>0, <1>2 DEF HandlerRemove, HandlerClose
    <2> QED
      BY <2>1 DEF SuffixInv, NobodyRemoved
  <1> QED
    BY <1>1, <1>2, WriteKeepsSuffix, UnlockKeepsSuffix DEF HandlerStep

\* What the clients do touches none of it, except that they leave.
LEMMA ClientKeepsSuffix ==
  ASSUME TypeInv, SuffixInv,
         LeftOnly \/ \E c \in Clients : Connect(c) \/ Say(c) \/ Leave(c)
  PROVE  SuffixInv'
  <1>1. /\ UNCHANGED <<inbox, cli_socks, cli_cnt, file, mpc, cli_sock, hpc, hi, hmsg>>
        /\ left \subseteq left'
    BY DEF LeftOnly, Connect, Say, Leave, tableVars, mainVars, handVars
  <1>2. NobodyRemoved' => NobodyRemoved
    BY <1>1 DEF NobodyRemoved
  <1>3. \A i \in Entries : RefersTo(cli_socks[i])' = RefersTo(cli_socks[i])
    BY <1>1 DEF RefersTo
  <1>4. ASSUME NobodyRemoved PROVE EntriesOpen'
    <2>1. EntriesOpen /\ Entries' = Entries
      BY <1>1, <1>4 DEF SuffixInv, Entries
    <2>2. \A i \in Entries : ClientAt(i)' = ClientAt(i) /\ cli_socks'[i] = cli_socks[i]
      BY <1>1, <1>3 DEF ClientAt
    <2>3. RefersTo(cli_sock)' = RefersTo(cli_sock)
      BY <1>1 DEF RefersTo
    <2> QED
      BY <1>1, <2>1, <2>2, <2>3 DEF EntriesOpen
  <1> QED
    BY <1>1, <1>2, <1>3, <1>4, SuffixElsewhere

LEMMA InitSuffix == Init => SuffixInv
  <1> SUFFICES ASSUME Init PROVE EntriesOpen /\ NothingBefore /\ InStep
    BY DEF SuffixInv
  <1>1. Entries = {} /\ mpc = "accept" /\ \A c \in Clients : inbox[c] = <<>>
    BY DEF Init, Entries
  <1> QED
    BY <1>1 DEF EntriesOpen, NothingBefore, InStep

LEMMA StepSuffix == TypeInv /\ OrderInv /\ SuffixInv /\ [Next]_vars => SuffixInv'
  <1> SUFFICES ASSUME TypeInv, OrderInv, SuffixInv, [Next]_vars PROVE SuffixInv'
    OBVIOUS
  <1>1. CASE MainStep
    BY <1>1, AcceptKeepsSuffix, AcceptFailsKeepsSuffix, RegisterKeepsSuffix, CreateKeepsSuffix
    DEF MainStep
  <1> QED
    BY <1>1, ClientKeepsSuffix, HandlerKeepsSuffix, StutterIsLeftOnly DEF Next

\* Between two loops of send_msg InStep is LatecomersGetSuffix.
LEMMA SuffixSuffices == TypeInv /\ OrderInv /\ SuffixInv => LatecomersGetSuffix
  <1> SUFFICES ASSUME TypeInv, OrderInv, SuffixInv, mutex = None, NobodyRemoved,
                      NEW i \in Entries, NEW j \in Entries, i < j,
                      None \notin {ClientAt(i), ClientAt(j)},
                      {ClientAt(i), ClientAt(j)} \cap left = {}
               PROVE  EndsWith(inbox[ClientAt(i)], inbox[ClientAt(j)])
    BY DEF LatecomersGetSuffix, NobodyRemoved, Entries, ClientAt
  <1>1. \A h \in Threads : hpc[h] # "send"
    BY ChatAssumption DEF OrderInv, OneSender, Threads
  <1> QED
    BY <1>1 DEF SuffixInv, InStep

\* Until the first removal a client that registers late misses the beginning and
\* nothing else: the loop of send_msg goes through cli_socks in the order of
\* registration and main adds an entry only between two loops
\* (chat_server.c:58-60, 94-101).
THEOREM SuffixForLatecomers == Spec => []LatecomersGetSuffix
  <1>1. Init => TypeInv /\ OrderInv /\ SuffixInv
    BY InitTypes, InitOrder, InitSuffix
  <1>2. TypeInv /\ OrderInv /\ SuffixInv /\ [Next]_vars => (TypeInv /\ OrderInv /\ SuffixInv)'
    BY StepTypes, StepOrder, StepSuffix
  <1> QED
    BY <1>1, <1>2, SuffixSuffices, PTL DEF Spec

-----------------------------------------------------------------------------
\* With clients that read, and sockets that fill up (ChatRoom).

\* Seen by the server alone, a step with slow clients is one of ChatServer, or one
\* in which clients leave after its end, or nothing.
LEMMA RoomStepIsServerStep ==
  ASSUME TypeInv, [RoomNext]_roomVars
  PROVE  [Next]_vars \/ LeftOnly
  <1>1. CASE UNCHANGED roomVars
    BY <1>1 DEF roomVars
  <1>2. CASE RoomMain
    BY <1>2 DEF RoomMain, Next
  <1>3. ASSUME NEW h \in Threads, RoomHandler(h) PROVE Next
    BY <1>3 DEF RoomHandler, Next
  <1>4. ASSUME NEW c \in Clients, RoomClient(c) PROVE Next \/ LeftOnly
    <2>1. CASE Connect(c) \/ Say(c) \/ Leave(c)
      BY <2>1 DEF Next
    <2>2. CASE Hear(c) \/ HearReset(c)
      BY <2>2, StutterIsLeftOnly DEF Hear, HearReset
    <2>3. CASE SayInVain(c) \/ Quit(c)
      BY <2>3 DEF SayInVain, Quit, Running, WasReset, LeftOnly, TypeInv, TypeOK
    <2> QED
      BY <1>4, <2>1, <2>2, <2>3 DEF RoomClient
  <1> QED
    BY <1>1, <1>2, <1>3, <1>4 DEF RoomNext

\* The order of the relays, the count, and what latecomers get do not rest on
\* writes that return at once: they hold as well when a client reads slowly and the
\* server waits in write with mutex held, and when clients write to a server that
\* has ended (chat_server.c:94-101, chat_client.c:55-90).
THEOREM RoomKeepsOrder == RoomSpec => [](SameOrder /\ LatecomersGetSuffix /\ CountExact)
  <1> DEFINE RoomInv == TypeInv /\ OrderInv /\ SuffixInv
  <1>1. RoomInv => SameOrder /\ LatecomersGetSuffix /\ CountExact
    BY SuffixSuffices DEF OrderInv, TypeInv, CountInv, CountExact, Registered, Serving
  <1>2. RoomInit => RoomInv
    BY InitTypes, InitOrder, InitSuffix DEF RoomInit
  <1>3. RoomInv /\ [RoomNext]_roomVars => RoomInv'
    <2> SUFFICES ASSUME RoomInv, [RoomNext]_roomVars PROVE RoomInv'
      OBVIOUS
    <2>1. CASE [Next]_vars
      BY <2>1, StepTypes, StepOrder, StepSuffix
    <2>2. CASE LeftOnly
      BY <2>2, LeftOnlyKeepsTypes, LeftOnlyKeepsOrder, ClientKeepsSuffix
    <2> QED
      BY <2>1, <2>2, RoomStepIsServerStep
  <1> QED
    BY <1>1, <1>2, <1>3, PTL DEF RoomSpec
=============================================================================
