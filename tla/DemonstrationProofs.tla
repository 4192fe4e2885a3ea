------------------------- MODULE DemonstrationProofs -------------------------
(***************************************************************************)
(* Theorems of the programs that demonstrate threads and processes, for    *)
(* any number of them.  The semaphores of thread_signal.c keep the list    *)
(* within its bound and every consumer supplied; the condition variable of *)
(* thread_cond.c loses no wakeup; both lists are stacks of distinct nodes. *)
(* Under the mutex or the write lock, with one thread at most under the    *)
(* read lock, no increment is lost and main prints the sum.  The account   *)
(* of zombies of remove_zombie.c is inductive together with the types, and *)
(* the handler never calls waitpid in vain.                                *)
(***************************************************************************)
EXTENDS Demonstrations, FiniteSetTheorems, SequenceTheorems, TLAPS

-----------------------------------------------------------------------------
(***************************************************************************)
(* thread_signal.c.                                                        *)
(***************************************************************************)

\* Each node in the list is announced by csem, or its producer is about to post
\* csem, or a consumer has taken csem for it.
ItemsInList == Len(list) = csem + Number(ppc, "post") + Number(cpc, "pop")

SemTyped ==
    /\ psem \in Nat /\ csem \in Nat
    /\ list \in Seq(Nodes)
    /\ ppc \in [Producers -> SemProducerPC]
    /\ cpc \in [Consumers -> SemConsumerPC]

SemIInv == SemTyped /\ PlacesConserved /\ ItemsInList

-----------------------------------------------------------------------------
\* What Number counts is a natural number.
LEMMA NumberType ==
  ASSUME NEW S, IsFiniteSet(S), NEW PC, NEW at \in [S -> PC], NEW l
  PROVE  Number(at, l) \in Nat
  <1>1. {t \in DOMAIN at : at[t] = l} \in SUBSET S
    OBVIOUS
  <1> QED
    BY <1>1, FS_Subset, FS_CardinalityType DEF Number

\* One thread t goes from label a to label b, and what that does to the counts.
Moves(at, at2, t, a, b) ==
    /\ IsFiniteSet(DOMAIN at) /\ DOMAIN at2 = DOMAIN at
    /\ t \in DOMAIN at /\ at[t] = a /\ at2[t] = b /\ a # b
    /\ \A u \in DOMAIN at \ {t} : at2[u] = at[u]

Moved(at, at2, a, b) ==
    /\ Number(at2, a) = Number(at, a) - 1
    /\ Number(at2, b) = Number(at, b) + 1
    /\ Number(at, a) > 0
    /\ \A l : l # a /\ l # b => Number(at2, l) = Number(at, l)

LEMMA NumberMove ==
  ASSUME NEW at, NEW at2, NEW t, NEW a, NEW b, Moves(at, at2, t, a, b)
  PROVE  Moved(at, at2, a, b)
  <1> DEFINE A(f, l) == {u \in DOMAIN f : f[u] = l}
  <1>1. \A l : A(at, l) \in SUBSET DOMAIN at
    OBVIOUS
  <1>2. \A l : IsFiniteSet(A(at, l))
    BY <1>1, FS_Subset DEF Moves
  <1>3. A(at2, a) = A(at, a) \ {t} /\ t \in A(at, a)
    BY DEF Moves
  <1>4. A(at2, b) = A(at, b) \cup {t} /\ t \notin A(at, b)
    BY DEF Moves
  <1>5. ASSUME NEW l, l # a, l # b PROVE A(at2, l) = A(at, l)
    BY <1>5 DEF Moves
  <1> HIDE DEF A
  <1>6. Cardinality(A(at2, a)) = Cardinality(A(at, a)) - 1
    BY <1>2, <1>3, FS_RemoveElement
  <1>7. Cardinality(A(at2, b)) = Cardinality(A(at, b)) + 1
    BY <1>2, <1>4, FS_AddElement
  <1>8. Cardinality(A(at, a)) > 0
    BY <1>2, <1>3, FS_EmptySet, FS_CardinalityType
  <1>9. \A f, l : Number(f, l) = Cardinality(A(f, l))
    BY DEF Number, A
  <1> QED
    BY <1>5, <1>6, <1>7, <1>8, <1>9 DEF Moved

\* The same for a producer and for a consumer of the program.
LEMMA ProducerMove ==
  ASSUME SemTyped, NEW p \in Producers, NEW a, NEW b, a # b,
         ppc[p] = a, ppc' = [ppc EXCEPT ![p] = b]
  PROVE  Moved(ppc, ppc', a, b)
  <1>1. Moves(ppc, ppc', p, a, b)
    BY SemAssumption DEF SemTyped, Moves
  <1> QED
    BY <1>1, NumberMove

LEMMA ConsumerMove ==
  ASSUME SemTyped, NEW c \in Consumers, NEW a, NEW b, a # b,
         cpc[c] = a, cpc' = [cpc EXCEPT ![c] = b]
  PROVE  Moved(cpc, cpc', a, b)
  <1>1. Moves(cpc, cpc', c, a, b)
    BY SemAssumption DEF SemTyped, Moves
  <1> QED
    BY <1>1, NumberMove

\* The counts of all labels that the invariant mentions.
LEMMA CountsType ==
  ASSUME SemTyped
  PROVE  /\ Number(ppc, "push") \in Nat /\ Number(ppc, "post") \in Nat
         /\ Number(cpc, "pop") \in Nat /\ Number(cpc, "post") \in Nat
  BY SemAssumption, NumberType DEF SemTyped

\* Pushing and popping at the head.
LEMMA HeadOps ==
  ASSUME list \in Seq(Nodes)
  PROVE  /\ Len(list) \in Nat
         /\ \A n \in Nodes : /\ <<n>> \o list \in Seq(Nodes)
                             /\ Len(<<n>> \o list) = Len(list) + 1
         /\ list # <<>> => /\ Tail(list) \in Seq(Nodes)
                           /\ Len(Tail(list)) = Len(list) - 1
  BY HeadTailProperties, ConcatProperties

\* Initially nobody holds a place and the list is empty.
LEMMA CountsInit ==
  ASSUME SemInit
  PROVE  /\ Number(ppc, "push") = 0 /\ Number(ppc, "post") = 0
         /\ Number(cpc, "pop") = 0 /\ Number(cpc, "post") = 0
  <1>1. DOMAIN ppc = Producers /\ DOMAIN cpc = Consumers
    BY DEF SemInit
  <1>2. /\ {t \in DOMAIN ppc : ppc[t] = "push"} = {}
        /\ {t \in DOMAIN ppc : ppc[t] = "post"} = {}
        /\ {t \in DOMAIN cpc : cpc[t] = "pop"} = {}
        /\ {t \in DOMAIN cpc : cpc[t] = "post"} = {}
    BY <1>1 DEF SemInit
  <1> QED
    BY <1>2, FS_EmptySet DEF Number

LEMMA SemInitIInv == SemInit => SemIInv
  <1> SUFFICES ASSUME SemInit PROVE SemIInv
    OBVIOUS
  <1>1. SemTyped
    BY SemAssumption DEF SemInit, SemTyped, SemProducerPC, SemConsumerPC
  <1>2. Len(list) = 0 /\ psem = Places /\ csem = 0 /\ Places \in Nat
    BY SemAssumption DEF SemInit
  <1> QED
    BY <1>1, <1>2, CountsInit DEF SemIInv, PlacesConserved, ItemsInList

-----------------------------------------------------------------------------
\* Each of the six actions moves one thread by one label and makes up for it in
\* a semaphore or in the list.

LEMMA ProducerWaitStep ==
  ASSUME SemIInv, NEW p \in Producers, ProducerWait(p)
  PROVE  SemIInv'
  <1>1. SemTyped /\ ppc[p] = "wait" /\ psem' = psem - 1 /\ psem > 0
        /\ ppc' = [ppc EXCEPT ![p] = "push"] /\ UNCHANGED <<csem, list, cpc>>
    BY DEF SemIInv, ProducerWait, TakePlace
  <1>2. /\ Number(ppc', "push") = Number(ppc, "push") + 1
        /\ Number(ppc', "post") = Number(ppc, "post")
    <2>1. Moved(ppc, ppc', "wait", "push")
      BY <1>1, ProducerMove
    <2> QED
      BY <2>1 DEF Moved
  <1>3. /\ Number(ppc, "push") \in Nat /\ Number(ppc, "post") \in Nat
        /\ Number(cpc, "pop") \in Nat /\ Number(cpc, "post") \in Nat
        /\ Len(list) \in Nat /\ psem \in Nat /\ csem \in Nat
    BY <1>1, CountsType, HeadOps DEF SemTyped
  <1>4. SemTyped'
    BY <1>1 DEF SemTyped, SemProducerPC
  <1>5. PlacesConserved'
    BY <1>1, <1>2, <1>3 DEF SemIInv, PlacesConserved
  <1>6. ItemsInList'
    BY <1>1, <1>2, <1>3 DEF SemIInv, ItemsInList
  <1> QED
    BY <1>4, <1>5, <1>6 DEF SemIInv

LEMMA ProducerPushStep ==
  ASSUME SemIInv, NEW p \in Producers, SemPush(p)
  PROVE  SemIInv'
  <1>1. SemTyped /\ ppc[p] = "push"
        /\ ppc' = [ppc EXCEPT ![p] = "post"] /\ UNCHANGED <<psem, csem, cpc>>
    BY DEF SemIInv, SemPush
  <1>2. PICK n \in Nodes : list' = <<n>> \o list
    BY DEF SemPush, Linked
  <1>3. list' \in Seq(Nodes) /\ Len(list') = Len(list) + 1
    BY <1>1, <1>2, HeadOps DEF SemTyped
  <1>4. /\ Number(ppc', "push") = Number(ppc, "push") - 1
        /\ Number(ppc', "post") = Number(ppc, "post") + 1
    <2>1. Moved(ppc, ppc', "push", "post")
      BY <1>1, ProducerMove
    <2> QED
      BY <2>1 DEF Moved
  <1>5. /\ Number(ppc, "push") \in Nat /\ Number(ppc, "post") \in Nat
        /\ Number(cpc, "pop") \in Nat /\ Number(cpc, "post") \in Nat
        /\ Len(list) \in Nat /\ psem \in Nat /\ csem \in Nat
    BY <1>1, CountsType, HeadOps DEF SemTyped
  <1>6. SemTyped'
    BY <1>1, <1>3 DEF SemTyped, SemProducerPC
  <1>7. PlacesConserved'
    BY <1>1, <1>4, <1>5 DEF SemIInv, PlacesConserved
  <1>8. ItemsInList'
    BY <1>1, <1>3, <1>4, <1>5 DEF SemIInv, ItemsInList
  <1> QED
    BY <1>6, <1>7, <1>8 DEF SemIInv

LEMMA ProducerPostStep ==
  ASSUME SemIInv, NEW p \in Producers, ProducerPost(p)
  PROVE  SemIInv'
  <1>1. SemTyped /\ ppc[p] = "post" /\ csem' = csem + 1
        /\ ppc' = [ppc EXCEPT ![p] = "wait"] /\ UNCHANGED <<psem, list, cpc>>
    BY DEF SemIInv, ProducerPost, GiveItem
  <1>2. /\ Number(ppc', "push") = Number(ppc, "push")
        /\ Number(ppc', "post") = Number(ppc, "post") - 1
    <2>1. Moved(ppc, ppc', "post", "wait")
      BY <1>1, ProducerMove
    <2> QED
      BY <2>1 DEF Moved
  <1>3. /\ Number(ppc, "push") \in Nat /\ Number(ppc, "post") \in Nat
        /\ Number(cpc, "pop") \in Nat /\ Number(cpc, "post") \in Nat
        /\ Len(list) \in Nat /\ psem \in Nat /\ csem \in Nat
    BY <1>1, CountsType, HeadOps DEF SemTyped
  <1>4. SemTyped'
    BY <1>1 DEF SemTyped, SemProducerPC
  <1>5. PlacesConserved'
    BY <1>1, <1>2, <1>3 DEF SemIInv, PlacesConserved
  <1>6. ItemsInList'
    BY <1>1, <1>2, <1>3 DEF SemIInv, ItemsInList
  <1> QED
    BY <1>4, <1>5, <1>6 DEF SemIInv

LEMMA ConsumerWaitStep ==
  ASSUME SemIInv, NEW c \in Consumers, ConsumerWait(c)
  PROVE  SemIInv'
  <1>1. SemTyped /\ cpc[c] = "wait" /\ csem' = csem - 1 /\ csem > 0
        /\ cpc' = [cpc EXCEPT ![c] = "pop"] /\ UNCHANGED <<psem, list, ppc>>
    BY DEF SemIInv, ConsumerWait, TakeItem
  <1>2. /\ Number(cpc', "pop") = Number(cpc, "pop") + 1
        /\ Number(cpc', "post") = Number(cpc, "post")
    <2>1. Moved(cpc, cpc', "wait", "pop")
      BY <1>1, ConsumerMove
    <2> QED
      BY <2>1 DEF Moved
  <1>3. /\ Number(ppc, "push") \in Nat /\ Number(ppc, "post") \in Nat
        /\ Number(cpc, "pop") \in Nat /\ Number(cpc, "post") \in Nat
        /\ Len(list) \in Nat /\ psem \in Nat /\ csem \in Nat
    BY <1>1, CountsType, HeadOps DEF SemTyped
  <1>4. SemTyped'
    BY <1>1 DEF SemTyped, SemConsumerPC
  <1>5. PlacesConserved'
    BY <1>1, <1>2, <1>3 DEF SemIInv, PlacesConserved
  <1>6. ItemsInList'
    BY <1>1, <1>2, <1>3 DEF SemIInv, ItemsInList
  <1> QED
    BY <1>4, <1>5, <1>6 DEF SemIInv

LEMMA ConsumerPopStep ==
  ASSUME SemIInv, NEW c \in Consumers, SemPop(c)
  PROVE  SemIInv'
  <1>1. SemTyped /\ cpc[c] = "pop" /\ list # <<>> /\ list' = Tail(list)
        /\ cpc' = [cpc EXCEPT ![c] = "post"] /\ UNCHANGED <<psem, csem, ppc>>
    BY DEF SemIInv, SemPop
  <1>2. list' \in Seq(Nodes) /\ Len(list') = Len(list) - 1
    BY <1>1, HeadOps DEF SemTyped
  <1>3. /\ Number(cpc', "pop") = Number(cpc, "pop") - 1
        /\ Number(cpc', "post") = Number(cpc, "post") + 1
    <2>1. Moved(cpc, cpc', "pop", "post")
      BY <1>1, ConsumerMove
    <2> QED
      BY <2>1 DEF Moved
  <1>4. /\ Number(ppc, "push") \in Nat /\ Number(ppc, "post") \in Nat
        /\ Number(cpc, "pop") \in Nat /\ Number(cpc, "post") \in Nat
        /\ Len(list) \in Nat /\ psem \in Nat /\ csem \in Nat
    BY <1>1, CountsType, HeadOps DEF SemTyped
  <1>5. SemTyped'
    BY <1>1, <1>2 DEF SemTyped, SemConsumerPC
  <1>6. PlacesConserved'
    BY <1>1, <1>3, <1>4 DEF SemIInv, PlacesConserved
  <1>7. ItemsInList'
    BY <1>1, <1>2, <1>3, <1>4 DEF SemIInv, ItemsInList
  <1> QED
    BY <1>5, <1>6, <1>7 DEF SemIInv

LEMMA ConsumerPostStep ==
  ASSUME SemIInv, NEW c \in Consumers, ConsumerPost(c)
  PROVE  SemIInv'
  <1>1. SemTyped /\ cpc[c] = "post" /\ psem' = psem + 1
        /\ cpc' = [cpc EXCEPT ![c] = "wait"] /\ UNCHANGED <<csem, list, ppc>>
    BY DEF SemIInv, ConsumerPost, GivePlace
  <1>2. /\ Number(cpc', "pop") = Number(cpc, "pop")
        /\ Number(cpc', "post") = Number(cpc, "post") - 1
    <2>1. Moved(cpc, cpc', "post", "wait")
      BY <1>1, ConsumerMove
    <2> QED
      BY <2>1 DEF Moved
  <1>3. /\ Number(ppc, "push") \in Nat /\ Number(ppc, "post") \in Nat
        /\ Number(cpc, "pop") \in Nat /\ Number(cpc, "post") \in Nat
        /\ Len(list) \in Nat /\ psem \in Nat /\ csem \in Nat
    BY <1>1, CountsType, HeadOps DEF SemTyped
  <1>4. SemTyped'
    BY <1>1 DEF SemTyped, SemConsumerPC
  <1>5. PlacesConserved'
    BY <1>1, <1>2, <1>3 DEF SemIInv, PlacesConserved
  <1>6. ItemsInList'
    BY <1>1, <1>2, <1>3 DEF SemIInv, ItemsInList
  <1> QED
    BY <1>4, <1>5, <1>6 DEF SemIInv

LEMMA SemStepIInv == SemIInv /\ [SemNext]_semVars => SemIInv'
  <1> SUFFICES ASSUME SemIInv, [SemNext]_semVars PROVE SemIInv'
    OBVIOUS
  <1>1. ASSUME NEW p \in Producers, SemProducer(p) PROVE SemIInv'
    BY <1>1, ProducerWaitStep, ProducerPushStep, ProducerPostStep DEF SemProducer
  <1>2. ASSUME NEW c \in Consumers, SemConsumer(c) PROVE SemIInv'
    BY <1>2, ConsumerWaitStep, ConsumerPopStep, ConsumerPostStep DEF SemConsumer
  <1>3. ASSUME UNCHANGED semVars PROVE SemIInv'
    <2>1. UNCHANGED <<psem, csem, list, ppc, cpc>>
      BY <1>3 DEF semVars
    <2> QED
      BY <2>1 DEF SemIInv, SemTyped, PlacesConserved, ItemsInList, Number
  <1> QED
    BY <1>1, <1>2, <1>3 DEF SemNext

\* The accounting of places and nodes holds in every state of the program.
THEOREM Accounting == SemSpec => []SemIInv
  BY SemInitIInv, SemStepIInv, PTL DEF SemSpec

\* No place is lost or invented, for any number of threads (PlacesConserved).
THEOREM PlacesStay == SemSpec => []PlacesConserved
  <1>1. SemIInv => PlacesConserved
    BY DEF SemIInv
  <1> QED
    BY <1>1, Accounting, PTL

\* consumer's unchecked use of head (thread_signal.c:80-82) always finds a node.
THEOREM HeadNeverNull == SemSpec => []PopFindsNode
  <1>1. SemIInv => PopFindsNode
    BY CountsType, HeadOps DEF SemIInv, SemTyped, ItemsInList, PopFindsNode
  <1> QED
    BY <1>1, Accounting, PTL

\* Neither semaphore ever exceeds the initial value of psem.
THEOREM SemaphoresBounded == SemSpec => []SemTypeOK
  <1>1. SemIInv => SemTypeOK
    <2> SUFFICES ASSUME SemIInv PROVE SemTypeOK
      OBVIOUS
    <2>1. /\ Number(ppc, "push") \in Nat /\ Number(ppc, "post") \in Nat
          /\ Number(cpc, "pop") \in Nat /\ Number(cpc, "post") \in Nat
      BY CountsType DEF SemIInv
    <2>2. psem \in Nat /\ csem \in Nat
      BY DEF SemIInv, SemTyped
    <2>3. psem \in 0..Places /\ csem \in 0..Places
      BY <2>1, <2>2 DEF SemIInv, PlacesConserved
    <2> QED
      BY <2>3 DEF SemIInv, SemTyped, SemTypeOK
  <1> QED
    BY <1>1, Accounting, PTL

-----------------------------------------------------------------------------
\* A push finds the list below its bound, so it is a push of NodeStack.
LEMMA PushRefines ==
  ASSUME SemIInv, NEW p \in Producers, SemPush(p)
  PROVE  SemStack!Next
  <1>1. SemTyped /\ ppc[p] = "push"
    BY DEF SemIInv, SemPush
  <1>2. Number(ppc, "push") > 0
    <2>1. ppc' = [ppc EXCEPT ![p] = "post"]
      BY DEF SemPush
    <2>2. Moved(ppc, ppc', "push", "post")
      BY <1>1, <2>1, ProducerMove
    <2> QED
      BY <2>2 DEF Moved
  <1>3. Len(list) < Places
    <2>1. /\ Number(ppc, "push") \in Nat /\ Number(ppc, "post") \in Nat
          /\ Number(cpc, "pop") \in Nat /\ Number(cpc, "post") \in Nat
      BY <1>1, CountsType
    <2>2. psem \in Nat /\ csem \in Nat
      BY <1>1 DEF SemTyped
    <2> QED
      BY <1>2, <2>1, <2>2 DEF SemIInv, PlacesConserved, ItemsInList
  <1>4. PICK n \in Nodes : (\A m \in 1..Len(list) : list[m] # n)
                          /\ list' = <<n>> \o list
    BY DEF SemPush, Linked
  <1> QED
    BY <1>3, <1>4 DEF SemStack!Next, SemStack!Push

LEMMA SemStepStacks == SemIInv /\ [SemNext]_semVars => [SemStack!Next]_list
  <1> SUFFICES ASSUME SemIInv, [SemNext]_semVars PROVE [SemStack!Next]_list
    OBVIOUS
  <1>1. ASSUME NEW p \in Producers, SemProducer(p) PROVE [SemStack!Next]_list
    BY <1>1, PushRefines DEF SemProducer, ProducerWait, ProducerPost
  <1>2. ASSUME NEW c \in Consumers, SemConsumer(c) PROVE [SemStack!Next]_list
    BY <1>2 DEF SemConsumer, ConsumerWait, SemPop, ConsumerPost,
                SemStack!Next, SemStack!Pop
  <1> QED
    BY <1>1, <1>2 DEF SemNext, semVars

\* The list of thread_signal.c is the bounded stack of NodeStack: the two
\* semaphores bound it by the initial value of psem.
THEOREM SemListIsStack == SemSpec => SemStackSpec
  <1>1. SemInit => SemStack!Init
    BY DEF SemInit, SemStack!Init
  <1> QED
    BY <1>1, SemStepStacks, Accounting, PTL DEF SemSpec, SemStackSpec, SemStack!Spec

-----------------------------------------------------------------------------
(***************************************************************************)
(* thread_cond.c.                                                          *)
(***************************************************************************)

\* The producers on the way to their broadcast.
Late(at) == {p \in DOMAIN at : at[p] = "broadcast"}

\* No node is linked twice.
NodesDistinct == \A m, j \in 1..Len(list) : list[m] = list[j] => m = j

CondIInv == CondTypeOK /\ NodesDistinct /\ NoLostWakeup

-----------------------------------------------------------------------------
\* Linking an unlinked node at the head, and unlinking the head.
LEMMA PushNode ==
  ASSUME CondTypeOK, NodesDistinct, NEW n \in Nodes,
         \A m \in 1..Len(list) : list[m] # n, list' = <<n>> \o list
  PROVE  /\ list' \in Seq(Nodes) /\ Len(list') = Len(list) + 1
         /\ Len(list) \in Nat /\ NodesDistinct'
  <1>1. list \in Seq(Nodes) /\ <<n>> \in Seq(Nodes) /\ Len(<<n>>) = 1
        /\ Len(list) \in Nat
    BY DEF CondTypeOK
  <1>2. list' \in Seq(Nodes) /\ Len(list') = Len(list) + 1
    BY <1>1, ConcatProperties
  <1>3. \A m \in 1..Len(list) + 1 :
           list'[m] = IF m <= 1 THEN n ELSE list[m - 1]
    BY <1>1
  <1>4. NodesDistinct'
    <2> SUFFICES ASSUME NEW m \in 1..Len(list'), NEW j \in 1..Len(list'),
                        list'[m] = list'[j]
                 PROVE  m = j
      BY DEF NodesDistinct
    <2>1. \A k \in 1..Len(list') :
             k = 1 \/ (k - 1 \in 1..Len(list) /\ list'[k] = list[k - 1])
      BY <1>1, <1>2, <1>3
    <2>2. list'[1] = n /\ 1 \in 1..Len(list')
      BY <1>1, <1>2, <1>3
    <2>3. CASE m = 1 \/ j = 1
      BY <1>1, <1>2, <2>1, <2>2, <2>3
    <2>4. CASE m # 1 /\ j # 1
      <3>1. list[m - 1] = list[j - 1] /\ m - 1 \in 1..Len(list) /\ j - 1 \in 1..Len(list)
        BY <2>1, <2>4
      <3>2. m - 1 = j - 1
        BY <3>1 DEF NodesDistinct
      <3> QED
        BY <1>1, <1>2, <3>2
    <2> QED
      BY <2>3, <2>4
  <1> QED
    BY <1>1, <1>2, <1>4

LEMMA PopNode ==
  ASSUME CondTypeOK, NodesDistinct, list # <<>>, list' = Tail(list)
  PROVE  /\ list' \in Seq(Nodes) /\ Len(list') = Len(list) - 1
         /\ Len(list) \in Nat /\ NodesDistinct'
  <1>1. list \in Seq(Nodes) /\ Len(list) \in Nat
    BY DEF CondTypeOK
  <1>2. /\ list' \in Seq(Nodes) /\ Len(list') = Len(list) - 1
        /\ \A m \in 1..Len(list') : list'[m] = list[m + 1]
    BY <1>1, HeadTailProperties
  <1> QED
    BY <1>1, <1>2 DEF NodesDistinct

\* A heap with an unlinked node is larger than the list.
LEMMA HeapLarger ==
  ASSUME CondTypeOK, NodesDistinct, NEW n \in Nodes,
         \A m \in 1..Len(list) : list[m] # n
  PROVE  Len(list) < Cardinality(Nodes)
  <1>1. list \in Seq(Nodes) /\ Len(list) \in Nat /\ IsFiniteSet(Nodes)
    BY CondAssumption DEF CondTypeOK
  <1>2. /\ IsFiniteSet(Nodes \ {n}) /\ Cardinality(Nodes) \in Nat
        /\ Cardinality(Nodes \ {n}) = Cardinality(Nodes) - 1
    BY <1>1, FS_RemoveElement, FS_CardinalityType
  <1>3. list \in Injection(1..Len(list), Nodes \ {n})
    BY <1>1 DEF Injection, IsInjective, NodesDistinct
  <1>4. Cardinality(1..Len(list)) <= Cardinality(Nodes \ {n})
    BY <1>2, <1>3, FS_Injection
  <1>5. Cardinality(1..Len(list)) = Len(list)
    BY <1>1, FS_Interval
  <1> QED
    BY <1>1, <1>2, <1>4, <1>5

\* The set the wakeups are counted by.
LEMMA LateSet ==
  ASSUME CondTypeOK
  PROVE  /\ Late(ppc) = {p \in Producers : ppc[p] = "broadcast"}
         /\ Cardinality(Late(ppc)) \in Nat /\ IsFiniteSet(Late(ppc))
  <1>1. Late(ppc) = {p \in Producers : ppc[p] = "broadcast"}
    BY DEF Late, CondTypeOK
  <1>2. IsFiniteSet(Late(ppc))
    BY <1>1, CondAssumption, FS_Subset
  <1> QED
    BY <1>1, <1>2, FS_CardinalityType

-----------------------------------------------------------------------------
LEMMA CondInitIInv == CondInit => CondIInv
  <1> SUFFICES ASSUME CondInit PROVE CondIInv
    OBVIOUS
  <1>1. CondTypeOK
    BY DEF CondInit, CondTypeOK, CondProducerPC, CondConsumerPC
  <1>2. NodesDistinct
    BY DEF CondInit, NodesDistinct
  <1>3. NoLostWakeup
    BY DEF CondInit, NoLostWakeup
  <1> QED
    BY <1>1, <1>2, <1>3 DEF CondIInv

\* A push adds a node, and a producer on its way to the broadcast.
LEMMA PushStep ==
  ASSUME CondIInv, NEW p \in Producers, CondPush(p)
  PROVE  CondIInv'
  <1>1. CondTypeOK /\ NodesDistinct /\ ppc[p] = "link" /\ cpc' = cpc
        /\ ppc' = [ppc EXCEPT ![p] = "broadcast"]
    BY DEF CondIInv, CondPush
  <1>2. PICK n \in Nodes : (\A m \in 1..Len(list) : list[m] # n)
                          /\ list' = <<n>> \o list
    BY DEF CondPush, Linked
  <1>3. /\ list' \in Seq(Nodes) /\ Len(list') = Len(list) + 1
        /\ Len(list) \in Nat /\ NodesDistinct'
    BY <1>1, <1>2, PushNode
  <1>4. CondTypeOK'
    BY <1>1, <1>3 DEF CondTypeOK, CondProducerPC
  <1>5. Late(ppc') = Late(ppc) \cup {p} /\ p \notin Late(ppc)
    BY <1>1 DEF Late, CondTypeOK
  <1>6. Cardinality(Late(ppc')) = Cardinality(Late(ppc)) + 1
    BY <1>1, <1>5, LateSet, FS_AddElement
  <1>7. Late(ppc') = {q \in Producers : ppc'[q] = "broadcast"}
    BY <1>4 DEF Late, CondTypeOK
  <1>8. NoLostWakeup'
    <2> SUFFICES ASSUME \E c \in Consumers : cpc[c] = "blocked"
                 PROVE  Len(list') <= Cardinality(Late(ppc'))
      BY <1>1, <1>7 DEF NoLostWakeup
    <2>1. Len(list) <= Cardinality(Late(ppc)) /\ Cardinality(Late(ppc)) \in Nat
      BY <1>1, LateSet DEF CondIInv, NoLostWakeup
    <2> QED
      BY <1>3, <1>6, <2>1
  <1> QED
    BY <1>3, <1>4, <1>8 DEF CondIInv

\* After a broadcast nobody sleeps.
LEMMA BroadcastStep ==
  ASSUME CondIInv, NEW p \in Producers, ProducerBroadcast(p)
  PROVE  CondIInv'
  <1>1. /\ ppc' = [ppc EXCEPT ![p] = "link"] /\ list' = list
        /\ cpc' = [c \in Consumers |-> IF cpc[c] = "blocked" THEN "woken" ELSE cpc[c]]
    BY DEF ProducerBroadcast, Broadcast
  <1>2. CondTypeOK'
    BY <1>1 DEF CondIInv, CondTypeOK, CondProducerPC, CondConsumerPC
  <1>3. NoLostWakeup'
    BY <1>1 DEF NoLostWakeup
  <1> QED
    BY <1>1, <1>2, <1>3 DEF CondIInv, NodesDistinct

\* A consumer goes to sleep only on an empty list.
LEMMA SleepStep ==
  ASSUME CondIInv, NEW c \in Consumers, ConsumerSleep(c)
  PROVE  CondIInv'
  <1>1. CondTypeOK /\ list = <<>> /\ list' = list /\ ppc' = ppc
        /\ cpc' = [cpc EXCEPT ![c] = "blocked"]
    BY DEF CondIInv, ConsumerSleep
  <1>2. CondTypeOK'
    BY <1>1 DEF CondTypeOK, CondConsumerPC
  <1>3. Len(list') = 0 /\ Cardinality(Late(ppc)) \in Nat
        /\ Late(ppc) = {p \in Producers : ppc'[p] = "broadcast"}
    BY <1>1, LateSet
  <1>4. NoLostWakeup'
    BY <1>3 DEF NoLostWakeup
  <1> QED
    BY <1>1, <1>2, <1>4 DEF CondIInv, NodesDistinct

\* A pop shortens the list; a spurious wakeup leaves fewer sleepers.
LEMMA PopStep ==
  ASSUME CondIInv, NEW c \in Consumers, CondPop(c)
  PROVE  CondIInv'
  <1>1. CondTypeOK /\ NodesDistinct /\ list # <<>> /\ list' = Tail(list) /\ ppc' = ppc
        /\ cpc[c] # "blocked" /\ cpc' = [cpc EXCEPT ![c] = "lock"]
    BY DEF CondIInv, CondPop
  <1>2. /\ list' \in Seq(Nodes) /\ Len(list') = Len(list) - 1
        /\ Len(list) \in Nat /\ NodesDistinct'
    BY <1>1, PopNode
  <1>3. CondTypeOK'
    BY <1>1, <1>2 DEF CondTypeOK, CondConsumerPC
  <1>4. (\E d \in Consumers : cpc'[d] = "blocked") => \E d \in Consumers : cpc[d] = "blocked"
    BY <1>1 DEF CondTypeOK
  <1>5. Cardinality({p \in Producers : ppc[p] = "broadcast"}) \in Nat
    BY <1>1, LateSet
  <1>6. NoLostWakeup'
    BY <1>1, <1>2, <1>4, <1>5 DEF CondIInv, NoLostWakeup
  <1> QED
    BY <1>2, <1>3, <1>6 DEF CondIInv

LEMMA SpuriousStep ==
  ASSUME CondIInv, NEW c \in Consumers, SpuriousWakeup(c)
  PROVE  CondIInv'
  <1>1. CondTypeOK /\ list' = list /\ ppc' = ppc /\ cpc' = [cpc EXCEPT ![c] = "woken"]
    BY DEF CondIInv, SpuriousWakeup
  <1>2. CondTypeOK'
    BY <1>1 DEF CondTypeOK, CondConsumerPC
  <1>3. (\E d \in Consumers : cpc'[d] = "blocked") => \E d \in Consumers : cpc[d] = "blocked"
    BY <1>1 DEF CondTypeOK
  <1>4. NoLostWakeup'
    BY <1>1, <1>3 DEF CondIInv, NoLostWakeup
  <1> QED
    BY <1>1, <1>2, <1>4 DEF CondIInv, NodesDistinct

LEMMA CondStepIInv == CondIInv /\ [CondNext]_condVars => CondIInv'
  <1> SUFFICES ASSUME CondIInv, [CondNext]_condVars PROVE CondIInv'
    OBVIOUS
  <1>1. ASSUME NEW p \in Producers, CondProducer(p) PROVE CondIInv'
    BY <1>1, PushStep, BroadcastStep DEF CondProducer
  <1>2. ASSUME NEW c \in Consumers, CondConsumer(c) \/ SpuriousWakeup(c) PROVE CondIInv'
    BY <1>2, SleepStep, PopStep, SpuriousStep DEF CondConsumer
  <1>3. ASSUME UNCHANGED condVars PROVE CondIInv'
    <2>1. list' = list /\ ppc' = ppc /\ cpc' = cpc
      BY <1>3 DEF condVars
    <2> QED
      BY <2>1 DEF CondIInv, CondTypeOK, NodesDistinct, NoLostWakeup
  <1> QED
    BY <1>1, <1>2, <1>3 DEF CondNext

\* The invariant holds in every state of the program.
THEOREM CondInvariance == CondSpec => []CondIInv
  BY CondInitIInv, CondStepIInv, PTL DEF CondSpec

\* Broadcasting after the unlock loses no wakeup, for any number of threads
\* (thread_cond.c:68-73).
THEOREM WakeupsKept == CondSpec => []NoLostWakeup
  <1>1. CondIInv => NoLostWakeup
    BY DEF CondIInv
  <1> QED
    BY <1>1, CondInvariance, PTL

-----------------------------------------------------------------------------
LEMMA CondStepStacks == CondIInv /\ [CondNext]_condVars => [CondStack!Next]_list
  <1> SUFFICES ASSUME CondIInv, [CondNext]_condVars PROVE [CondStack!Next]_list
    OBVIOUS
  <1>1. ASSUME NEW p \in Producers, CondPush(p) PROVE CondStack!Next
    <2>1. PICK n \in Nodes : (\A m \in 1..Len(list) : list[m] # n)
                            /\ list' = <<n>> \o list
      BY <1>1 DEF CondPush, Linked
    <2>2. Len(list) < Cardinality(Nodes)
      BY <2>1, HeapLarger DEF CondIInv
    <2> QED
      BY <2>1, <2>2 DEF CondStack!Next, CondStack!Push
  <1>2. ASSUME NEW c \in Consumers, CondPop(c) PROVE CondStack!Next
    BY <1>2 DEF CondPop, CondStack!Next, CondStack!Pop
  <1> QED
    BY <1>1, <1>2 DEF CondNext, condVars, CondProducer, ProducerBroadcast,
                      CondConsumer, ConsumerSleep, SpuriousWakeup

\* The list is a stack of distinct nodes no larger than the heap: no node is
\* linked twice and none is popped from an empty list (thread_cond.c:97-100).
THEOREM CondListIsStack == CondSpec => CondStackSpec
  <1>1. CondInit => CondStack!Init
    BY DEF CondInit, CondStack!Init
  <1> QED
    BY <1>1, CondStepStacks, CondInvariance, PTL DEF CondSpec, CondStackSpec, CondStack!Spec

-----------------------------------------------------------------------------
(***************************************************************************)
(* Both programs as they are checked together: whichever of them runs.     *)
(***************************************************************************)
QueueInv ==
    /\ program = "sem" => SemIInv
    /\ program = "cond" => CondIInv

\* Whichever program runs, what it does to the list is a step of NodeStack, and
\* the programs without a list leave it alone (thread_signal.c:52-91,
\* thread_cond.c:58-106).
THEOREM ListsAreStacks == DemoInit /\ [][DemoNext]_demoVars => StackSpec
  <1>1. DemoInit => QueueInv
    <2>1. ASSUME DemoInit, program = "sem" PROVE SemIInv
      BY <2>1, SemInitIInv DEF DemoInit, AtRest, SemInit
    <2>2. ASSUME DemoInit, program = "cond" PROVE CondIInv
      BY <2>2, CondInitIInv DEF DemoInit, AtRest
    <2> QED
      BY <2>1, <2>2 DEF QueueInv
  <1>2. ASSUME DemoNext \/ UNCHANGED demoVars
        PROVE  /\ program' = program
               /\ program = "sem" => [SemNext]_semVars
               /\ program = "cond" => [CondNext]_condVars
               /\ program \notin {"sem", "cond"} => UNCHANGED list
    BY <1>2
    DEF DemoNext, demoVars, semaphores, queueVars, semVars, condVars, RunSem, RunCond,
        RunMutex, RunRWLock, RunReaper, Ended
  <1>3. QueueInv /\ [DemoNext]_demoVars => QueueInv'
    BY <1>2, SemStepIInv, CondStepIInv DEF QueueInv
  <1>4. QueueInv /\ [DemoNext]_demoVars =>
           [\/ program = "sem" /\ SemStack!Next
            \/ program = "cond" /\ CondStack!Next]_list
    BY <1>2, SemStepStacks, CondStepStacks DEF QueueInv
  <1> QED
    BY <1>1, <1>3, <1>4, PTL DEF StackSpec

-----------------------------------------------------------------------------
(***************************************************************************)
(* thread_lock.c and thread_rwlock.c.                                      *)
(***************************************************************************)

\* The lock is held between its grant and its release.
Held == \A t \in Threads : t \in holders <=> tpc[t] \in {"load", "store", "unlock"}

\* Nobody shares it, not even two readers.
Exclusive == \A t, u \in holders : t = u

\* The thread between its load and its store has read the present counter.
FreshLoad == \A t \in Threads : tpc[t] = "store" => tmp[t] = x

\* How far a thread is in its loop.
RoundsDone ==
    \A t \in Threads :
        /\ tpc[t] = "lock" => i[t] = 0
        /\ tpc[t] \in {"load", "store"} => i[t] < Rounds
        /\ tpc[t] = "unlock" => i[t] = Rounds

\* main prints the counter as all threads have left it.
PrintedLast == printed # Unset => Joined /\ printed = x

Locking == LockTypeOK /\ Held /\ Exclusive
LockInv == Locking /\ FreshLoad /\ RoundsDone /\ NoIncrementLost /\ PrintedLast

-----------------------------------------------------------------------------
\* How many threads have ended.
LEMMA FinishedCount ==
    /\ IsFiniteSet(Finished) /\ Cardinality(Finished) \in Nat
    /\ Rounds * Cardinality(Finished) \in Nat
<1>1. Finished \subseteq Threads
  BY DEF Finished
<1>2. IsFiniteSet(Finished) /\ Cardinality(Finished) \in Nat
  BY <1>1, LockAssumption, FS_Subset, FS_CardinalityType
<1>3. QED
  BY <1>2, LockAssumption

\* The locks are granted to nobody while somebody holds one: the only reader is
\* the one that asks.
LEMMA GrantedAlone ==
    ASSUME Locking, NEW t \in Threads, tpc[t] = "lock",
           MutexLock(t) \/ WriteLock(t) \/ ReadLock(t)
    PROVE  holders = {} /\ Granted(t)
<1>1. t \notin holders
  BY DEF Locking, Held
<1>2. CASE MutexLock(t) \/ WriteLock(t)
  BY <1>2 DEF MutexLock, MutexFree, WriteLock, WriteFree
<1>3. CASE ReadLock(t)
  BY <1>1, <1>3, LockAssumption DEF ReadLock, ReadFree
<1>4. QED
  BY <1>2, <1>3

-----------------------------------------------------------------------------
\* Nobody has begun.
LEMMA LockInitially == LockInit => LockInv
<1> SUFFICES ASSUME LockInit PROVE LockInv
  OBVIOUS
<1>1. Locking
  BY LockAssumption DEF LockInit, Locking, LockTypeOK, Held, Exclusive
<1>2. FreshLoad /\ RoundsDone /\ PrintedLast
  BY LockAssumption DEF LockInit, FreshLoad, RoundsDone, PrintedLast
<1>3. Finished = {}
  BY DEF LockInit, Finished
<1>4. Cardinality(Finished) = 0
  BY <1>3, FS_EmptySet
<1>5. NoIncrementLost
  BY <1>4, LockAssumption DEF LockInit, NoIncrementLost
<1>6. QED
  BY <1>1, <1>2, <1>5 DEF LockInv

\* A lock is granted: the counter is that of the threads that have ended.
LEMMA GrantKeeps ==
    ASSUME LockInv, NEW t \in Threads, MutexLock(t) \/ WriteLock(t) \/ ReadLock(t)
    PROVE  LockInv'
<1>1. tpc[t] = "lock"
  BY DEF MutexLock, WriteLock, ReadLock, Granted
<1>2. holders = {} /\ Granted(t)
  BY <1>1, GrantedAlone DEF LockInv
<1>3. /\ holders' = {t} /\ tpc' = [tpc EXCEPT ![t] = "load"]
      /\ x' = x /\ i' = i /\ tmp' = tmp /\ printed' = printed
  BY <1>2 DEF Granted
<1>4. Locking'
  BY <1>2, <1>3 DEF LockInv, Locking, LockTypeOK, Held, Exclusive
<1>5. FreshLoad' /\ RoundsDone'
  BY <1>1, <1>3, LockAssumption DEF LockInv, Locking, LockTypeOK, FreshLoad, RoundsDone
<1>6. PrintedLast'
  BY <1>1, <1>3 DEF LockInv, PrintedLast, Joined
<1>7. Finished' = Finished
  BY <1>1, <1>3 DEF LockInv, Locking, LockTypeOK, Finished
<1>8. i[t] = 0 /\ x = Rounds * Cardinality(Finished)
  BY <1>1, <1>2 DEF LockInv, RoundsDone, NoIncrementLost
<1>9. NoIncrementLost'
  BY <1>3, <1>7, <1>8, FinishedCount DEF NoIncrementLost
<1>10. QED
  BY <1>4, <1>5, <1>6, <1>9 DEF LockInv

\* The holder loads the counter.
LEMMA LoadKeeps == ASSUME LockInv, NEW t \in Threads, Load(t) PROVE LockInv'
<1>1. /\ tpc[t] = "load" /\ tpc' = [tpc EXCEPT ![t] = "store"] /\ tmp' = [tmp EXCEPT ![t] = x]
      /\ x' = x /\ holders' = holders /\ i' = i /\ printed' = printed
  BY DEF Load
<1>2. Locking'
  BY <1>1 DEF LockInv, Locking, LockTypeOK, Held, Exclusive
<1>3. FreshLoad' /\ RoundsDone'
  BY <1>1 DEF LockInv, Locking, LockTypeOK, FreshLoad, RoundsDone
<1>4. PrintedLast'
  BY <1>1 DEF LockInv, PrintedLast, Joined
<1>5. Finished' = Finished
  BY <1>1 DEF LockInv, Locking, LockTypeOK, Finished
<1>6. NoIncrementLost'
  BY <1>1, <1>5 DEF LockInv, NoIncrementLost
<1>7. QED
  BY <1>2, <1>3, <1>4, <1>6 DEF LockInv

\* The holder stores one more: nobody else is between a load and a store.
LEMMA StoreKeeps == ASSUME LockInv, NEW t \in Threads, Store(t) PROVE LockInv'
<1>1. /\ tpc[t] = "store" /\ x' = tmp[t] + 1 /\ i' = [i EXCEPT ![t] = @ + 1]
      /\ tpc' = [tpc EXCEPT ![t] = IF i[t] + 1 = Rounds THEN "unlock" ELSE "load"]
      /\ holders' = holders /\ tmp' = tmp /\ printed' = printed
  BY DEF Store
<1>2. /\ holders = {t} /\ tmp[t] = x /\ x \in Nat /\ i[t] \in Nat /\ i[t] < Rounds
      /\ Rounds \in Nat
  BY <1>1, LockAssumption
     DEF LockInv, Locking, LockTypeOK, Held, Exclusive, FreshLoad, RoundsDone
<1>3. Locking'
  BY <1>1, <1>2 DEF LockInv, Locking, LockTypeOK, Held, Exclusive
<1>4. FreshLoad'
  <2> SUFFICES ASSUME NEW u \in Threads, tpc'[u] = "store" PROVE FALSE
    BY DEF FreshLoad
  <2>1. u # t /\ tpc[u] = "store"
    BY <1>1 DEF LockInv, Locking, LockTypeOK
  <2>2. QED
    BY <2>1, <1>2 DEF LockInv, Locking, Held
<1>5. RoundsDone'
  BY <1>1, <1>2 DEF LockInv, Locking, LockTypeOK, RoundsDone
<1>6. PrintedLast'
  BY <1>1 DEF LockInv, PrintedLast, Joined
<1>7. Finished' = Finished
  BY <1>1 DEF LockInv, Locking, LockTypeOK, Finished
<1>8. x = Rounds * Cardinality(Finished) + i[t] /\ i'[t] = i[t] + 1
  BY <1>1, <1>2 DEF LockInv, Locking, LockTypeOK, NoIncrementLost
<1>9. NoIncrementLost'
  BY <1>1, <1>2, <1>7, <1>8, FinishedCount DEF NoIncrementLost
<1>10. QED
  BY <1>3, <1>4, <1>5, <1>6, <1>9 DEF LockInv

\* The holder releases the lock after its last round.
LEMMA UnlockKeeps == ASSUME LockInv, NEW t \in Threads, Unlock(t) PROVE LockInv'
<1>1. /\ tpc[t] = "unlock" /\ holders' = holders \ {t} /\ tpc' = [tpc EXCEPT ![t] = "done"]
      /\ x' = x /\ i' = i /\ tmp' = tmp /\ printed' = printed
  BY DEF Unlock, Released
<1>2. holders = {t} /\ i[t] = Rounds
  BY <1>1 DEF LockInv, Locking, LockTypeOK, Held, Exclusive, RoundsDone
<1>3. Locking'
  BY <1>1, <1>2 DEF LockInv, Locking, LockTypeOK, Held, Exclusive
<1>4. FreshLoad' /\ RoundsDone'
  BY <1>1 DEF LockInv, Locking, LockTypeOK, FreshLoad, RoundsDone
<1>5. PrintedLast'
  BY <1>1 DEF LockInv, PrintedLast, Joined
<1>6. Finished' = Finished \cup {t} /\ t \notin Finished
  BY <1>1 DEF LockInv, Locking, LockTypeOK, Finished
<1>7. Cardinality(Finished') = Cardinality(Finished) + 1
  BY <1>6, FinishedCount, FS_AddElement
<1>8. \A m, n \in Nat : m * (n + 1) = m * n + m
  OBVIOUS
<1>9. Rounds * (Cardinality(Finished) + 1) = Rounds * Cardinality(Finished) + Rounds
  BY <1>8, FinishedCount, LockAssumption
<1>10. x = Rounds * Cardinality(Finished) + Rounds
  BY <1>2 DEF LockInv, NoIncrementLost
<1>11. NoIncrementLost'
  BY <1>1, <1>2, <1>7, <1>9, <1>10 DEF NoIncrementLost
<1>12. QED
  BY <1>3, <1>4, <1>5, <1>11 DEF LockInv

\* main prints once all have ended.
LEMMA PrintKeeps == ASSUME LockInv, PrintSum PROVE LockInv'
<1>1. /\ Joined /\ printed' = x
      /\ x' = x /\ holders' = holders /\ tpc' = tpc /\ i' = i /\ tmp' = tmp
  BY DEF PrintSum
<1>2. Locking'
  BY <1>1 DEF LockInv, Locking, LockTypeOK, Held, Exclusive
<1>3. FreshLoad' /\ RoundsDone' /\ PrintedLast'
  BY <1>1 DEF LockInv, FreshLoad, RoundsDone, PrintedLast, Joined
<1>4. NoIncrementLost'
  BY <1>1 DEF LockInv, NoIncrementLost, Finished
<1>5. QED
  BY <1>2, <1>3, <1>4 DEF LockInv

\* Nothing changes.
LEMMA LockStutterKeeps == LockInv /\ UNCHANGED lockVars => LockInv'
  BY DEF lockVars, LockInv, Locking, LockTypeOK, Held, Exclusive, FreshLoad, RoundsDone,
         NoIncrementLost, PrintedLast, Finished, Joined

-----------------------------------------------------------------------------
\* The invariant holds in every state of the two programs.
THEOREM LockInvariance == LockSpec => []LockInv
<1>1. LockInv /\ [LockNext]_lockVars => LockInv'
  BY GrantKeeps, LoadKeeps, StoreKeeps, UnlockKeeps, PrintKeeps, LockStutterKeeps
     DEF LockNext, ThreadStep
<1>2. QED
  BY <1>1, LockInitially, PTL DEF LockSpec

\* At every moment the counter is what the finished threads and the one in its
\* loop have added, although each increment is a load and a store.
THEOREM IncrementsKept == LockSpec => []NoIncrementLost
<1>1. LockInv => NoIncrementLost
  BY DEF LockInv
<1>2. QED
  BY <1>1, LockInvariance, PTL

\* main prints Rounds for each thread, for mutex and read-write lock alike.
THEOREM SumPrinted == LockSpec => []PrintedExact
<1>1. LockInv => PrintedExact
  <2> SUFFICES ASSUME LockInv, printed # Unset
               PROVE  printed = Rounds * Cardinality(Threads)
    BY DEF PrintedExact
  <2>1. Joined /\ printed = x
    BY DEF LockInv, PrintedLast
  <2>2. Finished = Threads
    BY <2>1 DEF Joined, Finished
  <2>3. holders = {}
    BY <2>1 DEF LockInv, Locking, LockTypeOK, Held, Joined
  <2>4. QED
    BY <2>1, <2>2, <2>3 DEF LockInv, NoIncrementLost
<1>2. QED
  BY <1>1, LockInvariance, PTL

-----------------------------------------------------------------------------
(***************************************************************************)
(* ChildReaper.                                                            *)
(***************************************************************************)

ReaperInv == ReaperTypeOK /\ ZombieAccount

\* The set of zombies is finite.
LEMMA ZombiesFinite ==
    ASSUME ReaperTypeOK
    PROVE  IsFiniteSet(In("zombie")) /\ Cardinality(In("zombie")) \in Nat
<1>1. In("zombie") \subseteq Children
  BY DEF In
<1>2. QED
  BY <1>1, ChildAssumption, FS_Subset, FS_CardinalityType

\* The flags count as numbers.
LEMMA Flags == \A b \in BOOLEAN : OneIf(b) \in Nat /\ OneIf(TRUE) = 1 /\ OneIf(FALSE) = 0
  BY DEF OneIf

-----------------------------------------------------------------------------
\* No child, no signal.
LEMMA ReaperInitially == ReaperInit => ReaperInv
<1> SUFFICES ASSUME ReaperInit PROVE ReaperInv
  OBVIOUS
<1>1. ReaperTypeOK
  BY DEF ReaperInit, ReaperTypeOK, Stages
<1>2. In("zombie") = {}
  BY DEF ReaperInit, In
<1>3. Cardinality(In("zombie")) = 0
  BY <1>2, FS_EmptySet
<1>4. OneIf(pending) = 0 /\ OneIf(handling) = 0 /\ merged = 0
  BY Flags DEF ReaperInit
<1>5. ZombieAccount
  BY <1>3, <1>4 DEF ZombieAccount
<1>6. QED
  BY <1>1, <1>5 DEF ReaperInv

\* A new child is no zombie.
LEMMA ForkKeeps == ASSUME ReaperInv, NEW c \in Children, Fork(c) PROVE ReaperInv'
<1>1. ReaperTypeOK'
  BY DEF ReaperInv, ReaperTypeOK, Fork, Stages
<1>2. In("zombie")' = In("zombie")
  BY DEF ReaperInv, ReaperTypeOK, Fork, In
<1>3. ZombieAccount'
  BY <1>2 DEF ReaperInv, ZombieAccount, Fork
<1>4. QED
  BY <1>1, <1>3 DEF ReaperInv

\* One zombie more, and either a signal more or a merged one more.
LEMMA ExitKeeps == ASSUME ReaperInv, NEW c \in Children, Exit(c) PROVE ReaperInv'
<1>1. /\ ReaperTypeOK /\ ZombieAccount
      /\ status[c] = "running" /\ status' = [status EXCEPT ![c] = "zombie"]
      /\ pending' = TRUE /\ merged' = merged + OneIf(pending) /\ handling' = handling
  BY DEF ReaperInv, Exit
<1>2. /\ pending \in BOOLEAN /\ handling \in BOOLEAN /\ merged \in Nat
      /\ OneIf(pending) \in Nat /\ OneIf(handling) \in Nat
  BY <1>1, Flags DEF ReaperTypeOK
<1>3. ReaperTypeOK'
  BY <1>1, <1>2 DEF ReaperTypeOK, Stages
<1>4. In("zombie")' = In("zombie") \cup {c} /\ c \notin In("zombie")
  BY <1>1 DEF ReaperTypeOK, In
<1>5. Cardinality(In("zombie"))' = Cardinality(In("zombie")) + 1
  BY <1>1, <1>4, ZombiesFinite, FS_AddElement
<1>6. OneIf(pending)' = 1 /\ OneIf(handling)' = OneIf(handling)
  BY <1>1, Flags
<1>7. ZombieAccount'
  BY <1>1, <1>2, <1>5, <1>6, ZombiesFinite DEF ZombieAccount
<1>8. QED
  BY <1>3, <1>7 DEF ReaperInv

\* A pending signal becomes a running handler.
LEMMA DeliverKeeps == ASSUME ReaperInv, Deliver PROVE ReaperInv'
<1>1. ReaperTypeOK'
  BY DEF ReaperInv, ReaperTypeOK, Deliver
<1>2. In("zombie")' = In("zombie")
  BY DEF Deliver, In
<1>3. OneIf(pending)' = 0 /\ OneIf(pending) = 1 /\ OneIf(handling)' = 1 /\ OneIf(handling) = 0
  BY Flags DEF Deliver, ReaperInv, ReaperTypeOK
<1>4. merged \in Nat /\ merged' = merged
  BY DEF ReaperInv, ReaperTypeOK, Deliver
<1>5. ZombieAccount'
  BY <1>2, <1>3, <1>4 DEF ReaperInv, ZombieAccount
<1>6. QED
  BY <1>1, <1>5 DEF ReaperInv

\* While the handler runs there is a zombie.
LEMMA ZombieThere == ASSUME ReaperInv, handling PROVE In("zombie") # {}
<1>1. OneIf(handling) = 1 /\ OneIf(pending) \in Nat /\ merged \in Nat
  BY Flags DEF ReaperInv, ReaperTypeOK
<1>2. Cardinality(In("zombie")) = OneIf(pending) + OneIf(handling) + merged
  BY DEF ReaperInv, ZombieAccount
<1>3. \A m, n \in Nat : m + 1 + n # 0
  OBVIOUS
<1>4. Cardinality(In("zombie")) # 0
  BY <1>1, <1>2, <1>3, Zenon
<1>5. QED
  BY <1>4, FS_EmptySet

\* The zombie that is there is taken, and the handler ends.
LEMMA ReapKeeps == ASSUME ReaperInv, Reap PROVE ReaperInv'
<1>1. PICK c \in In("zombie") : status' = [status EXCEPT ![c] = "reaped"]
  BY ZombieThere DEF Reap, WaitOne
<1>2. ReaperTypeOK /\ ZombieAccount /\ handling /\ c \in Children
  BY <1>1 DEF ReaperInv, Reap, In
<1>3. pending' = pending /\ merged' = merged /\ handling' = FALSE
  BY DEF Reap
<1>4. ReaperTypeOK'
  BY <1>1, <1>2, <1>3 DEF ReaperTypeOK, Stages
<1>5. In("zombie")' = In("zombie") \ {c}
  BY <1>1, <1>2 DEF ReaperTypeOK, In
<1>6. Cardinality(In("zombie"))' = Cardinality(In("zombie")) - 1
  BY <1>1, <1>2, <1>5, ZombiesFinite, FS_RemoveElement
<1>7. OneIf(handling) = 1 /\ OneIf(handling)' = 0 /\ OneIf(pending) \in Nat /\ merged \in Nat
  BY <1>2, <1>3, Flags DEF ReaperTypeOK
<1>8. OneIf(pending)' = OneIf(pending)
  BY <1>3 DEF OneIf
<1>9. Cardinality(In("zombie")) = OneIf(pending) + OneIf(handling) + merged
  BY <1>2 DEF ZombieAccount
<1>10. Cardinality(In("zombie"))' = OneIf(pending)' + OneIf(handling)' + merged'
  BY <1>3, <1>6, <1>7, <1>8, <1>9
<1>11. QED
  BY <1>4, <1>10 DEF ReaperInv, ZombieAccount

\* Nothing changes.
LEMMA ReaperStutterKeeps == ReaperInv /\ UNCHANGED reaperVars => ReaperInv'
  BY DEF ReaperInv, ReaperTypeOK, ZombieAccount, reaperVars, In

-----------------------------------------------------------------------------
\* The account and the types hold in every state of remove_zombie.c.
THEOREM Accounted == ReaperSpec => []ReaperInv
<1>1. ReaperInv /\ [ReaperNext]_reaperVars => ReaperInv'
  BY ForkKeeps, ExitKeeps, DeliverKeeps, ReapKeeps, ReaperStutterKeeps DEF ReaperNext
<1>2. QED
  BY <1>1, ReaperInitially, PTL DEF ReaperSpec

\* read_childproc leaves behind one zombie for each signal that merged: the
\* zombies are these and those a signal is still on the way for.
THEOREM ZombiesCounted == ReaperSpec => []ZombieAccount
<1>1. ReaperInv => ZombieAccount
  BY DEF ReaperInv
<1>2. QED
  BY <1>1, Accounted, PTL

\* Whenever read_childproc runs, waitpid finds a zombie and sets status.
THEOREM StatusIsSet == ReaperSpec => []HandlerFindsZombie
<1>1. ReaperInv => HandlerFindsZombie
  BY ZombieThere DEF HandlerFindsZombie
<1>2. QED
  BY <1>1, Accounted, PTL
=============================================================================
