# Verification of TCP-IP网络编程

The repository holds practice programs in C from a book on TCP/IP and threads:
about forty small files, most a program of its own, built on POSIX threads,
processes, signals and sockets.  This directory models the programs that have
states worth exploring, checks them with TLC and proves what it can with TLAPS.

## Inventory

File names are relative to `src/TCP-IP网络编程/`.

| Component | Files | State | Operations | Status |
|---|---|---|---|---|
| Thread pool | `thread_pool.c/.h`, `test3.c` | ring of tasks, `liveNum`, `busyNum`, `exitNum`, `shutdown`, two mutexes, two condition variables | create, `threadPoolAdd`, `worker`, `manager`, `threadExit`, `threadPoolDestory` | modelled, but for the failures of create and two getters |
| Semaphore queue | `thread_signal.c` | linked list, `psem`, `csem`, mutex | `producer`, `consumer` | modelled |
| Condition-variable queue | `thread_cond.c` | linked list, condition, mutex | `producer`, `consumer` | modelled |
| Chat server | `chat_server.c` | `cli_socks`, `cli_cnt`, mutex, descriptors | accept loop, `handle_cli`, `send_msg` | modelled |
| Chat client | `chat_client.c` | two threads on one socket | `send_msg`, `recv_msg` | modelled |
| Forking echo server | `echo_mpserv.c`, `remove_zombie.c`, `echo_mpclient.c` | children, pending SIGCHLD, `buf`, `mes` | accept/fork, `read_childproc`, child loop; the two processes of a client | modelled |
| Storing echo server | `echo_storeserv.c` | pipe, file, children | the writer, client children | modelled |
| Event loops | `echo_selectserv.c`, `echo_epollserv.c`, `echo_EPETserv.c` | interest set, ready list or edges, descriptors | wait, accept, read, write, close | modelled |
| Locks | `thread_lock.c`, `thread_rwlock.c` | one counter, one lock | increments under a lock, join, print | modelled |
| Calculator server | `echo_server.c`, `echo_client.c` | message buffer, two stacks | accept, convert, evaluate, answer | modelled |
| stdio echo, news | `echo_stdserv.c`, `echo_stdclient.c`, `news_sender.c`, `news_receiver.c` | stream, last line | `while (!feof)` loops | modelled |
| UDP echo | `uecho_server.c`, `uecho_client.c` | bound addresses, datagrams in flight | bind, send, echo, receive | modelled |
| One-call demonstrations | `fork.c`, `wait.c`, `thread1.c`, ... | none worth exploring | | not modelled |

The components do not call each other: each is a program, or a server with its
client.  What interacts is inside them.  In the pool, workers, producers, the
manager and the owner share a structure under two mutexes and two condition
variables, and several accesses go round the mutexes.  In the queues producers
and consumers share a list.  In the chat server the accept loop hands each
connection to a thread through the address of one variable, all threads share a
table of descriptors, and a client that does not read holds up all the others.
In the forking servers SIGCHLD interrupts `accept`, children and parent hold the
same connections, and all children write to one pipe.  The event loops share
their descriptors with nobody but the kernel, whose reports they hold on to
while they close and accept.

Hard behaviours, and what would be correct:

* Pool: wakeups between a test and a wait, an unlocked counter, a resize that is
  never taken, a shutdown that overlaps calls, a structure freed under its
  workers.  Each accepted task should be run once, in order; nobody should sleep
  next to work; a call should return; a destroyed pool should not be used.
* Queues: the list head is used without a test in one, and after a wait in the
  other; the order of post, unlock and broadcast decides whether a thread is
  stranded.
* Chat: two handlers may serve one descriptor, the removal loop drops the wrong
  entry, descriptor numbers are reused, a failing `accept` is registered, a write
  blocks under the mutex.  The count should be right, all clients should see one
  order, present clients should get everything, and the relay should go on.
* Forking servers: signals merge, lines are cut and merged by reads, the buffers
  are filled by clients that do not wait, the writer ends before its writers.
  Nothing a client wrote should be lost, connections should be closed, children
  collected.
* Event loops: a snapshot of the ready descriptors is used while they are closed
  and reused; an edge may come before the registration; a write may wait or fall
  short.  Every byte should come back to its client, the loop should never block
  in `read`.
* Dialogues: a buffer keeps the tail of an older request, end of file is noticed
  one read late, both sides ignore what `fgets` returns, and the UDP server listens
  where nobody sends.

`PROJECT.json` lists every hazard with its line and the properties that cover
it, or why none does.

## Modules

| Module | What it is |
|---|---|
| `TaskPool` | What `threadPoolAdd` promises: a bounded FIFO whose tasks are started in order, by one worker, once. |
| `ThreadPool` | The pool in detail. `MCThreadPool` adds symmetry sets for TLC. |
| `ThreadPoolProofs`, `TaskPoolProofs` | Proofs about the pool, with its refinement of `TaskPool`, and about `TaskPool`. |
| `NodeStack` | What the two queue programs promise of their list: a bounded stack of distinct nodes. |
| `ListQueue` | What the two have in common. |
| `SemQueue`, `CondQueue` | `thread_signal.c` and `thread_cond.c`. |
| `LockCounter` | `thread_lock.c` and `thread_rwlock.c`, which differ in the constants. |
| `ChildReaper` | `remove_zombie.c`: children, merged signals, one `waitpid` per signal. |
| `Demonstrations` | The two queues, the locks and the reaper: a behaviour chooses one. |
| `DemonstrationProofs` | Proofs about the two queues, the locks and the reaper. |
| `ChatServer` | `chat_server.c` with what it sees of its clients. |
| `ChatRoom` | `ChatServer` with clients that read in a thread of their own, through sockets that fill up. |
| `MCChatServer` | Both for TLC, with symmetry and a bound: a behaviour chooses clients that read slowly or at once. |
| `ChatServerProofs` | Proofs about both. |
| `EchoService` | What an echo server promises. |
| `EchoSockets` | Clients, sockets, descriptors and kernel events of the three event loops. |
| `SelectServer`, `EpollServer`, `EdgeServer` | The three loops; `EventLoops` has their common properties and the refinement of `EchoService`, `EventLoopsProofs` the proofs. |
| `MCEventLoops` | The event loops and the demonstrations, for TLC. |
| `ForkServer` | `echo_mpserv.c` and `echo_mpclient.c`. |
| `StoreServer` | `echo_storeserv.c`: `ForkServer` with the pipe and the writer. |
| `ForkServers` | The properties of both, and that both implement `ChildReaper`; `MCForkServers` the instance for TLC; `ForkServersProofs` the proofs. |
| `LeastNumber` | A lemma of four proof modules: a non-empty set of numbers has a least one. |
| `Calculator`, `StreamEcho`, `NewsCast`, `UdpEcho` | `echo_server.c`; `echo_stdserv.c`; `news_*.c`; `uecho_*.c`; each with its client. |
| `MCDialogues` | These four and `ChatRoom`, for TLC. |
| `DialogueProofs` | Proofs about these four. |

Small programs share a module for TLC: a behaviour chooses a program and keeps
it, and the variables of the others do not move, so each is explored as if
alone.  A property of such a run says for which program it speaks.

### ThreadPool

The pool exists in `Init`, as `threadPoolCreate` leaves it on success.  Workers,
producers, the manager and the owner each have a program counter.  An action is
one critical section, or one access made without the lock that should guard it:

* `WorkerLock`, `WorkerWake`, `WorkerWait`, `WorkerTake`: the loop around
  `pthread_cond_wait` and the dequeue (183-221).  A thread that keeps
  `mutexPool` from one action to the next is recorded as its holder.
* `WorkerBusyLock`, `WorkerLoad`, `WorkerStore`, `WorkerBusyUnlock`: `busyNum++`
  and `busyNum--` (223-233) as a load and a store, the second pair without a
  lock but with the unlock, which frees the mutex whoever holds it.  Unlocking
  a mutex one does not hold is undefined in POSIX; the default mutex of Linux
  is simply released, and that is what the model does.
* `ProducerLock`, `ProducerWait`, `ProducerPut`: `threadPoolAdd` (140-159).
* `ManagerTest` to `ManagerShrink`: one round of `manager` (241-288).
  `threadIDs[i] = 0` (265) is an assignment, whose value is zero: `ManagerGrow`
  empties the table and starts nobody.
* `OwnerShutdown`, `OwnerJoin`, `OwnerSignal`, `OwnerFree`: `threadPoolDestory`.
  After `OwnerFree` a thread that would use the pool goes to `undefined`.  The
  model says nothing of what it does then; sleepers and running task functions
  stay where they are.
* `SignalOne`, `SpuriousWakeup`: the condition variables.  A signal wakes some
  sleeper; a wait may return for nothing.

Data: a task is a model value; its function does not touch the pool.
`threadIDs` is the set of workers whose id is in the table.

### The demonstrations: SemQueue, CondQueue, LockCounter, ChildReaper

In the queues a critical section is one action, since the list is touched
nowhere else and nobody blocks inside; the semaphore calls and the broadcast
around it are actions of their own.  The list is a sequence of the nodes
`malloc` returned, so that a node linked or freed twice would show.  `CondQueue`
has no bound on the list but the heap, the set `Nodes`; a producer that finds it
full waits, where the program would dereference NULL.

In `LockCounter` the load and the store of an increment are two actions.  Its
constants say which threads take the mutex, the write lock and the read lock:
`thread_lock.c` is two mutex threads, `thread_rwlock.c` a writer and a reader
that increments too.

In `ChildReaper` a pending SIGCHLD is one bit.  `Exit` raises it, or merges with
it (the ghost `merged` counts that), `Deliver` starts the handler if none runs,
and `Reap` is the one `waitpid`, on some zombie.

### ChatServer and ChatRoom

Each client has what it sent that is unread (`outbox`) and what it was sent
(`inbox`).  `file` says what each descriptor refers to, and `accept` returns the
lowest closed one, so descriptors are reused as by the kernel.  `MainAccept`,
`MainAcceptFails`, `MainRegister` and `MainCreate` are the loop of `main`, which
does not look at what `accept` returns; `HandlerStart` copies main's `cli_sock`
whenever the thread gets to it, perhaps after the next accept.  `HandlerLock`,
`HandlerWrite` (one descriptor) and `HandlerUnlock` are `send_msg`;
`HandlerRemove` and `HandlerClose` the end of `handle_cli`.
`TableAfterRemoval` is the loop of 82-87 as written: entry 0 stays, and entry 1
goes.  Writing to a client that has closed may raise SIGPIPE, which the program
does not handle: `alive` becomes FALSE and the server stops.  A chunk is read
whole; a read that fails with -1 relays nothing and is retried, which is a
stutter.

`ChatRoom` adds what `chat_server.c` does not see.  The reading thread of each
client takes one chunk after the other (`Hear`); at most `Room` chunks wait for
it, and `RoomHandler` does not let `send_msg` write to a socket that is full, so
that handler waits with `mutex` held, and everybody else behind it.  When the
server has ended, a client may write in vain (`SayInVain`), be reset
(`HearReset`) or quit (`Quit`).

### EchoSockets, SelectServer, EpollServer, EdgeServer

A client may send, half-close, close, or close with unread input, which resets
the connection, at any moment; its bytes are numbered.  Descriptor numbers are
reused.  A server waits for the set of ready descriptors and handles them one by
one: `select` and `epoll_wait` report all that is ready at that moment, the
edge-triggered one what has changed since the last report.  More may become ready
before the round is over, in any order.  A read and the write after it are two
steps, since the buffer is shared by all connections.

The sockets hold `Room` bytes that a client has not read (`unread`).  The writes of
the select and the level-triggered server block: `WriteAll` writes what there is
room for and stays in the same place until all of `buf` is written, so that one
client that does not read holds up the server.  The sockets of the edge-triggered
server are non-blocking: `WriteSome` writes what there is room for, perhaps
nothing, and drops the rest, since the code does not look at what `write` returns
(`echo_EPETserv.c:93`).  `lost` has the clients this has happened to, and `got`
what a client was returned before it did.

`SelectServer` has its `fd_set` and `fd_max` as the loop changes them;
`EpollServer` relies on `close` to end the watch; `EdgeServer` reads until EAGAIN,
or, after end of file, for ever (`echo_EPETserv.c:83-90`).

### ForkServer and StoreServer

A byte of input is its line, its place in it and whether it is the newline, so
that a byte lost, doubled or moved would show.  `WriteLine`, `Quit` and
`ReadAnswer` are the two processes of a client.  An answer is a record of
`sizeof(mes)` bytes, `Record`, whatever the line: 300 bytes in `echo_mpserv.c`,
2048 in `echo_storeserv.c`, while `echo_mpclient.c` reads at most 1024.  So
`ReadAnswer` takes any number of bytes up to `Room`, which may end within a record
or cover several: `seen` counts the records a client has begun to read, `rest` is
what it has not read of the last of them.  A read that fills the buffer
of the client writes its terminator behind it, as does one of the server
(`ChildRead`).  `ReadEnd` is the end of file or the error, whose `-1` is used as an
index, and `ClientKilled` the end of a corrupted client or of one the user
interrupts.

`ChildRead` appends what a read returns to `mes`, whose size is twice `BUF_SIZE`;
`ChildAnswer` answers the first line, if there is one, and moves the rest to the
front: one line per read, whatever there is.  A child ends at the end of file, or
on the error a read returns when its client is gone, and SIGPIPE kills one that
answers such a client (`ChildKilled`).  A child that writes
past `buf` or `mes` is in state `undefined`: the model says nothing of what it
does, and lets it be killed.  `holders` says which processes have a connection
open; the client sees its end when nobody has.  Signals are those of `ChildReaper`,
with the addition that one that is delivered while the parent waits in `accept`
makes it return and try again, and that `fork` may fail.

In `StoreServer` a child that has answered a line writes a record to the pipe
(`ChildStore`), which blocks when the pipe is full; the writer takes a record at
a time (`WriterRead`), `MaxReads` of them, and ends with the pipe still held open
by all.

### Calculator, StreamEcho, NewsCast, UdpEcho

`Calculator` evaluates what is in the buffer: the characters of the request over
those of the one before, from whichever client.  A string is a sequence of
character codes.  `infixToPostfix` and `evaluatePostfix` follow the code
character by character (`InfixStep`, `PostfixStep`), with `Char` for the store
into a `char` (two's complement, eight bits).  `Outcomes` has more than one
element only for a string with a parenthesis that nothing opened, where the code
reads below its stack.  The reference is `Value`, the value of the formula as a
tree; `Text` is how a user types it.  The formulas are a constant: any set of
trees that has their parts, with a height for each.  The arrays `postfix` and
`data` have `Size` characters (100 in the code): `Overruns` says when a string makes
the loops write behind one of them, and the server is then `undefined`.

`StreamEcho` and `NewsCast` have end of file noticed only by a read that meets
it, and a buffer that keeps the line before.  The datagrams of `NewsCast` are a
set: they are lost, overtake each other and come more than once.

`UdpEcho` has the addresses the sockets are really bound to: a port of the
kernel's choice for the server, as `atoi(argv[0])` is 0, and in the client the
same address bound and sent to, which may be any, that of the server included.
Every datagram has 1024 bytes, so `message[str_len] = 0` (`uecho_client.c:52`)
writes behind the array each time, which may or may not do harm.

## Checks

| Run | What it shows | Instance |
|---|---|---|
| `pool_safety` | type, ring, wakeups, manager joined, refinement of `TaskPool`; the pool may be destroyed at any time | 2 workers, 2 producers, 2 slots, 4 tasks |
| `pool_liveness` | accepted tasks run and every Add returns unless the pool is destroyed; `threadPoolDestory` returns | 2 workers, 2 producers, 1 slot, 2 tasks |
| `chat_safety` | the count of registered handlers, one order, what latecomers get up to the first removal; with slow clients too | 3 clients, 1 chunk each, 3 descriptors; or 2 clients and a failing `accept`; with slow clients one fewer, and sockets that hold 1 chunk |
| `event_loops` | loops: `read` never blocks, every open connection watched, no edge lost, refinement of `EchoService`; bytes come back, hangups noticed. Demonstrations: places, head never NULL, no lost wakeup, stack, everybody served; the sum; which zombies stay | 3 servers, 2 clients with 2 bytes and 1, a buffer of 1, sockets that hold 1; 2+2 threads, 3 nodes, 2 places; 2 threads, 3 rounds; 3 children |
| `fork_servers` | answers and what is ahead of them are the lines of the client, buffers hold, order of the file, refinement of `ChildReaper`; connections accepted, answered and closed | 2 servers, a polite client with 2 lines, one that does not wait, a buffer of 2, records of 4 read by 13 or by 2 bytes, a pipe of 1 record, 1 read of the writer |
| `dialogues` | calculator right, lines exact, news sent once; replies come, the relay goes on | see below |
| `pool_resize`, `pool_busynum`, `pool_sleepers`, `pool_freed`, `event_edge`, `udp_server` | counterexamples, see below | 1 or 2 workers, 1 or 2 producers; 1 client |

Why the bounds are enough to be of interest:

* `pool_safety`: both producers can be asleep on a full ring and both workers on
  an empty one, and four tasks make both indices wrap.
* `pool_liveness`: with one slot and two producers one that waits can be overtaken
  by the other, and both workers can be asleep or wait for a mutex.
* `chat_safety`: with three clients two handlers can share a descriptor while a
  third client reuses a number still in the table.  The constraint `FewCome`
  keeps the failing `accept` to behaviours with two of the clients; with slow
  clients two come, or one and the failing `accept`, which is enough for two
  handlers to wait for `mutex` behind one that waits for room.
* `event_loops`: two clients and two descriptors are enough for a number to be
  closed and reused within one round; one byte of buffer makes two reads of two
  bytes, with an edge between them; one byte of room makes a write wait or fall
  short.  The second client sends one byte (`Brief`): it is there to interleave.
  In the queues two threads on each side leave some waiting on both semaphores,
  and a broadcast outstanding while a consumer goes back to sleep; a node more
  than there are places shows reuse.  Of three children two can end while the
  signal of the first is handled, and merge.
* `fork_servers`: lines of one and four bytes (newline included) in a `mes` of
  four: two can arrive in one read, one can be cut, and the client that does not
  wait can overrun `mes`; a full pipe and a writer gone after its first read.  A
  client reads 13 bytes of records of four, more than three of them, from the one
  server and two, half a record, from the other, which scales 1024 to 300 and to
  2048.  A behaviour has one client with every way to cut its answers and to be
  interrupted, or both with fewer (`closely`).
* `dialogues`: the calculator has all formulas of two digits, and chosen ones of
  three and four, with all four operators, some with results above 127, one with
  a division by zero, requests shorter than those before, and sums up to one that
  does not fit into arrays of eight;
  three clients for a stdio server that takes two; a file of three lines, with
  and without a last newline, and a receiver; two UDP clients at any of three
  addresses, that of the server and that of a stranger among them; in the chat two
  clients who are both sent two chunks through sockets that hold one, or one
  client and a failing `accept` (`ChatBound`).

The other bounds: `Tasks` (each handed over once), `Nodes`, `Clients` (each
connects once), `MaxSay`, `MaxSend`, `MaxAsk`, `MaxLines`, `MaxSent`, `Rounds`,
`MaxFd`, `MaxReads`.  Symmetry is used only in runs without liveness, over sets
no definition distinguishes.

Deadlock is checked except where the system may really come to rest: a pool that
has been destroyed, clients that have all left or do not come, a server that has
ended.  `pool_resize`, `pool_busynum` and the demonstrations are free of deadlock;
in `event_loops` only a server may rest (`AtEnd`).

Fairness.

* Pool: strong fairness for each thread, because a thread may be beaten to a
  mutex again and again but nobody blocks while holding one, and the manager
  sleeps three seconds between two rounds; task functions are taken to return;
  the owner's steps after shutdown are weakly fair; no one has to call Add or
  destroy.
* Queues: strong fairness for the semaphores, as every thread sleeps up to two
  seconds between two rounds, so a waiter is not overtaken for ever; weak
  fairness for the condition variable, since a broadcast leaves nothing to
  competition and a sleeper need only be woken, not fed.  Weak fairness for the
  lock programs, whose threads take their lock once.
* Event loops: weak fairness of the one server thread, and of a client that has
  something to read, while it has not left.  Without the latter `EchoComplete` is
  false of the servers whose writes block: one client that does not read stops
  them for all.
* Forking servers: weak fairness of every process, of the delivery of signals and
  of the handler; no client need write or quit, and nobody need be killed.
* Dialogues: weak fairness of servers, the news sender and reading clients.  In
  the chat strong fairness of each server thread, which competes for one mutex,
  and weak fairness of the reading thread of each client, which runs in a loop
  and waits for nothing but chunks.  Without the latter `Relayed` is false: a
  client that is stopped stops the chat.

### What the counterexamples say

* `pool_busynum`: two workers decrement `busyNum` at once (`thread_pool.c:232`)
  and one decrement is lost, against `thread_pool.h:30`.
* `pool_sleepers`: `shutdown` and the signals (108, 114-117) are not under
  `mutexPool`, so a worker between its test and its wait sleeps for ever.
* `pool_freed`: `threadPoolDestory` joins the manager but no worker (134).
* `pool_resize`: `threadIDs[i] = 0` (265) is written for `==`, so no slot is ever
  found and no thread started, against 257-258.  As `liveNum` stays at `minNum`,
  the threads that 191 and 275-276 speak of are not destroyed either
  (`PoolNeverResizes`, proved).
* `event_edge`: after end of file `echo_EPETserv.c` closes the descriptor and
  reads on; EBADF is not EAGAIN, and the loop never ends (88).  The liveness
  properties of `event_loops` therefore except a server that is `Stuck`.
* `udp_server`: whatever a client of `uecho_client.c` is started with, what it
  prints as "Message from server" (53) is its own datagram: it has bound the
  address it sends to, and if that is the address of the server `bind` fails.  The
  usage text of the server (`uecho_server.c:21`) asks for a port that it does not
  use.  `TalksToNobody` proves it for any clients and addresses.

Other facts about the code stand as exceptions or preconditions in the
properties, because no text of the repository says otherwise:

* The chat server drops entry 1 whoever leaves; `LatecomersGetSuffix` holds up to
  the first removal, and `CountExact` speaks of the count alone.
* Two chat handlers may serve one descriptor and another client none.  No property
  says that every client is read.
* A child that ends while a signal is pending stays a zombie until another one
  ends; `ZombieAccount` counts exactly these.
* A client of the forking servers that sends two lines at once gets the second
  answer only with its next read: `PoliteAnswered` is for those that wait.  A client
  that fills `mes` overruns it, as a record overruns the client of the storing
  server; `BuffersHold` says who does not.  In the storing server, once the writer
  has ended and the pipe is full, all children wait for ever (`StuckOnPipe`).
* The edge-triggered server drops what its socket does not take: `EchoSpec` and
  `EchoComplete` hold up to the first byte dropped.
* The calculator evaluates the tail of an older request, wraps at 128 and overruns
  its arrays with formulas too long; `CalculatorRight` says when it does not.  A
  client of it, or of the stdio server, that waits behind another may wait as long
  as that one likes.
* The stdio server and the news sender process the last line twice; `LinesExact` and
  `NewsSent` say exactly when.

## Proofs

All are checked by TLAPS for every value of the constants that satisfies the
named assumptions (`PoolAssumption`, `SemAssumption`, `CondAssumption`,
`ChatAssumption`, `RoomAssumption`, `SocketAssumption`, `ForkAssumption`,
`StoreAssumption`, `ChildAssumption`, `LockAssumption`, `CalcAssumption`,
`StreamAssumption`, `NewsAssumption`, `UdpAssumption`).  The assumptions are
those of the code: finite sets of threads, processes and clients, positive sizes
of buffers, `minNum <= maxNum`, fewer than `MAX_CLI` calls of `accept`, a
descriptor for every client, at most one thread with the read lock, formulas
that are digits or have an operator and two smaller formulas, a file with a
line, and different addresses for the UDP server and for strangers.

* `ThreadPoolProofs`.  `IInv` is type correctness, `RingConsistent`,
  `NeverResizes` and four strengthenings: `LockDiscipline` (what a worker or a
  producer tested before it kept the mutex is still true: without it the
  dequeue could underflow), `TasksInPlace` (used ring slots, arguments and
  running tasks are tasks, without which the ring does not stay typed),
  `DestroyOrder` and `SnapshotSmall` (the manager's copy of `liveNum` never
  exceeds `minNum`, so it never asks for an exit).  From it: `TypeCorrect`,
  `RingConsistency`, `PoolNeverResizes`, `ManagerEndsBeforeFree`.
  `NoWorkerWakeupLost` and `NoProducerWakeupLost` are each inductive relative to
  `IInv`; the argument counts, in each action, how the queue and the set of
  threads on their way to it change together.  `Refinement`: each step is a step
  of `TaskPool` or a stutter.  Besides `IInv` this needs `RInv`: idle workers hold
  no task, whatever the pool holds was submitted, and the argument of a pending
  Add is new.  `EachTaskOnce` then comes from `TaskPoolProofs!HandedOutOnce`
  through the mapping.
* `ChatServerProofs`, in four layers, each of which rests on those before.
  `CountInv` (`CountIsExact`): a thread is created only once, for a call of
  `accept` that has not been registered before.  `TypeInv`, of which nothing but
  the next layers is made: descriptors refer to different connections, a handler
  in `send_msg` has a chunk.
  `OrderInv` (`RelaysInOneOrder`): `SameOrder` is not inductive; with `OneSender`
  (the mutex is held by the handler in the loop of `send_msg`, and by nobody
  else), `RelayedOnce` (a chunk whose relay has not begun is in one place and in
  no inbox) and `SendingIsLast` (what is being sent is the last in every inbox
  that has it) it is, and it does not matter how many handlers share a
  descriptor.  `SuffixInv` (`SuffixForLatecomers`): before the first removal the
  entries of the table are open and distinct, who is not in the table has got
  nothing, and of two entries the first is ahead by the chunk being sent exactly
  while the loop is between them.  `RoomKeepsOrder` repeats all of this for
  `ChatRoom`, whose steps are those of `ChatServer` or only make somebody
  leave.
* `EventLoopsProofs`. One invariant for the three servers: `WatchedOpen`,
  `NeverBlocks`, `Descriptors` (no two refer to one connection), `Stream` (for
  each client the bytes returned, in `buf` and unread are those it sent, in order,
  unless it has left or a byte of it was dropped), `InHand` (while `buf` is to be
  written the descriptor is open: what makes a reused number harmless) and `Edges`
  (input of an edge-triggered connection has an edge, an event or the loop).  From
  it `WatchesWhatIsOpen`, `ServesWithoutBlocking`, `NoEdgeLost`, and, with one
  lemma per action, the refinement `ServersEcho`.
* `ForkServersProofs`, about both forking servers.  `TypeInv` has the counts of the
  signals and that a child about to answer has a line in `mes`.  `StreamInv`
  (`TypesHold`, `NothingIsLost`, `BuffersAreKept`): the answers are the first lines
  of the client, and `mes` followed by what is unread are the others up to
  `said`; answers read, answers and lines sent are in this order, `mes` stays below
  twice `BUF_SIZE` while the child reads, and a polite client is one line ahead
  at most, which is why its child cannot overrun.  For the buffer of the client
  itself, `ReaderInv`: a read covers what is left of one record and at most one
  more, since a polite client is never further behind, and the connection a child
  is forked for is still held by the parent.  The lines a client is ahead
  are given byte by byte, by what the first, the last and each next one is;
  that cutting after the first newline leaves the lines after it needs the
  position of that newline, which `LeastNumber` provides.  `StoreInv`
  (`RecordsInOrder`): the file and the pipe have all answers but the last ones of
  the children in `Late`, between their two writes.  `ChildrenReaped`: with each
  child mapped to its stage, every step is one of `ChildReaper` or a stutter; the
  signal in flight is accounted for as there, the writer being one more child.
* `DemonstrationProofs`.  For `thread_signal.c`, `PlacesConserved` alone is not
  enough to bound the list; with `ItemsInList` (the list is as long as `csem` plus
  those about to post it plus those about to pop) it is inductive and gives
  `HeadNeverNull`, the bounds of the semaphores and the refinement of
  `NodeStack`.  For `thread_cond.c`, `NoLostWakeup` with the distinctness of
  nodes; the refinement also needs that a list of distinct nodes that misses one
  is shorter than the heap.  `ListsAreStacks` is the refinement as the run checks
  it: whichever program a behaviour chooses.  `ZombieAccount` is inductive with
  the types: a zombie is there for the pending signal, for the one being handled,
  and for each that merged.  So the handler always finds one (`StatusIsSet`), and
  never prints the uninitialised `status` of `remove_zombie.c:12`.  For the
  locks, `NoIncrementLost` with `Exclusive` (one holder), `FreshLoad` (what it has
  loaded is still `x`) and `RoundsDone`; from it `SumPrinted`.  With two readers
  it would fail, which is what `thread_rwlock.c` is one thread away from.
* `DialogueProofs`, one part for each program.
  * UDP echo: `Bound` (who types or waits owns the address it was given, which is
    then not that of the server) and `Origins` (no datagram of a client is in the
    queue of the server, and none of the server is elsewhere but at the strangers)
    are inductive together and give `TalksToNobody`.
  * News: `Rounds` says which line each round of the sender has sent, and when the
    end of the file is met.  It gives `LinesGoOutOnce`.
  * stdio echo: `LinesAreExact` needs `OneByOne` (the server has read everything of
    the clients it has closed and nothing of those it has not accepted),
    `Buffered` (the buffer has the line read last) and `RepliesSent` with `Stale`:
    the line too many that a client without lines gets is the last one of a
    client that is gone.
  * Calculator: `FormulaConverted`, `FormulaOutcome` and `FormulasAnswered`.  The
    first two are about the two loops of the code: for every formula that overruns no
    array (`Overruns`), and so for every one that is, with its newline, shorter than
    `Size`.  A formula is read on any stack that is `Free` for it, from which it pops
    nothing: an empty one, or one with an opening parenthesis on top, or, for a
    product, a sum.  It leaves on the stack the operators `Pending(t)`, of which
    there are at most two, and they complete its postfix form
    (`ReadsWell`, `NodeRead`, `TextRead`).  Reading the postfix form leaves one
    number more on any stack, the value of the formula in chars, or exits
    (`TreeEvaluated`); where all parts fit into a char, that is the value
    (`FitsAgree`).  For the server, `CalcInv` has that only the client served and
    those that are closed have an answer (`Answered`), that it is the value in
    chars while no longer string was in the buffer (`AnswerExact`), and what ended
    the server (`Ended`).

The inductive invariants of the chat, the event loops, the forking servers, the
stdio echo, the news, the UDP echo and the calculator were model-checked on
instances of TLC before they were proved.

Induction.  The library's induction theorems take an operator as a parameter,
which the installed provers cannot instantiate.  The proofs use the principle of
the least number instead (`LeastElement`, from the well-foundedness of finite sets
under inclusion), with a set for the property: `NumberInduction` and, by the height
of a formula, `TreeInduction`.  That a recursive function satisfies its equation is
proved the same way (`LoopRuns` for the loops over a string, `TreesRecur` for
functions of a formula).

Only model-checked: liveness, which is out of the prover's reach, as is ENABLED:
`AddReturns`, `EveryTaskRuns`, `DestroyReturns`, `Served`, `EchoComplete`,
`HangupNoticed`, `Accepted`, `PoliteAnswered`, `HangupCompletes`, `Replied`,
`Relayed`.  Every invariant, action property and refinement that a passing run
checks is stated by a theorem.

## State

All components but `threadPoolCreate` and the one-call demonstrations are
modelled, and every safety property of the passing runs is proved, with the
refinements of `TaskPool`, `NodeStack`, `EchoService` and `ChildReaper`.  Two of the
findings are proved for every value of the constants as well.  What is left to do
is `threadPoolCreate` with its failing allocations.

## Not modelled

* `threadPoolCreate` when something fails (`thread_pool.c:40-96`): a straight line of
  allocations; the model starts with the pool it leaves on success.  The getters
  (161-175) lock, read and unlock.
* The one-call demonstrations: each shows one system call and ends.
* Start-up code (arguments, socket, bind, listen) and its error exits, except the
  addresses of `uecho_*.c`; output and wording.
* Failures of `malloc` in the queues, of `pthread_create`, of `connect` (the client
  just ends), of the pipe, and of `accept` in the event loops (the edge-triggered
  server would exit, the select server put -1 into its set).
* `MAX_CLI` reached in the chat server: line 59 would write behind `cli_socks`.
  `ChatAssumption` excludes it, so the theorems about the chat say nothing of it.
* More than `EPOLL_SIZE` descriptors ready at once, of which `epoll_wait` reports 50.
* What `echo_mpclient.c` prints: the bytes of a read up to the first NUL, so only the
  first of several answers.  The line its `fgets` leaves in `buf` at the end of the
  input, which is sent again and again, is one more of `Lines`.
* Requests of the calculator that are cut by `read`, and formulas that are not well
  formed.
* `sa_flags` left uninitialised in `remove_zombie.c`: taken as 0.
* Datagrams lost between `uecho_client.c` and itself on one host.  In `echo_mpserv.c`
  and `echo_storeserv.c` writes of answers do not wait for the client.
