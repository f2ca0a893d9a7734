# TLA+ models of the Eltex summer-school programs

The repository holds about forty small C programs written during a summer
school (Linux, POSIX; comments and messages in Russian). Most are exercises of
a few lines. The others are concurrent systems with a protocol of their own,
and those are what this project specifies: two chats with a common room (one
over message queues, one over shared memory and semaphores), two TCP servers
with a pool of threads, two servers with one thread per client, an echo server
and the client that load-tests these three, and a simulation of shops, buyers
and suppliers.

Every module here is written from the C source. Line numbers refer to the file
a module names in its header.

## 1. Inventory

Directories are abbreviated: *mq* is
`msg_queues_18July/chat_with_common_room_queues/working_version`, *shm* is
`shmem_and_sem_19July/chat_with_common_room_shmem_sem`, *net* is
`sockets_highload_services_27July`.

### Concurrent systems

**Message-queue chat** (mq/server.c, mq/client.c).
The server makes two non-blocking POSIX queues and one mutex per queue for
every client slot and starts one thread per slot.
*State*: the queues, the mutexes, a connected flag per slot, the number of
connected clients, two stop flags.
*Operations*: a slot's thread polls its incoming queue; a service message
(priority 1) toggles the slot's flag, an ordinary one (priority 2) is copied
to every other slot's outgoing queue; CTRL + C stops the threads and removes
everything. A client announces itself with a service message, then runs three
threads: the keyboard thread hands words through one buffer and one flag to
the sending thread, which retries when the queue is full; the receiving thread
prints. CTRL + C sends a second service message and kills the process.
*Interaction*: only through the queues. Nothing acknowledges anything.
*Hard*: all threads lock each other's queues in turn; a failed trylock falls
through to the dispatch; `mq_send()` fails silently on a full queue; ordinary
messages overtake service messages; a toggle never recovers from a lost
message; the hand-off between two client threads has no lock.
*Correct when*: a member hears only what others said, in order and once;
nothing stale is dispatched; every mutex is released; the flag follows the
service messages; the shutdown ends; a typed word is posted once and not lost.

**Shared-memory chat** (shm/server.c, shm/client.c).
The same chat over two shared-memory regions per slot, each with a semaphore.
*State*: the regions (one message each), the semaphores, flags and pids of the
slots, and in each client one message buffer shared by two threads.
*Operations*: a slot's thread takes and clears what is in the incoming region
and copies ordinary messages to the others' outgoing regions; a client's main
thread writes "connect" and "disconnect", its sending thread words, and its
receiving thread takes what is new and marks it as old.
*Interaction*: through regions and semaphores only.
*Hard*: three threads of two programs use an incoming region and two of them
one buffer; a region is overwritten when the reader is slow; the server zeroes
the regions without their semaphores while clients may already be there, even in
the middle of a copy; the server ignores the result of `sem_trywait()`.
*Correct when*: an incoming region has one user at a time once it is zeroed;
what the server takes was written, in order, and is taken once; remains of a
message that main zeroed are not passed on; no semaphore is lost; both programs
end when told to.

**TCP server with a queue-fed pool** (net/server_consumer_producer_scheme.c).
*State*: the descriptor array `clients_fd`, a message queue of indices into
it, the pool threads' arguments.
*Operations*: main waits in `select()` for a connection or a key, accepts into
the next entry and sends the index to the queue; a thread takes an index,
copies the descriptor, receives, answers, closes and zeroes the entry; near
the end of the array main sleeps and starts again from its beginning.
*Hard*: the entry is read twice around two blocking calls; the kernel gives a
closed number to the next connection; the queue may be full; the sleep stands
for a wait; a silent client blocks a thread.
*Correct when*: a thread serves the client that was accepted into its entry;
an index is held once; everything is closed at the end; a queued client is
answered in spite of silent ones.

**TCP server that hands clients to a pool**
(net/server_thread_pull_scheme.c).
*State*: descriptor array, one mutex, flag, descriptor and index per thread.
*Operations*: each round of main zeroes the entries of served clients, accepts
into a free entry and gives it to the first thread whose flag is down; a
thread answers, then lowers its flag and closes under its mutex; a shutdown
thread reads "s", CTRL + C does the same.
*Hard*: the flag is read without the mutex; main scans the threads only once;
a failing send is retried for ever; the end has to wait for silent clients.
*Correct when*: no two threads work on one connection, none is dropped or
closed before its answer, none is answered twice, only a silent party delays an
answer or the end.

**Shops, buyers and suppliers** (threads_12July/threads.c).
*State*: stocks with a mutex each, what each buyer still needs, a stop flag.
*Operations*: buyers and suppliers go round the shops and try each mutex; main
joins the buyers, stops the suppliers, prints the stocks and destroys the
mutexes without joining the suppliers.
*Hard*: stock changes are several statements; the mutexes are destroyed and
the process exits while suppliers run.
*Correct when*: a purchase or a delivery is atomic; every mutex is released;
main exits once the buyers have enough.

**One thread per client, TCP and UDP**
(net/server_one_thread_for_one_client_{tcp,udp}.c).
*State*: an array of descriptors (of addresses, for UDP), an array of thread
arguments, a number of rounds and a number of threads, an error count that
becomes the exit status, two stop flags.
*Operations*: in each round main takes a client (`accept()`, `recvfrom()`) into
the next entry and creates a thread with a pointer to the next argument; a TCP
thread receives, answers and closes, a UDP thread answers; a shutdown thread
waits for the word "s"; main stops when told to or when its arrays are used
up, joins everybody, frees the arrays and exits.
*Hard*: failing calls make rounds and threads differ and an argument is written
twice; a client whose thread could not be created keeps an open connection
that nobody answers; a server whose arrays are full still listens while main
waits for the user. The TCP thread's loop "until the client disconnects" ends
in its first round, because `res_recv` is never assigned (tcp, line 220).
*Correct when*: every thread serves a client of its own; main frees what
threads point to only after they have ended; a server that reports success has
given every client to a thread; who has asked is answered.

**Echo server over TCP and UDP** (net/server_doubleflow_echo_tcp_udp.c).
*State*: two sockets, the set `select()` has reported, two buffers and one
descriptor or address that the threads use, the stop flags.
*Operations*: `select()` with a limit of time; for each event main creates a
thread and joins it at once; the TCP thread makes the socket listen, accepts,
receives, answers and closes, the UDP thread receives and answers one datagram.
*Hard*: until the first TCP thread has run the TCP socket does not listen, and
`select()` reports it all the same, so that main waits in `accept()` for the
first TCP client; one silent TCP client stops UDP and the shutdown too; an
`accept()` that fails.
*Correct when*: the buffers have one user at a time; who has asked is answered
unless a silent TCP client is waited for; the server ends under the same
condition.

**Load-test client** (net/client_for_load_test_tcp_udp.c).
*State*: one socket after the other, none closed before the end, the number of
answers.
*Operations*: connect, send, wait for the answer and count it, or send a
datagram and wait for its answer for a limited time; CTRL + C closes
everything.
*Interaction*: over the network only. It is run in several processes.
*Hard*: `recv()` that returns 0 is counted like an answer; a failing `socket()`
skips the check for the last element; the TCP way waits without a limit.
*Correct when*: what is counted was answered; the test ends.

### Other programs

The phone book (struct_17June/phone_book) has a state worth a model, entries
with a flag and a file rewritten after each change; it is in the plan, as are
the fork, pipe, FIFO and signal exercises, as small protocols between a parent
and a child, and an earlier chat that its author left as not working. The rest
is left out for good: straight-line socket, broadcast, multicast and message-
queue exercises; calculators, arrays, pointers, structures, file copy and the
curses text editor, which compute or draw and keep no protocol; an empty
main() and compiler output. `PROJECT.json` lists each with its reason, and the
hazards of the code at their lines.

## 2. Modules

| Module | What it is |
| --- | --- |
| `PosixMq` | a non-blocking POSIX queue with two priorities, as its callers see it |
| `MqChatQueues` | queues, their variables and the messages that the two chat programs share |
| `ChatRoom` | abstract: what a common room promises |
| `MqChatServer` | mq/server.c, clients as environment |
| `MqChatClient` | mq/client.c, server as environment |
| `MqChat` | both programs over the same queues |
| `Mailbox` | abstract: a one-message channel that may lose and, the first time, damage a message, but never reorders, repeats or passes on a damaged one |
| `ShmChat` | shm/server.c and shm/client.c together |
| `Service` | abstract: a client waits, is accepted, is answered once and only then, or at the end, closed |
| `ProdConsServer` | net/server_consumer_producer_scheme.c with clients and kernel |
| `ThreadPool` | net/server_thread_pull_scheme.c with clients |
| `Sockets` | what the kernel keeps between the load-test client and a server |
| `LoadServer` | what the three servers below share: stop flags, shutdown thread, end |
| `ClientThreads` | rounds, threads and joins of the two servers with a thread per client |
| `ClientThreadsTcp`, `ClientThreadsUdp` | net/server_one_thread_for_one_client_tcp.c and ..._udp.c |
| `EchoServer` | net/server_doubleflow_echo_tcp_udp.c |
| `LoadTestClient` | net/client_for_load_test_tcp_udp.c |
| `LoadTest` | one of the three servers with several load-test clients |
| `Market` | abstract: purchases and deliveries as single steps |
| `ShopThreads` | threads_12July/threads.c |
| `MC...` | values of the constants for TLC |
| `...Proofs` | theorems and proofs |

State variables have the names of the C variables where there is one; `pc`,
`main_pc`, `send_pc`... say where a thread is. One action is one library call
on shared state, or one statement that reads or writes what another thread may
write; statements on a thread's own variables are joined to the call they
follow. A loop over an array that others change is one action per element.
In `PROJECT.json` each definition has the lines it translates.

*Message-queue chat.* Service and ordinary messages differ by priority, which
`PosixMq` keeps as one sequence per priority. A message is its author, its
number among the author's words and what follows its text in the 256-byte
buffer: texts are sent without a terminating zero and the first buffer of a
server thread is uninitialised, so the copy may be extended by leftover bytes
or be too long for the queue. `clients_connected_count++` is a load and a
store. `MqChatServer` and `MqChatClient` share the variables of the queues, which
`MqChatQueues` declares; `MqChat` extends both, so that the two programs work on
the same queues, and assumes that its bounds suit both.

*Shared-memory chat.* A message is a text and a flag. A copy is one step per
field, in any order, wherever another party may be at the region meanwhile: a
client's copy into its incoming region (`PutIn`) and main's zeroing of it
(`ZeroRegion`, shm/server.c:201), which takes no semaphore and may run in the
middle of that copy; a copy into or out of an outgoing region, where the server
may be without the semaphore. So a "connect" with flag 0 or a flag without a
text can be left behind, and the server's thread may take it. Only that thread's
own `memcpy` and `memset` of its incoming region are one step: there is no
thread before everything is zeroed, and the client's writers are kept out by the
semaphore (`InExclusive`). The client fills `msg_out`, which only a holder of
the semaphore uses, in the step that takes the semaphore. `sem_wait()` that
succeeds takes one, `sem_trywait()` in the server sets `locked` to what it
returned, which only properties read, like the numbers of the messages
(`written`, `taken`, `times`, `whole`, `passed`).

*The TCP servers.* In `ProdConsServer` descriptors are numbers and `accept()`
returns the lowest free one, because reuse of a number is the hazard there; a
"recv" that has begun holds on to its connection, whatever happens to the
number. In `ThreadPool` a descriptor is named by the client it
connects: that the kernel may use a number again is not modelled there, and a
thread reads its descriptor from its own argument, which main changes only
while the thread's flag is down.

*The load test.* `LoadTest` starts any one of the three servers, a choice that
its Init makes, with a set of load-test clients that speak a protocol this
server serves, and instantiates the modules of all four programs; the servers
have the same names for the same things, so their common variables are shared.
A connection is named by the client's socket, and so is a datagram, because the
client sends one message over each; the array `pthread_args` holds indices
where the program has pointers. Arguments are read through the array at every
use, as in the code, not copied at the start of a thread. The buffers of the
echo server hold nothing that a property tells apart; who uses them is kept in
`tcp_pc` and `udp_pc`. A process of the client may be suspended for good after
any of its first sockets (`MaxTurns`, and no fairness for processes that are
not `Steady`): it is the silent client of the servers. Which calls fail is a
choice with a bound.

## 3. Runs

All bounds are CONSTANTS of the modules. Deadlock checking is off everywhere
because every one of these programs may stop, or wait for a user.

| Run | Bounds | What it asks |
| --- | --- | --- |
| `mq_server` | 3 slots, queues of 2, slots 0 and 1 say a word each, slot 1 connects and disconnects, leftovers that spoil a text or make it too long, stop at any time | `IsChatRoom` (refines `ChatRoom`), nothing stale, flag is the parity of the service messages applied, leftovers spoil a client's first message only; until the stop queues are drained, and then the server ends |
| `mq_client` | one user, two words, two launches, server as environment | words posted once and in order; no lock-free hand-off race; a word is posted; CTRL + C ends the client |
| `mq_chat` | 2 slots, queues of 1, one says two words | each program is the environment the other's module assumes |
| `mq_chat_flag` | 1 slot, two launches | violation, see below |
| `shop` | 2 shops, 2 buyers, 1 supplier | `IsMarket` (refines `Market`), locks, release, exit |
| `prodcons` | 2 clients, 2 usable entries, queue of 1, one failing accept | `IsService` (refines `Service`), right client, spare thread, all closed, liveness |
| `prodcons_reuse` | 3 clients, entries used again | violation, see below |
| `pool` | 2 threads, 3 clients of which one breaks, one failing accept | `IsService` (refines `Service`), hand-over, none forgotten, liveness |
| `shm` | 2 slots, one talks, one listens | no semaphore of an outgoing region is lost |
| `shm_live` | 1 slot with main, sending, keyboard and receiving thread, both programs stopped at any time | exclusion, `IsMailbox` (refines `Mailbox`) although the zeroing meets the client's copies; both programs end |
| `shm_section` | 2 slots | violation, see below |
| `load_test` | each of the 3 servers, arrays of 3 (2 usable), backlog of 1, 2 clients with 2 and 1 sockets, one failing call of main, one failing `socket()` | own client, alone at the exit, one user of the buffers, none forgotten, count is true; answers, the server's end and the test's end |

Why the bounds are enough. Three slots are the least with two senders that
contend for one queue and a listener whose order can be wrong. In `mq_server` a
queue has two places, the least in which a word can overtake an announcement,
and slot 1 announces twice, so that the flag is set and cleared; a copy is lost
there because the leftovers make it too long. In `mq_client` and `mq_chat`
queues have one place and are full after one message, so every refusal of a
client's message and the loss of the server's copies happen. One word of each
sender shows that none arrives twice or at its sender; that several words of one
sender keep their order in the server rests on the theorem
`ServerImplementsChatRoom`, and the two words of `mq_client` are the least that
can be swapped there. Two launches per slot show what one client leaves for the
next. Two entries and two threads are the least with an index in the queue while
another is served, and three clients the least that make an array of two start
again. The shared-memory chat needs two slots only where one writes into
another's region (`shm`, `shm_section`); in `shm` nobody leaves, because that
would multiply the states, and `SemaphoreKept` covers it. A slot's incoming
region concerns that slot alone, so one slot with all its threads asks the rest
(`shm_live`): its "connect", word and "disconnect" can overwrite each other and
meet the zeroing. In `load_test` three sockets are one more than the arrays
take, so that a client meets a server that takes nobody any more; one failing
call is the least that makes rounds and threads differ. Where a proof exists
(section 5) the bound does not matter: TLC only found the formula cheaply.
`MaxStock` bounds the stock of a shop, which only deliveries raise.

What is proved for all bounds and would only repeat itself in a run is left
out of the runs: every module's `TypeOK`, `MutexInv`, `CleanupIsSafe`,
`AnsweredOnce`, which `IsService` implies, and the auxiliary invariants such as
`FifoInv` and `OneHolder`.

### Violations

* `mq_chat_flag`, `FlagIsTruth`: comments in mq/server.c:259 and 265 say "the
  client connects" and "the client disconnects". The flag is a toggle on any
  service message, and a client ignores that a full queue refused its
  disconnect (mq/client.c:150). The run: the connect message still fills the
  queue when the client is interrupted and its disconnect refused; the server
  then applies the connect, and the flag stays set with no client there. The
  next client's connect would clear it.
* `prodcons_reuse`, `ReusedWhenFree`: the comment at line 218 has main sleep
  "so that the threads have time to finish". Even if three seconds outlast all
  the threads' own work (`SleepIsEnough`), a thread in `recv()` for a silent
  client has not finished: its entry is overwritten. The properties of
  `prodcons` hold up to that point, hence their premise `~overrun`.
* `shm_section`, `OneInOut`: shm/server.c:351 names the copy to an outgoing
  region a critical section, but the result of `sem_trywait()` is ignored; the
  server is inside together with the client's receiving thread, and its
  `sem_post()` raises the semaphore for good, so that the client's own
  `sem_trywait()` excludes nobody later. `NeverDry` is what remains true.

## 4. Fairness

Every thread the programs create is scheduled: weak fairness per thread and of
main. Users, clients and CTRL + C owe nothing, except the `Steady` processes of
the load-test client, which are scheduled like the threads because they are
programs, too. So each liveness property says what the code does by itself,
and names the silent party it has to exclude: `StopsUnlessWaiting` a client that
says nothing, `scanf()` that waits for a word or `accept()` for a connection;
`ClientEnds` of the shared-memory client the keyboard thread, which that client
joins; `IsServed` of the echo server a TCP client that never comes or never
speaks (`TcpHoldsUp`); `TestEnds` a server that waits for its user.

Strong fairness is assumed in one place, for a client's main thread in
`ShmChat`, whose `sem_wait()` on the incoming region (`MainWait`) is the only
step of it that others can disable: the server's thread takes and returns the
semaphore all the time, and under weak fairness a client's "connect" could wait
for ever. It stands for the kernel's waking of waiters. That thread's own
`sem_wait()` needs only weak fairness, since a client takes the semaphore a few
times only. In `MqChatServer` weak fairness is enough for
`pthread_mutex_lock()`: a lock that stays free is taken. Nothing is assumed of
`trylock` in `ShopThreads`: that a buyer ever gets a shop depends on the lengths
of the sleeps, and is not claimed.

## 5. Proofs

Eight modules hold the results for every value of the constants. All
properties that the passing runs check, except liveness, are among them: the
invariants, the refinements of the four abstract specifications and both views
of the composed chat.

* `MqChatServerProofs`: `ServerTypeCorrect`, `MutualExclusion`, `NothingStale`,
  `SafeCleanup`. The mutex of a queue is held exactly by the thread whose
  position says so; because nobody but the slot's thread ever locks an
  incoming queue, its trylock never fails and the fall-through never happens.
  `FifoCorrect`, `ServerImplementsChatRoom`. Along the path incoming queue,
  buffer, outgoing queue, listener the numbers of a client's words only fall
  (`FifoInv`). The word in a thread's hands may already have reached some slots
  and not others, so the invariant distinguishes the slots its loop has passed
  (`Given`): there the word may be the last one heard, elsewhere it must be
  newer. To be inductive it needs the lock invariant and that a broadcast is
  always of an ordinary message (`HandInv`).
  `FlagFollows`. Each step moves at most one service message, from the queue
  into the thread's hand or from there into the flag, which is the parity of
  those that were announced and are in neither place.
  `LeftoverHarmsFirst`. The buffer of a thread is uninitialised only until its
  first clearing. `FirstInv` keeps that a queue has no gaps: a thread that has
  not received anything leaves all that its client has sent in the queue
  (`Untouched`), so what it receives with leftovers behind it is the client's
  first word or a service message before it; later receipts find a clean
  buffer.
* `MqChatClientProofs`: `ClientTypeCorrect`, `HandOffWorks`, `PostsEachOnce`. The
  flag alone says which of the two threads may use the word (`FlagInv`); what is
  in hand is always the word after those posted, in `msg_scanf` from its typing
  on and in the buffer from the first attempt to send it (`WordInv`), a new
  launch starts without one (`LifeInv`), and what is queued was posted
  (`QueuedInv`).
* `MqChatProofs`: `ServerSeesClients`, `ClientSeesServer`. `MqChatServer` and
  `MqChatClient` each assume how the other program uses the queues. Neither
  assumption can be discharged before the other, because each program's own
  invariant relies on its environment; `ChatInv` joins both invariants with the
  bounds that the clients' steps keep (`BoundInv`), and under it every step of
  the composition is a step of both modules. So each program's theorems carry
  over: `ChatIsChatRoom`, `ChatFlag`, `ChatClientsCorrect`. `MqChat` extends the
  two modules instead of instantiating them because the prover does not offer
  an instantiated module's lemmas.
* `ShopProofs`: `TypeCorrect`, `LocksHold`, `ThreadsImplementMarket`. Besides
  the locks the invariant keeps that a buyer who tries a mutex still needs
  something, so that the mapped purchase is enabled. The mapping gives a
  buyer in the middle of a purchase back what it took.
* `ProdConsProofs`: `TypeCorrect`, `ServesTheRightClient`, `OneHolderOnly`,
  `SpareThreadAlways`, `ClosesEverything`, `AnswersOnce`,
  `ServerImplementsService`. The invariant relates array, queue, threads and
  kernel: an open connection is in exactly one entry, an index in the queue or
  with one thread. `SpareThread` is a pigeonhole argument: used indices are
  distinct and main never uses the last entry. `AnswersOnce` adds that a client
  is in the backlog once or behind one descriptor (`FreshInv`), and that one who
  was answered and is still connected is about to be closed by the only thread
  that has its descriptor (`OnceInv`). For the refinement `TalkInv` follows a
  conversation: a thread receives from the client of its entry, which has spoken
  when the thread sends and has its answer when the thread closes. After an
  overrun nothing is claimed (`IsService` allows any step then).
* `PoolProofs`: `TypeCorrect`, `HandedOver`, `NobodyIsForgotten`,
  `PoolImplementsService`. main gives each client to the first thread whose flag
  is down, so the threads that ever had a client are the first ones and no more
  than the rounds made (`RoundInv`); the rounds are bounded by the number of
  threads, so the one scan always finds a free thread. The mutexes keep main's
  store and the thread's close apart (`LockInv`). For the refinement `AnswerInv`
  says who has an answer at each label: the one delicate case is a thread that
  is stopped between its send and the lowering of the flag; it goes back to the
  head of its loop with the flag up and would answer again, were the loop not
  left there.
* `LoadTestProofs`: `TypeCorrect`, `ThreadsDiffer`, `NobodyLeft`,
  `BuffersUnshared`, `AllGiven`, `CountIsTrue`, for all three servers at once. A
  client uses a socket once (`Behind`), so what waits, what the arrays hold and
  what the threads serve are different sockets; the rounds only run ahead of
  the threads after a failure (`CountInv`), and the argument of a thread that
  exists is never written again.
* `ShmProofs`: `TypeCorrect`, `IncomingExclusive`, `SemaphoreKept`,
  `ServerImplementsMailbox`. Each incoming semaphore plus the threads inside
  makes one. To be inductive this needs that a client that is off left nobody
  inside (`OffInv`), that there are no threads while main zeroes and nothing was
  taken yet (`BootInv`) and that a copying thread is inside its loop
  (`LoopInv`). The mailbox needs `MailInv`: a client copies a whole message that
  is newer than all before (`OutInv`); a region's text is damaged or newer than
  what was taken (`TextInv`); once something was taken the zeroing is over, so
  the region holds a whole message unless the client is just copying one, and
  then the fields already copied are in place (`WholeInv`); and a slot that is
  connected has taken something, so that what it passes on is whole and not yet
  passed on (`PassInv`). The torn message of the start is therefore taken first
  or never.

The assumptions are those named in the modules: positive numbers of slots and
places, finite sets, bounds that are natural numbers, names that do not
collide. Nothing is assumed of the order of events.

Only model-checked: all liveness, because temporal properties under fairness
and ENABLED are out of the prover's reach. The prover cannot do induction over
data or RECURSIVE operators either; no module here needs them.

## 6. Not modelled

* Failures during start-up (`mq_open`, `shm_open`, `sem_open`, `socket`, `bind`,
  `pthread_create` of the pool and shutdown threads): all programs jump to
  their clean-up, parts of which then run on things that do not exist. A
  failing connect message of the message-queue client is modelled, as are a
  failing `accept()`, `recvfrom()` and, where there is one thread per client,
  `pthread_create()`.
* In the servers of the load test: a failing `listen()` or `send()`, which the
  code prints or counts, a failing `select()`, which is one more turn of the
  loop, and a failing `pthread_create()` of the echo server, after which main
  joins a thread that does not exist.
* The loss of datagrams: the load-test client talks to 127.0.0.1.
* What the load-test client does after a failing last `socket()`: it goes on
  behind its array, which is undefined (its state "overrun").
* A server that is killed and started again over the queues it left.
* Threads that only print counters (ProdConsServer lines 383-401), the value of
  the unlocked `clients_connected_count` where it is only printed, greetings
  and other texts, the end of the standard input, SIGPIPE.
* In `ShmChat` a client that is launched after the server has ended.
* Lengths of sleeps. `SleepIsEnough` says what a sleep may be relied on for.
* That the kernel uses a descriptor's number again, except in `ProdConsServer`:
  in the other servers a thread is through with a descriptor when it closes it,
  and main closes what is left in its array after the last `accept()`.
* In `ThreadPool`, that an idle thread goes on zeroing the entry it used last,
  is modelled (`Release`), but its effect at the exit is not a property.

## 7. Plan

Done, in this order: the message-queue chat (server, client, composition), the
shops, the queue-fed server, the thread pool, the shared-memory chat, the load
test with its three servers; proofs of all their invariants and refinements,
and of the composition of the message-queue chat. Left, in order:

1. `PhoneBook`: free entry, add, remove and search with a full book and a short
   file. The size of the book comes from the file, which is truncated and
   written after each change; search also shows removed entries; the growing of
   the book assigns to a variable that hides main's pointer.
2. Start-up failures and a restart over left-over queues in `MqChatServer` and
   `ProdConsServer`.
3. The effect of an idle thread's zeroed entry at the exit of `ThreadPool`. It
   needs four threads and three clients, too many for a run with liveness.
4. `ForkPipes`: the parent and child over two FIFOs, order of opens, and the
   child that must be waited for; the two signal processes.
5. The single-queue chat of the directory "bad_version(not working)", as a run
   that shows why it does not work.

The runs are kept few so that the whole project stays checkable in minutes: a
new one has to ask what no other asks.
