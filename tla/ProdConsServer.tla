--------------------------- MODULE ProdConsServer ---------------------------
(***************************************************************************)
(* The TCP server with a pool of threads fed through a message queue,      *)
(* sockets_highload_services_27July/server_consumer_producer_scheme.c.     *)
(*                                                                         *)
(* The main thread accepts connections into the array clients_fd and puts  *)
(* the index it used in a queue; a thread of the pool takes an index,      *)
(* serves that connection once, closes it and zeroes the array entry.  The *)
(* array is used again from its start, after a sleep, once main has filled *)
(* all entries but the last.                                               *)
(*                                                                         *)
(* Descriptors are the kernel's: accept() returns the lowest free one, so  *)
(* a number is soon used again for another connection.                     *)
(***************************************************************************)
EXTENDS Integers, Sequences, FiniteSets

CONSTANTS start_alloc_size,     \* threads in the pool, entries in clients_fd
          MAX_MSG,              \* capacity of the queue
          Client,               \* the clients; each connects at most once
          MaxAcceptErrors,      \* bound: how often accept() fails
          SleepIsEnough         \* does sleep(3) outlast the threads' work?

ASSUME ServerAssumption == /\ start_alloc_size \in Nat \ {0, 1}
                           /\ MAX_MSG \in Nat \ {0}
                           /\ IsFiniteSet(Client)
                           /\ MaxAcceptErrors \in Nat
                           /\ SleepIsEnough \in BOOLEAN
                           /\ {"stdin", "free", "none"} \cap Client = {}

Thread == 0 .. start_alloc_size - 1
Index  == 0 .. start_alloc_size - 1
Fd     == 0 .. Cardinality(Client)      \* 0 is the standard input
Stdin  == "stdin"
Free   == "free"
NoConn == "none"

VARIABLES
  arrived,              \* clients that have connected
  backlog,              \* connections accept() has not returned yet
  said,                 \* clients whose data, or end, recv() can return
  fd_conn,              \* what a descriptor of the server refers to
  answers,              \* answers[c]: how often c was sent an answer
  clients_fd,           \* the array of descriptors, 0 for an unused entry
  que,                  \* the queue of indices
  main_pc, count, main_while_var, stop_threads,         \* main thread
  pc, cli_fd_no, client_fd, conn,                       \* pool threads
  errors,               \* failures of accept() so far
  owner,                \* owner[i]: the client last accepted into entry i
  overrun               \* an entry was overwritten while it was in use

clientVars == <<arrived, backlog, said>>
mainVars   == <<main_pc, count, main_while_var, stop_threads, errors>>
poolVars   == <<pc, cli_fd_no, client_fd, conn>>
histVars   == <<owner, overrun>>
vars == <<clientVars, fd_conn, answers, clients_fd, que, mainVars, poolVars,
          histVars>>

Init ==
  /\ arrived = {} /\ backlog = << >> /\ said = {}
  /\ fd_conn = [f \in Fd |-> IF f = 0 THEN Stdin ELSE Free]
  /\ answers = [c \in Client |-> 0]
  /\ clients_fd = [i \in Index |-> 0]
  /\ que = << >>
  /\ main_pc = "loop" /\ count = 0
  /\ main_while_var = 1 /\ stop_threads = 0
  /\ pc = [t \in Thread |-> "check"]
  /\ cli_fd_no = [t \in Thread |-> 0]
  /\ client_fd = [t \in Thread |-> 0]
  /\ conn = [t \in Thread |-> NoConn]
  /\ errors = 0
  /\ owner = [i \in Index |-> NoConn]
  /\ overrun = FALSE

-----------------------------------------------------------------------------
(* The clients.                                                            *)

Connect(c) ==
  /\ c \notin arrived
  /\ main_pc # "exit"
  /\ arrived' = arrived \cup {c}
  /\ backlog' = Append(backlog, c)
  /\ UNCHANGED <<said, fd_conn, answers, clients_fd, que, mainVars, poolVars,
                 histVars>>

\* Its data arrive, or it hangs up: recv() on its connection will return.
Say(c) ==
  /\ c \in arrived \ said
  /\ said' = said \cup {c}
  /\ UNCHANGED <<arrived, backlog, fd_conn, answers, clients_fd, que, mainVars,
                 poolVars, histVars>>

-----------------------------------------------------------------------------
(* The main thread.                                                        *)

Serving(t) == pc[t] \notin {"check", "take", "done"}

\* A thread is going to look at its entry of clients_fd again.
Using(t) == Serving(t) /\ pc[t] # "clear"

\* Entry i is in use: its descriptor is open, its index is queued, or a
\* thread works on it.
InUse(i) == \/ clients_fd[i] \notin {0, -1}
            \/ \E k \in DOMAIN que : que[k] = i
            \/ \E t \in Thread : Using(t) /\ cli_fd_no[t] = i

LowestFree(f) == /\ fd_conn[f] = Free
                 /\ \A g \in Fd : g < f => fd_conn[g] # Free

LoopCheck ==
  /\ main_pc = "loop" /\ main_while_var = 1
  /\ main_pc' = "select"
  /\ UNCHANGED <<clientVars, fd_conn, answers, clients_fd, que, count,
                 main_while_var, stop_threads, errors, poolVars, histVars>>

\* select() sees no connection for SEC seconds.
SelectTimeout ==
  /\ main_pc = "select" /\ backlog = << >>
  /\ main_pc' = "loop"
  /\ UNCHANGED <<clientVars, fd_conn, answers, clients_fd, que, count,
                 main_while_var, stop_threads, errors, poolVars, histVars>>

\* select() reports a connection and accept() returns it.
Accept ==
  /\ main_pc = "select"
  /\ backlog # << >>
  /\ backlog' = Tail(backlog)
  /\ \E f \in Fd :
       /\ LowestFree(f)
       /\ fd_conn' = [fd_conn EXCEPT ![f] = Head(backlog)]
       /\ clients_fd' = [clients_fd EXCEPT ![count] = f]
  /\ owner' = [owner EXCEPT ![count] = Head(backlog)]
  /\ overrun' = (overrun \/ InUse(count))
  /\ main_pc' = "enqueue"
  /\ UNCHANGED <<arrived, said, answers, que, count, main_while_var,
                 stop_threads, errors, poolVars>>

\* accept() fails and leaves -1 in the entry.
AcceptFails ==
  /\ main_pc = "select"
  /\ backlog # << >>
  /\ errors < MaxAcceptErrors
  /\ errors' = errors + 1
  /\ main_pc' = "loop"
  /\ clients_fd' = [clients_fd EXCEPT ![count] = -1]
  /\ overrun' = (overrun \/ InUse(count))
  /\ UNCHANGED <<clientVars, fd_conn, answers, que, count, main_while_var,
                 stop_threads, poolVars, owner>>

\* The result of mq_send() is not looked at: a full queue drops the index.
Enqueue ==
  /\ main_pc = "enqueue"
  /\ que' = IF Len(que) < MAX_MSG THEN Append(que, count) ELSE que
  /\ main_pc' = "advance"
  /\ UNCHANGED <<clientVars, fd_conn, answers, clients_fd, count,
                 main_while_var, stop_threads, errors, poolVars, histVars>>

Wraps(n) == n = start_alloc_size - 1

Advance ==
  /\ main_pc = "advance"
  /\ count' = IF Wraps(count + 1) THEN 0 ELSE count + 1
  /\ main_pc' = IF Wraps(count + 1) THEN "sleep" ELSE "loop"
  /\ UNCHANGED <<clientVars, fd_conn, answers, clients_fd, que,
                 main_while_var, stop_threads, errors, poolVars, histVars>>

\* A thread can go on, and is not just waiting for its client.
Waiting(t) == pc[t] = "recving" /\ conn[t] \in Client \ said
Busy(t)    == (Serving(t) /\ ~Waiting(t)) \/ (que # << >> /\ ~Waiting(t))

\* sleep(3) ends; if it is enough, every thread has done all that it can.
Wake ==
  /\ main_pc = "sleep"
  /\ SleepIsEnough => \A t \in Thread : ~Busy(t)
  /\ main_pc' = "loop"
  /\ UNCHANGED <<clientVars, fd_conn, answers, clients_fd, que, count,
                 main_while_var, stop_threads, errors, poolVars, histVars>>

\* The user types "s": func_thread_input_server ends the main loop.
Input ==
  /\ main_while_var = 1
  /\ main_while_var' = 0
  /\ UNCHANGED <<clientVars, fd_conn, answers, clients_fd, que, main_pc, count,
                 stop_threads, errors, poolVars, histVars>>

\* Mutant: the threads are not told to stop.
StopNot ==
  /\ main_pc = "loop" /\ main_while_var = 0
  /\ main_pc' = "join"
  /\ UNCHANGED <<clientVars, fd_conn, answers, clients_fd, que, count,
                 main_while_var, stop_threads, errors, poolVars, histVars>>

Stop ==
  /\ main_pc = "loop" /\ main_while_var = 0
  /\ stop_threads' = 1
  /\ main_pc' = "join"
  /\ UNCHANGED <<clientVars, fd_conn, answers, clients_fd, que, count,
                 main_while_var, errors, poolVars, histVars>>

\* Mutant: the last entry filled is not looked at.
LeftOverButOne == {f \in Fd : \E i \in Index : f = clients_fd[i] /\ f # 0
                                              /\ i + 1 # count}

\* All joined: remove the queue, close every descriptor left in the array.
LeftOver == {f \in Fd : \E i \in Index : f = clients_fd[i] /\ f # 0}

Exit ==
  /\ main_pc = "join"
  /\ \A t \in Thread : pc[t] = "done"
  /\ fd_conn' = [f \in Fd |-> IF f \in LeftOver THEN Free ELSE fd_conn[f]]
  /\ main_pc' = "exit"
  /\ UNCHANGED <<clientVars, answers, clients_fd, que, count, main_while_var,
                 stop_threads, errors, poolVars, histVars>>

Main == \/ LoopCheck \/ SelectTimeout \/ Accept \/ AcceptFails
        \/ Enqueue \/ Advance \/ Wake \/ Stop \/ Exit

-----------------------------------------------------------------------------
(* A thread of the pool: func_thread_client                                *)

Goto(t, l) == pc' = [pc EXCEPT ![t] = l]

Check(t) ==
  /\ pc[t] = "check"
  /\ Goto(t, IF stop_threads = 1 THEN "done" ELSE "take")
  /\ UNCHANGED <<clientVars, fd_conn, answers, clients_fd, que, mainVars,
                 cli_fd_no, client_fd, conn, histVars>>

\* Mutant: the index is looked at and stays in the queue.
TakePeeks(t) ==
  /\ pc[t] = "take" /\ que # << >>
  /\ cli_fd_no' = [cli_fd_no EXCEPT ![t] = Head(que)]
  /\ Goto(t, "fill")
  /\ UNCHANGED <<clientVars, fd_conn, answers, clients_fd, que, mainVars,
                 client_fd, conn, histVars>>

\* mq_receive() of a non-blocking queue
Take(t) ==
  /\ pc[t] = "take" /\ que # << >>
  /\ cli_fd_no' = [cli_fd_no EXCEPT ![t] = Head(que)]
  /\ que' = Tail(que)
  /\ Goto(t, "fill")
  /\ UNCHANGED <<clientVars, fd_conn, answers, clients_fd, mainVars,
                 client_fd, conn, histVars>>

\* Mutant: an empty queue ends the thread.
TakeEmptyEnds(t) ==
  /\ pc[t] = "take" /\ que = << >>
  /\ Goto(t, "done")
  /\ UNCHANGED <<clientVars, fd_conn, answers, clients_fd, que, mainVars,
                 cli_fd_no, client_fd, conn, histVars>>

TakeEmpty(t) ==
  /\ pc[t] = "take" /\ que = << >>
  /\ Goto(t, "check")
  /\ UNCHANGED <<clientVars, fd_conn, answers, clients_fd, que, mainVars,
                 cli_fd_no, client_fd, conn, histVars>>

\* Mutant: the thread takes the descriptor at its own number.
FillByThread(t) ==
  /\ pc[t] = "fill"
  /\ client_fd' = [client_fd EXCEPT ![t] = clients_fd[t]]
  /\ Goto(t, "recv")
  /\ UNCHANGED <<clientVars, fd_conn, answers, clients_fd, que, mainVars,
                 cli_fd_no, conn, histVars>>

\* Under its own mutex a thread copies the descriptor and raises its flag.
Fill(t) ==
  /\ pc[t] = "fill"
  /\ client_fd' = [client_fd EXCEPT ![t] = clients_fd[cli_fd_no[t]]]
  /\ Goto(t, "recv")
  /\ UNCHANGED <<clientVars, fd_conn, answers, clients_fd, que, mainVars,
                 cli_fd_no, conn, histVars>>

ConnOf(f) == IF f \in Fd /\ fd_conn[f] \in Client THEN fd_conn[f] ELSE NoConn

\* recv() waits on the connection the descriptor refers to when it starts.
Recv(t) ==
  /\ pc[t] = "recv"
  /\ conn' = [conn EXCEPT ![t] = ConnOf(client_fd[t])]
  /\ Goto(t, "recving")
  /\ UNCHANGED <<clientVars, fd_conn, answers, clients_fd, que, mainVars,
                 cli_fd_no, client_fd, histVars>>

\* ... and returns data, the end of the connection, or an error.
Received(t) ==
  /\ pc[t] = "recving" /\ ~Waiting(t)
  /\ conn' = [conn EXCEPT ![t] = NoConn]
  /\ Goto(t, "send")
  /\ UNCHANGED <<clientVars, fd_conn, answers, clients_fd, que, mainVars,
                 cli_fd_no, client_fd, histVars>>

Send(t) ==
  /\ pc[t] = "send"
  /\ answers' = [c \in Client |-> IF c = ConnOf(client_fd[t])
                                  THEN answers[c] + 1 ELSE answers[c]]
  /\ Goto(t, "close")
  /\ UNCHANGED <<clientVars, fd_conn, clients_fd, que, mainVars, cli_fd_no,
                 client_fd, conn, histVars>>

\* close(clients_fd[cli_fd_no_from_que]) reads the array a second time.
Close(t) ==
  /\ pc[t] = "close"
  /\ fd_conn' = [f \in Fd |-> IF f = clients_fd[cli_fd_no[t]] THEN Free
                                                          ELSE fd_conn[f]]
  /\ Goto(t, "zero")
  /\ UNCHANGED <<clientVars, answers, clients_fd, que, mainVars, cli_fd_no,
                 client_fd, conn, histVars>>

Zero(t) ==
  /\ pc[t] = "zero"
  /\ clients_fd' = [clients_fd EXCEPT ![cli_fd_no[t]] = 0]
  /\ Goto(t, "clear")
  /\ UNCHANGED <<clientVars, fd_conn, answers, que, mainVars, cli_fd_no,
                 client_fd, conn, histVars>>

\* Under its own mutex a thread clears its descriptor and flag.
Clear(t) ==
  /\ pc[t] = "clear"
  /\ client_fd' = [client_fd EXCEPT ![t] = 0]
  /\ cli_fd_no' = [cli_fd_no EXCEPT ![t] = 0]
  /\ Goto(t, "check")
  /\ UNCHANGED <<clientVars, fd_conn, answers, clients_fd, que, mainVars, conn,
                 histVars>>

Pool(t) == \/ Check(t) \/ Take(t) \/ TakeEmpty(t) \/ Fill(t) \/ Recv(t)
           \/ Received(t) \/ Send(t) \/ Close(t) \/ Zero(t) \/ Clear(t)

-----------------------------------------------------------------------------
Next == \/ Main \/ Input
        \/ \E t \in Thread : Pool(t)
        \/ \E c \in Client : Connect(c) \/ Say(c)

Spec == Init /\ [][Next]_vars

\* Every thread of the server is scheduled; clients and user owe nothing.
Fairness == WF_vars(Main) /\ \A t \in Thread : WF_vars(Pool(t))

FairSpec == Spec /\ Fairness

-----------------------------------------------------------------------------
(* Properties.                                                             *)

\* The variables keep their types: main never uses the last entry of the
\* array (line 216), the queue never exceeds its capacity.
TypeOK ==
  /\ arrived \subseteq Client /\ said \subseteq arrived
  /\ backlog \in Seq(Client)
  /\ fd_conn \in [Fd -> Client \cup {Stdin, Free}]
  /\ answers \in [Client -> Nat]
  /\ clients_fd \in [Index -> Fd \cup {-1}]
  /\ que \in Seq(Index) /\ Len(que) <= MAX_MSG
  /\ main_pc \in {"loop", "select", "enqueue", "advance", "sleep", "join",
                  "exit"}
  /\ count \in 0 .. start_alloc_size - 2
  /\ main_while_var \in {0, 1} /\ stop_threads \in {0, 1}
  /\ pc \in [Thread -> {"check", "take", "fill", "recv", "recving", "send",
                        "close", "zero", "clear", "done"}]
  /\ cli_fd_no \in [Thread -> Index]
  /\ client_fd \in [Thread -> Fd \cup {-1}]
  /\ conn \in [Thread -> Client \cup {NoConn}]
  /\ errors \in Nat
  /\ owner \in [Index -> Client \cup {NoConn}] /\ overrun \in BOOLEAN

\* As long as no entry is reused while in use, a thread talks to the client
\* whose connection was accepted into its entry, although the descriptor was
\* read from the array without a lock, closed by other threads and reused by
\* the kernel (lines 321, 334-347).
RightClient ==
  ~overrun => \A t \in Thread :
    pc[t] \in {"recv", "recving", "send", "close"} =>
      /\ clients_fd[cli_fd_no[t]] = client_fd[t]
      /\ owner[cli_fd_no[t]] \in Client
      /\ ConnOf(client_fd[t]) = owner[cli_fd_no[t]]

\* ... an index is in one place only: once in the queue or with one thread.
OneHolder ==
  ~overrun =>
    /\ \A s, t \in Thread : Using(s) /\ Using(t) /\ s # t
                              => cli_fd_no[s] # cli_fd_no[t]
    /\ \A k \in DOMAIN que, t \in Thread : Using(t) => que[k] # cli_fd_no[t]
    /\ \A k, l \in DOMAIN que : k # l => que[k] # que[l]

\* ... and a queued client never finds the whole pool held by silent ones.
SpareThread ==
  ~overrun /\ que # << >> => \E t \in Thread : ~Using(t)

\* ... no client is answered twice.
AnsweredOnce == ~overrun => \A c \in Client : answers[c] <= 1

\* ... and the server keeps the promise of Service: a client is answered once,
\* after it has spoken, and its connection is closed only then or by the exit,
\* though a thread finds the client through the array again and again.
ConnState(c) == CASE c \notin arrived -> "away"
                  [] \E k \in DOMAIN backlog : backlog[k] = c -> "waiting"
                  [] \E f \in Fd : fd_conn[f] = c -> "open"
                  [] OTHER -> "closed"

Promise == INSTANCE Service WITH conn <- [c \in Client |-> ConnState(c)],
                                 ended <- main_pc = "exit"
IsService == /\ Promise!Init
             /\ [][overrun' \/ Promise!Next]_(Promise!vars)

\* ... and when the server exits, every connection it accepted is closed, the
\* ones whose index a full queue refused or a thread left in it included,
\* and its standard input is not (lines 265-269).
AllClosedAtExit ==
  main_pc = "exit" /\ ~overrun =>
    \A f \in Fd : fd_conn[f] = IF f = 0 THEN Stdin ELSE Free

\* A client whose index is in the queue and whose data have come is answered,
\* however many others are silent, unless the server is stopped.
QueuedIsAnswered ==
  \A c \in Client :
    (/\ c \in said
     /\ \E k \in DOMAIN que : owner[que[k]] = c)
    ~> (answers[c] > 0 \/ overrun \/ stop_threads = 1)

\* After "s" the server ends, unless a thread waits for ever for a client that
\* stays silent.
StopsUnlessWaiting ==
  (main_while_var = 0) ~> \/ main_pc = "exit"
                          \/ [](\E t \in Thread : Waiting(t))

\* The comment at lines 218-219 says of the sleep before the array is used
\* again "to sleep, so that the threads have time to finish": no entry is
\* overwritten while a thread or the queue still uses it.
ReusedWhenFree == ~overrun
=============================================================================
