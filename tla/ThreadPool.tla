----------------------------- MODULE ThreadPool -----------------------------
(***************************************************************************)
(* The TCP server with a pool of threads that main hands clients to,       *)
(* sockets_highload_services_27July/server_thread_pull_scheme.c.           *)
(*                                                                         *)
(* main goes round: it zeroes the descriptors of clients that were served, *)
(* accepts a connection into a free entry of clients_fd, and gives it to   *)
(* the first thread whose flag is down.  After start_alloc_size rounds it  *)
(* leaves.  A thread whose flag is up answers its client once, lowers the  *)
(* flag and closes the connection.                                         *)
(*                                                                         *)
(* A descriptor is named by the client it connects.                        *)
(***************************************************************************)
EXTENDS Integers, FiniteSets

CONSTANTS start_alloc_size,
          Client,               \* the clients; each connects at most once
          Broken,               \* those whose connection fails at send()
          MaxAcceptErrors       \* bound: how often accept() fails

None   == "none"
Failed == "failed"              \* the -1 of a failed accept()

ASSUME PoolAssumption == /\ start_alloc_size \in Nat \ {0}
                         /\ Broken \subseteq Client
                         /\ {None, Failed} \cap Client = {}
                         /\ MaxAcceptErrors \in Nat

Thread == 0 .. start_alloc_size - 1
Index  == 0 .. start_alloc_size - 1

VARIABLES
  arrived, waiting, said, open,     \* sets of clients: that have connected;
                                    \* that accept() has not returned yet;
                                    \* whose data or end has come; with an
                                    \* open descriptor
  answers,                          \* answers[c]: how often c was answered
  clients_fd,                       \* array of descriptors
  ml, flag, client_fd, client_fd_no,        \* mutexes and args of the threads
  main_pc, i, clients_fd_no, count, errors, \* main
  main_while_var, stop_threads, signal,
  pc,                               \* pool threads
  shutdown_pc

clientVars == <<arrived, waiting, said>>
argVars    == <<ml, flag, client_fd, client_fd_no>>
mainVars   == <<main_pc, i, clients_fd_no, count, errors>>
stopVars   == <<main_while_var, stop_threads, signal, shutdown_pc>>
vars == <<clientVars, open, answers, clients_fd, argVars, mainVars, stopVars,
          pc>>

Init ==
  /\ arrived = {} /\ waiting = {} /\ said = {} /\ open = {}
  /\ answers = [c \in Client |-> 0]
  /\ clients_fd = [e \in Index |-> None]
  /\ ml = [t \in Thread |-> "free"] /\ flag = [t \in Thread |-> 0]
  /\ client_fd = [t \in Thread |-> None]
  /\ client_fd_no = [t \in Thread |-> 0]
  /\ main_pc = "loop" /\ i = 0 /\ clients_fd_no = 0 /\ count = 0 /\ errors = 0
  /\ main_while_var = 1 /\ stop_threads = 0 /\ signal = 0
  /\ pc = [t \in Thread |-> "check"]
  /\ shutdown_pc = "check"

Running == main_pc # "exit"

-----------------------------------------------------------------------------
(* The clients.                                                            *)

Connect(c) ==
  /\ Running
  /\ c \notin arrived
  /\ arrived' = arrived \cup {c} /\ waiting' = waiting \cup {c}
  /\ UNCHANGED <<said, open, answers, clients_fd, argVars, mainVars, stopVars,
                 pc>>

\* All that recv() asks for, or the end of the connection, has come.
Say(c) ==
  /\ c \in (waiting \cup open) \ said
  /\ said' = said \cup {c}
  /\ UNCHANGED <<arrived, waiting, open, answers, clients_fd, argVars,
                 mainVars, stopVars, pc>>

-----------------------------------------------------------------------------
(* main                                                                    *)

LoopHead == IF main_while_var = 1 THEN "release" ELSE "stop"

Loop ==
  /\ main_pc = "loop"
  /\ main_pc' = LoopHead
  /\ UNCHANGED <<clientVars, open, answers, clients_fd, argVars, i,
                 clients_fd_no, count, errors, stopVars, pc>>

Last == i = start_alloc_size - 1

\* Under the mutex of thread i: its flag is down but it once had a client.
Release ==
  /\ main_pc = "release" /\ ml[i] = "free"
  /\ clients_fd' = IF flag[i] = 0 /\ client_fd[i] # None
                   THEN [clients_fd EXCEPT ![client_fd_no[i]] = None]
                   ELSE clients_fd
  /\ main_pc' = IF Last THEN "accept" ELSE "release"
  /\ i' = IF Last THEN 0 ELSE i + 1
  /\ UNCHANGED <<clientVars, open, answers, argVars, clients_fd_no, count,
                 errors, stopVars, pc>>

\* The first free entry, or the first of all if there is none.
IsFreeEntry(e) ==
  \/ clients_fd[e] = None /\ \A d \in Index : d < e => clients_fd[d] # None
  \/ e = 0 /\ \A d \in Index : clients_fd[d] # None

\* accept() waits for a connection.
Accept ==
  /\ main_pc = "accept"
  /\ \E c \in waiting, e \in Index :
       /\ IsFreeEntry(e)
       /\ waiting' = waiting \ {c} /\ open' = open \cup {c}
       /\ clients_fd' = [clients_fd EXCEPT ![e] = c]
       /\ clients_fd_no' = e
  /\ main_pc' = "scan"
  /\ UNCHANGED <<arrived, said, answers, argVars, i, count, errors, stopVars,
                 pc>>

AcceptFails ==
  /\ main_pc = "accept" /\ waiting # {}
  /\ errors < MaxAcceptErrors /\ errors' = errors + 1
  /\ \E e \in Index : /\ IsFreeEntry(e)
                      /\ clients_fd' = [clients_fd EXCEPT ![e] = Failed]
  /\ main_pc' = "count"
  /\ UNCHANGED <<clientVars, open, answers, argVars, i, clients_fd_no, count,
                 stopVars, pc>>

\* Thread i is busy: on to the next one; after the last, to nobody.
Busy ==
  /\ main_pc = "scan" /\ ml[i] = "free" /\ flag[i] = 1
  /\ main_pc' = IF Last THEN "count" ELSE "scan"
  /\ i' = IF Last THEN 0 ELSE i + 1
  /\ UNCHANGED <<clientVars, open, answers, clients_fd, argVars,
                 clients_fd_no, count, errors, stopVars, pc>>

\* Thread i is free: lock its mutex, give it the client ...
Give ==
  /\ main_pc = "scan" /\ ml[i] = "free" /\ flag[i] = 0
  /\ ml' = [ml EXCEPT ![i] = "main"]
  /\ client_fd' = [client_fd EXCEPT ![i] = clients_fd[clients_fd_no]]
  /\ client_fd_no' = [client_fd_no EXCEPT ![i] = clients_fd_no]
  /\ main_pc' = "raise"
  /\ UNCHANGED <<clientVars, open, answers, clients_fd, flag, i,
                 clients_fd_no, count, errors, stopVars, pc>>

\* ... raise the flag and unlock.
Raise ==
  /\ main_pc = "raise"
  /\ flag' = [flag EXCEPT ![i] = 1]
  /\ ml' = [ml EXCEPT ![i] = "free"]
  /\ i' = 0
  /\ main_pc' = "count"
  /\ UNCHANGED <<clientVars, open, answers, clients_fd, client_fd,
                 client_fd_no, clients_fd_no, count, errors, stopVars, pc>>

\* Mutant: off by one.
Over(n) == n = start_alloc_size + 1

Enough(n) == n = start_alloc_size

Count ==
  /\ main_pc = "count"
  /\ count' = count + 1
  /\ clients_fd_no' = 0
  /\ main_pc' = IF Enough(count + 1) THEN "stop" ELSE LoopHead
  /\ UNCHANGED <<clientVars, open, answers, clients_fd, argVars, i, errors,
                 stopVars, pc>>

\* Mutant: the threads are not told to stop.
StopNot ==
  /\ main_pc = "stop"
  /\ main_pc' = "join"
  /\ UNCHANGED <<clientVars, open, answers, clients_fd, argVars, i,
                 clients_fd_no, count, errors, stopVars, pc>>

Stop ==
  /\ main_pc = "stop"
  /\ stop_threads' = 1
  /\ main_pc' = "join"
  /\ UNCHANGED <<clientVars, open, answers, clients_fd, argVars, i,
                 clients_fd_no, count, errors, main_while_var, signal,
                 shutdown_pc, pc>>

\* All threads have ended; what the array still names is closed.
Exit ==
  /\ main_pc = "join"
  /\ \A t \in Thread : pc[t] = "done"
  /\ shutdown_pc = "done"
  /\ open' = {c \in open : \A e \in Index : clients_fd[e] # c}
  /\ main_pc' = "exit"
  /\ UNCHANGED <<clientVars, answers, clients_fd, argVars, i, clients_fd_no,
                 count, errors, stopVars, pc>>

Main == \/ Loop \/ Release \/ Accept \/ AcceptFails \/ Busy \/ Give \/ Raise
        \/ Count \/ Stop \/ Exit

-----------------------------------------------------------------------------
(* The ways to stop: the thread that reads "s", and CTRL + C.              *)

ShutdownCheck ==
  /\ shutdown_pc = "check"
  /\ shutdown_pc' = IF stop_threads = 1 THEN "done" ELSE "scanf"
  /\ UNCHANGED <<clientVars, open, answers, clients_fd, argVars, mainVars,
                 main_while_var, stop_threads, signal, pc>>

\* The user types "s" ...
TypeS ==
  /\ shutdown_pc = "scanf"
  /\ main_while_var' = 0
  /\ shutdown_pc' = "done"
  /\ UNCHANGED <<clientVars, open, answers, clients_fd, argVars, mainVars,
                 stop_threads, signal, pc>>

\* ... or another word.
TypeOther ==
  /\ shutdown_pc = "scanf"
  /\ shutdown_pc' = "check"
  /\ UNCHANGED <<clientVars, open, answers, clients_fd, argVars, mainVars,
                 main_while_var, stop_threads, signal, pc>>

\* CTRL + C, once: the handler's two assignments.
SignalMain ==
  /\ Running /\ signal = 0
  /\ main_while_var' = 0 /\ signal' = 1
  /\ UNCHANGED <<clientVars, open, answers, clients_fd, argVars, mainVars,
                 stop_threads, shutdown_pc, pc>>

SignalStop ==
  /\ signal = 1
  /\ stop_threads' = 1 /\ signal' = 2
  /\ UNCHANGED <<clientVars, open, answers, clients_fd, argVars, mainVars,
                 main_while_var, shutdown_pc, pc>>

-----------------------------------------------------------------------------
(* A thread of the pool: func_thread_client                                *)

Goto(t, l) == pc' = [pc EXCEPT ![t] = l]

Check(t) ==
  /\ pc[t] = "check"
  /\ Goto(t, IF stop_threads = 1 THEN "done" ELSE "flag")
  /\ UNCHANGED <<clientVars, open, answers, clients_fd, argVars, mainVars,
                 stopVars>>

\* Mutant: a thread without a client ends.
FlagEnds(t) ==
  /\ pc[t] = "flag"
  /\ Goto(t, IF flag[t] = 1 THEN "recv" ELSE "done")
  /\ UNCHANGED <<clientVars, open, answers, clients_fd, argVars, mainVars,
                 stopVars>>

\* The flag is read without the mutex.
Flag(t) ==
  /\ pc[t] = "flag"
  /\ Goto(t, IF flag[t] = 1 THEN "recv" ELSE "check")
  /\ UNCHANGED <<clientVars, open, answers, clients_fd, argVars, mainVars,
                 stopVars>>

Silent(t) == pc[t] = "recv" /\ client_fd[t] \in open \ said

Recv(t) ==
  /\ pc[t] = "recv" /\ ~Silent(t)
  /\ Goto(t, "send")
  /\ UNCHANGED <<clientVars, open, answers, clients_fd, argVars, mainVars,
                 stopVars>>

\* A failing send() leaves the flag up: the thread tries again.
Send(t) ==
  /\ pc[t] = "send"
  /\ IF client_fd[t] \in open \ Broken
     THEN /\ answers' = [answers EXCEPT ![client_fd[t]] = @ + 1]
          /\ Goto(t, "served")
     ELSE Goto(t, "check") /\ UNCHANGED answers
  /\ UNCHANGED <<clientVars, open, clients_fd, argVars, mainVars, stopVars>>

\* The inner loop: a stop leaves the connection open and the flag up.
Served(t) ==
  /\ pc[t] = "served"
  /\ Goto(t, IF stop_threads = 1 THEN "check" ELSE "lower")
  /\ UNCHANGED <<clientVars, open, answers, clients_fd, argVars, mainVars,
                 stopVars>>

\* Mutant: without the mutex.
LowerUnlocked(t) ==
  /\ pc[t] = "lower"
  /\ flag' = [flag EXCEPT ![t] = 0]
  /\ Goto(t, "close")
  /\ UNCHANGED <<clientVars, open, answers, clients_fd, ml, client_fd,
                 client_fd_no, mainVars, stopVars>>

\* Lock the own mutex and lower the flag ...
Lower(t) ==
  /\ pc[t] = "lower" /\ ml[t] = "free"
  /\ ml' = [ml EXCEPT ![t] = "thread"]
  /\ flag' = [flag EXCEPT ![t] = 0]
  /\ Goto(t, "close")
  /\ UNCHANGED <<clientVars, open, answers, clients_fd, client_fd,
                 client_fd_no, mainVars, stopVars>>

\* ... close the connection and unlock.
Close(t) ==
  /\ pc[t] = "close"
  /\ open' = open \ {client_fd[t]}
  /\ ml' = [ml EXCEPT ![t] = "free"]
  /\ Goto(t, "check")
  /\ UNCHANGED <<clientVars, answers, clients_fd, flag, client_fd,
                 client_fd_no, mainVars, stopVars>>

Pool(t) == \/ Check(t) \/ Flag(t) \/ Recv(t) \/ Send(t) \/ Served(t)
           \/ Lower(t) \/ Close(t)

-----------------------------------------------------------------------------
Next == \/ Main
        \/ \E t \in Thread : Pool(t)
        \/ ShutdownCheck \/ TypeS \/ TypeOther \/ SignalMain \/ SignalStop
        \/ \E c \in Client : Connect(c) \/ Say(c)

Spec == Init /\ [][Next]_vars

\* The server's threads and a handler that has begun are scheduled; clients
\* and the user owe nothing.
Fairness == /\ WF_vars(Main) /\ WF_vars(ShutdownCheck) /\ WF_vars(SignalStop)
            /\ \A t \in Thread : WF_vars(Pool(t))

FairSpec == Spec /\ Fairness

-----------------------------------------------------------------------------
(* Properties.                                                             *)

\* The variables keep their types: main never makes more rounds than there are
\* threads (lines 196-201).
TypeOK ==
  /\ arrived \subseteq Client /\ waiting \subseteq arrived
  /\ said \subseteq arrived /\ open \subseteq arrived
  /\ answers \in [Client -> Nat]
  /\ clients_fd \in [Index -> Client \cup {None, Failed}]
  /\ ml \in [Thread -> {"free", "main", "thread"}]
  /\ flag \in [Thread -> {0, 1}]
  /\ client_fd \in [Thread -> Client \cup {None}]
  /\ client_fd_no \in [Thread -> Index]
  /\ main_pc \in {"loop", "release", "accept", "scan", "raise", "count",
                  "stop", "join", "exit"}
  /\ i \in Index /\ clients_fd_no \in Index
  /\ count \in 0 .. start_alloc_size /\ errors \in Nat
  /\ main_while_var \in {0, 1} /\ stop_threads \in {0, 1}
  /\ signal \in {0, 1, 2}
  /\ pc \in [Thread -> {"check", "flag", "recv", "send", "served", "lower",
                        "close", "done"}]
  /\ shutdown_pc \in {"check", "scanf", "done"}

\* A thread that works for a client works on an open connection that no other
\* thread works on and main gives to nobody else, although the flag is read
\* without the mutex (lines 182-191, 266-296).
Working(t) == pc[t] \in {"recv", "send", "served", "lower", "close"}

HandOver ==
  \A t \in Thread : Working(t) =>
    /\ client_fd[t] \in open
    /\ \A s \in Thread \ {t} : Working(s) => client_fd[s] # client_fd[t]
    /\ (flag[t] = 0 <=> pc[t] = "close")

\* No connection is dropped: until the exit an open one is with main or with a
\* thread.  main scans the threads once and forgets a client that finds none
\* (lines 180-192); only the bound on its rounds excludes that.
NobodyForgotten ==
  Running => \A c \in open :
    \/ main_pc \in {"scan", "raise"} /\ clients_fd[clients_fd_no] = c
    \/ \E t \in Thread : client_fd[t] = c /\ (flag[t] = 1 \/ pc[t] = "close")

\* The server keeps the promise of Service: a client is answered once, after
\* it has spoken, and its connection closed only then or by the exit, although
\* a thread lowers its flag before it closes (lines 292-296), main then gives
\* it the next client, and the flag of a thread that was stopped stays up.
ConnState(c) == CASE c \in waiting -> "waiting"
                  [] c \in open    -> "open"
                  [] c \in arrived \ (waiting \cup open) -> "closed"
                  [] OTHER         -> "away"

Promise == INSTANCE Service WITH conn <- [c \in Client |-> ConnState(c)],
                                 ended <- main_pc = "exit"
IsService == Promise!Spec

\* An accepted client whose data have come is answered, unless its connection
\* fails or the server stops, as it also does after its last round; other
\* clients may stay silent.
IsAnswered ==
  \A c \in Client \ Broken :
    (c \in open \cap said) ~> (answers[c] > 0 \/ stop_threads = 1)

\* A server told to stop does so, unless for ever it waits for a connection or
\* for a silent client, or scanf() waits for a word.
StopsUnlessWaiting ==
  (main_while_var = 0) ~> \/ main_pc = "exit"
                          \/ []( \/ main_pc = "accept"
                                 \/ \E t \in Thread : Silent(t)
                                 \/ shutdown_pc = "scanf")
=============================================================================
