----------------------------- MODULE PoolProofs -----------------------------
(***************************************************************************)
(* Proofs about ThreadPool, for any number of threads and clients: the     *)
(* hand-over of clients to threads.                                        *)
(*                                                                         *)
(* The heart of it: main gives each client to the first thread whose flag  *)
(* is down, so the threads that ever had one are the first of the array,   *)
(* and no more than the rounds that main has made (RoundInv).  The rounds  *)
(* are bounded by the number of threads, so a scan always finds one.       *)
(***************************************************************************)
EXTENDS ThreadPool, TLAPS

\* Thread t has a client, or is about to close its connection.
HasClient(t) == flag[t] = 1 \/ pc[t] = "close"

\* A mutex is held by main between Give and Raise, by the thread between Lower
\* and Close.
LockInv ==
  \A t \in Thread : /\ ml[t] = "main" <=> main_pc = "raise" /\ i = t
                    /\ ml[t] = "thread" <=> pc[t] = "close"

\* What a flag says of its thread.
FlagInv ==
  \A t \in Thread :
    /\ pc[t] \in {"recv", "send", "served", "lower"} => flag[t] = 1
    /\ pc[t] = "close" \/ (main_pc = "raise" /\ i = t) => flag[t] = 0
    /\ flag[t] = 1 => client_fd[t] # None
    /\ main_pc = "exit" => pc[t] = "done"

\* The threads that ever had a client are the first ones, as many as there
\* were rounds; those main has passed in its scan are among them.
RoundInv ==
  /\ main_pc \notin {"stop", "join", "exit"} => count < start_alloc_size
  /\ main_pc = "accept" => i = 0
  /\ \A t \in Thread :
       /\ client_fd[t] # None =>
            t < count \/ (t = count /\ main_pc \in {"raise", "count"})
       /\ main_pc = "scan" /\ t < i => client_fd[t] # None

\* The client main has in hand is connected and nobody else's.
MainInv ==
  /\ main_pc \in {"scan", "raise"} =>
       /\ clients_fd[clients_fd_no] \in open
       /\ \A t \in Thread :
            HasClient(t) => client_fd[t] # clients_fd[clients_fd_no]
  /\ main_pc = "raise" => client_fd[i] = clients_fd[clients_fd_no]

\* The threads' clients are different connected ones.
ClientInv ==
  /\ waiting \cap open = {}
  /\ \A t \in Thread :
       /\ HasClient(t) /\ Running => client_fd[t] \in open
       /\ \A s \in Thread :
            HasClient(t) /\ HasClient(s) /\ t # s =>
              client_fd[t] # client_fd[s]

\* Until a thread's send() its client has no answer, then one.  A thread that
\* was stopped after its send() leaves the flag up, but looks at it no more.
AnswerInv ==
  /\ \A c \in Client : c \in waiting \/ c \notin arrived => answers[c] = 0
  /\ main_pc \in {"scan", "raise"} => answers[clients_fd[clients_fd_no]] = 0
  /\ \A t \in Thread :
       /\ flag[t] = 1 /\ pc[t] \in {"flag", "recv", "send"} =>
            answers[client_fd[t]] = 0
       /\ flag[t] = 1 /\ pc[t] = "check" =>
            answers[client_fd[t]] = 0 \/ stop_threads = 1
       /\ pc[t] = "send" => client_fd[t] \in said
       /\ pc[t] \in {"served", "lower", "close"} => answers[client_fd[t]] = 1

IInv == /\ TypeOK /\ LockInv /\ FlagInv /\ RoundInv /\ MainInv /\ ClientInv
        /\ AnswerInv /\ NobodyForgotten

-----------------------------------------------------------------------------
\* The initial state satisfies the invariant.
LEMMA InitInv == Init => IInv
<1> SUFFICES ASSUME Init PROVE IInv
  OBVIOUS
<1> USE PoolAssumption DEF Init
<1>1. TypeOK
  BY DEF TypeOK, Thread, Index
<1>2. LockInv /\ FlagInv
  BY DEF LockInv, FlagInv
<1>3. RoundInv
  BY DEF RoundInv
<1>4. MainInv /\ ClientInv /\ AnswerInv /\ NobodyForgotten
  BY DEF MainInv, ClientInv, AnswerInv, NobodyForgotten, HasClient
<1> QED BY <1>1, <1>2, <1>3, <1>4 DEF IInv

\* Every step keeps the types.
LEMMA TypeStep == IInv /\ [Next]_vars => TypeOK'
<1> SUFFICES ASSUME IInv, [Next]_vars PROVE TypeOK'
  OBVIOUS
<1> USE PoolAssumption DEF IInv
<1>1. CASE Loop
  BY <1>1 DEF Loop, LoopHead, clientVars, argVars, mainVars, stopVars, TypeOK,
     Thread, Index
<1>2. CASE Release
  <2>1. i' \in Index
    BY <1>2 DEF Release, Last, TypeOK, Index
  <2>2. clients_fd' \in [Index -> Client \cup {None, Failed}]
    BY <1>2 DEF Release, TypeOK
  <2> QED BY <1>2, <2>1, <2>2 DEF Release, clientVars, argVars, stopVars,
     TypeOK
<1>3. CASE Accept
  BY <1>3 DEF Accept, clientVars, argVars, mainVars, stopVars, TypeOK, Thread,
     Index
<1>4. CASE AcceptFails
  BY <1>4 DEF AcceptFails, clientVars, argVars, mainVars, stopVars, TypeOK,
     Thread, Index
<1>5. CASE Busy
  <2>1. i' \in Index
    BY <1>5 DEF Busy, Last, TypeOK, Index
  <2> QED BY <1>5, <2>1 DEF Busy, clientVars, argVars, stopVars, TypeOK
<1>6. CASE Give
  <2>1. clients_fd[clients_fd_no] \in Client
    BY <1>6 DEF Give, TypeOK, MainInv
  <2> QED BY <1>6, <2>1 DEF Give, clientVars, stopVars, TypeOK
<1>7. CASE Raise
  BY <1>7 DEF Raise, clientVars, argVars, mainVars, stopVars, TypeOK, Thread,
     Index
<1>8. CASE Count
  <2>1. count + 1 \in 0 .. start_alloc_size
    BY <1>8 DEF Count, TypeOK, RoundInv
  <2> QED BY <1>8, <2>1 DEF Count, Enough, LoopHead, clientVars, argVars,
     stopVars, TypeOK, Index
<1>9. CASE Stop
  BY <1>9 DEF Stop, clientVars, argVars, mainVars, stopVars, TypeOK, Thread,
     Index
<1>10. CASE Exit
  BY <1>10 DEF Exit, clientVars, argVars, mainVars, stopVars, TypeOK, Thread,
     Index
<1>11. CASE \E t \in Thread : Pool(t)
  <2> PICK t \in Thread : Pool(t)
    BY <1>11
  <2>1. CASE Check(t)
    BY <2>1 DEF Check, Goto, clientVars, argVars, mainVars, stopVars, TypeOK,
       Thread, Index
  <2>2. CASE Flag(t)
    BY <2>2 DEF Flag, Goto, clientVars, argVars, mainVars, stopVars, TypeOK,
       Thread, Index
  <2>3. CASE Recv(t)
    BY <2>3 DEF Recv, Goto, clientVars, argVars, mainVars, stopVars, TypeOK,
       Thread, Index
  <2>4. CASE Send(t)
    <3>1. answers' \in [Client -> Nat]
      BY <2>4 DEF Send, TypeOK
    <3>2. pc' \in [Thread -> {"check", "flag", "recv", "send", "served",
                            "lower", "close", "done"}]
      BY <2>4 DEF Send, Goto, TypeOK
    <3> QED BY <2>4, <3>1, <3>2 DEF Send, clientVars, argVars, mainVars,
       stopVars, TypeOK
  <2>5. CASE Served(t)
    BY <2>5 DEF Served, Goto, clientVars, argVars, mainVars, stopVars, TypeOK,
       Thread, Index
  <2>6. CASE Lower(t)
    BY <2>6 DEF Lower, Goto, clientVars, argVars, mainVars, stopVars, TypeOK,
       Thread, Index
  <2>7. CASE Close(t)
    BY <2>7 DEF Close, Goto, clientVars, argVars, mainVars, stopVars, TypeOK,
       Thread, Index
  <2> QED BY <2>1, <2>2, <2>3, <2>4, <2>5, <2>6, <2>7 DEF Pool
<1>12. CASE \/ ShutdownCheck \/ TypeS \/ TypeOther
            \/ SignalMain \/ SignalStop
  BY <1>12 DEF ShutdownCheck, TypeS, TypeOther, SignalMain, SignalStop,
     clientVars, argVars, mainVars, stopVars, TypeOK, Thread, Index
<1>13. CASE \E c \in Client : Connect(c) \/ Say(c)
  <2>1. /\ arrived' \subseteq Client /\ waiting' \subseteq arrived'
        /\ said' \subseteq arrived' /\ open' \subseteq arrived'
    BY <1>13 DEF Connect, Say, TypeOK
  <2>2. UNCHANGED <<answers, clients_fd, argVars, mainVars, stopVars, pc>>
    BY <1>13 DEF Connect, Say
  <2> QED BY <2>1, <2>2 DEF argVars, mainVars, stopVars, TypeOK
<1>14. CASE UNCHANGED vars
  BY <1>14 DEF vars, clientVars, argVars, mainVars, stopVars, TypeOK, Thread,
     Index
<1> QED BY <1>1, <1>2, <1>3, <1>4, <1>5, <1>6, <1>7, <1>8, <1>9, <1>10, <1>11,
   <1>12, <1>13, <1>14 DEF Next, Main

\* Every step keeps who holds which mutex.
LEMMA LockStep == IInv /\ [Next]_vars => LockInv'
<1> SUFFICES ASSUME IInv, [Next]_vars PROVE LockInv'
  OBVIOUS
<1> USE DEF IInv
<1>1. CASE Loop
  BY <1>1 DEF Loop, LoopHead, argVars, mainVars, TypeOK, LockInv, Thread
<1>2. CASE Release
  BY <1>2 DEF Release, Last, argVars, mainVars, TypeOK, LockInv, Thread
<1>3. CASE Accept
  BY <1>3 DEF Accept, argVars, mainVars, TypeOK, LockInv, Thread
<1>4. CASE AcceptFails
  BY <1>4 DEF AcceptFails, argVars, mainVars, TypeOK, LockInv, Thread
<1>5. CASE Busy
  BY <1>5 DEF Busy, Last, argVars, mainVars, TypeOK, LockInv, Thread
<1>6. CASE Give
  BY <1>6 DEF Give, argVars, mainVars, TypeOK, LockInv, Thread
<1>7. CASE Raise
  BY <1>7 DEF Raise, argVars, mainVars, TypeOK, LockInv, Thread
<1>8. CASE Count
  BY <1>8 DEF Count, Enough, LoopHead, argVars, mainVars, TypeOK, LockInv,
     Thread
<1>9. CASE Stop
  BY <1>9 DEF Stop, argVars, mainVars, TypeOK, LockInv, Thread
<1>10. CASE Exit
  BY <1>10 DEF Exit, argVars, mainVars, TypeOK, LockInv, Thread
<1>11. CASE \E t \in Thread : Pool(t)
  <2> PICK t \in Thread : Pool(t)
    BY <1>11
  <2>1. CASE Check(t)
    BY <2>1 DEF Check, Goto, argVars, mainVars, TypeOK, LockInv, Thread
  <2>2. CASE Flag(t)
    BY <2>2 DEF Flag, Goto, argVars, mainVars, TypeOK, LockInv, Thread
  <2>3. CASE Recv(t)
    BY <2>3 DEF Recv, Goto, argVars, mainVars, TypeOK, LockInv, Thread
  <2>4. CASE Send(t)
    BY <2>4 DEF Send, Goto, argVars, mainVars, TypeOK, LockInv, Thread
  <2>5. CASE Served(t)
    BY <2>5 DEF Served, Goto, argVars, mainVars, TypeOK, LockInv, Thread
  <2>6. CASE Lower(t)
    BY <2>6 DEF Lower, Goto, argVars, mainVars, TypeOK, LockInv, Thread
  <2>7. CASE Close(t)
    BY <2>7 DEF Close, Goto, argVars, mainVars, TypeOK, LockInv, Thread
  <2> QED BY <2>1, <2>2, <2>3, <2>4, <2>5, <2>6, <2>7 DEF Pool
<1>12. CASE \/ ShutdownCheck \/ TypeS \/ TypeOther
            \/ SignalMain \/ SignalStop
  BY <1>12 DEF ShutdownCheck, TypeS, TypeOther, SignalMain, SignalStop,
     argVars, mainVars, TypeOK, LockInv, Thread
<1>13. CASE \E c \in Client : Connect(c) \/ Say(c)
  BY <1>13 DEF Connect, Say, argVars, mainVars, TypeOK, LockInv, Thread
<1>14. CASE UNCHANGED vars
  BY <1>14 DEF vars, argVars, mainVars, TypeOK, LockInv, Thread
<1> QED BY <1>1, <1>2, <1>3, <1>4, <1>5, <1>6, <1>7, <1>8, <1>9, <1>10, <1>11,
   <1>12, <1>13, <1>14 DEF Next, Main

\* Every step keeps what a flag says of its thread.
LEMMA FlagStep == IInv /\ [Next]_vars => FlagInv'
<1> SUFFICES ASSUME IInv, [Next]_vars PROVE FlagInv'
  OBVIOUS
<1> USE DEF IInv
<1>1. CASE Loop
  BY <1>1 DEF Loop, LoopHead, argVars, mainVars, TypeOK, LockInv, FlagInv
<1>2. CASE Release
  BY <1>2 DEF Release, Last, argVars, mainVars, TypeOK, LockInv, FlagInv
<1>3. CASE Accept
  BY <1>3 DEF Accept, argVars, mainVars, TypeOK, LockInv, FlagInv
<1>4. CASE AcceptFails
  BY <1>4 DEF AcceptFails, argVars, mainVars, TypeOK, LockInv, FlagInv
<1>5. CASE Busy
  BY <1>5 DEF Busy, Last, argVars, mainVars, TypeOK, LockInv, FlagInv
<1>6. CASE Give
  <2>1. clients_fd[clients_fd_no] \in Client /\ None \notin Client
    BY <1>6, PoolAssumption DEF Give, TypeOK, MainInv
  <2>2. pc[i] # "close"
    BY <1>6 DEF Give, TypeOK, LockInv, Thread, Index
  <2> QED BY <1>6, <2>1, <2>2 DEF Give, TypeOK, FlagInv
<1>7. CASE Raise
  <2>1. client_fd[i] # None
    BY <1>7, PoolAssumption DEF Raise, TypeOK, MainInv
  <2>2. pc[i] # "close"
    BY <1>7 DEF Raise, TypeOK, LockInv, Thread, Index
  <2> QED BY <1>7, <2>1, <2>2 DEF Raise, TypeOK, FlagInv
<1>8. CASE Count
  BY <1>8 DEF Count, Enough, LoopHead, argVars, mainVars, TypeOK, LockInv,
     FlagInv
<1>9. CASE Stop
  BY <1>9 DEF Stop, argVars, mainVars, TypeOK, LockInv, FlagInv
<1>10. CASE Exit
  BY <1>10 DEF Exit, argVars, mainVars, TypeOK, LockInv, FlagInv
<1>11. CASE \E t \in Thread : Pool(t)
  <2> PICK t \in Thread : Pool(t)
    BY <1>11
  <2>1. CASE Check(t)
    BY <2>1 DEF Check, Goto, argVars, mainVars, TypeOK, LockInv, FlagInv
  <2>2. CASE Flag(t)
    BY <2>2 DEF Flag, Goto, argVars, mainVars, TypeOK, LockInv, FlagInv
  <2>3. CASE Recv(t)
    BY <2>3 DEF Recv, Goto, argVars, mainVars, TypeOK, LockInv, FlagInv
  <2>4. CASE Send(t)
    BY <2>4 DEF Send, Goto, argVars, mainVars, TypeOK, LockInv, FlagInv
  <2>5. CASE Served(t)
    BY <2>5 DEF Served, Goto, argVars, mainVars, TypeOK, LockInv, FlagInv
  <2>6. CASE Lower(t)
    BY <2>6 DEF Lower, Goto, argVars, mainVars, TypeOK, LockInv, FlagInv
  <2>7. CASE Close(t)
    BY <2>7 DEF Close, Goto, argVars, mainVars, TypeOK, LockInv, FlagInv
  <2> QED BY <2>1, <2>2, <2>3, <2>4, <2>5, <2>6, <2>7 DEF Pool
<1>12. CASE \/ ShutdownCheck \/ TypeS \/ TypeOther
            \/ SignalMain \/ SignalStop
  BY <1>12 DEF ShutdownCheck, TypeS, TypeOther, SignalMain, SignalStop,
     argVars, mainVars, TypeOK, LockInv, FlagInv
<1>13. CASE \E c \in Client : Connect(c) \/ Say(c)
  BY <1>13 DEF Connect, Say, argVars, mainVars, TypeOK, LockInv, FlagInv
<1>14. CASE UNCHANGED vars
  BY <1>14 DEF vars, argVars, mainVars, TypeOK, LockInv, FlagInv
<1> QED BY <1>1, <1>2, <1>3, <1>4, <1>5, <1>6, <1>7, <1>8, <1>9, <1>10, <1>11,
   <1>12, <1>13, <1>14 DEF Next, Main

\* Every step keeps who ever had a client.
LEMMA RoundStep == IInv /\ [Next]_vars => RoundInv'
<1> SUFFICES ASSUME IInv, [Next]_vars PROVE RoundInv'
  OBVIOUS
<1> USE DEF IInv
<1>1. CASE Loop
  BY <1>1 DEF Loop, LoopHead, argVars, mainVars, RoundInv
<1>2. CASE Release
  BY <1>2 DEF Release, Last, argVars, mainVars, RoundInv
<1>3. CASE Accept
  <2>1. i = 0 /\ i' = i
    BY <1>3 DEF Accept, RoundInv
  <2>2. \A t \in Thread : ~(t < 0)
    BY PoolAssumption DEF Thread
  <2> QED BY <1>3, <2>1, <2>2 DEF Accept, argVars, RoundInv
<1>4. CASE AcceptFails
  BY <1>4 DEF AcceptFails, argVars, mainVars, RoundInv
<1>5. CASE Busy
  <2>1. i \in Nat /\ i \in Thread /\ client_fd[i] # None
    BY <1>5, PoolAssumption DEF Busy, TypeOK, FlagInv, Thread, Index
  <2>2. \A t \in Thread : t < i + 1 => t < i \/ t = i
    BY <2>1 DEF Thread
  <2>3. main_pc' = "scan" => i' = i + 1
    BY <1>5 DEF Busy
  <2> QED BY <1>5, <2>1, <2>2, <2>3 DEF Busy, argVars, RoundInv
<1>6. CASE Give
  <2>1. i \in Nat /\ count \in Nat /\ i \in Thread
    BY PoolAssumption DEF TypeOK, Thread, Index
  <2>2. i <= count
    <3>1. i # 0 => i - 1 \in Thread /\ i - 1 < i
      BY <2>1, PoolAssumption DEF Thread
    <3>2. i # 0 => i - 1 < count
      BY <1>6, <3>1 DEF Give, RoundInv
    <3> QED BY <2>1, <3>2
  <2>3. i < count \/ i = count
    BY <2>1, <2>2
  <2> QED BY <1>6, <2>3 DEF Give, RoundInv, TypeOK
<1>7. CASE Raise
  BY <1>7 DEF Raise, argVars, mainVars, RoundInv
<1>8. CASE Count
  <2>1. count \in Nat /\ \A t \in Thread : t \in Nat
    BY PoolAssumption DEF TypeOK, Thread
  <2>2. \A t \in Thread : t < count \/ t = count => t < count + 1
    BY <2>1
  <2>3. count < start_alloc_size
    BY <1>8 DEF Count, RoundInv
  <2>4. count + 1 # start_alloc_size => count + 1 < start_alloc_size
    BY <2>1, <2>3, PoolAssumption
  <2> QED BY <1>8, <2>2, <2>4 DEF Count, Enough, LoopHead, argVars, RoundInv
<1>9. CASE Stop
  BY <1>9 DEF Stop, argVars, mainVars, RoundInv
<1>10. CASE Exit
  BY <1>10 DEF Exit, argVars, mainVars, RoundInv
<1>11. CASE \E t \in Thread : Pool(t)
  <2> PICK t \in Thread : Pool(t)
    BY <1>11
  <2>1. CASE Check(t)
    BY <2>1 DEF Check, Goto, argVars, mainVars, RoundInv
  <2>2. CASE Flag(t)
    BY <2>2 DEF Flag, Goto, argVars, mainVars, RoundInv
  <2>3. CASE Recv(t)
    BY <2>3 DEF Recv, Goto, argVars, mainVars, RoundInv
  <2>4. CASE Send(t)
    BY <2>4 DEF Send, Goto, argVars, mainVars, RoundInv
  <2>5. CASE Served(t)
    BY <2>5 DEF Served, Goto, argVars, mainVars, RoundInv
  <2>6. CASE Lower(t)
    BY <2>6 DEF Lower, Goto, argVars, mainVars, RoundInv
  <2>7. CASE Close(t)
    BY <2>7 DEF Close, Goto, argVars, mainVars, RoundInv
  <2> QED BY <2>1, <2>2, <2>3, <2>4, <2>5, <2>6, <2>7 DEF Pool
<1>12. CASE \/ ShutdownCheck \/ TypeS \/ TypeOther
            \/ SignalMain \/ SignalStop
  BY <1>12 DEF ShutdownCheck, TypeS, TypeOther, SignalMain, SignalStop,
     argVars, mainVars, RoundInv
<1>13. CASE \E c \in Client : Connect(c) \/ Say(c)
  BY <1>13 DEF Connect, Say, argVars, mainVars, RoundInv
<1>14. CASE UNCHANGED vars
  BY <1>14 DEF vars, argVars, mainVars, RoundInv
<1> QED BY <1>1, <1>2, <1>3, <1>4, <1>5, <1>6, <1>7, <1>8, <1>9, <1>10, <1>11,
   <1>12, <1>13, <1>14 DEF Next, Main

\* Every step keeps whom main has in hand.
LEMMA MainStep == IInv /\ [Next]_vars => MainInv'
<1> SUFFICES ASSUME IInv, [Next]_vars PROVE MainInv'
  OBVIOUS
<1> USE DEF IInv
<1>1. CASE Loop
  BY <1>1 DEF Loop, LoopHead, argVars, mainVars, clientVars, TypeOK, LockInv,
     FlagInv, MainInv, ClientInv, HasClient, Running
<1>2. CASE Release
  BY <1>2 DEF Release, Last, argVars, mainVars, clientVars, TypeOK, LockInv,
     FlagInv, MainInv, ClientInv, HasClient, Running
<1>3. CASE Accept
  BY <1>3 DEF Accept, argVars, mainVars, clientVars, TypeOK, LockInv, FlagInv,
     MainInv, ClientInv, HasClient, Running
<1>4. CASE AcceptFails
  BY <1>4 DEF AcceptFails, argVars, mainVars, clientVars, TypeOK, LockInv,
     FlagInv, MainInv, ClientInv, HasClient, Running
<1>5. CASE Busy
  BY <1>5 DEF Busy, Last, argVars, mainVars, clientVars, TypeOK, LockInv,
     FlagInv, MainInv, ClientInv, HasClient, Running
<1>6. CASE Give
  <2>1. pc[i] # "close" /\ flag[i] = 0
    BY <1>6 DEF Give, TypeOK, LockInv, Thread, Index
  <2>2. \A t \in Thread : HasClient(t)' => HasClient(t) /\ t # i
    BY <1>6, <2>1 DEF Give, HasClient
  <2>3. client_fd' = [client_fd EXCEPT ![i] = clients_fd[clients_fd_no]]
    BY <1>6 DEF Give
  <2>4. client_fd'[i] = clients_fd[clients_fd_no]
    BY <2>3 DEF TypeOK, Thread, Index
  <2> QED BY <1>6, <2>2, <2>3, <2>4 DEF Give, TypeOK, MainInv
<1>7. CASE Raise
  BY <1>7 DEF Raise, argVars, mainVars, clientVars, TypeOK, LockInv, FlagInv,
     MainInv, ClientInv, HasClient, Running
<1>8. CASE Count
  BY <1>8 DEF Count, Enough, LoopHead, argVars, mainVars, clientVars, TypeOK,
     LockInv, FlagInv, MainInv, ClientInv, HasClient, Running
<1>9. CASE Stop
  BY <1>9 DEF Stop, argVars, mainVars, clientVars, TypeOK, LockInv, FlagInv,
     MainInv, ClientInv, HasClient, Running
<1>10. CASE Exit
  BY <1>10 DEF Exit, argVars, mainVars, clientVars, TypeOK, LockInv, FlagInv,
     MainInv, ClientInv, HasClient, Running
<1>11. CASE \E t \in Thread : Pool(t)
  <2> PICK t \in Thread : Pool(t)
    BY <1>11
  <2>1. CASE Check(t)
    BY <2>1 DEF Check, Goto, argVars, mainVars, clientVars, TypeOK, LockInv,
       FlagInv, MainInv, ClientInv, HasClient, Running
  <2>2. CASE Flag(t)
    BY <2>2 DEF Flag, Goto, argVars, mainVars, clientVars, TypeOK, LockInv,
       FlagInv, MainInv, ClientInv, HasClient, Running
  <2>3. CASE Recv(t)
    BY <2>3 DEF Recv, Goto, argVars, mainVars, clientVars, TypeOK, LockInv,
       FlagInv, MainInv, ClientInv, HasClient, Running
  <2>4. CASE Send(t)
    BY <2>4 DEF Send, Goto, argVars, mainVars, clientVars, TypeOK, LockInv,
       FlagInv, MainInv, ClientInv, HasClient, Running
  <2>5. CASE Served(t)
    BY <2>5 DEF Served, Goto, argVars, mainVars, clientVars, TypeOK, LockInv,
       FlagInv, MainInv, ClientInv, HasClient, Running
  <2>6. CASE Lower(t)
    BY <2>6 DEF Lower, Goto, argVars, mainVars, clientVars, TypeOK, LockInv,
       FlagInv, MainInv, ClientInv, HasClient, Running
  <2>7. CASE Close(t)
    BY <2>7 DEF Close, Goto, argVars, mainVars, clientVars, TypeOK, LockInv,
       FlagInv, MainInv, ClientInv, HasClient, Running
  <2> QED BY <2>1, <2>2, <2>3, <2>4, <2>5, <2>6, <2>7 DEF Pool
<1>12. CASE \/ ShutdownCheck \/ TypeS \/ TypeOther
            \/ SignalMain \/ SignalStop
  BY <1>12 DEF ShutdownCheck, TypeS, TypeOther, SignalMain, SignalStop,
     argVars, mainVars, clientVars, TypeOK, LockInv, FlagInv, MainInv,
     ClientInv, HasClient, Running
<1>13. CASE \E c \in Client : Connect(c) \/ Say(c)
  BY <1>13 DEF Connect, Say, argVars, mainVars, clientVars, TypeOK, LockInv,
     FlagInv, MainInv, ClientInv, HasClient, Running
<1>14. CASE UNCHANGED vars
  BY <1>14 DEF vars, argVars, mainVars, clientVars, TypeOK, LockInv, FlagInv,
     MainInv, ClientInv, HasClient, Running
<1> QED BY <1>1, <1>2, <1>3, <1>4, <1>5, <1>6, <1>7, <1>8, <1>9, <1>10, <1>11,
   <1>12, <1>13, <1>14 DEF Next, Main

\* Every step keeps whom the threads have.
LEMMA ClientStep == IInv /\ [Next]_vars => ClientInv'
<1> SUFFICES ASSUME IInv, [Next]_vars PROVE ClientInv'
  OBVIOUS
<1> USE DEF IInv
<1>1. CASE Loop
  BY <1>1 DEF Loop, LoopHead, argVars, mainVars, clientVars, TypeOK, LockInv,
     FlagInv, MainInv, ClientInv, HasClient, Running
<1>2. CASE Release
  BY <1>2 DEF Release, Last, argVars, mainVars, clientVars, TypeOK, LockInv,
     FlagInv, MainInv, ClientInv, HasClient, Running
<1>3. CASE Accept
  BY <1>3 DEF Accept, argVars, mainVars, clientVars, TypeOK, LockInv, FlagInv,
     MainInv, ClientInv, HasClient, Running
<1>4. CASE AcceptFails
  BY <1>4 DEF AcceptFails, argVars, mainVars, clientVars, TypeOK, LockInv,
     FlagInv, MainInv, ClientInv, HasClient, Running
<1>5. CASE Busy
  BY <1>5 DEF Busy, Last, argVars, mainVars, clientVars, TypeOK, LockInv,
     FlagInv, MainInv, ClientInv, HasClient, Running
<1>6. CASE Give
  BY <1>6 DEF Give, argVars, mainVars, clientVars, TypeOK, LockInv, FlagInv,
     MainInv, ClientInv, HasClient, Running
<1>7. CASE Raise
  BY <1>7 DEF Raise, argVars, mainVars, clientVars, TypeOK, LockInv, FlagInv,
     MainInv, ClientInv, HasClient, Running
<1>8. CASE Count
  BY <1>8 DEF Count, Enough, LoopHead, argVars, mainVars, clientVars, TypeOK,
     LockInv, FlagInv, MainInv, ClientInv, HasClient, Running
<1>9. CASE Stop
  BY <1>9 DEF Stop, argVars, mainVars, clientVars, TypeOK, LockInv, FlagInv,
     MainInv, ClientInv, HasClient, Running
<1>10. CASE Exit
  BY <1>10 DEF Exit, argVars, mainVars, clientVars, TypeOK, LockInv, FlagInv,
     MainInv, ClientInv, HasClient, Running
<1>11. CASE \E t \in Thread : Pool(t)
  <2> PICK t \in Thread : Pool(t)
    BY <1>11
  <2>1. CASE Check(t)
    BY <2>1 DEF Check, Goto, argVars, mainVars, clientVars, TypeOK, LockInv,
       FlagInv, MainInv, ClientInv, HasClient, Running
  <2>2. CASE Flag(t)
    BY <2>2 DEF Flag, Goto, argVars, mainVars, clientVars, TypeOK, LockInv,
       FlagInv, MainInv, ClientInv, HasClient, Running
  <2>3. CASE Recv(t)
    BY <2>3 DEF Recv, Goto, argVars, mainVars, clientVars, TypeOK, LockInv,
       FlagInv, MainInv, ClientInv, HasClient, Running
  <2>4. CASE Send(t)
    BY <2>4 DEF Send, Goto, argVars, mainVars, clientVars, TypeOK, LockInv,
       FlagInv, MainInv, ClientInv, HasClient, Running
  <2>5. CASE Served(t)
    BY <2>5 DEF Served, Goto, argVars, mainVars, clientVars, TypeOK, LockInv,
       FlagInv, MainInv, ClientInv, HasClient, Running
  <2>6. CASE Lower(t)
    BY <2>6 DEF Lower, Goto, argVars, mainVars, clientVars, TypeOK, LockInv,
       FlagInv, MainInv, ClientInv, HasClient, Running
  <2>7. CASE Close(t)
    BY <2>7 DEF Close, Goto, argVars, mainVars, clientVars, TypeOK, LockInv,
       FlagInv, MainInv, ClientInv, HasClient, Running
  <2> QED BY <2>1, <2>2, <2>3, <2>4, <2>5, <2>6, <2>7 DEF Pool
<1>12. CASE \/ ShutdownCheck \/ TypeS \/ TypeOther
            \/ SignalMain \/ SignalStop
  BY <1>12 DEF ShutdownCheck, TypeS, TypeOther, SignalMain, SignalStop,
     argVars, mainVars, clientVars, TypeOK, LockInv, FlagInv, MainInv,
     ClientInv, HasClient, Running
<1>13. CASE \E c \in Client : Connect(c) \/ Say(c)
  BY <1>13 DEF Connect, Say, argVars, mainVars, clientVars, TypeOK, LockInv,
     FlagInv, MainInv, ClientInv, HasClient, Running
<1>14. CASE UNCHANGED vars
  BY <1>14 DEF vars, argVars, mainVars, clientVars, TypeOK, LockInv, FlagInv,
     MainInv, ClientInv, HasClient, Running
<1> QED BY <1>1, <1>2, <1>3, <1>4, <1>5, <1>6, <1>7, <1>8, <1>9, <1>10, <1>11,
   <1>12, <1>13, <1>14 DEF Next, Main

\* Every step keeps who was answered.
LEMMA AnswerStep == IInv /\ [Next]_vars => AnswerInv'
<1> SUFFICES ASSUME IInv, [Next]_vars PROVE AnswerInv'
  OBVIOUS
<1> USE DEF IInv
<1>1. CASE Loop
  BY <1>1 DEF Loop, LoopHead, argVars, mainVars, stopVars, clientVars, TypeOK,
     LockInv, FlagInv, MainInv, ClientInv, AnswerInv, HasClient, Running
<1>2. CASE Release
  BY <1>2 DEF Release, Last, argVars, mainVars, stopVars, clientVars, TypeOK,
     LockInv, FlagInv, MainInv, ClientInv, AnswerInv, HasClient, Running
<1>3. CASE Accept
  BY <1>3 DEF Accept, argVars, mainVars, stopVars, clientVars, TypeOK, LockInv,
     FlagInv, MainInv, ClientInv, AnswerInv, HasClient, Running
<1>4. CASE AcceptFails
  BY <1>4 DEF AcceptFails, argVars, mainVars, stopVars, clientVars, TypeOK,
     LockInv, FlagInv, MainInv, ClientInv, AnswerInv, HasClient, Running
<1>5. CASE Busy
  BY <1>5 DEF Busy, Last, argVars, mainVars, stopVars, clientVars, TypeOK,
     LockInv, FlagInv, MainInv, ClientInv, AnswerInv, HasClient, Running
<1>6. CASE Give
  BY <1>6 DEF Give, argVars, mainVars, stopVars, clientVars, TypeOK, LockInv,
     FlagInv, MainInv, ClientInv, AnswerInv, HasClient, Running
<1>7. CASE Raise
  BY <1>7 DEF Raise, argVars, mainVars, stopVars, clientVars, TypeOK, LockInv,
     FlagInv, MainInv, ClientInv, AnswerInv, HasClient, Running
<1>8. CASE Count
  BY <1>8 DEF Count, Enough, LoopHead, argVars, mainVars, stopVars, clientVars,
     TypeOK, LockInv, FlagInv, MainInv, ClientInv, AnswerInv, HasClient,
     Running
<1>9. CASE Stop
  BY <1>9 DEF Stop, argVars, mainVars, stopVars, clientVars, TypeOK, LockInv,
     FlagInv, MainInv, ClientInv, AnswerInv, HasClient, Running
<1>10. CASE Exit
  BY <1>10 DEF Exit, argVars, mainVars, stopVars, clientVars, TypeOK, LockInv,
     FlagInv, MainInv, ClientInv, AnswerInv, HasClient, Running
<1>11. CASE \E t \in Thread : Pool(t)
  <2> PICK t \in Thread : Pool(t)
    BY <1>11
  <2>1. CASE Check(t)
    BY <2>1 DEF Check, Goto, argVars, mainVars, stopVars, clientVars, TypeOK,
       LockInv, FlagInv, MainInv, ClientInv, AnswerInv, HasClient, Running
  <2>2. CASE Flag(t)
    BY <2>2 DEF Flag, Goto, argVars, mainVars, stopVars, clientVars, TypeOK,
       LockInv, FlagInv, MainInv, ClientInv, AnswerInv, HasClient, Running
  <2>3. CASE Recv(t)
    <3>1. pc[t] = "recv" /\ flag[t] = 1 /\ main_pc # "exit"
      BY <2>3 DEF Recv, FlagInv
    <3>2. client_fd[t] \in said
      BY <2>3, <3>1 DEF Recv, Silent, ClientInv, HasClient, Running
    <3> QED BY <2>3, <3>1, <3>2 DEF Recv, Goto, argVars, mainVars, stopVars,
       clientVars, TypeOK, AnswerInv
  <2>4. CASE Send(t)
    BY <2>4 DEF Send, Goto, argVars, mainVars, stopVars, clientVars, TypeOK,
       LockInv, FlagInv, MainInv, ClientInv, AnswerInv, HasClient, Running
  <2>5. CASE Served(t)
    BY <2>5 DEF Served, Goto, argVars, mainVars, stopVars, clientVars, TypeOK,
       LockInv, FlagInv, MainInv, ClientInv, AnswerInv, HasClient, Running
  <2>6. CASE Lower(t)
    BY <2>6 DEF Lower, Goto, argVars, mainVars, stopVars, clientVars, TypeOK,
       LockInv, FlagInv, MainInv, ClientInv, AnswerInv, HasClient, Running
  <2>7. CASE Close(t)
    BY <2>7 DEF Close, Goto, argVars, mainVars, stopVars, clientVars, TypeOK,
       LockInv, FlagInv, MainInv, ClientInv, AnswerInv, HasClient, Running
  <2> QED BY <2>1, <2>2, <2>3, <2>4, <2>5, <2>6, <2>7 DEF Pool
<1>12. CASE \/ ShutdownCheck \/ TypeS \/ TypeOther
            \/ SignalMain \/ SignalStop
  BY <1>12 DEF ShutdownCheck, TypeS, TypeOther, SignalMain, SignalStop,
     argVars, mainVars, stopVars, clientVars, TypeOK, LockInv, FlagInv,
     MainInv, ClientInv, AnswerInv, HasClient, Running
<1>13. CASE \E c \in Client : Connect(c) \/ Say(c)
  BY <1>13 DEF Connect, Say, argVars, mainVars, stopVars, clientVars, TypeOK,
     LockInv, FlagInv, MainInv, ClientInv, AnswerInv, HasClient, Running
<1>14. CASE UNCHANGED vars
  BY <1>14 DEF vars, argVars, mainVars, stopVars, clientVars, TypeOK, LockInv,
     FlagInv, MainInv, ClientInv, AnswerInv, HasClient, Running
<1> QED BY <1>1, <1>2, <1>3, <1>4, <1>5, <1>6, <1>7, <1>8, <1>9, <1>10, <1>11,
   <1>12, <1>13, <1>14 DEF Next, Main

\* Every step keeps a connection with somebody.
LEMMA ForgetStep == IInv /\ [Next]_vars => NobodyForgotten'
<1> SUFFICES ASSUME IInv, [Next]_vars PROVE NobodyForgotten'
  OBVIOUS
<1> USE DEF IInv
<1>1. CASE Loop
  BY <1>1 DEF Loop, LoopHead, argVars, mainVars, clientVars, TypeOK, LockInv,
     FlagInv, RoundInv, MainInv, ClientInv, HasClient, Running,
     NobodyForgotten
<1>2. CASE Release
  BY <1>2 DEF Release, Last, argVars, mainVars, clientVars, TypeOK, LockInv,
     FlagInv, RoundInv, MainInv, ClientInv, HasClient, Running,
     NobodyForgotten
<1>3. CASE Accept
  BY <1>3 DEF Accept, argVars, mainVars, clientVars, TypeOK, LockInv, FlagInv,
     RoundInv, MainInv, ClientInv, HasClient, Running, NobodyForgotten
<1>4. CASE AcceptFails
  BY <1>4 DEF AcceptFails, argVars, mainVars, clientVars, TypeOK, LockInv,
     FlagInv, RoundInv, MainInv, ClientInv, HasClient, Running,
     NobodyForgotten
<1>5. CASE Busy
  <2>1. ~Last
    <3>1. i \in Thread /\ i \in Nat /\ count \in Nat
      BY PoolAssumption DEF TypeOK, Thread, Index
    <3>2. i < count /\ count < start_alloc_size
      BY <1>5, <3>1 DEF Busy, FlagInv, RoundInv
    <3> QED BY <3>1, <3>2, PoolAssumption DEF Last
  <2> QED BY <1>5, <2>1 DEF Busy, argVars, Running, NobodyForgotten
<1>6. CASE Give
  BY <1>6 DEF Give, argVars, mainVars, clientVars, TypeOK, LockInv, FlagInv,
     RoundInv, MainInv, ClientInv, HasClient, Running, NobodyForgotten
<1>7. CASE Raise
  <2>1. i \in Thread /\ client_fd[i] = clients_fd[clients_fd_no]
    BY <1>7 DEF Raise, TypeOK, MainInv, Thread, Index
  <2>2. /\ UNCHANGED <<open, client_fd, pc>>
        /\ flag' = [flag EXCEPT ![i] = 1]
    BY <1>7 DEF Raise
  <2>3. flag'[i] = 1 /\ \A t \in Thread : flag[t] = 1 => flag'[t] = 1
    BY <2>1, <2>2 DEF TypeOK
  <2> QED BY <1>7, <2>1, <2>2, <2>3 DEF Raise, Running, NobodyForgotten
<1>8. CASE Count
  BY <1>8 DEF Count, Enough, LoopHead, argVars, mainVars, clientVars, TypeOK,
     LockInv, FlagInv, RoundInv, MainInv, ClientInv, HasClient, Running,
     NobodyForgotten
<1>9. CASE Stop
  BY <1>9 DEF Stop, argVars, mainVars, clientVars, TypeOK, LockInv, FlagInv,
     RoundInv, MainInv, ClientInv, HasClient, Running, NobodyForgotten
<1>10. CASE Exit
  BY <1>10 DEF Exit, argVars, mainVars, clientVars, TypeOK, LockInv, FlagInv,
     RoundInv, MainInv, ClientInv, HasClient, Running, NobodyForgotten
<1>11. CASE \E t \in Thread : Pool(t)
  <2> PICK t \in Thread : Pool(t)
    BY <1>11
  <2>1. CASE Check(t)
    BY <2>1 DEF Check, Goto, argVars, mainVars, clientVars, TypeOK, LockInv,
       FlagInv, RoundInv, MainInv, ClientInv, HasClient, Running,
       NobodyForgotten
  <2>2. CASE Flag(t)
    BY <2>2 DEF Flag, Goto, argVars, mainVars, clientVars, TypeOK, LockInv,
       FlagInv, RoundInv, MainInv, ClientInv, HasClient, Running,
       NobodyForgotten
  <2>3. CASE Recv(t)
    BY <2>3 DEF Recv, Goto, argVars, mainVars, clientVars, TypeOK, LockInv,
       FlagInv, RoundInv, MainInv, ClientInv, HasClient, Running,
       NobodyForgotten
  <2>4. CASE Send(t)
    BY <2>4 DEF Send, Goto, argVars, mainVars, clientVars, TypeOK, LockInv,
       FlagInv, RoundInv, MainInv, ClientInv, HasClient, Running,
       NobodyForgotten
  <2>5. CASE Served(t)
    BY <2>5 DEF Served, Goto, argVars, mainVars, clientVars, TypeOK, LockInv,
       FlagInv, RoundInv, MainInv, ClientInv, HasClient, Running,
       NobodyForgotten
  <2>6. CASE Lower(t)
    BY <2>6 DEF Lower, Goto, argVars, mainVars, clientVars, TypeOK, LockInv,
       FlagInv, RoundInv, MainInv, ClientInv, HasClient, Running,
       NobodyForgotten
  <2>7. CASE Close(t)
    BY <2>7 DEF Close, Goto, argVars, mainVars, clientVars, TypeOK, LockInv,
       FlagInv, RoundInv, MainInv, ClientInv, HasClient, Running,
       NobodyForgotten
  <2> QED BY <2>1, <2>2, <2>3, <2>4, <2>5, <2>6, <2>7 DEF Pool
<1>12. CASE \/ ShutdownCheck \/ TypeS \/ TypeOther
            \/ SignalMain \/ SignalStop
  BY <1>12 DEF ShutdownCheck, TypeS, TypeOther, SignalMain, SignalStop,
     argVars, mainVars, clientVars, TypeOK, LockInv, FlagInv, RoundInv,
     MainInv, ClientInv, HasClient, Running, NobodyForgotten
<1>13. CASE \E c \in Client : Connect(c) \/ Say(c)
  BY <1>13 DEF Connect, Say, argVars, mainVars, clientVars, TypeOK, LockInv,
     FlagInv, RoundInv, MainInv, ClientInv, HasClient, Running,
     NobodyForgotten
<1>14. CASE UNCHANGED vars
  BY <1>14 DEF vars, argVars, mainVars, clientVars, TypeOK, LockInv, FlagInv,
     RoundInv, MainInv, ClientInv, HasClient, Running, NobodyForgotten
<1> QED BY <1>1, <1>2, <1>3, <1>4, <1>5, <1>6, <1>7, <1>8, <1>9, <1>10, <1>11,
   <1>12, <1>13, <1>14 DEF Next, Main

\* The invariant holds in every reachable state.
THEOREM Invariant == Spec => []IInv
<1>1. IInv /\ [Next]_vars => IInv'
  BY TypeStep, LockStep, FlagStep, RoundStep, MainStep, ClientStep, AnswerStep,
     ForgetStep
     DEF IInv
<1> QED BY InitInv, <1>1, PTL DEF Spec

-----------------------------------------------------------------------------
(* The properties.                                                         *)

\* The variables keep their types: main makes no more rounds than there are
\* threads.
THEOREM TypeCorrect == Spec => []TypeOK
<1>1. IInv => TypeOK
  BY DEF IInv
<1> QED BY <1>1, Invariant, PTL

\* A thread works on an open connection that is nobody else's, although it
\* reads its flag without the mutex.
THEOREM HandedOver == Spec => []HandOver
<1>1. IInv => HandOver
  <2> SUFFICES ASSUME IInv, NEW t \in Thread, Working(t)
               PROVE  /\ client_fd[t] \in open
                      /\ \A s \in Thread \ {t} :
                           Working(s) => client_fd[s] # client_fd[t]
                      /\ (flag[t] = 0 <=> pc[t] = "close")
    BY DEF HandOver
  <2>1. \A s \in Thread : Working(s) => HasClient(s)
    BY DEF IInv, FlagInv, Working, HasClient
  <2>2. Running
    BY DEF IInv, FlagInv, Working, Running
  <2>3. flag[t] = 0 <=> pc[t] = "close"
    BY DEF IInv, FlagInv, Working
  <2> QED BY <2>1, <2>2, <2>3 DEF IInv, ClientInv
<1> QED BY <1>1, Invariant, PTL

\* Until the exit an open connection is with main or with a thread: a scan of
\* the threads always finds one that is free.
THEOREM NobodyIsForgotten == Spec => []NobodyForgotten
<1>1. IInv => NobodyForgotten
  BY DEF IInv
<1> QED BY <1>1, Invariant, PTL

-----------------------------------------------------------------------------
(* The promise of Service.                                                 *)

Conn == [c \in Client |-> ConnState(c)]

\* A step that leaves the clients, their connections and answers alone, and is
\* not the exit, is none of the service.
LEMMA Unseen ==
  ASSUME UNCHANGED <<arrived, waiting, said, open, answers>>,
         main_pc' = "exit" <=> main_pc = "exit"
  PROVE  UNCHANGED Promise!vars
<1>1. Conn' = Conn
  BY DEF Conn, ConnState
<1> QED BY <1>1 DEF Promise!vars, Conn

\* A step that moves one client's connection moves that of no other.
LEMMA OneMoves ==
  ASSUME NEW c \in Client, NEW s, ConnState(c)' = s,
         \A d \in Client \ {c} : ConnState(d)' = ConnState(d)
  PROVE  Conn' = [Conn EXCEPT ![c] = s]
BY DEF Conn

\* Every step is a step of the service or none.
LEMMA ServiceStep == IInv /\ [Next]_vars => [Promise!Next]_(Promise!vars)
<1> SUFFICES ASSUME IInv, [Next]_vars
             PROVE  Promise!Next \/ UNCHANGED Promise!vars
  OBVIOUS
<1>0. /\ arrived \subseteq Client /\ waiting \subseteq arrived
      /\ open \subseteq arrived /\ waiting \cap open = {}
      /\ answers \in [Client -> Nat]
  BY DEF IInv, TypeOK, ClientInv
<1>1. ASSUME NEW c \in Client, Connect(c) PROVE Promise!Connect(c)
  <2>1. /\ c \notin arrived /\ main_pc # "exit" /\ main_pc' = main_pc
        /\ arrived' = arrived \cup {c} /\ waiting' = waiting \cup {c}
        /\ UNCHANGED <<said, open, answers>>
    BY <1>1 DEF Connect, Running, mainVars
  <2>2. ConnState(c) = "away" /\ ConnState(c)' = "waiting"
    BY <1>0, <2>1 DEF ConnState
  <2>3. \A d \in Client \ {c} : ConnState(d)' = ConnState(d)
    BY <2>1 DEF ConnState
  <2>4. Conn' = [Conn EXCEPT ![c] = "waiting"]
    BY <2>2, <2>3, OneMoves
  <2> QED BY <2>1, <2>2, <2>4 DEF Promise!Connect, Promise!Moves, Conn
<1>2. ASSUME NEW c \in Client, Say(c) PROVE Promise!Say(c)
  <2>1. /\ c \in waiting \cup open /\ main_pc' = main_pc
        /\ said' = said \cup {c}
        /\ UNCHANGED <<arrived, waiting, open, answers>>
    BY <1>2 DEF Say, mainVars
  <2>2. ConnState(c) # "away" /\ Conn' = Conn
    BY <2>1 DEF ConnState, Conn
  <2> QED BY <2>1, <2>2 DEF Promise!Say, Conn
<1>3. CASE Accept
  <2>1. PICK c \in waiting :
          /\ waiting' = waiting \ {c} /\ open' = open \cup {c}
          /\ main_pc = "accept" /\ main_pc' = "scan"
          /\ UNCHANGED <<arrived, said, answers>>
    BY <1>3 DEF Accept
  <2>2. c \in Client
    BY <1>0
  <2>3. ConnState(c) = "waiting" /\ ConnState(c)' = "open"
    BY <1>0, <2>1 DEF ConnState
  <2>4. \A d \in Client \ {c} : ConnState(d)' = ConnState(d)
    BY <2>1 DEF ConnState
  <2>5. Conn' = [Conn EXCEPT ![c] = "open"]
    BY <2>2, <2>3, <2>4, OneMoves
  <2>6. Promise!Accept(c)
    BY <2>1, <2>2, <2>3, <2>5 DEF Promise!Accept, Promise!Moves, Conn
  <2> QED BY <2>2, <2>6 DEF Promise!Next
<1>4. CASE Exit
  <2>1. /\ main_pc = "join" /\ main_pc' = "exit" /\ open' \subseteq open
        /\ UNCHANGED <<arrived, waiting, said, answers>>
    BY <1>4 DEF Exit, clientVars
  <2> DEFINE gone == open \ open'
  <2>2. gone \in SUBSET {c \in Client : Conn[c] = "open"}
    BY <1>0 DEF Conn, ConnState
  <2>3. \A c \in Client :
          ConnState(c)' = IF c \in gone THEN "closed" ELSE Conn[c]
    BY <1>0, <2>1 DEF ConnState, Conn
  <2>4. Conn' = [c \in Client |-> IF c \in gone THEN "closed" ELSE Conn[c]]
    BY <2>3 DEF Conn
  <2>5. Promise!End
    BY <2>1, <2>2, <2>4 DEF Promise!End, Conn
  <2> QED BY <2>5 DEF Promise!Next
<1>5. ASSUME NEW t \in Thread, Send(t)
      PROVE  Promise!Next \/ UNCHANGED Promise!vars
  <2>1. /\ pc[t] = "send" /\ main_pc' = main_pc
        /\ UNCHANGED <<arrived, waiting, said, open>>
    BY <1>5 DEF Send, clientVars, mainVars
  <2>2. CASE client_fd[t] \in open \ Broken
    <3> DEFINE c == client_fd[t]
    <3>1. c \in Client /\ c \in open /\ c \notin waiting
      BY <1>0, <2>2
    <3>2. answers' = [answers EXCEPT ![c] = @ + 1]
      BY <1>5, <2>2 DEF Send
    <3>3. c \in said /\ answers[c] = 0 /\ main_pc # "exit"
      BY <2>1 DEF IInv, FlagInv, AnswerInv
    <3>4. Conn' = Conn /\ Conn[c] = "open"
      BY <2>1, <3>1 DEF Conn, ConnState
    <3>5. answers' = [answers EXCEPT ![c] = 1]
      BY <3>2, <3>3
    <3>6. Promise!Answer(c)
      BY <2>1, <3>3, <3>4, <3>5 DEF Promise!Answer, Conn
    <3> QED BY <3>1, <3>6 DEF Promise!Next
  <2>3. CASE client_fd[t] \notin open \ Broken
    BY <1>5, <2>1, <2>3, Unseen DEF Send
  <2> QED BY <2>2, <2>3
<1>6. ASSUME NEW t \in Thread, Close(t) PROVE Promise!Next
  <2>1. pc[t] = "close" /\ client_fd[t] \in open
    BY <1>6 DEF Close, IInv, FlagInv, ClientInv, HasClient, Running
  <2>2. PICK c \in Client : c = client_fd[t]
    BY <1>0, <2>1
  <2>3. /\ main_pc' = main_pc /\ open' = open \ {c}
        /\ UNCHANGED <<arrived, waiting, said, answers>>
    BY <1>6, <2>2 DEF Close, clientVars, mainVars
  <2>4. main_pc # "exit" /\ answers[c] = 1
    BY <2>1, <2>2 DEF IInv, FlagInv, AnswerInv
  <2>5. c \in open /\ c \in arrived /\ c \notin waiting
    BY <1>0, <2>1, <2>2
  <2>6. ConnState(c) = "open" /\ ConnState(c)' = "closed"
    BY <2>3, <2>5 DEF ConnState
  <2>7. \A d \in Client \ {c} : ConnState(d)' = ConnState(d)
    BY <2>3 DEF ConnState
  <2>8. Conn' = [Conn EXCEPT ![c] = "closed"]
    BY <2>6, <2>7, OneMoves
  <2>9. Promise!Close(c)
    BY <2>3, <2>4, <2>6, <2>8 DEF Promise!Close, Promise!Moves, Conn
  <2> QED BY <2>9 DEF Promise!Next
<1>7. CASE Main /\ ~Accept /\ ~Exit
  BY <1>7, Unseen DEF Main, Loop, LoopHead, Release, AcceptFails, Busy, Give,
     Raise, Count, Stop, clientVars
<1>8. ASSUME NEW t \in Thread, Pool(t), ~Send(t), ~Close(t)
      PROVE  UNCHANGED Promise!vars
  BY <1>8, Unseen DEF Pool, Check, Flag, Recv, Served, Lower, clientVars,
     mainVars
<1>9. CASE \/ ShutdownCheck \/ TypeS \/ TypeOther
           \/ SignalMain \/ SignalStop
           \/ UNCHANGED vars
  BY <1>9, Unseen DEF ShutdownCheck, TypeS, TypeOther, SignalMain, SignalStop,
     vars, clientVars, mainVars
<1> QED BY <1>1, <1>2, <1>3, <1>4, <1>5, <1>6, <1>7, <1>8, <1>9
   DEF Next, Promise!Next

\* The server with its pool of threads implements Service: every client is
\* answered once, after it has spoken, and only then, or by the exit, is its
\* connection closed.
THEOREM PoolImplementsService == Spec => IsService
<1>1. Init => Promise!Init
  BY DEF Init, Promise!Init, ConnState
<1>2. IInv /\ [Next]_vars => [Promise!Next]_(Promise!vars)
  BY ServiceStep
<1> QED BY <1>1, <1>2, Invariant, PTL DEF Spec, IsService, Promise!Spec
=============================================================================
