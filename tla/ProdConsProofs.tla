--------------------------- MODULE ProdConsProofs ---------------------------
(***************************************************************************)
(* Proofs about the producer-consumer server, for any number of threads,   *)
(* clients and places in the queue.                                        *)
(***************************************************************************)
EXTENDS ProdConsServer, FiniteSetTheorems, TLAPS

-----------------------------------------------------------------------------
(* Type correctness.                                                       *)

\* The descriptors are the numbers up to the number of clients.
LEMMA FdNumbers == Cardinality(Client) \in Nat /\ 0 \in Fd
BY ServerAssumption, FS_CardinalityType DEF Fd

\* The initial state is well typed.
LEMMA TypeInit == Init => TypeOK
<1> SUFFICES ASSUME Init PROVE TypeOK
  OBVIOUS
<1>1. /\ arrived \subseteq Client /\ said \subseteq arrived
      /\ backlog \in Seq(Client) /\ que \in Seq(Index) /\ Len(que) <= MAX_MSG
  BY ServerAssumption DEF Init
<1>2. /\ fd_conn \in [Fd -> Client \cup {Stdin, Free}]
      /\ answers \in [Client -> Nat]
      /\ clients_fd \in [Index -> Fd \cup {-1}]
      /\ owner \in [Index -> Client \cup {NoConn}] /\ overrun \in BOOLEAN
  BY FdNumbers DEF Init
<1>3. 0 \in Index /\ 0 \in 0 .. start_alloc_size - 2
  BY ServerAssumption DEF Index
<1> QED
  BY <1>1, <1>2, <1>3, FdNumbers DEF Init, TypeOK

\* Every step of main, the user, a thread and a client keeps the types.
LEMMA TypeStep == TypeOK /\ [Next]_vars => TypeOK'
<1> SUFFICES ASSUME TypeOK, [Next]_vars PROVE TypeOK'
  OBVIOUS
<1> USE ServerAssumption, FdNumbers
        DEF TypeOK, clientVars, mainVars, poolVars, histVars, Goto
<1>0. count \in Index
  BY DEF Index
<1>1. CASE Main
  <2>1. CASE LoopCheck
    BY <2>1 DEF LoopCheck
  <2>2. CASE SelectTimeout
    BY <2>2 DEF SelectTimeout
  <2>3. CASE Accept
    <3>1. Head(backlog) \in Client /\ Tail(backlog) \in Seq(Client)
      BY <2>3 DEF Accept
    <3>2. (overrun \/ InUse(count)) \in BOOLEAN
      OBVIOUS
    <3> QED
      BY <2>3, <3>1, <3>2 DEF Accept
  <2>4. CASE AcceptFails
    <3>1. clients_fd' \in [Index -> Fd \cup {-1}]
      BY <1>0, <2>4 DEF AcceptFails
    <3>2. main_pc' = "loop" /\ errors' \in Nat /\ overrun' \in BOOLEAN
      BY <2>4 DEF AcceptFails
    <3> QED
      BY <2>4, <3>1, <3>2 DEF AcceptFails
  <2>5. CASE Enqueue
    <3>1. que' \in Seq(Index) /\ Len(que') <= MAX_MSG
      <4>1. CASE Len(que) < MAX_MSG
        <5>1. que' = Append(que, count)
          BY <2>5, <4>1 DEF Enqueue
        <5>2. que' \in Seq(Index) /\ Len(que') = Len(que) + 1
          BY <1>0, <5>1
        <5> QED
          BY <4>1, <5>2
      <4>2. CASE ~(Len(que) < MAX_MSG)
        BY <2>5, <4>2 DEF Enqueue
      <4> QED
        BY <4>1, <4>2
    <3> QED
      BY <2>5, <3>1 DEF Enqueue
  <2>6. CASE Advance
    <3>1. count' \in 0 .. start_alloc_size - 2
      BY <2>6 DEF Advance, Wraps
    <3> QED
      BY <2>6, <3>1 DEF Advance
  <2>7. CASE Wake
    BY <2>7 DEF Wake
  <2>8. CASE Stop
    BY <2>8 DEF Stop
  <2>9. CASE Exit
    BY <2>9 DEF Exit
  <2> QED
    BY <1>1, <2>1, <2>2, <2>3, <2>4, <2>5, <2>6, <2>7, <2>8, <2>9 DEF Main
<1>2. CASE Input
  BY <1>2 DEF Input
<1>3. ASSUME NEW t \in Thread, Pool(t) PROVE TypeOK'
  <2>1. CASE Check(t)
    BY <2>1 DEF Check
  <2>2. CASE Take(t)
    <3>1. Head(que) \in Index /\ Tail(que) \in Seq(Index)
          /\ Len(Tail(que)) <= MAX_MSG
      BY <2>2 DEF Take
    <3> QED
      BY <2>2, <3>1 DEF Take
  <2>3. CASE TakeEmpty(t)
    BY <2>3 DEF TakeEmpty
  <2>4. CASE Fill(t)
    BY <2>4 DEF Fill
  <2>5. CASE Recv(t)
    BY <2>5 DEF Recv, ConnOf
  <2>6. CASE Received(t)
    BY <2>6 DEF Received
  <2>7. CASE Send(t)
    BY <2>7 DEF Send
  <2>8. CASE Close(t)
    BY <2>8 DEF Close
  <2>9. CASE Zero(t)
    BY <2>9 DEF Zero
  <2>10. CASE Clear(t)
    BY <2>10 DEF Clear, Index
  <2> QED
    BY <1>3, <2>1, <2>2, <2>3, <2>4, <2>5, <2>6, <2>7, <2>8, <2>9, <2>10
       DEF Pool
<1>4. ASSUME NEW c \in Client, Connect(c) \/ Say(c) PROVE TypeOK'
  <2>1. CASE Connect(c)
    <3>1. Append(backlog, c) \in Seq(Client)
      OBVIOUS
    <3> QED
      BY <2>1, <3>1 DEF Connect
  <2>2. CASE Say(c)
    BY <2>2 DEF Say
  <2> QED
    BY <1>4, <2>1, <2>2
<1>5. CASE UNCHANGED vars
  BY <1>5 DEF vars
<1> QED
  BY <1>1, <1>2, <1>3, <1>4, <1>5 DEF Next

\* The variables of the server keep their types
\* (server_consumer_producer_scheme.c:101-401).
THEOREM TypeCorrect == Spec => []TypeOK
<1>1. TypeOK /\ [Next]_vars => TypeOK'
  BY TypeStep
<1> QED
  BY <1>1, TypeInit, PTL DEF Spec

-----------------------------------------------------------------------------
(* The inductive invariant: what an entry of clients_fd stands for.        *)

\* The connection of entry i is open: between the accept() that filled it and
\* the close() by its thread (lines 201-346).
Live(i) == /\ clients_fd[i] \notin {0, -1}
           /\ \A t \in Thread : pc[t] = "zero" => cli_fd_no[t] # i

Holding(t) == pc[t] \in {"fill", "recv", "recving", "send", "close"}
Talking(t) == pc[t] \in {"recv", "recving", "send", "close"}

\* An open entry holds a descriptor of the client accepted into it ...
EntryInv ==
  main_pc # "exit" =>
    \A i \in Index : Live(i) => /\ owner[i] \in Client
                                /\ fd_conn[clients_fd[i]] = owner[i]

\* ... that no other open entry holds.
FdInv ==
  main_pc # "exit" =>
    \A i, j \in Index : Live(i) /\ Live(j) /\ i # j
                          => clients_fd[i] # clients_fd[j]

\* Queued indices and those of threads are of open entries, and a thread's
\* copy of the descriptor is the one in the array.
QueuedInv == \A k \in DOMAIN que : Live(que[k])
ThreadInv == \A t \in Thread :
               /\ Holding(t) => Live(cli_fd_no[t])
               /\ Talking(t) => client_fd[t] = clients_fd[cli_fd_no[t]]

\* The body of OneHolder.
HolderInv ==
  /\ \A s, t \in Thread : Using(s) /\ Using(t) /\ s # t
                            => cli_fd_no[s] # cli_fd_no[t]
  /\ \A k \in DOMAIN que, t \in Thread : Using(t) => que[k] # cli_fd_no[t]
  /\ \A k, l \in DOMAIN que : k # l => que[k] # que[l]

\* The index that main is about to queue is nobody's.
MainInv ==
  main_pc = "enqueue" =>
    /\ Live(count)
    /\ \A k \in DOMAIN que : que[k] # count
    /\ \A t \in Thread : Using(t) => cli_fd_no[t] # count

\* Every open descriptor but the standard input is in an open entry, until
\* the exit closes them; then no thread is left.
OpenInv ==
  /\ fd_conn[0] = Stdin
  /\ \A f \in Fd : f # 0 /\ fd_conn[f] # Free =>
       main_pc # "exit" /\ \E i \in Index : Live(i) /\ clients_fd[i] = f
ExitInv == main_pc = "exit" => \A t \in Thread : pc[t] = "done"

Sound == /\ EntryInv /\ FdInv /\ QueuedInv /\ ThreadInv /\ HolderInv
         /\ MainInv /\ OpenInv

IInv == TypeOK /\ ExitInv /\ (~overrun => Sound)

-----------------------------------------------------------------------------
(* The invariant holds initially and is kept.                              *)

\* Nothing is open when the server starts.
LEMMA IInvInit == Init => IInv
<1> SUFFICES ASSUME Init PROVE IInv
  OBVIOUS
<1>1. \A i \in Index : ~Live(i)
  BY DEF Init, Live
<1>2. \A t \in Thread : pc[t] = "check"
  BY DEF Init
<1>3. \A t \in Thread : ~Using(t) /\ ~Holding(t) /\ ~Talking(t)
  BY <1>2 DEF Using, Serving, Holding, Talking
<1>4. \A k : k \notin DOMAIN que
  BY DEF Init
<1>5. OpenInv
  BY FdNumbers DEF Init, OpenInv
<1> QED
  BY <1>1, <1>3, <1>4, <1>5, TypeInit
     DEF Init, IInv, ExitInv, Sound, EntryInv, FdInv, QueuedInv, ThreadInv,
         HolderInv, MainInv

\* Steps of main and the clients that touch no entry, index or thread.
LEMMA MainMoves ==
  ASSUME TypeOK, Sound,
         UNCHANGED <<fd_conn, clients_fd, que, pc, cli_fd_no, client_fd,
                     owner>>,
         main_pc' = "exit" <=> main_pc = "exit",
         main_pc' = "enqueue" => main_pc = "enqueue" /\ count' = count
  PROVE  Sound'
<1>1. \A i : Live(i)' <=> Live(i)
  BY DEF Live
<1>2. \A t \in Thread : Using(t)' <=> Using(t)
  BY DEF Using, Serving
<1>3. EntryInv' /\ FdInv'
  BY <1>1 DEF Sound, EntryInv, FdInv
<1>4. QueuedInv' /\ HolderInv' /\ MainInv'
  BY <1>1, <1>2 DEF Sound, QueuedInv, HolderInv, MainInv
<1>5. ThreadInv' /\ OpenInv'
  BY <1>1 DEF Sound, ThreadInv, Holding, Talking, OpenInv
<1> QED
  BY <1>3, <1>4, <1>5 DEF Sound

\* Steps of a thread that change only what it does next: between an idle pair
\* of labels, or within the conversation.
LEMMA PoolMoves ==
  ASSUME TypeOK, Sound, NEW t \in Thread, NEW l,
         UNCHANGED <<fd_conn, clients_fd, que, cli_fd_no, client_fd, owner,
                     main_pc, count>>,
         Goto(t, l),
         \/ pc[t] \in {"check", "take"} /\ l \in {"check", "take", "done"}
         \/ /\ pc[t] \in {"recv", "recving", "send"}
            /\ l \in {"recving", "send", "close"}
  PROVE  Sound'
<1> USE DEF Goto
<1>0. \A s \in Thread : s # t => pc'[s] = pc[s]
  BY DEF TypeOK
<1>1. pc'[t] = l
  BY DEF TypeOK
<1>2. \A i : Live(i)' <=> Live(i)
  BY <1>0, <1>1 DEF Live
<1>3. \A s \in Thread : Using(s)' <=> Using(s)
  BY <1>0, <1>1 DEF Using, Serving
<1>4. \A s \in Thread : Holding(s)' <=> Holding(s)
  BY <1>0, <1>1 DEF Holding
<1>5. \A s \in Thread : Talking(s)' <=> Talking(s)
  BY <1>0, <1>1 DEF Talking
<1>6. EntryInv' /\ FdInv'
  BY <1>2 DEF Sound, EntryInv, FdInv
<1>7. QueuedInv' /\ HolderInv' /\ MainInv'
  BY <1>2, <1>3 DEF Sound, QueuedInv, HolderInv, MainInv
<1>8. ThreadInv' /\ OpenInv'
  BY <1>2, <1>4, <1>5 DEF Sound, ThreadInv, OpenInv
<1> QED
  BY <1>6, <1>7, <1>8 DEF Sound

\* accept() fills a free entry with a free descriptor (line 201).
LEMMA AcceptSound ==
  ASSUME TypeOK, Sound, Accept, ~overrun'
  PROVE  Sound'
<1> USE DEF clientVars, poolVars
<1>1. PICK f \in Fd : /\ fd_conn[f] = Free
                      /\ fd_conn' = [fd_conn EXCEPT ![f] = Head(backlog)]
                      /\ clients_fd' = [clients_fd EXCEPT ![count] = f]
  BY DEF Accept, LowestFree
<1>2. count \in Index /\ Head(backlog) \in Client
  <2>1. backlog \in Seq(Client) /\ backlog # << >>
    BY DEF TypeOK, Accept
  <2>2. count \in Index
    BY ServerAssumption DEF TypeOK, Index
  <2> QED
    BY <2>1, <2>2
<1>3. f # 0 /\ f # -1 /\ Free \notin Client /\ Stdin \notin Client
  BY <1>1, ServerAssumption, FdNumbers
     DEF Sound, OpenInv, Fd, Free, Stdin
<1>4. /\ ~InUse(count)
      /\ main_pc = "select" /\ main_pc' = "enqueue"
      /\ UNCHANGED <<que, count, pc, cli_fd_no, client_fd>>
      /\ owner' = [owner EXCEPT ![count] = Head(backlog)]
  BY DEF Accept, TypeOK
<1>5. Live(count)' /\ ~Live(count)
  BY <1>1, <1>2, <1>3, <1>4 DEF Live, InUse, Using, Serving, TypeOK
<1>6. \A i \in Index : i # count => (Live(i)' <=> Live(i))
  BY <1>1, <1>2, <1>4 DEF Live, TypeOK
<1>7. \A i \in Index : i # count => clients_fd'[i] = clients_fd[i]
                                   /\ owner'[i] = owner[i]
  BY <1>1, <1>2, <1>4 DEF TypeOK
<1>8. clients_fd'[count] = f /\ owner'[count] = Head(backlog)
  BY <1>1, <1>2, <1>4 DEF TypeOK
<1>9. \A g \in Fd : fd_conn'[g] = IF g = f THEN Head(backlog) ELSE fd_conn[g]
  BY <1>1 DEF TypeOK
<1>10. \A i \in Index : Live(i) => /\ clients_fd[i] \in Fd /\ clients_fd[i] # f
                                   /\ owner[i] \in Client
                                   /\ fd_conn[clients_fd[i]] = owner[i]
  BY <1>1, <1>3, <1>4 DEF Sound, EntryInv, TypeOK, Live
<1>11. EntryInv'
  BY <1>2, <1>5, <1>6, <1>7, <1>8, <1>9, <1>10, <1>1 DEF EntryInv
<1>12. FdInv'
  BY <1>4, <1>5, <1>6, <1>7, <1>8, <1>10 DEF FdInv, Sound
<1>13. \A t \in Thread : /\ Using(t)' <=> Using(t)
                         /\ Holding(t)' <=> Holding(t)
                         /\ Talking(t)' <=> Talking(t)
  BY <1>4 DEF Using, Serving, Holding, Talking
<1>14. QueuedInv'
  BY <1>4, <1>6, <1>5 DEF QueuedInv, Sound, TypeOK
<1>15. ThreadInv'
  BY <1>4, <1>5, <1>6, <1>7, <1>13 DEF ThreadInv, Sound, TypeOK, Talking,
     Holding
<1>16. HolderInv'
  BY <1>4, <1>13 DEF HolderInv, Sound
<1>17. MainInv'
  BY <1>4, <1>5, <1>13 DEF MainInv, InUse
<1>18. OpenInv'
  <2>1. fd_conn'[0] = Stdin
    BY <1>3, <1>9, FdNumbers DEF Sound, OpenInv
  <2>2. ASSUME NEW g \in Fd, g # 0, fd_conn'[g] # Free
        PROVE  \E i \in Index : Live(i)' /\ clients_fd'[i] = g
    <3>1. CASE g = f
      <4>1. Live(count)' /\ clients_fd'[count] = g
        BY <3>1, <1>5, <1>8
      <4> QED
        BY <4>1, <1>2, <1>4
    <3>2. CASE g # f
      <4>1. PICK i \in Index : Live(i) /\ clients_fd[i] = g
        BY <2>2, <3>2, <1>9 DEF Sound, OpenInv
      <4> QED
        BY <4>1, <1>5, <1>6, <1>7
    <3> QED
      BY <3>1, <3>2
  <2> QED
    BY <2>1, <2>2, <1>4 DEF OpenInv
<1> QED
  BY <1>11, <1>12, <1>14, <1>15, <1>16, <1>17, <1>18 DEF Sound

\* A failing accept() leaves -1 in a free entry (lines 201-205).
LEMMA AcceptFailsSound ==
  ASSUME TypeOK, Sound, AcceptFails, ~overrun'
  PROVE  Sound'
<1> USE DEF clientVars, poolVars
<1>1. count \in Index
  BY ServerAssumption DEF TypeOK, Index
<1>2. /\ ~InUse(count)
      /\ main_pc = "select" /\ main_pc' = "loop"
      /\ clients_fd' = [clients_fd EXCEPT ![count] = -1]
      /\ UNCHANGED <<fd_conn, que, count, pc, cli_fd_no, client_fd, owner>>
  BY DEF AcceptFails, TypeOK
<1>3. ~Live(count)' /\ ~Live(count)
  BY <1>1, <1>2 DEF Live, InUse, TypeOK
<1>4. \A i \in Index : i # count => /\ Live(i)' <=> Live(i)
                                    /\ clients_fd'[i] = clients_fd[i]
  BY <1>1, <1>2 DEF Live, TypeOK
<1>5. \A t \in Thread : /\ Using(t)' <=> Using(t)
                        /\ Holding(t)' <=> Holding(t)
                        /\ Talking(t)' <=> Talking(t)
  BY <1>2 DEF Using, Serving, Holding, Talking
<1>6. EntryInv' /\ FdInv'
  BY <1>2, <1>3, <1>4 DEF Sound, EntryInv, FdInv
<1>7. QueuedInv'
  BY <1>2, <1>3, <1>4 DEF Sound, QueuedInv, TypeOK
<1>8. ThreadInv'
  BY <1>2, <1>3, <1>4, <1>5 DEF Sound, ThreadInv, TypeOK, Talking, Holding
<1>9. HolderInv' /\ MainInv'
  BY <1>2, <1>5 DEF Sound, HolderInv, MainInv
<1>10. OpenInv'
  BY <1>2, <1>3, <1>4 DEF Sound, OpenInv
<1> QED
  BY <1>6, <1>7, <1>8, <1>9, <1>10 DEF Sound

\* mq_send() appends nobody's index or drops it (line 211).
LEMMA EnqueueSound ==
  ASSUME TypeOK, Sound, Enqueue
  PROVE  Sound'
<1> USE DEF clientVars, poolVars, histVars
<1>1. /\ main_pc = "enqueue" /\ main_pc' = "advance"
      /\ UNCHANGED <<fd_conn, clients_fd, count, pc, cli_fd_no, client_fd,
                     owner>>
  BY DEF Enqueue
<1>2. \A i : Live(i)' <=> Live(i)
  BY <1>1 DEF Live
<1>3. \A t \in Thread : Using(t)' <=> Using(t)
  BY <1>1 DEF Using, Serving
<1>4. /\ Live(count)
      /\ \A k \in DOMAIN que : que[k] # count
      /\ \A t \in Thread : Using(t) => cli_fd_no[t] # count
  BY <1>1 DEF Sound, MainInv
<1>5. EntryInv' /\ FdInv'
  BY <1>1, <1>2 DEF Sound, EntryInv, FdInv
<1>6. ThreadInv' /\ OpenInv' /\ MainInv'
  BY <1>1, <1>2 DEF Sound, ThreadInv, Holding, Talking, OpenInv, MainInv
<1>7. QueuedInv' /\ HolderInv'
  <2>1. CASE que' = Append(que, count)
    <3>1. que \in Seq(Index) /\ count \in Index
      BY ServerAssumption DEF TypeOK, Index
    <3>2. \A k \in DOMAIN que' :
            \/ k \in DOMAIN que /\ que'[k] = que[k]
            \/ k = Len(que) + 1 /\ que'[k] = count
      <4>1. DOMAIN que = 1 .. Len(que) /\ DOMAIN que' = 1 .. Len(que) + 1
        BY <2>1, <3>1
      <4>2. \A k \in 1 .. Len(que) : que'[k] = que[k]
        BY <2>1, <3>1
      <4>3. que'[Len(que) + 1] = count /\ Len(que) \in Nat
        BY <2>1, <3>1
      <4>4. \A k \in 1 .. Len(que) + 1 :
              k \in 1 .. Len(que) \/ k = Len(que) + 1
        BY <4>3
      <4> QED
        BY <4>1, <4>2, <4>3, <4>4
    <3>3. QueuedInv'
      BY <1>2, <1>4, <3>2 DEF Sound, QueuedInv
    <3>4. \A k \in DOMAIN que', t \in Thread :
            Using(t)' => que'[k] # cli_fd_no'[t]
      BY <1>1, <1>3, <1>4, <3>2 DEF Sound, HolderInv
    <3>5. \A k, l \in DOMAIN que' : k # l => que'[k] # que'[l]
      BY <1>4, <3>2 DEF Sound, HolderInv
    <3> QED
      BY <1>1, <1>3, <3>3, <3>4, <3>5 DEF Sound, HolderInv
  <2>2. CASE que' = que
    BY <1>1, <1>2, <1>3, <2>2 DEF Sound, QueuedInv, HolderInv
  <2> QED
    BY <2>1, <2>2 DEF Enqueue
<1> QED
  BY <1>5, <1>6, <1>7 DEF Sound

\* All threads are over when the exit closes what the array still holds
\* (lines 232-269).
LEMMA ExitSound ==
  ASSUME TypeOK, Sound, Exit
  PROVE  Sound'
<1> USE DEF clientVars, poolVars, histVars
<1>1. /\ main_pc # "exit" /\ main_pc' = "exit"
      /\ fd_conn' = [f \in Fd |-> IF f \in LeftOver THEN Free ELSE fd_conn[f]]
      /\ UNCHANGED <<clients_fd, que, count, pc, cli_fd_no, client_fd, owner>>
  BY DEF Exit
<1>2. \A i : Live(i)' <=> Live(i)
  BY <1>1 DEF Live
<1>3. \A t \in Thread : Using(t)' <=> Using(t)
  BY <1>1 DEF Using, Serving
<1>4. EntryInv' /\ FdInv' /\ MainInv'
  BY <1>1 DEF EntryInv, FdInv, MainInv
<1>5. QueuedInv' /\ HolderInv' /\ ThreadInv'
  BY <1>1, <1>2, <1>3
     DEF Sound, QueuedInv, HolderInv, ThreadInv, Holding, Talking
<1>6. fd_conn'[0] = Stdin
  BY <1>1, FdNumbers DEF Sound, OpenInv, LeftOver
<1>7. ASSUME NEW f \in Fd, f # 0, fd_conn'[f] # Free PROVE FALSE
  <2>1. f \notin LeftOver /\ fd_conn[f] # Free
    BY <1>1, <1>7
  <2>2. \E i \in Index : clients_fd[i] = f
    BY <2>1, <1>7 DEF Sound, OpenInv
  <2> QED
    BY <2>1, <2>2, <1>7 DEF LeftOver
<1> QED
  BY <1>4, <1>5, <1>6, <1>7 DEF Sound, OpenInv

\* mq_receive() moves an index from the queue to one thread (lines 302-317).
LEMMA TakeSound ==
  ASSUME TypeOK, Sound, NEW t \in Thread, Take(t)
  PROVE  Sound'
<1> USE DEF clientVars, mainVars, histVars, Goto
<1>1. /\ pc[t] = "take" /\ que # << >>
      /\ que' = Tail(que)
      /\ cli_fd_no' = [cli_fd_no EXCEPT ![t] = Head(que)]
      /\ pc' = [pc EXCEPT ![t] = "fill"]
      /\ UNCHANGED <<fd_conn, clients_fd, client_fd, owner, main_pc, count>>
  BY DEF Take
<1>2. /\ pc'[t] = "fill" /\ cli_fd_no'[t] = Head(que)
      /\ \A s \in Thread : s # t => /\ pc'[s] = pc[s]
                                    /\ cli_fd_no'[s] = cli_fd_no[s]
  BY <1>1 DEF TypeOK
<1>3. /\ 1 \in DOMAIN que /\ que[1] = Head(que)
      /\ \A k \in DOMAIN que' : /\ k \in Nat /\ k + 1 # 1
                                /\ k + 1 \in DOMAIN que /\ que'[k] = que[k + 1]
  <2>1. que \in Seq(Index) /\ Len(que) \in Nat \ {0}
    BY <1>1 DEF TypeOK
  <2>2. DOMAIN que = 1 .. Len(que) /\ DOMAIN que' = 1 .. Len(que) - 1
    BY <1>1, <2>1
  <2>3. \A k \in 1 .. Len(que) - 1 : que'[k] = que[k + 1]
    BY <1>1, <2>1
  <2> QED
    BY <2>1, <2>2, <2>3
<1>4. \A i : Live(i)' <=> Live(i)
  BY <1>1, <1>2 DEF Live
<1>5. \A s \in Thread : s # t => /\ Using(s)' <=> Using(s)
                                 /\ Holding(s)' <=> Holding(s)
                                 /\ Talking(s)' <=> Talking(s)
  BY <1>2 DEF Using, Serving, Holding, Talking
<1>6. EntryInv' /\ FdInv' /\ OpenInv'
  BY <1>1, <1>4 DEF Sound, EntryInv, FdInv, OpenInv
<1>7. QueuedInv'
  BY <1>3, <1>4 DEF Sound, QueuedInv
<1>8. ThreadInv'
  <2>1. Live(cli_fd_no[t])' /\ ~Talking(t)'
    BY <1>2, <1>3, <1>4 DEF Sound, QueuedInv, Talking
  <2> QED
    BY <1>1, <1>2, <1>4, <1>5, <2>1 DEF Sound, ThreadInv
<1>9. HolderInv'
  <2>1. ASSUME NEW r \in Thread, NEW s \in Thread, Using(r)', Using(s)', r # s
        PROVE  cli_fd_no'[r] # cli_fd_no'[s]
    BY <1>2, <1>3, <1>5, <2>1 DEF Sound, HolderInv
  <2>2. ASSUME NEW k \in DOMAIN que', NEW s \in Thread, Using(s)'
        PROVE  que'[k] # cli_fd_no'[s]
    <3>1. CASE s = t
      BY <1>2, <1>3, <3>1 DEF Sound, HolderInv
    <3>2. CASE s # t
      BY <1>2, <1>3, <1>5, <2>2, <3>2 DEF Sound, HolderInv
    <3> QED
      BY <3>1, <3>2
  <2>3. ASSUME NEW k \in DOMAIN que', NEW l \in DOMAIN que', k # l
        PROVE  que'[k] # que'[l]
    <3>1. k + 1 # l + 1
      BY <1>3, <2>3
    <3> QED
      BY <1>3, <3>1 DEF Sound, HolderInv
  <2> QED
    BY <2>1, <2>2, <2>3 DEF HolderInv
<1>10. MainInv'
  BY <1>1, <1>2, <1>3, <1>4, <1>5 DEF Sound, MainInv
<1> QED
  BY <1>6, <1>7, <1>8, <1>9, <1>10 DEF Sound

\* The thread copies the descriptor of its open entry (line 321).
LEMMA FillSound ==
  ASSUME TypeOK, Sound, NEW t \in Thread, Fill(t)
  PROVE  Sound'
<1> USE DEF clientVars, mainVars, histVars, Goto
<1>1. /\ pc[t] = "fill" /\ pc' = [pc EXCEPT ![t] = "recv"]
      /\ client_fd' = [client_fd EXCEPT ![t] = clients_fd[cli_fd_no[t]]]
      /\ UNCHANGED <<fd_conn, clients_fd, que, cli_fd_no, owner, main_pc,
                     count>>
  BY DEF Fill
<1>2. /\ pc'[t] = "recv" /\ client_fd'[t] = clients_fd[cli_fd_no[t]]
      /\ \A s \in Thread : s # t => /\ pc'[s] = pc[s]
                                    /\ client_fd'[s] = client_fd[s]
  BY <1>1 DEF TypeOK
<1>3. \A i : Live(i)' <=> Live(i)
  BY <1>1, <1>2 DEF Live
<1>4. \A s \in Thread : /\ Using(s)' <=> Using(s)
                        /\ Holding(s)' <=> Holding(s)
                        /\ s # t => (Talking(s)' <=> Talking(s))
  BY <1>1, <1>2 DEF Using, Serving, Holding, Talking
<1>5. EntryInv' /\ FdInv' /\ OpenInv'
  BY <1>1, <1>3 DEF Sound, EntryInv, FdInv, OpenInv
<1>6. QueuedInv' /\ HolderInv' /\ MainInv'
  BY <1>1, <1>3, <1>4 DEF Sound, QueuedInv, HolderInv, MainInv
<1>7. ThreadInv'
  BY <1>1, <1>2, <1>3, <1>4 DEF Sound, ThreadInv
<1> QED
  BY <1>5, <1>6, <1>7 DEF Sound

\* The thread closes the descriptor of its own entry only (line 346).
LEMMA CloseSound ==
  ASSUME TypeOK, ExitInv, Sound, NEW t \in Thread, Close(t)
  PROVE  Sound'
<1> USE DEF clientVars, mainVars, histVars, Goto
<1> DEFINE n == cli_fd_no[t]
<1>1. /\ pc[t] = "close" /\ pc' = [pc EXCEPT ![t] = "zero"]
      /\ fd_conn' = [f \in Fd |-> IF f = clients_fd[n] THEN Free
                                                       ELSE fd_conn[f]]
      /\ UNCHANGED <<clients_fd, que, cli_fd_no, client_fd, owner, main_pc,
                     count>>
  BY DEF Close
<1>2. /\ pc'[t] = "zero" /\ n \in Index
      /\ \A s \in Thread : s # t => pc'[s] = pc[s]
  BY <1>1 DEF TypeOK
<1>3. main_pc # "exit"
  BY <1>1 DEF ExitInv
<1>4. Live(n) /\ (\A i : i = n => ~Live(i)')
  BY <1>1, <1>2 DEF Sound, ThreadInv, Holding, Live
<1>5. \A i : i # n => (Live(i)' <=> Live(i))
  BY <1>1, <1>2 DEF Live
<1>6. \A s \in Thread : Using(s)' <=> Using(s)
  BY <1>1, <1>2 DEF Using, Serving
<1>7. \A s \in Thread : s # t => /\ Holding(s)' <=> Holding(s)
                                 /\ Talking(s)' <=> Talking(s)
  BY <1>2 DEF Holding, Talking
<1>8. ~Holding(t)' /\ ~Talking(t)' /\ Using(t)
  BY <1>1, <1>2 DEF Holding, Talking, Using, Serving
<1>9. EntryInv'
  <2>1. ASSUME NEW i \in Index, Live(i)'
        PROVE  owner'[i] \in Client /\ fd_conn'[clients_fd'[i]] = owner'[i]
    <3>1. i # n /\ Live(i)
      BY <1>4, <1>5, <2>1
    <3>2. clients_fd[i] # clients_fd[n] /\ clients_fd[i] \in Fd
      BY <1>2, <1>3, <1>4, <3>1 DEF Sound, FdInv, Live, TypeOK
    <3> QED
      BY <1>1, <1>3, <3>1, <3>2 DEF Sound, EntryInv
  <2> QED
    BY <2>1 DEF EntryInv
<1>10. FdInv'
  BY <1>1, <1>4, <1>5 DEF Sound, FdInv
<1>11. QueuedInv'
  BY <1>1, <1>5, <1>8 DEF Sound, QueuedInv, HolderInv
<1>12. ThreadInv'
  <2>1. ASSUME NEW s \in Thread, Holding(s)'
        PROVE  s # t /\ Holding(s) /\ Live(cli_fd_no[s])'
    <3>1. s # t /\ Holding(s) /\ Using(s)
      BY <1>7, <1>8, <2>1 DEF Holding, Using, Serving
    <3>2. cli_fd_no[s] # n
      BY <1>8, <3>1 DEF Sound, HolderInv
    <3>3. Live(cli_fd_no[s])
      BY <3>1 DEF Sound, ThreadInv
    <3> QED
      BY <1>1, <1>5, <3>1, <3>2, <3>3
  <2> QED
    BY <1>1, <1>7, <1>8, <2>1 DEF Sound, ThreadInv
<1>13. HolderInv'
  BY <1>1, <1>6 DEF Sound, HolderInv
<1>14. MainInv'
  BY <1>1, <1>5, <1>6, <1>8 DEF Sound, MainInv
<1>15. OpenInv'
  <2>1. fd_conn'[0] = Stdin
    BY <1>1, <1>4, FdNumbers DEF Sound, OpenInv, Live
  <2>2. ASSUME NEW f \in Fd, f # 0, fd_conn'[f] # Free
        PROVE  \E i \in Index : Live(i)' /\ clients_fd'[i] = f
    <3>1. f # clients_fd[n] /\ fd_conn[f] # Free
      BY <1>1, <2>2
    <3>2. PICK i \in Index : Live(i) /\ clients_fd[i] = f
      BY <2>2, <3>1 DEF Sound, OpenInv
    <3> QED
      BY <1>1, <1>5, <3>1, <3>2
  <2> QED
    BY <1>1, <1>3, <2>1, <2>2 DEF OpenInv
<1> QED
  BY <1>9, <1>10, <1>11, <1>12, <1>13, <1>14, <1>15 DEF Sound

\* Once closed, the entry is zeroed (line 347).
LEMMA ZeroSound ==
  ASSUME TypeOK, Sound, NEW t \in Thread, Zero(t)
  PROVE  Sound'
<1> USE DEF clientVars, mainVars, histVars, Goto
<1> DEFINE n == cli_fd_no[t]
<1>1. /\ pc[t] = "zero" /\ pc' = [pc EXCEPT ![t] = "clear"]
      /\ clients_fd' = [clients_fd EXCEPT ![n] = 0]
      /\ UNCHANGED <<fd_conn, que, cli_fd_no, client_fd, owner, main_pc,
                     count>>
  BY DEF Zero
<1>2. /\ pc'[t] = "clear" /\ n \in Index /\ clients_fd'[n] = 0
      /\ \A s \in Thread : s # t => pc'[s] = pc[s]
      /\ \A i \in Index : i # n => clients_fd'[i] = clients_fd[i]
  BY <1>1 DEF TypeOK
<1>3. \A i \in Index : i = n => ~Live(i) /\ ~Live(i)'
  BY <1>1, <1>2 DEF Live
<1>4. \A i \in Index : i # n => (Live(i)' <=> Live(i))
  BY <1>1, <1>2 DEF Live
<1>5. \A s \in Thread :
        s # t => /\ Using(s)' <=> Using(s)
                 /\ Holding(s)' <=> Holding(s)
                 /\ Talking(s)' <=> Talking(s)
  BY <1>2 DEF Using, Serving, Holding, Talking
<1>6. ~Using(t)' /\ ~Holding(t)' /\ ~Talking(t)'
  BY <1>2 DEF Using, Serving, Holding, Talking
<1>7. EntryInv' /\ FdInv' /\ OpenInv'
  BY <1>1, <1>2, <1>3, <1>4 DEF Sound, EntryInv, FdInv, OpenInv
<1>8. QueuedInv'
  <2>1. \A k \in DOMAIN que : que[k] \in Index
    BY DEF TypeOK
  <2> QED
    BY <1>1, <1>3, <1>4, <2>1 DEF Sound, QueuedInv
<1>9. ThreadInv'
  <2>1. ASSUME NEW s \in Thread, Holding(s)'
        PROVE  /\ s # t /\ cli_fd_no[s] \in Index
               /\ cli_fd_no[s] # n /\ Live(cli_fd_no[s])'
    <3>1. s # t /\ Holding(s) /\ cli_fd_no[s] \in Index
      BY <1>5, <1>6, <2>1 DEF TypeOK
    <3>2. Live(cli_fd_no[s])
      BY <3>1 DEF Sound, ThreadInv
    <3> QED
      BY <1>1, <1>3, <1>4, <3>1, <3>2
  <2>2. ASSUME NEW s \in Thread, Talking(s)'
        PROVE  client_fd'[s] = clients_fd'[cli_fd_no'[s]]
    <3>1. Holding(s)' /\ s # t
      BY <1>6, <2>2 DEF Holding, Talking
    <3> QED
      BY <1>1, <1>2, <1>5, <2>1, <2>2, <3>1 DEF Sound, ThreadInv
  <2> QED
    BY <2>1, <2>2 DEF ThreadInv
<1>10. HolderInv'
  BY <1>1, <1>5, <1>6 DEF Sound, HolderInv
<1>11. MainInv'
  <2>1. count \in Index
    BY ServerAssumption DEF TypeOK, Index
  <2> QED
    BY <1>1, <1>3, <1>4, <1>5, <1>6, <2>1 DEF Sound, MainInv
<1> QED
  BY <1>7, <1>8, <1>9, <1>10, <1>11 DEF Sound

\* A thread that has let go of its entry forgets the number (lines 350-359).
LEMMA ClearSound ==
  ASSUME TypeOK, Sound, NEW t \in Thread, Clear(t)
  PROVE  Sound'
<1> USE DEF clientVars, mainVars, histVars, Goto
<1>1. /\ pc[t] = "clear" /\ pc' = [pc EXCEPT ![t] = "check"]
      /\ client_fd' = [client_fd EXCEPT ![t] = 0]
      /\ cli_fd_no' = [cli_fd_no EXCEPT ![t] = 0]
      /\ UNCHANGED <<fd_conn, clients_fd, que, owner, main_pc, count>>
  BY DEF Clear
<1>2. /\ pc'[t] = "check"
      /\ \A s \in Thread : s # t => /\ pc'[s] = pc[s]
                                    /\ client_fd'[s] = client_fd[s]
                                    /\ cli_fd_no'[s] = cli_fd_no[s]
  BY <1>1 DEF TypeOK
<1>3. \A i : Live(i)' <=> Live(i)
  BY <1>1, <1>2 DEF Live
<1>4. \A s \in Thread :
        s # t => /\ Using(s)' <=> Using(s)
                 /\ Holding(s)' <=> Holding(s)
                 /\ Talking(s)' <=> Talking(s)
  BY <1>2 DEF Using, Serving, Holding, Talking
<1>5. ~Using(t)' /\ ~Holding(t)' /\ ~Talking(t)'
  BY <1>2 DEF Using, Serving, Holding, Talking
<1>6. EntryInv' /\ FdInv' /\ OpenInv'
  BY <1>1, <1>3 DEF Sound, EntryInv, FdInv, OpenInv
<1>7. QueuedInv' /\ HolderInv' /\ MainInv'
  BY <1>1, <1>2, <1>3, <1>4, <1>5
     DEF Sound, QueuedInv, HolderInv, MainInv
<1>8. ThreadInv'
  BY <1>1, <1>2, <1>3, <1>4, <1>5 DEF Sound, ThreadInv
<1> QED
  BY <1>6, <1>7, <1>8 DEF Sound

\* main leaves its loop for good, and no thread runs after the joins.
LEMMA ExitStep == TypeOK /\ ExitInv /\ [Next]_vars => ExitInv'
<1> SUFFICES ASSUME TypeOK, ExitInv, [Next]_vars PROVE ExitInv'
  OBVIOUS
<1> USE DEF TypeOK, ExitInv, clientVars, mainVars, poolVars, histVars, Goto
<1>1. CASE Main
  BY <1>1 DEF Main, LoopCheck, SelectTimeout, Accept, AcceptFails, Enqueue,
              Advance, Wake, Stop, Exit
<1>2. CASE Input
  BY <1>2 DEF Input
<1>3. ASSUME NEW t \in Thread, Pool(t) PROVE ExitInv'
  BY <1>3 DEF Pool, Check, Take, TakeEmpty, Fill, Recv, Received, Send, Close,
              Zero, Clear
<1>4. ASSUME NEW c \in Client, Connect(c) \/ Say(c) PROVE ExitInv'
  BY <1>4 DEF Connect, Say
<1>5. CASE UNCHANGED vars
  BY <1>5 DEF vars
<1> QED
  BY <1>1, <1>2, <1>3, <1>4, <1>5 DEF Next

\* Every step that overwrites nothing in use keeps the entries sound.
LEMMA SoundStep ==
  ASSUME TypeOK, ExitInv, Sound, [Next]_vars, ~overrun'
  PROVE  Sound'
<1> USE DEF clientVars, mainVars, poolVars, histVars
<1>1. CASE Main
  <2>1. CASE LoopCheck \/ SelectTimeout \/ Wake \/ Stop
    BY <2>1, MainMoves DEF LoopCheck, SelectTimeout, Wake, Stop
  <2>2. CASE Advance
    BY <2>2, MainMoves DEF Advance
  <2> QED
    BY <1>1, <2>1, <2>2, AcceptSound, AcceptFailsSound, EnqueueSound,
       ExitSound DEF Main
<1>2. CASE Input
  BY <1>2, MainMoves DEF Input
<1>3. ASSUME NEW t \in Thread, Pool(t) PROVE Sound'
  <2>1. CASE Check(t)
    BY <2>1, PoolMoves DEF Check
  <2>2. CASE TakeEmpty(t)
    BY <2>2, PoolMoves DEF TakeEmpty
  <2>3. CASE Recv(t)
    BY <2>3, PoolMoves DEF Recv
  <2>4. CASE Received(t)
    BY <2>4, PoolMoves DEF Received
  <2>5. CASE Send(t)
    BY <2>5, PoolMoves DEF Send
  <2> QED
    BY <1>3, <2>1, <2>2, <2>3, <2>4, <2>5, TakeSound, FillSound, CloseSound,
       ZeroSound, ClearSound DEF Pool
<1>4. ASSUME NEW c \in Client, Connect(c) \/ Say(c) PROVE Sound'
  BY <1>4, MainMoves DEF Connect, Say
<1>5. CASE UNCHANGED vars
  BY <1>5, MainMoves DEF vars
<1> QED
  BY <1>1, <1>2, <1>3, <1>4, <1>5 DEF Next

\* An overrun is never forgotten.
LEMMA OverrunStep == [Next]_vars /\ ~overrun' => ~overrun
<1> USE DEF clientVars, mainVars, poolVars, histVars
<1>1. Main /\ ~overrun' => ~overrun
  BY DEF Main, LoopCheck, SelectTimeout, Accept, AcceptFails, Enqueue,
         Advance, Wake, Stop, Exit
<1>2. ASSUME NEW t \in Thread, Pool(t) PROVE overrun' = overrun
  BY <1>2 DEF Pool, Check, Take, TakeEmpty, Fill, Recv, Received, Send, Close,
              Zero, Clear
<1>3. Input \/ (\E c \in Client : Connect(c) \/ Say(c)) \/ UNCHANGED vars
      => overrun' = overrun
  BY DEF Input, Connect, Say, vars
<1> QED
  BY <1>1, <1>2, <1>3 DEF Next

\* The invariant is inductive.
LEMMA IInvStep == IInv /\ [Next]_vars => IInv'
BY TypeStep, ExitStep, SoundStep, OverrunStep DEF IInv

\* What IInv says holds in every reachable state.
LEMMA IInvAlways == Spec => []IInv
BY IInvInit, IInvStep, PTL DEF Spec

-----------------------------------------------------------------------------
(* What follows.                                                           *)

\* A thread's descriptor is of the client accepted into its entry.
LEMMA RightByEntry == IInv => RightClient
<1> SUFFICES ASSUME IInv, ~overrun, NEW t \in Thread, Talking(t)
             PROVE  /\ clients_fd[cli_fd_no[t]] = client_fd[t]
                    /\ owner[cli_fd_no[t]] \in Client
                    /\ ConnOf(client_fd[t]) = owner[cli_fd_no[t]]
  BY DEF RightClient, Talking
<1> DEFINE n == cli_fd_no[t]
<1>1. n \in Index /\ main_pc # "exit" /\ Holding(t)
  BY DEF IInv, TypeOK, ExitInv, Talking, Holding
<1>2. clients_fd[n] = client_fd[t] /\ Live(n)
  BY <1>1 DEF IInv, Sound, ThreadInv
<1>3. owner[n] \in Client /\ fd_conn[client_fd[t]] = owner[n]
  BY <1>1, <1>2 DEF IInv, Sound, EntryInv
<1>4. client_fd[t] \in Fd
  BY <1>1, <1>2 DEF IInv, TypeOK, Live
<1> QED
  BY <1>2, <1>3, <1>4 DEF ConnOf

\* Until an entry is reused while in use, a thread reads from, answers and
\* closes the connection that was accepted into its entry (lines 321-346).
THEOREM ServesTheRightClient == Spec => []RightClient
BY RightByEntry, IInvAlways, PTL

\* Until then an index is in one place only (lines 211, 302).
THEOREM OneHolderOnly == Spec => []OneHolder
<1>1. IInv => OneHolder
  BY DEF IInv, Sound, HolderInv, OneHolder
<1> QED
  BY <1>1, IInvAlways, PTL

\* A server that ends without an overrun has closed every connection and not
\* its standard input (lines 264-269, 346).
THEOREM ClosesEverything == Spec => []AllClosedAtExit
<1>1. IInv => AllClosedAtExit
  BY DEF IInv, Sound, OpenInv, AllClosedAtExit
<1> QED
  BY <1>1, IInvAlways, PTL

\* Until then a queued index finds a free thread: were every thread at work,
\* their entries would be as many as the array has, all different, and none
\* would be left for the queue.
THEOREM SpareThreadAlways == Spec => []SpareThread
<1>1. IInv => SpareThread
  <2> SUFFICES ASSUME IInv, ~overrun, que # << >>,
                      \A t \in Thread : Using(t)
               PROVE  FALSE
    BY DEF SpareThread
  <2> DEFINE h    == Head(que)
             Rest == Index \ {h}
  <2>1. que \in Seq(Index) /\ 1 \in DOMAIN que /\ h = que[1] /\ h \in Index
    BY DEF IInv, TypeOK
  <2>2. \A s, t \in Thread : s # t => cli_fd_no[s] # cli_fd_no[t]
    BY DEF IInv, Sound, HolderInv
  <2>3. cli_fd_no \in [Thread -> Rest]
    BY <2>1 DEF IInv, TypeOK, Sound, HolderInv
  <2>4. /\ IsFiniteSet(Thread) /\ IsFiniteSet(Index)
        /\ Cardinality(Thread) = start_alloc_size
        /\ Cardinality(Index) = start_alloc_size
    <3>1. /\ start_alloc_size \in Nat /\ 0 \in Int
          /\ start_alloc_size - 1 \in Int /\ ~(0 > start_alloc_size - 1)
          /\ start_alloc_size - 1 - 0 + 1 = start_alloc_size
      BY ServerAssumption
    <3> QED
      BY <3>1, FS_Interval DEF Thread, Index
  <2>5. /\ IsFiniteSet(Rest)
        /\ Cardinality(Rest) = Cardinality(Index) - 1
    BY <2>1, <2>4, FS_RemoveElement
  <2>6. Cardinality(Rest) < Cardinality(Thread)
    BY <2>4, <2>5, ServerAssumption
  <2> HIDE DEF Rest
  <2>7. \E s, t \in Thread : s # t /\ cli_fd_no[s] = cli_fd_no[t]
    BY <2>3, <2>4, <2>5, <2>6, FS_PigeonHole
  <2> QED
    BY <2>2, <2>7
<1> QED
  BY <1>1, IInvAlways, PTL
-----------------------------------------------------------------------------
(* No client is answered twice.                                            *)

\* A client is in the backlog at most once, then behind one descriptor at
\* most, and is answered only after that.
Waits(c) == \E k \in DOMAIN backlog : backlog[k] = c
FreshInv ==
  /\ \A k \in DOMAIN backlog : backlog[k] \in arrived
  /\ \A k, l \in DOMAIN backlog : k # l => backlog[k] # backlog[l]
  /\ \A f \in Fd : fd_conn[f] \in Client =>
                     fd_conn[f] \in arrived /\ ~Waits(fd_conn[f])
  /\ \A f, g \in Fd : fd_conn[f] \in Client /\ f # g
                        => fd_conn[f] # fd_conn[g]
  /\ \A c \in Client : answers[c] > 0 => c \in arrived /\ ~Waits(c)

\* One who was answered and is still connected is about to be closed.
OnceInv ==
  \A c \in Client :
    /\ answers[c] <= 1
    /\ \A f \in Fd : answers[c] > 0 /\ fd_conn[f] = c =>
         \E t \in Thread : pc[t] = "close" /\ client_fd[t] = f

\* Steps that accept, answer and close nobody.
LEMMA FreshQuiet ==
  ASSUME FreshInv, UNCHANGED <<arrived, backlog, answers>>,
         \A f \in Fd : fd_conn'[f] \in Client => fd_conn'[f] = fd_conn[f]
  PROVE  FreshInv'
<1> USE DEF FreshInv, Waits
<1>1. /\ \A k \in DOMAIN backlog : backlog[k] \in arrived
      /\ \A k, l \in DOMAIN backlog : k # l => backlog[k] # backlog[l]
      /\ \A c \in Client : answers[c] > 0 => c \in arrived /\ ~Waits(c)
  OBVIOUS
<1>2. \A f \in Fd : fd_conn'[f] \in Client =>
                      fd_conn'[f] \in arrived /\ ~Waits(fd_conn'[f])
  OBVIOUS
<1>3. \A f, g \in Fd : fd_conn'[f] \in Client /\ f # g
                         => fd_conn'[f] # fd_conn'[g]
  OBVIOUS
<1> QED
  BY <1>1, <1>2, <1>3

\* A client connects once, and accept() takes it from the backlog (line 201).
LEMMA FreshStep == TypeOK /\ FreshInv /\ [Next]_vars => FreshInv'
<1> SUFFICES ASSUME TypeOK, FreshInv, [Next]_vars PROVE FreshInv'
  OBVIOUS
<1> USE DEF clientVars, mainVars, poolVars, histVars
<1>1. ASSUME NEW c \in Client, Connect(c) PROVE FreshInv'
  <2>1. /\ c \notin arrived /\ arrived' = arrived \cup {c}
        /\ backlog' = Append(backlog, c) /\ backlog \in Seq(Client)
        /\ UNCHANGED <<fd_conn, answers>>
    BY <1>1 DEF Connect, TypeOK
  <2>2. /\ DOMAIN backlog = 1 .. Len(backlog) /\ Len(backlog) \in Nat
        /\ DOMAIN backlog' = 1 .. Len(backlog) + 1
        /\ \A k \in DOMAIN backlog : backlog'[k] = backlog[k]
        /\ backlog'[Len(backlog) + 1] = c
    BY <2>1
  <2>3. \A k \in DOMAIN backlog' : k \in DOMAIN backlog \/ k = Len(backlog) + 1
    BY <2>2
  <2>4. \A k \in DOMAIN backlog : backlog[k] \in arrived /\ backlog[k] # c
    BY <2>1 DEF FreshInv
  <2>5. \A d \in arrived : ~Waits(d) => ~Waits(d)'
    BY <2>1, <2>2, <2>3 DEF Waits
  <2>6. \A k \in DOMAIN backlog' : backlog'[k] \in arrived'
    BY <2>1, <2>2, <2>3, <2>4
  <2>7. \A k, l \in DOMAIN backlog' : k # l => backlog'[k] # backlog'[l]
    BY <2>2, <2>3, <2>4 DEF FreshInv
  <2> QED
    BY <2>1, <2>5, <2>6, <2>7 DEF FreshInv
<1>2. CASE Accept
  <2>1. PICK f \in Fd : fd_conn' = [fd_conn EXCEPT ![f] = Head(backlog)]
    BY <1>2 DEF Accept
  <2>2. /\ backlog # << >> /\ backlog' = Tail(backlog)
        /\ backlog \in Seq(Client)
        /\ fd_conn \in [Fd -> Client \cup {Stdin, Free}]
        /\ UNCHANGED <<arrived, answers>>
    BY <1>2 DEF Accept, TypeOK
  <2>3. /\ DOMAIN backlog = 1 .. Len(backlog) /\ Len(backlog) \in Nat \ {0}
        /\ DOMAIN backlog' = 1 .. Len(backlog) - 1
        /\ \A k \in DOMAIN backlog' : backlog'[k] = backlog[k + 1]
        /\ Head(backlog) = backlog[1]
    BY <2>2
  <2>4. \A k \in DOMAIN backlog' : k + 1 \in DOMAIN backlog /\ k + 1 # 1
    BY <2>3
  <2>5. 1 \in DOMAIN backlog
    BY <2>3
  <2>0. PICK h : h = backlog[1]
    OBVIOUS
  <2>6. h \in arrived /\ Waits(h) /\ ~Waits(h)'
    <3>1. h \in arrived /\ Waits(h)
      BY <2>0, <2>5 DEF FreshInv, Waits
    <3>2. \A k \in DOMAIN backlog' : backlog'[k] # h
      BY <2>0, <2>3, <2>4, <2>5 DEF FreshInv
    <3> QED
      BY <3>1, <3>2 DEF Waits
  <2>7. \A c : ~Waits(c) => ~Waits(c)'
    BY <2>3, <2>4 DEF Waits
  <2>8. \A g \in Fd : fd_conn'[g] = IF g = f THEN h ELSE fd_conn[g]
    BY <2>0, <2>1, <2>2, <2>3
  <2>9. \A k \in DOMAIN backlog' : backlog'[k] \in arrived
    BY <2>3, <2>4 DEF FreshInv
  <2>10. \A k, l \in DOMAIN backlog' : k # l => backlog'[k] # backlog'[l]
    <3>1. \A k, l \in DOMAIN backlog' : k # l => k + 1 # l + 1
      BY <2>3
    <3> QED
      BY <2>3, <2>4, <3>1 DEF FreshInv
  <2>11. ASSUME NEW g \in Fd, fd_conn'[g] \in Client
         PROVE  fd_conn'[g] \in arrived /\ ~Waits(fd_conn[g])'
    <3>1. CASE g = f
      <4>1. fd_conn'[g] = h
        BY <2>8, <3>1
      <4>2. \A k \in DOMAIN backlog' : backlog'[k] # h
        BY <2>6 DEF Waits
      <4> QED
        BY <2>6, <4>1, <4>2 DEF Waits
    <3>2. CASE g # f
      <4>1. fd_conn'[g] = fd_conn[g] /\ fd_conn[g] \in Client
        BY <2>8, <2>11, <3>2
      <4>2. fd_conn[g] \in arrived /\ ~Waits(fd_conn[g])
        BY <4>1 DEF FreshInv
      <4>3. \A k \in DOMAIN backlog' : backlog'[k] # fd_conn[g]
        BY <2>7, <4>2 DEF Waits
      <4> QED
        BY <4>1, <4>2, <4>3 DEF Waits
    <3> QED
      BY <3>1, <3>2
  <2>12. \A g \in Fd : fd_conn[g] \in Client => fd_conn[g] # h
    BY <2>6 DEF FreshInv
  <2>13. \A g, i \in Fd : fd_conn'[g] \in Client /\ g # i
                            => fd_conn'[g] # fd_conn'[i]
    BY <2>8, <2>12 DEF FreshInv
  <2>14. \A c \in Client : answers[c] > 0 => c \in arrived /\ ~Waits(c)'
    BY <2>7 DEF FreshInv
  <2> QED
    BY <2>2, <2>9, <2>10, <2>11, <2>13, <2>14 DEF FreshInv
<1>3. ASSUME NEW t \in Thread, Send(t) PROVE FreshInv'
  <2>1. \A c \in Client :
          answers'[c] = IF c = ConnOf(client_fd[t]) THEN answers[c] + 1
                                                    ELSE answers[c]
    BY <1>3 DEF Send
  <2>2. UNCHANGED <<arrived, backlog, fd_conn>>
    BY <1>3 DEF Send
  <2>3. \A c \in Client : c = ConnOf(client_fd[t]) =>
          c \in arrived /\ ~Waits(c)
    BY ServerAssumption DEF ConnOf, NoConn, FreshInv
  <2>4. \A c \in Client : answers'[c] > 0 => c \in arrived /\ ~Waits(c)
    BY <2>1, <2>3 DEF FreshInv
  <2> QED
    BY <2>2, <2>4 DEF FreshInv, Waits
<1>4. ASSUME NEW t \in Thread, Close(t) PROVE FreshInv'
  <2>1. \A f \in Fd : fd_conn'[f] \in {Free, fd_conn[f]}
    BY <1>4 DEF Close
  <2>2. Free \notin Client
    BY ServerAssumption DEF Free
  <2>3. UNCHANGED <<arrived, backlog, answers>>
    BY <1>4 DEF Close
  <2> QED
    BY <2>1, <2>2, <2>3, FreshQuiet
<1>5. CASE Exit
  <2>1. \A f \in Fd : fd_conn'[f] \in {Free, fd_conn[f]}
    BY <1>5 DEF Exit
  <2>2. Free \notin Client
    BY ServerAssumption DEF Free
  <2>3. UNCHANGED <<arrived, backlog, answers>>
    BY <1>5 DEF Exit
  <2> QED
    BY <2>1, <2>2, <2>3, FreshQuiet
<1>6. ASSUME UNCHANGED <<arrived, backlog, answers, fd_conn>> PROVE FreshInv'
  BY <1>6, FreshQuiet
<1>7. CASE Main
  BY <1>2, <1>5, <1>6, <1>7
     DEF Main, LoopCheck, SelectTimeout, AcceptFails, Enqueue, Advance, Wake,
         Stop
<1>8. ASSUME NEW t \in Thread, Pool(t) PROVE FreshInv'
  BY <1>3, <1>4, <1>6, <1>8
     DEF Pool, Check, Take, TakeEmpty, Fill, Recv, Received, Zero, Clear
<1> QED
  BY <1>1, <1>6, <1>7, <1>8 DEF Next, Input, Say, vars

\* Steps that answer and connect nobody, and after which whoever was about to
\* close still is, or has closed.
LEMMA OnceQuiet ==
  ASSUME OnceInv, UNCHANGED answers,
         \A f \in Fd : fd_conn'[f] \in Client => fd_conn'[f] = fd_conn[f],
         \A f \in Fd, t \in Thread :
           fd_conn'[f] \in Client /\ pc[t] = "close" /\ client_fd[t] = f
             => pc'[t] = "close" /\ client_fd'[t] = f
  PROVE  OnceInv'
BY DEF OnceInv

\* Two threads never talk to one descriptor.
LEMMA TalkersDiffer ==
  ASSUME TypeOK, ExitInv, Sound, NEW s \in Thread, NEW t \in Thread,
         Talking(s), Talking(t), client_fd[s] = client_fd[t]
  PROVE  s = t
<1>1. /\ Holding(s) /\ Holding(t) /\ Using(s) /\ Using(t)
      /\ main_pc # "exit"
  BY DEF Talking, Holding, Using, Serving, ExitInv
<1>2. /\ Live(cli_fd_no[s]) /\ Live(cli_fd_no[t])
      /\ clients_fd[cli_fd_no[s]] = clients_fd[cli_fd_no[t]]
  BY <1>1 DEF Sound, ThreadInv
<1>3. cli_fd_no[s] \in Index /\ cli_fd_no[t] \in Index
  BY DEF TypeOK
<1>4. cli_fd_no[s] = cli_fd_no[t]
  BY <1>1, <1>2, <1>3 DEF Sound, FdInv
<1> QED
  BY <1>1, <1>4 DEF Sound, HolderInv

\* A thread answers and then closes, the same connection (lines 334-347).
LEMMA OnceStep ==
  ASSUME TypeOK, ExitInv, Sound, FreshInv, OnceInv, [Next]_vars
  PROVE  OnceInv'
<1> USE DEF clientVars, mainVars, poolVars, histVars, Goto
<1>0. /\ pc \in [Thread -> {"check", "take", "fill", "recv", "recving", "send",
                            "close", "zero", "clear", "done"}]
      /\ client_fd \in [Thread -> Fd \cup {-1}]
      /\ answers \in [Client -> Nat]
  BY DEF TypeOK
<1>1. ASSUME NEW t \in Thread, Send(t) PROVE OnceInv'
  <2> DEFINE f == client_fd[t]
             d == ConnOf(f)
  <2>1. /\ pc[t] = "send" /\ pc' = [pc EXCEPT ![t] = "close"]
        /\ UNCHANGED <<fd_conn, client_fd>>
        /\ \A c \in Client : answers'[c] = IF c = d THEN answers[c] + 1
                                                    ELSE answers[c]
    BY <1>1 DEF Send
  <2>2. \A s \in Thread : pc[s] = "close" => pc'[s] = "close"
    BY <1>0, <2>1
  <2>3. pc'[t] = "close"
    BY <1>0, <2>1
  <2>4. d \in Client => /\ f \in Fd /\ fd_conn[f] = d
                        /\ \A g \in Fd : fd_conn[g] = d => g = f
    BY ServerAssumption DEF ConnOf, NoConn, FreshInv
  <2>5. d \in Client => answers[d] = 0
    <3> SUFFICES ASSUME d \in Client, answers[d] > 0 PROVE FALSE
      BY <1>0
    <3>1. PICK s \in Thread : pc[s] = "close" /\ client_fd[s] = f
      BY <2>4 DEF OnceInv
    <3>2. Talking(s) /\ Talking(t)
      BY <2>1, <3>1 DEF Talking
    <3> QED
      BY <2>1, <3>1, <3>2, TalkersDiffer
  <2> HIDE DEF d
  <2>6. \A c \in Client : answers'[c] <= 1
    BY <1>0, <2>1, <2>5 DEF OnceInv
  <2>7. ASSUME NEW c \in Client, NEW g \in Fd, answers'[c] > 0, fd_conn[g] = c
        PROVE  \E s \in Thread : pc'[s] = "close" /\ client_fd[s] = g
    <3>1. CASE c = d
      BY <2>3, <2>4, <2>7, <3>1
    <3>2. CASE c # d
      <4>1. PICK s \in Thread : pc[s] = "close" /\ client_fd[s] = g
        BY <2>1, <2>7, <3>2 DEF OnceInv
      <4> QED
        BY <2>2, <4>1
    <3> QED
      BY <3>1, <3>2
  <2> QED
    BY <2>1, <2>6, <2>7 DEF OnceInv
<1>2. ASSUME NEW t \in Thread, Close(t) PROVE OnceInv'
  <2>1. /\ pc[t] = "close" /\ pc' = [pc EXCEPT ![t] = "zero"]
        /\ \A f \in Fd : fd_conn'[f] = IF f = clients_fd[cli_fd_no[t]]
                                         THEN Free ELSE fd_conn[f]
        /\ UNCHANGED <<client_fd, answers>>
    BY <1>2 DEF Close
  <2>2. clients_fd[cli_fd_no[t]] = client_fd[t] /\ Free \notin Client
    BY <2>1, ServerAssumption DEF Sound, ThreadInv, Talking, Free
  <2>3. \A s \in Thread : pc[s] = "close" /\ s # t => pc'[s] = "close"
    BY <1>0, <2>1
  <2> QED
    BY <2>1, <2>2, <2>3, OnceQuiet
<1>3. CASE Accept
  <2>1. PICK f \in Fd : fd_conn' = [fd_conn EXCEPT ![f] = Head(backlog)]
    BY <1>3 DEF Accept
  <2>2. /\ UNCHANGED <<pc, client_fd, answers>>
        /\ \A g \in Fd : g # f => fd_conn'[g] = fd_conn[g]
        /\ fd_conn'[f] = Head(backlog)
    BY <1>3, <2>1 DEF Accept, TypeOK
  <2>3. Head(backlog) \in Client /\ answers[Head(backlog)] = 0
    <3>1. backlog \in Seq(Client) /\ backlog # << >>
      BY <1>3 DEF Accept, TypeOK
    <3>2. /\ 1 \in DOMAIN backlog /\ Head(backlog) = backlog[1]
          /\ backlog[1] \in Client
      BY <3>1
    <3> QED
      BY <1>0, <3>2 DEF FreshInv, Waits
  <2> QED
    BY <2>2, <2>3 DEF OnceInv
<1>4. CASE Exit
  <2>1. /\ \A f \in Fd : fd_conn'[f] \in {Free, fd_conn[f]}
        /\ Free \notin Client
        /\ UNCHANGED <<pc, client_fd, answers>>
    BY <1>4, ServerAssumption DEF Exit, Free
  <2> QED
    BY <2>1, OnceQuiet
<1>5. ASSUME NEW t \in Thread, pc[t] # "close",
             UNCHANGED <<fd_conn, answers>>,
             \A s \in Thread : s # t => /\ pc'[s] = pc[s]
                                        /\ client_fd'[s] = client_fd[s]
      PROVE  OnceInv'
  BY <1>5, OnceQuiet
<1>6. ASSUME UNCHANGED <<pc, client_fd, fd_conn, answers>> PROVE OnceInv'
  BY <1>6, OnceQuiet
<1>7. ASSUME NEW t \in Thread, Pool(t) PROVE OnceInv'
  <2>1. CASE \/ Check(t) \/ Take(t) \/ TakeEmpty(t) \/ Fill(t) \/ Recv(t)
             \/ Received(t) \/ Zero(t) \/ Clear(t)
    <3>1. /\ pc[t] # "close" /\ UNCHANGED <<fd_conn, answers>>
      BY <2>1 DEF Check, Take, TakeEmpty, Fill, Recv, Received, Zero, Clear
    <3>2. \A s \in Thread : s # t => /\ pc'[s] = pc[s]
                                     /\ client_fd'[s] = client_fd[s]
      BY <1>0, <2>1
         DEF Check, Take, TakeEmpty, Fill, Recv, Received, Zero, Clear
    <3> QED
      BY <1>5, <3>1, <3>2
  <2> QED
    BY <1>1, <1>2, <1>7, <2>1 DEF Pool
<1>8. CASE Main
  BY <1>3, <1>4, <1>6, <1>8
     DEF Main, LoopCheck, SelectTimeout, AcceptFails, Enqueue, Advance, Wake,
         Stop
<1> QED
  BY <1>6, <1>7, <1>8 DEF Next, Input, Connect, Say, vars

-----------------------------------------------------------------------------
(* The promise of Service.                                                 *)

\* The client of a thread's entry is the one the thread receives from; it has
\* spoken when the thread sends, and has its answer when the thread closes.
TalkInv ==
  \A t \in Thread :
    /\ pc[t] = "recving" => conn[t] = owner[cli_fd_no[t]]
    /\ pc[t] = "send"    => owner[cli_fd_no[t]] \in said
    /\ pc[t] = "close"   => answers[owner[cli_fd_no[t]]] > 0

\* Steps that leave the conversations alone.
LEMMA TalkQuiet ==
  ASSUME TypeOK, TalkInv, UNCHANGED <<answers, conn>>, said \subseteq said',
         \A t \in Thread : Talking(t)' =>
           /\ pc'[t] = pc[t] \/ pc'[t] = "recv"
           /\ pc'[t] # "recv" => owner'[cli_fd_no'[t]] = owner[cli_fd_no[t]]
  PROVE  TalkInv'
BY DEF TalkInv, Talking

\* Until an overrun every step keeps them.
LEMMA TalkStep ==
  ASSUME IInv, TalkInv, [Next]_vars, ~overrun'
  PROVE  TalkInv'
<1> USE DEF clientVars, mainVars, poolVars, histVars, Goto
<1>0. TypeOK /\ ~overrun /\ RightClient
  BY OverrunStep, RightByEntry DEF IInv
<1>1. ASSUME UNCHANGED <<answers, conn, pc, owner, cli_fd_no>>,
             said \subseteq said'
      PROVE  TalkInv'
  BY <1>0, <1>1, TalkQuiet
<1>2. CASE Accept
  <2>1. /\ UNCHANGED <<answers, conn, said, pc, cli_fd_no>>
        /\ owner' = [owner EXCEPT ![count] = Head(backlog)]
        /\ ~InUse(count)
    BY <1>2 DEF Accept
  <2>2. \A t \in Thread : Talking(t) => cli_fd_no[t] # count
    BY <2>1 DEF InUse, Using, Serving, Talking
  <2>3. \A t \in Thread : Talking(t)' => Talking(t)
    BY <2>1 DEF Talking
  <2>4. \A t \in Thread :
          Talking(t)' => owner'[cli_fd_no'[t]] = owner[cli_fd_no[t]]
    BY <1>0, <2>1, <2>2, <2>3 DEF TypeOK
  <2> QED
    BY <1>0, <2>1, <2>4, TalkQuiet
<1>3. CASE Main
  BY <1>1, <1>2, <1>3
     DEF Main, LoopCheck, SelectTimeout, AcceptFails, Enqueue, Advance, Wake,
         Stop, Exit
<1>4. ASSUME NEW t \in Thread, Pool(t) PROVE TalkInv'
  <2>0. \A s \in Thread : s # t => /\ pc'[s] = pc[s]
                                   /\ cli_fd_no'[s] = cli_fd_no[s]
    BY <1>0, <1>4
       DEF TypeOK, Pool, Check, Take, TakeEmpty, Fill, Recv, Received, Send,
           Close, Zero, Clear
  <2>1. UNCHANGED <<said, owner>>
    BY <1>4
       DEF Pool, Check, Take, TakeEmpty, Fill, Recv, Received, Send, Close,
           Zero, Clear
  <2>2. CASE \/ Check(t) \/ Take(t) \/ TakeEmpty(t) \/ Fill(t)
             \/ Close(t) \/ Zero(t) \/ Clear(t)
    <3>1. UNCHANGED <<answers, conn>>
      BY <2>2 DEF Check, Take, TakeEmpty, Fill, Close, Zero, Clear
    <3>2. pc'[t] \in {"check", "take", "fill", "recv", "zero", "clear", "done"}
      BY <1>0, <2>2
         DEF TypeOK, Check, Take, TakeEmpty, Fill, Close, Zero, Clear
    <3> QED
      BY <1>0, <2>0, <2>1, <3>1, <3>2, TalkQuiet DEF Talking
  <2>3. CASE Recv(t)
    <3>1. conn' = [conn EXCEPT ![t] = owner[cli_fd_no[t]]]
      BY <1>0, <2>3 DEF Recv, RightClient
    <3>2. /\ UNCHANGED <<answers, cli_fd_no>> /\ pc'[t] = "recving"
      BY <1>0, <2>3 DEF Recv, TypeOK
    <3> QED
      BY <1>0, <2>0, <2>1, <3>1, <3>2 DEF TalkInv, TypeOK
  <2>4. CASE Received(t)
    <3>1. owner[cli_fd_no[t]] \in said
      BY <1>0, <2>4 DEF Received, Waiting, TalkInv, RightClient
    <3>2. /\ UNCHANGED <<answers, cli_fd_no>> /\ pc'[t] = "send"
          /\ \A s \in Thread : s # t => conn'[s] = conn[s]
      BY <1>0, <2>4 DEF Received, TypeOK
    <3> QED
      BY <2>0, <2>1, <3>1, <3>2 DEF TalkInv
  <2>5. CASE Send(t)
    <3>1. /\ UNCHANGED <<conn, cli_fd_no>> /\ pc'[t] = "close"
          /\ \A c \in Client :
               answers'[c] = IF c = owner[cli_fd_no[t]] THEN answers[c] + 1
                                                        ELSE answers[c]
      BY <1>0, <2>5 DEF Send, TypeOK, RightClient
    <3>2. \A c \in Client : /\ answers[c] \in Nat
                            /\ answers[c] > 0 => answers'[c] > 0
      BY <1>0, <3>1 DEF TypeOK
    <3>3. answers'[owner[cli_fd_no[t]]] > 0
      BY <1>0, <2>5, <3>1, <3>2 DEF Send, RightClient
    <3>4. \A s \in Thread : pc[s] = "close" => owner[cli_fd_no[s]] \in Client
      BY <1>0 DEF RightClient
    <3> QED
      BY <2>0, <2>1, <3>1, <3>2, <3>3, <3>4 DEF TalkInv
  <2> QED
    BY <1>4, <2>2, <2>3, <2>4, <2>5 DEF Pool
<1> QED
  BY <1>1, <1>3, <1>4 DEF Next, Input, Connect, Say, vars

\* The whole invariant.
AInv == IInv /\ FreshInv /\ (~overrun => OnceInv /\ TalkInv)

LEMMA AInvAlways == Spec => []AInv
<1>1. Init => AInv
  <2> SUFFICES ASSUME Init PROVE FreshInv /\ OnceInv /\ TalkInv
    BY IInvInit DEF AInv
  <2>1. /\ backlog = << >> /\ \A c \in Client : answers[c] = 0
        /\ \A f \in Fd : fd_conn[f] \notin Client
        /\ \A t \in Thread : pc[t] = "check"
    BY ServerAssumption DEF Init, Stdin, Free
  <2> QED
    BY <2>1 DEF FreshInv, OnceInv, TalkInv, Waits
<1>2. AInv /\ [Next]_vars => AInv'
  <2> SUFFICES ASSUME AInv, [Next]_vars PROVE AInv'
    OBVIOUS
  <2>1. IInv' /\ FreshInv'
    BY IInvStep, FreshStep DEF AInv, IInv
  <2>2. ~overrun' => OnceInv'
    BY OverrunStep, OnceStep DEF AInv, IInv
  <2>3. ~overrun' => TalkInv'
    BY OverrunStep, TalkStep DEF AInv
  <2> QED
    BY <2>1, <2>2, <2>3 DEF AInv
<1> QED
  BY <1>1, <1>2, PTL DEF Spec

\* Until an entry is reused while in use no client is answered twice: the
\* thread that answered it is the one about to close it, and no other thread
\* has its descriptor (lines 334-347).
THEOREM AnswersOnce == Spec => []AnsweredOnce
<1>1. AInv => AnsweredOnce
  BY DEF AInv, OnceInv, AnsweredOnce
<1> QED
  BY <1>1, AInvAlways, PTL

\* The connections as Service sees them.
Conn == [c \in Client |-> ConnState(c)]

Linked(c) == \E f \in Fd : fd_conn[f] = c

\* Which state a connection is in, without the order of the cases.
LEMMA ConnCases ==
  ASSUME FreshInv, NEW c \in Client
  PROVE  /\ c \notin arrived => ConnState(c) = "away"
         /\ c \in arrived /\ Waits(c) => ConnState(c) = "waiting"
         /\ c \in arrived /\ ~Waits(c) /\ Linked(c) => ConnState(c) = "open"
         /\ c \in arrived /\ ~Waits(c) /\ ~Linked(c) => ConnState(c) = "closed"
BY DEF ConnState, FreshInv, Waits, Linked

\* A connection that neither comes, waits nor is open otherwise than before
\* is in the state it was in.
LEMMA ConnSame ==
  ASSUME FreshInv, FreshInv', NEW c \in Client,
         c \in arrived' <=> c \in arrived,
         Waits(c)' <=> Waits(c), Linked(c)' <=> Linked(c)
  PROVE  ConnState(c)' = ConnState(c)
<1>1. /\ c \notin arrived' => ConnState(c)' = "away"
      /\ c \in arrived' /\ Waits(c)' => ConnState(c)' = "waiting"
      /\ c \in arrived' /\ ~Waits(c)' /\ Linked(c)' => ConnState(c)' = "open"
      /\ c \in arrived' /\ ~Waits(c)' /\ ~Linked(c)' =>
           ConnState(c)' = "closed"
  BY DEF ConnState, FreshInv, Waits, Linked
<1> QED
  BY <1>1, ConnCases

\* A step that leaves the clients, their connections and answers alone, and is
\* not the exit, is none of the service.
LEMMA Unseen ==
  ASSUME UNCHANGED <<arrived, backlog, said, fd_conn, answers>>,
         main_pc' = "exit" <=> main_pc = "exit"
  PROVE  UNCHANGED Promise!vars
<1>1. Conn' = Conn
  BY DEF Conn, ConnState
<1> QED
  BY <1>1 DEF Promise!vars, Conn

\* A step that moves one client's connection moves that of no other.
LEMMA OneMoves ==
  ASSUME NEW c \in Client, NEW s, ConnState(c)' = s,
         \A d \in Client \ {c} : ConnState(d)' = ConnState(d)
  PROVE  Conn' = [Conn EXCEPT ![c] = s]
BY DEF Conn

\* connect()
LEMMA ConnectServes ==
  ASSUME TypeOK, FreshInv, FreshInv', NEW c \in Client, Connect(c)
  PROVE  Promise!Connect(c)
<1>1. /\ c \notin arrived /\ arrived' = arrived \cup {c}
      /\ main_pc # "exit" /\ main_pc' = main_pc
      /\ backlog' = Append(backlog, c) /\ backlog \in Seq(Client)
      /\ UNCHANGED <<said, fd_conn, answers>>
  BY DEF Connect, TypeOK, mainVars
<1>2. /\ DOMAIN backlog = 1 .. Len(backlog) /\ Len(backlog) \in Nat
      /\ DOMAIN backlog' = 1 .. Len(backlog) + 1
      /\ \A k \in DOMAIN backlog : backlog'[k] = backlog[k]
      /\ backlog'[Len(backlog) + 1] = c
  BY <1>1
<1>3. Waits(c)' /\ \A d \in Client \ {c} : Waits(d)' <=> Waits(d)
  BY <1>2 DEF Waits
<1>4. ConnState(c) = "away"
  BY <1>1, ConnCases
<1>5. ConnState(c)' = "waiting"
  BY <1>1, <1>3 DEF ConnState, FreshInv, Waits
<1>6. \A d \in Client \ {c} : ConnState(d)' = ConnState(d)
  BY <1>1, <1>3, ConnSame DEF Linked
<1>7. Conn' = [Conn EXCEPT ![c] = "waiting"]
  BY <1>5, <1>6, OneMoves
<1> QED
  BY <1>1, <1>4, <1>7 DEF Promise!Connect, Promise!Moves, Conn

\* Data or the end of a connection.
LEMMA SayServes ==
  ASSUME FreshInv, FreshInv', NEW c \in Client, Say(c)
  PROVE  Promise!Say(c)
<1>1. /\ c \in arrived /\ said' = said \cup {c} /\ main_pc' = main_pc
      /\ UNCHANGED <<arrived, backlog, fd_conn, answers>>
  BY DEF Say, mainVars
<1>2. Conn' = Conn
  BY <1>1 DEF Conn, ConnState
<1>3. ConnState(c) # "away"
  BY <1>1, ConnCases
<1> QED
  BY <1>1, <1>2, <1>3 DEF Promise!Say, Conn

\* accept()
LEMMA AcceptServes ==
  ASSUME TypeOK, FreshInv, FreshInv', Accept
  PROVE  Promise!Next
<1>1. PICK f \in Fd : /\ fd_conn[f] = Free
                      /\ fd_conn' = [fd_conn EXCEPT ![f] = Head(backlog)]
  BY DEF Accept, LowestFree
<1>2. /\ backlog # << >> /\ backlog' = Tail(backlog) /\ backlog \in Seq(Client)
      /\ fd_conn \in [Fd -> Client \cup {Stdin, Free}]
      /\ main_pc = "select" /\ main_pc' = "enqueue"
      /\ UNCHANGED <<arrived, said, answers>>
  BY DEF Accept, TypeOK
<1>3. /\ DOMAIN backlog = 1 .. Len(backlog) /\ Len(backlog) \in Nat \ {0}
      /\ DOMAIN backlog' = 1 .. Len(backlog) - 1
      /\ \A k \in DOMAIN backlog' : backlog'[k] = backlog[k + 1]
      /\ Head(backlog) = backlog[1] /\ backlog[1] \in Client
  BY <1>2
<1>4. \A k \in DOMAIN backlog : k = 1 \/ k - 1 \in DOMAIN backlog'
  BY <1>3
<1>5. \A k \in DOMAIN backlog' : k + 1 \in DOMAIN backlog
  BY <1>3
<1>6. PICK h \in Client : h = backlog[1]
  BY <1>3
<1>7. \A d : Waits(d) <=> d = h \/ Waits(d)'
  <2>1. \A d : Waits(d)' => Waits(d)
    BY <1>3, <1>5 DEF Waits
  <2>2. \A k \in DOMAIN backlog : k = 1 \/ backlog[k] = backlog'[k - 1]
    BY <1>3, <1>4
  <2>3. 1 \in DOMAIN backlog
    BY <1>3
  <2> QED
    BY <1>4, <1>6, <2>1, <2>2, <2>3 DEF Waits
<1>8. \A g \in Fd : fd_conn'[g] = IF g = f THEN h ELSE fd_conn[g]
  BY <1>1, <1>2, <1>3, <1>6
<1>9. Linked(h)' /\ ~Waits(h)' /\ h \in arrived
  <2>1. fd_conn'[f] = h
    BY <1>8
  <2>2. h \in arrived' /\ ~(\E k \in DOMAIN backlog' : backlog'[k] = h)
    BY <2>1 DEF FreshInv, Waits
  <2> QED
    BY <1>2, <2>1, <2>2 DEF Linked, Waits
<1>10. Free \notin Client
  BY ServerAssumption DEF Free
<1>11. \A d \in Client \ {h} : Linked(d)' <=> Linked(d)
  BY <1>1, <1>8, <1>10 DEF Linked
<1>12. ConnState(h) = "waiting"
  BY <1>2, <1>7, <1>9, ConnCases
<1>13. ConnState(h)' = "open"
  BY <1>2, <1>9 DEF ConnState, Waits, Linked
<1>14. \A d \in Client \ {h} : ConnState(d)' = ConnState(d)
  BY <1>2, <1>7, <1>11, ConnSame
<1>15. Conn' = [Conn EXCEPT ![h] = "open"]
  BY <1>13, <1>14, OneMoves
<1>16. Promise!Accept(h)
  BY <1>2, <1>12, <1>15 DEF Promise!Accept, Promise!Moves, Conn
<1> QED
  BY <1>16 DEF Promise!Next

\* send(), to a client that has spoken and has no answer yet.
LEMMA SendServes ==
  ASSUME AInv, ~overrun, NEW t \in Thread, Send(t), OnceInv'
  PROVE  Promise!Next
<1>1. /\ pc[t] = "send" /\ main_pc' = main_pc
      /\ UNCHANGED <<arrived, backlog, said, fd_conn>>
      /\ answers \in [Client -> Nat]
  BY DEF Send, AInv, IInv, TypeOK, clientVars, mainVars
<1>2. PICK c \in Client : c = owner[cli_fd_no[t]] /\ ConnOf(client_fd[t]) = c
  BY <1>1, RightByEntry DEF AInv, RightClient
<1>3. Linked(c) /\ c \in arrived /\ ~Waits(c)
  BY <1>2, ServerAssumption DEF ConnOf, NoConn, Linked, AInv, FreshInv
<1>4. c \in said /\ main_pc # "exit"
  BY <1>1, <1>2 DEF AInv, IInv, ExitInv, TalkInv
<1>5. answers' = [d \in Client |-> IF d = c THEN answers[d] + 1
                                            ELSE answers[d]]
  BY <1>2 DEF Send
<1>6. answers[c] = 0
  <2>1. answers'[c] = answers[c] + 1 /\ answers'[c] <= 1
    BY <1>5 DEF OnceInv
  <2> QED
    BY <1>1, <2>1
<1>7. answers' = [answers EXCEPT ![c] = 1]
  <2>1. answers' = [d \in Client |-> IF d = c THEN 1 ELSE answers[d]]
    BY <1>5, <1>6
  <2> QED
    BY <1>1, <2>1
<1>8. Conn' = Conn /\ ConnState(c) = "open"
  <2>1. Conn' = Conn
    BY <1>1 DEF Conn, ConnState
  <2> QED
    BY <1>3, <2>1, ConnCases DEF AInv
<1>9. Promise!Answer(c)
  BY <1>1, <1>4, <1>6, <1>7, <1>8 DEF Promise!Answer, Conn
<1> QED
  BY <1>9 DEF Promise!Next

\* close(), after the answer.
LEMMA CloseServes ==
  ASSUME AInv, ~overrun, FreshInv', NEW t \in Thread, Close(t)
  PROVE  Promise!Next
<1>1. /\ pc[t] = "close" /\ main_pc' = main_pc
      /\ fd_conn' = [f \in Fd |-> IF f = clients_fd[cli_fd_no[t]] THEN Free
                                                          ELSE fd_conn[f]]
      /\ UNCHANGED <<arrived, backlog, said, answers>>
  BY DEF Close, clientVars, mainVars
<1>2. PICK c \in Client : c = owner[cli_fd_no[t]] /\ ConnOf(client_fd[t]) = c
                          /\ clients_fd[cli_fd_no[t]] = client_fd[t]
  BY <1>1, RightByEntry DEF AInv, RightClient
<1>3. PICK f \in Fd : f = client_fd[t] /\ fd_conn[f] = c
  BY <1>2, ServerAssumption DEF ConnOf, NoConn
<1>4. \A g \in Fd : fd_conn'[g] = IF g = f THEN Free ELSE fd_conn[g]
  BY <1>1, <1>2, <1>3
<1>5. Free \notin Client
  BY ServerAssumption DEF Free
<1>6. /\ c \in arrived /\ ~Waits(c) /\ ~Waits(c)' /\ Linked(c)
      /\ \A g \in Fd : g # f => fd_conn[g] # c
  BY <1>1, <1>3 DEF AInv, FreshInv, Linked, Waits
<1>7. ~Linked(c)'
  BY <1>4, <1>5, <1>6 DEF Linked
<1>8. \A d \in Client \ {c} : Linked(d)' <=> Linked(d)
  BY <1>3, <1>4, <1>5 DEF Linked
<1>9. ConnState(c) = "open"
  BY <1>6, ConnCases DEF AInv
<1>10. ConnState(c)' = "closed"
  BY <1>1, <1>6, <1>7 DEF ConnState, Waits, Linked
<1>11. \A d \in Client \ {c} : Waits(d)' <=> Waits(d)
  BY <1>1 DEF Waits
<1>12. \A d \in Client \ {c} : ConnState(d)' = ConnState(d)
  BY <1>1, <1>8, <1>11, ConnSame DEF AInv
<1>13. Conn' = [Conn EXCEPT ![c] = "closed"]
  BY <1>10, <1>12, OneMoves
<1>14. main_pc # "exit" /\ answers[c] = 1
  <2>1. answers[c] \in Nat /\ answers[c] > 0 /\ answers[c] <= 1
    BY <1>1, <1>2 DEF AInv, IInv, TypeOK, TalkInv, OnceInv
  <2> QED
    BY <1>1, <2>1 DEF AInv, IInv, ExitInv
<1>15. Promise!Close(c)
  BY <1>1, <1>9, <1>13, <1>14 DEF Promise!Close, Promise!Moves, Conn
<1> QED
  BY <1>15 DEF Promise!Next

\* The end of the server.
LEMMA ExitServes ==
  ASSUME FreshInv, FreshInv', Exit
  PROVE  Promise!Next
<1>1. /\ main_pc = "join" /\ main_pc' = "exit"
      /\ \A f \in Fd : fd_conn'[f] \in {Free, fd_conn[f]}
      /\ UNCHANGED <<arrived, backlog, said, answers>>
  BY DEF Exit, clientVars
<1> DEFINE gone == {c \in Client : Linked(c) /\ ~Linked(c)'}
<1>2. Free \notin Client
  BY ServerAssumption DEF Free
<1>3. \A c \in Client : Linked(c)' => Linked(c)
  BY <1>1, <1>2 DEF Linked
<1>4. \A c \in Client : Waits(c)' <=> Waits(c)
  BY <1>1 DEF Waits
<1>5. \A c \in Client : Linked(c) => c \in arrived /\ ~Waits(c)
  BY DEF Linked, FreshInv
<1>6. ASSUME NEW c \in gone
      PROVE  ConnState(c) = "open" /\ ConnState(c)' = "closed"
  <2>1. ConnState(c) = "open"
    BY <1>5, <1>6, ConnCases
  <2>2. c \in arrived' /\ ~Waits(c)' /\ ~Linked(c)'
    BY <1>1, <1>4, <1>5, <1>6
  <2> QED
    BY <2>1, <2>2 DEF ConnState, Waits, Linked
<1>7. ASSUME NEW c \in Client \ gone PROVE ConnState(c)' = ConnState(c)
  BY <1>1, <1>3, <1>4, <1>7, ConnSame
<1>8. gone \in SUBSET {c \in Client : Conn[c] = "open"}
  BY <1>6 DEF Conn
<1>9. Conn' = [c \in Client |-> IF c \in gone THEN "closed" ELSE Conn[c]]
  BY <1>6, <1>7 DEF Conn
<1> HIDE DEF gone
<1>10. Promise!End
  BY <1>1, <1>8, <1>9 DEF Promise!End, Conn
<1> QED
  BY <1>10 DEF Promise!Next

\* Until an overrun every step is a step of the service or none.
LEMMA ServiceStep ==
  ASSUME AInv, AInv', [Next]_vars, ~overrun'
  PROVE  Promise!Next \/ UNCHANGED Promise!vars
<1>0. ~overrun /\ TypeOK /\ FreshInv /\ FreshInv' /\ OnceInv'
  BY OverrunStep DEF AInv, IInv
<1>1. CASE Main
  <2>1. CASE Accept
    BY <1>0, <2>1, AcceptServes
  <2>2. CASE Exit
    BY <1>0, <2>2, ExitServes
  <2>3. CASE ~Accept /\ ~Exit
    BY <1>1, <2>3, Unseen
       DEF Main, LoopCheck, SelectTimeout, AcceptFails, Enqueue, Advance, Wake,
           Stop, clientVars
  <2> QED
    BY <2>1, <2>2, <2>3
<1>2. ASSUME NEW t \in Thread, Pool(t)
      PROVE  Promise!Next \/ UNCHANGED Promise!vars
  <2>1. CASE Send(t)
    BY <1>0, <2>1, SendServes
  <2>2. CASE Close(t)
    BY <1>0, <2>2, CloseServes
  <2>3. CASE ~Send(t) /\ ~Close(t)
    BY <1>2, <2>3, Unseen
       DEF Pool, Check, Take, TakeEmpty, Fill, Recv, Received, Zero, Clear,
           clientVars, mainVars
  <2> QED
    BY <2>1, <2>2, <2>3
<1>3. ASSUME NEW c \in Client, Connect(c) \/ Say(c) PROVE Promise!Next
  BY <1>0, <1>3, ConnectServes, SayServes DEF Promise!Next
<1>4. CASE Input \/ UNCHANGED vars
  BY <1>4, Unseen DEF Input, vars, clientVars, mainVars
<1> QED
  BY <1>1, <1>2, <1>3, <1>4 DEF Next

\* Until an entry is reused while in use the server implements Service: every
\* client is answered once, after it has spoken, and only then, or by the
\* exit, is its connection closed.
THEOREM ServerImplementsService == Spec => IsService
<1>1. Init => Promise!Init
  BY ServerAssumption DEF Init, Promise!Init, ConnState, Stdin, Free
<1>2. AInv /\ AInv' /\ [Next]_vars =>
        [overrun' \/ Promise!Next]_(Promise!vars)
  BY ServiceStep
<1> QED
  BY <1>1, <1>2, AInvAlways, PTL DEF Spec, IsService
=============================================================================
