--------------------------- MODULE ClientThreads ----------------------------
(***************************************************************************)
(* One thread for each client, by numbers of threads and of rounds: what   *)
(* server_one_thread_for_one_client_tcp.c and ..._udp.c share.             *)
(*                                                                         *)
(* Round by round main fills the next entry of its arrays; a thread gets a *)
(* pointer to the next element of the arguments.  A round may fail, so the *)
(* number of threads falls behind the number of rounds.                    *)
(***************************************************************************)
EXTENDS LoadServer

CONSTANTS START_ALLOC,      \* entries of the arrays
          MaxErrors         \* bound: how often a call of main fails

Index == 0 .. START_ALLOC - 1

VARIABLES
  count, count_threads, error_flag,     \* of main
  pc                                    \* of the threads

countVars == <<count, count_threads, error_flag>>

ThreadsInit ==
  /\ count = 0 /\ count_threads = 0 /\ error_flag = 0
  /\ pc = [t \in Index |-> "none"]

GotoT(t, l) == pc' = [pc EXCEPT ![t] = l]

CanFail == error_flag < MaxErrors /\ error_flag' = error_flag + 1

\* The end of a round: the arrays' last entry stays unused.
Round ==
  /\ count' = count + 1
  /\ main_pc' = IF count + 1 = START_ALLOC - 1 THEN "stop" ELSE "loop"

\* pthread_create()
Create(first) ==
  /\ main_pc = "create"
  /\ GotoT(count_threads, first)
  /\ count_threads' = count_threads + 1
  /\ Round
  /\ UNCHANGED <<netVars, stopVars, error_flag>>

\* Mutant: the failure does not show in the exit status.
CreateFailsUnseen ==
  /\ main_pc = "create" /\ error_flag < MaxErrors
  /\ Round
  /\ UNCHANGED <<netVars, stopVars, count_threads, error_flag, pc>>

CreateFails ==
  /\ main_pc = "create" /\ CanFail
  /\ Round
  /\ UNCHANGED <<netVars, stopVars, count_threads, pc>>

\* Mutant: the last thread is not joined.
JoinFewer ==
  /\ main_pc = "join"
  /\ \A t \in Index : t < count_threads - 1 => pc[t] = "done"
  /\ main_pc' = "join_shutdown"
  /\ UNCHANGED <<netVars, stopVars, countVars, pc>>

Join ==
  /\ main_pc = "join"
  /\ \A t \in Index : t < count_threads => pc[t] = "done"
  /\ main_pc' = "join_shutdown"
  /\ UNCHANGED <<netVars, stopVars, countVars, pc>>
=============================================================================
