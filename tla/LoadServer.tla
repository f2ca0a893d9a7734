----------------------------- MODULE LoadServer -----------------------------
(***************************************************************************)
(* What the three servers for the load-test client have in common: main's  *)
(* loop over main_while_var, the thread that waits for the word "s", and   *)
(* the end.  Taken from server_one_thread_for_one_client_tcp.c, whose      *)
(* lines the other two repeat.                                             *)
(***************************************************************************)
EXTENDS Sockets

VARIABLES main_pc, main_while_var, stop_threads, shutdown_pc

stopVars == <<main_while_var, stop_threads, shutdown_pc>>

ServerInit ==
  /\ main_pc = "loop"
  /\ main_while_var = 1 /\ stop_threads = 0
  /\ shutdown_pc = "check"

\* The user is asked for a word ...
ShutdownCheck ==
  /\ shutdown_pc = "check"
  /\ shutdown_pc' = IF stop_threads = 1 THEN "done" ELSE "scanf"
  /\ UNCHANGED <<main_pc, main_while_var, stop_threads>>

\* ... and types "s" ...
TypeS ==
  /\ shutdown_pc = "scanf"
  /\ main_while_var' = 0
  /\ shutdown_pc' = "done"
  /\ UNCHANGED <<main_pc, stop_threads>>

\* ... or another one.
TypeOther ==
  /\ shutdown_pc = "scanf"
  /\ shutdown_pc' = "check"
  /\ UNCHANGED <<main_pc, main_while_var, stop_threads>>

User == TypeS \/ TypeOther

\* Mutant: the threads are not told.
StopMainOnly ==
  /\ main_pc = "stop"
  /\ main_pc' = "join"
  /\ UNCHANGED stopVars

Stop ==
  /\ main_pc = "stop"
  /\ stop_threads' = 1
  /\ main_pc' = "join"
  /\ UNCHANGED <<main_while_var, shutdown_pc>>

\* main has joined the thread that waits for the word.
Exit ==
  /\ main_pc = "join_shutdown" /\ shutdown_pc = "done"
  /\ main_pc' = "exit"
  /\ CloseServer
  /\ UNCHANGED stopVars
=============================================================================
