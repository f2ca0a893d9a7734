------------------------------ MODULE Mailbox -------------------------------
(***************************************************************************)
(* What a slot's incoming shared memory promises as a channel from a       *)
(* client to its server thread: the thread takes messages in the order in  *)
(* which they were written, none twice.  A message that was not taken in   *)
(* time is lost: the region holds one.  Only the first thing taken may be  *)
(* the remains of a message, damaged while the server was starting; what   *)
(* the thread passes on to the other clients is always whole.              *)
(***************************************************************************)
EXTENDS Integers

CONSTANT Slot

VARIABLES written,      \* written[c]: messages c's client wrote so far
          taken,        \* taken[c]: the number of the last one taken
          times,        \* times[c]: how many were taken
          whole,        \* whole[c]: whether the last one was undamaged
          passed        \* passed[c]: the number of the last one passed on

Init == /\ written = [c \in Slot |-> 0]
        /\ taken = [c \in Slot |-> 0]
        /\ times = [c \in Slot |-> 0]
        /\ whole = [c \in Slot |-> TRUE]
        /\ passed = [c \in Slot |-> 0]

Write(c) == /\ written' = [written EXCEPT ![c] = @ + 1]
            /\ UNCHANGED <<taken, times, whole, passed>>

Take(c) == /\ \E n \in taken[c] + 1 .. written[c] :
                 taken' = [taken EXCEPT ![c] = n]
           /\ times' = [times EXCEPT ![c] = @ + 1]
           /\ whole' = [whole EXCEPT ![c] = TRUE]
           /\ UNCHANGED <<written, passed>>

\* The number is among the remains or not.
TakeRemains(c) == /\ times[c] = 0
                  /\ \E n \in taken[c] .. written[c] :
                       taken' = [taken EXCEPT ![c] = n]
                  /\ times' = [times EXCEPT ![c] = @ + 1]
                  /\ whole' = [whole EXCEPT ![c] = FALSE]
                  /\ UNCHANGED <<written, passed>>

Pass(c) == /\ whole[c] /\ passed[c] < taken[c]
           /\ passed' = [passed EXCEPT ![c] = taken[c]]
           /\ UNCHANGED <<written, taken, times, whole>>

Next == \E c \in Slot : Write(c) \/ Take(c) \/ TakeRemains(c) \/ Pass(c)

Spec == Init /\ [][Next]_<<written, taken, times, whole, passed>>
=============================================================================
