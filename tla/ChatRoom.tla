------------------------------ MODULE ChatRoom ------------------------------
(***************************************************************************)
(* What a chat with a common room promises its members: a member hears     *)
(* only what another member has said, in the order in which it was said,   *)
(* and never twice.  Messages may be lost: a queue may be full.            *)
(***************************************************************************)
EXTENDS Integers

CONSTANT Member

VARIABLES said,         \* said[c]: how many messages c has said so far
          heard         \* heard[j][c]: the last message of c that j heard

Init == /\ said = [c \in Member |-> 0]
        /\ heard = [j \in Member |-> [c \in Member |-> 0]]

Say(c) == /\ said' = [said EXCEPT ![c] = @ + 1]
          /\ UNCHANGED heard

Hear(j, c) == /\ j # c
              /\ \E n \in heard[j][c] + 1 .. said[c] :
                    heard' = [heard EXCEPT ![j][c] = n]
              /\ UNCHANGED said

Next == \E c \in Member : Say(c) \/ \E j \in Member : Hear(j, c)

Spec == Init /\ [][Next]_<<said, heard>>
=============================================================================
