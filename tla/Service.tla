------------------------------ MODULE Service ------------------------------
(***************************************************************************)
(* What a TCP server of this repository promises its clients, whatever its *)
(* threads do: a client that connects waits, is accepted, is answered once *)
(* after it has said something, and only then is its connection closed;    *)
(* the end of the server may close it at any time.                         *)
(***************************************************************************)
EXTENDS Naturals

CONSTANT Client

VARIABLES conn,         \* conn[c]: the state of client c's connection
          said,         \* clients whose data, or end, have come
          answers,      \* answers[c]: how often c was answered
          ended         \* the server has ended

vars == <<conn, said, answers, ended>>

Init == /\ conn = [c \in Client |-> "away"]
        /\ said = {}
        /\ answers = [c \in Client |-> 0]
        /\ ended = FALSE

Moves(c, from, to) == conn[c] = from /\ conn' = [conn EXCEPT ![c] = to]

Connect(c) == /\ ~ended /\ Moves(c, "away", "waiting")
              /\ UNCHANGED <<said, answers, ended>>

Say(c) == /\ conn[c] # "away"
          /\ said' = said \cup {c}
          /\ UNCHANGED <<conn, answers, ended>>

Accept(c) == /\ ~ended /\ Moves(c, "waiting", "open")
             /\ UNCHANGED <<said, answers, ended>>

Answer(c) == /\ ~ended /\ conn[c] = "open" /\ c \in said /\ answers[c] = 0
             /\ answers' = [answers EXCEPT ![c] = 1]
             /\ UNCHANGED <<conn, said, ended>>

Close(c) == /\ ~ended /\ answers[c] = 1 /\ Moves(c, "open", "closed")
            /\ UNCHANGED <<said, answers, ended>>

\* The server closes open connections and ends.
End == /\ ~ended /\ ended' = TRUE
       /\ \E gone \in SUBSET {c \in Client : conn[c] = "open"} :
            conn' = [c \in Client |-> IF c \in gone THEN "closed" ELSE conn[c]]
       /\ UNCHANGED <<said, answers>>

Next == \/ \E c \in Client : \/ Connect(c) \/ Say(c) \/ Accept(c)
                             \/ Answer(c) \/ Close(c)
        \/ End

Spec == Init /\ [][Next]_vars
=============================================================================
