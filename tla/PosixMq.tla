------------------------------- MODULE PosixMq -------------------------------
(***************************************************************************)
(* A POSIX message queue opened with O_NONBLOCK, as the chat programs use  *)
(* it: at most MAX_MSG messages, two priorities, and the oldest message of *)
(* the highest priority is received first.  A queue is kept as one FIFO    *)
(* sequence per priority.  The kernel is outside the repository; what is   *)
(* modelled is what mq_send() and mq_receive() do for its callers.         *)
(***************************************************************************)
EXTENDS Integers, Sequences

CONSTANT MAX_MSG        \* mq_attr.mq_maxmsg

ASSUME MaxMsgAssumption == MAX_MSG \in Nat \ {0}

PRIO_SERVICE_MSG == 1
PRIO_REGULAR_MSG == 2
Prio == {PRIO_SERVICE_MSG, PRIO_REGULAR_MSG}

EmptyQueue == [p \in Prio |-> << >>]

NoMessage(q) == \A p \in Prio : q[p] = << >>

\* mq_send() on a full queue fails with EAGAIN and changes nothing.
Full(q) == Len(q[PRIO_SERVICE_MSG]) + Len(q[PRIO_REGULAR_MSG]) >= MAX_MSG

Put(q, p, m) == [q EXCEPT ![p] = Append(@, m)]

\* mq_receive() of a queue that is not empty: the priority it reports, the
\* message it returns, and the queue it leaves.
TopPrio(q) == IF q[PRIO_REGULAR_MSG] # << >> THEN PRIO_REGULAR_MSG
                                             ELSE PRIO_SERVICE_MSG
Front(q)   == Head(q[TopPrio(q)])
Rest(q)    == [q EXCEPT ![TopPrio(q)] = Tail(@)]
=============================================================================
