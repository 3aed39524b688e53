---------------------------- MODULE MessageFifo ----------------------------
(***************************************************************************)
(* What OIPBlockingQueue promises to its callers, with no mutex, no        *)
(* condition variable and no thread in sight: a first-in first-out queue   *)
(* that can be closed.  A consumer is handed the oldest message; the empty *)
(* string stands for "closed" and is handed out for that reason only when  *)
(* nothing is left.  OIPBlockingQueue implements this specification.       *)
(***************************************************************************)
EXTENDS Sequences

CONSTANTS Consumers, Messages, EMPTY

VARIABLES fifo,     \* the messages pushed and not yet handed out
          closed,   \* shutdown has been requested
          got       \* the last message handed to each consumer

vars == <<fifo, closed, got>>

TypeOK == /\ fifo \in Seq(Messages)
          /\ closed \in BOOLEAN
          /\ got \in [Consumers -> Messages]

Init == /\ fifo = << >>
        /\ closed = FALSE
        /\ got = [c \in Consumers |-> EMPTY]

Enqueue == \E m \in Messages : /\ fifo' = Append(fifo, m)
                               /\ UNCHANGED <<closed, got>>

Dequeue(c) == /\ fifo # << >>
              /\ got' = [got EXCEPT ![c] = Head(fifo)]
              /\ fifo' = Tail(fifo)
              /\ UNCHANGED closed

DequeueClosed(c) == /\ closed
                    /\ fifo = << >>
                    /\ got' = [got EXCEPT ![c] = EMPTY]
                    /\ UNCHANGED <<fifo, closed>>

Close == /\ closed' = TRUE
         /\ UNCHANGED <<fifo, got>>

Next == \/ Enqueue
        \/ Close
        \/ \E c \in Consumers : Dequeue(c) \/ DequeueClosed(c)

(* The order and content of what is delivered.                             *)
SafeSpec == Init /\ [][Next]_vars

(* Some consumer takes the next message whenever there is one.             *)
Progress == WF_vars(\E c \in Consumers : Dequeue(c))

Spec == SafeSpec /\ Progress
=============================================================================
