----------------------------- MODULE QueueUsers -----------------------------
(***************************************************************************)
(* The threads at both ends of an OIPBlockingQueue and what they send, in  *)
(* a module of their own for the modules that use an instance of it.       *)
(***************************************************************************)
EXTENDS Naturals, Sequences

CONSTANTS Producers,  \* threads that call push and shutdown
          Consumers,  \* threads that call pop in a loop
          Messages,   \* what is pushed: group names, "", "_CLEANUP_TAG_GROUPS"
          EMPTY,      \* the empty string: an ordinary message and pop's "closed"
          NoThread,   \* the mutex is free
          MaxLen      \* bound of the model: no push starts on a queue this long

ASSUME QueueAssumption ==
    /\ EMPTY \in Messages
    /\ Producers \cap Consumers = {}
    /\ Consumers # {}
    /\ NoThread \notin Producers \cup Consumers
    /\ MaxLen \in Nat
=============================================================================
