----------------------- MODULE OIPBlockingQueue_proofs -----------------------
(***************************************************************************)
(* Proofs about OIPBlockingQueue for any number of producers, consumers    *)
(* and messages and any bound on the queue's length.                       *)
(***************************************************************************)
EXTENDS OIPBlockingQueue, TLAPS

(* Every variable keeps its type: a producer is never found inside pop and *)
(* a consumer never inside push, whatever notify_all wakes.                *)
THEOREM QueueTypeOK == Spec => []TypeOK
<1> USE QueueAssumption DEF QueueAssumption, Users, TypeOK, ProducerPC, ConsumerPC
<1>1. ASSUME Init PROVE TypeOK
  <2>1. << >> \in Seq(Messages)
    OBVIOUS
  <2> QED
    BY <1>1, <2>1 DEF Init
<1>2. TypeOK /\ [Next]_vars => TypeOK'
  <2> SUFFICES ASSUME TypeOK, [Next]_vars PROVE TypeOK'
    OBVIOUS
  <2>1. ASSUME NEW p \in Producers, NEW m \in Messages, PushLock(p, m)
        PROVE  TypeOK'
    BY <2>1 DEF PushLock, Lock, Goto
  <2>2. ASSUME NEW p \in Producers, ShutdownLock(p)
        PROVE  TypeOK'
    BY <2>2 DEF ShutdownLock, Lock, Goto
  <2>3. ASSUME NEW p \in Producers, PushEnqueue(p)
        PROVE  TypeOK'
    BY <2>3 DEF PushEnqueue, Unlock, Goto
  <2>4. ASSUME NEW p \in Producers, PushNotify(p)
        PROVE  TypeOK'
    BY <2>4 DEF PushNotify, Goto, Waiting
  <2>5. ASSUME NEW p \in Producers, ShutdownSet(p)
        PROVE  TypeOK'
    BY <2>5 DEF ShutdownSet, Unlock, Goto
  <2>6. ASSUME NEW p \in Producers, ShutdownNotify(p)
        PROVE  TypeOK'
    BY <2>6 DEF ShutdownNotify, Waiting
  <2>7. ASSUME NEW c \in Consumers, PopLock(c)
        PROVE  TypeOK'
    BY <2>7 DEF PopLock, Lock, Goto
  <2>8. ASSUME NEW c \in Consumers, PopTest(c)
        PROVE  TypeOK'
    BY <2>8 DEF PopTest, Goto
  <2>9. ASSUME NEW c \in Consumers, PopSleep(c)
        PROVE  TypeOK'
    BY <2>9 DEF PopSleep, Unlock, Goto
  <2>10. ASSUME NEW c \in Consumers, PopTake(c)
         PROVE  TypeOK'
    BY <2>10 DEF PopTake, Unlock, Goto
  <2>11. ASSUME NEW c \in Consumers, SpuriousWake(c)
         PROVE  TypeOK'
    BY <2>11 DEF SpuriousWake, Goto
  <2>12. CASE UNCHANGED vars
    BY <2>12 DEF vars
  <2> QED
    BY <2>1, <2>2, <2>3, <2>4, <2>5, <2>6, <2>7, <2>8, <2>9, <2>10, <2>11, <2>12
    DEF Next, ProducerStep, ConsumerStep
<1> QED
  BY <1>1, <1>2, PTL DEF Spec
---------------------------------------------------------------------------
(* What a consumer inside pop knows about the queue while it holds the     *)
(* mutex: the outcome of the predicate it has just tested.                 *)
PredicateHolds ==
    \A c \in Consumers :
        /\ pc[c] = "sleep" => queue = << >> /\ ~stop
        /\ pc[c] = "take" => queue # << >> \/ stop

(* The inductive invariant: no notification is lost because a consumer     *)
(* falls asleep under the mutex it tested the predicate with.              *)
IInv == /\ TypeOK
        /\ MutualExclusion
        /\ PredicateHolds
        /\ NoLostWakeup
        /\ ShutdownWakesAll

LEMMA InitIInv == ASSUME Init PROVE IInv
<1>1. TypeOK
  <2>1. << >> \in Seq(Messages)
    OBVIOUS
  <2> QED
    BY <2>1, QueueAssumption DEF QueueAssumption, Init, TypeOK, Users, ProducerPC, ConsumerPC
<1>2. \A t \in Users : t # NoThread
  BY QueueAssumption DEF QueueAssumption, Users
<1>3. MutualExclusion
  BY <1>2 DEF Init, MutualExclusion, InLockedBlock
<1>4. PredicateHolds
  BY DEF Init, PredicateHolds, Users
<1>5. NoLostWakeup /\ ShutdownWakesAll
  BY DEF Init, NoLostWakeup, ShutdownWakesAll
<1> QED
  BY <1>1, <1>3, <1>4, <1>5 DEF IInv

LEMMA NextIInv == ASSUME IInv, TypeOK', [Next]_vars PROVE IInv'
<1> USE QueueAssumption DEF QueueAssumption, IInv, TypeOK, MutualExclusion, InLockedBlock,
      PredicateHolds, NoLostWakeup, ShutdownWakesAll, Notifying, Waiting, Users
<1> DEFINE Rest == MutualExclusion /\ PredicateHolds /\ NoLostWakeup /\ ShutdownWakesAll
<1>1. ASSUME NEW p \in Producers, NEW m \in Messages, PushLock(p, m)
      PROVE  Rest'
  BY <1>1 DEF PushLock, Lock, Goto
<1>2. ASSUME NEW p \in Producers, ShutdownLock(p)
      PROVE  Rest'
  BY <1>2 DEF ShutdownLock, Lock, Goto
<1>3. ASSUME NEW p \in Producers, PushEnqueue(p)
      PROVE  Rest'
  BY <1>3 DEF PushEnqueue, Unlock, Goto
<1>4. ASSUME NEW p \in Producers, PushNotify(p)
      PROVE  Rest'
  BY <1>4 DEF PushNotify, Goto
<1>5. ASSUME NEW p \in Producers, ShutdownSet(p)
      PROVE  Rest'
  BY <1>5 DEF ShutdownSet, Unlock, Goto
<1>6. ASSUME NEW p \in Producers, ShutdownNotify(p)
      PROVE  Rest'
  BY <1>6 DEF ShutdownNotify
<1>7. ASSUME NEW c \in Consumers, PopLock(c)
      PROVE  Rest'
  BY <1>7 DEF PopLock, Lock, Goto
<1>8. ASSUME NEW c \in Consumers, PopTest(c)
      PROVE  Rest'
  BY <1>8 DEF PopTest, Goto
<1>9. ASSUME NEW c \in Consumers, PopSleep(c)
      PROVE  Rest'
  BY <1>9 DEF PopSleep, Unlock, Goto
<1>10. ASSUME NEW c \in Consumers, PopTake(c)
       PROVE  Rest'
  BY <1>10 DEF PopTake, Unlock, Goto
<1>11. ASSUME NEW c \in Consumers, SpuriousWake(c)
       PROVE  Rest'
  BY <1>11 DEF SpuriousWake, Goto
<1>12. CASE UNCHANGED vars
  BY <1>12 DEF vars
<1> QED
  BY <1>1, <1>2, <1>3, <1>4, <1>5, <1>6, <1>7, <1>8, <1>9, <1>10, <1>11, <1>12
  DEF Next, ProducerStep, ConsumerStep

(* The std::queue is never touched by two threads at once.                 *)
THEOREM QueueMutualExclusion == Spec => []MutualExclusion
<1>1. IInv => MutualExclusion
  BY DEF IInv
<1> QED
  BY <1>1, InitIInv, NextIInv, QueueTypeOK, PTL DEF Spec

(* No wake-up is lost: with a message queued or the queue shut down, some  *)
(* consumer is awake or about to be notified.                              *)
THEOREM QueueNoLostWakeup == Spec => []NoLostWakeup
<1>1. IInv => NoLostWakeup
  BY DEF IInv
<1> QED
  BY <1>1, InitIInv, NextIInv, QueueTypeOK, PTL DEF Spec

(* After shutdown's notify_all no consumer is left asleep.                 *)
THEOREM QueueShutdownWakesAll == Spec => []ShutdownWakesAll
<1>1. IInv => ShutdownWakesAll
  BY DEF IInv
<1> QED
  BY <1>1, InitIInv, NextIInv, QueueTypeOK, PTL DEF Spec
---------------------------------------------------------------------------
(* The last results of the consumers change only when pop returns one.     *)
LEMMA GotKept ==
    ASSUME TypeOK, \/ UNCHANGED msg
                   \/ \E p \in Producers, m \in Messages : msg' = [msg EXCEPT ![p] = m]
    PROVE  [c \in Consumers |-> msg'[c]] = [c \in Consumers |-> msg[c]]
  BY QueueAssumption DEF QueueAssumption, TypeOK, Users

(* push, pop and shutdown implement a closable first-in first-out queue:   *)
(* every message is handed out once, in the order of the pushes, and the   *)
(* empty string meaning "closed" is returned only from an empty queue.     *)
THEOREM QueueImplementsFifo == Spec => ImplementsFifo
<1> USE DEF Fifo!vars
<1>1. Init => Fifo!Init
  BY DEF Init, Fifo!Init, Users
<1>2. ASSUME TypeOK, [Next]_vars PROVE [Fifo!Next]_(Fifo!vars)
  <2> USE <1>2
  <2>1. ASSUME NEW p \in Producers, PushEnqueue(p)
        PROVE  Fifo!Enqueue
    <3>1. msg[p] \in Messages
      BY DEF TypeOK, Users
    <3> QED
      BY <2>1, <3>1, GotKept DEF PushEnqueue, Fifo!Enqueue
  <2>2. ASSUME NEW p \in Producers, ShutdownSet(p)
        PROVE  Fifo!Close
    BY <2>2, GotKept DEF ShutdownSet, Fifo!Close
  <2>3. ASSUME NEW c \in Consumers, PopTake(c)
        PROVE  Fifo!Dequeue(c) \/ Fifo!DequeueClosed(c)
    <3>1. ASSUME NEW m, msg' = [msg EXCEPT ![c] = m]
          PROVE  [d \in Consumers |-> msg'[d]]
                   = [[d \in Consumers |-> msg[d]] EXCEPT ![c] = m]
      BY <3>1 DEF TypeOK, Users
    <3>2. CASE /\ stop /\ queue = << >>
               /\ msg' = [msg EXCEPT ![c] = EMPTY]
               /\ UNCHANGED queue
      BY <2>3, <3>1, <3>2 DEF PopTake, Fifo!DequeueClosed
    <3>3. CASE /\ queue # << >>
               /\ msg' = [msg EXCEPT ![c] = Head(queue)]
               /\ queue' = Tail(queue)
      BY <2>3, <3>1, <3>3 DEF PopTake, Fifo!Dequeue
    <3> QED
      BY <2>3, <3>2, <3>3 DEF PopTake
  <2>4. ASSUME NEW p \in Producers, NEW m \in Messages, PushLock(p, m)
        PROVE  UNCHANGED Fifo!vars
    BY <2>4, GotKept DEF PushLock
  <2>5. ASSUME NEW p \in Producers, ShutdownLock(p) \/ PushNotify(p) \/ ShutdownNotify(p)
        PROVE  UNCHANGED Fifo!vars
    BY <2>5, GotKept DEF ShutdownLock, PushNotify, ShutdownNotify
  <2>6. ASSUME NEW c \in Consumers, PopLock(c) \/ PopTest(c) \/ PopSleep(c) \/ SpuriousWake(c)
        PROVE  UNCHANGED Fifo!vars
    BY <2>6, GotKept DEF PopLock, PopTest, PopSleep, SpuriousWake
  <2>7. CASE UNCHANGED vars
    BY <2>7, GotKept DEF vars
  <2> QED
    BY <2>1, <2>2, <2>3, <2>4, <2>5, <2>6, <2>7
    DEF Next, ProducerStep, ConsumerStep, Fifo!Next
<1> QED
  BY <1>1, <1>2, QueueTypeOK, PTL DEF Spec, ImplementsFifo, Fifo!SafeSpec
=============================================================================
