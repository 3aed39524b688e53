-------------------------- MODULE OIPBlockingQueue --------------------------
(***************************************************************************)
(* The blocking queue between the threads that hand out work and the       *)
(* thread that performs it (oip_blocking_queue.cpp): a std::queue and a    *)
(* stop flag under one mutex, and a condition variable.                    *)
(*                                                                         *)
(* A step is what a thread does between two points where another thread    *)
(* can come in between: taking the mutex, the work under it, and the       *)
(* notification, which is sent after the mutex was released.  cv.wait      *)
(* tests its predicate, gives up the mutex and falls asleep in one step,   *)
(* may wake up for no reason, and takes the mutex again before it retests. *)
(***************************************************************************)
EXTENDS QueueUsers

Users == Producers \cup Consumers

VARIABLES queue,  \* std::queue<String> queue
          stop,   \* bool stop
          mutex,  \* the thread that holds std::mutex mutex, or NoThread
          pc,     \* where each thread is in push, pop or shutdown
          msg     \* a producer's argument, a consumer's last result

vars == <<queue, stop, mutex, pc, msg>>

ProducerPC == {"idle", "push", "notify", "shutdown", "notify_all"}
ConsumerPC == {"idle", "test", "sleep", "take", "waiting", "woken"}

TypeOK == /\ queue \in Seq(Messages)
          /\ stop \in BOOLEAN
          /\ mutex \in Users \cup {NoThread}
          /\ pc \in [Users -> ProducerPC \cup ConsumerPC]
          /\ \A p \in Producers : pc[p] \in ProducerPC
          /\ \A c \in Consumers : pc[c] \in ConsumerPC
          /\ msg \in [Users -> Messages]

Init == /\ queue = << >>
        /\ stop = FALSE
        /\ mutex = NoThread
        /\ pc = [t \in Users |-> "idle"]
        /\ msg = [t \in Users |-> EMPTY]

Goto(t, label) == pc' = [pc EXCEPT ![t] = label]

Lock(t) == mutex = NoThread /\ mutex' = t
Unlock == mutex' = NoThread

Waiting == {c \in Consumers : pc[c] = "waiting"}
---------------------------------------------------------------------------
(* push(message)                                                           *)

PushLock(p, m) ==
    /\ pc[p] = "idle" /\ Len(queue) < MaxLen
    /\ Lock(p)
    /\ msg' = [msg EXCEPT ![p] = m]
    /\ Goto(p, "push")
    /\ UNCHANGED <<queue, stop>>

PushEnqueue(p) ==
    /\ pc[p] = "push"
    /\ queue' = Append(queue, msg[p])
    /\ Unlock
    /\ Goto(p, "notify")
    /\ UNCHANGED <<stop, msg>>

(* Mutant: cv.notify_one() is missing.                                     *)
PushSilent(p) ==
    /\ pc[p] = "notify"
    /\ Goto(p, "idle")
    /\ UNCHANGED <<queue, stop, mutex, msg>>

(* notify_one wakes one of the sleeping threads, if there is one.          *)
PushNotify(p) ==
    /\ pc[p] = "notify"
    /\ \/ /\ Waiting = {}
          /\ Goto(p, "idle")
       \/ \E c \in Waiting : pc' = [pc EXCEPT ![p] = "idle", ![c] = "woken"]
    /\ UNCHANGED <<queue, stop, mutex, msg>>
---------------------------------------------------------------------------
(* shutdown()                                                              *)

ShutdownLock(p) ==
    /\ pc[p] = "idle"
    /\ Lock(p)
    /\ Goto(p, "shutdown")
    /\ UNCHANGED <<queue, stop, msg>>

ShutdownSet(p) ==
    /\ pc[p] = "shutdown"
    /\ stop' = TRUE
    /\ Unlock
    /\ Goto(p, "notify_all")
    /\ UNCHANGED <<queue, msg>>

(* Mutant: notify_one instead of notify_all.                               *)
ShutdownNotifyOne(p) ==
    /\ pc[p] = "notify_all"
    /\ \/ Waiting = {} /\ Goto(p, "idle")
       \/ \E c \in Waiting : pc' = [pc EXCEPT ![p] = "idle", ![c] = "woken"]
    /\ UNCHANGED <<queue, stop, mutex, msg>>

ShutdownNotify(p) ==
    /\ pc[p] = "notify_all"
    /\ pc' = [t \in Users |-> IF t = p THEN "idle"
                                ELSE IF t \in Waiting THEN "woken" ELSE pc[t]]
    /\ UNCHANGED <<queue, stop, mutex, msg>>
---------------------------------------------------------------------------
(* pop(): called by a consumer whenever it is idle                         *)

PopLock(c) ==
    /\ pc[c] \in {"idle", "woken"}
    /\ Lock(c)
    /\ Goto(c, "test")
    /\ UNCHANGED <<queue, stop, msg>>

(* The predicate of cv.wait.                                               *)
PopTest(c) ==
    /\ pc[c] = "test"
    /\ Goto(c, IF queue # << >> \/ stop THEN "take" ELSE "sleep")
    /\ UNCHANGED <<queue, stop, mutex, msg>>

PopSleep(c) ==
    /\ pc[c] = "sleep"
    /\ Unlock
    /\ Goto(c, "waiting")
    /\ UNCHANGED <<queue, stop, msg>>

(* Mutant: gives up on stop although messages are left.                    *)
PopTakeStopFirst(c) ==
    /\ pc[c] = "take"
    /\ \/ /\ stop
          /\ msg' = [msg EXCEPT ![c] = EMPTY]
          /\ UNCHANGED queue
       \/ /\ ~stop /\ queue # << >>
          /\ msg' = [msg EXCEPT ![c] = Head(queue)]
          /\ queue' = Tail(queue)
    /\ Unlock
    /\ Goto(c, "idle")
    /\ UNCHANGED stop

PopTake(c) ==
    /\ pc[c] = "take"
    /\ \/ /\ stop /\ queue = << >>
          /\ msg' = [msg EXCEPT ![c] = EMPTY]
          /\ UNCHANGED queue
       \/ /\ queue # << >>
          /\ msg' = [msg EXCEPT ![c] = Head(queue)]
          /\ queue' = Tail(queue)
    /\ Unlock
    /\ Goto(c, "idle")
    /\ UNCHANGED stop

SpuriousWake(c) ==
    /\ pc[c] = "waiting"
    /\ Goto(c, "woken")
    /\ UNCHANGED <<queue, stop, mutex, msg>>
---------------------------------------------------------------------------
ProducerStep(p) == \/ PushEnqueue(p)
                   \/ PushNotify(p)
                   \/ ShutdownSet(p)
                   \/ ShutdownNotify(p)

ConsumerStep(c) == \/ PopTest(c)
                   \/ PopSleep(c)
                   \/ PopTake(c)

Next == \/ \E p \in Producers : \/ \E m \in Messages : PushLock(p, m)
                                \/ ShutdownLock(p)
                                \/ ProducerStep(p)
        \/ \E c \in Consumers : PopLock(c) \/ ConsumerStep(c) \/ SpuriousWake(c)

(* A call that has begun runs to its end; nobody has to call push or       *)
(* shutdown, and a spurious wake-up never has to happen.  The consumer     *)
(* calls pop again as soon as it is back (process_work's loop), and the    *)
(* mutex does not starve it for ever.                                      *)
Fairness == /\ \A p \in Producers : WF_vars(ProducerStep(p))
            /\ \A c \in Consumers : WF_vars(ConsumerStep(c)) /\ SF_vars(PopLock(c))

Spec == Init /\ [][Next]_vars
FairSpec == Spec /\ Fairness
---------------------------------------------------------------------------
(* The mutex is held exactly by the thread whose code is inside one of the *)
(* locked blocks (push, shutdown, and pop outside cv.wait's sleep), so two *)
(* threads never touch the std::queue together.                            *)
InLockedBlock(t) == pc[t] \in {"push", "shutdown", "test", "sleep", "take"}
MutualExclusion == \A t \in Users : InLockedBlock(t) <=> mutex = t

(* No lost wake-up: if there is a message or a stop request then a         *)
(* notification is on its way or some consumer is awake.  All of them      *)
(* asleep with work queued would leave writes unsent until the next push.  *)
Notifying(p) == pc[p] \in {"notify", "notify_all"}
NoLostWakeup ==
    queue # << >> \/ stop =>
        \/ \E p \in Producers : Notifying(p)
        \/ \E c \in Consumers : pc[c] # "waiting"

(* shutdown wakes everyone: once stop is set, a consumer is still asleep   *)
(* only while shutdown has not sent its notify_all, so the destructor that *)
(* joins the consumer thread next cannot hang on it.                       *)
ShutdownWakesAll ==
    stop => \/ \E p \in Producers : pc[p] = "notify_all"
            \/ Waiting = {}

(* Every consumer that is inside pop when the queue is shut down returns   *)
(* from it, which is what ~OIPComms waits for in wait_to_finish.           *)
ShutdownReleases ==
    \A c \in Consumers : (stop /\ pc[c] # "idle") ~> (pc[c] = "idle")

(* The calls deliver what was pushed, in order, and report "closed" only   *)
(* when nothing is left to deliver.                                        *)
Fifo == INSTANCE MessageFifo
          WITH fifo <- queue, closed <- stop, got <- [c \in Consumers |-> msg[c]]
ImplementsFifo == Fifo!SafeSpec

(* Nobody is left behind: a queued message is always taken by a consumer,  *)
(* and a shutdown gets every consumer out of pop.                          *)
NobodyLeftWaiting == Fifo!Progress /\ ShutdownReleases
=============================================================================
