----------------------------- MODULE CoreParts -----------------------------
(***************************************************************************)
(* What CommsCore takes for granted, side by side: the blocking queue that *)
(* hands out its work, the clockwork that decides when a group is polled,  *)
(* and the members of OIPComms that its threads share without a lock.      *)
(* None of the three reads what another one writes (OIPBlockingQueue has   *)
(* its mutex, ProcessFrame is the main thread's alone, CommsCore stands    *)
(* between them), so that a behaviour is one of one of them.               *)
(***************************************************************************)
EXTENDS SharedMembers, QueueUsers, FrameSettings

VARIABLES
    part,
    (* queue *)
    tg_queue, stop, mutex, tpc, msg,
    (* frames *)
    now, sim_running, enable_comms, registered, time, startup_timer, last_ticks,
    polled, last_poll, since, idle_at, checked, framed

Blocking == INSTANCE OIPBlockingQueue WITH queue <- tg_queue, pc <- tpc
Frames == INSTANCE ProcessFrame

blocking == <<tg_queue, stop, mutex, tpc, msg>>
frames == <<now, sim_running, enable_comms, registered, time, startup_timer, last_ticks,
            polled, last_poll, since, idle_at, checked, framed>>
parts == <<part, blocking, frames, members>>

Parts == {"queue", "frames", "members"}

PartsInit == /\ part \in Parts
             /\ Blocking!Init /\ Frames!Init /\ SharedInit
             /\ part # "frames" => now = 0

QueueOnly == part = "queue" /\ UNCHANGED <<part, frames, members>>
FramesOnly == part = "frames" /\ UNCHANGED <<part, blocking, members>>
MembersOnly == part = "members" /\ UNCHANGED <<part, blocking, frames>>

PartsNext == \/ QueueOnly /\ Blocking!Next
             \/ FramesOnly /\ Frames!Next
             \/ MembersOnly /\ SharedNext

PartsSpec == PartsInit /\ [][PartsNext]_parts

(* Each part's own fairness: that of the queue's threads and of its mutex, *)
(* and that of the calls which use the shared members.                     *)
QueueFairness ==
    /\ \A p \in Producers : WF_parts(QueueOnly /\ Blocking!ProducerStep(p))
    /\ \A c \in Consumers : /\ WF_parts(QueueOnly /\ Blocking!ConsumerStep(c))
                            /\ SF_parts(QueueOnly /\ Blocking!PopLock(c))
MembersFairness == /\ WF_parts(MembersOnly /\ MainStep)
                   /\ WF_parts(MembersOnly /\ WorkerStep)

FairParts == PartsSpec /\ QueueFairness /\ MembersFairness
---------------------------------------------------------------------------
(* The properties of OIPBlockingQueue, stated and explained there: with a  *)
(* message or a stop request somebody is awake or is being woken;          *)
NoLostWakeup == Blocking!NoLostWakeup
(* push, pop and shutdown are those of a closable FIFO;                    *)
ImplementsFifo == Blocking!ImplementsFifo
(* and every message is taken, every consumer of a closed queue released.  *)
NobodyLeftWaiting == Blocking!NobodyLeftWaiting

(* Those of ProcessFrame: no group is polled later than it must be,        *)
NoPollMissed == Frames!NoPollMissed
(* nor sooner than its interval,                                           *)
PollSpacing == Frames!PollSpacing
(* and the check for initialized groups is not put off.                    *)
StartedInTime == Frames!StartedInTime
=============================================================================
