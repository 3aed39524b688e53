--------------------------- MODULE SharedMembers ---------------------------
(***************************************************************************)
(* The members of OIPComms that its two threads use without a lock, and    *)
(* the calls in which they do: the main thread prints errors, starts runs  *)
(* and queues writes (write_##a), the worker prints errors and takes the   *)
(* writes (flush_all_writes).  comms_error and last_error are CommsError's *)
(* and write_queue is WriteQueue's; a thread is in one call at a time, so  *)
(* that a print of the worker holds up the writes behind it.               *)
(***************************************************************************)
EXTENDS CommsError

CONSTANTS Worker,      \* the thread that processes writes
          MaxWrites    \* bound of the model: writes

ASSUME SharedAssumption == /\ Threads = {Main, Worker} /\ Main # Worker
                           /\ MaxWrites \in Nat

VARIABLES slots, front, back, wakes, mpc, wpc, taken, swapped

Queue == INSTANCE WriteQueue

errors == vars
queue == <<slots, front, back, wakes, mpc, wpc, taken, swapped>>
members == <<errors, queue>>

SharedInit == Init /\ Queue!Init

(* Outside a print; outside write_##a.                                     *)
NotPrinting(t) == pc[t] = "idle"
NotWriting == mpc = "idle"

(* An error is printed between two calls of the main thread, and by the    *)
(* worker for a group or for the write that it has just processed.         *)
MayPrint(t) == IF t = Main THEN NotWriting ELSE wpc # "take"

StartRun == /\ NotWriting /\ StartSim
            /\ UNCHANGED queue

PrintCall(t) == /\ MayPrint(t) /\ PrintError(t)
                /\ UNCHANGED queue

PrintStep(t) == /\ Emit(t) \/ Store(t) \/ Raise(t)
                /\ UNCHANGED queue

WriteBegins == /\ NotPrinting(Main)
               /\ Queue!PushBuild \/ Queue!PushMoveFirst
               /\ UNCHANGED errors

WriteStep == Queue!MainStep /\ UNCHANGED errors

FlushStep == /\ NotPrinting(Worker)
             /\ Queue!WorkerStep
             /\ UNCHANGED errors

MainStep == PrintStep(Main) \/ WriteStep
WorkerStep == PrintStep(Worker) \/ FlushStep

SharedNext == \/ StartRun \/ WriteBegins
              \/ \E t \in Threads : PrintCall(t)
              \/ MainStep \/ WorkerStep

(* A call that has begun ends, and the worker does not stand still.        *)
SharedSpec == SharedInit /\ [][SharedNext]_members
FairSpec == SharedSpec /\ WF_members(MainStep) /\ WF_members(WorkerStep)
---------------------------------------------------------------------------
(* Whatever is printed meanwhile, the worker is given every request once,  *)
(* in order, and whole unless the stores of its push were swapped; and in  *)
(* the end it is given all.                                                *)
TakenWhole == Queue!TakenWhole
AllTaken == Queue!AllTaken
=============================================================================
