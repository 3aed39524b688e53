----------------------------- MODULE WriteQueue -----------------------------
(***************************************************************************)
(* write_queue, the std::queue<WriteRequest> that write_##a fills on the   *)
(* main thread and flush_all_writes empties on the worker.  No lock and no *)
(* atomic lies around it, so unlike in CommsCore a push and a pop overlap  *)
(* here.  The queue is a row of slots with two ends: push builds the       *)
(* request in the slot at the back and then moves the back, pop moves the  *)
(* front.  The stores of the push become visible to the worker in that     *)
(* order or, since nothing orders plain stores for another thread, the     *)
(* other way round; what the worker then finds in the slot is garbage.     *)
(***************************************************************************)
EXTENDS Naturals, Sequences

CONSTANTS MaxWrites    \* bound of the model: writes

Slots == 1 .. MaxWrites
Unbuilt == 0     \* a slot that holds no request yet: what is read there is garbage

VARIABLES slots, front, back,   \* the queue; requests are numbered from 1
          wakes,                \* "" messages on tag_group_queue
          mpc, wpc,             \* where write_##a and flush_all_writes are
          (* history: what process_write was given, and the requests whose  *)
          (* stores became visible the other way round                      *)
          taken, swapped

vars == <<slots, front, back, wakes, mpc, wpc, taken, swapped>>

Init == /\ slots = [i \in Slots |-> Unbuilt]
        /\ front = 1 /\ back = 1
        /\ wakes = 0
        /\ mpc = "idle" /\ wpc = "pop"
        /\ taken = << >> /\ swapped = {}

MoveBack == back' = back + 1
Build(i) == slots' = [slots EXCEPT ![i] = i]

PushBuild == /\ mpc = "idle" /\ back <= MaxWrites
             /\ Build(back)
             /\ mpc' = "built"
             /\ UNCHANGED <<front, back, wakes, wpc, taken, swapped>>

PushMove == /\ mpc = "built"
            /\ MoveBack
            /\ mpc' = "pushed"
            /\ UNCHANGED <<slots, front, wakes, wpc, taken, swapped>>

PushMoveFirst == /\ mpc = "idle" /\ back <= MaxWrites
                 /\ MoveBack
                 /\ swapped' = swapped \cup {back}
                 /\ mpc' = "moved"
                 /\ UNCHANGED <<slots, front, wakes, wpc, taken>>

PushBuildLast == /\ mpc = "moved"
                 /\ Build(back - 1)
                 /\ mpc' = "pushed"
                 /\ UNCHANGED <<front, back, wakes, wpc, taken, swapped>>

(* Mutant: the worker is not woken.                                        *)
NoWake == /\ mpc = "pushed"
          /\ mpc' = "idle"
          /\ UNCHANGED <<slots, front, back, wakes, wpc, taken, swapped>>

(* tag_group_queue.push("")                                                *)
Wake == /\ mpc = "pushed"
        /\ wakes' = wakes + 1
        /\ mpc' = "idle"
        /\ UNCHANGED <<slots, front, back, wpc, taken, swapped>>

Pop == /\ wpc = "pop" /\ wakes > 0
       /\ wakes' = wakes - 1
       /\ wpc' = "test"
       /\ UNCHANGED <<slots, front, back, mpc, taken, swapped>>

Test == /\ wpc = "test"
        /\ wpc' = IF front = back THEN "pop" ELSE "take"
        /\ UNCHANGED <<slots, front, back, wakes, mpc, taken, swapped>>

(* Mutant: the first request is read and stays in the queue.              *)
TakeAgain == /\ wpc = "take"
             /\ taken' = Append(taken, slots[front])
             /\ front' = IF taken = << >> THEN front ELSE front + 1
             /\ wpc' = "test"
             /\ UNCHANGED <<slots, back, wakes, mpc, swapped>>

Take == /\ wpc = "take"
        /\ taken' = Append(taken, slots[front])
        /\ front' = front + 1
        /\ wpc' = "test"
        /\ UNCHANGED <<slots, back, wakes, mpc, swapped>>

MainStep == PushMove \/ PushBuildLast \/ Wake
WorkerStep == Pop \/ Test \/ Take

Next == PushBuild \/ PushMoveFirst \/ MainStep \/ WorkerStep

(* A write that has begun ends, and the worker does not stand still.       *)
Spec == Init /\ [][Next]_vars
FairSpec == Spec /\ WF_vars(MainStep) /\ WF_vars(WorkerStep)
---------------------------------------------------------------------------
(* The worker is given every request once and in the order of the calls,   *)
(* although push and pop overlap; and it is given the request whole unless *)
(* the stores of its push became visible the other way round.              *)
TakenWhole == \A i \in 1 .. Len(taken) : taken[i] = i \/ (i \in swapped /\ taken[i] = Unbuilt)

(* Every request is taken.                                                 *)
AllTaken == \A i \in Slots : (back > i) ~> (Len(taken) >= i)
=============================================================================
