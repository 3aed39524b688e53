-------------------------- MODULE CoreParts_proofs --------------------------
(***************************************************************************)
(* Proofs about CoreParts: about CommsError for any set of printing        *)
(* threads, about the write_queue of SharedMembers, which goes its own way *)
(* beside them, and that the queue and the frames keep, in the             *)
(* composition, what OIPBlockingQueue_proofs and ProcessFrame_proofs prove *)
(* of them.                                                                *)
(***************************************************************************)
EXTENDS CoreParts, TLAPS

LEMMA TextIsText == ASSUME TypeOK PROVE Text \in Texts /\ Text.run = run
  BY DEF TypeOK, CountsOK, Text, Texts

(* The state stays within its types.                                       *)
THEOREM ErrorTypeOK == Spec => []TypeOK
<1>1. ASSUME Init PROVE TypeOK
  <2>1. FlagsOK
    BY <1>1 DEF Init, FlagsOK
  <2>2. CountsOK /\ PrintsOK
    BY <1>1 DEF Init, CountsOK, PrintsOK
  <2> QED
    BY <2>1, <2>2 DEF TypeOK
<1>2. ASSUME TypeOK, [Next]_vars PROVE TypeOK'
  <2>1. FlagsOK'
    BY <1>2 DEF TypeOK, FlagsOK, Next, PrintError, Emit, Store, Raise, StartSim, NewRun, vars
  <2>2. CountsOK'
    <3>1. ASSUME NEW t \in Threads, PrintError(t) \/ Store(t) \/ Raise(t) PROVE CountsOK'
      BY <1>2, <3>1 DEF TypeOK, CountsOK, PrintError, Store, Raise
    <3>2. ASSUME NEW t \in Threads, Emit(t) PROVE CountsOK'
      BY <1>2, <3>2 DEF TypeOK, CountsOK, Emit
    <3>3. CASE StartSim
      <4>1. run' = run + 1 /\ signals' = [t \in Threads |-> 0] /\ printed' = printed
        BY <3>3 DEF StartSim, NewRun
      <4> QED
        BY <1>2, <4>1 DEF TypeOK, CountsOK
    <3>4. CASE UNCHANGED vars
      BY <1>2, <3>4 DEF TypeOK, CountsOK, vars
    <3> QED
      BY <1>2, <3>1, <3>2, <3>3, <3>4 DEF Next
  <2>3. ASSUME NEW t \in Threads, PrintError(t) PROVE PrintsOK'
    BY <1>2, <2>3, TextIsText DEF PrintError, TypeOK, PrintsOK, Goto
  <2>4. ASSUME NEW t \in Threads, Emit(t) \/ Store(t) \/ Raise(t) PROVE PrintsOK'
    BY <1>2, <2>4 DEF Emit, Store, Raise, TypeOK, PrintsOK, Goto
  <2>5. ASSUME StartSim \/ UNCHANGED vars PROVE PrintsOK'
    BY <1>2, <2>5 DEF StartSim, NewRun, vars, TypeOK, PrintsOK
  <2> QED
    BY <1>2, <2>1, <2>2, <2>3, <2>4, <2>5 DEF Next, TypeOK
<1> QED
  BY <1>1, <1>2, PTL DEF Spec

(* A thread that has sent the signal is about to set the flag, or the flag *)
(* is set: it does not find it clear again before the next run.            *)
OnceInv ==
    \A t \in Threads :
        /\ pc[t] = "emit" => signals[t] = 0
        /\ signals[t] <= 1
        /\ signals[t] = 1 => comms_error \/ pc[t] \in {"store", "raise"}

(* Two threads may each send the signal of one run (SignalledOnce does not *)
(* hold); more often than that, once a thread, it is never sent.           *)
THEOREM ErrorOncePerThread == Spec => []OncePerThread
<1>1. Init => OnceInv
  BY DEF Init, OnceInv
<1>2. ASSUME TypeOK, OnceInv, [Next]_vars PROVE OnceInv'
  <2>1. ASSUME NEW t \in Threads, PrintError(t) PROVE OnceInv'
    BY <1>2, <2>1 DEF PrintError, TypeOK, CountsOK, PrintsOK, Goto, OnceInv
  <2>2. ASSUME NEW t \in Threads, Emit(t) \/ Store(t) \/ Raise(t) PROVE OnceInv'
    BY <1>2, <2>2 DEF Emit, Store, Raise, TypeOK, CountsOK, PrintsOK, Goto, OnceInv
  <2>3. CASE StartSim
    BY <1>2, <2>3 DEF StartSim, NewRun, OnceInv
  <2>4. CASE UNCHANGED vars
    BY <1>2, <2>4 DEF vars, OnceInv
  <2> QED
    BY <1>2, <2>1, <2>2, <2>3, <2>4 DEF Next
<1>3. OnceInv => OncePerThread
  BY DEF OnceInv, OncePerThread
<1> QED
  BY <1>1, <1>2, <1>3, ErrorTypeOK, PTL DEF Spec

(* In a run that began cleanly every print is of this run, so the flag and *)
(* the text are this run's as well.                                        *)
CleanInv ==
    clean => /\ \A t \in Threads :
                    /\ pc[t] # "idle" => message[t].run = run
                    /\ pc[t] \in {"store", "raise"} => signals[t] > 0
                    /\ pc[t] = "raise" => last_error # None /\ last_error.run = run
             /\ comms_error => \E t \in Threads : signals[t] > 0
             /\ ErrorOfThisRun
             /\ FailureSignalled

LEMMA CleanInvInit == ASSUME Init PROVE CleanInv
  BY DEF Init, CleanInv, ErrorOfThisRun, FailureSignalled

LEMMA CleanInvKept == ASSUME TypeOK, CleanInv, [Next]_vars PROVE CleanInv'
<1> USE ErrorAssumption DEF ErrorAssumption
<1> USE DEF CleanInv, ErrorOfThisRun, FailureSignalled, TypeOK, CountsOK, PrintsOK
<1>1. ASSUME NEW t \in Threads, PrintError(t) PROVE CleanInv'
  <2>1. Text.run = run
    BY TextIsText
  <2> QED
    BY <1>1, <2>1 DEF PrintError, Goto
<1>2. ASSUME NEW t \in Threads, Emit(t) PROVE CleanInv'
  BY <1>2 DEF Emit, Goto
<1>3. ASSUME NEW t \in Threads, Store(t) PROVE CleanInv'
  BY <1>3 DEF Store, Goto
<1>4. ASSUME NEW t \in Threads, Raise(t) PROVE CleanInv'
  BY <1>4 DEF Raise, Goto
<1>5. CASE StartSim
  BY <1>5 DEF StartSim, NewRun
<1>6. CASE UNCHANGED vars
  BY <1>6 DEF vars
<1> QED
  BY <1>1, <1>2, <1>3, <1>4, <1>5, <1>6 DEF Next

(* No run that began cleanly fails in silence.                             *)
THEOREM ErrorFailureSignalled == Spec => []FailureSignalled
<1>1. Init => CleanInv
  BY CleanInvInit
<1>2. TypeOK /\ CleanInv /\ [Next]_vars => CleanInv'
  BY CleanInvKept
<1>3. CleanInv => FailureSignalled
  BY DEF CleanInv, FailureSignalled
<1> QED
  BY <1>1, <1>2, <1>3, ErrorTypeOK, PTL DEF Spec

(* The stored text belongs to the run whose flag is set.                   *)
THEOREM ErrorErrorOfThisRun == Spec => []ErrorOfThisRun
<1>1. Init => CleanInv
  BY CleanInvInit
<1>2. TypeOK /\ CleanInv /\ [Next]_vars => CleanInv'
  BY CleanInvKept
<1>3. CleanInv => ErrorOfThisRun
  BY DEF CleanInv, ErrorOfThisRun
<1> QED
  BY <1>1, <1>2, <1>3, ErrorTypeOK, PTL DEF Spec
---------------------------------------------------------------------------
(* What the two threads do with comms_error is a behaviour of CommsError,  *)
(* whatever happens to the writes, so that its theorems hold of both.      *)
LEMMA ErrorStep == [SharedNext]_members => [Next]_vars
<1>1. StartRun => Next
  BY DEF StartRun, Next
<1>2. ASSUME NEW t \in Threads, PrintCall(t) \/ PrintStep(t) PROVE Next
  BY <1>2 DEF PrintCall, PrintStep, Next
<1>3. Main \in Threads /\ Worker \in Threads
  BY SharedAssumption DEF SharedAssumption
<1>4. WriteBegins \/ WriteStep \/ FlushStep \/ UNCHANGED members => UNCHANGED vars
  BY DEF WriteBegins, WriteStep, FlushStep, members, errors
<1> QED
  BY <1>1, <1>2, <1>3, <1>4 DEF SharedNext, MainStep, WorkerStep

(* The errors of the composition are those of CommsError.                  *)
THEOREM SharedErrors == SharedSpec => Spec
<1>1. SharedInit => Init
  BY DEF SharedInit
<1> QED
  BY <1>1, ErrorStep, PTL DEF SharedSpec, Spec

LEMMA QueueStep == [SharedNext]_members => [Queue!Next]_(Queue!vars)
<1>1. UNCHANGED queue => UNCHANGED Queue!vars
  BY DEF queue, Queue!vars
<1>2. ASSUME NEW t \in Threads, PrintCall(t) \/ PrintStep(t) PROVE UNCHANGED queue
  BY <1>2 DEF PrintCall, PrintStep
<1>3. Main \in Threads /\ Worker \in Threads
  BY SharedAssumption DEF SharedAssumption
<1>4. StartRun \/ UNCHANGED members => UNCHANGED queue
  BY DEF StartRun, members
<1>5. WriteBegins \/ WriteStep \/ FlushStep => Queue!Next
  BY DEF WriteBegins, WriteStep, FlushStep, Queue!Next
<1> QED
  BY <1>1, <1>2, <1>3, <1>4, <1>5 DEF SharedNext, MainStep, WorkerStep

(* What the queue holds: everything before the front was taken, what lies  *)
(* between the ends is built, but for the last slot of a swapped push.     *)
Numbered == /\ front \in Nat \ {0} /\ back \in Nat \ {0} /\ front <= back
            /\ slots \in [Queue!Slots -> Nat]
            /\ taken \in Seq(Nat) /\ Len(taken) = front - 1
            /\ mpc \in {"idle", "built", "moved", "pushed"}
            /\ wpc \in {"pop", "test", "take"}
            /\ mpc = "built" => back <= MaxWrites
            /\ mpc = "moved" => back > 1 /\ back - 1 \in swapped
            /\ back <= MaxWrites + 1
            /\ wpc = "take" => front < back
Built == \A i \in 1 .. back - 1 :
             slots[i] = i \/ (mpc = "moved" /\ i = back - 1 /\ slots[i] = 0)
Unbuilt == \A i \in Queue!Slots : i >= back => slots[i] = 0 \/ (mpc = "built" /\ i = back)
NextIsBuilt == mpc = "built" => slots[back] = back
QueueInv == Numbered /\ Built /\ Unbuilt /\ NextIsBuilt /\ TakenWhole

LEMMA QueueInvKept == ASSUME QueueInv, [Queue!Next]_(Queue!vars) PROVE QueueInv'
<1> USE SharedAssumption DEF SharedAssumption, QueueInv, Numbered, Built, Unbuilt, NextIsBuilt,
        TakenWhole, Queue!TakenWhole, Queue!Slots, Queue!Unbuilt
<1>1. CASE Queue!PushBuild
  BY <1>1 DEF Queue!PushBuild, Queue!Build
<1>2. CASE Queue!PushMove
  <2>1. /\ mpc = "built" /\ mpc' = "pushed" /\ back' = back + 1
        /\ UNCHANGED <<slots, front, wpc, taken, swapped>>
    BY <1>2 DEF Queue!PushMove, Queue!MoveBack
  <2>2. Numbered' /\ NextIsBuilt' /\ TakenWhole'
    BY <2>1
  <2>3. Built'
    <3>1. ASSUME NEW i \in 1 .. back PROVE slots[i] = i
      <4>1. CASE i = back
        BY <2>1, <4>1
      <4>2. CASE i \in 1 .. back - 1
        BY <2>1, <4>2
      <4> QED
        BY <4>1, <4>2
    <3> QED
      BY <2>1, <3>1
  <2>4. Unbuilt'
    BY <2>1
  <2> QED
    BY <2>2, <2>3, <2>4
<1>3. CASE Queue!PushMoveFirst
  BY <1>3 DEF Queue!PushMoveFirst, Queue!MoveBack
<1>4. CASE Queue!PushBuildLast
  BY <1>4 DEF Queue!PushBuildLast, Queue!Build
<1>5. CASE Queue!Wake
  BY <1>5 DEF Queue!Wake
<1>6. CASE Queue!Pop \/ Queue!Test
  <2>1. UNCHANGED <<slots, front, back, mpc, taken, swapped>>
    BY <1>6 DEF Queue!Pop, Queue!Test
  <2>2. wpc' \in {"pop", "test", "take"} /\ (wpc' = "take" => front < back)
    BY <1>6 DEF Queue!Pop, Queue!Test
  <2>3. Numbered'
    BY <2>1, <2>2
  <2>4. Built' /\ Unbuilt' /\ NextIsBuilt' /\ TakenWhole'
    BY <2>1
  <2> QED
    BY <2>3, <2>4
<1>7. CASE Queue!Take
  <2>1. /\ taken' = Append(taken, slots[front]) /\ front' = front + 1
        /\ UNCHANGED <<slots, back, mpc, swapped>> /\ wpc' = "test" /\ front < back
    BY <1>7 DEF Queue!Take
  <2>2. front \in 1 .. back - 1 /\ front \in 1 .. MaxWrites /\ slots[front] \in Nat
    BY <2>1
  <2>3. slots[front] = front \/ (front \in swapped /\ slots[front] = 0)
    BY <2>2
  <2>4. /\ taken' \in Seq(Nat) /\ Len(taken') = Len(taken) + 1
        /\ \A i \in 1 .. Len(taken) : taken'[i] = taken[i]
        /\ taken'[Len(taken) + 1] = slots[front]
    BY <2>1, <2>2
  <2>5. TakenWhole'
    <3>1. ASSUME NEW i \in 1 .. Len(taken')
          PROVE  taken'[i] = i \/ (i \in swapped /\ taken'[i] = 0)
      <4>1. CASE i \in 1 .. Len(taken)
        BY <2>4, <4>1
      <4>2. CASE i = front
        BY <2>3, <2>4, <4>2
      <4> QED
        BY <2>4, <4>1, <4>2
    <3> QED
      BY <2>1, <3>1
  <2> QED
    BY <2>1, <2>4, <2>5
<1>8. CASE UNCHANGED Queue!vars
  BY <1>8 DEF Queue!vars
<1> QED
  BY <1>1, <1>2, <1>3, <1>4, <1>5, <1>6, <1>7, <1>8
  DEF Queue!Next, Queue!MainStep, Queue!WorkerStep

(* Requests are taken once, in order, and whole unless their stores were   *)
(* swapped, for any number of writes and whatever is printed meanwhile.    *)
THEOREM SharedTakenWhole == SharedSpec => []TakenWhole
<1>1. SharedInit => QueueInv
  BY SharedAssumption
  DEF SharedAssumption, SharedInit, Queue!Init, QueueInv, Numbered, Built, Unbuilt, NextIsBuilt,
      TakenWhole, Queue!TakenWhole, Queue!Slots, Queue!Unbuilt
<1>2. QueueInv /\ [SharedNext]_members => QueueInv'
  BY QueueStep, QueueInvKept
<1>3. QueueInv => TakenWhole
  BY DEF QueueInv
<1> QED
  BY <1>1, <1>2, <1>3, PTL DEF SharedSpec
---------------------------------------------------------------------------
(* The parts as they stand in CoreParts have the theorems of their own     *)
(* modules.  QueueProofs and FrameProofs say of the same variables what    *)
(* Blocking and Frames say, definition by definition.                      *)
QueueProofs == INSTANCE OIPBlockingQueue_proofs WITH queue <- tg_queue, pc <- tpc
FrameProofs == INSTANCE ProcessFrame_proofs

LEMMA SameQueue ==
    /\ Blocking!Init <=> QueueProofs!Init
    /\ Blocking!Next <=> QueueProofs!Next
    /\ Blocking!NoLostWakeup <=> QueueProofs!NoLostWakeup
<1> USE DEF Blocking!Users, QueueProofs!Users, Blocking!Goto, QueueProofs!Goto,
       Blocking!Lock, QueueProofs!Lock, Blocking!Unlock, QueueProofs!Unlock,
       Blocking!Waiting, QueueProofs!Waiting
<1>1. Blocking!Init <=> QueueProofs!Init
  BY DEF Blocking!Init, QueueProofs!Init
<1>2. ASSUME NEW p
      PROVE  Blocking!ProducerStep(p) <=> QueueProofs!ProducerStep(p)
  BY DEF Blocking!ProducerStep, Blocking!PushEnqueue, Blocking!PushNotify,
     Blocking!ShutdownSet, Blocking!ShutdownNotify,
     QueueProofs!ProducerStep, QueueProofs!PushEnqueue, QueueProofs!PushNotify,
     QueueProofs!ShutdownSet, QueueProofs!ShutdownNotify
<1>3. ASSUME NEW p
      PROVE  /\ Blocking!ShutdownLock(p) <=> QueueProofs!ShutdownLock(p)
             /\ \A m : Blocking!PushLock(p, m) <=> QueueProofs!PushLock(p, m)
  BY DEF Blocking!ShutdownLock, Blocking!PushLock, 
     QueueProofs!ShutdownLock, QueueProofs!PushLock
<1>4. ASSUME NEW c
      PROVE  /\ Blocking!ConsumerStep(c) <=> QueueProofs!ConsumerStep(c)
             /\ Blocking!PopLock(c) <=> QueueProofs!PopLock(c)
             /\ Blocking!SpuriousWake(c) <=> QueueProofs!SpuriousWake(c)
  BY DEF Blocking!ConsumerStep, Blocking!PopTest, Blocking!PopSleep, Blocking!PopTake,
     Blocking!PopLock, Blocking!SpuriousWake,
     QueueProofs!ConsumerStep, QueueProofs!PopTest, QueueProofs!PopSleep, QueueProofs!PopTake,
     QueueProofs!PopLock, QueueProofs!SpuriousWake
<1>5. Blocking!Next <=> QueueProofs!Next
  BY <1>2, <1>3, <1>4 DEF Blocking!Next, QueueProofs!Next
<1>6. Blocking!NoLostWakeup <=> QueueProofs!NoLostWakeup
  BY DEF Blocking!NoLostWakeup, QueueProofs!NoLostWakeup, Blocking!Notifying, QueueProofs!Notifying
<1> QED
  BY <1>1, <1>5, <1>6

(* A step of another part is a stutter of the queue.                       *)
LEMMA BlockingStep == [PartsNext]_parts => [Blocking!Next]_(Blocking!vars)
<1>1. UNCHANGED blocking => UNCHANGED Blocking!vars
  BY DEF blocking, Blocking!vars
<1>2. CASE QueueOnly /\ Blocking!Next
  BY <1>2 DEF QueueOnly
<1>3. CASE (FramesOnly /\ Frames!Next) \/ (MembersOnly /\ SharedNext) \/ UNCHANGED parts
  BY <1>1, <1>3 DEF FramesOnly, MembersOnly, parts
<1> QED
  BY <1>2, <1>3 DEF PartsNext

(* The queue of the composition is an OIPBlockingQueue.                    *)
THEOREM PartsQueue == PartsSpec => Blocking!Spec
<1>1. PartsInit => Blocking!Init
  BY DEF PartsInit
<1> QED
  BY <1>1, BlockingStep, PTL DEF PartsSpec, Blocking!Spec

(* So that the theorems about OIPBlockingQueue are about it.               *)
THEOREM QueueSpecs == Blocking!Spec => QueueProofs!Spec
<1>1. Blocking!Init => QueueProofs!Init
  BY SameQueue
<1>2. [Blocking!Next]_(Blocking!vars) => [QueueProofs!Next]_(QueueProofs!vars)
  BY SameQueue DEF Blocking!vars, QueueProofs!vars
<1> QED
  BY <1>1, <1>2, PTL DEF Blocking!Spec, QueueProofs!Spec

(* No wake-up of the queue is lost, whatever else happens.                 *)
THEOREM PartsNoLostWakeup == PartsSpec => []NoLostWakeup
<1>2. QueueProofs!Spec => []QueueProofs!NoLostWakeup
  BY QueueProofs!QueueNoLostWakeup, QueueAssumption
<1>3. QueueProofs!NoLostWakeup => NoLostWakeup
  BY SameQueue DEF NoLostWakeup
<1> QED
  BY <1>2, <1>3, PartsQueue, QueueSpecs, PTL

(* push, pop and shutdown are those of a closable first-in first-out queue.*)
THEOREM PartsImplementsFifo == PartsSpec => ImplementsFifo
<1>1. QueueProofs!Spec => QueueProofs!ImplementsFifo
  BY QueueProofs!QueueImplementsFifo, QueueAssumption
<1>2. QueueProofs!Fifo!Init => Blocking!Fifo!Init
  BY DEF QueueProofs!Fifo!Init, Blocking!Fifo!Init
<1>3. [QueueProofs!Fifo!Next]_(QueueProofs!Fifo!vars) => [Blocking!Fifo!Next]_(Blocking!Fifo!vars)
  BY DEF QueueProofs!Fifo!vars, Blocking!Fifo!vars, QueueProofs!Fifo!Next, Blocking!Fifo!Next,
     QueueProofs!Fifo!Enqueue, Blocking!Fifo!Enqueue, QueueProofs!Fifo!Close, Blocking!Fifo!Close,
     QueueProofs!Fifo!Dequeue, Blocking!Fifo!Dequeue,
     QueueProofs!Fifo!DequeueClosed, Blocking!Fifo!DequeueClosed
<1> QED
  BY <1>1, <1>2, <1>3, PartsQueue, QueueSpecs, PTL
  DEF ImplementsFifo, Blocking!ImplementsFifo, QueueProofs!ImplementsFifo,
      QueueProofs!Fifo!SafeSpec, Blocking!Fifo!SafeSpec
---------------------------------------------------------------------------
LEMMA SameFrames ==
    /\ Frames!Init <=> FrameProofs!Init
    /\ Frames!Next <=> FrameProofs!Next
    /\ Frames!NoPollMissed <=> FrameProofs!NoPollMissed
    /\ Frames!StartedInTime <=> FrameProofs!StartedInTime
<1> USE DEF Frames!settings, FrameProofs!settings, Frames!timers, FrameProofs!timers
<1>1. Frames!Init <=> FrameProofs!Init
  BY DEF Frames!Init, FrameProofs!Init
<1>2. Frames!Frame <=> FrameProofs!Frame
  BY DEF Frames!Frame, Frames!DueGroups, Frames!Due, Frames!Delta, Frames!Counting,
     Frames!Started, FrameProofs!Frame, FrameProofs!DueGroups, FrameProofs!Due,
     FrameProofs!Delta, FrameProofs!Counting, FrameProofs!Started
<1>3. ASSUME NEW g, NEW b
      PROVE  /\ Frames!RegisterTagGroup(g) <=> FrameProofs!RegisterTagGroup(g)
             /\ Frames!SetSimRunning(b) <=> FrameProofs!SetSimRunning(b)
             /\ Frames!SetEnableComms(b) <=> FrameProofs!SetEnableComms(b)
  BY DEF Frames!RegisterTagGroup, Frames!SetSimRunning, Frames!SetEnableComms,
     FrameProofs!RegisterTagGroup, FrameProofs!SetSimRunning, FrameProofs!SetEnableComms
<1>4. /\ Frames!Tick <=> FrameProofs!Tick
      /\ Frames!ClearTagGroups <=> FrameProofs!ClearTagGroups
      /\ Frames!FrameIdle <=> FrameProofs!FrameIdle
  BY DEF Frames!Tick, Frames!ClearTagGroups, Frames!FrameIdle,
     FrameProofs!Tick, FrameProofs!ClearTagGroups, FrameProofs!FrameIdle
<1>5. Frames!Next <=> FrameProofs!Next
  BY <1>2, <1>3, <1>4 DEF Frames!Next, FrameProofs!Next
<1>6. /\ Frames!NoPollMissed <=> FrameProofs!NoPollMissed
      /\ Frames!StartedInTime <=> FrameProofs!StartedInTime
  BY DEF Frames!NoPollMissed, FrameProofs!NoPollMissed, Frames!StartedInTime,
     FrameProofs!StartedInTime, Frames!Started, FrameProofs!Started
<1> QED
  BY <1>1, <1>5, <1>6

(* A step of another part is a stutter of the clockwork.                   *)
LEMMA FramesStep == [PartsNext]_parts => [Frames!Next]_(Frames!vars)
<1>1. UNCHANGED frames => UNCHANGED Frames!vars
  BY DEF frames, Frames!vars, Frames!settings, Frames!timers, Frames!history
<1>2. CASE FramesOnly /\ Frames!Next
  BY <1>2 DEF FramesOnly
<1>3. CASE (QueueOnly /\ Blocking!Next) \/ (MembersOnly /\ SharedNext) \/ UNCHANGED parts
  BY <1>1, <1>3 DEF QueueOnly, MembersOnly, parts
<1> QED
  BY <1>2, <1>3 DEF PartsNext

(* The frames of the composition are those of ProcessFrame.                *)
THEOREM PartsFrames == PartsSpec => FrameProofs!Spec
<1>1. PartsInit => FrameProofs!Init
  BY SameFrames DEF PartsInit
<1>2. [PartsNext]_parts => [FrameProofs!Next]_(FrameProofs!vars)
  BY SameFrames, FramesStep
  DEF Frames!vars, Frames!settings, Frames!timers, Frames!history,
      FrameProofs!vars, FrameProofs!settings, FrameProofs!timers, FrameProofs!history
<1> QED
  BY <1>1, <1>2, PTL DEF PartsSpec, FrameProofs!Spec

(* No frame leaves a group behind whose polling interval has passed.       *)
THEOREM PartsNoPollMissed == PartsSpec => []NoPollMissed
<1>1. FrameProofs!Spec => []FrameProofs!NoPollMissed
  BY FrameProofs!FrameNoPollMissed, FrameAssumption
<1>2. FrameProofs!NoPollMissed => NoPollMissed
  BY SameFrames DEF NoPollMissed
<1> QED
  BY <1>1, <1>2, PartsFrames, PTL

(* The check for initialized groups begins once frames have covered the    *)
(* wait.                                                                   *)
THEOREM PartsStartedInTime == PartsSpec => []StartedInTime
<1>1. FrameProofs!Spec => []FrameProofs!StartedInTime
  BY FrameProofs!FrameStartedInTime, FrameAssumption
<1>2. FrameProofs!StartedInTime => StartedInTime
  BY SameFrames DEF StartedInTime
<1> QED
  BY <1>1, <1>2, PartsFrames, PTL

(* Two polls of a group are at least its polling interval apart.           *)
THEOREM PartsPollSpacing == PartsSpec => PollSpacing
<1>1. FrameProofs!Spec => FrameProofs!PollSpacing
  BY FrameProofs!FramePollSpacing, FrameAssumption
<1>2. FrameProofs!PollSpacing => PollSpacing
  BY PTL DEF PollSpacing, Frames!PollSpacing, FrameProofs!PollSpacing,
      Frames!vars, Frames!settings, Frames!timers, Frames!history,
      FrameProofs!vars, FrameProofs!settings, FrameProofs!timers, FrameProofs!history
<1> QED
  BY <1>1, <1>2, PartsFrames, PTL
---------------------------------------------------------------------------
LEMMA MembersStep == [PartsNext]_parts => [SharedNext]_members
<1>1. CASE MembersOnly /\ SharedNext
  BY <1>1
<1>2. CASE (QueueOnly /\ Blocking!Next) \/ (FramesOnly /\ Frames!Next) \/ UNCHANGED parts
  BY <1>2 DEF QueueOnly, FramesOnly, parts
<1> QED
  BY <1>1, <1>2 DEF PartsNext

(* The members without a lock are used as in SharedMembers, so that the    *)
(* theorems above hold of the composition.                                 *)
THEOREM PartsShared == PartsSpec => SharedSpec
<1>1. PartsInit => SharedInit
  BY DEF PartsInit
<1> QED
  BY <1>1, MembersStep, PTL DEF PartsSpec, SharedSpec
=============================================================================
