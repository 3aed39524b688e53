-------------------------- MODULE CommsCore_proofs --------------------------
(***************************************************************************)
(* Proofs about CommsCore for any groups, tags and bounds, and for every   *)
(* way of using the API that the constants select.                         *)
(***************************************************************************)
EXTENDS CommsCore, FiniteSetTheorems, TLAPS

(* The messages and writes that the code builds are of their types.        *)
LEMMA MessageTypes == /\ Wake \in Messages
                      /\ PollServer \in Messages
                      /\ \A g \in Groups : Poll(g) \in Messages
                      /\ \A n \in Nat : Cleanup(n) \in Messages
  BY DEF Wake, Poll, PollServer, Cleanup, Messages

(* A tag that is open or ready has at least one handle, so closing its     *)
(* handle never counts below zero.                                         *)
HandlesCover == \A g \in Groups, t \in Tags : HasHandle(g, t) => handles[g][t] >= 1

TypeInv == TypeOK /\ HandlesCover

LEMMA InitTypeInv == ASSUME Init PROVE TypeInv
<1>1. Wake \in Messages
  BY MessageTypes
<1>2. NoTags \in [Tags -> TagStates]
  BY DEF NoTags, TagStates
<1>3. << >> \in Seq(Writes) /\ << >> \in Seq(Messages)
  OBVIOUS
<1>4. TypeOK
  BY <1>1, <1>2, <1>3 DEF Init, TypeOK, FlagsOK, GroupsOK, QueuesOK, MainOK, WorkerOK, HistoryOK,
     MainPC, WorkerPC
<1>5. HandlesCover
  BY DEF Init, HandlesCover, HasHandle, NoTags
<1> QED
  BY <1>4, <1>5 DEF TypeInv

(* Closing the handles of a group leaves handle counts.                    *)
LEMMA HandlesClosedType ==
    ASSUME TypeInv, NEW g \in Groups
    PROVE  HandlesClosed(g) \in [Tags -> Nat]
<1> SUFFICES ASSUME NEW t \in Tags
    PROVE  (IF HasHandle(g, t) THEN handles[g][t] - 1 ELSE handles[g][t]) \in Nat
  BY DEF HandlesClosed
<1>1. handles[g][t] \in Nat
  BY DEF TypeInv, TypeOK, GroupsOK
<1>2. HasHandle(g, t) => handles[g][t] >= 1
  BY DEF TypeInv, HandlesCover
<1> QED
  BY <1>1, <1>2

(* What a step leaves alone keeps its type.                                *)
LEMMA KeptTypes ==
    ASSUME TypeInv
    PROVE  /\ UNCHANGED flags => FlagsOK'
           /\ UNCHANGED groups => GroupsOK' /\ HandlesCover'
           /\ UNCHANGED queues => QueuesOK'
           /\ UNCHANGED main => MainOK'
           /\ UNCHANGED worker => WorkerOK'
           /\ UNCHANGED history => HistoryOK'
<1>1. UNCHANGED flags => FlagsOK'
  BY DEF TypeInv, TypeOK, flags, FlagsOK
<1>2. UNCHANGED groups => GroupsOK' /\ HandlesCover'
  BY DEF TypeInv, TypeOK, groups, GroupsOK, HandlesCover, HasHandle
<1>3. UNCHANGED queues => QueuesOK'
  BY DEF TypeInv, TypeOK, queues, QueuesOK
<1>4. UNCHANGED main => MainOK'
  BY DEF TypeInv, TypeOK, main, MainOK
<1>5. UNCHANGED worker => WorkerOK'
  BY DEF TypeInv, TypeOK, worker, WorkerOK
<1>6. UNCHANGED history => HistoryOK'
  BY DEF TypeInv, TypeOK, history, HistoryOK
<1> QED
  BY <1>1, <1>2, <1>3, <1>4, <1>5, <1>6

(* The client's calls.                                                     *)
LEMMA ClientTypeInv == ASSUME TypeInv, Client PROVE TypeInv'
<1> USE KeptTypes, MessageTypes, CoreAssumption DEF CoreAssumption, TypeInv, TypeOK
<1>1. ASSUME NEW g \in Groups, RegisterTagGroup(g) PROVE TypeInv'
  BY <1>1 DEF RegisterTagGroup, GroupsOK, HistoryOK, HandlesCover, HasHandle, NoTags, TagStates
<1>2. ASSUME NEW g \in Groups, NEW t \in Tags, RegisterTag(g, t) PROVE TypeInv'
  BY <1>2 DEF RegisterTag, GroupsOK, HistoryOK, HandlesCover, HasHandle, TagStates
<1>3. ASSUME NEW g \in Groups, NEW t \in Tags, WriteGate(g, t) PROVE TypeInv'
  BY <1>3 DEF WriteGate, MainOK, MainPC, Requests
<1>4. ASSUME NEW b \in BOOLEAN, SetEnableComms(b) PROVE TypeInv'
  BY <1>4 DEF SetEnableComms, FlagsOK
<1>5. CASE StartSim
  BY <1>5 DEF StartSim, FlagsOK
<1>6. CASE StopSim
  <2>1. FlagsOK' /\ MainOK'
    BY <1>6 DEF StopSim, FlagsOK, MainOK, MainPC
  <2>2. HistoryOK'
    BY <1>6 DEF StopSim, HistoryOK
  <2> QED
    BY <1>6, <2>1, <2>2 DEF StopSim
<1>7. CASE ClearTagGroups
  BY <1>7, HandlesClosedType
  DEF ClearTagGroups, CleanAllGroups, ForgetGroups, GroupsOK, HistoryOK, HandlesCover, HasHandle,
      NoTags, TagStates
<1>8. CASE FrameStart
  BY <1>8 DEF FrameStart, MainOK, MainPC, GroupsOK
<1>9. CASE FrameStopped
  BY <1>9 DEF FrameStopped, MainOK, MainPC
<1>10. CASE QuitSignal
  BY <1>10 DEF QuitSignal, FlagsOK, MainOK, MainPC
<1> QED
  BY <1>1, <1>2, <1>3, <1>4, <1>5, <1>6, <1>7, <1>8, <1>9, <1>10 DEF Client

(* The main thread inside a call.                                          *)
LEMMA MainTypeInv == ASSUME TypeInv, MainStep PROVE TypeInv'
<1> USE KeptTypes, MessageTypes, CoreAssumption DEF CoreAssumption, TypeInv, TypeOK
<1>1. CASE StopPush
  BY <1>1 DEF StopPush, QueuesOK, MainOK, MainPC, HistoryOK
<1>2. CASE WriteWake
  BY <1>2 DEF WriteWake, QueuesOK, MainOK, MainPC
<1>3. ASSUME NEW g \in Groups, FrameGroup(g) PROVE TypeInv'
  BY <1>3 DEF FrameGroup, QueuesOK, MainOK, MainPC
<1>4. CASE FrameEmit
  BY <1>4 DEF FrameEmit, MainOK, MainPC, GroupsOK, HandlesCover, HasHandle
<1>5. CASE FrameEnd
  <2>1. MainOK'
    BY <1>5 DEF FrameEnd, MainOK, MainPC
  <2>2. QueuesOK'
    <3>1. Append(tag_group_queue, PollServer) \in Seq(Messages)
      BY MessageTypes DEF QueuesOK
    <3> QED
      BY <1>5, <3>1 DEF FrameEnd, QueuesOK
  <2> QED
    BY <1>5, <2>1, <2>2 DEF FrameEnd
<1>6. CASE QuitShutdown
  BY <1>6 DEF QuitShutdown, QueuesOK, MainOK, MainPC
<1>7. CASE QuitJoin
  BY <1>7, HandlesClosedType
  DEF QuitJoin, CleanAllGroups, MainOK, MainPC, GroupsOK, HandlesCover, HasHandle, NoTags, TagStates
<1>8. CASE WritePush
  <2>1. [id |-> accepted + 1, group |-> request.group, tag |-> request.tag, run |-> stops]
            \in Writes
    BY <1>8 DEF WritePush, MainOK, Requests, Writes, HistoryOK
  <2>2. QueuesOK' /\ HistoryOK'
    BY <1>8, <2>1 DEF WritePush, QueuesOK, HistoryOK
  <2>3. MainOK'
    BY <1>8 DEF WritePush, MainOK, MainPC
  <2> QED
    BY <1>8, <2>2, <2>3 DEF WritePush
<1> QED
  BY <1>1, <1>2, <1>3, <1>4, <1>5, <1>6, <1>7, <1>8 DEF MainStep

(* operator[] enters a ghost, which has no handle.                         *)
LEMMA LookUpType ==
    ASSUME TypeInv, NEW g \in Groups, NEW t \in Tags, LookUp(g, t),
           UNCHANGED <<tag_group_order, init_count, init_count_emitted, has_error, handles>>
    PROVE  GroupsOK' /\ HandlesCover'
  BY DEF TypeInv, TypeOK, LookUp, GroupsOK, HandlesCover, HasHandle, TagStates

(* The worker.                                                             *)
LEMMA WorkerTypeInv == ASSUME TypeInv, WorkerStep PROVE TypeInv'
<1> USE KeptTypes, CoreAssumption DEF CoreAssumption, TypeInv, TypeOK
<1>1. CASE WorkerLoop
  BY <1>1, MessageTypes DEF WorkerLoop, WorkerOK, WorkerPC
<1>2. CASE WorkerPop
  <2>1. item' \in Messages /\ QueuesOK'
    <3>1. tag_group_queue \in Seq(Messages)
      BY DEF QueuesOK
    <3>2. tag_group_queue # << >> =>
              Head(tag_group_queue) \in Messages /\ Tail(tag_group_queue) \in Seq(Messages)
      BY <3>1
    <3>3. item' \in Messages /\ tag_group_queue' \in Seq(Messages)
      BY <1>2, <3>1, <3>2, MessageTypes DEF WorkerPop
    <3>4. UNCHANGED <<write_queue, queue_stop>>
      BY <1>2 DEF WorkerPop
    <3> QED
      BY <3>3, <3>4 DEF QueuesOK
  <2>2. WorkerOK'
    BY <1>2, <2>1 DEF WorkerPop, WorkerOK, WorkerPC
  <2> QED
    BY <1>2, <2>1, <2>2 DEF WorkerPop
<1>3. CASE WorkerDispatch
  BY <1>3 DEF WorkerDispatch, WorkerOK, WorkerPC
<1>4. CASE WriteBegin
  <2>1. Head(write_queue) \in Writes /\ Tail(write_queue) \in Seq(Writes)
    BY <1>4 DEF WriteBegin, QueuesOK
  <2>2. GroupsOK' /\ HandlesCover'
    BY <1>4, <2>1, LookUpType DEF WriteBegin, Writes
  <2>3. QueuesOK'
    BY <1>4, <2>1 DEF WriteBegin, QueuesOK
  <2>4. WorkerOK'
    BY <1>4, <2>1 DEF WriteBegin, WorkerOK, TakenWrites, HasHandle
  <2> QED
    BY <1>4, <2>2, <2>3, <2>4 DEF WriteBegin
<1>5. CASE WriteEnd
  <2>1. write.req \in Writes /\ write.sent \in BOOLEAN
    BY <1>5 DEF WriteEnd, WorkerOK, TakenWrites
  <2>2. GroupsOK' /\ HandlesCover'
    BY <1>5, <2>1, LookUpType DEF WriteEnd, Writes, groups
  <2>3. WorkerOK' /\ HistoryOK'
    BY <1>5, <2>1 DEF WriteEnd, WorkerOK, HistoryOK, Writes
  <2> QED
    BY <1>5, <2>2, <2>3 DEF WriteEnd
<1>6. CASE FlushDone
  BY <1>6 DEF FlushDone, WorkerOK, WorkerPC, GroupsOK
<1>7. ASSUME NEW g \in Groups, ReleaseTags(g) PROVE TypeInv'
  BY <1>7, HandlesClosedType
  DEF ReleaseTags, WorkerOK, WorkerPC, GroupsOK, HandlesCover, HasHandle, NoTags, TagStates
<1>8. CASE ResetGroup
  BY <1>8 DEF ResetGroup, WorkerOK, WorkerPC, GroupsOK, HandlesCover, HasHandle
<1>9. CASE ReleaseDone
  BY <1>9 DEF ReleaseDone, WorkerOK, WorkerPC
<1>10. CASE Decide
  BY <1>10 DEF Decide, WorkerOK, WorkerPC, GroupsOK
<1>11. ASSUME NEW t \in Tags, TagCreate(t) PROVE TypeInv'
  <2>1. wgroup \in Groups /\ plc_tags[wgroup][t] \in {"new", "ghost"}
    BY <1>11 DEF TagCreate, WorkerOK
  <2>2. GroupsOK' /\ HandlesCover'
    <3>1. CASE /\ plc_tags' = [plc_tags EXCEPT ![wgroup][t] = "open"]
               /\ handles' = [handles EXCEPT ![wgroup][t] = @ + 1]
               /\ init_count' = [init_count EXCEPT ![wgroup] = @ + 1]
               /\ UNCHANGED has_error
      <4>1. \A g \in Groups, u \in Tags :
               /\ plc_tags'[g][u] = IF g = wgroup /\ u = t THEN "open" ELSE plc_tags[g][u]
               /\ handles'[g][u] = IF g = wgroup /\ u = t THEN handles[g][u] + 1 ELSE handles[g][u]
        BY <2>1, <3>1 DEF GroupsOK
      <4>2. GroupsOK'
        BY <1>11, <2>1, <3>1 DEF TagCreate, GroupsOK, TagStates
      <4>3. HandlesCover'
        BY <4>1 DEF HandlesCover, HasHandle, GroupsOK
      <4> QED
        BY <4>2, <4>3
    <3>2. CASE /\ has_error' = [has_error EXCEPT ![wgroup] = TRUE]
               /\ UNCHANGED <<plc_tags, handles, init_count>>
      BY <1>11, <2>1, <3>2 DEF TagCreate, GroupsOK, HandlesCover, HasHandle
    <3> QED
      BY <1>11, <3>1, <3>2 DEF TagCreate
  <2>3. WorkerOK'
    BY <1>11 DEF TagCreate, WorkerOK, WorkerPC
  <2> QED
    BY <1>11, <2>2, <2>3 DEF TagCreate
<1>12. ASSUME NEW t \in Tags, TagRead(t) PROVE TypeInv'
  <2>1. wgroup \in Groups /\ HasHandle(wgroup, t) /\ UNCHANGED handles
    BY <1>12 DEF TagRead, WorkerOK
  <2>2. GroupsOK' /\ HandlesCover'
    <3>1. CASE /\ plc_tags' = [plc_tags EXCEPT ![wgroup][t] = "ready"]
               /\ UNCHANGED has_error
      <4>1. \A g \in Groups, u \in Tags :
               plc_tags'[g][u] = IF g = wgroup /\ u = t THEN "ready" ELSE plc_tags[g][u]
        BY <2>1, <3>1 DEF GroupsOK
      <4>2. GroupsOK'
        BY <1>12, <2>1, <3>1 DEF TagRead, GroupsOK, TagStates
      <4>3. HandlesCover'
        BY <2>1, <4>1 DEF HandlesCover, HasHandle
      <4> QED
        BY <4>2, <4>3
    <3>2. CASE /\ has_error' = [has_error EXCEPT ![wgroup] = TRUE]
               /\ UNCHANGED plc_tags
      BY <1>12, <2>1, <3>2 DEF TagRead, GroupsOK, HandlesCover, HasHandle
    <3> QED
      BY <1>12, <3>1, <3>2 DEF TagRead
  <2>3. WorkerOK'
    BY <1>12 DEF TagRead, WorkerOK, WorkerPC
  <2> QED
    BY <1>12, <2>2, <2>3 DEF TagRead
<1>13. CASE TagsDone
  BY <1>13 DEF TagsDone, WorkerOK, WorkerPC
<1>14. CASE ServerPolled
  BY <1>14 DEF ServerPolled, WorkerOK, WorkerPC
<1>15. CASE ServerTagInvalid
  <2>1. FlagsOK' /\ WorkerOK'
    BY <1>15 DEF ServerTagInvalid, FlagsOK, WorkerOK, WorkerPC
  <2>2. HistoryOK'
    BY <1>15 DEF ServerTagInvalid, HistoryOK
  <2> QED
    BY <1>15, <2>1, <2>2 DEF ServerTagInvalid
<1>16. CASE WorkerStopPush
  <2>1. Cleanup(stops) \in Messages
    BY MessageTypes DEF HistoryOK
  <2> QED
    BY <1>16, <2>1 DEF WorkerStopPush, WorkerOK, WorkerPC, QueuesOK
<1> QED
  BY <1>1, <1>2, <1>3, <1>4, <1>5, <1>6, <1>7, <1>8, <1>9, <1>10, <1>11, <1>12, <1>13, <1>14,
     <1>15, <1>16
  DEF WorkerStep

(* Every variable keeps its type, and closing a handle never counts below  *)
(* zero, whichever thread moves.                                           *)
THEOREM CoreTypeInv == Spec => []TypeInv
<1>1. ASSUME TypeInv, UNCHANGED vars PROVE TypeInv'
  BY <1>1, KeptTypes DEF vars, TypeInv, TypeOK
<1>2. ASSUME TypeInv, [Next]_vars PROVE TypeInv'
  BY <1>2, <1>1, ClientTypeInv, MainTypeInv, WorkerTypeInv DEF Next
<1> QED
  BY InitTypeInv, <1>2, PTL DEF Spec

LEMMA CoreTypeAfter == ASSUME TypeInv, [Next]_vars PROVE TypeInv'
  BY KeptTypes, ClientTypeInv, MainTypeInv, WorkerTypeInv DEF Next, vars, TypeInv, TypeOK

THEOREM CoreTypeOK == Spec => []TypeOK
<1>1. TypeInv => TypeOK
  BY DEF TypeInv
<1> QED
  BY CoreTypeInv, <1>1, PTL
---------------------------------------------------------------------------
(* Only these steps touch the writes and their queue.                      *)
LEMMA WriteSteps ==
    ASSUME [Next]_vars
    PROVE  \/ WritePush
           \/ WriteBegin
           \/ WriteEnd
           \/ UNCHANGED <<write_queue, write, accepted, processed>>
<1>1. CASE Client
  BY <1>1 DEF Client, RegisterTagGroup, RegisterTag, WriteGate, SetEnableComms, StartSim, StopSim,
     ClearTagGroups, FrameStart, FrameStopped, QuitSignal, queues, worker, history
<1>2. CASE MainStep
  BY <1>2 DEF MainStep, StopPush, WriteWake, FrameGroup, FrameEmit, FrameEnd, QuitShutdown,
     QuitJoin, queues, worker, history
<1>3. CASE WorkerStep
  BY <1>3 DEF WorkerStep, WorkerLoop, WorkerPop, WorkerDispatch, FlushDone, ReleaseTags, ResetGroup,
     ReleaseDone, Decide, TagCreate, TagRead, TagsDone, ServerPolled, ServerTagInvalid,
     WorkerStopPush, queues, history
<1>4. CASE UNCHANGED vars
  BY <1>4 DEF vars, queues, worker, history
<1> QED
  BY <1>1, <1>2, <1>3, <1>4 DEF Next

(* The numbers of the queued writes continue those already processed, so   *)
(* every accepted write is processed once and in the order of the calls.   *)
THEOREM CoreWritesInOrder == Spec => []WritesInOrder
<1>1. ASSUME Init PROVE WritesInOrder
  BY <1>1 DEF Init, WritesInOrder, InFlight
<1>2. ASSUME TypeInv, WritesInOrder, [Next]_vars PROVE WritesInOrder'
  <2> USE <1>2 DEF TypeInv, TypeOK, QueuesOK, HistoryOK, WritesInOrder, InFlight
  <2>1. CASE WritePush
    <3> DEFINE req == [id |-> accepted + 1, group |-> request.group, tag |-> request.tag,
                    run |-> stops]
    <3>1. write_queue' = Append(write_queue, req) /\ req.id = accepted + 1
      BY <2>1 DEF WritePush
    <3>2. accepted' = accepted + 1 /\ processed' = processed /\ write' = write
      BY <2>1 DEF WritePush, worker
    <3> HIDE DEF req
    <3>3. /\ Len(write_queue') = Len(write_queue) + 1
          /\ \A i \in 1 .. Len(write_queue) : write_queue'[i] = write_queue[i]
          /\ write_queue'[Len(write_queue) + 1] = req
      BY <3>1
    <3>4. ASSUME NEW i \in 1 .. Len(write_queue')
          PROVE  write_queue'[i].id = processed' + InFlight' + i
      <4>1. CASE i \in 1 .. Len(write_queue)
        BY <3>2, <3>3, <4>1
      <4>2. CASE i = Len(write_queue) + 1
        <5>1. write_queue'[i].id = accepted + 1
          BY <3>1, <3>3, <4>2
        <5>2. InFlight' = InFlight /\ InFlight \in {0, 1}
          BY <3>2
        <5>3. accepted = processed + InFlight + Len(write_queue) /\ Len(write_queue) \in Nat
          OBVIOUS
        <5> HIDE DEF InFlight, WritesInOrder
        <5> QED
          BY <3>2, <4>2, <5>1, <5>2, <5>3
      <4> QED
        BY <3>3, <4>1, <4>2
    <3>5. accepted' = processed' + InFlight' + Len(write_queue')
      <4>1. accepted = processed + InFlight + Len(write_queue) /\ Len(write_queue) \in Nat
        OBVIOUS
      <4>2. InFlight' = InFlight /\ InFlight \in {0, 1}
        BY <3>2
      <4> HIDE DEF InFlight, WritesInOrder
      <4> QED
        BY <3>2, <3>3, <4>1, <4>2
    <3>6. write' # None => write'.req.id = processed' + 1
      BY <3>2
    <3> QED
      BY <3>4, <3>5, <3>6
  <2>2. CASE WriteBegin
    <3>1. /\ write = None /\ write_queue # << >>
          /\ write_queue' = Tail(write_queue)
          /\ accepted' = accepted /\ processed' = processed
      BY <2>2 DEF WriteBegin, history
    <3>2. write' \in TakenWrites /\ write'.req = write_queue[1]
      BY <2>2, <3>1 DEF WriteBegin, TakenWrites, HasHandle
    <3>3. write' # None
      BY <3>2, CoreAssumption DEF CoreAssumption
    <3>4. /\ Len(write_queue') = Len(write_queue) - 1 /\ Len(write_queue) >= 1
          /\ \A i \in 1 .. Len(write_queue') : write_queue'[i] = write_queue[i + 1]
      BY <3>1
    <3>5. ASSUME NEW i \in 1 .. Len(write_queue')
          PROVE  write_queue'[i].id = processed' + InFlight' + i
      <4>1. i + 1 \in 1 .. Len(write_queue)
        BY <3>4
      <4>2. write_queue[i + 1].id = processed + 0 + (i + 1)
        BY <3>1, <4>1
      <4> QED
        BY <3>1, <3>3, <3>4, <4>2
    <3>6. write'.req.id = processed' + 1
      BY <3>1, <3>2, <3>4
    <3> QED
      BY <3>1, <3>3, <3>4, <3>5, <3>6
  <2>3. CASE WriteEnd
    <3>1. /\ write # None /\ write' = None
          /\ processed' = write.req.id
          /\ UNCHANGED <<write_queue, accepted>>
      BY <2>3 DEF WriteEnd, queues
    <3> QED
      BY <3>1
  <2>4. CASE UNCHANGED <<write_queue, write, accepted, processed>>
    BY <2>4
  <2> QED
    BY <2>1, <2>2, <2>3, <2>4, WriteSteps
<1> QED
  BY <1>1, <1>2, CoreTypeInv, PTL DEF Spec
---------------------------------------------------------------------------
(* A cleanup carries the number of a stop that has been made, and from the *)
(* drain to the last group no write older than that stop is queued: those  *)
(* that come in meanwhile are of a later run.                              *)
CleanupsMade == /\ item.stop <= stops
                /\ \A i \in 1 .. Len(tag_group_queue) : tag_group_queue[i].stop <= stops
NoOldWrites == wpc \in {"release", "reset"} =>
                   \A i \in 1 .. Len(write_queue) : write_queue[i].run >= item.stop
DrainInv == CleanupsMade /\ NoOldWrites

(* Only these steps touch the messages and the count of stops.             *)
LEMMA MessageSteps ==
    ASSUME [Next]_vars
    PROVE  \/ StopSim \/ ServerTagInvalid \/ StopPush \/ WorkerStopPush
           \/ WriteWake \/ WorkerPop \/ WorkerLoop \/ FrameEnd
           \/ \E g \in Groups : FrameGroup(g)
           \/ UNCHANGED <<tag_group_queue, item, stops>>
<1>1. CASE Client
  BY <1>1 DEF Client, RegisterTagGroup, RegisterTag, WriteGate, SetEnableComms, StartSim,
     ClearTagGroups, FrameStart, FrameStopped, QuitSignal, queues, worker, history
<1>2. CASE MainStep
  BY <1>2 DEF MainStep, WritePush, FrameEmit, QuitShutdown, QuitJoin, queues, worker, history
<1>3. CASE WorkerStep
  BY <1>3 DEF WorkerStep, WorkerDispatch, WriteBegin, WriteEnd, FlushDone, ReleaseTags,
     ResetGroup, ReleaseDone, Decide, TagCreate, TagRead, TagsDone, ServerPolled, queues, history
<1>4. CASE UNCHANGED vars
  BY <1>4 DEF vars, queues, worker, history
<1> QED
  BY <1>1, <1>2, <1>3, <1>4 DEF Next

LEMMA CleanupsMadeKept ==
    ASSUME TypeInv, CleanupsMade, [Next]_vars PROVE CleanupsMade'
<1> USE DEF TypeInv, TypeOK, QueuesOK, HistoryOK, WorkerOK, CleanupsMade
<1>1. ASSUME NEW m \in Messages, m.stop <= stops, tag_group_queue' = Append(tag_group_queue, m),
             UNCHANGED <<item, stops>>
      PROVE  CleanupsMade'
  <2>1. /\ Len(tag_group_queue') = Len(tag_group_queue) + 1
        /\ \A i \in 1 .. Len(tag_group_queue) : tag_group_queue'[i] = tag_group_queue[i]
        /\ tag_group_queue'[Len(tag_group_queue) + 1] = m
    BY <1>1
  <2>2. ASSUME NEW i \in 1 .. Len(tag_group_queue') PROVE tag_group_queue'[i].stop <= stops
    <3>1. CASE i \in 1 .. Len(tag_group_queue)
      BY <2>1, <3>1
    <3>2. CASE i = Len(tag_group_queue) + 1
      BY <1>1, <2>1, <3>2
    <3> QED
      BY <2>1, <3>1, <3>2
  <2> QED
    BY <1>1, <2>2
<1>2. CASE StopSim \/ ServerTagInvalid
  <2>1. stops' = stops + 1 /\ tag_group_queue' = tag_group_queue /\ item' = item
    BY <1>2 DEF StopSim, ServerTagInvalid, queues, worker
  <2>2. ASSUME NEW n \in Nat, n <= stops PROVE n <= stops'
    BY <2>1, <2>2
  <2>3. \A i \in 1 .. Len(tag_group_queue) : tag_group_queue[i].stop \in Nat
    <3>1. \A i \in 1 .. Len(tag_group_queue) : tag_group_queue[i] \in Messages
      OBVIOUS
    <3>2. \A m \in Messages : m.stop \in Nat
      BY DEF Messages
    <3> QED
      BY <3>1, <3>2
  <2>4. item.stop \in Nat
    BY DEF Messages
  <2> QED
    BY <2>1, <2>2, <2>3, <2>4
<1>3. CASE StopPush \/ WorkerStopPush
  <2>1. Cleanup(stops) \in Messages /\ Cleanup(stops).stop <= stops
    BY MessageTypes DEF Cleanup
  <2> QED
    BY <1>1, <1>3, <2>1 DEF StopPush, WorkerStopPush, worker, history
<1>4. CASE WriteWake
  <2>1. Wake \in Messages /\ Wake.stop <= stops
    BY MessageTypes DEF Wake
  <2> QED
    BY <1>1, <1>4, <2>1 DEF WriteWake, worker, history
<1>5. CASE WorkerPop
  <2>1. Wake.stop <= stops
    BY DEF Wake
  <2>2. CASE tag_group_queue # << >> /\ item' = Head(tag_group_queue)
             /\ tag_group_queue' = Tail(tag_group_queue) /\ stops' = stops
    <3>1. /\ Len(tag_group_queue') = Len(tag_group_queue) - 1 /\ Len(tag_group_queue) >= 1
          /\ \A i \in 1 .. Len(tag_group_queue') : tag_group_queue'[i] = tag_group_queue[i + 1]
          /\ item' = tag_group_queue[1]
      BY <2>2
    <3>2. \A i \in 1 .. Len(tag_group_queue') : i + 1 \in 1 .. Len(tag_group_queue)
      BY <3>1
    <3> QED
      BY <2>2, <3>1, <3>2
  <2>3. CASE item' = Wake /\ tag_group_queue' = tag_group_queue /\ stops' = stops
    BY <2>1, <2>3
  <2> QED
    BY <1>5, <2>2, <2>3 DEF WorkerPop, history
<1>6. CASE WorkerLoop
  BY <1>6 DEF WorkerLoop, Wake, queues, history
<1>7. ASSUME NEW g \in Groups, FrameGroup(g) PROVE CleanupsMade'
  <2>1. Poll(g) \in Messages /\ Poll(g).stop <= stops
    BY MessageTypes DEF Poll
  <2>2. UNCHANGED <<item, stops>>
    BY <1>7 DEF FrameGroup, worker, history
  <2>3. CASE UNCHANGED tag_group_queue
    BY <2>2, <2>3
  <2>4. CASE tag_group_queue' = Append(tag_group_queue, Poll(g))
    BY <1>1, <2>1, <2>2, <2>4
  <2> QED
    BY <1>7, <2>3, <2>4 DEF FrameGroup
<1>8. CASE FrameEnd
  <2>1. PollServer \in Messages /\ PollServer.stop <= stops
    BY MessageTypes DEF PollServer
  <2>2. UNCHANGED <<item, stops>>
    BY <1>8 DEF FrameEnd, worker, history
  <2>3. CASE UNCHANGED tag_group_queue
    BY <2>2, <2>3
  <2>4. CASE tag_group_queue' = Append(tag_group_queue, PollServer)
    BY <1>1, <2>1, <2>2, <2>4
  <2> QED
    BY <1>8, <2>3, <2>4 DEF FrameEnd
<1>9. CASE UNCHANGED <<tag_group_queue, item, stops>>
  BY <1>9
<1> QED
  BY <1>2, <1>3, <1>4, <1>5, <1>6, <1>7, <1>8, <1>9, MessageSteps

LEMMA NoOldWritesKept ==
    ASSUME TypeInv, DrainInv, [Next]_vars PROVE NoOldWrites'
<1> USE DEF TypeInv, TypeOK, QueuesOK, HistoryOK, WorkerOK, DrainInv, NoOldWrites
<1>1. CASE WritePush
  <2> DEFINE req == [id |-> accepted + 1, group |-> request.group, tag |-> request.tag,
                    run |-> stops]
  <2>1. write_queue' = Append(write_queue, req) /\ req.run = stops
    BY <1>1 DEF WritePush
  <2>2. UNCHANGED <<wpc, item>>
    BY <1>1 DEF WritePush, worker
  <2> HIDE DEF req
  <2>3. /\ Len(write_queue') = Len(write_queue) + 1
        /\ \A i \in 1 .. Len(write_queue) : write_queue'[i] = write_queue[i]
        /\ write_queue'[Len(write_queue) + 1] = req
    BY <2>1
  <2>4. req.run >= item.stop
    <3>1. item.stop \in Nat /\ item.stop <= stops
      BY DEF CleanupsMade, Messages
    <3> QED
      BY <2>1, <3>1
  <2>5. ASSUME wpc \in {"release", "reset"}, NEW i \in 1 .. Len(write_queue')
        PROVE  write_queue'[i].run >= item.stop
    <3>1. CASE i \in 1 .. Len(write_queue)
      BY <2>3, <2>5, <3>1
    <3>2. CASE i = Len(write_queue) + 1
      BY <2>3, <2>4, <3>2
    <3> QED
      BY <2>3, <3>1, <3>2
  <2> QED
    BY <2>2, <2>5
<1>2. CASE WriteBegin \/ WriteEnd
  BY <1>2 DEF WriteBegin, WriteEnd, Flushing
<1>3. ASSUME UNCHANGED write_queue, WorkerStep PROVE NoOldWrites'
  <2>1. CASE FlushDone
    BY <1>3, <2>1 DEF FlushDone
  <2>2. ASSUME NEW g \in Groups, ReleaseTags(g) PROVE NoOldWrites'
    BY <1>3, <2>2 DEF ReleaseTags
  <2>3. CASE ResetGroup
    BY <1>3, <2>3 DEF ResetGroup
  <2>4. CASE WorkerDispatch
    BY <2>4 DEF WorkerDispatch
  <2>5. ASSUME WorkerLoop \/ WorkerPop \/ ReleaseDone \/ Decide \/ TagsDone
               \/ ServerPolled \/ ServerTagInvalid \/ WorkerStopPush
               \/ WriteBegin \/ WriteEnd \/ \E t \in Tags : TagCreate(t) \/ TagRead(t)
        PROVE  wpc' \notin {"release", "reset"}
    BY <2>5 DEF WorkerLoop, WorkerPop, ReleaseDone, Decide, TagsDone, TagCreate, TagRead,
       ServerPolled, ServerTagInvalid, WorkerStopPush, WriteBegin, WriteEnd, Flushing
  <2> QED
    BY <1>3, <2>1, <2>2, <2>3, <2>4, <2>5 DEF WorkerStep
<1>4. ASSUME UNCHANGED <<write_queue, worker>> PROVE NoOldWrites'
  BY <1>4 DEF worker
<1>5. ASSUME Client \/ MainStep \/ UNCHANGED vars PROVE UNCHANGED worker
  BY <1>5 DEF Client, MainStep, RegisterTagGroup, RegisterTag, WriteGate, SetEnableComms, StartSim,
     StopSim, ClearTagGroups, FrameStart, FrameStopped, QuitSignal, StopPush, WritePush,
     WriteWake, FrameGroup, FrameEmit, FrameEnd, QuitShutdown, QuitJoin, vars
<1> QED
  BY <1>1, <1>2, <1>3, <1>4, <1>5, WriteSteps DEF Next

(* The drain comes before the release: when the worker closes handles for  *)
(* a stop, every write accepted before that stop has left the queue.       *)
THEOREM CoreDrainedBeforeRelease == Spec => []DrainedBeforeRelease
<1>1. ASSUME Init PROVE DrainInv
  BY <1>1 DEF Init, DrainInv, CleanupsMade, NoOldWrites, Wake
<1>2. ASSUME TypeInv, DrainInv, [Next]_vars PROVE DrainInv'
  BY <1>2, CleanupsMadeKept, NoOldWritesKept DEF DrainInv
<1>3. DrainInv => DrainedBeforeRelease
  BY DEF DrainInv, NoOldWrites, DrainedBeforeRelease
<1> QED
  BY <1>1, <1>2, <1>3, CoreTypeInv, PTL DEF Spec
---------------------------------------------------------------------------
(* Connections do not outlive a stop, provided that the client registers   *)
(* no group twice.  The invariant behind it: each tag has exactly the      *)
(* handle its state says; a name outside the map has no tags, so the       *)
(* cleanup, which walks the map, reaches every handle; and a poll that is  *)
(* still going on after a stop has a cleanup behind it.                    *)
OutsideMapEmpty == \A g \in Groups \ tag_groups, t \in Tags : plc_tags[g][t] = "absent"
CleanedAreEmpty ==
    /\ wpc \in {"release", "reset"} =>
           \A g \in Groups \ left, t \in Tags : plc_tags[g][t] = "absent"
    /\ wpc = "reset" => \A t \in Tags : plc_tags[wgroup][t] = "absent"
PollIsCovered == wpc = "tags" => sim_running \/ CleanupPending
ReleaseInv == /\ ExactHandles
              /\ OutsideMapEmpty
              /\ CleanedAreEmpty
              /\ PollIsCovered
              /\ ReleasedWhenStopped

LEMMA InitReleaseInv == ASSUME Init PROVE ReleaseInv
  BY DEF Init, ReleaseInv, ExactHandles, OutsideMapEmpty, CleanedAreEmpty, PollIsCovered,
     ReleasedWhenStopped, NoHandles, NoTags, HasHandle

(* A cleanup that is queued or under way stays so until it has been done.  *)
LEMMA CleanupStays ==
    ASSUME TypeInv, CleanupPending, [Next]_vars
    PROVE  CleanupPending' \/ ReleaseDone
<1> USE DEF TypeInv, TypeOK, QueuesOK
<1>1. ASSUME NEW m, m \in Messages, tag_group_queue' = Append(tag_group_queue, m)
      PROVE  CleanupQueued \/ m.kind = "cleanup" => CleanupQueued'
  <2>1. /\ Len(tag_group_queue') = Len(tag_group_queue) + 1
        /\ \A i \in 1 .. Len(tag_group_queue) : tag_group_queue'[i] = tag_group_queue[i]
        /\ tag_group_queue'[Len(tag_group_queue) + 1] = m
    BY <1>1
  <2> QED
    BY <2>1 DEF CleanupQueued
<1>2. ASSUME UNCHANGED <<tag_group_queue, wpc, item>>, mpc = "stop_push" => mpc' = "stop_push"
      PROVE  CleanupPending'
  BY <1>2 DEF CleanupPending, CleanupQueued, CleanupUnderWay
<1>3. ASSUME Client PROVE CleanupPending'
  <2>1. mpc # "stop_push" /\ UNCHANGED <<tag_group_queue, wpc, item>>
    BY <1>3 DEF Client, RegisterTagGroup, RegisterTag, WriteGate, SetEnableComms, StartSim, StopSim,
       ClearTagGroups, FrameStart, FrameStopped, QuitSignal, MayChangeGroups, queues, worker
  <2> QED
    BY <1>2, <2>1
<1>4. ASSUME MainStep PROVE CleanupPending'
  <2>1. UNCHANGED <<wpc, item>>
    BY <1>4 DEF MainStep, StopPush, WritePush, WriteWake, FrameGroup, FrameEmit, FrameEnd,
       QuitShutdown, QuitJoin, worker
  <2>2. CASE StopPush
    <3>1. Cleanup(stops) \in Messages /\ Cleanup(stops).kind = "cleanup"
      BY MessageTypes DEF Cleanup, HistoryOK
    <3> QED
      BY <1>1, <2>2, <3>1 DEF StopPush, CleanupPending
  <2>3. CASE WriteWake
    BY <1>1, <2>1, <2>3, MessageTypes DEF WriteWake, CleanupPending, CleanupUnderWay
  <2>4. ASSUME NEW g \in Groups, FrameGroup(g) PROVE CleanupPending'
    <3>1. CASE UNCHANGED tag_group_queue
      BY <1>2, <2>1, <2>4, <3>1 DEF FrameGroup
    <3>2. CASE tag_group_queue' = Append(tag_group_queue, Poll(g))
      BY <1>1, <2>1, <2>4, <3>2, MessageTypes DEF FrameGroup, CleanupPending, CleanupUnderWay
    <3> QED
      BY <2>4, <3>1, <3>2 DEF FrameGroup
  <2>5. CASE FrameEnd
    <3>1. CASE UNCHANGED tag_group_queue
      BY <1>2, <2>1, <2>5, <3>1 DEF FrameEnd
    <3>2. CASE tag_group_queue' = Append(tag_group_queue, PollServer)
      BY <1>1, <2>1, <2>5, <3>2, MessageTypes DEF FrameEnd, CleanupPending, CleanupUnderWay
    <3> QED
      BY <2>5, <3>1, <3>2 DEF FrameEnd
  <2>6. CASE WritePush \/ FrameEmit \/ QuitShutdown \/ QuitJoin
    BY <1>2, <2>1, <2>6 DEF WritePush, FrameEmit, QuitShutdown, QuitJoin, queues
  <2> QED
    BY <1>4, <2>2, <2>3, <2>4, <2>5, <2>6 DEF MainStep
<1>5. ASSUME WorkerStep PROVE CleanupPending' \/ ReleaseDone
  <2>1. UNCHANGED mpc
    BY <1>5 DEF WorkerStep, WorkerLoop, WorkerPop, WorkerDispatch, WriteBegin, WriteEnd, FlushDone,
       ReleaseTags, ResetGroup, ReleaseDone, Decide, TagCreate, TagRead, TagsDone, ServerPolled,
       ServerTagInvalid, WorkerStopPush, main
  <2>2. CASE WorkerPop
    <3>1. CASE /\ tag_group_queue # << >>
               /\ item' = Head(tag_group_queue)
               /\ tag_group_queue' = Tail(tag_group_queue)
      <4>1. /\ Len(tag_group_queue') = Len(tag_group_queue) - 1 /\ Len(tag_group_queue) >= 1
            /\ \A i \in 1 .. Len(tag_group_queue') : tag_group_queue'[i] = tag_group_queue[i + 1]
            /\ item' = tag_group_queue[1]
        BY <3>1
      <4>2. ASSUME NEW i \in 1 .. Len(tag_group_queue), tag_group_queue[i].kind = "cleanup"
            PROVE  CleanupQueued' \/ item'.kind = "cleanup"
        <5>1. CASE i = 1
          BY <4>1, <4>2, <5>1
        <5>2. CASE i # 1
          <6>1. i - 1 \in 1 .. Len(tag_group_queue') /\ tag_group_queue'[i - 1] = tag_group_queue[i]
            BY <4>1, <5>2
          <6>2. tag_group_queue' \in Seq(Messages)
            BY <3>1
          <6> QED
            BY <4>2, <6>1, <6>2 DEF CleanupQueued
        <5> QED
          BY <5>1, <5>2
      <4> QED
        BY <2>1, <2>2, <4>2 DEF WorkerPop, CleanupPending, CleanupQueued, CleanupUnderWay
    <3>2. CASE tag_group_queue = << >> /\ UNCHANGED tag_group_queue
      BY <2>1, <2>2, <3>2 DEF WorkerPop, CleanupPending, CleanupQueued, CleanupUnderWay
    <3> QED
      BY <2>2, <3>1, <3>2 DEF WorkerPop
  <2>3. CASE /\ UNCHANGED tag_group_queue /\ wpc # "stop_push"
             /\ CleanupUnderWay => CleanupUnderWay'
    BY <2>1, <2>3 DEF CleanupPending, CleanupQueued
  <2>4. CASE WorkerDispatch
    <3>1. wpc = "popped" /\ UNCHANGED <<tag_group_queue, item>>
      BY <2>4 DEF WorkerDispatch, queues
    <3>2. item.kind = "cleanup" => wpc' = "drain"
      BY <2>4 DEF WorkerDispatch
    <3>3. CleanupUnderWay => CleanupUnderWay'
      BY <3>1, <3>2 DEF CleanupUnderWay
    <3> QED
      BY <2>3, <3>1, <3>3
  <2>5. CASE WriteBegin \/ WriteEnd
    BY <2>3, <2>5 DEF WriteBegin, WriteEnd, Flushing, CleanupUnderWay, queues
  <2>6. CASE FlushDone \/ ResetGroup \/ \E g \in Groups : ReleaseTags(g)
    <3>1. UNCHANGED tag_group_queue /\ wpc # "stop_push"
      BY <2>6 DEF FlushDone, Flushing, ResetGroup, ReleaseTags, queues
    <3>2. wpc \in {"drain", "release", "reset"} => wpc' \in {"drain", "release", "reset"}
      BY <2>6 DEF FlushDone, Flushing, ResetGroup, ReleaseTags
    <3>3. CleanupUnderWay => wpc \in {"drain", "release", "reset"}
      BY <2>6 DEF FlushDone, Flushing, ResetGroup, ReleaseTags, CleanupUnderWay
    <3> QED
      BY <2>3, <3>1, <3>2, <3>3 DEF CleanupUnderWay
  <2>7. CASE WorkerLoop \/ Decide \/ TagsDone \/ \E t \in Tags : TagCreate(t) \/ TagRead(t)
    BY <2>3, <2>7 DEF WorkerLoop, Decide, TagsDone, TagCreate, TagRead, CleanupUnderWay, queues
  <2>8. CASE ServerPolled \/ ServerTagInvalid
    BY <2>3, <2>8 DEF ServerPolled, ServerTagInvalid, CleanupUnderWay, queues
  <2>9. CASE WorkerStopPush
    <3>1. Cleanup(stops) \in Messages /\ Cleanup(stops).kind = "cleanup"
      BY MessageTypes DEF Cleanup, HistoryOK
    <3> QED
      BY <1>1, <2>9, <3>1 DEF WorkerStopPush, CleanupPending
  <2> QED
    BY <1>5, <2>2, <2>4, <2>5, <2>6, <2>7, <2>8, <2>9 DEF WorkerStep
<1>6. CASE UNCHANGED vars
  BY <1>2, <1>6 DEF vars, queues, main, worker
<1> QED
  BY <1>3, <1>4, <1>5, <1>6 DEF Next

(* The steps that change which tags there are, their states or handles.    *)
LEMMA TagSteps ==
    ASSUME TypeInv, [Next]_vars
    PROVE  \/ \E g \in Groups : RegisterTagGroup(g) \/ ReleaseTags(g)
           \/ \E g \in Groups, t \in Tags : RegisterTag(g, t)
           \/ ClearTagGroups \/ QuitJoin
           \/ \E t \in Tags : TagCreate(t) \/ TagRead(t)
           \/ \E g \in Groups, t \in Tags :
                  LookUp(g, t) /\ UNCHANGED <<handles, wpc, left, wgroup, mpc, sim_running>>
           \/ UNCHANGED <<tag_groups, plc_tags, handles>>
<1>1. CASE Client
  BY <1>1 DEF Client, WriteGate, SetEnableComms, StartSim, StopSim, FrameStart, FrameStopped,
     QuitSignal, groups
<1>2. CASE MainStep
  BY <1>2 DEF MainStep, StopPush, WritePush, WriteWake, FrameGroup, FrameEmit, FrameEnd,
     QuitShutdown, groups
<1>3. CASE WriteBegin
  <2>1. Head(write_queue).group \in Groups /\ Head(write_queue).tag \in Tags
    <3>1. Head(write_queue) \in Writes
      BY <1>3 DEF WriteBegin, TypeInv, TypeOK, QueuesOK
    <3> QED
      BY <3>1 DEF Writes
  <2>2. LookUp(Head(write_queue).group, Head(write_queue).tag)
    BY <1>3 DEF WriteBegin
  <2>3. UNCHANGED <<handles, wpc, left, wgroup, mpc, sim_running>>
    BY <1>3 DEF WriteBegin, main, flags
  <2> QED
    BY <2>1, <2>2, <2>3
<1>4. CASE WriteEnd
  <2>1. UNCHANGED <<handles, wpc, left, wgroup, mpc, sim_running>>
    BY <1>4 DEF WriteEnd, main, flags
  <2>2. CASE LookUp(write.req.group, write.req.tag)
    <3>1. write.req \in Writes
      BY <1>4 DEF WriteEnd, TypeInv, TypeOK, WorkerOK, TakenWrites
    <3>2. write.req.group \in Groups /\ write.req.tag \in Tags
      BY <3>1 DEF Writes
    <3> QED
      BY <2>1, <2>2, <3>2
  <2> QED
    BY <1>4, <2>1, <2>2 DEF WriteEnd
<1>5. ASSUME WorkerStep, ~WriteBegin, ~WriteEnd
      PROVE  \/ \E g \in Groups : ReleaseTags(g)
             \/ \E t \in Tags : TagCreate(t) \/ TagRead(t)
             \/ UNCHANGED <<tag_groups, plc_tags, handles>>
  BY <1>5 DEF WorkerStep, WorkerLoop, WorkerPop, WorkerDispatch, FlushDone, ResetGroup,
     ReleaseDone, Decide, TagsDone, ServerPolled, ServerTagInvalid, WorkerStopPush, groups
<1>6. CASE UNCHANGED vars
  BY <1>6 DEF vars, groups
<1> QED
  BY <1>1, <1>2, <1>3, <1>4, <1>5, <1>6 DEF Next

(* What is cleaned has no tags and, if the handles were exact, no handles. *)
LEMMA CleanedGroup ==
    ASSUME TypeInv, ExactHandles, NEW g \in Groups, NEW t \in Tags
    PROVE  HandlesClosed(g)[t] = 0 /\ NoTags[t] = "absent"
<1>1. handles[g][t] = IF HasHandle(g, t) THEN 1 ELSE 0
  BY DEF ExactHandles
<1> QED
  BY <1>1 DEF HandlesClosed, NoTags

LEMMA ExactHandlesKept ==
    ASSUME TypeInv, ExactHandles, OutsideMapEmpty, [Next]_vars, ~Overwrites
    PROVE  ExactHandles'
<1> SUFFICES ASSUME NEW h \in Groups, NEW u \in Tags
             PROVE  handles'[h][u] = IF plc_tags'[h][u] \in {"open", "ready"} THEN 1 ELSE 0
  BY DEF ExactHandles, HasHandle
<1>0. handles[h][u] = IF plc_tags[h][u] \in {"open", "ready"} THEN 1 ELSE 0
  BY DEF ExactHandles, HasHandle
<1> USE DEF TypeInv, TypeOK, GroupsOK
<1>1. ASSUME NEW g \in Groups, RegisterTagGroup(g)
      PROVE  handles'[h][u] = handles[h][u] /\ plc_tags'[h][u] = plc_tags[h][u]
  BY <1>1 DEF RegisterTagGroup, OutsideMapEmpty, NoTags
<1>2. ASSUME NEW g \in Groups, NEW t \in Tags, RegisterTag(g, t)
      PROVE  /\ handles'[h][u] = handles[h][u]
             /\ \/ plc_tags'[h][u] = plc_tags[h][u]
                \/ plc_tags[h][u] = "absent" /\ plc_tags'[h][u] = "new"
  BY <1>2 DEF RegisterTag
<1>3. ASSUME NEW g \in Groups, NEW t \in Tags, LookUp(g, t), UNCHANGED handles
      PROVE  /\ handles'[h][u] = handles[h][u]
             /\ \/ plc_tags'[h][u] = plc_tags[h][u]
                \/ plc_tags[h][u] = "absent" /\ plc_tags'[h][u] = "ghost"
  BY <1>3 DEF LookUp
<1>4. ASSUME ClearTagGroups \/ QuitJoin
      PROVE  handles'[h][u] = 0 /\ plc_tags'[h][u] = "absent"
  BY <1>4, CleanedGroup DEF ClearTagGroups, QuitJoin, CleanAllGroups
<1>5. ASSUME NEW g \in Groups, ReleaseTags(g)
      PROVE  \/ handles'[h][u] = 0 /\ plc_tags'[h][u] = "absent"
             \/ handles'[h][u] = handles[h][u] /\ plc_tags'[h][u] = plc_tags[h][u]
  BY <1>5, CleanedGroup DEF ReleaseTags
<1>6. ASSUME NEW t \in Tags, TagCreate(t)
      PROVE  \/ handles'[h][u] = handles[h][u] /\ plc_tags'[h][u] = plc_tags[h][u]
             \/ /\ plc_tags[h][u] \in {"new", "ghost"}
                /\ plc_tags'[h][u] = "open" /\ handles'[h][u] = handles[h][u] + 1
  BY <1>6 DEF TagCreate, WorkerOK
<1>7. ASSUME NEW t \in Tags, TagRead(t)
      PROVE  /\ handles'[h][u] = handles[h][u]
             /\ \/ plc_tags'[h][u] = plc_tags[h][u]
                \/ plc_tags[h][u] \in {"open", "ready"} /\ plc_tags'[h][u] = "ready"
  <2>1. /\ wgroup \in Groups /\ plc_tags[wgroup][t] \in {"open", "ready"}
        /\ UNCHANGED handles
        /\ plc_tags' \in {plc_tags, [plc_tags EXCEPT ![wgroup][t] = "ready"]}
    BY <1>7 DEF TagRead, WorkerOK, HasHandle
  <2>2. plc_tags \in [Groups -> [Tags -> TagStates]]
    OBVIOUS
  <2> HIDE DEF TypeInv, TypeOK, GroupsOK
  <2>3. \/ plc_tags'[h][u] = plc_tags[h][u]
        \/ h = wgroup /\ u = t /\ plc_tags'[h][u] = "ready"
    BY <2>1, <2>2
  <2> QED
    BY <2>1, <2>3
<1> HIDE DEF TypeInv, TypeOK, GroupsOK
<1> DEFINE Kept == handles'[h][u] = handles[h][u] /\ plc_tags'[h][u] = plc_tags[h][u]
           Emptied == handles'[h][u] = 0 /\ plc_tags'[h][u] = "absent"
           Entered == /\ handles'[h][u] = handles[h][u] /\ plc_tags[h][u] = "absent"
                      /\ plc_tags'[h][u] \in {"new", "ghost"}
           Made == /\ plc_tags[h][u] \in {"new", "ghost"}
                   /\ plc_tags'[h][u] = "open" /\ handles'[h][u] = handles[h][u] + 1
           Read == /\ handles'[h][u] = handles[h][u]
                   /\ plc_tags[h][u] \in {"open", "ready"} /\ plc_tags'[h][u] = "ready"
<1>8. ASSUME UNCHANGED <<handles, plc_tags>> PROVE Kept
  BY <1>8
<1>9. Kept \/ Emptied \/ Entered \/ Made \/ Read
  BY <1>1, <1>2, <1>3, <1>4, <1>5, <1>6, <1>7, <1>8, TagSteps
<1> QED
  BY <1>0, <1>9

LEMMA OutsideMapEmptyKept ==
    ASSUME TypeInv, OutsideMapEmpty, [Next]_vars
    PROVE  OutsideMapEmpty'
<1> SUFFICES ASSUME NEW h \in Groups, NEW u \in Tags, h \notin tag_groups'
             PROVE  plc_tags'[h][u] = "absent"
  BY DEF OutsideMapEmpty
<1> USE DEF TypeInv, TypeOK, GroupsOK
<1>1. ASSUME NEW g \in Groups, RegisterTagGroup(g) PROVE plc_tags'[h][u] = "absent"
  BY <1>1 DEF RegisterTagGroup, OutsideMapEmpty
<1>2. ASSUME NEW g \in Groups, NEW t \in Tags, RegisterTag(g, t) PROVE plc_tags'[h][u] = "absent"
  BY <1>2 DEF RegisterTag, OutsideMapEmpty
<1>3. ASSUME NEW g \in Groups, NEW t \in Tags, LookUp(g, t) PROVE plc_tags'[h][u] = "absent"
  BY <1>3 DEF LookUp, OutsideMapEmpty
<1>4. ASSUME ClearTagGroups \/ QuitJoin PROVE plc_tags'[h][u] = "absent"
  BY <1>4 DEF ClearTagGroups, QuitJoin, CleanAllGroups, NoTags
<1>5. ASSUME NEW g \in Groups, ReleaseTags(g) PROVE plc_tags'[h][u] = "absent"
  BY <1>5 DEF ReleaseTags, OutsideMapEmpty, NoTags
<1>6. ASSUME NEW t \in Tags, TagCreate(t) \/ TagRead(t) PROVE plc_tags'[h][u] = "absent"
  <2>1. wgroup \in tag_groups
    BY <1>6 DEF TagCreate, TagRead, HasHandle, OutsideMapEmpty, WorkerOK
  <2> QED
    BY <1>6, <2>1 DEF TagCreate, TagRead, OutsideMapEmpty
<1>7. ASSUME UNCHANGED <<tag_groups, plc_tags>> PROVE plc_tags'[h][u] = "absent"
  BY <1>7 DEF OutsideMapEmpty
<1> QED
  BY <1>1, <1>2, <1>3, <1>4, <1>5, <1>6, <1>7, TagSteps

LEMMA CleanedAreEmptyKept ==
    ASSUME TypeInv, OutsideMapEmpty, CleanedAreEmpty, [Next]_vars
    PROVE  CleanedAreEmpty'
<1> USE DEF TypeInv, TypeOK, GroupsOK, WorkerOK, CleanedAreEmpty
<1>1. ASSUME wpc' \notin {"release", "reset"} PROVE CleanedAreEmpty'
  BY <1>1
<1>2. ASSUME UNCHANGED <<wpc, left, wgroup, plc_tags>> PROVE CleanedAreEmpty'
  BY <1>2
<1>3. CASE Client
  <2>1. UNCHANGED <<wpc, left, wgroup>>
    BY <1>3 DEF Client, RegisterTagGroup, RegisterTag, WriteGate, SetEnableComms, StartSim, StopSim,
       ClearTagGroups, FrameStart, FrameStopped, QuitSignal, worker
  <2>2. wpc \in {"release", "reset"} => UNCHANGED plc_tags
    BY <1>3 DEF Client, RegisterTagGroup, RegisterTag, WriteGate, SetEnableComms, StartSim, StopSim,
       ClearTagGroups, FrameStart, FrameStopped, QuitSignal, groups, MayChangeGroups, MapsFree
  <2> QED
    BY <1>1, <1>2, <2>1, <2>2
<1>4. CASE MainStep
  <2>1. UNCHANGED <<wpc, left, wgroup>>
    BY <1>4 DEF MainStep, StopPush, WritePush, WriteWake, FrameGroup, FrameEmit, FrameEnd,
       QuitShutdown, QuitJoin, worker
  <2>2. wpc \in {"release", "reset"} => UNCHANGED plc_tags
    BY <1>4 DEF MainStep, StopPush, WritePush, WriteWake, FrameGroup, FrameEmit, FrameEnd,
       QuitShutdown, QuitJoin, groups
  <2> QED
    BY <1>1, <1>2, <2>1, <2>2
<1>5. CASE FlushDone
  BY <1>5 DEF FlushDone, OutsideMapEmpty, groups
<1>6. ASSUME NEW g \in Groups, ReleaseTags(g) PROVE CleanedAreEmpty'
  <2>1. \A h \in Groups, u \in Tags :
            plc_tags'[h][u] = IF h = g THEN "absent" ELSE plc_tags[h][u]
    BY <1>6 DEF ReleaseTags, NoTags
  <2>2. wgroup' = g /\ left' = left /\ wpc = "release"
    BY <1>6 DEF ReleaseTags
  <2> QED
    BY <2>1, <2>2
<1>7. CASE ResetGroup
  BY <1>7 DEF ResetGroup
<1>8. ASSUME \/ WorkerLoop \/ WorkerPop \/ WorkerDispatch \/ ReleaseDone \/ Decide \/ TagsDone
             \/ ServerPolled \/ ServerTagInvalid \/ WorkerStopPush
             \/ WriteBegin \/ WriteEnd \/ \E t \in Tags : TagCreate(t) \/ TagRead(t)
      PROVE  wpc' \notin {"release", "reset"}
  BY <1>8 DEF WorkerLoop, WorkerPop, WorkerDispatch, ReleaseDone, Decide, TagsDone, TagCreate,
     ServerPolled, ServerTagInvalid, WorkerStopPush,
     TagRead, WriteBegin, WriteEnd, Flushing
<1>9. CASE UNCHANGED vars
  BY <1>2, <1>9 DEF vars, worker, groups
<1> QED
  BY <1>1, <1>3, <1>4, <1>5, <1>6, <1>7, <1>8, <1>9 DEF Next, WorkerStep

(* Only StopSim and ServerTagInvalid end a run, and each leaves a request  *)
(* to clean up behind.                                                     *)
LEMMA StopIsPending == ASSUME [Next]_vars, sim_running, ~sim_running' PROVE CleanupPending'
<1>1. CASE Client
  BY <1>1 DEF Client, RegisterTagGroup, RegisterTag, WriteGate, SetEnableComms, StartSim, StopSim,
     ClearTagGroups, FrameStart, FrameStopped, QuitSignal, flags, CleanupPending
<1>2. CASE MainStep \/ WorkerStep \/ UNCHANGED vars
  BY <1>2 DEF MainStep, StopPush, WritePush, WriteWake, FrameGroup, FrameEmit, FrameEnd,
     QuitShutdown, QuitJoin, WorkerStep, WorkerLoop, WorkerPop, WorkerDispatch, WriteBegin,
     WriteEnd, FlushDone, ReleaseTags, ResetGroup, ReleaseDone, Decide, TagCreate, TagRead,
     TagsDone, ServerPolled, ServerTagInvalid, WorkerStopPush, vars, flags, CleanupPending
<1> QED
  BY <1>1, <1>2 DEF Next

LEMMA PollIsCoveredKept ==
    ASSUME TypeInv, PollIsCovered, [Next]_vars
    PROVE  PollIsCovered'
<1>1. CASE wpc = "tags"
  BY <1>1, CleanupStays, StopIsPending DEF PollIsCovered, ReleaseDone
<1>2. CASE wpc # "tags" /\ wpc' = "tags"
  <2>1. Decide
    <3>1. ASSUME Client \/ MainStep \/ UNCHANGED vars PROVE UNCHANGED wpc
      BY <3>1 DEF Client, RegisterTagGroup, RegisterTag, WriteGate, SetEnableComms, StartSim,
         StopSim, ClearTagGroups, FrameStart, FrameStopped, QuitSignal, MainStep, StopPush,
         WritePush, WriteWake, FrameGroup, FrameEmit, FrameEnd, QuitShutdown, QuitJoin, vars, worker
    <3>2. ASSUME WorkerStep PROVE Decide
      BY <1>2, <3>2 DEF WorkerStep, WorkerLoop, WorkerPop, WorkerDispatch, WriteBegin, WriteEnd,
         FlushDone, ReleaseTags, ResetGroup, ReleaseDone, TagCreate, TagRead, TagsDone,
         ServerPolled, ServerTagInvalid, WorkerStopPush
    <3> QED
      BY <1>2, <3>1, <3>2 DEF Next
  <2> QED
    BY <1>2, <2>1 DEF Decide, PollIsCovered, flags
<1> QED
  BY <1>1, <1>2 DEF PollIsCovered

LEMMA ReleasedWhenStoppedKept ==
    ASSUME TypeInv, ReleaseInv, [Next]_vars, ExactHandles'
    PROVE  ReleasedWhenStopped'
<1> USE DEF ReleaseInv
<1>1. CASE sim_running
  BY <1>1, StopIsPending DEF ReleasedWhenStopped
<1>2. CASE CleanupPending
  <2>1. CASE ReleaseDone
    <3>1. NoHandles
      BY <2>1 DEF ReleaseDone, CleanedAreEmpty, ExactHandles, HasHandle, NoHandles
    <3> QED
      BY <2>1, <3>1 DEF ReleaseDone, groups, NoHandles, ReleasedWhenStopped
  <2> QED
    BY <1>2, <2>1, CleanupStays DEF ReleasedWhenStopped
<1>3. CASE ~sim_running /\ ~CleanupPending /\ NoHandles
  <2> SUFFICES ASSUME NEW h \in Groups, NEW u \in Tags PROVE handles'[h][u] = 0
    BY DEF ReleasedWhenStopped, NoHandles
  <2>1. handles[h][u] = 0 /\ ~HasHandle(h, u)
    BY <1>3 DEF NoHandles, ExactHandles
  <2>2. wpc # "tags"
    BY <1>3 DEF PollIsCovered
  <2>3. ASSUME NEW g \in Groups, RegisterTagGroup(g) \/ ReleaseTags(g)
        PROVE  handles'[h][u] = 0
    BY <2>1, <2>3 DEF RegisterTagGroup, ReleaseTags, HandlesClosed, TypeInv, TypeOK, GroupsOK
  <2>4. ASSUME ClearTagGroups \/ QuitJoin PROVE handles'[h][u] = 0
    BY <2>1, <2>4 DEF ClearTagGroups, QuitJoin, CleanAllGroups, HandlesClosed
  <2>5. ASSUME NEW g \in Groups, NEW t \in Tags, RegisterTag(g, t) PROVE handles'[h][u] = 0
    BY <2>1, <2>5 DEF RegisterTag
  <2>6. ASSUME NEW t \in Tags, TagCreate(t) \/ TagRead(t) PROVE FALSE
    BY <2>2, <2>6 DEF TagCreate, TagRead
  <2> QED
    BY <2>1, <2>3, <2>4, <2>5, <2>6, TagSteps
<1> QED
  BY <1>1, <1>2, <1>3 DEF ReleasedWhenStopped

LEMMA ReleaseInvKept ==
    ASSUME TypeInv, ReleaseInv, [Next]_vars, ~Overwrites
    PROVE  ReleaseInv'
<1>1. ExactHandles' /\ OutsideMapEmpty' /\ CleanedAreEmpty' /\ PollIsCovered'
  BY ExactHandlesKept, OutsideMapEmptyKept, CleanedAreEmptyKept, PollIsCoveredKept DEF ReleaseInv
<1>2. ReleasedWhenStopped'
  BY <1>1, ReleasedWhenStoppedKept
<1> QED
  BY <1>1, <1>2 DEF ReleaseInv

(* No handle is leaked and none is closed twice, as long as the client     *)
(* registers no group twice (the handles of a group that is registered again are leaked).*)
THEOREM CoreExactHandles == ASSUME ~Overwrites PROVE Spec => []ExactHandles
<1>1. Init => ReleaseInv
  BY InitReleaseInv
<1>2. TypeInv /\ ReleaseInv /\ [Next]_vars => ReleaseInv'
  BY ReleaseInvKept
<1>3. ReleaseInv => ExactHandles
  BY DEF ReleaseInv
<1> QED
  BY <1>1, <1>2, <1>3, CoreTypeInv, PTL DEF Spec

(* Connections do not outlive a stop: whenever the simulation is stopped,  *)
(* a cleanup is still to come or every handle has been released.           *)
THEOREM CoreReleasedWhenStopped == ASSUME ~Overwrites PROVE Spec => []ReleasedWhenStopped
<1>1. Init => ReleaseInv
  BY InitReleaseInv
<1>2. TypeInv /\ ReleaseInv /\ [Next]_vars => ReleaseInv'
  BY ReleaseInvKept
<1>3. ReleaseInv => ReleasedWhenStopped
  BY DEF ReleaseInv
<1> QED
  BY <1>1, <1>2, <1>3, CoreTypeInv, PTL DEF Spec
---------------------------------------------------------------------------
(* What a patient client can rely on, as long as the worker does not stop  *)
(* the simulation itself: a run begins when the last cleanup is done, and  *)
(* frames belong to a run, so that no flag is set while a cleanup is under *)
(* way.  From there the flags go the way of the tags: a group outside the  *)
(* map has none, and one that the cleanup has passed has none.             *)
Polite == Patient /\ ~WorkerStops

NoServer == /\ \A i \in 1 .. Len(tag_group_queue) : tag_group_queue[i].kind # "server"
            /\ item.kind # "server"
            /\ wpc \notin {"server", "stop_push"}
FramesInRun == mpc \in {"frame", "emit"} => sim_running
RunIsClean == sim_running => ~CleanupPending
FlagsInMap == /\ \A g \in Groups \ tag_groups : ~init_count_emitted[g]
              /\ mpc = "frame" => todo \subseteq tag_groups
              /\ mpc = "emit" => current \in tag_groups /\ todo \subseteq tag_groups
CleanedUnannounced == wpc \in {"release", "reset"} =>
                          \A g \in Groups \ left : ~init_count_emitted[g]
StoppedUnannounced == sim_running \/ CleanupPending \/ \A g \in Groups : ~init_count_emitted[g]
AnnounceInv == /\ FramesInRun
               /\ RunIsClean
               /\ FlagsInMap
               /\ CleanedUnannounced
               /\ StoppedUnannounced

(* The worker never polls the OPC UA group that there is not.              *)
LEMMA NoServerKept ==
    ASSUME TypeInv, NoServer, [Next]_vars, ~WorkerStops
    PROVE  NoServer'
<1> USE DEF TypeInv, TypeOK, QueuesOK, NoServer
<1>1. ASSUME NEW m \in Messages, m.kind # "server", UNCHANGED <<item, wpc>>,
             tag_group_queue' = Append(tag_group_queue, m)
      PROVE  NoServer'
  <2>1. /\ Len(tag_group_queue') = Len(tag_group_queue) + 1
        /\ \A i \in 1 .. Len(tag_group_queue) : tag_group_queue'[i] = tag_group_queue[i]
        /\ tag_group_queue'[Len(tag_group_queue) + 1] = m
    BY <1>1
  <2>2. ASSUME NEW i \in 1 .. Len(tag_group_queue') PROVE tag_group_queue'[i].kind # "server"
    <3>1. CASE i \in 1 .. Len(tag_group_queue)
      BY <2>1, <3>1
    <3>2. CASE i = Len(tag_group_queue) + 1
      BY <1>1, <2>1, <3>2
    <3> QED
      BY <2>1, <3>1, <3>2
  <2> QED
    BY <1>1, <2>2
<1>2. ASSUME UNCHANGED <<tag_group_queue, item, wpc>> PROVE NoServer'
  BY <1>2
<1>3. CASE Client \/ UNCHANGED vars
  BY <1>2, <1>3 DEF Client, RegisterTagGroup, RegisterTag, WriteGate, SetEnableComms, StartSim,
     StopSim, ClearTagGroups, FrameStart, FrameStopped, QuitSignal, vars, queues, worker
<1>4. CASE MainStep
  <2>1. UNCHANGED <<wpc, item>>
    BY <1>4 DEF MainStep, StopPush, WritePush, WriteWake, FrameGroup, FrameEmit, FrameEnd,
       QuitShutdown, QuitJoin, worker
  <2>2. CASE StopPush
    <3>1. Cleanup(stops) \in Messages /\ Cleanup(stops).kind # "server"
      BY MessageTypes DEF Cleanup, HistoryOK
    <3> QED
      BY <1>1, <2>1, <2>2, <3>1 DEF StopPush
  <2>3. CASE WriteWake
    BY <1>1, <2>1, <2>3, MessageTypes DEF WriteWake, Wake
  <2>4. ASSUME NEW g \in Groups, FrameGroup(g) PROVE NoServer'
    <3>1. Poll(g) \in Messages /\ Poll(g).kind # "server"
      BY MessageTypes DEF Poll
    <3> QED
      BY <1>1, <1>2, <2>1, <2>4, <3>1 DEF FrameGroup
  <2>5. CASE FrameEnd
    BY <1>2, <2>1, <2>5 DEF FrameEnd
  <2>6. CASE WritePush \/ FrameEmit \/ QuitShutdown \/ QuitJoin
    BY <1>2, <2>1, <2>6 DEF WritePush, FrameEmit, QuitShutdown, QuitJoin, queues
  <2> QED
    BY <1>4, <2>2, <2>3, <2>4, <2>5, <2>6 DEF MainStep
<1>5. CASE WorkerPop
  <2>1. CASE /\ tag_group_queue # << >>
             /\ item' = Head(tag_group_queue)
             /\ tag_group_queue' = Tail(tag_group_queue)
    <3>1. /\ Len(tag_group_queue') = Len(tag_group_queue) - 1 /\ Len(tag_group_queue) >= 1
          /\ \A i \in 1 .. Len(tag_group_queue') : tag_group_queue'[i] = tag_group_queue[i + 1]
          /\ item' = tag_group_queue[1]
      BY <2>1
    <3>2. \A i \in 1 .. Len(tag_group_queue') : i + 1 \in 1 .. Len(tag_group_queue)
      BY <3>1
    <3>3. wpc' = "popped"
      BY <1>5 DEF WorkerPop
    <3> QED
      BY <3>1, <3>2, <3>3
  <2>2. CASE item' = Wake /\ UNCHANGED tag_group_queue
    BY <1>5, <2>2 DEF WorkerPop, Wake
  <2> QED
    BY <1>5, <2>1, <2>2 DEF WorkerPop
<1>6. CASE WorkerLoop
  BY <1>6 DEF WorkerLoop, Wake, queues
<1>7. CASE WorkerDispatch \/ WriteBegin \/ WriteEnd \/ FlushDone \/ ReleaseDone \/ TagsDone
  BY <1>7 DEF WorkerDispatch, WriteBegin, WriteEnd, FlushDone, ReleaseDone, TagsDone, queues
<1>8. CASE ResetGroup \/ Decide \/ \E g \in Groups : ReleaseTags(g)
  BY <1>8 DEF ResetGroup, Decide, ReleaseTags, queues
<1>9. CASE \E t \in Tags : TagCreate(t) \/ TagRead(t)
  BY <1>9 DEF TagCreate, TagRead, queues
<1>10. ~ServerPolled /\ ~ServerTagInvalid /\ ~WorkerStopPush
  BY DEF ServerPolled, ServerTagInvalid, WorkerStopPush
<1> QED
  BY <1>3, <1>4, <1>5, <1>6, <1>7, <1>8, <1>9, <1>10 DEF Next, WorkerStep

(* A cleanup comes only of a stop.                                         *)
LEMMA CleanupNeedsStop ==
    ASSUME TypeInv, NoServer, ~CleanupPending, [Next]_vars, ~StopSim
    PROVE  ~CleanupPending'
<1> USE DEF TypeInv, TypeOK, QueuesOK, CleanupPending
<1>1. ASSUME NEW m \in Messages, m.kind # "cleanup",
             tag_group_queue' = Append(tag_group_queue, m)
      PROVE  ~CleanupQueued'
  <2>1. /\ Len(tag_group_queue') = Len(tag_group_queue) + 1
        /\ \A i \in 1 .. Len(tag_group_queue) : tag_group_queue'[i] = tag_group_queue[i]
        /\ tag_group_queue'[Len(tag_group_queue) + 1] = m
    BY <1>1
  <2>2. ASSUME NEW i \in 1 .. Len(tag_group_queue') PROVE tag_group_queue'[i].kind # "cleanup"
    <3>1. CASE i \in 1 .. Len(tag_group_queue)
      BY <2>1, <3>1 DEF CleanupQueued
    <3>2. CASE i = Len(tag_group_queue) + 1
      BY <1>1, <2>1, <3>2
    <3> QED
      BY <2>1, <3>1, <3>2
  <2> QED
    BY <2>2 DEF CleanupQueued
<1>2. ASSUME UNCHANGED tag_group_queue PROVE ~CleanupQueued'
  BY <1>2 DEF CleanupQueued
<1>3. ASSUME UNCHANGED <<wpc, item>>, mpc' # "stop_push", ~CleanupQueued' PROVE ~CleanupPending'
  BY <1>3 DEF CleanupUnderWay
<1>4. CASE Client \/ UNCHANGED vars
  <2>1. UNCHANGED <<tag_group_queue, wpc, item>> /\ mpc' # "stop_push"
    BY <1>4 DEF Client, RegisterTagGroup, RegisterTag, WriteGate, SetEnableComms, StartSim,
       ClearTagGroups, FrameStart, FrameStopped, QuitSignal, MayChangeGroups, vars, queues, main,
       worker
  <2> QED
    BY <1>2, <1>3, <2>1
<1>5. CASE MainStep
  <2>1. UNCHANGED <<wpc, item>> /\ mpc' # "stop_push" /\ ~StopPush
    BY <1>5 DEF MainStep, StopPush, WritePush, WriteWake, FrameGroup, FrameEmit, FrameEnd,
       QuitShutdown, QuitJoin, worker
  <2>2. ~CleanupQueued'
    <3>1. CASE WriteWake
      BY <1>1, <3>1, MessageTypes DEF WriteWake, Wake
    <3>2. ASSUME NEW g \in Groups, FrameGroup(g) PROVE ~CleanupQueued'
      <4>1. Poll(g) \in Messages /\ Poll(g).kind # "cleanup"
        BY MessageTypes DEF Poll
      <4> QED
        BY <1>1, <1>2, <3>2, <4>1 DEF FrameGroup
    <3>3. CASE FrameEnd
      <4>1. PollServer \in Messages /\ PollServer.kind # "cleanup"
        BY MessageTypes DEF PollServer
      <4> QED
        BY <1>1, <1>2, <3>3, <4>1 DEF FrameEnd
    <3>4. CASE WritePush \/ FrameEmit \/ QuitShutdown \/ QuitJoin
      BY <1>2, <3>4 DEF WritePush, FrameEmit, QuitShutdown, QuitJoin, queues
    <3> QED
      BY <1>5, <2>1, <3>1, <3>2, <3>3, <3>4 DEF MainStep
  <2> QED
    BY <1>3, <2>1, <2>2
<1>6. CASE WorkerPop
  <2>1. UNCHANGED mpc /\ wpc' = "popped"
    BY <1>6 DEF WorkerPop, main
  <2>2. CASE /\ tag_group_queue # << >>
             /\ item' = Head(tag_group_queue)
             /\ tag_group_queue' = Tail(tag_group_queue)
    <3>1. /\ Len(tag_group_queue') = Len(tag_group_queue) - 1 /\ Len(tag_group_queue) >= 1
          /\ \A i \in 1 .. Len(tag_group_queue') : tag_group_queue'[i] = tag_group_queue[i + 1]
          /\ item' = tag_group_queue[1]
      BY <2>2
    <3>2. \A i \in 1 .. Len(tag_group_queue') : i + 1 \in 1 .. Len(tag_group_queue)
      BY <3>1
    <3>3. \A i \in 1 .. Len(tag_group_queue) : tag_group_queue[i].kind # "cleanup"
      BY DEF CleanupQueued
    <3>4. ASSUME NEW i \in 1 .. Len(tag_group_queue') PROVE tag_group_queue'[i].kind # "cleanup"
      <4>1. i + 1 \in 1 .. Len(tag_group_queue) /\ tag_group_queue'[i] = tag_group_queue[i + 1]
        BY <3>1, <3>2
      <4> QED
        BY <3>3, <4>1
    <3>5. ~CleanupQueued'
      BY <3>4 DEF CleanupQueued
    <3>6. item'.kind # "cleanup"
      <4>1. 1 \in 1 .. Len(tag_group_queue)
        BY <2>2
      <4> QED
        BY <3>1, <3>3, <4>1
    <3> QED
      BY <2>1, <3>5, <3>6 DEF CleanupUnderWay
  <2>3. CASE item' = Wake /\ UNCHANGED tag_group_queue
    BY <1>2, <2>1, <2>3 DEF CleanupUnderWay, Wake
  <2> QED
    BY <1>6, <2>2, <2>3 DEF WorkerPop
<1>7. ASSUME WorkerStep, ~WorkerPop PROVE ~CleanupPending'
  <2>1. wpc \notin {"server", "stop_push"}
    BY DEF NoServer
  <2>2. UNCHANGED <<tag_group_queue, mpc>>
    BY <1>7, <2>1 DEF WorkerStep, WorkerLoop, WorkerDispatch, WriteBegin, WriteEnd, FlushDone,
       ReleaseTags, ResetGroup, ReleaseDone, Decide, TagCreate, TagRead, TagsDone, ServerPolled,
       ServerTagInvalid, WorkerStopPush, queues, main
  <2>3. wpc' \notin {"popped", "drain", "release", "reset", "stop_push"}
    BY <1>7, <2>1 DEF WorkerStep, WorkerLoop, WorkerDispatch, WriteBegin, WriteEnd, FlushDone,
       Flushing, ReleaseTags, ResetGroup, ReleaseDone, Decide, TagCreate, TagRead, TagsDone,
       ServerPolled, ServerTagInvalid, WorkerStopPush, CleanupUnderWay
  <2> QED
    BY <1>2, <2>2, <2>3 DEF CleanupUnderWay
<1> QED
  BY <1>4, <1>5, <1>6, <1>7 DEF Next

(* Only these steps change which groups count as announced.                *)
LEMMA FlagSteps ==
    ASSUME [Next]_vars
    PROVE  \/ \E g \in Groups : RegisterTagGroup(g)
           \/ ClearTagGroups \/ QuitJoin \/ FrameEmit \/ ResetGroup
           \/ UNCHANGED init_count_emitted
<1>1. CASE Client \/ UNCHANGED vars
  BY <1>1 DEF Client, RegisterTag, WriteGate, SetEnableComms, StartSim, StopSim, FrameStart,
     FrameStopped, QuitSignal, vars, groups
<1>2. CASE MainStep
  BY <1>2 DEF MainStep, StopPush, WritePush, WriteWake, FrameGroup, FrameEnd, QuitShutdown, groups
<1>3. CASE WorkerStep
  BY <1>3 DEF WorkerStep, WorkerLoop, WorkerPop, WorkerDispatch, WriteBegin, WriteEnd, FlushDone,
     ReleaseTags, ReleaseDone, Decide, TagCreate, TagRead, TagsDone, ServerPolled,
     ServerTagInvalid, WorkerStopPush, groups
<1> QED
  BY <1>1, <1>2, <1>3 DEF Next

LEMMA RunKept ==
    ASSUME TypeInv, NoServer, FramesInRun, RunIsClean, [Next]_vars, Polite
    PROVE  FramesInRun' /\ RunIsClean'
<1>1. CASE StartSim
  <2>1. mpc = "idle" /\ tag_group_queue = << >> /\ wpc \in {"loop", "pop"}
    BY <1>1 DEF StartSim, Polite, WorkerIdle
  <2>2. UNCHANGED <<mpc, tag_group_queue, wpc, item>>
    BY <1>1 DEF StartSim, main, queues, worker
  <2>3. ~CleanupPending'
    BY <2>1, <2>2 DEF CleanupPending, CleanupQueued, CleanupUnderWay
  <2> QED
    BY <2>1, <2>2, <2>3 DEF FramesInRun, RunIsClean
<1>2. CASE StopSim
  BY <1>2 DEF StopSim, FramesInRun, RunIsClean
<1>3. ASSUME ~StartSim, ~StopSim PROVE FramesInRun' /\ RunIsClean'
  <2>1. ~ServerTagInvalid
    BY DEF NoServer, ServerTagInvalid
  <2>2. UNCHANGED sim_running
    BY <1>3, <2>1 DEF Next, Client, RegisterTagGroup, RegisterTag, WriteGate, SetEnableComms,
       ClearTagGroups, FrameStart, FrameStopped, QuitSignal, MainStep, StopPush, WritePush,
       WriteWake, FrameGroup, FrameEmit, FrameEnd, QuitShutdown, QuitJoin, WorkerStep, WorkerLoop,
       WorkerPop, WorkerDispatch, WriteBegin, WriteEnd, FlushDone, ReleaseTags, ResetGroup,
       ReleaseDone, Decide, TagCreate, TagRead, TagsDone, ServerPolled, WorkerStopPush, vars, flags
  <2>3. RunIsClean'
    BY <1>3, <2>2, CleanupNeedsStop DEF RunIsClean
  <2>4. ASSUME mpc' \in {"frame", "emit"} PROVE sim_running
    <3>1. CASE Client \/ UNCHANGED vars
      BY <1>3, <2>4, <3>1 DEF Client, RegisterTagGroup, RegisterTag, WriteGate, SetEnableComms,
         ClearTagGroups, FrameStart, FrameStopped, QuitSignal, vars, main, FramesInRun
    <3>2. CASE MainStep
      BY <2>4, <3>2 DEF MainStep, StopPush, WritePush, WriteWake, FrameGroup, FrameEmit, FrameEnd,
         QuitShutdown, QuitJoin, FramesInRun
    <3>3. CASE WorkerStep
      BY <2>4, <3>3 DEF WorkerStep, WorkerLoop, WorkerPop, WorkerDispatch, WriteBegin, WriteEnd,
         FlushDone, ReleaseTags, ResetGroup, ReleaseDone, Decide, TagCreate, TagRead, TagsDone,
         ServerPolled, ServerTagInvalid, WorkerStopPush, main, FramesInRun
    <3> QED
      BY <3>1, <3>2, <3>3 DEF Next
  <2> QED
    BY <2>2, <2>3, <2>4 DEF FramesInRun
<1> QED
  BY <1>1, <1>2, <1>3

LEMMA FlagsInMapKept ==
    ASSUME TypeInv, FlagsInMap, [Next]_vars
    PROVE  FlagsInMap'
<1> USE DEF TypeInv, TypeOK, GroupsOK, MainOK, FlagsInMap
<1>1. CASE ClearTagGroups
  BY <1>1 DEF ClearTagGroups, CleanAllGroups, ForgetGroups, MayChangeGroups, main
<1>2. ASSUME ~ClearTagGroups PROVE tag_groups \subseteq tag_groups'
  <2>1. CASE Client \/ UNCHANGED vars
    BY <1>2, <2>1 DEF Client, RegisterTagGroup, RegisterTag, WriteGate, SetEnableComms, StartSim,
       StopSim, FrameStart, FrameStopped, QuitSignal, vars, groups
  <2>2. CASE MainStep
    BY <2>2 DEF MainStep, StopPush, WritePush, WriteWake, FrameGroup, FrameEmit, FrameEnd,
       QuitShutdown, QuitJoin, groups
  <2>3. CASE WorkerStep
    BY <2>3 DEF WorkerStep, WorkerLoop, WorkerPop, WorkerDispatch, WriteBegin, WriteEnd, LookUp,
       FlushDone, ReleaseTags, ResetGroup, ReleaseDone, Decide, TagCreate, TagRead, TagsDone,
       ServerPolled, ServerTagInvalid, WorkerStopPush, groups
  <2> QED
    BY <2>1, <2>2, <2>3 DEF Next
<1>3. ASSUME ~ClearTagGroups PROVE \A g \in Groups \ tag_groups' : ~init_count_emitted'[g]
  <2>1. ASSUME NEW g \in Groups, RegisterTagGroup(g)
        PROVE  \A h \in Groups \ tag_groups' : ~init_count_emitted'[h]
    BY <1>2, <1>3, <2>1 DEF RegisterTagGroup
  <2>2. CASE QuitJoin
    BY <2>2 DEF QuitJoin, CleanAllGroups
  <2>3. CASE FrameEmit
    BY <1>2, <1>3, <2>3 DEF FrameEmit
  <2>4. CASE ResetGroup
    BY <1>2, <1>3, <2>4 DEF ResetGroup
  <2>5. CASE UNCHANGED init_count_emitted
    BY <1>2, <1>3, <2>5
  <2> QED
    BY <1>3, <2>1, <2>2, <2>3, <2>4, <2>5, FlagSteps
<1>4. ASSUME ~ClearTagGroups
      PROVE  /\ mpc' = "frame" => todo' \subseteq tag_groups'
             /\ mpc' = "emit" => current' \in tag_groups' /\ todo' \subseteq tag_groups'
  <2>1. CASE Client \/ UNCHANGED vars
    <3>1. CASE FrameStart
      BY <3>1 DEF FrameStart, groups
    <3> QED
      BY <1>2, <1>4, <2>1, <3>1 DEF Client, RegisterTagGroup, RegisterTag, WriteGate,
         SetEnableComms, StartSim, StopSim, FrameStopped, QuitSignal, MayChangeGroups, vars, main
  <2>2. CASE MainStep
    <3>1. ASSUME NEW g \in Groups, FrameGroup(g)
          PROVE  /\ mpc' = "frame" => todo' \subseteq tag_groups'
                 /\ mpc' = "emit" => current' \in tag_groups' /\ todo' \subseteq tag_groups'
      BY <3>1 DEF FrameGroup, groups
    <3>2. CASE FrameEmit
      BY <3>2 DEF FrameEmit
    <3> QED
      BY <2>2, <3>1, <3>2 DEF MainStep, StopPush, WritePush, WriteWake, FrameEnd, QuitShutdown,
         QuitJoin
  <2>3. CASE WorkerStep
    <3>1. UNCHANGED <<mpc, todo, current>>
      BY <2>3 DEF WorkerStep, WorkerLoop, WorkerPop, WorkerDispatch, WriteBegin, WriteEnd,
         FlushDone, ReleaseTags, ResetGroup, ReleaseDone, Decide, TagCreate, TagRead, TagsDone,
         ServerPolled, ServerTagInvalid, WorkerStopPush, main
    <3> QED
      BY <1>2, <1>4, <3>1
  <2> QED
    BY <2>1, <2>2, <2>3 DEF Next
<1> QED
  BY <1>1, <1>3, <1>4

LEMMA CleanedUnannouncedKept ==
    ASSUME TypeInv, NoServer, AnnounceInv, [Next]_vars
    PROVE  CleanedUnannounced'
<1> USE DEF TypeInv, TypeOK, GroupsOK, WorkerOK, AnnounceInv, CleanedUnannounced
<1>1. ASSUME wpc' \notin {"release", "reset"} PROVE CleanedUnannounced'
  BY <1>1
<1>2. CASE Client \/ MainStep \/ UNCHANGED vars
  <2>1. UNCHANGED <<wpc, left>>
    BY <1>2 DEF Client, RegisterTagGroup, RegisterTag, WriteGate, SetEnableComms, StartSim, StopSim,
       ClearTagGroups, FrameStart, FrameStopped, QuitSignal, MainStep, StopPush, WritePush,
       WriteWake, FrameGroup, FrameEmit, FrameEnd, QuitShutdown, QuitJoin, vars, worker
  <2>2. wpc \in {"release", "reset"} => ~FrameEmit
    BY DEF FrameEmit, FramesInRun, RunIsClean, CleanupPending, CleanupUnderWay
  <2>3. ASSUME wpc \in {"release", "reset"}, NEW g \in Groups, ~init_count_emitted[g]
        PROVE  ~init_count_emitted'[g]
    BY <2>2, <2>3, FlagSteps
    DEF RegisterTagGroup, ClearTagGroups, QuitJoin, CleanAllGroups, ResetGroup
  <2> QED
    BY <2>1, <2>3
<1>3. CASE FlushDone
  BY <1>3 DEF FlushDone, FlagsInMap, groups
<1>4. ASSUME NEW g \in Groups, ReleaseTags(g) PROVE CleanedUnannounced'
  BY <1>4 DEF ReleaseTags
<1>5. CASE ResetGroup
  <2>1. \A g \in Groups : init_count_emitted'[g] = (g # wgroup /\ init_count_emitted[g])
    BY <1>5 DEF ResetGroup
  <2> QED
    BY <1>5, <2>1 DEF ResetGroup
<1>6. ASSUME \/ WorkerLoop \/ WorkerPop \/ WorkerDispatch \/ ReleaseDone \/ Decide \/ TagsDone
             \/ ServerPolled \/ ServerTagInvalid \/ WorkerStopPush
             \/ WriteBegin \/ WriteEnd \/ \E t \in Tags : TagCreate(t) \/ TagRead(t)
      PROVE  wpc' \notin {"release", "reset"}
  BY <1>6 DEF WorkerLoop, WorkerPop, WorkerDispatch, ReleaseDone, Decide, TagsDone, TagCreate,
     ServerPolled, ServerTagInvalid, WorkerStopPush, TagRead, WriteBegin, WriteEnd, Flushing
<1> QED
  BY <1>1, <1>2, <1>3, <1>4, <1>5, <1>6 DEF Next, WorkerStep

LEMMA StoppedUnannouncedKept ==
    ASSUME TypeInv, NoServer, AnnounceInv, [Next]_vars
    PROVE  StoppedUnannounced'
<1> USE DEF AnnounceInv, StoppedUnannounced
<1>1. CASE sim_running
  BY <1>1, StopIsPending
<1>2. CASE CleanupPending
  <2>1. CASE ReleaseDone
    <3>1. UNCHANGED init_count_emitted /\ wpc = "release" /\ left = {}
      BY <2>1 DEF ReleaseDone, groups
    <3> QED
      BY <3>1 DEF CleanedUnannounced
  <2> QED
    BY <1>2, <2>1, CleanupStays
<1>3. CASE ~sim_running /\ \A g \in Groups : ~init_count_emitted[g]
  <2>1. ~FrameEmit
    BY <1>3 DEF FrameEmit, FramesInRun
  <2>2. ASSUME NEW g \in Groups PROVE ~init_count_emitted'[g]
    BY <1>3, <2>1, FlagSteps
    DEF RegisterTagGroup, ClearTagGroups, QuitJoin, CleanAllGroups, ResetGroup, TypeInv, TypeOK,
        GroupsOK
  <2> QED
    BY <2>2
<1> QED
  BY <1>1, <1>2, <1>3

(* A patient client's groups are announced anew in every run, unless the   *)
(* worker stops one: when a stop has been cleaned up, no group still       *)
(* counts as announced.                                                    *)
THEOREM CoreAnnouncedAnew == ASSUME Polite PROVE Spec => []AnnouncedAnew
<1>1. Init => NoServer /\ AnnounceInv
  BY DEF Init, NoServer, Wake, AnnounceInv, FramesInRun, RunIsClean, CleanupPending, CleanupQueued,
     CleanupUnderWay, FlagsInMap, CleanedUnannounced, StoppedUnannounced
<1>2. ASSUME TypeInv, NoServer /\ AnnounceInv, [Next]_vars PROVE (NoServer /\ AnnounceInv)'
  <2>1. NoServer' /\ FlagsInMap' /\ CleanedUnannounced' /\ StoppedUnannounced'
    BY <1>2, NoServerKept, FlagsInMapKept, CleanedUnannouncedKept, StoppedUnannouncedKept
    DEF AnnounceInv, Polite
  <2>2. FramesInRun' /\ RunIsClean'
    BY <1>2, RunKept DEF AnnounceInv
  <2> QED
    BY <2>1, <2>2 DEF AnnounceInv
<1>3. AnnounceInv => AnnouncedAnew
  BY DEF AnnounceInv, StoppedUnannounced, AnnouncedAnew, WorkerIdle, CleanupPending, CleanupQueued,
     CleanupUnderWay
<1> QED
  BY <1>1, <1>2, <1>3, CoreTypeInv, PTL DEF Spec
---------------------------------------------------------------------------
(* init_count counts the handles of a group, whoever the client is.        *)
Opened(g) == {t \in Tags : HasHandle(g, t)}
CountOf(g) == init_count[g] = Cardinality(Opened(g))
CountsExact == \A g \in Groups : (wpc = "reset" /\ wgroup = g) \/ CountOf(g)

LEMMA OpenedFinite ==
    ASSUME NEW g \in Groups
    PROVE  IsFiniteSet(Opened(g)) /\ Cardinality(Opened(g)) \in Nat
<1>1. Opened(g) \in SUBSET Tags /\ IsFiniteSet(Tags)
  BY CoreAssumption DEF Opened, CoreAssumption
<1>2. IsFiniteSet(Opened(g))
  BY <1>1, FS_Subset
<1> QED
  BY <1>2, FS_CardinalityType

(* Only these steps touch the counts or the states of tags.                *)
LEMMA CountSteps ==
    ASSUME TypeInv, [Next]_vars
    PROVE  \/ \E g \in Groups : RegisterTagGroup(g) \/ ReleaseTags(g)
           \/ \E g \in Groups, t \in Tags : RegisterTag(g, t)
           \/ ClearTagGroups \/ QuitJoin \/ ResetGroup
           \/ \E t \in Tags : TagCreate(t) \/ TagRead(t)
           \/ \E g \in Groups, t \in Tags :
                  LookUp(g, t) /\ UNCHANGED <<init_count, wpc, wgroup>>
           \/ UNCHANGED <<plc_tags, init_count>>
<1>1. CASE Client
  BY <1>1 DEF Client, WriteGate, SetEnableComms, StartSim, StopSim, FrameStart, FrameStopped,
     QuitSignal, groups
<1>2. CASE MainStep
  BY <1>2 DEF MainStep, StopPush, WritePush, WriteWake, FrameGroup, FrameEmit, FrameEnd,
     QuitShutdown, groups
<1>3. CASE WriteBegin
  <2>1. Head(write_queue) \in Writes
    BY <1>3 DEF WriteBegin, TypeInv, TypeOK, QueuesOK
  <2>2. Head(write_queue).group \in Groups /\ Head(write_queue).tag \in Tags
    BY <2>1 DEF Writes
  <2>3. LookUp(Head(write_queue).group, Head(write_queue).tag)
        /\ UNCHANGED <<init_count, wpc, wgroup>>
    BY <1>3 DEF WriteBegin
  <2> QED
    BY <2>2, <2>3
<1>4. CASE WriteEnd
  <2>1. UNCHANGED <<init_count, wpc, wgroup>>
    BY <1>4 DEF WriteEnd
  <2>2. CASE LookUp(write.req.group, write.req.tag)
    <3>1. write.req \in Writes
      BY <1>4 DEF WriteEnd, TypeInv, TypeOK, WorkerOK, TakenWrites
    <3>2. write.req.group \in Groups /\ write.req.tag \in Tags
      BY <3>1 DEF Writes
    <3> QED
      BY <2>1, <2>2, <3>2
  <2> QED
    BY <1>4, <2>1, <2>2 DEF WriteEnd
<1>5. ASSUME WorkerStep, ~WriteBegin, ~WriteEnd
      PROVE  \/ ResetGroup
             \/ \E g \in Groups : ReleaseTags(g)
             \/ \E t \in Tags : TagCreate(t) \/ TagRead(t)
             \/ UNCHANGED <<plc_tags, init_count>>
  BY <1>5 DEF WorkerStep, WorkerLoop, WorkerPop, WorkerDispatch, FlushDone, ReleaseDone, Decide,
     TagsDone, ServerPolled, ServerTagInvalid, WorkerStopPush, groups
<1>6. CASE UNCHANGED vars
  BY <1>6 DEF vars, groups
<1> QED
  BY <1>1, <1>2, <1>3, <1>4, <1>5, <1>6 DEF Next

LEMMA CountsExactKept ==
    ASSUME TypeInv, CleanedAreEmpty, CountsExact, [Next]_vars
    PROVE  CountsExact'
<1> SUFFICES ASSUME NEW h \in Groups, ~(wpc' = "reset" /\ wgroup' = h)
             PROVE  init_count'[h] = Cardinality(Opened(h)')
  BY DEF CountsExact, CountOf
<1> USE DEF TypeInv, TypeOK, GroupsOK, WorkerOK
<1>1. ASSUME ~(wpc = "reset" /\ wgroup = h), init_count'[h] = init_count[h],
             \A u \in Tags : HasHandle(h, u)' <=> HasHandle(h, u)
      PROVE  init_count'[h] = Cardinality(Opened(h)')
  <2>1. Opened(h)' = Opened(h)
    BY <1>1 DEF Opened
  <2> QED
    BY <1>1, <2>1 DEF CountsExact, CountOf
<1>2. ASSUME init_count'[h] = 0, \A u \in Tags : plc_tags'[h][u] = "absent"
      PROVE  init_count'[h] = Cardinality(Opened(h)')
  <2>1. Opened(h)' = {}
    BY <1>2 DEF Opened, HasHandle
  <2> QED
    BY <1>2, <2>1, FS_EmptySet
<1>3. CASE UNCHANGED <<wpc, wgroup>>
  <2> USE <1>3
  <2>1. ASSUME NEW g \in Groups, RegisterTagGroup(g)
        PROVE  init_count'[h] = Cardinality(Opened(h)')
    <3>1. CASE h = g
      BY <1>2, <2>1, <3>1 DEF RegisterTagGroup, NoTags
    <3>2. CASE h # g
      BY <1>1, <2>1, <3>2 DEF RegisterTagGroup, HasHandle
    <3> QED
      BY <3>1, <3>2
  <2>2. ASSUME NEW g \in Groups, NEW t \in Tags, RegisterTag(g, t)
        PROVE  init_count'[h] = Cardinality(Opened(h)')
    BY <1>1, <2>2 DEF RegisterTag, HasHandle
  <2>3. ASSUME NEW g \in Groups, NEW t \in Tags, LookUp(g, t), UNCHANGED init_count
        PROVE  init_count'[h] = Cardinality(Opened(h)')
    BY <1>1, <2>3 DEF LookUp, HasHandle
  <2>4. CASE ClearTagGroups \/ QuitJoin
    BY <1>2, <2>4 DEF ClearTagGroups, QuitJoin, CleanAllGroups, NoTags
  <2>5. CASE UNCHANGED <<plc_tags, init_count>>
    BY <1>1, <2>5 DEF HasHandle
  <2>6. ASSUME NEW t \in Tags, TagRead(t)
        PROVE  init_count'[h] = Cardinality(Opened(h)')
    BY <1>1, <2>6 DEF TagRead, HasHandle
  <2>7. ASSUME NEW t \in Tags, TagCreate(t)
        PROVE  init_count'[h] = Cardinality(Opened(h)')
    <3>1. wpc = "tags" /\ wgroup \in Groups /\ plc_tags[wgroup][t] \in {"new", "ghost"}
      BY <2>7 DEF TagCreate
    <3>2. CASE UNCHANGED <<plc_tags, init_count>>
      BY <2>5, <3>2
    <3>3. CASE /\ plc_tags' = [plc_tags EXCEPT ![wgroup][t] = "open"]
               /\ init_count' = [init_count EXCEPT ![wgroup] = @ + 1]
      <4>1. CASE h # wgroup
        BY <1>1, <3>1, <3>3, <4>1 DEF HasHandle
      <4>2. CASE h = wgroup
        <5>1. Opened(h)' = Opened(h) \cup {t} /\ t \notin Opened(h)
          BY <3>1, <3>3, <4>2 DEF Opened, HasHandle
        <5>2. Cardinality(Opened(h)') = Cardinality(Opened(h)) + 1
          BY <5>1, OpenedFinite, FS_AddElement
        <5>3. init_count'[h] = init_count[h] + 1 /\ init_count[h] = Cardinality(Opened(h))
          BY <3>1, <3>3, <4>2 DEF CountsExact, CountOf
        <5> QED
          BY <5>2, <5>3
      <4> QED
        BY <4>1, <4>2
    <3> QED
      BY <2>7, <3>2, <3>3 DEF TagCreate
  <2>8. ~ResetGroup /\ \A g \in Groups : ~ReleaseTags(g)
    BY DEF ResetGroup, ReleaseTags
  <2> QED
    BY <2>1, <2>2, <2>3, <2>4, <2>5, <2>6, <2>7, <2>8, CountSteps
<1>4. CASE ~UNCHANGED <<wpc, wgroup>>
  <2>1. CASE ResetGroup
    <3>1. CASE h = wgroup
      BY <1>2, <2>1, <3>1 DEF ResetGroup, CleanedAreEmpty
    <3>2. CASE h # wgroup
      BY <1>1, <2>1, <3>2 DEF ResetGroup, HasHandle
    <3> QED
      BY <3>1, <3>2
  <2>2. ASSUME NEW g \in Groups, ReleaseTags(g)
        PROVE  init_count'[h] = Cardinality(Opened(h)')
    BY <1>1, <2>2 DEF ReleaseTags, HasHandle
  <2>3. ASSUME ~ResetGroup, \A g \in Groups : ~ReleaseTags(g)
        PROVE  init_count'[h] = Cardinality(Opened(h)')
    <3>1. CASE UNCHANGED <<plc_tags, init_count>> /\ wpc # "reset"
      BY <1>1, <3>1 DEF HasHandle
    <3>2. wpc # "reset"
      BY <1>4, <2>3 DEF Next, Client, RegisterTagGroup, RegisterTag, WriteGate, SetEnableComms,
         StartSim, StopSim, ClearTagGroups, FrameStart, FrameStopped, QuitSignal, MainStep,
         StopPush, WritePush, WriteWake, FrameGroup, FrameEmit, FrameEnd, QuitShutdown, QuitJoin,
         WorkerStep, WorkerLoop, WorkerPop, WorkerDispatch, WriteBegin, WriteEnd, FlushDone,
         Flushing, ReleaseDone, Decide, TagCreate, TagRead, TagsDone, ServerPolled,
         ServerTagInvalid, WorkerStopPush, vars, worker
    <3>3. ASSUME NEW t \in Tags, TagRead(t)
          PROVE  init_count'[h] = Cardinality(Opened(h)')
      BY <1>1, <3>2, <3>3 DEF TagRead, HasHandle
    <3>4. ASSUME NEW t \in Tags, TagCreate(t), ~UNCHANGED <<wpc, wgroup>>
          PROVE  UNCHANGED <<plc_tags, init_count>>
      BY <3>4 DEF TagCreate
    <3>5. ~ClearTagGroups /\ ~QuitJoin
          /\ \A g \in Groups : ~RegisterTagGroup(g) /\ \A t \in Tags : ~RegisterTag(g, t)
      BY <1>4 DEF ClearTagGroups, QuitJoin, RegisterTagGroup, RegisterTag, worker
    <3> QED
      BY <1>4, <2>3, <3>1, <3>2, <3>3, <3>4, <3>5, CountSteps
  <2> QED
    BY <2>1, <2>2, <2>3
<1> QED
  BY <1>3, <1>4

LEMMA InitCountsExact == ASSUME Init PROVE CountsExact
<1>1. ASSUME NEW g \in Groups PROVE CountOf(g)
  <2>1. Opened(g) = {} /\ init_count[g] = 0
    BY DEF Init, Opened, HasHandle, NoTags
  <2> QED
    BY <2>1, FS_EmptySet DEF CountOf
<1> QED
  BY <1>1 DEF CountsExact

(* init_count never drifts from the number of handles of the group,        *)
(* whatever fails, restarts or overwrites in between.                      *)
THEOREM CoreInitCountExact == Spec => []InitCountExact
<1> DEFINE Inv == OutsideMapEmpty /\ CleanedAreEmpty /\ CountsExact
<1>1. Init => Inv
  BY InitReleaseInv, InitCountsExact DEF ReleaseInv
<1>2. ASSUME TypeInv, Inv, [Next]_vars PROVE Inv'
  BY <1>2, OutsideMapEmptyKept, CleanedAreEmptyKept, CountsExactKept
<1>3. Inv => InitCountExact
  BY DEF InitCountExact, CountsExact, CountOf, Opened
<1> QED
  BY <1>1, <1>2, <1>3, CoreTypeInv, PTL DEF Spec
---------------------------------------------------------------------------
(* A patient client's registrations last until the next stop: while a      *)
(* cleanup is to come nothing is owed, and nothing else takes tags away.   *)
OwedIsCleared == CleanupPending => \A g \in Groups : owed[g] = {}

(* Only these steps change what is owed.                                   *)
LEMMA OwedSteps ==
    ASSUME [Next]_vars
    PROVE  \/ \E g \in Groups : RegisterTagGroup(g) \/ \E t \in Tags : RegisterTag(g, t)
           \/ ClearTagGroups \/ StopSim \/ ServerTagInvalid
           \/ UNCHANGED owed
<1>1. CASE Client \/ UNCHANGED vars
  BY <1>1 DEF Client, WriteGate, SetEnableComms, StartSim, FrameStart, FrameStopped, QuitSignal,
     vars, history
<1>2. CASE MainStep
  BY <1>2 DEF MainStep, StopPush, WritePush, WriteWake, FrameGroup, FrameEmit, FrameEnd,
     QuitShutdown, QuitJoin, history
<1>3. CASE WorkerStep
  BY <1>3 DEF WorkerStep, WorkerLoop, WorkerPop, WorkerDispatch, WriteBegin, WriteEnd, FlushDone,
     ReleaseTags, ResetGroup, ReleaseDone, Decide, TagCreate, TagRead, TagsDone, ServerPolled,
     WorkerStopPush, history
<1> QED
  BY <1>1, <1>2, <1>3 DEF Next

LEMMA PatientNotPending ==
    ASSUME MayChangeGroups, Polite
    PROVE  ~CleanupPending
  BY DEF MayChangeGroups, Polite, WorkerIdle, CleanupPending, CleanupQueued, CleanupUnderWay

LEMMA OwedKept ==
    ASSUME TypeInv, NoServer, OwedIsCleared, RegistrationKept, [Next]_vars, Polite, ~Quits
    PROVE  OwedIsCleared' /\ (mpc # "quit_join" => RegistrationKept')
<1> USE DEF TypeInv, TypeOK, GroupsOK, HistoryOK, WorkerOK
<1>1. ~ServerTagInvalid
  BY DEF NoServer, ServerTagInvalid
<1>2. OwedIsCleared'
  <2>1. CASE StopSim
    BY <2>1 DEF StopSim, OwedIsCleared
  <2>2. ASSUME NEW g \in Groups, RegisterTagGroup(g) \/ \E t \in Tags : RegisterTag(g, t)
        PROVE  OwedIsCleared'
    <3>1. ~CleanupPending
      BY <2>2, PatientNotPending DEF RegisterTagGroup, RegisterTag
    <3>2. ~StopSim
      BY <2>2 DEF RegisterTagGroup, RegisterTag, StopSim, MayChangeGroups, main
    <3> QED
      BY <3>1, <3>2, CleanupNeedsStop DEF OwedIsCleared
  <2>3. CASE ClearTagGroups
    BY <2>3 DEF ClearTagGroups, OwedIsCleared
  <2>4. CASE UNCHANGED owed /\ ~StopSim
    BY <2>4, CleanupNeedsStop DEF OwedIsCleared
  <2> QED
    BY <1>1, <2>1, <2>2, <2>3, <2>4, OwedSteps
<1>3. ASSUME mpc # "quit_join", NEW g \in Groups, NEW t \in owed'[g]
      PROVE  plc_tags'[g][t] # "absent"
  <2>1. ASSUME NEW h \in Groups, RegisterTagGroup(h) PROVE plc_tags'[g][t] # "absent"
    BY <1>3, <2>1 DEF RegisterTagGroup, RegistrationKept
  <2>2. ASSUME NEW h \in Groups, NEW u \in Tags, RegisterTag(h, u)
        PROVE  plc_tags'[g][t] # "absent"
    BY <1>3, <2>2 DEF RegisterTag, RegistrationKept
  <2>3. CASE ClearTagGroups \/ StopSim
    BY <1>3, <2>3 DEF ClearTagGroups, StopSim
  <2>4. CASE UNCHANGED owed
    <3>1. plc_tags[g][t] # "absent" /\ t \in Tags /\ owed[g] # {}
      BY <1>3, <2>4 DEF RegistrationKept
    <3>2. \A h \in Groups : ~ReleaseTags(h)
      BY <3>1 DEF ReleaseTags, OwedIsCleared, CleanupPending, CleanupUnderWay
    <3>3. ~QuitJoin
      BY <1>3 DEF QuitJoin
    <3>4. ASSUME NEW h \in Groups, NEW u \in Tags, LookUp(h, u) PROVE plc_tags'[g][t] # "absent"
      BY <3>1, <3>4 DEF LookUp
    <3>5. ASSUME NEW u \in Tags, TagCreate(u) \/ TagRead(u) PROVE plc_tags'[g][t] # "absent"
      <4>1. CASE UNCHANGED plc_tags
        BY <3>1, <4>1
      <4>2. CASE plc_tags' = [plc_tags EXCEPT ![wgroup][u] = "open"]
        BY <3>1, <4>2
      <4>3. CASE plc_tags' = [plc_tags EXCEPT ![wgroup][u] = "ready"]
        BY <3>1, <4>3
      <4> QED
        BY <3>5, <4>1, <4>2, <4>3 DEF TagCreate, TagRead
    <3>6. CASE UNCHANGED plc_tags
      BY <3>1, <3>6
    <3> QED
      BY <2>1, <2>2, <2>3, <3>2, <3>3, <3>4, <3>5, <3>6, TagSteps
  <2> QED
    BY <1>1, <2>1, <2>2, <2>3, <2>4, OwedSteps
<1> QED
  BY <1>2, <1>3 DEF RegistrationKept

(* The destructor never begins.                                            *)
LEMMA NeverQuits ==
    ASSUME ~Quits, mpc \notin {"quit_shutdown", "quit_join"}, [Next]_vars
    PROVE  mpc' \notin {"quit_shutdown", "quit_join"}
<1>1. CASE Client \/ UNCHANGED vars
  BY <1>1 DEF Client, RegisterTagGroup, RegisterTag, WriteGate, SetEnableComms, StartSim, StopSim,
     ClearTagGroups, FrameStart, FrameStopped, QuitSignal, vars, main
<1>2. CASE MainStep
  BY <1>2 DEF MainStep, StopPush, WritePush, WriteWake, FrameGroup, FrameEmit, FrameEnd,
     QuitShutdown, QuitJoin
<1>3. CASE WorkerStep
  BY <1>3 DEF WorkerStep, WorkerLoop, WorkerPop, WorkerDispatch, WriteBegin, WriteEnd, FlushDone,
     ReleaseTags, ResetGroup, ReleaseDone, Decide, TagCreate, TagRead, TagsDone, ServerPolled,
     ServerTagInvalid, WorkerStopPush, main
<1> QED
  BY <1>1, <1>2, <1>3 DEF Next

(* What a patient client has registered is there until it stops or clears, *)
(* as long as the worker does not stop and nobody destroys the object.     *)
THEOREM CoreRegistrationKept == ASSUME Polite, ~Quits PROVE Spec => []RegistrationKept
<1> DEFINE Inv == /\ NoServer /\ OwedIsCleared /\ RegistrationKept
                  /\ mpc \notin {"quit_shutdown", "quit_join"}
<1>1. Init => Inv
  BY DEF Init, NoServer, Wake, OwedIsCleared, RegistrationKept
<1>2. ASSUME TypeInv, Inv, [Next]_vars PROVE Inv'
  BY <1>2, NoServerKept, OwedKept, NeverQuits DEF Polite
<1>3. Inv => RegistrationKept
  OBVIOUS
<1> QED
  BY <1>1, <1>2, <1>3, CoreTypeInv, PTL DEF Spec
---------------------------------------------------------------------------
(* A patient client's writes find their tags: a write has its wake-up      *)
(* behind it, so that none is queued when the client may clear, and none   *)
(* is left over when the cleanup takes the tags away, because writes are   *)
(* of a run and the drain ends only when there are none.                   *)
Present(g, t) == plc_tags[g][t] # "absent"
PushesInRun == mpc = "write_push" => sim_running
WriteAtFlush == wpc \notin {"drain", "flush"} => write = None
Drained == wpc \in {"release", "reset"} => write_queue = << >>
WakeFollows == write_queue # << >> => \/ mpc = "write_wake"
                                      \/ tag_group_queue # << >>
                                      \/ wpc \in {"popped", "drain", "flush", "done"}
GoneIsDone == mpc = "gone" => wpc = "done"
TargetsPresent ==
    mpc # "gone" => /\ \A i \in 1 .. Len(write_queue) :
                           Present(write_queue[i].group, write_queue[i].tag)
                    /\ mpc = "write_push" => Present(request.group, request.tag)
                    /\ write # None => Present(write.req.group, write.req.tag)
QueueInv == PushesInRun /\ WriteAtFlush /\ Drained /\ WakeFollows /\ GoneIsDone

LEMMA PushesInRunKept ==
    ASSUME NoServer, PushesInRun, [Next]_vars
    PROVE  PushesInRun'
<1>1. CASE Client \/ UNCHANGED vars
  BY <1>1 DEF Client, RegisterTagGroup, RegisterTag, WriteGate, SetEnableComms, StartSim, StopSim,
     ClearTagGroups, FrameStart, FrameStopped, QuitSignal, MayChangeGroups, vars, main, flags,
     PushesInRun
<1>2. CASE MainStep
  BY <1>2 DEF MainStep, StopPush, WritePush, WriteWake, FrameGroup, FrameEmit, FrameEnd,
     QuitShutdown, QuitJoin, flags, PushesInRun
<1>3. CASE WorkerStep
  <2>1. ~ServerTagInvalid
    BY DEF NoServer, ServerTagInvalid
  <2>2. UNCHANGED <<mpc, sim_running>>
    BY <1>3, <2>1 DEF WorkerStep, WorkerLoop, WorkerPop, WorkerDispatch, WriteBegin, WriteEnd,
       FlushDone, ReleaseTags, ResetGroup, ReleaseDone, Decide, TagCreate, TagRead, TagsDone,
       ServerPolled, WorkerStopPush, main, flags
  <2> QED
    BY <2>2 DEF PushesInRun
<1> QED
  BY <1>1, <1>2, <1>3 DEF Next

LEMMA QueueInvKept ==
    ASSUME TypeInv, NoServer, FramesInRun, RunIsClean, QueueInv, [Next]_vars, Polite
    PROVE  QueueInv'
<1> USE DEF TypeInv, TypeOK, QueuesOK, QueueInv
<1>1. PushesInRun'
  BY PushesInRunKept
<1>2. CASE Client \/ UNCHANGED vars
  <2>1. UNCHANGED <<wpc, write, write_queue, tag_group_queue>>
        /\ (mpc = "write_wake" => mpc' = "write_wake") /\ (mpc' = "gone" => mpc = "gone")
    BY <1>2 DEF Client, RegisterTagGroup, RegisterTag, WriteGate, SetEnableComms, StartSim, StopSim,
       ClearTagGroups, FrameStart, FrameStopped, QuitSignal, MayChangeGroups, vars, worker, queues,
       main
  <2> QED
    BY <1>1, <2>1 DEF WriteAtFlush, Drained, WakeFollows, GoneIsDone
<1>3. CASE MainStep
  <2>1. UNCHANGED <<wpc, write>>
    BY <1>3 DEF MainStep, StopPush, WritePush, WriteWake, FrameGroup, FrameEmit, FrameEnd,
       QuitShutdown, QuitJoin, worker
  <2>2. WriteAtFlush'
    BY <2>1 DEF WriteAtFlush
  <2>3. GoneIsDone'
    BY <1>3, <2>1 DEF GoneIsDone, MainStep, StopPush, WritePush, WriteWake, FrameGroup, FrameEmit,
       FrameEnd, QuitShutdown, QuitJoin
  <2>4. CASE WritePush
    <3>1. wpc \notin {"release", "reset"} /\ mpc' = "write_wake"
      BY <2>4 DEF WritePush, PushesInRun, RunIsClean, CleanupPending, CleanupUnderWay
    <3> QED
      BY <1>1, <2>1, <2>2, <2>3, <3>1 DEF Drained, WakeFollows
  <2>5. CASE ~WritePush
    <3>1. UNCHANGED write_queue
      BY <1>3, <2>5 DEF MainStep, StopPush, WriteWake, FrameGroup, FrameEmit, FrameEnd,
         QuitShutdown, QuitJoin, queues
    <3>2. tag_group_queue' # << >> \/ (UNCHANGED tag_group_queue /\ mpc # "write_wake")
      <4>1. CASE StopPush
        BY <4>1 DEF StopPush
      <4>2. CASE WriteWake
        BY <4>2 DEF WriteWake
      <4>3. ASSUME NEW g \in Groups, FrameGroup(g)
            PROVE  tag_group_queue' # << >> \/ (UNCHANGED tag_group_queue /\ mpc # "write_wake")
        BY <4>3 DEF FrameGroup
      <4>4. CASE FrameEnd
        BY <4>4 DEF FrameEnd
      <4>5. CASE FrameEmit \/ QuitShutdown \/ QuitJoin
        BY <4>5 DEF FrameEmit, QuitShutdown, QuitJoin, queues
      <4> QED
        BY <1>3, <2>5, <4>1, <4>2, <4>3, <4>4, <4>5 DEF MainStep
    <3> QED
      BY <1>1, <2>1, <2>2, <2>3, <3>1, <3>2 DEF Drained, WakeFollows
  <2> QED
    BY <2>4, <2>5
<1>4. CASE WorkerStep
  <2>1. UNCHANGED mpc
    BY <1>4 DEF WorkerStep, WorkerLoop, WorkerPop, WorkerDispatch, WriteBegin, WriteEnd, FlushDone,
       ReleaseTags, ResetGroup, ReleaseDone, Decide, TagCreate, TagRead, TagsDone, ServerPolled,
       ServerTagInvalid, WorkerStopPush, main
  <2>2. GoneIsDone'
    BY <1>4, <2>1 DEF GoneIsDone, WorkerStep, WorkerLoop, WorkerPop, WorkerDispatch, WriteBegin,
       WriteEnd, FlushDone, Flushing, ReleaseTags, ResetGroup, ReleaseDone, Decide, TagCreate,
       TagRead, TagsDone, ServerPolled, ServerTagInvalid, WorkerStopPush
  <2>3. CASE FlushDone
    BY <1>1, <2>2, <2>3 DEF FlushDone, WriteAtFlush, Drained, WakeFollows, queues
  <2>4. CASE WriteBegin \/ WriteEnd
    BY <1>1, <2>2, <2>4 DEF WriteBegin, WriteEnd, Flushing, WriteAtFlush, Drained, WakeFollows
  <2>5. CASE WorkerPop
    BY <1>1, <2>2, <2>5 DEF WorkerPop, WriteAtFlush, Drained, WakeFollows
  <2>6. CASE WorkerDispatch
    BY <1>1, <2>1, <2>2, <2>6 DEF WorkerDispatch, WriteAtFlush, Drained, WakeFollows, queues
  <2>7. ASSUME ~FlushDone, ~WriteBegin, ~WriteEnd, ~WorkerPop, ~WorkerDispatch
        PROVE  /\ UNCHANGED <<write, write_queue, tag_group_queue>>
               /\ wpc \notin {"drain", "flush", "popped", "done"}
               /\ wpc' \in {"release", "reset"} => wpc \in {"release", "reset"}
    <3>1. wpc \notin {"server", "stop_push"}
      BY DEF NoServer
    <3> QED
      BY <1>4, <2>7, <3>1 DEF WorkerStep, WorkerLoop, ReleaseTags, ResetGroup, ReleaseDone, Decide,
         TagCreate, TagRead, TagsDone, ServerPolled, ServerTagInvalid, WorkerStopPush, queues
  <2> QED
    BY <1>1, <2>1, <2>2, <2>3, <2>4, <2>5, <2>6, <2>7 DEF WriteAtFlush, Drained, WakeFollows
<1> QED
  BY <1>2, <1>3, <1>4 DEF Next

(* Tags go away only when the worker or the client cleans up.              *)
LEMMA TagsStay ==
    ASSUME TypeInv, OutsideMapEmpty, [Next]_vars, ~Overwrites,
           ~ClearTagGroups, ~QuitJoin, \A g \in Groups : ~ReleaseTags(g),
           NEW h \in Groups, NEW u \in Tags, Present(h, u)
    PROVE  Present(h, u)'
<1> USE DEF TypeInv, TypeOK, GroupsOK, WorkerOK, Present
<1>1. ASSUME NEW g \in Groups, RegisterTagGroup(g) PROVE plc_tags'[h][u] # "absent"
  BY <1>1 DEF RegisterTagGroup, OutsideMapEmpty
<1>2. ASSUME NEW g \in Groups, NEW t \in Tags, RegisterTag(g, t) PROVE plc_tags'[h][u] # "absent"
  BY <1>2 DEF RegisterTag
<1>3. ASSUME NEW g \in Groups, NEW t \in Tags, LookUp(g, t) PROVE plc_tags'[h][u] # "absent"
  BY <1>3 DEF LookUp
<1>4. ASSUME NEW t \in Tags, TagCreate(t) \/ TagRead(t) PROVE plc_tags'[h][u] # "absent"
  <2>1. CASE UNCHANGED plc_tags
    BY <2>1
  <2>2. CASE plc_tags' = [plc_tags EXCEPT ![wgroup][t] = "open"]
    BY <2>2
  <2>3. CASE plc_tags' = [plc_tags EXCEPT ![wgroup][t] = "ready"]
    BY <2>3
  <2> QED
    BY <1>4, <2>1, <2>2, <2>3 DEF TagCreate, TagRead
<1> QED
  BY <1>1, <1>2, <1>3, <1>4, TagSteps

(* Only these steps change what is queued, asked for or taken.             *)
LEMMA TargetSteps ==
    ASSUME [Next]_vars
    PROVE  \/ \E g \in Groups, t \in Tags : WriteGate(g, t)
           \/ WritePush \/ WriteBegin \/ WriteEnd
           \/ UNCHANGED <<write_queue, request, write>> /\ (mpc' = "write_push" => mpc = "write_push")
<1>1. CASE Client \/ UNCHANGED vars
  BY <1>1 DEF Client, RegisterTagGroup, RegisterTag, SetEnableComms, StartSim, StopSim,
     ClearTagGroups, FrameStart, FrameStopped, QuitSignal, vars, queues, main, worker
<1>2. CASE MainStep
  BY <1>2 DEF MainStep, StopPush, WriteWake, FrameGroup, FrameEmit, FrameEnd, QuitShutdown,
     QuitJoin, queues, worker
<1>3. CASE WorkerStep
  BY <1>3 DEF WorkerStep, WorkerLoop, WorkerPop, WorkerDispatch, FlushDone, ReleaseTags, ResetGroup,
     ReleaseDone, Decide, TagCreate, TagRead, TagsDone, ServerPolled, ServerTagInvalid,
     WorkerStopPush, queues, main
<1> QED
  BY <1>1, <1>2, <1>3 DEF Next

LEMMA GoneStays == ASSUME [Next]_vars, mpc = "gone" PROVE mpc' = "gone"
  BY DEF Next, Client, RegisterTagGroup, RegisterTag, WriteGate, SetEnableComms, StartSim, StopSim,
     ClearTagGroups, FrameStart, FrameStopped, QuitSignal, MayChangeGroups, MainStep, StopPush,
     WritePush, WriteWake, FrameGroup, FrameEmit, FrameEnd, QuitShutdown, QuitJoin, WorkerStep,
     WorkerLoop, WorkerPop, WorkerDispatch, WriteBegin, WriteEnd, FlushDone, ReleaseTags,
     ResetGroup, ReleaseDone, Decide, TagCreate, TagRead, TagsDone, ServerPolled, ServerTagInvalid,
     WorkerStopPush, vars, main

LEMMA TargetsPresentKept ==
    ASSUME TypeInv, OutsideMapEmpty, NoServer, RunIsClean, QueueInv, TargetsPresent,
           [Next]_vars, Polite, ~Overwrites
    PROVE  TargetsPresent'
<1> SUFFICES ASSUME mpc' # "gone" PROVE TargetsPresent'
  BY DEF TargetsPresent
<1> USE DEF TypeInv, TypeOK, QueuesOK, MainOK, WorkerOK
<1>1. mpc # "gone" /\ ~QuitJoin
  BY GoneStays DEF QuitJoin
<1>2. CASE ClearTagGroups \/ \E g \in Groups : ReleaseTags(g)
  <2>1. CASE ClearTagGroups
    <3>1. mpc = "idle" /\ tag_group_queue = << >> /\ wpc \in {"loop", "pop"} /\ write = None
      BY <2>1 DEF ClearTagGroups, MayChangeGroups, MapsFree, Polite, WorkerIdle
    <3>2. write_queue = << >>
      BY <3>1 DEF QueueInv, WakeFollows
    <3> QED
      BY <2>1, <3>1, <3>2 DEF ClearTagGroups, queues, main, worker, TargetsPresent
  <2>2. ASSUME NEW g \in Groups, ReleaseTags(g) PROVE TargetsPresent'
    <3>1. write_queue = << >> /\ write = None
      BY <2>2 DEF ReleaseTags, QueueInv, Drained, WriteAtFlush
    <3>2. mpc # "write_push"
      BY <2>2 DEF ReleaseTags, QueueInv, PushesInRun, RunIsClean, CleanupPending, CleanupUnderWay
    <3> QED
      BY <2>2, <3>1, <3>2 DEF ReleaseTags, queues, main, TargetsPresent
  <2> QED
    BY <1>2, <2>1, <2>2
<1>3. CASE ~ClearTagGroups /\ \A g \in Groups : ~ReleaseTags(g)
  <2>1. \A h \in Groups, u \in Tags : Present(h, u) => plc_tags'[h][u] # "absent"
    BY <1>1, <1>3, TagsStay DEF Present
  <2>2. \A i \in 1 .. Len(write_queue) : /\ write_queue[i] \in Writes
                                         /\ Present(write_queue[i].group, write_queue[i].tag)
    BY <1>1 DEF TargetsPresent
  <2>3. \A w \in Writes : w.group \in Groups /\ w.tag \in Tags
    BY DEF Writes
  <2>4. CASE UNCHANGED <<write_queue, request, write>> /\ (mpc' = "write_push" => mpc = "write_push")
    <3>1. ASSUME NEW i \in 1 .. Len(write_queue')
          PROVE  plc_tags'[write_queue'[i].group][write_queue'[i].tag] # "absent"
      BY <2>1, <2>2, <2>3, <2>4
    <3>2. mpc' = "write_push" => plc_tags'[request'.group][request'.tag] # "absent"
      BY <1>1, <2>1, <2>4 DEF TargetsPresent, Requests
    <3>3. write' # None => plc_tags'[write'.req.group][write'.req.tag] # "absent"
      BY <1>1, <2>1, <2>3, <2>4 DEF TargetsPresent, TakenWrites
    <3> QED
      BY <3>1, <3>2, <3>3 DEF TargetsPresent, Present
  <2>5. ASSUME NEW g \in Groups, NEW t \in Tags, WriteGate(g, t) PROVE TargetsPresent'
    <3>1. /\ plc_tags[g][t] # "absent" /\ request' = [group |-> g, tag |-> t]
          /\ UNCHANGED <<write_queue, write, plc_tags>>
      BY <2>5 DEF WriteGate, queues, worker, groups
    <3> QED
      BY <1>1, <3>1 DEF TargetsPresent, Present
  <2>6. CASE WritePush
    <3>1. /\ Present(request.group, request.tag)
          /\ request.group \in Groups /\ request.tag \in Tags
          /\ UNCHANGED <<plc_tags, write>> /\ mpc' = "write_wake"
      BY <1>1, <2>6 DEF WritePush, TargetsPresent, groups, worker, Requests
    <3> DEFINE w == [id |-> accepted + 1, group |-> request.group, tag |-> request.tag,
                     run |-> stops]
    <3>2. write_queue' = Append(write_queue, w) /\ w \in Writes
      BY <2>6, <3>1 DEF WritePush, Writes, HistoryOK
    <3>3. /\ Len(write_queue') = Len(write_queue) + 1
          /\ \A i \in 1 .. Len(write_queue) : write_queue'[i] = write_queue[i]
          /\ write_queue'[Len(write_queue) + 1] = w
      BY <3>2
    <3>4. w.group = request.group /\ w.tag = request.tag
      OBVIOUS
    <3> HIDE DEF w
    <3>5. ASSUME NEW i \in 1 .. Len(write_queue')
          PROVE  plc_tags[write_queue'[i].group][write_queue'[i].tag] # "absent"
      <4>1. CASE i \in 1 .. Len(write_queue)
        BY <2>2, <3>3, <4>1 DEF Present
      <4>2. CASE i = Len(write_queue) + 1
        BY <3>1, <3>3, <3>4, <4>2 DEF Present
      <4> QED
        BY <3>3, <4>1, <4>2
    <3> QED
      BY <1>1, <3>1, <3>5 DEF TargetsPresent, Present
  <2>7. CASE WriteBegin
    <3>1. /\ write_queue # << >> /\ write_queue' = Tail(write_queue)
          /\ write'.req = write_queue[1] /\ UNCHANGED <<mpc, request>>
      BY <2>7 DEF WriteBegin, main
    <3>2. /\ Len(write_queue') = Len(write_queue) - 1 /\ Len(write_queue) >= 1
          /\ \A i \in 1 .. Len(write_queue') : write_queue'[i] = write_queue[i + 1]
      BY <3>1
    <3>3. \A i \in 1 .. Len(write_queue') : i + 1 \in 1 .. Len(write_queue)
      BY <3>2
    <3>4. ASSUME NEW i \in 1 .. Len(write_queue')
          PROVE  plc_tags'[write_queue'[i].group][write_queue'[i].tag] # "absent"
      BY <2>1, <2>2, <2>3, <3>2, <3>3
    <3>5. plc_tags'[write'.req.group][write'.req.tag] # "absent"
      BY <2>1, <2>2, <2>3, <3>1, <3>2
    <3>6. mpc' = "write_push" => plc_tags'[request'.group][request'.tag] # "absent"
      BY <1>1, <2>1, <3>1 DEF TargetsPresent, Requests
    <3> QED
      BY <3>4, <3>5, <3>6 DEF TargetsPresent, Present
  <2>8. CASE WriteEnd
    <3>1. UNCHANGED <<write_queue, mpc, request>> /\ write' = None
      BY <2>8 DEF WriteEnd, queues, main
    <3>2. ASSUME NEW i \in 1 .. Len(write_queue')
          PROVE  plc_tags'[write_queue'[i].group][write_queue'[i].tag] # "absent"
      BY <2>1, <2>2, <2>3, <3>1
    <3>3. mpc' = "write_push" => plc_tags'[request'.group][request'.tag] # "absent"
      BY <1>1, <2>1, <3>1 DEF TargetsPresent, Requests
    <3> QED
      BY <3>1, <3>2, <3>3 DEF TargetsPresent, Present
  <2> QED
    BY <2>4, <2>5, <2>6, <2>7, <2>8, TargetSteps
<1> QED
  BY <1>2, <1>3

(* Only a write enters what is not there.                                  *)
LEMMA LookUpSteps ==
    ASSUME [Next]_vars
    PROVE  \/ WriteBegin \/ WriteEnd
           \/ \E g \in Groups : RegisterTagGroup(g) \/ ReleaseTags(g)
           \/ \E g \in Groups, t \in Tags : RegisterTag(g, t)
           \/ ClearTagGroups \/ QuitJoin
           \/ \E t \in Tags : TagCreate(t) \/ TagRead(t)
           \/ UNCHANGED plc_tags
<1>1. CASE Client \/ UNCHANGED vars
  BY <1>1 DEF Client, WriteGate, SetEnableComms, StartSim, StopSim, FrameStart, FrameStopped,
     QuitSignal, vars, groups
<1>2. CASE MainStep
  BY <1>2 DEF MainStep, StopPush, WritePush, WriteWake, FrameGroup, FrameEmit, FrameEnd,
     QuitShutdown, groups
<1>3. CASE WorkerStep
  BY <1>3 DEF WorkerStep, WorkerLoop, WorkerPop, WorkerDispatch, FlushDone, ResetGroup,
     ReleaseDone, Decide, TagsDone, ServerPolled, ServerTagInvalid, WorkerStopPush, groups
<1> QED
  BY <1>1, <1>2, <1>3 DEF Next

LEMMA NoGhostsKept ==
    ASSUME TypeInv, QueueInv, TargetsPresent, NoGhosts, [Next]_vars
    PROVE  NoGhosts'
<1> SUFFICES ASSUME NEW h \in Groups, NEW u \in Tags PROVE plc_tags'[h][u] # "ghost"
  BY DEF NoGhosts
<1> USE DEF TypeInv, TypeOK, GroupsOK, WorkerOK, QueuesOK
<1>0. plc_tags[h][u] # "ghost"
  BY DEF NoGhosts
<1>1. Flushing => mpc # "gone"
  BY DEF QueueInv, GoneIsDone, Flushing
<1>2. \A w \in Writes : w.group \in Groups /\ w.tag \in Tags
  BY DEF Writes
<1>3. ASSUME NEW g \in Groups, NEW t \in Tags, Present(g, t), LookUp(g, t)
      PROVE  plc_tags'[h][u] # "ghost"
  BY <1>0, <1>3 DEF LookUp, Present
<1>4. CASE WriteBegin
  <2>1. write_queue # << >> /\ mpc # "gone"
        /\ LookUp(write_queue[1].group, write_queue[1].tag)
    BY <1>1, <1>4 DEF WriteBegin
  <2>2. 1 \in 1 .. Len(write_queue)
    BY <2>1
  <2>3. write_queue[1] \in Writes /\ Present(write_queue[1].group, write_queue[1].tag)
    BY <2>1, <2>2 DEF TargetsPresent
  <2> QED
    BY <1>2, <1>3, <2>1, <2>3
<1>5. CASE WriteEnd
  <2>1. CASE LookUp(write.req.group, write.req.tag)
    <3>1. write.req \in Writes /\ Present(write.req.group, write.req.tag)
      BY <1>1, <1>5 DEF WriteEnd, TargetsPresent, TakenWrites
    <3> QED
      BY <1>2, <1>3, <2>1, <3>1
  <2>2. CASE UNCHANGED plc_tags
    BY <1>0, <2>2
  <2> QED
    BY <1>5, <2>1, <2>2 DEF WriteEnd
<1>6. ASSUME NEW g \in Groups, RegisterTagGroup(g) \/ ReleaseTags(g) PROVE plc_tags'[h][u] # "ghost"
  BY <1>0, <1>6 DEF RegisterTagGroup, ReleaseTags, NoTags
<1>7. ASSUME NEW g \in Groups, NEW t \in Tags, RegisterTag(g, t) PROVE plc_tags'[h][u] # "ghost"
  BY <1>0, <1>7 DEF RegisterTag
<1>8. CASE ClearTagGroups \/ QuitJoin
  BY <1>8 DEF ClearTagGroups, QuitJoin, CleanAllGroups, NoTags
<1>9. ASSUME NEW t \in Tags, TagCreate(t) \/ TagRead(t) PROVE plc_tags'[h][u] # "ghost"
  <2>1. CASE UNCHANGED plc_tags
    BY <1>0, <2>1
  <2>2. CASE plc_tags' = [plc_tags EXCEPT ![wgroup][t] = "open"]
    BY <1>0, <2>2
  <2>3. CASE plc_tags' = [plc_tags EXCEPT ![wgroup][t] = "ready"]
    BY <1>0, <2>3
  <2> QED
    BY <1>9, <2>1, <2>2, <2>3 DEF TagCreate, TagRead
<1>10. CASE UNCHANGED plc_tags
  BY <1>0, <1>10
<1> QED
  BY <1>4, <1>5, <1>6, <1>7, <1>8, <1>9, <1>10, LookUpSteps

PoliteInv == /\ OutsideMapEmpty /\ NoServer /\ FramesInRun /\ RunIsClean
             /\ QueueInv /\ TargetsPresent /\ NoGhosts

LEMMA InitPoliteInv == ASSUME Init PROVE PoliteInv
<1>1. OutsideMapEmpty
  BY InitReleaseInv DEF ReleaseInv
<1>2. NoServer /\ FramesInRun /\ RunIsClean
  BY DEF Init, NoServer, Wake, FramesInRun, RunIsClean
<1>3. QueueInv
  BY DEF Init, QueueInv, PushesInRun, WriteAtFlush, Drained, WakeFollows, GoneIsDone
<1>4. TargetsPresent /\ NoGhosts
  BY DEF Init, TargetsPresent, NoGhosts, NoTags
<1> QED
  BY <1>1, <1>2, <1>3, <1>4 DEF PoliteInv

LEMMA PoliteInvKept ==
    ASSUME TypeInv, PoliteInv, [Next]_vars, Polite, ~Overwrites
    PROVE  PoliteInv'
  BY OutsideMapEmptyKept, NoServerKept, RunKept, QueueInvKept, TargetsPresentKept, NoGhostsKept
  DEF PoliteInv, Polite

(* A patient client's writes never bring a tag or a group back, unless the *)
(* worker stops a run or the client overwrites a group.                    *)
THEOREM CoreNoGhosts == ASSUME Polite, ~Overwrites PROVE Spec => []NoGhosts
<1>1. Init => PoliteInv
  BY InitPoliteInv
<1>2. TypeInv /\ PoliteInv /\ [Next]_vars => PoliteInv'
  BY PoliteInvKept
<1>3. PoliteInv => NoGhosts
  BY DEF PoliteInv
<1> QED
  BY <1>1, <1>2, <1>3, CoreTypeInv, PTL DEF Spec
---------------------------------------------------------------------------
(* A group that is announced is open: its handles are as many as its tags, *)
(* and a tag with a handle is one of its tags.                             *)
AllOpen(g) == \A t \in Tags : plc_tags[g][t] \notin {"new", "ghost"}

LEMMA FullCountIsOpen ==
    ASSUME TypeInv, NEW g \in Groups, CountOf(g), AllInitialized(g)
    PROVE  AllOpen(g)
<1> DEFINE All == {t \in Tags : plc_tags[g][t] # "absent"}
<1>1. IsFiniteSet(All) /\ Cardinality(All) \in Nat
  <2>1. All \in SUBSET Tags /\ IsFiniteSet(Tags)
    BY CoreAssumption DEF CoreAssumption
  <2>2. IsFiniteSet(All)
    BY <2>1, FS_Subset
  <2> QED
    BY <2>2, FS_CardinalityType
<1>2. Opened(g) \in SUBSET All
  BY DEF Opened, HasHandle
<1>3. Cardinality(Opened(g)) >= Cardinality(All)
  BY DEF CountOf, AllInitialized, Total
<1>4. Opened(g) = All
  <2>1. Cardinality(Opened(g)) <= Cardinality(All)
        /\ (Cardinality(All) = Cardinality(Opened(g)) => All = Opened(g))
    BY <1>1, <1>2, FS_Subset
  <2> QED
    BY <1>1, <1>3, <2>1, OpenedFinite
<1>5. ASSUME NEW t \in Tags, plc_tags[g][t] # "absent" PROVE HasHandle(g, t)
  BY <1>4, <1>5 DEF Opened
<1> QED
  BY <1>5 DEF AllOpen, HasHandle

LEMMA AnnouncedKept ==
    ASSUME TypeInv, PoliteInv, CountsExact, AnnouncedWhenOpen, [Next]_vars
    PROVE  AnnouncedWhenOpen'
<1> SUFFICES ASSUME mpc' = "emit"
             PROVE  \A t \in Tags : plc_tags'[current'][t] \notin {"new", "ghost"}
  BY DEF AnnouncedWhenOpen
<1> USE DEF TypeInv, TypeOK, GroupsOK, WorkerOK, MainOK
<1>1. ASSUME NEW g \in Groups, FrameGroup(g)
      PROVE  \A t \in Tags : plc_tags'[current'][t] \notin {"new", "ghost"}
  <2>1. current' = g /\ AllInitialized(g) /\ UNCHANGED plc_tags /\ mpc = "frame"
    BY <1>1 DEF FrameGroup, groups
  <2>2. wpc # "reset"
    BY <2>1 DEF PoliteInv, FramesInRun, RunIsClean, CleanupPending, CleanupUnderWay
  <2>3. AllOpen(g)
    BY <2>2, <2>1, FullCountIsOpen DEF CountsExact
  <2> QED
    BY <2>1, <2>3 DEF AllOpen
<1>2. ASSUME \A g \in Groups : ~FrameGroup(g) PROVE mpc = "emit" /\ UNCHANGED current
  <2>1. CASE Client \/ UNCHANGED vars
    BY <2>1 DEF Client, RegisterTagGroup, RegisterTag, WriteGate, SetEnableComms, StartSim, StopSim,
       ClearTagGroups, FrameStart, FrameStopped, QuitSignal, MayChangeGroups, vars, main
  <2>2. CASE MainStep
    BY <1>2, <2>2 DEF MainStep, StopPush, WritePush, WriteWake, FrameEmit, FrameEnd, QuitShutdown,
       QuitJoin
  <2>3. CASE WorkerStep
    BY <2>3 DEF WorkerStep, WorkerLoop, WorkerPop, WorkerDispatch, WriteBegin, WriteEnd, FlushDone,
       ReleaseTags, ResetGroup, ReleaseDone, Decide, TagCreate, TagRead, TagsDone, ServerPolled,
       ServerTagInvalid, WorkerStopPush, main
  <2> QED
    BY <2>1, <2>2, <2>3 DEF Next
<1>3. ASSUME mpc = "emit", UNCHANGED current, NEW u \in Tags
      PROVE  plc_tags'[current][u] \notin {"new", "ghost"}
  <2>1. current \in Groups /\ plc_tags[current][u] \notin {"new", "ghost"}
    BY <1>3 DEF AnnouncedWhenOpen
  <2>2. ~ClearTagGroups /\ ~QuitJoin /\ \A g \in Groups :
            ~RegisterTagGroup(g) /\ \A t \in Tags : ~RegisterTag(g, t)
    BY <1>3 DEF ClearTagGroups, QuitJoin, RegisterTagGroup, RegisterTag, MayChangeGroups
  <2>3. \A g \in Groups : ~ReleaseTags(g)
    BY <1>3 DEF ReleaseTags, PoliteInv, FramesInRun, RunIsClean, CleanupPending, CleanupUnderWay
  <2>4. \A w \in Writes : w.group \in Groups /\ w.tag \in Tags
    BY DEF Writes
  <2>5. ASSUME NEW g \in Groups, NEW t \in Tags, Present(g, t), LookUp(g, t)
        PROVE  plc_tags'[current][u] \notin {"new", "ghost"}
    BY <2>1, <2>5 DEF LookUp, Present
  <2>6. CASE WriteBegin
    <3>1. write_queue # << >> /\ LookUp(write_queue[1].group, write_queue[1].tag)
      BY <2>6 DEF WriteBegin
    <3>2. 1 \in 1 .. Len(write_queue) /\ write_queue[1] \in Writes
      BY <3>1 DEF QueuesOK
    <3>3. Present(write_queue[1].group, write_queue[1].tag)
      BY <1>3, <3>2 DEF PoliteInv, TargetsPresent
    <3> QED
      BY <2>4, <2>5, <3>1, <3>2, <3>3
  <2>7. CASE WriteEnd
    <3>1. CASE LookUp(write.req.group, write.req.tag)
      <4>1. write.req \in Writes /\ Present(write.req.group, write.req.tag)
        BY <1>3, <2>7 DEF WriteEnd, PoliteInv, TargetsPresent, TakenWrites
      <4> QED
        BY <2>4, <2>5, <3>1, <4>1
    <3>2. CASE UNCHANGED plc_tags
      BY <2>1, <3>2
    <3> QED
      BY <2>7, <3>1, <3>2 DEF WriteEnd
  <2>8. ASSUME NEW t \in Tags, TagCreate(t) \/ TagRead(t)
        PROVE  plc_tags'[current][u] \notin {"new", "ghost"}
    <3>1. CASE UNCHANGED plc_tags
      BY <2>1, <3>1
    <3>2. CASE plc_tags' = [plc_tags EXCEPT ![wgroup][t] = "open"]
      BY <2>1, <3>2
    <3>3. CASE plc_tags' = [plc_tags EXCEPT ![wgroup][t] = "ready"]
      BY <2>1, <3>3
    <3> QED
      BY <2>8, <3>1, <3>2, <3>3 DEF TagCreate, TagRead
  <2>9. CASE UNCHANGED plc_tags
    BY <2>1, <2>9
  <2> QED
    BY <2>2, <2>3, <2>6, <2>7, <2>8, <2>9, LookUpSteps
<1> QED
  BY <1>1, <1>2, <1>3

(* tag_group_initialized is sent only for groups whose tags all have their *)
(* handle, for the clients of CoreNoGhosts.                                *)
THEOREM CoreAnnouncedWhenOpen ==
    ASSUME Polite, ~Overwrites PROVE Spec => []AnnouncedWhenOpen
<1> DEFINE Inv == PoliteInv /\ CleanedAreEmpty /\ CountsExact /\ AnnouncedWhenOpen
<1>1. ASSUME Init PROVE Inv
  <2>1. PoliteInv /\ CleanedAreEmpty
    BY <1>1, InitPoliteInv, InitReleaseInv DEF ReleaseInv
  <2>2. CountsExact
    BY <1>1, InitCountsExact
  <2>3. AnnouncedWhenOpen
    BY <1>1 DEF Init, AnnouncedWhenOpen
  <2> QED
    BY <2>1, <2>2, <2>3
<1>2. ASSUME TypeInv, Inv, [Next]_vars PROVE Inv'
  <2>1. OutsideMapEmpty
    BY <1>2 DEF PoliteInv
  <2>2. PoliteInv' /\ AnnouncedWhenOpen'
    BY <1>2, PoliteInvKept, AnnouncedKept
  <2>3. CleanedAreEmpty' /\ CountsExact'
    BY <1>2, <2>1, CleanedAreEmptyKept, CountsExactKept
  <2> QED
    BY <2>2, <2>3
<1>3. Inv => AnnouncedWhenOpen
  OBVIOUS
<1> QED
  BY <1>1, <1>2, <1>3, CoreTypeInv, PTL DEF Spec
---------------------------------------------------------------------------
(***************************************************************************)
(* The gate of write_* and its push are two steps of one call, and only    *)
(* the main thread calls set_sim_running: the simulation still runs at the *)
(* push, unless the worker stops it in between.                            *)
(***************************************************************************)
PushInRun == mpc = "write_push" => sim_running

LEMMA PushInRunKept ==
    ASSUME NoServer, PushInRun, [Next]_vars
    PROVE  PushInRun'
<1>1. CASE Client \/ UNCHANGED vars
  BY <1>1 DEF PushInRun, Client, RegisterTagGroup, RegisterTag, WriteGate, SetEnableComms, StartSim,
     StopSim, ClearTagGroups, FrameStart, FrameStopped, QuitSignal, vars, flags, main
<1>2. CASE MainStep
  BY <1>2 DEF PushInRun, MainStep, StopPush, WritePush, WriteWake, FrameGroup, FrameEmit, FrameEnd,
     QuitShutdown, QuitJoin, flags
<1>3. CASE WorkerStep
  <2>1. ~ServerTagInvalid
    BY DEF NoServer, ServerTagInvalid
  <2> QED
    BY <1>3, <2>1 DEF PushInRun, WorkerStep, WorkerLoop, WorkerPop, WorkerDispatch, WriteBegin,
       WriteEnd, FlushDone, ReleaseTags, ResetGroup, ReleaseDone, Decide, TagCreate, TagRead,
       TagsDone, ServerPolled, WorkerStopPush, flags, main
<1> QED
  BY <1>1, <1>2, <1>3 DEF Next

(* "New writes can't be enqueued once sim_running flips false" (407) holds *)
(* of any client, patient or not, whose worker stops nothing: stops by the *)
(* worker are the whole reason why it fails.                               *)
THEOREM CoreEnqueuedWhileRunning ==
    ASSUME ~WorkerStops PROVE Spec => EnqueuedWhileRunning
<1>1. Init => NoServer /\ PushInRun
  BY DEF Init, NoServer, Wake, PushInRun
<1>2. TypeInv /\ NoServer /\ PushInRun /\ [Next]_vars => (NoServer /\ PushInRun)'
  BY NoServerKept, PushInRunKept
<1>3. ASSUME TypeInv, PushInRun, [Next]_vars, Len(write_queue') > Len(write_queue)
      PROVE  sim_running
  <2>1. CASE WritePush
    BY <1>3, <2>1 DEF WritePush, PushInRun
  <2>2. CASE WriteBegin
    BY <1>3, <2>2 DEF WriteBegin, TypeInv, TypeOK, QueuesOK
  <2>3. CASE WriteEnd \/ UNCHANGED write_queue
    BY <1>3, <2>3 DEF WriteEnd, queues, TypeInv, TypeOK, QueuesOK
  <2> QED
    BY <1>3, <2>1, <2>2, <2>3, WriteSteps
<1>4. TypeInv /\ PushInRun /\ [Next]_vars
      => [Len(write_queue') > Len(write_queue) => sim_running]_vars
  BY <1>3
<1> QED
  BY <1>1, <1>2, <1>4, CoreTypeInv, PTL DEF Spec, EnqueuedWhileRunning
---------------------------------------------------------------------------
(***************************************************************************)
(* The core keeps to what MessageFifo allows of tag_group_queue: every     *)
(* step pushes one message, shuts the queue down, hands the worker the     *)
(* oldest message (or "" once it is shut down and empty), or leaves the    *)
(* queue and the worker's message alone.                                   *)
(***************************************************************************)
fifoState == <<tag_group_queue, queue_stop, item>>

LEMMA FifoStutter ==
    ASSUME UNCHANGED fifoState
    PROVE  [Fifo!Next]_(Fifo!vars)
<1>1. UNCHANGED Fifo!vars
  BY DEF fifoState, Fifo!vars
<1> QED
  BY <1>1

LEMMA FifoPush ==
    ASSUME NEW m \in Messages, tag_group_queue' = Append(tag_group_queue, m),
           UNCHANGED <<queue_stop, item>>
    PROVE  [Fifo!Next]_(Fifo!vars)
<1>1. Fifo!Enqueue
  BY DEF Fifo!Enqueue
<1> QED
  BY <1>1 DEF Fifo!Next

LEMMA FifoClient == ASSUME Client PROVE UNCHANGED fifoState
  BY DEF fifoState, Client, RegisterTagGroup, RegisterTag, WriteGate, SetEnableComms, StartSim,
     StopSim, ClearTagGroups, FrameStart, FrameStopped, QuitSignal, queues, worker

LEMMA FifoMainStep ==
    ASSUME TypeInv, MainStep
    PROVE  [Fifo!Next]_(Fifo!vars)
<1> USE FifoPush, FifoStutter, MessageTypes
<1>1. CASE StopPush
  <2>1. Cleanup(stops) \in Messages
    BY DEF TypeInv, TypeOK, HistoryOK
  <2> QED
    BY <1>1, <2>1 DEF StopPush, worker
<1>2. CASE WriteWake
  BY <1>2 DEF WriteWake, worker
<1>3. ASSUME NEW g \in Groups, FrameGroup(g) PROVE [Fifo!Next]_(Fifo!vars)
  <2>1. CASE tag_group_queue' = Append(tag_group_queue, Poll(g))
    BY <1>3, <2>1 DEF FrameGroup, worker
  <2>2. CASE UNCHANGED tag_group_queue
    BY <1>3, <2>2 DEF FrameGroup, worker, fifoState
  <2> QED
    BY <1>3, <2>1, <2>2 DEF FrameGroup
<1>4. CASE FrameEnd
  <2>1. CASE tag_group_queue' = Append(tag_group_queue, PollServer)
    BY <1>4, <2>1 DEF FrameEnd, worker
  <2>2. CASE UNCHANGED tag_group_queue
    BY <1>4, <2>2 DEF FrameEnd, worker, fifoState
  <2> QED
    BY <1>4, <2>1, <2>2 DEF FrameEnd
<1>5. CASE QuitShutdown
  <2>1. Fifo!Close
    BY <1>5 DEF QuitShutdown, worker, Fifo!Close
  <2> QED
    BY <2>1 DEF Fifo!Next
<1>6. CASE WritePush \/ FrameEmit \/ QuitJoin
  BY <1>6 DEF WritePush, FrameEmit, QuitJoin, queues, worker, fifoState
<1> QED
  BY <1>1, <1>2, <1>3, <1>4, <1>5, <1>6 DEF MainStep

LEMMA FifoWorkerStep ==
    ASSUME TypeInv, WorkerStep
    PROVE  [Fifo!Next]_(Fifo!vars)
<1>1. CASE WorkerPop
  <2> DEFINE Handed == [c \in {"worker"} |-> item]
  <2>1. Handed' = [Handed EXCEPT !["worker"] = item']
    OBVIOUS
  <2>2. CASE tag_group_queue # << >> /\ item' = Head(tag_group_queue)
             /\ tag_group_queue' = Tail(tag_group_queue)
    <3>1. Fifo!Dequeue("worker")
      BY <1>1, <2>1, <2>2 DEF WorkerPop, Fifo!Dequeue
    <3> QED
      BY <3>1 DEF Fifo!Next
  <2>3. CASE tag_group_queue = << >> /\ queue_stop /\ item' = Wake /\ UNCHANGED tag_group_queue
    <3>1. Fifo!DequeueClosed("worker")
      BY <1>1, <2>1, <2>3 DEF WorkerPop, Fifo!DequeueClosed
    <3> QED
      BY <3>1 DEF Fifo!Next
  <2> QED
    BY <1>1, <2>2, <2>3 DEF WorkerPop
<1>2. CASE WorkerStopPush
  <2>1. Cleanup(stops) \in Messages
    BY MessageTypes DEF TypeInv, TypeOK, HistoryOK
  <2> QED
    BY <1>2, <2>1, FifoPush DEF WorkerStopPush
<1>3. CASE ~WorkerPop /\ ~WorkerStopPush
  <2>1. UNCHANGED fifoState
    BY <1>3 DEF fifoState, WorkerStep, WorkerLoop, WorkerDispatch, WriteBegin, WriteEnd, FlushDone,
       ReleaseTags, ResetGroup, ReleaseDone, Decide, TagCreate, TagRead, TagsDone, ServerPolled,
       ServerTagInvalid, queues
  <2> QED
    BY <2>1, FifoStutter
<1> QED
  BY <1>1, <1>2, <1>3

(* Whatever the client does, the two threads use tag_group_queue as the    *)
(* first-in first-out queue that OIPBlockingQueue is proved to be.         *)
THEOREM CoreUsesFifo == Spec => Fifo!SafeSpec
<1>1. Init => Fifo!Init
  BY DEF Init, Fifo!Init
<1>2. TypeInv /\ [Next]_vars => [Fifo!Next]_(Fifo!vars)
  <2> SUFFICES ASSUME TypeInv, [Next]_vars PROVE [Fifo!Next]_(Fifo!vars)
    OBVIOUS
  <2>1. CASE UNCHANGED vars
    BY <2>1, FifoStutter DEF vars, queues, worker, fifoState
  <2>2. CASE Client
    BY <2>2, FifoClient, FifoStutter
  <2> QED
    BY <2>1, <2>2, FifoMainStep, FifoWorkerStep DEF Next
<1> QED
  BY <1>1, <1>2, CoreTypeInv, PTL DEF Spec, Fifo!SafeSpec
=============================================================================
