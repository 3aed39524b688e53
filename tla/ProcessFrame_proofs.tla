------------------------ MODULE ProcessFrame_proofs ------------------------
(***************************************************************************)
(* Proofs about ProcessFrame for any groups, intervals and waits.  The     *)
(* invariant behind them: the time a group has counted is exactly what has *)
(* passed between its last poll and the last frame, however long the       *)
(* simulation was stopped in between, because process() adds the whole gap *)
(* at its next frame.                                                      *)
(***************************************************************************)
EXTENDS ProcessFrame, TLAPS

TimeCounted ==
    \A g \in registered :
        IF g \in polled THEN last_poll[g] <= last_ticks /\ time[g] = last_ticks - last_poll[g]
                        ELSE time[g] >= Interval[g]

(* The timer has passed its mark, or has counted everything since the run  *)
(* began or since the last frame with nothing to do.                       *)
TimerCounted == \/ startup_timer >= RegisterWait
                \/ startup_timer >= last_ticks - since
                \/ startup_timer >= last_ticks - idle_at

FrameInv == /\ TypeOK
            /\ last_ticks <= now
            /\ TimeCounted
            /\ TimerCounted
            /\ framed => last_ticks = now
            /\ NoPollMissed

LEMMA InitFrameInv == ASSUME Init PROVE FrameInv
<1>1. now \in Nat
  BY FrameAssumption DEF Init, FrameAssumption
<1>2. FlagsOK
  BY DEF Init, FlagsOK
<1>3. GroupsOK
  BY DEF Init, GroupsOK
<1>4. ClocksOK /\ TimerCounted /\ TimeCounted /\ NoPollMissed /\ last_ticks <= now
  BY <1>1 DEF Init, ClocksOK, TimerCounted, TimeCounted, NoPollMissed
<1> QED
  BY <1>2, <1>3, <1>4 DEF Init, FrameInv, TypeOK

(* A frame sets the count of each polled group to zero and adds the whole  *)
(* gap since the last frame to that of every other one.                    *)
LEMMA FrameStep == ASSUME FrameInv, Frame PROVE FrameInv'
<1> USE FrameAssumption DEF FrameAssumption, FrameInv, TypeOK
<1>1. FlagsOK' /\ last_ticks' = now'
  BY DEF Frame, FlagsOK, Started, settings
<1>2. GroupsOK' /\ ClocksOK'
  <2>1. Delta \in Nat
    BY DEF Delta, ClocksOK
  <2>2. DueGroups \subseteq registered
    BY DEF DueGroups
  <2>3. time' \in [Groups -> Int] /\ last_poll' \in [Groups -> Nat]
    BY <2>1, <2>2 DEF Frame, GroupsOK, ClocksOK
  <2>4. startup_timer' \in Nat
    BY <2>1 DEF Frame, ClocksOK
  <2> QED
    BY <2>2, <2>3, <2>4 DEF Frame, GroupsOK, ClocksOK, settings
<1>3. ASSUME NEW g \in registered, g \in DueGroups
      PROVE  g \in polled' /\ last_poll'[g] = now /\ time'[g] = 0
  BY <1>3 DEF Frame, GroupsOK
<1>4. ASSUME NEW g \in registered, g \notin DueGroups
      PROVE  /\ g \in polled /\ g \in polled'
             /\ last_poll'[g] = last_poll[g] /\ time'[g] = now - last_poll[g]
             /\ time'[g] < Interval[g]
  <2>1. time'[g] = time[g] + Delta /\ last_poll'[g] = last_poll[g]
    BY <1>4 DEF Frame, GroupsOK
  <2>2. time[g] + Delta < Interval[g]
    BY <1>4 DEF DueGroups, Due, GroupsOK, ClocksOK, Delta
  <2>3. g \in polled
    BY <2>2 DEF TimeCounted, GroupsOK, ClocksOK, Delta
  <2> QED
    BY <1>4, <2>1, <2>2, <2>3 DEF Frame, TimeCounted, GroupsOK, ClocksOK, Delta
<1>5. registered' = registered /\ now' = now
  BY DEF Frame, settings
<1>6. TimeCounted'
  BY <1>1, <1>3, <1>4, <1>5 DEF TimeCounted, GroupsOK, ClocksOK
<1>7. NoPollMissed'
  BY <1>1, <1>3, <1>4, <1>5 DEF NoPollMissed, GroupsOK, ClocksOK
<1>8. TimerCounted'
  BY DEF Frame, ClocksOK, TimerCounted, Counting, Delta
<1> QED
  BY <1>1, <1>2, <1>6, <1>7, <1>8 DEF ClocksOK

(* Anything else leaves the counts alone, or starts that of a new group    *)
(* with its interval already over.                                         *)
LEMMA FrameInvKept == ASSUME FrameInv, [Next]_vars PROVE FrameInv'
<1>1. CASE Frame
  BY <1>1, FrameStep
<1> USE FrameAssumption DEF FrameAssumption, FrameInv, TypeOK, settings, timers
<1>2. ASSUME NEW g \in Groups, RegisterTagGroup(g) PROVE FrameInv'
  <2>1. FlagsOK' /\ (framed' = FALSE)
    BY <1>2 DEF RegisterTagGroup, FlagsOK
  <2>2. GroupsOK' /\ ClocksOK' /\ last_ticks' <= now'
    BY <1>2 DEF RegisterTagGroup, GroupsOK, ClocksOK
  <2>3. TimeCounted' /\ TimerCounted' /\ NoPollMissed'
    BY <1>2, <2>1 DEF RegisterTagGroup, GroupsOK, TimeCounted, TimerCounted, NoPollMissed
  <2> QED
    BY <2>1, <2>2, <2>3
<1>3. ASSUME Tick \/ ClearTagGroups \/ FrameIdle
             \/ \E b \in BOOLEAN : SetSimRunning(b) \/ SetEnableComms(b)
      PROVE  FrameInv'
  <2>1. FlagsOK' /\ (framed' = FALSE)
    BY <1>3 DEF Tick, ClearTagGroups, FrameIdle, SetSimRunning, SetEnableComms, FlagsOK
  <2>2. GroupsOK' /\ ClocksOK' /\ last_ticks' <= now'
    BY <1>3 DEF Tick, ClearTagGroups, FrameIdle, SetSimRunning, SetEnableComms, GroupsOK, ClocksOK
  <2>3. TimeCounted' /\ NoPollMissed'
    BY <1>3, <2>1 DEF Tick, ClearTagGroups, FrameIdle, SetSimRunning, SetEnableComms, TimeCounted,
       NoPollMissed
  <2>4. TimerCounted'
    BY <1>3 DEF Tick, ClearTagGroups, FrameIdle, SetSimRunning, SetEnableComms, TimerCounted,
       ClocksOK
  <2> QED
    BY <2>1, <2>2, <2>3, <2>4
<1>4. CASE UNCHANGED vars
  <2>1. FlagsOK' /\ (framed' => last_ticks' = now')
    BY <1>4 DEF vars, history, FlagsOK
  <2>2. GroupsOK' /\ ClocksOK' /\ last_ticks' <= now'
    BY <1>4 DEF vars, history, GroupsOK, ClocksOK
  <2>3. TimeCounted' /\ TimerCounted' /\ NoPollMissed'
    BY <1>4 DEF vars, history, TimeCounted, TimerCounted, NoPollMissed
  <2> QED
    BY <2>1, <2>2, <2>3
<1> QED
  BY <1>1, <1>2, <1>3, <1>4 DEF Next

THEOREM FrameInvariant == Spec => []FrameInv
  BY InitFrameInv, FrameInvKept, PTL DEF Spec

(* The state stays within its types.                                       *)
THEOREM FrameTypeOK == Spec => []TypeOK
<1>1. FrameInv => TypeOK
  BY DEF FrameInv
<1> QED
  BY <1>1, FrameInvariant, PTL

(* No frame leaves a group behind whose polling interval has passed.       *)
THEOREM FrameNoPollMissed == Spec => []NoPollMissed
<1>1. FrameInv => NoPollMissed
  BY DEF FrameInv
<1> QED
  BY <1>1, FrameInvariant, PTL

(* The check for initialized groups begins once frames have covered the    *)
(* wait.                                                                   *)
THEOREM FrameStartedInTime == Spec => []StartedInTime
<1>1. FrameInv => StartedInTime
  BY FrameAssumption DEF FrameInv, TypeOK, ClocksOK, TimerCounted, StartedInTime, Started, FrameAssumption
<1> QED
  BY <1>1, FrameInvariant, PTL

(* Two polls of a group are at least its polling interval apart.           *)
THEOREM FramePollSpacing == Spec => PollSpacing
<1>1. ASSUME FrameInv, [Next]_vars, NEW g \in polled, last_poll'[g] # last_poll[g]
      PROVE  now - last_poll[g] >= Interval[g]
  <2>1. g \in registered /\ g \in Groups
    BY <1>1 DEF FrameInv, TypeOK, GroupsOK
  <2>2. Frame
    BY <1>1 DEF Next, Tick, RegisterTagGroup, ClearTagGroups, SetSimRunning, SetEnableComms,
       FrameIdle, vars, history
  <2>3. g \in DueGroups
    BY <1>1, <2>1, <2>2 DEF Frame
  <2> QED
    BY <1>1, <2>1, <2>3 DEF DueGroups, Due, Delta, FrameInv, TimeCounted, TypeOK,
       GroupsOK, ClocksOK
<1>2. FrameInv /\ [Next]_vars =>
        [\A g \in polled : last_poll'[g] # last_poll[g] => now - last_poll[g] >= Interval[g]]_vars
  BY <1>1
<1> QED
  BY <1>2, FrameInvariant, PTL DEF Spec, PollSpacing
=============================================================================
