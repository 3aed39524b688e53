---------------------------- MODULE ProcessFrame ----------------------------
(***************************************************************************)
(* The clockwork of OIPComms::process(), which Godot calls once a frame:   *)
(* when a tag group is polled, and when the check for initialized groups   *)
(* begins.  Time is counted in whole units; the engine's clock, the frames *)
(* and the client's calls come at any moment.  Everything here is touched  *)
(* by the main thread alone, so a frame is one step; what a poll and an    *)
(* announcement do to the other thread is in CommsCore, whose started      *)
(* stands for Started here.                                                *)
(***************************************************************************)
EXTENDS FrameSettings

VARIABLES
    now,                       \* get_ticks_usec()
    sim_running, enable_comms,
    registered,                \* keys of tag_groups
    time,                      \* TagGroup::time of each group
    startup_timer, last_ticks,
    (* history: the groups polled since they were registered, and when they *)
    (* were last; when the simulation was started; when a frame last found  *)
    (* nothing to do; whether a frame of this run has checked its groups;   *)
    (* whether a frame is all that has happened since the clock moved       *)
    polled, last_poll, since, idle_at, checked, framed

settings == <<sim_running, enable_comms, registered>>
timers == <<time, startup_timer, last_ticks>>
history == <<polled, last_poll, since, idle_at, checked, framed>>
vars == <<now, settings, timers, history>>

FlagsOK == /\ sim_running \in BOOLEAN
           /\ enable_comms \in BOOLEAN
           /\ checked \in BOOLEAN
           /\ framed \in BOOLEAN
GroupsOK == /\ registered \subseteq Groups
            /\ polled \subseteq registered
            /\ time \in [Groups -> Int]
            /\ last_poll \in [Groups -> Nat]
ClocksOK == {now, startup_timer, last_ticks, since, idle_at} \subseteq Nat
TypeOK == FlagsOK /\ GroupsOK /\ ClocksOK

Init == /\ now \in 0 .. MaxTime
        /\ sim_running = FALSE /\ enable_comms = TRUE
        /\ registered = {}
        /\ time = [g \in Groups |-> 0]
        /\ startup_timer = 0 /\ last_ticks = 0
        /\ polled = {} /\ last_poll = [g \in Groups |-> 0]
        /\ since = 0 /\ idle_at = 0 /\ checked = FALSE /\ framed = FALSE

Tick == /\ now < MaxTime
        /\ now' = now + 1
        /\ framed' = FALSE
        /\ UNCHANGED <<settings, timers, polled, last_poll, since, idle_at, checked>>

(* A new group, or one that is overwritten: due at the next frame.         *)
RegisterTagGroup(g) ==
    /\ registered' = registered \cup {g}
    /\ time' = [time EXCEPT ![g] = Interval[g]]
    /\ polled' = polled \ {g}
    /\ framed' = FALSE
    /\ UNCHANGED <<now, sim_running, enable_comms, startup_timer, last_ticks,
                   last_poll, since, idle_at, checked>>

ClearTagGroups ==
    /\ ~sim_running
    /\ registered' = {} /\ polled' = {}
    /\ framed' = FALSE
    /\ UNCHANGED <<now, sim_running, enable_comms, timers, last_poll, since, idle_at, checked>>

SetSimRunning(b) ==
    /\ sim_running # b
    /\ sim_running' = b
    /\ since' = IF b THEN now ELSE since
    /\ checked' = FALSE /\ framed' = FALSE
    /\ UNCHANGED <<now, enable_comms, registered, timers, polled, last_poll, idle_at>>

SetEnableComms(b) ==
    /\ enable_comms # b
    /\ enable_comms' = b
    /\ framed' = FALSE
    /\ UNCHANGED <<now, sim_running, registered, timers, polled, last_poll, since, idle_at,
                   checked>>

Delta == now - last_ticks

(* Mutants: a group is due one unit early, or only when it is overdue.     *)
DueEarly(g) == time[g] + Delta >= Interval[g] - 1
DueLate(g) == time[g] + Delta > Interval[g]
Due(g) == time[g] + Delta >= Interval[g]

DueGroups == {g \in registered : Due(g)}

(* The timer, as the earlier frames left it, has reached its mark: this    *)
(* frame checks its groups for being initialized.                          *)
Started == startup_timer >= RegisterWait

(* Mutant: the timer is stopped before its mark instead of after it.       *)
CountingShort == startup_timer <= RegisterWait - SpareWait
Counting == startup_timer <= RegisterWait + SpareWait

Frame ==
    /\ enable_comms /\ sim_running
    /\ time' = [g \in Groups |-> IF g \in DueGroups THEN 0
                                 ELSE IF g \in registered THEN time[g] + Delta ELSE time[g]]
    /\ startup_timer' = IF Counting THEN startup_timer + Delta ELSE startup_timer
    /\ last_ticks' = now
    /\ polled' = polled \cup DueGroups
    /\ last_poll' = [g \in Groups |-> IF g \in DueGroups THEN now ELSE last_poll[g]]
    /\ checked' = (checked \/ (Started /\ registered # {}))
    /\ framed' = TRUE
    /\ UNCHANGED <<now, settings, since, idle_at>>

FrameIdle ==
    /\ ~(enable_comms /\ sim_running)
    /\ startup_timer' = 0
    /\ idle_at' = now
    /\ framed' = FALSE
    /\ UNCHANGED <<now, settings, time, last_ticks, polled, last_poll, since, checked>>

Next == \/ Tick
        \/ \E g \in Groups : RegisterTagGroup(g)
        \/ ClearTagGroups
        \/ \E b \in BOOLEAN : SetSimRunning(b) \/ SetEnableComms(b)
        \/ Frame
        \/ FrameIdle

Spec == Init /\ [][Next]_vars
---------------------------------------------------------------------------
(* A group is never polled sooner than its polling interval after its last *)
(* poll, whatever stops, restarts and missing frames lie between the two.  *)
PollSpacing ==
    [][\A g \in polled : last_poll'[g] # last_poll[g] => now - last_poll[g] >= Interval[g]]_vars

(* Nor later than it must: a frame leaves no registered group behind that  *)
(* was never polled or whose interval has passed.                          *)
NoPollMissed ==
    framed => \A g \in registered :
                  /\ g \in polled
                  /\ last_poll[g] = now \/ now - last_poll[g] < Interval[g]

(* The check for initialized groups is not put off for ever: once frames   *)
(* have covered register_wait_time since the simulation was started and    *)
(* since communications were last off, the next frame checks.              *)
StartedInTime ==
    framed /\ now - since >= RegisterWait /\ now - idle_at >= RegisterWait => Started

(* The check waits for register_wait_time after the simulation starts.     *)
ChecksAfterWait == checked => now - since >= RegisterWait
=============================================================================
