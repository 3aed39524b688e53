------------------------------ MODULE CommsCore ------------------------------
(***************************************************************************)
(* The core of OIPComms (oip_comms.cpp) for tag groups served by           *)
(* libplctag (ab_eip, modbus_tcp): the main thread, which runs the         *)
(* GDScript API, process() once a frame and the destructor; the worker     *)
(* thread, which runs process_work(); and the two queues between them.     *)
(*                                                                         *)
(* tag_group_queue is the OIPBlockingQueue, used through what it promises  *)
(* (MessageFifo, see Fifo): push appends, pop takes the head or waits, and *)
(* after shutdown an empty queue yields the empty string.  write_queue is  *)
(* taken as a queue whose push and pop do not overlap (what happens when   *)
(* they do is in module WriteQueue).  A step is what a thread does between *)
(* two accesses to state it shares with the other thread; a network call   *)
(* of libplctag separates two steps of the worker.                         *)
(*                                                                         *)
(* The calls that change the std::maps are taken only when the worker is   *)
(* not inside a loop over them (MapsFree): overlapping accesses to a       *)
(* std::map have no defined outcome.                                       *)
(***************************************************************************)
EXTENDS Naturals, Sequences, FiniteSets

CONSTANTS Groups, Tags,  \* names that the client uses
          None,          \* no group, no tag, no write
          Patient,       \* the client waits for the worker to finish a stop
                         \*   before it registers, clears or starts again
          Overwrites,    \* the client registers groups that exist already
          Switches,      \* the client switches communications off and on
          Quits,         \* OIPComms may be destroyed
          WorkerStops,   \* an OPC UA group is polled too, and a tag of it that
                         \*   the server does not know stops the simulation
          MaxWrites,     \* bound of the model: accepted writes
          MaxStops,      \* bound of the model: calls of set_sim_running(false)
                         \*   by either thread
          MaxCalls,      \* bound of the model: both together
          MaxBacklog     \* bound of the model: queue length at which a frame
                         \*   polls no further group

(* A queued write: its number, its target, the stops before it was made;   *)
(* and one that the worker has taken, with whether its tag had a handle.   *)
Writes == [id : Nat, group : Groups, tag : Tags, run : Nat]
TakenWrites == [req : Writes, sent : BOOLEAN]
Requests == [group : Groups, tag : Tags]

ASSUME CoreAssumption == /\ None \notin Groups \cup Tags \cup TakenWrites
                         /\ IsFiniteSet(Tags)
                         /\ Patient \in BOOLEAN
                         /\ Overwrites \in BOOLEAN
                         /\ Switches \in BOOLEAN
                         /\ Quits \in BOOLEAN
                         /\ WorkerStops \in BOOLEAN
                         /\ MaxWrites \in Nat
                         /\ MaxStops \in Nat
                         /\ MaxCalls \in Nat
                         /\ MaxBacklog \in Nat

VARIABLES
    (* shared flags *)
    sim_running, enable_comms, work_thread_running,
    (* the tag groups *)
    tag_groups,          \* keys of the std::map tag_groups
    tag_group_order,     \* the names get_tag_groups returns
    plc_tags,            \* state of each tag of each group
    init_count, init_count_emitted, has_error,
    handles,             \* libplctag handles that exist for each tag
    (* the queues *)
    write_queue, tag_group_queue, queue_stop,
    (* main thread: where it is, what process() has left, startup_timer ran *)
    (* out, the write that passed the gate                                  *)
    mpc, todo, current, started, request,
    (* worker: where it is, the message it works on, what is left, the write *)
    wpc, item, left, visited, wgroup, wtag, write,
    (* history: accepted and processed writes, stops, registrations *)
    accepted, processed, stops, owed

flags == <<sim_running, enable_comms, work_thread_running>>
groups == <<tag_groups, tag_group_order, plc_tags, init_count,
            init_count_emitted, has_error, handles>>
queues == <<write_queue, tag_group_queue, queue_stop>>
main == <<mpc, todo, current, started, request>>
worker == <<wpc, item, left, visited, wgroup, wtag, write>>
history == <<accepted, processed, stops, owed>>
vars == <<flags, groups, queues, main, worker, history>>

(* A tag is new while tag_pointer is -1, open once plc_tag_create gave it  *)
(* a handle, ready (initialized) once it was read.  A ghost is an entry    *)
(* that operator[] inserted: no handle, and an element count of zero.      *)
TagStates == {"absent", "new", "ghost", "open", "ready"}
HasHandle(g, t) == plc_tags[g][t] \in {"open", "ready"}
Total(g) == Cardinality({t \in Tags : plc_tags[g][t] # "absent"})

(* What is pushed on tag_group_queue: a group's name, "", or               *)
(* "_CLEANUP_TAG_GROUPS", here with the number of the stop that sent it.   *)
Poll(g) == [kind |-> "poll", group |-> g, stop |-> 0]
Wake == [kind |-> "wake", group |-> None, stop |-> 0]
Cleanup(n) == [kind |-> "cleanup", group |-> None, stop |-> n]
(* The name of the OPC UA group, whose own state is in OpcUaSession.       *)
PollServer == [kind |-> "server", group |-> None, stop |-> 0]
Messages == [kind : {"poll", "wake", "cleanup", "server"}, group : Groups \cup {None}, stop : Nat]

MainPC == {"idle", "write_push", "write_wake", "stop_push", "frame", "emit",
           "quit_shutdown", "quit_join", "gone"}
WorkerPC == {"loop", "pop", "popped", "drain", "release", "reset",
             "flush", "decide", "tags", "server", "stop_push", "done"}

FlagsOK == /\ sim_running \in BOOLEAN
           /\ enable_comms \in BOOLEAN
           /\ work_thread_running \in BOOLEAN
GroupsOK == /\ tag_groups \subseteq Groups
            /\ tag_group_order \subseteq Groups
            /\ plc_tags \in [Groups -> [Tags -> TagStates]]
            /\ init_count \in [Groups -> Nat]
            /\ init_count_emitted \in [Groups -> BOOLEAN]
            /\ has_error \in [Groups -> BOOLEAN]
            /\ handles \in [Groups -> [Tags -> Nat]]
QueuesOK == /\ write_queue \in Seq(Writes)
            /\ tag_group_queue \in Seq(Messages)
            /\ queue_stop \in BOOLEAN
MainOK == /\ mpc \in MainPC
          /\ todo \subseteq Groups
          /\ current \in Groups \cup {None}
          /\ started \in BOOLEAN
          /\ mpc = "emit" => current \in Groups
          /\ mpc = "write_push" => request \in Requests
WorkerOK == /\ wpc \in WorkerPC
            /\ item \in Messages
            /\ left \subseteq Groups
            /\ visited \subseteq Tags
            /\ wgroup \in Groups \cup {None}
            /\ wpc \in {"reset", "tags"} => wgroup \in Groups
            /\ wtag \in Tags \cup {None}
            /\ write \in TakenWrites \cup {None}
HistoryOK == /\ accepted \in Nat
             /\ processed \in Nat
             /\ stops \in Nat
             /\ owed \in [Groups -> SUBSET Tags]
TypeOK == FlagsOK /\ GroupsOK /\ QueuesOK /\ MainOK /\ WorkerOK /\ HistoryOK

NoTags == [t \in Tags |-> "absent"]

Init ==
    /\ sim_running = FALSE /\ enable_comms = TRUE /\ work_thread_running = TRUE
    /\ tag_groups = {} /\ tag_group_order = {}
    /\ plc_tags = [g \in Groups |-> NoTags]
    /\ init_count = [g \in Groups |-> 0]
    /\ init_count_emitted = [g \in Groups |-> FALSE]
    /\ has_error = [g \in Groups |-> FALSE]
    /\ handles = [g \in Groups |-> [t \in Tags |-> 0]]
    /\ write_queue = << >> /\ tag_group_queue = << >> /\ queue_stop = FALSE
    /\ mpc = "idle" /\ todo = {} /\ current = None /\ started = FALSE
    /\ request = None
    /\ wpc = "loop" /\ item = Wake /\ left = {} /\ visited = {} /\ wgroup = None /\ wtag = None
    /\ write = None
    /\ accepted = 0 /\ processed = 0
    /\ stops = 0 /\ owed = [g \in Groups |-> {}]
---------------------------------------------------------------------------
(* The client: GDScript code on the main thread                            *)

WithinBound == accepted + stops < MaxCalls

WorkerIdle == tag_group_queue = << >> /\ wpc \in {"loop", "pop"}
MapsFree == wpc \notin {"release", "reset", "tags"} /\ write = None
MayChangeGroups == mpc = "idle" /\ MapsFree /\ (Patient => WorkerIdle)

(* An existing group is overwritten in place: its tags, counters and error *)
(* are gone, the handles of its tags are not destroyed.                    *)
RegisterTagGroup(g) ==
    /\ MayChangeGroups
    /\ g \in tag_groups => Overwrites
    /\ tag_group_order' = IF g \in tag_groups THEN tag_group_order ELSE tag_group_order \cup {g}
    /\ tag_groups' = tag_groups \cup {g}
    /\ plc_tags' = [plc_tags EXCEPT ![g] = NoTags]
    /\ init_count' = [init_count EXCEPT ![g] = 0]
    /\ init_count_emitted' = [init_count_emitted EXCEPT ![g] = FALSE]
    /\ has_error' = [has_error EXCEPT ![g] = FALSE]
    /\ owed' = [owed EXCEPT ![g] = {}]
    /\ UNCHANGED <<flags, handles, queues, main, worker, accepted, processed, stops>>

(* Answers true, whether the tag is entered or was there already.          *)
RegisterTag(g, t) ==
    /\ MayChangeGroups
    /\ g \in tag_groups
    /\ plc_tags' = [plc_tags EXCEPT ![g][t] = IF @ = "absent" THEN "new" ELSE @]
    /\ owed' = [owed EXCEPT ![g] = @ \cup {t}]
    /\ UNCHANGED <<flags, tag_groups, tag_group_order, init_count, init_count_emitted,
                   has_error, handles, queues, main, worker,
                   accepted, processed, stops>>

SetEnableComms(b) ==
    /\ Switches /\ mpc = "idle"
    /\ enable_comms # b
    /\ enable_comms' = b
    /\ UNCHANGED <<sim_running, work_thread_running, groups, queues, main, worker, history>>

(* Mutant: starting requests a cleanup as well.                            *)
StartSimCleans ==
    /\ mpc = "idle" /\ ~sim_running
    /\ Patient => WorkerIdle
    /\ sim_running' = TRUE
    /\ tag_group_queue' = Append(tag_group_queue, Cleanup(stops))
    /\ UNCHANGED <<enable_comms, work_thread_running, groups, write_queue, queue_stop,
                   main, worker, history>>

(* set_sim_running(true)                                                   *)
StartSim ==
    /\ mpc = "idle" /\ ~sim_running
    /\ Patient => WorkerIdle
    /\ sim_running' = TRUE
    /\ UNCHANGED <<enable_comms, work_thread_running, groups, queues, main, worker, history>>

(* set_sim_running(false): the flag first, then the request to clean up.   *)
StopSim ==
    /\ mpc = "idle" /\ stops < MaxStops /\ WithinBound
    /\ sim_running' = FALSE
    /\ stops' = stops + 1
    /\ owed' = [g \in Groups |-> {}]
    /\ mpc' = "stop_push"
    /\ UNCHANGED <<enable_comms, work_thread_running, groups, queues, todo, current, started,
                   request, worker, accepted, processed>>

(* Mutant: the cleanup is not requested.                                   *)
StopNoPush ==
    /\ mpc = "stop_push"
    /\ mpc' = "idle"
    /\ UNCHANGED <<flags, groups, queues, todo, current, started,
                   request, worker, history>>

StopPush ==
    /\ mpc = "stop_push"
    /\ tag_group_queue' = Append(tag_group_queue, Cleanup(stops))
    /\ mpc' = "idle"
    /\ UNCHANGED <<flags, groups, write_queue, queue_stop, todo, current, started, request,
                   worker, history>>

(* write_##a: the gate, the push on write_queue and the wake-up.           *)
WriteGate(g, t) ==
    /\ mpc = "idle" /\ accepted < MaxWrites /\ WithinBound
    /\ enable_comms /\ sim_running /\ g \in tag_groups /\ plc_tags[g][t] # "absent"
    /\ request' = [group |-> g, tag |-> t]
    /\ mpc' = "write_push"
    /\ UNCHANGED <<flags, groups, queues, todo, current, started, worker, history>>

WritePush ==
    /\ mpc = "write_push"
    /\ accepted' = accepted + 1
    /\ write_queue' = Append(write_queue, [id |-> accepted + 1, group |-> request.group,
                                           tag |-> request.tag, run |-> stops])
    /\ request' = None
    /\ mpc' = "write_wake"
    /\ UNCHANGED <<flags, groups, tag_group_queue, queue_stop, todo, current, started, worker,
                   processed, stops, owed>>

(* Mutant: the worker is not woken for a write.                            *)
WriteNoWake ==
    /\ mpc = "write_wake"
    /\ mpc' = "idle"
    /\ UNCHANGED <<flags, groups, queues, todo, current, started,
                   request, worker, history>>

WriteWake ==
    /\ mpc = "write_wake"
    /\ tag_group_queue' = Append(tag_group_queue, Wake)
    /\ mpc' = "idle"
    /\ UNCHANGED <<flags, groups, write_queue, queue_stop, todo, current, started, request,
                   worker, history>>

(* Mutant: none of its handles is closed.                                  *)
HandlesKept(g) == handles[g]

(* The cleanup of one group: its handles, its tags, and then its counters. *)
HandlesClosed(g) == [t \in Tags |-> IF HasHandle(g, t) THEN handles[g][t] - 1 ELSE handles[g][t]]

(* clear_tag_groups, and the end of the destructor: every group at once on *)
(* the main thread.                                                        *)
CleanAllGroups ==
    /\ handles' = [g \in Groups |-> HandlesClosed(g)]
    /\ plc_tags' = [g \in Groups |-> NoTags]
    /\ init_count' = [g \in Groups |-> 0]
    /\ init_count_emitted' = [g \in Groups |-> FALSE]
    /\ has_error' = [g \in Groups |-> FALSE]

ForgetGroups == tag_groups' = {} /\ tag_group_order' = {}

ClearTagGroups ==
    /\ MayChangeGroups
    /\ ~sim_running
    /\ tag_groups # {}
    /\ CleanAllGroups
    /\ ForgetGroups
    /\ owed' = [g \in Groups |-> {}]
    /\ UNCHANGED <<flags, queues, main, worker, accepted, processed, stops>>
---------------------------------------------------------------------------
(* process(): once a frame                                                 *)

FrameStart ==
    /\ mpc = "idle" /\ enable_comms /\ sim_running
    /\ mpc' = "frame"
    /\ todo' = tag_groups
    /\ UNCHANGED <<flags, groups, queues, current, started, request,
                   worker, history>>

FrameStopped ==
    /\ mpc = "idle" /\ ~(enable_comms /\ sim_running)
    /\ started
    /\ started' = FALSE
    /\ UNCHANGED <<flags, groups, queues, mpc, todo, current, request,
                   worker, history>>

(* Mutant: the first tag is enough.                                        *)
SomeInitialized(g) == init_count[g] >= 1
AllInitialized(g) == init_count[g] >= Total(g)

(* One group: it is polled if its interval has passed, and announced as    *)
(* initialized (the signal goes out in this step) if all its tags are.     *)
FrameGroup(g) ==
    /\ mpc = "frame" /\ g \in todo
    /\ todo' = todo \ {g}
    /\ \/ UNCHANGED tag_group_queue
       \/ /\ Len(tag_group_queue) < MaxBacklog
          /\ tag_group_queue' = Append(tag_group_queue, Poll(g))
    /\ IF started /\ ~init_count_emitted[g] /\ AllInitialized(g)
       THEN mpc' = "emit" /\ current' = g
       ELSE UNCHANGED <<mpc, current>>
    /\ UNCHANGED <<flags, groups, write_queue, queue_stop, started, request,
                   worker, history>>

FrameEmit ==
    /\ mpc = "emit"
    /\ init_count_emitted' = [init_count_emitted EXCEPT ![current] = TRUE]
    /\ mpc' = "frame"
    /\ current' = None
    /\ UNCHANGED <<flags, tag_groups, tag_group_order, plc_tags, init_count, has_error, handles,
                   queues, todo, started, request,
                   worker, history>>

(* The OPC UA group is the last that a frame polls.                        *)
FrameEnd ==
    /\ mpc = "frame" /\ todo = {}
    /\ mpc' = "idle"
    /\ started' \in {started, TRUE}
    /\ \/ UNCHANGED tag_group_queue
       \/ /\ WorkerStops /\ Len(tag_group_queue) < MaxBacklog
          /\ tag_group_queue' = Append(tag_group_queue, PollServer)
    /\ UNCHANGED <<flags, groups, write_queue, queue_stop, todo, current, request,
                   worker, history>>
---------------------------------------------------------------------------
(* ~OIPComms                                                               *)

QuitSignal ==
    /\ Quits /\ mpc = "idle"
    /\ work_thread_running' = FALSE
    /\ mpc' = "quit_shutdown"
    /\ UNCHANGED <<sim_running, enable_comms, groups, queues, todo, current, started,
                   request, worker, history>>

(* Mutant: the queue is not shut down.                                     *)
QuitNoShutdown ==
    /\ mpc = "quit_shutdown"
    /\ mpc' = "quit_join"
    /\ UNCHANGED <<flags, groups, queues, todo, current, started,
                   request, worker, history>>

QuitShutdown ==
    /\ mpc = "quit_shutdown"
    /\ queue_stop' = TRUE
    /\ mpc' = "quit_join"
    /\ UNCHANGED <<flags, groups, write_queue, tag_group_queue, todo, current, started,
                   request, worker, history>>

QuitJoin ==
    /\ mpc = "quit_join" /\ wpc = "done"
    /\ CleanAllGroups
    /\ mpc' = "gone"
    /\ UNCHANGED <<flags, tag_groups, tag_group_order, queues, todo, current, started,
                   request, worker, history>>
---------------------------------------------------------------------------
(* process_work(): the loop of the worker.  What the last round left in    *)
(* its locals is gone when the next one begins; item is only looked at     *)
(* after the next pop.                                                     *)

WorkerLoop ==
    /\ wpc = "loop"
    /\ wpc' = IF work_thread_running THEN "pop" ELSE "done"
    /\ visited' = {} /\ wgroup' = None
    /\ UNCHANGED <<flags, groups, queues, main, item, left, wtag, write, history>>

WorkerPop ==
    /\ wpc = "pop"
    /\ \/ /\ tag_group_queue # << >>
          /\ item' = Head(tag_group_queue)
          /\ tag_group_queue' = Tail(tag_group_queue)
       \/ /\ tag_group_queue = << >> /\ queue_stop
          /\ item' = Wake
          /\ UNCHANGED tag_group_queue
    /\ wpc' = "popped"
    /\ UNCHANGED <<flags, groups, write_queue, queue_stop, main, left, visited, wgroup, wtag,
                   write, history>>

(* Break, or drain the writes before the cleanup, or just flush them.      *)
WorkerDispatch ==
    /\ wpc = "popped"
    /\ wpc' = CASE item.kind = "wake" /\ ~work_thread_running -> "done"
                [] item.kind = "cleanup" -> "drain"
                [] OTHER -> "flush"
    /\ UNCHANGED <<flags, groups, queues, main, item, left, visited, wgroup, wtag, write, history>>

(* process_write looks its target up with operator[], which enters what it *)
(* does not find.                                                          *)
Flushing == wpc \in {"drain", "flush"}
LookUp(g, t) ==
    /\ tag_groups' = tag_groups \cup {g}
    /\ plc_tags' = [plc_tags EXCEPT ![g][t] = IF @ = "absent" THEN "ghost" ELSE @]

(* Mutant: the write is read and stays in the queue.                       *)
WriteBeginNoPop ==
    /\ Flushing /\ write = None
    /\ write_queue # << >>
    /\ LET req == Head(write_queue) IN
         /\ LookUp(req.group, req.tag)
         /\ write' = [req |-> req, sent |-> HasHandle(req.group, req.tag)]
    /\ UNCHANGED <<flags, tag_group_order, init_count, init_count_emitted, has_error, handles,
                   queues, main, wpc, item, left, visited, wgroup, wtag, history>>

(* The next write leaves the queue; it is sent if its tag has a handle.    *)
WriteBegin ==
    /\ Flushing /\ write = None
    /\ write_queue # << >>
    /\ LET req == Head(write_queue) IN
         /\ LookUp(req.group, req.tag)
         /\ write' = [req |-> req, sent |-> HasHandle(req.group, req.tag)]
    /\ write_queue' = Tail(write_queue)
    /\ UNCHANGED <<flags, tag_group_order, init_count, init_count_emitted, has_error, handles,
                   tag_group_queue, queue_stop, main, wpc, item, left, visited, wgroup, wtag,
                   history>>

(* plc_tag_write has come back; a success looks the tag up once more, to   *)
(* mark it dirty.                                                          *)
WriteEnd ==
    /\ Flushing /\ write # None
    /\ \/ write.sent /\ LookUp(write.req.group, write.req.tag)
       \/ UNCHANGED <<tag_groups, plc_tags>>
    /\ write' = None
    /\ processed' = write.req.id
    /\ UNCHANGED <<flags, tag_group_order, init_count, init_count_emitted, has_error, handles,
                   queues, main, wpc, item, left, visited, wgroup, wtag, accepted, stops, owed>>

(* Mutant: the flush may end while writes are queued.                      *)
FlushDoneEarly ==
    /\ Flushing /\ write = None
    /\ IF wpc = "drain" THEN wpc' = "release" /\ left' = tag_groups
                        ELSE wpc' = "decide" /\ UNCHANGED left
    /\ UNCHANGED <<flags, groups, queues, main, item, visited, wgroup, wtag, write, history>>

FlushDone ==
    /\ Flushing /\ write = None
    /\ write_queue = << >>
    /\ IF wpc = "drain" THEN wpc' = "release" /\ left' = tag_groups
                        ELSE wpc' = "decide" /\ UNCHANGED left
    /\ UNCHANGED <<flags, groups, queues, main, item, visited, wgroup, wtag, write, history>>

(* cleanup_tag_group, for each group in turn.                              *)
ReleaseTags(g) ==
    /\ wpc = "release" /\ g \in left
    /\ handles' = [handles EXCEPT ![g] = HandlesClosed(g)]
    /\ plc_tags' = [plc_tags EXCEPT ![g] = NoTags]
    /\ wgroup' = g
    /\ wpc' = "reset"
    /\ UNCHANGED <<flags, tag_groups, tag_group_order, init_count, init_count_emitted, has_error,
                   queues, main, item, left, visited, wtag, write, history>>

(* Mutant: the count of created tags survives the cleanup.                 *)
ResetGroupKeepsCount ==
    /\ wpc = "reset"
    /\ init_count_emitted' = [init_count_emitted EXCEPT ![wgroup] = FALSE]
    /\ has_error' = [has_error EXCEPT ![wgroup] = FALSE]
    /\ left' = left \ {wgroup}
    /\ wpc' = "release"
    /\ UNCHANGED <<flags, tag_groups, tag_group_order, plc_tags, init_count, handles, queues, main,
                   item, visited, wgroup, wtag, write, history>>

(* Mutant: the group still counts as announced after the cleanup.          *)
ResetGroupKeepsFlag ==
    /\ wpc = "reset"
    /\ init_count' = [init_count EXCEPT ![wgroup] = 0]
    /\ has_error' = [has_error EXCEPT ![wgroup] = FALSE]
    /\ left' = left \ {wgroup}
    /\ wpc' = "release"
    /\ UNCHANGED <<flags, tag_groups, tag_group_order, plc_tags, init_count_emitted, handles,
                   queues, main, item, visited, wgroup, wtag, write, history>>

ResetGroup ==
    /\ wpc = "reset"
    /\ init_count' = [init_count EXCEPT ![wgroup] = 0]
    /\ init_count_emitted' = [init_count_emitted EXCEPT ![wgroup] = FALSE]
    /\ has_error' = [has_error EXCEPT ![wgroup] = FALSE]
    /\ left' = left \ {wgroup}
    /\ wpc' = "release"
    /\ UNCHANGED <<flags, tag_groups, tag_group_order, plc_tags, handles, queues, main,
                   item, visited, wgroup, wtag, write, history>>

ReleaseDone ==
    /\ wpc = "release" /\ left = {}
    /\ wpc' = "flush"
    /\ UNCHANGED <<flags, groups, queues, main, item, left, visited, wgroup, wtag, write, history>>

(* A group is polled only while the simulation runs, only if it is known,  *)
(* and only if it has had no error since the last cleanup.                 *)
Decide ==
    /\ wpc = "decide"
    /\ \/ /\ sim_running /\ item.kind = "poll"
          /\ item.group \in tag_groups /\ ~has_error[item.group]
          /\ wpc' = "tags" /\ wgroup' = item.group /\ visited' = {}
       \/ /\ sim_running /\ item.kind = "server"
          /\ wpc' = "server" /\ UNCHANGED <<wgroup, visited>>
       \/ /\ \/ ~sim_running \/ item.kind \notin {"poll", "server"}
             \/ item.kind = "poll" /\ (item.group \in tag_groups => has_error[item.group])
          /\ wpc' = "loop" /\ UNCHANGED <<wgroup, visited>>
    /\ UNCHANGED <<flags, groups, queues, main, item, left, wtag, write, history>>

(* init_plc_tag: a tag without a handle gets one, or the group has failed. *)
TagCreate(t) ==
    /\ wpc = "tags" /\ wtag = None /\ t \notin visited
    /\ plc_tags[wgroup][t] \in {"new", "ghost"}
    /\ \/ /\ plc_tags' = [plc_tags EXCEPT ![wgroup][t] = "open"]
          /\ handles' = [handles EXCEPT ![wgroup][t] = @ + 1]
          /\ init_count' = [init_count EXCEPT ![wgroup] = @ + 1]
          /\ wtag' = t
          /\ UNCHANGED <<has_error, wpc>>
       \/ /\ has_error' = [has_error EXCEPT ![wgroup] = TRUE]
          /\ wpc' = "loop"
          /\ UNCHANGED <<plc_tags, handles, init_count, wtag>>
    /\ UNCHANGED <<flags, tag_groups, tag_group_order, init_count_emitted, queues, main,
                   item, left, visited, wgroup, write, history>>

(* process_plc_read: a tag with a handle is read, or the group has failed. *)
TagRead(t) ==
    /\ wpc = "tags" /\ wtag \in {None, t} /\ t \notin visited
    /\ HasHandle(wgroup, t)
    /\ \/ /\ plc_tags' = [plc_tags EXCEPT ![wgroup][t] = "ready"]
          /\ visited' = visited \cup {t}
          /\ UNCHANGED <<has_error, wpc>>
       \/ /\ has_error' = [has_error EXCEPT ![wgroup] = TRUE]
          /\ wpc' = "loop"
          /\ UNCHANGED <<plc_tags, visited>>
    /\ wtag' = None
    /\ UNCHANGED <<flags, tag_groups, tag_group_order, init_count, init_count_emitted, handles,
                   queues, main, item, left, wgroup, write, history>>

TagsDone ==
    /\ wpc = "tags" /\ wtag = None
    /\ \A t \in Tags \ visited : plc_tags[wgroup][t] = "absent"
    /\ wpc' = "loop"
    /\ UNCHANGED <<flags, groups, queues, main, item, left, visited, wgroup, wtag, write, history>>

(* process_opc_ua_tag_group comes back, or calls set_sim_running(false):   *)
(* again the flag first, then the request to clean up.                     *)
ServerPolled ==
    /\ wpc = "server"
    /\ wpc' = "loop"
    /\ UNCHANGED <<flags, groups, queues, main, item, left, visited, wgroup, wtag, write, history>>

ServerTagInvalid ==
    /\ wpc = "server" /\ stops < MaxStops /\ WithinBound
    /\ sim_running' = FALSE
    /\ stops' = stops + 1
    /\ owed' = [g \in Groups |-> {}]
    /\ wpc' = "stop_push"
    /\ UNCHANGED <<enable_comms, work_thread_running, groups, queues, main, item, left, visited,
                   wgroup, wtag, write, accepted, processed>>

WorkerStopPush ==
    /\ wpc = "stop_push"
    /\ tag_group_queue' = Append(tag_group_queue, Cleanup(stops))
    /\ wpc' = "loop"
    /\ UNCHANGED <<flags, groups, write_queue, queue_stop, main, item, left, visited, wgroup, wtag,
                   write, history>>
---------------------------------------------------------------------------
Client == \/ \E g \in Groups : \/ RegisterTagGroup(g)
                               \/ \E t \in Tags : RegisterTag(g, t) \/ WriteGate(g, t)
          \/ \E b \in BOOLEAN : SetEnableComms(b)
          \/ StartSim \/ StopSim \/ ClearTagGroups
          \/ FrameStart \/ FrameStopped
          \/ QuitSignal

(* What the main thread does inside a call it has begun.                   *)
MainStep == \/ StopPush \/ WritePush \/ WriteWake
            \/ \E g \in Groups : FrameGroup(g)
            \/ FrameEmit \/ FrameEnd
            \/ QuitShutdown \/ QuitJoin

WorkerStep == \/ WorkerLoop \/ WorkerPop \/ WorkerDispatch
              \/ WriteBegin \/ WriteEnd \/ FlushDone
              \/ \E g \in Groups : ReleaseTags(g)
              \/ ResetGroup \/ ReleaseDone \/ Decide
              \/ \E t \in Tags : TagCreate(t) \/ TagRead(t)
              \/ TagsDone
              \/ ServerPolled \/ ServerTagInvalid \/ WorkerStopPush

Next == Client \/ MainStep \/ WorkerStep

(* The worker is a running thread whose library calls time out (5 s), and  *)
(* the main thread finishes the calls it begins; the client need never     *)
(* call anything, and no frame need ever come.                             *)
Fairness == WF_vars(MainStep) /\ WF_vars(WorkerStep)

Spec == Init /\ [][Next]_vars
FairSpec == Spec /\ Fairness

(* What the two threads do to tag_group_queue is what MessageFifo allows:  *)
(* any thread pushes and shuts down, the worker is the one consumer, and   *)
(* the name it works on is the last message it was handed.                 *)
Fifo == INSTANCE MessageFifo
        WITH Consumers <- {"worker"}, EMPTY <- Wake, fifo <- tag_group_queue,
             closed <- queue_stop, got <- [c \in {"worker"} |-> item]
---------------------------------------------------------------------------
(* Every accepted write is processed once, in the order of the calls: the  *)
(* one in flight and the queued ones carry the numbers that follow the     *)
(* last one processed, up to the last one accepted.                        *)
InFlight == IF write = None THEN 0 ELSE 1
WritesInOrder ==
    /\ accepted = processed + InFlight + Len(write_queue)
    /\ write # None => write.req.id = processed + 1
    /\ \A i \in 1 .. Len(write_queue) : write_queue[i].id = processed + InFlight + i

(* When the worker starts to release handles for a stop, no write that was *)
(* accepted before that stop is still queued (process_work drains first).  *)
DrainedBeforeRelease ==
    wpc = "release" => \A i \in 1 .. Len(write_queue) : write_queue[i].run >= item.stop

(* Connections do not outlive a stop: if the simulation is stopped and no  *)
(* cleanup is queued or under way, no libplctag handle is left.            *)
CleanupQueued == \E i \in 1 .. Len(tag_group_queue) : tag_group_queue[i].kind = "cleanup"
CleanupUnderWay == \/ wpc = "popped" /\ item.kind = "cleanup"
                   \/ wpc \in {"drain", "release", "reset"}
CleanupPending == mpc = "stop_push" \/ wpc = "stop_push" \/ CleanupQueued \/ CleanupUnderWay
NoHandles == \A g \in Groups, t \in Tags : handles[g][t] = 0
ReleasedWhenStopped == sim_running \/ CleanupPending \/ NoHandles

(* Each tag has the one handle its state says it has: none is leaked and   *)
(* none is closed twice.                                                   *)
ExactHandles == \A g \in Groups, t \in Tags : handles[g][t] = IF HasHandle(g, t) THEN 1 ELSE 0

(* init_count is the number of the group's tags that have a handle, except *)
(* between the two halves of its cleanup.                                  *)
InitCountExact ==
    \A g \in Groups :
        \/ wpc = "reset" /\ wgroup = g
        \/ init_count[g] = Cardinality({t \in Tags : HasHandle(g, t)})

(* A tag for which register_tag answered true is there until the next stop *)
(* or clear, so that a registration made while stopped serves the next run.*)
RegistrationKept == \A g \in Groups : \A t \in owed[g] : plc_tags[g][t] # "absent"

(* tag_group_initialized is sent only for a group all of whose tags have   *)
(* been created on the device's connection.                                *)
AnnouncedWhenOpen ==
    mpc = "emit" => \A t \in Tags : plc_tags[current][t] \notin {"new", "ghost"}

(* Once a stop has been cleaned up no group counts as announced, so that   *)
(* tag_group_initialized is sent again in the next run.  (A client that is *)
(* not patient, or a stop by the worker, loses it: FrameEmit may come      *)
(* after the cleanup.)                                                     *)
AnnouncedAnew ==
    ~sim_running /\ mpc = "idle" /\ WorkerIdle => \A g \in Groups : ~init_count_emitted[g]

(* No queued write brings back a tag or a group that is not registered.    *)
NoGhosts == \A g \in Groups, t \in Tags : plc_tags[g][t] # "ghost"

(* What is queued was queued while the simulation ran: "New writes can't   *)
(* be enqueued once sim_running flips false (write_##a is gated at the     *)
(* entry point)" (407).                                                    *)
EnqueuedWhileRunning == [][Len(write_queue') > Len(write_queue) => sim_running]_vars

(* Every accepted write is processed, whether or not a group is polled,    *)
(* unless the destructor makes the worker leave first: as their number is  *)
(* bounded, there comes a time when none is left.                          *)
WritesProcessed == (accepted > processed) ~> (accepted = processed \/ ~work_thread_running)

(* Every stop is followed by the release of all handles, unless the        *)
(* simulation is started again first.                                      *)
StopReleases == ~sim_running ~> (NoHandles \/ sim_running)

(* The destructor returns, once the worker has left its loop and is joined, *)
(* and no handle is left then.                                             *)
QuitReturns == (mpc = "quit_shutdown") ~> (mpc = "gone" /\ NoHandles)
=============================================================================
