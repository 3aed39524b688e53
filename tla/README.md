# OIP Comms: specifications, checks and proofs

OIP Comms is the GDExtension through which an Open Industry Project simulation
talks to PLCs, robots and brokers. This directory holds TLA+ modules of its
concurrent core, the TLC configurations that check them on small instances, and
the theorems that TLAPS proves about them for every instance. Line numbers
refer to `src/src/oip_comms.cpp` unless another file is named.

1. [The system](#1-the-system): components, state, interactions, what is hard
2. [Modules](#2-modules): which module models which part, and how
3. [Runs](#3-runs): what each checks, bounds, fairness
4. [Proofs](#4-proofs): what is proved and along which argument
5. [Where code and documentation disagree](#5-where-code-and-documentation-disagree)
6. [Not modelled](#6-not-modelled)
7. [Plan](#7-plan)

## 1. The system

One singleton, `OIPComms`, owns everything. Two threads use it all the time:
the **main thread** (Godot: the GDScript API, `process()` once a frame, the
destructor) and the **worker** (`process_work`, 367-400), which alone talks to
devices. A third, the watchdog (352-365), only connects `process()` to the scene
tree and ends. Some transports bring threads of their own: one polling thread
per S7 PLC, and the callback thread of the MQTT client.

| Component | State | Operations |
| --- | --- | --- |
| Blocking queue (`oip_blocking_queue.*`) | `queue`, `stop`, a mutex, a condition variable | `push`, `pop`, `shutdown` |
| Core (`oip_comms.*`) | `sim_running`, `enable_comms`, `work_thread_running`; the map `tag_groups` with each group's tags, `init_count`, `init_count_emitted`, `has_error`; `tag_group_order`; `write_queue`; `tag_group_queue` | `register_tag_group`, `register_tag`, `set_sim_running`, `set_enable_comms`, `clear_tag_groups`, `write_*`, `read_*`, `process`, the worker's loop, the destructor |
| Timers of `process()` | `TagGroup::time`, `startup_timer`, `last_ticks` | one step per frame |
| Error reporting | `comms_error`, `last_error` | `print(…, true)` on either thread, `set_sim_running(true)`, `get_comms_error` |
| libplctag groups (`ab_eip`, `modbus_tcp`) | `PlcTag`: handle, `initialized`, `dirty` | create, read, write, destroy |
| Soft PLC (`soft_plc.cpp`, 714-860) | engine handle, program source, values, watch image | compile, scan, replace the program, monitor |
| S7 (`S7Com.cpp`) | PLC list, per PLC a socket, a state, three memory blocks, tags with pending writes | create, destroy, cached read, pending write, flush; polling thread |
| MQTT (1402-1570) | client, subscriptions, last value of each topic | connect, subscribe, publish, message callback |
| OPC UA (929-1068) | client, node ids, values, `needs_session_recovered_signal` | connect, resolve, read, write, invalidate |
| RTDE (1222-1400, `rtde_client.cpp`) | socket, receive buffer, recipe layouts, payloads | handshake, receive the stream, send inputs |
| ADS (1070-1220, `tcads_loader.cpp`) | device, handles, values | connect, resolve, read, write |
| OPC UA browser (1950-2209) | a client of its own, the endpoint | connect, browse, reconnect |

**Interactions.** The API and `process()` push on `tag_group_queue`: a group's
name for a poll, `""` after a write, `"_CLEANUP_TAG_GROUPS"` for a stop. A
write itself travels in `write_queue`. The worker pops one message, breaks if it
is empty and the object is being destroyed, drains the writes and cleans up all
groups for a stop, flushes the writes, and polls the named group if the
simulation runs and the group has had no error. Both threads read and write the
maps, counters and flags of the groups without a lock. Signals go out from the
main thread inside `process()` and from either thread inside `print`.

**What is hard.** The client stops, restarts and registers while older messages
are still queued. Counters that `process()` compares are changed by the worker
meanwhile. A call that fails ends a round half way. Writes race the cleanup that
takes their handles away, and the destructor races everything. Times are
measured across pauses. `PROJECT.json` lists the hazards at their lines.

**What makes each component correct.**

- Blocking queue: mutual exclusion, no lost wake-up, order, a shutdown that
  releases every waiter and loses nothing that was pushed before.
- Core: accepted writes are processed once, in order, before the handles of
  their run go; handles neither leak nor are closed twice, and none outlives a
  stop or the destructor; counters agree with the tags; registrations survive;
  a group is announced when its tags have handles; stops, writes and the
  destructor come to an end.
- Timers: polls are spaced by the interval and not missed; the initialization
  check is neither early nor put off for ever.
- Errors: a run that fails says so, once, with its own text.
- S7 memory: the block that is fetched covers every registered tag, pieces stay
  inside the image, a tag is read from its own addresses and fetched in the end,
  in whatever order tags come.
- RTDE: frames are taken whole and in order however they arrive, the handshake
  stays in step with the controller, every field is found where the controller
  puts it, a poll ends with the latest package, a write changes its own tag
  only, and a failure keeps no connection, counts no tag twice and holds up
  nobody.
- S7 connections: a written value reaches the PLC, is refused or waits to be
  sent; PLC objects live as long as they have tags; the destructor joins.
- MQTT and OPC UA: what a group knows of its peer (subscriptions, values, node
  ids) is of the session it has; a connection that died is replaced; tags are
  counted once.
- ADS: handles are given back before their device goes.
- Soft PLC: the program set last runs, with the time of physics, and its outputs
  are its own.
- OPC UA browser: the children returned are of one session, and calls end.

## 2. Modules

Mutants (operators named in `PROJECT.json`, each preceded by a comment
"Mutant") stand before the definition they vary; they are not part of the
specifications.

**MessageFifo** is what a user of the blocking queue may rely on: a closable
first-in first-out queue. **OIPBlockingQueue** is the class itself: `push`,
`shutdown` and `pop` cut where another thread can come in between (taking the
mutex, the work under it, the notification after it is released), `cv.wait`
with its predicate, its sleep and spurious wake-ups. `queue`, `stop` and
`mutex` are the members; `pc` and `msg` the threads' positions and locals. It
is shown to implement MessageFifo (`ImplementsFifo`: `fifo <- queue`,
`closed <- stop`, `got <- msg`). Who uses it is **QueueUsers**.

**CommsCore** models the two threads for groups served by libplctag and uses
`tag_group_queue` through what MessageFifo promises: the instance `Fifo` (the worker
is the one consumer, `item` what it was handed last) is implemented by the core, as
`CoreUsesFifo` proves, so what the core assumes of the queue is what the queue is
proved to do. `mpc` is where the main
thread is inside a call, `wpc` where the worker is in its loop; a step ends
where the other thread can see or change something.

| Code | Actions |
| --- | --- |
| `register_tag_group` 1760, `register_tag` 1803, `set_enable_comms` 1880, `clear_tag_groups` 1939 | `RegisterTagGroup`, `RegisterTag`, `SetEnableComms`, `ClearTagGroups` |
| `set_sim_running` 1893: flag, then the request to clean up | `StartSim`, `StopSim`, `StopPush`; called by the worker: `ServerTagInvalid`, `WorkerStopPush` |
| `write_*` 2327: gate, push, wake-up | `WriteGate`, `WritePush`, `WriteWake` |
| `process` 1612: each group polled and compared, the signal, the flag after it | `FrameStart`, `FrameGroup`, `FrameEmit`, `FrameEnd`, `FrameStopped` |
| `~OIPComms` 269 | `QuitSignal`, `QuitShutdown`, `QuitJoin` |
| `process_work` 367 | `WorkerLoop`, `WorkerPop`, `WorkerDispatch`, `Decide` |
| `flush_all_writes` 406, `process_write` 616 | `WriteBegin` (pop, look up), `WriteEnd` (after the library call), `FlushDone` |
| `cleanup_tag_group` 289 | `ReleaseTags` (handles and tags), `ResetGroup` (counters), `ReleaseDone` |
| `process_plc_tag_group` 862, `init_plc_tag` 903, `process_plc_read` 1600 | `TagCreate`, `TagRead`, `TagsDone` |

A tag's state abstracts its handle, `initialized` flag and element count:
absent, new, open (has a handle), ready (was read), or a *ghost* that
`operator[]` inserted. An OPC UA group is there as far as it concerns the core: if
`WorkerStops`, frames poll it last (`PollServer`), and its poll either comes back
(`ServerPolled`) or stops the simulation from the worker (`ServerTagInvalid`);
what the poll does with its server is OpcUaSession's. `handles` counts what the library holds, so a handle that
the program forgets is still seen. Whether a group is due in a frame and when the
check begins (`started`) is left open; ProcessFrame says when. In `FrameGroup`
the push of a poll and the comparison of the counters are one step: the worker
may find the poll and change the counters just before the comparison, which it
can equally do with the poll of an earlier frame.

**ProcessFrame** is the clockwork of `process()`: `Frame` adds the time since
`last_ticks` to every group and to `startup_timer`, polls what is due, and
compares the timer as earlier frames left it; `FrameIdle` restarts the timer
and, as the code does, leaves `last_ticks` alone. Time is whole units; the
clock, the frames and the calls come in any order. The groups, their intervals
and the waits are **FrameSettings**.

**CommsError** is `print(…, true)` cut at each of its steps (test, signal,
store, flag) on any number of threads, and `set_sim_running(true)`. `SignalledOnce`
is what the documentation says of the signal, and does not hold; `FailureSignalled`
and `ErrorOfThisRun` are of runs that began with no print under way (`clean`).

**WriteQueue** opens up what CommsCore takes as one step: `push` on the main
thread and `front`/`pop` on the worker on one unlocked `std::queue`. The two
stores of a push (the element, the end) become visible in either order, the one
swapped being remembered in `swapped`.

**SharedMembers** puts the two together, as what the two threads use without a
lock: a thread is in one call at a time, so a print of the worker (for a group, or
for the write it has just processed) holds up the writes behind it, and the main
thread prints and starts runs between its writes.

**CoreParts** puts what CommsCore takes for granted side by side: OIPBlockingQueue,
ProcessFrame and SharedMembers, of which none reads what another writes. `part`
says which of them a behaviour is of, and the properties have the names they have
there.

**S7Memory** is one memory block of one S7 PLC (`src/src/S7Com.cpp` 53-68,
198-239, 298-331, 429-442). `Start`, `Quantity`, `Resized` are the members
under `lockResize`; `size` and `image` the vector `MemImage`, whose bytes are
the addresses they were fetched from; `start`, `quantity`, `i` the polling
thread's copies. `Register`, `Unregister`, `PlcDestroyed` and `WriteLosesLink`
are the worker's calls; `PassBegin` grows the image and copies start and
quantity under the lock, `PieceFetched` and `PieceFailed` are one exchange, in
which the destination is computed from the start as it then is. Reads by the
main thread change nothing and are the operators `Readable` and `Bytes`. The
address space, and with it what a tag's name is decoded to, is **S7Addresses**.
Tags come in any order. `BlockCoversTags` is what the code's comment says of the
block, and does not hold once a tag comes that lies below the others. `before`
remembers the tags that were there when the start last moved down, `aged` the
elements of the image that are from before that; `CoveredSinceMove`,
`ReadsOwnBytes` and `TagsFetched` say what holds of all others, with passes under
way that began before the move.

**RtdeFields** is the data of an RTDE group: the sizes of the field types
(`rtde_client.cpp` 94-162), the offsets of fields, elements and bits in a payload
(1290-1355) and how a number or a bit is stored there (528-587). It states
the controller's own layout apart from that (`RobotCells`: whose byte each byte
of a package is), so that the two can be compared.

**RtdeSession** is the session (1222-1400, 510-592, 308-312) with its client
class (`rtde_client.cpp`) and the controller at the other end of the
connection. `rpc` is where the worker is: `"idle"`, awaiting the reply to the
version (`"V"`), output (`"O"`), input (`"I"`) or start (`"S"`) request, or in
`Client::poll`. A frame travels as two units, header and body, which stand for
any cut in two; `wire` is what arrived and `recv_buf_` the client's buffer.

| Code | Actions |
| --- | --- |
| `init_rtde_session` 1230, `Client::open` 194 | `SessionBegin` |
| `recv_frame` 404 | `HandshakeReceive` (one `recv`), `HandshakeFails` (no answer, bad frame) |
| `negotiate_version`, `setup_outputs`, `setup_inputs`, `start` 436-593, with the layout 1290-1357 | `VersionAgreed`, `OutputsSetUp`, `InputsSetUp`, `StreamStarted`, or `HandshakeFails` |
| `process_rtde_tag_group` 1375, `poll` 595, `try_extract_frame` 375 | `PollBegin`, `PollTakes` (one frame), `PollEnds`, `PollFails` |
| `rtde_tag_set` 510, `send_input` 625, `send_frame` 332 | `WriteTag` with `Sent`, `NotSent` or `PartlySent` |
| `cleanup_tag_group` 308, then `register_tag` 1818 | `Cleanup` |
| the controller (external) | `RobotAnswers`, `RobotData`, `RobotBody`, `RobotText`, `RobotBadFrame`, `RobotCloses` |

A data package carries its number instead of its values; a written number is
its lowest byte, the others being zero. What the client sends arrives at once:
the controller's receive side is not at issue. A group whose poll failed is not
polled again before a cleanup (`has_error`, 691), so there is no reconnection.

**S7Plcs** is the rest of the S7 client: the list of PLC objects, each with its
connection, its polling thread and its tags, and the worker's calls for the
groups of several gateways (`S7Com.cpp` 96-140, 166-215, 241-295, 333-419,
468-559; 334-349, 609-678, 862-927). A step of a thread goes as far as a call that
may block: `lockObj`, `connect`, an exchange. `sock` has a third value,
`"closed"`, between the two halves of the destructor's `S7_sockClose`, which takes
no lock. `device` is what the PLC has; `wanted` and `refused` remember what was
written and what the PLC turned down. The gateways and their tags are
**S7Devices**.

| Code | Actions |
| --- | --- |
| `s7_poll` 241 | `ThreadTop`, `ThreadConnect`, `ThreadHello`, `ThreadLock`, `ThreadExchange`, `ThreadEnd` |
| `process_plc_tag_group` 862, `init_plc_tag` 903, `S7_tag_create` | `PollBegin`, `PollCreate`, `PollTag`, `PollFlush` |
| `S7_write`, `S7_sendTag`, `FlushPendingWrites` | `Write`, `FlushTag`, `WorkerLock`, `WorkerExchange`, `FlushEnd` |
| `S7_tag_destroy`, `~S7Plc` | `CleanupBegin`, `DestroyTag`, `DestroyClose`, `DestroyForget`, `DestroyJoin`, `CleanupEnd` |

**MqttSession** is an MQTT group (1402-1540, 231-250, 318-349): `Poll` resets and
`Connect`, `Subscribe` and `PollEnd` follow, each a call of the client library;
`mqtt_message_arrived` runs on the library's thread, between any two of them, and
`LinkDown` and `Message` are the library and the broker. A value is the number
of the session it came in. `ValuesOfThisSession` is what the code's comment says
of the reset (1511), `NoneOlderThanLast` what the reset does.

**OpcUaSession** is an OPC UA group (929-1068, 429-462, 1630-1656, 2221-2229):
`Connect`, `InitTag`, `ReadTag`, `WriteTag` are requests, `Invalidate` is
`invalidate_opc_ua_session`, `StopSimulation` the stop that the worker makes
itself. `client` is what the client library knows of the connection, `alive`
whether the server still has the session; `resolved` and `invalid` number
connections. `NodeIdsOfThisSession` has all node ids resolved in the present one
(1048), `ReResolved` those of invalidated sessions gone.

**AdsSession** is an ADS group (1070-1220, 313-317): device, symbols, handles,
reads. `Cleanup`, `DeleteTags` and `DeleteDevice` are the destruction of an
`AdsTagGroupImpl`, whose members go last to first.

**BrowseSession** is the editor's own OPC UA client (1950-2113, 2147-2209), whose
calls are cut at each request. **SoftPlc** is a soft PLC group (603-608, 714-799,
810-818) with the main thread setting programs while the worker is between
compiling one and marking its tags; which programs there are is **SoftPrograms**.

**Transports** puts the transports together as the worker does: a group's
polls, writes and cleanup go to the transport of its `protocol` (289-350,
594-614, 689-709) and leave the others alone; the browse client, which belongs to
no group, is one more. It instantiates all of these modules. A property that is
the same question of several transports is one definition there: `OfThisSession`
(which does not hold) and `SessionsForgotten` (which does), `PeersHeld`, `InitCountOnce`, `FreshAfterPoll`, `RoundsEnd`, `Recovers`.

Modules `MC…` instantiate the specifications; modules `…_proofs` hold theorems.

## 3. Runs

| Run | What it shows | Instance |
| --- | --- | --- |
| `core_parts` | the blocking queue: no lost wake-up, refinement of MessageFifo, nobody is left waiting (every message is taken and shutdown releases everybody); the clockwork: poll spacing, no missed poll, the check comes in time; the shared members: no silent failure, the stored error is of this run, every write request taken once, in order, whole unless swapped, and all taken | 2 producers, 2 consumers, 2 messages, length 2; a group due each frame and one with interval 2, clock to 4; 2 threads, 2 errors, 2 runs, 3 writes |
| `core_patient` | a client that waits for a stop to finish, and no stop by the worker: registrations kept, no ghosts, counts and handles exact, groups announced with their handles and anew in every run | 2 groups of 2 tags, 1 write, 1 stop |
| `core_liveness` | a client that writes, stops and restarts at any moment, and quits, and a worker that stops: each write processed once and in order, before its handles go; released when stopped; all writes are processed, stops release, the destructor returns and leaves no handle | 1 group, 1 tag; 2 writes and 1 stop, or 1 write and 2 stops |
| `transports` | for each transport what section 1 asks of it | S7 memory: 3 addresses, tags of 1 and 2 bytes in any order, answers of 1 byte, 1 failure. S7 connections: 1 PLC, 2 tags. RTDE: 8 sets of up to 6 tags, 2 data packages, 1 trouble. MQTT, OPC UA, ADS: 2 tags; browser: 2 endpoints, answers of up to 3 pages; 3 sessions each. Soft PLC: 3 tags, 3 programs, one of them faulty, 2 physics frames |

Eight runs are expected to end in a violation: `core_lost_registration`,
`core_late_write`, `frame_checks_early`, `error_twice`, `s7_any_order`, `s7_two_plcs`,
`rtde_partial_send` and `stale_session`; see section 5. Each checks the one property
that the documentation or a comment states, in the module in which it is defined.

**The client.** `Patient` is TRUE for a client that lets the worker finish
before it registers, clears or starts again. The weaker client loses
registrations (`core_lost_registration`), so `core_patient` shows what holds for
a careful one; `core_liveness` assumes nothing of it. Care is of
no use against a stop that the worker makes (`WorkerStops`): with it `NoGhosts`
fails (a write past its gate is queued after the cleanup) and so does
`AnnouncedAnew` (`FrameEmit` sets the flag after the cleanup), so `core_patient`
leaves it out and `core_liveness` has it. So two hazards are not met in
`core_patient` where they bite: a cleanup between the signal and the flag of a
frame, and one between the clearing of a group's tags and of its count while a
frame compares them. `Switches` lets the client switch
communications off and on; `core_patient` does.
`Overwrites` allows registering a group that exists; it leaks handles, without
bound, so the runs leave it out and the theorems about handles assume it away.

**Bounds.** `MaxWrites`, `MaxStops` and, for both together, `MaxCalls` bound the
writes and the stops by either thread, `MaxBacklog`
the queue length at which a frame polls no more (the code has no such limit:
the queue then only grows by further polls). Two stops are the least with which
a cleanup of one run is carried out in another; two writes the least whose order
can be lost, one in flight or both queued; two tags the least with which a round can fail half way; two
groups the least with which a cleanup is between groups. `MaxLen` = 2 lets a
notification reach a consumer whose message another has taken. The clock of
ProcessFrame runs past a wait and a second wait of two units each.
Three addresses and answers of one byte let a pass take up to three pieces, let the
start move twice, once in the middle of a pass, and let tags of two bytes lie across
pieces; one failure breaks off a pass and its connection. The tag sets of `MCRobot` are nothing,
outputs and inputs with an element, bits in two bytes of an integer and whole
numbers, and one set for each way a handshake is turned down (an index out of
range, a variable not found, one in use). Two data packages (`MaxSeq`) are the
least of which a poll may keep the wrong one; one trouble (`MaxTrouble`: a
refusal, a text message or a bad frame, at any time) is enough, since the
handshake ends with it or must ignore it; the end of the connection may come at
any time besides. Two errors and two runs let a print that
has begun before them be overtaken by two starts while the other thread prints; three writes
leave one being taken, one queued and one being pushed. Three sessions let one that has replaced
another be lost as well, and a third tell what is of the last from what is
older; two tags are the least with which a session dies between two. One PLC is
enough in `transports`, since PLC objects share nothing but the lookup by
identifier; that lookup is what `s7_two_plcs` takes two for. Of the three programs
of a soft PLC one drives what another reads, and one does not compile. Symmetry
over group and tag names is used in runs that check invariants only.

**Deadlock** is checked except in two instances: in `core_liveness` the
destructor ends the program; in `core_parts` the errors, runs and writes of the shared
members are used up, and the threads then rightly wait.

**Fairness.** The worker is a thread that the system schedules and whose library
calls time out (`timeout`, 5 s), so `WF(WorkerStep)`. The main thread finishes
calls it has begun, so `WF(MainStep)`. Nothing is assumed of the client: it need
not call anything, and no frame need come. In the queue each thread finishes the
call it is in, consumers pop in a loop as `process_work` does, and a notified
waiter gets the mutex when it is free again and again (`QueueFairness`); the calls
that use the shared members go on as those of the core do (`MembersFairness`). The polling thread of an
S7 PLC runs (`WF(PollStep)`), and its device answers again in the end: answers
fail at most `MaxFails` times. Without that no tag need ever be fetched. An RTDE
round goes on (`WF(Handshake \/ PollStep)`): its receive gives up after five
seconds (`SO_RCVTIMEO`, `HandshakeFails`), and nothing is assumed of the
controller. So do the calls of the other transports (`CallStep`), whose libraries
time out, and their threads run (`ThreadStep`): each S7 polling thread, whose
exchanges end with an answer or with the socket closed, and the MQTT client's,
which delivers what has arrived. Polls come again and again, as `process()` queues
them while the simulation runs; where it is stopped, or the group fails, `Recovers`
asks nothing. Nothing is assumed of brokers, servers and links. `CallStep` and
`ThreadStep` are disjunctions of which, once the protocol is chosen, one can be
enabled (two S7 threads would need a condition each; the run has one PLC).

## 4. Proofs

All theorems are about the specifications above, for all values of the constants
that satisfy the named assumptions of each module (types and distinctness of the
constants, `IsFiniteSet(Tags)`). The bounds of the runs are constants too: the
theorems hold for each of their values. Where the argument needs a type
invariant and TLC would only repeat what is proved (the queue, the core, the
timers, the errors), `TypeOK` and `MutualExclusion` are left to the proof.

- **OIPBlockingQueue_proofs**: `TypeOK`, `MutualExclusion`, `NoLostWakeup`,
  `ShutdownWakesAll`, and that the queue implements `Fifo!SafeSpec`. The
  invariant `IInv` adds `PredicateHolds`: what a consumer that holds the mutex
  knows from the predicate it tested. Without it a consumer could fall asleep
  on a queue that was filled since.
- **CommsCore_proofs**:
  - `CoreTypeOK`, with `HandlesCover` (a tag that has a handle is counted), so
    that closing a handle never counts below zero;
  - `CoreWritesInOrder`, which is inductive with the types;
  - `CoreDrainedBeforeRelease` from `DrainInv`: a cleanup carries the number of
    a stop already made, and until its last group is released no older write is
    queued;
  - `CoreExactHandles` and `CoreReleasedWhenStopped`, for clients that
    overwrite no group, from `ReleaseInv`: names outside the map have no tags,
    groups already cleaned have none, and a poll that is still going on after a
    stop has a cleanup behind it. The first two are why walking the map reaches
    every handle, the last why no handle appears after the cleanup;
  - `CoreInitCountExact` for any client: only the step between the two halves of
    a cleanup parts the count from the handles, and a group that is cleaned has
    neither;
  - for a client that is `Polite` (patient, with a worker that stops nothing):
    `CoreAnnouncedAnew` from `AnnounceInv` (a run begins when no cleanup is to
    come, and frames belong to a run, so the flag is not set once the cleanup has
    passed its group), `CoreRegistrationKept`, if nobody destroys the object (while
    a cleanup is to come nothing is owed), and, if no group is registered
    twice, `CoreNoGhosts` from `PoliteInv`: a queued write has its wake-up behind
    it and its target in the map, since a cleanup takes tags away only when the
    drain has left no write, and a patient client clears only when none is queued;
    and `CoreAnnouncedWhenOpen`: as many handles as tags, and every tag with a
    handle being one of them, is all of them;
  - `CoreEnqueuedWhileRunning` for any client, if the worker stops nothing: the call
    that passed the gate is still under way at its push (`PushInRun`), and the other
    calls of `set_sim_running` are on the same thread;
  - `CoreUsesFifo` for any client: every step pushes one message of its type on
    `tag_group_queue`, shuts it down, hands the worker its head (or "" once it is
    shut down and empty), or leaves the queue and the worker's message alone. With
    `QueueImplementsFifo` both sides meet in MessageFifo. (No run checks it: the set
    of messages that a cleanup's number makes infinite is beyond TLC.)
- **ProcessFrame_proofs**: `FrameTypeOK`, `FrameNoPollMissed`,
  `FrameStartedInTime`, `FramePollSpacing` from `FrameInv`: `time` of a polled
  group is exactly the time between its last poll and the last frame, and
  `startup_timer` is past its mark or has counted all since the run began or
  since the last idle frame.
- **Transports_proofs**: `TransportsKeepApart`. Each transport's variables change
  only by its own steps (one lemma each), so a history of the composition is one
  of every transport. The modules below therefore prove an invariant inductive
  for one transport's `Next` and conclude it for the whole `Spec`.
- **RtdeFields_proofs**: the operators of RtdeFields, for recipes of any length.
  They are functions by recursion on a position; that there is such a function
  (`Recursion`) and the induction over it come from the order of the natural
  numbers, with a set in place of a predicate (`LeastNat`, `InductionOnSet`, from
  the library's `WFMin` and `NatLessThanWellFounded`).
  `FieldTablesAgree`: the four tables of field types (size, arity, element size,
  element type) agree. `RobotLayout`: a payload is as long as `PayloadSize` says
  and each field lies from its `FieldOffset` on, without gaps. `TagPlaced`: the
  bytes from a tag's offset on are those of its field and element, and no others.
  The last section is about values: a number or bit that is stored is read back,
  and a write leaves every place that it does not share, each bit of a byte
  included (`StoredFacts`; the bits are the weights 1 to 128, one case each).
- **RtdeSession_proofs**:
  - `RtdeNoSocketKept` and `RtdeInitCountOnce` from `Phases`, which says with what
    state of the session the worker can be where: tags are initialized without a
    session only after a failure, so that no session begins that would count
    them again;
  - `RtdeAnswersInStep` from `StreamInv`: buffer, wire and the half frame that is
    still to come are together, up to a bad header, whole frames, head by body; and
    during the handshake the reply awaited is among them, or yet to be sent, or the
    controller has closed;
  - `RtdeFieldsFound` from `FieldsInv`: an initialized session has recipes of
    known types in which all its tags resolve, and its offsets are those of
    RtdeFields, of which `TagPlaced` holds;
  - `RtdeFreshAfterPoll` from `DataInv`: the packages in buffer and wire are exactly
    those after the one that the client has last taken, in rising order, so that the
    last whole one that a poll takes is the latest that had arrived;
  - `RtdeInputsAsWritten` from `InputsInv`: at the place of each input tag that is
    `Alone` the payload has the value last written, and the controller has the
    payload. A write changes the place of its own tag, and for a bit only that bit.
    It holds whether or not sends may be partial, of writes that went out whole and
    behind no torn frame (`delivered`): behind one the controller gets no inputs.
- **Sessions_proofs**, one section for each of the other transports:
  - soft PLC: `SoftLastProgramRuns` (the worker may take a program for compiled
    only if it compiled it or was overtaken), `SoftTimeIsPhysics` (the time given
    so far is the last scan's frame less the first one's, plus the nominal
    interval), `SoftProgramOwnsOutputs` (outputs of the program that runs are
    marked, for the tags there were when it was compiled);
  - MQTT: `MqttOfThisSession`; a callback is of the session there is or of the one
    that is about to be destroyed, hence one session late at most;
  - OPC UA: `OpcUaReResolved`; what is initialized was resolved after the last
    invalidation, because that took all node ids away;
  - ADS: `AdsHandlesOfDevice`; browser: `BrowseResultsOfOneSession`;
  - S7 writes: `S7WritesReachPlc` (a value leaves `PendingValue` only when the
    device has it or refused it) and `S7InitCountExact` (the tags that a poll
    initializes are of the group that it counts for);
  - S7 connections: `S7KilledWhenEmpty` from `PlcsInv`: a created tag is in the
    PLC object of its own gateway until its group's cleanup takes it out; one that
    had tags has some, or is abandoned (a cleanup looked in the wrong one), or is
    being ended, and is then the first and has none. `S7FirstIsFound`: what an idle
    worker finds for a tag is the first PLC, while the tag's own is there too, so
    `FoundInOwnPlc` holds of the first one's tags only;
  - S7 memory, all for any order of registration: `MemoryTypeOK`, with the block and
    its image ending inside the address space; `MemoryCoveredSinceMove`,
    `MemoryCopyInImage` and `MemoryReadsOwnBytes` from `MemoryInv`: the image has the
    block's size once it has grown, a pass under way asks for no more than the image
    has, since only a pass resizes it, and an element that was copied since the start
    last moved has its own address, since it goes where the start is by then;
  - what is asked of several transports at once, from these and
    RtdeSession_proofs: `GroupsForgetSessions`, `TagsCountedOnce`,
    `GroupsFreshAfterPoll`, `GroupsHoldPeers` (the properties
    `SessionsForgotten`, `InitCountOnce`, `FreshAfterPoll`, `PeersHeld`);
  - `TransportsTypeOK`: every variable of the composition keeps its type. An
    invariant of each transport is needed for it: that an MQTT client has a
    session number, that an OPC UA or ADS read has its tag, that a browse asks
    for a next page only while there is one (`MaxPages` is a number,
    `BrowseAssumption`), that the offsets of a recipe are numbers because a
    session begins only with fields that are known.
- **CoreParts_proofs**: `ErrorTypeOK`; `ErrorOncePerThread` from `OnceInv` (a
  thread that has signalled is about to set the flag or it is set), which bounds how
  often `SignalledOnce` is missed by the number of threads;
  `ErrorFailureSignalled` and `ErrorErrorOfThisRun` from `CleanInv` (in a run
  that began with no print under way every print is of this run). `SharedErrors`:
  SharedMembers is a behaviour of CommsError, so these hold of it too.
  `SharedTakenWhole` from `QueueInv`: what lies between the ends is built, but for
  the last slot of a push whose stores are swapped, and the worker has taken
  exactly what lies before the front. `PartsShared`, `PartsQueue` and `PartsFrames`:
  a behaviour of CoreParts is one of each part, a step of another part being a
  stutter. With the theorems of OIPBlockingQueue_proofs and ProcessFrame_proofs,
  taken over the same variables with INSTANCE, `PartsNoLostWakeup`,
  `PartsImplementsFifo`, `PartsNoPollMissed`, `PartsStartedInTime` and
  `PartsPollSpacing` are what the run `core_parts` checks.

Every safety property of the runs that pass is thus proved. The eight that a run shows
violated are not, and what the theorems say of them is of two kinds. Two are proved
where their cause is away, so that run and theorem together say what the cause is:
`CoreRegistrationKept` (a patient client, no stop by the worker, no destructor) and
`CoreEnqueuedWhileRunning` (no stop by the worker, any client). Of four others it is
proved, with nothing taken away, how much is left of them:
`MemoryCoveredSinceMove` and `MemoryReadsOwnBytes` of `BlockCoversTags`,
`GroupsForgetSessions` of `OfThisSession`, `ErrorOncePerThread` of `SignalledOnce`,
`S7FirstIsFound` of `FoundInOwnPlc`. Nothing is proved of `FramesSentWhole` (without
partial sends it holds by definition) and `ChecksAfterWait` (it depends on when the
client starts a run, and on no constant).

Only model-checked: all liveness (`NobodyLeftWaiting`, `WritesProcessed`,
`StopReleases`, `QuitReturns`, `AllTaken`, `TagsFetched`, `RoundsEnd`, `Recovers`),
which is beyond the prover, as is whether an action is enabled: no theorem says
that a deadlock is impossible.

## 5. Where code and documentation disagree

Shown by runs (`PROJECT.json`, "findings"):

- a registration made right after a stop is wiped by the cleanup that is still
  queued (`core_lost_registration`);
- a write may be queued after the simulation stopped, contrary to the comment at
  407, because the gate of `write_*` and its push are two steps and the worker
  stops the simulation by itself (`core_late_write`); if the cleanup comes in
  between, the write finds its tag gone, enters an empty one and fails;
- the check for initialized groups may begin in the second frame of a run, not
  500 ms after its start (`frame_checks_early`);
- an S7 tag registered below the others moves the end of the block down with
  its start, so that tags before it read as 0 from then on (`s7_any_order`); a
  polling pass under way then also copies past the end of the image, since it
  takes the old addresses to the new start;
- all S7 PLCs have the identifier 1, since nothing counts `IdCounter`
  (`S7Com.cpp` 112, 125), so that tags of a second gateway are looked up in the
  PLC of the first (`s7_two_plcs`): they read 0, their writes fail, and their
  cleanup kills the wrong PLC or none;
- a write to an RTDE group that the non-blocking socket takes only a part of
  leaves a torn frame behind, and the next write begins inside it
  (`rtde_partial_send`);
- `comms_error` may be sent twice in a run, once by each thread, since the flag is
  tested before the signal and set after it (`error_twice`; OIPComms.xml:344);
- a group that connects again may serve what is of the session before
  (`stale_session`): a message that the callback of the old MQTT client stores
  between the reset (1517) and the end of that client (1416) is served until the
  topic speaks again, contrary to the comment at 1511; and an OPC UA client that
  has noticed by itself that its connection is gone is replaced without
  invalidation (968), so tags keep the node ids of the session before, a namespace
  index of another server run included, contrary to the comment at 1048. The trace
  that TLC finds is the first; with `Topics` empty it is the second.

Seen while modelling, without a run of their own: a group is polled again
whether or not its last poll was carried out, so with a device slower than the
interval `tag_group_queue` grows without bound and a stop is carried out only
after the backlog (1623, see `MaxBacklog` under the bounds); registering a group again
leaks the handles of its tags (1799; `ExactHandles` fails when `Overwrites` is
TRUE); a write to an RTDE group whose session has not begun is dropped without
an error (512); a poll that finds the end of an RTDE stream drops the whole
frames in front of it (`rtde_client.cpp` 385); a write accepted before its
group was first polled is thrown away, since its tag has no handle (680); a
handler of `comms_error` that asks for the error gets the previous one, since
the text is stored after the signal (1673); `tag_group_initialized` counts
tags that have a handle but were never read (925); a write still queued when
`clear_tag_groups` runs brings an empty group back into the map but not into the
list of names (617); the worker breaks on the empty message of a write while
quitting and does not flush it (372); a poll that is queued when communications
are disabled is carried out (388); `get_comms_error` keeps the first error of a run,
not the last (1674). When the start of an S7 block moves down the image is not
cleared, so that until it is fetched again a read returns bytes of higher addresses
(`aged` in S7Memory; `S7Com.cpp` 223-227, 305). A server lost while a tag
with a namespace URI is resolved stops the simulation instead of being
reconnected to (1011); `needs_session_recovered_signal`, cleared after the signal,
may be that of a second loss (1654). A soft PLC program set between the compilation
of another and its marks never runs (766, `replaced` in SoftPlc); marks are never
taken back when a program is replaced, and tags registered after a compilation are
not marked until the next (750-763). `UA_Client_browseNext` is given a continuation point whose memory
was just cleared (2099-2101).

The drain before a cleanup (380) protects nothing that the wake-up of each write
does not protect already, as long as only the main thread stops the simulation:
a write's `""` is always queued before the stop's cleanup. It matters where the
worker stops it by itself (947, 960), between a write and its wake-up.

## 6. Not modelled

- Overlapping accesses to the `std::map`s: they have no defined outcome.
  CommsCore lets the client change the maps only while the worker is not inside
  a loop over them (`MapsFree`). Likewise flags and counters are read and
  written in one piece, and the growth of `write_queue` into a new block of the
  deque is left out of WriteQueue.
- `read_*` and values: a read returns what the worker last stored and marks
  nothing. `dirty` is written and never tested by the core.
- Calls of the API from inside a signal handler.
- The fractions of a millisecond and rounding of the `float` timers.
- The watchdog, which connects `process()` once; extension registration; the
  engine scaffold in `src/src/_scaffold`, which is not built; vendored
  libraries, of which only what the source uses appears, marked external.
- Values, and whether a value of several bytes read from an S7 image is of one
  moment: a read may overlap the copy of a piece, and pieces are fetched apart.
- The encoding of floating-point numbers and of values wider than a byte in
  RTDE inputs, recipe numbers (a controller that answers with another is not
  modelled), and the receive side of the controller.
- The watch image and the compile check of the soft PLC (801-860), and what the
  engine computes. `program_source` is set and read in one piece, although a
  `std::string` is shared without a lock.
- The first scan of a soft PLC in physics frame 0, which would be taken for the
  next scan's first again: SoftPlc starts with one frame past.
- Callbacks of a destroyed MQTT client: Paho's `MQTTClient_destroy` is assumed to
  have let the one under way finish. Publishing, ADS writes and OPC UA writes
  change no state of the program unless they fail. `init_count_emitted`, which an
  MQTT reconnection clears (1520), is CommsCore's.
- In OpcUaSession, a start of the simulation before a stop was cleaned up (that
  order is CommsCore's), and in S7Plcs a `connect` or `recv` of an S7 thread that never returns: no
  timeout is set there, so a destructor that meets a silent device waits for the
  system's.
- In S7Plcs a pass over the three memory blocks is one exchange, and the frames are
  not modelled: an answer is good, an error, unusable or the end.
- Most lines of the repository are vendored: `quickjs`, `open62541.h` and the
  engine's bindings are some 125,000 of 135,000. They are not this program's logic,
  so the share of the lines that the map covers stays small.

## 7. Plan

1. A property over whole runs for the announcement (each run announces each
   group), which an impatient client or a stop by the worker loses.
2. The watch image of the soft PLC.
