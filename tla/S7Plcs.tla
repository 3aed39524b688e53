------------------------------- MODULE S7Plcs -------------------------------
(***************************************************************************)
(* The S7 client but for its memory blocks (module S7Memory): the PLC      *)
(* objects and the tags registered in them, the connection of each with    *)
(* its polling thread, writes, and the end of a PLC object (S7Com.cpp),    *)
(* with the worker's calls of it for a tag group (process_plc_tag_group,   *)
(* process_write and cleanup_tag_group of oip_comms.cpp).                  *)
(*                                                                         *)
(* A step of a thread is what it does up to a call that may block: taking  *)
(* lockObj, connect, or an exchange of a request and its answer.  An       *)
(* exchange ends with an answer, with one that is no good, or with the     *)
(* connection closed.  A pass over the memory blocks is one exchange.      *)
(* Each PLC stands for its host: what a write changes there is device.     *)
(***************************************************************************)
EXTENDS S7Devices, Sequences, SequencesExt

VARIABLES
    S7Plcs,                      \* the PLC objects in the order they were made
    Tags,                        \* tags of each PLC object
    abandoned,                   \* PLC objects with tags that no cleanup has found
    state, sock,                 \* of each PLC object
    TerminateThread, lockObj,
    tpc,                         \* where its polling thread is
    plc_tags, created, ready,    \* tags of the groups; with a tag_pointer; initialized
    has_error, init_count,       \* of each group
    pending,                     \* PendingValue while WritePending
    wpc, wgroup, left, wtag,     \* the worker: where it is, its group, tags left, the tag
    flushing,                    \* the write under way is one of a flush
    device, wanted, refused, had \* values in the PLC; history

plcs == <<S7Plcs, Tags, abandoned, state, sock, TerminateThread, lockObj, tpc>>
group == <<plc_tags, created, ready, has_error, init_count>>
worker == <<wpc, wgroup, left, wtag, flushing>>
history == <<wanted, refused, had>>
vars == <<plcs, group, pending, worker, device, history>>

ThreadPC == {"none", "top", "connect", "hello", "read", "exchange", "end", "ended"}
WorkerPC == {"idle", "tags", "flush", "lock", "exchange", "destroy", "close", "forget", "join"}

TypeOK == /\ S7Plcs \in Seq(Hosts)
          /\ Tags \in [Hosts -> SUBSET S7Tags]
          /\ abandoned \subseteq Hosts /\ state \in [Hosts -> 0 .. 2]
          /\ sock \in [Hosts -> {"invalid", "open", "closed"}]
          /\ TerminateThread \in [Hosts -> BOOLEAN]
          /\ lockObj \in [Hosts -> {"free", "thread", "worker"}]
          /\ tpc \in [Hosts -> ThreadPC]
          /\ plc_tags \subseteq S7Tags /\ created \subseteq S7Tags /\ ready \subseteq S7Tags
          /\ has_error \in [Hosts -> BOOLEAN] /\ init_count \in [Hosts -> Nat]
          /\ pending \in [S7Tags -> S7Values \cup {NoValue}]
          /\ wpc \in WorkerPC /\ wgroup \in Hosts
          /\ left \subseteq S7Tags /\ wtag \in S7Tags \cup {NoValue}
          /\ flushing \in BOOLEAN
          /\ device \in [S7Tags -> S7Values \cup {NoValue}]
          /\ wanted \in [S7Tags -> S7Values \cup {NoValue}]
          /\ refused \in [S7Tags -> BOOLEAN] /\ had \in [Hosts -> BOOLEAN]

(* A tag's identifier carries that of its PLC, which the constructor takes *)
(* from a counter that nothing increments.                                 *)
Identifier(h) == 1
Owner(t) == Gateway[t]

(* The PLC that a call finds for a tag: the first with the tag's number.   *)
Found(t) == SelectInSeq(S7Plcs, LAMBDA h : Identifier(h) = Identifier(Owner(t)))
PlcOf(t) == S7Plcs[Found(t)]

Init == /\ S7Plcs = << >>
        /\ Tags = [h \in Hosts |-> {}] /\ abandoned = {}
        /\ state = [h \in Hosts |-> 0] /\ sock = [h \in Hosts |-> "invalid"]
        /\ TerminateThread = [h \in Hosts |-> FALSE]
        /\ lockObj = [h \in Hosts |-> "free"]
        /\ tpc = [h \in Hosts |-> "none"]
        /\ plc_tags = {} /\ created = {} /\ ready = {}
        /\ has_error = [h \in Hosts |-> FALSE] /\ init_count = [h \in Hosts |-> 0]
        /\ pending = [t \in S7Tags |-> NoValue]
        /\ wpc = "idle" /\ wgroup \in Hosts /\ left = {} /\ wtag = NoValue
        /\ flushing = FALSE
        /\ device = [t \in S7Tags |-> NoValue]
        /\ wanted = [t \in S7Tags |-> NoValue]
        /\ refused = [t \in S7Tags |-> FALSE] /\ had = [h \in Hosts |-> FALSE]
---------------------------------------------------------------------------
(* The polling thread of a PLC                                             *)

GoTo(h, where) == tpc' = [tpc EXCEPT ![h] = where]

(* S7_sockClose; the exchange that finds the socket unusable ends with it. *)
SockClose(h) == /\ sock' = [sock EXCEPT ![h] = "invalid"]
                /\ state' = [state EXCEPT ![h] = 0]

ThreadTop(h) ==
    /\ tpc[h] = "top"
    /\ IF state[h] = 0
       THEN /\ sock' = [sock EXCEPT ![h] = IF @ = "invalid" THEN "open" ELSE @]
            /\ GoTo(h, "connect")
       ELSE /\ GoTo(h, IF state[h] = 1 THEN "hello" ELSE "read")
            /\ UNCHANGED sock
    /\ UNCHANGED <<S7Plcs, Tags, abandoned, state, TerminateThread, lockObj, group, pending, worker,
                   device, history>>

ThreadConnect(h) ==
    /\ tpc[h] = "connect"
    /\ \/ /\ sock[h] = "open"
          /\ state' = [state EXCEPT ![h] = 1]
          /\ GoTo(h, "hello")
       \/ GoTo(h, "end") /\ UNCHANGED state
    /\ UNCHANGED <<S7Plcs, Tags, abandoned, sock, TerminateThread, lockObj, group, pending, worker,
                   device, history>>

(* The connect and negotiate requests, which are exchanged without lockObj. *)
ThreadHello(h) ==
    /\ tpc[h] = "hello"
    /\ \/ /\ sock[h] = "open"
          /\ state' = [state EXCEPT ![h] = 2]
          /\ GoTo(h, "read") /\ UNCHANGED sock
       \/ /\ sock[h] = "open"
          /\ GoTo(h, "end") /\ UNCHANGED <<state, sock>>
       \/ SockClose(h) /\ GoTo(h, "end")
    /\ UNCHANGED <<S7Plcs, Tags, abandoned, TerminateThread, lockObj, group, pending, worker, device,
                   history>>

ThreadLock(h) ==
    /\ tpc[h] = "read" /\ lockObj[h] = "free"
    /\ lockObj' = [lockObj EXCEPT ![h] = "thread"]
    /\ GoTo(h, "exchange")
    /\ UNCHANGED <<S7Plcs, Tags, abandoned, state, sock, TerminateThread, group, pending, worker, device,
                   history>>

ThreadExchange(h) ==
    /\ tpc[h] = "exchange"
    /\ \/ sock[h] = "open" /\ UNCHANGED <<state, sock>>
       \/ SockClose(h)
    /\ lockObj' = [lockObj EXCEPT ![h] = "free"]
    /\ GoTo(h, "end")
    /\ UNCHANGED <<S7Plcs, Tags, abandoned, TerminateThread, group, pending, worker, device, history>>

(* After the sleep: another round, or the end.                             *)
ThreadEnd(h) ==
    /\ tpc[h] = "end"
    /\ IF ~TerminateThread[h]
       THEN GoTo(h, "top") /\ UNCHANGED <<state, sock>>
       ELSE /\ GoTo(h, "ended")
            /\ IF sock[h] = "invalid" THEN UNCHANGED <<state, sock>>
               ELSE lockObj[h] = "free" /\ SockClose(h)
    /\ UNCHANGED <<S7Plcs, Tags, abandoned, TerminateThread, lockObj, group, pending, worker, device,
                   history>>

Thread(h) == \/ ThreadTop(h) \/ ThreadConnect(h) \/ ThreadHello(h)
             \/ ThreadLock(h) \/ ThreadExchange(h) \/ ThreadEnd(h)
---------------------------------------------------------------------------
(* The worker polls the group of a gateway                                 *)

(* The client registers the tags again once a cleanup has wiped them.      *)
Register(h) ==
    /\ wpc = "idle" /\ plc_tags \cap TagsOf(h) = {}
    /\ plc_tags' = plc_tags \cup TagsOf(h)
    /\ UNCHANGED <<plcs, created, ready, has_error, init_count, pending, worker, device, history>>

PollBegin(h) ==
    /\ wpc = "idle" /\ ~has_error[h] /\ plc_tags \cap TagsOf(h) # {}
    /\ wpc' = "tags" /\ wgroup' = h /\ left' = plc_tags \cap TagsOf(h)
    /\ UNCHANGED <<plcs, group, pending, wtag, flushing, device, history>>

(* S7_tag_create: the PLC with the host's name, or a new one with its      *)
(* thread.                                                                 *)
IsMade(h) == h \in Range(S7Plcs)
NewPlc(h) == /\ S7Plcs' = Append(S7Plcs, h)
             /\ state' = [state EXCEPT ![h] = 0]
             /\ sock' = [sock EXCEPT ![h] = "invalid"]
             /\ TerminateThread' = [TerminateThread EXCEPT ![h] = FALSE]
             /\ GoTo(h, "top")
MakePlc(h) == IF IsMade(h) THEN UNCHANGED <<S7Plcs, state, sock, TerminateThread, tpc>>
              ELSE NewPlc(h)
Counted(h, yes) == IF yes THEN [init_count EXCEPT ![h] = @ + 1] ELSE init_count

PollCreate(t) ==
    /\ wpc = "tags" /\ t \in left \ created
    /\ MakePlc(wgroup)
    /\ \/ /\ t \in Undecodable
          /\ has_error' = [has_error EXCEPT ![wgroup] = TRUE]
          /\ wpc' = "idle" /\ left' = {}
          /\ UNCHANGED <<Tags, created, pending, had>>
       \/ /\ t \notin Undecodable
          /\ Tags' = [Tags EXCEPT ![wgroup] = @ \cup {t}]
          /\ created' = created \cup {t}
          /\ pending' = [pending EXCEPT ![t] = NoValue]
          /\ had' = [had EXCEPT ![wgroup] = TRUE]
          /\ UNCHANGED <<has_error, wpc, left>>
    /\ UNCHANGED <<abandoned, lockObj, plc_tags, ready, init_count, wgroup, wtag, flushing, device, wanted,
                   refused>>

PollTag(t) ==
    /\ wpc = "tags" /\ t \in left \cap created
    /\ LET connected == state[PlcOf(t)] = 2
       IN  /\ ready' = IF connected THEN ready \cup {t} ELSE ready
           /\ init_count' = Counted(wgroup, connected /\ t \notin ready)
    /\ left' = left \ {t}
    /\ UNCHANGED <<plcs, plc_tags, created, has_error, pending, wpc, wgroup, wtag, flushing,
                   device, history>>

(* What the PLC of the group's first tag has pending is sent.              *)
PollFlush ==
    /\ wpc = "tags" /\ left = {}
    /\ \E t \in plc_tags \cap TagsOf(wgroup) :
           left' = {u \in Tags[PlcOf(t)] : pending[u] # NoValue}
    /\ wpc' = "flush"
    /\ UNCHANGED <<plcs, group, pending, wgroup, wtag, flushing, device, history>>
---------------------------------------------------------------------------
(* Writes, each to a tag that its PLC has: only there is a value pending   *)

(* S7_sendTag, as far as lockObj.                                          *)
Send(t, otherwise) ==
    IF state[Owner(t)] = 2 THEN wpc' = "lock" /\ wtag' = t
    ELSE wpc' = otherwise /\ UNCHANGED wtag

FlushTag(t) ==
    /\ wpc = "flush" /\ t \in left
    /\ left' = left \ {t} /\ flushing' = TRUE
    /\ Send(t, "flush")
    /\ UNCHANGED <<plcs, group, pending, wgroup, device, history>>

FlushEnd ==
    /\ wpc = "flush" /\ left = {}
    /\ wpc' = "idle" /\ flushing' = FALSE
    /\ UNCHANGED <<plcs, group, pending, wgroup, left, wtag, device, history>>

(* process_write; a tag that the PLC found for it does not have keeps      *)
(* nothing.                                                                *)
Write(t, v) ==
    /\ wpc = "idle" /\ t \in created /\ t \in Tags[PlcOf(t)]
    /\ pending' = [pending EXCEPT ![t] = v]
    /\ wanted' = [wanted EXCEPT ![t] = v]
    /\ refused' = [refused EXCEPT ![t] = FALSE]
    /\ Send(t, "idle")
    /\ UNCHANGED <<plcs, group, wgroup, left, flushing, device, had>>

WorkerLock ==
    /\ wpc = "lock" /\ lockObj[Owner(wtag)] = "free"
    /\ lockObj' = [lockObj EXCEPT ![Owner(wtag)] = "worker"]
    /\ wpc' = "exchange"
    /\ UNCHANGED <<S7Plcs, Tags, abandoned, state, sock, TerminateThread, tpc, group, pending,
                   wgroup, left, wtag, flushing, device, history>>

(* Mutant: the value is no longer pending, whatever became of the write.   *)
SettlesAlways(answer) == TRUE

(* The answers after which a value is no longer pending.                   *)
Settles(answer) == answer \in {"done", "refused"}

(* A write may have been done though its answer was lost or no good.       *)
WorkerExchange ==
    /\ wpc = "exchange"
    /\ \E answer \in {"done", "refused", "nogood", "closed"}, done \in BOOLEAN :
           LET h == Owner(wtag)
           IN  /\ answer # "closed" \/ done => sock[h] = "open"
               /\ answer = "done" => done /\ state[h] = 2
               /\ answer = "refused" => ~done
               /\ device' = IF done THEN [device EXCEPT ![wtag] = pending[wtag]] ELSE device
               /\ pending' = IF Settles(answer) THEN [pending EXCEPT ![wtag] = NoValue]
                             ELSE pending
               /\ refused' = [refused EXCEPT ![wtag] = answer = "refused"]
               /\ IF answer = "closed" THEN SockClose(h) ELSE UNCHANGED <<state, sock>>
               /\ lockObj' = [lockObj EXCEPT ![h] = "free"]
    /\ wpc' = IF flushing THEN "flush" ELSE "idle"
    /\ wtag' = NoValue
    /\ UNCHANGED <<S7Plcs, Tags, abandoned, TerminateThread, tpc, group, wgroup, left, flushing,
                   wanted, had>>
---------------------------------------------------------------------------
(* cleanup_tag_group                                                       *)

CleanupBegin(h) ==
    /\ wpc = "idle" /\ plc_tags \cap TagsOf(h) # {}
    /\ wpc' = "destroy" /\ wgroup' = h /\ left' = created \cap TagsOf(h)
    /\ UNCHANGED <<plcs, group, pending, wtag, flushing, device, history>>

(* S7_tag_destroy: the PLC found is killed if it is left without tags.     *)
DestroyTag(t) ==
    /\ wpc = "destroy" /\ t \in left
    /\ LET h == PlcOf(t)
           empty == Tags[h] \subseteq {t} /\ h \notin abandoned
       IN  /\ Tags' = [Tags EXCEPT ![Owner(t)] = @ \ {t}]
           /\ abandoned' = IF h = Owner(t) THEN abandoned ELSE abandoned \cup {Owner(t)}
           /\ TerminateThread' = [TerminateThread EXCEPT ![h] = empty]
           /\ IF empty THEN wpc' = "close" /\ wtag' = t /\ UNCHANGED left
              ELSE left' = left \ {t} /\ UNCHANGED <<wpc, wtag>>
    /\ UNCHANGED <<S7Plcs, state, sock, lockObj, tpc, group, pending, wgroup, flushing, device,
                   history>>

(* The destructor's S7_sockClose, without lockObj.                         *)
DestroyClose ==
    /\ wpc = "close"
    /\ sock' = [sock EXCEPT ![PlcOf(wtag)] = IF @ = "open" THEN "closed" ELSE @]
    /\ wpc' = "forget"
    /\ UNCHANGED <<S7Plcs, Tags, abandoned, state, TerminateThread, lockObj, tpc, group, pending,
                   wgroup, left, wtag, flushing, device, history>>

DestroyForget ==
    /\ wpc = "forget"
    /\ SockClose(PlcOf(wtag))
    /\ wpc' = "join"
    /\ UNCHANGED <<S7Plcs, Tags, abandoned, TerminateThread, lockObj, tpc, group, pending, wgroup,
                   left, wtag, flushing, device, history>>

DestroyJoin ==
    /\ wpc = "join" /\ tpc[PlcOf(wtag)] = "ended"
    /\ GoTo(PlcOf(wtag), "none")
    /\ S7Plcs' = RemoveAt(S7Plcs, Found(wtag))
    /\ left' = left \ {wtag}
    /\ wpc' = "destroy" /\ wtag' = NoValue
    /\ had' = [had EXCEPT ![PlcOf(wtag)] = FALSE]
    /\ UNCHANGED <<Tags, abandoned, state, sock, TerminateThread, lockObj, group, pending, wgroup,
                   flushing, device, wanted, refused>>

CleanupEnd ==
    /\ wpc = "destroy" /\ left = {}
    /\ LET gone == TagsOf(wgroup)
           Cleared(f) == [t \in S7Tags |-> IF t \in gone THEN NoValue ELSE f[t]]
       IN  /\ plc_tags' = plc_tags \ gone
           /\ created' = created \ gone
           /\ ready' = ready \ gone
           /\ pending' = Cleared(pending)
           /\ wanted' = Cleared(wanted)
           /\ refused' = [t \in S7Tags |-> refused[t] /\ t \notin gone]
    /\ has_error' = [has_error EXCEPT ![wgroup] = FALSE]
    /\ init_count' = [init_count EXCEPT ![wgroup] = 0]
    /\ wpc' = "idle"
    /\ UNCHANGED <<plcs, wgroup, left, wtag, flushing, device, had>>

Calls == \/ \E h \in Hosts : Register(h) \/ PollBegin(h) \/ CleanupBegin(h)
         \/ \E t \in S7Tags, v \in S7Values : Write(t, v)
Worker == \/ \E t \in S7Tags : PollCreate(t) \/ PollTag(t) \/ FlushTag(t) \/ DestroyTag(t)
          \/ PollFlush \/ FlushEnd \/ WorkerLock \/ WorkerExchange
          \/ DestroyClose \/ DestroyForget \/ DestroyJoin \/ CleanupEnd

Next == Calls \/ Worker \/ \E h \in Hosts : Thread(h)

Spec == Init /\ [][Next]_vars
(* The threads run, and exchanges come to an end.                          *)
FairSpec == Spec /\ WF_vars(Worker) /\ \A h \in Hosts : WF_vars(Thread(h))
---------------------------------------------------------------------------
(* A value that was written to a tag is in the PLC, unless it was refused, *)
(* or still waits to be sent: no loss of the connection in the middle of a *)
(* write, whatever of it was done, loses the value (S7_sendTag, retried by *)
(* FlushPendingWrites).                                                    *)
WritesReachPlc ==
    \A t \in S7Tags : wanted[t] # NoValue /\ ~refused[t] => wanted[t] \in {pending[t], device[t]}

(* A PLC object lives as long as it has tags: the cleanup that takes the   *)
(* last one ends its thread and removes it (S7_tag_destroy).               *)
KilledWhenEmpty ==
    wpc = "idle" => \A h \in Hosts : had[h] => IsMade(h) /\ (Tags[h] # {} \/ h \in abandoned)

(* init_count is the number of the group's initialized tags.               *)
InitCountExact == \A h \in Hosts : init_count[h] = Cardinality(ready \cap TagsOf(h))

(* A cleanup comes to an end: the destructor's join waits for a thread     *)
(* that may be in the middle of connecting again.                          *)
DestroyReturns == (wpc = "destroy") ~> (wpc = "idle")

(* "127 devices" (S7Com.cpp:125): the PLC found for a tag is the one it    *)
(* was registered with.                                                    *)
FoundInOwnPlc == wpc = "idle" => \A t \in created : PlcOf(t) = Owner(t)
=============================================================================
