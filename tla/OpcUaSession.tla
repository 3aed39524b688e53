---------------------------- MODULE OpcUaSession ----------------------------
(***************************************************************************)
(* A tag group of protocol opc_ua (oip_comms.cpp: process_opc_ua_tag_group,*)
(* init_opc_ua_client, init_opc_ua_tag, invalidate_opc_ua_session,         *)
(* opc_write, with the part of process() that announces a recovery and     *)
(* the part of read_* that finds a type mismatch).                         *)
(*                                                                         *)
(* A session may die on the server's side: a request then fails with one   *)
(* of the codes of opc_ua_status_indicates_dead_session, unless the client *)
(* has noticed before (its status is then no longer good).  A call of the  *)
(* worker that asks the server something is a step.                        *)
(***************************************************************************)
EXTENDS Naturals, FiniteSets

CONSTANTS OpcUaTags,    \* names of the group's tags
          ByUri,        \* those with a namespace URI, which the server resolves
          MaxSessions   \* bound on connections

VARIABLES
    opc_ua_tags, initialized, \* registered tags; those with a node id
    read,                     \* tags whose value was read in the last poll
    sim_running,
    has_error, init_count, needs_session_recovered_signal,
    client,                   \* "none", "good", or "bad": the status it knows of
    alive,                    \* whether the server has its session
    clients,                  \* connections so far
    resolved,                 \* of each tag, the connection it was resolved in
    invalid,                  \* the last connection whose death invalidated the tags
    pc, left, tag,            \* the worker: where it is, tags left, the tag at hand
    signalling                \* process() has emitted, and will clear the flag

flags == <<has_error, init_count, needs_session_recovered_signal>>
server == <<client, alive, clients>>
worker == <<pc, left, tag>>
vars == <<opc_ua_tags, initialized, read, sim_running, flags, server, resolved, invalid, worker,
          signalling>>

TypeOK == /\ opc_ua_tags \subseteq OpcUaTags /\ initialized \subseteq opc_ua_tags
          /\ read \subseteq OpcUaTags
          /\ sim_running \in BOOLEAN /\ has_error \in BOOLEAN /\ alive \in BOOLEAN
          /\ needs_session_recovered_signal \in BOOLEAN /\ signalling \in BOOLEAN
          /\ init_count \in Nat
          /\ client \in {"none", "good", "bad"} /\ clients \in Nat
          /\ resolved \in [OpcUaTags -> 0 .. clients] /\ invalid \in 0 .. clients
          /\ pc \in {"idle", "connect", "tags", "read", "write"}
          /\ left \subseteq OpcUaTags
          /\ pc \in {"read", "write"} => tag \in OpcUaTags

Init == /\ opc_ua_tags = OpcUaTags /\ initialized = {} /\ read = {}
        /\ sim_running = TRUE
        /\ has_error = FALSE /\ init_count = 0 /\ needs_session_recovered_signal = FALSE
        /\ client = "none" /\ alive = FALSE /\ clients = 0
        /\ resolved = [t \in OpcUaTags |-> 0] /\ invalid = 0
        /\ pc = "idle" /\ left = {} /\ tag = (CHOOSE t \in OpcUaTags : TRUE) /\ signalling = FALSE
---------------------------------------------------------------------------
(* The worker                                                              *)

Poll ==
    /\ pc = "idle" /\ sim_running /\ ~has_error /\ opc_ua_tags # {}
    /\ IF client = "good" THEN pc' = "tags" /\ left' = opc_ua_tags
       ELSE pc' = "connect" /\ UNCHANGED left
    /\ read' = {}
    /\ UNCHANGED <<opc_ua_tags, initialized, sim_running, flags, server, resolved, invalid, tag,
                   signalling>>

(* init_opc_ua_client: tags that have a node id keep it.                   *)
Connect ==
    /\ pc = "connect"
    /\ \/ /\ clients < MaxSessions /\ clients' = clients + 1
          /\ client' = "good" /\ alive' = TRUE
          /\ pc' = "tags" /\ left' = opc_ua_tags
       \/ /\ client' = "none" /\ alive' = FALSE /\ UNCHANGED clients
          /\ pc' = "idle" /\ UNCHANGED left
    /\ UNCHANGED <<opc_ua_tags, initialized, read, sim_running, flags, resolved, invalid, tag,
                   signalling>>

(* A tag or a read that is no good stops the simulation.                   *)
StopSimulation == /\ sim_running' = FALSE
                  /\ pc' = "idle" /\ left' = {}

(* init_opc_ua_tag: the server is asked for the index of a namespace URI.  *)
InitTag(t) ==
    /\ pc = "tags" /\ t \in left /\ t \notin initialized
    /\ \/ /\ t \in ByUri => alive
          /\ initialized' = initialized \cup {t}
          /\ init_count' = init_count + 1
          /\ resolved' = [resolved EXCEPT ![t] = clients]
          /\ pc' = "read" /\ tag' = t /\ left' = left \ {t}
          /\ UNCHANGED sim_running
       \/ /\ StopSimulation
          /\ UNCHANGED <<initialized, init_count, resolved, tag>>
    /\ UNCHANGED <<opc_ua_tags, read, has_error, needs_session_recovered_signal, server, invalid,
                   signalling>>

NextTag(t) ==
    /\ pc = "tags" /\ t \in left \cap initialized
    /\ pc' = "read" /\ tag' = t /\ left' = left \ {t}
    /\ UNCHANGED <<opc_ua_tags, initialized, read, sim_running, flags, server, resolved, invalid,
                   signalling>>

(* invalidate_opc_ua_session                                               *)
Invalidate ==
    /\ client' = "none" /\ alive' = FALSE
    /\ initialized' = {}
    /\ init_count' = 0 /\ has_error' = FALSE
    /\ needs_session_recovered_signal' = TRUE
    /\ invalid' = clients
    /\ pc' = "idle" /\ left' = {}

ReadTag ==
    /\ pc = "read"
    /\ \/ /\ alive
          /\ read' = read \cup {tag} /\ pc' = "tags"
          /\ UNCHANGED <<initialized, sim_running, flags, server, invalid, left>>
       \/ /\ ~alive /\ Invalidate
          /\ UNCHANGED <<read, sim_running, clients>>
       \/ /\ StopSimulation
          /\ UNCHANGED <<initialized, read, flags, server, invalid>>
    /\ UNCHANGED <<opc_ua_tags, resolved, tag, signalling>>

PollEnd == /\ pc = "tags" /\ left = {}
           /\ pc' = "idle"
           /\ UNCHANGED <<opc_ua_tags, initialized, read, sim_running, flags, server, resolved,
                          invalid, left, tag, signalling>>

(* opc_tag_set_* and opc_write: the value is put in the tag, then sent.    *)
Write(t) ==
    /\ pc = "idle" /\ client = "good" /\ t \in initialized
    /\ pc' = "write" /\ tag' = t
    /\ UNCHANGED <<opc_ua_tags, initialized, read, sim_running, flags, server, resolved, invalid,
                   left, signalling>>

WriteTag ==
    /\ pc = "write"
    /\ IF alive THEN /\ pc' = "idle"
                     /\ UNCHANGED <<initialized, flags, client, alive, invalid, left>>
       ELSE Invalidate
    /\ UNCHANGED <<opc_ua_tags, read, sim_running, clients, resolved, tag, signalling>>

(* cleanup_tag_group, once the simulation has been stopped.                *)
Cleanup ==
    /\ pc = "idle" /\ ~sim_running /\ opc_ua_tags # {}
    /\ client' = "none" /\ alive' = FALSE
    /\ opc_ua_tags' = {} /\ initialized' = {} /\ read' = {}
    /\ init_count' = 0 /\ has_error' = FALSE /\ needs_session_recovered_signal' = FALSE
    /\ UNCHANGED <<sim_running, clients, resolved, invalid, worker, signalling>>
---------------------------------------------------------------------------
(* The server and the main thread                                          *)

SessionDies == /\ alive /\ alive' = FALSE
               /\ UNCHANGED <<opc_ua_tags, initialized, read, sim_running, flags, client, clients,
                              resolved, invalid, worker, signalling>>

(* The client's own status is no longer good.                              *)
Noticed == /\ client = "good" /\ ~alive /\ client' = "bad"
           /\ UNCHANGED <<opc_ua_tags, initialized, read, sim_running, flags, alive, clients,
                          resolved, invalid, worker, signalling>>

(* process() announces the recovery, and then clears the flag.             *)
Announce == /\ sim_running /\ ~signalling
            /\ needs_session_recovered_signal /\ init_count >= Cardinality(opc_ua_tags)
            /\ signalling' = TRUE
            /\ UNCHANGED <<opc_ua_tags, initialized, read, sim_running, flags, server, resolved,
                           invalid, worker>>

Announced == /\ signalling /\ signalling' = FALSE
             /\ needs_session_recovered_signal' = FALSE
             /\ UNCHANGED <<opc_ua_tags, initialized, read, sim_running, has_error, init_count,
                            server, resolved, invalid, worker>>

(* read_* of a type that is not the tag's: it has a value of its own once  *)
(* the server was asked for it.                                            *)
Mismatch(t) == /\ sim_running /\ t \in initialized /\ ~has_error
               /\ pc = "read" => tag # t
               /\ has_error' = TRUE
               /\ UNCHANGED <<opc_ua_tags, initialized, read, sim_running, init_count,
                              needs_session_recovered_signal, server, resolved, invalid, worker,
                              signalling>>

(* The simulation stops, or starts again with the tags registered anew.    *)
set_sim_running(value) ==
    /\ sim_running = ~value /\ ~signalling /\ sim_running' = value
    /\ IF value THEN pc = "idle" /\ opc_ua_tags = {} /\ opc_ua_tags' = OpcUaTags
       ELSE UNCHANGED opc_ua_tags
    /\ UNCHANGED <<initialized, read, flags, server, resolved, invalid, worker, signalling>>

Worker == \/ Poll \/ Connect \/ ReadTag \/ PollEnd \/ WriteTag \/ Cleanup
          \/ \E t \in OpcUaTags : InitTag(t) \/ NextTag(t)
Main == \/ Announce \/ Announced
        \/ \E t \in OpcUaTags : Write(t) \/ Mismatch(t)
        \/ \E value \in BOOLEAN : set_sim_running(value)
Next == Worker \/ Main \/ SessionDies \/ Noticed

Spec == Init /\ [][Next]_vars
(* The group is polled, calls return, and a stop is cleaned up.            *)
FairSpec == Spec /\ WF_vars(Worker)
---------------------------------------------------------------------------
(* "tags will be re-resolved on reconnect" (1048): with a client whose     *)
(* connection is good, every node id was resolved in that connection.      *)
NodeIdsOfThisSession == client = "good" => \A t \in initialized : resolved[t] = clients

(* After a session has been invalidated, no tag is read or written by a    *)
(* node id that was resolved in that session or before, whether or not the *)
(* sessions between were invalidated.                                      *)
ReResolved == \A t \in initialized : resolved[t] > invalid

(* init_count is the number of initialized tags, whatever fails and        *)
(* whenever the session is invalidated.                                    *)
InitCountExact == init_count = Cardinality(initialized)

(* A poll that comes to its end leaves every tag of the group initialized, *)
(* with a value that this poll has read.                                   *)
FreshAfterPoll == pc = "tags" => opc_ua_tags \ left \subseteq initialized \cap read

(* A session that is dead is given up: the next request or poll finds out, *)
(* unless the group has failed or the simulation stops.                    *)
Dead == client # "none" /\ ~alive
Replaced == client = "none" \/ alive \/ has_error \/ ~sim_running
DeadSessionReplaced == Dead ~> Replaced
=============================================================================
