----------------------------- MODULE Transports -----------------------------
(***************************************************************************)
(* A tag group is served by the transport of its protocol: the worker's    *)
(* polls, writes and cleanups of the group go to that transport and to no  *)
(* other (oip_comms.cpp: process_tag_group, process_write,                 *)
(* cleanup_tag_group).  The transports, each a module of its own, are put  *)
(* together here.  The S7 client is two of them, its memory (s7) and its   *)
(* connections (plcs), and the main thread's own client, with which it     *)
(* browses an OPC UA server, is one more (browse).                         *)
(***************************************************************************)
EXTENDS S7Addresses, RtdeFields, S7Devices, SoftPrograms

CONSTANTS SendsPartly, MaxSeq, MaxTrouble,  \* of RtdeSession
          Topics,                           \* of MqttSession
          OpcUaTags, ByUri, AdsTags,        \* of OpcUaSession and AdsSession
          Endpoints, NoEndpoint, MaxPages,  \* of BrowseSession
          MaxSessions                       \* of all that connect again

ASSUME BrowseAssumption == NoEndpoint \notin Endpoints /\ MaxPages \in Nat

VARIABLES
    protocol,
    (* s7 *)
    tags, Start, Quantity, Resized, size, image, linked, pc, start, quantity, i, before, aged,
    fails,
    (* plcs *)
    S7Plcs, Tags, abandoned, state, sock, TerminateThread, lockObj, tpc, plc_tags, created,
    ready, s7_error, s7_count, pending, wpc, wgroup, wleft, wtag, flushing, device, wanted,
    refused, had,
    (* rtde *)
    entries, has_error, init_count, socket_, recv_buf_, started, initialized, offset,
    output_payload, have_output_data, input_recipe_setup, input_payload, rpc, latest,
    wire, peer_closed, asked, streaming, seq, half, robot_in, cut,
    trouble, written, delivered, garbled,
    (* mqtt *)
    topics, subscribed, cached, mqtt_error, mqtt_count, mqtt_client, mqtt_session, broker,
    arriving, mqtt_pc, mqtt_left,
    (* opc_ua *)
    opc_ua_tags, ua_initialized, ua_read, sim_running, ua_error, ua_count,
    needs_session_recovered_signal, ua_client, alive, clients, resolved, invalid, ua_pc,
    ua_left, ua_tag, signalling,
    (* ads *)
    ads_tags, ads_initialized, ads_handle, ads_read, ads_error, ads_count, ads_client, ads_pc,
    ads_left, ads_tag,
    (* soft_plc *)
    soft_tags, value, is_input, is_output, program_source, handle, soft_initialized,
    last_phys_frame, soft_error, soft_pc, frame, seen, replaced, began, elapsed,
    (* browse *)
    browse_client, browse_endpoint, browse_session, browse_pc, continuation, results

S7 == INSTANCE S7Memory
Plcs == INSTANCE S7Plcs WITH has_error <- s7_error, init_count <- s7_count, left <- wleft
Rtde == INSTANCE RtdeSession
Mqtt == INSTANCE MqttSession WITH has_error <- mqtt_error, init_count <- mqtt_count,
            client <- mqtt_client, session <- mqtt_session, pc <- mqtt_pc, left <- mqtt_left
OpcUa == INSTANCE OpcUaSession WITH initialized <- ua_initialized, read <- ua_read,
             has_error <- ua_error, init_count <- ua_count, client <- ua_client, pc <- ua_pc,
             left <- ua_left, tag <- ua_tag
Ads == INSTANCE AdsSession WITH tags <- ads_tags, initialized <- ads_initialized,
           handle <- ads_handle, read <- ads_read, has_error <- ads_error,
           init_count <- ads_count, client <- ads_client, pc <- ads_pc, left <- ads_left,
           tag <- ads_tag
Soft == INSTANCE SoftPlc WITH tags <- soft_tags, initialized <- soft_initialized,
            has_error <- soft_error, pc <- soft_pc
Editor == INSTANCE BrowseSession WITH session <- browse_session, pc <- browse_pc

s7 == <<tags, Start, Quantity, Resized, size, image, linked, pc, start, quantity, i, before, aged,
        fails>>
plcs == <<S7Plcs, Tags, abandoned, state, sock, TerminateThread, lockObj, tpc, plc_tags, created,
          ready, s7_error, s7_count, pending, wpc, wgroup, wleft, wtag, flushing, device, wanted,
          refused, had>>
rtde == <<entries, has_error, init_count, socket_, recv_buf_, started, initialized, offset,
          output_payload, have_output_data, input_recipe_setup, input_payload, rpc, latest,
          wire, peer_closed, asked, streaming, seq, half, robot_in, cut,
          trouble, written, delivered, garbled>>
mqtt == <<topics, subscribed, cached, mqtt_error, mqtt_count, mqtt_client, mqtt_session, broker,
          arriving, mqtt_pc, mqtt_left>>
opc_ua == <<opc_ua_tags, ua_initialized, ua_read, sim_running, ua_error, ua_count,
            needs_session_recovered_signal, ua_client, alive, clients, resolved, invalid, ua_pc,
            ua_left, ua_tag, signalling>>
ads == <<ads_tags, ads_initialized, ads_handle, ads_read, ads_error, ads_count, ads_client, ads_pc,
         ads_left, ads_tag>>
soft_plc == <<soft_tags, value, is_input, is_output, program_source, handle, soft_initialized,
              last_phys_frame, soft_error, soft_pc, frame, seen, replaced, began, elapsed>>
browse == <<browse_client, browse_endpoint, browse_session, browse_pc, continuation, results>>
vars == <<protocol, s7, plcs, rtde, mqtt, opc_ua, ads, soft_plc, browse>>

Protocols == {"s7", "plcs", "rtde", "mqtt", "opc_ua", "ads", "soft_plc", "browse"}

Init == /\ protocol \in Protocols
        /\ S7!Init /\ Plcs!Init /\ Rtde!Init /\ Mqtt!Init /\ OpcUa!Init /\ Ads!Init
        /\ Soft!Init /\ Editor!Init
        /\ protocol # "rtde" => entries = {}

S7Only == UNCHANGED <<protocol, plcs, rtde, mqtt, opc_ua, ads, soft_plc, browse>>
PlcsOnly == UNCHANGED <<protocol, s7, rtde, mqtt, opc_ua, ads, soft_plc, browse>>
RtdeOnly == UNCHANGED <<protocol, s7, plcs, mqtt, opc_ua, ads, soft_plc, browse>>
MqttOnly == UNCHANGED <<protocol, s7, plcs, rtde, opc_ua, ads, soft_plc, browse>>
OpcUaOnly == UNCHANGED <<protocol, s7, plcs, rtde, mqtt, ads, soft_plc, browse>>
AdsOnly == UNCHANGED <<protocol, s7, plcs, rtde, mqtt, opc_ua, soft_plc, browse>>
SoftOnly == UNCHANGED <<protocol, s7, plcs, rtde, mqtt, opc_ua, ads, browse>>
EditorOnly == UNCHANGED <<protocol, s7, plcs, rtde, mqtt, opc_ua, ads, soft_plc>>

Next == \/ protocol = "s7" /\ S7!Next /\ S7Only
        \/ protocol = "plcs" /\ Plcs!Next /\ PlcsOnly
        \/ protocol = "rtde" /\ Rtde!Next /\ RtdeOnly
        \/ protocol = "mqtt" /\ Mqtt!Next /\ MqttOnly
        \/ protocol = "opc_ua" /\ OpcUa!Next /\ OpcUaOnly
        \/ protocol = "ads" /\ Ads!Next /\ AdsOnly
        \/ protocol = "soft_plc" /\ Soft!Next /\ SoftOnly
        \/ protocol = "browse" /\ Editor!Next /\ EditorOnly

(* Each transport's own fairness: that of its calls, and that of the       *)
(* threads which it has besides.  Of the disjuncts one is ever enabled.    *)
CallStep == \/ protocol = "s7" /\ S7!PollStep /\ S7Only
            \/ protocol = "plcs" /\ Plcs!Worker /\ PlcsOnly
            \/ protocol = "rtde" /\ (Rtde!Handshake \/ Rtde!PollStep) /\ RtdeOnly
            \/ protocol = "mqtt" /\ Mqtt!Worker /\ MqttOnly
            \/ protocol = "opc_ua" /\ OpcUa!Worker /\ OpcUaOnly
            \/ protocol = "ads" /\ Ads!Worker /\ AdsOnly
            \/ protocol = "soft_plc" /\ Soft!Worker /\ SoftOnly
            \/ protocol = "browse" /\ Editor!Step /\ EditorOnly
ThreadStep == \/ protocol = "plcs" /\ (\E h \in Hosts : Plcs!Thread(h)) /\ PlcsOnly
              \/ protocol = "mqtt" /\ Mqtt!Callback /\ MqttOnly

Spec == Init /\ [][Next]_vars
FairSpec == Spec /\ WF_vars(CallStep) /\ WF_vars(ThreadStep)
---------------------------------------------------------------------------
(* The types of every transport.                                           *)
TypeOK == /\ protocol \in Protocols
          /\ S7!TypeOK /\ Plcs!TypeOK /\ Rtde!TypeOK /\ Mqtt!TypeOK /\ OpcUa!TypeOK
          /\ Ads!TypeOK /\ Soft!TypeOK /\ Editor!TypeOK

(* The properties of S7Memory, stated and explained there.                 *)
CoveredSinceMove == S7!CoveredSinceMove
(* What is copied to the image of S7Memory, and what is read of it, are    *)
(* inside it and of the tag's own addresses, a moved start apart.          *)
ReadsOwnBytes == S7!CopyInImage /\ S7!ReadsOwnBytes
(* Every tag of S7Memory that did not fall out of the block is fetched.    *)
TagsFetched == S7!TagsFetched

(* A write to a tag of S7Plcs is not lost with its connection.             *)
WritesReachPlc == Plcs!WritesReachPlc

(* The properties of RtdeSession, stated and explained there.              *)
AnswersInStep == Rtde!FramesAligned /\ Rtde!AnswersInStep
(* A tag of RtdeSession lies where the controller puts it.                 *)
FieldsFound == Rtde!FieldsFound
(* The controller of RtdeSession has the inputs that were written.         *)
InputsAsWritten == Rtde!InputsAsWritten

(* The properties of SoftPlc, stated and explained there.                  *)
LastProgramRuns == Soft!LastProgramRuns
(* A part does not change an output of SoftPlc's program.                  *)
ProgramOwnsOutputs == Soft!ProgramOwnsOutputs
(* The program of SoftPlc is given the time of physics.                    *)
TimeIsPhysics == Soft!TimeIsPhysics

(* What the group of a transport knows of its peer is of the session that  *)
(* it has: subscriptions and values (MqttSession), node ids (OpcUaSession),*)
(* the children of a node (BrowseSession), as the code's comments have it. *)
OfThisSession == /\ Mqtt!SubscribedHere /\ Mqtt!ValuesOfThisSession
                 /\ OpcUa!NodeIdsOfThisSession /\ Editor!ResultsOfOneSession

(* How far a session that is given up is forgotten at least: no tag counts *)
(* as subscribed in it and no value is left of the session before it       *)
(* (MqttSession), no node id is left once it was invalidated               *)
(* (OpcUaSession), no page of children is joined to another session's      *)
(* (BrowseSession).                                                        *)
SessionsForgotten == /\ Mqtt!SubscribedHere /\ Mqtt!NoneOlderThanLast
                     /\ OpcUa!ReResolved /\ Editor!ResultsOfOneSession

(* Nothing that the group of a transport holds of its peer is held too     *)
(* long or given up too soon: sockets (RtdeSession), PLC objects (S7Plcs), *)
(* handles (AdsSession), the endpoint to come back to (BrowseSession).     *)
PeersHeld == /\ Rtde!NoSocketKept /\ Plcs!KilledWhenEmpty
             /\ Ads!HandlesOfDevice /\ Editor!EndpointSaved

(* The group of a transport counts its initialized tags once, however its  *)
(* sessions fail: on this count its tags are reported to be initialized.   *)
InitCountOnce == /\ Rtde!InitCountOnce /\ Plcs!InitCountExact /\ Mqtt!InitCountExact
                 /\ OpcUa!InitCountExact /\ Ads!InitCountExact

(* What is read after a poll is what that poll brought.                    *)
FreshAfterPoll == Rtde!FreshAfterPoll /\ OpcUa!FreshAfterPoll /\ Ads!FreshAfterPoll

(* Polls of RtdeSession, cleanups of S7Plcs and calls of BrowseSession     *)
(* come to an end.                                                         *)
RoundUnderWay == rpc # "idle" \/ wpc = "destroy" \/ browse_pc # "idle"
RoundsEnd == RoundUnderWay ~> (rpc = "idle" /\ wpc = "idle" /\ browse_pc = "idle")

(* A connection that has died is noticed and replaced, by the poll of an   *)
(* mqtt or an opc_ua group, unless the group fails or is stopped.          *)
Recovers == (Mqtt!Dead \/ OpcUa!Dead) ~> (Mqtt!Replaced /\ OpcUa!Replaced)
=============================================================================
