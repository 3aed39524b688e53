--------------------------- MODULE Sessions_proofs ---------------------------
(***************************************************************************)
(* Proofs about the transports whose groups have a session with a peer, or *)
(* a program to run: SoftPlc, MqttSession, OpcUaSession, AdsSession,       *)
(* BrowseSession, S7Plcs and S7Memory, as parts of Transports; then the    *)
(* properties that Transports asks of several of them at once, and their   *)
(* types.                                                                  *)
(***************************************************************************)
EXTENDS RtdeSession_proofs

(***************************************************************************)
(* SoftPlc.  The program that was compiled is the one set last as long as  *)
(* nothing was set since the compilation began; no program is running      *)
(* while one is compiled.                                                  *)
(***************************************************************************)
ProgramInv == /\ Soft!LastProgramRuns
              /\ soft_pc = "compiled" => ~soft_initialized
              /\ soft_pc = "compiled" /\ ~replaced => handle = program_source

LEMMA NextProgramInv == ASSUME ProgramInv, [Soft!Next]_(Soft!vars) PROVE ProgramInv'
<1> USE DEF ProgramInv, Soft!LastProgramRuns
<1>1. ASSUME NEW p \in Programs, Soft!set_soft_plc_program(p) PROVE ProgramInv'
  BY <1>1 DEF Soft!set_soft_plc_program
<1>2. CASE Soft!Poll
  BY <1>2 DEF Soft!Poll
<1>3. CASE Soft!Mark
  BY <1>3 DEF Soft!Mark
<1>4. CASE Soft!Scan
  BY <1>4 DEF Soft!Scan
<1>5. CASE Soft!Cleanup
  BY <1>5 DEF Soft!Cleanup
<1>6. ASSUME NEW t \in PlcTags, Soft!register_tag(t) \/ Soft!Write(t) PROVE ProgramInv'
  BY <1>6 DEF Soft!register_tag, Soft!Write, Soft!history
<1>7. CASE Soft!PhysicsFrame
  BY <1>7 DEF Soft!PhysicsFrame, Soft!history
<1>8. CASE UNCHANGED Soft!vars
  BY <1>8 DEF Soft!vars, Soft!history
<1> QED
  BY <1>1, <1>2, <1>3, <1>4, <1>5, <1>6, <1>7, <1>8 DEF Soft!Next, Soft!Worker

(* "recompile on next poll": for all programs, tags and interleavings, the *)
(* program that runs is the one set last, unless that came in the middle   *)
(* of a compilation.                                                       *)
THEOREM SoftLastProgramRuns == Spec => []LastProgramRuns
<1>1. Init => ProgramInv
  BY DEF Init, Soft!Init, ProgramInv, Soft!LastProgramRuns
<1>2. ProgramInv /\ [Soft!Next]_(Soft!vars) => ProgramInv'
  BY NextProgramInv
<1>3. ProgramInv => LastProgramRuns
  BY DEF ProgramInv, LastProgramRuns
<1> QED
  BY <1>1, <1>2, <1>3, SoftStep, PTL DEF Spec
---------------------------------------------------------------------------
(* The time given to a program, between its first scan and now.            *)
TimeInv == /\ frame \in Nat \ {0} /\ last_phys_frame \in Nat /\ began \in Nat /\ elapsed \in Nat
           /\ last_phys_frame = 0 => elapsed = 0
           /\ last_phys_frame > 0 => began <= last_phys_frame /\ last_phys_frame <= frame
           /\ last_phys_frame > 0 => elapsed = Nominal + (last_phys_frame - began)

LEMMA NextTimeInv == ASSUME TimeInv, [Soft!Next]_(Soft!vars) PROVE TimeInv'
<1> USE SoftPlcAssumption DEF TimeInv, SoftPlcAssumption
<1>1. CASE Soft!Scan
  <2>1. /\ last_phys_frame' = frame /\ frame' = frame
        /\ elapsed' = elapsed + (IF last_phys_frame = 0 THEN Nominal ELSE frame - last_phys_frame)
        /\ began' = IF last_phys_frame = 0 THEN frame ELSE began
    BY <1>1 DEF Soft!Scan, Soft!dt
  <2>2. CASE last_phys_frame = 0
    BY <2>1, <2>2
  <2>3. CASE last_phys_frame # 0
    BY <2>1, <2>3
  <2> QED
    BY <2>2, <2>3
<1>2. CASE Soft!PhysicsFrame
  BY <1>2 DEF Soft!PhysicsFrame, Soft!history
<1>3. CASE Soft!Mark
  BY <1>3 DEF Soft!Mark
<1>4. CASE Soft!Cleanup
  BY <1>4 DEF Soft!Cleanup
<1>5. CASE Soft!Poll
  BY <1>5 DEF Soft!Poll
<1>6. ASSUME NEW t \in PlcTags, Soft!register_tag(t) \/ Soft!Write(t) PROVE TimeInv'
  BY <1>6 DEF Soft!register_tag, Soft!Write, Soft!history
<1>7. ASSUME NEW p \in Programs, Soft!set_soft_plc_program(p) PROVE TimeInv'
  BY <1>7 DEF Soft!set_soft_plc_program
<1>8. CASE UNCHANGED Soft!vars
  BY <1>8 DEF Soft!vars, Soft!history
<1> QED
  BY <1>1, <1>2, <1>3, <1>4, <1>5, <1>6, <1>7, <1>8 DEF Soft!Next, Soft!Worker

(* The times of a program, whatever step comes.                            *)
THEOREM TimeInvariant == Spec => []TimeInv
<1>1. Init => TimeInv
  BY DEF Init, Soft!Init, TimeInv
<1>2. TimeInv /\ [Soft!Next]_(Soft!vars) => TimeInv'
  BY NextTimeInv
<1> QED
  BY <1>1, <1>2, SoftStep, PTL DEF Spec

(* "Advance the engine by SIMULATION time": however scans and physics      *)
(* frames interleave, the intervals given to the program add up.           *)
THEOREM SoftTimeIsPhysics == Spec => []TimeIsPhysics
<1>1. TimeInv => TimeIsPhysics
  BY DEF TimeInv, TimeIsPhysics, Soft!TimeIsPhysics
<1> QED
  BY <1>1, TimeInvariant, PTL
---------------------------------------------------------------------------
(* The outputs that a running program has among the tags of its time are   *)
(* marked, so that only its scans write them.                              *)
Driven == seen \cap ProgramOutputs[handle]
OutputsInv == /\ value \in [PlcTags -> {"none", "part", "program"}]
              /\ soft_tags \subseteq PlcTags /\ seen \subseteq soft_tags
              /\ soft_pc \in {"idle", "compiled", "scan"}
              /\ soft_pc = "compiled" => ~soft_initialized
              /\ soft_initialized => Driven \subseteq is_output
              /\ soft_pc = "idle" /\ soft_initialized => \A t \in Driven : value[t] = "program"

LEMMA NextOutputsInv == ASSUME OutputsInv, [Soft!Next]_(Soft!vars) PROVE OutputsInv'
<1> USE DEF OutputsInv, Driven
<1>1. CASE Soft!Scan
  BY <1>1 DEF Soft!Scan, Soft!io
<1>2. CASE Soft!PhysicsFrame
  BY <1>2 DEF Soft!PhysicsFrame, Soft!history, Soft!io
<1>3. CASE Soft!Mark
  BY <1>3 DEF Soft!Mark
<1>4. CASE Soft!Cleanup
  BY <1>4 DEF Soft!Cleanup
<1>5. CASE Soft!Poll
  BY <1>5 DEF Soft!Poll, Soft!io
<1>6. ASSUME NEW t \in PlcTags, Soft!register_tag(t) PROVE OutputsInv'
  BY <1>6 DEF Soft!register_tag, Soft!history, Soft!io
<1>7. ASSUME NEW t \in PlcTags, Soft!Write(t) PROVE OutputsInv'
  BY <1>7 DEF Soft!Write, Soft!MayWrite, Soft!io
<1>8. ASSUME NEW p \in Programs, Soft!set_soft_plc_program(p) PROVE OutputsInv'
  BY <1>8 DEF Soft!set_soft_plc_program, Soft!io
<1>9. CASE UNCHANGED Soft!vars
  BY <1>9 DEF Soft!vars, Soft!history, Soft!io
<1> QED
  BY <1>1, <1>2, <1>3, <1>4, <1>5, <1>6, <1>7, <1>8, <1>9 DEF Soft!Next, Soft!Worker

(* "a part may write PLC inputs, never PLC outputs": whatever programs are *)
(* set and whatever parts write, an output of the running program has the  *)
(* value that the program gave it.                                         *)
THEOREM SoftProgramOwnsOutputs == Spec => []ProgramOwnsOutputs
<1>1. Init => OutputsInv
  BY DEF Init, Soft!Init, OutputsInv, Driven
<1>2. OutputsInv /\ [Soft!Next]_(Soft!vars) => OutputsInv'
  BY NextOutputsInv
<1>3. OutputsInv => ProgramOwnsOutputs
  BY DEF OutputsInv, Driven, ProgramOwnsOutputs, Soft!ProgramOwnsOutputs
<1> QED
  BY <1>1, <1>2, <1>3, SoftStep, PTL DEF Spec
(***************************************************************************)
(* MqttSession.  The message under way is of the last session, as a client *)
(* is destroyed only after its callbacks; so what is cached when a session *)
(* begins is of the last one, the poll having reset what was there before. *)
(***************************************************************************)
MqttInv == /\ topics \subseteq Topics /\ subscribed \subseteq topics
           /\ IsFiniteSet(topics)
           /\ mqtt_session \in Nat /\ cached \in [Topics -> Nat]
           /\ mqtt_client = "up" => subscribed \subseteq broker
           /\ mqtt_pc \in {"connect", "subscribe", "idle", "destroy"}
           /\ mqtt_pc = "connect" => subscribed = {}
           /\ mqtt_pc = "subscribe" => mqtt_left \subseteq topics \ subscribed
           /\ \A m \in arriving : m = <<m[1], mqtt_session>>
           /\ \A t \in Topics : cached[t] # 0 =>
                  cached[t] >= IF mqtt_pc = "connect" THEN mqtt_session ELSE mqtt_session - 1
           /\ mqtt_count = Cardinality(subscribed)

LEMMA SubscribeMqttInv ==
    ASSUME MqttInv, NEW t \in Topics, Mqtt!Subscribe(t)
    PROVE  MqttInv'
<1> USE DEF MqttInv
<1>1. t \in topics \ subscribed
  BY DEF Mqtt!Subscribe
<1>2. /\ IsFiniteSet(subscribed)
      /\ Cardinality(subscribed \cup {t}) = Cardinality(subscribed) + 1
  BY <1>1, FS_Subset, FS_AddElement
<1> QED
  BY <1>1, <1>2 DEF Mqtt!Subscribe

LEMMA NextMqttInv == ASSUME MqttInv, [Mqtt!Next]_(Mqtt!vars) PROVE MqttInv'
<1>1. ASSUME NEW t \in Topics, Mqtt!Subscribe(t) PROVE MqttInv'
  BY <1>1, SubscribeMqttInv
<1> USE DEF MqttInv
<1>2. CASE Mqtt!Poll
  <2>1. CASE mqtt_client = "up"
    BY <1>2, <2>1 DEF Mqtt!Poll, Mqtt!MQTTClient_isConnected
  <2>2. CASE mqtt_client # "up"
    <3>1. /\ mqtt_pc' = "connect" /\ subscribed' = {} /\ mqtt_count' = 0
          /\ cached' = [t \in Topics |-> 0]
          /\ UNCHANGED <<topics, mqtt_client, mqtt_session, broker, arriving, mqtt_left>>
      BY <1>2, <2>2 DEF Mqtt!Poll, Mqtt!Forget, Mqtt!MQTTClient_isConnected
    <3>2. Cardinality(subscribed') = 0
      BY <3>1, FS_EmptySet
    <3> QED
      BY <2>2, <3>1, <3>2
  <2> QED
    BY <2>1, <2>2
<1>3. CASE Mqtt!Connect
  <2>1. /\ mqtt_pc = "connect" /\ subscribed' = subscribed /\ subscribed = {}
        /\ UNCHANGED <<topics, mqtt_count, cached, arriving>> /\ arriving = {}
    BY <1>3 DEF Mqtt!Connect, Mqtt!group
  <2>2. CASE mqtt_client' = "up" /\ mqtt_session' = mqtt_session + 1
             /\ mqtt_pc' = "subscribe" /\ mqtt_left' = topics
    <3>1. mqtt_session' \in Nat /\ mqtt_session' - 1 = mqtt_session
      BY <2>2
    <3>2. \A t \in Topics : cached[t] # 0 => cached[t] >= mqtt_session
      BY <2>1
    <3>3. \A t \in Topics : cached'[t] # 0 => cached'[t] >= mqtt_session' - 1
      BY <2>1, <3>1, <3>2
    <3>4. \A m \in arriving' : m = <<m[1], mqtt_session'>>
      BY <2>1
    <3> QED
      BY <2>1, <2>2, <3>1, <3>3, <3>4
  <2>3. CASE mqtt_client' = "none" /\ mqtt_pc' = "idle" /\ mqtt_session' = mqtt_session
    BY <2>1, <2>3
  <2>4. \/ /\ mqtt_client' = "up" /\ mqtt_session' = mqtt_session + 1
           /\ mqtt_pc' = "subscribe" /\ mqtt_left' = topics
        \/ mqtt_client' = "none" /\ mqtt_pc' = "idle" /\ mqtt_session' = mqtt_session
    BY <1>3 DEF Mqtt!Connect
  <2> QED
    BY <2>2, <2>3, <2>4
<1>4. CASE Mqtt!PollEnd
  BY <1>4 DEF Mqtt!PollEnd, Mqtt!group
<1>5. CASE Mqtt!Destroy
  BY <1>5, FS_EmptySet DEF Mqtt!Destroy
<1>6. CASE Mqtt!Cleanup
  BY <1>6 DEF Mqtt!Cleanup, Mqtt!group
<1>7. CASE Mqtt!LinkDown
  BY <1>7 DEF Mqtt!LinkDown, Mqtt!group
<1>8. ASSUME NEW t \in Topics, Mqtt!register_tag(t) PROVE MqttInv'
  BY <1>8, FS_AddElement DEF Mqtt!register_tag
<1>9. ASSUME NEW t \in Topics, Mqtt!Message(t) PROVE MqttInv'
  BY <1>9 DEF Mqtt!Message, Mqtt!group
<1>10. ASSUME NEW m \in arriving, Mqtt!mqtt_message_arrived(m) PROVE MqttInv'
  <2>1. m[2] = mqtt_session
    OBVIOUS
  <2> QED
    BY <1>10, <2>1 DEF Mqtt!mqtt_message_arrived, Mqtt!group
<1>11. CASE UNCHANGED Mqtt!vars
  BY <1>11 DEF Mqtt!vars, Mqtt!group
<1> QED
  BY <1>1, <1>2, <1>3, <1>4, <1>5, <1>6, <1>7, <1>8, <1>9, <1>10, <1>11
  DEF Mqtt!Next, Mqtt!Worker, Mqtt!Callback

(* The values and subscriptions of a group, whatever step comes.           *)
THEOREM MqttInvariant == Spec => []MqttInv
<1>1. Init => MqttInv
  BY FS_EmptySet DEF Init, Mqtt!Init, MqttInv
<1>2. MqttInv /\ [Mqtt!Next]_(Mqtt!vars) => MqttInv'
  BY NextMqttInv
<1> QED
  BY <1>1, <1>2, MqttStep, PTL DEF Spec

(* Subscriptions are of the session there is, values of it or of the last  *)
(* one, and the tags are counted once, for any number of topics, sessions  *)
(* and messages.                                                           *)
THEOREM MqttOfThisSession ==
    Spec => [](Mqtt!SubscribedHere /\ Mqtt!NoneOlderThanLast /\ Mqtt!InitCountExact)
<1>1. MqttInv => Mqtt!SubscribedHere /\ Mqtt!NoneOlderThanLast /\ Mqtt!InitCountExact
  BY DEF MqttInv, Mqtt!SubscribedHere, Mqtt!NoneOlderThanLast, Mqtt!InitCountExact,
         Mqtt!Cardinality, Cardinality
<1> QED
  BY <1>1, MqttInvariant, PTL
---------------------------------------------------------------------------
(***************************************************************************)
(* OpcUaSession.  Whoever has a client has connected since the last        *)
(* invalidation, so that what is resolved now is resolved after it; and a  *)
(* poll leaves no tag behind it that it has not read.                      *)
(***************************************************************************)
OpcUaInv == /\ ua_initialized \subseteq opc_ua_tags /\ IsFiniteSet(ua_initialized)
            /\ opc_ua_tags \subseteq OpcUaTags
            /\ clients \in Nat /\ invalid \in Nat /\ invalid <= clients
            /\ resolved \in [OpcUaTags -> Nat]
            /\ ua_pc \in {"idle", "connect", "tags", "read", "write"}
            /\ ua_client # "none" => clients > invalid
            /\ ua_pc \in {"tags", "read", "write"} => ua_client # "none"
            /\ ua_pc \in {"tags", "read"} => ua_left \subseteq opc_ua_tags
            /\ OpcUa!ReResolved
            /\ OpcUa!FreshAfterPoll
            /\ ua_pc = "read" => /\ ua_tag \in ua_initialized
                                 /\ opc_ua_tags \ (ua_left \cup {ua_tag})
                                        \subseteq ua_initialized \cap ua_read
            /\ ua_count = Cardinality(ua_initialized)

LEMMA InvalidateOpcUaInv ==
    ASSUME OpcUaInv, OpcUa!Invalidate,
           UNCHANGED <<opc_ua_tags, clients, resolved>>
    PROVE  OpcUaInv'
<1>1. IsFiniteSet({}) /\ Cardinality({}) = 0
  BY FS_EmptySet
<1> QED
  BY <1>1 DEF OpcUaInv, OpcUa!Invalidate, OpcUa!ReResolved, OpcUa!FreshAfterPoll

LEMMA InitTagOpcUaInv ==
    ASSUME OpcUaInv, NEW t \in OpcUaTags, OpcUa!InitTag(t)
    PROVE  OpcUaInv'
<1> USE DEF OpcUaInv, OpcUa!ReResolved, OpcUa!FreshAfterPoll
<1>1. ua_pc = "tags" /\ t \in ua_left /\ t \notin ua_initialized /\ clients > invalid
  BY DEF OpcUa!InitTag
<1>2. CASE OpcUa!StopSimulation /\ UNCHANGED <<ua_initialized, ua_count, resolved, ua_tag>>
  BY <1>2 DEF OpcUa!InitTag, OpcUa!StopSimulation, OpcUa!server
<1>3. CASE /\ ua_initialized' = ua_initialized \cup {t} /\ ua_count' = ua_count + 1
           /\ resolved' = [resolved EXCEPT ![t] = clients]
           /\ ua_pc' = "read" /\ ua_tag' = t /\ ua_left' = ua_left \ {t}
  <2>1. /\ IsFiniteSet(ua_initialized')
        /\ Cardinality(ua_initialized') = Cardinality(ua_initialized) + 1
    BY <1>1, <1>3, FS_AddElement
  <2>2. UNCHANGED <<opc_ua_tags, ua_read, clients, ua_client, invalid>>
    BY DEF OpcUa!InitTag, OpcUa!server
  <2>3. resolved' \in [OpcUaTags -> Nat] /\ \A u \in ua_initialized' : resolved'[u] > invalid'
    BY <1>1, <1>3, <2>2
  <2> QED
    BY <1>1, <1>3, <2>1, <2>2, <2>3
<1> QED
  BY <1>2, <1>3 DEF OpcUa!InitTag

LEMMA ReadTagOpcUaInv == ASSUME OpcUaInv, OpcUa!ReadTag PROVE OpcUaInv'
<1>1. CASE OpcUa!Invalidate /\ UNCHANGED <<ua_read, sim_running, clients>>
  BY <1>1, InvalidateOpcUaInv DEF OpcUa!ReadTag
<1> USE DEF OpcUaInv, OpcUa!ReResolved, OpcUa!FreshAfterPoll
<1>2. CASE /\ ua_read' = ua_read \cup {ua_tag} /\ ua_pc' = "tags"
           /\ UNCHANGED <<ua_initialized, sim_running, OpcUa!flags, OpcUa!server, invalid, ua_left>>
  BY <1>2 DEF OpcUa!ReadTag, OpcUa!flags, OpcUa!server
<1>3. CASE /\ OpcUa!StopSimulation
           /\ UNCHANGED <<ua_initialized, ua_read, OpcUa!flags, OpcUa!server, invalid>>
  BY <1>3 DEF OpcUa!ReadTag, OpcUa!StopSimulation, OpcUa!flags, OpcUa!server
<1> QED
  BY <1>1, <1>2, <1>3 DEF OpcUa!ReadTag

LEMMA WriteTagOpcUaInv == ASSUME OpcUaInv, OpcUa!WriteTag PROVE OpcUaInv'
<1>1. CASE alive
  BY <1>1 DEF OpcUa!WriteTag, OpcUa!flags, OpcUaInv, OpcUa!ReResolved, OpcUa!FreshAfterPoll
<1>2. CASE ~alive
  BY <1>2, InvalidateOpcUaInv DEF OpcUa!WriteTag
<1> QED
  BY <1>1, <1>2

LEMMA CleanupOpcUaInv == ASSUME OpcUaInv, OpcUa!Cleanup PROVE OpcUaInv'
<1>1. IsFiniteSet({}) /\ Cardinality({}) = 0
  BY FS_EmptySet
<1> QED
  BY <1>1 DEF OpcUa!Cleanup, OpcUa!worker, OpcUaInv, OpcUa!ReResolved, OpcUa!FreshAfterPoll

LEMMA NextOpcUaInv == ASSUME OpcUaInv, [OpcUa!Next]_(OpcUa!vars) PROVE OpcUaInv'
<1>1. ASSUME OpcUa!ReadTag \/ OpcUa!WriteTag \/ OpcUa!Cleanup PROVE OpcUaInv'
  BY <1>1, ReadTagOpcUaInv, WriteTagOpcUaInv, CleanupOpcUaInv
<1>2. ASSUME NEW t \in OpcUaTags, OpcUa!InitTag(t) PROVE OpcUaInv'
  BY <1>2, InitTagOpcUaInv
<1> USE DEF OpcUaInv, OpcUa!ReResolved, OpcUa!FreshAfterPoll
<1>3. CASE OpcUa!Poll
  BY <1>3 DEF OpcUa!Poll, OpcUa!flags, OpcUa!server
<1>4. CASE OpcUa!Connect
  BY <1>4 DEF OpcUa!Connect, OpcUa!flags
<1>5. CASE OpcUa!PollEnd
  BY <1>5 DEF OpcUa!PollEnd, OpcUa!flags, OpcUa!server
<1>6. ASSUME NEW t \in OpcUaTags, OpcUa!NextTag(t) PROVE OpcUaInv'
  BY <1>6 DEF OpcUa!NextTag, OpcUa!flags, OpcUa!server
<1>7. CASE OpcUa!Announce \/ OpcUa!Announced
  BY <1>7 DEF OpcUa!Announce, OpcUa!Announced, OpcUa!flags, OpcUa!server, OpcUa!worker
<1>8. ASSUME NEW t \in OpcUaTags, OpcUa!Write(t) \/ OpcUa!Mismatch(t) PROVE OpcUaInv'
  BY <1>8 DEF OpcUa!Write, OpcUa!Mismatch, OpcUa!flags, OpcUa!server, OpcUa!worker
<1>9. ASSUME NEW on \in BOOLEAN, OpcUa!set_sim_running(on) PROVE OpcUaInv'
  BY <1>9 DEF OpcUa!set_sim_running, OpcUa!flags, OpcUa!server, OpcUa!worker
<1>10. CASE OpcUa!SessionDies \/ OpcUa!Noticed
  BY <1>10 DEF OpcUa!SessionDies, OpcUa!Noticed, OpcUa!flags, OpcUa!worker
<1>11. CASE UNCHANGED OpcUa!vars
  BY <1>11 DEF OpcUa!vars, OpcUa!flags, OpcUa!server, OpcUa!worker
<1> QED
  BY <1>1, <1>2, <1>3, <1>4, <1>5, <1>6, <1>7, <1>8, <1>9, <1>10, <1>11
  DEF OpcUa!Next, OpcUa!Worker, OpcUa!Main

(* The node ids and values of a group, whatever step comes.                *)
THEOREM OpcUaInvariant == Spec => []OpcUaInv
<1>1. Init => OpcUaInv
  BY FS_EmptySet DEF Init, OpcUa!Init, OpcUaInv, OpcUa!ReResolved, OpcUa!FreshAfterPoll
<1>2. OpcUaInv /\ [OpcUa!Next]_(OpcUa!vars) => OpcUaInv'
  BY NextOpcUaInv
<1> QED
  BY <1>1, <1>2, OpcUaStep, PTL DEF Spec

(* "tags will be re-resolved on reconnect": for any number of tags and     *)
(* sessions, none is used by a node id of a session that was invalidated,  *)
(* each is counted once, and a poll that ends has read them all.           *)
THEOREM OpcUaReResolved ==
    Spec => [](OpcUa!ReResolved /\ OpcUa!InitCountExact /\ OpcUa!FreshAfterPoll)
<1>1. OpcUaInv => OpcUa!ReResolved /\ OpcUa!InitCountExact /\ OpcUa!FreshAfterPoll
  BY DEF OpcUaInv, OpcUa!InitCountExact, OpcUa!Cardinality, Cardinality
<1> QED
  BY <1>1, OpcUaInvariant, PTL
---------------------------------------------------------------------------
(***************************************************************************)
(* AdsSession.  Tags are initialized only while there is a device, and the *)
(* new device of a group has none of the old one's.                        *)
(***************************************************************************)
AdsInv == /\ ads_initialized \subseteq ads_tags /\ IsFiniteSet(ads_initialized)
          /\ Ads!HandlesOfDevice
          /\ ads_pc \in {"idle", "device", "tags", "read", "handles", "close"}
          /\ ads_pc \in {"tags", "read"} => ads_client /\ ads_left \subseteq ads_tags
          /\ ads_pc = "device" => ~ads_client
          /\ ads_pc = "close" => ads_handle = {}
          /\ Ads!FreshAfterPoll
          /\ ads_pc = "read" => /\ ads_tag \in ads_initialized
                                /\ ads_tags \ (ads_left \cup {ads_tag})
                                       \subseteq ads_initialized \cap ads_read
          /\ ads_pc # "close" => ads_count = Cardinality(ads_initialized)

LEMMA InitTagAdsInv == ASSUME AdsInv, NEW t \in AdsTags, Ads!init_ads_tag(t) PROVE AdsInv'
<1> USE DEF AdsInv, Ads!HandlesOfDevice, Ads!FreshAfterPoll
<1>1. ads_pc = "tags" /\ t \in ads_left /\ t \notin ads_initialized
  BY DEF Ads!init_ads_tag
<1>2. /\ IsFiniteSet(ads_initialized \cup {t})
      /\ Cardinality(ads_initialized \cup {t}) = Cardinality(ads_initialized) + 1
  BY <1>1, FS_AddElement
<1> QED
  BY <1>1, <1>2 DEF Ads!init_ads_tag, Ads!Fail

LEMMA NextAdsInv == ASSUME AdsInv, [Ads!Next]_(Ads!vars) PROVE AdsInv'
<1>1. ASSUME NEW t \in AdsTags, Ads!init_ads_tag(t) PROVE AdsInv'
  BY <1>1, InitTagAdsInv
<1> USE DEF AdsInv, Ads!HandlesOfDevice, Ads!FreshAfterPoll
<1>2. IsFiniteSet({}) /\ Cardinality({}) = 0
  BY FS_EmptySet
<1>3. CASE Ads!Poll
  BY <1>3 DEF Ads!Poll
<1>4. CASE Ads!init_ads_device
  BY <1>2, <1>4 DEF Ads!init_ads_device
<1>5. ASSUME NEW t \in AdsTags, Ads!NextTag(t) PROVE AdsInv'
  BY <1>5 DEF Ads!NextTag
<1>6. CASE Ads!ReadTag
  BY <1>6 DEF Ads!ReadTag, Ads!Fail
<1>7. CASE Ads!PollEnd \/ Ads!Cleanup
  BY <1>7 DEF Ads!PollEnd, Ads!Cleanup
<1>8. ASSUME NEW t \in AdsTags, Ads!register_tag(t) \/ Ads!Mismatch(t) PROVE AdsInv'
  BY <1>8 DEF Ads!register_tag, Ads!Mismatch
<1>9. CASE Ads!DeleteTags
  BY <1>2, <1>9 DEF Ads!DeleteTags
<1>10. CASE Ads!DeleteDevice
  BY <1>2, <1>10 DEF Ads!DeleteDevice
<1>11. CASE UNCHANGED Ads!vars
  BY <1>11 DEF Ads!vars
<1> QED
  BY <1>1, <1>3, <1>4, <1>5, <1>6, <1>7, <1>8, <1>9, <1>10, <1>11 DEF Ads!Next, Ads!Worker

(* The handles and values of a group, whatever step comes.                 *)
THEOREM AdsInvariant == Spec => []AdsInv
<1>1. Init => AdsInv
  BY FS_EmptySet DEF Init, Ads!Init, AdsInv, Ads!HandlesOfDevice, Ads!FreshAfterPoll
<1>2. AdsInv /\ [Ads!Next]_(Ads!vars) => AdsInv'
  BY NextAdsInv
<1> QED
  BY <1>1, <1>2, AdsStep, PTL DEF Spec

(* Handles are given back before their device goes, tags are counted once, *)
(* and a poll that ends has read them all.                                 *)
THEOREM AdsHandlesOfDevice ==
    Spec => [](Ads!HandlesOfDevice /\ Ads!InitCountExact /\ Ads!FreshAfterPoll)
<1>1. AdsInv => Ads!HandlesOfDevice /\ Ads!InitCountExact /\ Ads!FreshAfterPoll
  BY DEF AdsInv, Ads!InitCountExact, Ads!Cardinality, Cardinality
<1> QED
  BY <1>1, AdsInvariant, PTL
---------------------------------------------------------------------------
(***************************************************************************)
(* BrowseSession.  A call has no results before its first page, and those  *)
(* after it are of the session that is still there.                        *)
(***************************************************************************)
BrowseInv == /\ browse_pc \in {"idle", "browse", "again", "next", "read"}
             /\ browse_endpoint \in Endpoints \cup {NoEndpoint}
             /\ Editor!EndpointSaved
             /\ browse_pc \in {"browse", "again"} => results = {}
             /\ browse_pc = "next" => results = {browse_session}
             /\ Editor!ResultsOfOneSession

LEMMA NextBrowseInv == ASSUME BrowseInv, [Editor!Next]_(Editor!vars) PROVE BrowseInv'
<1> USE DEF BrowseInv, Editor!EndpointSaved, Editor!ResultsOfOneSession
<1>1. ASSUME NEW endpoint \in Endpoints, Editor!browse_connect(endpoint) PROVE BrowseInv'
  BY <1>1, BrowseAssumption
  DEF BrowseAssumption, Editor!browse_connect, Editor!Connected, Editor!Disconnected
<1>2. CASE Editor!browse_disconnect
  BY <1>2 DEF Editor!browse_disconnect, Editor!Disconnected
<1>3. ASSUME NEW first \in {"browse", "read"}, Editor!Call(first) PROVE BrowseInv'
  BY <1>3 DEF Editor!Call, Editor!Reconnected, Editor!Connected, Editor!Disconnected
<1>4. CASE Editor!Browse
  BY <1>4 DEF Editor!Browse, Editor!Answered, Editor!Failed, Editor!Reconnected,
              Editor!Connected, Editor!Disconnected
<1>5. CASE Editor!BrowseAgain
  BY <1>5 DEF Editor!BrowseAgain, Editor!Answered, Editor!Failed
<1>6. CASE Editor!BrowseNext
  BY <1>6 DEF Editor!BrowseNext, Editor!Failed
<1>7. CASE Editor!ReadValue
  BY <1>7 DEF Editor!ReadValue, Editor!Failed, Editor!Reconnected, Editor!Connected,
              Editor!Disconnected
<1>8. CASE Editor!SessionDies
  BY <1>8 DEF Editor!SessionDies
<1>9. CASE UNCHANGED Editor!vars
  BY <1>9 DEF Editor!vars
<1> QED
  BY <1>1, <1>2, <1>3, <1>4, <1>5, <1>6, <1>7, <1>8, <1>9 DEF Editor!Next, Editor!Step

(* The results and the endpoint of the editor, whatever step comes.        *)
THEOREM BrowseInvariant == Spec => []BrowseInv
<1>1. Init => BrowseInv
  BY DEF Init, Editor!Init, BrowseInv, Editor!EndpointSaved, Editor!ResultsOfOneSession
<1>2. BrowseInv /\ [Editor!Next]_(Editor!vars) => BrowseInv'
  BY NextBrowseInv
<1> QED
  BY <1>1, <1>2, EditorStep, PTL DEF Spec

(* What a call of the editor returns is of one session, and as long as it  *)
(* has a client it knows where to connect again.                           *)
THEOREM BrowseResultsOfOneSession ==
    Spec => [](Editor!ResultsOfOneSession /\ Editor!EndpointSaved)
<1>1. BrowseInv => Editor!ResultsOfOneSession /\ Editor!EndpointSaved
  BY DEF BrowseInv
<1> QED
  BY <1>1, BrowseInvariant, PTL
---------------------------------------------------------------------------
(***************************************************************************)
(* S7Plcs, writes.  What is pending is what the client wanted last, and    *)
(* only a tag with a value pending is sent: so a value goes to the device  *)
(* or stays pending, whatever becomes of the exchange.                     *)
(***************************************************************************)
S7Value == S7Values \cup {NoValue}
WritesInv ==
    /\ pending \in [S7Tags -> S7Value] /\ wanted \in [S7Tags -> S7Value]
    /\ device \in [S7Tags -> S7Value] /\ refused \in [S7Tags -> BOOLEAN]
    /\ \A t \in S7Tags : /\ pending[t] # NoValue => pending[t] = wanted[t]
                         /\ t \notin created => wanted[t] = NoValue
    /\ WritesReachPlc
    /\ wpc \in {"lock", "exchange"} =>
           /\ wtag \in S7Tags /\ pending[wtag] # NoValue
           /\ flushing => wtag \notin wleft
    /\ flushing \in BOOLEAN
    /\ flushing => wpc \in {"flush", "lock", "exchange"}
    /\ flushing \/ wpc = "flush" => \A t \in wleft \cap S7Tags : pending[t] # NoValue

LEMMA ExchangeWritesInv == ASSUME WritesInv, Plcs!WorkerExchange PROVE WritesInv'
<1> USE DEF WritesInv, WritesReachPlc, Plcs!WritesReachPlc, S7Value
<1>1. PICK answer \in {"done", "refused", "nogood", "closed"}, done \in BOOLEAN :
           /\ answer = "done" => done
           /\ answer = "refused" => ~done
           /\ device' = IF done THEN [device EXCEPT ![wtag] = pending[wtag]] ELSE device
           /\ pending' = IF Plcs!Settles(answer) THEN [pending EXCEPT ![wtag] = NoValue]
                         ELSE pending
           /\ refused' = [refused EXCEPT ![wtag] = answer = "refused"]
  BY DEF Plcs!WorkerExchange
<1>2. /\ wpc = "exchange" /\ wpc' = IF flushing THEN "flush" ELSE "idle"
      /\ UNCHANGED <<created, wleft, flushing, wanted>>
  BY DEF Plcs!WorkerExchange, Plcs!group
<1>3. wtag \in S7Tags /\ pending[wtag] = wanted[wtag] /\ wanted[wtag] # NoValue
  BY <1>2
<1>4. /\ pending' \in [S7Tags -> S7Value] /\ device' \in [S7Tags -> S7Value]
      /\ refused' \in [S7Tags -> BOOLEAN]
  BY <1>1, <1>3
<1>5. \A t \in S7Tags : t # wtag => /\ pending'[t] = pending[t] /\ device'[t] = device[t]
                                    /\ refused'[t] = refused[t]
  BY <1>1, <1>3
<1>6. /\ pending'[wtag] \in {wanted[wtag], NoValue}
      /\ refused'[wtag] \/ wanted[wtag] \in {pending'[wtag], device'[wtag]}
  BY <1>1, <1>3 DEF Plcs!Settles
<1> QED
  BY <1>2, <1>3, <1>4, <1>5, <1>6

LEMMA NextWritesInv == ASSUME WritesInv, [Plcs!Next]_(Plcs!vars) PROVE WritesInv'
<1>1. CASE Plcs!WorkerExchange
  BY <1>1, ExchangeWritesInv
<1> USE DEF WritesInv, WritesReachPlc, Plcs!WritesReachPlc, S7Value
<1>2. ASSUME NEW t \in S7Tags, NEW v \in S7Values, Plcs!Write(t, v) PROVE WritesInv'
  BY <1>2, S7Assumption DEF S7Assumption, Plcs!Write, Plcs!Send, Plcs!group
<1>3. ASSUME NEW t \in S7Tags, Plcs!PollCreate(t) PROVE WritesInv'
  <2>1. CASE t \in Undecodable
    BY <1>3, <2>1 DEF Plcs!PollCreate
  <2>2. CASE t \notin Undecodable
    BY <1>3, <2>2 DEF Plcs!PollCreate
  <2> QED
    BY <2>1, <2>2
<1>4. ASSUME NEW t \in S7Tags, Plcs!PollTag(t) PROVE WritesInv'
  BY <1>4 DEF Plcs!PollTag, Plcs!history
<1>5. CASE Plcs!PollFlush
  BY <1>5 DEF Plcs!PollFlush, Plcs!history, Plcs!group
<1>6. ASSUME NEW t \in S7Tags, Plcs!FlushTag(t) PROVE WritesInv'
  BY <1>6 DEF Plcs!FlushTag, Plcs!Send, Plcs!history, Plcs!group
<1>7. CASE Plcs!FlushEnd \/ Plcs!WorkerLock
  <2>1. CASE Plcs!FlushEnd
    BY <2>1 DEF Plcs!FlushEnd, Plcs!history, Plcs!group
  <2>2. CASE Plcs!WorkerLock
    BY <2>2 DEF Plcs!WorkerLock, Plcs!history, Plcs!group
  <2> QED
    BY <1>7, <2>1, <2>2
<1>8. ASSUME NEW t \in S7Tags, Plcs!DestroyTag(t) PROVE WritesInv'
  BY <1>8 DEF Plcs!DestroyTag, Plcs!history, Plcs!group
<1>9. CASE Plcs!DestroyClose \/ Plcs!DestroyForget \/ Plcs!DestroyJoin
  BY <1>9 DEF Plcs!DestroyClose, Plcs!DestroyForget, Plcs!DestroyJoin, Plcs!history, Plcs!group
<1>10. CASE Plcs!CleanupEnd
  BY <1>10 DEF Plcs!CleanupEnd
<1>11. ASSUME NEW h \in Hosts, Plcs!Register(h) \/ Plcs!PollBegin(h) \/ Plcs!CleanupBegin(h)
       PROVE  WritesInv'
  BY <1>11 DEF Plcs!Register, Plcs!PollBegin, Plcs!CleanupBegin, Plcs!worker, Plcs!history,
               Plcs!group
<1>12. ASSUME NEW h \in Hosts, Plcs!Thread(h) PROVE WritesInv'
  BY <1>12
  DEF Plcs!Thread, Plcs!ThreadTop, Plcs!ThreadConnect, Plcs!ThreadHello, Plcs!ThreadLock,
      Plcs!ThreadExchange, Plcs!ThreadEnd, Plcs!worker, Plcs!history, Plcs!group
<1>13. CASE UNCHANGED Plcs!vars
  BY <1>13 DEF Plcs!vars, Plcs!worker, Plcs!history, Plcs!group
<1> QED
  BY <1>1, <1>2, <1>3, <1>4, <1>5, <1>6, <1>7, <1>8, <1>9, <1>10, <1>11, <1>12, <1>13
  DEF Plcs!Next, Plcs!Calls, Plcs!Worker

(* What is pending, wanted and in the device, whatever step comes.         *)
THEOREM WritesInvariant == Spec => []WritesInv
<1>1. ASSUME Init PROVE WritesInv
  <2>1. /\ pending = [t \in S7Tags |-> NoValue] /\ wanted = [t \in S7Tags |-> NoValue]
        /\ device = [t \in S7Tags |-> NoValue] /\ refused = [t \in S7Tags |-> FALSE]
        /\ wpc = "idle" /\ flushing = FALSE
    BY <1>1 DEF Init, Plcs!Init
  <2> QED
    BY <2>1 DEF WritesInv, WritesReachPlc, Plcs!WritesReachPlc, S7Value
<1>2. WritesInv /\ [Plcs!Next]_(Plcs!vars) => WritesInv'
  BY NextWritesInv
<1> QED
  BY <1>1, <1>2, PlcsStep, PTL DEF Spec

(* No written value is lost with a connection, for any number of PLCs,     *)
(* tags and values, and whichever thread closes the socket when.           *)
THEOREM S7WritesReachPlc == Spec => []WritesReachPlc
<1>1. WritesInv => WritesReachPlc
  BY DEF WritesInv
<1> QED
  BY <1>1, WritesInvariant, PTL
---------------------------------------------------------------------------
(* S7Plcs, counts.  The worker polls tags of one group, so that what it    *)
(* initializes is of the group that it counts for.                         *)
CountInv == /\ ready \subseteq S7Tags
            /\ wgroup \in Hosts
            /\ wpc = "tags" => wleft \subseteq TagsOf(wgroup)
            /\ s7_count \in [Hosts -> Nat]
            /\ \A h \in Hosts : s7_count[h] = Cardinality(ready \cap TagsOf(h))

LEMMA OneMore ==
    ASSUME NEW s \in SUBSET S7Tags, NEW t \in S7Tags \ s, NEW h \in Hosts
    PROVE  /\ t \in TagsOf(h) => Cardinality((s \cup {t}) \cap TagsOf(h))
                                 = Cardinality(s \cap TagsOf(h)) + 1
           /\ t \notin TagsOf(h) => (s \cup {t}) \cap TagsOf(h) = s \cap TagsOf(h)
<1>1. IsFiniteSet(s \cap TagsOf(h))
  BY S7Assumption, FS_Subset DEF S7Assumption
<1>2. t \in TagsOf(h) => (s \cup {t}) \cap TagsOf(h) = (s \cap TagsOf(h)) \cup {t}
  OBVIOUS
<1> QED
  BY <1>1, <1>2, FS_AddElement

LEMMA OneGroup ==
    ASSUME NEW g \in Hosts, NEW h \in Hosts, g # h
    PROVE  TagsOf(g) \cap TagsOf(h) = {}
  BY DEF TagsOf

LEMMA SameTags == \A h : Plcs!TagsOf(h) = TagsOf(h)
  BY DEF Plcs!TagsOf, TagsOf

LEMMA PollTagCountInv == ASSUME CountInv, NEW t \in S7Tags, Plcs!PollTag(t) PROVE CountInv'
<1> USE DEF CountInv
<1>1. t \in TagsOf(wgroup) /\ UNCHANGED <<wpc, wgroup>> /\ wleft' \subseteq wleft
  BY DEF Plcs!PollTag
<1>2. CASE /\ t \notin ready /\ ready' = ready \cup {t}
           /\ s7_count' = [s7_count EXCEPT ![wgroup] = @ + 1]
  <2>1. ASSUME NEW h \in Hosts PROVE s7_count'[h] = Cardinality(ready' \cap TagsOf(h))
    <3>1. CASE h = wgroup
      <4>1. ready' \cap TagsOf(h) = (ready \cup {t}) \cap TagsOf(h) /\ t \in TagsOf(h)
        BY <1>1, <1>2, <3>1
      <4>2. Cardinality((ready \cup {t}) \cap TagsOf(h)) = Cardinality(ready \cap TagsOf(h)) + 1
        BY <1>2, <4>1, OneMore
      <4>3. s7_count'[h] = s7_count[h] + 1
        BY <1>2, <3>1
      <4> QED
        BY <4>1, <4>2, <4>3
    <3>2. CASE h # wgroup
      <4>1. t \notin TagsOf(h)
        BY <1>1, <3>2, OneGroup
      <4> QED
        BY <1>2, <3>2, <4>1, OneMore
    <3> QED
      BY <3>1, <3>2
  <2>2. s7_count' \in [Hosts -> Nat]
    BY <1>2
  <2> QED
    BY <1>1, <1>2, <2>1, <2>2
<1>3. CASE ready' = ready /\ s7_count' = s7_count
  BY <1>1, <1>3
<1>4. \/ /\ t \notin ready /\ ready' = ready \cup {t}
         /\ s7_count' = [s7_count EXCEPT ![wgroup] = @ + 1]
      \/ ready' = ready /\ s7_count' = s7_count
  <2>1. CASE t \in ready
    BY <2>1 DEF Plcs!PollTag, Plcs!Counted
  <2>2. CASE t \notin ready
    BY <2>2 DEF Plcs!PollTag, Plcs!Counted
  <2> QED
    BY <2>1, <2>2
<1> QED
  BY <1>2, <1>3, <1>4

LEMMA CleanupCountInv == ASSUME CountInv, Plcs!CleanupEnd PROVE CountInv'
<1> USE DEF CountInv
<1>1. /\ ready' = ready \ TagsOf(wgroup) /\ s7_count' = [s7_count EXCEPT ![wgroup] = 0]
      /\ wpc' = "idle" /\ wgroup' = wgroup
  BY SameTags DEF Plcs!CleanupEnd
<1>2. ASSUME NEW h \in Hosts PROVE s7_count'[h] = Cardinality(ready' \cap TagsOf(h))
  <2>1. CASE h = wgroup
    <3>1. ready' \cap TagsOf(h) = {}
      BY <1>1, <2>1
    <3> QED
      BY <1>1, <2>1, <3>1, FS_EmptySet
  <2>2. CASE h # wgroup
    <3>1. ready' \cap TagsOf(h) = ready \cap TagsOf(h)
      BY <1>1, <2>2, OneGroup
    <3> QED
      BY <1>1, <2>2, <3>1
  <2> QED
    BY <2>1, <2>2
<1>3. s7_count' \in [Hosts -> Nat]
  BY <1>1
<1> QED
  BY <1>1, <1>2, <1>3

LEMMA NextCountInv == ASSUME CountInv, [Plcs!Next]_(Plcs!vars) PROVE CountInv'
<1>1. ASSUME NEW t \in S7Tags, Plcs!PollTag(t) PROVE CountInv'
  BY <1>1, PollTagCountInv
<1>2. CASE Plcs!CleanupEnd
  BY <1>2, CleanupCountInv
<1> USE SameTags DEF CountInv
<1>3. ASSUME NEW t \in S7Tags, NEW v \in S7Values, Plcs!Write(t, v) PROVE CountInv'
  BY <1>3 DEF Plcs!Write, Plcs!Send, Plcs!group
<1>4. ASSUME NEW t \in S7Tags, Plcs!PollCreate(t) PROVE CountInv'
  BY <1>4 DEF Plcs!PollCreate
<1>5. CASE Plcs!PollFlush
  BY <1>5 DEF Plcs!PollFlush, Plcs!group
<1>6. ASSUME NEW t \in S7Tags, Plcs!FlushTag(t) PROVE CountInv'
  BY <1>6 DEF Plcs!FlushTag, Plcs!Send, Plcs!group
<1>7. CASE Plcs!FlushEnd \/ Plcs!WorkerLock \/ Plcs!WorkerExchange
  BY <1>7 DEF Plcs!FlushEnd, Plcs!WorkerLock, Plcs!WorkerExchange, Plcs!group
<1>8. ASSUME NEW t \in S7Tags, Plcs!DestroyTag(t) PROVE CountInv'
  BY <1>8 DEF Plcs!DestroyTag, Plcs!group
<1>9. CASE Plcs!DestroyClose \/ Plcs!DestroyForget \/ Plcs!DestroyJoin
  BY <1>9 DEF Plcs!DestroyClose, Plcs!DestroyForget, Plcs!DestroyJoin, Plcs!group
<1>10. ASSUME NEW h \in Hosts, Plcs!Register(h) \/ Plcs!PollBegin(h) \/ Plcs!CleanupBegin(h)
       PROVE  CountInv'
  BY <1>10 DEF Plcs!Register, Plcs!PollBegin, Plcs!CleanupBegin, Plcs!worker, Plcs!group
<1>11. ASSUME NEW h \in Hosts, Plcs!Thread(h) PROVE CountInv'
  BY <1>11
  DEF Plcs!Thread, Plcs!ThreadTop, Plcs!ThreadConnect, Plcs!ThreadHello, Plcs!ThreadLock,
      Plcs!ThreadExchange, Plcs!ThreadEnd, Plcs!worker, Plcs!group
<1>12. CASE UNCHANGED Plcs!vars
  BY <1>12 DEF Plcs!vars, Plcs!worker, Plcs!group
<1> QED
  BY <1>1, <1>2, <1>3, <1>4, <1>5, <1>6, <1>7, <1>8, <1>9, <1>10, <1>11, <1>12
  DEF Plcs!Next, Plcs!Calls, Plcs!Worker

(* The count of each group, whatever step comes.                           *)
THEOREM CountInvariant == Spec => []CountInv
<1>1. Init => CountInv
  <2> SUFFICES ASSUME Init PROVE CountInv
    OBVIOUS
  <2>1. /\ ready = {} /\ wgroup \in Hosts /\ wpc = "idle" /\ s7_count = [h \in Hosts |-> 0]
    BY DEF Init, Plcs!Init
  <2>2. \A h \in Hosts : ready \cap TagsOf(h) = {}
    BY <2>1
  <2> QED
    BY <2>1, <2>2, FS_EmptySet DEF CountInv
<1>2. CountInv /\ [Plcs!Next]_(Plcs!vars) => CountInv'
  BY NextCountInv
<1> QED
  BY <1>1, <1>2, PlcsStep, PTL DEF Spec

(* The tags of each S7 group are counted once, for any number of PLCs.     *)
THEOREM S7InitCountExact == Spec => []Plcs!InitCountExact
<1>1. CountInv => Plcs!InitCountExact
  BY SameTags DEF CountInv, Plcs!InitCountExact, Plcs!Cardinality, Cardinality
<1> QED
  BY <1>1, CountInvariant, PTL
---------------------------------------------------------------------------
(***************************************************************************)
(* S7Plcs, PLC objects.  A tag that was created is in the PLC object of    *)
(* its own gateway until its group's cleanup takes it out (CreatedHeld,    *)
(* LeftHeld).  A PLC object that has had tags has some, or no cleanup will *)
(* find it any more (abandoned), or the cleanup under way is ending it     *)
(* (HadHeld); the one that is being ended is the first, and has none       *)
(* (KilledHasNone).                                                        *)
(***************************************************************************)
Killing == wpc \in {"close", "forget", "join"}

ThreadTypes ==
    /\ state \in [Hosts -> 0 .. 2] /\ sock \in [Hosts -> {"invalid", "open", "closed"}]
    /\ TerminateThread \in [Hosts -> BOOLEAN]
    /\ lockObj \in [Hosts -> {"free", "thread", "worker"}]
    /\ tpc \in [Hosts -> Plcs!ThreadPC]

ObjectTypes ==
    /\ S7Plcs \in Seq(Hosts) /\ Tags \in [Hosts -> SUBSET S7Tags] /\ abandoned \subseteq Hosts
    /\ had \in [Hosts -> BOOLEAN]
    /\ \A h \in Hosts : Tags[h] \subseteq TagsOf(h)

WorkerTypes ==
    /\ plc_tags \subseteq S7Tags /\ created \subseteq S7Tags
    /\ s7_error \in [Hosts -> BOOLEAN]
    /\ wpc \in Plcs!WorkerPC /\ wgroup \in Hosts
    /\ wleft \subseteq S7Tags /\ wtag \in S7Tags \cup {NoValue}

TagsMade == \A h \in Hosts : Tags[h] # {} \/ h \in abandoned => Plcs!IsMade(h)
CreatedHeld ==
    \A t \in created : \/ t \in Tags[Gateway[t]]
                       \/ Gateway[t] = wgroup /\ (wpc = "destroy" \/ Killing)
LeftHeld ==
    /\ wpc = "tags" => /\ wleft \subseteq TagsOf(wgroup)
                       /\ plc_tags \cap TagsOf(wgroup) \subseteq wleft \cup created
    /\ wpc = "destroy" => wleft \subseteq Tags[wgroup]
    /\ Killing => wtag \in wleft /\ wleft \ {wtag} \subseteq Tags[wgroup]
KilledHasNone ==
    Killing => Len(S7Plcs) > 0 /\ Tags[S7Plcs[1]] = {} /\ S7Plcs[1] \notin abandoned
HadHeld ==
    \A h \in Hosts : had[h] => \/ Tags[h] # {} \/ h \in abandoned
                               \/ Killing /\ h = S7Plcs[1]
PlcsInv == /\ ThreadTypes /\ ObjectTypes /\ WorkerTypes
           /\ TagsMade /\ CreatedHeld /\ LeftHeld /\ KilledHasNone /\ HadHeld

(* Whatever its tag, the PLC that is found is the first one.               *)
LEMMA FirstFound ==
    ASSUME S7Plcs \in Seq(Hosts), Len(S7Plcs) > 0, NEW t
    PROVE  /\ Plcs!Found(t) = 1 /\ Plcs!PlcOf(t) = S7Plcs[1] /\ S7Plcs[1] \in Hosts
           /\ Plcs!Owner(t) = Gateway[t]
<1> DEFINE I == {k \in 1 .. Len(S7Plcs) :
                    Plcs!Identifier(S7Plcs[k]) = Plcs!Identifier(Plcs!Owner(t))}
<1>1. I = 1 .. Len(S7Plcs) /\ 1 \in I
  BY DEF Plcs!Identifier
<1>2. Plcs!Found(t) = Plcs!Min(I)
  BY <1>1 DEF Plcs!Found, Plcs!SelectInSeq
<1>3. Plcs!Min(I) = 1
  BY <1>1 DEF Plcs!Min
<1> QED
  BY <1>2, <1>3 DEF Plcs!PlcOf, Plcs!Owner

LEMMA MadeIsFound ==
    ASSUME S7Plcs \in Seq(Hosts), NEW h, Plcs!IsMade(h)
    PROVE  Len(S7Plcs) > 0
<1>1. \E k \in DOMAIN S7Plcs : S7Plcs[k] = h
  BY DEF Plcs!IsMade, Plcs!Range
<1> QED
  BY <1>1

(* A host's PLC is made, and the first one is removed.                     *)
LEMMA OneMade ==
    ASSUME S7Plcs \in Seq(Hosts), NEW g \in Hosts, S7Plcs' = Append(S7Plcs, g)
    PROVE  /\ S7Plcs' \in Seq(Hosts) /\ Plcs!IsMade(g)'
           /\ \A h : Plcs!IsMade(h) => Plcs!IsMade(h)'
<1>1. Len(S7Plcs) + 1 \in DOMAIN S7Plcs' /\ S7Plcs'[Len(S7Plcs) + 1] = g
  OBVIOUS
<1>2. \A k \in DOMAIN S7Plcs : k \in DOMAIN S7Plcs' /\ S7Plcs'[k] = S7Plcs[k]
  OBVIOUS
<1> QED
  BY <1>1, <1>2 DEF Plcs!IsMade, Plcs!Range

LEMMA FirstRemoved ==
    ASSUME S7Plcs \in Seq(Hosts), Len(S7Plcs) > 0, S7Plcs' = Plcs!RemoveAt(S7Plcs, 1)
    PROVE  /\ S7Plcs' \in Seq(Hosts)
           /\ \A h : Plcs!IsMade(h) /\ h # S7Plcs[1] => Plcs!IsMade(h)'
<1> DEFINE s == SubSeq(S7Plcs, 1, 0)
           r == SubSeq(S7Plcs, 2, Len(S7Plcs))
<1>1. S7Plcs' = s \o r
  BY DEF Plcs!RemoveAt
<1>2. s = << >>
  OBVIOUS
<1>3. r \in Seq(Hosts) /\ Len(r) = Len(S7Plcs) - 1
      /\ \A k \in 2 .. Len(S7Plcs) : k - 1 \in 1 .. Len(r) /\ r[k - 1] = S7Plcs[k]
  OBVIOUS
<1> HIDE DEF s, r
<1>4. S7Plcs' = r
  BY <1>1, <1>2, <1>3, ConcatEmptySeq
<1>5. ASSUME NEW h, Plcs!IsMade(h), h # S7Plcs[1] PROVE Plcs!IsMade(h)'
  <2>1. PICK k \in DOMAIN S7Plcs : S7Plcs[k] = h
    BY <1>5 DEF Plcs!IsMade, Plcs!Range
  <2>2. k \in 2 .. Len(S7Plcs)
    BY <1>5, <2>1
  <2>3. k - 1 \in DOMAIN r /\ r[k - 1] = h
    BY <1>3, <2>1, <2>2
  <2> QED
    BY <1>4, <2>3 DEF Plcs!IsMade, Plcs!Range
<1> QED
  BY <1>3, <1>4, <1>5

(* A step that leaves the PLC objects and their tags alone.                *)
LEMMA ObjectsKept ==
    ASSUME ObjectTypes, TagsMade, UNCHANGED <<S7Plcs, Tags, abandoned, had>>
    PROVE  ObjectTypes' /\ TagsMade'
  BY DEF ObjectTypes, TagsMade, Plcs!IsMade, Plcs!Range

LEMMA ThreadPlcsInv == ASSUME PlcsInv, NEW h \in Hosts, Plcs!Thread(h) PROVE PlcsInv'
<1>1. /\ UNCHANGED <<S7Plcs, Tags, abandoned, had, plc_tags, created, s7_error>>
      /\ UNCHANGED <<wpc, wgroup, wleft, wtag>>
  BY DEF Plcs!Thread, Plcs!ThreadTop, Plcs!ThreadConnect, Plcs!ThreadHello, Plcs!ThreadLock,
         Plcs!ThreadExchange, Plcs!ThreadEnd, Plcs!worker, Plcs!history, Plcs!group
<1>2. ThreadTypes'
  <2> USE DEF PlcsInv, ThreadTypes, Plcs!ThreadPC, Plcs!GoTo, Plcs!SockClose
  <2>1. CASE Plcs!ThreadTop(h)
    BY <2>1 DEF Plcs!ThreadTop
  <2>2. CASE Plcs!ThreadConnect(h) \/ Plcs!ThreadHello(h)
    BY <2>2 DEF Plcs!ThreadConnect, Plcs!ThreadHello
  <2>3. CASE Plcs!ThreadLock(h) \/ Plcs!ThreadExchange(h)
    BY <2>3 DEF Plcs!ThreadLock, Plcs!ThreadExchange
  <2>4. CASE Plcs!ThreadEnd(h)
    BY <2>4 DEF Plcs!ThreadEnd
  <2> QED
    BY <2>1, <2>2, <2>3, <2>4 DEF Plcs!Thread
<1>3. ObjectTypes' /\ TagsMade'
  BY <1>1, ObjectsKept DEF PlcsInv
<1>4. WorkerTypes' /\ CreatedHeld' /\ LeftHeld' /\ KilledHasNone' /\ HadHeld'
  BY <1>1 DEF PlcsInv, WorkerTypes, CreatedHeld, LeftHeld, KilledHasNone, HadHeld, Killing
<1> QED
  BY <1>2, <1>3, <1>4 DEF PlcsInv

(* Writes, and what is flushed of them.                                    *)
LEMMA WritePlcsInv ==
    ASSUME PlcsInv,
           \/ \E t \in S7Tags, v \in S7Values : Plcs!Write(t, v)
           \/ \E t \in S7Tags : Plcs!FlushTag(t)
           \/ Plcs!FlushEnd \/ Plcs!WorkerLock \/ Plcs!WorkerExchange
    PROVE  PlcsInv'
<1> DEFINE Quiet ==
             /\ UNCHANGED <<S7Plcs, Tags, abandoned, had, plc_tags, created, s7_error, wgroup>>
             /\ wpc \in {"idle", "flush", "lock", "exchange"}
             /\ wpc' \in {"idle", "flush", "lock", "exchange"}
             /\ wleft' \subseteq wleft /\ wtag' \in S7Tags \cup {wtag, NoValue}
<1>1. Quiet
  <2>1. ASSUME NEW t \in S7Tags, NEW v \in S7Values, Plcs!Write(t, v) PROVE Quiet
    BY <2>1 DEF Plcs!Write, Plcs!Send, Plcs!group, Plcs!plcs
  <2>2. ASSUME NEW t \in S7Tags, Plcs!FlushTag(t) PROVE Quiet
    BY <2>2 DEF Plcs!FlushTag, Plcs!Send, Plcs!history, Plcs!group, Plcs!plcs
  <2>3. CASE Plcs!FlushEnd
    BY <2>3 DEF Plcs!FlushEnd, Plcs!history, Plcs!group, Plcs!plcs
  <2>4. CASE Plcs!WorkerLock
    BY <2>4 DEF Plcs!WorkerLock, Plcs!history, Plcs!group
  <2>5. CASE Plcs!WorkerExchange
    <3>1. /\ wpc = "exchange" /\ wpc' \in {"flush", "idle"} /\ wtag' = NoValue
          /\ UNCHANGED <<S7Plcs, Tags, abandoned, had, wgroup, wleft>>
      BY <2>5 DEF Plcs!WorkerExchange
    <3>2. UNCHANGED <<plc_tags, created, s7_error>>
      BY <2>5 DEF Plcs!WorkerExchange, Plcs!group
    <3> QED
      BY <3>1, <3>2
  <2> QED
    BY <2>1, <2>2, <2>3, <2>4, <2>5
<1>2. ThreadTypes'
  <2>1. ASSUME UNCHANGED <<state, sock, TerminateThread, lockObj, tpc>> PROVE ThreadTypes'
    BY <2>1 DEF PlcsInv, ThreadTypes
  <2>2. CASE Plcs!WorkerLock
    BY <2>2 DEF Plcs!WorkerLock, PlcsInv, ThreadTypes
  <2>3. CASE Plcs!WorkerExchange
    <3>1. /\ lockObj' = [lockObj EXCEPT ![Plcs!Owner(wtag)] = "free"]
          /\ UNCHANGED <<TerminateThread, tpc>>
      BY <2>3 DEF Plcs!WorkerExchange
    <3>2. \/ UNCHANGED <<state, sock>>
          \/ /\ sock' = [sock EXCEPT ![Plcs!Owner(wtag)] = "invalid"]
             /\ state' = [state EXCEPT ![Plcs!Owner(wtag)] = 0]
      BY <2>3 DEF Plcs!WorkerExchange, Plcs!SockClose
    <3>3. state' \in [Hosts -> 0 .. 2] /\ sock' \in [Hosts -> {"invalid", "open", "closed"}]
      BY <3>2 DEF PlcsInv, ThreadTypes
    <3>4. lockObj' \in [Hosts -> {"free", "thread", "worker"}]
      BY <3>1 DEF PlcsInv, ThreadTypes
    <3> QED
      BY <3>1, <3>3, <3>4 DEF PlcsInv, ThreadTypes
  <2>4. ASSUME NEW t \in S7Tags, NEW v \in S7Values, Plcs!Write(t, v) PROVE ThreadTypes'
    BY <2>1, <2>4 DEF Plcs!Write, Plcs!plcs
  <2>5. ASSUME NEW t \in S7Tags, Plcs!FlushTag(t) PROVE ThreadTypes'
    BY <2>1, <2>5 DEF Plcs!FlushTag, Plcs!plcs
  <2>6. CASE Plcs!FlushEnd
    BY <2>1, <2>6 DEF Plcs!FlushEnd, Plcs!plcs
  <2> QED
    BY <2>2, <2>3, <2>4, <2>5, <2>6
<1>3. ObjectTypes' /\ TagsMade'
  BY <1>1, ObjectsKept DEF PlcsInv
<1>4. WorkerTypes'
  BY <1>1 DEF PlcsInv, WorkerTypes, Plcs!WorkerPC
<1>5. CreatedHeld' /\ LeftHeld' /\ KilledHasNone' /\ HadHeld'
  BY <1>1 DEF PlcsInv, CreatedHeld, LeftHeld, KilledHasNone, HadHeld, Killing
<1> QED
  BY <1>2, <1>3, <1>4, <1>5 DEF PlcsInv

(* The calls that begin, and a tag that is found to be initialized.        *)
LEMMA PollPlcsInv ==
    ASSUME PlcsInv,
           \/ \E h \in Hosts : Plcs!Register(h) \/ Plcs!PollBegin(h) \/ Plcs!CleanupBegin(h)
           \/ \E t \in S7Tags : Plcs!PollTag(t)
           \/ Plcs!PollFlush \/ Plcs!CleanupEnd
    PROVE  PlcsInv'
<1> DEFINE Kept == UNCHANGED <<S7Plcs, Tags, abandoned, had, state, sock, TerminateThread,
                               lockObj, tpc>>
<1>1. ASSUME Kept PROVE ThreadTypes' /\ ObjectTypes' /\ TagsMade'
  BY <1>1, ObjectsKept DEF PlcsInv, ThreadTypes
<1>2. ASSUME Kept, wpc \notin {"destroy", "close", "forget", "join"},
             wpc' \notin {"close", "forget", "join"}, created' = created
      PROVE  CreatedHeld' /\ KilledHasNone' /\ HadHeld'
  BY <1>2 DEF PlcsInv, CreatedHeld, KilledHasNone, HadHeld, Killing
<1>3. \A h : TagsOf(h) = {t \in S7Tags : Gateway[t] = h}
  BY DEF TagsOf
<1>4. \A h : Plcs!TagsOf(h) = TagsOf(h)
  BY SameTags
<1>5. ASSUME NEW h \in Hosts, Plcs!Register(h) PROVE PlcsInv'
  <2>1. /\ Kept /\ UNCHANGED <<wpc, wgroup, wleft, wtag, created, s7_error>>
        /\ wpc = "idle" /\ plc_tags' = plc_tags \cup TagsOf(h)
    BY <1>4, <1>5 DEF Plcs!Register, Plcs!worker, Plcs!history, Plcs!plcs
  <2>2. WorkerTypes'
    BY <1>3, <2>1 DEF PlcsInv, WorkerTypes
  <2>3. LeftHeld'
    BY <2>1 DEF LeftHeld, Killing
  <2> QED
    BY <1>1, <1>2, <2>1, <2>2, <2>3 DEF PlcsInv
<1>6. ASSUME NEW h \in Hosts, Plcs!PollBegin(h) PROVE PlcsInv'
  <2>1. /\ Kept /\ UNCHANGED <<wtag, created, s7_error, plc_tags>>
        /\ wpc = "idle" /\ wpc' = "tags" /\ wgroup' = h /\ wleft' = plc_tags \cap TagsOf(h)
    BY <1>4, <1>6 DEF Plcs!PollBegin, Plcs!group, Plcs!history, Plcs!plcs
  <2>2. WorkerTypes'
    BY <1>3, <2>1 DEF PlcsInv, WorkerTypes, Plcs!WorkerPC
  <2>3. LeftHeld'
    BY <2>1 DEF LeftHeld, Killing
  <2> QED
    BY <1>1, <1>2, <2>1, <2>2, <2>3 DEF PlcsInv
<1>7. ASSUME NEW h \in Hosts, Plcs!CleanupBegin(h) PROVE PlcsInv'
  <2>1. /\ Kept /\ UNCHANGED <<wtag, created, s7_error, plc_tags>>
        /\ wpc = "idle" /\ wpc' = "destroy" /\ wgroup' = h /\ wleft' = created \cap TagsOf(h)
    BY <1>4, <1>7 DEF Plcs!CleanupBegin, Plcs!group, Plcs!history, Plcs!plcs
  <2>2. WorkerTypes'
    BY <1>3, <2>1 DEF PlcsInv, WorkerTypes, Plcs!WorkerPC
  <2>3. LeftHeld'
    BY <1>3, <2>1 DEF PlcsInv, CreatedHeld, LeftHeld, Killing
  <2> QED
    BY <1>1, <1>2, <2>1, <2>2, <2>3 DEF PlcsInv
<1>8. ASSUME NEW t \in S7Tags, Plcs!PollTag(t) PROVE PlcsInv'
  <2>1. /\ Kept /\ UNCHANGED <<wpc, wgroup, wtag, created, s7_error, plc_tags>>
        /\ wpc = "tags" /\ wleft' = wleft \ {t} /\ t \in created
    BY <1>8 DEF Plcs!PollTag, Plcs!history, Plcs!plcs
  <2>2. WorkerTypes'
    BY <2>1 DEF PlcsInv, WorkerTypes
  <2>3. LeftHeld'
    BY <2>1 DEF PlcsInv, LeftHeld, Killing
  <2> QED
    BY <1>1, <1>2, <2>1, <2>2, <2>3 DEF PlcsInv
<1>9. CASE Plcs!PollFlush
  <2>1. /\ Kept /\ UNCHANGED <<wgroup, wtag, created, s7_error, plc_tags>>
        /\ wpc = "tags" /\ wpc' = "flush" /\ wleft = {}
    BY <1>9 DEF Plcs!PollFlush, Plcs!history, Plcs!plcs, Plcs!group
  <2>2. PICK t \in plc_tags \cap TagsOf(wgroup) :
             wleft' = {u \in Tags[Plcs!PlcOf(t)] : pending[u] # NoValue}
    BY <1>4, <1>9 DEF Plcs!PollFlush
  <2>3. t \in created /\ Gateway[t] \in Hosts /\ t \in Tags[Gateway[t]]
    BY <1>3, <2>1, S7Assumption
    DEF PlcsInv, LeftHeld, CreatedHeld, Killing, S7Assumption
  <2>4. S7Plcs \in Seq(Hosts) /\ Len(S7Plcs) > 0
    BY <2>3, MadeIsFound DEF PlcsInv, TagsMade, ObjectTypes
  <2>5. Plcs!PlcOf(t) \in Hosts
    BY <2>4, FirstFound
  <2>6. wleft' \subseteq S7Tags
    BY <2>2, <2>5 DEF PlcsInv, ObjectTypes
  <2>7. WorkerTypes'
    BY <2>1, <2>6 DEF PlcsInv, WorkerTypes, Plcs!WorkerPC
  <2>8. LeftHeld'
    BY <2>1 DEF LeftHeld, Killing
  <2> QED
    BY <1>1, <1>2, <2>1, <2>7, <2>8 DEF PlcsInv
<1>10. CASE Plcs!CleanupEnd
  <2>1. /\ Kept /\ UNCHANGED <<wgroup, wleft, wtag>> /\ wpc = "destroy" /\ wpc' = "idle"
        /\ created' = created \ TagsOf(wgroup) /\ plc_tags' = plc_tags \ TagsOf(wgroup)
        /\ s7_error' = [s7_error EXCEPT ![wgroup] = FALSE]
    BY <1>4, <1>10 DEF Plcs!CleanupEnd, Plcs!plcs
  <2>2. WorkerTypes'
    <3>1. s7_error' \in [Hosts -> BOOLEAN]
      BY <2>1 DEF PlcsInv, WorkerTypes
    <3> QED
      BY <2>1, <3>1 DEF PlcsInv, WorkerTypes, Plcs!WorkerPC
  <2>3. \A t \in created' : t \in Tags'[Gateway[t]]
    BY <1>3, <2>1 DEF PlcsInv, CreatedHeld, WorkerTypes
  <2>4. CreatedHeld' /\ LeftHeld' /\ KilledHasNone' /\ HadHeld'
    BY <2>1, <2>3 DEF PlcsInv, CreatedHeld, LeftHeld, KilledHasNone, HadHeld, Killing
  <2> QED
    BY <1>1, <2>1, <2>2, <2>4 DEF PlcsInv
<1> QED
  BY <1>5, <1>6, <1>7, <1>8, <1>9, <1>10

(* A tag is created, or its name is not understood.                        *)
LEMMA CreatePlcsInv ==
    ASSUME PlcsInv, NEW t \in S7Tags, Plcs!PollCreate(t) PROVE PlcsInv'
<1>1. /\ UNCHANGED <<abandoned, lockObj, plc_tags, wgroup, wtag>>
      /\ wpc = "tags" /\ t \in wleft /\ Plcs!MakePlc(wgroup)
  BY DEF Plcs!PollCreate
<1>2. wgroup \in Hosts /\ Gateway[t] = wgroup
  BY <1>1 DEF PlcsInv, WorkerTypes, LeftHeld, TagsOf
<1>3. ThreadTypes'
  <2>1. CASE Plcs!NewPlc(wgroup)
    BY <1>1, <1>2, <2>1 DEF Plcs!NewPlc, Plcs!GoTo, PlcsInv, ThreadTypes, Plcs!ThreadPC
  <2>2. CASE UNCHANGED <<S7Plcs, state, sock, TerminateThread, tpc>>
    BY <1>1, <2>2 DEF PlcsInv, ThreadTypes
  <2> QED
    BY <1>1, <2>1, <2>2 DEF Plcs!MakePlc
<1>4. /\ S7Plcs' \in Seq(Hosts) /\ Plcs!IsMade(wgroup)'
      /\ \A h : Plcs!IsMade(h) => Plcs!IsMade(h)'
  <2>0. S7Plcs \in Seq(Hosts)
    BY DEF PlcsInv, ObjectTypes
  <2>1. CASE Plcs!IsMade(wgroup)
    BY <1>1, <2>0, <2>1 DEF Plcs!MakePlc, Plcs!IsMade, Plcs!Range
  <2>2. CASE ~ Plcs!IsMade(wgroup)
    <3>1. S7Plcs' = Append(S7Plcs, wgroup)
      BY <1>1, <2>2 DEF Plcs!MakePlc, Plcs!NewPlc
    <3> QED
      BY <1>1, <1>2, <2>0, <3>1, OneMade
  <2> QED
    BY <2>1, <2>2
<1>5. \/ /\ s7_error' = [s7_error EXCEPT ![wgroup] = TRUE] /\ wpc' = "idle" /\ wleft' = {}
         /\ UNCHANGED <<Tags, created, had>>
      \/ /\ Tags' = [Tags EXCEPT ![wgroup] = @ \cup {t}] /\ created' = created \cup {t}
         /\ had' = [had EXCEPT ![wgroup] = TRUE] /\ UNCHANGED <<s7_error, wpc, wleft>>
  BY DEF Plcs!PollCreate
<1>6. ObjectTypes'
  <2>0. Tags \in [Hosts -> SUBSET S7Tags] /\ had \in [Hosts -> BOOLEAN]
    BY DEF PlcsInv, ObjectTypes
  <2>1. Tags' \in [Hosts -> SUBSET S7Tags] /\ had' \in [Hosts -> BOOLEAN]
    <3>1. had' \in [Hosts -> BOOLEAN]
      BY <1>5, <2>0
    <3>2. Tags' \in [Hosts -> SUBSET S7Tags]
      <4>1. CASE Tags' = Tags
        BY <2>0, <4>1
      <4>2. CASE Tags' = [Tags EXCEPT ![wgroup] = @ \cup {t}]
        BY <1>2, <2>0, <4>2
      <4> QED
        BY <1>5, <4>1, <4>2
    <3> QED
      BY <3>1, <3>2
  <2>2. \A h \in Hosts : Tags'[h] \subseteq TagsOf(h)
    BY <1>2, <1>5 DEF PlcsInv, ObjectTypes, TagsOf
  <2> QED
    BY <1>1, <1>4, <2>1, <2>2 DEF PlcsInv, ObjectTypes
<1>7. WorkerTypes'
  <2>1. s7_error' \in [Hosts -> BOOLEAN]
    BY <1>2, <1>5 DEF PlcsInv, WorkerTypes
  <2> QED
    BY <1>1, <1>5, <2>1 DEF PlcsInv, WorkerTypes, Plcs!WorkerPC
<1>8. \A h \in Hosts : Tags[h] \subseteq Tags'[h] /\ (h # wgroup => Tags'[h] = Tags[h])
  BY <1>2, <1>5 DEF PlcsInv, ObjectTypes
<1>9. TagsMade'
  BY <1>1, <1>4, <1>8 DEF PlcsInv, TagsMade
<1>10. CreatedHeld'
  <2>1. \A u \in created : Gateway[u] \in Hosts /\ u \in Tags[Gateway[u]]
    BY <1>1, S7Assumption DEF PlcsInv, CreatedHeld, Killing, WorkerTypes, S7Assumption
  <2>2. \A u \in created' : u \in Tags'[Gateway[u]]
    BY <1>2, <1>5, <1>8, <2>1 DEF PlcsInv, ObjectTypes
  <2> QED
    BY <2>2 DEF CreatedHeld
<1>11. LeftHeld' /\ KilledHasNone'
  BY <1>1, <1>5 DEF PlcsInv, LeftHeld, KilledHasNone, Killing
<1>12. HadHeld'
  <2>1. \A h \in Hosts : had[h] => Tags[h] # {} \/ h \in abandoned
    BY <1>1 DEF PlcsInv, HadHeld, Killing
  <2>2. ASSUME NEW h \in Hosts, had'[h] PROVE Tags'[h] # {} \/ h \in abandoned'
    <3>1. CASE had[h]
      BY <1>1, <1>8, <2>1, <3>1
    <3>2. CASE ~had[h]
      <4>1. Tags' = [Tags EXCEPT ![wgroup] = @ \cup {t}] /\ had' = [had EXCEPT ![wgroup] = TRUE]
        BY <1>5, <2>2, <3>2
      <4>2. h = wgroup
        BY <2>2, <3>2, <4>1 DEF PlcsInv, ObjectTypes
      <4>3. t \in Tags'[wgroup]
        BY <1>2, <4>1 DEF PlcsInv, ObjectTypes
      <4> QED
        BY <4>2, <4>3
    <3> QED
      BY <3>1, <3>2
  <2> QED
    BY <2>2 DEF HadHeld
<1> QED
  BY <1>3, <1>6, <1>7, <1>9, <1>10, <1>11, <1>12 DEF PlcsInv

(* A tag is destroyed, and with it the PLC object that is found, if that   *)
(* one has no tags left.                                                   *)
LEMMA DestroyPlcsInv ==
    ASSUME PlcsInv, NEW t \in S7Tags, Plcs!DestroyTag(t) PROVE PlcsInv'
<1> DEFINE g == S7Plcs[1]
           empty == Tags[g] \subseteq {t} /\ g \notin abandoned
<1>1. wpc = "destroy" /\ t \in wleft /\ wgroup \in Hosts /\ wleft \subseteq Tags[wgroup]
  BY DEF Plcs!DestroyTag, PlcsInv, WorkerTypes, LeftHeld
<1>2. Gateway[t] = wgroup /\ wleft \subseteq S7Tags
  BY <1>1 DEF PlcsInv, ObjectTypes, TagsOf
<1>3. S7Plcs \in Seq(Hosts) /\ Len(S7Plcs) > 0 /\ Plcs!IsMade(wgroup)
  BY <1>1, MadeIsFound DEF PlcsInv, TagsMade, ObjectTypes
<1>4. Plcs!PlcOf(t) = g /\ g \in Hosts /\ Plcs!Owner(t) = wgroup
  BY <1>2, <1>3, FirstFound
<1>5. /\ Tags' = [Tags EXCEPT ![wgroup] = @ \ {t}]
      /\ abandoned' = IF g = wgroup THEN abandoned ELSE abandoned \cup {wgroup}
      /\ TerminateThread' = [TerminateThread EXCEPT ![g] = empty]
      /\ empty => wpc' = "close" /\ wtag' = t /\ wleft' = wleft
      /\ ~empty => wleft' = wleft \ {t} /\ wpc' = wpc /\ wtag' = wtag
      /\ UNCHANGED <<S7Plcs, state, sock, lockObj, tpc, wgroup, had>>
      /\ UNCHANGED <<plc_tags, created, s7_error>>
  BY <1>4 DEF Plcs!DestroyTag, Plcs!history, Plcs!group
<1>6. empty \in BOOLEAN
  OBVIOUS
<1>7. Tags[g] \subseteq TagsOf(g) /\ Tags \in [Hosts -> SUBSET S7Tags]
  BY <1>4 DEF PlcsInv, ObjectTypes
<1>8. empty => Tags'[g] = {} /\ g \notin abandoned'
  BY <1>1, <1>2, <1>4, <1>5, <1>7 DEF TagsOf
<1>9. ~empty => Tags'[g] # {} \/ g \in abandoned'
  <2>1. CASE g \in abandoned
    BY <1>5, <2>1
  <2>2. CASE ~(Tags[g] \subseteq {t})
    BY <1>1, <1>4, <1>5, <1>7, <2>2
  <2> QED
    BY <2>1, <2>2
<1>10. \A h \in Hosts : h # g => Tags'[h] = Tags[h] \/ h \in abandoned'
  BY <1>5, <1>7
<1> HIDE DEF empty, g
<1>11. ThreadTypes'
  <2>1. TerminateThread' \in [Hosts -> BOOLEAN]
    BY <1>5, <1>6 DEF PlcsInv, ThreadTypes
  <2> QED
    BY <1>5, <2>1 DEF PlcsInv, ThreadTypes
<1>12. \A h \in Hosts : Tags'[h] \subseteq Tags[h] /\ (h # wgroup => Tags'[h] = Tags[h])
  BY <1>5, <1>7
<1>13. ObjectTypes'
  <2>1. Tags' \in [Hosts -> SUBSET S7Tags] /\ abandoned' \subseteq Hosts
    BY <1>1, <1>5, <1>7 DEF PlcsInv, ObjectTypes
  <2> QED
    BY <1>5, <1>12, <2>1 DEF PlcsInv, ObjectTypes
<1>14. WorkerTypes'
  BY <1>5 DEF PlcsInv, WorkerTypes, Plcs!WorkerPC
<1>15. TagsMade'
  BY <1>3, <1>5, <1>12 DEF PlcsInv, TagsMade, Plcs!IsMade, Plcs!Range
<1>16. CreatedHeld'
  <2>1. \A u \in created : Gateway[u] \in Hosts /\ (u \in Tags[Gateway[u]] \/ Gateway[u] = wgroup)
    BY S7Assumption DEF PlcsInv, CreatedHeld, WorkerTypes, S7Assumption
  <2>2. wpc' = "destroy" \/ Killing'
    BY <1>1, <1>5 DEF Killing
  <2> QED
    BY <1>5, <1>12, <2>1, <2>2 DEF CreatedHeld
<1>17. LeftHeld'
  BY <1>1, <1>5, <1>7 DEF LeftHeld, Killing
<1>18. KilledHasNone'
  BY <1>1, <1>3, <1>5, <1>8 DEF KilledHasNone, Killing, g
<1>19. HadHeld'
  <2>1. ASSUME NEW h \in Hosts, had[h] PROVE Tags[h] # {} \/ h \in abandoned
    BY <1>1, <2>1 DEF PlcsInv, HadHeld, Killing
  <2>2. abandoned \subseteq abandoned'
    BY <1>5
  <2>3. empty => Killing' /\ S7Plcs'[1] = g
    BY <1>5 DEF Killing, g
  <2>4. ASSUME NEW h \in Hosts, had'[h]
        PROVE  Tags'[h] # {} \/ h \in abandoned' \/ (Killing' /\ h = S7Plcs'[1])
    BY <1>5, <1>9, <1>10, <2>1, <2>2, <2>3, <2>4
  <2> QED
    BY <2>4 DEF HadHeld
<1> QED
  BY <1>11, <1>13, <1>14, <1>15, <1>16, <1>17, <1>18, <1>19 DEF PlcsInv

(* The PLC object goes.                                                    *)
LEMMA KillPlcsInv ==
    ASSUME PlcsInv, Plcs!DestroyClose \/ Plcs!DestroyForget \/ Plcs!DestroyJoin PROVE PlcsInv'
<1> DEFINE g == S7Plcs[1]
<1>1. /\ Killing /\ S7Plcs \in Seq(Hosts) /\ Len(S7Plcs) > 0
      /\ Tags[g] = {} /\ g \notin abandoned
  <2>1. Killing
    BY DEF Plcs!DestroyClose, Plcs!DestroyForget, Plcs!DestroyJoin, Killing
  <2> QED
    BY <2>1 DEF PlcsInv, KilledHasNone, ObjectTypes
<1>2. Plcs!PlcOf(wtag) = g /\ g \in Hosts /\ Plcs!Found(wtag) = 1
  BY <1>1, FirstFound
<1>3. CASE Plcs!DestroyClose \/ Plcs!DestroyForget
  <2>1. /\ UNCHANGED <<S7Plcs, Tags, abandoned, had, plc_tags, created, s7_error>>
        /\ UNCHANGED <<wgroup, wleft, wtag>> /\ wpc' \in {"forget", "join"}
    BY <1>3 DEF Plcs!DestroyClose, Plcs!DestroyForget, Plcs!history, Plcs!group
  <2>2. ThreadTypes'
    <3>1. CASE Plcs!DestroyClose
      BY <1>2, <3>1 DEF Plcs!DestroyClose, PlcsInv, ThreadTypes
    <3>2. CASE Plcs!DestroyForget
      BY <1>2, <3>2 DEF Plcs!DestroyForget, Plcs!SockClose, PlcsInv, ThreadTypes
    <3> QED
      BY <1>3, <3>1, <3>2
  <2>3. ObjectTypes' /\ TagsMade'
    BY <2>1, ObjectsKept DEF PlcsInv
  <2>4. WorkerTypes'
    BY <2>1 DEF PlcsInv, WorkerTypes, Plcs!WorkerPC
  <2>5. CreatedHeld' /\ LeftHeld' /\ KilledHasNone' /\ HadHeld'
    BY <1>1, <2>1 DEF PlcsInv, CreatedHeld, LeftHeld, KilledHasNone, HadHeld, Killing
  <2> QED
    BY <2>2, <2>3, <2>4, <2>5 DEF PlcsInv
<1>4. CASE Plcs!DestroyJoin
  <2>1. /\ tpc' = [tpc EXCEPT ![g] = "none"] /\ S7Plcs' = Plcs!RemoveAt(S7Plcs, 1)
        /\ wleft' = wleft \ {wtag} /\ wpc' = "destroy" /\ wtag' = NoValue
        /\ had' = [had EXCEPT ![g] = FALSE]
        /\ UNCHANGED <<Tags, abandoned, state, sock, TerminateThread, lockObj>>
        /\ UNCHANGED <<plc_tags, created, s7_error, wgroup>>
    BY <1>2, <1>4 DEF Plcs!DestroyJoin, Plcs!GoTo, Plcs!group
  <2>2. S7Plcs' \in Seq(Hosts) /\ \A h : Plcs!IsMade(h) /\ h # g => Plcs!IsMade(h)'
    BY <1>1, <2>1, FirstRemoved
  <2> HIDE DEF g
  <2>3. ThreadTypes'
    BY <2>1 DEF PlcsInv, ThreadTypes, Plcs!ThreadPC
  <2>4. ObjectTypes'
    <3>1. had' \in [Hosts -> BOOLEAN]
      BY <2>1 DEF PlcsInv, ObjectTypes
    <3> QED
      BY <2>1, <2>2, <3>1 DEF PlcsInv, ObjectTypes
  <2>5. WorkerTypes'
    BY <2>1 DEF PlcsInv, WorkerTypes, Plcs!WorkerPC
  <2>6. TagsMade'
    <3>1. ASSUME NEW h \in Hosts, Tags'[h] # {} \/ h \in abandoned' PROVE Plcs!IsMade(h)'
      BY <1>1, <2>1, <2>2, <3>1 DEF PlcsInv, TagsMade
    <3> QED
      BY <3>1 DEF TagsMade
  <2>7. CreatedHeld' /\ LeftHeld' /\ KilledHasNone'
    BY <1>1, <2>1 DEF PlcsInv, CreatedHeld, LeftHeld, KilledHasNone, Killing
  <2>8. HadHeld'
    <3>1. ASSUME NEW h \in Hosts, had'[h] PROVE had[h] /\ h # g
      BY <2>1, <3>1 DEF PlcsInv, ObjectTypes
    <3>2. ASSUME NEW h \in Hosts, had[h], h # g PROVE Tags[h] # {} \/ h \in abandoned
      BY <3>2 DEF PlcsInv, HadHeld, g
    <3> QED
      BY <2>1, <3>1, <3>2 DEF HadHeld
  <2> QED
    BY <2>3, <2>4, <2>5, <2>6, <2>7, <2>8 DEF PlcsInv
<1> QED
  BY <1>3, <1>4

LEMMA NextPlcsInv == ASSUME PlcsInv, [Plcs!Next]_(Plcs!vars) PROVE PlcsInv'
<1>1. CASE UNCHANGED Plcs!vars
  <2>1. UNCHANGED <<S7Plcs, Tags, abandoned, had, state, sock, TerminateThread, lockObj, tpc,
                    plc_tags, created, s7_error, wpc, wgroup, wleft, wtag>>
    BY <1>1 DEF Plcs!vars, Plcs!plcs, Plcs!group, Plcs!worker, Plcs!history
  <2>2. ObjectTypes' /\ TagsMade'
    BY <2>1, ObjectsKept DEF PlcsInv
  <2>3. ThreadTypes' /\ WorkerTypes'
    BY <2>1 DEF PlcsInv, ThreadTypes, WorkerTypes
  <2> QED
    BY <2>1, <2>2, <2>3
    DEF PlcsInv, CreatedHeld, LeftHeld, KilledHasNone, HadHeld, Killing
<1> QED
  BY <1>1, ThreadPlcsInv, WritePlcsInv, PollPlcsInv, CreatePlcsInv, DestroyPlcsInv, KillPlcsInv
  DEF Plcs!Next, Plcs!Calls, Plcs!Worker

LEMMA InitPlcsInv == Plcs!Init => PlcsInv
<1> SUFFICES ASSUME Plcs!Init PROVE PlcsInv
  OBVIOUS
<1>1. ThreadTypes
  BY DEF Plcs!Init, ThreadTypes, Plcs!ThreadPC
<1>2. ObjectTypes /\ WorkerTypes
  BY DEF Plcs!Init, ObjectTypes, WorkerTypes, Plcs!WorkerPC
<1> QED
  BY <1>1, <1>2
  DEF Plcs!Init, PlcsInv, TagsMade, CreatedHeld, LeftHeld, KilledHasNone, HadHeld, Killing

(* Where the tags, PLC objects and cleanups of any number of groups are.   *)
THEOREM S7PlcsInv == Spec => []PlcsInv
<1>1. Init => PlcsInv
  BY InitPlcsInv DEF Init
<1>2. PlcsInv /\ [Plcs!Next]_(Plcs!vars) => PlcsInv'
  BY NextPlcsInv
<1> QED
  BY <1>1, <1>2, PlcsStep, PTL DEF Spec

(* A PLC object lives as long as it has tags, whichever group's cleanup    *)
(* finds it.                                                               *)
THEOREM S7KilledWhenEmpty == Spec => []Plcs!KilledWhenEmpty
<1>1. PlcsInv => Plcs!KilledWhenEmpty
  BY DEF PlcsInv, TagsMade, HadHeld, Killing, Plcs!KilledWhenEmpty
<1> QED
  BY <1>1, S7PlcsInv, PTL

(* The PLC that an idle worker finds for a tag is the first one there is   *)
(* (S7Com.cpp:112 and 125: all have the same identifier), while the tag's  *)
(* own, which is made, may be another.                                     *)
FirstIsFound ==
    wpc = "idle" => \A t \in created : Plcs!PlcOf(t) = S7Plcs[1] /\ Plcs!IsMade(Plcs!Owner(t))

(* Of any number of gateways, one alone has its tags found: FoundInOwnPlc  *)
(* holds of the tags of the first PLC and of no others.                    *)
THEOREM S7FirstIsFound == Spec => []FirstIsFound
<1>1. PlcsInv => FirstIsFound
  <2> SUFFICES ASSUME PlcsInv, wpc = "idle", NEW t \in created
               PROVE  Plcs!PlcOf(t) = S7Plcs[1] /\ Plcs!IsMade(Plcs!Owner(t))
    BY DEF FirstIsFound
  <2>1. t \in S7Tags /\ Gateway[t] \in Hosts
    BY S7Assumption DEF S7Assumption, PlcsInv, WorkerTypes
  <2>2. Plcs!IsMade(Gateway[t])
    BY <2>1 DEF PlcsInv, CreatedHeld, Killing, TagsMade
  <2>3. S7Plcs \in Seq(Hosts)
    BY DEF PlcsInv, ObjectTypes
  <2>4. Len(S7Plcs) > 0
    BY <2>2, <2>3, MadeIsFound
  <2> QED
    BY <2>1, <2>2, <2>3, <2>4, FirstFound DEF Plcs!Owner
<1> QED
  BY <1>1, S7PlcsInv, PTL
---------------------------------------------------------------------------
(***************************************************************************)
(* The fetched block of an S7 client (S7Memory), for tags that come in any *)
(* order and a polling thread that may be anywhere in a pass while they    *)
(* do.  That every tag is in the block does not hold (BlockCoversTags);    *)
(* what does is proved here: which tags are, that pieces are copied inside *)
(* the image, and of which addresses a tag's bytes are.                    *)
(***************************************************************************)

LEMMA RangeFacts == ASSUME NEW t \in S7!Names PROVE t.idx \in 0 .. Top /\ t.len \in Nat \ {0}
  BY MemoryAssumption DEF MemoryAssumption, S7!Names

(* A pass under way has something left, and the block and its image end    *)
(* inside the address space.                                               *)
PassOK == pc = "piece" => start <= i /\ i < start + quantity
EndsOK == Start + Quantity <= Top /\ size <= Quantity
BlockTypes == S7!TypeOK /\ PassOK /\ EndsOK

LEMMA TopFacts == Top \in Nat /\ Top \in 0 .. Top /\ 0 \in 0 .. Top /\ S7!Zero \in 0 .. Top
  BY MemoryAssumption DEF MemoryAssumption, S7!Zero

LEMMA InitBlockTypes == ASSUME S7!Init PROVE BlockTypes
<1>1. image \in [S7!Addresses -> 0 .. Top]
  BY TopFacts DEF S7!Init
<1>2. S7!TypeOK
  BY <1>1, TopFacts DEF S7!Init, S7!TypeOK
<1> QED
  BY <1>2, TopFacts DEF S7!Init, BlockTypes, PassOK, EndsOK

LEMMA PieceFacts ==
    ASSUME BlockTypes, pc = "piece"
    PROVE  /\ S7!Piece \in Nat \ {0}
           /\ i + S7!Piece <= start + quantity
           /\ S7!Left > S7!Piece => i + S7!Piece < start + quantity
  BY MemoryAssumption DEF MemoryAssumption, BlockTypes, S7!TypeOK, PassOK, S7!Piece, S7!Left

LEMMA FetchedAddress ==
    ASSUME BlockTypes, S7!PieceFetched
    PROVE  /\ image' \in [S7!Addresses -> Nat]
           /\ \A k \in S7!Addresses :
                  \/ k \notin S7!Copied /\ image'[k] = image[k]
                  \/ k \in S7!Copied /\ k < size /\ image'[k] = Start + k
<1>1. i \in Nat /\ Start \in Nat /\ S7!Addresses \subseteq Nat /\ image \in [S7!Addresses -> Nat]
  BY MemoryAssumption DEF MemoryAssumption, BlockTypes, S7!TypeOK, S7!Addresses
<1>2. ASSUME NEW k \in S7!Addresses PROVE i + (k - S7!Offset) = Start + k /\ Start + k \in Nat
  BY <1>1 DEF S7!Offset
<1>3. ASSUME NEW k \in S7!Addresses
      PROVE  image'[k] = IF k \in S7!Copied THEN i + (k - S7!Offset) ELSE image[k]
  BY DEF S7!PieceFetched
<1>4. image' \in [S7!Addresses -> Nat]
  BY <1>1, <1>2 DEF S7!PieceFetched
<1> QED
  BY <1>2, <1>3, <1>4 DEF S7!Copied, S7!PieceFetched

LEMMA AdvanceTypes ==
    ASSUME BlockTypes, pc = "piece", S7!Advance
    PROVE  /\ i' \in Nat
           /\ pc' \in {"pass", "piece"}
           /\ start' = start /\ quantity' = quantity
           /\ PassOK'
<1>1. i \in Nat /\ start \in Nat /\ quantity \in Nat /\ start <= i
  BY MemoryAssumption DEF MemoryAssumption, BlockTypes, S7!TypeOK, PassOK
<1> QED
  BY <1>1, PieceFacts DEF S7!Advance, PassOK

LEMMA RegisterTypes ==
    ASSUME BlockTypes, NEW t \in S7!Names, S7!Register(t)
    PROVE  BlockTypes'
<1>1. t.idx \in 0 .. Top /\ t.len \in Nat \ {0} /\ t.idx + t.len <= Top
  BY RangeFacts DEF S7!Register, S7!Fits
<1>2. /\ Start \in 0 .. Top /\ Quantity \in 0 .. Top /\ size \in 0 .. Top
      /\ Start + Quantity <= Top /\ size <= Quantity
  BY DEF BlockTypes, S7!TypeOK, EndsOK
<1>3. S7!NewStart(t) \in 0 .. Top /\ S7!NewStart(t) <= Start /\ S7!NewStart(t) <= t.idx
  BY <1>1, <1>2, MemoryAssumption DEF MemoryAssumption, S7!NewStart
<1>4. /\ S7!NewQuantity(t) \in 0 .. Top
      /\ S7!NewStart(t) + S7!NewQuantity(t) <= Top
      /\ Quantity <= S7!NewQuantity(t)
  BY <1>1, <1>2, <1>3, MemoryAssumption DEF MemoryAssumption, S7!NewQuantity
<1>5. EndsOK'
  BY <1>2, <1>4, MemoryAssumption DEF MemoryAssumption, EndsOK, S7!Register
<1>6. S7!TypeOK'
  BY <1>3, <1>4 DEF BlockTypes, S7!TypeOK, S7!Register, S7!poll
<1> QED
  BY <1>5, <1>6 DEF BlockTypes, PassOK, S7!Register, S7!poll

LEMMA NextBlockTypes == ASSUME BlockTypes, [S7!Next]_(S7!vars) PROVE BlockTypes'
<1>1. ASSUME NEW t \in S7!Names, S7!Register(t) PROVE BlockTypes'
  BY <1>1, RegisterTypes
<1>2. ASSUME NEW t \in S7!Names, S7!Unregister(t) PROVE BlockTypes'
  <2>1. S7!TypeOK'
    BY <1>2 DEF S7!Unregister, BlockTypes, S7!TypeOK, S7!block, S7!poll, S7!history
  <2> QED
    BY <1>2, <2>1 DEF S7!Unregister, BlockTypes, PassOK, EndsOK, S7!block, S7!poll
<1>3. CASE S7!PlcDestroyed
  <2>1. image' \in [S7!Addresses -> 0 .. Top]
    BY <1>3, TopFacts DEF S7!PlcDestroyed
  <2>2. S7!TypeOK'
    BY <1>3, <2>1, TopFacts DEF S7!PlcDestroyed, BlockTypes, S7!TypeOK, S7!poll
  <2> QED
    BY <1>3, <2>2, TopFacts DEF S7!PlcDestroyed, BlockTypes, PassOK, EndsOK, S7!poll
<1>4. CASE S7!Connect
  BY <1>4 DEF S7!Connect, BlockTypes, S7!TypeOK, PassOK, EndsOK, S7!block, S7!poll, S7!history
<1>5. CASE S7!PassBegin
  <2>1. {Start, Quantity, size} \subseteq 0 .. Top
    BY DEF BlockTypes, S7!TypeOK
  <2>2. PassOK' /\ EndsOK'
    BY <1>5, <2>1, TopFacts DEF S7!PassBegin, BlockTypes, PassOK, EndsOK
  <2>3. size' \in 0 .. Top /\ i' \in Nat /\ {start', quantity'} \subseteq 0 .. Top
    BY <1>5, <2>1, TopFacts DEF S7!PassBegin
  <2>4. S7!TypeOK'
    BY <1>5, <2>3 DEF S7!PassBegin, BlockTypes, S7!TypeOK, S7!history
  <2> QED
    BY <2>2, <2>4 DEF BlockTypes
<1>6. CASE S7!PieceFetched
  <2>1. ASSUME NEW k \in S7!Addresses, k < size PROVE Start + k \in 0 .. Top
    BY <2>1, MemoryAssumption DEF MemoryAssumption, BlockTypes, S7!TypeOK, EndsOK, S7!Addresses
  <2>2. image' \in [S7!Addresses -> 0 .. Top]
    BY <1>6, <2>1, FetchedAddress DEF BlockTypes, S7!TypeOK
  <2> QED
    BY <1>6, <2>2, AdvanceTypes DEF S7!PieceFetched, BlockTypes, S7!TypeOK, EndsOK, S7!block
<1>7. CASE S7!PieceFailed
  <2>1. linked' \in BOOLEAN
    BY <1>7 DEF S7!PieceFailed, BlockTypes, S7!TypeOK
  <2>2. fails' \in Nat
    <3>1. fails' = fails + 1 \/ fails' = fails
      BY <1>7 DEF S7!PieceFailed
    <3> QED
      BY <3>1 DEF BlockTypes, S7!TypeOK
  <2> QED
    BY <1>7, <2>1, <2>2, AdvanceTypes DEF S7!PieceFailed, BlockTypes, S7!TypeOK, EndsOK, S7!block
<1>8. CASE S7!WriteLosesLink
  <2>1. fails' \in Nat
    BY <1>8 DEF S7!WriteLosesLink, BlockTypes, S7!TypeOK
  <2> QED
    BY <1>8, <2>1 DEF S7!WriteLosesLink, BlockTypes, S7!TypeOK, PassOK, EndsOK, S7!block, S7!poll
<1>9. CASE UNCHANGED S7!vars
  BY <1>9 DEF S7!vars, BlockTypes, S7!TypeOK, PassOK, EndsOK, S7!block, S7!poll, S7!history
<1> QED
  BY <1>1, <1>2, <1>3, <1>4, <1>5, <1>6, <1>7, <1>8, <1>9 DEF S7!Next, S7!Worker, S7!PollStep

THEOREM MemoryTypeInv == Spec => []BlockTypes
<1>1. Init => BlockTypes
  BY InitBlockTypes DEF Init
<1>2. BlockTypes /\ [S7!Next]_(S7!vars) => BlockTypes'
  BY NextBlockTypes
<1> QED
  BY <1>1, <1>2, S7Step, PTL DEF Spec

(* The block, its image and the polling thread keep their types.           *)
THEOREM MemoryTypeOK == Spec => []S7!TypeOK
<1>1. BlockTypes => S7!TypeOK
  BY DEF BlockTypes
<1> QED
  BY <1>1, MemoryTypeInv, PTL
---------------------------------------------------------------------------
(* Whatever was registered meanwhile: the image has the block's size once  *)
(* it has grown, a pass under way asks for no more than the image has, and *)
(* an element of the image that is not from before the last move of the    *)
(* start has its own address.                                              *)
ImageGrown == ~Resized => size = Quantity
PassInImage == pc = "piece" => quantity <= size
ImageAligned == \A k \in S7!Addresses : k \in aged \/ image[k] \in {Start + k, S7!Zero}
MemoryInv == ImageGrown /\ PassInImage /\ ImageAligned /\ S7!CoveredSinceMove

LEMMA InitMemoryInv == ASSUME S7!Init PROVE MemoryInv
  BY DEF S7!Init, MemoryInv, ImageGrown, PassInImage, ImageAligned, S7!CoveredSinceMove

(* The tag that is registered is in the block, the earlier ones that were  *)
(* stay there if the start does, and no others are asked for.              *)
LEMMA RegisterCovers ==
    ASSUME BlockTypes, S7!CoveredSinceMove, NEW t \in S7!Names, S7!Register(t)
    PROVE  S7!CoveredSinceMove'
<1>1. /\ t.idx \in Nat /\ t.len \in Nat
      /\ \A u \in tags : u.idx \in Nat /\ u.len \in Nat
  BY RangeFacts, TopFacts DEF BlockTypes, S7!TypeOK
<1>2. Start \in Nat /\ Quantity \in Nat
  BY TopFacts DEF BlockTypes, S7!TypeOK
<1>3. /\ Start' = S7!NewStart(t) /\ Quantity' = S7!NewQuantity(t) /\ tags' = tags \cup {t}
      /\ before' = IF Start' = Start THEN before \ {t} ELSE tags
  BY DEF S7!Register
<1>4. Start' \in Nat /\ Quantity' \in Nat /\ Start' <= t.idx
  BY <1>1, <1>2, <1>3 DEF S7!NewStart, S7!NewQuantity
<1>5. t.idx + t.len <= Start' + Quantity'
  BY <1>1, <1>2, <1>3, <1>4 DEF S7!NewQuantity
<1>6. Quantity <= Quantity'
  BY <1>1, <1>2, <1>3, <1>4 DEF S7!NewQuantity
<1>7. ASSUME NEW u \in tags \ before, Start' = Start
      PROVE  Start' <= u.idx /\ u.idx + u.len <= Start' + Quantity'
  <2>1. Start <= u.idx /\ u.idx + u.len <= Start + Quantity
    BY DEF S7!CoveredSinceMove
  <2> QED
    BY <1>1, <1>2, <1>4, <1>6, <1>7, <2>1
<1>8. tags' \ before' \subseteq {t} \cup (IF Start' = Start THEN tags \ before ELSE {})
  BY <1>3
<1> QED
  BY <1>4, <1>5, <1>7, <1>8 DEF S7!CoveredSinceMove

LEMMA RegisterMemoryInv ==
    ASSUME BlockTypes, MemoryInv, NEW t \in S7!Names, S7!Register(t)
    PROVE  MemoryInv'
<1>1. S7!CoveredSinceMove'
  BY RegisterCovers DEF MemoryInv
<1>2. ImageGrown'
  <2>1. Resized' = (Resized \/ Start' # Start \/ Quantity' # Quantity) /\ size' = size
    BY DEF S7!Register
  <2> QED
    BY <2>1 DEF MemoryInv, ImageGrown
<1>3. PassInImage'
  BY DEF MemoryInv, PassInImage, S7!Register, S7!poll
<1>4. ImageAligned'
  BY DEF MemoryInv, ImageAligned, S7!Register
<1> QED
  BY <1>1, <1>2, <1>3, <1>4 DEF MemoryInv

LEMMA NextMemoryInv == ASSUME BlockTypes, MemoryInv, [S7!Next]_(S7!vars) PROVE MemoryInv'
<1> USE DEF MemoryInv, ImageGrown, PassInImage, ImageAligned, S7!CoveredSinceMove
<1>1. ASSUME NEW t \in S7!Names, S7!Register(t) PROVE MemoryInv'
  BY <1>1, RegisterMemoryInv
<1>2. ASSUME NEW t \in S7!Names, S7!Unregister(t) PROVE MemoryInv'
  BY <1>2 DEF S7!Unregister, S7!block, S7!poll, S7!history
<1>3. CASE S7!PlcDestroyed
  BY <1>3 DEF S7!PlcDestroyed, S7!poll
<1>4. CASE S7!Connect
  BY <1>4 DEF S7!Connect, S7!block, S7!poll, S7!history
<1>5. CASE S7!PassBegin
  <2>1. quantity' <= size'
    BY <1>5, TopFacts DEF S7!PassBegin, BlockTypes, S7!TypeOK
  <2>2. ~Resized' => size' = Quantity'
    BY <1>5 DEF S7!PassBegin
  <2> QED
    BY <1>5, <2>1, <2>2 DEF S7!PassBegin, S7!history
<1>6. CASE S7!PieceFetched
  <2>1. ImageAligned'
    BY <1>6, FetchedAddress DEF S7!PieceFetched, S7!block
  <2>2. PassInImage'
    BY <1>6, AdvanceTypes DEF S7!PieceFetched
  <2> QED
    BY <1>6, <2>1, <2>2 DEF S7!PieceFetched, S7!block
<1>7. CASE S7!PieceFailed
  BY <1>7, AdvanceTypes DEF S7!PieceFailed, S7!block
<1>8. CASE S7!WriteLosesLink
  BY <1>8 DEF S7!WriteLosesLink, S7!block, S7!poll
<1>9. CASE UNCHANGED S7!vars
  BY <1>9 DEF S7!vars, S7!block, S7!poll, S7!history
<1> QED
  BY <1>1, <1>2, <1>3, <1>4, <1>5, <1>6, <1>7, <1>8, <1>9 DEF S7!Next, S7!Worker, S7!PollStep

(* Where the block, its image and a pass under way are, in any order of    *)
(* registration.                                                           *)
THEOREM MemoryInvariant == Spec => []MemoryInv
<1>1. Init => MemoryInv
  BY InitMemoryInv DEF Init
<1>2. BlockTypes /\ MemoryInv /\ [S7!Next]_(S7!vars) => MemoryInv'
  BY NextMemoryInv
<1> QED
  BY <1>1, <1>2, MemoryTypeInv, S7Step, PTL DEF Spec

(* A tag falls out of the fetched block only when a lower one comes: those *)
(* that came since the start last moved down, and the one that moved it,   *)
(* are in it.                                                              *)
THEOREM MemoryCoveredSinceMove == Spec => []CoveredSinceMove
<1>1. MemoryInv => CoveredSinceMove
  BY DEF MemoryInv, CoveredSinceMove
<1> QED
  BY <1>1, MemoryInvariant, PTL

(* No piece of a pass that has the block's start is asked for past the end *)
(* of the image, for any size of the address space, the tags, the answers. *)
THEOREM MemoryCopyInImage == Spec => []S7!CopyInImage
<1>1. BlockTypes /\ MemoryInv => S7!CopyInImage
  <2> SUFFICES ASSUME BlockTypes, MemoryInv, pc = "piece", start = Start
               PROVE  Start <= i /\ i + S7!Piece - Start <= size
    BY DEF S7!CopyInImage
  <2>1. quantity <= size /\ start <= i
    BY DEF MemoryInv, PassInImage, BlockTypes, PassOK
  <2>2. i + S7!Piece <= start + quantity /\ S7!Piece \in Nat
    BY PieceFacts
  <2>3. {start, quantity, size, i} \subseteq Nat
    BY MemoryAssumption DEF MemoryAssumption, BlockTypes, S7!TypeOK
  <2> QED
    BY <2>1, <2>2, <2>3
<1> QED
  BY <1>1, MemoryTypeInv, MemoryInvariant, PTL

(* A tag that may be read lies inside the image, and what was copied there *)
(* since the start last moved is of the tag's own addresses, although the  *)
(* pass that copied it may have begun before the move.                     *)
THEOREM MemoryReadsOwnBytes == Spec => []ReadsOwnBytes
<1>1. BlockTypes /\ MemoryInv => S7!ReadsOwnBytes
  <2> SUFFICES ASSUME BlockTypes, MemoryInv, NEW t \in tags, S7!Readable(t), NEW k \in S7!Bytes(t)
               PROVE  k < size /\ (k \in aged \/ image[k] \in {Start + k, S7!Zero})
    BY DEF S7!ReadsOwnBytes
  <2>1. t.idx \in Nat /\ t.len \in Nat
    <3>1. t \in S7!Names
      BY DEF BlockTypes, S7!TypeOK
    <3> QED
      BY <3>1, RangeFacts, TopFacts
  <2>2. Start \in Nat /\ Quantity \in Nat /\ size = Quantity /\ Start + Quantity <= Top
    BY MemoryAssumption
    DEF MemoryAssumption, BlockTypes, S7!TypeOK, EndsOK, MemoryInv, ImageGrown, S7!Readable
  <2>3. k \in Nat /\ k < Quantity
    BY <2>1, <2>2 DEF S7!Readable, S7!Bytes
  <2>4. k \in S7!Addresses
    BY <2>2, <2>3, MemoryAssumption DEF MemoryAssumption, S7!Addresses
  <2> QED
    BY <2>2, <2>3, <2>4 DEF MemoryInv, ImageAligned
<1>2. S7!CopyInImage /\ S7!ReadsOwnBytes => ReadsOwnBytes
  BY DEF ReadsOwnBytes
<1> QED
  BY <1>1, <1>2, MemoryTypeInv, MemoryInvariant, MemoryCopyInImage, PTL
---------------------------------------------------------------------------
(* Whatever dies and is set up again, so much of a session that is given   *)
(* up is forgotten: its subscriptions, the values of the session before    *)
(* it, node ids that were invalidated, and pages of a browse.  That values *)
(* and node ids of the lost session itself go (OfThisSession) does not     *)
(* hold.                                                                   *)
THEOREM GroupsForgetSessions == Spec => []SessionsForgotten
<1>1. /\ Mqtt!SubscribedHere /\ Mqtt!NoneOlderThanLast /\ OpcUa!ReResolved
      /\ Editor!ResultsOfOneSession
      => SessionsForgotten
  BY DEF SessionsForgotten
<1> QED
  BY <1>1, MqttOfThisSession, OpcUaReResolved, BrowseResultsOfOneSession, PTL

(* Every transport counts the initialized tags of a group once: on this    *)
(* count process() announces the group.                                    *)
THEOREM TagsCountedOnce == Spec => []InitCountOnce
<1>1. /\ Rtde!InitCountOnce /\ Plcs!InitCountExact /\ Mqtt!InitCountExact
      /\ OpcUa!InitCountExact /\ Ads!InitCountExact
      => InitCountOnce
  BY DEF InitCountOnce
<1> QED
  BY <1>1, RtdeInitCountOnce, S7InitCountExact, MqttOfThisSession, OpcUaReResolved,
     AdsHandlesOfDevice, PTL

(* What is read after a poll is what that poll brought: the tags of an     *)
(* opc_ua or ads group have all been read, and a controller's variables    *)
(* are those of its last package that had arrived whole.                   *)
THEOREM GroupsFreshAfterPoll == Spec => []FreshAfterPoll
<1>1. Rtde!FreshAfterPoll /\ OpcUa!FreshAfterPoll /\ Ads!FreshAfterPoll => FreshAfterPoll
  BY DEF FreshAfterPoll
<1> QED
  BY <1>1, RtdeFreshAfterPoll, OpcUaReResolved, AdsHandlesOfDevice, PTL

(* What a group holds of its peer, sockets, PLC objects, handles and       *)
(* endpoints, is held neither too long nor too short.                      *)
THEOREM GroupsHoldPeers == Spec => []PeersHeld
<1>1. /\ Rtde!NoSocketKept /\ Plcs!KilledWhenEmpty /\ Ads!HandlesOfDevice /\ Editor!EndpointSaved
      => PeersHeld
  BY DEF PeersHeld
<1> QED
  BY <1>1, RtdeNoSocketKept, S7KilledWhenEmpty, AdsHandlesOfDevice, BrowseResultsOfOneSession, PTL
---------------------------------------------------------------------------
(***************************************************************************)
(* Types.  Of S7Plcs and S7Memory all are parts of the invariants above;   *)
(* these are the others.                                                   *)
(***************************************************************************)

(* MqttSession: tags are left over only in the loop that subscribes them,  *)
(* and a client has a number.                                              *)
MqttTypes == /\ Mqtt!TypeOK
             /\ mqtt_pc # "subscribe" => mqtt_left = {}
             /\ mqtt_client # "none" => mqtt_session > 0

MqttRest ==
    /\ topics \subseteq Topics /\ subscribed \subseteq topics
    /\ cached \in [Topics -> 0 .. mqtt_session]
    /\ mqtt_count \in Nat
    /\ mqtt_client \in {"none", "up", "down"} /\ mqtt_session \in Nat
    /\ broker \subseteq Topics
    /\ arriving \subseteq Topics \X (1 .. mqtt_session)
    /\ mqtt_pc \in {"idle", "connect", "subscribe", "destroy"} /\ mqtt_left \subseteq topics
    /\ mqtt_pc # "subscribe" => mqtt_left = {}
    /\ mqtt_client # "none" => mqtt_session > 0

LEMMA NextMqttTypes ==
    ASSUME MqttInv, MqttTypes, [Mqtt!Next]_(Mqtt!vars) PROVE MqttTypes'
<1> USE DEF MqttTypes, Mqtt!TypeOK
<1>0. mqtt_session \in Nat
  BY DEF MqttInv
<1>1. CASE Mqtt!Poll
  BY <1>1 DEF Mqtt!Poll, Mqtt!Forget
<1>2. CASE Mqtt!Connect
  BY <1>2 DEF Mqtt!Connect, Mqtt!group
<1>3. ASSUME NEW t \in Topics, Mqtt!Subscribe(t) PROVE MqttTypes'
  <2>1. (mqtt_error \in BOOLEAN)'
    BY <1>3, Zenon DEF Mqtt!Subscribe
  <2>2. MqttRest'
    BY <1>3 DEF Mqtt!Subscribe, MqttRest
  <2> QED
    BY <2>1, <2>2 DEF MqttRest
<1>4. CASE Mqtt!PollEnd \/ Mqtt!Cleanup \/ Mqtt!LinkDown
  BY <1>4 DEF Mqtt!PollEnd, Mqtt!Cleanup, Mqtt!LinkDown, Mqtt!group
<1>5. CASE Mqtt!Destroy
  <2>1. (mqtt_error \in BOOLEAN)'
    BY <1>5, Zenon DEF Mqtt!Destroy
  <2>2. MqttRest'
    BY <1>5 DEF Mqtt!Destroy, MqttRest
  <2> QED
    BY <2>1, <2>2 DEF MqttRest
<1>6. ASSUME NEW t \in Topics, Mqtt!register_tag(t) \/ Mqtt!Message(t) PROVE MqttTypes'
  BY <1>6 DEF Mqtt!register_tag, Mqtt!Message, Mqtt!group
<1>7. ASSUME NEW m \in arriving, Mqtt!mqtt_message_arrived(m) PROVE MqttTypes'
  BY <1>7 DEF Mqtt!mqtt_message_arrived, Mqtt!group
<1>8. CASE UNCHANGED Mqtt!vars
  BY <1>8 DEF Mqtt!vars, Mqtt!group
<1> QED
  BY <1>1, <1>2, <1>3, <1>4, <1>5, <1>6, <1>7, <1>8 DEF Mqtt!Next, Mqtt!Worker, Mqtt!Callback

(* OpcUaSession.                                                           *)
OpcUaFlags ==
    /\ sim_running \in BOOLEAN /\ ua_error \in BOOLEAN /\ alive \in BOOLEAN
    /\ needs_session_recovered_signal \in BOOLEAN /\ signalling \in BOOLEAN
OpcUaRest ==
    /\ opc_ua_tags \subseteq OpcUaTags /\ ua_initialized \subseteq opc_ua_tags
    /\ ua_read \subseteq OpcUaTags
    /\ ua_count \in Nat
    /\ ua_client \in {"none", "good", "bad"} /\ clients \in Nat
    /\ resolved \in [OpcUaTags -> 0 .. clients] /\ invalid \in 0 .. clients
    /\ ua_pc \in {"idle", "connect", "tags", "read", "write"}
    /\ ua_left \subseteq OpcUaTags
    /\ ua_pc \in {"read", "write"} => ua_tag \in OpcUaTags

LEMMA OpcUaTypesSplit == OpcUa!TypeOK <=> OpcUaFlags /\ OpcUaRest
BY Zenon DEF OpcUa!TypeOK, OpcUaFlags, OpcUaRest

LEMMA NextOpcUaTypes ==
    ASSUME OpcUaInv, OpcUa!TypeOK, [OpcUa!Next]_(OpcUa!vars) PROVE OpcUa!TypeOK'
<1> USE DEF OpcUa!TypeOK, OpcUaFlags, OpcUaRest, OpcUa!flags, OpcUa!server, OpcUa!worker
<1>1. CASE OpcUa!Poll
  BY <1>1 DEF OpcUa!Poll
<1>2. CASE OpcUa!Connect
  <2>1. OpcUaFlags'
    BY <1>2, Zenon DEF OpcUa!Connect
  <2>2. OpcUaRest'
    BY <1>2 DEF OpcUa!Connect
  <2> QED
    BY <2>1, <2>2, OpcUaTypesSplit
<1>3. ASSUME NEW t \in OpcUaTags, OpcUa!InitTag(t) PROVE OpcUa!TypeOK'
  <2>1. OpcUaFlags'
    BY <1>3, Zenon DEF OpcUa!InitTag, OpcUa!StopSimulation
  <2>2. resolved' \in [OpcUaTags -> 0 .. clients]
    BY <1>3 DEF OpcUa!InitTag
  <2>3. /\ ua_initialized' = ua_initialized \/ ua_initialized' = ua_initialized \cup {t}
        /\ ua_count' = ua_count \/ ua_count' = ua_count + 1
        /\ t \in ua_left /\ UNCHANGED <<opc_ua_tags, ua_read, ua_client, clients, invalid>>
    BY <1>3 DEF OpcUa!InitTag
  <2>4. ua_initialized' \subseteq opc_ua_tags'
    BY <1>3, <2>3 DEF OpcUaInv, OpcUa!InitTag
  <2>5. /\ ua_pc' \in {"idle", "read"} /\ ua_left' \subseteq OpcUaTags
        /\ ua_pc' = "read" => ua_tag' \in OpcUaTags
    BY <1>3 DEF OpcUa!InitTag, OpcUa!StopSimulation
  <2>6. OpcUaRest'
    BY <2>2, <2>3, <2>4, <2>5
  <2> QED
    BY <2>1, <2>6, OpcUaTypesSplit
<1>4. ASSUME NEW t \in OpcUaTags, OpcUa!NextTag(t) \/ OpcUa!Write(t) \/ OpcUa!Mismatch(t)
      PROVE OpcUa!TypeOK'
  BY <1>4 DEF OpcUa!NextTag, OpcUa!Write, OpcUa!Mismatch
<1>5. CASE OpcUa!ReadTag
  <2>1. OpcUaFlags'
    BY <1>5, Zenon DEF OpcUa!ReadTag, OpcUa!Invalidate, OpcUa!StopSimulation
  <2>2. OpcUaRest'
    BY <1>5 DEF OpcUa!ReadTag, OpcUa!Invalidate, OpcUa!StopSimulation
  <2> QED
    BY <2>1, <2>2, OpcUaTypesSplit
<1>6. CASE OpcUa!WriteTag
  <2>1. OpcUaFlags'
    BY <1>6, Zenon DEF OpcUa!WriteTag, OpcUa!Invalidate
  <2>2. OpcUaRest'
    BY <1>6 DEF OpcUa!WriteTag, OpcUa!Invalidate
  <2> QED
    BY <2>1, <2>2, OpcUaTypesSplit
<1>7. CASE OpcUa!PollEnd \/ OpcUa!Cleanup
  <2>1. OpcUaFlags'
    BY <1>7, Zenon DEF OpcUa!PollEnd, OpcUa!Cleanup
  <2>2. OpcUaRest'
    BY <1>7 DEF OpcUa!PollEnd, OpcUa!Cleanup
  <2> QED
    BY <2>1, <2>2, OpcUaTypesSplit
<1>8. CASE OpcUa!SessionDies \/ OpcUa!Noticed \/ OpcUa!Announce \/ OpcUa!Announced
  BY <1>8 DEF OpcUa!SessionDies, OpcUa!Noticed, OpcUa!Announce, OpcUa!Announced
<1>9. ASSUME NEW v \in BOOLEAN, OpcUa!set_sim_running(v) PROVE OpcUa!TypeOK'
  BY <1>9 DEF OpcUa!set_sim_running
<1>10. CASE UNCHANGED OpcUa!vars
  BY <1>10 DEF OpcUa!vars
<1> QED
  BY <1>1, <1>2, <1>3, <1>4, <1>5, <1>6, <1>7, <1>8, <1>9, <1>10
  DEF OpcUa!Next, OpcUa!Worker, OpcUa!Main

(* AdsSession.                                                             *)
AdsFlags == ads_error \in BOOLEAN /\ ads_client \in BOOLEAN
AdsRest ==
    /\ ads_tags \subseteq AdsTags /\ ads_initialized \subseteq AdsTags
    /\ ads_handle \subseteq AdsTags /\ ads_read \subseteq AdsTags
    /\ ads_count \in Nat
    /\ ads_pc \in {"idle", "device", "tags", "read", "handles", "close"}
    /\ ads_left \subseteq AdsTags /\ (ads_pc = "read" => ads_tag \in AdsTags)

LEMMA AdsTypesSplit == Ads!TypeOK <=> AdsFlags /\ AdsRest
BY Zenon DEF Ads!TypeOK, AdsFlags, AdsRest

LEMMA NextAdsTypes == ASSUME AdsInv, Ads!TypeOK, [Ads!Next]_(Ads!vars) PROVE Ads!TypeOK'
<1> USE DEF Ads!TypeOK, AdsFlags, AdsRest
<1>1. CASE Ads!Poll \/ Ads!init_ads_device
  BY <1>1 DEF Ads!Poll, Ads!init_ads_device
<1>2. ASSUME NEW t \in AdsTags, Ads!init_ads_tag(t) PROVE Ads!TypeOK'
  <2>1. AdsFlags'
    BY <1>2, Zenon DEF Ads!init_ads_tag, Ads!Fail
  <2>2. AdsRest'
    BY <1>2 DEF Ads!init_ads_tag, Ads!Fail
  <2> QED
    BY <2>1, <2>2, AdsTypesSplit
<1>3. ASSUME NEW t \in AdsTags, Ads!NextTag(t) \/ Ads!register_tag(t) \/ Ads!Mismatch(t)
      PROVE Ads!TypeOK'
  BY <1>3 DEF Ads!NextTag, Ads!register_tag, Ads!Mismatch
<1>4. CASE Ads!ReadTag
  BY <1>4 DEF Ads!ReadTag, Ads!Fail
<1>5. CASE Ads!PollEnd \/ Ads!Cleanup \/ Ads!DeleteTags \/ Ads!DeleteDevice
  <2>1. AdsFlags'
    BY <1>5, Zenon DEF Ads!PollEnd, Ads!Cleanup, Ads!DeleteTags, Ads!DeleteDevice
  <2>2. AdsRest'
    BY <1>5 DEF Ads!PollEnd, Ads!Cleanup, Ads!DeleteTags, Ads!DeleteDevice
  <2> QED
    BY <2>1, <2>2, AdsTypesSplit
<1>6. CASE UNCHANGED Ads!vars
  BY <1>6 DEF Ads!vars
<1> QED
  BY <1>1, <1>2, <1>3, <1>4, <1>5, <1>6 DEF Ads!Next, Ads!Worker

(* SoftPlc.                                                                *)
SoftFlags == soft_initialized \in BOOLEAN /\ soft_error \in BOOLEAN /\ replaced \in BOOLEAN
SoftRest ==
    /\ soft_tags \subseteq PlcTags /\ value \in [PlcTags -> {"none", "part", "program"}]
    /\ is_input \subseteq soft_tags /\ is_output \subseteq soft_tags
    /\ {program_source, handle} \subseteq Programs \cup {NoProgram}
    /\ last_phys_frame \in Nat /\ frame \in Nat /\ began \in Nat /\ elapsed \in Nat
    /\ soft_pc \in {"idle", "compiled", "scan"}
    /\ seen \subseteq soft_tags

LEMMA SoftTypesSplit == Soft!TypeOK <=> SoftFlags /\ SoftRest
BY Zenon DEF Soft!TypeOK, SoftFlags, SoftRest

LEMMA NextSoftTypes ==
    ASSUME Soft!TypeOK, TimeInv, [Soft!Next]_(Soft!vars) PROVE Soft!TypeOK'
<1> USE SoftPlcAssumption DEF Soft!TypeOK, SoftFlags, SoftRest, Soft!io, Soft!history, SoftPlcAssumption
<1>1. CASE Soft!Poll
  BY <1>1 DEF Soft!Poll
<1>2. CASE Soft!Mark
  BY <1>2 DEF Soft!Mark
<1>3. CASE Soft!Scan
  BY <1>3, NextTimeInv DEF Soft!Scan, TimeInv
<1>4. CASE Soft!Cleanup \/ Soft!PhysicsFrame
  <2>1. SoftFlags'
    BY <1>4, Zenon DEF Soft!Cleanup, Soft!PhysicsFrame
  <2>2. SoftRest'
    BY <1>4 DEF Soft!Cleanup, Soft!PhysicsFrame
  <2> QED
    BY <2>1, <2>2, SoftTypesSplit
<1>5. ASSUME NEW t \in PlcTags, Soft!register_tag(t) \/ Soft!Write(t) PROVE Soft!TypeOK'
  BY <1>5 DEF Soft!register_tag, Soft!Write
<1>6. ASSUME NEW p \in Programs, Soft!set_soft_plc_program(p) PROVE Soft!TypeOK'
  BY <1>6 DEF Soft!set_soft_plc_program
<1>7. CASE UNCHANGED Soft!vars
  BY <1>7 DEF Soft!vars
<1> QED
  BY <1>1, <1>2, <1>3, <1>4, <1>5, <1>6, <1>7 DEF Soft!Next, Soft!Worker

(* BrowseSession: the next page is asked for only while there is one.      *)
BrowseTypes == /\ Editor!TypeOK
               /\ browse_pc = "next" => continuation > 0
               /\ browse_client # "none" => browse_session > 0

LEMMA NextBrowseTypes ==
    ASSUME BrowseInv, BrowseTypes, [Editor!Next]_(Editor!vars) PROVE BrowseTypes'
<1> USE BrowseAssumption DEF BrowseTypes, BrowseAssumption, BrowseInv, Editor!EndpointSaved,
        Editor!TypeOK, Editor!Connected, Editor!Disconnected
<1>1. CASE Editor!Browse \/ Editor!BrowseAgain
  <2>1. ASSUME Editor!Answered PROVE BrowseTypes'
    <3>1. PICK pages \in 0 .. MaxPages :
              continuation' = pages /\ browse_pc' = IF pages = 0 THEN "idle" ELSE "next"
      BY <2>1 DEF Editor!Answered
    <3>2. /\ browse_client = "active" /\ browse_session > 0
          /\ results' = results \cup {browse_session}
          /\ UNCHANGED <<browse_client, browse_endpoint, browse_session>>
      BY <2>1 DEF Editor!Answered
    <3> QED
      BY <3>1, <3>2
  <2>2. ASSUME Editor!Failed PROVE BrowseTypes'
    BY <2>2 DEF Editor!Failed
  <2>3. ASSUME browse_client = "dead", Editor!Reconnected("again"),
               UNCHANGED <<continuation, results>>
        PROVE  BrowseTypes'
    BY <2>3 DEF Editor!Reconnected
  <2> QED
    BY <1>1, <2>1, <2>2, <2>3, Zenon DEF Editor!Browse, Editor!BrowseAgain
<1>2. CASE Editor!BrowseNext
  BY <1>2 DEF Editor!BrowseNext, Editor!Failed
<1>3. CASE Editor!ReadValue
  <2>1. CASE Editor!Failed
    BY <2>1 DEF Editor!Failed
  <2>2. CASE browse_client = "dead" /\ Editor!Reconnected("idle")
             /\ UNCHANGED <<continuation, results>>
    BY <2>2 DEF Editor!Reconnected
  <2> QED
    BY <1>3, <2>1, <2>2, Zenon DEF Editor!ReadValue
<1>4. CASE Editor!SessionDies \/ Editor!browse_disconnect
  BY <1>4 DEF Editor!SessionDies, Editor!browse_disconnect
<1>5. ASSUME NEW endpoint \in Endpoints, Editor!browse_connect(endpoint) PROVE BrowseTypes'
  BY <1>5 DEF Editor!browse_connect
<1>6. ASSUME NEW first \in {"browse", "read"}, Editor!Call(first) PROVE BrowseTypes'
  BY <1>6 DEF Editor!Call, Editor!Reconnected
<1>7. CASE UNCHANGED Editor!vars
  BY <1>7 DEF Editor!vars
<1> QED
  BY <1>1, <1>2, <1>3, <1>4, <1>5, <1>6, <1>7 DEF Editor!Next, Editor!Step

(* RtdeSession: what none of its invariants is about.                      *)
RtdeTypes ==
    /\ offset \in [TagNames -> Int]
    /\ have_output_data \in BOOLEAN /\ input_recipe_setup \in BOOLEAN
    /\ peer_closed \in BOOLEAN /\ cut \in BOOLEAN
    /\ trouble \in Nat /\ delivered \in BOOLEAN /\ garbled \in BOOLEAN

LEMMA HandshakeRtdeTypes ==
    ASSUME IInv, FieldsInv, RtdeTypes, Rtde!Handshake PROVE RtdeTypes'
<1> USE DEF RtdeTypes, Rtde!session, Rtde!history
<1>1. CASE Rtde!HandshakeReceive
  BY <1>1 DEF Rtde!HandshakeReceive
<1>2. CASE Rtde!HandshakeFails
  BY <1>2 DEF Rtde!HandshakeFails, Rtde!FreshRobot
<1>3. CASE Rtde!VersionAgreed
  BY <1>3 DEF Rtde!VersionAgreed, Rtde!Request
<1>4. CASE Rtde!StreamStarted
  BY <1>4 DEF Rtde!StreamStarted, Rtde!robot
<1>5. CASE Rtde!OutputsSetUp
  <2>1. ASSUME Rtde!Names(TRUE) = << >> PROVE Rtde!Offsets \in [TagNames -> Int]
    <3>1. rpc = "O" /\ Rtde!AllFound(Rtde!Names(FALSE)) /\ Rtde!TagsResolve
      BY <1>5, <2>1 DEF Rtde!OutputsSetUp, Rtde!Accepted
    <3>2. Rtde!AllFound(<< >>)
      <4>1. DOMAIN << >> = {}
        OBVIOUS
      <4> QED
        BY <4>1, Zenon DEF Rtde!AllFound
    <3> QED
      BY <2>1, <3>1, <3>2, FoundIsKnown, OffsetsTyped
  <2>2. offset' \in [TagNames -> Int]
    BY <1>5, <2>1 DEF Rtde!OutputsSetUp
  <2>3. UNCHANGED <<have_output_data, input_recipe_setup, peer_closed, cut, trouble, delivered,
                    garbled>>
    BY <1>5 DEF Rtde!OutputsSetUp, Rtde!Request
  <2> QED
    BY <2>2, <2>3
<1>6. CASE Rtde!InputsSetUp
  <2>1. Rtde!AllFound(Rtde!Names(TRUE)) /\ Rtde!TagsResolve /\ rpc = "I"
    BY <1>6 DEF Rtde!InputsSetUp, Rtde!Accepted
  <2>2. Rtde!Offsets \in [TagNames -> Int]
    BY <2>1, FoundIsKnown, OffsetsTyped DEF FieldsInv
  <2>3. /\ offset' = Rtde!Offsets /\ input_recipe_setup' = TRUE
        /\ UNCHANGED <<have_output_data, peer_closed, cut, trouble, delivered, garbled>>
    BY <1>6 DEF Rtde!InputsSetUp, Rtde!Request
  <2> QED
    BY <2>2, <2>3
<1> QED
  BY <1>1, <1>2, <1>3, <1>4, <1>5, <1>6 DEF Rtde!Handshake

LEMMA WorkerRtdeTypes == ASSUME RtdeTypes, Rtde!Worker PROVE RtdeTypes'
<1> USE DEF RtdeTypes, Rtde!session, Rtde!history
<1>1. CASE Rtde!SessionBegin \/ Rtde!Cleanup
  <2>1. /\ offset' = [t \in TagNames |-> 0] /\ have_output_data' = FALSE
        /\ input_recipe_setup' = FALSE /\ delivered' = FALSE
        /\ UNCHANGED <<trouble, garbled>>
    BY <1>1 DEF Rtde!SessionBegin, Rtde!Cleanup, Rtde!Fresh
  <2>2. peer_closed' = FALSE /\ cut' = FALSE
    BY <1>1, Zenon DEF Rtde!SessionBegin, Rtde!Cleanup, Rtde!FreshRobot
  <2>3. offset' \in [TagNames -> Int]
    BY <2>1
  <2> QED
    BY <2>1, <2>2, <2>3, Zenon
<1>2. CASE Rtde!PollBegin
  BY <1>2 DEF Rtde!PollBegin, Rtde!robot
<1>3. ASSUME NEW t \in TagNames, NEW v \in Values, Rtde!WriteTag(t, v) PROVE RtdeTypes'
  <2>1. UNCHANGED <<offset, have_output_data, input_recipe_setup, peer_closed, trouble>>
    BY <1>3 DEF Rtde!WriteTag
  <2>2. /\ delivered' \in BOOLEAN /\ cut' \in BOOLEAN
        /\ garbled' \in BOOLEAN
    BY <1>3, Zenon DEF Rtde!WriteTag, Rtde!Sent, Rtde!NotSent, Rtde!PartlySent
  <2> QED
    BY <2>1, <2>2
<1> QED
  BY <1>1, <1>2, <1>3 DEF Rtde!Worker

LEMMA NextRtdeTypes ==
    ASSUME IInv, FieldsInv, RtdeTypes, [Rtde!Next]_(Rtde!vars) PROVE RtdeTypes'
<1> USE DEF RtdeTypes, Rtde!session, Rtde!history
<1>1. CASE Rtde!PollStep
  <2>1. UNCHANGED <<offset, input_recipe_setup, trouble, delivered, garbled>>
    BY <1>1 DEF Rtde!PollStep, Rtde!PollTakes, Rtde!PollEnds, Rtde!PollFails
  <2>2. have_output_data' \in BOOLEAN
    BY <1>1, Zenon DEF Rtde!PollStep, Rtde!PollTakes, Rtde!PollEnds, Rtde!PollFails
  <2>3. peer_closed' \in BOOLEAN /\ cut' \in BOOLEAN
    BY <1>1, Zenon DEF Rtde!PollStep, Rtde!PollTakes, Rtde!PollEnds, Rtde!PollFails,
                       Rtde!FreshRobot
  <2> QED
    BY <2>1, <2>2, <2>3
<1>2. CASE Rtde!Robot
  <2> USE DEF Rtde!Robot, Rtde!RobotAnswers, Rtde!RobotData, Rtde!RobotBody, Rtde!RobotText,
              Rtde!RobotBadFrame, Rtde!RobotCloses, Rtde!Unchanged
  <2>1. UNCHANGED <<offset, have_output_data, input_recipe_setup, cut, delivered, garbled>>
    BY <1>2
  <2>2. peer_closed' = peer_closed \/ peer_closed' = TRUE
    BY <1>2
  <2>3. trouble' = trouble \/ trouble' = trouble + 1
    BY <1>2 DEF Rtde!Trouble
  <2>4. trouble' \in Nat
    BY <2>3
  <2> QED
    BY <2>1, <2>2, <2>4, Zenon
<1>3. CASE UNCHANGED Rtde!vars
  BY <1>3 DEF Rtde!vars, Rtde!robot
<1> QED
  BY <1>1, <1>2, <1>3, HandshakeRtdeTypes, WorkerRtdeTypes DEF Rtde!Next

LEMMA RtdeTypesTogether ==
    ASSUME RtdeTypes, IInv, StreamInv, DataInv, InputsInv PROVE Rtde!TypeOK
<1>1. init_count \in Nat
  BY CountOfTags DEF IInv, Phases, Rtde!InitCountOnce
<1> QED
  BY <1>1 DEF RtdeTypes, IInv, Phases, StreamInv, StreamTypes, DataInv, InputsInv, Rtde!TypeOK

(* Every variable of every transport keeps its type.                       *)
THEOREM TransportsTypeOK == Spec => []TypeOK
<1>1. Spec => [](protocol \in Protocols)
  <2>1. protocol \in Protocols /\ [Next]_vars => (protocol \in Protocols)'
    BY DEF Next, vars, S7Only, PlcsOnly, RtdeOnly, MqttOnly, OpcUaOnly, AdsOnly, SoftOnly,
           EditorOnly
  <2>2. Init => protocol \in Protocols
    BY DEF Init
  <2> QED
    BY <2>1, <2>2, PTL DEF Spec
<1>2. Spec => []Plcs!TypeOK
  <2>1. PlcsInv /\ WritesInv /\ CountInv => Plcs!TypeOK
    BY DEF PlcsInv, ThreadTypes, ObjectTypes, WorkerTypes, WritesInv, CountInv, S7Value,
           Plcs!TypeOK
  <2> QED
    BY <2>1, S7PlcsInv, WritesInvariant, CountInvariant, PTL
<1>3. Spec => []Rtde!TypeOK
  <2>1. Init => RtdeTypes
    <3>1. ASSUME Init PROVE /\ offset \in [TagNames -> Int] /\ trouble \in Nat
      <4>1. offset = [t \in TagNames |-> 0] /\ trouble = 0
        BY <3>1, Zenon DEF Init, Rtde!Init
      <4> QED
        BY <4>1
    <3>2. ASSUME Init
          PROVE  /\ have_output_data \in BOOLEAN /\ input_recipe_setup \in BOOLEAN
                 /\ peer_closed \in BOOLEAN /\ cut \in BOOLEAN
                 /\ delivered \in BOOLEAN /\ garbled \in BOOLEAN
      BY <3>2, Zenon DEF Init, Rtde!Init
    <3> QED
      BY <3>1, <3>2, Zenon DEF RtdeTypes
  <2> QED
    BY <2>1, NextRtdeTypes, RtdeTypesTogether, RtdeStep, RtdeInductive, RtdeStreamInv,
       RtdeFieldsInv, RtdeDataInv, RtdeInputsInv, PTL DEF Spec
<1>4. Spec => []Mqtt!TypeOK
  <2>1. Init => MqttTypes
    <3>1. Init => MqttRest
      BY DEF Init, Mqtt!Init, MqttRest
    <3>2. Init => mqtt_error \in BOOLEAN
      BY Zenon DEF Init, Mqtt!Init
    <3> QED
      BY <3>1, <3>2 DEF MqttRest, MqttTypes, Mqtt!TypeOK
  <2>2. MqttTypes => Mqtt!TypeOK
    BY DEF MqttTypes
  <2> QED
    BY <2>1, <2>2, NextMqttTypes, MqttStep, MqttInvariant, PTL DEF Spec
<1>5. Spec => []OpcUa!TypeOK
  <2>1. Init => OpcUa!TypeOK
    <3>1. Init => OpcUaRest
      BY DEF Init, OpcUa!Init, OpcUaRest
    <3>2. Init => OpcUaFlags
      BY Zenon DEF Init, OpcUa!Init, OpcUaFlags
    <3> QED
      BY <3>1, <3>2, OpcUaTypesSplit
  <2> QED
    BY <2>1, NextOpcUaTypes, OpcUaInvariant, OpcUaStep, PTL DEF Spec
<1>6. Spec => []Ads!TypeOK
  <2>1. Init => Ads!TypeOK
    <3>1. Init => AdsRest
      BY DEF Init, Ads!Init, AdsRest
    <3>2. Init => AdsFlags
      BY Zenon DEF Init, Ads!Init, AdsFlags
    <3> QED
      BY <3>1, <3>2, AdsTypesSplit
  <2> QED
    BY <2>1, NextAdsTypes, AdsInvariant, AdsStep, PTL DEF Spec
<1>7. Spec => []Soft!TypeOK
  <2>1. Init => Soft!TypeOK
    <3>1. Init => SoftRest
      BY SoftPlcAssumption DEF Init, Soft!Init, SoftRest, SoftPlcAssumption
    <3>2. Init => SoftFlags
      BY Zenon DEF Init, Soft!Init, SoftFlags
    <3> QED
      BY <3>1, <3>2, SoftTypesSplit
  <2> QED
    BY <2>1, NextSoftTypes, TimeInvariant, SoftStep, PTL DEF Spec
<1>8. Spec => []Editor!TypeOK
  <2>1. Init => BrowseTypes
    BY BrowseAssumption DEF Init, Editor!Init, BrowseTypes, Editor!TypeOK, BrowseAssumption
  <2>2. BrowseTypes => Editor!TypeOK
    BY DEF BrowseTypes
  <2> QED
    BY <2>1, <2>2, NextBrowseTypes, BrowseInvariant, EditorStep, PTL DEF Spec
<1>9. /\ protocol \in Protocols
      /\ S7!TypeOK /\ Plcs!TypeOK /\ Rtde!TypeOK /\ Mqtt!TypeOK /\ OpcUa!TypeOK
      /\ Ads!TypeOK /\ Soft!TypeOK /\ Editor!TypeOK
      => TypeOK
  BY DEF TypeOK
<1> QED
  BY <1>1, <1>2, <1>3, <1>4, <1>5, <1>6, <1>7, <1>8, <1>9, MemoryTypeOK, PTL
=============================================================================
