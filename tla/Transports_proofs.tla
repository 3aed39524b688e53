-------------------------- MODULE Transports_proofs --------------------------
(***************************************************************************)
(* Putting the transports together changes nothing about any of them:      *)
(* process_tag_group and process_write give a group to the transport of    *)
(* its protocol only.  A step of the composition is a step of the one      *)
(* transport and leaves the others alone, so that an invariant of a        *)
(* transport's own steps holds in the composition.                         *)
(***************************************************************************)
EXTENDS Transports, TLAPS

(* What a step of each transport leaves alone.                             *)
LEMMA S7Step == [Next]_vars => [S7!Next]_(S7!vars)
<1>1. UNCHANGED s7 => UNCHANGED S7!vars
  BY DEF s7, S7!vars, S7!block, S7!poll, S7!history
<1>2. PlcsOnly \/ RtdeOnly \/ MqttOnly \/ OpcUaOnly \/ AdsOnly \/ SoftOnly \/ EditorOnly => UNCHANGED s7
  BY DEF PlcsOnly, RtdeOnly, MqttOnly, OpcUaOnly, AdsOnly, SoftOnly, EditorOnly
<1> QED
  BY <1>1, <1>2 DEF Next, vars

LEMMA PlcsStep == [Next]_vars => [Plcs!Next]_(Plcs!vars)
<1>1. UNCHANGED plcs => UNCHANGED Plcs!vars
  BY DEF plcs, Plcs!vars, Plcs!plcs, Plcs!group, Plcs!worker, Plcs!history
<1>2. S7Only \/ RtdeOnly \/ MqttOnly \/ OpcUaOnly \/ AdsOnly \/ SoftOnly \/ EditorOnly => UNCHANGED plcs
  BY DEF S7Only, RtdeOnly, MqttOnly, OpcUaOnly, AdsOnly, SoftOnly, EditorOnly
<1> QED
  BY <1>1, <1>2 DEF Next, vars

LEMMA RtdeStep == [Next]_vars => [Rtde!Next]_(Rtde!vars)
<1>1. UNCHANGED rtde => UNCHANGED Rtde!vars
  BY DEF rtde, Rtde!vars, Rtde!group, Rtde!client, Rtde!session, Rtde!worker, Rtde!robot,
         Rtde!history
<1>2. S7Only \/ PlcsOnly \/ MqttOnly \/ OpcUaOnly \/ AdsOnly \/ SoftOnly \/ EditorOnly => UNCHANGED rtde
  BY DEF S7Only, PlcsOnly, MqttOnly, OpcUaOnly, AdsOnly, SoftOnly, EditorOnly
<1> QED
  BY <1>1, <1>2 DEF Next, vars

LEMMA MqttStep == [Next]_vars => [Mqtt!Next]_(Mqtt!vars)
<1>1. UNCHANGED mqtt => UNCHANGED Mqtt!vars
  BY DEF mqtt, Mqtt!vars, Mqtt!group
<1>2. S7Only \/ PlcsOnly \/ RtdeOnly \/ OpcUaOnly \/ AdsOnly \/ SoftOnly \/ EditorOnly => UNCHANGED mqtt
  BY DEF S7Only, PlcsOnly, RtdeOnly, OpcUaOnly, AdsOnly, SoftOnly, EditorOnly
<1> QED
  BY <1>1, <1>2 DEF Next, vars

LEMMA OpcUaStep == [Next]_vars => [OpcUa!Next]_(OpcUa!vars)
<1>1. UNCHANGED opc_ua => UNCHANGED OpcUa!vars
  BY DEF opc_ua, OpcUa!vars, OpcUa!flags, OpcUa!server, OpcUa!worker
<1>2. S7Only \/ PlcsOnly \/ RtdeOnly \/ MqttOnly \/ AdsOnly \/ SoftOnly \/ EditorOnly => UNCHANGED opc_ua
  BY DEF S7Only, PlcsOnly, RtdeOnly, MqttOnly, AdsOnly, SoftOnly, EditorOnly
<1> QED
  BY <1>1, <1>2 DEF Next, vars

LEMMA AdsStep == [Next]_vars => [Ads!Next]_(Ads!vars)
<1>1. UNCHANGED ads => UNCHANGED Ads!vars
  BY DEF ads, Ads!vars
<1>2. S7Only \/ PlcsOnly \/ RtdeOnly \/ MqttOnly \/ OpcUaOnly \/ SoftOnly \/ EditorOnly => UNCHANGED ads
  BY DEF S7Only, PlcsOnly, RtdeOnly, MqttOnly, OpcUaOnly, SoftOnly, EditorOnly
<1> QED
  BY <1>1, <1>2 DEF Next, vars

LEMMA SoftStep == [Next]_vars => [Soft!Next]_(Soft!vars)
<1>1. UNCHANGED soft_plc => UNCHANGED Soft!vars
  BY DEF soft_plc, Soft!vars, Soft!io, Soft!history
<1>2. S7Only \/ PlcsOnly \/ RtdeOnly \/ MqttOnly \/ OpcUaOnly \/ AdsOnly \/ EditorOnly => UNCHANGED soft_plc
  BY DEF S7Only, PlcsOnly, RtdeOnly, MqttOnly, OpcUaOnly, AdsOnly, EditorOnly
<1> QED
  BY <1>1, <1>2 DEF Next, vars

LEMMA EditorStep == [Next]_vars => [Editor!Next]_(Editor!vars)
<1>1. UNCHANGED browse => UNCHANGED Editor!vars
  BY DEF browse, Editor!vars
<1>2. S7Only \/ PlcsOnly \/ RtdeOnly \/ MqttOnly \/ OpcUaOnly \/ AdsOnly \/ SoftOnly => UNCHANGED browse
  BY DEF S7Only, PlcsOnly, RtdeOnly, MqttOnly, OpcUaOnly, AdsOnly, SoftOnly
<1> QED
  BY <1>1, <1>2 DEF Next, vars

(* Whatever the protocol of a group, its history is one of each transport: *)
(* of its own as if no other existed, of the others as if it did nothing.  *)
THEOREM TransportsKeepApart ==
    Spec => /\ S7!Spec /\ Plcs!Spec /\ Rtde!Spec /\ Mqtt!Spec
            /\ OpcUa!Spec /\ Ads!Spec /\ Soft!Spec /\ Editor!Spec
<1>1. Init => /\ S7!Init /\ Plcs!Init /\ Rtde!Init /\ Mqtt!Init
              /\ OpcUa!Init /\ Ads!Init /\ Soft!Init /\ Editor!Init
  BY DEF Init
<1> QED
  BY <1>1, S7Step, PlcsStep, RtdeStep, MqttStep, OpcUaStep, AdsStep, SoftStep, EditorStep, PTL
  DEF Spec, S7!Spec, Plcs!Spec, Rtde!Spec, Mqtt!Spec, OpcUa!Spec, Ads!Spec, Soft!Spec, Editor!Spec
=============================================================================
