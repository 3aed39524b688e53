---------------------------- MODULE MqttSession ----------------------------
(***************************************************************************)
(* A tag group of protocol mqtt (oip_comms.cpp: init_mqtt_client,          *)
(* init_mqtt_tag, process_mqtt_tag_group and the callbacks given to Paho). *)
(* Three threads meet here: the worker, which polls and cleans up, the     *)
(* client library's, which calls mqtt_message_arrived, and the broker.     *)
(*                                                                         *)
(* A value is known by the number of the session that it came in.  The     *)
(* library, which is external, delivers one message at a time and has      *)
(* delivered the one under way when MQTTClient_destroy returns.            *)
(***************************************************************************)
EXTENDS Naturals, FiniteSets

CONSTANTS Topics,       \* names of the group's tags
          MaxSessions   \* bound on connections

VARIABLES
    topics,                  \* registered tags
    subscribed, cached,      \* of each tag: subscribed; session of its value, 0 without data
    has_error, init_count,   \* of the group
    client,                  \* "none", "up", or "down": no longer connected
    session, broker,         \* number of the last session; what it has subscribed to
    arriving,                \* messages whose callback has not taken tags_mutex yet
    pc, left                 \* the worker: where it is, tags left in the loop

group == <<topics, has_error, init_count>>
vars == <<group, subscribed, cached, client, session, broker, arriving, pc, left>>

TypeOK == /\ topics \subseteq Topics /\ subscribed \subseteq topics
          /\ cached \in [Topics -> 0 .. session]
          /\ has_error \in BOOLEAN /\ init_count \in Nat
          /\ client \in {"none", "up", "down"} /\ session \in Nat
          /\ broker \subseteq Topics
          /\ arriving \subseteq Topics \X (1 .. session)
          /\ pc \in {"idle", "connect", "subscribe", "destroy"} /\ left \subseteq topics

Init == /\ topics = {} /\ subscribed = {} /\ cached = [t \in Topics |-> 0]
        /\ has_error = FALSE /\ init_count = 0
        /\ client = "none" /\ session = 0 /\ broker = {} /\ arriving = {}
        /\ pc = "idle" /\ left = {}
---------------------------------------------------------------------------
(* The worker                                                              *)

register_tag(t) ==
    /\ pc = "idle" /\ t \notin topics
    /\ topics' = topics \cup {t}
    /\ UNCHANGED <<has_error, init_count, subscribed, cached, client, session, broker, arriving,
                   pc, left>>

(* Mutant: only a client that there never was is not connected.            *)
ConnectedOnce == client # "none"

MQTTClient_isConnected == client = "up"

(* Mutant: values are kept.                                                *)
ForgetSubscriptions == subscribed' = {} /\ init_count' = 0 /\ UNCHANGED cached

Forget == subscribed' = {} /\ cached' = [t \in Topics |-> 0] /\ init_count' = 0

(* A poll that finds the client not connected forgets subscriptions and    *)
(* values, under tags_mutex, and connects anew.                            *)
Poll ==
    /\ pc = "idle" /\ ~has_error
    /\ IF MQTTClient_isConnected
       THEN /\ pc' = "subscribe" /\ left' = topics \ subscribed
            /\ UNCHANGED <<subscribed, cached, init_count>>
       ELSE /\ pc' = "connect"
            /\ Forget /\ UNCHANGED left
    /\ UNCHANGED <<topics, has_error, client, session, broker, arriving>>

(* init_mqtt_client: the old client is destroyed first.                    *)
Connect ==
    /\ pc = "connect" /\ arriving = {}
    /\ subscribed' = {} /\ broker' = {}
    /\ \/ /\ client' = "up"
          /\ session < MaxSessions /\ session' = session + 1
          /\ pc' = "subscribe" /\ left' = topics
       \/ /\ client' = "none"
          /\ pc' = "idle" /\ UNCHANGED <<session, left>>
    /\ UNCHANGED <<group, cached, arriving>>

(* init_mqtt_tag; a request may have reached the broker though it failed.  *)
Subscribe(t) ==
    /\ pc = "subscribe" /\ t \in left
    /\ \/ /\ client = "up"
          /\ broker' = broker \cup {t} /\ subscribed' = subscribed \cup {t}
          /\ init_count' = init_count + 1
          /\ left' = left \ {t} /\ UNCHANGED <<pc, has_error>>
       \/ /\ broker' \in {broker, IF client = "up" THEN broker \cup {t} ELSE broker}
          /\ has_error' = TRUE
          /\ pc' = "idle" /\ left' = {} /\ UNCHANGED <<subscribed, init_count>>
    /\ UNCHANGED <<topics, cached, client, session, arriving>>

PollEnd == /\ pc = "subscribe" /\ left = {}
           /\ pc' = "idle"
           /\ UNCHANGED <<group, subscribed, cached, client, session, broker, arriving, left>>

(* cleanup_tag_group: the client is destroyed, then the group's tags.      *)
Cleanup == /\ pc = "idle" /\ (topics # {} \/ client # "none")
           /\ pc' = "destroy"
           /\ UNCHANGED <<group, subscribed, cached, client, session, broker, arriving, left>>

Destroy == /\ pc = "destroy" /\ arriving = {}
           /\ client' = "none" /\ broker' = {}
           /\ topics' = {} /\ subscribed' = {} /\ cached' = [t \in Topics |-> 0]
           /\ init_count' = 0 /\ has_error' = FALSE
           /\ pc' = "idle"
           /\ UNCHANGED <<session, arriving, left>>
---------------------------------------------------------------------------
(* The client library and the broker                                       *)

LinkDown == /\ client = "up"
            /\ client' = "down" /\ broker' = {}
            /\ UNCHANGED <<group, subscribed, cached, session, arriving, pc, left>>

Message(t) == /\ client = "up" /\ t \in broker /\ arriving = {}
              /\ arriving' = {<<t, session>>}
              /\ UNCHANGED <<group, subscribed, cached, client, session, broker, pc, left>>

mqtt_message_arrived(m) ==
    /\ m \in arriving
    /\ arriving' = arriving \ {m}
    /\ cached' = IF m[1] \in topics THEN [cached EXCEPT ![m[1]] = m[2]] ELSE cached
    /\ UNCHANGED <<group, subscribed, client, session, broker, pc, left>>

Worker == Poll \/ Connect \/ PollEnd \/ Destroy \/ \E t \in Topics : Subscribe(t)
Callback == \E m \in arriving : mqtt_message_arrived(m)
Next == \/ Worker \/ Callback \/ Cleanup \/ LinkDown
        \/ \E t \in Topics : register_tag(t) \/ Message(t)

Spec == Init /\ [][Next]_vars
(* Polls go on, their calls return, and messages are delivered.            *)
FairSpec == Spec /\ WF_vars(Worker) /\ WF_vars(Callback)
---------------------------------------------------------------------------
(* While the client is connected, every tag that counts as subscribed is   *)
(* subscribed in this very session: no other poll will ask for it again.   *)
SubscribedHere == client = "up" => subscribed \subseteq broker

(* init_count is the number of subscribed tags.                            *)
InitCountExact == init_count = Cardinality(subscribed)

(* "drop cached values so the read API doesn't serve stale data from the   *)
(* previous session until a fresh message arrives" (1511): with a client   *)
(* connected, every value there is came in its session.                    *)
ValuesOfThisSession == client = "up" => \A t \in Topics : cached[t] \in {0, session}

(* What the reset does achieve: only the one callback that may be late for *)
(* it leaves a value behind, so none is older than the session before.     *)
NoneOlderThanLast == \A t \in Topics : cached[t] # 0 => cached[t] >= session - 1

(* A client that is no longer connected is replaced, or the group fails.   *)
Dead == client = "down"
Replaced == client # "down" \/ has_error
DeadClientReplaced == Dead ~> Replaced
=============================================================================
