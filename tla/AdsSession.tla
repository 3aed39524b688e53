----------------------------- MODULE AdsSession -----------------------------
(***************************************************************************)
(* A tag group of protocol ads (oip_comms.cpp: AdsTagGroupImpl,            *)
(* init_ads_device, init_ads_tag, process_ads_tag_group, ads_tag_set_*,    *)
(* and the part of read_* that finds a type mismatch).  A call of the      *)
(* worker that asks the device something is a step.  A group that has      *)
(* failed stays failed, with its device, until it is cleaned up.           *)
(***************************************************************************)
EXTENDS Naturals, FiniteSets

CONSTANTS AdsTags  \* names of the group's tags

VARIABLES
    tags, initialized,  \* registered tags, initialized ones
    handle,             \* those with a handle of the device
    read,               \* those whose value was read in the last poll
    has_error, init_count,
    client,             \* whether there is a device
    pc, left, tag       \* the worker: where it is, tags left in the loop, the tag at hand

vars == <<tags, initialized, handle, read, has_error, init_count, client, pc, left, tag>>

TypeOK == /\ tags \subseteq AdsTags /\ initialized \subseteq AdsTags /\ handle \subseteq AdsTags
          /\ read \subseteq AdsTags
          /\ has_error \in BOOLEAN /\ client \in BOOLEAN /\ init_count \in Nat
          /\ pc \in {"idle", "device", "tags", "read", "handles", "close"}
          /\ left \subseteq AdsTags /\ (pc = "read" => tag \in AdsTags)

Init == /\ tags = {} /\ initialized = {} /\ handle = {} /\ read = {}
        /\ has_error = FALSE /\ init_count = 0 /\ client = FALSE
        /\ pc = "idle" /\ left = {} /\ tag = CHOOSE t \in AdsTags : TRUE
---------------------------------------------------------------------------
register_tag(t) ==
    /\ pc = "idle" /\ t \notin tags
    /\ tags' = tags \cup {t}
    /\ UNCHANGED <<initialized, handle, read, has_error, init_count, client, pc, left, tag>>

Poll ==
    /\ pc = "idle" /\ ~has_error
    /\ IF client THEN pc' = "tags" /\ left' = tags ELSE pc' = "device" /\ UNCHANGED left
    /\ read' = {}
    /\ UNCHANGED <<tags, initialized, handle, has_error, init_count, client, tag>>

init_ads_device ==
    /\ pc = "device"
    /\ handle' = {} /\ initialized' = {}
    /\ \/ client' = TRUE /\ pc' = "tags" /\ left' = tags
       \/ client' = FALSE /\ pc' = "idle" /\ UNCHANGED left
    /\ UNCHANGED <<tags, read, has_error, init_count, tag>>

Fail == has_error' = TRUE /\ pc' = "idle" /\ left' = {}

init_ads_tag(t) ==
    /\ pc = "tags" /\ t \in left \ initialized
    /\ \/ /\ handle' = handle \cup {t} /\ initialized' = initialized \cup {t}
          /\ init_count' = init_count + 1
          /\ pc' = "read" /\ tag' = t /\ left' = left \ {t}
          /\ UNCHANGED has_error
       \/ Fail /\ UNCHANGED <<handle, initialized, init_count, tag>>
    /\ UNCHANGED <<tags, read, client>>

NextTag(t) ==
    /\ pc = "tags" /\ t \in left \cap initialized
    /\ pc' = "read" /\ tag' = t /\ left' = left \ {t}
    /\ UNCHANGED <<tags, initialized, handle, read, has_error, init_count, client>>

(* A read that fails, or brings fewer bytes than the tag has, is an error. *)
ReadTag ==
    /\ pc = "read"
    /\ \/ read' = read \cup {tag} /\ pc' = "tags" /\ UNCHANGED <<has_error, left>>
       \/ Fail /\ UNCHANGED read
    /\ UNCHANGED <<tags, initialized, handle, init_count, client, tag>>

PollEnd == /\ pc = "tags" /\ left = {}
           /\ pc' = "idle"
           /\ UNCHANGED <<tags, initialized, handle, read, has_error, init_count, client, left,
                          tag>>

(* read_* of a type that has not the tag's size.                           *)
Mismatch(t) == /\ t \in initialized /\ ~has_error
               /\ has_error' = TRUE
               /\ UNCHANGED <<tags, initialized, handle, read, init_count, client, pc, left, tag>>

(* cleanup_tag_group deletes the AdsTagGroupImpl: its members are destroyed*)
(* last to first, so the tags, whose handles are given back to the device, *)
(* before the device.                                                      *)
Cleanup == /\ pc = "idle" /\ (tags # {} \/ client)
           /\ pc' = "handles"
           /\ UNCHANGED <<tags, initialized, handle, read, has_error, init_count, client, left,
                          tag>>

DeleteTags == /\ pc = "handles"
              /\ tags' = {} /\ initialized' = {} /\ handle' = {} /\ read' = {}
              /\ pc' = "close"
              /\ UNCHANGED <<has_error, init_count, client, left, tag>>

DeleteDevice == /\ pc = "close"
                /\ client' = FALSE
                /\ init_count' = 0 /\ has_error' = FALSE
                /\ pc' = "idle"
                /\ UNCHANGED <<tags, initialized, handle, read, left, tag>>

Worker == \/ Poll \/ init_ads_device \/ ReadTag \/ PollEnd \/ DeleteTags \/ DeleteDevice
          \/ \E t \in AdsTags : init_ads_tag(t) \/ NextTag(t)
Next == Worker \/ Cleanup \/ \E t \in AdsTags : register_tag(t) \/ Mismatch(t)

Spec == Init /\ [][Next]_vars
(* Calls of the device return.                                             *)
FairSpec == Spec /\ WF_vars(Worker)
---------------------------------------------------------------------------
(* A tag that is initialized has a handle, and a handle has its device: it *)
(* is given back before the device is closed.                              *)
HandlesOfDevice == /\ initialized \subseteq handle
                   /\ handle # {} => client

(* init_count is the number of initialized tags, but while the device that *)
(* had them is being closed.                                               *)
InitCountExact == pc # "close" => init_count = Cardinality(initialized)

(* A poll that comes to its end has read every tag of the group.           *)
FreshAfterPoll == pc = "tags" => tags \ left \subseteq initialized \cap read
=============================================================================
