--------------------------- MODULE BrowseSession ---------------------------
(***************************************************************************)
(* The editor's own OPC UA client, with which it browses a server          *)
(* (oip_comms.cpp: browse_*, ensure_browse_session).  Its calls are made   *)
(* by the main thread alone; a step of a call goes as far as one request   *)
(* to the server, whose session may die between any two.                   *)
(***************************************************************************)
EXTENDS Naturals

CONSTANTS Endpoints, NoEndpoint,
          MaxPages,       \* bound on the pages of an answer
          MaxSessions     \* bound on connections

VARIABLES
    browse_client,       \* "none", "active" or "dead"
    browse_endpoint,
    session,             \* connections so far
    pc,                  \* what the call under way will ask next
    continuation,        \* pages that the server has left
    results              \* the sessions that the results of the call are of

vars == <<browse_client, browse_endpoint, session, pc, continuation, results>>

TypeOK == /\ browse_client \in {"none", "active", "dead"}
          /\ browse_endpoint \in Endpoints \cup {NoEndpoint}
          /\ session \in Nat
          /\ pc \in {"idle", "browse", "again", "next", "read"}
          /\ continuation \in 0 .. MaxPages
          /\ results \subseteq 1 .. session

Init == /\ browse_client = "none" /\ browse_endpoint = NoEndpoint /\ session = 0
        /\ pc = "idle" /\ continuation = 0 /\ results = {}
---------------------------------------------------------------------------
(* browse_disconnect and a connect that fails: client and endpoint go.     *)
Disconnected == browse_client' = "none" /\ browse_endpoint' = NoEndpoint /\ UNCHANGED session
Connected(endpoint) == /\ session < MaxSessions /\ session' = session + 1
                       /\ browse_client' = "active" /\ browse_endpoint' = endpoint

browse_connect(endpoint) ==
    /\ pc = "idle"
    /\ Connected(endpoint) \/ Disconnected
    /\ UNCHANGED <<pc, continuation, results>>

browse_disconnect ==
    /\ pc = "idle" /\ browse_client # "none" /\ Disconnected
    /\ UNCHANGED <<pc, continuation, results>>

(* A call starts with ensure_browse_session, which connects again to the   *)
(* saved endpoint when the session is not active.                          *)
Reconnected(then) ==
    \/ Connected(browse_endpoint) /\ pc' = then
    \/ Disconnected /\ pc' = "idle"

Call(first) ==
    /\ pc = "idle" /\ results' = {} /\ continuation' = 0
    /\ \/ /\ browse_client = "none"
          /\ UNCHANGED <<browse_client, browse_endpoint, session, pc>>
       \/ /\ browse_client = "active" /\ pc' = first
          /\ UNCHANGED <<browse_client, browse_endpoint, session>>
       \/ browse_client = "dead" /\ Reconnected(first)

(* The first page of an answer; a dead session is tried once more.         *)
Answered == /\ browse_client = "active"
            /\ results' = results \cup {session}
            /\ \E pages \in 0 .. MaxPages :
                   continuation' = pages /\ pc' = IF pages = 0 THEN "idle" ELSE "next"
            /\ UNCHANGED <<browse_client, browse_endpoint, session>>
Failed == /\ pc' = "idle"
          /\ UNCHANGED <<browse_client, browse_endpoint, session, continuation, results>>

Browse == /\ pc = "browse"
          /\ \/ Answered \/ Failed
             \/ /\ browse_client = "dead" /\ Reconnected("again")
                /\ UNCHANGED <<continuation, results>>
BrowseAgain == pc = "again" /\ (Answered \/ Failed)

(* browseNext: a failure ends the call with the pages so far.              *)
BrowseNext ==
    /\ pc = "next"
    /\ \/ /\ browse_client = "active"
          /\ results' = results \cup {session}
          /\ continuation' = continuation - 1
          /\ pc' = IF continuation = 1 THEN "idle" ELSE "next"
          /\ UNCHANGED <<browse_client, browse_endpoint, session>>
       \/ Failed

(* browse_node_info reconnects for the next call, and returns.             *)
ReadValue ==
    /\ pc = "read"
    /\ \/ browse_client = "active" /\ Failed
       \/ browse_client = "dead" /\ Reconnected("idle") /\ UNCHANGED <<continuation, results>>

SessionDies == /\ browse_client = "active" /\ browse_client' = "dead"
               /\ UNCHANGED <<browse_endpoint, session, pc, continuation, results>>

Step == Browse \/ BrowseAgain \/ BrowseNext \/ ReadValue
Next == \/ Step \/ SessionDies \/ browse_disconnect
        \/ \E endpoint \in Endpoints : browse_connect(endpoint)
        \/ \E first \in {"browse", "read"} : Call(first)

Spec == Init /\ [][Next]_vars
(* Requests are answered or fail.                                          *)
FairSpec == Spec /\ WF_vars(Step)
---------------------------------------------------------------------------
(* There is an endpoint to connect to again as long as there is a client,  *)
(* whose session may be dead: "no saved endpoint" (1996) is never said.    *)
EndpointSaved == browse_client # "none" <=> browse_endpoint # NoEndpoint

(* The children that a call returns are those of one session: none is left *)
(* of a session that died in the middle.                                   *)
ResultsOfOneSession == \A s, r \in results : s = r

(* Calls come to an end.                                                   *)
CallsEnd == (pc # "idle") ~> (pc = "idle")
=============================================================================
