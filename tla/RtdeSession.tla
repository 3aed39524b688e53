---------------------------- MODULE RtdeSession ----------------------------
(***************************************************************************)
(* An RTDE tag group: the worker's session with a robot controller         *)
(* (oip_comms.cpp: init_rtde_session, process_rtde_tag_group,              *)
(* rtde_tag_set, the cleanup), the client class that carries it            *)
(* (rtde_client.cpp), and the controller at the other end of a TCP         *)
(* connection.                                                             *)
(*                                                                         *)
(* A frame travels as two units, its header and its body, so that it may   *)
(* arrive in pieces or together with others; the connection keeps order.   *)
(* A data package carries a number instead of its values, larger in each.  *)
(* What the client sends is received at once.  The client registers tags   *)
(* between runs.                                                           *)
(***************************************************************************)
EXTENDS RtdeFields, FiniteSets

CONSTANTS SendsPartly,  \* send() on the non-blocking socket may take a part only
          MaxSeq,       \* bound of the model: data packages of a session
          MaxTrouble    \* bound of the model: refusals, text messages, bad frames

(* V, O, I and S are the replies to the requests of the handshake, U a     *)
(* data package, M a text message and X a frame of less than three bytes.  *)
FrameTypes == {"V", "O", "I", "S", "U", "M", "X"}
Frames == [type : FrameTypes, ok : BOOLEAN, seq : Nat]
Units == [frame : Frames, part : {"head", "body"}]

VARIABLES
    entries,                          \* impl.tags
    has_error, init_count,            \* of the tag group
    socket_, recv_buf_,               \* of the client
    started, initialized, offset,     \* of the session and its tags
    output_payload, have_output_data, \* number of the package in it
    input_recipe_setup, input_payload,
    rpc, latest,                      \* the worker: where it is, poll's latest_payload
    wire, peer_closed,                \* units that arrived; the end of the stream
    asked, streaming, seq, half,      \* controller: request to answer, its cycle, a body to send
    robot_in, cut,                    \* the last inputs it got; a frame it got a part of
    trouble, written, delivered, garbled  \* history

group == <<entries, has_error, init_count>>
client == <<socket_, recv_buf_>>
session == <<started, initialized, offset, output_payload, have_output_data,
             input_recipe_setup, input_payload>>
worker == <<rpc, latest>>
robot == <<wire, peer_closed, asked, streaming, seq, half, robot_in, cut>>
history == <<trouble, written, delivered, garbled>>
vars == <<group, client, session, worker, robot, history>>

IsInput(tag) == tag.base \in InputBases
Names(inputs) == Recipe({t.base : t \in {u \in entries : IsInput(u) = inputs}})
RecipeOf(tag) == Names(IsInput(tag))

TypeOK == /\ entries \subseteq TagNames
          /\ has_error \in BOOLEAN
          /\ init_count \in Nat
          /\ socket_ \in BOOLEAN
          /\ recv_buf_ \in Seq(Units)
          /\ started \in BOOLEAN /\ initialized \in BOOLEAN
          /\ offset \in [TagNames -> Int]
          /\ output_payload \in Nat /\ have_output_data \in BOOLEAN
          /\ input_recipe_setup \in BOOLEAN
          /\ input_payload \in Seq(0 .. 255)
          /\ rpc \in {"idle", "V", "O", "I", "S", "poll"}
          /\ latest \in Nat
          /\ wire \in Seq(Units) /\ peer_closed \in BOOLEAN
          /\ asked \in {"", "V", "O", "I", "S"}
          /\ streaming \in BOOLEAN /\ seq \in Nat
          /\ half \in Seq(Units)
          /\ robot_in \in Seq(0 .. 255) /\ cut \in BOOLEAN
          /\ trouble \in Nat
          /\ written \in [TagNames -> 0 .. 255]
          /\ delivered \in BOOLEAN /\ garbled \in BOOLEAN

(* What a session begins with: init_rtde_session 1236-1246.                *)
Fresh == /\ started' = FALSE /\ initialized' = FALSE
         /\ offset' = [t \in TagNames |-> 0]
         /\ output_payload' = 0 /\ have_output_data' = FALSE
         /\ input_recipe_setup' = FALSE /\ input_payload' = <<>>

(* A new connection: nothing has arrived and nothing was sent.             *)
FreshRobot(request) ==
    /\ wire' = <<>> /\ peer_closed' = FALSE
    /\ asked' = request /\ streaming' = FALSE /\ seq' = 0 /\ half' = <<>>
    /\ robot_in' = <<>> /\ cut' = FALSE

Init == /\ entries \in Registrations
        /\ has_error = FALSE /\ init_count = 0
        /\ socket_ = FALSE /\ recv_buf_ = <<>>
        /\ started = FALSE /\ initialized = FALSE
        /\ offset = [t \in TagNames |-> 0]
        /\ output_payload = 0 /\ have_output_data = FALSE
        /\ input_recipe_setup = FALSE /\ input_payload = <<>>
        /\ rpc = "idle" /\ latest = 0
        /\ wire = <<>> /\ peer_closed = FALSE
        /\ asked = "" /\ streaming = FALSE /\ seq = 0 /\ half = <<>>
        /\ robot_in = <<>> /\ cut = FALSE
        /\ trouble = 0 /\ written = [t \in TagNames |-> 0]
        /\ delivered = FALSE /\ garbled = FALSE
---------------------------------------------------------------------------
(* The handshake (init_rtde_session)                                       *)

(* A poll finds no session: the old client goes, a new one connects.       *)
SessionBegin ==
    /\ rpc = "idle" /\ ~has_error /\ ~started
    /\ Fresh /\ recv_buf_' = <<>>
    /\ written' = [t \in TagNames |-> 0] /\ delivered' = FALSE
    /\ \/ /\ Names(FALSE) # <<>>
          /\ socket_' = TRUE /\ rpc' = "V"
          /\ FreshRobot("V")
          /\ UNCHANGED has_error
       \/ /\ socket_' = FALSE /\ has_error' = TRUE
          /\ FreshRobot("")
          /\ UNCHANGED rpc
    /\ UNCHANGED <<entries, init_count, latest, trouble, garbled>>

(* parse_buffered_frame: the header tells the size; what is behind the     *)
(* frame stays in the buffer.                                              *)
Malformed(buf) == buf # <<>> /\ buf[1].frame.type = "X"

Complete(buf) == Len(buf) >= 2 /\ ~Malformed(buf)
Reply == recv_buf_[1].frame
Rest(buf) == SubSeq(buf, 3, Len(buf))

InHandshake == rpc \in {"V", "O", "I", "S"}

(* One recv of recv_frame: at least one unit, here all that arrived.       *)
HandshakeReceive ==
    /\ InHandshake /\ wire # <<>>
    /\ ~Complete(recv_buf_) /\ ~Malformed(recv_buf_)
    /\ recv_buf_' = recv_buf_ \o wire /\ wire' = <<>>
    /\ UNCHANGED <<group, socket_, session, worker, peer_closed, asked, streaming, seq, half,
                   robot_in, cut, history>>

(* Mutant: whatever comes is taken for the reply that is awaited.          *)
TypeNotLookedAt(f) == rpc \in {"V", "S"} => f.ok
IsReply(f) == f.type = rpc /\ (rpc \in {"V", "S"} => f.ok)
AllFound(names) == \A k \in DOMAIN names : Types[names[k]] \notin Refusals
TagsResolve == \A t \in entries : IndexInRange(t)

(* The reply to a setup request is good, and so is what is done with it    *)
(* before the next request goes out.                                       *)
Accepted ==
    /\ InHandshake /\ Complete(recv_buf_) /\ IsReply(Reply)
    /\ rpc = "O" => AllFound(Names(FALSE)) /\ (Names(TRUE) = <<>> => TagsResolve)
    /\ rpc = "I" => AllFound(Names(TRUE)) /\ TagsResolve

(* Mutant: a failed handshake leaves the socket open.                      *)
HandshakeFailsOpen ==
    /\ InHandshake
    /\ ~Complete(recv_buf_) /\ wire = <<>>
    /\ has_error' = TRUE /\ rpc' = "idle"
    /\ UNCHANGED <<entries, init_count, client, session, latest, robot, history>>

(* Mutant: the receive waits for ever.                                     *)
HandshakeWaits ==
    /\ InHandshake
    /\ \/ ~Complete(recv_buf_) /\ wire = <<>> /\ peer_closed
       \/ Malformed(recv_buf_)
       \/ Complete(recv_buf_) /\ (peer_closed \/ ~Accepted)
    /\ socket_' = FALSE /\ recv_buf_' = <<>>
    /\ has_error' = TRUE /\ rpc' = "idle"
    /\ FreshRobot("")
    /\ UNCHANGED <<entries, init_count, session, latest, history>>

(* The reply does not come, or is no good, or no request can be sent.      *)
HandshakeFails ==
    /\ InHandshake
    /\ \/ ~Complete(recv_buf_) /\ wire = <<>>
       \/ Malformed(recv_buf_)
       \/ Complete(recv_buf_) /\ ~Accepted
       \/ Accepted /\ rpc # "S" /\ peer_closed
    /\ socket_' = FALSE /\ recv_buf_' = <<>>
    /\ has_error' = TRUE /\ rpc' = "idle"
    /\ FreshRobot("")
    /\ UNCHANGED <<entries, init_count, session, latest, history>>

Request(type) ==
    /\ rpc' = type /\ asked' = type
    /\ recv_buf_' = Rest(recv_buf_)
    /\ UNCHANGED <<group, socket_, started, initialized, output_payload, have_output_data,
                   latest, wire, peer_closed, streaming, seq, half, robot_in, cut, history>>

(* Mutant: elements lie one byte apart.                                    *)
OffsetsByIndex == [t \in TagNames |-> IF t \in entries
                                        THEN FieldOffset(RecipeOf(t), t.base) + t.index
                                        ELSE 0]
Offsets == [t \in TagNames |-> IF t \in entries THEN ByteOffset(RecipeOf(t), t) ELSE 0]

VersionAgreed ==
    /\ Accepted /\ rpc = "V"
    /\ Request("O")
    /\ UNCHANGED <<offset, input_recipe_setup, input_payload>>

OutputsSetUp ==
    /\ Accepted /\ rpc = "O"
    /\ IF Names(TRUE) # <<>> THEN Request("I") /\ UNCHANGED offset
                             ELSE Request("S") /\ offset' = Offsets
    /\ UNCHANGED <<input_recipe_setup, input_payload>>

InputsSetUp ==
    /\ Accepted /\ rpc = "I"
    /\ Request("S")
    /\ input_recipe_setup' = TRUE
    /\ input_payload' = Zeros(PayloadSize(Names(TRUE)))
    /\ offset' = Offsets

(* The session is started and polled at once.                              *)
StreamStarted ==
    /\ Accepted /\ rpc = "S"
    /\ recv_buf_' = Rest(recv_buf_)
    /\ initialized' = TRUE /\ started' = TRUE
    /\ init_count' = init_count + Cardinality(entries)
    /\ rpc' = "poll"
    /\ UNCHANGED <<entries, has_error, socket_, offset, output_payload, have_output_data,
                   input_recipe_setup, input_payload, latest, robot, history>>
---------------------------------------------------------------------------
(* The stream (process_rtde_tag_group, Client::poll)                       *)

PollBegin ==
    /\ rpc = "idle" /\ ~has_error /\ started
    /\ rpc' = "poll"
    /\ UNCHANGED <<group, client, session, latest, robot, history>>

Drained == recv_buf_ \o wire

(* try_extract_frame takes all that arrived and hands out the first frame. *)
PollTakes ==
    /\ rpc = "poll" /\ ~peer_closed /\ Complete(Drained)
    /\ recv_buf_' = Rest(Drained) /\ wire' = <<>>
    /\ latest' = IF Drained[1].frame.type = "U" THEN Drained[1].frame.seq ELSE latest
    /\ UNCHANGED <<group, socket_, session, rpc, peer_closed, asked, streaming, seq, half,
                   robot_in, cut, history>>

(* Mutant: poll is content with the first data package.                    *)
PollEndsEarly ==
    /\ rpc = "poll" /\ ~peer_closed /\ ~Malformed(Drained)
    /\ ~Complete(Drained) \/ latest # 0
    /\ rpc' = "idle" /\ latest' = 0
    /\ output_payload' = IF latest # 0 THEN latest ELSE output_payload
    /\ have_output_data' = (have_output_data \/ latest # 0)
    /\ UNCHANGED <<group, client, started, initialized, offset, input_recipe_setup,
                   input_payload, robot, history>>

(* No whole frame is left: the latest package is kept if it has the size   *)
(* of the recipe.                                                          *)
RightSize == Len(RobotCells(Names(FALSE))) = PayloadSize(Names(FALSE))

PollEnds ==
    /\ rpc = "poll" /\ ~peer_closed /\ ~Malformed(Drained) /\ ~Complete(Drained)
    /\ recv_buf_' = Drained /\ wire' = <<>>
    /\ rpc' = "idle" /\ latest' = 0
    /\ IF latest # 0 /\ RightSize THEN output_payload' = latest /\ have_output_data' = TRUE
                                  ELSE UNCHANGED <<output_payload, have_output_data>>
    /\ UNCHANGED <<group, socket_, started, initialized, offset, input_recipe_setup,
                   input_payload, peer_closed, asked, streaming, seq, half, robot_in, cut,
                   history>>

(* Mutant: the group is not marked, so the next poll begins a new session. *)
PollFailsUnmarked ==
    /\ rpc = "poll" /\ (peer_closed \/ Malformed(Drained))
    /\ socket_' = FALSE /\ recv_buf_' = <<>> /\ started' = FALSE
    /\ rpc' = "idle" /\ latest' = 0
    /\ FreshRobot("")
    /\ UNCHANGED <<group, initialized, offset, output_payload, have_output_data,
                   input_recipe_setup, input_payload, history>>

(* The end of the stream counts before the frames in front of it.          *)
PollFails ==
    /\ rpc = "poll" /\ (peer_closed \/ Malformed(Drained))
    /\ socket_' = FALSE /\ recv_buf_' = <<>> /\ started' = FALSE
    /\ has_error' = TRUE
    /\ rpc' = "idle" /\ latest' = 0
    /\ FreshRobot("")
    /\ UNCHANGED <<entries, init_count, initialized, offset, output_payload, have_output_data,
                   input_recipe_setup, input_payload, history>>
---------------------------------------------------------------------------
(* Writes (rtde_tag_set)                                                   *)

Stored(t, v) ==
    IF IsBit(t)
      THEN StoreBit(input_payload, offset[t], Width(t), t.index, v)
      ELSE StoreNumber(input_payload, offset[t], Width(t), v)

(* send_frame: the package goes out, or not at all, or in part.  Behind a  *)
(* part of another it is taken for the rest of that: the controller does   *)
(* not get these inputs, nor any later ones of the session.                *)
Sent == /\ ~peer_closed
        /\ IF cut THEN delivered' = FALSE /\ UNCHANGED robot_in
           ELSE robot_in' = input_payload' /\ delivered' = TRUE
        /\ garbled' = (garbled \/ cut)
        /\ UNCHANGED cut
NotSent == /\ peer_closed \/ SendsPartly
           /\ delivered' = FALSE
           /\ UNCHANGED <<robot_in, garbled, cut>>
PartlySent == /\ SendsPartly /\ ~peer_closed
              /\ delivered' = FALSE
              /\ cut' = TRUE
              /\ garbled' = (garbled \/ cut)
              /\ UNCHANGED robot_in

Truth(t, v) == IF IsBit(t) \/ Types[t.base] = "BOOL" THEN (IF v = 0 THEN 0 ELSE 1) ELSE v

(* Everything else that is written to the group has no effect.             *)
WriteTag(t, v) ==
    /\ rpc = "idle" /\ started
    /\ input_recipe_setup /\ t \in entries /\ IsInput(t) /\ initialized
    /\ offset[t] + Width(t) <= Len(input_payload)
    /\ input_payload' = Stored(t, Truth(t, v))
    /\ written' = [written EXCEPT ![t] = Truth(t, v)]
    /\ Sent \/ NotSent \/ PartlySent
    /\ UNCHANGED <<group, client, started, initialized, offset, output_payload,
                   have_output_data, input_recipe_setup, worker, wire, peer_closed, asked,
                   streaming, seq, half, trouble>>

(* A stop deletes the session and its tags; the client registers others.   *)
Cleanup ==
    /\ rpc = "idle"
    /\ entries' \in Registrations
    /\ has_error' = FALSE /\ init_count' = 0
    /\ socket_' = FALSE /\ recv_buf_' = <<>>
    /\ Fresh /\ FreshRobot("")
    /\ written' = [t \in TagNames |-> 0] /\ delivered' = FALSE
    /\ UNCHANGED <<worker, trouble, garbled>>
---------------------------------------------------------------------------
(* The controller                                                          *)

Unit(f, part) == [frame |-> f, part |-> part]
Frame(type, ok, n) == [type |-> type, ok |-> ok, seq |-> n]

(* A header goes out, and its body after it.                               *)
Transmit(f) == /\ half = <<>>
               /\ wire' = Append(wire, Unit(f, "head"))
               /\ half' = <<Unit(f, "body")>>

Connected == socket_ /\ ~peer_closed
Trouble == trouble < MaxTrouble /\ trouble' = trouble + 1
Unchanged == UNCHANGED <<group, client, session, worker, peer_closed, robot_in, cut, written,
                         delivered, garbled>>

RobotAnswers ==
    /\ Connected /\ asked # ""
    /\ \E ok \in BOOLEAN :
        /\ IF ok THEN UNCHANGED trouble ELSE Trouble
        /\ Transmit(Frame(asked, ok, 0))
        /\ streaming' = (streaming \/ (asked = "S" /\ ok))
    /\ asked' = ""
    /\ UNCHANGED seq /\ Unchanged

RobotData ==
    /\ Connected /\ streaming /\ seq < MaxSeq
    /\ Transmit(Frame("U", TRUE, seq + 1))
    /\ seq' = seq + 1
    /\ UNCHANGED <<asked, streaming, trouble>> /\ Unchanged

RobotBody ==
    /\ Connected /\ half # <<>>
    /\ wire' = wire \o half /\ half' = <<>>
    /\ UNCHANGED <<asked, streaming, seq, trouble>> /\ Unchanged

RobotText ==
    /\ Connected /\ Trouble
    /\ Transmit(Frame("M", TRUE, 0))
    /\ UNCHANGED <<asked, streaming, seq>> /\ Unchanged

RobotBadFrame ==
    /\ Connected /\ Trouble /\ half = <<>>
    /\ wire' = Append(wire, Unit(Frame("X", TRUE, 0), "head"))
    /\ UNCHANGED <<half, asked, streaming, seq>> /\ Unchanged

RobotCloses ==
    /\ Connected
    /\ peer_closed' = TRUE
    /\ UNCHANGED <<group, client, session, worker, wire, asked, streaming, seq, half, robot_in,
                   cut, history>>
---------------------------------------------------------------------------
Handshake == \/ HandshakeReceive \/ HandshakeFails
             \/ VersionAgreed \/ OutputsSetUp \/ InputsSetUp \/ StreamStarted
PollStep == PollTakes \/ PollEnds \/ PollFails
Worker == \/ SessionBegin \/ PollBegin \/ Cleanup
          \/ \E t \in TagNames, v \in Values : WriteTag(t, v)
Robot == \/ RobotAnswers \/ RobotData \/ RobotBody \/ RobotText \/ RobotBadFrame
         \/ RobotCloses

Next == Handshake \/ PollStep \/ Worker \/ Robot

(* The worker goes on with a round it has begun: its receive gives up after *)
(* five seconds.  Nothing is assumed of the controller.                    *)
Spec == Init /\ [][Next]_vars
FairSpec == Spec /\ WF_vars(Handshake \/ PollStep)
---------------------------------------------------------------------------
(* However frames are cut or joined on their way, the buffer begins with   *)
(* the header of one (parse_buffered_frame takes whole frames off it).     *)
FramesAligned == recv_buf_ # <<>> => recv_buf_[1].part = "head"

(* The client awaits the answer that is under way, and has a session only  *)
(* while the controller streams: texts and refusals cannot put the         *)
(* handshake out of step.                                                  *)
UnderWay(type) == LET units == recv_buf_ \o wire \o half
                  IN asked = type \/ \E k \in DOMAIN units : units[k].frame.type = type
AnswersInStep == /\ InHandshake => peer_closed \/ UnderWay(rpc)
                 /\ started => streaming

(* Where a tag is read from and written to lie exactly the bytes that the  *)
(* controller puts there for its element, or for the integer of its bit.   *)
Element(t) == IF IsBit(t) THEN 0 ELSE t.index
FieldsFound ==
    initialized => \A t \in entries : LET cells == RobotCells(RecipeOf(t)) IN
        \A k \in 1 .. Width(t) :
            /\ offset[t] + k \in DOMAIN cells
            /\ cells[offset[t] + k] = [base |-> t.base, element |-> Element(t), byte |-> k]

(* After a poll the latest package that had arrived whole is the one that  *)
(* is read; none of them is left in the buffer and none is lost.           *)
Waiting == LET units == recv_buf_ \o wire
           IN Cardinality({k \in DOMAIN units : units[k].part = "head"
                                                  /\ units[k].frame.type = "U"})
FreshAfterPoll == rpc = "idle" /\ started => /\ ~Complete(recv_buf_)
                                             /\ output_payload + Waiting = seq

(* After a write that went out whole, and not behind a torn frame, the     *)
(* controller's inputs are what the client last wrote to each of its tags, *)
(* and zero where it wrote nothing: a write to one tag or bit does not     *)
(* change the others.  Tags that share bytes are left out.                 *)
Alone(t) == \A u \in entries \ {t} : u.base = t.base =>
                Element(u) # Element(t) \/ (IsBit(u) /\ IsBit(t) /\ u.index # t.index)
RobotByte(t, k) ==
    LET cells == RobotCells(RecipeOf(t))
        cell == [base |-> t.base, element |-> Element(t), byte |-> k]
    IN robot_in[CHOOSE p \in DOMAIN cells : cells[p] = cell]
RobotValue(t) == IF IsBit(t)
                   THEN BitOf(RobotByte(t, Width(t) - (t.index \div 8)), t.index)
                   ELSE RobotByte(t, Width(t))
InputsAsWritten == started /\ delivered =>
    \A t \in entries : IsInput(t) /\ Alone(t) => RobotValue(t) = written[t]

(* A group that has failed holds no connection, and one that holds a       *)
(* connection between polls has a session: no socket is forgotten, on      *)
(* whichever step of the handshake or the stream the failure came.         *)
NoSocketKept == /\ has_error => ~socket_ /\ ~started
                /\ rpc = "idle" /\ socket_ => started

(* The tags are counted once, all together, however sessions fail.         *)
InitCountOnce == init_count = IF initialized THEN Cardinality(entries) ELSE 0

(* What the controller gets is a sequence of whole frames ("Wire format",  *)
(* rtde_client.h:5).                                                       *)
FramesSentWhole == ~garbled

(* The worker comes back from every poll, whatever the controller does.    *)
RoundsEnd == rpc # "idle" ~> rpc = "idle"
=============================================================================
