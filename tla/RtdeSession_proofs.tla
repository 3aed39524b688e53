------------------------- MODULE RtdeSession_proofs -------------------------
(***************************************************************************)
(* Proofs about RtdeSession, as part of Transports, for any tags, recipes, *)
(* field types, writes and controllers.                                    *)
(*   - Where the worker can be with what state of the session (Phases): no *)
(*     socket is kept after a failure, and tags are counted once, since a  *)
(*     group whose tags are initialized without a session has failed.      *)
(*   - Streams: what is under way is the rest of whole frames, however it  *)
(*     is cut, so that handshake and controller stay in step (StreamInv).  *)
(*   - Fields: the offsets of a session that has begun are those of its    *)
(*     recipe (FieldsInv), and what RtdeFields_proofs says holds of them.  *)
(*   - Data packages: they come numbered in order, and a poll ends with    *)
(*     the latest (DataInv).                                               *)
(*   - Inputs: the payload has at each tag's place what was written to it  *)
(*     (InputsInv).                                                        *)
(***************************************************************************)
EXTENDS Transports_proofs, RtdeFields_proofs, FiniteSetTheorems

Phases ==
    /\ entries \subseteq TagNames
    /\ has_error \in BOOLEAN /\ socket_ \in BOOLEAN
    /\ started \in BOOLEAN /\ initialized \in BOOLEAN
    /\ rpc \in {"idle", "V", "O", "I", "S", "poll"}
    /\ rpc # "idle" => ~has_error /\ socket_
    /\ Rtde!InHandshake => ~started /\ ~initialized
    /\ rpc = "poll" => started
    /\ started => initialized /\ socket_
    /\ initialized /\ ~started => has_error

IInv == Phases /\ Rtde!NoSocketKept /\ Rtde!InitCountOnce

(* The facts about constants and counts that the steps need.               *)
LEMMA RegistrationIsSet == ASSUME NEW r \in Registrations PROVE r \subseteq TagNames
  BY RtdeAssumption DEF RtdeAssumption

LEMMA CountOfTags == ASSUME entries \subseteq TagNames PROVE Rtde!Cardinality(entries) \in Nat
<1>1. Cardinality(entries) \in Nat
  BY RtdeAssumption, FS_Subset, FS_CardinalityType DEF RtdeAssumption
<1>2. Rtde!Cardinality(entries) = Cardinality(entries)
  BY DEF Rtde!Cardinality, Cardinality
<1> QED
  BY <1>1, <1>2

(* Each part of a step keeps the phases.                                   *)
LEMMA InitIInv == Rtde!Init => IInv
  BY RegistrationIsSet
  DEF Rtde!Init, IInv, Phases, Rtde!NoSocketKept, Rtde!InitCountOnce, Rtde!InHandshake

LEMMA HandshakeIInv == ASSUME IInv, Rtde!Handshake PROVE IInv'
<1> USE DEF IInv, Phases, Rtde!NoSocketKept, Rtde!InitCountOnce, Rtde!InHandshake
<1>1. CASE Rtde!HandshakeReceive
  BY <1>1 DEF Rtde!HandshakeReceive, Rtde!group, Rtde!session, Rtde!worker, Rtde!history
<1>2. CASE Rtde!HandshakeFails
  BY <1>2 DEF Rtde!HandshakeFails, Rtde!session, Rtde!history
<1>3. CASE Rtde!VersionAgreed
  BY <1>3 DEF Rtde!VersionAgreed, Rtde!Request, Rtde!group, Rtde!history
<1>4. CASE Rtde!OutputsSetUp
  BY <1>4 DEF Rtde!OutputsSetUp, Rtde!Request, Rtde!group, Rtde!history
<1>5. CASE Rtde!InputsSetUp
  BY <1>5 DEF Rtde!InputsSetUp, Rtde!Request, Rtde!group, Rtde!history
<1>6. CASE Rtde!StreamStarted
  <2>1. init_count = 0 /\ ~has_error /\ socket_
    BY <1>6 DEF Rtde!StreamStarted, Rtde!Accepted
  <2>2. init_count' = Rtde!Cardinality(entries)
    BY <1>6, <2>1, CountOfTags DEF Rtde!StreamStarted
  <2> QED
    BY <1>6, <2>1, <2>2 DEF Rtde!StreamStarted, Rtde!robot, Rtde!history
<1> QED
  BY <1>1, <1>2, <1>3, <1>4, <1>5, <1>6 DEF Rtde!Handshake

LEMMA PollIInv == ASSUME IInv, Rtde!PollStep PROVE IInv'
<1> USE DEF IInv, Phases, Rtde!NoSocketKept, Rtde!InitCountOnce, Rtde!InHandshake
<1>1. CASE Rtde!PollTakes
  BY <1>1 DEF Rtde!PollTakes, Rtde!group, Rtde!session, Rtde!history
<1>2. CASE Rtde!PollEnds
  BY <1>2 DEF Rtde!PollEnds, Rtde!group, Rtde!history
<1>3. CASE Rtde!PollFails
  BY <1>3 DEF Rtde!PollFails, Rtde!history
<1> QED
  BY <1>1, <1>2, <1>3 DEF Rtde!PollStep

LEMMA WorkerIInv == ASSUME IInv, Rtde!Worker PROVE IInv'
<1> USE DEF IInv, Phases, Rtde!NoSocketKept, Rtde!InitCountOnce, Rtde!InHandshake
<1>1. CASE Rtde!SessionBegin
  <2>1. init_count = 0 /\ rpc = "idle" /\ ~has_error
    BY <1>1 DEF Rtde!SessionBegin
  <2>2. /\ started' = FALSE /\ initialized' = FALSE
        /\ entries' = entries /\ init_count' = init_count
    BY <1>1 DEF Rtde!SessionBegin, Rtde!Fresh
  <2>3. \/ socket_' = TRUE /\ rpc' = "V" /\ has_error' = has_error
        \/ socket_' = FALSE /\ rpc' = rpc /\ has_error' = TRUE
    BY <1>1, Zenon DEF Rtde!SessionBegin
  <2>4. ~has_error /\ rpc = "idle" /\ init_count' = 0 /\ ~started' /\ ~initialized'
    BY <2>1, <2>2
  <2>5. CASE socket_' = TRUE /\ rpc' = "V" /\ has_error' = has_error
    BY <2>2, <2>4, <2>5
  <2>6. CASE socket_' = FALSE /\ rpc' = rpc /\ has_error' = TRUE
    BY <2>2, <2>4, <2>6
  <2> QED
    BY <2>3, <2>5, <2>6
<1>2. CASE Rtde!PollBegin
  BY <1>2 DEF Rtde!PollBegin, Rtde!group, Rtde!client, Rtde!session
<1>3. CASE Rtde!Cleanup
  <2>1. /\ ~started' /\ ~initialized' /\ init_count' = 0 /\ ~socket_' /\ ~has_error'
        /\ rpc = "idle" /\ rpc' = rpc
        /\ entries' \in Registrations
        /\ started' \in BOOLEAN /\ initialized' \in BOOLEAN
        /\ has_error' \in BOOLEAN /\ socket_' \in BOOLEAN
    BY <1>3, Zenon DEF Rtde!Cleanup, Rtde!Fresh, Rtde!worker
  <2>2. entries' \subseteq TagNames
    BY <2>1, RegistrationIsSet
  <2> QED
    BY <2>1, <2>2
<1>4. ASSUME NEW t \in TagNames, NEW v \in Values, Rtde!WriteTag(t, v) PROVE IInv'
  BY <1>4 DEF Rtde!WriteTag, Rtde!group, Rtde!client, Rtde!worker
<1> QED
  BY <1>1, <1>2, <1>3, <1>4 DEF Rtde!Worker

(* The controller changes nothing of the worker's.                         *)
LEMMA RobotChangesOwn ==
    ASSUME Rtde!Robot
    PROVE  UNCHANGED <<Rtde!group, Rtde!client, Rtde!session, Rtde!worker>>
<1>1. CASE Rtde!RobotAnswers
  BY <1>1 DEF Rtde!RobotAnswers, Rtde!Unchanged
<1>2. CASE Rtde!RobotData
  BY <1>2 DEF Rtde!RobotData, Rtde!Unchanged
<1>3. CASE Rtde!RobotBody
  BY <1>3 DEF Rtde!RobotBody, Rtde!Unchanged
<1>4. CASE Rtde!RobotText
  BY <1>4 DEF Rtde!RobotText, Rtde!Unchanged
<1>5. CASE Rtde!RobotBadFrame
  BY <1>5 DEF Rtde!RobotBadFrame, Rtde!Unchanged
<1>6. CASE Rtde!RobotCloses
  BY <1>6 DEF Rtde!RobotCloses
<1> QED
  BY <1>1, <1>2, <1>3, <1>4, <1>5, <1>6 DEF Rtde!Robot

LEMMA RobotIInv == ASSUME IInv, Rtde!Robot PROVE IInv'
  BY RobotChangesOwn
  DEF IInv, Phases, Rtde!NoSocketKept, Rtde!InitCountOnce, Rtde!InHandshake,
      Rtde!group, Rtde!client, Rtde!session, Rtde!worker

LEMMA NextIInv == IInv /\ [Rtde!Next]_(Rtde!vars) => IInv'
<1> SUFFICES ASSUME IInv, [Rtde!Next]_(Rtde!vars) PROVE IInv'
  OBVIOUS
<1>1. CASE UNCHANGED Rtde!vars
  BY <1>1 DEF IInv, Phases, Rtde!NoSocketKept, Rtde!InitCountOnce, Rtde!InHandshake,
              Rtde!vars, Rtde!group, Rtde!client, Rtde!session, Rtde!worker
<1> QED
  BY <1>1, HandshakeIInv, PollIInv, WorkerIInv, RobotIInv DEF Rtde!Next

(* Where the worker can be with what state of the session, for all tags.   *)
THEOREM RtdeInductive == Spec => []IInv
<1>1. Init => IInv
  BY InitIInv DEF Init
<1> QED
  BY <1>1, NextIInv, RtdeStep, PTL DEF Spec

(* A group that has failed holds no connection, and between polls only a   *)
(* session does: for all tags, types and lengths of the stream.            *)
THEOREM RtdeNoSocketKept == Spec => []Rtde!NoSocketKept
<1>1. IInv => Rtde!NoSocketKept
  BY DEF IInv
<1> QED
  BY <1>1, RtdeInductive, PTL

(* The tags of a group are counted once, however sessions fail.            *)
THEOREM RtdeInitCountOnce == Spec => []Rtde!InitCountOnce
<1>1. IInv => Rtde!InitCountOnce
  BY DEF IInv
<1> QED
  BY <1>1, RtdeInductive, PTL
---------------------------------------------------------------------------
(* What has been sent and not yet been taken by the client, in its order. *)
Stream == Rtde!Drained \o half

StreamTypes ==
    /\ recv_buf_ \in Seq(Rtde!Units) /\ wire \in Seq(Rtde!Units)
    /\ half \in Seq(Rtde!Units)
    /\ \A k \in 1 .. Len(half) : half[k].part = "body"
    /\ asked \in {"", "V", "O", "I", "S"}
    /\ streaming \in BOOLEAN /\ seq \in Nat
    /\ rpc \in {"idle", "V", "O", "I", "S", "poll"}

Whole(f) == <<Rtde!Unit(f, "head"), Rtde!Unit(f, "body")>>
BadHeader == Rtde!Unit(Rtde!Frame("X", TRUE, 0), "head")
InStep(units) ==
    \A m \in Nat :
        2 * m + 1 <= Len(units) /\ (\A j \in 1 .. 2 * m : units[j].frame.type # "X") =>
            /\ units[2 * m + 1].part = "head"
            /\ units[2 * m + 1].frame.type # "X" =>
                  /\ 2 * m + 2 <= Len(units)
                  /\ units[2 * m + 2] = Rtde!Unit(units[2 * m + 1].frame, "body")

(* What units and frames are made of.                                      *)
LEMMA UnitFacts ==
    ASSUME NEW f \in Rtde!Frames
    PROVE  /\ \A part \in {"head", "body"} : Rtde!Unit(f, part) \in Rtde!Units
           /\ Rtde!Unit(f, "head").frame = f /\ Rtde!Unit(f, "head").part = "head"
           /\ Rtde!Unit(f, "body").frame = f /\ Rtde!Unit(f, "body").part = "body"
  BY DEF Rtde!Unit, Rtde!Units

LEMMA FrameFacts ==
    ASSUME NEW type \in Rtde!FrameTypes, NEW ok \in BOOLEAN, NEW n \in Nat
    PROVE  /\ Rtde!Frame(type, ok, n) \in Rtde!Frames
           /\ Rtde!Frame(type, ok, n).type = type
           /\ Rtde!Frame(type, ok, n).ok = ok
           /\ Rtde!Frame(type, ok, n).seq = n
  BY DEF Rtde!Frame, Rtde!Frames

(* What is left when two units have been taken from the front.             *)
LEMMA Dropped ==
    ASSUME NEW S, NEW s \in Seq(S), Len(s) >= 2
    PROVE  /\ SubSeq(s, 3, Len(s)) \in Seq(S)
           /\ Len(SubSeq(s, 3, Len(s))) = Len(s) - 2
           /\ \A k \in 1 .. Len(s) - 2 : SubSeq(s, 3, Len(s))[k] = s[k + 2]
<1> DEFINE n == Len(s)
<1>1. n \in Nat /\ n \in Int /\ \A k \in 3 .. n : s[k] \in S
  OBVIOUS
<1>2. n >= 2 OBVIOUS
<1> HIDE DEF n
<1>3. /\ SubSeq(s, 3, n) \in Seq(S)
      /\ Len(SubSeq(s, 3, n)) = IF 3 <= n THEN n - 3 + 1 ELSE 0
      /\ \A k \in 1 .. n - 3 + 1 : SubSeq(s, 3, n)[k] = s[3 + k - 1]
  BY <1>1, SubSeqProperties
<1>4. Len(SubSeq(s, 3, n)) = n - 2
  BY <1>2, <1>3, <1>1
<1>5. ASSUME NEW k \in 1 .. n - 2 PROVE SubSeq(s, 3, n)[k] = s[k + 2]
  <2>1. k \in 1 .. n - 3 + 1 /\ 3 + k - 1 = k + 2 BY <1>1
  <2> QED BY <2>1, <1>3
<1> QED
  BY <1>3, <1>4, <1>5 DEF n

(* At the front is a frame, whole or with a header that says too little.   *)
LEMMA FirstInStep ==
    ASSUME NEW u \in Seq(Rtde!Units), InStep(u), u # <<>>
    PROVE  /\ Len(u) \in Nat \ {0} /\ u[1] \in Rtde!Units /\ u[1].part = "head"
           /\ u[1].frame.type # "X" => Len(u) >= 2 /\ u[2] = Rtde!Unit(u[1].frame, "body")
<1>1. Len(u) \in Nat \ {0} /\ u[1] \in Rtde!Units
  OBVIOUS
<1>2. 0 \in Nat /\ 2 * 0 + 1 = 1 /\ 2 * 0 + 2 = 2 /\ 1 .. 2 * 0 = {}
  OBVIOUS
<1>3. 1 <= Len(u) /\ (2 <= Len(u) => Len(u) >= 2)
  BY <1>1
<1> QED
  BY <1>1, <1>2, <1>3 DEF InStep

(* A frame taken from the front, one added at the end, and a bad header    *)
(* added leave the frames in step.                                         *)
LEMMA TakenStaysInStep ==
    ASSUME NEW u \in Seq(Rtde!Units), InStep(u), Len(u) >= 2, u[1].frame.type # "X"
    PROVE  InStep(SubSeq(u, 3, Len(u)))
<1> DEFINE v == SubSeq(u, 3, Len(u))
<1>1. Len(v) = Len(u) - 2 /\ \A k \in 1 .. Len(u) - 2 : v[k] = u[k + 2]
  BY Dropped
<1>2. u[2] = Rtde!Unit(u[1].frame, "body") /\ u[1] \in Rtde!Units
  BY FirstInStep
<1>3. u[2].frame.type # "X"
  BY <1>2 DEF Rtde!Unit
<1> HIDE DEF v
<1> SUFFICES ASSUME NEW m \in Nat, 2 * m + 1 <= Len(v),
                    \A j \in 1 .. 2 * m : v[j].frame.type # "X"
             PROVE  /\ v[2 * m + 1].part = "head"
                    /\ v[2 * m + 1].frame.type # "X" =>
                          /\ 2 * m + 2 <= Len(v)
                          /\ v[2 * m + 2] = Rtde!Unit(v[2 * m + 1].frame, "body")
  BY DEF InStep, v
<1>4. v[2 * m + 1] = u[2 * (m + 1) + 1] /\ (2 * m + 2 <= Len(v) => v[2 * m + 2] = u[2 * (m + 1) + 2])
  BY <1>1
<1>5. \A j \in 1 .. 2 * (m + 1) : u[j].frame.type # "X"
  <2> TAKE j \in 1 .. 2 * (m + 1)
  <2>1. j = 1 \/ j = 2 \/ (j - 2 \in 1 .. 2 * m /\ u[j] = v[j - 2])
    BY <1>1
  <2> QED
    BY <2>1, <1>3
<1>6. m + 1 \in Nat /\ 2 * (m + 1) + 1 <= Len(u) /\ Len(u) \in Nat
  BY <1>1
<1>7. /\ u[2 * (m + 1) + 1].part = "head"
      /\ u[2 * (m + 1) + 1].frame.type # "X" =>
            /\ 2 * (m + 1) + 2 <= Len(u)
            /\ u[2 * (m + 1) + 2] = Rtde!Unit(u[2 * (m + 1) + 1].frame, "body")
  BY <1>5, <1>6 DEF InStep
<1>8. 2 * (m + 1) + 2 <= Len(u) => 2 * m + 2 <= Len(v)
  BY <1>1
<1> QED
  BY <1>4, <1>7, <1>8

LEMMA GrownStaysInStep ==
    ASSUME NEW u \in Seq(Rtde!Units), InStep(u), NEW f \in Rtde!Frames
    PROVE  InStep(u \o Whole(f))
<1> DEFINE v == u \o Whole(f)
<1>1. /\ Len(v) = Len(u) + 2 /\ \A k \in 1 .. Len(u) : v[k] = u[k]
      /\ v[Len(u) + 1] = Rtde!Unit(f, "head") /\ v[Len(u) + 2] = Rtde!Unit(f, "body")
  BY DEF Whole
<1> HIDE DEF v
<1> SUFFICES ASSUME NEW m \in Nat, 2 * m + 1 <= Len(v),
                    \A j \in 1 .. 2 * m : v[j].frame.type # "X"
             PROVE  /\ v[2 * m + 1].part = "head"
                    /\ v[2 * m + 1].frame.type # "X" =>
                          /\ 2 * m + 2 <= Len(v)
                          /\ v[2 * m + 2] = Rtde!Unit(v[2 * m + 1].frame, "body")
  BY DEF InStep, v
<1>2. CASE 2 * m + 1 <= Len(u)
  <2>1. \A j \in 1 .. 2 * m : u[j].frame.type # "X"
    BY <1>1, <1>2
  <2>2. /\ u[2 * m + 1].part = "head"
        /\ u[2 * m + 1].frame.type # "X" =>
              /\ 2 * m + 2 <= Len(u)
              /\ u[2 * m + 2] = Rtde!Unit(u[2 * m + 1].frame, "body")
    BY <2>1, <1>2 DEF InStep
  <2> QED
    BY <1>1, <1>2, <2>2
<1>3. CASE 2 * m + 1 = Len(u) + 1
  BY <1>1, <1>3, UnitFacts
<1>4. CASE 2 * m + 1 = Len(u) + 2
  <2>1. m - 1 \in Nat /\ 2 * (m - 1) + 1 <= Len(u) /\ ~ (2 * (m - 1) + 2 <= Len(u))
    BY <1>4
  <2>2. \A j \in 1 .. 2 * (m - 1) : u[j].frame.type # "X"
    BY <1>1, <1>4
  <2>3. u[2 * (m - 1) + 1].frame.type = "X"
    BY <2>1, <2>2 DEF InStep
  <2>4. v[2 * (m - 1) + 1] = u[2 * (m - 1) + 1] /\ 2 * (m - 1) + 1 \in 1 .. 2 * m
    BY <2>1, <1>1
  <2> QED
    BY <2>3, <2>4
<1>5. Len(u) \in Nat
  OBVIOUS
<1> QED
  BY <1>1, <1>2, <1>3, <1>4, <1>5

LEMMA SpoiledStaysInStep ==
    ASSUME NEW u \in Seq(Rtde!Units), InStep(u)
    PROVE  InStep(Append(u, BadHeader))
<1> DEFINE v == Append(u, BadHeader)
<1>1. Len(v) = Len(u) + 1 /\ (\A k \in 1 .. Len(u) : v[k] = u[k]) /\ v[Len(u) + 1] = BadHeader
  OBVIOUS
<1>2. BadHeader.part = "head" /\ BadHeader.frame.type = "X"
  BY DEF BadHeader, Rtde!Unit, Rtde!Frame
<1> HIDE DEF v
<1> SUFFICES ASSUME NEW m \in Nat, 2 * m + 1 <= Len(v),
                    \A j \in 1 .. 2 * m : v[j].frame.type # "X"
             PROVE  /\ v[2 * m + 1].part = "head"
                    /\ v[2 * m + 1].frame.type # "X" =>
                          /\ 2 * m + 2 <= Len(v)
                          /\ v[2 * m + 2] = Rtde!Unit(v[2 * m + 1].frame, "body")
  BY DEF InStep, v
<1>3. CASE 2 * m + 1 <= Len(u)
  <2>1. \A j \in 1 .. 2 * m : u[j].frame.type # "X"
    BY <1>1, <1>3
  <2>2. /\ u[2 * m + 1].part = "head"
        /\ u[2 * m + 1].frame.type # "X" =>
              /\ 2 * m + 2 <= Len(u)
              /\ u[2 * m + 2] = Rtde!Unit(u[2 * m + 1].frame, "body")
    BY <2>1, <1>3 DEF InStep
  <2> QED
    BY <1>1, <1>3, <2>2
<1>4. CASE 2 * m + 1 = Len(u) + 1
  BY <1>1, <1>2, <1>4
<1>5. Len(u) \in Nat
  OBVIOUS
<1> QED
  BY <1>1, <1>3, <1>4, <1>5

(* The frames are in step. During the handshake the reply awaited was      *)
(* never asked for again: it is still to be sent, or on its way, or the    *)
(* controller has closed. A controller that lets the data start streams    *)
(* it.                                                                     *)
StreamInv ==
    /\ StreamTypes
    /\ InStep(Stream)
    /\ Rtde!InHandshake =>
          peer_closed \/ asked = rpc \/ \E k \in 1 .. Len(Stream) : Stream[k].frame.type = rpc
    /\ \A k \in 1 .. Len(Stream) :
          Stream[k].frame.type = "S" /\ Stream[k].frame.ok => streaming
    /\ started => streaming

(* What a step can do to what is on its way.                               *)
Same == Stream' = Stream
Emptied == Stream' = << >>
Taken == /\ Len(Rtde!Drained) >= 2 /\ Rtde!Drained[1].frame.type # "X"
         /\ Stream' = SubSeq(Stream, 3, Len(Stream))
Grown(f) == Stream' = Stream \o Whole(f)
Spoiled == Stream' = Append(Stream, BadHeader)

(* What is on its way, position by position.                               *)
LEMMA StreamParts ==
    ASSUME StreamTypes
    PROVE  /\ Rtde!Drained \in Seq(Rtde!Units) /\ Stream \in Seq(Rtde!Units)
           /\ Len(Rtde!Drained) = Len(recv_buf_) + Len(wire)
           /\ Len(Stream) = Len(Rtde!Drained) + Len(half)
           /\ Len(recv_buf_) \in Nat /\ Len(wire) \in Nat /\ Len(half) \in Nat
           /\ \A k \in 1 .. Len(recv_buf_) : Rtde!Drained[k] = recv_buf_[k]
           /\ \A k \in 1 .. Len(Rtde!Drained) : Stream[k] = Rtde!Drained[k]
<1>1. recv_buf_ \in Seq(Rtde!Units) /\ wire \in Seq(Rtde!Units) /\ half \in Seq(Rtde!Units)
  BY DEF StreamTypes
<1>2. /\ Rtde!Drained \in Seq(Rtde!Units)
      /\ Len(Rtde!Drained) = Len(recv_buf_) + Len(wire)
      /\ \A k \in 1 .. Len(recv_buf_) : Rtde!Drained[k] = recv_buf_[k]
  BY <1>1 DEF Rtde!Drained
<1>3. /\ Stream \in Seq(Rtde!Units)
      /\ Len(Stream) = Len(Rtde!Drained) + Len(half)
      /\ \A k \in 1 .. Len(Rtde!Drained) : Stream[k] = Rtde!Drained[k]
  <2> DEFINE d == Rtde!Drained
  <2>1. d \in Seq(Rtde!Units)
    BY <1>2
  <2> HIDE DEF d
  <2>2. d \o half \in Seq(Rtde!Units) /\ Len(d \o half) = Len(d) + Len(half)
        /\ \A k \in 1 .. Len(d) : (d \o half)[k] = d[k]
    BY <1>1, <2>1
  <2> QED
    BY <2>2 DEF Stream, d
<1> QED
  BY <1>1, <1>2, <1>3

LEMMA EmptyUnits == /\ << >> \in Seq(Rtde!Units) /\ Len(<< >>) = 0 /\ 1 .. Len(<< >>) = {}
                    /\ << >> \o << >> = << >>
  OBVIOUS

(* Which of these each operation does.                                     *)
LEMMA EmptyStep ==
    ASSUME recv_buf_' = << >>, wire' = << >>, half' = << >>,
           asked' \in {"", "V"}, streaming' = FALSE, seq' = 0, rpc' \in {"idle", "V"}
    PROVE  Emptied /\ StreamTypes'
<1>1. Emptied
  BY EmptyUnits DEF Emptied, Stream, Rtde!Drained
<1>2. /\ recv_buf_' \in Seq(Rtde!Units) /\ wire' \in Seq(Rtde!Units) /\ half' \in Seq(Rtde!Units)
      /\ \A k \in 1 .. Len(half') : half'[k].part = "body"
  BY EmptyUnits
<1> QED
  BY <1>1, <1>2 DEF StreamTypes

LEMMA ReceiveStep ==
    ASSUME StreamTypes, Rtde!HandshakeReceive
    PROVE  Same /\ StreamTypes' /\ Rtde!Drained' = Rtde!Drained
<1>1. recv_buf_' = recv_buf_ \o wire /\ wire' = << >> /\ half' = half
  BY DEF Rtde!HandshakeReceive
<1>2. recv_buf_ \o wire \in Seq(Rtde!Units)
  <2>1. recv_buf_ \in Seq(Rtde!Units) /\ wire \in Seq(Rtde!Units)
    BY DEF StreamTypes
  <2> QED
    BY <2>1
<1>3. recv_buf_' \in Seq(Rtde!Units) /\ wire' \in Seq(Rtde!Units)
  BY <1>1, <1>2 DEF Rtde!Drained
<1>4. (recv_buf_ \o wire) \o << >> = recv_buf_ \o wire
  BY <1>2, ConcatEmptySeq
<1>5. Rtde!Drained' = Rtde!Drained
  BY <1>1, <1>4 DEF Rtde!Drained
<1> QED
  BY <1>1, <1>3, <1>5 DEF StreamTypes, Rtde!HandshakeReceive, Same, Stream, Rtde!worker

LEMMA BodyStep ==
    ASSUME StreamTypes, Rtde!RobotBody
    PROVE  Same /\ StreamTypes'
<1>1. recv_buf_' = recv_buf_ /\ wire' = wire \o half /\ half' = << >>
  BY DEF Rtde!RobotBody, Rtde!Unchanged, Rtde!client
<1>2. recv_buf_ \in Seq(Rtde!Units) /\ wire \in Seq(Rtde!Units) /\ half \in Seq(Rtde!Units)
  BY DEF StreamTypes
<1>3. wire \o half \in Seq(Rtde!Units) /\ recv_buf_ \o (wire \o half) \in Seq(Rtde!Units)
  BY <1>2
<1>4. (recv_buf_ \o wire) \o half = recv_buf_ \o (wire \o half)
  BY <1>2, ConcatAssociative
<1>5. Same
  BY <1>1, <1>3, <1>4, ConcatEmptySeq DEF Same, Stream, Rtde!Drained
<1>6. half' \in Seq(Rtde!Units) /\ \A k \in 1 .. Len(half') : half'[k].part = "body"
  BY <1>1
<1> QED
  BY <1>1, <1>3, <1>5, <1>6 DEF StreamTypes, Rtde!RobotBody, Rtde!worker, Rtde!Unchanged

LEMMA PollEndsStep ==
    ASSUME StreamTypes, Rtde!PollEnds
    PROVE  Same /\ StreamTypes' /\ Rtde!Drained' = Rtde!Drained
<1>1. recv_buf_' = Rtde!Drained /\ wire' = << >> /\ half' = half
  BY DEF Rtde!PollEnds
<1>2. recv_buf_ \o wire \in Seq(Rtde!Units)
  <2>1. recv_buf_ \in Seq(Rtde!Units) /\ wire \in Seq(Rtde!Units)
    BY DEF StreamTypes
  <2> QED
    BY <2>1
<1>3. recv_buf_' \in Seq(Rtde!Units) /\ wire' \in Seq(Rtde!Units)
  BY <1>1, <1>2 DEF Rtde!Drained
<1>4. (recv_buf_ \o wire) \o << >> = recv_buf_ \o wire
  BY <1>2, ConcatEmptySeq
<1>5. Rtde!Drained' = Rtde!Drained
  BY <1>1, <1>4 DEF Rtde!Drained
<1> QED
  BY <1>1, <1>3, <1>5 DEF StreamTypes, Rtde!PollEnds, Same, Stream

LEMMA TransmitStep ==
    ASSUME StreamTypes, NEW f \in Rtde!Frames, Rtde!Transmit(f), recv_buf_' = recv_buf_
    PROVE  /\ Grown(f) /\ Rtde!Drained' = Append(Rtde!Drained, Rtde!Unit(f, "head"))
           /\ wire' \in Seq(Rtde!Units) /\ half' \in Seq(Rtde!Units)
           /\ \A k \in 1 .. Len(half') : half'[k].part = "body"
<1> DEFINE h == Rtde!Unit(f, "head")
           b == Rtde!Unit(f, "body")
<1>1. h \in Rtde!Units /\ b \in Rtde!Units /\ b.part = "body"
  BY UnitFacts
<1>2. half = << >> /\ wire' = Append(wire, h) /\ half' = <<b>> /\ Whole(f) = <<h, b>>
  BY DEF Rtde!Transmit, Whole
<1>3. recv_buf_ \in Seq(Rtde!Units) /\ wire \in Seq(Rtde!Units)
  BY DEF StreamTypes
<1> HIDE DEF h, b
<1>4. wire' \in Seq(Rtde!Units) /\ half' \in Seq(Rtde!Units) /\ Len(half') = 1 /\ half'[1] = b
  BY <1>1, <1>2, <1>3
<1>5. Rtde!Drained' = Append(Rtde!Drained, h) /\ Rtde!Drained \in Seq(Rtde!Units)
  BY <1>1, <1>2, <1>3 DEF Rtde!Drained
<1>6. Stream = Rtde!Drained
  BY <1>2, <1>5 DEF Stream
<1>7. Stream' = Append(Rtde!Drained, h) \o <<b>>
  BY <1>2, <1>5 DEF Stream
<1>8. Append(Rtde!Drained, h) \o <<b>> = Rtde!Drained \o <<h, b>>
  BY <1>1, <1>5
<1>9. Grown(f)
  BY <1>2, <1>6, <1>7, <1>8 DEF Grown
<1> QED
  BY <1>1, <1>4, <1>5, <1>9 DEF h

LEMMA BadFrameStep ==
    ASSUME StreamTypes, Rtde!RobotBadFrame
    PROVE  Spoiled /\ StreamTypes' /\ Rtde!Drained' = Append(Rtde!Drained, BadHeader)
<1>1. Rtde!Frame("X", TRUE, 0) \in Rtde!Frames
  BY FrameFacts DEF Rtde!FrameTypes
<1>2. BadHeader \in Rtde!Units
  BY <1>1, UnitFacts DEF BadHeader
<1>3. recv_buf_' = recv_buf_ /\ wire' = Append(wire, BadHeader) /\ half' = half /\ half = << >>
  BY DEF Rtde!RobotBadFrame, Rtde!Unchanged, Rtde!client, BadHeader
<1>4. recv_buf_ \in Seq(Rtde!Units) /\ wire \in Seq(Rtde!Units)
  BY DEF StreamTypes
<1>5. wire' \in Seq(Rtde!Units)
  BY <1>2, <1>3, <1>4
<1>6. Rtde!Drained' = Append(Rtde!Drained, BadHeader) /\ Rtde!Drained \in Seq(Rtde!Units)
  BY <1>2, <1>3, <1>4 DEF Rtde!Drained
<1>7. Spoiled
  BY <1>2, <1>3, <1>6 DEF Spoiled, Stream
<1> QED
  BY <1>3, <1>5, <1>6, <1>7 DEF StreamTypes, Rtde!RobotBadFrame, Rtde!Unchanged, Rtde!worker

(* Each of these keeps the frames in step.                                 *)
LEMMA SameInv ==
    ASSUME StreamInv, Same, StreamTypes', asked' = asked, streaming' = streaming,
           rpc' = rpc \/ rpc' \in {"idle", "poll"}, peer_closed => peer_closed',
           started' = started
    PROVE  StreamInv'
<1>1. InStep(Stream)'
  BY DEF Same, StreamInv, InStep
<1> QED
  BY <1>1 DEF StreamInv, Same, Rtde!InHandshake

LEMMA EmptiedInv ==
    ASSUME Emptied, StreamTypes', ~started', Rtde!InHandshake' => asked' = rpc'
    PROVE  StreamInv'
<1>1. Len(Stream') = 0
  BY DEF Emptied
<1>2. InStep(Stream)'
  BY <1>1 DEF InStep
<1> QED
  BY <1>1, <1>2 DEF StreamInv

LEMMA TakenInv ==
    ASSUME StreamInv, Taken, StreamTypes', streaming' = streaming,
           Rtde!InHandshake' => asked' = rpc', started' => streaming
    PROVE  StreamInv'
<1>1. Stream \in Seq(Rtde!Units) /\ Len(Stream) >= 2 /\ Stream[1].frame.type # "X"
  BY StreamParts DEF StreamInv, Taken
<1>2. InStep(Stream')
  BY <1>1, TakenStaysInStep DEF StreamInv, Taken
<1>3. Len(Stream') = Len(Stream) - 2 /\ \A k \in 1 .. Len(Stream) - 2 : Stream'[k] = Stream[k + 2]
  BY <1>1, Dropped DEF Taken
<1>4. ASSUME NEW k \in 1 .. Len(Stream'), Stream'[k].frame.type = "S", Stream'[k].frame.ok
      PROVE  streaming'
  <2>1. k + 2 \in 1 .. Len(Stream) /\ Stream'[k] = Stream[k + 2]
    BY <1>1, <1>3
  <2> QED
    BY <1>4, <2>1 DEF StreamInv
<1>5. InStep(Stream)'
  BY <1>2 DEF InStep
<1> QED
  BY <1>4, <1>5 DEF StreamInv

LEMMA GrownInv ==
    ASSUME StreamInv, NEW f \in Rtde!Frames, Grown(f), StreamTypes',
           streaming => streaming', f.type = "S" /\ f.ok => streaming',
           rpc' = rpc, started' = started, peer_closed' = peer_closed,
           asked' = asked \/ f.type = asked
    PROVE  StreamInv'
<1>1. Stream \in Seq(Rtde!Units) /\ Len(Stream) \in Nat
  BY StreamParts DEF StreamInv
<1>2. InStep(Stream')
  BY <1>1, GrownStaysInStep DEF StreamInv, Grown
<1>3. /\ Len(Stream') = Len(Stream) + 2
      /\ \A k \in 1 .. Len(Stream) : Stream'[k] = Stream[k]
      /\ Stream'[Len(Stream) + 1].frame = f /\ Stream'[Len(Stream) + 2].frame = f
  <2> DEFINE h == Rtde!Unit(f, "head")
             b == Rtde!Unit(f, "body")
  <2>1. h.frame = f /\ b.frame = f /\ Stream' = Stream \o <<h, b>>
    BY UnitFacts DEF Grown, Whole
  <2> HIDE DEF h, b
  <2> QED
    BY <1>1, <2>1
<1>4. ASSUME NEW k \in 1 .. Len(Stream'), Stream'[k].frame.type = "S", Stream'[k].frame.ok
      PROVE  streaming'
  <2>1. k \in 1 .. Len(Stream) \/ k = Len(Stream) + 1 \/ k = Len(Stream) + 2
    BY <1>1, <1>3
  <2> QED
    BY <1>3, <1>4, <2>1 DEF StreamInv
<1>5. ASSUME Rtde!InHandshake', ~peer_closed', asked' # rpc'
      PROVE  \E k \in 1 .. Len(Stream') : Stream'[k].frame.type = rpc'
  <2>1. CASE asked = rpc
    <3>1. Len(Stream) + 1 \in 1 .. Len(Stream') /\ Stream'[Len(Stream) + 1].frame.type = rpc'
      BY <1>1, <1>3, <1>5, <2>1
    <3> QED
      BY <3>1
  <2>2. CASE asked # rpc
    <3>1. PICK k \in 1 .. Len(Stream) : Stream[k].frame.type = rpc
      BY <1>5, <2>2 DEF StreamInv, Rtde!InHandshake
    <3> QED
      BY <1>1, <1>3, <3>1
  <2> QED
    BY <2>1, <2>2
<1>6. InStep(Stream)' /\ (started' => streaming')
  BY <1>2 DEF InStep, StreamInv
<1> QED
  BY <1>4, <1>5, <1>6 DEF StreamInv

LEMMA SpoiledInv ==
    ASSUME StreamInv, Spoiled, StreamTypes', asked' = asked, streaming' = streaming,
           rpc' = rpc, peer_closed' = peer_closed, started' = started
    PROVE  StreamInv'
<1>1. Stream \in Seq(Rtde!Units) /\ Len(Stream) \in Nat
  BY StreamParts DEF StreamInv
<1>2. InStep(Stream')
  BY <1>1, SpoiledStaysInStep DEF StreamInv, Spoiled
<1>3. /\ Len(Stream') = Len(Stream) + 1
      /\ \A k \in 1 .. Len(Stream) : Stream'[k] = Stream[k]
      /\ Stream'[Len(Stream) + 1].frame.type = "X"
  BY <1>1 DEF Spoiled, BadHeader, Rtde!Unit, Rtde!Frame
<1>4. ASSUME NEW k \in 1 .. Len(Stream'), Stream'[k].frame.type = "S", Stream'[k].frame.ok
      PROVE  streaming'
  <2>1. k \in 1 .. Len(Stream) \/ k = Len(Stream) + 1
    BY <1>1, <1>3
  <2> QED
    BY <1>3, <1>4, <2>1 DEF StreamInv
<1>5. ASSUME Rtde!InHandshake', ~peer_closed', asked' # rpc'
      PROVE  \E k \in 1 .. Len(Stream') : Stream'[k].frame.type = rpc'
  <2>1. PICK k \in 1 .. Len(Stream) : Stream[k].frame.type = rpc
    BY <1>5 DEF StreamInv, Rtde!InHandshake
  <2> QED
    BY <1>1, <1>3, <2>1
<1>6. InStep(Stream)' /\ (started' => streaming')
  BY <1>2 DEF InStep, StreamInv
<1> QED
  BY <1>4, <1>5, <1>6 DEF StreamInv

(* Two units are taken from the front of the buffer alone.                 *)
LEMMA DroppedJoined ==
    ASSUME NEW S, NEW s \in Seq(S), NEW t \in Seq(S), Len(s) >= 2
    PROVE  SubSeq(s, 3, Len(s)) \o t = SubSeq(s \o t, 3, Len(s \o t))
<1> DEFINE r == SubSeq(s, 3, Len(s))
           w == s \o t
           x == SubSeq(w, 3, Len(w))
           y == r \o t
<1>1. /\ r \in Seq(S) /\ Len(r) = Len(s) - 2
      /\ \A k \in 1 .. Len(s) - 2 : r[k] = s[k + 2]
  BY Dropped
<1>2. /\ w \in Seq(S) /\ Len(w) = Len(s) + Len(t) /\ Len(s) \in Nat /\ Len(t) \in Nat
      /\ \A k \in 1 .. Len(s) + Len(t) : w[k] = IF k <= Len(s) THEN s[k] ELSE t[k - Len(s)]
  BY ConcatProperties
<1> HIDE DEF r, w
<1>3. Len(w) >= 2
  BY <1>2
<1>4. /\ x \in Seq(S) /\ Len(x) = Len(w) - 2
      /\ \A k \in 1 .. Len(w) - 2 : x[k] = w[k + 2]
  BY <1>2, <1>3, Dropped
<1>5. /\ y \in Seq(S) /\ Len(y) = Len(r) + Len(t)
      /\ \A k \in 1 .. Len(r) + Len(t) : y[k] = IF k <= Len(r) THEN r[k] ELSE t[k - Len(r)]
  BY <1>1, ConcatProperties
<1> HIDE DEF x, y
<1>6. Len(y) = Len(x)
  BY <1>1, <1>2, <1>4, <1>5
<1>7. ASSUME NEW k \in 1 .. Len(y) PROVE y[k] = x[k]
  <2>1. k \in Nat /\ k >= 1 /\ k <= Len(s) - 2 + Len(t)
    BY <1>1, <1>2, <1>5
  <2>2. x[k] = IF k + 2 <= Len(s) THEN s[k + 2] ELSE t[k + 2 - Len(s)]
    BY <1>2, <1>4, <2>1
  <2>3. y[k] = IF k <= Len(s) - 2 THEN r[k] ELSE t[k - (Len(s) - 2)]
    BY <1>1, <1>2, <1>5, <2>1
  <2>4. k + 2 - Len(s) = k - (Len(s) - 2)
    BY <1>2, <2>1
  <2>5. k <= Len(s) - 2 => r[k] = s[k + 2]
    BY <1>1, <2>1
  <2> QED
    BY <1>2, <2>1, <2>2, <2>3, <2>4, <2>5
<1>8. y = x
  BY <1>4, <1>5, <1>6, <1>7, SeqEqual
<1> QED
  BY <1>8 DEF y, x, r, w

LEMMA TakenStep ==
    ASSUME StreamTypes, Len(Rtde!Drained) >= 2, Rtde!Drained[1].frame.type # "X",
           \/ wire' = << >> /\ recv_buf_' = SubSeq(Rtde!Drained, 3, Len(Rtde!Drained))
           \/ wire' = wire /\ recv_buf_' = SubSeq(recv_buf_, 3, Len(recv_buf_)) /\ Len(recv_buf_) >= 2,
           half' = half
    PROVE  /\ Taken
           /\ recv_buf_' \in Seq(Rtde!Units) /\ wire' \in Seq(Rtde!Units)
           /\ Rtde!Drained' = SubSeq(Rtde!Drained, 3, Len(Rtde!Drained))
<1> DEFINE U == Rtde!Units
           d == Rtde!Drained
<1>1. /\ recv_buf_ \in Seq(U) /\ wire \in Seq(U) /\ half \in Seq(U) /\ d \in Seq(U)
      /\ Stream = d \o half /\ d = recv_buf_ \o wire
  BY StreamParts DEF StreamTypes, Stream, Rtde!Drained
<1>2. /\ Stream' = (recv_buf_' \o wire') \o half /\ Rtde!Drained' = recv_buf_' \o wire'
      /\ Len(d) >= 2
  BY DEF Stream, Rtde!Drained
<1> HIDE DEF U, d
<1>3. /\ recv_buf_' \in Seq(U) /\ wire' \in Seq(U)
      /\ recv_buf_' \o wire' = SubSeq(d, 3, Len(d))
  <2>1. CASE wire' = << >> /\ recv_buf_' = SubSeq(d, 3, Len(d))
    <3>1. SubSeq(d, 3, Len(d)) \in Seq(U)
      BY <1>1, <1>2, Dropped
    <3> QED
      BY <2>1, <3>1, ConcatEmptySeq
  <2>2. CASE wire' = wire /\ recv_buf_' = SubSeq(recv_buf_, 3, Len(recv_buf_)) /\ Len(recv_buf_) >= 2
    <3>1. SubSeq(recv_buf_, 3, Len(recv_buf_)) \in Seq(U)
      BY <1>1, <2>2, Dropped
    <3>2. SubSeq(recv_buf_, 3, Len(recv_buf_)) \o wire = SubSeq(d, 3, Len(d))
      BY <1>1, <2>2, DroppedJoined
    <3> QED
      BY <1>1, <2>2, <3>1, <3>2
  <2> QED
    BY <2>1, <2>2 DEF d
<1>4. SubSeq(d, 3, Len(d)) \o half = SubSeq(Stream, 3, Len(Stream))
  BY <1>1, <1>2, DroppedJoined
<1>5. Stream' = SubSeq(Stream, 3, Len(Stream)) /\ Rtde!Drained' = SubSeq(d, 3, Len(d))
  BY <1>2, <1>3, <1>4
<1> QED
  BY <1>3, <1>5 DEF Taken, U, d

(* A reply that is accepted is the first frame that is on its way.         *)
LEMMA AcceptedFacts ==
    ASSUME StreamInv, Rtde!Accepted
    PROVE  /\ Rtde!InHandshake /\ Len(recv_buf_) >= 2 /\ Len(Rtde!Drained) >= 2
           /\ Rtde!Drained[1] = recv_buf_[1] /\ Rtde!Drained[1].frame.type = rpc
           /\ Rtde!Drained[1].frame.type # "X"
           /\ rpc = "S" => streaming
<1>1. /\ Rtde!InHandshake /\ Len(recv_buf_) >= 2 /\ recv_buf_[1].frame.type = rpc
      /\ rpc = "S" => recv_buf_[1].frame.ok
  BY DEF Rtde!Accepted, Rtde!Complete, Rtde!IsReply, Rtde!Reply
<1>2. /\ Len(recv_buf_) \in Nat /\ Len(wire) \in Nat /\ Len(half) \in Nat
      /\ Len(Rtde!Drained) = Len(recv_buf_) + Len(wire)
      /\ Len(Stream) = Len(Rtde!Drained) + Len(half)
      /\ \A k \in 1 .. Len(recv_buf_) : Rtde!Drained[k] = recv_buf_[k]
      /\ \A k \in 1 .. Len(Rtde!Drained) : Stream[k] = Rtde!Drained[k]
  BY StreamParts DEF StreamInv
<1>3. /\ Len(Rtde!Drained) >= 2 /\ 1 \in 1 .. Len(Stream)
      /\ Rtde!Drained[1] = recv_buf_[1] /\ Stream[1] = recv_buf_[1]
  BY <1>1, <1>2
<1>4. rpc = "S" => streaming
  BY <1>1, <1>3 DEF StreamInv
<1> QED
  BY <1>1, <1>3, <1>4 DEF Rtde!InHandshake

(* The reply to a request, and the next request.                           *)
LEMMA RequestInv ==
    ASSUME StreamInv, Rtde!Accepted, NEW type \in {"O", "I", "S"}, Rtde!Request(type), IInv
    PROVE  StreamInv'
<1>1. /\ rpc' = type /\ asked' = type /\ recv_buf_' = SubSeq(recv_buf_, 3, Len(recv_buf_))
      /\ wire' = wire /\ half' = half /\ streaming' = streaming /\ started' = started
      /\ seq' = seq
  BY DEF Rtde!Request, Rtde!Rest
<1>2. Taken /\ recv_buf_' \in Seq(Rtde!Units) /\ wire' \in Seq(Rtde!Units)
  BY <1>1, AcceptedFacts, TakenStep DEF StreamInv
<1>3. StreamTypes'
  BY <1>1, <1>2 DEF StreamInv, StreamTypes
<1> QED
  BY <1>1, <1>2, <1>3, TakenInv DEF StreamInv

LEMMA HandshakeStreamInv == ASSUME IInv, StreamInv, Rtde!Handshake PROVE StreamInv'
<1>1. StreamTypes
  BY DEF StreamInv
<1>2. CASE Rtde!HandshakeReceive
  BY <1>1, <1>2, ReceiveStep, SameInv DEF Rtde!HandshakeReceive, Rtde!session, Rtde!worker
<1>3. CASE Rtde!HandshakeFails
  <2>1. /\ asked' = "" /\ streaming' = FALSE /\ seq' = 0 /\ rpc' = "idle"
        /\ recv_buf_' = << >> /\ wire' = << >> /\ half' = << >> /\ started' = started
    BY <1>3 DEF Rtde!HandshakeFails, Rtde!FreshRobot, Rtde!session
  <2>2. ~started
    BY <1>3 DEF IInv, Phases, Rtde!HandshakeFails
  <2> QED
    BY <2>1, <2>2, EmptyStep, EmptiedInv DEF Rtde!InHandshake
<1>4. CASE Rtde!VersionAgreed
  BY <1>4, RequestInv DEF Rtde!VersionAgreed
<1>5. CASE Rtde!OutputsSetUp
  BY <1>5, RequestInv DEF Rtde!OutputsSetUp
<1>6. CASE Rtde!InputsSetUp
  BY <1>6, RequestInv DEF Rtde!InputsSetUp
<1>7. CASE Rtde!StreamStarted
  <2>1. /\ Rtde!Accepted /\ rpc = "S" /\ rpc' = "poll"
        /\ recv_buf_' = SubSeq(recv_buf_, 3, Len(recv_buf_))
        /\ wire' = wire /\ half' = half /\ streaming' = streaming /\ asked' = asked /\ seq' = seq
    BY <1>7 DEF Rtde!StreamStarted, Rtde!Rest, Rtde!robot
  <2>2. Taken /\ recv_buf_' \in Seq(Rtde!Units) /\ wire' \in Seq(Rtde!Units) /\ streaming
    BY <1>1, <2>1, AcceptedFacts, TakenStep
  <2>3. StreamTypes'
    BY <1>1, <2>1, <2>2 DEF StreamTypes
  <2> QED
    BY <2>1, <2>2, <2>3, TakenInv DEF Rtde!InHandshake
<1> QED
  BY <1>2, <1>3, <1>4, <1>5, <1>6, <1>7 DEF Rtde!Handshake

LEMMA PollStreamInv == ASSUME IInv, StreamInv, Rtde!PollStep PROVE StreamInv'
<1>1. StreamTypes
  BY DEF StreamInv
<1>2. CASE Rtde!PollTakes
  <2>1. /\ Len(Rtde!Drained) >= 2 /\ ~Rtde!Malformed(Rtde!Drained)
        /\ recv_buf_' = SubSeq(Rtde!Drained, 3, Len(Rtde!Drained)) /\ wire' = << >>
        /\ half' = half /\ streaming' = streaming /\ asked' = asked /\ seq' = seq
        /\ rpc = "poll" /\ rpc' = rpc /\ started' = started
    BY <1>2 DEF Rtde!PollTakes, Rtde!Complete, Rtde!Rest, Rtde!session
  <2>2. Rtde!Drained[1].frame.type # "X"
    BY <1>1, <2>1, StreamParts DEF Rtde!Malformed
  <2>3. Taken /\ recv_buf_' \in Seq(Rtde!Units) /\ wire' \in Seq(Rtde!Units)
    BY <1>1, <2>1, <2>2, TakenStep
  <2>4. StreamTypes'
    BY <1>1, <2>1, <2>3 DEF StreamTypes
  <2> QED
    BY <2>1, <2>3, <2>4, TakenInv DEF Rtde!InHandshake, StreamInv
<1>3. CASE Rtde!PollEnds
  BY <1>1, <1>3, PollEndsStep, SameInv DEF Rtde!PollEnds
<1>4. CASE Rtde!PollFails
  <2>1. /\ asked' = "" /\ streaming' = FALSE /\ seq' = 0 /\ rpc' = "idle"
        /\ recv_buf_' = << >> /\ wire' = << >> /\ half' = << >> /\ started' = FALSE
    BY <1>4 DEF Rtde!PollFails, Rtde!FreshRobot
  <2> QED
    BY <2>1, EmptyStep, EmptiedInv DEF Rtde!InHandshake
<1> QED
  BY <1>2, <1>3, <1>4 DEF Rtde!PollStep

LEMMA WorkerStreamInv == ASSUME IInv, StreamInv, Rtde!Worker PROVE StreamInv'
<1>1. StreamTypes
  BY DEF StreamInv
<1>2. CASE Rtde!SessionBegin
  <2>1. /\ recv_buf_' = << >> /\ started' = FALSE /\ rpc = "idle"
        /\ (rpc' = "V" /\ Rtde!FreshRobot("V")) \/ (rpc' = rpc /\ Rtde!FreshRobot(""))
    BY <1>2, Zenon DEF Rtde!SessionBegin, Rtde!Fresh
  <2>2. /\ wire' = << >> /\ half' = << >> /\ streaming' = FALSE /\ seq' = 0
        /\ (rpc' = "V" /\ asked' = "V") \/ (rpc' = "idle" /\ asked' = "")
    BY <2>1 DEF Rtde!FreshRobot
  <2>3. StreamTypes' /\ Emptied
    BY <2>1, <2>2, EmptyStep
  <2> QED
    BY <2>1, <2>2, <2>3, EmptiedInv DEF Rtde!InHandshake
<1>3. CASE Rtde!PollBegin
  BY <1>1, <1>3, SameInv
  DEF Rtde!PollBegin, Rtde!client, Rtde!session, Rtde!robot, Same, Stream, Rtde!Drained, StreamTypes
<1>4. CASE Rtde!Cleanup
  <2>1. /\ asked' = "" /\ streaming' = FALSE /\ seq' = 0 /\ rpc' = "idle"
        /\ recv_buf_' = << >> /\ wire' = << >> /\ half' = << >> /\ started' = FALSE
    BY <1>4, Zenon DEF Rtde!Cleanup, Rtde!Fresh, Rtde!FreshRobot, Rtde!worker
  <2> QED
    BY <2>1, EmptyStep, EmptiedInv DEF Rtde!InHandshake
<1>5. ASSUME NEW t \in TagNames, NEW v \in Values, Rtde!WriteTag(t, v) PROVE StreamInv'
  <2>1. UNCHANGED <<recv_buf_, wire, half, asked, streaming, seq, rpc, peer_closed, started>>
    BY <1>5 DEF Rtde!WriteTag, Rtde!client, Rtde!worker
  <2> QED
    BY <1>1, <2>1, SameInv DEF Same, Stream, Rtde!Drained, StreamTypes
<1> QED
  BY <1>2, <1>3, <1>4, <1>5 DEF Rtde!Worker

(* The controller sends a frame.                                           *)
LEMMA RobotStreamInv == ASSUME IInv, StreamInv, Rtde!Robot PROVE StreamInv'
<1>1. StreamTypes
  BY DEF StreamInv
<1>2. ASSUME NEW f \in Rtde!Frames, Rtde!Transmit(f), Rtde!Unchanged,
             streaming' \in BOOLEAN, streaming => streaming', f.type = "S" /\ f.ok => streaming',
             asked' = asked \/ (f.type = asked /\ asked' = ""), seq' \in Nat
      PROVE  StreamInv'
  <2>1. UNCHANGED <<recv_buf_, rpc, started, peer_closed>>
    BY <1>2 DEF Rtde!Unchanged, Rtde!client, Rtde!session, Rtde!worker
  <2>2. Grown(f) /\ StreamTypes'
    BY <1>1, <1>2, <2>1, TransmitStep DEF StreamTypes
  <2> QED
    BY <1>2, <2>1, <2>2, GrownInv
<1>3. CASE Rtde!RobotAnswers
  <2>1. PICK ok \in BOOLEAN : /\ Rtde!Transmit(Rtde!Frame(asked, ok, 0))
                              /\ streaming' = (streaming \/ (asked = "S" /\ ok))
    BY <1>3 DEF Rtde!RobotAnswers
  <2>2. asked \in Rtde!FrameTypes /\ asked' = "" /\ seq' = seq /\ Rtde!Unchanged /\ 0 \in Nat
    BY <1>1, <1>3 DEF Rtde!RobotAnswers, StreamTypes, Rtde!FrameTypes
  <2> DEFINE f == Rtde!Frame(asked, ok, 0)
  <2>3. f \in Rtde!Frames /\ f.type = asked /\ f.ok = ok
    BY <2>2 DEF Rtde!Frame, Rtde!Frames
  <2>4. streaming' \in BOOLEAN /\ (streaming => streaming') /\ seq' \in Nat
    BY <1>1, <2>1, <2>2 DEF StreamTypes
  <2>5. Rtde!Transmit(f) /\ (f.type = "S" /\ f.ok => streaming')
    BY <2>1, <2>3
  <2> HIDE DEF f
  <2> QED
    BY <1>2, <2>2, <2>3, <2>4, <2>5
<1>4. CASE Rtde!RobotData
  <2>1. /\ Rtde!Transmit(Rtde!Frame("U", TRUE, seq + 1)) /\ seq' = seq + 1 /\ seq \in Nat
        /\ asked' = asked /\ streaming' = streaming /\ Rtde!Unchanged
    BY <1>1, <1>4 DEF Rtde!RobotData, StreamTypes
  <2>2. seq + 1 \in Nat /\ "U" \in Rtde!FrameTypes
    BY <2>1 DEF Rtde!FrameTypes
  <2> QED
    BY <1>1, <1>2, <2>1, <2>2, FrameFacts DEF StreamTypes
<1>5. CASE Rtde!RobotText
  <2>1. /\ Rtde!Transmit(Rtde!Frame("M", TRUE, 0)) /\ seq' = seq
        /\ asked' = asked /\ streaming' = streaming /\ Rtde!Unchanged
    BY <1>1, <1>5 DEF Rtde!RobotText
  <2>2. "M" \in Rtde!FrameTypes
    BY DEF Rtde!FrameTypes
  <2> QED
    BY <1>1, <1>2, <2>1, <2>2, FrameFacts DEF StreamTypes
<1>6. CASE Rtde!RobotBody
  BY <1>1, <1>6, BodyStep, SameInv
  DEF Rtde!RobotBody, Rtde!Unchanged, Rtde!worker, Rtde!session
<1>7. CASE Rtde!RobotBadFrame
  BY <1>1, <1>7, BadFrameStep, SpoiledInv
  DEF Rtde!RobotBadFrame, Rtde!Unchanged, Rtde!worker, Rtde!session
<1>8. CASE Rtde!RobotCloses
  BY <1>1, <1>8, SameInv
  DEF Rtde!RobotCloses, Rtde!client, Rtde!session, Rtde!worker, Same, Stream, Rtde!Drained, StreamTypes
<1> QED
  BY <1>3, <1>4, <1>5, <1>6, <1>7, <1>8 DEF Rtde!Robot

(* It holds at the start and after every step.                             *)
LEMMA InitStreamInv == Rtde!Init => StreamInv
<1> SUFFICES ASSUME Rtde!Init PROVE StreamInv
  OBVIOUS
<1>1. /\ recv_buf_ = << >> /\ wire = << >> /\ half = << >> /\ asked = "" /\ seq = 0
      /\ streaming = FALSE /\ started = FALSE /\ rpc = "idle"
  BY DEF Rtde!Init
<1>2. Stream = << >> /\ Len(Stream) = 0 /\ 1 .. Len(Stream) = {}
  BY <1>1, EmptyUnits DEF Stream, Rtde!Drained
<1>3. /\ recv_buf_ \in Seq(Rtde!Units) /\ wire \in Seq(Rtde!Units) /\ half \in Seq(Rtde!Units)
      /\ \A k \in 1 .. Len(half) : half[k].part = "body"
  BY <1>1, EmptyUnits
<1>4. StreamTypes
  BY <1>1, <1>3 DEF StreamTypes
<1>5. InStep(Stream)
  BY <1>2 DEF InStep
<1> QED
  BY <1>1, <1>2, <1>4, <1>5 DEF StreamInv, Rtde!InHandshake

LEMMA NextStreamInv == IInv /\ StreamInv /\ [Rtde!Next]_(Rtde!vars) => StreamInv'
<1> SUFFICES ASSUME IInv, StreamInv, [Rtde!Next]_(Rtde!vars) PROVE StreamInv'
  OBVIOUS
<1>1. CASE UNCHANGED Rtde!vars
  BY <1>1, SameInv
  DEF Rtde!vars, Rtde!client, Rtde!session, Rtde!worker, Rtde!robot, Same, Stream, Rtde!Drained, StreamTypes,
      StreamInv
<1> QED
  BY <1>1, HandshakeStreamInv, PollStreamInv, WorkerStreamInv, RobotStreamInv DEF Rtde!Next

(* The frames are in step, for any frames the controller sends.            *)
THEOREM RtdeStreamInv == Spec => []StreamInv
<1>1. Init => StreamInv
  BY InitStreamInv DEF Init
<1> QED
  BY <1>1, NextStreamInv, RtdeStep, RtdeInductive, PTL DEF Spec

(* A reply is taken for the request it answers and what starts to be read  *)
(* as a frame starts a frame, for any tags and any frames.                 *)
THEOREM RtdeAnswersInStep == Spec => []AnswersInStep
<1>1. StreamInv => AnswersInStep
  <2> SUFFICES ASSUME StreamInv PROVE AnswersInStep
    OBVIOUS
  <2>1. /\ Stream \in Seq(Rtde!Units) /\ Len(Stream) = Len(Rtde!Drained) + Len(half)
        /\ Len(Rtde!Drained) = Len(recv_buf_) + Len(wire)
        /\ Len(recv_buf_) \in Nat /\ Len(wire) \in Nat /\ Len(half) \in Nat
        /\ \A k \in 1 .. Len(recv_buf_) : Rtde!Drained[k] = recv_buf_[k]
        /\ \A k \in 1 .. Len(Rtde!Drained) : Stream[k] = Rtde!Drained[k]
        /\ recv_buf_ \in Seq(Rtde!Units)
    BY StreamParts DEF StreamInv, StreamTypes
  <2>2. Rtde!FramesAligned
    <3>1. ASSUME recv_buf_ # << >> PROVE recv_buf_[1].part = "head"
      <4>1. 1 \in 1 .. Len(recv_buf_) /\ 1 \in 1 .. Len(Rtde!Drained) /\ Stream # << >>
        BY <2>1, <3>1
      <4> QED
        BY <2>1, <4>1, FirstInStep DEF StreamInv
    <3> QED
      BY <3>1 DEF Rtde!FramesAligned
  <2>3. Rtde!InHandshake => peer_closed \/ Rtde!UnderWay(rpc)
    <3>1. DOMAIN Stream = 1 .. Len(Stream)
      BY <2>1
    <3>2. Stream = recv_buf_ \o wire \o half
      BY DEF Stream, Rtde!Drained
    <3> QED
      BY <3>1, <3>2 DEF StreamInv, Rtde!UnderWay
  <2> QED
    BY <2>2, <2>3 DEF StreamInv, AnswersInStep, Rtde!AnswersInStep
<1> QED
  BY <1>1, RtdeStreamInv, PTL
---------------------------------------------------------------------------
(***************************************************************************)
(* Fields.  From the reply to the last setup request on, every variable of *)
(* the recipes has a type and every tag an index in the range of its       *)
(* field, or the handshake had failed (FieldsInv); so the offsets are      *)
(* those of the layout (RtdeFields_proofs).                                *)
(***************************************************************************)

(* The operators of RtdeFields, as RtdeSession has them.                   *)
LEMMA LayoutOperators ==
    /\ \A bases : Rtde!Recipe(bases) = Recipe(bases)
    /\ \A names : Rtde!Before(names) = Before(names)
    /\ \A names : Rtde!PayloadSize(names) = PayloadSize(names)
    /\ \A names : Rtde!RobotCells(names) = RobotCells(names)
<1>1. \A bases : Rtde!Recipe(bases) = Recipe(bases)
  BY DEF Rtde!Recipe, Recipe
<1>2. \A names : Rtde!Before(names) = Before(names)
  BY DEF Rtde!Before, Before, Rtde!field_size, field_size
<1>3. \A names : Rtde!PayloadSize(names) = PayloadSize(names)
  BY <1>2 DEF Rtde!PayloadSize, PayloadSize
<1>4. \A names : Rtde!RobotCells(names) = RobotCells(names)
  BY DEF Rtde!RobotCells, RobotCells, Rtde!FieldCells, FieldCells, Rtde!RobotElements,
         RobotElements, Rtde!ElementCells, ElementCells, Rtde!FlattenSeq, FlattenSeq
<1> QED
  BY <1>1, <1>2, <1>3, <1>4

(* ... and those of a single tag.                                          *)
LEMMA TagOperators ==
    ASSUME NEW t
    PROVE  /\ Rtde!IsBit(t) = IsBit(t) /\ Rtde!IndexInRange(t) = IndexInRange(t)
           /\ Rtde!Width(t) = Width(t)
           /\ \A names : Rtde!ByteOffset(names, t) = ByteOffset(names, t)
<1>1. Rtde!IsBit(t) = IsBit(t)
  BY DEF Rtde!IsBit, IsBit
<1>2. \A ft : /\ Rtde!field_scalar_size(ft) = field_scalar_size(ft)
              /\ Rtde!field_arity(ft) = field_arity(ft)
              /\ Rtde!field_element_type(ft) = field_element_type(ft)
  BY DEF Rtde!field_scalar_size, field_scalar_size, Rtde!field_arity, field_arity,
         Rtde!field_element_type, field_element_type
<1>3. Rtde!IndexInRange(t) = IndexInRange(t)
  BY <1>1, <1>2 DEF Rtde!IndexInRange, IndexInRange
<1>4. Rtde!Width(t) = Width(t)
  BY <1>1, <1>2 DEF Rtde!Width, Width
<1>5. \A names : Rtde!ByteOffset(names, t) = ByteOffset(names, t)
  BY <1>1, <1>2, LayoutOperators DEF Rtde!ByteOffset, ByteOffset, Rtde!FieldOffset, FieldOffset
<1> QED
  BY <1>1, <1>3, <1>4, <1>5

(* Every variable of a recipe has a type that the client knows.            *)
Known(inputs) == TypesKnown(Rtde!Names(inputs))

FieldsInv ==
    /\ rpc \in {"I", "S"} \/ initialized => Known(FALSE)
    /\ rpc = "S" \/ initialized => /\ Known(TRUE) /\ Rtde!TagsResolve
                                   /\ offset = Rtde!Offsets

(* A recipe names the variables of its tags, each once.                    *)
LEMMA NamesFacts ==
    ASSUME NEW inputs
    PROVE  /\ Rtde!Names(inputs) \in Seq(Bases)
           /\ \A m, n \in 1 .. Len(Rtde!Names(inputs)) :
                 Rtde!Names(inputs)[m] = Rtde!Names(inputs)[n] => m = n
           /\ \A t \in entries : t.base \in Bases /\ Rtde!IsInput(t) = inputs =>
                 \E m \in 1 .. Len(Rtde!Names(inputs)) : Rtde!Names(inputs)[m] = t.base
<1> DEFINE bases == {t.base : t \in {u \in entries : Rtde!IsInput(u) = inputs}}
<1>1. Rtde!Names(inputs) = Recipe(bases)
  BY LayoutOperators DEF Rtde!Names
<1>2. \A t \in entries : Rtde!IsInput(t) = inputs => t.base \in bases
  OBVIOUS
<1> HIDE DEF bases
<1> QED
  BY <1>1, <1>2, RecipeFacts

(* A recipe whose reply names no refusal has known types.                  *)
LEMMA FoundIsKnown == ASSUME NEW inputs, Rtde!AllFound(Rtde!Names(inputs)) PROVE Known(inputs)
<1> DEFINE names == Rtde!Names(inputs)
<1>1. names \in Seq(Bases)
  BY NamesFacts
<1>2. \A k \in DOMAIN names : Types[names[k]] \notin Refusals
  BY DEF Rtde!AllFound, Rtde!Refusals, Refusals
<1> HIDE DEF names
<1>3. \A k \in DOMAIN names : names[k] \in Bases
  BY <1>1
<1>4. TypesKnown(names)
  BY <1>2, <1>3, RtdeAssumption DEF RtdeAssumption, TypesKnown
<1> QED
  BY <1>4 DEF Known, names

(* The replies to the setup requests establish it, the rest keeps it.      *)
LEMMA NextFieldsInv == IInv /\ FieldsInv /\ [Rtde!Next]_(Rtde!vars) => FieldsInv'
<1> SUFFICES ASSUME IInv, FieldsInv, [Rtde!Next]_(Rtde!vars) PROVE FieldsInv'
  OBVIOUS
<1>1. entries' = entries => /\ \A inputs : Known(inputs)' = Known(inputs)
                            /\ Rtde!TagsResolve' = Rtde!TagsResolve
                            /\ Rtde!Offsets' = Rtde!Offsets
  BY DEF Known, Rtde!Names, Rtde!TagsResolve, Rtde!Offsets, Rtde!RecipeOf
<1>2. ASSUME entries' = entries, offset' = offset, initialized' = initialized,
             rpc' = rpc \/ rpc' \notin {"I", "S"}
      PROVE  FieldsInv'
  BY <1>1, <1>2 DEF FieldsInv
<1>3. ASSUME initialized' = FALSE, rpc' \notin {"I", "S"} PROVE FieldsInv'
  BY <1>3 DEF FieldsInv
<1>4. CASE Rtde!OutputsSetUp
  <2>1. /\ Rtde!Accepted /\ rpc = "O" /\ entries' = entries /\ ~initialized
        /\ initialized' = initialized
        /\ \/ Rtde!Names(TRUE) # <<>> /\ rpc' = "I"
           \/ Rtde!Names(TRUE) = <<>> /\ rpc' = "S" /\ offset' = Rtde!Offsets
    BY <1>4 DEF Rtde!OutputsSetUp, Rtde!Request, Rtde!group, IInv, Phases, Rtde!InHandshake
  <2>2. Rtde!AllFound(Rtde!Names(FALSE)) /\ (Rtde!Names(TRUE) = <<>> => Rtde!TagsResolve)
    BY <2>1 DEF Rtde!Accepted
  <2>3. Known(FALSE)
    BY <2>2, FoundIsKnown
  <2>4. Rtde!Names(TRUE) = <<>> => Known(TRUE)
    <3>1. TypesKnown(<< >>)
      BY DOMAIN << >> = {} DEF TypesKnown
    <3> QED
      BY <3>1 DEF Known
  <2> QED
    BY <1>1, <2>1, <2>2, <2>3, <2>4 DEF FieldsInv
<1>5. CASE Rtde!InputsSetUp
  <2>1. /\ Rtde!Accepted /\ rpc = "I" /\ entries' = entries /\ rpc' = "S"
        /\ initialized' = initialized /\ offset' = Rtde!Offsets
    BY <1>5 DEF Rtde!InputsSetUp, Rtde!Request, Rtde!group
  <2>2. Rtde!AllFound(Rtde!Names(TRUE)) /\ Rtde!TagsResolve
    BY <2>1 DEF Rtde!Accepted
  <2>3. Known(TRUE) /\ Known(FALSE)
    BY <2>1, <2>2, FoundIsKnown DEF FieldsInv
  <2> QED
    BY <1>1, <2>1, <2>2, <2>3 DEF FieldsInv
<1>6. CASE Rtde!StreamStarted
  <2>1. rpc = "S" /\ entries' = entries /\ offset' = offset /\ rpc' = "poll"
    BY <1>6 DEF Rtde!StreamStarted
  <2> QED
    BY <1>1, <2>1 DEF FieldsInv
<1>7. CASE Rtde!Handshake
  <2>1. CASE Rtde!HandshakeReceive
    BY <1>2, <2>1 DEF Rtde!HandshakeReceive, Rtde!group, Rtde!session, Rtde!worker
  <2>2. CASE Rtde!HandshakeFails
    BY <1>2, <2>2 DEF Rtde!HandshakeFails, Rtde!session
  <2>3. CASE Rtde!VersionAgreed
    BY <1>2, <2>3 DEF Rtde!VersionAgreed, Rtde!Request, Rtde!group
  <2> QED
    BY <1>4, <1>5, <1>6, <1>7, <2>1, <2>2, <2>3 DEF Rtde!Handshake
<1>8. CASE Rtde!PollStep
  <2>1. CASE Rtde!PollTakes
    BY <1>2, <2>1 DEF Rtde!PollTakes, Rtde!group, Rtde!session
  <2>2. CASE Rtde!PollEnds
    BY <1>2, <2>2 DEF Rtde!PollEnds, Rtde!group
  <2>3. CASE Rtde!PollFails
    BY <1>2, <2>3 DEF Rtde!PollFails
  <2> QED
    BY <1>8, <2>1, <2>2, <2>3 DEF Rtde!PollStep
<1>9. CASE Rtde!Worker
  <2>1. CASE Rtde!SessionBegin
    <3>1. initialized' = FALSE /\ rpc = "idle" /\ (rpc' = "V" \/ rpc' = rpc)
      BY <2>1, Zenon DEF Rtde!SessionBegin, Rtde!Fresh
    <3> QED
      BY <1>3, <3>1
  <2>2. CASE Rtde!PollBegin
    BY <1>2, <2>2 DEF Rtde!PollBegin, Rtde!group, Rtde!session
  <2>3. CASE Rtde!Cleanup
    <3>1. initialized' = FALSE /\ rpc = "idle" /\ rpc' = rpc
      BY <2>3, Zenon DEF Rtde!Cleanup, Rtde!Fresh, Rtde!worker
    <3> QED
      BY <1>3, <3>1
  <2>4. ASSUME NEW t \in TagNames, NEW v \in Values, Rtde!WriteTag(t, v) PROVE FieldsInv'
    BY <1>2, <2>4 DEF Rtde!WriteTag, Rtde!group, Rtde!worker
  <2> QED
    BY <1>9, <2>1, <2>2, <2>3, <2>4 DEF Rtde!Worker
<1>10. CASE Rtde!Robot
  BY <1>2, <1>10, RobotChangesOwn DEF Rtde!group, Rtde!session, Rtde!worker
<1>11. CASE UNCHANGED Rtde!vars
  BY <1>2, <1>11 DEF Rtde!vars, Rtde!group, Rtde!session, Rtde!worker
<1> QED
  BY <1>7, <1>8, <1>9, <1>10, <1>11 DEF Rtde!Next

(* The layout is settled with the handshake, for any tags and types.       *)
THEOREM RtdeFieldsInv == Spec => []FieldsInv
<1>1. Rtde!Init => FieldsInv
  BY DEF Rtde!Init, FieldsInv
<1>2. Init => FieldsInv
  BY <1>1 DEF Init
<1> QED
  BY <1>2, NextFieldsInv, RtdeStep, RtdeInductive, PTL DEF Spec

(* Where a tag is read from and written to lie the bytes of its element.   *)
LEMMA TagFound ==
    ASSUME IInv, FieldsInv, rpc = "S" \/ initialized, NEW t \in entries
    PROVE  /\ t \in [base : Bases, index : Int, brackets : BOOLEAN]
           /\ offset[t] \in Nat
           /\ Rtde!Width(t) = field_scalar_size(Types[t.base])
           /\ \A k \in 1 .. Rtde!Width(t) :
                 /\ offset[t] + k \in 1 .. Rtde!PayloadSize(Rtde!RecipeOf(t))
                 /\ Rtde!RobotCells(Rtde!RecipeOf(t))[offset[t] + k]
                       = CellOf(t.base, Rtde!Element(t), k)
<1> DEFINE names == Rtde!RecipeOf(t)
<1>1. t \in TagNames /\ t \in [base : Bases, index : Int, brackets : BOOLEAN]
  BY RtdeAssumption DEF RtdeAssumption, IInv, Phases
<1>2. names = Rtde!Names(TRUE) \/ names = Rtde!Names(FALSE)
  <2>1. Rtde!IsInput(t) = TRUE \/ Rtde!IsInput(t) = FALSE
    BY DEF Rtde!IsInput
  <2> QED
    BY <2>1 DEF Rtde!RecipeOf
<1>3. TypesKnown(names)
  BY <1>2 DEF FieldsInv, Known
<1>4. /\ names \in Seq(Bases)
      /\ \A m, n \in 1 .. Len(names) : names[m] = names[n] => m = n
      /\ \E m \in 1 .. Len(names) : names[m] = t.base
  BY <1>1, NamesFacts DEF Rtde!RecipeOf
<1>5. IndexInRange(t)
  BY TagOperators DEF FieldsInv, Rtde!TagsResolve
<1>6. offset[t] = ByteOffset(names, t)
  BY <1>1, TagOperators DEF FieldsInv, Rtde!Offsets
<1> HIDE DEF names
<1>7. /\ ByteOffset(names, t) \in Nat
      /\ Width(t) = field_scalar_size(Types[t.base])
      /\ \A k \in 1 .. Width(t) :
            /\ ByteOffset(names, t) + k \in 1 .. PayloadSize(names)
            /\ RobotCells(names)[ByteOffset(names, t) + k]
                  = CellOf(t.base, IF IsBit(t) THEN 0 ELSE t.index, k)
  BY <1>1, <1>3, <1>4, <1>5, TagPlaced
<1> QED
  BY <1>1, <1>6, <1>7, LayoutOperators, TagOperators DEF Rtde!Element, names

(* A payload has the cells of its recipe, of which there are as many as    *)
(* the client takes it to have bytes.                                      *)
LEMMA PayloadFits ==
    ASSUME IInv, FieldsInv, initialized, NEW inputs \in BOOLEAN
    PROVE  LET cells == Rtde!RobotCells(Rtde!Names(inputs))
           IN /\ Len(cells) = Rtde!PayloadSize(Rtde!Names(inputs))
              /\ DOMAIN cells = 1 .. Rtde!PayloadSize(Rtde!Names(inputs))
              /\ Rtde!PayloadSize(Rtde!Names(inputs)) \in Nat
<1> DEFINE names == Rtde!Names(inputs)
<1>1. names \in Seq(Bases) /\ TypesKnown(names)
  BY NamesFacts DEF FieldsInv, Known
<1> HIDE DEF names
<1>2. \A m \in 1 .. Len(names) : Types[names[m]] \in FieldTypes
  BY <1>1 DEF TypesKnown
<1>3. RobotCells(names) \in Seq(Cell) /\ Len(RobotCells(names)) = PayloadSize(names)
  BY <1>1, <1>2, RobotLayout
<1>4. DOMAIN RobotCells(names) = 1 .. PayloadSize(names) /\ PayloadSize(names) \in Nat
  BY <1>3
<1> QED
  BY <1>3, <1>4, LayoutOperators DEF names

(* A tag of RtdeSession lies where the controller puts it, for all         *)
(* recipes, types and tags.                                                *)
THEOREM RtdeFieldsFound == Spec => []FieldsFound
<1>1. IInv /\ FieldsInv => FieldsFound
  <2> SUFFICES ASSUME IInv, FieldsInv, initialized, NEW t \in entries,
                      NEW k \in 1 .. Rtde!Width(t)
               PROVE  LET cells == Rtde!RobotCells(Rtde!RecipeOf(t))
                      IN /\ offset[t] + k \in DOMAIN cells
                         /\ cells[offset[t] + k]
                               = [base |-> t.base, element |-> Rtde!Element(t), byte |-> k]
    BY DEF FieldsFound, Rtde!FieldsFound
  <2>1. Rtde!IsInput(t) \in BOOLEAN
    BY DEF Rtde!IsInput
  <2>2. DOMAIN Rtde!RobotCells(Rtde!RecipeOf(t)) = 1 .. Rtde!PayloadSize(Rtde!RecipeOf(t))
    BY <2>1, PayloadFits DEF Rtde!RecipeOf
  <2> QED
    BY <2>2, TagFound DEF CellOf
<1> QED
  BY <1>1, RtdeInductive, RtdeFieldsInv, PTL

(***************************************************************************)
(* Data packages.  Of those that were sent the client has not yet taken    *)
(* those after the current one, all of them, in their order; what it takes *)
(* before a session starts, and what it takes with a package, is none of   *)
(* them (DataInv).                                                         *)
(***************************************************************************)
Data(units) == {k \in 1 .. Len(units) : units[k].part = "head" /\ units[k].frame.type = "U"}

InOrder(units, lo, hi) ==
    /\ \A k \in Data(units) : units[k].frame.seq \in lo + 1 .. hi
    /\ \A k, l \in Data(units) : k < l => units[k].frame.seq < units[l].frame.seq
    /\ \A n \in lo + 1 .. hi : \E k \in Data(units) : units[k].frame.seq = n

Current == IF latest # 0 THEN latest ELSE output_payload

DataInv ==
    /\ output_payload \in Nat /\ latest \in Nat
    /\ latest # 0 => rpc = "poll"
    /\ Rtde!InHandshake => output_payload = 0
    /\ rpc = "idle" /\ started => ~Rtde!Complete(recv_buf_)
    /\ socket_ => Current <= seq
    /\ InOrder(Rtde!Drained, Current, seq)

(* An empty buffer, with no package sent.                                  *)
LEMMA EmptyInOrder == ASSUME NEW lo \in Nat PROVE InOrder(<< >>, lo, 0)
<1>1. Data(<< >>) = {} /\ lo + 1 .. 0 = {}
  BY EmptyUnits DEF Data
<1> QED
  BY <1>1 DEF InOrder

(* Something else arrives.                                                 *)
LEMMA OtherInOrder ==
    ASSUME NEW u \in Seq(Rtde!Units), NEW s \in Seq(Rtde!Units), NEW lo \in Nat, NEW hi \in Nat,
           InOrder(u, lo, hi), \A k \in 1 .. Len(s) : s[k].part = "body" \/ s[k].frame.type # "U"
    PROVE  InOrder(u \o s, lo, hi)
<1> DEFINE v == u \o s
<1>1. /\ Len(u) \in Nat /\ Len(s) \in Nat /\ Len(v) = Len(u) + Len(s)
      /\ \A k \in 1 .. Len(u) + Len(s) : v[k] = IF k <= Len(u) THEN u[k] ELSE s[k - Len(u)]
  BY ConcatProperties
<1> HIDE DEF v
<1>2. ASSUME NEW k \in 1 .. Len(v), ~ (k <= Len(u)) PROVE k \notin Data(v)
  <2>1. k - Len(u) \in 1 .. Len(s) /\ v[k] = s[k - Len(u)]
    BY <1>1, <1>2
  <2> QED
    BY <2>1 DEF Data
<1>3. ASSUME NEW k \in 1 .. Len(v), k <= Len(u)
      PROVE  k \in 1 .. Len(u) /\ v[k] = u[k] /\ (k \in Data(v) <=> k \in Data(u))
  BY <1>1, <1>3 DEF Data
<1>4. Data(v) = Data(u) /\ \A k \in Data(u) : v[k] = u[k]
  <2>1. Data(u) \subseteq 1 .. Len(v) /\ \A k \in Data(u) : k <= Len(u)
    BY <1>1 DEF Data
  <2>2. Data(v) \subseteq 1 .. Len(v)
    BY DEF Data
  <2> QED
    BY <1>2, <1>3, <2>1, <2>2
<1>5. InOrder(v, lo, hi)
  BY <1>4 DEF InOrder
<1> QED
  BY <1>5 DEF v

(* The next package arrives.                                               *)
LEMMA NextInOrder ==
    ASSUME NEW u \in Seq(Rtde!Units), NEW lo \in Nat, NEW hi \in Nat, lo <= hi,
           NEW unit \in Rtde!Units, unit.part = "head", unit.frame.type = "U",
           unit.frame.seq = hi + 1, InOrder(u, lo, hi)
    PROVE  InOrder(Append(u, unit), lo, hi + 1)
<1> DEFINE v == Append(u, unit)
           n == Len(u)
<1>1. /\ n \in Nat /\ Len(v) = n + 1 /\ v[n + 1] = unit
      /\ \A k \in 1 .. n : v[k] = u[k]
  BY AppendProperties
<1> HIDE DEF v, n
<1>2. Data(v) = Data(u) \cup {n + 1} /\ \A k \in Data(u) : k \in 1 .. n
  <2>1. 1 .. Len(v) = (1 .. n) \cup {n + 1} /\ Len(u) = n
    BY <1>1 DEF n
  <2> QED
    BY <1>1, <2>1 DEF Data
<1>3. \A k \in Data(u) : v[k] = u[k] /\ u[k].frame.seq \in lo + 1 .. hi /\ k < n + 1
  BY <1>1, <1>2 DEF InOrder
<1>4. \A k \in Data(v) : v[k].frame.seq \in lo + 1 .. hi + 1
  BY <1>1, <1>2, <1>3
<1>5. ASSUME NEW k \in Data(v), NEW l \in Data(v), k < l
      PROVE  v[k].frame.seq < v[l].frame.seq
  <2>1. k \in Data(u)
    BY <1>1, <1>2, <1>5
  <2>2. CASE l \in Data(u)
    BY <1>3, <1>5, <2>1, <2>2 DEF InOrder
  <2>3. CASE l = n + 1
    <3>1. v[l].frame.seq = hi + 1
      BY <1>1, <2>3
    <3>2. v[k].frame.seq \in lo + 1 .. hi
      BY <1>3, <2>1
    <3> QED
      BY <3>1, <3>2
  <2> QED
    BY <1>2, <1>5, <2>2, <2>3
<1>6. ASSUME NEW m \in lo + 1 .. hi + 1 PROVE \E k \in Data(v) : v[k].frame.seq = m
  <2>1. CASE m = hi + 1
    BY <1>1, <1>2, <2>1
  <2>2. CASE m \in lo + 1 .. hi
    <3>1. PICK k \in Data(u) : u[k].frame.seq = m
      BY <2>2 DEF InOrder
    <3> QED
      BY <1>2, <1>3, <3>1
  <2> QED
    BY <2>1, <2>2
<1>7. InOrder(v, lo, hi + 1)
  BY <1>4, <1>5, <1>6 DEF InOrder
<1> QED
  BY <1>7 DEF v

(* The first frame is taken, and is the current one if it is a package.    *)
LEMMA RestInOrder ==
    ASSUME NEW u \in Seq(Rtde!Units), NEW lo \in Nat, NEW hi \in Nat, Len(u) >= 2,
           u[1].part = "head", u[2].part = "body", InOrder(u, lo, hi)
    PROVE  /\ u[1].frame.type = "U" => u[1].frame.seq \in lo + 1 .. hi
           /\ InOrder(SubSeq(u, 3, Len(u)),
                      IF u[1].frame.type = "U" THEN u[1].frame.seq ELSE lo, hi)
<1> DEFINE v == SubSeq(u, 3, Len(u))
           n == Len(u)
           cur == IF u[1].frame.type = "U" THEN u[1].frame.seq ELSE lo
<1>1. n \in Nat /\ n >= 2 /\ Len(v) = n - 2 /\ \A k \in 1 .. n - 2 : v[k] = u[k + 2]
  BY Dropped
<1>2. /\ u[1].frame.type = "U" => 1 \in Data(u)
      /\ u[1].frame.type # "U" => 1 \notin Data(u)
      /\ 2 \notin Data(u)
  <2>1. 1 \in 1 .. Len(u)
    BY <1>1 DEF n
  <2>2. "body" # "head"
    OBVIOUS
  <2> QED
    BY <2>1, <2>2 DEF Data
<1>3. u[1].frame.type = "U" => u[1].frame.seq \in lo + 1 .. hi
  BY <1>2 DEF InOrder
<1>4. cur \in lo .. hi \/ cur = lo
  BY <1>3
<1> HIDE DEF v, n
<1>5. \A k \in Data(v) : k \in 1 .. n - 2 /\ k + 2 \in Data(u) /\ v[k] = u[k + 2]
  <2> TAKE k \in Data(v)
  <2>1. k \in 1 .. n - 2 /\ v[k] = u[k + 2] /\ v[k].part = "head" /\ v[k].frame.type = "U"
    BY <1>1 DEF Data
  <2>2. k + 2 \in 1 .. Len(u)
    BY <1>1, <2>1 DEF n
  <2> QED
    BY <2>1, <2>2 DEF Data
<1>6. \A k \in Data(u) : k = 1 \/ (k - 2 \in Data(v) /\ v[k - 2] = u[k])
  <2> TAKE k \in Data(u)
  <2>1. k \in 1 .. n /\ u[k].part = "head" /\ u[k].frame.type = "U" /\ k # 2
    BY <1>2 DEF Data, n
  <2>2. CASE k # 1
    <3>1. k - 2 \in 1 .. n - 2 /\ (k - 2) + 2 = k
      BY <1>1, <2>1, <2>2
    <3>2. v[k - 2] = u[k] /\ k - 2 \in 1 .. Len(v)
      BY <1>1, <3>1
    <3> QED
      BY <2>1, <3>2 DEF Data
  <2> QED
    BY <2>2
<1>7. \A k \in Data(v) : v[k].frame.seq \in cur + 1 .. hi
  <2> TAKE k \in Data(v)
  <2>1. v[k].frame.seq \in lo + 1 .. hi /\ k + 2 \in Data(u) /\ k \in 1 .. n - 2
    BY <1>5 DEF InOrder
  <2>2. CASE u[1].frame.type = "U"
    <3>1. 1 < k + 2
      BY <1>1, <2>1
    <3>2. u[1].frame.seq < u[k + 2].frame.seq
      BY <1>2, <2>1, <2>2, <3>1 DEF InOrder
    <3>3. v[k] = u[k + 2] /\ u[1].frame.seq \in lo + 1 .. hi
      BY <1>3, <1>5, <2>2
    <3>4. cur = u[1].frame.seq /\ cur < v[k].frame.seq
      BY <2>2, <3>2, <3>3
    <3> HIDE DEF cur
    <3> QED
      BY <2>1, <3>3, <3>4
  <2>3. CASE u[1].frame.type # "U"
    BY <2>1, <2>3
  <2> QED
    BY <2>2, <2>3
<1>8. \A k, l \in Data(v) : k < l => v[k].frame.seq < v[l].frame.seq
  <2> TAKE k, l \in Data(v)
  <2>1. k + 2 \in Data(u) /\ l + 2 \in Data(u) /\ v[k] = u[k + 2] /\ v[l] = u[l + 2]
        /\ (k < l => k + 2 < l + 2)
    BY <1>1, <1>5
  <2> QED
    BY <2>1 DEF InOrder
<1>9. \A m \in cur + 1 .. hi : \E k \in Data(v) : v[k].frame.seq = m
  <2> TAKE m \in cur + 1 .. hi
  <2>1. m \in lo + 1 .. hi /\ m # cur
    BY <1>3, <1>4
  <2>2. PICK k \in Data(u) : u[k].frame.seq = m
    BY <2>1 DEF InOrder
  <2>3. k # 1
    BY <1>2, <2>1, <2>2
  <2> QED
    BY <1>6, <2>2, <2>3
<1> HIDE DEF cur
<1>10. InOrder(v, cur, hi)
  BY <1>7, <1>8, <1>9 DEF InOrder
<1> QED
  BY <1>3, <1>10 DEF v, cur

(* So many packages are waiting as were sent after the current one.        *)
LEMMA CountInOrder ==
    ASSUME NEW u \in Seq(Rtde!Units), NEW lo \in Nat, NEW hi \in Nat, lo <= hi,
           InOrder(u, lo, hi)
    PROVE  Cardinality(Data(u)) = hi - lo
<1> DEFINE At(n) == CHOOSE k \in Data(u) : u[k].frame.seq = lo + n
           f == [n \in 1 .. hi - lo |-> At(n)]
<1>1. \A n \in 1 .. hi - lo : At(n) \in Data(u) /\ u[At(n)].frame.seq = lo + n
  <2> TAKE n \in 1 .. hi - lo
  <2>1. lo + n \in lo + 1 .. hi
    OBVIOUS
  <2>2. \E k \in Data(u) : u[k].frame.seq = lo + n
    BY <2>1 DEF InOrder
  <2> QED
    BY <2>2
<1> HIDE DEF At
<1>2. \A k, l \in Data(u) : u[k].frame.seq = u[l].frame.seq => k = l
  <2> TAKE k, l \in Data(u)
  <2>1. k \in Nat /\ l \in Nat /\ u[k].frame.seq \in lo + 1 .. hi /\ u[l].frame.seq \in lo + 1 .. hi
    BY DEF Data, InOrder
  <2>2. k < l => u[k].frame.seq < u[l].frame.seq
    BY DEF InOrder
  <2>3. l < k => u[l].frame.seq < u[k].frame.seq
    BY DEF InOrder
  <2> QED
    BY <2>1, <2>2, <2>3
<1>3. f \in Injection(1 .. hi - lo, Data(u))
  <2>1. f \in [1 .. hi - lo -> Data(u)]
    BY <1>1
  <2>2. ASSUME NEW m \in 1 .. hi - lo, NEW n \in 1 .. hi - lo, f[m] = f[n] PROVE m = n
    <3>1. lo + m = lo + n
      BY <1>1, <2>2
    <3> QED
      BY <3>1
  <2> HIDE DEF f
  <2>3. \A m, n \in 1 .. hi - lo : f[m] = f[n] => m = n
    BY <2>2
  <2> QED
    BY <2>1, <2>3 DEF Injection, IsInjective
<1>4. f \in Surjection(1 .. hi - lo, Data(u))
  <2>1. f \in [1 .. hi - lo -> Data(u)]
    BY <1>1
  <2>2. ASSUME NEW k \in Data(u) PROVE \E n \in 1 .. hi - lo : f[n] = k
    <3>1. u[k].frame.seq \in lo + 1 .. hi
      BY DEF InOrder
    <3>2. u[k].frame.seq - lo \in 1 .. hi - lo /\ lo + (u[k].frame.seq - lo) = u[k].frame.seq
      BY <3>1
    <3>3. f[u[k].frame.seq - lo] = k
      BY <1>1, <1>2, <3>2
    <3> QED
      BY <3>2, <3>3
  <2> HIDE DEF f
  <2> QED
    BY <2>1, <2>2 DEF Surjection
<1>5. ExistsBijection(1 .. hi - lo, Data(u))
  <2> HIDE DEF f
  <2> QED
    BY <1>3, <1>4 DEF ExistsBijection, Bijection
<1>6. hi - lo \in Nat
  OBVIOUS
<1> QED
  BY <1>5, <1>6, FS_CountingElements

(* Where the client takes a frame, it takes a header and its body.         *)
LEMMA FrameTaken ==
    ASSUME StreamInv, Len(Rtde!Drained) >= 2, Rtde!Drained[1].frame.type # "X"
    PROVE  /\ Rtde!Drained \in Seq(Rtde!Units)
           /\ Rtde!Drained[1].part = "head" /\ Rtde!Drained[2].part = "body"
<1>1. /\ Stream \in Seq(Rtde!Units) /\ Rtde!Drained \in Seq(Rtde!Units)
      /\ Len(Stream) = Len(Rtde!Drained) + Len(half) /\ Len(half) \in Nat
      /\ Len(Rtde!Drained) = Len(recv_buf_) + Len(wire)
      /\ Len(recv_buf_) \in Nat /\ Len(wire) \in Nat
      /\ \A k \in 1 .. Len(Rtde!Drained) : Stream[k] = Rtde!Drained[k]
  BY StreamParts DEF StreamInv
<1>2. Stream[1] = Rtde!Drained[1] /\ Stream[2] = Rtde!Drained[2] /\ Stream # << >>
  BY <1>1
<1>3. /\ Stream[1] \in Rtde!Units /\ Stream[1].part = "head"
      /\ Stream[2] = Rtde!Unit(Stream[1].frame, "body")
  BY <1>1, <1>2, FirstInStep DEF StreamInv
<1>4. Stream[2].part = "body"
  BY <1>3 DEF Rtde!Unit
<1> QED
  BY <1>1, <1>2, <1>3, <1>4

(* The types that the cases below need.                                    *)
LEMMA SeqIsNat == ASSUME StreamInv PROVE seq \in Nat
  BY DEF StreamInv, StreamTypes

LEMMA CurrentIsNat == ASSUME DataInv PROVE Current \in Nat
  BY DEF DataInv, Current

(* The handshake takes a reply.                                            *)
LEMMA ReplyDataInv ==
    ASSUME StreamInv, DataInv, Rtde!Accepted, Rtde!Drained' = SubSeq(Rtde!Drained, 3, Len(Rtde!Drained)),
           UNCHANGED <<output_payload, latest, seq, socket_>>,
           rpc' \in {"O", "I", "S", "poll"}
    PROVE  DataInv'
<1>1. /\ Rtde!InHandshake /\ Len(Rtde!Drained) >= 2 /\ Rtde!Drained[1].frame.type = rpc
      /\ Rtde!Drained[1].frame.type # "X" /\ rpc # "U"
  BY AcceptedFacts DEF Rtde!InHandshake
<1>2. InOrder(Rtde!Drained, Current, seq)
  BY DEF DataInv
<1>3. InOrder(Rtde!Drained', Current, seq)
  BY <1>1, <1>2, FrameTaken, SeqIsNat, CurrentIsNat, RestInOrder
<1>4. Current' = Current
  BY DEF Current
<1>5. InOrder(Rtde!Drained, Current, seq)'
  BY <1>3, <1>4 DEF InOrder, Data
<1> QED
  BY <1>1, <1>4, <1>5 DEF DataInv, Rtde!InHandshake

(* Nothing is taken and nothing arrives.                                   *)
LEMMA KeptDataInv ==
    ASSUME DataInv, Rtde!Drained' = Rtde!Drained, Current' = Current, seq' = seq,
           output_payload' \in Nat, latest' \in Nat, socket_' = socket_,
           latest' # 0 => rpc' = "poll", Rtde!InHandshake' => output_payload' = 0,
           rpc' = "idle" /\ started' => ~Rtde!Complete(recv_buf_')
    PROVE  DataInv'
<1>1. InOrder(Rtde!Drained, Current, seq)'
  BY DEF DataInv, InOrder, Data
<1>2. socket_' => Current' <= seq'
  BY DEF DataInv
<1>3. (rpc = "idle" /\ started => ~Rtde!Complete(recv_buf_))'
  BY DEF Rtde!Complete, Rtde!Malformed
<1> QED
  BY <1>1, <1>2, <1>3 DEF DataInv

(* The buffer is emptied, and a new connection begins if there is one.     *)
LEMMA EmptiedDataInv ==
    ASSUME DataInv, Rtde!Drained' = << >>, seq' = 0, latest' = 0, output_payload' \in Nat,
           socket_' => output_payload' = 0, Rtde!InHandshake' => output_payload' = 0, ~started'
    PROVE  DataInv'
<1>1. Current' = output_payload'
  BY DEF Current
<1>2. InOrder(<< >>, output_payload', 0)
  BY EmptyInOrder
<1>3. InOrder(Rtde!Drained, Current, seq)'
  BY <1>1, <1>2 DEF InOrder, Data
<1> QED
  BY <1>1, <1>3 DEF DataInv

(* Each part of a step keeps the packages.                                 *)
LEMMA HandshakeDataInv == ASSUME IInv, StreamInv, DataInv, Rtde!Handshake PROVE DataInv'
<1>1. StreamTypes
  BY DEF StreamInv
<1>2. Rtde!InHandshake /\ output_payload = 0 /\ latest = 0 /\ 0 \in Nat /\ ~started
  <2>1. Rtde!InHandshake
    BY DEF Rtde!Handshake, Rtde!HandshakeReceive, Rtde!HandshakeFails, Rtde!VersionAgreed,
           Rtde!OutputsSetUp, Rtde!InputsSetUp, Rtde!StreamStarted, Rtde!Accepted
  <2> QED
    BY <2>1 DEF DataInv, Rtde!InHandshake, IInv, Phases
<1>3. CASE Rtde!HandshakeReceive
  <2>1. UNCHANGED <<rpc, latest, output_payload, seq, socket_, started>>
    BY <1>3 DEF Rtde!HandshakeReceive, Rtde!session, Rtde!worker
  <2>2. Rtde!Drained' = Rtde!Drained
    BY <1>1, <1>3, ReceiveStep
  <2>3. Current' = Current
    BY <2>1 DEF Current
  <2> QED
    BY <1>2, <2>1, <2>2, <2>3, KeptDataInv
<1>4. CASE Rtde!HandshakeFails
  <2>1. /\ recv_buf_' = << >> /\ wire' = << >> /\ seq' = 0 /\ socket_' = FALSE /\ rpc' = "idle"
        /\ output_payload' = output_payload /\ latest' = latest /\ started' = started
    BY <1>4 DEF Rtde!HandshakeFails, Rtde!FreshRobot, Rtde!session
  <2>2. Rtde!Drained' = << >>
    BY <2>1, EmptyUnits DEF Rtde!Drained
  <2> QED
    BY <1>2, <2>1, <2>2, EmptiedDataInv
<1>5. ASSUME Rtde!Accepted, recv_buf_' = SubSeq(recv_buf_, 3, Len(recv_buf_)),
             UNCHANGED <<wire, half, output_payload, latest, seq, socket_>>,
             rpc' \in {"O", "I", "S", "poll"}
      PROVE  DataInv'
  <2>1. Len(Rtde!Drained) >= 2 /\ Rtde!Drained[1].frame.type # "X" /\ Len(recv_buf_) >= 2
    BY <1>5, AcceptedFacts
  <2>2. Rtde!Drained' = SubSeq(Rtde!Drained, 3, Len(Rtde!Drained))
    BY <1>1, <1>5, <2>1, TakenStep
  <2> QED
    BY <1>5, <2>2, ReplyDataInv
<1>6. CASE Rtde!VersionAgreed
  BY <1>5, <1>6 DEF Rtde!VersionAgreed, Rtde!Request, Rtde!Rest
<1>7. CASE Rtde!OutputsSetUp
  BY <1>5, <1>7 DEF Rtde!OutputsSetUp, Rtde!Request, Rtde!Rest
<1>8. CASE Rtde!InputsSetUp
  BY <1>5, <1>8 DEF Rtde!InputsSetUp, Rtde!Request, Rtde!Rest
<1>9. CASE Rtde!StreamStarted
  BY <1>5, <1>9 DEF Rtde!StreamStarted, Rtde!Rest, Rtde!robot
<1> QED
  BY <1>3, <1>4, <1>6, <1>7, <1>8, <1>9 DEF Rtde!Handshake

LEMMA PollDataInv == ASSUME IInv, FieldsInv, StreamInv, DataInv, Rtde!PollStep PROVE DataInv'
<1>1. StreamTypes /\ Current \in Nat /\ seq \in Nat /\ InOrder(Rtde!Drained, Current, seq)
  BY CurrentIsNat DEF StreamInv, StreamTypes, DataInv
<1>2. CASE Rtde!PollTakes
  <2> DEFINE u == Rtde!Drained
             f == Rtde!Drained[1].frame
  <2>1. /\ Len(u) >= 2 /\ ~Rtde!Malformed(u) /\ rpc = "poll" /\ rpc' = rpc
        /\ recv_buf_' = SubSeq(u, 3, Len(u)) /\ wire' = << >> /\ half' = half
        /\ latest' = IF f.type = "U" THEN f.seq ELSE latest
        /\ seq' = seq /\ output_payload' = output_payload /\ socket_' = socket_
    BY <1>2 DEF Rtde!PollTakes, Rtde!Complete, Rtde!Rest, Rtde!session
  <2>2. f.type # "X" /\ u \in Seq(Rtde!Units) /\ u[1].part = "head" /\ u[2].part = "body"
    <3>1. u \in Seq(Rtde!Units)
      BY <1>1, StreamParts
    <3>2. f.type # "X"
      BY <2>1, <3>1 DEF Rtde!Malformed
    <3> QED
      BY <2>1, <3>2, FrameTaken
  <2>3. Rtde!Drained' = SubSeq(u, 3, Len(u))
    BY <1>1, <2>1, <2>2, TakenStep
  <2> DEFINE cur == IF f.type = "U" THEN f.seq ELSE Current
  <2>4. /\ f.type = "U" => f.seq \in Current + 1 .. seq
        /\ InOrder(SubSeq(u, 3, Len(u)), cur, seq)
    BY <1>1, <2>1, <2>2, RestInOrder
  <2>5. latest' \in Nat /\ Current' = cur /\ (socket_ => cur <= seq)
    <3>1. latest \in Nat /\ (socket_ => Current <= seq)
      BY DEF DataInv
    <3>2. CASE f.type = "U"
      <4>1. latest' = f.seq /\ latest' \in Nat /\ latest' # 0 /\ latest' <= seq
        BY <1>1, <2>1, <2>4, <3>2
      <4> QED
        BY <3>2, <4>1 DEF Current
    <3>3. CASE f.type # "U"
      BY <2>1, <3>1, <3>3 DEF Current
    <3> QED
      BY <3>2, <3>3
  <2>6. InOrder(Rtde!Drained, Current, seq)'
    BY <2>1, <2>3, <2>4, <2>5 DEF InOrder, Data
  <2> HIDE DEF u, f, cur
  <2> QED
    BY <2>1, <2>5, <2>6 DEF DataInv, Rtde!InHandshake
<1>3. CASE Rtde!PollEnds
  <2>1. /\ rpc = "poll" /\ rpc' = "idle" /\ latest' = 0 /\ ~Rtde!Complete(Rtde!Drained)
        /\ recv_buf_' = Rtde!Drained /\ seq' = seq /\ socket_' = socket_
        /\ IF latest # 0 /\ Rtde!RightSize THEN output_payload' = latest
                                           ELSE output_payload' = output_payload
    BY <1>3 DEF Rtde!PollEnds
  <2>2. initialized
    BY <2>1 DEF IInv, Phases
  <2>3. Rtde!RightSize
    BY <2>2, PayloadFits DEF Rtde!RightSize
  <2>4. output_payload' = Current /\ Current' = Current /\ output_payload' \in Nat /\ 0 \in Nat
    BY <1>1, <2>1, <2>3 DEF Current
  <2>5. Rtde!Drained' = Rtde!Drained
    BY <1>1, <1>3, PollEndsStep
  <2>6. ~Rtde!Complete(recv_buf_')
    BY <2>1
  <2> QED
    BY <2>1, <2>4, <2>5, <2>6, KeptDataInv DEF Rtde!InHandshake
<1>4. CASE Rtde!PollFails
  <2>1. /\ recv_buf_' = << >> /\ wire' = << >> /\ seq' = 0 /\ socket_' = FALSE /\ rpc' = "idle"
        /\ output_payload' = output_payload /\ latest' = 0 /\ started' = FALSE
    BY <1>4 DEF Rtde!PollFails, Rtde!FreshRobot
  <2>2. Rtde!Drained' = << >> /\ output_payload \in Nat
    BY <2>1, EmptyUnits DEF Rtde!Drained, DataInv
  <2> QED
    BY <2>1, <2>2, EmptiedDataInv DEF Rtde!InHandshake
<1> QED
  BY <1>2, <1>3, <1>4 DEF Rtde!PollStep

LEMMA WorkerDataInv == ASSUME IInv, StreamInv, DataInv, Rtde!Worker PROVE DataInv'
<1>1. CASE Rtde!SessionBegin
  <2>1. /\ recv_buf_' = << >> /\ started' = FALSE /\ output_payload' = 0 /\ rpc = "idle"
        /\ latest' = latest /\ (Rtde!FreshRobot("V") \/ Rtde!FreshRobot(""))
    BY <1>1, Zenon DEF Rtde!SessionBegin, Rtde!Fresh
  <2>2. wire' = << >> /\ seq' = 0 /\ latest' = 0 /\ latest' = latest
    BY <1>1, <2>1 DEF Rtde!FreshRobot, DataInv, Rtde!SessionBegin
  <2>3. Rtde!Drained' = << >> /\ 0 \in Nat
    BY <2>1, <2>2, EmptyUnits DEF Rtde!Drained
  <2> QED
    BY <2>1, <2>2, <2>3, EmptiedDataInv
<1>2. CASE Rtde!PollBegin
  <2>1. /\ rpc = "idle" /\ rpc' = "poll" /\ Rtde!Drained' = Rtde!Drained /\ Current' = Current
        /\ UNCHANGED <<output_payload, latest, seq, socket_>>
    BY <1>2 DEF Rtde!PollBegin, Rtde!client, Rtde!session, Rtde!robot, Rtde!Drained, Current
  <2> QED
    BY <2>1, KeptDataInv DEF DataInv, Rtde!InHandshake
<1>3. CASE Rtde!Cleanup
  <2>1. /\ recv_buf_' = << >> /\ wire' = << >> /\ seq' = 0 /\ output_payload' = 0
        /\ started' = FALSE /\ rpc = "idle" /\ rpc' = rpc /\ latest' = latest
    BY <1>3, Zenon DEF Rtde!Cleanup, Rtde!Fresh, Rtde!FreshRobot, Rtde!worker
  <2>2. latest' = 0
    BY <2>1 DEF DataInv
  <2>3. Rtde!Drained' = << >> /\ 0 \in Nat
    BY <2>1, EmptyUnits DEF Rtde!Drained
  <2> QED
    BY <2>1, <2>2, <2>3, EmptiedDataInv
<1>4. ASSUME NEW t \in TagNames, NEW v \in Values, Rtde!WriteTag(t, v) PROVE DataInv'
  <2>1. UNCHANGED <<recv_buf_, wire, rpc, started, output_payload, latest, seq, socket_>>
    BY <1>4 DEF Rtde!WriteTag, Rtde!client, Rtde!worker
  <2>2. Rtde!Drained' = Rtde!Drained /\ Current' = Current
    BY <2>1 DEF Rtde!Drained, Current
  <2> QED
    BY <2>1, <2>2, KeptDataInv DEF DataInv, Rtde!InHandshake
<1> QED
  BY <1>1, <1>2, <1>3, <1>4 DEF Rtde!Worker

LEMMA RobotDataInv == ASSUME StreamInv, DataInv, Rtde!Robot PROVE DataInv'
<1>1. /\ StreamTypes /\ Rtde!Drained \in Seq(Rtde!Units) /\ seq \in Nat /\ Current \in Nat
      /\ InOrder(Rtde!Drained, Current, seq)
  BY StreamParts, CurrentIsNat DEF StreamInv, StreamTypes, DataInv
<1>2. UNCHANGED <<recv_buf_, rpc, started, output_payload, latest, socket_>> /\ Current' = Current
  BY RobotChangesOwn DEF Rtde!client, Rtde!session, Rtde!worker, Current
<1>3. ASSUME InOrder(Rtde!Drained', Current, seq'), socket_ => Current <= seq' PROVE DataInv'
  <2>1. InOrder(Rtde!Drained, Current, seq)'
    BY <1>2, <1>3 DEF InOrder, Data
  <2>2. (rpc = "idle" /\ started => ~Rtde!Complete(recv_buf_))'
    BY <1>2 DEF DataInv, Rtde!Complete, Rtde!Malformed
  <2> QED
    BY <1>2, <1>3, <2>1, <2>2 DEF DataInv, Rtde!InHandshake
<1>4. ASSUME NEW s \in Seq(Rtde!Units), Rtde!Drained' = Rtde!Drained \o s, seq' = seq,
             \A k \in 1 .. Len(s) : s[k].part = "body" \/ s[k].frame.type # "U"
      PROVE  DataInv'
  BY <1>1, <1>3, <1>4, OtherInOrder DEF DataInv
<1>5. ASSUME NEW f \in Rtde!Frames, Rtde!Transmit(f), f.type # "U", seq' = seq PROVE DataInv'
  <2> DEFINE h == Rtde!Unit(f, "head")
             s == <<h>>
  <2>1. h \in Rtde!Units /\ h.frame.type # "U"
    BY <1>5, UnitFacts
  <2>2. Rtde!Drained' = Append(Rtde!Drained, h)
    BY <1>1, <1>2, <1>5, TransmitStep
  <2> HIDE DEF h
  <2>3. s \in Seq(Rtde!Units) /\ Len(s) = 1 /\ s[1] = h
    BY <2>1
  <2>4. Append(Rtde!Drained, h) = Rtde!Drained \o s
    BY <1>1, <2>1, AppendIsConcat
  <2> HIDE DEF s
  <2> QED
    BY <1>4, <1>5, <2>1, <2>2, <2>3, <2>4
<1>6. CASE Rtde!RobotAnswers
  <2>1. PICK ok \in BOOLEAN : Rtde!Transmit(Rtde!Frame(asked, ok, 0))
    BY <1>6 DEF Rtde!RobotAnswers
  <2>2. asked \in Rtde!FrameTypes /\ asked # "U" /\ seq' = seq /\ 0 \in Nat
    BY <1>1, <1>6 DEF Rtde!RobotAnswers, StreamTypes, Rtde!FrameTypes
  <2> QED
    BY <1>5, <2>1, <2>2, FrameFacts
<1>7. CASE Rtde!RobotText
  <2>1. Rtde!Transmit(Rtde!Frame("M", TRUE, 0)) /\ seq' = seq /\ "M" \in Rtde!FrameTypes /\ 0 \in Nat
    BY <1>7 DEF Rtde!RobotText, Rtde!FrameTypes
  <2> QED
    BY <1>5, <2>1, FrameFacts
<1>8. CASE Rtde!RobotData
  <2> DEFINE f == Rtde!Frame("U", TRUE, seq + 1)
             h == Rtde!Unit(f, "head")
  <2>1. Rtde!Transmit(f) /\ seq' = seq + 1 /\ socket_
    BY <1>8 DEF Rtde!RobotData, Rtde!Connected
  <2>2. f \in Rtde!Frames /\ f.type = "U" /\ f.seq = seq + 1
    <3>1. "U" \in Rtde!FrameTypes /\ TRUE \in BOOLEAN /\ seq + 1 \in Nat
      BY <1>1 DEF Rtde!FrameTypes
    <3> QED
      BY <3>1, FrameFacts
  <2> HIDE DEF f
  <2>3. /\ h \in Rtde!Units /\ h.part = "head" /\ h.frame.type = "U" /\ h.frame.seq = seq + 1
        /\ Rtde!Drained' = Append(Rtde!Drained, h)
    BY <1>1, <1>2, <2>1, <2>2, UnitFacts, TransmitStep
  <2>4. Current <= seq
    BY <2>1 DEF DataInv
  <2> HIDE DEF h
  <2>5. InOrder(Rtde!Drained', Current, seq + 1) /\ Current <= seq + 1
    BY <1>1, <2>3, <2>4, NextInOrder
  <2> QED
    BY <1>3, <2>1, <2>5
<1>9. CASE Rtde!RobotBody
  <2>1. wire' = wire \o half /\ seq' = seq
    BY <1>9 DEF Rtde!RobotBody
  <2>2. recv_buf_ \in Seq(Rtde!Units) /\ wire \in Seq(Rtde!Units) /\ half \in Seq(Rtde!Units)
        /\ \A k \in 1 .. Len(half) : half[k].part = "body"
    BY <1>1 DEF StreamTypes
  <2>3. Rtde!Drained' = Rtde!Drained \o half
    <3> DEFINE r == recv_buf_
               w == wire
               h == half
    <3>1. Rtde!Drained' = r \o (w \o h) /\ Rtde!Drained = r \o w
      BY <1>2, <2>1 DEF Rtde!Drained
    <3>2. r \in Seq(Rtde!Units) /\ w \in Seq(Rtde!Units) /\ h \in Seq(Rtde!Units)
      BY <2>2
    <3> HIDE DEF r, w, h
    <3>3. r \o (w \o h) = (r \o w) \o h
      BY <3>2, ConcatAssociative
    <3>4. h = half
      BY DEF h
    <3> QED
      BY <3>1, <3>3, <3>4
  <2> QED
    BY <1>4, <2>1, <2>2, <2>3
<1>10. CASE Rtde!RobotBadFrame
  <2> DEFINE s == <<BadHeader>>
  <2>1. Rtde!Drained' = Append(Rtde!Drained, BadHeader) /\ seq' = seq
    BY <1>1, <1>10, BadFrameStep DEF Rtde!RobotBadFrame
  <2>2. Rtde!Frame("X", TRUE, 0) \in Rtde!Frames /\ Rtde!Frame("X", TRUE, 0).type = "X"
    BY FrameFacts DEF Rtde!FrameTypes
  <2>3. BadHeader \in Rtde!Units /\ BadHeader.frame.type # "U"
    BY <2>2, UnitFacts DEF BadHeader
  <2>4. s \in Seq(Rtde!Units) /\ Len(s) = 1 /\ s[1] = BadHeader
    BY <2>3
  <2>5. Append(Rtde!Drained, BadHeader) = Rtde!Drained \o s
    BY <1>1, <2>3, AppendIsConcat
  <2> HIDE DEF s
  <2> QED
    BY <1>4, <2>1, <2>3, <2>4, <2>5
<1>11. CASE Rtde!RobotCloses
  <2>1. Rtde!Drained' = Rtde!Drained /\ seq' = seq
    BY <1>2, <1>11 DEF Rtde!RobotCloses, Rtde!Drained
  <2> QED
    BY <1>1, <1>3, <2>1 DEF DataInv
<1> QED
  BY <1>6, <1>7, <1>8, <1>9, <1>10, <1>11 DEF Rtde!Robot

LEMMA InitDataInv == Rtde!Init => DataInv
<1> SUFFICES ASSUME Rtde!Init PROVE DataInv
  OBVIOUS
<1>1. /\ recv_buf_ = << >> /\ wire = << >> /\ latest = 0 /\ output_payload = 0 /\ seq = 0
      /\ started = FALSE /\ socket_ = FALSE /\ rpc = "idle" /\ 0 \in Nat
  BY DEF Rtde!Init
<1>2. Rtde!Drained = << >>
  BY <1>1, EmptyUnits DEF Rtde!Drained
<1>3. Current = 0
  BY <1>1 DEF Current
<1>4. InOrder(Rtde!Drained, Current, seq)
  BY <1>1, <1>2, <1>3, EmptyInOrder
<1> QED
  BY <1>1, <1>4 DEF DataInv, Rtde!InHandshake

LEMMA NextDataInv ==
    IInv /\ FieldsInv /\ StreamInv /\ DataInv /\ [Rtde!Next]_(Rtde!vars) => DataInv'
<1> SUFFICES ASSUME IInv, FieldsInv, StreamInv, DataInv, [Rtde!Next]_(Rtde!vars) PROVE DataInv'
  OBVIOUS
<1>1. CASE UNCHANGED Rtde!vars
  <2>1. UNCHANGED <<recv_buf_, wire, rpc, started, output_payload, latest, seq, socket_>>
    BY <1>1 DEF Rtde!vars, Rtde!client, Rtde!session, Rtde!worker, Rtde!robot
  <2>2. Rtde!Drained' = Rtde!Drained /\ Current' = Current
    BY <2>1 DEF Rtde!Drained, Current
  <2> QED
    BY <2>1, <2>2, KeptDataInv DEF DataInv, Rtde!InHandshake
<1> QED
  BY <1>1, HandshakeDataInv, PollDataInv, WorkerDataInv, RobotDataInv DEF Rtde!Next

(* No package is lost or repeated, for any number of packages however they *)
(* are cut or joined.                                                      *)
THEOREM RtdeDataInv == Spec => []DataInv
<1>1. Init => DataInv
  BY InitDataInv DEF Init
<1> QED
  BY <1>1, NextDataInv, RtdeStep, RtdeInductive, RtdeFieldsInv, RtdeStreamInv, PTL DEF Spec

(* After a poll the latest package that had arrived whole is the one that  *)
(* is read, for any number of packages however they are cut or joined.     *)
THEOREM RtdeFreshAfterPoll == Spec => []Rtde!FreshAfterPoll
<1>1. IInv /\ StreamInv /\ DataInv => Rtde!FreshAfterPoll
  <2> SUFFICES ASSUME IInv, StreamInv, DataInv, rpc = "idle", started
               PROVE  ~Rtde!Complete(recv_buf_) /\ output_payload + Rtde!Waiting = seq
    BY DEF Rtde!FreshAfterPoll
  <2>1. /\ Rtde!Drained \in Seq(Rtde!Units) /\ seq \in Nat /\ output_payload \in Nat
        /\ output_payload <= seq /\ InOrder(Rtde!Drained, output_payload, seq)
    BY StreamParts DEF StreamInv, StreamTypes, DataInv, Current, IInv, Phases
  <2>2. Cardinality(Data(Rtde!Drained)) = seq - output_payload
    BY <2>1, CountInOrder
  <2>3. Rtde!Waiting = Cardinality(Data(Rtde!Drained))
    <3> DEFINE S == Data(Rtde!Drained)
    <3>1. S = {k \in DOMAIN Rtde!Drained : Rtde!Drained[k].part = "head"
                                             /\ Rtde!Drained[k].frame.type = "U"}
      BY <2>1 DEF Data
    <3>2. Rtde!Cardinality(S) = Cardinality(S)
      BY DEF Rtde!Cardinality, Cardinality
    <3>3. Rtde!Waiting = Rtde!Cardinality(S)
      BY <3>1 DEF Rtde!Waiting, Rtde!Drained
    <3> QED
      BY <3>2, <3>3
  <2> QED
    BY <2>1, <2>2, <2>3 DEF DataInv
<1> QED
  BY <1>1, RtdeInductive, RtdeStreamInv, RtdeDataInv, PTL
---------------------------------------------------------------------------
(***************************************************************************)
(* Inputs.  The payload that is sent has, at each input tag that shares no *)
(* bits with another, the value that was written to it last: all zeros     *)
(* when the recipe is set up, and a write stores its own value and leaves  *)
(* those of the other tags alone, for tags lie apart (ValuesApart).  What  *)
(* was delivered is what the controller has.                               *)
(***************************************************************************)
(* The operators of RtdeSession are those of RtdeFields.                   *)
LEMMA InputOperators ==
    /\ \A t, v : Rtde!Stored(t, v) = StoredAt(input_payload, offset[t], t, v)
    /\ \A byte, bit : Rtde!BitOf(byte, bit) = BitOf(byte, bit)
<1>1. \A byte, bit : Rtde!BitOf(byte, bit) = BitOf(byte, bit)
  BY DEF Rtde!BitOf, BitOf
<1>2. \A payload, from, width, bit, v :
         Rtde!StoreBit(payload, from, width, bit, v) = StoreBit(payload, from, width, bit, v)
  <2> SUFFICES ASSUME NEW payload, NEW from, NEW width, NEW bit, NEW v
               PROVE  Rtde!StoreBit(payload, from, width, bit, v)
                         = StoreBit(payload, from, width, bit, v)
    OBVIOUS
  <2>1. Rtde!BitByte(from, width, bit) = BitByte(from, width, bit)
    BY DEF Rtde!BitByte, BitByte
  <2>2. Rtde!BitOf(payload[BitByte(from, width, bit)], bit) = BitOf(payload[BitByte(from, width, bit)], bit)
    BY <1>1
  <2> QED
    BY <2>1, <2>2 DEF Rtde!StoreBit, StoreBit
<1>3. \A payload, from, width, v :
         Rtde!StoreNumber(payload, from, width, v) = StoreNumber(payload, from, width, v)
  BY DEF Rtde!StoreNumber, StoreNumber
<1>4. \A t, v : Rtde!Stored(t, v) = StoredAt(input_payload, offset[t], t, v)
  <2> SUFFICES ASSUME NEW t, NEW v
               PROVE  Rtde!Stored(t, v) = StoredAt(input_payload, offset[t], t, v)
    OBVIOUS
  <2>1. Rtde!IsBit(t) = IsBit(t) /\ Rtde!Width(t) = Width(t)
    BY TagOperators
  <2> QED
    BY <1>2, <1>3, <2>1 DEF Rtde!Stored, StoredAt
<1> QED
  BY <1>1, <1>4

(* A tag of a session has a type and an index.                             *)
LEMMA TagKnown ==
    ASSUME IInv, FieldsInv, rpc = "S" \/ initialized, NEW t \in entries
    PROVE  /\ t \in TagNames /\ t \in [base : Bases, index : Int, brackets : BOOLEAN]
           /\ Types[t.base] \in FieldTypes /\ IndexInRange(t)
<1>1. t \in TagNames /\ t \in [base : Bases, index : Int, brackets : BOOLEAN]
  BY RtdeAssumption DEF RtdeAssumption, IInv, Phases
<1>2. IndexInRange(t)
  BY TagOperators DEF FieldsInv, Rtde!TagsResolve
<1> DEFINE names == Rtde!Names(Rtde!IsInput(t))
<1>3. Rtde!IsInput(t) \in BOOLEAN
  BY DEF Rtde!IsInput
<1>4. TypesKnown(names)
  BY <1>3 DEF FieldsInv, Known
<1>5. names \in Seq(Bases) /\ \E m \in 1 .. Len(names) : names[m] = t.base
  BY <1>1, NamesFacts
<1> HIDE DEF names
<1>6. Types[t.base] \in FieldTypes
  BY <1>4, <1>5 DEF TypesKnown
<1> QED
  BY <1>1, <1>2, <1>6

(* A byte that is zero has no bit.                                         *)
LEMMA ZeroBits == ASSUME NEW b \in Nat PROVE BitOf(0, b) = 0
<1> DEFINE w == 2 ^ (b % 8)
<1>1. w \in Weights
  BY WeightOfBit
<1> HIDE DEF w
<1>2. (0 \div w) % 2 = 0
  BY <1>1 DEF Weights
<1> QED
  BY <1>2 DEF BitOf, w

(* The parts of a cell of the payload.                                     *)
LEMMA SameCell ==
    ASSUME NEW base, NEW e, NEW k, NEW other, NEW m, NEW n,
           CellOf(base, e, k) = CellOf(other, m, n)
    PROVE  base = other /\ e = m /\ k = n
  BY DEF CellOf

(* A bit number is its byte and its bit in there.                          *)
LEMMA SameNumber ==
    ASSUME NEW m \in Nat, NEW n \in Nat, m \div 8 = n \div 8, m % 8 = n % 8 PROVE m = n
  OBVIOUS

(* The byte of the payload with the value of a tag.                        *)
PlaceOf(t) == offset[t] + ValueByte(t)

(* The bytes of an input tag are inside the inputs, where the controller   *)
(* has that element; its value is one of them.                             *)
LEMMA ValuePlaced ==
    ASSUME IInv, FieldsInv, rpc = "S" \/ initialized, NEW t \in entries, Rtde!IsInput(t)
    PROVE  /\ offset[t] \in Nat /\ Width(t) \in Nat /\ ValueByte(t) \in 1 .. Width(t)
           /\ Width(t) = field_scalar_size(Types[t.base])
           /\ \A k \in 1 .. Width(t) :
                 /\ offset[t] + k \in 1 .. Rtde!PayloadSize(Rtde!Names(TRUE))
                 /\ Rtde!RobotCells(Rtde!Names(TRUE))[offset[t] + k]
                       = CellOf(t.base, Rtde!Element(t), k)
<1>1. Rtde!RecipeOf(t) = Rtde!Names(TRUE)
  <2>1. Rtde!IsInput(t) = TRUE
    BY DEF Rtde!IsInput
  <2> QED
    BY <2>1 DEF Rtde!RecipeOf
<1>2. Width(t) \in Nat /\ ValueByte(t) \in 1 .. Width(t)
  BY TagKnown, ValueByteFacts
<1>3. /\ offset[t] \in Nat
      /\ Width(t) = field_scalar_size(Types[t.base])
      /\ \A k \in 1 .. Width(t) :
            /\ offset[t] + k \in 1 .. Rtde!PayloadSize(Rtde!Names(TRUE))
            /\ Rtde!RobotCells(Rtde!Names(TRUE))[offset[t] + k]
                  = CellOf(t.base, Rtde!Element(t), k)
  BY <1>1, TagFound, TagOperators
<1> QED
  BY <1>2, <1>3

(* No two bytes of the inputs are the same.                                *)
LEMMA InputCellsApart ==
    ASSUME FieldsInv, initialized,
           NEW p \in 1 .. Rtde!PayloadSize(Rtde!Names(TRUE)),
           NEW q \in 1 .. Rtde!PayloadSize(Rtde!Names(TRUE)),
           Rtde!RobotCells(Rtde!Names(TRUE))[p] = Rtde!RobotCells(Rtde!Names(TRUE))[q]
    PROVE  p = q
<1> DEFINE names == Rtde!Names(TRUE)
<1>1. /\ names \in Seq(Bases) /\ TypesKnown(names)
      /\ \A m, n \in 1 .. Len(names) : names[m] = names[n] => m = n
  BY NamesFacts DEF FieldsInv, Known
<1>2. /\ p \in 1 .. PayloadSize(names) /\ q \in 1 .. PayloadSize(names)
      /\ RobotCells(names)[p] = RobotCells(names)[q]
  BY LayoutOperators
<1> HIDE DEF names
<1> QED
  BY <1>1, <1>2, CellsApart

(* The controller finds the value of a tag in that byte.                   *)
LEMMA RobotReads ==
    ASSUME IInv, FieldsInv, initialized, NEW t \in entries, Rtde!IsInput(t)
    PROVE  Rtde!RobotValue(t) = ValueAt(robot_in, offset[t], t)
<1> DEFINE cells == Rtde!RobotCells(Rtde!Names(TRUE))
<1>1. Rtde!RecipeOf(t) = Rtde!Names(TRUE)
  <2>1. Rtde!IsInput(t) = TRUE
    BY DEF Rtde!IsInput
  <2> QED
    BY <2>1 DEF Rtde!RecipeOf
<1>2. DOMAIN cells = 1 .. Rtde!PayloadSize(Rtde!Names(TRUE))
  BY PayloadFits
<1>3. ASSUME NEW k \in 1 .. Width(t) PROVE Rtde!RobotByte(t, k) = robot_in[offset[t] + k]
  <2> DEFINE p == offset[t] + k
             cell == CellOf(t.base, Rtde!Element(t), k)
  <2>1. p \in DOMAIN cells /\ cells[p] = cell
    BY <1>2, ValuePlaced
  <2>2. \A q \in DOMAIN cells : cells[q] = cell => q = p
    BY <1>2, <2>1, InputCellsApart
  <2>3. Rtde!RobotByte(t, k) = robot_in[CHOOSE q \in DOMAIN cells : cells[q] = cell]
    BY <1>1 DEF Rtde!RobotByte, CellOf
  <2> HIDE DEF cells, p, cell
  <2>4. (CHOOSE q \in DOMAIN cells : cells[q] = cell) = p
    BY <2>1, <2>2
  <2> QED
    BY <2>3, <2>4 DEF p
<1>4. Rtde!RobotByte(t, ValueByte(t)) = robot_in[offset[t] + ValueByte(t)]
  BY <1>3, ValuePlaced
<1>5. CASE IsBit(t)
  BY <1>4, <1>5, InputOperators, TagOperators DEF Rtde!RobotValue, ValueAt, ValueByte
<1>6. CASE ~IsBit(t)
  BY <1>4, <1>6, TagOperators DEF Rtde!RobotValue, ValueAt, ValueByte
<1> QED
  BY <1>5, <1>6

(* A write to one tag does not reach the value of another, unless the two  *)
(* share bits.                                                             *)
LEMMA ValuesApart ==
    ASSUME IInv, FieldsInv, initialized,
           NEW u \in entries, Rtde!IsInput(u),
           NEW t \in entries \ {u}, Rtde!IsInput(t), Rtde!Alone(t)
    PROVE  \/ PlaceOf(t) \notin offset[u] + 1 .. offset[u] + Width(u)
           \/ /\ IsBit(u) /\ IsBit(t)
              /\ PlaceOf(t) # PlaceOf(u) \/ t.index % 8 # u.index % 8
<1> SUFFICES ASSUME PlaceOf(t) \in offset[u] + 1 .. offset[u] + Width(u)
             PROVE  /\ IsBit(u) /\ IsBit(t)
                    /\ PlaceOf(t) = PlaceOf(u) => t.index % 8 # u.index % 8
  BY Zenon
<1> DEFINE cells == Rtde!RobotCells(Rtde!Names(TRUE))
<1>1. /\ offset[t] \in Nat /\ ValueByte(t) \in 1 .. Width(t) /\ Width(t) \in Nat
      /\ offset[u] \in Nat /\ ValueByte(u) \in 1 .. Width(u) /\ Width(u) \in Nat
  BY ValuePlaced
<1>2. PICK k \in 1 .. Width(u) : PlaceOf(t) = offset[u] + k
  <2>1. PlaceOf(t) - offset[u] \in 1 .. Width(u) /\ PlaceOf(t) = offset[u] + (PlaceOf(t) - offset[u])
    BY <1>1 DEF PlaceOf
  <2> QED
    BY <2>1
<1>3. cells[PlaceOf(t)] = CellOf(t.base, Rtde!Element(t), ValueByte(t))
  BY <1>1, ValuePlaced DEF PlaceOf
<1>4. cells[PlaceOf(t)] = CellOf(u.base, Rtde!Element(u), k)
  BY <1>2, ValuePlaced
<1>5. t.base = u.base /\ Rtde!Element(t) = Rtde!Element(u) /\ ValueByte(t) = k
  <2> DEFINE base == t.base
             other == u.base
             e == Rtde!Element(t)
             m == Rtde!Element(u)
             n == ValueByte(t)
  <2>1. CellOf(base, e, n) = CellOf(other, m, k)
    BY <1>3, <1>4
  <2> HIDE DEF base, other, e, m, n
  <2>2. base = other /\ e = m /\ n = k
    BY <2>1, SameCell
  <2> QED
    BY <2>2 DEF base, other, e, m, n
<1>6. IsBit(u) /\ IsBit(t) /\ u.index # t.index
  BY <1>5, TagOperators DEF Rtde!Alone
<1>7. t.index \in Nat /\ u.index \in Nat
  BY <1>6, TagKnown, ValueByteFacts
<1>8. Width(t) = Width(u)
  BY <1>5, ValuePlaced
<1>9. ASSUME PlaceOf(t) = PlaceOf(u) PROVE t.index % 8 # u.index % 8
  <2>1. ValueByte(u) = k
    BY <1>1, <1>2, <1>9 DEF PlaceOf
  <2>2. t.index \div 8 = u.index \div 8
    BY <1>1, <1>5, <1>6, <1>7, <1>8, <2>1 DEF ValueByte
  <2> QED
    BY <1>6, <1>7, <2>2, SameNumber
<1> QED
  BY <1>6, <1>9

InputsInv ==
    /\ input_payload \in Seq(0 .. 255) /\ robot_in \in Seq(0 .. 255)
    /\ written \in [TagNames -> 0 .. 255]
    /\ rpc \in {"V", "O", "I"} => ~input_recipe_setup
    /\ input_recipe_setup => Len(input_payload) = Rtde!PayloadSize(Rtde!Names(TRUE))
    /\ Rtde!InHandshake => /\ ~delivered
                           /\ \A k \in DOMAIN input_payload : input_payload[k] = 0
                           /\ \A t \in TagNames : written[t] = 0
    /\ started /\ delivered => input_recipe_setup /\ robot_in = input_payload
    /\ initialized /\ input_recipe_setup =>
          \A t \in entries : Rtde!IsInput(t) /\ Rtde!Alone(t) =>
              ValueAt(input_payload, offset[t], t) = written[t]

(* What depends on the tags and their offsets alone.                       *)
LEMMA SameEntries ==
    ASSUME entries' = entries
    PROVE  /\ Rtde!PayloadSize(Rtde!Names(TRUE))' = Rtde!PayloadSize(Rtde!Names(TRUE))
           /\ \A t : Rtde!Alone(t)' = Rtde!Alone(t)
  BY DEF Rtde!Names, Rtde!Alone

(* A payload is a function of its bytes' numbers.                          *)
LEMMA SeqIsFunction ==
    ASSUME NEW S, NEW s \in Seq(S) PROVE Len(s) \in Nat /\ s \in [1 .. Len(s) -> S]
  OBVIOUS
LEMMA FunctionIsSeq ==
    ASSUME NEW S, NEW n \in Nat, NEW s \in [1 .. n -> S] PROVE s \in Seq(S) /\ Len(s) = n
  OBVIOUS

(* A write.                                                                *)
LEMMA WriteInputsInv ==
    ASSUME IInv, FieldsInv, InputsInv, NEW u \in TagNames, NEW w \in Values, Rtde!WriteTag(u, w)
    PROVE  InputsInv'
<1> DEFINE v == Rtde!Truth(u, w)
           n == Len(input_payload)
           q == StoredAt(input_payload, offset[u], u, v)
<1>1. /\ rpc = "idle" /\ rpc' = rpc /\ started' = started
      /\ input_recipe_setup /\ initialized /\ u \in entries /\ Rtde!IsInput(u)
      /\ offset[u] + Width(u) <= n
      /\ entries' = entries /\ offset' = offset /\ initialized' = initialized
      /\ input_recipe_setup' = input_recipe_setup
  BY TagOperators DEF Rtde!WriteTag, Rtde!group, Rtde!worker
<1>2. input_payload' = q /\ written' = [written EXCEPT ![u] = v]
  BY InputOperators DEF Rtde!WriteTag
<1>3. \/ robot_in' = input_payload'
      \/ robot_in' = robot_in /\ delivered' = FALSE
  BY DEF Rtde!WriteTag, Rtde!Sent, Rtde!NotSent, Rtde!PartlySent
<1>4. v \in 0 .. 255 /\ (IsBit(u) => v \in {0, 1})
  BY TagOperators, RtdeAssumption DEF RtdeAssumption, Rtde!Truth
<1>5. /\ n \in Nat /\ n = Rtde!PayloadSize(Rtde!Names(TRUE))
      /\ input_payload \in [1 .. n -> 0 .. 255]
  <2>1. input_payload \in Seq(0 .. 255) /\ n = Rtde!PayloadSize(Rtde!Names(TRUE))
    BY <1>1 DEF InputsInv
  <2> QED
    BY <2>1, SeqIsFunction
<1>6. offset[u] \in Nat
  BY <1>1, ValuePlaced
<1> HIDE DEF v, n
<1>7. /\ q \in [1 .. n -> 0 .. 255]
      /\ ValueAt(q, offset[u], u) = v
      /\ \A k \in 1 .. n : k \notin offset[u] + 1 .. offset[u] + Width(u) => q[k] = input_payload[k]
      /\ IsBit(u) => \A k \in 1 .. n, c \in Nat :
            k # PlaceOf(u) \/ c % 8 # u.index % 8 => BitOf(q[k], c) = BitOf(input_payload[k], c)
  <2>1. /\ u \in [base : Bases, index : Int, brackets : BOOLEAN]
        /\ Types[u.base] \in FieldTypes /\ IndexInRange(u)
    BY <1>1, TagKnown
  <2> DEFINE from == offset[u]
  <2>2. from \in Nat /\ from + Width(u) <= n
    BY <1>1, <1>6
  <2> DEFINE r == StoredAt(input_payload, from, u, v)
  <2>3. r = q
    OBVIOUS
  <2> HIDE DEF from, q
  <2>4. /\ r \in [1 .. n -> 0 .. 255]
        /\ ValueAt(r, from, u) = v
        /\ \A k \in 1 .. n : k \notin from + 1 .. from + Width(u) => r[k] = input_payload[k]
        /\ IsBit(u) => \A k \in 1 .. n, c \in Nat :
              k # from + ValueByte(u) \/ c % 8 # u.index % 8 =>
                  BitOf(r[k], c) = BitOf(input_payload[k], c)
    <3>1. CanStore(n, input_payload, from, u, v)
      BY <1>4, <1>5, <2>1, <2>2 DEF CanStore
    <3> QED
      BY <3>1, StoredFacts
  <2> HIDE DEF r
  <2> QED
    BY <2>3, <2>4 DEF from, PlaceOf
<1> HIDE DEF q
<1>8. q \in Seq(0 .. 255) /\ Len(q) = n
  <2>1. n \in Nat /\ q \in [1 .. n -> 0 .. 255]
    BY <1>5, <1>7
  <2> QED
    BY <2>1, FunctionIsSeq
<1>9. ASSUME NEW t \in entries, Rtde!IsInput(t), Rtde!Alone(t), t # u
      PROVE  ValueAt(q, offset[t], t) = ValueAt(input_payload, offset[t], t)
  <2>1. PlaceOf(t) \in 1 .. n
    BY <1>1, <1>5, <1>9, ValuePlaced DEF PlaceOf
  <2>2. CASE PlaceOf(t) \notin offset[u] + 1 .. offset[u] + Width(u)
    BY <1>7, <2>1, <2>2 DEF ValueAt, PlaceOf
  <2>3. CASE /\ IsBit(u) /\ IsBit(t)
             /\ PlaceOf(t) # PlaceOf(u) \/ t.index % 8 # u.index % 8
    <3>1. t.index \in Nat
      BY <1>1, <1>9, <2>3, TagKnown, ValueByteFacts
    <3>2. BitOf(q[PlaceOf(t)], t.index) = BitOf(input_payload[PlaceOf(t)], t.index)
      BY <1>7, <2>1, <2>3, <3>1
    <3> QED
      BY <2>3, <3>2 DEF ValueAt, PlaceOf
  <2> QED
    BY <1>1, <1>9, <2>2, <2>3, ValuesApart
<1>10. written' \in [TagNames -> 0 .. 255] /\ written'[u] = v
       /\ \A t \in TagNames \ {u} : written'[t] = written[t]
  BY <1>2, <1>4 DEF InputsInv
<1>11. ASSUME NEW t \in entries, Rtde!IsInput(t), Rtde!Alone(t)
       PROVE  ValueAt(input_payload', offset'[t], t) = written'[t]
  <2>1. CASE t = u
    BY <1>1, <1>2, <1>7, <1>10, <2>1
  <2>2. CASE t # u
    <3>1. ValueAt(input_payload, offset[t], t) = written[t] /\ t \in TagNames
      BY <1>1, <1>11, TagKnown DEF InputsInv
    <3> QED
      BY <1>1, <1>2, <1>9, <1>10, <1>11, <2>2, <3>1
  <2> QED
    BY <2>1, <2>2
<1>12. input_payload' \in Seq(0 .. 255) /\ robot_in' \in Seq(0 .. 255)
  BY <1>2, <1>3, <1>8 DEF InputsInv
<1>13. Len(input_payload') = Rtde!PayloadSize(Rtde!Names(TRUE))'
  BY <1>1, <1>2, <1>5, <1>8, SameEntries
<1> QED
  BY <1>1, <1>3, <1>10, <1>11, <1>12, <1>13, SameEntries DEF InputsInv, Rtde!InHandshake

(* A step that leaves the inputs alone, or ends the session.               *)
LEMMA KeptInputsInv ==
    ASSUME InputsInv, entries' = entries, offset' = offset, input_payload' = input_payload,
           input_recipe_setup' = input_recipe_setup, written' = written,
           delivered' = delivered, robot_in' = robot_in \/ (~started' /\ robot_in' = << >>),
           initialized' = initialized, started' => started,
           \/ rpc' = rpc
           \/ rpc = "V" /\ rpc' = "O"
           \/ rpc = "O" /\ rpc' \in {"I", "S"}
           \/ rpc' \in {"idle", "poll"}
    PROVE  InputsInv'
<1>1. << >> \in Seq(0 .. 255)
  OBVIOUS
<1>2. \A t : Rtde!Alone(t)' = Rtde!Alone(t)
  BY SameEntries
<1>3. initialized' /\ input_recipe_setup' =>
         \A t \in entries' : Rtde!IsInput(t) /\ Rtde!Alone(t)' =>
             ValueAt(input_payload', offset'[t], t) = written'[t]
  BY <1>2 DEF InputsInv
<1>4. /\ input_payload' \in Seq(0 .. 255) /\ robot_in' \in Seq(0 .. 255)
      /\ written' \in [TagNames -> 0 .. 255]
      /\ input_recipe_setup' => Len(input_payload') = Rtde!PayloadSize(Rtde!Names(TRUE))'
      /\ started' /\ delivered' => input_recipe_setup' /\ robot_in' = input_payload'
  BY <1>1, SameEntries DEF InputsInv
<1>5. /\ rpc' \in {"V", "O", "I"} => rpc \in {"V", "O", "I"}
      /\ rpc' \in {"V", "O", "I", "S"} => rpc \in {"V", "O", "I", "S"}
  OBVIOUS
<1> QED
  BY <1>3, <1>4, <1>5 DEF InputsInv, Rtde!InHandshake

(* A session begins, or is deleted.                                        *)
LEMMA FreshInputsInv ==
    ASSUME Rtde!Fresh, robot_in' = << >>, ~delivered', written' = [t \in TagNames |-> 0]
    PROVE  InputsInv'
<1>1. /\ input_payload' = << >> /\ ~input_recipe_setup' /\ ~started' /\ ~initialized'
  BY DEF Rtde!Fresh
<1>2. << >> \in Seq(0 .. 255) /\ DOMAIN << >> = {}
  OBVIOUS
<1>3. written' \in [TagNames -> 0 .. 255] /\ \A t \in TagNames : written'[t] = 0
  OBVIOUS
<1> QED
  BY <1>1, <1>2, <1>3 DEF InputsInv

(* The offsets that a handshake computes are numbers.                      *)
LEMMA OffsetsTyped ==
    ASSUME IInv, Known(FALSE), Known(TRUE), Rtde!TagsResolve
    PROVE  Rtde!Offsets \in [TagNames -> Int]
<1>1. ASSUME NEW t \in entries PROVE ByteOffset(Rtde!RecipeOf(t), t) \in Int
  <2> DEFINE names == Rtde!Names(Rtde!IsInput(t))
  <2>1. t \in [base : Bases, index : Int, brackets : BOOLEAN]
    BY RtdeAssumption DEF RtdeAssumption, IInv, Phases
  <2>2. Rtde!IsInput(t) \in BOOLEAN
    BY DEF Rtde!IsInput
  <2>3. /\ names \in Seq(Bases) /\ TypesKnown(names)
        /\ \A m, n \in 1 .. Len(names) : names[m] = names[n] => m = n
        /\ \E m \in 1 .. Len(names) : names[m] = t.base
    BY <2>1, <2>2, NamesFacts DEF Known
  <2>4. IndexInRange(t)
    BY TagOperators DEF Rtde!TagsResolve
  <2> HIDE DEF names
  <2>5. ByteOffset(names, t) \in Nat
    BY <2>1, <2>3, <2>4, TagPlaced
  <2> QED
    BY <2>5 DEF names, Rtde!RecipeOf
<1>2. Rtde!Offsets = [t \in TagNames |->
                         IF t \in entries THEN ByteOffset(Rtde!RecipeOf(t), t) ELSE 0]
  <2>1. \A t : Rtde!ByteOffset(Rtde!RecipeOf(t), t) = ByteOffset(Rtde!RecipeOf(t), t)
    BY TagOperators
  <2> QED
    BY <2>1 DEF Rtde!Offsets
<1> QED
  BY <1>1, <1>2

LEMMA HandshakeInputsInv ==
    ASSUME IInv, FieldsInv, InputsInv, Rtde!Handshake PROVE InputsInv'
<1>1. CASE Rtde!HandshakeReceive
  <2>1. /\ UNCHANGED <<entries, offset, input_payload, input_recipe_setup, written, delivered>>
        /\ UNCHANGED <<robot_in, initialized, started, rpc>>
    BY <1>1 DEF Rtde!HandshakeReceive, Rtde!group, Rtde!session, Rtde!worker, Rtde!history
  <2> QED
    BY <2>1, KeptInputsInv
<1>2. CASE Rtde!HandshakeFails
  <2>1. /\ UNCHANGED <<entries, offset, input_payload, input_recipe_setup, written, delivered>>
        /\ UNCHANGED <<initialized, started>> /\ ~started' /\ robot_in' = << >> /\ rpc' = "idle"
    BY <1>2 DEF Rtde!HandshakeFails, Rtde!session, Rtde!history, Rtde!FreshRobot, IInv, Phases
  <2> QED
    BY <2>1, KeptInputsInv
<1>3. CASE Rtde!VersionAgreed
  <2>1. /\ UNCHANGED <<entries, offset, input_payload, input_recipe_setup, written, delivered>>
        /\ UNCHANGED <<robot_in, initialized, started>> /\ rpc = "V" /\ rpc' = "O"
    BY <1>3 DEF Rtde!VersionAgreed, Rtde!Request, Rtde!group, Rtde!history
  <2> QED
    BY <2>1, KeptInputsInv
<1>4. CASE Rtde!OutputsSetUp
  <2>1. /\ UNCHANGED <<entries, input_payload, input_recipe_setup, written, delivered>>
        /\ UNCHANGED <<robot_in, initialized, started>> /\ rpc = "O" /\ rpc' \in {"I", "S"}
        /\ ~initialized /\ ~started
    BY <1>4 DEF Rtde!OutputsSetUp, Rtde!Request, Rtde!group, Rtde!history, IInv, Phases,
                Rtde!InHandshake
  <2> QED
    BY <2>1, SameEntries DEF InputsInv, Rtde!InHandshake
<1>5. CASE Rtde!InputsSetUp
  <2>1. /\ UNCHANGED <<entries, written, delivered, robot_in, initialized, started>>
        /\ input_payload' = Rtde!Zeros(Rtde!PayloadSize(Rtde!Names(TRUE)))
        /\ rpc = "I" /\ rpc' = "S" /\ ~initialized /\ ~started
    BY <1>5 DEF Rtde!InputsSetUp, Rtde!Request, Rtde!group, Rtde!history, IInv, Phases,
                Rtde!InHandshake
  <2> DEFINE n == Rtde!PayloadSize(Rtde!Names(TRUE))
  <2>2. n \in Nat
    <3>2. Rtde!Names(TRUE) \in Seq(Bases)
      BY NamesFacts
    <3> DEFINE names == Rtde!Names(TRUE)
    <3>3. n = Before(names)[Len(names) + 1]
      BY LayoutOperators DEF PayloadSize
    <3> HIDE DEF names, n
    <3>4. names \in Seq(Bases)
      BY <3>2 DEF names
    <3>5. Before(names) \in [1 .. Len(names) + 1 -> Nat] /\ Len(names) + 1 \in 1 .. Len(names) + 1
      BY <3>4, BeforeEquation
    <3> QED
      BY <3>3, <3>5
  <2> HIDE DEF n
  <2>3. /\ input_payload' \in [1 .. n -> 0 .. 255]
        /\ \A k \in 1 .. n : input_payload'[k] = 0
    BY <2>1, <2>2 DEF n, Rtde!Zeros
  <2>4. /\ input_payload' \in Seq(0 .. 255) /\ Len(input_payload') = n
        /\ DOMAIN input_payload' = 1 .. n
    BY <2>2, <2>3, FunctionIsSeq
  <2>5. n = Rtde!PayloadSize(Rtde!Names(TRUE))'
    BY <2>1, SameEntries DEF n
  <2> QED
    BY <2>1, <2>3, <2>4, <2>5 DEF InputsInv, Rtde!InHandshake
<1>6. CASE Rtde!StreamStarted
  <2>1. /\ UNCHANGED <<entries, offset, input_payload, input_recipe_setup, written, delivered>>
        /\ robot_in' = robot_in /\ rpc = "S" /\ rpc' = "poll"
    BY <1>6 DEF Rtde!StreamStarted, Rtde!robot, Rtde!history
  <2>2. ASSUME NEW t \in entries, Rtde!IsInput(t), input_recipe_setup
        PROVE  ValueAt(input_payload, offset[t], t) = written[t]
    <3>1. PlaceOf(t) \in 1 .. Rtde!PayloadSize(Rtde!Names(TRUE)) /\ t \in TagNames
      BY <2>1, <2>2, ValuePlaced, TagKnown DEF PlaceOf
    <3>2. input_payload \in Seq(0 .. 255) /\ Len(input_payload) = Rtde!PayloadSize(Rtde!Names(TRUE))
      BY <2>2 DEF InputsInv
    <3>3. PlaceOf(t) \in DOMAIN input_payload
      <4>1. DOMAIN input_payload = 1 .. Len(input_payload)
        BY <3>2
      <4> QED
        BY <3>1, <3>2, <4>1
    <3>4. input_payload[PlaceOf(t)] = 0 /\ written[t] = 0
      BY <2>1, <3>1, <3>3 DEF InputsInv, Rtde!InHandshake
    <3>5. IsBit(t) => t.index \in Nat
      BY <2>1, <2>2, TagKnown, ValueByteFacts
    <3> QED
      BY <3>4, <3>5, ZeroBits DEF ValueAt, PlaceOf
  <2> QED
    BY <2>1, <2>2, SameEntries DEF InputsInv, Rtde!InHandshake
<1> QED
  BY <1>1, <1>2, <1>3, <1>4, <1>5, <1>6 DEF Rtde!Handshake

LEMMA NextInputsInv ==
    ASSUME IInv, FieldsInv, InputsInv, [Rtde!Next]_(Rtde!vars) PROVE InputsInv'
<1>1. CASE Rtde!PollStep
  <2>1. /\ UNCHANGED <<entries, offset, input_payload, input_recipe_setup, written, delivered>>
        /\ UNCHANGED initialized
    BY <1>1 DEF Rtde!PollStep, Rtde!PollTakes, Rtde!PollEnds, Rtde!PollFails, Rtde!group,
                Rtde!session, Rtde!history
  <2>2. /\ robot_in' = robot_in \/ (~started' /\ robot_in' = << >>)
        /\ started' => started
        /\ rpc' = rpc \/ rpc' \in {"idle", "poll"}
    BY <1>1 DEF Rtde!PollStep, Rtde!PollTakes, Rtde!PollEnds, Rtde!PollFails, Rtde!session,
                Rtde!FreshRobot, IInv, Phases
  <2> QED
    BY <2>1, <2>2, KeptInputsInv
<1>2. CASE Rtde!SessionBegin
  <2>1. Rtde!Fresh /\ written' = [t \in TagNames |-> 0] /\ delivered' = FALSE
    BY <1>2 DEF Rtde!SessionBegin
  <2>2. robot_in' = << >>
    BY <1>2, Zenon DEF Rtde!SessionBegin, Rtde!FreshRobot
  <2> QED
    BY <2>1, <2>2, FreshInputsInv
<1>3. CASE Rtde!Cleanup
  <2>1. Rtde!Fresh /\ written' = [t \in TagNames |-> 0] /\ delivered' = FALSE
    BY <1>3 DEF Rtde!Cleanup
  <2>2. robot_in' = << >>
    BY <1>3, Zenon DEF Rtde!Cleanup, Rtde!FreshRobot
  <2> QED
    BY <2>1, <2>2, FreshInputsInv
<1>4. CASE Rtde!PollBegin
  <2>1. /\ UNCHANGED <<entries, offset, input_payload, input_recipe_setup, written, delivered>>
        /\ UNCHANGED <<robot_in, initialized, started>> /\ rpc' = "poll"
    BY <1>4 DEF Rtde!PollBegin, Rtde!group, Rtde!session, Rtde!robot, Rtde!history
  <2> QED
    BY <2>1, KeptInputsInv
<1>5. CASE Rtde!Robot \/ UNCHANGED Rtde!vars
  <2>1. /\ UNCHANGED <<entries, offset, input_payload, input_recipe_setup, written, delivered>>
        /\ UNCHANGED <<robot_in, initialized, started, rpc>>
    BY <1>5 DEF Rtde!Robot, Rtde!RobotAnswers, Rtde!RobotData, Rtde!RobotBody, Rtde!RobotText,
                Rtde!RobotBadFrame, Rtde!RobotCloses, Rtde!Unchanged, Rtde!vars, Rtde!group,
                Rtde!session, Rtde!worker, Rtde!robot, Rtde!history
  <2> QED
    BY <2>1, KeptInputsInv
<1>6. CASE Rtde!Worker
  BY <1>2, <1>3, <1>4, <1>6, WriteInputsInv DEF Rtde!Worker
<1> QED
  BY <1>1, <1>5, <1>6, HandshakeInputsInv DEF Rtde!Next

LEMMA InitInputsInv == Rtde!Init => InputsInv
<1> SUFFICES ASSUME Rtde!Init PROVE InputsInv
  OBVIOUS
<1>1. /\ input_payload = << >> /\ robot_in = << >> /\ written = [t \in TagNames |-> 0]
      /\ ~input_recipe_setup /\ ~delivered /\ ~started /\ rpc = "idle"
  BY DEF Rtde!Init
<1>2. << >> \in Seq(0 .. 255) /\ written \in [TagNames -> 0 .. 255]
  BY <1>1
<1> QED
  BY <1>1, <1>2 DEF InputsInv, Rtde!InHandshake

(* What is sent is what was written, for any tags, types, values and       *)
(* writes.                                                                 *)
THEOREM RtdeInputsInv == Spec => []InputsInv
<1>1. Init => InputsInv
  BY InitInputsInv DEF Init
<1> QED
  BY <1>1, NextInputsInv, RtdeStep, RtdeInductive, RtdeFieldsInv, PTL DEF Spec

(* The controller has in its inputs what the client last wrote to a tag,   *)
(* whatever was written to others before and after.                        *)
THEOREM RtdeInputsAsWritten == Spec => []InputsAsWritten
<1>1. IInv /\ FieldsInv /\ InputsInv => InputsAsWritten
  <2> SUFFICES ASSUME IInv, FieldsInv, InputsInv, started, delivered,
                      NEW t \in entries, Rtde!IsInput(t), Rtde!Alone(t)
               PROVE  Rtde!RobotValue(t) = written[t]
    BY DEF InputsAsWritten, Rtde!InputsAsWritten
  <2>1. initialized /\ input_recipe_setup /\ robot_in = input_payload
    BY DEF IInv, Phases, InputsInv
  <2>2. Rtde!RobotValue(t) = ValueAt(input_payload, offset[t], t)
    BY <2>1, RobotReads
  <2> QED
    BY <2>1, <2>2 DEF InputsInv
<1> QED
  BY <1>1, RtdeInductive, RtdeFieldsInv, RtdeInputsInv, PTL
=============================================================================
