------------------------------ MODULE S7Memory ------------------------------
(***************************************************************************)
(* One memory block (S7MemoryBlock) of one S7 PLC, S7Com.cpp: the worker   *)
(* registers and unregisters tags, the PLC's polling thread fetches the    *)
(* block from the device piece by piece, and the main thread reads tags    *)
(* from the image, all at once.                                            *)
(*                                                                         *)
(* What is done under lockResize is one step.  The polling thread copies   *)
(* start and quantity under that lock and uses them without it; where in   *)
(* the image a piece goes depends on the start as it is by then.  A byte   *)
(* of the image is the address it was fetched from, or Zero while nothing  *)
(* was fetched: values are left out, and so is whether a value of several  *)
(* bytes is of one moment.  Of the connection only whether it stands       *)
(* matters here.                                                           *)
(***************************************************************************)
EXTENDS S7Addresses

VARIABLES
    tags,                      \* the tags registered in this block
    Start, Quantity, Resized,  \* the block, under lockResize
    size, image,               \* MemImage
    linked,                    \* state = 2
    pc, start, quantity, i,    \* the polling thread: its copies, the next address
    (* history: tags that were there when the start last moved down, what   *)
    (* the image has had since before then, answers that did not come       *)
    before, aged, fails

block == <<Start, Quantity, Resized>>
poll == <<pc, start, quantity, i>>
history == <<before, aged, fails>>
vars == <<tags, block, size, image, linked, poll, history>>

TypeOK == /\ tags \subseteq Names
          /\ Start \in 0 .. Top
          /\ Quantity \in 0 .. Top
          /\ Resized \in BOOLEAN
          /\ size \in 0 .. Top
          /\ image \in [Addresses -> 0 .. Top]
          /\ linked \in BOOLEAN
          /\ pc \in {"pass", "piece"}
          /\ start \in 0 .. Top
          /\ quantity \in 0 .. Top
          /\ i \in Nat
          /\ before \subseteq Names /\ aged \subseteq Addresses
          /\ fails \in Nat

Init == /\ tags = {}
        /\ Start = Top /\ Quantity = 0 /\ Resized = FALSE
        /\ size = 0 /\ image = [k \in Addresses |-> Zero]
        /\ linked = FALSE
        /\ pc = "pass" /\ start = Top /\ quantity = 0 /\ i = Top
        /\ before = {} /\ aged = {} /\ fails = 0
---------------------------------------------------------------------------
(* The worker                                                              *)

(* Mutant: only the first byte of a tag is compared with the end.          *)
FitsByStart(t) == t.idx <= Top
Fits(t) == t.idx + t.len <= Top

NewStart(t) == IF t.idx < Start THEN t.idx ELSE Start

(* Mutant: the block ends where the tag begins.                            *)
ShortQuantity(t) == IF t.idx > NewStart(t) + Quantity THEN t.idx - NewStart(t) ELSE Quantity

(* The quantity is counted from the new start, the old end is not kept.    *)
NewQuantity(t) ==
    IF t.idx + t.len > NewStart(t) + Quantity THEN t.idx + t.len - NewStart(t) ELSE Quantity

Register(t) ==
    /\ t \notin tags /\ Fits(t)
    /\ tags' = tags \cup {t}
    /\ Start' = NewStart(t)
    /\ Quantity' = NewQuantity(t)
    /\ Resized' = (Resized \/ Start' # Start \/ Quantity' # Quantity)
    /\ before' = IF Start' = Start THEN before \ {t} ELSE tags
    /\ aged' = IF Start' = Start THEN aged ELSE {k \in Addresses : image[k] # Zero}
    /\ UNCHANGED <<size, image, linked, poll, fails>>

(* The block keeps its size: the holes of its other tags run through it.   *)
Unregister(t) ==
    /\ t \in tags
    /\ tags' = tags \ {t}
    /\ UNCHANGED <<block, size, image, linked, poll, history>>

(* The last tag of the PLC, of this block or of another one, takes it with *)
(* it once its polling thread has ended its pass; the next tag makes a new *)
(* PLC.                                                                    *)
PlcDestroyed ==
    /\ \A t, u \in tags : t = u
    /\ pc = "pass"
    /\ tags' = {}
    /\ Start' = Top /\ Quantity' = 0 /\ Resized' = FALSE
    /\ size' = 0 /\ image' = [k \in Addresses |-> Zero]
    /\ linked' = FALSE
    /\ before' = {} /\ aged' = {}
    /\ UNCHANGED <<poll, fails>>
---------------------------------------------------------------------------
(* The polling thread                                                      *)

Connect == /\ ~linked /\ pc = "pass"
           /\ linked' = TRUE
           /\ UNCHANGED <<tags, block, size, image, poll, history>>

(* The image grows, and the pass gets copies of start and quantity.        *)
PassBegin ==
    /\ linked /\ pc = "pass" /\ Quantity > 0
    /\ size' = IF Resized THEN Quantity ELSE size
    /\ Resized' = FALSE
    /\ start' = Start /\ quantity' = Quantity /\ i' = Start
    /\ pc' = "piece"
    /\ UNCHANGED <<tags, Start, Quantity, image, linked, history>>

Left == quantity - (i - start)
Piece == IF MaxRead < Left THEN MaxRead ELSE Left

(* Mutant: one piece is all that is fetched.                               *)
AdvanceOnce == i' = i + Piece /\ pc' = "pass" /\ UNCHANGED <<start, quantity>>

Advance == /\ i' = i + Piece
           /\ pc' = IF Left > Piece THEN "piece" ELSE "pass"
           /\ UNCHANGED <<start, quantity>>

(* Mutant: the place is counted from the pass's own copy of the start.    *)
OffsetInPass == i - start

(* Where in the image the piece is copied to: counted from the start as it *)
(* is by now.  What lies past the end of the image is left out.            *)
Offset == i - Start
Copied == {k \in Addresses : Offset <= k /\ k < Offset + Piece /\ k < size}

PieceFetched ==
    /\ pc = "piece" /\ linked
    /\ image' = [k \in Addresses |-> IF k \in Copied THEN i + (k - Offset) ELSE image[k]]
    /\ aged' = aged \ Copied
    /\ Advance
    /\ UNCHANGED <<tags, block, size, linked, before, fails>>

(* The exchange fails, which closes the socket, or the answer is no good.  *)
PieceFailed ==
    /\ pc = "piece"
    /\ IF linked THEN fails < MaxFails /\ fails' = fails + 1 ELSE UNCHANGED fails
    /\ linked' \in {linked, FALSE}
    /\ Advance
    /\ UNCHANGED <<tags, block, size, image, before, aged>>

(* The worker sends a write over the same socket and loses it.             *)
WriteLosesLink ==
    /\ linked /\ fails < MaxFails
    /\ linked' = FALSE
    /\ fails' = fails + 1
    /\ UNCHANGED <<tags, block, size, image, poll, before, aged>>
---------------------------------------------------------------------------
Worker == \/ \E t \in Names : Register(t) \/ Unregister(t)
          \/ PlcDestroyed
          \/ WriteLosesLink
PollStep == Connect \/ PassBegin \/ PieceFetched \/ PieceFailed

Next == Worker \/ PollStep

(* The polling thread runs, and the device answers again in the end (the   *)
(* bound on fails); the worker need never do anything.                     *)
Spec == Init /\ [][Next]_vars
FairSpec == Spec /\ WF_vars(PollStep)
---------------------------------------------------------------------------
(* "one continuous block from the lowest requested @ to the highest @"     *)
(* (S7Com.cpp:8-9): no registered tag falls out of what is fetched.        *)
BlockCoversTags == \A t \in tags : Start <= t.idx /\ t.idx + t.len <= Start + Quantity

(* In whatever order tags are registered, those that came since the start  *)
(* last moved down, the one that moved it included, are in the block that  *)
(* is fetched: s7_register_tag loses none but earlier ones.                *)
CoveredSinceMove ==
    \A t \in tags \ before : Start <= t.idx /\ t.idx + t.len <= Start + Quantity

(* S7_read(tag) answers with the image only where it may.                  *)
Readable(t) == /\ linked /\ ~Resized
               /\ Start <= t.idx /\ t.idx + t.len <= Start + Quantity
Bytes(t) == t.idx - Start .. t.idx - Start + t.len - 1

(* What a read of a tag takes from the image is inside it, and what was    *)
(* copied there since the start last moved is of the tag's own addresses,  *)
(* by whichever pass: one may have begun before the start moved.           *)
ReadsOwnBytes ==
    \A t \in tags : Readable(t) =>
        \A k \in Bytes(t) : k < size /\ (k \in aged \/ image[k] \in {Start + k, Zero})

(* A pass that has the start of the block asks for no piece that goes past *)
(* the end of the image, whatever was registered since it began.           *)
CopyInImage == pc = "piece" /\ start = Start => Start <= i /\ i + Piece - Start <= size

(* All registered tags that did not fall out of the block can be read and  *)
(* were fetched, some time later.                                          *)
Fetched(t) == Readable(t) /\ \A k \in Bytes(t) : image[k] = Start + k
TagsFetched == (tags # {}) ~> \A t \in tags \ before : Fetched(t)
=============================================================================
