----------------------------- MODULE S7Addresses -----------------------------
(***************************************************************************)
(* The address space that a memory block of an S7 PLC is a part of.        *)
(***************************************************************************)
EXTENDS Naturals

CONSTANTS Top,          \* size of an address space, 65536 in the code
          Lengths,      \* ByteQty of the tags
          MaxRead,      \* bytes that one answer can hold, PDUMaxLength - 25
          MaxFails      \* bound of the model: answers that do not come or are no good

ASSUME MemoryAssumption == /\ Top \in Nat
                           /\ Lengths \subseteq Nat \ {0}
                           /\ MaxRead \in Nat \ {0}
                           /\ MaxFails \in Nat

Addresses == 0 .. Top - 1
Zero == Top
Names == [idx : 0 .. Top, len : Lengths]   \* what a tag's name is decoded to
=============================================================================
