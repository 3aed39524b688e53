------------------------------ MODULE RtdeFields ------------------------------
(***************************************************************************)
(* The data of an RTDE group (rtde_client.cpp, oip_comms.cpp): its tags,   *)
(* the sizes of the field types, where the fields of a recipe lie in a     *)
(* payload, and how numbers and single bits are stored there.  A number of *)
(* n bytes is the sequence of its bytes, the most significant one first.   *)
(***************************************************************************)
EXTENDS Integers, SequencesExt

CONSTANTS TagNames,      \* tags the client may register: [base, index, brackets]
          Registrations, \* the sets of tags it registers between two runs
          BaseOrder,     \* the variables' names, in the order of std::map
          InputBases,    \* those that begin with input_
          Types,         \* what the controller says their types are
          Values         \* values the client writes

(* What the controller may call the type of a variable.                    *)
FieldTypes == {"BOOL", "UINT8", "UINT32", "UINT64", "INT32", "DOUBLE", "VECTOR3D",
               "VECTOR6D", "VECTOR6INT32", "VECTOR6UINT32"}
Refusals == {"NOT_FOUND", "IN_USE", "UNKNOWN"}

Bases == {BaseOrder[k] : k \in DOMAIN BaseOrder}

ASSUME RtdeAssumption == /\ BaseOrder \in Seq(Bases)
                         /\ \A j, k \in DOMAIN BaseOrder :
                               BaseOrder[j] = BaseOrder[k] => j = k
                         /\ TagNames \subseteq [base : Bases, index : Int, brackets : BOOLEAN]
                         /\ IsFiniteSet(TagNames)
                         /\ Registrations \subseteq SUBSET TagNames
                         /\ InputBases \subseteq Bases
                         /\ Types \in [Bases -> FieldTypes \cup Refusals]
                         /\ Values \subseteq 0 .. 255

field_size(ft) ==
    CASE ft \in {"BOOL", "UINT8"} -> 1
      [] ft \in {"UINT32", "INT32"} -> 4
      [] ft \in {"UINT64", "DOUBLE"} -> 8
      [] ft \in {"VECTOR3D", "VECTOR6INT32", "VECTOR6UINT32"} -> 24
      [] ft = "VECTOR6D" -> 48
      [] OTHER -> 0

field_arity(ft) ==
    CASE ft = "VECTOR3D" -> 3
      [] ft \in {"VECTOR6D", "VECTOR6INT32", "VECTOR6UINT32"} -> 6
      [] ft \in {"UNKNOWN", "NOT_FOUND"} -> 0
      [] OTHER -> 1

field_scalar_size(ft) ==
    CASE ft \in {"BOOL", "UINT8"} -> 1
      [] ft \in {"UINT32", "INT32", "VECTOR6INT32", "VECTOR6UINT32"} -> 4
      [] ft \in {"UINT64", "DOUBLE", "VECTOR3D", "VECTOR6D"} -> 8
      [] OTHER -> 0

field_element_type(ft) ==
    CASE ft \in {"VECTOR3D", "VECTOR6D"} -> "DOUBLE"
      [] ft = "VECTOR6INT32" -> "INT32"
      [] ft = "VECTOR6UINT32" -> "UINT32"
      [] OTHER -> ft
---------------------------------------------------------------------------
(* Recipes: names is the sequence of their variables.                      *)

(* Each variable of bases once, in the order of the map.                   *)
Recipe(bases) ==
    LET bucket[i \in 1 .. Len(BaseOrder) + 1] ==
            IF i = 1 THEN <<>>
            ELSE IF BaseOrder[i - 1] \in bases THEN Append(bucket[i - 1], BaseOrder[i - 1])
                                              ELSE bucket[i - 1]
    IN bucket[Len(BaseOrder) + 1]

(* Bytes before the i-th field; at one past the last, those of the recipe. *)
Before(names) ==
    LET f[i \in 1 .. Len(names) + 1] ==
            IF i = 1 THEN 0 ELSE f[i - 1] + field_size(Types[names[i - 1]])
    IN f

PayloadSize(names) == Before(names)[Len(names) + 1]

FieldOffset(names, base) ==
    LET i == CHOOSE k \in DOMAIN names : names[k] = base IN Before(names)[i]

(* name[index] of an unsigned integer is a bit, of a vector an element.    *)
IsBit(tag) == tag.brackets /\ Types[tag.base] \in {"UINT8", "UINT32", "UINT64"}

IndexInRange(tag) ==
    tag.index >= 0 /\ tag.index < IF IsBit(tag)
                                    THEN 8 * field_scalar_size(Types[tag.base])
                                    ELSE field_arity(Types[tag.base])

ByteOffset(names, tag) ==
    FieldOffset(names, tag.base)
        + IF IsBit(tag) THEN 0 ELSE tag.index * field_scalar_size(Types[tag.base])

(* Bytes that a tag's value is read from or written to.                    *)
Width(tag) == field_scalar_size(IF IsBit(tag) THEN Types[tag.base]
                                       ELSE field_element_type(Types[tag.base]))
---------------------------------------------------------------------------
(* Payloads are sequences of bytes, offsets count from 0.                  *)
Zeros(n) == [k \in 1 .. n |-> 0]

StoreNumber(payload, offset, width, v) ==
    [k \in DOMAIN payload |->
        IF k \in offset + 1 .. offset + width THEN IF k = offset + width THEN v ELSE 0
                                              ELSE payload[k]]

(* The byte that holds a bit of an integer, and the bit's weight in it.    *)
BitByte(offset, width, bit) == offset + width - (bit \div 8)
BitOf(byte, bit) == (byte \div 2 ^ (bit % 8)) % 2

(* Mutant: the integer is overwritten by the bit.                          *)
StoreOnlyBit(payload, offset, width, bit, v) ==
    [StoreNumber(payload, offset, width, 0) EXCEPT
        ![BitByte(offset, width, bit)] = v * 2 ^ (bit % 8)]

StoreBit(payload, offset, width, bit, v) ==
    [payload EXCEPT ![BitByte(offset, width, bit)] = @ + (v - BitOf(@, bit)) * 2 ^ (bit % 8)]
---------------------------------------------------------------------------
(* The controller's own layout of a recipe: one field after the other, of  *)
(* each the elements, of each the bytes.  A cell says whose byte it is.    *)
RobotElements ==
    [BOOL |-> <<1>>, UINT8 |-> <<1>>, UINT32 |-> <<4>>, UINT64 |-> <<8>>, INT32 |-> <<4>>,
     DOUBLE |-> <<8>>, VECTOR3D |-> <<8, 8, 8>>, VECTOR6D |-> <<8, 8, 8, 8, 8, 8>>,
     VECTOR6INT32 |-> <<4, 4, 4, 4, 4, 4>>, VECTOR6UINT32 |-> <<4, 4, 4, 4, 4, 4>>]

ElementCells(base, e, n) == [k \in 1 .. n |-> [base |-> base, element |-> e, byte |-> k]]

FieldCells(base, ft) ==
    LET sizes == RobotElements[ft]
    IN FlattenSeq([e \in DOMAIN sizes |-> ElementCells(base, e - 1, sizes[e])])

RobotCells(names) ==
    FlattenSeq([i \in DOMAIN names |-> FieldCells(names[i], Types[names[i]])])
=============================================================================
