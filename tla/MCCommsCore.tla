---------------------------- MODULE MCCommsCore ----------------------------
(***************************************************************************)
(* Small instances of CommsCore.  One group with two tags shows what the   *)
(* tags of a group do to each other; two groups with one tag each show     *)
(* that a cleanup, an error or a poll of one group leaves the other alone. *)
(* Group and tag names are interchangeable: the runs that check invariants *)
(* only use that symmetry.                                                 *)
(***************************************************************************)
EXTENDS CommsCore, TLC

Symmetry == Permutations(Groups) \cup Permutations(Tags)
=============================================================================
