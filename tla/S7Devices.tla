------------------------------ MODULE S7Devices ------------------------------
(***************************************************************************)
(* The S7 PLCs that tag groups name as their gateways, one group for each. *)
(***************************************************************************)
EXTENDS Naturals, FiniteSets

CONSTANTS Hosts,        \* gateways, each that of one group
          S7Tags,       \* names of tags
          Gateway,      \* of the group that each tag is registered in
          Undecodable,  \* names that DecodeTag makes nothing of
          S7Values,     \* what is written to tags
          NoValue

ASSUME S7Assumption == /\ IsFiniteSet(S7Tags)
                       /\ Gateway \in [S7Tags -> Hosts]
                       /\ Undecodable \subseteq S7Tags
                       /\ NoValue \notin S7Values

TagsOf(h) == {t \in S7Tags : Gateway[t] = h}
=============================================================================
