----------------------------- MODULE MCS7Plcs -----------------------------
(***************************************************************************)
(* Small instances of S7Plcs.                                              *)
(***************************************************************************)
EXTENDS S7Plcs

MCGateway == [t \in S7Tags |-> IF t = "MB9" THEN "plc2" ELSE "plc1"]
=============================================================================
