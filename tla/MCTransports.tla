---------------------------- MODULE MCTransports ----------------------------
(***************************************************************************)
(* Small instances of Transports.  Of the two programs one has an output   *)
(* that is an input of the other.                                          *)
(***************************************************************************)
EXTENDS Transports, MCRobot

MCGateway == [t \in S7Tags |-> "plc1"]

MCProgramInputs == [p \in Programs |-> IF p = "sort" THEN {"sensor"} ELSE {"motor"}]
MCProgramOutputs == [p \in Programs |-> IF p = "sort" THEN {"motor"} ELSE {"lamp"}]
=============================================================================
