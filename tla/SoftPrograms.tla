---------------------------- MODULE SoftPrograms ----------------------------
(***************************************************************************)
(* The programs that can be set for a tag group of protocol soft_plc.      *)
(***************************************************************************)
EXTENDS Naturals

CONSTANTS PlcTags,            \* names of the group's tags
          Programs, NoProgram,
          ProgramInputs, ProgramOutputs, \* of each program: the names in its meta
          Faulty,             \* programs that do not compile
          Nominal,            \* polling interval, in physics frames
          MaxFrame            \* bound on physics frames

ASSUME SoftPlcAssumption == /\ NoProgram \notin Programs
                            /\ ProgramInputs \in [Programs -> SUBSET PlcTags]
                            /\ ProgramOutputs \in [Programs -> SUBSET PlcTags]
                            /\ Nominal \in Nat /\ MaxFrame \in Nat
=============================================================================
