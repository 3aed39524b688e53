------------------------------ MODULE SoftPlc ------------------------------
(***************************************************************************)
(* A tag group of protocol soft_plc, whose program an embedded engine runs *)
(* (oip_comms.cpp: process_soft_plc_tag_group, set_soft_plc_program, and   *)
(* the soft_plc parts of process_write, read_* and cleanup_tag_group; the  *)
(* engine, soft_plc.cpp and quickjs, is known by what it is asked).        *)
(*                                                                         *)
(* The main thread sets the program while the worker may be compiling the  *)
(* last one.  A value is known by who gave it: a part, or the program.     *)
(***************************************************************************)
EXTENDS SoftPrograms

VARIABLES
    tags, value,               \* registered tags; "none", "part" or "program"
    is_input, is_output,
    program_source, handle,    \* the program set last; the one compiled last
    initialized, last_phys_frame,
    has_error,
    pc,                        \* the worker: idle, or between compiling and scanning
    frame,                     \* physics frames so far
    seen,                      \* history: tags there were when the program was compiled
    replaced,                  \* the program was set anew in the middle of a compilation
    began, elapsed             \* frame of the program's first scan, time it was given

io == <<is_input, is_output>>
history == <<seen, replaced, began, elapsed>>
vars == <<tags, value, io, program_source, handle, initialized, last_phys_frame, has_error, pc,
          frame, history>>

TypeOK == /\ tags \subseteq PlcTags /\ value \in [PlcTags -> {"none", "part", "program"}]
          /\ is_input \subseteq tags /\ is_output \subseteq tags
          /\ {program_source, handle} \subseteq Programs \cup {NoProgram}
          /\ initialized \in BOOLEAN /\ has_error \in BOOLEAN /\ replaced \in BOOLEAN
          /\ last_phys_frame \in Nat /\ frame \in Nat /\ began \in Nat /\ elapsed \in Nat
          /\ pc \in {"idle", "compiled", "scan"}
          /\ seen \subseteq tags

(* Physics has been running by the time a program does.                    *)
Init == /\ tags = {} /\ value = [t \in PlcTags |-> "none"]
        /\ is_input = {} /\ is_output = {}
        /\ program_source = NoProgram /\ handle = NoProgram
        /\ initialized = FALSE /\ last_phys_frame = 0
        /\ has_error = FALSE
        /\ pc = "idle" /\ frame = 1
        /\ seen = {} /\ replaced = FALSE
        /\ began = 0 /\ elapsed = 0
---------------------------------------------------------------------------
(* The main thread                                                         *)

register_tag(t) ==
    /\ pc = "idle" /\ t \notin tags
    /\ tags' = tags \cup {t}
    /\ UNCHANGED <<value, io, program_source, handle, initialized, last_phys_frame, has_error, pc,
                   frame, history>>

(* Mutant: the program that was compiled stays.                            *)
SetProgramStays(p) ==
    /\ program_source' = p
    /\ replaced' = (pc = "compiled")
    /\ UNCHANGED <<tags, value, io, handle, initialized, last_phys_frame, has_error, pc, frame, seen,
                   began, elapsed>>

set_soft_plc_program(p) ==
    /\ program_source' = p /\ initialized' = FALSE
    /\ replaced' = (pc = "compiled")
    /\ UNCHANGED <<tags, value, io, handle, last_phys_frame, has_error, pc, frame, seen,
                   began, elapsed>>

PhysicsFrame == /\ frame < MaxFrame /\ frame' = frame + 1
                /\ UNCHANGED <<tags, value, io, program_source, handle, initialized,
                               last_phys_frame, has_error, pc, history>>
---------------------------------------------------------------------------
(* The worker                                                              *)

(* Mutant: it may write an output as well.                                 *)
MayWriteAny(t) == t \in tags

(* process_write: a part may write any tag but an output.                  *)
MayWrite(t) == t \in tags \ is_output

Write(t) ==
    /\ pc = "idle" /\ MayWrite(t)
    /\ value' = [value EXCEPT ![t] = "part"]
    /\ UNCHANGED <<tags, io, program_source, handle, initialized, last_phys_frame, has_error, pc,
                   frame, seen, replaced, began, elapsed>>

(* Until there is a program a poll does nothing.  A bundle that cannot be  *)
(* loaded is an error as a program that does not compile is.               *)
Poll ==
    /\ pc = "idle" /\ ~has_error
    /\ IF initialized THEN pc' = "scan" /\ UNCHANGED <<handle, has_error, replaced>>
       ELSE /\ program_source # NoProgram
            /\ replaced' = FALSE
            /\ \/ /\ program_source \notin Faulty
                  /\ handle' = program_source /\ pc' = "compiled" /\ UNCHANGED has_error
               \/ has_error' = TRUE /\ handle' = NoProgram /\ UNCHANGED pc
    /\ UNCHANGED <<tags, value, io, program_source, initialized, last_phys_frame, frame, seen,
                   began, elapsed>>

(* Tags are marked by the meta of the program; no mark is ever taken back. *)
Mark ==
    /\ pc = "compiled"
    /\ is_input' = is_input \cup (ProgramInputs[handle] \cap tags)
    /\ is_output' = is_output \cup (ProgramOutputs[handle] \cap tags)
    /\ initialized' = TRUE /\ last_phys_frame' = 0
    /\ seen' = tags /\ began' = 0 /\ elapsed' = 0
    /\ pc' = "scan"
    /\ UNCHANGED <<tags, value, program_source, handle, has_error, frame, replaced>>

(* Mutant: every scan advances by the nominal interval.                    *)
DtNominal == Nominal

dt == IF last_phys_frame = 0 THEN Nominal ELSE frame - last_phys_frame

Scan ==
    /\ pc = "scan"
    /\ elapsed' = elapsed + dt
    /\ began' = IF last_phys_frame = 0 THEN frame ELSE began
    /\ last_phys_frame' = frame
    /\ value' = [t \in PlcTags |->
                      IF t \in ProgramOutputs[handle] \cap tags THEN "program" ELSE value[t]]
    /\ pc' = "idle"
    /\ UNCHANGED <<tags, io, program_source, handle, initialized, has_error, frame, seen, replaced>>

Cleanup ==
    /\ pc = "idle" /\ (tags # {} \/ program_source # NoProgram)
    /\ tags' = {} /\ value' = [t \in PlcTags |-> "none"]
    /\ is_input' = {} /\ is_output' = {}
    /\ program_source' = NoProgram /\ handle' = NoProgram
    /\ initialized' = FALSE /\ last_phys_frame' = 0 /\ has_error' = FALSE
    /\ seen' = {} /\ replaced' = FALSE /\ began' = 0 /\ elapsed' = 0
    /\ UNCHANGED <<pc, frame>>

Worker == Poll \/ Mark \/ Scan
Next == \/ Worker \/ Cleanup \/ PhysicsFrame
        \/ \E t \in PlcTags : register_tag(t) \/ Write(t)
        \/ \E p \in Programs : set_soft_plc_program(p)

Spec == Init /\ [][Next]_vars
FairSpec == Spec /\ WF_vars(Worker)
---------------------------------------------------------------------------
(* "recompile on next poll" (817): the program that runs is the one set    *)
(* last, unless that was set between compiling the one before and marking  *)
(* its tags, when the worker takes the new one for compiled.               *)
LastProgramRuns == initialized /\ ~replaced => handle = program_source

(* "a part may write PLC inputs, never PLC outputs" (606): what a part     *)
(* reads of an output is what the program gave it, for the tags there were *)
(* when the program was compiled.                                          *)
ProgramOwnsOutputs ==
    pc = "idle" /\ initialized /\ elapsed > 0 =>
        \A t \in seen \cap ProgramOutputs[handle] : value[t] = "program"

(* "Advance the engine by SIMULATION time" (776): the time that a program  *)
(* was given is that of the physics frames since its first scan, after the *)
(* nominal interval of that scan, whatever scans were late.                *)
TimeIsPhysics ==
    initialized /\ last_phys_frame > 0 => elapsed = Nominal + (last_phys_frame - began)
=============================================================================
