----------------------------- MODULE CommsError -----------------------------
(***************************************************************************)
(* How OIPComms reports errors: print(message, true), which the main       *)
(* thread and the worker both call, and set_sim_running(true), which makes *)
(* the next error a first one again.  print tests comms_error, emits the   *)
(* signal, stores the text and sets the flag, and nothing keeps another    *)
(* thread out between these steps; the handlers of the signal run inside   *)
(* emit_signal.                                                            *)
(***************************************************************************)
EXTENDS Naturals, FiniteSets

CONSTANTS Threads, Main,   \* the threads that print, and the one that starts runs
          None,            \* no text
          MaxErrors,       \* bound of the model: errors printed
          MaxRuns          \* bound of the model: calls of set_sim_running(true)

(* The text of an error stands for the error: its number, and the run in   *)
(* which it was printed.                                                   *)
Texts == [id : Nat, run : Nat]

ASSUME ErrorAssumption == /\ Main \in Threads
                          /\ None \notin Texts
                          /\ MaxErrors \in Nat
                          /\ MaxRuns \in Nat

VARIABLES comms_error, last_error,
          pc, message,   \* where each thread is in print, and its argument
          (* history: runs started, errors printed; and of this run:        *)
          (* signals sent by each thread, whether an error was printed, and *)
          (* whether no print was going on when it started                  *)
          run, printed, signals, failed, clean

vars == <<comms_error, last_error, pc, message, run, printed, signals, failed, clean>>

FlagsOK == comms_error \in BOOLEAN /\ failed \in BOOLEAN /\ clean \in BOOLEAN
CountsOK == run \in Nat /\ printed \in Nat /\ signals \in [Threads -> Nat]
PrintsOK == /\ pc \in [Threads -> {"idle", "emit", "store", "raise"}]
            /\ message \in [Threads -> Texts \cup {None}]
            /\ \A t \in Threads : pc[t] # "idle" => message[t] \in Texts
            /\ last_error \in Texts \cup {None}
TypeOK == FlagsOK /\ CountsOK /\ PrintsOK

Init == /\ comms_error = FALSE /\ last_error = None
        /\ pc = [t \in Threads |-> "idle"]
        /\ message = [t \in Threads |-> None]
        /\ run = 0 /\ printed = 0
        /\ signals = [t \in Threads |-> 0]
        /\ failed = FALSE /\ clean = TRUE

Goto(t, label) == pc' = [pc EXCEPT ![t] = label]
Text == [id |-> printed + 1, run |-> run]

(* The error goes to the console; is it the first one?                     *)
PrintError(t) ==
    /\ pc[t] = "idle" /\ printed < MaxErrors
    /\ Goto(t, IF comms_error THEN "idle" ELSE "emit")
    /\ message' = [message EXCEPT ![t] = Text]
    /\ printed' = printed + 1
    /\ failed' = TRUE
    /\ UNCHANGED <<comms_error, last_error, run, signals, clean>>

Emit(t) ==
    /\ pc[t] = "emit"
    /\ Goto(t, "store")
    /\ signals' = [signals EXCEPT ![t] = @ + 1]
    /\ UNCHANGED <<comms_error, last_error, message, run, printed, failed, clean>>

(* Mutant: only the first error ever is stored.                            *)
StoreOnce(t) ==
    /\ pc[t] = "store"
    /\ Goto(t, "raise")
    /\ last_error' = IF last_error = None THEN message[t] ELSE last_error
    /\ UNCHANGED <<comms_error, message, run, printed, signals, failed, clean>>

Store(t) ==
    /\ pc[t] = "store"
    /\ Goto(t, "raise")
    /\ last_error' = message[t]
    /\ UNCHANGED <<comms_error, message, run, printed, signals, failed, clean>>

Raise(t) ==
    /\ pc[t] = "raise"
    /\ Goto(t, "idle")
    /\ comms_error' = TRUE
    /\ UNCHANGED <<last_error, message, run, printed, signals, failed, clean>>

NewRun == /\ pc[Main] = "idle" /\ run < MaxRuns
          /\ run' = run + 1
          /\ signals' = [t \in Threads |-> 0]
          /\ failed' = FALSE
          /\ clean' = (\A t \in Threads : pc[t] = "idle")
          /\ UNCHANGED <<last_error, pc, message, printed>>

(* Mutant: the flag of the last run is kept.                               *)
StartSimKeepsError == NewRun /\ UNCHANGED comms_error

(* set_sim_running(true)                                                   *)
StartSim == NewRun /\ comms_error' = FALSE

Next == \/ \E t \in Threads : PrintError(t) \/ Emit(t) \/ Store(t) \/ Raise(t)
        \/ StartSim

Spec == Init /\ [][Next]_vars
---------------------------------------------------------------------------
(* What OIPComms.xml:344 says of comms_error: "This signal is emitted      *)
(* [i]once[/i]; when the first error occurs in [code]OIPComms[/code].      *)
(* Subsequent errors will not fire this signal."  Of a run that has been   *)
(* started: no thread sends it twice in it, nor two threads once each.     *)
OncePerThread == \A t \in Threads : signals[t] <= 1
OneThread == \A s, t \in Threads : signals[s] > 0 /\ signals[t] > 0 => s = t
SignalledOnce == run > 0 => OncePerThread /\ OneThread

(* No run fails in silence: once an error was printed in a run that began  *)
(* with no print under way, the signal was sent in that run or is about to *)
(* be.                                                                     *)
FailureSignalled ==
    clean /\ failed => \E t \in Threads : signals[t] > 0 \/ pc[t] = "emit"

(* ... and while comms_error is set, get_comms_error answers with an error *)
(* of this run, not with one that an earlier run left there.               *)
ErrorOfThisRun ==
    clean /\ comms_error => last_error # None /\ last_error.run = run
=============================================================================
