--------------------------- MODULE FrameSettings ---------------------------
(***************************************************************************)
(* The groups that ProcessFrame polls and the times it goes by, in a       *)
(* module of their own for the modules that use an instance of it.         *)
(***************************************************************************)
EXTENDS Integers

CONSTANTS Groups,         \* tag group names
          Interval,       \* polling_interval of each group, any int
          RegisterWait,   \* register_wait_time
          SpareWait,      \* how far startup_timer counts beyond it
          MaxTime         \* bound of the model: the engine's clock stops here

ASSUME FrameAssumption == /\ Interval \in [Groups -> Int]
                          /\ RegisterWait \in Nat
                          /\ SpareWait \in Nat
                          /\ MaxTime \in Nat
=============================================================================
