--------------------------- MODULE MCProcessFrame ---------------------------
(***************************************************************************)
(* Small instance of ProcessFrame: a group that is due with every frame    *)
(* and one that must wait, a clock that runs long enough for several polls *)
(* of the slow group and for a restart after the wait has passed once.     *)
(***************************************************************************)
EXTENDS ProcessFrame, TLC
CONSTANTS fast, slow

MCGroups == {fast, slow}
MCInterval == fast :> 0 @@ slow :> 2
=============================================================================
