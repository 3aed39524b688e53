---------------------------- MODULE MCCoreParts ----------------------------
(***************************************************************************)
(* Small instances of the parts.  The program has one producer (the main   *)
(* thread) and one consumer (the worker) for the queue; the class is       *)
(* written for several of each, so two of each compete here, which also    *)
(* lets a notification reach a consumer whose message another one took.    *)
(* Of the groups one is due with every frame and one must wait; the clock  *)
(* runs long enough for several polls of it and for a restart after the    *)
(* wait has passed once.  Errors and runs suffice for a print to be        *)
(* overtaken by two starts, writes for their order to be lost.             *)
(***************************************************************************)
EXTENDS CoreParts, TLC
CONSTANTS main, other, worker, second, none, group, fast, slow

MCThreads == {main, worker}
MCProducers == {main, other}
MCConsumers == {worker, second}
MCMessages == {"", group}

MCGroups == {fast, slow}
MCInterval == fast :> 0 @@ slow :> 2
=============================================================================
