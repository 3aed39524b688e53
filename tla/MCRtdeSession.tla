---------------------------- MODULE MCRtdeSession ----------------------------
(***************************************************************************)
(* Small instances of RtdeSession.                                         *)
(***************************************************************************)
EXTENDS RtdeSession, MCRobot
=============================================================================
