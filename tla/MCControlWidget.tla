--------------------------- MODULE MCControlWidget ---------------------------
(***************************************************************************)
(* Instance of ControlWidget for TLC: levels 0..2, two addresses between   *)
(* which the control moves, another client that switches the unit off or   *)
(* asks for a level, and remotes.                                          *)
(***************************************************************************)
EXTENDS ControlWidget, TLC

MCOtherOps == {[op |-> "OFF", arg |-> Off], [op |-> "SET", arg |-> 1]}
=============================================================================
