--------------------------- MODULE MCX10Controller ---------------------------
(***************************************************************************)
(* Instances of X10Controller for TLC.  In front of UnitCodeLut the build  *)
(* puts the end of HouseCodeLut (HOUSE_P) or a zero.                       *)
(***************************************************************************)
EXTENDS X10Controller, TLC

MCBeyond == {{4, 5}, {}}
=============================================================================
