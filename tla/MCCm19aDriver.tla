--------------------------- MODULE MCCm19aDriver ---------------------------
(***************************************************************************)
(* Instances of Cm19aDriver for TLC.                                       *)
(***************************************************************************)
EXTENDS Cm19aDriver
=============================================================================
