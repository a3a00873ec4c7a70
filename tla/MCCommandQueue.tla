--------------------------- MODULE MCCommandQueue ---------------------------
(***************************************************************************)
(* Instances of CommandQueue for TLC: two lamps, E1 and E2, levels 0..3    *)
(* (so that the off/on shortcut of a SET happens: from 0 to 3), and rules  *)
(* that send two commands in a row.                                        *)
(***************************************************************************)
EXTENDS CommandQueue, TLC

E1 == <<"E", 1>>
E2 == <<"E", 2>>

MCSourceOrder == <<E1, E2>>

MCPolled == {E1}

MCRuleLists ==
  {<<Request(E1, "ON", Off, "always"), Request(E1, "DIM", Off, "always")>>,
   <<Request(E1, "OFF", Off, "always"), Request(E2, "SET", 0, "always")>>}

MCNoRules == {}
=============================================================================
