----------------------------- MODULE MCX10Widget -----------------------------
(***************************************************************************)
(* Instance of X10Widget for TLC: lists of at most three rules, with one   *)
(* that has seconds in its time among them, one with a bad address and one *)
(* whose text cannot be read; two houses of two units.                     *)
(***************************************************************************)
EXTENDS X10Widget, TLC

R(e, w, t, d, k, x, n) ==
  [enabled |-> e, who |-> w, time |-> t, days |-> d, kind |-> k, text |-> x, repeats |-> n]

MCNewRule == R(TRUE, "*", 60, "week", "on", "", 1)

MCBlank == [days |-> "none", kind |-> "on", text |-> "", repeats |-> 0]

\* "Set" wants a number.
MCRefused == {<<"set", "">>, <<"set", ",">>}

MCOtherRules ==
  {<<R(TRUE, "E1", 0, "none", "on", "", 0)>>,
   <<R(TRUE, "E1", 90, "week", "set", "5", 0), R(TRUE, "?", 60, "none", "on", "", 1)>>}

MCChannels == <<"A", "B">>

\* A/0/../A/1/.. is read back as a node "A" in the house 0, a character in front
\* of A, and /1 as a node without a name.
MCCut == [name \in {"A/0", "/1"} |->
            Node(IF name = "/1" THEN "" ELSE "Untitled", IF name = "/1" THEN 3 ELSE -1, 0)]
=============================================================================
