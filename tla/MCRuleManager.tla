---------------------------- MODULE MCRuleManager ----------------------------
(***************************************************************************)
(* Instances of RuleManager for TLC: days of 6 seconds, weeks of 2 days,   *)
(* and rules that repeat within the day, past midnight or for longer than  *)
(* a day, share their moment with another rule, are disabled, or are due   *)
(* on no day.                                                              *)
(***************************************************************************)
EXTENDS RuleManager, TLC

Rule(days, at, times, every) ==
  [enabled |-> TRUE, days |-> days, at |-> at, times |-> times, every |-> every]

Daily    == Rule({0, 1}, 2, 0, 1)
Weekly   == Rule({1}, 2, 0, 1)
Repeated == Rule({0}, 1, 2, 2)
Midnight == Rule({0}, 4, 2, 3)
Overlong == Rule({0, 1}, 0, 2, 4)
Instant  == Rule({1}, 3, 2, 0)
Nodays   == Rule({}, 3, 0, 1)
Disabled == [Daily EXCEPT !.at = 4, !.enabled = FALSE]

MCRules == {Daily, Weekly, Repeated, Midnight, Overlong, Instant, Nodays, Disabled}

MCRuleSets ==
  {<<>>, <<Daily, Weekly>>, <<Repeated, Disabled, Weekly>>, <<Midnight>>, <<Overlong>>,
   <<Instant, Daily>>, <<Nodays>>}
=============================================================================
