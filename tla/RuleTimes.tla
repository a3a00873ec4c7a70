------------------------------ MODULE RuleTimes ------------------------------
(***************************************************************************)
(* When a rule of x10_service is due: Rule::GetExecutionTime in            *)
(* common/rule.cpp, on a clock that counts the seconds of the week, and    *)
(* what it is to be compared with, the moments at which a rule occurs.     *)
(***************************************************************************)
EXTENDS Integers, FiniteSets

CONSTANTS
  SecsInDay,   \* SECS_IN_DAY
  Days,        \* 7 weekdays, counted from 0
  Rules,       \* the rules that clients write
  MaxTime      \* MAX_TIMET: never

Week     == Days * SecsInDay
Weekdays == 0 .. Days - 1
Instants == 0 .. Week - 1

\* days: the bits of period; at: exec_time; times, every: repeatTimes, and
\* repeatPeriodMn in seconds.
RuleType == [enabled : BOOLEAN, days : SUBSET Weekdays, at : 0 .. SecsInDay - 1,
             times : Nat, every : Nat]

ASSUME RuleTimesAssumption ==
  /\ SecsInDay \in Nat \ {0} /\ Days \in Nat \ {0} /\ MaxTime \in Nat
  /\ Rules \subseteq RuleType
  /\ MaxTime > Week + SecsInDay
  /\ \A r \in Rules : MaxTime > SecsInDay + r.times * r.every

Weekday(w)   == w \div SecsInDay
SecsToday(w) == w % SecsInDay
-----------------------------------------------------------------------------
\* The repeat that comes next after this second.
RepeatsRequired(r, w) ==
  IF r.every > 0 THEN 1 + (SecsToday(w) - r.at) \div r.every ELSE r.times + 1

\* A faulty InNbDays: the loop begins a day late.
InNbDaysFromTwo(r, w) ==
  CHOOSE n \in 2 .. Days :
    /\ n = Days \/ (Weekday(w) + n) % Days \in r.days
    /\ \A k \in 2 .. n - 1 : (Weekday(w) + k) % Days \notin r.days

\* A faulty InNbDays: the week does not wrap around.
InNbDaysUnwrapped(r, w) ==
  CHOOSE n \in 1 .. Days :
    /\ n = Days \/ Weekday(w) + n \in r.days
    /\ \A k \in 1 .. n - 1 : Weekday(w) + k \notin r.days

\* The next valid day after today, today's weekday last.
InNbDays(r, w) ==
  CHOOSE n \in 1 .. Days :
    /\ n = Days \/ (Weekday(w) + n) % Days \in r.days
    /\ \A k \in 1 .. n - 1 : (Weekday(w) + k) % Days \notin r.days

\* Seconds from w until rule r is due, or MaxTime.
GetExecutionTime(r, w) ==
  LET today     == r.at - SecsToday(w)
      dueToday  == Weekday(w) \in r.days
      repeat    == RepeatsRequired(r, w)
  IN  IF ~r.enabled \/ r.days = {} THEN MaxTime
      ELSE IF dueToday /\ today >= 0 THEN today
      ELSE IF dueToday /\ repeat <= r.times THEN today + repeat * r.every
      ELSE today + InNbDays(r, w) * SecsInDay
-----------------------------------------------------------------------------
(* What a rule means. *)

\* The rule begins at instant w of the week.
Begins(r, w) == Weekday(w % Week) \in r.days /\ SecsToday(w % Week) = r.at

\* The rule repeats at w what began k repeats earlier.
Repeats(r, w) ==
  r.every > 0 /\ \E k \in 1 .. r.times : Begins(r, w - k * r.every)

Occurs(r, w) == Begins(r, w) \/ Repeats(r, w)
=============================================================================
