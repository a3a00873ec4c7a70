----------------------------- MODULE RuleManager -----------------------------
(***************************************************************************)
(* The rules of x10_service: controller/service/rules-manager.cpp.         *)
(*                                                                         *)
(* One single-shot timer in the main thread waits for the rules that are   *)
(* due next.  It is re-armed at least every PERIOD_MS, runs the rules      *)
(* when it finds itself close enough, and is then armed for the next.      *)
(* Clients replace the rules through D-Bus (main thread); the worker loads *)
(* them from the rules file when the service starts, on a timer that lives *)
(* in the main thread.                                                     *)
(*                                                                         *)
(* The wall clock counts seconds in a week, for ever.  m_lowestTime is     *)
(* held relative to it (due): the code only ever uses the difference.      *)
(***************************************************************************)
EXTENDS RuleTimes, Sequences, FiniteSetsExt

CONSTANTS
  PeriodSecs,  \* PERIOD_MS
  RuleSets,    \* the lists of rules that clients write
  MaxLate      \* bound: seconds for which the main thread may be busy

ASSUME RuleManagerAssumption ==
  /\ PeriodSecs \in Nat \ {0} /\ MaxLate \in Nat
  /\ RuleSets \subseteq Seq(Rules) /\ <<>> \in RuleSets

VARIABLES
  wall,     \* time(): the second of the week
  rules,    \* m_listRules
  file,     \* the rules file
  due,      \* m_lowestTime - time()
  nextSet,  \* m_nextRuleSet, as positions in rules
  timer,    \* m_timerRuleNeedExec: the seconds left, or Stopped
  skewed,   \* the timer and the wall clock differed since the timer was started
  late,     \* the seconds for which a time-out has been waiting for the main thread
  loading,  \* the worker has cleared the rules and not yet read the file
  event     \* history: what the last step was

vars == <<wall, rules, file, due, nextSet, timer, skewed, late, loading, event>>

Stopped == -1
Past    == -MaxLate - 3
Dues    == Past .. MaxTime
Events  == {"time", "realign", "run", "config"}

Later(w) == (w + 1) % Week

\* Past is as good as any earlier moment.
Sooner(d) == IF d \in {MaxTime, Past} THEN d ELSE d - 1

AtMost(a, b) == IF a <= b THEN a ELSE b

Init ==
  /\ wall \in Instants
  /\ rules = <<>> /\ file \in RuleSets
  /\ due = MaxTime /\ nextSet = {}
  /\ timer = Stopped /\ skewed = FALSE /\ late = 0
  /\ loading = FALSE
  /\ event = "config"
-----------------------------------------------------------------------------
(***************************************************************************)
(* updateNextExecution: the rules due next, and the timer for them.        *)
(***************************************************************************)
Times(list, w) == {GetExecutionTime(list[i], w) : i \in {j \in DOMAIN list : list[j].enabled}}

LowestTime(list, w) == Min(Times(list, w) \cup {MaxTime})

DueFirst(list, w) ==
  {i \in DOMAIN list :
     list[i].enabled /\ GetExecutionTime(list[i], w) = LowestTime(list, w)}

\* A faulty Alarm: it does not wake up early to realign itself.
AlarmOnce(d) == IF d = MaxTime \/ d <= 0 THEN Stopped ELSE d

\* "rule execution is now in updateNextExecution, skipping"
Alarm(d) == IF d = MaxTime \/ d <= 0 THEN Stopped ELSE AtMost(d, PeriodSecs)

updateNextExecution(list, w) ==
  /\ due' = LowestTime(list, w)
  /\ nextSet' = DueFirst(list, w)
  /\ timer' = Alarm(due')
  /\ skewed' = FALSE /\ late' = 0
-----------------------------------------------------------------------------
(* Time. *)

\* A second passes, on both clocks; with its time-out come, the timer waits for
\* the main thread.
Tick ==
  /\ timer = 0 => late < MaxLate
  /\ late' = IF timer = 0 THEN late + 1 ELSE late
  /\ wall' = Later(wall)
  /\ due' = Sooner(due)
  /\ timer' = IF timer > 0 THEN timer - 1 ELSE timer
  /\ event' = "time"
  /\ UNCHANGED <<rules, file, nextSet, skewed, loading>>

\* "evetual clock drift": while it runs, a timer may gain a second on the wall
\* clock ...
TimerFast ==
  /\ timer > 0 /\ ~skewed
  /\ timer' = timer - 1
  /\ skewed' = TRUE
  /\ event' = "time"
  /\ UNCHANGED <<wall, rules, file, due, nextSet, late, loading>>

\* ... or lose one.
TimerSlow ==
  /\ timer > 0 /\ ~skewed
  /\ wall' = Later(wall)
  /\ due' = Sooner(due)
  /\ skewed' = TRUE
  /\ event' = "time"
  /\ UNCHANGED <<rules, file, nextSet, timer, late, loading>>
-----------------------------------------------------------------------------
(***************************************************************************)
(* onEndTimerRuleNeedExec.                                                 *)
(***************************************************************************)
\* A faulty CloseEnough: a rule runs whenever the timer wakes up.
CloseEnoughAlways == TRUE

CloseEnough == due <= 1

\* A faulty Rearm: the single-shot timer is not started again.
RearmForgotten == Stopped

\* A faulty Rearm: for the whole period, whatever is left.
RearmPeriod == PeriodSecs

\* The timer is started again for what is left.
Rearm == AtMost(due, PeriodSecs)

Realign ==
  /\ timer = 0
  /\ ~CloseEnough
  /\ timer' = Rearm
  /\ skewed' = FALSE /\ late' = 0
  /\ event' = "realign"
  /\ UNCHANGED <<wall, rules, file, due, nextSet, loading>>

\* The rules run, each under the queue's mutex: the second may be over when the
\* next execution is looked for.
Execute ==
  /\ timer = 0
  /\ CloseEnough
  /\ wall' \in {wall, Later(wall)}
  /\ updateNextExecution(rules, wall')
  /\ event' = IF \E i \in nextSet : rules[i].enabled THEN "run" ELSE "realign"
  /\ UNCHANGED <<rules, file, loading>>
-----------------------------------------------------------------------------
(***************************************************************************)
(* The rules change.                                                       *)
(***************************************************************************)
\* SetProperty(RULES): Deserialize, then Save, which may find the file not
\* writable.
Deserialize ==
  /\ rules' \in RuleSets
  /\ updateNextExecution(rules', wall)
  /\ file' \in {file, rules'}
  /\ event' = "config"
  /\ UNCHANGED <<wall, loading>>

\* Reload with another RULES_LOCATION, in the main thread.
Load ==
  /\ file' \in RuleSets
  /\ rules' = file'
  /\ updateNextExecution(rules', wall)
  /\ event' = "config"
  /\ UNCHANGED <<wall, loading>>

\* The file cannot be read: the rules are cleared, and that is all.
LoadFails ==
  /\ rules' = <<>> /\ nextSet' = {}
  /\ event' = "config"
  /\ UNCHANGED <<wall, file, due, timer, skewed, late, loading>>

\* The worker begins to load the rules file (run, at each start of the service):
\* it clears the rules ...
WorkerClears ==
  /\ ~loading
  /\ loading' = TRUE
  /\ rules' = <<>> /\ nextSet' = {}
  /\ event' = "config"
  /\ UNCHANGED <<wall, file, due, timer, skewed, late>>

\* ... and then reads them.  A timer is not to be started from another thread:
\* with a debug Qt, or with no event dispatcher yet, it stays stopped.
WorkerLoads ==
  /\ loading
  /\ loading' = FALSE
  /\ rules' = file
  /\ due' = LowestTime(file, wall)
  /\ nextSet' = DueFirst(file, wall)
  /\ timer' \in {Alarm(due'), Stopped}
  /\ skewed' = FALSE /\ late' = 0
  /\ event' = "config"
  /\ UNCHANGED <<wall, file>>

\* Or finds no file to read.
WorkerFails ==
  /\ loading
  /\ loading' = FALSE
  /\ event' = "config"
  /\ UNCHANGED <<wall, rules, file, due, nextSet, timer, skewed, late>>

Next ==
  \/ Tick \/ TimerFast \/ TimerSlow
  \/ Realign \/ Execute
  \/ Deserialize \/ Load \/ LoadFails
  \/ WorkerClears \/ WorkerLoads \/ WorkerFails

Spec == Init /\ [][Next]_vars

\* Time passes, and the event loop of the main thread delivers a time-out.
Fairness == WF_vars(Tick) /\ WF_vars(Realign \/ Execute)

FairSpec == Spec /\ Fairness
-----------------------------------------------------------------------------
(***************************************************************************)
(* Properties.                                                             *)
(***************************************************************************)
Armed == timer # Stopped /\ nextSet # {}

(* The types of the variables. *)
TypeOK ==
  /\ wall \in Instants
  /\ rules \in RuleSets /\ file \in RuleSets
  /\ due \in Dues
  /\ nextSet \subseteq DOMAIN rules
  /\ timer \in {Stopped} \cup 0 .. PeriodSecs
  /\ skewed \in BOOLEAN /\ late \in 0 .. MaxLate /\ loading \in BOOLEAN
  /\ event \in Events

(* However long the timer has been running and re-arming itself, the rules  *)
(* in line are enabled and occur at the moment it is set for: across        *)
(* midnight, the end of the week and the repeats of a rule.                 *)
NextInLineOccur ==
  Armed => \A i \in nextSet :
             rules[i].enabled /\ Occurs(rules[i], wall + due)

(* The repeats of a rule do not last longer than a day: "Repeat this rule x  *)
(* times that day" (rules.ui); nothing in the code sees to it.               *)
WithinADay(r) == r.times * r.every <= SecsInDay

(* No enabled rule begins between now and the moment the timer is set for,  *)
(* unless its repeats last longer than a day: while the timer is set for    *)
(* such a repeat, the beginning of the next day is passed over.             *)
NothingPassedOver ==
  Armed => \A i \in DOMAIN rules :
             rules[i].enabled /\ WithinADay(rules[i]) =>
               \A t \in 1 .. due - 1 : ~Begins(rules[i], wall + t)

(* The timer never sleeps past the moment it is set for, but for the second *)
(* it may lose since it was last started and the time for which the main    *)
(* thread has been keeping it waiting.                                      *)
WakesInTime ==
  timer # Stopped => timer <= due + late + (IF skewed THEN 1 ELSE 0)

(* A timer that runs waits for a rule: never is not a moment.               *)
WaitsForSomething == timer # Stopped => due # MaxTime

(* What every step preserves: how long the timer may still sleep, and what   *)
(* it waits for.                                                            *)
LineInv == TypeOK /\ WakesInTime /\ WaitsForSomething /\ NextInLineOccur /\ NothingPassedOver

(* Rules run at most a second before their time, and at most MaxLate (the   *)
(* time for which the main thread is busy) and a second after it.           *)
RunsOnTime ==
  [][ event' = "run" => due \in (-MaxLate - 1) .. 1 ]_vars

(* A rule in line with the timer running runs, unless the rules are         *)
(* replaced first: no realignment loses it.                                 *)
NextInLineRuns == Armed ~> event \in {"run", "config"}

(* "Fix rules could stop after first exec." (debian/changelog, 0.6.3): when *)
(* rules have run and there are rules to come, the timer is armed again.    *)
KeepsRunning ==
  [][ event' = "run" /\ (\E i \in DOMAIN rules : rules[i].enabled /\ rules[i].days # {})
        => timer' # Stopped ]_vars

(* What is left of that: neither time nor a realignment nor an execution    *)
(* stops the timer while there are rules to come, unless the next of them   *)
(* is due in the very second in which the others have run.                  *)
RulesToCome == \E i \in DOMAIN rules : rules[i].enabled /\ rules[i].days # {}

StopsOnlyAtOnce ==
  [][ event' \in {"time", "realign", "run"} /\ timer # Stopped /\ RulesToCome
        => timer' # Stopped \/ due' = 0 ]_vars
=============================================================================
