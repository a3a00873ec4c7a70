---------------------------- MODULE DimmingProofs ----------------------------
(***************************************************************************)
(* What the brightness arithmetic guarantees for every MaxValue.           *)
(***************************************************************************)
EXTENDS Dimming, TLAPS

(* What each single command does to a level. *)
LEMMA AppliedCases ==
  ASSUME NEW v
  PROVE  /\ Applied(v, "ON") = IF v = Off THEN MaxValue ELSE v
         /\ Applied(v, "OFF") = Off
         /\ Applied(v, "DIM") = Softer(v)
         /\ Applied(v, "BRIGHT") = Brighter(v)
         /\ Applied(v, "MOVE") = v
  BY DEF Applied

(* Sending any command leaves a level in -1..MAX_VALUE: the switch of      *)
(* QueueManager::run never drives a Container out of range.                *)
THEOREM AppliedInRange ==
  ASSUME NEW v \in Levels, NEW op \in SentOps
  PROVE  Applied(v, op) \in Levels
<1> USE MaxValueAssumption DEF Levels, Off
<1>1. Softer(v) \in Levels
  BY DEF Softer
<1>2. Brighter(v) \in Levels
  BY DEF Brighter
<1>3. QED
  BY <1>1, <1>2, AppliedCases DEF SentOps, LevelOps

(* A command sent from here and the same command heard from a remote leave *)
(* the same level: two stations that listen to each other agree.           *)
THEOREM SentAsHeard ==
  ASSUME NEW v \in Levels, NEW op \in SentOps
  PROVE  Applied(v, op) = Heard(v, op)
<1> USE MaxValueAssumption DEF Levels, Off
<1>1. CASE op = "ON"
  BY <1>1, AppliedCases DEF Heard, SetOn
<1>2. CASE op = "OFF"
  BY <1>2, AppliedCases DEF Heard, SetOn
<1>3. CASE op = "DIM"
  BY <1>3, AppliedCases DEF Heard, Softer, PushDirection
<1>4. CASE op = "BRIGHT"
  BY <1>4, AppliedCases DEF Heard, Brighter, PushDirection
<1>5. CASE op = "MOVE"
  BY <1>5, AppliedCases DEF Heard
<1>6. QED
  BY <1>1, <1>2, <1>3, <1>4, <1>5 DEF SentOps, LevelOps

(* The null command and a count of zero go together, and no count is        *)
(* negative: the loop's tests on nbSteps and on the pointer agree.          *)
THEOREM StepsCount ==
  ASSUME NEW cur \in Levels, NEW target \in Levels
  PROVE  /\ GetNextCommand(cur, target).steps \in Nat
         /\ GetNextCommand(cur, target).op \in LevelOps \cup {"NONE"}
         /\ GetNextCommand(cur, target).steps = 0
              <=> GetNextCommand(cur, target).op = "NONE"
         /\ GetNextCommand(cur, target).op = "NONE" => cur = target
  BY MaxValueAssumption DEF Levels, Off, Emit, LevelOps,
     GetNextCommand, Plainly, Around, Shortcut

(* Every command GetNextCommand produces for a SET brings the level exactly *)
(* one command closer to the target, the off/on shortcut included: a SET    *)
(* always comes to an end.                                                  *)
THEOREM SetStepCloser ==
  ASSUME NEW cur \in Levels, NEW target \in Levels, cur # target
  PROVE  Distance(Applied(cur, GetNextCommand(cur, target).op), target)
           = Distance(cur, target) - 1
<1> DEFINE op == GetNextCommand(cur, target).op
<1> USE MaxValueAssumption DEF Levels, Off, Distance, FromOff, Around, Shortcut
<1>1. CASE target = Off
  <2>1. op = "OFF"
    BY <1>1 DEF GetNextCommand, Plainly, Around, Shortcut, Emit
  <2>2. QED
    BY <1>1, <2>1, AppliedCases
<1>2. CASE target # Off /\ cur = Off
  <2>1. CASE target = MaxValue
    <3>1. op = "ON"
      BY <1>2, <2>1 DEF GetNextCommand, Plainly, Around, Shortcut, Emit
    <3>2. QED
      BY <1>2, <2>1, <3>1, AppliedCases
  <2>2. CASE target # MaxValue
    <3>1. op = "DIM"
      BY <1>2, <2>2 DEF GetNextCommand, Plainly, Around, Shortcut, Emit
    <3>2. Applied(cur, op) = MaxValue - 1
      BY <1>2, <3>1, AppliedCases DEF Softer
    <3>3. QED
      BY <1>2, <2>2, <3>2
  <2>3. QED
    BY <2>1, <2>2
<1>3. CASE target # Off /\ cur # Off /\ cur > target
  <2>1. op = "DIM"
    BY <1>3 DEF GetNextCommand, Plainly, Around, Shortcut, Emit
  <2>2. Applied(cur, op) = cur - 1
    BY <1>3, <2>1, AppliedCases DEF Softer
  <2>3. QED
    BY <1>3, <2>2
<1>4. CASE target # Off /\ cur # Off /\ cur < target
  <2>1. CASE target - cur > 2 + MaxValue - target
    <3>1. op = "OFF"
      BY <1>4, <2>1 DEF GetNextCommand, Plainly, Around, Shortcut, Emit
    <3>2. QED
      BY <1>4, <2>1, <3>1, AppliedCases
  <2>2. CASE ~(target - cur > 2 + MaxValue - target)
    <3>1. op = "BRIGHT"
      BY <1>4, <2>2 DEF GetNextCommand, Plainly, Around, Shortcut, Emit
    <3>2. Applied(cur, op) = cur + 1
      BY <1>4, <3>1, AppliedCases DEF Brighter
    <3>3. QED
      BY <1>4, <2>2, <3>2
  <2>3. QED
    BY <2>1, <2>2
<1>5. QED
  BY <1>1, <1>2, <1>3, <1>4

(* GetNextCommand announces a single step only when that step lands on the  *)
(* target: QueueManager::run never drops a SET before it is reached.        *)
THEOREM LastStepLands ==
  ASSUME NEW cur \in Levels, NEW target \in Levels,
         GetNextCommand(cur, target).steps = 1
  PROVE  Applied(cur, GetNextCommand(cur, target).op) = target
<1> DEFINE op == GetNextCommand(cur, target).op
<1> USE MaxValueAssumption DEF Levels, Off
<1>1. CASE target = Off
  <2>1. op = "OFF"
    BY <1>1 DEF GetNextCommand, Plainly, Around, Shortcut, Emit
  <2>2. QED
    BY <1>1, <2>1, AppliedCases
<1>2. CASE target # Off /\ cur = Off
  <2>1. op = "ON" /\ target = MaxValue
    BY <1>2 DEF GetNextCommand, Plainly, Around, Shortcut, Emit
  <2>2. QED
    BY <1>2, <2>1, AppliedCases
<1>3. CASE target # Off /\ cur # Off
  <2>1. \/ op = "DIM" /\ cur - target = 1
        \/ op = "BRIGHT" /\ target - cur = 1
    BY <1>3 DEF GetNextCommand, Plainly, Around, Shortcut, Emit
  <2>2. CASE op = "DIM" /\ cur - target = 1
    BY <1>3, <2>2, AppliedCases DEF Softer
  <2>3. CASE op = "BRIGHT" /\ target - cur = 1
    BY <1>3, <2>3, AppliedCases DEF Brighter
  <2>4. QED
    BY <2>1, <2>2, <2>3
<1>4. QED
  BY <1>1, <1>2, <1>3
-----------------------------------------------------------------------------
(* The fewest commands that bring a lamp from cur to target: step by step,  *)
(* or by way of off.                                                        *)
Shortest(cur, target) ==
  IF cur = target THEN 0
  ELSE IF target = Off THEN 1
  ELSE IF cur = Off THEN FromOff(target)
  ELSE IF cur > target THEN cur - target
  ELSE IF target - cur <= 1 + FromOff(target) THEN target - cur
  ELSE 1 + FromOff(target)

(* It is the fewest: whatever is sent, at most one is saved ...             *)
THEOREM NoneShorter ==
  ASSUME NEW cur \in Levels, NEW target \in Levels, NEW op \in SentOps
  PROVE  Shortest(cur, target) <= 1 + Shortest(Applied(cur, op), target)
<1> USE MaxValueAssumption DEF Levels, Off, Shortest, FromOff
<1>1. CASE op = "ON"
  BY <1>1, AppliedCases
<1>2. CASE op = "OFF"
  BY <1>2, AppliedCases
<1>3. CASE op = "DIM"
  BY <1>3, AppliedCases DEF Softer
<1>4. CASE op = "BRIGHT"
  BY <1>4, AppliedCases DEF Brighter
<1>5. CASE op = "MOVE"
  BY <1>5, AppliedCases
<1>6. QED
  BY <1>1, <1>2, <1>3, <1>4, <1>5 DEF SentOps, LevelOps

(* ... and one of the four commands saves it.                               *)
THEOREM SomeCloser ==
  ASSUME NEW cur \in Levels, NEW target \in Levels, cur # target
  PROVE  \E op \in LevelOps :
           Shortest(cur, target) = 1 + Shortest(Applied(cur, op), target)
<1> USE MaxValueAssumption DEF Levels, Off, Shortest, FromOff
<1>1. CASE target = Off
  <2>1. Shortest(cur, target) = 1 + Shortest(Applied(cur, "OFF"), target)
    BY <1>1, AppliedCases
  <2>2. QED
    BY <2>1 DEF LevelOps
<1>2. CASE target # Off /\ cur = Off /\ target = MaxValue
  <2>1. Shortest(cur, target) = 1 + Shortest(Applied(cur, "ON"), target)
    BY <1>2, AppliedCases
  <2>2. QED
    BY <2>1 DEF LevelOps
<1>3. CASE target # Off /\ ((cur = Off /\ target # MaxValue) \/ cur > target)
  <2>1. Shortest(cur, target) = 1 + Shortest(Applied(cur, "DIM"), target)
    BY <1>3, AppliedCases DEF Softer
  <2>2. QED
    BY <2>1 DEF LevelOps
<1>4. CASE cur # Off /\ cur < target /\ target - cur <= 1 + FromOff(target)
  <2>1. Shortest(cur, target) = 1 + Shortest(Applied(cur, "BRIGHT"), target)
    BY <1>4, AppliedCases DEF Brighter
  <2>2. QED
    BY <2>1 DEF LevelOps
<1>5. CASE cur # Off /\ cur < target /\ ~ (target - cur <= 1 + FromOff(target))
  <2>1. Shortest(cur, target) = 1 + Shortest(Applied(cur, "OFF"), target)
    BY <1>5, AppliedCases
  <2>2. QED
    BY <2>1 DEF LevelOps
<1>6. QED
  BY <1>1, <1>2, <1>3, <1>4, <1>5

(* "off - on - down(s) may be faster": a SET takes the fewest commands, or   *)
(* one more where GetNextCommand finds both ways equally long, because it    *)
(* counts an ON on the way around that it never sends.                      *)
THEOREM SetNearlyShortest ==
  ASSUME NEW cur \in Levels, NEW target \in Levels
  PROVE  Distance(cur, target)
           = Shortest(cur, target)
             + (IF /\ cur \notin {Off, target} /\ target \notin {Off, MaxValue}
                   /\ target - cur = Around(target)
                THEN 1 ELSE 0)
BY MaxValueAssumption DEF Levels, Off, Shortest, FromOff, Distance, Around, Shortcut

(* A SET is over after at most MAX_VALUE commands, wherever it starts.       *)
THEOREM SetBounded ==
  ASSUME NEW cur \in Levels, NEW target \in Levels
  PROVE  Distance(cur, target) \in 0 .. MaxValue
BY MaxValueAssumption DEF Levels, Off, FromOff, Distance, Around, Shortcut
=============================================================================
