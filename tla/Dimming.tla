------------------------------- MODULE Dimming -------------------------------
(***************************************************************************)
(* The arithmetic of brightness in x10_service: how a tracked level moves  *)
(* when a command is sent (QueueManager::run), how it moves when the same  *)
(* command is heard from a remote control (Container::SetOn and            *)
(* Container::PushDirection), and how a SET is broken into single X10      *)
(* commands (QueueManager::GetNextCommand).  Everything here is a pure     *)
(* operator; CommandQueue puts it to work.                                 *)
(***************************************************************************)
EXTENDS Integers

CONSTANT MaxValue   \* brightest level, MAX_VALUE (7) in common/command.h

ASSUME MaxValueAssumption == MaxValue \in Nat /\ MaxValue >= 1

Off    == -1
Levels == Off .. MaxValue

\* What can be transmitted: a SET never is.  "MOVE" stands for the codes that
\* leave the level alone: pan/tilt (u, d, l, r) and 'i'.
LevelOps == {"ON", "OFF", "DIM", "BRIGHT"}
SentOps  == LevelOps \cup {"MOVE"}
-----------------------------------------------------------------------------
(* The level a unit is taken to have once a command was sent to it. *)

\* A faulty Softer: a unit that is off is dimmed from 0, not from MaxValue.
SofterFromZero(v) == IF v \in {Off, 0} THEN 0 ELSE v - 1

Softer(v) == IF v = Off THEN MaxValue - 1 ELSE IF v = 0 THEN 0 ELSE v - 1

\* A faulty Brighter: nothing stops at the top.
BrighterUncapped(v) == IF v = Off THEN MaxValue ELSE v + 1

Brighter(v) == IF v = Off \/ v >= MaxValue THEN MaxValue ELSE v + 1

Applied(v, op) ==
  [ON     |-> IF v = Off THEN MaxValue ELSE v,
   OFF    |-> Off,
   DIM    |-> Softer(v),
   BRIGHT |-> Brighter(v),
   MOVE   |-> v][op]
-----------------------------------------------------------------------------
(* The level a unit is taken to have once a command to it was heard. *)

SetOn(v, on) == IF ~on THEN Off ELSE IF v = Off THEN MaxValue ELSE v

PushDirection(v, up) ==
  IF v = Off THEN MaxValue - (IF up THEN 0 ELSE 1)
  ELSE IF up /\ v # MaxValue THEN v + 1
  ELSE IF ~up /\ v # 0 THEN v - 1
  ELSE v

Heard(v, op) ==
  [ON     |-> SetOn(v, TRUE),
   OFF    |-> SetOn(v, FALSE),
   BRIGHT |-> PushDirection(v, TRUE),
   DIM    |-> PushDirection(v, FALSE),
   MOVE   |-> v][op]
-----------------------------------------------------------------------------
(* The next single command of a SET to target, and the number of commands  *)
(* the code believes are left; "NONE" is the null command.                 *)

Emit(op, steps) == [op |-> op, steps |-> steps]

\* From above, from off, or step by step from below.
Plainly(cur, target) ==
  IF cur = Off /\ target = MaxValue THEN Emit("ON", 1)
  ELSE IF cur = Off THEN Emit("DIM", 1 + MaxValue - target)
  ELSE IF cur > target THEN Emit("DIM", cur - target)
  ELSE Emit("BRIGHT", target - cur)

\* A faulty Around: the ON is not counted.
AroundShort(target) == 1 + MaxValue - target

\* Off, on, and down from MaxValue.
Around(target) == 2 + MaxValue - target

\* A faulty Shortcut: the way around is taken when it is the longer one.
Detour(cur, target) == cur # Off /\ target > cur /\ target - cur < Around(target)

\* "off - on - down(s) may be faster"
Shortcut(cur, target) == cur # Off /\ target - cur > Around(target)

GetNextCommand(cur, target) ==
  IF target = Off THEN Emit("OFF", 1)
  ELSE IF cur = target THEN Emit("NONE", 0)
  ELSE IF Shortcut(cur, target) THEN Emit("OFF", Around(target))
  ELSE Plainly(cur, target)

(* The number of commands a SET really takes: the variant that shows that a *)
(* SET comes to an end.                                                     *)
FromOff(target) == IF target = MaxValue THEN 1 ELSE MaxValue - target

Distance(cur, target) ==
  IF cur = target THEN 0
  ELSE IF target = Off THEN 1
  ELSE IF cur = Off THEN FromOff(target)
  ELSE IF cur > target THEN cur - target
  ELSE IF Shortcut(cur, target) THEN 1 + FromOff(target)
  ELSE target - cur
=============================================================================
