---------------------------- MODULE X10Controller ----------------------------
(***************************************************************************)
(* The radio controller as the worker of x10_service uses it:              *)
(* controller/x10core/x10controller.cpp over the frames of X10Codes, the   *)
(* lamps of the house that hear them, and the remote controls that share   *)
(* the air.  What the worker makes of a remote (x10_recv of X10Codes)      *)
(* changes nothing here.                                                   *)
(*                                                                         *)
(* A DIM or BRIGHT frame names no unit: it is for the unit of its house    *)
(* that was addressed last.  x10_send therefore remembers the address it   *)
(* sent last and sends an ON first when the next DIM is for another one.   *)
(***************************************************************************)
EXTENDS X10Codes

CONSTANTS
  Houses,     \* houses in use
  Units,      \* units in use
  Ops,        \* commands sent
  RemoteOps   \* commands of remotes

ASSUME X10ControllerAssumption ==
  /\ Houses \subseteq Letters /\ Houses # {}
  /\ Units \subseteq UnitNumbers /\ Units # {}
  /\ Ops \subseteq CommandNames
  /\ RemoteOps \subseteq CommandNames \ {"MOVE"}

VARIABLES
  plugin,       \* m_driver's type
  operational,  \* IsOperational
  last,         \* m_lastHouse and m_lastUnit of the X10Controller there is
  pending,      \* the command for which an ON is being sent first
  selected,     \* lamps: the unit addressed last in each house, 0 for none
  certain,      \* history: the lamps heard the last ON or OFF that this
                \* X10Controller sent, and no other since
  asked,        \* history: the last command transmitted
  frame,        \* history: its frame
  acted         \* history: what the lamps made of it, if they were certain to

lamps == <<selected, certain>>
vars  == <<plugin, operational, last, pending, lamps, asked, frame, acted>>

\* The plug-in that speaks USB, and the one that writes to the device file.
Plugins   == {"LIBUSB", "CM19A_DRV"}
Addresses == Houses \X Units
Junk      == <<"?", 0>>  \* any value that is no address in use
Memory    == Addresses \cup {Junk}
Commands  == [op : Ops \cup {"ON"}, house : Houses, unit : Units]
Effects   == [op : CommandNames \cup {"UNKNOWN"}, house : Houses,
              unit : UnitNumbers \cup {0}]
Frames    == [pan : BOOLEAN, first : SUBSET Byte, second : SUBSET Byte]
None      == [op |-> "NONE"]
NoFrame   == Frame(TRUE, {}, {})

Address(c) == <<c.house, c.unit>>

Init ==
  /\ plugin \in Plugins
  /\ operational = FALSE
  /\ last \in Memory
  /\ pending = None
  /\ selected \in [Houses -> Units \cup {0}]
  /\ certain = FALSE
  /\ asked = None /\ frame = NoFrame /\ acted = None
-----------------------------------------------------------------------------
(***************************************************************************)
(* The lamps of the house.                                                 *)
(***************************************************************************)
Select(f, house) ==
  IF OpIn(f) \in {"ON", "OFF"} THEN [selected EXCEPT ![house] = UnitIn(f)] ELSE selected

\* What a lamp does when it hears a frame.
Acts(f, house) == Command(OpIn(f), house, Select(f, house)[house])
-----------------------------------------------------------------------------
(***************************************************************************)
(* The controller.                                                         *)
(***************************************************************************)
\* X10Controller::Load takes the driver if it has a device file, and may find
\* nothing that works.
Load == plugin' \in Plugins /\ operational' \in BOOLEAN

\* QueueManager makes a new X10Controller each time: the address sent last is what
\* the memory happened to hold.
ControllerLoad ==
  /\ pending = None /\ ~operational
  /\ Load
  /\ last' \in Memory
  /\ certain' = FALSE
  /\ UNCHANGED <<pending, selected, asked, frame, acted>>

\* ... and deletes it.
ControllerUnload ==
  /\ pending = None
  /\ operational' = FALSE
  /\ certain' = FALSE
  /\ UNCHANGED <<plugin, last, pending, selected, asked, frame, acted>>

Relative(op) == op \in {"DIM", "BRIGHT"}

\* A faulty NeedsOn: the house is forgotten.
NeedsOnUnitOnly(c) == Relative(c.op) /\ c.unit # last[2]

\* A faulty NeedsOn: the unit is forgotten.
NeedsOnHouseOnly(c) == Relative(c.op) /\ c.house # last[1]

NeedsOn(c) == Relative(c.op) /\ Address(c) # last

\* "hack": a DIM or BRIGHT carries the code of the unit before.
SentCodes(c) ==
  int_to_unit_code(unit_code_to_int(UnitCodeLut[c.unit]) - (IF Relative(c.op) THEN 1 ELSE 0))

\* A faulty Remembered: the unit is not restored after the hack.
UnitSent(c) == <<c.house, c.unit - (IF Relative(c.op) THEN 1 ELSE 0)>>

Remembered(c) == Address(c)

\* The frames that m_driver->send may make of a command and a code.
SentFrames(c, code) ==
  IF plugin = "LIBUSB" THEN {x10_transmit_cmd(c.op, c.house, code)}
  ELSE devf_write(X10Plugin_driver_send(c.op, c.house, code))

\* One frame; that it may get lost is not looked at.
Transmit(c) ==
  \E code \in SentCodes(c), ok \in BOOLEAN : \E f \in SentFrames(c, code) :
    LET kept == certain /\ (Relative(c.op) \/ Address(c) = last)
    IN  /\ frame' = f /\ asked' = c
        /\ last' = Remembered(c)
        /\ selected' = IF ok THEN Select(f, c.house) ELSE selected
        /\ certain' = (kept \/ (ok /\ OpIn(f) \in {"ON", "OFF"}))
        /\ acted' = IF ok /\ certain' THEN Acts(f, c.house) ELSE None
        /\ UNCHANGED <<plugin, operational>>

\* x10_send, which first sends an ON if need be ...
SendOn ==
  /\ operational /\ pending = None
  /\ \E op \in Ops, h \in Houses, n \in Units :
       LET c == Command(op, h, n)
       IN  /\ NeedsOn(c)
           /\ Transmit(Command("ON", h, n))
           /\ pending' = c

\* ... and waits before it goes on.
SendRest ==
  /\ pending # None
  /\ Transmit(pending)
  /\ pending' = None

Send ==
  /\ operational /\ pending = None
  /\ \E op \in Ops, h \in Houses, n \in Units :
       /\ ~NeedsOn(Command(op, h, n))
       /\ Transmit(Command(op, h, n))
  /\ UNCHANGED pending

\* A remote control, which the lamps hear at any time.  The worker may hear it too,
\* unless it is sending, but that leaves the memory of x10_send alone.
Remote ==
  \E op \in RemoteOps, h \in Houses, n \in Units :
    LET f == Listed(op, h, n)
    IN  /\ selected' = Select(f, h)
        /\ certain' = (certain /\ (h = last[1] /\ ~Relative(op) => n = last[2]))
        /\ UNCHANGED <<plugin, operational, last, pending, asked, frame, acted>>

Next == ControllerLoad \/ ControllerUnload \/ SendOn \/ SendRest \/ Send \/ Remote

Spec == Init /\ [][Next]_vars
-----------------------------------------------------------------------------
(***************************************************************************)
(* Properties.                                                             *)
(***************************************************************************)
(* The types of the variables. *)
TypeOK ==
  /\ plugin \in Plugins
  /\ operational \in BOOLEAN
  /\ last \in Memory
  /\ pending \in Commands \cup {None}
  /\ selected \in [Houses -> UnitNumbers \cup {0}]
  /\ certain \in BOOLEAN
  /\ asked \in Commands \cup {None}
  /\ frame \in Frames
  /\ acted \in Effects \cup {None}

(* The address that x10_send remembers is the one the lamps listen for,     *)
(* from the first ON or OFF on that they hear since the controller was      *)
(* loaded (before it the memory is not initialised), and as long as the one *)
(* sent last was heard, no remote addressed another unit of the house since *)
(* and no camera was moved at another address (which x10_send remembers     *)
(* too).  Units 9 to 16 are those of FramesAsListed.                        *)
MemoryAgrees ==
  certain /\ last[2] <= 8 => selected[last[1]] = last[2]

\* Units for which the code of the unit before adds nothing to a BRIGHT.
Plain(n) == n <= 8 /\ n > 1 /\ UnitCodeLut[n - 1] \subseteq CmdCode["BRIGHT"]

(* A command reaches the unit it is for, and does there what it says,       *)
(* however commands to other units and other houses precede it, if the      *)
(* lamps cannot have missed the address: an ON or OFF of this controller    *)
(* was heard since it was loaded, and what was lost since or said by a      *)
(* remote was for the same unit.                                            *)
ReachesItsUnit ==
  acted # None /\ Plain(asked.unit) /\ asked.op # "MOVE" => acted = asked

(* Every frame sent is the one that controller/x10core/x10.txt lists for    *)
(* the command and the unit.                                                *)
FramesAsListed ==
  asked # None /\ asked.op # "MOVE" =>
    frame = Listed(asked.op, asked.house, asked.unit)

(* What is left of that: commands of the units 1 to 8 are sent as listed,   *)
(* but for a DIM or BRIGHT to which the code of the unit before adds a bit. *)
Spared(c) ==
  c.unit <= 8 /\ (Relative(c.op) =>
                    c.unit > 1 /\ UnitCodeLut[c.unit - 1] \subseteq CmdCode[c.op])

SparedAsListed ==
  asked # None /\ asked.op # "MOVE" /\ Spared(asked) =>
    frame = Listed(asked.op, asked.house, asked.unit)
=============================================================================
