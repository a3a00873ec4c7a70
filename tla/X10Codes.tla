------------------------------- MODULE X10Codes -------------------------------
(***************************************************************************)
(* The codes of X10 and the frames made of them: controller/x10core/       *)
(* x10codes.cpp and the frames that x10plugin-libusb.cpp builds and takes  *)
(* apart, or the kernel driver for x10plugin-driver.cpp.  A code, and a    *)
(* byte of a frame, is the set of its bits that are 1; the bytes that      *)
(* repeat another one complemented are left out.                           *)
(***************************************************************************)
EXTENDS Integers, Sequences

CONSTANT Beyond  \* what may be read just before the first element of UnitCodeLut

Nibble   == 4 .. 7
Byte     == 0 .. 7
CodeBits == 0 .. 10

ASSUME BeyondAssumption == Beyond \subseteq SUBSET CodeBits /\ Beyond # {}

Letters     == {"A", "B", "C", "D", "E", "F", "G", "H",
                "I", "J", "K", "L", "M", "N", "O", "P"}
UnitNumbers == 1 .. 16

HouseCodeLut ==
  [A |-> {5, 6}, B |-> {4, 5, 6}, C |-> {6},    D |-> {4, 6},
   E |-> {7},    F |-> {4, 7},    G |-> {5, 7}, H |-> {4, 5, 7},
   I |-> {5, 6, 7}, J |-> {4, 5, 6, 7}, K |-> {6, 7}, L |-> {4, 6, 7},
   M |-> {},     N |-> {4},       O |-> {5},    P |-> {4, 5}]

UnitCodeLut ==
  <<{},   {4},     {3},     {3, 4},     {6},     {4, 6},     {3, 6},     {3, 4, 6},
    {10}, {4, 10}, {3, 10}, {3, 4, 10}, {6, 10}, {4, 6, 10}, {3, 6, 10}, {3, 4, 6, 10}>>

\* "MOVE" is any of the camera commands.
CommandNames == {"ON", "OFF", "DIM", "BRIGHT", "MOVE"}

CmdCode == [ON |-> {}, OFF |-> {5}, DIM |-> {3, 4, 7}, BRIGHT |-> {3, 7}]

Bit(b, code, weight) == IF b \in code THEN weight ELSE 0

\* Shifts and masks of single bits; the weight of 8 is taken from bit 2.
unit_code_to_int(code) ==
  1 + Bit(2, code, 8) + Bit(6, code, 4) + Bit(3, code, 2) + Bit(4, code, 1)

\* The index is not checked: 0 reads in front of the table.
int_to_unit_code(n) == IF n = 0 THEN Beyond ELSE {UnitCodeLut[n]}
-----------------------------------------------------------------------------
(* Frames.  Camera frames differ by house only, as far as anybody cares.   *)

Command(op, house, unit) == [op |-> op, house |-> house, unit |-> unit]

Frame(pan, first, second) == [pan |-> pan, first |-> first, second |-> second]

\* What is sent for a command and the code of a unit.
x10_transmit_cmd(op, house, code) ==
  IF op = "MOVE" THEN Frame(TRUE, HouseCodeLut[house], {})
  ELSE Frame(FALSE,
             {b \in Byte : b + 8 \in code} \cup HouseCodeLut[house],
             (code \cap Byte) \cup CmdCode[op])

\* The line that the driver plug-in writes to the device file: the letters of the
\* command and the house, and the number of the unit.
X10Plugin_driver_send(op, house, code) == Command(op, house, unit_code_to_int(code))

\* The kernel driver looks the unit up in its own table; a number out of bounds
\* makes no command.
new_x10_ha_command(line) ==
  {UnitCodeLut[n] : n \in {line.unit} \cap UnitNumbers}

\* The frames it sends for a line, one or none.
devf_write(line) ==
  {x10_transmit_cmd(line.op, line.house, code) : code \in new_x10_ha_command(line)}

Nothing == [op |-> "NONE"]

\* What is made of a frame (of no camera) that is on the air.  The prefix is read
\* into the buffer and the rest over it again, so that the bytes looked at are the
\* complements of the ones meant: buf1 that of the first, buf3 that of the second.
\* A transfer that fails, an unknown prefix or too few repeats give nothing.
x10_recv(frame) ==
  LET buf1     == Byte \ frame.first
      buf3     == Byte \ frame.second
      unitCode == {b \in 8 .. 11 : b - 8 \in buf1} \cup (buf3 \ {5})
  IN  {Nothing,
       Command(IF 5 \in buf3 THEN "OFF" ELSE "ON",
               CHOOSE h \in Letters : HouseCodeLut[h] = buf1 \cap Nibble,
               unit_code_to_int(unitCode))}
-----------------------------------------------------------------------------
(* The frames that the transceivers of the house know, and what they mean  *)
(* to them: the list in controller/x10core/x10.txt.                        *)

Listed(op, house, unit) ==
  IF op \in {"DIM", "BRIGHT"}
  THEN Frame(FALSE, HouseCodeLut[house], CmdCode[op])
  ELSE Frame(FALSE,
             HouseCodeLut[house] \cup {b \in {2} : unit > 8},
             {b \in {6} : ((unit - 1) \div 4) % 2 = 1}
               \cup {b \in {3} : ((unit - 1) \div 2) % 2 = 1}
               \cup {b \in {4} : (unit - 1) % 2 = 1}
               \cup CmdCode[op])

\* The number of the unit in an ON or OFF frame.
UnitIn(frame) ==
  1 + Bit(2, frame.first, 8) + Bit(6, frame.second, 4)
    + Bit(3, frame.second, 2) + Bit(4, frame.second, 1)

OpIn(frame) ==
  IF frame.pan THEN "MOVE"
  ELSE IF 7 \notin frame.second THEN IF 5 \in frame.second THEN "OFF" ELSE "ON"
  ELSE IF frame.second = CmdCode["DIM"] THEN "DIM"
  ELSE IF frame.second = CmdCode["BRIGHT"] THEN "BRIGHT"
  ELSE "UNKNOWN"
=============================================================================
