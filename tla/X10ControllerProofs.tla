------------------------- MODULE X10ControllerProofs -------------------------
(***************************************************************************)
(* Theorems of X10Controller.                                              *)
(***************************************************************************)
EXTENDS X10Controller, TLAPS

(* The codes of units 1 to 8 are decoded to the units they were made for.   *)
THEOREM UnitCodesInvert ==
  ASSUME NEW n \in 1 .. 8
  PROVE  unit_code_to_int(UnitCodeLut[n]) = n
<1>1. n = 1 \/ n = 2 \/ n = 3 \/ n = 4 \/ n = 5 \/ n = 6 \/ n = 7 \/ n = 8
  OBVIOUS
<1> QED
  BY <1>1 DEF unit_code_to_int, UnitCodeLut, Bit

(* The codes of units 1 to 8 have bits 3, 4 and 6 at most.                  *)
LEMMA LowCodes ==
  ASSUME NEW n \in 1 .. 8
  PROVE  UnitCodeLut[n] \subseteq {3, 4, 6}
<1>1. n = 1 \/ n = 2 \/ n = 3 \/ n = 4 \/ n = 5 \/ n = 6 \/ n = 7 \/ n = 8
  OBVIOUS
<1> QED
  BY <1>1 DEF UnitCodeLut

(* Every unit code is a set of bits, and decodes to a unit from 1 to 8.     *)
LEMMA UnitCodes ==
  ASSUME NEW n \in UnitNumbers
  PROVE  /\ UnitCodeLut[n] \subseteq {3, 4, 6, 10}
         /\ unit_code_to_int(UnitCodeLut[n]) \in 1 .. 8
<1>1. \/ n = 1 \/ n = 2 \/ n = 3 \/ n = 4 \/ n = 5 \/ n = 6 \/ n = 7 \/ n = 8
      \/ n = 9 \/ n = 10 \/ n = 11 \/ n = 12 \/ n = 13 \/ n = 14 \/ n = 15 \/ n = 16
  BY DEF UnitNumbers
<1>2. UnitCodeLut[n] \subseteq {3, 4, 6, 10}
  BY <1>1 DEF UnitCodeLut
<1>3. unit_code_to_int(UnitCodeLut[n]) \in 1 .. 8
  BY <1>2 DEF unit_code_to_int, Bit
<1> QED
  BY <1>2, <1>3

(* House codes only have bits of the upper half of a byte.                  *)
LEMMA HouseCodes ==
  ASSUME NEW h \in Letters
  PROVE  HouseCodeLut[h] \subseteq Nibble
BY DEF HouseCodeLut, Letters, Nibble

(* Every code that x10_send may put in a frame is a set of bits.            *)
LEMMA SentCodesAreBits ==
  ASSUME NEW c, c.unit \in UnitNumbers, NEW code \in SentCodes(c)
  PROVE  code \subseteq CodeBits
<1> DEFINE n == unit_code_to_int(UnitCodeLut[c.unit]) - (IF Relative(c.op) THEN 1 ELSE 0)
<1>1. n \in 0 .. 8
  BY UnitCodes
<1>2. CASE n = 0
  BY <1>2, BeyondAssumption DEF SentCodes, int_to_unit_code
<1>3. CASE n # 0
  <2>1. n \in UnitNumbers
    BY <1>1, <1>3 DEF UnitNumbers
  <2>2. code = UnitCodeLut[n]
    BY <1>3 DEF SentCodes, int_to_unit_code
  <2> HIDE DEF n
  <2>3. UnitCodeLut[n] \subseteq {3, 4, 6, 10}
    BY <2>1, UnitCodes
  <2> QED
    BY <2>2, <2>3 DEF CodeBits
<1> QED
  BY <1>2, <1>3

(* The code that is on the air: through the device file it is that of the   *)
(* unit that the code sent was decoded to.                                  *)
Carried(code) ==
  IF plugin = "LIBUSB" THEN code ELSE UnitCodeLut[unit_code_to_int(code)]

(* Both plug-ins make one frame of a command.                               *)
LEMMA OneFrame ==
  ASSUME NEW c, NEW code
  PROVE  SentFrames(c, code) = {x10_transmit_cmd(c.op, c.house, Carried(code))}
<1>1. CASE plugin = "LIBUSB"
  BY <1>1 DEF SentFrames, Carried
<1>2. CASE plugin # "LIBUSB"
  <2> DEFINE n == unit_code_to_int(code)
             line == X10Plugin_driver_send(c.op, c.house, code)
  <2>1. n \in UnitNumbers
    BY DEF unit_code_to_int, Bit, UnitNumbers
  <2>2. line.op = c.op /\ line.house = c.house /\ line.unit = n
    BY DEF X10Plugin_driver_send, Command
  <2>3. Carried(code) = UnitCodeLut[n]
    BY <1>2 DEF Carried
  <2>4. SentFrames(c, code) = devf_write(line)
    BY <1>2 DEF SentFrames
  <2> HIDE DEF n, line
  <2>5. new_x10_ha_command(line) = {UnitCodeLut[n]}
    BY <2>1, <2>2 DEF new_x10_ha_command
  <2>6. devf_write(line) = {x10_transmit_cmd(c.op, c.house, UnitCodeLut[n])}
    BY <2>2, <2>5 DEF devf_write
  <2> QED
    BY <2>3, <2>4, <2>6
<1> QED
  BY <1>1, <1>2

(* The code of one of the units 1 to 8 is carried as it is.                 *)
LEMMA CarriedCode ==
  ASSUME NEW n \in 1 .. 8
  PROVE  Carried(UnitCodeLut[n]) = UnitCodeLut[n]
BY UnitCodesInvert DEF Carried

(* Every code on the air is a set of bits.                                  *)
LEMMA CarriedBits ==
  ASSUME NEW code, code \subseteq CodeBits
  PROVE  Carried(code) \subseteq CodeBits
<1>1. unit_code_to_int(code) \in UnitNumbers
  BY DEF unit_code_to_int, Bit, UnitNumbers
<1>2. UnitCodeLut[unit_code_to_int(code)] \subseteq {3, 4, 6, 10}
  BY <1>1, UnitCodes
<1>3. {3, 4, 6, 10} \subseteq CodeBits
  BY DEF CodeBits
<1> QED
  BY <1>2, <1>3 DEF Carried

(* The code sent with an ON or OFF to one of the units 1 to 8 is its own.   *)
LEMMA SentCodeOfAddress ==
  ASSUME NEW c, c.unit \in 1 .. 8, ~Relative(c.op), NEW code \in SentCodes(c)
  PROVE  code = UnitCodeLut[c.unit]
<1>1. unit_code_to_int(UnitCodeLut[c.unit]) = c.unit
  BY UnitCodesInvert
<1> QED
  BY <1>1 DEF SentCodes, int_to_unit_code

(* An ON or OFF frame with the code of one of the units 1 to 8 addresses    *)
(* that unit.                                                               *)
LEMMA AddressFrame ==
  ASSUME NEW op \in {"ON", "OFF"}, NEW h \in Letters, NEW n \in 1 .. 8
  PROVE  LET f == x10_transmit_cmd(op, h, UnitCodeLut[n])
         IN  OpIn(f) = op /\ UnitIn(f) = n
<1> DEFINE code == UnitCodeLut[n]
           f == x10_transmit_cmd(op, h, code)
<1>1. code \subseteq {3, 4, 6} /\ unit_code_to_int(code) = n
  BY LowCodes, UnitCodesInvert
<1>2. HouseCodeLut[h] \subseteq Nibble
  BY HouseCodes
<1> HIDE DEF code
<1>3. /\ f.pan = FALSE
      /\ f.first = {b \in Byte : b + 8 \in code} \cup HouseCodeLut[h]
      /\ f.second = (code \cap Byte) \cup CmdCode[op]
  BY DEF x10_transmit_cmd, Frame
<1>4. CmdCode[op] = IF op = "OFF" THEN {5} ELSE {}
  BY DEF CmdCode
<1>5. 2 \notin f.first
  BY <1>1, <1>2, <1>3 DEF Nibble, Byte
<1>6. /\ 7 \notin f.second
      /\ 5 \in f.second <=> op = "OFF"
      /\ \A b \in {3, 4, 6} : b \in f.second <=> b \in code
  BY <1>1, <1>3, <1>4 DEF Byte
<1> HIDE DEF f
<1>7. OpIn(f) = op
  BY <1>3, <1>6 DEF OpIn
<1>8. UnitIn(f) = unit_code_to_int(code)
  BY <1>1, <1>5, <1>6 DEF UnitIn, unit_code_to_int, Bit
<1> QED
  BY <1>1, <1>7, <1>8 DEF f, code

(* An ON or OFF frame of one of the units 1 to 8, bit by bit.               *)
Addresses8(f, op, h, n) ==
  /\ f.pan = FALSE
  /\ f.first = HouseCodeLut[h]
  /\ f.second \subseteq {3, 4, 5, 6}
  /\ 5 \in f.second <=> op = "OFF"
  /\ 1 + Bit(6, f.second, 4) + Bit(3, f.second, 2) + Bit(4, f.second, 1) = n

(* Such are the ON and OFF frames that x10.txt lists for units 1 to 8.      *)
LEMMA ListedBits ==
  ASSUME NEW op \in {"ON", "OFF"}, NEW h \in Letters, NEW n \in 1 .. 8
  PROVE  Addresses8(Listed(op, h, n), op, h, n)
<1> PICK f : f = Listed(op, h, n)
  OBVIOUS
<1> DEFINE six == ((n - 1) \div 4) % 2
           three == ((n - 1) \div 2) % 2
           four == (n - 1) % 2
<1>1. /\ f.pan = FALSE
      /\ f.first = HouseCodeLut[h] \cup {b \in {2} : n > 8}
      /\ f.second = {b \in {6} : six = 1} \cup {b \in {3} : three = 1}
                      \cup {b \in {4} : four = 1} \cup CmdCode[op]
  BY DEF Listed, Frame
<1>2. CmdCode[op] = IF op = "OFF" THEN {5} ELSE {}
  BY DEF CmdCode
<1>3. n = 1 \/ n = 2 \/ n = 3 \/ n = 4 \/ n = 5 \/ n = 6 \/ n = 7 \/ n = 8
  OBVIOUS
<1>4. /\ six \in {0, 1} /\ three \in {0, 1} /\ four \in {0, 1}
      /\ 1 + 4 * six + 2 * three + four = n
  BY <1>3
<1> HIDE DEF six, three, four
<1>5. f.first = HouseCodeLut[h]
  BY <1>1, <1>3
<1>6. /\ f.second \subseteq {3, 4, 5, 6}
      /\ 5 \in f.second <=> op = "OFF"
      /\ 6 \in f.second <=> six = 1
      /\ 3 \in f.second <=> three = 1
      /\ 4 \in f.second <=> four = 1
  BY <1>1, <1>2
<1>7. 1 + Bit(6, f.second, 4) + Bit(3, f.second, 2) + Bit(4, f.second, 1) = n
  BY <1>4, <1>6 DEF Bit
<1> QED
  BY <1>1, <1>5, <1>6, <1>7 DEF Addresses8

(* So they are ON or OFF of that unit to the lamps ...                      *)
LEMMA ListedFrame ==
  ASSUME NEW op \in {"ON", "OFF"}, NEW h \in Letters, NEW n \in 1 .. 8
  PROVE  OpIn(Listed(op, h, n)) = op /\ UnitIn(Listed(op, h, n)) = n
<1> PICK f : f = Listed(op, h, n)
  OBVIOUS
<1>1. Addresses8(f, op, h, n)
  BY ListedBits
<1>2. 2 \notin f.first
  BY <1>1, HouseCodes DEF Nibble, Addresses8
<1>3. OpIn(f) = op
  BY <1>1 DEF OpIn, Addresses8
<1>4. UnitIn(f) = n
  BY <1>1, <1>2 DEF UnitIn, Bit, Addresses8
<1> QED
  BY <1>3, <1>4

(* The house whose code is the complement of the code of another.           *)
Mirror(h) == CHOOSE g \in Letters : HouseCodeLut[g] = Nibble \ HouseCodeLut[h]

(* Every set of bits of the upper half of a byte is the code of a house.    *)
LEMMA HouseCodesAll ==
  ASSUME NEW h \in Letters
  PROVE  \E g \in Letters : HouseCodeLut[g] = Nibble \ HouseCodeLut[h]
<1> DEFINE other == [A |-> "F", B |-> "E", C |-> "H", D |-> "G", E |-> "B", F |-> "A",
                     G |-> "D", H |-> "C", I |-> "N", J |-> "M", K |-> "P", L |-> "O",
                     M |-> "J", N |-> "I", O |-> "L", P |-> "K"]
<1>1. other[h] \in Letters
  BY DEF Letters
<1>2. \A k \in Letters :
        /\ HouseCodeLut[k] \subseteq {4, 5, 6, 7}
        /\ 4 \in HouseCodeLut[k] <=> k \in {"B", "D", "F", "H", "J", "L", "N", "P"}
        /\ 5 \in HouseCodeLut[k] <=> k \in {"A", "B", "G", "H", "I", "J", "O", "P"}
        /\ 6 \in HouseCodeLut[k] <=> k \in {"A", "B", "C", "D", "I", "J", "K", "L"}
        /\ 7 \in HouseCodeLut[k] <=> k \in {"E", "F", "G", "H", "I", "J", "K", "L"}
  BY DEF HouseCodeLut, Letters
<1>3. \A b \in {4, 5, 6, 7} : b \in HouseCodeLut[other[h]] <=> b \notin HouseCodeLut[h]
  BY <1>2 DEF Letters
<1>4. HouseCodeLut[other[h]] = {4, 5, 6, 7} \ HouseCodeLut[h]
  BY <1>1, <1>2, <1>3
<1>5. Nibble = {4, 5, 6, 7}
  BY DEF Nibble
<1> QED
  BY <1>1, <1>4, <1>5

(* x10_recv looks at the complements of the bytes meant                     *)
(* (x10plugin-libusb.cpp:237, 265 and 327-329): it takes an ON of one of    *)
(* the units 1 to 8 for an OFF of a unit from 16 down to 9 in another       *)
(* house, and an OFF for an ON of it, or gives nothing.                     *)
THEOREM HeardInverted ==
  ASSUME NEW op \in {"ON", "OFF"}, NEW h \in Letters, NEW n \in 1 .. 8
  PROVE  x10_recv(Listed(op, h, n)) =
           {Nothing, Command(IF op = "ON" THEN "OFF" ELSE "ON", Mirror(h), 17 - n)}
<1> PICK f : f = Listed(op, h, n)
  OBVIOUS
<1> DEFINE buf1 == Byte \ f.first
           buf3 == Byte \ f.second
           unitCode == {b \in 8 .. 11 : b - 8 \in buf1} \cup (buf3 \ {5})
<1>1. Addresses8(f, op, h, n)
  BY ListedBits
<1>2. buf1 \cap Nibble = Nibble \ HouseCodeLut[h]
  BY <1>1 DEF Addresses8, Nibble, Byte
<1>3. (CHOOSE k \in Letters : HouseCodeLut[k] = buf1 \cap Nibble) = Mirror(h)
  BY <1>2 DEF Mirror
<1>4. /\ 2 \in unitCode
      /\ \A b \in {3, 4, 6} : b \in unitCode <=> b \notin f.second
  BY <1>1 DEF Byte, Addresses8
<1>5. unit_code_to_int(unitCode) = 17 - n
  <2>1. unit_code_to_int(unitCode) =
          9 + Bit(6, unitCode, 4) + Bit(3, unitCode, 2) + Bit(4, unitCode, 1)
    BY <1>4 DEF unit_code_to_int, Bit
  <2>2. 1 + Bit(6, f.second, 4) + Bit(3, f.second, 2) + Bit(4, f.second, 1) = n
    BY <1>1 DEF Addresses8
  <2> HIDE DEF unitCode
  <2> QED
    BY <1>4, <2>1, <2>2 DEF Bit
<1>6. (IF 5 \in buf3 THEN "OFF" ELSE "ON") = IF op = "ON" THEN "OFF" ELSE "ON"
  BY <1>1 DEF Addresses8, Byte
<1> QED
  BY <1>3, <1>5, <1>6 DEF x10_recv

(* Nor is a DIM or BRIGHT ever heard (x10plugin-libusb.cpp:329): those of a *)
(* remote are taken for an OFF, of unit 13 and of unit 14.                  *)
THEOREM DimHeardAsOff ==
  ASSUME NEW h \in Letters, NEW n
  PROVE  /\ x10_recv(Listed("DIM", h, n)) = {Nothing, Command("OFF", Mirror(h), 13)}
         /\ x10_recv(Listed("BRIGHT", h, n)) = {Nothing, Command("OFF", Mirror(h), 14)}
<1>1. ASSUME NEW op \in {"DIM", "BRIGHT"}
      PROVE  x10_recv(Listed(op, h, n)) =
               {Nothing, Command("OFF", Mirror(h), IF op = "DIM" THEN 13 ELSE 14)}
  <2> PICK f : f = Listed(op, h, n)
    OBVIOUS
  <2> DEFINE buf1 == Byte \ f.first
             buf3 == Byte \ f.second
             unitCode == {b \in 8 .. 11 : b - 8 \in buf1} \cup (buf3 \ {5})
  <2>1. f.first = HouseCodeLut[h] /\ f.second = IF op = "DIM" THEN {3, 4, 7} ELSE {3, 7}
    BY DEF Listed, Frame, CmdCode
  <2>2. buf1 \cap Nibble = Nibble \ HouseCodeLut[h]
    BY <2>1 DEF Nibble, Byte
  <2>3. (CHOOSE k \in Letters : HouseCodeLut[k] = buf1 \cap Nibble) = Mirror(h)
    BY <2>2 DEF Mirror
  <2>4. /\ 2 \in unitCode /\ 6 \in unitCode /\ 3 \notin unitCode
        /\ 4 \in unitCode <=> op = "BRIGHT"
    BY <2>1 DEF Byte
  <2>5. unit_code_to_int(unitCode) = IF op = "DIM" THEN 13 ELSE 14
    BY <2>4 DEF unit_code_to_int, Bit
  <2>6. (IF 5 \in buf3 THEN "OFF" ELSE "ON") = "OFF"
    BY <2>1 DEF Byte
  <2> QED
    BY <2>3, <2>5, <2>6 DEF x10_recv
<1> QED
  BY <1>1
-----------------------------------------------------------------------------
(***************************************************************************)
(* Types.                                                                  *)
(***************************************************************************)
(* What a frame is to the lamps.                                            *)
LEMMA Understood ==
  ASSUME NEW f
  PROVE  OpIn(f) \in CommandNames \cup {"UNKNOWN"} /\ UnitIn(f) \in UnitNumbers
<1>1. OpIn(f) \in CommandNames \cup {"UNKNOWN"}
  BY DEF OpIn, CommandNames
<1>2. UnitIn(f) \in UnitNumbers
  BY DEF UnitIn, Bit, UnitNumbers
<1> QED
  BY <1>1, <1>2

(* Frames are bytes of bits.                                                *)
LEMMA FramesTyped ==
  ASSUME NEW op \in CommandNames, NEW h \in Letters, NEW code \in SUBSET CodeBits
  PROVE  x10_transmit_cmd(op, h, code) \in Frames
<1>1. HouseCodeLut[h] \subseteq Byte
  BY HouseCodes DEF Nibble, Byte
<1>2. CASE op = "MOVE"
  BY <1>1, <1>2 DEF x10_transmit_cmd, Frame, Frames
<1>3. CASE op # "MOVE"
  <2>1. CmdCode[op] \subseteq Byte
    BY <1>3 DEF CommandNames, CmdCode, Byte
  <2> QED
    BY <1>1, <1>3, <2>1 DEF x10_transmit_cmd, Frame, Frames
<1> QED
  BY <1>2, <1>3

(* The steps of x10_send that put a frame on the air keep the types.        *)
LEMMA TransmitTyped ==
  ASSUME TypeOK, NEW c \in Commands, Transmit(c)
  PROVE  /\ operational' \in BOOLEAN
         /\ last' \in Memory
         /\ selected' \in [Houses -> UnitNumbers \cup {0}]
         /\ certain' \in BOOLEAN
         /\ asked' \in Commands \cup {None}
         /\ frame' \in Frames
         /\ acted' \in Effects \cup {None}
         /\ plugin' \in Plugins
<1> PICK code \in SentCodes(c), ok \in BOOLEAN :
      LET f == x10_transmit_cmd(c.op, c.house, Carried(code))
          kept == certain /\ (Relative(c.op) \/ Address(c) = last)
      IN  /\ frame' = f /\ asked' = c
          /\ last' = Address(c)
          /\ selected' = IF ok THEN Select(f, c.house) ELSE selected
          /\ certain' = (kept \/ (ok /\ OpIn(f) \in {"ON", "OFF"}))
          /\ acted' = IF ok /\ certain' THEN Acts(f, c.house) ELSE None
          /\ UNCHANGED <<plugin, operational>>
  BY OneFrame DEF Transmit, Remembered
<1> DEFINE f == x10_transmit_cmd(c.op, c.house, Carried(code))
<1>1. c.op \in CommandNames /\ c.house \in Houses /\ c.unit \in Units
  BY X10ControllerAssumption DEF Commands, CommandNames
<1>2. c.house \in Letters /\ c.unit \in UnitNumbers
  BY <1>1, X10ControllerAssumption
<1>3. Carried(code) \subseteq CodeBits
  BY <1>2, SentCodesAreBits, CarriedBits
<1>4. f \in Frames
  BY <1>1, <1>2, <1>3, FramesTyped
<1> HIDE DEF f
<1>5. Select(f, c.house) \in [Houses -> UnitNumbers \cup {0}]
  BY <1>1, Understood DEF TypeOK, Select
<1>6. Acts(f, c.house) \in Effects
  BY <1>1, <1>5, Understood DEF Acts, Command, Effects
<1>7. certain' \in BOOLEAN
  BY DEF TypeOK
<1> QED
  BY <1>1, <1>4, <1>5, <1>6, <1>7 DEF TypeOK, f, Address, Addresses, Memory

(* The variables keep their types, for all houses, units and commands, and  *)
(* whatever is in front of the table of unit codes (TypeOK).                *)
THEOREM TypeCorrect == Spec => []TypeOK
<1>1. Init => TypeOK
  <2> SUFFICES ASSUME Init PROVE TypeOK
    OBVIOUS
  <2>1. NoFrame \in Frames
    BY DEF NoFrame, Frame, Frames
  <2>2. selected \in [Houses -> UnitNumbers \cup {0}]
    BY X10ControllerAssumption DEF Init
  <2> QED
    BY <2>1, <2>2 DEF Init, TypeOK
<1>2. TypeOK /\ [Next]_vars => TypeOK'
  <2> SUFFICES ASSUME TypeOK, [Next]_vars PROVE TypeOK'
    OBVIOUS
  <2>1. CASE ControllerLoad
    BY <2>1 DEF ControllerLoad, Load, TypeOK
  <2>2. CASE ControllerUnload
    BY <2>2 DEF ControllerUnload, TypeOK
  <2>3. CASE SendOn
    <3> PICK op \in Ops, h \in Houses, n \in Units :
          /\ Transmit(Command("ON", h, n))
          /\ pending' = Command(op, h, n)
      BY <2>3 DEF SendOn
    <3>1. Command("ON", h, n) \in Commands /\ Command(op, h, n) \in Commands
      BY DEF Command, Commands
    <3> QED
      BY <3>1, TransmitTyped DEF TypeOK
  <2>4. CASE SendRest
    <3>1. pending \in Commands /\ Transmit(pending) /\ pending' = None
      BY <2>4 DEF SendRest, TypeOK
    <3> QED
      BY <3>1, TransmitTyped DEF TypeOK
  <2>5. CASE Send
    <3> PICK op \in Ops, h \in Houses, n \in Units : Transmit(Command(op, h, n))
      BY <2>5 DEF Send
    <3>1. Command(op, h, n) \in Commands /\ pending' = pending
      BY <2>5 DEF Send, Command, Commands
    <3> QED
      BY <3>1, TransmitTyped DEF TypeOK
  <2>6. CASE Remote
    <3> PICK op \in RemoteOps, h \in Houses, n \in Units :
          /\ selected' = Select(Listed(op, h, n), h)
          /\ certain' = (certain /\ (h = last[1] /\ ~Relative(op) => n = last[2]))
          /\ UNCHANGED <<plugin, operational, last, pending, asked, frame, acted>>
      BY <2>6 DEF Remote
    <3>1. selected' \in [Houses -> UnitNumbers \cup {0}]
      BY Understood DEF TypeOK, Select
    <3>2. certain' \in BOOLEAN
      BY DEF TypeOK
    <3> QED
      BY <3>1, <3>2 DEF TypeOK
  <2>7. CASE UNCHANGED vars
    BY <2>7 DEF vars, lamps, TypeOK
  <2> QED
    BY <2>1, <2>2, <2>3, <2>4, <2>5, <2>6, <2>7 DEF Next
<1> QED
  BY <1>1, <1>2, PTL DEF Spec
-----------------------------------------------------------------------------
(***************************************************************************)
(* The lamps do what they are told.                                        *)
(***************************************************************************)
(* A DIM or BRIGHT frame addresses no unit.                                 *)
LEMMA RelativeFrame ==
  ASSUME NEW op, Relative(op), NEW h, NEW code
  PROVE  OpIn(x10_transmit_cmd(op, h, code)) \notin {"ON", "OFF"}
<1> PICK f : f = x10_transmit_cmd(op, h, code)
  OBVIOUS
<1>1. f.pan = FALSE /\ f.second = (code \cap Byte) \cup CmdCode[op]
  BY DEF x10_transmit_cmd, Frame, Relative
<1>2. 7 \in CmdCode[op]
  BY DEF Relative, CmdCode
<1> QED
  BY <1>1, <1>2 DEF OpIn

(* The frames of plain units say what they are asked to.                    *)
LEMMA PlainFrame ==
  ASSUME NEW c \in Commands, Plain(c.unit), c.op # "MOVE", NEW code \in SentCodes(c)
  PROVE  OpIn(x10_transmit_cmd(c.op, c.house, Carried(code))) = c.op
<1>1. /\ c.op \in CommandNames /\ c.house \in Letters
      /\ c.unit \in 2 .. 8 /\ c.unit - 1 \in 1 .. 8
  <2>1. c.op \in CommandNames
    BY X10ControllerAssumption DEF Commands, CommandNames
  <2>2. c.house \in Letters /\ c.unit \in UnitNumbers
    BY X10ControllerAssumption DEF Commands
  <2>3. c.unit \in 2 .. 8 /\ c.unit - 1 \in 1 .. 8
    BY <2>2 DEF Plain, UnitNumbers
  <2> QED
    BY <2>1, <2>2, <2>3
<1>2. CASE ~Relative(c.op)
  <2>1. Carried(code) = UnitCodeLut[c.unit]
    BY <1>1, <1>2, SentCodeOfAddress, CarriedCode
  <2>2. c.op \in {"ON", "OFF"}
    BY <1>1, <1>2 DEF CommandNames, Relative
  <2> QED
    BY <1>1, <2>1, <2>2, AddressFrame
<1>3. CASE Relative(c.op)
  <2> PICK f : f = x10_transmit_cmd(c.op, c.house, Carried(code))
    OBVIOUS
  <2>1. unit_code_to_int(UnitCodeLut[c.unit]) = c.unit
    BY <1>1, UnitCodesInvert
  <2>2. code = UnitCodeLut[c.unit - 1] /\ Carried(code) = code
    BY <1>1, <1>3, <2>1, CarriedCode DEF SentCodes, int_to_unit_code
  <2>3. code \subseteq {3, 7} /\ code \subseteq {3, 4, 6}
    BY <1>1, <2>2, LowCodes DEF Plain, CmdCode
  <2>4. f.pan = FALSE /\ f.second = (code \cap Byte) \cup CmdCode[c.op]
    BY <1>3, <2>2 DEF x10_transmit_cmd, Frame, Relative
  <2>5. CmdCode[c.op] = IF c.op = "DIM" THEN {3, 4, 7} ELSE {3, 7}
    BY <1>3 DEF Relative, CmdCode
  <2>6. f.second = CmdCode[c.op]
    BY <2>3, <2>4, <2>5
  <2>7. CmdCode["DIM"] = {3, 4, 7} /\ CmdCode["BRIGHT"] = {3, 7}
    BY DEF CmdCode
  <2> QED
    BY <1>3, <2>4, <2>5, <2>6, <2>7 DEF OpIn, Relative
<1> QED
  BY <1>2, <1>3

(* What a DIM or BRIGHT relies on: it goes to the address sent last.        *)
AddressSent(c) == Relative(c.op) => Address(c) = last

(* One frame keeps the memory of x10_send true.                             *)
LEMMA TransmitAgrees ==
  ASSUME TypeOK, MemoryAgrees, NEW c \in Commands, AddressSent(c), Transmit(c)
  PROVE  MemoryAgrees'
<1> PICK code \in SentCodes(c), ok \in BOOLEAN :
      LET f == x10_transmit_cmd(c.op, c.house, Carried(code))
          kept == certain /\ (Relative(c.op) \/ Address(c) = last)
      IN  /\ last' = Address(c)
          /\ selected' = IF ok THEN Select(f, c.house) ELSE selected
          /\ certain' = (kept \/ (ok /\ OpIn(f) \in {"ON", "OFF"}))
  BY OneFrame DEF Transmit, Remembered
<1> DEFINE f == x10_transmit_cmd(c.op, c.house, Carried(code))
<1>1. c.house \in Houses /\ c.unit \in UnitNumbers /\ c.house \in Letters
      /\ c.op \in CommandNames
  BY X10ControllerAssumption DEF Commands, CommandNames
<1>2. last' = <<c.house, c.unit>>
  BY DEF Address
<1> SUFFICES ASSUME certain', c.unit <= 8 PROVE selected'[c.house] = c.unit
  <2>1. last'[1] = c.house /\ last'[2] = c.unit
    BY <1>2
  <2> HIDE DEF f
  <2> QED
    BY <2>1 DEF MemoryAgrees
<1>3. CASE ok /\ OpIn(f) \in {"ON", "OFF"}
  <2>1. c.unit \in 1 .. 8
    BY <1>1 DEF UnitNumbers
  <2>2. ~Relative(c.op)
    BY <1>3, RelativeFrame
  <2>3. c.op \in {"ON", "OFF"}
    BY <1>1, <1>3, <2>2 DEF CommandNames, Relative, OpIn, x10_transmit_cmd, Frame
  <2>4. Carried(code) = UnitCodeLut[c.unit]
    BY <2>1, <2>2, SentCodeOfAddress, CarriedCode
  <2>5. UnitIn(f) = c.unit
    BY <1>1, <2>1, <2>3, <2>4, AddressFrame
  <2> QED
    BY <1>1, <1>3, <2>5 DEF Select, TypeOK
<1>4. CASE ~(ok /\ OpIn(f) \in {"ON", "OFF"})
  <2>1. certain /\ Address(c) = last
    BY <1>4 DEF AddressSent
  <2>2. selected' = selected
    BY <1>4 DEF Select
  <2> QED
    BY <2>1, <2>2 DEF MemoryAgrees, Address
<1> QED
  BY <1>3, <1>4

(* One frame that the lamps were certain to understand does what it says.   *)
LEMMA TransmitReaches ==
  ASSUME TypeOK, MemoryAgrees, NEW c \in Commands, AddressSent(c), Transmit(c)
  PROVE  ReachesItsUnit'
<1> PICK code \in SentCodes(c), ok \in BOOLEAN :
      LET f == x10_transmit_cmd(c.op, c.house, Carried(code))
      IN  /\ asked' = c
          /\ last' = Address(c)
          /\ selected' = IF ok THEN Select(f, c.house) ELSE selected
          /\ acted' = IF ok /\ certain' THEN Acts(f, c.house) ELSE None
  BY OneFrame DEF Transmit, Remembered
<1> DEFINE f == x10_transmit_cmd(c.op, c.house, Carried(code))
<1> SUFFICES ASSUME acted' # None, Plain(c.unit), c.op # "MOVE" PROVE acted' = c
  <2> HIDE DEF f
  <2> QED
    BY DEF ReachesItsUnit, Plain
<1>1. ok /\ certain' /\ acted' = Acts(f, c.house) /\ selected' = Select(f, c.house)
  OBVIOUS
<1>2. OpIn(f) = c.op
  BY PlainFrame
<1>3. MemoryAgrees'
  BY TransmitAgrees
<1> HIDE DEF f
<1>4. last' = <<c.house, c.unit>> /\ last'[1] = c.house /\ last'[2] = c.unit
  BY DEF Address
<1>5. selected'[c.house] = c.unit
  BY <1>1, <1>3, <1>4 DEF MemoryAgrees, Plain
<1>6. acted' = [op |-> c.op, house |-> c.house, unit |-> c.unit]
  BY <1>1, <1>2, <1>5 DEF Acts, Command
<1> QED
  BY <1>6 DEF Commands

(* Neither does that of a remote.                                           *)
LEMMA ListedRelative ==
  ASSUME NEW op, Relative(op), NEW h, NEW n
  PROVE  OpIn(Listed(op, h, n)) \notin {"ON", "OFF"}
<1> PICK f : f = Listed(op, h, n)
  OBVIOUS
<1>1. f.pan = FALSE /\ f.second = CmdCode[op]
  BY DEF Listed, Frame, Relative
<1>2. 7 \in CmdCode[op]
  BY DEF Relative, CmdCode
<1> QED
  BY <1>1, <1>2 DEF OpIn

(* Together they are inductive: the command behind an ON has its address.   *)
Reaches ==
  /\ MemoryAgrees
  /\ ReachesItsUnit
  /\ certain => last \in Addresses
  /\ pending # None => Address(pending) = last

(* Every step of a thread keeps the inductive invariant. *)
LEMMA StepKeeps ==
  ASSUME TypeOK, Reaches, [Next]_vars
  PROVE  Reaches'
<1> USE DEF Reaches
<1>1. CASE ControllerLoad \/ ControllerUnload
  BY <1>1 DEF ControllerLoad, ControllerUnload, MemoryAgrees, ReachesItsUnit, Plain
<1>6. CASE UNCHANGED vars
  BY <1>6 DEF vars, lamps, MemoryAgrees, ReachesItsUnit, Plain
<1>7. ASSUME NEW c \in Commands, Transmit(c)
      PROVE  last' \in Addresses
  BY <1>7 DEF Transmit, Remembered, Address, Addresses, Commands
<1>2. CASE SendOn
  <2> PICK op \in Ops, h \in Houses, n \in Units :
        /\ Transmit(Command("ON", h, n))
        /\ pending' = Command(op, h, n)
    BY <1>2 DEF SendOn
  <2>1. Command("ON", h, n) \in Commands
    BY DEF Command, Commands
  <2>2. AddressSent(Command("ON", h, n))
    BY DEF AddressSent, Relative, Command
  <2>3. MemoryAgrees' /\ ReachesItsUnit'
    BY <2>1, <2>2, TransmitAgrees, TransmitReaches
  <2>4. last' = Address(Command("ON", h, n))
    BY DEF Transmit, Remembered
  <2>5. Address(pending') = last'
    BY <2>4 DEF Address, Command
  <2> QED
    BY <1>7, <2>1, <2>3, <2>5
<1>3. CASE SendRest
  <2>1. pending \in Commands /\ Transmit(pending) /\ AddressSent(pending)
    BY <1>3 DEF SendRest, TypeOK, AddressSent
  <2>2. pending' = None
    BY <1>3 DEF SendRest
  <2> QED
    BY <1>7, <2>1, <2>2, TransmitAgrees, TransmitReaches
<1>4. CASE Send
  <2> PICK op \in Ops, h \in Houses, n \in Units :
        ~NeedsOn(Command(op, h, n)) /\ Transmit(Command(op, h, n))
    BY <1>4 DEF Send
  <2>1. Command(op, h, n) \in Commands
    BY DEF Command, Commands
  <2>2. AddressSent(Command(op, h, n))
    BY DEF AddressSent, NeedsOn
  <2>3. pending = None /\ pending' = None
    BY <1>4 DEF Send
  <2> QED
    BY <1>7, <2>1, <2>2, <2>3, TransmitAgrees, TransmitReaches
<1>5. CASE Remote
  <2> PICK op \in RemoteOps, h \in Houses, n \in Units :
        /\ selected' = Select(Listed(op, h, n), h)
        /\ certain' = (certain /\ (h = last[1] /\ ~Relative(op) => n = last[2]))
        /\ UNCHANGED <<last, pending, asked, acted>>
    BY <1>5 DEF Remote
  <2>1. MemoryAgrees'
    <3> SUFFICES ASSUME certain', last[2] <= 8 PROVE selected'[last[1]] = last[2]
      BY DEF MemoryAgrees
    <3>1. /\ certain /\ (h = last[1] /\ ~Relative(op) => n = last[2])
          /\ selected[last[1]] = last[2] /\ last[1] \in Houses
      BY DEF MemoryAgrees, Addresses
    <3>2. CASE h = last[1] /\ ~Relative(op)
      <4>1. op \in {"ON", "OFF"} /\ h \in Letters /\ n \in UnitNumbers
        BY <3>2, X10ControllerAssumption DEF CommandNames, Relative
      <4>2. n = last[2] /\ n \in 1 .. 8
        BY <3>1, <3>2, <4>1 DEF UnitNumbers
      <4>3. UnitIn(Listed(op, h, n)) = n /\ OpIn(Listed(op, h, n)) = op
        BY <4>1, <4>2, ListedFrame
      <4> QED
        BY <3>2, <4>1, <4>2, <4>3 DEF Select, TypeOK
    <3>3. CASE h # last[1]
      BY <3>1, <3>3 DEF Select, TypeOK
    <3>4. CASE Relative(op)
      <4>1. OpIn(Listed(op, h, n)) \notin {"ON", "OFF"}
        BY <3>4, ListedRelative
      <4> QED
        BY <3>1, <4>1 DEF Select
    <3> QED
      BY <3>2, <3>3, <3>4
  <2>2. ReachesItsUnit'
    BY DEF ReachesItsUnit, Plain
  <2> QED
    BY <2>1, <2>2
<1> QED
  BY <1>1, <1>2, <1>3, <1>4, <1>5, <1>6 DEF Next

(* The address that x10_send remembers is the one the lamps listen for      *)
(* (MemoryAgrees): the ON it spares before a DIM is one that is not needed. *)
THEOREM MemoryAgreesHolds == Spec => []MemoryAgrees
<1>1. Init => Reaches
  BY DEF Init, MemoryAgrees, ReachesItsUnit, Reaches
<1>2. TypeOK /\ Reaches /\ [Next]_vars => Reaches'
  BY StepKeeps
<1>3. Reaches => MemoryAgrees
  BY DEF Reaches
<1> QED
  BY <1>1, <1>2, <1>3, TypeCorrect, PTL DEF Spec

(* A command to a plain unit does there what it says (ReachesItsUnit).      *)
THEOREM ReachesItsUnitHolds == Spec => []ReachesItsUnit
<1>1. Init => Reaches
  BY DEF Init, MemoryAgrees, ReachesItsUnit, Reaches
<1>2. TypeOK /\ Reaches /\ [Next]_vars => Reaches'
  BY StepKeeps
<1>3. Reaches => ReachesItsUnit
  BY DEF Reaches
<1> QED
  BY <1>1, <1>2, <1>3, TypeCorrect, PTL DEF Spec

-----------------------------------------------------------------------------
(***************************************************************************)
(* The frames of the list.                                                 *)
(***************************************************************************)
(* An ON or OFF of units 1 to 8 is sent as listed.                          *)
LEMMA AddressAsListed ==
  ASSUME NEW op \in {"ON", "OFF"}, NEW h \in Letters, NEW n \in 1 .. 8
  PROVE  x10_transmit_cmd(op, h, UnitCodeLut[n]) = Listed(op, h, n)
<1> DEFINE code == UnitCodeLut[n]
<1> PICK f : f = x10_transmit_cmd(op, h, code)
  OBVIOUS
<1> PICK g : g = Listed(op, h, n)
  OBVIOUS
<1>1. code \subseteq {3, 4, 6} /\ unit_code_to_int(code) = n
  BY LowCodes, UnitCodesInvert
<1> HIDE DEF code
<1>2. CmdCode[op] = IF op = "OFF" THEN {5} ELSE {}
  BY DEF CmdCode
<1>3. /\ f = Frame(FALSE, f.first, f.second)
      /\ f.first = {b \in Byte : b + 8 \in code} \cup HouseCodeLut[h]
      /\ f.second = (code \cap Byte) \cup CmdCode[op]
  BY DEF x10_transmit_cmd, Frame
<1>4. g = Frame(FALSE, g.first, g.second)
  BY DEF Listed, Frame
<1>5. Addresses8(g, op, h, n)
  BY ListedBits
<1>6. f.first = g.first
  BY <1>1, <1>3, <1>5 DEF Byte, Addresses8
<1>7. \A b : b \in f.second <=> b \in g.second
  <2>1. /\ f.second \subseteq {3, 4, 5, 6}
        /\ 5 \in f.second <=> op = "OFF"
        /\ \A b \in {3, 4, 6} : b \in f.second <=> b \in code
    BY <1>1, <1>2, <1>3 DEF Byte
  <2>2. 1 + Bit(6, code, 4) + Bit(3, code, 2) + Bit(4, code, 1) = n
    BY <1>1 DEF unit_code_to_int, Bit
  <2>3. /\ g.second \subseteq {3, 4, 5, 6}
        /\ 5 \in g.second <=> op = "OFF"
        /\ 1 + Bit(6, g.second, 4) + Bit(3, g.second, 2) + Bit(4, g.second, 1) = n
    BY <1>5 DEF Addresses8
  <2>4. \A b \in {3, 4, 6} : b \in g.second <=> b \in code
    BY <2>2, <2>3 DEF Bit
  <2> QED
    BY <2>1, <2>3, <2>4
<1>8. f.second = g.second
  BY <1>7
<1> QED
  BY <1>3, <1>4, <1>6, <1>8 DEF code

(* A DIM or BRIGHT with a code that adds no bit is sent as listed.          *)
LEMMA RelativeAsListed ==
  ASSUME NEW op, Relative(op), NEW h, NEW n, NEW code,
         code \subseteq {3, 4, 6}, code \subseteq CmdCode[op]
  PROVE  x10_transmit_cmd(op, h, code) = Listed(op, h, n)
<1>1. {b \in Byte : b + 8 \in code} \cup HouseCodeLut[h] = HouseCodeLut[h]
  BY DEF Byte
<1>2. (code \cap Byte) \cup CmdCode[op] = CmdCode[op]
  OBVIOUS
<1>3. op # "MOVE" /\ op \in {"DIM", "BRIGHT"}
  BY DEF Relative
<1> QED
  BY <1>1, <1>2, <1>3 DEF x10_transmit_cmd, Listed

(* The frames that are sent for one command.                                *)
LEMMA TransmitAsListed ==
  ASSUME NEW c \in Commands, Transmit(c)
  PROVE  SparedAsListed'
<1> PICK code \in SentCodes(c) :
      frame' = x10_transmit_cmd(c.op, c.house, Carried(code)) /\ asked' = c
  BY OneFrame DEF Transmit
<1> SUFFICES ASSUME c.op # "MOVE", Spared(c)
             PROVE  frame' = Listed(c.op, c.house, c.unit)
  BY DEF SparedAsListed, Spared
<1>1. c.op \in CommandNames /\ c.house \in Letters /\ c.unit \in 1 .. 8
  <2>1. c.op \in CommandNames
    BY X10ControllerAssumption DEF Commands, CommandNames
  <2>2. c.house \in Letters /\ c.unit \in UnitNumbers
    BY X10ControllerAssumption DEF Commands
  <2>3. c.unit \in 1 .. 8
    BY <2>2 DEF Spared, UnitNumbers
  <2> QED
    BY <2>1, <2>2, <2>3
<1>2. CASE ~Relative(c.op)
  <2>1. Carried(code) = UnitCodeLut[c.unit]
    BY <1>1, <1>2, SentCodeOfAddress, CarriedCode
  <2>2. c.op \in {"ON", "OFF"}
    BY <1>1, <1>2 DEF CommandNames, Relative
  <2> QED
    BY <1>1, <2>1, <2>2, AddressAsListed
<1>3. CASE Relative(c.op)
  <2>1. c.unit - 1 \in 1 .. 8 /\ UnitCodeLut[c.unit - 1] \subseteq CmdCode[c.op]
    BY <1>1, <1>3 DEF Spared
  <2>2. unit_code_to_int(UnitCodeLut[c.unit]) = c.unit
    BY <1>1, UnitCodesInvert
  <2>3. code = UnitCodeLut[c.unit - 1]
    BY <1>1, <1>3, <2>2, <2>1 DEF SentCodes, int_to_unit_code
  <2>4. Carried(code) = code /\ code \subseteq {3, 4, 6}
    BY <2>1, <2>3, CarriedCode, LowCodes
  <2> QED
    BY <1>3, <2>1, <2>3, <2>4, RelativeAsListed
<1> QED
  BY <1>2, <1>3

(* Whatever the plug-in, the commands that the two disagreements with the   *)
(* list spare are sent as it has them (SparedAsListed).                     *)
THEOREM SparedAsListedHolds == Spec => []SparedAsListed
<1>1. Init => SparedAsListed
  BY DEF Init, SparedAsListed
<1>2. TypeOK /\ SparedAsListed /\ [Next]_vars => SparedAsListed'
  <2> SUFFICES ASSUME TypeOK, SparedAsListed, [Next]_vars PROVE SparedAsListed'
    OBVIOUS
  <2>1. CASE ControllerLoad \/ ControllerUnload \/ Remote \/ UNCHANGED vars
    <3>1. UNCHANGED <<asked, frame>>
      BY <2>1 DEF ControllerLoad, ControllerUnload, Remote, vars
    <3> QED
      BY <3>1 DEF SparedAsListed, Spared
  <2>2. CASE SendOn
    <3> PICK h \in Houses, n \in Units : Transmit(Command("ON", h, n))
      BY <2>2 DEF SendOn
    <3>1. Command("ON", h, n) \in Commands
      BY DEF Command, Commands
    <3> QED
      BY <3>1, TransmitAsListed
  <2>3. CASE SendRest
    BY <2>3, TransmitAsListed DEF SendRest, TypeOK
  <2>4. CASE Send
    <3> PICK op \in Ops, h \in Houses, n \in Units : Transmit(Command(op, h, n))
      BY <2>4 DEF Send
    <3>1. Command(op, h, n) \in Commands
      BY DEF Command, Commands
    <3> QED
      BY <3>1, TransmitAsListed
  <2> QED
    BY <2>1, <2>2, <2>3, <2>4 DEF Next
<1> QED
  BY <1>1, <1>2, TypeCorrect, PTL DEF Spec
=============================================================================
