-------------------------- MODULE Cm19aDriverProofs --------------------------
(***************************************************************************)
(* Theorems of Cm19aDriver.  The lemmas are, in this order, about the read *)
(* buffer, about what is done to the structure of a device, about the      *)
(* invariant, and about each action.                                       *)
(***************************************************************************)
EXTENDS Cm19aDriver, SequenceTheorems, TLAPS

(***************************************************************************)
(* The read buffer holds consecutive bytes.                                *)
(***************************************************************************)
Bytes(k, a) == [i \in 1 .. a - k |-> k + i]

(* The bytes after k up to a.                                               *)
LEMMA BytesLength ==
  ASSUME NEW k \in Nat, NEW a \in Nat, k <= a
  PROVE  Bytes(k, a) \in Seq(Nat) /\ Len(Bytes(k, a)) = a - k
<1>1. a - k \in Nat /\ \A i \in 1 .. a - k : k + i \in Nat
  OBVIOUS
<1>2. Bytes(k, a) \in Seq(Nat)
  BY <1>1 DEF Bytes
<1>3. DOMAIN Bytes(k, a) = 1 .. a - k
  BY DEF Bytes
<1>4. Len(Bytes(k, a)) = a - k
  BY <1>1, <1>2, <1>3, LenProperties
<1> QED
  BY <1>2, <1>4

(* What is left of them when the first n are read.                          *)
LEMMA BytesTaken ==
  ASSUME NEW k \in Nat, NEW a \in Nat, k <= a, NEW n \in Nat, n <= a - k
  PROVE  LET b == Bytes(k, a)
         IN  SubSeq(b, n + 1, Len(b)) = Bytes(k + n, a)
<1> PICK b : b = Bytes(k, a)
  OBVIOUS
<1>1. b \in Seq(Nat) /\ Len(b) = a - k
  BY BytesLength
<1>3. SubSeq(b, n + 1, Len(b)) = [i \in 1 .. a - k - n |-> b[n + i]]
  BY <1>1
<1>4. \A i \in 1 .. a - k - n : b[n + i] = k + n + i
  BY DEF Bytes
<1>5. a - k - n = a - (k + n)
  OBVIOUS
<1>6. [i \in 1 .. a - k - n |-> b[n + i]] = Bytes(k + n, a)
  BY <1>4, <1>5 DEF Bytes
<1> QED
  BY <1>3, <1>6

(* One more byte.                                                           *)
LEMMA BytesGrow ==
  ASSUME NEW k \in Nat, NEW a \in Nat, k <= a
  PROVE  Append(Bytes(k, a), a + 1) = Bytes(k, a + 1)
<1> PICK b : b = Bytes(k, a)
  OBVIOUS
<1>1. b \in Seq(Nat) /\ Len(b) = a - k
  BY BytesLength
<1> PICK c : c = Append(b, a + 1)
  OBVIOUS
<1>2. c \in Seq(Nat) /\ Len(c) = a - k + 1
  BY <1>1, AppendProperties
<1>3. \A i \in 1 .. a - k + 1 : c[i] = k + i
  <2> TAKE i \in 1 .. a - k + 1
  <2>1. CASE i = a - k + 1
    BY <1>1, <2>1, AppendProperties
  <2>2. CASE i # a - k + 1
    <3>1. c[i] = b[i]
      BY <1>1, <2>2, AppendProperties
    <3> QED
      BY <2>2, <3>1 DEF Bytes
  <2> QED
    BY <2>1, <2>2
<1>4. c = [i \in 1 .. a - k + 1 |-> c[i]]
  BY <1>2
<1>5. a - k + 1 = a + 1 - k
  OBVIOUS
<1>6. [i \in 1 .. a - k + 1 |-> c[i]] = [i \in 1 .. a - k + 1 |-> k + i]
  BY <1>3
<1>7. Bytes(k, a + 1) = [i \in 1 .. a - k + 1 |-> k + i]
  BY <1>5 DEF Bytes
<1> QED
  BY <1>4, <1>6, <1>7


-----------------------------------------------------------------------------
(***************************************************************************)
(* One device.                                                             *)
(***************************************************************************)
InOrder(d) ==
  /\ d.taken <= d.accepted /\ d.buf = Bytes(d.taken, d.accepted)
  /\ d.ready <= Len(d.buf) /\ Len(d.buf) < ReadBufSz

Running(d) == d.listening \/ d.sending

Good(d) ==
  /\ d \in Device
  /\ InOrder(d)
  /\ d.busy = d.sending
  /\ Running(d) => d.alive

\* What references to a device depend on stays.
Tame(d, e) ==
  /\ Good(e)
  /\ e.present = d.present /\ e.alive = d.alive /\ e.opened = d.opened
  /\ e.refs = d.refs

\* What the holder of the mutex relies on stays.
Alike(d, e) == e.mutex = d.mutex /\ \A n \in Nat : n <= d.ready => n <= e.ready

\* The numbers of a device.
Counts(d) ==
  /\ d.ready \in Nat /\ d.taken \in Nat /\ d.accepted \in Nat
  /\ d.refs \in Nat /\ d.buf \in Seq(Nat)

(* They have their types.                                                   *)
LEMMA Numbers ==
  ASSUME NEW d \in Device
  PROVE  Counts(d)
<1>1. d.ready \in Nat
  BY DEF Device
<1>2. d.taken \in Nat
  BY DEF Device
<1>3. d.accepted \in Nat
  BY DEF Device
<1>4. d.refs \in Nat
  BY DEF Device
<1>5. d.buf \in Seq(Nat)
  BY DEF Device
<1> QED
  BY <1>1, <1>2, <1>3, <1>4, <1>5 DEF Counts

(* A look at the read buffer changes no reference, and shortens no packet.  *)
LEMMA CheckTame ==
  ASSUME NEW d, Good(d)
  PROVE  LET e == check_read_buffer(d)
         IN  Tame(d, e) /\ Alike(d, e)
<1> PICK e : e = check_read_buffer(d)
  OBVIOUS
<1> USE Numbers DEF Good, Counts
<1>1. Len(d.buf) \in Nat /\ d.ready \in Nat
  OBVIOUS
<1>2. d.ready <= Len(d.buf)
  BY DEF InOrder
<1> PICK n : n = IF ~d.fresh \/ Len(d.buf) = ReadBufSz THEN Len(d.buf) ELSE d.ready
  OBVIOUS
<1>3. n \in Nat /\ n <= Len(d.buf) /\ d.ready <= n
  BY <1>1, <1>2
<1> HIDE DEF Good, Counts
<1>4. e = [d EXCEPT !.ready = n, !.done = FALSE]
  BY DEF check_read_buffer
<1>5. e \in Device
  BY <1>3, <1>4 DEF Device, Good
<1>6. /\ e.buf = d.buf /\ e.accepted = d.accepted /\ e.taken = d.taken
      /\ e.present = d.present /\ e.alive = d.alive /\ e.opened = d.opened
      /\ e.refs = d.refs /\ e.mutex = d.mutex /\ e.ready = n
      /\ e.listening = d.listening /\ e.sending = d.sending /\ e.busy = d.busy
  BY <1>4 DEF Device, Good
<1>7. InOrder(e)
  BY <1>3, <1>6 DEF InOrder, Good
<1>8. \A k \in Nat : k <= d.ready => k <= e.ready
  BY <1>1, <1>3, <1>6
<1> QED
  BY <1>5, <1>6, <1>7, <1>8 DEF Tame, Alike, Running, Good

(* Aborting transfers ends what is running and changes no reference.        *)
LEMMA AbortTame ==
  ASSUME NEW d, Good(d)
  PROVE  LET e == x10_cm19a_device_abort_xfers(d)
         IN  Tame(d, e) /\ Alike(d, e)
<1> PICK e : e = x10_cm19a_device_abort_xfers(d)
  OBVIOUS
<1>1. e \in Device
  <2>1. PICK l \in BOOLEAN, n \in BOOLEAN, o \in BOOLEAN, r \in BOOLEAN :
          e = [d EXCEPT !.connected = FALSE, !.listening = l, !.done = n,
                        !.sending = o, !.freeing = r, !.busy = FALSE]
    BY ZenonT(60) DEF x10_cm19a_device_abort_xfers, Device, Good
  <2> QED
    BY ZenonT(60), <2>1 DEF Device, Good
<1>2. /\ e.buf = d.buf /\ e.ready = d.ready /\ e.accepted = d.accepted /\ e.taken = d.taken
      /\ e.present = d.present /\ e.alive = d.alive /\ e.opened = d.opened
      /\ e.refs = d.refs /\ e.mutex = d.mutex
  BY DEF x10_cm19a_device_abort_xfers, Device, Good
<1>3. /\ e.listening = (d.listening /\ ~d.connected)
      /\ e.sending = (d.sending /\ ~d.busy)
      /\ e.busy = FALSE
  BY DEF x10_cm19a_device_abort_xfers, Device, Good
<1>4. e.busy = e.sending /\ (Running(e) => e.alive)
  BY <1>2, <1>3 DEF Good, Running
<1> QED
  BY <1>1, <1>2, <1>4 DEF Tame, Alike, Good, InOrder

(* A reference given back, maybe the last one.                              *)
LEMMA PutGood ==
  ASSUME NEW d, Good(d), d.refs >= 1
  PROVE  LET e == kref_put(d)
         IN  /\ Good(e)
             /\ e.refs = d.refs - 1
             /\ e.alive = d.alive /\ e.opened = d.opened /\ e.mutex = d.mutex
             /\ d.refs > 1 => e.present = d.present
<1> PICK e : e = kref_put(d)
  OBVIOUS
<1>n. d.refs \in Nat
  BY Numbers DEF Good, Counts
<1>1. CASE d.refs = 1
  <2> PICK a : a = x10_cm19a_device_abort_xfers(d)
    OBVIOUS
  <2>1. Tame(d, a) /\ Alike(d, a)
    BY AbortTame
  <2>2. e = [a EXCEPT !.refs = 0, !.present = FALSE]
    BY <1>1 DEF kref_put
  <2> HIDE DEF kref_put
  <2>3. e \in Device
    <3>1. a \in Device
      BY <2>1 DEF Tame, Good
    <3> PICK z \in Nat, f \in BOOLEAN : z = 0 /\ f = FALSE
      OBVIOUS
    <3>2. e = [a EXCEPT !.refs = z, !.present = f]
      BY <2>2
    <3> QED
      BY ZenonT(60), <3>1, <3>2 DEF Device
  <2>4. /\ e.buf = a.buf /\ e.ready = a.ready /\ e.accepted = a.accepted /\ e.taken = a.taken
        /\ e.alive = a.alive /\ e.opened = a.opened /\ e.mutex = a.mutex
        /\ e.listening = a.listening /\ e.sending = a.sending /\ e.busy = a.busy
        /\ e.refs = 0
    BY <2>1, <2>2 DEF Tame, Good, Device
  <2>5. Good(e)
    BY <2>1, <2>3, <2>4 DEF Tame, Good, InOrder, Running
  <2>6. e.alive = d.alive /\ e.opened = d.opened /\ e.mutex = d.mutex
    BY <2>1, <2>4 DEF Tame, Alike
  <2>7. e.refs = d.refs - 1 /\ ~(d.refs > 1)
    BY <1>1, <2>4
  <2> QED
    BY <2>5, <2>6, <2>7
<1>2. CASE d.refs # 1
  <2> PICK r : r = d.refs - 1
    OBVIOUS
  <2>1. e = [d EXCEPT !.refs = r]
    BY <1>2 DEF kref_put
  <2>2. r \in Nat
    BY <1>n
  <2>3. e \in Device
    BY <2>1, <2>2 DEF Good, Device
  <2>4. /\ e.buf = d.buf /\ e.ready = d.ready /\ e.accepted = d.accepted /\ e.taken = d.taken
        /\ e.alive = d.alive /\ e.opened = d.opened /\ e.mutex = d.mutex
        /\ e.listening = d.listening /\ e.sending = d.sending /\ e.busy = d.busy
        /\ e.refs = r /\ e.present = d.present
    BY <2>1 DEF Good, Device
  <2>5. Good(e)
    BY <2>3, <2>4 DEF Good, InOrder, Running
  <2> QED
    BY <2>4, <2>5
<1> QED
  BY <1>1, <1>2

(* The first n bytes of a packet are taken off.                             *)
LEMMA MovedTame ==
  ASSUME NEW d, Good(d), NEW n \in Nat, n >= 1, n <= d.ready
  PROVE  Tame(d, Moved(d, n))
<1> PICK e : e = Moved(d, n)
  OBVIOUS
<1>1. /\ d.ready \in Nat /\ d.taken \in Nat /\ d.accepted \in Nat
  BY Numbers DEF Good, Counts
<1>2. /\ d.taken <= d.accepted /\ d.buf = Bytes(d.taken, d.accepted)
      /\ d.ready <= Len(d.buf) /\ Len(d.buf) < ReadBufSz
  BY DEF Good, InOrder
<1>3. Len(d.buf) = d.accepted - d.taken
  BY <1>1, <1>2, BytesLength
<1> PICK b : b = Bytes(d.taken + n, d.accepted)
  OBVIOUS
<1>4. SubSeq(d.buf, n + 1, Len(d.buf)) = b
  <2>1. n <= d.accepted - d.taken
    BY <1>1, <1>2, <1>3
  <2> PICK k \in Nat, a \in Nat : k = d.taken /\ a = d.accepted
    BY <1>1
  <2> PICK c : c = Bytes(k, a)
    OBVIOUS
  <2>2. SubSeq(c, n + 1, Len(c)) = Bytes(k + n, a)
    BY ZenonT(60), <1>2, <2>1, BytesTaken
  <2> QED
    BY <1>2, <2>2
<1> PICK r \in Nat, k \in Nat : r = d.ready - n /\ k = d.taken + n
  BY <1>1
<1>5. k <= d.accepted /\ r <= d.accepted - k /\ d.accepted - k < ReadBufSz
  BY SMTT(30), <1>1, <1>2, <1>3, Cm19aDriverAssumption
<1>6. b \in Seq(Nat) /\ Len(b) = d.accepted - k
  BY <1>1, <1>5, BytesLength
<1>7. e = [d EXCEPT !.buf = b, !.ready = r, !.taken = k]
  BY <1>4 DEF Moved
<1>8. e \in Device
  BY ZenonT(60), <1>6, <1>7 DEF Good, Device
<1>9. /\ e.buf = b /\ e.ready = r /\ e.accepted = d.accepted /\ e.taken = k
      /\ e.present = d.present /\ e.alive = d.alive /\ e.opened = d.opened
      /\ e.refs = d.refs
      /\ e.listening = d.listening /\ e.sending = d.sending /\ e.busy = d.busy
  BY <1>7 DEF Good, Device
<1>10. InOrder(e)
  BY <1>5, <1>6, <1>9 DEF InOrder
<1> QED
  BY <1>8, <1>9, <1>10 DEF Tame, Good, Running

Taken(d) ==
  [d EXCEPT !.buf = Append(@, d.accepted + 1), !.accepted = @ + 1, !.fresh = TRUE]

(* A byte is appended to the buffer.                                        *)
LEMMA TakenTame ==
  ASSUME NEW d, Good(d), Len(d.buf) + 1 < ReadBufSz
  PROVE  LET e == Taken(d)
         IN  Tame(d, e) /\ Alike(d, e) /\ e.listening = d.listening
<1> PICK e : e = Taken(d)
  OBVIOUS
<1>1. /\ d.ready \in Nat /\ d.taken \in Nat /\ d.accepted \in Nat
  BY Numbers DEF Good, Counts
<1>2. /\ d.taken <= d.accepted /\ d.buf = Bytes(d.taken, d.accepted)
      /\ d.ready <= Len(d.buf)
  BY DEF Good, InOrder
<1>3. Len(d.buf) = d.accepted - d.taken
  BY <1>1, <1>2, BytesLength
<1> PICK b : b = Bytes(d.taken, d.accepted + 1)
  OBVIOUS
<1> PICK a \in Nat : a = d.accepted + 1
  BY <1>1
<1>4. Append(d.buf, a) = b
  BY <1>1, <1>2, BytesGrow
<1>5. d.taken <= a
  BY <1>1, <1>2
<1>6. b \in Seq(Nat) /\ Len(b) = a - d.taken
  BY <1>1, <1>5, BytesLength
<1>7. Len(b) < ReadBufSz /\ d.ready <= Len(b)
  BY SMTT(30), <1>1, <1>2, <1>3, <1>6, Cm19aDriverAssumption
<1>8. e = [d EXCEPT !.buf = b, !.accepted = a, !.fresh = TRUE]
  BY <1>4 DEF Taken
<1>9. e \in Device
  BY ZenonT(60), <1>6, <1>8 DEF Good, Device
<1>10. /\ e.buf = b /\ e.ready = d.ready /\ e.accepted = a /\ e.taken = d.taken
       /\ e.present = d.present /\ e.alive = d.alive /\ e.opened = d.opened
       /\ e.refs = d.refs /\ e.mutex = d.mutex
       /\ e.listening = d.listening /\ e.sending = d.sending /\ e.busy = d.busy
  BY <1>8 DEF Good, Device
<1>11. InOrder(e)
  BY <1>5, <1>7, <1>10 DEF InOrder
<1> QED
  BY <1>9, <1>10, <1>11 DEF Tame, Alike, Good, Running

(* The mutex changes hands.                                                 *)
LEMMA LockTame ==
  ASSUME NEW d, Good(d), NEW m \in Holders
  PROVE  LET e == [d EXCEPT !.mutex = m]
         IN  Tame(d, e) /\ e.mutex = m /\ e.ready = d.ready
<1> PICK e : e = [d EXCEPT !.mutex = m]
  OBVIOUS
<1>1. d \in Device
  BY DEF Good
<1>2. e \in Device
  BY <1>1 DEF Device, Holders
<1>3. /\ e.buf = d.buf /\ e.ready = d.ready /\ e.accepted = d.accepted /\ e.taken = d.taken
      /\ e.present = d.present /\ e.opened = d.opened /\ e.refs = d.refs
      /\ e.alive = d.alive /\ e.mutex = m
      /\ e.listening = d.listening /\ e.sending = d.sending /\ e.busy = d.busy
  BY <1>1 DEF Device
<1>4. e.busy = e.sending /\ (Running(e) => e.alive)
  BY <1>3 DEF Good, Running
<1> QED
  BY <1>2, <1>3, <1>4 DEF Tame, Alike, Good, InOrder

(* The submission of devf_open fails.                                       *)
LEMMA FailedTame ==
  ASSUME NEW d, Good(d)
  PROVE  LET e == [d EXCEPT !.connected = FALSE, !.done = FALSE]
         IN  Tame(d, e) /\ Alike(d, e)
<1> PICK e : e = [d EXCEPT !.connected = FALSE, !.done = FALSE]
  OBVIOUS
<1>1. d \in Device
  BY DEF Good
<1>2. e \in Device
  BY <1>1 DEF Device, Holders
<1>3. /\ e.buf = d.buf /\ e.ready = d.ready /\ e.accepted = d.accepted /\ e.taken = d.taken
      /\ e.present = d.present /\ e.opened = d.opened /\ e.refs = d.refs
      /\ e.alive = d.alive /\ e.mutex = d.mutex
      /\ e.listening = d.listening /\ e.sending = d.sending /\ e.busy = d.busy
  BY <1>1 DEF Device
<1>4. e.busy = e.sending /\ (Running(e) => e.alive)
  BY <1>3 DEF Good, Running
<1> QED
  BY <1>2, <1>3, <1>4 DEF Tame, Alike, Good, InOrder

(* The interrupt URB is submitted.                                          *)
LEMMA SubmittedTame ==
  ASSUME NEW d, Good(d), d.alive
  PROVE  LET e == Submitted(d)
         IN  Tame(d, e) /\ Alike(d, e)
<1> PICK e : e = Submitted(d)
  OBVIOUS
<1>1. d \in Device
  BY DEF Good
<1>2. e \in Device
  BY <1>1 DEF Device, Holders, Submitted
<1>3. /\ e.buf = d.buf /\ e.ready = d.ready /\ e.accepted = d.accepted /\ e.taken = d.taken
      /\ e.present = d.present /\ e.opened = d.opened /\ e.refs = d.refs
      /\ e.alive = d.alive /\ e.mutex = d.mutex
      /\ e.sending = d.sending /\ e.busy = d.busy
  BY <1>1 DEF Device, Submitted
<1>4. e.busy = e.sending /\ (Running(e) => e.alive)
  BY <1>3 DEF Good, Running
<1> QED
  BY <1>2, <1>3, <1>4 DEF Tame, Alike, Good, InOrder

(* The URBs of a device that is gone have ended.                            *)
LEMMA EndedGood ==
  ASSUME NEW d, Good(d)
  PROVE  LET e == Ended(d)
         IN  /\ Good(e) /\ Alike(d, e)
             /\ e.present = d.present /\ e.opened = d.opened /\ e.refs = d.refs
             /\ ~e.alive
<1> PICK e : e = Ended(d)
  OBVIOUS
<1>1. d \in Device
  BY DEF Good
<1>2. e \in Device
  <2>1. PICK n \in BOOLEAN, b \in BOOLEAN :
            /\ n = (IF d.listening THEN TRUE ELSE d.done)
            /\ b = (IF d.sending THEN FALSE ELSE d.busy)
    BY <1>1 DEF Device
  <2>2. PICK f \in BOOLEAN : f = FALSE
    OBVIOUS
  <2>3. e = [d EXCEPT !.alive = f, !.listening = f, !.done = n,
                      !.sending = f, !.busy = b, !.freeing = f]
    BY <2>1, <2>2 DEF Ended
  <2> HIDE DEF Ended
  <2> QED
    BY <1>1, <2>3 DEF Device
<1>3. /\ e.buf = d.buf /\ e.ready = d.ready /\ e.accepted = d.accepted /\ e.taken = d.taken
      /\ e.present = d.present /\ e.opened = d.opened /\ e.refs = d.refs /\ e.mutex = d.mutex
      /\ ~e.alive /\ e.listening = FALSE /\ e.sending = FALSE
      /\ e.busy = (d.busy /\ ~d.sending)
  BY <1>1 DEF Device, Ended
<1>4. e.busy = e.sending /\ (Running(e) => e.alive)
  BY <1>3 DEF Good, Running
<1> QED
  BY <1>2, <1>3, <1>4 DEF Tame, Alike, Good, InOrder

(* An outgoing transfer ends.                                               *)
LEMMA SentTame ==
  ASSUME NEW d, Good(d)
  PROVE  LET e == [d EXCEPT !.sending = FALSE, !.busy = FALSE, !.freeing = TRUE]
         IN  Tame(d, e) /\ Alike(d, e)
<1> PICK e : e = [d EXCEPT !.sending = FALSE, !.busy = FALSE, !.freeing = TRUE]
  OBVIOUS
<1>1. d \in Device
  BY DEF Good
<1>2. e \in Device
  BY ZenonT(60), <1>1 DEF Device, Holders
<1>3. /\ e.buf = d.buf /\ e.ready = d.ready /\ e.accepted = d.accepted /\ e.taken = d.taken
      /\ e.present = d.present /\ e.opened = d.opened /\ e.refs = d.refs
      /\ e.alive = d.alive /\ e.mutex = d.mutex
      /\ e.listening = d.listening /\ e.sending = FALSE /\ e.busy = FALSE
  BY <1>1 DEF Device
<1>4. e.busy = e.sending /\ (Running(e) => e.alive)
  BY <1>3 DEF Good, Running
<1> QED
  BY <1>2, <1>3, <1>4 DEF Tame, Alike, Good, InOrder

(* Its buffer is freed.                                                     *)
LEMMA FreedTame ==
  ASSUME NEW d, Good(d)
  PROVE  LET e == [d EXCEPT !.freeing = FALSE]
         IN  Tame(d, e) /\ Alike(d, e)
<1> PICK e : e = [d EXCEPT !.freeing = FALSE]
  OBVIOUS
<1>1. d \in Device
  BY DEF Good
<1>2. e \in Device
  BY <1>1 DEF Device, Holders
<1>3. /\ e.buf = d.buf /\ e.ready = d.ready /\ e.accepted = d.accepted /\ e.taken = d.taken
      /\ e.present = d.present /\ e.opened = d.opened /\ e.refs = d.refs
      /\ e.alive = d.alive /\ e.mutex = d.mutex
      /\ e.listening = d.listening /\ e.sending = d.sending /\ e.busy = d.busy
  BY <1>1 DEF Device
<1>4. e.busy = e.sending /\ (Running(e) => e.alive)
  BY <1>3 DEF Good, Running
<1> QED
  BY <1>2, <1>3, <1>4 DEF Tame, Alike, Good, InOrder

(* PktTimeout passes.                                                       *)
LEMMA SilentTame ==
  ASSUME NEW d, Good(d)
  PROVE  LET e == [d EXCEPT !.fresh = FALSE]
         IN  Tame(d, e) /\ Alike(d, e)
<1> PICK e : e = [d EXCEPT !.fresh = FALSE]
  OBVIOUS
<1>1. d \in Device
  BY DEF Good
<1>2. e \in Device
  BY <1>1 DEF Device, Holders
<1>3. /\ e.buf = d.buf /\ e.ready = d.ready /\ e.accepted = d.accepted /\ e.taken = d.taken
      /\ e.present = d.present /\ e.opened = d.opened /\ e.refs = d.refs
      /\ e.alive = d.alive /\ e.mutex = d.mutex
      /\ e.listening = d.listening /\ e.sending = d.sending /\ e.busy = d.busy
  BY <1>1 DEF Device
<1>4. e.busy = e.sending /\ (Running(e) => e.alive)
  BY <1>3 DEF Good, Running
<1> QED
  BY <1>2, <1>3, <1>4 DEF Tame, Alike, Good, InOrder

(* The interrupt URB goes back.                                             *)
LEMMA ResubmittedTame ==
  ASSUME NEW d, Good(d), d.listening
  PROVE  LET e == Resubmitted(d)
         IN  Tame(d, e) /\ Alike(d, e)
<1> PICK e : e = Resubmitted(d)
  OBVIOUS
<1>1. d \in Device
  BY DEF Good
<1>2. e \in Device
  BY ZenonT(60), <1>1 DEF Device, Holders, Resubmitted
<1>3. /\ e.buf = d.buf /\ e.ready = d.ready /\ e.accepted = d.accepted /\ e.taken = d.taken
      /\ e.present = d.present /\ e.opened = d.opened /\ e.refs = d.refs
      /\ e.alive = d.alive /\ e.mutex = d.mutex
      /\ e.sending = d.sending /\ e.busy = d.busy
  BY <1>1 DEF Device, Resubmitted
<1>4. e.busy = e.sending /\ (Running(e) => e.alive)
  BY <1>3 DEF Good, Running
<1> QED
  BY <1>2, <1>3, <1>4 DEF Tame, Alike, Good, InOrder

(* An outgoing transfer begins.                                             *)
LEMMA SendTame ==
  ASSUME NEW d, Good(d), d.alive
  PROVE  LET e == [d EXCEPT !.busy = TRUE, !.sending = TRUE, !.mutex = "nobody"]
         IN  Tame(d, e) /\ e.mutex = "nobody"
<1> PICK e : e = [d EXCEPT !.busy = TRUE, !.sending = TRUE, !.mutex = "nobody"]
  OBVIOUS
<1>1. d \in Device
  BY DEF Good
<1>2. e \in Device
  BY <1>1 DEF Device, Holders
<1>3. /\ e.buf = d.buf /\ e.ready = d.ready /\ e.accepted = d.accepted /\ e.taken = d.taken
      /\ e.present = d.present /\ e.opened = d.opened /\ e.refs = d.refs
      /\ e.alive = d.alive /\ e.mutex = "nobody"
      /\ e.listening = d.listening /\ e.sending = TRUE /\ e.busy = TRUE
  BY <1>1 DEF Device
<1>4. e.busy = e.sending /\ (Running(e) => e.alive)
  BY <1>3 DEF Good, Running
<1> QED
  BY <1>2, <1>3, <1>4 DEF Tame, Alike, Good, InOrder

(* An outgoing transfer is refused.                                         *)
LEMMA RefusedTame ==
  ASSUME NEW d, Good(d), ~d.busy
  PROVE  LET e == Refused(d)
         IN  Tame(d, e) /\ Alike(d, e)
<1> PICK e : e = Refused(d)
  OBVIOUS
<1>1. d \in Device
  BY DEF Good
<1>2. e \in Device
  BY <1>1 DEF Device, Holders, Refused
<1>3. /\ e.buf = d.buf /\ e.ready = d.ready /\ e.accepted = d.accepted /\ e.taken = d.taken
      /\ e.present = d.present /\ e.opened = d.opened /\ e.refs = d.refs
      /\ e.alive = d.alive /\ e.mutex = d.mutex
      /\ e.listening = d.listening /\ e.sending = d.sending /\ e.busy = FALSE
  BY <1>1 DEF Device, Refused
<1>b. d.busy = FALSE
  BY <1>1 DEF Device
<1>4. e.busy = e.sending /\ (Running(e) => e.alive)
  BY <1>3, <1>b DEF Good, Running
<1> QED
  BY <1>2, <1>3, <1>4 DEF Tame, Alike, Good, InOrder

(* A file no longer counts as open.                                         *)
LEMMA ClosedGood ==
  ASSUME NEW d, Good(d)
  PROVE  LET e == [d EXCEPT !.opened = FALSE]
         IN  Good(e) /\ e.refs = d.refs /\ e.present = d.present /\ e.alive = d.alive
<1> PICK e : e = [d EXCEPT !.opened = FALSE]
  OBVIOUS
<1>1. d \in Device
  BY DEF Good
<1>2. e \in Device
  BY <1>1 DEF Device
<1>3. /\ e.buf = d.buf /\ e.ready = d.ready /\ e.accepted = d.accepted /\ e.taken = d.taken
      /\ e.present = d.present /\ e.alive = d.alive /\ e.refs = d.refs
      /\ e.listening = d.listening /\ e.sending = d.sending /\ e.busy = d.busy
  BY <1>1 DEF Device
<1> QED
  BY <1>2, <1>3 DEF Good, InOrder, Running

(* A file counts as a reference.                                            *)
LEMMA OpenedGood ==
  ASSUME NEW d, Good(d)
  PROVE  LET e == Opened(d)
         IN  /\ Good(e) /\ Alike(d, e)
             /\ e.present = d.present /\ e.alive = d.alive
             /\ e.opened = TRUE /\ e.refs = d.refs + 1
<1> PICK e : e = Opened(d)
  OBVIOUS
<1>1. d \in Device
  BY DEF Good
<1>n. d.refs \in Nat
  BY <1>1, Numbers DEF Counts
<1> PICK r \in Nat : r = d.refs + 1
  BY <1>n
<1> PICK o \in BOOLEAN : o = TRUE
  OBVIOUS
<1>2. e = [d EXCEPT !.opened = o, !.refs = r]
  BY DEF Opened
<1>3. e \in Device
  BY ZenonT(60), <1>1, <1>2 DEF Device
<1>4. /\ e.buf = d.buf /\ e.ready = d.ready /\ e.accepted = d.accepted /\ e.taken = d.taken
      /\ e.present = d.present /\ e.alive = d.alive /\ e.mutex = d.mutex
      /\ e.listening = d.listening /\ e.sending = d.sending /\ e.busy = d.busy
      /\ e.opened = o /\ e.refs = r
  BY <1>1, <1>2 DEF Device
<1>5. Good(e)
  BY <1>3, <1>4 DEF Good, InOrder, Running
<1>6. Alike(d, e)
  BY <1>4 DEF Alike
<1> QED
  BY <1>4, <1>5, <1>6

(* A device that has just been plugged in.                                  *)
Plugged == [Unused EXCEPT !.present = TRUE, !.alive = TRUE, !.refs = 1, !.sending = TRUE,
                          !.busy = TRUE]

(* What find_free_dev_struct makes of a slot, and x10_cm19a_probe of that.   *)
LEMMA NewGood ==
  /\ Good(Unused) /\ Unused.refs = 0
  /\ ~Unused.present /\ ~Unused.alive /\ ~Unused.opened
  /\ Good(Plugged) /\ Plugged.present /\ Plugged.alive /\ Plugged.refs = 1
<1>1. Unused \in Device
  BY DEF Unused, Device, Holders
<1>2. Plugged \in Device
  <2> PICK p \in BOOLEAN, r \in Nat : p = TRUE /\ r = 1
    OBVIOUS
  <2>1. Plugged = [Unused EXCEPT !.present = p, !.alive = p, !.refs = r, !.sending = p, !.busy = p]
    BY DEF Plugged
  <2> QED
    BY ZenonT(60), <1>1, <2>1 DEF Device
<1>3. /\ Unused.buf = <<>> /\ Unused.ready = 0 /\ Unused.accepted = 0 /\ Unused.taken = 0
      /\ Plugged.buf = <<>> /\ Plugged.ready = 0 /\ Plugged.accepted = 0 /\ Plugged.taken = 0
  BY DEF Unused, Plugged
<1>4. /\ Unused.busy = FALSE /\ Unused.sending = FALSE /\ Unused.listening = FALSE
      /\ Unused.refs = 0 /\ ~Unused.present /\ ~Unused.alive /\ ~Unused.opened
      /\ Plugged.busy = TRUE /\ Plugged.sending = TRUE /\ Plugged.listening = FALSE
      /\ Plugged.refs = 1 /\ Plugged.present /\ Plugged.alive
  BY DEF Unused, Plugged
<1>5. Bytes(0, 0) = <<>>
  BY DEF Bytes
<1>6. InOrder(Unused) /\ InOrder(Plugged)
  <2>1. Len(<<>>) = 0 /\ 0 < ReadBufSz
    BY Cm19aDriverAssumption
  <2> QED
    BY <1>3, <1>5, <2>1 DEF InOrder
<1> QED
  BY <1>1, <1>2, <1>4, <1>6 DEF Good, Running

-----------------------------------------------------------------------------
(***************************************************************************)
(* The inductive invariant.                                                *)
(***************************************************************************)
AllGood == \A s \in Slots : Good(dev[s])

\* The interface of a device, until x10_cm19a_disconn has given its reference
\* back, is one reference, and its file another.
Attached(s) == s \in bound \/ hub.slot = s

SlotRefs(s) ==
  LET d == dev[s]
  IN  /\ d.alive => s \in bound /\ hub.slot # s
      /\ Attached(s) => d.present /\ d.refs >= 1
      /\ \A f \in Files : file[f] = s => /\ d.present /\ d.opened /\ d.refs >= 1
                                         /\ Attached(s) => d.refs >= 2

RefsInv == \A s \in Slots : SlotRefs(s)

HubInv ==
  /\ hub.at = "idle" => hub = HubIdle
  /\ hub.at = "disconnecting" => hub.slot \in bound
  /\ hub.at = "detaching" => hub.slot \in Slots \ bound /\ disconnMutex = "hub"

Holding(t) == call[t].at \in {"waiting", "ready", "moving", "submitting"}

CallOK(t) ==
  LET c == call[t]
  IN  /\ c.at = "idle" => c = Idle
      /\ c.at = "opening" => c.slot \in bound /\ disconnMutex = t /\ c.file = 0
      /\ c.at \notin {"idle", "opening"} => c.file \in Files /\ c.slot = file[c.file] /\ c.slot # 0
      /\ c.at = "releasing" => \A u \in Threads : u # t => call[u].file # c.file
      /\ Holding(t) => dev[c.slot].mutex = t
      /\ c.at = "ready" => 1 <= dev[c.slot].ready
      /\ c.at = "moving" => c.len <= dev[c.slot].ready

CallInv == \A t \in Threads : CallOK(t)

Inv == TypeOK /\ AllGood /\ RefsInv /\ HubInv /\ CallInv /\ OneOpener

(* It implies what the driver promises.                                     *)
LEMMA InvSuffices == Inv => SlotsInUse /\ BufferIsUnread /\ BusyIsSending
<1> SUFFICES ASSUME Inv
             PROVE  SlotsInUse /\ BufferIsUnread /\ BusyIsSending
  OBVIOUS
<1>1. SlotsInUse
  <2> SUFFICES ASSUME NEW s \in Slots, Referred(s)
               PROVE  dev[s].present
    BY DEF SlotsInUse
  <2>1. Good(dev[s]) /\ SlotRefs(s) /\ s # 0
    BY Cm19aDriverAssumption DEF Inv, AllGood, RefsInv
  <2>2. s \in bound => dev[s].present
    BY <2>1 DEF SlotRefs, Attached
  <2>3. \A f \in Files : file[f] = s => dev[s].present
    BY <2>1 DEF SlotRefs
  <2>4. ASSUME NEW t \in Threads, call[t].slot = s
        PROVE  dev[s].present
    <3>1. CallOK(t)
      BY DEF Inv, CallInv
    <3>2. call[t].at # "idle"
      BY <2>1, <2>4, <3>1 DEF CallOK, Idle
    <3> QED
      BY <2>2, <2>3, <2>4, <3>1, <3>2 DEF CallOK
  <2>5. dev[s].listening \/ dev[s].sending => s \in bound
    BY <2>1 DEF Good, Running, SlotRefs
  <2> QED
    BY <2>2, <2>3, <2>4, <2>5 DEF Referred
<1>2. BufferIsUnread
  <2>1. \A s \in Slots : InOrder(dev[s])
    BY DEF Inv, AllGood, Good
  <2>2. \A t \in Threads : call[t].at = "moving" => call[t].len <= dev[call[t].slot].ready
    BY DEF Inv, CallInv, CallOK
  <2> QED
    BY <2>1, <2>2 DEF InOrder, BufferIsUnread, Bytes
<1>3. BusyIsSending
  BY DEF Inv, AllGood, Good, BusyIsSending
<1> QED
  BY <1>1, <1>2, <1>3

(* Initially every slot is free.                                            *)
LEMMA InitInv == Init => Inv
<1> SUFFICES ASSUME Init
             PROVE  Inv
  OBVIOUS
<1> USE DEF Init
<1>1. TypeOK
  <2>1. dev \in [Slots -> Device]
    BY NewGood DEF Good
  <2>2. Idle \in Call /\ HubIdle \in AtHub
    BY Cm19aDriverAssumption DEF Idle, Call, Places, HubIdle, AtHub
  <2> QED
    BY <2>1, <2>2 DEF TypeOK
<1>2. AllGood
  BY NewGood DEF AllGood
<1>3. RefsInv
  BY NewGood, Cm19aDriverAssumption DEF RefsInv, SlotRefs, Attached, HubIdle
<1>4. HubInv
  BY DEF HubInv, HubIdle
<1>5. CallInv
  BY DEF CallInv, CallOK, Idle, Holding
<1>6. OneOpener
  BY DEF OneOpener
<1> QED
  BY <1>1, <1>2, <1>3, <1>4, <1>5, <1>6 DEF Inv

-----------------------------------------------------------------------------
(***************************************************************************)
(* What a step leaves alone.                                               *)
(***************************************************************************)
DevInv == dev \in [Slots -> Device] /\ AllGood /\ RefsInv

(* A step that changes one slot, and no reference.                          *)
LEMMA TameStep ==
  ASSUME Inv, NEW s \in Slots, NEW e, Tame(dev[s], e),
         dev' = [dev EXCEPT ![s] = e], UNCHANGED <<bound, hub, file>>
  PROVE  DevInv'
<1>1. dev \in [Slots -> Device] /\ e \in Device /\ Good(e)
  BY DEF Inv, TypeOK, Tame, Good
<1>2. dev' \in [Slots -> Device] /\ dev'[s] = e /\ \A r \in Slots : r # s => dev'[r] = dev[r]
  BY <1>1
<1>3. AllGood'
  BY <1>1, <1>2 DEF Inv, AllGood
<1>4. RefsInv'
  <2> SUFFICES ASSUME NEW r \in Slots
               PROVE  SlotRefs(r)'
    BY DEF RefsInv
  <2>1. SlotRefs(r)
    BY DEF Inv, RefsInv
  <2>2. /\ dev'[r].present = dev[r].present /\ dev'[r].alive = dev[r].alive
        /\ dev'[r].opened = dev[r].opened /\ dev'[r].refs = dev[r].refs
    BY <1>2 DEF Tame
  <2> QED
    BY <2>1, <2>2 DEF SlotRefs, Attached
<1> QED
  BY <1>2, <1>3, <1>4 DEF DevInv

(* Calls that are under way, when one slot changes and no call.             *)
LEMMA AlikeStep ==
  ASSUME Inv, NEW s \in Slots, NEW e, Alike(dev[s], e), e.ready \in Nat,
         dev' = [dev EXCEPT ![s] = e], UNCHANGED <<bound, disconnMutex, call, file>>
  PROVE  CallInv'
<1> SUFFICES ASSUME NEW t \in Threads
             PROVE  CallOK(t)'
  BY DEF CallInv
<1>1. CallOK(t)
  BY DEF Inv, CallInv
<1>2. dev \in [Slots -> Device] /\ file \in [Files -> Slots \cup {0}]
  BY DEF Inv, TypeOK
<1>3. \A r \in Slots : /\ dev'[r].mutex = dev[r].mutex
                       /\ \A n \in Nat : n <= dev[r].ready => n <= dev'[r].ready
  BY <1>2 DEF Alike
<1>4. Holding(t) => call[t].slot \in Slots
  BY <1>1, <1>2 DEF CallOK, Holding
<1>5. /\ call[t].at = "ready" => 1 <= dev'[call[t].slot].ready
      /\ call[t].at = "moving" => call[t].len <= dev'[call[t].slot].ready
  <2>1. call[t].len \in Nat
    BY DEF Inv, TypeOK, Call
  <2>2. /\ call[t].at = "ready" => 1 <= dev[call[t].slot].ready
        /\ call[t].at = "moving" => call[t].len <= dev[call[t].slot].ready
    BY <1>1 DEF CallOK
  <2> QED
    BY <1>3, <1>4, <2>1, <2>2 DEF Holding
<1>6. Holding(t)' => dev'[call'[t].slot].mutex = t
  BY <1>1, <1>3, <1>4 DEF CallOK, Holding
<1> QED
  BY <1>1, <1>5, <1>6 DEF CallOK, Holding

(* Calls of other threads, when thread t goes on.                           *)
LEMMA OthersStep ==
  ASSUME Inv, NEW t \in Threads, NEW c, call' = [call EXCEPT ![t] = c],
         UNCHANGED bound,
         \A r \in Slots : dev[r].mutex \notin {"nobody", t} => dev'[r] = dev[r],
         disconnMutex' = disconnMutex \/ disconnMutex \in {"nobody", t},
         \A f \in Files : file[f] # 0 /\ (call[t].at = "releasing" => f # call[t].file)
                            => file'[f] = file[f],
         \A u \in Threads \ {t} : call[u].at = "releasing" => call[u].file # c.file,
         NEW u \in Threads, u # t
  PROVE  CallOK(u)'
<1>1. CallOK(u) /\ CallOK(t)
  BY DEF Inv, CallInv
<1>2. file \in [Files -> Slots \cup {0}] /\ call \in [Threads -> Call]
  BY DEF Inv, TypeOK
<1>3. call'[u] = call[u] /\ call'[t] = c
  BY <1>2
<1>4. u # "nobody"
  BY Cm19aDriverAssumption
<1>5. call[u].at = "opening" => call[u].slot \in bound' /\ disconnMutex' = u
  BY <1>1, <1>4 DEF CallOK
<1>6. call[u].at \notin {"idle", "opening"} =>
        /\ call[u].file \in Files /\ call[u].slot = file'[call[u].file] /\ call[u].slot # 0
        /\ call[u].slot \in Slots
  <2> SUFFICES ASSUME call[u].at \notin {"idle", "opening"}
               PROVE  /\ call[u].file \in Files /\ call[u].slot = file'[call[u].file]
                      /\ call[u].slot # 0 /\ call[u].slot \in Slots
    OBVIOUS
  <2>1. /\ call[u].file \in Files /\ call[u].slot = file[call[u].file] /\ call[u].slot # 0
        /\ call[u].slot \in Slots
    BY <1>1, <1>2 DEF CallOK
  <2>2. call[t].at = "releasing" => call[u].file # call[t].file
    BY <1>1 DEF CallOK
  <2> QED
    BY <2>1, <2>2
<1>7. call[u].at = "releasing" => \A v \in Threads : v # u => call'[v].file # call[u].file
  <2> SUFFICES ASSUME call[u].at = "releasing", NEW v \in Threads, v # u
               PROVE  call'[v].file # call[u].file
    OBVIOUS
  <2>1. CASE v = t
    BY <1>3, <2>1
  <2>2. CASE v # t
    BY <1>1, <1>2, <2>2 DEF CallOK
  <2> QED
    BY <2>1, <2>2
<1>8. Holding(u) => dev'[call[u].slot] = dev[call[u].slot]
  BY <1>1, <1>4, <1>6 DEF CallOK, Holding
<1> QED
  BY <1>1, <1>3, <1>5, <1>6, <1>7, <1>8 DEF CallOK, Holding

(* A step that leaves slots and files alone.                                *)
LEMMA StillStep ==
  ASSUME Inv, UNCHANGED <<dev, bound, hub, file>>
  PROVE  DevInv'
BY DEF Inv, TypeOK, DevInv, AllGood, RefsInv, SlotRefs, Attached

-----------------------------------------------------------------------------
(***************************************************************************)
(* The USB core.                                                           *)
(***************************************************************************)
(* A device in a free slot, which nothing refers to yet.                    *)
LEMMA ProbeInv == Inv /\ Probe => Inv'
<1> SUFFICES ASSUME Inv, Probe
             PROVE  Inv'
  OBVIOUS
<1> PICK s \in Slots : /\ ~dev[s].present
                       /\ dev' = [dev EXCEPT ![s] = Plugged]
                       /\ bound' = bound \cup {s}
  BY DEF Probe, Plugged
<1>1. hub = HubIdle /\ UNCHANGED <<disconnMutex, hub, call, file>>
  BY DEF Probe
<1>2. TypeOK /\ ~Referred(s) /\ s # 0
  BY InvSuffices, Cm19aDriverAssumption DEF Inv, SlotsInUse
<1>3. Plugged \in Device
  BY NewGood DEF Good
<1>4. TypeOK'
  BY <1>1, <1>2, <1>3 DEF TypeOK
<1>5. dev'[s] = Plugged /\ \A r \in Slots : r # s => dev'[r] = dev[r]
  BY <1>2, <1>3 DEF TypeOK
<1>6. AllGood'
  BY <1>5, NewGood DEF Inv, AllGood
<1>7. RefsInv'
  <2> SUFFICES ASSUME NEW r \in Slots
               PROVE  SlotRefs(r)'
    BY DEF RefsInv
  <2>1. CASE r = s
    <3>1. hub'.slot # s /\ \A f \in Files : file'[f] # s
      BY <1>1, <1>2 DEF Referred, HubIdle
    <3>2. s \in bound' /\ dev'[s].present /\ dev'[s].refs >= 1
      BY <1>5, NewGood
    <3> QED
      BY <2>1, <3>1, <3>2 DEF SlotRefs
  <2>2. CASE r # s
    <3>1. SlotRefs(r)
      BY DEF Inv, RefsInv
    <3>2. dev'[r] = dev[r] /\ (r \in bound' <=> r \in bound)
      BY <1>5, <2>2
    <3> QED
      BY <1>1, <3>1, <3>2 DEF SlotRefs, Attached
  <2> QED
    BY <2>1, <2>2
<1>8. HubInv'
  BY <1>1 DEF HubInv, HubIdle
<1>9. CallInv'
  <2> SUFFICES ASSUME NEW t \in Threads
               PROVE  CallOK(t)'
    BY DEF CallInv
  <2>1. CallOK(t) /\ call[t].slot # s
    BY <1>2 DEF Inv, CallInv, Referred
  <2>2. Holding(t) => dev'[call[t].slot] = dev[call[t].slot]
    BY <1>2, <1>5, <2>1 DEF CallOK, Holding, TypeOK
  <2> QED
    BY <1>1, <2>1, <2>2 DEF CallOK, Holding
<1>10. OneOpener'
  BY <1>1 DEF Inv, OneOpener
<1> QED
  BY <1>4, <1>6, <1>7, <1>8, <1>9, <1>10 DEF Inv

(* The device is gone; its interface still counts.                          *)
LEMMA UnplugInv == Inv /\ Unplug => Inv'
<1> SUFFICES ASSUME Inv, Unplug
             PROVE  Inv'
  OBVIOUS
<1> PICK s \in bound : /\ dev' = [dev EXCEPT ![s] = Ended(@)]
                       /\ hub' = [at |-> "disconnecting", slot |-> s]
  BY DEF Unplug
<1>1. hub = HubIdle /\ UNCHANGED <<bound, disconnMutex, call, file>>
  BY DEF Unplug
<1>2. TypeOK /\ s \in Slots /\ s # 0 /\ Good(dev[s])
  BY Cm19aDriverAssumption DEF Inv, TypeOK, AllGood
<1> PICK e : e = Ended(dev[s])
  OBVIOUS
<1>3. /\ Good(e) /\ Alike(dev[s], e) /\ ~e.alive /\ e.present = dev[s].present
      /\ e.opened = dev[s].opened /\ e.refs = dev[s].refs
  BY <1>2, EndedGood
<1>4. e \in Device /\ e.ready \in Nat
  BY <1>3, Numbers DEF Good, Counts
<1>5. dev' = [dev EXCEPT ![s] = e]
  BY <1>2 DEF TypeOK
<1>6. dev'[s] = e /\ \A r \in Slots : r # s => dev'[r] = dev[r]
  BY <1>2, <1>5 DEF TypeOK
<1>7. TypeOK'
  BY <1>1, <1>2, <1>4, <1>5 DEF TypeOK, AtHub
<1>8. AllGood'
  BY <1>3, <1>6 DEF Inv, AllGood
<1>9. RefsInv'
  <2> SUFFICES ASSUME NEW r \in Slots
               PROVE  SlotRefs(r)'
    BY DEF RefsInv
  <2>1. SlotRefs(r)
    BY DEF Inv, RefsInv
  <2>2. Attached(r)' => Attached(r)
    BY <1>1 DEF Attached
  <2>3. /\ dev'[r].present = dev[r].present /\ dev'[r].opened = dev[r].opened
        /\ dev'[r].refs = dev[r].refs
    BY <1>3, <1>6
  <2>4. dev'[r].alive => r # s /\ dev[r].alive
    BY <1>3, <1>6
  <2>5. dev'[r].alive => r \in bound' /\ hub'.slot # r
    BY <1>1, <2>1, <2>4 DEF SlotRefs
  <2> QED
    BY <1>1, <2>1, <2>2, <2>3, <2>5 DEF SlotRefs
<1>10. HubInv'
  BY <1>1 DEF HubInv
<1>11. CallInv'
  BY <1>1, <1>2, <1>3, <1>4, <1>5, AlikeStep
<1>12. OneOpener'
  BY <1>1 DEF Inv, OneOpener
<1> QED
  BY <1>7, <1>8, <1>9, <1>10, <1>11, <1>12 DEF Inv

(* The interface is let go of; the reference still counts.                  *)
LEMMA DisconnectInv == Inv /\ Disconnect => Inv'
<1> SUFFICES ASSUME Inv, Disconnect
             PROVE  Inv'
  OBVIOUS
<1>1. /\ hub.at = "disconnecting" /\ disconnMutex = "nobody" /\ disconnMutex' = "hub"
      /\ bound' = bound \ {hub.slot} /\ hub' = [hub EXCEPT !.at = "detaching"]
      /\ UNCHANGED <<dev, call, file>>
  BY DEF Disconnect
<1>2. TypeOK /\ hub.slot \in bound
  BY <1>1 DEF Inv, HubInv
<1>3. hub'.at = "detaching" /\ hub'.slot = hub.slot /\ hub' \in AtHub
  BY <1>1, <1>2 DEF TypeOK, AtHub
<1>4. TypeOK'
  BY <1>1, <1>2, <1>3 DEF TypeOK
<1>5. AllGood'
  BY <1>1 DEF Inv, AllGood
<1>6. RefsInv'
  <2> SUFFICES ASSUME NEW r \in Slots
               PROVE  SlotRefs(r)'
    BY DEF RefsInv
  <2>1. SlotRefs(r)
    BY DEF Inv, RefsInv
  <2>2. Attached(r)' => Attached(r)
    BY <1>1, <1>3 DEF Attached
  <2> QED
    BY <1>1, <1>3, <2>1, <2>2 DEF SlotRefs
<1>7. HubInv'
  BY <1>1, <1>2, <1>3 DEF HubInv, TypeOK
<1>8. CallInv'
  <2> SUFFICES ASSUME NEW t \in Threads
               PROVE  CallOK(t)'
    BY DEF CallInv
  <2>1. CallOK(t) /\ t # "nobody"
    BY Cm19aDriverAssumption DEF Inv, CallInv
  <2>2. call[t].at # "opening"
    BY <1>1, <2>1 DEF CallOK
  <2> QED
    BY <1>1, <2>1, <2>2 DEF CallOK, Holding
<1>9. OneOpener'
  BY <1>1 DEF Inv, OneOpener
<1> QED
  BY <1>4, <1>5, <1>6, <1>7, <1>8, <1>9 DEF Inv

(* The reference of the interface is given back, and the mutex lost.        *)
LEMMA DetachInv == Inv /\ Detach => Inv'
<1> SUFFICES ASSUME Inv, Detach
             PROVE  Inv'
  OBVIOUS
<1> PICK s : s = hub.slot
  OBVIOUS
<1>1. /\ hub.at = "detaching" /\ dev[s].mutex = "nobody"
      /\ disconnMutex' = "nobody" /\ hub' = HubIdle /\ UNCHANGED <<bound, call, file>>
  BY DEF Detach
<1>2. TypeOK /\ s \in Slots /\ s \notin bound /\ s # 0 /\ Good(dev[s]) /\ SlotRefs(s)
  BY <1>1, Cm19aDriverAssumption DEF Inv, HubInv, AllGood, RefsInv
<1> PICK d : d = [dev[s] EXCEPT !.mutex = "lost"]
  OBVIOUS
<1>3. Tame(dev[s], d)
  BY <1>2, LockTame DEF Holders
<1>4. Good(d) /\ d.refs >= 1
  BY <1>2, <1>3 DEF Tame, SlotRefs, Attached
<1> PICK e : e = kref_put(d)
  OBVIOUS
<1>5. /\ Good(e) /\ e.refs = d.refs - 1 /\ e.alive = d.alive /\ e.opened = d.opened
      /\ d.refs > 1 => e.present = d.present
  BY <1>4, PutGood
<1>6. dev' = [dev EXCEPT ![s] = e] /\ e \in Device
  BY <1>2, <1>5 DEF Detach, TypeOK, Good
<1>7. dev'[s] = e /\ \A r \in Slots : r # s => dev'[r] = dev[r]
  BY <1>2, <1>6 DEF TypeOK
<1>8. TypeOK'
  BY <1>1, <1>2, <1>6 DEF TypeOK, AtHub, HubIdle
<1>9. AllGood'
  BY <1>5, <1>7 DEF Inv, AllGood
<1>10. RefsInv'
  <2> SUFFICES ASSUME NEW r \in Slots
               PROVE  SlotRefs(r)'
    BY DEF RefsInv
  <2>1. CASE r = s
    <3>1. ~Attached(s)' /\ ~dev'[s].alive
      BY <1>1, <1>2, <1>3, <1>5, <1>7 DEF Attached, HubIdle, SlotRefs, Tame
    <3>2. dev[s].refs \in Nat /\ d.refs = dev[s].refs
      BY <1>2, <1>3, Numbers DEF Tame, Good, Counts
    <3>3. ASSUME NEW f \in Files, file'[f] = s
          PROVE  dev'[s].present /\ dev'[s].opened /\ dev'[s].refs >= 1
      <4>1. dev[s].present /\ dev[s].opened /\ dev[s].refs >= 2
        BY <1>1, <1>2, <3>3 DEF SlotRefs, Attached
      <4>2. d.present /\ d.opened /\ d.refs > 1
        BY <1>3, <3>2, <4>1 DEF Tame
      <4>3. e.refs >= 1
        BY <1>5, <3>2, <4>1
      <4> QED
        BY <1>5, <1>7, <4>2, <4>3
    <3> QED
      BY <2>1, <3>1, <3>3 DEF SlotRefs
  <2>2. CASE r # s
    <3>1. SlotRefs(r) /\ dev'[r] = dev[r]
      BY <1>7, <2>2 DEF Inv, RefsInv
    <3>2. (Attached(r)' => Attached(r)) /\ hub'.slot # r
      BY <1>1, Cm19aDriverAssumption DEF Attached, HubIdle
    <3> QED
      BY <1>1, <3>1, <3>2 DEF SlotRefs
  <2> QED
    BY <2>1, <2>2
<1>11. HubInv'
  BY <1>1 DEF HubInv, HubIdle
<1>12. CallInv'
  <2> SUFFICES ASSUME NEW t \in Threads
               PROVE  CallOK(t)'
    BY DEF CallInv
  <2>1. CallOK(t) /\ t # "nobody"
    BY Cm19aDriverAssumption DEF Inv, CallInv
  <2>2. call[t].at # "opening"
    BY <1>1, <2>1, Cm19aDriverAssumption DEF CallOK, Inv, HubInv
  <2>3. Holding(t) => dev'[call[t].slot] = dev[call[t].slot]
    BY <1>1, <1>2, <1>7, <2>1 DEF CallOK, Holding, TypeOK
  <2> QED
    BY <1>1, <2>1, <2>2, <2>3 DEF CallOK, Holding
<1>13. OneOpener'
  BY <1>1 DEF Inv, OneOpener
<1> QED
  BY <1>8, <1>9, <1>10, <1>11, <1>12, <1>13 DEF Inv

-----------------------------------------------------------------------------
(***************************************************************************)
(* Opening and closing.                                                    *)
(***************************************************************************)
(* What a call of a thread may become.                                      *)
LEMMA CallTypes ==
  ASSUME TypeOK, NEW t \in Threads, NEW p \in Places
  PROVE  /\ Idle \in Call
         /\ [call[t] EXCEPT !.at = p] \in Call
         /\ \A s \in Slots, f \in Files, n \in ReadLens :
              [at |-> p, file |-> f, slot |-> s, len |-> n] \in Call
BY Cm19aDriverAssumption DEF TypeOK, Idle, Call, Places

(* The calls, when a thread has none any more.                              *)
LEMMA IdleStep ==
  ASSUME Inv, NEW t \in Threads, call' = [call EXCEPT ![t] = Idle],
         UNCHANGED bound,
         \A r \in Slots : dev[r].mutex \notin {"nobody", t} => dev'[r] = dev[r],
         disconnMutex' = disconnMutex \/ disconnMutex \in {"nobody", t},
         \A f \in Files : file[f] # 0 /\ (call[t].at = "releasing" => f # call[t].file)
                            => file'[f] = file[f]
  PROVE  CallInv' /\ call' \in [Threads -> Call]
<1>1. Idle \in Call /\ call \in [Threads -> Call]
  BY CallTypes DEF Inv, TypeOK, Places
<1>2. \A u \in Threads \ {t} : call[u].at = "releasing" => call[u].file # Idle.file
  <2> TAKE u \in Threads \ {t}
  <2>1. CallOK(u)
    BY DEF Inv, CallInv
  <2> QED
    BY <2>1, Cm19aDriverAssumption DEF CallOK, Idle
<1>3. \A u \in Threads : u # t => CallOK(u)'
  <2> PICK c : c = Idle
    OBVIOUS
  <2> QED
    BY <1>2, OthersStep
<1>4. call'[t] = Idle
  BY <1>1
<1>5. CallOK(t)'
  BY <1>4 DEF CallOK, Idle, Holding
<1> QED
  BY <1>1, <1>3, <1>5 DEF CallInv

(* A call of devf_open begins, with disconnMutex.                           *)
LEMMA OpenInv ==
  ASSUME Inv, NEW t \in Threads, Open(t)
  PROVE  Inv'
<1> PICK s \in bound : call' = [call EXCEPT ![t] = [Idle EXCEPT !.at = "opening", !.slot = s]]
  BY DEF Open
<1> PICK c : c = [Idle EXCEPT !.at = "opening", !.slot = s]
  OBVIOUS
<1>1. /\ call[t] = Idle /\ disconnMutex = "nobody" /\ disconnMutex' = t
      /\ call' = [call EXCEPT ![t] = c] /\ UNCHANGED <<dev, bound, hub, file>>
  BY DEF Open
<1>2. TypeOK /\ s \in Slots
  BY DEF Inv, TypeOK
<1>3. c \in Call /\ c.at = "opening" /\ c.slot = s /\ c.file = 0
  BY <1>2, Cm19aDriverAssumption DEF Idle, Call, Places
<1>4. call' \in [Threads -> Call] /\ call'[t] = c
  BY <1>1, <1>2, <1>3 DEF TypeOK
<1>5. TypeOK'
  BY <1>1, <1>2, <1>4 DEF TypeOK
<1>6. DevInv'
  BY <1>1, StillStep
<1>7. HubInv'
  BY <1>1 DEF Inv, HubInv
<1>8. \A u \in Threads \ {t} : call[u].at = "releasing" => call[u].file # c.file
  <2> TAKE u \in Threads \ {t}
  <2>1. CallOK(u)
    BY DEF Inv, CallInv
  <2> QED
    BY <1>3, <2>1, Cm19aDriverAssumption DEF CallOK
<1>9. \A u \in Threads : u # t => CallOK(u)'
  BY <1>1, <1>8, OthersStep
<1>10. CallOK(t)'
  BY <1>1, <1>3, <1>4 DEF CallOK, Holding
<1>11. OneOpener'
  BY <1>1 DEF Inv, OneOpener
<1> QED
  BY <1>5, <1>6, <1>7, <1>9, <1>10, <1>11 DEF Inv, CallInv, DevInv

(* What every end of devf_open but success comes to.                        *)
LEMMA OpenEnds ==
  ASSUME Inv, NEW t \in Threads, call[t].at = "opening",
         NEW e, Tame(dev[call[t].slot], e),
         e = dev[call[t].slot] \/ dev[call[t].slot].mutex = "nobody",
         dev' = [dev EXCEPT ![call[t].slot] = e],
         disconnMutex' = "nobody", call' = [call EXCEPT ![t] = Idle],
         UNCHANGED <<bound, hub, file>>
  PROVE  Inv'
<1> PICK s : s = call[t].slot
  OBVIOUS
<1>1. TypeOK /\ CallOK(t)
  BY DEF Inv, CallInv
<1>2. s \in Slots /\ disconnMutex = t /\ t # "hub"
  BY <1>1, Cm19aDriverAssumption DEF CallOK, TypeOK
<1>3. DevInv'
  BY <1>2, TameStep
<1>4. CallInv' /\ call' \in [Threads -> Call]
  <2>1. \A r \in Slots : dev[r].mutex \notin {"nobody", t} => dev'[r] = dev[r]
    BY <1>1, <1>2 DEF TypeOK
  <2> QED
    BY <1>2, <2>1, IdleStep
<1>5. TypeOK'
  BY <1>1, <1>3, <1>4 DEF TypeOK, DevInv
<1>6. HubInv'
  BY <1>2 DEF Inv, HubInv
<1>7. OneOpener'
  BY DEF Inv, OneOpener
<1> QED
  BY <1>3, <1>4, <1>5, <1>6, <1>7 DEF Inv, DevInv

(* devf_open, when the URB cannot be submitted.                             *)
LEMMA OpenFailsInv ==
  ASSUME Inv, NEW t \in Threads, OpenFails(t)
  PROVE  Inv'
<1> PICK s : s = call[t].slot
  OBVIOUS
<1>1. /\ call[t].at = "opening" /\ dev[s].mutex = "nobody" /\ disconnMutex' = "nobody"
      /\ call' = [call EXCEPT ![t] = Idle] /\ UNCHANGED <<bound, hub, file>>
      /\ dev' = [dev EXCEPT ![s].connected = FALSE, ![s].done = FALSE]
  BY DEF OpenFails, OpenReaches
<1>2. dev \in [Slots -> Device] /\ s \in Slots /\ Good(dev[s])
  BY <1>1 DEF Inv, TypeOK, CallInv, CallOK, AllGood
<1> PICK e : e = [dev[s] EXCEPT !.connected = FALSE, !.done = FALSE]
  OBVIOUS
<1>3. Tame(dev[s], e)
  BY <1>2, FailedTame
<1>4. dev' = [dev EXCEPT ![s] = e]
  BY <1>1, <1>2
<1> QED
  BY <1>1, <1>3, <1>4, OpenEnds

(* devf_open, when the device is open already.                              *)
LEMMA OpenIsBusyInv ==
  ASSUME Inv, NEW t \in Threads, OpenIsBusy(t)
  PROVE  Inv'
<1> PICK s : s = call[t].slot
  OBVIOUS
<1>1. /\ call[t].at = "opening" /\ dev[s].mutex = "nobody" /\ disconnMutex' = "nobody"
      /\ call' = [call EXCEPT ![t] = Idle] /\ UNCHANGED <<bound, hub, file>>
      /\ dev' = [dev EXCEPT ![s] = [Submitted(@) EXCEPT !.mutex = "lost"]]
      /\ dev[s].alive
  BY DEF OpenIsBusy, OpenReaches
<1>2. dev \in [Slots -> Device] /\ s \in Slots /\ Good(dev[s])
  BY <1>1 DEF Inv, TypeOK, CallInv, CallOK, AllGood
<1> PICK d : d = Submitted(dev[s])
  OBVIOUS
<1> PICK e : e = [d EXCEPT !.mutex = "lost"]
  OBVIOUS
<1>3. Tame(dev[s], d)
  BY <1>1, <1>2, SubmittedTame
<1>4. Tame(d, e)
  BY SMTT(30), <1>3, LockTame DEF Holders, Tame
<1>5. Tame(dev[s], e)
  BY <1>3, <1>4 DEF Tame
<1>6. dev' = [dev EXCEPT ![s] = e]
  BY <1>1, <1>2
<1> QED
  BY <1>1, <1>5, <1>6, OpenEnds

(* devf_open, when a signal comes.                                          *)
LEMMA OpenInterruptedInv ==
  ASSUME Inv, NEW t \in Threads, OpenInterrupted(t)
  PROVE  Inv'
<1> PICK s : s = call[t].slot
  OBVIOUS
<1>1. /\ call[t].at = "opening" /\ disconnMutex' = "nobody"
      /\ call' = [call EXCEPT ![t] = Idle] /\ UNCHANGED <<dev, bound, hub, file>>
  BY DEF OpenInterrupted
<1>2. dev \in [Slots -> Device] /\ s \in Slots /\ Good(dev[s])
  BY <1>1 DEF Inv, TypeOK, CallInv, CallOK, AllGood
<1>3. Tame(dev[s], dev[s]) /\ dev' = [dev EXCEPT ![s] = dev[s]]
  BY <1>1, <1>2 DEF Tame
<1> QED
  BY <1>1, <1>3, OpenEnds

(* devf_open: no file referred to the device, and now one does.             *)
LEMMA OpenSucceedsInv ==
  ASSUME Inv, NEW t \in Threads, OpenSucceeds(t)
  PROVE  Inv'
<1> PICK s : s = call[t].slot
  OBVIOUS
<1>1. /\ call[t].at = "opening" /\ dev[s].mutex = "nobody" /\ disconnMutex' = "nobody"
      /\ call' = [call EXCEPT ![t] = Idle] /\ UNCHANGED <<bound, hub>>
      /\ dev' = [dev EXCEPT ![s] = Opened(Submitted(@))]
      /\ dev[s].alive /\ ~dev[s].opened
  BY DEF OpenSucceeds, OpenReaches, IsOpened
<1> PICK f \in Files : file[f] = 0 /\ file' = [file EXCEPT ![f] = s]
  BY DEF OpenSucceeds
<1>2. TypeOK /\ s \in Slots /\ Good(dev[s]) /\ SlotRefs(s) /\ CallOK(t) /\ s \in bound
  BY <1>1 DEF Inv, TypeOK, CallInv, CallOK, AllGood, RefsInv
<1> PICK d : d = Submitted(dev[s])
  OBVIOUS
<1> PICK e : e = Opened(d)
  OBVIOUS
<1>3. Tame(dev[s], d)
  BY <1>1, <1>2, SubmittedTame
<1>4. /\ Good(e) /\ e.present = d.present /\ e.alive = d.alive /\ e.opened = TRUE
      /\ e.refs = d.refs + 1
  BY <1>3, OpenedGood DEF Tame
<1>5. dev' = [dev EXCEPT ![s] = e] /\ e \in Device
  BY <1>1, <1>2, <1>4 DEF TypeOK, Good
<1>6. dev'[s] = e /\ \A r \in Slots : r # s => dev'[r] = dev[r]
  BY <1>2, <1>5 DEF TypeOK
<1>7. file'[f] = s /\ \A g \in Files : g # f => file'[g] = file[g]
  BY <1>2 DEF TypeOK
<1>8. AllGood'
  BY <1>4, <1>6 DEF Inv, AllGood
<1>9. e.present /\ e.opened /\ e.refs >= 2
  <2>1. dev[s].present /\ dev[s].refs >= 1 /\ dev[s].refs \in Nat
    BY <1>2, Numbers DEF SlotRefs, Attached, Good, Counts
  <2>2. d.present /\ d.refs = dev[s].refs
    BY <1>3, <2>1 DEF Tame
  <2> QED
    BY <1>4, <2>1, <2>2
<1>10. RefsInv'
  <2> SUFFICES ASSUME NEW r \in Slots
               PROVE  SlotRefs(r)'
    BY DEF RefsInv
  <2>1. SlotRefs(r)
    BY DEF Inv, RefsInv
  <2>2. CASE r = s
    <3>1. e.refs >= 1 /\ (e.alive => dev[s].alive)
      BY <1>3, <1>4, <1>9, Numbers DEF Tame, Good, Counts
    <3> QED
      BY <1>1, <1>2, <1>6, <1>9, <2>1, <2>2, <3>1 DEF SlotRefs, Attached
  <2>3. CASE r # s
    BY <1>1, <1>6, <1>7, <2>1, <2>3 DEF SlotRefs, Attached
  <2> QED
    BY <2>2, <2>3
<1>11. disconnMutex = t /\ t # "hub"
  BY <1>1, <1>2, Cm19aDriverAssumption DEF CallOK
<1>12. CallInv' /\ call' \in [Threads -> Call]
  <2>1. \A r \in Slots : dev[r].mutex \notin {"nobody", t} => dev'[r] = dev[r]
    BY <1>1, <1>6
  <2>2. \A g \in Files : file[g] # 0 => file'[g] = file[g]
    BY <1>7
  <2> QED
    BY <1>1, <1>11, <2>1, <2>2, IdleStep
<1>13. TypeOK'
  BY <1>1, <1>2, <1>5, <1>12 DEF TypeOK
<1>14. HubInv'
  BY <1>1, <1>11 DEF Inv, HubInv
<1>15. OneOpener'
  <2>1. \A g \in Files : file[g] # s
    BY <1>1, <1>2 DEF SlotRefs
  <2> QED
    BY <1>7, <2>1 DEF Inv, OneOpener
<1> QED
  BY <1>8, <1>10, <1>12, <1>13, <1>14, <1>15 DEF Inv

(* The last close of a file, with no other call on it.                      *)
LEMMA CloseInv ==
  ASSUME Inv, NEW t \in Threads, Close(t)
  PROVE  Inv'
<1> PICK f \in Files : /\ file[f] # 0 /\ \A u \in Threads : call[u].file # f
                       /\ call' = [call EXCEPT ![t] = [Idle EXCEPT !.at = "releasing",
                                     !.file = f, !.slot = file[f]]]
  BY DEF Close
<1> PICK c : c = [Idle EXCEPT !.at = "releasing", !.file = f, !.slot = file[f]]
  OBVIOUS
<1>1. /\ call[t] = Idle /\ call' = [call EXCEPT ![t] = c]
      /\ UNCHANGED <<dev, bound, disconnMutex, hub, file>>
  BY DEF Close
<1>2. TypeOK
  BY DEF Inv
<1>3. c \in Call /\ c.at = "releasing" /\ c.slot = file[f] /\ c.file = f
  BY <1>2, Cm19aDriverAssumption DEF Idle, Call, Places, TypeOK
<1>4. call' \in [Threads -> Call] /\ call'[t] = c
  BY <1>1, <1>2, <1>3 DEF TypeOK
<1>5. TypeOK'
  BY <1>1, <1>2, <1>4 DEF TypeOK
<1>6. DevInv'
  BY <1>1, StillStep
<1>7. HubInv'
  BY <1>1 DEF Inv, HubInv
<1>8. \A u \in Threads : u # t => CallOK(u)'
  <2>1. \A u \in Threads \ {t} : call[u].at = "releasing" => call[u].file # c.file
    BY <1>3
  <2> QED
    BY ZenonT(60), <1>1, <2>1, OthersStep
<1>9. CallOK(t)'
  <2>1. \A u \in Threads : u # t => call'[u].file # f
    BY <1>1, <1>2 DEF TypeOK
  <2> QED
    BY <1>1, <1>3, <1>4, <2>1 DEF CallOK, Holding
<1>10. OneOpener'
  BY <1>1 DEF Inv, OneOpener
<1> QED
  BY <1>5, <1>6, <1>7, <1>8, <1>9, <1>10 DEF Inv, CallInv, DevInv

(* A file that is closed no longer refers to anything.                      *)
LEMMA ClosedFile ==
  ASSUME Inv, NEW t \in Threads, call[t].at = "releasing",
         file' = [file EXCEPT ![call[t].file] = 0]
  PROVE  LET f == call[t].file
         IN  /\ f \in Files /\ file[f] = call[t].slot /\ file[f] \in Slots
             /\ file' \in [Files -> Slots \cup {0}]
             /\ file'[f] = 0 /\ \A g \in Files : g # f => file'[g] = file[g]
             /\ \A g \in Files : file'[g] # call[t].slot
             /\ OneOpener'
<1> PICK f : f = call[t].file
  OBVIOUS
<1>1. CallOK(t) /\ TypeOK /\ OneOpener
  BY DEF Inv, CallInv
<1>2. f \in Files /\ file[f] = call[t].slot /\ file[f] # 0 /\ file[f] \in Slots
  BY <1>1 DEF CallOK, TypeOK
<1>3. /\ file' \in [Files -> Slots \cup {0}]
      /\ file'[f] = 0 /\ \A g \in Files : g # f => file'[g] = file[g]
  BY <1>1, <1>2 DEF TypeOK
<1>4. \A g \in Files : file'[g] # call[t].slot
  BY <1>1, <1>2, <1>3 DEF OneOpener
<1>5. OneOpener'
  BY <1>1, <1>3 DEF OneOpener
<1> QED
  BY <1>2, <1>3, <1>4, <1>5

(* devf_release: the reference of the file is given back.                   *)
LEMMA ReleaseInv ==
  ASSUME Inv, NEW t \in Threads, Release(t)
  PROVE  Inv'
<1> PICK s : s = call[t].slot
  OBVIOUS
<1> PICK f : f = call[t].file
  OBVIOUS
<1>1. /\ call[t].at = "releasing" /\ dev[s].mutex = "nobody"
      /\ file' = [file EXCEPT ![f] = 0]
      /\ call' = [call EXCEPT ![t] = Idle]
      /\ UNCHANGED <<bound, disconnMutex, hub>>
      /\ dev' = [dev EXCEPT ![s] =
                   kref_put([x10_cm19a_device_abort_xfers(@) EXCEPT !.opened = FALSE])]
  BY DEF Release
<1>2. /\ f \in Files /\ file[f] = s /\ s \in Slots /\ file' \in [Files -> Slots \cup {0}]
      /\ file'[f] = 0 /\ \A g \in Files : g # f => file'[g] = file[g]
      /\ \A g \in Files : file'[g] # s
      /\ OneOpener'
  BY <1>1, ClosedFile
<1>3. TypeOK /\ Good(dev[s]) /\ SlotRefs(s)
  BY <1>2 DEF Inv, AllGood, RefsInv
<1> PICK a : a = x10_cm19a_device_abort_xfers(dev[s])
  OBVIOUS
<1>4. Tame(dev[s], a)
  BY <1>3, AbortTame
<1> PICK d : d = [a EXCEPT !.opened = FALSE]
  OBVIOUS
<1>5. Good(d) /\ d.refs = a.refs /\ d.present = a.present /\ d.alive = a.alive
  BY <1>4, ClosedGood DEF Tame
<1> PICK e : e = kref_put(d)
  BY SMTT(30)
<1>6. dev[s].refs \in Nat /\ d.refs = dev[s].refs /\ d.refs >= 1
  BY <1>2, <1>3, <1>4, <1>5, Numbers DEF Tame, Good, Counts, SlotRefs
<1>7. /\ Good(e) /\ e.refs = d.refs - 1 /\ e.alive = d.alive
      /\ d.refs > 1 => e.present = d.present
  BY <1>5, <1>6, PutGood
<1>8. dev' = [dev EXCEPT ![s] = e] /\ e \in Device
  BY <1>1, <1>2, <1>3, <1>7 DEF TypeOK, Good
<1>9. dev'[s] = e /\ \A r \in Slots : r # s => dev'[r] = dev[r]
  BY <1>2, <1>3, <1>8 DEF TypeOK
<1>10. AllGood'
  BY <1>7, <1>9 DEF Inv, AllGood
<1>11. RefsInv'
  <2> SUFFICES ASSUME NEW r \in Slots
               PROVE  SlotRefs(r)'
    BY DEF RefsInv
  <2>1. SlotRefs(r)
    BY SMTT(30) DEF Inv, RefsInv
  <2>2. CASE r = s
    <3>1. ASSUME Attached(s)
          PROVE  e.present /\ e.refs >= 1
      <4>1. dev[s].refs >= 2 /\ dev[s].present
        BY <1>2, <1>3, <3>1 DEF SlotRefs
      <4>2. d.refs > 1 /\ e.refs >= 1
        BY <1>6, <1>7, <4>1
      <4> QED
        BY <1>4, <1>5, <1>7, <4>1, <4>2 DEF Tame
    <3>2. Attached(s)' = Attached(s)
      BY <1>1 DEF Attached
    <3>3. e.alive => dev[s].alive
      BY <1>4, <1>5, <1>7 DEF Tame
    <3> QED
      BY SMTT(30), <1>1, <1>2, <1>9, <2>1, <2>2, <3>1, <3>2, <3>3 DEF SlotRefs
  <2>3. CASE r # s
    <3>1. dev'[r] = dev[r] /\ Attached(r)' = Attached(r)
      BY <1>1, <1>9, <2>3 DEF Attached
    <3>2. \A g \in Files : file'[g] = r => file[g] = r
      BY <1>2, Cm19aDriverAssumption
    <3> QED
      BY <1>1, <2>1, <3>1, <3>2 DEF SlotRefs
  <2> QED
    BY <2>2, <2>3
<1>12. CallInv' /\ call' \in [Threads -> Call]
  <2>1. \A r \in Slots : dev[r].mutex \notin {"nobody", t} => dev'[r] = dev[r]
    BY <1>1, <1>9
  <2> QED
    BY <1>1, <1>2, <2>1, IdleStep
<1>13. TypeOK'
  BY <1>1, <1>2, <1>3, <1>8, <1>12 DEF TypeOK
<1>14. HubInv'
  BY <1>1 DEF Inv, HubInv
<1> QED
  BY <1>2, <1>10, <1>11, <1>12, <1>13, <1>14 DEF Inv

(* devf_release, when a signal comes: the reference remains.                *)
LEMMA ReleaseInterruptedInv ==
  ASSUME Inv, NEW t \in Threads, ReleaseInterrupted(t)
  PROVE  Inv'
<1> PICK f : f = call[t].file
  OBVIOUS
<1>1. /\ call[t].at = "releasing"
      /\ file' = [file EXCEPT ![f] = 0]
      /\ call' = [call EXCEPT ![t] = Idle]
      /\ UNCHANGED <<dev, bound, disconnMutex, hub>>
  BY DEF ReleaseInterrupted
<1>2. /\ f \in Files /\ file' \in [Files -> Slots \cup {0}]
      /\ file'[f] = 0 /\ \A g \in Files : g # f => file'[g] = file[g]
      /\ OneOpener'
  BY <1>1, ClosedFile
<1>3. RefsInv'
  <2> SUFFICES ASSUME NEW r \in Slots
               PROVE  SlotRefs(r)'
    BY DEF RefsInv
  <2>1. SlotRefs(r) /\ Attached(r)' = Attached(r)
    BY <1>1 DEF Inv, RefsInv, Attached
  <2>2. \A g \in Files : file'[g] = r => file[g] = r
    BY <1>2, Cm19aDriverAssumption
  <2> QED
    BY <1>1, <2>1, <2>2 DEF SlotRefs
<1>4. CallInv' /\ call' \in [Threads -> Call]
  BY <1>1, <1>2, IdleStep
<1>5. TypeOK'
  BY <1>1, <1>2, <1>4 DEF Inv, TypeOK
<1>6. HubInv'
  BY <1>1 DEF Inv, HubInv
<1>7. AllGood'
  BY <1>1 DEF Inv, AllGood
<1> QED
  BY <1>2, <1>3, <1>4, <1>5, <1>6, <1>7 DEF Inv

-----------------------------------------------------------------------------
(***************************************************************************)
(* Reading and writing.                                                    *)
(***************************************************************************)
(* A thread with the mutex, or about to take it, goes on or returns.        *)
LEMMA CallGoesOn ==
  ASSUME Inv, NEW t \in Threads, call[t].at \notin {"idle", "opening", "releasing"},
         NEW e, Tame(dev[call[t].slot], e),
         e = dev[call[t].slot] \/ dev[call[t].slot].mutex \in {"nobody", t},
         dev' = [dev EXCEPT ![call[t].slot] = e],
         NEW c \in Call, call' = [call EXCEPT ![t] = c],
         \/ c = Idle
         \/ /\ c.at \in {"read", "waiting", "ready", "moving", "submitting"}
            /\ c.file = call[t].file /\ c.slot = call[t].slot
            /\ c.at # "read" => e.mutex = t
            /\ c.at = "ready" => 1 <= e.ready
            /\ c.at = "moving" => c.len <= e.ready,
         UNCHANGED <<bound, disconnMutex, hub, file>>
  PROVE  Inv'
<1> PICK s : s = call[t].slot
  OBVIOUS
<1>1. TypeOK /\ CallOK(t)
  BY DEF Inv, CallInv
<1>2. s \in Slots /\ call[t].file \in Files
  BY <1>1 DEF CallOK, TypeOK
<1>3. DevInv'
  BY <1>2, TameStep
<1>4. call' \in [Threads -> Call] /\ call'[t] = c /\ dev'[s] = e
  BY <1>1, <1>2 DEF TypeOK
<1>5. TypeOK'
  BY <1>1, <1>3, <1>4 DEF TypeOK, DevInv
<1>6. HubInv' /\ OneOpener'
  BY DEF Inv, HubInv, OneOpener
<1>7. \A u \in Threads : u # t => CallOK(u)'
  <2>1. \A r \in Slots : dev[r].mutex \notin {"nobody", t} => dev'[r] = dev[r]
    BY <1>1, <1>2 DEF TypeOK
  <2>2. \A u \in Threads \ {t} : call[u].at = "releasing" => call[u].file # c.file
    <3> SUFFICES ASSUME NEW u \in Threads \ {t}, call[u].at = "releasing"
                 PROVE  call[u].file # c.file
      OBVIOUS
    <3>1. CallOK(u)
      BY DEF Inv, CallInv
    <3>2. call[u].file \in Files /\ call[u].file # call[t].file
      BY <3>1 DEF CallOK
    <3>3. c.file = 0 \/ c.file = call[t].file
      BY DEF Idle
    <3> QED
      BY <3>2, <3>3, Cm19aDriverAssumption
  <2> QED
    BY <2>1, <2>2, OthersStep
<1>8. CallOK(t)'
  <2>1. CASE c = Idle
    BY <1>4, <2>1 DEF CallOK, Idle, Holding
  <2>2. CASE c # Idle
    <3>1. call[t].slot = file[call[t].file] /\ call[t].slot # 0
      BY <1>1 DEF CallOK
    <3> QED
      BY <1>2, <1>4, <2>2, <3>1 DEF CallOK, Holding
  <2> QED
    BY <2>1, <2>2
<1> QED
  BY <1>3, <1>5, <1>6, <1>7, <1>8 DEF Inv, CallInv, DevInv

(* What a call in the device knows.                                         *)
LEMMA InCall ==
  ASSUME Inv, NEW t \in Threads, call[t].at \notin {"idle", "opening"}
  PROVE  LET s == call[t].slot
         IN  /\ s \in Slots /\ Good(dev[s]) /\ dev \in [Slots -> Device]
             /\ call[t].file \in Files /\ call[t] \in Call /\ call \in [Threads -> Call]
             /\ Holding(t) => dev[s].mutex = t
             /\ call[t].at = "ready" => 1 <= dev[s].ready
             /\ call[t].at = "moving" => call[t].len <= dev[s].ready
<1>1. TypeOK /\ CallOK(t) /\ AllGood
  BY DEF Inv, CallInv
<1>2. call[t].slot \in Slots /\ call[t].file \in Files
  BY <1>1 DEF CallOK, TypeOK
<1>3. /\ Holding(t) => dev[call[t].slot].mutex = t
      /\ call[t].at = "ready" => 1 <= dev[call[t].slot].ready
      /\ call[t].at = "moving" => call[t].len <= dev[call[t].slot].ready
  BY <1>1 DEF CallOK
<1> QED
  BY <1>1, <1>2, <1>3 DEF TypeOK, AllGood

(* A call on an open file begins.                                           *)
LEMMA BeginInv ==
  ASSUME Inv, NEW t \in Threads, NEW p \in {"read", "write"}, Begin(t, p)
  PROVE  Inv'
<1> PICK f \in Files, n \in ReadLens :
           /\ Usable(f)
           /\ call' = [call EXCEPT ![t] = [at |-> p, file |-> f, slot |-> file[f], len |-> n]]
  BY DEF Begin
<1> PICK c : c = [at |-> p, file |-> f, slot |-> file[f], len |-> n]
  OBVIOUS
<1>1. /\ call[t] = Idle /\ call' = [call EXCEPT ![t] = c]
      /\ UNCHANGED <<dev, bound, disconnMutex, hub, file>>
  BY DEF Begin
<1>2. TypeOK /\ file[f] # 0 /\ file[f] \in Slots
  BY DEF Inv, TypeOK, Usable
<1>n. n \in Nat \ {0}
  BY Cm19aDriverAssumption
<1>3. c \in Call /\ c.at = p /\ c.slot = file[f] /\ c.file = f
  BY <1>2, <1>n DEF Call, Places
<1>4. call' \in [Threads -> Call] /\ call'[t] = c
  BY <1>1, <1>2, <1>3 DEF TypeOK
<1>5. TypeOK'
  BY <1>1, <1>2, <1>4 DEF TypeOK
<1>6. DevInv'
  BY <1>1, StillStep
<1>7. HubInv' /\ OneOpener'
  BY <1>1 DEF Inv, HubInv, OneOpener
<1>8. \A u \in Threads : u # t => CallOK(u)'
  <2>1. \A u \in Threads \ {t} : call[u].at = "releasing" => call[u].file # c.file
    BY <1>3 DEF Usable
  <2> QED
    BY <1>1, <2>1, OthersStep
<1>9. CallOK(t)'
  BY <1>1, <1>2, <1>3, <1>4 DEF CallOK, Holding
<1> QED
  BY <1>5, <1>6, <1>7, <1>8, <1>9 DEF Inv, CallInv, DevInv

(* A look at the buffer by the thread that holds the mutex.                 *)
LEMMA LookInv ==
  ASSUME Inv, NEW t \in Threads, call[t].at \in {"read", "waiting"},
         NEW d, Tame(dev[call[t].slot], d), d.mutex = t,
         dev[call[t].slot].mutex \in {"nobody", t}, Look(t, d)
  PROVE  Inv'
<1> PICK s : s = call[t].slot
  OBVIOUS
<1> PICK e : e = check_read_buffer(d)
  OBVIOUS
<1> PICK p : p = IF e.ready = 0 THEN "waiting" ELSE "ready"
  OBVIOUS
<1> PICK c : c = [call[t] EXCEPT !.at = p]
  OBVIOUS
<1>1. /\ s \in Slots /\ dev \in [Slots -> Device]
      /\ call[t] \in Call /\ call \in [Threads -> Call]
  BY InCall
<1>2. /\ dev' = [dev EXCEPT ![s] = e] /\ call' = [call EXCEPT ![t] = c]
      /\ UNCHANGED <<bound, disconnMutex, hub, file>>
  BY <1>1 DEF Look, Go
<1>3. Tame(d, e) /\ Alike(d, e)
  BY CheckTame DEF Tame
<1>4. Tame(dev[s], e) /\ e.mutex = t
  BY <1>3 DEF Tame, Alike
<1>5. c \in Call /\ c.at = p /\ c.file = call[t].file /\ c.slot = s
  BY <1>1 DEF Call, Places
<1>6. p = "ready" => 1 <= e.ready
  <2>1. e.ready \in Nat
    BY <1>4, Numbers DEF Tame, Good, Counts
  <2> QED
    BY <2>1
<1>7. /\ call[t].at \notin {"idle", "opening", "releasing"}
      /\ c.at \in {"read", "waiting", "ready", "moving", "submitting"}
      /\ c.at # "read" => e.mutex = t
      /\ c.at = "ready" => 1 <= e.ready
      /\ c.at = "moving" => c.len <= e.ready
  BY <1>4, <1>5, <1>6
<1>8. e = dev[s] \/ dev[s].mutex \in {"nobody", t}
  OBVIOUS
<1> HIDE DEF Look
<1> QED
  BY ZenonT(60), <1>2, <1>4, <1>5, <1>7, <1>8, CallGoesOn

(* The first look.                                                          *)
LEMMA ReadLocksInv ==
  ASSUME Inv, NEW t \in Threads, ReadLocks(t)
  PROVE  Inv'
<1> PICK s : s = call[t].slot
  OBVIOUS
<1> PICK d : d = [dev[s] EXCEPT !.mutex = t]
  OBVIOUS
<1>1. call[t].at = "read" /\ dev[s].mutex = "nobody" /\ Look(t, d)
  BY DEF ReadLocks
<1>2. Good(dev[s])
  BY <1>1, InCall
<1>3. Tame(dev[s], d) /\ d.mutex = t
  BY <1>2, LockTame DEF Holders
<1> QED
  BY <1>1, <1>3, LookInv

(* A look after the wait.                                                   *)
LEMMA ReadWaitsInv ==
  ASSUME Inv, NEW t \in Threads, ReadWaits(t)
  PROVE  Inv'
<1> PICK s : s = call[t].slot
  OBVIOUS
<1>1. call[t].at = "waiting" /\ Look(t, dev[s])
  BY DEF ReadWaits
<1>2. Good(dev[s]) /\ dev[s].mutex = t
  BY <1>1, InCall DEF Holding
<1>3. Tame(dev[s], dev[s])
  BY <1>2 DEF Tame
<1> QED
  BY <1>1, <1>2, <1>3, LookInv

(* The thread that holds the mutex returns.                                 *)
LEMMA ReturnInv ==
  ASSUME Inv, NEW t \in Threads, Holding(t),
         NEW d, Tame(dev[call[t].slot], d), Return(t, d),
         UNCHANGED <<bound, disconnMutex, hub, file>>
  PROVE  Inv'
<1> PICK s : s = call[t].slot
  OBVIOUS
<1> PICK e : e = [d EXCEPT !.mutex = "nobody"]
  OBVIOUS
<1> PICK c : c = Idle
  OBVIOUS
<1>1. dev' = [dev EXCEPT ![s] = e] /\ call' = [call EXCEPT ![t] = c]
  BY DEF Return
<1>2. call[t].at \notin {"idle", "opening", "releasing"}
  BY DEF Holding
<1>3. dev[s].mutex = t
  BY <1>2, InCall
<1>4. Tame(d, e)
  BY LockTame DEF Tame, Holders
<1>5. Tame(dev[s], e)
  BY <1>4 DEF Tame
<1>6. c \in Call
  BY CallTypes DEF Inv, Places
<1> QED
  BY <1>1, <1>2, <1>3, <1>5, <1>6, CallGoesOn

(* A reader counts what it will take off: something, and what is there.     *)
LEMMA ReadCountsInv ==
  ASSUME Inv, NEW t \in Threads, ReadCounts(t)
  PROVE  Inv'
<1> PICK s : s = call[t].slot
  OBVIOUS
<1> PICK n : n = Least(call[t].len, dev[s].ready)
  OBVIOUS
<1> PICK e : e = dev[s]
  OBVIOUS
<1> PICK c : c = [call[t] EXCEPT !.at = "moving", !.len = n]
  OBVIOUS
<1>1. /\ call[t].at = "ready"
      /\ call' = [call EXCEPT ![t].at = "moving",
                              ![t].len = Least(@, dev[call[t].slot].ready)]
      /\ UNCHANGED <<dev, bound, disconnMutex, hub, file>>
  BY DEF ReadCounts
<1>2. /\ Good(e) /\ 1 <= e.ready /\ e.mutex = t /\ dev \in [Slots -> Device]
      /\ call[t] \in Call /\ call \in [Threads -> Call]
  BY <1>1, InCall DEF Holding
<1>3. e.ready \in Nat /\ call[t].len \in Nat \ {0}
  BY <1>2, Numbers DEF Good, Counts, Call
<1>4. n \in Nat \ {0} /\ n <= e.ready
  BY <1>2, <1>3 DEF Least
<1>5. call' = [call EXCEPT ![t] = c]
  BY <1>1, <1>2
<1>6. c \in Call /\ c.at = "moving" /\ c.file = call[t].file /\ c.slot = s /\ c.len = n
  BY <1>2, <1>4 DEF Call, Places
<1>7. Tame(dev[s], e) /\ dev' = [dev EXCEPT ![s] = e]
  BY <1>1, <1>2 DEF Tame
<1>8. /\ call[t].at \notin {"idle", "opening", "releasing"}
      /\ c.at \in {"read", "waiting", "ready", "moving", "submitting"}
      /\ c.at # "read" => e.mutex = t
      /\ c.at = "ready" => 1 <= e.ready
      /\ c.at = "moving" => c.len <= e.ready
  BY <1>1, <1>2, <1>4, <1>6
<1> QED
  BY ZenonT(60), <1>1, <1>5, <1>6, <1>7, <1>8, CallGoesOn

(* What it has counted is still there, and is taken off.                    *)
LEMMA ReadMovesInv ==
  ASSUME Inv, NEW t \in Threads, ReadMoves(t)
  PROVE  Inv'
<1> PICK s : s = call[t].slot
  OBVIOUS
<1> PICK n : n = call[t].len
  OBVIOUS
<1>1. /\ call[t].at = "moving" /\ Return(t, Moved(dev[s], n))
      /\ UNCHANGED <<bound, disconnMutex, hub, file>>
  BY DEF ReadMoves
<1>2. Good(dev[s]) /\ n <= dev[s].ready /\ call[t] \in Call
  BY <1>1, InCall
<1>3. n \in Nat /\ n >= 1
  BY <1>2 DEF Call
<1>4. Tame(dev[s], Moved(dev[s], n))
  BY <1>2, <1>3, MovedTame
<1> QED
  BY <1>1, <1>4, ReturnInv DEF Holding

(* A writer locks the device.                                               *)
LEMMA WriteLocksInv ==
  ASSUME Inv, NEW t \in Threads, WriteLocks(t)
  PROVE  Inv'
<1> PICK s : s = call[t].slot
  OBVIOUS
<1> PICK e : e = [dev[s] EXCEPT !.mutex = t]
  OBVIOUS
<1> PICK c : c = [call[t] EXCEPT !.at = "submitting"]
  OBVIOUS
<1>1. /\ call[t].at = "write" /\ dev[s].mutex = "nobody" /\ dev' = [dev EXCEPT ![s].mutex = t]
      /\ call' = [call EXCEPT ![t].at = "submitting"]
      /\ UNCHANGED <<bound, disconnMutex, hub, file>>
  BY DEF WriteLocks, Go
<1>2. /\ s \in Slots /\ dev \in [Slots -> Device] /\ Good(dev[s])
      /\ call[t] \in Call /\ call \in [Threads -> Call]
  BY <1>1, InCall
<1>3. Tame(dev[s], e) /\ e.mutex = t
  BY <1>2, LockTame DEF Holders
<1>4. c \in Call /\ c.at = "submitting" /\ c.file = call[t].file /\ c.slot = s
  BY <1>2 DEF Call, Places
<1>5. dev' = [dev EXCEPT ![s] = e] /\ call' = [call EXCEPT ![t] = c]
  BY <1>1, <1>2
<1>6. /\ call[t].at \notin {"idle", "opening", "releasing"}
      /\ c.at \in {"read", "waiting", "ready", "moving", "submitting"}
      /\ c.at # "read" => e.mutex = t
      /\ c.at = "ready" => 1 <= e.ready
      /\ c.at = "moving" => c.len <= e.ready
  BY <1>1, <1>3, <1>4
<1>7. dev[s].mutex \in {"nobody", t} /\ UNCHANGED <<bound, disconnMutex, hub, file>>
  BY <1>1
<1> QED
  BY <1>3, <1>4, <1>5, <1>6, <1>7, CallGoesOn

(* A transfer begins.                                                       *)
LEMMA WriteSubmitsInv ==
  ASSUME Inv, NEW t \in Threads, WriteSubmits(t)
  PROVE  Inv'
<1> PICK s : s = call[t].slot
  OBVIOUS
<1> PICK e : e = [dev[s] EXCEPT !.busy = TRUE, !.sending = TRUE, !.mutex = "nobody"]
  OBVIOUS
<1> PICK c : c = [call[t] EXCEPT !.at = "read", !.len = 1]
  OBVIOUS
<1>1. /\ call[t].at = "submitting" /\ dev[s].alive /\ dev' = [dev EXCEPT ![s] = e]
      /\ call' = [call EXCEPT ![t].at = "read", ![t].len = 1]
      /\ UNCHANGED <<bound, disconnMutex, hub, file>>
  BY DEF WriteSubmits
<1>2. /\ Good(dev[s]) /\ call[t] \in Call /\ call \in [Threads -> Call] /\ dev[s].mutex = t
  BY <1>1, InCall DEF Holding
<1>3. Tame(dev[s], e)
  BY <1>1, <1>2, SendTame
<1>4. c \in Call /\ c.at = "read" /\ c.file = call[t].file /\ c.slot = s
  BY <1>2, Cm19aDriverAssumption DEF Call, Places
<1>5. call' = [call EXCEPT ![t] = c]
  BY <1>1, <1>2
<1>6. /\ call[t].at \notin {"idle", "opening", "releasing"}
      /\ c.at \in {"read", "waiting", "ready", "moving", "submitting"}
      /\ c.at # "read" => e.mutex = t
      /\ c.at = "ready" => 1 <= e.ready
      /\ c.at = "moving" => c.len <= e.ready
  BY <1>1, <1>4
<1> QED
  BY ZenonT(60), <1>1, <1>2, <1>3, <1>4, <1>5, <1>6, CallGoesOn

(* A transfer is refused.                                                   *)
LEMMA WriteIsRefusedInv ==
  ASSUME Inv, NEW t \in Threads, WriteIsRefused(t)
  PROVE  Inv'
<1> PICK s : s = call[t].slot
  OBVIOUS
<1>1. /\ call[t].at = "submitting" /\ ~dev[s].busy /\ Return(t, Refused(dev[s]))
      /\ UNCHANGED <<bound, disconnMutex, hub, file>>
  BY DEF WriteIsRefused
<1>2. Good(dev[s])
  BY <1>1, InCall
<1>3. Tame(dev[s], Refused(dev[s]))
  BY <1>1, <1>2, RefusedTame
<1> QED
  BY <1>1, <1>3, ReturnInv DEF Holding

(* A call ends without a result.                                            *)
LEMMA GiveUpInv ==
  ASSUME Inv, NEW t \in Threads, GiveUp(t)
  PROVE  Inv'
<1> PICK s : s = call[t].slot
  OBVIOUS
<1>1. UNCHANGED <<bound, disconnMutex, hub, file>>
  BY DEF GiveUp
<1>2. CASE call[t].at \in {"read", "write"} /\ call' = [call EXCEPT ![t] = Idle] /\ UNCHANGED dev
  <2>1. Good(dev[s]) /\ dev \in [Slots -> Device]
    BY <1>2, InCall
  <2> PICK e : e = dev[s]
    OBVIOUS
  <2> PICK c : c = Idle
    OBVIOUS
  <2>2. Tame(dev[s], e) /\ dev' = [dev EXCEPT ![s] = e]
    BY <1>2, <2>1 DEF Tame
  <2>3. c \in Call
    BY CallTypes DEF Inv, Places
  <2> QED
    BY <1>1, <1>2, <2>2, <2>3, CallGoesOn
<1>3. CASE call[t].at \in {"waiting", "submitting"} /\ Return(t, dev[s])
  <2>1. Tame(dev[s], dev[s])
    BY <1>3, InCall DEF Tame
  <2> QED
    BY <1>1, <1>3, <2>1, ReturnInv DEF Holding
<1> QED
  BY <1>2, <1>3 DEF GiveUp

-----------------------------------------------------------------------------
(***************************************************************************)
(* Polling, URBs and time.                                                 *)
(***************************************************************************)
(* A step that only one device notices.                                     *)
LEMMA DeviceStep ==
  ASSUME Inv, NEW s \in Slots, NEW e, Tame(dev[s], e), Alike(dev[s], e),
         dev' = [dev EXCEPT ![s] = e], UNCHANGED <<bound, disconnMutex, hub, call, file>>
  PROVE  Inv'
<1>1. DevInv'
  BY TameStep
<1>2. e.ready \in Nat
  BY Numbers DEF Tame, Good, Counts
<1>3. CallInv'
  BY <1>2, AlikeStep
<1>4. TypeOK'
  BY <1>1 DEF Inv, TypeOK, DevInv
<1>5. HubInv' /\ OneOpener'
  BY DEF Inv, HubInv, OneOpener
<1> QED
  BY <1>1, <1>3, <1>4, <1>5 DEF Inv, DevInv

(* devf_poll changes what a reader knows only for the better.               *)
LEMMA PollInv == Inv /\ Poll => Inv'
<1> SUFFICES ASSUME Inv, Poll
             PROVE  Inv'
  OBVIOUS
<1> PICK f \in Files : /\ Usable(f)
                       /\ dev' = [dev EXCEPT ![file[f]] = check_read_buffer(@)]
  BY DEF Poll
<1> PICK s : s = file[f]
  OBVIOUS
<1>1. s \in Slots /\ dev \in [Slots -> Device] /\ Good(dev[s])
  BY DEF Usable, Inv, TypeOK, AllGood
<1> PICK e : e = check_read_buffer(dev[s])
  OBVIOUS
<1>2. Tame(dev[s], e) /\ Alike(dev[s], e)
  BY <1>1, CheckTame
<1>3. dev' = [dev EXCEPT ![s] = e] /\ UNCHANGED <<bound, disconnMutex, hub, call, file>>
  BY <1>1 DEF Poll
<1> QED
  BY <1>1, <1>2, <1>3, DeviceStep

(* URBs complete and time passes.                                           *)
LEMMA OfDeviceInv ==
  ASSUME Inv, NEW s \in Slots, OfDevice(s)
  PROVE  Inv'
<1> PICK d : d = dev[s]
  OBVIOUS
<1>1. dev \in [Slots -> Device] /\ Good(d)
  BY DEF Inv, TypeOK, AllGood
<1>2. UNCHANGED <<bound, disconnMutex, hub, call, file>>
  BY DEF OfDevice, Arrive, Sent, Free, Silence
<1>3. CASE d.listening /\ dev' = [dev EXCEPT ![s] = Resubmitted(d)]
  BY <1>1, <1>2, <1>3, ResubmittedTame, DeviceStep
<1>4. CASE /\ d.listening /\ Len(d.buf) + 1 < ReadBufSz
           /\ dev' = [dev EXCEPT ![s] = Resubmitted(Taken(d))]
  <2> PICK a : a = Taken(d)
    OBVIOUS
  <2>1. Tame(d, a) /\ Alike(d, a) /\ a.listening
    BY <1>1, <1>4, TakenTame
  <2> PICK e : e = Resubmitted(a)
    OBVIOUS
  <2>2. Tame(a, e) /\ Alike(a, e)
    BY <2>1, ResubmittedTame DEF Tame
  <2>3. Tame(d, e) /\ Alike(d, e)
    BY <2>1, <2>2 DEF Tame, Alike
  <2> QED
    BY <1>2, <1>4, <2>3, DeviceStep
<1>5. CASE Sent(s)
  <2> PICK e : e = [d EXCEPT !.sending = FALSE, !.busy = FALSE, !.freeing = TRUE]
    OBVIOUS
  <2>1. dev' = [dev EXCEPT ![s] = e]
    BY <1>1, <1>5 DEF Sent
  <2>2. Tame(d, e) /\ Alike(d, e)
    BY <1>1, SentTame
  <2> QED
    BY <1>2, <2>1, <2>2, DeviceStep
<1>6. CASE Free(s)
  <2> PICK e : e = [d EXCEPT !.freeing = FALSE]
    OBVIOUS
  <2>1. dev' = [dev EXCEPT ![s] = e]
    BY <1>1, <1>6 DEF Free
  <2>2. Tame(d, e) /\ Alike(d, e)
    BY <1>1, FreedTame
  <2> QED
    BY <1>2, <2>1, <2>2, DeviceStep
<1>7. CASE Silence(s)
  <2> PICK e : e = [d EXCEPT !.fresh = FALSE]
    OBVIOUS
  <2>1. dev' = [dev EXCEPT ![s] = e]
    BY <1>1, <1>7 DEF Silence
  <2>2. Tame(d, e) /\ Alike(d, e)
    BY <1>1, SilentTame
  <2> QED
    BY <1>2, <2>1, <2>2, DeviceStep
<1> QED
  BY <1>3, <1>4, <1>5, <1>6, <1>7 DEF OfDevice, Arrive, Taken

-----------------------------------------------------------------------------
(***************************************************************************)
(* The theorems.                                                           *)
(***************************************************************************)
(* The invariant is inductive.                                              *)
LEMMA StepInv == Inv /\ [Next]_vars => Inv'
<1> SUFFICES ASSUME Inv, [Next]_vars
             PROVE  Inv'
  OBVIOUS
<1>1. CASE UNCHANGED vars
  <2>1. DevInv' /\ TypeOK' /\ HubInv' /\ OneOpener'
    BY <1>1, StillStep DEF vars, Inv, TypeOK, HubInv, OneOpener
  <2>2. CallInv'
    BY <1>1 DEF vars, Inv, CallInv, CallOK, Holding
  <2> QED
    BY <2>1, <2>2 DEF Inv, DevInv
<1>2. CASE Probe \/ Unplug \/ Disconnect \/ Detach \/ Poll
  BY <1>2, ProbeInv, UnplugInv, DisconnectInv, DetachInv, PollInv
<1>3. ASSUME NEW t \in Threads, OfThread(t)
      PROVE  Inv'
  <2>1. CASE Open(t) \/ OpenFails(t) \/ OpenIsBusy(t) \/ OpenSucceeds(t) \/ OpenInterrupted(t)
    BY <2>1, OpenInv, OpenFailsInv, OpenIsBusyInv, OpenSucceedsInv, OpenInterruptedInv
  <2>2. CASE Close(t) \/ Release(t) \/ ReleaseInterrupted(t)
    BY <2>2, CloseInv, ReleaseInv, ReleaseInterruptedInv
  <2>3. CASE Read(t) \/ ReadLocks(t) \/ ReadWaits(t) \/ ReadCounts(t) \/ ReadMoves(t)
    BY <2>3, BeginInv, ReadLocksInv, ReadWaitsInv, ReadCountsInv, ReadMovesInv DEF Read
  <2>4. CASE Write(t) \/ WriteLocks(t) \/ WriteSubmits(t) \/ WriteIsRefused(t)
    BY <2>4, BeginInv, WriteLocksInv, WriteSubmitsInv, WriteIsRefusedInv DEF Write
  <2>5. CASE GiveUp(t)
    BY <2>5, GiveUpInv
  <2> QED
    BY <1>3, <2>1, <2>2, <2>3, <2>4, <2>5 DEF OfThread
<1> QED
  BY <1>1, <1>2, <1>3, OfDeviceInv DEF Next

(* The parts of the inductive invariant hold together in every state. *)
THEOREM Invariance == Spec => []Inv
<1>1. Init => Inv
  BY InitInv
<1>2. Inv /\ [Next]_vars => Inv'
  BY StepInv
<1> QED
  BY <1>1, <1>2, PTL DEF Spec

(* The variables of the driver keep their types.                            *)
THEOREM TypeCorrect == Spec => []TypeOK
<1>1. Inv => TypeOK
  BY DEF Inv
<1> QED
  BY <1>1, Invariance, PTL

(* No slot is given back while anything refers to it.                       *)
THEOREM SlotsInUseHolds == Spec => []SlotsInUse
BY InvSuffices, Invariance, PTL

(* Two files never refer to one device.                                     *)
THEOREM OneOpenerHolds == Spec => []OneOpener
<1>1. Inv => OneOpener
  BY DEF Inv
<1> QED
  BY <1>1, Invariance, PTL

(* The buffer holds what came and was not returned, and a reader about to   *)
(* take a packet off does not take more than readPktLen.                    *)
THEOREM BufferIsUnreadHolds == Spec => []BufferIsUnread
BY InvSuffices, Invariance, PTL

(* No writer waits for a transfer that has ended.                           *)
THEOREM BusyIsSendingHolds == Spec => []BusyIsSending
BY InvSuffices, Invariance, PTL
=============================================================================
