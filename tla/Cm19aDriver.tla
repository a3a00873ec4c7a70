----------------------------- MODULE Cm19aDriver -----------------------------
(***************************************************************************)
(* The kernel driver of the CM19A, controller/linux/drivers/usb/comm/      *)
(* x10-cm19a.c: transceivers are plugged and unplugged, processes open the *)
(* device file, read, write, poll and close it, and the URBs complete.     *)
(*                                                                         *)
(* A device is the structure of a slot of Tscvrs.  A thread that waits for *)
(* data or for the end of a transfer does so with the device's mutex held. *)
(* Bytes are numbered as they are taken into the read buffer; a reader     *)
(* takes them off and is told how many, not which: what x10_recv decodes   *)
(* is the packet that came last (intrInBuf), which is not modelled.        *)
(***************************************************************************)
EXTENDS Integers, Sequences

CONSTANTS
  Slots,      \* indices of Tscvrs
  Threads,    \* threads of processes
  Files,      \* open files
  ReadBufSz,  \* size of the read buffer
  ReadLens,   \* lengths of reads
  MaxBytes    \* bound: bytes taken into the read buffer of a device

ASSUME Cm19aDriverAssumption ==
  /\ Slots \subseteq Nat \ {0}
  /\ 0 \notin Files
  /\ ReadBufSz \in Nat \ {0}
  /\ ReadLens \subseteq Nat \ {0} /\ 1 \in ReadLens
  /\ MaxBytes \in Nat
  /\ {"nobody", "hub", "lost"} \cap Threads = {}

VARIABLES
  dev,           \* Tscvrs
  bound,         \* the slots whose interface has a device (usb_set_intfdata)
  disconnMutex,  \* its holder
  hub,           \* the thread of the USB core: what it does, for which slot
  call,          \* what each thread does: place, file, slot, length
  file           \* private_data of each file: a slot, 0 if it is not open

vars == <<dev, bound, disconnMutex, hub, call, file>>

Holders == Threads \cup {"nobody", "lost"}

Device ==
  [present : BOOLEAN, alive : BOOLEAN, refs : Nat, mutex : Holders, opened : BOOLEAN,
   listening : BOOLEAN, connected : BOOLEAN, done : BOOLEAN,
   buf : Seq(Nat), ready : Nat, fresh : BOOLEAN,
   sending : BOOLEAN, busy : BOOLEAN, freeing : BOOLEAN,
   taken : Nat, accepted : Nat]

Places == {"idle", "opening", "read", "waiting", "ready", "moving",
           "write", "submitting", "releasing"}
Call   == [at : Places, file : Files \cup {0}, slot : Slots \cup {0}, len : Nat \ {0}]
Idle   == [at |-> "idle", file |-> 0, slot |-> 0, len |-> 1]
AtHub  == [at : {"idle", "disconnecting", "detaching"}, slot : Slots \cup {0}]
HubIdle == [at |-> "idle", slot |-> 0]

\* listening and sending: the URB of that direction is with the USB core.
\* fresh: a byte came within PktTimeout.  freeing: write_intr_cb is about to
\* free its buffer.  taken: the number of bytes that reads have returned;
\* accepted: the last byte buffered.
Unused ==
  [present |-> FALSE, alive |-> FALSE, refs |-> 0, mutex |-> "nobody", opened |-> FALSE,
   listening |-> FALSE, connected |-> FALSE, done |-> FALSE,
   buf |-> <<>>, ready |-> 0, fresh |-> FALSE,
   sending |-> FALSE, busy |-> FALSE, freeing |-> FALSE,
   taken |-> 0, accepted |-> 0]

Init ==
  /\ dev = [s \in Slots |-> Unused]
  /\ bound = {}
  /\ disconnMutex = "nobody"
  /\ hub = HubIdle
  /\ call = [t \in Threads |-> Idle]
  /\ file = [f \in Files |-> 0]
-----------------------------------------------------------------------------
(***************************************************************************)
(* The structure.                                                          *)
(***************************************************************************)
x10_cm19a_device_abort_xfers(d) ==
  [d EXCEPT !.connected = FALSE,
            !.listening = IF d.connected THEN FALSE ELSE @,
            !.done = IF d.connected /\ d.listening THEN TRUE ELSE @,
            !.sending = IF d.busy THEN FALSE ELSE @,
            !.freeing = IF d.busy THEN FALSE ELSE @,
            !.busy = FALSE]

kref_put(d) ==
  IF d.refs = 1
  THEN [x10_cm19a_device_abort_xfers(d) EXCEPT !.refs = 0, !.present = FALSE]
  ELSE [d EXCEPT !.refs = @ - 1]

\* A faulty check_read_buffer: the packet is over as soon as the next byte comes.
check_read_buffer_anew(d) ==
  [d EXCEPT !.ready = IF ~d.fresh \/ Len(d.buf) = ReadBufSz THEN Len(d.buf) ELSE 0,
            !.done = FALSE]

\* Wait for the buffer to fill or to have sat idle for long enough.
check_read_buffer(d) ==
  [d EXCEPT !.ready = IF ~d.fresh \/ Len(d.buf) = ReadBufSz THEN Len(d.buf) ELSE @,
            !.done = FALSE]
-----------------------------------------------------------------------------
(***************************************************************************)
(* The thread of the USB core.                                             *)
(***************************************************************************)
\* x10_cm19a_probe in the first free slot.  Nobody can reach the device before
\* it is registered; the last transfer of init_remotes may still be under way.
Probe ==
  /\ hub = HubIdle
  /\ \E s \in Slots :
       /\ ~dev[s].present /\ \A r \in Slots : r < s => dev[r].present
       /\ dev' = [dev EXCEPT ![s] = [Unused EXCEPT !.present = TRUE, !.alive = TRUE,
                                                   !.refs = 1, !.sending = TRUE, !.busy = TRUE]]
       /\ bound' = bound \cup {s}
  /\ UNCHANGED <<disconnMutex, hub, call, file>>

Ended(d) ==
  [d EXCEPT !.alive = FALSE,
            !.listening = FALSE, !.done = IF d.listening THEN TRUE ELSE @,
            !.sending = FALSE, !.busy = IF d.sending THEN FALSE ELSE @, !.freeing = FALSE]

\* A transceiver is unplugged: the USB core ends its URBs, then calls the driver.
Unplug ==
  /\ hub = HubIdle
  /\ \E s \in bound :
       /\ dev' = [dev EXCEPT ![s] = Ended(@)]
       /\ hub' = [at |-> "disconnecting", slot |-> s]
  /\ UNCHANGED <<bound, disconnMutex, call, file>>

\* x10_cm19a_disconn, until it waits for the device ...
Disconnect ==
  /\ hub.at = "disconnecting" /\ disconnMutex = "nobody"
  /\ disconnMutex' = "hub"
  /\ bound' = bound \ {hub.slot}
  /\ hub' = [hub EXCEPT !.at = "detaching"]
  /\ UNCHANGED <<dev, call, file>>

\* ... and from there on.  It never unlocks the device.
Detach ==
  /\ hub.at = "detaching" /\ dev[hub.slot].mutex = "nobody"
  /\ dev' = [dev EXCEPT ![hub.slot] = kref_put([@ EXCEPT !.mutex = "lost"])]
  /\ disconnMutex' = "nobody"
  /\ hub' = HubIdle
  /\ UNCHANGED <<bound, call, file>>
-----------------------------------------------------------------------------
(***************************************************************************)
(* devf_open.                                                              *)
(***************************************************************************)
Open(t) ==
  /\ call[t] = Idle /\ disconnMutex = "nobody"
  /\ disconnMutex' = t
  /\ \E s \in bound : call' = [call EXCEPT ![t] = [Idle EXCEPT !.at = "opening", !.slot = s]]
  /\ UNCHANGED <<dev, bound, hub, file>>

\* The device is locked and the interrupt URB submitted, which fails if it is
\* with the USB core already.
OpenReaches(t, submitted) ==
  LET d == dev[call[t].slot]
  IN  /\ call[t].at = "opening" /\ d.mutex = "nobody"
      /\ submitted = (d.alive /\ ~d.listening)
      /\ disconnMutex' = "nobody"
      /\ call' = [call EXCEPT ![t] = Idle]
      /\ UNCHANGED <<bound, hub>>

OpenFails(t) ==
  /\ OpenReaches(t, FALSE)
  /\ dev' = [dev EXCEPT ![call[t].slot].connected = FALSE, ![call[t].slot].done = FALSE]
  /\ UNCHANGED file

Submitted(d) == [d EXCEPT !.connected = TRUE, !.done = FALSE, !.listening = TRUE]

\* A faulty IsOpened: the test is forgotten.
NeverOpened(d) == FALSE

IsOpened(d) == d.opened

\* A faulty Opened: the file does not count as a reference.
OpenedOnly(d) == [d EXCEPT !.opened = TRUE]

Opened(d) == [d EXCEPT !.opened = TRUE, !.refs = @ + 1]

\* Open already: the jump leaves the device locked.
OpenIsBusy(t) ==
  /\ OpenReaches(t, TRUE) /\ IsOpened(dev[call[t].slot])
  /\ dev' = [dev EXCEPT ![call[t].slot] = [Submitted(@) EXCEPT !.mutex = "lost"]]
  /\ UNCHANGED file

OpenSucceeds(t) ==
  /\ OpenReaches(t, TRUE) /\ ~IsOpened(dev[call[t].slot])
  /\ \E f \in Files : file[f] = 0 /\ file' = [file EXCEPT ![f] = call[t].slot]
  /\ dev' = [dev EXCEPT ![call[t].slot] = Opened(Submitted(@))]

OpenInterrupted(t) ==
  /\ call[t].at = "opening"
  /\ disconnMutex' = "nobody"
  /\ call' = [call EXCEPT ![t] = Idle]
  /\ UNCHANGED <<dev, bound, hub, file>>
-----------------------------------------------------------------------------
(***************************************************************************)
(* devf_release, which the last close of a file calls.                     *)
(***************************************************************************)
Close(t) ==
  /\ call[t] = Idle
  /\ \E f \in Files :
       /\ file[f] # 0 /\ \A u \in Threads : call[u].file # f
       /\ call' = [call EXCEPT ![t] = [Idle EXCEPT !.at = "releasing", !.file = f,
                                                   !.slot = file[f]]]
  /\ UNCHANGED <<dev, bound, disconnMutex, hub, file>>

\* The wait for the outgoing transfer has a time-out.
Release(t) ==
  LET s == call[t].slot
  IN  /\ call[t].at = "releasing" /\ dev[s].mutex = "nobody"
      /\ dev' = [dev EXCEPT ![s] =
                   kref_put([x10_cm19a_device_abort_xfers(@) EXCEPT !.opened = FALSE])]
      /\ file' = [file EXCEPT ![call[t].file] = 0]
      /\ call' = [call EXCEPT ![t] = Idle]
      /\ UNCHANGED <<bound, disconnMutex, hub>>

\* The file is gone, the reference to the device is not.
ReleaseInterrupted(t) ==
  /\ call[t].at = "releasing"
  /\ file' = [file EXCEPT ![call[t].file] = 0]
  /\ call' = [call EXCEPT ![t] = Idle]
  /\ UNCHANGED <<dev, bound, disconnMutex, hub>>
-----------------------------------------------------------------------------
(***************************************************************************)
(* devf_read, a series of calls of read_intr_data, and devf_write, a call  *)
(* of write_intr_data and one of read_intr_data for the acknowledgement.   *)
(***************************************************************************)
Go(t, place) == [call EXCEPT ![t].at = place]

\* The device is unlocked and the call returns.
Return(t, d) ==
  /\ dev' = [dev EXCEPT ![call[t].slot] = [d EXCEPT !.mutex = "nobody"]]
  /\ call' = [call EXCEPT ![t] = Idle]

\* A file that is open, and not being closed.
Usable(f) ==
  file[f] # 0 /\ \A u \in Threads : call[u].at = "releasing" => call[u].file # f

Begin(t, place) ==
  /\ call[t] = Idle
  /\ \E f \in Files, n \in ReadLens :
       /\ Usable(f)
       /\ call' = [call EXCEPT ![t] = [at |-> place, file |-> f, slot |-> file[f], len |-> n]]
  /\ UNCHANGED <<dev, bound, disconnMutex, hub, file>>

Read(t)  == Begin(t, "read")
Write(t) == Begin(t, "write")

\* The first look at the buffer, and those of the loop.
Look(t, d) ==
  LET checked == check_read_buffer(d)
  IN  /\ dev' = [dev EXCEPT ![call[t].slot] = checked]
      /\ call' = Go(t, IF checked.ready = 0 THEN "waiting" ELSE "ready")
      /\ UNCHANGED <<bound, disconnMutex, hub, file>>

ReadLocks(t) ==
  LET d == dev[call[t].slot]
  IN  call[t].at = "read" /\ d.mutex = "nobody" /\ Look(t, [d EXCEPT !.mutex = t])

\* A faulty Awake: it waits for the URB without a time-out.
AwakeWhenDone(d) == d.done

\* wait_event_interruptible_timeout
Awake(d) == TRUE

ReadWaits(t) ==
  LET d == dev[call[t].slot]
  IN  call[t].at = "waiting" /\ Awake(d) /\ Look(t, d)

Least(m, n) == IF m <= n THEN m ELSE n

\* bytesToRead is computed ...
ReadCounts(t) ==
  /\ call[t].at = "ready"
  /\ call' = [call EXCEPT ![t].at = "moving",
                          ![t].len = Least(@, dev[call[t].slot].ready)]
  /\ UNCHANGED <<dev, bound, disconnMutex, hub, file>>

\* A faulty Moved: the packet gets shorter by all that is in the buffer.
MovedAll(d, n) ==
  [d EXCEPT !.buf = SubSeq(@, n + 1, Len(@)), !.ready = @ - Len(d.buf), !.taken = @ + n]

Moved(d, n) ==
  [d EXCEPT !.buf = SubSeq(@, n + 1, Len(@)), !.ready = @ - n, !.taken = @ + n]

\* ... and that many are taken off, whoever polled and whatever came in between.
ReadMoves(t) ==
  /\ call[t].at = "moving"
  /\ Return(t, Moved(dev[call[t].slot], call[t].len))
  /\ UNCHANGED <<bound, disconnMutex, hub, file>>

WriteLocks(t) ==
  LET s == call[t].slot
  IN  /\ call[t].at = "write" /\ dev[s].mutex = "nobody"
      /\ dev' = [dev EXCEPT ![s].mutex = t]
      /\ call' = Go(t, "submitting")
      /\ UNCHANGED <<bound, disconnMutex, hub, file>>

\* The transfer before is over; the next one begins, and its answer is read.
WriteSubmits(t) ==
  LET d == dev[call[t].slot]
  IN  /\ call[t].at = "submitting" /\ ~d.busy /\ d.alive
      /\ dev' = [dev EXCEPT ![call[t].slot] = [d EXCEPT !.busy = TRUE, !.sending = TRUE,
                                                        !.mutex = "nobody"]]
      /\ call' = [call EXCEPT ![t].at = "read", ![t].len = 1]
      /\ UNCHANGED <<bound, disconnMutex, hub, file>>

\* A faulty Refused: intrOutBusy is not taken back.
RefusedBusy(d) == [d EXCEPT !.busy = TRUE]

Refused(d) == [d EXCEPT !.busy = FALSE]

WriteIsRefused(t) ==
  LET d == dev[call[t].slot]
  IN  /\ call[t].at = "submitting" /\ ~d.busy /\ ~d.alive
      /\ Return(t, Refused(d))
      /\ UNCHANGED <<bound, disconnMutex, hub, file>>

\* A signal, O_NONBLOCK, or no memory for the transfer.
GiveUp(t) ==
  /\ \/ /\ call[t].at \in {"read", "write"}
        /\ call' = [call EXCEPT ![t] = Idle] /\ UNCHANGED dev
     \/ call[t].at \in {"waiting", "submitting"} /\ Return(t, dev[call[t].slot])
  /\ UNCHANGED <<bound, disconnMutex, hub, file>>

\* devf_poll, without the mutex.
Poll ==
  /\ \E f \in Files : Usable(f) /\ dev' = [dev EXCEPT ![file[f]] = check_read_buffer(@)]
  /\ UNCHANGED <<bound, disconnMutex, hub, call, file>>
-----------------------------------------------------------------------------
(***************************************************************************)
(* Completion of URBs, and time.                                           *)
(***************************************************************************)
\* The URB goes back as long as the device is connected.
Resubmitted(d) == [d EXCEPT !.listening = d.connected, !.done = TRUE]

\* read_intr_cb after a packet, which is dropped if the buffer is too full for
\* it, or after an error of the transfer.
Arrive(s) ==
  LET d == dev[s]
  IN  /\ d.listening
      /\ \/ dev' = [dev EXCEPT ![s] = Resubmitted(d)]
         \/ /\ Len(d.buf) + 1 < ReadBufSz /\ d.accepted < MaxBytes
            /\ dev' = [dev EXCEPT ![s] = Resubmitted(
                 [d EXCEPT !.buf = Append(@, d.accepted + 1), !.accepted = @ + 1, !.fresh = TRUE])]
      /\ UNCHANGED <<bound, disconnMutex, hub, call, file>>

\* write_intr_cb, in two steps: from the first on a writer may go on.
Sent(s) ==
  /\ dev[s].sending /\ ~dev[s].freeing
  /\ dev' = [dev EXCEPT ![s].sending = FALSE, ![s].busy = FALSE, ![s].freeing = TRUE]
  /\ UNCHANGED <<bound, disconnMutex, hub, call, file>>

Free(s) ==
  /\ dev[s].freeing
  /\ dev' = [dev EXCEPT ![s].freeing = FALSE]
  /\ UNCHANGED <<bound, disconnMutex, hub, call, file>>

Silence(s) ==
  /\ dev[s].fresh
  /\ dev' = [dev EXCEPT ![s].fresh = FALSE]
  /\ UNCHANGED <<bound, disconnMutex, hub, call, file>>
-----------------------------------------------------------------------------
OfThread(t) ==
  \/ Open(t) \/ OpenFails(t) \/ OpenIsBusy(t) \/ OpenSucceeds(t) \/ OpenInterrupted(t)
  \/ Close(t) \/ Release(t) \/ ReleaseInterrupted(t)
  \/ Read(t) \/ ReadLocks(t) \/ ReadWaits(t) \/ ReadCounts(t) \/ ReadMoves(t)
  \/ Write(t) \/ WriteLocks(t) \/ WriteSubmits(t) \/ WriteIsRefused(t)
  \/ GiveUp(t)

OfDevice(s) == Arrive(s) \/ Sent(s) \/ Free(s) \/ Silence(s)

Next ==
  \/ Probe \/ Unplug \/ Disconnect \/ Detach \/ Poll
  \/ \E t \in Threads : OfThread(t)
  \/ \E s \in Slots : OfDevice(s)

Spec == Init /\ [][Next]_vars

\* A thread that waits is woken, at the latest by its time-out; time passes.
Fairness ==
  /\ \A t \in Threads : WF_vars(ReadWaits(t))
  /\ \A s \in Slots : WF_vars(Silence(s))

FairSpec == Spec /\ Fairness
-----------------------------------------------------------------------------
(***************************************************************************)
(* Properties.                                                             *)
(***************************************************************************)
(* The types of the variables. *)
TypeOK ==
  /\ dev \in [Slots -> Device]
  /\ bound \subseteq Slots
  /\ disconnMutex \in Threads \cup {"nobody", "hub"}
  /\ hub \in AtHub
  /\ call \in [Threads -> Call]
  /\ file \in [Files -> Slots \cup {0}]

(* A slot is not given back while an interface, an open file, a call that   *)
(* is under way or the USB core with one of its URBs refers to it, whoever  *)
(* unplugs, opens and closes meanwhile.                                     *)
Referred(s) ==
  \/ s \in bound
  \/ \E f \in Files : file[f] = s
  \/ \E t \in Threads : call[t].slot = s
  \/ dev[s].listening \/ dev[s].sending

SlotsInUse == \A s \in Slots : Referred(s) => dev[s].present

(* Two files never refer to one device.                                     *)
OneOpener == \A f, g \in Files : file[f] = file[g] /\ file[f] # 0 => f = g

(* The buffer holds the bytes that came and that no read has returned, in   *)
(* the order they came, and readPktLen never exceeds their number, nor does *)
(* what a reader is about to take off exceed readPktLen: it computed that   *)
(* before it takes the lock of the buffer, and devf_poll sets readPktLen    *)
(* without the mutex.                                                       *)
BufferIsUnread ==
  \A s \in Slots :
    LET d == dev[s]
    IN  /\ d.buf = [i \in 1 .. d.accepted - d.taken |-> d.taken + i]
        /\ d.ready <= Len(d.buf) /\ Len(d.buf) < ReadBufSz
        /\ \A t \in Threads :
             call[t].at = "moving" /\ call[t].slot = s => call[t].len <= d.ready

(* intrOutBusy is set exactly while a transfer is under way: no writer      *)
(* waits for one that has ended.                                            *)
BusyIsSending == \A s \in Slots : dev[s].busy = dev[s].sending

(* A reader gets what the buffer holds, however often it is polled in       *)
(* between and however dense remotes send.                                  *)
ReadersWake ==
  \A t \in Threads :
    call[t].at = "waiting" /\ dev[call[t].slot].buf # <<>> ~> call[t].at # "waiting"
=============================================================================
