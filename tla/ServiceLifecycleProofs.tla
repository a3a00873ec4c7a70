----------------------- MODULE ServiceLifecycleProofs -----------------------
(***************************************************************************)
(* Proofs about ServiceLifecycle, for all bounds and configurations.       *)
(***************************************************************************)
EXTENDS ServiceLifecycle, SequenceTheorems, TLAPS

(* The types of what is posted to the main thread are preserved.           *)
LEMMA InboxTyped ==
  ASSUME PlacesOK, InboxOK, [Next]_vars
  PROVE  InboxOK'
<1>1. ASSUME NEW s \in Statuses \cup {"finished"}
      PROVE  Append(inbox, s) \in Seq(Statuses \cup {"finished"})
  BY AppendProperties DEF InboxOK
<1>2. inbox # <<>> => Tail(inbox) \in Seq(Statuses \cup {"finished"})
  BY HeadTailProperties DEF InboxOK
<1>3. CASE Emit
  BY <1>1, <1>3 DEF Emit, InboxOK, PlacesOK
<1>4. CASE Finish
  BY <1>1, <1>4 DEF Finish, InboxOK
<1>5. CASE OnQM_StatusUpdate \/ OnQM_Exit
  BY <1>2, <1>5 DEF OnQM_StatusUpdate, OnQM_Exit, InboxOK
<1>6. CASE inbox' = inbox
  BY <1>6 DEF InboxOK
<1>7. Emit \/ Finish \/ OnQM_StatusUpdate \/ OnQM_Exit \/ inbox' = inbox
  BY DEF vars, Next, Run, Stopping, Events, Requests, Begin, SetRunning,
     BeginLoading, ControllerLoad, CheckStatus, ReportLoad, Take, Transmit,
     TooManyErrors, LeaveLoop, ControllerUnload, SetStopped, BeginStop,
     TellStopping, StillStopping, EndStop, WakeUp, Start, Stop, Restart, Quit,
     QueueCommand, Reload
<1>8. QED
  BY <1>3, <1>4, <1>5, <1>6, <1>7

(* The places of the two threads, and the statuses.                        *)
LEMMA PlacesTyped ==
  ASSUME PlacesOK, InboxOK, [Next]_vars
  PROVE  PlacesOK'
<1> USE DEF PlacesOK, mainVars, workerVars, controllerVars
<1>1. CASE Run
  BY <1>1 DEF Places, Statuses, Run, Emit, Begin, SetRunning, BeginLoading, ControllerLoad,
    CheckStatus, ReportLoad, Take, Transmit, TooManyErrors, LeaveLoop,
    ControllerUnload, SetStopped, Finish, Goes, Sets, Outcome
<1>2. CASE Stopping
  BY <1>2 DEF Places, Statuses, Stopping, BeginStop, TellStopping, StillStopping, EndStop,
    AllStopped, Proceed, Launch
<1>3. CASE OnQM_StatusUpdate
  <2>1. Head(inbox) \in Statuses
    BY <1>3, HeadTailProperties DEF OnQM_StatusUpdate, InboxOK
  <2>2. QED
    BY <1>3, <2>1 DEF OnQM_StatusUpdate
<1>4. CASE OnQM_Exit \/ WakeUp
  BY <1>4 DEF OnQM_Exit, WakeUp, MayExit
<1>5. CASE Requests
  BY <1>5 DEF Places, Statuses, Requests, Start, Stop, Restart, Quit, QueueCommand, Reload,
    Idle, AskStop, Proceed, Launch
<1>6. CASE UNCHANGED vars
  BY <1>6 DEF vars
<1>7. QED
  BY <1>1, <1>2, <1>3, <1>4, <1>5, <1>6 DEF Next, Events

(* The flags.                                                              *)
LEMMA FlagsTyped ==
  ASSUME FlagsOK, [Next]_vars
  PROVE  FlagsOK'
<1> USE DEF FlagsOK, mainVars, workerVars, controllerVars
<1>1. CASE Begin
  BY <1>1 DEF Begin, Goes, Sets
<1>2. CASE SetRunning
  BY <1>2 DEF SetRunning, Goes
<1>3. CASE BeginLoading
  BY <1>3 DEF BeginLoading, Goes, Sets
<1>4. CASE ControllerLoad
  BY <1>4 DEF ControllerLoad, Goes
<1>5. CASE CheckStatus
  BY <1>5 DEF CheckStatus, Goes
<1>6. CASE ReportLoad
  BY <1>6 DEF ReportLoad, Goes, Sets
<1>7. CASE Take
  BY <1>7 DEF Take, Goes
<1>8. CASE Transmit
  BY <1>8 DEF Transmit, Goes
<1>9. CASE TooManyErrors
  <2>1. reload \in BOOLEAN
    BY ServiceLifecycleAssumption
  <2>2. QED
    BY <1>9, <2>1 DEF TooManyErrors, Goes
<1>10. CASE LeaveLoop
  BY <1>10 DEF LeaveLoop, Goes
<1>11. CASE ControllerUnload
  BY <1>11 DEF ControllerUnload, Goes
<1>12. CASE SetStopped
  BY <1>12 DEF SetStopped, Goes, Sets
<1>13. CASE Finish
  BY <1>13 DEF Finish, Goes
<1>0. CASE Emit
  BY <1>0 DEF Emit
<1>14. CASE Stopping
  BY <1>14 DEF Stopping, BeginStop, TellStopping, StillStopping, EndStop, AllStopped,
    Proceed, Launch
<1>15. CASE Events
  BY <1>15 DEF Events, OnQM_StatusUpdate, OnQM_Exit, WakeUp, Idle, MayExit
<1>16. CASE Requests
  BY <1>16 DEF Requests, Start, Stop, Restart, Quit, QueueCommand, Reload,
    Idle, AskStop, Proceed, Launch
<1>17. CASE UNCHANGED vars
  BY <1>17 DEF vars
<1>18. QED
  BY <1>0, <1>1, <1>2, <1>3, <1>4, <1>5, <1>6, <1>7, <1>8, <1>9, <1>10, <1>11,
    <1>12, <1>13, <1>14, <1>15, <1>16, <1>17
    DEF Next, Run

(* The counters, which stay below their bounds.                            *)
LEMMA CountersTyped ==
  ASSUME CountersOK, [Next]_vars
  PROVE  CountersOK'
<1>1. MaxStarts \in Nat /\ MaxFaults \in Nat /\ MaxQueued \in Nat
  BY ServiceLifecycleAssumption
<1> USE DEF CountersOK, mainVars, workerVars, controllerVars
<1>2. CASE Take
  BY <1>1, <1>2 DEF Take, Goes
<1>3. CASE TooManyErrors
  BY <1>1, <1>3 DEF TooManyErrors, Goes
<1>4. CASE Run /\ ~Take /\ ~TooManyErrors
  <2>1. UNCHANGED <<queued, mainVars, faults>>
    BY <1>4 DEF Run, Emit, Begin, SetRunning, BeginLoading, ControllerLoad,
      CheckStatus, ReportLoad, Transmit, LeaveLoop, ControllerUnload,
      SetStopped, Finish
  <2>2. QED
    BY <2>1
<1>5. CASE Stopping
  BY <1>1, <1>5 DEF Stopping, BeginStop, TellStopping, StillStopping, EndStop,
    AllStopped, Proceed, Launch
<1>6. CASE Events
  BY <1>1, <1>6 DEF Events, OnQM_StatusUpdate, OnQM_Exit, WakeUp, Idle,
    MayExit
<1>7. CASE Requests
  BY <1>1, <1>7 DEF Requests, Start, Stop, Restart, Quit, QueueCommand,
    Reload, Idle, AskStop, Proceed, Launch
<1>8. CASE UNCHANGED vars
  BY <1>8 DEF vars
<1>9. QED
  BY <1>2, <1>3, <1>4, <1>5, <1>6, <1>7, <1>8 DEF Next

(* The types of the variables, for every number of starts, faults and      *)
(* commands.                                                               *)
THEOREM TypeCorrect == Spec => []TypeOK
<1>1. Init => TypeOK
  <2>1. Init => PlacesOK
    BY DEF Init, PlacesOK, Places, Statuses
  <2>2. Init => FlagsOK
    BY DEF Init, FlagsOK
  <2>3. Init => CountersOK
    BY ServiceLifecycleAssumption DEF Init, CountersOK
  <2>4. Init => InboxOK
    BY DEF Init, InboxOK
  <2>5. QED
    BY <2>1, <2>2, <2>3, <2>4 DEF TypeOK
<1>2. TypeOK /\ [Next]_vars => TypeOK'
  BY PlacesTyped, FlagsTyped, CountersTyped, InboxTyped DEF TypeOK
<1>3. QED
  BY <1>1, <1>2, PTL DEF Spec
-----------------------------------------------------------------------------
(* What the statuses mean to either thread is preserved by each step.      *)
LEMMA LifecycleStep ==
  ASSUME TypeOK, LifecycleInv, [Next]_vars
  PROVE  LifecycleInv'
<1> USE DEF TypeOK, PlacesOK, LifecycleInv, StoppedIsIdle, ControllerInv, RestInv, AfterInv,
            NoExitUnderWorker, AtRest, mainVars, workerVars, controllerVars
<1>1. CASE Begin
  BY <1>1 DEF Begin, Sets, Goes
<1>2. CASE SetRunning
  BY <1>2 DEF SetRunning, Goes
<1>3. CASE BeginLoading
  BY <1>3 DEF BeginLoading, Sets, Goes
<1>4. CASE ControllerLoad
  BY <1>4 DEF ControllerLoad, Goes
<1>5. CASE CheckStatus
  BY <1>5 DEF CheckStatus, Goes
<1>6. CASE ReportLoad
  BY <1>6 DEF ReportLoad, Outcome, Sets, Goes
<1>7. CASE Take
  BY <1>7 DEF Take, Goes
<1>8. CASE Transmit
  BY <1>8 DEF Transmit, Goes
<1>9. CASE TooManyErrors
  BY <1>9 DEF TooManyErrors, Goes
<1>10. CASE LeaveLoop
  BY <1>10 DEF LeaveLoop, Goes
<1>11. CASE ControllerUnload
  BY <1>11 DEF ControllerUnload, Goes
<1>12. CASE SetStopped
  BY <1>12 DEF SetStopped, Sets, Goes
<1>13. CASE Finish
  BY <1>13 DEF Finish, Goes
<1>14. CASE BeginStop
  BY <1>14 DEF BeginStop
<1>28. CASE TellStopping
  BY <1>28 DEF TellStopping
<1>29. CASE Emit
  BY <1>29 DEF Emit
<1>15. CASE StillStopping
  BY <1>15 DEF StillStopping, AllStopped
<1>16. CASE EndStop
  BY <1>16 DEF EndStop, AllStopped, Proceed, Launch
<1>17. CASE OnQM_StatusUpdate
  BY <1>17 DEF OnQM_StatusUpdate, Idle
<1>18. CASE OnQM_Exit
  BY <1>18 DEF OnQM_Exit, Idle
<1>19. CASE WakeUp
  BY <1>19 DEF WakeUp, MayExit
<1>20. CASE Start
  BY <1>20 DEF Start, Launch, Idle
<1>21. CASE Stop
  BY <1>21 DEF Stop, AskStop, Proceed, Launch, Idle
<1>22. CASE Restart
  BY <1>22 DEF Restart, AskStop, Proceed, Launch, Idle
<1>23. CASE Quit
  BY <1>23 DEF Quit, AskStop, Proceed, Launch, Idle
<1>24. CASE QueueCommand
  BY <1>24 DEF QueueCommand, Idle
<1>25. CASE Reload
  BY <1>25 DEF Reload, Idle
<1>26. CASE UNCHANGED vars
  BY <1>26 DEF vars
<1>27. QED
  BY <1>1, <1>2, <1>3, <1>4, <1>5, <1>6, <1>7, <1>8, <1>9, <1>10, <1>11,
    <1>12, <1>13, <1>14, <1>15, <1>16, <1>17, <1>18, <1>19, <1>20, <1>21,
    <1>22, <1>23, <1>24, <1>25, <1>26, <1>28, <1>29
    DEF Next, Run, Stopping, Events, Requests

(* The invariant of starting and stopping.                                 *)
THEOREM LifecycleInvHolds == Spec => []LifecycleInv
<1>1. Init => LifecycleInv
  BY DEF Init, LifecycleInv, StoppedIsIdle, ControllerInv, RestInv, AfterInv,
         NoExitUnderWorker, AtRest
<1>2. TypeOK /\ LifecycleInv /\ [Next]_vars => LifecycleInv'
  BY LifecycleStep
<1>3. QED
  BY <1>1, <1>2, TypeCorrect, PTL DEF Spec

(* A stopped service has let go of the controller and has no worker at it. *)
THEOREM StoppedIsIdleHolds == Spec => []StoppedIsIdle
<1>1. LifecycleInv => StoppedIsIdle
  BY DEF LifecycleInv
<1>2. QED
  BY <1>1, LifecycleInvHolds, PTL

(* The end of a worker makes the process exit only when none is at work.   *)
THEOREM NoExitUnderWorkerHolds == Spec => []NoExitUnderWorker
<1>1. LifecycleInv => NoExitUnderWorker
  BY DEF LifecycleInv
<1>2. QED
  BY <1>1, LifecycleInvHolds, PTL

(* Stop comes back only when the worker is done.                           *)
THEOREM StopWaitsHolds == Spec => StopWaits
<1>1. ASSUME TypeOK, LifecycleInv, [Next]_vars, main = "stopping", main' # "stopping"
      PROVE  worker \in {"returned", "none"}
  <2>1. EndStop
    BY <1>1 DEF Next, Run, Stopping, Events, Requests, vars, mainVars, Idle,
                Begin, SetRunning, BeginLoading, ControllerLoad, CheckStatus,
               ReportLoad, Take, Transmit, TooManyErrors, LeaveLoop,
               ControllerUnload, SetStopped, Emit, Finish, BeginStop, TellStopping, StillStopping,
               OnQM_StatusUpdate, OnQM_Exit, WakeUp, Start, Stop, Restart,
               Quit, QueueCommand, Reload
  <2>2. status = "Stopped"
    BY <2>1 DEF EndStop, AllStopped
  <2>3. QED
    BY <1>1, <2>2 DEF LifecycleInv, StoppedIsIdle, RestInv, AtRest
<1>2. TypeOK /\ LifecycleInv /\ [Next]_vars =>
        [main = "stopping" /\ main' # "stopping" => worker \in {"returned", "none"}]_vars
  BY <1>1
<1>3. QED
  BY <1>2, TypeCorrect, LifecycleInvHolds, PTL DEF Spec, StopWaits
-----------------------------------------------------------------------------
(* The box of the main thread and what is heard from it.                   *)
Messages == Statuses \cup {"finished"}

(* What is put into the box last is heard last.                            *)
LEMMA SaidLast ==
  ASSUME NEW box \in Seq(Messages), NEW h, NEW s \in Messages, s # "finished"
  PROVE  HeardLast(Append(box, s), h, s)
<1>1. /\ DOMAIN Append(box, s) = 1 .. Len(box) + 1 /\ Len(box) \in Nat
      /\ Append(box, s)[Len(box) + 1] = s
  BY AppendProperties, LenProperties
<1> DEFINE said == {i \in DOMAIN Append(box, s) : Append(box, s)[i] # "finished"}
<1>2. Len(box) + 1 \in said
  BY <1>1
<1>3. ASSUME NEW i \in said, \A j \in said : j <= i
      PROVE  Append(box, s)[i] = s
  <2>1. i \in 1 .. Len(box) + 1 /\ Len(box) + 1 <= i
    BY <1>1, <1>2, <1>3
  <2>2. i = Len(box) + 1
    BY <1>1, <2>1
  <2>3. QED
    BY <1>1, <2>2
<1>4. QED
  BY <1>2, <1>3 DEF HeardLast

(* The end of a thread is not heard.                                        *)
LEMMA SaidNothing ==
  ASSUME NEW box \in Seq(Messages), NEW h, NEW v, HeardLast(box, h, v)
  PROVE  HeardLast(Append(box, "finished"), h, v)
<1>1. /\ DOMAIN Append(box, "finished") = 1 .. Len(box) + 1 /\ Len(box) \in Nat
      /\ Append(box, "finished")[Len(box) + 1] = "finished"
      /\ \A i \in 1 .. Len(box) : Append(box, "finished")[i] = box[i]
      /\ DOMAIN box = 1 .. Len(box)
  BY AppendProperties, LenProperties DEF Messages
<1> DEFINE before == {i \in DOMAIN box : box[i] # "finished"}
           behind == {i \in DOMAIN Append(box, "finished") : Append(box, "finished")[i] # "finished"}
<1>2. ASSUME NEW i PROVE i \in behind <=> i \in before
  <2>1. i \in 1 .. Len(box) + 1 <=> i \in 1 .. Len(box) \/ i = Len(box) + 1
    BY <1>1
  <2>2. QED
    BY <1>1, <2>1
<1>3. before = behind
  BY <1>2
<1>4. \A i \in before : Append(box, "finished")[i] = box[i]
  BY <1>1
<1>5. /\ \A i \in before : (\A j \in before : j <= i) => box[i] = v
      /\ before = {} => h = v
  BY DEF HeardLast
<1> HIDE DEF before
<1>6. /\ \A i \in behind : (\A j \in behind : j <= i) => Append(box, "finished")[i] = v
      /\ behind = {} => h = v
  BY <1>3, <1>4, <1>5
<1>7. QED
  BY <1>6 DEF HeardLast

(* What is taken from the box has been heard.                               *)
LEMMA SaidFirst ==
  ASSUME NEW box \in Seq(Messages), box # <<>>, NEW h, NEW v, HeardLast(box, h, v)
  PROVE  HeardLast(Tail(box), IF Head(box) = "finished" THEN h ELSE Head(box), v)
<1>1. /\ Len(box) \in Nat /\ Len(box) >= 1 /\ DOMAIN box = 1 .. Len(box)
      /\ Tail(box) \in Seq(Messages) /\ Len(Tail(box)) = Len(box) - 1 /\ Head(box) = box[1]
      /\ \A i \in 1 .. Len(Tail(box)) : Tail(box)[i] = box[i + 1]
  BY LenProperties, EmptySeq, HeadTailProperties
<1>2. DOMAIN Tail(box) = 1 .. Len(box) - 1
  BY <1>1, LenProperties
<1> DEFINE said == {i \in DOMAIN box : box[i] # "finished"}
           left == {i \in DOMAIN Tail(box) : Tail(box)[i] # "finished"}
<1>3. ASSUME NEW i \in left
      PROVE  i \in 1 .. Len(box) - 1 /\ i + 1 \in said /\ Tail(box)[i] = box[i + 1]
  BY <1>1, <1>2
<1>4. ASSUME NEW i \in said, i # 1
      PROVE  i \in 2 .. Len(box) /\ i - 1 \in left
  <2>1. i \in 1 .. Len(box) /\ i - 1 \in 1 .. Len(box) - 1 /\ (i - 1) + 1 = i
    BY <1>1, <1>4
  <2>2. Tail(box)[i - 1] = box[i]
    BY <1>1, <2>1
  <2>3. QED
    BY <1>1, <1>2, <1>4, <2>1, <2>2
<1>5. 1 \in said <=> Head(box) # "finished"
  BY <1>1
<1>6. /\ \A i \in said : (\A j \in said : j <= i) => box[i] = v
      /\ said = {} => h = v
  BY DEF HeardLast
<1> HIDE DEF said, left
<1>7. ASSUME NEW i \in left, \A j \in left : j <= i
      PROVE  Tail(box)[i] = v
  <2>1. ASSUME NEW j \in said PROVE j <= i + 1
    <3>1. CASE j = 1
      BY <1>1, <1>3, <3>1
    <3>2. CASE j # 1
      <4>1. j - 1 <= i /\ j \in 2 .. Len(box) /\ i \in 1 .. Len(box) - 1
        BY <1>3, <1>4, <1>7, <3>2
      <4>2. QED
        BY <1>1, <4>1
    <3>3. QED
      BY <3>1, <3>2
  <2>2. QED
    BY <1>3, <1>6, <2>1
<1>8. ASSUME left = {}
      PROVE  (IF Head(box) = "finished" THEN h ELSE Head(box)) = v
  <2>1. \A i \in said : i = 1
    BY <1>4, <1>8
  <2>2. CASE Head(box) = "finished"
    BY <1>5, <1>6, <2>1, <2>2
  <2>3. CASE Head(box) # "finished"
    <3>1. 1 \in said /\ \A j \in said : j <= 1
      BY <1>5, <2>1, <2>3
    <3>2. QED
      BY <1>1, <1>6, <2>3, <3>1
  <2>4. QED
    BY <2>2, <2>3
<1>9. QED
  BY <1>7, <1>8 DEF HeardLast, left

(* A status that a worker sets is heard last, and nothing that was owed is  *)
(* forgotten for it.                                                        *)
LEMMA SetIsHeard ==
  ASSUME TypeOK, DeliveryInv, untold = "nothing", inbox' = inbox, heard' = heard,
         NEW s \in Statuses \ {"Stopping"}, Sets(s)
  PROVE  /\ status' = s
         /\ HeardLast(Owed', heard', status')
         /\ main = "telling" => HeardLast(Owed', "Stopping", status')
<1>1. inbox \in Seq(Messages) /\ s \in Messages /\ s # "finished" /\ s # "nothing"
  BY DEF TypeOK, InboxOK, Messages, Statuses
<1>2. CASE s = status
  <2>1. status' = status /\ Owed' = Owed
    BY <1>2 DEF Sets, Owed
  <2>2. QED
    BY <1>2, <2>1 DEF DeliveryInv
<1>3. CASE s # status
  <2>1. status' = s /\ Owed' = Append(inbox, s)
    BY <1>1, <1>3 DEF Sets, Owed
  <2>2. QED
    BY <1>1, <2>1, SaidLast
<1>4. QED
  BY <1>2, <1>3

(* What was put into the box behind the others stays behind them.           *)
LEMMA TailOfAppend ==
  ASSUME NEW box \in Seq(Messages), box # <<>>, NEW s \in Messages
  PROVE  /\ Append(box, s) # <<>> /\ Append(box, s) \in Seq(Messages)
         /\ Head(Append(box, s)) = Head(box)
         /\ Tail(Append(box, s)) = Append(Tail(box), s)
<1>1. /\ Len(box) \in Nat /\ Len(box) >= 1 /\ Head(box) = box[1]
      /\ Tail(box) \in Seq(Messages) /\ Len(Tail(box)) = Len(box) - 1
      /\ \A i \in 1 .. Len(Tail(box)) : Tail(box)[i] = box[i + 1]
  BY LenProperties, EmptySeq, HeadTailProperties
<1>2. /\ Append(box, s) \in Seq(Messages) /\ Len(Append(box, s)) = Len(box) + 1
      /\ \A i \in 1 .. Len(box) : Append(box, s)[i] = box[i]
      /\ Append(box, s)[Len(box) + 1] = s
  BY AppendProperties
<1>3. Append(box, s) # <<>>
  BY <1>1, <1>2, EmptySeq
<1>4. /\ Head(Append(box, s)) = Append(box, s)[1]
      /\ Tail(Append(box, s)) \in Seq(Messages)
      /\ Len(Tail(Append(box, s))) = Len(box)
      /\ \A i \in 1 .. Len(box) : Tail(Append(box, s))[i] = Append(box, s)[i + 1]
  BY <1>1, <1>2, <1>3, HeadTailProperties
<1>5. /\ Append(Tail(box), s) \in Seq(Messages) /\ Len(Append(Tail(box), s)) = Len(box)
      /\ \A i \in 1 .. Len(box) - 1 : Append(Tail(box), s)[i] = box[i + 1]
      /\ Append(Tail(box), s)[Len(box)] = s
  BY <1>1, AppendProperties
<1>6. ASSUME NEW i \in 1 .. Len(box)
      PROVE  Tail(Append(box, s))[i] = Append(Tail(box), s)[i]
  <2>1. CASE i = Len(box)
    BY <1>2, <1>4, <1>5, <2>1
  <2>2. CASE i # Len(box)
    <3>0. Len(box) \in Nat
      BY <1>1
    <3>1. i \in 1 .. Len(box) - 1 /\ i + 1 \in 1 .. Len(box)
      BY <2>2, <3>0
    <3>2. QED
      BY <1>2, <1>4, <1>5, <3>1
  <2>3. QED
    BY <2>1, <2>2
<1>7. Tail(Append(box, s)) = Append(Tail(box), s)
  BY <1>1, <1>4, <1>5, <1>6, SeqEqual
<1>8. Head(Append(box, s)) = Head(box)
  BY <1>1, <1>2, <1>4
<1>9. QED
  BY <1>2, <1>3, <1>7, <1>8

(* What is owed changes as the box does, and the announcement of a status   *)
(* that was set does not change it.                                         *)
LEMMA OwedAfter ==
  ASSUME TypeOK, [Next]_vars
  PROVE  /\ Owed \in Seq(Messages)
         /\ Emit => Owed' = Owed
         /\ Finish => Owed' = Append(Owed, "finished")
         /\ OnQM_StatusUpdate \/ OnQM_Exit =>
              Owed # <<>> /\ Head(Owed) = Head(inbox) /\ Owed' = Tail(Owed)
<1>1. /\ inbox \in Seq(Messages)
      /\ untold # "nothing" => untold \in Messages
  BY DEF TypeOK, PlacesOK, InboxOK, Messages
<1>2. Owed \in Seq(Messages)
  BY <1>1, AppendProperties DEF Owed
<1>3. Emit => Owed' = Owed
  BY DEF Emit, Owed
<1>4. Finish => Owed' = Append(Owed, "finished")
  BY DEF Finish, Goes, Owed, workerVars
<1>5. ASSUME OnQM_StatusUpdate \/ OnQM_Exit
      PROVE  Owed # <<>> /\ Head(Owed) = Head(inbox) /\ Owed' = Tail(Owed)
  <2>1. inbox # <<>> /\ inbox' = Tail(inbox) /\ untold' = untold
    BY <1>5 DEF OnQM_StatusUpdate, OnQM_Exit, workerVars
  <2>2. QED
    BY <1>1, <2>1, TailOfAppend DEF Owed
<1>6. QED
  BY <1>2, <1>3, <1>4, <1>5

(* What is owed to the clients ends with the status after each step.        *)
LEMMA DeliveryStep ==
  ASSUME TypeOK, DeliveryInv, [Next]_vars
  PROVE  DeliveryInv'
<1> USE DEF mainVars, workerVars, controllerVars
<1>1. Owed \in Seq(Messages)
  BY OwedAfter
<1>2. CASE Begin \/ BeginLoading \/ ReportLoad \/ SetStopped
  <2>1. PICK s \in Statuses \ {"Stopping"} : Sets(s)
    BY <1>2 DEF Begin, BeginLoading, ReportLoad, Outcome, SetStopped, Statuses
  <2>2. untold = "nothing" /\ inbox' = inbox /\ heard' = heard /\ main' = main
    BY <1>2 DEF Begin, BeginLoading, ReportLoad, SetStopped, Goes
  <2>3. QED
    BY <2>1, <2>2, SetIsHeard DEF DeliveryInv
<1>3. CASE Emit
  <2>1. Owed' = Owed /\ UNCHANGED <<status, heard, main>>
    BY <1>3, OwedAfter DEF Emit
  <2>2. QED
    BY <2>1 DEF DeliveryInv
<1>4. CASE Finish
  <2>1. Owed' = Append(Owed, "finished") /\ UNCHANGED <<status, heard, main>>
    BY <1>4, OwedAfter DEF Finish
  <2>2. \A h : HeardLast(Owed, h, status) => HeardLast(Owed', h, status')
    BY <1>1, <2>1, SaidNothing
  <2>3. QED
    BY <2>1, <2>2 DEF DeliveryInv
<1>5. CASE OnQM_StatusUpdate \/ OnQM_Exit
  <2>1. Owed # <<>> /\ Head(Owed) = Head(inbox) /\ Owed' = Tail(Owed)
    BY <1>5, OwedAfter
  <2>2. /\ main = "idle" /\ main' # "telling" /\ main' # "stopping" /\ status' = status
        /\ heard' = IF Head(Owed) = "finished" THEN heard ELSE Head(Owed)
    BY <1>5, <2>1 DEF OnQM_StatusUpdate, OnQM_Exit, Idle
  <2>3. HeardLast(Owed, heard, status) => HeardLast(Owed', heard', status')
    BY <1>1, <2>1, <2>2, SaidFirst
  <2>4. QED
    BY <2>2, <2>3 DEF DeliveryInv
<1>6. CASE BeginStop
  BY <1>6 DEF BeginStop, DeliveryInv
<1>7. CASE TellStopping
  <2>1. /\ main = "telling" /\ main' = "stopping" /\ heard' = "Stopping"
        /\ status' = status /\ Owed' = Owed
    BY <1>7 DEF TellStopping, Owed
  <2>2. QED
    BY <2>1 DEF DeliveryInv
<1>8. CASE EndStop
  <2>1. /\ status = "Stopped" /\ main' # "telling" /\ status' = status
        /\ heard' = heard /\ Owed' = Owed
    BY <1>8 DEF EndStop, AllStopped, Proceed, Owed
  <2>2. QED
    BY <2>1 DEF DeliveryInv
<1>9. CASE WakeUp \/ Start \/ Stop \/ Restart \/ Quit
  <2>1. /\ main \notin {"telling", "stopping"} /\ main' # "telling"
        /\ UNCHANGED <<status, heard, inbox, untold>>
    BY <1>9 DEF WakeUp, Start, Stop, Restart, Quit, Idle, AskStop, Proceed
  <2>2. QED
    BY <2>1 DEF DeliveryInv, Owed
<1>10. CASE UNCHANGED <<status, heard, inbox, untold, main>>
  BY <1>10 DEF DeliveryInv, Owed
<1>11. \/ Begin \/ BeginLoading \/ ReportLoad \/ SetStopped \/ Emit \/ Finish
       \/ OnQM_StatusUpdate \/ OnQM_Exit \/ BeginStop \/ TellStopping \/ EndStop
       \/ WakeUp \/ Start \/ Stop \/ Restart \/ Quit
       \/ UNCHANGED <<status, heard, inbox, untold, main>>
  BY DEF vars, Next, Run, Stopping, Events, Requests, SetRunning, ControllerLoad, CheckStatus,
     Take, Transmit, TooManyErrors, LeaveLoop, ControllerUnload, StillStopping, QueueCommand,
     Reload
<1>12. QED
  BY <1>2, <1>3, <1>4, <1>5, <1>6, <1>7, <1>8, <1>9, <1>10, <1>11

(* The clients end up with the status, although two threads announce it by  *)
(* different ways, each after it has let go of the mutex, and each can set  *)
(* it while the other is about to announce one.                             *)
THEOREM ClientsKnowStatusHolds == Spec => []ClientsKnowStatus
<1>1. Init => DeliveryInv
  BY EmptySeq DEF Init, DeliveryInv, HeardLast, Owed
<1>2. TypeOK /\ DeliveryInv /\ [Next]_vars => DeliveryInv'
  BY DeliveryStep
<1>3. DeliveryInv => ClientsKnowStatus
  BY EmptySeq DEF DeliveryInv, HeardLast, ClientsKnowStatus, Idle, Owed
<1>4. QED
  BY <1>1, <1>2, <1>3, TypeCorrect, PTL DEF Spec
=============================================================================
