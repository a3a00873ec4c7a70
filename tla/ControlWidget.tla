---------------------------- MODULE ControlWidget ----------------------------
(***************************************************************************)
(* What a user of the plasmoid sees and does: one ControlWidget            *)
(* (widget/plasmoid/control-widget.cpp), the Plasma data engine that feeds *)
(* it (widget/data_engine), the jobs that carry its commands over D-Bus,   *)
(* and x10_service as far as it answers them.                              *)
(*                                                                         *)
(* The control shows a level before the lamp has it.  A click or a move of *)
(* the slider changes m_unit.value at once and starts a job; the job makes *)
(* a D-Bus call in a later turn of the event loop; the service queues the  *)
(* command, sends it some time later, and announces the new level; the     *)
(* signal reaches the engine, and the engine's data the control.  A SET    *)
(* suspends updates for six seconds so that the slider does not jump       *)
(* through the levels in between; DIM and BRIGHT do not.                   *)
(*                                                                         *)
(* Timers have no clock here: one that is active may fire at any time, for *)
(* the queue of the service may hold any number of commands (950 ms each). *)
(* The service's worker is one step per command: CommandQueue shows how    *)
(* the steps inside interleave.                                            *)
(***************************************************************************)
EXTENDS Dimming, SequencesExt

CONSTANTS
  Addresses,       \* addresses that the control may be given
  FirstAddress,    \* the one it is created with
  Appliances,      \* values of isAppliance()
  Preferred,       \* m_configPreferredLighting, a level
  RememberPercent, \* m_configRememberLastIntensityThreshold
  OffAtZero,       \* m_configSwitchOffWhenDimmedTo0
  OtherOps,        \* what other clients ask for: records [op, arg]
  RemoteOps,       \* what remote controls send
  StartLevels,     \* levels of the service when the control appears
  MaxActs          \* bound: acts of users, clients and remotes in a behaviour

ASSUME ControlWidgetAssumption ==
  /\ FirstAddress \in Addresses
  /\ Appliances \subseteq BOOLEAN
  /\ Preferred \in Levels
  /\ RememberPercent \in 0 .. 100
  /\ OffAtZero \in BOOLEAN
  /\ OtherOps \subseteq [op : LevelOps \cup {"SET"}, arg : Levels]
  /\ RemoteOps \subseteq LevelOps
  /\ StartLevels \subseteq Levels
  /\ MaxActs \in Nat

VARIABLES
  \* The control.
  unit,      \* m_unit.value, the level shown
  before,    \* m_unit.valueBeforeOff
  address,   \* m_unit.channel and m_unit.unit
  appliance, \* isAppliance()
  period,    \* m_configSwitchOffPeriodMn is not 0
  received,  \* m_lastValueUpdateRecv
  suspend,   \* m_timerSuspendUpdate.isActive()
  autoOff,   \* m_timerSwitchOff.isActive()
  \* The data engine and the jobs.
  cache,     \* Container::value of the source the control is connected to
  dirty,     \* dataUpdated of that source is due
  jobs,      \* jobs that have not run yet
  \* The service, and what it has emitted.
  up,        \* the process runs
  level,     \* Container::value
  queue,     \* m_queueCommands, the oldest first
  signals,   \* SourceUpdated and CommandCompleted on their way
  \* History.
  acts,      \* acts so far
  dropped,   \* the display took a DIM or BRIGHT for done that will never be
  forgot     \* the units whose level a restarted service has not made known yet

control == <<unit, before, address, appliance, period, received, suspend, autoOff>>
engine  == <<cache, dirty, jobs>>
service == <<up, level, queue, signals>>
vars    == <<control, engine, service, acts, dropped, forgot>>

Commands == [source : Addresses, op : LevelOps \cup {"SET"}, arg : Levels,
             own : BOOLEAN, notified : BOOLEAN]
Completed == -2   \* the value of a signal that is CommandCompleted
Signals   == [source : Addresses, value : Levels \cup {Completed}]

Init ==
  /\ unit = Off /\ before = Off /\ received = Off
  /\ address = FirstAddress
  /\ appliance \in Appliances
  /\ period \in BOOLEAN
  /\ suspend = FALSE /\ autoOff = FALSE
  /\ up = TRUE
  /\ level \in [Addresses -> StartLevels]
  /\ queue = <<>> /\ signals = <<>> /\ jobs = <<>>
  /\ cache = level[address] /\ dirty = TRUE
  /\ acts = 0 /\ dropped = FALSE /\ forgot = {}

Act == acts < MaxActs /\ acts' = acts + 1
-----------------------------------------------------------------------------
(***************************************************************************)
(* The control: what the user does.                                        *)
(***************************************************************************)
Job(op, arg) == [source |-> address, op |-> op, arg |-> arg, own |-> TRUE,
                 notified |-> FALSE]

\* The auto-off timer after a command that leaves the lamp at v.
checkTimer(v) ==
  autoOff' = IF v = Off THEN FALSE
             ELSE IF v = 0 THEN autoOff \/ OffAtZero
             ELSE period \/ (autoOff /\ ~OffAtZero)

\* A SET: nothing happens if the level is the one shown.
setUnitTo(v) ==
  /\ v # unit
  /\ suspend' = TRUE
  /\ unit' = v
  /\ jobs' = Append(jobs, Job("SET", v))
  /\ checkTimer(v)

sliderMoved ==
  /\ Act
  /\ ~appliance
  /\ \E v \in 0 .. MaxValue : setUnitTo(v)
  /\ UNCHANGED <<before, address, appliance, period, received, cache, dirty, service,
                 dropped, forgot>>

\* on_pushUnit
Toggled == IF unit # Off THEN Off ELSE MaxValue

\* What the button, or All on, brings a lamp to that is off.
OnLevel ==
  IF appliance THEN Toggled
  ELSE IF (before * 100) \div MaxValue > RememberPercent THEN before
  ELSE Preferred

on_pushOnOff(uiInitiated) ==
  /\ setUnitTo(IF unit = Off THEN OnLevel ELSE Toggled)
  /\ before' = IF unit # Off /\ uiInitiated THEN unit ELSE before
  /\ UNCHANGED <<address, appliance, period, received, cache, dirty, service,
                 dropped, forgot>>

pushOnOff == Act /\ on_pushOnOff(TRUE)

\* The menu: On() and Off() of each control.
AllOn  == Act /\ unit = Off /\ on_pushOnOff(FALSE)
AllOff == Act /\ unit # Off /\ on_pushOnOff(FALSE)

\* A faulty Nudged: nothing stops at the top.
NudgedUncapped(up_) == (IF unit = Off THEN MaxValue ELSE unit) + (IF up_ THEN 1 ELSE -1)

\* The level shown after a click on DIM or BRIGHT.
Nudged(up_) ==
  LET v == IF unit = Off THEN MaxValue ELSE unit
  IN  IF v = (IF up_ THEN MaxValue ELSE 0) THEN v ELSE v + (IF up_ THEN 1 ELSE -1)

\* The level is shown at once, and updates are not suspended.
on_pushDirection ==
  /\ Act
  /\ ~appliance
  /\ \E brighter \in BOOLEAN :
       /\ unit' = Nudged(brighter)
       /\ jobs' = Append(jobs, Job(IF brighter THEN "BRIGHT" ELSE "DIM", Off))
       /\ checkTimer(Nudged(brighter))
  /\ UNCHANGED <<before, address, appliance, period, received, suspend, cache, dirty,
                 service, dropped, forgot>>
-----------------------------------------------------------------------------
(***************************************************************************)
(* The control: the configuration dialog.                                  *)
(***************************************************************************)
setSwitchOffPeriodMn ==
  /\ Act
  /\ \E p \in BOOLEAN :
       /\ p # period
       /\ period' = p
       /\ autoOff' = (autoOff /\ p)
  /\ UNCHANGED <<unit, before, address, appliance, received, suspend, engine, service,
                 dropped, forgot>>

\* The signals on their way that carry a level of a.
Announced(a) == {i \in DOMAIN signals : signals[i].source = a /\ signals[i].value # Completed}

\* A D-Bus call that blocks; if it fails the engine connects anew, and what the
\* old connection had not delivered is gone.  The answer of a service that was
\* restarted makes its level known, unless a signal of its predecessor is still
\* on its way: that one is delivered behind the answer.
FetchValue(a) ==
  /\ cache' = IF up THEN level[a] ELSE Off
  /\ signals' = IF up THEN signals ELSE <<>>
  /\ forgot' = IF up /\ Announced(a) = {} THEN forgot \ {a} ELSE forgot

\* A faulty addX10Source: the value is not fetched.
addEmptySource(a) ==
  /\ cache' = Off
  /\ dirty' = TRUE
  /\ UNCHANGED <<signals, forgot>>

\* The source is created, and its value sent to the control that connects to it.
addX10Source(a) == FetchValue(a) /\ dirty' = TRUE

\* setUnit: the old source is disconnected, and dropped by the engine
\* (sourceWasRemoved); the level shown and both timers stay what they were.
setUnit ==
  /\ Act
  /\ \E a \in Addresses \ {address} : address' = a /\ addX10Source(a)
  /\ UNCHANGED <<unit, before, appliance, period, received, suspend, autoOff, jobs,
                 up, level, queue, dropped>>
-----------------------------------------------------------------------------
(***************************************************************************)
(* The control: timers and updates.                                        *)
(***************************************************************************)
on_timerSwitchOff ==
  /\ autoOff
  /\ IF unit # Off
     THEN setUnitTo(Off)
     ELSE autoOff' = FALSE /\ UNCHANGED <<unit, suspend, jobs>>
  /\ UNCHANGED <<before, address, appliance, period, received, cache, dirty, service,
                 acts, dropped, forgot>>

\* A faulty on_timerEndSuspendUpdate: updates are merely let in again.
resumeOnly ==
  /\ suspend
  /\ suspend' = FALSE
  /\ dropped' = FALSE
  /\ UNCHANGED <<unit, before, address, appliance, period, received, autoOff, engine,
                 service, acts, forgot>>

\* The level asked for was not reported in time: the one reported last is shown.
on_timerEndSuspendUpdate ==
  /\ suspend
  /\ suspend' = FALSE
  /\ unit' = received
  /\ autoOff' = (autoOff /\ received = unit)
  /\ dropped' = FALSE
  /\ UNCHANGED <<before, address, appliance, period, received, engine, service, acts,
                 forgot>>

\* A faulty dataUpdated: a level that comes while updates are suspended is lost.
dataUpdatedForgetful ==
  /\ dirty
  /\ dirty' = FALSE
  /\ IF ~suspend
     THEN /\ unit' = cache /\ autoOff' = FALSE /\ dropped' = FALSE
          /\ received' = cache
          /\ UNCHANGED suspend
     ELSE /\ suspend' = (cache # unit)
          /\ dropped' = (dropped /\ cache # unit)
          /\ UNCHANGED <<unit, autoOff, received>>
  /\ UNCHANGED <<before, address, appliance, period, cache, jobs, service, acts, forgot>>

dataUpdated ==
  /\ dirty
  /\ dirty' = FALSE
  /\ received' = cache
  /\ IF ~suspend
     THEN /\ unit' = cache /\ autoOff' = FALSE /\ dropped' = FALSE
          /\ UNCHANGED suspend
     ELSE /\ suspend' = (cache # unit)
          /\ dropped' = (dropped /\ cache # unit)
          /\ UNCHANGED <<unit, autoOff>>
  /\ UNCHANGED <<before, address, appliance, period, cache, jobs, service, acts, forgot>>
-----------------------------------------------------------------------------
(***************************************************************************)
(* The service, as CommandQueue has it with the smart queue on.            *)
(***************************************************************************)
OfUnit(c) == {i \in DOMAIN queue : queue[i].source = c.source}

\* The command a DIM or BRIGHT annihilates itself with.
Opposed(c) ==
  LET others == {i \in OfUnit(c) : c.op \in {"DIM", "BRIGHT"} /\ queue[i].op # c.op}
  IN  {i \in others : \A j \in others : j <= i}

Supersedes(c) == c.op \in {"SET", "OFF"}

\* The commands among the first i that are for another unit, and the queue
\* with nothing else in it.
ForOthers(c, i) == {j \in 1 .. i : queue[j].source # c.source}

Remaining(c) ==
  [k \in 1 .. Cardinality(ForOthers(c, Len(queue))) |->
     queue[CHOOSE i \in ForOthers(c, Len(queue)) : Cardinality(ForOthers(c, i)) = k]]

Accepted(c) ==
  IF Opposed(c) # {} THEN RemoveAt(queue, CHOOSE i \in Opposed(c) : TRUE)
  ELSE IF Supersedes(c) THEN Append(Remaining(c), c)
  ELSE Append(queue, c)

\* A DIM or BRIGHT of the control that will never be sent.
Guess(c) == c.own /\ c.op \in {"DIM", "BRIGHT"}

Loses(c) ==
  \/ Opposed(c) # {} /\ Guess(c)
  \/ \E i \in IF Supersedes(c) THEN OfUnit(c) ELSE Opposed(c) : Guess(queue[i])

\* X10Job::start: the call reaches the service, which a bus that can start it
\* has started if need be ...
StartJob ==
  /\ jobs # <<>>
  /\ LET c == Head(jobs)
     IN  /\ queue' = Accepted(c)
         /\ dropped' = (dropped \/ Loses(c))
  /\ up' = TRUE
  /\ jobs' = Tail(jobs)
  /\ UNCHANGED <<control, cache, dirty, level, signals, acts, forgot>>

\* ... or it fails, and the engine connects anew: what the old connection had
\* not delivered is gone.
JobFails ==
  /\ jobs # <<>> /\ ~up
  /\ dropped' = (dropped \/ Guess(Head(jobs)))
  /\ jobs' = Tail(jobs)
  /\ signals' = <<>>
  /\ UNCHANGED <<control, cache, dirty, up, level, queue, acts, forgot>>

OtherClient ==
  /\ Act /\ up
  /\ \E a \in Addresses, o \in OtherOps :
       LET c == [source |-> a, op |-> o.op, arg |-> o.arg, own |-> FALSE, notified |-> FALSE]
       IN  /\ queue' = Accepted(c)
           /\ dropped' = (dropped \/ Loses(c))
  /\ UNCHANGED <<control, engine, up, level, signals, forgot>>

SourceUpdated(a, v) == [source |-> a, value |-> v]
CommandCompleted(a) == [source |-> a, value |-> Completed]

\* QueueManager::run, one command.  A SET is announced with its first command,
\* any other command when it has been sent.
Serve ==
  /\ up /\ queue # <<>>
  /\ LET c    == Head(queue)
         next == IF c.op = "SET" THEN GetNextCommand(level[c.source], c.arg)
                 ELSE Emit(c.op, 1)
         v    == IF next.steps = 0 THEN level[c.source] ELSE Applied(level[c.source], next.op)
         told == IF c.op = "SET" /\ ~c.notified THEN <<CommandCompleted(c.source)>> ELSE <<>>
         sent == IF c.op # "SET" THEN <<CommandCompleted(c.source)>> ELSE <<>>
     IN  /\ level' = [level EXCEPT ![c.source] = v]
         /\ queue' = IF next.steps <= 1 THEN Tail(queue)
                     ELSE [queue EXCEPT ![1].notified = TRUE]
         /\ signals' = IF next.steps = 0 THEN signals
                       ELSE signals \o told \o <<SourceUpdated(c.source, v)>> \o sent
         /\ forgot' = IF next.steps = 0 THEN forgot ELSE forgot \ {c.source}
  /\ UNCHANGED <<control, engine, up, acts, dropped>>

\* A remote control is heard while nothing is queued; a level is announced when
\* it was set.
Receive ==
  /\ Act
  /\ up /\ queue = <<>>
  /\ \E a \in Addresses, op \in RemoteOps :
       LET v == Heard(level[a], op)
       IN  /\ v # level[a]
           /\ level' = [level EXCEPT ![a] = v]
           /\ signals' = Append(signals, SourceUpdated(a, v))
           /\ forgot' = forgot \ {a}
  /\ UNCHANGED <<control, engine, up, queue, dropped>>

\* The process ends, with its queue and its levels; when it is started again
\* every unit is off to it.
Exit ==
  /\ Act
  /\ up
  /\ up' = FALSE
  /\ queue' = <<>>
  /\ level' = [a \in Addresses |-> Off]
  /\ dropped' = (dropped \/ \E i \in DOMAIN queue : Guess(queue[i]))
  /\ forgot' = Addresses
  /\ UNCHANGED <<control, engine, signals>>
-----------------------------------------------------------------------------
(***************************************************************************)
(* The data engine.                                                        *)
(***************************************************************************)
\* Container::SetValue
SetValue(v) == cache' = v /\ dirty' = TRUE

onSourceUpdated(s) ==
  IF s.source = address THEN SetValue(s.value) ELSE UNCHANGED <<cache, dirty>>

\* The engine sends all the data of the source, the value it has included.
onCommandCompleted(s) == dirty' = (dirty \/ s.source = address) /\ UNCHANGED cache

Dispatch ==
  /\ signals # <<>>
  /\ signals' = Tail(signals)
  /\ LET s == Head(signals)
     IN  \/ s.value # Completed /\ onSourceUpdated(s)
         \/ s.value = Completed /\ onCommandCompleted(s)
  /\ UNCHANGED <<control, jobs, up, level, queue, acts, dropped, forgot>>
-----------------------------------------------------------------------------
User   == sliderMoved \/ pushOnOff \/ AllOn \/ AllOff \/ on_pushDirection
          \/ setSwitchOffPeriodMn \/ setUnit
Timers == on_timerSwitchOff \/ on_timerEndSuspendUpdate
Others == OtherClient \/ Receive \/ Exit

Next == User \/ Timers \/ Others \/ dataUpdated \/ Dispatch \/ StartJob \/ JobFails \/ Serve

Spec == Init /\ [][Next]_vars

\* Event loops turn, active timers fire, a D-Bus call returns, and the worker
\* runs while the process does.  Nothing makes a user, a remote or a client act,
\* nor the process end.
Fairness ==
  /\ WF_vars(on_timerSwitchOff)
  /\ WF_vars(on_timerEndSuspendUpdate)
  /\ WF_vars(dataUpdated)
  /\ WF_vars(Dispatch)
  /\ WF_vars(StartJob \/ JobFails)
  /\ WF_vars(Serve)

FairSpec == Spec /\ Fairness
-----------------------------------------------------------------------------
(***************************************************************************)
(* Properties.                                                             *)
(***************************************************************************)
(* The types of the variables. *)
TypeOK ==
  /\ unit \in Levels /\ before \in Levels /\ received \in Levels
  /\ address \in Addresses
  /\ appliance \in BOOLEAN /\ period \in BOOLEAN
  /\ suspend \in BOOLEAN /\ autoOff \in BOOLEAN
  /\ cache \in Levels /\ dirty \in BOOLEAN
  /\ jobs \in Seq(Commands) /\ queue \in Seq(Commands)
  /\ up \in BOOLEAN
  /\ level \in [Addresses -> Levels]
  /\ signals \in Seq(Signals)
  /\ acts \in 0 .. MaxActs
  /\ dropped \in BOOLEAN /\ forgot \subseteq Addresses

(* Nothing is under way between the control and the service. *)
Quiet == jobs = <<>> /\ queue = <<>> /\ signals = <<>> /\ ~dirty /\ ~suspend

(* Once nothing is under way the control shows the level the service tracks *)
(* for its unit, whatever other clients, remotes and changes of the         *)
(* control's address came in between, unless a DIM or BRIGHT of the control *)
(* was dropped by the queue or a failed call, or a restarted service has    *)
(* not made the level known.                                                *)
Settled == Quiet /\ ~dropped /\ address \notin forgot => unit = level[address]

(* The last signal on its way that carries a level of a.                    *)
LastAnnounced(a, i) == i \in Announced(a) /\ \A j \in Announced(a) : j <= i

(* The engine's copy of a level is brought up to date by signals that race  *)
(* the fetch which began it: behind the last signal on its way for the      *)
(* source nothing is missing.                                               *)
EngineFollows ==
  address \notin forgot =>
    /\ \A i \in DOMAIN signals :
         LastAnnounced(address, i) => signals[i].value = level[address]
    /\ Announced(address) = {} => cache = level[address]

(* When the acts have ended the display comes to show the level and stays   *)
(* with it: suspended updates are made up for.                              *)
DisplayCatchesUp == <>[](unit = level[address] \/ dropped \/ address \in forgot)
-----------------------------------------------------------------------------
(***************************************************************************)
(* Why they hold.                                                          *)
(***************************************************************************)
(* A service that has not run since it lost its levels has told none of     *)
(* them; of a level that it has told, nothing older is on its way behind.   *)
ServiceInv ==
  /\ ~up => forgot = Addresses
  /\ \A a \in Addresses \ forgot : \A i \in DOMAIN signals :
       LastAnnounced(a, i) => signals[i].value = level[a]

(* A DIM or BRIGHT of the control that is on its way to the service.        *)
Asked == \/ \E i \in DOMAIN jobs : Guess(jobs[i]) /\ jobs[i].source = address
         \/ \E i \in DOMAIN queue : Guess(queue[i]) /\ queue[i].source = address

(* A level that differs from the engine's is made up for by something: the  *)
(* end of the suspension, the next update, the signal that the command of   *)
(* the control, or of a service that was restarted, brings.                 *)
DisplayInv ==
  /\ dirty \/ received = cache
  /\ \/ unit = cache
     \/ suspend \/ dirty \/ dropped
     \/ address \in forgot \/ Asked \/ Announced(address) # {}

PipelineInv == EngineFollows /\ ServiceInv /\ DisplayInv
=============================================================================
