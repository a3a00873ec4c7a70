# A TLA+ model of x10-widget

x10-widget controls X10 lamps and appliances from a KDE panel. A daemon,
`x10_service`, owns the CM15A/CM19A radio controller; a Plasma widget, a data
engine and a command line talk to it over D-Bus. This directory holds TLA+
modules of the parts of the program that keep state and run concurrently, the
TLC configurations that check them on small instances, and proofs that hold for
every value of the constants.

Paths below are relative to the repository's root.

## 1. The system

### 1.1 Components

| component | source | state it keeps | operations |
|---|---|---|---|
| command queue | `controller/service/queue-manager.cpp`, `common/command.cpp` | `m_queueCommands`, `Containers`, `m_controllerLoaded`, `SMART_QUEUE` | `QueueCommand`, `SetAllTo`, `GetValue`, `on_RuleExecute`, `SetProperty`; the worker's `run` |
| brightness | `controller/service/container.cpp`, `QueueManager::run`, `GetNextCommand` | `Container::value` of each source, -1 (off) to 7 | what a sent, or heard, command does to a level; the next step of a SET |
| life cycle | `controller/service/x10dbusservice.cpp`, `queue-manager.cpp` | `m_status`, `m_isRunning`, the `QThread`, `RELOAD_ON_ERROR` | `Start`, `Stop`, `Restart`, `Quit`, `Reload`, `OnQM_Exit`, `OnQM_StatusUpdate` |
| rules | `controller/service/rules-manager.cpp`, `common/rule.cpp` | `m_listRules`, `m_nextRuleSet`, `m_lowestTime`, one single-shot timer, the rules file | `Load`, `Save`, `Deserialize`, `updateNextExecution`, `onEndTimerRuleNeedExec` |
| D-Bus facade | `controller/service/x10dbusservice.cpp` | none of its own | each D-Bus method calls one of the above; signals are forwarded |
| controller, X10 codes | `controller/x10core/x10controller.cpp`, `x10codes.cpp` | the address sent last (`m_lastHouse`, `m_lastUnit`), the plug-in in use | `Load`, `Unload`, `recv`, `x10_send`; codes of houses, units, commands |
| plug-ins | `x10plugin-libusb.cpp`, `x10plugin-driver.cpp` | USB handles, or names of device files | `Open`, `Close`, `send`, `recv` |
| kernel driver | `controller/linux/drivers/usb/comm/x10-cm19a.c` | device slots, reference counts, two mutexes, a spin lock, the read buffer, two URBs | `probe`, `disconn`, `devf_open/release/read/write/poll`, URB callbacks |
| data engine | `widget/data_engine/engine.cpp`, `job.cpp`, `common/interfacehandler.cpp` | a value per source, the service's properties, the D-Bus connection | updates of sources, one job per command |
| plasmoid: controls | `widget/plasmoid/control-widget.cpp`, `x10-widget.cpp` | per unit: the level shown, auto-off and suspend timers; which controls there are | buttons, slider, updates from the engine, time-outs |
| plasmoid: dialog | `widget/plasmoid/x10-widget-settings.cpp`, `nodes-model.cpp`, `control-widgetinfo.cpp` | `m_rules`, `m_rulesSaved`, list and form; `m_nodes`, the configuration file | edits of rules and nodes, OK, Apply, Cancel, Defaults |
| command line | `cmd/main.cpp` | none | one request per process |

Logging, the generated D-Bus glue, D-Bus registration, packaging and the test
program hold no behaviour of the running system that is modelled.

### 1.2 How they interact

* The **main thread** of the daemon runs Qt's event loop. D-Bus calls, the rules'
  timer and what the worker posts (queued signals) are its events; each handler
  runs to its end. `Stop` is the exception: it waits inside its handler.
* The **worker** (`QueueManager::run`, a `QThread`) takes commands from the list,
  updates levels, announces (`CommandCompleted`) and transmits. With an empty
  list it listens to remotes.
* They share the list under `m_mutex`, the status under `m_mutexStatus`, and
  `m_isRunning`, `Containers`, `m_listRules` under nothing.
* A signal emitted by the worker reaches D-Bus clients directly
  (`CommandCompleted`) or by way of the main thread's event loop
  (`StatusUpdate`, `finished`).
* A rule, when due, calls `QueueCommand` in the main thread, as clients do.
* The **plasmoid** and the data engine live in the desktop's process and its one
  event loop. A click starts a job; the job calls the service; the service
  announces what it did; the signal changes the engine's source, and a later turn
  of the loop hands the data to the control or to the dialog. Nothing ties an
  update to the request that caused it.
* The kernel driver is reached through a device file by one plug-in; the other
  plug-in talks USB itself.

### 1.3 What is hard here

`PROJECT.json` lists every hazard with its line. In short:

* the worker works with copies of what it read under a mutex it has released
  (a step of a SET, a status it has tested) while the main thread replaces it;
* a SET stays in the list over many steps, is superseded, annihilated, announced
  once, and has to end;
* the effect of a command on a level is written down twice and must agree;
* the end of one worker is told to the main thread when the next may be running;
* the rules' timer is re-armed in pieces, drifts, is delivered late, and its
  target is computed across midnights and weeks;
* the driver sleeps with a mutex held that other calls, and unplugging, need;
* what the controller remembers of the lamps is uninitialised when it is loaded, and
  set whether or not anybody heard the frame;
* calls between widget, engine and service fail before or after they took effect, and
  announcements are lost with the connection;
* a control shows what it asked for before it is so, and ignores what comes in for
  a while; the echo of its own command looks like anybody else's;
* the rules exist in the service, the engine, the widget, the dialog's list and the
  form at once, and other clients set them while they are edited.

## 2. Modules

| module | models | kind |
|---|---|---|
| `Dimming` | levels: `Container`, the arithmetic of `run` and `GetNextCommand` | pure operators |
| `Dispatch` | what clients may count on: requests answered in order, at most once, replaced only by later requests for the same unit | abstract specification |
| `CommandQueue` | both threads at the queue | state machine, refines `Dispatch` |
| `RuleTimes` | `Rule::GetExecutionTime`, and what a rule means | pure operators |
| `RuleManager` | the timer, the execution and the replacement of rules | state machine |
| `ServiceLifecycle` | status, flags and both threads from start to exit | state machine |
| `X10Codes` | codes of houses, units and commands; the frames sent, what is made of frames heard, and the list of frames in `x10.txt` | pure operators |
| `X10Controller` | `x10_send` with the lamps that listen, the remotes that interfere and the controllers that are deleted and made anew | state machine |
| `Cm19aDriver` | the kernel driver: slots, references, mutexes, the read buffer, URBs | state machine |
| `ControlWidget` | one control, the engine's source, jobs and signals, and the service that answers | state machine, on `Dimming` |
| `X10Widget` | the dialog's rules and nodes, and the way of the rules to the service and back | state machine |
| `MCCommandQueue`, `MCRuleManager`, `MCServiceLifecycle`, `MCX10Controller`, `MCCm19aDriver`, `MCControlWidget`, `MCX10Widget` | the constants of the instances TLC checks | |
| `DimmingProofs`, `CommandQueueProofs`, `RuleManagerProofs`, `ServiceLifecycleProofs`, `X10ControllerProofs`, `Cm19aDriverProofs`, `ControlWidgetProofs`, `X10WidgetProofs` | theorems | proofs |

Definitions whose comment begins with "A faulty ..." are not part of the model:
they are plausible bugs, put in the place of the definition that follows to see
that a property notices.

### 2.1 CommandQueue

* `queue` is the set of commands in `m_queueCommands`, each with the *ticket*
  that says when it was accepted. The list only grows by `push_front`, so the
  order of tickets is the order of the list: `Back` (what `back()` returns) is
  the smallest ticket, a scan from `begin()` starts at the largest.
* `todo` is what is left of the handler the main thread is in: the calls of
  `QueueCommand` it still has to make. `SetAllTo`, a request for a whole house
  and a rule make several, each taking the mutex anew, so the worker acts in
  between (`Expand`, `Skip`, `Enqueue`, `Annihilate`).
* `hand` is the command the worker has taken: `TakeSet`/`TakeOther` is the locked
  part of the loop, `Apply` the update of the level and `Transmit` the
  announcement and the transmission, with the mutex free.
* `Receive` is the other branch, with an empty list. It holds the mutex (the
  worker waits on the condition variable in between). It takes whatever
  `run` handles, DIM and BRIGHT included, although the plug-in of today reports
  neither (2.4); the instances have a remote's OFF only. `Reload` is a controller
  lost after too many errors of reading.
* `issued` and `signals` are history: the tickets given out, and those announced.

Iteration over `Containers` in the main thread meets whatever the worker has
inserted by then; `SourceOrder` is the order of the map's keys. Sources that
stand for a house are accepted by `GetValue` and lead to a call of itself without
end; the instances do not poll them.

### 2.2 ServiceLifecycle

`worker` is the place of the worker thread in `run`, `main` that of the main
thread. The status is tested in one step and set in another wherever the code
lets go of `m_mutexStatus` in between (`CheckStatus`, `ReportLoad`; `AskStop`,
`BeginStop`). `SetStatus` itself is two steps, because it lets go of `m_mutexStatus`
before it emits: `Sets` assigns the status and leaves in `untold` what is still to be
announced, `Emit` posts it to the main thread. The main thread does the same in
`BeginStop` and `TellStopping`, but its own signal reaches the clients at once; so
the news of the two threads may come in another order than the statuses. Between
assignment and emit the other thread may do anything.
`Launch` is `QThread::start`, which does nothing while the old thread has not
ended, also when it has said "Stopped" already.

One assumption on timing: the second for which `OnQM_Exit` sleeps is long enough
for a thread that was started to set its first status (guard of `WakeUp`). Without
it the process might exit under a service being started.

### 2.3 RuleTimes and RuleManager

A clock counts the seconds of a week of `Days` days of `SecsInDay` seconds.
`due` is `m_lowestTime` relative to the clock. `timer` is what is left of the
single-shot timer. `Tick` lets both advance; `TimerFast` and `TimerSlow` let them
part by a second per arming, the drift that the comment in
`rules-manager.cpp` is about; `late` counts the seconds for which the main thread
does not deliver the time-out. The worker's load of the rules file is two steps
(`WorkerClears`, `WorkerLoads`), as the main thread may act in between.

### 2.4 X10Codes and X10Controller

A code, and a byte of a frame, is the set of its bits that are 1. `Listed`,
`UnitIn` and `OpIn` are the list of frames in `controller/x10core/x10.txt`, which
is what lamps understand; `x10_transmit_cmd` and `x10_recv` are what the program
makes and takes them for. The plug-in that `Load` finds (`plugin`) either builds the
frame itself or writes a line with the number of the unit, which it decodes from the
code (`X10Plugin_driver_send`), to the kernel driver, which looks the code up again
(`devf_write`); that one never reads (`recv` returns before it does). `Beyond` is what may be read in front of `UnitCodeLut`,
which a DIM or BRIGHT of unit 1 does: the theorems hold for anything, the
instances have the end of `HouseCodeLut` and a zero there.

`x10_recv` of the libusb plug-in reads the rest of a frame over its prefix, at the
first place of the buffer (`x10plugin-libusb.cpp:237, 265`), and then looks for the
house and the command at the places where, so shifted, the complements of those bytes
are (327-329). An ON of E1 comes out as an OFF of another house's unit 16, a
DIM as an OFF (`HeardInverted`, `DimHeardAsOff`, theorems). The loop that
waits for the repeats (273-308) and the error returns end in that command or in
nothing, which is a nondeterministic choice. No property claims that remotes
are understood.

A DIM frame has no unit: lamps take it for the unit addressed last (`selected`).
`x10_send` keeps that address (`last`) and sends an ON first when the next DIM is
for another one. `SendOn` and `SendRest` are the two frames, between which a
remote may speak; any frame may go unheard. `ControllerUnload` deletes the
`X10Controller`, and `ControllerLoad` makes another one, whose `m_lastHouse` and
`m_lastUnit` nobody initialises (`x10controller.h:59-60`): `last` is then any value,
an address in use among them, so that the first DIM may go out without an ON.
`certain` says that there is no reason beyond the program's reach for lamps and
program to disagree: an ON or OFF of this `X10Controller` was heard, none of another
unit was lost since, no remote addressed another unit of the house, and no camera
was moved (which `x10_send` remembers as an address as well).

The transfers are external: they deliver the bytes of a frame from the first on, or
fail.

### 2.5 Cm19aDriver

`dev` has a record for each slot of `Tscvrs`: the fields of `struct
x10_cm19a_device` that decide anything, and four that stand for what others know
of it (`alive`: still plugged in; `listening`, `sending`: the USB core holds the
URB; `freeing`: the callback of the outgoing URB is between its two halves). The
slot is `present` until the last of its `refs` is given back.

* The *hub* is the USB core's thread, which probes and disconnects one device at a
  time. `Unplug` ends the URBs; `Disconnect` takes `disconnMutex` and then waits
  for the device's mutex with it held, `Detach` goes on from there and leaves the
  mutex locked: its holder is then `lost`. `devf_open` of a device that is open
  does the same (`OpenIsBusy`).
* A *call* is what a thread does inside the driver. `read` and `write` wait for
  the mutex, `waiting` and `submitting` hold it while they sleep. `ready` and `moving`
  hold it between the last look at `readPktLen`, the computation of `bytesToRead`
  from it (`ReadCounts`) and the `memmove` that takes as many bytes off the
  buffer (`ReadMoves`); the URB callback and `devf_poll` may change the buffer and
  `readPktLen` in between. A signal, a time-out or `O_NONBLOCK`
  ends a wait (`GiveUp`, `OpenInterrupted`, `ReleaseInterrupted`).
* `devf_read` is a series of calls of `read_intr_data`, which may end after any of
  them; `devf_write` is one of `write_intr_data` and then one of `read_intr_data`
  for the acknowledgement.
* `read_intr_data` copies nothing to its caller: it returns a number and moves the
  rest of the buffer up. What `devf_read` hands out is what the driver's own
  `x10_recv` makes of `intrInBuf`, the packet that came last; that is not modelled.
  The model is about the account of the buffer only: `taken` is the sum of the
  numbers that reads returned, `accepted` the number of bytes that were buffered.
* A packet counts as one byte; bytes are numbered as they are buffered, so that what
  the buffer holds can be told from what was taken off it. `fresh` says that
  `PktTimeout` has not passed since the last one.
* The VFS is external: it calls `release` once per file, when no other call on it is
  under way.

### 2.6 ControlWidget

The control, the data engine and the jobs share one event loop, so each handler is
one step and what matters is their order. `unit` is what the control shows,
`level` what the service holds; between them are `jobs` (calls that have not been
made), `queue`, `signals` and `cache` with `dirty` (the engine's value, and whether
the control has still to be told). The service's worker is one step per command
(`Serve`); it uses the operators of `Dimming` that `CommandQueue` uses, and
`Accepted` is `QueueCommand` with the smart queue on.

* `setUnitTo` shows a SET at once and suspends updates; `on_pushDirection` shows a
  DIM or BRIGHT without suspending them. `dataUpdated` with updates suspended only
  remembers the value (`received`), which `on_timerEndSuspendUpdate` shows later.
* `setUnit` is the change of the control's address: the source is left, another is
  connected, which the engine may have to fetch (`addX10Source`). The fetch
  overtakes the signals that are on their way. The control's timers live on.
* Timers have no duration: an active one may fire at any time, because the queue
  may make an answer take any time.
* `Exit` ends the process: queue and levels are lost. A job that finds no service
  fails, and the engine connects anew (`JobFails`), which drops undelivered signals.
* `dropped` and `forgot` are history. A DIM or BRIGHT of the control may be
  annihilated in the queue, or lost with a call that fails: the control then shows
  a level that nobody will announce, and the code has no means to notice
  (`dropped`). A service that is started again believes every unit off and says
  so to nobody: `forgot` is the set of units whose level it has not made known.
  The answer to a fetch makes a level known (`FetchValue`), unless a signal of the
  service that ended is still on its way: that one is delivered behind the answer
  and leaves the engine with a level of the old service until the new one sends
  something to that unit.

### 2.7 X10Widget

* `rules` is `m_rules`, which the dialog edits in place; `saved` is `m_rulesSaved`;
  `rows` and `row` are the list and its current row, `form` the fields of the page.
  A rule is cut down to the pieces that `loadRule` fills in one after the other
  (enabled and address, time, days and type of action, text, repeats), because
  the handlers of the fields it fills in save the rule. `LoadedRules` is what that
  comes to: if the time in the form changes and the rule has seconds, it is saved with
  what else the form shows, days and action of the row before; the handlers of the
  repeats save it again, whole, unless the repeats did not change (`half` in the form).
* What `validateRuleAddress` and `validateRuleAction` refuse is struck out (`struck`,
  `crossed`), and `saveRule` keeps the rule's own. Afterwards the rule's address is put
  back into the form, a struck-out text stays.
* `service`, `signals`, `data` with `due`, and `jobs` are the rules elsewhere. A
  property update of any kind makes `dataUpdated` compare the engine's rules with
  the widget's and, if they differ, replace these and the list. `Deserialize` is
  the way through the text of the rules: bad addresses disable a rule, a text
  with a comma in it is lost with its rule.
* Calls fail. `SetProperty` starts no job when there is no valid engine or operation;
  a job's call fails before it reached the service or after (`JobFailed`); any failing
  call may make the engine connect anew (`Reconnected`), and what was announced on the
  connection before is lost. `FetchProperty` may fail when the plasmoid is loaded.
* `createConfigurationInterface` opens the dialog and connects the list (`linked`).
  Closing it deletes the list, and the connection stays; what an update then does
  with the deleted list is `dataUpdated`, which happens to survive, or `Crash`.
  Emptying the form (`loadRule(-1)`) fires the handlers too; they read the time and the
  repeats of `m_rules[-1]` and save nothing. `Crash` has that read as well
  (`Stray`); that the outcome is otherwise harmless is the other choice.
* `nodes` is `NodesModel::m_nodes`, edited in place, `shown` the controls that
  `layoutControlWidgets` made of them, `disk` the configuration. Nodes without a
  name are lost when it is read. Fields are joined with `/` and split at it: a node
  with a `/` in its name (`CutNames`) is read back as `Cut` says, with another name, house
  and unit (`ReadBack`). The order in which nodes are read is that of a
  hash table (`readConfig`).
* Moments the dialog can do nothing about are history: `typed` (the user typed an
  address or a name with a `/` in it, or there was no address left), `parted` (the
  rules of the widget were left behind by Apply, Defaults, an empty list, or a job that
  did not start or failed, until the next update), `missed` (rules of the service did
  not reach the engine, until the next announcement of rules).

## 3. Runs

| run | instance | question |
|---|---|---|
| `queue` | two lamps, levels -1..3, every operation, a remote and two rules, smart queue switched on and off, 3 commands, fairness | safety of the queue, `Dispatch`, is any command lost, and does every one get its turn |
| `queue_opposites` | the same lamps | *violation*, see below |
| `rules` | days of 6 s, weeks of 2 days, 8 rules in 7 lists, re-arming every 4 s, drift, 1 s late | are rules run, on time, and none forgotten |
| `rules_stop` | the same | *violation*, see below |
| `lifecycle` | 3 starts, 1 loss of the controller, both values of `RELOAD_ON_ERROR` | do stop, restart and quit leave things right |
| `lifecycle_restart` | the same, the default configuration | *violation*, see below |
| `controller` | two houses, units 1, 4 and 9, every command | do commands reach their unit, through losses, remotes and controllers made anew |
| `frames` | one house, units 2, 3 and 9 | *violation*, see below |
| `driver` | one slot, two threads, two files, a buffer of 3 bytes, 3 bytes that arrive | are slots, files, the buffer and transfers kept apart through opening, closing and unplugging, and do readers wake |
| `widget` | a lamp or an appliance, two addresses, levels -1..2, three acts of user, remote, other client or service's end, fairness | does the control come to show the level |
| `settings` | rules with and without seconds, good and bad addresses, texts that are refused or cannot be read, at most 3; two houses of two units, names with `/`, at most 5 nodes; seven acts; calls that fail | do list, form, widget and service agree on the rules, do nodes and controls |
| `settings_closed` | the same | *violation*, see below |

Why the bounds are enough. *Levels*: the off-on-down shortcut of a SET is taken
when `target - cur > 2 + MaxValue - target`; with `MaxValue = 3` a SET from 0 to 3
takes it and one from 1 to 3 does not. *Three commands*: the properties relate at
most two commands in the list and one in hand, and a third one superseding them.
*Two lamps*: one is not the other's. *Rules*: a day of 6 s and a period of 4 s
make the timer re-arm before, at and after midnight; a week of two days has a
rule of every day, one of one day, one whose repeats stay in the day, one whose
repeats cross midnight, one whose repeats last longer than a day, one with repeats of period 0, one that shares its moment
with another, one on no day and one disabled. *Starts*: three workers make the
late news of one end reach the next but one. *Units*: 1 is the one whose
predecessor is not in the table, 4 one whose predecessor's code is part of that of
BRIGHT, 9 one with a high bit; two houses, as the address has two parts. *Driver*: two files and
two threads are what it takes to open a device that is open, and to write while
another waits; a buffer of 3 holds two packets and drops the third. Slots share
nothing but `disconnMutex`, the hub and the threads, so that one shows most of what
can go wrong; the theorems are about any number. *Control*: three acts are a request,
one that crosses it and a change of address or an end of the service; between them
each of the queues may hold any number of messages. Levels up to 2 have one that
is neither end, so that a SET takes several commands and a DIM may stop short of
off. *Dialog*: seven acts are to open it, add, edit and select rows, be
interrupted by another client, close it and do something with what is left; two
houses of two units are filled by four nodes, and the fifth finds none free; the
two names with a `/` are one that is read back as another address and one that loses its
node. The run has five million states.
`CHECK_DEADLOCK FALSE` in the lifecycle runs, because the process exits,
and in those of the driver, because a device whose mutex is never released, in the
last free slot, is the end of it, and in those of the plasmoid, where acts are
bounded and the rest comes to an end.

### 3.1 What the properties say

Queue: `SmartQueueCoalesced` (no step with the smart queue on makes a list in which
a unit's SET or OFF has something of the unit behind it, of one that had none),
`CompletedInOrder` (announced once, in order of acceptance),
`SetLandsOnTarget` (the last command of a SET, computed before the mutex was
released, still lands on the level asked for), `SetGetsCloser` (each step of a
SET reduces the number of steps left, `Distance`), `LostOnlyWithoutController` (a
command that will never be announced was superseded or annihilated by a later one for
its unit, or was a SET to the level there is, or there was no controller: with one, none
vanishes from the list, from the worker's hand, or from both),
`KeepsContract` (refinement of `Dispatch`), `EverythingIsServed` (liveness).

Life cycle: `StoppedIsIdle` (who says "Stopped" has let go of the controller),
`StopWaits` and `StopReturns` (`Stop` comes back when the worker is done, and
does come back), `ClientsKnowStatus` (with the main thread idle, nothing posted and the
worker not between setting a status and emitting it, clients have the status there
is), `NoExitUnderWorker`.

Rules: `NextInLineOccur` (what is in line occurs at the moment the timer is set
for: `GetExecutionTime` against the meaning of a rule), `NothingPassedOver` (no
rule begins before that moment, unless its repeats last longer than a day),
`WakesInTime`, `RunsOnTime`, `NextInLineRuns` (liveness).

Controller: `MemoryAgrees` (what `x10_send` remembers is what the lamps listen
for, from the first ON or OFF that they heard of the present `X10Controller` on,
until a frame of another unit is lost or a remote speaks to one), `ReachesItsUnit`
(under these conditions a command acts on its unit, and as what it is). After a
reload, a loss or a remote neither says anything before the next ON or OFF is heard:
the first DIM may then go to the wrong unit.

Driver: `SlotsInUse` (a slot is not given back while an interface, a file, a call
or a URB refers to it), `OneOpener` (no two files for one device), `BufferIsUnread`
(the buffer holds just the bytes that came and that no read has counted, and
a reader about to take some off takes no more than `readPktLen`, whatever is polled
and received between the look at it and the `memmove`), `BusyIsSending` (writers wait for transfers
that are under way, and for no others), `ReadersWake` (liveness).

Control: `Settled` (with nothing under way the control shows the service's level),
`EngineFollows` (behind the last signal on its way for the control's unit, or
behind the engine's value if there is none, the service has no other level, although
the value is fetched out of the signals' order), `DisplayCatchesUp`
(liveness: after the last act the control comes to show the level for good).

Dialog: `RowsMatchRules` (rows and rules correspond, although both sides are
edited), `FormShowsRule` (the form is the rule of the current row, so that saving
it changes nothing; but for an address or a text that is struck out, and for the days and
the action of a rule with seconds whose repeats are those of the row before, which is
left saved half), `RulesAgree` (widget and service agree when nothing is under way and
the dialog is closed; not after `parted` or `missed`, until the update that ends them),
`NodesApart` (no two nodes share an address, unless the user typed one, or a
name with a `/`, or none was left), `ControlsMatchNodes` (the controls are those of the
nodes).

### 3.2 Fairness

`Serve` of the queue and `Run` of the life cycle are weakly fair: every call the
worker makes returns (a USB transfer has a time-out) and a thread is scheduled.
The steps of a handler, and of `Stop`, are weakly fair because nothing else runs in
the main thread; `Stop`'s loop is woken by the clock. The event loop delivers what
was posted, and a timer that has run out. In the driver a reader's wait has a
time-out (`ReadWaits`) and there are pauses between bytes (`Silence`). In
`ControlWidget` the event loop turns, an active timer fires, a call returns or
fails, and the worker runs while its process does.
Time passes. Nothing makes a client, a
remote control, a fault or the clock's drift happen.

### 3.3 Disagreements found

* **`queue_opposites`**: "reverse direction, remove both commands"
  (`queue-manager.cpp`) and "with on, latest cmd overrides" (`common/config.h`),
  but a DIM or BRIGHT takes any other command of its unit with it, such as an ON
  or a SET that waits.
* **`rules_stop`**: the changelog of 0.6.3 says "Fix rules could stop after first
  exec."; when the rules run within the very second they are due in, the next
  execution is found to be now and the timer is not armed again. That is the only
  way in which time or an execution stops it (`StopsOnlyAtOnce`, a theorem).
* **`lifecycle_restart`**: the changelog of 0.4.2 says that a restart does not make
  the process exit any more; `Restart` starts a thread whose predecessor has said
  "Stopped" and not ended, nothing is started, and the news of the end makes the
  process exit.
* **`frames`**: `unit_code_to_int` looks for the high bit of a unit where no
  code has it, and every unit sent passes through it: a command to E9 goes out as
  the frame of E1, not as the one listed in `x10.txt`. And a DIM or BRIGHT is sent
  with the code of the unit before its own added to it: BRIGHT of E3 becomes the
  frame listed as `EDIM` (with `Units = {2, 3}` the run shows this one). All other
  commands are sent as listed (`SparedAsListed`, a theorem).
* **`settings_closed`**: the changelog of 0.6.3 repairs updates of rules while the
  dialog is closed by a connection that is to be cut when it closes;
  `disconnect(this, SIGNAL(RulesUpdated()))` names the receiver, not the signal,
  and cuts none. The next rules of another client are written to a deleted list.

Seen while modelling, and not a disagreement with any statement of the repository:
`write_intr_cb` lets the next writer go on before it frees the URB's buffer, which
that writer may have replaced; Defaults after an edit keeps OK from sending the
rules; the auto-off timer is cancelled by the echo of the DIM that started it;
`Stop` right after `Start` does nothing; remotes are decoded from the complements of
their bytes; after a reload the first DIM may lack its ON; a node with a `/` in its name
comes back as another; rules whose job failed stay in the widget until the next update.
`PROJECT.json` lists them as hazards. The
kernel driver's comment describes commands without a unit (`x10-cm19a.c:1381`),
which `devf_write` refuses because the unit is then 255; the plug-in always writes
one.

## 4. Proofs

TLAPS checks every theorem for all values of the constants that satisfy the named
assumptions (`MaxValueAssumption`, `CommandQueueAssumption`,
`RuleTimesAssumption`, `RuleManagerAssumption`, `ServiceLifecycleAssumption`,
`BeyondAssumption`, `X10ControllerAssumption`, `Cm19aDriverAssumption`,
`ControlWidgetAssumption`, `TimesAssumption`, `RulesAssumption`, `NodesAssumption`,
`BoundsAssumption`). The assumptions type the constants; those on rules say that
"never" is later than any execution time, those on the dialog that the minutes of
the times it deals with are among these times and that new rules are good ones.

* **`DimmingProofs`**: levels stay in range; what is tracked while sending equals
  what is derived from listening (`SentAsHeard`); each step of a SET reduces
  `Distance` by one; the step believed to be the last lands on the target. `Shortest`
  is the least number of commands between two levels (`NoneShorter`, `SomeCloser`);
  a SET takes that many, or one more where the way up and the way around count the
  same to the code, which counts an ON on the way around that it does not send
  (`SetNearlyShortest`), and never more than `MaxValue` (`SetBounded`).
* **`CommandQueueProofs`**: `TypeCorrect`. `CompletedInOrder` is not inductive: it
  needs that tickets are unique, that the command in hand is older than the list
  or is a step of the SET that stays in it marked as announced, and that what is
  still to be announced is newer than all that was (`OrderInv`).
  `SmartQueueCoalesced` and `SetLandsOnTarget` need the types only.
  `LostOnlyWithoutController` needs `OrderInv`, by which a command that is both in the
  list and in hand is a SET that has been announced.
  `SetGetsCloser` needs `StepFits`: while a step of a SET is in hand,
  it is the step `GetNextCommand` would still compute, because only the worker
  changes levels. `QueueKeepsContract` is the refinement of `Dispatch`: enqueueing
  and annihilating are `Accept`, the worker's taking or transmitting is `Answer`
  (by `HandIsOldest`, of the oldest that waits) or a stutter.
* **`ServiceLifecycleProofs`**: `LifecycleInv` says where the worker may be while
  the controller is loaded or the mutex held, that a worker that is done or has
  not begun leaves the status at "Stopped" unless `Stop` came too late, and that
  only `Quit` exits after `Stop`. From it `StoppedIsIdle`, `NoExitUnderWorker`,
  `StopWaits`. `ClientsKnowStatus` speaks of moments with nothing under way only; what
  is inductive is `DeliveryInv`: the status the worker has set and not announced, or
  if there is none the last one posted, or else the one heard last, is the status,
  except while it is "Stopping", which clients are told directly and which lasts no
  longer than `Stop`.
* **`RuleManagerProofs`**: `ExecutionTimeAhead` (an execution time is never in the past, so
  the branch "PERIOD Ms < 0, shouldn't happen" is dead), types, `WakesInTime`
  (inductive with the types) and `RunsOnTime`, for any rules and any period.
  `NextInLineOccur` and `NothingPassedOver` rest on arithmetic: quotient and remainder
  are unique, so an instant of any week is a day and a second (`DayAndSecond`), and
  the week goes round under addition (`WeekRound`). From these, `OccursThen` (a rule
  occurs at the time `GetExecutionTime` gives) and `NothingBefore` (it does not
  begin earlier), in the three cases of the code: today, a repeat, another day.
  `LineInv` carries both through time: they move with the clock because `due`, with
  the timer running, is neither "never" nor as far in the past as `Past`, which
  takes `WakesInTime`.
  `StopsOnlyAtOnce` needs that a rule with a day has an execution time
  (`LowestTimeComes`).
* **`X10ControllerProofs`**: what lists of frames and codes mean (`UnitCodesInvert`,
  by cases over the units and bit by bit), what the libusb plug-in makes of frames that
  it hears (`HeardInverted`: of an ON or OFF of units 1 to 8 the opposite, for unit 17-n
  of the house with the complementary code; `DimHeardAsOff`), types,
  and `MemoryAgrees` with `ReachesItsUnit`, which are inductive together with the
  fact that the command behind an ON has its address (`Reaches`); both plug-ins make
  one frame of a command, with the code of the same unit (`OneFrame`,
  `CarriedCode`), and it is the one in the list but for the two disagreements
  (`SparedAsListed`).
* **`Cm19aDriverProofs`**: all safety properties that the run `driver` checks, for
  any number of slots, threads and files. `SlotsInUse` is not inductive. It needs
  that the counter covers the references (`SlotRefs`: one for the interface until
  `Detach`, one for the file, two when there are both; that a device still
  plugged in is attached), where calls under way have their slot from (`CallOK`:
  an opening one from the interface, which `disconnMutex` keeps in place, any
  other from its file, which is not closed under it) and that there is one
  opener. `BufferIsUnread` needs that the buffer is a run of consecutive bytes and
  that a packet seen under the mutex does not get shorter until its holder moves it
  (`moving`). Most actions
  touch one device and no reference (`Tame`), some not even what the holder of the
  mutex relies on (`Alike`); one lemma each carries the invariant over them.
* **`ControlWidgetProofs`**: `EngineFollows` and `Settled`, from `PipelineInv`. What
  the control shows may differ from what the service holds for as long as
  something makes up for it, and the invariant says what: the engine's value is
  behind by the signals on their way; the control is behind the engine while an update
  is due, updates are suspended, or its own DIM or BRIGHT is in a job or in the queue
  (`Asked`), whose signal will come. That the queue's replacing, annihilating and
  appending lose no such command unnoticed is the lemma on `Accepted`.
* **`X10WidgetProofs`**: `FormInv` is what holds between two handlers of the dialog:
  there is a row for each rule, the form shows the rule of the current row as far as
  `FormShowsRule` says, there are as many controls as nodes. It is inductive as a whole
  only: `loadRule` saves a rule it has loaded half, so that `FormShowsRule` needs rows
  that match, and removing a row loads the form of its neighbour first. `NodesApart`
  needs that the nodes in the file are apart as well and have names that are read back
  as they were, and that the search for the next free unit goes through all houses.
  `RulesAgree` follows the rules through the queues between widget and service
  (`EngineInv`, `WidgetInv`): behind the last announcement on its way, if none was
  lost, the service has no others. It rests on reading rules twice giving no other
  rules than reading them once (`DeserializeProperties`).

What the proofs brought to light: the level of a service that was restarted is
overruled by a signal of its predecessor that is still on its way (2.6; the property
had said otherwise, and three acts were not enough to see it); and a rule whose
repeats last longer than a day keeps another beginning of its own from being
noticed (`WithinADay`).

Only model-checked: liveness (`EverythingIsServed`, `NextInLineRuns`,
`StopReturns`, `ReadersWake`, `DisplayCatchesUp`), which needs ENABLED.

## 5. What is not modelled

* Data races proper: `Containers`, `m_queueCommands` in `Stop` and `m_listRules`
  are touched without a mutex. The models interleave whole steps; what a torn
  container does is outside of any model.
* Signals that interrupt a thread in the middle of something: `Quit` is modelled
  only from the event loop. Static destructors after exit.
* The text of rules and commands, D-Bus registration, logging, and the command
  line, whose requests are those of any client.
* The rest of the dialog (fonts, colours, periods), drawing, and the engine's
  sources of logs and status, which are passed on unchanged.
* What is read at `m_rules[-1]` when the form is emptied (2.7): undefined. The model has
  the two outcomes that differ, a crash and none; `RowsMatchRules` does not exclude
  the read.
* What the kernel driver's `devf_read` hands out (2.5), and camera frames that are
  heard.
* Daylight saving time: the clock of `RuleManager` has no jumps.

## 6. Plan

In this order:

1. `X10Service`: the queue and the life cycle composed, so that commands survive or
   die with `Stop`, and `StoppedIsIdle` speaks of the list as well.
2. What the kernel driver's `x10_recv` makes of the latest packet when `devf_read`
   asks for an earlier one (which no plug-in reads), and the probe in its steps with the ways it fails
   half-way.
