--------------------------- MODULE ServiceLifecycle ---------------------------
(***************************************************************************)
(* Starting, stopping and restarting x10_service:                          *)
(* controller/service/x10dbusservice.cpp and the status, the flags and the *)
(* loop of controller/service/queue-manager.cpp.                           *)
(*                                                                         *)
(* The main thread runs an event loop: requests from D-Bus, and what the   *)
(* worker posted to it.  Stop makes it wait, asleep, for the worker; the   *)
(* worker takes its time at the controller.  m_isRunning is a plain flag,  *)
(* the status has a mutex of its own, and whoever reads or sets it has let *)
(* go of that mutex when it acts on it or announces it.                    *)
(***************************************************************************)
EXTENDS Naturals, Sequences

CONSTANTS
  ReloadModes,  \* the values RELOAD_ON_ERROR may have in the configuration
  MaxStarts,    \* bound: workers started
  MaxFaults,    \* bound: times the controller dies
  MaxQueued     \* bound: commands waiting

ASSUME ServiceLifecycleAssumption ==
  /\ ReloadModes \subseteq BOOLEAN /\ ReloadModes # {}
  /\ MaxStarts \in Nat /\ MaxFaults \in Nat /\ MaxQueued \in Nat

VARIABLES
  status,     \* m_status
  isRunning,  \* m_isRunning
  worker,     \* where the worker thread is; "none" when there is no such thread
  loaded,     \* m_controllerLoaded
  locked,     \* the worker holds m_mutex while it is not in its loop
  queued,     \* the number of commands in m_queueCommands
  reload,     \* RELOAD_ON_ERROR
  main,       \* where the main thread is
  after,      \* what the main thread does when Stop returns
  untold,     \* the status the worker has set and not announced yet
  inbox,      \* what the worker has posted to the main thread
  heard,      \* the status the clients heard last
  asked,      \* history: the last request served
  starts, faults

mainVars       == <<main, after, asked, starts>>
controllerVars == <<loaded, locked, faults>>
workerVars     == <<untold, controllerVars>>
vars ==
  <<status, isRunning, worker, queued, reload, inbox, heard, mainVars, workerVars>>

Statuses == {"Stopping", "Stopped", "Starting", "Loading", "Started", "No Controller"}

\* In run: before the controller is loaded, at it, in the loop, and after it.
Places == {"none", "born", "starting", "running", "loading", "loaded", "reporting",
           "looping", "sending", "leaving", "unloaded", "returned"}

Init ==
  /\ status = "Stopped" /\ heard = "Stopped"
  /\ isRunning = FALSE
  /\ worker = "none" /\ loaded = FALSE /\ locked = FALSE
  /\ queued = 0
  /\ reload \in ReloadModes
  /\ main = "idle" /\ after = "nothing"
  /\ untold = "nothing" /\ inbox = <<>>
  /\ asked = "nothing"
  /\ starts = 0 /\ faults = 0
-----------------------------------------------------------------------------
(***************************************************************************)
(* The worker: run.  SetStatus announces a status that is new after it has *)
(* let go of m_mutexStatus; what the worker emits is posted to the main    *)
(* thread.                                                                 *)
(***************************************************************************)
Goes(from, to) == main # "exited" /\ untold = "nothing" /\ worker = from /\ worker' = to

Sets(s) == status' = s /\ untold' = IF s = status THEN "nothing" ELSE s

\* A faulty Emit: the clients are told from the worker's thread.
EmitAtOnce ==
  /\ main # "exited" /\ untold # "nothing"
  /\ heard' = untold
  /\ untold' = "nothing"
  /\ locked' = FALSE
  /\ UNCHANGED <<status, isRunning, worker, queued, reload, inbox, mainVars, loaded, faults>>

\* When m_mutex is held outside the loop, this is the last thing it is held for.
Emit ==
  /\ main # "exited" /\ untold # "nothing"
  /\ inbox' = Append(inbox, untold)
  /\ untold' = "nothing"
  /\ locked' = FALSE
  /\ UNCHANGED <<status, isRunning, worker, queued, reload, heard, mainVars, loaded, faults>>

Begin ==
  /\ Goes("born", "starting")
  /\ Sets("Starting")
  /\ UNCHANGED <<isRunning, queued, reload, inbox, heard, mainVars, controllerVars>>

SetRunning ==
  /\ Goes("starting", "running")
  /\ isRunning' = TRUE
  /\ UNCHANGED <<status, queued, reload, inbox, heard, mainVars, workerVars>>

\* The rules are loaded in between.
BeginLoading ==
  /\ Goes("running", "loading")
  /\ Sets("Loading")
  /\ UNCHANGED <<isRunning, queued, reload, inbox, heard, mainVars, controllerVars>>

\* ControllerLoad finds a controller or none ...
ControllerLoad ==
  /\ Goes("loading", "loaded")
  /\ loaded' \in BOOLEAN
  /\ UNCHANGED <<status, isRunning, queued, reload, untold, inbox, heard, mainVars, locked,
                 faults>>

\* ... looks whether it is to stop ...
CheckStatus ==
  /\ Goes("loaded", IF status # "Stopping" THEN "reporting" ELSE "looping")
  /\ locked' = (locked /\ status # "Stopping")
  /\ UNCHANGED <<status, isRunning, queued, reload, untold, inbox, heard, mainVars, loaded,
                 faults>>

\* A faulty Outcome: the status has no name.
OutcomeUnnamed(found) == IF found THEN "Started" ELSE "Unknown"

Outcome(found) == IF found THEN "Started" ELSE "No Controller"

\* ... and if not sets the outcome, whatever the main thread set meanwhile.
ReportLoad ==
  /\ Goes("reporting", "looping")
  /\ Sets(Outcome(loaded))
  /\ locked' = (locked /\ untold' # "nothing")
  /\ UNCHANGED <<isRunning, queued, reload, inbox, heard, mainVars, loaded, faults>>

Take ==
  /\ Goes("looping", "sending")
  /\ isRunning /\ queued > 0
  /\ queued' = queued - 1
  /\ UNCHANGED <<status, isRunning, reload, inbox, heard, mainVars, workerVars>>

Transmit ==
  /\ Goes("sending", "looping")
  /\ UNCHANGED <<status, isRunning, queued, reload, inbox, heard, mainVars, workerVars>>

\* More than MAX_ERRORS in a row: the controller is loaded anew, with m_mutex
\* held, or the thread ends.
TooManyErrors ==
  /\ Goes("looping", IF reload THEN "loading" ELSE "leaving")
  /\ isRunning /\ queued = 0 /\ loaded
  /\ faults < MaxFaults
  /\ faults' = faults + 1
  /\ loaded' = FALSE
  /\ locked' = reload
  /\ UNCHANGED <<status, isRunning, queued, reload, untold, inbox, heard, mainVars>>

LeaveLoop ==
  /\ Goes("looping", "leaving")
  /\ ~isRunning
  /\ UNCHANGED <<status, isRunning, queued, reload, inbox, heard, mainVars, workerVars>>

\* A faulty ControllerUnload: the controller is given back by the next load.
ControllerUnloadLater ==
  /\ Goes("leaving", "unloaded")
  /\ UNCHANGED <<status, isRunning, queued, reload, inbox, heard, mainVars, workerVars>>

ControllerUnload ==
  /\ Goes("leaving", "unloaded")
  /\ loaded' = FALSE
  /\ UNCHANGED <<status, isRunning, queued, reload, untold, inbox, heard, mainVars, locked,
                 faults>>

SetStopped ==
  /\ Goes("unloaded", "returned")
  /\ Sets("Stopped")
  /\ UNCHANGED <<isRunning, queued, reload, inbox, heard, mainVars, controllerVars>>

\* QThread ends the thread after run has returned.
Finish ==
  /\ Goes("returned", "none")
  /\ inbox' = Append(inbox, "finished")
  /\ UNCHANGED <<status, isRunning, queued, reload, heard, mainVars, workerVars>>
-----------------------------------------------------------------------------
(***************************************************************************)
(* The main thread: requests.                                              *)
(***************************************************************************)
Idle == main = "idle"

\* QThread::start does nothing while there is a thread.
Launch ==
  IF worker = "none"
  THEN worker' = "born" /\ starts' = starts + 1
  ELSE UNCHANGED <<worker, starts>>

\* What follows Stop.
Proceed(next) ==
  /\ after' = "nothing"
  /\ main' = IF next = "exit" THEN "exited" ELSE "idle"
  /\ IF next = "start" THEN Launch ELSE UNCHANGED <<worker, starts>>

\* QueueManager::Stop reads the status.
AskStop(next) ==
  IF status \in {"Stopped", "Stopping"}
  THEN Proceed(next)
  ELSE main' = "asking" /\ after' = next /\ UNCHANGED <<worker, starts>>

Start ==
  /\ Idle /\ starts < MaxStarts
  /\ asked' = "start"
  /\ Launch
  /\ UNCHANGED <<status, isRunning, queued, reload, inbox, heard, main, after, workerVars>>

Stop ==
  /\ Idle /\ worker # "none"
  /\ asked' = "stop"
  /\ AskStop("nothing")
  /\ UNCHANGED <<status, isRunning, queued, reload, inbox, heard, workerVars>>

Restart ==
  /\ Idle /\ starts < MaxStarts
  /\ asked' = "restart"
  /\ AskStop("start")
  /\ UNCHANGED <<status, isRunning, queued, reload, inbox, heard, workerVars>>

\* From D-Bus, or a signal that comes while the main thread waits for events.
Quit ==
  /\ Idle
  /\ asked' = "quit"
  /\ IF worker # "none" THEN AskStop("exit") ELSE Proceed("exit")
  /\ UNCHANGED <<status, isRunning, queued, reload, inbox, heard, workerVars>>

\* The status is set ...
BeginStop ==
  /\ main = "asking"
  /\ main' = "telling"
  /\ status' = "Stopping"
  /\ UNCHANGED <<isRunning, worker, queued, reload, inbox, heard, after, asked, starts,
                 workerVars>>

\* ... the clients are told, at once since this is the main thread, the flag is
\* reset and the list emptied.
TellStopping ==
  /\ main = "telling"
  /\ main' = "stopping"
  /\ heard' = "Stopping"
  /\ isRunning' = FALSE
  /\ queued' = 0
  /\ UNCHANGED <<status, worker, reload, inbox, after, asked, starts, workerVars>>

\* A faulty AllStopped: no longer stopping.
NotStopping == status # "Stopping"

AllStopped == status = "Stopped"

\* A faulty StillStopping: the flag was reset already.
StillStoppingOnce ==
  /\ main = "stopping" /\ ~AllStopped
  /\ UNCHANGED vars

\* The flag is reset again each time round.
StillStopping ==
  /\ main = "stopping" /\ ~AllStopped
  /\ isRunning' = FALSE
  /\ UNCHANGED <<status, worker, queued, reload, inbox, heard, mainVars, workerVars>>

EndStop ==
  /\ main = "stopping" /\ AllStopped
  /\ Proceed(after)
  /\ UNCHANGED <<status, isRunning, queued, reload, inbox, heard, asked, workerVars>>

\* Send and Set; a stopped service takes commands too, for the next start.
QueueCommand ==
  /\ Idle /\ ~locked
  /\ queued < MaxQueued
  /\ queued' = queued + 1
  /\ UNCHANGED <<status, isRunning, worker, reload, inbox, heard, mainVars, workerVars>>

\* Only RELOAD_ON_ERROR matters here.
Reload ==
  /\ Idle
  /\ reload' \in ReloadModes
  /\ UNCHANGED <<status, isRunning, worker, queued, inbox, heard, mainVars, workerVars>>
-----------------------------------------------------------------------------
(***************************************************************************)
(* The main thread: what the worker posted.                                *)
(***************************************************************************)
OnQM_StatusUpdate ==
  /\ Idle /\ inbox # <<>>
  /\ Head(inbox) # "finished"
  /\ heard' = Head(inbox)
  /\ inbox' = Tail(inbox)
  /\ UNCHANGED <<status, isRunning, worker, queued, reload, mainVars, workerVars>>

\* "let's sleep so we don't prevent restart" ...
OnQM_Exit ==
  /\ Idle /\ inbox # <<>>
  /\ Head(inbox) = "finished"
  /\ inbox' = Tail(inbox)
  /\ main' = "asleep"
  /\ UNCHANGED <<status, isRunning, worker, queued, reload, heard, after, asked, starts,
                 workerVars>>

\* A faulty MayExit: whatever the status is by now.
MayExitAlways == TRUE

MayExit == status = "Stopped"

\* ... for a second: long enough for a thread that was started to set its status.
WakeUp ==
  /\ main = "asleep"
  /\ worker # "born"
  /\ main' = IF MayExit THEN "exited" ELSE "idle"
  /\ UNCHANGED <<status, isRunning, worker, queued, reload, inbox, heard, after, asked,
                 starts, workerVars>>
-----------------------------------------------------------------------------
Run ==
  \/ Emit \/ Begin \/ SetRunning \/ BeginLoading
  \/ ControllerLoad \/ CheckStatus \/ ReportLoad
  \/ Take \/ Transmit \/ TooManyErrors
  \/ LeaveLoop \/ ControllerUnload \/ SetStopped \/ Finish

Stopping == BeginStop \/ TellStopping \/ StillStopping \/ EndStop

Events == OnQM_StatusUpdate \/ OnQM_Exit \/ WakeUp

Requests == Start \/ Stop \/ Restart \/ Quit \/ QueueCommand \/ Reload

Next == Run \/ Stopping \/ Events \/ Requests

Spec == Init /\ [][Next]_vars

\* Each thread goes on with what it has begun: every call the worker makes
\* returns, and Stop's loop is woken by the clock.
Fairness == WF_vars(Run) /\ WF_vars(Stopping) /\ WF_vars(Events)

FairSpec == Spec /\ Fairness
-----------------------------------------------------------------------------
(***************************************************************************)
(* Properties.                                                             *)
(***************************************************************************)
\* The worker has nothing to do with the controller.
AtRest == worker \in {"none", "born", "returned"}

PlacesOK ==
  /\ status \in Statuses /\ heard \in Statuses
  /\ worker \in Places
  /\ main \in {"idle", "asking", "telling", "stopping", "asleep", "exited"}
  /\ untold \in Statuses \cup {"nothing"}
  /\ after \in {"nothing", "start", "exit"}
  /\ asked \in {"nothing", "start", "stop", "restart", "quit"}

FlagsOK ==
  /\ isRunning \in BOOLEAN /\ loaded \in BOOLEAN /\ locked \in BOOLEAN
  /\ reload \in ReloadModes

CountersOK ==
  /\ queued \in 0 .. MaxQueued /\ starts \in 0 .. MaxStarts /\ faults \in 0 .. MaxFaults
  /\ main \in {"asking", "telling", "stopping"} /\ after = "start" => starts < MaxStarts

InboxOK == inbox \in Seq(Statuses \cup {"finished"})

(* The types of the variables. *)
TypeOK == PlacesOK /\ FlagsOK /\ CountersOK /\ InboxOK

(* A service that says it is stopped has let go of the controller and has   *)
(* no worker at it, although the two threads overwrite each other's status. *)
StoppedIsIdle == status = "Stopped" => AtRest /\ ~loaded /\ ~locked

(* Stop comes back only when the worker is done, also when the worker, on   *)
(* its way up, has overwritten "Stopping".                                  *)
StopWaits ==
  [][ main = "stopping" /\ main' # "stopping" => worker \in {"returned", "none"} ]_vars

(* Stop comes back, if the worker has not ended on its own by the time the  *)
(* status is set.                                                           *)
StopReturns ==
  main = "telling" /\ worker \notin {"returned", "none"}
    ~> main \notin {"telling", "stopping"}

(* When the main thread waits for events, everything posted to it was       *)
(* delivered and the worker is not just about to announce what it has set,  *)
(* the clients know the status: two threads set it and announce it after    *)
(* the mutex is free again, by ways of different speed.                     *)
ClientsKnowStatus == Idle /\ inbox = <<>> /\ untold = "nothing" => heard = status

(* The end of one worker, told late, does not make the process exit under   *)
(* the next one.                                                            *)
NoExitUnderWorker ==
  main = "exited" /\ asked # "quit" => worker \in {"returned", "none"}

(* "fix: x10 restart & quitting last widget made x10_service process exit"  *)
(* (debian/changelog, 0.4.2): the process does not exit when the last thing *)
(* it was asked is to restart.                                              *)
RestartKeepsService == main = "exited" => asked # "restart"
-----------------------------------------------------------------------------
(***************************************************************************)
(* The inductive invariant that ServiceLifecycleProofs uses.               *)
(***************************************************************************)
\* The controller is loaded, and m_mutex held outside the loop, at these places
\* only.
ControllerInv ==
  /\ loaded => worker \in {"loaded", "reporting", "looping", "sending", "leaving"}
  /\ locked => \/ worker \in {"loading", "loaded", "reporting"} /\ untold = "nothing"
               \/ worker = "looping" /\ untold # "nothing"

\* A worker that has not begun or is done leaves the status at "Stopped", unless
\* Stop, too late, sets "Stopping".
RestInv ==
  /\ AtRest => status = "Stopped" \/ main \in {"telling", "stopping"}
  /\ main \in {"asking", "telling", "stopping"} => worker # "born"

\* Only Quit exits when Stop comes back.
AfterInv ==
  /\ after = "exit" => asked = "quit"
  /\ main \in {"idle", "asleep"} => after = "nothing"

\* Who has heard h and is still to hear what is in the box will have heard v last.
HeardLast(box, h, v) ==
  LET said == {i \in DOMAIN box : box[i] # "finished"}
  IN  /\ \A i \in said : (\A j \in said : j <= i) => box[i] = v
      /\ said = {} => h = v

\* What is on its way to the main thread, or about to be.
Owed == IF untold = "nothing" THEN inbox ELSE Append(inbox, untold)

\* What is owed ends with the status, whatever the clients were told around it:
\* "Stopping", which is, lasts no longer than Stop.
DeliveryInv ==
  /\ status = "Stopping" => main \in {"telling", "stopping"}
  /\ status # "Stopping" =>
       /\ HeardLast(Owed, heard, status)
       /\ main = "telling" => HeardLast(Owed, "Stopping", status)

LifecycleInv == StoppedIsIdle /\ ControllerInv /\ RestInv /\ AfterInv /\ NoExitUnderWorker
=============================================================================
