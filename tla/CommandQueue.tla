---------------------------- MODULE CommandQueue ----------------------------
(***************************************************************************)
(* The command queue of x10_service: controller/service/queue-manager.cpp  *)
(* and container.cpp.                                                      *)
(*                                                                         *)
(* Two threads share it.  The main thread runs the D-Bus handlers and the  *)
(* rules: it splits generic requests (all units of a house, all houses)    *)
(* over the sources it knows and enqueues one command per unit, taking     *)
(* m_mutex anew for each.  The worker (QueueManager::run) takes commands   *)
(* from the other end under m_mutex, lets the mutex go, and then updates   *)
(* the tracked level and transmits; when nothing is queued it listens to   *)
(* the remote controls instead.                                            *)
(*                                                                         *)
(* std::list m_queueCommands grows only by push_front, so its order is the *)
(* order of acceptance: the list is modelled as the set of its elements,   *)
(* each with the ticket (acceptance number) that places it; back() is the  *)
(* smallest ticket, the iteration from begin() goes down from the largest. *)
(***************************************************************************)
EXTENDS Dimming, Sequences, FiniteSets

CONSTANTS
  Houses,      \* house letters of the sources in use
  Units,       \* unit numbers of the sources in use
  Star,        \* '*', the house of a request for every house
  AnyUnit,     \* 0, the unit of a request for every unit
  SourceOrder, \* the addresses that become sources, in the order of the keys of
               \* std::map<QString, Container*>
  SendOps,     \* operations that clients Send
  SetLevels,   \* levels that clients SET
  Polled,      \* addresses that clients GetValue
  RemoteOps,   \* commands of remotes that the controller plug-in decodes
  RuleLists,   \* command lists that rules execute
  SmartModes,  \* values that config.SMART_QUEUE takes
  MaxTickets   \* bound: commands accepted in a behaviour

Nodes   == Houses \X Units
Generic == (Houses \X {AnyUnit}) \cup {<<Star, AnyUnit>>}
\* X10::isValidAddress: "E5", "E*" (or "E0") and "*"
Sources == Nodes \cup Generic
\* X10::isValidChannel and isValidUnit also let "*5" through
Targets == Sources \cup ({Star} \X Units)

QueuedOps == SentOps \cup {"SET"}
Requests  == [target : Targets, op : QueuedOps, arg : Levels,
              when : {"always", "ifKnown", "never"}]

ASSUME CommandQueueAssumption ==
  /\ Star \notin Houses /\ AnyUnit \notin Units
  /\ SourceOrder \in Seq(Sources)
  /\ SendOps \subseteq QueuedOps
  /\ SetLevels \subseteq Levels
  /\ Polled \subseteq Sources
  /\ RemoteOps \subseteq LevelOps
  /\ RuleLists \subseteq Seq(Requests)
  /\ SmartModes \subseteq BOOLEAN
  /\ MaxTickets \in Nat

VARIABLES
  known,    \* the keys of Containers
  value,    \* Container::value of each source, Off for a new one
  queue,    \* m_queueCommands
  smart,    \* config.SMART_QUEUE
  loaded,   \* m_controllerLoaded
  todo,     \* main thread: the calls of QueueCommand still to make
  hand,     \* worker: the command taken from the queue, and how far it is
  issued,   \* history: the last ticket given out
  signals   \* history: the tickets CommandCompleted was emitted for

vars == <<known, value, queue, smart, loaded, todo, hand, issued, signals>>

Tickets  == 1 .. MaxTickets
Commands == [ticket : Tickets, node : Nodes, op : QueuedOps, arg : Levels,
             notified : BOOLEAN]
NoGoal    == -2
NoCommand == [phase |-> "none"]
InHand    == [phase : {"apply", "send"}, ticket : Tickets, node : Nodes,
              op : SentOps, notified : BOOLEAN, goal : Levels \cup {NoGoal}]

Init ==
  /\ known = {}
  /\ value = [s \in Sources |-> Off]
  /\ queue = {}
  /\ smart \in SmartModes
  /\ loaded \in BOOLEAN
  /\ todo = <<>>
  /\ hand = NoCommand
  /\ issued = 0
  /\ signals = <<>>
-----------------------------------------------------------------------------
(***************************************************************************)
(* The list.                                                               *)
(***************************************************************************)
Newest(S) == CHOOSE c \in S : \A d \in S : d.ticket <= c.ticket
Oldest(S) == CHOOSE c \in S : \A d \in S : c.ticket <= d.ticket

\* A faulty Back: the newest command.
Front == Newest(queue)

\* back(), where the worker takes.
Back == Oldest(queue)

SameUnit(n) == {c \in queue : c.node = n}

\* A faulty Superseded: SMART_QUEUE is not looked at.
SupersededAlways(r) ==
  IF r.op \in {"SET", "OFF"} THEN SameUnit(r.target) ELSE {}

\* A faulty Superseded: OFF forgets what is queued before it.
SupersededBySetOnly(r) ==
  IF smart /\ r.op = "SET" THEN SameUnit(r.target) ELSE {}

\* What an incoming SET or OFF erases from the list.
Superseded(r) ==
  IF smart /\ r.op \in {"SET", "OFF"} THEN SameUnit(r.target) ELSE {}

\* A faulty Opposed: the houses are compared, the units are not.
OpposedInHouse(r) ==
  IF smart /\ r.op \in {"BRIGHT", "DIM"}
  THEN {c \in queue : c.node[1] = r.target[1] /\ c.op # r.op}
  ELSE {}

\* What an incoming BRIGHT or DIM finds to annihilate itself with: the first
\* command of the unit, from the front, that is not the same.
Opposed(r) ==
  IF smart /\ r.op \in {"BRIGHT", "DIM"}
  THEN {c \in SameUnit(r.target) : c.op # r.op}
  ELSE {}

Matches(target, s) ==
  /\ target[1] = Star \/ s[1] = target[1]
  /\ target[2] = AnyUnit \/ s[2] = target[2]
-----------------------------------------------------------------------------
(***************************************************************************)
(* The main thread: D-Bus handlers and rules.                              *)
(***************************************************************************)
Request(t, op, arg, when) == [target |-> t, op |-> op, arg |-> arg, when |-> when]

\* How many commands these calls may put in the queue.
Cost(requests) ==
  LET single == {i \in DOMAIN requests : requests[i].target \in Nodes}
  IN  Cardinality(single) + Cardinality(DOMAIN requests \ single) * Cardinality(Nodes)

\* The calls of QueueCommand a handler makes.  MaxTickets bounds how many
\* commands are accepted: a handler starts only if all of its commands fit.
Begin(requests) ==
  /\ todo = <<>>
  /\ issued + Cost(requests) <= MaxTickets
  /\ todo' = requests
  /\ UNCHANGED <<known, value, queue, smart, loaded, hand, issued, signals>>

\* Send: any command character, '=' included, always with value -1.
Send == \E t \in Targets, op \in SendOps : Begin(<<Request(t, op, Off, "always")>>)

Set == \E t \in Targets, v \in SetLevels : Begin(<<Request(t, "SET", v, "always")>>)

\* SetAllTo: the loop reads the live map, so a source that the worker creates
\* ahead of the iterator is still reached.
SetAllTo ==
  \E op \in {"ON", "OFF"} :
    Begin([i \in DOMAIN SourceOrder |-> Request(SourceOrder[i], op, Off, "ifKnown")])

on_RuleExecute == \E list \in RuleLists : Begin(list)

GetValue ==
  /\ todo = <<>>
  /\ \E s \in Polled : known' = known \cup {s}
  /\ UNCHANGED <<value, queue, smart, loaded, todo, hand, issued, signals>>

SetSmartQueue ==
  /\ todo = <<>>
  /\ smart' \in SmartModes
  /\ UNCHANGED <<known, value, queue, loaded, todo, hand, issued, signals>>

Due(r) == r.when = "always" \/ (r.when = "ifKnown" /\ r.target \in known)

\* A source of the map that is not (or not any more) concerned: the loop moves on.
Skip ==
  /\ todo # <<>>
  /\ ~Due(Head(todo))
  /\ todo' = Tail(todo)
  /\ UNCHANGED <<known, value, queue, smart, loaded, hand, issued, signals>>

\* QueueCommand of a generic command: one call per source that the list of
\* nodes, read when the call begins, matches.  A source that is generic itself
\* matches itself: the calls then nest without end.
Expand ==
  /\ todo # <<>>
  /\ LET r == Head(todo)
         hits == {s \in known : Matches(r.target, s)}
     IN  /\ Due(r)
         /\ r.target \notin Nodes
         /\ todo' = [i \in DOMAIN SourceOrder |->
                      Request(SourceOrder[i], r.op, r.arg,
                              IF SourceOrder[i] \in hits THEN "always" ELSE "never")]
                    \o Tail(todo)
  /\ UNCHANGED <<known, value, queue, smart, loaded, hand, issued, signals>>

\* QueueCommand of one unit's command, under m_mutex: it goes to the front of
\* the list, which it may first have cleared of what it supersedes ...
Enqueue ==
  /\ todo # <<>>
  /\ LET r == Head(todo)
     IN  /\ Due(r)
         /\ r.target \in Nodes
         /\ issued < MaxTickets
         /\ Opposed(r) = {}
         /\ queue' = (queue \ Superseded(r)) \cup
                       {[ticket |-> issued + 1, node |-> r.target, op |-> r.op,
                         arg |-> r.arg, notified |-> FALSE]}
  /\ issued' = issued + 1
  /\ todo' = Tail(todo)
  /\ UNCHANGED <<known, value, smart, loaded, hand, signals>>

\* ... or it is dropped together with the command it annihilates.
Annihilate ==
  /\ todo # <<>>
  /\ LET r == Head(todo)
     IN  /\ Due(r)
         /\ r.target \in Nodes
         /\ issued < MaxTickets
         /\ Opposed(r) # {}
         /\ queue' = queue \ {Newest(Opposed(r))}
  /\ issued' = issued + 1
  /\ todo' = Tail(todo)
  /\ UNCHANGED <<known, value, smart, loaded, hand, signals>>

Main == \/ Send \/ Set \/ SetAllTo \/ on_RuleExecute \/ GetValue \/ SetSmartQueue
        \/ Skip \/ Expand \/ Enqueue \/ Annihilate
-----------------------------------------------------------------------------
(***************************************************************************)
(* The worker.                                                             *)
(***************************************************************************)
\* A remote control is heard while nothing is queued; the mutex is held.
Receive ==
  /\ hand = NoCommand /\ queue = {} /\ loaded
  /\ \E n \in Nodes, op \in RemoteOps :
       /\ known' = known \cup {n}
       /\ value' = [value EXCEPT ![n] = Heard(@, op)]
  /\ UNCHANGED <<queue, smart, loaded, todo, hand, issued, signals>>

\* More than MAX_ERRORS reads failed: the controller is loaded anew, or is gone
\* for good (without one nothing is read, so nothing fails any more).
Reload ==
  /\ hand = NoCommand /\ queue = {} /\ loaded
  /\ loaded' \in BOOLEAN
  /\ UNCHANGED <<known, value, queue, smart, todo, hand, issued, signals>>

\* CommandCompleted is emitted, unless the command is marked as notified.
Told(c, emits) == IF emits /\ ~c.notified THEN Append(signals, c.ticket) ELSE signals

\* A faulty LastStep: a SET that finds its level reached stays queued.
LastStepOnly(steps) == steps = 1

\* "unique step or nothing to do"
LastStep(steps) == steps <= 1

\* The locked part of the loop for a SET at the back of the list: the next
\* single command is made up, and the SET stays queued unless that is its last.
TakeSet ==
  /\ hand = NoCommand /\ queue # {}
  /\ LET c == Back
         next == GetNextCommand(value[c.node], c.arg)
     IN  /\ c.op = "SET"
         /\ known' = known \cup {c.node}
         /\ queue' = IF LastStep(next.steps) THEN queue \ {c}
                     ELSE (queue \ {c}) \cup {[c EXCEPT !.notified = TRUE]}
         /\ signals' = Told(c, next.steps # 0)
         /\ hand' = IF next.steps = 0 THEN NoCommand
                    ELSE [phase |-> "apply", ticket |-> c.ticket, node |-> c.node,
                          op |-> next.op, notified |-> TRUE,
                          goal |-> IF next.steps = 1 THEN c.arg ELSE NoGoal]
  /\ UNCHANGED <<value, smart, loaded, todo, issued>>

\* Any other command is one step.
TakeOther ==
  /\ hand = NoCommand /\ queue # {}
  /\ LET c == Back
     IN  /\ c.op # "SET"
         /\ queue' = queue \ {c}
         /\ hand' = [phase |-> "apply", ticket |-> c.ticket, node |-> c.node,
                     op |-> c.op, notified |-> c.notified, goal |-> NoGoal]
  /\ UNCHANGED <<known, value, smart, loaded, todo, issued, signals>>

\* The mutex is free again: the tracked level is updated ...
Apply ==
  /\ hand # NoCommand /\ hand.phase = "apply"
  /\ known' = known \cup {hand.node}
  /\ value' = [value EXCEPT ![hand.node] = Applied(@, hand.op)]
  /\ hand' = [hand EXCEPT !.phase = "send"]
  /\ UNCHANGED <<queue, smart, loaded, todo, issued, signals>>

\* ... and then the command is announced and transmitted, if there is a
\* controller.
Transmit ==
  /\ hand # NoCommand /\ hand.phase = "send"
  /\ signals' = Told(hand, loaded)
  /\ hand' = NoCommand
  /\ UNCHANGED <<known, value, queue, smart, loaded, todo, issued>>

Serve == TakeSet \/ TakeOther \/ Apply \/ Transmit

Worker == Receive \/ Reload \/ Serve

Next == Main \/ Worker

Spec == Init /\ [][Next]_vars

\* The worker thread is never stopped here, and every call it makes returns:
\* while a command is queued or in hand it goes on.  A D-Bus handler that has
\* begun runs to its end.  Nothing makes a client or a remote act.
Fairness ==
  /\ WF_vars(Serve)
  /\ WF_vars(Skip \/ Expand \/ Enqueue \/ Annihilate)

FairSpec == Spec /\ Fairness
-----------------------------------------------------------------------------
(***************************************************************************)
(* Properties.                                                             *)
(***************************************************************************)
(* The types of the variables. *)
TypeOK ==
  /\ known \subseteq Sources
  /\ value \in [Sources -> Levels]
  /\ queue \subseteq Commands
  /\ smart \in SmartModes
  /\ loaded \in BOOLEAN
  /\ todo \in Seq(Requests)
  /\ hand \in InHand \cup {NoCommand}
  /\ issued \in 0 .. MaxTickets
  /\ signals \in Seq(Tickets)

(* A unit's SET or OFF has nothing of the unit queued before it, and a DIM  *)
(* or BRIGHT only its like.                                                 *)
Coalesced ==
  \A c, d \in queue :
    c.node = d.node /\ c.ticket < d.ticket =>
      /\ d.op \notin {"SET", "OFF"}
      /\ d.op \in {"DIM", "BRIGHT"} => c.op = d.op

(* What the smart queue is for: while it is on, a queue that is coalesced   *)
(* stays so, whatever clients ask for and the worker takes in between; what *)
(* was queued while it was off may have to be served first.                 *)
SmartQueueCoalesced == [][smart /\ Coalesced => Coalesced']_vars

(* CommandCompleted is emitted at most once per command, and in the order   *)
(* in which the commands were accepted, whatever was superseded meanwhile.  *)
CompletedInOrder ==
  \A i, j \in DOMAIN signals : i < j => signals[i] < signals[j]

(* When a SET leaves the list with its last command in hand, that command   *)
(* lands on the level asked for, although the mutex is free in between.     *)
SetLandsOnTarget ==
  hand # NoCommand /\ hand.goal # NoGoal =>
    hand.goal = IF hand.phase = "apply" THEN Applied(value[hand.node], hand.op)
                                        ELSE value[hand.node]

(* The queue implements the contract its clients see (module Dispatch): a   *)
(* request waits until it was announced, or left the queue and the hand of  *)
(* the worker without that.                                                 *)
Unanswered ==
  {[ticket |-> c.ticket, node |-> c.node] :
     c \in {d \in queue \cup ({hand} \ {NoCommand}) : ~d.notified}}

Contract == INSTANCE Dispatch WITH
  waiting    <- Unanswered,
  announced  <- signals

KeepsContract == Contract!Spec

(* Why a request may stop waiting: it was announced, a later request for    *)
(* its unit took its place, it is a SET to the level the unit has, or there *)
(* is no controller.                                                        *)
Announced(r)     == \E i \in DOMAIN signals' : signals'[i] = r.ticket
GaveWay(r)       == smart /\ issued' # issued /\ Head(todo).target = r.node
AlreadyThere(r)  == \E c \in queue :
                      /\ c.ticket = r.ticket /\ c.op = "SET"
                      /\ value[r.node] = c.arg

(* No request is lost in silence as long as there is a controller, wherever *)
(* it is when clients, rules and the worker interfere: in the list, in the  *)
(* worker's hand with the mutex free, or in both (a SET under way).         *)
LostOnlyWithoutController ==
  [][ \A r \in Unanswered \ Unanswered' :
        Announced(r) \/ GaveWay(r) \/ AlreadyThere(r) \/ ~loaded ]_vars

(* Each command of a SET brings the level one command nearer to the level   *)
(* of the oldest SET, whatever the main thread enqueues meanwhile.          *)
SetGetsCloser ==
  [][ \A c \in queue :
        c.op = "SET" /\ c.notified /\ hand # NoCommand /\ hand.ticket = c.ticket
          /\ hand.phase = "apply" /\ value' # value =>
            Distance(value'[c.node], c.arg) = Distance(value[c.node], c.arg) - 1 ]_vars

(* Every accepted command leaves the queue: a SET of many steps does not    *)
(* hold up the others for ever.                                             *)
EverythingIsServed ==
  \A t \in Tickets :
    (\E c \in queue : c.ticket = t) ~> ~(\E c \in queue : c.ticket = t)

(* "reverse direction, remove both commands" (the comment in QueueCommand), *)
(* "with on, latest cmd overrides" (common/config.h): an incoming DIM or    *)
(* BRIGHT is dropped only together with its opposite.                       *)
OnlyOppositesAnnihilate ==
  [][ todo # <<>> /\ todo' = Tail(todo) /\ issued' # issued
        /\ Head(todo).op \in {"DIM", "BRIGHT"} =>
          \A c \in queue \ queue' : c.op \in {"DIM", "BRIGHT"} ]_vars
-----------------------------------------------------------------------------
(***************************************************************************)
(* The inductive invariant that CommandQueueProofs uses.                   *)
(***************************************************************************)
\* Tickets are given out once.
TicketsUnique ==
  /\ \A c, d \in queue : c.ticket = d.ticket => c = d
  /\ \A c \in queue : c.ticket <= issued

\* The command in hand is older than the list, or is a step of a SET that stays.
HandIsOldest ==
  hand # NoCommand =>
    /\ hand.ticket <= issued
    /\ \A c \in queue :
         \/ hand.ticket < c.ticket
         \/ hand.ticket = c.ticket /\ hand.notified /\ c.notified

\* What waits to be announced is newer than all that was.
AnnouncedBefore ==
  /\ \A i \in DOMAIN signals : signals[i] <= issued
  /\ \A c \in queue : ~c.notified => \A i \in DOMAIN signals : signals[i] < c.ticket
  /\ hand # NoCommand /\ ~hand.notified =>
       \A i \in DOMAIN signals : signals[i] < hand.ticket

OrderInv == TicketsUnique /\ HandIsOldest /\ AnnouncedBefore /\ CompletedInOrder

\* A SET that stays in the list while a command is in hand for it: the command
\* is still the right one.
StepFits ==
  \A c \in queue :
    hand # NoCommand /\ hand.phase = "apply" /\ hand.ticket = c.ticket =>
      /\ c.op = "SET" /\ c.node = hand.node
      /\ value[c.node] # c.arg \/ c.arg = Off
      /\ hand.op = GetNextCommand(value[c.node], c.arg).op
=============================================================================
