------------------------------ MODULE Dispatch ------------------------------
(***************************************************************************)
(* What the clients of x10_service may count on, whatever the queue does   *)
(* inside: requests are dealt with in the order in which they were         *)
(* accepted; each is announced (CommandCompleted) at most once, when its   *)
(* turn comes; and one that is never dealt with was dropped because of a   *)
(* later request for the same unit, which only a smart queue does.         *)
(* CommandQueue implements this specification.                             *)
(***************************************************************************)
EXTENDS Naturals, Sequences

CONSTANTS
  Nodes,       \* the units
  MaxTickets   \* bound: requests accepted in a behaviour

VARIABLES
  issued,      \* the number of requests accepted
  waiting,     \* the requests not dealt with yet
  announced,   \* the requests announced, in order
  smart        \* whether requests may replace each other (SMART_QUEUE)

vars == <<issued, waiting, announced, smart>>

Init == issued = 0 /\ waiting = {} /\ announced = <<>> /\ smart \in BOOLEAN

Configure == smart' \in BOOLEAN /\ UNCHANGED <<issued, waiting, announced>>

\* A request is accepted.  It replaces requests of its unit, or takes at most
\* one of them along when it is itself dropped.
Accept ==
  /\ issued < MaxTickets
  /\ issued' = issued + 1
  /\ \E n \in Nodes : \E gone \in SUBSET {w \in waiting : w.node = n} :
       /\ gone # {} => smart
       /\ \/ waiting' = (waiting \ gone) \cup {[ticket |-> issued + 1, node |-> n]}
          \/ /\ smart
             /\ \A v, w \in gone : v = w
             /\ waiting' = waiting \ gone
  /\ UNCHANGED <<announced, smart>>

\* The oldest request is dealt with: announced, or in silence (the unit has the
\* level already, or there is no controller).
Answer ==
  \E w \in waiting :
    /\ \A v \in waiting : w.ticket <= v.ticket
    /\ waiting' = waiting \ {w}
    /\ announced' \in {announced, Append(announced, w.ticket)}
    /\ UNCHANGED <<issued, smart>>

Next == Configure \/ Accept \/ Answer

Spec == Init /\ [][Next]_vars
=============================================================================
