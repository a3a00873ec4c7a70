------------------------- MODULE CommandQueueProofs -------------------------
(***************************************************************************)
(* Proofs about CommandQueue, for all houses, units, levels and bounds.    *)
(***************************************************************************)
EXTENDS CommandQueue, DimmingProofs, SequenceTheorems, WellFoundedInduction, TLAPS

-----------------------------------------------------------------------------
(* Least and greatest elements of sets of naturals: what back() on tickets *)
(* rests on.                                                               *)

(* A set of naturals that is not empty has a least element. *)
LEMMA LeastNat ==
  ASSUME NEW T \in SUBSET Nat, T # {}
  PROVE  \E m \in T : \A n \in T : m <= n
<1> DEFINE R == OpToRel(<, Nat)
<1>1. IsWellFoundedOn(R, Nat)
  BY NatLessThanWellFounded
<1>2. \A x, y \in Nat : x < y => <<x, y>> \in R
  BY DEF OpToRel
<1> HIDE DEF R
<1>3. PICK x \in T : \A y \in T : ~ (<<y, x>> \in R)
  BY <1>1, WFMin, Zenon
<1>4. ASSUME NEW y \in T PROVE x <= y
  <2>1. x \in Nat /\ y \in Nat
    OBVIOUS
  <2>2. ~ (y < x)
    BY <1>2, <1>3, <2>1, Zenon
  <2>3. QED
    BY <2>1, <2>2
<1>5. QED
  BY <1>4

(* A bounded set of naturals that is not empty has a greatest element. *)
LEMMA GreatestNat ==
  ASSUME NEW N \in Nat, NEW T \in SUBSET (0 .. N), T # {}
  PROVE  \E m \in T : \A n \in T : n <= m
<1> DEFINE U == {N - n : n \in T}
<1>1. U \in SUBSET Nat /\ U # {}
  <2>1. \A u \in U : u \in Nat
    OBVIOUS
  <2>2. PICK n \in T : TRUE
    OBVIOUS
  <2>3. N - n \in U
    OBVIOUS
  <2>4. QED
    BY <2>1, <2>3, Zenon
<1>2. PICK u \in U : \A n \in U : u <= n
  BY <1>1, LeastNat
<1>3. PICK m \in T : u = N - m
  OBVIOUS
<1>4. ASSUME NEW n \in T PROVE n <= m
  <2>1. u <= N - n
    BY <1>2
  <2>2. QED
    BY <1>3, <2>1
<1>5. QED
  BY <1>4
-----------------------------------------------------------------------------
(* The ends of the list. *)

(* back() of a list that is not empty is an element of it, and no element  *)
(* is older.                                                               *)
LEMMA OldestExists ==
  ASSUME NEW S \in SUBSET Commands, S # {}
  PROVE  Oldest(S) \in S /\ \A d \in S : Oldest(S).ticket <= d.ticket
<1> DEFINE T == {c.ticket : c \in S}
<1>1. \A c \in Commands : c.ticket \in Nat
  BY CommandQueueAssumption DEF Commands, Tickets
<1>2. T \in SUBSET Nat
  BY <1>1
<1>3. T # {}
  OBVIOUS
<1>4. PICK m \in T : \A n \in T : m <= n
  BY <1>2, <1>3, LeastNat
<1>5. PICK c \in S : c.ticket = m
  OBVIOUS
<1>6. \A d \in S : c.ticket <= d.ticket
  BY <1>4, <1>5
<1>7. QED
  BY <1>6 DEF Oldest

(* The first command that QueueCommand meets, coming from the front, is an *)
(* element of the set it looks for, and none of them is newer.             *)
LEMMA NewestExists ==
  ASSUME NEW S \in SUBSET Commands, S # {}
  PROVE  Newest(S) \in S /\ \A d \in S : d.ticket <= Newest(S).ticket
<1> DEFINE T == {c.ticket : c \in S}
<1>1. \A c \in Commands : c.ticket \in 0 .. MaxTickets
  BY CommandQueueAssumption DEF Commands, Tickets
<1>2. T \in SUBSET (0 .. MaxTickets)
  BY <1>1
<1>3. T # {}
  OBVIOUS
<1>4. PICK m \in T : \A n \in T : n <= m
  BY <1>2, <1>3, GreatestNat, CommandQueueAssumption
<1>5. PICK c \in S : c.ticket = m
  OBVIOUS
<1>6. \A d \in S : d.ticket <= c.ticket
  BY <1>4, <1>5
<1>7. QED
  BY <1>6 DEF Newest
-----------------------------------------------------------------------------
(* Types. *)

(* A unit is a source, and a source can be the target of a request. *)
LEMMA NodesAreSources == Nodes \subseteq Sources /\ Sources \subseteq Targets
  BY DEF Sources, Targets

(* The level a heard command leaves is a level. *)
LEMMA HeardInRange ==
  ASSUME NEW v \in Levels, NEW op \in SentOps
  PROVE  Heard(v, op) \in Levels
  BY AppliedInRange, SentAsHeard

(* Off is a level, and no level is NoGoal. *)
LEMMA OffIsLevel == Off \in Levels /\ NoGoal \notin Levels
  BY MaxValueAssumption DEF Off, Levels, NoGoal

(* A function on the positions of a sequence is a sequence. *)
LEMMA SameLengthSeq ==
  ASSUME NEW S, NEW T, NEW s \in Seq(S), NEW f, f \in [DOMAIN s -> T]
  PROVE  f \in Seq(T)
<1>1. DOMAIN s = 1 .. Len(s) /\ Len(s) \in Nat
  BY LenProperties
<1>2. QED
  BY <1>1, SeqDef

(* A list of one request is a sequence of requests. *)
LEMMA SingleRequest ==
  ASSUME NEW t \in Targets, NEW op \in QueuedOps, NEW arg \in Levels
  PROVE  <<Request(t, op, arg, "always")>> \in Seq(Requests)
<1>1. Request(t, op, arg, "always") \in Requests
  BY DEF Request, Requests
<1>2. QED
  BY <1>1

(* The calls a handler starts with are requests. *)
LEMMA BeginTyped ==
  ASSUME TypeOK, NEW requests \in Seq(Requests), Begin(requests)
  PROVE  TypeOK'
  BY DEF TypeOK, Begin

(* Every initial state is well typed. *)
LEMMA InitTyped == Init => TypeOK
<1> SUFFICES ASSUME Init PROVE TypeOK
  OBVIOUS
<1>1. value \in [Sources -> Levels]
  BY OffIsLevel DEF Init
<1>2. todo \in Seq(Requests) /\ signals \in Seq(Tickets)
  BY DEF Init
<1>3. QED
  BY <1>1, <1>2, CommandQueueAssumption DEF Init, TypeOK

(* Every step keeps the types. *)
LEMMA NextTyped == TypeOK /\ [Next]_vars => TypeOK'
<1> SUFFICES ASSUME TypeOK, [Next]_vars PROVE TypeOK'
  OBVIOUS
<1> USE CommandQueueAssumption
<1>1. CASE Send
  <2>1. PICK t \in Targets, op \in SendOps :
          Begin(<<Request(t, op, Off, "always")>>)
    BY <1>1 DEF Send
  <2>2. QED
    BY <2>1, SingleRequest, OffIsLevel, BeginTyped
<1>2. CASE Set
  <2>1. PICK t \in Targets, v \in SetLevels :
          Begin(<<Request(t, "SET", v, "always")>>)
    BY <1>2 DEF Set
  <2>2. "SET" \in QueuedOps /\ v \in Levels
    BY DEF QueuedOps
  <2>3. QED
    BY <2>1, <2>2, SingleRequest, BeginTyped
<1>3. CASE SetAllTo
  <2>1. PICK op \in {"ON", "OFF"} :
          Begin([i \in DOMAIN SourceOrder |->
                   Request(SourceOrder[i], op, Off, "ifKnown")])
    BY <1>3 DEF SetAllTo
  <2> DEFINE calls == [i \in DOMAIN SourceOrder |->
                         Request(SourceOrder[i], op, Off, "ifKnown")]
  <2>2. \A i \in DOMAIN SourceOrder : SourceOrder[i] \in Targets
    BY NodesAreSources, LenProperties, ElementOfSeq
  <2>3. \A i \in DOMAIN SourceOrder :
          Request(SourceOrder[i], op, Off, "ifKnown") \in Requests
    BY <2>2, OffIsLevel DEF Request, Requests, QueuedOps, SentOps, LevelOps
  <2>4. calls \in [DOMAIN SourceOrder -> Requests]
    BY <2>3
  <2> HIDE DEF calls
  <2>5. calls \in Seq(Requests)
    BY <2>4, SameLengthSeq, Zenon
  <2>6. QED
    BY <2>1, <2>5, BeginTyped DEF calls
<1>4. CASE on_RuleExecute
  <2>1. PICK list \in RuleLists : Begin(list)
    BY <1>4 DEF on_RuleExecute
  <2>2. QED
    BY <2>1, BeginTyped
<1>5. CASE GetValue
  BY <1>5 DEF GetValue, TypeOK
<1>6. CASE SetSmartQueue
  BY <1>6 DEF SetSmartQueue, TypeOK
<1>7. CASE Skip
  <2>1. Tail(todo) \in Seq(Requests)
    BY <1>7, HeadTailProperties DEF Skip, TypeOK
  <2>2. QED
    BY <1>7, <2>1 DEF Skip, TypeOK
<1>8. CASE Expand
  <2> DEFINE r == Head(todo)
             hits == {s \in known : Matches(r.target, s)}
             calls == [i \in DOMAIN SourceOrder |->
                         Request(SourceOrder[i], r.op, r.arg,
                                 IF SourceOrder[i] \in hits THEN "always" ELSE "never")]
  <2>1. r \in Requests /\ Tail(todo) \in Seq(Requests)
    BY <1>8, HeadTailProperties DEF Expand, TypeOK
  <2>2. \A i \in DOMAIN SourceOrder : SourceOrder[i] \in Targets
    BY NodesAreSources, LenProperties, ElementOfSeq
  <2>3. r.op \in QueuedOps /\ r.arg \in Levels
    BY <2>1 DEF Requests
  <2>4. calls \in [DOMAIN SourceOrder -> Requests]
    BY <2>2, <2>3 DEF Request, Requests
  <2>5. todo' = calls \o Tail(todo)
    BY <1>8 DEF Expand
  <2> HIDE DEF calls
  <2>6. calls \in Seq(Requests)
    BY <2>4, SameLengthSeq, Zenon
  <2>7. todo' \in Seq(Requests)
    BY <2>1, <2>5, <2>6, ConcatProperties
  <2>8. QED
    BY <1>8, <2>7 DEF Expand, TypeOK
<1>9. CASE Enqueue
  <2> DEFINE r == Head(todo)
             c == [ticket |-> issued + 1, node |-> r.target, op |-> r.op,
                   arg |-> r.arg, notified |-> FALSE]
  <2>1. r \in Requests /\ Tail(todo) \in Seq(Requests)
    BY <1>9, HeadTailProperties DEF Enqueue, TypeOK
  <2>2. issued + 1 \in Tickets
    BY <1>9 DEF Enqueue, TypeOK, Tickets
  <2>3. c \in Commands
    BY <1>9, <2>1, <2>2 DEF Enqueue, Commands, Requests
  <2>4. queue' \subseteq Commands
    BY <1>9, <2>3 DEF Enqueue, TypeOK
  <2>5. QED
    BY <1>9, <2>1, <2>2, <2>4 DEF Enqueue, TypeOK, Tickets
<1>10. CASE Annihilate
  <2>1. Tail(todo) \in Seq(Requests)
    BY <1>10, HeadTailProperties DEF Annihilate, TypeOK
  <2>2. issued + 1 \in 0 .. MaxTickets
    BY <1>10 DEF Annihilate, TypeOK
  <2>3. QED
    BY <1>10, <2>1, <2>2 DEF Annihilate, TypeOK
<1>11. CASE Receive
  <2>1. PICK n \in Nodes, op \in RemoteOps :
          /\ known' = known \cup {n}
          /\ value' = [value EXCEPT ![n] = Heard(@, op)]
    BY <1>11 DEF Receive
  <2>2. n \in Sources /\ op \in SentOps
    BY NodesAreSources DEF SentOps
  <2>3. Heard(value[n], op) \in Levels
    BY <2>2, HeardInRange DEF TypeOK
  <2>4. QED
    BY <1>11, <2>1, <2>2, <2>3 DEF Receive, TypeOK
<1>12. CASE Reload
  BY <1>12 DEF Reload, TypeOK
<1>13. CASE TakeSet
  <2> DEFINE c == Back
             next == GetNextCommand(value[c.node], c.arg)
  <2>1. c \in queue /\ c \in Commands
    BY <1>13, OldestExists DEF TakeSet, Back, TypeOK
  <2>2. c.ticket \in Tickets /\ c.node \in Nodes /\ c.arg \in Levels
    BY <2>1 DEF Commands
  <2>3. value[c.node] \in Levels
    BY <2>2, NodesAreSources DEF TypeOK
  <2>4. next.steps # 0 => next.op \in SentOps
    BY <2>2, <2>3, StepsCount DEF SentOps
  <2>5. [c EXCEPT !.notified = TRUE] \in Commands
    BY <2>1 DEF Commands
  <2>6. queue' \subseteq Commands
    BY <1>13, <2>5 DEF TakeSet, TypeOK
  <2>7. hand' \in InHand \cup {NoCommand}
    BY <1>13, <2>2, <2>4 DEF TakeSet, InHand
  <2>8. signals' \in Seq(Tickets)
    BY <1>13, <2>2, AppendProperties DEF TakeSet, Told, TypeOK
  <2>9. known' \subseteq Sources
    BY <1>13, <2>2, NodesAreSources DEF TakeSet, TypeOK
  <2>10. QED
    BY <1>13, <2>6, <2>7, <2>8, <2>9 DEF TakeSet, TypeOK
<1>14. CASE TakeOther
  <2> DEFINE c == Back
  <2>1. c \in queue /\ c \in Commands
    BY <1>14, OldestExists DEF TakeOther, Back, TypeOK
  <2>2. hand' \in InHand \cup {NoCommand}
    BY <1>14, <2>1 DEF TakeOther, InHand, Commands, QueuedOps
  <2>3. QED
    BY <1>14, <2>2 DEF TakeOther, TypeOK
<1>15. CASE Apply
  <2>1. hand \in InHand
    BY <1>15 DEF Apply, TypeOK
  <2>2. hand.node \in Nodes /\ hand.node \in Sources /\ hand.op \in SentOps
    BY <2>1, NodesAreSources DEF InHand
  <2>3. Applied(value[hand.node], hand.op) \in Levels
    BY <2>2, AppliedInRange DEF TypeOK
  <2>4. hand' \in InHand
    BY <1>15, <2>1 DEF Apply, InHand
  <2>5. QED
    BY <1>15, <2>2, <2>3, <2>4 DEF Apply, TypeOK
<1>16. CASE Transmit
  <2>1. hand \in InHand
    BY <1>16 DEF Transmit, TypeOK
  <2>2. hand.node \in Nodes /\ hand.op \in SentOps /\ hand.ticket \in Tickets
    BY <2>1 DEF InHand
  <2>3. signals' \in Seq(Tickets)
    BY <1>16, <2>2, AppendProperties DEF Transmit, Told, TypeOK
  <2>4. QED
    BY <1>16, <2>3 DEF Transmit, TypeOK
<1>17. CASE UNCHANGED vars
  BY <1>17 DEF vars, TypeOK
<1>18. QED
  BY <1>1, <1>2, <1>3, <1>4, <1>5, <1>6, <1>7, <1>8, <1>9, <1>10, <1>11, <1>12,
     <1>13, <1>14, <1>15, <1>16, <1>17 DEF Next, Main, Worker, Serve

(* The variables of the queue keep their types: in particular no level     *)
(* leaves -1..MAX_VALUE, and no SET is ever transmitted as such.           *)
THEOREM TypeCorrect == Spec => []TypeOK
  BY InitTyped, NextTyped, PTL DEF Spec
-----------------------------------------------------------------------------
(***************************************************************************)
(* The order of acceptance.  CompletedInOrder is not inductive: what keeps *)
(* it is that every command still to be announced is newer than all that   *)
(* were announced, and that what the worker has in hand is older than what *)
(* is queued.                                                              *)
(***************************************************************************)
(* Appending a number greater than all the others keeps a sequence of      *)
(* numbers increasing.                                                     *)
LEMMA AppendGreater ==
  ASSUME NEW s \in Seq(Tickets), NEW t \in Tickets,
         \A i, j \in DOMAIN s : i < j => s[i] < s[j],
         \A i \in DOMAIN s : s[i] < t
  PROVE  /\ \A i, j \in DOMAIN Append(s, t) :
               i < j => Append(s, t)[i] < Append(s, t)[j]
         /\ \A i \in DOMAIN Append(s, t) :
               Append(s, t)[i] \in Nat /\ Append(s, t)[i] <= t
<1> DEFINE a == Append(s, t)
<1>1. /\ Len(s) \in Nat /\ DOMAIN s = 1 .. Len(s)
      /\ DOMAIN a = 1 .. Len(s) + 1
      /\ a[Len(s) + 1] = t
      /\ \A i \in 1 .. Len(s) : a[i] = s[i]
  BY LenProperties, AppendProperties
<1>2. t \in Nat /\ \A i \in DOMAIN s : s[i] \in Nat
  BY LenProperties, ElementOfSeq, CommandQueueAssumption DEF Tickets
<1> HIDE DEF a
<1>3. ASSUME NEW i \in DOMAIN a, NEW j \in DOMAIN a, i < j
      PROVE  a[i] < a[j]
  <2>1. i \in 1 .. Len(s) /\ (j \in 1 .. Len(s) \/ j = Len(s) + 1)
    BY <1>1, <1>3
  <2>2. QED
    BY <1>1, <1>3, <2>1
<1>4. ASSUME NEW i \in DOMAIN a PROVE a[i] \in Nat /\ a[i] <= t
  <2>1. i \in 1 .. Len(s) \/ i = Len(s) + 1
    BY <1>1
  <2>2. QED
    BY <1>1, <1>2, <2>1
<1>5. QED
  BY <1>3, <1>4 DEF a

(* Nothing is queued, in hand or announced at first. *)
LEMMA InitOrder == Init => OrderInv
  BY DEF Init, OrderInv, TicketsUnique, HandIsOldest, AnnouncedBefore,
         CompletedInOrder

(* The steps that leave the list, the hand and the signals alone. *)
LEMMA OrderUntouched ==
  ASSUME OrderInv, UNCHANGED <<queue, hand, signals, issued>>
  PROVE  OrderInv'
  BY DEF OrderInv, TicketsUnique, HandIsOldest, AnnouncedBefore, CompletedInOrder

(* Tickets are numbers. *)
LEMMA TicketsAreNat ==
  ASSUME TypeOK
  PROVE  /\ \A c \in queue : c.ticket \in Nat /\ c.notified \in BOOLEAN
         /\ issued \in Nat
         /\ \A i \in DOMAIN signals : signals[i] \in Nat
         /\ DOMAIN signals \subseteq Nat
         /\ hand # NoCommand => hand.ticket \in Nat
<1> USE CommandQueueAssumption DEF Tickets
<1>1. \A c \in queue : c.ticket \in Nat /\ c.notified \in BOOLEAN
  BY DEF TypeOK, Commands
<1>2. issued \in Nat
  BY DEF TypeOK
<1>3. DOMAIN signals \subseteq Nat /\ \A i \in DOMAIN signals : signals[i] \in Nat
  BY LenProperties, ElementOfSeq DEF TypeOK
<1>4. hand # NoCommand => hand.ticket \in Nat
  BY DEF TypeOK, InHand
<1>5. QED
  BY <1>1, <1>2, <1>3, <1>4

(* What QueueCommand does to the list: commands go, and at most the newest *)
(* comes.                                                                  *)
LEMMA OrderAccept ==
  ASSUME TypeOK, OrderInv, NEW new,
         new.ticket = issued + 1, ~new.notified,
         queue' \subseteq queue \cup {new},
         issued' = issued + 1, UNCHANGED <<hand, signals>>
  PROVE  OrderInv'
<1> USE TicketsAreNat DEF OrderInv
<1>1. TicketsUnique'
  BY DEF TicketsUnique
<1>2. HandIsOldest'
  BY DEF HandIsOldest
<1>3. AnnouncedBefore'
  BY DEF AnnouncedBefore
<1>4. CompletedInOrder'
  BY DEF CompletedInOrder
<1>5. QED
  BY <1>1, <1>2, <1>3, <1>4

(* The worker takes a SET. *)
LEMMA OrderTakeSet ==
  ASSUME TypeOK, OrderInv, TakeSet
  PROVE  OrderInv'
<1> DEFINE c == Back
           next == GetNextCommand(value[c.node], c.arg)
           kept == [c EXCEPT !.notified = TRUE]
<1>1. c \in queue /\ c \in Commands /\ \A d \in queue : c.ticket <= d.ticket
  BY OldestExists DEF TakeSet, Back, TypeOK
<1>2. \A d \in queue : d # c => c.ticket < d.ticket
  BY <1>1, TicketsAreNat DEF OrderInv, TicketsUnique
<1>3. queue' \subseteq (queue \ {c}) \cup {kept}
  BY DEF TakeSet
<1>4. kept.ticket = c.ticket /\ kept.notified
  BY <1>1 DEF Commands
<1>5. hand' = NoCommand \/ (hand'.ticket = c.ticket /\ hand'.notified)
  BY DEF TakeSet
<1>6. signals' = signals \/ (~c.notified /\ signals' = Append(signals, c.ticket))
  BY DEF TakeSet, Told
<1>7. issued' = issued
  BY DEF TakeSet
<1> HIDE DEF c, next, kept
<1>8. TicketsUnique'
  BY <1>1, <1>2, <1>3, <1>4, <1>7, TicketsAreNat DEF OrderInv, TicketsUnique
<1>9. HandIsOldest'
  BY <1>1, <1>2, <1>3, <1>4, <1>5, <1>7, TicketsAreNat
     DEF OrderInv, TicketsUnique, HandIsOldest
<1>10. CASE signals' = signals
  <2>1. AnnouncedBefore'
    BY <1>1, <1>3, <1>4, <1>5, <1>7, <1>10 DEF OrderInv, AnnouncedBefore
  <2>2. QED
    BY <1>8, <1>9, <1>10, <2>1 DEF OrderInv, CompletedInOrder
<1>11. CASE ~c.notified /\ signals' = Append(signals, c.ticket)
  <2>1. \A i \in DOMAIN signals : signals[i] < c.ticket
    BY <1>1, <1>11 DEF OrderInv, AnnouncedBefore
  <2>2. /\ CompletedInOrder'
        /\ \A i \in DOMAIN signals' : signals'[i] \in Nat /\ signals'[i] <= c.ticket
    BY <1>1, <1>11, <2>1, AppendGreater
       DEF OrderInv, CompletedInOrder, TypeOK, Commands
  <2>3. AnnouncedBefore'
    <3>1. \A i \in DOMAIN signals' : signals'[i] <= issued'
      BY <1>1, <1>7, <2>2, TicketsAreNat DEF OrderInv, TicketsUnique
    <3>2. \A d \in queue' : ~d.notified => \A i \in DOMAIN signals' : signals'[i] < d.ticket
      BY <1>1, <1>2, <1>3, <1>4, <2>2, TicketsAreNat
    <3>3. QED
      BY <1>5, <3>1, <3>2 DEF AnnouncedBefore
  <2>4. QED
    BY <1>8, <1>9, <2>2, <2>3 DEF OrderInv
<1>12. QED
  BY <1>6, <1>10, <1>11

(* The worker takes a command of one step. *)
LEMMA OrderTakeOther ==
  ASSUME TypeOK, OrderInv, TakeOther
  PROVE  OrderInv'
<1> DEFINE c == Back
<1>1. c \in queue /\ \A d \in queue : c.ticket <= d.ticket
  BY OldestExists DEF TakeOther, Back, TypeOK
<1>2. \A d \in queue : d # c => c.ticket < d.ticket
  BY <1>1, TicketsAreNat DEF OrderInv, TicketsUnique
<1>3. queue' = queue \ {c} /\ UNCHANGED <<signals, issued>>
  BY DEF TakeOther
<1>4. hand'.ticket = c.ticket /\ hand'.notified = c.notified
  BY DEF TakeOther
<1> HIDE DEF c
<1>5. QED
  BY <1>1, <1>2, <1>3, <1>4, TicketsAreNat
     DEF OrderInv, TicketsUnique, HandIsOldest, AnnouncedBefore, CompletedInOrder

(* The worker transmits what it has in hand. *)
LEMMA OrderTransmit ==
  ASSUME TypeOK, OrderInv, Transmit
  PROVE  OrderInv'
<1>1. hand # NoCommand /\ hand' = NoCommand /\ UNCHANGED <<queue, issued>>
  BY DEF Transmit
<1>2. hand.ticket \in Tickets
  BY <1>1 DEF TypeOK, InHand
<1>3. \/ signals' = signals
      \/ ~hand.notified /\ signals' = Append(signals, hand.ticket)
  BY DEF Transmit, Told
<1>4. TicketsUnique' /\ HandIsOldest'
  BY <1>1 DEF OrderInv, TicketsUnique, HandIsOldest
<1>5. CASE signals' = signals
  BY <1>1, <1>4, <1>5 DEF OrderInv, AnnouncedBefore, CompletedInOrder
<1>6. CASE ~hand.notified /\ signals' = Append(signals, hand.ticket)
  <2>1. \A i \in DOMAIN signals : signals[i] < hand.ticket
    BY <1>1, <1>6 DEF OrderInv, AnnouncedBefore
  <2>2. /\ CompletedInOrder'
        /\ \A i \in DOMAIN signals' : signals'[i] \in Nat /\ signals'[i] <= hand.ticket
    BY <1>2, <1>6, <2>1, AppendGreater DEF OrderInv, CompletedInOrder, TypeOK
  <2>3. AnnouncedBefore'
    <3>1. \A i \in DOMAIN signals' : signals'[i] <= issued'
      BY <1>1, <2>2, TicketsAreNat DEF OrderInv, HandIsOldest
    <3>2. \A d \in queue' : hand.ticket < d.ticket
      BY <1>1, <1>6 DEF OrderInv, HandIsOldest
    <3>3. \A d \in queue' : \A i \in DOMAIN signals' : signals'[i] < d.ticket
      BY <1>1, <2>2, <3>2, TicketsAreNat
    <3>4. QED
      BY <1>1, <3>1, <3>3 DEF AnnouncedBefore
  <2>4. QED
    BY <1>4, <2>2, <2>3 DEF OrderInv
<1>7. QED
  BY <1>3, <1>5, <1>6

(* Every step keeps the order. *)
LEMMA NextOrder == TypeOK /\ OrderInv /\ [Next]_vars => OrderInv'
<1> SUFFICES ASSUME TypeOK, OrderInv, [Next]_vars PROVE OrderInv'
  OBVIOUS
<1>1. CASE Send \/ Set \/ SetAllTo \/ on_RuleExecute
  BY <1>1, OrderUntouched DEF Send, Set, SetAllTo, on_RuleExecute, Begin
<1>2. CASE GetValue \/ SetSmartQueue \/ Skip \/ Expand
  BY <1>2, OrderUntouched DEF GetValue, SetSmartQueue, Skip, Expand
<1>3. CASE Enqueue
  <2> DEFINE new == [ticket |-> issued + 1, node |-> Head(todo).target,
                     op |-> Head(todo).op, arg |-> Head(todo).arg,
                     notified |-> FALSE]
  <2>1. queue' \subseteq queue \cup {new}
    BY <1>3 DEF Enqueue
  <2>2. new.ticket = issued + 1 /\ ~new.notified
    OBVIOUS
  <2>3. issued' = issued + 1 /\ UNCHANGED <<hand, signals>>
    BY <1>3 DEF Enqueue
  <2> HIDE DEF new
  <2>4. QED
    BY <2>1, <2>2, <2>3, OrderAccept
<1>4. CASE Annihilate
  <2> DEFINE new == [ticket |-> issued + 1, notified |-> FALSE]
  <2>1. queue' \subseteq queue \cup {new}
    BY <1>4 DEF Annihilate
  <2>2. new.ticket = issued + 1 /\ ~new.notified
    OBVIOUS
  <2>3. issued' = issued + 1 /\ UNCHANGED <<hand, signals>>
    BY <1>4 DEF Annihilate
  <2> HIDE DEF new
  <2>4. QED
    BY <2>1, <2>2, <2>3, OrderAccept
<1>5. CASE Receive \/ Reload
  BY <1>5, OrderUntouched DEF Receive, Reload
<1>6. CASE TakeSet
  BY <1>6, OrderTakeSet
<1>7. CASE TakeOther
  BY <1>7, OrderTakeOther
<1>8. CASE Apply
  <2>1. hand # NoCommand /\ hand' # NoCommand
        /\ hand'.ticket = hand.ticket /\ hand'.notified = hand.notified
    BY <1>8 DEF Apply, TypeOK, InHand, NoCommand
  <2>2. UNCHANGED <<queue, signals, issued>>
    BY <1>8 DEF Apply
  <2>3. QED
    BY <2>1, <2>2
       DEF OrderInv, TicketsUnique, HandIsOldest, AnnouncedBefore, CompletedInOrder
<1>9. CASE Transmit
  BY <1>9, OrderTransmit
<1>10. CASE UNCHANGED vars
  BY <1>10, OrderUntouched DEF vars
<1>11. QED
  BY <1>1, <1>2, <1>3, <1>4, <1>5, <1>6, <1>7, <1>8, <1>9, <1>10
     DEF Next, Main, Worker, Serve

(* Clients hear of their commands in the order in which these were         *)
(* accepted, and of each at most once: a SET that stays queued over many   *)
(* turns is announced on the first only, whatever is superseded,           *)
(* annihilated or reloaded meanwhile.                                      *)
THEOREM CompletedInOrderHolds == Spec => []CompletedInOrder
<1>1. Spec => [](TypeOK /\ OrderInv)
  BY InitTyped, NextTyped, InitOrder, NextOrder, PTL DEF Spec
<1>2. QED
  BY <1>1, PTL DEF OrderInv
-----------------------------------------------------------------------------
(* The smart queue. *)

(* A list that only loses commands stays coalesced. *)
LEMMA SmartShrinks ==
  ASSUME Coalesced, queue' \subseteq queue
  PROVE  Coalesced'
  BY DEF Coalesced

(* What QueueCommand puts in front is newer than the rest, and what it may *)
(* not stand in front of was erased or annihilates it.                     *)
LEMMA SmartEnqueue ==
  ASSUME TypeOK, OrderInv, smart, Coalesced, Enqueue
  PROVE  Coalesced'
<1> SUFFICES ASSUME NEW c \in queue', NEW d \in queue',
                    c.node = d.node, c.ticket < d.ticket
             PROVE  /\ d.op \notin {"SET", "OFF"}
                    /\ d.op \in {"DIM", "BRIGHT"} => c.op = d.op
  BY DEF Coalesced
<1> DEFINE r == Head(todo)
           new == [ticket |-> issued + 1, node |-> r.target, op |-> r.op,
                   arg |-> r.arg, notified |-> FALSE]
<1>1. smart
  OBVIOUS
<1>2. queue' = (queue \ Superseded(r)) \cup {new} /\ Opposed(r) = {}
  BY DEF Enqueue
<1>3. /\ new.ticket = issued + 1 /\ new.node = r.target /\ new.op = r.op
  OBVIOUS
<1>4. \A x \in queue : x.ticket \in Nat /\ x.ticket <= issued
  BY TicketsAreNat DEF OrderInv, TicketsUnique
<1> HIDE DEF new, r
<1>5. c \in queue
  BY <1>2, <1>3, <1>4, TicketsAreNat
<1>6. CASE d \in queue
  BY <1>5, <1>6 DEF Coalesced
<1>7. CASE d = new
  <2>1. c \in SameUnit(r.target) /\ c \notin Superseded(r)
    BY <1>2, <1>3, <1>4, <1>5, <1>7, TicketsAreNat DEF SameUnit
  <2>2. r.op \notin {"SET", "OFF"}
    BY <1>1, <2>1 DEF Superseded
  <2>3. r.op \in {"DIM", "BRIGHT"} => c.op = r.op
    BY <1>1, <1>2, <2>1 DEF Opposed
  <2>4. QED
    BY <1>3, <1>7, <2>2, <2>3
<1>8. QED
  BY <1>2, <1>6, <1>7

(* A SET that stays is only marked. *)
LEMMA SmartTakeSet ==
  ASSUME TypeOK, Coalesced, TakeSet
  PROVE  Coalesced'
<1> DEFINE c == Back
           kept == [c EXCEPT !.notified = TRUE]
<1>1. c \in queue /\ c \in Commands
  BY OldestExists DEF TakeSet, Back, TypeOK
<1>2. queue' \subseteq queue \cup {kept}
  BY DEF TakeSet
<1>3. kept.ticket = c.ticket /\ kept.node = c.node /\ kept.op = c.op
  BY <1>1 DEF Commands
<1>4. c.ticket \in Nat
  BY <1>1, TicketsAreNat
<1> HIDE DEF c, kept
<1>5. QED
  BY <1>1, <1>2, <1>3, <1>4, TicketsAreNat DEF Coalesced

(* While the smart queue is on every step keeps the list coalesced. *)
LEMMA NextSmart ==
  TypeOK /\ OrderInv /\ smart /\ Coalesced /\ [Next]_vars => Coalesced'
<1> SUFFICES ASSUME TypeOK, OrderInv, smart, Coalesced, [Next]_vars
             PROVE  Coalesced'
  OBVIOUS
<1> USE SmartShrinks
<1>1. CASE Send \/ Set \/ SetAllTo \/ on_RuleExecute
  BY <1>1 DEF Send, Set, SetAllTo, on_RuleExecute, Begin
<1>2. CASE GetValue \/ SetSmartQueue \/ Skip \/ Expand
  BY <1>2 DEF GetValue, SetSmartQueue, Skip, Expand
<1>3. CASE Enqueue
  BY <1>3, SmartEnqueue
<1>4. CASE Annihilate
  BY <1>4 DEF Annihilate
<1>5. CASE Receive \/ Reload \/ Apply \/ Transmit
  BY <1>5 DEF Receive, Reload, Apply, Transmit
<1>6. CASE TakeSet
  BY <1>6, SmartTakeSet
<1>7. CASE TakeOther
  BY <1>7 DEF TakeOther
<1>8. CASE UNCHANGED vars
  BY <1>8 DEF vars
<1>9. QED
  BY <1>1, <1>2, <1>3, <1>4, <1>5, <1>6, <1>7, <1>8 DEF Next, Main, Worker, Serve

(* While the smart queue is on, a queue in which a unit's SET or OFF has    *)
(* nothing of the unit before it, and a DIM or BRIGHT only its like, stays  *)
(* such a queue, whatever the other thread does.                            *)
THEOREM SmartQueueCoalescedHolds == Spec => SmartQueueCoalesced
<1>1. Init => TypeOK /\ OrderInv
  BY InitTyped, InitOrder
<1>2. TypeOK /\ OrderInv /\ [Next]_vars => (TypeOK /\ OrderInv)'
  BY NextTyped, NextOrder
<1>3. TypeOK /\ OrderInv /\ [Next]_vars => (smart /\ Coalesced => Coalesced')
  BY NextSmart
<1>4. QED
  BY <1>1, <1>2, <1>3, PTL DEF Spec, SmartQueueCoalesced
-----------------------------------------------------------------------------
(* What is in hand. *)

(* Nothing is in hand at first. *)
LEMMA InitHand == Init => SetLandsOnTarget
  BY DEF Init, SetLandsOnTarget

(* The steps that leave the levels and the hand alone. *)
LEMMA HandUntouched ==
  ASSUME SetLandsOnTarget, UNCHANGED <<value, hand>>
  PROVE  SetLandsOnTarget'
  BY DEF SetLandsOnTarget

(* The last command of a SET, as the worker takes it in hand. *)
LEMMA HandTakeSet ==
  ASSUME TypeOK, TakeSet
  PROVE  SetLandsOnTarget'
<1> DEFINE c == Back
           next == GetNextCommand(value[c.node], c.arg)
<1>1. c \in Commands
  BY OldestExists DEF TakeSet, Back, TypeOK
<1>2. c.node \in Nodes /\ c.arg \in Levels /\ value[c.node] \in Levels
  BY <1>1, NodesAreSources DEF Commands, TypeOK
<1>3. next.steps = 1 => Applied(value[c.node], next.op) = c.arg
  BY <1>2, LastStepLands
<1>4. hand' = NoCommand
      \/ /\ hand'.phase = "apply" /\ hand'.node = c.node /\ hand'.op = next.op
         /\ hand'.goal # NoGoal => next.steps = 1 /\ hand'.goal = c.arg
  BY DEF TakeSet
<1>5. UNCHANGED value
  BY DEF TakeSet
<1> HIDE DEF c, next
<1>6. QED
  BY <1>3, <1>4, <1>5 DEF SetLandsOnTarget

(* The tracked level moves as the choice of the command had foreseen. *)
LEMMA HandApply ==
  ASSUME TypeOK, SetLandsOnTarget, Apply
  PROVE  SetLandsOnTarget'
<1> DEFINE m == hand.node
<1>1. hand # NoCommand /\ hand.phase = "apply" /\ hand \in InHand
  BY DEF Apply, TypeOK
<1>2. m \in Sources
  BY <1>1, NodesAreSources DEF InHand
<1>3. /\ hand'.phase = "send" /\ hand'.node = m /\ hand'.goal = hand.goal
  BY <1>1 DEF Apply, InHand
<1>4. value'[m] = Applied(value[m], hand.op)
  BY <1>2 DEF Apply, TypeOK
<1> HIDE DEF m
<1>5. QED
  BY <1>1, <1>3, <1>4 DEF SetLandsOnTarget, m

(* Every step keeps to the level asked for. *)
LEMMA NextHand == TypeOK /\ SetLandsOnTarget /\ [Next]_vars => SetLandsOnTarget'
<1> SUFFICES ASSUME TypeOK, SetLandsOnTarget, [Next]_vars PROVE SetLandsOnTarget'
  OBVIOUS
<1>1. CASE Send \/ Set \/ SetAllTo \/ on_RuleExecute
  BY <1>1, HandUntouched DEF Send, Set, SetAllTo, on_RuleExecute, Begin
<1>2. CASE GetValue \/ SetSmartQueue \/ Skip \/ Expand
  BY <1>2, HandUntouched DEF GetValue, SetSmartQueue, Skip, Expand
<1>3. CASE Enqueue \/ Annihilate \/ Reload
  BY <1>3, HandUntouched DEF Enqueue, Annihilate, Reload
<1>4. CASE Receive
  BY <1>4 DEF Receive, SetLandsOnTarget
<1>5. CASE TakeSet
  BY <1>5, HandTakeSet
<1>6. CASE TakeOther
  BY <1>6 DEF TakeOther, SetLandsOnTarget
<1>7. CASE Apply
  BY <1>7, HandApply
<1>8. CASE Transmit
  BY <1>8 DEF Transmit, SetLandsOnTarget
<1>9. CASE UNCHANGED vars
  BY <1>9, HandUntouched DEF vars
<1>10. QED
  BY <1>1, <1>2, <1>3, <1>4, <1>5, <1>6, <1>7, <1>8, <1>9
     DEF Next, Main, Worker, Serve

(* The last command of a SET leaves the unit at the level asked for,       *)
(* although the mutex is free between the choice of the command and the    *)
(* change of the tracked level: nobody else writes levels meanwhile.       *)
THEOREM SetLandsOnTargetHolds == Spec => []SetLandsOnTarget
<1>1. Init => TypeOK /\ SetLandsOnTarget
  BY InitTyped, InitHand
<1>2. TypeOK /\ SetLandsOnTarget /\ [Next]_vars => (TypeOK /\ SetLandsOnTarget)'
  BY NextTyped, NextHand
<1>3. QED
  BY <1>1, <1>2, PTL DEF Spec
-----------------------------------------------------------------------------
(* Progress of a SET. *)

(* No command is in hand at first. *)
LEMMA InitFits == Init => StepFits
  BY DEF Init, StepFits

(* The list may lose commands while the worker applies one. *)
LEMMA FitsShrinks ==
  ASSUME StepFits, queue' \subseteq queue, UNCHANGED <<hand, value>>
  PROVE  StepFits'
  BY DEF StepFits

(* The command is made up for the SET at the back. *)
LEMMA FitsTakeSet ==
  ASSUME TypeOK, OrderInv, TakeSet
  PROVE  StepFits'
<1> DEFINE c == Back
           next == GetNextCommand(value[c.node], c.arg)
           kept == [c EXCEPT !.notified = TRUE]
<1>1. c \in queue /\ c \in Commands
  BY OldestExists DEF TakeSet, Back, TypeOK
<1>2. c.node \in Nodes /\ c.arg \in Levels /\ value[c.node] \in Levels
  BY <1>1, NodesAreSources DEF Commands, TypeOK
<1>3. /\ c.op = "SET" /\ queue' \subseteq (queue \ {c}) \cup {kept}
      /\ UNCHANGED value
      /\ \/ hand' = NoCommand
         \/ /\ next.steps # 0
            /\ hand'.ticket = c.ticket /\ hand'.node = c.node /\ hand'.op = next.op
  BY DEF TakeSet
<1>4. /\ kept.ticket = c.ticket /\ kept.node = c.node /\ kept.op = c.op
      /\ kept.arg = c.arg
  BY <1>1 DEF Commands
<1>5. \A d \in queue \ {c} : d.ticket # c.ticket
  BY <1>1 DEF OrderInv, TicketsUnique
<1>6. next.steps # 0 => value[c.node] # c.arg \/ c.arg = Off
  BY <1>2 DEF GetNextCommand, Emit, Off
<1> HIDE DEF c, next, kept
<1>7. QED
  BY <1>3, <1>4, <1>5, <1>6 DEF StepFits, c, next

(* Every step keeps the command in hand right. *)
LEMMA NextFits == TypeOK /\ OrderInv /\ StepFits /\ [Next]_vars => StepFits'
<1> SUFFICES ASSUME TypeOK, OrderInv, StepFits, [Next]_vars PROVE StepFits'
  OBVIOUS
<1>1. CASE Send \/ Set \/ SetAllTo \/ on_RuleExecute
  BY <1>1, FitsShrinks DEF Send, Set, SetAllTo, on_RuleExecute, Begin
<1>2. CASE GetValue \/ SetSmartQueue \/ Skip \/ Expand
  BY <1>2, FitsShrinks DEF GetValue, SetSmartQueue, Skip, Expand
<1>3. CASE Enqueue
  <2>1. \A c \in queue' : c \in queue \/ c.ticket = issued + 1
    BY <1>3 DEF Enqueue
  <2>2. hand # NoCommand => hand.ticket \in Nat /\ hand.ticket <= issued
    BY TicketsAreNat DEF OrderInv, HandIsOldest
  <2>3. UNCHANGED <<hand, value>>
    BY <1>3 DEF Enqueue
  <2>4. QED
    BY <2>1, <2>2, <2>3, TicketsAreNat DEF StepFits
<1>4. CASE Annihilate \/ Reload
  BY <1>4, FitsShrinks DEF Annihilate, Reload
<1>5. CASE Receive
  BY <1>5 DEF Receive, StepFits
<1>6. CASE TakeSet
  BY <1>6, FitsTakeSet
<1>7. CASE TakeOther
  <2> DEFINE c == Back
  <2>1. c \in queue
    BY <1>7, OldestExists DEF TakeOther, Back, TypeOK
  <2>2. queue' = queue \ {c} /\ hand'.ticket = c.ticket
    BY <1>7 DEF TakeOther
  <2> HIDE DEF c
  <2>3. QED
    BY ZenonT(60), <2>1, <2>2 DEF OrderInv, TicketsUnique, StepFits
<1>8. CASE Apply
  <2>1. hand'.phase = "send"
    BY <1>8 DEF Apply, TypeOK, InHand
  <2>2. QED
    BY <2>1 DEF StepFits
<1>9. CASE Transmit
  BY <1>9 DEF Transmit, StepFits
<1>10. CASE UNCHANGED vars
  BY <1>10, FitsShrinks DEF vars
<1>11. QED
  BY <1>1, <1>2, <1>3, <1>4, <1>5, <1>6, <1>7, <1>8, <1>9, <1>10
     DEF Next, Main, Worker, Serve

(* While a command is in hand, only Apply changes a level. *)
LEMMA OnlyApplyMoves ==
  ASSUME [Next]_vars, hand # NoCommand, value' # value
  PROVE  Apply
  BY DEF Next, Main, Worker, Serve, vars, Send, Set, SetAllTo, on_RuleExecute, Begin,
         GetValue, SetSmartQueue, Skip, Expand, Enqueue, Annihilate, Receive, Reload,
         TakeSet, TakeOther, Transmit

\* What SetGetsCloser says of a step.
CloserStep ==
  \A c \in queue :
    c.op = "SET" /\ c.notified /\ hand # NoCommand /\ hand.ticket = c.ticket
      /\ hand.phase = "apply" /\ value' # value =>
        Distance(value'[c.node], c.arg) = Distance(value[c.node], c.arg) - 1

(* The step of a SET is one step of its way. *)
LEMMA FitsCloser == TypeOK /\ StepFits /\ [Next]_vars => CloserStep
<1> SUFFICES ASSUME TypeOK, StepFits, [Next]_vars, NEW c \in queue,
                    c.op = "SET", hand # NoCommand, hand.ticket = c.ticket,
                    hand.phase = "apply", value' # value
             PROVE  Distance(value'[c.node], c.arg) = Distance(value[c.node], c.arg) - 1
  BY DEF CloserStep
<1>1. c.node \in Nodes /\ c.arg \in Levels
  BY DEF TypeOK, Commands
<1>2. value[c.node] \in Levels
  BY <1>1, NodesAreSources DEF TypeOK
<1>3. /\ c.node = hand.node
      /\ value[c.node] # c.arg \/ c.arg = Off
      /\ hand.op = GetNextCommand(value[c.node], c.arg).op
  BY DEF StepFits
<1>4. Apply
  BY OnlyApplyMoves
<1>5. value'[c.node] = Applied(value[c.node], hand.op)
  BY <1>1, <1>3, <1>4, NodesAreSources DEF Apply, TypeOK
<1>6. value[c.node] # c.arg
  <2> SUFFICES ASSUME value[c.node] = Off, c.arg = Off PROVE FALSE
    BY <1>3
  <2>1. hand.op = "OFF"
    BY <1>3 DEF GetNextCommand, Emit
  <2>2. Applied(value[hand.node], hand.op) = value[hand.node]
    BY <1>3, <2>1, AppliedCases
  <2>3. value' = [value EXCEPT ![hand.node] = value[hand.node]]
    BY <1>4, <2>2 DEF Apply
  <2>4. QED
    BY <2>3 DEF TypeOK
<1>7. QED
  BY <1>1, <1>2, <1>3, <1>5, <1>6, SetStepCloser

(* Every command sent for a SET brings the unit exactly one command closer *)
(* to the level asked for, off/on shortcut included, whatever the main     *)
(* thread enqueues meanwhile: no SET occupies the queue for ever.          *)
THEOREM SetGetsCloserHolds == Spec => SetGetsCloser
<1>1. Init => TypeOK /\ OrderInv /\ StepFits
  BY InitTyped, InitOrder, InitFits
<1>2. TypeOK /\ OrderInv /\ StepFits /\ [Next]_vars
        => (TypeOK /\ OrderInv /\ StepFits)'
  BY NextTyped, NextOrder, NextFits
<1>3. TypeOK /\ StepFits /\ [Next]_vars => [CloserStep]_vars
  BY FitsCloser
<1>4. SetGetsCloser <=> [][CloserStep]_vars
  BY DEF SetGetsCloser, CloserStep
<1>5. QED
  BY <1>1, <1>2, <1>3, <1>4, PTL DEF Spec
-----------------------------------------------------------------------------
(***************************************************************************)
(* CommandQueue implements Dispatch, for all houses, units and bounds:     *)
(* every step of the two threads is a step of the contract or leaves it    *)
(* alone.                                                                  *)
(***************************************************************************)
\* What the contract sees of a command, in the list or in hand.
Seen(c) == [ticket |-> c.ticket, node |-> c.node]

Pending == {d \in queue \cup ({hand} \ {NoCommand}) : ~d.notified}

(* What waits, one element at a time. *)
LEMMA WaitsIff ==
  /\ \A w : w \in Unanswered <=> \E c \in Pending : w = Seen(c)
  /\ \A w : w \in Unanswered' <=> \E c \in Pending' : w = Seen(c)
  BY DEF Unanswered, Pending, Seen

(* No two pending commands have the same ticket, none has a later one than *)
(* the last given out, and each is one unit's.                             *)
LEMMA PendingTickets ==
  ASSUME TypeOK, OrderInv
  PROVE  /\ \A c, d \in Pending : c.ticket = d.ticket => c = d
         /\ \A c \in Pending : c.ticket \in Nat /\ c.ticket <= issued /\ c.node \in Nodes
<1>1. \A c \in Pending : c.ticket \in Nat /\ c.ticket <= issued
  BY TicketsAreNat DEF Pending, OrderInv, TicketsUnique, HandIsOldest
<1>2. \A c \in Pending : c.node \in Nodes
  BY DEF Pending, TypeOK, Commands, InHand
<1>3. ASSUME NEW c \in Pending, NEW d \in Pending, c.ticket = d.ticket
      PROVE  c = d
  <2>1. CASE c \in queue /\ d \in queue
    BY <1>3, <2>1 DEF OrderInv, TicketsUnique
  <2>2. CASE c = hand /\ hand # NoCommand /\ d \in queue
    BY <1>1, <1>3, <2>2, TicketsAreNat DEF Pending, OrderInv, HandIsOldest
  <2>3. CASE d = hand /\ hand # NoCommand /\ c \in queue
    BY <1>1, <1>3, <2>3, TicketsAreNat DEF Pending, OrderInv, HandIsOldest
  <2>4. QED
    BY <2>1, <2>2, <2>3 DEF Pending
<1>4. QED
  BY <1>1, <1>2, <1>3

(* The contract begins where the queue begins. *)
LEMMA InitContract == Init => Contract!Init
<1> SUFFICES ASSUME Init PROVE Contract!Init
  OBVIOUS
<1>1. Pending = {}
  BY DEF Init, Pending, NoCommand
<1>2. Unanswered = {}
  BY <1>1, WaitsIff
<1>3. smart \in BOOLEAN
  BY CommandQueueAssumption DEF Init
<1>4. QED
  BY <1>2, <1>3 DEF Init, Contract!Init

(* A step that changes nothing that the contract sees. *)
LEMMA ContractStutters ==
  ASSUME UNCHANGED <<queue, hand, issued, signals, smart>>
  PROVE  UNCHANGED Contract!vars
  BY DEF Contract!vars, Unanswered

(* A command is accepted: what it supersedes does not wait any more. *)
LEMMA EnqueueAccepts ==
  ASSUME TypeOK, OrderInv, Enqueue
  PROVE  Contract!Accept
<1> DEFINE r    == Head(todo)
           new  == [ticket |-> issued + 1, node |-> r.target, op |-> r.op,
                    arg |-> r.arg, notified |-> FALSE]
           lost == {c \in Superseded(r) : ~c.notified}
           gone == {Seen(c) : c \in lost}
           mine == [ticket |-> issued + 1, node |-> r.target]
<1>1. /\ r.target \in Nodes /\ issued < MaxTickets /\ issued' = issued + 1
      /\ queue' = (queue \ Superseded(r)) \cup {new}
      /\ UNCHANGED <<hand, signals, smart>>
  BY DEF Enqueue
<1>2. /\ new.ticket = issued + 1 /\ new.node = r.target /\ ~new.notified
  OBVIOUS
<1>3. Superseded(r) \subseteq {c \in queue : c.node = r.target}
  BY DEF Superseded, SameUnit
<1>4. Superseded(r) # {} => smart
  BY DEF Superseded
<1>5. Seen(new) = mine
  BY <1>2 DEF Seen
<1> HIDE DEF new, r
<1>6. lost \subseteq Pending /\ Pending' = (Pending \ lost) \cup {new}
  <2>1. hand # NoCommand /\ ~hand.notified => hand \notin queue
    BY TicketsAreNat DEF OrderInv, HandIsOldest
  <2>2. QED
    BY <1>1, <1>2, <1>3, <2>1 DEF Pending
<1>7. \A c \in Pending, d \in lost : Seen(c) = Seen(d) => c = d
  BY <1>6, PendingTickets DEF Seen
<1> HIDE DEF lost
<1>8. Unanswered' = (Unanswered \ gone) \cup {mine}
  <2>1. ASSUME NEW w \in Unanswered' PROVE w \in (Unanswered \ gone) \cup {mine}
    BY <1>5, <1>6, <1>7, <2>1, WaitsIff
  <2>2. ASSUME NEW w \in (Unanswered \ gone) \cup {mine} PROVE w \in Unanswered'
    BY <1>5, <1>6, <2>2, WaitsIff
  <2>3. QED
    BY <2>1, <2>2
<1>9. gone \in SUBSET {w \in Unanswered : w.node = r.target}
  <2>1. \A c \in lost : Seen(c) \in Unanswered /\ Seen(c).node = r.target
    BY <1>3, <1>6, WaitsIff DEF lost, Seen
  <2>2. QED
    BY <2>1
<1>10. gone # {} => smart
  BY <1>4 DEF lost
<1> HIDE DEF gone, mine
<1>11. QED
  BY <1>1, <1>8, <1>9, <1>10 DEF Contract!Accept, mine

(* A command is accepted and dropped, together with what it annihilates. *)
LEMMA AnnihilateAccepts ==
  ASSUME TypeOK, OrderInv, Annihilate
  PROVE  Contract!Accept
<1> DEFINE r == Head(todo)
           x == Newest(Opposed(r))
<1>1. /\ r.target \in Nodes /\ issued < MaxTickets /\ issued' = issued + 1
      /\ queue' = queue \ {x} /\ Opposed(r) # {}
      /\ UNCHANGED <<hand, signals, smart>>
  BY DEF Annihilate
<1>2. Opposed(r) \subseteq {c \in queue : c.node = r.target} /\ smart
  BY <1>1 DEF Opposed, SameUnit
<1>3. x \in queue /\ x.node = r.target
  BY <1>1, <1>2, NewestExists DEF TypeOK
<1> HIDE DEF x, r
<1>4. Pending' = Pending \ {x}
  <2>1. hand # NoCommand /\ ~hand.notified => hand \notin queue
    BY TicketsAreNat DEF OrderInv, HandIsOldest
  <2>2. QED
    BY <1>1, <1>3, <2>1 DEF Pending
<1>5. CASE x.notified
  <2>1. Pending' = Pending
    BY <1>4, <1>5 DEF Pending
  <2>2. Unanswered' = Unanswered
    BY <2>1, WaitsIff
  <2>3. {} \in SUBSET {w \in Unanswered : w.node = r.target}
    OBVIOUS
  <2>4. Unanswered' = Unanswered \ {} /\ \A v, w \in {} : v = w
    BY <2>2
  <2>5. QED
    BY <1>1, <1>2, <2>3, <2>4 DEF Contract!Accept
<1>6. CASE ~x.notified
  <2>1. x \in Pending
    BY <1>3, <1>6 DEF Pending
  <2>2. \A c \in Pending : Seen(c) = Seen(x) => c = x
    BY <2>1, PendingTickets DEF Seen
  <2>3. Unanswered' = Unanswered \ {Seen(x)}
    <3>1. ASSUME NEW w \in Unanswered' PROVE w \in Unanswered \ {Seen(x)}
      BY <1>4, <2>2, <3>1, WaitsIff
    <3>2. ASSUME NEW w \in Unanswered \ {Seen(x)} PROVE w \in Unanswered'
      BY <1>4, <3>2, WaitsIff
    <3>3. QED
      BY <3>1, <3>2
  <2>4. {Seen(x)} \in SUBSET {w \in Unanswered : w.node = r.target}
    <3>1. Seen(x) \in Unanswered
      BY <2>1, WaitsIff
    <3>2. Seen(x).node = r.target
      BY <1>3 DEF Seen
    <3>3. QED
      BY <3>1, <3>2
  <2>5. \A v, w \in {Seen(x)} : v = w
    OBVIOUS
  <2>6. QED
    BY <1>1, <1>2, <2>3, <2>4, <2>5 DEF Contract!Accept
<1>7. QED
  BY <1>5, <1>6

(* The oldest pending command stops waiting. *)
LEMMA PendingAnswered ==
  ASSUME TypeOK, OrderInv, NEW c \in Pending,
         \A d \in Pending : c.ticket <= d.ticket,
         Pending' = Pending \ {c},
         signals' \in {signals, Append(signals, c.ticket)},
         UNCHANGED <<issued, smart>>
  PROVE  Contract!Answer
<1>1. \A d \in Pending : Seen(d) = Seen(c) => d = c
  BY PendingTickets DEF Seen
<1>2. Unanswered' = Unanswered \ {Seen(c)}
  <2>1. ASSUME NEW w \in Unanswered' PROVE w \in Unanswered \ {Seen(c)}
    BY <1>1, <2>1, WaitsIff
  <2>2. ASSUME NEW w \in Unanswered \ {Seen(c)} PROVE w \in Unanswered'
    BY <2>2, WaitsIff
  <2>3. QED
    BY <2>1, <2>2
<1>3. Seen(c) \in Unanswered /\ Seen(c).ticket = c.ticket
  BY WaitsIff DEF Seen
<1>4. \A v \in Unanswered : Seen(c).ticket <= v.ticket
  BY WaitsIff DEF Seen
<1>5. QED
  BY <1>2, <1>3, <1>4 DEF Contract!Answer

(* The worker takes a SET: it is dealt with on its first turn. *)
LEMMA TakeSetAnswers ==
  ASSUME TypeOK, OrderInv, TakeSet
  PROVE  Contract!Answer \/ UNCHANGED Contract!vars
<1> DEFINE c    == Back
           kept == [c EXCEPT !.notified = TRUE]
<1>1. c \in queue /\ c \in Commands /\ \A d \in queue : c.ticket <= d.ticket
  BY OldestExists DEF TakeSet, Back, TypeOK
<1>2. /\ queue' = queue \ {c} \/ queue' = (queue \ {c}) \cup {kept}
      /\ hand = NoCommand
      /\ hand' = NoCommand \/ hand'.notified
      /\ UNCHANGED <<issued, smart>>
      /\ c.notified => signals' = signals
      /\ signals' \in {signals, Append(signals, c.ticket)}
  BY DEF TakeSet, Told
<1>3. kept.notified
  BY <1>1 DEF Commands
<1> HIDE DEF c, kept
<1>4. Pending' = Pending \ {c}
  BY <1>2, <1>3 DEF Pending
<1>5. CASE c.notified
  <2>1. Pending' = Pending
    BY <1>4, <1>5 DEF Pending
  <2>2. Unanswered' = Unanswered
    BY <2>1, WaitsIff
  <2>3. QED
    BY <1>2, <1>5, <2>2 DEF Contract!vars
<1>6. CASE ~c.notified
  <2>1. c \in Pending /\ \A d \in Pending : c.ticket <= d.ticket
    BY <1>1, <1>2, <1>6 DEF Pending
  <2>2. QED
    BY <1>2, <1>4, <2>1, PendingAnswered
<1>7. QED
  BY <1>5, <1>6

(* The worker takes any other command: it still waits, in hand. *)
LEMMA TakeOtherStutters ==
  ASSUME TypeOK, OrderInv, TakeOther
  PROVE  UNCHANGED Contract!vars
<1> DEFINE c == Back
<1>1. c \in queue
  BY OldestExists DEF TakeOther, Back, TypeOK
<1>2. /\ queue' = queue \ {c} /\ hand = NoCommand
      /\ UNCHANGED <<issued, smart, signals>>
      /\ hand' # NoCommand /\ hand'.notified = c.notified /\ Seen(hand') = Seen(c)
  BY DEF TakeOther, Seen, NoCommand
<1> HIDE DEF c
<1>3. /\ \A d \in Pending' : d \in Pending \/ (d = hand' /\ c \in Pending)
      /\ \A d \in Pending : d \in Pending' \/ (d = c /\ hand' \in Pending')
  BY <1>1, <1>2 DEF Pending
<1>4. Unanswered' = Unanswered
  <2>1. \A w : w \in Unanswered' <=> w \in Unanswered
    BY <1>2, <1>3, WaitsIff
  <2>2. QED
    BY <2>1 DEF Unanswered
<1>5. QED
  BY <1>2, <1>4 DEF Contract!vars

(* Applying a command in hand is no business of the contract. *)
LEMMA ApplyStutters ==
  ASSUME TypeOK, Apply
  PROVE  UNCHANGED Contract!vars
<1>1. /\ hand # NoCommand /\ hand' # NoCommand
      /\ hand'.notified = hand.notified /\ Seen(hand') = Seen(hand)
  BY DEF Apply, TypeOK, InHand, NoCommand, Seen
<1>2. UNCHANGED <<queue, issued, smart, signals>>
  BY DEF Apply
<1>3. /\ \A d \in Pending' : d \in Pending \/ (d = hand' /\ hand \in Pending)
      /\ \A d \in Pending : d \in Pending' \/ (d = hand /\ hand' \in Pending')
  BY <1>1, <1>2 DEF Pending
<1>4. Unanswered' = Unanswered
  <2>1. \A w : w \in Unanswered' <=> w \in Unanswered
    BY <1>1, <1>3, WaitsIff
  <2>2. QED
    BY <2>1 DEF Unanswered
<1>5. QED
  BY <1>2, <1>4 DEF Contract!vars

(* A transmitted command is dealt with, unless it was before. *)
LEMMA TransmitAnswers ==
  ASSUME TypeOK, OrderInv, Transmit
  PROVE  Contract!Answer \/ UNCHANGED Contract!vars
<1>1. /\ hand # NoCommand /\ hand' = NoCommand
      /\ UNCHANGED <<queue, issued, smart>>
      /\ hand.notified => signals' = signals
      /\ signals' \in {signals, Append(signals, hand.ticket)}
  BY DEF Transmit, Told
<1>2. CASE hand.notified
  <2>1. Pending' = Pending
    BY <1>1, <1>2 DEF Pending
  <2>2. Unanswered' = Unanswered
    BY <2>1, WaitsIff
  <2>3. QED
    BY <1>1, <1>2, <2>2 DEF Contract!vars
<1>3. CASE ~hand.notified
  <2>1. hand \in Pending /\ \A d \in queue : hand.ticket < d.ticket
    BY <1>1, <1>3, TicketsAreNat DEF Pending, OrderInv, HandIsOldest
  <2>2. \A d \in Pending : hand.ticket <= d.ticket
    BY <1>1, <2>1, TicketsAreNat DEF Pending
  <2>3. hand \notin queue
    BY <1>1, <2>1, TicketsAreNat
  <2>4. Pending' = Pending \ {hand}
    BY <1>1, <2>3 DEF Pending
  <2>5. QED
    BY <1>1, <2>1, <2>2, <2>4, PendingAnswered
<1>4. QED
  BY <1>2, <1>3

(* Every step is a step of the contract, or none. *)
LEMMA NextContract == TypeOK /\ OrderInv /\ [Next]_vars => [Contract!Next]_(Contract!vars)
<1> SUFFICES ASSUME TypeOK, OrderInv, [Next]_vars
             PROVE  Contract!Next \/ UNCHANGED Contract!vars
  OBVIOUS
<1> USE DEF Contract!Next
<1>1. CASE Send \/ Set \/ SetAllTo \/ on_RuleExecute
  BY <1>1, ContractStutters DEF Send, Set, SetAllTo, on_RuleExecute, Begin
<1>2. CASE GetValue \/ Skip \/ Expand \/ Receive \/ Reload
  BY <1>2, ContractStutters DEF GetValue, Skip, Expand, Receive, Reload
<1>3. CASE SetSmartQueue
  <2>1. smart' \in BOOLEAN
    BY <1>3, CommandQueueAssumption DEF SetSmartQueue
  <2>2. UNCHANGED <<issued, Unanswered, signals>>
    BY <1>3 DEF SetSmartQueue, Unanswered
  <2>3. QED
    BY <2>1, <2>2 DEF Contract!Configure
<1>4. CASE Enqueue
  BY <1>4, EnqueueAccepts
<1>5. CASE Annihilate
  BY <1>5, AnnihilateAccepts
<1>6. CASE TakeSet
  BY <1>6, TakeSetAnswers
<1>7. CASE TakeOther
  BY <1>7, TakeOtherStutters
<1>8. CASE Apply
  BY <1>8, ApplyStutters
<1>9. CASE Transmit
  BY <1>9, TransmitAnswers
<1>10. CASE UNCHANGED vars
  BY <1>10, ContractStutters DEF vars
<1>11. QED
  BY <1>1, <1>2, <1>3, <1>4, <1>5, <1>6, <1>7, <1>8, <1>9, <1>10
     DEF Next, Main, Worker, Serve

(* The command queue keeps the contract its clients see: order of          *)
(* acceptance, one announcement at most, and nothing lost but to a later   *)
(* request for the same unit under a smart queue.                          *)
THEOREM QueueKeepsContract == Spec => KeepsContract
<1>1. Init => TypeOK /\ OrderInv
  BY InitTyped, InitOrder
<1>2. TypeOK /\ OrderInv /\ [Next]_vars => (TypeOK /\ OrderInv)'
  BY NextTyped, NextOrder
<1>3. QED
  BY <1>1, <1>2, InitContract, NextContract, PTL DEF Spec, KeepsContract, Contract!Spec
-----------------------------------------------------------------------------
(* No request is lost while there is a controller. *)

\* The action of the property.
LostForAReason ==
  \A r \in Unanswered \ Unanswered' :
    Announced(r) \/ GaveWay(r) \/ AlreadyThere(r) \/ ~loaded

(* An accepted command makes room only among those of its unit. *)
LEMMA EnqueueLoses ==
  ASSUME TypeOK, Enqueue
  PROVE  LostForAReason
<1> DEFINE r == Head(todo)
<1>1. /\ issued' = issued + 1 /\ issued \in Nat /\ UNCHANGED hand
      /\ queue \ Superseded(r) \subseteq queue'
  BY DEF Enqueue, TypeOK
<1>2. Superseded(r) \subseteq {c \in queue : c.node = r.target}
  BY DEF Superseded, SameUnit
<1>3. Superseded(r) # {} => smart
  BY DEF Superseded
<1> HIDE DEF r
<1>4. SUFFICES ASSUME NEW w \in Unanswered, w \notin Unanswered'
               PROVE  GaveWay(w)
  BY DEF LostForAReason
<1>5. PICK c \in Pending : w = Seen(c)
  BY <1>4, WaitsIff
<1>6. c \notin Pending'
  BY <1>4, <1>5, WaitsIff
<1>7. c \in Superseded(r)
  BY <1>1, <1>5, <1>6 DEF Pending
<1>8. QED
  BY <1>1, <1>2, <1>3, <1>5, <1>7 DEF GaveWay, Seen, r

(* What is annihilated gives way to its opposite. *)
LEMMA AnnihilateLoses ==
  ASSUME TypeOK, Annihilate
  PROVE  LostForAReason
<1> DEFINE r == Head(todo)
           x == Newest(Opposed(r))
<1>1. /\ issued' = issued + 1 /\ issued \in Nat /\ UNCHANGED hand
      /\ queue' = queue \ {x} /\ Opposed(r) # {}
  BY DEF Annihilate, TypeOK
<1>2. Opposed(r) \subseteq {c \in queue : c.node = r.target} /\ smart
  BY <1>1 DEF Opposed, SameUnit
<1>3. x.node = r.target
  BY <1>1, <1>2, NewestExists DEF TypeOK
<1> HIDE DEF r, x
<1>4. SUFFICES ASSUME NEW w \in Unanswered, w \notin Unanswered'
               PROVE  GaveWay(w)
  BY DEF LostForAReason
<1>5. PICK c \in Pending : w = Seen(c)
  BY <1>4, WaitsIff
<1>6. c \notin Pending'
  BY <1>4, <1>5, WaitsIff
<1>7. c = x
  BY <1>1, <1>5, <1>6 DEF Pending
<1>8. QED
  BY <1>1, <1>2, <1>3, <1>5, <1>7 DEF GaveWay, Seen, r

(* An announcement is found behind all others. *)
LEMMA AppendAnnounces ==
  ASSUME NEW s \in Seq(Tickets), NEW t \in Tickets
  PROVE  \E i \in DOMAIN Append(s, t) : Append(s, t)[i] = t
<1>1. Len(s) + 1 \in DOMAIN Append(s, t) /\ Append(s, t)[Len(s) + 1] = t
  BY AppendProperties
<1>2. QED
  BY <1>1

(* A SET that is taken is announced, unless it asks for what is so. *)
LEMMA TakeSetLoses ==
  ASSUME TypeOK, TakeSet
  PROVE  LostForAReason
<1> DEFINE c    == Back
           next == GetNextCommand(value[c.node], c.arg)
<1>1. c \in queue /\ c \in Commands
  BY OldestExists DEF TakeSet, Back, TypeOK
<1>2. c.node \in Nodes /\ c.arg \in Levels /\ value[c.node] \in Levels /\ c.ticket \in Tickets
  BY <1>1, NodesAreSources DEF Commands, TypeOK
<1>3. next.steps = 0 => value[c.node] = c.arg
  BY <1>2, StepsCount
<1>4. /\ c.op = "SET" /\ hand = NoCommand
      /\ queue \ {c} \subseteq queue'
      /\ next.steps # 0 /\ ~c.notified => signals' = Append(signals, c.ticket)
  BY DEF TakeSet, Told
<1> HIDE DEF c, next
<1>5. SUFFICES ASSUME NEW w \in Unanswered, w \notin Unanswered'
               PROVE  Announced(w) \/ AlreadyThere(w)
  BY DEF LostForAReason
<1>6. PICK d \in Pending : w = Seen(d)
  BY <1>5, WaitsIff
<1>7. d \notin Pending'
  BY <1>5, <1>6, WaitsIff
<1>8. d = c /\ ~c.notified
  BY <1>4, <1>6, <1>7 DEF Pending
<1>9. w.ticket = c.ticket /\ w.node = c.node
  BY <1>6, <1>8 DEF Seen
<1>10. CASE next.steps = 0
  BY <1>1, <1>3, <1>4, <1>9, <1>10 DEF AlreadyThere
<1>11. CASE next.steps # 0
  <2>1. signals' = Append(signals, c.ticket)
    BY <1>4, <1>8, <1>11
  <2>2. \E i \in DOMAIN signals' : signals'[i] = c.ticket
    BY <1>2, <2>1, AppendAnnounces DEF TypeOK
  <2>3. QED
    BY <1>9, <2>2 DEF Announced
<1>12. QED
  BY <1>10, <1>11

(* What is transmitted is announced, if there is a controller. *)
LEMMA TransmitLoses ==
  ASSUME TypeOK, Transmit
  PROVE  LostForAReason
<1>1. /\ hand # NoCommand /\ UNCHANGED queue /\ hand \in InHand
      /\ loaded /\ ~hand.notified => signals' = Append(signals, hand.ticket)
  BY DEF Transmit, Told, TypeOK
<1>2. SUFFICES ASSUME NEW w \in Unanswered, w \notin Unanswered', loaded
               PROVE  Announced(w)
  BY DEF LostForAReason
<1>3. PICK d \in Pending : w = Seen(d)
  BY <1>2, WaitsIff
<1>4. d \notin Pending'
  BY <1>2, <1>3, WaitsIff
<1>5. d = hand /\ ~hand.notified
  BY <1>1, <1>3, <1>4 DEF Pending
<1>6. signals' = Append(signals, hand.ticket) /\ hand.ticket \in Tickets
  BY <1>1, <1>2, <1>5 DEF InHand
<1>7. \E i \in DOMAIN signals' : signals'[i] = hand.ticket
  BY <1>6, AppendAnnounces DEF TypeOK
<1>8. w.ticket = hand.ticket
  BY <1>3, <1>5 DEF Seen
<1>9. QED
  BY <1>7, <1>8 DEF Announced

(* Every step that loses a request has a reason to. *)
LEMMA NextLoses == TypeOK /\ OrderInv /\ [Next]_vars => LostForAReason
<1> SUFFICES ASSUME TypeOK, OrderInv, [Next]_vars PROVE LostForAReason
  OBVIOUS
<1>1. ASSUME UNCHANGED Contract!vars PROVE LostForAReason
  BY <1>1 DEF Contract!vars, LostForAReason
<1>2. CASE Send \/ Set \/ SetAllTo \/ on_RuleExecute
  BY <1>1, <1>2, ContractStutters DEF Send, Set, SetAllTo, on_RuleExecute, Begin
<1>3. CASE GetValue \/ Skip \/ Expand \/ Receive \/ Reload
  BY <1>1, <1>3, ContractStutters DEF GetValue, Skip, Expand, Receive, Reload
<1>4. CASE SetSmartQueue
  <2>1. UNCHANGED Unanswered
    BY <1>4 DEF SetSmartQueue, Unanswered
  <2>2. QED
    BY <2>1 DEF LostForAReason
<1>5. CASE Enqueue
  BY <1>5, EnqueueLoses
<1>6. CASE Annihilate
  BY <1>6, AnnihilateLoses
<1>7. CASE TakeSet
  BY <1>7, TakeSetLoses
<1>8. CASE TakeOther
  BY <1>1, <1>8, TakeOtherStutters
<1>9. CASE Apply
  BY <1>1, <1>9, ApplyStutters
<1>10. CASE Transmit
  BY <1>10, TransmitLoses
<1>11. CASE UNCHANGED vars
  BY <1>1, <1>11, ContractStutters DEF vars
<1>12. QED
  BY <1>2, <1>3, <1>4, <1>5, <1>6, <1>7, <1>8, <1>9, <1>10, <1>11
     DEF Next, Main, Worker, Serve

(* While there is a controller no request is lost in silence, be it in the  *)
(* list, in the worker's hand, or a SET under way that is in both.          *)
THEOREM LostOnlyWithoutControllerHolds == Spec => LostOnlyWithoutController
<1>1. Init => TypeOK /\ OrderInv
  BY InitTyped, InitOrder
<1>2. TypeOK /\ OrderInv /\ [Next]_vars => (TypeOK /\ OrderInv)'
  BY NextTyped, NextOrder
<1>3. TypeOK /\ OrderInv /\ [Next]_vars => [LostForAReason]_vars
  BY NextLoses
<1>4. LostOnlyWithoutController <=> [][LostForAReason]_vars
  BY DEF LostOnlyWithoutController, LostForAReason
<1>5. QED
  BY <1>1, <1>2, <1>3, <1>4, PTL DEF Spec
=============================================================================
