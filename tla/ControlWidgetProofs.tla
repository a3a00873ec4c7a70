------------------------- MODULE ControlWidgetProofs -------------------------
(***************************************************************************)
(* Proofs about ControlWidget, for every number of levels, all addresses,  *)
(* settings of the control and acts of others, and without a bound on the  *)
(* length of the queue, the jobs or the signals.                           *)
(***************************************************************************)
EXTENDS ControlWidget, DimmingProofs, SequenceTheorems, FiniteSetTheorems,
        WellFoundedInduction

-----------------------------------------------------------------------------
(* A set of naturals that is not empty has a least element. *)
LEMMA LeastNat ==
  ASSUME NEW T \in SUBSET Nat, T # {}
  PROVE  \E m \in T : \A n \in T : m <= n
<1> DEFINE R == OpToRel(<, Nat)
<1>1. IsWellFoundedOn(R, Nat)
  BY NatLessThanWellFounded
<1>2. \A x, y \in Nat : x < y => <<x, y>> \in R
  BY DEF OpToRel
<1> HIDE DEF R
<1>3. PICK x \in T : \A y \in T : ~ (<<y, x>> \in R)
  BY <1>1, WFMin, Zenon
<1>4. ASSUME NEW y \in T PROVE x <= y
  <2>1. x \in Nat /\ y \in Nat
    OBVIOUS
  <2>2. ~ (y < x)
    BY <1>2, <1>3, <2>1, Zenon
  <2>3. QED
    BY <2>1, <2>2
<1>5. QED
  BY <1>4

(* An element is taken out of a list: the list is one shorter, and what     *)
(* stood behind it moves up.                                                *)
LEMMA RemoveAtProperties ==
  ASSUME NEW S, NEW s \in Seq(S), NEW i \in 1 .. Len(s)
  PROVE  /\ RemoveAt(s, i) \in Seq(S)
         /\ Len(RemoveAt(s, i)) = Len(s) - 1
         /\ \A j \in 1 .. Len(s) - 1 : RemoveAt(s, i)[j] = IF j < i THEN s[j] ELSE s[j + 1]
<1> DEFINE a == SubSeq(s, 1, i - 1)
           b == SubSeq(s, i + 1, Len(s))
<1>1. Len(s) \in Nat /\ i \in Int
  BY LenProperties
<1>2. \A j \in 1 .. Len(s) : s[j] \in S
  BY ElementOfSeq
<1>3. /\ a \in Seq(S) /\ Len(a) = i - 1
      /\ \A j \in 1 .. i - 1 : a[j] = s[j]
  <2>1. 1 \in Int /\ i - 1 \in Int /\ \A j \in 1 .. i - 1 : s[j] \in S
    BY <1>1, <1>2
  <2>2. QED
    BY <1>1, <2>1, SubSeqProperties
<1>4. /\ b \in Seq(S) /\ Len(b) = Len(s) - i
      /\ \A j \in 1 .. Len(s) - i : b[j] = s[i + j]
  <2>1. i + 1 \in Int /\ Len(s) \in Int /\ \A j \in i + 1 .. Len(s) : s[j] \in S
    BY <1>1, <1>2
  <2>2. b \in Seq(S) /\ Len(b) = IF i + 1 <= Len(s) THEN Len(s) - (i + 1) + 1 ELSE 0
    BY <2>1, SubSeqProperties
  <2>3. \A j \in 1 .. Len(s) - (i + 1) + 1 : b[j] = s[(i + 1) + j - 1]
    BY <2>1, SubSeqProperties
  <2>4. ASSUME NEW j \in 1 .. Len(s) - i PROVE b[j] = s[i + j]
    <3>1. j \in 1 .. Len(s) - (i + 1) + 1 /\ (i + 1) + j - 1 = i + j
      BY <1>1
    <3>2. QED
      BY <2>3, <3>1
  <2>5. QED
    BY <1>1, <2>2, <2>4
<1> HIDE DEF a, b
<1>5. /\ a \o b \in Seq(S)
      /\ Len(a \o b) = Len(a) + Len(b)
      /\ \A j \in 1 .. Len(a) + Len(b) :
           (a \o b)[j] = IF j <= Len(a) THEN a[j] ELSE b[j - Len(a)]
  BY <1>3, <1>4, ConcatProperties
<1>6. RemoveAt(s, i) = a \o b
  BY DEF RemoveAt, a, b
<1>7. ASSUME NEW j \in 1 .. Len(s) - 1
      PROVE  (a \o b)[j] = IF j < i THEN s[j] ELSE s[j + 1]
  <2>1. j \in 1 .. Len(a) + Len(b)
    BY <1>1, <1>3, <1>4
  <2>2. CASE j < i
    <3>1. j <= Len(a) /\ j \in 1 .. i - 1
      BY <1>1, <1>3, <2>2
    <3>2. QED
      BY <1>3, <1>5, <2>1, <2>2, <3>1
  <2>3. CASE ~(j < i)
    <3>1. ~(j <= Len(a)) /\ j - Len(a) \in 1 .. Len(s) - i /\ i + (j - Len(a)) = j + 1
      BY <1>1, <1>3, <2>3
    <3>2. b[j - Len(a)] = s[j + 1]
      BY <1>4, <3>1
    <3>3. QED
      BY <1>5, <2>1, <2>3, <3>1, <3>2
  <2>4. QED
    BY <2>2, <2>3
<1>8. Len(a) + Len(b) = Len(s) - 1
  BY <1>1, <1>3, <1>4
<1>9. QED
  BY <1>5, <1>6, <1>7, <1>8
-----------------------------------------------------------------------------
(* The form and the list of rules. *)

(* How many of the first i commands are for another unit: none of none, and  *)
(* at most one more with each command.                                      *)
LEMMA OthersCount ==
  ASSUME queue \in Seq(Commands), NEW c
  PROVE  /\ \A i \in 0 .. Len(queue) : Cardinality(ForOthers(c, i)) \in Nat
         /\ Cardinality(ForOthers(c, 0)) = 0
         /\ \A i \in 1 .. Len(queue) :
              IF queue[i].source # c.source THEN Cardinality(ForOthers(c, i)) = Cardinality(ForOthers(c, i - 1)) + 1
              ELSE Cardinality(ForOthers(c, i)) = Cardinality(ForOthers(c, i - 1))
<1> DEFINE K(n) == ForOthers(c, n)
           IsOther(j) == queue[j].source # c.source
<1>1. Len(queue) \in Nat
  BY LenProperties
<1>2. ASSUME NEW i \in 0 .. Len(queue)
      PROVE  IsFiniteSet(K(i)) /\ Cardinality(K(i)) \in Nat
  <2>1. IsFiniteSet(1 .. i)
    BY <1>1, FS_Interval
  <2>2. K(i) \in SUBSET (1 .. i)
    BY DEF ForOthers
  <2>3. IsFiniteSet(K(i))
    BY <2>1, <2>2, FS_Subset
  <2>4. QED
    BY <2>3, FS_CardinalityType
<1>3. K(0) = {}
  BY DEF ForOthers
<1>4. Cardinality(K(0)) = 0
  BY <1>3, FS_EmptySet
<1>5. \A n, j : j \in K(n) <=> j \in 1 .. n /\ IsOther(j)
  BY DEF ForOthers
<1> HIDE DEF K, IsOther
<1>6. ASSUME NEW i \in 1 .. Len(queue)
      PROVE  IF IsOther(i) THEN Cardinality(K(i)) = Cardinality(K(i - 1)) + 1
             ELSE Cardinality(K(i)) = Cardinality(K(i - 1))
  <2>1. i - 1 \in 0 .. Len(queue)
    BY <1>1
  <2>2. \A j : j \in 1 .. i <=> j \in 1 .. (i - 1) \/ j = i
    BY <1>1
  <2>3. i \notin 1 .. (i - 1)
    BY <1>1
  <2>4. CASE IsOther(i)
    <3>1. \A j : j \in K(i) <=> j \in K(i - 1) \/ j = i
      BY <1>5, <2>2, <2>4, Zenon
    <3>2. i \notin K(i - 1)
      BY <1>5, <2>3
    <3>3. K(i) = K(i - 1) \cup {i}
      BY <3>1
    <3>4. IsFiniteSet(K(i - 1)) /\ Cardinality(K(i - 1)) \in Nat
      BY <1>2, <2>1
    <3>5. Cardinality(K(i)) = Cardinality(K(i - 1)) + 1
      BY <3>2, <3>3, <3>4, FS_AddElement
    <3>6. QED
      BY <2>4, <3>5
  <2>5. CASE ~IsOther(i)
    <3>1. \A j : j \in K(i) <=> j \in K(i - 1)
      BY <1>5, <2>2, <2>5, Zenon
    <3>2. K(i) = K(i - 1)
      BY <3>1
    <3>3. QED
      BY <2>5, <3>2
  <2>6. QED
    BY <2>4, <2>5
<1>7. QED
  BY <1>2, <1>4, <1>6 DEF K, IsOther

(* The commands for other units are all that is left of the queue, and none *)
(* of them is lost.                                                         *)
LEMMA RemainingProperties ==
  ASSUME queue \in Seq(Commands), NEW d
  PROVE  /\ Remaining(d) \in Seq(Commands)
         /\ \A j \in 1 .. Len(queue) : queue[j].source # d.source =>
              \E k \in 1 .. Len(Remaining(d)) : Remaining(d)[k] = queue[j]
<1> DEFINE c(i) == Cardinality(ForOthers(d, i))
           N == Len(queue)
           At(k) == CHOOSE i \in ForOthers(d, N) : c(i) = k
<1>1. N \in Nat
  BY LenProperties
<1>2. (\A i \in 0 .. N : c(i) \in Nat) /\ c(0) = 0
  BY OthersCount
<1>3. \A i \in 1 .. N : IF queue[i].source # d.source THEN c(i) = c(i - 1) + 1
                        ELSE c(i) = c(i - 1)
  BY OthersCount
<1>4. ForOthers(d, N) = {j \in 1 .. N : queue[j].source # d.source}
  BY DEF ForOthers
<1> HIDE DEF c, N
<1>5. ASSUME NEW k \in 1 .. c(N)
      PROVE  \E i \in ForOthers(d, N) : c(i) = k
  <2> DEFINE T == {n \in 0 .. N : k <= c(n)}
  <2>1. N \in T /\ T \in SUBSET Nat
    BY <1>1, <1>2
  <2>2. PICK m \in T : \A n \in T : m <= n
    BY <2>1, LeastNat
  <2>3. m \in 0 .. N /\ k <= c(m)
    BY <2>2
  <2>4. m # 0
    BY <1>2, <2>3
  <2>5. m - 1 \in 0 .. N /\ ~(m <= m - 1)
    BY <1>1, <2>3, <2>4
  <2>6. ~(k <= c(m - 1))
    BY <2>2, <2>5
  <2>7. m \in 1 .. N /\ c(m) \in Nat /\ c(m - 1) \in Nat /\ k \in Nat
    BY <1>1, <1>2, <2>3, <2>4, <2>5
  <2>8. queue[m].source # d.source /\ c(m) = k
    <3>1. c(m) # c(m - 1)
      BY <2>3, <2>6
    <3>2. queue[m].source # d.source /\ c(m) = c(m - 1) + 1
      BY <1>3, <2>7, <3>1
    <3>3. QED
      BY <2>3, <2>6, <2>7, <3>2
  <2>9. QED
    BY <1>4, <2>7, <2>8
<1>6. \A k \in 1 .. c(N) : At(k) \in ForOthers(d, N) /\ c(At(k)) = k
  BY <1>5
<1> HIDE DEF At
<1>7. Remaining(d) = [k \in 1 .. c(N) |-> queue[At(k)]]
  BY Zenon DEF Remaining, At, c, N
<1>8. \A k \in 1 .. c(N) : At(k) \in 1 .. N /\ queue[At(k)].source # d.source
  BY <1>4, <1>6
<1>9. \A k \in 1 .. c(N) : queue[At(k)] \in Commands
  BY <1>8, ElementOfSeq DEF N
<1>10. c(N) \in Nat
  BY <1>1, <1>2
<1>11. Remaining(d) \in Seq(Commands) /\ Len(Remaining(d)) = c(N)
  BY <1>7, <1>9, <1>10
<1>12. ASSUME NEW i \in 0 .. N, NEW j \in i .. N
       PROVE  c(i) <= c(j)
  <2> DEFINE T == {n \in i .. N : ~(c(i) <= c(n))}
  <2>1. SUFFICES ASSUME T # {} PROVE FALSE
    BY <1>1
  <2>2. T \in SUBSET Nat
    BY <1>1
  <2>3. PICK m \in T : \A n \in T : m <= n
    BY <2>1, <2>2, LeastNat
  <2>4. m \in i .. N /\ ~(c(i) <= c(m))
    BY <2>3
  <2>5. c(i) \in Nat
    BY <1>2
  <2>6. m # i
    BY <2>4, <2>5
  <2>7. m - 1 \in i .. N /\ ~(m <= m - 1) /\ m \in 1 .. N
    BY <1>1, <2>4, <2>6
  <2>8. c(i) <= c(m - 1)
    BY <2>3, <2>7
  <2>9. c(m) \in Nat /\ c(m - 1) \in Nat
    BY <1>1, <1>2, <2>7
  <2>10. c(m) = c(m - 1) + 1 \/ c(m) = c(m - 1)
    BY <1>3, <2>7
  <2>11. QED
    BY <2>4, <2>5, <2>8, <2>9, <2>10
<1>13. ASSUME NEW i \in 0 .. N, NEW j \in 1 .. N, i < j, queue[j].source # d.source
       PROVE  c(i) < c(j)
  <2>1. j - 1 \in i .. N /\ j - 1 \in 0 .. N
    BY <1>1, <1>13
  <2>2. c(i) <= c(j - 1)
    BY <1>12, <2>1
  <2>3. c(j) = c(j - 1) + 1
    BY <1>3, <1>13
  <2>4. c(i) \in Nat /\ c(j - 1) \in Nat
    BY <1>2, <2>1
  <2>5. QED
    BY <2>2, <2>3, <2>4
<1>14. ASSUME NEW j \in 1 .. N, queue[j].source # d.source
       PROVE  c(j) \in 1 .. c(N) /\ At(c(j)) = j
  <2>1. c(0) < c(j) /\ c(j) <= c(N) /\ c(j) \in Nat
    <3>1. 0 \in 0 .. N /\ 0 < j /\ j \in 0 .. N /\ N \in j .. N
      BY <1>1
    <3>2. QED
      BY <1>2, <1>12, <1>13, <1>14, <3>1
  <2>2. c(j) \in 1 .. c(N)
    BY <1>2, <1>10, <2>1
  <2>3. At(c(j)) \in 1 .. N /\ queue[At(c(j))].source # d.source /\ c(At(c(j))) = c(j)
    BY <1>6, <1>8, <2>2
  <2>4. ~(At(c(j)) < j) /\ ~(j < At(c(j)))
    <3>1. j \in 0 .. N /\ At(c(j)) \in 0 .. N
      BY <1>1, <2>3
    <3>2. \A n \in Nat : ~(n < n)
      OBVIOUS
    <3>3. QED
      BY <1>13, <1>14, <2>1, <2>3, <3>1, <3>2
  <2>5. QED
    BY <1>1, <2>2, <2>3, <2>4
<1>15. ASSUME NEW j \in 1 .. N, queue[j].source # d.source
       PROVE  \E k \in 1 .. Len(Remaining(d)) : Remaining(d)[k] = queue[j]
  <2>1. c(j) \in 1 .. Len(Remaining(d)) /\ Remaining(d)[c(j)] = queue[j]
    BY <1>7, <1>11, <1>14, <1>15
  <2>2. QED
    BY <2>1
<1>16. QED
  BY <1>11, <1>15 DEF N

(* Whatever a command does to the queue: of the control's own DIM and        *)
(* BRIGHT none is lost without being counted as lost.                        *)
LEMMA AcceptedProperties ==
  ASSUME queue \in Seq(Commands), NEW c \in Commands
  PROVE  /\ Accepted(c) \in Seq(Commands)
         /\ \A j \in 1 .. Len(queue) : ~Loses(c) /\ Guess(queue[j]) =>
              \E k \in 1 .. Len(Accepted(c)) : Accepted(c)[k] = queue[j]
         /\ ~Loses(c) /\ Guess(c) =>
              \E k \in 1 .. Len(Accepted(c)) : Accepted(c)[k] = c
<1>1. Len(queue) \in Nat /\ DOMAIN queue = 1 .. Len(queue)
  BY LenProperties
<1>2. CASE Opposed(c) # {}
  <2> DEFINE p == CHOOSE i \in Opposed(c) : TRUE
  <2>1. p \in Opposed(c)
    BY <1>2
  <2>2. p \in 1 .. Len(queue)
    BY <1>1, <2>1 DEF Opposed, OfUnit
  <2>3. Accepted(c) = RemoveAt(queue, p)
    BY <1>2 DEF Accepted
  <2>4. ~Supersedes(c)
    BY <2>1 DEF Opposed, Supersedes
  <2>5. ASSUME ~Loses(c) PROVE ~Guess(queue[p]) /\ ~Guess(c)
    BY <1>2, <2>1, <2>4, <2>5 DEF Loses
  <2> HIDE DEF p
  <2>6. /\ Accepted(c) \in Seq(Commands) /\ Len(Accepted(c)) = Len(queue) - 1
        /\ \A j \in 1 .. Len(queue) - 1 :
             Accepted(c)[j] = IF j < p THEN queue[j] ELSE queue[j + 1]
    BY <2>2, <2>3, RemoveAtProperties
  <2>7. ASSUME NEW j \in 1 .. Len(queue), ~Loses(c), Guess(queue[j])
        PROVE  \E k \in 1 .. Len(Accepted(c)) : Accepted(c)[k] = queue[j]
    <3>1. j # p
      BY <2>5, <2>7
    <3>2. CASE j < p
      <4>1. j \in 1 .. Len(queue) - 1
        BY <1>1, <2>2, <3>2
      <4>2. QED
        BY <2>6, <3>2, <4>1
    <3>3. CASE ~(j < p)
      <4>1. j - 1 \in 1 .. Len(queue) - 1 /\ ~(j - 1 < p) /\ (j - 1) + 1 = j
        BY <1>1, <2>2, <3>1, <3>3
      <4>2. Accepted(c)[j - 1] = queue[j]
        BY <2>6, <4>1
      <4>3. QED
        BY <2>6, <4>1, <4>2
    <3>4. QED
      BY <3>2, <3>3
  <2>8. QED
    BY <2>5, <2>6, <2>7
<1>3. ASSUME NEW s \in Seq(Commands), Accepted(c) = Append(s, c),
             \A j \in 1 .. Len(queue) : ~Loses(c) /\ Guess(queue[j]) =>
               \E k \in 1 .. Len(s) : s[k] = queue[j]
      PROVE  /\ Accepted(c) \in Seq(Commands)
             /\ \A j \in 1 .. Len(queue) : ~Loses(c) /\ Guess(queue[j]) =>
                  \E k \in 1 .. Len(Accepted(c)) : Accepted(c)[k] = queue[j]
             /\ \E k \in 1 .. Len(Accepted(c)) : Accepted(c)[k] = c
  <2>1. /\ Accepted(c) \in Seq(Commands) /\ Len(Accepted(c)) = Len(s) + 1 /\ Len(s) \in Nat
        /\ \A k \in 1 .. Len(s) : Accepted(c)[k] = s[k]
        /\ Accepted(c)[Len(s) + 1] = c
    BY <1>3, AppendProperties, LenProperties
  <2>2. \A k \in 1 .. Len(s) : k \in 1 .. Len(Accepted(c))
    BY <2>1
  <2>3. Len(s) + 1 \in 1 .. Len(Accepted(c))
    BY <2>1
  <2>4. ASSUME NEW j \in 1 .. Len(queue), ~Loses(c), Guess(queue[j])
        PROVE  \E k \in 1 .. Len(Accepted(c)) : Accepted(c)[k] = queue[j]
    <3>1. PICK k \in 1 .. Len(s) : s[k] = queue[j]
      BY <1>3, <2>4
    <3>2. QED
      BY <2>1, <2>2, <3>1
  <2>5. QED
    BY <2>1, <2>3, <2>4
<1>4. CASE Opposed(c) = {} /\ Supersedes(c)
  <2>1. Accepted(c) = Append(Remaining(c), c)
    BY <1>4 DEF Accepted
  <2>2. ASSUME NEW j \in 1 .. Len(queue), ~Loses(c), Guess(queue[j])
        PROVE  queue[j].source # c.source
    BY <1>1, <1>4, <2>2 DEF Loses, OfUnit
  <2>3. QED
    BY <1>3, <2>1, <2>2, RemainingProperties
<1>5. CASE Opposed(c) = {} /\ ~Supersedes(c)
  <2>1. Accepted(c) = Append(queue, c)
    BY <1>5 DEF Accepted
  <2>2. QED
    BY <1>3, <2>1
<1>6. QED
  BY <1>2, <1>4, <1>5
-----------------------------------------------------------------------------
(* The signals of a list that carry a level of a, and that the last of them *)
(* carries v.                                                               *)
Carriers(s, a) == {i \in 1 .. Len(s) : s[i].source = a /\ s[i].value # Completed}
Tells(s, a, v) ==
  \A i \in Carriers(s, a) : (\A j \in Carriers(s, a) : j <= i) => s[i].value = v

(* A signal without a level of a does not change what is told of a.         *)
LEMMA OtherSignal ==
  ASSUME NEW s \in Seq(Signals), NEW x \in Signals, NEW a, NEW v,
         ~(x.source = a /\ x.value # Completed)
  PROVE  /\ Carriers(Append(s, x), a) = Carriers(s, a)
         /\ Tells(s, a, v) => Tells(Append(s, x), a, v)
<1>1. /\ Len(Append(s, x)) = Len(s) + 1 /\ Len(s) \in Nat
      /\ \A k \in 1 .. Len(s) : Append(s, x)[k] = s[k]
      /\ Append(s, x)[Len(s) + 1] = x
  BY AppendProperties, LenProperties
<1>2. ASSUME NEW i
      PROVE  i \in Carriers(Append(s, x), a) <=> i \in Carriers(s, a)
  <2>1. i \in 1 .. Len(s) + 1 <=> i \in 1 .. Len(s) \/ i = Len(s) + 1
    BY <1>1
  <2>2. QED
    BY <1>1, <2>1 DEF Carriers
<1>3. Carriers(Append(s, x), a) = Carriers(s, a)
  BY <1>2
<1>4. \A i \in Carriers(s, a) : Append(s, x)[i] = s[i]
  BY <1>1 DEF Carriers
<1>5. QED
  BY <1>3, <1>4 DEF Tells

(* A signal with a level of a makes that level the one that is told.        *)
LEMMA OwnSignal ==
  ASSUME NEW s \in Seq(Signals), NEW x \in Signals, x.value # Completed
  PROVE  /\ Tells(Append(s, x), x.source, x.value)
         /\ Carriers(Append(s, x), x.source) # {}
<1>1. /\ Len(Append(s, x)) = Len(s) + 1 /\ Len(s) \in Nat
      /\ Append(s, x)[Len(s) + 1] = x
  BY AppendProperties, LenProperties
<1>2. Len(s) + 1 \in Carriers(Append(s, x), x.source)
  BY <1>1 DEF Carriers
<1>3. ASSUME NEW i \in Carriers(Append(s, x), x.source),
             \A j \in Carriers(Append(s, x), x.source) : j <= i
      PROVE  Append(s, x)[i].value = x.value
  <2>1. i \in 1 .. Len(s) + 1 /\ Len(s) + 1 <= i
    BY <1>1, <1>2, <1>3 DEF Carriers
  <2>2. i = Len(s) + 1
    BY <1>1, <2>1
  <2>3. QED
    BY <1>1, <2>2
<1>4. QED
  BY <1>2, <1>3 DEF Tells

(* What is told does not change when the first signal is taken; if it was   *)
(* the only one with a level of a, that level was told.                     *)
LEMMA FirstSignal ==
  ASSUME NEW s \in Seq(Signals), s # <<>>, NEW a, NEW v, Tells(s, a, v)
  PROVE  /\ Tells(Tail(s), a, v)
         /\ Carriers(Tail(s), a) = {} =>
              IF Head(s).source = a /\ Head(s).value # Completed
              THEN Head(s).value = v ELSE Carriers(s, a) = {}
<1>1. /\ Len(s) \in Nat /\ Len(s) >= 1
      /\ Tail(s) \in Seq(Signals) /\ Len(Tail(s)) = Len(s) - 1 /\ Head(s) = s[1]
      /\ \A k \in 1 .. Len(Tail(s)) : Tail(s)[k] = s[k + 1]
  BY LenProperties, EmptySeq, HeadTailProperties
<1>2. ASSUME NEW i \in Carriers(Tail(s), a)
      PROVE  i \in 1 .. Len(s) - 1 /\ i + 1 \in Carriers(s, a) /\ Tail(s)[i] = s[i + 1]
  BY <1>1 DEF Carriers
<1>3. ASSUME NEW i \in Carriers(s, a), i # 1
      PROVE  i \in 2 .. Len(s) /\ i - 1 \in Carriers(Tail(s), a)
  <2>1. i \in 1 .. Len(s) /\ i - 1 \in 1 .. Len(s) - 1 /\ (i - 1) + 1 = i
    BY <1>1, <1>3 DEF Carriers
  <2>2. Tail(s)[i - 1] = s[i]
    BY <1>1, <2>1
  <2>3. QED
    BY <1>1, <1>3, <2>1, <2>2 DEF Carriers
<1>4. ASSUME NEW i \in Carriers(Tail(s), a), \A j \in Carriers(Tail(s), a) : j <= i
      PROVE  Tail(s)[i].value = v
  <2>1. ASSUME NEW j \in Carriers(s, a) PROVE j <= i + 1
    <3>1. CASE j = 1
      BY <1>1, <1>2, <3>1
    <3>2. CASE j # 1
      <4>1. j - 1 <= i /\ j \in 2 .. Len(s) /\ i \in 1 .. Len(s) - 1
        BY <1>2, <1>3, <1>4, <3>2
      <4>2. QED
        BY <1>1, <4>1
    <3>3. QED
      BY <3>1, <3>2
  <2>2. QED
    BY <1>2, <2>1 DEF Tells
<1>5. ASSUME Carriers(Tail(s), a) = {}
      PROVE  IF Head(s).source = a /\ Head(s).value # Completed
             THEN Head(s).value = v ELSE Carriers(s, a) = {}
  <2>1. \A i \in Carriers(s, a) : i = 1
    BY <1>3, <1>5
  <2>2. 1 \in Carriers(s, a) <=> Head(s).source = a /\ Head(s).value # Completed
    BY <1>1 DEF Carriers
  <2>3. ASSUME 1 \in Carriers(s, a) PROVE Head(s).value = v
    <3>1. \A j \in Carriers(s, a) : j <= 1
      BY <2>1
    <3>2. QED
      BY <1>1, <2>3, <3>1 DEF Tells
  <2>4. QED
    BY <2>1, <2>2, <2>3
<1>6. QED
  BY <1>4, <1>5 DEF Tells
-----------------------------------------------------------------------------
(* Off, dark and full are levels, and so is what the slider can stand at.   *)
LEMMA LevelFacts ==
  /\ Off \in Levels /\ 0 \in Levels /\ MaxValue \in Levels /\ Preferred \in Levels
  /\ \A v \in 0 .. MaxValue : v \in Levels
  /\ \A v \in Levels : v # Completed
  BY MaxValueAssumption, ControlWidgetAssumption DEF Levels, Off, Completed

(* What a click shows is a level: it stops at both ends.                    *)
LEMMA ClickedLevels ==
  ASSUME unit \in Levels, before \in Levels
  PROVE  /\ Toggled \in Levels /\ OnLevel \in Levels
         /\ \A b \in BOOLEAN : Nudged(b) \in Levels
<1>1. Toggled \in Levels
  BY LevelFacts DEF Toggled
<1>2. OnLevel \in Levels
  BY <1>1, LevelFacts DEF OnLevel
<1>3. ASSUME NEW b \in BOOLEAN PROVE Nudged(b) \in Levels
  <2> DEFINE v == IF unit = Off THEN MaxValue ELSE unit
  <2>1. v \in Levels
    BY LevelFacts
  <2>2. Nudged(b) = IF v = (IF b THEN MaxValue ELSE 0) THEN v ELSE v + (IF b THEN 1 ELSE -1)
    BY DEF Nudged
  <2> HIDE DEF v
  <2>3. v # Off
    BY MaxValueAssumption DEF v, Off
  <2>4. CASE b = TRUE
    BY <2>1, <2>2, <2>3, <2>4, MaxValueAssumption DEF Levels, Off
  <2>5. CASE b = FALSE
    BY <2>1, <2>2, <2>3, <2>5, MaxValueAssumption DEF Levels, Off
  <2>6. QED
    BY <2>4, <2>5
<1>4. QED
  BY <1>1, <1>2, <1>3

(* A job is a command.                                                      *)
LEMMA JobType ==
  ASSUME address \in Addresses, NEW op \in LevelOps \cup {"SET"}, NEW v \in Levels
  PROVE  Job(op, v) \in Commands
  BY DEF Job, Commands

(* The effect of a command to the unit on the control's variables.          *)
LEMMA SetUnitToTypes ==
  ASSUME TypeOK, NEW v \in Levels, setUnitTo(v)
  PROVE  /\ unit' \in Levels /\ suspend' \in BOOLEAN /\ autoOff' \in BOOLEAN
         /\ jobs' \in Seq(Commands)
<1>1. unit' = v /\ suspend' = TRUE /\ jobs' = Append(jobs, Job("SET", v)) /\ checkTimer(v)
  BY DEF setUnitTo
<1>2. Job("SET", v) \in Commands
  BY JobType DEF TypeOK
<1>3. jobs' \in Seq(Commands)
  BY <1>1, <1>2, AppendProperties DEF TypeOK
<1>4. autoOff' \in BOOLEAN
  BY <1>1 DEF checkTimer
<1>5. QED
  BY <1>1, <1>3, <1>4

(* An act is counted up to the bound.                                       *)
LEMMA ActType ==
  ASSUME acts \in 0 .. MaxActs, Act
  PROVE  acts' \in 0 .. MaxActs
  BY ControlWidgetAssumption DEF Act

(* The level that a command served leaves, and whether it is the last.      *)
LEMMA NextTypes ==
  ASSUME NEW v \in Levels, NEW c \in Commands,
         NEW next, next = IF c.op = "SET" THEN GetNextCommand(v, c.arg) ELSE Emit(c.op, 1)
  PROVE  /\ next.steps \in Nat
         /\ next.steps # 0 => Applied(v, next.op) \in Levels
         /\ c.op # "SET" => next.steps = 1
<1>1. CASE c.op = "SET"
  <2>1. c.arg \in Levels
    BY DEF Commands
  <2>2. next.steps \in Nat /\ next.op \in LevelOps \cup {"NONE"}
        /\ (next.steps = 0 <=> next.op = "NONE")
    BY <1>1, <2>1, StepsCount
  <2>3. next.steps # 0 => next.op \in SentOps
    BY <2>2 DEF SentOps
  <2>4. QED
    BY <1>1, <2>2, <2>3, AppliedInRange
<1>2. CASE c.op # "SET"
  <2>1. next.steps = 1 /\ next.op = c.op
    BY <1>2 DEF Emit
  <2>2. c.op \in SentOps
    BY <1>2 DEF Commands, SentOps
  <2>3. QED
    BY <2>1, <2>2, AppliedInRange
<1>3. QED
  BY <1>1, <1>2

(* A signal list that grows by a level, with or without the completion of   *)
(* the command before or behind it, tells that level and nothing else new.  *)
LEMMA Announcement ==
  ASSUME signals \in Seq(Signals), NEW b \in Addresses, NEW v \in Levels,
         NEW told, told = <<>> \/ told = <<CommandCompleted(b)>>,
         NEW sent, sent = <<>> \/ sent = <<CommandCompleted(b)>>
  PROVE  LET s == signals \o told \o <<SourceUpdated(b, v)>> \o sent
         IN  /\ s \in Seq(Signals)
             /\ Tells(s, b, v) /\ Carriers(s, b) # {}
             /\ \A a \in Addresses, w \in Levels : a # b =>
                  /\ Carriers(s, a) = Carriers(signals, a)
                  /\ Tells(signals, a, w) => Tells(s, a, w)
<1> DEFINE s1 == signals \o told
           s2 == s1 \o <<SourceUpdated(b, v)>>
           s3 == s2 \o sent
           x == CommandCompleted(b)
           y == SourceUpdated(b, v)
<1>1. x \in Signals /\ y \in Signals /\ x.value = Completed
      /\ y.source = b /\ y.value = v /\ v # Completed
  BY LevelFacts DEF CommandCompleted, SourceUpdated, Signals
<1>2. \A s \in Seq(Signals) : \A z \in Signals : s \o <<z>> = Append(s, z) /\ s \o <<z>> \in Seq(Signals)
  <2>1. ASSUME NEW s \in Seq(Signals), NEW z \in Signals
        PROVE  s \o <<z>> = Append(s, z) /\ Append(s, z) \in Seq(Signals)
    BY AppendProperties, AppendIsConcat
  <2>2. QED
    BY <2>1
<1>3. \A s \in Seq(Signals) : s \o <<>> = s
  BY ConcatEmptySeq
<1>4. s1 = signals \/ s1 = Append(signals, x)
  BY <1>1, <1>2, <1>3
<1>5. s1 \in Seq(Signals)
  BY <1>1, <1>2, <1>4
<1>6. s2 = Append(s1, y) /\ s2 \in Seq(Signals)
  BY <1>1, <1>2, <1>5
<1>7. s3 = s2 \/ s3 = Append(s2, x)
  BY <1>1, <1>2, <1>3, <1>6
<1>8. s3 \in Seq(Signals)
  BY <1>1, <1>2, <1>6, <1>7
<1> HIDE DEF s1, s2, s3, x, y
<1>9. Tells(s2, b, v) /\ Carriers(s2, b) # {}
  BY <1>1, <1>5, <1>6, OwnSignal
<1>10. Tells(s3, b, v) /\ Carriers(s3, b) # {}
  <2>1. CASE s3 = s2
    BY <1>9, <2>1
  <2>2. CASE s3 = Append(s2, x)
    BY <1>1, <1>6, <1>9, <2>2, OtherSignal
  <2>3. QED
    BY <1>7, <2>1, <2>2
<1>11. ASSUME NEW a \in Addresses, NEW w \in Levels, a # b
       PROVE  /\ Carriers(s3, a) = Carriers(signals, a)
              /\ Tells(signals, a, w) => Tells(s3, a, w)
  <2>1. Carriers(s1, a) = Carriers(signals, a) /\ (Tells(signals, a, w) => Tells(s1, a, w))
    <3>1. CASE s1 = signals
      BY <3>1
    <3>2. CASE s1 = Append(signals, x)
      BY <1>1, <3>2, OtherSignal
    <3>3. QED
      BY <1>4, <3>1, <3>2
  <2>2. Carriers(s2, a) = Carriers(s1, a) /\ (Tells(s1, a, w) => Tells(s2, a, w))
    BY <1>1, <1>5, <1>6, <1>11, OtherSignal
  <2>3. Carriers(s3, a) = Carriers(s2, a) /\ (Tells(s2, a, w) => Tells(s3, a, w))
    <3>1. CASE s3 = s2
      BY <3>1
    <3>2. CASE s3 = Append(s2, x)
      BY <1>1, <1>6, <3>2, OtherSignal
    <3>3. QED
      BY <1>7, <3>1, <3>2
  <2>4. QED
    BY <2>1, <2>2, <2>3
<1>12. s3 = signals \o told \o <<SourceUpdated(b, v)>> \o sent
  BY DEF s1, s2, s3
<1>13. QED
  BY <1>8, <1>10, <1>11, <1>12

(* One turn of the worker, in the terms of the invariants: with n = 0 the   *)
(* level is the one asked for and nothing is announced.                     *)
LEMMA ServeEffect ==
  ASSUME TypeOK, Serve
  PROVE  \E c \in Commands, n \in Nat, v \in Levels :
           /\ c = Head(queue) /\ queue # <<>> /\ up
           /\ level' = [level EXCEPT ![c.source] = v]
           /\ queue' = IF n <= 1 THEN Tail(queue)
                       ELSE [queue EXCEPT ![1] = [c EXCEPT !.notified = TRUE]]
           /\ c.op # "SET" => n = 1
           /\ n = 0 => v = level[c.source] /\ signals' = signals /\ forgot' = forgot
           /\ n # 0 => /\ signals' \in Seq(Signals)
                       /\ forgot' = forgot \ {c.source}
                       /\ Tells(signals', c.source, v)
                       /\ Carriers(signals', c.source) # {}
                       /\ \A a \in Addresses, w \in Levels : a # c.source =>
                            /\ Carriers(signals', a) = Carriers(signals, a)
                            /\ Tells(signals, a, w) => Tells(signals', a, w)
<1> DEFINE c    == Head(queue)
           next == IF c.op = "SET" THEN GetNextCommand(level[c.source], c.arg)
                   ELSE Emit(c.op, 1)
           v    == IF next.steps = 0 THEN level[c.source] ELSE Applied(level[c.source], next.op)
           told == IF c.op = "SET" /\ ~c.notified THEN <<CommandCompleted(c.source)>> ELSE <<>>
           sent == IF c.op # "SET" THEN <<CommandCompleted(c.source)>> ELSE <<>>
<1>1. up /\ queue # <<>> /\ queue \in Seq(Commands) /\ signals \in Seq(Signals)
      /\ level \in [Addresses -> Levels]
  BY DEF Serve, TypeOK
<1>2. c \in Commands /\ c = queue[1]
  BY <1>1, HeadTailProperties
<1>3. c.source \in Addresses /\ level[c.source] \in Levels
  BY <1>1, <1>2 DEF Commands
<1>4. /\ level' = [level EXCEPT ![c.source] = v]
      /\ queue' = IF next.steps <= 1 THEN Tail(queue)
                  ELSE [queue EXCEPT ![1].notified = TRUE]
      /\ signals' = IF next.steps = 0 THEN signals
                    ELSE signals \o told \o <<SourceUpdated(c.source, v)>> \o sent
      /\ forgot' = IF next.steps = 0 THEN forgot ELSE forgot \ {c.source}
  BY Zenon DEF Serve
<1>5. [queue EXCEPT ![1].notified = TRUE] = [queue EXCEPT ![1] = [c EXCEPT !.notified = TRUE]]
  BY <1>2
<1>6. /\ next.steps \in Nat
      /\ next.steps # 0 => Applied(level[c.source], next.op) \in Levels
      /\ c.op # "SET" => next.steps = 1
  <2> HIDE DEF c
  <2>1. QED
    BY <1>2, <1>3, NextTypes
<1>7. v \in Levels /\ (next.steps = 0 => v = level[c.source])
  <2> HIDE DEF c, next
  <2>1. QED
    BY <1>3, <1>6
<1>8. told = <<>> \/ told = <<CommandCompleted(c.source)>>
  OBVIOUS
<1>9. sent = <<>> \/ sent = <<CommandCompleted(c.source)>>
  OBVIOUS
<1> HIDE DEF c, next, v, told, sent
<1>10. ASSUME next.steps # 0
       PROVE  /\ signals' \in Seq(Signals)
              /\ Tells(signals', c.source, v)
              /\ Carriers(signals', c.source) # {}
              /\ \A a \in Addresses, w \in Levels : a # c.source =>
                   /\ Carriers(signals', a) = Carriers(signals, a)
                   /\ Tells(signals, a, w) => Tells(signals', a, w)
  <2> DEFINE s == signals \o told \o <<SourceUpdated(c.source, v)>> \o sent
  <2>1. signals' = s
    BY <1>4, <1>10, Zenon
  <2>2. /\ s \in Seq(Signals)
        /\ Tells(s, c.source, v) /\ Carriers(s, c.source) # {}
        /\ \A a \in Addresses, w \in Levels : a # c.source =>
             /\ Carriers(s, a) = Carriers(signals, a)
             /\ Tells(signals, a, w) => Tells(s, a, w)
    BY <1>1, <1>3, <1>7, <1>8, <1>9, Announcement, Zenon
  <2> HIDE DEF s
  <2>3. QED
    BY <2>1, <2>2, Zenon
<1> DEFINE n == next.steps
<1>11. n \in Nat /\ (c.op # "SET" => n = 1)
  BY <1>6
<1>12. /\ queue' = IF n <= 1 THEN Tail(queue)
                   ELSE [queue EXCEPT ![1] = [c EXCEPT !.notified = TRUE]]
       /\ n = 0 => v = level[c.source] /\ signals' = signals /\ forgot' = forgot
       /\ n # 0 => forgot' = forgot \ {c.source}
  BY <1>4, <1>5, <1>7
<1>13. c = Head(queue)
  BY DEF c
<1> HIDE DEF n
<1>14. n # 0 => next.steps # 0
  BY DEF n
<1>15. QED
  BY <1>1, <1>2, <1>4, <1>7, <1>10, <1>11, <1>12, <1>13, <1>14, Zenon
-----------------------------------------------------------------------------
(* The types.                                                              *)

(* The initial state has the types.                                         *)
LEMMA InitTypes ==
  ASSUME Init
  PROVE  TypeOK
<1>1. unit \in Levels /\ before \in Levels /\ received \in Levels
  BY LevelFacts DEF Init
<1>2. address \in Addresses /\ appliance \in BOOLEAN /\ period \in BOOLEAN
  BY ControlWidgetAssumption DEF Init
<1>3. level \in [Addresses -> Levels]
  BY ControlWidgetAssumption DEF Init
<1>4. cache \in Levels
  BY <1>2, <1>3 DEF Init
<1>5. jobs \in Seq(Commands) /\ queue \in Seq(Commands) /\ signals \in Seq(Signals)
  BY EmptySeq DEF Init
<1>6. acts \in 0 .. MaxActs
  BY ControlWidgetAssumption DEF Init
<1>7. QED
  BY <1>1, <1>2, <1>3, <1>4, <1>5, <1>6 DEF Init, TypeOK

(* What the user does keeps the types.                                      *)
LEMMA UserTypes ==
  ASSUME TypeOK, User
  PROVE  TypeOK'
<1>1. acts' \in 0 .. MaxActs
  BY ActType DEF TypeOK, User, sliderMoved, pushOnOff, AllOn, AllOff, on_pushDirection,
     setSwitchOffPeriodMn, setUnit
<1>2. ASSUME NEW w \in Levels, setUnitTo(w), before' \in Levels,
             UNCHANGED <<address, appliance, period, received, cache, dirty, service,
                         dropped, forgot>>
      PROVE  TypeOK'
  BY <1>1, <1>2, SetUnitToTypes DEF TypeOK, service
<1>3. CASE sliderMoved
  <2>1. PICK w \in 0 .. MaxValue : setUnitTo(w)
    BY <1>3, Zenon DEF sliderMoved
  <2>2. w \in Levels
    BY LevelFacts
  <2>3. before' \in Levels
    BY <1>3 DEF sliderMoved, TypeOK
  <2>4. UNCHANGED <<address, appliance, period, received, cache, dirty, service, dropped, forgot>>
    BY <1>3, Zenon DEF sliderMoved
  <2>5. QED
    BY <1>2, <2>1, <2>2, <2>3, <2>4
<1>4. ASSUME NEW b \in BOOLEAN, on_pushOnOff(b) PROVE TypeOK'
  <2> DEFINE w == IF unit = Off THEN OnLevel ELSE Toggled
  <2>1. w \in Levels
    BY ClickedLevels DEF TypeOK
  <2>2. setUnitTo(w)
    BY <1>4, Zenon DEF on_pushOnOff
  <2>3. before' \in Levels
    BY <1>4 DEF on_pushOnOff, TypeOK
  <2>4. UNCHANGED <<address, appliance, period, received, cache, dirty, service, dropped, forgot>>
    BY <1>4, Zenon DEF on_pushOnOff
  <2> HIDE DEF w
  <2>5. QED
    BY <1>2, <2>1, <2>2, <2>3, <2>4
<1>5. CASE on_pushDirection
  <2>1. PICK b \in BOOLEAN :
          /\ unit' = Nudged(b)
          /\ jobs' = Append(jobs, Job(IF b THEN "BRIGHT" ELSE "DIM", Off))
          /\ checkTimer(Nudged(b))
    BY <1>5, Zenon DEF on_pushDirection
  <2>2. unit' \in Levels
    BY <2>1, ClickedLevels DEF TypeOK
  <2>3. (IF b THEN "BRIGHT" ELSE "DIM") \in LevelOps \cup {"SET"}
    BY DEF LevelOps
  <2>4. Job(IF b THEN "BRIGHT" ELSE "DIM", Off) \in Commands
    BY <2>3, JobType, LevelFacts DEF TypeOK
  <2>5. jobs' \in Seq(Commands)
    BY <2>1, <2>4, AppendProperties DEF TypeOK
  <2>6. autoOff' \in BOOLEAN
    BY <2>1 DEF checkTimer
  <2>7. QED
    BY <1>1, <1>5, <2>2, <2>5, <2>6 DEF on_pushDirection, TypeOK, service
<1>6. CASE setSwitchOffPeriodMn
  <2>1. period' \in BOOLEAN /\ autoOff' \in BOOLEAN
    BY <1>6 DEF setSwitchOffPeriodMn
  <2>2. QED
    BY <1>1, <1>6, <2>1 DEF setSwitchOffPeriodMn, TypeOK, engine, service
<1>7. CASE setUnit
  <2>1. PICK a \in Addresses \ {address} : address' = a /\ addX10Source(a)
    BY <1>7, Zenon DEF setUnit
  <2>2. cache' \in Levels
    BY <2>1, LevelFacts DEF addX10Source, FetchValue, TypeOK
  <2>3. signals' \in Seq(Signals)
    BY <2>1, EmptySeq DEF addX10Source, FetchValue, TypeOK
  <2>4. forgot' \subseteq Addresses /\ dirty' = TRUE
    BY <2>1 DEF addX10Source, FetchValue, TypeOK
  <2>5. QED
    BY <1>1, <1>7, <2>1, <2>2, <2>3, <2>4 DEF setUnit, TypeOK
<1>8. QED
  BY <1>3, <1>4, <1>5, <1>6, <1>7, Zenon DEF User, pushOnOff, AllOn, AllOff

(* Timers and updates keep the types.                                       *)
LEMMA UpdateTypes ==
  ASSUME TypeOK, Timers \/ dataUpdated
  PROVE  TypeOK'
<1>1. CASE on_timerSwitchOff
  <2>1. CASE unit # Off
    <3>1. setUnitTo(Off)
      BY <1>1, <2>1 DEF on_timerSwitchOff
    <3>2. QED
      BY <1>1, <3>1, SetUnitToTypes, LevelFacts DEF on_timerSwitchOff, TypeOK, service
  <2>2. CASE unit = Off
    BY <1>1, <2>2 DEF on_timerSwitchOff, TypeOK, service
  <2>3. QED
    BY <2>1, <2>2
<1>2. CASE on_timerEndSuspendUpdate
  <2>1. autoOff' \in BOOLEAN
    BY <1>2 DEF on_timerEndSuspendUpdate
  <2>2. QED
    BY <1>2, <2>1 DEF on_timerEndSuspendUpdate, TypeOK, engine, service
<1>3. CASE dataUpdated
  <2>1. unit' \in Levels
    BY <1>3 DEF dataUpdated, TypeOK
  <2>2. suspend' \in BOOLEAN /\ dropped' \in BOOLEAN /\ autoOff' \in BOOLEAN
    BY <1>3 DEF dataUpdated, TypeOK
  <2>3. QED
    BY <1>3, <2>1, <2>2 DEF dataUpdated, TypeOK, service
<1>4. QED
  BY <1>1, <1>2, <1>3 DEF Timers

(* A command that reaches the service keeps the types.                      *)
LEMMA AcceptedTypes ==
  ASSUME TypeOK, StartJob \/ JobFails \/ OtherClient
  PROVE  TypeOK'
<1>1. ASSUME jobs # <<>>
      PROVE  Head(jobs) \in Commands /\ Tail(jobs) \in Seq(Commands)
  BY <1>1, HeadTailProperties DEF TypeOK
<1>2. CASE StartJob
  <2>1. queue' = Accepted(Head(jobs)) /\ jobs # <<>> /\ jobs' = Tail(jobs)
    BY <1>2, Zenon DEF StartJob
  <2>2. queue' \in Seq(Commands) /\ jobs' \in Seq(Commands)
    BY <1>1, <2>1, AcceptedProperties DEF TypeOK
  <2>3. dropped' \in BOOLEAN /\ up' \in BOOLEAN
    BY <1>2 DEF StartJob
  <2>4. QED
    BY <1>2, <2>2, <2>3 DEF StartJob, TypeOK, control
<1>3. CASE JobFails
  <2>1. jobs' \in Seq(Commands)
    BY <1>1, <1>3 DEF JobFails
  <2>2. dropped' \in BOOLEAN /\ signals' \in Seq(Signals)
    BY <1>3, EmptySeq DEF JobFails
  <2>3. QED
    BY <1>3, <2>1, <2>2 DEF JobFails, TypeOK, control
<1>4. CASE OtherClient
  <2>1. acts' \in 0 .. MaxActs
    BY <1>4, ActType DEF TypeOK, OtherClient
  <2>2. PICK a \in Addresses, o \in OtherOps :
          LET c == [source |-> a, op |-> o.op, arg |-> o.arg, own |-> FALSE, notified |-> FALSE]
          IN  /\ queue' = Accepted(c)
              /\ dropped' = (dropped \/ Loses(c))
    BY <1>4, Zenon DEF OtherClient
  <2> DEFINE c == [source |-> a, op |-> o.op, arg |-> o.arg, own |-> FALSE, notified |-> FALSE]
  <2>3. c \in Commands
    BY ControlWidgetAssumption DEF Commands
  <2>4. queue' = Accepted(c) /\ dropped' = (dropped \/ Loses(c))
    BY <2>2
  <2> HIDE DEF c
  <2>5. queue' \in Seq(Commands)
    BY <2>3, <2>4, AcceptedProperties DEF TypeOK
  <2>6. dropped' \in BOOLEAN
    BY <2>4
  <2>7. QED
    BY <1>4, <2>1, <2>5, <2>6 DEF OtherClient, TypeOK, control, engine
<1>5. QED
  BY <1>2, <1>3, <1>4

(* The worker, remotes, the end of the process and the delivery of signals  *)
(* keep the types.                                                          *)
LEMMA ServiceTypes ==
  ASSUME TypeOK, Serve \/ Receive \/ Exit \/ Dispatch
  PROVE  TypeOK'
<1>1. CASE Serve
  <2>1. PICK c \in Commands, n \in Nat, v \in Levels :
           /\ c = Head(queue) /\ queue # <<>> /\ up
           /\ level' = [level EXCEPT ![c.source] = v]
           /\ queue' = IF n <= 1 THEN Tail(queue)
                       ELSE [queue EXCEPT ![1] = [c EXCEPT !.notified = TRUE]]
           /\ n = 0 => v = level[c.source] /\ signals' = signals /\ forgot' = forgot
           /\ n # 0 => /\ signals' \in Seq(Signals)
                       /\ forgot' = forgot \ {c.source}
    BY <1>1, ServeEffect, Zenon
  <2>2. level' \in [Addresses -> Levels]
    BY <2>1 DEF TypeOK, Commands
  <2>3. queue \in Seq(Commands) /\ Len(queue) \in Nat /\ queue # <<>>
    BY <2>1, LenProperties DEF TypeOK
  <2>4. 1 \in 1 .. Len(queue)
    BY <2>3, EmptySeq, LenProperties
  <2>5. [c EXCEPT !.notified = TRUE] \in Commands
    BY <2>1 DEF Commands
  <2>6. queue' \in Seq(Commands)
    <3>1. Tail(queue) \in Seq(Commands)
      BY <2>3, HeadTailProperties
    <3>2. [queue EXCEPT ![1] = [c EXCEPT !.notified = TRUE]] \in Seq(Commands)
      BY <2>3, <2>4, <2>5, ExceptSeq
    <3>3. QED
      BY <2>1, <3>1, <3>2
  <2>7. signals' \in Seq(Signals)
    BY <2>1 DEF TypeOK
  <2>8. forgot' \subseteq Addresses
    BY <2>1 DEF TypeOK
  <2>9. UNCHANGED <<control, engine, up, acts, dropped>>
    BY <1>1, Zenon DEF Serve
  <2>10. QED
    BY <2>2, <2>6, <2>7, <2>8, <2>9 DEF TypeOK, control, engine
<1>2. CASE Receive
  <2>1. PICK a \in Addresses, op \in RemoteOps :
          LET v == Heard(level[a], op)
          IN  /\ v # level[a]
              /\ level' = [level EXCEPT ![a] = v]
              /\ signals' = Append(signals, SourceUpdated(a, v))
              /\ forgot' = forgot \ {a}
    BY <1>2, Zenon DEF Receive
  <2>2. Heard(level[a], op) \in Levels
    BY SentAsHeard, AppliedInRange, ControlWidgetAssumption DEF TypeOK, SentOps
  <2>3. level' \in [Addresses -> Levels]
    BY <2>1, <2>2 DEF TypeOK
  <2>4. SourceUpdated(a, Heard(level[a], op)) \in Signals
    BY <2>2 DEF SourceUpdated, Signals
  <2>5. signals' \in Seq(Signals)
    BY <2>1, <2>4, AppendProperties DEF TypeOK
  <2>6. forgot' \subseteq Addresses /\ acts' \in 0 .. MaxActs
    BY <1>2, <2>1, ActType DEF TypeOK, Receive
  <2>7. UNCHANGED <<control, engine, up, queue, dropped>>
    BY <1>2, Zenon DEF Receive
  <2>8. QED
    BY <2>3, <2>5, <2>6, <2>7 DEF TypeOK, control, engine
<1>3. CASE Exit
  <2>1. acts' \in 0 .. MaxActs
    BY <1>3, ActType DEF TypeOK, Exit
  <2>2. level' \in [Addresses -> Levels] /\ queue' \in Seq(Commands)
    BY <1>3, LevelFacts, EmptySeq DEF Exit
  <2>3. up' \in BOOLEAN /\ dropped' \in BOOLEAN /\ forgot' \subseteq Addresses
    BY <1>3 DEF Exit
  <2>4. UNCHANGED <<control, engine, signals>>
    BY <1>3, Zenon DEF Exit
  <2>5. QED
    BY <2>1, <2>2, <2>3, <2>4 DEF TypeOK, control, engine
<1>4. CASE Dispatch
  <2>1. signals # <<>> /\ signals' = Tail(signals)
        /\ UNCHANGED <<control, jobs, up, level, queue, acts, dropped, forgot>>
    BY <1>4, Zenon DEF Dispatch
  <2>2. signals' \in Seq(Signals) /\ Head(signals) \in Signals
    BY <2>1, HeadTailProperties DEF TypeOK
  <2>3. \/ Head(signals).value # Completed /\ onSourceUpdated(Head(signals))
        \/ Head(signals).value = Completed /\ onCommandCompleted(Head(signals))
    BY <1>4, Zenon DEF Dispatch
  <2>4. cache' \in Levels
    BY <2>2, <2>3 DEF onSourceUpdated, SetValue, onCommandCompleted, TypeOK, Signals
  <2>5. dirty' \in BOOLEAN
    BY <2>3 DEF onSourceUpdated, SetValue, onCommandCompleted, TypeOK
  <2>6. QED
    BY <2>1, <2>2, <2>4, <2>5 DEF TypeOK, control
<1>5. QED
  BY <1>1, <1>2, <1>3, <1>4

(* Every variable keeps its type: the display never leaves -1..MAX_VALUE,   *)
(* however often DIM and BRIGHT are clicked, and neither does the engine's  *)
(* copy of the level.                                                       *)
THEOREM TypeCorrect == Spec => []TypeOK
<1>1. ASSUME TypeOK, UNCHANGED vars PROVE TypeOK'
  BY <1>1 DEF TypeOK, vars, control, engine, service
<1>2. TypeOK /\ [Next]_vars => TypeOK'
  BY <1>1, UserTypes, UpdateTypes, AcceptedTypes, ServiceTypes DEF Next, Others
<1>3. QED
  BY InitTypes, <1>2, PTL DEF Spec
-----------------------------------------------------------------------------
(* The pipeline.                                                           *)

(* The invariants in the terms of Carriers and Tells, before a step and     *)
(* after it.                                                                *)
LEMMA InTheseTerms ==
  ASSUME TypeOK
  PROVE  /\ \A a : Announced(a) = Carriers(signals, a)
         /\ ServiceInv <=>
              /\ ~up => forgot = Addresses
              /\ \A a \in Addresses \ forgot : Tells(signals, a, level[a])
         /\ EngineFollows <=>
              (address \notin forgot =>
                 /\ Tells(signals, address, level[address])
                 /\ Carriers(signals, address) = {} => cache = level[address])
<1>1. signals \in Seq(Signals) /\ DOMAIN signals = 1 .. Len(signals)
  BY LenProperties DEF TypeOK
<1>2. \A a : Announced(a) = Carriers(signals, a)
  BY <1>1 DEF Announced, Carriers
<1>3. ASSUME NEW a, NEW v
      PROVE  (\A i \in DOMAIN signals : LastAnnounced(a, i) => signals[i].value = v)
               <=> Tells(signals, a, v)
  <2>1. \A i \in Carriers(signals, a) : i \in DOMAIN signals
    BY <1>1 DEF Carriers
  <2>2. QED
    BY <1>2, <2>1, Zenon DEF LastAnnounced, Tells
<1>4. QED
  BY <1>2, <1>3 DEF ServiceInv, EngineFollows

(* The same after a step. *)
LEMMA InTheseTermsAfter ==
  ASSUME TypeOK'
  PROVE  /\ \A a : Announced(a)' = Carriers(signals', a)
         /\ ServiceInv' <=>
              /\ ~up' => forgot' = Addresses
              /\ \A a \in Addresses \ forgot' : Tells(signals', a, level'[a])
         /\ EngineFollows' <=>
              (address' \notin forgot' =>
                 /\ Tells(signals', address', level'[address'])
                 /\ Carriers(signals', address') = {} => cache' = level'[address'])
<1>1. signals' \in Seq(Signals) /\ DOMAIN signals' = 1 .. Len(signals')
  BY LenProperties DEF TypeOK
<1>2. \A a : Announced(a)' = Carriers(signals', a)
  BY <1>1 DEF Announced, Carriers
<1>3. ASSUME NEW a, NEW v
      PROVE  (\A i \in DOMAIN signals' : LastAnnounced(a, i)' => signals'[i].value = v)
               <=> Tells(signals', a, v)
  <2>1. \A i \in Carriers(signals', a) : i \in DOMAIN signals'
    BY <1>1 DEF Carriers
  <2>2. QED
    BY <1>2, <2>1, Zenon DEF LastAnnounced, Tells
<1>4. QED
  BY <1>2, <1>3 DEF ServiceInv, EngineFollows

(* The parts of PipelineInv that the steps are proved for: EngineFollows's   *)
(* first part is one case of ServiceInv.                                     *)
ServiceTold ==
  /\ ~up => forgot = Addresses
  /\ \A a \in Addresses \ forgot : Tells(signals, a, level[a])
EngineTold ==
  address \notin forgot /\ Carriers(signals, address) = {} => cache = level[address]
DisplayTold ==
  /\ dirty \/ received = cache
  /\ \/ unit = cache
     \/ suspend \/ dirty \/ dropped
     \/ address \in forgot \/ Asked \/ Carriers(signals, address) # {}
Told == ServiceTold /\ EngineTold /\ DisplayTold

(* They are PipelineInv, before a step and after it.                         *)
LEMMA PipelineParts ==
  ASSUME TypeOK
  PROVE  PipelineInv <=> Told
<1>1. address \in Addresses
  BY DEF TypeOK
<1>2. DisplayInv <=> DisplayTold
  <2>1. Announced(address) = Carriers(signals, address)
    BY InTheseTerms
  <2>2. QED
    BY <2>1 DEF DisplayInv, DisplayTold
<1>3. ServiceInv <=> ServiceTold
  BY InTheseTerms DEF ServiceTold
<1>4. EngineFollows <=>
        (address \notin forgot =>
           /\ Tells(signals, address, level[address])
           /\ Carriers(signals, address) = {} => cache = level[address])
  BY InTheseTerms
<1>5. ASSUME ServiceTold PROVE EngineFollows <=> EngineTold
  BY <1>1, <1>4, <1>5 DEF ServiceTold, EngineTold
<1>6. QED
  BY <1>2, <1>3, <1>5 DEF PipelineInv, Told

(* ... after a step. *)
LEMMA PipelinePartsAfter ==
  ASSUME TypeOK', Told'
  PROVE  PipelineInv'
<1>1. address' \in Addresses
  BY DEF TypeOK
<1>2. DisplayInv'
  <2>1. Announced(address)' = Carriers(signals', address')
    BY InTheseTermsAfter DEF Announced
  <2>2. Announced(address)' # {} <=> Carriers(signals', address') # {}
    BY <2>1
  <2>3. QED
    BY <2>2 DEF DisplayInv, DisplayTold, Told
<1>3. ServiceInv'
  BY InTheseTermsAfter DEF ServiceTold, Told
<1>4. EngineFollows'
  <2>1. Tells(signals', address', level'[address']) \/ address' \in forgot'
    BY <1>1 DEF ServiceTold, Told
  <2>2. Carriers(signals', address') = {} => cache' = level'[address'] \/ address' \in forgot'
    BY DEF EngineTold, Told
  <2>3. QED
    BY <2>1, <2>2, InTheseTermsAfter
<1>5. QED
  BY <1>2, <1>3, <1>4 DEF PipelineInv

(* A step that leaves alone the signals and the service's levels leaves     *)
(* alone what was told of them.                                             *)
LEMMA ToldUntouched ==
  ASSUME Told, UNCHANGED <<forgot, signals, level, address, cache>>,
         up' = up \/ up' = TRUE
  PROVE  ServiceTold' /\ EngineTold'
  BY DEF Told, ServiceTold, EngineTold

(* A command of the control that is on its way stays on its way when a      *)
(* command reaches the queue, or it is counted as lost.                     *)
LEMMA AskedKept ==
  ASSUME TypeOK, NEW c \in Commands, queue' = Accepted(c), ~Loses(c),
         UNCHANGED <<jobs, address>>, Asked
  PROVE  Asked'
<1>1. queue' \in Seq(Commands) /\ DOMAIN queue' = 1 .. Len(queue')
      /\ DOMAIN queue = 1 .. Len(queue)
  BY AcceptedProperties, LenProperties DEF TypeOK
<1>2. CASE \E i \in DOMAIN jobs : Guess(jobs[i]) /\ jobs[i].source = address
  BY <1>2 DEF Asked
<1>3. CASE \E i \in DOMAIN queue : Guess(queue[i]) /\ queue[i].source = address
  <2>1. PICK i \in 1 .. Len(queue) : Guess(queue[i]) /\ queue[i].source = address
    BY <1>1, <1>3
  <2>2. PICK k \in 1 .. Len(queue') : queue'[k] = queue[i]
    BY <2>1, AcceptedProperties DEF TypeOK
  <2>3. Guess(queue'[k]) /\ queue'[k].source = address'
    BY <2>1, <2>2
  <2>4. QED
    BY <1>1, <2>2, <2>3 DEF Asked
<1>4. QED
  BY <1>2, <1>3 DEF Asked

(* The same when the command is the first of the jobs.                       *)
LEMMA AskedSent ==
  ASSUME TypeOK, jobs # <<>>, queue' = Accepted(Head(jobs)), ~Loses(Head(jobs)),
         jobs' = Tail(jobs), address' = address, Asked
  PROVE  Asked'
<1> DEFINE c == Head(jobs)
<1>1. c \in Commands /\ c = jobs[1] /\ DOMAIN jobs = 1 .. Len(jobs) /\ Len(jobs) \in Nat
      /\ Tail(jobs) \in Seq(Commands) /\ Len(Tail(jobs)) = Len(jobs) - 1
      /\ \A k \in 1 .. Len(Tail(jobs)) : Tail(jobs)[k] = jobs[k + 1]
  BY HeadTailProperties, LenProperties DEF TypeOK
<1>2. queue' \in Seq(Commands) /\ DOMAIN queue' = 1 .. Len(queue')
      /\ DOMAIN queue = 1 .. Len(queue) /\ DOMAIN jobs' = 1 .. Len(jobs) - 1
  BY <1>1, AcceptedProperties, LenProperties DEF TypeOK
<1>3. /\ \A j \in 1 .. Len(queue) : Guess(queue[j]) =>
           \E k \in 1 .. Len(queue') : queue'[k] = queue[j]
      /\ Guess(c) => \E k \in 1 .. Len(queue') : queue'[k] = c
  BY <1>1, AcceptedProperties DEF TypeOK
<1> HIDE DEF c
<1>4. ASSUME NEW d, Guess(d), d.source = address, \E k \in 1 .. Len(queue') : queue'[k] = d
      PROVE  Asked'
  <2>1. PICK k \in 1 .. Len(queue') : queue'[k] = d
    BY <1>4
  <2>2. Guess(queue'[k]) /\ queue'[k].source = address' /\ k \in DOMAIN queue'
    BY <1>2, <1>4, <2>1
  <2>3. QED
    BY <2>2 DEF Asked
<1>5. CASE \E i \in DOMAIN jobs : Guess(jobs[i]) /\ jobs[i].source = address
  <2>1. PICK i \in 1 .. Len(jobs) : Guess(jobs[i]) /\ jobs[i].source = address
    BY <1>1, <1>5
  <2>2. CASE i = 1
    BY <1>1, <1>3, <1>4, <2>1, <2>2
  <2>3. CASE i # 1
    <3>1. i - 1 \in 1 .. Len(jobs) - 1 /\ (i - 1) + 1 = i
      BY <1>1, <2>3
    <3>2. jobs'[i - 1] = jobs[i]
      BY <1>1, <3>1
    <3>3. i - 1 \in DOMAIN jobs' /\ Guess(jobs'[i - 1]) /\ jobs'[i - 1].source = address'
      BY <1>2, <2>1, <3>1, <3>2
    <3>4. QED
      BY <3>3 DEF Asked
  <2>4. QED
    BY <2>2, <2>3
<1>6. CASE \E i \in DOMAIN queue : Guess(queue[i]) /\ queue[i].source = address
  BY <1>2, <1>3, <1>4, <1>6
<1>7. QED
  BY <1>5, <1>6 DEF Asked

(* A command to the unit suspends updates: what is shown is made up for.    *)
LEMMA SetUnitToDisplay ==
  ASSUME Told, NEW v, setUnitTo(v), UNCHANGED <<received, cache, dirty>>
  PROVE  DisplayTold'
<1>1. suspend' = TRUE
  BY DEF setUnitTo
<1>2. dirty' \/ received' = cache'
  BY DEF Told, DisplayTold
<1>3. QED
  BY <1>1, <1>2 DEF DisplayTold

(* What the user does. *)
LEMMA UserKeepsPipeline ==
  ASSUME TypeOK, Told, User
  PROVE  Told'
<1>1. ASSUME NEW v, setUnitTo(v),
             UNCHANGED <<address, received, cache, dirty, up, level, signals, forgot>>
      PROVE  Told'
  BY <1>1, SetUnitToDisplay, ToldUntouched DEF Told
<1>2. CASE sliderMoved
  <2>1. PICK v \in 0 .. MaxValue : setUnitTo(v)
    BY <1>2, Zenon DEF sliderMoved
  <2>2. QED
    BY <1>1, <1>2, <2>1 DEF sliderMoved, service
<1>3. ASSUME NEW b \in BOOLEAN, on_pushOnOff(b) PROVE Told'
  <2>1. setUnitTo(IF unit = Off THEN OnLevel ELSE Toggled)
    BY <1>3, Zenon DEF on_pushOnOff
  <2>2. QED
    BY <1>1, <1>3, <2>1 DEF on_pushOnOff, service
<1>4. CASE on_pushDirection
  <2>1. PICK b \in BOOLEAN : jobs' = Append(jobs, Job(IF b THEN "BRIGHT" ELSE "DIM", Off))
    BY <1>4, Zenon DEF on_pushDirection
  <2> DEFINE c == Job(IF b THEN "BRIGHT" ELSE "DIM", Off)
  <2>2. Guess(c) /\ c.source = address
    BY DEF Job, Guess
  <2>3. (IF b THEN "BRIGHT" ELSE "DIM") \in LevelOps \cup {"SET"}
    BY DEF LevelOps
  <2>4. c \in Commands
    BY <2>3, JobType, LevelFacts DEF TypeOK
  <2> HIDE DEF c
  <2>5. jobs' = Append(jobs, c)
    BY <2>1 DEF c
  <2>6. /\ DOMAIN jobs' = 1 .. Len(jobs) + 1 /\ Len(jobs) + 1 \in 1 .. Len(jobs) + 1
        /\ jobs'[Len(jobs) + 1] = c
    <3>1. jobs \in Seq(Commands) /\ Len(jobs) \in Nat
      BY LenProperties DEF TypeOK
    <3>2. jobs' \in Seq(Commands) /\ Len(jobs') = Len(jobs) + 1 /\ jobs'[Len(jobs) + 1] = c
      BY <2>4, <2>5, <3>1, AppendProperties
    <3>3. QED
      BY <3>1, <3>2, LenProperties
  <2>7. UNCHANGED <<address, received, cache, dirty, up, level, signals, forgot>>
    BY <1>4, Zenon DEF on_pushDirection, service
  <2>8. Asked'
    BY <2>2, <2>6, <2>7 DEF Asked
  <2>9. DisplayTold'
    BY <2>7, <2>8 DEF Told, DisplayTold
  <2>10. QED
    BY <2>7, <2>9, ToldUntouched DEF Told
<1>5. CASE setSwitchOffPeriodMn
  <2>1. UNCHANGED <<unit, address, received, suspend, cache, dirty, jobs, up, level, queue,
                    signals, forgot, dropped>>
    BY <1>5, Zenon DEF setSwitchOffPeriodMn, engine, service
  <2>2. Asked' <=> Asked
    BY <2>1 DEF Asked
  <2>3. DisplayTold'
    BY <2>1, <2>2 DEF Told, DisplayTold
  <2>4. QED
    BY <2>1, <2>3, ToldUntouched DEF Told
<1>6. CASE setUnit
  <2>1. PICK a \in Addresses \ {address} : address' = a /\ addX10Source(a)
    BY <1>6, Zenon DEF setUnit
  <2>2. /\ cache' = IF up THEN level[a] ELSE Off
        /\ signals' = IF up THEN signals ELSE <<>>
        /\ forgot' = IF up /\ Carriers(signals, a) = {} THEN forgot \ {a} ELSE forgot
        /\ dirty' = TRUE
    BY <2>1, InTheseTerms DEF addX10Source, FetchValue
  <2>3. up' = up /\ level' = level
    BY <1>6, Zenon DEF setUnit
  <2>4. DisplayTold'
    BY <2>2 DEF DisplayTold
  <2>5. CASE up
    <3>1. \A b \in Addresses \ forgot' : Tells(signals', b, level'[b])
      <4>1. Carriers(signals, a) = {} => Tells(signals, a, level[a])
        BY DEF Tells
      <4>2. QED
        BY <2>2, <2>3, <2>5, <4>1 DEF Told, ServiceTold
    <3>2. QED
      BY <2>1, <2>2, <2>3, <2>4, <2>5, <3>1 DEF Told, ServiceTold, EngineTold
  <2>6. CASE ~up
    <3>1. forgot' = Addresses
      BY <2>2, <2>6 DEF Told, ServiceTold
    <3>2. QED
      BY <2>1, <2>3, <2>4, <2>6, <3>1 DEF Told, ServiceTold, EngineTold
  <2>7. QED
    BY <2>5, <2>6
<1>7. QED
  BY <1>2, <1>3, <1>4, <1>5, <1>6, Zenon DEF User, pushOnOff, AllOn, AllOff

(* Timers and updates: what is shown after them is the engine's value, or   *)
(* the engine's data are due.                                               *)
LEMMA UpdateKeepsPipeline ==
  ASSUME TypeOK, Told, Timers \/ dataUpdated
  PROVE  Told'
<1>1. UNCHANGED <<forgot, signals, level, address, cache, up>>
  BY Zenon DEF Timers, on_timerSwitchOff, on_timerEndSuspendUpdate, dataUpdated, engine, service
<1>2. ServiceTold' /\ EngineTold'
  BY <1>1, ToldUntouched
<1>3. CASE on_timerSwitchOff
  <2>1. CASE unit # Off
    <3>1. setUnitTo(Off) /\ UNCHANGED <<received, cache, dirty>>
      BY <1>3, <2>1 DEF on_timerSwitchOff
    <3>2. QED
      BY <1>2, <3>1, SetUnitToDisplay DEF Told
  <2>2. CASE unit = Off
    <3>1. UNCHANGED <<unit, suspend, jobs, address, received, cache, dirty, queue, signals,
                      dropped, forgot>>
      BY <1>3, <2>2 DEF on_timerSwitchOff, service
    <3>2. Asked' <=> Asked
      BY <3>1 DEF Asked
    <3>3. DisplayTold'
      BY <3>1, <3>2 DEF Told, DisplayTold
    <3>4. QED
      BY <1>2, <3>3 DEF Told
  <2>3. QED
    BY <2>1, <2>2
<1>4. CASE on_timerEndSuspendUpdate
  <2>1. unit' = received /\ UNCHANGED <<received, cache, dirty>>
    BY <1>4, Zenon DEF on_timerEndSuspendUpdate, engine
  <2>2. DisplayTold'
    BY <2>1 DEF Told, DisplayTold
  <2>3. QED
    BY <1>2, <2>2 DEF Told
<1>5. CASE dataUpdated
  <2>1. received' = cache /\ cache' = cache
    BY <1>5, Zenon DEF dataUpdated
  <2>2. unit' = cache \/ suspend'
    BY <1>5 DEF dataUpdated
  <2>3. DisplayTold'
    BY <2>1, <2>2 DEF DisplayTold
  <2>4. QED
    BY <1>2, <2>3 DEF Told
<1>6. QED
  BY <1>3, <1>4, <1>5 DEF Timers

(* Commands on their way to the queue. *)
LEMMA AcceptedKeepsPipeline ==
  ASSUME TypeOK, Told, StartJob \/ JobFails \/ OtherClient
  PROVE  Told'
<1>1. UNCHANGED <<unit, address, received, suspend, cache, dirty, level, forgot>>
  BY Zenon DEF StartJob, JobFails, OtherClient, control, engine
<1>2. CASE StartJob
  <2>1. /\ jobs # <<>> /\ jobs' = Tail(jobs) /\ queue' = Accepted(Head(jobs))
        /\ dropped' = (dropped \/ Loses(Head(jobs)))
        /\ up' = TRUE /\ signals' = signals
    BY <1>2, Zenon DEF StartJob
  <2>2. Asked /\ ~dropped' => Asked'
    BY <1>1, <2>1, AskedSent
  <2>3. DisplayTold'
    BY <1>1, <2>1, <2>2 DEF Told, DisplayTold
  <2>4. QED
    BY <1>1, <2>1, <2>3, ToldUntouched DEF Told
<1>3. CASE JobFails
  <2>1. ~up /\ up' = up
    BY <1>3, Zenon DEF JobFails
  <2>2. forgot' = Addresses /\ address' \in Addresses
    BY <1>1, <2>1 DEF Told, ServiceTold, TypeOK
  <2>3. DisplayTold'
    BY <1>1, <2>2 DEF Told, DisplayTold
  <2>4. QED
    BY <2>1, <2>2, <2>3 DEF Told, ServiceTold, EngineTold
<1>4. CASE OtherClient
  <2>1. PICK a \in Addresses, o \in OtherOps :
          LET c == [source |-> a, op |-> o.op, arg |-> o.arg, own |-> FALSE, notified |-> FALSE]
          IN  /\ queue' = Accepted(c)
              /\ dropped' = (dropped \/ Loses(c))
    BY <1>4, Zenon DEF OtherClient
  <2> DEFINE c == [source |-> a, op |-> o.op, arg |-> o.arg, own |-> FALSE, notified |-> FALSE]
  <2>2. c \in Commands
    BY ControlWidgetAssumption DEF Commands
  <2>3. queue' = Accepted(c) /\ dropped' = (dropped \/ Loses(c))
    BY <2>1
  <2> HIDE DEF c
  <2>4. jobs' = jobs /\ up' = up /\ signals' = signals
    BY <1>4, Zenon DEF OtherClient, engine
  <2>5. Asked /\ ~dropped' => Asked'
    BY <1>1, <2>2, <2>3, <2>4, AskedKept
  <2>6. DisplayTold'
    BY <1>1, <2>3, <2>4, <2>5 DEF Told, DisplayTold
  <2>7. QED
    BY <1>1, <2>4, <2>6, ToldUntouched DEF Told
<1>5. QED
  BY <1>2, <1>3, <1>4

(* The command at the head leaves the queue, or is marked: what stands      *)
(* behind it stays.                                                         *)
LEMMA AskedBehind ==
  ASSUME TypeOK, queue # <<>>, NEW c \in Commands, NEW n \in Nat,
         queue' = IF n <= 1 THEN Tail(queue)
                  ELSE [queue EXCEPT ![1] = [c EXCEPT !.notified = TRUE]],
         UNCHANGED <<jobs, address>>,
         Asked, ~(Guess(queue[1]) /\ queue[1].source = address)
  PROVE  Asked'
<1>1. /\ queue \in Seq(Commands) /\ DOMAIN queue = 1 .. Len(queue) /\ Len(queue) \in Nat
      /\ Tail(queue) \in Seq(Commands) /\ Len(Tail(queue)) = Len(queue) - 1
      /\ \A k \in 1 .. Len(Tail(queue)) : Tail(queue)[k] = queue[k + 1]
  BY HeadTailProperties, LenProperties DEF TypeOK
<1>2. CASE \E i \in DOMAIN jobs : Guess(jobs[i]) /\ jobs[i].source = address
  BY <1>2 DEF Asked
<1>3. CASE \E i \in DOMAIN queue : Guess(queue[i]) /\ queue[i].source = address
  <2>1. PICK i \in 1 .. Len(queue) : Guess(queue[i]) /\ queue[i].source = address
    BY <1>1, <1>3
  <2>2. i # 1
    BY <2>1
  <2>3. CASE n <= 1
    <3>1. i - 1 \in 1 .. Len(Tail(queue)) /\ (i - 1) + 1 = i
      BY <1>1, <2>2
    <3>2. queue' = Tail(queue) /\ DOMAIN queue' = 1 .. Len(Tail(queue))
      BY <1>1, <2>3, LenProperties
    <3>3. queue'[i - 1] = queue[i]
      BY <1>1, <3>1, <3>2
    <3>4. i - 1 \in DOMAIN queue' /\ Guess(queue'[i - 1]) /\ queue'[i - 1].source = address'
      BY <2>1, <3>1, <3>2, <3>3
    <3>5. QED
      BY <3>4 DEF Asked
  <2>4. CASE ~(n <= 1)
    <3>1. queue' = [queue EXCEPT ![1] = [c EXCEPT !.notified = TRUE]]
      BY <2>4
    <3>2. DOMAIN queue' = DOMAIN queue /\ queue'[i] = queue[i]
      BY <1>1, <2>2, <3>1
    <3>3. i \in DOMAIN queue' /\ Guess(queue'[i]) /\ queue'[i].source = address'
      BY <1>1, <2>1, <3>2
    <3>4. QED
      BY <3>3 DEF Asked
  <2>5. QED
    BY <2>3, <2>4
<1>4. QED
  BY <1>2, <1>3 DEF Asked

(* The worker: a command of the control that is sent is announced.          *)
LEMMA ServeKeepsPipeline ==
  ASSUME TypeOK, Told, Serve
  PROVE  Told'
<1>1. PICK c \in Commands, n \in Nat, v \in Levels :
         /\ c = Head(queue) /\ queue # <<>> /\ up
         /\ level' = [level EXCEPT ![c.source] = v]
         /\ queue' = IF n <= 1 THEN Tail(queue)
                     ELSE [queue EXCEPT ![1] = [c EXCEPT !.notified = TRUE]]
         /\ c.op # "SET" => n = 1
         /\ n = 0 => v = level[c.source] /\ signals' = signals /\ forgot' = forgot
         /\ n # 0 => /\ signals' \in Seq(Signals)
                     /\ forgot' = forgot \ {c.source}
                     /\ Tells(signals', c.source, v)
                     /\ Carriers(signals', c.source) # {}
                     /\ \A a \in Addresses, w \in Levels : a # c.source =>
                          /\ Carriers(signals', a) = Carriers(signals, a)
                          /\ Tells(signals, a, w) => Tells(signals', a, w)
  BY ServeEffect, Zenon
<1>2. UNCHANGED <<unit, address, received, suspend, cache, dirty, jobs, up, dropped>>
  BY Zenon DEF Serve, control, engine
<1>3. /\ level \in [Addresses -> Levels] /\ address \in Addresses /\ c.source \in Addresses
      /\ queue \in Seq(Commands) /\ forgot \subseteq Addresses
  BY <1>1 DEF TypeOK, Commands
<1>4. c = queue[1]
  BY <1>1, <1>3, HeadTailProperties
<1>5. \A a \in Addresses : level'[a] = IF a = c.source THEN v ELSE level[a]
  BY <1>1, <1>3
<1>6. ASSUME ~(Guess(c) /\ c.source = address), Asked PROVE Asked'
  BY <1>1, <1>2, <1>4, <1>6, AskedBehind
<1>7. CASE n = 0
  <2>1. signals' = signals /\ forgot' = forgot /\ \A a \in Addresses : level'[a] = level[a]
    BY <1>1, <1>5, <1>7
  <2>2. ServiceTold' /\ EngineTold'
    BY <1>2, <1>3, <2>1 DEF Told, ServiceTold, EngineTold
  <2>3. ~Guess(c)
    BY <1>1, <1>7 DEF Guess
  <2>4. Asked => Asked'
    BY <1>6, <2>3
  <2>5. DisplayTold'
    BY <1>2, <2>1, <2>4 DEF Told, DisplayTold
  <2>6. QED
    BY <2>2, <2>5 DEF Told
<1>8. CASE n # 0
  <2>1. forgot' = forgot \ {c.source}
    BY <1>1, <1>8
  <2>2. Tells(signals', c.source, v) /\ Carriers(signals', c.source) # {}
    BY <1>1, <1>8
  <2>3. ASSUME NEW a \in Addresses, a # c.source
        PROVE  /\ Carriers(signals', a) = Carriers(signals, a) /\ level'[a] = level[a]
               /\ Tells(signals, a, level[a]) => Tells(signals', a, level'[a])
    <3>1. level[a] \in Levels
      BY <1>3
    <3>2. QED
      BY <1>1, <1>5, <1>8, <2>3, <3>1
  <2>4. \A a \in Addresses \ forgot' : Tells(signals', a, level'[a])
    <3>1. ASSUME NEW a \in Addresses \ forgot' PROVE Tells(signals', a, level'[a])
      <4>1. CASE a = c.source
        BY <1>5, <2>2, <4>1
      <4>2. CASE a # c.source
        <5>1. a \notin forgot
          BY <2>1, <4>2
        <5>2. Tells(signals, a, level[a])
          BY <5>1 DEF Told, ServiceTold
        <5>3. QED
          BY <2>3, <4>2, <5>2
      <4>3. QED
        BY <4>1, <4>2
    <3>2. QED
      BY <3>1
  <2>5. ServiceTold'
    BY <1>1, <1>2, <2>4 DEF ServiceTold
  <2>6. CASE address = c.source
    <3>1. Carriers(signals', address') # {}
      BY <1>2, <2>2, <2>6
    <3>2. EngineTold'
      BY <3>1 DEF EngineTold
    <3>3. DisplayTold'
      BY <1>2, <3>1 DEF Told, DisplayTold
    <3>4. QED
      BY <2>5, <3>2, <3>3 DEF Told
  <2>7. CASE address # c.source
    <3>1. /\ Carriers(signals', address) = Carriers(signals, address)
          /\ level'[address] = level[address] /\ (address \in forgot' <=> address \in forgot)
      BY <1>3, <2>1, <2>3, <2>7
    <3>2. EngineTold'
      BY <1>2, <3>1 DEF Told, EngineTold
    <3>3. Asked => Asked'
      BY <1>6, <2>7
    <3>4. DisplayTold'
      BY <1>2, <3>1, <3>3 DEF Told, DisplayTold
    <3>5. QED
      BY <2>5, <3>2, <3>4 DEF Told
  <2>8. QED
    BY <2>6, <2>7
<1>9. QED
  BY <1>7, <1>8

(* A remote control is announced too. *)
LEMMA ReceiveKeepsPipeline ==
  ASSUME TypeOK, Told, Receive
  PROVE  Told'
<1>1. PICK b \in Addresses, op \in RemoteOps :
        LET v == Heard(level[b], op)
        IN  /\ v # level[b]
            /\ level' = [level EXCEPT ![b] = v]
            /\ signals' = Append(signals, SourceUpdated(b, v))
            /\ forgot' = forgot \ {b}
  BY Zenon DEF Receive
<1> DEFINE v == Heard(level[b], op)
           x == SourceUpdated(b, v)
<1>2. v \in Levels
  BY SentAsHeard, AppliedInRange, ControlWidgetAssumption DEF TypeOK, SentOps
<1>3. level' = [level EXCEPT ![b] = v] /\ signals' = Append(signals, x) /\ forgot' = forgot \ {b}
  BY <1>1
<1> HIDE DEF v
<1>4. x \in Signals /\ x.source = b /\ x.value = v /\ x.value # Completed
  BY <1>2, LevelFacts DEF SourceUpdated, Signals
<1> HIDE DEF x
<1>5. UNCHANGED <<unit, address, received, suspend, cache, dirty, jobs, queue, up, dropped>> /\ up
  BY Zenon DEF Receive, control, engine
<1>6. /\ level \in [Addresses -> Levels] /\ address \in Addresses
      /\ signals \in Seq(Signals) /\ forgot \subseteq Addresses
  BY DEF TypeOK
<1>7. Tells(signals', b, v) /\ Carriers(signals', b) # {}
  BY <1>3, <1>4, <1>6, OwnSignal
<1>8. ASSUME NEW a \in Addresses, a # b
      PROVE  /\ Carriers(signals', a) = Carriers(signals, a) /\ level'[a] = level[a]
             /\ Tells(signals, a, level[a]) => Tells(signals', a, level'[a])
  <2>1. level'[a] = level[a]
    BY <1>3, <1>6, <1>8
  <2>2. ~(x.source = a /\ x.value # Completed)
    BY <1>4, <1>8
  <2>3. QED
    BY <1>3, <1>4, <1>6, <2>1, <2>2, OtherSignal
<1>9. ServiceTold'
  <2>1. ASSUME NEW a \in Addresses \ forgot' PROVE Tells(signals', a, level'[a])
    <3>1. CASE a = b
      BY <1>3, <1>6, <1>7, <3>1
    <3>2. CASE a # b
      <4>1. Tells(signals, a, level[a])
        BY <1>3, <3>2 DEF Told, ServiceTold
      <4>2. QED
        BY <1>8, <3>2, <4>1
    <3>3. QED
      BY <3>1, <3>2
  <2>2. QED
    BY <1>5, <2>1 DEF ServiceTold
<1>10. CASE address = b
  <2>1. Carriers(signals', address') # {}
    BY <1>5, <1>7, <1>10
  <2>2. QED
    BY <1>5, <1>9, <2>1 DEF Told, EngineTold, DisplayTold
<1>11. CASE address # b
  <2>1. /\ Carriers(signals', address) = Carriers(signals, address)
        /\ level'[address] = level[address] /\ (address \in forgot' <=> address \in forgot)
    BY <1>3, <1>6, <1>8, <1>11
  <2>2. Asked' <=> Asked
    BY <1>5 DEF Asked
  <2>3. EngineTold'
    BY <1>5, <2>1 DEF Told, EngineTold
  <2>4. DisplayTold'
    BY <1>5, <2>1, <2>2 DEF Told, DisplayTold
  <2>5. QED
    BY <1>9, <2>3, <2>4 DEF Told
<1>12. QED
  BY <1>10, <1>11

(* The process ends: nothing is claimed of its levels any more.             *)
LEMMA ExitKeepsPipeline ==
  ASSUME TypeOK, Told, Exit
  PROVE  Told'
<1>1. forgot' = Addresses /\ UNCHANGED <<address, received, cache, dirty>>
  BY Zenon DEF Exit, control, engine
<1>2. address' \in forgot'
  BY <1>1 DEF TypeOK
<1>3. QED
  BY <1>1, <1>2 DEF Told, ServiceTold, EngineTold, DisplayTold

(* A signal is delivered: its level becomes the engine's.                    *)
LEMMA DispatchKeepsPipeline ==
  ASSUME TypeOK, Told, Dispatch
  PROVE  Told'
<1> DEFINE s == Head(signals)
<1>1. /\ signals # <<>> /\ signals' = Tail(signals)
      /\ \/ s.value # Completed /\ onSourceUpdated(s)
         \/ s.value = Completed /\ onCommandCompleted(s)
      /\ UNCHANGED <<unit, address, received, suspend, jobs, queue, up, level, dropped, forgot>>
  BY Zenon DEF Dispatch, control
<1> HIDE DEF s
<1>2. signals \in Seq(Signals) /\ address \in Addresses
  BY DEF TypeOK
<1>3. ASSUME NEW a \in Addresses \ forgot PROVE Tells(signals', a, level'[a])
  <2>1. Tells(signals, a, level[a])
    BY DEF Told, ServiceTold
  <2>2. QED
    BY <1>1, <1>2, <2>1, FirstSignal
<1>4. ServiceTold'
  BY <1>1, <1>3 DEF Told, ServiceTold
<1>5. ASSUME address \notin forgot, Carriers(signals', address) = {}
      PROVE  IF s.source = address /\ s.value # Completed
             THEN s.value = level[address] ELSE Carriers(signals, address) = {}
  <2>1. Tells(signals, address, level[address])
    BY <1>2, <1>5 DEF Told, ServiceTold
  <2>2. QED
    BY <1>1, <1>2, <1>5, <2>1, FirstSignal DEF s
<1>6. CASE s.source = address /\ s.value # Completed
  <2>1. cache' = s.value /\ dirty' = TRUE
    BY <1>1, <1>6 DEF onSourceUpdated, SetValue
  <2>2. EngineTold'
    BY <1>1, <1>5, <1>6, <2>1 DEF EngineTold
  <2>3. DisplayTold'
    BY <2>1 DEF DisplayTold
  <2>4. QED
    BY <1>4, <2>2, <2>3 DEF Told
<1>7. CASE ~(s.source = address /\ s.value # Completed)
  <2>1. cache' = cache /\ (dirty' <=> dirty \/ (s.source = address /\ s.value = Completed))
    BY <1>1, <1>7 DEF onSourceUpdated, onCommandCompleted
  <2>2. EngineTold'
    BY <1>1, <1>5, <1>7, <2>1 DEF Told, EngineTold
  <2>3. Asked' <=> Asked
    BY <1>1 DEF Asked
  <2>4. Carriers(signals, address) # {} => Carriers(signals', address) # {} \/ address \in forgot
    BY <1>5, <1>7
  <2>5. DisplayTold'
    BY <1>1, <2>1, <2>3, <2>4 DEF Told, DisplayTold
  <2>6. QED
    BY <1>4, <2>2, <2>5 DEF Told
<1>8. QED
  BY <1>6, <1>7

(* The initial state: the engine has just fetched the level.                *)
LEMMA InitPipeline ==
  ASSUME Init
  PROVE  Told
<1>1. signals = <<>> /\ up = TRUE /\ dirty = TRUE /\ cache = level[address]
  BY DEF Init
<1>2. \A a : Carriers(signals, a) = {}
  BY <1>1, EmptySeq DEF Carriers
<1>3. QED
  BY <1>1, <1>2 DEF Told, ServiceTold, EngineTold, DisplayTold, Tells

(* The inductive invariant of the pipeline, with the types.                 *)
THEOREM PipelineTheorem == Spec => [](TypeOK /\ PipelineInv)
<1>1. Init => TypeOK /\ PipelineInv
  BY InitTypes, InitPipeline, PipelineParts
<1>2. ASSUME TypeOK, Told, UNCHANGED vars PROVE Told'
  <2>1. UNCHANGED <<unit, address, received, suspend, cache, dirty, jobs, up, level, queue,
                    signals, dropped, forgot>>
    BY <1>2, Zenon DEF vars, control, engine, service
  <2>2. Asked' <=> Asked
    BY <2>1 DEF Asked
  <2>3. DisplayTold'
    BY <1>2, <2>1, <2>2 DEF Told, DisplayTold
  <2>4. QED
    BY <1>2, <2>1, <2>3, ToldUntouched DEF Told
<1>3. ASSUME TypeOK, Told, Next PROVE Told'
  BY <1>3, UserKeepsPipeline, UpdateKeepsPipeline, AcceptedKeepsPipeline, ServeKeepsPipeline,
     ReceiveKeepsPipeline, ExitKeepsPipeline, DispatchKeepsPipeline DEF Next, Others
<1>4. TypeOK /\ TypeOK' /\ PipelineInv /\ [Next]_vars => PipelineInv'
  BY <1>2, <1>3, PipelineParts, PipelinePartsAfter
<1>5. QED
  BY <1>1, <1>4, TypeCorrect, PTL DEF Spec

(* The engine's copy of a level is the service's but for the signals on     *)
(* their way, in whatever order fetches, signals, restarts and changes of   *)
(* the address come.                                                        *)
THEOREM EngineAlwaysFollows == Spec => []EngineFollows
<1>1. PipelineInv => EngineFollows
  BY DEF PipelineInv
<1>2. QED
  BY <1>1, PipelineTheorem, PTL

(* A control with nothing under way shows the level the service tracks,     *)
(* whatever the user, other clients and remotes did before.                 *)
THEOREM AlwaysSettled == Spec => []Settled
<1>1. ASSUME TypeOK, PipelineInv PROVE Settled
  <2>1. ASSUME Quiet, ~dropped, address \notin forgot PROVE unit = level[address]
    <3>1. jobs = <<>> /\ queue = <<>> /\ signals = <<>> /\ ~dirty /\ ~suspend
      BY <2>1 DEF Quiet
    <3>2. Announced(address) = {}
      BY <3>1, EmptySeq DEF Announced
    <3>3. ~Asked
      BY <3>1, EmptySeq DEF Asked
    <3>4. unit = cache
      BY <1>1, <2>1, <3>1, <3>2, <3>3 DEF PipelineInv, DisplayInv
    <3>5. cache = level[address]
      BY <1>1, <2>1, <3>2 DEF PipelineInv, EngineFollows
    <3>6. QED
      BY <3>4, <3>5
  <2>2. QED
    BY <2>1 DEF Settled
<1>2. QED
  BY <1>1, PipelineTheorem, PTL
=============================================================================
