--------------------------- MODULE X10WidgetProofs ---------------------------
(***************************************************************************)
(* Proofs about X10Widget, for all rules, houses, units and bounds.        *)
(***************************************************************************)
EXTENDS X10Widget, SequenceTheorems, FiniteSetTheorems, WellFoundedInduction, TLAPS

-----------------------------------------------------------------------------
(* The form keeps hours and minutes: what is cut to minutes stays so. *)
LEMMA MinuteTwice ==
  ASSUME NEW t \in Times
  PROVE  Minute(t) \in Times /\ Minute(Minute(t)) = Minute(t)
<1>1. t \in Nat /\ Minute(t) \in Times
  BY TimesAssumption
<1>2. \A k \in Nat : (k * 60) \div 60 = k
  OBVIOUS
<1>3. t \div 60 \in Nat
  BY <1>1
<1>4. QED
  BY <1>1, <1>2, <1>3 DEF Minute

(* What the constants are. *)
LEMMA ConstantTypes ==
  /\ NewRule \in Rules
  /\ 0 \in Times /\ Minute(0) = 0
  /\ Len(Channels) \in Nat \ {0}
  /\ LastUnit \in Nat \ {0}
  /\ MaxActs \in Nat
<1>1. NewRule \in Rules
  BY RulesAssumption DEF Rules, Whos
<1>2. 0 \in Times /\ Minute(0) = 0
  BY TimesAssumption DEF Minute
<1>3. Len(Channels) \in Nat \ {0}
  BY NodesAssumption, EmptySeq, LenProperties
<1>4. QED
  BY <1>1, <1>2, <1>3, NodesAssumption, BoundsAssumption

(* A set of naturals that is not empty has a least element. *)
LEMMA LeastNat ==
  ASSUME NEW T \in SUBSET Nat, T # {}
  PROVE  \E m \in T : \A n \in T : m <= n
<1> DEFINE R == OpToRel(<, Nat)
<1>1. IsWellFoundedOn(R, Nat)
  BY NatLessThanWellFounded
<1>2. \A x, y \in Nat : x < y => <<x, y>> \in R
  BY DEF OpToRel
<1> HIDE DEF R
<1>3. PICK x \in T : \A y \in T : ~ (<<y, x>> \in R)
  BY <1>1, WFMin, Zenon
<1>4. ASSUME NEW y \in T PROVE x <= y
  <2>1. x \in Nat /\ y \in Nat
    OBVIOUS
  <2>2. ~ (y < x)
    BY <1>2, <1>3, <2>1, Zenon
  <2>3. QED
    BY <2>1, <2>2
<1>5. QED
  BY <1>4

(* How many of the first i rules can be read: none of none, and at most one  *)
(* more with each rule.                                                     *)
LEMMA ReadableCount ==
  ASSUME NEW list \in Seq(Rules)
  PROVE  /\ \A i \in 0 .. Len(list) : Cardinality(Readable(list, i)) \in Nat
         /\ Cardinality(Readable(list, 0)) = 0
         /\ \A i \in 1 .. Len(list) :
              IF list[i].text \notin Unreadable
              THEN Cardinality(Readable(list, i)) = Cardinality(Readable(list, i - 1)) + 1
              ELSE Cardinality(Readable(list, i)) = Cardinality(Readable(list, i - 1))
<1> DEFINE K(n) == Readable(list, n)
           CanBe(j) == list[j].text \notin Unreadable
<1>1. Len(list) \in Nat
  BY LenProperties
<1>2. ASSUME NEW i \in 0 .. Len(list)
      PROVE  IsFiniteSet(K(i)) /\ Cardinality(K(i)) \in Nat
  <2>1. IsFiniteSet(1 .. i)
    BY <1>1, FS_Interval
  <2>2. K(i) \in SUBSET (1 .. i)
    BY DEF Readable
  <2>3. IsFiniteSet(K(i))
    BY <2>1, <2>2, FS_Subset
  <2>4. QED
    BY <2>3, FS_CardinalityType
<1>3. K(0) = {}
  BY DEF Readable
<1>4. Cardinality(K(0)) = 0
  BY <1>3, FS_EmptySet
<1>5. \A n, j : j \in K(n) <=> j \in 1 .. n /\ CanBe(j)
  BY DEF Readable
<1> HIDE DEF K, CanBe
<1>6. ASSUME NEW i \in 1 .. Len(list)
      PROVE  IF CanBe(i) THEN Cardinality(K(i)) = Cardinality(K(i - 1)) + 1
             ELSE Cardinality(K(i)) = Cardinality(K(i - 1))
  <2>1. i - 1 \in 0 .. Len(list)
    BY <1>1
  <2>2. \A j : j \in 1 .. i <=> j \in 1 .. (i - 1) \/ j = i
    BY <1>1
  <2>3. i \notin 1 .. (i - 1)
    BY <1>1
  <2>4. CASE CanBe(i)
    <3>1. \A j : j \in K(i) <=> j \in K(i - 1) \/ j = i
      BY <1>5, <2>2, <2>4, Zenon
    <3>2. i \notin K(i - 1)
      BY <1>5, <2>3
    <3>3. K(i) = K(i - 1) \cup {i}
      BY <3>1
    <3>4. IsFiniteSet(K(i - 1)) /\ Cardinality(K(i - 1)) \in Nat
      BY <1>2, <2>1
    <3>5. Cardinality(K(i)) = Cardinality(K(i - 1)) + 1
      BY <3>2, <3>3, <3>4, FS_AddElement
    <3>6. QED
      BY <2>4, <3>5
  <2>5. CASE ~CanBe(i)
    <3>1. \A j : j \in K(i) <=> j \in K(i - 1)
      BY <1>5, <2>2, <2>5, Zenon
    <3>2. K(i) = K(i - 1)
      BY <3>1
    <3>3. QED
      BY <2>5, <3>2
  <2>6. QED
    BY <2>4, <2>5
<1>7. QED
  BY <1>2, <1>4, <1>6 DEF K, CanBe

(* Every number up to the count of the rules that can be read is reached at *)
(* one of them.                                                             *)
LEMMA ReadableAt ==
  ASSUME NEW list \in Seq(Rules),
         NEW k \in 1 .. Cardinality(Readable(list, Len(list)))
  PROVE  \E i \in Readable(list, Len(list)) : Cardinality(Readable(list, i)) = k
<1> DEFINE c(i) == Cardinality(Readable(list, i))
           N == Len(list)
           T == {n \in 0 .. N : k <= c(n)}
<1>1. N \in Nat
  BY LenProperties
<1>2. (\A i \in 0 .. N : c(i) \in Nat) /\ c(0) = 0
  BY ReadableCount
<1>3. \A i \in 1 .. N :
        IF list[i].text \notin Unreadable THEN c(i) = c(i - 1) + 1 ELSE c(i) = c(i - 1)
  BY ReadableCount
<1>4. Readable(list, N) = {j \in 1 .. N : list[j].text \notin Unreadable}
  BY DEF Readable
<1>5. k \in 1 .. c(N)
  OBVIOUS
<1> HIDE DEF c, N
<1>6. N \in T /\ T \in SUBSET Nat
  BY <1>1, <1>2, <1>5
<1>7. PICK m \in T : \A n \in T : m <= n
  BY <1>6, LeastNat
<1>8. m \in 0 .. N /\ k <= c(m)
  BY <1>7
<1>9. m # 0
  BY <1>2, <1>5, <1>8
<1>10. m - 1 \in 0 .. N /\ ~(m <= m - 1)
  BY <1>1, <1>8, <1>9
<1>11. ~(k <= c(m - 1))
  BY <1>7, <1>10
<1>12. m \in 1 .. N /\ c(m) \in Nat /\ c(m - 1) \in Nat /\ k \in Nat
  BY <1>1, <1>2, <1>5, <1>8, <1>9, <1>10
<1>13. IF list[m].text \notin Unreadable THEN c(m) = c(m - 1) + 1 ELSE c(m) = c(m - 1)
  BY <1>3, <1>12
<1>14. c(m) # c(m - 1)
  BY <1>8, <1>11
<1>15. list[m].text \notin Unreadable /\ c(m) = c(m - 1) + 1
  BY <1>13, <1>14
<1>16. c(m) = k
  BY <1>8, <1>11, <1>12, <1>15
<1>17. m \in Readable(list, N)
  BY <1>4, <1>12, <1>15
<1>18. QED
  BY <1>16, <1>17 DEF c, N

(* A rule that was checked is a rule, whose text is what it was, and passes *)
(* a second check as it is.                                                 *)
LEMMA CheckedProperties ==
  ASSUME NEW r \in Rules
  PROVE  /\ Checked(r) \in Rules
         /\ Checked(r).text = r.text
         /\ Checked(Checked(r)) = Checked(r)
<1>1. (r.enabled /\ r.who \in ValidAddresses) \in BOOLEAN
  OBVIOUS
<1>2. Checked(r) = [r EXCEPT !.enabled = (r.enabled /\ r.who \in ValidAddresses)]
  BY Zenon DEF Checked
<1>3. Checked(r) \in Rules /\ Checked(r).text = r.text /\ Checked(r).who = r.who
      /\ Checked(r).enabled = (r.enabled /\ r.who \in ValidAddresses)
  BY <1>1, <1>2 DEF Rules
<1>4. Checked(Checked(r)) = [Checked(r) EXCEPT !.enabled = Checked(r).enabled /\ r.who \in ValidAddresses]
  BY <1>3, Zenon DEF Checked
<1>5. (Checked(r).enabled /\ r.who \in ValidAddresses) = Checked(r).enabled
  BY <1>3
<1>6. Checked(Checked(r)) = [Checked(r) EXCEPT !.enabled = Checked(r).enabled]
  BY <1>4, <1>5
<1>7. QED
  BY <1>3, <1>6 DEF Rules

(* Rules read back from text are rules, and are read back the same a second *)
(* time.                                                                    *)
LEMMA DeserializeProperties ==
  ASSUME NEW list \in Seq(Rules)
  PROVE  /\ Deserialize(list) \in Seq(Rules)
         /\ Deserialize(Deserialize(list)) = Deserialize(list)
<1> DEFINE N == Len(list)
           S == Readable(list, N)
           c == Cardinality(S)
           At(k) == CHOOSE i \in S : Cardinality(Readable(list, i)) = k
           D == Deserialize(list)
<1>1. N \in Nat
  BY LenProperties
<1>2. c \in Nat
  BY <1>1, ReadableCount
<1>3. \A k \in 1 .. c : \E i \in S : Cardinality(Readable(list, i)) = k
  BY ReadableAt
<1>4. \A k \in 1 .. c : At(k) \in S
  BY <1>3
<1>5. D = [k \in 1 .. c |-> Checked(list[At(k)])]
  BY Zenon DEF Deserialize
<1>6. \A i \in S : list[i] \in Rules /\ list[i].text \notin Unreadable
  BY ElementOfSeq DEF Readable
<1> HIDE DEF N, S, c, At, D
<1>7. \A k \in 1 .. c : list[At(k)] \in Rules /\ list[At(k)].text \notin Unreadable
  BY <1>4, <1>6
<1>8. ASSUME NEW k \in 1 .. c
      PROVE  D[k] \in Rules /\ D[k].text \notin Unreadable /\ Checked(D[k]) = D[k]
  <2>1. D[k] = Checked(list[At(k)])
    BY <1>5
  <2>2. QED
    BY <1>7, <2>1, CheckedProperties
<1>9. D \in Seq(Rules) /\ Len(D) = c /\ DOMAIN D = 1 .. c
  <2>1. D \in [1 .. c -> Rules]
    BY <1>5, <1>8
  <2>2. QED
    BY <1>2, <2>1
<1>10. ASSUME NEW i \in 0 .. c
       PROVE  Readable(D, i) = 1 .. i /\ Cardinality(Readable(D, i)) = i
  <2>1. \A j \in 1 .. i : D[j].text \notin Unreadable
    BY <1>2, <1>8
  <2>2. Readable(D, i) = 1 .. i
    BY <2>1 DEF Readable
  <2>3. Cardinality(1 .. i) = i
    <3>1. 1 \in Int /\ i \in Int /\ (1 > i => i = 0)
      BY <1>2
    <3>2. Cardinality(1 .. i) = IF 1 > i THEN 0 ELSE i - 1 + 1
      BY <3>1, FS_Interval
    <3>3. QED
      BY <3>1, <3>2
  <2>4. QED
    BY <2>2, <2>3
<1>11. Readable(D, Len(D)) = 1 .. c /\ Cardinality(Readable(D, Len(D))) = c
  BY <1>2, <1>9, <1>10
<1>12. Deserialize(D) = [k \in 1 .. c |-> Checked(D[CHOOSE i \in 1 .. c : Cardinality(Readable(D, i)) = k])]
  <2> DEFINE T == Readable(D, Len(D))
  <2>1. Deserialize(D) =
          [k \in 1 .. Cardinality(T) |-> Checked(D[CHOOSE i \in T : Cardinality(Readable(D, i)) = k])]
    BY Zenon DEF Deserialize
  <2>2. T = 1 .. c /\ Cardinality(T) = c
    BY <1>11
  <2> HIDE DEF T
  <2>3. QED
    BY <2>1, <2>2, Zenon
<1>13. ASSUME NEW k \in 1 .. c
       PROVE  (CHOOSE i \in 1 .. c : Cardinality(Readable(D, i)) = k) = k
  <2>1. \A i \in 1 .. c : Cardinality(Readable(D, i)) = i
    BY <1>2, <1>10
  <2>2. QED
    BY <2>1
<1>14. Deserialize(D) = [k \in 1 .. c |-> D[k]]
  BY <1>8, <1>12, <1>13
<1>15. Deserialize(D) = D
  BY <1>5, <1>14
<1>16. QED
  BY <1>9, <1>15 DEF D

(* An element is taken out of a list: the list is one shorter, and what     *)
(* stood behind it moves up.                                                *)
LEMMA RemoveAtProperties ==
  ASSUME NEW S, NEW s \in Seq(S), NEW i \in 1 .. Len(s)
  PROVE  /\ RemoveAt(s, i) \in Seq(S)
         /\ Len(RemoveAt(s, i)) = Len(s) - 1
         /\ \A j \in 1 .. Len(s) - 1 : RemoveAt(s, i)[j] = IF j < i THEN s[j] ELSE s[j + 1]
<1> DEFINE a == SubSeq(s, 1, i - 1)
           b == SubSeq(s, i + 1, Len(s))
<1>1. Len(s) \in Nat /\ i \in Int
  BY LenProperties
<1>2. \A j \in 1 .. Len(s) : s[j] \in S
  BY ElementOfSeq
<1>3. /\ a \in Seq(S) /\ Len(a) = i - 1
      /\ \A j \in 1 .. i - 1 : a[j] = s[j]
  <2>1. 1 \in Int /\ i - 1 \in Int /\ \A j \in 1 .. i - 1 : s[j] \in S
    BY <1>1, <1>2
  <2>2. QED
    BY <1>1, <2>1, SubSeqProperties
<1>4. /\ b \in Seq(S) /\ Len(b) = Len(s) - i
      /\ \A j \in 1 .. Len(s) - i : b[j] = s[i + j]
  <2>1. i + 1 \in Int /\ Len(s) \in Int /\ \A j \in i + 1 .. Len(s) : s[j] \in S
    BY <1>1, <1>2
  <2>2. b \in Seq(S) /\ Len(b) = IF i + 1 <= Len(s) THEN Len(s) - (i + 1) + 1 ELSE 0
    BY <2>1, SubSeqProperties
  <2>3. \A j \in 1 .. Len(s) - (i + 1) + 1 : b[j] = s[(i + 1) + j - 1]
    BY <2>1, SubSeqProperties
  <2>4. ASSUME NEW j \in 1 .. Len(s) - i PROVE b[j] = s[i + j]
    <3>1. j \in 1 .. Len(s) - (i + 1) + 1 /\ (i + 1) + j - 1 = i + j
      BY <1>1
    <3>2. QED
      BY <2>3, <3>1
  <2>5. QED
    BY <1>1, <2>2, <2>4
<1> HIDE DEF a, b
<1>5. /\ a \o b \in Seq(S)
      /\ Len(a \o b) = Len(a) + Len(b)
      /\ \A j \in 1 .. Len(a) + Len(b) :
           (a \o b)[j] = IF j <= Len(a) THEN a[j] ELSE b[j - Len(a)]
  BY <1>3, <1>4, ConcatProperties
<1>6. RemoveAt(s, i) = a \o b
  BY DEF RemoveAt, a, b
<1>7. ASSUME NEW j \in 1 .. Len(s) - 1
      PROVE  (a \o b)[j] = IF j < i THEN s[j] ELSE s[j + 1]
  <2>1. j \in 1 .. Len(a) + Len(b)
    BY <1>1, <1>3, <1>4
  <2>2. CASE j < i
    <3>1. j <= Len(a) /\ j \in 1 .. i - 1
      BY <1>1, <1>3, <2>2
    <3>2. QED
      BY <1>3, <1>5, <2>1, <2>2, <3>1
  <2>3. CASE ~(j < i)
    <3>1. ~(j <= Len(a)) /\ j - Len(a) \in 1 .. Len(s) - i /\ i + (j - Len(a)) = j + 1
      BY <1>1, <1>3, <2>3
    <3>2. b[j - Len(a)] = s[j + 1]
      BY <1>4, <3>1
    <3>3. QED
      BY <1>5, <2>1, <2>3, <3>1, <3>2
  <2>4. QED
    BY <2>2, <2>3
<1>8. Len(a) + Len(b) = Len(s) - 1
  BY <1>1, <1>3, <1>4
<1>9. QED
  BY <1>5, <1>6, <1>7, <1>8
-----------------------------------------------------------------------------
(* The form and the list of rules. *)

(* saveRule makes a rule of a form whose address is one. *)
LEMMA SavedRuleType ==
  ASSUME NEW r \in Rules, NEW f \in Forms, f.who \in Whos
  PROVE  SavedRule(r, f) \in Rules
<1>1. /\ f.enabled \in BOOLEAN /\ f.time \in Times /\ f.days \in Days /\ f.kind \in Kinds
      /\ f.text \in Texts /\ f.repeats \in Repeats
  BY DEF Forms
<1>2. r.who \in Whos /\ r.text \in Texts
  BY DEF Rules
<1>3. (IF f.struck THEN r.who ELSE f.who) \in Whos /\ (IF f.crossed THEN r.text ELSE f.text) \in Texts
  BY <1>1, <1>2
<1>4. QED
  BY <1>1, <1>3 DEF SavedRule, Rules

(* Saving changes the rule of the row and no other. *)
LEMMA SaveProperties ==
  ASSUME NEW list \in Seq(Rules), NEW i \in NoRow .. Len(list) - 1, NEW f \in Forms,
         i # NoRow => f.who \in Whos
  PROVE  /\ Save(list, i, f) \in Seq(Rules)
         /\ Len(Save(list, i, f)) = Len(list)
         /\ i # NoRow => Save(list, i, f)[i + 1] = SavedRule(list[i + 1], f)
         /\ \A j \in 1 .. Len(list) : j # i + 1 => Save(list, i, f)[j] = list[j]
<1>1. Len(list) \in Nat
  BY LenProperties
<1>2. CASE i = NoRow
  BY <1>2 DEF Save
<1>3. CASE i # NoRow
  <2>1. i \in Nat /\ i < Len(list) /\ i + 1 \in 1 .. Len(list)
    BY <1>1, <1>3 DEF NoRow
  <2>2. Save(list, i, f) = [list EXCEPT ![i + 1] = SavedRule(list[i + 1], f)]
    BY <1>1, <1>3, <2>1 DEF Save
  <2>3. SavedRule(list[i + 1], f) \in Rules
    BY <1>3, <2>1, ElementOfSeq, SavedRuleType
  <2>4. QED
    BY <2>1, <2>2, <2>3, ExceptSeq
<1>4. QED
  BY <1>2, <1>3

(* After it the form shows the rule that was saved. *)
LEMMA AfterSaveProperties ==
  ASSUME NEW list \in Seq(Rules), NEW i \in 0 .. Len(list) - 1, NEW f \in Forms,
         f.who \in Whos, f.time = Minute(f.time)
  PROVE  /\ AfterSave(list, i, f) \in Forms
         /\ AfterSave(list, i, f).who \in Whos
         /\ AfterSave(list, i, f).time = f.time
         /\ Shows(AfterSave(list, i, f), SavedRule(list[i + 1], f))
<1> DEFINE g == AfterSave(list, i, f)
           r == list[i + 1]
           w == IF f.struck THEN r.who ELSE f.who
<1>1. Len(list) \in Nat /\ i + 1 \in 1 .. Len(list) /\ i # NoRow /\ ~(i >= Len(list))
  BY LenProperties DEF NoRow
<1>2. r \in Rules
  BY <1>1, ElementOfSeq
<1>3. w \in Whos
  BY <1>2 DEF Rules
<1>4. g = [f EXCEPT !.half = FALSE, !.struck = FALSE, !.who = w]
  BY <1>1, Zenon DEF AfterSave
<1> HIDE DEF g, r
<1>5. /\ g \in Forms /\ g.who = w /\ g.enabled = f.enabled /\ g.time = f.time
      /\ g.days = f.days /\ g.kind = f.kind /\ g.text = f.text /\ g.repeats = f.repeats
      /\ g.crossed = f.crossed
  <2> HIDE DEF w
  <2>1. QED
    BY <1>3, <1>4 DEF Forms
<1>6. Shows(g, SavedRule(r, f))
  BY <1>5 DEF Shows, SavedRule
<1>7. QED
  BY <1>3, <1>5, <1>6 DEF g, r

(* loadRule up to the time. *)
LEMMA HalfLoadedProperties ==
  ASSUME NEW r \in Rules, NEW f \in Forms
  PROVE  /\ HalfLoaded(f, r) \in Forms
         /\ HalfLoaded(f, r).who = r.who /\ r.who \in Whos
         /\ HalfLoaded(f, r).enabled = r.enabled
         /\ HalfLoaded(f, r).time = Minute(r.time)
         /\ HalfLoaded(f, r).repeats = f.repeats
         /\ Minute(Minute(r.time)) = Minute(r.time)
<1>1. r.who \in Whos /\ r.time \in Times /\ r.enabled \in BOOLEAN
  BY DEF Rules
<1>2. Minute(r.time) \in Times /\ Minute(Minute(r.time)) = Minute(r.time)
  BY <1>1, MinuteTwice
<1>3. QED
  BY <1>1, <1>2 DEF HalfLoaded, Forms

(* Loading a row fills in the whole form; the list stays one of as many     *)
(* rules, also if the rule is saved half loaded, and the form shows the rule. *)
LEMMA LoadedProperties ==
  ASSUME NEW list \in Seq(Rules), NEW i \in 0 .. Len(list) - 1, NEW f \in Forms
  PROVE  /\ LoadedRules(list, i, f) \in Seq(Rules)
         /\ Len(LoadedRules(list, i, f)) = Len(list)
         /\ LoadedForm(list, i, f) \in Forms
         /\ LoadedForm(list, i, f).who \in Whos
         /\ LoadedForm(list, i, f).time = Minute(LoadedForm(list, i, f).time)
         /\ Shows(LoadedForm(list, i, f), LoadedRules(list, i, f)[i + 1])
<1> DEFINE r == list[i + 1]
           h == HalfLoaded(f, r)
           early == SavesEarly(f, r)
           halfway == early /\ f.repeats = r.repeats
           struck == h.struck /\ ~early
           g == LoadedForm(list, i, f)
           once == Save(list, i, h)
           new == LoadedRules(list, i, f)
<1>1. Len(list) \in Nat /\ i + 1 \in 1 .. Len(list) /\ i # NoRow /\ i \in NoRow .. Len(list) - 1
  BY LenProperties DEF NoRow
<1>2. r \in Rules
  BY <1>1, ElementOfSeq
<1>3. /\ h \in Forms /\ h.who = r.who /\ r.who \in Whos /\ h.enabled = r.enabled
      /\ h.time = Minute(r.time) /\ h.repeats = f.repeats
      /\ Minute(Minute(r.time)) = Minute(r.time)
  BY <1>2, HalfLoadedProperties
<1>4. /\ r.days \in Days /\ r.kind \in Kinds /\ r.text \in Texts /\ r.repeats \in Repeats
  BY <1>2 DEF Rules
<1>5. early \in BOOLEAN
  BY DEF SavesEarly
<1>6. halfway \in BOOLEAN /\ struck \in BOOLEAN
  BY <1>5
<1>7. g = [h EXCEPT !.days = r.days, !.kind = r.kind, !.text = r.text, !.repeats = r.repeats,
                    !.struck = struck, !.crossed = FALSE, !.half = halfway]
  BY Zenon DEF LoadedForm
<1>8. new = IF ~early THEN list ELSE IF f.repeats = r.repeats THEN once ELSE Save(once, i, g)
  BY Zenon DEF LoadedRules
<1> HIDE DEF r, h, early, halfway, struck, g, once, new
<1>9. /\ g \in Forms /\ g.who = r.who /\ g.enabled = r.enabled /\ g.time = Minute(r.time)
      /\ g.days = r.days /\ g.kind = r.kind /\ g.text = r.text /\ g.repeats = r.repeats
      /\ g.struck = struck /\ g.crossed = FALSE /\ g.half = halfway
  BY <1>3, <1>4, <1>6, <1>7 DEF Forms
<1>10. g.who \in Whos /\ g.time = Minute(g.time)
  BY <1>3, <1>9
<1>11. /\ once \in Seq(Rules) /\ Len(once) = Len(list)
       /\ once[i + 1] = SavedRule(r, h)
  BY <1>1, <1>3, SaveProperties DEF once, r
<1>12. CASE ~early
  <2>1. new = list
    BY <1>8, <1>12
  <2>2. Shows(g, r)
    BY <1>9 DEF Shows
  <2>3. QED
    BY <1>9, <1>10, <2>1, <2>2 DEF g, new, r
<1>13. CASE early /\ f.repeats = r.repeats
  <2>1. new = once
    BY <1>8, <1>13
  <2>2. g.half = TRUE /\ g.struck = FALSE
    BY <1>9, <1>13 DEF halfway, struck
  <2>3. SavedRule(r, h).who = r.who /\ SavedRule(r, h).enabled = r.enabled
        /\ SavedRule(r, h).time = Minute(r.time) /\ SavedRule(r, h).repeats = r.repeats
    BY <1>3, <1>13 DEF SavedRule
  <2>4. Shows(g, SavedRule(r, h))
    BY <1>3, <1>9, <2>2, <2>3 DEF Shows
  <2>5. QED
    BY <1>9, <1>10, <1>11, <2>1, <2>4 DEF g, new
<1>14. CASE early /\ f.repeats # r.repeats
  <2>1. new = Save(once, i, g)
    BY <1>8, <1>14
  <2>2. i \in NoRow .. Len(once) - 1
    BY <1>1, <1>11
  <2>3. /\ new \in Seq(Rules) /\ Len(new) = Len(once)
        /\ new[i + 1] = SavedRule(once[i + 1], g)
    BY <1>1, <1>9, <1>10, <1>11, <2>1, <2>2, SaveProperties
  <2>4. g.half = FALSE /\ g.struck = FALSE
    BY <1>9, <1>14 DEF halfway, struck
  <2>5. Shows(g, SavedRule(once[i + 1], g))
    BY <1>9, <1>10, <2>4 DEF Shows, SavedRule
  <2>6. QED
    BY <1>9, <1>10, <1>11, <2>3, <2>5 DEF g, new
<1>15. QED
  BY <1>12, <1>13, <1>14
-----------------------------------------------------------------------------
(* The nodes. *)

(* A node is made of a name, a channel and a unit. *)
LEMMA NodeType ==
  ASSUME NEW c \in Int, NEW u \in Int
  PROVE  /\ Node("Untitled", c, u) \in NodeSet
         /\ Node("Untitled", c, u).name \notin CutNames
         /\ Node("Untitled", c, u).channel = c
         /\ Node("Untitled", c, u).unit = u
  BY NodesAssumption, Zenon DEF Node, NodeSet

(* A character after a character is one. *)
LEMMA HouseAfterType ==
  ASSUME NEW c \in Int, NEW k \in 0 .. Len(Channels)
  PROVE  HouseAfter(c, k) \in Int
<1> DEFINE L == Len(Channels)
<1>1. L \in Nat \ {0}
  BY ConstantTypes
<1>2. HouseAfter(c, k) = IF c > L \/ c + k <= L THEN c + k ELSE 1 + ((c + k - 1) % L)
  BY DEF HouseAfter
<1> HIDE DEF L
<1>3. k \in Int
  OBVIOUS
<1>4. (c + k - 1) % L \in 0 .. L - 1
  BY <1>1, <1>3
<1>5. QED
  BY <1>2, <1>3, <1>4

(* The address given to a new node is nobody's, as long as one of the       *)
(* houses that are looked at has a free unit.                               *)
LEMMA AvailableFromProperties ==
  ASSUME NEW c \in Int
  PROVE  /\ AvailableFrom(c) \in NodeSet
         /\ AvailableFrom(c).name \notin CutNames
         /\ Untaken(c) # {} => AvailableFrom(c).unit \notin Taken(AvailableFrom(c).channel)
<1> DEFINE ks == Untaken(c)
           k0 == CHOOSE k \in ks : \A l \in ks : k <= l
           h == HouseAfter(c, k0)
           u0 == CHOOSE u \in Free(h) : \A v \in Free(h) : u <= v
           h1 == HouseAfter(c, Len(Channels))
<1>1. AvailableFrom(c) = IF ks = {} THEN Node("Untitled", h1, 1) ELSE Node("Untitled", h, u0)
  BY Zenon DEF AvailableFrom
<1>2. LastUnit \in Nat \ {0} /\ Len(Channels) \in Nat
  BY ConstantTypes
<1>3. \A k \in ks : k \in 0 .. Len(Channels) /\ k \in Nat /\ Free(HouseAfter(c, k)) # {}
  BY <1>2 DEF Untaken
<1> HIDE DEF ks
<1>4. CASE ks = {}
  <2>1. Len(Channels) \in 0 .. Len(Channels)
    BY <1>2
  <2>2. h1 \in Int
    BY <2>1, HouseAfterType
  <2> HIDE DEF h1
  <2>3. AvailableFrom(c) = Node("Untitled", h1, 1)
    BY <1>1, <1>4, Zenon
  <2>4. QED
    BY <1>4, <2>2, <2>3, NodeType DEF ks
<1>5. CASE ks # {}
  <2>1. ks \in SUBSET Nat
    BY <1>3
  <2>2. \E k \in ks : \A l \in ks : k <= l
    BY <1>5, <2>1, LeastNat
  <2>3. k0 \in ks
    BY <2>2
  <2>4. h \in Int /\ Free(h) # {}
    BY <1>3, <2>3, HouseAfterType
  <2> HIDE DEF h
  <2>5. Free(h) \in SUBSET Nat
    BY DEF Free
  <2>6. \E u \in Free(h) : \A v \in Free(h) : u <= v
    BY <2>4, <2>5, LeastNat
  <2>7. u0 \in Free(h)
    BY <2>6
  <2> HIDE DEF u0
  <2>8. u0 \in Int /\ u0 \notin Taken(h)
    BY <1>2, <2>7 DEF Free
  <2>9. AvailableFrom(c) = Node("Untitled", h, u0)
    BY <1>1, <1>5 DEF h, u0
  <2>10. QED
    BY <2>4, <2>8, <2>9, NodeType
<1>6. QED
  BY <1>4, <1>5

(* A node is read back as a node, and as itself if its name allows it. *)
LEMMA ReadBackProperties ==
  ASSUME NEW n \in NodeSet
  PROVE  /\ ReadBack(n) \in NodeSet
         /\ n.name \notin CutNames => ReadBack(n) = n
<1>1. CASE n.name \in CutNames
  <2>1. ReadBack(n) = Cut[n.name]
    BY <1>1 DEF ReadBack
  <2>2. Cut[n.name] \in [name : {"Untitled", ""}, channel : Int, unit : Int]
    BY <1>1, NodesAssumption, Zenon
  <2>3. Cut[n.name] \in NodeSet
    <3> DEFINE few == {"Untitled", ""}
               all == few \cup CutNames
    <3>1. NodeSet = [name : all, channel : Int, unit : Int]
      BY Zenon DEF NodeSet
    <3>2. Cut[n.name] \in [name : few, channel : Int, unit : Int] /\ few \in SUBSET all
      BY <2>2, Zenon
    <3> HIDE DEF few, all
    <3>3. QED
      BY <3>1, <3>2
  <2>4. QED
    BY <1>1, <2>1, <2>3
<1>2. CASE n.name \notin CutNames
  BY <1>2 DEF ReadBack
<1>3. QED
  BY <1>1, <1>2

(* The nodes that are read back, in any order, are nodes, and each comes    *)
(* from a place of its own in the list that was written.                    *)
LEMMA ReadNodesProperties ==
  ASSUME NEW list \in Seq(NodeSet),
         NEW order \in Injection(1 .. Cardinality(Valid(list)), Valid(list)),
         NEW read, read = [k \in DOMAIN order |-> ReadBack(list[order[k]])]
  PROVE  read \in Seq(NodeSet) /\ (Plain(list) => Plain(read))
<1> DEFINE V == Valid(list)
           n == Cardinality(V)
<1>1. DOMAIN list = 1 .. Len(list) /\ Len(list) \in Nat
  BY LenProperties
<1>2. V \in SUBSET (1 .. Len(list))
  BY <1>1 DEF Valid
<1>3. n \in Nat
  <2>1. IsFiniteSet(1 .. Len(list))
    BY <1>1, FS_Interval
  <2>2. IsFiniteSet(V)
    BY <1>2, <2>1, FS_Subset
  <2>3. QED
    BY <2>2, FS_CardinalityType
<1>4. order \in [1 .. n -> V] /\ \A k, l \in DOMAIN order : order[k] = order[l] => k = l
  BY Zenon DEF Injection, IsInjective
<1> HIDE DEF V, n
<1>5. DOMAIN order = 1 .. n /\ \A k \in 1 .. n : order[k] \in 1 .. Len(list)
  BY <1>2, <1>4
<1>6. \A k \in 1 .. n : read[k] = ReadBack(list[order[k]]) /\ list[order[k]] \in NodeSet
  BY <1>5, ElementOfSeq
<1>7. \A k \in 1 .. n : read[k] \in NodeSet
  BY <1>6, ReadBackProperties
<1>8. DOMAIN read = 1 .. n
  BY <1>5
<1>9. read \in Seq(NodeSet)
  BY <1>3, <1>5, <1>7
<1>10. ASSUME Plain(list) PROVE Plain(read)
  <2>1. Apart(list) /\ \A i \in 1 .. Len(list) : list[i].name \notin CutNames
    BY <1>1, <1>10 DEF Plain
  <2>2. \A k \in 1 .. n : read[k] = list[order[k]]
    BY <1>5, <1>6, <2>1, ReadBackProperties
  <2>3. \A k \in 1 .. n : read[k].name \notin CutNames
    BY <1>5, <2>1, <2>2
  <2>4. ASSUME NEW k \in 1 .. n, NEW l \in 1 .. n,
               read[k].channel = read[l].channel, read[k].unit = read[l].unit
        PROVE  k = l
    <3>1. order[k] = order[l]
      BY <1>1, <1>5, <2>1, <2>2, <2>4 DEF Apart
    <3>2. QED
      BY <1>4, <1>5, <3>1
  <2>5. Apart(read)
    BY <1>8, <2>4 DEF Apart
  <2>6. QED
    BY <1>8, <2>3, <2>5 DEF Plain
<1>11. QED
  BY <1>9, <1>10
-----------------------------------------------------------------------------
(***************************************************************************)
(* Types, the list of rows and the form.                                   *)
(***************************************************************************)
RemoteTypes ==
  /\ service \in Seq(Rules) /\ data \in Seq(Rules)
  /\ due \in BOOLEAN /\ missed \in BOOLEAN
  /\ signals \in Seq([about : {"rules", "other"}, list : Seq(Rules)])
  /\ jobs \in Seq(Seq(Rules))

ListTypes == rules \in Seq(Rules) /\ saved \in Seq(Rules)

PageTypes ==
  /\ open \in BOOLEAN /\ linked \in BOOLEAN
  /\ rows \in Nat /\ row \in NoRow .. rows - 1
  /\ form \in Forms

NodesTypes ==
  /\ nodes \in Seq(NodeSet) /\ disk \in Seq(NodeSet)
  /\ shown \in Seq(Int \X Int)

HistoryTypes == acts \in 0 .. MaxActs /\ typed \in BOOLEAN /\ parted \in BOOLEAN

(* The types in groups, a group for what changes together. *)
LEMMA TypeGroups ==
  /\ TypeOK <=> RemoteTypes /\ ListTypes /\ PageTypes /\ NodesTypes /\ HistoryTypes
  /\ TypeOK' <=> RemoteTypes' /\ ListTypes' /\ PageTypes' /\ NodesTypes' /\ HistoryTypes'
  BY Zenon DEF TypeOK, RemoteTypes, ListTypes, PageTypes, NodesTypes, HistoryTypes

(* What an open page gives the actions: a current row is the row of a rule, *)
(* and its form can be saved.                                               *)
LEMMA CurrentRow ==
  ASSUME FormInv, open
  PROVE  /\ rules \in Seq(Rules) /\ Len(rules) \in Nat /\ rows = Len(rules)
         /\ row \in NoRow .. Len(rules) - 1
         /\ form \in Forms
         /\ row # NoRow => form.who \in Whos /\ form.time = Minute(form.time)
  BY LenProperties DEF FormInv, TypeOK, RowsMatchRules, PageInv

(* What OK and Apply save. *)
LEMMA SavedByOK ==
  ASSUME FormInv, open
  PROVE  Save(rules, row, form) \in Seq(Rules) /\ Len(Save(rules, row, form)) = Len(rules)
  BY CurrentRow, SaveProperties

(* The actions that leave the service, the engine and the jobs alone, and   *)
(* those that leave the dialog alone.                                       *)
LEMMA RemoteUntouched ==
  ASSUME RulesPage \/ NodesPage \/ createConfigurationInterface \/ settingsRestoreDefaults
           \/ configCancelled
  PROVE  UNCHANGED remote
  BY Zenon DEF RulesPage, NodesPage, ruleCurrentItemChanged, EditRule, EditText,
     ruleButtonAdd, ruleButtonRem, nodeButtonAdd, nodeButtonRem, setData,
     createConfigurationInterface, settingsRestoreDefaults, configCancelled

(* The nodes page, other clients and the way to the service leave the
   rules page alone. *)
LEMMA DialogUntouched ==
  ASSUME NodesPage \/ OtherClient \/ StartJob \/ CallFailed \/ onPropertyUpdated
  PROVE  UNCHANGED dialog
  BY Zenon DEF NodesPage, nodeButtonAdd, nodeButtonRem, setData, OtherClient, StartJob,
     CallFailed, onPropertyUpdated

(* The service, the engine and the jobs keep their types. *)
LEMMA ServedTypes ==
  ASSUME RemoteTypes, NEW list \in Seq(Rules), Served(list)
  PROVE  /\ service' \in Seq(Rules)
         /\ signals' \in Seq([about : {"rules", "other"}, list : Seq(Rules)])
         /\ missed' \in BOOLEAN
<1> DEFINE Sig == [about : {"rules", "other"}, list : Seq(Rules)]
<1>1. service' \in Seq(Rules)
  BY DeserializeProperties DEF Served
<1>2. PropertyUpdated(list) \in Sig
  BY DEF PropertyUpdated
<1>3. signals \in Seq(Sig) /\ signals' = Append(signals, PropertyUpdated(list))
  BY DEF RemoteTypes, Served
<1>4. missed' = FALSE
  BY Zenon DEF Served
<1> HIDE DEF Sig
<1>5. signals' \in Seq(Sig)
  BY <1>2, <1>3, AppendProperties
<1>6. QED
  BY <1>1, <1>4, <1>5 DEF Sig

(* A connection that is made anew brings nothing over. *)
LEMMA ReconnectedTypes ==
  ASSUME NEW lost \in BOOLEAN, missed \in BOOLEAN, Reconnected(lost)
  PROVE  /\ signals' \in Seq([about : {"rules", "other"}, list : Seq(Rules)])
         /\ due' \in BOOLEAN /\ missed' \in BOOLEAN
<1> DEFINE Sig == [about : {"rules", "other"}, list : Seq(Rules)]
<1>1. signals' = <<>> /\ due' = TRUE
      /\ missed' = (missed \/ lost \/ \E i \in DOMAIN signals : signals[i] # Other)
  BY Zenon DEF Reconnected
<1>2. missed' \in BOOLEAN
  BY <1>1
<1>3. <<>> \in Seq(Sig)
  BY EmptySeq
<1>4. QED
  BY <1>1, <1>2, <1>3

(* The engine's and the service's variables keep their types. *)
LEMMA RemoteTypesKept ==
  ASSUME FormInv, [Next]_vars
  PROVE  RemoteTypes'
<1> DEFINE Sig == [about : {"rules", "other"}, list : Seq(Rules)]
<1>1. RemoteTypes
  BY TypeGroups DEF FormInv
<1>2. service \in Seq(Rules) /\ data \in Seq(Rules) /\ due \in BOOLEAN /\ missed \in BOOLEAN
      /\ signals \in Seq(Sig) /\ jobs \in Seq(Seq(Rules))
  BY <1>1 DEF RemoteTypes
<1>3. ASSUME UNCHANGED remote PROVE RemoteTypes'
  BY <1>1, <1>3 DEF remote, RemoteTypes
<1>4. ASSUME NEW left \in BOOLEAN, configAccepted(left) PROVE RemoteTypes'
  <2>1. rules' \in Seq(Rules)
    BY <1>4, SavedByOK, Zenon DEF configAccepted
  <2>2. jobs' = Append(jobs, rules') \/ jobs' = jobs
    BY <1>4, Zenon DEF configAccepted, SetProperty
  <2>3. jobs' \in Seq(Seq(Rules))
    <3> DEFINE Lists == Seq(Rules)
    <3>1. jobs \in Seq(Lists) /\ rules' \in Lists
      BY <1>2, <2>1
    <3> HIDE DEF Lists
    <3>2. jobs' \in Seq(Lists)
      BY <2>2, <3>1, AppendProperties
    <3>3. QED
      BY <3>2 DEF Lists
  <2>4. UNCHANGED <<service, data, due, signals, missed>>
    BY <1>4, Zenon DEF configAccepted
  <2>5. QED
    BY <1>1, <2>3, <2>4 DEF RemoteTypes
<1>5. ASSUME Reload PROVE RemoteTypes'
  <2>1. (data' = service \/ data' = <<>>) /\ due' = TRUE /\ (missed' = TRUE \/ missed' = FALSE)
        /\ signals' = <<>> /\ jobs' = <<>> /\ service' = service
    BY <1>5, Zenon DEF Reload, updateSourceEvent
  <2>2. <<>> \in Seq(Sig) /\ <<>> \in Seq(Seq(Rules)) /\ <<>> \in Seq(Rules)
    BY EmptySeq
  <2>3. data' \in Seq(Rules) /\ service' \in Seq(Rules)
    BY <1>2, <2>1, <2>2
  <2>4. signals' \in Seq(Sig) /\ jobs' \in Seq(Seq(Rules))
    BY <2>1, <2>2
  <2>5. due' \in BOOLEAN /\ missed' \in BOOLEAN
    BY <2>1
  <2>6. QED
    BY <2>3, <2>4, <2>5 DEF RemoteTypes
<1>6. CASE RulesPage \/ NodesPage \/ createConfigurationInterface \/ settingsRestoreDefaults
             \/ configCancelled
  BY <1>3, <1>6, RemoteUntouched
<1>7. CASE okClicked \/ applyClicked
  <2>1. configAccepted(FALSE) \/ configAccepted(TRUE)
    BY <1>7, Zenon DEF okClicked, applyClicked
  <2>2. QED
    BY <1>4, <2>1
<1>8. CASE Restart \/ Crash
  BY <1>5, <1>8, Zenon DEF Restart, Crash
<1>9. CASE OtherClient
  <2>1. UNCHANGED <<data, due, jobs>>
    BY <1>9, Zenon DEF OtherClient
  <2>2. CASE \E list \in OtherRules : Served(list)
    <3>1. PICK list \in OtherRules : Served(list)
      BY <2>2
    <3>2. list \in Seq(Rules)
      BY RulesAssumption
    <3>3. service' \in Seq(Rules) /\ signals' \in Seq(Sig) /\ missed' \in BOOLEAN
      BY <1>1, <3>1, <3>2, ServedTypes
    <3>4. QED
      BY <1>2, <2>1, <3>3 DEF RemoteTypes
  <2>3. CASE signals' = Append(signals, Other) /\ UNCHANGED <<service, missed>>
    <3>1. Other \in Sig
      BY EmptySeq DEF Other
    <3> HIDE DEF Sig
    <3>2. signals' \in Seq(Sig)
      BY <1>2, <2>3, <3>1, AppendProperties
    <3>3. QED
      BY <1>2, <2>1, <2>3, <3>2 DEF RemoteTypes, Sig
  <2>4. QED
    BY <1>9, <2>2, <2>3, Zenon DEF OtherClient
<1>10. CASE StartJob
  <2>1. jobs # <<>> /\ jobs' = Tail(jobs) /\ data' = data
    BY <1>10, Zenon DEF StartJob
  <2>2. Head(jobs) \in Seq(Rules) /\ jobs' \in Seq(Seq(Rules))
    BY <1>2, <2>1, HeadTailProperties
  <2>3. /\ \/ UNCHANGED <<service, signals, missed, due>>
           \/ Served(Head(jobs)) /\ UNCHANGED due
           \/ Reconnected(FALSE) /\ UNCHANGED service
           \/ Reconnected(TRUE) /\ service' = Deserialize(Head(jobs))
    BY <1>10, Zenon DEF StartJob, JobDone, JobFailed
  <2>4. CASE UNCHANGED <<service, signals, missed, due>>
    BY <1>1, <2>1, <2>2, <2>4 DEF RemoteTypes
  <2>5. CASE Served(Head(jobs)) /\ UNCHANGED due
    <3>1. service' \in Seq(Rules) /\ signals' \in Seq(Sig) /\ missed' \in BOOLEAN
      BY <1>1, <2>2, <2>5, ServedTypes
    <3>2. QED
      BY <1>2, <2>1, <2>2, <2>5, <3>1 DEF RemoteTypes
  <2>6. CASE (Reconnected(FALSE) /\ UNCHANGED service)
             \/ (Reconnected(TRUE) /\ service' = Deserialize(Head(jobs)))
    <3>1. signals' \in Seq(Sig) /\ due' \in BOOLEAN /\ missed' \in BOOLEAN
      BY <1>2, <2>6, ReconnectedTypes
    <3>2. service' \in Seq(Rules)
      BY <1>2, <2>2, <2>6, DeserializeProperties
    <3>3. QED
      BY <1>2, <2>1, <2>2, <3>1, <3>2 DEF RemoteTypes
  <2>7. QED
    BY <2>3, <2>4, <2>5, <2>6, Zenon
<1>11. CASE CallFailed
  <2>1. Reconnected(FALSE) /\ UNCHANGED <<service, data, jobs>>
    BY <1>11, Zenon DEF CallFailed
  <2>2. signals' \in Seq(Sig) /\ due' \in BOOLEAN /\ missed' \in BOOLEAN
    BY <1>2, <2>1, ReconnectedTypes
  <2>3. QED
    BY <1>2, <2>1, <2>2 DEF RemoteTypes
<1>12. CASE onPropertyUpdated
  <2>1. /\ signals # <<>> /\ signals' = Tail(signals)
        /\ data' = data \/ data' = Head(signals).list
        /\ due' = TRUE /\ UNCHANGED <<service, jobs, missed>>
    BY <1>12, Zenon DEF onPropertyUpdated
  <2>2. Head(signals) \in Sig /\ signals' \in Seq(Sig)
    <3> HIDE DEF Sig
    <3>1. QED
      BY <1>2, <2>1, HeadTailProperties
  <2>3. Head(signals).list \in Seq(Rules)
    BY <2>2
  <2>4. QED
    BY <1>2, <2>1, <2>2, <2>3 DEF RemoteTypes
<1>13. CASE dataUpdated
  <2>1. due' = FALSE /\ UNCHANGED <<service, data, signals, jobs, missed>>
    BY <1>13, Zenon DEF dataUpdated
  <2>2. QED
    BY <1>1, <2>1 DEF RemoteTypes
<1>14. CASE UNCHANGED vars
  BY <1>3, <1>14, Zenon DEF vars, remote
<1>15. QED
  BY <1>6, <1>7, <1>8, <1>9, <1>10, <1>11, <1>12, <1>13, <1>14, Zenon DEF Next, Dialog

(* The rules, the list of rows and the form. *)
DialogInv == ListTypes /\ PageTypes /\ RowsMatchRules /\ PageInv /\ FormShowsRule

(* A form that shows nothing is a form, and so is that of a new page. *)
LEMMA EmptyFormType ==
  EmptyForm \in Forms /\ NewForm \in Forms
<1>1. /\ Blank.days \in Days /\ Blank.kind \in Kinds /\ Blank.text \in Texts
      /\ Blank.repeats \in Repeats /\ PageTime \in Times
  BY RulesAssumption
<1>2. EmptyForm \in Forms
  BY <1>1, ConstantTypes DEF EmptyForm, Forms
<1>3. NewForm = [EmptyForm EXCEPT !.time = PageTime]
  BY DEF NewForm
<1> HIDE DEF EmptyForm
<1>4. NewForm \in Forms
  BY <1>1, <1>2, <1>3 DEF Forms
<1>5. QED
  BY <1>2, <1>4

(* An open page whose current row, if there is one, has its rule in the     *)
(* form.                                                                    *)
LEMMA PageKeeps ==
  ASSUME rules' \in Seq(Rules), saved' \in Seq(Rules), rows' = Len(rules'),
         row' \in NoRow .. Len(rules') - 1, form' \in Forms,
         open' = TRUE, linked' = TRUE,
         row' # NoRow => /\ form'.who \in Whos /\ form'.time = Minute(form'.time)
                         /\ Shows(form', rules'[row' + 1])
  PROVE  DialogInv'
<1>1. Len(rules') \in Nat
  BY LenProperties
<1>2. ListTypes'
  BY DEF ListTypes
<1>3. PageTypes'
  BY <1>1 DEF PageTypes
<1>4. Shows(form, rules[row + 1])' = Shows(form', rules'[row' + 1])
  BY Zenon DEF Shows, Minute
<1>5. RowsMatchRules' /\ PageInv'
  BY Zenon DEF RowsMatchRules, PageInv, Minute
<1>6. FormShowsRule'
  BY <1>4, Zenon DEF FormShowsRule
<1>7. QED
  BY <1>2, <1>3, <1>5, <1>6 DEF DialogInv

(* A list that is written anew has no current row. *)
LEMMA RulesToCfgKeeps ==
  ASSUME form \in Forms, rules' \in Seq(Rules), rulesToCfg(rules'), open' = TRUE, linked' = TRUE
  PROVE  DialogInv'
<1>1. saved' = rules' /\ rows' = Len(rules') /\ row' = NoRow
      /\ (form' = form \/ form' = EmptyForm)
  BY Zenon DEF rulesToCfg
<1>2. NoRow \in NoRow .. Len(rules') - 1
  BY LenProperties DEF NoRow
<1>3. form' \in Forms
  BY <1>1, EmptyFormType, Zenon
<1>4. QED
  BY <1>1, <1>2, <1>3, PageKeeps

(* Nor has one that is gone. *)
LEMMA ClosedKeeps ==
  ASSUME rules' \in Seq(Rules), saved' \in Seq(Rules), Closed, linked' \in BOOLEAN
  PROVE  DialogInv'
<1>1. open' = FALSE /\ rows' = 0 /\ row' = NoRow /\ form' = EmptyForm
  BY Zenon DEF Closed
<1>2. ListTypes'
  BY DEF ListTypes
<1>3. NoRow \in NoRow .. 0 - 1
  BY DEF NoRow
<1>4. PageTypes'
  BY <1>1, <1>3, EmptyFormType DEF PageTypes
<1>5. RowsMatchRules' /\ PageInv' /\ FormShowsRule'
  BY <1>1, Zenon DEF RowsMatchRules, PageInv, FormShowsRule
<1>6. QED
  BY <1>2, <1>4, <1>5 DEF DialogInv

(* Each act on the page of the rules keeps them. *)
LEMMA OpenPage ==
  ASSUME FormInv, open
  PROVE  DialogInv /\ open = TRUE /\ linked = TRUE /\ saved \in Seq(Rules)
<1>1. DialogInv
  BY TypeGroups, Zenon DEF FormInv, DialogInv
<1>2. open \in BOOLEAN /\ linked \in BOOLEAN /\ linked /\ saved \in Seq(Rules)
  BY Zenon DEF FormInv, TypeOK, PageInv
<1>3. QED
  BY <1>1, <1>2, Zenon

(* Another row is chosen: the old one is saved, the new one shown. *)
LEMMA CurrentItemKeeps ==
  ASSUME FormInv, ruleCurrentItemChanged
  PROVE  DialogInv'
<1>1. open /\ open' = open /\ linked' = linked /\ saved' = saved /\ rows' = rows
  BY Zenon DEF ruleCurrentItemChanged
<1>2. PICK i \in 0 .. rows - 1 :
        row' = i /\ rules' = LoadedRules(rules, i, form) /\ form' = LoadedForm(rules, i, form)
  BY Zenon DEF ruleCurrentItemChanged, loadRule
<1>3. rules \in Seq(Rules) /\ Len(rules) \in Nat /\ rows = Len(rules) /\ form \in Forms
  BY <1>1, CurrentRow
<1>4. i \in NoRow .. Len(rules) - 1 /\ i \in 0 .. Len(rules) - 1
  BY <1>3 DEF NoRow
<1>5. /\ rules' \in Seq(Rules) /\ Len(rules') = Len(rules) /\ form' \in Forms
      /\ form'.who \in Whos /\ form'.time = Minute(form'.time)
      /\ Shows(form', rules'[i + 1])
  BY <1>2, <1>3, <1>4, LoadedProperties
<1>6. open' = TRUE /\ linked' = TRUE /\ saved' \in Seq(Rules)
  BY <1>1, OpenPage
<1>7. rows' = Len(rules') /\ row' \in NoRow .. Len(rules') - 1
  BY <1>1, <1>2, <1>3, <1>4, <1>5
<1>8. Shows(form', rules'[row' + 1])
  BY <1>2, <1>5
<1>9. QED
  BY <1>5, <1>6, <1>7, <1>8, PageKeeps

(* What is saved with an edit is what the form shows after it. *)
LEMMA ModifiedKeeps ==
  ASSUME FormInv, open, row # NoRow,
         NEW f \in Forms, f.who \in Whos, f.time = Minute(f.time), Modified(f),
         UNCHANGED <<saved, open, linked, rows, row>>
  PROVE  DialogInv'
<1>1. rules \in Seq(Rules) /\ Len(rules) \in Nat /\ rows = Len(rules)
      /\ row \in NoRow .. Len(rules) - 1 /\ row \in 0 .. Len(rules) - 1
  BY CurrentRow DEF NoRow
<1>2. rules' = Save(rules, row, f) /\ form' = AfterSave(rules, row, f)
  BY Zenon DEF Modified
<1>3. rules' \in Seq(Rules) /\ Len(rules') = Len(rules)
      /\ rules'[row + 1] = SavedRule(rules[row + 1], f)
  BY <1>1, <1>2, SaveProperties
<1>4. form' \in Forms /\ form'.who \in Whos /\ form'.time = f.time
      /\ Shows(form', SavedRule(rules[row + 1], f))
  BY <1>1, <1>2, AfterSaveProperties
<1>5. Shows(form', rules'[row' + 1])
  BY <1>3, <1>4
<1>6. open' = TRUE /\ linked' = TRUE /\ saved' \in Seq(Rules)
  BY OpenPage
<1>7. rows' = Len(rules') /\ row' \in NoRow .. Len(rules') - 1
  BY <1>1, <1>3
<1>8. form'.time = Minute(form'.time)
  BY <1>4
<1>9. QED
  BY <1>3, <1>4, <1>5, <1>6, <1>7, <1>8, PageKeeps

(* An edit of the form is saved. *)
LEMMA EditKeeps ==
  ASSUME FormInv, EditRule
  PROVE  DialogInv'
<1>1. open /\ row # NoRow /\ UNCHANGED <<saved, open, linked, rows, row>>
  BY Zenon DEF EditRule
<1>2. form \in Forms /\ form.who \in Whos /\ form.time = Minute(form.time)
  BY <1>1, CurrentRow
<1>3. ASSUME NEW f \in Forms, f.who \in Whos, f.time = Minute(f.time), Modified(f)
      PROVE  DialogInv'
  BY <1>1, <1>3, ModifiedKeeps
<1>4. CASE Modified([form EXCEPT !.enabled = ~@])
  <2>1. (~form.enabled) \in BOOLEAN
    OBVIOUS
  <2>2. [form EXCEPT !.enabled = ~@] \in Forms
    BY <1>2, <2>1 DEF Forms
  <2>3. [form EXCEPT !.enabled = ~@].who \in Whos
        /\ [form EXCEPT !.enabled = ~@].time = Minute([form EXCEPT !.enabled = ~@].time)
    BY <1>2 DEF Forms
  <2>4. QED
    BY <1>3, <1>4, <2>2, <2>3
<1>5. CASE \E t \in {t \in Times : t = Minute(t)} :
             t # form.time /\ Modified([form EXCEPT !.time = t])
  <2>1. PICK t \in Times : t = Minute(t) /\ Modified([form EXCEPT !.time = t])
    BY <1>5
  <2>2. [form EXCEPT !.time = t] \in Forms /\ [form EXCEPT !.time = t].who \in Whos
        /\ [form EXCEPT !.time = t].time = t
    BY <1>2 DEF Forms
  <2>3. QED
    BY <1>3, <2>1, <2>2
<1>6. CASE \E d \in Days : d # form.days /\ Modified([form EXCEPT !.days = d])
  <2>1. PICK d \in Days : Modified([form EXCEPT !.days = d])
    BY <1>6
  <2>2. [form EXCEPT !.days = d] \in Forms /\ [form EXCEPT !.days = d].who \in Whos
        /\ [form EXCEPT !.days = d].time = form.time
    BY <1>2 DEF Forms
  <2>3. QED
    BY <1>2, <1>3, <2>1, <2>2
<1>7. CASE \E k \in Kinds :
             /\ k # form.kind
             /\ Modified([form EXCEPT !.kind = k, !.crossed = <<k, form.text>> \in Refused])
  <2>1. PICK k \in Kinds :
          Modified([form EXCEPT !.kind = k, !.crossed = <<k, form.text>> \in Refused])
    BY <1>7
  <2> DEFINE crossed == <<k, form.text>> \in Refused
             f == [form EXCEPT !.kind = k, !.crossed = crossed]
  <2>2. crossed \in BOOLEAN
    OBVIOUS
  <2> HIDE DEF crossed
  <2>3. f \in Forms /\ f.who \in Whos /\ f.time = form.time
    BY <1>2, <2>2 DEF Forms
  <2>4. Modified(f)
    BY <2>1, Zenon DEF crossed
  <2> HIDE DEF f
  <2>5. QED
    BY <1>2, <1>3, <2>3, <2>4
<1>8. CASE \E n \in Repeats : n # form.repeats /\ Modified([form EXCEPT !.repeats = n])
  <2>1. PICK n \in Repeats : Modified([form EXCEPT !.repeats = n])
    BY <1>8
  <2>2. [form EXCEPT !.repeats = n] \in Forms /\ [form EXCEPT !.repeats = n].who \in Whos
        /\ [form EXCEPT !.repeats = n].time = form.time
    BY <1>2 DEF Forms
  <2>3. QED
    BY <1>2, <1>3, <2>1, <2>2
<1>9. QED
  BY <1>4, <1>5, <1>6, <1>7, <1>8, Zenon DEF EditRule

(* An address or a text that is valid is saved with the form; one that is   *)
(* refused stays in the form, struck out, and not in the rule.              *)
LEMMA EditTextKeeps ==
  ASSUME FormInv, EditText
  PROVE  DialogInv'
<1>1. open /\ row # NoRow /\ UNCHANGED <<saved, open, linked, rows, row>>
  BY Zenon DEF EditText
<1>2. /\ rules \in Seq(Rules) /\ rows = Len(rules) /\ row \in NoRow .. Len(rules) - 1
      /\ form \in Forms /\ form.who \in Whos /\ form.time = Minute(form.time)
  BY <1>1, CurrentRow
<1>3. Shows(form, rules[row + 1])
  BY <1>1, Zenon DEF FormInv, FormShowsRule
<1>4. open' = TRUE /\ linked' = TRUE /\ saved' \in Seq(Rules)
  BY <1>1, OpenPage
<1>5. ASSUME NEW f \in Forms, f.who \in Whos, f.time = Minute(f.time), Modified(f)
      PROVE  DialogInv'
  BY <1>1, <1>5, ModifiedKeeps
<1>6. CASE \E a \in ValidAddresses :
             a # form.who /\ Modified([form EXCEPT !.who = a, !.struck = FALSE])
  <2>1. PICK a \in ValidAddresses : Modified([form EXCEPT !.who = a, !.struck = FALSE])
    BY <1>6
  <2>2. a \in Whos
    BY DEF Whos
  <2>3. [form EXCEPT !.who = a, !.struck = FALSE] \in Forms
        /\ [form EXCEPT !.who = a, !.struck = FALSE].who = a
        /\ [form EXCEPT !.who = a, !.struck = FALSE].time = form.time
    BY <1>2, <2>2 DEF Forms
  <2>4. QED
    BY <1>2, <1>5, <2>1, <2>2, <2>3
<1>7. CASE /\ \E a \in BadAddresses : form' = [form EXCEPT !.who = a, !.struck = TRUE]
           /\ UNCHANGED rules
  <2>1. PICK a \in BadAddresses : form' = [form EXCEPT !.who = a, !.struck = TRUE]
    BY <1>7
  <2>2. a \in Whos
    BY DEF Whos
  <2>3. /\ form' \in Forms /\ form'.who = a /\ form'.struck = TRUE
        /\ form'.enabled = form.enabled /\ form'.time = form.time /\ form'.days = form.days
        /\ form'.kind = form.kind /\ form'.text = form.text /\ form'.repeats = form.repeats
        /\ form'.crossed = form.crossed /\ form'.half = form.half
    BY <1>2, <2>1, <2>2 DEF Forms
  <2>4. Shows(form', rules[row + 1])
    BY <1>3, <2>3 DEF Shows
  <2>5. rules' = rules /\ row' = row /\ rows' = rows
    BY <1>1, <1>7
  <2>6. QED
    BY <1>2, <1>4, <2>2, <2>3, <2>4, <2>5, PageKeeps
<1>8. CASE \E x \in Texts :
             /\ HasText(form.kind) /\ <<form.kind, x>> \notin Refused /\ x # form.text
             /\ Modified([form EXCEPT !.text = x, !.crossed = FALSE])
  <2>1. PICK x \in Texts : Modified([form EXCEPT !.text = x, !.crossed = FALSE])
    BY <1>8
  <2>2. [form EXCEPT !.text = x, !.crossed = FALSE] \in Forms
        /\ [form EXCEPT !.text = x, !.crossed = FALSE].who = form.who
        /\ [form EXCEPT !.text = x, !.crossed = FALSE].time = form.time
    BY <1>2 DEF Forms
  <2>3. QED
    BY <1>2, <1>5, <2>1, <2>2
<1>9. CASE /\ \E x \in Texts :
                /\ <<form.kind, x>> \in Refused /\ x # form.text
                /\ form' = [form EXCEPT !.text = x, !.crossed = TRUE]
           /\ UNCHANGED rules
  <2>1. PICK x \in Texts : form' = [form EXCEPT !.text = x, !.crossed = TRUE]
    BY <1>9
  <2>2. /\ form' \in Forms /\ form'.who = form.who /\ form'.struck = form.struck
        /\ form'.enabled = form.enabled /\ form'.time = form.time /\ form'.days = form.days
        /\ form'.kind = form.kind /\ form'.repeats = form.repeats
        /\ form'.crossed = TRUE /\ form'.half = form.half
    BY <1>2, <2>1 DEF Forms
  <2>3. Shows(form', rules[row + 1])
    BY <1>3, <2>2 DEF Shows
  <2>4. rules' = rules /\ row' = row /\ rows' = rows
    BY <1>1, <1>9
  <2>5. QED
    BY <1>2, <1>4, <2>2, <2>3, <2>4, PageKeeps
<1>10. QED
  BY <1>6, <1>7, <1>8, <1>9, Zenon DEF EditText

(* A rule is added at the end, with a row. *)
LEMMA AddKeeps ==
  ASSUME FormInv, ruleButtonAdd
  PROVE  DialogInv'
<1> DEFINE list == Append(rules, NewRule)
<1>1. /\ open /\ UNCHANGED <<saved, open, linked>>
      /\ rules' = LoadedRules(list, rows, form) /\ form' = LoadedForm(list, rows, form)
      /\ rows' = rows + 1 /\ row' = rows
  BY Zenon DEF ruleButtonAdd, loadRule
<1>2. rules \in Seq(Rules) /\ Len(rules) \in Nat /\ rows = Len(rules) /\ form \in Forms
  BY <1>1, CurrentRow
<1>3. list \in Seq(Rules) /\ Len(list) = Len(rules) + 1
  BY <1>2, ConstantTypes, AppendProperties
<1> HIDE DEF list
<1>4. rows \in NoRow .. Len(list) - 1 /\ rows \in 0 .. Len(list) - 1
  BY <1>2, <1>3 DEF NoRow
<1>5. /\ rules' \in Seq(Rules) /\ Len(rules') = Len(list) /\ form' \in Forms
      /\ form'.who \in Whos /\ form'.time = Minute(form'.time)
      /\ Shows(form', rules'[rows + 1])
  BY <1>1, <1>2, <1>3, <1>4, LoadedProperties
<1>6. open' = TRUE /\ linked' = TRUE /\ saved' \in Seq(Rules)
  BY <1>1, OpenPage
<1>7. rows' = Len(rules') /\ row' \in NoRow .. Len(rules') - 1
  BY <1>1, <1>2, <1>3, <1>4, <1>5
<1>8. Shows(form', rules'[row' + 1])
  BY <1>1, <1>5
<1>9. QED
  BY <1>5, <1>6, <1>7, <1>8, PageKeeps

(* A rule is removed, and its row. *)
LEMMA RemKeeps ==
  ASSUME FormInv, ruleButtonRem
  PROVE  DialogInv'
<1> DEFINE n == Neighbour
           list == NeighbourLoaded
<1>1. /\ open /\ row # NoRow /\ UNCHANGED <<saved, open, linked>>
      /\ rules' = RemoveAt(list, row + 1)
      /\ form' = IF n = NoRow THEN EmptyForm ELSE LoadedForm(rules, n, form)
      /\ rows' = rows - 1 /\ row' = IF row + 1 < rows THEN row ELSE row - 1
  BY Zenon DEF ruleButtonRem
<1>2. rules \in Seq(Rules) /\ Len(rules) \in Nat /\ rows = Len(rules) /\ form \in Forms
      /\ row \in 0 .. Len(rules) - 1
  BY <1>1, CurrentRow DEF NoRow
<1>3. n = IF row + 1 < rows THEN row + 1 ELSE row - 1
  BY DEF Neighbour
<1>4. list = IF n = NoRow THEN rules ELSE LoadedRules(rules, n, form)
  BY Zenon DEF NeighbourLoaded
<1> HIDE DEF n, list
<1>5. n \in NoRow .. Len(rules) - 1
  BY <1>2, <1>3 DEF NoRow
<1>6. /\ list \in Seq(Rules) /\ Len(list) = Len(rules) /\ form' \in Forms
      /\ n # NoRow => /\ form'.who \in Whos /\ form'.time = Minute(form'.time)
                      /\ Shows(form', list[n + 1])
  <2>1. CASE n = NoRow
    <3>1. list = rules /\ form' = EmptyForm
      BY <1>1, <1>4, <2>1, Zenon
    <3>2. form' \in Forms
      BY <3>1, EmptyFormType, Zenon
    <3>3. QED
      BY <1>2, <2>1, <3>1, <3>2, Zenon
  <2>2. CASE n # NoRow
    <3>1. list = LoadedRules(rules, n, form) /\ form' = LoadedForm(rules, n, form)
      BY <1>1, <1>4, <2>2, Zenon
    <3>2. n \in 0 .. Len(rules) - 1
      BY <1>2, <1>5, <2>2 DEF NoRow
    <3>3. QED
      BY <1>2, <3>1, <3>2, LoadedProperties
  <2>3. QED
    BY <2>1, <2>2, Zenon
<1>7. row + 1 \in 1 .. Len(list)
  BY <1>2, <1>6
<1>8. /\ rules' \in Seq(Rules) /\ Len(rules') = Len(list) - 1
      /\ \A j \in 1 .. Len(list) - 1 : rules'[j] = IF j < row + 1 THEN list[j] ELSE list[j + 1]
  BY <1>1, <1>6, <1>7, RemoveAtProperties
<1>9. open' = TRUE /\ linked' = TRUE /\ saved' \in Seq(Rules)
  BY <1>1, OpenPage
<1>10. rows' = Len(rules') /\ row' \in NoRow .. Len(rules') - 1
  BY <1>1, <1>2, <1>6, <1>8 DEF NoRow
<1>11. ASSUME row' # NoRow
       PROVE  n # NoRow /\ rules'[row' + 1] = list[n + 1]
  <2>1. CASE row + 1 < rows
    <3>1. n = row + 1 /\ row' = row /\ row + 1 \in 1 .. Len(list) - 1 /\ ~(row + 1 < row + 1)
      BY <1>1, <1>2, <1>3, <1>6, <2>1
    <3>2. rules'[row + 1] = list[(row + 1) + 1]
      BY <1>8, <3>1
    <3>3. QED
      BY <1>2, <3>1, <3>2 DEF NoRow
  <2>2. CASE ~(row + 1 < rows)
    <3>1. n = row - 1 /\ row' = row - 1
      BY <1>1, <1>3, <2>2
    <3>2. row \in 1 .. Len(list) - 1 /\ row < row + 1 /\ row - 1 + 1 = row
      BY <1>2, <1>6, <1>11, <3>1 DEF NoRow
    <3>3. rules'[row] = list[row]
      BY <1>8, <3>2
    <3>4. QED
      BY <1>11, <3>1, <3>2, <3>3
  <2>3. QED
    BY <2>1, <2>2
<1>12. row' # NoRow => /\ form'.who \in Whos /\ form'.time = Minute(form'.time)
                       /\ Shows(form', rules'[row' + 1])
  BY <1>6, <1>11
<1>13. QED
  BY <1>6, <1>8, <1>9, <1>10, <1>12, PageKeeps

(* The buttons of the dialog. *)
LEMMA CreateKeeps ==
  ASSUME FormInv, createConfigurationInterface
  PROVE  DialogInv'
<1>1. /\ open' = TRUE /\ linked' = TRUE /\ rules' = rules /\ saved' = rules
      /\ rows' = Len(rules) /\ row' = NoRow /\ form' = NewForm
  BY Zenon DEF createConfigurationInterface
<1>2. rules \in Seq(Rules)
  BY DEF FormInv, TypeOK
<1>3. form' \in Forms
  BY <1>1, EmptyFormType, Zenon
<1>4. NoRow \in NoRow .. Len(rules) - 1
  BY <1>2, LenProperties DEF NoRow
<1>5. QED
  BY <1>1, <1>2, <1>3, <1>4, PageKeeps

(* Defaults takes the edited rules for the saved ones and fills the page
   again. *)
LEMMA DefaultsKeeps ==
  ASSUME FormInv, settingsRestoreDefaults
  PROVE  DialogInv'
<1>1. open /\ UNCHANGED <<rules, open, linked>> /\ rulesToCfg(rules)
  BY Zenon DEF settingsRestoreDefaults
<1>2. rules \in Seq(Rules) /\ form \in Forms
  BY DEF FormInv, TypeOK
<1>3. open' = TRUE /\ linked' = TRUE
  BY <1>1, OpenPage
<1>4. QED
  BY <1>1, <1>2, <1>3, RulesToCfgKeeps

(* OK saves the form and closes the dialog. *)
LEMMA OKKeeps ==
  ASSUME FormInv, okClicked
  PROVE  DialogInv'
<1>1. open /\ Closed /\ rules' = Save(rules, row, form) /\ UNCHANGED <<saved, linked>>
  BY Zenon DEF okClicked, configAccepted
<1>2. rules' \in Seq(Rules)
  BY <1>1, SavedByOK
<1>3. saved' \in Seq(Rules) /\ linked' \in BOOLEAN
  BY <1>1, OpenPage
<1>4. QED
  BY <1>1, <1>2, <1>3, ClosedKeeps

(* Apply saves the form and leaves the dialog open. *)
LEMMA ApplyKeeps ==
  ASSUME FormInv, applyClicked
  PROVE  DialogInv'
<1>1. /\ open /\ rules' = Save(rules, row, form) /\ form' = AfterSave(rules, row, form)
      /\ UNCHANGED <<saved, open, linked, rows, row>>
  BY Zenon DEF applyClicked, configAccepted
<1>2. /\ rules \in Seq(Rules) /\ Len(rules) \in Nat /\ rows = Len(rules) /\ form \in Forms
      /\ row \in NoRow .. Len(rules) - 1
      /\ row # NoRow => form.who \in Whos /\ form.time = Minute(form.time)
  BY <1>1, CurrentRow
<1>3. /\ rules' \in Seq(Rules) /\ Len(rules') = Len(rules)
      /\ row # NoRow => rules'[row + 1] = SavedRule(rules[row + 1], form)
  BY <1>1, <1>2, SaveProperties
<1>4. open' = TRUE /\ linked' = TRUE /\ saved' \in Seq(Rules)
  BY <1>1, OpenPage
<1>5. CASE row = NoRow
  <2>1. form' = form
    BY <1>1, <1>5, Zenon DEF AfterSave
  <2>2. QED
    BY <1>1, <1>2, <1>3, <1>4, <1>5, <2>1, PageKeeps
<1>6. CASE row # NoRow
  <2>1. row \in 0 .. Len(rules) - 1
    BY <1>2, <1>6 DEF NoRow
  <2>2. /\ form' \in Forms /\ form'.who \in Whos /\ form'.time = form.time
        /\ Shows(form', SavedRule(rules[row + 1], form))
    BY <1>1, <1>2, <1>6, <2>1, AfterSaveProperties
  <2>3. Shows(form', rules'[row' + 1])
    BY <1>1, <1>3, <1>6, <2>2
  <2>4. form'.time = Minute(form'.time)
    BY <1>2, <1>6, <2>2
  <2>5. QED
    BY <1>1, <1>2, <1>3, <1>4, <2>2, <2>3, <2>4, PageKeeps
<1>7. QED
  BY <1>5, <1>6

(* Cancel closes the dialog, with the rules that were saved. *)
LEMMA CancelKeeps ==
  ASSUME FormInv, configCancelled
  PROVE  DialogInv'
<1>1. open /\ Closed /\ rules' = Deserialize(saved) /\ UNCHANGED <<saved, linked>>
  BY Zenon DEF configCancelled
<1>2. saved \in Seq(Rules) /\ linked' \in BOOLEAN
  BY <1>1, OpenPage
<1>3. rules' \in Seq(Rules)
  BY <1>1, <1>2, DeserializeProperties
<1>4. QED
  BY <1>1, <1>2, <1>3, ClosedKeeps

(* A restart of the widget begins without the dialog. *)
LEMMA ReloadKeeps ==
  ASSUME FormInv, Reload
  PROVE  DialogInv'
<1>1. rules' = <<>> /\ saved' = <<>> /\ Closed /\ linked' = FALSE
  BY Zenon DEF Reload
<1>2. rules' \in Seq(Rules) /\ saved' \in Seq(Rules)
  BY <1>1, EmptySeq
<1>3. QED
  BY <1>1, <1>2, ClosedKeeps

(* Rules that come from the engine replace the list that is open, or leave  *)
(* no page to disagree with.                                                *)
LEMMA UpdateKeeps ==
  ASSUME FormInv, dataUpdated
  PROVE  DialogInv'
<1>1. /\ rules' = IF data # rules THEN Deserialize(data) ELSE rules
      /\ UNCHANGED <<open, linked>>
  BY Zenon DEF dataUpdated
<1>2. rules \in Seq(Rules) /\ data \in Seq(Rules) /\ saved \in Seq(Rules) /\ form \in Forms
  BY DEF FormInv, TypeOK
<1>3. rules' \in Seq(Rules)
  BY <1>1, <1>2, DeserializeProperties
<1>4. CASE data = rules
  <2>1. UNCHANGED dialog
    BY <1>1, <1>4, Zenon DEF dataUpdated, dialog
  <2>2. DialogInv
    BY TypeGroups, Zenon DEF FormInv, DialogInv
  <2>3. QED
    BY <2>1, <2>2 DEF dialog, DialogInv, ListTypes, PageTypes, RowsMatchRules, PageInv,
       FormShowsRule, Shows
<1>5. CASE data # rules /\ open
  <2>1. linked /\ open' = TRUE /\ linked' = TRUE
    BY <1>1, <1>5, OpenPage
  <2>2. rulesToCfg(rules')
    BY <1>5, <2>1, Zenon DEF dataUpdated
  <2>3. QED
    BY <1>2, <1>3, <2>1, <2>2, RulesToCfgKeeps
<1>6. CASE data # rules /\ ~open
  <2>1. UNCHANGED <<rows, row, form>> /\ (saved' = rules' \/ saved' = saved)
    BY <1>6, Zenon DEF dataUpdated
  <2>2. saved' \in Seq(Rules)
    BY <1>2, <1>3, <2>1
  <2>3. PageTypes' /\ row' = NoRow
    <3>1. PageTypes /\ row = NoRow
      BY <1>6, TypeGroups DEF FormInv, PageInv
    <3>2. QED
      BY <1>1, <2>1, <3>1 DEF PageTypes
  <2>4. ~open'
    BY <1>1, <1>6
  <2>5. RowsMatchRules' /\ PageInv' /\ FormShowsRule'
    BY <2>3, <2>4, Zenon DEF RowsMatchRules, PageInv, FormShowsRule
  <2>6. QED
    BY <1>3, <2>2, <2>3, <2>5 DEF DialogInv, ListTypes
<1>7. QED
  BY <1>4, <1>5, <1>6

(* Every step keeps the rows and the form. *)
LEMMA DialogKept ==
  ASSUME FormInv, [Next]_vars
  PROVE  DialogInv'
<1>1. ASSUME UNCHANGED dialog PROVE DialogInv'
  <2>1. DialogInv
    BY TypeGroups, Zenon DEF FormInv, DialogInv
  <2>2. QED
    BY <1>1, <2>1 DEF dialog, DialogInv, ListTypes, PageTypes, RowsMatchRules, PageInv,
       FormShowsRule, Shows
<1>2. CASE RulesPage
  BY <1>2, CurrentItemKeeps, EditKeeps, EditTextKeeps, AddKeeps, RemKeeps, Zenon DEF RulesPage
<1>3. CASE NodesPage \/ OtherClient \/ StartJob \/ CallFailed \/ onPropertyUpdated
  BY <1>1, <1>3, DialogUntouched
<1>4. CASE Dialog
  BY <1>4, CreateKeeps, DefaultsKeeps, OKKeeps, ApplyKeeps, CancelKeeps, Zenon DEF Dialog
<1>5. CASE Restart \/ Crash
  BY <1>5, ReloadKeeps, Zenon DEF Restart, Crash
<1>6. CASE dataUpdated
  BY <1>6, UpdateKeeps
<1>7. CASE UNCHANGED vars
  BY <1>1, <1>7, Zenon DEF vars, dialog
<1>8. QED
  BY <1>2, <1>3, <1>4, <1>5, <1>6, <1>7, Zenon DEF Next
-----------------------------------------------------------------------------
(***************************************************************************)
(* The nodes and their controls.                                           *)
(***************************************************************************)
Places == Int \X Int

(* Nodes, and as many controls. *)
NodesFit == NodesTypes /\ ControlCount

(* Controls that are laid out are those of the nodes. *)
LEMMA LayoutProperties ==
  ASSUME nodes' \in Seq(NodeSet), disk' \in Seq(NodeSet), layoutControlWidgets
  PROVE  NodesFit'
<1>1. Len(nodes') \in Nat /\ DOMAIN nodes' = 1 .. Len(nodes')
  BY LenProperties
<1>2. ASSUME NEW i \in 1 .. Len(nodes') PROVE Address(nodes'[i]) \in Places
  <2>1. nodes'[i] \in NodeSet
    BY <1>2, ElementOfSeq
  <2>2. nodes'[i].channel \in Int /\ nodes'[i].unit \in Int
    BY <2>1, Zenon DEF NodeSet
  <2>3. QED
    BY <2>2 DEF Address, Places
<1>3. shown' = [i \in 1 .. Len(nodes') |-> Address(nodes'[i])]
  BY <1>1, Zenon DEF layoutControlWidgets
<1>4. shown' \in Seq(Places) /\ Len(shown') = Len(nodes')
  BY <1>1, <1>2, <1>3
<1>5. QED
  BY <1>4 DEF NodesFit, NodesTypes, ControlCount, Places

(* A value that is forced between two bounds is between them. *)
LEMMA ClampProperties ==
  ASSUME NEW v \in Int, NEW low \in Int, NEW high \in Int, low <= high
  PROVE  Clamp(v, low, high) \in low .. high
  BY DEF Clamp

(* Fields of a node that are set to what a node may have. *)
LEMMA NodeFields ==
  ASSUME NEW n \in NodeSet
  PROVE  /\ \A name \in {""} \cup CutNames :
              /\ [n EXCEPT !.name = name] \in NodeSet
              /\ [n EXCEPT !.name = name].name = name
              /\ [n EXCEPT !.name = name].channel = n.channel
              /\ [n EXCEPT !.name = name].unit = n.unit
         /\ \A c \in Int : [n EXCEPT !.channel = c] \in NodeSet
         /\ \A u \in Int : [n EXCEPT !.unit = u] \in NodeSet
<1> DEFINE given == {""} \cup CutNames
           names == {"Untitled", ""} \cup CutNames
<1>1. NodeSet = [name : names, channel : Int, unit : Int] /\ given \in SUBSET names
  BY Zenon DEF NodeSet
<1> HIDE DEF given, names
<1>2. n \in [name : names, channel : Int, unit : Int]
  BY <1>1, Zenon
<1>3. ASSUME NEW name \in given
      PROVE  /\ [n EXCEPT !.name = name] \in [name : names, channel : Int, unit : Int]
             /\ [n EXCEPT !.name = name].name = name
             /\ [n EXCEPT !.name = name].channel = n.channel
             /\ [n EXCEPT !.name = name].unit = n.unit
  BY <1>1, <1>2
<1>4. ASSUME NEW c \in Int
      PROVE  [n EXCEPT !.channel = c] \in [name : names, channel : Int, unit : Int]
  BY <1>2
<1>5. ASSUME NEW u \in Int
      PROVE  [n EXCEPT !.unit = u] \in [name : names, channel : Int, unit : Int]
  BY <1>2
<1>6. QED
  BY <1>1, <1>3, <1>4, <1>5, Zenon DEF given

(* A new node has an address of its own, as long as one is free. *)
LEMMA AddNodeKeeps ==
  ASSUME NodesFit, AllApart, nodeButtonAdd
  PROVE  NodesFit' /\ AllApart'
<1> DEFINE c == FirstHouse
           n == AvailableFrom(c)
<1>1. /\ nodes' = <<n>> \o nodes
      /\ typed' = (typed \/ Untaken(c) = {})
      /\ layoutControlWidgets /\ disk' = disk
  BY Zenon DEF nodeButtonAdd, insertRows
<1>2. nodes \in Seq(NodeSet) /\ disk \in Seq(NodeSet)
  BY DEF NodesFit, NodesTypes
<1>3. Len(nodes) \in Nat /\ DOMAIN nodes = 1 .. Len(nodes)
  BY <1>2, LenProperties
<1>4. c \in Int
  <2>1. CASE nodes = <<>>
    <3>1. c = 1
      BY <2>1 DEF FirstHouse
    <3>2. QED
      BY <3>1
  <2>2. CASE nodes # <<>>
    <3>1. 1 \in 1 .. Len(nodes)
      BY <1>2, <1>3, <2>2, EmptySeq
    <3>2. nodes[1] \in NodeSet
      BY <1>2, <3>1, ElementOfSeq
    <3>3. nodes[1].channel \in Int
      BY <3>2, Zenon DEF NodeSet
    <3>4. QED
      BY <2>2, <3>3 DEF FirstHouse
  <2>3. QED
    BY <2>1, <2>2
<1> HIDE DEF c
<1>5. n \in NodeSet /\ n.name \notin CutNames
      /\ (Untaken(c) # {} => n.unit \notin Taken(n.channel))
  BY <1>4, AvailableFromProperties
<1> HIDE DEF n
<1>6. <<n>> \in Seq(NodeSet) /\ Len(<<n>>) = 1 /\ <<n>>[1] = n
  BY <1>5
<1>7. /\ nodes' \in Seq(NodeSet) /\ Len(nodes') = 1 + Len(nodes)
      /\ \A i \in 1 .. 1 + Len(nodes) : nodes'[i] = IF i <= 1 THEN <<n>>[i] ELSE nodes[i - 1]
  BY <1>1, <1>2, <1>6, ConcatProperties
<1>8. NodesFit'
  BY <1>1, <1>2, <1>7, LayoutProperties
<1>9. ASSUME ~typed' PROVE Plain(nodes') /\ Plain(disk')
  <2>1. ~typed /\ Untaken(c) # {}
    BY <1>1, <1>9
  <2>2. Plain(nodes) /\ Plain(disk') /\ Apart(nodes)
        /\ \A j \in 1 .. Len(nodes) : nodes[j].name \notin CutNames
    BY <1>1, <1>3, <2>1 DEF AllApart, Plain
  <2>3. n.unit \notin Taken(n.channel)
    BY <1>5, <2>1
  <2>4. \A j \in 1 .. Len(nodes) : ~(nodes[j].channel = n.channel /\ nodes[j].unit = n.unit)
    BY <1>3, <2>3 DEF Taken
  <2>5. nodes'[1] = n
    BY <1>3, <1>6, <1>7
  <2>6. ASSUME NEW i \in 1 .. 1 + Len(nodes), i # 1
        PROVE  i - 1 \in 1 .. Len(nodes) /\ nodes'[i] = nodes[i - 1]
    BY <1>3, <1>7, <2>6
  <2>7. ASSUME NEW i \in 1 .. 1 + Len(nodes), NEW j \in 1 .. 1 + Len(nodes),
               nodes'[i].channel = nodes'[j].channel, nodes'[i].unit = nodes'[j].unit
        PROVE  i = j
    <3>1. CASE i = 1 /\ j = 1
      BY <3>1
    <3>2. CASE i = 1 /\ j # 1
      <4>1. j - 1 \in 1 .. Len(nodes) /\ nodes'[j] = nodes[j - 1]
        BY <2>6, <3>2
      <4>2. QED
        BY <2>4, <2>5, <2>7, <3>2, <4>1
    <3>3. CASE i # 1 /\ j = 1
      <4>1. i - 1 \in 1 .. Len(nodes) /\ nodes'[i] = nodes[i - 1]
        BY <2>6, <3>3
      <4>2. QED
        BY <2>4, <2>5, <2>7, <3>3, <4>1
    <3>4. CASE i # 1 /\ j # 1
      <4>1. /\ i - 1 \in 1 .. Len(nodes) /\ nodes'[i] = nodes[i - 1]
            /\ j - 1 \in 1 .. Len(nodes) /\ nodes'[j] = nodes[j - 1]
        BY <2>6, <3>4
      <4>2. i - 1 = j - 1
        BY <1>3, <2>2, <2>7, <4>1 DEF Apart
      <4>3. QED
        BY <1>3, <4>2
    <3>5. QED
      BY <3>1, <3>2, <3>3, <3>4
  <2>8. DOMAIN nodes' = 1 .. 1 + Len(nodes)
    BY <1>7, LenProperties
  <2>9. Apart(nodes')
    BY <2>7, <2>8 DEF Apart
  <2>10. \A i \in 1 .. 1 + Len(nodes) : nodes'[i].name \notin CutNames
    BY <1>5, <2>2, <2>5, <2>6
  <2>11. QED
    BY <2>2, <2>8, <2>9, <2>10 DEF Plain
<1>10. QED
  BY <1>8, <1>9 DEF AllApart, Plain, Apart

(* Without one of them the others are as far apart as before. *)
LEMMA RemNodeKeeps ==
  ASSUME NodesFit, AllApart, nodeButtonRem
  PROVE  NodesFit' /\ AllApart'
<1>1. PICK i \in DOMAIN nodes : nodes' = RemoveAt(nodes, i) /\ shown' = RemoveAt(shown, i)
  BY Zenon DEF nodeButtonRem, removeRows
<1>2. UNCHANGED <<disk, typed>>
  BY Zenon DEF nodeButtonRem
<1>3. nodes \in Seq(NodeSet) /\ disk \in Seq(NodeSet) /\ shown \in Seq(Places)
      /\ Len(shown) = Len(nodes)
  BY DEF NodesFit, NodesTypes, ControlCount, Places
<1>4. Len(nodes) \in Nat /\ DOMAIN nodes = 1 .. Len(nodes) /\ i \in 1 .. Len(nodes)
  BY <1>3, LenProperties
<1>5. /\ nodes' \in Seq(NodeSet) /\ Len(nodes') = Len(nodes) - 1
      /\ \A j \in 1 .. Len(nodes) - 1 : nodes'[j] = IF j < i THEN nodes[j] ELSE nodes[j + 1]
  BY <1>1, <1>3, <1>4, RemoveAtProperties
<1>6. shown' \in Seq(Places) /\ Len(shown') = Len(shown) - 1
  BY <1>1, <1>3, <1>4, RemoveAtProperties
<1>7. NodesFit'
  BY <1>2, <1>3, <1>5, <1>6 DEF NodesFit, NodesTypes, ControlCount, Places
<1>8. ASSUME ~typed' PROVE Plain(nodes') /\ Plain(disk')
  <2>1. /\ Plain(disk') /\ Apart(nodes)
        /\ \A j \in 1 .. Len(nodes) : nodes[j].name \notin CutNames
    BY <1>2, <1>4, <1>8 DEF AllApart, Plain
  <2> DEFINE At(j) == IF j < i THEN j ELSE j + 1
  <2>2. \A j \in 1 .. Len(nodes) - 1 : At(j) \in 1 .. Len(nodes) /\ nodes'[j] = nodes[At(j)]
    BY <1>4, <1>5
  <2>3. \A j, k \in 1 .. Len(nodes) - 1 : At(j) = At(k) => j = k
    BY <1>4
  <2> HIDE DEF At
  <2>4. ASSUME NEW j \in 1 .. Len(nodes) - 1, NEW k \in 1 .. Len(nodes) - 1,
               nodes'[j].channel = nodes'[k].channel, nodes'[j].unit = nodes'[k].unit
        PROVE  j = k
    <3>1. At(j) = At(k)
      BY <1>4, <2>1, <2>2, <2>4 DEF Apart
    <3>2. QED
      BY <2>3, <3>1
  <2>5. DOMAIN nodes' = 1 .. Len(nodes) - 1
    BY <1>5, LenProperties
  <2>6. Apart(nodes')
    BY <2>4, <2>5 DEF Apart
  <2>7. \A j \in 1 .. Len(nodes) - 1 : nodes'[j].name \notin CutNames
    BY <2>1, <2>2
  <2>8. QED
    BY <2>1, <2>5, <2>6, <2>7 DEF Plain
<1>9. QED
  BY <1>7, <1>8 DEF AllApart, Plain, Apart

(* What is typed makes a node; a name leaves the address alone. *)
LEMMA SetDataKeeps ==
  ASSUME NodesFit, AllApart, setData
  PROVE  NodesFit' /\ AllApart'
<1>1. nodes \in Seq(NodeSet) /\ disk \in Seq(NodeSet) /\ UNCHANGED <<shown, disk>>
      /\ shown \in Seq(Places) /\ Len(shown) = Len(nodes)
  BY DEF NodesFit, NodesTypes, ControlCount, Places, setData
<1>2. Len(nodes) \in Nat /\ DOMAIN nodes = 1 .. Len(nodes)
  BY <1>1, LenProperties
<1>3. ASSUME NEW i \in 1 .. Len(nodes), NEW n \in NodeSet, nodes' = [nodes EXCEPT ![i] = n]
      PROVE  /\ NodesFit'
             /\ n.channel = nodes[i].channel /\ n.unit = nodes[i].unit /\ n.name \notin CutNames =>
                  (Plain(nodes) => Plain(nodes'))
  <2>1. /\ nodes' \in Seq(NodeSet) /\ Len(nodes') = Len(nodes)
        /\ \A j \in 1 .. Len(nodes) : nodes'[j] = IF j = i THEN n ELSE nodes[j]
    BY <1>1, <1>3, ExceptSeq
  <2>2. NodesFit'
    BY <1>1, <2>1 DEF NodesFit, NodesTypes, ControlCount, Places
  <2>3. DOMAIN nodes' = 1 .. Len(nodes)
    BY <2>1, LenProperties
  <2>4. ASSUME n.channel = nodes[i].channel, n.unit = nodes[i].unit, n.name \notin CutNames,
               Plain(nodes)
        PROVE  Plain(nodes')
    <3>1. \A j \in 1 .. Len(nodes) :
            nodes'[j].channel = nodes[j].channel /\ nodes'[j].unit = nodes[j].unit
      BY <2>1, <2>4
    <3>2. Apart(nodes) /\ \A j \in 1 .. Len(nodes) : nodes[j].name \notin CutNames
      BY <1>2, <2>4 DEF Plain
    <3>3. Apart(nodes')
      BY <1>2, <2>3, <3>1, <3>2 DEF Apart
    <3>4. \A j \in 1 .. Len(nodes) : nodes'[j].name \notin CutNames
      BY <2>1, <2>4, <3>2
    <3>5. QED
      BY <2>3, <3>3, <3>4 DEF Plain
  <2>5. QED
    BY <2>2, <2>4
<1>4. PICK i \in 1 .. Len(nodes) :
        \/ \E name \in {""} \cup CutNames :
             /\ nodes' = [nodes EXCEPT ![i].name = name]
             /\ typed' = (typed \/ name \in CutNames)
        \/ \E c \in 0 .. Len(Channels) + 1 :
             /\ nodes' = [nodes EXCEPT ![i].channel = Clamp(c, 1, Len(Channels))]
             /\ typed' = TRUE
        \/ \E u \in {-1, 1, LastUnit + 1} :
             /\ nodes' = [nodes EXCEPT ![i].unit = Clamp(u, 0, LastUnit)]
             /\ typed' = TRUE
  BY <1>2, Zenon DEF setData
<1>5. nodes[i] \in NodeSet
  BY <1>1, ElementOfSeq
<1>6. CASE \E name \in {""} \cup CutNames :
             /\ nodes' = [nodes EXCEPT ![i].name = name]
             /\ typed' = (typed \/ name \in CutNames)
  <2>1. PICK name \in {""} \cup CutNames :
          nodes' = [nodes EXCEPT ![i].name = name] /\ typed' = (typed \/ name \in CutNames)
    BY <1>6, Zenon
  <2> DEFINE n == [nodes[i] EXCEPT !.name = name]
  <2>2. n \in NodeSet /\ n.name = name
        /\ n.channel = nodes[i].channel /\ n.unit = nodes[i].unit
    BY <1>5, NodeFields, Zenon
  <2>3. nodes' = [nodes EXCEPT ![i] = n]
    BY <2>1, Zenon
  <2> HIDE DEF n
  <2>4. NodesFit' /\ (name \notin CutNames => (Plain(nodes) => Plain(nodes')))
    BY <1>3, <2>2, <2>3
  <2>5. disk' = disk
    BY <1>1
  <2>6. ~typed' => Plain(nodes') /\ Plain(disk')
    BY <2>1, <2>4, <2>5, Zenon DEF AllApart
  <2>7. QED
    BY <2>4, <2>6 DEF AllApart, Plain, Apart
<1>7. CASE \E c \in 0 .. Len(Channels) + 1 :
             /\ nodes' = [nodes EXCEPT ![i].channel = Clamp(c, 1, Len(Channels))]
             /\ typed' = TRUE
  <2>1. PICK c \in 0 .. Len(Channels) + 1 :
          nodes' = [nodes EXCEPT ![i].channel = Clamp(c, 1, Len(Channels))]
    BY <1>7
  <2>2. Clamp(c, 1, Len(Channels)) \in Int
    <3>1. Len(Channels) \in Nat \ {0}
      BY ConstantTypes
    <3>2. c \in Int /\ Len(Channels) \in Int /\ 1 <= Len(Channels)
      BY <3>1
    <3>3. QED
      BY <3>1, <3>2, ClampProperties
  <2>3. NodesFit'
    BY <1>3, <1>5, <2>1, <2>2, NodeFields
  <2>4. QED
    BY <1>7, <2>3 DEF AllApart
<1>8. CASE \E u \in {-1, 1, LastUnit + 1} :
             /\ nodes' = [nodes EXCEPT ![i].unit = Clamp(u, 0, LastUnit)]
             /\ typed' = TRUE
  <2>1. PICK u \in {-1, 1, LastUnit + 1} :
          nodes' = [nodes EXCEPT ![i].unit = Clamp(u, 0, LastUnit)]
    BY <1>8
  <2>2. Clamp(u, 0, LastUnit) \in Int
    <3>1. LastUnit \in Nat \ {0}
      BY ConstantTypes
    <3>2. u \in Int /\ LastUnit \in Int /\ 0 <= LastUnit
      BY <3>1
    <3>3. QED
      BY <3>1, <3>2 DEF Clamp
  <2>3. NodesFit'
    BY <1>3, <1>5, <2>1, <2>2, NodeFields
  <2>4. QED
    BY <1>8, <2>3 DEF AllApart
<1>9. QED
  BY <1>4, <1>6, <1>7, <1>8

(* Reading the configuration leaves the nodes at hand, or shows those that  *)
(* were written with a name.                                                *)
LEMMA ReadConfigKeeps ==
  ASSUME NEW list \in Seq(NodeSet), disk' \in Seq(NodeSet), readConfig(list)
  PROVE  /\ NodesFit'
         /\ Plain(list) /\ Plain(disk') => Plain(nodes')
<1>1. layoutControlWidgets
  BY Zenon DEF readConfig
<1>2. CASE list # <<>>
  <2>1. nodes' = list
    BY <1>2, Zenon DEF readConfig
  <2>2. NodesFit'
    BY <1>1, <2>1, LayoutProperties
  <2>3. QED
    BY <2>1, <2>2, Zenon
<1>3. CASE list = <<>>
  <2>1. PICK order \in Injection(1 .. Cardinality(Valid(disk')), Valid(disk')) :
          nodes' = [k \in DOMAIN order |-> ReadBack(disk'[order[k]])]
    BY <1>3, Zenon DEF readConfig
  <2>2. nodes' \in Seq(NodeSet) /\ (Plain(disk') => Plain(nodes'))
    BY <2>1, ReadNodesProperties
  <2>3. NodesFit'
    BY <1>1, <2>2, LayoutProperties
  <2>4. QED
    BY <2>2, <2>3, Zenon
<1>4. QED
  BY <1>2, <1>3

(* Every step keeps the nodes apart and a control for each. *)
LEMMA NodesKept ==
  ASSUME NodesFit, AllApart, [Next]_vars
  PROVE  NodesFit' /\ AllApart'
<1>1. nodes \in Seq(NodeSet) /\ disk \in Seq(NodeSet)
  BY DEF NodesFit, NodesTypes
<1>2. ASSUME UNCHANGED <<nodes, shown, disk, typed>>
      PROVE  NodesFit' /\ AllApart'
  BY <1>2 DEF NodesFit, NodesTypes, ControlCount, AllApart, Plain, Apart
<1>3. ASSUME NEW left \in BOOLEAN, configAccepted(left) PROVE NodesFit' /\ AllApart'
  <2>1. disk' = nodes /\ typed' = typed /\ readConfig(nodes)
    BY <1>3, Zenon DEF configAccepted, writeConfig
  <2>2. disk' \in Seq(NodeSet)
    BY <1>1, <2>1
  <2>3. NodesFit' /\ (Plain(nodes) /\ Plain(disk') => Plain(nodes'))
    BY <1>1, <2>1, <2>2, ReadConfigKeeps
  <2>4. ASSUME ~typed' PROVE Plain(nodes') /\ Plain(disk')
    <3>1. Plain(nodes)
      BY <2>1, <2>4 DEF AllApart
    <3>2. QED
      BY <2>1, <2>3, <3>1
  <2>5. QED
    BY <2>3, <2>4 DEF AllApart, Plain, Apart
<1>4. ASSUME Reload PROVE NodesFit' /\ AllApart'
  <2>1. disk' = disk /\ typed' = typed /\ readConfig(<<>>)
    BY <1>4, Zenon DEF Reload
  <2>2. <<>> \in Seq(NodeSet) /\ Plain(<<>>)
    BY EmptySeq DEF Plain, Apart
  <2>3. NodesFit' /\ (Plain(disk') => Plain(nodes'))
    BY <1>1, <2>1, <2>2, ReadConfigKeeps
  <2>4. ASSUME ~typed' PROVE Plain(nodes') /\ Plain(disk')
    <3>1. Plain(disk')
      BY <2>1, <2>4 DEF AllApart
    <3>2. QED
      BY <2>3, <3>1
  <2>5. QED
    BY <2>3, <2>4 DEF AllApart, Plain, Apart
<1>5. CASE RulesPage
  BY <1>2, <1>5, Zenon DEF RulesPage, ruleCurrentItemChanged, EditRule, EditText,
     ruleButtonAdd, ruleButtonRem
<1>6. CASE NodesPage
  BY <1>6, AddNodeKeeps, RemNodeKeeps, SetDataKeeps DEF NodesPage
<1>7. CASE createConfigurationInterface \/ settingsRestoreDefaults
  BY <1>2, <1>7, Zenon DEF createConfigurationInterface, settingsRestoreDefaults
<1>8. CASE okClicked \/ applyClicked
  BY <1>3, <1>8, Zenon DEF okClicked, applyClicked
<1>9. CASE configCancelled
  <2>1. UNCHANGED <<nodes, disk, typed>> /\ layoutControlWidgets
    BY <1>9, Zenon DEF configCancelled
  <2>2. NodesFit'
    BY <1>1, <2>1, LayoutProperties
  <2>3. AllApart'
    BY <2>1 DEF AllApart, Plain, Apart
  <2>4. QED
    BY <2>2, <2>3
<1>10. CASE Restart \/ Crash
  BY <1>4, <1>10, Zenon DEF Restart, Crash
<1>11. CASE OtherClient \/ StartJob \/ CallFailed \/ onPropertyUpdated \/ dataUpdated
  BY <1>2, <1>11, Zenon DEF OtherClient, StartJob, CallFailed, onPropertyUpdated, dataUpdated
<1>12. CASE UNCHANGED vars
  BY <1>2, <1>12, Zenon DEF vars
<1>13. QED
  BY <1>5, <1>6, <1>7, <1>8, <1>9, <1>10, <1>11, <1>12, Zenon DEF Next, Dialog

(* Acts are counted up to their bound, and the history is told by truth     *)
(* values.                                                                  *)
LEMMA HistoryKept ==
  ASSUME HistoryTypes, [Next]_vars
  PROVE  HistoryTypes'
<1>1. acts' \in 0 .. MaxActs
  <2>1. acts' = acts \/ (acts < MaxActs /\ acts' = acts + 1)
    BY Zenon DEF Next, RulesPage, NodesPage, Dialog, Act, ruleCurrentItemChanged, EditRule,
       EditText, ruleButtonAdd, ruleButtonRem, nodeButtonAdd, nodeButtonRem, setData,
       createConfigurationInterface, settingsRestoreDefaults, okClicked, applyClicked,
       configCancelled, Restart, Crash, OtherClient, StartJob, CallFailed, onPropertyUpdated,
       dataUpdated, vars
  <2>2. QED
    BY <2>1, ConstantTypes DEF HistoryTypes
<1>2. typed' \in BOOLEAN
  <2>1. \/ typed' = TRUE \/ typed' = typed \/ typed' = (typed \/ Untaken(FirstHouse) = {})
        \/ \E name \in {""} \cup CutNames : typed' = (typed \/ name \in CutNames)
    BY Zenon DEF Next, RulesPage, NodesPage, Dialog, ruleCurrentItemChanged, EditRule,
       EditText, ruleButtonAdd, ruleButtonRem, nodeButtonAdd, insertRows, nodeButtonRem,
       setData, createConfigurationInterface, settingsRestoreDefaults, okClicked, applyClicked,
       configAccepted, configCancelled, Restart, Reload, Crash, OtherClient, StartJob,
       CallFailed, onPropertyUpdated, dataUpdated, vars
  <2>2. typed \in BOOLEAN
    BY DEF HistoryTypes
  <2>3. QED
    BY <2>1, <2>2
<1>3. parted' \in BOOLEAN
  <2>1. parted \in BOOLEAN
    BY DEF HistoryTypes
  <2>2. ASSUME NEW left \in BOOLEAN, configAccepted(left) PROVE parted' \in BOOLEAN
    <3>1. PICK started \in BOOLEAN :
            parted' = (parted \/ left \/ (rules' # saved /\ (~started \/ rules' = <<>>)))
      BY <2>2, Zenon DEF configAccepted
    <3>2. QED
      BY <2>1, <3>1
  <2>3. CASE okClicked \/ applyClicked
    BY <2>2, <2>3, Zenon DEF okClicked, applyClicked
  <2>4. \/ okClicked \/ applyClicked
        \/ parted' = parted \/ parted' = TRUE \/ parted' = FALSE
        \/ parted' = (parted \/ rules # saved)
        \/ parted' = (open /\ data = rules /\ (parted \/ saved # rules))
    BY Zenon DEF Next, RulesPage, NodesPage, Dialog, ruleCurrentItemChanged, EditRule,
       EditText, ruleButtonAdd, ruleButtonRem, nodeButtonAdd, nodeButtonRem,
       setData, createConfigurationInterface, settingsRestoreDefaults,
       configCancelled, Restart, Reload, Crash, OtherClient, StartJob, JobDone, JobFailed,
       CallFailed, onPropertyUpdated, dataUpdated, vars
  <2>5. QED
    BY <2>1, <2>3, <2>4
<1>4. QED
  BY <1>1, <1>2, <1>3 DEF HistoryTypes
-----------------------------------------------------------------------------
(***************************************************************************)
(* The theorems about types, rows, form, nodes.                            *)
(***************************************************************************)
(* The plasmoid begins with nothing but what the service has. *)
LEMMA InitForm ==
  ASSUME Init
  PROVE  FormInv
<1>1. PICK list \in OtherRules : service = Deserialize(list)
  BY DEF Init
<1>2. service \in Seq(Rules)
  BY <1>1, RulesAssumption, DeserializeProperties
<1>3. RemoteTypes
  <2> DEFINE Sig == [about : {"rules", "other"}, list : Seq(Rules)]
  <2>1. data = service /\ due = TRUE /\ missed = FALSE /\ signals = <<>> /\ jobs = <<>>
    BY Zenon DEF Init
  <2>2. <<>> \in Seq(Sig) /\ <<>> \in Seq(Seq(Rules))
    BY EmptySeq
  <2>3. QED
    BY <1>2, <2>1, <2>2 DEF RemoteTypes
<1>4. /\ rules = <<>> /\ saved = <<>> /\ open = FALSE /\ linked = FALSE
      /\ rows = 0 /\ row = NoRow /\ form = EmptyForm
      /\ nodes = <<>> /\ shown = <<>> /\ disk = <<>>
      /\ acts = 0 /\ typed = FALSE /\ parted = FALSE
  BY Zenon DEF Init
<1>5. ListTypes
  BY <1>4, EmptySeq DEF ListTypes
<1>6. PageTypes
  <2>1. NoRow \in NoRow .. 0 - 1
    BY DEF NoRow
  <2>2. QED
    BY <1>4, <2>1, EmptyFormType DEF PageTypes
<1>7. NodesTypes
  <2>1. <<>> \in Seq(NodeSet) /\ <<>> \in Seq(Int \X Int)
    BY EmptySeq
  <2>2. QED
    BY <1>4, <2>1 DEF NodesTypes
<1>8. HistoryTypes
  <2>1. 0 \in 0 .. MaxActs
    BY ConstantTypes
  <2>2. QED
    BY <1>4, <2>1, Zenon DEF HistoryTypes
<1>9. TypeOK
  BY <1>3, <1>5, <1>6, <1>7, <1>8, TypeGroups
<1>10. RowsMatchRules /\ PageInv /\ FormShowsRule
  BY <1>4, Zenon DEF RowsMatchRules, PageInv, FormShowsRule
<1>11. ControlCount /\ AllApart
  BY <1>4 DEF ControlCount, AllApart, Plain, Apart
<1>12. QED
  BY <1>9, <1>10, <1>11 DEF FormInv

(* Every step keeps FormInv. *)
LEMMA NextForm ==
  ASSUME FormInv, [Next]_vars
  PROVE  FormInv'
<1>1. TypeOK /\ NodesFit /\ AllApart /\ HistoryTypes
  BY TypeGroups DEF FormInv, NodesFit
<1>2. RemoteTypes' /\ DialogInv' /\ NodesFit' /\ AllApart' /\ HistoryTypes'
  BY <1>1, RemoteTypesKept, DialogKept, NodesKept, HistoryKept
<1>3. QED
  BY <1>2, TypeGroups, Zenon DEF FormInv, DialogInv, NodesFit

(* Page, form, nodes and types: the inductive invariant of the dialog. *)
THEOREM FormTheorem == Spec => []FormInv
<1>1. Init => FormInv
  BY InitForm
<1>2. FormInv /\ [Next]_vars => FormInv'
  BY NextForm
<1>3. QED
  BY <1>1, <1>2, PTL DEF Spec

(* Every variable keeps its type: the current row, if there is one, is a    *)
(* row of the list, whatever was added and removed.                         *)
THEOREM TypeCorrect == Spec => []TypeOK
<1>1. FormInv => TypeOK
  BY DEF FormInv
<1>2. QED
  BY <1>1, FormTheorem, PTL

(* The list of the dialog and the rules behind it never part, wherever      *)
(* updates from the service fall between the user's acts.                   *)
THEOREM RowsAlwaysMatch == Spec => []RowsMatchRules
<1>1. FormInv => RowsMatchRules
  BY DEF FormInv
<1>2. QED
  BY <1>1, FormTheorem, PTL

(* The form shows the rule that its fields are saved to, but for what is    *)
(* struck out and what FormShowsRule says of rules that had seconds.        *)
THEOREM FormAlwaysShows == Spec => []FormShowsRule
<1>1. FormInv => FormShowsRule
  BY DEF FormInv
<1>2. QED
  BY <1>1, FormTheorem, PTL

(* Addresses that the dialog gives are different, whatever was added,       *)
(* removed, written, lost and read back before in whatever order; as long   *)
(* as none is typed, nor a name with a '/' in it, and one is left.          *)
THEOREM NodesAlwaysApart == Spec => []NodesApart
<1>1. FormInv => NodesApart
  BY DEF FormInv, AllApart, Plain, NodesApart
<1>2. QED
  BY <1>1, FormTheorem, PTL

(* With the dialog closed the controls are those of the nodes: whatever     *)
(* changes the nodes either has the dialog open or lays the controls out.   *)
LEMMA LaidOut ==
  layoutControlWidgets => ControlsMatchNodes'
  BY Zenon DEF layoutControlWidgets, ControlsMatchNodes, Address

(* There is a control for each node, after every edit and every restart. *)
THEOREM ControlsAlwaysMatch == Spec => []ControlsMatchNodes
<1>1. Init => ControlsMatchNodes
  <2>1. SUFFICES ASSUME nodes = <<>>, shown = <<>>
                 PROVE  shown = [i \in DOMAIN nodes |-> Address(nodes[i])]
    BY Zenon DEF Init, ControlsMatchNodes
  <2>2. QED
    BY <2>1
<1>2. ControlsMatchNodes /\ [Next]_vars => ControlsMatchNodes'
  <2> SUFFICES ASSUME ControlsMatchNodes, [Next]_vars
               PROVE  ControlsMatchNodes'
    OBVIOUS
  <2>1. ASSUME UNCHANGED <<open, nodes, shown>> PROVE ControlsMatchNodes'
    BY <2>1 DEF ControlsMatchNodes, Address
  <2>2. ASSUME open' PROVE ControlsMatchNodes'
    BY <2>2, Zenon DEF ControlsMatchNodes
  <2>3. CASE RulesPage
    BY <2>1, <2>3, Zenon DEF RulesPage, ruleCurrentItemChanged, EditRule, EditText,
       ruleButtonAdd, ruleButtonRem
  <2>4. CASE NodesPage
    <3>1. open
      BY <2>4, Zenon DEF NodesPage, nodeButtonAdd, nodeButtonRem, setData
    <3>2. open' = open
      BY <2>4, DialogUntouched DEF dialog
    <3>3. QED
      BY <2>2, <3>1, <3>2
  <2>5. CASE Dialog
    BY <2>1, <2>2, <2>5, LaidOut, Zenon DEF Dialog, createConfigurationInterface,
       settingsRestoreDefaults, okClicked, applyClicked, configAccepted, readConfig,
       configCancelled
  <2>6. CASE Restart \/ Crash
    BY <2>6, LaidOut, Zenon DEF Restart, Crash, Reload, readConfig
  <2>7. CASE OtherClient \/ StartJob \/ CallFailed \/ onPropertyUpdated \/ dataUpdated
    BY <2>1, <2>7, Zenon DEF OtherClient, StartJob, CallFailed, onPropertyUpdated, dataUpdated,
       dialog
  <2>8. CASE UNCHANGED vars
    BY <2>1, <2>8, Zenon DEF vars, dialog
  <2>9. QED
    BY <2>3, <2>4, <2>5, <2>6, <2>7, <2>8, Zenon DEF Next
<1>3. QED
  BY <1>1, <1>2, PTL DEF Spec
-----------------------------------------------------------------------------
(***************************************************************************)
(* The rules of the widget and those of the service.                       *)
(***************************************************************************)
(* An announcement of rules is not one of another property. *)
LEMMA AboutRules ==
  ASSUME NEW list
  PROVE  PropertyUpdated(list) # Other
<1>1. PropertyUpdated(list).about = "rules" /\ Other.about = "other"
  BY DEF PropertyUpdated, Other
<1>2. QED
  BY <1>1

(* Signals from the front, as they are dispatched, and at the end, as they  *)
(* are sent.                                                                *)
LEMMA SignalsSeq ==
  ASSUME RemoteTypes
  PROVE  /\ Len(signals) \in Nat /\ DOMAIN signals = 1 .. Len(signals)
         /\ signals # <<>> => /\ Len(signals) >= 1 /\ Head(signals) = signals[1]
                              /\ DOMAIN Tail(signals) = 1 .. Len(signals) - 1
                              /\ \A i \in 1 .. Len(signals) - 1 : Tail(signals)[i] = signals[i + 1]
<1> DEFINE Sig == [about : {"rules", "other"}, list : Seq(Rules)]
<1>1. signals \in Seq(Sig)
  BY DEF RemoteTypes
<1> HIDE DEF Sig
<1>2. Len(signals) \in Nat /\ DOMAIN signals = 1 .. Len(signals)
  BY <1>1, LenProperties
<1>3. ASSUME signals # <<>>
      PROVE  /\ Len(signals) >= 1 /\ Head(signals) = signals[1]
             /\ DOMAIN Tail(signals) = 1 .. Len(signals) - 1
             /\ \A i \in 1 .. Len(signals) - 1 : Tail(signals)[i] = signals[i + 1]
  <2>1. /\ Tail(signals) \in Seq(Sig) /\ Len(Tail(signals)) = Len(signals) - 1
        /\ \A i \in 1 .. Len(Tail(signals)) : Tail(signals)[i] = signals[i + 1]
    BY <1>1, <1>3, HeadTailProperties
  <2>2. Len(signals) >= 1
    BY <1>1, <1>2, <1>3, EmptySeq
  <2>3. DOMAIN Tail(signals) = 1 .. Len(Tail(signals))
    BY <2>1, LenProperties
  <2>4. Head(signals) = signals[1]
    BY <1>1, <1>3
  <2>5. QED
    BY <2>1, <2>2, <2>3, <2>4
<1>4. QED
  BY <1>2, <1>3

(* A signal that is sent is the last one, and the others stay where they
   are. *)
LEMMA SignalsAppend ==
  ASSUME RemoteTypes,
         NEW s \in [about : {"rules", "other"}, list : Seq(Rules)], signals' = Append(signals, s)
  PROVE  /\ DOMAIN signals' = 1 .. Len(signals) + 1
         /\ signals'[Len(signals) + 1] = s
         /\ \A i \in 1 .. Len(signals) : signals'[i] = signals[i]
<1> DEFINE Sig == [about : {"rules", "other"}, list : Seq(Rules)]
<1>1. signals \in Seq(Sig) /\ s \in Sig
  BY DEF RemoteTypes
<1> HIDE DEF Sig
<1>2. /\ signals' \in Seq(Sig) /\ Len(signals') = Len(signals) + 1
      /\ \A i \in 1 .. Len(signals) : signals'[i] = signals[i]
      /\ signals'[Len(signals) + 1] = s
  BY <1>1, AppendProperties
<1>3. DOMAIN signals' = 1 .. Len(signals')
  BY <1>2, LenProperties
<1>4. QED
  BY <1>2, <1>3

(* EngineInv with the primes where they belong. *)
LEMMA EngineInvAfter ==
  ASSUME ~missed' /\ (\A i \in DOMAIN signals' : signals'[i] = Other)
           => Deserialize(data') = service',
         \A i \in DOMAIN signals' :
           signals'[i] # Other /\ (\A j \in DOMAIN signals' : i < j => signals'[j] = Other)
             => Deserialize(signals'[i].list) = service',
         Deserialize(service') = service'
  PROVE  EngineInv'
  BY Zenon DEF EngineInv, LastAnnounced, Other, Deserialize

(* The rules the service takes over are those of the signal it sends
   last. *)
LEMMA ServedEngine ==
  ASSUME RemoteTypes, NEW list \in Seq(Rules), Served(list)
  PROVE  EngineInv'
<1>1. service' = Deserialize(list) /\ signals' = Append(signals, PropertyUpdated(list))
  BY DEF Served
<1>2. PropertyUpdated(list) \in [about : {"rules", "other"}, list : Seq(Rules)]
      /\ PropertyUpdated(list).list = list
  BY DEF PropertyUpdated
<1> DEFINE n == Len(signals) + 1
<1>3. DOMAIN signals' = 1 .. n /\ signals'[n] = PropertyUpdated(list)
  BY <1>1, <1>2, SignalsAppend
<1>4. n \in Nat \ {0}
  BY SignalsSeq
<1> HIDE DEF n
<1>5. n \in DOMAIN signals' /\ signals'[n] # Other
  BY <1>3, <1>4, AboutRules
<1>6. ASSUME NEW i \in DOMAIN signals',
             \A j \in DOMAIN signals' : i < j => signals'[j] = Other
      PROVE  Deserialize(signals'[i].list) = service'
  <2>1. ~(i < n)
    BY <1>5, <1>6
  <2>2. i = n
    BY <1>3, <1>4, <2>1
  <2>3. QED
    BY <1>1, <1>2, <1>3, <2>2
<1>7. Deserialize(service') = service'
  BY <1>1, DeserializeProperties
<1>8. QED
  BY <1>5, <1>6, <1>7, EngineInvAfter

(* Every step keeps EngineInv. *)
LEMMA EngineKept ==
  ASSUME FormInv, EngineInv, [Next]_vars
  PROVE  EngineInv'
<1>1. RemoteTypes
  BY TypeGroups DEF FormInv
<1>2. service \in Seq(Rules) /\ jobs \in Seq(Seq(Rules))
  BY <1>1 DEF RemoteTypes
<1>3. /\ ~missed /\ (\A i \in DOMAIN signals : signals[i] = Other)
           => Deserialize(data) = service
      /\ \A i \in DOMAIN signals :
           signals[i] # Other /\ (\A j \in DOMAIN signals : i < j => signals[j] = Other)
             => Deserialize(signals[i].list) = service
      /\ Deserialize(service) = service
  BY Zenon DEF EngineInv, LastAnnounced
<1>4. ASSUME UNCHANGED <<service, data, signals, missed>> PROVE EngineInv'
  BY <1>3, <1>4, EngineInvAfter
<1>5. ASSUME Reload PROVE EngineInv'
  <2>1. /\ (data' = service /\ missed' = FALSE) \/ missed' = TRUE
        /\ service' = service /\ signals' = <<>>
    BY <1>5, Zenon DEF Reload, updateSourceEvent
  <2>2. DOMAIN signals' = {}
    BY <2>1
  <2>3. QED
    BY <1>3, <2>1, <2>2, EngineInvAfter
<1>6. ASSUME NEW lost \in BOOLEAN, Reconnected(lost), data' = data,
              \/ lost = FALSE /\ service' = service
              \/ lost = TRUE /\ \E list \in Seq(Rules) : service' = Deserialize(list)
       PROVE  EngineInv'
  <2>1. signals' = <<>>
        /\ missed' = (missed \/ lost \/ \E i \in DOMAIN signals : signals[i] # Other)
    BY <1>6, Zenon DEF Reconnected
  <2>2. DOMAIN signals' = {}
    BY <2>1
  <2>3. Deserialize(service') = service'
    BY <1>3, <1>6, DeserializeProperties
  <2>4. ASSUME ~missed' PROVE Deserialize(data') = service'
    <3>1. ~missed /\ ~lost /\ \A i \in DOMAIN signals : signals[i] = Other
      BY <2>1, <2>4, Zenon
    <3>2. service' = service
      BY <1>6, <3>1
    <3>3. QED
      BY <1>3, <1>6, <3>1, <3>2
  <2>5. QED
    BY <2>2, <2>3, <2>4, EngineInvAfter
<1>7. CASE RulesPage \/ NodesPage \/ createConfigurationInterface \/ settingsRestoreDefaults
             \/ configCancelled
  BY <1>4, <1>7, RemoteUntouched DEF remote
<1>8. CASE okClicked \/ applyClicked
  BY <1>4, <1>8, Zenon DEF okClicked, applyClicked, configAccepted
<1>9. CASE Restart \/ Crash
  BY <1>5, <1>9, Zenon DEF Restart, Crash
<1>10. CASE OtherClient
  <2>1. CASE \E list \in OtherRules : Served(list)
    <3>1. PICK list \in OtherRules : Served(list)
      BY <2>1
    <3>2. list \in Seq(Rules)
      BY RulesAssumption
    <3>3. QED
      BY <1>1, <3>1, <3>2, ServedEngine
  <2>2. CASE signals' = Append(signals, Other) /\ UNCHANGED <<service, missed>>
    <3>1. Other \in [about : {"rules", "other"}, list : Seq(Rules)]
      BY EmptySeq DEF Other
    <3> DEFINE n == Len(signals)
    <3>2. /\ DOMAIN signals' = 1 .. n + 1 /\ signals'[n + 1] = Other
          /\ \A i \in 1 .. n : signals'[i] = signals[i]
      BY <1>1, <2>2, <3>1, SignalsAppend
    <3>3. n \in Nat /\ DOMAIN signals = 1 .. n
      BY <1>1, SignalsSeq
    <3> HIDE DEF n
    <3>4. data' = data /\ service' = service /\ missed' = missed
      BY <1>10, <2>2, Zenon DEF OtherClient
    <3>5. ASSUME ~missed', \A i \in DOMAIN signals' : signals'[i] = Other
          PROVE  Deserialize(data') = service'
      <4>1. \A i \in DOMAIN signals : signals[i] = Other
        BY <3>2, <3>3, <3>5
      <4>2. QED
        BY <1>3, <3>4, <3>5, <4>1
    <3>6. ASSUME NEW i \in DOMAIN signals', signals'[i] # Other,
                 \A j \in DOMAIN signals' : i < j => signals'[j] = Other
          PROVE  Deserialize(signals'[i].list) = service'
      <4>1. i \in DOMAIN signals /\ signals'[i] = signals[i]
        BY <3>2, <3>3, <3>6
      <4>2. \A j \in DOMAIN signals : i < j => signals[j] = Other
        BY <3>2, <3>3, <3>6
      <4>3. Deserialize(signals[i].list) = service
        BY <1>3, <3>6, <4>1, <4>2
      <4>4. QED
        BY <3>4, <4>1, <4>3
    <3>7. QED
      BY <1>3, <3>4, <3>5, <3>6, EngineInvAfter
  <2>3. QED
    BY <1>10, <2>1, <2>2, Zenon DEF OtherClient
<1>11. CASE StartJob
  <2>1. jobs # <<>> /\ data' = data
        /\ \/ UNCHANGED <<service, signals, missed>>
           \/ Served(Head(jobs))
           \/ Reconnected(FALSE) /\ service' = service
           \/ Reconnected(TRUE) /\ service' = Deserialize(Head(jobs))
    BY <1>11, Zenon DEF StartJob, JobDone, JobFailed
  <2>2. Head(jobs) \in Seq(Rules)
    BY <1>2, <2>1, HeadTailProperties
  <2>3. CASE Served(Head(jobs))
    BY <1>1, <2>2, <2>3, ServedEngine
  <2>4. CASE (Reconnected(FALSE) /\ service' = service)
             \/ (Reconnected(TRUE) /\ service' = Deserialize(Head(jobs)))
    BY <1>6, <2>1, <2>2, <2>4
  <2>5. QED
    BY <1>4, <2>1, <2>3, <2>4
<1>12. CASE CallFailed
  <2>1. Reconnected(FALSE) /\ data' = data /\ service' = service
    BY <1>12, Zenon DEF CallFailed
  <2>2. QED
    BY <1>6, <2>1
<1>13. CASE onPropertyUpdated
  <2> DEFINE n == Len(signals)
  <2>1. /\ signals # <<>> /\ signals' = Tail(signals) /\ service' = service /\ missed' = missed
        /\ data' = IF Head(signals) = Other THEN data ELSE Head(signals).list
    BY <1>13, Zenon DEF onPropertyUpdated
  <2>2. /\ n \in Nat /\ n >= 1 /\ DOMAIN signals = 1 .. n /\ Head(signals) = signals[1]
        /\ DOMAIN signals' = 1 .. n - 1
        /\ \A i \in 1 .. n - 1 : signals'[i] = signals[i + 1]
    BY <1>1, <2>1, SignalsSeq
  <2> HIDE DEF n
  <2>3. ASSUME ~missed', \A i \in DOMAIN signals' : signals'[i] = Other
        PROVE  Deserialize(data') = service'
    <3>1. \A j \in 2 .. n : signals[j] = Other
      <4>1. ASSUME NEW j \in 2 .. n PROVE signals[j] = Other
        <5>1. j - 1 \in 1 .. n - 1 /\ (j - 1) + 1 = j
          BY <2>2
        <5>2. QED
          BY <2>2, <2>3, <5>1
      <4>2. QED
        BY <4>1
    <3>2. CASE Head(signals) = Other
      <4>1. \A i \in DOMAIN signals : signals[i] = Other
        BY <2>2, <3>1, <3>2
      <4>2. QED
        BY <1>3, <2>1, <2>3, <3>2, <4>1
    <3>3. CASE Head(signals) # Other
      <4>1. 1 \in DOMAIN signals /\ signals[1] # Other
            /\ \A j \in DOMAIN signals : 1 < j => signals[j] = Other
        BY <2>2, <3>1, <3>3
      <4>2. Deserialize(signals[1].list) = service
        BY <1>3, <4>1
      <4>3. QED
        BY <2>1, <2>2, <3>3, <4>2
    <3>4. QED
      BY <3>2, <3>3
  <2>4. ASSUME NEW i \in DOMAIN signals', signals'[i] # Other,
               \A j \in DOMAIN signals' : i < j => signals'[j] = Other
        PROVE  Deserialize(signals'[i].list) = service'
    <3>1. i + 1 \in DOMAIN signals /\ signals'[i] = signals[i + 1]
      BY <2>2
    <3>2. ASSUME NEW j \in DOMAIN signals, i + 1 < j PROVE signals[j] = Other
      <4>1. j - 1 \in DOMAIN signals' /\ (j - 1) + 1 = j /\ i < j - 1
        BY <2>2, <3>2
      <4>2. QED
        BY <2>2, <2>4, <4>1
    <3>3. Deserialize(signals[i + 1].list) = service
      BY <1>3, <2>4, <3>1, <3>2
    <3>4. QED
      BY <2>1, <3>1, <3>3
  <2>5. QED
    BY <1>3, <2>1, <2>3, <2>4, EngineInvAfter
<1>14. CASE dataUpdated
  BY <1>4, <1>14, Zenon DEF dataUpdated
<1>15. CASE UNCHANGED vars
  BY <1>4, <1>15, Zenon DEF vars, remote
<1>16. QED
  BY <1>7, <1>8, <1>9, <1>10, <1>11, <1>12, <1>13, <1>14, <1>15, Zenon DEF Next, Dialog

(* Nothing is under way that the widget has not been told. *)
Told == ~parted /\ ~due /\ signals = <<>> /\ \A i \in DOMAIN jobs : jobs[i] = <<>>

(* WidgetInv without its case distinction, before a step and after it. *)
LEMMA WidgetInvParts ==
  /\ WidgetInv /\ Told => /\ open => Deserialize(saved) = Deserialize(data)
                          /\ ~open => Deserialize(rules) = Deserialize(data)
  /\ (Told' => /\ open' => Deserialize(saved') = Deserialize(data')
               /\ ~open' => Deserialize(rules') = Deserialize(data')) => WidgetInv'
<1>1. WidgetInv /\ Told => /\ open => Deserialize(saved) = Deserialize(data)
                           /\ ~open => Deserialize(rules) = Deserialize(data)
  BY DEF WidgetInv, Told
<1>2. ASSUME Told' => /\ open' => Deserialize(saved') = Deserialize(data')
                      /\ ~open' => Deserialize(rules') = Deserialize(data')
      PROVE  WidgetInv'
  <2>1. Told' <=> /\ ~parted' /\ ~due' /\ signals' = <<>>
                  /\ \A i \in DOMAIN jobs' : jobs'[i] = <<>>
    BY DEF Told
  <2>2. (Told' => Deserialize(IF open' THEN saved' ELSE rules') = Deserialize(data')) => WidgetInv'
    BY <2>1, Zenon DEF WidgetInv, Deserialize
  <2>3. CASE open'
    BY <1>2, <2>2, <2>3
  <2>4. CASE ~open'
    BY <1>2, <2>2, <2>4
  <2>5. QED
    BY <2>3, <2>4
<1>3. QED
  BY <1>1, <1>2

(* What the job will do, once something is asked of it. *)
LEMMA JobsAppend ==
  ASSUME RemoteTypes, NEW list \in Seq(Rules), jobs' = Append(jobs, list), list # <<>>
  PROVE  ~Told'
<1> DEFINE Lists == Seq(Rules)
<1>1. jobs \in Seq(Lists) /\ list \in Lists
  BY DEF RemoteTypes
<1> HIDE DEF Lists
<1>2. /\ jobs' \in Seq(Lists) /\ Len(jobs') = Len(jobs) + 1
      /\ jobs'[Len(jobs) + 1] = list
  BY <1>1, AppendProperties
<1>3. DOMAIN jobs' = 1 .. Len(jobs) + 1 /\ Len(jobs) \in Nat
  BY <1>1, <1>2, LenProperties
<1>4. Len(jobs) + 1 \in DOMAIN jobs' /\ jobs'[Len(jobs) + 1] # <<>>
  BY <1>2, <1>3
<1>5. QED
  BY <1>4 DEF Told

(* Every step keeps WidgetInv. *)
LEMMA WidgetKept ==
  ASSUME FormInv, WidgetInv, [Next]_vars
  PROVE  WidgetInv'
<1>1. RemoteTypes /\ ListTypes /\ (open => linked)
  BY TypeGroups DEF FormInv, PageInv
<1>2. rules \in Seq(Rules) /\ saved \in Seq(Rules) /\ data \in Seq(Rules)
      /\ jobs \in Seq(Seq(Rules))
  BY <1>1 DEF RemoteTypes, ListTypes
<1>3. Told => /\ open => Deserialize(saved) = Deserialize(data)
              /\ ~open => Deserialize(rules) = Deserialize(data)
  BY WidgetInvParts
<1>4. ASSUME Told' => /\ open' => Deserialize(saved') = Deserialize(data')
                      /\ ~open' => Deserialize(rules') = Deserialize(data')
      PROVE  WidgetInv'
  BY <1>4, WidgetInvParts
<1>5. ASSUME UNCHANGED <<data, due, signals, jobs, parted, open, rules, saved>>
      PROVE  WidgetInv'
  BY <1>3, <1>4, <1>5 DEF Told
<1>6. CASE RulesPage
  <2>1. open /\ UNCHANGED <<open, saved, parted>>
    BY <1>6, Zenon DEF RulesPage, ruleCurrentItemChanged, EditRule, EditText,
       ruleButtonAdd, ruleButtonRem
  <2>2. UNCHANGED <<data, due, signals, jobs>>
    BY <1>6, RemoteUntouched DEF remote
  <2>3. QED
    BY <1>3, <1>4, <2>1, <2>2 DEF Told
<1>7. CASE NodesPage
  <2>1. UNCHANGED <<data, due, signals, jobs>>
    BY <1>7, RemoteUntouched DEF remote
  <2>2. UNCHANGED <<open, rules, saved>>
    BY <1>7, DialogUntouched DEF dialog
  <2>3. parted' = parted
    BY <1>7, Zenon DEF NodesPage, nodeButtonAdd, nodeButtonRem, setData
  <2>4. QED
    BY <1>5, <2>1, <2>2, <2>3
<1>8. CASE createConfigurationInterface
  <2>1. ~open /\ open' = TRUE /\ saved' = rules /\ parted' = parted
    BY <1>8, Zenon DEF createConfigurationInterface
  <2>2. UNCHANGED <<data, due, signals, jobs>>
    BY <1>8, RemoteUntouched DEF remote
  <2>3. QED
    BY <1>3, <1>4, <2>1, <2>2 DEF Told
<1>9. CASE settingsRestoreDefaults
  <2>1. open /\ open' = open /\ saved' = rules /\ parted' = (parted \/ rules # saved)
    BY <1>9, Zenon DEF settingsRestoreDefaults, rulesToCfg
  <2>2. UNCHANGED <<data, due, signals, jobs>>
    BY <1>9, RemoteUntouched DEF remote
  <2>3. QED
    BY <1>3, <1>4, <2>1, <2>2 DEF Told
<1>10. CASE okClicked
  <2>1. PICK started \in BOOLEAN :
          /\ IF rules' # saved THEN jobs' = IF started THEN Append(jobs, rules') ELSE jobs
             ELSE jobs' = jobs
          /\ parted' = (parted \/ FALSE \/ (rules' # saved /\ (~started \/ rules' = <<>>)))
    BY <1>10, Zenon DEF okClicked, configAccepted, SetProperty
  <2>2. /\ open /\ open' = FALSE /\ rules' = Save(rules, row, form)
        /\ UNCHANGED <<data, due, signals>>
    BY <1>10, Zenon DEF okClicked, configAccepted, Closed
  <2>3. rules' \in Seq(Rules)
    BY <2>2, SavedByOK
  <2>4. CASE rules' = saved
    <3>1. jobs' = jobs /\ (~parted' => ~parted)
      BY <2>1, <2>4, Zenon
    <3>2. Told' => Told
      BY <2>2, <3>1 DEF Told
    <3>3. QED
      BY <1>3, <1>4, <2>2, <2>4, <3>2
  <2>5. CASE rules' # saved /\ started /\ rules' # <<>>
    <3>1. jobs' = Append(jobs, rules')
      BY <2>1, <2>5
    <3>2. ~Told'
      BY <1>1, <2>3, <2>5, <3>1, JobsAppend
    <3>3. QED
      BY <1>4, <3>2
  <2>6. CASE rules' # saved /\ (~started \/ rules' = <<>>)
    <3>1. parted'
      BY <2>1, <2>6, Zenon
    <3>2. QED
      BY <1>4, <3>1 DEF Told
  <2>7. QED
    BY <2>4, <2>5, <2>6
<1>11. CASE applyClicked
  <2>1. parted'
    BY <1>11, Zenon DEF applyClicked, configAccepted
  <2>2. QED
    BY <1>4, <2>1 DEF Told
<1>12. CASE configCancelled
  <2>1. open /\ open' = FALSE /\ rules' = Deserialize(saved) /\ parted' = parted
    BY <1>12, Zenon DEF configCancelled, Closed
  <2>2. UNCHANGED <<data, due, signals, jobs>>
    BY <1>12, RemoteUntouched DEF remote
  <2>3. Deserialize(rules') = Deserialize(saved)
    BY <1>2, <2>1, DeserializeProperties
  <2>4. Told' => Told
    BY <2>1, <2>2 DEF Told
  <2>5. QED
    BY <1>3, <1>4, <2>1, <2>2, <2>3, <2>4
<1>13. CASE Restart \/ Crash \/ CallFailed \/ onPropertyUpdated
  <2>1. due' = TRUE
    BY <1>13, Zenon DEF Restart, Crash, Reload, updateSourceEvent, CallFailed, Reconnected,
       onPropertyUpdated
  <2>2. QED
    BY <1>4, <2>1 DEF Told
<1>14. ASSUME NEW s \in [about : {"rules", "other"}, list : Seq(Rules)],
              signals' = Append(signals, s)
       PROVE  WidgetInv'
  <2>1. DOMAIN signals' = 1 .. Len(signals) + 1 /\ Len(signals) \in Nat
    BY <1>1, <1>14, SignalsAppend, SignalsSeq
  <2>2. signals' # <<>>
    BY <2>1
  <2>3. QED
    BY <1>4, <2>2 DEF Told
<1>15. ASSUME NEW list \in Seq(Rules), Served(list) PROVE WidgetInv'
  <2>1. PropertyUpdated(list) \in [about : {"rules", "other"}, list : Seq(Rules)]
    BY DEF PropertyUpdated
  <2>2. QED
    BY <1>14, <1>15, <2>1, Zenon DEF Served
<1>16. CASE OtherClient
  <2>1. Other \in [about : {"rules", "other"}, list : Seq(Rules)]
    BY EmptySeq DEF Other
  <2>2. \A list \in OtherRules : list \in Seq(Rules)
    BY RulesAssumption
  <2>3. QED
    BY <1>14, <1>15, <1>16, <2>1, <2>2, Zenon DEF OtherClient
<1>17. CASE StartJob
  <2>1. jobs # <<>> /\ jobs' = Tail(jobs) /\ UNCHANGED <<data, open, rules, saved>>
        /\ (JobDone \/ JobFailed)
    BY <1>17, Zenon DEF StartJob, dialog
  <2>2. CASE JobFailed
    <3>1. parted'
      BY <2>2, Zenon DEF JobFailed
    <3>2. QED
      BY <1>4, <3>1 DEF Told
  <2>3. CASE JobDone /\ Head(jobs) # <<>>
    <3>1. Served(Head(jobs))
      BY <2>3, Zenon DEF JobDone
    <3>2. Head(jobs) \in Seq(Rules)
      BY <1>2, <2>1, HeadTailProperties
    <3>3. QED
      BY <1>15, <3>1, <3>2
  <2>4. CASE JobDone /\ Head(jobs) = <<>>
    <3>1. jobs # <<>> /\ jobs' = Tail(jobs) /\ UNCHANGED <<due, signals, parted>>
      BY <2>1, <2>4, Zenon DEF JobDone
    <3> DEFINE Lists == Seq(Rules)
    <3>2. jobs \in Seq(Lists)
      BY <1>2
    <3> HIDE DEF Lists
    <3>3. /\ Len(jobs) \in Nat /\ DOMAIN jobs = 1 .. Len(jobs)
          /\ jobs' \in Seq(Lists) /\ Len(jobs') = Len(jobs) - 1
          /\ \A i \in 1 .. Len(jobs') : jobs'[i] = jobs[i + 1]
      BY <3>1, <3>2, LenProperties, HeadTailProperties
    <3>4. jobs[1] = <<>>
      BY <2>4, <3>1, <3>2
    <3>5. DOMAIN jobs' = 1 .. Len(jobs) - 1
      BY <3>3, LenProperties
    <3>6. ASSUME \A i \in DOMAIN jobs' : jobs'[i] = <<>>, NEW i \in DOMAIN jobs
          PROVE  jobs[i] = <<>>
      <4>1. CASE i = 1
        BY <3>4, <4>1
      <4>2. CASE i # 1
        <5>1. i - 1 \in 1 .. Len(jobs') /\ i - 1 \in DOMAIN jobs' /\ (i - 1) + 1 = i
          BY <3>3, <3>5, <4>2
        <5>2. QED
          BY <3>3, <3>6, <5>1
      <4>3. QED
        BY <4>1, <4>2
    <3>7. Told' => Told
      BY <2>1, <3>1, <3>6 DEF Told
    <3>8. QED
      BY <1>3, <1>4, <2>1, <3>7
  <2>5. QED
    BY <2>1, <2>2, <2>3, <2>4
<1>18. CASE dataUpdated
  <2>1. /\ rules' = IF data # rules THEN Deserialize(data) ELSE rules
        /\ parted' = (open /\ data = rules /\ (parted \/ saved # rules))
        /\ UNCHANGED <<data, open>>
    BY <1>18, Zenon DEF dataUpdated
  <2>2. Deserialize(rules') = Deserialize(data)
    BY <1>2, <2>1, DeserializeProperties
  <2>3. CASE data = rules
    <3>1. saved' = saved
      BY <1>18, <2>3, Zenon DEF dataUpdated
    <3>2. Told' => ~open \/ saved = rules
      BY <2>1, <2>3 DEF Told
    <3>3. Told' /\ open' => saved' = data'
      BY <2>1, <2>3, <3>1, <3>2
    <3>4. QED
      BY <1>4, <2>1, <2>2, <3>3
  <2>4. CASE data # rules
    <3>1. open => saved' = rules'
      BY <1>1, <1>18, <2>4, Zenon DEF dataUpdated, rulesToCfg
    <3>2. QED
      BY <1>4, <2>1, <2>2, <3>1
  <2>5. QED
    BY <2>3, <2>4
<1>19. CASE UNCHANGED vars
  BY <1>5, <1>19, Zenon DEF vars, remote, dialog
<1>20. QED
  BY <1>6, <1>7, <1>8, <1>9, <1>10, <1>11, <1>12, <1>13, <1>16, <1>17, <1>18, <1>19, Zenon
  DEF Next, Dialog

(* The first rules are those the service has. *)
LEMMA InitRules ==
  ASSUME Init
  PROVE  EngineInv /\ WidgetInv
<1>1. PICK list \in OtherRules : service = Deserialize(list)
  BY DEF Init
<1>2. Deserialize(service) = service
  BY <1>1, RulesAssumption, DeserializeProperties
<1>3. data = service /\ due = TRUE /\ missed = FALSE /\ signals = <<>>
  BY Zenon DEF Init
<1>4. EngineInv
  BY <1>2, <1>3 DEF EngineInv
<1>5. WidgetInv
  BY <1>3 DEF WidgetInv
<1>6. QED
  BY <1>4, <1>5

(* The inductive invariant of the rules, with that of the dialog. *)
THEOREM RulesTheorem == Spec => []RulesInv
<1>1. Init => RulesInv
  BY InitForm, InitRules DEF RulesInv
<1>2. RulesInv /\ [Next]_vars => RulesInv'
  BY NextForm, EngineKept, WidgetKept DEF RulesInv
<1>3. QED
  BY <1>1, <1>2, PTL DEF Spec

(* The widget's rules are the service's whenever nothing is under way and   *)
(* the dialog is closed, but for the ways out of the dialog and the calls   *)
(* and announcements that fail or are lost, which the property names.       *)
THEOREM RulesAlwaysAgree == Spec => []RulesAgree
<1>1. ASSUME RulesInv PROVE RulesAgree
  <2>1. EngineInv /\ WidgetInv
    BY <1>1 DEF RulesInv
  <2>2. ASSUME ~open, ~parted, ~missed, jobs = <<>>, signals = <<>>, ~due
        PROVE  Deserialize(rules) = service
    <3>1. Told
      BY <2>2 DEF Told
    <3>2. Deserialize(rules) = Deserialize(data)
      BY <2>1, <2>2, <3>1, WidgetInvParts
    <3>3. Deserialize(data) = service
      BY <2>1, <2>2 DEF EngineInv
    <3>4. QED
      BY <3>2, <3>3
  <2>3. QED
    BY <2>2 DEF RulesAgree
<1>2. QED
  BY <1>1, RulesTheorem, PTL
=============================================================================
