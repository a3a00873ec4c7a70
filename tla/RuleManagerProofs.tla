-------------------------- MODULE RuleManagerProofs --------------------------
(***************************************************************************)
(* Proofs about RuleTimes and RuleManager, for all rules and for days,     *)
(* weeks and periods of any length.                                        *)
(***************************************************************************)
EXTENDS RuleManager, SequenceTheorems, WellFoundedInduction, TLAPS

(* A set of naturals that is not empty has a least element. *)
LEMMA LeastNat ==
  ASSUME NEW T \in SUBSET Nat, T # {}
  PROVE  \E m \in T : \A n \in T : m <= n
<1> DEFINE R == OpToRel(<, Nat)
<1>1. IsWellFoundedOn(R, Nat)
  BY NatLessThanWellFounded
<1>2. \A x, y \in Nat : x < y => <<x, y>> \in R
  BY DEF OpToRel
<1> HIDE DEF R
<1>3. PICK x \in T : \A y \in T : ~ (<<y, x>> \in R)
  BY <1>1, WFMin, Zenon
<1>4. ASSUME NEW y \in T PROVE x <= y
  <2>1. x \in Nat /\ y \in Nat
    OBVIOUS
  <2>2. ~ (y < x)
    BY <1>2, <1>3, <2>1, Zenon
  <2>3. QED
    BY <2>1, <2>2
<1>5. QED
  BY <1>4

(* Integer division, as the code does it.                                  *)
LEMMA DivBounds ==
  ASSUME NEW a \in Nat, NEW b \in Nat \ {0}
  PROVE  a \div b \in Nat /\ b * (a \div b) <= a /\ a < b * (a \div b) + b
<1>1. a \div b \in Nat
  OBVIOUS
<1>2. b * (a \div b) <= a
  OBVIOUS
<1>3. a < b * (a \div b) + b
  OBVIOUS
<1>4. QED
  BY <1>1, <1>2, <1>3

(* A product grows with its factor.                                        *)
LEMMA TimesMonotonic ==
  ASSUME NEW a \in Nat, NEW b \in Nat, NEW c \in Nat, a <= b
  PROVE  a * c <= b * c /\ a * c \in Nat /\ b * c \in Nat
OBVIOUS

(* Division and remainder, of negative integers too.                       *)
LEMMA DivMod ==
  ASSUME NEW a \in Int, NEW b \in Nat \ {0}
  PROVE  a \div b \in Int /\ a % b \in 0 .. b - 1 /\ a = b * (a \div b) + (a % b)
<1>1. a \div b \in Int
  OBVIOUS
<1>2. a % b \in 0 .. b - 1
  OBVIOUS
<1>3. a = b * (a \div b) + (a % b)
  OBVIOUS
<1>4. QED
  BY <1>1, <1>2, <1>3

(* Quotient and remainder are unique. *)
LEMMA DivUnique ==
  ASSUME NEW b \in Nat \ {0}, NEW q \in Int, NEW r \in 0 .. b - 1,
         NEW p \in Int, NEW s \in 0 .. b - 1, b * q + r = b * p + s
  PROVE  q = p /\ r = s
<1>1. ASSUME NEW k \in Nat \ {0} PROVE b * k >= b
  OBVIOUS
<1>2. ASSUME NEW x \in Int, NEW y \in Int, NEW u \in 0 .. b - 1, NEW v \in 0 .. b - 1,
             b * x + u = b * y + v, x < y
      PROVE  FALSE
  <2>1. y - x \in Nat \ {0}
    BY <1>2
  <2>2. b * (y - x) >= b
    BY <1>1, <2>1
  <2>3. b * (y - x) = b * y - b * x
    BY <1>2
  <2>4. b * x \in Int /\ b * y \in Int
    BY <1>2
  <2>5. QED
    BY <1>2, <2>2, <2>3, <2>4
<1>3. q = p
  <2>1. ~(q < p) /\ ~(p < q)
    BY <1>2
  <2>2. QED
    BY <2>1
<1>4. QED
  BY <1>3

(* The same, for the operators. *)
LEMMA DivModIs ==
  ASSUME NEW a \in Int, NEW b \in Nat \ {0}, NEW q \in Int, NEW r \in 0 .. b - 1, a = b * q + r
  PROVE  a \div b = q /\ a % b = r
  BY DivMod, DivUnique

(* A second of a day of the calendar: its weekday, and its place in the day. *)
LEMMA DayAndSecond ==
  ASSUME NEW d \in Int, NEW s \in 0 .. SecsInDay - 1
  PROVE  /\ Weekday((d * SecsInDay + s) % Week) = d % Days
         /\ SecsToday((d * SecsInDay + s) % Week) = s
         /\ d * SecsInDay + s \in Int
<1> DEFINE q == d \div Days
           e == d % Days
           x == d * SecsInDay + s
           y == e * SecsInDay + s
<1>1. SecsInDay \in Nat \ {0} /\ Days \in Nat \ {0}
  BY RuleTimesAssumption
<1>2. Week \in Nat \ {0} /\ Week = Days * SecsInDay
  <2>1. 1 * SecsInDay <= Days * SecsInDay /\ Days * SecsInDay \in Nat
    BY <1>1, TimesMonotonic
  <2>2. QED
    BY <1>1, <2>1 DEF Week
<1>3. q \in Int /\ e \in 0 .. Days - 1 /\ d = Days * q + e
  BY <1>1, DivMod
<1> HIDE DEF q, e
<1>4. e * SecsInDay <= (Days - 1) * SecsInDay /\ e * SecsInDay \in Nat
  <2>1. e \in Nat /\ Days - 1 \in Nat /\ e <= Days - 1 /\ SecsInDay \in Nat
    BY <1>1, <1>3
  <2>2. QED
    BY <2>1, TimesMonotonic
<1>5. (Days - 1) * SecsInDay = Days * SecsInDay - SecsInDay /\ Days * SecsInDay \in Nat
  BY <1>1
<1>6. y \in 0 .. Week - 1
  BY <1>1, <1>2, <1>4, <1>5
<1>7. x = Week * q + y /\ x \in Int
  <2>1. d * SecsInDay = (Days * q + e) * SecsInDay
    BY <1>3
  <2>2. (Days * q + e) * SecsInDay = (Days * q) * SecsInDay + e * SecsInDay
    BY <1>1, <1>3
  <2>3. (Days * q) * SecsInDay = (Days * SecsInDay) * q
    BY <1>1, <1>3
  <2>4. d * SecsInDay \in Int /\ e * SecsInDay \in Int /\ (Days * SecsInDay) * q \in Int
    BY <1>1, <1>3
  <2>5. QED
    BY <1>2, <2>1, <2>2, <2>3, <2>4
<1> HIDE DEF x
<1>8. x % Week = y
  <2> HIDE DEF y
  <2>1. QED
    BY <1>2, <1>3, <1>6, <1>7, DivModIs
<1>9. y = SecsInDay * e + s /\ y \in Int
  BY <1>1, <1>3, <1>4
<1> HIDE DEF y
<1>10. y \div SecsInDay = e /\ y % SecsInDay = s
  BY <1>1, <1>3, <1>9, DivModIs
<1>11. QED
  BY <1>7, <1>8, <1>10 DEF Weekday, SecsToday, x, e

(* When a rule begins, day by day. *)
LEMMA BeginsOnDay ==
  ASSUME NEW r, NEW d \in Int, NEW s \in 0 .. SecsInDay - 1
  PROVE  Begins(r, d * SecsInDay + s) <=> d % Days \in r.days /\ s = r.at
  BY DayAndSecond DEF Begins

(* The week goes round. *)
LEMMA WeekRound ==
  ASSUME NEW a \in Int, NEW c \in Int
  PROVE  ((a % Week) + c) % Week = (a + c) % Week
<1>1. Week \in Nat \ {0}
  <2>1. SecsInDay \in Nat \ {0} /\ Days \in Nat \ {0}
    BY RuleTimesAssumption
  <2>2. 1 * SecsInDay <= Days * SecsInDay /\ Days * SecsInDay \in Nat
    BY <2>1, TimesMonotonic
  <2>3. QED
    BY <2>1, <2>2 DEF Week
<1> DEFINE k == a \div Week
           m == a % Week
           p == (m + c) \div Week
           n == (m + c) % Week
<1>2. k \in Int /\ m \in 0 .. Week - 1 /\ a = Week * k + m
  BY <1>1, DivMod
<1>3. m + c \in Int
  BY <1>1, <1>2
<1> HIDE DEF k, m
<1>4. p \in Int /\ n \in 0 .. Week - 1 /\ m + c = Week * p + n
  BY <1>1, <1>3, DivMod
<1> HIDE DEF p, n
<1>5. a + c = Week * (k + p) + n
  <2>1. Week * (k + p) = Week * k + Week * p
    BY <1>1, <1>2, <1>4
  <2>2. Week * k \in Int /\ Week * p \in Int /\ n \in Int /\ m \in Int
    BY <1>1, <1>2, <1>4
  <2>3. QED
    BY <1>2, <1>4, <2>1, <2>2
<1>6. (a + c) % Week = n
  <2>1. a + c \in Int /\ k + p \in Int
    BY <1>2, <1>4
  <2>2. QED
    BY <1>1, <1>4, <1>5, <2>1, DivModIs
<1>7. QED
  BY <1>6 DEF n, m

(* The search for the next valid day stops at that day, or after a week.   *)
LEMMA InNbDaysIs ==
  ASSUME NEW r \in Rules, NEW w \in Instants
  PROVE  LET n == InNbDays(r, w)
         IN  /\ n \in 1 .. Days
             /\ n = Days \/ (Weekday(w) + n) % Days \in r.days
             /\ \A k \in 1 .. n - 1 : (Weekday(w) + k) % Days \notin r.days
<1> DEFINE Valid(n) == n = Days \/ (Weekday(w) + n) % Days \in r.days
           T == {n \in 1 .. Days : Valid(n)}
<1>1. Days \in Nat \ {0}
  BY RuleTimesAssumption
<1>2. T \in SUBSET Nat /\ Days \in T
  BY <1>1
<1> HIDE DEF Valid
<1>3. PICK m \in T : \A n \in T : m <= n
  BY <1>2, LeastNat
<1>4. m \in 1 .. Days /\ Valid(m) /\ \A k \in 1 .. m - 1 : ~Valid(k)
  BY <1>1, <1>3
<1> USE DEF Valid
<1>5. \A k \in 1 .. m - 1 : (Weekday(w) + k) % Days \notin r.days
  BY <1>4
<1>6. QED
  BY <1>4, <1>5 DEF InNbDays

(* The days to wait are days of the week.                                  *)
LEMMA InNbDaysInRange ==
  ASSUME NEW r \in Rules, NEW w \in Instants
  PROVE  InNbDays(r, w) \in 1 .. Days
BY InNbDaysIs

(* The next repeat lies ahead.                                             *)
LEMMA RepeatsAhead ==
  ASSUME NEW r \in RuleType, NEW w \in Nat, SecsToday(w) \in Nat,
         r.at < SecsToday(w), RepeatsRequired(r, w) <= r.times
  PROVE  /\ RepeatsRequired(r, w) \in Nat
         /\ RepeatsRequired(r, w) * r.every > SecsToday(w) - r.at
         /\ RepeatsRequired(r, w) * r.every <= r.times * r.every
<1> DEFINE d == SecsToday(w) - r.at
<1>1. r.every \in Nat /\ r.times \in Nat /\ r.at \in Int
  BY RuleTimesAssumption DEF RuleType
<1>2. d \in Nat
  BY <1>1
<1>3. r.every > 0
  BY <1>1 DEF RepeatsRequired
<1>4. RepeatsRequired(r, w) = 1 + d \div r.every
  BY <1>3 DEF RepeatsRequired
<1> HIDE DEF d
<1> DEFINE q == d \div r.every
<1>5. q \in Nat /\ r.every * q <= d /\ d < r.every * q + r.every
  <2>1. r.every \in Nat \ {0}
    BY <1>1, <1>3
  <2>2. QED
    BY <1>2, <2>1, DivBounds
<1>6. RepeatsRequired(r, w) = 1 + q /\ 1 + q <= r.times
  BY <1>4
<1> HIDE DEF q
<1>7. (1 + q) * r.every = r.every * q + r.every
  BY <1>1, <1>5
<1>8. (1 + q) * r.every <= r.times * r.every
  BY <1>1, <1>5, <1>6, TimesMonotonic
<1>9. QED
  BY <1>1, <1>2, <1>5, <1>6, <1>7, <1>8 DEF d

(* The execution time of a rule is never in the past: the message "PERIOD  *)
(* Ms < 0, shouldn't happen" of updateNextExecution is never logged.       *)
THEOREM ExecutionTimeAhead ==
  ASSUME NEW r \in Rules, NEW w \in Instants
  PROVE  GetExecutionTime(r, w) \in 0 .. MaxTime
<1>1. /\ SecsInDay \in Nat \ {0} /\ Days \in Nat \ {0} /\ MaxTime \in Nat
      /\ r \in RuleType /\ MaxTime > Days * SecsInDay + SecsInDay
      /\ MaxTime > SecsInDay + r.times * r.every
  BY RuleTimesAssumption DEF Week
<1>2. /\ r.at \in 0 .. SecsInDay - 1 /\ r.every \in Nat /\ r.times \in Nat
  BY <1>1 DEF RuleType
<1>3. w \in Nat
  BY <1>1 DEF Instants, Week
<1>4. SecsToday(w) \in 0 .. SecsInDay - 1
  BY <1>1, <1>3 DEF SecsToday
<1> DEFINE today == r.at - SecsToday(w)
           n     == InNbDays(r, w)
<1>5. today \in Int /\ today > -SecsInDay /\ today < SecsInDay
  BY <1>1, <1>2, <1>4
<1>6. n \in 1 .. Days
  BY InNbDaysInRange
<1>7. n * SecsInDay >= SecsInDay /\ n * SecsInDay <= Days * SecsInDay
        /\ n * SecsInDay \in Nat
  <2>1. 1 * SecsInDay <= n * SecsInDay /\ n * SecsInDay \in Nat
    BY <1>1, <1>6, TimesMonotonic
  <2>2. n * SecsInDay <= Days * SecsInDay
    BY <1>1, <1>6, TimesMonotonic
  <2>3. QED
    BY <1>1, <2>1, <2>2
<1>8. CASE GetExecutionTime(r, w) = MaxTime
  BY <1>1, <1>8
<1>9. CASE GetExecutionTime(r, w) = today /\ today >= 0
  BY <1>1, <1>5, <1>7, <1>9
<1>10. CASE /\ today < 0 /\ RepeatsRequired(r, w) <= r.times
            /\ GetExecutionTime(r, w) = today + RepeatsRequired(r, w) * r.every
  <2>1. /\ RepeatsRequired(r, w) \in Nat
        /\ RepeatsRequired(r, w) * r.every > SecsToday(w) - r.at
        /\ RepeatsRequired(r, w) * r.every <= r.times * r.every
    BY <1>1, <1>2, <1>3, <1>4, <1>10, RepeatsAhead
  <2>2. RepeatsRequired(r, w) * r.every \in Int /\ r.times * r.every \in Int
    BY <1>2, <2>1
  <2>3. QED
    BY <1>1, <1>2, <1>4, <1>5, <1>10, <2>1, <2>2
<1>11. CASE GetExecutionTime(r, w) = today + n * SecsInDay
  BY <1>1, <1>5, <1>7, <1>11
<1>12. \/ GetExecutionTime(r, w) = MaxTime
       \/ GetExecutionTime(r, w) = today /\ today >= 0
       \/ /\ today < 0 /\ RepeatsRequired(r, w) <= r.times
          /\ GetExecutionTime(r, w) = today + RepeatsRequired(r, w) * r.every
       \/ GetExecutionTime(r, w) = today + n * SecsInDay
  BY <1>5 DEF GetExecutionTime
<1>13. QED
  BY <1>8, <1>9, <1>10, <1>11, <1>12
-----------------------------------------------------------------------------
(* The calendar of an instant of the week.                                 *)
LEMMA Calendar ==
  ASSUME NEW w \in Instants
  PROVE  /\ Weekday(w) \in 0 .. Days - 1 /\ SecsToday(w) \in 0 .. SecsInDay - 1
         /\ w = Weekday(w) * SecsInDay + SecsToday(w)
         /\ w \in Int
<1>1. SecsInDay \in Nat \ {0} /\ Days \in Nat \ {0} /\ Days * SecsInDay \in Nat
  BY RuleTimesAssumption
<1>2. w \in Nat /\ w < Days * SecsInDay
  BY <1>1 DEF Instants, Week
<1> DEFINE d == w \div SecsInDay
           s == w % SecsInDay
<1>3. d \in Nat /\ s \in 0 .. SecsInDay - 1 /\ w = SecsInDay * d + s
  <2>1. w \in Int
    BY <1>2
  <2>2. s \in 0 .. SecsInDay - 1 /\ w = SecsInDay * d + s
    BY <1>1, <2>1, DivMod
  <2>3. d \in Nat
    BY <1>1, <1>2, DivBounds
  <2>4. QED
    BY <2>2, <2>3
<1> HIDE DEF d, s
<1>4. SecsInDay * d = d * SecsInDay
  BY <1>1, <1>3
<1>5. d < Days
  <2>1. CASE Days <= d
    <3>1. Days * SecsInDay <= d * SecsInDay
      BY <1>1, <1>3, <2>1, TimesMonotonic
    <3>2. QED
      BY <1>1, <1>2, <1>3, <1>4, <3>1
  <2>2. QED
    BY <1>1, <1>3, <2>1
<1>6. QED
  BY <1>1, <1>2, <1>3, <1>4, <1>5 DEF Weekday, SecsToday, d, s

(* Within the week, the weekday is the day.                                *)
LEMMA DayOfWeek ==
  ASSUME NEW d \in 0 .. Days - 1
  PROVE  d % Days = d /\ (d + Days) % Days = d
<1>1. Days \in Nat \ {0} /\ d \in Int /\ d + Days \in Int
  BY RuleTimesAssumption
<1>2. d = Days * 0 + d /\ d + Days = Days * 1 + d
  BY <1>1
<1>3. QED
  BY <1>1, <1>2, DivModIs

(* Every weekday comes within the week that follows.                       *)
LEMMA DayComes ==
  ASSUME NEW d \in 0 .. Days - 1, NEW e \in 0 .. Days - 1
  PROVE  \E n \in 1 .. Days : (d + n) % Days = e
<1>1. Days \in Nat \ {0} /\ d \in Int /\ e \in Int
  BY RuleTimesAssumption
<1>2. CASE d < e
  <2>1. e - d \in 1 .. Days /\ d + (e - d) = e
    BY <1>1, <1>2
  <2>2. QED
    BY <2>1, DayOfWeek
<1>3. CASE e <= d
  <2>1. (e - d) + Days \in 1 .. Days /\ d + ((e - d) + Days) = e + Days
    BY <1>1, <1>3
  <2>2. (d + ((e - d) + Days)) % Days = e
    BY <2>1, DayOfWeek
  <2>3. QED
    BY <2>1, <2>2
<1>4. QED
  BY <1>1, <1>2, <1>3

(* What GetExecutionTime is, case by case.                                 *)
LEMMA ExecutionTimeIs ==
  ASSUME NEW r \in Rules, NEW w \in Instants, r.enabled, r.days # {}
  PROVE  LET g == GetExecutionTime(r, w)
             d == Weekday(w)
             s == SecsToday(w)
             k == RepeatsRequired(r, w)
             n == InNbDays(r, w)
         IN  \/ d \in r.days /\ s <= r.at /\ g = r.at - s
             \/ /\ d \in r.days /\ r.at < s /\ k <= r.times
                /\ g = (r.at - s) + k * r.every
             \/ /\ (d \in r.days => r.at < s)
                /\ g = (r.at - s) + n * SecsInDay
<1> DEFINE d == Weekday(w)
           s == SecsToday(w)
<1>1. s \in Int /\ r.at \in Int
  BY RuleTimesAssumption, Calendar DEF RuleType
<1>2. (r.at - s >= 0 <=> s <= r.at) /\ (~ (r.at - s >= 0) <=> r.at < s)
  BY <1>1
<1>3. QED
  BY <1>2, Zenon DEF GetExecutionTime

(* A rule occurs at the time that GetExecutionTime gives it.                *)
LEMMA OccursThen ==
  ASSUME NEW r \in Rules, NEW w \in Instants, r.enabled, r.days # {}
  PROVE  Occurs(r, w + GetExecutionTime(r, w))
<1> DEFINE g == GetExecutionTime(r, w)
           d == Weekday(w)
           s == SecsToday(w)
           k == RepeatsRequired(r, w)
           n == InNbDays(r, w)
<1>1. /\ SecsInDay \in Nat \ {0} /\ Days \in Nat \ {0}
      /\ r \in RuleType /\ r.at \in 0 .. SecsInDay - 1
      /\ r.every \in Nat /\ r.times \in Nat
      /\ r.days \subseteq 0 .. Days - 1
  BY RuleTimesAssumption DEF RuleType, Weekdays
<1>2. d \in 0 .. Days - 1 /\ s \in 0 .. SecsInDay - 1 /\ w = d * SecsInDay + s
  BY Calendar
<1>3. d \in Int /\ s \in Int /\ d * SecsInDay \in Int /\ r.at \in Int /\ w \in Nat
  <2>1. d * SecsInDay \in Nat
    BY <1>1, <1>2, TimesMonotonic
  <2>2. QED
    BY <1>1, <1>2, <2>1
<1>4. \/ d \in r.days /\ s <= r.at /\ g = r.at - s
      \/ /\ d \in r.days /\ r.at < s /\ k <= r.times
         /\ g = (r.at - s) + k * r.every
      \/ /\ (d \in r.days => r.at < s)
         /\ g = (r.at - s) + n * SecsInDay
  BY ExecutionTimeIs, Zenon
<1>5. /\ n \in 1 .. Days
      /\ n = Days \/ (d + n) % Days \in r.days
      /\ \A j \in 1 .. n - 1 : (d + j) % Days \notin r.days
  BY InNbDaysIs, Zenon
<1>6. r.at < s /\ k <= r.times =>
        k \in Nat /\ k * r.every > s - r.at
  BY <1>1, <1>2, <1>3, RepeatsAhead
<1>7. d % Days = d /\ (d + Days) % Days = d
  BY <1>2, DayOfWeek
<1> HIDE DEF g, d, s, k, n
<1>8. CASE d \in r.days /\ s <= r.at /\ g = r.at - s
  <2>1. w + g = d * SecsInDay + r.at
    BY <1>2, <1>3, <1>8
  <2>2. Begins(r, w + g)
    BY <1>1, <1>3, <1>7, <1>8, <2>1, BeginsOnDay
  <2>3. QED
    BY <2>2 DEF Occurs, g
<1>9. CASE /\ d \in r.days /\ r.at < s /\ k <= r.times
           /\ g = (r.at - s) + k * r.every
  <2>1. k \in Nat /\ k * r.every > 0 /\ k * r.every \in Nat
    BY <1>1, <1>3, <1>6, <1>9
  <2>2. (w + g) - k * r.every = d * SecsInDay + r.at
    <3> DEFINE m == k * r.every
    <3>1. m \in Int
      BY <2>1
    <3>2. g = (r.at - s) + m
      BY <1>9
    <3> HIDE DEF m
    <3>3. (w + g) - m = d * SecsInDay + r.at
      BY <1>2, <1>3, <3>1, <3>2
    <3>4. QED
      BY <3>3 DEF m
  <2>3. Begins(r, (w + g) - k * r.every)
    BY <1>1, <1>3, <1>7, <1>9, <2>2, BeginsOnDay
  <2>4. r.every > 0 /\ k \in 1 .. r.times
    BY <1>1, <1>9, <2>1
  <2>5. QED
    BY <2>3, <2>4 DEF Occurs, Repeats, g
<1>10. CASE g = (r.at - s) + n * SecsInDay /\ (d \in r.days => r.at < s)
  <2>1. (d + n) % Days \in r.days
    <3>1. SUFFICES ASSUME n = Days PROVE d \in r.days
      BY <1>5, <1>7
    <3>2. PICK e \in 0 .. Days - 1 : e \in r.days
      BY <1>1
    <3>3. PICK j \in 1 .. Days : (d + j) % Days = e
      BY <1>2, DayComes
    <3>4. j = Days
      BY <1>1, <1>5, <3>1, <3>2, <3>3
    <3>5. QED
      BY <1>7, <3>2, <3>3, <3>4
  <2>2. w + g = (d + n) * SecsInDay + r.at
    <3>1. n \in Int /\ n * SecsInDay \in Int
            /\ (d + n) * SecsInDay = d * SecsInDay + n * SecsInDay
      BY <1>1, <1>3, <1>5
    <3>2. QED
      BY <1>2, <1>3, <1>10, <3>1
  <2>3. d + n \in Int
    BY <1>3, <1>5
  <2>4. Begins(r, w + g)
    BY <1>1, <2>1, <2>2, <2>3, BeginsOnDay
  <2>5. QED
    BY <2>4 DEF Occurs, g
<1>11. QED
  BY <1>4, <1>8, <1>9, <1>10

(* A rule begins at no moment before that, unless its repeats last longer  *)
(* than a day.                                                             *)
LEMMA NothingBefore ==
  ASSUME NEW r \in Rules, NEW w \in Instants, r.enabled, WithinADay(r),
         NEW t \in Nat \ {0}, t < GetExecutionTime(r, w), Begins(r, w + t)
  PROVE  FALSE
<1> DEFINE g == GetExecutionTime(r, w)
           d == Weekday(w)
           s == SecsToday(w)
           k == RepeatsRequired(r, w)
           n == InNbDays(r, w)
           x == w + t
           q == x \div SecsInDay
           u == x % SecsInDay
<1>1. /\ SecsInDay \in Nat \ {0} /\ Days \in Nat \ {0}
      /\ r \in RuleType /\ r.at \in 0 .. SecsInDay - 1
      /\ r.every \in Nat /\ r.times \in Nat
  BY RuleTimesAssumption DEF RuleType
<1>2. d \in 0 .. Days - 1 /\ s \in 0 .. SecsInDay - 1 /\ w = d * SecsInDay + s
  BY Calendar
<1>3. d \in Int /\ s \in Int /\ d * SecsInDay \in Int /\ r.at \in Int /\ w \in Nat
  <2>1. d * SecsInDay \in Nat
    BY <1>1, <1>2, TimesMonotonic
  <2>2. QED
    BY <1>1, <1>2, <2>1
<1>4. q \in Int /\ u \in 0 .. SecsInDay - 1 /\ x = SecsInDay * q + u /\ x = w + t
  <2>1. x \in Int
    BY <1>3
  <2>2. QED
    BY <1>1, <2>1, DivMod
<1> HIDE DEF q, u, x
<1>5. x = q * SecsInDay + u /\ q * SecsInDay \in Int
  BY <1>1, <1>4
<1>6. q % Days \in r.days /\ u = r.at
  <2>1. Begins(r, q * SecsInDay + u)
    BY <1>4, <1>5
  <2>2. QED
    BY <1>4, <2>1, BeginsOnDay
<1>7. d * SecsInDay + s + t = q * SecsInDay + r.at
  BY <1>2, <1>4, <1>5, <1>6
<1>8. \/ d \in r.days /\ s <= r.at /\ g = r.at - s
      \/ /\ d \in r.days /\ r.at < s /\ k <= r.times
         /\ g = (r.at - s) + k * r.every
      \/ /\ (d \in r.days => r.at < s)
         /\ g = (r.at - s) + n * SecsInDay
  <2>1. r.days # {}
    BY <1>6
  <2>2. QED
    BY <2>1, ExecutionTimeIs, Zenon
<1>9. n \in 1 .. Days /\ \A j \in 1 .. n - 1 : (d + j) % Days \notin r.days
  BY InNbDaysIs, Zenon
<1>10. r.at < s /\ k <= r.times => k \in Nat /\ k * r.every <= r.times * r.every
  BY <1>1, <1>2, <1>3, RepeatsAhead
<1>11. t < g /\ r.times * r.every <= SecsInDay /\ t \in Nat /\ t > 0
  BY DEF WithinADay
<1>12. d % Days = d
  BY <1>2, DayOfWeek
<1> HIDE DEF g, d, s, k, n
<1> DEFINE j == q - d
<1>13. j \in Int /\ j * SecsInDay \in Int /\ t = (r.at - s) + j * SecsInDay
  <2>1. j \in Int /\ j * SecsInDay = q * SecsInDay - d * SecsInDay /\ j * SecsInDay \in Int
    BY <1>1, <1>3, <1>4
  <2> HIDE DEF j
  <2>2. QED
    BY <1>3, <1>5, <1>7, <1>11, <2>1
<1>14. q = d + j
  BY <1>3, <1>4
<1> HIDE DEF j
<1>15. j >= 0
  <2>1. SUFFICES ASSUME j <= -1 PROVE FALSE
    BY <1>13
  <2>2. -j \in Nat /\ 1 <= -j /\ SecsInDay \in Nat
    BY <1>1, <1>13, <2>1
  <2>3. 1 * SecsInDay <= (-j) * SecsInDay /\ (-j) * SecsInDay = -(j * SecsInDay)
    <3>1. 1 * SecsInDay <= (-j) * SecsInDay
      BY <2>2, TimesMonotonic
    <3>2. (-j) * SecsInDay = -(j * SecsInDay)
      BY <1>1, <1>13
    <3>3. QED
      BY <3>1, <3>2
  <2>4. j * SecsInDay <= -SecsInDay
    BY <1>1, <1>13, <2>3
  <2>5. QED
    BY <1>1, <1>2, <1>11, <1>13, <2>4
<1>16. CASE j = 0
  <2>1. j * SecsInDay = 0
    BY <1>1, <1>16
  <2>2. t = r.at - s /\ d \in r.days /\ s <= r.at
    <3>1. t = r.at - s /\ s <= r.at
      BY <1>3, <1>11, <1>13, <2>1
    <3>2. d \in r.days
      BY <1>3, <1>6, <1>12, <1>14, <1>16
    <3>3. QED
      BY <3>1, <3>2
  <2>3. g = r.at - s
    BY <1>3, <1>8, <2>2
  <2>4. QED
    BY <1>3, <1>11, <2>2, <2>3
<1>17. CASE j >= 1
  <2>1. SecsInDay <= j * SecsInDay
    <3>1. j \in Nat /\ SecsInDay \in Nat /\ 1 <= j
      BY <1>1, <1>13, <1>17
    <3>2. 1 * SecsInDay <= j * SecsInDay
      BY <3>1, TimesMonotonic
    <3>3. QED
      BY <1>1, <3>2
  <2>2. CASE g = r.at - s
    BY <1>1, <1>3, <1>11, <1>13, <2>1, <2>2
  <2>3. CASE /\ r.at < s /\ k <= r.times
             /\ g = (r.at - s) + k * r.every
    <3>1. k * r.every <= r.times * r.every /\ k * r.every \in Int /\ r.times * r.every \in Int
      BY <1>1, <1>10, <2>3
    <3>2. QED
      BY <1>1, <1>3, <1>11, <1>13, <2>1, <2>3, <3>1
  <2>4. CASE g = (r.at - s) + n * SecsInDay
    <3>1. CASE n <= j
      <4>1. n \in Nat /\ j \in Nat /\ SecsInDay \in Nat
        BY <1>1, <1>9, <1>13, <1>17
      <4>2. n * SecsInDay <= j * SecsInDay /\ n * SecsInDay \in Nat
        BY <3>1, <4>1, TimesMonotonic
      <4>3. QED
        BY <1>3, <1>11, <1>13, <2>4, <4>2
    <3>2. CASE j < n
      <4>1. j \in 1 .. n - 1
        BY <1>9, <1>13, <1>17, <3>2
      <4>2. QED
        BY <1>6, <1>9, <1>14, <4>1
    <3>3. QED
      BY <1>9, <1>13, <3>1, <3>2
  <2>5. QED
    BY <1>8, <2>2, <2>3, <2>4
<1>18. QED
  BY <1>13, <1>15, <1>16, <1>17
-----------------------------------------------------------------------------
(* The clock of the week goes round.                                       *)
LEMMA LaterInstant ==
  ASSUME NEW w \in Instants
  PROVE  Later(w) \in Instants
<1>1. SecsInDay \in Nat \ {0} /\ Days \in Nat \ {0}
  BY RuleTimesAssumption
<1>2. Week \in Nat \ {0}
  <2>1. 1 * SecsInDay <= Days * SecsInDay /\ Days * SecsInDay \in Nat
    BY <1>1, TimesMonotonic
  <2>2. QED
    BY <1>1, <2>1 DEF Week
<1>3. w \in Nat
  BY <1>2 DEF Instants
<1>4. QED
  BY <1>2, <1>3 DEF Later, Instants

(* The lowest time is a time, or never.                                    *)
LEMMA LowestTimeInRange ==
  ASSUME NEW list \in Seq(Rules), NEW w \in Instants
  PROVE  LowestTime(list, w) \in 0 .. MaxTime
<1> DEFINE T == Times(list, w) \cup {MaxTime}
<1>1. MaxTime \in Nat
  BY RuleTimesAssumption
<1>2. \A i \in DOMAIN list : GetExecutionTime(list[i], w) \in 0 .. MaxTime
  <2>1. ASSUME NEW i \in DOMAIN list
        PROVE  GetExecutionTime(list[i], w) \in 0 .. MaxTime
    <3>1. list[i] \in Rules
      BY ElementOfSeq
    <3>2. QED
      BY <3>1, ExecutionTimeAhead
  <2>2. QED
    BY <2>1
<1>3. T \in SUBSET (0 .. MaxTime) /\ T # {}
  BY <1>1, <1>2 DEF Times
<1>4. T \in SUBSET Nat
  BY <1>3
<1> HIDE DEF T
<1>5. PICK m \in T : \A n \in T : m <= n
  BY <1>3, <1>4, LeastNat
<1>6. Min(T) \in T
  BY <1>5 DEF Min
<1>7. QED
  BY <1>3, <1>6 DEF LowestTime, T

(* What updateNextExecution leaves: a timer that does not sleep past the   *)
(* lowest time.                                                            *)
LEMMA ArmedInTime ==
  ASSUME NEW list \in Seq(Rules), NEW w \in Instants, updateNextExecution(list, w)
  PROVE  /\ due' \in Dues
         /\ nextSet' \subseteq DOMAIN list
         /\ timer' \in {Stopped} \cup 0 .. PeriodSecs
         /\ timer' # Stopped => timer' <= due'
         /\ skewed' = FALSE /\ late' = 0
<1>1. MaxTime \in Nat /\ PeriodSecs \in Nat \ {0} /\ MaxLate \in Nat
  BY RuleTimesAssumption, RuleManagerAssumption
<1>2. due' \in 0 .. MaxTime
  BY LowestTimeInRange DEF updateNextExecution
<1>3. timer' = Alarm(due')
  BY DEF updateNextExecution
<1>4. nextSet' \subseteq DOMAIN list /\ skewed' = FALSE /\ late' = 0
  BY DEF updateNextExecution, DueFirst
<1>5. QED
  BY <1>1, <1>2, <1>3, <1>4 DEF Alarm, AtMost, Dues, Past, Stopped
-----------------------------------------------------------------------------
(* The moment is an integer.                                               *)
LEMMA DueIsInt ==
  ASSUME NEW d \in Dues
  PROVE  d \in Int /\ d + 0 + 0 = d
BY DEF Dues, Past

(* A timer just started that does not sleep past the lowest time.          *)
LEMMA FreshWakes ==
  ASSUME due' \in Dues, timer' # Stopped => timer' <= due', ~skewed', late' = 0
  PROVE  WakesInTime'
<1>1. due' \in Int /\ due' + 0 + 0 = due'
  BY DueIsInt
<1>2. (IF skewed' THEN 1 ELSE 0) = 0
  OBVIOUS
<1>3. (timer # Stopped => timer <= due + late + (IF skewed THEN 1 ELSE 0))'
  BY <1>1, <1>2, Zenon
<1>4. QED
  BY <1>3 DEF WakesInTime

(* The types, and that the timer wakes in time, are preserved.             *)
LEMMA WakeStep ==
  ASSUME TypeOK, WakesInTime, [Next]_vars
  PROVE  TypeOK' /\ WakesInTime'
<1> DEFINE Timing ==
      /\ due \in Dues /\ timer \in {Stopped} \cup 0 .. PeriodSecs
      /\ late \in 0 .. MaxLate
      /\ WakesInTime
           Lists ==
      /\ rules \in RuleSets /\ file \in RuleSets /\ nextSet \subseteq DOMAIN rules
           Rest ==
      /\ wall \in Instants /\ event \in Events
      /\ loading \in BOOLEAN /\ skewed \in BOOLEAN
<1>1. /\ MaxTime \in Nat /\ PeriodSecs \in Nat \ {0} /\ MaxLate \in Nat
      /\ \A list \in RuleSets : list \in Seq(Rules)
      /\ <<>> \in RuleSets
  BY RuleTimesAssumption, RuleManagerAssumption
<1>2. Timing /\ Lists /\ Rest
  BY DEF TypeOK
<1>3. Later(wall) \in Instants
  BY <1>2, LaterInstant
<1>4. SUFFICES Timing' /\ Lists' /\ Rest'
  BY DEF TypeOK
<1>5. ASSUME NEW list \in RuleSets, NEW w \in Instants, updateNextExecution(list, w)
      PROVE  Timing' /\ skewed' = FALSE /\ nextSet' \subseteq DOMAIN list
  <2>1. /\ due' \in Dues
        /\ nextSet' \subseteq DOMAIN list
        /\ timer' \in {Stopped} \cup 0 .. PeriodSecs
        /\ timer' # Stopped => timer' <= due'
        /\ skewed' = FALSE /\ late' = 0
    BY <1>1, <1>5, ArmedInTime
  <2>2. WakesInTime'
    BY <2>1, FreshWakes
  <2>3. QED
    BY <1>1, <2>1, <2>2
<1>6. CASE Tick
  <2>1. Timing'
    BY <1>1, <1>2, <1>6 DEF Tick, Sooner, WakesInTime, Dues, Past, Stopped
  <2>2. QED
    BY <1>2, <1>3, <1>6, <2>1 DEF Tick, Events
<1>7. CASE TimerFast
  <2>1. Timing'
    BY <1>1, <1>2, <1>7 DEF TimerFast, WakesInTime, Dues, Past, Stopped
  <2>2. QED
    BY <1>2, <1>7, <2>1 DEF TimerFast, Events
<1>8. CASE TimerSlow
  <2>1. Timing'
    BY <1>1, <1>2, <1>8 DEF TimerSlow, Sooner, WakesInTime, Dues, Past, Stopped
  <2>2. QED
    BY <1>2, <1>3, <1>8, <2>1 DEF TimerSlow, Events
<1>9. CASE Realign
  <2>1. due' \in Dues /\ timer' \in 0 .. PeriodSecs /\ timer' <= due'
          /\ skewed' = FALSE /\ late' = 0
    BY <1>1, <1>2, <1>9 DEF Realign, CloseEnough, Rearm, AtMost, Dues, Past
  <2>2. WakesInTime'
    BY <2>1, FreshWakes
  <2>3. Timing'
    BY <1>1, <2>1, <2>2
  <2>4. Lists' /\ Rest'
    BY <1>2, <1>9 DEF Realign, Events
  <2>5. QED
    BY <2>3, <2>4
<1>10. CASE Execute
  <2>1. wall' \in Instants
    BY <1>2, <1>3, <1>10 DEF Execute
  <2>2. Timing' /\ skewed' = FALSE /\ nextSet' \subseteq DOMAIN rules
    BY <1>2, <1>5, <1>10, <2>1 DEF Execute
  <2>3. QED
    BY <1>2, <1>10, <2>1, <2>2 DEF Execute, Events
<1>11. CASE Deserialize \/ Load
  <2>1. rules' \in RuleSets /\ file' \in RuleSets /\ updateNextExecution(rules', wall)
          /\ UNCHANGED <<wall, loading>> /\ event' \in Events
    BY <1>2, <1>11 DEF Deserialize, Load, Events
  <2>2. Timing' /\ skewed' = FALSE /\ nextSet' \subseteq DOMAIN (rules')
    BY <1>2, <1>5, <2>1
  <2>3. QED
    BY <1>2, <2>1, <2>2
<1>12. CASE LoadFails \/ WorkerClears
  <2>1. Timing'
    BY <1>2, <1>12 DEF LoadFails, WorkerClears, WakesInTime
  <2>2. QED
    BY <1>1, <1>2, <1>12, <2>1 DEF LoadFails, WorkerClears, Events
<1>13. CASE WorkerLoads
  <2>1. file \in Seq(Rules)
    BY <1>1, <1>2
  <2>2. due' \in 0 .. MaxTime
    BY <1>2, <1>13, <2>1, LowestTimeInRange DEF WorkerLoads
  <2>3. timer' \in {Alarm(due'), Stopped} /\ skewed' = FALSE /\ late' = 0
    BY <1>13 DEF WorkerLoads
  <2>4. due' \in Dues /\ timer' \in {Stopped} \cup 0 .. PeriodSecs
          /\ (timer' # Stopped => timer' <= due')
    BY <1>1, <2>2, <2>3 DEF Alarm, AtMost, Dues, Past, Stopped
  <2>5. WakesInTime'
    BY <2>3, <2>4, FreshWakes
  <2>6. Timing'
    BY <1>1, <2>3, <2>4, <2>5
  <2>7. Lists' /\ Rest'
    BY <1>2, <1>13 DEF WorkerLoads, DueFirst, Events
  <2>8. QED
    BY <2>6, <2>7
<1>14. CASE WorkerFails
  BY <1>2, <1>14 DEF WorkerFails, WakesInTime, Events
<1>15. CASE UNCHANGED vars
  BY <1>2, <1>15 DEF vars, WakesInTime
<1>16. QED
  BY <1>6, <1>7, <1>8, <1>9, <1>10, <1>11, <1>12, <1>13, <1>14, <1>15 DEF Next

(* The variables keep their types, and the timer wakes in time.            *)
LEMMA WakeInvHolds == Spec => [](TypeOK /\ WakesInTime)
<1>1. Init => TypeOK /\ WakesInTime
  <2>1. Init => WakesInTime
    BY DEF Init, WakesInTime
  <2>2. Init => due \in Dues /\ timer \in {Stopped} \cup 0 .. PeriodSecs
                  /\ late \in 0 .. MaxLate
    BY RuleTimesAssumption, RuleManagerAssumption DEF Init, Dues, Past
  <2>3. Init => /\ wall \in Instants /\ event \in Events
                /\ loading \in BOOLEAN /\ skewed \in BOOLEAN
    BY DEF Init, Events
  <2>4. Init => rules \in RuleSets /\ file \in RuleSets /\ nextSet \subseteq DOMAIN rules
    BY RuleManagerAssumption DEF Init
  <2>5. QED
    BY <2>1, <2>2, <2>3, <2>4 DEF TypeOK
<1>2. TypeOK /\ WakesInTime /\ [Next]_vars => (TypeOK /\ WakesInTime)'
  BY WakeStep
<1>3. QED
  BY <1>1, <1>2, PTL DEF Spec

(* The types of the variables.                                             *)
THEOREM TypeCorrect == Spec => []TypeOK
BY WakeInvHolds, PTL

(* The timer never sleeps past the moment it is set for.                   *)
THEOREM WakesInTimeHolds == Spec => []WakesInTime
BY WakeInvHolds, PTL

-----------------------------------------------------------------------------
(* A second later, a moment is a second closer.                            *)
LEMMA BeginsRound ==
  ASSUME NEW r, NEW w \in Instants, NEW c \in Int
  PROVE  Begins(r, Later(w) + c) <=> Begins(r, (w + 1) + c)
<1>1. w + 1 \in Int
  BY Calendar
<1>2. (Later(w) + c) % Week = ((w + 1) + c) % Week
  BY <1>1, WeekRound DEF Later
<1>3. QED
  BY <1>2, Zenon DEF Begins

(* So is one at which a rule occurs.                                       *)
LEMMA OccursRound ==
  ASSUME NEW r \in RuleType, NEW w \in Instants, NEW c \in Int
  PROVE  Occurs(r, Later(w) + c) <=> Occurs(r, (w + 1) + c)
<1>1. r.every \in Nat /\ r.times \in Nat
  BY DEF RuleType
<1>2. w \in Int /\ Later(w) \in Int
  BY Calendar, LaterInstant
<1>3. ASSUME NEW k \in 1 .. r.times
      PROVE  Begins(r, (Later(w) + c) - k * r.every)
               <=> Begins(r, ((w + 1) + c) - k * r.every)
  <2> DEFINE m == k * r.every
  <2>1. m \in Int
    BY <1>1
  <2> HIDE DEF m
  <2>2. /\ c - m \in Int
        /\ (Later(w) + c) - m = Later(w) + (c - m)
        /\ ((w + 1) + c) - m = (w + 1) + (c - m)
    BY <1>2, <2>1
  <2>3. Begins(r, (Later(w) + c) - m) <=> Begins(r, ((w + 1) + c) - m)
    BY <2>2, BeginsRound
  <2>4. QED
    BY <2>3 DEF m
<1>4. Begins(r, Later(w) + c) <=> Begins(r, (w + 1) + c)
  BY BeginsRound
<1>5. QED
  BY <1>3, <1>4, Zenon DEF Occurs, Repeats

(* The lowest time is not later than that of any enabled rule.             *)
LEMMA LowestTimeLowest ==
  ASSUME NEW list \in Seq(Rules), NEW w \in Instants, NEW i \in DOMAIN list,
         list[i].enabled
  PROVE  LowestTime(list, w) <= GetExecutionTime(list[i], w)
<1> DEFINE T == Times(list, w) \cup {MaxTime}
<1>1. MaxTime \in Nat
  BY RuleTimesAssumption
<1>2. \A j \in DOMAIN list : GetExecutionTime(list[j], w) \in 0 .. MaxTime
  BY ElementOfSeq, ExecutionTimeAhead
<1>3. T \in SUBSET Nat /\ T # {} /\ GetExecutionTime(list[i], w) \in T
  BY <1>1, <1>2 DEF Times
<1> HIDE DEF T
<1>4. PICK m \in T : \A n \in T : m <= n
  BY <1>3, LeastNat
<1>5. Min(T) \in T /\ \A n \in T : Min(T) <= n
  BY <1>4 DEF Min
<1>6. QED
  BY <1>3, <1>5 DEF LowestTime, T

(* What the timer waits for, and what is said about it.                    *)
Line == WaitsForSomething /\ NextInLineOccur /\ NothingPassedOver

(* Just after updateNextExecution, or its like in the worker.              *)
LEMMA FreshLine ==
  ASSUME NEW list \in Seq(Rules), NEW w \in Instants,
         rules' = list, wall' = w,
         due' = LowestTime(list, w), nextSet' = DueFirst(list, w),
         timer' \in {Alarm(due'), Stopped}
  PROVE  Line'
<1>1. due' \in 0 .. MaxTime /\ MaxTime \in Nat
  BY LowestTimeInRange, RuleTimesAssumption
<1>2. timer' # Stopped => due' # MaxTime
  BY DEF Alarm
<1>3. \A i \in DOMAIN list : list[i] \in Rules
  BY ElementOfSeq
<1>4. ASSUME NEW i \in DueFirst(list, w), due' # MaxTime
      PROVE  list[i].enabled /\ Occurs(list[i], w + due')
  <2>1. i \in DOMAIN list /\ list[i].enabled /\ GetExecutionTime(list[i], w) = due'
    BY DEF DueFirst
  <2>2. list[i].days # {}
    BY <1>4, <2>1 DEF GetExecutionTime
  <2>3. Occurs(list[i], w + GetExecutionTime(list[i], w))
    BY <1>3, <2>1, <2>2, OccursThen
  <2>4. QED
    BY <2>1, <2>3
<1>5. ASSUME NEW i \in DOMAIN list, list[i].enabled, WithinADay(list[i]),
             NEW t \in 1 .. due' - 1, Begins(list[i], w + t)
      PROVE  FALSE
  <2> DEFINE g == GetExecutionTime(list[i], w)
  <2>1. due' <= g
    BY <1>5, LowestTimeLowest
  <2>2. g \in 0 .. MaxTime
    BY <1>3, ExecutionTimeAhead
  <2> HIDE DEF g
  <2>3. t \in Nat \ {0} /\ t < g
    BY <1>1, <2>1, <2>2
  <2>4. QED
    BY <1>3, <1>5, <2>3, NothingBefore DEF g
<1>6. WaitsForSomething'
  BY <1>2 DEF WaitsForSomething
<1>7. NextInLineOccur'
  BY <1>2, <1>4 DEF NextInLineOccur, Armed
<1>8. NothingPassedOver'
  BY <1>5 DEF NothingPassedOver, WithinADay
<1>9. QED
  BY <1>6, <1>7, <1>8 DEF Line

(* A second later.                                                         *)
LEMMA LineRound ==
  ASSUME TypeOK, WakesInTime, Line,
         wall' = Later(wall), due' = Sooner(due), UNCHANGED <<rules, nextSet>>,
         timer' # Stopped => timer # Stopped
  PROVE  Line'
<1>1. /\ MaxTime \in Nat /\ PeriodSecs \in Nat \ {0} /\ MaxLate \in Nat
      /\ \A list \in RuleSets : list \in Seq(Rules)
      /\ Rules \subseteq RuleType
  BY RuleTimesAssumption, RuleManagerAssumption
<1>2. due \in Dues /\ wall \in Instants
  BY DEF TypeOK
<1>3. due \in Int /\ wall \in Int /\ due <= MaxTime
  BY <1>1, <1>2, Calendar DEF Dues, Past
<1>4. ASSUME timer' # Stopped
      PROVE  due # MaxTime /\ due' = due - 1 /\ due' # MaxTime
  <2>1. timer # Stopped /\ due # MaxTime
    BY <1>4 DEF Line, WaitsForSomething
  <2>2. timer \in 0 .. PeriodSecs /\ late \in 0 .. MaxLate
          /\ timer <= due + late + (IF skewed THEN 1 ELSE 0)
    BY <2>1 DEF TypeOK, WakesInTime
  <2>3. due # Past
    BY <1>1, <1>3, <2>2 DEF Past
  <2>4. QED
    BY <1>3, <2>1, <2>3 DEF Sooner
<1>5. \A i \in DOMAIN rules : rules[i] \in RuleType
  <2>1. rules \in Seq(Rules)
    BY <1>1 DEF TypeOK
  <2>2. QED
    BY <1>1, <2>1, ElementOfSeq
<1>6. WaitsForSomething'
  BY <1>4 DEF WaitsForSomething
<1>7. ASSUME Armed', NEW i \in nextSet
      PROVE  rules[i].enabled /\ Occurs(rules[i], wall' + due')
  <2>1. timer' # Stopped /\ Armed
    BY <1>7 DEF Armed
  <2>2. rules[i].enabled /\ Occurs(rules[i], wall + due) /\ i \in DOMAIN rules
    BY <2>1 DEF Line, NextInLineOccur, TypeOK
  <2>3. due - 1 \in Int /\ (wall + 1) + (due - 1) = wall + due
    BY <1>3
  <2>4. Occurs(rules[i], Later(wall) + (due - 1))
    BY <1>2, <1>5, <2>2, <2>3, OccursRound
  <2>5. QED
    BY <1>4, <2>1, <2>2, <2>4
<1>8. ASSUME Armed', NEW i \in DOMAIN rules, rules[i].enabled, WithinADay(rules[i]),
             NEW t \in 1 .. due' - 1
      PROVE  ~Begins(rules[i], wall' + t)
  <2>1. timer' # Stopped /\ Armed
    BY <1>8 DEF Armed
  <2>2. t \in Int /\ t + 1 \in 1 .. due - 1 /\ (wall + 1) + t = wall + (t + 1)
    BY <1>3, <1>4, <2>1
  <2>3. ~Begins(rules[i], wall + (t + 1))
    BY <1>8, <2>1, <2>2 DEF Line, NothingPassedOver
  <2>4. Begins(rules[i], Later(wall) + t) <=> Begins(rules[i], (wall + 1) + t)
    BY <1>2, <2>2, BeginsRound
  <2>5. QED
    BY <2>2, <2>3, <2>4
<1>9. NextInLineOccur'
  BY <1>7 DEF NextInLineOccur
<1>10. NothingPassedOver'
  BY <1>8 DEF NothingPassedOver
<1>11. QED
  BY <1>6, <1>9, <1>10 DEF Line

(* Nothing that Line speaks of changes, or the timer stops.                *)
LEMMA LineStays ==
  ASSUME Line, UNCHANGED <<wall, due, rules, nextSet>>, timer' # Stopped => timer # Stopped
  PROVE  Line'
<1>1. Armed' => Armed
  BY DEF Armed
<1>2. WaitsForSomething'
  BY DEF Line, WaitsForSomething
<1>3. NextInLineOccur'
  BY <1>1 DEF Line, NextInLineOccur
<1>4. NothingPassedOver'
  BY <1>1 DEF Line, NothingPassedOver
<1>5. QED
  BY <1>2, <1>3, <1>4 DEF Line

(* No rule is in line.                                                     *)
LEMMA LineEmpty ==
  ASSUME Line, UNCHANGED <<timer, due>>, nextSet' = {}
  PROVE  Line'
BY DEF Line, WaitsForSomething, NextInLineOccur, NothingPassedOver, Armed

(* Every step preserves LineInv.                                           *)
LEMMA LineStep ==
  ASSUME LineInv, [Next]_vars
  PROVE  LineInv'
<1>1. TypeOK /\ WakesInTime /\ Line
  BY DEF LineInv, Line
<1>2. TypeOK' /\ WakesInTime'
  BY <1>1, WakeStep
<1>3. wall \in Instants /\ wall' \in Instants
  BY <1>1, <1>2 DEF TypeOK
<1>4. /\ rules \in Seq(Rules) /\ rules' \in Seq(Rules)
      /\ file \in Seq(Rules) /\ file' \in Seq(Rules)
  BY <1>1, <1>2, RuleManagerAssumption DEF TypeOK
<1>5. timer \in Int /\ PeriodSecs \in Nat /\ Stopped = -1
  BY <1>1, RuleManagerAssumption DEF TypeOK, Stopped
<1>6. SUFFICES Line'
  BY <1>2 DEF LineInv, Line
<1>7. ASSUME rules' \in Seq(Rules), updateNextExecution(rules', wall')
      PROVE  Line'
  BY <1>3, <1>7, FreshLine DEF updateNextExecution
<1>8. CASE Tick
  <2>1. timer' # Stopped => timer # Stopped
    BY <1>5, <1>8 DEF Tick
  <2>2. QED
    BY <1>1, <1>8, <2>1, LineRound DEF Tick
<1>9. CASE TimerFast
  <2>1. timer' # Stopped => timer # Stopped
    BY <1>5, <1>9 DEF TimerFast
  <2>2. QED
    BY <1>1, <1>9, <2>1, LineStays DEF TimerFast
<1>10. CASE TimerSlow
  BY <1>1, <1>10, LineRound DEF TimerSlow
<1>11. CASE Realign
  <2>1. timer # Stopped
    BY <1>5, <1>11 DEF Realign
  <2>2. QED
    BY <1>1, <1>11, <2>1, LineStays DEF Realign
<1>12. CASE Execute
  BY <1>4, <1>7, <1>12 DEF Execute
<1>13. CASE Deserialize \/ Load
  BY <1>4, <1>7, <1>13 DEF Deserialize, Load
<1>14. CASE LoadFails \/ WorkerClears
  BY <1>1, <1>14, LineEmpty DEF LoadFails, WorkerClears
<1>15. CASE WorkerLoads
  BY <1>3, <1>4, <1>15, FreshLine DEF WorkerLoads
<1>16. CASE WorkerFails
  BY <1>1, <1>16, LineStays DEF WorkerFails
<1>17. CASE UNCHANGED vars
  BY <1>1, <1>17, LineStays DEF vars
<1>18. QED
  BY <1>8, <1>9, <1>10, <1>11, <1>12, <1>13, <1>14, <1>15, <1>16, <1>17 DEF Next

(* What the timer waits for, at all times.                                 *)
THEOREM LineTheorem == Spec => []LineInv
<1>1. Init /\ TypeOK /\ WakesInTime => LineInv
  BY DEF Init, LineInv, WaitsForSomething, NextInLineOccur, NothingPassedOver, Armed
<1>2. LineInv /\ [Next]_vars => LineInv'
  BY LineStep
<1>3. QED
  BY <1>1, <1>2, WakeInvHolds, PTL DEF Spec

(* The rules in line occur at the moment the timer is set for.             *)
THEOREM NextInLineOccurs == Spec => []NextInLineOccur
<1>1. LineInv => NextInLineOccur
  BY DEF LineInv
<1>2. QED
  BY <1>1, LineTheorem, PTL

(* No rule begins before the moment the timer is set for.                  *)
THEOREM NothingIsPassedOver == Spec => []NothingPassedOver
<1>1. LineInv => NothingPassedOver
  BY DEF LineInv
<1>2. QED
  BY <1>1, LineTheorem, PTL

(* Rules run at their time, within the second and the delay of the main    *)
(* thread.                                                                 *)
THEOREM RunsOnTimeHolds == Spec => RunsOnTime
<1>1. ASSUME TypeOK, WakesInTime, Next, event' = "run"
      PROVE  due \in (-MaxLate - 1) .. 1
  <2>1. Execute
    BY <1>1 DEF Next, Tick, TimerFast, TimerSlow, Realign, Deserialize, Load,
                LoadFails, WorkerClears, WorkerLoads, WorkerFails
  <2>2. timer = 0 /\ due <= 1
    BY <2>1 DEF Execute, CloseEnough
  <2>3. MaxLate \in Nat /\ MaxTime \in Nat
    BY RuleManagerAssumption, RuleTimesAssumption
  <2>4. 0 <= due + late + 1 /\ due \in Int /\ late \in 0 .. MaxLate
    BY <1>1, <2>2, <2>3 DEF TypeOK, WakesInTime, Stopped, Dues, Past
  <2>5. QED
    BY <2>2, <2>3, <2>4
<1>2. TypeOK /\ WakesInTime /\ [Next]_vars =>
        [event' = "run" => due \in (-MaxLate - 1) .. 1]_vars
  BY <1>1
<1>3. QED
  BY <1>2, WakeInvHolds, PTL DEF Spec, RunsOnTime

(* A list with a rule to come has a lowest time.                           *)
LEMMA LowestTimeComes ==
  ASSUME NEW list \in Seq(Rules), NEW w \in Instants, NEW i \in DOMAIN list,
         list[i].enabled, list[i].days # {}
  PROVE  LowestTime(list, w) # MaxTime
<1> DEFINE r == list[i]
           g == GetExecutionTime(r, w)
           d == Weekday(w)
           s == SecsToday(w)
           k == RepeatsRequired(r, w)
           n == InNbDays(r, w)
<1>1. r \in Rules
  BY ElementOfSeq
<1>2. /\ SecsInDay \in Nat \ {0} /\ Days \in Nat \ {0} /\ MaxTime \in Nat
      /\ r \in RuleType /\ MaxTime > Days * SecsInDay + SecsInDay
      /\ MaxTime > SecsInDay + r.times * r.every
      /\ Days * SecsInDay \in Nat
  BY <1>1, RuleTimesAssumption DEF Week
<1>3. r.at \in 0 .. SecsInDay - 1 /\ r.every \in Nat /\ r.times \in Nat
  BY <1>2 DEF RuleType
<1>4. s \in 0 .. SecsInDay - 1 /\ n \in 1 .. Days /\ w \in Nat
  BY <1>1, <1>2, Calendar, InNbDaysInRange DEF Instants, Week
<1>5. \/ g = r.at - s
      \/ r.at < s /\ k <= r.times /\ g = (r.at - s) + k * r.every
      \/ g = (r.at - s) + n * SecsInDay
  BY <1>1, ExecutionTimeIs, Zenon
<1>6. r.at < s /\ k <= r.times => k \in Nat /\ k * r.every <= r.times * r.every
  BY <1>2, <1>4, RepeatsAhead
<1>7. g \in 0 .. MaxTime /\ LowestTime(list, w) \in 0 .. MaxTime
        /\ LowestTime(list, w) <= g
  BY <1>1, ExecutionTimeAhead, LowestTimeInRange, LowestTimeLowest
<1>8. n * SecsInDay <= Days * SecsInDay /\ n * SecsInDay \in Nat
  BY <1>2, <1>4, TimesMonotonic
<1> HIDE DEF r, g, d, s, k, n
<1>9. r.times * r.every \in Nat /\ r.at \in Int /\ s \in Int
  BY <1>2, <1>3, <1>4
<1>10. CASE g = r.at - s
  BY <1>2, <1>3, <1>4, <1>7, <1>10
<1>11. CASE r.at < s /\ k <= r.times /\ g = (r.at - s) + k * r.every
  <2>1. k * r.every \in Nat /\ k * r.every <= r.times * r.every
    BY <1>3, <1>6, <1>11
  <2>2. QED
    BY <1>2, <1>3, <1>4, <1>7, <1>9, <1>11, <2>1
<1>12. CASE g = (r.at - s) + n * SecsInDay
  <2>1. r.at - s < SecsInDay /\ SecsInDay \in Int
    BY <1>2, <1>3, <1>4, <1>9
  <2>2. g < MaxTime
    <3> DEFINE p == n * SecsInDay
               q == Days * SecsInDay
    <3>1. p \in Int /\ q \in Int /\ p <= q /\ MaxTime > q + SecsInDay /\ g = (r.at - s) + p
      BY <1>2, <1>8, <1>12
    <3> HIDE DEF p, q
    <3>2. QED
      BY <1>2, <1>9, <2>1, <3>1
  <2>3. QED
    BY <1>2, <1>7, <2>2
<1>13. QED
  BY <1>5, <1>10, <1>11, <1>12

(* With rules to come the timer is stopped by nothing but an occurrence in *)
(* the second in which rules have run.                                     *)
THEOREM StopsOnlyAtOnceHolds == Spec => StopsOnlyAtOnce
<1>1. ASSUME TypeOK, Next, event' \in {"time", "realign", "run"}, timer # Stopped, RulesToCome,
             timer' = Stopped
      PROVE  due' = 0
  <2>1. /\ PeriodSecs \in Nat \ {0} /\ MaxTime \in Nat
        /\ timer \in 0 .. PeriodSecs /\ due \in Int /\ rules \in Seq(Rules)
        /\ wall \in Instants
    BY <1>1, RuleManagerAssumption, RuleTimesAssumption DEF TypeOK, Dues, Past
  <2>2. CASE Tick \/ TimerFast \/ TimerSlow
    BY <1>1, <2>1, <2>2 DEF Tick, TimerFast, TimerSlow, Stopped
  <2>3. CASE Realign
    BY <1>1, <2>1, <2>3 DEF Realign, CloseEnough, Rearm, AtMost, Stopped
  <2>4. CASE Execute
    <3>1. wall' \in Instants
      BY <2>1, <2>4, LaterInstant DEF Execute
    <3>2. due' = LowestTime(rules, wall') /\ timer' = Alarm(due')
      BY <2>4 DEF Execute, updateNextExecution
    <3>3. due' \in 0 .. MaxTime
      BY <2>1, <3>1, <3>2, LowestTimeInRange
    <3>4. due' # MaxTime
      BY <1>1, <2>1, <3>1, <3>2, LowestTimeComes DEF RulesToCome
    <3>5. QED
      BY <1>1, <2>1, <3>2, <3>3, <3>4 DEF Alarm, AtMost, Stopped
  <2>5. CASE Deserialize \/ Load \/ LoadFails \/ WorkerClears \/ WorkerLoads \/ WorkerFails
    BY <1>1, <2>5 DEF Deserialize, Load, LoadFails, WorkerClears, WorkerLoads, WorkerFails
  <2>6. QED
    BY <1>1, <2>2, <2>3, <2>4, <2>5 DEF Next
<1>2. TypeOK /\ [Next]_vars =>
        [event' \in {"time", "realign", "run"} /\ timer # Stopped /\ RulesToCome
           => timer' # Stopped \/ due' = 0]_vars
  BY <1>1
<1>3. QED
  BY <1>2, TypeCorrect, PTL DEF Spec, StopsOnlyAtOnce
=============================================================================
