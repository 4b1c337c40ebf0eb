---------------------------- MODULE UpkeepProofs -----------------------------
(***************************************************************************)
(* Proofs about Upkeep, for any number of cpls and any intervals,          *)
(* timeouts and capacities: the routing behaviour never sleeps past what   *)
(* bootstrap or explore have to do (UpkeepSleepIsSound), and the first     *)
(* round of explores comes first (FirstRoundComesFirst).                   *)
(*                                                                         *)
(* The first needs no history: a poll that emits nothing leaves each       *)
(* machine calm, with its due time telling when it has something to do     *)
(* next, and the timer is set to the earlier of the two.  The second needs *)
(* Ordered, which says where in the schedule the cpls are that have had a  *)
(* turn and those that have not; the clock and the machine's turns keep    *)
(* it, whatever is overdue.                                                *)
(***************************************************************************)
EXTENDS Upkeep, SequenceTheorems, FiniteSetTheorems, WellFoundedInduction, TLAPS

Times == {t \in Int : t >= NoTime}

LookupType == [left : Times, quota : Int]

InEvent == {"Start", "BootstrapAnswer", "ExploreAnswer", "Table"}

OutEvent == {"BootstrapRequest", "BootstrapFinished", "ExploreRequest", "AddNode", "Notice"}

\* The schedule s agrees with the counts k of how often each cpl was taken up: a cpl
\* that was not is ahead of every one that was, and of any that is scheduled anew.
Ordered(s, k) ==
  /\ \A c, d \in Cpl : k[c] > 0 /\ k[d] = 0 => s[d] < s[c]
  /\ \/ \A d \in Cpl : s[d] = FirstDue(d)
     \/ \A d \in Cpl : k[d] = 0 => s[d] < ExploreInterval
  /\ (\E c \in Cpl : k[c] > 1) => (\A d \in Cpl : k[d] > 0)
-----------------------------------------------------------------------------
(* Due times and the schedule *)

\* A set of natural numbers has a least element, as the order is well-founded.
LEMMA LeastNat ==
  ASSUME NEW S \in SUBSET Nat, S # {}
  PROVE  \E n \in S : \A m \in S : n <= m
<1> DEFINE R == OpToRel(<, Nat)
<1>1. IsWellFoundedOn(R, Nat)
  BY NatLessThanWellFounded
<1>2. \A x, y \in Nat : x < y => <<x, y>> \in R
  BY DEF OpToRel
<1> HIDE DEF R
<1>3. PICK n \in S : \A m \in S : ~ (<<m, n>> \in R)
  BY <1>1, WFMin
<1>4. \A m \in S : ~(m < n)
  BY <1>2, <1>3
<1> QED
  BY <1>4

\* The earlier of two due times.
LEMMA EarlierSound ==
  ASSUME NEW a \in Times, NEW b \in Times, NEW e, e = Earliest({a, b})
  PROVE  /\ e \in Times
         /\ a # NoTime => e # NoTime /\ e <= a
         /\ b # NoTime => e # NoTime /\ e <= b
<1> DEFINE T == {a, b} \ {NoTime}
<1>1. NoTime \in Times /\ a \in Int /\ b \in Int
  BY DEF Times, NoTime
<1>2. CASE T = {}
  BY <1>1, <1>2 DEF Earliest
<1>3. CASE T # {}
  <2>1. \E t \in T : \A u \in T : t <= u
    <3>1. CASE a = NoTime \/ b = NoTime
      BY <1>1, <1>3, <3>1
    <3>2. CASE a # NoTime /\ b # NoTime
      <4>1. a \in T /\ b \in T /\ \A u \in T : u = a \/ u = b
        BY <3>2
      <4>2. CASE a <= b
        BY <1>1, <4>1, <4>2
      <4>3. CASE b <= a
        BY <1>1, <4>1, <4>3
      <4> QED
        BY <1>1, <4>2, <4>3
    <3> QED
      BY <3>1, <3>2
  <2>2. e = CHOOSE t \in T : \A u \in T : t <= u
    BY <1>3 DEF Earliest
  <2>3. e \in T /\ \A u \in T : e <= u
    BY <2>1, <2>2
  <2> QED
    BY <1>1, <2>3
<1> QED
  BY <1>2, <1>3

\* The clock brings every due time nearer, down to Past, and leaves the order.
LEMMA CountDownSound ==
  /\ \A t \in Times : CountDown(t) \in Times
  /\ \A t \in Times : CountDown(t) = NoTime <=> t = NoTime
  /\ \A t, u \in Times : t \in Past..u => CountDown(t) \in Past..CountDown(u)
BY DEF Times, CountDown, NoTime, Past

\* c comes before d in the schedule.
Before(s, c, d) == s[c] < s[d] \/ (s[c] = s[d] /\ c < d)

\* The schedule always has an earliest entry, which is the one it takes up next.
LEMMA NextIsEarliest ==
  ASSUME NEW s \in [Cpl -> Int]
  PROVE  /\ NextInSchedule(s) \in Cpl
         /\ \A d \in Cpl \ {NextInSchedule(s)} : Before(s, NextInSchedule(s), d)
<1> DEFINE Good(k) == \E c \in 0..k : \A d \in (0..k) \ {c} : Before(s, c, d)
           Bad == {k \in Nat : k <= MaxCpl /\ ~Good(k)}
<1>1. MaxCpl \in Nat /\ \A c \in Cpl : s[c] \in Int /\ c \in Nat
  BY UpkeepAssumption DEF Cpl
<1>2. Good(0)
  OBVIOUS
<1>3. ASSUME NEW k \in Nat, k + 1 <= MaxCpl, Good(k)
      PROVE  Good(k + 1)
  <2>1. PICK c \in 0..k : \A d \in (0..k) \ {c} : Before(s, c, d)
    BY <1>3
  <2>2. /\ k + 1 \in Cpl /\ c \in Cpl /\ c < k + 1 /\ c \in 0..(k + 1) /\ k + 1 \in 0..(k + 1)
        /\ \A d \in 0..k : d \in Cpl /\ d # k + 1
        /\ \A d \in 0..(k + 1) : d \in 0..k \/ d = k + 1
    BY <1>1, <1>3 DEF Cpl
  <2>3. CASE s[c] <= s[k + 1]
    <3>1. Before(s, c, k + 1)
      BY <1>1, <2>2, <2>3 DEF Before
    <3>2. \A d \in (0..(k + 1)) \ {c} : Before(s, c, d)
      BY <2>1, <2>2, <3>1
    <3> QED
      BY <2>2, <3>2
  <2>4. CASE ~(s[c] <= s[k + 1])
    <3>1. s[k + 1] < s[c]
      BY <1>1, <2>2, <2>4
    <3>2. \A d \in 0..k : s[c] <= s[d]
      BY <1>1, <2>1, <2>2 DEF Before
    <3>3. \A d \in 0..k : s[k + 1] < s[d]
      BY <1>1, <2>2, <3>1, <3>2
    <3>4. \A d \in (0..(k + 1)) \ {k + 1} : Before(s, k + 1, d)
      BY <2>2, <3>3 DEF Before
    <3> QED
      BY <2>2, <3>4
  <2> QED
    BY <2>3, <2>4
<1> HIDE DEF Good
<1>4. Bad = {}
  <2> SUFFICES ASSUME Bad # {} PROVE FALSE
    OBVIOUS
  <2>1. PICK k \in Bad : \A j \in Bad : k <= j
    BY LeastNat
  <2>2. k \in Nat /\ k # 0 /\ k <= MaxCpl /\ ~Good(k)
    BY <1>2, <2>1
  <2>3. k - 1 \in Nat /\ (k - 1) + 1 = k /\ k - 1 <= MaxCpl /\ k - 1 \notin Bad
    BY <1>1, <2>1, <2>2
  <2>4. Good(k - 1)
    BY <2>3
  <2>5. Good((k - 1) + 1)
    BY <1>3, <2>2, <2>3, <2>4
  <2> QED
    BY <2>2, <2>3, <2>5
<1>5. Good(MaxCpl)
  BY <1>1, <1>4
<1>6. \E c \in Cpl : \A d \in Cpl \ {c} : Before(s, c, d)
  BY <1>5 DEF Good, Cpl
<1> QED
  BY <1>6 DEF NextInSchedule, Before

\* One tick brings the entries nearer and leaves their order.
LEMMA LaterSound ==
  ASSUME NEW s \in [Cpl -> Int], NEW l, l = Later(s)
  PROVE  /\ l \in [Cpl -> Int]
         /\ \A c \in Cpl : s[c] > 0 => l[c] = s[c] - 1
         /\ \A c \in Cpl : s[c] <= 0 => l[c] < 0
         /\ \A c, d \in Cpl : s[c] < s[d] => l[c] < l[d]
<1> DEFINE all == {s[c] : c \in Cpl}
           overdue == {t \in all : t <= 0}
           from(c) == {t \in overdue : t >= s[c]}
<1>1. \A c \in Cpl : s[c] \in Int
  OBVIOUS
<1>2. IsFiniteSet(overdue)
  <2>1. IsFiniteSet(Cpl)
    BY FS_Interval, UpkeepAssumption DEF Cpl
  <2>2. s \in Surjection(Cpl, all)
    BY DEF Surjection
  <2>3. IsFiniteSet(all)
    BY <2>1, <2>2, FS_Surjection
  <2> QED
    BY <2>3, FS_Subset
<1>3. l = [c \in Cpl |-> IF s[c] > 0 THEN s[c] - 1 ELSE -Cardinality(from(c))]
  BY DEF Later
<1>4. \A c \in Cpl : IsFiniteSet(from(c)) /\ Cardinality(from(c)) \in Nat
  <2> TAKE c \in Cpl
  <2>1. from(c) \in SUBSET overdue
    OBVIOUS
  <2> QED
    BY <1>2, <2>1, FS_Subset, FS_CardinalityType
<1>5. \A c \in Cpl : s[c] <= 0 => Cardinality(from(c)) > 0
  <2> TAKE c \in Cpl
  <2> HAVE s[c] <= 0
  <2>1. s[c] \in from(c)
    BY <1>1
  <2> HIDE DEF from
  <2>2. Cardinality(from(c)) # 0
    BY <1>4, <2>1, FS_EmptySet
  <2> QED
    BY <1>4, <2>2
<1>6. \A c, d \in Cpl : s[c] < s[d] /\ s[d] <= 0 => Cardinality(from(d)) < Cardinality(from(c))
  <2> TAKE c, d \in Cpl
  <2> HAVE s[c] < s[d] /\ s[d] <= 0
  <2>1. from(d) \in SUBSET from(c) /\ s[c] \in from(c) /\ s[c] \notin from(d)
    BY <1>1
  <2> HIDE DEF from
  <2>2. Cardinality(from(d)) <= Cardinality(from(c)) /\ Cardinality(from(c)) # Cardinality(from(d))
    BY <1>4, <2>1, FS_Subset
  <2> QED
    BY <1>4, <2>2
<1> HIDE DEF from
<1>7. /\ l \in [Cpl -> Int]
      /\ \A c \in Cpl : s[c] > 0 => l[c] = s[c] - 1
      /\ \A c \in Cpl : s[c] <= 0 => l[c] = -Cardinality(from(c))
  BY <1>1, <1>3, <1>4
<1>8. \A c \in Cpl : s[c] <= 0 => l[c] < 0
  BY <1>4, <1>5, <1>7
<1>9. \A c, d \in Cpl : s[c] < s[d] => l[c] < l[d]
  <2> TAKE c, d \in Cpl
  <2> HAVE s[c] < s[d]
  <2>1. CASE s[c] > 0
    BY <1>1, <1>7, <2>1
  <2>2. CASE s[c] <= 0 /\ s[d] > 0
    BY <1>1, <1>7, <1>8, <2>2
  <2>3. CASE s[d] <= 0
    <3>1. s[c] <= 0
      BY <1>1, <2>3
    <3> QED
      BY <1>4, <1>6, <1>7, <2>3, <3>1
  <2> QED
    BY <1>1, <2>1, <2>2, <2>3
<1> QED
  BY <1>7, <1>8, <1>9

\* The first round is spread over one interval.
LEMMA FirstRoundSound ==
  /\ \A c \in Cpl : FirstDue(c) \in Nat /\ FirstDue(c) <= ExploreInterval
  /\ (\E c \in Cpl : FirstDue(c) <= 0) => \A d \in Cpl : FirstDue(d) < ExploreInterval
<1> DEFINE gap == ExploreInterval \div (MaxCpl + 1)
           all == MaxCpl + 1
<1>1. MaxCpl \in Nat /\ ExploreInterval \in Nat /\ ExploreInterval > 0 /\ all \in Nat /\ all > 0
  BY UpkeepAssumption
<1>2. gap \in Nat /\ gap * all <= ExploreInterval
  <2>1. gap \in Int /\ all * gap <= ExploreInterval /\ gap >= 0
    BY <1>1, Z3
  <2> QED
    BY <1>1, <2>1
<1>3. \A c \in Cpl : FirstDue(c) = gap * (MaxCpl - c + 1)
  BY DEF FirstDue
<1> HIDE DEF gap
<1>4. \A c \in Cpl : MaxCpl - c + 1 \in 1..all
  BY <1>1 DEF Cpl
<1>5. \A k \in 1..all : gap * k \in Nat /\ gap * k <= gap * all /\ gap * k >= gap
  BY <1>1, <1>2
<1>6. \A c \in Cpl : FirstDue(c) \in Nat /\ FirstDue(c) <= gap * all /\ FirstDue(c) >= gap
  BY <1>3, <1>4, <1>5
<1>7. gap <= 0 => gap * all = 0
  BY <1>1, <1>2
<1>8. gap * all \in Nat
  BY <1>1, <1>2
<1> HIDE DEF all
<1> QED
  BY <1>1, <1>2, <1>6, <1>7, <1>8

\* Every later round takes one interval at least.
LEMMA IntervalSound ==
  ASSUME NEW c \in Cpl, NEW j \in 0..MaxJitter
  PROVE  CplInterval(c, j) \in Int /\ CplInterval(c, j) >= ExploreInterval
<1> DEFINE a == ExploreInterval * (MaxCpl - c)
<1>1. /\ ExploreInterval \in Nat /\ MaxCpl - c \in Nat /\ Multiplier \in Nat /\ j \in Nat
  BY UpkeepAssumption DEF Cpl
<1>2. a \in Nat
  BY <1>1
<1>3. CplInterval(c, j) = ExploreInterval + a * Multiplier + j
  BY DEF CplInterval
<1> HIDE DEF a
<1>4. a * Multiplier \in Nat
  BY <1>1, <1>2
<1> QED
  BY <1>1, <1>3, <1>4

\* Time passes for the schedule.
LEMMA LaterOrdered ==
  ASSUME NEW s \in [Cpl -> Int], NEW k \in [Cpl -> 0..2], Ordered(s, k)
  PROVE  Ordered(Later(s), k)
<1> DEFINE l == Later(s)
<1>1. /\ \A c \in Cpl : s[c] > 0 => l[c] = s[c] - 1
      /\ \A c \in Cpl : s[c] <= 0 => l[c] < 0
      /\ \A c, d \in Cpl : s[c] < s[d] => l[c] < l[d]
      /\ l \in [Cpl -> Int]
  BY LaterSound
<1> HIDE DEF l
<1>2. ExploreInterval \in Nat /\ ExploreInterval > 0 /\ \A c \in Cpl : s[c] \in Int /\ l[c] \in Int
  BY <1>1, UpkeepAssumption
<1>3. \A d \in Cpl : s[d] <= ExploreInterval => l[d] < ExploreInterval
  BY <1>1, <1>2
<1>4. \A d \in Cpl : k[d] = 0 => l[d] < ExploreInterval
  <2>1. CASE \A d \in Cpl : s[d] = FirstDue(d)
    BY <1>3, <2>1, FirstRoundSound
  <2>2. CASE \A d \in Cpl : k[d] = 0 => s[d] < ExploreInterval
    BY <1>2, <1>3, <2>2
  <2> QED
    BY <2>1, <2>2 DEF Ordered
<1>5. \A c, d \in Cpl : k[c] > 0 /\ k[d] = 0 => l[d] < l[c]
  BY <1>1 DEF Ordered
<1>6. Ordered(l, k)
  BY <1>4, <1>5 DEF Ordered
<1> QED
  BY <1>6 DEF l

\* The cpl at the head of the schedule is due, and s and k become t and l when it is taken
\* up.
TakenUp(s, k, j, t, l) ==
  LET c == NextInSchedule(s)
  IN  /\ s[c] <= 0
      /\ t = [s EXCEPT ![c] = CplInterval(c, j)]
      /\ l = [k EXCEPT ![c] = IF @ < 2 THEN @ + 1 ELSE @]

\* The cpl at the head of the schedule is taken up: were it a second time while another
\* had not been taken up, that one would be ahead of it.
LEMMA TakeOrdered ==
  ASSUME NEW s \in [Cpl -> Int], NEW k \in [Cpl -> 0..2], Ordered(s, k),
         NEW j \in 0..MaxJitter, NEW t, NEW l, TakenUp(s, k, j, t, l)
  PROVE  t \in [Cpl -> Int] /\ l \in [Cpl -> 0..2] /\ Ordered(t, l)
<1> DEFINE c == NextInSchedule(s)
           i == CplInterval(c, j)
           n == IF k[c] < 2 THEN k[c] + 1 ELSE k[c]
<1>1. c \in Cpl /\ \A d \in Cpl \ {c} : Before(s, c, d)
  BY NextIsEarliest
<1>2. t = [s EXCEPT ![c] = i] /\ l = [k EXCEPT ![c] = n] /\ s[c] <= 0
  BY DEF TakenUp
<1> HIDE DEF c
<1>3. i \in Int /\ i >= ExploreInterval /\ ExploreInterval \in Nat
  BY <1>1, IntervalSound, UpkeepAssumption
<1>4. k[c] \in 0..2
  BY <1>1
<1>5. n \in 1..2 /\ (n > 1 => k[c] > 0)
  BY <1>4
<1> HIDE DEF i, n
<1>6. /\ t \in [Cpl -> Int] /\ l \in [Cpl -> 0..2]
      /\ t[c] = i /\ l[c] = n
      /\ \A d \in Cpl \ {c} : t[d] = s[d] /\ l[d] = k[d]
  <2>1. n \in 0..2
    BY <1>5
  <2>2. t \in [Cpl -> Int] /\ t[c] = i /\ \A d \in Cpl \ {c} : t[d] = s[d]
    BY <1>1, <1>2, <1>3
  <2>3. l \in [Cpl -> 0..2] /\ l[c] = n /\ \A d \in Cpl \ {c} : l[d] = k[d]
    BY <1>1, <1>2, <2>1
  <2> QED
    BY <2>2, <2>3
<1>7. \A d \in Cpl : s[d] \in Int /\ t[d] \in Int /\ k[d] \in 0..2 /\ l[d] \in 0..2
  BY <1>6
<1>8. \A d \in Cpl : k[d] = 0 => s[d] < ExploreInterval
  <2>1. CASE \A d \in Cpl : s[d] = FirstDue(d)
    BY <1>1, <1>2, <2>1, FirstRoundSound
  <2> QED
    BY <2>1 DEF Ordered
<1>9. \A d \in Cpl : l[d] = 0 => d # c /\ k[d] = 0 /\ t[d] = s[d]
  BY <1>5, <1>6
<1>10. \A d \in Cpl : l[d] = 0 => t[d] < ExploreInterval
  BY <1>8, <1>9
<1>11. k[c] > 0 => \A d \in Cpl : k[d] > 0
  <2>1. SUFFICES ASSUME k[c] > 0, NEW d \in Cpl, ~(k[d] > 0) PROVE FALSE
    OBVIOUS
  <2>2. k[d] = 0 /\ d # c
    BY <1>7, <2>1
  <2>3. s[d] < s[c]
    BY <1>1, <2>1, <2>2 DEF Ordered
  <2>4. Before(s, c, d)
    BY <1>1, <2>2
  <2> QED
    BY <1>1, <1>7, <2>3, <2>4 DEF Before
<1>12. \A b, d \in Cpl : l[b] > 0 /\ l[d] = 0 => t[d] < t[b]
  <2> TAKE b, d \in Cpl
  <2> HAVE l[b] > 0 /\ l[d] = 0
  <2>1. CASE b = c
    BY <1>3, <1>6, <1>7, <1>10, <2>1
  <2>2. CASE b # c
    <3>1. k[b] > 0 /\ t[b] = s[b] /\ k[d] = 0 /\ t[d] = s[d]
      BY <1>6, <1>9, <2>2
    <3> QED
      BY <3>1 DEF Ordered
  <2> QED
    BY <2>1, <2>2
<1>13. (\E b \in Cpl : l[b] > 1) => \A d \in Cpl : l[d] > 0
  <2>1. SUFFICES ASSUME NEW b \in Cpl, l[b] > 1, NEW d \in Cpl PROVE l[d] > 0
    OBVIOUS
  <2>2. CASE b = c
    BY <1>5, <1>6, <1>11, <2>1, <2>2
  <2>3. CASE b # c
    BY <1>5, <1>6, <2>1, <2>3 DEF Ordered
  <2> QED
    BY <2>2, <2>3
<1>14. Ordered(t, l)
  BY <1>10, <1>12, <1>13 DEF Ordered
<1> QED
  BY <1>6, <1>14

\* The time at which the next cpl falls due, as the clock brings it nearer.
LEMMA NextDueSound ==
  ASSUME NEW s \in [Cpl -> Int]
  PROVE  /\ NextDue(s) \in Times /\ NextDue(s) # NoTime
         /\ \A t \in Past..NextDue(s) : CountDown(t) \in Past..NextDue(Later(s))
<1> DEFINE l == Later(s)
           c == NextInSchedule(s)
           e == NextInSchedule(l)
<1>1. /\ \A d \in Cpl : s[d] > 0 => l[d] = s[d] - 1
      /\ \A d \in Cpl : s[d] <= 0 => l[d] < 0
      /\ l \in [Cpl -> Int]
  BY LaterSound
<1>2. c \in Cpl /\ e \in Cpl /\ s[c] \in Int /\ s[e] \in Int /\ l[e] \in Int
  <2> HIDE DEF l
  <2> QED
    BY <1>1, NextIsEarliest
<1>3. s[c] <= s[e]
  <2>1. e # c => Before(s, c, e)
    BY <1>2, NextIsEarliest
  <2> QED
    BY <1>2, <2>1 DEF Before
<1>4. /\ NextDue(s) = IF s[c] < 0 THEN Past ELSE s[c]
      /\ NextDue(l) = IF l[e] < 0 THEN Past ELSE l[e]
  BY DEF NextDue
<1>5. /\ s[e] > 0 => l[e] = s[e] - 1
      /\ s[e] <= 0 => l[e] < 0
  BY <1>1, <1>2
<1> HIDE DEF l, c, e
<1>6. NextDue(s) \in Int /\ NextDue(s) >= Past
  BY <1>2, <1>4 DEF Past
<1>7. \A t \in Past..NextDue(s) : CountDown(t) \in Past..NextDue(l)
  <2> TAKE t \in Past..NextDue(s)
  <2>1. t \in Int /\ t >= -1 /\ t <= NextDue(s)
    BY <1>6 DEF Past
  <2>2. CASE s[e] > 0
    <3>1. NextDue(l) = s[e] - 1
      BY <1>2, <1>4, <1>5, <2>2
    <3>2. t <= s[e]
      BY <1>2, <1>3, <1>4, <2>1, <2>2 DEF Past
    <3> QED
      BY <1>2, <2>1, <2>2, <3>1, <3>2 DEF CountDown, Past
  <2>3. CASE s[e] <= 0
    <3>1. NextDue(l) = Past
      BY <1>4, <1>5, <2>3
    <3>2. t <= 0
      BY <1>2, <1>3, <1>4, <2>1, <2>3 DEF Past
    <3> QED
      BY <2>1, <3>1, <3>2 DEF CountDown, Past
  <2> QED
    BY <1>2, <2>2, <2>3
<1> QED
  BY <1>6, <1>7 DEF Times, Past, NoTime, l
-----------------------------------------------------------------------------
(* The behaviour's state while it handles an event *)

MachineType ==
  [low : BOOLEAN, bootstrap : [qry : LookupType, retry : Times],
   explore : [qry : LookupType, sched : [Cpl -> Int]],
   due : [bootstrap : Times, explore : Times],
   inbound : Seq(InEvent), outbound : Seq(OutEvent), emitted : Seq(OutEvent),
   pollAgain : BOOLEAN, taken : [Cpl -> 0..2]]

Sane(m) ==
  /\ m \in MachineType
  /\ Len(m.inbound) <= QueueCapacity
  /\ Ordered(m.explore.sched, m.taken)

\* The bootstrap has nothing to do before its due time.
BootstrapCalm(m) ==
  /\ IsRunning(m.bootstrap.qry) => m.due.bootstrap = m.bootstrap.qry.left
  /\ ~IsRunning(m.bootstrap.qry) /\ m.low =>
       m.due.bootstrap = m.bootstrap.retry /\ m.bootstrap.retry > 0

\* Nor has the explore.
ExploreCalm(m) ==
  m.due.explore = IF IsRunning(m.explore.qry) THEN m.explore.qry.left
                  ELSE NextDue(m.explore.sched)

\* The bootstrap machine has turned m into k.
BootstrapStep(m, k) ==
  /\ k \in MachineType
  /\ k.low = m.low /\ k.explore = m.explore /\ k.taken = m.taken /\ k.inbound = m.inbound
  /\ k.outbound = m.outbound /\ k.pollAgain = m.pollAgain /\ k.due.explore = m.due.explore
  /\ k.emitted = <<>> => BootstrapCalm(k)

\* The explore machine has turned m into k.
ExploreStep(m, k) ==
  /\ k \in MachineType
  /\ Ordered(k.explore.sched, k.taken)
  /\ k.low = m.low /\ k.bootstrap = m.bootstrap /\ k.inbound = m.inbound
  /\ k.outbound = m.outbound /\ k.due.bootstrap = m.due.bootstrap
  /\ k.emitted = <<>> /\ ~k.pollAgain => ExploreCalm(k)

\* A query that waits has its deadline ahead.
LEMMA AdvanceQuerySound ==
  ASSUME NEW q \in LookupType, NEW res \in AdvanceQuery(q)
  PROVE  /\ res.qry \in LookupType
         /\ res.kind \in {"finished", "request", "waiting", "timeout"}
         /\ res.kind = "waiting" => res.qry = q
<1>1. NoLookup \in LookupType
  BY DEF NoLookup, LookupType, Times, NoTime
<1>2. CASE res = Result(NoLookup, "finished") \/ res = Result(NoLookup, "timeout")
  BY <1>1, <1>2 DEF Result
<1>3. CASE res = Result(q, "waiting")
  BY <1>3 DEF Result
<1>4. CASE res \in {Result([p EXCEPT !.quota = @ - 1], "request") : p \in {r \in {q} : r.quota > 0}}
  <2> DEFINE n == q.quota - 1
             p == [q EXCEPT !.quota = n]
  <2>1. res = Result(p, "request")
    BY <1>4
  <2>2. n \in Int
    BY DEF LookupType
  <2> HIDE DEF n
  <2>3. p \in LookupType
    BY <2>2 DEF LookupType
  <2> HIDE DEF p
  <2> QED
    BY <2>1, <2>3 DEF Result
<1> QED
  BY <1>2, <1>3, <1>4 DEF AdvanceQuery

\* A query that is started is running.
LEMMA NewLookupSound ==
  ASSUME NEW n \in Nat
  PROVE  NewLookup(n) \in LookupType /\ IsRunning(NewLookup(n))
BY LookupAssumption DEF NewLookup, LookupType, Times, NoTime, IsRunning

\* advanceBootstrap, when a query runs.
LEMMA AdvanceBootstrapSound ==
  ASSUME NEW m \in MachineType, IsRunning(m.bootstrap.qry), NEW k \in AdvanceBootstrapQuery(m)
  PROVE  BootstrapStep(m, k)
<1>1. PICK res \in AdvanceQuery(m.bootstrap.qry) : k = BootstrapResult(m, res)
  BY DEF AdvanceBootstrapQuery
<1>2. m.bootstrap.qry \in LookupType /\ m.bootstrap.retry \in Times
  BY DEF MachineType
<1>3. /\ res.qry \in LookupType
      /\ res.kind \in {"finished", "request", "waiting", "timeout"}
      /\ res.kind = "waiting" => res.qry = m.bootstrap.qry
  BY <1>1, <1>2, AdvanceQuerySound
<1> DEFINE b == [m.bootstrap EXCEPT !.qry = res.qry]
           n == [m EXCEPT !.bootstrap = b]
<1>4. /\ b \in [qry : LookupType, retry : Times]
      /\ b.qry = res.qry
  BY <1>2, <1>3 DEF MachineType
<1>5. /\ n \in MachineType
      /\ n.low = m.low /\ n.explore = m.explore /\ n.taken = m.taken /\ n.inbound = m.inbound
      /\ n.outbound = m.outbound /\ n.pollAgain = m.pollAgain /\ n.due = m.due
      /\ n.bootstrap = b
  <2> HIDE DEF b
  <2> QED
    BY <1>4 DEF MachineType
<1>6. CASE res.kind = "request"
  <2> DEFINE em == <<"BootstrapRequest">>
  <2>1. k = [n EXCEPT !.emitted = em]
    BY <1>1, <1>6 DEF BootstrapResult
  <2>2. em \in Seq(OutEvent) /\ em # <<>>
    BY DEF OutEvent
  <2> HIDE DEF n, em
  <2> QED
    BY <1>5, <2>1, <2>2 DEF BootstrapStep, MachineType
<1>7. CASE res.kind = "waiting"
  <2> DEFINE d == [n.due EXCEPT !.bootstrap = res.qry.left]
  <2>1. k = [n EXCEPT !.due = d]
    BY <1>1, <1>7 DEF BootstrapResult
  <2> HIDE DEF n, b
  <2>2. /\ d \in [bootstrap : Times, explore : Times] /\ d.bootstrap = res.qry.left
        /\ d.explore = m.due.explore
    BY <1>3, <1>5 DEF MachineType, LookupType
  <2> HIDE DEF d
  <2>3. /\ k \in MachineType /\ k.due = d /\ k.bootstrap = b
        /\ k.low = m.low /\ k.explore = m.explore /\ k.taken = m.taken /\ k.inbound = m.inbound
        /\ k.outbound = m.outbound /\ k.pollAgain = m.pollAgain
    BY <1>5, <2>1, <2>2 DEF MachineType
  <2>4. BootstrapCalm(k)
    BY <1>3, <1>4, <1>7, <2>2, <2>3 DEF BootstrapCalm
  <2> QED
    BY <2>2, <2>3, <2>4 DEF BootstrapStep
<1>8. CASE res.kind \in {"finished", "timeout"}
  <2> DEFINE d == [n.due EXCEPT !.bootstrap = NoTime]
             em == <<"BootstrapFinished">>
  <2>1. k = [n EXCEPT !.due = d, !.emitted = em]
    BY <1>1, <1>8 DEF BootstrapResult
  <2> HIDE DEF n, b
  <2>2. d \in [bootstrap : Times, explore : Times] /\ d.explore = m.due.explore
    <3>1. NoTime \in Times
      BY DEF Times, NoTime
    <3>2. n.due \in [bootstrap : Times, explore : Times]
      BY <1>5 DEF MachineType
    <3> QED
      BY <1>5, <3>1, <3>2
  <2>3. em \in Seq(OutEvent) /\ em # <<>>
    BY DEF OutEvent
  <2> HIDE DEF d, em
  <2> QED
    BY <1>5, <2>1, <2>2, <2>3 DEF BootstrapStep, MachineType
<1> QED
  BY <1>3, <1>6, <1>7, <1>8

\* startQuery.
LEMMA StartBootstrapSound ==
  ASSUME NEW m \in MachineType, NEW k \in StartBootstrap(m)
  PROVE  BootstrapStep(m, k)
<1> DEFINE q == NewLookup(BootstrapRequests)
           b == [m.bootstrap EXCEPT !.qry = q, !.retry = RetryInterval]
           n == [m EXCEPT !.bootstrap = b]
<1>1. q \in LookupType /\ IsRunning(q) /\ RetryInterval \in Times
  BY NewLookupSound, UpkeepAssumption DEF Times, NoTime
<1>2. k \in AdvanceBootstrapQuery(n)
  BY DEF StartBootstrap
<1> HIDE DEF q
<1>3. b \in [qry : LookupType, retry : Times] /\ b.qry = q
  BY <1>1 DEF MachineType
<1> HIDE DEF b
<1>4. /\ n \in MachineType /\ n.bootstrap = b
      /\ n.low = m.low /\ n.explore = m.explore /\ n.taken = m.taken /\ n.inbound = m.inbound
      /\ n.outbound = m.outbound /\ n.pollAgain = m.pollAgain /\ n.due = m.due
  BY <1>3 DEF MachineType
<1> HIDE DEF n
<1>5. BootstrapStep(n, k)
  BY <1>1, <1>2, <1>3, <1>4, AdvanceBootstrapSound
<1> QED
  BY <1>4, <1>5 DEF BootstrapStep

\* Bootstrap.Advance with a poll: what it leaves for later is the deadline of its query
\* or the time of its next attempt.
LEMMA PollBootstrapSound ==
  ASSUME NEW m \in MachineType, NEW k \in PollBootstrap(m)
  PROVE  BootstrapStep(m, k)
<1>1. CASE IsRunning(m.bootstrap.qry)
  BY <1>1, AdvanceBootstrapSound DEF PollBootstrap
<1>2. CASE ~IsRunning(m.bootstrap.qry) /\ m.low /\ m.bootstrap.retry <= 0
  BY <1>2, StartBootstrapSound DEF PollBootstrap
<1>3. CASE ~IsRunning(m.bootstrap.qry) /\ ~(m.low /\ m.bootstrap.retry <= 0)
  <2> DEFINE t == IF m.low THEN m.bootstrap.retry ELSE NoTime
             d == [m.due EXCEPT !.bootstrap = t]
  <2>1. k = [m EXCEPT !.due = d]
    BY <1>3 DEF PollBootstrap
  <2>2. m.bootstrap.retry \in Times /\ m.bootstrap.retry \in Int /\ NoTime \in Times
    BY DEF MachineType, Times, NoTime
  <2>3. t \in Times /\ (m.low => t = m.bootstrap.retry /\ m.bootstrap.retry > 0)
    BY <1>3, <2>2
  <2> HIDE DEF t
  <2>4. /\ d \in [bootstrap : Times, explore : Times]
        /\ d.bootstrap = t /\ d.explore = m.due.explore
    BY <2>3 DEF MachineType
  <2> HIDE DEF d
  <2>5. /\ k \in MachineType /\ k.due = d
        /\ k.low = m.low /\ k.explore = m.explore /\ k.taken = m.taken /\ k.inbound = m.inbound
        /\ k.outbound = m.outbound /\ k.pollAgain = m.pollAgain /\ k.bootstrap = m.bootstrap
    BY <2>1, <2>4 DEF MachineType
  <2>6. BootstrapCalm(k)
    BY <1>3, <2>3, <2>4, <2>5 DEF BootstrapCalm
  <2> QED
    BY <2>4, <2>5, <2>6 DEF BootstrapStep
<1> QED
  BY <1>1, <1>2, <1>3

\* advanceExplore, when a query runs.
LEMMA AdvanceExploreSound ==
  ASSUME NEW m \in MachineType, IsRunning(m.explore.qry), Ordered(m.explore.sched, m.taken),
         NEW k \in AdvanceExploreQuery(m)
  PROVE  ExploreStep(m, k)
<1>1. PICK res \in AdvanceQuery(m.explore.qry) : k = ExploreResult(m, res)
  BY DEF AdvanceExploreQuery
<1>2. m.explore.qry \in LookupType /\ m.explore.sched \in [Cpl -> Int]
  BY DEF MachineType
<1>3. /\ res.qry \in LookupType
      /\ res.kind \in {"finished", "request", "waiting", "timeout"}
      /\ res.kind = "waiting" => res.qry = m.explore.qry
  BY <1>1, <1>2, AdvanceQuerySound
<1> DEFINE x == [m.explore EXCEPT !.qry = res.qry]
           n == [m EXCEPT !.explore = x]
<1>4. /\ x \in [qry : LookupType, sched : [Cpl -> Int]]
      /\ x.qry = res.qry /\ x.sched = m.explore.sched
  BY <1>2, <1>3 DEF MachineType
<1>5. /\ n \in MachineType
      /\ n.low = m.low /\ n.bootstrap = m.bootstrap /\ n.taken = m.taken /\ n.inbound = m.inbound
      /\ n.outbound = m.outbound /\ n.due = m.due
      /\ n.explore = x
  <2> HIDE DEF x
  <2> QED
    BY <1>4 DEF MachineType
<1>6. CASE res.kind = "request"
  <2> DEFINE em == <<"ExploreRequest">>
  <2>1. k = [n EXCEPT !.emitted = em]
    BY <1>1, <1>6 DEF ExploreResult
  <2>2. em \in Seq(OutEvent) /\ em # <<>>
    BY DEF OutEvent
  <2> HIDE DEF n, em, x
  <2>3. /\ k \in MachineType /\ k.emitted = em /\ k.explore = x
        /\ k.low = m.low /\ k.bootstrap = m.bootstrap /\ k.taken = m.taken
        /\ k.inbound = m.inbound /\ k.outbound = m.outbound /\ k.due = m.due
    BY <1>5, <2>1, <2>2 DEF MachineType
  <2> QED
    BY <1>4, <2>2, <2>3 DEF ExploreStep
<1>7. CASE res.kind = "waiting"
  <2> DEFINE d == [n.due EXCEPT !.explore = res.qry.left]
  <2>1. k = [n EXCEPT !.due = d]
    BY <1>1, <1>7 DEF ExploreResult
  <2> HIDE DEF n, x
  <2>2. /\ d \in [bootstrap : Times, explore : Times] /\ d.explore = res.qry.left
        /\ d.bootstrap = m.due.bootstrap
    BY <1>3, <1>5 DEF MachineType, LookupType
  <2> HIDE DEF d
  <2>3. /\ k \in MachineType /\ k.due = d /\ k.explore = x
        /\ k.low = m.low /\ k.bootstrap = m.bootstrap /\ k.taken = m.taken
        /\ k.inbound = m.inbound /\ k.outbound = m.outbound
    BY <1>5, <2>1, <2>2 DEF MachineType
  <2>4. ExploreCalm(k)
    BY <1>3, <1>4, <1>7, <2>2, <2>3 DEF ExploreCalm
  <2> QED
    BY <1>4, <2>2, <2>3, <2>4 DEF ExploreStep
<1>8. CASE res.kind \in {"finished", "timeout"}
  <2>1. k = [n EXCEPT !.pollAgain = TRUE]
    BY <1>1, <1>8 DEF ExploreResult
  <2> HIDE DEF n, x
  <2>2. /\ k \in MachineType /\ k.pollAgain = TRUE /\ k.explore = x
        /\ k.low = m.low /\ k.bootstrap = m.bootstrap /\ k.taken = m.taken
        /\ k.inbound = m.inbound /\ k.outbound = m.outbound /\ k.due = m.due
    BY <1>5, <2>1 DEF MachineType
  <2> QED
    BY <1>4, <2>2 DEF ExploreStep
<1> QED
  BY <1>3, <1>6, <1>7, <1>8

\* startExplore.
LEMMA StartExploreSound ==
  ASSUME NEW m \in MachineType, Ordered(m.explore.sched, m.taken), NEW k \in StartExplore(m)
  PROVE  ExploreStep(m, k)
<1> DEFINE q == NewLookup(ExploreRequests)
           x == [m.explore EXCEPT !.qry = q]
           n == [m EXCEPT !.explore = x]
<1>1. q \in LookupType /\ IsRunning(q)
  BY NewLookupSound, UpkeepAssumption
<1>2. k \in AdvanceExploreQuery(n)
  BY DEF StartExplore
<1> HIDE DEF q
<1>3. /\ x \in [qry : LookupType, sched : [Cpl -> Int]] /\ x.qry = q
      /\ x.sched = m.explore.sched
  BY <1>1 DEF MachineType
<1> HIDE DEF x
<1>4. /\ n \in MachineType /\ n.explore = x
      /\ n.low = m.low /\ n.bootstrap = m.bootstrap /\ n.taken = m.taken /\ n.inbound = m.inbound
      /\ n.outbound = m.outbound /\ n.due = m.due
  BY <1>3 DEF MachineType
<1> HIDE DEF n
<1>5. ExploreStep(n, k)
  BY <1>1, <1>2, <1>3, <1>4, AdvanceExploreSound
<1> QED
  BY <1>4, <1>5 DEF ExploreStep

\* Explore.Advance with a poll: what it leaves for later is the deadline of its query or
\* the next entry of its schedule.
LEMMA PollExploreSound ==
  ASSUME NEW m \in MachineType, Ordered(m.explore.sched, m.taken), NEW k \in PollExplore(m)
  PROVE  ExploreStep(m, k)
<1> DEFINE s == m.explore.sched
           k0 == m.taken
           c == NextInSchedule(s)
<1>1. s \in [Cpl -> Int] /\ k0 \in [Cpl -> 0..2] /\ Ordered(s, k0)
  BY DEF MachineType
<1>2. CASE IsRunning(m.explore.qry)
  BY <1>2, AdvanceExploreSound DEF PollExplore
<1>3. CASE ~IsRunning(m.explore.qry) /\ s[c] > 0
  <2> DEFINE d == [m.due EXCEPT !.explore = NextDue(s)]
  <2>1. k = [m EXCEPT !.due = d]
    BY <1>3 DEF PollExplore
  <2>2. NextDue(s) \in Times
    BY <1>1, NextDueSound
  <2> HIDE DEF c
  <2>3. /\ d \in [bootstrap : Times, explore : Times]
        /\ d.explore = NextDue(s) /\ d.bootstrap = m.due.bootstrap
    BY <2>2 DEF MachineType
  <2> HIDE DEF d
  <2>4. /\ k \in MachineType /\ k.due = d /\ k.explore = m.explore
        /\ k.low = m.low /\ k.bootstrap = m.bootstrap /\ k.taken = m.taken
        /\ k.inbound = m.inbound /\ k.outbound = m.outbound
    BY <2>1, <2>3 DEF MachineType
  <2>5. ExploreCalm(k)
    BY <1>3, <2>3, <2>4 DEF ExploreCalm
  <2> QED
    BY <2>3, <2>4, <2>5 DEF ExploreStep
<1>4. CASE ~IsRunning(m.explore.qry) /\ ~(s[c] > 0)
  <2>1. PICK j \in 0..MaxJitter :
          k \in {[Reschedule(m, c, j) EXCEPT !.pollAgain = TRUE]} \cup StartExplore(Reschedule(m, c, j))
    BY <1>4 DEF PollExplore
  <2> DEFINE t == [s EXCEPT ![c] = CplInterval(c, j)]
             l == [k0 EXCEPT ![c] = IF @ < 2 THEN @ + 1 ELSE @]
             x == [m.explore EXCEPT !.sched = t]
             n == Reschedule(m, c, j)
  <2>2. n = [m EXCEPT !.explore = x, !.taken = l]
    BY DEF Reschedule
  <2>3. c \in Cpl
    BY <1>1, NextIsEarliest
  <2>4. s[c] <= 0
    BY <1>1, <1>4, <2>3
  <2>5. t \in [Cpl -> Int] /\ l \in [Cpl -> 0..2] /\ Ordered(t, l)
    <3>1. TakenUp(s, k0, j, t, l)
      BY <2>4 DEF TakenUp
    <3> HIDE DEF s, k0, c, t, l
    <3>2. t \in [Cpl -> Int] /\ l \in [Cpl -> 0..2] /\ Ordered(t, l)
      BY <1>1, <3>1, TakeOrdered
    <3> QED
      BY <3>2
  <2> HIDE DEF t, l
  <2>6. x \in [qry : LookupType, sched : [Cpl -> Int]] /\ x.sched = t
    BY <2>5 DEF MachineType
  <2> HIDE DEF x, n, c
  <2>7. /\ n \in MachineType /\ n.explore = x /\ n.taken = l
        /\ n.low = m.low /\ n.bootstrap = m.bootstrap /\ n.inbound = m.inbound
        /\ n.outbound = m.outbound /\ n.due = m.due
    BY <2>2, <2>5, <2>6 DEF MachineType
  <2>8. CASE k = [n EXCEPT !.pollAgain = TRUE]
    <3>1. /\ k \in MachineType /\ k.explore = x /\ k.taken = l /\ k.pollAgain = TRUE
          /\ k.low = m.low /\ k.bootstrap = m.bootstrap /\ k.inbound = m.inbound
          /\ k.outbound = m.outbound /\ k.due = m.due
      BY <2>7, <2>8 DEF MachineType
    <3> QED
      BY <2>5, <2>6, <3>1 DEF ExploreStep
  <2>9. CASE k \in StartExplore(n)
    <3>1. ExploreStep(n, k)
      BY <2>5, <2>6, <2>7, <2>9, StartExploreSound
    <3> QED
      BY <2>7, <3>1 DEF ExploreStep
  <2> QED
    BY <2>1, <2>8, <2>9 DEF n
<1> QED
  BY <1>2, <1>3, <1>4
-----------------------------------------------------------------------------
(* Perform *)

\* What a child emitted joins the outbound events.
LEMMA QueuedSound ==
  ASSUME NEW m \in MachineType, NEW k, k = Queued(m)
  PROVE  /\ k \in MachineType
         /\ k.low = m.low /\ k.bootstrap = m.bootstrap /\ k.explore = m.explore
         /\ k.taken = m.taken /\ k.inbound = m.inbound /\ k.due = m.due
         /\ k.pollAgain = m.pollAgain /\ k.emitted = <<>>
         /\ k.outbound = <<>> => m.emitted = <<>> /\ m.outbound = <<>>
<1> DEFINE o == m.outbound \o m.emitted
<1>1. k = [m EXCEPT !.outbound = o, !.emitted = <<>>]
  BY DEF Queued
<1>2. /\ m.outbound \in Seq(OutEvent) /\ m.emitted \in Seq(OutEvent)
      /\ <<>> \in Seq(OutEvent)
  BY DEF MachineType
<1>3. o \in Seq(OutEvent) /\ Len(o) = Len(m.outbound) + Len(m.emitted)
  BY <1>2, ConcatProperties
<1>4. o = <<>> => m.emitted = <<>> /\ m.outbound = <<>>
  <2>1. /\ Len(m.outbound) \in Nat /\ Len(m.emitted) \in Nat
        /\ (o = <<>> <=> Len(o) = 0)
        /\ (m.outbound = <<>> <=> Len(m.outbound) = 0)
        /\ (m.emitted = <<>> <=> Len(m.emitted) = 0)
    BY <1>2, <1>3, EmptySeq, LenProperties
  <2> QED
    BY <1>3, <2>1
<1> HIDE DEF o
<1>5. /\ k \in MachineType /\ k.outbound = o
      /\ k.low = m.low /\ k.bootstrap = m.bootstrap /\ k.explore = m.explore
      /\ k.taken = m.taken /\ k.inbound = m.inbound /\ k.due = m.due
      /\ k.pollAgain = m.pollAgain /\ k.emitted = <<>>
  BY <1>1, <1>2, <1>3 DEF MachineType
<1> QED
  BY <1>4, <1>5

\* A removal has turned m into k, with its news among the outbound events.
Removed(m, b, k) == k = [m EXCEPT !.low = b, !.outbound = Append(@, "Notice")]

\* A removal leaves its news behind.
LEMMA RemovedSound ==
  ASSUME NEW m \in MachineType, NEW b \in BOOLEAN, NEW k, Removed(m, b, k)
  PROVE  /\ k \in MachineType /\ k.outbound # <<>>
         /\ k.bootstrap = m.bootstrap /\ k.explore = m.explore /\ k.taken = m.taken
         /\ k.inbound = m.inbound /\ k.due = m.due /\ k.emitted = m.emitted
<1> DEFINE o == Append(m.outbound, "Notice")
<1>1. k = [m EXCEPT !.low = b, !.outbound = o]
  BY DEF Removed
<1>2. \A q \in Seq(OutEvent), ev \in OutEvent : Append(q, ev) \in Seq(OutEvent) /\ Append(q, ev) # <<>>
  OBVIOUS
<1>3. o \in Seq(OutEvent) /\ o # <<>>
  BY <1>2 DEF MachineType, OutEvent
<1> HIDE DEF o
<1> QED
  BY <1>1, <1>3 DEF MachineType

\* What include and probe do when they are polled.
LEMMA PollTableSound ==
  ASSUME NEW m \in MachineType, NEW k \in PollTable(m)
  PROVE  k = m \/ (/\ k \in MachineType /\ k.outbound # <<>>
                   /\ k.explore = m.explore /\ k.taken = m.taken /\ k.inbound = m.inbound)
<1>1. CASE k = m
  BY <1>1
<1>2. CASE k = [m EXCEPT !.low = TRUE, !.outbound = Append(@, "Notice")]
  <2>1. Removed(m, TRUE, k)
    BY <1>2 DEF Removed
  <2> QED
    BY <2>1, RemovedSound
<1> QED
  BY <1>1, <1>2 DEF PollTable

\* Taking an event from the outbound queue.
LEMMA PopOutboundSound ==
  ASSUME NEW m, Sane(m), m.emitted = <<>>, NEW k, k = PopOutbound(m)
  PROVE  Sane(k) /\ (k.emitted = <<>> => k = m /\ m.outbound = <<>>)
<1>1. CASE m.outbound = <<>>
  BY <1>1 DEF PopOutbound
<1>2. CASE m.outbound # <<>>
  <2> DEFINE t == Tail(m.outbound)
             e == <<Head(m.outbound)>>
  <2>1. k = [m EXCEPT !.outbound = t, !.emitted = e]
    BY <1>2 DEF PopOutbound
  <2>2. m.outbound \in Seq(OutEvent) /\ m \in MachineType
    BY DEF Sane, MachineType
  <2>3. t \in Seq(OutEvent) /\ e \in Seq(OutEvent) /\ e # <<>>
    BY <1>2, <2>2
  <2> HIDE DEF t, e
  <2>4. /\ k \in MachineType /\ k.emitted = e /\ k.inbound = m.inbound
        /\ k.explore = m.explore /\ k.taken = m.taken
    BY <2>1, <2>2, <2>3 DEF MachineType
  <2> QED
    BY <2>3, <2>4 DEF Sane
<1> QED
  BY <1>1, <1>2

\* An inbound event may do much, but keeps the state sound.
LEMMA PerformInboundSound ==
  ASSUME NEW m, Sane(m), NEW ev \in InEvent, NEW k \in PerformInbound(m, ev)
  PROVE  Sane(k)
<1> DEFINE hears == {m, [m EXCEPT !.outbound = Append(@, "AddNode")]}
<1>1. m \in MachineType
  BY DEF Sane
<1>2. \A n \in hears : Sane(n) /\ n \in MachineType
  <2> TAKE n \in hears
  <2>1. CASE n = m
    BY <2>1 DEF Sane
  <2>2. CASE n = [m EXCEPT !.outbound = Append(@, "AddNode")]
    <3> DEFINE o == Append(m.outbound, "AddNode")
    <3>1. m.outbound \in Seq(OutEvent) /\ "AddNode" \in OutEvent
      BY <1>1 DEF MachineType, OutEvent
    <3>2. o \in Seq(OutEvent)
      BY <3>1
    <3>3. n = [m EXCEPT !.outbound = o]
      BY <2>2
    <3> HIDE DEF o
    <3>4. /\ n \in MachineType /\ n.inbound = m.inbound
          /\ n.explore = m.explore /\ n.taken = m.taken
      BY <1>1, <3>2, <3>3 DEF MachineType
    <3> QED
      BY <3>4 DEF Sane
  <2> QED
    BY <2>1, <2>2
<1>3. CASE ev = "Start"
  <2>1. (k \in AdvanceBootstrapQuery(m) /\ IsRunning(m.bootstrap.qry)) \/ k \in StartBootstrap(m)
    BY <1>3 DEF PerformInbound, RequestBootstrap
  <2>2. BootstrapStep(m, k)
    BY <1>1, <2>1, AdvanceBootstrapSound, StartBootstrapSound
  <2> QED
    BY <2>2 DEF BootstrapStep, Sane
<1>4. CASE ev = "BootstrapAnswer"
  <2>1. PICK n \in hears : k \in PollBootstrap(n)
    BY <1>4 DEF PerformInbound
  <2> HIDE DEF hears
  <2>2. BootstrapStep(n, k) /\ Sane(n)
    BY <1>2, <2>1, PollBootstrapSound
  <2> QED
    BY <2>2 DEF BootstrapStep, Sane
<1>5. CASE ev = "ExploreAnswer"
  <2>1. PICK n \in hears : k \in PollExplore(n)
    BY <1>5 DEF PerformInbound
  <2> HIDE DEF hears
  <2>2. Sane(n) /\ n \in MachineType /\ Ordered(n.explore.sched, n.taken)
    BY <1>2, <2>1 DEF Sane
  <2>3. ExploreStep(n, k)
    BY <2>1, <2>2, PollExploreSound
  <2> QED
    BY <2>2, <2>3 DEF ExploreStep, Sane
<1>6. CASE ev = "Table"
  <2>1. k \in AdvanceTable(m)
    BY <1>6 DEF PerformInbound
  <2>2. CASE k = m
    BY <2>2
  <2>3. ASSUME NEW b \in BOOLEAN, k = [m EXCEPT !.low = b, !.emitted = <<"Notice">>]
        PROVE  Sane(k)
    <3> DEFINE e == <<"Notice">>
    <3>1. e \in Seq(OutEvent) /\ k = [m EXCEPT !.low = b, !.emitted = e]
      BY <2>3 DEF OutEvent
    <3> HIDE DEF e
    <3>2. /\ k \in MachineType /\ k.inbound = m.inbound
          /\ k.explore = m.explore /\ k.taken = m.taken
      BY <1>1, <2>3, <3>1 DEF MachineType
    <3> QED
      BY <3>2 DEF Sane
  <2>4. ASSUME NEW b \in BOOLEAN, k = [m EXCEPT !.low = b, !.outbound = Append(@, "Notice")]
        PROVE  Sane(k)
    <3>1. Removed(m, b, k)
      BY <2>4 DEF Removed
    <3>2. /\ k \in MachineType /\ k.inbound = m.inbound
          /\ k.explore = m.explore /\ k.taken = m.taken
      BY <1>1, <3>1, RemovedSound
    <3> QED
      BY <3>2 DEF Sane
  <2>5. m.low \in BOOLEAN
    BY <1>1 DEF MachineType
  <2> QED
    BY <2>1, <2>2, <2>3, <2>4, <2>5 DEF AdvanceTable
<1> QED
  BY <1>3, <1>4, <1>5, <1>6 DEF InEvent

\* pollChildren: with nothing emitted and no reason to poll again, both machines are calm.
LEMMA PollChildrenSound ==
  ASSUME NEW m, Sane(m), NEW l \in PollChildren(m)
  PROVE  /\ Sane(l) /\ l.emitted = <<>>
         /\ l.outbound = <<>> /\ ~l.pollAgain => BootstrapCalm(l) /\ ExploreCalm(l)
<1> DEFINE m0 == [m EXCEPT !.pollAgain = FALSE]
           bootstrapped == {Queued(k) : k \in PollBootstrap(m0)}
           vetted == {Queued(k) : k \in UNION {PollTable(n) : n \in bootstrapped}}
<1>1. l \in {Queued(k) : k \in UNION {PollExplore(n) : n \in vetted}}
  BY DEF PollChildren
<1> HIDE DEF vetted
<1>2. PICK q2 \in vetted : \E k3 \in PollExplore(q2) : l = Queued(k3)
  BY <1>1
<1> USE DEF vetted
<1> HIDE DEF bootstrapped
<1>3. PICK k3 \in PollExplore(q2) : l = Queued(k3)
  BY <1>2
<1>4. PICK q1 \in bootstrapped : \E k2 \in PollTable(q1) : q2 = Queued(k2)
  BY <1>2
<1>5. PICK k2 \in PollTable(q1) : q2 = Queued(k2)
  BY <1>4
<1> USE DEF bootstrapped
<1> HIDE DEF vetted, m0
<1>6. PICK k1 \in PollBootstrap(m0) : q1 = Queued(k1)
  BY <1>4
<1> HIDE DEF bootstrapped
<1>7. /\ m0 \in MachineType /\ m0.explore = m.explore /\ m0.taken = m.taken
      /\ m0.inbound = m.inbound
  BY DEF Sane, MachineType, m0
<1>8. BootstrapStep(m0, k1)
  BY <1>6, <1>7, PollBootstrapSound
<1>9. /\ k1 \in MachineType /\ k1.explore = m.explore /\ k1.taken = m.taken
      /\ k1.inbound = m.inbound
      /\ k1.emitted = <<>> => BootstrapCalm(k1)
  BY <1>7, <1>8 DEF BootstrapStep
<1>10. /\ q1 \in MachineType /\ q1.explore = m.explore /\ q1.taken = m.taken
       /\ q1.inbound = m.inbound
       /\ q1.outbound = <<>> => BootstrapCalm(q1)
  <2>1. /\ q1 \in MachineType
        /\ q1.low = k1.low /\ q1.bootstrap = k1.bootstrap /\ q1.explore = k1.explore
        /\ q1.taken = k1.taken /\ q1.inbound = k1.inbound /\ q1.due = k1.due
        /\ q1.outbound = <<>> => k1.emitted = <<>>
    BY <1>6, <1>9, QueuedSound
  <2> QED
    BY <1>9, <2>1 DEF BootstrapCalm
<1>11. /\ k2 \in MachineType /\ k2.explore = m.explore /\ k2.taken = m.taken
       /\ k2.inbound = m.inbound
       /\ k2.outbound = <<>> => BootstrapCalm(k2)
  <2>1. CASE k2 = q1
    BY <1>10, <2>1
  <2>2. CASE k2 # q1
    BY <1>5, <1>10, <2>2, PollTableSound
  <2> QED
    BY <2>1, <2>2
<1>12. /\ q2 \in MachineType /\ q2.explore = m.explore /\ q2.taken = m.taken
       /\ q2.inbound = m.inbound
       /\ q2.outbound = <<>> => BootstrapCalm(q2)
  <2>1. /\ q2 \in MachineType
        /\ q2.low = k2.low /\ q2.bootstrap = k2.bootstrap /\ q2.explore = k2.explore
        /\ q2.taken = k2.taken /\ q2.inbound = k2.inbound /\ q2.due = k2.due
        /\ q2.outbound = <<>> => k2.outbound = <<>>
    BY <1>5, <1>11, QueuedSound
  <2> QED
    BY <1>11, <2>1 DEF BootstrapCalm
<1>13. ExploreStep(q2, k3)
  <2>1. Ordered(q2.explore.sched, q2.taken)
    BY <1>12 DEF Sane
  <2> QED
    BY <1>3, <1>12, <2>1, PollExploreSound
<1>14. /\ k3 \in MachineType /\ Ordered(k3.explore.sched, k3.taken)
       /\ k3.inbound = m.inbound
       /\ k3.outbound = <<>> => BootstrapCalm(k3)
       /\ k3.emitted = <<>> /\ ~k3.pollAgain => ExploreCalm(k3)
  BY <1>12, <1>13 DEF ExploreStep, BootstrapCalm
<1>15. /\ l \in MachineType /\ l.emitted = <<>>
       /\ l.low = k3.low /\ l.bootstrap = k3.bootstrap /\ l.explore = k3.explore
       /\ l.taken = k3.taken /\ l.inbound = k3.inbound /\ l.due = k3.due
       /\ l.pollAgain = k3.pollAgain
       /\ l.outbound = <<>> => k3.emitted = <<>> /\ k3.outbound = <<>>
  BY <1>3, <1>14, QueuedSound
<1> QED
  BY <1>14, <1>15 DEF Sane, BootstrapCalm, ExploreCalm

\* Perform: it stops with nothing to return only when nothing is left to return and both
\* machines are calm, or it will poll again.
LEMMA PerformedSound ==
  ASSUME NEW m, Sane(m), m.emitted = <<>>, NEW p \in Performed(m)
  PROVE  /\ Sane(p)
         /\ p.emitted = <<>> =>
              /\ p.outbound = <<>>
              /\ ~p.pollAgain => BootstrapCalm(p) /\ ExploreCalm(p)
<1>1. CASE m.outbound # <<>>
  <2>1. p = PopOutbound(m)
    BY <1>1 DEF Performed
  <2> QED
    BY <1>1, <2>1, PopOutboundSound
<1>2. CASE m.outbound = <<>>
  <2> DEFINE ks == IF m.inbound = <<>> THEN {m}
                   ELSE UNION {PerformInbound(n, Head(m.inbound)) :
                                 n \in {[m EXCEPT !.inbound = Tail(@)]}}
  <2>1. p \in UNION {IF k.emitted # <<>> THEN {k} ELSE {PopOutbound(l) : l \in PollChildren(k)} :
                       k \in ks}
    BY <1>2 DEF Performed
  <2> HIDE DEF ks
  <2>2. PICK k \in ks : p \in IF k.emitted # <<>> THEN {k} ELSE {PopOutbound(l) : l \in PollChildren(k)}
    BY <2>1
  <2>3. Sane(k)
    <3>1. CASE m.inbound = <<>>
      BY <2>2, <3>1 DEF ks
    <3>2. CASE m.inbound # <<>>
      <4> DEFINE t == Tail(m.inbound)
                 n == [m EXCEPT !.inbound = t]
                 ev == Head(m.inbound)
      <4>1. k \in PerformInbound(n, ev)
        BY <2>2, <3>2 DEF ks
      <4>2. /\ m \in MachineType /\ m.inbound \in Seq(InEvent) /\ Len(m.inbound) <= QueueCapacity
        BY DEF Sane, MachineType
      <4>3. ev \in InEvent /\ t \in Seq(InEvent) /\ Len(t) <= QueueCapacity
        <5>1. ev \in InEvent /\ t \in Seq(InEvent) /\ Len(t) = Len(m.inbound) - 1
          BY <3>2, <4>2, HeadTailProperties
        <5>2. QueueCapacity \in Nat /\ Len(m.inbound) \in Nat
          BY <4>2, UpkeepAssumption, LenProperties
        <5> QED
          BY <4>2, <5>1, <5>2
      <4> HIDE DEF t, ev
      <4>4. /\ n \in MachineType /\ n.inbound = t /\ n.explore = m.explore /\ n.taken = m.taken
        BY <4>2, <4>3 DEF MachineType
      <4> HIDE DEF n
      <4>5. Sane(n)
        BY <4>3, <4>4 DEF Sane
      <4> QED
        BY <4>1, <4>3, <4>5, PerformInboundSound
    <3> QED
      BY <3>1, <3>2
  <2>4. CASE k.emitted # <<>>
    BY <2>2, <2>3, <2>4
  <2>5. CASE k.emitted = <<>>
    <3>1. PICK l \in PollChildren(k) : p = PopOutbound(l)
      BY <2>2, <2>5
    <3>2. /\ Sane(l) /\ l.emitted = <<>>
          /\ l.outbound = <<>> /\ ~l.pollAgain => BootstrapCalm(l) /\ ExploreCalm(l)
      BY <2>3, <3>1, PollChildrenSound
    <3>3. Sane(p) /\ (p.emitted = <<>> => p = l /\ l.outbound = <<>>)
      BY <3>1, <3>2, PopOutboundSound
    <3> QED
      BY <3>2, <3>3
  <2> QED
    BY <2>4, <2>5
<1> QED
  BY <1>1, <1>2
-----------------------------------------------------------------------------
(* The invariant *)

\* The state's types, with no bound but the queue's capacity.
Typed ==
  /\ low \in BOOLEAN
  /\ bootstrap \in [qry : LookupType, retry : Times]
  /\ explore \in [qry : LookupType, sched : [Cpl -> Int]]
  /\ due \in [bootstrap : Times, explore : Times]
  /\ inbound \in Seq(InEvent)
  /\ Len(inbound) <= QueueCapacity
  /\ outbound \in Seq(OutEvent)
  /\ ready \in BOOLEAN
  /\ timer \in Times
  /\ taken \in [Cpl -> 0..2]

\* The inductive invariant.  FirstRoundFirst is a consequence of Ordered: that a cpl is not
\* taken up twice while another waits for its first turn follows only from where
\* the two are in the schedule.
IInv ==
  /\ Typed
  /\ UpkeepSleepsSoundly
  /\ Ordered(explore.sched, taken)

\* inboundQueue.enqueue.
LEMMA EnqueuedSound ==
  ASSUME NEW q \in Seq(InEvent), Len(q) <= QueueCapacity, NEW ev \in InEvent
  PROVE  Enqueued(q, ev) \in Seq(InEvent) /\ Len(Enqueued(q, ev)) <= QueueCapacity
<1>1. QueueCapacity \in Nat /\ Len(q) \in Nat
  BY UpkeepAssumption, LenProperties
<1>2. Append(q, ev) \in Seq(InEvent) /\ Len(Append(q, ev)) = Len(q) + 1
  BY AppendProperties
<1> QED
  BY <1>1, <1>2 DEF Enqueued

\* What becomes of an event that Perform returned.
LEMMA DispatchSound ==
  ASSUME NEW m, m \in MachineType, Len(m.inbound) <= QueueCapacity, m.emitted # <<>>, Dispatch(m)
  PROVE  inbound' \in Seq(InEvent) /\ Len(inbound') <= QueueCapacity
<1>1. m.inbound \in Seq(InEvent) /\ m.emitted \in Seq(OutEvent)
  BY DEF MachineType
<1>2. m.emitted[1] \in OutEvent
  BY <1>1
<1>3. \/ inbound' = m.inbound
      \/ \E ev \in InEvent : inbound' = Enqueued(m.inbound, ev)
  <2>1. CASE m.emitted[1] = "BootstrapRequest"
    <3>1. inbound' = m.inbound \/ inbound' = Enqueued(m.inbound, "BootstrapAnswer")
      BY <2>1 DEF Dispatch
    <3> QED
      BY <3>1 DEF InEvent
  <2>2. CASE m.emitted[1] = "ExploreRequest"
    <3>1. inbound' = m.inbound \/ inbound' = Enqueued(m.inbound, "ExploreAnswer")
      BY <2>2 DEF Dispatch
    <3> QED
      BY <3>1 DEF InEvent
  <2>3. CASE m.emitted[1] = "AddNode"
    <3>1. inbound' = Enqueued(m.inbound, "Table")
      BY <2>3 DEF Dispatch
    <3> QED
      BY <3>1 DEF InEvent
  <2>4. CASE m.emitted[1] \in {"BootstrapFinished", "Notice"}
    BY <2>4 DEF Dispatch
  <2> QED
    BY <1>2, <2>1, <2>2, <2>3, <2>4 DEF OutEvent
<1> QED
  BY <1>1, <1>3, EnqueuedSound

\* The invariant holds at the start.
LEMMA InitSound == Init => IInv
<1> SUFFICES ASSUME Init PROVE IInv
  OBVIOUS
<1>1. NoLookup \in LookupType /\ NoTime \in Times
  BY DEF NoLookup, LookupType, Times, NoTime
<1>2. /\ explore.sched = [c \in Cpl |-> FirstDue(c)] /\ explore.sched \in [Cpl -> Int]
      /\ taken = [c \in Cpl |-> 0] /\ taken \in [Cpl -> 0..2]
  <2>1. \A c \in Cpl : FirstDue(c) \in Int
    BY FirstRoundSound
  <2> QED
    BY <2>1 DEF Init
<1>3. Typed
  <2>1. bootstrap \in [qry : LookupType, retry : Times]
    BY <1>1 DEF Init
  <2>2. explore \in [qry : LookupType, sched : [Cpl -> Int]]
    BY <1>1, <1>2 DEF Init
  <2>3. due \in [bootstrap : Times, explore : Times] /\ timer \in Times
    BY <1>1 DEF Init
  <2>4. inbound \in Seq(InEvent) /\ Len(inbound) <= QueueCapacity /\ outbound \in Seq(OutEvent)
    BY UpkeepAssumption DEF Init
  <2> QED
    BY <1>2, <2>1, <2>2, <2>3, <2>4 DEF Typed, Init
<1>4. Ordered(explore.sched, taken)
  BY <1>2 DEF Ordered
<1>5. UpkeepSleepsSoundly
  BY DEF Init, UpkeepSleepsSoundly
<1> QED
  BY <1>3, <1>4, <1>5 DEF IInv

\* The behaviour comes to rest only with its timer set for whatever comes first.
LEMMA PerformSound == IInv /\ Perform => IInv'
<1> SUFFICES ASSUME IInv, Perform PROVE IInv'
  OBVIOUS
<1>1. Sane(Machine) /\ Machine.emitted = <<>>
  <2>1. <<>> \in Seq(OutEvent)
    OBVIOUS
  <2>2. Machine \in MachineType
    BY <2>1 DEF IInv, Typed, Machine, MachineType
  <2> QED
    BY <2>2 DEF IInv, Typed, Machine, Sane
<1> DEFINE mc == Machine
<1> HIDE DEF mc
<1>2. PICK m \in Performed(mc) :
        /\ low' = m.low /\ bootstrap' = m.bootstrap /\ explore' = m.explore
        /\ due' = m.due /\ outbound' = m.outbound /\ taken' = m.taken
        /\ IF m.emitted # <<>>
           THEN Dispatch(m) /\ ready' = TRUE /\ UNCHANGED timer
           ELSE /\ inbound' = m.inbound
                /\ ready' = (m.pollAgain \/ m.inbound # <<>>)
                /\ timer' = IF ready' THEN timer ELSE Earliest({m.due.bootstrap, m.due.explore})
  BY DEF Perform, mc
<1>3. /\ Sane(m)
      /\ m.emitted = <<>> =>
           /\ m.outbound = <<>>
           /\ ~m.pollAgain => BootstrapCalm(m) /\ ExploreCalm(m)
  BY <1>1, <1>2, PerformedSound DEF mc
<1>4. /\ m \in MachineType /\ Len(m.inbound) <= QueueCapacity
      /\ Ordered(m.explore.sched, m.taken)
  BY <1>3 DEF Sane
<1>5. /\ m.due \in [bootstrap : Times, explore : Times]
      /\ m.bootstrap \in [qry : LookupType, retry : Times]
      /\ m.explore \in [qry : LookupType, sched : [Cpl -> Int]]
      /\ m.low \in BOOLEAN /\ m.outbound \in Seq(OutEvent) /\ m.inbound \in Seq(InEvent)
      /\ m.taken \in [Cpl -> 0..2] /\ m.pollAgain \in BOOLEAN
  BY <1>4 DEF MachineType
<1>6. Ordered(explore.sched, taken)'
  BY <1>2, <1>4 DEF Ordered
<1>7. CASE m.emitted # <<>>
  <2>1. inbound' \in Seq(InEvent) /\ Len(inbound') <= QueueCapacity
    BY <1>2, <1>4, <1>7, DispatchSound
  <2>2. ready' = TRUE /\ timer' = timer
    BY <1>2, <1>7
  <2>3. Typed'
    BY <1>2, <1>5, <2>1, <2>2 DEF IInv, Typed
  <2>4. UpkeepSleepsSoundly'
    BY <2>2 DEF UpkeepSleepsSoundly
  <2> QED
    BY <1>6, <2>3, <2>4 DEF IInv
<1>8. CASE m.emitted = <<>>
  <2> DEFINE e == Earliest({m.due.bootstrap, m.due.explore})
  <2>1. /\ inbound' = m.inbound
        /\ ready' = (m.pollAgain \/ m.inbound # <<>>)
        /\ timer' = IF ready' THEN timer ELSE e
    BY <1>2, <1>8
  <2>2. /\ e \in Times
        /\ m.due.bootstrap # NoTime => e # NoTime /\ e <= m.due.bootstrap
        /\ m.due.explore # NoTime => e # NoTime /\ e <= m.due.explore
    <3>1. m.due.bootstrap \in Times /\ m.due.explore \in Times
      BY <1>5
    <3> QED
      BY <3>1, EarlierSound
  <2> HIDE DEF e
  <2>3. Typed'
    BY <1>2, <1>4, <1>5, <2>1, <2>2 DEF IInv, Typed
  <2>4. UpkeepSleepsSoundly'
    <3> SUFFICES ASSUME ~ready' PROVE UpkeepSleepsSoundly'
      BY DEF UpkeepSleepsSoundly
    <3>1. inbound' = <<>> /\ outbound' = <<>> /\ timer' = e /\ BootstrapCalm(m) /\ ExploreCalm(m)
      BY <1>2, <1>3, <1>8, <2>1
    <3>2. \A t \in Times : t # NoTime /\ e # NoTime /\ e <= t => e \in Past..t
      BY <2>2 DEF Times, Past, NoTime
    <3>3. m.bootstrap.qry.left \in Times /\ m.bootstrap.retry \in Times /\ m.explore.qry.left \in Times
      BY <1>5 DEF LookupType
    <3>4. IF IsRunning(m.bootstrap.qry) THEN e \in Past..m.bootstrap.qry.left
          ELSE m.low => e \in Past..m.bootstrap.retry
      <4>1. CASE IsRunning(m.bootstrap.qry)
        BY <2>2, <3>1, <3>2, <3>3, <4>1 DEF BootstrapCalm, IsRunning
      <4>2. CASE ~IsRunning(m.bootstrap.qry) /\ m.low
        <5>1. m.due.bootstrap = m.bootstrap.retry /\ m.bootstrap.retry # NoTime
          BY <3>1, <3>3, <4>2 DEF BootstrapCalm, NoTime
        <5> QED
          BY <2>2, <3>2, <3>3, <4>2, <5>1
      <4> QED
        BY <4>1, <4>2
    <3>5. IF IsRunning(m.explore.qry) THEN e \in Past..m.explore.qry.left
          ELSE e \in Past..NextDue(m.explore.sched)
      <4>1. CASE IsRunning(m.explore.qry)
        BY <2>2, <3>1, <3>2, <3>3, <4>1 DEF ExploreCalm, IsRunning
      <4>2. CASE ~IsRunning(m.explore.qry)
        <5>1. NextDue(m.explore.sched) \in Times /\ NextDue(m.explore.sched) # NoTime
          BY <1>5, NextDueSound
        <5> QED
          BY <2>2, <3>1, <3>2, <4>2, <5>1 DEF ExploreCalm
      <4> QED
        BY <4>1, <4>2
    <3> QED
      BY <1>2, <3>1, <3>4, <3>5 DEF UpkeepSleepsSoundly, IsRunning, NextDue, NextInSchedule
  <2> QED
    BY <1>6, <2>3, <2>4 DEF IInv
<1> QED
  BY <1>7, <1>8

\* An event for the behaviour wakes it.
LEMMA NotifySound ==
  ASSUME IInv, NEW ev \in InEvent, Notify(ev)
  PROVE  IInv'
<1>1. inbound \in Seq(InEvent) /\ Len(inbound) <= QueueCapacity /\ ready \in BOOLEAN
  BY DEF IInv, Typed
<1>2. inbound' \in Seq(InEvent) /\ Len(inbound') <= QueueCapacity
  BY <1>1, EnqueuedSound DEF Notify
<1>3. ready' = TRUE
  <2>1. QueueCapacity > 0
    BY UpkeepAssumption
  <2>2. ~ready => Len(inbound) < QueueCapacity
    BY <2>1 DEF IInv, UpkeepSleepsSoundly
  <2> QED
    BY <1>1, <2>2 DEF Notify
<1>4. /\ low' = low /\ bootstrap' = bootstrap /\ explore' = explore /\ due' = due
      /\ outbound' = outbound /\ timer' = timer /\ taken' = taken
  BY DEF Notify
<1>5. Typed'
  BY <1>2, <1>3, <1>4 DEF IInv, Typed
<1>6. UpkeepSleepsSoundly'
  BY <1>3 DEF UpkeepSleepsSoundly
<1>7. Ordered(explore.sched, taken)'
  BY <1>4 DEF IInv
<1> QED
  BY <1>5, <1>6, <1>7 DEF IInv

\* The ready timer wakes it too.
LEMMA FireSound == IInv /\ Fire => IInv'
<1> SUFFICES ASSUME IInv, Fire PROVE IInv'
  OBVIOUS
<1>1. /\ low' = low /\ bootstrap' = bootstrap /\ explore' = explore /\ due' = due
      /\ inbound' = inbound /\ outbound' = outbound /\ taken' = taken
      /\ timer' = NoTime /\ ready' = TRUE
  BY DEF Fire
<1>2. NoTime \in Times
  BY DEF Times, NoTime
<1>3. Typed'
  BY <1>1, <1>2 DEF IInv, Typed
<1>4. UpkeepSleepsSoundly'
  BY <1>1 DEF UpkeepSleepsSoundly
<1>5. Ordered(explore.sched, taken)'
  BY <1>1 DEF IInv
<1> QED
  BY <1>3, <1>4, <1>5 DEF IInv

\* Time brings the timer and what it is set for nearer alike.
LEMMA TickSound == IInv /\ Tick => IInv'
<1> SUFFICES ASSUME IInv, Tick PROVE IInv'
  OBVIOUS
<1> DEFINE bq == [bootstrap.qry EXCEPT !.left = CountDown(@)]
           xq == [explore.qry EXCEPT !.left = CountDown(@)]
           s == explore.sched
<1>1. /\ low' = low /\ inbound' = inbound /\ outbound' = outbound /\ ready' = ready
      /\ taken' = taken /\ timer' = CountDown(timer)
      /\ bootstrap' = [bootstrap EXCEPT !.qry = bq, !.retry = CountDown(bootstrap.retry)]
      /\ explore' = [explore EXCEPT !.qry = xq, !.sched = Later(s)]
      /\ due' = [due EXCEPT !.bootstrap = CountDown(due.bootstrap), !.explore = CountDown(due.explore)]
  BY DEF Tick
<1>2. /\ bootstrap \in [qry : LookupType, retry : Times] /\ bootstrap.qry \in LookupType
      /\ explore \in [qry : LookupType, sched : [Cpl -> Int]] /\ explore.qry \in LookupType
      /\ due \in [bootstrap : Times, explore : Times]
      /\ s \in [Cpl -> Int] /\ timer \in Times /\ taken \in [Cpl -> 0..2]
      /\ bootstrap.qry.left \in Times /\ explore.qry.left \in Times /\ bootstrap.retry \in Times
      /\ due.bootstrap \in Times /\ due.explore \in Times
  BY DEF IInv, Typed, LookupType
<1>3. \A t \in Times : CountDown(t) \in Times
  BY CountDownSound
<1>4. /\ bq \in LookupType /\ bq.left = CountDown(bootstrap.qry.left)
      /\ xq \in LookupType /\ xq.left = CountDown(explore.qry.left)
  BY <1>2, <1>3 DEF LookupType
<1>5. Later(s) \in [Cpl -> Int]
  BY <1>2, LaterSound
<1> HIDE DEF bq, xq
<1>6. /\ bootstrap' \in [qry : LookupType, retry : Times]
      /\ bootstrap'.qry = bq /\ bootstrap'.retry = CountDown(bootstrap.retry)
  BY <1>1, <1>2, <1>3, <1>4
<1>7. /\ explore' \in [qry : LookupType, sched : [Cpl -> Int]]
      /\ explore'.qry = xq /\ explore'.sched = Later(s)
  BY <1>1, <1>2, <1>4, <1>5
<1>8. due' \in [bootstrap : Times, explore : Times]
  BY <1>1, <1>2, <1>3
<1>9. Typed'
  BY <1>1, <1>2, <1>3, <1>6, <1>7, <1>8 DEF IInv, Typed
<1>10. Ordered(explore.sched, taken)'
  <2>1. Ordered(Later(s), taken)
    BY <1>2, LaterOrdered DEF IInv
  <2> QED
    BY <1>1, <1>7, <2>1
<1>11. UpkeepSleepsSoundly'
  <2> SUFFICES ASSUME ~ready' PROVE UpkeepSleepsSoundly'
    BY DEF UpkeepSleepsSoundly
  <2>1. /\ inbound = <<>> /\ outbound = <<>>
        /\ IF IsRunning(bootstrap.qry) THEN timer \in Past..bootstrap.qry.left
           ELSE low => timer \in Past..bootstrap.retry
        /\ IF IsRunning(explore.qry) THEN timer \in Past..explore.qry.left
           ELSE timer \in Past..NextDue(s)
    BY <1>1 DEF IInv, UpkeepSleepsSoundly
  <2>2. /\ \A t, u \in Times : t \in Past..u => CountDown(t) \in Past..CountDown(u)
        /\ \A t \in Times : CountDown(t) = NoTime <=> t = NoTime
    BY CountDownSound
  <2>3. /\ IsRunning(bq) <=> IsRunning(bootstrap.qry)
        /\ IsRunning(xq) <=> IsRunning(explore.qry)
    BY <1>2, <1>4, <2>2 DEF IsRunning
  <2>4. IF IsRunning(bq) THEN timer' \in Past..bq.left
        ELSE low' => timer' \in Past..bootstrap'.retry
    BY <1>1, <1>2, <1>4, <1>6, <2>1, <2>2, <2>3
  <2>5. IF IsRunning(xq) THEN timer' \in Past..xq.left
        ELSE timer' \in Past..NextDue(Later(s))
    <3>1. timer \in Past..NextDue(s) => CountDown(timer) \in Past..NextDue(Later(s))
      BY <1>2, NextDueSound
    <3> QED
      BY <1>1, <1>2, <1>4, <2>1, <2>2, <2>3, <3>1
  <2> QED
    BY <1>1, <1>6, <1>7, <2>1, <2>4, <2>5 DEF UpkeepSleepsSoundly, IsRunning, NextDue, NextInSchedule
<1> QED
  BY <1>9, <1>10, <1>11 DEF IInv

\* IInv is an inductive invariant.
THEOREM Inductive == Spec => []IInv
<1>1. IInv /\ [Next]_vars => IInv'
  <2> SUFFICES ASSUME IInv, [Next]_vars PROVE IInv'
    OBVIOUS
  <2>1. CASE Perform
    BY <2>1, PerformSound
  <2>2. CASE Fire
    BY <2>2, FireSound
  <2>3. CASE Tick
    BY <2>3, TickSound
  <2>4. ASSUME NEW act \in {"bootstrap", "explore"}, Answer(act) PROVE IInv'
    <3>1. Notify("BootstrapAnswer") \/ Notify("ExploreAnswer")
      BY <2>4 DEF Answer
    <3>2. "BootstrapAnswer" \in InEvent /\ "ExploreAnswer" \in InEvent
      BY DEF InEvent
    <3> QED
      BY <3>1, <3>2, NotifySound
  <2>5. ASSUME NEW ev \in News, Hear(ev) PROVE IInv'
    <3>1. ev \in InEvent /\ Notify(ev)
      BY <2>5, UpkeepAssumption DEF Hear, InEvent
    <3> QED
      BY <3>1, NotifySound
  <2>6. CASE UNCHANGED vars
    BY <2>6 DEF vars, IInv, Typed, UpkeepSleepsSoundly, Ordered, IsRunning, NextDue, NextInSchedule
  <2> QED
    BY <2>1, <2>2, <2>3, <2>4, <2>5, <2>6 DEF Next
<1> QED
  BY <1>1, InitSound, PTL DEF Spec

\* RoutingBehaviour never goes to sleep past the deadline of a bootstrap or an explore, the
\* retry of a bootstrap or the time of the next explore: the ready timer that
\* updateReadyStatus sets covers them all.
THEOREM UpkeepSleepIsSound == Spec => []UpkeepSleepsSoundly
<1>1. IInv => UpkeepSleepsSoundly
  BY DEF IInv
<1> QED
  BY <1>1, Inductive, PTL

\* The explore schedule takes up every cpl once before it takes any up twice, whatever
\* the number of cpls, the intervals and the jitter.
THEOREM FirstRoundComesFirst == Spec => []FirstRoundFirst
<1>1. IInv => FirstRoundFirst
  BY DEF IInv, Ordered, FirstRoundFirst
<1> QED
  BY <1>1, Inductive, PTL
=============================================================================
