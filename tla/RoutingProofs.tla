--------------------------- MODULE RoutingProofs ----------------------------
(***************************************************************************)
(* Proofs about Routing, for any finite set of nodes and any capacities,   *)
(* timeouts and intervals.                                                 *)
(*                                                                         *)
(* The five invariants that TLC checks are inductive only together, with   *)
(* two more:                                                               *)
(*   - a removal that waits to be delivered is of a node that has not come *)
(*     back to the table (RemovedGone), so that the last word a client     *)
(*     hears is the true one;                                              *)
(*   - an event is only taken from the inbound queue when the outbound     *)
(*     queue is empty (TakenAlone), so that what Perform emits for it is   *)
(*     all there is to deliver.                                            *)
(* A Perform is followed on the record of the behaviour's state: Sane says *)
(* what holds of it between any two steps, and Quiet what each child       *)
(* leaves when it has nothing to do.                                       *)
(***************************************************************************)
EXTENDS Routing, SequenceTheorems, FiniteSetTheorems, WellFoundedInduction, TLAPS

Times == Time \cup {NoTime}

IncludeType == [candidates : Seq(Node), checks : [Node -> Times]]

ProbeType == [Node -> [list : {"none", "pending", "ongoing"}, t : Times]]

\* OnePlace, of any machine and table.
Place(in, table) ==
  /\ IsInjective(in.candidates)
  /\ Candidates(in) \cap Checking(in) = {}
  /\ (Candidates(in) \cup Checking(in)) \cap table = {}
-----------------------------------------------------------------------------
(* Numbers, due times and sequences *)

\* A set of natural numbers has a least element, as the order is well-founded.
LEMMA LeastNat ==
  ASSUME NEW S \in SUBSET Nat, S # {}
  PROVE  \E n \in S : \A m \in S : n <= m
<1> DEFINE R == OpToRel(<, Nat)
<1>1. IsWellFoundedOn(R, Nat)
  BY NatLessThanWellFounded
<1>2. \A x, y \in Nat : x < y => <<x, y>> \in R
  BY DEF OpToRel
<1> HIDE DEF R
<1>3. PICK n \in S : \A m \in S : ~ (<<m, n>> \in R)
  BY <1>1, WFMin
<1>4. \A m \in S : ~(m < n)
  BY <1>2, <1>3
<1> QED
  BY <1>4

\* Due times are numbers, and the intervals are positive ones.
LEMMA TimesAreInt ==
  /\ Times \subseteq Int /\ NoTime \in Times /\ Past \in Times /\ 0 \in Times
  /\ CheckTimeout \in Times /\ CheckInterval \in Times
  /\ CheckTimeout > 0 /\ CheckInterval > 0
  /\ \A t \in Times : t # NoTime => t >= 0 \/ t = Past
BY CheckAssumption, ProbeAssumption DEF Times, Time, NoTime, Past

\* earlier picks the least of the times that are scheduled.
LEMMA EarliestIsLeast ==
  ASSUME NEW S \in SUBSET Times
  PROVE  /\ Earliest(S) \in Times
         /\ Earliest(S) = NoTime => S \subseteq {NoTime}
         /\ Earliest(S) # NoTime => Earliest(S) \in S
         /\ \A t \in S : t # NoTime => Earliest(S) # NoTime /\ Earliest(S) <= t
<1> DEFINE T == S \ {NoTime}
<1>1. CASE T = {}
  BY <1>1, TimesAreInt DEF Earliest
<1>2. CASE T # {}
  <2> DEFINE U == {t + 1 : t \in T}
  <2>1. \A t \in T : t \in Int /\ t >= Past /\ t + 1 \in Nat
    BY TimesAreInt DEF Past
  <2>2. U \in SUBSET Nat /\ U # {}
    BY <1>2, <2>1
  <2>3. PICK u \in U : \A v \in U : u <= v
    BY <2>2, LeastNat
  <2>4. PICK t \in T : u = t + 1
    OBVIOUS
  <2>5. \A v \in T : v + 1 \in U
    OBVIOUS
  <2> HIDE DEF U
  <2>6. \A v \in T : t + 1 <= v + 1
    BY <2>3, <2>4, <2>5
  <2>7. \A v \in T : t <= v
    BY <2>1, <2>6
  <2>8. Earliest(S) \in T /\ \A v \in T : Earliest(S) <= v
    BY <1>2, <2>7 DEF Earliest
  <2> QED
    BY <2>8
<1> QED
  BY <1>1, <1>2

\* The elements of a sequence are its values.
LEMMA InToSet ==
  ASSUME NEW S, NEW s \in Seq(S), NEW e
  PROVE  e \in ToSet(s) <=> \E i \in 1..Len(s) : s[i] = e
BY DEF ToSet

\* The elements after one has been appended.
LEMMA ToSetAppend ==
  ASSUME NEW S, NEW s \in Seq(S), NEW x \in S
  PROVE  ToSet(Append(s, x)) = ToSet(s) \cup {x}
<1> DEFINE a == Append(s, x)
<1>1. /\ a \in Seq(S) /\ Len(a) = Len(s) + 1 /\ a[Len(s) + 1] = x /\ Len(s) \in Nat
      /\ \A i \in 1..Len(s) : a[i] = s[i]
  OBVIOUS
<1> HIDE DEF a
<1>2. \A e : e \in ToSet(a) <=> e \in ToSet(s) \/ e = x
  <2> SUFFICES ASSUME NEW e PROVE e \in ToSet(a) <=> e \in ToSet(s) \/ e = x
    OBVIOUS
  <2>1. e \in ToSet(a) => e \in ToSet(s) \/ e = x
    <3> SUFFICES ASSUME e \in ToSet(a) PROVE e \in ToSet(s) \/ e = x
      OBVIOUS
    <3>1. PICK i \in 1..Len(a) : a[i] = e
      BY <1>1, InToSet
    <3>2. i \in 1..Len(s) \/ i = Len(s) + 1
      BY <1>1
    <3> QED
      BY <1>1, <3>1, <3>2, InToSet
  <2>2. e \in ToSet(s) => e \in ToSet(a)
    <3> SUFFICES ASSUME e \in ToSet(s) PROVE e \in ToSet(a)
      OBVIOUS
    <3>1. PICK i \in 1..Len(s) : s[i] = e
      BY InToSet
    <3>2. i \in 1..Len(a)
      BY <1>1
    <3> QED
      BY <1>1, <3>1, <3>2, InToSet
  <2>3. x \in ToSet(a)
    <3>1. Len(s) + 1 \in 1..Len(a)
      BY <1>1
    <3> QED
      BY <1>1, <3>1, InToSet
  <2> QED
    BY <2>1, <2>2, <2>3
<1> QED
  BY <1>2 DEF a

\* The elements of a concatenation.
LEMMA ToSetConcat ==
  ASSUME NEW S, NEW s \in Seq(S), NEW t \in Seq(S)
  PROVE  ToSet(s \o t) = ToSet(s) \cup ToSet(t)
<1> DEFINE a == s \o t
<1>1. /\ a \in Seq(S) /\ Len(a) = Len(s) + Len(t) /\ Len(s) \in Nat /\ Len(t) \in Nat
      /\ \A i \in 1..Len(s) + Len(t) : a[i] = IF i <= Len(s) THEN s[i] ELSE t[i - Len(s)]
  BY ConcatProperties, LenProperties
<1> HIDE DEF a
<1>2. \A e : e \in ToSet(a) <=> e \in ToSet(s) \/ e \in ToSet(t)
  <2> SUFFICES ASSUME NEW e PROVE e \in ToSet(a) <=> e \in ToSet(s) \/ e \in ToSet(t)
    OBVIOUS
  <2>1. e \in ToSet(a) => e \in ToSet(s) \/ e \in ToSet(t)
    <3> SUFFICES ASSUME e \in ToSet(a) PROVE e \in ToSet(s) \/ e \in ToSet(t)
      OBVIOUS
    <3>1. PICK i \in 1..Len(a) : a[i] = e
      BY <1>1, InToSet
    <3>2. CASE i <= Len(s)
      BY <1>1, <3>1, <3>2, InToSet
    <3>3. CASE ~(i <= Len(s))
      <4>1. i - Len(s) \in 1..Len(t) /\ t[i - Len(s)] = e
        BY <1>1, <3>1, <3>3
      <4> QED
        BY <4>1, InToSet
    <3> QED
      BY <3>2, <3>3
  <2>2. e \in ToSet(s) => e \in ToSet(a)
    <3> SUFFICES ASSUME e \in ToSet(s) PROVE e \in ToSet(a)
      OBVIOUS
    <3>1. PICK i \in 1..Len(s) : s[i] = e
      BY InToSet
    <3>2. i \in 1..Len(a) /\ a[i] = e
      BY <1>1, <3>1
    <3> QED
      BY <1>1, <3>2, InToSet
  <2>3. e \in ToSet(t) => e \in ToSet(a)
    <3> SUFFICES ASSUME e \in ToSet(t) PROVE e \in ToSet(a)
      OBVIOUS
    <3>1. PICK i \in 1..Len(t) : t[i] = e
      BY InToSet
    <3>2. i + Len(s) \in 1..Len(a) /\ ~(i + Len(s) <= Len(s)) /\ (i + Len(s)) - Len(s) = i
      BY <1>1
    <3>3. a[i + Len(s)] = e
      BY <1>1, <3>1, <3>2
    <3> QED
      BY <1>1, <3>2, <3>3, InToSet
  <2> QED
    BY <2>1, <2>2, <2>3
<1> QED
  BY <1>2 DEF a

\* The elements are the head and those of the tail.
LEMMA ToSetTail ==
  ASSUME NEW S, NEW s \in Seq(S), s # <<>>
  PROVE  /\ Tail(s) \in Seq(S) /\ Head(s) \in S
         /\ ToSet(s) = {Head(s)} \cup ToSet(Tail(s))
         /\ Len(Tail(s)) = Len(s) - 1
<1> DEFINE t == Tail(s)
<1>1. /\ t \in Seq(S) /\ Len(t) = Len(s) - 1 /\ Len(s) \in Nat /\ Len(s) > 0
      /\ Head(s) = s[1] /\ s[1] \in S
      /\ \A i \in 1..Len(t) : t[i] = s[i + 1]
  OBVIOUS
<1> HIDE DEF t
<1>2. \A e : e \in ToSet(s) <=> e = s[1] \/ e \in ToSet(t)
  <2> SUFFICES ASSUME NEW e PROVE e \in ToSet(s) <=> e = s[1] \/ e \in ToSet(t)
    OBVIOUS
  <2>1. e \in ToSet(s) => e = s[1] \/ e \in ToSet(t)
    <3> SUFFICES ASSUME e \in ToSet(s) PROVE e = s[1] \/ e \in ToSet(t)
      OBVIOUS
    <3>1. PICK i \in 1..Len(s) : s[i] = e
      BY InToSet
    <3>2. CASE i = 1
      BY <3>1, <3>2
    <3>3. CASE i # 1
      <4>1. i - 1 \in 1..Len(t) /\ (i - 1) + 1 = i
        BY <1>1, <3>3
      <4>2. t[i - 1] = e
        BY <1>1, <3>1, <4>1
      <4> QED
        BY <1>1, <4>1, <4>2, InToSet
    <3> QED
      BY <3>2, <3>3
  <2>2. e \in ToSet(t) => e \in ToSet(s)
    <3> SUFFICES ASSUME e \in ToSet(t) PROVE e \in ToSet(s)
      OBVIOUS
    <3>1. PICK i \in 1..Len(t) : t[i] = e
      BY <1>1, InToSet
    <3>2. i + 1 \in 1..Len(s) /\ s[i + 1] = e
      BY <1>1, <3>1
    <3> QED
      BY <3>2, InToSet
  <2>3. s[1] \in ToSet(s)
    <3>1. 1 \in 1..Len(s)
      BY <1>1
    <3> QED
      BY <3>1, InToSet
  <2> QED
    BY <2>1, <2>2, <2>3
<1> QED
  BY <1>1, <1>2 DEF t

\* The empty sequence has no elements.
LEMMA ToSetEmpty == ToSet(<<>>) = {}
BY DEF ToSet
-----------------------------------------------------------------------------
(* The include state machine *)

\* Dropping the checks whose deadline has passed leaves none of them.
LEMMA DropExpiredSound ==
  ASSUME NEW in \in IncludeType
  PROVE  /\ DropExpired(in) \in IncludeType
         /\ DropExpired(in).candidates = in.candidates
         /\ Checking(DropExpired(in)) \subseteq Checking(in)
         /\ \A n \in Node : DropExpired(in).checks[n] # Past
<1> DEFINE ch == [n \in Node |-> IF in.checks[n] = Past THEN NoTime ELSE in.checks[n]]
           k  == DropExpired(in)
<1>1. ch \in [Node -> Times] /\ \A n \in Node : ch[n] # Past /\ (ch[n] # NoTime => in.checks[n] # NoTime)
  BY TimesAreInt DEF IncludeType, Past, NoTime
<1>2. k = [in EXCEPT !.checks = ch]
  BY DEF DropExpired
<1> HIDE DEF ch, k
<1>3. k \in IncludeType /\ k.candidates = in.candidates /\ k.checks = ch
  BY <1>1, <1>2 DEF IncludeType
<1>4. Checking(k) \subseteq Checking(in)
  BY <1>1, <1>3 DEF Checking
<1> QED
  BY <1>1, <1>3, <1>4 DEF k

\* What every advance of the include state machine gives back.
IncludeGood(in, table, r) ==
  /\ r.in \in IncludeType
  /\ Place(r.in, r.rt)
  /\ r.kind \in {"Waiting", "Check", "Updated"}
  /\ r.kind = "Waiting" => r.due \in Times
  /\ r.kind \in {"Check", "Updated"} => r.node \in Node
  /\ r.kind = "Updated" => r.node \notin table /\ r.rt = table \cup {r.node}
  /\ r.kind # "Updated" => r.rt = table

\* An advance that waits reports the first deadline among its checks, and leaves a
\* candidate only when it can check no more.
IncludeRests(r) ==
  /\ r.kind # "Updated"
  /\ r.kind = "Waiting" =>
       /\ r.due = Earliest({r.in.checks[n] : n \in Node})
       /\ \A n \in Node : r.in.checks[n] # Past
       /\ r.in.candidates # <<>> => IncludeFull(r.in)

\* The walk at the end of Include.Advance: a node taken from the queue becomes a check.
LEMMA IncludeWalkSound ==
  ASSUME NEW in \in IncludeType, NEW table \in SUBSET Node, Place(in, table)
  PROVE  /\ IncludeGood(in, table, IncludeWalk(in, table))
         /\ IncludeRests(IncludeWalk(in, table))
<1> DEFINE d == DropExpired(in)
           r == IncludeWalk(in, table)
<1>1. /\ d \in IncludeType /\ d.candidates = in.candidates
      /\ Checking(d) \subseteq Checking(in)
      /\ \A n \in Node : d.checks[n] # Past
  BY DropExpiredSound
<1> HIDE DEF d
<1>2. Place(d, table)
  BY <1>1 DEF Place, Candidates
<1>3. CASE IncludeFull(d) \/ d.candidates = <<>>
  <2>1. r = IncludeRet(d, table, "Waiting", NoNode, Earliest({d.checks[n] : n \in Node}))
    BY <1>3 DEF IncludeWalk, d
  <2>2. {d.checks[n] : n \in Node} \in SUBSET Times
    BY <1>1 DEF IncludeType
  <2>3. Earliest({d.checks[n] : n \in Node}) \in Times
    BY <2>2, EarliestIsLeast
  <2>4. /\ r.in = d /\ r.rt = table /\ r.kind = "Waiting"
        /\ r.due = Earliest({d.checks[n] : n \in Node})
    BY <2>1 DEF IncludeRet
  <2> HIDE DEF r
  <2> QED
    BY <1>1, <1>2, <1>3, <2>3, <2>4 DEF IncludeGood, IncludeRests, r
<1>4. CASE ~(IncludeFull(d) \/ d.candidates = <<>>)
  <2> DEFINE n == Head(d.candidates)
             c == Tail(d.candidates)
             ch == [d.checks EXCEPT ![n] = CheckTimeout]
  <2>1. d.candidates \in Seq(Node) /\ d.candidates # <<>>
    BY <1>1, <1>4 DEF IncludeType
  <2>2. /\ n \in Node /\ c \in Seq(Node) /\ ToSet(d.candidates) = {n} \cup ToSet(c)
    BY <2>1, ToSetTail
  <2>3. IsInjective(c) /\ n \notin ToSet(c)
    <3>1. /\ Len(c) = Len(d.candidates) - 1 /\ Len(d.candidates) \in Nat /\ n = d.candidates[1]
          /\ \A i \in 1..Len(c) : c[i] = d.candidates[i + 1] /\ i + 1 \in 1..Len(d.candidates)
                                  /\ i + 1 # 1 /\ i \in Int
          /\ 1 \in 1..Len(d.candidates)
      BY <2>1
    <3>2. \A i, j \in 1..Len(d.candidates) : d.candidates[i] = d.candidates[j] => i = j
      BY <1>2, <2>1 DEF Place, IsInjective
    <3>3. \A i, j \in 1..Len(c) : c[i] = c[j] => i + 1 = j + 1
      BY <3>1, <3>2
    <3>4. \A i, j \in 1..Len(c) : c[i] = c[j] => i = j
      BY <3>1, <3>3
    <3>5. \A i \in 1..Len(c) : c[i] # n
      BY <3>1, <3>2
    <3> HIDE DEF c, n
    <3> QED
      BY <2>2, <3>4, <3>5, InToSet DEF IsInjective
  <2> HIDE DEF n, c
  <2>4. r = IncludeRet([d EXCEPT !.candidates = c, !.checks = ch], table, "Check", n, NoTime)
    BY <1>4 DEF IncludeWalk, d, n, c
  <2>5. ch \in [Node -> Times] /\ \A m \in Node : ch[m] # NoTime <=> d.checks[m] # NoTime \/ m = n
    BY <1>1, <2>2, TimesAreInt DEF IncludeType, NoTime
  <2> HIDE DEF ch
  <2>6. /\ r.rt = table /\ r.kind = "Check" /\ r.node = n
        /\ r.in = [d EXCEPT !.candidates = c, !.checks = ch]
    BY <2>4 DEF IncludeRet
  <2> HIDE DEF r
  <2>7. r.in \in IncludeType /\ r.in.candidates = c /\ r.in.checks = ch
    BY <1>1, <2>2, <2>5, <2>6 DEF IncludeType
  <2>8. Checking(r.in) = Checking(d) \cup {n} /\ Candidates(r.in) = ToSet(c)
    BY <2>2, <2>5, <2>7 DEF Checking, Candidates
  <2>9. Place(r.in, table)
    BY <1>2, <2>2, <2>3, <2>7, <2>8 DEF Place, Candidates
  <2> QED
    BY <2>2, <2>6, <2>7, <2>9 DEF IncludeGood, IncludeRests, r
<1> QED
  BY <1>3, <1>4

\* A new candidate is queued only when it is nowhere yet.
LEMMA AddCandidateSound ==
  ASSUME NEW in \in IncludeType, NEW table \in SUBSET Node, Place(in, table), NEW n \in Node
  PROVE  /\ IncludeGood(in, table, AddCandidate(in, table, n))
         /\ AddCandidate(in, table, n).kind # "Updated"
<1> DEFINE r == AddCandidate(in, table, n)
<1>1. CASE n \in Known(in, table)
  <2>1. r = IncludeWalk(in, table)
    BY <1>1 DEF AddCandidate
  <2> QED
    BY <2>1, IncludeWalkSound DEF IncludeRests
<1>2. CASE n \notin Known(in, table) /\ Len(in.candidates) >= CandidateCapacity
  <2>1. r = IncludeRet(in, table, "Waiting", NoNode, NoTime)
    BY <1>2 DEF AddCandidate
  <2>2. r.in = in /\ r.rt = table /\ r.kind = "Waiting" /\ r.due = NoTime
    BY <2>1 DEF IncludeRet
  <2> HIDE DEF r
  <2> QED
    BY <2>2, TimesAreInt DEF IncludeGood, r
<1>3. CASE n \notin Known(in, table) /\ ~(Len(in.candidates) >= CandidateCapacity)
  <2> DEFINE c == IF n \in Candidates(in) THEN in.candidates ELSE Append(in.candidates, n)
             k == [in EXCEPT !.candidates = c]
  <2>1. r = IncludeWalk(k, table)
    BY <1>3 DEF AddCandidate
  <2>2. in.candidates \in Seq(Node)
    BY DEF IncludeType
  <2>3. c \in Seq(Node) /\ ToSet(c) = ToSet(in.candidates) \cup {n}
    BY <2>2, ToSetAppend DEF Candidates
  <2>4. IsInjective(c)
    <3>1. CASE n \in Candidates(in)
      BY <3>1 DEF Place
    <3>2. CASE n \notin Candidates(in)
      <4>1. /\ c = Append(in.candidates, n) /\ Len(c) = Len(in.candidates) + 1
            /\ Len(in.candidates) \in Nat
            /\ c[Len(in.candidates) + 1] = n
            /\ \A i \in 1..Len(in.candidates) : c[i] = in.candidates[i]
        BY <2>2, <3>2
      <4>2. \A i \in 1..Len(in.candidates) : in.candidates[i] # n
        BY <2>2, <3>2, InToSet DEF Candidates
      <4>3. \A i, j \in 1..Len(in.candidates) : in.candidates[i] = in.candidates[j] => i = j
        BY <2>2 DEF Place, IsInjective
      <4> HIDE DEF c
      <4>4. \A i \in 1..Len(c) : i \in 1..Len(in.candidates) \/ i = Len(in.candidates) + 1
        BY <4>1
      <4>5. \A i, j \in 1..Len(c) : c[i] = c[j] => i = j
        BY <4>1, <4>2, <4>3, <4>4
      <4> QED
        BY <2>3, <4>5 DEF IsInjective
    <3> QED
      BY <3>1, <3>2
  <2> HIDE DEF c
  <2>5. k \in IncludeType /\ k.candidates = c /\ k.checks = in.checks
    BY <2>3 DEF IncludeType
  <2> HIDE DEF k
  <2>6. Checking(k) = Checking(in) /\ Candidates(k) = Candidates(in) \cup {n}
    BY <2>3, <2>5 DEF Checking, Candidates
  <2>7. Place(k, table)
    BY <1>3, <2>4, <2>5, <2>6 DEF Place, Known
  <2>8. IncludeGood(k, table, r) /\ r.kind # "Updated"
    BY <2>1, <2>5, <2>7, IncludeWalkSound DEF IncludeRests
  <2> QED
    BY <2>8 DEF IncludeGood
<1> QED
  BY <1>1, <1>2, <1>3

\* The end of a check, however it ended.
LEMMA EndCheckSound ==
  ASSUME NEW in \in IncludeType, NEW n \in Node
  PROVE  /\ EndCheck(in, n) \in IncludeType
         /\ EndCheck(in, n).candidates = in.candidates
         /\ Checking(EndCheck(in, n)) = Checking(in) \ {n}
<1> DEFINE ch == [in.checks EXCEPT ![n] = NoTime]
           k  == EndCheck(in, n)
<1>1. ch \in [Node -> Times] /\ \A m \in Node : ch[m] # NoTime <=> in.checks[m] # NoTime /\ m # n
  BY TimesAreInt DEF IncludeType
<1>2. k = [in EXCEPT !.checks = ch]
  BY DEF EndCheck
<1> HIDE DEF ch, k
<1>3. k \in IncludeType /\ k.candidates = in.candidates /\ k.checks = ch
  BY <1>1, <1>2 DEF IncludeType
<1> QED
  BY <1>1, <1>3 DEF Checking, k

\* A check that fails ends, and the node is nowhere.
LEMMA CheckFailureSound ==
  ASSUME NEW in \in IncludeType, NEW table \in SUBSET Node, Place(in, table), NEW n \in Node
  PROVE  /\ IncludeGood(in, table, CheckFailure(in, table, n))
         /\ CheckFailure(in, table, n).kind # "Updated"
<1> DEFINE k == EndCheck(in, n)
<1>1. k \in IncludeType /\ Place(k, table)
  BY EndCheckSound DEF Place, Candidates
<1> HIDE DEF k
<1>2. IncludeGood(k, table, IncludeWalk(k, table)) /\ IncludeRests(IncludeWalk(k, table))
  BY <1>1, IncludeWalkSound
<1> QED
  BY <1>2 DEF CheckFailure, IncludeGood, IncludeRests, k

\* A check that succeeds ends, and the node may have entered the table.
LEMMA CheckSuccessSound ==
  ASSUME NEW in \in IncludeType, NEW table \in SUBSET Node, Place(in, table), NEW n \in Node,
         NEW accepts \in BOOLEAN
  PROVE  IncludeGood(in, table, CheckSuccess(in, table, n, accepts))
<1> DEFINE k == EndCheck(in, n)
           r == CheckSuccess(in, table, n, accepts)
<1>1. CASE n \in Checking(in) /\ accepts /\ n \notin table
  <2>1. r.in = k /\ r.rt = table \cup {n} /\ r.kind = "Updated" /\ r.node = n
    BY <1>1 DEF CheckSuccess, IncludeRet
  <2> HIDE DEF r
  <2>2. k \in IncludeType /\ Place(k, table \cup {n})
    BY <1>1, EndCheckSound DEF Place, Candidates
  <2> QED
    BY <1>1, <2>1, <2>2 DEF IncludeGood, r
<1>2. CASE ~(n \in Checking(in) /\ accepts /\ n \notin table)
  <2>1. r = CheckFailure(in, table, n)
    BY <1>2 DEF CheckSuccess, CheckFailure
  <2> QED
    BY <2>1, CheckFailureSound
<1> QED
  BY <1>1, <1>2
-----------------------------------------------------------------------------
(* The probe state machine *)

\* What every advance of the probe state machine gives back: the nodes of the table
\* that were monitored, and those of Y, are monitored as long as they are in it.
ProbeGood(p, table, Y, r) ==
  /\ r.probe \in ProbeType
  /\ Monitored(r.probe) \subseteq r.rt
  /\ r.kind \in {"Waiting", "Check", "Failure"}
  /\ r.kind = "Waiting" => r.due \in Times
  /\ r.kind \in {"Check", "Failure"} => r.node \in Node
  /\ r.rt = IF r.kind = "Failure" THEN table \ {r.node} ELSE table
  /\ \A n \in r.rt : n \in Monitored(p) \cup Y => n \in Monitored(r.probe)

\* An advance that waits reports the first time at which there is something to do.
ProbeRests(r) ==
  r.kind = "Waiting" => r.due = ProbeDue(r.probe) /\ Overdue(r.probe, "ongoing") = {}
                        /\ (ProbeFull(r.probe) \/ Due(r.probe) = {})

\* What changing one entry of the probe's list does to the monitored nodes.
LEMMA OneEntryChanged ==
  ASSUME NEW p \in ProbeType, NEW q \in ProbeType, NEW n \in Node,
         \A m \in Node : m # n => q[m] = p[m]
  PROVE  /\ q[n].list = "none" => Monitored(q) = Monitored(p) \ {n}
         /\ q[n].list # "none" => Monitored(q) = Monitored(p) \cup {n}
BY DEF Monitored, Listed, ProbeType

\* Put makes a node a monitored one.
LEMMA PutSound ==
  ASSUME NEW p \in ProbeType, NEW n \in Node
  PROVE  Put(p, n) \in ProbeType /\ Monitored(Put(p, n)) = Monitored(p) \cup {n}
<1> DEFINE q == Put(p, n)
<1>1. q \in ProbeType /\ q[n].list = "pending" /\ \A m \in Node : m # n => q[m] = p[m]
  BY TimesAreInt DEF ProbeType, Entry, Put
<1> HIDE DEF q
<1>2. Monitored(q) = Monitored(p) \cup {n}
  BY <1>1, OneEntryChanged
<1> QED
  BY <1>1, <1>2 DEF q

\* Dropping a node from the list and the table together.
LEMMA DroppedSound ==
  ASSUME NEW p \in ProbeType, NEW table \in SUBSET Node, NEW n \in Node,
         Monitored(p) \subseteq table
  PROVE  /\ ProbeGood(p, table, {}, Dropped(p, table, n))
         /\ Dropped(p, table, n).kind = "Failure"
<1> DEFINE q == [p EXCEPT ![n] = Entry("none", NoTime)]
           r == Dropped(p, table, n)
<1>1. q \in ProbeType /\ Monitored(q) = Monitored(p) \ {n}
  <2>1. q \in ProbeType /\ q[n].list = "none" /\ \A m \in Node : m # n => q[m] = p[m]
    BY TimesAreInt DEF ProbeType, Entry
  <2> HIDE DEF q
  <2> QED
    BY <2>1, OneEntryChanged
<1> HIDE DEF q
<1>2. r.probe = q /\ r.rt = table \ {n} /\ r.kind = "Failure" /\ r.node = n
  BY DEF Dropped, ProbeRet, q
<1> HIDE DEF r
<1> QED
  BY <1>1, <1>2 DEF ProbeGood, r

\* The due times of a list are times.
LEMMA DueTimesSound ==
  ASSUME NEW p \in ProbeType, NEW lists
  PROVE  /\ {p[n].t : n \in {m \in Node : p[m].list \in lists}} \in SUBSET Times
         /\ DueTimes(p, lists) \in Times
<1>1. \A n \in Node : p[n].t \in Times
  BY DEF ProbeType
<1>2. {p[n].t : n \in {m \in Node : p[m].list \in lists}} \in SUBSET Times
  BY <1>1
<1> QED
  BY <1>2, EarliestIsLeast DEF DueTimes

\* The walk at the end of Probe.Advance keeps the monitored nodes within the table.
LEMMA ProbeWalkSound ==
  ASSUME NEW p \in ProbeType, NEW table \in SUBSET Node, Monitored(p) \subseteq table,
         NEW r \in ProbeWalk(p, table)
  PROVE  ProbeGood(p, table, {}, r) /\ ProbeRests(r)
<1>1. CASE Overdue(p, "ongoing") # {}
  <2>1. PICK n \in Overdue(p, "ongoing") : r = Dropped(p, table, n)
    BY <1>1 DEF ProbeWalk
  <2>2. n \in Node
    BY DEF Overdue, Listed
  <2> QED
    BY <2>1, <2>2, DroppedSound DEF ProbeRests
<1>2. CASE Overdue(p, "ongoing") = {} /\ (ProbeFull(p) \/ Due(p) = {})
  <2>1. r = ProbeRet(p, table, "Waiting", NoNode, ProbeDue(p))
    BY <1>2 DEF ProbeWalk
  <2>2. r.probe = p /\ r.rt = table /\ r.kind = "Waiting" /\ r.due = ProbeDue(p)
    BY <2>1 DEF ProbeRet
  <2>3. ProbeDue(p) \in Times
    BY DueTimesSound DEF ProbeDue
  <2> QED
    BY <1>2, <2>2, <2>3 DEF ProbeGood, ProbeRests
<1>3. CASE Overdue(p, "ongoing") = {} /\ ~(ProbeFull(p) \/ Due(p) = {})
  <2>1. PICK n \in Due(p) :
          r = ProbeRet([p EXCEPT ![n] = Entry("ongoing", CheckTimeout)], table, "Check", n, NoTime)
    BY <1>3 DEF ProbeWalk
  <2>2. n \in Node /\ n \in Monitored(p)
    BY DEF Due, Overdue, Monitored, Listed
  <2> DEFINE q == [p EXCEPT ![n] = Entry("ongoing", CheckTimeout)]
  <2>3. q \in ProbeType /\ Monitored(q) = Monitored(p)
    <3>1. q \in ProbeType /\ q[n].list = "ongoing" /\ \A m \in Node : m # n => q[m] = p[m]
      BY <2>2, TimesAreInt DEF ProbeType, Entry
    <3> HIDE DEF q
    <3>2. Monitored(q) = Monitored(p) \cup {n}
      BY <2>2, <3>1, OneEntryChanged
    <3> QED
      BY <2>2, <3>1, <3>2
  <2>4. r.probe = q /\ r.rt = table /\ r.kind = "Check" /\ r.node = n
    BY <2>1 DEF ProbeRet
  <2> HIDE DEF q
  <2> QED
    BY <2>2, <2>3, <2>4 DEF ProbeGood, ProbeRests
<1> QED
  BY <1>1, <1>2, <1>3

\* A node is put in the list only when the table holds it.
LEMMA ProbeAddSound ==
  ASSUME NEW p \in ProbeType, NEW table \in SUBSET Node, Monitored(p) \subseteq table,
         NEW n \in Node, NEW r \in ProbeAdd(p, table, n)
  PROVE  ProbeGood(p, table, {n}, r)
<1> DEFINE q == IF n \in table THEN Put(p, n) ELSE p
<1>1. r \in ProbeWalk(q, table)
  BY DEF ProbeAdd
<1>2. q \in ProbeType /\ Monitored(q) = IF n \in table THEN Monitored(p) \cup {n} ELSE Monitored(p)
  BY PutSound
<1> HIDE DEF q
<1>3. Monitored(q) \subseteq table
  BY <1>2
<1>4. ProbeGood(q, table, {}, r)
  BY <1>1, <1>2, <1>3, ProbeWalkSound
<1> QED
  BY <1>2, <1>4 DEF ProbeGood

\* A node that was monitored is put off, one that was not stays out of the list.
LEMMA ProbePutOffSound ==
  ASSUME NEW p \in ProbeType, NEW table \in SUBSET Node, Monitored(p) \subseteq table,
         NEW n \in Node, NEW r \in ProbePutOff(p, table, n)
  PROVE  ProbeGood(p, table, {}, r)
<1> DEFINE q == IF n \in Monitored(p) THEN Put(p, n) ELSE p
<1>1. r \in ProbeWalk(q, table)
  BY DEF ProbePutOff
<1>2. q \in ProbeType /\ Monitored(q) = Monitored(p)
  BY PutSound
<1> HIDE DEF q
<1>3. ProbeGood(q, table, {}, r)
  BY <1>1, <1>2, ProbeWalkSound
<1> QED
  BY <1>2, <1>3 DEF ProbeGood

\* A failed node leaves the list and the table.
LEMMA ProbeRemoveSound ==
  ASSUME NEW p \in ProbeType, NEW table \in SUBSET Node, Monitored(p) \subseteq table,
         NEW n \in Node, NEW r \in ProbeRemove(p, table, n)
  PROVE  ProbeGood(p, table, {}, r)
BY DroppedSound DEF ProbeRemove
-----------------------------------------------------------------------------
(* The behaviour's state while it handles an event *)

EmittedEvent == [kind : {"IncludeCheck", "ProbeCheck", "Removed", "Updated"}, node : Node]

MachineType ==
  [rt : SUBSET Node, include : IncludeType, probe : ProbeType, due : [Activity -> Times],
   inbound : Seq(InboundEvent), outbound : Seq(OutboundEvent), missed : SUBSET Node,
   emitted : Seq(EmittedEvent)]

\* The notifications on their way to the clients.
Out(m) == ToSet(m.outbound) \cup ToSet(m.emitted)

\* ClientsAgree, with the notifications that are on their way: a removal is of a node
\* outside the table, an update of a node inside it.
Agree(m) ==
  \A n \in Node :
    /\ Event("Removed", n) \in Out(m) => n \notin m.rt
    /\ Event("Updated", n) \in ToSet(m.emitted) => n \in m.rt
    /\ Event("Removed", n) \notin Out(m) /\ Event("Updated", n) \notin ToSet(m.emitted)
         => (told[n] = "added" <=> n \in m.rt)

\* MembersMonitored, for a machine that is handling the updates of the nodes X.
Covered(m, X) ==
  \A n \in m.rt \ m.missed :
    n \in Monitored(m.probe) \/ n \in X \/ Event("Updated", n) \in ToSet(m.inbound)

Sane(m, X) ==
  /\ m \in MachineType
  /\ Len(m.inbound) <= QueueCapacity
  /\ Len(m.emitted) <= 1
  /\ Place(m.include, m.rt)
  /\ Monitored(m.probe) \subseteq m.rt
  /\ Covered(m, X)
  /\ Agree(m)

\* The inbound queue keeps what it holds, and takes the event unless it is full.
LEMMA EnqueuedSound ==
  ASSUME NEW queue \in Seq(InboundEvent), Len(queue) <= QueueCapacity, NEW ev \in InboundEvent
  PROVE  /\ Enqueued(queue, ev) \in Seq(InboundEvent) /\ Len(Enqueued(queue, ev)) <= QueueCapacity
         /\ ToSet(queue) \subseteq ToSet(Enqueued(queue, ev))
         /\ ~(Len(queue) >= QueueCapacity) =>
              ev \in ToSet(Enqueued(queue, ev)) /\ Enqueued(queue, ev) # <<>>
         /\ Len(queue) >= QueueCapacity => Enqueued(queue, ev) = queue /\ queue # <<>>
<1>1. CASE Len(queue) >= QueueCapacity
  BY <1>1, RoutingAssumption DEF Enqueued
<1>2. CASE ~(Len(queue) >= QueueCapacity)
  <2>1. Enqueued(queue, ev) = Append(queue, ev)
    BY <1>2 DEF Enqueued
  <2>2. ToSet(Append(queue, ev)) = ToSet(queue) \cup {ev}
    BY ToSetAppend
  <2>3. /\ Append(queue, ev) \in Seq(InboundEvent) /\ Append(queue, ev) # <<>>
        /\ Len(Append(queue, ev)) = Len(queue) + 1 /\ Len(queue) \in Nat
    OBVIOUS
  <2>4. Len(Append(queue, ev)) <= QueueCapacity
    BY <1>2, <2>3, RoutingAssumption
  <2> QED
    BY <1>2, <2>1, <2>2, <2>3, <2>4
<1> QED
  BY <1>1, <1>2

Fits(queue) == Len(queue) <= QueueCapacity

\* k is m after the behaviour told itself of ev, which was queued, or dropped and, if it
\* was Updated, noted.
SelfTold(m, ev, k) ==
  /\ k \in MachineType /\ Fits(k.inbound)
  /\ k.rt = m.rt /\ k.include = m.include /\ k.probe = m.probe /\ k.due = m.due
  /\ k.outbound = m.outbound /\ k.emitted = m.emitted
  /\ ToSet(m.inbound) \subseteq ToSet(k.inbound)
  /\ ev.kind # "Updated" => k.missed = m.missed
  /\ ev.kind = "Updated" => \/ k.missed = m.missed \cup {ev.node}
                            \/ k.missed = m.missed \ {ev.node} /\ ev \in ToSet(k.inbound)

\* What the behaviour tells itself reaches its inbound queue or is dropped.
LEMMA NotifySelfSound ==
  ASSUME NEW m \in MachineType, Fits(m.inbound), NEW ev \in InboundEvent,
         NEW k, k = NotifySelf(m, ev)
  PROVE  SelfTold(m, ev, k)
<1> DEFINE in == Enqueued(m.inbound, ev)
           mi == IF ev.kind # "Updated" THEN m.missed
                 ELSE IF Len(m.inbound) >= QueueCapacity THEN m.missed \cup {ev.node}
                 ELSE m.missed \ {ev.node}
<1>1. m.inbound \in Seq(InboundEvent) /\ m.missed \in SUBSET Node /\ ev.node \in Node
  BY DEF MachineType, InboundEvent
<1>2. /\ in \in Seq(InboundEvent) /\ Fits(in)
      /\ ToSet(m.inbound) \subseteq ToSet(in)
      /\ ~(Len(m.inbound) >= QueueCapacity) => ev \in ToSet(in)
  BY <1>1, EnqueuedSound DEF Fits
<1>3. mi \in SUBSET Node
  BY <1>1
<1>4. k = [m EXCEPT !.inbound = in, !.missed = mi]
  BY DEF NotifySelf
<1>5. /\ ev.kind # "Updated" => mi = m.missed
      /\ ev.kind = "Updated" => \/ mi = m.missed \cup {ev.node}
                                \/ mi = m.missed \ {ev.node} /\ ~(Len(m.inbound) >= QueueCapacity)
  OBVIOUS
<1> HIDE DEF in, mi
<1>6. /\ k \in MachineType /\ k.inbound = in /\ k.missed = mi
      /\ k.rt = m.rt /\ k.include = m.include /\ k.probe = m.probe /\ k.due = m.due
      /\ k.outbound = m.outbound /\ k.emitted = m.emitted
  BY <1>2, <1>3, <1>4 DEF MachineType
<1> QED
  BY <1>2, <1>5, <1>6 DEF SelfTold

\* The sequence of one event.
LEMMA OneEvent ==
  ASSUME NEW S, NEW e \in S
  PROVE  /\ <<e>> \in Seq(S) /\ Len(<<e>>) <= 1 /\ <<e>> # <<>> /\ ToSet(<<e>>) = {e}
<1>1. <<e>> \in Seq(S) /\ Len(<<e>>) = 1 /\ <<e>>[1] = e /\ <<e>> # <<>>
  OBVIOUS
<1>2. ToSet(<<e>>) = {e}
  BY <1>1 DEF ToSet
<1> QED
  BY <1>1, <1>2

\* The length of such a sequence.
LEMMA OneOnly ==
  ASSUME NEW n \in Nat, n <= 1, n # 0
  PROVE  n = 1
OBVIOUS

\* A sequence that is neither empty nor longer than one.
LEMMA Single ==
  ASSUME NEW S, NEW s \in Seq(S), Len(s) <= 1, s # <<>>
  PROVE  s[1] \in S /\ ToSet(s) = {s[1]}
<1>1. Len(s) \in Nat /\ Len(s) # 0
  BY EmptySeq, LenProperties
<1>2. Len(s) = 1
  BY <1>1, OneOnly
<1>3. s[1] \in S
  BY <1>2, ElementOfSeq
<1>4. 1..Len(s) = {1}
  BY <1>2
<1>5. \A e : e \in ToSet(s) <=> \E i \in 1..Len(s) : s[i] = e
  BY InToSet
<1>6. \A e : e \in ToSet(s) <=> e = s[1]
  BY <1>4, <1>5
<1> QED
  BY <1>3, <1>6

\* advanceInclude.
LEMMA AdvanceIncludeSound ==
  ASSUME NEW m, NEW X, Sane(m, X), m.emitted = <<>>, NEW r, IncludeGood(m.include, m.rt, r),
         r.kind = "Updated" => m.outbound = <<>>,
         NEW k, k = AdvanceInclude(m, r)
  PROVE  /\ Sane(k, X)
         /\ k.outbound = m.outbound /\ k.probe = m.probe /\ k.include = r.in
         /\ r.kind # "Updated" => k.emitted \in Seq(OutboundEvent)
         /\ r.kind = "Waiting" => /\ k.emitted = <<>>
                                  /\ k.due["include"] = r.due /\ k.due["probe"] = m.due["probe"]
         /\ r.kind # "Waiting" => k.emitted # <<>>
<1> DEFINE n == [m EXCEPT !.rt = r.rt, !.include = r.in]
<1>1. m \in MachineType /\ r.in \in IncludeType /\ r.rt \in SUBSET Node
  BY DEF Sane, IncludeGood, MachineType
<1>2. /\ n \in MachineType /\ n.rt = r.rt /\ n.include = r.in /\ n.probe = m.probe
      /\ n.due = m.due /\ n.inbound = m.inbound /\ n.outbound = m.outbound
      /\ n.missed = m.missed /\ n.emitted = m.emitted
  BY <1>1 DEF MachineType
<1> HIDE DEF n
<1>3. Place(r.in, r.rt) /\ Len(m.inbound) <= QueueCapacity /\ Monitored(m.probe) \subseteq m.rt
  BY DEF IncludeGood, Sane
<1>4. CASE r.kind = "Check"
  <2> DEFINE e == Event("IncludeCheck", r.node)
             em == <<e>>
  <2>1. e \in OutboundEvent /\ e \in EmittedEvent /\ e.kind = "IncludeCheck" /\ r.rt = m.rt
    BY <1>4 DEF IncludeGood, Event, OutboundEvent, EmittedEvent
  <2>2. k = [n EXCEPT !.emitted = em]
    BY <1>4 DEF AdvanceInclude, n
  <2>3. em \in Seq(EmittedEvent) /\ em \in Seq(OutboundEvent) /\ Len(em) <= 1 /\ em # <<>>
        /\ ToSet(em) = {e}
    BY <2>1, OneEvent
  <2> HIDE DEF e, em
  <2>4. /\ k \in MachineType /\ k.rt = m.rt /\ k.include = r.in /\ k.probe = m.probe
        /\ k.due = m.due /\ k.inbound = m.inbound /\ k.outbound = m.outbound
        /\ k.missed = m.missed /\ k.emitted = em
    BY <1>2, <2>1, <2>2, <2>3 DEF MachineType
  <2>5. Agree(k)
    <3>1. Out(k) = Out(m) \cup {e} /\ ToSet(m.emitted) = {}
      BY <2>3, <2>4, ToSetEmpty DEF Out
    <3>2. \A x \in Node : e # Event("Removed", x) /\ e # Event("Updated", x)
      BY <2>1 DEF Event
    <3> QED
      BY <2>3, <2>4, <3>1, <3>2 DEF Sane, Agree
  <2>6. Covered(k, X)
    BY <2>4 DEF Sane, Covered
  <2>7. Len(k.inbound) <= QueueCapacity /\ Len(k.emitted) <= 1
    BY <1>3, <2>3, <2>4, Zenon
  <2>8. Place(k.include, k.rt) /\ Monitored(k.probe) \subseteq k.rt
    BY <1>3, <2>1, <2>4
  <2> QED
    BY <1>4, <2>3, <2>4, <2>5, <2>6, <2>7, <2>8 DEF Sane
<1>5. CASE r.kind = "Updated"
  <2> DEFINE e == Event("Updated", r.node)
             em == <<e>>
             u == NotifySelf(n, e)
  <2>1. /\ e \in InboundEvent /\ e \in EmittedEvent /\ e.kind = "Updated" /\ e.node = r.node
        /\ r.node \in Node /\ r.node \notin m.rt /\ r.rt = m.rt \cup {r.node}
    BY <1>5 DEF IncludeGood, Event, InboundEvent, EmittedEvent, EventKind
  <2>2. k = [u EXCEPT !.emitted = em]
    BY <1>5 DEF AdvanceInclude, n
  <2>3. em \in Seq(EmittedEvent) /\ Len(em) <= 1 /\ em # <<>> /\ ToSet(em) = {e}
    BY <2>1, OneEvent
  <2>4. /\ u \in MachineType /\ Len(u.inbound) <= QueueCapacity
        /\ u.rt = n.rt /\ u.include = n.include /\ u.probe = n.probe /\ u.due = n.due
        /\ u.outbound = n.outbound /\ u.emitted = n.emitted
        /\ ToSet(n.inbound) \subseteq ToSet(u.inbound)
        /\ \/ u.missed = n.missed \cup {r.node}
           \/ u.missed = n.missed \ {r.node} /\ e \in ToSet(u.inbound)
    <3>1. u = NotifySelf(n, e)
      OBVIOUS
    <3>2. n \in MachineType /\ Fits(n.inbound)
      BY <1>2, <1>3, Zenon DEF Fits
    <3> HIDE DEF e, u
    <3>3. SelfTold(n, e, u)
      BY <2>1, <3>1, <3>2, NotifySelfSound, Zenon
    <3> QED
      BY <2>1, <3>3, Zenon DEF SelfTold, Fits
  <2> HIDE DEF em, u
  <2>5. /\ k \in MachineType /\ k.rt = r.rt /\ k.include = r.in /\ k.probe = m.probe
        /\ k.due = m.due /\ k.inbound = u.inbound /\ k.outbound = m.outbound
        /\ k.missed = u.missed /\ k.emitted = em
    BY <1>2, <2>2, <2>3, <2>4 DEF MachineType
  <2>6. Agree(k)
    <3>1. Out(k) = {e} /\ Out(m) = {} /\ ToSet(m.emitted) = {}
      BY <1>5, <2>3, <2>5, ToSetEmpty DEF Out
    <3>2. \A x \in Node : e # Event("Removed", x) /\ (e = Event("Updated", x) <=> x = r.node)
      BY <2>1 DEF Event
    <3> HIDE DEF e
    <3> QED
      BY <2>1, <2>3, <2>5, <3>1, <3>2 DEF Sane, Agree
  <2>7. Covered(k, X)
    BY <1>2, <2>1, <2>4, <2>5 DEF Sane, Covered
  <2>8. Len(k.inbound) <= QueueCapacity /\ Len(k.emitted) <= 1
    BY <2>3, <2>4, <2>5, Zenon
  <2>9. Place(k.include, k.rt) /\ Monitored(k.probe) \subseteq k.rt
    BY <1>3, <2>1, <2>5
  <2> QED
    BY <1>5, <2>3, <2>5, <2>6, <2>7, <2>8, <2>9 DEF Sane
<1>6. CASE r.kind = "Waiting"
  <2> DEFINE d == [m.due EXCEPT !["include"] = r.due]
  <2>1. r.rt = m.rt /\ r.due \in Times
    BY <1>6 DEF IncludeGood
  <2>2. /\ d \in [Activity -> Times] /\ d["include"] = r.due /\ d["probe"] = m.due["probe"]
    BY <1>1, <2>1 DEF MachineType, Activity
  <2>3. k = [n EXCEPT !.due = d]
    BY <1>2, <1>6 DEF AdvanceInclude, n
  <2> HIDE DEF d
  <2>4. /\ k \in MachineType /\ k.rt = m.rt /\ k.include = r.in /\ k.probe = m.probe
        /\ k.due = d /\ k.inbound = m.inbound /\ k.outbound = m.outbound
        /\ k.missed = m.missed /\ k.emitted = <<>>
    BY <1>2, <2>1, <2>2, <2>3 DEF MachineType
  <2>5. Agree(k)
    BY <2>4 DEF Sane, Agree, Out
  <2>6. Covered(k, X)
    BY <2>4 DEF Sane, Covered
  <2>7. Len(k.inbound) <= QueueCapacity /\ Len(k.emitted) <= 1
    BY <1>3, <2>4
  <2>8. Place(k.include, k.rt) /\ Monitored(k.probe) \subseteq k.rt
    BY <1>3, <2>1, <2>4
  <2> QED
    BY <1>6, <2>2, <2>4, <2>5, <2>6, <2>7, <2>8 DEF Sane
<1> QED
  BY <1>4, <1>5, <1>6 DEF IncludeGood

\* What advanceProbe leaves of the machine m, besides its soundness, in k.
ProbeStepped(m, r, k) ==
  /\ k.include = m.include /\ k.probe = r.probe
  /\ k.emitted \in Seq(OutboundEvent)
  /\ r.kind = "Waiting" => /\ k.emitted = <<>> /\ k.outbound = m.outbound
                           /\ k.due["probe"] = r.due /\ k.due["include"] = m.due["include"]
  /\ r.kind # "Waiting" => k.emitted # <<>> \/ k.outbound # <<>>
  /\ m.outbound # <<>> => k.outbound # <<>>

\* advanceProbe: with Y the nodes whose updates the advance has handled.
LEMMA AdvanceProbeSound ==
  ASSUME NEW m, NEW X, NEW Y, Sane(m, X), m.emitted = <<>>,
         NEW r, ProbeGood(m.probe, m.rt, Y, r),
         NEW k, k = AdvanceProbe(m, r)
  PROVE  Sane(k, X \ Y) /\ ProbeStepped(m, r, k)
<1> DEFINE n == [m EXCEPT !.rt = r.rt, !.probe = r.probe]
<1>1. m \in MachineType /\ r.probe \in ProbeType /\ r.rt \in SUBSET Node /\ r.rt \subseteq m.rt
  BY DEF Sane, ProbeGood, MachineType
<1>2. /\ n \in MachineType /\ n.rt = r.rt /\ n.include = m.include /\ n.probe = r.probe
      /\ n.due = m.due /\ n.inbound = m.inbound /\ n.outbound = m.outbound
      /\ n.missed = m.missed /\ n.emitted = m.emitted
  BY <1>1 DEF MachineType
<1> HIDE DEF n
<1>3. /\ Place(m.include, r.rt) /\ Fits(m.inbound)
      /\ Monitored(r.probe) \subseteq r.rt
  BY <1>1 DEF ProbeGood, Sane, Place, Fits
<1>4. \A x \in r.rt \ m.missed :
        x \in Monitored(r.probe) \/ x \in X \ Y \/ Event("Updated", x) \in ToSet(m.inbound)
  BY <1>1 DEF ProbeGood, Sane, Covered
<1>5. CASE r.kind = "Check"
  <2> DEFINE e == Event("ProbeCheck", r.node)
             em == <<e>>
  <2>1. e \in OutboundEvent /\ e \in EmittedEvent /\ e.kind = "ProbeCheck" /\ r.rt = m.rt
    BY <1>5 DEF ProbeGood, Event, OutboundEvent, EmittedEvent
  <2>2. k = [n EXCEPT !.emitted = em]
    BY <1>5 DEF AdvanceProbe, n
  <2>3. em \in Seq(EmittedEvent) /\ em \in Seq(OutboundEvent) /\ Len(em) <= 1 /\ em # <<>>
        /\ ToSet(em) = {e}
    BY <2>1, OneEvent
  <2> HIDE DEF e, em
  <2>4. /\ k \in MachineType /\ k.rt = m.rt /\ k.include = m.include /\ k.probe = r.probe
        /\ k.due = m.due /\ k.inbound = m.inbound /\ k.outbound = m.outbound
        /\ k.missed = m.missed /\ k.emitted = em
    BY <1>2, <2>1, <2>2, <2>3 DEF MachineType
  <2>5. Agree(k)
    <3>1. Out(k) = Out(m) \cup {e} /\ ToSet(m.emitted) = {}
      BY <2>3, <2>4, ToSetEmpty DEF Out
    <3>2. \A x \in Node : e # Event("Removed", x) /\ e # Event("Updated", x)
      BY <2>1 DEF Event
    <3> QED
      BY <2>3, <2>4, <3>1, <3>2 DEF Sane, Agree
  <2>6. Covered(k, X \ Y)
    BY <1>4, <2>1, <2>4 DEF Covered
  <2>7. Len(k.inbound) <= QueueCapacity /\ Len(k.emitted) <= 1
    BY <1>3, <2>3, <2>4, Zenon DEF Fits
  <2>8. Place(k.include, k.rt) /\ Monitored(k.probe) \subseteq k.rt
    BY <1>3, <2>1, <2>4
  <2> QED
    BY <1>5, <2>3, <2>4, <2>5, <2>6, <2>7, <2>8 DEF Sane, ProbeStepped
<1>6. CASE r.kind = "Failure"
  <2> DEFINE e == Event("Removed", r.node)
             a == Event("AddNode", r.node)
             out == Append(m.outbound, e)
             b == [n EXCEPT !.outbound = out]
  <2>1. /\ e \in OutboundEvent /\ a \in InboundEvent /\ a.kind = "AddNode"
        /\ r.node \in Node /\ r.rt = m.rt \ {r.node}
    BY <1>6 DEF ProbeGood, Event, OutboundEvent, InboundEvent, EventKind
  <2>2. k = NotifySelf(b, a)
    BY <1>2, <1>6 DEF AdvanceProbe, n
  <2>3. m.outbound \in Seq(OutboundEvent)
    BY <1>1 DEF MachineType
  <2>4. out \in Seq(OutboundEvent) /\ out # <<>> /\ ToSet(out) = ToSet(m.outbound) \cup {e}
    <3> HIDE DEF e
    <3>1. ToSet(out) = ToSet(m.outbound) \cup {e}
      BY <2>1, <2>3, ToSetAppend
    <3>2. out \in Seq(OutboundEvent) /\ out # <<>>
      BY <2>1, <2>3
    <3> QED
      BY <3>1, <3>2
  <2> HIDE DEF out
  <2>5. /\ b \in MachineType /\ b.rt = r.rt /\ b.include = m.include /\ b.probe = r.probe
        /\ b.due = m.due /\ b.inbound = m.inbound /\ b.outbound = out
        /\ b.missed = m.missed /\ b.emitted = <<>>
    BY <1>2, <2>4 DEF MachineType
  <2> HIDE DEF a, b
  <2>6. b \in MachineType /\ Fits(b.inbound)
    BY <1>3, <2>5
  <2>7. /\ k \in MachineType /\ Fits(k.inbound)
        /\ k.rt = b.rt /\ k.include = b.include /\ k.probe = b.probe /\ k.due = b.due
        /\ k.outbound = b.outbound /\ k.emitted = b.emitted
        /\ ToSet(b.inbound) \subseteq ToSet(k.inbound)
        /\ k.missed = b.missed
    <3>1. SelfTold(b, a, k)
      BY <2>1, <2>2, <2>6, NotifySelfSound
    <3> QED
      BY <2>1, <3>1, Zenon DEF SelfTold
  <2>8. Agree(k)
    <3>1. Out(k) = Out(m) \cup {e} /\ ToSet(k.emitted) = {} /\ ToSet(m.emitted) = {}
      BY <2>4, <2>5, <2>7, ToSetEmpty DEF Out
    <3>2. \A x \in Node : e = Event("Removed", x) <=> x = r.node
      BY <2>1 DEF Event
    <3> HIDE DEF e
    <3> QED
      BY <2>1, <2>5, <2>7, <3>1, <3>2 DEF Sane, Agree
  <2>9. Covered(k, X \ Y)
    BY <1>4, <2>5, <2>7 DEF Covered
  <2>10. Len(k.inbound) <= QueueCapacity
    BY <2>7 DEF Fits
  <2>11. k.emitted \in Seq(OutboundEvent) /\ Len(k.emitted) <= 1
    BY <2>5, <2>7
  <2>12. Place(k.include, k.rt) /\ Monitored(k.probe) \subseteq k.rt
    BY <1>3, <2>5, <2>7
  <2>13. Sane(k, X \ Y)
    BY <2>7, <2>8, <2>9, <2>10, <2>11, <2>12 DEF Sane
  <2> QED
    BY <1>6, <2>4, <2>5, <2>7, <2>11, <2>13 DEF ProbeStepped
<1>7. CASE r.kind = "Waiting"
  <2> DEFINE d == [m.due EXCEPT !["probe"] = r.due]
  <2>1. r.rt = m.rt /\ r.due \in Times
    BY <1>7 DEF ProbeGood
  <2>2. /\ d \in [Activity -> Times] /\ d["probe"] = r.due /\ d["include"] = m.due["include"]
    BY <1>1, <2>1 DEF MachineType, Activity
  <2>3. k = [n EXCEPT !.due = d]
    BY <1>2, <1>7 DEF AdvanceProbe, n
  <2> HIDE DEF d
  <2>4. /\ k \in MachineType /\ k.rt = m.rt /\ k.include = m.include /\ k.probe = r.probe
        /\ k.due = d /\ k.inbound = m.inbound /\ k.outbound = m.outbound
        /\ k.missed = m.missed /\ k.emitted = <<>>
    BY <1>2, <2>1, <2>2, <2>3 DEF MachineType
  <2>5. Agree(k)
    BY <2>4 DEF Sane, Agree, Out
  <2>6. Covered(k, X \ Y)
    BY <1>4, <2>1, <2>4 DEF Covered
  <2>7. Len(k.inbound) <= QueueCapacity
    BY <1>3, <2>4 DEF Fits
  <2>8. Place(k.include, k.rt) /\ Monitored(k.probe) \subseteq k.rt
    BY <1>3, <2>1, <2>4
  <2>9. k.emitted \in Seq(OutboundEvent) /\ Len(k.emitted) <= 1
    BY <2>4
  <2>10. Sane(k, X \ Y)
    BY <2>4, <2>5, <2>6, <2>7, <2>8, <2>9 DEF Sane
  <2> QED
    BY <1>7, <2>2, <2>4, <2>9, <2>10 DEF ProbeStepped
<1> QED
  BY <1>5, <1>6, <1>7 DEF ProbeGood

\* What a child emitted waits in pendingOutbound.
LEMMA QueuedSound ==
  ASSUME NEW m, NEW X, Sane(m, X), m.emitted \in Seq(OutboundEvent),
         NEW k, k = Queued(m)
  PROVE  /\ Sane(k, X) /\ k.emitted = <<>>
         /\ k.include = m.include /\ k.probe = m.probe /\ k.due = m.due /\ k.rt = m.rt
         /\ k.outbound = <<>> => m.outbound = <<>> /\ m.emitted = <<>>
<1> DEFINE out == m.outbound \o m.emitted
<1>1. m \in MachineType /\ m.outbound \in Seq(OutboundEvent)
  BY DEF Sane, MachineType
<1>2. out \in Seq(OutboundEvent) /\ ToSet(out) = ToSet(m.outbound) \cup ToSet(m.emitted)
  BY <1>1, ToSetConcat, ConcatProperties
<1>3. out = <<>> => m.outbound = <<>> /\ m.emitted = <<>>
  BY <1>1
<1>4. k = [m EXCEPT !.outbound = out, !.emitted = <<>>]
  BY DEF Queued
<1> HIDE DEF out
<1>5. /\ k \in MachineType /\ k.rt = m.rt /\ k.include = m.include /\ k.probe = m.probe
      /\ k.due = m.due /\ k.inbound = m.inbound /\ k.outbound = out
      /\ k.missed = m.missed /\ k.emitted = <<>>
  <2> DEFINE em == <<>>
  <2>1. em \in Seq(EmittedEvent) /\ em = <<>> /\ k = [m EXCEPT !.outbound = out, !.emitted = em]
    BY <1>4
  <2> HIDE DEF em
  <2> QED
    BY <1>1, <1>2, <2>1 DEF MachineType
<1>6. Agree(k)
  <2>1. Out(k) = Out(m) /\ ToSet(k.emitted) = {}
    BY <1>2, <1>5, ToSetEmpty DEF Out
  <2>2. \A x \in Node : Event("Updated", x) \notin ToSet(m.emitted)
    <3> SUFFICES ASSUME NEW x \in Node, Event("Updated", x) \in ToSet(m.emitted) PROVE FALSE
      OBVIOUS
    <3>1. PICK i \in 1..Len(m.emitted) : m.emitted[i] = Event("Updated", x)
      BY InToSet
    <3>2. m.emitted[i] \in OutboundEvent
      OBVIOUS
    <3> QED
      BY <3>1, <3>2 DEF Event, OutboundEvent
  <2> QED
    BY <1>5, <2>1, <2>2 DEF Sane, Agree
<1>7. Covered(k, X)
  BY <1>5 DEF Sane, Covered
<1>8. Fits(k.inbound) /\ Len(k.emitted) <= 1 /\ Place(k.include, k.rt)
      /\ Monitored(k.probe) \subseteq k.rt
  BY <1>5 DEF Sane, Fits
<1>9. Sane(k, X)
  BY <1>5, <1>6, <1>7, <1>8 DEF Sane, Fits
<1> QED
  BY <1>3, <1>5, <1>9

\* Taking an event from the outbound queue.
LEMMA PopOutboundSound ==
  ASSUME NEW m, NEW X, Sane(m, X), m.emitted = <<>>,
         NEW k, k = PopOutbound(m)
  PROVE  /\ Sane(k, X) /\ k.missed = m.missed /\ k.inbound = m.inbound
         /\ k.emitted = <<>> => k = m /\ m.outbound = <<>>
         /\ m.outbound # <<>> => k.outbound = Tail(m.outbound) /\ k.rt = m.rt
<1>1. CASE m.outbound = <<>>
  BY <1>1 DEF PopOutbound
<1>2. CASE m.outbound # <<>>
  <2> DEFINE e   == Head(m.outbound)
             out == Tail(m.outbound)
             em  == <<e>>
  <2>1. m \in MachineType /\ m.outbound \in Seq(OutboundEvent)
    BY DEF Sane, MachineType
  <2>2. /\ e \in OutboundEvent /\ out \in Seq(OutboundEvent)
        /\ ToSet(m.outbound) = {e} \cup ToSet(out)
    BY <1>2, <2>1, ToSetTail
  <2>3. k = [m EXCEPT !.outbound = out, !.emitted = em]
    BY <1>2 DEF PopOutbound
  <2> HIDE DEF out, e
  <2>4. e \in EmittedEvent /\ \A x \in Node : e # Event("Updated", x)
    BY <2>2 DEF OutboundEvent, EmittedEvent, Event
  <2>5. em \in Seq(EmittedEvent) /\ Len(em) <= 1 /\ em # <<>> /\ ToSet(em) = {e}
    BY <2>4, OneEvent
  <2> HIDE DEF em
  <2>6. /\ k \in MachineType /\ k.rt = m.rt /\ k.include = m.include /\ k.probe = m.probe
        /\ k.due = m.due /\ k.inbound = m.inbound /\ k.outbound = out
        /\ k.missed = m.missed /\ k.emitted = em
    BY <2>1, <2>2, <2>3, <2>5 DEF MachineType
  <2>7. Agree(k)
    <3>1. Out(k) = Out(m) /\ ToSet(m.emitted) = {}
      BY <2>2, <2>5, <2>6, ToSetEmpty DEF Out
    <3> QED
      BY <2>4, <2>5, <2>6, <3>1 DEF Sane, Agree
  <2>8. Covered(k, X)
    BY <2>6 DEF Sane, Covered
  <2>9. Fits(k.inbound) /\ Place(k.include, k.rt) /\ Monitored(k.probe) \subseteq k.rt
    BY <2>6 DEF Sane, Fits
  <2>10. Len(k.emitted) <= 1 /\ k.emitted # <<>>
    BY <2>5, <2>6, Zenon
  <2>11. Sane(k, X)
    BY <2>6, <2>7, <2>8, <2>9, <2>10 DEF Sane, Fits
  <2> QED
    BY <1>2, <2>6, <2>10, <2>11 DEF out
<1> QED
  BY <1>1, <1>2

\* Both children have nothing to do, and due holds when that changes.
Quiet(m) ==
  /\ m.due["include"] = Earliest({m.include.checks[n] : n \in Node})
  /\ \A n \in Node : m.include.checks[n] # Past
  /\ m.include.candidates # <<>> => IncludeFull(m.include)
  /\ m.due["probe"] = ProbeDue(m.probe)
  /\ Overdue(m.probe, "ongoing") = {}
  /\ ProbeFull(m.probe) \/ Due(m.probe) = {}

\* The probe's part of pollChildren.
LEMMA PollProbeSound ==
  ASSUME NEW m, NEW X, Sane(m, X), m.emitted = <<>>, NEW r \in ProbeWalk(m.probe, m.rt),
         NEW l, l = Queued(AdvanceProbe(m, r))
  PROVE  /\ Sane(l, X) /\ l.emitted = <<>>
         /\ l.outbound = <<>> =>
              /\ r.kind = "Waiting" /\ m.outbound = <<>>
              /\ l.include = m.include /\ l.probe = r.probe
              /\ l.due["probe"] = r.due /\ l.due["include"] = m.due["include"]
<1> DEFINE b == AdvanceProbe(m, r)
<1>1. b = AdvanceProbe(m, r) /\ l = Queued(b)
  OBVIOUS
<1> HIDE DEF b
<1>2. m.probe \in ProbeType /\ m.rt \in SUBSET Node /\ Monitored(m.probe) \subseteq m.rt
  BY DEF Sane, MachineType
<1> DEFINE Y == {}
<1>3. X \ Y = X /\ ProbeGood(m.probe, m.rt, Y, r)
  BY <1>2, ProbeWalkSound
<1> HIDE DEF Y
<1>4. Sane(b, X \ Y) /\ ProbeStepped(m, r, b)
  BY <1>1, <1>3, AdvanceProbeSound
<1>5. Sane(b, X)
  BY <1>3, <1>4
<1>6. b.emitted \in Seq(OutboundEvent)
  BY <1>4 DEF ProbeStepped
<1>7. /\ Sane(l, X) /\ l.emitted = <<>>
      /\ l.include = b.include /\ l.probe = b.probe /\ l.due = b.due
  BY <1>1, <1>5, <1>6, QueuedSound
<1>8. ASSUME l.outbound = <<>> PROVE b.outbound = <<>>
  BY <1>1, <1>5, <1>6, <1>8, QueuedSound
<1>9. ASSUME l.outbound = <<>> PROVE b.emitted = <<>>
  BY <1>1, <1>5, <1>6, <1>9, QueuedSound
<1>10. ASSUME l.outbound = <<>>
       PROVE  /\ r.kind = "Waiting" /\ m.outbound = <<>>
              /\ l.include = m.include /\ l.probe = r.probe
              /\ l.due["probe"] = r.due /\ l.due["include"] = m.due["include"]
  BY <1>4, <1>7, <1>8, <1>9, <1>10 DEF ProbeStepped
<1> QED
  BY <1>7, <1>10

\* pollChildren produces an outbound event, or finds both children quiet.
LEMMA PollChildrenSound ==
  ASSUME NEW m, NEW X, Sane(m, X), m.emitted = <<>>, NEW l \in PollChildren(m)
  PROVE  Sane(l, X) /\ l.emitted = <<>> /\ (l.outbound = <<>> => Quiet(l))
<1> DEFINE w == IncludeWalk(m.include, m.rt)
           a == AdvanceInclude(m, w)
           k == Queued(a)
<1>1. m.include \in IncludeType /\ m.rt \in SUBSET Node /\ Place(m.include, m.rt)
  BY DEF Sane, MachineType
<1>2. IncludeGood(m.include, m.rt, w) /\ IncludeRests(w)
  BY <1>1, IncludeWalkSound
<1>3. w.kind # "Updated"
  BY <1>2 DEF IncludeRests
<1>4. a = AdvanceInclude(m, w)
  OBVIOUS
<1>5. k = Queued(a)
  OBVIOUS
<1>6. \E res \in ProbeWalk(k.probe, k.rt) : l = Queued(AdvanceProbe(k, res))
  BY DEF PollChildren
<1> HIDE DEF w, a, k
<1>7. /\ Sane(a, X) /\ a.include = w.in /\ a.emitted \in Seq(OutboundEvent)
      /\ w.kind = "Waiting" => a.due["include"] = w.due
      /\ w.kind # "Waiting" => a.emitted # <<>>
  BY <1>2, <1>3, <1>4, AdvanceIncludeSound
<1>8. /\ Sane(k, X) /\ k.emitted = <<>> /\ k.include = a.include /\ k.due = a.due
      /\ k.outbound = <<>> => a.emitted = <<>>
  BY <1>5, <1>7, QueuedSound
<1>9. PICK res \in ProbeWalk(k.probe, k.rt) : l = Queued(AdvanceProbe(k, res))
  BY <1>6
<1>10. Sane(k, X) /\ k.emitted = <<>>
  BY <1>8
<1>11. /\ Sane(l, X) /\ l.emitted = <<>>
       /\ l.outbound = <<>> =>
            /\ res.kind = "Waiting" /\ k.outbound = <<>>
            /\ l.include = k.include /\ l.probe = res.probe
            /\ l.due["probe"] = res.due /\ l.due["include"] = k.due["include"]
  BY <1>9, <1>10, PollProbeSound
<1>12. ASSUME l.outbound = <<>> PROVE Quiet(l)
  <2>1. res.kind = "Waiting" /\ w.kind = "Waiting"
    BY <1>7, <1>8, <1>11, <1>12
  <2>2. /\ l.include = w.in /\ l.probe = res.probe /\ l.due["include"] = w.due
        /\ l.due["probe"] = res.due
    BY <1>7, <1>8, <1>11, <1>12, <2>1
  <2>3. /\ w.due = Earliest({w.in.checks[n] : n \in Node})
        /\ \A n \in Node : w.in.checks[n] # Past
        /\ w.in.candidates # <<>> => IncludeFull(w.in)
    BY <1>2, <2>1 DEF IncludeRests
  <2>4. k.probe \in ProbeType /\ k.rt \in SUBSET Node /\ Monitored(k.probe) \subseteq k.rt
    BY <1>10 DEF Sane, MachineType
  <2>5. ProbeRests(res)
    BY <2>4, ProbeWalkSound
  <2>6. /\ res.due = ProbeDue(res.probe) /\ Overdue(res.probe, "ongoing") = {}
        /\ ProbeFull(res.probe) \/ Due(res.probe) = {}
    BY <2>1, <2>5 DEF ProbeRests
  <2> QED
    BY <2>2, <2>3, <2>6 DEF Quiet
<1> QED
  BY <1>11, <1>12

\* The node whose update is being handled.
UpdateOf(ev) == IF ev.kind = "Updated" THEN {ev.node} ELSE {}

\* performNextInbound.
LEMMA PerformInboundSound ==
  ASSUME NEW m, NEW ev \in InboundEvent, NEW accepts \in BOOLEAN,
         Sane(m, UpdateOf(ev)), m.emitted = <<>>, m.outbound = <<>>,
         NEW k \in PerformInbound(m, ev, accepts)
  PROVE  Sane(k, {})
<1> DEFINE n == ev.node
<1>1. n \in Node /\ ev.kind \in EventKind
  BY DEF InboundEvent
<1>2. /\ m.include \in IncludeType /\ m.rt \in SUBSET Node /\ Place(m.include, m.rt)
      /\ m.probe \in ProbeType /\ Monitored(m.probe) \subseteq m.rt
  BY DEF Sane, MachineType
<1>3. ev.kind # "Updated" => UpdateOf(ev) = {}
  BY DEF UpdateOf
<1>4. ASSUME NEW r, IncludeGood(m.include, m.rt, r), k = AdvanceInclude(m, r), ev.kind # "Updated"
      PROVE  Sane(k, {})
  BY <1>3, <1>4, AdvanceIncludeSound
<1>5. ASSUME NEW r, NEW Y, ProbeGood(m.probe, m.rt, Y, r), k = AdvanceProbe(m, r),
             UpdateOf(ev) = Y
      PROVE  Sane(k, {})
  <2>1. Sane(k, UpdateOf(ev) \ Y)
    BY <1>5, AdvanceProbeSound
  <2>2. UpdateOf(ev) \ Y = {}
    BY <1>5
  <2> QED
    BY <2>1, <2>2
<1>6. CASE ev.kind = "AddNode"
  <2>1. k = AdvanceInclude(m, AddCandidate(m.include, m.rt, n))
    BY <1>6 DEF PerformInbound
  <2> QED
    BY <1>1, <1>2, <1>4, <1>6, <2>1, AddCandidateSound
<1>7. CASE ev.kind = "IncludeOK"
  <2>1. k = AdvanceInclude(m, CheckSuccess(m.include, m.rt, n, accepts))
    BY <1>7 DEF PerformInbound
  <2> QED
    BY <1>1, <1>2, <1>4, <1>7, <2>1, CheckSuccessSound
<1>8. CASE ev.kind \in {"IncludeFailed", "IncludeRefused"}
  <2>1. k = AdvanceInclude(m, CheckFailure(m.include, m.rt, n))
    BY <1>8 DEF PerformInbound
  <2> QED
    BY <1>1, <1>2, <1>4, <1>8, <2>1, CheckFailureSound
<1>9. CASE ev.kind = "Updated"
  <2>1. PICK r \in ProbeAdd(m.probe, m.rt, n) : k = AdvanceProbe(m, r)
    BY <1>9 DEF PerformInbound
  <2>2. ProbeGood(m.probe, m.rt, {n}, r)
    BY <1>1, <1>2, ProbeAddSound
  <2>3. UpdateOf(ev) = {n}
    BY <1>9 DEF UpdateOf
  <2> QED
    BY <1>5, <2>1, <2>2, <2>3
<1>10. CASE ev.kind \in {"ProbeOK", "ProbeRefused"}
  <2>1. PICK r \in ProbePutOff(m.probe, m.rt, n) : k = AdvanceProbe(m, r)
    BY <1>10 DEF PerformInbound
  <2>2. ProbeGood(m.probe, m.rt, {}, r)
    BY <1>1, <1>2, ProbePutOffSound
  <2> QED
    BY <1>3, <1>5, <1>10, <2>1, <2>2
<1>11. CASE ev.kind \in {"ProbeFailed", "NotConnected"}
  <2>1. PICK r \in ProbeRemove(m.probe, m.rt, n) : k = AdvanceProbe(m, r)
    BY <1>11 DEF PerformInbound
  <2>2. ProbeGood(m.probe, m.rt, {}, r)
    BY <1>1, <1>2, ProbeRemoveSound
  <2> QED
    BY <1>3, <1>5, <1>11, <2>1, <2>2
<1>12. CASE ev.kind = "Connected"
  <2> DEFINE r == AddCandidate(m.include, m.rt, n)
             a == AdvanceInclude(m, r)
             q == Queued(a)
  <2>1. \E res \in ProbePutOff(q.probe, q.rt, n) : k = AdvanceProbe(q, res)
    BY <1>12 DEF PerformInbound
  <2>2. IncludeGood(m.include, m.rt, r) /\ r.kind # "Updated"
    BY <1>1, <1>2, AddCandidateSound
  <2>3. a = AdvanceInclude(m, r) /\ q = Queued(a)
    OBVIOUS
  <2> HIDE DEF r, a, q
  <2>4. Sane(m, {})
    BY <1>3, <1>12
  <2>5. Sane(a, {}) /\ a.emitted \in Seq(OutboundEvent)
    BY <2>2, <2>3, <2>4, AdvanceIncludeSound
  <2>6. Sane(q, {}) /\ q.emitted = <<>>
    BY <2>3, <2>5, QueuedSound
  <2>7. q.probe \in ProbeType /\ q.rt \in SUBSET Node /\ Monitored(q.probe) \subseteq q.rt
    BY <2>6 DEF Sane, MachineType
  <2>8. PICK res \in ProbePutOff(q.probe, q.rt, n) : k = AdvanceProbe(q, res)
    BY <2>1
  <2>9. ProbeGood(q.probe, q.rt, {}, res)
    BY <1>1, <2>7, ProbePutOffSound
  <2>10. Sane(k, {} \ {})
    BY <2>6, <2>8, <2>9, AdvanceProbeSound
  <2> QED
    BY <2>10
<1> QED
  BY <1>1, <1>6, <1>7, <1>8, <1>9, <1>10, <1>11, <1>12 DEF EventKind

Nothing == Event("Nothing", NoNode)

\* The rest of Perform.
LEMMA PerformedSound ==
  ASSUME NEW m, NEW ev \in InboundEvent \cup {Nothing}, NEW accepts \in BOOLEAN,
         Sane(m, UpdateOf(ev)), m.emitted = <<>>, m.outbound = <<>>,
         NEW p \in Performed(m, ev, accepts)
  PROVE  Sane(p, {}) /\ (p.emitted = <<>> => p.outbound = <<>> /\ Quiet(p))
<1>1. PICK k \in IF ev.kind = "Nothing" THEN {m} ELSE PerformInbound(m, ev, accepts) :
        p \in IF k.emitted # <<>> THEN {k} ELSE {PopOutbound(l) : l \in PollChildren(k)}
  BY DEF Performed
<1>2. Sane(k, {})
  <2>1. CASE ev.kind = "Nothing"
    <3>1. UpdateOf(ev) = {}
      BY <2>1 DEF UpdateOf
    <3> QED
      BY <1>1, <2>1, <3>1
  <2>2. CASE ev.kind # "Nothing"
    <3>1. ev \in InboundEvent
      BY <2>2 DEF Nothing, Event
    <3> QED
      BY <1>1, <2>2, <3>1, PerformInboundSound
  <2> QED
    BY <2>1, <2>2
<1>3. CASE k.emitted # <<>>
  BY <1>1, <1>2, <1>3
<1>4. CASE k.emitted = <<>>
  <2>1. PICK l \in PollChildren(k) : p = PopOutbound(l)
    BY <1>1, <1>4
  <2>2. Sane(l, {}) /\ l.emitted = <<>> /\ (l.outbound = <<>> => Quiet(l))
    BY <1>2, <1>4, PollChildrenSound
  <2>3. Sane(p, {}) /\ (p.emitted = <<>> => p = l /\ l.outbound = <<>>)
    BY <2>1, <2>2, PopOutboundSound
  <2> QED
    BY <2>2, <2>3
<1> QED
  BY <1>3, <1>4
-----------------------------------------------------------------------------
(* The inductive invariant *)

RoutingTyped ==
  /\ rt \in SUBSET Node /\ include \in IncludeType /\ probe \in ProbeType
  /\ due \in [Activity -> Times]
  /\ inbound \in Seq(InboundEvent) /\ Fits(inbound)
  /\ outbound \in Seq(OutboundEvent)
  /\ taken \in Seq(InboundEvent \cup {Nothing}) /\ Len(taken) <= 1
  /\ ready \in BOOLEAN
  /\ timer \in Times
  /\ net \in [Activity \X Node -> Int]
  /\ told \in [Node -> {"none", "added", "removed"}]
  /\ missed \in SUBSET Node

\* A removal that waits to be delivered is of a node that has not come back.
RemovedGone == \A n \in Node : Event("Removed", n) \in ToSet(outbound) => n \notin rt

\* An event is only taken when no outbound event is left.
TakenAlone == taken # <<>> => outbound = <<>>

IInv ==
  /\ RoutingTyped
  /\ OnePlace
  /\ MonitoredInTable
  /\ MembersMonitored
  /\ ClientsAgree
  /\ RemovedGone
  /\ TakenAlone
  /\ SleepsSoundly

\* Where an Updated event may be on its way.
LEMMA ComingSound ==
  ASSUME NEW in \in Seq(InboundEvent), NEW t \in Seq(InboundEvent \cup {Nothing})
  PROVE  ToSet(in \o t) = ToSet(in) \cup ToSet(t)
<1>1. in \in Seq(InboundEvent \cup {Nothing})
  BY SeqDef
<1> QED
  BY <1>1, ToSetConcat

\* An event taken is the one that the loop is about to handle.
LEMMA TakenSound ==
  ASSUME IInv, taken # <<>>
  PROVE  taken[1] \in InboundEvent \cup {Nothing} /\ ToSet(taken) = {taken[1]}
<1>1. /\ taken \in Seq(InboundEvent \cup {Nothing}) /\ Len(taken) <= 1
  BY DEF IInv, RoutingTyped
<1> QED
  BY <1>1, Single

\* What the loop handles, or drains, starts sound.
LEMMA MachineSound ==
  ASSUME IInv, NEW X,
         taken # <<>> => X = UpdateOf(taken[1])
  PROVE  Sane(Machine, X) /\ Machine.emitted = <<>>
<1>1. /\ Machine \in MachineType /\ Machine.rt = rt /\ Machine.include = include
      /\ Machine.probe = probe /\ Machine.due = due /\ Machine.inbound = inbound
      /\ Machine.outbound = outbound /\ Machine.missed = missed /\ Machine.emitted = <<>>
  BY DEF IInv, RoutingTyped, MachineType, Machine
<1>2. Len(Machine.inbound) <= QueueCapacity /\ Len(Machine.emitted) <= 1
  BY <1>1 DEF IInv, RoutingTyped, Fits
<1>3. Place(Machine.include, Machine.rt) /\ Monitored(Machine.probe) \subseteq Machine.rt
  BY <1>1 DEF IInv, OnePlace, Place, MonitoredInTable
<1>4. Covered(Machine, X)
  <2>1. ASSUME NEW n \in rt \ missed PROVE n \in Monitored(probe) \/ n \in X \/ Event("Updated", n) \in ToSet(inbound)
    <3>1. n \in Monitored(probe) \/ Event("Updated", n) \in ToSet(inbound \o taken)
      BY <2>1 DEF IInv, MembersMonitored, UpdateComing
    <3>2. ToSet(inbound \o taken) = ToSet(inbound) \cup ToSet(taken)
      BY ComingSound DEF IInv, RoutingTyped
    <3>3. Event("Updated", n) \in ToSet(taken) => n \in X
      <4>1. CASE taken = <<>>
        BY <4>1, ToSetEmpty
      <4>2. CASE taken # <<>>
        <5>1. ToSet(taken) = {taken[1]} /\ X = UpdateOf(taken[1])
          BY <4>2, TakenSound
        <5>2. Event("Updated", n).kind = "Updated" /\ Event("Updated", n).node = n
          BY DEF Event
        <5> QED
          BY <5>1, <5>2 DEF UpdateOf
      <4> QED
        BY <4>1, <4>2
    <3> QED
      BY <3>1, <3>2, <3>3
  <2> QED
    BY <1>1, <2>1 DEF Covered
<1>5. Agree(Machine)
  <2>1. Out(Machine) = ToSet(outbound) /\ ToSet(Machine.emitted) = {}
    BY <1>1, ToSetEmpty DEF Out
  <2> QED
    BY <1>1, <2>1 DEF IInv, ClientsAgree, RemovedGone, Agree
<1> QED
  BY <1>1, <1>2, <1>3, <1>4, <1>5 DEF Sane

\* The dispatch of an event: a notification delivered is no longer on its way.
LEMMA DispatchSound ==
  ASSUME NEW m, Sane(m, {}), m.emitted # <<>>, RoutingTyped, Dispatch(m)
  PROVE  /\ inbound' \in Seq(InboundEvent) /\ Fits(inbound')
         /\ ToSet(m.inbound) \subseteq ToSet(inbound')
         /\ net' \in [Activity \X Node -> Int]
         /\ told' \in [Node -> {"none", "added", "removed"}]
         /\ \A n \in Node : Event("Removed", n) \in ToSet(m.outbound) => n \notin m.rt
         /\ \A n \in Node : Event("Removed", n) \notin ToSet(m.outbound)
                              => (told'[n] = "added" <=> n \in m.rt)
<1> DEFINE e == m.emitted[1]
<1>1. e \in EmittedEvent /\ ToSet(m.emitted) = {e}
  <2>1. m.emitted \in Seq(EmittedEvent) /\ Len(m.emitted) <= 1
    BY DEF Sane, MachineType
  <2> QED
    BY <2>1, Single
<1>2. m.inbound \in Seq(InboundEvent) /\ Fits(m.inbound) /\ Len(m.inbound) <= QueueCapacity
  BY DEF Sane, MachineType, Fits
<1>3. /\ net \in [Activity \X Node -> Int] /\ told \in [Node -> {"none", "added", "removed"}]
  BY DEF RoutingTyped
<1>4. \A n \in Node :
        /\ Event("Removed", n) \in ToSet(m.outbound) \cup {e} => n \notin m.rt
        /\ Event("Updated", n) = e => n \in m.rt
        /\ Event("Removed", n) \notin ToSet(m.outbound) \cup {e} /\ Event("Updated", n) # e
             => (told[n] = "added" <=> n \in m.rt)
  BY <1>1 DEF Sane, Agree, Out
<1>5. e.node \in Node /\ e.kind \in {"IncludeCheck", "ProbeCheck", "Removed", "Updated"} /\ e = Event(e.kind, e.node)
  BY <1>1 DEF EmittedEvent, Event
<1>6. ASSUME NEW act \in Activity, NEW refusal \in {"IncludeRefused", "ProbeRefused"},
             e.kind \in {"IncludeCheck", "ProbeCheck"},
             \/ /\ net' = [net EXCEPT ![<<act, e.node>>] = @ + 1]
                /\ inbound' = m.inbound
             \/ /\ inbound' = Enqueued(m.inbound, Event(refusal, e.node))
                /\ UNCHANGED net,
             UNCHANGED told
      PROVE  /\ inbound' \in Seq(InboundEvent) /\ Fits(inbound')
             /\ ToSet(m.inbound) \subseteq ToSet(inbound')
             /\ net' \in [Activity \X Node -> Int]
             /\ told' \in [Node -> {"none", "added", "removed"}]
             /\ \A n \in Node : e # Event("Removed", n) /\ e # Event("Updated", n)
             /\ told' = told
  <2>1. \A n \in Node : e # Event("Removed", n) /\ e # Event("Updated", n)
    BY <1>6 DEF Event
  <2>2. CASE /\ net' = [net EXCEPT ![<<act, e.node>>] = @ + 1]
             /\ inbound' = m.inbound
    <3>1. net' \in [Activity \X Node -> Int]
      BY <1>3, <1>5, <1>6, <2>2
    <3> QED
      BY <1>2, <1>3, <1>6, <2>1, <2>2, <3>1
  <2>3. CASE /\ inbound' = Enqueued(m.inbound, Event(refusal, e.node))
             /\ UNCHANGED net
    <3> DEFINE r == Event(refusal, e.node)
    <3>1. r \in InboundEvent
      BY <1>5 DEF InboundEvent, EventKind, Event
    <3> HIDE DEF r
    <3>2. /\ Enqueued(m.inbound, r) \in Seq(InboundEvent) /\ Fits(Enqueued(m.inbound, r))
          /\ ToSet(m.inbound) \subseteq ToSet(Enqueued(m.inbound, r))
      BY <1>2, <3>1, EnqueuedSound DEF Fits
    <3>3. inbound' = Enqueued(m.inbound, r)
      BY <2>3 DEF r
    <3> QED
      BY <1>3, <1>6, <2>1, <2>3, <3>2, <3>3
  <2> QED
    BY <1>6, <2>2, <2>3
<1>7. CASE e.kind = "IncludeCheck"
  <2>1. /\ \/ /\ net' = [net EXCEPT ![<<"include", e.node>>] = @ + 1]
              /\ inbound' = m.inbound
           \/ /\ inbound' = Enqueued(m.inbound, Event("IncludeRefused", e.node))
              /\ UNCHANGED net
        /\ UNCHANGED told
    BY <1>7 DEF Dispatch
  <2>2. /\ inbound' \in Seq(InboundEvent) /\ Fits(inbound')
        /\ ToSet(m.inbound) \subseteq ToSet(inbound')
        /\ net' \in [Activity \X Node -> Int]
        /\ told' \in [Node -> {"none", "added", "removed"}]
        /\ \A n \in Node : e # Event("Removed", n) /\ e # Event("Updated", n)
        /\ told' = told
    BY <1>6, <1>7, <2>1 DEF Activity
  <2> HIDE DEF e
  <2> QED
    BY <1>4, <2>2
<1>8. CASE e.kind = "ProbeCheck"
  <2>1. /\ \/ /\ net' = [net EXCEPT ![<<"probe", e.node>>] = @ + 1]
              /\ inbound' = m.inbound
           \/ /\ inbound' = Enqueued(m.inbound, Event("ProbeRefused", e.node))
              /\ UNCHANGED net
        /\ UNCHANGED told
    BY <1>8 DEF Dispatch
  <2>2. /\ inbound' \in Seq(InboundEvent) /\ Fits(inbound')
        /\ ToSet(m.inbound) \subseteq ToSet(inbound')
        /\ net' \in [Activity \X Node -> Int]
        /\ told' \in [Node -> {"none", "added", "removed"}]
        /\ \A n \in Node : e # Event("Removed", n) /\ e # Event("Updated", n)
        /\ told' = told
    BY <1>6, <1>8, <2>1 DEF Activity
  <2> HIDE DEF e
  <2> QED
    BY <1>4, <2>2
<1>9. ASSUME NEW what \in {"added", "removed"},
             told' = [told EXCEPT ![e.node] = what] /\ inbound' = m.inbound /\ UNCHANGED net
      PROVE  /\ inbound' \in Seq(InboundEvent) /\ Fits(inbound')
             /\ ToSet(m.inbound) \subseteq ToSet(inbound')
             /\ net' \in [Activity \X Node -> Int]
             /\ told' \in [Node -> {"none", "added", "removed"}]
             /\ told'[e.node] = what
             /\ \A n \in Node : n # e.node => told'[n] = told[n]
  <2>1. /\ told' \in [Node -> {"none", "added", "removed"}] /\ told'[e.node] = what
        /\ \A n \in Node : n # e.node => told'[n] = told[n]
    BY <1>3, <1>5, <1>9
  <2> QED
    BY <1>2, <1>3, <1>9, <2>1
<1>10. CASE e.kind = "Updated"
  <2>1. told' = [told EXCEPT ![e.node] = "added"] /\ inbound' = m.inbound /\ UNCHANGED net
    BY <1>10 DEF Dispatch
  <2>2. /\ inbound' \in Seq(InboundEvent) /\ Fits(inbound')
        /\ ToSet(m.inbound) \subseteq ToSet(inbound')
        /\ net' \in [Activity \X Node -> Int]
        /\ told' \in [Node -> {"none", "added", "removed"}]
        /\ told'[e.node] = "added"
        /\ \A n \in Node : n # e.node => told'[n] = told[n]
    BY <1>9, <2>1
  <2>3. \A n \in Node : e # Event("Removed", n) /\ (e = Event("Updated", n) <=> n = e.node)
    BY <1>5, <1>10 DEF Event
  <2> HIDE DEF e
  <2> QED
    BY <1>4, <1>5, <2>2, <2>3
<1>11. CASE e.kind = "Removed"
  <2>1. told' = [told EXCEPT ![e.node] = "removed"] /\ inbound' = m.inbound /\ UNCHANGED net
    BY <1>11 DEF Dispatch
  <2>2. /\ inbound' \in Seq(InboundEvent) /\ Fits(inbound')
        /\ ToSet(m.inbound) \subseteq ToSet(inbound')
        /\ net' \in [Activity \X Node -> Int]
        /\ told' \in [Node -> {"none", "added", "removed"}]
        /\ told'[e.node] = "removed"
        /\ \A n \in Node : n # e.node => told'[n] = told[n]
    BY <1>9, <2>1
  <2>3. \A n \in Node : e # Event("Updated", n) /\ (e = Event("Removed", n) <=> n = e.node)
    BY <1>5, <1>11 DEF Event
  <2> HIDE DEF e
  <2> QED
    BY <1>4, <1>5, <2>2, <2>3
<1> QED
  BY <1>5, <1>7, <1>8, <1>10, <1>11

\* The parts of the invariant that a sound machine settles when its handling ends.
LEMMA SettledSound ==
  ASSUME NEW m, Sane(m, {}), RoutingTyped,
         rt' = m.rt, include' = m.include, probe' = m.probe, due' = m.due,
         outbound' = m.outbound, missed' = m.missed, taken' = <<>>,
         inbound' \in Seq(InboundEvent), Fits(inbound'),
         ToSet(m.inbound) \subseteq ToSet(inbound'),
         ready' \in BOOLEAN, timer' \in Times, net' \in [Activity \X Node -> Int],
         told' \in [Node -> {"none", "added", "removed"}],
         \A n \in Node : Event("Removed", n) \in ToSet(m.outbound) => n \notin m.rt,
         \A n \in Node : Event("Removed", n) \notin ToSet(m.outbound)
                         => (told'[n] = "added" <=> n \in m.rt),
         SleepsSoundly'
  PROVE  IInv'
<1>1. RoutingTyped'
  <2>1. taken' \in Seq(InboundEvent \cup {Nothing}) /\ Len(taken') <= 1
    OBVIOUS
  <2>2. /\ rt' \in SUBSET Node /\ include' \in IncludeType /\ probe' \in ProbeType
        /\ due' \in [Activity -> Times] /\ outbound' \in Seq(OutboundEvent)
        /\ missed' \in SUBSET Node
    BY DEF Sane, MachineType
  <2> QED
    BY <2>1, <2>2 DEF RoutingTyped, Fits
<1>2. OnePlace' /\ MonitoredInTable'
  BY DEF Sane, Place, OnePlace, MonitoredInTable
<1>3. MembersMonitored'
  <2>1. ToSet(inbound' \o taken') = ToSet(inbound') \cup ToSet(taken')
    <3>1. taken' \in Seq(InboundEvent \cup {Nothing})
      OBVIOUS
    <3> QED
      BY <3>1, ComingSound
  <2> QED
    BY <2>1 DEF Sane, Covered, MembersMonitored, UpdateComing
<1>4. ClientsAgree' /\ RemovedGone' /\ TakenAlone'
  BY DEF ClientsAgree, RemovedGone, TakenAlone
<1> QED
  BY <1>1, <1>2, <1>3, <1>4 DEF IInv

\* Perform ends with an event, which is dispatched, and the loop goes on.
LEMMA GoOnSound ==
  ASSUME NEW m, Sane(m, {}), RoutingTyped, m.emitted # <<>>, GoOn(m),
         rt' = m.rt, include' = m.include, probe' = m.probe, due' = m.due,
         outbound' = m.outbound, missed' = m.missed, taken' = <<>>
  PROVE  IInv'
<1>1. ready' = TRUE /\ timer' = timer /\ Dispatch(m)
  BY DEF GoOn
<1>2. /\ inbound' \in Seq(InboundEvent) /\ Fits(inbound')
      /\ ToSet(m.inbound) \subseteq ToSet(inbound')
      /\ net' \in [Activity \X Node -> Int]
      /\ told' \in [Node -> {"none", "added", "removed"}]
      /\ \A n \in Node : Event("Removed", n) \in ToSet(m.outbound) => n \notin m.rt
      /\ \A n \in Node : Event("Removed", n) \notin ToSet(m.outbound)
                           => (told'[n] = "added" <=> n \in m.rt)
  BY <1>1, DispatchSound
<1>3. SleepsSoundly'
  BY <1>1 DEF SleepsSoundly
<1>4. timer' \in Times /\ ready' \in BOOLEAN
  BY <1>1 DEF RoutingTyped
<1> QED
  BY <1>2, <1>3, <1>4, SettledSound

\* Perform ends without an event: the timer is set to what the children wait for.
LEMMA RestSound ==
  ASSUME NEW m, Sane(m, {}), RoutingTyped, m.emitted = <<>>, m.outbound = <<>>, Quiet(m), Rest(m),
         rt' = m.rt, include' = m.include, probe' = m.probe, due' = m.due,
         outbound' = m.outbound, missed' = m.missed, taken' = <<>>
  PROVE  IInv'
<1>1. /\ inbound' = m.inbound /\ net' = net /\ told' = told
      /\ ready' = (ready \/ m.inbound # <<>>)
      /\ m.inbound = <<>> => timer' = Earliest({m.due["include"], m.due["probe"]})
      /\ m.inbound # <<>> => timer' = timer
  BY DEF Rest
<1>2. /\ m.inbound \in Seq(InboundEvent) /\ Fits(m.inbound) /\ m \in MachineType
      /\ m.include \in IncludeType /\ m.probe \in ProbeType
      /\ m.due["include"] \in Times /\ m.due["probe"] \in Times
  BY DEF Sane, MachineType, Fits, Activity
<1> DEFINE d == {m.due["include"], m.due["probe"]}
<1>3. d \in SUBSET Times
  BY <1>2
<1>4. /\ Earliest(d) \in Times
      /\ Earliest(d) # NoTime => Earliest(d) \in d
      /\ \A t \in d : t # NoTime => Earliest(d) # NoTime /\ Earliest(d) <= t
  BY <1>3, EarliestIsLeast
<1>5. timer' \in Times /\ ready' \in BOOLEAN
  BY <1>1, <1>4 DEF RoutingTyped
<1>6. /\ Out(m) = ToSet(m.outbound) /\ ToSet(m.emitted) = {}
  BY ToSetEmpty DEF Out
<1>7. /\ \A n \in Node : Event("Removed", n) \in ToSet(m.outbound) => n \notin m.rt
      /\ \A n \in Node : Event("Removed", n) \notin ToSet(m.outbound)
                           => (told[n] = "added" <=> n \in m.rt)
  BY <1>6 DEF Sane, Agree
<1>8. SleepsSoundly'
  <2> SUFFICES ASSUME m.inbound = <<>> PROVE SleepsSoundly'
    BY <1>1 DEF SleepsSoundly
  <2>1. timer' = Earliest(d)
    BY <1>1
  <2> DEFINE ic == {m.include.checks[n] : n \in Node}
  <2>2. ic \in SUBSET Times /\ m.due["include"] = Earliest(ic)
    BY <1>2 DEF IncludeType, Quiet
  <2>3. /\ Earliest(ic) # NoTime => Earliest(ic) \in ic
        /\ \A t \in ic : t # NoTime => Earliest(ic) # NoTime /\ Earliest(ic) <= t
    BY <2>2, EarliestIsLeast
  <2>4. \A t \in ic : t # NoTime => t \in Nat
    <3>1. \A t \in ic : t # Past
      BY DEF Quiet
    <3> HIDE DEF ic
    <3> QED
      BY <2>2, <3>1, TimesAreInt
  <2> DEFINE pl == IF ProbeFull(m.probe) THEN {"ongoing"} ELSE {"pending", "ongoing"}
             pt == {m.probe[n].t : n \in {k \in Node : m.probe[k].list \in pl}}
  <2>5. m.due["probe"] = Earliest(pt)
    BY DEF Quiet, ProbeDue, DueTimes
  <2>6. pt \in SUBSET Times
    BY <1>2, DueTimesSound
  <2>7. /\ Earliest(pt) # NoTime => Earliest(pt) \in pt
        /\ \A t \in pt : t # NoTime => Earliest(pt) # NoTime /\ Earliest(pt) <= t
    BY <2>6, EarliestIsLeast
  <2>8. \A n \in Node : m.probe[n].list \in pl => m.probe[n].t > 0
    <3> SUFFICES ASSUME NEW n \in Node, m.probe[n].list \in pl PROVE m.probe[n].t > 0
      OBVIOUS
    <3>1. m.probe[n].t \in Int
      BY <1>2, TimesAreInt DEF ProbeType
    <3>2. CASE m.probe[n].list = "ongoing"
      BY <3>1, <3>2 DEF Quiet, Overdue, Listed
    <3>3. CASE m.probe[n].list = "pending" /\ ~ProbeFull(m.probe)
      BY <3>1, <3>3 DEF Quiet, Due, Overdue, Listed
    <3> QED
      BY <3>2, <3>3
  <2>9. \A t \in pt : t > 0
    BY <2>8
  <2>10. \A n \in Node : m.probe[n].list \in pl => m.probe[n].t \in pt
    OBVIOUS
  <2>11. \A n \in Node : m.include.checks[n] \in ic
    OBVIOUS
  <2>12. \A n \in Monitored(m.probe) :
           m.probe[n].list = "ongoing" \/ ~ProbeFull(m.probe) => n \in Node /\ m.probe[n].list \in pl
    BY DEF Monitored, Listed
  <2> HIDE DEF pt, ic, pl
  <2>13. m.due["include"] # NoTime => m.due["include"] \in Nat
    BY <2>2, <2>3, <2>4
  <2>14. m.due["probe"] # NoTime => m.due["probe"] \in Nat
    <3>1. ASSUME NEW t \in pt PROVE t \in Nat
      <4>1. t \in Int /\ t > 0
        BY <2>6, <2>9, TimesAreInt
      <4> QED
        BY <4>1
    <3> QED
      BY <2>5, <2>7, <3>1
  <2>15. timer' # NoTime => timer' \in Nat
    BY <1>4, <2>1, <2>13, <2>14
  <2>16. m.due["include"] # NoTime => timer' # NoTime /\ timer' <= m.due["include"]
    BY <1>4, <2>1
  <2>17. m.due["probe"] # NoTime => timer' # NoTime /\ timer' <= m.due["probe"]
    BY <1>4, <2>1
  <2> HIDE DEF d
  <2>18. \A n \in Checking(m.include) : timer' \in 0..Ahead(m.include.checks[n])
    <3> SUFFICES ASSUME NEW n \in Checking(m.include) PROVE timer' \in 0..Ahead(m.include.checks[n])
      OBVIOUS
    <3> DEFINE t == m.include.checks[n]
    <3>1. t \in ic /\ t # NoTime
      BY <2>11 DEF Checking
    <3> HIDE DEF t
    <3>2. t \in Nat /\ m.due["include"] # NoTime /\ m.due["include"] <= t
      BY <2>2, <2>3, <2>4, <3>1
    <3>3. timer' \in Nat /\ timer' <= t
      BY <2>13, <2>15, <2>16, <3>2
    <3>4. timer' \in 0..Ahead(t)
      BY <3>2, <3>3 DEF Ahead
    <3> QED
      BY <3>4 DEF t
  <2>19. \A n \in Monitored(m.probe) :
           m.probe[n].list = "ongoing" \/ ~ProbeFull(m.probe) => timer' \in 0..Ahead(m.probe[n].t)
    <3> SUFFICES ASSUME NEW n \in Monitored(m.probe),
                        m.probe[n].list = "ongoing" \/ ~ProbeFull(m.probe)
                 PROVE  timer' \in 0..Ahead(m.probe[n].t)
      OBVIOUS
    <3> DEFINE t == m.probe[n].t
    <3>1. t \in pt
      BY <2>10, <2>12
    <3> HIDE DEF t
    <3>2. t \in Int /\ t > 0
      BY <2>6, <2>9, <3>1, TimesAreInt
    <3>3. m.due["probe"] # NoTime /\ m.due["probe"] <= t
      BY <2>5, <2>7, <3>1, <3>2 DEF NoTime
    <3>4. timer' \in Nat /\ timer' <= t
      BY <2>14, <2>15, <2>17, <3>2, <3>3
    <3>5. timer' \in 0..Ahead(t)
      BY <3>2, <3>4 DEF Ahead
    <3> QED
      BY <3>5 DEF t
  <2>20. m.include.candidates # <<>> => IncludeFull(m.include)
    BY DEF Quiet
  <2>21. inbound' = <<>> /\ outbound' = <<>>
    BY <1>1
  <2> QED
    BY <2>18, <2>19, <2>20, <2>21 DEF SleepsSoundly
<1>9. /\ net' \in [Activity \X Node -> Int] /\ told' \in [Node -> {"none", "added", "removed"}]
  BY <1>1 DEF RoutingTyped
<1>10. inbound' \in Seq(InboundEvent) /\ Fits(inbound') /\ ToSet(m.inbound) \subseteq ToSet(inbound')
  BY <1>1, <1>2
<1>11. \A n \in Node : Event("Removed", n) \notin ToSet(m.outbound)
                        => (told'[n] = "added" <=> n \in m.rt)
  BY <1>1, <1>7
<1> QED
  BY <1>5, <1>7, <1>8, <1>9, <1>10, <1>11, SettledSound

\* The event loop drains an outbound event.
LEMMA DrainSound ==
  ASSUME IInv, Drain
  PROVE  IInv'
<1>1. /\ taken = <<>> /\ outbound # <<>> /\ outbound' = Tail(outbound)
      /\ GoOn(PopOutbound(Machine))
      /\ UNCHANGED <<rt, include, probe, due, taken, missed>>
  BY DEF Drain
<1>2. Sane(Machine, {}) /\ Machine.emitted = <<>> /\ Machine.outbound = outbound
  BY <1>1, MachineSound DEF Machine
<1>3. PICK m : m = PopOutbound(Machine)
  OBVIOUS
<1>4. Sane(m, {})
  BY <1>2, <1>3, PopOutboundSound
<1>5. /\ m.emitted # <<>> /\ m.outbound = Tail(outbound) /\ m.rt = rt /\ m.include = include
      /\ m.probe = probe /\ m.due = due /\ m.missed = missed
  <2>1. m = [Machine EXCEPT !.outbound = Tail(outbound), !.emitted = <<Head(outbound)>>]
    BY <1>1, <1>2, <1>3 DEF PopOutbound
  <2> QED
    BY <2>1 DEF Machine
<1>6. GoOn(m)
  BY <1>1, <1>3
<1>7. /\ rt' = m.rt /\ include' = m.include /\ probe' = m.probe /\ due' = m.due
      /\ outbound' = m.outbound /\ missed' = m.missed /\ taken' = <<>>
  BY <1>1, <1>5
<1> QED
  BY <1>4, <1>5, <1>6, <1>7, GoOnSound DEF IInv

\* The event loop takes an event: what was on its way still is.
LEMMA TakeSound ==
  ASSUME IInv, Take
  PROVE  IInv'
<1>1. /\ taken = <<>> /\ outbound = <<>> /\ ready' = FALSE
      /\ inbound = <<>> => taken' = <<Nothing>> /\ inbound' = inbound
      /\ inbound # <<>> => taken' = <<Head(inbound)>> /\ inbound' = Tail(inbound)
      /\ UNCHANGED <<rt, include, probe, due, outbound, timer, net, told, missed>>
  BY DEF Take, Nothing
<1>2. RoutingTyped /\ inbound \in Seq(InboundEvent) /\ Fits(inbound)
  BY DEF IInv, RoutingTyped
<1>3. /\ taken' # <<>> /\ taken' \in Seq(InboundEvent \cup {Nothing}) /\ Len(taken') <= 1
      /\ inbound' \in Seq(InboundEvent) /\ Fits(inbound')
      /\ ToSet(inbound) \subseteq ToSet(inbound') \cup ToSet(taken')
  <2>1. CASE inbound = <<>>
    <3>1. taken' = <<Nothing>> /\ inbound' = inbound
      BY <1>1, <2>1
    <3>2. Nothing \in InboundEvent \cup {Nothing}
      OBVIOUS
    <3> HIDE DEF Nothing
    <3> QED
      BY <1>2, <3>1, <3>2, OneEvent
  <2>2. CASE inbound # <<>>
    <3>1. taken' = <<Head(inbound)>> /\ inbound' = Tail(inbound)
      BY <1>1, <2>2
    <3>2. /\ Tail(inbound) \in Seq(InboundEvent) /\ Head(inbound) \in InboundEvent
          /\ ToSet(inbound) = {Head(inbound)} \cup ToSet(Tail(inbound))
          /\ Len(Tail(inbound)) = Len(inbound) - 1
      BY <1>2, <2>2, ToSetTail
    <3>3. Fits(Tail(inbound))
      <4>1. Len(inbound) \in Nat /\ Len(inbound) <= QueueCapacity /\ QueueCapacity \in Nat
        BY <1>2, LenProperties, RoutingAssumption DEF Fits
      <4> QED
        BY <3>2, <4>1 DEF Fits
    <3>4. Head(inbound) \in InboundEvent \cup {Nothing}
      BY <3>2
    <3>5. /\ <<Head(inbound)>> \in Seq(InboundEvent \cup {Nothing})
          /\ Len(<<Head(inbound)>>) <= 1 /\ <<Head(inbound)>> # <<>>
          /\ ToSet(<<Head(inbound)>>) = {Head(inbound)}
      BY <3>4, OneEvent
    <3> QED
      BY <3>1, <3>2, <3>3, <3>5
  <2> QED
    BY <2>1, <2>2
<1>4. RoutingTyped'
  BY <1>1, <1>2, <1>3 DEF RoutingTyped, Fits
<1>5. MembersMonitored'
  <2>1. ToSet(inbound' \o taken') = ToSet(inbound') \cup ToSet(taken')
    BY <1>3, ComingSound
  <2>2. ToSet(inbound \o taken) = ToSet(inbound) \cup ToSet(taken) /\ ToSet(taken) = {}
    BY <1>1, <1>2, ComingSound, ToSetEmpty DEF RoutingTyped
  <2>3. ToSet(inbound \o taken) \subseteq ToSet(inbound' \o taken')
    BY <1>3, <2>1, <2>2
  <2> QED
    BY <1>1, <2>3 DEF IInv, MembersMonitored, UpdateComing
<1>6. OnePlace' /\ MonitoredInTable' /\ ClientsAgree' /\ RemovedGone' /\ TakenAlone'
  BY <1>1 DEF IInv, OnePlace, MonitoredInTable, ClientsAgree, RemovedGone, TakenAlone
<1>7. SleepsSoundly'
  BY <1>3 DEF SleepsSoundly
<1> QED
  BY <1>4, <1>5, <1>6, <1>7 DEF IInv

\* The event loop handles what it has taken.
LEMMA HandleSound ==
  ASSUME IInv, Handle
  PROVE  IInv'
<1>1. taken # <<>> /\ taken' = <<>> /\ outbound = <<>>
  BY DEF Handle, IInv, TakenAlone
<1>2. PICK accepts \in BOOLEAN : \E p \in Performed(Machine, taken[1], accepts) :
        /\ rt' = p.rt /\ include' = p.include /\ probe' = p.probe /\ due' = p.due
        /\ outbound' = p.outbound /\ missed' = p.missed
        /\ IF p.emitted = <<>> THEN Rest(p) ELSE GoOn(p)
  BY DEF Handle
<1>3. PICK p \in Performed(Machine, taken[1], accepts) :
        /\ rt' = p.rt /\ include' = p.include /\ probe' = p.probe /\ due' = p.due
        /\ outbound' = p.outbound /\ missed' = p.missed
        /\ IF p.emitted = <<>> THEN Rest(p) ELSE GoOn(p)
  BY <1>2
<1>4. Sane(Machine, UpdateOf(taken[1])) /\ Machine.emitted = <<>> /\ Machine.outbound = <<>>
  BY <1>1, MachineSound DEF Machine
<1>5. taken[1] \in InboundEvent \cup {Nothing}
  BY <1>1, TakenSound
<1>6. Sane(p, {}) /\ (p.emitted = <<>> => p.outbound = <<>> /\ Quiet(p))
  BY <1>3, <1>4, <1>5, PerformedSound
<1>7. RoutingTyped
  BY DEF IInv
<1>8. CASE p.emitted = <<>>
  BY <1>1, <1>3, <1>6, <1>7, <1>8, RestSound
<1>9. CASE p.emitted # <<>>
  BY <1>1, <1>3, <1>6, <1>7, <1>9, GoOnSound
<1> QED
  BY <1>8, <1>9

\* An event comes in from elsewhere.
LEMMA NotifySound ==
  ASSUME IInv, NEW ev \in InboundEvent, Notify(ev),
         UNCHANGED <<rt, include, probe, due, outbound, taken, timer, told, missed>>,
         net' \in [Activity \X Node -> Int]
  PROVE  IInv'
<1>1. inbound \in Seq(InboundEvent) /\ Fits(inbound) /\ Len(inbound) <= QueueCapacity
  BY DEF IInv, RoutingTyped, Fits
<1>2. inbound' = Enqueued(inbound, ev) /\ ready' = (ready \/ Len(inbound) < QueueCapacity)
  BY DEF Notify
<1>3. /\ inbound' \in Seq(InboundEvent) /\ Fits(inbound')
      /\ ToSet(inbound) \subseteq ToSet(inbound')
  BY <1>1, <1>2, EnqueuedSound DEF Fits
<1>4. RoutingTyped'
  BY <1>2, <1>3 DEF IInv, RoutingTyped, Fits
<1>5. MembersMonitored'
  <2>1. ToSet(inbound' \o taken) = ToSet(inbound') \cup ToSet(taken)
    BY <1>3, ComingSound DEF IInv, RoutingTyped
  <2>2. ToSet(inbound \o taken) = ToSet(inbound) \cup ToSet(taken)
    BY <1>1, ComingSound DEF IInv, RoutingTyped
  <2>3. ToSet(inbound \o taken) \subseteq ToSet(inbound' \o taken')
    BY <1>3, <2>1, <2>2
  <2> QED
    BY <2>3 DEF IInv, MembersMonitored, UpdateComing
<1>6. OnePlace' /\ MonitoredInTable' /\ ClientsAgree' /\ RemovedGone' /\ TakenAlone'
  BY DEF IInv, OnePlace, MonitoredInTable, ClientsAgree, RemovedGone, TakenAlone
<1>7. SleepsSoundly'
  <2> SUFFICES ASSUME ~ready', taken' = <<>> PROVE FALSE
    BY DEF SleepsSoundly
  <2>1. ~ready /\ taken = <<>> /\ ~(Len(inbound) < QueueCapacity)
    BY <1>2
  <2>2. inbound = <<>>
    BY <2>1 DEF IInv, SleepsSoundly
  <2> QED
    BY <2>1, <2>2, RoutingAssumption
<1> QED
  BY <1>4, <1>5, <1>6, <1>7 DEF IInv

\* The ready timer fires.
LEMMA FireSound ==
  ASSUME IInv, Fire
  PROVE  IInv'
<1>1. /\ timer' = NoTime /\ ready' = TRUE
      /\ UNCHANGED <<rt, include, probe, due, inbound, outbound, taken, net, told, missed>>
  BY DEF Fire
<1>2. RoutingTyped'
  BY <1>1, TimesAreInt DEF IInv, RoutingTyped, Fits
<1>3. /\ OnePlace' /\ MonitoredInTable' /\ MembersMonitored' /\ ClientsAgree'
      /\ RemovedGone' /\ TakenAlone'
  BY <1>1 DEF IInv, OnePlace, MonitoredInTable, MembersMonitored, UpdateComing, ClientsAgree,
              RemovedGone, TakenAlone
<1> QED
  BY <1>1, <1>2, <1>3 DEF IInv, SleepsSoundly

\* Counting down keeps a time a time, and keeps it scheduled or unscheduled.
LEMMA CountDownSound ==
  ASSUME NEW t \in Times
  PROVE  /\ CountDown(t) \in Times /\ Nearing(t) \in Times
         /\ CountDown(t) = NoTime <=> t = NoTime
         /\ \A u \in 0..Ahead(t) : Nearing(u) \in 0..Ahead(CountDown(t)) /\ Nearing(u) \in 0..Ahead(Nearing(t))
<1> DEFINE top == IF CheckTimeout > CheckInterval THEN CheckTimeout ELSE CheckInterval
<1>1. top \in Nat /\ Times = (-1..top) \cup {-2}
  BY CheckAssumption, ProbeAssumption DEF Times, Time, Past, NoTime
<1> HIDE DEF top
<1>2. t \in Int
  BY <1>1
<1>3. CountDown(t) \in Times /\ Nearing(t) \in Times /\ (CountDown(t) = NoTime <=> t = NoTime)
  BY <1>1, <1>2 DEF CountDown, Nearing, Past, NoTime
<1>4. \A u \in 0..Ahead(t) : Nearing(u) \in 0..Ahead(CountDown(t)) /\ Nearing(u) \in 0..Ahead(Nearing(t))
  BY <1>2 DEF CountDown, Nearing, Ahead, Past
<1> QED
  BY <1>3, <1>4

\* A tick brings no child's deadline nearer than the timer.
LEMMA TickSound ==
  ASSUME IInv, Tick
  PROVE  IInv'
<1>1. /\ include' = IncludeElapse(include) /\ probe' = ProbeElapse(probe)
      /\ due' = [c \in DOMAIN due |-> Nearing(due[c])] /\ timer' = Nearing(timer)
      /\ UNCHANGED <<rt, inbound, outbound, taken, ready, net, told, missed>>
  BY DEF Tick
<1>2. RoutingTyped
  BY DEF IInv
<1>3. /\ include' \in IncludeType /\ include'.candidates = include.candidates
      /\ \A n \in Node : include'.checks[n] = CountDown(include.checks[n])
      /\ Checking(include') = Checking(include)
  <2> DEFINE ch == [n \in Node |-> CountDown(include.checks[n])]
  <2>1. \A n \in Node : /\ include.checks[n] \in Times /\ CountDown(include.checks[n]) \in Times
                        /\ CountDown(include.checks[n]) = NoTime <=> include.checks[n] = NoTime
    BY <1>2, CountDownSound DEF RoutingTyped, IncludeType
  <2>2. /\ ch \in [Node -> Times]
        /\ \A n \in Node : ch[n] = CountDown(include.checks[n]) /\ (ch[n] = NoTime <=> include.checks[n] = NoTime)
    BY <2>1
  <2>3. include' = [include EXCEPT !.checks = ch]
    BY <1>1 DEF IncludeElapse
  <2> HIDE DEF ch
  <2>4. /\ include' \in IncludeType /\ include'.candidates = include.candidates
        /\ include'.checks = ch
    BY <1>2, <2>2, <2>3 DEF RoutingTyped, IncludeType
  <2> QED
    BY <2>2, <2>4 DEF Checking
<1>4. /\ probe' \in ProbeType
      /\ \A n \in Node : /\ probe'[n].list = probe[n].list
                         /\ \/ probe'[n].t = Nearing(probe[n].t)
                            \/ probe'[n].t = CountDown(probe[n].t)
  <2>1. \A n \in Node : /\ probe[n].list \in {"none", "pending", "ongoing"} /\ probe[n].t \in Times
                        /\ Nearing(probe[n].t) \in Times /\ CountDown(probe[n].t) \in Times
    BY <1>2, CountDownSound DEF RoutingTyped, ProbeType
  <2>2. \A n \in Node : probe'[n] = Entry(probe[n].list, IF probe[n].list = "ongoing" THEN Nearing(probe[n].t)
                                                        ELSE CountDown(probe[n].t))
    BY <1>1 DEF ProbeElapse
  <2>3. probe' \in ProbeType
    BY <1>1, <2>1 DEF ProbeElapse, ProbeType, Entry
  <2>4. ASSUME NEW n \in Node
        PROVE  /\ probe'[n].list = probe[n].list
               /\ \/ probe'[n].t = Nearing(probe[n].t)
                  \/ probe'[n].t = CountDown(probe[n].t)
    <3> DEFINE e == probe'[n]
    <3>1. \/ e = Entry(probe[n].list, Nearing(probe[n].t))
          \/ e = Entry(probe[n].list, CountDown(probe[n].t))
      BY <2>2
    <3> HIDE DEF e
    <3>2. /\ e.list = probe[n].list
          /\ e.t = Nearing(probe[n].t) \/ e.t = CountDown(probe[n].t)
      BY <3>1 DEF Entry
    <3> QED
      BY <3>2 DEF e
  <2> QED
    BY <2>3, <2>4
<1>5. Monitored(probe') = Monitored(probe) /\ (ProbeFull(probe') <=> ProbeFull(probe))
  <2>1. \A list : Listed(probe', list) = Listed(probe, list)
    BY <1>4 DEF Listed
  <2> QED
    BY <2>1 DEF Monitored, ProbeFull
<1>6. due' \in [Activity -> Times] /\ timer' \in Times
  BY <1>1, <1>2, CountDownSound DEF RoutingTyped
<1>7. RoutingTyped'
  BY <1>1, <1>2, <1>3, <1>4, <1>6 DEF RoutingTyped, Fits
<1>8. /\ OnePlace' /\ MonitoredInTable' /\ MembersMonitored' /\ ClientsAgree'
      /\ RemovedGone' /\ TakenAlone'
  BY <1>1, <1>3, <1>5 DEF IInv, OnePlace, MonitoredInTable, MembersMonitored, UpdateComing,
                          ClientsAgree, RemovedGone, TakenAlone, Candidates
<1>9. SleepsSoundly'
  <2> SUFFICES ASSUME ~ready, taken = <<>> PROVE SleepsSoundly'
    BY <1>1 DEF SleepsSoundly
  <2>1. /\ inbound = <<>> /\ outbound = <<>>
        /\ include.candidates # <<>> => IncludeFull(include)
        /\ \A n \in Checking(include) : timer \in 0..Ahead(include.checks[n])
        /\ \A n \in Monitored(probe) :
             probe[n].list = "ongoing" \/ ~ProbeFull(probe) => timer \in 0..Ahead(probe[n].t)
    BY DEF IInv, SleepsSoundly
  <2>2. include'.candidates # <<>> => IncludeFull(include')
    BY <1>3, <2>1 DEF IncludeFull
  <2>3. \A n \in Checking(include') : timer' \in 0..Ahead(include'.checks[n])
    <3> SUFFICES ASSUME NEW n \in Checking(include) PROVE timer' \in 0..Ahead(include'.checks[n])
      BY <1>3
    <3>1. n \in Node /\ include.checks[n] \in Times /\ timer \in 0..Ahead(include.checks[n])
      BY <1>2, <2>1 DEF Checking, RoutingTyped, IncludeType
    <3>2. Nearing(timer) \in 0..Ahead(CountDown(include.checks[n]))
      BY <3>1, CountDownSound
    <3> QED
      BY <1>1, <1>3, <3>1, <3>2
  <2>4. \A n \in Monitored(probe') :
           probe'[n].list = "ongoing" \/ ~ProbeFull(probe') => timer' \in 0..Ahead(probe'[n].t)
    <3> SUFFICES ASSUME NEW n \in Monitored(probe), probe[n].list = "ongoing" \/ ~ProbeFull(probe)
                 PROVE  timer' \in 0..Ahead(probe'[n].t)
      BY <1>4, <1>5 DEF Monitored, Listed
    <3>1. n \in Node /\ probe[n].t \in Times /\ timer \in 0..Ahead(probe[n].t)
      BY <1>2, <2>1 DEF Monitored, Listed, RoutingTyped, ProbeType
    <3>2. /\ Nearing(timer) \in 0..Ahead(CountDown(probe[n].t))
          /\ Nearing(timer) \in 0..Ahead(Nearing(probe[n].t))
      BY <3>1, CountDownSound
    <3> QED
      BY <1>1, <1>4, <3>1, <3>2
  <2> QED
    BY <1>1, <2>1, <2>2, <2>3, <2>4 DEF SleepsSoundly
<1> QED
  BY <1>7, <1>8, <1>9 DEF IInv

\* The behaviour starts empty, with nothing monitored and nobody told.
LEMMA InitSound ==
  ASSUME Init
  PROVE  IInv
<1>1. /\ rt = {} /\ include = NewInclude /\ probe = NewProbe
      /\ due = [include |-> NoTime, probe |-> NoTime]
      /\ inbound = <<>> /\ outbound = <<>> /\ taken = <<>> /\ ready = TRUE /\ timer = NoTime
      /\ net = [x \in Activity \X Node |-> 0] /\ told = [n \in Node |-> "none"]
      /\ missed = {}
  BY DEF Init
<1>2. include \in IncludeType /\ Candidates(include) = {} /\ Checking(include) = {}
  BY <1>1, TimesAreInt, ToSetEmpty DEF NewInclude, IncludeType, Candidates, Checking
<1>3. probe \in ProbeType /\ Monitored(probe) = {}
  BY <1>1, TimesAreInt DEF NewProbe, ProbeType, Entry, Monitored, Listed
<1>4. RoutingTyped
  <2>1. inbound \in Seq(InboundEvent) /\ Fits(inbound)
    <3>1. Len(inbound) = 0
      BY <1>1
    <3> QED
      BY <1>1, <3>1, RoutingAssumption DEF Fits
  <2>2. outbound \in Seq(OutboundEvent)
    BY <1>1
  <2>3. taken \in Seq(InboundEvent \cup {Nothing}) /\ Len(taken) <= 1
    BY <1>1
  <2>4. net \in [Activity \X Node -> Int]
    BY <1>1
  <2>5. due \in [Activity -> Times]
    BY <1>1, TimesAreInt DEF Activity
  <2> QED
    BY <1>1, <1>2, <1>3, <2>1, <2>2, <2>3, <2>4, <2>5, TimesAreInt DEF RoutingTyped
<1>5. OnePlace
  <2>1. include.candidates = <<>>
    BY <1>1 DEF NewInclude
  <2>2. IsInjective(include.candidates)
    BY <2>1 DEF IsInjective
  <2> QED
    BY <1>1, <1>2, <2>2 DEF OnePlace
<1>6. MonitoredInTable /\ MembersMonitored /\ ClientsAgree
  BY <1>1, <1>3 DEF MonitoredInTable, MembersMonitored, ClientsAgree
<1>7. RemovedGone /\ TakenAlone /\ SleepsSoundly
  BY <1>1 DEF RemovedGone, TakenAlone, SleepsSoundly
<1> QED
  BY <1>4, <1>5, <1>6, <1>7 DEF IInv

\* Every step keeps the invariant.
LEMMA NextSound ==
  ASSUME IInv, [Next]_vars
  PROVE  IInv'
<1>1. CASE Drain
  BY <1>1, DrainSound
<1>2. CASE Take
  BY <1>2, TakeSound
<1>3. CASE Handle
  BY <1>3, HandleSound
<1>4. CASE Fire
  BY <1>4, FireSound
<1>5. CASE Tick
  BY <1>5, TickSound
<1>6. ASSUME NEW n \in Node, NEW act \in Activity, Answer(act, n)
      PROVE  IInv'
  <2>1. PICK kind \in {"IncludeOK", "IncludeFailed", "ProbeOK", "ProbeFailed"} :
          Notify(Event(kind, n))
    BY <1>6 DEF Answer
  <2>2. net' \in [Activity \X Node -> Int]
    <3>1. net \in [Activity \X Node -> Int] /\ net' = [net EXCEPT ![<<act, n>>] = @ - 1]
      BY <1>6 DEF Answer, IInv, RoutingTyped
    <3> QED
      BY <3>1
  <2>3. Event(kind, n) \in InboundEvent
    BY DEF Event, InboundEvent, EventKind
  <2>4. UNCHANGED <<rt, include, probe, due, outbound, taken, timer, told, missed>>
    BY <1>6 DEF Answer
  <2> QED
    BY <2>1, <2>2, <2>3, <2>4, NotifySound
<1>7. ASSUME NEW n \in Node, NEW kind \in News, Hear(kind, n)
      PROVE  IInv'
  <2>1. Event(kind, n) \in InboundEvent
    BY RoutingAssumption DEF Event, InboundEvent, EventKind
  <2>2. /\ Notify(Event(kind, n)) /\ net' = net
        /\ UNCHANGED <<rt, include, probe, due, outbound, taken, timer, told, missed>>
    BY <1>7 DEF Hear
  <2>3. net' \in [Activity \X Node -> Int]
    BY <2>2 DEF IInv, RoutingTyped
  <2> QED
    BY <2>1, <2>2, <2>3, NotifySound
<1>8. CASE UNCHANGED vars
  BY <1>8 DEF vars, IInv, RoutingTyped, Fits, OnePlace, MonitoredInTable, MembersMonitored, UpdateComing,
              ClientsAgree, RemovedGone, TakenAlone, SleepsSoundly
<1> QED
  BY <1>1, <1>2, <1>3, <1>4, <1>5, <1>6, <1>7, <1>8 DEF Next
-----------------------------------------------------------------------------
(* The theorems *)

\* The inductive invariant: types, the children's lists and the table, the events and
\* notifications on their way, and what the event loop sleeps on.
THEOREM Inductive == Spec => []IInv
<1>1. Init => IInv
  BY InitSound
<1>2. IInv /\ [Next]_vars => IInv'
  BY NextSound
<1> QED
  BY <1>1, <1>2, PTL DEF Spec

\* A node is at most one of a candidate, being vetted, and in the routing table, in
\* whatever order news, answers and timeouts reach the include state machine.
THEOREM NodesHaveOnePlace == Spec => []OnePlace
<1>1. IInv => OnePlace
  BY DEF IInv
<1> QED
  BY <1>1, Inductive, PTL

\* The probe's lists never hold a node that has left the table it shares with include.
THEOREM MonitoredAreMembers == Spec => []MonitoredInTable
<1>1. IInv => MonitoredInTable
  BY DEF IInv
<1> QED
  BY <1>1, Inductive, PTL

\* A node that enters the table is monitored, or will be, unless the inbound queue was
\* full when the behaviour told itself.
THEOREM MembersAreMonitored == Spec => []MembersMonitored
<1>1. IInv => MembersMonitored
  BY DEF IInv
<1> QED
  BY <1>1, Inductive, PTL

\* The routing notifications the clients receive add up to the routing table.
THEOREM ClientsHearOfTheTable == Spec => []ClientsAgree
<1>1. IInv => ClientsAgree
  BY DEF IInv
<1> QED
  BY <1>1, Inductive, PTL

\* When updateReadyStatus lets the event loop sleep, nothing is left to do now, and the
\* ready timer fires no later than the first deadline of a child.
THEOREM SleepIsSound == Spec => []SleepsSoundly
<1>1. IInv => SleepsSoundly
  BY DEF IInv
<1> QED
  BY <1>1, Inductive, PTL
=============================================================================
