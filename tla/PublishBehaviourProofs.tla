----------------------- MODULE PublishBehaviourProofs -----------------------
(***************************************************************************)
(* Proofs about PublishBehaviour, for any keyspace, any set of keys        *)
(* provided and all capacities: what it is doing, and the prefix table     *)
(* that its surveys split and merge.                                       *)
(***************************************************************************)
EXTENDS PublishBehaviour, FiniteSetTheorems, SequenceTheorems,
        WellFoundedInduction, TLAPS

\* A function with its domain.
Maps(f) == f = [x \in DOMAIN f |-> f[x]]

\* IsPrefix, position by position.
Starts(p, q) == Len(p) <= Len(q) /\ \A i \in 1..Len(p) : p[i] = q[i]

\* Every one of the keys is under one of the prefixes and no other.
Tiles(ps, keys) ==
  /\ ps \subseteq Prefix
  /\ \A k \in keys : \E p \in ps : Starts(p, k) /\ \A q \in ps : Starts(q, k) => q = p

Populated(t) ==
  \A p \in DOMAIN t : /\ t[p] \in Int
                      /\ Len(p) < BitLen => t[p] <= MaxPopulation \/ t[p] <= 2 * MinPopulation

\* The regions of a table tile the keyspace and are not too large.
TableSound(t) == Maps(t) /\ Tiles(DOMAIN t, Key) /\ Populated(t)

\* The fields of the survey.
IsSurvey(s) ==
  s = [table |-> s.table, seeded |-> s.seeded, sched |-> s.sched, late |-> s.late,
       running |-> s.running, region |-> s.region, sent |-> s.sent, expired |-> s.expired]

\* The survey has a sound table, and once seeded every region of it has its due time.
SurveySound(s) ==
  /\ IsSurvey(s)
  /\ TableSound(s.table)
  /\ s.seeded => DOMAIN s.sched = DOMAIN s.table

\* The fields of the behaviour while it performs.
IsMachine(m) ==
  m = [survey |-> m.survey, regions |-> m.regions, children |-> m.children, pool |-> m.pool,
       due |-> m.due, inbound |-> m.inbound, outbound |-> m.outbound,
       pollAgain |-> m.pollAgain, emitted |-> m.emitted]

IsRegion(rp) ==
  /\ rp = [nodes |-> rp.nodes, cursor |-> rp.cursor, inflight |-> rp.inflight]
  /\ rp.cursor \in Nat

IsStatic(b) == b = [todo |-> b.todo, waiting |-> b.waiting]

\* What is in a sequence.
Items(s) == {s[i] : i \in 1..Len(s)}

\* The region publish rp of p has a key to start or waits for one, and what it waits for are
\* publishes of its own.
RegionSound(rp, p, started) ==
  /\ IsRegion(rp)
  /\ rp.cursor < Cardinality(KeysUnder(p)) \/ rp.inflight # {}
  /\ rp.inflight \subseteq started /\ \A c \in rp.inflight : c[1] = p

\* Every node that a publish of the pool waits for has its request among those.
Awaited(m, requests) ==
  \A c \in DOMAIN m.pool : \A n \in m.pool[c].waiting : Event("Store", c, n) \in requests

\* The behaviour is sound while it performs, with these requests in flight.
Sound(m, inFlight) ==
  /\ IsMachine(m) /\ SurveySound(m.survey)
  /\ Maps(m.regions) /\ \A p \in DOMAIN m.regions : RegionSound(m.regions[p], p, m.children)
  /\ Maps(m.pool) /\ \A c \in DOMAIN m.pool : IsStatic(m.pool[c])
  /\ m.children = DOMAIN m.pool
  /\ m.inbound \in Seq(Items(m.inbound))
  /\ Awaited(m, inFlight \cup Items(m.inbound) \cup m.emitted)
  /\ \A ev \in m.emitted : m.emitted = {ev} /\ ev.kind \in {"Notice", "Find", "Store"}

\* No region publish has been left between two of its keys.
Busy(m) == \A p \in DOMAIN m.regions : m.regions[p].cursor > 0 => m.regions[p].inflight # {}

\* The survey that runs has said until when.
Dated(m) == m.survey.running => m.due

\* Nothing is left to do.
Quiet(m) == Busy(m) /\ \A c \in DOMAIN m.pool : m.pool[c].todo = {}

\* The store requests that are in flight, and those whose answer was dropped.
Unanswered == BagToSet(stores) \cup lost

\* The inductive invariant.
IInv ==
  /\ IsABag(stores)
  /\ Sound(Machine, Unanswered)
  /\ ~ready => Quiet(Machine) /\ (survey.running => timer)
-----------------------------------------------------------------------------
(* Sequences, bags and functions *)

\* A sequence joined by an element.
LEMMA Appended ==
  ASSUME NEW s, s \in Seq(Items(s)), NEW e, NEW t, t = Append(s, e)
  PROVE  t \in Seq(Items(t)) /\ Items(t) = Items(s) \cup {e}
<1>1. s \in Seq(Items(s) \cup {e})
  OBVIOUS
<1>2. /\ Len(s) \in Nat /\ t \in Seq(Items(s) \cup {e}) /\ Len(t) = Len(s) + 1
      /\ t[Len(s) + 1] = e /\ \A i \in 1..Len(s) : t[i] = s[i]
  BY <1>1
<1>3. Items(t) = Items(s) \cup {e}
  <2>1. 1..Len(t) = 1..Len(s) \cup {Len(s) + 1}
    BY <1>2
  <2> QED
    BY <1>2, <2>1 DEF Items
<1> QED
  BY <1>2, <1>3

\* A sequence without its head.
LEMMA Dropped ==
  ASSUME NEW s, s \in Seq(Items(s)), s # <<>>, NEW t, t = Tail(s)
  PROVE  t \in Seq(Items(t)) /\ Items(s) \subseteq Items(t) \cup {Head(s)}
<1>1. Len(s) \in Nat /\ Len(s) # 0
  BY EmptySeq, LenProperties
<1>2. /\ t \in Seq(Items(s)) /\ Len(t) = Len(s) - 1 /\ \A i \in 1..Len(t) : t[i] = s[i + 1]
      /\ Head(s) = s[1]
  BY HeadTailProperties
<1>3. t \in Seq(Items(t))
  <2>1. \A i \in 1..Len(t) : t[i] \in Items(t)
    BY DEF Items
  <2>2. Len(t) \in Nat /\ DOMAIN t = 1..Len(t) /\ t \in [1..Len(t) -> Items(s)]
    BY <1>2, LenProperties
  <2>3. t \in [1..Len(t) -> Items(t)]
    BY <2>1, <2>2
  <2>4. Seq(Items(t)) = UNION {[1..n -> Items(t)] : n \in Nat}
    BY SeqDef
  <2>5. t \in UNION {[1..n -> Items(t)] : n \in Nat}
    BY <2>2, <2>3, Zenon
  <2> QED
    BY <2>4, <2>5, Zenon
<1>4. ASSUME NEW e \in Items(s) PROVE e \in Items(t) \cup {Head(s)}
  <2>1. PICK i \in 1..Len(s) : e = s[i]
    BY DEF Items
  <2>2. CASE i = 1
    BY <1>2, <2>1, <2>2
  <2>3. CASE i # 1
    <3>1. i - 1 \in 1..Len(t) /\ (i - 1) + 1 = i
      BY <1>1, <1>2, <2>3
    <3> QED
      BY <1>2, <2>1, <3>1 DEF Items
  <2> QED
    BY <2>2, <2>3
<1> QED
  BY <1>3, <1>4

\* A bag joined by an element.
LEMMA BagJoins ==
  ASSUME NEW B, IsABag(B), NEW e, NEW C, C = B (+) SetToBag({e})
  PROVE  IsABag(C) /\ BagToSet(C) = BagToSet(B) \cup {e}
BY DEF IsABag, SetToBag, BagToSet, (+)

\* A bag left by an element.
LEMMA BagLeaves ==
  ASSUME NEW B, IsABag(B), NEW e, NEW C, C = B (-) SetToBag({e})
  PROVE  IsABag(C) /\ BagToSet(B) \subseteq BagToSet(C) \cup {e}
BY DEF IsABag, SetToBag, BagToSet, (-)

\* A set of natural numbers has a least element, as the order is well-founded.
LEMMA LeastNat ==
  ASSUME NEW S \in SUBSET Nat, S # {}
  PROVE  \E n \in S : \A m \in S : n <= m
<1> DEFINE R == OpToRel(<, Nat)
<1>1. IsWellFoundedOn(R, Nat)
  BY NatLessThanWellFounded
<1>2. \A x, y \in Nat : x < y => <<x, y>> \in R
  BY DEF OpToRel
<1> HIDE DEF R
<1>3. PICK n \in S : \A m \in S : ~ (<<m, n>> \in R)
  BY <1>1, WFMin
<1>4. \A m \in S : ~(m < n)
  BY <1>2, <1>3
<1> QED
  BY <1>4

\* There are finitely many keys, as many as sets of their bits.
LEMMA KeysFinite == IsFiniteSet(Key)
<1> DEFINE Bits == 1..BitLen
           f == [k \in Key |-> {i \in Bits : k[i] = 1}]
<1>1. IsFiniteSet(Bits)
  <2>1. 1 \in Int /\ BitLen \in Int
    BY PrefixTableAssumption
  <2> QED
    BY <2>1, FS_Interval
<1>2. Key = [Bits -> {0, 1}]
  BY DEF Key
<1>3. f \in [Key -> SUBSET Bits] /\ \A k \in Key : f[k] = {i \in Bits : k[i] = 1}
  OBVIOUS
<1> HIDE DEF Bits, f
<1>4. ASSUME NEW k \in Key, NEW l \in Key, f[k] = f[l] PROVE k = l
  <2>1. k \in [Bits -> {0, 1}] /\ l \in [Bits -> {0, 1}]
    BY <1>2
  <2>2. \A i \in Bits : k[i] = 1 <=> l[i] = 1
    BY <1>3, <1>4
  <2>3. \A i \in Bits : k[i] = l[i]
    BY <2>1, <2>2
  <2> QED
    BY <2>1, <2>3
<1>5. f \in Injection(Key, SUBSET Bits)
  BY <1>3, <1>4 DEF Injection, IsInjective
<1>6. IsFiniteSet(SUBSET Bits)
  BY <1>1, FS_SUBSET
<1> QED
  BY <1>5, <1>6, FS_Injection

\* A region whose keys are to be published has one to start.
LEMMA KeysCounted ==
  ASSUME NEW p
  PROVE  /\ Cardinality(KeysUnder(p)) \in Nat
         /\ KeysUnder(p) # {} => Cardinality(KeysUnder(p)) > 0
<1>1. KeysUnder(p) \subseteq Key
  BY PublishBehaviourAssumption DEF KeysUnder, Under
<1>2. IsFiniteSet(KeysUnder(p))
  BY <1>1, KeysFinite, FS_Subset
<1>3. Cardinality(KeysUnder(p)) \in Nat
  BY <1>2, FS_CardinalityType
<1>4. Cardinality(KeysUnder(p)) = 0 <=> KeysUnder(p) = {}
  BY <1>2, FS_EmptySet
<1> QED
  BY <1>3, <1>4
-----------------------------------------------------------------------------
(* Prefixes *)

\* A prefix is a sequence of bits that is no longer than a key.
LEMMA PrefixBits ==
  ASSUME NEW p
  PROVE  p \in Prefix <=> p \in Seq({0, 1}) /\ Len(p) <= BitLen
<1>1. BitLen \in Nat
  BY PrefixTableAssumption
<1>2. Prefix = UNION {[1..m -> {0, 1}] : m \in 0..BitLen}
  BY DEF Prefix, SeqOf
<1>3. ASSUME p \in Prefix PROVE p \in Seq({0, 1}) /\ Len(p) <= BitLen
  <2>1. PICK m \in 0..BitLen : p \in [1..m -> {0, 1}]
    BY <1>2, <1>3
  <2>2. m \in Nat /\ m <= BitLen
    BY <1>1
  <2> QED
    BY <2>1, <2>2
<1>4. ASSUME p \in Seq({0, 1}), Len(p) <= BitLen PROVE p \in Prefix
  <2>1. Len(p) \in Nat /\ p \in [1..Len(p) -> {0, 1}]
    BY <1>4, LenProperties
  <2>2. Len(p) \in 0..BitLen
    BY <1>1, <1>4, <2>1
  <2> QED
    BY <1>2, <2>1, <2>2
<1> QED
  BY <1>3, <1>4

\* A key is a prefix of full length.
LEMMA KeyIsPrefix ==
  ASSUME NEW k \in Key
  PROVE  k \in Prefix /\ Len(k) = BitLen
<1>1. BitLen \in Nat /\ k \in [1..BitLen -> {0, 1}]
  BY PrefixTableAssumption DEF Key
<1>2. k \in Seq({0, 1}) /\ Len(k) = BitLen
  BY <1>1
<1> QED
  BY <1>1, <1>2, PrefixBits

\* The positions of a prefix.
LEMMA PrefixPositions ==
  ASSUME NEW p \in Prefix
  PROVE  /\ p \in Seq({0, 1}) /\ Len(p) \in Nat /\ Len(p) <= BitLen
         /\ DOMAIN p = 1..Len(p) /\ \A i \in 1..Len(p) : p[i] \in {0, 1}
<1>1. p \in Seq({0, 1}) /\ Len(p) <= BitLen
  BY PrefixBits
<1> QED
  BY <1>1, LenProperties

\* IsPrefix, position by position.
LEMMA StartsIsPrefix ==
  ASSUME NEW p \in Prefix, NEW q \in Prefix
  PROVE  IsPrefix(p, q) <=> Starts(p, q)
<1>1. /\ p \in Seq({0, 1}) /\ q \in Seq({0, 1}) /\ Len(p) \in Nat /\ Len(q) \in Nat
  BY PrefixPositions
<1>2. ASSUME Len(p) <= Len(q)
      PROVE  SubSeq(p, 1, Len(p)) = SubSeq(q, 1, Len(p)) <=> \A i \in 1..Len(p) : p[i] = q[i]
  <2>1. /\ SubSeq(p, 1, Len(p)) = [i \in 1..Len(p) |-> p[i]]
        /\ SubSeq(q, 1, Len(p)) = [i \in 1..Len(p) |-> q[i]]
    BY <1>1, <1>2
  <2> QED
    BY <2>1
<1> QED
  BY <1>2 DEF IsPrefix, Starts

\* Two prefixes of the same length that agree are the same.
LEMMA SamePrefix ==
  ASSUME NEW p \in Prefix, NEW q \in Prefix, Len(p) = Len(q), \A i \in 1..Len(p) : p[i] = q[i]
  PROVE  p = q
BY PrefixPositions, SeqEqual

\* The first bits of a prefix.
LEMMA Cuts ==
  ASSUME NEW k \in Prefix, NEW n \in 0..Len(k), NEW p, p = SubSeq(k, 1, n)
  PROVE  p \in Prefix /\ Len(p) = n /\ \A i \in 1..n : p[i] = k[i]
<1>1. k \in Seq({0, 1}) /\ Len(k) \in Nat /\ Len(k) <= BitLen /\ n \in Nat /\ n <= Len(k) /\ BitLen \in Nat
  BY PrefixPositions, PrefixTableAssumption
<1>2. p \in Seq({0, 1}) /\ Len(p) = n /\ \A i \in 1..n : p[i] = k[i]
  BY <1>1
<1>3. Len(p) <= BitLen
  BY <1>1, <1>2
<1> QED
  BY <1>2, <1>3, PrefixBits

\* A prefix of a prefix.
LEMMA StartsTransitive ==
  ASSUME NEW p \in Prefix, NEW q \in Prefix, NEW r \in Prefix, Starts(p, q), Starts(q, r)
  PROVE  Starts(p, r)
<1>1. Len(p) \in Nat /\ Len(q) \in Nat /\ Len(r) \in Nat
  BY PrefixPositions
<1> QED
  BY <1>1 DEF Starts

\* Of two prefixes of the same one the shorter is a prefix of the other.
LEMMA StartsLinear ==
  ASSUME NEW p \in Prefix, NEW q \in Prefix, NEW r \in Prefix, Starts(p, r), Starts(q, r),
         Len(p) <= Len(q)
  PROVE  Starts(p, q)
<1>1. Len(p) \in Nat /\ Len(q) \in Nat /\ Len(r) \in Nat
  BY PrefixPositions
<1> QED
  BY <1>1 DEF Starts
-----------------------------------------------------------------------------
(* The prefix table *)

\* The table before any survey.
LEMMA NewTableSound == TableSound(NewTable)
<1>1. BitLen \in Nat /\ InitialPrefixLen \in Nat /\ InitialPrefixLen <= BitLen
  BY PrefixTableAssumption
<1>2. PICK t : t = NewTable
  OBVIOUS
<1>3. /\ DOMAIN t = [1..InitialPrefixLen -> {0, 1}] /\ Maps(t)
      /\ \A p \in DOMAIN t : t[p] = Unsurveyed
  BY <1>2 DEF NewTable, Maps
<1>4. ASSUME NEW p \in DOMAIN t PROVE p \in Prefix /\ Len(p) = InitialPrefixLen
  <2>1. p \in Seq({0, 1}) /\ Len(p) = InitialPrefixLen
    BY <1>1, <1>3
  <2> QED
    BY <1>1, <2>1, PrefixBits
<1>5. ASSUME NEW k \in Key
      PROVE  \E p \in DOMAIN t : Starts(p, k) /\ \A q \in DOMAIN t : Starts(q, k) => q = p
  <2>1. k \in Prefix /\ Len(k) = BitLen
    BY KeyIsPrefix
  <2>2. PICK p : p = SubSeq(k, 1, InitialPrefixLen)
    OBVIOUS
  <2>3. p \in Prefix /\ Len(p) = InitialPrefixLen /\ \A i \in 1..InitialPrefixLen : p[i] = k[i]
    <3>1. InitialPrefixLen \in 0..Len(k)
      BY <1>1, <2>1
    <3> QED
      BY <2>1, <2>2, <3>1, Cuts
  <2>4. p \in DOMAIN t
    BY <1>3, <2>3, PrefixPositions
  <2>5. Starts(p, k)
    BY <1>1, <2>1, <2>3 DEF Starts
  <2>6. ASSUME NEW q \in DOMAIN t, Starts(q, k) PROVE q = p
    BY <1>4, <2>3, <2>6, SamePrefix DEF Starts
  <2> QED
    BY <2>4, <2>5, <2>6
<1>6. Tiles(DOMAIN t, Key)
  BY <1>4, <1>5 DEF Tiles
<1>7. Populated(t)
  BY <1>3, PrefixTableAssumption DEF Populated, Unsurveyed
<1> QED
  BY <1>2, <1>3, <1>6, <1>7 DEF TableSound

\* The number of members under a prefix.
Pop(q, members) == Cardinality(Under(q, members))

Small(q, members) == Pop(q, members) <= MaxPopulation \/ Len(q) = BitLen

\* The population of a set of keys is a number.
LEMMA PopType ==
  ASSUME NEW members \in SUBSET Key, NEW q
  PROVE  Pop(q, members) \in Nat
<1>1. Under(q, members) \subseteq Key
  BY DEF Under
<1>2. IsFiniteSet(Under(q, members))
  BY <1>1, KeysFinite, FS_Subset
<1> QED
  BY <1>2, FS_CardinalityType DEF Pop

\* What buildLeaf leaves of a region.
LEMMA LeafDefined ==
  ASSUME NEW p \in Prefix, NEW members, NEW new, new = BuildLeaf(p, members)
  PROVE  /\ Maps(new)
         /\ \A q : q \in DOMAIN new <=>
              /\ q \in Prefix /\ Starts(p, q) /\ Small(q, members)
              /\ \A r \in Prefix : Starts(p, r) /\ Starts(r, q) /\ r # q => ~Small(r, members)
         /\ \A q \in DOMAIN new : new[q] = Pop(q, members)
<1> DEFINE leaves == {q \in Prefix :
             /\ IsPrefix(p, q) /\ Small(q, members)
             /\ \A r \in Prefix : IsPrefix(p, r) /\ IsStrictPrefix(r, q) => ~Small(r, members)}
<1>1. new = [q \in leaves |-> Pop(q, members)]
  BY DEF BuildLeaf, Small, Pop
<1>2. ASSUME NEW q \in Prefix
      PROVE  q \in leaves <=>
               /\ Starts(p, q) /\ Small(q, members)
               /\ \A r \in Prefix : Starts(p, r) /\ Starts(r, q) /\ r # q => ~Small(r, members)
  BY StartsIsPrefix DEF IsStrictPrefix
<1>3. leaves \subseteq Prefix
  OBVIOUS
<1> HIDE DEF leaves
<1> QED
  BY <1>1, <1>2, <1>3 DEF Maps

\* The parts of a region tile it.
LEMMA LeavesTile ==
  ASSUME NEW p \in Prefix, NEW members \in SUBSET Key, NEW new, new = BuildLeaf(p, members),
         NEW k \in Key, Starts(p, k)
  PROVE  \E q \in DOMAIN new : Starts(q, k) /\ \A r \in DOMAIN new : Starts(r, k) => r = q
<1>1. k \in Prefix /\ Len(k) = BitLen /\ BitLen \in Nat
  BY KeyIsPrefix, PrefixTableAssumption
<1>2. Len(p) \in Nat /\ Len(p) <= BitLen
  BY PrefixPositions
<1> DEFINE S == {n \in Nat : Len(p) <= n /\ n <= BitLen /\ Small(SubSeq(k, 1, n), members)}
<1>3. BitLen \in S
  <2>1. Len(SubSeq(k, 1, BitLen)) = BitLen
    BY <1>1, Cuts
  <2> QED
    BY <1>1, <1>2, <2>1 DEF Small
<1>4. PICK n \in S : \A m \in S : n <= m
  <2>1. S \in SUBSET Nat /\ S # {}
    BY <1>3
  <2> HIDE DEF S
  <2> QED
    BY <2>1, LeastNat
<1>5. n \in Nat /\ Len(p) <= n /\ n <= BitLen
  OBVIOUS
<1>6. PICK q : q = SubSeq(k, 1, n)
  OBVIOUS
<1>7. q \in Prefix /\ Len(q) = n /\ (\A i \in 1..n : q[i] = k[i]) /\ Small(q, members)
  <2>1. n \in 0..Len(k)
    BY <1>1, <1>5
  <2>2. Small(q, members)
    BY <1>6
  <2> QED
    BY <1>1, <1>6, <2>1, <2>2, Cuts
<1>8. Starts(q, k)
  BY <1>1, <1>5, <1>7 DEF Starts
<1>9. Starts(p, q)
  BY <1>1, <1>5, <1>7, <1>8, StartsLinear
<1>10. ASSUME NEW r \in Prefix, Starts(p, r), Starts(r, q), r # q PROVE ~Small(r, members)
  <2>1. Starts(r, k) /\ Len(r) \in Nat
    BY <1>1, <1>7, <1>8, <1>10, StartsTransitive, PrefixPositions
  <2>2. Len(r) # n
    BY <1>7, <1>10, SamePrefix DEF Starts
  <2>3. Len(r) < n /\ Len(p) <= Len(r)
    BY <1>5, <1>7, <1>10, <2>1, <2>2 DEF Starts
  <2>4. r = SubSeq(k, 1, Len(r))
    <3>1. PICK c : c = SubSeq(k, 1, Len(r))
      OBVIOUS
    <3>2. Len(r) \in 0..Len(k)
      BY <1>1, <1>5, <2>1, <2>3
    <3>3. c \in Prefix /\ Len(c) = Len(r) /\ \A i \in 1..Len(r) : c[i] = k[i]
      BY <1>1, <3>1, <3>2, Cuts
    <3>4. r = c
      BY <2>1, <3>3, SamePrefix DEF Starts
    <3> QED
      BY <3>1, <3>4
  <2>5. Len(r) \notin S
    BY <1>4, <1>5, <2>1, <2>3
  <2>6. Len(p) <= Len(r) /\ Len(r) <= BitLen
    BY <1>1, <1>5, <2>1, <2>3
  <2>7. ~Small(SubSeq(k, 1, Len(r)), members)
    BY <2>1, <2>5, <2>6
  <2> QED
    BY <2>4, <2>7, Zenon
<1>11. q \in DOMAIN new
  BY <1>7, <1>9, <1>10, LeafDefined
<1>12. ASSUME NEW r \in DOMAIN new, Starts(r, k) PROVE r = q
  <2>1. /\ r \in Prefix /\ Starts(p, r) /\ Small(r, members)
        /\ \A l \in Prefix : Starts(p, l) /\ Starts(l, r) /\ l # r => ~Small(l, members)
    BY LeafDefined
  <2>2. Len(r) \in Nat
    BY <2>1, PrefixPositions
  <2>3. CASE Len(r) <= Len(q)
    <3>1. Starts(r, q)
      BY <1>1, <1>7, <1>8, <1>12, <2>1, <2>3, StartsLinear
    <3> QED
      BY <1>10, <2>1, <3>1
  <2>4. CASE Len(q) <= Len(r)
    <3>1. Starts(q, r)
      BY <1>1, <1>7, <1>8, <1>12, <2>1, <2>4, StartsLinear
    <3> QED
      BY <1>7, <1>9, <2>1, <3>1
  <2> QED
    BY <1>5, <1>7, <2>2, <2>3, <2>4
<1> QED
  BY <1>8, <1>11, <1>12

\* A region that takes on its members, split or not.
LEMMA RegrownSound ==
  ASSUME NEW t, TableSound(t), NEW p \in DOMAIN t, NEW members \in SUBSET Key,
         NEW u, u = Regrown(t, p, members)
  PROVE  TableSound(u)
<1>1. /\ Maps(t) /\ DOMAIN t \subseteq Prefix /\ Populated(t)
      /\ \A k \in Key : \E q \in DOMAIN t : Starts(q, k) /\ \A r \in DOMAIN t : Starts(r, k) => r = q
  BY DEF TableSound, Tiles
<1>2. PICK new : new = BuildLeaf(p, members)
  OBVIOUS
<1>3. /\ \A q \in DOMAIN new : q \in Prefix /\ Starts(p, q) /\ Small(q, members) /\ new[q] = Pop(q, members)
  BY <1>1, <1>2, LeafDefined
<1>4. u = [q \in (DOMAIN t \ {p}) \cup DOMAIN new |-> IF q \in DOMAIN t \ {p} THEN t[q] ELSE new[q]]
  BY <1>2 DEF Regrown
<1>5. DOMAIN u = (DOMAIN t \ {p}) \cup DOMAIN new
  BY <1>4
<1>6. ASSUME NEW k \in Key
      PROVE  \E q \in DOMAIN u : Starts(q, k) /\ \A r \in DOMAIN u : Starts(r, k) => r = q
  <2>1. PICK q \in DOMAIN t : Starts(q, k) /\ \A r \in DOMAIN t : Starts(r, k) => r = q
    BY <1>1
  <2>2. k \in Prefix
    BY KeyIsPrefix
  <2>3. ASSUME NEW r \in DOMAIN new, Starts(r, k) PROVE Starts(p, k)
    BY <1>1, <1>3, <2>2, <2>3, StartsTransitive
  <2>4. CASE Starts(p, k)
    <3>1. PICK l \in DOMAIN new : Starts(l, k) /\ \A r \in DOMAIN new : Starts(r, k) => r = l
      BY <1>1, <1>2, <2>4, LeavesTile
    <3>2. \A r \in DOMAIN t : Starts(r, k) => r = p
      BY <2>1, <2>4
    <3> QED
      BY <1>5, <3>1, <3>2
  <2>5. CASE ~Starts(p, k)
    BY <1>5, <2>1, <2>3, <2>5
  <2> QED
    BY <2>4, <2>5
<1>7. Tiles(DOMAIN u, Key)
  BY <1>1, <1>3, <1>5, <1>6 DEF Tiles
<1>8. Populated(u)
  <2>1. ASSUME NEW q \in DOMAIN new
        PROVE  new[q] \in Int /\ (Len(q) < BitLen => new[q] <= MaxPopulation)
    <3>1. Pop(q, members) \in Nat /\ Len(q) \in Nat /\ BitLen \in Nat
      BY <1>3, PopType, PrefixPositions, PrefixTableAssumption
    <3> QED
      BY <1>3, <3>1 DEF Small
  <2> QED
    BY <1>1, <1>4, <1>5, <2>1 DEF Populated
<1>9. Maps(u)
  BY <1>4 DEF Maps
<1> QED
  BY <1>7, <1>8, <1>9 DEF TableSound

\* A merge of a region with its sibling.
LEMMA MergeAtSound ==
  ASSUME NEW t, TableSound(t), NEW p, p # <<>>, NEW u, u = MergeAt(t, p)
  PROVE  TableSound(u)
<1>1. CASE u = t
  BY <1>1
<1>2. CASE u # t
  <2>1. /\ Maps(t) /\ DOMAIN t \subseteq Prefix /\ Populated(t)
        /\ \A k \in Key : \E q \in DOMAIN t : Starts(q, k) /\ \A r \in DOMAIN t : Starts(r, k) => r = q
    BY DEF TableSound, Tiles
  <2>2. PICK s : s = Sibling(p)
    OBVIOUS
  <2>3. PICK f : f = Front(p)
    OBVIOUS
  <2>4. /\ SparseSurveyedLeaf(t, p) /\ SparseSurveyedLeaf(t, s)
        /\ u = [q \in (DOMAIN t \ {p, s}) \cup {f} |-> IF q = f THEN t[p] + t[s] ELSE t[q]]
    BY <1>2, <2>2, <2>3 DEF MergeAt
  <2>5. p \in DOMAIN t /\ s \in DOMAIN t /\ t[p] \in 0..MinPopulation /\ t[s] \in 0..MinPopulation
    BY <2>4 DEF SparseSurveyedLeaf
  <2>6. PICK n : n = Len(p)
    OBVIOUS
  <2>7. p \in Prefix /\ s \in Prefix /\ p \in Seq({0, 1}) /\ n \in Nat /\ n >= 1 /\ n <= BitLen /\ BitLen \in Nat
    BY <2>1, <2>5, <2>6, PrefixPositions, PrefixTableAssumption, EmptySeq
  <2>8. Len(s) = n /\ s[n] = 1 - p[n] /\ \A i \in 1..(n - 1) : s[i] = p[i]
    BY <2>2, <2>6, <2>7 DEF Sibling
  <2>9. f \in Prefix /\ Len(f) = n - 1 /\ \A i \in 1..(n - 1) : f[i] = p[i]
    <3>1. n - 1 \in 0..Len(p)
      BY <2>6, <2>7
    <3>2. f = SubSeq(p, 1, n - 1)
      BY <2>3, <2>6 DEF Front
    <3> QED
      BY <2>7, <3>1, <3>2, Cuts
  <2>10. ASSUME NEW k \in Key PROVE Starts(f, k) <=> Starts(p, k) \/ Starts(s, k)
    <3>1. k \in Prefix /\ Len(k) = BitLen
      BY KeyIsPrefix
    <3>2. n \in 1..Len(p) /\ n \in 1..Len(k)
      BY <2>6, <2>7, <3>1
    <3>3. p[n] \in {0, 1} /\ k[n] \in {0, 1}
      BY <2>7, <3>1, <3>2, PrefixPositions
    <3>4. \A i \in 1..n : i \in 1..(n - 1) \/ i = n
      BY <2>7
    <3>5. Starts(f, k) <=> \A i \in 1..(n - 1) : k[i] = p[i]
      BY <2>7, <2>9, <3>1 DEF Starts
    <3>6. Starts(p, k) <=> k[n] = p[n] /\ \A i \in 1..(n - 1) : k[i] = p[i]
      BY <2>6, <2>7, <3>1, <3>4 DEF Starts
    <3>7. Starts(s, k) <=> k[n] = 1 - p[n] /\ \A i \in 1..(n - 1) : k[i] = p[i]
      BY <2>7, <2>8, <3>1, <3>4 DEF Starts
    <3> QED
      BY <3>3, <3>5, <3>6, <3>7
  <2>11. DOMAIN u = (DOMAIN t \ {p, s}) \cup {f}
    BY <2>4
  <2>12. ASSUME NEW k \in Key
         PROVE  \E q \in DOMAIN u : Starts(q, k) /\ \A r \in DOMAIN u : Starts(r, k) => r = q
    <3>1. PICK q \in DOMAIN t : Starts(q, k) /\ \A r \in DOMAIN t : Starts(r, k) => r = q
      BY <2>1
    <3>2. CASE Starts(f, k)
      <4>1. q \in {p, s}
        BY <2>5, <2>10, <3>1, <3>2
      <4>2. \A r \in DOMAIN u : Starts(r, k) => r = f
        BY <2>11, <3>1, <4>1
      <4> QED
        BY <2>11, <3>2, <4>2
    <3>3. CASE ~Starts(f, k)
      <4>1. q \notin {p, s}
        BY <2>10, <3>1, <3>3
      <4> QED
        BY <2>11, <3>1, <3>3, <4>1
    <3> QED
      BY <3>2, <3>3
  <2>13. Tiles(DOMAIN u, Key)
    BY <2>1, <2>9, <2>11, <2>12 DEF Tiles
  <2>14. Populated(u)
    <3>1. t[p] + t[s] \in Int /\ t[p] + t[s] <= 2 * MinPopulation
      BY <2>5, PrefixTableAssumption
    <3> QED
      BY <2>1, <2>4, <2>11, <3>1 DEF Populated
  <2>15. Maps(u)
    BY <2>4 DEF Maps
  <2> QED
    BY <2>13, <2>14, <2>15 DEF TableSound
<1> QED
  BY <1>1, <1>2

\* f is the table after each of the merges of p, up to the n-th.
MergesTo(f, n, t, p) ==
  f = [i \in 0..n |-> IF i = 0 THEN t ELSE MergeAt(f[i - 1], SubSeq(p, 1, Len(p) + 1 - i))]

\* There is such a function for every number of merges.
LEMMA MergesDefined ==
  ASSUME NEW t, NEW p, NEW n \in Nat
  PROVE  \E f : MergesTo(f, n, t, p)
<1> DEFINE S == {i \in Nat : ~ \E f : MergesTo(f, i, t, p)}
<1> SUFFICES ASSUME S # {} PROVE FALSE
  OBVIOUS
<1>1. S \in SUBSET Nat
  OBVIOUS
<1>2. PICK l \in S : \A i \in S : l <= i
  BY <1>1, LeastNat
<1>3. l \in Nat /\ ~ \E f : MergesTo(f, l, t, p)
  OBVIOUS
<1>4. CASE l = 0
  <2> DEFINE f == [i \in 0..0 |-> t]
  <2>1. f = [i \in 0..0 |-> IF i = 0 THEN t ELSE MergeAt(f[i - 1], SubSeq(p, 1, Len(p) + 1 - i))]
    <3>1. \A i \in 0..0 : i = 0
      OBVIOUS
    <3> QED
      BY <3>1
  <2>2. MergesTo(f, 0, t, p)
    BY <2>1 DEF MergesTo
  <2> QED
    BY <1>3, <1>4, <2>2
<1>5. CASE l # 0
  <2>1. l - 1 \in Nat /\ ~(l <= l - 1)
    BY <1>3, <1>5
  <2>2. l - 1 \notin S
    BY <1>2, <2>1
  <2>3. PICK f : MergesTo(f, l - 1, t, p)
    BY <2>1, <2>2
  <2> DEFINE g == [i \in 0..l |-> IF i = l THEN MergeAt(f[l - 1], SubSeq(p, 1, Len(p) + 1 - l)) ELSE f[i]]
  <2>4. ASSUME NEW i \in 0..l
        PROVE  g[i] = IF i = 0 THEN t ELSE MergeAt(g[i - 1], SubSeq(p, 1, Len(p) + 1 - i))
    <3>1. i \in Int /\ 0 <= i /\ i <= l
      BY <1>3
    <3>2. CASE i = l
      <4>1. l - 1 \in 0..l /\ l - 1 # l
        BY <1>3, <2>1
      <4>2. g[i] = MergeAt(f[l - 1], SubSeq(p, 1, Len(p) + 1 - l)) /\ g[l - 1] = f[l - 1]
        BY <3>2, <4>1
      <4> QED
        BY <1>5, <3>2, <4>2
    <3>3. CASE i # l
      <4>1. i \in 0..(l - 1)
        BY <1>3, <3>1, <3>3
      <4>2. f[i] = IF i = 0 THEN t ELSE MergeAt(f[i - 1], SubSeq(p, 1, Len(p) + 1 - i))
        BY <2>3, <4>1 DEF MergesTo
      <4>3. g[i] = f[i]
        BY <3>3
      <4>4. i # 0 => g[i - 1] = f[i - 1]
        <5>1. i # 0 => i - 1 \in 0..l /\ i - 1 # l
          BY <1>3, <3>1
        <5> QED
          BY <5>1
      <4> QED
        BY <4>2, <4>3, <4>4
    <3> QED
      BY <3>2, <3>3
  <2>5. g = [i \in 0..l |-> IF i = 0 THEN t ELSE MergeAt(g[i - 1], SubSeq(p, 1, Len(p) + 1 - i))]
    <3>1. g = [i \in 0..l |-> g[i]]
      OBVIOUS
    <3> HIDE DEF g
    <3> QED
      BY <2>4, <3>1
  <2>6. MergesTo(g, l, t, p)
    <3> HIDE DEF g
    <3> QED
      BY <2>5 DEF MergesTo
  <2> QED
    BY <1>3, <2>6
<1> QED
  BY <1>4, <1>5

\* The merges, all the way to the root.
LEMMA MergeUpSound ==
  ASSUME NEW t, TableSound(t), NEW p \in Prefix, NEW u, u = MergeUp(t, p)
  PROVE  TableSound(u)
<1>1. p \in Seq({0, 1}) /\ Len(p) \in Nat
  BY PrefixPositions
<1>2. PICK f : MergesTo(f, Len(p), t, p) /\ u = f[Len(p)]
  <2>1. PICK g : g = CHOOSE h : MergesTo(h, Len(p), t, p)
    OBVIOUS
  <2>2. MergesTo(g, Len(p), t, p)
    BY <1>1, <2>1, MergesDefined
  <2>3. u = g[Len(p)]
    BY <2>1 DEF MergeUp, MergesTo
  <2> QED
    BY <2>2, <2>3
<1>3. \A i \in 0..Len(p) : f[i] = IF i = 0 THEN t ELSE MergeAt(f[i - 1], SubSeq(p, 1, Len(p) + 1 - i))
  BY <1>2 DEF MergesTo
<1> DEFINE S == {i \in Nat : i <= Len(p) /\ ~TableSound(f[i])}
<1>4. CASE S = {}
  BY <1>1, <1>2, <1>4
<1>5. CASE S # {}
  <2>1. PICK l \in S : \A i \in S : l <= i
    <3>1. S \in SUBSET Nat
      OBVIOUS
    <3> HIDE DEF S
    <3> QED
      BY <1>5, <3>1, LeastNat
  <2>2. l \in Nat /\ l <= Len(p) /\ ~TableSound(f[l]) /\ l \in 0..Len(p)
    BY <1>1
  <2>3. l # 0
    BY <1>3, <2>2
  <2>4. l - 1 \in Nat /\ l - 1 <= Len(p) /\ ~(l <= l - 1)
    BY <1>1, <2>2, <2>3
  <2>5. TableSound(f[l - 1])
    BY <2>1, <2>4
  <2>6. PICK q : q = SubSeq(p, 1, Len(p) + 1 - l)
    OBVIOUS
  <2>7. f[l] = MergeAt(f[l - 1], q)
    BY <1>3, <2>2, <2>3, <2>6
  <2>8. q # <<>>
    <3>1. Len(p) + 1 - l \in 0..Len(p) /\ Len(p) + 1 - l # 0
      BY <1>1, <2>2, <2>3
    <3>2. Len(q) # 0
      BY <2>6, <3>1, Cuts
    <3> QED
      BY <3>2
  <2> QED
    BY <2>2, <2>5, <2>7, <2>8, MergeAtSound
<1> QED
  BY <1>4, <1>5

\* What a survey observes of a region.
LEMMA ObserveSound ==
  ASSUME NEW t, TableSound(t), NEW p, NEW members \in SUBSET Key,
         NEW u, u = Observe(t, p, members)
  PROVE  TableSound(u)
<1>1. CASE p \notin DOMAIN t
  BY <1>1 DEF Observe
<1>2. CASE p \in DOMAIN t
  <2>1. PICK r : r = Regrown(t, p, members)
    OBVIOUS
  <2>2. TableSound(r)
    BY <1>2, <2>1, RegrownSound
  <2>3. p \in Prefix
    BY <1>2 DEF TableSound, Tiles
  <2>4. u = MergeUp(r, p)
    BY <1>2, <2>1 DEF Observe
  <2> QED
    BY <2>2, <2>3, <2>4, MergeUpSound
<1> QED
  BY <1>1, <1>2
-----------------------------------------------------------------------------
(* The publish pool *)

\* A request is told by what it is for.
LEMMA Events ==
  /\ \A c, n : Event("Store", c, n).kind = "Store"
  /\ \A c, n : Event("Store", c, n).child = c /\ Event("Store", c, n).node = n
BY DEF Event

\* The next request of a publish of the pool.
LEMMA AskNextSound ==
  ASSUME NEW R, NEW m, Sound(m, R), m.emitted = {}, NEW c \in DOMAIN m.pool, NEW k \in AskNext(m, c)
  PROVE  /\ Sound(k, R) /\ k.emitted # {}
         /\ k.survey = m.survey /\ k.regions = m.regions /\ k.due = m.due
<1>1. PICK n \in m.pool[c].todo :
        k = [m EXCEPT !.pool[c].todo = @ \ {n}, !.pool[c].waiting = @ \cup {n},
                      !.emitted = {Event("Store", c, n)}]
  BY DEF AskNext
<1>4. PICK b : b = [todo |-> m.pool[c].todo \ {n}, waiting |-> m.pool[c].waiting \cup {n}]
  OBVIOUS
<1>2. IsMachine(m) /\ Maps(m.pool) /\ \A d \in DOMAIN m.pool : IsStatic(m.pool[d])
  BY DEF Sound
<1>3. /\ k = [survey |-> m.survey, regions |-> m.regions, children |-> m.children,
              pool |-> k.pool, due |-> m.due, inbound |-> m.inbound, outbound |-> m.outbound,
              pollAgain |-> m.pollAgain, emitted |-> {Event("Store", c, n)}]
      /\ k.pool = [d \in DOMAIN m.pool |-> IF d = c THEN b ELSE m.pool[d]]
  <2>1. IsStatic(m.pool[c])
    BY <1>2
  <2>2. k.pool = [m.pool EXCEPT ![c].todo = @ \ {n}, ![c].waiting = @ \cup {n}]
    BY <1>1, <1>2 DEF IsMachine
  <2>3. k.pool = [m.pool EXCEPT ![c] = b]
    BY <1>2, <1>4, <2>1, <2>2 DEF Maps, IsStatic
  <2>4. k.pool = [d \in DOMAIN m.pool |-> IF d = c THEN b ELSE m.pool[d]]
    BY <1>2, <2>3 DEF Maps
  <2> QED
    BY <1>1, <1>2, <2>4 DEF IsMachine
<1>5. IsMachine(k) /\ Maps(k.pool)
  BY <1>3 DEF IsMachine, Maps
<1>6. \A d \in DOMAIN k.pool : IsStatic(k.pool[d])
  <2>1. IsStatic(b)
    BY <1>4 DEF IsStatic
  <2> QED
    BY <1>2, <1>3, <2>1
<1>7. Awaited(k, R \cup Items(k.inbound) \cup k.emitted)
  <2>1. Awaited(m, R \cup Items(m.inbound) \cup {})
    BY DEF Sound
  <2> QED
    BY <1>3, <1>4, <2>1 DEF Awaited
<1>8. \A ev \in k.emitted : k.emitted = {ev} /\ ev.kind \in {"Notice", "Find", "Store"}
  BY <1>3, Events
<1>9. /\ k.survey = m.survey /\ k.regions = m.regions /\ k.due = m.due
      /\ k.children = m.children /\ k.inbound = m.inbound
      /\ DOMAIN k.pool = DOMAIN m.pool /\ k.emitted # {}
  BY <1>3
<1> QED
  BY <1>5, <1>6, <1>7, <1>8, <1>9 DEF Sound

\* A poll of the pool: when it has nothing to send, every publish only waits.
LEMMA PollPoolSound ==
  ASSUME NEW R, NEW m, Sound(m, R), m.emitted = {}, NEW k \in PollPool(m)
  PROVE  /\ Sound(k, R)
         /\ k.survey = m.survey /\ k.regions = m.regions /\ k.due = m.due
         /\ k.emitted = {} => \A c \in DOMAIN k.pool : k.pool[c].todo = {}
<1> DEFINE busy == {c \in DOMAIN m.pool : m.pool[c].todo # {}}
<1>0. PICK l : l = [m EXCEPT !.pollAgain = FALSE]
  OBVIOUS
<1>1. k \in (IF busy = {} THEN {l} ELSE UNION {AskNext(l, c) : c \in busy})
  BY <1>0 DEF PollPool
<1>2. l = [survey |-> m.survey, regions |-> m.regions, children |-> m.children,
              pool |-> m.pool, due |-> m.due, inbound |-> m.inbound, outbound |-> m.outbound,
              pollAgain |-> FALSE, emitted |-> m.emitted]
  <2>1. IsMachine(m)
    BY DEF Sound
  <2> QED
    BY <1>0, <2>1 DEF IsMachine
<1>3. Sound(l, R)
  <2>1. /\ l.survey = m.survey /\ l.regions = m.regions /\ l.children = m.children
        /\ l.pool = m.pool /\ l.inbound = m.inbound /\ l.emitted = m.emitted
    BY <1>2
  <2>2. IsMachine(l)
    BY <1>2 DEF IsMachine
  <2> QED
    BY <2>1, <2>2 DEF Sound, Awaited
<1>4. CASE busy = {}
  <2>1. k = l
    BY <1>1, <1>4
  <2>2. \A c \in DOMAIN m.pool : m.pool[c].todo = {}
    BY <1>4
  <2>3. l.survey = m.survey /\ l.regions = m.regions /\ l.due = m.due /\ l.pool = m.pool
    BY <1>2
  <2> QED
    BY <1>3, <2>1, <2>2, <2>3
<1>5. CASE busy # {}
  <2>1. PICK c \in DOMAIN m.pool : k \in AskNext(l, c)
    BY <1>1, <1>5
  <2>2. c \in DOMAIN l.pool /\ l.emitted = {}
    BY <1>2
  <2> QED
    BY <1>2, <1>3, <2>1, <2>2, AskNextSound
<1> QED
  BY <1>4, <1>5

\* The fields when the regions change.
LEMMA RegionsSet ==
  ASSUME NEW m, IsMachine(m), NEW x, NEW k, k = [m EXCEPT !.regions = x]
  PROVE  k = [survey |-> m.survey, regions |-> x, children |-> m.children, pool |-> m.pool,
              due |-> m.due, inbound |-> m.inbound, outbound |-> m.outbound,
              pollAgain |-> m.pollAgain, emitted |-> m.emitted]
BY DEF IsMachine

\* A publish that has its last answer leaves the pool, and its region no longer waits for it.
LEMMA EndStaticSound ==
  ASSUME NEW R, NEW m, Sound(m, R), m.emitted = {}, NEW c \in DOMAIN m.pool,
         NEW k, k = EndStatic(m, c)
  PROVE  Sound(k, R) /\ k.emitted = {} /\ k.survey = m.survey
<1> DEFINE p == c[1]
<1>0. PICK l : l = [m EXCEPT !.pool = Without(@, c), !.pollAgain = TRUE, !.children = @ \ {c}]
  OBVIOUS
<1>1. /\ IsMachine(m) /\ Maps(m.pool) /\ Maps(m.regions) /\ m.children = DOMAIN m.pool
      /\ \A d \in DOMAIN m.pool : IsStatic(m.pool[d])
      /\ \A q \in DOMAIN m.regions : RegionSound(m.regions[q], q, m.children)
  BY DEF Sound
<1>2. /\ l = [survey |-> m.survey, regions |-> m.regions, children |-> m.children \ {c},
              pool |-> l.pool, due |-> m.due, inbound |-> m.inbound, outbound |-> m.outbound,
              pollAgain |-> TRUE, emitted |-> m.emitted]
      /\ l.pool = [d \in DOMAIN m.pool \ {c} |-> m.pool[d]]
  BY <1>0, <1>1 DEF IsMachine, Without, Restrict
<1>3. k = KeyDone(l, c)
  BY <1>0, <1>1 DEF EndStatic
<1>4. \A q \in DOMAIN m.regions : RegionSound(m.regions[q], q, m.children \ {c}) \/ q = p
  BY <1>1 DEF RegionSound
<1>5. /\ k = [survey |-> m.survey, regions |-> k.regions, children |-> m.children \ {c},
              pool |-> l.pool, due |-> m.due, inbound |-> m.inbound, outbound |-> m.outbound,
              pollAgain |-> TRUE, emitted |-> m.emitted]
      /\ Maps(k.regions) /\ \A q \in DOMAIN k.regions : RegionSound(k.regions[q], q, m.children \ {c})
  <2>1. CASE p \notin DOMAIN m.regions
    <3>1. k = l
      BY <1>2, <1>3, <2>1 DEF KeyDone
    <3> QED
      BY <1>1, <1>2, <1>4, <2>1, <3>1
  <2>2. CASE p \in DOMAIN m.regions
    <3> DEFINE left == m.regions[p].inflight \ {c}
    <3>1. RegionSound(m.regions[p], p, m.children)
      BY <1>1, <2>2
    <3>4. l.regions = m.regions
      BY <1>2
    <3>5. IsMachine(l)
      BY <1>2 DEF IsMachine
    <3>2. CASE m.regions[p].cursor < Cardinality(KeysUnder(p)) \/ left # {}
      <4>1. k = [l EXCEPT !.regions[p].inflight = left]
        BY <1>3, <2>2, <3>2, <3>4 DEF KeyDone
      <4>5. PICK rp : rp = [nodes |-> m.regions[p].nodes, cursor |-> m.regions[p].cursor,
                            inflight |-> left]
        OBVIOUS
      <4>6. k = [l EXCEPT !.regions = [m.regions EXCEPT ![p].inflight = left]]
        BY <3>4, <4>1, Zenon
      <4>7. k.regions = [m.regions EXCEPT ![p].inflight = left]
        BY <3>5, <4>6, RegionsSet
      <4>2. k.regions = [q \in DOMAIN m.regions |-> IF q = p THEN rp ELSE m.regions[q]]
        BY <1>1, <2>2, <3>1, <4>5, <4>7 DEF Maps, RegionSound, IsRegion
      <4>3. RegionSound(rp, p, m.children \ {c})
        BY <3>1, <3>2, <4>5 DEF RegionSound, IsRegion
      <4>4. Maps(k.regions) /\ \A q \in DOMAIN k.regions : RegionSound(k.regions[q], q, m.children \ {c})
        BY <1>4, <4>2, <4>3 DEF Maps
      <4>8. k = [l EXCEPT !.regions = k.regions]
        BY <4>6, <4>7
      <4> QED
        BY <1>2, <3>5, <4>8, <4>4, RegionsSet
    <3>3. CASE ~(m.regions[p].cursor < Cardinality(KeysUnder(p)) \/ left # {})
      <4>1. k = [l EXCEPT !.regions = Without(@, p)]
        BY <1>3, <2>2, <3>3, <3>4 DEF KeyDone
      <4>2. k.regions = [q \in DOMAIN m.regions \ {p} |-> m.regions[q]]
        BY <1>2, <4>1 DEF Without, Restrict
      <4>3. Maps(k.regions) /\ \A q \in DOMAIN k.regions : RegionSound(k.regions[q], q, m.children \ {c})
        BY <1>4, <4>2 DEF Maps
      <4>4. k = [l EXCEPT !.regions = k.regions]
        BY <3>5, <4>1, RegionsSet
      <4> QED
        BY <1>2, <3>5, <4>4, <4>3, RegionsSet
    <3> QED
      BY <3>2, <3>3
  <2> QED
    BY <2>1, <2>2
<1>6. Awaited(k, R \cup Items(k.inbound) \cup k.emitted)
  <2>1. Awaited(m, R \cup Items(m.inbound) \cup m.emitted)
    BY DEF Sound
  <2> QED
    BY <1>2, <1>5, <2>1 DEF Awaited
<1>7. IsMachine(k) /\ Maps(k.pool) /\ \A d \in DOMAIN k.pool : IsStatic(k.pool[d])
  BY <1>1, <1>2, <1>5 DEF IsMachine, Maps
<1> QED
  <2>1. k.children = DOMAIN k.pool
    BY <1>1, <1>2, <1>5
  <2>2. /\ k.survey = m.survey /\ k.inbound = m.inbound /\ k.children = m.children \ {c}
        /\ k.emitted = {}
    BY <1>5
  <2>3. SurveySound(k.survey) /\ k.inbound \in Seq(Items(k.inbound))
    BY <2>2 DEF Sound
  <2>4. Maps(k.regions) /\ \A q \in DOMAIN k.regions : RegionSound(k.regions[q], q, k.children)
    BY <1>5, <2>2
  <2> QED
    BY <1>6, <1>7, <2>1, <2>2, <2>3, <2>4 DEF Sound

\* An answer for a publish of the pool, whose request is no longer on its way.
LEMMA AnswerStaticSound ==
  ASSUME NEW R, NEW m, NEW c, NEW n, Sound(m, R \cup {Event("Store", c, n)}), m.emitted = {},
         NEW k \in AnswerStatic(m, c, n)
  PROVE  Sound(k, R)
<1>1. /\ IsMachine(m) /\ Maps(m.pool) /\ \A d \in DOMAIN m.pool : IsStatic(m.pool[d])
      /\ Awaited(m, (R \cup {Event("Store", c, n)}) \cup Items(m.inbound) \cup m.emitted)
  BY DEF Sound
<1>2. CASE c \notin DOMAIN m.pool
  <2>1. Awaited(m, R \cup Items(m.inbound) \cup m.emitted)
    BY <1>1, <1>2, Events DEF Awaited
  <2>2. Sound(m, R)
    BY <2>1 DEF Sound
  <2>3. k \in PollPool(m)
    BY <1>2 DEF AnswerStatic
  <2> QED
    BY <2>2, <2>3, PollPoolSound
<1>3. CASE c \in DOMAIN m.pool
  <2>1. PICK x : x = [m EXCEPT !.pool[c].waiting = @ \ {n}, !.pollAgain = FALSE]
    OBVIOUS
  <2>2. PICK b : b = [todo |-> m.pool[c].todo, waiting |-> m.pool[c].waiting \ {n}]
    OBVIOUS
  <2>3. IsStatic(m.pool[c])
    BY <1>1, <1>3
  <2>4. x.pool = [m.pool EXCEPT ![c].waiting = @ \ {n}]
    BY <1>1, <2>1 DEF IsMachine
  <2>5. x.pool = [d \in DOMAIN m.pool |-> IF d = c THEN b ELSE m.pool[d]]
    BY <1>1, <1>3, <2>2, <2>3, <2>4 DEF Maps, IsStatic
  <2>6. x = [survey |-> m.survey, regions |-> m.regions, children |-> m.children,
             pool |-> x.pool, due |-> m.due, inbound |-> m.inbound, outbound |-> m.outbound,
             pollAgain |-> FALSE, emitted |-> m.emitted]
    BY <1>1, <2>1 DEF IsMachine
  <2>7. IsStatic(b)
    BY <2>2 DEF IsStatic
  <2>8. IsMachine(x) /\ Maps(x.pool) /\ \A d \in DOMAIN x.pool : IsStatic(x.pool[d])
    <3>1. IsMachine(x)
      BY <2>6 DEF IsMachine
    <3> QED
      BY <1>1, <2>5, <2>7, <3>1 DEF Maps
  <2>9. /\ x.survey = m.survey /\ x.regions = m.regions /\ x.children = m.children
        /\ x.inbound = m.inbound /\ x.emitted = {} /\ DOMAIN x.pool = DOMAIN m.pool
    BY <2>5, <2>6
  <2>10. Awaited(x, R \cup Items(x.inbound) \cup x.emitted)
    <3> SUFFICES ASSUME NEW d \in DOMAIN m.pool, NEW i \in x.pool[d].waiting
                 PROVE  Event("Store", d, i) \in R \cup Items(m.inbound)
      BY <2>9 DEF Awaited
    <3>1. i \in m.pool[d].waiting /\ ~(d = c /\ i = n)
      BY <2>2, <2>5
    <3>2. Event("Store", d, i) # Event("Store", c, n)
      BY <3>1, Events
    <3>3. Event("Store", d, i) \in (R \cup {Event("Store", c, n)}) \cup Items(m.inbound) \cup {}
      BY <1>1, <3>1 DEF Awaited
    <3> QED
      BY <3>2, <3>3
  <2>11. Sound(x, R)
    BY <2>8, <2>9, <2>10 DEF Sound
  <2>12. k \in (IF x.pool[c].todo # {} THEN AskNext(x, c)
                ELSE IF x.pool[c].waiting # {} THEN PollPool(x) ELSE {EndStatic(x, c)})
    BY <1>3, <2>1 DEF AnswerStatic
  <2>13. c \in DOMAIN x.pool
    BY <1>3, <2>9
  <2>14. CASE x.pool[c].todo # {}
    BY <2>9, <2>11, <2>12, <2>13, <2>14, AskNextSound
  <2>15. CASE x.pool[c].todo = {} /\ x.pool[c].waiting # {}
    BY <2>9, <2>11, <2>12, <2>15, PollPoolSound
  <2>16. CASE x.pool[c].todo = {} /\ x.pool[c].waiting = {}
    BY <2>9, <2>11, <2>12, <2>13, <2>16, EndStaticSound
  <2> QED
    BY <2>14, <2>15, <2>16
<1> QED
  BY <1>2, <1>3
-----------------------------------------------------------------------------
(* Region publishes *)

\* A region that has a key to start and room for it starts it.
LEMMA StartKeySound ==
  ASSUME NEW R, NEW m, Sound(m, R), m.emitted = {}, NEW p \in DOMAIN m.regions,
         NEW k \in StartKey(m, p)
  PROVE  /\ Sound(k, R) /\ k.emitted # {}
         /\ k.survey = m.survey
<1>1. PICK c : c = <<p, m.regions[p].cursor + 1>>
  OBVIOUS
<1>2. PICK nodes : nodes = Closest(m.regions[p].nodes, KeyAt(p, m.regions[p].cursor + 1))
  OBVIOUS
<1>3. PICK x : x = [m EXCEPT !.regions[p].cursor = @ + 1, !.regions[p].inflight = @ \cup {c},
                             !.children = @ \cup {c}]
  OBVIOUS
<1>4. PICK y : y = [x EXCEPT !.pool = With(@, c, [todo |-> nodes, waiting |-> {}]),
                             !.pollAgain = FALSE]
  OBVIOUS
<1>5. k \in AskNext(y, c)
  <2>1. k \in StartStatic(x, c, nodes)
    BY <1>1, <1>2, <1>3 DEF StartKey
  <2> QED
    BY <1>4, <2>1 DEF StartStatic
<1>6. /\ IsMachine(m) /\ Maps(m.regions) /\ Maps(m.pool) /\ m.children = DOMAIN m.pool
      /\ \A q \in DOMAIN m.regions : RegionSound(m.regions[q], q, m.children)
      /\ \A d \in DOMAIN m.pool : IsStatic(m.pool[d])
  BY DEF Sound
<1>7. RegionSound(m.regions[p], p, m.children)
  BY <1>6
<1>8. PICK rp : rp = [nodes |-> m.regions[p].nodes, cursor |-> m.regions[p].cursor + 1,
                      inflight |-> m.regions[p].inflight \cup {c}]
  OBVIOUS
<1>9. x.regions = [m.regions EXCEPT ![p].cursor = @ + 1, ![p].inflight = @ \cup {c}]
  BY <1>3, <1>6 DEF IsMachine
<1>10. x.regions = [m.regions EXCEPT ![p] = rp]
  BY <1>6, <1>7, <1>8, <1>9 DEF Maps, RegionSound, IsRegion
<1>11. x.regions = [q \in DOMAIN m.regions |-> IF q = p THEN rp ELSE m.regions[q]]
  BY <1>6, <1>10 DEF Maps
<1>12. x = [survey |-> m.survey, regions |-> x.regions, children |-> m.children \cup {c},
            pool |-> m.pool, due |-> m.due, inbound |-> m.inbound, outbound |-> m.outbound,
            pollAgain |-> m.pollAgain, emitted |-> m.emitted]
  BY <1>3, <1>6 DEF IsMachine
<1>13. IsMachine(x)
  BY <1>12 DEF IsMachine
<1>14. PICK b : b = [todo |-> nodes, waiting |-> {}]
  OBVIOUS
<1>15. y = [survey |-> x.survey, regions |-> x.regions, children |-> x.children,
            pool |-> With(x.pool, c, b), due |-> x.due, inbound |-> x.inbound,
            outbound |-> x.outbound, pollAgain |-> FALSE, emitted |-> x.emitted]
  BY <1>4, <1>13, <1>14 DEF IsMachine
<1>16. /\ y.survey = m.survey /\ y.regions = x.regions /\ y.children = m.children \cup {c}
       /\ y.pool = With(m.pool, c, b) /\ y.inbound = m.inbound /\ y.emitted = {}
  <2>1. /\ x.survey = m.survey /\ x.children = m.children \cup {c} /\ x.pool = m.pool
        /\ x.inbound = m.inbound /\ x.emitted = {}
    BY <1>12
  <2> QED
    BY <1>15, <2>1
<1>17. IsMachine(y)
  BY <1>15 DEF IsMachine
<1>18. y.pool = [d \in DOMAIN m.pool \cup {c} |-> IF d = c THEN b ELSE m.pool[d]]
  BY <1>16 DEF With
<1>19. /\ Maps(y.regions)
       /\ \A q \in DOMAIN y.regions : RegionSound(y.regions[q], q, m.children \cup {c})
  <2>1. RegionSound(rp, p, m.children \cup {c})
    BY <1>1, <1>7, <1>8 DEF RegionSound, IsRegion
  <2>2. \A q \in DOMAIN m.regions : RegionSound(m.regions[q], q, m.children \cup {c})
    BY <1>6 DEF RegionSound
  <2> QED
    BY <1>11, <1>16, <2>1, <2>2 DEF Maps
<1>20. /\ Maps(y.pool) /\ \A d \in DOMAIN y.pool : IsStatic(y.pool[d])
       /\ y.children = DOMAIN y.pool
  <2>1. IsStatic(b)
    BY <1>14 DEF IsStatic
  <2> QED
    BY <1>6, <1>16, <1>18, <2>1 DEF Maps
<1>21. Awaited(y, R \cup Items(y.inbound) \cup y.emitted)
  <2>1. Awaited(m, R \cup Items(m.inbound) \cup {})
    BY DEF Sound
  <2>2. ASSUME NEW d \in DOMAIN y.pool, NEW i \in y.pool[d].waiting
        PROVE  d \in DOMAIN m.pool /\ i \in m.pool[d].waiting
    BY <1>14, <1>18, <2>2
  <2> QED
    BY <1>16, <2>1, <2>2 DEF Awaited
<1>22. Sound(y, R)
  <2>1. SurveySound(y.survey) /\ y.inbound \in Seq(Items(y.inbound))
    BY <1>16 DEF Sound
  <2>2. \A q \in DOMAIN y.regions : RegionSound(y.regions[q], q, y.children)
    BY <1>16, <1>19
  <2> QED
    BY <1>16, <1>17, <1>19, <1>20, <1>21, <2>1, <2>2 DEF Sound
<1>23. c \in DOMAIN y.pool
  BY <1>18
<1> QED
  BY <1>5, <1>16, <1>22, <1>23, AskNextSound

\* A turn of the region publishes: when none has a key to start, each waits for one.
LEMMA AdvanceRegionsSound ==
  ASSUME NEW R, NEW m, Sound(m, R), m.emitted = {}, NEW k \in AdvanceRegions(m)
  PROVE  Sound(k, R) /\ k.survey = m.survey /\ (k.emitted = {} => Busy(k))
<1>1. CASE Startable(m) = {}
  <2>1. k = m
    BY <1>1 DEF AdvanceRegions
  <2>2. ASSUME NEW p \in DOMAIN m.regions PROVE m.regions[p].inflight # {}
    <3>1. RegionSound(m.regions[p], p, m.children)
      BY DEF Sound
    <3>2. ~(/\ m.regions[p].cursor < Cardinality(KeysUnder(p))
            /\ Cardinality(m.regions[p].inflight) < RegionMaxInFlight)
      BY <1>1 DEF Startable
    <3>3. Cardinality({}) = 0 /\ RegionMaxInFlight \in Nat /\ RegionMaxInFlight > 0
      BY FS_EmptySet, PublishBehaviourAssumption
    <3> QED
      BY <3>1, <3>2, <3>3 DEF RegionSound
  <2> QED
    BY <2>1, <2>2 DEF Busy
<1>2. CASE Startable(m) # {}
  <2>1. PICK p \in Startable(m) : k \in StartKey(m, p)
    BY <1>2 DEF AdvanceRegions
  <2>2. p \in DOMAIN m.regions
    BY <2>1 DEF Startable
  <2> QED
    BY <2>1, <2>2, StartKeySound
<1> QED
  BY <1>1, <1>2
-----------------------------------------------------------------------------
(* The survey *)

\* What a survey reports: once it is over, it no longer runs.
ResultSound(res) ==
  /\ res = [s |-> res.s, kind |-> res.kind, region |-> res.region, nodes |-> res.nodes]
  /\ SurveySound(res.s)
  /\ res.kind \in {"FindCloser", "Waiting", "Idle", "Finished", "Timeout", "Failure"}
  /\ res.kind \in {"Finished", "Timeout", "Failure"} => ~res.s.running

\* The result of a survey.
LEMMA ResultMade ==
  ASSUME NEW s, SurveySound(s), NEW kind, NEW region, NEW nodes,
         kind \in {"FindCloser", "Waiting", "Idle", "Finished", "Timeout", "Failure"},
         kind \in {"Finished", "Timeout", "Failure"} => ~s.running,
         NEW res, res = SurveyResult(s, kind, region, nodes)
  PROVE  ResultSound(res)
BY DEF SurveyResult, ResultSound

\* A step of the survey that leaves its table and its schedule alone.
LEMMA SurveyKept ==
  ASSUME NEW s, SurveySound(s), NEW late, NEW running, NEW region, NEW sent, NEW expired,
         NEW t, t = [table |-> s.table, seeded |-> s.seeded, sched |-> s.sched, late |-> late,
                     running |-> running, region |-> region, sent |-> sent, expired |-> expired]
  PROVE  SurveySound(t) /\ t.running = running
<1>1. IsSurvey(t)
  BY DEF IsSurvey
<1>2. t.table = s.table /\ t.seeded = s.seeded /\ t.sched = s.sched /\ t.running = running
  OBVIOUS
<1> QED
  BY <1>1, <1>2 DEF SurveySound

\* A survey that ends.
LEMMA ClearQuerySound ==
  ASSUME NEW s, SurveySound(s), NEW t, t = ClearQuery(s)
  PROVE  SurveySound(t) /\ ~t.running
<1>1. t = [table |-> s.table, seeded |-> s.seeded, sched |-> s.sched, late |-> s.late,
           running |-> FALSE, region |-> <<>>, sent |-> 0, expired |-> FALSE]
  BY DEF ClearQuery, SurveySound, IsSurvey
<1>2. SurveySound(t) /\ t.running = FALSE
  BY <1>1, SurveyKept
<1> QED
  BY <1>2

\* The schedule follows the table.
LEMMA ReconcileSound ==
  ASSUME NEW s, SurveySound(s), NEW table, TableSound(table), NEW t, t = Reconcile(s, table)
  PROVE  SurveySound(t) /\ t.running = s.running
<1> DEFINE removed == DOMAIN s.table \ DOMAIN table
           added   == DOMAIN table \ DOMAIN s.table
           related(a) == {r \in removed : IsPrefix(a, r) \/ IsPrefix(r, a)}
<1>1. PICK sched : sched = [p \in (DOMAIN s.sched \ removed) \cup added |->
                              IF p \in added THEN Min({s.sched[r] : r \in related(p)})
                              ELSE s.sched[p]]
  OBVIOUS
<1>2. DOMAIN sched = (DOMAIN s.sched \ removed) \cup added
  BY <1>1
<1>3. t = [s EXCEPT !.table = table, !.sched = sched]
  BY <1>1 DEF Reconcile
<1>4. IsSurvey(s) /\ (s.seeded => DOMAIN s.sched = DOMAIN s.table)
  BY DEF SurveySound
<1>5. t = [table |-> table, seeded |-> s.seeded, sched |-> sched, late |-> s.late,
           running |-> s.running, region |-> s.region, sent |-> s.sent, expired |-> s.expired]
  BY <1>3, <1>4 DEF IsSurvey
<1>6. IsSurvey(t)
  BY <1>5 DEF IsSurvey
<1>7. t.table = table /\ t.seeded = s.seeded /\ t.sched = sched /\ t.running = s.running
  BY <1>5
<1> QED
  BY <1>2, <1>4, <1>6, <1>7 DEF SurveySound

\* The nodes of a region have been found.
LEMMA FinishSurveySound ==
  ASSUME NEW s, SurveySound(s), NEW nodes \in SUBSET Key, NEW res \in FinishSurvey(s, nodes)
  PROVE  ResultSound(res)
<1>1. PICK table : /\ table = Observe(s.table, s.region, nodes)
                   /\ res = SurveyResult(Reconcile(ClearQuery(s), table), "Finished", s.region, nodes)
  BY DEF FinishSurvey
<1>2. PICK t : t = ClearQuery(s)
  OBVIOUS
<1>3. PICK u : u = Reconcile(t, table)
  OBVIOUS
<1>4. TableSound(table)
  BY <1>1, ObserveSound DEF SurveySound
<1>5. SurveySound(t) /\ ~t.running
  BY <1>2, ClearQuerySound
<1>6. SurveySound(u) /\ ~u.running
  BY <1>3, <1>4, <1>5, ReconcileSound
<1> QED
  BY <1>1, <1>2, <1>3, <1>6, ResultMade

\* One more request of the survey.
LEMMA SentSound ==
  ASSUME NEW s, SurveySound(s), NEW n, NEW t, t = [s EXCEPT !.sent = n]
  PROVE  SurveySound(t)
<1>1. t = [table |-> s.table, seeded |-> s.seeded, sched |-> s.sched, late |-> s.late,
           running |-> s.running, region |-> s.region, sent |-> n, expired |-> s.expired]
  BY DEF SurveySound, IsSurvey
<1> QED
  BY <1>1, SurveyKept

\* A step of the survey that runs.
LEMMA AdvanceCoverageSound ==
  ASSUME NEW s, SurveySound(s), NEW res \in AdvanceCoverage(s)
  PROVE  ResultSound(res)
<1>1. \/ \E nodes \in SUBSET Under(s.region, Node) : res \in FinishSurvey(s, nodes)
      \/ \E t : t = [s EXCEPT !.sent = @ + 1] /\ res = SurveyResult(t, "FindCloser", s.region, {})
      \/ \E t : t = ClearQuery(s) /\ res = SurveyResult(t, "Timeout", s.region, {})
      \/ res = SurveyResult(s, "Waiting", s.region, {})
  <2> DEFINE more == {SurveyResult(t, "FindCloser", s.region, {}) :
                        t \in {[u EXCEPT !.sent = @ + 1] : u \in {v \in {s} : v.sent < SurveyRequests}}}
             last == IF s.expired THEN SurveyResult(ClearQuery(s), "Timeout", s.region, {})
                     ELSE SurveyResult(s, "Waiting", s.region, {})
  <2>1. \/ \E nodes \in SUBSET Under(s.region, Node) : res \in FinishSurvey(s, nodes)
        \/ res \in more \/ res = last
    BY DEF AdvanceCoverage
  <2>2. CASE res \in more
    <3>1. PICK t \in {[u EXCEPT !.sent = @ + 1] : u \in {v \in {s} : v.sent < SurveyRequests}} :
            res = SurveyResult(t, "FindCloser", s.region, {})
      BY <2>2
    <3>2. t = [s EXCEPT !.sent = @ + 1]
      OBVIOUS
    <3> QED
      BY <3>1, <3>2
  <2>3. CASE res = last
    BY <2>3
  <2> HIDE DEF more, last
  <2> QED
    BY <2>1, <2>2, <2>3
<1>2. ASSUME NEW t, t = [s EXCEPT !.sent = @ + 1] PROVE SurveySound(t)
  BY <1>2, SentSound
<1>3. ASSUME NEW nodes \in SUBSET Under(s.region, Node) PROVE nodes \in SUBSET Key
  BY SurveyAssumption DEF Under
<1> QED
  BY <1>1, <1>2, <1>3, FinishSurveySound, ClearQuerySound, ResultMade

\* A survey that starts.
LEMMA StartSurveySound ==
  ASSUME NEW s, SurveySound(s), ~s.running, NEW p, NEW res \in StartSurvey(s, p)
  PROVE  ResultSound(res)
<1>1. PICK t : t = [s EXCEPT !.running = TRUE, !.region = p]
  OBVIOUS
<1>2. PICK u : u = [t EXCEPT !.sent = 1]
  OBVIOUS
<1>3. SurveySound(t)
  <2>1. t = [table |-> s.table, seeded |-> s.seeded, sched |-> s.sched, late |-> s.late,
             running |-> TRUE, region |-> p, sent |-> s.sent, expired |-> s.expired]
    BY <1>1 DEF SurveySound, IsSurvey
  <2> QED
    BY <2>1, SurveyKept
<1>4. SurveySound(u)
  BY <1>2, <1>3, SentSound
<1>5. \/ res = SurveyResult(s, "Failure", p, {})
      \/ res \in FinishSurvey(t, {})
      \/ res = SurveyResult(u, "FindCloser", p, {})
  BY <1>1, <1>2 DEF StartSurvey
<1>6. CASE res = SurveyResult(s, "Failure", p, {})
  BY <1>6, ResultMade
<1>7. CASE res \in FinishSurvey(t, {})
  BY <1>3, <1>7, FinishSurveySound
<1>8. CASE res = SurveyResult(u, "FindCloser", p, {})
  BY <1>4, <1>8, ResultMade
<1> QED
  BY <1>5, <1>6, <1>7, <1>8

\* A schedule in which no region appears or disappears.
LEMMA ScheduleSet ==
  ASSUME NEW s, SurveySound(s), NEW sched, DOMAIN sched = DOMAIN s.sched, NEW late,
         NEW t, t = [table |-> s.table, seeded |-> s.seeded, sched |-> sched, late |-> late,
                     running |-> s.running, region |-> s.region, sent |-> s.sent,
                     expired |-> s.expired]
  PROVE  SurveySound(t) /\ t.running = s.running
<1>1. IsSurvey(t)
  BY DEF IsSurvey
<1>2. t.table = s.table /\ t.seeded = s.seeded /\ t.sched = sched /\ t.running = s.running
  OBVIOUS
<1> QED
  BY <1>1, <1>2 DEF SurveySound

\* A region is put off.
LEMMA RescheduleSound ==
  ASSUME NEW s, SurveySound(s), NEW p, NEW t, t = Reschedule(s, p)
  PROVE  SurveySound(t) /\ t.running = s.running
<1>1. PICK sched : sched = [s.sched EXCEPT ![p] = 1 + Max(Range(s.sched))]
  OBVIOUS
<1>2. DOMAIN sched = DOMAIN s.sched
  BY <1>1
<1>3. IsSurvey(s)
  BY DEF SurveySound
<1>4. t = [s EXCEPT !.sched = sched]
  BY <1>1, <1>3 DEF Reschedule
<1>5. t = [table |-> s.table, seeded |-> s.seeded, sched |-> sched, late |-> s.late,
           running |-> s.running, region |-> s.region, sent |-> s.sent, expired |-> s.expired]
  BY <1>3, <1>4 DEF IsSurvey
<1> QED
  BY <1>2, <1>5, ScheduleSet

\* A poll of a survey that does not run.
LEMMA TakeUpSound ==
  ASSUME NEW s, SurveySound(s), ~s.running, NEW p, NEW res \in TakeUp(s, p)
  PROVE  ResultSound(res)
<1>1. CASE res = SurveyResult(s, "Idle", <<>>, {})
  BY <1>1, ResultMade
<1>2. CASE res \in StartSurvey(Reschedule(s, p), p)
  <2>1. PICK t : t = Reschedule(s, p)
    OBVIOUS
  <2>2. SurveySound(t) /\ ~t.running
    BY <2>1, RescheduleSound
  <2> QED
    BY <1>2, <2>1, <2>2, StartSurveySound
<1> QED
  BY <1>1, <1>2 DEF TakeUp

\* The first schedule has every region of the table.
LEMMA SeedScheduleSound ==
  ASSUME NEW s, SurveySound(s), NEW t, t = SeedSchedule(s)
  PROVE  SurveySound(t) /\ t.running = s.running
<1>1. CASE s.seeded
  BY <1>1 DEF SeedSchedule
<1>2. CASE ~s.seeded
  <2>1. PICK sched : sched = [p \in DOMAIN s.table |->
                                1 + Cardinality({q \in DOMAIN s.table : Before(q, p)})]
    OBVIOUS
  <2>2. DOMAIN sched = DOMAIN s.table
    BY <2>1
  <2>3. t = [s EXCEPT !.seeded = TRUE, !.late = 1, !.sched = sched]
    BY <1>2, <2>1 DEF SeedSchedule
  <2>4. IsSurvey(s) /\ TableSound(s.table)
    BY DEF SurveySound
  <2>5. t = [table |-> s.table, seeded |-> TRUE, sched |-> sched, late |-> 1,
             running |-> s.running, region |-> s.region, sent |-> s.sent, expired |-> s.expired]
    BY <2>3, <2>4 DEF IsSurvey
  <2>6. IsSurvey(t)
    BY <2>5 DEF IsSurvey
  <2>7. t.table = s.table /\ t.sched = sched /\ t.running = s.running
    BY <2>5
  <2> QED
    BY <2>2, <2>4, <2>6, <2>7 DEF SurveySound
<1> QED
  BY <1>1, <1>2

\* The ranks of the same regions.
LEMMA RankedSound ==
  ASSUME NEW s, SurveySound(s), NEW t, t = Ranked(s)
  PROVE  SurveySound(t) /\ t.running = s.running
<1> DEFINE upTo(r) == Cardinality({k \in Range(s.sched) : k <= r})
<1>1. PICK sched : sched = [p \in DOMAIN s.sched |-> upTo(s.sched[p])]
  OBVIOUS
<1>2. DOMAIN sched = DOMAIN s.sched
  BY <1>1
<1>3. PICK late : late = upTo(s.late)
  OBVIOUS
<1>4. t = [s EXCEPT !.sched = sched, !.late = late]
  BY <1>1, <1>3 DEF Ranked
<1>5. t = [table |-> s.table, seeded |-> s.seeded, sched |-> sched, late |-> late,
           running |-> s.running, region |-> s.region, sent |-> s.sent, expired |-> s.expired]
  BY <1>4 DEF SurveySound, IsSurvey
<1> HIDE DEF upTo
<1> QED
  BY <1>2, <1>5, ScheduleSet

\* Survey.Advance.
LEMMA AdvanceSurveySound ==
  ASSUME NEW s, SurveySound(s), NEW res \in AdvanceSurvey(s)
  PROVE  ResultSound(res)
<1>1. PICK old : /\ old \in (IF s.running THEN AdvanceCoverage(s)
                             ELSE UNION {TakeUp(t, Peek(t.sched)) : t \in {SeedSchedule(s)}})
                 /\ res = [old EXCEPT !.s = Ranked(@)]
  BY DEF AdvanceSurvey
<1>2. ResultSound(old)
  <2>1. CASE s.running
    BY <1>1, <2>1, AdvanceCoverageSound
  <2>2. CASE ~s.running
    <3>1. PICK t : t = SeedSchedule(s)
      OBVIOUS
    <3>2. old \in TakeUp(t, Peek(t.sched))
      BY <1>1, <2>2, <3>1
    <3>3. SurveySound(t) /\ ~t.running
      BY <2>2, <3>1, SeedScheduleSound
    <3> QED
      BY <3>2, <3>3, TakeUpSound
  <2> QED
    BY <2>1, <2>2
<1>3. PICK t : t = Ranked(old.s)
  OBVIOUS
<1>4. SurveySound(old.s) /\ (old.kind \in {"Finished", "Timeout", "Failure"} => ~old.s.running)
  BY <1>2 DEF ResultSound
<1>5. SurveySound(t) /\ t.running = old.s.running
  BY <1>3, <1>4, RankedSound
<1>6. res = [s |-> t, kind |-> old.kind, region |-> old.region, nodes |-> old.nodes]
  BY <1>1, <1>2, <1>3 DEF ResultSound
<1> QED
  BY <1>2, <1>4, <1>5, <1>6 DEF ResultSound

\* The region publish that follows a survey has a key to start.
LEMMA StartRegionSound ==
  ASSUME NEW R, NEW m, Sound(m, R), NEW p, NEW nodes, NEW k, k = StartRegionPublish(m, p, nodes)
  PROVE  /\ Sound(k, R) /\ (Busy(m) => Busy(k))
         /\ k.survey = m.survey /\ k.due = m.due /\ k.emitted = m.emitted
<1>1. CASE nodes = {} \/ KeysUnder(p) = {}
  BY <1>1 DEF StartRegionPublish
<1>2. CASE ~(nodes = {} \/ KeysUnder(p) = {})
  <2>1. PICK rp : rp = [nodes |-> nodes, cursor |-> 0, inflight |-> {}]
    OBVIOUS
  <2>2. PICK x : x = With(m.regions, p, rp)
    OBVIOUS
  <2>3. IsMachine(m)
    BY DEF Sound
  <2>4. k = [m EXCEPT !.regions = x]
    BY <1>2, <2>1, <2>2, <2>3 DEF StartRegionPublish
  <2>5. k = [survey |-> m.survey, regions |-> x, children |-> m.children, pool |-> m.pool,
             due |-> m.due, inbound |-> m.inbound, outbound |-> m.outbound,
             pollAgain |-> m.pollAgain, emitted |-> m.emitted]
    BY <2>3, <2>4, RegionsSet
  <2>6. IsMachine(k)
    BY <2>5 DEF IsMachine
  <2>7. x = [q \in DOMAIN m.regions \cup {p} |-> IF q = p THEN rp ELSE m.regions[q]]
    BY <2>2 DEF With
  <2>8. RegionSound(rp, p, m.children) /\ rp.cursor = 0
    <3>1. Cardinality(KeysUnder(p)) > 0
      BY <1>2, KeysCounted
    <3> QED
      BY <2>1, <3>1 DEF RegionSound, IsRegion
  <2>9. /\ k.survey = m.survey /\ k.regions = x /\ k.children = m.children /\ k.pool = m.pool
        /\ k.due = m.due /\ k.inbound = m.inbound /\ k.emitted = m.emitted
    BY <2>5
  <2>10. Maps(x) /\ \A q \in DOMAIN x : RegionSound(x[q], q, m.children)
    <3>1. \A q \in DOMAIN m.regions : RegionSound(m.regions[q], q, m.children)
      BY DEF Sound
    <3> QED
      BY <2>7, <2>8, <3>1 DEF Maps
  <2>11. Sound(k, R)
    BY <2>6, <2>9, <2>10 DEF Sound, Awaited
  <2>12. Busy(m) => Busy(k)
    BY <2>7, <2>8, <2>9 DEF Busy
  <2> QED
    BY <2>9, <2>11, <2>12
<1> QED
  BY <1>1, <1>2

\* The fields that a poll of the survey changes.
LEMMA SurveySet ==
  ASSUME NEW R, NEW m, Sound(m, R), NEW s, SurveySound(s), NEW due, NEW again,
         NEW emitted \in {{}, {FindEvent}}, m.emitted = {},
         NEW k, k = [survey |-> s, regions |-> m.regions, children |-> m.children,
                     pool |-> m.pool, due |-> due, inbound |-> m.inbound,
                     outbound |-> m.outbound, pollAgain |-> again, emitted |-> emitted]
  PROVE  /\ Sound(k, R) /\ (Busy(m) => Busy(k))
         /\ k.survey = s /\ k.due = due /\ k.emitted = emitted
<1>1. \A ev \in emitted : emitted = {ev} /\ ev.kind \in {"Notice", "Find", "Store"}
  <2>1. FindEvent.kind = "Find"
    BY DEF FindEvent, Event
  <2> QED
    BY <2>1
<1>3. IsMachine(k)
  BY DEF IsMachine
<1>4. /\ k.survey = s /\ k.regions = m.regions /\ k.children = m.children /\ k.pool = m.pool
      /\ k.due = due /\ k.inbound = m.inbound /\ k.emitted = emitted
  OBVIOUS
<1>5. Awaited(k, R \cup Items(k.inbound) \cup k.emitted)
  <2>1. Awaited(m, R \cup Items(m.inbound) \cup {})
    BY DEF Sound
  <2> QED
    BY <1>4, <2>1 DEF Awaited
<1> QED
  BY <1>1, <1>3, <1>4, <1>5 DEF Sound, Busy

\* A poll of the survey: when it has nothing to send, it does not run or says until when.
LEMMA PollSurveySound ==
  ASSUME NEW R, NEW m, Sound(m, R), m.emitted = {}, NEW k \in PollSurvey(m)
  PROVE  Sound(k, R) /\ (Busy(m) => Busy(k)) /\ (k.emitted = {} => Dated(k))
<1>1. PICK res \in AdvanceSurvey(m.survey) : k = SurveyState(m, res)
  BY DEF PollSurvey
<1>2. IsMachine(m) /\ SurveySound(m.survey)
  BY DEF Sound
<1>3. ResultSound(res)
  BY <1>2, AdvanceSurveySound
<1>4. PICK s : s = res.s
  OBVIOUS
<1>5. SurveySound(s) /\ (res.kind \in {"Finished", "Timeout", "Failure"} => ~s.running)
  BY <1>3, <1>4 DEF ResultSound
<1>6. PICK l : l = [m EXCEPT !.survey = s]
  OBVIOUS
<1>7. l = [survey |-> s, regions |-> m.regions, children |-> m.children, pool |-> m.pool,
           due |-> m.due, inbound |-> m.inbound, outbound |-> m.outbound,
           pollAgain |-> m.pollAgain, emitted |-> m.emitted]
  BY <1>2, <1>6 DEF IsMachine
<1>8. /\ res.kind = "FindCloser" => k = [l EXCEPT !.emitted = {FindEvent}]
      /\ res.kind \in {"Waiting", "Idle"} => k = [l EXCEPT !.due = TRUE]
      /\ res.kind = "Finished" =>
           k = StartRegionPublish([l EXCEPT !.due = FALSE, !.pollAgain = TRUE], res.region, res.nodes)
      /\ res.kind \in {"Timeout", "Failure"} => k = [l EXCEPT !.pollAgain = TRUE]
  BY <1>1, <1>4, <1>6 DEF SurveyState
<1>9. CASE res.kind = "FindCloser"
  <2>1. k = [l EXCEPT !.emitted = {FindEvent}]
    BY <1>8, <1>9
  <2>2. k = [survey |-> s, regions |-> m.regions, children |-> m.children, pool |-> m.pool,
             due |-> m.due, inbound |-> m.inbound, outbound |-> m.outbound,
             pollAgain |-> m.pollAgain, emitted |-> {FindEvent}]
    BY <1>7, <2>1
  <2> QED
    BY <1>5, <2>2, SurveySet
<1>10. CASE res.kind \in {"Waiting", "Idle"}
  <2>1. k = [l EXCEPT !.due = TRUE]
    BY <1>8, <1>10
  <2>2. k = [survey |-> s, regions |-> m.regions, children |-> m.children, pool |-> m.pool,
             due |-> TRUE, inbound |-> m.inbound, outbound |-> m.outbound,
             pollAgain |-> m.pollAgain, emitted |-> {}]
    BY <1>7, <2>1
  <2>3. Sound(k, R) /\ (Busy(m) => Busy(k)) /\ k.due = TRUE
    BY <1>5, <2>2, SurveySet
  <2> QED
    BY <2>3 DEF Dated
<1>11. CASE res.kind = "Finished"
  <2>1. PICK x : x = [l EXCEPT !.due = FALSE, !.pollAgain = TRUE]
    OBVIOUS
  <2>2. x = [survey |-> s, regions |-> m.regions, children |-> m.children, pool |-> m.pool,
             due |-> FALSE, inbound |-> m.inbound, outbound |-> m.outbound,
             pollAgain |-> TRUE, emitted |-> {}]
    BY <1>7, <2>1
  <2>3. Sound(x, R) /\ (Busy(m) => Busy(x)) /\ x.survey = s
    BY <1>5, <2>2, SurveySet
  <2>4. k = StartRegionPublish(x, res.region, res.nodes)
    BY <1>8, <1>11, <2>1
  <2>5. Sound(k, R) /\ (Busy(x) => Busy(k)) /\ k.survey = x.survey
    BY <2>3, <2>4, StartRegionSound
  <2> QED
    BY <1>5, <1>11, <2>3, <2>5 DEF Dated
<1>12. CASE res.kind \in {"Timeout", "Failure"}
  <2>1. k = [l EXCEPT !.pollAgain = TRUE]
    BY <1>8, <1>12
  <2>2. k = [survey |-> s, regions |-> m.regions, children |-> m.children, pool |-> m.pool,
             due |-> m.due, inbound |-> m.inbound, outbound |-> m.outbound,
             pollAgain |-> TRUE, emitted |-> {}]
    BY <1>7, <2>1
  <2>3. Sound(k, R) /\ (Busy(m) => Busy(k)) /\ k.survey = s
    BY <1>5, <2>2, SurveySet
  <2> QED
    BY <1>5, <1>12, <2>3 DEF Dated
<1> QED
  BY <1>3, <1>9, <1>10, <1>11, <1>12 DEF ResultSound
-----------------------------------------------------------------------------
(* Perform *)

\* An outbound event.
LEMMA PopOutboundSound ==
  ASSUME NEW R, NEW m, Sound(m, R), m.emitted = {}, NEW k, k = PopOutbound(m)
  PROVE  /\ Sound(k, R)
         /\ k.survey = m.survey /\ k.regions = m.regions /\ k.due = m.due /\ k.pool = m.pool
<1>1. CASE m.outbound = 0
  BY <1>1 DEF PopOutbound
<1>2. CASE m.outbound # 0
  <2>1. PICK ev : ev = Event("Notice", NoChild, <<>>)
    OBVIOUS
  <2>2. IsMachine(m)
    BY DEF Sound
  <2>3. k = [m EXCEPT !.outbound = @ - 1, !.emitted = {ev}]
    BY <1>2, <2>1 DEF PopOutbound
  <2>4. k = [survey |-> m.survey, regions |-> m.regions, children |-> m.children, pool |-> m.pool,
             due |-> m.due, inbound |-> m.inbound, outbound |-> m.outbound - 1,
             pollAgain |-> m.pollAgain, emitted |-> {ev}]
    BY <2>2, <2>3 DEF IsMachine
  <2>5. IsMachine(k)
    BY <2>4 DEF IsMachine
  <2>6. /\ k.survey = m.survey /\ k.regions = m.regions /\ k.children = m.children
        /\ k.pool = m.pool /\ k.due = m.due /\ k.inbound = m.inbound /\ k.emitted = {ev}
    BY <2>4
  <2>7. Awaited(k, R \cup Items(k.inbound) \cup k.emitted)
    <3>1. Awaited(m, R \cup Items(m.inbound) \cup {})
      BY DEF Sound
    <3> QED
      BY <2>6, <3>1 DEF Awaited
  <2>8. \A e \in k.emitted : k.emitted = {e} /\ e.kind \in {"Notice", "Find", "Store"}
    <3>1. ev.kind = "Notice"
      BY <2>1 DEF Event
    <3> QED
      BY <2>6, <3>1
  <2> QED
    BY <2>5, <2>6, <2>7, <2>8 DEF Sound
<1> QED
  BY <1>1, <1>2

\* The requests, and among them the one that the first inbound event answers.
Covers(m, R, T) ==
  /\ R \subseteq T
  /\ \A c, n : Event("Store", c, n) = Head(m.inbound) => Head(m.inbound) \in T

\* The first inbound event is taken from the queue, and with it the answer it may be.
LEMMA InboundTaken ==
  ASSUME NEW R, NEW m, Sound(m, R), m.emitted = {}, m.inbound # <<>>, NEW o,
         NEW T, Covers(m, R, T),
         NEW k, k = [survey |-> m.survey, regions |-> m.regions, children |-> m.children,
                     pool |-> m.pool, due |-> m.due, inbound |-> Tail(m.inbound),
                     outbound |-> o, pollAgain |-> m.pollAgain, emitted |-> m.emitted]
  PROVE  Sound(k, T) /\ k.emitted = {}
<1>1. IsMachine(k)
  BY DEF IsMachine
<1>2. /\ k.survey = m.survey /\ k.regions = m.regions /\ k.children = m.children
      /\ k.pool = m.pool /\ k.inbound = Tail(m.inbound) /\ k.emitted = {}
  OBVIOUS
<1>3. /\ k.inbound \in Seq(Items(k.inbound))
      /\ Items(m.inbound) \subseteq Items(k.inbound) \cup {Head(m.inbound)}
  <2>1. m.inbound \in Seq(Items(m.inbound))
    BY DEF Sound
  <2> QED
    BY <1>2, <2>1, Dropped
<1>4. Awaited(k, T \cup Items(k.inbound) \cup k.emitted)
  <2>1. Awaited(m, R \cup Items(m.inbound) \cup {})
    BY DEF Sound
  <2>2. ASSUME NEW d \in DOMAIN m.pool, NEW i \in m.pool[d].waiting
        PROVE  Event("Store", d, i) \in T \cup Items(k.inbound)
    <3>1. Event("Store", d, i) \in R \cup Items(m.inbound)
      BY <2>1 DEF Awaited
    <3> QED
      BY <1>3, <3>1 DEF Covers
  <2> QED
    BY <1>2, <2>2 DEF Awaited
<1> QED
  BY <1>1, <1>2, <1>3, <1>4 DEF Sound

\* An inbound event.
LEMMA PerformNextInboundSound ==
  ASSUME NEW R, NEW m, Sound(m, R), m.emitted = {}, NEW k \in PerformNextInbound(m)
  PROVE  Sound(k, R)
<1>1. CASE m.inbound = <<>>
  BY <1>1 DEF PerformNextInbound
<1>2. CASE m.inbound # <<>>
  <2>1. PICK ev : ev = Head(m.inbound)
    OBVIOUS
  <2>2. PICK x : x = [m EXCEPT !.inbound = Tail(@)]
    OBVIOUS
  <2>3. PICK y : y = [x EXCEPT !.outbound = @ + 1]
    OBVIOUS
  <2>4. IsMachine(m)
    BY DEF Sound
  <2>5. x = [survey |-> m.survey, regions |-> m.regions, children |-> m.children, pool |-> m.pool,
             due |-> m.due, inbound |-> Tail(m.inbound), outbound |-> m.outbound,
             pollAgain |-> m.pollAgain, emitted |-> m.emitted]
    BY <2>2, <2>4 DEF IsMachine
  <2>6. y = [survey |-> m.survey, regions |-> m.regions, children |-> m.children, pool |-> m.pool,
             due |-> m.due, inbound |-> Tail(m.inbound), outbound |-> m.outbound + 1,
             pollAgain |-> m.pollAgain, emitted |-> m.emitted]
    BY <2>3, <2>5
  <2>7. k \in (IF ev.kind = "Find" THEN PollSurvey(x)
               ELSE UNION {AnswerStatic(l, ev.child, ev.node) : l \in {x, y}})
    BY <1>2, <2>1, <2>2, <2>3 DEF PerformNextInbound
  <2>8. CASE ev.kind = "Find"
    <3>1. Covers(m, R, R)
      BY <2>1, <2>8, Events DEF Covers
    <3>2. Sound(x, R) /\ x.emitted = {}
      BY <1>2, <2>5, <3>1, InboundTaken
    <3>3. k \in PollSurvey(x)
      BY <2>7, <2>8
    <3> QED
      BY <3>2, <3>3, PollSurveySound
  <2>9. CASE ev.kind # "Find"
    <3>1. PICK T : T = R \cup {Event("Store", ev.child, ev.node)}
      OBVIOUS
    <3>2. Covers(m, R, T)
      BY <2>1, <3>1, Events DEF Covers
    <3>3. Sound(x, T) /\ x.emitted = {}
      BY <1>2, <2>5, <3>2, InboundTaken
    <3>4. Sound(y, T) /\ y.emitted = {}
      BY <1>2, <2>6, <3>2, InboundTaken
    <3>5. k \in AnswerStatic(x, ev.child, ev.node) \/ k \in AnswerStatic(y, ev.child, ev.node)
      BY <2>7, <2>9
    <3> QED
      BY <3>1, <3>3, <3>4, <3>5, AnswerStaticSound
  <2> QED
    BY <2>8, <2>9
<1> QED
  BY <1>1, <1>2

\* The steps of Perform: a behaviour that returns no event has nothing left to do.
LEMMA PerformedSound ==
  ASSUME NEW R, NEW m, Sound(m, R), m.emitted = {}, NEW k \in Performed(m)
  PROVE  Sound(k, R) /\ (k.emitted = {} => Quiet(k) /\ Dated(k))
<1>1. PICK a : a = PopOutbound(m)
  OBVIOUS
<1>2. Sound(a, R)
  BY <1>1, PopOutboundSound
<1> DEFINE afterInbound == IF a.emitted # {} THEN {a} ELSE PerformNextInbound(a)
           afterRegions == UNION {IF l.emitted # {} THEN {l} ELSE AdvanceRegions(l) : l \in afterInbound}
           afterSurvey  == UNION {IF l.emitted # {} THEN {l} ELSE PollSurvey(l) : l \in afterRegions}
           afterPool    == UNION {IF l.emitted # {} THEN {l} ELSE PollPool(l) : l \in afterSurvey}
<1>3. PICK e \in afterPool : k = IF e.emitted # {} THEN e ELSE PopOutbound(e)
  BY <1>1 DEF Performed
<1> HIDE DEF afterInbound, afterRegions, afterSurvey, afterPool
<1>4. ASSUME NEW b \in afterInbound PROVE Sound(b, R)
  BY <1>2, <1>4, PerformNextInboundSound DEF afterInbound
<1>5. ASSUME NEW c \in afterRegions PROVE Sound(c, R) /\ (c.emitted = {} => Busy(c))
  <2>1. PICK b \in afterInbound : c \in (IF b.emitted # {} THEN {b} ELSE AdvanceRegions(b))
    BY DEF afterRegions
  <2> QED
    BY <1>4, <2>1, AdvanceRegionsSound
<1>6. ASSUME NEW d \in afterSurvey PROVE Sound(d, R) /\ (d.emitted = {} => Busy(d) /\ Dated(d))
  <2>1. PICK c \in afterRegions : d \in (IF c.emitted # {} THEN {c} ELSE PollSurvey(c))
    BY DEF afterSurvey
  <2> QED
    BY <1>5, <2>1, PollSurveySound
<1>7. Sound(e, R) /\ (e.emitted = {} => Quiet(e) /\ Dated(e))
  <2>1. PICK d \in afterSurvey : e \in (IF d.emitted # {} THEN {d} ELSE PollPool(d))
    BY DEF afterPool
  <2>2. CASE d.emitted # {}
    BY <1>6, <2>1, <2>2
  <2>3. CASE d.emitted = {}
    <3>1. /\ Sound(e, R) /\ e.survey = d.survey /\ e.regions = d.regions /\ e.due = d.due
          /\ e.emitted = {} => \A c \in DOMAIN e.pool : e.pool[c].todo = {}
      BY <1>6, <2>1, <2>3, PollPoolSound
    <3> QED
      BY <1>6, <2>3, <3>1 DEF Quiet, Busy, Dated
  <2> QED
    BY <2>2, <2>3
<1>8. CASE e.emitted # {}
  BY <1>3, <1>7, <1>8
<1>9. CASE e.emitted = {}
  <2>1. k = PopOutbound(e)
    BY <1>3, <1>9
  <2>2. /\ Sound(k, R)
        /\ k.survey = e.survey /\ k.regions = e.regions /\ k.due = e.due /\ k.pool = e.pool
    BY <1>7, <1>9, <2>1, PopOutboundSound
  <2> QED
    BY <1>7, <1>9, <2>2 DEF Quiet, Busy, Dated
<1> QED
  BY <1>8, <1>9
-----------------------------------------------------------------------------
(* The steps *)

\* The behaviour between two turns, with the answers that have joined the queue and the time
\* that has passed.
Between(m, s, in, due, out) ==
  [survey |-> s, regions |-> m.regions, children |-> m.children, pool |-> m.pool,
   due |-> due, inbound |-> in, outbound |-> out, pollAgain |-> FALSE, emitted |-> {}]

\* No request that was on its way is lost.
Carried(m, R, T, in) ==
  \A c, n : Event("Store", c, n) \in R \cup Items(m.inbound) \cup m.emitted
             => Event("Store", c, n) \in T \cup Items(in)

\* The behaviour between two turns is sound when no request is lost.
LEMMA BetweenSound ==
  ASSUME NEW R, NEW m, Sound(m, R), NEW s, SurveySound(s), NEW in, in \in Seq(Items(in)),
         NEW due, NEW out, NEW T, Carried(m, R, T, in),
         NEW k, k = Between(m, s, in, due, out)
  PROVE  Sound(k, T)
<1>1. k = [survey |-> s, regions |-> m.regions, children |-> m.children, pool |-> m.pool,
           due |-> due, inbound |-> in, outbound |-> out, pollAgain |-> FALSE, emitted |-> {}]
  BY DEF Between
<1>2. IsMachine(k)
  BY <1>1 DEF IsMachine
<1>3. /\ k.survey = s /\ k.regions = m.regions /\ k.children = m.children /\ k.pool = m.pool
      /\ k.inbound = in /\ k.emitted = {}
  BY <1>1
<1>4. Awaited(k, T \cup Items(k.inbound) \cup k.emitted)
  <2>1. Awaited(m, R \cup Items(m.inbound) \cup m.emitted)
    BY DEF Sound
  <2> QED
    BY <1>3, <2>1 DEF Awaited, Carried
<1> QED
  BY <1>2, <1>3, <1>4 DEF Sound

\* A new behaviour.
LEMMA InitSound == Init => IInv
<1> SUFFICES ASSUME Init PROVE IInv
  OBVIOUS
<1>1. IsABag(stores)
  BY DEF Init, EmptyBag, IsABag, SetToBag
<1>2. PICK k : k = Machine
  OBVIOUS
<1>3. /\ k = [survey |-> NewSurvey, regions |-> <<>>, children |-> {}, pool |-> <<>>,
              due |-> FALSE, inbound |-> <<>>, outbound |-> 0, pollAgain |-> FALSE, emitted |-> {}]
  BY <1>2 DEF Init, Machine
<1>4. IsMachine(k)
  BY <1>3 DEF IsMachine
<1>5. SurveySound(NewSurvey)
  <2>1. IsSurvey(NewSurvey) /\ NewSurvey.table = NewTable /\ NewSurvey.seeded = FALSE
    BY DEF IsSurvey, NewSurvey
  <2> QED
    BY <2>1, NewTableSound DEF SurveySound
<1>6. Maps(<<>>) /\ DOMAIN <<>> = {} /\ <<>> \in Seq(Items(<<>>))
  BY DEF Maps, Items
<1>7. /\ k.survey = NewSurvey /\ k.regions = <<>> /\ k.children = {} /\ k.pool = <<>>
      /\ k.inbound = <<>> /\ k.emitted = {}
  BY <1>3
<1>8. Sound(k, Unanswered)
  BY <1>4, <1>5, <1>6, <1>7 DEF Sound, Awaited
<1> QED
  BY <1>1, <1>2, <1>8 DEF Init, IInv

\* An answer joins the queue or is lost.
LEMMA NotifySound ==
  ASSUME NEW q, q \in Seq(Items(q)), NEW ev, Notify(q, ev)
  PROVE  /\ inbound' \in Seq(Items(inbound')) /\ Len(q) \in Nat
         /\ inbound' = q \/ Len(inbound') = Len(q) + 1
         /\ lost \cup Items(q) \subseteq lost' \cup Items(inbound')
         /\ ev.kind = "Store" => ev \in lost' \cup Items(inbound')
<1>1. Len(q) \in Nat
  OBVIOUS
<1>2. CASE inbound' = Append(q, ev) /\ lost' = lost \ {ev}
  <2>1. inbound' \in Seq(Items(inbound')) /\ Items(inbound') = Items(q) \cup {ev}
    BY <1>2, Appended
  <2>2. Len(inbound') = Len(q) + 1
    BY <1>2
  <2> QED
    BY <1>1, <1>2, <2>1, <2>2
<1>3. CASE inbound' = q /\ IF ev.kind = "Store" THEN lost' = lost \cup {ev} ELSE lost' = lost
  BY <1>1, <1>3
<1> QED
  BY <1>2, <1>3 DEF Notify

\* The turn of Perform that returns no event.
LEMMA RestSound ==
  ASSUME IInv, NEW m \in Performed(Machine), m.emitted = {},
         survey' = m.survey, regions' = m.regions, children' = m.children, pool' = m.pool,
         surveyDue' = m.due, outbound' = m.outbound, inbound' = m.inbound,
         ready' = (m.pollAgain \/ m.outbound > 0 \/ m.inbound # <<>>),
         timer' = IF ready' THEN timer ELSE m.due,
         stores' = stores, lost' = lost
  PROVE  IInv'
<1>1. Sound(m, Unanswered) /\ Quiet(m) /\ Dated(m)
  <2>1. Sound(Machine, Unanswered) /\ Machine.emitted = {}
    BY DEF IInv, Machine
  <2> QED
    BY <2>1, PerformedSound
<1>2. PICK k : k = Machine'
  OBVIOUS
<1>3. k = Between(m, m.survey, m.inbound, m.due, m.outbound)
  BY <1>2 DEF Machine, Between
<1>4. Sound(k, Unanswered)
  <2>1. SurveySound(m.survey) /\ m.inbound \in Seq(Items(m.inbound))
    BY <1>1 DEF Sound
  <2>2. Carried(m, Unanswered, Unanswered, m.inbound)
    BY DEF Carried
  <2> QED
    BY <1>1, <1>3, <2>1, <2>2, BetweenSound
<1>5. Quiet(k)
  <2>1. k.regions = m.regions /\ k.pool = m.pool
    BY <1>3 DEF Between
  <2> QED
    BY <1>1, <2>1 DEF Quiet, Busy
<1>6. ~ready' => (survey'.running => timer')
  BY <1>1 DEF Dated
<1>7. IsABag(stores') /\ Unanswered' = Unanswered
  BY DEF IInv, Unanswered
<1>8. Sound(Machine', Unanswered') /\ Quiet(Machine')
  BY <1>2, <1>4, <1>5, <1>7
<1> QED
  BY <1>6, <1>7, <1>8 DEF IInv

\* The turn of Perform that returns an event, which the network takes or refuses.
LEMMA DispatchSound ==
  ASSUME IInv, NEW m \in Performed(Machine), NEW ev \in m.emitted, Dispatch(m, ev),
         survey' = m.survey, regions' = m.regions, children' = m.children, pool' = m.pool,
         surveyDue' = m.due, outbound' = m.outbound, ready' = TRUE
  PROVE  IInv'
<1>1. Sound(m, Unanswered) /\ IsABag(stores)
  <2>1. Sound(Machine, Unanswered) /\ Machine.emitted = {}
    BY DEF IInv, Machine
  <2> QED
    BY <2>1, PerformedSound DEF IInv
<1>2. /\ m.emitted = {ev} /\ ev.kind \in {"Notice", "Find", "Store"}
      /\ SurveySound(m.survey) /\ m.inbound \in Seq(Items(m.inbound))
      /\ Awaited(m, Unanswered \cup Items(m.inbound) \cup m.emitted)
  BY <1>1 DEF Sound
<1>3. /\ IsABag(stores') /\ inbound' \in Seq(Items(inbound'))
      /\ Carried(m, Unanswered, Unanswered', inbound')
  <2>1. CASE ev.kind = "Notice"
    <3>1. inbound' = m.inbound /\ stores' = stores /\ lost' = lost
      BY <2>1 DEF Dispatch
    <3> QED
      BY <1>1, <1>2, <2>1, <3>1, Events DEF Carried, Unanswered
  <2>2. CASE Notify(m.inbound, ev) /\ stores' = stores
    <3>1. /\ inbound' \in Seq(Items(inbound'))
          /\ lost \cup Items(m.inbound) \subseteq lost' \cup Items(inbound')
          /\ ev.kind = "Store" => ev \in lost' \cup Items(inbound')
      BY <1>2, <2>2, NotifySound
    <3> QED
      BY <1>1, <1>2, <2>2, <3>1, Events DEF Carried, Unanswered
  <2>3. CASE ev.kind = "Find"
    <3>1. \/ inbound' = m.inbound /\ stores' = stores /\ lost' = lost
          \/ Notify(m.inbound, ev) /\ stores' = stores
      BY <2>3 DEF Dispatch
    <3> QED
      BY <1>1, <1>2, <2>2, <2>3, <3>1, Events DEF Carried, Unanswered
  <2>4. CASE ev.kind = "Store"
    <3>1. \/ inbound' = m.inbound /\ stores' = stores (+) SetToBag({ev}) /\ lost' = lost \ {ev}
          \/ Notify(m.inbound, ev) /\ stores' = stores
      BY <2>4 DEF Dispatch
    <3>2. CASE inbound' = m.inbound /\ stores' = stores (+) SetToBag({ev}) /\ lost' = lost \ {ev}
      <4>1. IsABag(stores') /\ BagToSet(stores') = BagToSet(stores) \cup {ev}
        BY <1>1, <3>2, BagJoins
      <4> QED
        BY <1>2, <3>2, <4>1 DEF Carried, Unanswered
    <3> QED
      BY <2>2, <3>1, <3>2
  <2> QED
    BY <1>2, <2>1, <2>3, <2>4
<1>4. PICK k : k = Machine'
  OBVIOUS
<1>5. k = Between(m, m.survey, inbound', m.due, m.outbound)
  BY <1>4 DEF Machine, Between
<1>6. Sound(k, Unanswered')
  BY <1>1, <1>2, <1>3, <1>5, BetweenSound
<1>7. Sound(Machine', Unanswered')
  BY <1>4, <1>6
<1> QED
  BY <1>3, <1>7 DEF IInv

\* What changes between two turns: answers join the queue and time passes.
LEMMA OutsideSound ==
  ASSUME IInv, IsABag(stores'), inbound' \in Seq(Items(inbound')),
         Carried(Machine, Unanswered, Unanswered', inbound'),
         SurveySound(survey'), survey'.running = survey.running,
         UNCHANGED <<regions, children, pool, surveyDue, outbound>>,
         ready' = TRUE \/ UNCHANGED <<ready, timer>>
  PROVE  IInv'
<1>1. Sound(Machine, Unanswered)
  BY DEF IInv
<1>2. PICK k : k = Machine'
  OBVIOUS
<1>3. k = Between(Machine, survey', inbound', surveyDue, outbound)
  BY <1>2 DEF Machine, Between
<1>4. Sound(k, Unanswered')
  BY <1>1, <1>3, BetweenSound
<1>5. Sound(Machine', Unanswered')
  BY <1>2, <1>4
<1>6. Quiet(Machine) => Quiet(Machine')
  BY DEF Quiet, Busy, Machine
<1> QED
  BY <1>5, <1>6 DEF IInv

\* The steps.
LEMMA StepSound == IInv /\ [Next]_vars => IInv'
<1> SUFFICES ASSUME IInv, [Next]_vars PROVE IInv'
  OBVIOUS
<1>1. IsABag(stores) /\ Sound(Machine, Unanswered)
  BY DEF IInv
<1>2. inbound \in Seq(Items(inbound)) /\ SurveySound(survey) /\ Machine.inbound = inbound /\ Machine.emitted = {}
  <2>1. Machine.inbound = inbound /\ Machine.survey = survey /\ Machine.emitted = {}
    BY DEF Machine
  <2> QED
    BY <1>1, <2>1 DEF Sound
<1>3. CASE Perform
  <2>1. PICK m \in Performed(Machine) :
          /\ survey' = m.survey /\ regions' = m.regions /\ children' = m.children /\ pool' = m.pool
          /\ surveyDue' = m.due /\ outbound' = m.outbound
          /\ \/ /\ m.emitted = {}
                /\ inbound' = m.inbound
                /\ ready' = (m.pollAgain \/ m.outbound > 0 \/ m.inbound # <<>>)
                /\ timer' = IF ready' THEN timer ELSE m.due
                /\ UNCHANGED <<finds, stores, lost>>
             \/ /\ \E ev \in m.emitted : Dispatch(m, ev)
                /\ ready' = TRUE
                /\ UNCHANGED timer
    BY <1>3 DEF Perform
  <2>2. CASE m.emitted = {} /\ stores' = stores /\ lost' = lost
    BY <2>1, <2>2, RestSound
  <2>3. CASE m.emitted # {}
    BY <2>1, <2>3, DispatchSound
  <2> QED
    BY <2>1, <2>2, <2>3
<1>4. CASE AnswerFind
  <2>1. Notify(inbound, FindEvent) /\ stores' = stores
    BY <1>4 DEF AnswerFind
  <2>2. /\ inbound' \in Seq(Items(inbound')) /\ Len(inbound) \in Nat
        /\ inbound' = inbound \/ Len(inbound') = Len(inbound) + 1
        /\ lost \cup Items(inbound) \subseteq lost' \cup Items(inbound')
    BY <1>2, <2>1, NotifySound
  <2>3. Carried(Machine, Unanswered, Unanswered', inbound')
    BY <1>2, <2>1, <2>2 DEF Carried, Unanswered
  <2>4. ready' = TRUE \/ UNCHANGED <<ready, timer>>
    BY <1>4 DEF AnswerFind
  <2> QED
    BY <1>1, <1>2, <1>4, <2>1, <2>2, <2>3, <2>4, OutsideSound DEF AnswerFind
<1>5. ASSUME NEW ev \in BagToSet(stores), AnswerStore(ev) PROVE IInv'
  <2>1. Notify(inbound, ev) /\ stores' = stores (-) SetToBag({ev})
    BY <1>5 DEF AnswerStore
  <2>2. /\ inbound' \in Seq(Items(inbound'))
        /\ lost \cup Items(inbound) \subseteq lost' \cup Items(inbound')
        /\ ev.kind = "Store" => ev \in lost' \cup Items(inbound')
    BY <1>2, <2>1, NotifySound
  <2>3. IsABag(stores') /\ BagToSet(stores) \subseteq BagToSet(stores') \cup {ev}
    BY <1>1, <2>1, BagLeaves
  <2>4. Carried(Machine, Unanswered, Unanswered', inbound')
    BY <1>2, <2>2, <2>3, Events DEF Carried, Unanswered
  <2>5. ready' = TRUE \/ UNCHANGED <<ready, timer>>
    BY <1>5 DEF AnswerStore
  <2> QED
    BY <1>2, <1>5, <2>2, <2>3, <2>4, <2>5, OutsideSound DEF AnswerStore
<1>6. ASSUME UNCHANGED <<inbound, stores, lost>>
      PROVE  Carried(Machine, Unanswered, Unanswered', inbound')
  BY <1>2, <1>6 DEF Carried, Unanswered
<1>7. CASE Wake
  BY <1>1, <1>2, <1>6, <1>7, OutsideSound DEF Wake
<1>8. CASE Fire
  BY <1>1, <1>2, <1>6, <1>8, OutsideSound DEF Fire
<1>9. ASSUME SurveySound(survey'), survey'.running = survey.running,
             UNCHANGED <<regions, children, pool, surveyDue, inbound, outbound, ready, timer, finds, stores, lost>>
      PROVE  IInv'
  BY <1>1, <1>2, <1>6, <1>9, OutsideSound
<1>10. CASE Tick(FallDue)
  <2>1. survey' = [survey EXCEPT !.late = @ + 1]
    BY <1>10 DEF Tick, FallDue
  <2>2. SurveySound(survey') /\ survey'.running = survey.running
    <3>1. survey' = [table |-> survey.table, seeded |-> survey.seeded, sched |-> survey.sched,
                     late |-> survey.late + 1, running |-> survey.running,
                     region |-> survey.region, sent |-> survey.sent, expired |-> survey.expired]
      BY <1>2, <2>1 DEF SurveySound, IsSurvey
    <3> QED
      BY <1>2, <3>1, SurveyKept
  <2> QED
    BY <1>9, <1>10, <2>2 DEF Tick
<1>11. CASE Tick(Expire)
  <2>1. survey' = [survey EXCEPT !.expired = TRUE]
    BY <1>11 DEF Tick, Expire
  <2>2. SurveySound(survey') /\ survey'.running = survey.running
    <3>1. survey' = [table |-> survey.table, seeded |-> survey.seeded, sched |-> survey.sched,
                     late |-> survey.late, running |-> survey.running,
                     region |-> survey.region, sent |-> survey.sent, expired |-> TRUE]
      BY <1>2, <2>1 DEF SurveySound, IsSurvey
    <3> QED
      BY <1>2, <3>1, SurveyKept
  <2> QED
    BY <1>9, <1>11, <2>2 DEF Tick
<1>12. CASE UNCHANGED vars
  BY <1>1, <1>2, <1>6, <1>12, OutsideSound DEF vars
<1> QED
  BY <1>3, <1>4, <1>5, <1>7, <1>8, <1>10, <1>11, <1>12 DEF Next
-----------------------------------------------------------------------------
(* The theorems *)

\* The inductive invariant: what regions, pool and requests say of each other, and what is
\* done when the behaviour comes to rest.
THEOREM Inductive == Spec => []IInv
<1>1. Init => IInv
  BY InitSound
<1>2. IInv /\ [Next]_vars => IInv'
  BY StepSound
<1> QED
  BY <1>1, <1>2, PTL DEF Spec

\* The survey between two turns is sound.
LEMMA MachineSurvey ==
  ASSUME IInv
  PROVE  SurveySound(survey)
<1>1. Machine.survey = survey
  BY DEF Machine
<1> QED
  BY <1>1 DEF IInv, Sound

\* The slots of a region publish are freed: what it waits for is in the pool under its name,
\* and the pool waits for answers that are on their way, or were dropped.
THEOREM SlotsAreAlwaysFreed == Spec => []SlotsAreFreed
<1>1. IInv => SlotsAreFreed
  <2> SUFFICES ASSUME IInv PROVE SlotsAreFreed
    OBVIOUS
  <2>1. /\ Machine.regions = regions /\ Machine.children = children /\ Machine.pool = pool
        /\ Machine.inbound = inbound /\ Machine.emitted = {}
    BY DEF Machine
  <2>2. /\ \A p \in DOMAIN regions : RegionSound(regions[p], p, children)
        /\ children = DOMAIN pool
        /\ Awaited(Machine, Unanswered \cup Items(inbound))
    BY <2>1 DEF IInv, Sound
  <2>3. ASSUME NEW c \in DOMAIN pool, NEW n \in pool[c].waiting
        PROVE  \/ BagIn(Event("Store", c, n), stores)
               \/ Contains(inbound, Event("Store", c, n))
               \/ Event("Store", c, n) \in lost
    <3>1. Event("Store", c, n) \in Unanswered \cup Items(inbound)
      BY <2>1, <2>2 DEF Awaited
    <3> QED
      BY <3>1 DEF BagIn, Contains, Items, Unanswered
  <2> QED
    BY <2>2, <2>3 DEF SlotsAreFreed, RegionSound
<1> QED
  BY <1>1, Inductive, PTL

\* A region publish keeps going: when the event loop sleeps, one that has started a key waits
\* for one, and the pool has asked every node it is to ask.
THEOREM RegionsAlwaysGoOn == Spec => []RegionsKeepGoing
<1>1. IInv => RegionsKeepGoing
  BY DEF IInv, Quiet, Busy, Machine, RegionsKeepGoing
<1> QED
  BY <1>1, Inductive, PTL

\* The event loop does not sleep through a survey: while one runs, the ready timer is armed.
THEOREM RunningSurveyAlwaysWoken == Spec => []RunningSurveyWoken
<1>1. IInv => RunningSurveyWoken
  BY DEF IInv, RunningSurveyWoken
<1> QED
  BY <1>1, Inductive, PTL
\* The regions tile the keyspace: every key has its region and no other, whatever surveys
\* have split and merged, and every region has its place in the schedule.
THEOREM RegionsAlwaysTile == Spec => []RegionsTile
<1>1. IInv => RegionsTile
  <2> SUFFICES ASSUME IInv PROVE RegionsTile
    OBVIOUS
  <2>1. SurveySound(survey)
    BY MachineSurvey
  <2>2. /\ DOMAIN survey.table \subseteq Prefix
        /\ \A k \in Key : \E p \in DOMAIN survey.table :
             Starts(p, k) /\ \A q \in DOMAIN survey.table : Starts(q, k) => q = p
    BY <2>1 DEF SurveySound, TableSound, Tiles
  <2>3. ASSUME NEW k \in Key PROVE Cardinality({p \in DOMAIN survey.table : IsPrefix(p, k)}) = 1
    <3>1. PICK p \in DOMAIN survey.table :
            Starts(p, k) /\ \A q \in DOMAIN survey.table : Starts(q, k) => q = p
      BY <2>2
    <3>2. ASSUME NEW q \in DOMAIN survey.table PROVE IsPrefix(q, k) <=> Starts(q, k)
      BY <2>2, KeyIsPrefix, StartsIsPrefix
    <3>3. {q \in DOMAIN survey.table : IsPrefix(q, k)} = {p}
      BY <3>1, <3>2
    <3> QED
      BY <3>3, FS_Singleton
  <2> QED
    BY <2>1, <2>3 DEF RegionsTile, SurveySound
<1> QED
  BY <1>1, Inductive, PTL

\* No region of several keys is too large: a survey splits it to the last part that is, and
\* what it merges was sparse.
THEOREM PopulationsAlwaysBounded == Spec => []PopulationsBounded
<1>1. IInv => PopulationsBounded
  <2> SUFFICES ASSUME IInv, NEW p \in DOMAIN survey.table, Len(p) < BitLen
               PROVE  survey.table[p] <= Max({MaxPopulation, 2 * MinPopulation})
    BY DEF PopulationsBounded
  <2>1. SurveySound(survey)
    BY MachineSurvey
  <2>2. /\ survey.table[p] \in Int
        /\ survey.table[p] <= MaxPopulation \/ survey.table[p] <= 2 * MinPopulation
    BY <2>1 DEF SurveySound, TableSound, Populated
  <2>3. PICK a, b : a = MaxPopulation /\ b = 2 * MinPopulation
    OBVIOUS
  <2>4. a \in Nat /\ b \in Nat
    BY <2>3, PrefixTableAssumption
  <2>5. Max({a, b}) \in {a, b} /\ \A x \in {a, b} : Max({a, b}) >= x
    <3>1. \E x \in {a, b} : \A y \in {a, b} : x >= y
      BY <2>4
    <3> QED
      BY <3>1 DEF Max
  <2> QED
    BY <2>2, <2>3, <2>4, <2>5
<1> QED
  BY <1>1, Inductive, PTL
=============================================================================
