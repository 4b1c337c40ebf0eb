----------------------------- MODULE QueryProofs ------------------------------
(***************************************************************************)
(* Lemmas about QueryAdvance, what an event, the walk that follows it and  *)
(* the clock leave of one query, and from them what holds of one query for *)
(* every set of nodes and every configuration.                             *)
(*                                                                         *)
(* The inductive invariant ties the counters to the states of the nodes    *)
(* (Sound) and remembers, of a query that ended by itself, that it left    *)
(* nothing open that it had heard of and that was closer than its result   *)
(* (Final).  That this is so when the walk ends the query needs no         *)
(* history: it follows from where the walk stopped (WalkFinal), and        *)
(* nothing moves afterwards.                                               *)
(***************************************************************************)
EXTENDS Query, FiniteSetTheorems, WellFoundedInduction, TLAPS

\* CountsExact, of any query.
Counted(x) ==
  /\ x.inFlight = Cardinality(In(x, "Waiting"))
  /\ x.inFlight <= Concurrency
  /\ x.requests = x.success + x.failure + x.inFlight

Sound(x) == x \in QueryType /\ Counted(x)

\* MovesForward, from one query to another.
Forward(x, y) ==
  \A n \in Node : y.state[n] = x.state[n] \/ Stage(x.state[n]) < Stage(y.state[n])
-----------------------------------------------------------------------------
(* Numbers and finite sets *)

\* A set of natural numbers has a least element, as the order is well-founded.
LEMMA LeastNat ==
  ASSUME NEW S \in SUBSET Nat, S # {}
  PROVE  \E n \in S : \A m \in S : n <= m
<1> DEFINE R == OpToRel(<, Nat)
<1>1. IsWellFoundedOn(R, Nat)
  BY NatLessThanWellFounded
<1>2. \A x, y \in Nat : x < y => <<x, y>> \in R
  BY DEF OpToRel
<1> HIDE DEF R
<1>3. PICK n \in S : \A m \in S : ~ (<<m, n>> \in R)
  BY <1>1, WFMin
<1>4. \A m \in S : ~(m < n)
  BY <1>2, <1>3
<1> QED
  BY <1>4

\* Nearest picks the least of a set of nodes, or of times that are not NoTime.
LEMMA NearestSound ==
  ASSUME NEW S \in SUBSET Int, S # {}, \A t \in S : t >= Past
  PROVE  Nearest(S) \in S /\ \A t \in S : Nearest(S) <= t
<1> DEFINE U == {t + 1 : t \in S}
<1>1. \A t \in S : t \in Int /\ t + 1 \in Nat
  BY DEF Past
<1>2. U \in SUBSET Nat /\ U # {}
  BY <1>1
<1>3. PICK u \in U : \A v \in U : u <= v
  BY <1>2, LeastNat
<1>4. PICK t \in S : u = t + 1
  OBVIOUS
<1>5. \A v \in S : v + 1 \in U
  OBVIOUS
<1> HIDE DEF U
<1>6. \A v \in S : t + 1 <= v + 1
  BY <1>3, <1>4, <1>5
<1>7. \A v \in S : t <= v
  BY <1>1, <1>6
<1> QED
  BY <1>7 DEF Nearest

\* The nodes are natural numbers, finitely many.
LEMMA Nodes ==
  ASSUME NEW S \in SUBSET Node
  PROVE  IsFiniteSet(S) /\ Cardinality(S) \in Nat /\ S \in SUBSET Nat /\ S \in SUBSET Int
<1>1. Node \in SUBSET Nat /\ IsFiniteSet(Node)
  BY QueryAssumption
<1>2. IsFiniteSet(S)
  BY <1>1, FS_Subset
<1>3. Cardinality(S) \in Nat
  BY <1>2, FS_CardinalityType
<1> QED
  BY <1>1, <1>2, <1>3

\* The nearest of some nodes is one of them, and none of them is nearer.
LEMMA NearestNode ==
  ASSUME NEW S \in SUBSET Node, S # {}
  PROVE  Nearest(S) \in S /\ \A t \in S : Nearest(S) <= t
<1>1. S \in SUBSET Int /\ \A t \in S : t >= Past
  BY Nodes DEF Past
<1> QED
  BY <1>1, NearestSound

\* The nodes in one state are finitely many.
LEMMA InFinite ==
  ASSUME NEW x, NEW st
  PROVE  /\ In(x, st) \in SUBSET Node /\ IsFiniteSet(In(x, st))
         /\ Cardinality(In(x, st)) \in Nat
<1>1. In(x, st) \in SUBSET Node
  BY DEF In
<1> QED
  BY <1>1, Nodes

\* The bounds of the times are integers, in order.
LEMMA Bounds ==
  /\ Concurrency \in Nat /\ Concurrency > 0 /\ NumResults \in Nat /\ NumResults > 0
  /\ RequestTimeout \in Nat /\ RequestTimeout > 0 /\ Timeout \in Nat /\ Timeout > 0
BY QueryAssumption
-----------------------------------------------------------------------------
(* The events *)

\* A new query has asked nobody.
LEMMA NewQuerySound ==
  ASSUME NEW seeds \in SUBSET Node, NEW coverage \in BOOLEAN
  PROVE  Sound(NewQuery(seeds, coverage))
<1> DEFINE x == NewQuery(seeds, coverage)
<1>1. In(x, "Waiting") = {}
  BY DEF In, NewQuery
<1>2. x \in QueryType
  BY Bounds DEF NewQuery, QueryType, NodeState, NoTime, Past
<1>3. x.inFlight = 0 /\ x.requests = 0 /\ x.success = 0 /\ x.failure = 0
  BY DEF NewQuery
<1> HIDE DEF x
<1>4. Cardinality(In(x, "Waiting")) = 0
  BY <1>1, FS_EmptySet
<1>5. Counted(x)
  BY <1>3, <1>4, Bounds DEF Counted
<1> QED
  BY <1>2, <1>5 DEF Sound, x

\* Stages of the states.
LEMMA Stages ==
  /\ Stage("Unknown") = 0 /\ Stage("NotContacted") = 1 /\ Stage("Waiting") = 2
  /\ Stage("Unresponsive") = 3 /\ Stage("Failed") = 4 /\ Stage("Succeeded") = 4
BY DEF Stage

\* A query goes forward over several steps as it does over each.
LEMMA ForwardTransitive ==
  ASSUME NEW x \in QueryType, NEW y \in QueryType, NEW z \in QueryType,
         Forward(x, y), Forward(y, z)
  PROVE  Forward(x, z)
<1> SUFFICES ASSUME NEW n \in Node
             PROVE  z.state[n] = x.state[n] \/ Stage(x.state[n]) < Stage(z.state[n])
  BY DEF Forward
<1>1. x.state[n] \in NodeState /\ y.state[n] \in NodeState /\ z.state[n] \in NodeState
  BY DEF QueryType
<1>2. \A st \in NodeState : Stage(st) \in Nat
  BY Stages DEF NodeState
<1>3. y.state[n] = x.state[n] \/ Stage(x.state[n]) < Stage(y.state[n])
  BY DEF Forward
<1>4. z.state[n] = y.state[n] \/ Stage(y.state[n]) < Stage(z.state[n])
  BY DEF Forward
<1> QED
  BY <1>1, <1>2, <1>3, <1>4

\* A change of the states of an unfinished query that is typed and counted.
LEMMA Recounted ==
  ASSUME NEW x, Sound(x), NEW y \in QueryType, NEW freed \in SUBSET In(x, "Waiting"),
         In(y, "Waiting") = In(x, "Waiting") \ freed,
         y.inFlight = x.inFlight - Cardinality(freed),
         y.requests = x.requests,
         y.success + y.failure = x.success + x.failure + Cardinality(freed)
  PROVE  Sound(y)
<1>1. /\ IsFiniteSet(In(x, "Waiting")) /\ IsFiniteSet(freed)
      /\ Cardinality(In(x, "Waiting")) \in Nat /\ Cardinality(freed) \in Nat
  BY InFinite, Nodes
<1>2. Cardinality(In(y, "Waiting")) = Cardinality(In(x, "Waiting")) - Cardinality(freed)
  <2>1. In(x, "Waiting") \cap freed = freed
    OBVIOUS
  <2>2. Cardinality(In(x, "Waiting") \ freed)
          = Cardinality(In(x, "Waiting")) - Cardinality(In(x, "Waiting") \cap freed)
    BY <1>1, FS_Difference
  <2> QED
    BY <2>1, <2>2
<1>3. /\ x.inFlight \in Nat /\ y.inFlight \in Nat /\ x.requests \in Nat /\ y.requests \in Nat
      /\ x.success \in Nat /\ y.success \in Nat /\ x.failure \in Nat /\ y.failure \in Nat
  BY DEF Sound, QueryType
<1>4. Counted(y)
  BY <1>1, <1>2, <1>3, Bounds DEF Sound, Counted
<1> QED
  BY <1>4 DEF Sound

\* The fields that an event or a tick leaves alone.
SameQuery(x, y) ==
  /\ y.finished = x.finished /\ y.coverage = x.coverage
  /\ y.targetNodes = x.targetNodes

\* Freeing a slot leaves a number of slots in use.
LEMMA FreedSound ==
  ASSUME NEW x, Sound(x), NEW freed \in SUBSET In(x, "Waiting")
  PROVE  /\ IsFiniteSet(freed) /\ Cardinality(freed) \in Nat
         /\ x.inFlight - Cardinality(freed) \in Nat /\ x.inFlight \in Nat
<1>1. /\ IsFiniteSet(In(x, "Waiting")) /\ Cardinality(In(x, "Waiting")) \in Nat
      /\ x.inFlight = Cardinality(In(x, "Waiting"))
  BY InFinite DEF Sound, Counted
<1>2. IsFiniteSet(freed) /\ Cardinality(freed) <= Cardinality(In(x, "Waiting"))
  BY <1>1, FS_Subset
<1>3. Cardinality(freed) \in Nat
  BY <1>2, FS_CardinalityType
<1> QED
  BY <1>1, <1>2, <1>3

\* The slot of an answer in time.
LEMMA InTimeSound ==
  ASSUME NEW x \in QueryType, NEW n \in Node
  PROVE  InTime(x, n) = Cardinality({n} \cap In(x, "Waiting")) /\ InTime(x, n) \in Nat
<1>1. CASE x.state[n] = "Waiting"
  <2>1. {n} \cap In(x, "Waiting") = {n}
    BY <1>1 DEF In
  <2> QED
    BY <1>1, <2>1, FS_Singleton DEF InTime
<1>2. CASE x.state[n] # "Waiting"
  <2>1. {n} \cap In(x, "Waiting") = {}
    BY <1>2 DEF In
  <2> QED
    BY <1>2, <2>1, FS_EmptySet DEF InTime
<1> QED
  BY <1>1, <1>2

\* An answer is taken once, and only for a node that was asked.
LEMMA ResponseSound ==
  ASSUME NEW x, Sound(x), NEW n \in Node, NEW closer,
         NEW y, y = OnNodeResponse(x, n, closer)
  PROVE  Sound(y) /\ Forward(x, y) /\ SameQuery(x, y)
<1>1. x \in QueryType /\ x.state \in [Node -> NodeState] /\ x.left \in [Node -> Past..RequestTimeout]
  BY DEF Sound, QueryType
<1>2. CASE x.state[n] \notin {"Waiting", "Unresponsive"}
  <2>1. y = x
    BY <1>2 DEF OnNodeResponse
  <2> QED
    BY <2>1 DEF Forward, SameQuery
<1>3. CASE x.state[n] \in {"Waiting", "Unresponsive"}
  <2> DEFINE freed == {n} \cap In(x, "Waiting")
             add == AddCloser(x, closer)
             st == [add EXCEPT ![n] = "Succeeded"]
             lf == [x.left EXCEPT ![n] = 0]
             fl == x.inFlight - InTime(x, n)
             su == x.success + InTime(x, n)
  <2>1. y = [x EXCEPT !.state = st, !.left = lf, !.inFlight = fl, !.success = su]
    BY <1>3 DEF OnNodeResponse
  <2>2. /\ freed \in SUBSET In(x, "Waiting") /\ InTime(x, n) = Cardinality(freed)
        /\ InTime(x, n) \in Nat /\ x.inFlight - InTime(x, n) \in Nat
    BY <1>1, InTimeSound, FreedSound
  <2>3. /\ add \in [Node -> NodeState]
        /\ \A m \in Node : add[m] = x.state[m] \/ (x.state[m] = "Unknown" /\ add[m] = "NotContacted")
    BY <1>1 DEF AddCloser, NodeState
  <2> HIDE DEF add
  <2>4. /\ st \in [Node -> NodeState] /\ st[n] = "Succeeded"
        /\ \A m \in Node : m # n => st[m] = add[m]
    BY <2>3 DEF NodeState
  <2>5. lf \in [Node -> Past..RequestTimeout]
    BY <1>1, Bounds DEF Past
  <2>6. fl \in Nat /\ su \in Nat
    BY <1>1, <2>2 DEF QueryType
  <2> HIDE DEF st, lf, fl, su
  <2>7. /\ y \in QueryType /\ y.state = st /\ y.inFlight = fl /\ y.success = su
        /\ y.failure = x.failure /\ y.requests = x.requests
        /\ y.finished = x.finished /\ y.coverage = x.coverage /\ y.targetNodes = x.targetNodes
    BY <1>1, <2>1, <2>4, <2>5, <2>6 DEF QueryType
  <2>8. In(y, "Waiting") = In(x, "Waiting") \ freed
    BY <2>3, <2>4, <2>7 DEF In
  <2>9. /\ y.inFlight = x.inFlight - Cardinality(freed)
        /\ y.success + y.failure = x.success + x.failure + Cardinality(freed)
    <3>1. x.success \in Nat /\ x.failure \in Nat
      BY <1>1 DEF QueryType
    <3>2. fl = x.inFlight - InTime(x, n) /\ su = x.success + InTime(x, n)
      BY DEF fl, su
    <3> QED
      BY <2>2, <2>7, <3>1, <3>2
  <2> HIDE DEF freed
  <2>10. Sound(y)
    BY <2>2, <2>7, <2>8, <2>9, Recounted
  <2>11. Forward(x, y)
    BY <1>1, <1>3, <2>3, <2>4, <2>7, Stages DEF Forward
  <2> QED
    BY <2>7, <2>10, <2>11 DEF SameQuery
<1> QED
  BY <1>2, <1>3

\* A failure is taken once, and never for a node that has answered.
LEMMA FailureSound ==
  ASSUME NEW x, Sound(x), NEW n \in Node,
         NEW y, y = OnNodeFailure(x, n)
  PROVE  Sound(y) /\ Forward(x, y) /\ SameQuery(x, y)
<1>1. x \in QueryType /\ x.state \in [Node -> NodeState] /\ x.left \in [Node -> Past..RequestTimeout]
  BY DEF Sound, QueryType
<1>2. CASE x.state[n] \in {"Unknown", "Failed", "Succeeded"}
  <2>1. y = x
    BY <1>2 DEF OnNodeFailure
  <2> QED
    BY <2>1 DEF Forward, SameQuery
<1>3. CASE x.state[n] \notin {"Unknown", "Failed", "Succeeded"}
  <2> DEFINE freed == {n} \cap In(x, "Waiting")
             st == [x.state EXCEPT ![n] = "Failed"]
             lf == [x.left EXCEPT ![n] = 0]
             fl == x.inFlight - InTime(x, n)
             fa == x.failure + InTime(x, n)
  <2>1. y = [x EXCEPT !.state = st, !.left = lf, !.inFlight = fl, !.failure = fa]
    BY <1>3 DEF OnNodeFailure
  <2>2. /\ freed \in SUBSET In(x, "Waiting") /\ InTime(x, n) = Cardinality(freed)
        /\ InTime(x, n) \in Nat /\ x.inFlight - InTime(x, n) \in Nat
    BY <1>1, InTimeSound, FreedSound
  <2>4. /\ st \in [Node -> NodeState] /\ st[n] = "Failed"
        /\ \A m \in Node : m # n => st[m] = x.state[m]
    BY <1>1 DEF NodeState
  <2>5. lf \in [Node -> Past..RequestTimeout]
    BY <1>1, Bounds DEF Past
  <2>6. fl \in Nat /\ fa \in Nat
    BY <1>1, <2>2 DEF QueryType
  <2> HIDE DEF st, lf, fl, fa
  <2>7. /\ y \in QueryType /\ y.state = st /\ y.inFlight = fl /\ y.failure = fa
        /\ y.success = x.success /\ y.requests = x.requests
        /\ y.finished = x.finished /\ y.coverage = x.coverage /\ y.targetNodes = x.targetNodes
    BY <1>1, <2>1, <2>4, <2>5, <2>6 DEF QueryType
  <2>8. In(y, "Waiting") = In(x, "Waiting") \ freed
    BY <2>4, <2>7 DEF In
  <2>9. /\ y.inFlight = x.inFlight - Cardinality(freed)
        /\ y.success + y.failure = x.success + x.failure + Cardinality(freed)
    <3>1. x.success \in Nat /\ x.failure \in Nat
      BY <1>1 DEF QueryType
    <3>2. fl = x.inFlight - InTime(x, n) /\ fa = x.failure + InTime(x, n)
      BY DEF fl, fa
    <3> QED
      BY <2>2, <2>7, <3>1, <3>2
  <2> HIDE DEF freed
  <2>10. Sound(y)
    BY <2>2, <2>7, <2>8, <2>9, Recounted
  <2>11. Forward(x, y)
    <3>1. x.state[n] \in {"NotContacted", "Waiting", "Unresponsive"}
      BY <1>1, <1>3 DEF NodeState
    <3> QED
      BY <2>4, <2>7, <3>1, Stages DEF Forward
  <2> QED
    BY <2>7, <2>10, <2>11 DEF SameQuery
<1> QED
  BY <1>2, <1>3
-----------------------------------------------------------------------------
(* The walk *)

\* The walk gives up on expired nodes only, each of which frees its slot.
LEMMA MarkSound ==
  ASSUME NEW x, Sound(x), NEW r, r = MarkUnresponsive(x)
  PROVE  /\ Sound(r) /\ Forward(x, r) /\ SameQuery(x, r)
         /\ In(r, "Waiting") = In(x, "Waiting") \ (Expired(x) \cap Walked(x))
         /\ In(r, "NotContacted") = In(x, "NotContacted")
         /\ In(r, "Succeeded") = In(x, "Succeeded")
         /\ r.nextDue = x.nextDue /\ r.deadline = x.deadline
         /\ \A n \in In(r, "Waiting") : r.left[n] = x.left[n]
<1> DEFINE lost == Expired(x) \cap Walked(x)
           st == [n \in Node |-> IF n \in lost THEN "Unresponsive" ELSE x.state[n]]
           lf == [n \in Node |-> IF n \in lost THEN 0 ELSE x.left[n]]
           fl == x.inFlight - Cardinality(lost)
           fa == x.failure + Cardinality(lost)
<1>1. x \in QueryType /\ x.state \in [Node -> NodeState] /\ x.left \in [Node -> Past..RequestTimeout]
  BY DEF Sound, QueryType
<1>2. r = [x EXCEPT !.state = st, !.left = lf, !.inFlight = fl, !.failure = fa]
  BY DEF MarkUnresponsive
<1>3. lost \in SUBSET In(x, "Waiting")
  BY DEF Expired
<1> HIDE DEF lost
<1>4. Cardinality(lost) \in Nat /\ x.inFlight - Cardinality(lost) \in Nat
  BY <1>3, FreedSound
<1>5. \A n \in lost : n \in Node /\ x.state[n] = "Waiting"
  BY <1>3 DEF In
<1>6. /\ st \in [Node -> NodeState] /\ lf \in [Node -> Past..RequestTimeout]
      /\ \A n \in Node : /\ n \in lost => st[n] = "Unresponsive"
                         /\ n \notin lost => st[n] = x.state[n] /\ lf[n] = x.left[n]
  BY <1>1, Bounds DEF NodeState, Past
<1>7. fl \in Nat /\ fa \in Nat
  BY <1>1, <1>4 DEF QueryType
<1> HIDE DEF st, lf, fl, fa
<1>8. /\ r \in QueryType /\ r.state = st /\ r.left = lf /\ r.inFlight = fl /\ r.failure = fa
      /\ r.success = x.success /\ r.requests = x.requests
      /\ r.finished = x.finished /\ r.coverage = x.coverage /\ r.targetNodes = x.targetNodes
      /\ r.nextDue = x.nextDue /\ r.deadline = x.deadline
  BY <1>1, <1>2, <1>6, <1>7 DEF QueryType
<1>9. /\ In(r, "Waiting") = In(x, "Waiting") \ lost
      /\ In(r, "NotContacted") = In(x, "NotContacted")
      /\ In(r, "Succeeded") = In(x, "Succeeded")
  BY <1>5, <1>6, <1>8 DEF In
<1>10. /\ r.inFlight = x.inFlight - Cardinality(lost)
       /\ r.success + r.failure = x.success + x.failure + Cardinality(lost)
  <2>1. x.success \in Nat /\ x.failure \in Nat
    BY <1>1 DEF QueryType
  <2>2. fl = x.inFlight - Cardinality(lost) /\ fa = x.failure + Cardinality(lost)
    BY DEF fl, fa
  <2> QED
    BY <1>4, <1>8, <2>1, <2>2
<1>11. Sound(r)
  BY <1>3, <1>8, <1>9, <1>10, Recounted
<1>12. Forward(x, r)
  BY <1>5, <1>6, <1>8, Stages DEF Forward
<1>13. \A n \in In(r, "Waiting") : r.left[n] = x.left[n]
  BY <1>6, <1>8, <1>9 DEF In
<1> QED
  BY <1>8, <1>9, <1>11, <1>12, <1>13 DEF SameQuery, lost

\* markFinished keeps the counts, and settles on nodes of the network.
LEMMA FinishSound ==
  ASSUME NEW x, Sound(x), NEW r, r = Finish(x)
  PROVE  /\ Sound(r.query) /\ Forward(x, r.query)
         /\ r.kind = "Finished" /\ r.query.finished /\ r.query.coverage = x.coverage
         /\ r.query.targetNodes = TargetNodes(x) /\ r.query.state = x.state
         /\ r.query.nextDue = NoTime /\ r.query.inFlight = x.inFlight
<1> DEFINE y == MarkFinished(x)
           t == TargetNodes(x)
<1>1. r.query = y /\ r.kind = "Finished"
  BY DEF Finish, Ret
<1>2. x \in QueryType /\ Counted(x)
  BY DEF Sound
<1>3. t \in SUBSET Node
  BY DEF TargetNodes, In
<1>4. y = [x EXCEPT !.finished = TRUE, !.nextDue = NoTime, !.targetNodes = t]
  BY DEF MarkFinished
<1> HIDE DEF y, t
<1>5. /\ y \in QueryType /\ y.state = x.state /\ y.inFlight = x.inFlight
      /\ y.success = x.success /\ y.failure = x.failure /\ y.requests = x.requests
      /\ y.finished = TRUE /\ y.coverage = x.coverage /\ y.targetNodes = t /\ y.nextDue = NoTime
  <2>1. NoTime \in NoTime..RequestTimeout
    BY Bounds DEF NoTime
  <2> QED
    BY <1>2, <1>3, <1>4, <2>1 DEF QueryType
<1>6. In(y, "Waiting") = In(x, "Waiting")
  BY <1>5 DEF In
<1>7. Sound(y) /\ Forward(x, y)
  BY <1>2, <1>5, <1>6 DEF Sound, Counted, Forward
<1> QED
  BY <1>1, <1>5, <1>7 DEF t

\* The due time reported while waiting is the earliest request deadline.
LEMMA EarliestSound ==
  ASSUME NEW x \in QueryType
  PROVE  /\ EarliestNodeDeadline(x) \in NoTime..RequestTimeout
         /\ In(x, "Waiting") = {} <=> EarliestNodeDeadline(x) = NoTime
         /\ \A n \in In(x, "Waiting") : EarliestNodeDeadline(x) <= x.left[n]
<1> DEFINE w == {x.left[n] : n \in In(x, "Waiting")}
<1>1. \A n \in In(x, "Waiting") : x.left[n] \in Past..RequestTimeout /\ x.left[n] \in w
  BY DEF In, QueryType
<1>2. w \in SUBSET (Past..RequestTimeout)
  BY <1>1
<1>3. w = {} <=> In(x, "Waiting") = {}
  OBVIOUS
<1>4. w = {} => EarliestNodeDeadline(x) = NoTime
  BY DEF EarliestNodeDeadline
<1>5. w # {} => EarliestNodeDeadline(x) = Nearest(w)
  BY DEF EarliestNodeDeadline
<1> HIDE DEF w
<1>6. CASE w = {}
  BY <1>3, <1>4, <1>6, Bounds DEF NoTime
<1>7. CASE w # {}
  <2>1. w \in SUBSET Int /\ \A t \in w : t >= Past /\ t <= RequestTimeout
    BY <1>2, Bounds DEF Past
  <2>2. Nearest(w) \in w /\ \A t \in w : Nearest(w) <= t
    BY <1>7, <2>1, NearestSound
  <2>3. Nearest(w) \in Past..RequestTimeout
    BY <1>2, <2>2
  <2> QED
    BY <1>1, <1>3, <1>5, <1>7, <2>2, <2>3, Bounds DEF NoTime, Past
<1> QED
  BY <1>6, <1>7

\* A query that waits keeps its counts.
LEMMA WaitSound ==
  ASSUME NEW x, Sound(x), NEW kind, NEW r, r = Wait(x, kind)
  PROVE  /\ Sound(r.query) /\ Forward(x, r.query) /\ SameQuery(x, r.query)
         /\ r.kind = kind /\ r.query.inFlight = x.inFlight /\ r.query.deadline = x.deadline
         /\ r.query.state = x.state /\ r.query.left = x.left
         /\ r.query.nextDue = EarliestNodeDeadline(x)
<1> DEFINE d == EarliestNodeDeadline(x)
           y == [x EXCEPT !.nextDue = d]
<1>1. r.query = y /\ r.kind = kind
  BY DEF Wait, Ret
<1>2. x \in QueryType /\ Counted(x) /\ d \in NoTime..RequestTimeout
  BY EarliestSound DEF Sound
<1> HIDE DEF d
<1>3. /\ y \in QueryType /\ y.state = x.state /\ y.inFlight = x.inFlight
      /\ y.success = x.success /\ y.failure = x.failure /\ y.requests = x.requests
      /\ y.finished = x.finished /\ y.coverage = x.coverage /\ y.targetNodes = x.targetNodes
      /\ y.nextDue = d /\ y.left = x.left /\ y.deadline = x.deadline
  BY <1>2 DEF QueryType
<1> HIDE DEF y
<1>4. In(y, "Waiting") = In(x, "Waiting")
  BY <1>3 DEF In
<1>5. Sound(y) /\ Forward(x, y)
  BY <1>2, <1>3, <1>4 DEF Sound, Counted, Forward
<1> QED
  BY <1>1, <1>3, <1>5 DEF SameQuery, d

\* A request takes a free slot and is counted.
LEMMA ContactSound ==
  ASSUME NEW x, Sound(x), NEW n \in In(x, "NotContacted"), x.inFlight < Concurrency,
         NEW r, r = Contact(x, n)
  PROVE  /\ Sound(r.query) /\ Forward(x, r.query) /\ SameQuery(x, r.query)
         /\ r.kind = "FindCloser" /\ r.node = n /\ r.query.inFlight = x.inFlight + 1
<1> DEFINE st == [x.state EXCEPT ![n] = "Waiting"]
           lf == [x.left EXCEPT ![n] = RequestTimeout]
           fl == x.inFlight + 1
           rq == x.requests + 1
           dl == IF x.deadline = NoTime THEN Timeout ELSE x.deadline
           y == [x EXCEPT !.state = st, !.left = lf, !.inFlight = fl, !.requests = rq,
                          !.deadline = dl]
<1>1. r.query = y /\ r.kind = "FindCloser" /\ r.node = n
  BY DEF Contact, Ret
<1>2. /\ x \in QueryType /\ x.state \in [Node -> NodeState] /\ x.left \in [Node -> Past..RequestTimeout]
      /\ x.inFlight \in Nat /\ x.requests \in Nat /\ x.success \in Nat /\ x.failure \in Nat
      /\ x.inFlight = Cardinality(In(x, "Waiting"))
      /\ x.requests = x.success + x.failure + x.inFlight
  BY DEF Sound, Counted, QueryType
<1>3. n \in Node /\ x.state[n] = "NotContacted"
  BY DEF In
<1>4. /\ st \in [Node -> NodeState] /\ st[n] = "Waiting"
      /\ \A m \in Node : m # n => st[m] = x.state[m]
  BY <1>2, <1>3 DEF NodeState
<1>5. lf \in [Node -> Past..RequestTimeout]
  <2>1. RequestTimeout \in Past..RequestTimeout
    BY Bounds DEF Past
  <2> QED
    BY <1>2, <2>1
<1>6. fl \in Nat /\ rq \in Nat
  BY <1>2
<1>7. dl \in NoTime..Timeout
  BY <1>2, Bounds DEF QueryType, NoTime
<1>8. fl = x.inFlight + 1 /\ rq = x.requests + 1
  OBVIOUS
<1> HIDE DEF st, lf, fl, rq, dl
<1>9. /\ y \in QueryType /\ y.state = st /\ y.inFlight = fl /\ y.requests = rq
      /\ y.success = x.success /\ y.failure = x.failure
      /\ y.finished = x.finished /\ y.coverage = x.coverage /\ y.targetNodes = x.targetNodes
  BY <1>2, <1>4, <1>5, <1>6, <1>7 DEF QueryType
<1> HIDE DEF y
<1>10. In(y, "Waiting") = In(x, "Waiting") \cup {n} /\ n \notin In(x, "Waiting")
  BY <1>3, <1>4, <1>9 DEF In
<1>11. Cardinality(In(y, "Waiting")) = Cardinality(In(x, "Waiting")) + 1
  BY <1>10, InFinite, FS_AddElement
<1>12. Counted(y)
  BY <1>2, <1>8, <1>9, <1>11, Bounds DEF Counted
<1>13. Forward(x, y)
  BY <1>3, <1>4, <1>9, Stages DEF Forward
<1> QED
  BY <1>1, <1>8, <1>9, <1>12, <1>13 DEF Sound, SameQuery

\* Where the walk stops.
LEMMA StopsSound ==
  ASSUME NEW x \in QueryType, NEW n, Stops(x) # {}, n = Nearest(Stops(x))
  PROVE  n \in Node /\ StopsAt(x, n) /\ \A m \in Node : m < n => ~StopsAt(x, m)
<1>1. Stops(x) \in SUBSET Node
  BY DEF Stops
<1>2. n \in Stops(x) /\ \A m \in Stops(x) : n <= m
  BY <1>1, NearestNode
<1>3. Node \in SUBSET Int
  BY Nodes
<1> QED
  BY <1>2, <1>3 DEF Stops

\* What is known of a query after a walk, whatever the walk did.
LEMMA WalkSound ==
  ASSUME NEW x, Sound(x), ~x.finished, NEW w, w = Walk(x)
  PROVE  /\ Sound(w.query) /\ Forward(x, w.query) /\ w.query.coverage = x.coverage
         /\ w.kind \in RetKind /\ (w.query.finished <=> w.kind = "Finished")
<1> DEFINE r == MarkUnresponsive(x)
           n == Nearest(Stops(x))
<1>1. /\ Sound(r) /\ Forward(x, r) /\ SameQuery(x, r)
      /\ In(r, "NotContacted") = In(x, "NotContacted")
  BY MarkSound
<1>2. x \in QueryType /\ r \in QueryType
  BY <1>1 DEF Sound
<1>3. Stops(x) # {} => n \in Node
  BY <1>2, StopsSound
<1>4. \/ w = Finish(r)
      \/ w = Wait(r, "WaitingWithCapacity")
      \/ w = Wait(r, "WaitingAtCapacity")
      \/ /\ Stops(x) # {} /\ x.state[n] = "NotContacted" /\ r.inFlight < Concurrency
         /\ w = Contact(r, n)
  BY DEF Walk
<1> HIDE DEF r, n
<1>5. /\ Sound(w.query) /\ Forward(r, w.query) /\ w.query.coverage = r.coverage
      /\ w.kind \in RetKind /\ (w.query.finished <=> w.kind = "Finished")
  <2>1. CASE w = Finish(r)
    BY <1>1, <2>1, FinishSound DEF RetKind
  <2>2. ASSUME NEW kind \in {"WaitingWithCapacity", "WaitingAtCapacity"}, w = Wait(r, kind)
        PROVE  /\ Sound(w.query) /\ Forward(r, w.query) /\ w.query.coverage = r.coverage
               /\ w.kind \in RetKind /\ (w.query.finished <=> w.kind = "Finished")
    BY <1>1, <2>2, WaitSound DEF RetKind, SameQuery
  <2>3. CASE /\ Stops(x) # {} /\ x.state[n] = "NotContacted" /\ r.inFlight < Concurrency
             /\ w = Contact(r, n)
    <3>1. n \in In(r, "NotContacted")
      BY <1>1, <1>3, <2>3 DEF In
    <3> QED
      BY <1>1, <2>3, <3>1, ContactSound DEF RetKind, SameQuery
  <2> QED
    BY <1>4, <2>1, <2>2, <2>3
<1>6. Forward(x, w.query)
  BY <1>1, <1>2, <1>5, ForwardTransitive DEF Sound
<1> QED
  BY <1>1, <1>5, <1>6 DEF SameQuery
\* The clock moves the times and nothing else.
LEMMA ElapseSound ==
  ASSUME NEW x, Sound(x), NEW y, y = Elapse(x)
  PROVE  /\ Sound(y) /\ Forward(x, y) /\ SameQuery(x, y)
         /\ y.state = x.state /\ y.inFlight = x.inFlight
         /\ y.deadline = CountDown(x.deadline)
         /\ \A n \in In(x, "Waiting") : y.left[n] = CountDown(x.left[n])
<1> DEFINE lf == [n \in Node |-> IF x.state[n] = "Waiting"
                                 THEN CountDown(x.left[n]) ELSE x.left[n]]
           dl == CountDown(x.deadline)
           nd == CountDown(x.nextDue)
<1>1. x \in QueryType
  BY DEF Sound
<1>2. ASSUME NEW t \in Past..RequestTimeout PROVE CountDown(t) \in Past..RequestTimeout
  BY Bounds DEF CountDown, Past
<1>3. ASSUME NEW b \in Nat, NEW t \in NoTime..b PROVE CountDown(t) \in NoTime..b
  BY DEF CountDown, Past, NoTime
<1>4. x.left \in [Node -> Past..RequestTimeout]
  BY <1>1 DEF QueryType
<1>5. lf \in [Node -> Past..RequestTimeout]
  BY <1>2, <1>4
<1>6. dl \in NoTime..Timeout
  BY <1>1, <1>3, Bounds DEF QueryType
<1>7. nd \in NoTime..RequestTimeout
  BY <1>1, <1>3, Bounds DEF QueryType
<1>8. y = [x EXCEPT !.left = lf, !.deadline = dl, !.nextDue = nd]
  BY <1>1 DEF Elapse, QueryType
<1>9. \A n \in In(x, "Waiting") : lf[n] = CountDown(x.left[n])
  BY DEF In
<1> HIDE DEF lf, nd
<1>10. /\ y \in QueryType /\ y.state = x.state /\ y.inFlight = x.inFlight
      /\ y.requests = x.requests /\ y.success = x.success /\ y.failure = x.failure
      /\ y.finished = x.finished /\ y.coverage = x.coverage
      /\ y.targetNodes = x.targetNodes /\ y.left = lf /\ y.deadline = dl
  BY <1>1, <1>5, <1>6, <1>7, <1>8 DEF QueryType
<1>11. In(y, "Waiting") = In(x, "Waiting")
  BY <1>10 DEF In
<1> QED
  BY <1>10, <1>11, <1>9 DEF Sound, Counted, Forward, SameQuery
-----------------------------------------------------------------------------
(* The result *)

\* NothingCloserLeftOpen, of any query that ended by itself.
Open(x) == In(x, "NotContacted") \cup In(x, "Waiting")

Final(x) ==
  /\ ~x.coverage =>
       /\ Cardinality(x.targetNodes) <= NumResults
       /\ x.targetNodes \subseteq In(x, "Succeeded")
       /\ \A n \in In(x, "Succeeded") \ x.targetNodes : \A m \in x.targetNodes : m < n
       /\ Cardinality(x.targetNodes) < NumResults => Open(x) = {}
       /\ \A n \in Open(x) : \A m \in x.targetNodes : m < n
  /\ x.coverage =>
       /\ x.targetNodes = In(x, "Succeeded") \cap Region
       /\ Open(x) \cap Region = {}
       /\ x.targetNodes = {} => Cardinality(In(x, "Succeeded")) >= NumResults \/ Open(x) = {}

\* A non-empty set of nodes has a greatest element: the one with the fewest above it.
LEMMA GreatestNode ==
  ASSUME NEW S \in SUBSET Node, S # {}
  PROVE  \E n \in S : \A m \in S : m <= n
<1> DEFINE Above(n) == {k \in S : k > n}
           C == {Cardinality(Above(n)) : n \in S}
<1>1. S \in SUBSET Nat /\ IsFiniteSet(S)
  BY Nodes
<1>2. \A n \in S : IsFiniteSet(Above(n)) /\ Cardinality(Above(n)) \in Nat
  <2> SUFFICES ASSUME NEW n \in S PROVE IsFiniteSet(Above(n)) /\ Cardinality(Above(n)) \in Nat
    OBVIOUS
  <2>1. Above(n) \in SUBSET Node
    OBVIOUS
  <2> QED
    BY <2>1, Nodes
<1>3. C \in SUBSET Nat /\ C # {}
  BY <1>2
<1>4. PICK c \in C : \A d \in C : c <= d
  BY <1>3, LeastNat
<1>5. PICK n \in S : c = Cardinality(Above(n))
  OBVIOUS
<1>6. \A m \in S : Cardinality(Above(m)) \in C
  OBVIOUS
<1>7. \A m \in S : Cardinality(Above(n)) <= Cardinality(Above(m))
  BY <1>4, <1>5, <1>6
<1>8. ASSUME NEW m \in S, m > n PROVE FALSE
  <2>1. Above(m) \in SUBSET Above(n) /\ m \in Above(n) /\ m \notin Above(m)
    <3>1. m \in Nat /\ n \in Nat /\ \A k \in S : k \in Nat
      BY <1>1
    <3>2. \A k \in S : k > m => k > n
      BY <1>8, <3>1
    <3>3. ~(m > m)
      BY <3>1
    <3>4. Above(m) \in SUBSET Above(n)
      BY <3>2
    <3>5. m \in Above(n)
      BY <1>8
    <3>6. m \notin Above(m)
      BY <3>3
    <3> QED
      BY <3>4, <3>5, <3>6
  <2>2. Above(m) # Above(n)
    BY <2>1
  <2> HIDE DEF Above
  <2>3. /\ Cardinality(Above(m)) <= Cardinality(Above(n))
        /\ Cardinality(Above(n)) = Cardinality(Above(m)) => Above(n) = Above(m)
    BY <1>2, <2>1, FS_Subset
  <2> QED
    BY <1>2, <1>7, <2>2, <2>3
<1> QED
  BY <1>1, <1>8

\* The number of successes up to a node grows with the node, and at each success.
LEMMA SuccessesGrow ==
  ASSUME NEW x, NEW n \in Node, NEW m \in Node
  PROVE  /\ SuccessesTo(x, n) \in Nat
         /\ n <= m => SuccessesTo(x, n) <= SuccessesTo(x, m)
         /\ n < m /\ m \in In(x, "Succeeded") => SuccessesTo(x, n) < SuccessesTo(x, m)
<1> DEFINE A == In(x, "Succeeded") \cap UpTo(n)
           B == In(x, "Succeeded") \cap UpTo(m)
<1>1. n \in Nat /\ m \in Nat /\ Node \in SUBSET Nat
  BY Nodes
<1>2. A \in SUBSET Node /\ B \in SUBSET Node
  BY DEF UpTo
<1>3. IsFiniteSet(A) /\ IsFiniteSet(B) /\ Cardinality(A) \in Nat /\ Cardinality(B) \in Nat
  BY <1>2, Nodes
<1>4. ASSUME n <= m PROVE A \in SUBSET B
  <2>1. \A k \in Node : k <= n => k <= m
    BY <1>1, <1>4
  <2> QED
    BY <2>1 DEF UpTo
<1>5. n < m /\ m \in In(x, "Succeeded") => m \in B /\ m \notin A
  BY <1>1 DEF UpTo
<1>6. SuccessesTo(x, n) = Cardinality(A) /\ SuccessesTo(x, m) = Cardinality(B)
  BY DEF SuccessesTo
<1> HIDE DEF A, B
<1>7. n <= m => Cardinality(A) <= Cardinality(B)
  BY <1>3, <1>4, FS_Subset
<1>8. ASSUME n < m, m \in In(x, "Succeeded") PROVE Cardinality(A) < Cardinality(B)
  <2>1. n <= m
    BY <1>1, <1>8
  <2>2. A \in SUBSET B /\ A # B
    BY <1>4, <1>5, <1>8, <2>1
  <2>3. Cardinality(A) <= Cardinality(B) /\ (Cardinality(B) = Cardinality(A) => B = A)
    BY <1>3, <2>2, FS_Subset
  <2> QED
    BY <1>3, <2>2, <2>3
<1> QED
  BY <1>3, <1>6, <1>7, <1>8

\* markFinished settles on the nearest successes, at most NumResults of them.
LEMMA TargetSound ==
  ASSUME NEW x \in QueryType, ~x.coverage
  PROVE  /\ TargetNodes(x) \subseteq In(x, "Succeeded")
         /\ Cardinality(TargetNodes(x)) <= NumResults
         /\ \A n \in In(x, "Succeeded") \ TargetNodes(x) : \A m \in TargetNodes(x) : m < n
<1> DEFINE T == TargetNodes(x)
           S == In(x, "Succeeded")
<1>1. T = {n \in S : SuccessesTo(x, n) <= NumResults}
  BY DEF TargetNodes
<1>2. S \in SUBSET Node /\ T \in SUBSET Node /\ Node \in SUBSET Nat /\ T \subseteq S
  BY <1>1, InFinite, Nodes
<1> HIDE DEF T, S
<1>3. ASSUME NEW n \in S \ T, NEW m \in T PROVE m < n
  <2>1. /\ n \in Node /\ m \in Node /\ n \in Nat /\ m \in Nat
        /\ SuccessesTo(x, m) <= NumResults /\ ~(SuccessesTo(x, n) <= NumResults)
    BY <1>1, <1>2
  <2>2. /\ SuccessesTo(x, m) \in Nat /\ SuccessesTo(x, n) \in Nat
        /\ n <= m => SuccessesTo(x, n) <= SuccessesTo(x, m)
    BY <2>1, SuccessesGrow
  <2> QED
    BY <2>1, <2>2, Bounds
<1>4. Cardinality(T) <= NumResults
  <2>1. CASE T = {}
    BY <2>1, FS_EmptySet, Bounds
  <2>2. CASE T # {}
    <3>1. PICK t \in T : \A m \in T : m <= t
      BY <1>2, <2>2, GreatestNode
    <3> DEFINE U == S \cap UpTo(t)
    <3>2. U \in SUBSET Node /\ T \in SUBSET U
      BY <1>2, <3>1 DEF UpTo
    <3>3. Cardinality(U) = SuccessesTo(x, t)
      BY DEF SuccessesTo, S
    <3> HIDE DEF U
    <3>4. IsFiniteSet(U) /\ Cardinality(U) \in Nat /\ Cardinality(T) \in Nat
      BY <1>2, <3>2, Nodes
    <3>5. Cardinality(T) <= Cardinality(U)
      BY <3>2, <3>4, FS_Subset
    <3> QED
      BY <1>1, <3>1, <3>3, <3>4, <3>5, Bounds
  <2> QED
    BY <2>1, <2>2
<1> QED
  BY <1>2, <1>3, <1>4 DEF T, S

\* If there are NumResults successes up to n, the result is full and goes no farther.
LEMMA TargetFull ==
  ASSUME NEW x \in QueryType, ~x.coverage, NEW n \in In(x, "Succeeded"),
         SuccessesTo(x, n) >= NumResults
  PROVE  Cardinality(TargetNodes(x)) >= NumResults /\ \A m \in TargetNodes(x) : m <= n
<1> DEFINE T == TargetNodes(x)
           S == In(x, "Succeeded")
           F == {k \in S : SuccessesTo(x, k) >= NumResults}
<1>1. T = {k \in S : SuccessesTo(x, k) <= NumResults}
  BY DEF TargetNodes
<1>2. S \in SUBSET Node /\ T \in SUBSET Node /\ Node \in SUBSET Nat /\ n \in S
  BY <1>1, InFinite, Nodes
<1>3. F \in SUBSET Nat /\ F # {}
  BY <1>2
<1>4. PICK t \in F : \A k \in F : t <= k
  BY <1>3, LeastNat
<1>5. t \in S /\ SuccessesTo(x, t) >= NumResults /\ t \in Node
  BY <1>2
<1>6. \A k \in S : SuccessesTo(x, k) >= NumResults => k \in F
  OBVIOUS
<1>7. SuccessesTo(x, n) \in Nat /\ SuccessesTo(x, t) \in Nat
  BY <1>2, <1>5, SuccessesGrow
<1> HIDE DEF F
<1> DEFINE U == S \cap UpTo(t)
<1>8. Cardinality(U) = SuccessesTo(x, t)
  BY DEF SuccessesTo
<1> HIDE DEF T, S
<1>9. U \in SUBSET Node /\ t \in U
  BY <1>2, <1>5 DEF UpTo
<1>10. IsFiniteSet(U) /\ Cardinality(U) \in Nat
  BY <1>9, Nodes
<1>11. SuccessesTo(x, t) <= NumResults
  <2> SUFFICES ASSUME SuccessesTo(x, t) > NumResults PROVE FALSE
    BY <1>7, Bounds
  <2> DEFINE V == U \ {t}
  <2>1. Cardinality(V) = Cardinality(U) - 1 /\ V \in SUBSET Node /\ IsFiniteSet(V)
    BY <1>9, <1>10, FS_RemoveElement
  <2>2. Cardinality(V) >= NumResults
    BY <1>7, <1>8, <2>1, Bounds
  <2>3. V # {}
    BY <2>2, FS_EmptySet, Bounds
  <2>4. PICK v \in V : \A k \in V : k <= v
    <3> HIDE DEF V
    <3> QED
      BY <2>1, <2>3, GreatestNode
  <2>5. v \in S /\ v \in Node /\ v < t
    BY <1>2, <1>5, <2>4 DEF UpTo
  <2>6. V \in SUBSET (S \cap UpTo(v))
    BY <2>1, <2>4 DEF UpTo
  <2>7. /\ S \cap UpTo(v) \in SUBSET Node
        /\ Cardinality(S \cap UpTo(v)) = SuccessesTo(x, v)
    BY DEF SuccessesTo, S, UpTo
  <2> HIDE DEF V
  <2>8. Cardinality(V) <= Cardinality(S \cap UpTo(v))
    BY <2>6, <2>7, Nodes, FS_Subset
  <2>9. SuccessesTo(x, v) \in Nat /\ Cardinality(V) \in Nat
    BY <2>1, <2>5, SuccessesGrow, Nodes
  <2>10. v \in F
    BY <1>6, <2>2, <2>5, <2>7, <2>8, <2>9, Bounds
  <2> QED
    BY <1>2, <1>4, <1>5, <2>5, <2>10
<1>12. U \subseteq T
  <2> SUFFICES ASSUME NEW k \in U PROVE k \in T
    OBVIOUS
  <2>1. k \in S /\ k \in Node /\ k <= t
    BY <1>9 DEF UpTo
  <2>2. SuccessesTo(x, k) \in Nat /\ SuccessesTo(x, k) <= SuccessesTo(x, t)
    BY <1>5, <2>1, SuccessesGrow
  <2> QED
    BY <1>1, <1>7, <1>11, <2>1, <2>2, Bounds
<1>13. Cardinality(T) >= NumResults
  <2>1. IsFiniteSet(T) /\ Cardinality(T) \in Nat
    BY <1>2, Nodes
  <2> HIDE DEF U
  <2>2. Cardinality(U) <= Cardinality(T)
    BY <1>12, <2>1, FS_Subset
  <2> QED
    BY <1>5, <1>7, <1>8, <1>10, <2>1, <2>2, Bounds
<1>14. ASSUME NEW m \in T PROVE m <= n
  <2>1. m \in S /\ m \in Node /\ m \in Nat /\ n \in Nat /\ n \in Node /\ SuccessesTo(x, m) <= NumResults
    BY <1>1, <1>2
  <2>2. SuccessesTo(x, m) \in Nat /\ (n < m => SuccessesTo(x, n) < SuccessesTo(x, m))
    BY <2>1, SuccessesGrow DEF S
  <2> QED
    BY <1>7, <2>1, <2>2, Bounds
<1> QED
  BY <1>13, <1>14 DEF T

\* A walk that ends the query leaves nothing that could change its result.
LEMMA WalkFinal ==
  ASSUME NEW x, Sound(x), ~x.finished, NEW w, w = Walk(x), w.kind = "Finished"
  PROVE  Final(w.query)
<1> DEFINE r == MarkUnresponsive(x)
           n == Nearest(Stops(x))
<1>1. /\ Sound(r) /\ SameQuery(x, r)
      /\ In(r, "Waiting") = In(x, "Waiting") \ (Expired(x) \cap Walked(x))
      /\ In(r, "NotContacted") = In(x, "NotContacted")
      /\ In(r, "Succeeded") = In(x, "Succeeded")
  BY MarkSound
<1>2. x \in QueryType /\ r \in QueryType /\ r.coverage \in BOOLEAN /\ r.coverage = x.coverage
  BY <1>1 DEF Sound, QueryType, SameQuery
<1>3. \/ Stops(x) = {} /\ ~(r.inFlight > 0) /\ w = Finish(r)
      \/ Stops(x) # {} /\ FinishesAt(x, n) /\ w = Finish(r)
  BY DEF Walk, Wait, Contact, Ret
<1>4. Stops(x) # {} => n \in Node /\ StopsAt(x, n) /\ \A m \in Node : m < n => ~StopsAt(x, m)
  BY <1>2, StopsSound
<1>5. Stops(x) # {} => Walked(x) = Nearer(n)
  BY DEF Walked
<1>6. Node \in SUBSET Nat
  BY Nodes
<1> HIDE DEF r, n
<1>7. /\ w.query.targetNodes = TargetNodes(r) /\ w.query.coverage = r.coverage
      /\ In(w.query, "Succeeded") = In(r, "Succeeded") /\ Open(w.query) = Open(r)
  <2>1. /\ w.query.targetNodes = TargetNodes(r) /\ w.query.coverage = r.coverage
        /\ w.query.state = r.state
    BY <1>1, <1>3, FinishSound
  <2> QED
    BY <2>1 DEF In, Open
<1>8. CASE Stops(x) = {} /\ ~(r.inFlight > 0)
  <2>1. In(r, "Waiting") = {}
    <3>1. r.inFlight = Cardinality(In(r, "Waiting")) /\ r.inFlight \in Nat
      BY <1>1 DEF Sound, Counted, QueryType
    <3>2. Cardinality(In(r, "Waiting")) = 0
      BY <1>8, <3>1
    <3> QED
      BY <3>2, InFinite, FS_EmptySet
  <2>2. In(r, "NotContacted") = {}
    BY <1>1, <1>8 DEF Stops, StopsAt, In
  <2>3. Open(r) = {}
    BY <2>1, <2>2 DEF Open
  <2>4. CASE ~r.coverage
    BY <1>2, <1>7, <2>3, <2>4, TargetSound DEF Final
  <2>5. CASE r.coverage
    <3>1. TargetNodes(r) = In(r, "Succeeded") \cap Region
      BY <2>5 DEF TargetNodes
    <3> QED
      BY <1>7, <2>3, <2>5, <3>1 DEF Final
  <2> QED
    BY <2>4, <2>5
<1>9. CASE Stops(x) # {} /\ EnoughResults(x, n)
  <2>1. /\ ~r.coverage /\ n \in In(r, "Succeeded") /\ x.state[n] = "Succeeded"
        /\ Live(x) \cap Nearer(n) = {} /\ SuccessesTo(r, n) >= NumResults
    BY <1>1, <1>2, <1>4, <1>9 DEF EnoughResults, Progressing, In, SuccessesTo
  <2>2. Cardinality(TargetNodes(r)) >= NumResults /\ \A m \in TargetNodes(r) : m <= n
    BY <1>2, <2>1, TargetFull
  <2>3. TargetNodes(r) \in SUBSET Node /\ Cardinality(TargetNodes(r)) \in Nat
    <3>1. TargetNodes(r) \in SUBSET Node
      BY DEF TargetNodes, In
    <3> QED
      BY <3>1, Nodes
  <2>4. ASSUME NEW o \in Open(r) PROVE n < o
    <3>1. o \in Node /\ n \in Node /\ o \in Nat /\ n \in Nat
      BY <1>4, <1>6, <1>9 DEF Open, In
    <3>2. CASE o \in In(x, "NotContacted")
      <4>1. StopsAt(x, o) /\ o # n
        BY <2>1, <3>2 DEF StopsAt, In
      <4> QED
        BY <1>4, <1>9, <3>1, <4>1
    <3>3. CASE o \in In(r, "Waiting")
      <4>1. o \in In(x, "Waiting") /\ ~(o \in Expired(x) /\ o \in Nearer(n)) /\ o # n
        BY <1>1, <1>5, <1>9, <2>1, <3>3 DEF In
      <4>2. o \notin Nearer(n)
        BY <2>1, <4>1 DEF Live
      <4> QED
        BY <3>1, <4>1, <4>2 DEF Nearer
    <3> QED
      BY <1>1, <3>2, <3>3 DEF Open
  <2>5. \A o \in Open(r) : \A m \in TargetNodes(r) : m < o
    <3> SUFFICES ASSUME NEW o \in Open(r), NEW m \in TargetNodes(r) PROVE m < o
      OBVIOUS
    <3>1. o \in Nat /\ n \in Nat /\ m \in Nat
      BY <1>4, <1>6, <1>9, <2>3 DEF Open, In
    <3> QED
      BY <2>2, <2>4, <3>1
  <2>6. ~(Cardinality(TargetNodes(r)) < NumResults)
    BY <2>2, <2>3, Bounds
  <2> QED
    BY <1>2, <1>7, <2>1, <2>5, <2>6, TargetSound DEF Final
<1>10. CASE Stops(x) # {} /\ RegionExhausted(x, n)
  <2>1. /\ r.coverage /\ n \notin Region /\ Live(x) \cap Nearer(n) = {}
        /\ \/ In(r, "Succeeded") \cap Region \cap Nearer(n) # {}
           \/ SuccessesTo(r, n) >= NumResults
    BY <1>1, <1>2, <1>10 DEF RegionExhausted, Progressing, SuccessesTo
  <2>2. TargetNodes(r) = In(r, "Succeeded") \cap Region
    BY <2>1 DEF TargetNodes
  <2>3. \A m \in Region : m \in Node /\ m \in Nearer(n)
    <3> SUFFICES ASSUME NEW m \in Region PROVE m \in Node /\ m \in Nearer(n)
      OBVIOUS
    <3>1. m \in Node /\ n \in Node /\ m \in Nat /\ n \in Nat /\ ~(n < m)
      BY <1>4, <1>6, <1>10, <2>1, QueryAssumption
    <3> QED
      BY <2>1, <3>1 DEF Nearer
  <2>4. ASSUME NEW o \in Open(r) \cap Region PROVE FALSE
    <3>1. o \in Node /\ o \in Nearer(n) /\ o < n
      BY <2>3 DEF Nearer
    <3>2. CASE o \in In(x, "NotContacted")
      <4>1. StopsAt(x, o)
        BY <3>2 DEF StopsAt, In
      <4> QED
        BY <1>4, <1>10, <3>1, <4>1
    <3>3. CASE o \in In(r, "Waiting")
      <4>1. o \in In(x, "Waiting") /\ o \notin Expired(x)
        BY <1>1, <1>5, <1>10, <3>1, <3>3
      <4> QED
        BY <2>1, <3>1, <4>1 DEF Live
    <3> QED
      BY <1>1, <3>2, <3>3 DEF Open
  <2>5. ASSUME TargetNodes(r) = {} PROVE Cardinality(In(r, "Succeeded")) >= NumResults
    <3>1. SuccessesTo(r, n) >= NumResults
      BY <2>1, <2>2, <2>5
    <3>2. Cardinality(In(r, "Succeeded") \cap UpTo(n)) <= Cardinality(In(r, "Succeeded"))
      BY InFinite, FS_Subset
    <3>3. Cardinality(In(r, "Succeeded")) \in Nat /\ Cardinality(In(r, "Succeeded") \cap UpTo(n)) \in Nat
      <4>1. In(r, "Succeeded") \cap UpTo(n) \in SUBSET Node
        BY InFinite
      <4> QED
        BY <4>1, InFinite, Nodes
    <3> QED
      BY <3>1, <3>2, <3>3, Bounds DEF SuccessesTo
  <2> QED
    BY <1>7, <2>1, <2>2, <2>4, <2>5 DEF Final
<1> QED
  BY <1>3, <1>8, <1>9, <1>10 DEF FinishesAt
-----------------------------------------------------------------------------
(* One query *)

QueryInv ==
  /\ Sound(q)
  /\ ret \in RetType
  /\ cancelled \in BOOLEAN
  /\ q.finished /\ ~cancelled => Final(q)

\* What one event leaves of the query: sound, nothing taken back, nothing at all
\* changed once it has finished.
Keeps(x, y) ==
  /\ Sound(y)
  /\ Forward(x, y)
  /\ x.finished => y = x
-----------------------------------------------------------------------------
\* Whatever event turned x into y, the state it emits is well formed, keeps x, and
\* ends the query only with a final result.
LEMMA OutcomeSound ==
  ASSUME NEW x, Sound(x), NEW y, Sound(y), Forward(x, y), SameQuery(x, y),
         NEW r, r = Outcome(x, y)
  PROVE  /\ Keeps(x, r.query) /\ r.kind \in RetKind
         /\ r.query.finished /\ ~x.finished => Final(r.query)
<1>1. CASE x.finished
  <2>1. r.query = x /\ r.kind = "Finished"
    BY <1>1 DEF Outcome, Ret
  <2>2. Forward(x, x)
    BY DEF Forward
  <2> QED
    BY <1>1, <2>1, <2>2 DEF Keeps, RetKind
<1>2. CASE ~x.finished
  <2>1. r = Walk(y) /\ ~y.finished
    BY <1>2 DEF Outcome, SameQuery
  <2>2. /\ Sound(r.query) /\ Forward(y, r.query) /\ r.kind \in RetKind
        /\ (r.query.finished <=> r.kind = "Finished")
    BY <2>1, WalkSound
  <2>3. Forward(x, r.query)
    BY <2>2, ForwardTransitive DEF Sound
  <2>4. r.query.finished => Final(r.query)
    BY <2>1, <2>2, WalkFinal
  <2> QED
    BY <1>2, <2>2, <2>3, <2>4 DEF Keeps
<1> QED
  BY <1>1, <1>2
-----------------------------------------------------------------------------
\* An event that turned the query into y, and the walk that follows.
LEMMA AdvanceKeeps ==
  ASSUME QueryInv, NEW y, Sound(y), Forward(q, y), SameQuery(q, y), Advance(y)
  PROVE  QueryInv' /\ Keeps(q, q')
<1> DEFINE r == Outcome(q, y)
<1>1. Sound(q) /\ ret \in RetType /\ cancelled \in BOOLEAN
  BY DEF QueryInv
<1>2. /\ Keeps(q, r.query) /\ r.kind \in RetKind
      /\ r.query.finished /\ ~q.finished => Final(r.query)
  BY <1>1, OutcomeSound
<1>3. /\ q' = r.query /\ ret' = [kind |-> r.kind, nextDue |-> r.query.nextDue]
      /\ cancelled' = cancelled
  BY DEF Advance, Returns
<1> HIDE DEF r
<1>4. ret' \in RetType
  BY <1>2, <1>3 DEF RetType, Keeps, Sound, QueryType
<1> QED
  BY <1>1, <1>2, <1>3, <1>4 DEF QueryInv, Keeps

\* The inductive step: one case per event.  Each also shows that nothing known of
\* a node is taken back.
LEMMA Step ==
  ASSUME QueryInv, QueryNext
  PROVE  QueryInv' /\ Keeps(q, q')
<1>1. Sound(q) /\ q \in QueryType /\ ret \in RetType /\ cancelled \in BOOLEAN
  BY DEF QueryInv, Sound
<1>2. Forward(q, q) /\ SameQuery(q, q)
  BY DEF Forward, SameQuery
<1>3. CASE QueryPoll
  BY <1>1, <1>2, <1>3, AdvanceKeeps DEF QueryPoll
<1>4. ASSUME NEW n \in Node, NEW closer \in Carried(n), Response(n, closer)
      PROVE  QueryInv' /\ Keeps(q, q')
  <2> DEFINE y == OnNodeResponse(q, n, closer)
  <2>1. Sound(y) /\ Forward(q, y) /\ SameQuery(q, y)
    BY <1>1, ResponseSound
  <2>2. Advance(y)
    BY <1>4 DEF Response
  <2> HIDE DEF y
  <2> QED
    BY <2>1, <2>2, AdvanceKeeps
<1>5. ASSUME NEW n \in Node, Failure(n) PROVE QueryInv' /\ Keeps(q, q')
  <2> DEFINE y == OnNodeFailure(q, n)
  <2>1. Sound(y) /\ Forward(q, y) /\ SameQuery(q, y)
    BY <1>1, FailureSound
  <2>2. Advance(y)
    BY <1>5 DEF Failure
  <2> HIDE DEF y
  <2> QED
    BY <2>1, <2>2, AdvanceKeeps
<1>6. CASE Cancel
  <2> DEFINE r == CancelOutcome(q)
  <2>1. /\ q' = r.query /\ ret' = [kind |-> r.kind, nextDue |-> r.query.nextDue]
        /\ cancelled' = (cancelled \/ ~q.finished)
    BY <1>6 DEF Cancel, Returns
  <2>2. Keeps(q, r.query) /\ r.kind \in RetKind
    <3>1. CASE q.finished
      BY <1>1, <1>2, <3>1 DEF CancelOutcome, Ret, Keeps, RetKind
    <3>2. CASE ~q.finished
      BY <1>1, <3>2, FinishSound DEF CancelOutcome, Keeps, RetKind
    <3> QED
      BY <3>1, <3>2
  <2> HIDE DEF r
  <2>3. ret' \in RetType /\ cancelled' \in BOOLEAN
    BY <2>1, <2>2 DEF RetType, Keeps, Sound, QueryType
  <2> QED
    BY <2>1, <2>2, <2>3 DEF QueryInv, Keeps
<1>7. CASE QueryTick
  <2>1. ~q.finished /\ q' = Elapse(q) /\ ret' = ret /\ cancelled' = cancelled
    BY <1>7 DEF QueryTick
  <2>2. Sound(q') /\ Forward(q, q') /\ SameQuery(q, q')
    BY <1>1, <2>1, ElapseSound
  <2> QED
    BY <1>1, <2>1, <2>2 DEF QueryInv, Keeps, SameQuery
<1> QED
  BY <1>3, <1>4, <1>5, <1>6, <1>7 DEF QueryNext

\* The invariant holds of every reachable query.
THEOREM QueryInductive == QuerySpec => []QueryInv
<1>1. QueryInit => QueryInv
  <2> SUFFICES ASSUME QueryInit PROVE QueryInv
    OBVIOUS
  <2>1. PICK seeds \in SUBSET Node, coverage \in BOOLEAN : q = NewQuery(seeds, coverage)
    BY DEF QueryInit
  <2>2. Sound(q) /\ ~q.finished
    BY <2>1, NewQuerySound DEF NewQuery
  <2>3. NoTime \in NoTime..RequestTimeout
    BY Bounds DEF NoTime
  <2> QED
    BY <2>2, <2>3 DEF QueryInit, QueryInv, RetType
<1>2. QueryInv /\ [QueryNext]_queryVars => QueryInv'
  <2>1. ASSUME QueryInv, UNCHANGED queryVars PROVE QueryInv'
    BY <2>1 DEF QueryInv, queryVars, Sound, Counted, Final, Open, In
  <2> QED
    BY <2>1, Step
<1> QED
  BY <1>1, <1>2, PTL DEF QuerySpec

\* Every value a query takes has its type.
THEOREM TypeCorrect == QuerySpec => []QueryTypeOK
<1>1. QueryInv => QueryTypeOK
  BY DEF QueryInv, Sound, QueryTypeOK
<1> QED
  BY <1>1, QueryInductive, PTL

\* The counters of Query.Advance agree with the states of the nodes, whichever of a
\* late response, a failure and a deadline comes first: no slot is leaked, none is
\* freed twice, and no more than Concurrency requests are out.
THEOREM CountsAreExact == QuerySpec => []CountsExact
<1>1. QueryInv => CountsExact
  BY DEF QueryInv, Sound, Counted, CountsExact
<1> QED
  BY <1>1, QueryInductive, PTL

\* A query that ends by itself, under either stopping rule of Query.Advance, has left
\* no node open that it has heard of and that is nearer than its results, or in its
\* region.  It says nothing of the nodes it has not heard of.
THEOREM NothingCloserIsLeftOpen == QuerySpec => []NothingCloserLeftOpen
<1>1. QueryInv => NothingCloserLeftOpen
  <2> SUFFICES ASSUME QueryInv PROVE NothingCloserLeftOpen
    OBVIOUS
  <2>1. q.finished /\ ~cancelled => Final(q)
    BY DEF QueryInv
  <2>2. ClosestResultSound
    BY <2>1 DEF ClosestResultSound, Final, Open
  <2>3. CoverageResultSound
    BY <2>1 DEF CoverageResultSound, Final, Open
  <2> QED
    BY <2>2, <2>3 DEF NothingCloserLeftOpen
<1> QED
  BY <1>1, QueryInductive, PTL

\* Nothing a query knows of a node is ever taken back, nobody is asked again after
\* being given up on, and a query that has finished ignores whatever comes.
THEOREM QueriesMoveForward == QuerySpec => MovesForward
<1>1. QueryInv /\ [QueryNext]_queryVars =>
        [/\ \A n \in Node : q'.state[n] = q.state[n]
                            \/ Stage(q.state[n]) < Stage(q'.state[n])
         /\ q.finished => q' = q]_queryVars
  BY Step DEF Keeps, Forward
<1> QED
  BY <1>1, QueryInductive, PTL DEF QuerySpec, MovesForward
=============================================================================
