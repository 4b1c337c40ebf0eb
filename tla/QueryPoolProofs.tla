--------------------------- MODULE QueryPoolProofs ----------------------------
(***************************************************************************)
(* What holds of the pool for every set of nodes, every set of activity    *)
(* ids and every configuration.  The inductive invariant Kept adds to the  *)
(* soundness of each query what a round of the pool relies on:             *)
(*   - the list holds each running query once (Distinct), so that removing *)
(*     one removes it for good, and a query is on it exactly as long as    *)
(*     its caller has been told nothing (Recorded);                        *)
(*   - queries beyond the reach of a round have no request out (PlacedBut):*)
(*     they were never polled, so their due times do not count and no      *)
(*     event can find them waiting;                                        *)
(*   - a query that is on the list has not finished (Unfinished).          *)
(* The loop of Pool.Advance is summarised once, as a Round that has passed *)
(* a set of queries, and each operation is shown to keep the invariant     *)
(* through that summary.                                                   *)
(***************************************************************************)
EXTENDS QueryPool, QueryProofs, SequenceTheorems

\* The ids in a pool, each once.
Distinct(ids) ==
  /\ ids \in Seq(Activity)
  /\ \A i, j \in 1..Len(ids) : ids[i] = ids[j] => i = j
-----------------------------------------------------------------------------
(* The list of queries *)

\* The ids of a pool are those at its positions.
LEMMA RunningIds ==
  ASSUME NEW ids, Distinct(ids)
  PROVE  /\ Len(ids) \in Nat /\ DOMAIN ids = 1..Len(ids)
         /\ ToSet(ids) \in SUBSET Activity
         /\ \A id : id \in ToSet(ids) <=> \E i \in 1..Len(ids) : ids[i] = id
<1>1. ids \in Seq(Activity)
  BY DEF Distinct
<1>2. Len(ids) \in Nat /\ DOMAIN ids = 1..Len(ids) /\ \A i \in 1..Len(ids) : ids[i] \in Activity
  BY <1>1, LenProperties, ElementOfSeq
<1> QED
  BY <1>2 DEF ToSet

\* The gap that id leaves is closed: what is before it stays and what is after it
\* moves forward by one place.
Closed(ids, id, rest) ==
  \A j, l \in 1..Len(ids) : ids[l] = id /\ j # l =>
    \E i \in 1..Len(rest) : rest[i] = ids[j] /\ ((i = j /\ j < l) \/ (i = j - 1 /\ j > l))

\* What follows position k of a sequence.
LEMMA TailSound ==
  ASSUME NEW ids \in Seq(Activity), NEW k \in 1..Len(ids),
         NEW b, b = SubSeq(ids, k + 1, Len(ids))
  PROVE  b \in Seq(Activity) /\ Len(b) = Len(ids) - k /\ \A i \in 1..Len(ids) - k : b[i] = ids[k + i]
<1> DEFINE n == Len(ids)
<1>1. n \in Nat /\ k \in Nat /\ k <= n
  BY LenProperties
<1>2. \A i \in k + 1..n : ids[i] \in Activity
  BY ElementOfSeq
<1>3. /\ b \in Seq(Activity)
      /\ Len(b) = IF k + 1 <= n THEN n - (k + 1) + 1 ELSE 0
      /\ \A i \in 1..n - (k + 1) + 1 : b[i] = ids[k + 1 + i - 1]
  BY <1>1, <1>2, SubSeqProperties
<1> HIDE DEF n
<1>4. Len(b) = n - k
  BY <1>1, <1>3
<1>5. \A i \in 1..n - k : i \in 1..n - (k + 1) + 1 /\ k + 1 + i - 1 = k + i
  BY <1>1
<1>6. \A i \in 1..n - k : b[i] = ids[k + i]
  BY <1>3, <1>5
<1> QED
  BY <1>3, <1>4, <1>6 DEF n

\* Removing a query moves the later ones forward by one place.
LEMMA RemoveSound ==
  ASSUME NEW ids, Distinct(ids), NEW id, NEW rest, rest = RemoveQuery(ids, id)
  PROVE  /\ Distinct(rest)
         /\ ToSet(rest) = ToSet(ids) \ {id}
         /\ \A i \in 1..Len(rest) : \E j \in 1..Len(ids) : rest[i] = ids[j] /\ i <= j /\ j <= i + 1
         /\ id \notin ToSet(ids) => rest = ids
         /\ Closed(ids, id, rest)
<1>1. /\ Len(ids) \in Nat /\ DOMAIN ids = 1..Len(ids) /\ ids \in Seq(Activity)
      /\ \A i \in 1..Len(ids) : ids[i] \in Activity
      /\ \A i, j \in 1..Len(ids) : ids[i] = ids[j] => i = j
  BY RunningIds, ElementOfSeq DEF Distinct
<1>2. CASE id \notin ToSet(ids)
  <2>1. rest = ids /\ \A k \in 1..Len(ids) : ids[k] # id
    BY <1>1, <1>2, RunningIds DEF RemoveQuery
  <2>2. \A i \in 1..Len(rest) : rest[i] = ids[i] /\ i <= i /\ i <= i + 1
    BY <1>1, <2>1
  <2>3. Closed(ids, id, rest)
    BY <2>1 DEF Closed
  <2> QED
    BY <1>2, <2>1, <2>2, <2>3
<1>3. CASE id \in ToSet(ids)
  <2> DEFINE k == CHOOSE i \in DOMAIN ids : ids[i] = id
             a == SubSeq(ids, 1, k - 1)
             b == SubSeq(ids, k + 1, Len(ids))
  <2>1. k \in 1..Len(ids) /\ ids[k] = id
    BY <1>1, <1>3 DEF ToSet
  <2>2. rest = a \o b
    BY <1>3 DEF RemoveQuery, RemoveAt
  <2> HIDE DEF k
  <2>3. a \in Seq(Activity) /\ Len(a) = k - 1 /\ \A i \in 1..k - 1 : a[i] = ids[i]
    <3>1. \A i \in 1..k - 1 : ids[i] \in Activity
      BY <1>1, <2>1
    <3>2. /\ a \in Seq(Activity)
          /\ Len(a) = IF 1 <= k - 1 THEN k - 1 - 1 + 1 ELSE 0
          /\ \A i \in 1..k - 1 - 1 + 1 : a[i] = ids[1 + i - 1]
      BY <2>1, <3>1, SubSeqProperties
    <3> QED
      BY <2>1, <3>2
  <2>4. b \in Seq(Activity) /\ Len(b) = Len(ids) - k /\ \A i \in 1..Len(ids) - k : b[i] = ids[k + i]
    <3>1. ids \in Seq(Activity) /\ k \in 1..Len(ids) /\ b = SubSeq(ids, k + 1, Len(ids))
      BY <1>1, <2>1
    <3> HIDE DEF b
    <3> QED
      BY <3>1, TailSound
  <2> HIDE DEF a, b
  <2>5. /\ rest \in Seq(Activity) /\ Len(rest) = Len(ids) - 1
        /\ \A i \in 1..k - 1 : rest[i] = a[i]
        /\ \A i \in 1..Len(ids) - k : rest[k - 1 + i] = b[i]
    <3>1. /\ a \o b \in Seq(Activity) /\ Len(a \o b) = Len(a) + Len(b)
          /\ \A i \in 1..Len(a) + Len(b) : (a \o b)[i] = IF i <= Len(a) THEN a[i] ELSE b[i - Len(a)]
      BY <2>3, <2>4, ConcatProperties
    <3>2. Len(rest) = Len(ids) - 1
      BY <1>1, <2>1, <2>2, <2>3, <2>4, <3>1
    <3>3. \A i \in 1..k - 1 : i \in 1..Len(a) + Len(b) /\ i <= Len(a)
      BY <1>1, <2>1, <2>3, <2>4
    <3>4. \A i \in 1..k - 1 : (a \o b)[i] = a[i]
      BY <3>1, <3>3
    <3>5. \A i \in 1..Len(ids) - k : (a \o b)[k - 1 + i] = b[i]
      <4> SUFFICES ASSUME NEW i \in 1..Len(ids) - k PROVE (a \o b)[k - 1 + i] = b[i]
        OBVIOUS
      <4> DEFINE j == k - 1 + i
      <4>1. j \in 1..Len(a) + Len(b) /\ ~(j <= Len(a)) /\ j - Len(a) = i
        BY <1>1, <2>1, <2>3, <2>4
      <4> HIDE DEF j
      <4>2. (a \o b)[j] = b[j - Len(a)]
        BY <3>1, <4>1
      <4> QED
        BY <4>1, <4>2 DEF j
    <3> QED
      BY <2>2, <3>1, <3>2, <3>4, <3>5
  <2>6. \A i \in 1..Len(rest) : rest[i] = IF i < k THEN ids[i] ELSE ids[i + 1]
    <3> SUFFICES ASSUME NEW i \in 1..Len(rest) PROVE rest[i] = IF i < k THEN ids[i] ELSE ids[i + 1]
      OBVIOUS
    <3>1. CASE i < k
      BY <1>1, <2>1, <2>3, <2>5, <3>1
    <3>2. CASE ~(i < k)
      <4>1. i - (k - 1) \in 1..Len(ids) - k /\ k - 1 + (i - (k - 1)) = i /\ k + (i - (k - 1)) = i + 1
        BY <1>1, <2>1, <2>5, <3>2
      <4> QED
        BY <2>4, <2>5, <3>2, <4>1
    <3> QED
      BY <3>1, <3>2
  <2>7. \A i \in 1..Len(rest) : \E j \in 1..Len(ids) : rest[i] = ids[j] /\ i <= j /\ j <= i + 1 /\ j # k
    <3> SUFFICES ASSUME NEW i \in 1..Len(rest)
                 PROVE  \E j \in 1..Len(ids) : rest[i] = ids[j] /\ i <= j /\ j <= i + 1 /\ j # k
      OBVIOUS
    <3>1. CASE i < k
      BY <1>1, <2>1, <2>5, <2>6, <3>1
    <3>2. CASE ~(i < k)
      <4>1. i + 1 \in 1..Len(ids) /\ i <= i + 1 /\ i + 1 # k /\ rest[i] = ids[i + 1]
        BY <1>1, <2>1, <2>5, <2>6, <3>2
      <4> QED
        BY <4>1
    <3> QED
      BY <3>1, <3>2
  <2>8. \A j \in 1..Len(ids) : j # k =>
          \E i \in 1..Len(rest) : rest[i] = ids[j] /\ ((i = j /\ j < k) \/ (i = j - 1 /\ j > k))
    <3> SUFFICES ASSUME NEW j \in 1..Len(ids), j # k
                 PROVE  \E i \in 1..Len(rest) :
                          rest[i] = ids[j] /\ ((i = j /\ j < k) \/ (i = j - 1 /\ j > k))
      OBVIOUS
    <3>1. CASE j < k
      <4>1. j \in 1..Len(rest)
        BY <1>1, <2>1, <2>5, <3>1
      <4>2. rest[j] = ids[j]
        BY <2>6, <3>1, <4>1
      <4> WITNESS j \in 1..Len(rest)
      <4> QED
        BY <3>1, <4>2
    <3>2. CASE j > k
      <4>1. j - 1 \in 1..Len(rest) /\ ~(j - 1 < k) /\ j - 1 + 1 = j
        BY <1>1, <2>1, <2>5, <3>2
      <4>2. rest[j - 1] = ids[j]
        BY <2>6, <4>1
      <4> QED
        BY <3>2, <4>1, <4>2
    <3> QED
      BY <1>1, <2>1, <3>1, <3>2
  <2>9. Distinct(rest)
    <3> SUFFICES ASSUME NEW i \in 1..Len(rest), NEW j \in 1..Len(rest), rest[i] = rest[j] PROVE i = j
      BY <2>5 DEF Distinct
    <3>1. CASE i < k /\ j < k
      BY <1>1, <2>1, <2>5, <2>6, <3>1
    <3>2. CASE ~(i < k) /\ ~(j < k)
      BY <1>1, <2>1, <2>5, <2>6, <3>2
    <3>3. CASE i < k /\ ~(j < k)
      BY <1>1, <2>1, <2>5, <2>6, <3>3
    <3>4. CASE ~(i < k) /\ j < k
      BY <1>1, <2>1, <2>5, <2>6, <3>4
    <3> QED
      BY <3>1, <3>2, <3>3, <3>4
  <2>10. ToSet(rest) = ToSet(ids) \ {id}
    <3>1. \A x : x \in ToSet(rest) <=> \E i \in 1..Len(rest) : rest[i] = x
      BY <2>9, RunningIds
    <3>2. \A x : x \in ToSet(ids) <=> \E j \in 1..Len(ids) : ids[j] = x
      BY RunningIds
    <3>3. \A x \in ToSet(rest) : x \in ToSet(ids) /\ x # id
      BY <1>1, <2>1, <2>7, <3>1, <3>2
    <3>4. \A x \in ToSet(ids) : x # id => x \in ToSet(rest)
      BY <1>1, <2>1, <2>8, <3>1, <3>2
    <3> QED
      BY <2>1, <3>3, <3>4
  <2>11. \A l \in 1..Len(ids) : ids[l] = id => l = k
    BY <1>1, <2>1
  <2>12. Closed(ids, id, rest)
    BY <2>8, <2>11 DEF Closed
  <2>13. \A i \in 1..Len(rest) : \E j \in 1..Len(ids) : rest[i] = ids[j] /\ i <= j /\ j <= i + 1
    BY <2>7
  <2> QED
    BY <1>3, <2>9, <2>10, <2>12, <2>13
<1> QED
  BY <1>2, <1>3
-----------------------------------------------------------------------------
(* What advancing one query leaves *)

\* The due time the query reports is none later than any deadline of a request it
\* waits for.
Rested(x) == \A n \in In(x, "Waiting") : x.nextDue # NoTime /\ x.nextDue <= x.left[n]

\* The result of advancing a query that is in the pool.
Good(r) ==
  /\ Sound(r.query)
  /\ r.kind \in RetKind
  /\ r.query.finished <=> r.kind = "Finished"
  /\ r.kind = "FindCloser" => r.node \in Node
  /\ ~Terminal(r) => Rested(r.query)

\* A query that waits has taken the earliest deadline of its requests for its due time.
LEMMA WaitRested ==
  ASSUME NEW x, Sound(x), NEW kind, NEW r, r = Wait(x, kind)
  PROVE  Rested(r.query)
<1>1. /\ r.query \in QueryType /\ r.query.state = x.state /\ r.query.left = x.left
      /\ r.query.nextDue = EarliestNodeDeadline(x) /\ x \in QueryType
  BY WaitSound DEF Sound
<1>2. In(r.query, "Waiting") = In(x, "Waiting")
  BY <1>1 DEF In
<1>3. /\ In(x, "Waiting") = {} <=> EarliestNodeDeadline(x) = NoTime
      /\ \A n \in In(x, "Waiting") : EarliestNodeDeadline(x) <= x.left[n]
  BY <1>1, EarliestSound
<1>4. \A n \in In(x, "Waiting") : EarliestNodeDeadline(x) # NoTime
  BY <1>3
<1> QED
  BY <1>1, <1>2, <1>3, <1>4 DEF Rested

\* The walk that ends the advance of a query which has not finished.
LEMMA WalkGood ==
  ASSUME NEW x, Sound(x), ~x.finished, NEW w, w = Walk(x)
  PROVE  Good(w)
<1> DEFINE r == MarkUnresponsive(x)
           n == Nearest(Stops(x))
<1>1. /\ Sound(w.query) /\ w.kind \in RetKind /\ (w.query.finished <=> w.kind = "Finished")
  BY WalkSound
<1>2. Sound(r)
  BY MarkSound
<1>3. /\ \/ w = Finish(r)
         \/ w = Wait(r, "WaitingWithCapacity")
         \/ w = Wait(r, "WaitingAtCapacity")
         \/ Stops(x) # {} /\ w = Contact(r, n)
  BY DEF Walk
<1>4. Stops(x) # {} => n \in Node
  BY StopsSound DEF Sound
<1> HIDE DEF r, n
<1>5. CASE w = Finish(r)
  BY <1>1, <1>2, <1>5, FinishSound DEF Good, Terminal
<1>6. ASSUME NEW kind \in {"WaitingWithCapacity", "WaitingAtCapacity"}, w = Wait(r, kind)
      PROVE  Good(w)
  <2>1. Rested(w.query) /\ w.kind = kind
    BY <1>2, <1>6, WaitRested, WaitSound
  <2> QED
    BY <1>1, <2>1 DEF Good
<1>7. CASE Stops(x) # {} /\ w = Contact(r, n)
  <2>1. w.node = n /\ w.kind = "FindCloser"
    BY <1>7 DEF Contact, Ret
  <2> QED
    BY <1>1, <1>4, <1>7, <2>1 DEF Good, Terminal
<1> QED
  BY <1>3, <1>5, <1>6, <1>7

\* An event that turned x into y is followed by the walk.
LEMMA OutcomeGood ==
  ASSUME NEW x, ~x.finished, NEW y, Sound(y), SameQuery(x, y), NEW r, r = Outcome(x, y)
  PROVE  Good(r)
BY WalkGood DEF Outcome, SameQuery

\* A cancel ends the query.
LEMMA CancelGood ==
  ASSUME NEW x, Sound(x), ~x.finished, NEW r, r = CancelOutcome(x)
  PROVE  Good(r) /\ r.kind = "Finished"
<1>1. r = Finish(x)
  BY DEF CancelOutcome
<1>2. Sound(r.query) /\ r.kind = "Finished" /\ r.query.finished
  BY <1>1, FinishSound
<1> QED
  BY <1>2 DEF Good, Terminal, RetKind
-----------------------------------------------------------------------------
(* The inductive invariant *)

\* The positions of the queries that a round of the pool may reach.  Full is only
\* consulted after a query has been polled, so that a pool of one polls a second
\* query after an event for its first.
Reach == IF PoolConcurrency = 1 THEN 2 ELSE PoolConcurrency

PoolSound(p) ==
  /\ Distinct(p.ids)
  /\ p.qs \in [Activity -> QueryType]
  /\ \A id \in Activity : Sound(p.qs[id])
  /\ p.net \in SUBSET (Activity \X Node)

\* The query of id has asked nobody that it still waits for or may hear from.
Quiet(p, id) == p.qs[id].inFlight = 0 /\ \A n \in Node : <<id, n>> \notin p.net

\* Beyond the reach of a round no query has a request out.
PlacedBut(p, id) ==
  \A i \in 1..Len(p.ids) : i > Reach /\ p.ids[i] # id => Quiet(p, p.ids[i])

Unfinished(p, ids) == \A id \in ids : ~p.qs[id].finished

\* The callers of the queries added under the ids u have been told of the ends in o.
Recorded(p, u, o) ==
  /\ u \in SUBSET Activity
  /\ o \in [Activity -> {"None", "Finished", "Timeout"}]
  /\ \A id \in Activity : id \notin u => o[id] = "None" /\ \A n \in Node : <<id, n>> \notin p.net
  /\ \A id \in Activity : id \in ToSet(p.ids) <=> (id \in u /\ o[id] = "None")

\* The moments at which a query can make progress by itself.
Moments(x) == ({x.left[n] : n \in In(x, "Waiting")} \cup {x.deadline}) \ {NoTime}

\* The behaviour wakes at w, or before, for the queries of p that a round polls.
Early(p, w) ==
  \A i \in 1..Len(p.ids) : i <= PoolConcurrency =>
    \A t \in Moments(p.qs[p.ids[i]]) : w # NoTime /\ w <= t

\* The pool p is sound, its callers have been told o and it is polled again in w ticks.
Kept(p, u, o, w) ==
  /\ PoolSound(p)
  /\ PlacedBut(p, NoId)
  /\ Unfinished(p, ToSet(p.ids))
  /\ Recorded(p, u, o)
  /\ w \in NoTime..(RequestTimeout + Timeout)
  /\ Early(p, w)

State == Pool(queries, qry, net)

IInv == Kept(State, used, outcome, wake)
-----------------------------------------------------------------------------
(* A round *)

\* Polling the query of id, in the pool p.
Polled(p, id) == Outcome(p.qs[id], p.qs[id])

\* The pool p1 is p after the queries of the ids S have been polled, each within the
\* reach of a round.
Passed(p, p1, S) ==
  /\ p1 = [p EXCEPT !.qs = [id \in Activity |-> IF id \in S THEN Polled(p, id).query
                                                ELSE p.qs[id]]]
  /\ S \in SUBSET ToSet(p.ids)
  /\ \A id \in S : \E i \in 1..Len(p.ids) : i <= Reach /\ p.ids[i] = id

\* The event's query is skipped, and counted, or there is none.
Skipped(p, skip, counted) ==
  \/ counted = 0 /\ skip \notin ToSet(p.ids)
  \/ counted = 1 /\ \E l \in 1..Len(p.ids) : l <= Reach /\ p.ids[l] = skip

\* A round ends at the first query that has a terminal result, or has polled every
\* query that it was to poll.
Round(p, skip, p1, S) ==
  \/ \E id \in S : /\ Terminal(Polled(p, id)) /\ ReturnTerminal(p1, id, Polled(p, id))
                   /\ \A other \in S \ {id} : ~Terminal(Polled(p, other))
  \/ /\ ReturnWaiting(p1)
     /\ \A id \in S : ~Terminal(Polled(p, id))
     /\ \A i \in 1..Len(p.ids) : i <= PoolConcurrency => p.ids[i] \in S \cup {skip}

\* The reach of a round, and the pool's capacity, are positive numbers.
LEMMA ReachSound ==
  /\ Reach \in Nat /\ PoolConcurrency \in Nat /\ PoolConcurrency > 0
  /\ PoolConcurrency <= Reach
  /\ PoolConcurrency = 1 => Reach = 2
  /\ PoolConcurrency # 1 => Reach = PoolConcurrency
BY PoolAssumption DEF Reach

\* The loop of Pool.Advance.
LEMMA PollOthersRound ==
  ASSUME NEW p, Distinct(p.ids), NEW skip, NEW counted, Skipped(p, skip, counted),
         p = Pool(p.ids, p.qs, p.net), p.qs \in [Activity -> QueryType],
         PollOthers(p, skip, counted)
  PROVE  \E p1, S : Passed(p, p1, S) /\ Round(p, skip, p1, S)
<1> DEFINE r == [id \in ToSet(p.ids) |-> Outcome(p.qs[id], p.qs[id])]
           rest == RemoveQuery(p.ids, skip)
           stops == {i \in 1..Len(rest) : Terminal(r[rest[i]]) \/ Full(counted + i)}
           last == IF stops = {} THEN Len(rest) ELSE Nearest(stops)
           S == {rest[i] : i \in 1..last}
           p1 == [p EXCEPT !.qs = [id \in Activity |-> IF id \in S THEN r[id].query ELSE @[id]]]
<1>1. IF stops # {} /\ Terminal(r[rest[last]])
      THEN ReturnTerminal(p1, rest[last], r[rest[last]])
      ELSE ReturnWaiting(p1)
  BY DEF PollOthers
<1>0. rest = RemoveQuery(p.ids, skip)
  OBVIOUS
<1> HIDE DEF rest
<1>2. /\ Distinct(rest) /\ ToSet(rest) = ToSet(p.ids) \ {skip}
      /\ \A i \in 1..Len(rest) : \E j \in 1..Len(p.ids) : rest[i] = p.ids[j] /\ i <= j /\ j <= i + 1
      /\ skip \notin ToSet(p.ids) => rest = p.ids
      /\ Closed(p.ids, skip, rest)
  BY <1>0, RemoveSound
<1>3. Len(rest) \in Nat /\ Len(p.ids) \in Nat /\ \A i \in 1..Len(rest) : rest[i] \in ToSet(rest)
  BY <1>2, RunningIds
<1>4. counted \in {0, 1} /\ counted \in Nat
  BY DEF Skipped
<1>5. \A id \in ToSet(p.ids) : r[id] = Polled(p, id)
  BY DEF Polled
<1>6. \A i \in 1..Len(rest) : i \notin stops => ~Terminal(r[rest[i]]) /\ ~Full(counted + i)
  OBVIOUS
<1>7. \A i \in stops : i \in 1..Len(rest) /\ (Terminal(r[rest[i]]) \/ Full(counted + i))
  OBVIOUS
<1> HIDE DEF r, stops
<1>8. /\ last \in Nat /\ last <= Len(rest)
      /\ stops # {} => last \in stops
      /\ stops = {} => last = Len(rest)
      /\ \A i \in 1..Len(rest) : i < last => i \notin stops
  <2>1. CASE stops = {}
    BY <1>3, <2>1
  <2>2. CASE stops # {}
    <3>1. stops \in SUBSET Int /\ \A t \in stops : t >= Past
      BY <1>3, <1>7 DEF Past
    <3>2. Nearest(stops) \in stops /\ \A t \in stops : Nearest(stops) <= t
      BY <2>2, <3>1, NearestSound
    <3>3. last = Nearest(stops)
      BY <2>2
    <3>4. \A i \in 1..Len(rest) : i < last => i \notin stops
      <4> SUFFICES ASSUME NEW i \in 1..Len(rest), i < last, i \in stops PROVE FALSE
        OBVIOUS
      <4>1. last <= i /\ i \in Int /\ last \in Int
        BY <3>1, <3>2, <3>3
      <4> QED
        BY <4>1
    <3> QED
      BY <1>3, <1>7, <2>2, <3>2, <3>3, <3>4
  <2> QED
    BY <2>1, <2>2
<1>9. last \in stops => Terminal(r[rest[last]]) \/ Full(counted + last)
  BY <1>7
<1>10. last \in stops => last \in 1..Len(rest)
  BY <1>7
<1> HIDE DEF last
<1>11. /\ \A i \in 1..last : i \in 1..Len(rest)
       /\ S \in SUBSET ToSet(p.ids) /\ ToSet(p.ids) \in SUBSET Activity
  <2>1. \A i \in 1..last : i \in 1..Len(rest)
    BY <1>3, <1>8
  <2> QED
    BY <1>2, <1>3, <2>1, RunningIds
\* The round does not get beyond its reach.
<1>12. last + counted <= Reach
  <2> SUFFICES ASSUME last + counted > Reach PROVE FALSE
    BY <1>4, <1>8, ReachSound
  <2> DEFINE k == last - 1
  <2>1. k \in Nat /\ k < last /\ counted + k >= PoolConcurrency
    BY <1>4, <1>8, ReachSound
  <2>2. CASE k = 0
    BY <1>4, <1>8, <2>1, <2>2, ReachSound
  <2>3. CASE k # 0
    <3>1. k \in 1..Len(rest)
      BY <1>3, <1>8, <2>1, <2>3
    <3>2. ~Full(counted + k)
      BY <1>8, <1>6, <2>1, <3>1
    <3> QED
      BY <2>1, <3>2 DEF Full
  <2> QED
    BY <2>2, <2>3
<1>13. \A id \in S : \E i \in 1..Len(p.ids) : i <= Reach /\ p.ids[i] = id
  <2> SUFFICES ASSUME NEW i \in 1..last
               PROVE  \E j \in 1..Len(p.ids) : j <= Reach /\ p.ids[j] = rest[i]
    OBVIOUS
  <2>1. i \in 1..Len(rest) /\ i \in Nat /\ i <= last
    BY <1>8, <1>11
  <2>2. CASE counted = 0
    <3>1. rest = p.ids
      BY <1>2, <2>2 DEF Skipped
    <3>2. i <= Reach
      BY <1>8, <1>12, <2>1, <2>2, ReachSound
    <3> QED
      BY <2>1, <3>1, <3>2
  <2>3. CASE counted = 1
    <3>1. PICK j \in 1..Len(p.ids) : rest[i] = p.ids[j] /\ i <= j /\ j <= i + 1
      BY <1>2, <2>1
    <3>2. j <= Reach
      BY <1>3, <1>8, <1>12, <2>1, <2>3, <3>1, ReachSound
    <3> QED
      BY <3>1, <3>2
  <2> QED
    BY <1>4, <2>2, <2>3
<1>14. \A id \in S : id \in ToSet(p.ids) /\ id \in Activity /\ r[id] = Polled(p, id)
  BY <1>5, <1>11
<1>15. Passed(p, p1, S)
  <2>1. p1 = [p EXCEPT !.qs = [id \in Activity |-> IF id \in S THEN Polled(p, id).query
                                                   ELSE p.qs[id]]]
    BY <1>14
  <2> HIDE DEF S, p1
  <2> QED
    BY <1>11, <1>13, <2>1 DEF Passed
<1>16. ASSUME NEW id \in S, id # rest[last] PROVE ~Terminal(Polled(p, id))
  <2>1. PICK i \in 1..last : id = rest[i]
    OBVIOUS
  <2>2. i \in 1..Len(rest) /\ i < last
    BY <1>8, <1>11, <1>16, <2>1
  <2> QED
    BY <1>8, <1>6, <1>14, <2>1, <2>2
<1>17. CASE stops # {} /\ Terminal(r[rest[last]])
  <2>1. last \in 1..last /\ rest[last] \in S
    BY <1>8, <1>10, <1>17
  <2>2. r[rest[last]] = Polled(p, rest[last])
    BY <1>14, <2>1
  <2>3. ReturnTerminal(p1, rest[last], Polled(p, rest[last]))
    BY <1>1, <1>17, <2>2
  <2> HIDE DEF p1, S
  <2>4. Round(p, skip, p1, S)
    BY <1>16, <1>17, <2>1, <2>2, <2>3 DEF Round
  <2> QED
    BY <1>15, <2>4
<1>18. CASE ~(stops # {} /\ Terminal(r[rest[last]]))
  <2>1. ReturnWaiting(p1)
    BY <1>1, <1>18
  <2>2. ASSUME NEW id \in S PROVE ~Terminal(Polled(p, id))
    <3>1. CASE id # rest[last]
      BY <1>16, <3>1
    <3>2. CASE id = rest[last]
      <4>1. PICK i \in 1..last : id = rest[i]
        OBVIOUS
      <4>2. last \in 1..Len(rest)
        BY <1>3, <1>8, <4>1
      <4>3. r[rest[last]] = Polled(p, id)
        BY <1>14, <3>2
      <4> QED
        BY <1>6, <1>18, <3>2, <4>2, <4>3
    <3> QED
      BY <3>1, <3>2
  \* The round went as far as the pool's capacity, or polled everything.
  <2>3. last = Len(rest) \/ counted + last >= PoolConcurrency
    <3>1. CASE stops = {}
      BY <1>8, <3>1
    <3>2. CASE stops # {}
      BY <1>8, <1>9, <1>18, <3>2 DEF Full
    <3> QED
      BY <3>1, <3>2
  <2>4. \A i \in 1..last : rest[i] \in S
    OBVIOUS
  <2>5. ASSUME NEW i \in 1..Len(p.ids), i <= PoolConcurrency, p.ids[i] # skip
        PROVE  p.ids[i] \in S
    <3>1. CASE counted = 0
      <4>1. rest = p.ids /\ i <= last
        BY <1>2, <1>3, <1>8, <2>3, <2>5, <3>1, ReachSound DEF Skipped
      <4> QED
        BY <1>3, <1>8, <2>4, <4>1
    <3>2. CASE counted = 1
      <4>1. PICK l \in 1..Len(p.ids) : l <= Reach /\ p.ids[l] = skip
        BY <3>2 DEF Skipped
      <4>2. i # l
        BY <2>5, <4>1
      <4>3. PICK k \in 1..Len(rest) : rest[k] = p.ids[i] /\ ((k = i /\ i < l) \/ (k = i - 1 /\ i > l))
        BY <1>2, <4>1, <4>2 DEF Closed
      <4>4. k <= last
        <5>1. CASE last = Len(rest)
          BY <1>3, <5>1
        <5>2. CASE last # Len(rest)
          <6>1. 1 + last >= PoolConcurrency
            BY <2>3, <3>2, <5>2
          <6>2. stops # {} /\ last >= 1
            BY <1>3, <1>8, <1>10, <5>2
          <6> QED
            BY <1>3, <1>8, <2>5, <4>1, <4>3, <6>1, <6>2, ReachSound
        <5> QED
          BY <5>1, <5>2
      <4>5. k \in 1..last
        BY <1>3, <1>8, <4>4
      <4> QED
        BY <2>4, <4>3, <4>5
    <3> QED
      BY <1>4, <3>1, <3>2
  <2> HIDE DEF p1, S
  <2>6. Round(p, skip, p1, S)
    BY <2>1, <2>2, <2>5 DEF Round
  <2> QED
    BY <1>15, <2>6
<1> QED
  BY <1>17, <1>18
-----------------------------------------------------------------------------
(* What a round leaves *)

IsPool(p) == p = Pool(p.ids, p.qs, p.net) /\ PoolSound(p)

\* Polling sound queries leaves them sound, and those beyond its reach alone.
LEMMA PassedSound ==
  ASSUME NEW p, IsPool(p), PlacedBut(p, NoId), Unfinished(p, ToSet(p.ids)),
         NEW p1, NEW S, Passed(p, p1, S)
  PROVE  /\ IsPool(p1) /\ PlacedBut(p1, NoId) /\ p1.ids = p.ids /\ p1.net = p.net
         /\ \A id \in S : Good(Polled(p, id)) /\ p1.qs[id] = Polled(p, id).query
         /\ \A id \in Activity \ S : p1.qs[id] = p.qs[id]
<1> DEFINE qs1 == [id \in Activity |-> IF id \in S THEN Polled(p, id).query ELSE p.qs[id]]
<1>1. /\ Distinct(p.ids) /\ p.qs \in [Activity -> QueryType] /\ \A id \in Activity : Sound(p.qs[id])
      /\ p = Pool(p.ids, p.qs, p.net) /\ p.net \in SUBSET (Activity \X Node)
  BY DEF IsPool, PoolSound
<1>2. /\ S \in SUBSET ToSet(p.ids) /\ ToSet(p.ids) \in SUBSET Activity
      /\ \A id \in S : \E i \in 1..Len(p.ids) : i <= Reach /\ p.ids[i] = id
  BY <1>1, RunningIds DEF Passed
<1>3. ASSUME NEW id \in S PROVE Good(Polled(p, id))
  <2> DEFINE x == p.qs[id]
  <2>1. Sound(x) /\ ~x.finished /\ SameQuery(x, x)
    BY <1>1, <1>2 DEF Unfinished, SameQuery
  <2>2. Polled(p, id) = Outcome(x, x)
    BY DEF Polled
  <2> HIDE DEF x
  <2> QED
    BY <2>1, <2>2, OutcomeGood
<1>4. \A id \in Activity : qs1[id] \in QueryType /\ Sound(qs1[id])
  BY <1>1, <1>3 DEF Good, Sound
<1>5. qs1 \in [Activity -> QueryType]
  BY <1>4
<1>6. p1 = Pool(p.ids, qs1, p.net)
  BY <1>1 DEF Passed, Pool
<1>7. p1.ids = p.ids /\ p1.net = p.net /\ p1.qs = qs1
  BY <1>6 DEF Pool
<1>8. \A id \in S : qs1[id] = Polled(p, id).query
  BY <1>2
<1>9. \A id \in Activity \ S : qs1[id] = p.qs[id]
  OBVIOUS
<1> HIDE DEF qs1
<1>10. IsPool(p1)
  BY <1>1, <1>4, <1>5, <1>6, <1>7 DEF IsPool, PoolSound
<1>11. PlacedBut(p1, NoId)
  <2> SUFFICES ASSUME NEW i \in 1..Len(p.ids), i > Reach PROVE Quiet(p1, p.ids[i])
    BY <1>7 DEF PlacedBut
  <2>1. p.ids[i] \in Activity /\ p.ids[i] # NoId
    BY <1>1, ElementOfSeq, PoolAssumption DEF Distinct, NoId
  <2>2. Quiet(p, p.ids[i])
    BY <2>1 DEF PlacedBut
  <2>3. p.ids[i] \notin S
    <3> SUFFICES ASSUME p.ids[i] \in S PROVE FALSE
      OBVIOUS
    <3>1. PICK j \in 1..Len(p.ids) : j <= Reach /\ p.ids[j] = p.ids[i]
      BY <1>2
    <3>2. i = j
      BY <1>1, <3>1 DEF Distinct
    <3> QED
      BY <1>1, <3>1, <3>2, ReachSound, RunningIds
  <2> QED
    BY <1>7, <1>9, <2>1, <2>2, <2>3 DEF Quiet
<1> QED
  BY <1>3, <1>7, <1>8, <1>9, <1>10, <1>11

\* A time that is not NoTime has not passed by more than Past.
LEMMA MomentsSound ==
  ASSUME NEW x \in QueryType
  PROVE  \A t \in Moments(x) : t \in Int /\ t >= Past
<1>1. x.deadline \in NoTime..Timeout /\ \A n \in In(x, "Waiting") : x.left[n] \in Past..RequestTimeout
  BY DEF QueryType, In
<1>2. \A t \in NoTime..Timeout : t # NoTime => t \in Int /\ t >= Past
  BY Bounds DEF NoTime, Past
<1>3. \A t \in Past..RequestTimeout : t \in Int /\ t >= Past
  BY Bounds DEF Past
<1> QED
  BY <1>1, <1>2, <1>3 DEF Moments

\* A pool that is polled again at once is polled in time.
LEMMA NowEarly ==
  ASSUME NEW p, PoolSound(p)
  PROVE  Early(p, Now) /\ Now \in NoTime..(RequestTimeout + Timeout)
<1>1. Now \in NoTime..(RequestTimeout + Timeout)
  BY Bounds DEF Now, Past, NoTime
<1>2. ASSUME NEW i \in 1..Len(p.ids), NEW t \in Moments(p.qs[p.ids[i]])
      PROVE  Now # NoTime /\ Now <= t
  <2>1. p.ids[i] \in Activity
    BY ElementOfSeq DEF PoolSound, Distinct
  <2>2. t \in Int /\ t >= Past
    BY <2>1, MomentsSound DEF PoolSound
  <2> QED
    BY <2>2 DEF Now, Past, NoTime
<1> QED
  BY <1>1, <1>2 DEF Early

\* A terminal result of the query of id: its request goes out, or it is removed and
\* its caller told.
LEMMA TerminalKeeps ==
  ASSUME NEW p, IsPool(p), NEW id \in ToSet(p.ids), PlacedBut(p, id),
         Unfinished(p, ToSet(p.ids) \ {id}), Recorded(p, used', outcome),
         NEW r, Good(r), Terminal(r), p.qs[id] = r.query,
         r.kind = "FindCloser" => \E i \in 1..Len(p.ids) : i <= Reach /\ p.ids[i] = id,
         ReturnTerminal(p, id, r)
  PROVE  Kept(State', used', outcome', wake')
<1>1. /\ Distinct(p.ids) /\ p.qs \in [Activity -> QueryType] /\ \A k \in Activity : Sound(p.qs[k])
      /\ p.net \in SUBSET (Activity \X Node)
  BY DEF IsPool, PoolSound
<1>2. /\ id \in Activity /\ ToSet(p.ids) \in SUBSET Activity /\ Len(p.ids) \in Nat
      /\ \A i \in 1..Len(p.ids) : p.ids[i] \in ToSet(p.ids)
  BY <1>1, RunningIds
<1> DEFINE s == State'
<1>3. s.ids = queries' /\ s.qs = qry' /\ s.net = net'
  BY DEF State, Pool
<1>4. wake' = Now
  BY DEF ReturnTerminal
<1> HIDE DEF s
<1>5. CASE r.kind = "FindCloser"
  <2>1. /\ s.ids = p.ids /\ s.qs = p.qs /\ s.net = p.net \cup {<<id, r.node>>} /\ outcome' = outcome
    BY <1>3, <1>5 DEF ReturnTerminal
  <2>2. r.node \in Node /\ ~p.qs[id].finished
    BY <1>5 DEF Good
  <2>3. s.net \in SUBSET (Activity \X Node)
    BY <1>1, <1>2, <2>1, <2>2
  <2>4. PoolSound(s)
    BY <1>1, <2>1, <2>3 DEF PoolSound
  <2>5. PlacedBut(s, NoId)
    <3> SUFFICES ASSUME NEW i \in 1..Len(p.ids), i > Reach PROVE Quiet(s, p.ids[i])
      BY <2>1 DEF PlacedBut
    <3>1. p.ids[i] # id
      <4>1. PICK j \in 1..Len(p.ids) : j <= Reach /\ p.ids[j] = id
        BY <1>5
      <4> QED
        BY <1>1, <1>2, <4>1, ReachSound DEF Distinct
    <3>2. Quiet(p, p.ids[i])
      BY <3>1 DEF PlacedBut
    <3> QED
      BY <2>1, <3>1, <3>2 DEF Quiet
  <2>6. Unfinished(s, ToSet(s.ids))
    BY <2>1, <2>2 DEF Unfinished
  <2>7. Recorded(s, used', outcome')
    BY <1>2, <2>1 DEF Recorded
  <2> QED
    BY <1>4, <2>4, <2>5, <2>6, <2>7, NowEarly DEF Kept, s
<1>6. CASE r.kind # "FindCloser"
  <2> DEFINE rest == RemoveQuery(p.ids, id)
             o == IF TimedOut(r) THEN "Timeout" ELSE "Finished"
  <2>1. /\ s.ids = rest /\ s.qs = [p.qs EXCEPT ![id] = NoQuery] /\ s.net = p.net
        /\ outcome' = [outcome EXCEPT ![id] = o]
    BY <1>3, <1>6 DEF ReturnTerminal
  <2>2. o \in {"Finished", "Timeout"} /\ rest = RemoveQuery(p.ids, id)
    OBVIOUS
  <2> HIDE DEF rest, o
  <2>3. /\ Distinct(rest) /\ ToSet(rest) = ToSet(p.ids) \ {id}
        /\ \A i \in 1..Len(rest) : \E j \in 1..Len(p.ids) : rest[i] = p.ids[j] /\ i <= j /\ j <= i + 1
    <3> DEFINE ids == p.ids
    <3>1. Distinct(ids) /\ rest = RemoveQuery(ids, id)
      BY <1>1, <2>2
    <3> HIDE DEF ids
    <3>2. /\ Distinct(rest) /\ ToSet(rest) = ToSet(ids) \ {id}
          /\ \A i \in 1..Len(rest) : \E j \in 1..Len(ids) : rest[i] = ids[j] /\ i <= j /\ j <= i + 1
      BY <3>1, RemoveSound
    <3> QED
      BY <3>2 DEF ids
  <2>4. Sound(NoQuery) /\ NoQuery \in QueryType
    BY NewQuerySound DEF NoQuery, Sound
  <2>5. /\ s.qs \in [Activity -> QueryType] /\ \A k \in Activity : Sound(s.qs[k])
        /\ \A k \in Activity : k # id => s.qs[k] = p.qs[k]
    BY <1>1, <1>2, <2>1, <2>4
  <2>6. PoolSound(s)
    BY <1>1, <2>1, <2>3, <2>5 DEF PoolSound
  <2>7. PlacedBut(s, NoId)
    <3> SUFFICES ASSUME NEW i \in 1..Len(rest), i > Reach PROVE Quiet(s, rest[i])
      BY <2>1 DEF PlacedBut
    <3>1. PICK j \in 1..Len(p.ids) : rest[i] = p.ids[j] /\ i <= j
      BY <2>3
    <3>2. rest[i] \in ToSet(rest)
      BY <2>3, RunningIds
    <3>3. p.ids[j] # id /\ p.ids[j] \in Activity
      BY <1>2, <2>3, <3>1, <3>2
    <3>4. i \in Nat /\ j \in Nat
      BY <1>2, <2>3, RunningIds
    <3>5. j > Reach
      BY <3>1, <3>4, ReachSound
    <3>6. Quiet(p, p.ids[j])
      BY <3>3, <3>5 DEF PlacedBut
    <3> QED
      BY <2>1, <2>5, <3>1, <3>3, <3>6 DEF Quiet
  <2>8. Unfinished(s, ToSet(s.ids))
    BY <1>2, <2>1, <2>3, <2>5 DEF Unfinished
  <2>9. Recorded(s, used', outcome')
    <3>1. outcome \in [Activity -> {"None", "Finished", "Timeout"}] /\ id \in used'
      BY <1>2 DEF Recorded
    <3>2. outcome' \in [Activity -> {"None", "Finished", "Timeout"}]
      BY <2>1, <2>2, <3>1
    <3>3. outcome'[id] # "None" /\ \A k \in Activity : k # id => outcome'[k] = outcome[k]
      BY <1>2, <2>1, <2>2, <3>1
    <3> QED
      BY <2>1, <2>3, <3>1, <3>2, <3>3 DEF Recorded
  <2> QED
    BY <1>4, <2>6, <2>7, <2>8, <2>9, NowEarly DEF Kept, s
<1> QED
  BY <1>5, <1>6

\* Pool.nextDue is no later than any due time or deadline of a query in the pool.
LEMMA NextDueSound ==
  ASSUME NEW p, PoolSound(p)
  PROVE  /\ NextDue(p) \in NoTime..(RequestTimeout + Timeout)
         /\ \A id \in ToSet(p.ids) : \A t \in Times(p.qs[id]) \ {NoTime} :
              NextDue(p) # NoTime /\ NextDue(p) <= t
<1> DEFINE due == (UNION {Times(p.qs[id]) : id \in ToSet(p.ids)}) \ {NoTime}
<1>1. ToSet(p.ids) \in SUBSET Activity
  BY RunningIds DEF PoolSound
<1>2. ASSUME NEW id \in ToSet(p.ids), NEW t \in Times(p.qs[id]) \ {NoTime}
      PROVE  t \in due /\ t \in Past..(RequestTimeout + Timeout)
  <2>1. p.qs[id] \in QueryType
    BY <1>1 DEF PoolSound
  <2>2. t \in NoTime..RequestTimeout \/ t \in NoTime..Timeout
    BY <2>1 DEF Times, QueryType
  <2>3. t \in Past..(RequestTimeout + Timeout)
    BY <2>2, Bounds DEF NoTime, Past
  <2>4. Times(p.qs[id]) \in {Times(p.qs[k]) : k \in ToSet(p.ids)}
    OBVIOUS
  <2>5. t \in due
    BY <2>4
  <2> QED
    BY <2>3, <2>5
<1>3. ASSUME NEW t \in due PROVE t \in Past..(RequestTimeout + Timeout)
  <2>1. PICK id \in ToSet(p.ids) : t \in Times(p.qs[id]) \ {NoTime}
    OBVIOUS
  <2> QED
    BY <1>2, <2>1
<1>4. NextDue(p) = IF due = {} THEN NoTime ELSE Nearest(due)
  BY DEF NextDue
<1> HIDE DEF due
<1>5. CASE due = {}
  <2>1. NextDue(p) = NoTime /\ NoTime \in NoTime..(RequestTimeout + Timeout)
    BY <1>4, <1>5, Bounds DEF NoTime
  <2> QED
    BY <1>2, <1>5, <2>1
<1>6. CASE due # {}
  <2>1. due \in SUBSET Int /\ \A t \in due : t >= Past
    BY <1>3, Bounds DEF Past
  <2>2. Nearest(due) \in due /\ \A t \in due : Nearest(due) <= t
    BY <1>6, <2>1, NearestSound
  <2>3. NextDue(p) \in Past..(RequestTimeout + Timeout) /\ \A t \in due : NextDue(p) <= t
    BY <1>3, <1>4, <1>6, <2>2
  <2>4. NextDue(p) # NoTime /\ NextDue(p) \in NoTime..(RequestTimeout + Timeout)
    BY <2>3, Bounds DEF NoTime, Past
  <2> QED
    BY <1>2, <2>3, <2>4
<1> QED
  BY <1>5, <1>6

\* A round that leaves nothing to do at once.
LEMMA WaitingKeeps ==
  ASSUME NEW p, IsPool(p), PlacedBut(p, NoId), Unfinished(p, ToSet(p.ids)),
         Recorded(p, used', outcome), ReturnWaiting(p),
         \A i \in 1..Len(p.ids) : i <= PoolConcurrency => Rested(p.qs[p.ids[i]])
  PROVE  Kept(State', used', outcome', wake')
<1>1. State' = p /\ outcome' = outcome /\ wake' = NextDue(p)
  BY DEF ReturnWaiting, State, Pool, IsPool
<1>2. PoolSound(p)
  BY DEF IsPool
<1>3. Early(p, NextDue(p))
  <2> SUFFICES ASSUME NEW i \in 1..Len(p.ids), i <= PoolConcurrency,
                      NEW t \in Moments(p.qs[p.ids[i]])
               PROVE  NextDue(p) # NoTime /\ NextDue(p) <= t
    BY DEF Early
  <2> DEFINE x == p.qs[p.ids[i]]
  <2>1. p.ids[i] \in ToSet(p.ids) /\ p.ids[i] \in Activity
    BY <1>2, RunningIds DEF PoolSound
  <2>2. x \in QueryType /\ Rested(x)
    BY <1>2, <2>1 DEF PoolSound
  <2>3. \A d \in Times(x) \ {NoTime} : NextDue(p) # NoTime /\ NextDue(p) <= d
    BY <1>2, <2>1, NextDueSound
  <2>4. NextDue(p) \in Int /\ t \in Int
    <3>1. NextDue(p) \in NoTime..(RequestTimeout + Timeout)
      BY <1>2, NextDueSound
    <3>2. t \in Int
      BY <2>2, MomentsSound
    <3> QED
      BY <3>1, <3>2
  <2> HIDE DEF x
  <2>5. x.nextDue \in Int
    <3>1. x.nextDue \in NoTime..RequestTimeout
      BY <2>2 DEF QueryType
    <3> QED
      BY <3>1
  <2>6. CASE t = x.deadline
    BY <2>3, <2>6 DEF Times, Moments, x
  <2>7. ASSUME NEW n \in In(x, "Waiting"), t = x.left[n]
        PROVE  NextDue(p) # NoTime /\ NextDue(p) <= t
    <3>1. x.nextDue # NoTime /\ x.nextDue <= t
      BY <2>2, <2>7 DEF Rested
    <3>2. NextDue(p) # NoTime /\ NextDue(p) <= x.nextDue
      BY <2>3, <3>1 DEF Times
    <3> QED
      BY <2>4, <2>5, <3>1, <3>2
  <2> QED
    BY <2>6, <2>7 DEF Moments, x
<1> QED
  BY <1>1, <1>2, <1>3, NextDueSound DEF Kept

\* The loop of Pool.Advance keeps the invariant, whatever query the event was for.
LEMMA RoundKeeps ==
  ASSUME NEW p, IsPool(p), PlacedBut(p, NoId), Unfinished(p, ToSet(p.ids)),
         Recorded(p, used', outcome), NEW skip, NEW counted, Skipped(p, skip, counted),
         counted = 1 => Rested(p.qs[skip]), PollOthers(p, skip, counted)
  PROVE  Kept(State', used', outcome', wake')
<1>1. /\ Distinct(p.ids) /\ p = Pool(p.ids, p.qs, p.net) /\ p.qs \in [Activity -> QueryType]
      /\ ToSet(p.ids) \in SUBSET Activity
      /\ \A i \in 1..Len(p.ids) : p.ids[i] \in ToSet(p.ids)
  BY RunningIds DEF IsPool, PoolSound
<1>2. PICK p1, S : Passed(p, p1, S) /\ Round(p, skip, p1, S)
  BY <1>1, PollOthersRound
<1>3. /\ IsPool(p1) /\ PlacedBut(p1, NoId) /\ p1.ids = p.ids /\ p1.net = p.net
      /\ \A id \in S : Good(Polled(p, id)) /\ p1.qs[id] = Polled(p, id).query
      /\ \A id \in Activity \ S : p1.qs[id] = p.qs[id]
  BY <1>2, PassedSound
<1>4. Recorded(p1, used', outcome)
  BY <1>3 DEF Recorded
<1>5. ASSUME NEW id \in ToSet(p.ids), id \in S => ~Terminal(Polled(p, id)) PROVE ~p1.qs[id].finished
  <2>1. CASE id \in S
    BY <1>3, <1>5, <2>1 DEF Good, Terminal
  <2>2. CASE id \notin S
    BY <1>1, <1>3, <2>2 DEF Unfinished
  <2> QED
    BY <2>1, <2>2
<1>6. ASSUME NEW id \in S, Terminal(Polled(p, id)), ReturnTerminal(p1, id, Polled(p, id)),
             \A other \in S \ {id} : ~Terminal(Polled(p, other))
      PROVE  Kept(State', used', outcome', wake')
  <2>1. Unfinished(p1, ToSet(p1.ids) \ {id})
    BY <1>3, <1>5, <1>6 DEF Unfinished
  <2>2. /\ id \in ToSet(p1.ids) /\ \E i \in 1..Len(p1.ids) : i <= Reach /\ p1.ids[i] = id
    BY <1>2, <1>3 DEF Passed
  <2>3. PlacedBut(p1, id)
    <3> SUFFICES ASSUME NEW i \in 1..Len(p.ids), i > Reach PROVE Quiet(p1, p1.ids[i])
      BY <1>3 DEF PlacedBut
    <3>1. p1.ids[i] # NoId
      BY <1>1, <1>3, PoolAssumption DEF NoId
    <3> QED
      BY <1>3, <3>1 DEF PlacedBut
  <2>4. Good(Polled(p, id)) /\ p1.qs[id] = Polled(p, id).query
    BY <1>3
  <2> QED
    BY <1>3, <1>4, <1>6, <2>1, <2>2, <2>3, <2>4, TerminalKeeps
<1>7. ASSUME ReturnWaiting(p1), \A id \in S : ~Terminal(Polled(p, id)),
             \A i \in 1..Len(p.ids) : i <= PoolConcurrency => p.ids[i] \in S \cup {skip}
      PROVE  Kept(State', used', outcome', wake')
  <2>1. Unfinished(p1, ToSet(p1.ids))
    BY <1>3, <1>5, <1>7 DEF Unfinished
  <2>2. ASSUME NEW i \in 1..Len(p1.ids), i <= PoolConcurrency PROVE Rested(p1.qs[p1.ids[i]])
    <3>1. CASE p.ids[i] \in S
      BY <1>3, <1>7, <3>1 DEF Good
    <3>2. CASE p.ids[i] \notin S
      <4>1. p.ids[i] = skip /\ skip \in ToSet(p.ids) /\ skip \in Activity
        BY <1>1, <1>3, <1>7, <2>2, <3>2
      <4>2. counted = 1
        BY <4>1 DEF Skipped
      <4> QED
        BY <1>3, <3>2, <4>1, <4>2
    <3> QED
      BY <3>1, <3>2
  <2> QED
    BY <1>3, <1>4, <1>7, <2>1, <2>2, WaitingKeeps
<1> QED
  BY <1>2, <1>6, <1>7 DEF Round

\* An event for the query of id, whose result is r, from a pool with the given
\* requests out.
LEMMA EventKeeps ==
  ASSUME IInv, used' = used, NEW requests \in SUBSET net, NEW id \in Activity, NEW r,
         id \in Running => Good(r),
         id \in Running => \/ r.kind = "Finished"
                           \/ \E i \in 1..Len(queries) : i <= Reach /\ queries[i] = id,
         AdvanceEvent(requests, id, r)
  PROVE  Kept(State', used', outcome', wake')
<1>1. /\ Distinct(queries) /\ qry \in [Activity -> QueryType] /\ \A k \in Activity : Sound(qry[k])
      /\ net \in SUBSET (Activity \X Node)
      /\ PlacedBut(State, NoId) /\ Unfinished(State, Running) /\ Recorded(State, used, outcome)
  BY DEF IInv, Kept, PoolSound, State, Pool, Running
<1>2. /\ State.ids = queries /\ State.qs = qry /\ State.net = net
  BY DEF State, Pool
<1>3. /\ Running \in SUBSET Activity /\ Len(queries) \in Nat /\ NoId \notin Activity
      /\ \A i \in 1..Len(queries) : queries[i] \in Running
  BY <1>1, RunningIds, PoolAssumption DEF Running, NoId
<1>4. CASE id \notin Running
  <2> DEFINE p == Pool(queries, qry, requests)
  <2>1. /\ p = Pool(p.ids, p.qs, p.net) /\ p.ids = queries /\ p.qs = qry /\ p.net = requests
    BY DEF Pool
  <2>2. PollOthers(p, NoId, 0)
    BY <1>4 DEF AdvanceEvent
  <2> HIDE DEF p
  <2>3. IsPool(p)
    BY <1>1, <2>1 DEF IsPool, PoolSound
  <2>4. PlacedBut(p, NoId) /\ Unfinished(p, ToSet(p.ids)) /\ Recorded(p, used', outcome)
    BY <1>1, <1>2, <2>1 DEF PlacedBut, Quiet, Unfinished, Recorded, Running
  <2>5. Skipped(p, NoId, 0)
    BY <1>3, <2>1 DEF Skipped, Running
  <2> QED
    BY <2>2, <2>3, <2>4, <2>5, RoundKeeps
<1>5. CASE id \in Running
  <2> DEFINE p == Pool(queries, [qry EXCEPT ![id] = r.query], requests)
  <2>1. /\ p = Pool(p.ids, p.qs, p.net) /\ p.ids = queries /\ p.qs = [qry EXCEPT ![id] = r.query]
        /\ p.net = requests
    BY DEF Pool
  <2>2. IF Terminal(r) THEN ReturnTerminal(p, id, r) ELSE PollOthers(p, id, 1)
    BY <1>5 DEF AdvanceEvent
  <2> HIDE DEF p
  <2>3. Good(r) /\ r.query \in QueryType /\ Sound(r.query)
    BY <1>5 DEF Good, Sound
  <2>4. /\ p.qs \in [Activity -> QueryType] /\ \A k \in Activity : Sound(p.qs[k])
        /\ p.qs[id] = r.query /\ \A k \in Activity : k # id => p.qs[k] = qry[k]
    BY <1>1, <2>1, <2>3
  <2>5. IsPool(p)
    BY <1>1, <2>1, <2>4 DEF IsPool, PoolSound
  <2>6. Unfinished(p, ToSet(p.ids) \ {id})
    BY <1>1, <1>2, <1>3, <2>1, <2>4 DEF Unfinished, Running
  <2>7. Recorded(p, used', outcome)
    BY <1>1, <1>2, <2>1 DEF Recorded
  <2>8. \A i \in 1..Len(queries) : i > Reach /\ queries[i] # id => Quiet(p, queries[i])
    <3> SUFFICES ASSUME NEW i \in 1..Len(queries), i > Reach, queries[i] # id
                 PROVE  Quiet(p, queries[i])
      OBVIOUS
    <3>1. queries[i] \in Activity /\ queries[i] # NoId
      BY <1>3
    <3>2. Quiet(State, queries[i])
      BY <1>1, <1>2, <3>1 DEF PlacedBut
    <3> QED
      BY <1>2, <2>1, <2>4, <3>1, <3>2 DEF Quiet
  <2>9. CASE Terminal(r)
    <3>1. PlacedBut(p, id) /\ id \in ToSet(p.ids)
      BY <1>5, <2>1, <2>8 DEF PlacedBut, Running
    <3>2. r.kind = "FindCloser" => \E i \in 1..Len(p.ids) : i <= Reach /\ p.ids[i] = id
      BY <1>5, <2>1
    <3> QED
      BY <2>2, <2>3, <2>4, <2>5, <2>6, <2>7, <2>9, <3>1, <3>2, TerminalKeeps
  <2>10. CASE ~Terminal(r)
    <3>1. r.kind # "Finished" /\ ~r.query.finished /\ Rested(r.query)
      BY <2>3, <2>10 DEF Good, Terminal
    <3>2. PICK l \in 1..Len(queries) : l <= Reach /\ queries[l] = id
      BY <1>5, <3>1
    <3>3. PlacedBut(p, NoId)
      <4> SUFFICES ASSUME NEW i \in 1..Len(queries), i > Reach PROVE Quiet(p, queries[i])
        BY <2>1 DEF PlacedBut
      <4>1. queries[i] # id
        BY <1>1, <1>3, <3>2, ReachSound DEF Distinct
      <4> QED
        BY <2>8, <4>1
    <3>4. Unfinished(p, ToSet(p.ids))
      BY <2>4, <2>6, <3>1 DEF Unfinished
    <3>5. Skipped(p, id, 1)
      BY <2>1, <3>2 DEF Skipped
    <3> QED
      BY <2>2, <2>4, <2>5, <2>7, <2>10, <3>1, <3>3, <3>4, <3>5, RoundKeeps
  <2> QED
    BY <2>9, <2>10
<1> QED
  BY <1>4, <1>5
-----------------------------------------------------------------------------
(* The operations *)

\* What the invariant says of the variables.
LEMMA Unfolded ==
  ASSUME IInv
  PROVE  /\ /\ Distinct(queries) /\ qry \in [Activity -> QueryType]
            /\ \A id \in Activity : Sound(qry[id])
            /\ net \in SUBSET (Activity \X Node)
            /\ PlacedBut(State, NoId) /\ Unfinished(State, Running)
            /\ Recorded(State, used, outcome)
            /\ wake \in NoTime..(RequestTimeout + Timeout) /\ Early(State, wake)
            /\ State.ids = queries /\ State.qs = qry /\ State.net = net
         /\ IsPool(State)
         /\ /\ Running \in SUBSET Activity /\ Len(queries) \in Nat /\ NoId \notin Activity
            /\ \A i \in 1..Len(queries) : queries[i] \in Running
            /\ \A id \in Running : \E i \in 1..Len(queries) : queries[i] = id
<1>1. /\ Distinct(queries) /\ qry \in [Activity -> QueryType]
      /\ \A id \in Activity : Sound(qry[id])
      /\ net \in SUBSET (Activity \X Node)
      /\ PlacedBut(State, NoId) /\ Unfinished(State, Running)
      /\ Recorded(State, used, outcome)
      /\ wake \in NoTime..(RequestTimeout + Timeout) /\ Early(State, wake)
      /\ State.ids = queries /\ State.qs = qry /\ State.net = net
  BY DEF IInv, Kept, PoolSound, State, Pool, Running
<1>2. IsPool(State)
  BY DEF IInv, Kept, IsPool, State, Pool
<1>3. /\ Running \in SUBSET Activity /\ Len(queries) \in Nat /\ NoId \notin Activity
      /\ \A i \in 1..Len(queries) : queries[i] \in Running
      /\ \A id \in Running : \E i \in 1..Len(queries) : queries[i] = id
  BY <1>1, RunningIds, PoolAssumption DEF Running, NoId
<1> QED
  BY <1>1, <1>2, <1>3

\* A query that a request of its own is out for is within the reach of a round.
LEMMA AwaitedReached ==
  ASSUME IInv, NEW id \in Running, NEW n \in Node, <<id, n>> \in net
  PROVE  \E i \in 1..Len(queries) : i <= Reach /\ queries[i] = id
<1>1. PICK i \in 1..Len(queries) : queries[i] = id
  BY Unfolded
<1>2. i > Reach => Quiet(State, id)
  BY <1>1, Unfolded DEF PlacedBut
<1>3. ~(i > Reach)
  BY <1>2, Unfolded DEF Quiet
<1> QED
  BY <1>1, <1>3, ReachSound, Unfolded

\* A query is added at the end of the list, where a round reaches it last.
LEMMA AddQueryKeeps ==
  ASSUME IInv, NEW id \in Activity, NEW seeds \in SUBSET Node, AddQuery(id, seeds)
  PROVE  Kept(State', used', outcome', wake')
<1>1. /\ Distinct(queries) /\ qry \in [Activity -> QueryType]
      /\ \A k \in Activity : Sound(qry[k])
      /\ net \in SUBSET (Activity \X Node)
      /\ IsPool(State) /\ PlacedBut(State, NoId) /\ Unfinished(State, Running)
      /\ Recorded(State, used, outcome)
      /\ State.ids = queries /\ State.qs = qry /\ State.net = net
      /\ Running \in SUBSET Activity /\ Len(queries) \in Nat /\ NoId \notin Activity
      /\ \A i \in 1..Len(queries) : queries[i] \in Running
  BY Unfolded
<1>2. (id \in used => id \in Running) /\ used' = used \cup {id}
  BY DEF AddQuery
<1>3. CASE id \in Running
  <2>1. used' = used
    BY <1>1, <1>2, <1>3 DEF Recorded, Running
  <2>2. PollOthers(State, NoId, 0)
    BY <1>3 DEF AddQuery, State
  <2>3. Skipped(State, NoId, 0)
    BY <1>1 DEF Skipped, Running
  <2>4. Unfinished(State, ToSet(State.ids)) /\ Recorded(State, used', outcome)
    BY <1>1, <2>1 DEF Running
  <2> QED
    BY <1>1, <2>2, <2>3, <2>4, RoundKeeps
<1>4. CASE id \notin Running
  <2> DEFINE ids == Append(queries, id)
             x == NewQuery(seeds, FALSE)
             qs == [qry EXCEPT ![id] = x]
             p == Pool(ids, qs, net)
  <2>1. PollOthers(p, NoId, 0)
    BY <1>4 DEF AddQuery
  <2>2. p = Pool(p.ids, p.qs, p.net) /\ p.ids = ids /\ p.qs = qs /\ p.net = net
    BY DEF Pool
  <2>3. Sound(x) /\ x \in QueryType /\ ~x.finished /\ x.inFlight = 0
    BY NewQuerySound DEF NewQuery, Sound
  <2> HIDE DEF x
  <2>4. /\ qs \in [Activity -> QueryType] /\ \A k \in Activity : Sound(qs[k])
        /\ qs[id] = x /\ \A k \in Activity : k # id => qs[k] = qry[k]
    BY <1>1, <2>3
  <2> HIDE DEF p, qs
  <2>5. /\ ids \in Seq(Activity) /\ Len(ids) = Len(queries) + 1
        /\ \A i \in 1..Len(queries) : ids[i] = queries[i]
        /\ ids[Len(queries) + 1] = id
    BY <1>1, AppendProperties DEF Distinct
  <2> HIDE DEF ids
  <2>6. \A i \in 1..Len(ids) : \/ i \in 1..Len(queries) /\ ids[i] = queries[i] /\ ids[i] # id
                               \/ i = Len(queries) + 1 /\ ids[i] = id
    <3> SUFFICES ASSUME NEW i \in 1..Len(ids)
                 PROVE  \/ i \in 1..Len(queries) /\ ids[i] = queries[i] /\ ids[i] # id
                        \/ i = Len(queries) + 1 /\ ids[i] = id
      OBVIOUS
    <3>1. CASE i = Len(queries) + 1
      BY <2>5, <3>1
    <3>2. CASE i # Len(queries) + 1
      <4>1. i \in 1..Len(queries)
        BY <1>1, <2>5, <3>2
      <4> QED
        BY <1>1, <1>4, <2>5, <4>1
    <3> QED
      BY <3>1, <3>2
  <2>7. Distinct(ids)
    <3> SUFFICES ASSUME NEW i \in 1..Len(ids), NEW j \in 1..Len(ids), ids[i] = ids[j] PROVE i = j
      BY <2>5 DEF Distinct
    <3> QED
      BY <1>1, <2>6 DEF Distinct
  <2>8. ToSet(ids) = Running \cup {id}
    <3>1. \A k : k \in ToSet(ids) <=> \E i \in 1..Len(ids) : ids[i] = k
      BY <2>7, RunningIds
    <3>2. \A k : k \in Running <=> \E i \in 1..Len(queries) : queries[i] = k
      BY <1>1, RunningIds DEF Running
    <3>3. \A i \in 1..Len(queries) : i \in 1..Len(ids)
      BY <1>1, <2>5
    <3>4. Len(queries) + 1 \in 1..Len(ids)
      BY <1>1, <2>5
    <3>5. \A k \in ToSet(ids) : k \in Running \cup {id}
      BY <2>6, <3>1, <3>2
    <3>6. \A k \in Running : k \in ToSet(ids)
      BY <2>5, <3>1, <3>2, <3>3
    <3>7. id \in ToSet(ids)
      BY <2>5, <3>1, <3>4
    <3> QED
      BY <3>5, <3>6, <3>7
  <2>9. IsPool(p)
    BY <1>1, <2>2, <2>4, <2>7 DEF IsPool, PoolSound
  <2>10. id \notin used /\ outcome[id] = "None" /\ \A n \in Node : <<id, n>> \notin net
    BY <1>1, <1>2, <1>4 DEF Recorded
  <2>11. PlacedBut(p, NoId)
    <3> SUFFICES ASSUME NEW i \in 1..Len(ids), i > Reach PROVE Quiet(p, ids[i])
      BY <2>2 DEF PlacedBut
    <3>1. CASE ids[i] = id
      BY <2>2, <2>3, <2>4, <2>10, <3>1 DEF Quiet
    <3>2. CASE ids[i] # id
      <4>1. i \in 1..Len(queries) /\ ids[i] = queries[i] /\ queries[i] \in Activity
        BY <1>1, <2>6, <3>2
      <4>2. Quiet(State, queries[i])
        BY <1>1, <4>1 DEF PlacedBut
      <4> QED
        BY <1>1, <2>2, <2>4, <3>2, <4>1, <4>2 DEF Quiet
    <3> QED
      BY <3>1, <3>2
  <2>12. Unfinished(p, ToSet(p.ids))
    BY <1>1, <2>2, <2>3, <2>4, <2>8 DEF Unfinished
  <2>13. Recorded(p, used', outcome)
    BY <1>1, <1>2, <2>2, <2>8, <2>10 DEF Recorded, Running
  <2>14. Skipped(p, NoId, 0)
    BY <1>1, <2>2, <2>8 DEF Skipped
  <2> QED
    BY <2>1, <2>9, <2>11, <2>12, <2>13, <2>14, RoundKeeps
<1> QED
  BY <1>3, <1>4

\* A stopped query is removed, wherever it is on the list.
LEMMA StopQueryKeeps ==
  ASSUME IInv, NEW id \in Activity, StopQuery(id)
  PROVE  Kept(State', used', outcome', wake')
<1> DEFINE r == CancelOutcome(qry[id])
<1>1. AdvanceEvent(net, id, r) /\ used' = used
  BY DEF StopQuery
<1>2. Sound(qry[id]) /\ (id \in Running => ~qry[id].finished)
  BY Unfolded DEF Unfinished
<1>3. id \in Running => Good(r) /\ r.kind = "Finished"
  BY <1>2, CancelGood
<1> HIDE DEF r
<1> QED
  BY <1>1, <1>3, EventKeeps

\* An answer is for a query within the reach of a round, or for one that has ended.
LEMMA NodeResponseKeeps ==
  ASSUME IInv, NEW id \in Activity, NEW n \in Node, NEW closer, NodeResponse(id, n, closer)
  PROVE  Kept(State', used', outcome', wake')
<1> DEFINE y == OnNodeResponse(qry[id], n, closer)
           r == Outcome(qry[id], y)
<1>1. <<id, n>> \in net /\ AdvanceEvent(net \ {<<id, n>>}, id, r) /\ used' = used
  BY DEF NodeResponse
<1>2. Sound(qry[id]) /\ (id \in Running => ~qry[id].finished)
  BY Unfolded DEF Unfinished
<1>3. Sound(y) /\ SameQuery(qry[id], y)
  BY <1>2, ResponseSound
<1> HIDE DEF y
<1>4. id \in Running => Good(r)
  BY <1>2, <1>3, OutcomeGood
<1>5. id \in Running => \E i \in 1..Len(queries) : i <= Reach /\ queries[i] = id
  BY <1>1, AwaitedReached
<1> HIDE DEF r
<1> QED
  BY <1>1, <1>4, <1>5, EventKeeps

\* So is a failure.
LEMMA NodeFailureKeeps ==
  ASSUME IInv, NEW id \in Activity, NEW n \in Node, NodeFailure(id, n)
  PROVE  Kept(State', used', outcome', wake')
<1> DEFINE y == OnNodeFailure(qry[id], n)
           r == Outcome(qry[id], y)
<1>1. <<id, n>> \in net /\ AdvanceEvent(net \ {<<id, n>>}, id, r) /\ used' = used
  BY DEF NodeFailure
<1>2. Sound(qry[id]) /\ (id \in Running => ~qry[id].finished)
  BY Unfolded DEF Unfinished
<1>3. Sound(y) /\ SameQuery(qry[id], y)
  BY <1>2, FailureSound
<1> HIDE DEF y
<1>4. id \in Running => Good(r)
  BY <1>2, <1>3, OutcomeGood
<1>5. id \in Running => \E i \in 1..Len(queries) : i <= Reach /\ queries[i] = id
  BY <1>1, AwaitedReached
<1> HIDE DEF r
<1> QED
  BY <1>1, <1>4, <1>5, EventKeeps

\* A poll is a round with no query of its own.
LEMMA PollKeeps ==
  ASSUME IInv, Poll
  PROVE  Kept(State', used', outcome', wake')
<1>1. PollOthers(State, NoId, 0) /\ used' = used
  BY DEF Poll, State
<1>2. /\ IsPool(State) /\ PlacedBut(State, NoId) /\ Unfinished(State, ToSet(State.ids))
      /\ Recorded(State, used', outcome) /\ Skipped(State, NoId, 0)
  BY <1>1, Unfolded DEF Running, Skipped
<1> QED
  BY <1>1, <1>2, RoundKeeps

\* The clock counts the pool's timer down together with the times it covers.
LEMMA TickKeeps ==
  ASSUME IInv, Tick
  PROVE  Kept(State', used', outcome', wake')
<1>1. /\ Distinct(queries) /\ qry \in [Activity -> QueryType]
      /\ \A k \in Activity : Sound(qry[k])
      /\ net \in SUBSET (Activity \X Node)
      /\ PlacedBut(State, NoId) /\ Unfinished(State, Running)
      /\ Recorded(State, used, outcome)
      /\ wake \in NoTime..(RequestTimeout + Timeout) /\ Early(State, wake)
      /\ State.ids = queries /\ State.qs = qry /\ State.net = net
      /\ Running \in SUBSET Activity
      /\ \A i \in 1..Len(queries) : queries[i] \in Running
  BY Unfolded
<1>2. /\ qry' = [id \in Activity |-> IF id \in Running THEN Elapse(qry[id]) ELSE qry[id]]
      /\ wake' = CountDown(wake)
      /\ queries' = queries /\ used' = used /\ outcome' = outcome /\ net' = net
  BY DEF Tick
<1>3. ASSUME NEW id \in Running
      PROVE  /\ qry'[id] = Elapse(qry[id]) /\ Sound(qry'[id]) /\ qry'[id] \in QueryType
             /\ SameQuery(qry[id], qry'[id]) /\ qry'[id].inFlight = qry[id].inFlight
  BY <1>1, <1>2, ElapseSound DEF Sound
<1>4. \A id \in Activity \ Running : qry'[id] = qry[id]
  BY <1>2
<1>5. qry' \in [Activity -> QueryType] /\ \A id \in Activity : Sound(qry'[id])
  <2>1. \A id \in Activity : qry'[id] \in QueryType /\ Sound(qry'[id])
    BY <1>1, <1>3, <1>4
  <2>2. DOMAIN qry' = Activity /\ qry' = [id \in Activity |-> qry'[id]]
    BY <1>2
  <2> QED
    BY <2>1, <2>2
<1> DEFINE s == State'
<1>6. s.ids = queries /\ s.qs = qry' /\ s.net = net
  BY <1>2 DEF State, Pool
<1> HIDE DEF s
<1>7. PoolSound(s)
  <2>1. s.qs \in [Activity -> QueryType] /\ \A id \in Activity : Sound(s.qs[id])
    BY <1>5, <1>6
  <2>2. Distinct(s.ids) /\ s.net \in SUBSET (Activity \X Node)
    BY <1>1, <1>6
  <2> QED
    BY <2>1, <2>2 DEF PoolSound
<1>8. PlacedBut(s, NoId)
  BY <1>1, <1>3, <1>6 DEF PlacedBut, Quiet
<1>9. Unfinished(s, ToSet(s.ids))
  BY <1>1, <1>3, <1>6 DEF Unfinished, SameQuery, Running
<1>10. Recorded(s, used', outcome')
  BY <1>1, <1>2, <1>6 DEF Recorded, Running
<1>11. wake' \in NoTime..(RequestTimeout + Timeout)
  BY <1>1, <1>2, Bounds DEF CountDown, Past, NoTime
<1>12. Early(s, wake')
  <2> SUFFICES ASSUME NEW i \in 1..Len(queries), i <= PoolConcurrency,
                      NEW t \in Moments(qry'[queries[i]])
               PROVE  wake' # NoTime /\ wake' <= t
    BY <1>6 DEF Early
  <2> DEFINE x == qry[queries[i]]
  <2>1. queries[i] \in Running /\ x \in QueryType /\ Sound(x) /\ qry'[queries[i]] = Elapse(x)
    BY <1>1, <1>3
  <2>2. \A d \in Moments(x) : d \in Int /\ d >= Past /\ wake # NoTime /\ wake <= d
    BY <1>1, <2>1, MomentsSound DEF Early
  <2> HIDE DEF x
  <2> DEFINE y == Elapse(x)
  <2>3. /\ y.state = x.state /\ y.deadline = CountDown(x.deadline)
        /\ \A n \in In(x, "Waiting") : y.left[n] = CountDown(x.left[n])
    BY <2>1, ElapseSound
  <2>4. In(y, "Waiting") = In(x, "Waiting")
    BY <2>3 DEF In
  <2>5. t \in Moments(y)
    BY <2>1
  <2> HIDE DEF y
  <2>6. PICK d \in Moments(x) : t = CountDown(d)
    <3>1. CASE t = y.deadline
      <4>1. x.deadline # NoTime
        BY <2>3, <2>5, <3>1 DEF Moments, CountDown, NoTime, Past
      <4> QED
        BY <2>3, <3>1, <4>1 DEF Moments
    <3>2. ASSUME NEW n \in In(x, "Waiting"), t = y.left[n]
          PROVE  \E d \in Moments(x) : t = CountDown(d)
      <4>1. x.left[n] # NoTime
        BY <2>1, <3>2, Bounds DEF In, QueryType, NoTime, Past
      <4> QED
        BY <2>3, <3>2, <4>1 DEF Moments
    <3> QED
      BY <2>4, <2>5, <3>1, <3>2 DEF Moments
  <2>7. d \in Int /\ d >= Past /\ wake # NoTime /\ wake <= d
    BY <2>2
  <2>8. wake \in Int /\ wake >= Past
    BY <1>1, <2>7, Bounds DEF NoTime, Past
  <2> QED
    BY <1>2, <2>6, <2>7, <2>8 DEF CountDown, NoTime, Past
<1> QED
  BY <1>7, <1>8, <1>9, <1>10, <1>11, <1>12 DEF Kept, s
-----------------------------------------------------------------------------
(* The theorems *)

\* The invariant holds of every reachable pool.
THEOREM Inductive == Spec => []IInv
<1>1. Init => IInv
  <2> SUFFICES ASSUME Init PROVE IInv
    OBVIOUS
  <2>1. /\ State.ids = <<>> /\ State.qs = [id \in Activity |-> NoQuery] /\ State.net = {}
        /\ used = {} /\ outcome = [id \in Activity |-> "None"] /\ wake = NoTime
    BY DEF Init, State, Pool
  <2>2. Sound(NoQuery) /\ NoQuery \in QueryType
    BY NewQuerySound DEF NoQuery, Sound
  <2>3. Distinct(<<>>) /\ 1..Len(<<>>) = {}
    BY EmptySeq DEF Distinct
  <2>4. ToSet(State.ids) = {}
    BY <2>1, <2>3, RunningIds
  <2>5. NoTime \in NoTime..(RequestTimeout + Timeout)
    BY Bounds DEF NoTime
  <2>6. PoolSound(State)
    BY <2>1, <2>2, <2>3 DEF PoolSound
  <2>7. PlacedBut(State, NoId) /\ Early(State, wake) /\ Unfinished(State, ToSet(State.ids))
    BY <2>1, <2>3, <2>4 DEF PlacedBut, Early, Unfinished
  <2>8. Recorded(State, used, outcome)
    BY <2>1, <2>4 DEF Recorded
  <2> QED
    BY <2>1, <2>5, <2>6, <2>7, <2>8 DEF IInv, Kept
<1>2. IInv /\ [Next]_vars => IInv'
  <2> SUFFICES ASSUME IInv, [Next]_vars PROVE Kept(State', used', outcome', wake')
    BY DEF IInv
  <2>1. ASSUME NEW id \in Activity, NEW seeds \in SUBSET Others(Node), AddQuery(id, seeds)
        PROVE  Kept(State', used', outcome', wake')
    BY <2>1, AddQueryKeeps DEF Others
  <2>2. ASSUME NEW id \in Activity, StopQuery(id) PROVE Kept(State', used', outcome', wake')
    BY <2>2, StopQueryKeeps
  <2>3. ASSUME NEW id \in Activity, NEW n \in Others(Node), NEW closer, NodeResponse(id, n, closer)
        PROVE  Kept(State', used', outcome', wake')
    BY <2>3, NodeResponseKeeps DEF Others
  <2>4. ASSUME NEW id \in Activity, NEW n \in Others(Node), NodeFailure(id, n)
        PROVE  Kept(State', used', outcome', wake')
    BY <2>4, NodeFailureKeeps DEF Others
  <2>5. CASE Poll
    BY <2>5, PollKeeps
  <2>6. CASE Tick
    BY <2>6, TickKeeps
  <2>7. CASE UNCHANGED vars
    <3>1. State' = State /\ used' = used /\ outcome' = outcome /\ wake' = wake
      BY <2>7 DEF vars, State
    <3> QED
      BY <3>1 DEF IInv
  <2> QED
    BY <2>1, <2>2, <2>3, <2>4, <2>5, <2>6, <2>7 DEF Next
<1> QED
  BY <1>1, <1>2, PTL DEF Spec

\* No query that was added to the pool is lost and the caller of none is told of a
\* second end, whatever answers, stops and deadlines come in which order.
THEOREM QueriesEndOnce == Spec => []EndsOnce
<1>1. IInv => EndsOnce
  BY Unfolded DEF Recorded, EndsOnce, Running
<1> QED
  BY <1>1, Inductive, PTL

\* The due time the pool reports is never later than the first moment at which a
\* query it would poll can make progress by itself, for every PoolConfig.
THEOREM PoolWakesInTime == Spec => []WakesInTime
<1>1. IInv => WakesInTime
  <2> SUFFICES ASSUME IInv, NEW i \in 1..Len(queries), i <= PoolConcurrency,
                      Moments(qry[queries[i]]) # {}
               PROVE  wake # NoTime /\ wake <= Nearest(Moments(qry[queries[i]]))
    BY DEF WakesInTime, Moments
  <2> DEFINE M == Moments(qry[queries[i]])
  <2>1. qry[queries[i]] \in QueryType
    BY Unfolded
  <2>2. M \in SUBSET Int /\ \A t \in M : t >= Past
    BY <2>1, MomentsSound
  <2>3. \A t \in M : wake # NoTime /\ wake <= t
    BY Unfolded DEF Early
  <2> HIDE DEF M
  <2>4. M # {} => Nearest(M) \in M
    BY <2>2, NearestSound
  <2> QED
    BY <2>3, <2>4 DEF M
<1> QED
  BY <1>1, Inductive, PTL

\* Only queries within the reach of a round have requests out.
LEMMA InFlightWithinReach ==
  ASSUME IInv
  PROVE  Cardinality(QueriesInFlight) <= Reach
<1> DEFINE Q == QueriesInFlight
           place == [id \in Q |-> CHOOSE i \in 1..Reach : i \in 1..Len(queries) /\ queries[i] = id]
<1>1. ASSUME NEW id \in Q PROVE \E i \in 1..Reach : i \in 1..Len(queries) /\ queries[i] = id
  <2>1. id \in Running /\ qry[id].inFlight > 0
    BY DEF QueriesInFlight
  <2>2. PICK i \in 1..Len(queries) : queries[i] = id
    BY <2>1, Unfolded
  <2>3. i > Reach => Quiet(State, id)
    BY <2>2, Unfolded DEF PlacedBut
  <2>4. ~(i > Reach)
    <3> SUFFICES ASSUME i > Reach PROVE FALSE
      OBVIOUS
    <3>1. qry[id].inFlight = 0
      BY <2>3, Unfolded DEF Quiet
    <3> QED
      BY <2>1, <3>1
  <2>5. i \in 1..Reach
    BY <2>4, Unfolded, ReachSound
  <2> QED
    BY <2>2, <2>5
<1>2. \A id \in Q : /\ place[id] \in 1..Reach /\ place[id] \in 1..Len(queries)
                    /\ queries[place[id]] = id
  BY <1>1
<1>3. place \in Injection(Q, 1..Reach)
  <2>1. place \in [Q -> 1..Reach]
    BY <1>2
  <2> HIDE DEF place, Q
  <2>2. \A a, b \in Q : place[a] = place[b] => a = b
    BY <1>2
  <2> QED
    BY <2>1, <2>2 DEF Injection, IsInjective
<1> HIDE DEF place
<1>4. IsFiniteSet(1..Reach) /\ Cardinality(1..Reach) = Reach
  BY ReachSound, FS_Interval
<1> QED
  BY <1>3, <1>4, FS_Injection

\* Whatever its capacity, the pool never has more queries waiting for responses than
\* a round reaches.
THEOREM InFlightBounded == Spec => [](Cardinality(QueriesInFlight) <= Reach)
BY InFlightWithinReach, Inductive, PTL

\* A pool that may run two queries or more never has more of them waiting for
\* responses than PoolConfig.Concurrency.  For a pool of one the bound is two.
THEOREM PoolConcurrencyKept ==
  ASSUME PoolConcurrency # 1
  PROVE  Spec => []PoolConcurrencyRespected
<1>1. IInv => PoolConcurrencyRespected
  BY InFlightWithinReach, ReachSound DEF PoolConcurrencyRespected
<1> QED
  BY <1>1, Inductive, PTL
=============================================================================
