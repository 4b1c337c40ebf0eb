--------------------------- MODULE NetworkProofs ----------------------------
(***************************************************************************)
(* Proofs about Network, for any set of nodes, any finite set of requests  *)
(* and any capacities that CoordinatorConfig.Validate lets through.        *)
(*                                                                         *)
(* The invariants the runs check are not inductive one by one.  IInv joins *)
(* them with two facts: a handler's queue holds distinct requests that are *)
(* in the "queued" stage and addressed to it (QueuesSound), and the        *)
(* answers a behaviour has yet to take, queued or still to come, together  *)
(* with the other events before or among them exceed the network's         *)
(* capacity by at most one and the number of others that joined since the  *)
(* queue was last empty (AnswersBounded).                                  *)
(***************************************************************************)
EXTENDS Network, FiniteSetTheorems, TLAPS

Distinct(s) == \A i, j \in 1..Len(s) : s[i] = s[j] => i = j

QueuesSound ==
  \A n \in Peer :
    /\ Distinct(pending[n])
    /\ \A i \in 1..Len(pending[n]) :
         where[pending[n][i]] = "queued" /\ Dest[pending[n][i]] = n

AnswersBounded ==
  burst < Headroom =>
    /\ Len(inbound) + Cardinality(Unanswered) <= Capacity + 1 + burst
    /\ loop = "dispatch" => Len(inbound) + Cardinality(Unanswered) <= Capacity + burst

IInv ==
  /\ TypeOK
  /\ SlotsAccounted
  /\ QueuesSound
  /\ EvictedIsEmpty
  /\ OneAtATime
  /\ AnswersBounded
  /\ LostOnlyToBursts
-----------------------------------------------------------------------------
(* Counting requests *)

\* The sets of requests the tokens and the queue are counted against are finite.
LEMMA Finite ==
  /\ IsFiniteSet(Holding) /\ Cardinality(Holding) \in Nat
  /\ IsFiniteSet(Unanswered) /\ Cardinality(Unanswered) \in Nat
  /\ Cardinality(Unanswered) <= Cardinality(Holding)
  /\ \A n \in Peer : IsFiniteSet(HoldingNode(n)) /\ Cardinality(HoldingNode(n)) \in Nat
<1>1. Holding \in SUBSET Request
  BY DEF Holding
<1>2. Unanswered \in SUBSET Holding
  BY DEF Holding, Unanswered
<1>3. \A n \in Peer : HoldingNode(n) \in SUBSET Request
  BY DEF HoldingNode
<1>4. IsFiniteSet(Holding)
  BY <1>1, FS_Subset, NetworkAssumption
<1>5. IsFiniteSet(Unanswered) /\ Cardinality(Unanswered) <= Cardinality(Holding)
  BY <1>2, <1>4, FS_Subset
<1>6. \A n \in Peer : IsFiniteSet(HoldingNode(n))
  BY <1>3, FS_Subset, NetworkAssumption
<1> QED
  BY <1>4, <1>5, <1>6, FS_CardinalityType

\* What one request joining or leaving a set does to its cardinality.
LEMMA Joins ==
  ASSUME NEW S, NEW T, NEW x, IsFiniteSet(S), x \notin S, T = S \cup {x}
  PROVE  Cardinality(T) = Cardinality(S) + 1
BY FS_AddElement

\* What a request leaving a set does to its cardinality.
LEMMA Leaves ==
  ASSUME NEW S, NEW T, NEW x, IsFiniteSet(S), x \in S, T = S \ {x}
  PROVE  Cardinality(T) = Cardinality(S) - 1 /\ Cardinality(S) > 0
<1>1. Cardinality(T) = Cardinality(S) - 1
  BY FS_RemoveElement
<1>2. Cardinality(S) # 0 /\ Cardinality(S) \in Nat
  BY FS_EmptySet, FS_CardinalityType
<1> QED
  BY <1>1, <1>2

-----------------------------------------------------------------------------
(* A handler's queue *)

\* A request that is not in a queue without duplicates joins it at the end.
LEMMA DistinctAppend ==
  ASSUME NEW S, NEW s \in Seq(S), NEW x \in S, Distinct(s),
         \A i \in 1..Len(s) : s[i] # x
  PROVE  /\ Distinct(Append(s, x))
         /\ \A i \in 1..Len(Append(s, x)) :
              Append(s, x)[i] = x \/ \E k \in 1..Len(s) : Append(s, x)[i] = s[k]
BY DEF Distinct

\* The head of a queue without duplicates is not among the rest of it.
LEMMA DistinctTail ==
  ASSUME NEW S, NEW s \in Seq(S), s # <<>>, Distinct(s)
  PROVE  /\ Head(s) \in S /\ 1 \in 1..Len(s) /\ Head(s) = s[1]
         /\ Tail(s) \in Seq(S) /\ Distinct(Tail(s))
         /\ \A i \in 1..Len(Tail(s)) :
              Tail(s)[i] # Head(s) /\ \E k \in 1..Len(s) : Tail(s)[i] = s[k]
<1>1. Len(s) > 0 /\ Head(s) = s[1] /\ Head(s) \in S /\ Tail(s) \in Seq(S) /\ 1 \in 1..Len(s)
  OBVIOUS
<1>2. \A i \in 1..Len(Tail(s)) :
        i \in Int /\ i + 1 \in 1..Len(s) /\ Tail(s)[i] = s[i + 1] /\ i + 1 # 1
  BY <1>1
<1>3. \A i, j \in 1..Len(Tail(s)) : Tail(s)[i] = Tail(s)[j] => i + 1 = j + 1
  BY <1>2 DEF Distinct
<1>4. \A i \in 1..Len(Tail(s)) : s[i + 1] # s[1]
  BY <1>1, <1>2 DEF Distinct
<1>5. Distinct(Tail(s))
  BY <1>2, <1>3 DEF Distinct
<1> QED
  BY <1>1, <1>2, <1>4, <1>5

\* The oldest request of a handler's queue, and what is left behind it.
LEMMA HeadOfQueue ==
  ASSUME IInv, NEW n \in Peer, pending[n] # <<>>
  PROVE  /\ Head(pending[n]) \in Request
         /\ where[Head(pending[n])] = "queued"
         /\ Dest[Head(pending[n])] = n
         /\ Tail(pending[n]) \in Seq(Request)
         /\ Distinct(Tail(pending[n]))
         /\ \A i \in 1..Len(Tail(pending[n])) :
              /\ Tail(pending[n])[i] \in Request \ {Head(pending[n])}
              /\ where[Tail(pending[n])[i]] = "queued"
              /\ Dest[Tail(pending[n])[i]] = n
<1>1. pending[n] \in Seq(Request) /\ Distinct(pending[n])
  BY DEF IInv, TypeOK, QueuesSound
<1>2. \A k \in 1..Len(pending[n]) :
        pending[n][k] \in Request /\ where[pending[n][k]] = "queued" /\ Dest[pending[n][k]] = n
  BY <1>1 DEF IInv, QueuesSound
<1> QED
  BY <1>1, <1>2, DistinctTail

-----------------------------------------------------------------------------
(* IInv is inductive: one lemma per action *)

\* Initially all tokens are free and nothing is queued.
LEMMA InitIInv == Init => IInv
<1> SUFFICES ASSUME Init PROVE IInv
  OBVIOUS
<1>1. TypeOK
  <2>1. slots \in 0..Capacity /\ nodeSlots \in [Peer -> 0..NodeCapacity]
    BY NetworkAssumption DEF Init
  <2>2. pending \in [Peer -> Seq(Request)]
    BY DEF Init
  <2>4. inbound \in Seq(Request \cup {Other})
    <3>1. <<>> \in Seq(Request \cup {Other})
      OBVIOUS
    <3> QED
      BY <3>1 DEF Init
  <2>3. burst \in 0..Headroom
    <3>1. burst = 0
      BY DEF Init
    <3> QED
      BY <3>1, NetworkAssumption DEF Headroom
  <2> QED
    BY <2>1, <2>2, <2>3, <2>4 DEF Init, TypeOK, Stage, HandlerPc, LoopPc
<1>2. Holding = {} /\ Unanswered = {} /\ \A n \in Peer : HoldingNode(n) = {}
  BY DEF Init, Holding, Unanswered, HoldingNode
<1>3. SlotsAccounted
  BY <1>2, FS_EmptySet DEF Init, SlotsAccounted
<1>4. EvictedIsEmpty
  BY <1>2 DEF Init, EvictedIsEmpty
<1>5. AnswersBounded
  BY <1>2, FS_EmptySet, NetworkAssumption DEF Init, AnswersBounded
<1>6. QueuesSound
  BY DEF Init, QueuesSound, Distinct
<1>7. OneAtATime /\ LostOnlyToBursts
  BY NetworkAssumption DEF Init, OneAtATime, Active, LostOnlyToBursts
<1> QED
  BY <1>1, <1>3, <1>4, <1>5, <1>6, <1>7 DEF IInv

\* A step that changes neither a request, a queue nor a token count.
LEMMA SetsUnchanged ==
  ASSUME UNCHANGED where
  PROVE  /\ Holding' = Holding
         /\ Unanswered' = Unanswered
         /\ \A n \in Peer : HoldingNode(n)' = HoldingNode(n)
BY DEF Holding, Unanswered, HoldingNode

\* Perform takes an event from the inbound queue, which makes room for the one event it
\* emits, and starts the count of the others afresh when it leaves the queue empty.
LEMMA PerformIInv == IInv /\ Perform => IInv'
<1> SUFFICES ASSUME IInv, Perform PROVE IInv'
  OBVIOUS
<1> USE DEF IInv
<1>1. inbound' \in Seq(Request \cup {Other}) /\ loop' = "dispatch"
  BY DEF TypeOK, Perform, Taken
<1>2. CASE inbound' = <<>>
  <2>1. burst' = 0 /\ lost' = FALSE
    BY <1>2 DEF Perform
  <2>2. Cardinality(Unanswered) <= Capacity
    <3>1. slots \in 0..Capacity /\ slots = Cardinality(Holding)
      BY DEF TypeOK, SlotsAccounted
    <3> QED
      BY <3>1, Finite, NetworkAssumption
  <2>5. Len(inbound') = 0 /\ Unanswered' = Unanswered
    BY <1>2, SetsUnchanged DEF Perform
  <2>6. Len(inbound') + Cardinality(Unanswered) <= Capacity + burst'
    BY <2>1, <2>2, <2>5, Finite, NetworkAssumption
  <2>7. Len(inbound') + Cardinality(Unanswered) <= Capacity + 1 + burst'
    BY <2>1, <2>5, <2>6, Finite, NetworkAssumption
  <2>8. AnswersBounded'
    BY <2>5, <2>6, <2>7 DEF AnswersBounded
  <2>3. AnswersBounded' /\ LostOnlyToBursts'
    BY <2>1, <2>8 DEF LostOnlyToBursts
  <2>9. burst' \in 0..Headroom' /\ Headroom' = Headroom
    BY <2>1, NetworkAssumption DEF Headroom
  <2>4. TypeOK'
    BY <1>1, <2>1, <2>9 DEF Perform, TypeOK, LoopPc
  <2> QED
    BY <2>3, <2>4, SetsUnchanged
    DEF Perform, SlotsAccounted, QueuesSound, OneAtATime, Active, EvictedIsEmpty
<1>3. CASE inbound' # <<>>
  <2>1. UNCHANGED <<burst, lost>> /\ inbound # <<>> /\ inbound' = Tail(inbound)
    BY <1>3 DEF Perform, Taken
  <2>2. Len(inbound') = Len(inbound) - 1 /\ Len(inbound) \in Nat
    BY <2>1 DEF TypeOK
  <2>4. burst \in Nat /\ Headroom' = Headroom /\ Unanswered' = Unanswered
    BY SetsUnchanged, NetworkAssumption DEF TypeOK, Headroom, Perform
  <2>3. AnswersBounded'
    BY <1>1, <2>1, <2>2, <2>4, Finite, NetworkAssumption DEF AnswersBounded
  <2> QED
    BY <1>1, <2>1, <2>3, SetsUnchanged
    DEF Perform, TypeOK, LoopPc, SlotsAccounted, QueuesSound, OneAtATime, Active,
        LostOnlyToBursts, EvictedIsEmpty
<1> QED
  BY <1>2, <1>3

\* Another event takes a place in the queue and is counted, or the count is full.
LEMMA SubmitIInv == IInv /\ Submit => IInv'
<1> SUFFICES ASSUME IInv, Submit PROVE IInv'
  OBVIOUS
<1> USE DEF IInv, Submit
<1>1. inbound' \in Seq(Request \cup {Other}) /\ Len(inbound') = Len(inbound) + 1 /\ Len(inbound) \in Nat
  BY DEF TypeOK
<1>2. /\ Headroom = QueueCapacity - Capacity /\ Headroom \in Nat /\ Headroom' = Headroom
      /\ burst \in 0..Headroom
  BY NetworkAssumption DEF TypeOK, Headroom
<1>7. /\ burst' \in 0..Headroom /\ burst <= burst'
      /\ burst' < Headroom => burst' = burst + 1 /\ burst < Headroom
  BY <1>2
<1>3. TypeOK'
  BY <1>1, <1>2, <1>7 DEF TypeOK
<1>4. SlotsAccounted' /\ QueuesSound' /\ OneAtATime' /\ EvictedIsEmpty'
  BY SetsUnchanged DEF SlotsAccounted, QueuesSound, OneAtATime, Active, EvictedIsEmpty
<1>5. LostOnlyToBursts'
  <2>1. lost' = lost /\ (lost => burst >= Headroom)
    BY DEF LostOnlyToBursts
  <2>2. lost' => burst' >= Headroom
    BY <1>2, <1>7, <2>1
  <2> QED
    BY <1>2, <2>2 DEF LostOnlyToBursts
<1>6. AnswersBounded'
  <2>1. loop' = loop /\ Unanswered' = Unanswered
    BY SetsUnchanged
  <2>2. ASSUME burst' < Headroom
        PROVE  /\ Len(inbound') + Cardinality(Unanswered) <= Capacity + 1 + burst'
               /\ loop = "dispatch" => Len(inbound') + Cardinality(Unanswered) <= Capacity + burst'
    BY <1>1, <1>2, <1>7, <2>2, Finite, NetworkAssumption DEF AnswersBounded
  <2> QED
    BY <1>2, <2>1, <2>2 DEF AnswersBounded
<1> QED
  BY <1>3, <1>4, <1>5, <1>6

\* An answer is queued, or the queue is full: then a burst of other events has filled
\* the places beyond the network's capacity.
LEMMA EnqueueSound ==
  ASSUME IInv, NEW r \in Request, Enqueue(r),
         burst < Headroom => Len(inbound) < QueueCapacity
  PROVE  /\ inbound' \in Seq(Request \cup {Other}) /\ lost' \in BOOLEAN /\ burst' = burst
         /\ LostOnlyToBursts'
         /\ burst < Headroom => Len(inbound') = Len(inbound) + 1 /\ Len(inbound) \in Nat
<1>1. CASE Len(inbound) >= QueueCapacity
  BY <1>1, NetworkAssumption DEF Enqueue, IInv, TypeOK, LostOnlyToBursts, Headroom
<1>2. CASE ~(Len(inbound) >= QueueCapacity)
  <2>1. inbound' = Append(inbound, r) /\ UNCHANGED <<lost, burst>>
    BY <1>2 DEF Enqueue
  <2> QED
    BY <2>1 DEF IInv, TypeOK, LostOnlyToBursts, Headroom
<1> QED
  BY <1>1, <1>2

\* Steps that move only the event loop, the context or the handlers' goroutines.
LEMMA LoopIInv == IInv /\ (EmitNothing \/ Cancel \/ Close) => IInv'
<1> SUFFICES ASSUME IInv, EmitNothing \/ Cancel \/ Close PROVE IInv'
  OBVIOUS
<1> USE DEF IInv, EmitNothing, Cancel, Close
<1>1. TypeOK'
  BY DEF TypeOK, LoopPc
<1>2. SlotsAccounted' /\ QueuesSound' /\ OneAtATime' /\ LostOnlyToBursts'
  BY SetsUnchanged DEF SlotsAccounted, QueuesSound, OneAtATime, Active, LostOnlyToBursts
<1>3. EvictedIsEmpty'
  BY SetsUnchanged DEF EvictedIsEmpty
<1>4. AnswersBounded'
  BY SetsUnchanged DEF AnswersBounded
<1> QED
  BY <1>1, <1>2, <1>3, <1>4

\* The behaviour is told at once when there is no capacity, or the request is
\* handed over; either way one more answer is to come.
LEMMA NotifyIInv == ASSUME IInv, NEW r \in Request, Notify(r) PROVE IInv'
<1> DEFINE n == Dest[r]
<1> USE DEF IInv
<1>1. n \in Peer /\ loop = "dispatch" /\ loop' = "select" /\ where[r] = "free"
  BY NetworkAssumption DEF Notify
<1>2. /\ Len(inbound) \in Nat /\ burst \in Nat /\ Headroom = QueueCapacity - Capacity
      /\ burst < Headroom => Len(inbound) + Cardinality(Unanswered) <= Capacity + burst
  BY <1>1, NetworkAssumption DEF AnswersBounded, TypeOK, Headroom
\* A handler that is about to be created has nothing in hand.
<1>3. \A s \in Request : Active(s) /\ Dest[s] = n => n \in handlers
  BY <1>1 DEF EvictedIsEmpty, OneAtATime
<1>4. pc' \in [Peer -> HandlerPc] /\ (\A s \in Request : Active(s) => pc'[Dest[s]] = pc[Dest[s]])
  BY <1>1, <1>3, NetworkAssumption DEF Notify, TypeOK, HandlerPc
<1>5. \A m \in Peer : m \notin handlers' => m # n /\ m \notin handlers /\ pc'[m] = pc[m]
  BY <1>1 DEF Notify, TypeOK
<1>6. CASE HasCapacity(n)
  <2>1. /\ slots' = slots + 1
        /\ nodeSlots' = [nodeSlots EXCEPT ![n] = @ + 1]
        /\ pending' = [pending EXCEPT ![n] = Append(@, r)]
        /\ where' = [where EXCEPT ![r] = "queued"]
        /\ UNCHANGED <<inbound, burst, lost, cancelled>>
        /\ slots < Capacity /\ nodeSlots[n] < NodeCapacity
    BY <1>6 DEF Notify, HasCapacity
  <2>2. TypeOK'
    <3>1. slots' \in 0..Capacity /\ nodeSlots' \in [Peer -> 0..NodeCapacity]
      BY <1>1, <2>1, NetworkAssumption DEF TypeOK
    <3>2. pending' \in [Peer -> Seq(Request)] /\ where' \in [Request -> Stage]
      BY <1>1, <2>1 DEF TypeOK, Stage
    <3>3. handlers' \in SUBSET Peer
      BY <1>1 DEF TypeOK, Notify
    <3> QED
      BY <1>1, <1>4, <2>1, <3>1, <3>2, <3>3 DEF TypeOK, LoopPc
  <2>3. /\ Holding' = Holding \cup {r} /\ r \notin Holding
        /\ Unanswered' = Unanswered \cup {r} /\ r \notin Unanswered
        /\ HoldingNode(n)' = HoldingNode(n) \cup {r} /\ r \notin HoldingNode(n)
        /\ \A m \in Peer \ {n} : HoldingNode(m)' = HoldingNode(m)
    BY <1>1, <2>1 DEF TypeOK, Holding, Unanswered, HoldingNode
  <2>4. SlotsAccounted'
    <3>1. slots' = Cardinality(Holding')
      BY <2>1, <2>3, Finite, Joins DEF SlotsAccounted
    <3>2. nodeSlots'[n] = Cardinality(HoldingNode(n)')
      BY <1>1, <2>1, <2>3, Finite, Joins DEF SlotsAccounted, TypeOK
    <3>3. \A m \in Peer \ {n} : nodeSlots'[m] = Cardinality(HoldingNode(m)')
      BY <1>1, <2>1, <2>3 DEF SlotsAccounted, TypeOK
    <3> QED
      BY <3>1, <3>2, <3>3 DEF SlotsAccounted
  <2>5. QueuesSound'
    <3>1. ASSUME NEW m \in Peer
          PROVE  /\ pending[m] \in Seq(Request) /\ Distinct(pending[m])
                 /\ \A i \in 1..Len(pending[m]) : /\ pending[m][i] \in Request \ {r}
                                                 /\ where'[pending[m][i]] = "queued"
                                                 /\ Dest[pending[m][i]] = m
      BY <1>1, <2>1 DEF QueuesSound, TypeOK
    <3>2. pending'[n] = Append(pending[n], r) /\ where'[r] = "queued"
      BY <1>1, <2>1 DEF TypeOK
    <3>3. \A m \in Peer \ {n} : pending'[m] = pending[m]
      BY <1>1, <2>1 DEF TypeOK
    <3>4. /\ Distinct(pending'[n])
          /\ \A i \in 1..Len(pending'[n]) : pending'[n][i] = r \/ \E k \in 1..Len(pending[n]) : pending'[n][i] = pending[n][k]
      BY <1>1, <3>1, <3>2, DistinctAppend
    <3>5. \A i \in 1..Len(pending'[n]) :
            where'[pending'[n][i]] = "queued" /\ Dest[pending'[n][i]] = n
      BY <1>1, <3>1, <3>2, <3>4
    <3>6. ASSUME NEW m \in Peer \ {n}
          PROVE  /\ Distinct(pending'[m])
                 /\ \A i \in 1..Len(pending'[m]) :
                      where'[pending'[m][i]] = "queued" /\ Dest[pending'[m][i]] = m
      BY <3>1, <3>3
    <3> HIDE DEF n
    <3> QED
      BY <3>4, <3>5, <3>6 DEF QueuesSound
  <2>6. EvictedIsEmpty'
    BY <1>1, <1>5, <2>1, <2>3 DEF EvictedIsEmpty, TypeOK
  <2>7. OneAtATime'
    BY <1>1, <1>4, <2>1 DEF OneAtATime, Active, TypeOK
  <2>8. AnswersBounded'
    BY <1>1, <1>2, <2>1, <2>3, Joins, Finite, NetworkAssumption DEF AnswersBounded
  <2> QED
    BY <2>1, <2>2, <2>4, <2>5, <2>6, <2>7, <2>8 DEF LostOnlyToBursts
<1>7. CASE ~HasCapacity(n)
  <2>1. UNCHANGED <<slots, nodeSlots, pending, where, cancelled>> /\ Enqueue(r)
    BY <1>7 DEF Notify
  <2>2. /\ inbound' \in Seq(Request \cup {Other}) /\ lost' \in BOOLEAN /\ burst' = burst
        /\ LostOnlyToBursts'
        /\ burst < Headroom => Len(inbound') = Len(inbound) + 1
    <3>1. burst < Headroom => Len(inbound) < QueueCapacity
      BY <1>2, Finite, NetworkAssumption
    <3> QED
      BY <2>1, <3>1, EnqueueSound
  <2>3. TypeOK'
    BY <1>1, <1>4, <2>1, <2>2, NetworkAssumption DEF TypeOK, Notify, LoopPc
  <2>4. SlotsAccounted' /\ QueuesSound'
    BY <2>1, SetsUnchanged DEF SlotsAccounted, QueuesSound
  <2>5. EvictedIsEmpty'
    BY <1>1, <1>5, <2>1, SetsUnchanged DEF EvictedIsEmpty
  <2>6. OneAtATime'
    BY <1>4, <2>1 DEF OneAtATime, Active
  <2>7. AnswersBounded'
    <3>1. Unanswered' = Unanswered /\ Cardinality(Unanswered) \in Nat
      BY <2>1, SetsUnchanged, Finite
    <3>2. Headroom' = Headroom /\ loop' = "select"
      BY <1>1 DEF Headroom, Notify
    <3>3. ASSUME burst < Headroom
          PROVE  Len(inbound') + Cardinality(Unanswered) <= Capacity + 1 + burst
      <4>1. Len(inbound') = Len(inbound) + 1 /\ Len(inbound) \in Nat
        BY <1>1, <2>2, <3>3 DEF TypeOK
      <4>2. Len(inbound) + Cardinality(Unanswered) <= Capacity + burst
        BY <1>2, <3>3
      <4>3. Capacity \in Nat /\ burst \in Nat
        BY <1>1, NetworkAssumption DEF TypeOK, Headroom
      <4> QED
        BY <3>1, <4>1, <4>2, <4>3
    <3> QED
      BY <2>2, <3>1, <3>2, <3>3 DEF AnswersBounded
  <2> QED
    BY <2>2, <2>3, <2>4, <2>5, <2>6, <2>7 DEF LostOnlyToBursts
<1> QED
  BY <1>6, <1>7

\* Taking the head off a queue whose request leaves the "queued" stage.
LEMMA QueuesSoundTail ==
  ASSUME IInv, NEW n \in Peer, pending[n] # <<>>, NEW stage,
         pending' = [pending EXCEPT ![n] = Tail(@)],
         where' = [where EXCEPT ![Head(pending[n])] = stage]
  PROVE  QueuesSound'
<1> DEFINE r == Head(pending[n])
<1>1. \A s \in Request \ {r} : where'[s] = where[s]
  BY DEF IInv, TypeOK
<1>2. ASSUME NEW m \in Peer, m # n
      PROVE  /\ pending'[m] = pending[m] /\ Distinct(pending[m])
             /\ \A i \in 1..Len(pending[m]) :
                  where'[pending[m][i]] = "queued" /\ Dest[pending[m][i]] = m
  <2>1. pending'[m] = pending[m] /\ pending[m] \in Seq(Request) /\ Distinct(pending[m])
    BY <1>2 DEF IInv, TypeOK, QueuesSound
  <2>2. ASSUME NEW i \in 1..Len(pending[m])
        PROVE  pending[m][i] \in Request /\ where[pending[m][i]] = "queued" /\ Dest[pending[m][i]] = m
    BY <2>1 DEF IInv, QueuesSound
  <2>3. Dest[r] = n
    BY HeadOfQueue
  <2> QED
    BY <1>1, <1>2, <2>1, <2>2, <2>3
<1>3. /\ pending'[n] = Tail(pending[n]) /\ Distinct(Tail(pending[n]))
      /\ \A i \in 1..Len(Tail(pending[n])) :
           where'[Tail(pending[n])[i]] = "queued" /\ Dest[Tail(pending[n])[i]] = n
  <2>1. pending'[n] = Tail(pending[n])
    BY DEF IInv, TypeOK
  <2> HIDE DEF r
  <2>2. \A i \in 1..Len(Tail(pending[n])) :
          /\ Tail(pending[n])[i] \in Request \ {r}
          /\ where[Tail(pending[n])[i]] = "queued" /\ Dest[Tail(pending[n])[i]] = n
    BY HeadOfQueue DEF r
  <2> QED
    BY <1>1, <2>1, <2>2, HeadOfQueue
<1>4. ASSUME NEW m \in Peer
      PROVE  /\ Distinct(pending'[m])
             /\ \A i \in 1..Len(pending'[m]) :
                  where'[pending'[m][i]] = "queued" /\ Dest[pending'[m][i]] = m
  <2>1. CASE m = n
    BY <2>1, <1>3
  <2>2. CASE m # n
    BY <2>2, <1>2
  <2> QED
    BY <2>1, <2>2
<1> QED
  BY <1>4 DEF QueuesSound

\* Taking a request from the pending channel moves no token.
LEMMA TakeIInv == ASSUME IInv, NEW n \in Peer, Take(n) PROVE IInv'
<1> DEFINE r == Head(pending[n])
<1> DEFINE stage == IF cancelled THEN "sent" ELSE "sending"
<1> USE DEF IInv
<1>1. r \in Request /\ where[r] = "queued" /\ Dest[r] = n /\ Tail(pending[n]) \in Seq(Request)
  BY HeadOfQueue DEF Take
<1>2. stage \in {"sending", "sent"} /\ where' = [where EXCEPT ![r] = stage]
  BY DEF Take
<1> HIDE DEF stage
<1>3. TypeOK'
  BY <1>1, <1>2 DEF TypeOK, Take, Stage, HandlerPc
<1>4. /\ Holding' = Holding
      /\ Unanswered' = Unanswered \/ (Unanswered' = Unanswered \ {r} /\ r \in Unanswered)
      /\ \A m \in Peer : HoldingNode(m)' = HoldingNode(m)
  BY <1>1, <1>2 DEF TypeOK, Holding, Unanswered, HoldingNode
<1>5. SlotsAccounted'
  BY <1>4 DEF SlotsAccounted, Take
<1>6. QueuesSound'
  BY <1>2, QueuesSoundTail DEF Take
<1>7. EvictedIsEmpty'
  BY <1>4 DEF EvictedIsEmpty, Take, TypeOK
<1>8. OneAtATime'
  <2>1. \A s \in Request : Active(s) => Dest[s] # n
    BY DEF OneAtATime, Take
  <2>2. \A s \in Request : Active(s)' => s = r \/ Active(s)
    BY <1>1, <1>2 DEF Active, TypeOK
  <2>3. pc'[n] = "busy" /\ \A m \in Peer \ {n} : pc'[m] = pc[m]
    BY DEF Take, TypeOK
  <2> QED
    BY <1>1, <2>1, <2>2, <2>3, NetworkAssumption DEF OneAtATime
<1>9. AnswersBounded' /\ LostOnlyToBursts'
  <2>1. Cardinality(Unanswered') <= Cardinality(Unanswered) /\ Cardinality(Unanswered') \in Int
    BY <1>4, Finite, Leaves
  <2>2. UNCHANGED <<inbound, burst, lost, loop>> /\ Len(inbound) \in Nat
    BY DEF Take, TypeOK
  <2>3. burst \in Nat /\ LostOnlyToBursts'
    BY <2>2, NetworkAssumption DEF TypeOK, Headroom, LostOnlyToBursts
  <2> QED
    BY <2>1, <2>2, <2>3, Finite, NetworkAssumption DEF AnswersBounded, Headroom
<1> QED
  BY <1>3, <1>5, <1>6, <1>7, <1>8, <1>9

\* The answer of a send is counted among those still to come until it is queued.
LEMMA SendIInv == ASSUME IInv, NEW r \in Request, Send(r) PROVE IInv'
<1> USE DEF IInv
<1>1. where[r] = "sending" /\ where' = [where EXCEPT ![r] = "sent"]
  BY DEF Send
<1>2. /\ Holding' = Holding
      /\ Unanswered' = Unanswered \ {r} /\ r \in Unanswered
      /\ \A m \in Peer : HoldingNode(m)' = HoldingNode(m)
  BY <1>1 DEF TypeOK, Holding, Unanswered, HoldingNode
<1>3. Cardinality(Unanswered') = Cardinality(Unanswered) - 1 /\ Cardinality(Unanswered) > 0
  BY <1>2, Finite, Leaves
\* Without a burst the queue has room: what it holds and what is to come fit in it
\* together.
<1>4. /\ inbound' \in Seq(Request \cup {Other}) /\ lost' \in BOOLEAN /\ burst' = burst
      /\ LostOnlyToBursts'
      /\ burst < Headroom => Len(inbound') = Len(inbound) + 1 /\ Len(inbound) \in Nat
  <2>1. burst < Headroom => Len(inbound) < QueueCapacity
    BY <1>3, Finite, NetworkAssumption DEF AnswersBounded, TypeOK, Headroom
  <2> QED
    BY <2>1, EnqueueSound DEF Send
<1>5. TypeOK'
  BY <1>1, <1>4 DEF TypeOK, Send, Stage
<1>6. SlotsAccounted' /\ EvictedIsEmpty'
  BY <1>2 DEF SlotsAccounted, EvictedIsEmpty, Send
<1>7. QueuesSound'
  BY <1>1 DEF QueuesSound, Send, TypeOK
<1>8. OneAtATime'
  BY <1>1 DEF OneAtATime, Active, Send, TypeOK
<1>9. AnswersBounded' /\ LostOnlyToBursts'
  BY <1>3, <1>4, Finite, NetworkAssumption DEF AnswersBounded, LostOnlyToBursts, Send, TypeOK
<1> QED
  BY <1>5, <1>6, <1>7, <1>8, <1>9

\* The handler's token goes back to the handler's slots.
LEMMA ReleaseNodeIInv == ASSUME IInv, NEW r \in Request, ReleaseNode(r) PROVE IInv'
<1> DEFINE n == Dest[r]
<1> USE DEF IInv
<1>1. where[r] = "sent" /\ where' = [where EXCEPT ![r] = "nodeReleased"] /\ n \in Peer
  BY NetworkAssumption DEF ReleaseNode
<1>2. /\ Holding' = Holding /\ Unanswered' = Unanswered
      /\ HoldingNode(n)' = HoldingNode(n) \ {r} /\ r \in HoldingNode(n)
      /\ \A m \in Peer \ {n} : HoldingNode(m)' = HoldingNode(m)
  BY <1>1 DEF TypeOK, Holding, Unanswered, HoldingNode
<1>3. Cardinality(HoldingNode(n)') = Cardinality(HoldingNode(n)) - 1 /\ Cardinality(HoldingNode(n)) > 0
  BY <1>1, <1>2, Finite, Leaves
<1>4. nodeSlots' = [nodeSlots EXCEPT ![n] = @ - 1] /\ nodeSlots[n] = Cardinality(HoldingNode(n))
  BY <1>1 DEF ReleaseNode, SlotsAccounted
<1> HIDE DEF n
<1>5. nodeSlots' \in [Peer -> 0..NodeCapacity]
  BY <1>1, <1>3, <1>4, NetworkAssumption DEF TypeOK
<1>6. TypeOK'
  BY <1>1, <1>5 DEF TypeOK, ReleaseNode, Stage
<1>7. SlotsAccounted'
  <2>1. nodeSlots'[n] = Cardinality(HoldingNode(n)')
    BY <1>1, <1>3, <1>4 DEF TypeOK
  <2>2. \A m \in Peer \ {n} : nodeSlots'[m] = Cardinality(HoldingNode(m)')
    BY <1>1, <1>2, <1>4 DEF TypeOK, SlotsAccounted
  <2> QED
    BY <1>2, <2>1, <2>2 DEF ReleaseNode, SlotsAccounted
<1>8. QueuesSound'
  BY <1>1 DEF QueuesSound, ReleaseNode, TypeOK
<1>9. EvictedIsEmpty'
  BY <1>1, <1>2 DEF EvictedIsEmpty, ReleaseNode
<1>10. OneAtATime' /\ AnswersBounded' /\ LostOnlyToBursts'
  BY <1>1, <1>2 DEF OneAtATime, Active, AnswersBounded, LostOnlyToBursts, ReleaseNode, TypeOK
<1> QED
  BY <1>6, <1>7, <1>8, <1>9, <1>10

\* The shared token goes back to the network's slots.
LEMMA ReleaseSharedIInv == ASSUME IInv, NEW r \in Request, ReleaseShared(r) PROVE IInv'
<1> DEFINE n == Dest[r]
<1> USE DEF IInv
<1>1. where[r] = "nodeReleased" /\ where' = [where EXCEPT ![r] = "free"] /\ n \in Peer
  BY NetworkAssumption DEF ReleaseShared
<1>2. /\ Holding' = Holding \ {r} /\ r \in Holding /\ Unanswered' = Unanswered
      /\ \A m \in Peer : HoldingNode(m)' = HoldingNode(m)
  BY <1>1 DEF TypeOK, Holding, Unanswered, HoldingNode
<1>3. slots' = Cardinality(Holding') /\ slots' \in 0..Capacity
  BY <1>2, Finite, Leaves, NetworkAssumption DEF TypeOK, SlotsAccounted, ReleaseShared
\* The goroutine handles r alone, and returns to its select.
<1>4. pc[n] = "busy" /\ \A s \in Request : Active(s) /\ Dest[s] = n => s = r
  BY <1>1 DEF OneAtATime, Active
<1>5. pc'[n] = "select" /\ (\A m \in Peer \ {n} : pc'[m] = pc[m]) /\ pc' \in [Peer -> HandlerPc]
  BY <1>1 DEF ReleaseShared, TypeOK, HandlerPc
<1>6. TypeOK'
  BY <1>1, <1>3, <1>5 DEF TypeOK, ReleaseShared, Stage
<1>7. SlotsAccounted'
  BY <1>2, <1>3 DEF SlotsAccounted, ReleaseShared
<1>8. QueuesSound'
  BY <1>1 DEF QueuesSound, ReleaseShared, TypeOK
<1>9. EvictedIsEmpty'
  BY <1>2, <1>4, <1>5 DEF EvictedIsEmpty, ReleaseShared
<1>10. OneAtATime'
  <2>1. \A s \in Request : Active(s)' => Active(s) /\ s # r
    BY <1>1 DEF Active, TypeOK
  <2> QED
    BY <1>4, <1>5, <2>1, NetworkAssumption DEF OneAtATime
<1>11. AnswersBounded' /\ LostOnlyToBursts'
  BY <1>2 DEF AnswersBounded, LostOnlyToBursts, ReleaseShared
<1> QED
  BY <1>6, <1>7, <1>8, <1>9, <1>10, <1>11

\* The two ways a goroutine ends: idle, or told to stop.
LEMMA GoroutineEndsIInv == ASSUME IInv, NEW n \in Peer, Evict(n) \/ Stop(n) PROVE IInv'
<1> USE DEF IInv
<1>1. pc[n] = "select" /\ pc' = [pc EXCEPT ![n] = "none"] /\ UNCHANGED <<slots, nodeSlots, pending, where, inbound, burst, lost, cancelled, loop>>
  BY DEF Evict, Stop
<1>2. TypeOK'
  BY <1>1 DEF TypeOK, HandlerPc, Evict, Stop
<1>3. SlotsAccounted' /\ QueuesSound' /\ AnswersBounded' /\ LostOnlyToBursts'
  BY <1>1, SetsUnchanged DEF SlotsAccounted, QueuesSound, AnswersBounded, LostOnlyToBursts
<1>4. OneAtATime'
  BY <1>1, NetworkAssumption DEF OneAtATime, Active, TypeOK
<1>5. EvictedIsEmpty'
  <2>1. CASE Evict(n)
    <3>1. HoldingNode(n) = {}
      BY <2>1, Finite, FS_EmptySet DEF Evict, Idle, SlotsAccounted
    <3>2. \A i \in 1..Len(pending[n]) : pending[n][i] \in HoldingNode(n)
      BY DEF QueuesSound, TypeOK, HoldingNode
    <3>3. pending[n] = <<>>
      BY <3>1, <3>2 DEF TypeOK
    <3> QED
      BY <1>1, <2>1, <3>1, <3>3, SetsUnchanged DEF Evict, EvictedIsEmpty, TypeOK
  <2>2. CASE Stop(n)
    BY <2>2 DEF Stop, EvictedIsEmpty
  <2> QED
    BY <2>1, <2>2
<1> QED
  BY <1>2, <1>3, <1>4, <1>5

\* A request drained by Close gives back both of its tokens.
LEMMA DiscardIInv == ASSUME IInv, NEW n \in Peer, Discard(n) PROVE IInv'
<1> DEFINE r == Head(pending[n])
<1> USE DEF IInv
<1>1. /\ r \in Request /\ where[r] = "queued" /\ Dest[r] = n /\ Tail(pending[n]) \in Seq(Request)
      /\ where' = [where EXCEPT ![r] = "free"]
  BY HeadOfQueue DEF Discard
<1>2. /\ Holding' = Holding \ {r} /\ r \in Holding
      /\ Unanswered' = Unanswered \ {r} /\ r \in Unanswered
      /\ HoldingNode(n)' = HoldingNode(n) \ {r} /\ r \in HoldingNode(n)
      /\ \A m \in Peer \ {n} : HoldingNode(m)' = HoldingNode(m)
  BY <1>1 DEF TypeOK, Holding, Unanswered, HoldingNode
<1>3. slots' = Cardinality(Holding') /\ slots' \in 0..Capacity
  <2>1. Cardinality(Holding') = Cardinality(Holding) - 1 /\ Cardinality(Holding) > 0
    BY <1>2, Finite, Leaves
  <2>2. slots = Cardinality(Holding) /\ slots \in 0..Capacity /\ slots' = slots - 1
    BY DEF SlotsAccounted, TypeOK, Discard
  <2> QED
    BY <2>1, <2>2, NetworkAssumption
<1>4. /\ nodeSlots'[n] = Cardinality(HoldingNode(n)') /\ nodeSlots'[n] \in 0..NodeCapacity
      /\ nodeSlots' = [nodeSlots EXCEPT ![n] = @ - 1]
  <2>1. Cardinality(HoldingNode(n)') = Cardinality(HoldingNode(n)) - 1 /\ Cardinality(HoldingNode(n)) > 0
    BY <1>2, Finite, Leaves
  <2>2. nodeSlots[n] = Cardinality(HoldingNode(n)) /\ nodeSlots[n] \in 0..NodeCapacity
    BY DEF SlotsAccounted, TypeOK
  <2>3. nodeSlots' = [nodeSlots EXCEPT ![n] = @ - 1] /\ nodeSlots'[n] = nodeSlots[n] - 1
    BY DEF Discard, TypeOK
  <2> QED
    BY <2>1, <2>2, <2>3, NetworkAssumption
<1>5. TypeOK'
  BY <1>1, <1>3, <1>4 DEF TypeOK, Discard, Stage
<1>6. SlotsAccounted'
  <2>1. \A m \in Peer \ {n} : nodeSlots'[m] = Cardinality(HoldingNode(m)')
    BY <1>2, <1>4 DEF SlotsAccounted, TypeOK
  <2> QED
    BY <1>3, <1>4, <2>1 DEF SlotsAccounted
<1>7. QueuesSound'
  BY <1>1, QueuesSoundTail DEF Discard
<1>8. EvictedIsEmpty'
  BY DEF EvictedIsEmpty, Discard
<1>9. OneAtATime'
  BY <1>1 DEF OneAtATime, Active, Discard, TypeOK
<1>10. AnswersBounded' /\ LostOnlyToBursts'
  <2>1. Cardinality(Unanswered') = Cardinality(Unanswered) - 1
    BY <1>2, Finite, Leaves
  <2>2. UNCHANGED <<inbound, burst, lost, loop>> /\ Len(inbound) \in Nat
    BY DEF Discard, TypeOK
  <2>3. burst \in Nat /\ LostOnlyToBursts'
    BY <2>2, NetworkAssumption DEF TypeOK, Headroom, LostOnlyToBursts
  <2> QED
    BY <2>1, <2>2, <2>3, Finite, NetworkAssumption DEF AnswersBounded, Headroom
<1> QED
  BY <1>5, <1>6, <1>7, <1>8, <1>9, <1>10

-----------------------------------------------------------------------------
(* The theorems *)

\* The strengthened invariant holds in every reachable state.
THEOREM Inductive == Spec => []IInv
<1>1. IInv /\ [Next]_vars => IInv'
  <2> SUFFICES ASSUME IInv, [Next]_vars PROVE IInv'
    OBVIOUS
  <2>1. CASE Perform
    BY <2>1, PerformIInv
  <2>11. CASE Submit
    BY <2>11, SubmitIInv
  <2>2. CASE EmitNothing \/ Cancel \/ Close
    BY <2>2, LoopIInv
  <2>3. CASE \E r \in Request : Notify(r)
    BY <2>3, NotifyIInv
  <2>4. CASE \E n \in Peer : Take(n)
    BY <2>4, TakeIInv
  <2>5. CASE \E n \in Peer : Evict(n) \/ Stop(n)
    BY <2>5, GoroutineEndsIInv
  <2>6. CASE \E n \in Peer : Discard(n)
    BY <2>6, DiscardIInv
  <2>7. CASE \E r \in Request : Send(r)
    BY <2>7, SendIInv
  <2>8. CASE \E r \in Request : ReleaseNode(r)
    BY <2>8, ReleaseNodeIInv
  <2>9. CASE \E r \in Request : ReleaseShared(r)
    BY <2>9, ReleaseSharedIInv
  <2>10. CASE UNCHANGED vars
    BY <2>10, SetsUnchanged
    DEF vars, IInv, TypeOK, SlotsAccounted, QueuesSound, EvictedIsEmpty, OneAtATime, Active,
        AnswersBounded, LostOnlyToBursts
  <2> QED
    BY <2>1, <2>2, <2>3, <2>4, <2>5, <2>6, <2>7, <2>8, <2>9, <2>10, <2>11
    DEF Next, LoopStep, HandlerStep, RequestStep
<1> QED
  BY <1>1, InitIInv, PTL DEF Spec

\* Type correctness, with the counts of tokens within the capacities they are
\* tokens of: slots.acquire and slots.release never overrun their channel.
THEOREM TypeCorrect == Spec => []TypeOK
<1>1. IInv => TypeOK
  BY DEF IInv
<1> QED
  BY <1>1, Inductive, PTL

\* Every token held is held by exactly one unfinished request: none is leaked or
\* returned twice by a handler's release racing with Close or with the event loop.
THEOREM TokensAccounted == Spec => []SlotsAccounted
<1>1. IInv => SlotsAccounted
  BY DEF IInv
<1> QED
  BY <1>1, Inductive, PTL

\* For every capacity and every queue longer than it, an answer is dropped only when
\* since the queue was last empty as many other events joined it as it is longer: the
\* margin CoordinatorConfig.Validate asks for is what a burst has to use up.
THEOREM AnswersYieldToBursts == Spec => []LostOnlyToBursts
<1>1. IInv => LostOnlyToBursts
  BY DEF IInv
<1> QED
  BY <1>1, Inductive, PTL

\* The blocking send on a handler's pending channel in NodeHandler.Notify always
\* finds room.
THEOREM HandOver == Spec => []HandOverNeverBlocks
<1>1. ASSUME IInv, NEW n \in Peer PROVE Len(pending[n]) <= NodeCapacity
  <2> DEFINE I == 1..Len(pending[n])
  <2>1. pending[n] \in Seq(Request) /\ Len(pending[n]) \in Nat
    BY <1>1 DEF IInv, TypeOK
  <2>2. \A i \in I : pending[n][i] \in HoldingNode(n)
    BY <1>1, <2>1 DEF IInv, QueuesSound, HoldingNode
  <2>3. [i \in I |-> pending[n][i]] \in Injection(I, HoldingNode(n))
    BY <1>1, <2>2 DEF IInv, QueuesSound, Distinct, Injection, IsInjective
  <2>4. Cardinality(I) <= Cardinality(HoldingNode(n))
    BY <2>3, Finite, FS_Injection
  <2>5. Cardinality(I) = Len(pending[n])
    BY <2>1, FS_Interval
  <2>6. Cardinality(HoldingNode(n)) <= NodeCapacity
    BY <1>1, NetworkAssumption DEF IInv, SlotsAccounted, TypeOK
  <2> HIDE DEF I
  <2> QED
    BY <2>1, <2>4, <2>5, <2>6, Finite, NetworkAssumption
<1>2. IInv => HandOverNeverBlocks
  BY <1>1 DEF HandOverNeverBlocks
<1> QED
  BY <1>2, Inductive, PTL

\* A handler that evictIdle has removed has nothing in hand
\* and nothing queued, until the coordinator closes.
THEOREM EvictionSafe == Spec => []EvictedIsEmpty
<1>1. IInv => EvictedIsEmpty
  BY DEF IInv
<1> QED
  BY <1>1, Inductive, PTL

\* The goroutine of a handler has at most one request in hand.
THEOREM Serial == Spec => []OneAtATime
<1>1. IInv => OneAtATime
  BY DEF IInv
<1> QED
  BY <1>1, Inductive, PTL
-----------------------------------------------------------------------------
(* Network implements RequestService.  IInv gives what the mapping needs:  *)
(* no more requests are out than the capacity, and a handler's queue holds *)
(* requests that are still unanswered.  One more invariant says that the   *)
(* handlers are only drained once the coordinator has been told to close.  *)

ClosedBeforeDrained == loop = "closing" => cancelled

\* A handler's queue is drained by NodeHandler.Close only after Coordinator.Close
\* has cancelled the context.
LEMMA DrainAfterClose == Spec => []ClosedBeforeDrained
<1>1. Init => ClosedBeforeDrained
  BY DEF Init, ClosedBeforeDrained
<1>2. ClosedBeforeDrained /\ [Next]_vars => ClosedBeforeDrained'
  BY DEF ClosedBeforeDrained, Next, vars, LoopStep, HandlerStep, RequestStep, Perform,
         EmitNothing, Submit, Notify, Cancel, Close, Take, Evict, Discard, Stop, Send, ReleaseNode,
         ReleaseShared
<1> QED
  BY <1>1, <1>2, PTL DEF Spec

-----------------------------------------------------------------------------
(* One lemma per kind of step: what it does to the abstract state *)

\* The event loop runs the behaviour, which takes one event if it has one.
LEMMA PerformMaps == Perform => [Service!Next]_(Service!vars)
<1> SUFFICES ASSUME Perform PROVE Service!LookAt \/ UNCHANGED Service!vars
  BY DEF Service!Next
<1>1. Unanswered' = Unanswered /\ UNCHANGED cancelled /\ inbound' = Taken(inbound)
  BY SetsUnchanged DEF Perform
<1> QED
  BY <1>1 DEF Taken, Service!LookAt, Service!vars

\* The two sides of the mapping drop an answer in the same states.
LEMMA EnqueueDelivers ==
  ASSUME IInv, NEW r \in Request, Enqueue(r)
  PROVE  Service!Deliver(r)
BY NetworkAssumption DEF Enqueue, Service!Deliver, IInv, TypeOK

\* Another event joins the queue.
LEMMA SubmitMaps == Submit => Service!Submit
BY SetsUnchanged DEF Submit, Service!Submit, Service!Deliver

\* NetworkBehaviour.Notify takes the request on or answers it at once.
LEMMA NotifyMaps ==
  ASSUME IInv, NEW r \in Request, Notify(r)
  PROVE  Service!Accept(r) \/ Service!Refuse(r)
<1>1. Service!Unused(r)
  BY DEF Service!Unused, Unanswered, InQueue, Notify
<1>2. CASE HasCapacity(Dest[r])
  <2>1. Unanswered' = Unanswered \cup {r}
    BY <1>2 DEF Notify, IInv, TypeOK, Unanswered
  <2>2. Cardinality(Unanswered) < Capacity
    BY <1>2, Finite, NetworkAssumption DEF HasCapacity, IInv, SlotsAccounted
  <2>3. UNCHANGED <<inbound, cancelled>>
    BY <1>2 DEF Notify
  <2>4. Service!Cardinality(Unanswered) = Cardinality(Unanswered)
    BY DEF Cardinality, Service!Cardinality
  <2> QED
    BY <1>1, <2>1, <2>2, <2>3, <2>4 DEF Service!Accept
<1>3. CASE ~HasCapacity(Dest[r])
  <2>1. Unanswered' = Unanswered
    BY <1>3, SetsUnchanged DEF Notify
  <2>2. Service!Deliver(r)
    BY <1>3, EnqueueDelivers DEF Notify
  <2> QED
    BY <1>1, <2>1, <2>2 DEF Notify, Service!Refuse
<1> QED
  BY <1>2, <1>3

\* The router returned, and the answer is queued before the tokens go back, or dropped.
LEMMA SendMaps == ASSUME IInv, NEW r \in Request, Send(r) PROVE Service!Answer(r)
<1>1. r \in Unanswered /\ Unanswered' = Unanswered \ {r}
  BY DEF Send, IInv, TypeOK, Unanswered
<1>2. Service!Deliver(r)
  BY EnqueueDelivers DEF Send
<1> QED
  BY <1>1, <1>2 DEF Send, Service!Answer

\* A request taken from a handler's queue is sent later, or given up if the
\* context is done.
LEMMA TakeMaps ==
  ASSUME IInv, NEW n \in Peer, Take(n)
  PROVE  (\E r \in Request : Service!Abandon(r)) \/ UNCHANGED Service!vars
<1> DEFINE r == Head(pending[n])
<1>1. r \in Request /\ where[r] = "queued"
  BY HeadOfQueue DEF Take
<1>2. CASE cancelled
  <2>1. r \in Unanswered /\ Unanswered' = Unanswered \ {r}
    BY <1>1, <1>2 DEF Take, IInv, TypeOK, Unanswered
  <2>2. Service!Abandon(r)
    BY <1>2, <2>1 DEF Take, Service!Abandon
  <2> QED
    BY <1>1, <2>2
<1>3. CASE ~cancelled
  <2>1. Unanswered' = Unanswered
    BY <1>1, <1>3 DEF Take, IInv, TypeOK, Unanswered
  <2> QED
    BY <2>1 DEF Take, Service!vars
<1> QED
  BY <1>2, <1>3

\* NodeHandler.Close gives up the requests still queued.
LEMMA DiscardMaps ==
  ASSUME IInv, ClosedBeforeDrained, NEW n \in Peer, Discard(n)
  PROVE  \E r \in Request : Service!Abandon(r)
<1> DEFINE r == Head(pending[n])
<1>1. r \in Request /\ where[r] = "queued"
  BY HeadOfQueue DEF Discard
<1>2. r \in Unanswered /\ Unanswered' = Unanswered \ {r}
  BY <1>1 DEF Discard, IInv, TypeOK, Unanswered
<1>3. Service!Abandon(r)
  BY <1>2 DEF Discard, ClosedBeforeDrained, Service!Abandon
<1> QED
  BY <1>1, <1>3

\* The steps the requester cannot see: tokens that go back and goroutines that end.
LEMMA HiddenMaps ==
  ASSUME IInv,
         \/ EmitNothing \/ Close
         \/ \E n \in Peer : Evict(n) \/ Stop(n)
         \/ \E r \in Request : ReleaseNode(r) \/ ReleaseShared(r)
  PROVE  UNCHANGED Service!vars
<1>1. UNCHANGED <<inbound, cancelled>>
  BY DEF EmitNothing, Close, Evict, Stop, ReleaseNode, ReleaseShared
<1>2. Unanswered' = Unanswered
  BY DEF EmitNothing, Close, Evict, Stop, ReleaseNode, ReleaseShared, IInv, TypeOK, Unanswered
<1> QED
  BY <1>1, <1>2 DEF Service!vars

-----------------------------------------------------------------------------
\* The network behaviour with its handlers, tokens and queues keeps the promise of
\* RequestService: every request is answered once, into the requester's queue unless
\* that queue is full, or given up only after the coordinator was told to close.
THEOREM Implements == Spec => ImplementsService
<1>1. Init => Service!Init
  BY DEF Init, Service!Init, Unanswered
<1>2. IInv /\ ClosedBeforeDrained /\ [Next]_vars => [Service!Next]_(Service!vars)
  <2> SUFFICES ASSUME IInv, ClosedBeforeDrained, [Next]_vars
               PROVE  [Service!Next]_(Service!vars)
    OBVIOUS
  <2>1. CASE Perform
    BY <2>1, PerformMaps
  <2>9. CASE Submit
    BY <2>9, SubmitMaps DEF Service!Next
  <2>2. CASE \E r \in Request : Notify(r)
    BY <2>2, NotifyMaps DEF Service!Next
  <2>3. CASE Cancel
    BY <2>3, SetsUnchanged DEF Cancel, Service!Next, Service!Shut
  <2>4. CASE \E r \in Request : Send(r)
    BY <2>4, SendMaps DEF Service!Next
  <2>5. CASE \E n \in Peer : Take(n)
    BY <2>5, TakeMaps DEF Service!Next
  <2>6. CASE \E n \in Peer : Discard(n)
    BY <2>6, DiscardMaps DEF Service!Next
  <2>7. CASE \/ EmitNothing \/ Close
             \/ \E n \in Peer : Evict(n) \/ Stop(n)
             \/ \E r \in Request : ReleaseNode(r) \/ ReleaseShared(r)
    BY <2>7, HiddenMaps
  <2>8. CASE UNCHANGED vars
    BY <2>8, SetsUnchanged DEF vars, Service!vars
  <2> QED
    BY <2>1, <2>2, <2>3, <2>4, <2>5, <2>6, <2>7, <2>8, <2>9
    DEF Next, LoopStep, HandlerStep, RequestStep
<1> QED
  BY <1>1, <1>2, Inductive, DrainAfterClose, PTL DEF Spec, ImplementsService, Service!Spec
=============================================================================
