---------------------------- MODULE QueryAdvance ----------------------------
(***************************************************************************)
(* query/query.go, query/iter.go, query/node.go: one iterative Kademlia    *)
(* lookup as a value, and one call of Query.Advance as an operator on that *)
(* value.  Query.tla runs a single query against an open environment, and  *)
(* QueryPool.tla several of them behind the pool that shares their slots.  *)
(*                                                                         *)
(* A node is its rank in the order of NodeIter.Each, the ascending order   *)
(* of distance from the target, so "nearer" is "<".  Time is relative: a   *)
(* waiting node carries the ticks left until its request deadline and a    *)
(* negative value means that now.After(deadline) holds.  All past          *)
(* deadlines behave alike, so the countdown stops at Past.                 *)
(***************************************************************************)
EXTENDS Integers, FiniteSets

CONSTANTS
  Node,            \* the nodes of the network, as ranks
  Self,            \* the node the query runs on
  Concurrency,     \* QueryConfig.Concurrency
  NumResults,      \* QueryConfig.NumResults
  RequestTimeout,  \* QueryConfig.RequestTimeout, in ticks
  Timeout,         \* QueryConfig.Timeout, in ticks
  Region           \* the nodes inside the region of a coverage query

\* QueryConfig.Validate, and the geometry of XOR distance: the keys that share
\* a prefix with the target are the ones nearest to it.
ASSUME QueryAssumption ==
  /\ Node \in SUBSET Nat /\ IsFiniteSet(Node) /\ Self \in Node
  /\ Concurrency \in Nat \ {0}
  /\ NumResults \in Nat \ {0}
  /\ RequestTimeout \in Nat \ {0}
  /\ Timeout \in Nat \ {0}
  /\ Region \in SUBSET Node
  /\ \A m \in Region : \A n \in Node : n < m => n \in Region

\* "Unknown" stands for a node that is not in the iterator.
NodeState == {"Unknown", "NotContacted", "Waiting", "Unresponsive",
              "Failed", "Succeeded"}

\* How far a query has got with a node in state st.
Stage(st) == CASE st = "Unknown" -> 0 [] st = "NotContacted" -> 1
               [] st = "Waiting" -> 2 [] st = "Unresponsive" -> 3
               [] OTHER -> 4

Past == -1

\* The zero time.Time: no deadline, nothing due.
NoTime == -2

\* The field targetNodes is the set of nodes the query settled on: its order is
\* the order of the ranks.
QueryType ==
  [state       : [Node -> NodeState],
   left        : [Node -> Past..RequestTimeout],
   deadline    : NoTime..Timeout,
   nextDue     : NoTime..RequestTimeout,
   inFlight    : Nat,
   requests    : Nat,
   success     : Nat,
   failure     : Nat,
   finished    : BOOLEAN,
   coverage    : BOOLEAN,
   targetNodes : SUBSET Node]

\* Self is excluded from the seeds and from the closer nodes of a response.
Others(nodes) == nodes \ {Self}

\* NewQuery: the iterator is seeded with the known closest nodes.  NewCoverageQuery
\* also makes it a coverage query.
NewQuery(seeds, coverage) ==
  [state       |-> [n \in Node |-> IF n \in Others(seeds)
                                   THEN "NotContacted" ELSE "Unknown"],
   left        |-> [n \in Node |-> 0],
   deadline    |-> NoTime,
   nextDue     |-> NoTime,
   inFlight    |-> 0,
   requests    |-> 0,
   success     |-> 0,
   failure     |-> 0,
   finished    |-> FALSE,
   coverage    |-> coverage,
   targetNodes |-> {}]

-----------------------------------------------------------------------------
In(q, st) == {n \in Node : q.state[n] = st}

Expired(q) == {n \in In(q, "Waiting") : q.left[n] < 0}

Live(q) == In(q, "Waiting") \ Expired(q)

Nearer(n) == {m \in Node : m < n}

UpTo(n) == {m \in Node : m <= n}

Nearest(S) == CHOOSE n \in S : \A m \in S : n <= m

-----------------------------------------------------------------------------
(* The events. *)

\* Mutant: an answer to a request already given up on frees its slot again.
InTime_Always(q, n) == 1

\* Only an answer to a request that is still awaited frees a slot and is counted.
InTime(q, n) == IF q.state[n] = "Waiting" THEN 1 ELSE 0

\* Mutant: a node that is already known starts over when it is heard of again.
AddCloser_Overwrite(q, closer) ==
  [m \in Node |-> IF m \in Others(closer) THEN "NotContacted" ELSE q.state[m]]

\* NodeIter.Add keeps the entry of a node it already has.
AddCloser(q, closer) ==
  [m \in Node |-> IF m \in Others(closer) /\ q.state[m] = "Unknown"
                  THEN "NotContacted" ELSE q.state[m]]

\* A response moves a node that is waiting or was given up on to Succeeded and
\* adds the closer nodes it carries.
OnNodeResponse(q, n, closer) ==
  IF q.state[n] \notin {"Waiting", "Unresponsive"} THEN q
  ELSE [q EXCEPT !.state    = [AddCloser(q, closer) EXCEPT ![n] = "Succeeded"],
                 !.left[n]  = 0,
                 !.inFlight = @ - InTime(q, n),
                 !.success  = @ + InTime(q, n)]

\* A failure is final for every node that has not already answered or failed,
\* the ones that were never sent a request included.
OnNodeFailure(q, n) ==
  IF q.state[n] \in {"Unknown", "Failed", "Succeeded"} THEN q
  ELSE [q EXCEPT !.state[n] = "Failed",
                 !.left[n]  = 0,
                 !.inFlight = @ - InTime(q, n),
                 !.failure  = @ + InTime(q, n)]

-----------------------------------------------------------------------------
(* The walk outward over the iterator that ends every Advance.             *)

\* inFlight when the walk reaches n: every expired node passed on the way has
\* given its slot back.
InFlightAt(q, n) == q.inFlight - Cardinality(Expired(q) \cap Nearer(n))

AtCapacity(q, n) == InFlightAt(q, n) >= Concurrency

\* Mutant: nodes whose answer is awaited do not hold the query open.
Progressing_Never(q, n) == FALSE

\* progressing: the walk has passed a node whose answer may still come.
Progressing(q, n) == Live(q) \cap Nearer(n) # {}

SuccessesTo(q, n) == Cardinality(In(q, "Succeeded") \cap UpTo(n))

\* A closest-nodes query has enough successes with nothing outstanding nearer.
EnoughResults(q, n) ==
  /\ ~q.coverage
  /\ q.state[n] = "Succeeded"
  /\ ~Progressing(q, n)
  /\ SuccessesTo(q, n) >= NumResults

\* A coverage query has reached the region's boundary with everything nearer
\* resolved.
RegionExhausted(q, n) ==
  /\ q.coverage
  /\ q.state[n] = "NotContacted"
  /\ n \notin Region
  /\ ~Progressing(q, n)
  /\ \/ In(q, "Succeeded") \cap Region \cap Nearer(n) # {}
     \/ SuccessesTo(q, n) >= NumResults

FinishesAt(q, n) == EnoughResults(q, n) \/ RegionExhausted(q, n)

\* The walk returns at n.
StopsAt(q, n) ==
  \/ FinishesAt(q, n)
  \/ q.state[n] = "NotContacted"
  \/ n \in Live(q) /\ AtCapacity(q, n)

Stops(q) == {n \in Node : StopsAt(q, n)}

\* The nodes the walk passes.
Walked(q) == IF Stops(q) = {} THEN Node ELSE Nearer(Nearest(Stops(q)))

\* Every expired node the walk passes is marked unresponsive.
MarkUnresponsive(q) ==
  LET lost == Expired(q) \cap Walked(q)
  IN  [q EXCEPT !.state = [n \in Node |-> IF n \in lost THEN "Unresponsive"
                                          ELSE q.state[n]],
                !.left  = [n \in Node |-> IF n \in lost THEN 0 ELSE q.left[n]],
                !.inFlight = @ - Cardinality(lost),
                !.failure  = @ + Cardinality(lost)]

-----------------------------------------------------------------------------
(* What an advance returns: the query after it and the state it emits.     *)

NoNode == -1

Ret(q, kind, n) == [query |-> q, kind |-> kind, node |-> n]

RetKind == {"Finished", "FindCloser", "WaitingAtCapacity", "WaitingWithCapacity"}

\* The earliest request deadline among the waiting nodes, as ticks from now.
EarliestNodeDeadline(q) ==
  LET w == {q.left[n] : n \in In(q, "Waiting")}
  IN  IF w = {} THEN NoTime ELSE Nearest(w)

\* markFinished: the first NumResults successes, or every success of the region.
TargetNodes(q) ==
  IF q.coverage THEN In(q, "Succeeded") \cap Region
  ELSE {n \in In(q, "Succeeded") : SuccessesTo(q, n) <= NumResults}

MarkFinished(q) == [q EXCEPT !.finished    = TRUE,
                             !.nextDue     = NoTime,
                             !.targetNodes = TargetNodes(q)]

Finish(q) == Ret(MarkFinished(q), "Finished", NoNode)

\* A request is dispatched to n.  The first one starts the query's own clock.
Contact(q, n) ==
  Ret([q EXCEPT !.state[n] = "Waiting",
                !.left[n]  = RequestTimeout,
                !.inFlight = @ + 1,
                !.requests = @ + 1,
                !.deadline = IF q.deadline = NoTime THEN Timeout ELSE q.deadline],
      "FindCloser", n)

Wait(q, kind) ==
  Ret([q EXCEPT !.nextDue = EarliestNodeDeadline(q)], kind, NoNode)

Walk(q) ==
  LET r == MarkUnresponsive(q)
      n == Nearest(Stops(q))
  IN  IF Stops(q) = {}
      THEN IF r.inFlight > 0 THEN Wait(r, "WaitingWithCapacity") ELSE Finish(r)
      ELSE IF FinishesAt(q, n) THEN Finish(r)
      ELSE IF q.state[n] = "NotContacted" /\ r.inFlight < Concurrency
      THEN Contact(r, n)
      ELSE Wait(r, "WaitingAtCapacity")

\* What Query.Advance returns for a query whose event has been handled, giving
\* x: a finished query ignores the event and reports what it reported before.
Outcome(q, x) == IF q.finished THEN Ret(q, "Finished", NoNode) ELSE Walk(x)

\* EventQueryCancel stops the query without walking.
CancelOutcome(q) == IF q.finished THEN Ret(q, "Finished", NoNode) ELSE Finish(q)

-----------------------------------------------------------------------------
\* One tick of the clock the caller reads "now" from.
CountDown(t) == IF t > Past THEN t - 1 ELSE t

Elapse(q) ==
  [q EXCEPT !.left = [n \in Node |-> IF q.state[n] = "Waiting"
                                     THEN CountDown(q.left[n]) ELSE q.left[n]],
            !.deadline = CountDown(@),
            !.nextDue  = CountDown(@)]
=============================================================================
