----------------------------- MODULE QueryPool ------------------------------
(***************************************************************************)
(* query/pool.go: the pool that runs queries under ids, advanced by the    *)
(* behaviour of query.go, which calls it once for every event it receives  *)
(* and again whenever the pool reported work (the ready signal) or the due *)
(* time it reported has passed (the ready timer).                          *)
(*                                                                         *)
(* A response or a failure arrives for a request the pool dispatched, at   *)
(* most once, possibly after the request's deadline or after the query has *)
(* been stopped.  Nothing obliges a node to answer.                        *)
(***************************************************************************)
EXTENDS QueryAdvance, Sequences, SequencesExt

CONSTANTS
  Activity,         \* the activity ids, each used for one query
  PoolConcurrency   \* PoolConfig.Concurrency

ASSUME PoolAssumption ==
  /\ Activity \subseteq Nat \ {0} /\ IsFiniteSet(Activity)
  /\ PoolConcurrency \in Nat \ {0}

VARIABLES
  queries,   \* Pool.queries: the ids of the running queries, oldest first
  qry,       \* Pool.queryIndex: the query of each id
  used,      \* the ids queries have been added under
  outcome,   \* what the callers have been told of each id
  net,       \* the requests dispatched and not yet answered, as <<id, node>>
  wake       \* ticks until the behaviour polls the pool again

vars == <<queries, qry, used, outcome, net, wake>>

Running == ToSet(queries)

\* Stands for the query of an id that is not in the pool.
NoQuery == NewQuery({}, FALSE)

\* The ready signal is up.
Now == Past

\* The result of advancing one query as the pool reads it: a query that is still
\* waiting after its own deadline has timed out.
TimedOut(r) ==
  /\ r.kind \in {"WaitingAtCapacity", "WaitingWithCapacity"}
  /\ r.query.deadline < 0

Terminal(r) == r.kind \in {"FindCloser", "Finished"} \/ TimedOut(r)

-----------------------------------------------------------------------------
\* Below, p is the pool in the middle of an advance: [ids, qs, net].
Pool(ids, qs, requests) == [ids |-> ids, qs |-> qs, net |-> requests]

\* Mutant: a query's request deadlines are left out.
Times_DeadlineOnly(query) == {query.deadline}

Times(query) == {query.nextDue, query.deadline}

\* Mutant: the search starts from the zero time, which no due time comes before.
NextDue_FromZero(p) == NoTime

\* Pool.nextDue: the earliest of the queries' due times and deadlines.
NextDue(p) ==
  LET due == (UNION {Times(p.qs[id]) : id \in ToSet(p.ids)}) \ {NoTime}
  IN  IF due = {} THEN NoTime ELSE Nearest(due)

\* Mutant: a query that timed out stays in the pool.
RemoveQuery_Kept(ids, id) == ids

RemoveQuery(ids, id) ==
  IF id \in ToSet(ids) THEN RemoveAt(ids, CHOOSE i \in DOMAIN ids : ids[i] = id) ELSE ids

\* The pool returns at a terminal result of the query id.  A request goes to the
\* network; a query that finished or timed out is removed and its caller told.
\* Either way the behaviour polls again at once.
ReturnTerminal(p, id, r) ==
  /\ wake' = Now
  /\ \/ /\ r.kind = "FindCloser"
        /\ queries' = p.ids
        /\ qry' = p.qs
        /\ net' = p.net \cup {<<id, r.node>>}
        /\ UNCHANGED outcome
     \/ /\ r.kind # "FindCloser"
        /\ queries' = RemoveQuery(p.ids, id)
        /\ qry' = [p.qs EXCEPT ![id] = NoQuery]
        /\ net' = p.net
        /\ outcome' = [outcome EXCEPT ![id] = IF TimedOut(r) THEN "Timeout"
                                              ELSE "Finished"]

ReturnWaiting(p) ==
  /\ qry' = p.qs
  /\ queries' = p.ids
  /\ net' = p.net
  /\ wake' = NextDue(p)
  /\ UNCHANGED outcome

\* Mutant: the pool's concurrency does not stop the loop.
Full_Never(inFlight) == FALSE

Full(inFlight) == inFlight >= PoolConcurrency

\* The loop over the other queries, oldest first: each is polled until one has a
\* terminal result or the pool is full.  A query passed without a terminal
\* result is waiting, so after the i-th the queries in flight number counted + i,
\* where counted is 1 if the event's own query is waiting.  The event's query is
\* skipped before the test of the pool's capacity.
PollOthers(p, skip, counted) ==
  \E r \in {[id \in ToSet(p.ids) |-> Outcome(p.qs[id], p.qs[id])]} :
    LET rest   == RemoveQuery(p.ids, skip)
        stops  == {i \in 1..Len(rest) : Terminal(r[rest[i]]) \/ Full(counted + i)}
        last   == IF stops = {} THEN Len(rest) ELSE Nearest(stops)
        polled == {rest[i] : i \in 1..last}
        p1     == [p EXCEPT !.qs = [id \in Activity |-> IF id \in polled
                                                        THEN r[id].query ELSE @[id]]]
    IN  IF stops # {} /\ Terminal(r[rest[last]])
        THEN ReturnTerminal(p1, rest[last], r[rest[last]])
        ELSE ReturnWaiting(p1)

NoId == 0

\* The advance of the pool by an event for the query id whose result is r.  An
\* event for a query that is no longer in the pool only polls the others.
AdvanceEvent(requests, id, result) ==
  IF id \notin Running
  THEN PollOthers(Pool(queries, qry, requests), NoId, 0)
  ELSE \E r \in {result} :
         LET p == Pool(queries, [qry EXCEPT ![id] = r.query], requests)
         IN  IF Terminal(r) THEN ReturnTerminal(p, id, r) ELSE PollOthers(p, id, 1)

-----------------------------------------------------------------------------
Init ==
  /\ queries = <<>>
  /\ qry = [id \in Activity |-> NoQuery]
  /\ used = {}
  /\ outcome = [id \in Activity |-> "None"]
  /\ net = {}
  /\ wake = NoTime

\* An id that is in use is refused, and the other queries are polled all the same.
\* The ids of ended queries are not used again, and queries are named in the order
\* in which they arrive: the pool compares ids for equality only.
AddQuery(id, seeds) ==
  /\ id \in used => id \in Running
  /\ \A earlier \in Activity : earlier < id => earlier \in used
  /\ used' = used \cup {id}
  /\ PollOthers(IF id \in Running THEN Pool(queries, qry, net)
                ELSE Pool(Append(queries, id), [qry EXCEPT ![id] = NewQuery(seeds, FALSE)], net),
                NoId, 0)

StopQuery(id) ==
  /\ id \in used
  /\ AdvanceEvent(net, id, CancelOutcome(qry[id]))
  /\ UNCHANGED used

NodeResponse(id, n, closer) ==
  /\ <<id, n>> \in net
  /\ \E x \in {OnNodeResponse(qry[id], n, closer)} :
       AdvanceEvent(net \ {<<id, n>>}, id, Outcome(qry[id], x))
  /\ UNCHANGED used

NodeFailure(id, n) ==
  /\ <<id, n>> \in net
  /\ \E x \in {OnNodeFailure(qry[id], n)} :
       AdvanceEvent(net \ {<<id, n>>}, id, Outcome(qry[id], x))
  /\ UNCHANGED used

Poll ==
  /\ wake = Now
  /\ PollOthers(Pool(queries, qry, net), NoId, 0)
  /\ UNCHANGED used

\* Time passes for the queries in the pool and for the behaviour's timer.
Tick ==
  /\ qry' = [id \in Activity |-> IF id \in Running THEN Elapse(qry[id]) ELSE qry[id]]
  /\ wake' = CountDown(wake)
  /\ UNCHANGED <<queries, used, outcome, net>>

\* Seeds and closer nodes are enumerated without Self, which a query leaves out.
Next ==
  \/ \E id \in Activity :
       \/ \E seeds \in SUBSET Others(Node) : AddQuery(id, seeds)
       \/ StopQuery(id)
       \/ \E n \in Others(Node) :
            \/ \E closer \in SUBSET Others(Node) : NodeResponse(id, n, closer)
            \/ NodeFailure(id, n)
  \/ Poll
  \/ Tick

Spec == Init /\ [][Next]_vars

\* Weak fairness of Poll, written out: Poll can be taken, and changes the state,
\* whenever the behaviour is due.
PollFair == []<>(wake # Now) \/ []<><<Poll>>_vars

\* Time passes, and the event loop runs a behaviour whose ready signal is up.
\* Nobody has to answer.
FairSpec == Spec /\ WF_vars(Tick) /\ PollFair

-----------------------------------------------------------------------------
\* The values of the pool's state.
TypeOK ==
  /\ Running \subseteq used /\ used \subseteq Activity
  /\ Len(queries) = Cardinality(Running)
  /\ qry \in [Activity -> QueryType]
  /\ outcome \in [Activity -> {"None", "Finished", "Timeout"}]
  /\ net \subseteq Activity \X Node
  /\ wake \in NoTime..(RequestTimeout + Timeout)

\* A query is in the pool until its caller has been told how it ended, and never
\* afterwards: no query is lost and none ends twice.
EndsOnce ==
  \A id \in Activity : id \in Running <=> (id \in used /\ outcome[id] = "None")

\* PoolConfig.Concurrency: the number of queries waiting for responses.
QueriesInFlight == {id \in Running : qry[id].inFlight > 0}

PoolConcurrencyRespected == Cardinality(QueriesInFlight) <= PoolConcurrency

\* Pool.nextDue is never later than the truth: the behaviour is due to poll no
\* later than the first moment at which a query the pool would poll can make
\* progress by itself (a request deadline or the query's own deadline passes).
WakesInTime ==
  \A i \in 1..Len(queries) :
    LET query == qry[queries[i]]
        times == ({query.left[n] : n \in In(query, "Waiting")} \cup {query.deadline}) \ {NoTime}
    IN  i <= PoolConcurrency /\ times # {} =>
          /\ wake # NoTime
          /\ wake <= Nearest(times)

\* Every query added to the pool ends, although no node need ever answer and the
\* pool is only polled when a ready signal or its timer says so.
EveryQueryEnds == \A id \in Activity : id \in used ~> outcome[id] # "None"
=============================================================================
