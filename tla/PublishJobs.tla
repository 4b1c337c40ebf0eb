---------------------------- MODULE PublishJobs -----------------------------
(***************************************************************************)
(* publish/static.go, publish/followup.go and publish/optimistic.go: the   *)
(* three kinds of publish, as operators that give the results an advance   *)
(* may have.  m holds the publishes of the pool and the query pool they    *)
(* share: m.jobs, m.queries, m.sent.  A result is m with what the publish  *)
(* reported in m.out.  m.mixed is history: the publishes one of which was  *)
(* told of the end of another one's query.                                 *)
(*                                                                         *)
(* Node n is at distance n from the target.  The query pool is abstract:   *)
(* QueryPool shows what it does with its queries; here an advance of it    *)
(* may make a request for any running query, end any of them, or wait.     *)
(***************************************************************************)
EXTENDS Integers, FiniteSets, FiniteSetsExt

CONSTANTS
  Job,                  \* the activity ids of publishes, each used once
  Node,                 \* the nodes, by their distance from the target
  ReplicationFactor,    \* OptimisticConfig.ReplicationFactor
  IndividualThreshold,  \* the distance within which a node is stored with at once
  SetThreshold,         \* the mean distance at which a walk is abandoned
  NodeSets,             \* bound: the sets of nodes a caller, an answer or a query names
  MaxRequests           \* bound: the requests a query makes

ASSUME PublishJobsAssumption ==
  /\ IsFiniteSet(Job)
  /\ IsFiniteSet(Node) /\ Node \subseteq Nat \ {0}
  /\ NodeSets \subseteq SUBSET Node
  /\ ReplicationFactor \in Nat \ {0}
  /\ {IndividualThreshold, SetThreshold, MaxRequests} \subseteq Nat

\* A publish: closest is FollowUp's, seen, contacted, walking and stopped are
\* Optimistic's.
NewJob(kind) ==
  [kind |-> kind, todo |-> {}, waiting |-> {}, success |-> {}, failed |-> {},
   closest |-> {}, seen |-> {}, contacted |-> {}, walking |-> FALSE, stopped |-> FALSE]

NoJob == NewJob("none")

\* An event for a publish: the node it is from and the closer nodes it brings.
JobEvent(kind, n, nodes) == [kind |-> kind, node |-> n, nodes |-> nodes]

PollEvent == JobEvent("Poll", 0, {})

NoOut == [kind |-> "none", job |-> "none", node |-> 0, contacted |-> {}, errors |-> {}]

Report(m, kind, j) == [m EXCEPT !.out = [NoOut EXCEPT !.kind = kind, !.job = j]]

-----------------------------------------------------------------------------
(* The query pool *)

QueryResult(m, kind, id, nodes) == [m |-> m, kind |-> kind, id |-> id, nodes |-> nodes]

\* The query id ends, and the publish j is told.
EndQuery(m, id, j) ==
  [m EXCEPT !.queries = @ \ {id}, !.mixed = IF id = j THEN @ ELSE @ \cup {id, j}]

AddQuery(m, id) == [m EXCEPT !.queries = @ \cup {id}]

\* What an advance of the query pool by the publish j may do with its query id.  A query
\* has seeds, so it makes a request before it waits or ends.
AdvanceQuery(m, id, j) ==
  IF m.sent[id] = 0 THEN {}
  ELSE {QueryResult(EndQuery(m, id, j), "Finished", id, nodes) : nodes \in NodeSets}
       \cup {QueryResult(EndQuery(m, id, j), "Timeout", id, {}), QueryResult(m, "Waiting", "none", {})}

\* query.Pool.Advance by the publish j, with any event but the stop of a running query.
AdvanceQueries(m, j) ==
  IF m.queries = {} THEN {QueryResult(m, "Idle", "none", {})}
  ELSE {QueryResult([m EXCEPT !.sent[id] = @ + 1], "FindCloser", id, {}) :
          id \in {q \in m.queries : m.sent[q] < MaxRequests}}
       \cup UNION {AdvanceQuery(m, id, j) : id \in m.queries}

\* The publish j stops its query.
StopQuery(m, j) ==
  IF j \notin m.queries THEN AdvanceQueries(m, j)
  ELSE {QueryResult(EndQuery(m, j, j), "Finished", j, nodes) : nodes \in NodeSets}

-----------------------------------------------------------------------------
(* What the publishes share *)

\* Mutant: a store that failed keeps its node waiting.
Answered_KeptWaiting(m, j, ev) ==
  IF ev.kind = "Stored"
  THEN [m EXCEPT !.jobs[j].waiting = @ \ {ev.node}, !.jobs[j].success = @ \cup {ev.node}]
  ELSE [m EXCEPT !.jobs[j].failed = @ \cup {ev.node}]

\* Mutant: a store that failed is not recorded.
Answered_FailureLost(m, j, ev) ==
  IF ev.kind = "Stored"
  THEN [m EXCEPT !.jobs[j].waiting = @ \ {ev.node}, !.jobs[j].success = @ \cup {ev.node}]
  ELSE [m EXCEPT !.jobs[j].waiting = @ \ {ev.node}]

\* The answer to a store request.
Answered(m, j, ev) ==
  IF ev.kind = "Stored"
  THEN [m EXCEPT !.jobs[j].waiting = @ \ {ev.node}, !.jobs[j].success = @ \cup {ev.node}]
  ELSE [m EXCEPT !.jobs[j].waiting = @ \ {ev.node}, !.jobs[j].failed = @ \cup {ev.node}]

\* A stopped publish counts every node it was not done with as failed.
Cancel(m, j) ==
  [m EXCEPT !.jobs[j].failed = @ \cup m.jobs[j].todo \cup m.jobs[j].waiting,
            !.jobs[j].todo = {}, !.jobs[j].waiting = {}]

\* The next node is asked to store the record.
Store(m, j, n) ==
  LET job == m.jobs[j]
  IN  [m EXCEPT !.jobs[j] = [job EXCEPT !.todo = @ \ {n}, !.waiting = @ \cup {n},
                                        !.contacted = IF job.kind = "Optimistic" THEN @ \cup {n} ELSE @],
                !.out = [NoOut EXCEPT !.kind = "Store", !.job = j, !.node = n]]

HandOut(m, j, otherwise) ==
  IF m.jobs[j].todo = {} THEN {otherwise}
  ELSE {Store(m, j, n) : n \in m.jobs[j].todo}

Finish(m, j, contacted, errors) ==
  [m EXCEPT !.jobs[j] = NoJob,
            !.out = [NoOut EXCEPT !.kind = "Finished", !.job = j,
                                  !.contacted = contacted, !.errors = errors]]

\* StatePublishWaiting, with or without a due time.
Wait(m, j, due) == [Report(m, "Waiting", j) EXCEPT !.due = @ \/ due]

-----------------------------------------------------------------------------
(* Static *)

\* Static.Advance.
AdvanceStatic(m, j, ev) ==
  LET n == CASE ev.kind = "Start" -> [m EXCEPT !.jobs[j].todo = ev.nodes]
             [] ev.kind = "Stop"  -> Cancel(m, j)
             [] ev.kind \in {"Stored", "NotStored"} -> Answered(m, j, ev)
             [] OTHER             -> m
      job == n.jobs[j]
  IN  HandOut(n, j, IF job.waiting # {} THEN Wait(n, j, FALSE)
                    ELSE Finish(n, j, job.success \cup job.failed, job.failed))

-----------------------------------------------------------------------------
(* FollowUp *)

\* The part of FollowUp.Advance after the query pool.
StoreFollowUp(m, j, stop) ==
  LET n   == IF stop THEN Cancel(m, j) ELSE m
      job == n.jobs[j]
  IN  HandOut(n, j, IF job.waiting # {} THEN Wait(n, j, FALSE)
                    ELSE IF stop \/ job.closest # {}
                    THEN Finish(n, j, job.closest, job.failed)
                    ELSE Report(n, "Idle", j))

\* FollowUp.advancePool: the end of a query is taken for the end of the publish's
\* own, and a pool that waits ends the advance.
FollowUpResult(res, j, stop) ==
  CASE res.kind = "FindCloser" -> {Report(res.m, "FindCloser", res.id)}
    [] res.kind = "Waiting"    -> {Wait(res.m, j, TRUE)}
    [] res.kind = "Idle"       -> StoreFollowUp(res.m, j, stop)
    [] res.kind = "Finished" /\ res.nodes # {} ->
         StoreFollowUp([res.m EXCEPT !.jobs[j].closest = res.nodes,
                                     !.jobs[j].todo = @ \cup res.nodes], j, stop)
    [] OTHER                   -> {Finish(res.m, j, {}, {})}

\* Mutant: a stop leaves the query running.
AdvanceFollowUp_StopOnly(m, j, ev) ==
  LET stop == ev.kind = "Stop"
  IN  IF ev.kind \in {"Stored", "NotStored"} THEN StoreFollowUp(Answered(m, j, ev), j, FALSE)
      ELSE IF stop THEN StoreFollowUp(m, j, TRUE)
      ELSE UNION {FollowUpResult(res, j, stop) :
                    res \in IF ev.kind = "Start" THEN AdvanceQueries(AddQuery(m, j), j)
                            ELSE AdvanceQueries(m, j)}

\* FollowUp.Advance.
AdvanceFollowUp(m, j, ev) ==
  LET stop == ev.kind = "Stop"
  IN  IF ev.kind \in {"Stored", "NotStored"} THEN StoreFollowUp(Answered(m, j, ev), j, FALSE)
      ELSE IF stop /\ m.jobs[j].closest # {} THEN StoreFollowUp(m, j, TRUE)
      ELSE UNION {FollowUpResult(res, j, stop) :
                    res \in CASE ev.kind = "Start" -> AdvanceQueries(AddQuery(m, j), j)
                              [] stop              -> StopQuery(m, j)
                              [] OTHER             -> AdvanceQueries(m, j)}

-----------------------------------------------------------------------------
(* Optimistic *)

\* Mutant: a node that has been seen is queued again.
Discover_Again(m, j, nodes) ==
  [m EXCEPT !.jobs[j].seen = @ \cup nodes,
            !.jobs[j].todo = @ \cup {n \in nodes : n < IndividualThreshold}]

\* discover.
Discover(m, j, nodes) ==
  [m EXCEPT !.jobs[j].seen = @ \cup nodes,
            !.jobs[j].todo = @ \cup {n \in nodes \ m.jobs[j].seen : n < IndividualThreshold}]

\* The closest nodes found, up to the replication factor.
ClosestFound(seen) ==
  {n \in seen : Cardinality({k \in seen : k < n}) < ReplicationFactor}

\* setThresholdMet.
SetThresholdMet(seen) ==
  /\ Cardinality(seen) >= ReplicationFactor
  /\ SumSet(ClosestFound(seen)) < ReplicationFactor * SetThreshold

\* endWalk.
EndWalk(m, j) ==
  LET job == m.jobs[j]
      left == ClosestFound(job.seen) \ (job.waiting \cup job.failed \cup job.contacted)
  IN  [m EXCEPT !.jobs[j].walking = FALSE,
                !.jobs[j].todo = IF job.stopped THEN @ ELSE @ \cup left]

\* The part of Optimistic.Advance after the query pool.
StoreOptimistic(m, j, due) ==
  LET job == m.jobs[j]
  IN  IF job.stopped THEN {Finish(m, j, job.contacted, Cancel(m, j).jobs[j].failed)}
      ELSE HandOut(m, j, IF job.waiting # {} \/ job.walking THEN Wait(m, j, due)
                         ELSE Finish(m, j, job.contacted, job.failed))

\* Optimistic.advancePool.
OptimisticResult(res, j) ==
  CASE res.kind = "FindCloser" -> {Report(res.m, "FindCloser", res.id)}
    [] res.kind = "Waiting"    -> StoreOptimistic(res.m, j, TRUE)
    [] res.kind = "Idle"       -> StoreOptimistic(res.m, j, FALSE)
    [] res.kind = "Finished"   -> StoreOptimistic(EndWalk(Discover(res.m, j, res.nodes), j), j, FALSE)
    [] res.kind = "Timeout"    -> StoreOptimistic(EndWalk(res.m, j), j, FALSE)

\* Optimistic.handleEvent: what the event does to the publish itself.
OptimisticEvent(m, j, ev) ==
  CASE ev.kind = "Start"    -> Discover([m EXCEPT !.jobs[j].walking = TRUE], j, ev.nodes)
    [] ev.kind = "Stop"     -> [m EXCEPT !.jobs[j].stopped = TRUE]
    [] ev.kind = "Response" -> Discover(m, j, ev.nodes)
    [] ev.kind \in {"Stored", "NotStored"} -> Answered(m, j, ev)
    [] OTHER                -> m

\* Optimistic.Advance: once the closest nodes found are near enough the walk is
\* abandoned, whatever the event was.
AdvanceOptimistic(m, j, ev) ==
  LET n   == OptimisticEvent(m, j, ev)
      job == n.jobs[j]
  IN  IF job.walking /\ ~job.stopped /\ SetThresholdMet(job.seen)
      THEN UNION {OptimisticResult(res, j) : res \in StopQuery(EndWalk(n, j), j)}
      ELSE CASE ev.kind \in {"Stored", "NotStored"} -> StoreOptimistic(n, j, FALSE)
             [] ev.kind = "Stop" /\ ~job.walking    -> StoreOptimistic(n, j, FALSE)
             [] ev.kind = "Stop" /\ job.walking     ->
                  UNION {OptimisticResult(res, j) : res \in StopQuery(n, j)}
             [] ev.kind = "Start" ->
                  UNION {OptimisticResult(res, j) : res \in AdvanceQueries(AddQuery(n, j), j)}
             [] OTHER -> UNION {OptimisticResult(res, j) : res \in AdvanceQueries(n, j)}

-----------------------------------------------------------------------------
AdvanceJob(m, j, ev) ==
  CASE m.jobs[j].kind = "Static"     -> AdvanceStatic(m, j, ev)
    [] m.jobs[j].kind = "FollowUp"   -> AdvanceFollowUp(m, j, ev)
    [] m.jobs[j].kind = "Optimistic" -> AdvanceOptimistic(m, j, ev)

\* The publish still looks for nodes.
Walking(job) ==
  \/ job.kind = "FollowUp" /\ job.closest = {}
  \/ job.kind = "Optimistic" /\ job.walking
=============================================================================
