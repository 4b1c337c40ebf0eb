------------------------------ MODULE Publish -------------------------------
(***************************************************************************)
(* publish/pool.go: the pool that runs publishes, with the publishes of    *)
(* PublishJobs, the requests they have in flight and the behaviour of      *)
(* publish.go as the pool sees it: it advances the pool with every event   *)
(* and polls it after that, again after every instruction, and when the    *)
(* due time that a poll reported has passed.                               *)
(*                                                                         *)
(* A find closer request need not be answered, as the pool of queries has  *)
(* deadlines; of a store request the answer comes, be it a failure, unless *)
(* the inbound queue of the behaviour is full and drops it.                *)
(***************************************************************************)
EXTENDS PublishJobs

VARIABLES
  jobs,     \* Pool.bcs: the running publishes
  queries,  \* Pool.qp: the ids its queries run under
  sent,     \* the requests each query has made
  finds,    \* the find closer requests in flight of each publish
  stores,   \* the store requests in flight, by publish and node
  poll,     \* when the pool is advanced next: now, when a due time has passed, or not
  status,   \* what each caller knows of its publish
  asked,    \* the nodes each publish has asked to store its record...
  again,    \* ...those it has asked again...
  refused,  \* ...and those that did not store it
  lost,     \* ...and those whose answer was dropped
  mixed,    \* the publishes one of which was told of the end of another one's query
  result    \* what each publish reported at its end

vars == <<jobs, queries, sent, finds, stores, poll, status, asked, again, refused, lost, mixed, result>>

Running(js) == {j \in Job : js[j].kind # "none"}

NoResult == [contacted |-> {}, errors |-> {}]

Init ==
  /\ jobs = [j \in Job |-> NoJob]
  /\ queries = {}
  /\ sent = [j \in Job |-> 0]
  /\ finds = [j \in Job |-> 0]
  /\ stores = [p \in Job \X Node |-> 0]
  /\ poll = "none"
  /\ status = [j \in Job |-> "new"]
  /\ asked = [j \in Job |-> {}] /\ again = [j \in Job |-> {}] /\ refused = [j \in Job |-> {}]
  /\ lost = [j \in Job |-> {}] /\ mixed = {}
  /\ result = [j \in Job |-> NoResult]

-----------------------------------------------------------------------------
(* Pool.Advance *)

Machine ==
  [jobs |-> jobs, queries |-> queries, sent |-> sent, mixed |-> mixed, due |-> FALSE, out |-> NoOut]

\* advancePublish: an instruction or the end of a publish ends the walk.
Terminal(m) == m.out.kind \in {"FindCloser", "Store", "Finished"}

\* One more of the publishes that are left is polled, unless one has produced something.
PollNext(w) ==
  IF Terminal(w.m) THEN {w}
  ELSE UNION {{[m |-> k, left |-> w.left \ {j}] : k \in AdvanceJob(w.m, j, PollEvent)} :
                j \in w.left}

\* The other publishes are polled, in no particular order, up to the first that
\* produces something.
PollJobs(m, others) ==
  LET after[i \in 0..Cardinality(others)] ==
        IF i = 0 THEN {[m |-> m, left |-> others]} ELSE UNION {PollNext(w) : w \in after[i - 1]}
  IN  {w.m : w \in after[Cardinality(others)]}

\* Pool.Advance with an event for the publish j.
Advance(m, j, ev) ==
  IF m.jobs[j].kind = "none" THEN PollJobs(m, Running(m.jobs))
  ELSE UNION {IF Terminal(k) THEN {k} ELSE PollJobs(k, Running(k.jobs) \ {j}) :
                k \in AdvanceJob(m, j, ev)}

\* Mutant: the due time of a pool that waits is not kept.
NextPoll_NoTimer(m) == IF Terminal(m) THEN "now" ELSE "none"

\* When the behaviour polls the pool again after a poll.
NextPoll(m) == IF Terminal(m) THEN "now" ELSE IF m.due THEN "due" ELSE "none"

\* What the behaviour does with the state the pool reports; fs and ss are the
\* requests in flight.
Apply(m, fs, ss) ==
  LET out == m.out
      j   == out.job
  IN  /\ jobs' = m.jobs
      /\ queries' = m.queries
      /\ sent' = m.sent
      /\ mixed' = m.mixed
      /\ finds' = IF out.kind = "FindCloser" THEN [fs EXCEPT ![j] = @ + 1] ELSE fs
      /\ stores' = IF out.kind = "Store" THEN [ss EXCEPT ![<<j, out.node>>] = @ + 1] ELSE ss
      /\ asked' = IF out.kind = "Store" THEN [asked EXCEPT ![j] = @ \cup {out.node}] ELSE asked
      /\ again' = IF out.kind = "Store" /\ out.node \in asked[j]
                  THEN [again EXCEPT ![j] = @ \cup {out.node}] ELSE again
      /\ result' = IF out.kind = "Finished"
                   THEN [result EXCEPT ![j] = [contacted |-> out.contacted, errors |-> out.errors]]
                   ELSE result

\* The callers: a publish is started, and known to have been stopped or to have ended.
Known(s, m) == IF m.out.kind # "Finished" THEN s
               ELSE [s EXCEPT ![m.out.job] = IF @ = "stopped" THEN "abandoned" ELSE "done"]

-----------------------------------------------------------------------------
\* EventPoolStartStatic, EventPoolStartFollowUp or EventPoolStartOptimistic, with
\* the nodes to store with or the seeds.
Start(j, kind, nodes) ==
  /\ status[j] = "new"
  /\ nodes # {}
  /\ \E m \in Advance([Machine EXCEPT !.jobs[j] = NewJob(kind)], j, JobEvent("Start", 0, nodes)) :
       /\ Apply(m, finds, stores)
       /\ poll' = "now"
       /\ status' = Known([status EXCEPT ![j] = "running"], m)
  /\ UNCHANGED <<refused, lost>>

\* EventPoolStopPublish.
Stop(j) ==
  /\ status[j] = "running"
  /\ \E m \in Advance(Machine, j, JobEvent("Stop", 0, {})) :
       /\ Apply(m, finds, stores)
       /\ poll' = "now"
       /\ status' = Known([status EXCEPT ![j] = "stopped"], m)
  /\ UNCHANGED <<refused, lost>>

\* EventPoolGetCloserNodesSuccess or EventPoolGetCloserNodesFailure.
FindAnswer(j, kind, nodes) ==
  /\ finds[j] > 0
  /\ \E m \in Advance(Machine, j, JobEvent(kind, 0, nodes)) :
       /\ Apply(m, [finds EXCEPT ![j] = @ - 1], stores)
       /\ poll' = "now"
       /\ status' = Known(status, m)
  /\ UNCHANGED <<refused, lost>>

\* EventPoolStoreRecordSuccess or EventPoolStoreRecordFailure.
StoreAnswer(j, n, kind) ==
  /\ stores[<<j, n>>] > 0
  /\ \E m \in Advance(Machine, j, JobEvent(kind, n, {})) :
       /\ Apply(m, finds, [stores EXCEPT ![<<j, n>>] = @ - 1])
       /\ poll' = "now"
       /\ status' = Known(status, m)
  /\ refused' = IF kind = "NotStored" /\ j \in Running(jobs)
                THEN [refused EXCEPT ![j] = @ \cup {n}] ELSE refused
  /\ UNCHANGED lost

\* PublishBehaviour.Notify, when the inbound queue has no room for the answer.
StoreDropped(j, n) ==
  /\ stores[<<j, n>>] > 0
  /\ stores' = [stores EXCEPT ![<<j, n>>] = @ - 1]
  /\ lost' = [lost EXCEPT ![j] = @ \cup {n}]
  /\ UNCHANGED <<jobs, queries, sent, finds, poll, status, asked, again, refused, mixed, result>>

\* EventPoolPoll.
Poll ==
  /\ poll # "none"
  /\ \E m \in PollJobs(Machine, Running(jobs)) :
       /\ Apply(m, finds, stores)
       /\ poll' = NextPoll(m)
       /\ status' = Known(status, m)
  /\ UNCHANGED <<refused, lost>>

Kind == {"Static", "FollowUp", "Optimistic"}

Next ==
  \/ Poll
  \/ \E j \in Job :
       \/ \E kind \in Kind, nodes \in NodeSets : Start(j, kind, nodes)
       \/ Stop(j)
       \/ \E nodes \in NodeSets : FindAnswer(j, "Response", nodes)
       \/ FindAnswer(j, "Failed", {})
       \/ \E n \in Node, kind \in {"Stored", "NotStored"} : StoreAnswer(j, n, kind)
       \/ \E n \in Node : StoreDropped(j, n)

Spec == Init /\ [][Next]_vars

\* EveryQueryEnds of QueryPool: a query pool that is advanced again and again ends
\* the queries it runs.
QueryEnds == queries # {} /\ Poll /\ \E j \in queries : j \notin queries'

StoreAnswered ==
  \E j \in Job, n \in Node :
    StoreDropped(j, n) \/ \E kind \in {"Stored", "NotStored"} : StoreAnswer(j, n, kind)

\* The event loop runs a behaviour that is ready or whose timer has fired, and the
\* network answers every store request, be it with a failure or an answer that is dropped.
FairSpec == Spec /\ SF_vars(QueryEnds) /\ WF_vars(Poll) /\ WF_vars(StoreAnswered)

-----------------------------------------------------------------------------
(* Properties *)

\* The pool of queries is shared, and a publish that advances it may be told of the end of
\* another one's query and take it for its own (followup.go:285, see NeverIdle).  Of the
\* publishes to which that has not happened, and of which no other one was told:
Own == Job \ mixed

\* A publish waits for exactly the nodes whose answer is on its way or was dropped, and has
\* one request in flight to each, so that no answer that comes is unexpected and none is
\* waited for in vain but one that was dropped.
StoresAccounted ==
  \A j \in Running(jobs) \cap Own, n \in Node :
    /\ stores[<<j, n>>] = (IF n \in jobs[j].waiting \ lost[j] THEN 1 ELSE 0)
    /\ n \in lost[j] => n \in jobs[j].waiting

\* A publish looks for nodes exactly as long as its query runs in the pool it shares
\* with the others: no walk is left without a query and no query without a walk.
WalkHasQuery == \A j \in Own : j \in queries <=> Walking(jobs[j])

\* When nothing will advance the pool by itself a publish waits for the answer to a store
\* request, and for nothing else.
RestsOnStores ==
  poll = "none" => \A j \in Running(jobs) \cap Own : jobs[j].waiting # {} /\ jobs[j].todo = {}

\* No node is asked twice to store a record by one publish.
AskedOnce == \A j \in Own : again[j] = {}

\* A publish that was not stopped reports as contacted the nodes it asked and as
\* errors those that did not store the record, all of them having answered.  One
\* that was stopped leaves out none of either.
ResultSound ==
  \A j \in Own :
    /\ status[j] = "done" => /\ result[j].contacted = asked[j]
                             /\ result[j].errors = refused[j]
                             /\ lost[j] = {} /\ \A n \in Node : stores[<<j, n>>] = 0
    /\ status[j] = "abandoned" =>
         asked[j] \subseteq result[j].contacted /\ refused[j] \subseteq result[j].errors

\* Every publish ends, unless an answer it waits for was dropped or it was mixed up with
\* another one: again and again no other is under way, as an id is used for one publish.
EveryPublishEnds ==
  []<>(\A j \in Own : lost[j] = {} => status[j] \notin {"running", "stopped"})

\* "A [Pool] never observes this state" (StatePublishIdle): no publish that a poll
\* advances is idle.
NeverIdle ==
  \A j \in Running(jobs) : \A m \in AdvanceJob(Machine, j, PollEvent) : m.out.kind # "Idle"
=============================================================================
