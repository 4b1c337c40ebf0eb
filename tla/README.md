# xorbie: a TLA+ verification project

xorbie is a Go library that coordinates a node of a Kademlia distributed hash
table: it runs iterative lookups, keeps the routing table filled and tested,
publishes records to the nodes nearest a key, and sends the requests all of this
needs.  The modules in this directory model its core, check it with TLC on small
instances, and prove with TLAPS what matters most for every instance.

## 1. The system

Everything is a *state machine* that is advanced with an event and the current
time and returns a state (an instruction, a result or "waiting").  State machines
never block, never start goroutines and never read a clock.  They are driven by
four *behaviours*, and the behaviours by one event loop.

| part | source | state | operations |
|---|---|---|---|
| Query | `query/query.go`, `query/iter.go`, `query/node.go` | every node heard of with the state of its request, `inFlight`, the stats, the query deadline, `nextDue`, the result | poll, node response, node failure, cancel |
| Query pool | `query/pool.go` | running queries in order of arrival | add, stop, node response, node failure, poll |
| Query behaviour | `query.go` | bounded inbound queue, outbound queue, notifiers of waiting callers, ready channel and timer | Notify, Perform |
| Include | `routing/include.go` | candidate queue, running checks with deadlines | add candidate, connectivity success and failure, poll |
| Probe | `routing/probe.go` | the nodes of the routing table ordered by next check, running checks | add, remove, success, failure, poll |
| Bootstrap, Explore | `routing/bootstrap.go`, `routing/explore.go` | one query each, retry and schedule times | start, responses, poll |
| Routing behaviour | `routing.go` | the four machines above, bounded inbound queue, outbound queue | Notify, Perform |
| Publish pool and publishes | `publish/pool.go`, `static.go`, `followup.go`, `optimistic.go` | the running publishes, each with the nodes to ask, waited for, stored with and failed; one query pool that they share | start and stop, find and store answers, poll |
| Survey | `publish/survey.go` | the schedule of regions, the one coverage query | find answers, poll |
| Prefix table | `prefix/table.go` | the regions of the keyspace and the population of each | observe, locate |
| Region publish | `publish/region.go` | the keys of a region, a cursor, the keys in flight | key done, poll |
| Publish behaviour | `publish.go` | the four above, inbound and outbound queues, notifiers, ready channel and timer | Notify, Perform |
| Network behaviour | `network.go` | node handlers, shared and per-node capacity | Notify (hand over a request), send, evict, Close |
| Coordinator | `coordinator.go` | the event loop, the API | queries, publishing, Close |
| Key store, size estimate | `keystore/`, `netsize/` | sequential data structures | look-ups and updates |

**How they interact.**  A call of the API puts a command in a behaviour's inbound
queue and waits on a channel.  The event loop waits for any behaviour's ready
channel, runs its `Perform` and dispatches the one event it returns: a request
goes to the network behaviour, which hands it to the goroutine of its node's
handler, and the handler queues the answer with the behaviour that asked.
Routing and query behaviours tell one another of nodes seen and nodes that
failed.  The publish behaviour surveys one region of the keyspace after the other, and
after each survey publishes the keys it provides there to the nodes that were found.
Timers are the ready channel's other source: a behaviour arms one for
the earliest time at which one of its machines could make progress unaided.

**What is hard.**  Answers arrive late, twice, never, or for an activity that has
ended and whose id is in use again.  Several counters and queues are shared and
bounded, and a full queue drops.  Progress without answers depends on every layer
reporting the right next due time.  Node handlers run concurrently with the event
loop, are evicted when idle and are torn down while they work.

**What makes each part correct.**

| part | properties |
|---|---|
| Query | the count of requests in flight is exact and bounded; each request is counted once; no node is asked twice; nothing changes after the end; no node that was heard of is left open that is nearer than the results |
| Query pool | a query ends once and its end is reported; the limit on queries in flight; the due time is never late; every query ends |
| Query behaviour | no send on a closed channel; no caller forgotten when the queue drops its start; the timer covers the pool; every call returns |
| Network | tokens are neither leaked nor returned twice; hand-over never blocks; eviction strands nothing; an answer is dropped only when other events take up the room that the queue has beyond the capacity; each request is answered once; close ends everything |
| Include, probe, routing behaviour | a node is in one place; monitored nodes are in the table and the other way round; clients' last word agrees with the table; the timer covers every deadline |
| Bootstrap, explore | the timer covers every deadline, retry and schedule entry; a short table is bootstrapped again; every cpl is explored, and in the first round before any comes up twice |
| Publishes, publish pool | a walk has a query and a query a walk; a publish waits for exactly the answers on their way and those dropped; no node is asked twice; the result names who was asked and who failed; every publish ends whose answers come; all of this of a publish that is not taken for another one (section 6) |
| Survey, prefix table | the regions tile the keyspace and are the scheduled ones, through splits and merges; populations are bounded; every region that falls due is surveyed; the timer covers a running survey |
| Region publish | the slot of every key that has ended is freed, also after a publish was replaced; no region publish is forgotten between two keys |

## 2. The modules

`Query*` is the lookup, bottom up; `Network` the requests; `Include`, `Probe`,
`Routing`, `Lookup` and `Upkeep` the routing table; `Publish*`, `PrefixTable` and
`Survey` the publishing of records.

| module | models | composes |
|---|---|---|
| `QueryAdvance` | one query as a value and `Query.Advance` as an operator on it (no state of its own) | |
| `Query` | one query driven by an arbitrary environment | `QueryAdvance` |
| `QueryPool` | the pool of queries, with the timer and the network as far as they decide when it is advanced | `QueryAdvance` |
| `QueryProofs` | lemmas about the operators of `QueryAdvance`; the theorems about one query | `Query` |
| `QueryPoolProofs` | the theorems about the pool | `QueryPool`, the lemmas of `QueryProofs` |
| `QueryBehaviour` | the query behaviour, the event loop around it, and its callers in `QueryClosest`, `QueryMessage`, `waitForQuery` | promises of `QueryPool` |
| `QueryBehaviourProofs` | the theorems about `QueryBehaviour` | `QueryBehaviour` |
| `Network` | the network behaviour, one goroutine per node handler, the inbound queue of the behaviour that asks, with the events of others in it, and the coordinator's close | |
| `RequestService` | what the network promises to a behaviour that asks, as an abstract specification | |
| `NetworkProofs` | the theorems about `Network`, among them that it implements `RequestService` | `Network`, `RequestService` |
| `CheckTimes`, `Include`, `Probe` | due times; the two machines that decide which nodes are in the routing table, as operators | |
| `Routing` | the routing behaviour with include and probe on one routing table | `Include`, `Probe` |
| `RoutingProofs` | the theorems about `Routing` | `Routing` |
| `Lookup` | the query as bootstrap and explore see it: it may ask, end or wait, and ends at its deadline | |
| `Upkeep` | the routing behaviour with bootstrap and explore | `Lookup` |
| `UpkeepProofs` | the theorems about `Upkeep` | `Upkeep` |
| `PublishJobs` | static, follow-up and optimistic publishes, as operators over the query pool that they share | promises of `QueryPool` |
| `Publish` | the pool of publishes, the requests they have in flight, their answers, also those that are dropped, their callers, and the polling by the behaviour | `PublishJobs` |
| `PublishProofs` | the theorems about `Publish` | `Publish` |
| `PrefixTable`, `Survey` | the regions of the keyspace; their schedule and survey, as operators | `Survey` uses `PrefixTable` |
| `PublishBehaviour` | the publish behaviour with the survey, region publishes and the static publishes of their keys | `Survey` |
| `PublishBehaviourProofs` | the theorems about `PublishBehaviour` | `PublishBehaviour` |
| `MC*` | symmetry sets, values of constants and constraints for TLC | |

Conventions shared by all of them:

* A state machine's `Advance` is an operator from a value to a value (or to the
  set of its possible results); an action applies it, and does everything else the
  behaviour's handler does in the same step.
* A handler is one action except where another goroutine can act in its middle and
  it matters.  `Routing` splits `Perform` into `Take` and `Handle`, since callers
  may fill the inbound queue between the two; `Network` returns the two tokens of a
  request in two steps; `Cancel` and `Close` of the coordinator are two.
* Time is relative: a deadline is the number of ticks left, `Past` (-1) once it has
  gone by, `NoTime` (-2) for the zero time.  `Tick` counts every deadline down.  A time of
  which it only matters whether it has come, such as that of the ready timer, stops at 0.
  Nothing forces an action to happen before the next tick, so the event loop may
  be late by any amount.
* `TypeOK` in a module says which values its variables take.  The proofs need it and establish it;
  the runs are about the other properties.
* Definitions named `X_Something` under a comment `Mutant:` are `X` with a
  plausible bug.  No specification uses them; each is what one property of one run
  has to be violated by (`mutants` in `PROJECT.json`).

### Query (`QueryAdvance`, `Query`)

The state is the record `q`: the state of every node the iterator holds
(`"Unknown"` for the others), the ticks left of each request, and the fields of the
Go struct.  A node is its rank by distance from the target.  The walk over the
iterator in `Advance` is not written as a loop: `StopsAt` says at which nodes the
loop would return, `Nearest(Stops(q))` is where it does return, and `Walked` are the
nodes passed on the way, the expired ones of which are marked unresponsive.  `Poll`,
`Response`, `Failure` and `Cancel` are the events.  Answers may come from any node at
any time, also from nodes that were not asked: bootstrap, explore and surveys run all
their queries under one activity id, so an answer to one query can reach the next.

### Query pool (`QueryPool`)

`queries` is the pool's slice, `qry` the queries, `net` the requests out, `wake` the
time at which the behaviour will poll.  `AddQuery`, `StopQuery`, `NodeResponse`,
`NodeFailure` and `Poll` are the events of `Pool.Advance`, each with the loop over the
other queries (`PollOthers`).  `outcome` is a history variable: what the caller was
told.  Queries take their ids in order of arrival, so that no two behaviours differ in
names only.

### Query behaviour (`QueryBehaviour`)

The pool is abstract: an advance may make a request for a running query, end one, or
wait.  `Perform` is the whole function, including the draining of pending progress,
`updateReadyStatus` and the arming of the timer; `Dispatch` is what the event loop then
does with the event.  `Call`, `Progress`, `Finish` and `GiveUp` are a caller's steps.
`DrainPending` is taken as one step: the caller can empty the channel in the middle of
it, which leads to the states that a `Progress` before or after it leads to.

### Network (`Network`)

`where` is how far a request has come, `pc` what each handler's goroutine does, `loop`
what the event loop does.  The lock of the handler map makes `Notify`, `Evict` and `Close`
atomic.  A handler takes a request (`Take`), sends it and queues the answer (`Send`),
returns its own token (`ReleaseNode`) and the shared one (`ReleaseShared`).  After `Close`
the drain (`Discard`) competes with the goroutine (`Take`, `Stop`) for the same queue.
`NetworkBehaviour.pending` is left out: nothing ever appends to it.

The inbound queue is one that others fill too: `Submit` is `Notify` with the event of a caller of
the coordinator or of another behaviour (`Other`), at any time, and `Enqueue` drops an answer that finds
the queue full, whatever fills it.  `Perform` takes one event, of either sort, and emits at most one
request, which is what the query behaviour and the publish behaviour do.  `burst` counts, up to
`Headroom`, the places that the queue has beyond the capacity, the other events that have joined since
the queue was last empty, and `lost` says whether an answer was dropped in that time; both are history
variables.

`RequestService` says what all this amounts to for the behaviour that asks: a request is
accepted, if fewer than `Capacity` are out, or refused, which is an answer; one that was
accepted is answered once; after `Shut` it may be abandoned instead.  An answer joins the queue behind what
is there, and is lost when the queue is full (`Deliver`): there is no second one.  The mapping takes the
requests queued or being sent (`Unanswered`) for the open ones, the inbound queue for
`answers` and `cancelled` for closed.  The return of tokens, the eviction of handlers and the
stopping of goroutines are stuttering steps.

### Routing table (`Include`, `Probe`, `Routing`)

`rt` is the table, a set; whether it has room for a node is a choice, for the table is a
library's.  `Take` and `Handle` are `Perform`, `Drain` is a `Perform` that finds an outbound
event waiting.  `told` and `missed` are history variables: the last notification about each
node, and the nodes whose `EventRoutingUpdated` was dropped.

### Upkeep (`Lookup`, `Upkeep`)

The table is `low` or not, and include and probe are `AdvanceTable` and `PollTable`, which
may do to it what `Routing` shows them doing.  `sched` has the ticks until each cpl's next
explore; of overdue entries only the order is kept (`Later`), which makes the state space
finite.  `taken` counts, up to two, how often each cpl was taken up.

### Publishes (`PublishJobs`, `Publish`)

A publish is a record with the fields of the Go structs, and `AdvanceStatic`,
`AdvanceFollowUp` and `AdvanceOptimistic` are their `Advance`, up to the instruction it returns
(`m.out`).  The query pool is a set of ids: an advance of it makes a request for any running
query, ends any of them, or waits, and this is told to whichever publish advanced it, as in the
code.  `Start`, `Stop`, `FindAnswer`, `StoreAnswer` and `Poll` are the events of the pool, each
with the walk over the other publishes in any order (`PollJobs`; the code ranges over a map).
`poll` is what the behaviour will do next: poll at once, when the due time it was given has
passed, or not by itself.  `StoreDropped` is an answer that finds the inbound queue full
(`publish.go:394`): the request is no longer in flight and the pool is never told.  Any number of
publishes may look for nodes at a time.

`asked`, `again`, `refused`, `lost` and `result` are history variables, and so is `mixed`: when the publish `j`
is told of the end of the query of `i`, both are in it from then on (`EndQuery`).  This is the defect of
section 6.  The properties are claimed of the others (`Own`), and say that it is the only way in which publishes
that share the pool disturb one another.
Nodes are their distances from the target, and the two thresholds of the optimistic publish are
constants.

### Surveys and regions (`PrefixTable`, `Survey`, `PublishBehaviour`)

The trie is the function from the prefixes of its leaves to their populations; `BuildLeaf` and
`MergeAt` are the recursion down into a region that is too large and the way back up past
regions that are sparse.  `Survey` keeps the order of due times as ranks and not the times:
`late` is the rank up to which regions have fallen due, `FallDue` the passing of time.  That an
entry rescheduled one interval on comes after all others is so in the code because no entry is
ever due later than one interval from now.  The coverage query ends with any set of nodes of its
region.

`Performed` is `Perform` with its six steps in order, each taken unless an earlier one returned an
event.  `regions`, `children` and `pool` are the maps of the same names, the pool's publishes being
static ones; the ids of children are derived from the region and the key as in the code, so that a
region that is surveyed again reuses them.  `Wake` stands for everything that callers' publishes
bring, `AnswerFind` and `AnswerStore` for the handlers' answers, and `Notify` for the inbound queue, which may
have no room for an answer at any time, since callers fill it too; `lost` has the store requests that
wait for an answer that was dropped, at most `MaxLost` at a time.

## 3. The runs

| run | size | checks | what it shows |
|---|---|---|---|
| `query` | 4 other nodes, 2 slots, 2 results, a region of 2; 33,000 states | `CountsExact`, `NothingCloserLeftOpen`, `MovesForward` | both stopping rules leave nothing nearer open that the query had heard of, and the bookkeeping is exact, under late, repeated and unasked-for answers |
| `query_pool` | 3 queries, room for 2, 2 other nodes; 36,000 | `EndsOnce`, `PoolConcurrencyRespected`, `WakesInTime`, `EveryQueryEnds` | the pool loses no query, respects its limit, never asks to be woken late, and deadlines alone end every query |
| `query_behaviour` | 2 calls of 2 requests, channel 1, queue 1; 167,000 | `NotifiersOpen`, `NobodyForgotten`, `TimerCoversPool`, `EveryCallReturns` | drops, refusals and impatient callers neither close a channel twice nor forget anyone; every call returns |
| `network` | 2 nodes, 4 requests, capacity 2 and 1 per node, queue 4 with other events in it; 204,000 | `SlotsAccounted`, `HandOverNeverBlocks`, `EvictedIsEmpty`, `LostOnlyToBursts`, `ImplementsService`, `EveryRequestCompletes`, `CloseReleasesAll` | capacity is conserved, answers alone never fill a queue larger than it, and the service promised is the one given |
| `routing` | 2 nodes, all capacities 1, queue 2; 1,500,000 | `OnePlace`, `MonitoredInTable`, `MembersMonitored`, `ClientsAgree`, `SleepsSoundly` | include, probe, table and clients stay consistent |
| `upkeep` | 2 cpls, 1 request per query, queue 2; 1,700,000 | `UpkeepSleepsSoundly` | at rest the timer covers everything that can fall due |
| `upkeep_clock` | 3 cpls, longer intervals, no answers | `FirstRoundFirst`, `DeadlinesKept`, `LowTableBootstraps`, `DueCplExplored` | the timer alone keeps both machines going; nothing comes from outside, so the table stays short, and what a removal by probe does is for `upkeep` to show |
| `publish` | 2 publishes of any kind in one query pool, 2 nodes, 1 request per query, answers dropped; 129,000 | `StoresAccounted`, `ResultSound`, `WalkHasQuery`, `RestsOnStores`, `AskedOnce`, `EveryPublishEnds` | publishes that share the query pool account for every node and end, unless one is told of the end of the other's query or an answer is dropped |
| `survey` | keys of 1 bit, 2 nodes, 2 provided keys, 2 nodes asked for each, up to 2 answers dropped; 247,000 | `SlotsAreFreed`, `RegionsKeepGoing`, `RunningSurveyWoken` | replaced publishes, splits, merges and dropped answers leave region publishes and pool consistent |
| `survey_liveness` | keys of 2 bits, 4 nodes, up to 4 regions; 22,000 | `DueRegionsTakenUp`, `RegionsTile`, `PopulationsBounded` | no region starves, and schedule and table agree, through splits and merges |
| `publish_idle` | as `publish` | violates `NeverIdle` | see section 6 |
| `survey_asleep` | keys of 1 bit | violates `SurveySleepsSoundly` | see section 6 |

**Why the bounds are enough.**  Each limit of the code (slots, concurrency, capacity, queue,
channel) is the smallest at which it can be both met and exceeded by what the instance
contains: three queries for a pool of two, four requests for a capacity of two, four nodes
for two slots and two results, so that a node lies on each side of the results and of the
region's boundary.  Intervals are one or two ticks, so that a deadline can be ahead, reached
and past.  Two nodes suffice for the routing table's properties, which relate a node to
itself and, through the shared slots, to one other.  What is bounded in the model and not in
the code is named: `MaxRequests`, `BootstrapRequests`, `ExploreRequests`, `SurveyRequests` (requests of
one query), `NodeSets` and `Node` (the nodes that may be found) and `MaxJitter`.  The safety properties of
all passing runs are also proved, for all sizes (section 4); liveness is what the bounds matter for.

`network` has a queue two longer than the capacity, so that one other event leaves room for every answer
and two do not.  In `publish` both publishes may look for nodes, each may be told of the end of the
other's query, and any store answer may be dropped.  The properties say nothing of a publish that was
mixed up with the other one; once both are, which is for good, the run goes no further (`SomeOwn` of
`MCPublish`).  Two publishes suffice for what one does to another; the theorems are about any number of
them.

Keys of two bits suffice for `survey_liveness`: there are up to four regions, of which any may be due
while others are split, merged or surveyed, so that one that comes back from a merge or a split is
scheduled ahead of several that wait.  It provides no keys, since the survey does not depend on them.
`survey` has the region publishes, with two keys of two nodes each, so that a region is replaced while
it has a key in flight and another to start, and both nodes of a key can lose their answer.  Its keys
are of one bit, so that a region is split and merged with publishes running.  The minimum population is
0 in both, so that of `PopulationsBounded` they exercise the maximum and not the bound on merged
regions; the theorem is about every minimum.

**Deadlock** is not checked where the system may stop: a finished query, an idle pool, a
closed coordinator, callers and publishes that have all ended.  `Routing`, `Upkeep` and
`PublishBehaviour` have a clock or callers that never stop, and deadlock is checked.

**Fairness.**

* The event loop and every goroutine are scheduled (weak fairness of `Perform`, `Poll`,
  `Take` and so on), and timers fire.  `Tick` is fair because time passes.
* Answers are fair (`Answer`, `RequestStep`) because a handler delivers an answer or a failure
  whenever the router returns; that the router does return from every call is an assumption about
  the client's code, on which the handler, which has no timeout of its own, relies too.  So does
  every publish for its store requests; what is fair there is that each is answered or its answer dropped
  (`StoreAnswered`, `AnswerStore`), and `EveryPublishEnds` claims nothing of a publish whose answer was
  dropped.  In `query_pool` nobody has to answer, and in `upkeep_clock` nobody does.
* `Network` has strong fairness of `Close`: the loop's `select` chooses at random among ready
  cases, so with the context cancelled it comes to that case although other work never ends.
* `QueryBehaviour` assumes of the pool (`PoolPromise`, strong fairness of an advance that ends a
  running query) what `EveryQueryEnds` of `query_pool` shows, and so does `Publish` (`QueryEnds`).
* `PollFair` of `QueryPool` and `PerformFair` of `PublishBehaviour` are weak fairness of `Poll` and
  `Perform` with the enabling condition written out: the action is enabled, and changes the state,
  exactly when the pool is to be polled now, or the behaviour is ready.
* `DueRegionsTakenUp` is conditional on the behaviour being woken again and again, which
  `survey_asleep` shows not to be certain.
* Nobody has to call, add, start, stop, close or send news.  `upkeep_clock` has no events from
  outside: a loop that is given an event that emits at every turn would never poll its children.

## 4. The proofs

Every safety property that a passing run checks is a theorem of the module that the run checks, for every
value of its constants that the assumptions below allow.  In each case TLC checked the inductive
invariant as an invariant of the run first.

| module | theorems | assumptions |
|---|---|---|
| `NetworkProofs` | `TypeCorrect`, `TokensAccounted`, `AnswersYieldToBursts`, `HandOver`, `EvictionSafe`, `Serial`, `Implements` (`Network` implements `RequestService`) | `NetworkAssumption` |
| `QueryProofs` | `TypeCorrect`, `CountsAreExact`, `NothingCloserIsLeftOpen`, `QueriesMoveForward` | `QueryAssumption` |
| `QueryPoolProofs` | `QueriesEndOnce`, `PoolWakesInTime`, `InFlightBounded`, `PoolConcurrencyKept` | `QueryAssumption`, `PoolAssumption`; the last one: the limit is not one |
| `QueryBehaviourProofs` | `TypeCorrect`, `NotifiersStayOpen`, `NobodyIsForgotten`, `TimerCovers` | `QueryBehaviourAssumption` |
| `RoutingProofs` | `NodesHaveOnePlace`, `MonitoredAreMembers`, `MembersAreMonitored`, `ClientsHearOfTheTable`, `SleepIsSound` | `CheckAssumption`, `IncludeAssumption`, `ProbeAssumption`, `RoutingAssumption` |
| `UpkeepProofs` | `UpkeepSleepIsSound`, `FirstRoundComesFirst` | `LookupAssumption`, `UpkeepAssumption` |
| `PublishBehaviourProofs` | `RegionsAlwaysTile`, `PopulationsAlwaysBounded`, `SlotsAreAlwaysFreed`, `RegionsAlwaysGoOn`, `RunningSurveyAlwaysWoken` | `PrefixTableAssumption`, `SurveyAssumption`, `PublishBehaviourAssumption` |
| `PublishProofs` | `AccountsHold`, `StoresAlwaysAccounted`, `AskedOnceAlways`, `ResultAlwaysSound`, `WalkAlwaysHasQuery`, `AlwaysRestsOnStores` | `PublishJobsAssumption` |

The assumptions say what the configurations' `Validate` methods ask for (positive limits and
intervals, a queue larger than the network's capacity) and that there are finitely many nodes and
activity ids.  TLC evaluates them in the runs.  An invariant is always proved in the same way: `Init`
implies the inductive invariant `IInv`, every action preserves it, and it implies the property.

### One query (`QueryProofs`)

`Sound` ties the counters to the states of the nodes: `inFlight` is the number of nodes that are
waiting, at most `Concurrency`, and `requests` is the sum of successes, failures and those in flight.
The first part of `QueryProofs` shows that each operator the actions are made of preserves it: the walk
(`WalkSound`), the events of a response and a failure, a cancel, and a tick of the clock.  The walk
is the hard one, since it marks a whole set of expired nodes at once, so that the counters change by a
cardinality.

That a query which has ended left nothing open that is nearer than its results is not in the history of
the query: the lemma `WalkFinal` shows it of the state in which the walk stops, from where it stopped,
and `IInv` keeps it since nothing moves afterwards.  A query that was cancelled is the exception.  It
does not make the result the best there is: the answer of a farther node, which may be outstanding at
the end, may name a nearer one that the query has not heard of.  `QueriesMoveForward` is an action
property: the state of each node only goes up in the order of `Stage`, and a finished query stays as it
is.

### The pool (`QueryPoolProofs`)

`IInv` adds to the soundness of each query:

* the list holds each id once, and holds an id exactly as long as it is in use and its caller has been
  told nothing (`Recorded`), which is what makes "once" inductive;
* beyond the reach of a round no query has a request out (`PlacedBut`, `Reach`);
* the queries on the list have not finished, and the timer is set no later than the first moment of any
  query within the limit (`Early`).

The second is the reason why the limit holds.  Nothing in `Pool.Advance` counts the queries that it does
not come to: the counter starts from zero in every call and the loop stops when it is full.  The limit
holds because a query that waits is always among the first `PoolConcurrency` of the slice, a fact about
every earlier round: queries are appended at the end, removal only moves a query forward, and a round
never polls beyond its reach.  The loop is summarised once, as a `Round` that has polled a set of
queries, and the five events are shown to keep the invariant through this summary.

The proof does not go through for a limit of one, and the property is false then: see section 6.
`InFlightBounded` is what holds for every pool, `PoolConcurrencyKept` what holds for the others.

### The query behaviour (`QueryBehaviourProofs`)

The three invariants need five more facts, which the code relies on without saying: a query is in the
pool exactly as long as it has a notifier (`PoolNotified`); the start of a query is queued once at most,
and only while the query is neither running nor ended (`StartsSound`); queued answers belong to requests
that were made (`AnswersSound`); nothing has happened to a call that was not made (`IdleUntouched`); and a
behaviour that has just emitted an event is ready (`EmittedReady`).  `Perform` is followed on the
record `m` of the behaviour's state, with `Ends` for what a step of it may do to the pool and to the
channels, and `Rests` for what it leaves when nothing was emitted.

### The routing table (`RoutingProofs`)

The five invariants are inductive with two more: a removal that waits in the outbound queue is of a
node that has not come back (`RemovedGone`), without which the last word to a client could be wrong, and an
event is taken only when the outbound queue is empty (`TakenAlone`).  Each operator of `Include` and
`Probe` has a lemma that says what it does to the lists and the table (`IncludeGood`, `ProbeGood`), the
behaviour's steps keep `Sane`, and a poll that emits nothing leaves both children `Quiet`: no check has
expired, no candidate waits with a slot free, and `due` is the first deadline.  `SleepIsSound` follows.
`MembersAreMonitored` is stated with `missed`, as the property is (section 6).

### Bootstrap and explore (`UpkeepProofs`)

The behaviour is followed through one `Perform` on the record `m` of its state.  A poll of a machine that
emits nothing leaves it calm (`BootstrapCalm`, `ExploreCalm`): its due time is the deadline of its query, or the
time at which it has something to do next, and nothing that is polled after it disturbs this without
leaving an event behind (`PollChildrenSound`), which is the case of the probe that removes a node after the
bootstrap has been polled.  The timer is set to the earlier of the two due times, and a tick brings both nearer
alike (`NextDueSound` for the schedule, whose next entry is chosen anew at each tick).

`FirstRoundFirst` is not inductive.  The invariant that implies it, `Ordered`, says that a cpl which
has not had its turn is ahead of every one that has had one, and that, once anything has been taken up,
it is due within one interval, while whatever is scheduled anew comes at least one interval later.  `LaterSound`
shows that the clock keeps the order of the schedule, overdue entries included, and `NextIsEarliest` that
the schedule always has a first entry, by the well-founded order of the natural numbers.

### Publishes (`PublishProofs`)

The invariant is stated against a *ledger*: for every publish its kind, the nodes it has asked to store,
those that did not, those it waits for, those whose answer was dropped and whether it was told to stop,
and the publishes that were mixed up.  `Book` is the ledger of a state.  The argument has three layers.

* **A publish.**  `Accountable` says that its sets agree with the ledger (`JobSound`) and that the event is one
  it expects; `Advanced`, that after the event they still do, but for the one request or the end that it
  reports (`Accounted`).  There is a lemma for each kind (`AdvanceStaticSound`, `AdvanceFollowUpSound`,
  `AdvanceOptimisticSound`), over lemmas for the query pool they share (`QueriesSound`).
* **The pool.**  `Outcome` says that the whole pool agrees with the ledger, but for what it reports.  The
  event is entered in the ledger (`Entered`) before the publish is advanced (`StepOutcome`); the polls of the
  others enter nothing.  Their walk is a recursive function over the number of polls, whose equations
  `PollJobsIsWalk` establishes, and `PollJobsSound` follows it by the first index at which the claim could
  fail: all publishes left behind without a due time rest, which is what `RestsOnStores` needs.
* **The behaviour.**  `ApplySound` shows that carrying out the report makes the variables agree with the ledger
  again, one publish at a time (`At`, `AtStore`, `AtFinish`, `AtUntouched`).

`IInv` was checked by TLC with three publishes that may all look for nodes; it is inductive for any number
(`AccountsAgree`), and nothing is assumed of how many of them do.  What holds the publishes apart is
`QueriesKept`, which every operator on the query pool is shown to keep (`QueriesSound`,
`StopQuerySound`): a publish that advances the pool leaves the query of another one as it is, or both
are in `mixed` afterwards, and nothing ever leaves `mixed`.  So the facts about the query of a publish
that is not mixed up (`OwnQuery`: it has one exactly while it looks for nodes; `Neat` for the whole
pool) survive whatever the others do, and the accounts of a follow-up publish, which is the one kind
whose accounts rest on its query, do too (`Held`).  The five theorems about the run's invariants are
about the publishes that are not mixed up, as the invariants are; of the mixed-up ones TLC finds each of
the five violated.

`AccountsHold` is about all static and optimistic publishes, mixed up or not: static publishes never touch the
shared pool, and an optimistic one adds the nodes of a query to those it has seen, so that even a query
that is not its own makes it ask no node twice.

### Surveys, regions and the prefix table (`PublishBehaviourProofs`)

*The table.*  `TableSound` says that every key is under one leaf and no other (`Tiles`) and that no leaf
of several keys is too large (`Populated`).  The parts that `buildLeaf` leaves of a region tile it
(`LeavesTile`): of the prefixes of a key that lie in the region, the shortest that is small enough is a
part, and the only one; that there is a shortest is the well-founded order of the natural numbers.  A
merge puts the parent of two siblings in their place, and a key is under the parent exactly when it is
under one of the two (`MergeAtSound`).  The merges on the way up are a recursive function over the
length of the prefix: `MergesDefined` establishes its equations, and `MergeUpSound` follows it by the
first merge that could break the table.

*The survey.*  `SurveySound` adds that the schedule, once there is one, has exactly the regions of the
table.  It is the table's own account of what it removed and added that keeps the two in step
(`ReconcileSound`), so `RegionsTile` is about both.

*The behaviour* is followed through one `Perform` on the record `m` of its state, with a lemma for each
of the six steps.  A region publish has a key to start or waits for one, and what it waits for are
publishes of its own (`RegionSound`); each node that a publish of the pool waits for has its request on
its way, its answer in the queue, or had its answer dropped (`Awaited`).  The successor of a region
publish that is replaced starts with no key in flight, while the predecessor's keys stay in the pool and
end under the same ids: neither fact is disturbed by that.  A `Perform` that returns no event leaves
every region waiting, the pool with nothing to ask (`Quiet`) and a running survey with a due time
(`Dated`), whatever its steps did before; that is `PerformedSound`.

### The network (`NetworkProofs`)

`NetworkProofs` proves `TypeOK`, `SlotsAccounted`, `LostOnlyToBursts`, `HandOverNeverBlocks`,
`EvictedIsEmpty` and `OneAtATime` as invariants of `Network!Spec`, for any set of nodes, any
finite set of requests and any capacities.  The only assumption is `NetworkAssumption`:
capacities are positive and the queue is larger than the network's capacity, which is what
`CoordinatorConfig.Validate` asks for.  TLC evaluates it in the run `network`.

The inductive invariant `IInv` is the conjunction of the type invariant, `SlotsAccounted`,
`EvictedIsEmpty`, `OneAtATime`, `LostOnlyToBursts` and two facts that are there for the induction:

* `QueuesSound`: a handler's queue holds distinct requests, in the stage `"queued"`, addressed
  to it.  Without it, `Take` and `Discard` could return tokens of a request that holds none,
  and the length of a queue could not be compared with the number of tokens.
* `AnswersBounded`: as long as fewer other events have joined, since the queue was last empty, than it
  has places beyond the capacity, the inbound queue and the answers still to come number at most
  `Capacity + 1` and those others, and one less between the behaviour's turn and the dispatch of what it
  emitted.  An answer is queued before its token is returned, but a behaviour emits at most one request
  for each event it takes, so a refusal, the one answer that needs no token, has room too.

The theorem is as good as the margin that is configured: with a queue one larger than the capacity,
which is what `Validate` asks for, one command of a caller is enough for an answer to be dropped.  The
comment at `coordinator.go:138` is about a queue that is no larger, and drops answers by itself; the
default leaves room for many.

There is one lemma per action (`PerformIInv`, `NotifyIInv`, `TakeIInv`, ...), lemmas about what a
request joining or leaving a set does to its cardinality (`Joins`, `Leaves`), and lemmas about
sequences without repetitions (`DistinctAppend`, `DistinctTail`).  `HandOverNeverBlocks` follows
from `IInv` by an injection from the positions of a queue into the requests that hold a token.

The last part proves `Implements`, that every behaviour of `Network!Spec` is one of
`RequestService` under the mapping of section 2.  Each action has a lemma (`PerformMaps`, `NotifyMaps`,
`SendMaps`, `TakeMaps`, `DiscardMaps`, `HiddenMaps`) that says which step of the service it is, or
that it is none.  Two facts make the mapping work: the token count, so that a request is accepted only
when fewer than `Capacity` are open, and `DrainAfterClose`, that requests are discarded only once the
coordinator has been cancelled, which is another inductive invariant.

### Only model-checked

* Liveness under fairness (`EveryQueryEnds`, `EveryRequestCompletes`, `CloseReleasesAll`, `EveryCallReturns`,
  `EveryPublishEnds`, `DeadlinesKept`, `LowTableBootstraps`, `DueCplExplored`, `DueRegionsTakenUp`), which
  is beyond the prover, as is `ENABLED`.

## 5. What is not modelled

* Network size estimate (`netsize/`): floating-point statistics, which TLC has no counterpart of.
* Key store: `KeysUnder` is an operator; `Add` and `Remove` swap the root of an immutable trie under
  a mutex, and the provided keys do not change during a run.
* The coordinator's publishing calls wait as its queries do, on the same notifiers and behind the same
  bounded queue: `QueryBehaviour` models both, and `Publish` and `PublishBehaviour` have of them only the
  answers that the queue drops.
* Telemetry, tracing, logging, configuration defaults, test support.
* The routing table (`go-libdht`'s trie) and the router are libraries: the first is a set with
  a choice of accepting, the second answers or fails in any order.
* In `QueryBehaviour` the number of results a call asks for, in `Upkeep` the cpl that a finished
  explore reports: no property of a run depends on them (but see section 6).

## 6. Where code and documents part

Two disagreements are runs:

* **`publish_idle`.**  All publishes share the pool's query pool, and `FollowUp.advancePool`
  (`publish/followup.go:285`) and `Optimistic.advancePool` (`publish/optimistic.go:429`) do not compare
  the id of a query that has ended with their own.  A publish that happens to advance the query pool
  when another's query ends takes that query's nodes for its own; the other, if a follow-up, has
  neither a query nor nodes, and is idle at every later poll.  "A [Pool] never observes this state"
  (`publish/publish.go:62`).
* **`survey_asleep`.**  When a survey ends in the poll of `Perform`, as the first does on a node that
  knows no other, `advanceSurvey` asks to be polled again (`publish.go:796`) and `advancePool`, next in
  the same `Perform`, withdraws it (`publish.go:676`).  Nothing is due, no timer is armed, and the node
  surveys no more until something notifies the behaviour: what the comment at `publish.go:377` is
  about.

Others met while modelling, which no run checks at present:

* `RoutingBehaviour.Notify` says of a dropped event that "the work it would have done is either
  retried or not needed" (`routing.go:539`).  `advanceInclude` tells probe of a new node through that
  queue (`routing.go:925`).  If callers fill the slot that the answer left, the event is dropped; the
  node is in the table, so it will not be a candidate again, and not in the probe's list, so news of
  it changes nothing: it is never monitored.  `MembersMonitored` holds for the nodes that were not
  `missed` in this way.
* `Contacted` of `StatePoolPublishFinished` is documented as the nodes that were asked to store the record
  (`publish/pool.go:328-331`).  A static publish that is stopped moves the nodes it has not asked to
  those that failed (`publish/static.go:131-146`), and reports them too.  `ResultSound` therefore claims
  of a publish that was stopped only that nothing is left out.
* `DrainPending` (`query.go:571`) shortens the pending progress only when it meets a full channel.
  When everything fits it returns with the slice as it was, and the same progress is sent again at
  the next `Perform` and at the end: a `QueryFunc` may be called twice for one response.

* A walk that stops at a waiting node because the slots are full does not reach expired nodes
  farther out, so `NextDue` may be a time that has passed (`query.go:349`; the comment at 472 calls it
  "when advancing the query would next mark a node unresponsive").
* With a pool concurrency of one, the event's own query is skipped before the test of the limit, and
  one other query is advanced: two wait at once (`query/pool.go:172`, documented at 29).  From two on
  the limit holds: queries in flight are among the first `Concurrency` of the slice, and the loop
  then stops within them.
* `NumResults` of a call is not passed on to the pool, which uses its default (`query.go:341`;
  `coordinator.go:459` says that it "specifies the minimum number of nodes to successfully contact").
* A request refused for want of capacity is reported as its node having no connectivity
  (`query.go:386`), and the routing behaviour then removes the node; probe and include, by contrast,
  take it that "nothing was learned about the node" (`routing/probe.go:415`).
* `EventRoutingRemoved` is emitted also for nodes that were never in the table
  (`routing/probe.go:241`; `event.go:270`).
* An explore that ends is always reported for cpl -1: `clearQuery` comes before the state that reads
  the field (`routing/explore.go:314`).

## 7. The plan

Done, in this order: the lookup, the network, the routing table and its upkeep, publishing with
surveys and regions, the abstract request service, and the proofs: of `Network`, among them that it
implements the service, of the lookup (query, pool, behaviour), of the routing table and its upkeep, of the
publishes, and of surveys, regions and the prefix table.

Next:

* An abstract pool with what `QueryBehaviour` and `Publish` assume of it (`PoolPromise`), and that `QueryPool`
  implements its safety part.
* That `Upkeep`'s abstract table (`AdvanceTable`, `PollTable`) does no less than what `Routing` does to it.
