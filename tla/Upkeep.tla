------------------------------- MODULE Upkeep -------------------------------
(***************************************************************************)
(* routing/bootstrap.go and routing/explore.go, the two state machines     *)
(* that find nodes for the routing table, as children of the routing       *)
(* behaviour (routing.go): when they run, when they run again, and what    *)
(* wakes the behaviour for them.  Of the table only its population counts, *)
(* low or not; Routing models the machines that fill and empty it, which   *)
(* act here through the table events and within a poll.                    *)
(***************************************************************************)
EXTENDS Lookup, Sequences, FiniteSets

CONSTANTS
  RetryInterval,    \* BootstrapConfig.RetryInterval, in ticks
  MaxCpl,           \* RoutingConfig.ExploreMaximumCpl
  ExploreInterval,  \* RoutingConfig.ExploreInterval, in ticks
  Multiplier,       \* RoutingConfig.ExploreIntervalMultiplier
  MaxJitter,        \* bound: the largest random addition to an interval, in ticks
  QueueCapacity,    \* RoutingConfig.QueueCapacity
  NetworkCapacity,  \* NetworkConfig.Capacity
  News,             \* the kinds of event that come from outside
  BootstrapRequests,  \* bound: the requests a bootstrap's query makes
  ExploreRequests     \* bound: the requests an explore's query makes

ASSUME UpkeepAssumption ==
  /\ RetryInterval \in Nat \ {0}
  /\ MaxCpl \in Nat \ {0}
  /\ ExploreInterval \in Nat \ {0}
  /\ Multiplier \in Nat \ {0}
  /\ MaxJitter \in Nat
  /\ NetworkCapacity \in Nat \ {0}
  /\ QueueCapacity \in Nat
  /\ QueueCapacity > NetworkCapacity
  /\ News \subseteq {"Start", "Table"}
  /\ BootstrapRequests \in Nat
  /\ ExploreRequests \in Nat

VARIABLES
  low,         \* the routing table holds fewer nodes than the minimum population
  bootstrap,   \* the bootstrap: its query and the ticks until it may retry
  explore,     \* the explore: its query and its schedule
  due,         \* bootstrapDue and exploreDue
  inbound,     \* the inbound queue
  outbound,    \* pendingOutbound
  ready,       \* the ready channel holds a signal
  timer,       \* ticks until the ready timer fires
  net,         \* the requests in flight of each machine
  taken        \* how often each cpl has been taken up for exploration, up to twice

vars == <<low, bootstrap, explore, due, inbound, outbound, ready, timer, net,
          taken>>

Cpl == 0..MaxCpl

\* NewDynamicExploreSchedule: the first round is spread over one interval.
FirstDue(cpl) == (ExploreInterval \div (MaxCpl + 1)) * (MaxCpl - cpl + 1)

\* cplInterval, with what the jitter adds.
CplInterval(cpl, jitter) ==
  ExploreInterval + ExploreInterval * (MaxCpl - cpl) * Multiplier + jitter

Init ==
  /\ low = TRUE
  /\ bootstrap = [qry |-> NoLookup, retry |-> NoTime]
  /\ explore = [qry |-> NoLookup, sched |-> [c \in Cpl |-> FirstDue(c)]]
  /\ due = [bootstrap |-> NoTime, explore |-> NoTime]
  /\ inbound = <<>> /\ outbound = <<>>
  /\ ready = TRUE
  /\ timer = NoTime
  /\ net = [bootstrap |-> 0, explore |-> 0]
  /\ taken = [c \in Cpl |-> 0]

\* The behaviour when a child's result has been applied: emitted holds the event
\* to return, if there is one.
Machine ==
  [low |-> low, bootstrap |-> bootstrap, explore |-> explore, due |-> due,
   inbound |-> inbound, outbound |-> outbound, emitted |-> <<>>,
   pollAgain |-> FALSE, taken |-> taken]

\* What a child emitted joins the outbound events.
Queued(m) == [m EXCEPT !.outbound = @ \o m.emitted, !.emitted = <<>>]

-----------------------------------------------------------------------------
(* Bootstrap *)

\* advanceBootstrap, given the result of the query's advance.
BootstrapResult(m, res) ==
  LET n == [m EXCEPT !.bootstrap.qry = res.qry]
  IN  CASE res.kind = "request" -> [n EXCEPT !.emitted = <<"BootstrapRequest">>]
        [] res.kind = "waiting" -> [n EXCEPT !.due.bootstrap = res.qry.left]
        [] res.kind \in {"finished", "timeout"} ->
             [n EXCEPT !.due.bootstrap = NoTime, !.emitted = <<"BootstrapFinished">>]

AdvanceBootstrapQuery(m) ==
  {BootstrapResult(m, res) : res \in AdvanceQuery(m.bootstrap.qry)}

\* startQuery.
StartBootstrap(m) ==
  UNION {AdvanceBootstrapQuery(n) :
           n \in {[m EXCEPT !.bootstrap.qry = NewLookup(BootstrapRequests),
                            !.bootstrap.retry = RetryInterval]}}

\* Mutant: an automatic bootstrap is tried only once.
PollBootstrap_Once(m) ==
  IF IsRunning(m.bootstrap.qry) THEN AdvanceBootstrapQuery(m)
  ELSE IF m.low /\ m.bootstrap.retry = NoTime THEN StartBootstrap(m)
  ELSE {[m EXCEPT !.due.bootstrap = IF m.low THEN m.bootstrap.retry ELSE NoTime]}

\* Bootstrap.Advance with a poll, or with an answer that comes too late.  NoTime
\* says that there has been no attempt.
PollBootstrap(m) ==
  IF IsRunning(m.bootstrap.qry) THEN AdvanceBootstrapQuery(m)
  ELSE IF m.low /\ m.bootstrap.retry <= 0 THEN StartBootstrap(m)
  ELSE {[m EXCEPT !.due.bootstrap = IF m.low THEN m.bootstrap.retry ELSE NoTime]}

\* Bootstrap.Advance with EventBootstrapStart.
RequestBootstrap(m) ==
  IF IsRunning(m.bootstrap.qry) THEN AdvanceBootstrapQuery(m) ELSE StartBootstrap(m)

-----------------------------------------------------------------------------
(* Explore *)

\* exploreList.Less: the entry at the head of the heap.
NextInSchedule(sched) ==
  CHOOSE c \in Cpl : \A d \in Cpl \ {c} :
    sched[c] < sched[d] \/ (sched[c] = sched[d] /\ c < d)

\* One tick of the clock for the schedule.  Of entries that are overdue only the
\* order counts, so they are kept at -1, -2 and so on.
Later(sched) ==
  LET overdue == {t \in {sched[c] : c \in Cpl} : t <= 0}
  IN  [c \in Cpl |-> IF sched[c] > 0 THEN sched[c] - 1
                     ELSE -Cardinality({t \in overdue : t >= sched[c]})]

\* NextDue, as the behaviour's ready timer takes it.
NextDue(sched) == LET t == sched[NextInSchedule(sched)] IN IF t < 0 THEN Past ELSE t

\* advanceQuery and advanceExplore, given the result of the query's advance.  The cpl
\* being explored is only logged and left out.
ExploreResult(m, res) ==
  LET n == [m EXCEPT !.explore.qry = res.qry]
  IN  CASE res.kind = "request" -> [n EXCEPT !.emitted = <<"ExploreRequest">>]
        [] res.kind = "waiting" -> [n EXCEPT !.due.explore = res.qry.left]
        [] res.kind \in {"finished", "timeout"} ->
             [n EXCEPT !.pollAgain = TRUE]

AdvanceExploreQuery(m) == {ExploreResult(m, res) : res \in AdvanceQuery(m.explore.qry)}

StartExplore(m) ==
  UNION {AdvanceExploreQuery(n) :
           n \in {[m EXCEPT !.explore.qry = NewLookup(ExploreRequests)]}}

\* Mutant: the cpl that is taken up keeps its place in the schedule.
Reschedule_Kept(m, c, jitter) ==
  [m EXCEPT !.taken[c] = IF @ < 2 THEN @ + 1 ELSE @]

\* NextCpl, when c is due: its next explore is scheduled.
Reschedule(m, c, jitter) ==
  [m EXCEPT !.explore.sched[c] = CplInterval(c, jitter),
            !.taken[c] = IF @ < 2 THEN @ + 1 ELSE @]

\* Explore.Advance with a poll, or with an answer that comes too late.  No node may
\* be found for the cpl, which then has to wait for its next turn.
PollExplore(m) ==
  LET c == NextInSchedule(m.explore.sched)
  IN  IF IsRunning(m.explore.qry) THEN AdvanceExploreQuery(m)
      ELSE IF m.explore.sched[c] > 0
      THEN {[m EXCEPT !.due.explore = NextDue(m.explore.sched)]}
      ELSE UNION {{[n EXCEPT !.pollAgain = TRUE]} \cup StartExplore(n) :
                    n \in {Reschedule(m, c, jitter) : jitter \in 0..MaxJitter}}

-----------------------------------------------------------------------------
(* The routing behaviour *)

\* inboundQueue.enqueue: an event that finds the queue full is dropped.
Enqueued(queue, ev) == IF Len(queue) >= QueueCapacity THEN queue ELSE Append(queue, ev)

\* nextPendingOutbound.
PopOutbound(m) ==
  IF m.outbound = <<>> THEN m
  ELSE [m EXCEPT !.outbound = Tail(@), !.emitted = <<Head(m.outbound)>>]

\* What include and probe may do when they are advanced for an event: nothing, emit
\* a request or the news of a node they added to the table, or remove a node from
\* it, the news of which joins the outbound events.
AdvanceTable(m) ==
  {m} \cup {[m EXCEPT !.low = b, !.emitted = <<"Notice">>] : b \in {m.low, FALSE}}
      \cup {[m EXCEPT !.low = b, !.outbound = Append(@, "Notice")] : b \in {m.low, TRUE}}

\* Mutant: the news of a removal is left out.
PollTable_Silent(m) == {m, [m EXCEPT !.low = TRUE]}

\* What the two may do when they are polled: time out a check, by which probe
\* removes the node.  Only the removal that leaves the table short matters here.
PollTable(m) ==
  {m} \cup {[n EXCEPT !.low = TRUE, !.outbound = Append(@, "Notice")] : n \in {k \in {m} : ~k.low}}

\* performNextInbound.  The nodes that a response names are put forward as candidates.
PerformInbound(m, ev) ==
  LET hears == {m, [m EXCEPT !.outbound = Append(@, "AddNode")]}
  IN  CASE ev = "Start"           -> RequestBootstrap(m)
        [] ev = "BootstrapAnswer" -> UNION {PollBootstrap(n) : n \in hears}
        [] ev = "ExploreAnswer"   -> UNION {PollExplore(n) : n \in hears}
        [] ev = "Table"           -> AdvanceTable(m)

\* pollChildren.
PollChildren(m) ==
  LET bootstrapped == {Queued(k) : k \in PollBootstrap([m EXCEPT !.pollAgain = FALSE])}
      vetted       == {Queued(k) : k \in UNION {PollTable(n) : n \in bootstrapped}}
  IN  {Queued(k) : k \in UNION {PollExplore(n) : n \in vetted}}

\* Perform.
Performed(m) ==
  IF m.outbound # <<>> THEN {PopOutbound(m)}
  ELSE UNION {IF k.emitted # <<>> THEN {k} ELSE {PopOutbound(l) : l \in PollChildren(k)} :
                k \in IF m.inbound = <<>> THEN {m}
                      ELSE UNION {PerformInbound(n, Head(m.inbound)) :
                                    n \in {[m EXCEPT !.inbound = Tail(@)]}}}

\* What the event loop does with the event that Perform returned: the network takes
\* a request or, with no capacity left, answers at once that it was refused; a node
\* to add comes back as an event; a notification goes to the client.
Dispatch(m) ==
  LET Request(act, answer) ==
        \/ /\ net.bootstrap + net.explore < NetworkCapacity
           /\ net' = [net EXCEPT ![act] = @ + 1]
           /\ inbound' = m.inbound
        \/ /\ inbound' = Enqueued(m.inbound, answer)
           /\ UNCHANGED net
  IN  CASE m.emitted[1] = "BootstrapRequest" -> Request("bootstrap", "BootstrapAnswer")
        [] m.emitted[1] = "ExploreRequest"   -> Request("explore", "ExploreAnswer")
        [] m.emitted[1] = "AddNode"          -> /\ inbound' = Enqueued(m.inbound, "Table")
                                                /\ UNCHANGED net
        [] m.emitted[1] \in {"BootstrapFinished", "Notice"} ->
             inbound' = m.inbound /\ UNCHANGED net

\* Perform, updateReadyStatus and the dispatch of the event.  Handling an event or
\* polling decides pollAgain anew.
Perform ==
  /\ ready
  /\ \E m \in UNION {Performed(n) : n \in {Machine}} :
       /\ low' = m.low
       /\ bootstrap' = m.bootstrap
       /\ explore' = m.explore
       /\ due' = m.due
       /\ outbound' = m.outbound
       /\ taken' = m.taken
       /\ IF m.emitted # <<>>
          THEN Dispatch(m) /\ ready' = TRUE /\ UNCHANGED timer
          ELSE /\ inbound' = m.inbound
               /\ ready' = (m.pollAgain \/ m.inbound # <<>>)
               /\ timer' = IF ready' THEN timer ELSE Earliest({m.due.bootstrap, m.due.explore})
               /\ UNCHANGED net

-----------------------------------------------------------------------------
(* The other goroutines and the clock *)

\* RoutingBehaviour.Notify, called from another goroutine.
Notify(ev) ==
  /\ inbound' = Enqueued(inbound, ev)
  /\ ready' = (ready \/ Len(inbound) < QueueCapacity)
  /\ UNCHANGED <<low, bootstrap, explore, due, outbound, timer, taken>>

\* A node handler delivers the answer to a request, or its failure.
Answer(act) ==
  /\ net[act] > 0
  /\ net' = [net EXCEPT ![act] = @ - 1]
  /\ Notify(IF act = "bootstrap" THEN "BootstrapAnswer" ELSE "ExploreAnswer")

\* A client asks for a bootstrap, or there is an event for include or probe.
Hear(ev) == Notify(ev) /\ UNCHANGED net

\* The ready timer fires.
Fire ==
  /\ timer \in {Past, 0}
  /\ timer' = NoTime
  /\ ready' = TRUE
  /\ UNCHANGED <<low, bootstrap, explore, due, inbound, outbound, net, taken>>

Tick ==
  /\ bootstrap' = [bootstrap EXCEPT !.qry.left = CountDown(@), !.retry = CountDown(@)]
  /\ explore' = [explore EXCEPT !.qry.left = CountDown(@), !.sched = Later(@)]
  /\ due' = [due EXCEPT !.bootstrap = CountDown(@), !.explore = CountDown(@)]
  /\ timer' = CountDown(timer)
  /\ UNCHANGED <<low, inbound, outbound, ready, net, taken>>

Next ==
  \/ Perform \/ Fire \/ Tick
  \/ \E act \in {"bootstrap", "explore"} : Answer(act)
  \/ \E ev \in News : Hear(ev)

Spec == Init /\ [][Next]_vars

\* The event loop keeps running, the timer fires, time passes, and a node handler
\* delivers every answer, or the timeout of its request, in the end.
FairSpec ==
  /\ Spec
  /\ WF_vars(Perform) /\ WF_vars(Fire) /\ WF_vars(Tick)
  /\ \A act \in {"bootstrap", "explore"} : WF_vars(Answer(act))
-----------------------------------------------------------------------------
(* Properties *)

Time(limit) == {NoTime} \cup Past..limit

LookupState(requests) == [left : Time(QueryTimeout), quota : 0..requests]

\* The state stays within its types and the queue within its capacity; overdue
\* entries of the schedule are at most as many as the cpls.
TypeOK ==
  /\ low \in BOOLEAN
  /\ bootstrap \in [qry : LookupState(BootstrapRequests), retry : Time(RetryInterval)]
  /\ explore.qry \in LookupState(ExploreRequests)
  /\ explore.sched \in [Cpl -> -(MaxCpl + 1)..CplInterval(0, MaxJitter)]
  /\ due.bootstrap \in Time(IF QueryTimeout > RetryInterval THEN QueryTimeout ELSE RetryInterval)
  /\ due.explore \in Time(CplInterval(0, MaxJitter) + QueryTimeout)
  /\ inbound \in Seq({"Start", "BootstrapAnswer", "ExploreAnswer", "Table"})
  /\ Len(inbound) <= QueueCapacity
  /\ outbound \in Seq({"BootstrapRequest", "BootstrapFinished", "ExploreRequest", "AddNode", "Notice"})
  /\ ready \in BOOLEAN
  /\ timer \in Time(CplInterval(0, MaxJitter) + QueryTimeout + RetryInterval)
  /\ net \in [{"bootstrap", "explore"} -> 0..NetworkCapacity]
  /\ taken \in [Cpl -> 0..2]

\* At rest the behaviour has nothing left to do now, and its timer fires no later
\* than the deadline of either query, the retry of a bootstrap that a short table
\* calls for, also when the table became short after the bootstrap had been polled,
\* and the next explore.
UpkeepSleepsSoundly ==
  ~ready =>
    /\ inbound = <<>> /\ outbound = <<>>
    /\ IF IsRunning(bootstrap.qry) THEN timer \in Past..bootstrap.qry.left
       ELSE low => timer \in Past..bootstrap.retry
    /\ IF IsRunning(explore.qry) THEN timer \in Past..explore.qry.left
       ELSE timer \in Past..NextDue(explore.sched)

\* Every cpl is taken up once before any is taken up twice, however long the
\* explores take and however late the loop runs.
FirstRoundFirst ==
  (\E c \in Cpl : taken[c] > 1) => (\A c \in Cpl : taken[c] > 0)

\* A query whose deadline has passed is ended, though every answer to it may have
\* been lost.
DeadlinesKept ==
  /\ bootstrap.qry.left = Past ~> bootstrap.qry.left # Past
  /\ explore.qry.left = Past ~> explore.qry.left # Past

\* A routing table that stays short of nodes is bootstrapped again and again, each
\* time once the retry interval has passed.
LowTableBootstraps ==
  (low /\ ~IsRunning(bootstrap.qry) /\ bootstrap.retry <= 0)
    ~> (~low \/ IsRunning(bootstrap.qry) \/ bootstrap.retry > 0)

\* Every cpl whose explore has fallen due is taken up in the end, though the explore
\* runs one query at a time.
DueCplExplored == \A c \in Cpl : explore.sched[c] <= 0 ~> explore.sched[c] > 0
=============================================================================
