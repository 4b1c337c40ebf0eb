------------------------------ MODULE Routing -------------------------------
(***************************************************************************)
(* routing.go: the routing behaviour, which drives the include and probe   *)
(* state machines over one routing table, with the bounded inbound queue   *)
(* and ready timer of behaviour.go and the event loop of coordinator.go    *)
(* that runs it.  Bootstrap and explore, its other children, reach include *)
(* and probe only through EventAddNode, which Hear delivers.               *)
(*                                                                         *)
(* The event loop performs and dispatches; node handlers and API callers   *)
(* put events into the inbound queue at any moment, also between the       *)
(* loop's taking of an event and the end of its handling.                  *)
(***************************************************************************)
EXTENDS Include, Probe

CONSTANTS
  QueueCapacity,    \* RoutingConfig.QueueCapacity
  NetworkCapacity,  \* NetworkConfig.Capacity
  News              \* the kinds of event API callers and other behaviours send

\* CoordinatorConfig.Validate asks for a queue larger than the network's capacity.
ASSUME RoutingAssumption ==
  /\ NetworkCapacity \in Nat \ {0}
  /\ QueueCapacity \in Nat
  /\ QueueCapacity > NetworkCapacity
  /\ News \subseteq {"AddNode", "Connected", "NotConnected"}

VARIABLES
  rt,        \* the nodes in the routing table
  include,   \* the include state machine
  probe,     \* the probe state machine
  due,       \* includeDue and probeDue
  inbound,   \* the inbound queue
  outbound,  \* pendingOutbound
  taken,     \* the events the loop has taken from inbound and is about to handle
  ready,     \* the ready channel holds a signal
  timer,     \* ticks until the ready timer fires
  net,       \* the number of requests in flight, by activity and node
  told,      \* the last routing notification about each node
  missed     \* nodes whose latest EventRoutingUpdated was dropped by the queue

vars == <<rt, include, probe, due, inbound, outbound, taken, ready, timer, net,
          told, missed>>

Activity == {"include", "probe"}

Event(kind, n) == [kind |-> kind, node |-> n]

\* The behaviour when a child's result has been applied: emitted holds the event
\* to return, if there is one.
Machine ==
  [rt |-> rt, include |-> include, probe |-> probe, due |-> due,
   inbound |-> inbound, outbound |-> outbound, missed |-> missed, emitted |-> <<>>]

Init ==
  /\ rt = {}
  /\ include = NewInclude
  /\ probe = NewProbe
  /\ due = [include |-> NoTime, probe |-> NoTime]
  /\ inbound = <<>>
  /\ outbound = <<>>
  /\ taken = <<>>
  /\ ready = TRUE
  /\ timer = NoTime
  /\ net = [x \in Activity \X Node |-> 0]
  /\ told = [n \in Node |-> "none"]
  /\ missed = {}

-----------------------------------------------------------------------------
(* The child state machines *)

\* inboundQueue.enqueue: an event that finds the queue full is dropped.
Enqueued(queue, ev) == IF Len(queue) >= QueueCapacity THEN queue ELSE Append(queue, ev)

\* RoutingBehaviour.Notify, called by the behaviour itself.
NotifySelf(m, ev) ==
  [m EXCEPT !.inbound = Enqueued(@, ev),
            !.missed = IF ev.kind # "Updated" THEN @
                       ELSE IF Len(m.inbound) >= QueueCapacity THEN @ \cup {ev.node}
                       ELSE @ \ {ev.node}]

\* Mutant: the other state machines are not told of a new node.
AdvanceInclude_Silent(m, res) ==
  LET n == [m EXCEPT !.rt = res.rt, !.include = res.in]
  IN  CASE res.kind = "Check"   -> [n EXCEPT !.emitted = <<Event("IncludeCheck", res.node)>>]
        [] res.kind = "Updated" -> [n EXCEPT !.emitted = <<Event("Updated", res.node)>>]
        [] res.kind = "Waiting" -> [n EXCEPT !.due.include = res.due]

\* advanceInclude, given what Include.Advance returned.
AdvanceInclude(m, res) ==
  LET n == [m EXCEPT !.rt = res.rt, !.include = res.in]
  IN  CASE res.kind = "Check"   -> [n EXCEPT !.emitted = <<Event("IncludeCheck", res.node)>>]
        [] res.kind = "Updated" -> [NotifySelf(n, Event("Updated", res.node)) EXCEPT
                                      !.emitted = <<Event("Updated", res.node)>>]
        [] res.kind = "Waiting" -> [n EXCEPT !.due.include = res.due]

\* Mutant: clients are not told that a node has been removed.
AdvanceProbe_Silent(m, res) ==
  LET n == [m EXCEPT !.rt = res.rt, !.probe = res.probe]
  IN  CASE res.kind = "Check"   -> [n EXCEPT !.emitted = <<Event("ProbeCheck", res.node)>>]
        [] res.kind = "Failure" -> NotifySelf(n, Event("AddNode", res.node))
        [] res.kind = "Waiting" -> [n EXCEPT !.due.probe = res.due]

\* advanceProbe, given what Probe.Advance returned.  A removed node is put forward
\* as a candidate again.
AdvanceProbe(m, res) ==
  LET n == [m EXCEPT !.rt = res.rt, !.probe = res.probe]
  IN  CASE res.kind = "Check"   -> [n EXCEPT !.emitted = <<Event("ProbeCheck", res.node)>>]
        [] res.kind = "Failure" -> NotifySelf([n EXCEPT !.outbound =
                                                 Append(@, Event("Removed", res.node))],
                                              Event("AddNode", res.node))
        [] res.kind = "Waiting" -> [n EXCEPT !.due.probe = res.due]

\* What a child emitted joins the outbound events.
Queued(m) == [m EXCEPT !.outbound = @ \o m.emitted, !.emitted = <<>>]

\* nextPendingOutbound.
PopOutbound(m) ==
  IF m.outbound = <<>> THEN m
  ELSE [m EXCEPT !.outbound = Tail(@), !.emitted = <<Head(m.outbound)>>]

\* pollChildren.
PollChildren(m) ==
  UNION {{Queued(AdvanceProbe(k, res)) : res \in ProbeWalk(k.probe, k.rt)} :
           k \in {Queued(AdvanceInclude(m, IncludeWalk(m.include, m.rt)))}}

-----------------------------------------------------------------------------
(* The event loop *)

\* performNextInbound, for one event.  accepts says whether the table has room for
\* the node: the table is a library's.
PerformInbound(m, ev, accepts) ==
  LET n == ev.node
      Inc(res)   == {AdvanceInclude(m, r) : r \in {res}}
      Prb(k, rs) == {AdvanceProbe(k, res) : res \in rs}
  IN  CASE ev.kind = "AddNode"       -> Inc(AddCandidate(m.include, m.rt, n))
        [] ev.kind = "IncludeOK"     -> Inc(CheckSuccess(m.include, m.rt, n, accepts))
        [] ev.kind \in {"IncludeFailed", "IncludeRefused"}
                                     -> Inc(CheckFailure(m.include, m.rt, n))
        [] ev.kind = "Updated"       -> Prb(m, ProbeAdd(m.probe, m.rt, n))
        [] ev.kind \in {"ProbeOK", "ProbeRefused"}
                                     -> Prb(m, ProbePutOff(m.probe, m.rt, n))
        [] ev.kind \in {"ProbeFailed", "NotConnected"}
                                     -> Prb(m, ProbeRemove(m.probe, m.rt, n))
        [] ev.kind = "Connected"     ->
             UNION {Prb(k, ProbePutOff(k.probe, k.rt, n)) :
                      k \in {Queued(AdvanceInclude(m, AddCandidate(m.include, m.rt, n)))}}

\* What the loop does with the event Perform returned: the network takes a request
\* or, with no capacity left for it, answers at once that it was refused, which it
\* may always do, for other behaviours use the same capacity; a notification goes
\* to the client.
Dispatch(m) ==
  LET ev == m.emitted[1]
      Request(act, refusal) ==
        /\ \/ /\ net' = [net EXCEPT ![<<act, ev.node>>] = @ + 1]
              /\ FoldFunction(+, 0, net) < NetworkCapacity
              /\ inbound' = m.inbound
           \/ /\ inbound' = Enqueued(m.inbound, Event(refusal, ev.node))
              /\ UNCHANGED net
        /\ UNCHANGED told
      Tell(what) ==
        /\ told' = [told EXCEPT ![ev.node] = what]
        /\ inbound' = m.inbound
        /\ UNCHANGED net
  IN  CASE ev.kind = "IncludeCheck" -> Request("include", "IncludeRefused")
        [] ev.kind = "ProbeCheck"   -> Request("probe", "ProbeRefused")
        [] ev.kind = "Updated"      -> Tell("added")
        [] ev.kind = "Removed"      -> Tell("removed")

\* updateReadyStatus, when no event was produced.
Rest(m) ==
  /\ inbound' = m.inbound
  /\ ready' = (ready \/ m.inbound # <<>>)
  /\ timer' = IF m.inbound # <<>> THEN timer ELSE Earliest({m.due.include, m.due.probe})
  /\ UNCHANGED <<net, told>>

\* updateReadyStatus, when Perform produced an event, and the event's dispatch.
GoOn(m) ==
  /\ ready' = TRUE
  /\ Dispatch(m)
  /\ UNCHANGED timer

\* The loop runs Perform, which finds an outbound event.
Drain ==
  /\ ready /\ taken = <<>> /\ outbound # <<>>
  /\ outbound' = Tail(outbound)
  /\ GoOn(PopOutbound(Machine))
  /\ UNCHANGED <<rt, include, probe, due, taken, missed>>

\* The loop runs Perform, which takes an event from the inbound queue, if any.
Take ==
  /\ ready /\ taken = <<>> /\ outbound = <<>>
  /\ ready' = FALSE
  /\ taken' = IF inbound = <<>> THEN <<Event("Nothing", NoNode)>> ELSE <<Head(inbound)>>
  /\ inbound' = IF inbound = <<>> THEN inbound ELSE Tail(inbound)
  /\ UNCHANGED <<rt, include, probe, due, outbound, timer, net, told, missed>>

\* The rest of that Perform: the event is handled and, when that produced no event,
\* every child is polled and the first outbound event returned.
Performed(m, ev, accepts) ==
  UNION {IF k.emitted # <<>> THEN {k} ELSE {PopOutbound(l) : l \in PollChildren(k)} :
           k \in IF ev.kind = "Nothing" THEN {m} ELSE PerformInbound(m, ev, accepts)}

Handle ==
  /\ taken # <<>>
  /\ \E accepts \in IF taken[1].kind = "IncludeOK" THEN BOOLEAN ELSE {FALSE} :
     \E m \in UNION {Performed(k, taken[1], accepts) : k \in {Machine}} :
       /\ rt' = m.rt
       /\ include' = m.include
       /\ probe' = m.probe
       /\ due' = m.due
       /\ outbound' = m.outbound
       /\ missed' = m.missed
       /\ IF m.emitted = <<>> THEN Rest(m) ELSE GoOn(m)
  /\ taken' = <<>>

-----------------------------------------------------------------------------
(* The other goroutines and the clock *)

\* RoutingBehaviour.Notify, called from another goroutine.
Notify(ev) ==
  /\ inbound' = Enqueued(inbound, ev)
  /\ ready' = (ready \/ Len(inbound) < QueueCapacity)

\* A node handler delivers the answer to a request, or its failure.  An answer that
\* names no closer node counts as a failure.
Answer(act, n) ==
  /\ net[act, n] > 0
  /\ net' = [net EXCEPT ![<<act, n>>] = @ - 1]
  /\ \E kind \in IF act = "include" THEN {"IncludeOK", "IncludeFailed"}
                 ELSE {"ProbeOK", "ProbeFailed"} : Notify(Event(kind, n))
  /\ UNCHANGED <<rt, include, probe, due, outbound, taken, timer, told, missed>>

\* Coordinator.AddNodes, NotifyConnectivity or NotifyNonConnectivity is called, or
\* a query, a publish, a bootstrap or an explore has heard of a node.
Hear(kind, n) ==
  /\ Notify(Event(kind, n))
  /\ UNCHANGED <<rt, include, probe, due, outbound, taken, timer, net, told, missed>>

\* The ready timer fires.
Fire ==
  /\ timer = 0
  /\ timer' = NoTime
  /\ ready' = TRUE
  /\ UNCHANGED <<rt, include, probe, due, inbound, outbound, taken, net, told, missed>>

Tick ==
  /\ include' = IncludeElapse(include)
  /\ probe' = ProbeElapse(probe)
  /\ due' = [c \in DOMAIN due |-> Nearing(due[c])]
  /\ timer' = Nearing(timer)
  /\ UNCHANGED <<rt, inbound, outbound, taken, ready, net, told, missed>>

Next ==
  \/ Drain \/ Take \/ Handle \/ Fire \/ Tick
  \/ \E n \in Node : \/ \E act \in Activity : Answer(act, n)
                     \/ \E kind \in News : Hear(kind, n)

Spec == Init /\ [][Next]_vars

-----------------------------------------------------------------------------
(* Properties *)

Time == Past..(IF CheckTimeout > CheckInterval THEN CheckTimeout ELSE CheckInterval)

EventKind == {"AddNode", "Connected", "NotConnected", "Updated", "IncludeOK",
              "IncludeFailed", "IncludeRefused", "ProbeOK", "ProbeFailed", "ProbeRefused"}

InboundEvent == [kind : EventKind, node : Node]

OutboundEvent == [kind : {"IncludeCheck", "ProbeCheck", "Removed"}, node : Node]

\* The state stays within its types.  Only a pair of checks of the two state
\* machines and removals wait in pendingOutbound, never an update.
TypeOK ==
  /\ rt \subseteq Node
  /\ include \in [candidates : Seq(Node), checks : [Node -> Time \cup {NoTime}]]
  /\ probe \in [Node -> [list : {"none", "pending", "ongoing"}, t : Time \cup {NoTime}]]
  /\ due \in [Activity -> Time \cup {NoTime}]
  /\ inbound \in Seq(InboundEvent) /\ Len(inbound) <= QueueCapacity
  /\ outbound \in Seq(OutboundEvent)
  /\ taken \in Seq(InboundEvent \cup {Event("Nothing", NoNode)}) /\ Len(taken) <= 1
  /\ ready \in BOOLEAN
  /\ timer \in Time \cup {NoTime}
  /\ net \in [Activity \X Node -> 0..NetworkCapacity]
  /\ told \in [Node -> {"none", "added", "removed"}]
  /\ missed \subseteq Node

\* A node is at most one of: a candidate, once, being vetted, or in the routing
\* table; whatever order news, answers and timeouts arrive in, include never vets a
\* node it has already accepted, or a node twice at a time.
OnePlace ==
  /\ IsInjective(include.candidates)
  /\ Candidates(include) \cap Checking(include) = {}
  /\ (Candidates(include) \cup Checking(include)) \cap rt = {}

\* A node that has left the table is no longer monitored: the probe's list and the
\* table it shares with include never part that way.
MonitoredInTable == Monitored(probe) \subseteq rt

\* The Updated event that will have the probe monitor n is on its way.
UpdateComing(n) == Event("Updated", n) \in ToSet(inbound \o taken)

\* Every node of the table is monitored, or the event that will have it monitored
\* is on its way, unless the inbound queue dropped that event.
MembersMonitored ==
  \A n \in rt \ missed : n \in Monitored(probe) \/ UpdateComing(n)

\* Once the removals waiting in pendingOutbound are delivered, the last
\* notification about a node says whether it is in the table.
ClientsAgree ==
  \A n \in Node : Event("Removed", n) \notin ToSet(outbound) => (told[n] = "added" <=> n \in rt)

Ahead(t) == IF t > 0 THEN t ELSE 0

\* At rest the behaviour has nothing left to do now: no event waits, a candidate
\* waits only for a running check and an overdue probe only for capacity; and the
\* timer fires no later than the first deadline a child machine is waiting for.
SleepsSoundly ==
  ~ready /\ taken = <<>> =>
    /\ inbound = <<>> /\ outbound = <<>>
    /\ include.candidates # <<>> => IncludeFull(include)
    /\ \A n \in Checking(include) : timer \in 0..Ahead(include.checks[n])
    /\ \A n \in Monitored(probe) :
         probe[n].list = "ongoing" \/ ~ProbeFull(probe) => timer \in 0..Ahead(probe[n].t)
=============================================================================
