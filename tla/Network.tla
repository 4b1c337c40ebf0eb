------------------------------ MODULE Network -------------------------------
(***************************************************************************)
(* network.go: the network behaviour, its node handlers and the capacity   *)
(* they share, with the two ends of a request around it: a behaviour that  *)
(* takes one event from its bounded inbound queue and emits at most one    *)
(* request each time the event loop runs it, as the query and the publish  *)
(* behaviour do (behaviour.go, query.go), and the coordinator's shutdown   *)
(* (coordinator.go, Close).  The inbound queue is shared: callers of the   *)
(* coordinator and the other behaviours put their events where the answers *)
(* go.                                                                     *)
(*                                                                         *)
(* The event loop and one goroutine per node handler run concurrently.     *)
(* The handler map's lock makes the hand-over of a request, the eviction   *)
(* of an idle handler and the removal of handlers on close atomic; the     *)
(* tokens a handler returns after a request are returned one by one,       *)
(* outside that lock.  A handler's timer and the router's answer may come  *)
(* at any moment.                                                          *)
(***************************************************************************)
EXTENDS Integers, Sequences, FiniteSets

CONSTANTS
  Peer,           \* the nodes requests are addressed to
  Request,        \* request identities, free again once the answer was taken
  Dest,           \* the node each request is addressed to
  Capacity,       \* NetworkConfig.Capacity
  NodeCapacity,   \* NetworkConfig.NodeCapacity
  QueueCapacity,  \* the requesting behaviour's QueueCapacity
  Other           \* an event of the behaviour's queue that is not an answer

\* CoordinatorConfig.Validate asks for a queue larger than the network's capacity.
ASSUME NetworkAssumption ==
  /\ IsFiniteSet(Request)
  /\ Dest \in [Request -> Peer]
  /\ Capacity \in Nat \ {0}
  /\ NodeCapacity \in Nat \ {0}
  /\ QueueCapacity \in Nat
  /\ QueueCapacity > Capacity
  /\ Other \notin Request

VARIABLES
  slots,      \* tokens held of NetworkBehaviour.slots
  nodeSlots,  \* tokens held of each handler's nodeSlots
  pending,    \* each handler's pending channel
  where,      \* how far each request has come
  handlers,   \* the nodes with a handler in nodeHandlers
  pc,         \* what each handler's goroutine is doing
  inbound,    \* the behaviour's inbound queue: requests that were answered, and others
  burst,      \* history: the others that joined since the queue was last empty
  lost,       \* history: whether an answer was dropped in that time
  cancelled,  \* the coordinator's context is done
  loop        \* what the event loop is doing

vars == <<slots, nodeSlots, pending, where, handlers, pc, inbound, burst, lost,
          cancelled, loop>>

\* A request is queued in its handler, being sent, sent with both of its tokens
\* still held, or sent with only the shared token still held.
Stage == {"free", "queued", "sending", "sent", "nodeReleased"}

\* A goroutine is not running, in its select, or handling a request.
HandlerPc == {"none", "select", "busy"}

\* The event loop is in its select, has run the behaviour and dispatches what it
\* emitted, or has ended, after which Coordinator.Close stops the handlers.
LoopPc == {"select", "dispatch", "closing"}

Init ==
  /\ slots = 0
  /\ nodeSlots = [n \in Peer |-> 0]
  /\ pending = [n \in Peer |-> <<>>]
  /\ where = [r \in Request |-> "free"]
  /\ handlers = {}
  /\ pc = [n \in Peer |-> "none"]
  /\ inbound = <<>>
  /\ burst = 0
  /\ lost = FALSE
  /\ cancelled = FALSE
  /\ loop = "select"

InQueue(r) == \E i \in 1..Len(inbound) : inbound[i] = r

-----------------------------------------------------------------------------
(* The event loop *)

\* Mutant: the behaviour emits without taking from its queue.
Taken_None(queue) == queue

\* performNextInbound takes the oldest event, if there is one.
Taken(queue) == IF queue = <<>> THEN queue ELSE Tail(queue)

\* The event loop runs the behaviour.
Perform ==
  /\ loop = "select"
  /\ inbound' = Taken(inbound)
  /\ IF inbound' = <<>> THEN burst' = 0 /\ lost' = FALSE ELSE UNCHANGED <<burst, lost>>
  /\ loop' = "dispatch"
  /\ UNCHANGED <<slots, nodeSlots, pending, where, handlers, pc, cancelled>>

\* The behaviour emitted no request.
EmitNothing ==
  /\ loop = "dispatch"
  /\ loop' = "select"
  /\ UNCHANGED <<slots, nodeSlots, pending, where, handlers, pc, inbound, burst, lost, cancelled>>

\* inboundQueue.enqueue: an answer that finds the queue full is dropped, whatever
\* fills it.
Enqueue(r) ==
  /\ IF Len(inbound) >= QueueCapacity
     THEN lost' = TRUE /\ UNCHANGED inbound
     ELSE inbound' = Append(inbound, r) /\ UNCHANGED lost
  /\ UNCHANGED burst

\* The places of the queue beyond the network's capacity, and where `burst` stops
\* counting.
Headroom == QueueCapacity - Capacity

\* A caller or another behaviour queues an event of its own.  One that is dropped
\* leaves nothing behind.
Submit ==
  /\ Len(inbound) < QueueCapacity
  /\ inbound' = Append(inbound, Other)
  /\ burst' = IF burst < Headroom THEN burst + 1 ELSE burst
  /\ UNCHANGED <<slots, nodeSlots, pending, where, handlers, pc, lost, cancelled, loop>>

\* Mutant: a handler's own capacity is not asked for.
HasCapacity_SharedOnly(n) == slots < Capacity

\* slots.acquire on the shared capacity and then on the handler's own.
HasCapacity(n) == slots < Capacity /\ nodeSlots[n] < NodeCapacity

\* NetworkBehaviour.Notify: the request is handed to its node's handler, which is
\* created if the node has none, and refused at once if there is no capacity.
Notify(r) ==
  LET n == Dest[r]
  IN  /\ loop = "dispatch"
      /\ where[r] = "free" /\ ~InQueue(r)
      /\ loop' = "select"
      /\ handlers' = handlers \cup {n}
      /\ pc' = IF n \in handlers THEN pc ELSE [pc EXCEPT ![n] = "select"]
      /\ \/ /\ HasCapacity(n)
            /\ slots' = slots + 1
            /\ nodeSlots' = [nodeSlots EXCEPT ![n] = @ + 1]
            /\ pending' = [pending EXCEPT ![n] = Append(@, r)]
            /\ where' = [where EXCEPT ![r] = "queued"]
            /\ UNCHANGED <<inbound, burst, lost>>
         \/ /\ ~HasCapacity(n)
            /\ Enqueue(r)
            /\ UNCHANGED <<slots, nodeSlots, pending, where>>
      /\ UNCHANGED cancelled

\* Coordinator.Close cancels the context at any moment...
Cancel ==
  /\ ~cancelled
  /\ cancelled' = TRUE
  /\ UNCHANGED <<slots, nodeSlots, pending, where, handlers, pc, inbound, burst, lost, loop>>

\* ...waits for the event loop to end, which it does at its select, and then
\* NetworkBehaviour.Close stops every handler and clears the map.
Close ==
  /\ cancelled
  /\ loop = "select"
  /\ loop' = "closing"
  /\ handlers' = {}
  /\ UNCHANGED <<slots, nodeSlots, pending, where, pc, inbound, burst, lost, cancelled>>

-----------------------------------------------------------------------------
(* The goroutine of the handler for n *)

\* A request whose context is done is not sent.
Take(n) ==
  /\ pc[n] = "select"
  /\ pending[n] # <<>>
  /\ pending' = [pending EXCEPT ![n] = Tail(@)]
  /\ where' = [where EXCEPT ![Head(pending[n])] = IF cancelled THEN "sent" ELSE "sending"]
  /\ pc' = [pc EXCEPT ![n] = "busy"]
  /\ UNCHANGED <<slots, nodeSlots, handlers, inbound, burst, lost, cancelled, loop>>

\* Mutant: a request that failed is not reported.
Send_Silent(r) ==
  /\ where[r] = "sending"
  /\ where' = [where EXCEPT ![r] = "sent"]
  /\ Enqueue(r) \/ UNCHANGED <<inbound, burst, lost>>
  /\ UNCHANGED <<slots, nodeSlots, pending, handlers, pc, cancelled, loop>>

\* The router answers or fails, and send queues the answer with the requester.
Send(r) ==
  /\ where[r] = "sending"
  /\ where' = [where EXCEPT ![r] = "sent"]
  /\ Enqueue(r)
  /\ UNCHANGED <<slots, nodeSlots, pending, handlers, pc, cancelled, loop>>

\* NodeHandler.release: the handler's own token goes back first.
ReleaseNode(r) ==
  /\ where[r] = "sent"
  /\ where' = [where EXCEPT ![r] = "nodeReleased"]
  /\ nodeSlots' = [nodeSlots EXCEPT ![Dest[r]] = @ - 1]
  /\ UNCHANGED <<slots, pending, handlers, pc, inbound, burst, lost, cancelled, loop>>

ReleaseShared(r) ==
  /\ where[r] = "nodeReleased"
  /\ where' = [where EXCEPT ![r] = "free"]
  /\ slots' = slots - 1
  /\ pc' = [pc EXCEPT ![Dest[r]] = "select"]
  /\ UNCHANGED <<nodeSlots, pending, handlers, inbound, burst, lost, cancelled, loop>>

\* Mutant: a handler that took on a request after its timer expired counts as idle.
Idle_Always(n) == TRUE

\* NodeHandler.idle
Idle(n) == nodeSlots[n] = 0

\* The idle timer fires and evictIdle removes the handler, whose goroutine ends.
Evict(n) ==
  /\ pc[n] = "select"
  /\ n \in handlers /\ Idle(n)
  /\ handlers' = handlers \ {n}
  /\ pc' = [pc EXCEPT ![n] = "none"]
  /\ UNCHANGED <<slots, nodeSlots, pending, where, inbound, burst, lost, cancelled, loop>>

-----------------------------------------------------------------------------
(* Stopping the handlers *)

\* Mutant: the requests are discarded without returning what they hold.
Discard_Unreleased(n) ==
  /\ loop = "closing"
  /\ pending[n] # <<>>
  /\ pending' = [pending EXCEPT ![n] = Tail(@)]
  /\ where' = [where EXCEPT ![Head(pending[n])] = "free"]
  /\ UNCHANGED <<slots, nodeSlots, handlers, pc, inbound, burst, lost, cancelled, loop>>

\* NodeHandler.Close discards the requests still queued, while the handler's own
\* goroutine may still be taking them.
Discard(n) ==
  /\ loop = "closing"
  /\ pending[n] # <<>>
  /\ pending' = [pending EXCEPT ![n] = Tail(@)]
  /\ where' = [where EXCEPT ![Head(pending[n])] = "free"]
  /\ nodeSlots' = [nodeSlots EXCEPT ![n] = @ - 1]
  /\ slots' = slots - 1
  /\ UNCHANGED <<handlers, pc, inbound, burst, lost, cancelled, loop>>

\* The goroutine sees that its handler was stopped.
Stop(n) ==
  /\ loop = "closing"
  /\ pc[n] = "select"
  /\ pc' = [pc EXCEPT ![n] = "none"]
  /\ UNCHANGED <<slots, nodeSlots, pending, where, handlers, inbound, burst, lost, cancelled, loop>>

-----------------------------------------------------------------------------
LoopStep == Perform \/ EmitNothing \/ (\E r \in Request : Notify(r))

HandlerStep(n) == Take(n) \/ Evict(n) \/ Discard(n) \/ Stop(n)

RequestStep(r) == Send(r) \/ ReleaseNode(r) \/ ReleaseShared(r)

Next ==
  \/ LoopStep \/ Submit \/ Cancel \/ Close
  \/ \E n \in Peer : HandlerStep(n)
  \/ \E r \in Request : RequestStep(r)

Spec == Init /\ [][Next]_vars

\* Goroutines are scheduled, the router returns from every call, the event loop
\* dispatches what it has, and its select, which picks at random among the ready
\* cases, does not overlook a cancelled context for ever.  Nothing obliges anyone
\* to close the coordinator, to emit a request, to queue another event or to leave
\* a handler idle.
FairSpec ==
  /\ Spec
  /\ WF_vars(EmitNothing) /\ SF_vars(Close)
  /\ \A n \in Peer : WF_vars(Take(n)) /\ WF_vars(Discard(n)) /\ WF_vars(Stop(n))
  /\ \A r \in Request : WF_vars(RequestStep(r))

-----------------------------------------------------------------------------
\* The values of the state.
TypeOK ==
  /\ slots \in 0..Capacity
  /\ nodeSlots \in [Peer -> 0..NodeCapacity]
  /\ pending \in [Peer -> Seq(Request)]
  /\ where \in [Request -> Stage]
  /\ handlers \in SUBSET Peer
  /\ pc \in [Peer -> HandlerPc]
  /\ inbound \in Seq(Request \cup {Other})
  /\ burst \in 0..Headroom
  /\ lost \in BOOLEAN
  /\ cancelled \in BOOLEAN
  /\ loop \in LoopPc

Holding == {r \in Request : where[r] # "free"}

HoldingNode(n) ==
  {r \in Request : Dest[r] = n /\ where[r] \in {"queued", "sending", "sent"}}

\* A request holds a shared token from acceptance until it has been sent or
\* discarded, and its handler's token until just before, whatever the order in
\* which the event loop, the handlers and Close take and return them.
SlotsAccounted ==
  /\ slots = Cardinality(Holding)
  /\ \A n \in Peer : nodeSlots[n] = Cardinality(HoldingNode(n))

\* "The send cannot block": an accepted request finds room in the handler's queue.
HandOverNeverBlocks == \A n \in Peer : Len(pending[n]) <= NodeCapacity

\* Eviction never strands a request: a handler that has left the map, before the
\* coordinator closes, has nothing queued and nothing in hand.
EvictedIsEmpty ==
  \A n \in Peer : loop # "closing" /\ n \notin handlers =>
    pending[n] = <<>> /\ HoldingNode(n) = {} /\ pc[n] = "none"

\* A handler sends one request at a time, and only while its goroutine runs.
Active(r) == where[r] \in {"sending", "sent", "nodeReleased"}

OneAtATime ==
  \A r \in Request : Active(r) =>
    /\ pc[Dest[r]] = "busy"
    /\ \A s \in Request : Active(s) /\ Dest[s] = Dest[r] => s = r

\* Answers are lost only to a burst of other events that takes up all the places the
\* queue has beyond the network's capacity, and only before the queue is empty again:
\* the answers alone never fill it, although each is queued before the capacity it
\* holds is released and that capacity may be taken again before the behaviour looks
\* at the answer.
LostOnlyToBursts == lost => burst >= Headroom

\* The requests taken on whose answer is still to come.
Unanswered == {r \in Request : where[r] \in {"queued", "sending"}}

Service ==
  INSTANCE RequestService WITH open <- Unanswered, answers <- inbound, closed <- cancelled

\* The handlers, their queues, their eviction and the drain on close keep the
\* promise of RequestService: while nobody closes the coordinator each request is
\* answered once, refused or not, or its answer finds the queue full of answers and
\* other events, and none is answered after it was discarded.
ImplementsService == Service!Spec

\* Every accepted request gives its capacity back, evictions and Close included.
EveryRequestCompletes == \A r \in Request : where[r] # "free" ~> where[r] = "free"

\* Once the coordinator is told to close, every goroutine ends and every token
\* comes back, although Close and the handler drain the same queue.
CloseReleasesAll ==
  cancelled ~> (slots = 0 /\ \A n \in Peer : pc[n] = "none" /\ nodeSlots[n] = 0)
=============================================================================
