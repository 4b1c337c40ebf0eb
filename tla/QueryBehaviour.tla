--------------------------- MODULE QueryBehaviour ---------------------------
(***************************************************************************)
(* query.go and the callers of coordinator.go (QueryClosest, QueryMessage, *)
(* waitForQuery): how a call becomes a query, how its progress and its end *)
(* reach the caller, and what a full inbound queue does to that.           *)
(*                                                                         *)
(* The pool is abstract here: an advance may make a request for a running  *)
(* query, end one, or wait, and PoolPromise says of it what QueryPool      *)
(* shows: a pool that is polled ends every query.  The network may answer, *)
(* fail or refuse every request.  The event loop, each caller and the      *)
(* network run concurrently.                                               *)
(***************************************************************************)
EXTENDS Integers, Sequences, FiniteSets, SequencesExt

CONSTANTS
  Query,              \* the calls, by the activity id of their query
  MaxRequests,        \* bound: the requests a query makes
  ChannelCapacity,    \* the capacity of a waiter's progressed channel
  QueueCapacity       \* QueryConfig.QueueCapacity

ASSUME QueryBehaviourAssumption ==
  /\ Query \subseteq Nat /\ IsFiniteSet(Query)
  /\ MaxRequests \in Nat
  /\ ChannelCapacity \in Nat \ {0}
  /\ QueueCapacity \in Nat \ {0}

VARIABLES
  caller,      \* what each caller is doing
  inbound,     \* the inbound queue
  outbound,    \* pendingOutbound
  emitted,     \* the event the loop has been given and is about to dispatch
  pool,        \* the running queries
  sent,        \* the number of requests each query has made
  net,         \* the requests the network accepted and has not answered
  notifiers,   \* the queries with a notifier
  pending,     \* each notifier's pending progress
  progressed,  \* each waiter's progressed channel
  finished,    \* each waiter's finished channel, which is closed once it is written
  ready,       \* the ready channel holds a signal
  nextDue,     \* the pool's last report had a due time in it
  armed        \* the ready timer is armed

vars == <<caller, inbound, outbound, emitted, pool, sent, net, notifiers, pending,
          progressed, finished, ready, nextDue, armed>>

Response == 1..MaxRequests

Event(kind, q, k) == [kind |-> kind, query |-> q, response |-> k]

Init ==
  /\ caller = [q \in Query |-> "idle"]
  /\ inbound = <<>> /\ outbound = <<>> /\ emitted = <<>>
  /\ pool = {}
  /\ sent = [q \in Query |-> 0]
  /\ net = {}
  /\ notifiers = {}
  /\ pending = [q \in Query |-> <<>>]
  /\ progressed = [q \in Query |-> <<>>]
  /\ finished = [q \in Query |-> "open"]
  /\ ready = FALSE /\ nextDue = FALSE /\ armed = FALSE

-----------------------------------------------------------------------------
(* Notify *)

Full == Len(inbound) >= QueueCapacity

\* QueryBehaviour.Notify: an event that finds the queue full is dropped.
Enqueue(ev) ==
  /\ inbound' = IF Full THEN inbound ELSE Append(inbound, ev)
  /\ ready' = (ready \/ ~Full)

\* Mutant: the caller of a dropped operation is not told.
ReportDropped_Not(q) == UNCHANGED finished

\* reportDropped: the waiter of a query that will not start gets its terminal event.
ReportDropped(q) ==
  finished' = IF Full THEN [finished EXCEPT ![q] = "dropped"] ELSE finished

-----------------------------------------------------------------------------
(* The behaviour: operators on its state m during a Perform *)

Machine ==
  [pool |-> pool, sent |-> sent, outbound |-> outbound, emitted |-> <<>>,
   notifiers |-> notifiers, pending |-> pending, progressed |-> progressed,
   finished |-> finished, pollAgain |-> FALSE, nextDue |-> nextDue]

Room(m, q) == ChannelCapacity - Len(m.progressed[q])

\* queryNotifier.DrainPending: what fits is sent.  When everything fits the pending
\* progress is left as it is.
DrainPending(m, q) ==
  IF Len(m.pending[q]) <= Room(m, q)
  THEN [m EXCEPT !.progressed[q] = @ \o m.pending[q]]
  ELSE [m EXCEPT !.progressed[q] = @ \o SubSeq(m.pending[q], 1, Room(m, q)),
                 !.pending[q] = SubSeq(@, Room(m, q) + 1, Len(@))]

\* Every notifier is drained; the notifiers share nothing.
DrainAll(m) ==
  [m EXCEPT !.progressed = [q \in Query |-> IF q \in m.notifiers
                                            THEN DrainPending(m, q).progressed[q] ELSE @[q]],
            !.pending    = [q \in Query |-> IF q \in m.notifiers
                                            THEN DrainPending(m, q).pending[q] ELSE @[q]]]

\* TryNotifyProgressed.
TryNotifyProgressed(m, q, k) ==
  IF q \notin m.notifiers THEN m
  ELSE IF Room(m, q) > 0 THEN [m EXCEPT !.progressed[q] = Append(@, k)]
  ELSE [m EXCEPT !.pending[q] = Append(@, k)]

\* Mutant: the notifier of a query that has ended is kept.
NotifyQueryFinished_Kept(m, q) ==
  IF q \notin m.notifiers THEN m
  ELSE [DrainPending(m, q) EXCEPT !.finished[q] = "ended"]

\* notifyQueryFinished: both channels are closed and the notifier is released.
NotifyQueryFinished(m, q) ==
  IF q \notin m.notifiers THEN m
  ELSE [DrainPending(m, q) EXCEPT !.finished[q] = "ended",
                                  !.notifiers = @ \ {q},
                                  !.pending[q] = <<>>]

\* The pool removes a query that finished, timed out or was stopped.
EndQuery(m, q) ==
  [NotifyQueryFinished([m EXCEPT !.pool = @ \ {q}], q) EXCEPT !.pollAgain = TRUE]

\* The pool makes a request for a query.
SendRequest(m, q) ==
  [m EXCEPT !.sent[q] = @ + 1, !.emitted = <<Event("Request", q, m.sent[q] + 1)>>]

\* The pool waits; it has a due time as long as a query is running.
Wait(m) == [m EXCEPT !.pollAgain = FALSE, !.nextDue = m.pool # {}]

\* advancePool, for any event but the stop of a running query.
AdvancePool(m) ==
  {Wait(m)}
    \cup {EndQuery(m, q) : q \in m.pool}
    \cup {SendRequest(m, q) : q \in {r \in m.pool : m.sent[r] < MaxRequests}}

\* performNextInbound.
PerformInbound(m, ev) ==
  LET q == ev.query
      k == ev.response
  IN  CASE ev.kind = "Start" ->
             AdvancePool([m EXCEPT !.notifiers = @ \cup {q}, !.pool = @ \cup {q}])
        [] ev.kind = "Stop" ->
             IF q \in m.pool THEN {EndQuery(m, q)} ELSE AdvancePool(m)
        [] ev.kind = "Response" ->
             AdvancePool(TryNotifyProgressed([m EXCEPT !.outbound =
                           Append(@, Event("AddNode", q, k))], q, k))
        [] ev.kind = "Failed" ->
             AdvancePool([m EXCEPT !.outbound = Append(@, Event("NotConnected", q, k))])

\* nextPendingOutbound.
PopOutbound(m) ==
  IF m.outbound = <<>> THEN m
  ELSE [m EXCEPT !.outbound = Tail(@), !.emitted = <<Head(m.outbound)>>]

\* What a step makes of m, unless an earlier one has already emitted an event.
Unless(m, next) == IF m.emitted # <<>> THEN {m} ELSE next

\* Perform: pending progress, then an outbound event, then an inbound event, then
\* a poll of the pool, then an outbound event, up to the first that emits one.
Performed ==
  LET popped == {PopOutbound(DrainAll(Machine))}
      taken  == UNION {Unless(m, IF inbound = <<>> THEN {m}
                                 ELSE PerformInbound(m, Head(inbound))) : m \in popped}
      polled == UNION {Unless(m, AdvancePool(m)) : m \in taken}
  IN  UNION {Unless(m, {PopOutbound(m)}) : m \in polled}

-----------------------------------------------------------------------------
(* The event loop *)

\* Mutant: the end of a query does not make the behaviour ready again.
MoreToDo_NotPolled(m, queue) == m.emitted # <<>> \/ m.outbound # <<>> \/ queue # <<>>

\* updateReadyStatus: whether the behaviour is ready again at once.
MoreToDo(m, queue) ==
  m.emitted # <<>> \/ m.pollAgain \/ m.outbound # <<>> \/ queue # <<>>

\* The loop runs Perform.
Perform ==
  /\ ready /\ emitted = <<>>
  /\ inbound' = IF outbound # <<>> \/ inbound = <<>> THEN inbound ELSE Tail(inbound)
  /\ \E m \in Performed :
       /\ pool' = m.pool
       /\ sent' = m.sent
       /\ outbound' = m.outbound
       /\ emitted' = m.emitted
       /\ notifiers' = m.notifiers
       /\ pending' = m.pending
       /\ progressed' = m.progressed
       /\ finished' = m.finished
       /\ ready' = MoreToDo(m, inbound')
       /\ nextDue' = m.nextDue
       /\ armed' = IF MoreToDo(m, inbound') THEN armed ELSE m.nextDue
  /\ UNCHANGED <<caller, net>>

\* dispatchEvent: the network takes a request, or refuses it with a failure; the
\* other events go to the routing behaviour.
Dispatch ==
  LET ev == emitted[1]
  IN  /\ emitted # <<>>
      /\ emitted' = <<>>
      /\ \/ /\ ev.kind = "Request"
            /\ net' = net \cup {<<ev.query, ev.response>>}
            /\ UNCHANGED <<inbound, ready>>
         \/ /\ ev.kind = "Request"
            /\ Enqueue(Event("Failed", ev.query, ev.response))
            /\ UNCHANGED net
         \/ /\ ev.kind # "Request"
            /\ UNCHANGED <<inbound, ready, net>>
      /\ UNCHANGED <<caller, outbound, pool, sent, notifiers, pending, progressed, finished,
                     nextDue, armed>>

\* The ready timer fires.
Fire ==
  /\ armed
  /\ armed' = FALSE
  /\ ready' = TRUE
  /\ UNCHANGED <<caller, inbound, outbound, emitted, pool, sent, net, notifiers, pending,
                 progressed, finished, nextDue>>

\* A node handler delivers an answer or a failure.
Answer(q, k) ==
  /\ <<q, k>> \in net
  /\ net' = net \ {<<q, k>>}
  /\ \E kind \in {"Response", "Failed"} : Enqueue(Event(kind, q, k))
  /\ UNCHANGED <<caller, outbound, emitted, pool, sent, notifiers, pending, progressed,
                 finished, nextDue, armed>>

-----------------------------------------------------------------------------
(* The caller of the query q *)

\* QueryClosest or QueryMessage queues the start of its query and waits.  Queries
\* are named in the order in which they are started.
Call(q) ==
  /\ caller[q] = "idle"
  /\ \A earlier \in Query : earlier < q => caller[earlier] # "idle"
  /\ caller' = [caller EXCEPT ![q] = "waiting"]
  /\ Enqueue(Event("Start", q, 0))
  /\ ReportDropped(q)
  /\ UNCHANGED <<outbound, emitted, pool, sent, net, notifiers, pending, progressed,
                 nextDue, armed>>

Return(q) == caller' = [caller EXCEPT ![q] = "returned"]

\* waitForQuery receives progress and calls QueryFunc, an error of which stops the
\* query and ends the call; nothing is done about a stop that the queue drops.
Progress(q) ==
  /\ caller[q] = "waiting"
  /\ progressed[q] # <<>>
  /\ progressed' = [progressed EXCEPT ![q] = Tail(@)]
  /\ \/ UNCHANGED <<caller, inbound, ready>>
     \/ Enqueue(Event("Stop", q, 0)) /\ Return(q)
  /\ UNCHANGED <<outbound, emitted, pool, sent, net, notifiers, pending, finished, nextDue, armed>>

\* waitForQuery receives the terminal event, visits the progress still in the
\* channel, up to the first error of QueryFunc, and returns.
Finish(q) ==
  /\ caller[q] = "waiting"
  /\ finished[q] # "open"
  /\ \E i \in 0..Len(progressed[q]) :
       /\ i = 0 => progressed[q] = <<>>
       /\ progressed' = [progressed EXCEPT ![q] = SubSeq(@, i + 1, Len(@))]
  /\ Return(q)
  /\ UNCHANGED <<inbound, outbound, emitted, pool, sent, net, notifiers, pending,
                 finished, ready, nextDue, armed>>

\* The caller's context ends: the call returns and leaves its query running.
GiveUp(q) ==
  /\ caller[q] = "waiting"
  /\ Return(q)
  /\ UNCHANGED <<inbound, outbound, emitted, pool, sent, net, notifiers, pending,
                 progressed, finished, ready, nextDue, armed>>

-----------------------------------------------------------------------------
Next ==
  \/ Perform \/ Dispatch \/ Fire
  \/ \E q \in Query : \/ Call(q) \/ Progress(q) \/ Finish(q) \/ GiveUp(q)
                      \/ \E k \in Response : Answer(q, k)

Spec == Init /\ [][Next]_vars

\* QueryPool!EveryQueryEnds: a pool that is advanced again and again ends every
\* query it runs.
PoolPromise == \A q \in Query : SF_vars(Perform /\ q \in pool /\ q \notin pool')

\* The event loop keeps running, the timer fires, node handlers deliver every
\* answer in the end, and a waiting caller receives what there is to receive.
FairSpec ==
  /\ Spec
  /\ PoolPromise
  /\ WF_vars(Perform) /\ WF_vars(Dispatch) /\ WF_vars(Fire)
  /\ \A q \in Query : WF_vars(Progress(q) \/ Finish(q))
  /\ \A q \in Query, k \in Response : WF_vars(Answer(q, k))

-----------------------------------------------------------------------------
(* Properties *)

\* The state stays within its types and every queue and channel within its bounds.
TypeOK ==
  /\ caller \in [Query -> {"idle", "waiting", "returned"}]
  /\ inbound \in Seq([kind : {"Start", "Stop", "Response", "Failed"}, query : Query,
                      response : 0..MaxRequests])
  /\ Len(inbound) <= QueueCapacity
  /\ \A s \in {outbound, emitted} :
       s \in Seq([kind : {"Request", "AddNode", "NotConnected"}, query : Query,
                  response : Response])
  /\ Len(emitted) <= 1
  /\ pool \subseteq Query
  /\ sent \in [Query -> 0..MaxRequests]
  /\ net \subseteq Query \X Response
  /\ notifiers \subseteq Query
  /\ pending \in [Query -> Seq(Response)]
  /\ progressed \in [Query -> Seq(Response)]
  /\ \A q \in Query : Len(progressed[q]) <= ChannelCapacity
  /\ finished \in [Query -> {"open", "ended", "dropped"}]
  /\ {ready, nextDue, armed} \subseteq BOOLEAN

\* A notifier's channels are open and its query is running, so that nothing is ever
\* sent on a closed channel, no channel is closed twice, and no notifier outlives
\* its query.
NotifiersOpen == \A q \in notifiers : finished[q] = "open" /\ q \in pool

\* A caller that waits is not forgotten: its start is queued, its query is running
\* with a notifier, or its terminal event is in the channel.
NobodyForgotten ==
  \A q \in Query : caller[q] = "waiting" =>
    \/ Event("Start", q, 0) \in ToSet(inbound)
    \/ q \in notifiers
    \/ finished[q] # "open"

\* At rest with a query running, the timer will run the behaviour again.
TimerCoversPool ==
  pool # {} => armed \/ ready \/ emitted # <<>>

\* Every call returns, although its start may be dropped, its requests refused and
\* their answers dropped.
EveryCallReturns == \A q \in Query : caller[q] = "waiting" ~> caller[q] = "returned"
=============================================================================
