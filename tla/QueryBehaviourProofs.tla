------------------------ MODULE QueryBehaviourProofs ------------------------
(***************************************************************************)
(* Proofs about QueryBehaviour, for any finite number of calls and any     *)
(* capacities.                                                             *)
(*                                                                         *)
(* The three invariants the run checks are not inductive one by one.  IInv *)
(* joins them with what the code relies on without saying so: a query is   *)
(* running exactly as long as it has a notifier (PoolNotified), the start  *)
(* of a query is queued at most once and only before the query exists      *)
(* (StartsSound), nothing has happened to the query of a caller that has   *)
(* not called yet (IdleUntouched), and a behaviour that emitted an event   *)
(* is ready again (EmittedReady).                                          *)
(***************************************************************************)
EXTENDS QueryBehaviour, SequenceTheorems, TLAPS

InEvent == [kind : {"Start", "Stop", "Response", "Failed"}, query : Query,
            response : 0..MaxRequests]

OutEvent == [kind : {"Request", "AddNode", "NotConnected"}, query : Query,
             response : Response]

PoolNotified == pool = notifiers

StartsSound ==
  \A i \in 1..Len(inbound) : inbound[i].kind = "Start" =>
    LET q == inbound[i].query
    IN  /\ inbound[i].response = 0
        /\ caller[q] # "idle" /\ q \notin pool /\ finished[q] = "open"
        /\ \A j \in 1..Len(inbound) :
             inbound[j].kind = "Start" /\ inbound[j].query = q => j = i

AnswersSound ==
  \A i \in 1..Len(inbound) :
    inbound[i].kind \in {"Response", "Failed"} => inbound[i].response \in Response

IdleUntouched ==
  \A q \in Query : caller[q] = "idle" => finished[q] = "open" /\ q \notin pool

EmittedReady == emitted # <<>> => ready

IInv ==
  /\ TypeOK
  /\ NotifiersOpen
  /\ NobodyForgotten
  /\ TimerCoversPool
  /\ PoolNotified
  /\ StartsSound
  /\ AnswersSound
  /\ IdleUntouched
  /\ EmittedReady
-----------------------------------------------------------------------------
(* The behaviour's state during a Perform *)

MachineType ==
  [pool : SUBSET Query, sent : [Query -> 0..MaxRequests], outbound : Seq(OutEvent),
   emitted : Seq(OutEvent), notifiers : SUBSET Query, pending : [Query -> Seq(Response)],
   progressed : [Query -> Seq(Response)], finished : [Query -> {"open", "ended", "dropped"}],
   pollAgain : BOOLEAN, nextDue : BOOLEAN]

Sound(m) ==
  /\ m \in MachineType
  /\ Len(m.emitted) <= 1
  /\ \A q \in Query : Len(m.progressed[q]) <= ChannelCapacity
  /\ m.pool = m.notifiers
  /\ \A q \in m.pool : m.finished[q] = "open"

\* From running, the queries of the pool, to k: queries only end, and the waiter of
\* exactly the ones that do gets its terminal event.
Ends(running, done, k) ==
  /\ k.pool \subseteq running
  /\ \A q \in Query : k.finished[q] = IF q \in running \ k.pool THEN "ended" ELSE done[q]

\* An advance that leaves the behaviour with nothing to do has armed it for the rest.
Rests(k) == k.emitted = <<>> /\ ~k.pollAgain => k.nextDue = (k.pool # {})

SameFields(m, k) ==
  /\ k.pool = m.pool /\ k.notifiers = m.notifiers /\ k.finished = m.finished
  /\ k.outbound = m.outbound /\ k.emitted = m.emitted

\* The queues of progress are replaced by others that keep to the channels' capacity.
LEMMA ProgressReplaced ==
  ASSUME NEW m, Sound(m), NEW pr \in [Query -> Seq(Response)],
         NEW pe \in [Query -> Seq(Response)],
         \A q \in Query : Len(pr[q]) <= ChannelCapacity,
         NEW k, k = [m EXCEPT !.progressed = pr, !.pending = pe]
  PROVE  Sound(k) /\ SameFields(m, k)
<1>1. k \in MachineType /\ k.progressed = pr /\ SameFields(m, k)
  BY DEF Sound, MachineType, SameFields
<1>2. Sound(k)
  BY <1>1 DEF Sound, SameFields
<1> QED
  BY <1>1, <1>2

\* What queryNotifier.DrainPending leaves behind: the channel is never overfilled,
\* and nothing but the two queues of progress changes.
LEMMA DrainPendingSound ==
  ASSUME NEW m, Sound(m), NEW q \in Query
  PROVE  /\ Sound(DrainPending(m, q))
         /\ SameFields(m, DrainPending(m, q))
<1> DEFINE p == m.pending[q]
           c == m.progressed[q]
           r == Room(m, q)
<1>1. p \in Seq(Response) /\ c \in Seq(Response) /\ Len(c) <= ChannelCapacity
  BY DEF Sound, MachineType
<1>2. r \in Nat /\ r = ChannelCapacity - Len(c)
  BY <1>1, QueryBehaviourAssumption DEF Room
<1>3. CASE Len(p) <= r
  <2> DEFINE c2 == c \o p
  <2>0. c2 \in Seq(Response) /\ Len(c2) = Len(c) + Len(p)
    BY <1>1, ConcatProperties, Zenon
  <2> HIDE DEF c2
  <2>1. c2 \in Seq(Response) /\ Len(c2) <= ChannelCapacity
    <3> HIDE DEF c, p, r
    <3> QED
      BY <1>1, <1>2, <1>3, <2>0, QueryBehaviourAssumption
  <2> DEFINE pr == [m.progressed EXCEPT ![q] = c2]
  <2>2. DrainPending(m, q) = [m EXCEPT !.progressed = pr, !.pending = m.pending]
    BY <1>3 DEF DrainPending, Sound, MachineType, c2
  <2>3. /\ pr \in [Query -> Seq(Response)] /\ \A x \in Query : Len(pr[x]) <= ChannelCapacity
        /\ m.pending \in [Query -> Seq(Response)]
    BY <2>1 DEF Sound, MachineType
  <2> HIDE DEF pr
  <2> QED
    BY <2>2, <2>3, ProgressReplaced
<1>4. CASE ~(Len(p) <= r)
  <2> DEFINE c2 == c \o SubSeq(p, 1, r)
             p2 == SubSeq(p, r + 1, Len(p))
  <2>1. SubSeq(p, 1, r) \in Seq(Response) /\ Len(SubSeq(p, 1, r)) = r
    BY <1>1, <1>2, <1>4
  <2>0. c2 \in Seq(Response) /\ Len(c2) = Len(c) + Len(SubSeq(p, 1, r))
    BY <1>1, <2>1, ConcatProperties, Zenon
  <2>2. c2 \in Seq(Response) /\ Len(c2) <= ChannelCapacity
    <3> DEFINE p1 == SubSeq(p, 1, r)
    <3> HIDE DEF c2, c, r, p1
    <3> QED
      BY <1>1, <1>2, <2>1, <2>0, QueryBehaviourAssumption DEF p1
  <2>3. p2 \in Seq(Response)
    BY <1>1, <1>2, <1>4
  <2> HIDE DEF c2, p2
  <2> DEFINE pr == [m.progressed EXCEPT ![q] = c2]
             pe == [m.pending EXCEPT ![q] = p2]
  <2>4. DrainPending(m, q) = [m EXCEPT !.progressed = pr, !.pending = pe]
    BY <1>4 DEF DrainPending, c2, p2
  <2>5. /\ pr \in [Query -> Seq(Response)] /\ \A x \in Query : Len(pr[x]) <= ChannelCapacity
        /\ pe \in [Query -> Seq(Response)]
    BY <2>2, <2>3 DEF Sound, MachineType
  <2> HIDE DEF pr, pe
  <2> QED
    BY <2>4, <2>5, ProgressReplaced
<1> QED
  BY <1>3, <1>4

\* Draining the pending progress of every notifier.
LEMMA DrainAllSound ==
  ASSUME NEW m, Sound(m)
  PROVE  /\ Sound(DrainAll(m))
         /\ SameFields(m, DrainAll(m))
<1> DEFINE pr == [q \in Query |-> IF q \in m.notifiers
                                  THEN DrainPending(m, q).progressed[q] ELSE m.progressed[q]]
           pe == [q \in Query |-> IF q \in m.notifiers
                                  THEN DrainPending(m, q).pending[q] ELSE m.pending[q]]
<1>1. \A q \in Query : Sound(DrainPending(m, q))
  BY DrainPendingSound
<1>2. pr \in [Query -> Seq(Response)] /\ pe \in [Query -> Seq(Response)]
  BY <1>1 DEF Sound, MachineType
<1>3. \A q \in Query : Len(pr[q]) <= ChannelCapacity
  BY <1>1 DEF Sound, MachineType
<1>4. DrainAll(m) = [m EXCEPT !.progressed = pr, !.pending = pe]
  BY DEF DrainAll
<1> HIDE DEF pr, pe
<1> QED
  BY <1>2, <1>3, <1>4, ProgressReplaced

\* notifyQueryFinished on a query that the pool has just removed.
LEMMA EndQuerySound ==
  ASSUME NEW m, Sound(m), NEW q \in m.pool
  PROVE  /\ Sound(EndQuery(m, q))
         /\ Ends(m.pool, m.finished, EndQuery(m, q))
         /\ EndQuery(m, q).pollAgain
         /\ EndQuery(m, q).emitted = m.emitted
<1> DEFINE k == [m EXCEPT !.pool = @ \ {q}]
           d == DrainPending(m, q)
<1>1. q \in Query /\ q \in m.notifiers
  BY DEF Sound, MachineType
<1>2. Sound(d) /\ d.pool = m.pool /\ d.finished = m.finished /\ d.emitted = m.emitted
               /\ d.notifiers = m.notifiers
  BY <1>1, DrainPendingSound DEF SameFields
<1>3. DrainPending(k, q) = [d EXCEPT !.pool = @ \ {q}]
  BY <1>1 DEF DrainPending, Room, Sound, MachineType
<1>4. /\ EndQuery(m, q) \in MachineType
      /\ EndQuery(m, q).pool = d.pool \ {q} /\ EndQuery(m, q).notifiers = d.notifiers \ {q}
      /\ EndQuery(m, q).finished = [d.finished EXCEPT ![q] = "ended"]
      /\ EndQuery(m, q).progressed = d.progressed
      /\ EndQuery(m, q).emitted = d.emitted /\ EndQuery(m, q).pollAgain
  <2> HIDE DEF d
  <2>1. q \in k.notifiers
    BY <1>1 DEF Sound, MachineType
  <2>2. EndQuery(m, q) = [[[d EXCEPT !.pool = @ \ {q}] EXCEPT !.finished[q] = "ended",
                              !.notifiers = @ \ {q}, !.pending[q] = <<>>]
                              EXCEPT !.pollAgain = TRUE]
    BY <2>1, <1>3 DEF EndQuery, NotifyQueryFinished
  <2> DEFINE fi == [d.finished EXCEPT ![q] = "ended"]
             pe == [d.pending EXCEPT ![q] = <<>>]
  <2>3. fi \in [Query -> {"open", "ended", "dropped"}] /\ pe \in [Query -> Seq(Response)]
    BY <1>1, <1>2 DEF Sound, MachineType
  <2>4. EndQuery(m, q) = [d EXCEPT !.pool = d.pool \ {q}, !.finished = fi,
                              !.notifiers = d.notifiers \ {q}, !.pending = pe,
                              !.pollAgain = TRUE]
    BY <2>2, <1>2 DEF Sound, MachineType
  <2> HIDE DEF fi, pe
  <2>5. d \in MachineType /\ d.pool \ {q} \in SUBSET Query /\ d.notifiers \ {q} \in SUBSET Query
    BY <1>2 DEF Sound, MachineType
  <2>6. EndQuery(m, q) \in MachineType
    BY <2>3, <2>4, <2>5 DEF MachineType
  <2>7. EndQuery(m, q).finished = fi
    BY <2>4, <2>5 DEF MachineType
  <2> QED
    BY <2>4, <2>5, <2>6, <2>7 DEF MachineType, fi
<1> HIDE DEF d, k
<1> DEFINE e == EndQuery(m, q)
<1> HIDE DEF e
<1>5. Len(e.emitted) <= 1 /\ e.emitted = m.emitted /\ e \in MachineType /\ e.pollAgain
  BY <1>2, <1>4, Zenon DEF Sound, e
<1>6. /\ e.pool = m.pool \ {q} /\ e.notifiers = m.notifiers \ {q}
      /\ e.finished = [m.finished EXCEPT ![q] = "ended"]
      /\ \A x \in Query : Len(e.progressed[x]) <= ChannelCapacity
  BY <1>2, <1>4 DEF Sound, e
<1>7. m.finished \in [Query -> {"open", "ended", "dropped"}] /\ m.pool = m.notifiers
      /\ \A x \in m.pool : m.finished[x] = "open"
  BY DEF Sound, MachineType
<1>8. Sound(e)
  BY <1>1, <1>5, <1>6, <1>7 DEF Sound, MachineType
<1>9. Ends(m.pool, m.finished, e)
  BY <1>1, <1>6, <1>7 DEF Ends
<1> QED
  BY <1>5, <1>8, <1>9 DEF e

\* The pool makes a request for a running query.
LEMMA SendRequestSound ==
  ASSUME NEW m, Sound(m), NEW q \in m.pool, m.sent[q] < MaxRequests
  PROVE  /\ Sound(SendRequest(m, q))
         /\ Ends(m.pool, m.finished, SendRequest(m, q))
         /\ SendRequest(m, q).emitted # <<>>
<1>1. q \in Query /\ m.sent[q] \in 0..MaxRequests /\ m.sent[q] + 1 \in Response
  BY QueryBehaviourAssumption DEF Sound, MachineType, Response
<1>2. Event("Request", q, m.sent[q] + 1) \in OutEvent
  BY <1>1 DEF Event, OutEvent
<1>3. m.sent[q] + 1 \in 0..MaxRequests
  BY <1>1 DEF Response
<1>4. SendRequest(m, q) = [m EXCEPT !.sent[q] = m.sent[q] + 1,
                                    !.emitted = <<Event("Request", q, m.sent[q] + 1)>>]
  BY DEF SendRequest
<1> DEFINE se == [m.sent EXCEPT ![q] = m.sent[q] + 1]
           em == <<Event("Request", q, m.sent[q] + 1)>>
<1>5. se \in [Query -> 0..MaxRequests] /\ em \in Seq(OutEvent) /\ Len(em) <= 1 /\ em # <<>>
  BY <1>1, <1>2, <1>3 DEF Sound, MachineType
<1>6. SendRequest(m, q) = [m EXCEPT !.sent = se, !.emitted = em]
  BY <1>4
<1> HIDE DEF se, em
<1> DEFINE k == SendRequest(m, q)
<1>7. /\ k \in MachineType /\ k.emitted = em /\ k.progressed = m.progressed
      /\ k.pool = m.pool /\ k.notifiers = m.notifiers /\ k.finished = m.finished
  BY <1>5, <1>6 DEF Sound, MachineType
<1> HIDE DEF k
<1>8. Sound(k) /\ Ends(m.pool, m.finished, k) /\ k.emitted # <<>>
  <2>1. Len(k.emitted) <= 1 /\ k.emitted # <<>>
    BY <1>5, <1>7, Zenon
  <2>2. Sound(k)
    BY <1>7, <2>1 DEF Sound
  <2> QED
    BY <1>7, <2>1, <2>2 DEF Ends
<1> QED
  BY <1>8 DEF k

\* The pool has nothing to do: it leaves a due time when a query runs.
LEMMA WaitSound ==
  ASSUME NEW m, Sound(m)
  PROVE  Sound(Wait(m)) /\ Ends(m.pool, m.finished, Wait(m)) /\ Rests(Wait(m))
BY DEF Wait, Sound, MachineType, Ends, Rests

\* advancePool, whatever the pool decides to do.
LEMMA AdvancePoolSound ==
  ASSUME NEW m, Sound(m), NEW k \in AdvancePool(m)
  PROVE  Sound(k) /\ Ends(m.pool, m.finished, k) /\ Rests(k)
<1>1. CASE k = Wait(m)
  BY <1>1, WaitSound
<1>2. ASSUME NEW q \in m.pool, k = EndQuery(m, q) PROVE Sound(k) /\ Ends(m.pool, m.finished, k) /\ Rests(k)
  BY <1>2, EndQuerySound DEF Rests
<1>3. ASSUME NEW q \in m.pool, m.sent[q] < MaxRequests, k = SendRequest(m, q)
      PROVE  Sound(k) /\ Ends(m.pool, m.finished, k) /\ Rests(k)
  BY <1>3, SendRequestSound DEF Rests
<1> QED
  BY <1>1, <1>2, <1>3 DEF AdvancePool

\* Two stretches of a Perform, one after the other.
LEMMA EndsTransitive ==
  ASSUME NEW run, NEW done, NEW m, NEW k, Ends(run, done, m), Ends(m.pool, m.finished, k)
  PROVE  Ends(run, done, k)
BY DEF Ends

\* Taking an event from the outbound queue.
LEMMA PopOutboundSound ==
  ASSUME NEW m, Sound(m)
  PROVE  /\ Sound(PopOutbound(m))
         /\ PopOutbound(m).pool = m.pool /\ PopOutbound(m).finished = m.finished
         /\ PopOutbound(m).emitted = <<>> => PopOutbound(m) = m
         /\ m.emitted = <<>> => (PopOutbound(m).emitted = <<>> <=> m.outbound = <<>>)
<1>1. CASE m.outbound = <<>>
  BY <1>1 DEF PopOutbound
<1>2. CASE m.outbound # <<>>
  <2>1. Head(m.outbound) \in OutEvent /\ Tail(m.outbound) \in Seq(OutEvent)
    BY <1>2 DEF Sound, MachineType
  <2>2. PopOutbound(m) = [m EXCEPT !.outbound = Tail(m.outbound), !.emitted = <<Head(m.outbound)>>]
    BY <1>2 DEF PopOutbound
  <2>3. <<Head(m.outbound)>> \in Seq(OutEvent) /\ Len(<<Head(m.outbound)>>) = 1
        /\ <<Head(m.outbound)>> # <<>>
    BY <2>1
  <2> DEFINE out == Tail(m.outbound)
             em  == <<Head(m.outbound)>>
  <2> HIDE DEF out, em
  <2>4. PopOutbound(m) = [m EXCEPT !.outbound = out, !.emitted = em]
    BY <2>2 DEF out, em
  <2>5. out \in Seq(OutEvent) /\ em \in Seq(OutEvent) /\ Len(em) <= 1 /\ em # <<>>
    BY <2>1, <2>3 DEF out, em
  <2> DEFINE k == PopOutbound(m)
  <2>6. /\ k \in MachineType /\ k.emitted = em /\ k.progressed = m.progressed
        /\ k.pool = m.pool /\ k.notifiers = m.notifiers /\ k.finished = m.finished
    BY <2>4, <2>5 DEF Sound, MachineType
  <2> HIDE DEF k
  <2>7. Len(k.emitted) <= 1 /\ k.emitted # <<>>
    BY <2>5, <2>6, Zenon
  <2>8. /\ Sound(k) /\ k.pool = m.pool /\ k.finished = m.finished /\ k.emitted # <<>>
    BY <2>6, <2>7 DEF Sound
  <2> QED
    BY <1>2, <2>8 DEF k
<1> QED
  BY <1>1, <1>2

\* A query joins the pool together with its notifier.
LEMMA StartSound ==
  ASSUME NEW m, Sound(m), NEW q \in Query, m.finished[q] = "open",
         NEW k, k = [m EXCEPT !.notifiers = @ \cup {q}, !.pool = @ \cup {q}]
  PROVE  Sound(k) /\ k.pool = m.pool \cup {q} /\ k.finished = m.finished
<1>1. /\ k \in MachineType /\ k.pool = m.pool \cup {q} /\ k.notifiers = m.notifiers \cup {q}
      /\ k.finished = m.finished /\ k.emitted = m.emitted /\ k.progressed = m.progressed
  BY DEF Sound, MachineType
<1>2. Len(k.emitted) <= 1
  BY <1>1, Zenon DEF Sound
<1> QED
  BY <1>1, <1>2 DEF Sound

\* Putting an event in the outbound queue.
LEMMA OutboundSound ==
  ASSUME NEW m, Sound(m), NEW ev \in OutEvent,
         NEW k, k = [m EXCEPT !.outbound = Append(@, ev)]
  PROVE  Sound(k) /\ k.pool = m.pool /\ k.finished = m.finished
<1> DEFINE out == Append(m.outbound, ev)
<1>1. out \in Seq(OutEvent) /\ k = [m EXCEPT !.outbound = out]
  BY DEF Sound, MachineType
<1> HIDE DEF out
<1>2. /\ k \in MachineType /\ k.pool = m.pool /\ k.notifiers = m.notifiers
      /\ k.finished = m.finished /\ k.emitted = m.emitted /\ k.progressed = m.progressed
  BY <1>1 DEF Sound, MachineType
<1>3. Len(k.emitted) <= 1
  BY <1>2, Zenon DEF Sound
<1> QED
  BY <1>2, <1>3 DEF Sound

\* TryNotifyProgressed keeps to the channel's capacity.
LEMMA TryNotifySound ==
  ASSUME NEW m, Sound(m), NEW q \in Query, NEW k \in Response
  PROVE  /\ Sound(TryNotifyProgressed(m, q, k))
         /\ TryNotifyProgressed(m, q, k).pool = m.pool
         /\ TryNotifyProgressed(m, q, k).finished = m.finished
<1>1. CASE q \notin m.notifiers
  BY <1>1 DEF TryNotifyProgressed
<1>2. CASE q \in m.notifiers /\ Room(m, q) > 0
  <2> DEFINE c  == Append(m.progressed[q], k)
             pr == [m.progressed EXCEPT ![q] = c]
  <2>1. c \in Seq(Response) /\ Len(c) <= ChannelCapacity
    <3>1. m.progressed[q] \in Seq(Response) /\ ChannelCapacity - Len(m.progressed[q]) > 0
      BY <1>2 DEF Sound, MachineType, Room
    <3> QED
      BY <3>1, QueryBehaviourAssumption
  <2>2. TryNotifyProgressed(m, q, k) = [m EXCEPT !.progressed = pr, !.pending = m.pending]
    BY <1>2 DEF TryNotifyProgressed, Sound, MachineType
  <2> HIDE DEF c
  <2>3. /\ pr \in [Query -> Seq(Response)] /\ \A x \in Query : Len(pr[x]) <= ChannelCapacity
        /\ m.pending \in [Query -> Seq(Response)]
    BY <2>1 DEF Sound, MachineType
  <2> HIDE DEF pr
  <2>9. Sound(TryNotifyProgressed(m, q, k)) /\ SameFields(m, TryNotifyProgressed(m, q, k))
    BY <2>2, <2>3, ProgressReplaced
  <2> QED
    BY <2>9 DEF SameFields
<1>3. CASE q \in m.notifiers /\ ~(Room(m, q) > 0)
  <2> DEFINE pe == [m.pending EXCEPT ![q] = Append(m.pending[q], k)]
  <2>1. TryNotifyProgressed(m, q, k) = [m EXCEPT !.progressed = m.progressed, !.pending = pe]
    BY <1>3 DEF TryNotifyProgressed, Sound, MachineType
  <2>2. /\ pe \in [Query -> Seq(Response)] /\ m.progressed \in [Query -> Seq(Response)]
        /\ \A x \in Query : Len(m.progressed[x]) <= ChannelCapacity
    BY DEF Sound, MachineType
  <2> HIDE DEF pe
  <2>9. Sound(TryNotifyProgressed(m, q, k)) /\ SameFields(m, TryNotifyProgressed(m, q, k))
    BY <2>1, <2>2, ProgressReplaced
  <2> QED
    BY <2>9 DEF SameFields
<1> QED
  BY <1>1, <1>2, <1>3

\* The query an inbound event starts.
StartedBy(ev) == IF ev.kind = "Start" THEN {ev.query} ELSE {}

\* performNextInbound.
LEMMA PerformInboundSound ==
  ASSUME NEW m, Sound(m), NEW ev \in InEvent, NEW k \in PerformInbound(m, ev),
         ev.kind = "Start" => m.finished[ev.query] = "open",
         ev.kind \in {"Response", "Failed"} => ev.response \in Response
  PROVE  Sound(k) /\ Ends(m.pool \cup StartedBy(ev), m.finished, k)
<1> DEFINE q == ev.query
<1>1. q \in Query /\ ev.kind \in {"Start", "Stop", "Response", "Failed"}
  BY DEF InEvent
<1>2. CASE ev.kind = "Start"
  <2> DEFINE n == [m EXCEPT !.notifiers = @ \cup {q}, !.pool = @ \cup {q}]
  <2>1. Sound(n) /\ n.pool = m.pool \cup {q} /\ n.finished = m.finished
    BY <1>1, <1>2, StartSound
  <2>2. k \in AdvancePool(n)
    BY <1>2 DEF PerformInbound
  <2>3. StartedBy(ev) = {q}
    BY <1>2 DEF StartedBy
  <2> HIDE DEF n
  <2> QED
    BY <2>1, <2>2, <2>3, AdvancePoolSound
<1>3. CASE ev.kind = "Stop"
  <2>1. StartedBy(ev) = {} /\ m.pool \cup StartedBy(ev) = m.pool
    BY <1>3 DEF StartedBy
  <2>2. CASE q \in m.pool
    <3>1. k = EndQuery(m, q)
      BY <1>3, <2>2 DEF PerformInbound
    <3> QED
      BY <2>1, <2>2, <3>1, EndQuerySound
  <2>3. CASE q \notin m.pool
    <3>1. k \in AdvancePool(m)
      BY <1>3, <2>3 DEF PerformInbound
    <3> QED
      BY <2>1, <3>1, AdvancePoolSound
  <2> QED
    BY <2>2, <2>3
<1>4. CASE ev.kind = "Response"
  <2> DEFINE n == [m EXCEPT !.outbound = Append(@, Event("AddNode", q, ev.response))]
             t == TryNotifyProgressed(n, q, ev.response)
  <2>1. StartedBy(ev) = {} /\ m.pool \cup StartedBy(ev) = m.pool
    BY <1>4 DEF StartedBy
  <2>2. Event("AddNode", q, ev.response) \in OutEvent
    BY <1>1, <1>4 DEF Event, OutEvent
  <2>3. Sound(n) /\ n.pool = m.pool /\ n.finished = m.finished
    BY <2>2, OutboundSound
  <2>4. k \in AdvancePool(t)
    BY <1>4 DEF PerformInbound
  <2> HIDE DEF n
  <2>5. Sound(t) /\ t.pool = m.pool /\ t.finished = m.finished
    BY <1>1, <1>4, <2>3, TryNotifySound
  <2> HIDE DEF t
  <2> QED
    BY <2>1, <2>4, <2>5, AdvancePoolSound
<1>5. CASE ev.kind = "Failed"
  <2> DEFINE n == [m EXCEPT !.outbound = Append(@, Event("NotConnected", q, ev.response))]
  <2>1. StartedBy(ev) = {} /\ m.pool \cup StartedBy(ev) = m.pool
    BY <1>5 DEF StartedBy
  <2>2. Event("NotConnected", q, ev.response) \in OutEvent
    BY <1>1, <1>5 DEF Event, OutEvent
  <2>3. Sound(n) /\ n.pool = m.pool /\ n.finished = m.finished
    BY <2>2, OutboundSound
  <2>4. k \in AdvancePool(n)
    BY <1>5 DEF PerformInbound
  <2> HIDE DEF n
  <2> QED
    BY <2>1, <2>3, <2>4, AdvancePoolSound
<1> QED
  BY <1>1, <1>2, <1>3, <1>4, <1>5

\* The query that Perform starts: the one whose start heads the queue, when Perform
\* gets as far as the queue.
Started ==
  IF outbound = <<>> /\ inbound # <<>> THEN StartedBy(Head(inbound)) ELSE {}

\* Perform starts from a sound state.
LEMMA MachineSound ==
  ASSUME IInv
  PROVE  /\ Sound(Machine) /\ Machine.pool = pool /\ Machine.finished = finished
         /\ Machine.emitted = <<>> /\ Machine.outbound = outbound
<1>1. Machine \in MachineType
  BY DEF IInv, TypeOK, Machine, MachineType, OutEvent
<1>2. /\ Machine.emitted = <<>> /\ Machine.pool = pool /\ Machine.notifiers = notifiers
      /\ Machine.finished = finished /\ Machine.progressed = progressed
      /\ Machine.outbound = outbound
  BY DEF Machine
<1>3. Len(Machine.emitted) <= 1
  BY <1>2
<1> QED
  BY <1>1, <1>2, <1>3 DEF Sound, IInv, TypeOK, NotifiersOpen, PoolNotified

\* The event that heads the inbound queue.
LEMMA HeadSound ==
  ASSUME IInv, inbound # <<>>
  PROVE  /\ Head(inbound) \in InEvent
         /\ Head(inbound).kind = "Start" => finished[Head(inbound).query] = "open"
         /\ Head(inbound).kind \in {"Response", "Failed"} => Head(inbound).response \in Response
<1>1. inbound \in Seq(InEvent) /\ 1 \in 1..Len(inbound) /\ Head(inbound) = inbound[1]
  BY DEF IInv, TypeOK, InEvent
<1> QED
  BY <1>1 DEF IInv, StartsSound, AnswersSound

\* A whole Perform: queries only end, beside the one that is started; the waiters of
\* those that end are told; and nothing is left to do only when the timer covers it.
LEMMA PerformedSound ==
  ASSUME IInv, NEW m \in Performed
  PROVE  Sound(m) /\ Ends(pool \cup Started, finished, m) /\ Rests(m)
<1> DEFINE d == DrainAll(Machine)
           p == PopOutbound(d)
<1>1. /\ Sound(d) /\ d.pool = pool /\ d.finished = finished
      /\ d.emitted = <<>> /\ d.outbound = outbound
  BY MachineSound, DrainAllSound DEF SameFields
<1> HIDE DEF d
<1>2. /\ Sound(p) /\ p.pool = pool /\ p.finished = finished
      /\ p.emitted = <<>> <=> outbound = <<>>
  BY <1>1, PopOutboundSound
<1> HIDE DEF p
<1>3. PICK t \in Unless(p, IF inbound = <<>> THEN {p} ELSE PerformInbound(p, Head(inbound))) :
        \E k \in Unless(t, AdvancePool(t)) : m \in Unless(k, {PopOutbound(k)})
  BY DEF Performed, p, d
<1>4. Sound(t) /\ Ends(pool \cup Started, finished, t)
  <2>1. CASE p.emitted # <<>> \/ inbound = <<>>
    <3>1. t = p /\ Started = {}
      BY <1>2, <1>3, <2>1 DEF Unless, Started
    <3> QED
      BY <1>2, <3>1 DEF Ends
  <2>2. CASE p.emitted = <<>> /\ inbound # <<>>
    <3>1. t \in PerformInbound(p, Head(inbound)) /\ Started = StartedBy(Head(inbound))
      BY <1>2, <1>3, <2>2 DEF Unless, Started
    <3> QED
      BY <1>2, <2>2, <3>1, HeadSound, PerformInboundSound
  <2> QED
    BY <2>1, <2>2
<1> PICK k \in Unless(t, AdvancePool(t)) : m \in Unless(k, {PopOutbound(k)})
  BY <1>3
<1>5. Sound(k) /\ Ends(t.pool, t.finished, k) /\ Rests(k)
  <2>1. CASE t.emitted # <<>>
    <3>1. k = t
      BY <1>3, <2>1 DEF Unless
    <3> QED
      BY <1>4, <2>1, <3>1 DEF Ends, Rests
  <2>2. CASE t.emitted = <<>>
    <3>1. k \in AdvancePool(t)
      BY <1>3, <2>2 DEF Unless
    <3> QED
      BY <1>4, <3>1, AdvancePoolSound
  <2> QED
    BY <2>1, <2>2
<1>6. Sound(m) /\ m.pool = k.pool /\ m.finished = k.finished /\ Rests(m)
  <2>1. m = k \/ m = PopOutbound(k)
    BY <1>3 DEF Unless
  <2> QED
    BY <1>5, <2>1, PopOutboundSound DEF Rests
<1>7. Ends(pool \cup Started, finished, k)
  BY <1>4, <1>5, EndsTransitive
<1> QED
  BY <1>6, <1>7 DEF Ends

-----------------------------------------------------------------------------
(* The inbound queue *)

\* The elements of a sequence are its values.
LEMMA InToSet ==
  ASSUME NEW S, NEW s \in Seq(S), NEW e
  PROVE  e \in ToSet(s) <=> \E i \in 1..Len(s) : s[i] = e
BY DEF ToSet

\* Every inbound event is about a query.
LEMMA QueryOf ==
  ASSUME NEW s \in Seq(InEvent)
  PROVE  \A i \in 1..Len(s) : s[i].query \in Query
<1> SUFFICES ASSUME NEW i \in 1..Len(s) PROVE s[i].query \in Query
  OBVIOUS
<1>1. s[i] \in InEvent
  OBVIOUS
<1> QED
  BY <1>1 DEF InEvent

\* Notify appends the event or drops it, and leaves the rest of the queue alone.
LEMMA EnqueueSound ==
  ASSUME IInv, NEW ev \in InEvent, Enqueue(ev)
  PROVE  /\ inbound' \in Seq(InEvent) /\ Len(inbound') <= QueueCapacity
         /\ ready' \in BOOLEAN /\ (ready => ready')
         /\ Len(inbound) \in Nat /\ Len(inbound') \in Nat /\ Len(inbound) <= Len(inbound')
         /\ \A i \in 1..Len(inbound) : i \in 1..Len(inbound') /\ inbound'[i] = inbound[i]
         /\ \A i \in 1..Len(inbound') : i \notin 1..Len(inbound) => inbound'[i] = ev
         /\ ~Full => \E i \in 1..Len(inbound') : inbound'[i] = ev
         /\ \A i, j \in 1..Len(inbound') :
              i \notin 1..Len(inbound) /\ j \notin 1..Len(inbound) => i = j
<1>1. inbound \in Seq(InEvent) /\ Len(inbound) <= QueueCapacity /\ ready \in BOOLEAN
  BY DEF IInv, TypeOK, InEvent
<1>2. CASE Full
  BY <1>1, <1>2 DEF Enqueue
<1>3. CASE ~Full
  <2>1. inbound' = Append(inbound, ev) /\ ready' = TRUE
    BY <1>1, <1>3 DEF Enqueue
  <2>2. Len(inbound) < QueueCapacity /\ Len(inbound) \in Nat
    BY <1>1, <1>3, QueryBehaviourAssumption DEF Full
  <2>3. /\ inbound' \in Seq(InEvent) /\ Len(inbound') = Len(inbound) + 1
        /\ inbound'[Len(inbound) + 1] = ev
        /\ \A i \in 1..Len(inbound) : inbound'[i] = inbound[i]
    BY <1>1, <2>1
  <2> QED
    BY <2>1, <2>2, <2>3, QueryBehaviourAssumption
<1> QED
  BY <1>2, <1>3

\* An event that starts nothing joins the queue while no query starts or ends.
LEMMA EnqueueOther ==
  ASSUME IInv, NEW ev \in InEvent, Enqueue(ev), ev.kind # "Start",
         ev.kind \in {"Response", "Failed"} => ev.response \in Response,
         UNCHANGED <<pool, finished>>,
         \A q \in Query : caller[q] # "idle" => caller'[q] # "idle"
  PROVE  /\ StartsSound' /\ AnswersSound'
         /\ \A q \in Query : Event("Start", q, 0) \in ToSet(inbound)
                               => Event("Start", q, 0) \in ToSet(inbound')
<1>1. inbound \in Seq(InEvent)
  BY DEF IInv, TypeOK, InEvent
<1>2. \A i \in 1..Len(inbound') :
        \/ i \in 1..Len(inbound) /\ inbound'[i] = inbound[i]
        \/ inbound'[i] = ev
  BY EnqueueSound
<1>3. \A i \in 1..Len(inbound) : i \in 1..Len(inbound') /\ inbound'[i] = inbound[i]
  BY EnqueueSound
<1>4. AnswersSound'
  BY <1>2 DEF IInv, AnswersSound, Response
<1>5. StartsSound'
  <2> SUFFICES ASSUME NEW i \in 1..Len(inbound'), inbound'[i].kind = "Start"
               PROVE  /\ inbound'[i].response = 0
                      /\ caller'[inbound'[i].query] # "idle"
                      /\ inbound'[i].query \notin pool
                      /\ finished[inbound'[i].query] = "open"
                      /\ \A j \in 1..Len(inbound') :
                           inbound'[j].kind = "Start" /\ inbound'[j].query = inbound'[i].query
                             => j = i
    BY DEF StartsSound
  <2>1. i \in 1..Len(inbound) /\ inbound'[i] = inbound[i]
    BY <1>2
  <2>2. inbound[i].query \in Query
    BY <1>1, <2>1, QueryOf
  <2> QED
    BY <1>2, <2>1, <2>2 DEF IInv, StartsSound
<1>6. \A q \in Query : Event("Start", q, 0) \in ToSet(inbound)
                         => Event("Start", q, 0) \in ToSet(inbound')
  <2>1. inbound' \in Seq(InEvent)
    BY EnqueueSound
  <2> QED
    BY <1>1, <1>3, <2>1, InToSet
<1> QED
  BY <1>4, <1>5, <1>6
-----------------------------------------------------------------------------
(* IInv is inductive: one lemma per action *)

\* Initially nothing runs, and nobody waits.
LEMMA InitIInv == Init => IInv
<1> SUFFICES ASSUME Init PROVE IInv
  OBVIOUS
<1>1. TypeOK
  <2>1. /\ sent \in [Query -> 0..MaxRequests] /\ pending \in [Query -> Seq(Response)]
        /\ progressed \in [Query -> Seq(Response)]
    BY QueryBehaviourAssumption DEF Init
  <2>2. \A q \in Query : Len(progressed[q]) <= ChannelCapacity
    BY QueryBehaviourAssumption DEF Init
  <2>3. inbound \in Seq(InEvent) /\ outbound \in Seq(OutEvent) /\ emitted \in Seq(OutEvent)
        /\ Len(inbound) <= QueueCapacity /\ Len(emitted) <= 1
    BY QueryBehaviourAssumption DEF Init
  <2>4. /\ caller \in [Query -> {"idle", "waiting", "returned"}] /\ pool \subseteq Query
        /\ net \subseteq Query \X Response /\ notifiers \subseteq Query
        /\ finished \in [Query -> {"open", "ended", "dropped"}]
        /\ {ready, nextDue, armed} \subseteq BOOLEAN
    BY DEF Init
  <2> QED
    BY <2>1, <2>2, <2>3, <2>4 DEF TypeOK, InEvent, OutEvent
<1>2. Len(inbound) = 0
  BY DEF Init
<1>3. StartsSound /\ AnswersSound
  BY <1>2 DEF StartsSound, AnswersSound
<1> QED
  BY <1>1, <1>3 DEF Init, IInv, NotifiersOpen, NobodyForgotten, TimerCoversPool,
                    PoolNotified, IdleUntouched, EmittedReady

\* Perform, with updateReadyStatus and the arming of the timer.
LEMMA PerformKeeps == IInv /\ Perform => IInv'
<1> SUFFICES ASSUME IInv, Perform PROVE IInv'
  OBVIOUS
<1>1. PICK m \in Performed :
        /\ pool' = m.pool /\ sent' = m.sent /\ outbound' = m.outbound /\ emitted' = m.emitted
        /\ notifiers' = m.notifiers /\ pending' = m.pending /\ progressed' = m.progressed
        /\ finished' = m.finished /\ nextDue' = m.nextDue
        /\ ready' = MoreToDo(m, inbound')
        /\ armed' = IF MoreToDo(m, inbound') THEN armed ELSE m.nextDue
  BY DEF Perform
<1>2. Sound(m) /\ Ends(pool \cup Started, finished, m) /\ Rests(m)
  BY PerformedSound
<1>3. inbound \in Seq(InEvent) /\ Len(inbound) <= QueueCapacity
  BY DEF IInv, TypeOK, InEvent
<1>4. /\ UNCHANGED <<caller, net>>
      /\ inbound' = IF outbound # <<>> \/ inbound = <<>> THEN inbound ELSE Tail(inbound)
  BY DEF Perform
<1>5. /\ inbound' \in Seq(InEvent) /\ Len(inbound') <= QueueCapacity
      /\ Len(inbound) \in Nat /\ Len(inbound') \in Nat
  BY <1>3, <1>4, QueryBehaviourAssumption
<1>6. /\ MoreToDo(m, inbound') \in BOOLEAN /\ m \in MachineType
      /\ armed' \in BOOLEAN /\ ready' \in BOOLEAN /\ nextDue' \in BOOLEAN
  BY <1>1, <1>2 DEF Sound, MachineType, MoreToDo, IInv, TypeOK
<1>7. Len(m.emitted) <= 1
  BY <1>2, Zenon DEF Sound
<1>8. TypeOK'
  <2>1. \A q \in Query : Len(progressed'[q]) <= ChannelCapacity
    BY <1>1, <1>2 DEF Sound
  <2>2. Len(emitted') <= 1
    BY <1>1, <1>7, Zenon
  <2>3. /\ pool' \subseteq Query /\ sent' \in [Query -> 0..MaxRequests]
        /\ notifiers' \subseteq Query /\ pending' \in [Query -> Seq(Response)]
        /\ progressed' \in [Query -> Seq(Response)]
        /\ finished' \in [Query -> {"open", "ended", "dropped"}]
        /\ outbound' \in Seq(OutEvent) /\ emitted' \in Seq(OutEvent)
    BY <1>1, <1>6 DEF MachineType
  <2>4. caller' \in [Query -> {"idle", "waiting", "returned"}] /\ net' \subseteq Query \X Response
    BY <1>4 DEF IInv, TypeOK
  <2> QED
    BY <1>5, <1>6, <2>1, <2>2, <2>3, <2>4 DEF TypeOK, InEvent, OutEvent
<1>9. NotifiersOpen' /\ PoolNotified'
  BY <1>1, <1>2 DEF Sound, NotifiersOpen, PoolNotified
<1>10. EmittedReady'
  BY <1>1 DEF EmittedReady, MoreToDo
<1>11. TimerCoversPool'
  BY <1>1, <1>2 DEF TimerCoversPool, MoreToDo, Rests
\* What became of the queue: it is as it was, or it lost its head.
<1>12. CASE outbound # <<>> \/ inbound = <<>>
  <2>1. inbound' = inbound /\ Started = {}
    BY <1>4, <1>12 DEF Started
  <2>2. m.pool \subseteq pool
        /\ \A q \in Query : finished'[q] = IF q \in pool \ pool' THEN "ended" ELSE finished[q]
    BY <1>1, <1>2, <2>1 DEF Ends
  <2>3. StartsSound'
    <3>1. \A i \in 1..Len(inbound) : inbound[i].query \in Query
      BY <1>3, QueryOf
    <3> QED
      BY <1>1, <1>4, <2>1, <2>2, <3>1 DEF IInv, StartsSound
  <2>4. AnswersSound'
    BY <2>1 DEF IInv, AnswersSound, Response
  <2>5. IdleUntouched'
    BY <1>1, <1>4, <2>2 DEF IInv, IdleUntouched
  <2>6. NobodyForgotten'
    BY <1>1, <1>4, <1>9, <2>1, <2>2 DEF IInv, NobodyForgotten, PoolNotified, Event
  <2> QED
    BY <1>8, <1>9, <1>10, <1>11, <2>3, <2>4, <2>5, <2>6 DEF IInv
<1>13. CASE outbound = <<>> /\ inbound # <<>>
  <2>1. /\ inbound' = Tail(inbound) /\ Started = StartedBy(inbound[1]) /\ 1 \in 1..Len(inbound)
        /\ Len(inbound') = Len(inbound) - 1
        /\ \A i \in 1..Len(inbound') : i + 1 \in 1..Len(inbound) /\ i + 1 # 1
                                       /\ inbound'[i] = inbound[i + 1]
        /\ \A i \in 1..Len(inbound) : i # 1 => i - 1 \in 1..Len(inbound')
                                               /\ inbound'[i - 1] = inbound[i]
    BY <1>3, <1>4, <1>13 DEF Started
  <2>2. \A i \in 1..Len(inbound) : inbound[i].query \in Query
    BY <1>3, QueryOf
  <2>3. \A q \in Query : q \in Started =>
          inbound[1].kind = "Start" /\ inbound[1].query = q /\ caller[q] # "idle"
          /\ finished[q] = "open" /\ q \notin pool
    BY <2>1, <2>2 DEF StartedBy, IInv, StartsSound
  <2>4. /\ m.pool \subseteq pool \cup Started
        /\ \A q \in Query : finished'[q] = IF q \in (pool \cup Started) \ pool'
                                           THEN "ended" ELSE finished[q]
    BY <1>1, <1>2 DEF Ends
  <2>5. StartsSound'
    <3> SUFFICES ASSUME NEW i \in 1..Len(inbound'), inbound'[i].kind = "Start"
                 PROVE  /\ inbound'[i].response = 0
                        /\ caller'[inbound'[i].query] # "idle"
                        /\ inbound'[i].query \notin pool'
                        /\ finished'[inbound'[i].query] = "open"
                        /\ \A j \in 1..Len(inbound') :
                             inbound'[j].kind = "Start" /\ inbound'[j].query = inbound'[i].query
                               => j = i
      BY DEF StartsSound
    <3> DEFINE q == inbound'[i].query
    <3>1. /\ i + 1 \in 1..Len(inbound) /\ i + 1 # 1 /\ inbound'[i] = inbound[i + 1]
          /\ q \in Query /\ q = inbound[i + 1].query
      BY <2>1, <2>2
    <3>2. /\ inbound'[i].response = 0 /\ caller[q] # "idle" /\ q \notin pool /\ finished[q] = "open"
          /\ \A j \in 1..Len(inbound) :
               inbound[j].kind = "Start" /\ inbound[j].query = q => j = i + 1
      BY <3>1 DEF IInv, StartsSound
    <3>3. q \notin Started
      BY <2>1, <2>3, <3>1, <3>2
    <3>4. q \notin pool' /\ finished'[q] = "open" /\ caller'[q] # "idle"
      BY <1>1, <1>4, <2>4, <3>1, <3>2, <3>3
    <3>5. \A j \in 1..Len(inbound') :
            inbound'[j].kind = "Start" /\ inbound'[j].query = q => j + 1 = i + 1
      BY <2>1, <3>2
    <3>6. \A j \in 1..Len(inbound') :
            inbound'[j].kind = "Start" /\ inbound'[j].query = q => j = i
      BY <1>5, <3>5
    <3> QED
      BY <3>2, <3>4, <3>6
  <2>6. AnswersSound'
    BY <2>1 DEF IInv, AnswersSound, Response
  <2>7. IdleUntouched'
    BY <1>1, <1>4, <2>3, <2>4 DEF IInv, IdleUntouched
  <2>8. NobodyForgotten'
    <3> SUFFICES ASSUME NEW q \in Query, caller'[q] = "waiting", q \notin notifiers',
                        finished'[q] = "open"
                 PROVE  Event("Start", q, 0) \in ToSet(inbound')
      BY DEF NobodyForgotten, Event
    <3>1. q \notin pool /\ q \notin Started /\ finished[q] = "open" /\ caller[q] = "waiting"
      BY <1>1, <1>4, <1>9, <2>4 DEF PoolNotified
    <3>2. PICK i \in 1..Len(inbound) : inbound[i] = Event("Start", q, 0)
      BY <1>3, <3>1, InToSet DEF IInv, NobodyForgotten, PoolNotified
    <3>3. i # 1
      BY <2>1, <3>1, <3>2 DEF StartedBy, Event
    <3> QED
      BY <1>5, <2>1, <3>2, <3>3, InToSet
  <2> QED
    BY <1>8, <1>9, <1>10, <1>11, <2>5, <2>6, <2>7, <2>8 DEF IInv
<1> QED
  BY <1>12, <1>13

\* The event loop hands an emitted event to the network or to the routing behaviour.
LEMMA DispatchKeeps == IInv /\ Dispatch => IInv'
<1> SUFFICES ASSUME IInv, Dispatch PROVE IInv'
  OBVIOUS
<1> DEFINE ev == emitted[1]
<1>1. /\ emitted # <<>> /\ emitted' = <<>>
      /\ UNCHANGED <<caller, outbound, pool, sent, notifiers, pending, progressed, finished,
                     nextDue, armed>>
  BY DEF Dispatch
<1>2. emitted \in Seq(OutEvent) /\ ev \in OutEvent /\ ev.query \in Query /\ ev.response \in Response
  <2>1. emitted \in Seq(OutEvent) /\ emitted # <<>>
    BY <1>1 DEF IInv, TypeOK, OutEvent
  <2>2. ev \in OutEvent
    BY <2>1
  <2> QED
    BY <2>1, <2>2 DEF OutEvent
<1>3. /\ inbound' \in Seq(InEvent) /\ Len(inbound') <= QueueCapacity
      /\ ready' \in BOOLEAN /\ (ready => ready')
      /\ net' \subseteq Query \X Response
      /\ StartsSound' /\ AnswersSound'
      /\ \A q \in Query : Event("Start", q, 0) \in ToSet(inbound)
                            => Event("Start", q, 0) \in ToSet(inbound')
  <2>1. CASE UNCHANGED <<inbound, ready>> /\ net' \subseteq Query \X Response
    <3>1. StartsSound' /\ AnswersSound'
      BY <1>1, <2>1 DEF IInv, StartsSound, AnswersSound, Response
    <3> QED
      BY <2>1, <3>1 DEF IInv, TypeOK, InEvent
  <2>2. CASE Enqueue(Event("Failed", ev.query, ev.response)) /\ UNCHANGED net
    <3> DEFINE f == Event("Failed", ev.query, ev.response)
    <3>1. /\ f \in InEvent /\ f.kind # "Start" /\ f.response \in Response
      BY <1>2, QueryBehaviourAssumption DEF Event, InEvent, Response
    <3>2. \A q \in Query : caller[q] # "idle" => caller'[q] # "idle"
      BY <1>1
    <3> HIDE DEF f
    <3>3. Enqueue(f) /\ UNCHANGED <<pool, finished>>
      BY <1>1, <2>2 DEF f
    <3>4. /\ StartsSound' /\ AnswersSound'
          /\ \A q \in Query : Event("Start", q, 0) \in ToSet(inbound)
                                => Event("Start", q, 0) \in ToSet(inbound')
      BY <3>1, <3>2, <3>3, EnqueueOther
    <3>5. /\ inbound' \in Seq(InEvent) /\ Len(inbound') <= QueueCapacity
          /\ ready' \in BOOLEAN /\ (ready => ready')
      BY <3>1, <3>3, EnqueueSound
    <3> QED
      BY <2>2, <3>4, <3>5 DEF IInv, TypeOK
  <2>3. \/ UNCHANGED <<inbound, ready>> /\ net' = net \cup {<<ev.query, ev.response>>}
        \/ Enqueue(Event("Failed", ev.query, ev.response)) /\ UNCHANGED net
        \/ UNCHANGED <<inbound, ready, net>>
    BY DEF Dispatch
  <2>4. net \subseteq Query \X Response /\ net \cup {<<ev.query, ev.response>>} \subseteq Query \X Response
    BY <1>2 DEF IInv, TypeOK
  <2> QED
    BY <2>1, <2>2, <2>3, <2>4
<1>4. TypeOK'
  <2>1. emitted' \in Seq(OutEvent) /\ Len(emitted') <= 1
    BY <1>1
  <2> QED
    BY <1>1, <1>3, <2>1 DEF IInv, TypeOK, InEvent, OutEvent, Response
<1>5. TimerCoversPool' /\ EmittedReady'
  BY <1>1, <1>3 DEF IInv, TimerCoversPool, EmittedReady
<1>6. NobodyForgotten'
  BY <1>1, <1>3 DEF IInv, NobodyForgotten, Event
<1> QED
  BY <1>1, <1>3, <1>4, <1>5, <1>6 DEF IInv, NotifiersOpen, PoolNotified, IdleUntouched

\* A step that leaves the queue and the queries alone, and with which no caller but
\* one that returns is affected.
LEMMA QuietKeeps ==
  ASSUME IInv, TypeOK', UNCHANGED <<inbound, emitted, pool, notifiers, finished>>,
         ready => ready', armed => armed' \/ ready',
         \A q \in Query : \/ caller'[q] = caller[q]
                          \/ caller[q] = "waiting" /\ caller'[q] = "returned"
  PROVE  IInv'
<1>1. NotifiersOpen' /\ PoolNotified' /\ TimerCoversPool' /\ EmittedReady'
  BY DEF IInv, NotifiersOpen, PoolNotified, TimerCoversPool, EmittedReady
<1>2. StartsSound'
  <2>1. inbound \in Seq(InEvent)
    BY DEF IInv, TypeOK, InEvent
  <2>2. \A i \in 1..Len(inbound) : inbound[i].query \in Query
    BY <2>1, QueryOf
  <2> QED
    BY <2>2 DEF IInv, StartsSound
<1>3. AnswersSound'
  BY DEF IInv, AnswersSound, Response
<1>4. IdleUntouched'
  BY DEF IInv, IdleUntouched
<1>5. NobodyForgotten'
  BY DEF IInv, NobodyForgotten, Event
<1> QED
  BY <1>1, <1>2, <1>3, <1>4, <1>5 DEF IInv

\* The ready timer fires.
LEMMA FireKeeps == IInv /\ Fire => IInv'
<1> SUFFICES ASSUME IInv, Fire PROVE IInv'
  OBVIOUS
<1>1. TypeOK'
  BY DEF IInv, TypeOK, Fire, Response
<1> QED
  BY <1>1, QuietKeeps DEF Fire

\* A caller whose context is cancelled returns without the result.
LEMMA GiveUpKeeps ==
  ASSUME IInv, NEW q \in Query, GiveUp(q)
  PROVE  IInv'
<1>1. TypeOK'
  BY DEF IInv, TypeOK, GiveUp, Return, Response
<1> QED
  BY <1>1, QuietKeeps DEF GiveUp, Return, IInv, TypeOK

\* waitForQuery reads what is left in the channel and the result.
LEMMA FinishKeeps ==
  ASSUME IInv, NEW q \in Query, Finish(q)
  PROVE  IInv'
<1>1. PICK i \in 0..Len(progressed[q]) :
        progressed' = [progressed EXCEPT ![q] = SubSeq(@, i + 1, Len(@))]
  BY DEF Finish
<1>2. progressed[q] \in Seq(Response) /\ Len(progressed[q]) <= ChannelCapacity
  BY DEF IInv, TypeOK
<1> DEFINE rest == SubSeq(progressed[q], i + 1, Len(progressed[q]))
<1>3. rest \in Seq(Response) /\ Len(rest) <= Len(progressed[q]) /\ Len(rest) \in Nat
  BY <1>2
<1>4. Len(rest) <= ChannelCapacity
  <2> HIDE DEF rest
  <2> QED
    BY <1>2, <1>3, QueryBehaviourAssumption
<1> HIDE DEF rest
<1>5. /\ progressed' \in [Query -> Seq(Response)]
      /\ \A x \in Query : Len(progressed'[x]) <= ChannelCapacity
  <2>1. progressed' = [progressed EXCEPT ![q] = rest]
    BY <1>1 DEF rest
  <2> QED
    BY <1>3, <1>4, <2>1 DEF IInv, TypeOK
<1>6. TypeOK'
  BY <1>5 DEF IInv, TypeOK, Finish, Return, Response
<1>7. \A x \in Query : \/ caller'[x] = caller[x]
                       \/ caller[x] = "waiting" /\ caller'[x] = "returned"
  BY DEF IInv, TypeOK, Finish, Return
<1> QED
  BY <1>6, <1>7, QuietKeeps DEF Finish

\* waitForQuery reads one response, and its QueryFunc may end the query.
LEMMA ProgressKeeps ==
  ASSUME IInv, NEW q \in Query, Progress(q)
  PROVE  IInv'
<1>1. /\ caller[q] = "waiting" /\ progressed[q] # <<>>
      /\ progressed' = [progressed EXCEPT ![q] = Tail(@)]
      /\ UNCHANGED <<outbound, emitted, pool, sent, net, notifiers, pending, finished,
                     nextDue, armed>>
  BY DEF Progress
<1>2. /\ progressed' \in [Query -> Seq(Response)]
      /\ \A x \in Query : Len(progressed'[x]) <= ChannelCapacity
  <2> DEFINE rest == Tail(progressed[q])
  <2>1. progressed[q] \in Seq(Response) /\ Len(progressed[q]) <= ChannelCapacity
    BY DEF IInv, TypeOK
  <2>2. rest \in Seq(Response) /\ Len(rest) = Len(progressed[q]) - 1
    BY <1>1, <2>1
  <2>3. Len(rest) <= ChannelCapacity
    <3> HIDE DEF rest
    <3> QED
      BY <2>1, <2>2, QueryBehaviourAssumption
  <2>4. progressed' = [progressed EXCEPT ![q] = rest]
    BY <1>1
  <2> HIDE DEF rest
  <2> QED
    BY <2>2, <2>3, <2>4 DEF IInv, TypeOK
<1>3. CASE UNCHANGED <<caller, inbound, ready>>
  <2>1. TypeOK'
    BY <1>1, <1>2, <1>3 DEF IInv, TypeOK, Response
  <2> QED
    BY <1>1, <1>3, <2>1, QuietKeeps
<1>4. CASE Enqueue(Event("Stop", q, 0)) /\ Return(q)
  <2> DEFINE ev == Event("Stop", q, 0)
  <2>1. ev \in InEvent /\ ev.kind # "Start" /\ ev.kind \notin {"Response", "Failed"}
    BY QueryBehaviourAssumption DEF Event, InEvent
  <2>2. /\ \A x \in Query : \/ caller'[x] = caller[x]
                            \/ caller[x] = "waiting" /\ caller'[x] = "returned"
        /\ caller' \in [Query -> {"idle", "waiting", "returned"}]
    BY <1>1, <1>4 DEF Return, IInv, TypeOK
  <2> HIDE DEF ev
  <2>3. Enqueue(ev) /\ UNCHANGED <<pool, finished>>
    BY <1>1, <1>4 DEF ev
  <2>4. /\ StartsSound' /\ AnswersSound'
        /\ \A x \in Query : Event("Start", x, 0) \in ToSet(inbound)
                              => Event("Start", x, 0) \in ToSet(inbound')
    BY <2>1, <2>2, <2>3, EnqueueOther
  <2>5. /\ inbound' \in Seq(InEvent) /\ Len(inbound') <= QueueCapacity
        /\ ready' \in BOOLEAN /\ (ready => ready')
    BY <2>1, <2>3, EnqueueSound
  <2>6. TypeOK'
    BY <1>1, <1>2, <2>2, <2>5 DEF IInv, TypeOK, InEvent, Response
  <2>7. TimerCoversPool' /\ EmittedReady'
    BY <1>1, <2>5 DEF IInv, TimerCoversPool, EmittedReady
  <2>8. NobodyForgotten' /\ IdleUntouched'
    BY <1>1, <2>2, <2>4 DEF IInv, NobodyForgotten, IdleUntouched, Event
  <2> QED
    BY <1>1, <2>4, <2>6, <2>7, <2>8 DEF IInv, NotifiersOpen, PoolNotified
<1> QED
  BY <1>3, <1>4 DEF Progress

\* A call whose start the full queue drops is told so at once.
LEMMA CallKeeps ==
  ASSUME IInv, NEW q \in Query, Call(q)
  PROVE  IInv'
<1> DEFINE ev == Event("Start", q, 0)
<1>1. /\ caller[q] = "idle" /\ caller' = [caller EXCEPT ![q] = "waiting"]
      /\ UNCHANGED <<outbound, emitted, pool, sent, net, notifiers, pending, progressed,
                     nextDue, armed>>
      /\ finished' = IF Full THEN [finished EXCEPT ![q] = "dropped"] ELSE finished
      /\ Enqueue(ev)
  BY DEF Call, ReportDropped
<1>2. /\ ev \in InEvent /\ ev.kind = "Start" /\ ev.query = q /\ ev.response = 0
  BY QueryBehaviourAssumption DEF Event, InEvent
<1> HIDE DEF ev
<1>3. inbound \in Seq(InEvent) /\ \A i \in 1..Len(inbound) : inbound[i].query \in Query
  BY QueryOf DEF IInv, TypeOK, InEvent
<1>4. /\ inbound' \in Seq(InEvent) /\ Len(inbound') <= QueueCapacity
      /\ ready' \in BOOLEAN /\ (ready => ready')
      /\ \A i \in 1..Len(inbound) : i \in 1..Len(inbound') /\ inbound'[i] = inbound[i]
      /\ \A i \in 1..Len(inbound') : i \notin 1..Len(inbound) => inbound'[i] = ev
      /\ ~Full => \E i \in 1..Len(inbound') : inbound'[i] = ev
      /\ \A i, j \in 1..Len(inbound') :
           i \notin 1..Len(inbound) /\ j \notin 1..Len(inbound) => i = j
  BY <1>1, <1>2, EnqueueSound
<1>5. finished[q] = "open" /\ q \notin pool
  BY <1>1 DEF IInv, IdleUntouched
<1>6. /\ caller' \in [Query -> {"idle", "waiting", "returned"}]
      /\ finished' \in [Query -> {"open", "ended", "dropped"}]
      /\ caller'[q] = "waiting"
      /\ \A x \in Query : x # q => caller'[x] = caller[x] /\ finished'[x] = finished[x]
      /\ Full => finished'[q] # "open"
      /\ ~Full => finished' = finished
  BY <1>1 DEF IInv, TypeOK
<1>7. \A i \in 1..Len(inbound) : inbound[i].kind = "Start" => inbound[i].query # q
  BY <1>1, <1>3 DEF IInv, StartsSound
<1>8. TypeOK'
  BY <1>1, <1>4, <1>6 DEF IInv, TypeOK, InEvent, Response
<1>9. NotifiersOpen' /\ PoolNotified' /\ TimerCoversPool' /\ EmittedReady'
  <2>1. notifiers \subseteq Query /\ q \notin notifiers
    BY <1>5 DEF IInv, TypeOK, PoolNotified
  <2> QED
    BY <1>1, <1>4, <1>6, <2>1 DEF IInv, NotifiersOpen, PoolNotified, TimerCoversPool, EmittedReady
<1>10. IdleUntouched'
  BY <1>1, <1>6 DEF IInv, IdleUntouched
<1>11. AnswersSound'
  BY <1>2, <1>4 DEF IInv, AnswersSound, Response
<1>12. \A i \in 1..Len(inbound') : i \notin 1..Len(inbound) => ~Full
  BY <1>1 DEF Enqueue
<1>13. StartsSound'
  <2> SUFFICES ASSUME NEW i \in 1..Len(inbound'), inbound'[i].kind = "Start"
               PROVE  /\ inbound'[i].response = 0
                      /\ caller'[inbound'[i].query] # "idle"
                      /\ inbound'[i].query \notin pool'
                      /\ finished'[inbound'[i].query] = "open"
                      /\ \A j \in 1..Len(inbound') :
                           inbound'[j].kind = "Start" /\ inbound'[j].query = inbound'[i].query
                             => j = i
    BY DEF StartsSound
  <2>1. CASE i \in 1..Len(inbound)
    <3>1. /\ inbound'[i] = inbound[i] /\ inbound[i].query \in Query /\ inbound[i].query # q
      BY <1>3, <1>4, <1>7, <2>1
    <3>2. \A j \in 1..Len(inbound') :
            inbound'[j].query = inbound[i].query => j \in 1..Len(inbound) /\ inbound'[j] = inbound[j]
      BY <1>2, <1>4, <3>1
    <3> QED
      BY <1>1, <1>6, <2>1, <3>1, <3>2 DEF IInv, StartsSound
  <2>2. CASE i \notin 1..Len(inbound)
    <3>1. inbound'[i] = ev /\ ~Full
      BY <1>4, <1>12, <2>2
    <3>2. \A j \in 1..Len(inbound') :
            inbound'[j].kind = "Start" /\ inbound'[j].query = q => j \notin 1..Len(inbound)
      BY <1>4, <1>7
    <3> QED
      BY <1>1, <1>2, <1>4, <1>5, <1>6, <2>2, <3>1, <3>2
  <2> QED
    BY <2>1, <2>2
<1>14. NobodyForgotten'
  <2> SUFFICES ASSUME NEW x \in Query, caller'[x] = "waiting", x \notin notifiers',
                      finished'[x] = "open"
               PROVE  Event("Start", x, 0) \in ToSet(inbound')
    BY DEF NobodyForgotten, Event
  <2>1. CASE x = q
    <3>1. \E i \in 1..Len(inbound') : inbound'[i] = Event("Start", x, 0)
      BY <1>4, <1>6, <2>1 DEF ev
    <3> QED
      BY <1>4, <3>1, InToSet
  <2>2. CASE x # q
    <3>1. PICK i \in 1..Len(inbound) : inbound[i] = Event("Start", x, 0)
      BY <1>1, <1>3, <1>6, <2>2, InToSet DEF IInv, NobodyForgotten
    <3> QED
      BY <1>4, <3>1, InToSet
  <2> QED
    BY <2>1, <2>2
<1> QED
  BY <1>8, <1>9, <1>10, <1>11, <1>13, <1>14 DEF IInv

\* The network delivers an answer or a failure, if the inbound queue has room.
LEMMA AnswerKeeps ==
  ASSUME IInv, NEW q \in Query, NEW k \in Response, Answer(q, k)
  PROVE  IInv'
<1>1. PICK kind \in {"Response", "Failed"} : Enqueue(Event(kind, q, k))
  BY DEF Answer
<1>2. /\ net' = net \ {<<q, k>>}
      /\ UNCHANGED <<caller, outbound, emitted, pool, sent, notifiers, pending, progressed,
                     finished, nextDue, armed>>
  BY DEF Answer
<1> DEFINE ev == Event(kind, q, k)
<1>3. ev \in InEvent /\ ev.kind # "Start" /\ ev.response \in Response
  BY QueryBehaviourAssumption DEF Event, InEvent, Response
<1>4. \A x \in Query : caller[x] # "idle" => caller'[x] # "idle"
  BY <1>2
<1> HIDE DEF ev
<1>5. Enqueue(ev) /\ UNCHANGED <<pool, finished>>
  BY <1>1, <1>2 DEF ev
<1>6. /\ StartsSound' /\ AnswersSound'
      /\ \A x \in Query : Event("Start", x, 0) \in ToSet(inbound)
                            => Event("Start", x, 0) \in ToSet(inbound')
  BY <1>3, <1>4, <1>5, EnqueueOther
<1>7. /\ inbound' \in Seq(InEvent) /\ Len(inbound') <= QueueCapacity
      /\ ready' \in BOOLEAN /\ (ready => ready')
  BY <1>3, <1>5, EnqueueSound
<1>8. TypeOK'
  BY <1>2, <1>7 DEF IInv, TypeOK, InEvent, Response
<1>9. TimerCoversPool' /\ EmittedReady'
  BY <1>2, <1>7 DEF IInv, TimerCoversPool, EmittedReady
<1>10. NobodyForgotten'
  BY <1>2, <1>6 DEF IInv, NobodyForgotten, Event
<1> QED
  BY <1>2, <1>6, <1>8, <1>9, <1>10 DEF IInv, NotifiersOpen, PoolNotified, IdleUntouched

\* A stuttering step.
LEMMA StutterKeeps == IInv /\ UNCHANGED vars => IInv'
<1> SUFFICES ASSUME IInv, UNCHANGED vars PROVE IInv'
  OBVIOUS
<1>1. TypeOK'
  BY DEF IInv, TypeOK, vars, Response
<1> QED
  BY <1>1, QuietKeeps DEF vars

\* Every step.
LEMMA NextKeeps == IInv /\ [Next]_vars => IInv'
<1> SUFFICES ASSUME IInv, [Next]_vars PROVE IInv'
  OBVIOUS
<1>1. CASE Perform
  BY <1>1, PerformKeeps
<1>2. CASE Dispatch
  BY <1>2, DispatchKeeps
<1>3. CASE Fire
  BY <1>3, FireKeeps
<1>4. CASE \E q \in Query : Call(q) \/ Progress(q) \/ Finish(q) \/ GiveUp(q)
  BY <1>4, CallKeeps, ProgressKeeps, FinishKeeps, GiveUpKeeps
<1>5. CASE \E q \in Query, k \in Response : Answer(q, k)
  BY <1>5, AnswerKeeps
<1>6. CASE UNCHANGED vars
  BY <1>6, StutterKeeps
<1> QED
  BY <1>1, <1>2, <1>3, <1>4, <1>5, <1>6 DEF Next

\* IInv holds in every reachable state.
THEOREM Inductive == Spec => []IInv
<1>1. Init => IInv
  BY InitIInv
<1>2. IInv /\ [Next]_vars => IInv'
  BY NextKeeps
<1> QED
  BY <1>1, <1>2, PTL DEF Spec
-----------------------------------------------------------------------------
(* The results *)

\* The queues and channels of the behaviour keep to their types and capacities.
THEOREM TypeCorrect == Spec => []TypeOK
<1>1. IInv => TypeOK
  BY DEF IInv
<1> QED
  BY <1>1, Inductive, PTL

\* No progress is ever sent on a closed channel, no channel is closed twice and no
\* notifier outlives its query, whatever the interleaving of the loop, the callers
\* and the network.
THEOREM NotifiersStayOpen == Spec => []NotifiersOpen
<1>1. IInv => NotifiersOpen
  BY DEF IInv
<1> QED
  BY <1>1, Inductive, PTL

\* A waiting caller always has something coming: waitForQuery never blocks on a
\* query that nobody will end.
THEOREM NobodyIsForgotten == Spec => []NobodyForgotten
<1>1. IInv => NobodyForgotten
  BY DEF IInv
<1> QED
  BY <1>1, Inductive, PTL

\* updateReadyStatus never leaves a running query without a wake-up.
THEOREM TimerCovers == Spec => []TimerCoversPool
<1>1. IInv => TimerCoversPool
  BY DEF IInv
<1> QED
  BY <1>1, Inductive, PTL
=============================================================================
