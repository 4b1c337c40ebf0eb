-------------------------- MODULE PublishBehaviour --------------------------
(***************************************************************************)
(* publish.go, as far as it keeps a node's records published: the survey,  *)
(* the region publish that follows each survey (publish/region.go), the    *)
(* static publish of each key in the pool, and what wakes the behaviour.   *)
(* Publish models the pool, here reduced to the static publishes, and the  *)
(* publishes that callers ask for, of which only the wake-up counts here.  *)
(*                                                                         *)
(* The publish of the i-th key under prefix p has the id <<p, i>>.         *)
(***************************************************************************)
EXTENDS Survey, Bags

CONSTANTS
  Provided,           \* the keys in the key store
  RegionReplication,  \* PublishConfig.RegionReplication
  RegionMaxInFlight,  \* PublishConfig.RegionMaxInFlight
  NetworkCapacity,    \* NetworkConfig.Capacity
  MaxLost             \* bound: the store requests that wait for an answer that was dropped

ASSUME PublishBehaviourAssumption ==
  /\ Provided \subseteq Key
  /\ RegionReplication \in Nat \ {0}
  /\ RegionMaxInFlight \in Nat \ {0}
  /\ NetworkCapacity \in Nat
  /\ MaxLost \in Nat

VARIABLES
  survey,     \* the survey
  regions,    \* the running region publishes, by prefix
  children,   \* the publishes started by a region
  pool,       \* the publishes of the pool
  surveyDue,  \* whether the survey has reported a due time
  inbound,    \* the inbound queue
  outbound,   \* the number of pending outbound events
  ready,      \* the ready channel holds a signal
  timer,      \* the ready timer is armed
  finds,      \* the number of requests of surveys in flight
  stores,     \* the store requests in flight, a bag
  lost        \* history: the store requests whose answer was dropped

vars == <<survey, regions, children, pool, surveyDue, inbound, outbound, ready, timer, finds, stores, lost>>

\* NewPublishBehaviour.
Init ==
  /\ survey = NewSurvey
  /\ regions = <<>> /\ children = {} /\ pool = <<>>
  /\ surveyDue = FALSE
  /\ inbound = <<>> /\ outbound = 0
  /\ ready = TRUE /\ timer = FALSE
  /\ finds = 0 /\ stores = EmptyBag /\ lost = {}

NoChild == <<<<>>, 0>>

Event(kind, c, n) == [kind |-> kind, child |-> c, node |-> n]

FindEvent == Event("Find", NoChild, <<>>)

\* The behaviour while it performs; emitted holds the event to return, if any.
Machine ==
  [survey |-> survey, regions |-> regions, children |-> children, pool |-> pool,
   due |-> surveyDue, inbound |-> inbound, outbound |-> outbound,
   pollAgain |-> FALSE, emitted |-> {}]

With(f, x, v) == [y \in DOMAIN f \cup {x} |-> IF y = x THEN v ELSE f[y]]

Without(f, x) == Restrict(f, DOMAIN f \ {x})

-----------------------------------------------------------------------------
(* Region publishes *)

KeysUnder(p) == Under(p, Provided)

\* The i-th of the keys, in the order of the trie.
KeyAt(p, i) ==
  CHOOSE k \in KeysUnder(p) : Cardinality({l \in KeysUnder(p) : Before(l, k)}) = i - 1

\* closest: of two nodes the closer agrees with the key where they first differ.
Closest(nodes, k) ==
  LET closer(a, b) == \E i \in 1..BitLen : /\ a[i] # b[i] /\ a[i] = k[i]
                                           /\ \A j \in 1..(i - 1) : a[j] = b[j]
  IN  {n \in nodes : Cardinality({a \in nodes : closer(a, n)}) < RegionReplication}

\* startRegionPublish: one that runs for the region is replaced.
StartRegionPublish(m, p, nodes) ==
  IF nodes = {} \/ KeysUnder(p) = {} THEN m
  ELSE [m EXCEPT !.regions = With(@, p, [nodes |-> nodes, cursor |-> 0, inflight |-> {}])]

\* RegionPublish.Advance and advanceRegion with EventRegionKeyDone.
KeyDone(m, c) ==
  LET p    == c[1]
      left == m.regions[p].inflight \ {c}
  IN  IF p \notin DOMAIN m.regions THEN m
      ELSE IF m.regions[p].cursor < Cardinality(KeysUnder(p)) \/ left # {}
      THEN [m EXCEPT !.regions[p].inflight = left]
      ELSE [m EXCEPT !.regions = Without(@, p)]

-----------------------------------------------------------------------------
(* The publish pool *)

\* A static publish asks one more of its nodes.
AskNext(m, c) ==
  {[m EXCEPT !.pool[c].todo = @ \ {n}, !.pool[c].waiting = @ \cup {n},
             !.emitted = {Event("Store", c, n)}] : n \in m.pool[c].todo}

\* advancePool with EventPoolPoll, or with an answer for a publish that has ended.
PollPool(m) ==
  LET k    == [m EXCEPT !.pollAgain = FALSE]
      busy == {c \in DOMAIN m.pool : m.pool[c].todo # {}}
  IN  IF busy = {} THEN {k} ELSE UNION {AskNext(k, c) : c \in busy}

\* advancePool with EventPoolStartStatic.
StartStatic(m, c, nodes) ==
  AskNext([m EXCEPT !.pool = With(@, c, [todo |-> nodes, waiting |-> {}]), !.pollAgain = FALSE], c)

\* Mutant: the region is not told that its publish has ended.
EndStatic_Untold(m, c) ==
  [m EXCEPT !.pool = Without(@, c), !.pollAgain = TRUE, !.children = @ \ {c}]

\* advancePool, when the pool reports that the publish has finished.
EndStatic(m, c) ==
  LET k == [m EXCEPT !.pool = Without(@, c), !.pollAgain = TRUE, !.children = @ \ {c}]
  IN  IF c \in m.children THEN KeyDone(k, c) ELSE k

\* advancePool with EventPoolStoreRecordSuccess or EventPoolStoreRecordFailure.
AnswerStatic(m, c, n) ==
  LET k == [m EXCEPT !.pool[c].waiting = @ \ {n}, !.pollAgain = FALSE]
  IN  IF c \notin DOMAIN m.pool THEN PollPool(m)
      ELSE IF k.pool[c].todo # {} THEN AskNext(k, c)
      ELSE IF k.pool[c].waiting # {} THEN PollPool(k)
      ELSE {EndStatic(k, c)}

-----------------------------------------------------------------------------
(* Perform *)

\* Mutant: the key that is started is not noted as in flight.
StartKey_NotNoted(m, p) ==
  LET rp == m.regions[p]
      c  == <<p, rp.cursor + 1>>
  IN  StartStatic([m EXCEPT !.regions[p].cursor = @ + 1, !.children = @ \cup {c}],
                  c, Closest(rp.nodes, KeyAt(p, rp.cursor + 1)))

\* advanceRegion with EventRegionPoll, for a region that can start its next key.
StartKey(m, p) ==
  LET rp == m.regions[p]
      c  == <<p, rp.cursor + 1>>
  IN  StartStatic([m EXCEPT !.regions[p].cursor = @ + 1, !.regions[p].inflight = @ \cup {c},
                            !.children = @ \cup {c}],
                  c, Closest(rp.nodes, KeyAt(p, rp.cursor + 1)))

Startable(m) ==
  {p \in DOMAIN m.regions : /\ m.regions[p].cursor < Cardinality(KeysUnder(p))
                            /\ Cardinality(m.regions[p].inflight) < RegionMaxInFlight}

\* advanceRegions, in no particular order.
AdvanceRegions(m) ==
  IF Startable(m) = {} THEN {m} ELSE UNION {StartKey(m, p) : p \in Startable(m)}

\* Mutant: a survey that waits does not say until when.
SurveyState_NoDue(m, res) ==
  LET k == [m EXCEPT !.survey = res.s]
  IN  CASE res.kind = "FindCloser" -> [k EXCEPT !.emitted = {FindEvent}]
        [] res.kind = "Waiting"    -> k
        [] res.kind = "Idle"       -> [k EXCEPT !.due = TRUE]
        [] res.kind = "Finished"   ->
             StartRegionPublish([k EXCEPT !.due = FALSE, !.pollAgain = TRUE], res.region, res.nodes)
        [] res.kind \in {"Timeout", "Failure"} -> [k EXCEPT !.pollAgain = TRUE]

\* What advanceSurvey does with the state the survey reports.
SurveyState(m, res) ==
  LET k == [m EXCEPT !.survey = res.s]
  IN  CASE res.kind = "FindCloser" -> [k EXCEPT !.emitted = {FindEvent}]
        [] res.kind \in {"Waiting", "Idle"} -> [k EXCEPT !.due = TRUE]
        [] res.kind = "Finished"   ->
             StartRegionPublish([k EXCEPT !.due = FALSE, !.pollAgain = TRUE], res.region, res.nodes)
        [] res.kind \in {"Timeout", "Failure"} -> [k EXCEPT !.pollAgain = TRUE]

\* advanceSurvey.
PollSurvey(m) == {SurveyState(m, res) : res \in AdvanceSurvey(m.survey)}

\* nextPendingOutbound.
PopOutbound(m) ==
  IF m.outbound = 0 THEN m
  ELSE [m EXCEPT !.outbound = @ - 1, !.emitted = {Event("Notice", NoChild, <<>>)}]

\* performNextInbound: the answer to a store request may bring news for the routing
\* behaviour, of closer nodes or of a failure.
PerformNextInbound(m) ==
  LET ev == Head(m.inbound)
      k  == [m EXCEPT !.inbound = Tail(@)]
  IN  IF m.inbound = <<>> THEN {m}
      ELSE IF ev.kind = "Find" THEN PollSurvey(k)
      ELSE UNION {AnswerStatic(l, ev.child, ev.node) : l \in {k, [k EXCEPT !.outbound = @ + 1]}}

\* The steps of Perform, each taken unless one before it returned an event.
Performed(m) ==
  LET k            == PopOutbound(m)
      afterInbound == IF k.emitted # {} THEN {k} ELSE PerformNextInbound(k)
      afterRegions == UNION {IF l.emitted # {} THEN {l} ELSE AdvanceRegions(l) : l \in afterInbound}
      afterSurvey  == UNION {IF l.emitted # {} THEN {l} ELSE PollSurvey(l) : l \in afterRegions}
      afterPool    == UNION {IF l.emitted # {} THEN {l} ELSE PollPool(l) : l \in afterSurvey}
  IN  {IF l.emitted # {} THEN l ELSE PopOutbound(l) : l \in afterPool}

InFlight == finds + BagCardinality(stores)

\* Notify, with q for the inbound queue.  Callers and the other behaviours fill it too, so
\* that it may have no room for an answer at any time, which is then dropped.
Notify(q, ev) ==
  \/ /\ inbound' = Append(q, ev)
     /\ lost' = lost \ {ev}
  \/ /\ inbound' = q
     /\ IF ev.kind = "Store" THEN lost' = lost \cup {ev} ELSE lost' = lost
     /\ Cardinality(lost') <= MaxLost

\* The network takes a request or, with no capacity left, answers at once that it was
\* refused.
Dispatch(m, ev) ==
  CASE ev.kind = "Notice" -> inbound' = m.inbound /\ UNCHANGED <<finds, stores, lost>>
    [] ev.kind = "Find" ->
         \/ /\ InFlight < NetworkCapacity
            /\ finds' = finds + 1
            /\ inbound' = m.inbound
            /\ UNCHANGED <<stores, lost>>
         \/ Notify(m.inbound, ev) /\ UNCHANGED <<finds, stores>>
    [] ev.kind = "Store" ->
         \/ /\ InFlight < NetworkCapacity
            /\ stores' = stores (+) SetToBag({ev})
            /\ lost' = lost \ {ev}
            /\ inbound' = m.inbound
            /\ UNCHANGED finds
         \/ Notify(m.inbound, ev) /\ UNCHANGED <<finds, stores>>

\* Perform, updateReadyStatus and the dispatch of the event.
Perform ==
  /\ ready
  /\ \E m \in Performed(Machine) :
       /\ survey' = m.survey
       /\ regions' = m.regions
       /\ children' = m.children
       /\ pool' = m.pool
       /\ surveyDue' = m.due
       /\ outbound' = m.outbound
       /\ \/ /\ m.emitted = {}
             /\ inbound' = m.inbound
             /\ ready' = (m.pollAgain \/ m.outbound > 0 \/ m.inbound # <<>>)
             /\ timer' = IF ready' THEN timer ELSE m.due
             /\ UNCHANGED <<finds, stores, lost>>
          \/ /\ \E ev \in m.emitted : Dispatch(m, ev)
             /\ ready' = TRUE
             /\ UNCHANGED timer

-----------------------------------------------------------------------------
(* The other goroutines and the clock *)

\* A node handler delivers the answer to a request, or its failure: the behaviour is ready
\* for it, unless it was dropped.
AnswerFind ==
  /\ finds > 0
  /\ finds' = finds - 1
  /\ Notify(inbound, FindEvent)
  /\ IF inbound' = inbound THEN UNCHANGED ready ELSE ready' = TRUE
  /\ UNCHANGED <<survey, regions, children, pool, surveyDue, outbound, timer, stores>>

AnswerStore(ev) ==
  /\ BagIn(ev, stores)
  /\ stores' = stores (-) SetToBag({ev})
  /\ Notify(inbound, ev)
  /\ IF inbound' = inbound THEN UNCHANGED ready ELSE ready' = TRUE
  /\ UNCHANGED <<survey, regions, children, pool, surveyDue, outbound, timer, finds>>

\* There is an event for a publish that a caller asked for.
Wake ==
  /\ ~ready
  /\ ready' = TRUE
  /\ UNCHANGED <<survey, regions, children, pool, surveyDue, inbound, outbound, timer, finds, stores, lost>>

\* The ready timer fires.
Fire ==
  /\ timer
  /\ timer' = FALSE
  /\ ready' = TRUE
  /\ UNCHANGED <<survey, regions, children, pool, surveyDue, inbound, outbound, finds, stores, lost>>

\* Time passes.
Tick(Passing(_)) ==
  /\ survey' \in Passing(survey)
  /\ UNCHANGED <<regions, children, pool, surveyDue, inbound, outbound, ready, timer, finds, stores, lost>>

Next ==
  \/ Perform \/ AnswerFind \/ Wake \/ Fire \/ Tick(FallDue) \/ Tick(Expire)
  \/ \E ev \in BagToSet(stores) : AnswerStore(ev)

Spec == Init /\ [][Next]_vars

\* Weak fairness of Perform, written out: Perform can be taken, and changes the
\* state, whenever the behaviour is ready.
PerformFair == []<>~ready \/ []<><<Perform>>_vars

\* The event loop runs a behaviour that is ready, time passes, the timer fires, and a
\* node handler answers every request, or its timeout does, though the answer may be dropped.
FairSpec ==
  /\ Spec
  /\ PerformFair
  /\ WF_vars(Tick(FallDue)) /\ WF_vars(Tick(Expire)) /\ WF_vars(Fire)
  /\ WF_vars(AnswerFind) /\ WF_vars(\E ev \in BagToSet(stores) : AnswerStore(ev))

-----------------------------------------------------------------------------
(* Properties *)

\* The scheduled regions are those of the table, through every split and merge, and
\* tile the keyspace: every key falls in one of them.
RegionsTile ==
  /\ survey.seeded => DOMAIN survey.sched = DOMAIN survey.table
  /\ \A k \in Key : Cardinality({p \in DOMAIN survey.table : IsPrefix(p, k)}) = 1

\* No region of several keys holds more nodes than the maximum population, or than
\* the two that were merged into it may have had.
PopulationsBounded ==
  \A p \in DOMAIN survey.table :
    Len(p) < BitLen => survey.table[p] <= Max({MaxPopulation, 2 * MinPopulation})

\* Every publish that a region waits for is in the pool, will be recognised as the
\* region's when it ends, and waits in turn for an answer that is on its way, also
\* when the region was surveyed again and its publish replaced.  Only an answer that
\* was dropped is waited for in vain, until the region is surveyed again.
SlotsAreFreed ==
  /\ \A p \in DOMAIN regions : regions[p].inflight \subseteq children
  /\ children = DOMAIN pool
  /\ \A c \in DOMAIN pool : \A n \in pool[c].waiting :
       \/ BagIn(Event("Store", c, n), stores)
       \/ Contains(inbound, Event("Store", c, n))
       \/ Event("Store", c, n) \in lost

\* At rest a region publish that has started a key waits for one: none is forgotten
\* between two keys, and no node of the keys that were started is left to ask.  It says
\* nothing of a region whose first key is yet to start: SurveySleepsSoundly is about that.
RegionsKeepGoing ==
  ~ready =>
    /\ \A p \in DOMAIN regions : regions[p].cursor > 0 => regions[p].inflight # {}
    /\ \A c \in DOMAIN pool : pool[c].todo = {}

\* A behaviour that sleeps while a survey runs will be woken for it.  Of a survey that has
\* ended it says nothing: SurveySleepsSoundly is about that.
RunningSurveyWoken == ~ready /\ survey.running => timer

\* A behaviour that is woken again and again takes up every region that has fallen due:
\* a region that comes back from a merge or a split, ahead of those that wait, does not
\* keep the others waiting, and neither does a lost answer.
DueRegionsTakenUp ==
  []<>ready => \A k \in Key : []<>~IsDue(survey, Locate(survey.table, k))

\* "Otherwise a node that is never notified never surveys": a behaviour that sleeps has
\* its timer armed for the survey.
SurveySleepsSoundly == ~ready => timer
=============================================================================
