------------------------------- MODULE Probe --------------------------------
(***************************************************************************)
(* routing/probe.go: the state machine that checks, at intervals, that the *)
(* nodes of the routing table still answer.  Every operator gives the set  *)
(* of results Probe.Advance may have: which of several overdue nodes comes *)
(* first depends on the order of a heap and of a loosely ordered list.     *)
(***************************************************************************)
EXTENDS CheckTimes

CONSTANTS
  ProbeConcurrency,  \* ProbeConfig.Concurrency
  CheckInterval      \* ProbeConfig.CheckInterval, in ticks

ASSUME ProbeAssumption ==
  /\ ProbeConcurrency \in Nat \ {0}
  /\ CheckInterval \in Nat \ {0}

\* nodeValueList: a node is in neither list, pending with the ticks until its next
\* check, or ongoing with the ticks until its check's deadline.
Entry(list, t) == [list |-> list, t |-> t]

NewProbe == [n \in Node |-> Entry("none", NoTime)]

Listed(p, list) == {n \in Node : p[n].list = list}

Monitored(p) == Listed(p, "pending") \cup Listed(p, "ongoing")

Overdue(p, list) == {n \in Listed(p, list) : p[n].t <= 0}

ProbeRet(p, rt, kind, n, due) ==
  [probe |-> p, rt |-> rt, kind |-> kind, node |-> n, due |-> due]

Put(p, n) == [p EXCEPT ![n] = Entry("pending", CheckInterval)]

\* A node that failed leaves the list and the routing table.
Dropped(p, rt, n) ==
  ProbeRet([p EXCEPT ![n] = Entry("none", NoTime)], rt \ {n}, "Failure", n, NoTime)

DueTimes(p, lists) == Earliest({p[n].t : n \in {m \in Node : p[m].list \in lists}})

ProbeFull(p) == ProbeConcurrency <= Cardinality(Listed(p, "ongoing"))

\* Mutant: the deadlines of running checks are not part of the due time.
ProbeDue_PendingOnly(p) ==
  IF ProbeFull(p) THEN NoTime ELSE DueTimes(p, {"pending"})

\* At capacity only the end of a check makes progress possible.
ProbeDue(p) ==
  IF ProbeFull(p) THEN DueTimes(p, {"ongoing"}) ELSE DueTimes(p, {"pending", "ongoing"})

Due(p) == Overdue(p, "pending")

\* An overdue check fails its node; otherwise the node due first is checked.
ProbeWalk(p, rt) ==
  IF Overdue(p, "ongoing") # {}
  THEN {Dropped(p, rt, n) : n \in Overdue(p, "ongoing")}
  ELSE IF ProbeFull(p) \/ Due(p) = {}
  THEN {ProbeRet(p, rt, "Waiting", NoNode, ProbeDue(p))}
  ELSE {ProbeRet([p EXCEPT ![n] = Entry("ongoing", CheckTimeout)], rt, "Check", n, NoTime) :
          n \in {m \in Due(p) : \A o \in Due(p) : p[m].t <= p[o].t}}

\* Mutant: a node that has left the table is monitored.
ProbeAdd_Unchecked(p, rt, n) == ProbeWalk(Put(p, n), rt)

\* A node that has left the table since it was added to it is not monitored.
ProbeAdd(p, rt, n) == ProbeWalk(IF n \in rt THEN Put(p, n) ELSE p, rt)

\* A check that passed or was never sent, or news that the node is connected, puts
\* the next check off.
ProbePutOff(p, rt, n) == ProbeWalk(IF n \in Monitored(p) THEN Put(p, n) ELSE p, rt)

\* A failed check, or news that the node is not connected: the node is removed,
\* whether or not it was there, and nothing else is done.
ProbeRemove(p, rt, n) == {Dropped(p, rt, n)}

ProbeElapse(p) ==
  [n \in Node |-> Entry(p[n].list, IF p[n].list = "ongoing" THEN Nearing(p[n].t)
                                   ELSE CountDown(p[n].t))]
=============================================================================
