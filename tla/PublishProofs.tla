---------------------------- MODULE PublishProofs ----------------------------
(***************************************************************************)
(* Proofs about Publish, for any number of publishes and nodes.            *)
(*                                                                         *)
(* A publish is followed through its own Advance first (its accounts and   *)
(* its query), then the pool through the walk over its publishes, against  *)
(* a ledger of what each has asked and been answered, and at last the      *)
(* behaviour, which makes what the pool reports true of the variables.     *)
(***************************************************************************)
EXTENDS Publish, FiniteSetTheorems, WellFoundedInduction, TLAPS

JobKind == {"none", "Static", "FollowUp", "Optimistic"}

JobType ==
  [kind : JobKind, todo : SUBSET Node, waiting : SUBSET Node, success : SUBSET Node,
   failed : SUBSET Node, closest : SUBSET Node, seen : SUBSET Node, contacted : SUBSET Node,
   walking : BOOLEAN, stopped : BOOLEAN]

OutType ==
  [kind : {"none", "Idle", "Waiting", "FindCloser", "Store", "Finished"}, job : Job \cup {"none"},
   node : Node \cup {0}, contacted : SUBSET Node, errors : SUBSET Node]

MachineType ==
  [jobs : [Job -> JobType], queries : SUBSET Job, sent : [Job -> Int],
   mixed : SUBSET Job, due : BOOLEAN, out : OutType]

\* m has become k by a step of the publish j that reports nothing yet.
Changed(m, k, j) ==
  /\ k \in MachineType
  /\ \A i \in Job \ {j} : k.jobs[i] = m.jobs[i]
  /\ k.jobs[j].kind = m.jobs[j].kind
  /\ k.queries = m.queries /\ k.mixed = m.mixed /\ k.due = m.due /\ k.out = m.out

\* k is m with another record for the publish j.
Put(m, k, j, job) == k = [m EXCEPT !.jobs = [m.jobs EXCEPT ![j] = job]]

\* The record of a publish is replaced.
LEMMA PutSound ==
  ASSUME NEW m \in MachineType, NEW j \in Job, NEW job \in JobType, job.kind = m.jobs[j].kind,
         NEW k, Put(m, k, j, job)
  PROVE  Changed(m, k, j) /\ k.jobs[j] = job
<1> DEFINE js == [m.jobs EXCEPT ![j] = job]
<1>1. js \in [Job -> JobType] /\ js[j] = job /\ \A i \in Job \ {j} : js[i] = m.jobs[i]
  BY DEF MachineType
<1> HIDE DEF js
<1>2. k \in MachineType /\ k.jobs = js /\ k.queries = m.queries /\ k.mixed = m.mixed
      /\ k.due = m.due /\ k.out = m.out
  BY <1>1 DEF MachineType, js, Put
<1> QED
  BY <1>1, <1>2 DEF Changed
-----------------------------------------------------------------------------
(* The accounts of a publish *)

\* The publish job has asked the nodes a to store the record, of which r did not: those it
\* waits for and those that have answered are the ones it asked, and none that it has
\* yet to ask is among them.
JobSound(job, a, r) ==
  /\ job.kind # "none"
  /\ a = job.waiting \cup job.success \cup job.failed
  /\ r = job.failed
  /\ job.todo \cap a = {}
  /\ job.kind = "FollowUp" =>
       IF job.closest = {} THEN job.todo = {} /\ a = {} ELSE job.closest = job.todo \cup a
  /\ job.kind = "Optimistic" => job.contacted = a /\ job.todo \cup a \subseteq job.seen

\* An advance of the publish j that waited for w has led to k, and the accounts agree
\* with what it reports.  A publish that was stopped may report more than it asked.
Accounted(k, j, a, r, w, stop) ==
  /\ k.out.kind = "Store" =>
       /\ w \subseteq a /\ k.out.node \notin a
       /\ JobSound(k.jobs[j], a \cup {k.out.node}, r)
       /\ k.jobs[j].waiting = w \cup {k.out.node}
  /\ k.out.kind = "Finished" =>
       /\ a \subseteq k.out.contacted /\ r \subseteq k.out.errors
       /\ ~stop => k.out.contacted = a /\ k.out.errors = r /\ w = {}
  /\ k.out.kind \notin {"Store", "Finished"} =>
       JobSound(k.jobs[j], a, r) /\ k.jobs[j].waiting = w

\* The publish j leaves the queries of the others alone, but for those that it mixes up.
QueriesKept(m, k, j) ==
  /\ m.mixed \subseteq k.mixed
  /\ \A i \in Job \ {j} : i \in k.mixed \/ (i \in k.queries <=> i \in m.queries)

\* An advance of the publish j has turned m into k.
Moved(m, k, j) ==
  /\ k \in MachineType
  /\ \A i \in Job \ {j} : k.jobs[i] = m.jobs[i]
  /\ QueriesKept(m, k, j)
  /\ m.due => k.due
  /\ k.out.kind # "none"
  /\ k.out.kind \in {"Store", "Finished"} => k.out.job = j
  /\ k.out.kind = "Store" => k.out.node \in Node
  /\ k.out.kind = "FindCloser" => k.out.job \in Job
  /\ k.out.kind = "Finished" => k.jobs[j] = NoJob
  /\ k.out.kind # "Finished" => k.jobs[j].kind = m.jobs[j].kind

\* A publish is stopped only when it is told to.
Halts(m, k, j, stop) == k.jobs[j].stopped => m.jobs[j].stopped \/ stop

\* A publish that does not ask to be advanced at a due time waits for an answer.
Calm(k, j) ==
  /\ k.out.kind # "Idle"
  /\ k.out.kind = "Waiting" => k.due \/ (k.jobs[j].waiting # {} /\ k.jobs[j].todo = {})

Reported(m, k, kind, j) ==
  /\ k \in MachineType /\ k.jobs = m.jobs /\ k.queries = m.queries /\ k.mixed = m.mixed
  /\ k.due = m.due
  /\ k.out.kind = kind /\ k.out.job = j

\* What a publish reports while it goes on.
LEMMA ReportSound ==
  ASSUME NEW m \in MachineType, NEW j \in Job \cup {"none"},
         NEW kind \in {"Idle", "Waiting", "FindCloser"}, NEW k, k = Report(m, kind, j)
  PROVE  Reported(m, k, kind, j)
<1> DEFINE o == [NoOut EXCEPT !.kind = kind, !.job = j]
<1>1. o \in OutType /\ o.kind = kind /\ o.job = j
  BY DEF NoOut, OutType
<1>2. k = [m EXCEPT !.out = o]
  BY DEF Report
<1> HIDE DEF o
<1> QED
  BY <1>1, <1>2 DEF MachineType, Reported

Waited(m, k, due) ==
  /\ k \in MachineType /\ k.jobs = m.jobs /\ k.queries = m.queries /\ k.mixed = m.mixed
  /\ k.due = (m.due \/ due) /\ k.out.kind = "Waiting"

\* The same, with a due time or without.
LEMMA WaitSound ==
  ASSUME NEW m \in MachineType, NEW j \in Job, NEW due \in BOOLEAN, NEW k, k = Wait(m, j, due)
  PROVE  Waited(m, k, due)
<1> DEFINE l == Report(m, "Waiting", j)
           d == m.due \/ due
<1>1. /\ l \in MachineType /\ l.jobs = m.jobs /\ l.queries = m.queries /\ l.mixed = m.mixed
      /\ l.due = m.due
      /\ l.out.kind = "Waiting"
  BY ReportSound DEF Reported
<1>2. k = [l EXCEPT !.due = l.due \/ due]
  BY DEF Wait
<1>3. d \in BOOLEAN
  OBVIOUS
<1> HIDE DEF l
<1>4. k = [l EXCEPT !.due = d]
  BY <1>1, <1>2
<1> HIDE DEF d
<1>5. /\ k \in MachineType /\ k.jobs = l.jobs /\ k.queries = l.queries /\ k.mixed = l.mixed
      /\ k.due = d /\ k.out = l.out
  BY <1>1, <1>3, <1>4 DEF MachineType
<1> QED
  BY <1>1, <1>5 DEF d, Waited

Ended(m, k, j, c, e) ==
  /\ Moved(m, k, j) /\ k.queries = m.queries /\ k.mixed = m.mixed /\ k.out.kind = "Finished"
  /\ k.out.contacted = c /\ k.out.errors = e /\ k.jobs[j] = NoJob

\* The end of a publish.
LEMMA FinishSound ==
  ASSUME NEW m \in MachineType, NEW j \in Job, NEW c \in SUBSET Node, NEW e \in SUBSET Node,
         NEW k, k = Finish(m, j, c, e)
  PROVE  Ended(m, k, j, c, e)
<1> DEFINE o == [NoOut EXCEPT !.kind = "Finished", !.job = j, !.contacted = c, !.errors = e]
           js == [m.jobs EXCEPT ![j] = NoJob]
<1>1. o \in OutType /\ o.kind = "Finished" /\ o.job = j /\ o.contacted = c /\ o.errors = e
  BY DEF NoOut, OutType
<1>2. NoJob \in JobType
  BY DEF NoJob, NewJob, JobType, JobKind
<1>3. js \in [Job -> JobType] /\ js[j] = NoJob /\ \A i \in Job \ {j} : js[i] = m.jobs[i]
  BY <1>2 DEF MachineType
<1>4. k = [m EXCEPT !.jobs = js, !.out = o]
  BY DEF Finish
<1> HIDE DEF o, js
<1>5. k \in MachineType /\ k.jobs = js /\ k.queries = m.queries /\ k.mixed = m.mixed
      /\ k.due = m.due /\ k.out = o
  BY <1>1, <1>3, <1>4 DEF MachineType
<1> QED
  BY <1>1, <1>3, <1>5 DEF Moved, QueriesKept, Ended

\* The publish j, whose accounts are a and r, has asked a node to store the record.
HandedOut(m, k, j, a, r, stop) ==
  /\ Moved(m, k, j) /\ k.queries = m.queries /\ k.mixed = m.mixed /\ k.out.kind = "Store"
  /\ k.jobs[j].walking = m.jobs[j].walking /\ k.jobs[j].closest = m.jobs[j].closest
  /\ k.jobs[j].stopped = m.jobs[j].stopped
  /\ JobSound(m.jobs[j], a, r) => Accounted(k, j, a, r, m.jobs[j].waiting, stop)

\* The next node is asked to store the record.
LEMMA StoreSound ==
  ASSUME NEW m \in MachineType, NEW j \in Job, NEW n \in m.jobs[j].todo,
         NEW a, NEW r, NEW stop \in BOOLEAN, NEW k, k = Store(m, j, n)
  PROVE  HandedOut(m, k, j, a, r, stop)
<1> DEFINE old == m.jobs[j]
           c == IF old.kind = "Optimistic" THEN old.contacted \cup {n} ELSE old.contacted
           job == [old EXCEPT !.todo = old.todo \ {n}, !.waiting = old.waiting \cup {n},
                              !.contacted = c]
           o == [NoOut EXCEPT !.kind = "Store", !.job = j, !.node = n]
           l == [m EXCEPT !.jobs = [m.jobs EXCEPT ![j] = job]]
<1>1. m.jobs \in [Job -> JobType] /\ old \in JobType /\ n \in Node
  BY DEF MachineType, JobType
<1>2. k = [m EXCEPT !.jobs = [m.jobs EXCEPT ![j] = job], !.out = o]
  BY DEF Store
<1>3. o \in OutType /\ o.kind = "Store" /\ o.job = j /\ o.node = n
  BY <1>1 DEF NoOut, OutType
<1>4. c \in SUBSET Node
  BY <1>1 DEF JobType
<1> HIDE DEF o, old
<1>5. /\ job \in JobType /\ job.kind = old.kind /\ job.stopped = old.stopped
      /\ job.todo = old.todo \ {n} /\ job.waiting = old.waiting \cup {n}
      /\ job.success = old.success /\ job.failed = old.failed /\ job.closest = old.closest
      /\ job.seen = old.seen /\ job.contacted = c /\ job.walking = old.walking
  <2> HIDE DEF c
  <2> QED
    BY <1>1, <1>4 DEF JobType
<1> HIDE DEF job
<1>6. Changed(m, l, j) /\ l.jobs[j] = job
  <2>1. Put(m, l, j, job)
    BY DEF Put
  <2>2. job.kind = m.jobs[j].kind
    BY <1>5 DEF old
  <2> HIDE DEF l
  <2> QED
    BY <1>5, <2>1, <2>2, PutSound
<1>7. /\ k \in MachineType /\ k.jobs = l.jobs /\ k.queries = l.queries /\ k.mixed = l.mixed
      /\ k.due = l.due
      /\ k.out = o
  <2>1. k = [l EXCEPT !.out = o]
    BY <1>2 DEF MachineType
  <2> HIDE DEF l
  <2> QED
    BY <1>3, <1>6, <2>1 DEF MachineType, Changed
<1> HIDE DEF l
<1>8. Moved(m, k, j) /\ k.queries = m.queries /\ k.mixed = m.mixed /\ k.out.kind = "Store"
  BY <1>1, <1>3, <1>5, <1>6, <1>7 DEF Moved, QueriesKept, Changed, old
<1>9. ASSUME JobSound(old, a, r) PROVE Accounted(k, j, a, r, old.waiting, stop)
  <2>1. n \notin a
    BY <1>9 DEF JobSound, old
  <2>2. JobSound(job, a \cup {n}, r)
    BY <1>5, <1>9, <2>1 DEF JobSound, old
  <2> QED
    BY <1>3, <1>5, <1>6, <1>7, <1>9, <2>1, <2>2 DEF JobSound, Accounted
<1> QED
  BY <1>5, <1>6, <1>7, <1>8, <1>9 DEF HandedOut, old

\* An event that the pool has for a publish.
EventSound(ev) ==
  /\ ev.kind \in {"Start", "Stop", "Poll", "Response", "Failed", "Stored", "NotStored"}
  /\ ev.kind \in {"Stored", "NotStored"} => ev.node \in Node
  /\ ev.nodes \in SUBSET Node

Answers(ev) == ev.kind \in {"Stored", "NotStored"}

\* The nodes that did not store the record, and those that are waited for, with the event.
RefusedWith(r, ev) == IF ev.kind = "NotStored" THEN r \cup {ev.node} ELSE r

WaitingWith(w, ev) == IF Answers(ev) THEN w \ {ev.node} ELSE w

\* The answer to a store request.
LEMMA AnsweredSound ==
  ASSUME NEW m \in MachineType, NEW j \in Job, NEW ev, EventSound(ev), Answers(ev),
         NEW a, NEW r, NEW k, k = Answered(m, j, ev)
  PROVE  /\ Changed(m, k, j)
         /\ k.jobs[j].stopped = m.jobs[j].stopped /\ k.jobs[j].walking = m.jobs[j].walking
         /\ k.jobs[j].closest = m.jobs[j].closest
         /\ k.jobs[j].waiting = WaitingWith(m.jobs[j].waiting, ev)
         /\ JobSound(m.jobs[j], a, r) /\ ev.node \in m.jobs[j].waiting =>
              JobSound(k.jobs[j], a, RefusedWith(r, ev))
<1> DEFINE old == m.jobs[j]
           w == old.waiting \ {ev.node}
           s == old.success \cup {ev.node}
           f == old.failed \cup {ev.node}
           job == IF ev.kind = "Stored" THEN [old EXCEPT !.waiting = w, !.success = s]
                  ELSE [old EXCEPT !.waiting = w, !.failed = f]
<1>1. m.jobs \in [Job -> JobType] /\ old \in JobType /\ ev.node \in Node
  BY DEF MachineType, EventSound, Answers
<1>2. w \in SUBSET Node /\ s \in SUBSET Node /\ f \in SUBSET Node
  BY <1>1 DEF JobType
<1>3. Put(m, k, j, job)
  BY <1>1 DEF Answered, Put, MachineType, JobType
<1> HIDE DEF old, w, s, f
<1>4. /\ job \in JobType /\ job.kind = old.kind /\ job.stopped = old.stopped
      /\ job.walking = old.walking /\ job.closest = old.closest /\ job.todo = old.todo
      /\ job.seen = old.seen /\ job.contacted = old.contacted /\ job.waiting = w
  BY <1>1, <1>2 DEF JobType
<1>5. /\ ev.kind = "Stored" => job.success = s /\ job.failed = old.failed
      /\ ev.kind = "NotStored" => job.success = old.success /\ job.failed = f
  BY <1>1, <1>2 DEF JobType
<1> HIDE DEF job
<1>6. Changed(m, k, j) /\ k.jobs[j] = job
  <2>1. job.kind = m.jobs[j].kind
    BY <1>4 DEF old
  <2> QED
    BY <1>3, <1>4, <2>1, PutSound
<1>7. ASSUME JobSound(old, a, r), ev.node \in old.waiting
      PROVE  JobSound(job, a, RefusedWith(r, ev))
  <2>1. job.waiting \cup job.success \cup job.failed = old.waiting \cup old.success \cup old.failed
    BY <1>4, <1>5, <1>7 DEF Answers, w, s, f
  <2>2. job.failed = RefusedWith(old.failed, ev)
    BY <1>5 DEF RefusedWith, Answers, f
  <2> QED
    BY <1>4, <1>7, <2>1, <2>2 DEF JobSound, RefusedWith
<1> QED
  BY <1>4, <1>6, <1>7 DEF old, w, WaitingWith

\* A publish that is stopped counts as failed all the nodes it was not done with.
LEMMA CancelSound ==
  ASSUME NEW m \in MachineType, NEW j \in Job, NEW k, k = Cancel(m, j)
  PROVE  /\ Changed(m, k, j)
         /\ k.jobs[j].todo = {} /\ k.jobs[j].waiting = {}
         /\ k.jobs[j].success = m.jobs[j].success /\ k.jobs[j].closest = m.jobs[j].closest
         /\ k.jobs[j].failed = m.jobs[j].failed \cup m.jobs[j].todo \cup m.jobs[j].waiting
<1> DEFINE old == m.jobs[j]
           f == old.failed \cup old.todo \cup old.waiting
           job == [old EXCEPT !.failed = f, !.todo = {}, !.waiting = {}]
<1>1. m.jobs \in [Job -> JobType] /\ old \in JobType
  BY DEF MachineType
<1>2. f \in SUBSET Node
  BY <1>1 DEF JobType
<1>3. Put(m, k, j, job)
  BY <1>1 DEF Cancel, Put, MachineType, JobType
<1> HIDE DEF old, f
<1>4. /\ job \in JobType /\ job.kind = old.kind /\ job.todo = {} /\ job.waiting = {}
      /\ job.success = old.success /\ job.closest = old.closest /\ job.failed = f
  BY <1>1, <1>2 DEF JobType
<1> HIDE DEF job
<1>5. Changed(m, k, j) /\ k.jobs[j] = job
  <2>1. job.kind = m.jobs[j].kind
    BY <1>4 DEF old
  <2> QED
    BY <1>3, <1>4, <2>1, PutSound
<1> QED
  BY <1>4, <1>5 DEF old, f

\* A publish asks one of the nodes it has yet to ask, if there is any.
LEMMA HandOutSound ==
  ASSUME NEW m \in MachineType, NEW j \in Job, NEW a, NEW r, NEW stop \in BOOLEAN,
         NEW o, NEW k \in HandOut(m, j, o)
  PROVE  \/ m.jobs[j].todo = {} /\ k = o
         \/ m.jobs[j].todo # {} /\ HandedOut(m, k, j, a, r, stop)
<1>1. CASE m.jobs[j].todo = {}
  BY <1>1 DEF HandOut
<1>2. CASE m.jobs[j].todo # {}
  <2>1. PICK n \in m.jobs[j].todo : k = Store(m, j, n)
    BY <1>2 DEF HandOut
  <2>2. HandedOut(m, k, j, a, r, stop)
    BY <2>1, StoreSound
  <2> QED
    BY <1>2, <2>2
<1> QED
  BY <1>1, <1>2

\* The accounts of the publish j are right when the event comes: an answer is one that it
\* waits for, and a publish that is started is a new one.
Accountable(m, j, a, r, ev) ==
  /\ JobSound(m.jobs[j], a, r)
  /\ Answers(ev) => ev.node \in m.jobs[j].waiting
  /\ ev.kind = "Start" => m.jobs[j] = NewJob(m.jobs[j].kind)

\* ...and after it has been advanced with the event.
AccountedWith(m, k, j, a, r, ev) ==
  Accounted(k, j, a, RefusedWith(r, ev), WaitingWith(m.jobs[j].waiting, ev),
            m.jobs[j].stopped \/ ev.kind = "Stop")

\* What a static publish reports when it has asked all its nodes.
RestStatic(n, j) ==
  IF n.jobs[j].waiting # {} THEN Wait(n, j, FALSE)
  ELSE Finish(n, j, n.jobs[j].success \cup n.jobs[j].failed, n.jobs[j].failed)

GoneOnStatic(n, k, j, a, r, stop) ==
  /\ Moved(n, k, j) /\ k.queries = n.queries /\ k.mixed = n.mixed /\ Calm(k, j)
  /\ k.jobs[j].stopped => n.jobs[j].stopped
  /\ JobSound(n.jobs[j], a, r) => Accounted(k, j, a, r, n.jobs[j].waiting, stop)
  /\ n.jobs[j].todo = {} /\ n.jobs[j].waiting = {} =>
       /\ k.out.kind = "Finished"
       /\ k.out.contacted = n.jobs[j].success \cup n.jobs[j].failed
       /\ k.out.errors = n.jobs[j].failed

\* A static publish that has taken in the event goes on.
LEMMA GoOnStaticSound ==
  ASSUME NEW n \in MachineType, NEW j \in Job, NEW a, NEW r, n.jobs[j].kind = "Static",
         NEW stop \in BOOLEAN, NEW k \in HandOut(n, j, RestStatic(n, j))
  PROVE  GoneOnStatic(n, k, j, a, r, stop)
<1> DEFINE job == n.jobs[j]
<1>1. job \in JobType /\ job.success \cup job.failed \in SUBSET Node /\ job.failed \in SUBSET Node
  BY DEF MachineType, JobType
<1>2. \/ job.todo = {} /\ k = RestStatic(n, j)
      \/ job.todo # {} /\ HandedOut(n, k, j, a, r, stop)
  <2> HIDE DEF RestStatic
  <2> QED
    BY HandOutSound
<1>3. CASE job.todo # {} /\ HandedOut(n, k, j, a, r, stop)
  BY <1>3 DEF Calm, HandedOut, GoneOnStatic
<1>4. CASE job.todo = {} /\ k = RestStatic(n, j) /\ job.waiting # {}
  <2>1. PICK due \in BOOLEAN : due = FALSE
    OBVIOUS
  <2>2. k = Wait(n, j, due)
    BY <1>4, <2>1 DEF RestStatic
  <2>3. Waited(n, k, due)
    BY <2>2, WaitSound
  <2> QED
    BY <1>4, <2>3 DEF Waited, Moved, QueriesKept, Calm, Accounted, GoneOnStatic
<1>5. CASE job.todo = {} /\ k = RestStatic(n, j) /\ job.waiting = {}
  <2>1. PICK c \in SUBSET Node, e \in SUBSET Node :
          c = job.success \cup job.failed /\ e = job.failed
    BY <1>1
  <2>2. k = Finish(n, j, c, e)
    BY <1>5, <2>1 DEF RestStatic
  <2>3. Ended(n, k, j, c, e)
    BY <2>2, FinishSound
  <2>4. JobSound(job, a, r) => Accounted(k, j, a, r, job.waiting, stop)
    BY <1>5, <2>1, <2>3 DEF JobSound, Accounted, Ended
  <2> QED
    BY <1>5, <2>1, <2>3, <2>4 DEF Ended, NoJob, NewJob, Calm, GoneOnStatic
<1> QED
  BY <1>2, <1>3, <1>4, <1>5

\* A publish that has ended neither runs nor looks for nodes.
LEMMA NoJobSound ==
  NoJob \in JobType /\ NoJob.kind = "none" /\ ~NoJob.stopped /\ ~Walking(NoJob)
BY DEF NoJob, NewJob, JobType, JobKind, Walking

\* Static.Advance.
LEMMA AdvanceStaticSound ==
  ASSUME NEW m \in MachineType, NEW j \in Job, m.jobs[j].kind = "Static", NEW ev, EventSound(ev),
         NEW a, NEW r, NEW k \in AdvanceStatic(m, j, ev)
  PROVE  /\ Moved(m, k, j) /\ Halts(m, k, j, ev.kind = "Stop") /\ k.queries = m.queries
         /\ k.mixed = m.mixed
         /\ Calm(k, j) /\ (k.jobs[j].stopped => m.jobs[j].stopped)
         /\ Accountable(m, j, a, r, ev) => AccountedWith(m, k, j, a, r, ev)
<1> DEFINE old == m.jobs[j]
           w == WaitingWith(old.waiting, ev)
<1>1. PICK n : /\ n = CASE ev.kind = "Start" -> [m EXCEPT !.jobs[j].todo = ev.nodes]
                        [] ev.kind = "Stop"  -> Cancel(m, j)
                        [] ev.kind \in {"Stored", "NotStored"} -> Answered(m, j, ev)
                        [] OTHER             -> m
               /\ k \in HandOut(n, j, RestStatic(n, j))
  BY DEF AdvanceStatic, RestStatic
<1>2. old \in JobType /\ m.jobs \in [Job -> JobType]
  BY DEF MachineType
<1>3. ASSUME Changed(m, n, j), n.jobs[j].stopped => old.stopped, n.jobs[j].waiting = w,
             Accountable(m, j, a, r, ev) => JobSound(n.jobs[j], a, RefusedWith(r, ev))
      PROVE  /\ Moved(m, k, j) /\ Halts(m, k, j, ev.kind = "Stop") /\ k.queries = m.queries
             /\ k.mixed = m.mixed
             /\ Calm(k, j) /\ (k.jobs[j].stopped => old.stopped)
             /\ Accountable(m, j, a, r, ev) => AccountedWith(m, k, j, a, r, ev)
  <2> DEFINE stop == old.stopped \/ ev.kind = "Stop"
             r1 == RefusedWith(r, ev)
  <2>1. n \in MachineType /\ n.jobs[j].kind = "Static" /\ stop \in BOOLEAN
    BY <1>2, <1>3 DEF Changed, JobType
  <2> HIDE DEF stop, r1
  <2>2. GoneOnStatic(n, k, j, a, r1, stop)
    BY <1>1, <2>1, GoOnStaticSound
  <2>3. Moved(m, k, j) /\ k.queries = m.queries /\ k.mixed = m.mixed
    BY <1>3, <2>2 DEF Moved, QueriesKept, Changed, GoneOnStatic
  <2> QED
    BY <1>3, <2>2, <2>3 DEF GoneOnStatic, Halts, AccountedWith, stop, r1
<1>4. CASE ev.kind = "Start"
  <2> DEFINE job == [old EXCEPT !.todo = ev.nodes]
  <2>1. Put(m, n, j, job)
    BY <1>1, <1>2, <1>4 DEF Put, MachineType
  <2>2. /\ job \in JobType /\ job.kind = old.kind /\ job.stopped = old.stopped
        /\ job.waiting = old.waiting /\ job.success = old.success /\ job.failed = old.failed
    BY <1>2 DEF JobType, EventSound
  <2>3. Changed(m, n, j) /\ n.jobs[j] = job
    <3> HIDE DEF job
    <3> QED
      BY <2>1, <2>2, PutSound
  <2>4. w = old.waiting /\ RefusedWith(r, ev) = r
    BY <1>4 DEF WaitingWith, RefusedWith, Answers
  <2>5. Accountable(m, j, a, r, ev) => JobSound(job, a, r)
    <3>1. ASSUME Accountable(m, j, a, r, ev) PROVE JobSound(job, a, r)
      <4>1. old.waiting = {} /\ old.success = {} /\ old.failed = {} /\ a = {} /\ r = {}
        BY <1>4, <3>1 DEF Accountable, NewJob, JobSound
      <4> QED
        BY <2>2, <4>1 DEF JobSound
    <3> QED
      BY <3>1
  <2> HIDE DEF job
  <2> QED
    BY <1>3, <2>2, <2>3, <2>4, <2>5
<1>5. CASE ev.kind = "Stop"
  <2>1. n = Cancel(m, j)
    BY <1>1, <1>5
  <2>2. /\ Changed(m, n, j)
        /\ n.jobs[j].todo = {} /\ n.jobs[j].waiting = {}
        /\ n.jobs[j].success = old.success
        /\ n.jobs[j].failed = old.failed \cup old.todo \cup old.waiting
    BY <2>1, CancelSound
  <2>3. n \in MachineType /\ n.jobs[j].kind = "Static"
    BY <2>2 DEF Changed
  <2>4. /\ Moved(n, k, j) /\ k.queries = n.queries /\ k.mixed = n.mixed /\ Calm(k, j)
        /\ k.out.kind = "Finished"
        /\ k.out.contacted = n.jobs[j].success \cup n.jobs[j].failed
        /\ k.out.errors = n.jobs[j].failed
    <3>1. GoneOnStatic(n, k, j, a, r, TRUE)
      BY <1>1, <2>3, GoOnStaticSound
    <3> QED
      BY <2>2, <3>1 DEF GoneOnStatic
  <2>5. Moved(m, k, j) /\ k.queries = m.queries /\ k.mixed = m.mixed
    BY <2>2, <2>4 DEF Moved, QueriesKept, Changed
  <2>6. Accountable(m, j, a, r, ev) => AccountedWith(m, k, j, a, r, ev)
    BY <1>5, <2>2, <2>4 DEF Accountable, JobSound, AccountedWith, Accounted, RefusedWith
  <2> QED
    BY <1>5, <2>4, <2>5, <2>6, NoJobSound DEF Halts, Moved
<1>6. CASE Answers(ev)
  <2>1. n = Answered(m, j, ev)
    BY <1>1, <1>6 DEF Answers
  <2>2. /\ Changed(m, n, j) /\ n.jobs[j].stopped = old.stopped /\ n.jobs[j].waiting = w
        /\ JobSound(old, a, r) /\ ev.node \in old.waiting =>
             JobSound(n.jobs[j], a, RefusedWith(r, ev))
    BY <1>6, <2>1, AnsweredSound
  <2> QED
    BY <1>3, <1>6, <2>2 DEF Accountable
<1>7. CASE ev.kind \in {"Poll", "Response", "Failed"}
  <2>1. n = m
    BY <1>1, <1>7
  <2>2. w = old.waiting /\ RefusedWith(r, ev) = r
    BY <1>7 DEF WaitingWith, RefusedWith, Answers
  <2> QED
    BY <1>3, <2>1, <2>2 DEF Changed, Accountable
<1> QED
  BY <1>4, <1>5, <1>6, <1>7 DEF EventSound, Answers

-----------------------------------------------------------------------------
(* The query pool *)

\* What an advance of the query pool of m by the publish j may give: unless it is mixed up
\* with another one, the query that ends is its own.
QuerySound(m, res, j) ==
  /\ res.m \in MachineType /\ res.m.jobs = m.jobs /\ res.m.due = m.due
  /\ res.nodes \in SUBSET Node
  /\ QueriesKept(m, res.m, j)
  /\ \/ res.kind = "Idle" /\ m.queries = {} /\ res.m.queries = {}
     \/ res.kind = "FindCloser" /\ res.id \in m.queries /\ res.m.queries = m.queries
     \/ res.kind = "Waiting" /\ m.queries # {} /\ res.m.queries = m.queries
     \/ /\ res.kind \in {"Finished", "Timeout"} /\ res.id \in m.queries
        /\ res.m.queries = m.queries \ {res.id}
        /\ j \in res.m.mixed \/ res.id = j

\* The query id has ended with an advance by the publish j.
QueryEnded(m, k, id, j) ==
  /\ k \in MachineType /\ k.jobs = m.jobs /\ k.due = m.due /\ k.queries = m.queries \ {id}
  /\ QueriesKept(m, k, j) /\ (j \in k.mixed \/ id = j)

\* The query id goes on with another request.
QueryGoesOn(m, k) ==
  k \in MachineType /\ k.jobs = m.jobs /\ k.due = m.due /\ k.queries = m.queries /\
    k.mixed = m.mixed

\* The end of a query.
LEMMA EndQuerySound ==
  ASSUME NEW m \in MachineType, NEW id \in m.queries, NEW j \in Job, NEW k, k = EndQuery(m, id, j)
  PROVE  QueryEnded(m, k, id, j)
<1> DEFINE mx == IF id = j THEN m.mixed ELSE m.mixed \cup {id, j}
           qs == m.queries \ {id}
<1>1. id \in Job /\ qs \in SUBSET Job /\ mx \in SUBSET Job
  BY DEF MachineType
<1>2. k = [m EXCEPT !.queries = qs, !.mixed = mx]
  BY DEF EndQuery
<1> HIDE DEF mx, qs
<1>3. k \in MachineType /\ k.jobs = m.jobs /\ k.due = m.due /\ k.queries = qs /\ k.mixed = mx
  BY <1>1, <1>2 DEF MachineType
<1> QED
  BY <1>3 DEF QueryEnded, QueriesKept, mx, qs

\* The request of a query that goes on.
LEMMA RequestSound ==
  ASSUME NEW m \in MachineType, NEW id \in m.queries, NEW k, k = [m EXCEPT !.sent[id] = @ + 1]
  PROVE  QueryGoesOn(m, k)
<1> DEFINE s == [m.sent EXCEPT ![id] = m.sent[id] + 1]
<1>1. s \in [Job -> Int]
  BY DEF MachineType
<1>2. k = [m EXCEPT !.sent = s]
  BY DEF MachineType
<1> HIDE DEF s
<1> QED
  BY <1>1, <1>2 DEF MachineType, QueryGoesOn

\* query.Pool.Advance by the publish j.
LEMMA QueriesSound ==
  ASSUME NEW m \in MachineType, NEW j \in Job, NEW res \in AdvanceQueries(m, j)
  PROVE  QuerySound(m, res, j)
<1> USE DEF QueryResult
<1>1. CASE m.queries = {}
  BY <1>1 DEF AdvanceQueries, QuerySound, QueriesKept
<1>2. CASE m.queries # {}
  <2>1. \/ \E id \in m.queries :
             res = QueryResult([m EXCEPT !.sent[id] = @ + 1], "FindCloser", id, {})
        \/ \E id \in m.queries, nodes \in NodeSets :
             res = QueryResult(EndQuery(m, id, j), "Finished", id, nodes)
        \/ \E id \in m.queries : res = QueryResult(EndQuery(m, id, j), "Timeout", id, {})
        \/ res = QueryResult(m, "Waiting", "none", {})
    <3> HIDE DEF QueryResult
    <3>1. \/ \E id \in m.queries :
               res = QueryResult([m EXCEPT !.sent[id] = @ + 1], "FindCloser", id, {})
          \/ \E id \in m.queries : res \in AdvanceQuery(m, id, j)
      BY <1>2 DEF AdvanceQueries
    <3>2. ASSUME NEW id \in m.queries, res \in AdvanceQuery(m, id, j)
          PROVE  \/ \E nodes \in NodeSets :
                    res = QueryResult(EndQuery(m, id, j), "Finished", id, nodes)
                 \/ res = QueryResult(EndQuery(m, id, j), "Timeout", id, {})
                 \/ res = QueryResult(m, "Waiting", "none", {})
      BY <3>2 DEF AdvanceQuery
    <3> QED
      BY <3>1, <3>2
  <2>2. ASSUME NEW id \in m.queries,
               res = QueryResult([m EXCEPT !.sent[id] = @ + 1], "FindCloser", id, {})
        PROVE  QuerySound(m, res, j)
    <3> DEFINE k == [m EXCEPT !.sent[id] = @ + 1]
    <3>1. QueryGoesOn(m, k)
      BY RequestSound
    <3>2. res.m = k /\ res.kind = "FindCloser" /\ res.id = id /\ res.nodes = {}
      BY <2>2
    <3> HIDE DEF k
    <3> QED
      BY <3>1, <3>2 DEF QuerySound, QueryGoesOn, QueriesKept
  <2>3. ASSUME NEW id \in m.queries, NEW nodes \in SUBSET Node,
               NEW kind \in {"Finished", "Timeout"},
               res = QueryResult(EndQuery(m, id, j), kind, id, nodes)
        PROVE  QuerySound(m, res, j)
    <3> DEFINE k == EndQuery(m, id, j)
    <3>1. QueryEnded(m, k, id, j)
      BY EndQuerySound
    <3>2. res.m = k /\ res.kind = kind /\ res.id = id /\ res.nodes = nodes
      BY <2>3
    <3> HIDE DEF k
    <3> QED
      BY <3>1, <3>2 DEF QuerySound, QueryEnded
  <2>4. ASSUME res = QueryResult(m, "Waiting", "none", {}) PROVE QuerySound(m, res, j)
    BY <1>2, <2>4 DEF QuerySound, QueriesKept
  <2>5. NodeSets \subseteq SUBSET Node
    BY PublishJobsAssumption
  <2> QED
    BY <2>1, <2>2, <2>3, <2>4, <2>5
<1> QED
  BY <1>1, <1>2

\* The same, to stop the query of the publish j: if it runs, that is what happens.
LEMMA StopQuerySound ==
  ASSUME NEW m \in MachineType, NEW j \in Job, NEW res \in StopQuery(m, j)
  PROVE  QuerySound(m, res, j) /\ (j \in m.queries => res.kind = "Finished" /\ res.id = j)
<1>1. CASE j \notin m.queries
  BY <1>1, QueriesSound DEF StopQuery
<1>2. CASE j \in m.queries
  <2>1. PICK nodes \in NodeSets : res = QueryResult(EndQuery(m, j, j), "Finished", j, nodes)
    BY <1>2 DEF StopQuery
  <2> DEFINE k == EndQuery(m, j, j)
  <2>2. QueryEnded(m, k, j, j)
    BY <1>2, EndQuerySound
  <2>3. res.m = k /\ res.kind = "Finished" /\ res.id = j /\ res.nodes = nodes
    BY <2>1 DEF QueryResult
  <2>4. nodes \in SUBSET Node
    BY PublishJobsAssumption
  <2> HIDE DEF k
  <2> QED
    BY <1>2, <2>2, <2>3, <2>4 DEF QuerySound, QueryEnded
<1> QED
  BY <1>1, <1>2

\* A query is added to the pool.
LEMMA AddQuerySound ==
  ASSUME NEW m \in MachineType, NEW j \in Job, NEW k, k = AddQuery(m, j)
  PROVE  k \in MachineType /\ k.jobs = m.jobs /\ k.due = m.due /\ k.out = m.out
         /\ k.queries = m.queries \cup {j} /\ k.mixed = m.mixed
<1>1. m.queries \cup {j} \in SUBSET Job
  BY DEF MachineType
<1> QED
  BY <1>1 DEF AddQuery, MachineType

-----------------------------------------------------------------------------
(* FollowUp *)

\* The publish j is not stopped, and its query runs exactly while it looks for nodes.
OwnQuery(m, j) == ~m.jobs[j].stopped /\ (j \in m.queries <=> Walking(m.jobs[j]))

\* The publish j, which waited for w, has gone on from m to k.  Its accounts stay right
\* as long as it is not mixed up with another one.
GoneOn(m, k, j, a, r, w, halt) ==
  /\ Moved(m, k, j) /\ (k.jobs[j].stopped => m.jobs[j].stopped)
  /\ j \notin k.mixed /\ JobSound(m.jobs[j], a, r) /\ w = m.jobs[j].waiting /\ OwnQuery(m, j) =>
       Accounted(k, j, a, r, w, halt) /\ OwnQuery(k, j) /\ Calm(k, j)

\* What a follow-up publish reports when it has asked all the nodes it knows.
RestFollowUp(n, j, stop) ==
  IF n.jobs[j].waiting # {} THEN Wait(n, j, FALSE)
  ELSE IF stop \/ n.jobs[j].closest # {} THEN Finish(n, j, n.jobs[j].closest, n.jobs[j].failed)
  ELSE Report(n, "Idle", j)

\* A follow-up publish has gone on without the query pool.
Stored(m, k, j, a, r, halt) ==
  /\ Moved(m, k, j) /\ k.queries = m.queries /\ k.mixed = m.mixed
  /\ k.jobs[j].stopped => m.jobs[j].stopped
  /\ JobSound(m.jobs[j], a, r) /\ m.jobs[j].closest # {} =>
       Accounted(k, j, a, r, m.jobs[j].waiting, halt) /\ ~Walking(k.jobs[j]) /\ Calm(k, j)

\* FollowUp.Advance after the query pool, when the publish is not stopped.
LEMMA StoreOnSound ==
  ASSUME NEW m \in MachineType, NEW j \in Job, m.jobs[j].kind = "FollowUp", NEW a, NEW r,
         NEW halt \in BOOLEAN, NEW k \in StoreFollowUp(m, j, FALSE)
  PROVE  Stored(m, k, j, a, r, halt)
<1> DEFINE job == m.jobs[j]
<1>1. job \in JobType /\ job.closest \in SUBSET Node /\ job.failed \in SUBSET Node
  BY DEF MachineType, JobType
<1>2. k \in HandOut(m, j, RestFollowUp(m, j, FALSE))
  BY DEF StoreFollowUp, RestFollowUp
<1>3. \/ job.todo = {} /\ k = RestFollowUp(m, j, FALSE)
      \/ job.todo # {} /\ HandedOut(m, k, j, a, r, halt)
  BY <1>2, HandOutSound
<1>4. CASE HandedOut(m, k, j, a, r, halt)
  <2>1. JobSound(job, a, r) /\ job.closest # {} => ~Walking(k.jobs[j])
    BY <1>4 DEF HandedOut, Moved, Walking
  <2> QED
    BY <1>4, <2>1 DEF HandedOut, Stored, Calm
<1>5. CASE job.todo = {} /\ k = RestFollowUp(m, j, FALSE) /\ job.waiting # {}
  <2>1. PICK due \in BOOLEAN : due = FALSE
    OBVIOUS
  <2>2. k = Wait(m, j, due)
    BY <1>5, <2>1 DEF RestFollowUp
  <2>3. Waited(m, k, due)
    BY <2>2, WaitSound
  <2> QED
    BY <1>5, <2>3 DEF Waited, Moved, QueriesKept, Calm, Accounted, Stored, Walking
<1>6. CASE job.todo = {} /\ k = RestFollowUp(m, j, FALSE) /\ job.waiting = {} /\ job.closest # {}
  <2>1. k = Finish(m, j, job.closest, job.failed)
    BY <1>6 DEF RestFollowUp
  <2>2. Ended(m, k, j, job.closest, job.failed)
    BY <1>1, <2>1, FinishSound
  <2>3. JobSound(job, a, r) => Accounted(k, j, a, r, job.waiting, halt)
    BY <1>6, <2>2 DEF JobSound, Accounted, Ended
  <2> QED
    BY <1>6, <2>2, <2>3, NoJobSound DEF Ended, Calm, Stored
<1>7. CASE k = RestFollowUp(m, j, FALSE) /\ job.waiting = {} /\ job.closest = {}
  <2>1. k = Report(m, "Idle", j)
    BY <1>7 DEF RestFollowUp
  <2>2. Reported(m, k, "Idle", j)
    BY <2>1, ReportSound
  <2> QED
    BY <1>7, <2>2 DEF Reported, Moved, QueriesKept, Stored
<1> QED
  BY <1>3, <1>4, <1>5, <1>6, <1>7

\* The same, when it is stopped: it ends.
LEMMA StoreStopSound ==
  ASSUME NEW m \in MachineType, NEW j \in Job, m.jobs[j].kind = "FollowUp", NEW a, NEW r,
         NEW halt \in BOOLEAN, halt, NEW k \in StoreFollowUp(m, j, TRUE)
  PROVE  Stored(m, k, j, a, r, halt)
<1>1. PICK n : n = Cancel(m, j)
  OBVIOUS
<1>2. /\ Changed(m, n, j)
      /\ n.jobs[j].todo = {} /\ n.jobs[j].waiting = {}
      /\ n.jobs[j].closest = m.jobs[j].closest
      /\ n.jobs[j].failed = m.jobs[j].failed \cup m.jobs[j].todo \cup m.jobs[j].waiting
  BY <1>1, CancelSound
<1>3. k = Finish(n, j, n.jobs[j].closest, n.jobs[j].failed)
  <2>1. k \in HandOut(n, j, RestFollowUp(n, j, TRUE))
    BY <1>1 DEF StoreFollowUp, RestFollowUp
  <2> QED
    BY <1>2, <2>1 DEF HandOut, RestFollowUp
<1>4. n \in MachineType /\ n.jobs[j].closest \in SUBSET Node /\ n.jobs[j].failed \in SUBSET Node
  BY <1>2 DEF Changed, MachineType, JobType
<1>5. Ended(n, k, j, n.jobs[j].closest, n.jobs[j].failed)
  BY <1>3, <1>4, FinishSound
<1>6. Moved(m, k, j) /\ k.queries = m.queries /\ k.mixed = m.mixed
  BY <1>2, <1>5 DEF Moved, QueriesKept, Changed, Ended
<1>7. JobSound(m.jobs[j], a, r) /\ m.jobs[j].closest # {} =>
        Accounted(k, j, a, r, m.jobs[j].waiting, halt)
  BY <1>2, <1>5 DEF JobSound, Accounted, Ended
<1> QED
  BY <1>5, <1>6, <1>7, NoJobSound DEF Ended, Calm, Stored

\* FollowUp.advancePool, whatever the query pool shared with others reports.
LEMMA ResultFollowUpSound ==
  ASSUME NEW m \in MachineType, NEW j \in Job, m.jobs[j].kind = "FollowUp", NEW a, NEW r,
         NEW stop \in BOOLEAN, NEW halt \in BOOLEAN, stop => halt,
         NEW res, QuerySound(m, res, j), NEW k \in FollowUpResult(res, j, stop)
  PROVE  GoneOn(m, k, j, a, r, m.jobs[j].waiting, halt)
<1> DEFINE job == m.jobs[j]
           n == res.m
<1>1. /\ job \in JobType /\ n \in MachineType /\ n.jobs = m.jobs /\ n.due = m.due
      /\ QueriesKept(m, n, j)
  BY DEF MachineType, QuerySound
<1>2. CASE res.kind = "FindCloser"
  <2>1. k = Report(n, "FindCloser", res.id)
    BY <1>2 DEF FollowUpResult
  <2>2. res.id \in Job /\ res.id \in Job \cup {"none"} /\ n.queries = m.queries
    BY <1>2 DEF QuerySound, MachineType
  <2>3. Reported(n, k, "FindCloser", res.id)
    BY <1>1, <2>1, <2>2, ReportSound
  <2> QED
    BY <1>1, <2>2, <2>3 DEF Reported, GoneOn, Moved, QueriesKept, Accounted, OwnQuery, Calm
<1>3. CASE res.kind = "Waiting"
  <2>1. PICK due \in BOOLEAN : due = TRUE
    OBVIOUS
  <2>2. k = Wait(n, j, due)
    BY <1>3, <2>1 DEF FollowUpResult
  <2>3. Waited(n, k, due)
    BY <1>1, <2>2, WaitSound
  <2>4. n.queries = m.queries
    BY <1>3 DEF QuerySound
  <2> QED
    BY <1>1, <2>1, <2>3, <2>4 DEF Waited, GoneOn, Moved, QueriesKept, Accounted, OwnQuery, Calm
<1>4. ASSUME NEW l \in MachineType, k \in StoreFollowUp(l, j, stop), l.jobs[j].kind = "FollowUp"
      PROVE  Stored(l, k, j, a, r, halt)
  <2>1. CASE stop
    BY <1>4, <2>1, StoreStopSound
  <2>2. CASE ~stop
    <3>1. k \in StoreFollowUp(l, j, FALSE)
      BY <1>4, <2>2
    <3> QED
      BY <1>4, <3>1, StoreOnSound
  <2> QED
    BY <2>1, <2>2
<1>5. CASE res.kind = "Idle"
  <2>1. k \in StoreFollowUp(n, j, stop)
    BY <1>5 DEF FollowUpResult
  <2>2. Stored(n, k, j, a, r, halt)
    BY <1>1, <1>4, <2>1
  <2>3. OwnQuery(m, j) => job.closest # {} /\ j \notin n.queries
    BY <1>5 DEF QuerySound, OwnQuery, Walking
  <2> QED
    BY <1>1, <2>2, <2>3 DEF Stored, GoneOn, Moved, QueriesKept, OwnQuery
<1>6. CASE res.kind = "Finished" /\ res.nodes # {}
  <2> DEFINE new == [job EXCEPT !.closest = res.nodes, !.todo = job.todo \cup res.nodes]
             l == [n EXCEPT !.jobs[j].closest = res.nodes, !.jobs[j].todo = @ \cup res.nodes]
  <2>1. k \in StoreFollowUp(l, j, stop)
    BY <1>6 DEF FollowUpResult
  <2>2. Put(n, l, j, new)
    BY <1>1 DEF Put, MachineType, JobType
  <2>3. /\ new \in JobType /\ new.kind = job.kind /\ new.todo = job.todo \cup res.nodes
        /\ new.waiting = job.waiting /\ new.success = job.success /\ new.failed = job.failed
        /\ new.closest = res.nodes /\ new.stopped = job.stopped
    BY <1>1 DEF JobType, QuerySound
  <2> HIDE DEF new, l
  <2>4. Changed(n, l, j) /\ l.jobs[j] = new
    BY <1>1, <2>2, <2>3, PutSound
  <2>5. Stored(l, k, j, a, r, halt)
    BY <1>4, <2>1, <2>3, <2>4 DEF Changed
  <2>6. Moved(m, k, j) /\ (k.jobs[j].stopped => job.stopped) /\ k.queries = n.queries /\
          k.mixed = n.mixed
    BY <1>1, <2>3, <2>4, <2>5 DEF Stored, Moved, QueriesKept, Changed
  <2>7. ASSUME JobSound(job, a, r), OwnQuery(m, j), j \notin k.mixed
        PROVE  Accounted(k, j, a, r, job.waiting, halt) /\ OwnQuery(k, j) /\ Calm(k, j)
    <3>0. res.id = j /\ j \in m.queries /\ n.queries = m.queries \ {j}
      BY <1>6, <2>6, <2>7 DEF QuerySound
    <3>1. j \notin n.queries /\ job.closest = {}
      BY <2>7, <3>0 DEF OwnQuery, Walking
    <3>2. JobSound(new, a, r)
      BY <1>6, <2>3, <2>7, <3>1 DEF JobSound
    <3>3. Accounted(k, j, a, r, job.waiting, halt) /\ ~Walking(k.jobs[j]) /\ Calm(k, j)
      BY <1>6, <2>3, <2>4, <2>5, <3>2 DEF Stored
    <3>4. ~k.jobs[j].stopped
      BY <2>6, <2>7 DEF OwnQuery
    <3> QED
      BY <2>6, <3>1, <3>3, <3>4 DEF OwnQuery
  <2> QED
    BY <2>6, <2>7 DEF GoneOn
<1>7. CASE res.kind = "Timeout" \/ (res.kind = "Finished" /\ res.nodes = {})
  <2>1. k = Finish(n, j, {}, {})
    BY <1>7 DEF FollowUpResult
  <2>2. Ended(n, k, j, {}, {})
    BY <1>1, <2>1, FinishSound
  <2>3. Moved(m, k, j) /\ (k.jobs[j].stopped => job.stopped) /\ k.queries = n.queries /\
          k.mixed = n.mixed
    BY <1>1, <2>2, NoJobSound DEF Ended, Moved, QueriesKept
  <2>4. ASSUME JobSound(job, a, r), OwnQuery(m, j), j \notin k.mixed
        PROVE  Accounted(k, j, a, r, job.waiting, halt) /\ OwnQuery(k, j) /\ Calm(k, j)
    <3>0. res.id = j /\ j \in m.queries /\ n.queries = m.queries \ {j}
      BY <1>7, <2>3, <2>4 DEF QuerySound
    <3>1. j \notin n.queries /\ job.closest = {}
      BY <2>4, <3>0 DEF OwnQuery, Walking
    <3>2. a = {} /\ r = {} /\ job.waiting = {}
      BY <2>4, <3>1 DEF JobSound
    <3> QED
      BY <2>2, <2>3, <3>1, <3>2, NoJobSound DEF Ended, Accounted, OwnQuery, Calm
  <2> QED
    BY <2>3, <2>4 DEF GoneOn
<1> QED
  BY <1>2, <1>3, <1>5, <1>6, <1>7 DEF QuerySound

\* The publish j has its query when the event comes: one that is started has none yet.
QueryFirst(m, j, ev) ==
  ~m.jobs[j].stopped /\ (j \in m.queries <=> Walking(m.jobs[j]) /\ ev.kind # "Start")

\* The publish j has been advanced with the event.  Only a follow-up publish has accounts
\* that rest on its query.
Advanced(m, k, j, a, r, ev) ==
  /\ Moved(m, k, j) /\ Halts(m, k, j, ev.kind = "Stop")
  /\ Accountable(m, j, a, r, ev) /\ 
     (m.jobs[j].kind = "FollowUp" => QueryFirst(m, j, ev) /\ j \notin k.mixed) =>
       AccountedWith(m, k, j, a, r, ev)
  /\ m.jobs[j].kind # "Static" /\ j \notin k.mixed /\ Accountable(m, j, a, r, ev) /\
       QueryFirst(m, j, ev) =>
       OwnQuery(k, j) /\ (ev.kind = "Poll" => Calm(k, j))
  /\ m.jobs[j].kind = "Static" =>
       k.queries = m.queries /\ k.mixed = m.mixed /\ Calm(k, j) /\
         (k.jobs[j].stopped => m.jobs[j].stopped)

\* FollowUp.Advance.
LEMMA AdvanceFollowUpSound ==
  ASSUME NEW m \in MachineType, NEW j \in Job, m.jobs[j].kind = "FollowUp", NEW ev, EventSound(ev),
         NEW a, NEW r, NEW k \in AdvanceFollowUp(m, j, ev)
  PROVE  Advanced(m, k, j, a, r, ev)
<1> DEFINE old == m.jobs[j]
           w == WaitingWith(old.waiting, ev)
           r1 == RefusedWith(r, ev)
<1>1. old \in JobType /\ m.jobs \in [Job -> JobType]
  BY DEF MachineType
<1>2. PICK halt \in BOOLEAN : halt = (old.stopped \/ ev.kind = "Stop")
  BY <1>1 DEF JobType
<1>3. ASSUME Moved(m, k, j), Halts(m, k, j, ev.kind = "Stop"),
             Accountable(m, j, a, r, ev) /\ QueryFirst(m, j, ev) /\ j \notin k.mixed =>
               /\ Accounted(k, j, a, r1, w, halt) /\ OwnQuery(k, j)
               /\ ev.kind = "Poll" => Calm(k, j)
      PROVE  Advanced(m, k, j, a, r, ev)
  BY <1>2, <1>3 DEF Advanced, AccountedWith
<1>4. CASE Answers(ev)
  <2>1. PICK l : l = Answered(m, j, ev) /\ k \in StoreFollowUp(l, j, FALSE)
    BY <1>4 DEF AdvanceFollowUp, Answers
  <2>2. /\ Changed(m, l, j) /\ l.jobs[j].stopped = old.stopped /\ l.jobs[j].closest = old.closest
        /\ l.jobs[j].waiting = w /\ l.jobs[j].walking = old.walking
        /\ JobSound(old, a, r) /\ ev.node \in old.waiting => JobSound(l.jobs[j], a, r1)
    BY <1>4, <2>1, AnsweredSound
  <2>3. Stored(l, k, j, a, r1, halt)
    BY <2>1, <2>2, StoreOnSound DEF Changed
  <2>4. Moved(m, k, j) /\ Halts(m, k, j, ev.kind = "Stop") /\ k.queries = m.queries /\
          k.mixed = m.mixed
    BY <2>2, <2>3 DEF Stored, Moved, QueriesKept, Changed, Halts
  <2>5. ASSUME Accountable(m, j, a, r, ev), QueryFirst(m, j, ev)
        PROVE  Accounted(k, j, a, r1, w, halt) /\ OwnQuery(k, j) /\ Calm(k, j)
    <3>1. old.closest # {} /\ ~Walking(old)
      BY <1>4, <2>5 DEF Accountable, JobSound, Walking
    <3>2. Accounted(k, j, a, r1, w, halt) /\ ~Walking(k.jobs[j]) /\ Calm(k, j)
      BY <1>4, <2>2, <2>3, <2>5, <3>1 DEF Accountable, Stored
    <3>3. ~k.jobs[j].stopped
      BY <2>2, <2>3, <2>5 DEF Stored, QueryFirst
    <3> QED
      BY <2>4, <2>5, <3>1, <3>2, <3>3 DEF OwnQuery, QueryFirst
  <2> QED
    BY <1>3, <2>4, <2>5
<1>5. ASSUME ~Answers(ev) PROVE w = old.waiting /\ r1 = r
  BY <1>5 DEF WaitingWith, RefusedWith, Answers
<1>6. CASE ev.kind = "Stop" /\ old.closest # {}
  <2>1. k \in StoreFollowUp(m, j, TRUE)
    BY <1>6 DEF AdvanceFollowUp
  <2>2. Stored(m, k, j, a, r, halt)
    BY <1>2, <1>6, <2>1, StoreStopSound
  <2>3. Moved(m, k, j) /\ Halts(m, k, j, ev.kind = "Stop") /\ k.queries = m.queries /\
          k.mixed = m.mixed
    BY <1>6, <2>2 DEF Stored, Halts
  <2>4. ASSUME Accountable(m, j, a, r, ev), QueryFirst(m, j, ev)
        PROVE  Accounted(k, j, a, r1, w, halt) /\ OwnQuery(k, j) /\ Calm(k, j)
    BY <1>5, <1>6, <2>2, <2>3, <2>4 DEF Stored, Accountable, OwnQuery, QueryFirst, Walking, Answers
  <2> QED
    BY <1>3, <2>3, <2>4
<1>7. ASSUME NEW l \in MachineType, l.jobs = m.jobs, l.due = m.due, QueriesKept(m, l, j),
             ~Answers(ev),
             QueryFirst(m, j, ev) /\ Accountable(m, j, a, r, ev) => OwnQuery(l, j),
             NEW res, QuerySound(l, res, j), k \in FollowUpResult(res, j, ev.kind = "Stop")
      PROVE  Advanced(m, k, j, a, r, ev)
  <2>1. PICK stop \in BOOLEAN : stop = (ev.kind = "Stop")
    OBVIOUS
  <2>2. k \in FollowUpResult(res, j, stop)
    BY <1>7, <2>1
  <2>3. GoneOn(l, k, j, a, r, l.jobs[j].waiting, halt)
    <3>1. l.jobs[j].kind = "FollowUp" /\ (stop => halt)
      BY <1>2, <1>7, <2>1
    <3> QED
      BY <1>7, <2>2, <3>1, ResultFollowUpSound
  <2>4. Moved(m, k, j) /\ Halts(m, k, j, ev.kind = "Stop")
    BY <1>2, <1>7, <2>3 DEF GoneOn, Moved, QueriesKept, Halts
  <2>5. ASSUME Accountable(m, j, a, r, ev), QueryFirst(m, j, ev), j \notin k.mixed
        PROVE  Accounted(k, j, a, r1, w, halt) /\ OwnQuery(k, j) /\ Calm(k, j)
    BY <1>5, <1>7, <2>3, <2>5 DEF GoneOn, Accountable
  <2> QED
    BY <1>3, <2>4, <2>5
<1>8. CASE ev.kind = "Start"
  <2>1. PICK l : l = AddQuery(m, j)
    OBVIOUS
  <2>2. PICK res \in AdvanceQueries(l, j) : k \in FollowUpResult(res, j, ev.kind = "Stop")
    BY <1>8, <2>1 DEF AdvanceFollowUp
  <2>3. l \in MachineType /\ l.jobs = m.jobs /\ l.due = m.due /\ l.queries = m.queries \cup {j}
        /\ l.mixed = m.mixed
    BY <2>1, AddQuerySound
  <2>4. QuerySound(l, res, j)
    BY <2>2, <2>3, QueriesSound
  <2>5. QueryFirst(m, j, ev) /\ Accountable(m, j, a, r, ev) => OwnQuery(l, j)
    BY <1>8, <2>3 DEF QueryFirst, Accountable, NewJob, OwnQuery, Walking
  <2>6. QueriesKept(m, l, j)
    BY <2>3 DEF QueriesKept
  <2> QED
    BY <1>7, <1>8, <2>2, <2>3, <2>4, <2>5, <2>6 DEF Answers
<1>9. QueriesKept(m, m, j) /\ (QueryFirst(m, j, ev) /\ ev.kind # "Start" => OwnQuery(m, j))
  BY DEF QueryFirst, OwnQuery, QueriesKept
<1>10. CASE ev.kind = "Stop" /\ old.closest = {}
  <2>1. PICK res \in StopQuery(m, j) : k \in FollowUpResult(res, j, ev.kind = "Stop")
    BY <1>10 DEF AdvanceFollowUp
  <2>2. QuerySound(m, res, j)
    BY <2>1, StopQuerySound
  <2> QED
    BY <1>7, <1>9, <1>10, <2>1, <2>2 DEF Answers
<1>11. CASE ev.kind \in {"Poll", "Response", "Failed"}
  <2>1. PICK res \in AdvanceQueries(m, j) : k \in FollowUpResult(res, j, ev.kind = "Stop")
    BY <1>11 DEF AdvanceFollowUp
  <2>2. QuerySound(m, res, j)
    BY <2>1, QueriesSound
  <2> QED
    BY <1>7, <1>9, <1>11, <2>1, <2>2 DEF Answers
<1> QED
  BY <1>4, <1>6, <1>8, <1>10, <1>11 DEF EventSound, Answers

-----------------------------------------------------------------------------
(* Optimistic *)

\* The publish has learned of nodes, or ended its walk: its accounts are as they were.
Learned(m, k, j, a, r) ==
  /\ Changed(m, k, j)
  /\ k.jobs[j].stopped = m.jobs[j].stopped /\ k.jobs[j].waiting = m.jobs[j].waiting
  /\ JobSound(m.jobs[j], a, r) => JobSound(k.jobs[j], a, r)

\* discover.
LEMMA DiscoverSound ==
  ASSUME NEW m \in MachineType, NEW j \in Job, m.jobs[j].kind = "Optimistic",
         NEW nodes \in SUBSET Node, NEW a, NEW r, NEW k, k = Discover(m, j, nodes)
  PROVE  Learned(m, k, j, a, r) /\ k.jobs[j].walking = m.jobs[j].walking
<1> DEFINE old == m.jobs[j]
           found == {n \in nodes \ old.seen : n < IndividualThreshold}
           job == [old EXCEPT !.seen = old.seen \cup nodes, !.todo = old.todo \cup found]
<1>1. m.jobs \in [Job -> JobType] /\ old \in JobType
  BY DEF MachineType
<1>2. Put(m, k, j, job)
  BY <1>1 DEF Discover, Put, MachineType, JobType
<1>3. found \in SUBSET Node /\ found \cap old.seen = {} /\ found \subseteq nodes
  OBVIOUS
<1> HIDE DEF found, old
<1>4. /\ job \in JobType /\ job.kind = old.kind /\ job.stopped = old.stopped
      /\ job.walking = old.walking /\ job.closest = old.closest /\ job.contacted = old.contacted
      /\ job.waiting = old.waiting /\ job.success = old.success /\ job.failed = old.failed
      /\ job.seen = old.seen \cup nodes /\ job.todo = old.todo \cup found
  BY <1>1, <1>3 DEF JobType
<1> HIDE DEF job
<1>5. Changed(m, k, j) /\ k.jobs[j] = job
  <2>1. job.kind = m.jobs[j].kind
    BY <1>4 DEF old
  <2> QED
    BY <1>2, <1>4, <2>1, PutSound
<1>6. JobSound(old, a, r) => JobSound(job, a, r)
  BY <1>3, <1>4 DEF JobSound, old
<1> QED
  BY <1>4, <1>5, <1>6 DEF Learned, old

\* endWalk: a publish that is not stopped has the closest nodes found to ask.
LEMMA EndWalkSound ==
  ASSUME NEW m \in MachineType, NEW j \in Job, m.jobs[j].kind = "Optimistic",
         NEW a, NEW r, NEW k, k = EndWalk(m, j)
  PROVE  Learned(m, k, j, a, r) /\ ~k.jobs[j].walking
<1> DEFINE old == m.jobs[j]
           left == ClosestFound(old.seen) \ (old.waiting \cup old.failed \cup old.contacted)
           todo == IF old.stopped THEN old.todo ELSE old.todo \cup left
           job == [old EXCEPT !.walking = FALSE, !.todo = todo]
<1>1. m.jobs \in [Job -> JobType] /\ old \in JobType
  BY DEF MachineType
<1>2. Put(m, k, j, job)
  <2> HIDE DEF ClosestFound
  <2> QED
    BY <1>1 DEF EndWalk, Put, MachineType, JobType
<1>3. left \subseteq old.seen /\ left \cap old.contacted = {}
  BY DEF ClosestFound
<1> HIDE DEF left
<1>4. todo \in SUBSET Node /\ old.todo \subseteq todo /\ todo \subseteq old.todo \cup left
  BY <1>1, <1>3 DEF JobType
<1> HIDE DEF todo, old
<1>5. /\ job \in JobType /\ job.kind = old.kind /\ job.stopped = old.stopped
      /\ job.walking = FALSE /\ job.closest = old.closest /\ job.contacted = old.contacted
      /\ job.waiting = old.waiting /\ job.success = old.success /\ job.failed = old.failed
      /\ job.seen = old.seen /\ job.todo = todo
  BY <1>1, <1>4 DEF JobType
<1> HIDE DEF job
<1>6. Changed(m, k, j) /\ k.jobs[j] = job
  <2>1. job.kind = m.jobs[j].kind
    BY <1>5 DEF old
  <2> QED
    BY <1>2, <1>5, <2>1, PutSound
<1>7. JobSound(old, a, r) => JobSound(job, a, r)
  BY <1>3, <1>4, <1>5 DEF JobSound, old
<1> QED
  BY <1>5, <1>6, <1>7 DEF Learned, old

\* An optimistic publish has gone on without the query pool: a stopped one has ended.
StoredOptimistic(m, k, j, a, r, halt, due) ==
  /\ Moved(m, k, j) /\ k.queries = m.queries /\ k.mixed = m.mixed /\ ~k.jobs[j].stopped
  /\ Walking(k.jobs[j]) => m.jobs[j].walking
  /\ m.jobs[j].walking /\ ~m.jobs[j].stopped => Walking(k.jobs[j])
  /\ JobSound(m.jobs[j], a, r) /\ (m.jobs[j].stopped => halt) =>
       Accounted(k, j, a, r, m.jobs[j].waiting, halt)
  /\ due \/ ~m.jobs[j].walking => Calm(k, j)

\* What an optimistic publish that is not stopped reports when it has asked all the nodes
\* it has to ask.
RestOptimistic(m, j, due) ==
  IF m.jobs[j].waiting # {} \/ m.jobs[j].walking THEN Wait(m, j, due)
  ELSE Finish(m, j, m.jobs[j].contacted, m.jobs[j].failed)

\* Optimistic.Advance after the query pool.
LEMMA StoreOptimisticSound ==
  ASSUME NEW m \in MachineType, NEW j \in Job, m.jobs[j].kind = "Optimistic", NEW a, NEW r,
         NEW halt \in BOOLEAN, NEW due \in BOOLEAN, NEW k \in StoreOptimistic(m, j, due)
  PROVE  StoredOptimistic(m, k, j, a, r, halt, due)
<1> DEFINE job == m.jobs[j]
<1>1. /\ job \in JobType /\ job.contacted \in SUBSET Node /\ job.failed \in SUBSET Node
      /\ job.stopped \in BOOLEAN /\ job.walking \in BOOLEAN
  BY DEF MachineType, JobType
<1>2. CASE job.stopped
  <2>1. PICK l : l = Cancel(m, j)
    OBVIOUS
  <2>2. k = Finish(m, j, job.contacted, l.jobs[j].failed)
    BY <1>2, <2>1 DEF StoreOptimistic
  <2>3. Changed(m, l, j) /\ l.jobs[j].failed = job.failed \cup job.todo \cup job.waiting
    BY <2>1, CancelSound
  <2>4. l.jobs[j].failed \in SUBSET Node
    BY <2>3 DEF Changed, MachineType, JobType
  <2>5. Ended(m, k, j, job.contacted, l.jobs[j].failed)
    BY <1>1, <2>2, <2>4, FinishSound
  <2>6. JobSound(job, a, r) /\ halt => Accounted(k, j, a, r, job.waiting, halt)
    BY <2>3, <2>5 DEF JobSound, Accounted, Ended
  <2> QED
    BY <1>2, <2>5, <2>6, NoJobSound DEF Ended, StoredOptimistic, Calm
<1>3. CASE ~job.stopped
  <2>1. k \in HandOut(m, j, RestOptimistic(m, j, due))
    BY <1>3 DEF StoreOptimistic, RestOptimistic
  <2>2. \/ job.todo = {} /\ k = RestOptimistic(m, j, due)
        \/ job.todo # {} /\ HandedOut(m, k, j, a, r, halt)
    BY <2>1, HandOutSound
  <2>3. CASE HandedOut(m, k, j, a, r, halt)
    <3>1. k.jobs[j].kind = "Optimistic" /\ k.jobs[j].walking = job.walking
      BY <2>3 DEF HandedOut, Moved
    <3> QED
      BY <1>3, <2>3, <3>1 DEF HandedOut, StoredOptimistic, Calm, Walking
  <2>4. CASE job.todo = {} /\ k = RestOptimistic(m, j, due) /\ (job.waiting # {} \/ job.walking)
    <3>1. k = Wait(m, j, due)
      BY <2>4 DEF RestOptimistic
    <3>2. Waited(m, k, due)
      BY <3>1, WaitSound
    <3> QED
      BY <1>3, <2>4, <3>2 DEF Waited, Moved, QueriesKept, Calm, Accounted, StoredOptimistic, Walking
  <2>5. CASE job.todo = {} /\ k = RestOptimistic(m, j, due) /\ job.waiting = {} /\ ~job.walking
    <3>1. k = Finish(m, j, job.contacted, job.failed)
      BY <2>5 DEF RestOptimistic
    <3>2. Ended(m, k, j, job.contacted, job.failed)
      BY <1>1, <3>1, FinishSound
    <3>3. JobSound(job, a, r) => Accounted(k, j, a, r, job.waiting, halt)
      BY <2>5, <3>2 DEF JobSound, Accounted, Ended
    <3> QED
      BY <2>5, <3>2, <3>3, NoJobSound DEF Ended, Calm, StoredOptimistic
  <2> QED
    BY <2>2, <2>3, <2>4, <2>5
<1> QED
  BY <1>1, <1>2, <1>3

\* The publish goes on with what the query pool reported: it looks for nodes with its
\* own query, or its query has ended.
WalkAgrees(l, res, j) ==
  OwnQuery(l, j) \/ (j \notin res.m.queries /\ res.kind = "Finished")

ResultOptimistic(l, k, j, a, r, halt) ==
  /\ Moved(l, k, j)
  /\ k.jobs[j].stopped => l.jobs[j].stopped
  /\ JobSound(l.jobs[j], a, r) /\ (l.jobs[j].stopped => halt) =>
       Accounted(k, j, a, r, l.jobs[j].waiting, halt)

\* Optimistic.advancePool, whatever the query pool shared with others reports.
LEMMA ResultOptimisticSound ==
  ASSUME NEW l \in MachineType, NEW j \in Job, l.jobs[j].kind = "Optimistic", NEW a, NEW r,
         NEW halt \in BOOLEAN, NEW res, QuerySound(l, res, j), NEW k \in OptimisticResult(res, j)
  PROVE  /\ ResultOptimistic(l, k, j, a, r, halt)
         /\ WalkAgrees(l, res, j) /\ j \notin k.mixed => OwnQuery(k, j) /\ Calm(k, j)
<1> DEFINE job == l.jobs[j]
           n == res.m
<1>1. /\ job \in JobType /\ n \in MachineType /\ n.jobs = l.jobs /\ n.due = l.due
      /\ QueriesKept(l, n, j) /\ job.stopped \in BOOLEAN /\ job.walking \in BOOLEAN
  BY DEF MachineType, QuerySound, JobType
<1>2. Walking(job) <=> job.walking
  BY DEF Walking
<1>3. CASE res.kind = "FindCloser"
  <2>1. k = Report(n, "FindCloser", res.id)
    BY <1>3 DEF OptimisticResult
  <2>2. res.id \in Job /\ res.id \in Job \cup {"none"} /\ n.queries = l.queries
    BY <1>3 DEF QuerySound, MachineType
  <2>3. Reported(n, k, "FindCloser", res.id)
    BY <1>1, <2>1, <2>2, ReportSound
  <2> QED
    BY <1>1, <1>3, <2>2, <2>3
       DEF Reported, ResultOptimistic, Moved, QueriesKept, Accounted, OwnQuery,
       Calm, WalkAgrees
<1>4. ASSUME NEW due \in BOOLEAN, k \in StoreOptimistic(n, j, due), n.queries = l.queries
      PROVE  /\ ResultOptimistic(l, k, j, a, r, halt)
             /\ OwnQuery(l, j) => OwnQuery(k, j)
             /\ due \/ ~job.walking => Calm(k, j)
  <2>1. StoredOptimistic(n, k, j, a, r, halt, due)
    BY <1>1, <1>4, StoreOptimisticSound
  <2> QED
    BY <1>1, <1>2, <1>4, <2>1 DEF StoredOptimistic, ResultOptimistic, Moved, QueriesKept, OwnQuery
<1>5. CASE res.kind = "Waiting"
  <2>1. PICK due \in BOOLEAN : due = TRUE
    OBVIOUS
  <2>2. k \in StoreOptimistic(n, j, due) /\ n.queries = l.queries
    BY <1>5, <2>1 DEF OptimisticResult, QuerySound
  <2> QED
    BY <1>4, <1>5, <2>1, <2>2 DEF WalkAgrees
<1>6. CASE res.kind = "Idle"
  <2>1. PICK due \in BOOLEAN : due = FALSE
    OBVIOUS
  <2>2. k \in StoreOptimistic(n, j, due) /\ n.queries = l.queries /\ n.queries = {}
    BY <1>6, <2>1 DEF OptimisticResult, QuerySound
  <2>3. OwnQuery(l, j) => ~job.walking
    BY <1>2, <2>2 DEF OwnQuery
  <2> QED
    BY <1>4, <1>6, <2>1, <2>2, <2>3 DEF WalkAgrees
<1>7. CASE res.kind \in {"Finished", "Timeout"}
  <2>1. PICK due \in BOOLEAN : due = FALSE
    OBVIOUS
  <2>2. PICK d : d = IF res.kind = "Finished" THEN Discover(n, j, res.nodes) ELSE n
    OBVIOUS
  <2>3. PICK e : e = EndWalk(d, j)
    OBVIOUS
  <2>4. k \in StoreOptimistic(e, j, due)
    BY <1>7, <2>1, <2>2, <2>3 DEF OptimisticResult
  <2>5. Learned(n, d, j, a, r)
    <3>1. CASE res.kind = "Finished"
      <4>1. d = Discover(n, j, res.nodes) /\ res.nodes \in SUBSET Node
        BY <2>2, <3>1 DEF QuerySound
      <4> QED
        BY <1>1, <4>1, DiscoverSound
    <3>2. CASE res.kind = "Timeout"
      BY <1>1, <2>2, <3>2 DEF Learned, Changed
    <3> QED
      BY <1>7, <3>1, <3>2
  <2>6. Learned(d, e, j, a, r) /\ ~e.jobs[j].walking
    <3>1. d \in MachineType /\ d.jobs[j].kind = "Optimistic"
      BY <1>1, <2>5 DEF Learned, Changed
    <3> QED
      BY <2>3, <3>1, EndWalkSound
  <2>7. StoredOptimistic(e, k, j, a, r, halt, due)
    BY <1>1, <2>4, <2>5, <2>6, StoreOptimisticSound DEF Learned, Changed
  <2>8. /\ Moved(l, k, j) /\ k.queries = n.queries /\ k.mixed = n.mixed
        /\ ~k.jobs[j].stopped /\ ~Walking(k.jobs[j]) /\ Calm(k, j)
    BY <1>1, <2>5, <2>6, <2>7 DEF Learned, Changed, StoredOptimistic, Moved, QueriesKept
  <2>9. JobSound(job, a, r) /\ (job.stopped => halt) => Accounted(k, j, a, r, job.waiting, halt)
    BY <1>1, <2>5, <2>6, <2>7 DEF Learned, StoredOptimistic
  <2>10. WalkAgrees(l, res, j) /\ j \notin n.mixed => j \notin n.queries
    BY <1>7 DEF WalkAgrees, QuerySound
  <2> QED
    BY <2>8, <2>9, <2>10 DEF ResultOptimistic, OwnQuery
<1> QED
  BY <1>3, <1>5, <1>6, <1>7 DEF QuerySound

\* The publish j has taken the event: it is stopped, walks and waits as the event says.
EventTaken(m, n, j, a, r, ev) ==
  /\ Changed(m, n, j)
  /\ n.jobs[j].stopped = (m.jobs[j].stopped \/ ev.kind = "Stop")
  /\ n.jobs[j].walking = (m.jobs[j].walking \/ ev.kind = "Start")
  /\ n.jobs[j].waiting = WaitingWith(m.jobs[j].waiting, ev)
  /\ Accountable(m, j, a, r, ev) => JobSound(n.jobs[j], a, RefusedWith(r, ev))

\* Optimistic.handleEvent.
LEMMA OptimisticEventSound ==
  ASSUME NEW m \in MachineType, NEW j \in Job, m.jobs[j].kind = "Optimistic",
         NEW ev, EventSound(ev), NEW a, NEW r, NEW n, n = OptimisticEvent(m, j, ev)
  PROVE  EventTaken(m, n, j, a, r, ev)
<1> DEFINE old == m.jobs[j]
<1>1. /\ m.jobs \in [Job -> JobType] /\ old \in JobType
      /\ old.stopped \in BOOLEAN /\ old.walking \in BOOLEAN
  BY DEF MachineType, JobType
<1>2. ASSUME ~Answers(ev)
      PROVE  WaitingWith(old.waiting, ev) = old.waiting /\ RefusedWith(r, ev) = r
  BY <1>2 DEF WaitingWith, RefusedWith, Answers
<1>3. CASE ev.kind = "Start"
  <2>1. PICK l : l = [m EXCEPT !.jobs[j].walking = TRUE]
    OBVIOUS
  <2> DEFINE job == [old EXCEPT !.walking = TRUE]
  <2>2. Put(m, l, j, job)
    BY <1>1, <2>1 DEF Put, MachineType
  <2>3. /\ job \in JobType /\ job.kind = old.kind /\ job.stopped = old.stopped
        /\ job.walking = TRUE /\ job.closest = old.closest /\ job.contacted = old.contacted
        /\ job.waiting = old.waiting /\ job.success = old.success /\ job.failed = old.failed
        /\ job.seen = old.seen /\ job.todo = old.todo
    BY <1>1 DEF JobType
  <2> HIDE DEF job
  <2>4. Changed(m, l, j) /\ l.jobs[j] = job
    BY <2>2, <2>3, PutSound
  <2>5. n = Discover(l, j, ev.nodes)
    BY <1>3, <2>1 DEF OptimisticEvent
  <2>6. Learned(l, n, j, a, r) /\ n.jobs[j].walking = TRUE
    <3>1. l \in MachineType /\ l.jobs[j].kind = "Optimistic" /\ ev.nodes \in SUBSET Node
      BY <2>3, <2>4 DEF Changed, EventSound
    <3>2. Learned(l, n, j, a, r) /\ n.jobs[j].walking = l.jobs[j].walking
      BY <2>5, <3>1, DiscoverSound
    <3> QED
      BY <2>3, <2>4, <3>2
  <2>7. JobSound(old, a, r) => JobSound(job, a, r)
    BY <2>3 DEF JobSound
  <2> QED
    <3>1. Changed(m, n, j)
      BY <2>4, <2>6 DEF Learned, Changed
    <3>2. n.jobs[j].stopped = old.stopped /\ n.jobs[j].waiting = old.waiting
      BY <2>3, <2>4, <2>6 DEF Learned
    <3>3. Accountable(m, j, a, r, ev) => JobSound(n.jobs[j], a, r)
      BY <2>4, <2>6, <2>7 DEF Accountable, Learned
    <3>4. WaitingWith(old.waiting, ev) = old.waiting /\ RefusedWith(r, ev) = r
      BY <1>2, <1>3 DEF Answers
    <3> QED
      BY <1>1, <1>3, <2>6, <3>1, <3>2, <3>3, <3>4 DEF EventTaken
<1>4. CASE ev.kind = "Stop"
  <2> DEFINE job == [old EXCEPT !.stopped = TRUE]
  <2>1. Put(m, n, j, job)
    BY <1>1, <1>4 DEF OptimisticEvent, Put, MachineType
  <2>2. /\ job \in JobType /\ job.kind = old.kind /\ job.stopped = TRUE
        /\ job.walking = old.walking /\ job.closest = old.closest /\ job.contacted = old.contacted
        /\ job.waiting = old.waiting /\ job.success = old.success /\ job.failed = old.failed
        /\ job.seen = old.seen /\ job.todo = old.todo
    BY <1>1 DEF JobType
  <2> HIDE DEF job
  <2>3. Changed(m, n, j) /\ n.jobs[j] = job
    BY <2>1, <2>2, PutSound
  <2>4. JobSound(old, a, r) => JobSound(job, a, r)
    BY <2>2 DEF JobSound
  <2> QED
    BY <1>1, <1>2, <1>4, <2>2, <2>3, <2>4 DEF EventTaken, Accountable, Answers
<1>5. CASE ev.kind = "Response"
  <2>1. n = Discover(m, j, ev.nodes)
    BY <1>5 DEF OptimisticEvent
  <2>2. Learned(m, n, j, a, r) /\ n.jobs[j].walking = old.walking
    BY <2>1, DiscoverSound DEF EventSound
  <2> QED
    BY <1>1, <1>2, <1>5, <2>2 DEF Learned, EventTaken, Accountable, Answers
<1>6. CASE Answers(ev)
  <2>1. n = Answered(m, j, ev)
    BY <1>6 DEF OptimisticEvent, Answers
  <2>2. /\ Changed(m, n, j)
        /\ n.jobs[j].stopped = old.stopped /\ n.jobs[j].walking = old.walking
        /\ n.jobs[j].waiting = WaitingWith(old.waiting, ev)
        /\ JobSound(old, a, r) /\ ev.node \in old.waiting =>
             JobSound(n.jobs[j], a, RefusedWith(r, ev))
    BY <1>6, <2>1, AnsweredSound
  <2> QED
    BY <1>1, <1>6, <2>2 DEF EventTaken, Accountable, Answers
<1>7. CASE ev.kind \in {"Poll", "Failed"}
  <2>1. n = m
    BY <1>7 DEF OptimisticEvent
  <2> QED
    BY <1>1, <1>2, <1>7, <2>1 DEF Changed, EventTaken, Accountable, Answers
<1> QED
  BY <1>3, <1>4, <1>5, <1>6, <1>7 DEF EventSound, Answers

\* The event has been taken in, and the query pool is to be advanced next.
Brought(m, l, j, a, r, ev) ==
  /\ l \in MachineType /\ l.due = m.due /\ QueriesKept(m, l, j)
  /\ \A i \in Job \ {j} : l.jobs[i] = m.jobs[i]
  /\ l.jobs[j].kind = m.jobs[j].kind
  /\ l.jobs[j].stopped = (m.jobs[j].stopped \/ ev.kind = "Stop")
  /\ l.jobs[j].waiting = WaitingWith(m.jobs[j].waiting, ev)
  /\ Accountable(m, j, a, r, ev) => JobSound(l.jobs[j], a, RefusedWith(r, ev))

\* Optimistic.Advance.
LEMMA AdvanceOptimisticSound ==
  ASSUME NEW m \in MachineType, NEW j \in Job, m.jobs[j].kind = "Optimistic",
         NEW ev, EventSound(ev), NEW a, NEW r, NEW k \in AdvanceOptimistic(m, j, ev)
  PROVE  Advanced(m, k, j, a, r, ev)
<1> DEFINE old == m.jobs[j]
           w == WaitingWith(old.waiting, ev)
           r1 == RefusedWith(r, ev)
<1>1. old \in JobType /\ old.stopped \in BOOLEAN /\ old.walking \in BOOLEAN
  BY DEF MachineType, JobType
<1>2. PICK halt \in BOOLEAN : halt = (old.stopped \/ ev.kind = "Stop")
  BY <1>1
<1>3. PICK n : n = OptimisticEvent(m, j, ev)
  OBVIOUS
<1>4. EventTaken(m, n, j, a, r, ev)
  BY <1>3, OptimisticEventSound
<1>5. Brought(m, n, j, a, r, ev) /\ n.queries = m.queries
  BY <1>4 DEF EventTaken, Changed, Brought, QueriesKept
<1>6. Walking(old) <=> old.walking
  BY DEF Walking
<1>7. ASSUME Moved(m, k, j), Halts(m, k, j, ev.kind = "Stop"),
             Accountable(m, j, a, r, ev) => Accounted(k, j, a, r1, w, halt),
             Accountable(m, j, a, r, ev) /\ QueryFirst(m, j, ev) /\ j \notin k.mixed =>
               OwnQuery(k, j) /\ (ev.kind = "Poll" => Calm(k, j))
      PROVE  Advanced(m, k, j, a, r, ev)
  BY <1>2, <1>7 DEF Advanced, AccountedWith
<1>8. ASSUME NEW l, Brought(m, l, j, a, r, ev),
             NEW res, QuerySound(l, res, j), k \in OptimisticResult(res, j),
             Accountable(m, j, a, r, ev) /\ QueryFirst(m, j, ev) => WalkAgrees(l, res, j)
      PROVE  Advanced(m, k, j, a, r, ev)
  <2>1. l \in MachineType /\ l.jobs[j].kind = "Optimistic"
    BY <1>8 DEF Brought
  <2>2. /\ ResultOptimistic(l, k, j, a, r1, halt)
        /\ WalkAgrees(l, res, j) /\ j \notin k.mixed => OwnQuery(k, j) /\ Calm(k, j)
    BY <1>8, <2>1, ResultOptimisticSound
  <2>3. Moved(m, k, j) /\ Halts(m, k, j, ev.kind = "Stop")
    BY <1>8, <2>2 DEF Brought, ResultOptimistic, Moved, QueriesKept, Halts
  <2>4. Accountable(m, j, a, r, ev) => Accounted(k, j, a, r1, w, halt)
    BY <1>2, <1>8, <2>2 DEF Brought, ResultOptimistic
  <2> QED
    BY <1>7, <1>8, <2>2, <2>3, <2>4
<1>9. ASSUME k \in StoreOptimistic(n, j, FALSE),
             Answers(ev) \/ (ev.kind = "Stop" /\ ~n.jobs[j].walking)
      PROVE  Advanced(m, k, j, a, r, ev)
  <2>1. PICK due \in BOOLEAN : due = FALSE
    OBVIOUS
  <2>2. k \in StoreOptimistic(n, j, due)
    BY <1>9, <2>1
  <2>3. StoredOptimistic(n, k, j, a, r1, halt, due)
    BY <1>5, <2>2, StoreOptimisticSound DEF Brought
  <2>4. Moved(m, k, j) /\ Halts(m, k, j, ev.kind = "Stop")
    BY <1>5, <2>3 DEF Brought, StoredOptimistic, Moved, QueriesKept, Halts
  <2>5. Accountable(m, j, a, r, ev) => Accounted(k, j, a, r1, w, halt)
    BY <1>2, <1>5, <2>3 DEF Brought, StoredOptimistic
  <2>6. QueryFirst(m, j, ev) => OwnQuery(k, j)
    BY <1>1, <1>4, <1>5, <1>6, <1>9, <2>3 DEF StoredOptimistic, QueryFirst, OwnQuery, EventTaken,
       Answers
  <2> QED
    BY <1>7, <1>9, <2>4, <2>5, <2>6 DEF Answers
<1>10. CASE n.jobs[j].walking /\ ~n.jobs[j].stopped /\ SetThresholdMet(n.jobs[j].seen)
  <2>1. PICK l : l = EndWalk(n, j)
    OBVIOUS
  <2>2. PICK res \in StopQuery(l, j) : k \in OptimisticResult(res, j)
    BY <1>3, <1>10, <2>1 DEF AdvanceOptimistic
  <2>3. Learned(n, l, j, a, r1) /\ ~l.jobs[j].walking
    BY <1>5, <2>1, EndWalkSound DEF Brought
  <2>4. Brought(m, l, j, a, r, ev) /\ l.queries = m.queries
    BY <1>5, <2>3 DEF Learned, Changed, Brought, QueriesKept
  <2>5. QuerySound(l, res, j) /\ (j \in l.queries => res.kind = "Finished" /\ res.id = j)
    <3>1. l \in MachineType
      BY <2>4 DEF Brought
    <3> QED
      BY <2>2, <3>1, StopQuerySound
  <2>6. QueryFirst(m, j, ev) => WalkAgrees(l, res, j)
    <3>1. l.jobs[j].kind = "Optimistic" /\ l.jobs[j].stopped = n.jobs[j].stopped
      BY <2>3, <2>4 DEF Learned, Brought
    <3>2. ~Walking(l.jobs[j])
      BY <2>3, <3>1 DEF Walking
    <3> QED
      BY <1>10, <2>5, <3>1, <3>2 DEF QuerySound, OwnQuery, WalkAgrees
  <2> QED
    BY <1>8, <2>2, <2>4, <2>5, <2>6
<1>11. CASE ~(n.jobs[j].walking /\ ~n.jobs[j].stopped /\ SetThresholdMet(n.jobs[j].seen))
  <2>1. CASE Answers(ev) \/ (ev.kind = "Stop" /\ ~n.jobs[j].walking)
    <3>1. k \in StoreOptimistic(n, j, FALSE)
      BY <1>3, <1>11, <2>1 DEF AdvanceOptimistic, Answers
    <3> QED
      BY <1>9, <2>1, <3>1
  <2>2. CASE ev.kind = "Stop" /\ n.jobs[j].walking
    <3>1. PICK res \in StopQuery(n, j) : k \in OptimisticResult(res, j)
      BY <1>3, <1>11, <2>2 DEF AdvanceOptimistic
    <3>2. QuerySound(n, res, j) /\ (j \in n.queries => res.kind = "Finished" /\ res.id = j)
      BY <1>5, <3>1, StopQuerySound DEF Brought
    <3>3. QueryFirst(m, j, ev) => WalkAgrees(n, res, j)
      BY <1>4, <1>5, <1>6, <2>2, <3>2 DEF EventTaken, QueryFirst, QuerySound, WalkAgrees
    <3> QED
      BY <1>5, <1>8, <3>1, <3>2, <3>3
  <2>3. CASE ev.kind = "Start"
    <3>1. PICK l : l = AddQuery(n, j)
      OBVIOUS
    <3>2. PICK res \in AdvanceQueries(l, j) : k \in OptimisticResult(res, j)
      BY <1>3, <1>11, <2>3, <3>1 DEF AdvanceOptimistic
    <3>3. l \in MachineType /\ l.jobs = n.jobs /\ l.due = n.due /\ l.queries = n.queries \cup {j}
          /\ l.mixed = n.mixed
      BY <1>5, <3>1, AddQuerySound DEF Brought
    <3>4. Brought(m, l, j, a, r, ev)
      BY <1>5, <3>3 DEF Brought, QueriesKept
    <3>5. QuerySound(l, res, j)
      BY <3>2, <3>3, QueriesSound
    <3>6. QueryFirst(m, j, ev) => OwnQuery(l, j)
      <4>1. n.jobs[j].walking /\ n.jobs[j].kind = "Optimistic" /\ (n.jobs[j].stopped = old.stopped)
        BY <1>1, <1>4, <1>5, <2>3 DEF EventTaken, Brought
      <4> QED
        BY <1>5, <2>3, <3>3, <4>1 DEF QueryFirst, OwnQuery, Walking
    <3> QED
      BY <1>8, <3>2, <3>4, <3>5, <3>6 DEF WalkAgrees
  <2>4. CASE ev.kind \in {"Poll", "Response", "Failed"}
    <3>1. PICK res \in AdvanceQueries(n, j) : k \in OptimisticResult(res, j)
      BY <1>3, <1>11, <2>4 DEF AdvanceOptimistic
    <3>2. QuerySound(n, res, j)
      BY <1>5, <3>1, QueriesSound DEF Brought
    <3>3. QueryFirst(m, j, ev) => OwnQuery(n, j)
      <4>1. n.jobs[j].walking = old.walking /\ n.jobs[j].kind = "Optimistic" /\
              (n.jobs[j].stopped = old.stopped)
        BY <1>1, <1>4, <1>5, <2>4 DEF EventTaken, Brought
      <4> QED
        BY <1>5, <1>6, <2>4, <4>1 DEF QueryFirst, OwnQuery, Walking
    <3> QED
      BY <1>5, <1>8, <3>1, <3>2, <3>3 DEF WalkAgrees
  <2> QED
    BY <2>1, <2>2, <2>3, <2>4 DEF EventSound, Answers
<1> QED
  BY <1>10, <1>11

-----------------------------------------------------------------------------
(* The walk over the publishes *)

\* A set of natural numbers has a least element, as the order is well-founded.
LEMMA LeastNat ==
  ASSUME NEW S \in SUBSET Nat, S # {}
  PROVE  \E n \in S : \A m \in S : n <= m
<1> DEFINE R == OpToRel(<, Nat)
<1>1. IsWellFoundedOn(R, Nat)
  BY NatLessThanWellFounded
<1>2. \A x, y \in Nat : x < y => <<x, y>> \in R
  BY DEF OpToRel
<1> HIDE DEF R
<1>3. PICK n \in S : \A m \in S : ~ (<<m, n>> \in R)
  BY <1>1, WFMin
<1>4. \A m \in S : ~(m < n)
  BY <1>2, <1>3
<1> QED
  BY <1>4

\* One more of the publishes is polled, wherever the walk may have got to.
PollEach(ws) == UNION {PollNext(w) : w \in ws}

\* The function of the walk, up to the step n.
WalkTo(f, n, ws) == f = [i \in 0..n |-> IF i = 0 THEN ws ELSE PollEach(f[i - 1])]

\* The walk is defined: its recursion has a solution.
LEMMA WalkDefined ==
  ASSUME NEW ws, NEW n \in Nat
  PROVE  \E f : WalkTo(f, n, ws)
<1> DEFINE S == {i \in Nat : ~ \E f : WalkTo(f, i, ws)}
<1> SUFFICES ASSUME S # {} PROVE FALSE
  OBVIOUS
<1>1. S \in SUBSET Nat
  OBVIOUS
<1>2. PICK l \in S : \A i \in S : l <= i
  BY <1>1, LeastNat
<1>3. l \in Nat /\ ~ \E f : WalkTo(f, l, ws)
  OBVIOUS
<1>4. CASE l = 0
  <2> DEFINE f == [i \in 0..0 |-> ws]
  <2>1. f = [i \in 0..0 |-> IF i = 0 THEN ws ELSE PollEach(f[i - 1])]
    <3>1. \A i \in 0..0 : i = 0
      OBVIOUS
    <3> QED
      BY <3>1
  <2>2. WalkTo(f, 0, ws)
    BY <2>1 DEF WalkTo
  <2> QED
    BY <1>3, <1>4, <2>2
<1>5. CASE l # 0
  <2>1. l - 1 \in Nat /\ ~(l <= l - 1)
    BY <1>3, <1>5
  <2>2. l - 1 \notin S
    BY <1>2, <2>1
  <2>3. PICK f : WalkTo(f, l - 1, ws)
    BY <2>1, <2>2
  <2> DEFINE g == [i \in 0..l |-> IF i = l THEN PollEach(f[l - 1]) ELSE f[i]]
  <2>4. ASSUME NEW i \in 0..l
        PROVE  g[i] = IF i = 0 THEN ws ELSE PollEach(g[i - 1])
    <3>1. i \in Int /\ 0 <= i /\ i <= l
      BY <1>3
    <3>2. CASE i = l
      <4>1. l - 1 \in 0..l /\ l - 1 # l
        BY <1>3, <2>1
      <4>2. g[i] = PollEach(f[l - 1]) /\ g[l - 1] = f[l - 1]
        BY <3>2, <4>1
      <4> QED
        BY <1>5, <3>2, <4>2
    <3>3. CASE i # l
      <4>1. i \in 0..(l - 1)
        BY <1>3, <3>1, <3>3
      <4>2. f[i] = IF i = 0 THEN ws ELSE PollEach(f[i - 1])
        BY <2>3, <4>1 DEF WalkTo
      <4>3. g[i] = f[i]
        BY <3>3
      <4>4. i # 0 => g[i - 1] = f[i - 1]
        <5>1. i # 0 => i - 1 \in 0..l /\ i - 1 # l
          BY <1>3, <3>1
        <5> QED
          BY <5>1
      <4> HIDE DEF g
      <4> QED
        BY <4>2, <4>3, <4>4
    <3> QED
      BY <3>2, <3>3
  <2>5. g = [i \in 0..l |-> g[i]]
    OBVIOUS
  <2> HIDE DEF g
  <2>6. [i \in 0..l |-> g[i]] = [i \in 0..l |-> IF i = 0 THEN ws ELSE PollEach(g[i - 1])]
    BY <2>4
  <2>7. WalkTo(g, l, ws)
    BY <2>5, <2>6 DEF WalkTo
  <2> QED
    BY <1>3, <2>7
<1> QED
  BY <1>4, <1>5

\* The walk f over others ends in k.
WalkEnds(f, m, k, others) ==
  /\ WalkTo(f, Cardinality(others), {[m |-> m, left |-> others]})
  /\ \E w \in f[Cardinality(others)] : k = w.m

\* PollJobs goes through the steps of the walk.
LEMMA PollJobsIsWalk ==
  ASSUME NEW m, NEW others, Cardinality(others) \in Nat, NEW k, k \in PollJobs(m, others)
  PROVE  \E f : WalkEnds(f, m, k, others)
<1> DEFINE N == Cardinality(others)
           ws == {[m |-> m, left |-> others]}
           f == CHOOSE f : WalkTo(f, N, ws)
<1>1. WalkTo(f, N, ws)
  <2>1. \E g : WalkTo(g, N, ws)
    BY WalkDefined
  <2> QED
    BY <2>1
<1>2. f = CHOOSE after : after = [i \in 0..N |-> IF i = 0 THEN ws
                                                 ELSE UNION {PollNext(w) : w \in after[i - 1]}]
  BY DEF WalkTo, PollEach
<1>3. PollJobs(m, others) = {w.m : w \in f[N]}
  BY <1>2, Zenon DEF PollJobs
<1> HIDE DEF f, ws
<1>4. \E w \in f[N] : k = w.m
  BY <1>3
<1> QED
  BY <1>1, <1>4 DEF ws, WalkEnds

-----------------------------------------------------------------------------
(* The accounts of the pool *)

\* The accounts of the publish i, which is of this kind, hold.  The end of any query ends a
\* follow-up publish, so that its accounts hold only if it is not among those mixed up, mx.
Held(kind, i, mx) == kind # "FollowUp" \/ i \notin mx

\* A ledger g has, for every publish, its kind, the nodes it has asked, those that did
\* not store the record, those it waits for and those whose answer was dropped, and has the
\* publishes told to stop and those mixed up.
Ledger ==
  [kinds : [Job -> JobKind], asked : [Job -> SUBSET Node], refused : [Job -> SUBSET Node],
   waiting : [Job -> SUBSET Node], lost : [Job -> SUBSET Node], halted : SUBSET Job,
   mixed : SUBSET Job]

\* The accounts of the publish i agree with the ledger.
Kept(m, g, i) ==
  m.jobs[i].kind # "none" /\ Held(m.jobs[i].kind, i, m.mixed) =>
    JobSound(m.jobs[i], g.asked[i], g.refused[i]) /\ m.jobs[i].waiting = g.waiting[i]

\* What the machine reports is about the publish i.
About(m, i) == m.out.kind \in {"Store", "Finished"} /\ m.out.job = i

\* The machine agrees with the ledger, but for what it reports.
Outcome(m, g) ==
  /\ m \in MachineType
  /\ g.mixed \subseteq m.mixed
  /\ \A i \in Job : m.jobs[i].stopped => i \in g.halted
  /\ \A i \in Job : m.jobs[i].kind = g.kinds[i] \/ (m.out.kind = "Finished" /\ m.out.job = i)
  /\ \A i \in Job : About(m, i) => g.kinds[i] # "none"
  /\ \A i \in Job : About(m, i) \/ Kept(m, g, i)
  /\ \A i \in Job : About(m, i) /\ Held(g.kinds[i], i, m.mixed) =>
       Accounted(m, i, g.asked[i], g.refused[i], g.waiting[i], i \in g.halted)
  /\ m.out.kind \in {"Store", "Finished", "FindCloser"} => m.out.job \in Job
  /\ m.out.kind = "Store" => m.out.node \in Node
  /\ m.out.kind = "Finished" => m.jobs[m.out.job] = NoJob

\* Of the publishes that are not mixed up none that was stopped is left, and each has its
\* query exactly while it looks for nodes.
Neat(m) == \A i \in Job \ m.mixed : OwnQuery(m, i)

\* The same when an event comes for the publish j: one that is started has no query yet.
Ready(m, j, ev) ==
  /\ \A i \in Job \ m.mixed : i # j => OwnQuery(m, i)
  /\ j \notin m.mixed => QueryFirst(m, j, ev)

\* The event for the publish j is entered in the ledger.
Entered(g, h, j, ev) ==
  /\ h.kinds = g.kinds /\ h.asked = g.asked /\ h.halted = g.halted
  /\ h.mixed = g.mixed /\ h.lost = g.lost
  /\ \A i \in Job \ {j} : h.refused[i] = g.refused[i] /\ h.waiting[i] = g.waiting[i]
  /\ h.refused[j] = RefusedWith(g.refused[j], ev) /\ h.waiting[j] = WaitingWith(g.waiting[j], ev)

\* An advance of any publish.
LEMMA AdvanceJobSound ==
  ASSUME NEW m \in MachineType, NEW j \in Job, m.jobs[j].kind # "none", NEW ev, EventSound(ev),
         NEW a, NEW r, NEW k \in AdvanceJob(m, j, ev)
  PROVE  Advanced(m, k, j, a, r, ev)
<1>1. m.jobs[j].kind \in {"Static", "FollowUp", "Optimistic"}
  BY DEF MachineType, JobType, JobKind
<1>2. CASE m.jobs[j].kind = "Static"
  <2>1. k \in AdvanceStatic(m, j, ev)
    BY <1>2 DEF AdvanceJob
  <2>2. /\ Moved(m, k, j) /\ Halts(m, k, j, ev.kind = "Stop")
        /\ k.queries = m.queries /\ k.mixed = m.mixed /\ Calm(k, j) /\
             (k.jobs[j].stopped => m.jobs[j].stopped)
        /\ Accountable(m, j, a, r, ev) => AccountedWith(m, k, j, a, r, ev)
    BY <1>2, <2>1, AdvanceStaticSound
  <2> QED
    BY <1>2, <2>2 DEF Advanced
<1>3. CASE m.jobs[j].kind = "FollowUp"
  <2>1. k \in AdvanceFollowUp(m, j, ev)
    BY <1>3 DEF AdvanceJob
  <2> QED
    BY <1>3, <2>1, AdvanceFollowUpSound
<1>4. CASE m.jobs[j].kind = "Optimistic"
  <2>1. k \in AdvanceOptimistic(m, j, ev)
    BY <1>4 DEF AdvanceJob
  <2> QED
    BY <1>4, <2>1, AdvanceOptimisticSound
<1> QED
  BY <1>1, <1>2, <1>3, <1>4

\* The publishes agree with the ledger after one of them has been advanced.
LEMMA StepOutcome ==
  ASSUME NEW m, NEW g \in Ledger, NEW h, Outcome(m, g), ~Terminal(m),
         NEW j \in Job, m.jobs[j].kind # "none", NEW ev, EventSound(ev), Entered(g, h, j, ev),
         Held(m.jobs[j].kind, j, m.mixed) => Accountable(m, j, g.asked[j], g.refused[j], ev),
         Ready(m, j, ev),
         ev.kind = "Stop" => j \in g.halted,
         NEW k, Advanced(m, k, j, g.asked[j], g.refused[j], ev)
  PROVE  Outcome(k, h)
<1> DEFINE old == m.jobs[j]
<1>1. /\ m \in MachineType /\ k \in MachineType
      /\ old \in JobType /\ old.kind \in JobKind /\ old.stopped \in BOOLEAN
  BY DEF Outcome, Advanced, Moved, MachineType, JobType
<1>2. /\ \A i \in Job : ~About(m, i) /\ m.jobs[i].kind = g.kinds[i]
      /\ \A i \in Job : Kept(m, g, i)
      /\ \A i \in Job : m.jobs[i].stopped => i \in g.halted
  BY DEF Outcome, Terminal, About
<1>3. /\ Moved(m, k, j) /\ Halts(m, k, j, ev.kind = "Stop")
      /\ m.mixed \subseteq k.mixed
      /\ Held(old.kind, j, k.mixed) => AccountedWith(m, k, j, g.asked[j], g.refused[j], ev)
  <2>1. Moved(m, k, j) /\ Halts(m, k, j, ev.kind = "Stop") /\ m.mixed \subseteq k.mixed
    BY DEF Advanced, Moved, QueriesKept
  <2>2. ASSUME Held(old.kind, j, k.mixed)
        PROVE  AccountedWith(m, k, j, g.asked[j], g.refused[j], ev)
    <3>1. Held(old.kind, j, m.mixed) /\
            (old.kind = "FollowUp" => j \notin m.mixed /\ j \notin k.mixed)
      BY <2>1, <2>2 DEF Held
    <3>2. Accountable(m, j, g.asked[j], g.refused[j], ev)
      BY <3>1
    <3>3. old.kind = "FollowUp" => QueryFirst(m, j, ev)
      BY <3>1 DEF Ready
    <3> QED
      BY <3>1, <3>2, <3>3 DEF Advanced
  <2> QED
    BY <2>1, <2>2
<1>4. \A i \in Job : k.jobs[i].stopped => i \in h.halted
  BY <1>2, <1>3 DEF Moved, Halts, Entered
<1>5. \A i \in Job : k.jobs[i].kind = h.kinds[i] \/ (k.out.kind = "Finished" /\ k.out.job = i)
  BY <1>2, <1>3 DEF Moved, Entered
<1>6. \A i \in Job \ {j} : ~About(k, i) /\ Kept(k, h, i)
  BY <1>2, <1>3 DEF Moved, Entered, About, Kept, Held
<1>7. About(k, j) \/ Kept(k, h, j)
  <2> SUFFICES ASSUME ~About(k, j), k.jobs[j].kind # "none", Held(k.jobs[j].kind, j, k.mixed)
               PROVE  JobSound(k.jobs[j], h.asked[j], h.refused[j]) /\
                      k.jobs[j].waiting = h.waiting[j]
    BY DEF Kept
  <2>1. k.out.kind \notin {"Store", "Finished"} /\ k.jobs[j].kind = old.kind
    BY <1>3 DEF Moved, About
  <2>2. /\ JobSound(k.jobs[j], g.asked[j], RefusedWith(g.refused[j], ev))
        /\ k.jobs[j].waiting = WaitingWith(old.waiting, ev)
    BY <1>3, <2>1 DEF AccountedWith, Accounted
  <2>3. old.waiting = g.waiting[j]
    BY <1>2, <1>3, <2>1 DEF Kept, Held
  <2> QED
    BY <2>2, <2>3 DEF Entered
<1>8. About(k, j) /\ Held(h.kinds[j], j, k.mixed) =>
        Accounted(k, j, h.asked[j], h.refused[j], h.waiting[j], j \in h.halted)
  <2> SUFFICES ASSUME About(k, j), Held(h.kinds[j], j, k.mixed)
               PROVE  Accounted(k, j, h.asked[j], h.refused[j], h.waiting[j], j \in h.halted)
    OBVIOUS
  <2>1. Held(old.kind, j, k.mixed) /\ old.waiting = g.waiting[j]
    BY <1>2, <1>3 DEF Entered, Kept, Held
  <2>2. PICK stop \in BOOLEAN : stop = (old.stopped \/ ev.kind = "Stop")
    BY <1>1
  <2>3. Accounted(k, j, h.asked[j], h.refused[j], h.waiting[j], stop)
    BY <1>3, <2>1, <2>2 DEF AccountedWith, Entered
  <2>4. stop => j \in h.halted
    BY <1>2, <2>2 DEF Entered
  <2> QED
    BY <2>3, <2>4 DEF Accounted
<1>9. \A i \in Job : About(k, i) => h.kinds[i] # "none"
  BY <1>2, <1>6 DEF Entered
<1>10. /\ k.out.kind \in {"Store", "Finished", "FindCloser"} => k.out.job \in Job
       /\ k.out.kind = "Store" => k.out.node \in Node
       /\ k.out.kind = "Finished" => k.jobs[k.out.job] = NoJob
  BY <1>3 DEF Moved
<1>11. h.mixed \subseteq k.mixed
  BY <1>3 DEF Outcome, Entered
<1> QED
  BY <1>1, <1>4, <1>5, <1>6, <1>7, <1>8, <1>9, <1>10, <1>11 DEF Outcome

\* The publishes that are not mixed up still have their queries.
LEMMA StepNeat ==
  ASSUME NEW m \in MachineType, NEW j \in Job, m.jobs[j].kind # "none", NEW ev,
         Ready(m, j, ev), NEW a, NEW r,
         Held(m.jobs[j].kind, j, m.mixed) => Accountable(m, j, a, r, ev),
         NEW k, Advanced(m, k, j, a, r, ev)
  PROVE  Neat(k) /\ (ev.kind = "Poll" /\ j \notin k.mixed => Calm(k, j))
<1> DEFINE old == m.jobs[j]
<1>1. /\ Moved(m, k, j) /\ (k.jobs[j].kind = old.kind \/ k.jobs[j] = NoJob)
      /\ QueriesKept(m, k, j)
  BY DEF Advanced, Moved
<1>2. ASSUME NEW i \in Job \ k.mixed, i # j PROVE OwnQuery(k, i)
  <2>1. OwnQuery(m, i)
    BY <1>1, <1>2 DEF QueriesKept, Ready
  <2>2. k.jobs[i] = m.jobs[i] /\ (i \in k.queries <=> i \in m.queries)
    BY <1>1, <1>2 DEF Moved, QueriesKept
  <2> QED
    BY <2>1, <2>2 DEF OwnQuery
<1>3. ASSUME j \notin k.mixed PROVE OwnQuery(k, j) /\ (ev.kind = "Poll" => Calm(k, j))
  <2>1. QueryFirst(m, j, ev) /\ Accountable(m, j, a, r, ev)
    BY <1>1, <1>3 DEF QueriesKept, Ready, Held
  <2>2. CASE old.kind = "Static"
    <3>1. k.queries = m.queries /\ Calm(k, j) /\ (k.jobs[j].stopped => old.stopped)
      BY <2>2 DEF Advanced
    <3>2. ~Walking(old) /\ ~Walking(k.jobs[j])
      BY <1>1, <2>2, NoJobSound DEF Walking
    <3> QED
      BY <2>1, <3>1, <3>2 DEF QueryFirst, OwnQuery
  <2>3. CASE old.kind # "Static"
    BY <1>3, <2>1, <2>3 DEF Advanced
  <2> QED
    BY <2>2, <2>3
<1> QED
  BY <1>2, <1>3 DEF Neat

\* Every publish waits for the answer to a store request and has no other to make.
Resting(m, i) == m.jobs[i].waiting # {} /\ m.jobs[i].todo = {}

\* The machine has come from m by polls of some of its publishes.
PolledFrom(m, k, g) ==
  /\ Outcome(k, g) /\ Neat(k)
  /\ m.mixed \subseteq k.mixed
  /\ m.due => k.due

\* The walk over others has got to w: those it has left behind, of which none has asked
\* to be advanced at a due time, rest, but for those that are mixed up.
Polled(m, w, g, others) ==
  /\ PolledFrom(m, w.m, g)
  /\ w.left \subseteq others
  /\ ~Terminal(w.m) => \A i \in others : w.m.jobs[i].kind # "none"
  /\ ~Terminal(w.m) /\ ~w.m.due =>
       \A i \in others \ w.left : i \in w.m.mixed \/ Resting(w.m, i)

\* One publish is polled.
LEMMA PollOneSound ==
  ASSUME NEW m, NEW g \in Ledger, Outcome(m, g), Neat(m), ~Terminal(m),
         NEW j \in Job, m.jobs[j].kind # "none", NEW k \in AdvanceJob(m, j, PollEvent)
  PROVE  /\ PolledFrom(m, k, g)
         /\ \A i \in Job \ {j} : k.jobs[i] = m.jobs[i]
         /\ ~Terminal(k) => k.jobs[j].kind = m.jobs[j].kind
         /\ ~Terminal(k) /\ ~k.due => j \in k.mixed \/ Resting(k, j)
<1> DEFINE ev == PollEvent
<1>1. ev.kind = "Poll" /\ EventSound(ev) /\ Entered(g, g, j, ev)
  BY DEF PollEvent, JobEvent, EventSound, Entered, RefusedWith, WaitingWith, Answers
<1> HIDE DEF ev
<1>2. k \in AdvanceJob(m, j, ev) /\ m \in MachineType
  BY DEF ev, Outcome
<1>3. Advanced(m, k, j, g.asked[j], g.refused[j], ev)
  BY <1>1, <1>2, AdvanceJobSound
<1>4. Held(m.jobs[j].kind, j, m.mixed) => Accountable(m, j, g.asked[j], g.refused[j], ev)
  BY <1>1 DEF Outcome, Terminal, About, Kept, Accountable, Answers
<1>5. Ready(m, j, ev)
  BY <1>1 DEF Neat, Ready, OwnQuery, QueryFirst
<1>6. Outcome(k, g)
  BY <1>1, <1>3, <1>4, <1>5, StepOutcome
<1>7. Neat(k) /\ (j \notin k.mixed => Calm(k, j))
  BY <1>1, <1>2, <1>3, <1>4, <1>5, StepNeat
<1>8. Moved(m, k, j)
  BY <1>3 DEF Advanced
<1>9. ~Terminal(k) => k.out.kind \notin {"Store", "Finished", "FindCloser"}
  BY DEF Terminal
<1>10. k.out.kind \in {"none", "Idle", "Waiting", "FindCloser", "Store", "Finished"}
  BY <1>8 DEF Moved, MachineType, OutType
<1>11. ~Terminal(k) /\ ~k.due => j \in k.mixed \/ Resting(k, j)
  BY <1>7, <1>8, <1>9, <1>10 DEF Calm, Moved, Resting
<1> QED
  BY <1>6, <1>7, <1>8, <1>9, <1>11 DEF PolledFrom, Moved, QueriesKept

\* One step of the walk: it polls one more publish, or has ended.
LEMMA PollNextSound ==
  ASSUME NEW m, NEW g \in Ledger, NEW others \in SUBSET Job, IsFiniteSet(others),
         NEW w, Polled(m, w, g, others), NEW v \in PollNext(w)
  PROVE  /\ Polled(m, v, g, others)
         /\ \/ Terminal(v.m)
            \/ ~Terminal(w.m) /\ Cardinality(v.left) = Cardinality(w.left) - 1
<1>1. CASE Terminal(w.m)
  BY <1>1 DEF PollNext
<1>2. CASE ~Terminal(w.m)
  <2>1. PICK j \in w.left : \E k \in AdvanceJob(w.m, j, PollEvent) :
          v = [m |-> k, left |-> w.left \ {j}]
    BY <1>2 DEF PollNext
  <2>2. PICK k \in AdvanceJob(w.m, j, PollEvent) : v = [m |-> k, left |-> w.left \ {j}]
    BY <2>1
  <2>3. j \in others /\ j \in Job /\ w.m.jobs[j].kind # "none" /\ w.left \in SUBSET others
    BY <1>2 DEF Polled
  <2>4. /\ PolledFrom(w.m, k, g)
        /\ \A i \in Job \ {j} : k.jobs[i] = w.m.jobs[i]
        /\ ~Terminal(k) => k.jobs[j].kind = w.m.jobs[j].kind
        /\ ~Terminal(k) /\ ~k.due => j \in k.mixed \/ Resting(k, j)
    BY <1>2, <2>2, <2>3, PollOneSound DEF Polled, PolledFrom
  <2>5. v.m = k /\ v.left = w.left \ {j}
    BY <2>2
  <2>6. PolledFrom(m, k, g)
    BY <2>4 DEF Polled, PolledFrom
  <2>7. ~Terminal(k) => \A i \in others : k.jobs[i].kind # "none"
    BY <1>2, <2>3, <2>4 DEF Polled
  <2>8. ~Terminal(k) /\ ~k.due =>
          \A i \in others \ (w.left \ {j}) : i \in k.mixed \/ Resting(k, i)
    <3> SUFFICES ASSUME ~Terminal(k), ~k.due, NEW i \in others \ (w.left \ {j}), i \notin k.mixed
                 PROVE  Resting(k, i)
      OBVIOUS
    <3>1. CASE i = j
      BY <2>4, <3>1
    <3>2. CASE i # j
      <4>1. ~w.m.due /\ i \in others \ w.left /\ i \notin w.m.mixed
        BY <2>4, <3>2 DEF PolledFrom
      <4> QED
        BY <1>2, <2>4, <3>2, <4>1 DEF Polled, Resting
    <3> QED
      BY <3>1, <3>2
  <2>9. Polled(m, v, g, others)
    BY <2>3, <2>5, <2>6, <2>7, <2>8 DEF Polled
  <2>10. Cardinality(w.left \ {j}) = Cardinality(w.left) - 1
    <3>1. IsFiniteSet(w.left)
      BY <2>3, FS_Subset
    <3> QED
      BY <3>1, FS_RemoveElement
  <2> QED
    BY <1>2, <2>5, <2>9, <2>10
<1> QED
  BY <1>1, <1>2

\* Pool.Advance polls the publishes it has left.
LEMMA PollJobsSound ==
  ASSUME NEW m, NEW g \in Ledger, Outcome(m, g), Neat(m), ~Terminal(m),
         NEW others \in SUBSET Job, \A i \in others : m.jobs[i].kind # "none",
         NEW k \in PollJobs(m, others)
  PROVE  /\ PolledFrom(m, k, g)
         /\ ~Terminal(k) /\ ~k.due => \A i \in others : i \in k.mixed \/ Resting(k, i)
<1> DEFINE N == Cardinality(others)
           first == [m |-> m, left |-> others]
<1>1. IsFiniteSet(others)
  BY FS_Subset, PublishJobsAssumption
<1>2. N \in Nat
  BY <1>1, FS_CardinalityType
<1>3. PICK f : WalkTo(f, N, {first}) /\ \E w \in f[N] : k = w.m
  <2>1. PICK f : WalkEnds(f, m, k, others)
    BY <1>2, PollJobsIsWalk
  <2> QED
    BY <2>1 DEF WalkEnds
<1>4. PICK last \in f[N] : k = last.m
  BY <1>3
<1> DEFINE Ahead(w, i) == Polled(m, w, g, others) /\ (Terminal(w.m) \/ Cardinality(w.left) = N - i)
           S == {i \in 0..N : \E w \in f[i] : ~Ahead(w, i)}
<1>5. S = {}
  <2> SUFFICES ASSUME S # {} PROVE FALSE
    OBVIOUS
  <2>1. S \in SUBSET Nat
    BY <1>2
  <2>2. PICK l \in S : \A i \in S : l <= i
    BY <2>1, LeastNat
  <2>3. l \in 0..N /\ l \in Int /\ 0 <= l /\ l <= N
    BY <1>2
  <2>4. PICK w \in f[l] : ~Ahead(w, l)
    OBVIOUS
  <2>5. f[l] = IF l = 0 THEN {first} ELSE PollEach(f[l - 1])
    BY <1>3, <2>3 DEF WalkTo
  <2>6. CASE l = 0
    <3>1. w = first
      BY <2>5, <2>6
    <3>2. w.m = m /\ w.left = others
      BY <3>1
    <3>3. Polled(m, w, g, others)
      BY <3>2 DEF Polled, PolledFrom
    <3> QED
      BY <1>2, <2>4, <2>6, <3>2, <3>3
  <2>7. CASE l # 0
    <3>1. l - 1 \in 0..N /\ ~(l <= l - 1)
      BY <1>2, <2>3, <2>7
    <3>2. l - 1 \notin S
      BY <2>2, <3>1
    <3>3. \A v \in f[l - 1] : Ahead(v, l - 1)
      BY <3>1, <3>2
    <3>4. PICK v \in f[l - 1] : w \in PollNext(v)
      BY <2>5, <2>7 DEF PollEach
    <3>5. Polled(m, v, g, others) /\ (Terminal(v.m) \/ Cardinality(v.left) = N - (l - 1))
      BY <3>3
    <3>6. /\ Polled(m, w, g, others)
          /\ \/ Terminal(w.m)
             \/ ~Terminal(v.m) /\ Cardinality(w.left) = Cardinality(v.left) - 1
      BY <1>1, <3>4, <3>5, PollNextSound
    <3>7. N - (l - 1) - 1 = N - l
      BY <1>2, <2>3
    <3> QED
      BY <2>4, <3>5, <3>6, <3>7
  <2> QED
    BY <2>6, <2>7
<1>6. Polled(m, last, g, others) /\ (Terminal(last.m) \/ Cardinality(last.left) = N - N)
  <2>1. N \in 0..N
    BY <1>2
  <2>2. Ahead(last, N)
    BY <1>5, <2>1
  <2> QED
    BY <2>2
<1>7. ~Terminal(last.m) => last.left = {}
  <2> SUFFICES ASSUME ~Terminal(last.m) PROVE last.left = {}
    OBVIOUS
  <2>1. Cardinality(last.left) = 0
    BY <1>2, <1>6
  <2>2. IsFiniteSet(last.left)
    BY <1>1, <1>6, FS_Subset DEF Polled
  <2> QED
    BY <2>1, <2>2, FS_EmptySet
<1> QED
  BY <1>4, <1>6, <1>7 DEF Polled

\* Pool.Advance.
LEMMA AdvanceSound ==
  ASSUME NEW m, NEW g \in Ledger, NEW h \in Ledger, Outcome(m, g), ~Terminal(m), NEW j \in Job,
         NEW ev, EventSound(ev), NEW k \in Advance(m, j, ev),
         IF m.jobs[j].kind = "none" THEN h = g /\ Neat(m)
         ELSE /\ Entered(g, h, j, ev)
              /\ Held(m.jobs[j].kind, j, m.mixed) => Accountable(m, j, g.asked[j], g.refused[j], ev)
              /\ ev.kind = "Stop" => j \in g.halted
              /\ Ready(m, j, ev)
  PROVE  Outcome(k, h) /\ Neat(k)
<1>1. \A js : Running(js) \in SUBSET Job /\ \A i \in Running(js) : js[i].kind # "none"
  BY DEF Running
<1>2. CASE m.jobs[j].kind = "none"
  <2>1. k \in PollJobs(m, Running(m.jobs))
    BY <1>2 DEF Advance
  <2> QED
    BY <1>1, <1>2, <2>1, PollJobsSound DEF PolledFrom
<1>3. CASE m.jobs[j].kind # "none"
  <2>1. PICK l \in AdvanceJob(m, j, ev) :
          k \in IF Terminal(l) THEN {l} ELSE PollJobs(l, Running(l.jobs) \ {j})
    BY <1>3 DEF Advance
  <2>2. m \in MachineType
    BY DEF Outcome
  <2>3. Advanced(m, l, j, g.asked[j], g.refused[j], ev)
    BY <1>3, <2>1, <2>2, AdvanceJobSound
  <2>4. Outcome(l, h)
    BY <1>3, <2>3, StepOutcome
  <2>5. Neat(l)
    BY <1>3, <2>2, <2>3, StepNeat
  <2>6. CASE Terminal(l)
    BY <2>1, <2>4, <2>5, <2>6
  <2>7. CASE ~Terminal(l)
    <3> DEFINE others == Running(l.jobs) \ {j}
    <3>1. others \in SUBSET Job /\ \A i \in others : l.jobs[i].kind # "none"
      BY <1>1
    <3>2. k \in PollJobs(l, others)
      BY <2>1, <2>7
    <3> HIDE DEF others
    <3> QED
      BY <2>4, <2>5, <2>7, <3>1, <3>2, PollJobsSound DEF PolledFrom
  <2> QED
    BY <2>6, <2>7
<1> QED
  BY <1>2, <1>3

-----------------------------------------------------------------------------
(* The inductive invariant *)

StatusType == [Job -> {"new", "running", "stopped", "done", "abandoned"}]

ResultType == [Job -> [contacted : SUBSET Node, errors : SUBSET Node]]

\* The variables have their types.
Typed ==
  /\ finds \in [Job -> Int] /\ poll \in {"now", "due", "none"}
  /\ status \in StatusType /\ result \in ResultType
  /\ again \in [Job -> SUBSET Node] /\ stores \in [Job \X Node -> Int]

\* The ledger of the state.
BookOf(js, a, r, s, l, mx) ==
  [kinds |-> [i \in Job |-> js[i].kind], asked |-> a, refused |-> r,
   waiting |-> [i \in Job |-> js[i].waiting], lost |-> l,
   halted |-> {i \in Job : s[i] = "stopped"}, mixed |-> mx]

Book == BookOf(jobs, asked, refused, status, lost, mixed)

MachineOf(js, qs, sn, mx) ==
  [jobs |-> js, queries |-> qs, sent |-> sn, mixed |-> mx, due |-> FALSE, out |-> NoOut]

\* What the callers know of a publish that is not mixed up, s, and what it reported, rs,
\* agree with the ledger and with the store requests in flight, ss.
ResultsSound(h, s, rs, ss) ==
  \A j \in Job \ h.mixed :
    /\ s[j] = "done" => /\ rs[j].contacted = h.asked[j] /\ rs[j].errors = h.refused[j]
                        /\ h.lost[j] = {} /\ \A n \in Node : ss[<<j, n>>] = 0
    /\ s[j] = "abandoned" =>
         h.asked[j] \subseteq rs[j].contacted /\ h.refused[j] \subseteq rs[j].errors

\* One store request of the publish i is in flight to each of the nodes w that it waits for,
\* but those, l, whose answer was dropped.
InFlight(i, w, l, ss) ==
  l \subseteq w /\ \A n \in Node : ss[<<i, n>>] = IF n \in w \ l THEN 1 ELSE 0

\* The ledger agrees with the requests made again, ag, as well: a publish that has not
\* started has no account, one that runs is known to, and the store requests in flight are
\* to the nodes that are waited for.
Books(h, s, ag, rs, ss) ==
  /\ h \in Ledger
  /\ h.halted = {i \in Job : s[i] = "stopped"}
  /\ \A i \in Job : h.kinds[i] # "none" => s[i] \in {"running", "stopped"}
  /\ \A i \in Job : s[i] = "new" =>
       /\ h.asked[i] = {} /\ ag[i] = {} /\ h.refused[i] = {} /\ h.lost[i] = {}
       /\ \A n \in Node : ss[<<i, n>>] = 0
  /\ \A i \in Job : h.kinds[i] # "none" /\ Held(h.kinds[i], i, h.mixed) =>
       ag[i] = {} /\ InFlight(i, h.waiting[i], h.lost[i], ss)
  /\ \A i \in Job \ h.mixed : ag[i] = {}
  /\ ResultsSound(h, s, rs, ss)

\* The inductive invariant.
IInv ==
  /\ Typed
  /\ Outcome(Machine, Book)
  /\ Books(Book, status, again, result, stores)
  /\ Neat(Machine) /\ RestsOnStores

\* The part of the inductive invariant about the publish i, whose record is job, which has
\* asked the nodes a, those of ag again, of which r did not store the record and l have had
\* their answers dropped, which reported rs at its end, and of which its caller knows s; mx
\* are mixed up.
At(i, job, a, ag, r, rs, s, ss, l, mx) ==
  /\ job.stopped => s = "stopped"
  /\ job.kind # "none" => s \in {"running", "stopped"}
  /\ s = "new" => a = {} /\ ag = {} /\ r = {} /\ l = {} /\ \A n \in Node : ss[<<i, n>>] = 0
  /\ job.kind # "none" /\ Held(job.kind, i, mx) =>
       JobSound(job, a, r) /\ ag = {} /\ InFlight(i, job.waiting, l, ss)
  /\ i \notin mx =>
       /\ ag = {}
       /\ s = "done" =>
            rs.contacted = a /\ rs.errors = r /\ l = {} /\ \A n \in Node : ss[<<i, n>>] = 0
       /\ s = "abandoned" => a \subseteq rs.contacted /\ r \subseteq rs.errors

\* A publish of which the machine reports nothing has the accounts that it had.
LEMMA AtUntouched ==
  ASSUME NEW k, NEW h, NEW s, NEW ag, NEW rs, NEW ss, Outcome(k, h), Books(h, s, ag, rs, ss),
         NEW i \in Job, ~About(k, i), NEW S, \A n \in Node : S[<<i, n>>] = ss[<<i, n>>]
  PROVE  At(i, k.jobs[i], h.asked[i], ag[i], h.refused[i], rs[i], s[i], S, h.lost[i], k.mixed)
<1>1. k.jobs[i].kind = h.kinds[i] /\ (i \in h.mixed => i \in k.mixed)
  BY DEF Outcome, About
<1>2. k.jobs[i].stopped => s[i] = "stopped"
  BY DEF Outcome, Books
<1>3. k.jobs[i].kind # "none" /\ Held(k.jobs[i].kind, i, k.mixed) =>
        /\ JobSound(k.jobs[i], h.asked[i], h.refused[i]) /\ k.jobs[i].waiting = h.waiting[i]
        /\ ag[i] = {} /\ InFlight(i, h.waiting[i], h.lost[i], S)
  <2> SUFFICES ASSUME k.jobs[i].kind # "none", Held(k.jobs[i].kind, i, k.mixed)
               PROVE  /\ JobSound(k.jobs[i], h.asked[i], h.refused[i])
                      /\ k.jobs[i].waiting = h.waiting[i]
                      /\ ag[i] = {} /\ InFlight(i, h.waiting[i], h.lost[i], S)
    OBVIOUS
  <2>1. JobSound(k.jobs[i], h.asked[i], h.refused[i]) /\ k.jobs[i].waiting = h.waiting[i]
    BY DEF Outcome, Kept
  <2>2. Held(h.kinds[i], i, h.mixed)
    BY <1>1 DEF Held
  <2>3. ag[i] = {} /\ InFlight(i, h.waiting[i], h.lost[i], ss)
    BY <1>1, <2>2 DEF Books
  <2> QED
    BY <2>1, <2>3 DEF InFlight
<1>4. s[i] = "new" => /\ h.asked[i] = {} /\ ag[i] = {} /\ h.refused[i] = {} /\ h.lost[i] = {}
                      /\ \A n \in Node : S[<<i, n>>] = 0
  BY DEF Books
<1>5. ASSUME i \notin k.mixed
      PROVE  /\ ag[i] = {}
             /\ s[i] = "done" => /\ rs[i].contacted = h.asked[i] /\ rs[i].errors = h.refused[i]
                                 /\ h.lost[i] = {} /\ \A n \in Node : S[<<i, n>>] = 0
             /\ s[i] = "abandoned" =>
                  h.asked[i] \subseteq rs[i].contacted /\ h.refused[i] \subseteq rs[i].errors
  BY <1>1, <1>5 DEF Books, ResultsSound
<1>6. k.jobs[i].kind # "none" => s[i] \in {"running", "stopped"}
  BY <1>1 DEF Books
<1> QED
  BY <1>2, <1>3, <1>4, <1>5, <1>6 DEF At

\* The publish i has asked the node n.
Requested(i, n, a, A, ag, G, ss, S) ==
  /\ A = a \cup {n}
  /\ G = IF n \in a THEN ag \cup {n} ELSE ag
  /\ S[<<i, n>>] = ss[<<i, n>>] + 1
  /\ \A l \in Node \ {n} : S[<<i, l>>] = ss[<<i, l>>]

\* A publish that has asked a node has one more request in flight.
LEMMA AtStore ==
  ASSUME NEW k, NEW h, NEW s, NEW ag, NEW rs, NEW ss, Outcome(k, h), Books(h, s, ag, rs, ss),
         NEW i \in Job, k.out.kind = "Store", k.out.job = i, NEW n, n = k.out.node,
         NEW S, NEW A, NEW G, Requested(i, n, h.asked[i], A, ag[i], G, ss, S)
  PROVE  At(i, k.jobs[i], A, G, h.refused[i], rs[i], s[i], S, h.lost[i], k.mixed)
<1>1. /\ About(k, i) /\ n \in Node
      /\ k.jobs[i].kind = h.kinds[i] /\ h.kinds[i] # "none"
      /\ k.jobs[i].stopped => s[i] = "stopped"
      /\ i \in h.mixed => i \in k.mixed
  BY DEF Outcome, Books, About
<1>2. s[i] \in {"running", "stopped"}
  BY <1>1 DEF Books
<1>3. ASSUME Held(h.kinds[i], i, k.mixed)
      PROVE  JobSound(k.jobs[i], A, h.refused[i]) /\ G = {} /\
             InFlight(i, k.jobs[i].waiting, h.lost[i], S)
  <2>1. Accounted(k, i, h.asked[i], h.refused[i], h.waiting[i], i \in h.halted)
    BY <1>1, <1>3 DEF Outcome
  <2>2. /\ n \notin h.asked[i] /\ JobSound(k.jobs[i], A, h.refused[i])
        /\ k.jobs[i].waiting = h.waiting[i] \cup {n}
    BY <2>1 DEF Accounted, Requested
  <2>3. Held(h.kinds[i], i, h.mixed)
    BY <1>1, <1>3 DEF Held
  <2>4. ag[i] = {} /\ InFlight(i, h.waiting[i], h.lost[i], ss)
    BY <1>1, <2>3 DEF Books
  <2>5. n \notin h.waiting[i]
    BY <1>1, <2>1 DEF Accounted
  <2>6. InFlight(i, k.jobs[i].waiting, h.lost[i], S)
    BY <1>1, <2>2, <2>4, <2>5 DEF InFlight, Requested
  <2> QED
    BY <2>2, <2>4, <2>6 DEF Requested
<1>4. i \notin k.mixed => G = {}
  BY <1>3 DEF Held
<1> QED
  BY <1>1, <1>2, <1>3, <1>4 DEF At

\* A publish that has ended reports to its caller.
LEMMA AtFinish ==
  ASSUME NEW k, NEW h, NEW s, NEW ag, NEW rs, NEW ss, Outcome(k, h), Books(h, s, ag, rs, ss),
         NEW i \in Job, k.out.kind = "Finished", k.out.job = i,
         NEW S, \A n \in Node : S[<<i, n>>] = ss[<<i, n>>],
         NEW R, R.contacted = k.out.contacted, R.errors = k.out.errors
  PROVE  At(i, k.jobs[i], h.asked[i], ag[i], h.refused[i], R,
            IF s[i] = "stopped" THEN "abandoned" ELSE "done", S, h.lost[i], k.mixed)
<1>1. /\ k.jobs[i] = NoJob /\ About(k, i) /\ h.kinds[i] # "none"
      /\ i \in h.mixed => i \in k.mixed
  BY DEF Outcome, About
<1>2. (i \in h.halted) <=> (s[i] = "stopped")
  BY DEF Books
<1>3. ASSUME i \notin k.mixed
      PROVE  /\ ag[i] = {}
             /\ h.asked[i] \subseteq k.out.contacted /\ h.refused[i] \subseteq k.out.errors
             /\ s[i] # "stopped" =>
                  /\ k.out.contacted = h.asked[i] /\ k.out.errors = h.refused[i]
                  /\ h.lost[i] = {} /\ \A n \in Node : ss[<<i, n>>] = 0
  <2>1. Accounted(k, i, h.asked[i], h.refused[i], h.waiting[i], i \in h.halted)
    BY <1>1, <1>3 DEF Outcome, Held
  <2>2. ag[i] = {} /\ InFlight(i, h.waiting[i], h.lost[i], ss)
    BY <1>1, <1>3 DEF Books, Held
  <2>3. /\ h.asked[i] \subseteq k.out.contacted /\ h.refused[i] \subseteq k.out.errors
        /\ s[i] # "stopped" => k.out.contacted = h.asked[i] /\ k.out.errors = h.refused[i]
                               /\ h.waiting[i] = {}
    BY <1>2, <2>1 DEF Accounted
  <2> QED
    BY <2>2, <2>3 DEF InFlight
<1> QED
  BY <1>1, <1>3, NoJobSound DEF At

AllAt(js, a, ag, r, rs, s, ss, ls, mx) ==
  \A i \in Job : At(i, js[i], a[i], ag[i], r[i], rs[i], s[i], ss, ls[i], mx)

\* The parts of the inductive invariant about each of the publishes make up the whole.
LEMMA Assembled ==
  ASSUME NEW js \in [Job -> JobType], NEW qs \in SUBSET Job, NEW sn \in [Job -> Int],
         NEW a \in [Job -> SUBSET Node], NEW r \in [Job -> SUBSET Node], NEW s \in StatusType,
         NEW ls \in [Job -> SUBSET Node], NEW mx \in SUBSET Job,
         NEW ag, NEW rs, NEW ss, AllAt(js, a, ag, r, rs, s, ss, ls, mx)
  PROVE  /\ Outcome(MachineOf(js, qs, sn, mx), BookOf(js, a, r, s, ls, mx))
         /\ Books(BookOf(js, a, r, s, ls, mx), s, ag, rs, ss)
<1> DEFINE m == MachineOf(js, qs, sn, mx)
           b == BookOf(js, a, r, s, ls, mx)
<1>1. NoOut \in OutType /\ NoOut.kind = "none"
  BY DEF NoOut, OutType
<1>2. m \in MachineType /\ m.jobs = js /\ m.mixed = mx /\ m.out.kind = "none"
  BY <1>1 DEF MachineType, MachineOf
<1> HIDE DEF m
<1>3. \A i \in Job : js[i].kind \in JobKind /\ js[i].waiting \in SUBSET Node
  BY DEF JobType
<1> DEFINE ks == [i \in Job |-> js[i].kind]
           ws == [i \in Job |-> js[i].waiting]
           hs == {i \in Job : s[i] = "stopped"}
<1>4. ks \in [Job -> JobKind] /\ ws \in [Job -> SUBSET Node] /\ hs \in SUBSET Job
  BY <1>3
<1>5. \A i \in Job : ks[i] = js[i].kind /\ ws[i] = js[i].waiting /\ (i \in hs <=> s[i] = "stopped")
  OBVIOUS
<1>6. b = [kinds |-> ks, asked |-> a, refused |-> r, waiting |-> ws, lost |-> ls, halted |-> hs,
           mixed |-> mx]
  BY DEF BookOf
<1> HIDE DEF ks, ws, hs, b
<1>7. \A i \in Job : At(i, js[i], a[i], ag[i], r[i], rs[i], s[i], ss, ls[i], mx)
  BY DEF AllAt
<1>8. /\ b.kinds = ks /\ b.asked = a /\ b.refused = r /\ b.waiting = ws /\ b.lost = ls
      /\ b.halted = hs /\ b.mixed = mx
  BY <1>6
<1>9. Outcome(m, b)
  <2>1. \A i \in Job : ~About(m, i)
    BY <1>2 DEF About
  <2>2. \A i \in Job : Kept(m, b, i)
    BY <1>2, <1>5, <1>7, <1>8 DEF Kept, At
  <2>3. \A i \in Job : m.jobs[i].stopped => i \in b.halted
    BY <1>2, <1>5, <1>7, <1>8 DEF At
  <2> QED
    BY <1>2, <1>5, <1>8, <2>1, <2>2, <2>3 DEF Outcome
<1>10. ResultsSound(b, s, rs, ss)
  BY <1>7, <1>8 DEF At, ResultsSound
<1>11. b.halted = {i \in Job : s[i] = "stopped"}
  BY <1>8 DEF hs
<1>12. /\ \A i \in Job : b.kinds[i] # "none" => s[i] \in {"running", "stopped"}
       /\ \A i \in Job : s[i] = "new" =>
            /\ b.asked[i] = {} /\ ag[i] = {} /\ b.refused[i] = {} /\ b.lost[i] = {}
            /\ \A n \in Node : ss[<<i, n>>] = 0
       /\ \A i \in Job : b.kinds[i] # "none" /\ Held(b.kinds[i], i, b.mixed) =>
            ag[i] = {} /\ InFlight(i, b.waiting[i], b.lost[i], ss)
       /\ \A i \in Job \ b.mixed : ag[i] = {}
  BY <1>5, <1>7, <1>8 DEF At
<1>13. b \in Ledger
  BY <1>4, <1>6 DEF Ledger
<1> QED
  BY <1>9, <1>10, <1>11, <1>12, <1>13 DEF Books, m, b

\* The behaviour does what the machine reports.
LEMMA ApplySound ==
  ASSUME Typed, asked \in [Job -> SUBSET Node],
         NEW k, NEW h, Outcome(k, h), Neat(k), h.asked = asked, refused' = h.refused,
         lost' = h.lost,
         NEW fs \in [Job -> Int], NEW ss \in [Job \X Node -> Int], NEW s \in StatusType,
         Books(h, s, again, result, ss),
         Apply(k, fs, ss), status' = Known(s, k), poll' \in {"now", "due", "none"}
  PROVE  /\ Typed' /\ Outcome(Machine', Book') /\ Books(Book', status', again', result', stores')
         /\ Neat(Machine')
<1> DEFINE out == k.out
           j == out.job
<1>1. /\ k \in MachineType /\ out \in OutType
      /\ jobs' = k.jobs /\ queries' = k.queries /\ sent' = k.sent /\ mixed' = k.mixed
      /\ k.jobs \in [Job -> JobType] /\ k.queries \in SUBSET Job /\ k.sent \in [Job -> Int]
      /\ k.mixed \in SUBSET Job
      /\ out.contacted \in SUBSET Node /\ out.errors \in SUBSET Node
      /\ out.kind \in {"none", "Idle", "Waiting", "FindCloser", "Store", "Finished"}
  BY DEF Outcome, MachineType, OutType, Apply
<1>2. /\ out.kind \in {"Store", "Finished", "FindCloser"} => j \in Job
      /\ out.kind = "Store" => out.node \in Node
  BY DEF Outcome
<1>3. /\ finds' = IF out.kind = "FindCloser" THEN [fs EXCEPT ![j] = @ + 1] ELSE fs
      /\ stores' = IF out.kind = "Store" THEN [ss EXCEPT ![<<j, out.node>>] = @ + 1] ELSE ss
      /\ asked' = IF out.kind = "Store" THEN [asked EXCEPT ![j] = @ \cup {out.node}] ELSE asked
      /\ again' = IF out.kind = "Store" /\ out.node \in asked[j]
                  THEN [again EXCEPT ![j] = @ \cup {out.node}] ELSE again
      /\ result' = IF out.kind = "Finished"
                   THEN [result EXCEPT ![j] = [contacted |-> out.contacted, errors |-> out.errors]]
                   ELSE result
  BY DEF Apply
<1>4. status' = IF out.kind # "Finished" THEN s
                ELSE [s EXCEPT ![j] = IF s[j] = "stopped" THEN "abandoned" ELSE "done"]
  BY DEF Known
<1>5. refused' \in [Job -> SUBSET Node] /\ lost' \in [Job -> SUBSET Node]
  BY DEF Books, Ledger
<1>6. /\ finds' \in [Job -> Int] /\ stores' \in [Job \X Node -> Int]
      /\ asked' \in [Job -> SUBSET Node] /\ again' \in [Job -> SUBSET Node]
  BY <1>2, <1>3 DEF Typed
<1>7. result' \in ResultType
  <2>1. [contacted |-> out.contacted, errors |-> out.errors]
          \in [contacted : SUBSET Node, errors : SUBSET Node]
    BY <1>1
  <2> QED
    BY <1>3, <2>1 DEF Typed, ResultType
<1>8. status' \in StatusType
  BY <1>4 DEF StatusType
<1>9. Typed'
  BY <1>6, <1>7, <1>8 DEF Typed
<1>10. ASSUME NEW i \in Job
       PROVE  At(i, jobs'[i], asked'[i], again'[i], refused'[i], result'[i], status'[i], stores',
                 lost'[i], mixed')
  <2>1. CASE ~About(k, i)
    <3>1. asked'[i] = asked[i] /\ again'[i] = again[i] /\ result'[i] = result[i] /\
            status'[i] = s[i]
      BY <1>2, <1>3, <1>4, <2>1 DEF About, Typed, ResultType, StatusType
    <3>2. \A n \in Node : stores'[<<i, n>>] = ss[<<i, n>>]
      BY <1>2, <1>3, <2>1 DEF About
    <3>3. At(i, k.jobs[i], h.asked[i], again[i], h.refused[i], result[i], s[i], stores',
             h.lost[i], k.mixed)
      BY <2>1, <3>2, AtUntouched
    <3> QED
      BY <1>1, <3>1, <3>3
  <2>2. CASE out.kind = "Store" /\ j = i
    <3>1. PICK n : n = k.out.node
      OBVIOUS
    <3>2. asked'[i] = h.asked[i] \cup {n} /\ result'[i] = result[i] /\ status'[i] = s[i]
      BY <1>2, <1>3, <1>4, <2>2, <3>1
    <3>3. again'[i] = IF n \in h.asked[i] THEN again[i] \cup {n} ELSE again[i]
      BY <1>2, <1>3, <2>2, <3>1 DEF Typed
    <3>4. stores'[<<i, n>>] = ss[<<i, n>>] + 1 /\
            \A l \in Node \ {n} : stores'[<<i, l>>] = ss[<<i, l>>]
      BY <1>2, <1>3, <2>2, <3>1
    <3>5. At(i, k.jobs[i], asked'[i], again'[i], h.refused[i], result[i], s[i], stores',
             h.lost[i], k.mixed)
      <4>1. Requested(i, n, h.asked[i], asked'[i], again[i], again'[i], ss, stores')
        BY <3>2, <3>3, <3>4 DEF Requested
      <4>2. k.out.kind = "Store" /\ k.out.job = i
        BY <2>2
      <4> HIDE DEF out, j
      <4> QED
        BY <3>1, <4>1, <4>2, AtStore
    <3> QED
      BY <1>1, <3>2, <3>5
  <2>3. CASE out.kind = "Finished" /\ j = i
    <3> DEFINE S == IF s[i] = "stopped" THEN "abandoned" ELSE "done"
    <3>1. asked'[i] = asked[i] /\ again'[i] = again[i] /\ status'[i] = S
      BY <1>3, <1>4, <2>3 DEF StatusType
    <3>2. \A n \in Node : stores'[<<i, n>>] = ss[<<i, n>>]
      BY <1>3, <2>3
    <3>3. result'[i].contacted = out.contacted /\ result'[i].errors = out.errors
      BY <1>3, <2>3 DEF Typed, ResultType
    <3>4. At(i, k.jobs[i], h.asked[i], again[i], h.refused[i], result'[i], S, stores',
             h.lost[i], k.mixed)
      BY <2>3, <3>2, <3>3, AtFinish
    <3> HIDE DEF S
    <3> QED
      BY <1>1, <3>1, <3>4
  <2> QED
    BY <2>1, <2>2, <2>3 DEF About
<1>11. Outcome(Machine', Book') /\ Books(Book', status', again', result', stores')
  <2>1. /\ Machine' = MachineOf(jobs', queries', sent', mixed')
        /\ Book' = BookOf(jobs', asked', refused', status', lost', mixed')
    BY DEF Machine, MachineOf, Book
  <2>2. /\ jobs' \in [Job -> JobType] /\ queries' \in SUBSET Job /\ sent' \in [Job -> Int]
        /\ mixed' \in SUBSET Job
    BY <1>1
  <2>3. AllAt(jobs', asked', again', refused', result', status', stores', lost', mixed')
    BY <1>10 DEF AllAt
  <2> QED
    BY <1>5, <1>6, <1>8, <2>1, <2>2, <2>3, Assembled
<1>12. Neat(Machine')
  <2>1. Machine'.jobs = k.jobs /\ Machine'.queries = k.queries /\ Machine'.mixed = k.mixed
    BY <1>1 DEF Machine
  <2> QED
    BY <2>1 DEF Neat, OwnQuery
<1> QED
  BY <1>9, <1>11, <1>12

\* What the inductive invariant says of the variables.
LEMMA StateSound ==
  ASSUME IInv
  PROVE  /\ Machine = MachineOf(jobs, queries, sent, mixed) /\ ~Terminal(Machine)
         /\ Machine.jobs = jobs /\ Machine.queries = queries /\ Machine.mixed = mixed
         /\ jobs \in [Job -> JobType] /\ queries \in SUBSET Job /\ sent \in [Job -> Int]
         /\ mixed \in SUBSET Job
         /\ asked \in [Job -> SUBSET Node] /\ refused \in [Job -> SUBSET Node]
         /\ lost \in [Job -> SUBSET Node]
         /\ Book = BookOf(jobs, asked, refused, status, lost, mixed) /\ Book \in Ledger
         /\ AllAt(jobs, asked, again, refused, result, status, stores, lost, mixed)
<1>1. Machine = MachineOf(jobs, queries, sent, mixed)
  BY DEF Machine, MachineOf
<1>2. /\ Machine.jobs = jobs /\ Machine.queries = queries /\ Machine.sent = sent
      /\ Machine.mixed = mixed
      /\ Machine.out.kind = "none"
  BY DEF Machine, NoOut
<1>3. jobs \in [Job -> JobType] /\ queries \in SUBSET Job /\ sent \in [Job -> Int] /\
        mixed \in SUBSET Job
  BY <1>2 DEF IInv, Outcome, MachineType
<1>4. Book = BookOf(jobs, asked, refused, status, lost, mixed) /\ Book \in Ledger
  BY DEF Book, IInv, Books
<1>5. Book.asked = asked /\ Book.refused = refused /\ Book.lost = lost
  BY DEF Book, BookOf
<1>6. asked \in [Job -> SUBSET Node] /\ refused \in [Job -> SUBSET Node] /\
        lost \in [Job -> SUBSET Node]
  BY <1>4, <1>5 DEF Ledger
<1>7. ASSUME NEW i \in Job
      PROVE  At(i, jobs[i], asked[i], again[i], refused[i], result[i], status[i], stores,
                lost[i], mixed)
  <2>1. Outcome(Machine, Book) /\ Books(Book, status, again, result, stores)
    BY DEF IInv
  <2>2. ~About(Machine, i)
    BY <1>2 DEF About
  <2>3. At(i, Machine.jobs[i], Book.asked[i], again[i], Book.refused[i], result[i], status[i],
             stores, Book.lost[i], Machine.mixed)
    BY <2>1, <2>2, AtUntouched
  <2> QED
    BY <1>2, <1>5, <2>3
<1>8. AllAt(jobs, asked, again, refused, result, status, stores, lost, mixed)
  BY <1>7 DEF AllAt
<1>9. ~Terminal(Machine)
  BY <1>2 DEF Terminal
<1> QED
  BY <1>1, <1>2, <1>3, <1>4, <1>6, <1>8, <1>9

\* An action that advances the pool for the publish j keeps the inductive invariant.
LEMMA ActionSound ==
  ASSUME Typed, asked \in [Job -> SUBSET Node],
         NEW m, NEW g \in Ledger, NEW h \in Ledger, Outcome(m, g), ~Terminal(m), NEW j \in Job,
         NEW ev, EventSound(ev), NEW k \in Advance(m, j, ev),
         IF m.jobs[j].kind = "none" THEN h = g /\ Neat(m)
         ELSE /\ Entered(g, h, j, ev)
              /\ Held(m.jobs[j].kind, j, m.mixed) => Accountable(m, j, g.asked[j], g.refused[j], ev)
              /\ ev.kind = "Stop" => j \in g.halted
              /\ Ready(m, j, ev),
         h.asked = asked, refused' = h.refused, lost' = h.lost,
         NEW fs \in [Job -> Int], NEW ss \in [Job \X Node -> Int], NEW s \in StatusType,
         Books(h, s, again, result, ss),
         Apply(k, fs, ss), status' = Known(s, k), poll' = "now"
  PROVE  IInv'
<1>1. Outcome(k, h) /\ Neat(k)
  BY AdvanceSound
<1>2. poll' \in {"now", "due", "none"} /\ RestsOnStores'
  BY DEF RestsOnStores
<1>3. /\ Typed' /\ Outcome(Machine', Book') /\ Books(Book', status', again', result', stores')
      /\ Neat(Machine')
  BY <1>1, <1>2, ApplySound
<1> QED
  BY <1>2, <1>3 DEF IInv

\* The pool starts empty.
LEMMA InitSound == Init => IInv
<1> SUFFICES ASSUME Init PROVE IInv
  OBVIOUS
<1>1. NoJob \in JobType /\ NoJob.kind = "none" /\ ~NoJob.stopped /\ ~Walking(NoJob)
  BY NoJobSound
<1>2. jobs \in [Job -> JobType] /\ \A i \in Job : jobs[i] = NoJob
  BY <1>1 DEF Init
<1>3. /\ queries \in SUBSET Job /\ sent \in [Job -> Int] /\ status \in StatusType
      /\ asked \in [Job -> SUBSET Node] /\ refused \in [Job -> SUBSET Node]
      /\ lost \in [Job -> SUBSET Node]
      /\ mixed \in SUBSET Job
  BY DEF Init, StatusType
<1>4. \A i \in Job : asked[i] = {} /\ again[i] = {} /\ refused[i] = {} /\ lost[i] = {} /\
        status[i] = "new"
  BY DEF Init
<1>5. \A i \in Job, n \in Node : stores[<<i, n>>] = 0
  BY DEF Init
<1>6. result \in ResultType
  <2>1. NoResult \in [contacted : SUBSET Node, errors : SUBSET Node]
    BY DEF NoResult
  <2> QED
    BY <2>1 DEF Init, ResultType
<1>7. Typed
  BY <1>3, <1>6 DEF Init, Typed
<1>8. AllAt(jobs, asked, again, refused, result, status, stores, lost, mixed)
  <2> SUFFICES ASSUME NEW i \in Job
               PROVE  At(i, jobs[i], asked[i], again[i], refused[i], result[i], status[i],
                         stores, lost[i], mixed)
    BY DEF AllAt
  <2> QED
    BY <1>1, <1>2, <1>4, <1>5 DEF At
<1>9. Machine = MachineOf(jobs, queries, sent, mixed) /\
        Book = BookOf(jobs, asked, refused, status, lost, mixed)
  BY DEF Machine, MachineOf, Book
<1>10. Outcome(Machine, Book) /\ Books(Book, status, again, result, stores)
  BY <1>2, <1>3, <1>8, <1>9, Assembled
<1>11. Neat(Machine)
  <2>1. Machine.jobs = jobs /\ Machine.queries = {}
    BY DEF Machine, Init
  <2> QED
    BY <1>1, <1>2, <2>1 DEF Neat, OwnQuery
<1>12. RestsOnStores
  BY <1>1, <1>2 DEF RestsOnStores, Running
<1> QED
  BY <1>7, <1>10, <1>11, <1>12 DEF IInv

\* An event that answers no store request and starts nothing leaves the ledger as it is.
LEMMA EnteredSame ==
  ASSUME NEW g \in Ledger, NEW j \in Job, NEW ev, ev.kind # "NotStored", ~Answers(ev)
  PROVE  Entered(g, g, j, ev)
BY DEF Entered, RefusedWith, WaitingWith

\* An event for a publish that runs and expects no answer.
LEMMA PlainSound ==
  ASSUME IInv, NEW j \in Job, NEW ev, EventSound(ev), ~Answers(ev), ev.kind # "Start",
         NEW s \in StatusType, AllAt(jobs, asked, again, refused, result, s, stores, lost, mixed),
         ev.kind = "Stop" => s[j] = "stopped",
         NEW k \in Advance(Machine, j, ev), NEW fs \in [Job -> Int],
         Apply(k, fs, stores), status' = Known(s, k), poll' = "now",
         UNCHANGED <<refused, lost>>
  PROVE  IInv'
<1> DEFINE g == BookOf(jobs, asked, refused, s, lost, mixed)
<1>1. /\ Machine = MachineOf(jobs, queries, sent, mixed) /\ ~Terminal(Machine)
      /\ Machine.jobs = jobs /\ Machine.mixed = mixed
      /\ jobs \in [Job -> JobType] /\ queries \in SUBSET Job /\ sent \in [Job -> Int]
      /\ mixed \in SUBSET Job
      /\ asked \in [Job -> SUBSET Node] /\ refused \in [Job -> SUBSET Node]
      /\ lost \in [Job -> SUBSET Node]
  BY StateSound
<1>2. Outcome(Machine, g) /\ Books(g, s, again, result, stores)
  BY <1>1, Assembled
<1>3. g \in Ledger
  BY <1>2 DEF Books
<1>4. /\ g.asked = asked /\ g.refused = refused /\ g.lost = lost
      /\ g.halted = {i \in Job : s[i] = "stopped"}
  BY DEF BookOf
<1>5. Typed /\ stores \in [Job \X Node -> Int] /\ Neat(Machine)
  BY DEF IInv, Typed
<1>6. Machine.jobs[j].kind # "none" /\ Held(Machine.jobs[j].kind, j, Machine.mixed) =>
        Accountable(Machine, j, g.asked[j], g.refused[j], ev)
  BY <1>1, <1>4 DEF AllAt, At, Accountable
<1>7. Neat(Machine) => Ready(Machine, j, ev)
  BY DEF Neat, Ready, OwnQuery, QueryFirst
<1>8. ev.kind # "NotStored"
  BY DEF Answers
<1> HIDE DEF g
<1>9. Entered(g, g, j, ev)
  BY <1>3, <1>8, EnteredSame
<1>10. ev.kind = "Stop" => j \in g.halted
  BY <1>4
<1>11. IF Machine.jobs[j].kind = "none" THEN g = g /\ Neat(Machine)
       ELSE /\ Entered(g, g, j, ev)
            /\ Held(Machine.jobs[j].kind, j, Machine.mixed) =>
                 Accountable(Machine, j, g.asked[j], g.refused[j], ev)
            /\ ev.kind = "Stop" => j \in g.halted
            /\ Ready(Machine, j, ev)
  BY <1>5, <1>6, <1>7, <1>9, <1>10
<1>12. refused' = g.refused /\ lost' = g.lost
  BY <1>4
<1> QED
  BY <1>1, <1>2, <1>3, <1>4, <1>5, <1>11, <1>12, ActionSound

\* A find closer request is answered.
LEMMA FindAnswerSound ==
  ASSUME IInv, NEW j \in Job, NEW kind \in {"Response", "Failed"}, NEW nodes \in SUBSET Node,
         FindAnswer(j, kind, nodes)
  PROVE  IInv'
<1> DEFINE ev == JobEvent(kind, 0, nodes)
           fs == [finds EXCEPT ![j] = @ - 1]
<1>1. EventSound(ev) /\ ~Answers(ev) /\ ev.kind # "Start" /\ ev.kind # "Stop"
  BY DEF JobEvent, EventSound, Answers
<1>2. fs \in [Job -> Int] /\ status \in StatusType
  BY DEF IInv, Typed
<1>3. PICK k \in Advance(Machine, j, ev) :
        Apply(k, fs, stores) /\ poll' = "now" /\ status' = Known(status, k)
  BY DEF FindAnswer
<1>4. AllAt(jobs, asked, again, refused, result, status, stores, lost, mixed) /\
        UNCHANGED <<refused, lost>>
  BY StateSound DEF FindAnswer
<1> HIDE DEF ev, fs
<1> QED
  BY <1>1, <1>2, <1>3, <1>4, PlainSound

\* A publish is stopped.
LEMMA StopSound ==
  ASSUME IInv, NEW j \in Job, Stop(j)
  PROVE  IInv'
<1> DEFINE ev == JobEvent("Stop", 0, {})
           s == [status EXCEPT ![j] = "stopped"]
<1>1. EventSound(ev) /\ ~Answers(ev) /\ ev.kind # "Start"
  BY DEF JobEvent, EventSound, Answers
<1>2. finds \in [Job -> Int] /\ status \in StatusType
  BY DEF IInv, Typed
<1>3. s \in StatusType /\ s[j] = "stopped" /\ status[j] = "running"
      /\ \A i \in Job \ {j} : s[i] = status[i]
  BY <1>2 DEF StatusType, Stop
<1>4. PICK k \in Advance(Machine, j, ev) :
        Apply(k, finds, stores) /\ poll' = "now" /\ status' = Known(s, k)
  BY DEF Stop
<1> HIDE DEF s, ev
<1>5. AllAt(jobs, asked, again, refused, result, s, stores, lost, mixed)
  <2>1. AllAt(jobs, asked, again, refused, result, status, stores, lost, mixed)
    BY StateSound
  <2> SUFFICES ASSUME NEW i \in Job
               PROVE  At(i, jobs[i], asked[i], again[i], refused[i], result[i], s[i], stores,
                         lost[i], mixed)
    BY DEF AllAt
  <2>2. At(i, jobs[i], asked[i], again[i], refused[i], result[i], status[i], stores, lost[i], mixed)
    BY <2>1 DEF AllAt
  <2> QED
    BY <1>3, <2>2 DEF At
<1>6. UNCHANGED <<refused, lost>>
  BY DEF Stop
<1> QED
  BY <1>1, <1>2, <1>3, <1>4, <1>5, <1>6, PlainSound

\* A publish is started.
LEMMA StartSound ==
  ASSUME IInv, NEW j \in Job, NEW kind \in Kind, NEW nodes \in SUBSET Node, Start(j, kind, nodes)
  PROVE  IInv'
<1> DEFINE ev == JobEvent("Start", 0, nodes)
           job == NewJob(kind)
           js == [jobs EXCEPT ![j] = job]
           m == [Machine EXCEPT !.jobs[j] = NewJob(kind)]
           s == [status EXCEPT ![j] = "running"]
           g == BookOf(js, asked, refused, s, lost, mixed)
<1>1. EventSound(ev) /\ ~Answers(ev) /\ ev.kind = "Start"
  BY DEF JobEvent, EventSound, Answers
<1>2. PICK k \in Advance(m, j, ev) :
        Apply(k, finds, stores) /\ poll' = "now" /\ status' = Known(s, k)
  BY DEF Start
<1>3. status[j] = "new" /\ UNCHANGED <<refused, lost>>
  BY DEF Start
<1>4. /\ Machine = MachineOf(jobs, queries, sent, mixed)
      /\ Machine.jobs = jobs /\ Machine.queries = queries /\ Machine.mixed = mixed
      /\ jobs \in [Job -> JobType] /\ queries \in SUBSET Job /\ sent \in [Job -> Int]
      /\ mixed \in SUBSET Job
      /\ asked \in [Job -> SUBSET Node] /\ refused \in [Job -> SUBSET Node]
      /\ lost \in [Job -> SUBSET Node]
      /\ AllAt(jobs, asked, again, refused, result, status, stores, lost, mixed)
  BY StateSound
<1>5. Typed /\ finds \in [Job -> Int] /\ stores \in [Job \X Node -> Int] /\ status \in StatusType
  BY DEF IInv, Typed
<1>6. s \in StatusType /\ s[j] = "running" /\ \A i \in Job \ {j} : s[i] = status[i]
  BY <1>5 DEF StatusType
<1>7. /\ job \in JobType /\ job.kind = kind /\ ~job.stopped /\ ~job.walking
      /\ job.todo = {} /\ job.waiting = {} /\ job.success = {} /\ job.failed = {}
      /\ job.closest = {} /\ job.contacted = {} /\ job.seen = {} /\ kind # "none"
  BY DEF NewJob, JobType, JobKind, Kind
<1>8. JobSound(job, {}, {})
  BY <1>7 DEF JobSound
<1>9. js \in [Job -> JobType] /\ js[j] = job /\ \A i \in Job \ {j} : js[i] = jobs[i]
  BY <1>4, <1>7
<1>10. m = MachineOf(js, queries, sent, mixed)
  <2>1. m = [Machine EXCEPT !.jobs = [Machine.jobs EXCEPT ![j] = job]]
    BY DEF Machine
  <2>2. m = [MachineOf(jobs, queries, sent, mixed) EXCEPT !.jobs = js]
    BY <1>4, <2>1
  <2> HIDE DEF js, m
  <2> QED
    BY <2>2 DEF MachineOf
<1>11. /\ asked[j] = {} /\ again[j] = {} /\ refused[j] = {} /\ lost[j] = {}
       /\ \A n \in Node : stores[<<j, n>>] = 0
  BY <1>3, <1>4 DEF AllAt, At
<1> HIDE DEF job, js, m, s
<1>12. m.jobs = js /\ m.queries = queries /\ m.mixed = mixed /\ ~Terminal(m)
  BY <1>10 DEF MachineOf, Terminal, NoOut
<1>13. AllAt(js, asked, again, refused, result, s, stores, lost, mixed)
  <2> SUFFICES ASSUME NEW i \in Job
               PROVE  At(i, js[i], asked[i], again[i], refused[i], result[i], s[i], stores,
                         lost[i], mixed)
    BY DEF AllAt
  <2>1. CASE i = j
    BY <1>6, <1>7, <1>8, <1>9, <1>11, <2>1 DEF At, InFlight
  <2>2. CASE i # j
    BY <1>4, <1>6, <1>9, <2>2 DEF AllAt
  <2> QED
    BY <2>1, <2>2
<1>14. Outcome(m, g) /\ Books(g, s, again, result, stores)
  BY <1>4, <1>6, <1>9, <1>10, <1>13, Assembled
<1>15. g \in Ledger
  BY <1>14 DEF Books
<1>16. g.asked = asked /\ g.refused = refused /\ g.lost = lost
  BY DEF BookOf
<1>17. job = NewJob(job.kind)
  BY <1>7 DEF job
<1>18. Accountable(m, j, g.asked[j], g.refused[j], ev)
  BY <1>1, <1>8, <1>9, <1>12, <1>11, <1>16, <1>17 DEF Accountable
<1>19. Ready(m, j, ev)
  <2>1. Neat(Machine)
    BY DEF IInv
  <2>2. ASSUME NEW i \in Job \ mixed, i # j PROVE OwnQuery(m, i)
    BY <1>4, <1>9, <1>12, <2>1, <2>2 DEF Neat, OwnQuery
  <2>3. ASSUME j \notin mixed PROVE QueryFirst(m, j, ev)
    <3>1. jobs[j].kind = "none"
      BY <1>3, <1>4 DEF AllAt, At
    <3>2. ~Walking(jobs[j])
      BY <3>1 DEF Walking
    <3>3. j \notin queries
      BY <1>4, <2>1, <2>3, <3>2 DEF Neat, OwnQuery
    <3> QED
      BY <1>1, <1>7, <1>9, <1>12, <3>3 DEF QueryFirst
  <2> QED
    BY <1>12, <2>2, <2>3 DEF Ready
<1>20. /\ g.asked = asked /\ refused' = g.refused /\ lost' = g.lost
       /\ m.jobs[j].kind # "none" /\ ev.kind # "NotStored"
  BY <1>1, <1>3, <1>7, <1>9, <1>12, <1>16
<1> HIDE DEF g, ev
<1>21. Entered(g, g, j, ev)
  BY <1>1, <1>15, <1>20, EnteredSame
<1>22. IF m.jobs[j].kind = "none" THEN g = g /\ Neat(m)
       ELSE /\ Entered(g, g, j, ev)
            /\ Held(m.jobs[j].kind, j, m.mixed) => Accountable(m, j, g.asked[j], g.refused[j], ev)
            /\ ev.kind = "Stop" => j \in g.halted
            /\ Ready(m, j, ev)
  BY <1>1, <1>18, <1>19, <1>20, <1>21
<1> QED
  BY <1>1, <1>2, <1>4, <1>5, <1>6, <1>12, <1>14, <1>15, <1>20, <1>22, ActionSound

\* The pool is polled.
LEMMA PollSound ==
  ASSUME IInv, Poll
  PROVE  IInv'
<1>1. PICK k \in PollJobs(Machine, Running(jobs)) :
        Apply(k, finds, stores) /\ poll' = NextPoll(k) /\ status' = Known(status, k)
  BY DEF Poll
<1>2. /\ ~Terminal(Machine) /\ Machine.jobs = jobs /\ Book \in Ledger
      /\ asked \in [Job -> SUBSET Node] /\ Book = BookOf(jobs, asked, refused, status, lost, mixed)
  BY StateSound
<1>3. Running(jobs) \in SUBSET Job /\ \A i \in Running(jobs) : Machine.jobs[i].kind # "none"
  BY <1>2 DEF Running
<1>4. /\ Typed /\ Outcome(Machine, Book) /\ Books(Book, status, again, result, stores)
      /\ Neat(Machine)
  BY DEF IInv
<1>5. /\ PolledFrom(Machine, k, Book)
      /\ ~Terminal(k) /\ ~k.due => \A i \in Running(jobs) : i \in k.mixed \/ Resting(k, i)
  BY <1>1, <1>2, <1>3, <1>4, PollJobsSound
<1>6. Outcome(k, Book) /\ Neat(k)
  BY <1>5 DEF PolledFrom
<1>7. Book.asked = asked /\ refused' = Book.refused /\ lost' = Book.lost
  BY <1>2 DEF BookOf, Poll
<1>8. poll' \in {"now", "due", "none"}
  BY <1>1 DEF NextPoll
<1>9. finds \in [Job -> Int] /\ stores \in [Job \X Node -> Int] /\ status \in StatusType
  BY <1>4 DEF Typed
<1>10. /\ Typed' /\ Outcome(Machine', Book') /\ Books(Book', status', again', result', stores')
       /\ Neat(Machine')
  BY <1>1, <1>2, <1>4, <1>6, <1>7, <1>8, <1>9, ApplySound
<1>11. RestsOnStores'
  <2> SUFFICES ASSUME poll' = "none", NEW i \in Running(jobs'), i \notin mixed'
               PROVE  jobs'[i].waiting # {} /\ jobs'[i].todo = {}
    BY DEF RestsOnStores, Own
  <2>1. ~Terminal(k) /\ ~k.due
    BY <1>1 DEF NextPoll
  <2>2. jobs' = k.jobs /\ mixed' = k.mixed
    BY <1>1 DEF Apply
  <2>3. k.out.kind # "Finished"
    BY <2>1 DEF Terminal
  <2>4. i \in Job /\ k.jobs[i].kind = Book.kinds[i]
    BY <1>6, <2>2, <2>3 DEF Outcome, Running
  <2>5. Book.kinds[i] = jobs[i].kind
    BY <1>2, <2>4 DEF BookOf
  <2>6. i \in Running(jobs)
    BY <2>2, <2>4, <2>5 DEF Running
  <2> QED
    BY <1>5, <2>1, <2>2, <2>6 DEF Resting
<1> QED
  BY <1>10, <1>11 DEF IInv

\* A store request is answered.
LEMMA StoreAnswerSound ==
  ASSUME IInv, NEW j \in Job, NEW n \in Node, NEW kind \in {"Stored", "NotStored"},
         StoreAnswer(j, n, kind)
  PROVE  IInv'
<1> DEFINE ev == JobEvent(kind, n, {})
           ss == [stores EXCEPT ![<<j, n>>] = @ - 1]
<1>1. EventSound(ev) /\ Answers(ev) /\ ev.kind = kind /\ ev.node = n /\
        ev.kind \notin {"Start", "Stop"}
  BY DEF JobEvent, EventSound, Answers
<1>2. PICK k \in Advance(Machine, j, ev) :
        Apply(k, finds, ss) /\ poll' = "now" /\ status' = Known(status, k)
  BY DEF StoreAnswer
<1>3. /\ Machine = MachineOf(jobs, queries, sent, mixed) /\ ~Terminal(Machine)
      /\ Machine.jobs = jobs /\ Machine.mixed = mixed
      /\ jobs \in [Job -> JobType] /\ queries \in SUBSET Job /\ sent \in [Job -> Int]
      /\ mixed \in SUBSET Job
      /\ asked \in [Job -> SUBSET Node] /\ refused \in [Job -> SUBSET Node]
      /\ lost \in [Job -> SUBSET Node]
      /\ Book = BookOf(jobs, asked, refused, status, lost, mixed) /\ Book \in Ledger
      /\ AllAt(jobs, asked, again, refused, result, status, stores, lost, mixed)
  BY StateSound
<1>4. /\ Typed /\ Outcome(Machine, Book) /\ Books(Book, status, again, result, stores)
      /\ Neat(Machine)
  BY DEF IInv
<1>5. finds \in [Job -> Int] /\ stores \in [Job \X Node -> Int] /\ status \in StatusType
  BY <1>4 DEF Typed
<1>6. /\ stores[<<j, n>>] > 0
      /\ refused' = IF kind = "NotStored" /\ j \in Running(jobs)
                    THEN [refused EXCEPT ![j] = @ \cup {n}] ELSE refused
      /\ lost' = lost
  BY DEF StoreAnswer
<1>7. ss \in [Job \X Node -> Int] /\ ss[<<j, n>>] = stores[<<j, n>>] - 1
      /\ \A i \in Job, l \in Node : i # j \/ l # n => ss[<<i, l>>] = stores[<<i, l>>]
  BY <1>5
<1> HIDE DEF ev, ss
<1>8. CASE jobs[j].kind = "none"
  <2>1. AllAt(jobs, asked, again, refused, result, status, ss, lost, mixed)
    <3> SUFFICES ASSUME NEW i \in Job
                 PROVE  At(i, jobs[i], asked[i], again[i], refused[i], result[i], status[i], ss,
                           lost[i], mixed)
      BY DEF AllAt
    <3>1. At(i, jobs[i], asked[i], again[i], refused[i], result[i], status[i], stores, lost[i],
            mixed)
      BY <1>3 DEF AllAt
    <3>2. CASE i # j
      <4>1. \A l \in Node : ss[<<i, l>>] = stores[<<i, l>>]
        BY <1>7, <3>2
      <4> QED
        BY <3>1, <4>1 DEF At, InFlight
    <3>3. CASE i = j
      <4>1. ~\A l \in Node : stores[<<i, l>>] = 0
        BY <1>6, <3>3
      <4> QED
        BY <1>8, <3>1, <3>3, <4>1 DEF At
    <3> QED
      BY <3>2, <3>3
  <2>2. Books(Book, status, again, result, ss)
    BY <1>3, <1>5, <2>1, Assembled
  <2>3. Book.asked = asked /\ refused' = Book.refused /\ lost' = Book.lost
    BY <1>3, <1>6, <1>8 DEF BookOf, Running
  <2>4. IF Machine.jobs[j].kind = "none" THEN Book = Book /\ Neat(Machine)
        ELSE /\ Entered(Book, Book, j, ev)
             /\ Held(Machine.jobs[j].kind, j, Machine.mixed) =>
                  Accountable(Machine, j, Book.asked[j], Book.refused[j], ev)
             /\ ev.kind = "Stop" => j \in Book.halted
             /\ Ready(Machine, j, ev)
    BY <1>3, <1>4, <1>8
  <2> QED
    BY <1>1, <1>2, <1>3, <1>4, <1>5, <1>7, <2>2, <2>3, <2>4, ActionSound
<1>9. CASE jobs[j].kind # "none"
  <2> DEFINE w == [Book.waiting EXCEPT ![j] = WaitingWith(Book.waiting[j], ev)]
             h == [kinds |-> Book.kinds, asked |-> asked, refused |-> refused', waiting |-> w,
                   lost |-> lost, halted |-> Book.halted, mixed |-> mixed]
  <2>1. /\ Book.kinds \in [Job -> JobKind] /\ Book.waiting \in [Job -> SUBSET Node]
        /\ Book.halted \in SUBSET Job
    BY <1>3 DEF Ledger
  <2>2. /\ Book.asked = asked /\ Book.refused = refused /\ Book.lost = lost /\ Book.mixed = mixed
        /\ \A i \in Job : Book.kinds[i] = jobs[i].kind /\ Book.waiting[i] = jobs[i].waiting
    BY <1>3 DEF BookOf
  <2>3. /\ w \in [Job -> SUBSET Node] /\ w[j] = Book.waiting[j] \ {n}
        /\ w[j] = WaitingWith(Book.waiting[j], ev) /\ \A i \in Job \ {j} : w[i] = Book.waiting[i]
    BY <1>1, <2>1 DEF WaitingWith
  <2>4. /\ refused' \in [Job -> SUBSET Node] /\ refused'[j] = RefusedWith(refused[j], ev)
        /\ \A i \in Job \ {j} : refused'[i] = refused[i]
    BY <1>1, <1>3, <1>6, <1>9 DEF RefusedWith, Running
  <2> HIDE DEF w
  <2>5. /\ h.kinds = Book.kinds /\ h.asked = asked /\ h.refused = refused' /\ h.waiting = w
        /\ h.halted = Book.halted /\ h.lost = lost /\ h.mixed = mixed /\ h \in Ledger
    BY <1>3, <2>1, <2>3, <2>4 DEF Ledger
  <2> HIDE DEF h
  <2>6. Entered(Book, h, j, ev)
    BY <2>2, <2>3, <2>4, <2>5 DEF Entered
  <2>7. status[j] \in {"running", "stopped"}
    BY <1>3, <1>9 DEF AllAt, At
  <2>8. ASSUME NEW i \in Job, h.kinds[i] # "none", Held(h.kinds[i], i, h.mixed)
        PROVE  again[i] = {} /\ InFlight(i, h.waiting[i], h.lost[i], ss)
    <3>1. again[i] = {} /\ InFlight(i, Book.waiting[i], lost[i], stores)
      BY <1>4, <2>2, <2>5, <2>8 DEF Books
    <3>2. CASE i # j
      BY <1>7, <2>3, <2>5, <3>1, <3>2 DEF InFlight
    <3>3. CASE i = j
      <4>1. n \in Book.waiting[j] \ lost[j] /\ stores[<<j, n>>] = 1
        BY <1>6, <3>1, <3>3 DEF InFlight
      <4> QED
        BY <1>7, <2>3, <2>5, <3>1, <3>3, <4>1 DEF InFlight
    <3> QED
      BY <3>2, <3>3
  <2>9. ASSUME NEW i \in Job, status[i] = "new"
        PROVE  /\ h.asked[i] = {} /\ again[i] = {} /\ h.refused[i] = {} /\ h.lost[i] = {}
               /\ \A l \in Node : ss[<<i, l>>] = 0
    <3>1. i # j
      BY <2>7, <2>9
    <3>2. /\ Book.asked[i] = {} /\ again[i] = {} /\ Book.refused[i] = {} /\ Book.lost[i] = {}
          /\ \A l \in Node : stores[<<i, l>>] = 0
      BY <1>4, <2>9 DEF Books
    <3> QED
      BY <1>7, <2>2, <2>4, <2>5, <3>1, <3>2
  <2>10. (\A i \in Job \ h.mixed : again[i] = {}) /\ ResultsSound(h, status, result, ss)
    <3>1. (\A i \in Job \ mixed : again[i] = {}) /\ ResultsSound(Book, status, result, stores)
      BY <1>4, <2>2 DEF Books
    <3>2. \A i \in Job : status[i] \in {"done", "abandoned"} =>
            /\ h.asked[i] = Book.asked[i] /\ h.refused[i] = Book.refused[i]
            /\ \A l \in Node : ss[<<i, l>>] = stores[<<i, l>>]
      BY <1>7, <2>2, <2>4, <2>5, <2>7
    <3> QED
      BY <2>2, <2>5, <3>1, <3>2 DEF ResultsSound
  <2>11. Books(h, status, again, result, ss)
    <3>1. Book.halted = {i \in Job : status[i] = "stopped"}
      BY <1>4 DEF Books
    <3>2. \A i \in Job : Book.kinds[i] # "none" => status[i] \in {"running", "stopped"}
      BY <1>4 DEF Books
    <3> QED
      BY <2>5, <2>8, <2>9, <2>10, <3>1, <3>2 DEF Books
  <2>12. ASSUME Held(Machine.jobs[j].kind, j, Machine.mixed)
         PROVE  Accountable(Machine, j, Book.asked[j], Book.refused[j], ev)
    <3>1. JobSound(jobs[j], asked[j], refused[j]) /\ InFlight(j, jobs[j].waiting, lost[j], stores)
      BY <1>3, <1>9, <2>12 DEF AllAt, At
    <3>2. n \in jobs[j].waiting
      BY <1>6, <3>1 DEF InFlight
    <3> QED
      BY <1>1, <1>3, <2>2, <3>1, <3>2 DEF Accountable
  <2>13. Ready(Machine, j, ev)
    BY <1>1, <1>4 DEF Neat, Ready, OwnQuery, QueryFirst
  <2>14. IF Machine.jobs[j].kind = "none" THEN h = Book /\ Neat(Machine)
         ELSE /\ Entered(Book, h, j, ev)
              /\ Held(Machine.jobs[j].kind, j, Machine.mixed) =>
                   Accountable(Machine, j, Book.asked[j], Book.refused[j], ev)
              /\ ev.kind = "Stop" => j \in Book.halted
              /\ Ready(Machine, j, ev)
    BY <1>1, <1>3, <1>9, <2>6, <2>12, <2>13
  <2> QED
    BY <1>1, <1>2, <1>3, <1>4, <1>5, <1>6, <1>7, <2>5, <2>11, <2>14, ActionSound
<1> QED
  BY <1>8, <1>9

\* The answer to a store request is dropped.
LEMMA StoreDroppedSound ==
  ASSUME IInv, NEW j \in Job, NEW n \in Node, StoreDropped(j, n)
  PROVE  IInv'
<1>1. /\ Machine = MachineOf(jobs, queries, sent, mixed)
      /\ jobs \in [Job -> JobType] /\ queries \in SUBSET Job /\ sent \in [Job -> Int]
      /\ mixed \in SUBSET Job
      /\ asked \in [Job -> SUBSET Node] /\ refused \in [Job -> SUBSET Node]
      /\ lost \in [Job -> SUBSET Node]
      /\ AllAt(jobs, asked, again, refused, result, status, stores, lost, mixed)
  BY StateSound
<1>2. Typed /\ status \in StatusType /\ stores \in [Job \X Node -> Int]
  BY DEF IInv, Typed
<1>3. /\ stores[<<j, n>>] > 0 /\ stores' = [stores EXCEPT ![<<j, n>>] = @ - 1]
      /\ lost' = [lost EXCEPT ![j] = @ \cup {n}]
      /\ UNCHANGED <<jobs, queries, sent, finds, poll, status, asked, again, refused, mixed,
           result>>
  BY DEF StoreDropped
<1>4. /\ stores' \in [Job \X Node -> Int] /\ stores'[<<j, n>>] = stores[<<j, n>>] - 1
      /\ \A i \in Job, l \in Node : i # j \/ l # n => stores'[<<i, l>>] = stores[<<i, l>>]
  BY <1>2, <1>3
<1>5. /\ lost' \in [Job -> SUBSET Node] /\ lost'[j] = lost[j] \cup {n}
      /\ \A i \in Job \ {j} : lost'[i] = lost[i]
  BY <1>1, <1>3
<1>6. AllAt(jobs, asked, again, refused, result, status, stores', lost', mixed)
  <2> SUFFICES ASSUME NEW i \in Job
               PROVE  At(i, jobs[i], asked[i], again[i], refused[i], result[i], status[i], stores',
                         lost'[i], mixed)
    BY DEF AllAt
  <2>1. At(i, jobs[i], asked[i], again[i], refused[i], result[i], status[i], stores, lost[i], mixed)
    BY <1>1 DEF AllAt
  <2>2. CASE i # j
    <3>1. lost'[i] = lost[i] /\ \A l \in Node : stores'[<<i, l>>] = stores[<<i, l>>]
      BY <1>4, <1>5, <2>2
    <3> QED
      BY <2>1, <3>1 DEF At, InFlight
  <2>3. CASE i = j
    <3>1. ~\A l \in Node : stores[<<i, l>>] = 0
      BY <1>3, <2>3
    <3>2. ASSUME InFlight(i, jobs[i].waiting, lost[i], stores)
          PROVE  InFlight(i, jobs[i].waiting, lost'[i], stores')
      <4>1. n \in jobs[i].waiting \ lost[i] /\ stores[<<i, n>>] = 1
        BY <1>3, <2>3, <3>2 DEF InFlight
      <4> QED
        BY <1>4, <1>5, <2>3, <3>2, <4>1 DEF InFlight
    <3> QED
      BY <2>1, <3>1, <3>2 DEF At
  <2> QED
    BY <2>2, <2>3
<1>7. /\ Machine' = Machine /\ Machine' = MachineOf(jobs, queries, sent, mixed)
      /\ Book' = BookOf(jobs, asked, refused, status, lost', mixed)
  BY <1>1, <1>3 DEF Machine, Book, BookOf
<1> DEFINE b == BookOf(jobs, asked, refused, status, lost', mixed)
<1>8. Outcome(Machine', Book') /\ Books(Book', status', again', result', stores')
  <2>1. Outcome(Machine, b) /\ Books(b, status, again, result, stores')
    BY <1>1, <1>2, <1>5, <1>6, Assembled
  <2>2. Machine' = Machine /\ Book' = b
    BY <1>7
  <2> HIDE DEF b
  <2> QED
    BY <1>3, <2>1, <2>2
<1>9. Typed' /\ Neat(Machine') /\ RestsOnStores'
  BY <1>2, <1>3, <1>4, <1>7 DEF IInv, Typed, RestsOnStores, Running, Own
<1> QED
  BY <1>8, <1>9 DEF IInv

-----------------------------------------------------------------------------
(* The theorems *)

\* Every action keeps the inductive invariant.
LEMMA StepSound == IInv /\ [Next]_vars => IInv'
<1> SUFFICES ASSUME IInv, [Next]_vars PROVE IInv'
  OBVIOUS
<1>1. NodeSets \subseteq SUBSET Node
  BY PublishJobsAssumption
<1>2. CASE Poll
  BY <1>2, PollSound
<1>3. ASSUME NEW j \in Job, NEW kind \in Kind, NEW nodes \in NodeSets, Start(j, kind, nodes)
      PROVE  IInv'
  BY <1>1, <1>3, StartSound
<1>4. ASSUME NEW j \in Job, Stop(j)
      PROVE  IInv'
  BY <1>4, StopSound
<1>5. ASSUME NEW j \in Job, NEW nodes \in NodeSets, FindAnswer(j, "Response", nodes)
      PROVE  IInv'
  BY <1>1, <1>5, FindAnswerSound
<1>6. ASSUME NEW j \in Job, FindAnswer(j, "Failed", {})
      PROVE  IInv'
  BY <1>6, FindAnswerSound
<1>7. ASSUME NEW j \in Job, NEW n \in Node, NEW kind \in {"Stored", "NotStored"},
             StoreAnswer(j, n, kind)
      PROVE  IInv'
  BY <1>7, StoreAnswerSound
<1>8. ASSUME NEW j \in Job, NEW n \in Node, StoreDropped(j, n)
      PROVE  IInv'
  BY <1>8, StoreDroppedSound
<1>9. CASE UNCHANGED vars
  <2>1. Machine' = Machine /\ Book' = Book /\ (Typed <=> Typed')
    BY <1>9 DEF vars, Machine, Book, BookOf, Typed
  <2>2. RestsOnStores <=> RestsOnStores'
    BY <1>9 DEF vars, RestsOnStores, Running, Own
  <2>3. status' = status /\ again' = again /\ result' = result /\ stores' = stores
    BY <1>9 DEF vars
  <2> QED
    BY <2>1, <2>2, <2>3 DEF IInv
<1> QED
  BY <1>2, <1>3, <1>4, <1>5, <1>6, <1>7, <1>8, <1>9 DEF Next

\* The inductive invariant holds of the pool of publish/pool.go, however many publishes share
\* its query pool and whichever of them take the end of another one's query for their own.
THEOREM AccountsAgree == Spec => []IInv
<1> QED
  BY InitSound, StepSound, PTL DEF Spec

\* The publish j has asked no node twice, waits for exactly the nodes whose answers are on
\* their way or were dropped, has asked those and the ones that have answered, and holds as
\* failed the nodes that did not store the record.
AccountsKept(j) ==
  LET job == jobs[j]
  IN  /\ again[j] = {}
      /\ lost[j] \subseteq job.waiting
      /\ \A n \in Node : stores[<<j, n>>] = (IF n \in job.waiting \ lost[j] THEN 1 ELSE 0)
      /\ asked[j] = job.waiting \cup job.success \cup job.failed
      /\ refused[j] = job.failed
      /\ job.todo \cap asked[j] = {}

\* The accounts of static and optimistic publishes hold as long as they run, even of those
\* that are told of the end of another one's query: Static.Advance and Optimistic.Advance hand
\* out each node once, wait for its answer and record what it was.
THEOREM AccountsHold == Spec =>
  [](\A j \in Running(jobs) : jobs[j].kind # "FollowUp" => AccountsKept(j))
<1>1. IInv => \A j \in Running(jobs) : jobs[j].kind # "FollowUp" => AccountsKept(j)
  <2> SUFFICES ASSUME IInv, NEW j \in Running(jobs), jobs[j].kind # "FollowUp" PROVE AccountsKept(j)
    OBVIOUS
  <2>1. j \in Job /\ jobs[j].kind # "none" /\ Held(jobs[j].kind, j, mixed)
    BY DEF Running, Held
  <2>2. At(j, jobs[j], asked[j], again[j], refused[j], result[j], status[j], stores, lost[j], mixed)
    BY <2>1, StateSound DEF AllAt
  <2> QED
    BY <2>1, <2>2 DEF At, InFlight, JobSound, AccountsKept
<1> QED
  BY <1>1, AccountsAgree, PTL

\* However many publishes share the query pool, one that is not mixed up with another waits
\* for exactly the answers to its store requests that are on their way or were dropped.
THEOREM StoresAlwaysAccounted == Spec => []StoresAccounted
<1>1. IInv => StoresAccounted
  <2> SUFFICES ASSUME IInv, NEW j \in Running(jobs), j \notin mixed, NEW n \in Node
               PROVE  /\ stores[<<j, n>>] = (IF n \in jobs[j].waiting \ lost[j] THEN 1 ELSE 0)
                      /\ n \in lost[j] => n \in jobs[j].waiting
    BY DEF StoresAccounted, Own
  <2>1. j \in Job /\ jobs[j].kind # "none" /\ Held(jobs[j].kind, j, mixed)
    BY DEF Running, Held
  <2>2. At(j, jobs[j], asked[j], again[j], refused[j], result[j], status[j], stores, lost[j], mixed)
    BY <2>1, StateSound DEF AllAt
  <2> QED
    BY <2>1, <2>2 DEF At, InFlight
<1> QED
  BY <1>1, AccountsAgree, PTL

\* However many publishes share the query pool, one that is not mixed up with another asks no
\* node twice to store its record.
THEOREM AskedOnceAlways == Spec => []AskedOnce
<1>1. IInv => AskedOnce
  <2> SUFFICES ASSUME IInv, NEW j \in Job \ mixed PROVE again[j] = {}
    BY DEF AskedOnce, Own
  <2> QED
    BY StateSound DEF AllAt, At
<1> QED
  BY <1>1, AccountsAgree, PTL

\* However many publishes share the query pool, one that is not mixed up with another and was
\* left to end reports the nodes it asked and those that did not store the record, all of
\* them having answered, and one that was stopped leaves out none of either.
THEOREM ResultAlwaysSound == Spec => []ResultSound
<1>1. IInv => ResultSound
  <2> SUFFICES ASSUME IInv, NEW j \in Job \ mixed
               PROVE  /\ status[j] = "done" => /\ result[j].contacted = asked[j]
                                               /\ result[j].errors = refused[j]
                                               /\ lost[j] = {}
                                               /\ \A n \in Node : stores[<<j, n>>] = 0
                      /\ status[j] = "abandoned" => /\ asked[j] \subseteq result[j].contacted
                                                    /\ refused[j] \subseteq result[j].errors
    BY DEF ResultSound, Own
  <2> QED
    BY StateSound DEF AllAt, At
<1> QED
  BY <1>1, AccountsAgree, PTL

\* However many publishes share the query pool, the query of one that is not mixed up with
\* another runs exactly as long as it looks for nodes: a stop, an early end of the walk and the
\* end of the query leave neither behind, and no other publish ends or stops it.
THEOREM WalkAlwaysHasQuery == Spec => []WalkHasQuery
<1>1. IInv => WalkHasQuery
  <2> SUFFICES ASSUME IInv, NEW j \in Job \ mixed PROVE j \in queries <=> Walking(jobs[j])
    BY DEF WalkHasQuery, Own
  <2>1. Neat(Machine)
    BY DEF IInv
  <2>2. Machine.jobs = jobs /\ Machine.queries = queries /\ Machine.mixed = mixed
    BY StateSound
  <2> QED
    BY <2>1, <2>2 DEF Neat, OwnQuery
<1> QED
  BY <1>1, AccountsAgree, PTL

\* However many publishes share the query pool, those of a pool that is not to be advanced wait
\* for the answer to a store request, but for the ones that are mixed up with another.
THEOREM AlwaysRestsOnStores == Spec => []RestsOnStores
<1>1. IInv => RestsOnStores
  BY DEF IInv
<1> QED
  BY <1>1, AccountsAgree, PTL
=============================================================================
