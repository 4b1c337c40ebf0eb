------------------------------- MODULE Survey -------------------------------
(***************************************************************************)
(* publish/survey.go: the survey of the regions of the prefix table, one   *)
(* after the other, as operators on the state of the survey.               *)
(*                                                                         *)
(* Only the order of due times counts: the schedule gives each region its  *)
(* rank, and the regions up to rank late have fallen due.  The coverage    *)
(* query is abstract: QueryAdvance shows what it does.                     *)
(***************************************************************************)
EXTENDS PrefixTable, Functions, FiniteSetsExt

CONSTANTS
  NoTarget,        \* the prefixes for which the target function has no key
  Node,            \* bound: the keys of the nodes that a survey may find
  SurveyRequests   \* bound: the requests the query of a survey makes

ASSUME SurveyAssumption ==
  /\ NoTarget \subseteq Prefix
  /\ Node \subseteq Key
  /\ SurveyRequests \in Nat \ {0}

\* The survey before it has run: region, sent and expired are those of the running
\* query, which has expired when its deadline has passed.
NewSurvey ==
  [table |-> NewTable, seeded |-> FALSE, sched |-> <<>>, late |-> 0,
   running |-> FALSE, region |-> <<>>, sent |-> 0, expired |-> FALSE]

\* Ranks without gaps.
Ranked(s) ==
  LET ranks == Range(s.sched)
      upTo(r) == Cardinality({k \in ranks : k <= r})
  IN  [s EXCEPT !.sched = [p \in DOMAIN s.sched |-> upTo(s.sched[p])], !.late = upTo(s.late)]

\* seedSchedule: the regions fall due one after the other, the first of them now.
SeedSchedule(s) ==
  IF s.seeded THEN s
  ELSE [s EXCEPT !.seeded = TRUE, !.late = 1,
                 !.sched = [p \in DOMAIN s.table |->
                              1 + Cardinality({q \in DOMAIN s.table : Before(q, p)})]]

\* peek: the earliest region, ties going to the smaller prefix.
Peek(sched) ==
  CHOOSE p \in DOMAIN sched : \A q \in DOMAIN sched \ {p} :
    sched[p] < sched[q] \/ (sched[p] = sched[q] /\ Before(p, q))

\* reschedule, one interval on, which is after all that is scheduled.
Reschedule(s, p) == [s EXCEPT !.sched[p] = 1 + Max(Range(s.sched))]

\* Mutant: a region that was split or merged away stays in the schedule.
Reconcile_KeepRemoved(s, table) ==
  LET removed == DOMAIN s.table \ DOMAIN table
      added   == DOMAIN table \ DOMAIN s.table
      related(a) == {r \in removed : IsPrefix(a, r) \/ IsPrefix(r, a)}
  IN  [s EXCEPT !.table = table,
                !.sched = [p \in DOMAIN s.sched \cup added |->
                             IF p \in added THEN Min({s.sched[r] : r \in related(p)})
                             ELSE s.sched[p]]]

\* Mutant: the regions of a split or merge are due at once, ahead of those that wait.
Reconcile_DueNow(s, table) ==
  LET removed == DOMAIN s.table \ DOMAIN table
      added   == DOMAIN table \ DOMAIN s.table
  IN  [s EXCEPT !.table = table,
                !.sched = [p \in (DOMAIN s.sched \ removed) \cup added |->
                             IF p \in added THEN 0 ELSE s.sched[p]]]

\* reconcile: the regions of a split inherit the due time of the one they were, and
\* that of a merge takes the earliest of those it replaces.
Reconcile(s, table) ==
  LET removed == DOMAIN s.table \ DOMAIN table
      added   == DOMAIN table \ DOMAIN s.table
      related(a) == {r \in removed : IsPrefix(a, r) \/ IsPrefix(r, a)}
  IN  [s EXCEPT !.table = table,
                !.sched = [p \in (DOMAIN s.sched \ removed) \cup added |->
                             IF p \in added THEN Min({s.sched[r] : r \in related(p)})
                             ELSE s.sched[p]]]

SurveyResult(s, kind, region, nodes) == [s |-> s, kind |-> kind, region |-> region, nodes |-> nodes]

ClearQuery(s) == [s EXCEPT !.running = FALSE, !.region = <<>>, !.sent = 0, !.expired = FALSE]

\* The query has found the nodes of its region.
FinishSurvey(s, nodes) ==
  {SurveyResult(Reconcile(ClearQuery(s), table), "Finished", s.region, nodes) :
     table \in {Observe(s.table, s.region, nodes)}}

\* advanceQuery, for a query that has made a request.
AdvanceCoverage(s) ==
  (UNION {FinishSurvey(s, nodes) : nodes \in SUBSET Under(s.region, Node)})
    \cup {SurveyResult(t, "FindCloser", s.region, {}) :
            t \in {[u EXCEPT !.sent = @ + 1] : u \in {v \in {s} : v.sent < SurveyRequests}}}
    \cup {IF s.expired THEN SurveyResult(ClearQuery(s), "Timeout", s.region, {})
          ELSE SurveyResult(s, "Waiting", s.region, {})}

\* startSurvey: the query of a node that knows no other is at its end at once.
StartSurvey(s, p) ==
  LET t == [s EXCEPT !.running = TRUE, !.region = p]
  IN  IF p \in NoTarget THEN {SurveyResult(s, "Failure", p, {})}
      ELSE FinishSurvey(t, {}) \cup {SurveyResult([t EXCEPT !.sent = 1], "FindCloser", p, {})}

IsDue(s, p) == s.seeded /\ s.sched[p] <= s.late

\* The rest of Survey.Advance, when no query runs: p is the earliest region.
TakeUp(s, p) ==
  IF ~IsDue(s, p) THEN {SurveyResult(s, "Idle", <<>>, {})}
  ELSE UNION {StartSurvey(t, p) : t \in {Reschedule(s, p)}}

\* Survey.Advance: an answer that comes when no query runs is a poll, and for one that
\* runs a poll may bring what an answer does, as its requests time out.
AdvanceSurvey(s) ==
  LET results == IF s.running THEN AdvanceCoverage(s)
                 ELSE UNION {TakeUp(t, Peek(t.sched)) : t \in {SeedSchedule(s)}}
  IN  {[res EXCEPT !.s = Ranked(@)] : res \in results}

\* The next region falls due.
FallDue(s) == {[t EXCEPT !.late = @ + 1] : t \in {u \in {s} : u.late < Cardinality(Range(u.sched))}}

\* The deadline of the query passes.
Expire(s) == {[t EXCEPT !.expired = TRUE] : t \in {u \in {s} : u.running /\ ~u.expired}}
=============================================================================
