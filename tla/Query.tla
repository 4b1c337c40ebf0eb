------------------------------- MODULE Query --------------------------------
(***************************************************************************)
(* One query driven by an open environment: responses, failures, polls and *)
(* cancellation arrive in any order and interleave with the clock.  A      *)
(* response or failure may come from any node, late, twice or for a node   *)
(* that was never contacted: activity ids are reused (bootstrap, explore   *)
(* and survey run every query under one id), so an answer meant for an     *)
(* earlier query reaches the current one.                                  *)
(*                                                                         *)
(* The names that a specification usually has bear the query's, for the    *)
(* proofs about the pool use those about the query.                        *)
(***************************************************************************)
EXTENDS QueryAdvance

VARIABLES
  q,          \* the query
  ret,        \* the kind and the NextDue of the state last emitted
  cancelled   \* TRUE once a cancel has been delivered to an unfinished query

queryVars == <<q, ret, cancelled>>

RetType == [kind : RetKind \cup {"None"}, nextDue : NoTime..RequestTimeout]

QueryInit ==
  /\ \E seeds \in SUBSET Node, coverage \in BOOLEAN :
       q = NewQuery(seeds, coverage)
  /\ ret = [kind |-> "None", nextDue |-> NoTime]
  /\ cancelled = FALSE

\* (Quantifying over a singleton makes TLC evaluate its element once.)
Returns(outcome) ==
  \E r \in {outcome} :
    /\ q' = r.query
    /\ ret' = [kind |-> r.kind, nextDue |-> r.query.nextDue]

\* The event has turned the query into x, and the walk follows.
Advance(handled) ==
  /\ \E x \in {handled} : Returns(Outcome(q, x))
  /\ UNCHANGED cancelled

QueryPoll == Advance(q)

Response(n, closer) == Advance(OnNodeResponse(q, n, closer))

Failure(n) == Advance(OnNodeFailure(q, n))

Cancel ==
  /\ Returns(CancelOutcome(q))
  /\ cancelled' = (cancelled \/ ~q.finished)

QueryTick ==
  /\ ~q.finished
  /\ q' = Elapse(q)
  /\ UNCHANGED <<ret, cancelled>>

\* The lists of nodes a response from n may carry.  Advance does not look at the
\* list of a response it ignores, so one list stands for all of them.
Carried(n) ==
  IF ~q.finished /\ q.state[n] \in {"Waiting", "Unresponsive"} THEN SUBSET Node ELSE {{}}

QueryNext ==
  \/ QueryPoll
  \/ \E n \in Node : \E closer \in Carried(n) : Response(n, closer)
  \/ \E n \in Node : Failure(n)
  \/ Cancel
  \/ QueryTick

QuerySpec == QueryInit /\ [][QueryNext]_queryVars

-----------------------------------------------------------------------------
\* The values of the query, of the state it emits and of the history variable.
QueryTypeOK ==
  /\ q \in QueryType
  /\ ret \in RetType
  /\ cancelled \in BOOLEAN

\* inFlight, which every event and the walk adjust separately, is the number of
\* nodes being waited on and never exceeds QueryConfig.Concurrency, and each request
\* that has completed counts exactly once in QueryStats, whichever of a late
\* response, a failure and a deadline comes first.
CountsExact ==
  /\ q.inFlight = Cardinality(In(q, "Waiting"))
  /\ q.inFlight <= Concurrency
  /\ q.requests = q.success + q.failure + q.inFlight

\* Unless it was cancelled, a closest-nodes query that finishes has no node it
\* still ought to ask: if it is short of NumResults nodes it asked every node it
\* heard of, and otherwise everything unresolved is farther than its results.
ClosestResultSound ==
  (q.finished /\ ~cancelled /\ ~q.coverage) =>
    LET open == In(q, "NotContacted") \cup In(q, "Waiting")
    IN  /\ Cardinality(q.targetNodes) <= NumResults
        /\ q.targetNodes \subseteq In(q, "Succeeded")
        /\ \A n \in In(q, "Succeeded") \ q.targetNodes : \A m \in q.targetNodes : m < n
        /\ Cardinality(q.targetNodes) < NumResults => open = {}
        /\ \A n \in open : \A m \in q.targetNodes : m < n

\* Unless it was cancelled, a coverage query that finishes has an answer or a
\* failure from every node of the region it heard of, and reports exactly the
\* ones that answered; it gives up on a region it found nobody in only after
\* NumResults answers or when there is nobody left to ask.
CoverageResultSound ==
  (q.finished /\ ~cancelled /\ q.coverage) =>
    /\ q.targetNodes = In(q, "Succeeded") \cap Region
    /\ (In(q, "NotContacted") \cup In(q, "Waiting")) \cap Region = {}
    /\ q.targetNodes = {} =>
         \/ Cardinality(In(q, "Succeeded")) >= NumResults
         \/ In(q, "NotContacted") \cup In(q, "Waiting") = {}

\* Whatever the stopping rule, a query that ends by itself leaves no node open that it
\* has heard of and that would belong in its result if it answered: none nearer than
\* its results, none in the region.  That is all the stopping rules promise.  The
\* answer of a farther node that is still open may yet name a nearer one the query has
\* never heard of, and the query does not wait for it.
NothingCloserLeftOpen == ClosestResultSound /\ CoverageResultSound

\* Each node is asked at most once and what is known of it only moves forward:
\* an answer or a failure is never taken back, and nobody is asked again after
\* being given up on.  Once the query has finished nothing moves at all, whatever
\* arrives afterwards.
MovesForward ==
  [][/\ \A n \in Node : q'.state[n] = q.state[n]
                         \/ Stage(q.state[n]) < Stage(q'.state[n])
     /\ q.finished => q' = q]_queryVars
=============================================================================
