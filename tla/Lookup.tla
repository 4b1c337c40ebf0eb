------------------------------- MODULE Lookup -------------------------------
(***************************************************************************)
(* The query that bootstrap and explore run, as the two see it: a machine  *)
(* with a deadline that each advance makes a request for, ends or leaves   *)
(* waiting.  It allows all that QueryAdvance does.  Times are ticks from   *)
(* now, NoTime is the zero time and Past any time that has gone by.        *)
(***************************************************************************)
EXTENDS Integers

CONSTANT QueryTimeout  \* BootstrapConfig.Timeout and ExploreConfig.Timeout, in ticks

ASSUME LookupAssumption == QueryTimeout \in Nat \ {0}

Past == -1

NoTime == -2

CountDown(t) == IF t > Past THEN t - 1 ELSE t

\* earlier, over any number of due times.
Earliest(times) ==
  LET scheduled == times \ {NoTime}
  IN  IF scheduled = {} THEN NoTime
      ELSE CHOOSE t \in scheduled : \A u \in scheduled : t <= u

NoLookup == [left |-> NoTime, quota |-> 0]

\* A query that makes up to quota requests.
NewLookup(quota) == [left |-> QueryTimeout, quota |-> quota]

IsRunning(qry) == qry.left # NoTime

Result(qry, kind) == [qry |-> qry, kind |-> kind]

\* Mutant: a query is not ended by its deadline.
AdvanceQuery_NoTimeout(qry) ==
  {Result(NoLookup, "finished"), Result(qry, "waiting")}
    \cup {Result([q EXCEPT !.quota = @ - 1], "request") : q \in {r \in {qry} : r.quota > 0}}

\* advanceQuery: the deadline counts when the query has nothing else to do.
AdvanceQuery(qry) ==
  {Result(NoLookup, "finished")}
    \cup {Result([q EXCEPT !.quota = @ - 1], "request") : q \in {r \in {qry} : r.quota > 0}}
    \cup {IF qry.left = Past THEN Result(NoLookup, "timeout") ELSE Result(qry, "waiting")}
=============================================================================
