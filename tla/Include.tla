------------------------------ MODULE Include -------------------------------
(***************************************************************************)
(* routing/include.go: the state machine that vets nodes before they enter *)
(* the routing table.  Every operator takes the machine and the table and  *)
(* gives what Include.Advance leaves behind and returns.                   *)
(***************************************************************************)
EXTENDS CheckTimes, Sequences, SequencesExt

CONSTANTS
  CandidateCapacity,   \* IncludeConfig.QueueCapacity
  IncludeConcurrency   \* IncludeConfig.Concurrency

ASSUME IncludeAssumption ==
  /\ CandidateCapacity \in Nat \ {0}
  /\ IncludeConcurrency \in Nat \ {0}

\* candidates is the queue of nodes to vet, checks the ticks left of each check.
NewInclude == [candidates |-> <<>>, checks |-> [n \in Node |-> NoTime]]

Checking(in) == {n \in Node : in.checks[n] # NoTime}

Candidates(in) == ToSet(in.candidates)

IncludeRet(in, rt, kind, n, due) ==
  [in |-> in, rt |-> rt, kind |-> kind, node |-> n, due |-> due]

\* A check whose deadline has passed is forgotten.
DropExpired(in) ==
  [in EXCEPT !.checks = [n \in Node |-> IF @[n] = Past THEN NoTime ELSE @[n]]]

IncludeFull(in) == Cardinality(Checking(in)) = IncludeConcurrency

\* Every advance that does not return early starts one check, if it can.
IncludeWalk(old, rt) ==
  LET in == DropExpired(old)
  IN  IF IncludeFull(in) \/ in.candidates = <<>>
      THEN IncludeRet(in, rt, "Waiting", NoNode, Earliest({in.checks[n] : n \in Node}))
      ELSE LET n == Head(in.candidates)
           IN  IncludeRet([in EXCEPT !.candidates = Tail(@), !.checks[n] = CheckTimeout],
                          rt, "Check", n, NoTime)

\* Mutant: a node of the routing table is accepted as a candidate.
Known_NotTable(in, rt) == Checking(in)

Known(in, rt) == Checking(in) \cup rt

\* A candidate that finds the queue full is dropped, and the early return reports
\* no due time whatever checks are running.
AddCandidate(in, rt, n) ==
  IF n \in Known(in, rt) THEN IncludeWalk(in, rt)
  ELSE IF Len(in.candidates) >= CandidateCapacity
       THEN IncludeRet(in, rt, "Waiting", NoNode, NoTime)
       ELSE IncludeWalk([in EXCEPT !.candidates = IF n \in Candidates(in) THEN @
                                                  ELSE Append(@, n)], rt)

EndCheck(in, n) == [in EXCEPT !.checks[n] = NoTime]

\* A node that answered enters the table, if the table accepts it.  The answer to
\* a check that has been given up on is ignored.
CheckSuccess(in, rt, n, accepts) ==
  IF n \in Checking(in) /\ accepts /\ n \notin rt
  THEN IncludeRet(EndCheck(in, n), rt \cup {n}, "Updated", n, NoTime)
  ELSE IncludeWalk(EndCheck(in, n), rt)

\* A failed check and a check that was never sent end alike.
CheckFailure(in, rt, n) == IncludeWalk(EndCheck(in, n), rt)

IncludeElapse(in) == [in EXCEPT !.checks = [n \in Node |-> CountDown(@[n])]]
=============================================================================
