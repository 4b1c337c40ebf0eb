--------------------------- MODULE RequestService ---------------------------
(***************************************************************************)
(* What the network behaviour promises a behaviour that sends requests,    *)
(* whatever handlers, tokens and queues it keeps: a request it takes on is *)
(* answered once, in the behaviour's queue, one it refuses is answered at  *)
(* once, no more than Capacity are out at a time, and only closing the     *)
(* coordinator releases it from an answer.  An answer that finds the queue *)
(* full, which the behaviour shares with everyone who has something to     *)
(* tell it, is lost: there is no second one.                               *)
(***************************************************************************)
EXTENDS Naturals, Sequences, FiniteSets

CONSTANTS Request, Capacity, QueueCapacity, Other

VARIABLES
  open,     \* the requests taken on and not yet answered
  answers,  \* the answers and other events the behaviour has not looked at, oldest first
  closed    \* the coordinator has been told to close

vars == <<open, answers, closed>>

Init ==
  /\ open = {}
  /\ answers = <<>>
  /\ closed = FALSE

\* A request whose last answer has been looked at, or that was never made.
Unused(r) == r \notin open /\ \A i \in 1..Len(answers) : answers[i] # r

\* An event joins the behaviour's queue, or is dropped when it is full.
Deliver(e) ==
  answers' = IF Len(answers) < QueueCapacity THEN Append(answers, e) ELSE answers

Accept(r) ==
  /\ Unused(r)
  /\ Cardinality(open) < Capacity
  /\ open' = open \cup {r}
  /\ UNCHANGED <<answers, closed>>

Refuse(r) ==
  /\ Unused(r)
  /\ Deliver(r)
  /\ UNCHANGED <<open, closed>>

Answer(r) ==
  /\ r \in open
  /\ open' = open \ {r}
  /\ Deliver(r)
  /\ UNCHANGED closed

Submit ==
  /\ Deliver(Other)
  /\ UNCHANGED <<open, closed>>

LookAt ==
  /\ answers # <<>>
  /\ answers' = Tail(answers)
  /\ UNCHANGED <<open, closed>>

Shut ==
  /\ ~closed
  /\ closed' = TRUE
  /\ UNCHANGED <<open, answers>>

Abandon(r) ==
  /\ closed
  /\ r \in open
  /\ open' = open \ {r}
  /\ UNCHANGED <<answers, closed>>

Next ==
  \/ Submit \/ LookAt \/ Shut
  \/ \E r \in Request : Accept(r) \/ Refuse(r) \/ Answer(r) \/ Abandon(r)

Spec == Init /\ [][Next]_vars
=============================================================================
