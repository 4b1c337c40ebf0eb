----------------------------- MODULE CheckTimes -----------------------------
(***************************************************************************)
(* What the include and the probe state machines share: the nodes, the     *)
(* timeout of a connectivity check, and due times (routing/duetime.go,     *)
(* behaviour.go), which are counted in ticks from now.  The zero time is   *)
(* NoTime, "nothing scheduled"; all times in the past behave alike and are *)
(* Past.                                                                   *)
(***************************************************************************)
EXTENDS Integers, FiniteSets

CONSTANTS
  Node,          \* the other nodes of the network
  CheckTimeout   \* RoutingConfig.ConnectivityCheckTimeout, in ticks

ASSUME CheckAssumption ==
  /\ IsFiniteSet(Node)
  /\ CheckTimeout \in Nat \ {0}

NoNode == "none"

Past == -1

NoTime == -2

\* earlier, over any number of due times.
Earliest(times) ==
  LET scheduled == times \ {NoTime}
  IN  IF scheduled = {} THEN NoTime
      ELSE CHOOSE t \in scheduled : \A u \in scheduled : t <= u

\* One tick of the clock.
CountDown(t) == IF t > Past THEN t - 1 ELSE t

\* The same for a time of which it only matters whether it has come.
Nearing(t) == IF t > 0 THEN t - 1 ELSE t
=============================================================================
