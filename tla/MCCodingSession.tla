-------------------------- MODULE MCCodingSession ---------------------------
(***************************************************************************)
(* Small instances of CodingSession for TLC: a process to reprioritise, a  *)
(* process to close and a service to stop, in the orders in which the      *)
(* planner may put them (services last).                                   *)
(***************************************************************************)
EXTENDS CodingSession, TLC

CONSTANTS p1, p2, c1, s1

MCTargetPriority == [t \in PriorityTargets |-> "high"]

\* One action of each kind, in both orders of the process list.
AllKinds == {<<p1, c1, s1>>, <<c1, p1, s1>>}

\* Also two actions of the same kind.
MixedPlans == {<<p1, c1, s1>>, <<p1, p2>>}

ShortPlans == {<<p1, c1>>, <<c1, s1>>, <<s1>>}
=============================================================================
