----------------------------- MODULE HelperPromise -----------------------------
(***************************************************************************)
(* What a session may conclude from the answer of the elevated helper.     *)
(* Each request acts on the service at most once.  A refusal says that it  *)
(* has not acted and never will; a success says that the service is in the *)
(* state asked for; nothing follows from an uncertain answer or from none, *)
(* and then the request may still act.  CodingSession rests on this: only  *)
(* a record that is Failed or Rejected is left out of the rollback.        *)
(***************************************************************************)
EXTENDS Naturals

CONSTANT MaxRequests

Requests == 1..MaxRequests
Refusals == {"Failed", "Rejected"}

VARIABLES
  asked,                  \* the number of requests made
  answer,                 \* how the client recorded each of them
  acted                   \* whether the request started or stopped the service

vars == <<asked, answer, acted>>

Init ==
  /\ asked = 0
  /\ answer = [n \in Requests |-> "none"]
  /\ acted = [n \in Requests |-> FALSE]

Ask ==
  /\ asked < MaxRequests
  /\ asked' = asked + 1
  /\ UNCHANGED <<answer, acted>>

Act(n) ==
  /\ n <= asked
  /\ ~acted[n]
  /\ answer[n] \in {"none", "Uncertain", "crashed"}
  /\ acted' = [acted EXCEPT ![n] = TRUE]
  /\ UNCHANGED <<asked, answer>>

\* A restore may find the service running, so RolledBack does not need an act.
Answer(n, a) ==
  /\ n <= asked
  /\ answer[n] = "none"
  /\ a \in Refusals => ~acted[n]
  /\ a = "Applied" => acted[n]
  /\ answer' = [answer EXCEPT ![n] = a]
  /\ UNCHANGED <<asked, acted>>

Next ==
  \/ Ask
  \/ \E n \in Requests :
       \/ Act(n)
       \/ \E a \in Refusals \cup {"Applied", "RolledBack", "Uncertain", "crashed"} :
            Answer(n, a)

Spec == Init /\ [][Next]_vars
=============================================================================
