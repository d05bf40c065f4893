--------------------------- MODULE SessionPromise ---------------------------
(***************************************************************************)
(* What Coding Mode promises its user, free of files, processes and        *)
(* commands: reversible changes are made only inside a session, and a      *)
(* session is closed only when every one of them has been undone.          *)
(*                                                                         *)
(* CodingSession implements this module; the refinement mapping is there.  *)
(***************************************************************************)
EXTENDS Naturals

CONSTANT Targets          \* the things whose state a session may change

VARIABLES
  open,                   \* number of the open session, 0 when there is none
  changed                 \* the targets still in the state WorkBoost gave them

vars == <<open, changed>>

TypeOK ==
  /\ open \in Nat
  /\ changed \subseteq Targets

Init ==
  /\ open = 0
  /\ changed = {}

Open ==
  /\ open = 0
  /\ open' \in Nat \ {0}
  /\ UNCHANGED changed

Change(t) ==
  /\ open # 0
  /\ changed' = changed \cup {t}
  /\ UNCHANGED open

\* By a rollback, or because the changed process or state is gone by itself.
Undo(t) ==
  /\ changed' = changed \ {t}
  /\ UNCHANGED open

Close ==
  /\ open # 0
  /\ changed = {}
  /\ open' = 0
  /\ UNCHANGED changed

Next ==
  \/ Open
  \/ Close
  \/ \E t \in Targets : Change(t) \/ Undo(t)

Spec == Init /\ [][Next]_vars
=============================================================================
