---------------------------- MODULE MCSharedFiles ----------------------------
(***************************************************************************)
(* The files that WorkBoost processes share, side by side: three processes *)
(* use the session file, or two write to the event log.  The two do not    *)
(* touch each other, and a behaviour does one of them.                     *)
(***************************************************************************)
EXTENDS SharedFiles, EventLog, TLC

CONSTANTS u1, u2, u3

MCTasks == u1 :> {"idle", "enter"} @@ u2 :> {"idle", "enter", "exit"}
           @@ u3 :> {"idle", "show", "exit"}
MCLengths == u1 :> 2 @@ u2 :> 1 @@ u3 :> 1

OnlyTheLog == \A p \in Users : user[p].task = "idle"
OnlyTheSession == starts = 0

Init == FilesInit /\ LogInit /\ (OnlyTheLog # OnlyTheSession)

Next ==
  \/ FilesNext /\ UNCHANGED logVars
  \/ LogNext /\ UNCHANGED fileVars

Spec == Init /\ [][Next]_<<fileVars, logVars>>
=============================================================================
