----------------------------- MODULE MCMonitoring -----------------------------
(***************************************************************************)
(* Small instances of the two parts that watch processes.  They share      *)
(* nothing, and a behaviour follows one of them; one that follows the      *)
(* collector is about processes, while memory is short, or about the       *)
(* condition of the system.                                                *)
(***************************************************************************)
EXTENDS Monitoring, StartupObserver

VARIABLE followed

Disk(name, slow, hdd, measured, low) ==
  [name |-> name, slow |-> slow, hdd |-> hdd, measured |-> measured, low |-> low]

Condition(memory, paging, disks) ==
  [memory |-> memory, paging |-> paging, cpu |-> memory, disks |-> disks]

Short == Condition(TRUE, FALSE, {})

MCConditions ==
  {Short, Condition(FALSE, TRUE, {Disk("ssd", FALSE, FALSE, FALSE, FALSE)}),
   Condition(TRUE, TRUE, {Disk("hdd", TRUE, TRUE, FALSE, FALSE), Disk("ssd", TRUE, FALSE, TRUE, TRUE)}),
   Condition(FALSE, FALSE, {Disk("hdd", FALSE, TRUE, FALSE, FALSE), Disk("ssd", FALSE, FALSE, TRUE, FALSE)})}

Init == MonitoringInit /\ ObserverInit /\ followed \in {"processes", "system", "observer"}

\* An editor is in the foreground whenever it runs, the collector is initialized
\* in the first interval, and the history is not exceeded: it is where only the
\* system is followed.
FollowsProcesses ==
  /\ time' < MaxTime
  /\ time' > 0 => collector'.initialized
  /\ sampling' # NoSnapshot =>
       /\ sampling'.condition = Short
       /\ \A e \in sampling'.processes : e.foreground = (e.name = "editor")
FollowsSystem == UNCHANGED started

Next ==
  /\ \/ followed = "processes" /\ MonitoringNext /\ FollowsProcesses /\ UNCHANGED observerVars
     \/ followed = "system" /\ MonitoringNext /\ FollowsSystem /\ UNCHANGED observerVars
     \/ followed = "observer" /\ ObserverNext /\ UNCHANGED monitoringVars
  /\ UNCHANGED followed

Spec == Init /\ [][Next]_<<monitoringVars, observerVars, followed>>
=============================================================================
