--------------------------- MODULE CodingSession ----------------------------
(***************************************************************************)
(* The life of a Coding Mode session: `coding enter` (EnterCodingMode),    *)
(* `coding exit` and `recovery restore` (RestoreSession), and `recovery    *)
(* acknowledge` (AcknowledgeRecovery) of cli.cpp, over the session file    *)
(* state\active_session.json of SessionManager, with the system calls of   *)
(* ActionExecutor and ProcessActionApi.                                    *)
(*                                                                         *)
(* One command runs at a time.  Between any two steps it may crash, a save *)
(* or a capture may fail, a capture may miss a priority, a process may     *)
(* exit and its PID be given to another process, and somebody else may     *)
(* change a priority or start or stop a service.  A target is one instance *)
(* of a process (PID and start time) or one service; the planner makes at  *)
(* most one action per target.  Outcomes of the elevated helper appear as  *)
(* what the client is told and what has happened to the service.           *)
(***************************************************************************)
EXTENDS Integers, Sequences, FiniteSets

CONSTANTS
  PriorityTargets,        \* processes a plan may give another priority
  CloseTargets,           \* processes a plan may ask to close
  ServiceTargets,         \* services a plan may stop
  Priorities,             \* priority classes
  TargetPriority,         \* the class the plan gives each priority target
  Plans,                  \* the action lists the planner can produce
  HelperAnomalies,        \* subset of {"late", "misreported"}, see ExecuteStop
  Strangers,              \* who may get a freed PID: "other" processes, or
                          \* "protected" ones that WorkBoost may not open
  MaxSessions,            \* bound: sessions created
  MaxFaults,              \* bound: crashes, failed saves, captures, restores,
                          \* priorities that cannot be read
  MaxPriorityEdits,       \* bound: priority changes by somebody else
  MaxServiceEdits         \* bound: service starts and stops by somebody else

Targets == PriorityTargets \cup CloseTargets \cup ServiceTargets
Processes == PriorityTargets \cup CloseTargets
Reversible == PriorityTargets \cup ServiceTargets

\* The code's 0 in its two meanings: a record or a process without a value, and
\* the class that GetPriorityClass returns when it fails.
NoValue == "none"
NoClass == "unread"
Values == Priorities \cup {"Running", NoValue, NoClass}

ASSUME TargetsAssumption ==
  /\ PriorityTargets \cap CloseTargets = {}
  /\ PriorityTargets \cap ServiceTargets = {}
  /\ CloseTargets \cap ServiceTargets = {}

ASSUME PriorityAssumption ==
  /\ {"Running", NoValue, NoClass} \cap Priorities = {}
  /\ TargetPriority \in [PriorityTargets -> Priorities]

ASSUME PlansAssumption ==
  \A p \in Plans :
    /\ p \in Seq(Targets)
    /\ \A i, j \in 1..Len(p) : p[i] = p[j] => i = j

ASSUME BoundsAssumption ==
  /\ HelperAnomalies \subseteq {"late", "misreported"}
  /\ Strangers \subseteq {"other", "protected"}
  /\ MaxSessions \in Nat
  /\ MaxFaults \in Nat
  /\ MaxPriorityEdits \in Nat
  /\ MaxServiceEdits \in Nat

ActionStates == {"Planned", "Applied", "Completed", "RolledBack", "Uncertain",
                 "Failed", "Rejected"}
Record == [target : Targets, state : ActionStates, original : Values]
SessionStates == {"Absent", "Active", "Recovering", "SafeMode"}
Session == [id : Nat, state : SessionStates, actions : Seq(Record)]

\* No session file, or no session in memory.
NoSession == [id |-> 0, state |-> "Absent", actions |-> <<>>]

Phases == {"idle", "planning", "next", "calling", "storing", "undo", "undone",
           "verify", "ackverify", "report", "remove", "giveup"}

VARIABLES
  disk,                   \* active_session.json
  reports,                \* completion reports written, [id, complete]
  pc,                     \* where the running command is, "idle" if none runs
  mem,                    \* the command's OptimizationSession
  plan,                   \* the plan `coding enter` is executing
  cur,                    \* index of the action in hand
  ok,                     \* `success` of RestoreSession
  exit,                   \* how the last command ended
  prio,                   \* priority of the process that holds the PID
  holder,                 \* who holds the PID of a planned process
  closes,                 \* close requests delivered to it in this session
  svc,                    \* service states
  late,                   \* services a forgotten helper has yet to stop
  owed,                   \* the value WorkBoost took away and has to give back
  sessions, faults, priorityEdits, serviceEdits   \* counters for the bounds

journal == <<disk, reports>>
command == <<pc, mem, plan, cur, ok, exit>>
system == <<prio, holder, closes, svc, late, owed>>
counters == <<sessions, faults, priorityEdits, serviceEdits>>
vars == <<journal, command, system, counters>>

TypeOK ==
  /\ disk \in Session
  /\ reports \subseteq [id : Nat, complete : BOOLEAN]
  /\ pc \in Phases
  /\ mem \in Session
  /\ plan \in Seq(Targets)
  /\ cur \in Nat
  /\ ok \in BOOLEAN
  /\ exit \in {"none", "ok", "failed", "crashed"}
  /\ prio \in [PriorityTargets -> Priorities]
  /\ holder \in [Processes -> {"original", "none"} \cup Strangers]
  /\ closes \in [CloseTargets -> Nat]
  /\ svc \in [ServiceTargets -> {"Running", "Stopped"}]
  /\ late \subseteq ServiceTargets
  /\ owed \in [Reversible -> Values]
  /\ sessions \in 0..MaxSessions
  /\ faults \in 0..MaxFaults
  /\ priorityEdits \in 0..MaxPriorityEdits
  /\ serviceEdits \in 0..MaxServiceEdits

Init ==
  /\ disk = NoSession
  /\ reports = {}
  /\ pc = "idle"
  /\ mem = NoSession
  /\ plan = <<>>
  /\ cur = 0
  /\ ok = TRUE
  /\ exit = "none"
  /\ prio \in [PriorityTargets -> Priorities]
  /\ holder = [t \in Processes |-> "original"]
  /\ closes = [t \in CloseTargets |-> 0]
  /\ svc = [t \in ServiceTargets |-> "Running"]
  /\ late = {}
  /\ owed = [t \in Reversible |-> NoValue]
  /\ sessions = 0
  /\ faults = 0
  /\ priorityEdits = 0
  /\ serviceEdits = 0

-----------------------------------------------------------------------------
(***************************************************************************)
(* The session file and the end of a command.                              *)
(***************************************************************************)

HasActiveSession == disk # NoSession

Fault ==
  /\ faults < MaxFaults
  /\ faults' = faults + 1

\* AtomicWriteUtf8 renames a complete temporary file over the session file:
\* the file holds the old session or the new one, and the caller knows which.
SaveSucceeds(s) ==
  /\ disk' = s
  /\ UNCHANGED <<reports, faults>>

SaveFails ==
  /\ Fault
  /\ UNCHANGED journal

\* The process ends and its memory is gone.
Return(how) ==
  /\ pc' = "idle"
  /\ mem' = NoSession
  /\ plan' = <<>>
  /\ cur' = 0
  /\ ok' = TRUE
  /\ exit' = how

\* `it->state = ...` or `session.actions.back() = ...` at the action in hand.
SetCurrent(state, original) ==
  mem' = [mem EXCEPT !.actions[cur] =
            [target |-> @.target, state |-> state, original |-> original]]

InSafeMode(s) == [s EXCEPT !.state = "SafeMode"]

\* The records that Rollback acts on.
Open(r) ==
  /\ r.state \notin {"RolledBack", "Rejected", "Failed"}
  /\ r.state = "Completed" => r.target \in Reversible

\* What Deserialize demands of each action; a session that does not satisfy it
\* can be neither restored nor acknowledged.
Loadable(s) ==
  \A i \in 1..Len(s.actions) :
    LET r == s.actions[i]
    IN /\ r.target \in CloseTargets => r.state \notin {"Applied", "RolledBack"}
       /\ r.target \in ServiceTargets =>
            r.state # "Completed" /\ r.original = "Running"

Crash ==
  /\ pc # "idle"
  /\ Fault
  /\ Return("crashed")
  /\ late' = IF /\ "late" \in HelperAnomalies
                /\ pc = "calling"
                /\ plan[cur] \in ServiceTargets
             THEN late \cup {plan[cur]}
             ELSE late
  /\ UNCHANGED <<journal, prio, holder, closes, svc, owed,
                 sessions, priorityEdits, serviceEdits>>

-----------------------------------------------------------------------------
(***************************************************************************)
(* coding enter                                                            *)
(***************************************************************************)

\* What the planner requires of a target in the baseline, and the validator
\* of it in the snapshot taken just before the action is executed.
Eligible(t) ==
  /\ t \in Processes => holder[t] = "original"
  /\ t \in ServiceTargets => svc[t] = "Running"

EnterBegin ==
  /\ pc = "idle"
  /\ ~HasActiveSession
  /\ sessions < MaxSessions
  /\ \E p \in Plans :
       /\ \A i \in 1..Len(p) :
            /\ Eligible(p[i])
            /\ p[i] \in PriorityTargets => prio[p[i]] # TargetPriority[p[i]]
       /\ plan' = p
  /\ pc' = "planning"
  /\ UNCHANGED <<journal, mem, cur, ok, exit, system, counters>>

\* Baseline or service inventory failed, --dry-run, a medium-risk plan without
\* --confirm-service-actions, or no fresh snapshot: nothing has been written.
EnterAbandon ==
  /\ pc = "planning"
  /\ \E how \in {"ok", "failed"} : Return(how)
  /\ UNCHANGED <<journal, system, counters>>

CreateSession ==
  /\ pc = "planning"
  /\ LET s == [id |-> sessions + 1, state |-> "Active", actions |-> <<>>]
     IN \/ /\ SaveSucceeds(s)
           /\ mem' = s
           /\ pc' = "next"
           /\ cur' = 1
           /\ sessions' = sessions + 1
           /\ closes' = [t \in CloseTargets |-> 0]
           /\ UNCHANGED <<plan, ok, exit>>
        \/ /\ SaveFails
           /\ Return("failed")
           /\ UNCHANGED <<sessions, closes>>
  /\ UNCHANGED <<prio, holder, svc, late, owed, priorityEdits, serviceEdits>>

\* CaptureActionState before the second and every later action.
RefreshFails ==
  /\ pc = "next"
  /\ cur \in 2..Len(plan)
  /\ Fault
  /\ disk' \in {disk, InSafeMode(mem)}
  /\ Return("failed")
  /\ UNCHANGED <<reports, system, sessions, priorityEdits, serviceEdits>>

\* Mutant of Payload: the wanted priority is recorded.
PayloadOfPlan(t) ==
  IF t \in PriorityTargets THEN TargetPriority[t]
  ELSE IF t \in ServiceTargets THEN "Running"
  ELSE NoValue

\* The restore value, read from the snapshot.  That of a rejected record is
\* never used.
Payload(t) ==
  IF t \in PriorityTargets THEN prio[t]
  ELSE IF t \in ServiceTargets THEN "Running"
  ELSE NoValue

WithRecord(t, state, original) ==
  [mem EXCEPT !.actions = Append(@, [target |-> t, state |-> state,
                                     original |-> original])]

\* Any target may be rejected by policy; one that is gone always is.
PreflightRejects ==
  /\ pc = "next"
  /\ cur <= Len(plan)
  /\ LET s == WithRecord(plan[cur], "Rejected", Payload(plan[cur]))
     IN \/ /\ SaveSucceeds(s)
           /\ mem' = s
           /\ cur' = cur + 1
           /\ UNCHANGED <<pc, plan, ok, exit>>
        \/ /\ SaveFails
           /\ Return("failed")
  /\ UNCHANGED <<system, sessions, priorityEdits, serviceEdits>>

\* Mutant: the Planned record stays in memory until the outcome is known.
PreflightAcceptsUnsaved ==
  /\ pc = "next"
  /\ cur <= Len(plan)
  /\ Eligible(plan[cur])
  /\ mem' = WithRecord(plan[cur], "Planned", Payload(plan[cur]))
  /\ pc' = "calling"
  /\ UNCHANGED <<journal, plan, cur, ok, exit, system, counters>>

PreflightAccepts ==
  /\ pc = "next"
  /\ cur <= Len(plan)
  /\ Eligible(plan[cur])
  /\ LET s == WithRecord(plan[cur], "Planned", Payload(plan[cur]))
     IN \/ /\ SaveSucceeds(s)
           /\ mem' = s
           /\ pc' = "calling"
           /\ UNCHANGED <<plan, cur, ok, exit>>
        \/ /\ SaveFails
           /\ Return("failed")
  /\ UNCHANGED <<system, sessions, priorityEdits, serviceEdits>>

\* The snapshot has the process and its start time, but not its priority: the
\* validator does not look at that, and 0 is saved as the value to restore.
PreflightUnread ==
  /\ pc = "next"
  /\ cur <= Len(plan)
  /\ plan[cur] \in PriorityTargets
  /\ Eligible(plan[cur])
  /\ Fault
  /\ disk' = WithRecord(plan[cur], "Planned", NoClass)
  /\ mem' = disk'
  /\ pc' = "calling"
  /\ UNCHANGED <<reports, plan, cur, ok, exit, system, sessions,
                 priorityEdits, serviceEdits>>

\* Mutant: a process is recognised by its PID alone.
SamePid(t) == holder[t] \in {"original", "other"}

\* The process behind the PID has the creation time the action names.
SameProcess(t) == holder[t] = "original"

\* SetPriority opens the process, checks its start time, reads the priority it
\* has now and sets the new one; an error at any of these changes nothing.
ExecutePriority ==
  /\ pc = "calling"
  /\ plan[cur] \in PriorityTargets
  /\ LET t == plan[cur]
     IN \/ /\ SameProcess(t)
           /\ prio' = [prio EXCEPT ![t] = TargetPriority[t]]
           /\ owed' = [owed EXCEPT ![t] = prio[t]]
           /\ SetCurrent("Applied", prio[t])
        \/ /\ SetCurrent("Failed", NoValue)
           /\ UNCHANGED <<prio, owed>>
  /\ pc' = "storing"
  /\ UNCHANGED <<journal, plan, cur, ok, exit, holder, closes, svc, late,
                 counters>>

\* Mutant: a process that does not close in time counts as a failed request.
CloseTimeoutFails == {"Completed", "Failed"}

\* What is reported once the request may have reached a window.
CloseOutcomes == {"Completed", "Uncertain"}

\* RequestGracefulClose sends WM_CLOSE to the windows of the original process.
\* With none delivered and none in doubt the request has Failed; a process that
\* exits by itself meanwhile counts as closed without any delivery.
ExecuteClose ==
  /\ pc = "calling"
  /\ plan[cur] \in CloseTargets
  /\ LET t == plan[cur]
     IN \/ /\ SetCurrent("Failed", NoValue)
           /\ UNCHANGED closes
        \/ /\ SameProcess(t)
           /\ \E state \in CloseOutcomes : SetCurrent(state, NoValue)
           /\ closes' \in {closes, [closes EXCEPT ![t] = @ + 1]}
  /\ pc' = "storing"
  /\ UNCHANGED <<journal, plan, cur, ok, exit, prio, holder, svc, late, owed,
                 counters>>

StopEffect(t) ==
  /\ svc[t] = "Running"
  /\ svc' = [svc EXCEPT ![t] = "Stopped"]
  /\ owed' = [owed EXCEPT ![t] = "Running"]

\* StopServiceTemporary through the elevated helper.  The last two disjuncts
\* are the anomalies the helper protocol leaves possible: a helper that stops
\* the service after its client has given up ("late"), and a stop that did
\* happen although the client is told it failed ("misreported").
ExecuteStop ==
  /\ pc = "calling"
  /\ plan[cur] \in ServiceTargets
  /\ LET t == plan[cur]
     IN \/ /\ StopEffect(t)
           /\ \E state \in {"Applied", "Uncertain"} : SetCurrent(state, "Running")
           /\ UNCHANGED late
        \/ /\ \E state \in {"Failed", "Rejected", "Uncertain"} :
                SetCurrent(state, "Running")
           /\ UNCHANGED <<svc, late, owed>>
        \/ /\ "late" \in HelperAnomalies
           /\ SetCurrent("Uncertain", "Running")
           /\ late' = late \cup {t}
           /\ UNCHANGED <<svc, owed>>
        \/ /\ "misreported" \in HelperAnomalies
           /\ StopEffect(t)
           /\ SetCurrent("Failed", "Running")
           /\ UNCHANGED late
  /\ pc' = "storing"
  /\ UNCHANGED <<journal, plan, cur, ok, exit, prio, holder, closes, counters>>

\* Mutant: an uncertain outcome does not end the command.
StoreResultGoesOn ==
  /\ pc = "storing"
  /\ \/ /\ SaveSucceeds(mem)
        /\ pc' = "next"
        /\ cur' = cur + 1
        /\ UNCHANGED <<mem, plan, ok, exit>>
     \/ /\ SaveFails
        /\ Return("failed")
  /\ UNCHANGED <<system, sessions, priorityEdits, serviceEdits>>

\* An uncertain outcome ends the command in Safe Mode.
StoreResult ==
  /\ pc = "storing"
  /\ \/ /\ SaveSucceeds(mem)
        /\ IF mem.actions[cur].state = "Uncertain"
           THEN pc' = "giveup" /\ cur' = cur
           ELSE pc' = "next" /\ cur' = cur + 1
        /\ UNCHANGED <<mem, plan, ok, exit>>
     \/ /\ SaveFails
        /\ Return("failed")
  /\ UNCHANGED <<system, sessions, priorityEdits, serviceEdits>>

EnterDone ==
  /\ pc = "next"
  /\ cur = Len(plan) + 1
  /\ Return("ok")
  /\ UNCHANGED <<journal, system, counters>>
-----------------------------------------------------------------------------
(***************************************************************************)
(* coding exit, recovery restore                                           *)
(***************************************************************************)

RestoreBegin ==
  /\ pc = "idle"
  /\ HasActiveSession
  /\ Loadable(disk)
  /\ LET s == [disk EXCEPT !.state = "Recovering"]
     IN \/ /\ SaveSucceeds(s)
           /\ mem' = s
           /\ pc' = "undo"
           /\ cur' = Len(s.actions)
           /\ UNCHANGED <<plan, ok, exit>>
        \/ /\ SaveFails
           /\ Return("failed")
  /\ UNCHANGED <<system, sessions, priorityEdits, serviceEdits>>

Undoing == pc = "undo" /\ cur > 0

\* Rollback has nothing to do for a record in a final state.
UndoNothing ==
  /\ Undoing
  /\ ~Open(mem.actions[cur])
  /\ pc' = "undone"
  /\ UNCHANGED <<journal, mem, plan, cur, ok, exit, system, counters>>

\* RestorePriority leaves alone whoever holds the PID now if it is not the
\* process the plan named: that one took the modified state with it.  It has to
\* open the process to see that, and calls it a failure when it may not.
RestorePriority ==
  /\ Undoing
  /\ Open(mem.actions[cur])
  /\ mem.actions[cur].target \in PriorityTargets
  /\ LET r == mem.actions[cur]
     IN \/ /\ SameProcess(r.target)
           /\ prio' = [prio EXCEPT ![r.target] = r.original]
           /\ owed' = [owed EXCEPT ![r.target] = NoValue]
           /\ SetCurrent("RolledBack", r.original)
           /\ UNCHANGED <<ok, faults>>
        \/ /\ ~SameProcess(r.target)
           /\ holder[r.target] # "protected"
           /\ SetCurrent("RolledBack", r.original)
           /\ UNCHANGED <<prio, owed, ok, faults>>
        \/ /\ \/ Fault
              \/ holder[r.target] = "protected" /\ UNCHANGED faults
           /\ SetCurrent("Uncertain", r.original)
           /\ ok' = FALSE
           /\ UNCHANGED <<prio, owed>>
  /\ pc' = "undone"
  /\ UNCHANGED <<journal, plan, cur, exit, holder, closes, svc, late,
                 sessions, priorityEdits, serviceEdits>>

\* Mutant: a record is restored without a look at its value.
UndoPriorityUnchecked == RestorePriority

UndoPriority ==
  /\ Undoing
  /\ mem.actions[cur].original \in Priorities
  /\ RestorePriority

\* "action has no reversible priority payload": whether the process was changed
\* or not, and whether it is still there or not, the record stays uncertain.
UndoWithoutValue ==
  /\ Undoing
  /\ Open(mem.actions[cur])
  /\ mem.actions[cur].target \in PriorityTargets
  /\ mem.actions[cur].original \notin Priorities
  /\ SetCurrent("Uncertain", mem.actions[cur].original)
  /\ ok' = FALSE
  /\ pc' = "undone"
  /\ UNCHANGED <<journal, plan, cur, exit, system, counters>>

LeaveClosed(state, success) ==
  /\ Undoing
  /\ Open(mem.actions[cur])
  /\ mem.actions[cur].target \in CloseTargets
  /\ SetCurrent(state, mem.actions[cur].original)
  /\ ok' = success
  /\ pc' = "undone"
  /\ UNCHANGED <<journal, plan, cur, exit, system, counters>>

\* Mutants: the open request does not fail the restore, is called rolled back,
\* or keeps its Planned state.
UndoCloseForgiven == LeaveClosed("Uncertain", ok)
UndoCloseRolledBack == LeaveClosed("RolledBack", ok)
UndoCloseLeftPlanned == LeaveClosed("Planned", FALSE)

\* A close request is never repeated and never called rolled back.
UndoClose == LeaveClosed("Uncertain", FALSE)

\* StartServiceRestore through the elevated helper.  When the client is not
\* told that the service runs, it may or may not have been started.
UndoService ==
  /\ Undoing
  /\ Open(mem.actions[cur])
  /\ mem.actions[cur].target \in ServiceTargets
  /\ LET r == mem.actions[cur]
         started == /\ svc' = [svc EXCEPT ![r.target] = "Running"]
                    /\ owed' = [owed EXCEPT ![r.target] = NoValue]
     IN \/ /\ started
           /\ SetCurrent("RolledBack", r.original)
           /\ UNCHANGED <<ok, faults>>
        \/ /\ Fault
           /\ started \/ UNCHANGED <<svc, owed>>
           /\ SetCurrent("Uncertain", r.original)
           /\ ok' = FALSE
  /\ pc' = "undone"
  /\ UNCHANGED <<journal, plan, cur, exit, prio, holder, closes, late,
                 sessions, priorityEdits, serviceEdits>>

\* A failed save ends the loop, a failed rollback does not.
StoreUndo ==
  /\ pc = "undone"
  /\ \/ /\ SaveSucceeds(mem)
        /\ pc' = "undo"
        /\ cur' = cur - 1
        /\ UNCHANGED ok
     \/ /\ SaveFails
        /\ pc' = "giveup"
        /\ ok' = FALSE
        /\ UNCHANGED cur
  /\ UNCHANGED <<mem, plan, exit, system, sessions, priorityEdits, serviceEdits>>

\* Mutant: a session is completed although an action was not rolled back.
UndoEndUnchecked ==
  /\ pc = "undo"
  /\ cur = 0
  /\ pc' = "verify"
  /\ UNCHANGED <<journal, mem, plan, cur, ok, exit, system, counters>>

UndoEnd ==
  /\ pc = "undo"
  /\ cur = 0
  /\ pc' = IF ok THEN "verify" ELSE "giveup"
  /\ UNCHANGED <<journal, mem, plan, cur, ok, exit, system, counters>>

ServicesVerified(s) ==
  \A i \in 1..Len(s.actions) :
    (s.actions[i].target \in ServiceTargets /\ s.actions[i].state = "RolledBack")
      => svc[s.actions[i].target] = "Running"

\* RestoreSession queries every restored service; AcknowledgeRecovery only
\* takes a snapshot.
Verify ==
  /\ pc \in {"verify", "ackverify"}
  /\ \/ /\ pc = "verify" => ServicesVerified(mem)
        /\ pc' = "report"
        /\ UNCHANGED faults
     \/ /\ pc = "verify" /\ ~ServicesVerified(mem)
        /\ pc' = "giveup"
        /\ UNCHANGED faults
     \/ /\ Fault
        /\ pc' = "giveup"
  /\ UNCHANGED <<journal, mem, plan, cur, ok, exit, system,
                 sessions, priorityEdits, serviceEdits>>

GiveUp ==
  /\ pc = "giveup"
  /\ SaveSucceeds(InSafeMode(mem)) \/ SaveFails
  /\ Return("failed")
  /\ UNCHANGED <<system, sessions, priorityEdits, serviceEdits>>

\* CompletionReport's own rule for `rollback.complete`.
RollbackComplete(s) ==
  \A i \in 1..Len(s.actions) :
    LET r == s.actions[i]
    IN IF r.target \in Reversible
       THEN r.state \in {"RolledBack", "Rejected", "Failed"}
       ELSE r.state \notin {"Planned", "Uncertain"}

\* SessionManager::Complete writes the report, then removes the session file.
WriteReport ==
  /\ pc = "report"
  /\ \/ /\ reports' = reports \cup
             {[id |-> mem.id, complete |-> RollbackComplete(mem)]}
        /\ pc' = "remove"
        /\ UNCHANGED <<disk, mem, plan, cur, ok, exit, faults>>
     \/ /\ SaveFails
        /\ Return("failed")
  /\ UNCHANGED <<system, sessions, priorityEdits, serviceEdits>>

\* Mutant: success is reported although the session file is still there.
RemoveSessionUnchecked ==
  /\ pc = "remove"
  /\ SaveSucceeds(NoSession) \/ SaveFails
  /\ Return("ok")
  /\ UNCHANGED <<system, sessions, priorityEdits, serviceEdits>>

RemoveSession ==
  /\ pc = "remove"
  /\ \/ SaveSucceeds(NoSession) /\ Return("ok")
     \/ SaveFails /\ Return("failed")
  /\ UNCHANGED <<system, sessions, priorityEdits, serviceEdits>>

-----------------------------------------------------------------------------
(***************************************************************************)
(* recovery acknowledge                                                    *)
(***************************************************************************)

Acknowledgeable(s) ==
  /\ \A i \in 1..Len(s.actions) :
       LET r == s.actions[i]
       IN IF r.target \in Reversible
          THEN r.state \in {"RolledBack", "Rejected", "Failed"}
          ELSE r.state # "Planned"
  /\ \E i \in 1..Len(s.actions) :
       s.actions[i].target \in CloseTargets /\ s.actions[i].state = "Uncertain"

\* Mutant: every record is marked as completed.
AcknowledgedEverything(s) ==
  [s EXCEPT
    !.state = "Recovering",
    !.actions = [i \in 1..Len(s.actions) |->
                   [s.actions[i] EXCEPT !.state = "Completed"]]]

Acknowledged(s) ==
  [s EXCEPT
    !.state = "Recovering",
    !.actions = [i \in 1..Len(s.actions) |->
                   IF /\ s.actions[i].target \in CloseTargets
                      /\ s.actions[i].state = "Uncertain"
                   THEN [s.actions[i] EXCEPT !.state = "Completed"]
                   ELSE s.actions[i]]]

Acknowledge ==
  /\ pc = "idle"
  /\ HasActiveSession
  /\ Loadable(disk)
  /\ Acknowledgeable(disk)
  /\ \/ /\ SaveSucceeds(Acknowledged(disk))
        /\ mem' = Acknowledged(disk)
        /\ pc' = "ackverify"
        /\ UNCHANGED <<plan, cur, ok, exit>>
     \/ /\ SaveFails
        /\ Return("failed")
  /\ UNCHANGED <<system, sessions, priorityEdits, serviceEdits>>
-----------------------------------------------------------------------------
(***************************************************************************)
(* The world around the command.                                           *)
(***************************************************************************)

ProcessExits(t) ==
  /\ holder[t] = "original"
  /\ holder' = [holder EXCEPT ![t] = "none"]
  /\ owed' = [u \in Reversible |-> IF u = t THEN NoValue ELSE owed[u]]
  /\ UNCHANGED <<journal, command, prio, closes, svc, late, counters>>

PidReused(t) ==
  /\ holder[t] = "none"
  /\ \E s \in Strangers : holder' = [holder EXCEPT ![t] = s]
  /\ \E v \in Priorities :
       prio' = [u \in PriorityTargets |-> IF u = t THEN v ELSE prio[u]]
  /\ UNCHANGED <<journal, command, closes, svc, late, owed, counters>>

PriorityEdited(t) ==
  /\ holder[t] = "original"
  /\ priorityEdits < MaxPriorityEdits
  /\ priorityEdits' = priorityEdits + 1
  /\ \E v \in Priorities : prio' = [prio EXCEPT ![t] = v]
  /\ UNCHANGED <<journal, command, holder, closes, svc, late, owed,
                 sessions, faults, serviceEdits>>

ServiceEdited(t) ==
  /\ serviceEdits < MaxServiceEdits
  /\ serviceEdits' = serviceEdits + 1
  /\ IF svc[t] = "Running"
     THEN /\ svc' = [svc EXCEPT ![t] = "Stopped"]
          /\ UNCHANGED owed
     ELSE /\ svc' = [svc EXCEPT ![t] = "Running"]
          /\ owed' = [owed EXCEPT ![t] = NoValue]
  /\ UNCHANGED <<journal, command, prio, holder, closes, late,
                 sessions, faults, priorityEdits>>

HelperStopsLate(t) ==
  /\ t \in late
  /\ late' = late \ {t}
  /\ StopEffect(t) \/ (svc[t] # "Running" /\ UNCHANGED <<svc, owed>>)
  /\ UNCHANGED <<journal, command, prio, holder, closes, counters>>

-----------------------------------------------------------------------------
Enter ==
  \/ EnterBegin \/ EnterAbandon \/ CreateSession \/ RefreshFails
  \/ PreflightRejects \/ PreflightAccepts \/ PreflightUnread
  \/ ExecutePriority \/ ExecuteClose \/ ExecuteStop
  \/ StoreResult \/ EnterDone

Restore ==
  \/ RestoreBegin
  \/ UndoNothing \/ UndoPriority \/ UndoWithoutValue \/ UndoClose \/ UndoService
  \/ StoreUndo \/ UndoEnd
  \/ Verify \/ GiveUp \/ WriteReport \/ RemoveSession

World ==
  \/ \E t \in Processes : ProcessExits(t) \/ PidReused(t)
  \/ \E t \in PriorityTargets : PriorityEdited(t)
  \/ \E t \in ServiceTargets : ServiceEdited(t) \/ HelperStopsLate(t)

Next == Enter \/ Restore \/ Acknowledge \/ Crash \/ World

Spec == Init /\ [][Next]_vars

-----------------------------------------------------------------------------
(***************************************************************************)
(* Properties.                                                             *)
(***************************************************************************)

\* A record has its value, unless the snapshot did not have it and what
\* SetPriority itself has read is not saved yet.
HasValue(r) ==
  /\ r.original # NoValue
  /\ r.original = NoClass => r.target \in PriorityTargets /\ r.state # "Applied"

Journaled(s, t) ==
  \E i \in 1..Len(s.actions) :
    /\ s.actions[i].target = t
    /\ Open(s.actions[i])
    /\ HasValue(s.actions[i])

\* Whatever WorkBoost changed and has not given back is on disk, in a record
\* that Rollback acts on - at every instant, so also when the command dies
\* between the system call and the next save.  The record has the value to
\* restore, but for a priority that the snapshot before the change did not
\* have, until the result of the call is saved.  Without a session file nothing
\* is left to give back.
Covered == \A t \in Reversible : owed[t] # NoValue => Journaled(disk, t)

\* RestoreSession completes a session exactly when CompletionReport, by a rule
\* of its own, calls the rollback complete.
ReportsComplete == \A r \in reports : r.complete

\* Every session the commands save can be loaded by the next command.
SavedSessionLoads == Loadable(disk)

\* WM_CLOSE is requested at most once per session and target, and while the
\* session is open its record admits that it may have been delivered: it is
\* not called Failed, Rejected or RolledBack.
CloseNeverRepeated ==
  \A t \in CloseTargets :
    /\ closes[t] <= 1
    /\ closes[t] = 1 /\ HasActiveSession =>
         \E i \in 1..Len(disk.actions) :
           /\ disk.actions[i].target = t
           /\ disk.actions[i].state \in {"Planned", "Uncertain", "Completed"}

\* `coding enter` reports success only when the outcome of every action is
\* known, `coding exit` and the recovery commands only when no session is left.
SuccessIsHonest ==
  (pc = "idle" /\ exit = "ok" /\ HasActiveSession) =>
    /\ disk.state = "Active"
    /\ \A i \in 1..Len(disk.actions) :
         disk.actions[i].state \in {"Applied", "Completed", "Failed", "Rejected"}

\* A process that took over the PID of a planned one is never touched.
StrangersUntouched ==
  [][\A t \in PriorityTargets :
       (holder[t] \in Strangers /\ holder'[t] = holder[t])
         => prio'[t] = prio[t]]_vars

\* Rollback gives back exactly the priority that SetPriority took away.
GivesBackExactly ==
  [][\A t \in PriorityTargets :
       (owed[t] # NoValue /\ owed'[t] = NoValue /\ holder'[t] = "original")
         => prio'[t] = owed[t]]_vars

\* Once an uncertain outcome is on disk the session takes no further action.
NothingAfterUncertain ==
  [][(/\ disk'.id = disk.id
      /\ \E i \in 1..Len(disk.actions) : disk.actions[i].state = "Uncertain")
       => Len(disk'.actions) = Len(disk.actions)]_vars

\* A record that reached a final state keeps it until the session is closed:
\* nothing is executed again, rolled back again or forgotten.
FinalStatesFinal ==
  [][disk'.id = disk.id =>
       \A i \in 1..Len(disk.actions) :
         ~Open(disk.actions[i]) =>
           disk'.actions[i].state = disk.actions[i].state]_vars

\* The abstract promise: changes only inside a session, and a session is closed
\* only when they have all been undone.
Promise ==
  INSTANCE SessionPromise WITH
    Targets <- Reversible,
    open <- disk.id,
    changed <- {t \in Reversible : owed[t] # NoValue}

PromiseSpec == Promise!Spec

\* Rollback has met a priority record without a value, which it leaves uncertain
\* every time, which is not acknowledged, and which nothing else ever changes.
NothingToRestore ==
  \E i \in 1..Len(disk.actions) :
    /\ disk.actions[i].target \in PriorityTargets
    /\ disk.actions[i].state = "Uncertain"
    /\ disk.actions[i].original = NoClass

\* An unfinished session is eventually closed, whatever crashed before, unless
\* a crash or a failed save left a priority on disk that could not be read.
EventuallyClosed ==
  HasActiveSession ~> (~HasActiveSession \/ NothingToRestore)

\* ARCHITECTURE.md: when recovery fails the session is kept and switched to
\* SafeMode - also when the command ends because SessionManager::Complete has
\* failed.
FailedCompletionIsSafeMode ==
  [][(pc \in {"report", "remove"} /\ pc' = "idle" /\ exit' = "failed") =>
       disk'.state = "SafeMode"]_vars
-----------------------------------------------------------------------------
\* A command that runs is scheduled.  With a session on disk `coding enter` is
\* refused, so the user who wants to go on runs `recovery restore`, and once
\* the tool asks for it, `recovery acknowledge`.
Fairness ==
  /\ WF_vars(pc # "idle" /\ (Enter \/ Restore))
  /\ WF_vars(RestoreBegin)
  /\ SF_vars(Acknowledge)

FairSpec == Spec /\ Fairness
=============================================================================
