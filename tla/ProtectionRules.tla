---------------------------- MODULE ProtectionRules ----------------------------
(***************************************************************************)
(* What may be done to whom: ProtectionPolicy, ServiceProtectionPolicy,    *)
(* BuildRuntimeContext, OptimizationPlanner::Create and                    *)
(* SafetyValidator::Validate, over a configuration c and a snapshot s.     *)
(*                                                                         *)
(* A snapshot has the sets of processes, sessions and services and whether *)
(* each inventory is complete; names are in lower case.  A plan is the set *)
(* of its actions: they are decided one by one.                            *)
(***************************************************************************)
EXTENDS ConfigLayers

\* The order of the priority classes; a class that the process query could not
\* read is "none" (0), and PriorityRank takes that for normal.
Priorities == {"idle", "below_normal", "normal", "above_normal", "high", "realtime"}

PriorityRank(p) ==
  CASE p = "idle"         -> 0
    [] p = "below_normal" -> 1
    [] p = "above_normal" -> 3
    [] p = "high"         -> 4
    [] p = "realtime"     -> 5
    [] OTHER              -> 2

\* PriorityFromName: other texts give 0.
PriorityFromName(text) == IF text \in Priorities THEN text ELSE "none"

-----------------------------------------------------------------------------
\* Classification is done by the collector, with the rules of its configuration.
ClassOf(c, process) == RuleFor(c, process.name).class

\* BuildRuntimeContext.
RemoteSessionPids(c, s) ==
  {t.pid : t \in {u \in s.sessions :
                    u.state = "Established" /\ u.port \in {22, 23} \cup c.ports}}

ActiveCapturePids(c, s) ==
  IF \E p \in s.processes : p.name = "dumpcap.exe"
    THEN {p.pid : p \in {q \in s.processes : ClassOf(c, q) = "PacketCapture"}}
    ELSE {}

\* ProtectionPolicy::Evaluate.
Evaluate(c, s, p) ==
  IF p.pid <= 4 THEN "SystemCritical"
  ELSE IF p.name \in c.protect THEN "UserExplicit"
  ELSE IF ClassOf(c, p) \in {"System", "Security"} THEN "SystemCritical"
  ELSE IF p.pid \in RemoteSessionPids(c, s) \cup ActiveCapturePids(c, s) THEN "Strong"
  ELSE IF ClassOf(c, p) \in WorkClasses \cup {"Unknown"} THEN "Strong"
  ELSE RuleFor(c, p.name).protection

IsProtected(c, s, p) ==
  Evaluate(c, s, p) \in {"SystemCritical", "Strong", "UserExplicit"}

CanRaise(c, s, p) ==
  /\ Evaluate(c, s, p) \notin {"SystemCritical", "UserExplicit"}
  /\ ClassOf(c, p) = "Development"
  /\ p.name \in DOMAIN c.raise

CanLower(c, s, p) ==
  /\ Evaluate(c, s, p) \notin {"SystemCritical", "UserExplicit", "Strong"}
  /\ p.name \in c.lower

CanChangePriority(c, s, p, raise) ==
  IF raise THEN CanRaise(c, s, p) ELSE CanLower(c, s, p)

CanGracefullyClose(c, s, p) == ~IsProtected(c, s, p) /\ p.name \in c.close

-----------------------------------------------------------------------------
\* ServiceProtectionPolicy.  A service is `blocked` when its name or display
\* name contains one of the keywords.
NeverStopped == {"System", "Network", "Security", "RemoteAccess", "PacketCapture",
                 "Device", "Unknown"}

\* Mutant of EvaluateService: Sessions and captures of the host process do not count.
EvaluateServiceByRule(c, s, v) ==
  LET rule == ServiceRuleFor(c, v.name)
  IN IF \/ rule.protection = "SystemCritical"
        \/ rule.class \in {"System", "Network", "Security"}
       THEN "SystemCritical"
     ELSE IF v.blocked \/ rule.class \in NeverStopped
       THEN "Strong"
     ELSE IF v.name \in c.protectServices THEN "UserExplicit"
     ELSE rule.protection

EvaluateService(c, s, v) ==
  LET rule == ServiceRuleFor(c, v.name)
  IN IF \/ rule.protection = "SystemCritical"
        \/ rule.class \in {"System", "Network", "Security"}
       THEN "SystemCritical"
     ELSE IF \/ v.blocked
             \/ rule.class \in NeverStopped
             \/ v.pid \in RemoteSessionPids(c, s) \cup ActiveCapturePids(c, s)
       THEN "Strong"
     ELSE IF v.name \in c.protectServices THEN "UserExplicit"
     ELSE rule.protection

\* Mutant of CanRestore: A restore asks for a service that accepts stops, as a stop does.
CanRestoreStoppable(c, s, v) ==
  /\ v.token # "none" /\ v.acceptsStop
  /\ ServiceRuleFor(c, v.name).class \in {"Updater", "CloudSync", "VendorUtility"}
  /\ EvaluateService(c, s, v) = "Optimizable"
  /\ v.name \in c.stop

CanRestore(c, s, v) ==
  /\ v.token # "none"
  /\ ServiceRuleFor(c, v.name).class \in {"Updater", "CloudSync", "VendorUtility"}
  /\ EvaluateService(c, s, v) = "Optimizable"
  /\ v.name \in c.stop

CanStopTemporary(c, s, v) ==
  v.state = "Running" /\ v.acceptsStop /\ CanRestore(c, s, v)

-----------------------------------------------------------------------------
\* OptimizationPlanner::Create.
Protectable(s) == s.processesComplete /\ s.tcpComplete

PriorityAction(p, target) ==
  [type |-> "priority", pid |-> p.pid, start |-> p.start, name |-> p.name,
   source |-> p.priority, target |-> target]

CloseAction(p) ==
  [type |-> "close", pid |-> p.pid, start |-> p.start, name |-> p.name]

StopAction(v) ==
  [type |-> "stop", name |-> v.name, token |-> v.token, confirmed |-> FALSE]

\* The first of the three lists that names the process decides.  codex.exe is a
\* target also without a window.
RaiseWanted(c, p) ==
  p.name \in DOMAIN c.raise /\ (p.name = "codex.exe" \/ p.visible \/ p.foreground)
CloseWanted(c, p) == ~RaiseWanted(c, p) /\ p.name \in c.close
LowerWanted(c, p) ==
  ~RaiseWanted(c, p) /\ ~CloseWanted(c, p) /\ p.name \in c.lower

PlanRaise(c, s) ==
  LET target(p) == PriorityFromName(c.raise[p.name])
  IN {PriorityAction(p, target(p)) :
        p \in {q \in s.processes :
                 /\ RaiseWanted(c, q)
                 /\ target(q) # "none"
                 /\ q.start # 0 /\ q.priority # "none"
                 /\ target(q) # q.priority
                 /\ CanChangePriority(c, s, q, TRUE)}}

\* Mutant of PlanClose: The foreground process may be closed.
PlanCloseForeground(c, s) ==
  {CloseAction(p) :
     p \in {q \in s.processes :
              /\ CloseWanted(c, q)
              /\ Protectable(s)
              /\ q.start # 0 /\ q.visible
              /\ CanGracefullyClose(c, s, q)}}

PlanClose(c, s) ==
  {CloseAction(p) :
     p \in {q \in s.processes :
              /\ CloseWanted(c, q)
              /\ Protectable(s)
              /\ q.start # 0
              /\ ~q.foreground /\ q.visible
              /\ CanGracefullyClose(c, s, q)}}

PlanLower(c, s) ==
  {PriorityAction(p, "below_normal") :
     p \in {q \in s.processes :
              /\ LowerWanted(c, q)
              /\ q.priority # "below_normal"
              /\ Protectable(s)
              /\ q.start # 0 /\ q.priority # "none"
              /\ CanChangePriority(c, s, q, FALSE)}}

PlanStop(c, s) ==
  {StopAction(v) :
     v \in {w \in s.services : w.name \in c.stop /\ CanStopTemporary(c, s, w)}}

Create(c, s) ==
  PlanRaise(c, s) \cup PlanClose(c, s) \cup PlanLower(c, s) \cup PlanStop(c, s)

-----------------------------------------------------------------------------
\* SafetyValidator::Validate; s is the snapshot taken before the action.
ValidStop(c, s, a) ==
  /\ a.confirmed
  /\ Protectable(s) /\ s.servicesComplete
  /\ \E v \in s.services :
       /\ v.name = a.name
       /\ v.token # "none" /\ v.token = a.token
       /\ CanStopTemporary(c, s, v)

\* The process of the plan: PID, start time and name agree, and it can be told
\* from others.
IsTarget(p, a) ==
  p.pid = a.pid /\ p.start = a.start /\ p.name = a.name /\ a.start # 0

\* Mutant of ValidPriority: The inventory does not count for priorities.
ValidPriorityAnyInventory(c, s, a) ==
  /\ a.target \in {"below_normal", "normal", "above_normal"}
  /\ \E p \in s.processes :
       LET raise == PriorityRank(a.target) > PriorityRank(p.priority)
       IN IsTarget(p, a) /\ CanChangePriority(c, s, p, raise)

ValidPriority(c, s, a) ==
  /\ a.target \in {"below_normal", "normal", "above_normal"}
  /\ \E p \in s.processes :
       LET raise == PriorityRank(a.target) > PriorityRank(p.priority)
       IN /\ IsTarget(p, a)
          /\ raise \/ Protectable(s)
          /\ CanChangePriority(c, s, p, raise)

ValidClose(c, s, a) ==
  /\ Protectable(s)
  /\ \E p \in s.processes :
       /\ IsTarget(p, a)
       /\ p.visible /\ ~p.foreground
       /\ CanGracefullyClose(c, s, p)

Validate(c, s, a) ==
  CASE a.type = "stop"     -> ValidStop(c, s, a)
    [] a.type = "priority" -> ValidPriority(c, s, a)
    [] a.type = "close"    -> ValidClose(c, s, a)
    [] OTHER               -> FALSE

=============================================================================
