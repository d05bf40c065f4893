------------------------------- MODULE PlanCheck -------------------------------
(***************************************************************************)
(* From the configuration files to the actions: `coding enter` loads its   *)
(* layers one after the other, samples, plans, and checks every action     *)
(* against a later sample.  For a service the elevated helper then loads   *)
(* the layers it trusts and decides again, to stop it and later to restore *)
(* it.  Between any two of these steps the system may look quite different *)
(* in every respect.                                                       *)
(***************************************************************************)
EXTENDS ProtectionRules

CONSTANTS
  Directories,            \* contents of a configuration directory
  Snapshots               \* samples of the system

\* PIDs are numbers, and a stopped service has no process (process 0 is left
\* out of the snapshots, and no established session belongs to it).
ASSUME SnapshotsAssumption ==
  \A s \in Snapshots :
    /\ \A p \in s.processes : p.pid \in Int
    /\ \A v \in s.services : v.state = "Stopped" =>
         /\ \A t \in s.sessions : t.state = "Established" => t.pid # v.pid
         /\ \A p \in s.processes : p.pid # v.pid

VARIABLES
  stage,                  \* the step of the command
  dirs,                   \* directories: beside the executable, current, user
  config,                 \* configuration of the command
  planned,                \* snapshot the plan was made of
  plan,                   \* actions of the plan
  snapshot,               \* the latest snapshot
  valid,                  \* actions that passed the validator against it
  stopped                 \* name of the service the helper has stopped

vars == <<stage, dirs, config, planned, plan, snapshot, valid, stopped>>

NoSnapshot == [processes |-> {}, sessions |-> {}, services |-> {},
               processesComplete |-> FALSE, tcpComplete |-> FALSE,
               servicesComplete |-> FALSE]

Init ==
  /\ stage = "executable"
  /\ dirs \in [executable : Directories, current : Directories, user : Directories]
  /\ config = Defaults
  /\ planned = NoSnapshot
  /\ plan = {}
  /\ snapshot = NoSnapshot
  /\ valid = {}
  /\ stopped = "none"

\* LoadConfig takes the warnings of a layer and goes on.
LoadLayer(from, to) ==
  /\ stage = from
  /\ stage' = to
  /\ config' = LoadDirectory(config, dirs[from])
  /\ UNCHANGED <<dirs, planned, plan, snapshot, valid, stopped>>

LoadExecutable == LoadLayer("executable", "current")
LoadCurrent == LoadLayer("current", "user")
LoadUser == LoadLayer("user", "sample")

\* The option --config names the only directory.
LoadOption ==
  /\ stage = "executable"
  /\ stage' = "sample"
  /\ config' = LoadDirectory(config, dirs.current)
  /\ UNCHANGED <<dirs, planned, plan, snapshot, valid, stopped>>

\* The user confirms every stop of a service.
Confirmed(a) == IF a.type = "stop" THEN [a EXCEPT !.confirmed = TRUE] ELSE a

MakePlan ==
  /\ stage = "sample"
  /\ stage' = "planned"
  /\ planned' \in Snapshots
  /\ snapshot' = planned'
  /\ plan' = {Confirmed(a) : a \in Create(config, planned')}
  /\ UNCHANGED <<dirs, config, valid, stopped>>

\* Before an action a new sample is taken and the action validated against it.
Check ==
  /\ stage = "planned"
  /\ stage' = "checked"
  /\ snapshot' \in Snapshots
  /\ valid' = {a \in plan : Validate(config, snapshot', a)}
  /\ UNCHANGED <<dirs, config, planned, plan, stopped>>

Trusted == LoadTrusted(dirs.executable, dirs.user)

\* HandleElevatedRequest for a stop, with a sample of its own; the plan is of no
\* further use.
HelperStops ==
  /\ stage = "checked"
  /\ TrustedOk(dirs.executable, dirs.user)
  /\ snapshot' \in Snapshots
  /\ Protectable(snapshot')
  /\ \E a \in valid, v \in snapshot'.services :
       /\ a.type = "stop" /\ v.name = a.name /\ v.token = a.token
       /\ CanStopTemporary(Trusted, snapshot', v)
       /\ stopped' = v.name
  /\ stage' = "stopped"
  /\ planned' = NoSnapshot /\ plan' = {} /\ valid' = {}
  /\ UNCHANGED <<dirs, config>>

\* Much later the service is to be restored.
TimePasses ==
  /\ stage = "stopped"
  /\ stage' = "restoring"
  /\ snapshot' \in Snapshots
  /\ UNCHANGED <<dirs, config, planned, plan, valid, stopped>>

Next ==
  \/ LoadExecutable \/ LoadCurrent \/ LoadUser \/ LoadOption
  \/ MakePlan \/ Check
  \/ HelperStops \/ TimePasses

Spec == Init /\ [][Next]_vars

-----------------------------------------------------------------------------
(***************************************************************************)
(* Properties.                                                             *)
(***************************************************************************)

Protected(c, s, pid) ==
  \/ \E t \in s.sessions :
       t.pid = pid /\ t.state = "Established" /\ t.port \in BaselinePorts
  \/ \E p, q \in s.processes :
       /\ p.name = "dumpcap.exe"
       /\ q.pid = pid /\ ClassOf(c, q) = "PacketCapture"

\* A process that is lowered or closed after validation is, at that moment and
\* in a complete inventory, the planned one, no system process, without a
\* session to an ssh or telnet port and not capturing packets, has no built-in
\* name, and the user does not protect it: whatever the files say, and whatever
\* has changed since the plan.
TakesOnlyTheUnprotected ==
  stage = "checked" =>
    \A a \in valid :
      a.type \in {"close", "priority"} =>
        \E p \in snapshot.processes :
          /\ p.pid = a.pid /\ p.start = a.start
          /\ p.name \notin config.protect
          /\ \/ /\ a.type = "priority"
                /\ PriorityRank(a.target) > PriorityRank(p.priority)
                /\ ClassOf(config, p) = "Development"
             \/ /\ snapshot.processesComplete /\ snapshot.tcpComplete
                /\ p.pid > 4
                /\ p.name \notin DOMAIN BuiltInRules
                /\ ~Protected(config, snapshot, p.pid)

\* A service that is stopped has none of the built-in names or blocked words,
\* does not host a protected session or, by the rules of the files that the helper
\* trusts, a capture, and an allowlist names it, in those files too.
StopsOnlyTheUnprotected ==
  stage = "stopped" =>
    \E v \in snapshot.services :
      /\ v.name = stopped
      /\ v.name \notin DOMAIN BuiltInServices
      /\ ~v.blocked
      /\ ~Protected(Trusted, snapshot, v.pid)
      /\ v.name \in config.stop \cap Trusted.stop

\* The planner and the validator are two implementations of one policy: what
\* is planned passes against the same snapshot.  The exceptions are targets
\* outside the validator's allowlist, raises that do not raise and reductions
\* that do not reduce, and stops with an incomplete inventory.
PlanPasses ==
  stage = "planned" =>
    \A a \in plan :
      \/ Validate(config, planned, a)
      \/ a.type = "priority" /\ a.target \in {"idle", "high", "realtime"}
      \/ /\ a.type = "priority"
         /\ (RuleFor(config, a.name).class = "Development")
              # (PriorityRank(a.target) > PriorityRank(a.source))
      \/ /\ a.type = "stop"
         /\ ~(Protectable(planned) /\ planned.servicesComplete)

\* What the helper allowed to stop it allows to restore as long as the trusted
\* files stay: a stopped service has no process, so no session can protect it.
StoppedCanBeRestored ==
  stage = "restoring" =>
    \A v \in snapshot.services :
      v.name = stopped /\ v.state = "Stopped" /\ v.token # "none" /\ ~v.blocked
        => CanRestore(Trusted, snapshot, v)

\* No layer can take the baseline ports away or give a built-in name another
\* rule.
BaselineKept ==
  /\ BaselinePorts \subseteq config.ports
  /\ \A n \in DOMAIN BuiltInRules : RuleFor(config, n) = BuiltInRules[n]
  /\ \A n \in DOMAIN BuiltInServices :
       ServiceRuleFor(config, n) = BuiltInServices[n]

=============================================================================
