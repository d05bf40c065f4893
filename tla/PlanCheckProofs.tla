--------------------------- MODULE PlanCheckProofs ---------------------------
(***************************************************************************)
(* Proofs about PlanCheck for every content of the directories, every      *)
(* snapshot and every table of built-in rules: what the configuration can  *)
(* never change, and whom WorkBoost leaves alone.                          *)
(*                                                                         *)
(* The invariant says which configuration a command can have, that what is *)
(* valid has passed the validator against the snapshot at hand, and that   *)
(* what the helper has stopped it may restore.                             *)
(***************************************************************************)
EXTENDS PlanCheck, TLAPS

Fields == {"ports", "raise", "protect", "close", "lower", "protectServices",
           "stop", "rules", "serviceRules", "interval", "language"}

\* A configuration has the fields of Defaults, and the baseline ports.
IsConfig(c) ==
  /\ c = [field \in Fields |-> c[field]]
  /\ BaselinePorts \subseteq c.ports

\* What CanRestore asks of the name and of the rules.
MayBeRestored(c, name) ==
  /\ ServiceRuleFor(c, name).class \in {"Updater", "CloudSync", "VendorUtility"}
  /\ ServiceRuleFor(c, name).protection = "Optimizable"
  /\ name \notin c.protectServices
  /\ name \in c.stop

PlanInv ==
  /\ IsConfig(config)
  /\ stage \in {"checked", "stopped", "restoring"} => snapshot \in Snapshots
  /\ \A a \in valid : Validate(config, snapshot, a)
  /\ stage \in {"stopped", "restoring"} => MayBeRestored(Trusted, stopped)
  /\ stage = "planned" => plan = {Confirmed(a) : a \in Create(config, planned)}
  /\ stage # "checked" => valid = {}
  /\ StopsOnlyTheUnprotected

-----------------------------------------------------------------------------
\* Defaults is a configuration.
LEMMA DefaultsConfig == IsConfig(Defaults)
<1>1. PICK interval : interval = 1000
  OBVIOUS
<1> DEFINE c == [ports |-> BaselinePorts, raise |-> DefaultRaise,
                 protect |-> DefaultProtect, close |-> {}, lower |-> {},
                 protectServices |-> {}, stop |-> {}, rules |-> DefaultRules,
                 serviceRules |-> <<>>, interval |-> interval, language |-> "en"]
<1>2. Defaults = c
  BY <1>1 DEF Defaults
<1>3. c = [field \in Fields |-> c[field]]
  BY ONLY Zenon DEF Fields
<1>4. BaselinePorts \subseteq c.ports
  BY ONLY Zenon
<1> HIDE DEF c
<1>5. QED
  BY <1>2, <1>3, <1>4, Zenon DEF IsConfig

\* Loading a directory, whatever is in it, gives a configuration again.
LEMMA LoadKeepsConfig ==
  ASSUME NEW c, NEW dir, IsConfig(c)
  PROVE  IsConfig(LoadDirectory(c, dir))
<1>1. ASSUME NEW d, NEW file, IsConfig(d)
      PROVE  /\ IsConfig(LoadDiagnosis(d, file))
             /\ IsConfig(LoadProfiles(d, file))
             /\ IsConfig(LoadProcessRules(d, file))
             /\ IsConfig(LoadServiceRules(d, file))
             /\ IsConfig(LoadSettings(d, file))
  <2>1. IsConfig(LoadDiagnosis(d, file))
    <3> DEFINE interval == IF file.interval = Absent THEN d.interval
                           ELSE Clamp(file.interval, 100, 60000)
               ports == IF file.ports = Absent THEN d.ports ELSE LoadPortSet(file.ports)
    <3>1. BaselinePorts \subseteq ports
      BY <1>1 DEF IsConfig, LoadPortSet
    <3>2. LoadDiagnosis(d, file) = [[d EXCEPT !.interval = interval] EXCEPT !.ports = ports]
      BY <1>1 DEF LoadDiagnosis, IsConfig, Fields
    <3> HIDE DEF interval, ports
    <3> QED BY <1>1, <3>1, <3>2 DEF IsConfig, Fields
  <2>2. IsConfig(LoadProfiles(d, file))
    BY <1>1 DEF IsConfig, Fields, LoadProfiles
  <2>3. IsConfig(LoadProcessRules(d, file))
    BY <1>1 DEF IsConfig, Fields, LoadProcessRules
  <2>4. IsConfig(LoadServiceRules(d, file))
    BY <1>1 DEF IsConfig, Fields, LoadServiceRules
  <2>5. IsConfig(LoadSettings(d, file))
    BY <1>1 DEF IsConfig, Fields, LoadSettings
  <2> QED BY <2>1, <2>2, <2>3, <2>4, <2>5
<1> DEFINE c1 == IF HasContent(dir.diagnosis) THEN LoadDiagnosis(c, dir.diagnosis) ELSE c
           c2 == IF HasContent(dir.profiles) THEN LoadProfiles(c1, dir.profiles) ELSE c1
           c3 == IF HasContent(dir.processRules)
                   THEN LoadProcessRules(c2, dir.processRules) ELSE c2
           c4 == IF HasContent(dir.serviceRules)
                   THEN LoadServiceRules(c3, dir.serviceRules) ELSE c3
<1>2. IsConfig(c1) BY <1>1
<1> HIDE DEF c1
<1>3. IsConfig(c2) BY <1>1, <1>2
<1> HIDE DEF c2
<1>4. IsConfig(c3) BY <1>1, <1>3
<1> HIDE DEF c3
<1>5. IsConfig(c4) BY <1>1, <1>4
<1> HIDE DEF c4
<1>6. IsConfig(IF HasContent(dir.settings) THEN LoadSettings(c4, dir.settings) ELSE c4)
  BY <1>1, <1>5
<1> QED BY <1>6 DEF LoadDirectory, c1, c2, c3, c4

\* A service that may be stopped is not protected in any way, and its name and
\* rules allow the restore.
LEMMA StoppableService ==
  ASSUME NEW c, NEW s, NEW v, CanStopTemporary(c, s, v)
  PROVE  /\ v.state = "Running" /\ ~v.blocked
         /\ v.pid \notin RemoteSessionPids(c, s) \cup ActiveCapturePids(c, s)
         /\ v.name \notin DOMAIN BuiltInServices
         /\ MayBeRestored(c, v.name)
<1>1. /\ v.state = "Running"
      /\ ServiceRuleFor(c, v.name).class \in {"Updater", "CloudSync", "VendorUtility"}
      /\ EvaluateService(c, s, v) = "Optimizable"
      /\ v.name \in c.stop
  BY DEF CanStopTemporary, CanRestore
<1>2. /\ ~v.blocked
      /\ v.pid \notin RemoteSessionPids(c, s) \cup ActiveCapturePids(c, s)
      /\ v.name \notin c.protectServices
      /\ ServiceRuleFor(c, v.name).protection = "Optimizable"
  BY <1>1 DEF EvaluateService
<1>3. v.name \notin DOMAIN BuiltInServices
  BY <1>1, BuiltInAssumption DEF ServiceRuleFor
<1> QED BY <1>1, <1>2, <1>3 DEF MayBeRestored

\* A name without protection has no built-in rule, its process no session to a
\* baseline port and no capture.
LEMMA UnprotectedProcess ==
  ASSUME NEW c, NEW s, NEW p, IsConfig(c), p.pid \in Int,
         Evaluate(c, s, p) \notin {"SystemCritical", "UserExplicit", "Strong"}
  PROVE  /\ p.pid > 4 /\ p.name \notin c.protect
         /\ p.name \notin DOMAIN BuiltInRules
         /\ ~Protected(c, s, p.pid)
<1>1. /\ ~(p.pid <= 4) /\ p.name \notin c.protect
      /\ ClassOf(c, p) \notin {"System", "Security"}
      /\ p.pid \notin RemoteSessionPids(c, s) \cup ActiveCapturePids(c, s)
      /\ ClassOf(c, p) \notin WorkClasses
  BY DEF Evaluate
<1>2. p.name \notin DOMAIN BuiltInRules
  BY <1>1, BuiltInAssumption DEF ClassOf, RuleFor
<1>3. ~Protected(c, s, p.pid)
  BY <1>1 DEF Protected, RemoteSessionPids, ActiveCapturePids, IsConfig
<1> QED BY <1>1, <1>2, <1>3

-----------------------------------------------------------------------------
\* The helper stops a service that the command's files and its own allow, and
\* that nothing protects in its snapshot.
LEMMA HelperStopsUnprotected ==
  ASSUME PlanInv, HelperStops
  PROVE  MayBeRestored(Trusted, stopped') /\ StopsOnlyTheUnprotected'
<1>1. PICK a \in valid, v \in snapshot'.services :
        /\ a.type = "stop" /\ v.name = a.name
        /\ CanStopTemporary(Trusted, snapshot', v) /\ stopped' = v.name
  BY DEF HelperStops
<1>2. /\ ~v.blocked
      /\ v.pid \notin RemoteSessionPids(Trusted, snapshot') \cup ActiveCapturePids(Trusted, snapshot')
      /\ v.name \notin DOMAIN BuiltInServices
      /\ MayBeRestored(Trusted, v.name)
  BY <1>1, StoppableService
<1>3. v.name \in config.stop
  <2>1. ValidStop(config, snapshot, a)
    BY <1>1 DEF PlanInv, Validate
  <2>2. PICK w \in snapshot.services : w.name = a.name /\ CanStopTemporary(config, snapshot, w)
    BY <2>1 DEF ValidStop
  <2> QED BY <1>1, <2>2, StoppableService DEF MayBeRestored
<1>4. IsConfig(Trusted)
  BY DefaultsConfig, LoadKeepsConfig DEF Trusted, LoadTrusted
<1>5. ~Protected(Trusted, snapshot', v.pid)
  BY <1>2, <1>4 DEF Protected, RemoteSessionPids, ActiveCapturePids, IsConfig
<1>6. Trusted' = Trusted /\ config' = config
  BY DEF HelperStops, Trusted
<1>7. StopsOnlyTheUnprotected'
  BY <1>1, <1>2, <1>3, <1>5, <1>6 DEF StopsOnlyTheUnprotected, MayBeRestored
<1> QED BY <1>1, <1>2, <1>7

LEMMA PlanInvInit == Init => PlanInv
BY DefaultsConfig DEF Init, PlanInv, StopsOnlyTheUnprotected

LEMMA PlanInvNext == PlanInv /\ [Next]_vars => PlanInv'
<1> SUFFICES ASSUME PlanInv, [Next]_vars PROVE PlanInv'
  OBVIOUS
<1> USE DEF PlanInv
<1>1. ASSUME NEW from, NEW to, LoadLayer(from, to), to \in {"current", "user", "sample"},
             from \in {"executable", "current", "user"}
      PROVE  PlanInv'
  <2>1. IsConfig(config') /\ valid' = {} /\ stage' \in {"current", "user", "sample"}
    BY <1>1, LoadKeepsConfig DEF LoadLayer
  <2> QED BY <2>1 DEF StopsOnlyTheUnprotected
<1>2. CASE LoadExecutable
  BY <1>2, <1>1 DEF LoadExecutable
<1>3. CASE LoadCurrent
  BY <1>3, <1>1 DEF LoadCurrent
<1>4. CASE LoadUser
  BY <1>4, <1>1 DEF LoadUser
<1>5. CASE LoadOption
  <2>1. IsConfig(config') /\ valid' = {} /\ stage' = "sample"
    BY <1>5, LoadKeepsConfig DEF LoadOption
  <2> QED BY <2>1 DEF StopsOnlyTheUnprotected
<1>6. CASE MakePlan
  BY <1>6 DEF MakePlan, StopsOnlyTheUnprotected
<1>7. CASE Check
  <2>1. \A a \in valid' : Validate(config', snapshot', a)
    BY <1>7 DEF Check
  <2> QED BY <1>7, <2>1 DEF Check, StopsOnlyTheUnprotected
<1>8. CASE HelperStops
  <2>1. MayBeRestored(Trusted, stopped') /\ StopsOnlyTheUnprotected'
    BY <1>8, HelperStopsUnprotected
  <2>2. Trusted' = Trusted
    BY <1>8 DEF HelperStops, Trusted
  <2> QED BY <1>8, <2>1, <2>2 DEF HelperStops
<1>9. CASE TimePasses
  <2>1. Trusted' = Trusted
    BY <1>9 DEF TimePasses, Trusted
  <2> QED BY <1>9, <2>1 DEF TimePasses, StopsOnlyTheUnprotected
<1>10. CASE UNCHANGED vars
  <2>1. Trusted' = Trusted
    BY <1>10 DEF vars, Trusted
  <2> QED BY <1>10, <2>1 DEF vars, StopsOnlyTheUnprotected
<1> QED
  BY <1>2, <1>3, <1>4, <1>5, <1>6, <1>7, <1>8, <1>9, <1>10 DEF Next

LEMMA PlanInvAlways == Spec => []PlanInv
BY PlanInvInit, PlanInvNext, PTL DEF Spec

-----------------------------------------------------------------------------
\* No layer can take the baseline ports away or give a built-in name another
\* rule, whatever the files contain.
THEOREM BaselineAlwaysKept == Spec => []BaselineKept
<1>1. PlanInv => BaselineKept
  BY DEF PlanInv, IsConfig, BaselineKept, RuleFor, ServiceRuleFor
<1> QED BY <1>1, PlanInvAlways, PTL

\* What has passed the validator is the planned process, unprotected at that
\* moment, for every configuration and every snapshot.
THEOREM TakesOnlyTheUnprotectedAlways == Spec => []TakesOnlyTheUnprotected
<1>1. ASSUME PlanInv, stage = "checked", NEW a \in valid, a.type \in {"close", "priority"}
      PROVE  \E p \in snapshot.processes :
               /\ p.pid = a.pid /\ p.start = a.start
               /\ p.name \notin config.protect
               /\ \/ /\ a.type = "priority"
                     /\ PriorityRank(a.target) > PriorityRank(p.priority)
                     /\ ClassOf(config, p) = "Development"
                  \/ /\ snapshot.processesComplete /\ snapshot.tcpComplete
                     /\ p.pid > 4
                     /\ p.name \notin DOMAIN BuiltInRules
                     /\ ~Protected(config, snapshot, p.pid)
  <2>1. Validate(config, snapshot, a) /\ IsConfig(config) /\ snapshot \in Snapshots
    BY <1>1 DEF PlanInv
  <2>2. \A p \in snapshot.processes : p.pid \in Int
    BY <2>1, SnapshotsAssumption
  <2>3. CASE a.type = "close"
    <3>1. ValidClose(config, snapshot, a)
      BY <2>1, <2>3 DEF Validate
    <3>2. PICK p \in snapshot.processes :
            IsTarget(p, a) /\ CanGracefullyClose(config, snapshot, p)
      BY <3>1 DEF ValidClose
    <3>3. /\ p.pid > 4 /\ p.name \notin config.protect
          /\ p.name \notin DOMAIN BuiltInRules
          /\ ~Protected(config, snapshot, p.pid)
      BY <2>1, <2>2, <3>2, UnprotectedProcess DEF CanGracefullyClose, IsProtected
    <3> QED BY <3>1, <3>2, <3>3 DEF ValidClose, IsTarget, Protectable
  <2>4. CASE a.type = "priority"
    <3>1. ValidPriority(config, snapshot, a)
      BY <2>1, <2>4 DEF Validate
    <3>2. PICK p \in snapshot.processes :
            LET raise == PriorityRank(a.target) > PriorityRank(p.priority)
            IN /\ IsTarget(p, a)
               /\ raise \/ Protectable(snapshot)
               /\ CanChangePriority(config, snapshot, p, raise)
      BY <3>1 DEF ValidPriority
    <3>3. CASE PriorityRank(a.target) > PriorityRank(p.priority)
      <4>1. CanRaise(config, snapshot, p)
        BY <3>2, <3>3 DEF CanChangePriority
      <4>2. ClassOf(config, p) = "Development" /\ p.name \notin config.protect
        BY <4>1, <2>1, <2>2 DEF CanRaise, Evaluate
      <4> QED BY <2>4, <3>2, <3>3, <4>2 DEF IsTarget
    <3>4. CASE ~(PriorityRank(a.target) > PriorityRank(p.priority))
      <4>1. CanLower(config, snapshot, p) /\ Protectable(snapshot)
        BY <3>2, <3>4 DEF CanChangePriority
      <4>2. /\ p.pid > 4 /\ p.name \notin config.protect
            /\ p.name \notin DOMAIN BuiltInRules
            /\ ~Protected(config, snapshot, p.pid)
        BY <2>1, <2>2, <4>1, UnprotectedProcess DEF CanLower
      <4> QED BY <3>2, <4>1, <4>2 DEF IsTarget, Protectable
    <3> QED BY <3>3, <3>4
  <2> QED BY <1>1, <2>3, <2>4
<1>2. PlanInv => TakesOnlyTheUnprotected
  BY <1>1 DEF TakesOnlyTheUnprotected
<1> QED BY <1>2, PlanInvAlways, PTL

\* What is planned passes the validator against the same snapshot, for every
\* configuration: the exceptions of PlanPasses are all there are.
THEOREM PlanAlwaysPasses == Spec => []PlanPasses
<1> DEFINE Passes(a) ==
      \/ Validate(config, planned, a)
      \/ a.type = "priority" /\ a.target \in {"idle", "high", "realtime"}
      \/ /\ a.type = "priority"
         /\ (RuleFor(config, a.name).class = "Development")
              # (PriorityRank(a.target) > PriorityRank(a.source))
      \/ /\ a.type = "stop"
         /\ ~(Protectable(planned) /\ planned.servicesComplete)
<1>1. ASSUME NEW a \in PlanRaise(config, planned)
      PROVE  a.type # "stop" /\ Passes(a)
  <2>1. PICK p \in planned.processes, target \in Priorities :
          /\ a = PriorityAction(p, target)
          /\ p.start # 0 /\ CanRaise(config, planned, p)
    BY DEF PlanRaise, PriorityFromName, CanChangePriority
  <2>2. /\ a.type = "priority" /\ a.target = target /\ a.source = p.priority
        /\ RuleFor(config, a.name).class = "Development" /\ IsTarget(p, a)
    BY <2>1 DEF PriorityAction, CanRaise, ClassOf, IsTarget
  <2>3. CASE PriorityRank(target) > PriorityRank(p.priority) /\ target \notin {"idle", "high", "realtime"}
    <3>1. ValidPriority(config, planned, a)
      BY <2>1, <2>2, <2>3 DEF ValidPriority, Priorities, CanChangePriority
    <3> QED BY <2>2, <3>1 DEF Validate
  <2> QED BY <2>2, <2>3
<1>2. ASSUME NEW a \in PlanLower(config, planned)
      PROVE  a.type # "stop" /\ Passes(a)
  <2>1. PICK p \in planned.processes :
          /\ a = PriorityAction(p, "below_normal")
          /\ p.start # 0 /\ Protectable(planned) /\ CanLower(config, planned, p)
    BY DEF PlanLower, CanChangePriority
  <2>2. /\ a.type = "priority" /\ a.target = "below_normal" /\ a.source = p.priority
        /\ a.name = p.name /\ IsTarget(p, a)
    BY <2>1 DEF PriorityAction, IsTarget
  <2>3. RuleFor(config, a.name).class # "Development"
    BY <2>1, <2>2 DEF CanLower, Evaluate, ClassOf, WorkClasses
  <2>4. CASE ~(PriorityRank(a.target) > PriorityRank(p.priority))
    <3>1. ValidPriority(config, planned, a)
      BY <2>1, <2>2, <2>4 DEF ValidPriority, CanChangePriority
    <3> QED BY <2>2, <3>1 DEF Validate
  <2> QED BY <2>2, <2>3, <2>4
<1>3. ASSUME NEW a \in PlanClose(config, planned)
      PROVE  a.type # "stop" /\ Passes(a)
  <2>1. a.type = "close" /\ ValidClose(config, planned, a)
    BY DEF PlanClose, CloseAction, ValidClose, IsTarget
  <2> QED BY <2>1 DEF Validate
<1>4. ASSUME NEW b \in PlanStop(config, planned)
      PROVE  b.type = "stop" /\ Passes(Confirmed(b))
  <2>1. PICK v \in planned.services : b = StopAction(v) /\ CanStopTemporary(config, planned, v)
    BY DEF PlanStop
  <2>2. /\ b.type = "stop" /\ Confirmed(b).type = "stop" /\ Confirmed(b).confirmed
        /\ Confirmed(b).name = v.name /\ Confirmed(b).token = v.token
    BY <2>1 DEF StopAction, Confirmed
  <2>3. CASE Protectable(planned) /\ planned.servicesComplete
    <3>1. ValidStop(config, planned, Confirmed(b))
      BY <2>1, <2>2, <2>3 DEF ValidStop, CanStopTemporary, CanRestore
    <3> QED BY <2>2, <3>1 DEF Validate
  <2> QED BY <2>2, <2>3
<1>5. ASSUME PlanInv, stage = "planned", NEW a \in plan
      PROVE  Passes(a)
  <2>1. PICK b \in Create(config, planned) : a = Confirmed(b)
    BY <1>5 DEF PlanInv
  <2>2. CASE b \in PlanStop(config, planned)
    BY <1>4, <2>1, <2>2
  <2>3. CASE b \notin PlanStop(config, planned)
    <3>1. b.type # "stop" /\ Passes(b)
      BY <1>1, <1>2, <1>3, <2>3 DEF Create
    <3> QED BY <2>1, <3>1 DEF Confirmed
  <2> QED BY <2>2, <2>3
<1>6. PlanInv => PlanPasses
  BY <1>5 DEF PlanPasses
<1> QED BY <1>6, PlanInvAlways, PTL

\* What the helper has stopped was unprotected when it decided, by its own files
\* and by those of the command.
THEOREM StopsOnlyTheUnprotectedAlways == Spec => []StopsOnlyTheUnprotected
<1>1. PlanInv => StopsOnlyTheUnprotected
  BY DEF PlanInv
<1> QED BY <1>1, PlanInvAlways, PTL

\* What the helper has stopped it may restore, as long as its files stay.
THEOREM StoppedCanAlwaysBeRestored == Spec => []StoppedCanBeRestored
<1>1. ASSUME PlanInv, stage = "restoring", NEW v \in snapshot.services,
             v.name = stopped, v.state = "Stopped", v.token # "none", ~v.blocked
      PROVE  CanRestore(Trusted, snapshot, v)
  <2>1. MayBeRestored(Trusted, v.name) /\ snapshot \in Snapshots
    BY <1>1 DEF PlanInv
  <2>2. v.pid \notin RemoteSessionPids(Trusted, snapshot)
    BY <1>1, <2>1, SnapshotsAssumption DEF RemoteSessionPids
  <2>3. v.pid \notin ActiveCapturePids(Trusted, snapshot)
    BY <1>1, <2>1, SnapshotsAssumption DEF ActiveCapturePids
  <2>4. EvaluateService(Trusted, snapshot, v) = "Optimizable"
    BY <1>1, <2>1, <2>2, <2>3 DEF EvaluateService, MayBeRestored, NeverStopped
  <2> QED BY <1>1, <2>1, <2>4 DEF CanRestore, MayBeRestored
<1>2. PlanInv => StoppedCanBeRestored
  BY <1>1 DEF StoppedCanBeRestored
<1> QED BY <1>2, PlanInvAlways, PTL

=============================================================================
