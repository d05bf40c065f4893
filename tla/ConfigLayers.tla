----------------------------- MODULE ConfigLayers -----------------------------
(***************************************************************************)
(* The configuration: Config::Defaults, LoadDirectory over the files of a  *)
(* directory, the layers that the command line and the elevated helper     *)
(* load, and the lookup of rules.  A file is Absent, Bad (it cannot be     *)
(* read or is no JSON object), or the record of its keys, where a missing  *)
(* key is Absent.                                                          *)
(***************************************************************************)
EXTENDS Integers

CONSTANTS
  Absent, Bad,            \* a file or key that is missing, a file that is bad
  BuiltInRules,           \* rules of RuleFor that no file can change, by name
  DefaultRules,           \* the rules of Defaults
  BuiltInServices,        \* the same for ServiceRuleFor
  DefaultRaise,           \* foreground_priority of Defaults
  DefaultProtect          \* always_protect of Defaults

ProcessClasses == {"System", "Security", "Development", "RemoteTerminal",
                   "SerialTerminal", "PacketCapture", "BuildTool",
                   "VersionControl", "Browser", "Communication", "Office",
                   "Updater", "CloudSync", "VendorUtility", "Unknown"}

ServiceClasses == {"System", "Network", "Security", "RemoteAccess",
                   "PacketCapture", "Device", "Updater", "CloudSync",
                   "VendorUtility", "Unknown"}

ProtectionLevels == {"SystemCritical", "Strong", "UserExplicit", "Normal",
                     "Optimizable"}

WorkClasses == {"Development", "RemoteTerminal", "SerialTerminal",
                "PacketCapture", "BuildTool", "VersionControl"}

Rules == [class : ProcessClasses, protection : ProtectionLevels]
ServiceRules == [class : ServiceClasses, protection : ProtectionLevels]

\* What the tables of RuleFor and ServiceRuleFor have in common.
ASSUME BuiltInAssumption ==
  /\ \A n \in DOMAIN BuiltInRules :
       /\ BuiltInRules[n] \in Rules
       /\ \/ /\ BuiltInRules[n].class \in {"System", "Security"}
             /\ BuiltInRules[n].protection = "SystemCritical"
          \/ /\ BuiltInRules[n].class \in WorkClasses
             /\ BuiltInRules[n].protection = "Strong"
  /\ \A n \in DOMAIN BuiltInServices :
       /\ BuiltInServices[n] \in ServiceRules
       /\ BuiltInServices[n].class
            \notin {"Updater", "CloudSync", "VendorUtility", "Unknown"}

BaselinePorts == {22, 23}
UnknownRule == [class |-> "Unknown", protection |-> "Strong"]

\* The language is the one of Windows, here English.
Defaults ==
  [ports |-> BaselinePorts, raise |-> DefaultRaise, protect |-> DefaultProtect,
   close |-> {}, lower |-> {}, protectServices |-> {}, stop |-> {},
   rules |-> DefaultRules, serviceRules |-> <<>>, interval |-> 1000,
   language |-> "en"]

-----------------------------------------------------------------------------
\* ReadConfig: a file that is missing or bad gives no content.
HasContent(file) == file \notin {Absent, Bad}

\* A key that is missing leaves the value as it was.
Present(file, key, old) == IF file[key] = Absent THEN old ELSE file[key]

Clamp(value, low, high) ==
  IF value < low THEN low ELSE IF value > high THEN high ELSE value

\* Mutant of LoadPortSet: A list of ports replaces the baseline too.
LoadPortSetOnly(listed) == {p \in listed : p > 0 /\ p <= 65535}

\* Ports in the file replace those of earlier layers, never the baseline.
LoadPortSet(listed) == BaselinePorts \cup {p \in listed : p > 0 /\ p <= 65535}

LoadDiagnosis(c, file) ==
  [c EXCEPT
    !.interval = IF file.interval = Absent THEN @
                                           ELSE Clamp(file.interval, 100, 60000),
    !.ports = IF file.ports = Absent THEN @ ELSE LoadPortSet(file.ports)]

\* Each set and the priorities are replaced as a whole.
LoadProfiles(c, file) ==
  [c EXCEPT
    !.raise = Present(file, "raise", @),
    !.protect = Present(file, "protect", @),
    !.close = Present(file, "close", @),
    !.lower = Present(file, "lower", @),
    !.protectServices = Present(file, "protectServices", @),
    !.stop = Present(file, "stop", @)]

\* Rules of a file take the place of earlier ones of the same names.
Over(new, old) ==
  [n \in DOMAIN new \cup DOMAIN old |-> IF n \in DOMAIN new THEN new[n] ELSE old[n]]

\* Words that the code does not know: a misspelt class protects, a misspelt
\* protection counts as Normal.
ProcessRule(text) ==
  [class |-> IF text.class \in ProcessClasses THEN text.class ELSE "Unknown",
   protection |-> IF text.protection \in ProtectionLevels THEN text.protection
                                                          ELSE "Normal"]

ServiceRule(text) ==
  [class |-> IF text.class \in ServiceClasses THEN text.class ELSE "Unknown",
   protection |-> IF text.protection \in ProtectionLevels THEN text.protection
                                                          ELSE "Normal"]

LoadProcessRules(c, file) ==
  [c EXCEPT !.rules = Over([n \in DOMAIN file |-> ProcessRule(file[n])], @)]

LoadServiceRules(c, file) ==
  [c EXCEPT !.serviceRules = Over([n \in DOMAIN file |-> ServiceRule(file[n])], @)]

\* Other values than the two languages are ignored.
LoadSettings(c, file) ==
  [c EXCEPT !.language = IF file.language \in {"en", "zh"} THEN file.language ELSE @]

\* One directory: its five files, in this order.
LoadDirectory(c, dir) ==
  LET c1 == IF HasContent(dir.diagnosis) THEN LoadDiagnosis(c, dir.diagnosis) ELSE c
      c2 == IF HasContent(dir.profiles) THEN LoadProfiles(c1, dir.profiles) ELSE c1
      c3 == IF HasContent(dir.processRules)
              THEN LoadProcessRules(c2, dir.processRules) ELSE c2
      c4 == IF HasContent(dir.serviceRules)
              THEN LoadServiceRules(c3, dir.serviceRules) ELSE c3
  IN IF HasContent(dir.settings) THEN LoadSettings(c4, dir.settings) ELSE c4

\* LoadDirectory returns whether there was nothing to warn of.
Clean(dir) ==
  \A f \in {"diagnosis", "profiles", "processRules", "serviceRules", "settings"} :
    dir[f] # Bad

\* The helper takes the directories beside the executable and of the user,
\* and refuses when one of their files is bad.
LoadTrusted(executableDir, userDir) ==
  LoadDirectory(LoadDirectory(Defaults, executableDir), userDir)
TrustedOk(executableDir, userDir) == Clean(executableDir) /\ Clean(userDir)

-----------------------------------------------------------------------------
\* Built-in names keep their rule in every configuration; other names have the
\* one of the files, or none, which counts as Strong.
RuleFor(c, name) ==
  IF name \in DOMAIN BuiltInRules THEN BuiltInRules[name]
  ELSE IF name \in DOMAIN c.rules THEN c.rules[name]
  ELSE UnknownRule

ServiceRuleFor(c, name) ==
  IF name \in DOMAIN BuiltInServices THEN BuiltInServices[name]
  ELSE IF name \in DOMAIN c.serviceRules THEN c.serviceRules[name]
  ELSE UnknownRule

=============================================================================
