------------------------------ MODULE MCPlanCheck ------------------------------
(* Directories that allow, protect, forget and reclassify, and snapshots that *)
(* differ from a common one in one respect each.                              *)
EXTENDS PlanCheck

Rule(class, protection) == [class |-> class, protection |-> protection]

MCBuiltInRules ==
  [n \in {"codex.exe", "ssh.exe", "dumpcap.exe", "lsass.exe"} |->
     CASE n = "codex.exe"   -> Rule("Development", "Strong")
       [] n = "ssh.exe"     -> Rule("RemoteTerminal", "Strong")
       [] n = "dumpcap.exe" -> Rule("PacketCapture", "Strong")
       [] n = "lsass.exe"   -> Rule("System", "SystemCritical")]

MCDefaultRules ==
  [n \in {"chrome.exe"} |-> Rule("Browser", "Normal")]

MCBuiltInServices == [n \in {"rpcss"} |-> Rule("System", "SystemCritical")]
MCDefaultRaise == [n \in {"codex.exe"} |-> "above_normal"]
MCDefaultProtect == {"ssh.exe"}

NoProfiles == [raise |-> Absent, protect |-> Absent, close |-> Absent,
               lower |-> Absent, protectServices |-> Absent, stop |-> Absent]

Nothing == [diagnosis |-> Absent, profiles |-> Absent, processRules |-> Absent,
            serviceRules |-> Absent, settings |-> Absent]

\* What a user may sensibly want.
Sensible ==
  [diagnosis |-> [interval |-> 50, ports |-> {2222}],
   profiles |-> [NoProfiles EXCEPT !.lower = {"chrome.exe"}, !.close = {"chat.exe"},
                                   !.stop = {"updater"}],
   processRules |-> [n \in {"chat.exe"} |-> Rule("Communication", "Nromal")],
   serviceRules |-> [n \in {"updater"} |-> Rule("Updater", "Optimizable")],
   settings |-> [language |-> "zh"]]

\* Everything allowed, built-in names reclassified, protection forgotten.
Reckless ==
  [diagnosis |-> [interval |-> 99999, ports |-> {0, 65536}],
   profiles |->
     [raise |-> [n \in {"codex.exe", "chrome.exe"} |->
                   IF n = "codex.exe" THEN "normal" ELSE "high"],
      protect |-> {}, close |-> {"ssh.exe", "lsass.exe", "dumpcap.exe", "tool.exe"},
      lower |-> {"codex.exe", "ssh.exe", "chat.exe", "dumpcap.exe", "cap.exe"},
      protectServices |-> {}, stop |-> {"updater", "rpcss"}],
   processRules |-> [n \in {"ssh.exe", "codex.exe", "dumpcap.exe", "cap.exe"} |->
                       IF n = "cap.exe" THEN Rule("PacketCapture", "Optimizable")
                                        ELSE Rule("CloudSync", "Optimizable")],
   serviceRules |-> [n \in {"rpcss", "updater"} |-> Rule("Updater", "Optimizable")],
   settings |-> [language |-> "xx"]]

Protecting ==
  [Nothing EXCEPT !.profiles = [NoProfiles EXCEPT !.protect = {"chrome.exe", "codex.exe"},
                                                  !.protectServices = {"updater"}]]

Damaged == [Sensible EXCEPT !.profiles = Bad]

MCDirectories == {Nothing, Sensible, Reckless, Protecting, Damaged}

Process(pid, name) ==
  [pid |-> pid, start |-> 1, name |-> name, priority |-> "normal",
   visible |-> TRUE, foreground |-> FALSE]

Updater == [name |-> "updater", pid |-> 30, state |-> "Running", token |-> "t",
            acceptsStop |-> TRUE, blocked |-> FALSE]

Base(name) ==
  [processes |-> {Process(10, name)}, sessions |-> {}, services |-> {Updater},
   processesComplete |-> TRUE, tcpComplete |-> TRUE, servicesComplete |-> TRUE]

Subject(p) == [Base("chrome.exe") EXCEPT !.processes = {p}]
Service(v) == [Base("chrome.exe") EXCEPT !.services = {v}]
Session(s, pid, port, state) ==
  [s EXCEPT !.sessions = {[pid |-> pid, port |-> port, state |-> state]}]

MCSnapshots ==
  {Base(n) : n \in {"chrome.exe", "chat.exe", "ssh.exe", "codex.exe", "lsass.exe",
                    "tool.exe"}}
  \cup {Session(Base("chat.exe"), 10, 22, "Established"),
        Session(Base("chrome.exe"), 10, 2222, "Established"),
        Session(Base("chrome.exe"), 10, 23, "Closing"),
        Session(Base("chrome.exe"), 30, 23, "Established"),
        Session(Service([Updater EXCEPT !.state = "Stopped", !.pid = 0,
                                 !.acceptsStop = FALSE]),
                30, 22, "Established")}
  \cup {Subject([Process(10, "chrome.exe") EXCEPT !.start = 2]),
        Subject([Process(10, "chat.exe") EXCEPT !.foreground = TRUE]),
        Subject([Process(10, "codex.exe") EXCEPT !.priority = "high"]),
        Subject([Process(10, "chrome.exe") EXCEPT !.priority = "idle"]),
        Subject(Process(4, "chrome.exe"))}
  \cup {[Base("chrome.exe") EXCEPT !.processes = {Process(10, "cap.exe")}
                                     \cup {Process(11, "dumpcap.exe")}],
        [Base("chat.exe") EXCEPT !.processesComplete = FALSE],
        [Base("chrome.exe") EXCEPT !.tcpComplete = FALSE],
        [Base("chrome.exe") EXCEPT !.servicesComplete = FALSE]}
  \cup {Service([Updater EXCEPT !.token = "other"]),
        Service([Updater EXCEPT !.state = "StartPending"]),
        Service([Updater EXCEPT !.blocked = TRUE]),
        Service([Updater EXCEPT !.name = "rpcss"])}
=============================================================================
