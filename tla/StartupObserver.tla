--------------------------- MODULE StartupObserver ---------------------------
(***************************************************************************)
(* StartupBenchmarkApi::ObserveNewProcess: waits for a new process with a  *)
(* given name and for its first responsive window, while processes start,  *)
(* end, give their PIDs to others and open their windows.                  *)
(***************************************************************************)
EXTENDS Integers, SequencesExt

CONSTANTS
  ObservedPids,           \* numbers a process can have
  MaxBegun, MaxPolls, MaxDenied     \* bounds

ASSUME ObserverAssumption ==
  /\ IsFiniteSet(ObservedPids)
  /\ {MaxBegun, MaxPolls, MaxDenied} \subseteq Nat

VARIABLES
  present,                \* the process of each PID, if there is one
  begun,                  \* processes so far, and the last start time
  observer,
  denied,                 \* auxiliary: processes whose start was not told
  changed                 \* auxiliary: PIDs that changed hands since the snapshot

observerVars == <<present, begun, observer, denied, changed>>

Nobody == [start |-> 0]
Present == {p \in ObservedPids : present[p] # Nobody}
IdentityOf(p) == <<p, present[p].start>>

NothingReported == [status |-> "none"]

ObserverInit ==
  /\ begun = Cardinality(ObservedPids) /\ denied = {} /\ changed = {}
  /\ \E named \in SUBSET ObservedPids :
       present = [p \in ObservedPids |->
         [start |-> 1, named |-> p \in named, window |-> "ready"]]
  /\ observer = [at |-> "initial", unread |-> {}, current |-> {}, existing |-> {},
                 before |-> {}, candidates |-> <<>>, next |-> 1, owner |-> <<>>,
                 polls |-> 0, report |-> NothingReported]

-----------------------------------------------------------------------------
(* Processes and their windows.                                            *)
Begins(p) ==
  /\ p \notin Present /\ begun < MaxBegun
  /\ begun' = begun + 1
  /\ \E named \in BOOLEAN :
       present' = [present EXCEPT ![p] =
         [start |-> begun', named |-> named, window |-> "none"]]
  /\ UNCHANGED <<observer, denied, changed>>

Ends(p) ==
  /\ p \in Present
  /\ present' = [present EXCEPT ![p] = Nobody]
  /\ changed' = changed \cup {p}
  /\ UNCHANGED <<begun, observer, denied>>

Shows(p) ==
  /\ p \in Present
  /\ \E window \in {"hung", "ready"} \ {present[p].window} :
       present' = [present EXCEPT ![p].window = window]
  /\ UNCHANGED <<begun, observer, denied, changed>>

-----------------------------------------------------------------------------
(* The observer.                                                           *)
Goes(fields) ==
  observer' = [f \in DOMAIN observer |->
                 IF f \in DOMAIN fields THEN fields[f] ELSE observer[f]]
Ended(status, id) ==
  Goes([at |-> "done", report |-> [status |-> status, id |-> id, owner |-> observer.owner]])

(* MatchingProcesses: a snapshot of the processes with the name, then the  *)
(* start of whoever has each PID by then.                                  *)
Snapshot ==
  /\ observer.at \in {"initial", "poll", "final"}
  /\ LET named == {p \in Present : present[p].named}
     IN Goes([at |-> IF observer.at = "initial" THEN "starts"
                     ELSE IF observer.at = "poll" THEN "poll starts" ELSE "final starts",
              unread |-> named, current |-> {},
              before |-> IF observer.at = "initial" THEN {IdentityOf(p) : p \in named}
                         ELSE observer.before])
  /\ changed' = {}
  /\ UNCHANGED <<present, begun, denied>>

SnapshotFails ==
  /\ observer.at \in {"initial", "poll", "final"}
  /\ Cardinality(denied) < MaxDenied /\ denied' = denied \cup {<<0, observer.polls>>}
  /\ Ended("QueryFailed", <<>>)
  /\ UNCHANGED <<present, begun, changed>>

ReadStart(p) ==
  /\ p \in observer.unread
  /\ \/ /\ Goes([unread |-> observer.unread \ {p},
                 current |-> observer.current
                             \cup (IF p \in Present THEN {IdentityOf(p)} ELSE {})])
        /\ UNCHANGED denied
     \/ /\ p \in Present /\ Cardinality(denied) < MaxDenied
        /\ denied' = denied \cup {IdentityOf(p)}
        /\ Goes([unread |-> observer.unread \ {p}])
  /\ UNCHANGED <<present, begun, changed>>

Ready ==
  /\ observer.at = "starts" /\ observer.unread = {}
  /\ Goes([at |-> "loop", existing |-> observer.current])
  /\ UNCHANGED <<present, begun, denied, changed>>

Polls ==
  /\ observer.at = "loop" /\ observer.polls < MaxPolls
  /\ Goes([at |-> "poll", polls |-> observer.polls + 1])
  /\ UNCHANGED <<present, begun, denied, changed>>

\* The deadline, which may pass before the first poll.
TimeIsUp ==
  /\ observer.at = "loop"
  /\ IF observer.candidates = <<>> THEN Ended("TimedOut", <<>>) ELSE Goes([at |-> "final"])
  /\ UNCHANGED <<present, begun, denied, changed>>

\* `sure` is auxiliary: its PID has not changed hands while it was listed.
NewCandidates ==
  LET known == observer.existing \cup {c.id : c \in Range(observer.candidates)}
  IN {[id |-> id, visible |-> FALSE, sure |-> id[1] \notin changed] :
        id \in observer.current \ known}

AddCandidates ==
  /\ observer.at = "poll starts" /\ observer.unread = {}
  /\ \E new \in SetToSeqs(NewCandidates) :
       Goes([at |-> "windows", next |-> 1, candidates |-> observer.candidates \o new])
  /\ UNCHANGED <<present, begun, denied, changed>>

Candidate == observer.candidates[observer.next]

\* Mutant of StillRunning: the list of the poll is not consulted.
StillRunningOnce(id) == id \in observer.current \cup {c.id : c \in Range(observer.candidates)}

StillRunning(id) == id \in observer.current

\* Finds the window that the PID of the candidate has by now.
FindWindow ==
  /\ observer.at = "windows"
  /\ IF observer.next > Len(observer.candidates) THEN Goes([at |-> "loop"])
     ELSE LET p == Candidate.id[1]
          IN IF StillRunning(Candidate.id) /\ p \in Present /\ present[p].window # "none"
               THEN Goes([at |-> "respond", owner |-> IdentityOf(p),
                          candidates |-> [observer.candidates EXCEPT ![observer.next].visible = TRUE]])
               ELSE Goes([next |-> observer.next + 1])
  /\ UNCHANGED <<present, begun, denied, changed>>

Responds ==
  /\ observer.at = "respond"
  /\ LET p == observer.owner[1]
     IN IF p \in Present /\ IdentityOf(p) = observer.owner /\ present[p].window = "ready"
          THEN Ended("Succeeded", Candidate.id)
          ELSE Goes([at |-> "windows", next |-> observer.next + 1])
  /\ UNCHANGED <<present, begun, denied, changed>>

FirstVisible == SelectInSeq(observer.candidates, LAMBDA c : c.visible)
FirstRunning == SelectInSeq(observer.candidates, LAMBDA c : StillRunning(c.id))

Concludes ==
  /\ observer.at = "final starts" /\ observer.unread = {}
  /\ \/ /\ FirstVisible # 0
        /\ Ended("WindowUnresponsive", observer.candidates[FirstVisible].id)
     \/ /\ FirstVisible = 0 /\ FirstRunning # 0
        /\ Ended("WindowNotFound", observer.candidates[FirstRunning].id)
     \/ /\ FirstVisible = 0 /\ FirstRunning = 0
        /\ Ended("ProcessExited", observer.candidates[1].id)
  /\ UNCHANGED <<present, begun, denied, changed>>

ObserverNext ==
  \/ \E p \in ObservedPids : Begins(p) \/ Ends(p) \/ Shows(p) \/ ReadStart(p)
  \/ Snapshot \/ SnapshotFails \/ Ready \/ Polls \/ TimeIsUp \/ AddCandidates
  \/ FindWindow \/ Responds \/ Concludes

ObserverSpec == ObserverInit /\ [][ObserverNext]_observerVars

-----------------------------------------------------------------------------
\* A start is measured of a process that was not there before, whose PID has not
\* been taken over by another with its window, and one is reported as exited
\* that is no longer there.  What the code cannot know is left out: a process
\* whose start was not told when it was listed, and a PID that has changed hands
\* since the last list was begun.
ObservedIsNew ==
  LET report == observer.report
      candidate == CHOOSE c \in Range(observer.candidates) : c.id = report.id
  IN /\ report.status = "Succeeded" =>
          /\ report.id \in observer.before => report.id \in denied
          /\ report.id[1] \notin changed => report.owner = report.id
     /\ report.status = "ProcessExited" /\ candidate.sure =>
          report.id \in denied \/ present[report.id[1]].start # report.id[2]

=============================================================================
