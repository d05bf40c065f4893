------------------------------ MODULE Monitoring ------------------------------
(***************************************************************************)
(* SystemCollector, SnapshotHistory, DiagnosisEngine and the baseline of a *)
(* session: processes work, end and give their PIDs to others while the    *)
(* collector samples them, parts of the inventories fail, and conclusions  *)
(* are drawn from the last samples.                                        *)
(*                                                                         *)
(* Time is counted in sampling intervals and I/O in units of the threshold *)
(* for one interval.  Thresholds of the system and its disks are reached   *)
(* or not in a sample.                                                     *)
(***************************************************************************)
EXTENDS Integers, SequencesExt

CONSTANTS
  Pids,                   \* numbers a process can have
  Background,             \* names of updaters, synchronisers and the like
  Development,            \* names of development tools
  Conditions,             \* what a sample can show of the system
  Capacity,               \* samples in the history
  MaxTime, MaxStarts, MaxFaults     \* bounds

ASSUME MonitoringAssumption ==
  /\ Pids \subseteq Nat \ {0} /\ IsFiniteSet(Pids)
  /\ Background \cap Development = {}
  /\ Capacity \in Nat \ {0}
  /\ {MaxTime, MaxStarts, MaxFaults} \subseteq Nat

VARIABLES
  time,
  world,                  \* the process of each PID, if there is one
  sessions,               \* PIDs with a connection to a protected port
  started,                \* processes started so far, and the last start time
  collector,              \* previous_processes and process_sample_time
  sampling,               \* the snapshot that is being taken
  history,                \* SnapshotHistory, the latest last
  faults                  \* counter for the bound

monitoringVars == <<time, world, sessions, started, collector, sampling, history, faults>>

NoProcess == [start |-> 0]
NoSnapshot == [processes |-> {}]
Running == {p \in Pids : world[p] # NoProcess}

MonitoringInit ==
  /\ time = 0 /\ started = 0 /\ faults = 0
  /\ world = [p \in Pids |-> NoProcess]
  /\ sessions = {}
  /\ collector = [initialized |-> FALSE, at |-> 0, previous |-> <<>>]
  /\ sampling = NoSnapshot
  /\ history = <<>>

-----------------------------------------------------------------------------
(* Processes.  `since` and `from` say what one has done since it was read  *)
(* last, and when that was.                                                *)
Starts(p) ==
  /\ p \notin Running /\ started < MaxStarts
  /\ started' = started + 1
  /\ \E name \in Background \cup Development :
       world' = [world EXCEPT ![p] =
         [start |-> started', name |-> name, io |-> 0, since |-> 0, from |-> time]]
  /\ UNCHANGED <<time, sessions, collector, sampling, history, faults>>

Exits(p) ==
  /\ p \in Running
  /\ world' = [world EXCEPT ![p] = NoProcess]
  /\ sessions' = sessions \ {p}
  /\ UNCHANGED <<time, started, collector, sampling, history, faults>>

Connects(p) ==
  /\ p \in Running \ sessions
  /\ sessions' = sessions \cup {p}
  /\ UNCHANGED <<time, world, started, collector, sampling, history, faults>>

\* An interval passes, in which some processes read or write.
Work ==
  /\ time < MaxTime /\ sampling = NoSnapshot
  /\ time' = time + 1
  /\ \E busy \in SUBSET Running :
       world' = [p \in Pids |-> IF p \in busy
                   THEN [world[p] EXCEPT !.io = @ + 1, !.since = @ + 1]
                   ELSE world[p]]
  /\ UNCHANGED <<sessions, started, collector, sampling, history, faults>>

-----------------------------------------------------------------------------
(* The collector.  A process is read, opened but its I/O counters are not, *)
(* or cannot be opened.                                                    *)
RawCounters(p, query) ==
  [start |-> IF query = "denied" THEN 0 ELSE world[p].start,
   io |-> IF query = "read" THEN world[p].io ELSE 0,
   known |-> query = "read", at |-> time]

\* Mutant of SameProcess: the PID alone identifies a process.
SamePid(p, raw) == p \in DOMAIN collector.previous /\ raw.start # 0

SameProcess(p, raw) ==
  /\ p \in DOMAIN collector.previous
  /\ collector.previous[p].start = raw.start
  /\ raw.start # 0

\* What was done since the previous inventory, 0 when that is not known.
Delta(p, raw) ==
  IF SameProcess(p, raw) /\ raw.io >= collector.previous[p].io
    THEN raw.io - collector.previous[p].io ELSE 0

\* The fields after `protected` are auxiliary: what the process has really done
\* and for how long, and whether all counters were read that the rate is from.
Entry(p, raw, foreground) ==
  [pid |-> p, start |-> raw.start, name |-> world[p].name,
   io |-> Delta(p, raw), elapsed |-> time - collector.at,
   foreground |-> p = foreground, protected |-> FALSE,
   did |-> world[p].since, span |-> time - world[p].from, guarded |-> FALSE,
   exact |-> /\ raw.known
             /\ p \in DOMAIN collector.previous
                => /\ collector.previous[p].known
                   /\ collector.previous[p].at = collector.at]

\* The toolhelp snapshot cannot be taken, ends early, or is whole.  Only the
\* first leaves previous_processes as it was; process_sample_time moves in all
\* three.
Inventory(whole, seen, query) ==
  /\ collector' = [initialized |-> TRUE, at |-> time,
                   previous |-> [p \in seen |-> RawCounters(p, query[p])]]
  /\ world' = [p \in Pids |-> IF p \in seen
                 THEN [world[p] EXCEPT !.since = 0, !.from = time] ELSE world[p]]
  /\ faults' = faults + (IF whole THEN 0 ELSE 1)
                      + Cardinality({p \in seen : query[p] # "read"})

Inventories ==
  {[whole |-> seen = Running, seen |-> seen, query |-> query] :
     seen \in SUBSET Running, query \in [Pids -> {"read", "unread", "denied"}]}

CollectProcesses(i, foreground, condition) ==
  /\ Inventory(i.whole, i.seen, i.query)
  /\ sampling' =
       [complete |-> i.whole, condition |-> condition,
        processes |-> {Entry(p, RawCounters(p, i.query[p]), foreground) : p \in i.seen}]

\* Initialize takes an inventory that nobody sees.
Initialize ==
  /\ ~collector.initialized
  /\ \E i \in Inventories : Inventory(i.whole, i.seen, i.query) /\ faults' <= MaxFaults
  /\ UNCHANGED <<time, sessions, started, sampling, history>>

Sample ==
  /\ collector.initialized /\ sampling = NoSnapshot /\ collector.at < time
  /\ \E i \in Inventories, condition \in Conditions, foreground \in Running \cup {0} :
       CollectProcesses(i, foreground, condition) /\ faults' <= MaxFaults
  /\ UNCHANGED <<time, sessions, started, history>>

SampleWithoutProcesses ==
  /\ collector.initialized /\ sampling = NoSnapshot /\ collector.at < time
  /\ faults < MaxFaults /\ faults' = faults + 1
  /\ collector' = [collector EXCEPT !.at = time]
  /\ \E condition \in Conditions :
       sampling' = [complete |-> FALSE, condition |-> condition, processes |-> {}]
  /\ UNCHANGED <<time, world, sessions, started, history>>

\* SnapshotHistory::Add.
Add(h, snapshot) == Append(IF Len(h) = Capacity THEN Tail(h) ELSE h, snapshot)

\* One of the two tables of connections may be missing.  With the connections
\* the policy sets the protection levels, and the snapshot joins the history.
CollectTcpSessions ==
  /\ sampling # NoSnapshot
  /\ \E seen \in SUBSET sessions, complete \in BOOLEAN :
       /\ IF complete THEN seen = sessions /\ UNCHANGED faults
                      ELSE faults < MaxFaults /\ faults' = faults + 1
       /\ history' = Add(history,
            [complete |-> sampling.complete, tcp |-> complete,
             condition |-> sampling.condition,
             processes |-> {[e EXCEPT !.protected = e.pid \in seen,
                                      !.guarded = e.pid \in sessions] :
                              e \in sampling.processes}])
  /\ sampling' = NoSnapshot
  /\ UNCHANGED <<time, world, sessions, started, collector>>

MonitoringNext ==
  \/ \E p \in Pids : Starts(p) \/ Exits(p) \/ Connects(p)
  \/ Work
  \/ Initialize \/ Sample \/ SampleWithoutProcesses \/ CollectTcpSessions

MonitoringSpec == MonitoringInit /\ [][MonitoringNext]_monitoringVars

-----------------------------------------------------------------------------
(***************************************************************************)
(* DiagnosisEngine::Evaluate over a history h.                             *)
(***************************************************************************)
Samples(h, Test(_)) == Cardinality({i \in DOMAIN h : Test(h[i])})
Complete(s) == s.complete
Protectable(s) == s.complete /\ s.tcp

MinimumEvidence(h) == Max({2, (Len(h) + 1) \div 2})
Sustained(hits, of) == of > 0 /\ 2 * hits >= of

ConfidenceFor(hits, of) ==
  CASE of >= 5 /\ 4 * hits >= 3 * of -> "High"
    [] ~(of >= 5 /\ 4 * hits >= 3 * of) /\ of >= 2 /\ 2 * hits >= of -> "Medium"
    [] OTHER -> "Low"

Found(type, subject, hits, of) ==
  IF Sustained(hits, of)
    THEN {[type |-> type, subject |-> subject, hits |-> hits, of |-> of,
           confidence |-> ConfidenceFor(hits, of)]}
    ELSE {}

SystemDiagnoses(h) ==
  LET Of(type, Test(_)) == Found(type, "system", Samples(h, Test), Len(h))
  IN Of("MemoryPressure", LAMBDA s : s.condition.memory)
     \cup Of("PagingPressure", LAMBDA s : s.condition.memory /\ s.condition.paging)
     \cup Of("CpuSaturation", LAMBDA s : s.condition.cpu)

\* A disk counts in the samples it is in; the space of an SSD in those in which
\* it could be measured.
DiskDiagnoses(h) ==
  LET At(n, i) == {d \in h[i].condition.disks : d.name = n}
      Hits(n, Test(_, _)) == Cardinality({i \in DOMAIN h : \E d \in At(n, i) : Test(h[i], d)})
      Of(n) ==
        LET seen == Hits(n, LAMBDA s, d : TRUE)
            measured == Hits(n, LAMBDA s, d : ~d.hdd /\ d.measured)
            slow == Hits(n, LAMBDA s, d : d.slow)
            paging == Hits(n, LAMBDA s, d : /\ d.slow /\ d.hdd
                                            /\ s.condition.memory /\ s.condition.paging)
            low == Hits(n, LAMBDA s, d : ~d.hdd /\ d.measured /\ d.low)
        IN IF seen < MinimumEvidence(h) THEN {}
           ELSE Found("DiskBottleneck", n, slow, seen)
                \cup Found("HddPagingBottleneck", n, paging, seen)
                \cup (IF measured < MinimumEvidence(h) THEN {}
                      ELSE Found("SsdSpacePressure", n, low, measured))
  IN UNION {Of(d.name) : d \in UNION {h[i].condition.disks : i \in DOMAIN h}}

Identity(e) == <<e.pid, e.start>>
Identities(h) == UNION {{Identity(e) : e \in h[i].processes} : i \in DOMAIN h}

\* Rates are compared in twelfths of the threshold.
Rate(e) == (12 * e.io) \div e.elapsed
SumOfRates(entries) == SumFunction([e \in entries |-> Rate(e)])

\* The first of the order of the map among those with the greatest weight.
Greatest(weight) ==
  CHOOSE id \in DOMAIN weight : \A other \in DOMAIN weight \ {id} :
    \/ weight[other] < weight[id]
    \/ /\ weight[other] = weight[id]
       /\ id[1] < other[1] \/ (id[1] = other[1] /\ id[2] < other[2])

\* Mutant of Eligible: a missing table of connections is not noticed.
EligibleWithoutTcp(s, e) == s.complete /\ e.name \in Background /\ ~e.protected

Eligible(s, e) == Protectable(s) /\ e.name \in Background /\ ~e.protected

BackgroundIo(h) ==
  LET of == Samples(h, Protectable)
      Of(s, id) == {e \in s.processes : Identity(e) = id /\ Eligible(s, e)}
      Hits(id) == Samples(h, LAMBDA s : \E e \in Of(s, id) : Rate(e) >= 12)
      Total(id) == SumFunction([i \in DOMAIN h |-> SumOfRates(Of(h[i], id))])
      ids == {id \in Identities(h) : of >= MinimumEvidence(h) /\ Sustained(Hits(id), of)}
      top == Greatest([id \in ids |-> Total(id)])
  IN IF ids = {} THEN {} ELSE Found("BackgroundIoImpact", top, Hits(top), of)

ForegroundMemory(h) ==
  LET of == Samples(h, Complete)
      Hits(id) == Samples(h, LAMBDA s : s.complete /\ s.condition.memory
                    /\ \E e \in s.processes : /\ Identity(e) = id /\ e.foreground
                                              /\ e.name \in Development)
      ids == {id \in Identities(h) : of >= MinimumEvidence(h) /\ Sustained(Hits(id), of)}
      top == Greatest([id \in ids |-> Hits(id)])
  IN IF ids = {} THEN {} ELSE Found("ForegroundAppMemoryPressure", top, Hits(top), of)

Evaluate(h) ==
  IF Len(h) < 2 THEN {}
  ELSE SystemDiagnoses(h) \cup DiskDiagnoses(h) \cup BackgroundIo(h) \cup ForegroundMemory(h)

\* MakeBenchmarkPoint: coverage, and the name with the most background I/O, all
\* of its processes taken together.
MakeBenchmarkPoint(h) ==
  LET IoOf(name) ==
        SumFunction([i \in DOMAIN h |-> SumOfRates(
          {e \in h[i].processes : Eligible(h[i], e) /\ e.name = name})])
      names == {name \in Background : IoOf(name) > 0}
  IN [samples |-> Len(h), process |-> Samples(h, Complete),
      tcp |-> Samples(h, LAMBDA s : s.tcp), protection |-> Samples(h, Protectable),
      top |-> {name \in names : \A other \in names : IoOf(other) <= IoOf(name)}]

-----------------------------------------------------------------------------
(***************************************************************************)
(* Properties.                                                             *)
(***************************************************************************)
Exact(s) == \A e \in s.processes : e.exact

\* A rate in a sample is what the same process has done since the last sample,
\* or nothing when that is not known: never the work of the process that had
\* the PID before, however processes come, go and are not seen in between.
\* That no inventory and no counter has failed is part of it: after a failed
\* one the code divides by the wrong time, or takes all I/O since the start.
RatesAreTrue ==
  sampling # NoSnapshot =>
    \A e \in sampling.processes :
      e.exact /\ e.io > 0 => e.io = e.did /\ e.elapsed = e.span

\* A program that is blamed for background I/O was itself seen at it, at the
\* threshold and without a protected connection, in at least half of the
\* samples that tell, which are at least half of the history; what a missing
\* inventory hides never adds to it.  The program of the baseline has at least
\* one such process, and its counts are those that a session can be loaded with.
EvidenceIsTrue ==
  LET Telling(s) == s.complete /\ s.tcp
      telling == {i \in DOMAIN history : Telling(history[i])}
      Busy(e) == e.did >= e.span /\ ~e.guarded
      point == MakeBenchmarkPoint(history)
  IN /\ (\A i \in DOMAIN history : Exact(history[i])) =>
          \A d \in Evaluate(history) : d.type = "BackgroundIoImpact" =>
            LET busy == {i \in telling : \E e \in history[i].processes :
                           Identity(e) = d.subject /\ Busy(e)}
            IN 2 * Cardinality(busy) >= Cardinality(telling)
               /\ 2 * Cardinality(telling) >= Len(history)
     /\ \A d \in Evaluate(history) : d.type = "ForegroundAppMemoryPressure" =>
          \E i \in DOMAIN history : \E e \in history[i].processes :
            Identity(e) = d.subject /\ e.foreground /\ history[i].condition.memory
     /\ \A name \in point.top : \E i \in telling : \E e \in history[i].processes :
          e.name = name /\ ~e.guarded /\ (e.exact => e.did > 0)
     /\ history # <<>> => point.samples > 0
     /\ point.protection <= Min({point.process, point.tcp})
     /\ Max({point.process, point.tcp}) <= point.samples

=============================================================================
