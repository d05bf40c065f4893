--------------------------- MODULE MonitoringProofs ---------------------------
(***************************************************************************)
(* The parts that watch processes, proved for any number of processes and  *)
(* samples: the rates of the collector (Monitoring) and what is observed   *)
(* of a start (StartupObserver).                                           *)
(***************************************************************************)
EXTENDS Monitoring, StartupObserver, FiniteSetTheorems, SequenceTheorems,
  WellFoundedInduction, TLAPS

(***************************************************************************)
(* The collector.  What it remembers of a process and what the process has *)
(* done since then make up its counter, unless the PID has another process *)
(* by now, whose start is later.                                           *)
(***************************************************************************)
Works ==
  [start : Nat \ {0}, name : Background \cup Development, io : Nat, since : Nat, from : Nat]
Raws == [start : Nat, io : Nat, known : BOOLEAN, at : Nat]
Inventoried == UNION {[seen -> Raws] : seen \in SUBSET Pids}
Collectors == [initialized : BOOLEAN, at : Nat, previous : Inventoried]

CollectorTypeOK ==
  /\ time \in Nat /\ started \in Nat
  /\ world \in [Pids -> Works \cup {NoProcess}]
  /\ collector \in Collectors

StartsInv ==
  /\ \A p \in Running : world[p].start <= started
  /\ \A p \in DOMAIN collector.previous : collector.previous[p].start <= started

\* The counter that was read of p still belongs to the process of p.
Remembers(p) ==
  /\ p \in DOMAIN collector.previous /\ collector.previous[p].known
  /\ collector.previous[p].start = world[p].start

CounterInv ==
  \A p \in Running : Remembers(p) =>
    /\ world[p].io = collector.previous[p].io + world[p].since
    /\ world[p].from = collector.previous[p].at

RatesInv ==
  \A e \in sampling.processes :
    e.exact /\ e.io > 0 => e.io = e.did /\ e.elapsed = e.span

CollectorInv == CollectorTypeOK /\ StartsInv /\ CounterInv /\ RatesInv
-----------------------------------------------------------------------------
USE MonitoringAssumption

LEMMA WorldFacts ==
  ASSUME CollectorTypeOK, NEW p \in Pids
  PROVE  /\ p \in Running <=> world[p] \in Works
         /\ p \in Running <=> world[p].start # 0
         /\ p \notin Running => world[p] = NoProcess
<1>1. world[p] \in Works \/ world[p] = NoProcess
  BY DEF CollectorTypeOK
<1>2. world[p] \in Works => world[p].start # 0
  BY DEF Works
<1>3. NoProcess.start = 0
  BY DEF NoProcess
<1>4. QED
  BY <1>1, <1>2, <1>3 DEF Running

LEMMA MemoryFacts ==
  ASSUME CollectorTypeOK
  PROVE  /\ DOMAIN collector.previous \subseteq Pids
         /\ \A p \in DOMAIN collector.previous : collector.previous[p] \in Raws
<1>1. collector.previous \in Inventoried
  BY DEF CollectorTypeOK, Collectors
<1>2. PICK seen \in SUBSET Pids : collector.previous \in [seen -> Raws]
  BY <1>1 DEF Inventoried
<1>3. QED
  BY <1>2

LEMMA StartsStep ==
  ASSUME CollectorInv, NEW p \in Pids, Starts(p)
  PROVE  CollectorInv'
<1>1. /\ CollectorTypeOK /\ started \in Nat /\ time \in Nat
      /\ world \in [Pids -> Works \cup {NoProcess}] /\ p \notin Running
  BY DEF CollectorInv, CollectorTypeOK, Starts
<1>2. PICK work \in Works :
        /\ world' = [world EXCEPT ![p] = work]
        /\ work.start = started + 1
  <2>1. PICK name \in Background \cup Development :
          world' = [world EXCEPT ![p] =
            [start |-> started + 1, name |-> name, io |-> 0, since |-> 0, from |-> time]]
    BY DEF Starts
  <2>2. [start |-> started + 1, name |-> name, io |-> 0, since |-> 0, from |-> time]
          \in Works
    BY <1>1 DEF Works
  <2>3. QED
    BY <2>1, <2>2
<1>3. /\ started' = started + 1
      /\ UNCHANGED <<time, collector, sampling>>
  BY DEF Starts
<1>4. /\ world'[p] = work /\ \A q \in Pids \ {p} : world'[q] = world[q]
      /\ world' \in [Pids -> Works \cup {NoProcess}]
  BY <1>1, <1>2
<1>5. CollectorTypeOK'
  BY <1>1, <1>3, <1>4 DEF CollectorTypeOK
<1>6. \A q \in Running' : q = p \/ q \in Running
  BY <1>4 DEF Running
<1>7. StartsInv'
  <2>1. \A q \in Running' : world'[q].start <= started'
    <3>1. ASSUME NEW q \in Running
          PROVE  world[q].start <= started + 1
      <4>1. world[q].start \in Nat /\ world[q].start <= started
        BY <1>1, WorldFacts DEF CollectorInv, StartsInv, Running, Works
      <4>2. QED
        BY <1>1, <4>1
    <3>2. QED
      BY <1>1, <1>2, <1>3, <1>4, <1>6, <3>1 DEF Running
  <2>2. ASSUME NEW q \in DOMAIN collector.previous
        PROVE  collector.previous[q].start <= started + 1
    <3>1. collector.previous[q].start \in Nat /\ collector.previous[q].start <= started
      BY <1>1, MemoryFacts DEF CollectorInv, StartsInv, Raws
    <3>2. QED
      BY <1>1, <3>1
  <2>3. QED
    BY <1>3, <2>1, <2>2 DEF StartsInv
<1>8. CounterInv'
  <2> SUFFICES ASSUME NEW q \in Running', Remembers(q)'
               PROVE  /\ world'[q].io = collector.previous[q].io + world'[q].since
                      /\ world'[q].from = collector.previous[q].at
    BY <1>3 DEF CounterInv
  <2>1. q # p
    <3>1. collector.previous[q].start \in Nat /\ collector.previous[q].start <= started
      BY <1>1, <1>3, MemoryFacts DEF CollectorInv, StartsInv, Raws, Remembers
    <3>2. collector.previous[q].start = world'[q].start
      BY <1>3 DEF Remembers
    <3>3. QED
      BY <1>1, <1>2, <1>4, <3>1, <3>2
  <2>2. q \in Running /\ world'[q] = world[q]
    BY <1>4, <1>6, <2>1 DEF Running
  <2>3. Remembers(q)
    BY <1>3, <2>2 DEF Remembers
  <2>4. QED
    BY <2>2, <2>3 DEF CollectorInv, CounterInv
<1>9. RatesInv'
  BY <1>3 DEF CollectorInv, RatesInv
<1>10. QED
  BY <1>5, <1>7, <1>8, <1>9 DEF CollectorInv

LEMMA ExitsStep ==
  ASSUME CollectorInv, NEW p \in Pids, Exits(p)
  PROVE  CollectorInv'
<1>1. /\ world' = [world EXCEPT ![p] = NoProcess]
      /\ UNCHANGED <<time, started, collector, sampling>> /\ CollectorTypeOK
  BY DEF Exits, CollectorInv
<1>2. CollectorTypeOK'
  BY <1>1 DEF CollectorTypeOK
<1>3. \A q \in Running' : q \in Running /\ world'[q] = world[q]
  BY <1>1 DEF Running, CollectorTypeOK
<1>4. StartsInv'
  BY <1>1, <1>3 DEF CollectorInv, StartsInv
<1>5. CounterInv'
  BY <1>1, <1>3 DEF CollectorInv, CounterInv, Remembers
<1>6. RatesInv'
  BY <1>1 DEF CollectorInv, RatesInv
<1>7. QED
  BY <1>2, <1>4, <1>5, <1>6 DEF CollectorInv

LEMMA WorkStep ==
  ASSUME CollectorInv, Work
  PROVE  CollectorInv'
<1>1. PICK busy \in SUBSET Running :
        world' = [p \in Pids |-> IF p \in busy
                    THEN [world[p] EXCEPT !.io = @ + 1, !.since = @ + 1] ELSE world[p]]
  BY DEF Work
<1>2. /\ CollectorTypeOK /\ time \in Nat /\ time' = time + 1
      /\ UNCHANGED <<started, collector, sampling>>
  BY DEF Work, CollectorInv, CollectorTypeOK
<1>3. ASSUME NEW p \in busy
      PROVE  /\ p \in Running /\ world'[p] \in Works
             /\ world[p].io \in Nat /\ world[p].since \in Nat
             /\ world'[p].start = world[p].start /\ world'[p].from = world[p].from
             /\ world'[p].io = world[p].io + 1 /\ world'[p].since = world[p].since + 1
  <2>1. p \in Running /\ p \in Pids /\ world[p] \in Works
    BY <1>2, WorldFacts DEF Running
  <2>2. PICK io \in Nat, since \in Nat : io = world[p].io + 1 /\ since = world[p].since + 1
    BY <2>1 DEF Works
  <2>3. world'[p] = [world[p] EXCEPT !.io = io, !.since = since]
    BY <1>1, <2>1, <2>2
  <2>4. [world[p] EXCEPT !.io = io, !.since = since] \in Works
    BY <2>1 DEF Works
  <2>5. QED
    BY <2>1, <2>2, <2>3, <2>4 DEF Works
<1>4. \A p \in Pids \ busy : world'[p] = world[p]
  BY <1>1
<1>5. CollectorTypeOK'
  <2>1. \A p \in Pids : world'[p] \in Works \cup {NoProcess}
    BY <1>2, <1>3, <1>4 DEF CollectorTypeOK
  <2>2. world' \in [Pids -> Works \cup {NoProcess}]
    BY <1>1, <2>1
  <2>3. QED
    BY <1>2, <2>2 DEF CollectorTypeOK
<1>6. ASSUME NEW p \in Running'
      PROVE  p \in Running /\ world'[p].start = world[p].start
  BY <1>3, <1>4 DEF Running
<1>7. StartsInv'
  BY <1>2, <1>6 DEF CollectorInv, StartsInv
<1>8. CounterInv'
  <2> SUFFICES ASSUME NEW p \in Running', Remembers(p)'
               PROVE  /\ world'[p].io = collector.previous[p].io + world'[p].since
                      /\ world'[p].from = collector.previous[p].at
    BY <1>2 DEF CounterInv
  <2>1. p \in Running /\ p \in Pids /\ Remembers(p) /\ collector.previous[p].io \in Nat
    BY <1>2, <1>6, MemoryFacts DEF Remembers, Raws, Running
  <2>2. /\ world[p].io = collector.previous[p].io + world[p].since
        /\ world[p].from = collector.previous[p].at
    BY <2>1 DEF CollectorInv, CounterInv
  <2>3. CASE p \in busy
    BY <1>3, <2>1, <2>2, <2>3
  <2>4. CASE p \notin busy
    BY <1>4, <2>1, <2>2, <2>4
  <2>5. QED
    BY <2>3, <2>4
<1>9. RatesInv'
  BY <1>2 DEF CollectorInv, RatesInv
<1>10. QED
  BY <1>5, <1>7, <1>8, <1>9 DEF CollectorInv

Queries == {"read", "unread", "denied"}

LEMMA RawFacts ==
  ASSUME CollectorInv, NEW p \in Running, NEW query \in Queries
  PROVE  /\ world[p] \in Works /\ world[p].start <= started
         /\ RawCounters(p, query) \in Raws
         /\ RawCounters(p, query).start \in {0, world[p].start}
         /\ RawCounters(p, query).at = time
         /\ RawCounters(p, query).known <=> query = "read"
         /\ query = "read" => /\ RawCounters(p, query).start = world[p].start
                              /\ RawCounters(p, query).io = world[p].io
<1>1. world[p] \in Works /\ time \in Nat /\ world[p].start <= started
  BY WorldFacts DEF CollectorInv, CollectorTypeOK, StartsInv, Running
<1>2. PICK start \in Nat, io \in Nat :
        /\ start = IF query = "denied" THEN 0 ELSE world[p].start
        /\ io = IF query = "read" THEN world[p].io ELSE 0
  BY <1>1 DEF Works
<1>3. RawCounters(p, query) =
        [start |-> start, io |-> io, known |-> query = "read", at |-> time]
  BY <1>2 DEF RawCounters
<1>4. PICK known \in BOOLEAN : known = (query = "read")
  OBVIOUS
<1>5. PICK raw \in Raws :
        /\ raw = [start |-> start, io |-> io, known |-> known, at |-> time]
        /\ raw.start = start /\ raw.io = io /\ raw.known = known /\ raw.at = time
  <2>1. [start |-> start, io |-> io, known |-> known, at |-> time] \in Raws
    BY <1>1 DEF Raws
  <2>2. QED
    BY <2>1
<1>6. RawCounters(p, query) = raw
  BY <1>3, <1>4, <1>5
<1>7. QED
  BY <1>1, <1>2, <1>4, <1>5, <1>6

\* After an inventory each counter that was read is remembered as it is.
LEMMA InventoryFacts ==
  ASSUME CollectorInv, NEW whole, NEW seen \in SUBSET Running,
         NEW query \in [Pids -> Queries], Inventory(whole, seen, query),
         UNCHANGED <<time, started>>
  PROVE  CollectorTypeOK' /\ StartsInv' /\ CounterInv'
<1>1. /\ CollectorTypeOK /\ time \in Nat /\ started \in Nat /\ seen \in SUBSET Pids
      /\ \A p \in seen : p \in Running /\ query[p] \in Queries
  BY DEF CollectorInv, CollectorTypeOK, Running
<1>2. PICK previous : previous = [p \in seen |-> RawCounters(p, query[p])]
  OBVIOUS
<1>3. previous \in [seen -> Raws] /\ \A p \in seen : previous[p] = RawCounters(p, query[p])
  BY <1>1, <1>2, RawFacts
<1>4. previous \in Inventoried
  BY <1>1, <1>3 DEF Inventoried
<1>5. collector' \in Collectors /\ collector'.previous = previous
  <2>1. collector' = [initialized |-> TRUE, at |-> time, previous |-> previous]
    BY <1>2 DEF Inventory
  <2>2. QED
    BY <1>1, <1>4, <2>1 DEF Collectors
<1>6. world' = [p \in Pids |-> IF p \in seen
                  THEN [world[p] EXCEPT !.since = 0, !.from = time] ELSE world[p]]
  BY DEF Inventory
<1>7. ASSUME NEW p \in seen
      PROVE  /\ world'[p] \in Works /\ world'[p].start = world[p].start
             /\ world'[p].io = world[p].io /\ world'[p].io \in Nat
             /\ world'[p].since = 0 /\ world'[p].from = time
  <2>1. world[p] \in Works /\ p \in Pids
    BY <1>1, RawFacts
  <2>2. world'[p] = [world[p] EXCEPT !.since = 0, !.from = time]
    BY <1>6, <2>1
  <2>3. [world[p] EXCEPT !.since = 0, !.from = time] \in Works
    BY <1>1, <2>1 DEF Works
  <2>4. QED
    BY <2>1, <2>2, <2>3 DEF Works
<1>8. \A p \in Pids \ seen : world'[p] = world[p]
  BY <1>6
<1>9. world' \in [Pids -> Works \cup {NoProcess}]
  <2>1. \A p \in Pids : world'[p] \in Works \cup {NoProcess}
    BY <1>1, <1>7, <1>8 DEF CollectorTypeOK
  <2>2. QED
    BY <1>6, <2>1
<1>10. CollectorTypeOK'
  BY <1>1, <1>5, <1>9 DEF CollectorTypeOK
<1>11. ASSUME NEW p \in Running'
       PROVE  p \in Running /\ world'[p].start = world[p].start
  BY <1>1, <1>7, <1>8 DEF Running
<1>12. StartsInv'
  <2>1. \A p \in Running' : world'[p].start <= started
    BY <1>11 DEF CollectorInv, StartsInv
  <2>2. \A p \in seen : previous[p].start <= started
    <3>1. ASSUME NEW p \in seen
          PROVE  previous[p].start <= started
      <4>1. world[p].start <= started /\ previous[p].start \in {0, world[p].start}
        BY <1>1, <1>3, RawFacts
      <4>2. QED
        BY <1>1, <4>1
    <3>2. QED
      BY <3>1
  <2>3. QED
    BY <1>3, <1>5, <2>1, <2>2 DEF StartsInv
<1>13. CounterInv'
  <2> SUFFICES ASSUME NEW p \in Running', Remembers(p)'
               PROVE  /\ world'[p].io = previous[p].io + world'[p].since
                      /\ world'[p].from = previous[p].at
    BY <1>5 DEF CounterInv
  <2>1. p \in seen /\ previous[p].known
    BY <1>3, <1>5 DEF Remembers
  <2>2. query[p] = "read" /\ previous[p].io = world[p].io /\ previous[p].at = time
    BY <1>1, <1>3, <2>1, RawFacts
  <2>3. QED
    BY <1>7, <2>1, <2>2
<1>14. QED
  BY <1>10, <1>12, <1>13

\* The rate that a sample gives a process, from counters that were all read.
LEMMA EntryFacts ==
  ASSUME CollectorInv, NEW p \in Running, NEW query \in Queries, NEW foreground,
         NEW e, e = Entry(p, RawCounters(p, query), foreground),
         e.exact, e.io > 0
  PROVE  e.io = e.did /\ e.elapsed = e.span
<1> DEFINE raw == RawCounters(p, query)
           old == collector.previous[p]
<1>1. /\ e.io = Delta(p, raw) /\ e.elapsed = time - collector.at
      /\ e.did = world[p].since /\ e.span = time - world[p].from
      /\ raw.known
      /\ p \in DOMAIN collector.previous => old.known /\ old.at = collector.at
  BY DEF Entry
<1>2. SameProcess(p, raw) /\ e.io = raw.io - old.io
  BY <1>1 DEF Delta
<1>3. /\ raw.start = world[p].start /\ raw.io = world[p].io /\ world[p] \in Works
  BY <1>1, RawFacts
<1>4. p \in DOMAIN collector.previous /\ old.start = world[p].start /\ old \in Raws
  BY <1>2, <1>3, MemoryFacts DEF SameProcess, CollectorInv
<1>5. world[p].io = old.io + world[p].since /\ world[p].from = old.at
  BY <1>1, <1>4 DEF CollectorInv, CounterInv, Remembers
<1>6. QED
  BY <1>1, <1>2, <1>3, <1>4, <1>5 DEF Works, Raws

LEMMA SampleStep ==
  ASSUME CollectorInv, Initialize \/ Sample \/ SampleWithoutProcesses
  PROVE  CollectorInv'
<1>1. CASE Initialize
  <2>1. PICK i \in Inventories : Inventory(i.whole, i.seen, i.query)
    BY <1>1 DEF Initialize
  <2>2. i.seen \in SUBSET Running /\ i.query \in [Pids -> Queries]
    BY DEF Inventories, Queries
  <2>3. UNCHANGED <<time, started, sampling>>
    BY <1>1 DEF Initialize
  <2>4. QED
    BY <2>1, <2>2, <2>3, InventoryFacts DEF CollectorInv, RatesInv
<1>2. CASE Sample
  <2>1. PICK i \in Inventories, condition \in Conditions, foreground \in Running \cup {0} :
          CollectProcesses(i, foreground, condition)
    BY <1>2 DEF Sample
  <2>2. i.seen \in SUBSET Running /\ i.query \in [Pids -> Queries]
    BY DEF Inventories, Queries
  <2>3. UNCHANGED <<time, started>> /\ Inventory(i.whole, i.seen, i.query)
    BY <1>2, <2>1 DEF Sample, CollectProcesses
  <2>4. sampling'.processes =
          {Entry(p, RawCounters(p, i.query[p]), foreground) : p \in i.seen}
    BY <2>1 DEF CollectProcesses
  <2>5. RatesInv'
    <3> SUFFICES ASSUME NEW e \in sampling'.processes, e.exact, e.io > 0
                 PROVE  e.io = e.did /\ e.elapsed = e.span
      BY DEF RatesInv
    <3>1. PICK p \in i.seen : e = Entry(p, RawCounters(p, i.query[p]), foreground)
      BY <2>4
    <3>2. p \in Running /\ i.query[p] \in Queries
      BY <2>2 DEF Running
    <3>3. QED
      BY <3>1, <3>2, EntryFacts
  <2>6. QED
    BY <2>2, <2>3, <2>5, InventoryFacts DEF CollectorInv
<1>3. CASE SampleWithoutProcesses
  <2>1. /\ collector' = [collector EXCEPT !.at = time] /\ sampling'.processes = {}
        /\ UNCHANGED <<time, world, started>>
    BY <1>3 DEF SampleWithoutProcesses
  <2>2. collector \in Collectors /\ time \in Nat
    BY DEF CollectorInv, CollectorTypeOK
  <2>3. collector' \in Collectors /\ collector'.previous = collector.previous
    BY <2>1, <2>2 DEF Collectors
  <2>4. CollectorTypeOK'
    BY <2>1, <2>3 DEF CollectorInv, CollectorTypeOK
  <2>5. StartsInv' /\ CounterInv' /\ RatesInv'
    BY <2>1, <2>3 DEF CollectorInv, StartsInv, CounterInv, RatesInv, Remembers, Running
  <2>6. QED
    BY <2>4, <2>5 DEF CollectorInv
<1>4. QED
  BY <1>1, <1>2, <1>3

LEMMA CollectorInvStep ==
  CollectorInv /\ [MonitoringNext]_monitoringVars => CollectorInv'
<1>1. ASSUME CollectorInv, UNCHANGED <<time, world, started, collector>>,
             sampling' = sampling \/ sampling' = NoSnapshot
      PROVE  CollectorInv'
  BY <1>1 DEF CollectorInv, CollectorTypeOK, StartsInv, CounterInv, RatesInv, Remembers,
    Running, NoSnapshot
<1>2. CollectorInv /\ CollectTcpSessions => CollectorInv'
  BY <1>1 DEF CollectTcpSessions
<1>3. CollectorInv /\ UNCHANGED monitoringVars => CollectorInv'
  BY <1>1 DEF monitoringVars
<1>4. ASSUME NEW p \in Pids
      PROVE  CollectorInv /\ Connects(p) => CollectorInv'
  BY <1>1 DEF Connects
<1>5. QED
  BY <1>2, <1>3, <1>4, StartsStep, ExitsStep, WorkStep, SampleStep DEF MonitoringNext

LEMMA CollectorAlwaysInv == MonitoringSpec => []CollectorInv
<1>1. MonitoringInit => CollectorInv
  <2> SUFFICES ASSUME MonitoringInit PROVE CollectorInv
    OBVIOUS
  <2>1. /\ world \in [Pids -> Works \cup {NoProcess}] /\ Running = {}
        /\ time = 0 /\ started = 0 /\ sampling.processes = {}
    BY DEF MonitoringInit, Running, NoSnapshot
  <2>2. <<>> \in Inventoried /\ DOMAIN <<>> = {}
    <3>1. <<>> \in Seq(Raws) /\ Len(<<>>) = 0
      OBVIOUS
    <3>2. DOMAIN <<>> = {} /\ <<>> \in [{} -> Raws]
      BY <3>1
    <3>3. QED
      BY <3>2 DEF Inventoried
  <2>3. collector \in Collectors /\ collector.previous = <<>>
    BY <2>2 DEF MonitoringInit, Collectors
  <2>4. QED
    BY <2>1, <2>2, <2>3 DEF CollectorInv, CollectorTypeOK, StartsInv, CounterInv, RatesInv
<1>2. QED
  BY <1>1, CollectorInvStep, PTL DEF MonitoringSpec

\* A rate is what the same process has done since the last sample, or nothing, for
\* any number of processes and however often a PID changes hands.
THEOREM RatesAreAlwaysTrue == MonitoringSpec => []RatesAreTrue
<1>1. CollectorInv => RatesAreTrue
  BY DEF CollectorInv, RatesInv, RatesAreTrue
<1>2. QED
  BY <1>1, CollectorAlwaysInv, PTL

-----------------------------------------------------------------------------
(***************************************************************************)
(* The history.  What was seen of each process in each of its samples, and *)
(* where the connections are known, whether it had a protected one.        *)
(***************************************************************************)
Entries ==
  [pid : Pids, start : Nat, name : Background \cup Development, io : Nat, elapsed : Nat \ {0},
   foreground : BOOLEAN, protected : BOOLEAN, did : Nat, span : Int, guarded : BOOLEAN,
   exact : BOOLEAN]
Samplings == [complete : BOOLEAN, condition : Conditions, processes : SUBSET Entries]
Snapshots ==
  [complete : BOOLEAN, tcp : BOOLEAN, condition : Conditions, processes : SUBSET Entries]

Reliable(s) ==
  /\ IsFiniteSet(s.processes)
  /\ \A e \in s.processes :
       /\ e.exact /\ e.io > 0 => e.io = e.did /\ e.elapsed = e.span
       /\ s.tcp => e.protected = e.guarded

HistoryInv ==
  /\ sampling # NoSnapshot => sampling \in Samplings /\ IsFiniteSet(sampling.processes)
  /\ history \in Seq(Snapshots)
  /\ \A i \in 1..Len(history) : Reliable(history[i])

LEMMA EntryTyped ==
  ASSUME CollectorInv, collector.at < time, NEW p \in Running, NEW query \in Queries,
         NEW foreground
  PROVE  Entry(p, RawCounters(p, query), foreground) \in Entries
<1> DEFINE old == collector.previous[p]
<1>1. PICK raw \in Raws : raw = RawCounters(p, query)
  BY RawFacts
<1>2. /\ world[p] \in Works /\ p \in Pids /\ time \in Nat /\ collector.at \in Nat
  BY RawFacts DEF CollectorInv, CollectorTypeOK, Collectors, Running
<1>3. PICK io \in Nat : io = Delta(p, raw)
  <2>1. CASE SameProcess(p, raw) /\ raw.io >= old.io
    <3>1. old \in Raws
      BY <2>1, MemoryFacts DEF SameProcess, CollectorInv
    <3>2. raw.io - old.io \in Nat
      BY <2>1, <3>1 DEF Raws
    <3>3. QED
      BY <2>1, <3>2 DEF Delta
  <2>2. CASE ~(SameProcess(p, raw) /\ raw.io >= old.io)
    BY <2>2 DEF Delta
  <2>3. QED
    BY <2>1, <2>2
<1>4. PICK elapsed \in Nat \ {0}, span \in Int :
        elapsed = time - collector.at /\ span = time - world[p].from
  BY <1>2 DEF Works
<1>5. PICK chosen \in BOOLEAN : chosen = (p = foreground)
  OBVIOUS
<1>6. PICK exact \in BOOLEAN :
        exact = (/\ raw.known
                 /\ p \in DOMAIN collector.previous => old.known /\ old.at = collector.at)
  OBVIOUS
<1>7. Entry(p, raw, foreground) =
        [pid |-> p, start |-> raw.start, name |-> world[p].name, io |-> io,
         elapsed |-> elapsed, foreground |-> chosen, protected |-> FALSE,
         did |-> world[p].since, span |-> span, guarded |-> FALSE, exact |-> exact]
  BY <1>3, <1>4, <1>5, <1>6, Zenon DEF Entry
<1>8. /\ raw.start \in Nat /\ world[p].name \in Background \cup Development
      /\ world[p].since \in Nat
  BY <1>2 DEF Raws, Works
<1>9. PICK start \in Nat, name \in Background \cup Development, since \in Nat :
        start = raw.start /\ name = world[p].name /\ since = world[p].since
  BY <1>8
<1>10. [pid |-> p, start |-> start, name |-> name, io |-> io,
        elapsed |-> elapsed, foreground |-> chosen, protected |-> FALSE,
        did |-> since, span |-> span, guarded |-> FALSE, exact |-> exact] \in Entries
  BY <1>2 DEF Entries
<1>11. QED
  BY <1>1, <1>7, <1>9, <1>10

LEMMA TruthOf ==
  ASSUME NEW x, NEW S
  PROVE  \E b \in BOOLEAN : b = (x \in S)
<1>1. CASE x \in S
  BY <1>1
<1>2. CASE x \notin S
  <2>1. FALSE = (x \in S)
    BY <1>2
  <2>2. QED
    BY <2>1
<1>3. QED
  BY <1>1, <1>2

LEMMA ImageIsFinite ==
  ASSUME NEW S, IsFiniteSet(S), NEW f, DOMAIN f = S
  PROVE  IsFiniteSet({f[x] : x \in S})
<1>1. PICK g : g = [x \in S |-> f[x]]
  OBVIOUS
<1>2. g \in Surjection(S, {f[x] : x \in S})
  BY <1>1 DEF Surjection
<1>3. QED
  BY <1>2, FS_Surjection

LEMMA SampledStep ==
  ASSUME CollectorInv, HistoryInv, Sample \/ SampleWithoutProcesses
  PROVE  HistoryInv'
<1>1. UNCHANGED history /\ HistoryInv
  BY DEF Sample, SampleWithoutProcesses
<1>2. SUFFICES sampling' \in Samplings /\ IsFiniteSet(sampling'.processes)
  BY <1>1 DEF HistoryInv
<1>3. CASE Sample
  <2>1. PICK i \in Inventories, condition \in Conditions, foreground \in Running \cup {0} :
          CollectProcesses(i, foreground, condition)
    BY <1>3 DEF Sample
  <2>2. PICK seen \in SUBSET Running, query \in [Pids -> Queries], whole \in BOOLEAN :
          i.whole = whole /\ i.seen = seen /\ i.query = query
    <3>1. PICK seen \in SUBSET Running, query \in [Pids -> Queries] :
            i = [whole |-> seen = Running, seen |-> seen, query |-> query]
      BY DEF Inventories, Queries
    <3>2. PICK whole \in BOOLEAN : whole = (seen = Running)
      OBVIOUS
    <3>3. QED
      BY <3>1, <3>2
  <2>3. PICK entry : entry =
          [p \in seen |-> Entry(p, RawCounters(p, query[p]), foreground)]
    OBVIOUS
  <2>4. PICK entries : entries = {entry[p] : p \in seen}
    OBVIOUS
  <2>5. sampling' = [complete |-> whole, condition |-> condition, processes |-> entries]
    BY <2>1, <2>2, <2>3, <2>4 DEF CollectProcesses
  <2>6. entries \in SUBSET Entries
    <3>1. ASSUME NEW p \in seen PROVE entry[p] \in Entries
      <4>1. p \in Running /\ query[p] \in Queries /\ collector.at < time
        BY <1>3, <2>2 DEF Sample, Running
      <4>2. QED
        BY <2>3, <4>1, EntryTyped
    <3>2. QED
      BY <2>4, <3>1
  <2>7. IsFiniteSet(entries)
    <3>1. IsFiniteSet(seen) /\ DOMAIN entry = seen
      BY <2>3, FS_Subset DEF MonitoringAssumption, Running
    <3>2. QED
      BY <2>4, <3>1, ImageIsFinite
  <2>8. QED
    BY <2>5, <2>6, <2>7 DEF Samplings
<1>4. CASE SampleWithoutProcesses
  <2>1. PICK condition \in Conditions :
          sampling' = [complete |-> FALSE, condition |-> condition, processes |-> {}]
    BY <1>4 DEF SampleWithoutProcesses
  <2>2. QED
    BY <2>1, FS_EmptySet DEF Samplings
<1>5. QED
  BY <1>3, <1>4

\* The history keeps what it has, but for its first sample when it is full.
LEMMA AddFacts ==
  ASSUME NEW h \in Seq(Snapshots), NEW s \in Snapshots, Reliable(s),
         \A i \in 1..Len(h) : Reliable(h[i])
  PROVE  /\ Add(h, s) \in Seq(Snapshots)
         /\ \A i \in 1..Len(Add(h, s)) : Reliable(Add(h, s)[i])
<1>1. PICK kept \in Seq(Snapshots) :
        /\ kept = IF Len(h) = Capacity THEN Tail(h) ELSE h
        /\ \A i \in 1..Len(kept) : Reliable(kept[i])
  <2>1. CASE Len(h) = Capacity
    <3>1. /\ Tail(h) \in Seq(Snapshots) /\ Len(Tail(h)) = Len(h) - 1
          /\ \A i \in 1..Len(Tail(h)) : Tail(h)[i] = h[i + 1]
      <4>1. h # <<>>
        BY <2>1 DEF MonitoringAssumption
      <4>2. QED
        BY <4>1, HeadTailProperties
    <3>2. ASSUME NEW i \in 1..Len(Tail(h)) PROVE i + 1 \in 1..Len(h)
      BY <3>1
    <3>3. QED
      BY <2>1, <3>1, <3>2
  <2>2. CASE Len(h) # Capacity
    BY <2>2
  <2>3. QED
    BY <2>1, <2>2
<1>2. Add(h, s) = Append(kept, s)
  BY <1>1 DEF Add
<1>3. /\ Append(kept, s) \in Seq(Snapshots) /\ Len(Append(kept, s)) = Len(kept) + 1
      /\ Append(kept, s)[Len(kept) + 1] = s
      /\ \A i \in 1..Len(kept) : Append(kept, s)[i] = kept[i]
  BY AppendProperties
<1>4. ASSUME NEW i \in 1..(Len(kept) + 1) PROVE i \in 1..Len(kept) \/ i = Len(kept) + 1
  OBVIOUS
<1>5. QED
  BY <1>1, <1>2, <1>3, <1>4

LEMMA HistoryStep == CollectorInv /\ HistoryInv /\ CollectTcpSessions => HistoryInv'
<1> SUFFICES ASSUME CollectorInv, HistoryInv, CollectTcpSessions PROVE HistoryInv'
  OBVIOUS
<1>1. sampling # NoSnapshot /\ sampling \in Samplings /\ IsFiniteSet(sampling.processes)
  BY DEF HistoryInv, CollectTcpSessions
<1>2. PICK seen \in SUBSET sessions, complete \in BOOLEAN :
        /\ complete => seen = sessions
        /\ history' = Add(history,
             [complete |-> sampling.complete, tcp |-> complete,
              condition |-> sampling.condition,
              processes |-> {[e EXCEPT !.protected = e.pid \in seen,
                                       !.guarded = e.pid \in sessions] :
                               e \in sampling.processes}])
  BY DEF CollectTcpSessions
<1>3. PICK marked : marked =
        [e \in sampling.processes |->
          [e EXCEPT !.protected = e.pid \in seen, !.guarded = e.pid \in sessions]]
  OBVIOUS
<1>4. PICK entries : entries = {marked[e] : e \in sampling.processes}
  OBVIOUS
<1>5. ASSUME NEW e \in sampling.processes
      PROVE  /\ marked[e] \in Entries
             /\ marked[e].exact = e.exact /\ marked[e].io = e.io /\ marked[e].did = e.did
             /\ marked[e].elapsed = e.elapsed /\ marked[e].span = e.span
             /\ complete => marked[e].protected = marked[e].guarded
  <2>1. e \in Entries
    BY <1>1 DEF Samplings
  <2>2. PICK protected \in BOOLEAN : protected = (e.pid \in seen)
    BY TruthOf
  <2>9. PICK guarded \in BOOLEAN : guarded = (e.pid \in sessions)
    BY TruthOf
  <2>3. complete => protected = guarded
    BY <1>2, <2>2, <2>9
  <2>4. marked[e] = [e EXCEPT !.protected = protected, !.guarded = guarded]
    BY <1>3, <2>2, <2>9
  <2>5. [e EXCEPT !.protected = protected, !.guarded = guarded] \in Entries
    BY <2>1 DEF Entries
  <2>6. PICK new : new = [e EXCEPT !.protected = protected, !.guarded = guarded]
    OBVIOUS
  <2>7. /\ new.protected = protected /\ new.guarded = guarded
        /\ new.exact = e.exact /\ new.io = e.io /\ new.did = e.did
        /\ new.elapsed = e.elapsed /\ new.span = e.span
    BY <2>1, <2>6 DEF Entries
  <2>8. QED
    BY <2>3, <2>4, <2>5, <2>6, <2>7
<1>6. PICK snapshot \in Snapshots :
        /\ snapshot = [complete |-> sampling.complete, tcp |-> complete,
                       condition |-> sampling.condition, processes |-> entries]
        /\ snapshot.tcp = complete /\ snapshot.processes = entries
  <2>1. entries \in SUBSET Entries
    BY <1>4, <1>5
  <2>2. PICK whole \in BOOLEAN, condition \in Conditions :
          whole = sampling.complete /\ condition = sampling.condition
    BY <1>1 DEF Samplings
  <2>3. [complete |-> whole, tcp |-> complete, condition |-> condition, processes |-> entries]
          \in Snapshots
    BY <2>1 DEF Snapshots
  <2>4. QED
    BY <2>2, <2>3
<1>7. Reliable(snapshot)
  <2>1. IsFiniteSet(entries)
    <3>1. DOMAIN marked = sampling.processes
      BY <1>3
    <3>2. QED
      BY <1>1, <1>4, <3>1, ImageIsFinite
  <2>2. \A e \in sampling.processes :
          e.exact /\ e.io > 0 => e.io = e.did /\ e.elapsed = e.span
    BY DEF CollectorInv, RatesInv
  <2>3. QED
    BY <1>4, <1>5, <1>6, <2>1, <2>2 DEF Reliable
<1>8. history' = Add(history, snapshot)
  BY <1>2, <1>3, <1>4, <1>6
<1>9. history' \in Seq(Snapshots) /\ \A i \in 1..Len(history') : Reliable(history'[i])
  BY <1>7, <1>8, AddFacts DEF HistoryInv
<1>10. QED
  BY <1>9 DEF HistoryInv, CollectTcpSessions

LEMMA HistoryInvStep ==
  CollectorInv /\ HistoryInv /\ [MonitoringNext]_monitoringVars => HistoryInv'
<1>1. HistoryInv /\ UNCHANGED <<sampling, history>> => HistoryInv'
  BY DEF HistoryInv
<1>2. ASSUME NEW p \in Pids
      PROVE  HistoryInv /\ (Starts(p) \/ Exits(p) \/ Connects(p)) => HistoryInv'
  BY <1>1 DEF Starts, Exits, Connects
<1>3. HistoryInv /\ (Work \/ Initialize) => HistoryInv'
  BY <1>1 DEF Work, Initialize
<1>4. HistoryInv /\ UNCHANGED monitoringVars => HistoryInv'
  BY <1>1 DEF monitoringVars
<1>5. QED
  BY <1>2, <1>3, <1>4, SampledStep, HistoryStep DEF MonitoringNext

-----------------------------------------------------------------------------
(***************************************************************************)
(* Sums, the greatest of a finite set, and counts.                         *)
(***************************************************************************)
\* A non-empty set of naturals has its least element: lemmas about all numbers are
\* proved by their smallest counterexample.
LEMMA LeastExists ==
  ASSUME NEW S \in SUBSET Nat, S # {}
  PROVE  \E x \in S : \A y \in S : x <= y
<1> DEFINE R == OpToRel(<, Nat)
<1>1. \E x \in S : \A y \in S : ~ (<<y, x>> \in R)
  BY NatLessThanWellFounded, WFMin
<1>2. R = {ss \in Nat \X Nat : ss[1] < ss[2]}
  BY Zenon DEF OpToRel
<1> HIDE DEF R
<1>3. PICK x \in S : \A y \in S : ~ (<<y, x>> \in R)
  BY <1>1
<1>4. ASSUME NEW y \in S PROVE x <= y
  <2>1. x \in Nat /\ y \in Nat /\ <<y, x>> \notin R
    BY <1>3
  <2>2. ~ (y < x)
    BY <2>1, <1>2
  <2>3. QED
    BY <2>1, <2>2
<1>5. QED
  BY <1>4

\* The sums of the subsets of a set, as SumFunction adds them up.
Some(s) == CHOOSE x \in s : TRUE
Adds(w, f, s) == IF s = {} THEN 0 ELSE w[Some(s)] + f[s \ {Some(s)}]
Small(S, n) == {s \in SUBSET S : Cardinality(s) <= n}
Summed(w, S, n) == \E f \in [Small(S, n) -> Nat] : \A s \in Small(S, n) : f[s] = Adds(w, f, s)

LEMMA SmallFacts ==
  ASSUME NEW S, IsFiniteSet(S), NEW n \in Nat, NEW s \in SUBSET S, s # {},
         Cardinality(s) <= n
  PROVE  /\ Some(s) \in s /\ n # 0 /\ n - 1 \in Nat /\ s \ {Some(s)} \in Small(S, n - 1)
         /\ Cardinality(s \ {Some(s)}) < Cardinality(s)
         /\ Cardinality(s \ {Some(s)}) \in Nat /\ Cardinality(s) \in Nat
<1>1. Some(s) \in s
  BY DEF Some
<1>2. IsFiniteSet(s) /\ Cardinality(s) \in Nat /\ Cardinality(s) # 0
  BY FS_Subset, FS_CardinalityType, FS_EmptySet
<1>3. Cardinality(s \ {Some(s)}) = Cardinality(s) - 1
  BY <1>1, <1>2, FS_RemoveElement
<1>4. QED
  BY <1>1, <1>2, <1>3 DEF Small

LEMMA SummedStep ==
  ASSUME NEW S, IsFiniteSet(S), NEW w \in [S -> Nat], NEW n \in Nat,
         n # 0 => Summed(w, S, n - 1)
  PROVE  Summed(w, S, n)
<1>1. CASE n = 0
  <2>1. \A s \in Small(S, n) : s = {}
    BY <1>1, SmallFacts DEF Small
  <2>2. PICK f : f = [s \in Small(S, n) |-> 0]
    OBVIOUS
  <2>3. f \in [Small(S, n) -> Nat] /\ \A s \in Small(S, n) : f[s] = Adds(w, f, s)
    BY <2>1, <2>2 DEF Adds
  <2>4. QED
    BY <2>3 DEF Summed
<1>2. CASE n # 0
  <2>1. PICK f \in [Small(S, n - 1) -> Nat] : \A s \in Small(S, n - 1) : f[s] = Adds(w, f, s)
    BY <1>2 DEF Summed
  <2>2. ASSUME NEW s \in Small(S, n)
        PROVE  Adds(w, f, s) \in Nat
    <3>1. CASE s = {}
      BY <3>1 DEF Adds
    <3>2. CASE s # {}
      <4>1. Some(s) \in S /\ f[s \ {Some(s)}] \in Nat
        BY <2>1, <3>2, SmallFacts DEF Small
      <4>2. QED
        BY <3>2, <4>1 DEF Adds
    <3>3. QED
      BY <3>1, <3>2
  <2>3. PICK g : g = [s \in Small(S, n) |-> Adds(w, f, s)]
    OBVIOUS
  <2>4. g \in [Small(S, n) -> Nat]
    BY <2>2, <2>3
  <2>5. Small(S, n - 1) \subseteq Small(S, n)
    <3>1. ASSUME NEW s \in Small(S, n - 1) PROVE Cardinality(s) <= n
      <4>1. Cardinality(s) \in Nat /\ Cardinality(s) <= n - 1
        BY FS_Subset, FS_CardinalityType DEF Small
      <4>2. QED
        BY <4>1
    <3>2. QED
      BY <3>1 DEF Small
  <2>6. ASSUME NEW s \in Small(S, n)
        PROVE  g[s] = Adds(w, g, s)
    <3>1. CASE s = {}
      BY <2>3, <3>1 DEF Adds
    <3>2. CASE s # {}
      <4>1. s \ {Some(s)} \in Small(S, n - 1)
        BY <3>2, SmallFacts DEF Small
      <4>2. g[s \ {Some(s)}] = f[s \ {Some(s)}]
        BY <2>1, <2>3, <2>5, <4>1
      <4>3. QED
        BY <2>3, <3>2, <4>2 DEF Adds
    <3>3. QED
      BY <3>1, <3>2
  <2>7. QED
    BY <2>4, <2>6 DEF Summed
<1>3. QED
  BY <1>1, <1>2

LEMMA SummedAlways ==
  ASSUME NEW S, IsFiniteSet(S), NEW w \in [S -> Nat]
  PROVE  \A n \in Nat : Summed(w, S, n)
<1> DEFINE Not == {n \in Nat : ~Summed(w, S, n)}
<1>1. SUFFICES ASSUME Not # {} PROVE FALSE
  OBVIOUS
<1>2. PICK n \in Not : \A m \in Not : n <= m
  BY <1>1, LeastExists
<1>3. n # 0 => Summed(w, S, n - 1)
  BY <1>2
<1>4. QED
  BY <1>2, <1>3, SummedStep

\* A sum of natural numbers is one, and it is positive only when one of them is.
LEMMA SumFacts ==
  ASSUME NEW S, IsFiniteSet(S), NEW w \in [S -> Nat]
  PROVE  /\ SumFunction(w) \in Nat
         /\ SumFunction(w) > 0 => \E x \in S : w[x] > 0
<1>1. Cardinality(S) \in Nat
  BY FS_CardinalityType
<1>2. Small(S, Cardinality(S)) = SUBSET S
  BY FS_Subset DEF Small
<1>3. PICK g \in [SUBSET S -> Nat] : \A s \in SUBSET S : g[s] = Adds(w, g, s)
  <2>1. Summed(w, S, Cardinality(S))
    BY <1>1, SummedAlways
  <2>2. QED
    BY <1>2, <2>1, Zenon DEF Summed
<1>4. SumFunction(w) =
        LET iter[s \in SUBSET S] ==
              IF s = {} THEN 0
              ELSE w[CHOOSE x \in s : TRUE] + iter[s \ {CHOOSE x \in s : TRUE}]
        IN iter[S]
  <2>1. DOMAIN w = S
    OBVIOUS
  <2>2. QED
    BY <2>1, Zenon DEF SumFunction, SumFunctionOnSet, FoldFunctionOnSet, MapThenFoldSet
<1> DEFINE f[s \in SUBSET S] ==
             IF s = {} THEN 0
             ELSE w[CHOOSE x \in s : TRUE] + f[s \ {CHOOSE x \in s : TRUE}]
<1>5. SumFunction(w) = f[S]
  BY <1>4, Zenon
<1>6. f = [s \in SUBSET S |-> Adds(w, f, s)]
  <2>1. g = [s \in SUBSET S |-> Adds(w, g, s)]
    BY <1>3
  <2>2. g = [s \in SUBSET S |->
              IF s = {} THEN 0
              ELSE w[CHOOSE x \in s : TRUE] + g[s \ {CHOOSE x \in s : TRUE}]]
    BY <2>1, Zenon DEF Adds, Some
  <2>3. f = [s \in SUBSET S |->
              IF s = {} THEN 0
              ELSE w[CHOOSE x \in s : TRUE] + f[s \ {CHOOSE x \in s : TRUE}]]
    BY <2>2, Zenon
  <2>4. QED
    BY <2>3, Zenon DEF Adds, Some
<1> HIDE DEF f
<1> DEFINE Sound(s) == f[s] \in Nat /\ (f[s] > 0 => \E x \in S : w[x] > 0)
           Not == {n \in Nat : \E s \in SUBSET S : Cardinality(s) = n /\ ~Sound(s)}
<1>7. Not = {}
  <2>1. SUFFICES ASSUME Not # {} PROVE FALSE
    OBVIOUS
  <2>2. PICK n \in Not : \A m \in Not : n <= m
    BY <2>1, LeastExists
  <2>3. PICK s \in SUBSET S : Cardinality(s) = n /\ ~Sound(s)
    BY <2>2
  <2>4. f[s] = Adds(w, f, s)
    BY <1>6
  <2>5. s # {}
    BY <2>3, <2>4 DEF Adds
  <2>6. /\ Some(s) \in s /\ Cardinality(s \ {Some(s)}) < n
        /\ Cardinality(s \ {Some(s)}) \in Nat
    BY <2>2, <2>3, <2>5, SmallFacts
  <2>7. Sound(s \ {Some(s)})
    BY <2>2, <2>6
  <2>8. f[s] = w[Some(s)] + f[s \ {Some(s)}] /\ w[Some(s)] \in Nat
    BY <2>4, <2>5, <2>6 DEF Adds
  <2>9. QED
    BY <2>3, <2>6, <2>7, <2>8
<1>8. Sound(S)
  BY <1>1, <1>7
<1>9. QED
  BY <1>5, <1>8

\* A rate is a number, and reaches its threshold only by work.
LEMMA RateFacts ==
  ASSUME NEW e \in Entries
  PROVE  /\ Rate(e) \in Nat
         /\ Rate(e) >= 12 => e.io >= e.elapsed
         /\ Rate(e) > 0 => e.io > 0
<1>1. PICK io \in Nat, elapsed \in Nat \ {0} : io = e.io /\ elapsed = e.elapsed
  BY DEF Entries
<1>2. /\ (12 * io) \div elapsed \in Nat
      /\ (12 * io) \div elapsed >= 12 => io >= elapsed
      /\ (12 * io) \div elapsed > 0 => io > 0
  OBVIOUS
<1>3. QED
  BY <1>1, <1>2 DEF Rate

LEMMA MaxFacts ==
  ASSUME NEW a \in Int, NEW b \in Int
  PROVE  /\ Max({a, b}) = IF a >= b THEN a ELSE b
         /\ Min({a, b}) = IF a <= b THEN a ELSE b
BY DEF Max, Min

LEMMA MostFacts ==
  ASSUME NEW h \in Seq(Snapshots), NEW of \in Nat, of >= MinimumEvidence(h)
  PROVE  2 * of >= Len(h)
<1>1. Len(h) \in Nat /\ (Len(h) + 1) \div 2 \in Int /\ 2 * ((Len(h) + 1) \div 2) >= Len(h)
  OBVIOUS
<1>2. of >= (Len(h) + 1) \div 2
  BY <1>1, MaxFacts DEF MinimumEvidence
<1>3. QED
  BY <1>1, <1>2

LEMMA SubsetCounts ==
  ASSUME NEW n \in Nat, NEW S \in SUBSET (1..n), NEW T \in SUBSET S
  PROVE  /\ IsFiniteSet(S) /\ Cardinality(S) \in Nat /\ Cardinality(T) \in Nat
         /\ Cardinality(T) <= Cardinality(S) /\ Cardinality(S) <= n
         /\ Cardinality(S) > 0 => S # {}
<1>1. IsFiniteSet(1..n) /\ Cardinality(1..n) = n
  <2>1. n \in Int /\ 1 \in Int /\ (IF 1 > n THEN 0 ELSE n - 1 + 1) = n
    OBVIOUS
  <2>2. QED
    BY <2>1, FS_Interval, Zenon
<1>2. /\ IsFiniteSet(S) /\ Cardinality(S) <= n
  <2>1. PICK all : all = 1..n
    OBVIOUS
  <2>2. IsFiniteSet(all) /\ Cardinality(all) = n /\ S \in SUBSET all
    BY <1>1, <2>1
  <2>3. IsFiniteSet(S) /\ Cardinality(S) <= Cardinality(all)
    BY <2>2, FS_Subset, Zenon
  <2>4. QED
    BY <2>2, <2>3
<1>3. /\ IsFiniteSet(T) /\ Cardinality(T) <= Cardinality(S)
  BY <1>2, FS_Subset
<1>4. QED
  BY <1>2, <1>3, FS_CardinalityType, FS_EmptySet

\* Of a finite set of identities, one comes first by weight and order.
Precedes(weight, a, b) ==
  \/ weight[b] < weight[a]
  \/ weight[b] = weight[a] /\ (a[1] < b[1] \/ (a[1] = b[1] /\ a[2] < b[2]))
Identified == Nat \X Nat
Leads(weight, S, id) == \A other \in S \ {id} : Precedes(weight, id, other)

LEMMA LeadExists ==
  ASSUME NEW ids \in SUBSET Identified, IsFiniteSet(ids), NEW weight \in [ids -> Nat]
  PROVE  \A S \in SUBSET ids : S # {} => \E id \in S : Leads(weight, S, id)
<1> DEFINE Led(S) == S # {} => \E id \in S : Leads(weight, S, id)
           Not == {n \in Nat : \E S \in SUBSET ids : Cardinality(S) = n /\ ~Led(S)}
<1>1. Not = {}
  <2>1. SUFFICES ASSUME Not # {} PROVE FALSE
    OBVIOUS
  <2>2. PICK n \in Not : \A m \in Not : n <= m
    BY <2>1, LeastExists
  <2>3. PICK S \in SUBSET ids : Cardinality(S) = n /\ ~Led(S)
    BY <2>2
  <2>4. PICK x \in S : TRUE
    BY <2>3
  <2>5. /\ Cardinality(S \ {x}) = n - 1 /\ n - 1 \in Nat
    <3>1. IsFiniteSet(S) /\ IsFiniteSet(S \ {x})
      BY FS_Subset
    <3>2. Cardinality(S \ {x}) = Cardinality(S) - 1 /\ Cardinality(S \ {x}) \in Nat
      BY <2>4, <3>1, FS_RemoveElement, FS_CardinalityType
    <3>3. QED
      BY <2>3, <3>2
  <2>6. Led(S \ {x})
    BY <2>2, <2>5
  <2>7. CASE S \ {x} = {}
    <3>1. Leads(weight, S, x)
      BY <2>7 DEF Leads
    <3>2. QED
      BY <2>3, <2>4, <3>1
  <2>8. CASE S \ {x} # {}
    <3>1. PICK id \in S \ {x} : Leads(weight, S \ {x}, id)
      BY <2>6, <2>8
    <3>2. \A a \in ids : a[1] \in Nat /\ a[2] \in Nat /\ a = <<a[1], a[2]>> /\ weight[a] \in Nat
      BY DEF Identified
    <3>3. Precedes(weight, id, x) \/ Precedes(weight, x, id)
      BY <3>2 DEF Precedes
    <3>4. ASSUME Precedes(weight, id, x) PROVE Leads(weight, S, id)
      BY <3>1, <3>4 DEF Leads
    <3>5. ASSUME Precedes(weight, x, id), NEW other \in S \ {x}
          PROVE  Precedes(weight, x, other)
      <4>1. CASE other = id
        BY <3>5, <4>1
      <4>2. CASE other # id
        <5>1. Precedes(weight, id, other)
          BY <3>1, <4>2 DEF Leads
        <5>2. QED
          BY <2>4, <3>2, <3>5, <5>1 DEF Precedes
      <4>3. QED
        BY <4>1, <4>2
    <3>6. Precedes(weight, x, id) => Leads(weight, S, x)
      BY <3>5 DEF Leads
    <3>7. QED
      BY <2>3, <2>4, <3>3, <3>4, <3>6
  <2>9. QED
    BY <2>7, <2>8
<1>2. ASSUME NEW S \in SUBSET ids PROVE Led(S)
  <2>1. Cardinality(S) \in Nat
    BY FS_Subset, FS_CardinalityType
  <2>2. QED
    BY <1>1, <2>1
<1>3. QED
  BY <1>2

LEMMA GreatestFacts ==
  ASSUME NEW ids \in SUBSET Identified, IsFiniteSet(ids), ids # {}, NEW weight \in [ids -> Nat]
  PROVE  Greatest(weight) \in ids
<1>1. PICK id \in ids : Leads(weight, ids, id)
  BY LeadExists
<1>2. DOMAIN weight = ids
  OBVIOUS
<1>3. QED
  BY <1>1, <1>2 DEF Greatest, Leads, Precedes

-----------------------------------------------------------------------------
(***************************************************************************)
(* The diagnoses and the baseline, each with what its operators add up.    *)
(***************************************************************************)
\* What a diagnosis says is sustained in the samples that tell.
LEMMA FoundFacts ==
  ASSUME NEW type, NEW subject, NEW hits, NEW of, NEW d \in Found(type, subject, hits, of)
  PROVE  d.type = type /\ d.subject = subject /\ Sustained(hits, of)
BY DEF Found

Tells(h) == {i \in DOMAIN h : Protectable(h[i])}
SeenAt(h, id) ==
  {i \in DOMAIN h :
     \E e \in {x \in h[i].processes : Identity(x) = id /\ Eligible(h[i], x)} : Rate(e) >= 12}

Blames(h, d) ==
  \E ids, weight :
    /\ ids \in SUBSET Identities(h) /\ ids # {} /\ weight = [id \in ids |-> weight[id]]
    /\ \A id \in ids :
         /\ Cardinality(Tells(h)) >= MinimumEvidence(h)
         /\ Sustained(Cardinality(SeenAt(h, id)), Cardinality(Tells(h)))
         /\ weight[id] = SumFunction([i \in DOMAIN h |-> SumOfRates(
              {e \in h[i].processes : Identity(e) = id /\ Eligible(h[i], e)})])
    /\ d.type = "BackgroundIoImpact" /\ d.subject = Greatest(weight)

LEMMA BackgroundFacts ==
  ASSUME NEW h, NEW d \in BackgroundIo(h)
  PROVE  Blames(h, d)
<1> DEFINE of == Cardinality(Tells(h))
           hits(id) == Cardinality(SeenAt(h, id))
           total(id) == SumFunction([i \in DOMAIN h |-> SumOfRates(
                  {e \in h[i].processes : Identity(e) = id /\ Eligible(h[i], e)})])
           ids == {id \in Identities(h) : of >= MinimumEvidence(h) /\ Sustained(hits(id), of)}
           weight == [id \in ids |-> total(id)]
           top == Greatest(weight)
<1>1. BackgroundIo(h) = IF ids = {} THEN {} ELSE Found("BackgroundIoImpact", top, hits(top), of)
  BY Zenon DEF BackgroundIo, Samples, Tells, SeenAt
<1>2. ids # {} /\ d \in Found("BackgroundIoImpact", top, hits(top), of)
  BY <1>1
<1>3. d.type = "BackgroundIoImpact" /\ d.subject = top
  BY <1>2, FoundFacts
<1>4. QED
  BY <1>2, <1>3, Zenon DEF Blames

LEMMA SystemTypes ==
  ASSUME NEW h, NEW d \in SystemDiagnoses(h)
  PROVE  d.type \in {"MemoryPressure", "PagingPressure", "CpuSaturation"}
BY FoundFacts DEF SystemDiagnoses

\* The memory of the foreground: the same argument, with the hits as the weight.
ShortAt(h, id) ==
  {i \in DOMAIN h :
     h[i].complete /\ h[i].condition.memory
       /\ \E e \in h[i].processes : /\ Identity(e) = id /\ e.foreground
                                    /\ e.name \in Development}

BlamesForeground(h, d) ==
  \E ids, weight :
    /\ ids \in SUBSET Identities(h) /\ ids # {} /\ weight = [id \in ids |-> weight[id]]
    /\ \A id \in ids :
         /\ Sustained(Cardinality(ShortAt(h, id)),
                      Cardinality({i \in DOMAIN h : Complete(h[i])}))
         /\ weight[id] = Cardinality(ShortAt(h, id))
    /\ d.type = "ForegroundAppMemoryPressure" /\ d.subject = Greatest(weight)

LEMMA ForegroundFacts ==
  ASSUME NEW h, NEW d \in ForegroundMemory(h)
  PROVE  BlamesForeground(h, d)
<1> DEFINE of == Cardinality({i \in DOMAIN h : Complete(h[i])})
           hits(id) == Cardinality(ShortAt(h, id))
           ids == {id \in Identities(h) : of >= MinimumEvidence(h) /\ Sustained(hits(id), of)}
           weight == [id \in ids |-> hits(id)]
           top == Greatest(weight)
<1>1. ForegroundMemory(h) =
        IF ids = {} THEN {} ELSE Found("ForegroundAppMemoryPressure", top, hits(top), of)
  BY Zenon DEF ForegroundMemory, Samples, ShortAt
<1>2. ids # {} /\ d \in Found("ForegroundAppMemoryPressure", top, hits(top), of)
  BY <1>1
<1>3. d.type = "ForegroundAppMemoryPressure" /\ d.subject = top
  BY <1>2, FoundFacts
<1>4. QED
  BY <1>2, <1>3, Zenon DEF BlamesForeground

DiskTypes == {"DiskBottleneck", "HddPagingBottleneck", "SsdSpacePressure"}

LEMMA DiskFound ==
  ASSUME NEW n, NEW seen, NEW measured, NEW slow, NEW paging, NEW low, NEW least, 
         NEW d \in IF seen < least THEN {}
                   ELSE Found("DiskBottleneck", n, slow, seen)
                        \cup Found("HddPagingBottleneck", n, paging, seen)
                        \cup (IF measured < least THEN {}
                              ELSE Found("SsdSpacePressure", n, low, measured))
  PROVE  d.type \in DiskTypes
BY FoundFacts DEF DiskTypes

LEMMA DiskFacts ==
  ASSUME NEW h, NEW d \in DiskDiagnoses(h)
  PROVE  d.type \in DiskTypes
<1> DEFINE At(n, i) == {dd \in h[i].condition.disks : dd.name = n}
           seen(n) == Cardinality({i \in DOMAIN h : \E dd \in At(n, i) : TRUE})
           measured(n) ==
             Cardinality({i \in DOMAIN h : \E dd \in At(n, i) : ~dd.hdd /\ dd.measured})
           slow(n) == Cardinality({i \in DOMAIN h : \E dd \in At(n, i) : dd.slow})
           paging(n) ==
             Cardinality({i \in DOMAIN h : \E dd \in At(n, i) :
               /\ dd.slow /\ dd.hdd
               /\ h[i].condition.memory /\ h[i].condition.paging})
           low(n) ==
             Cardinality({i \in DOMAIN h : \E dd \in At(n, i) :
               ~dd.hdd /\ dd.measured /\ dd.low})
           Of(n) ==
             IF seen(n) < MinimumEvidence(h) THEN {}
             ELSE Found("DiskBottleneck", n, slow(n), seen(n))
                  \cup Found("HddPagingBottleneck", n, paging(n), seen(n))
                  \cup (IF measured(n) < MinimumEvidence(h) THEN {}
                        ELSE Found("SsdSpacePressure", n, low(n), measured(n)))
<1>1. DiskDiagnoses(h) = UNION {Of(dd.name) : dd \in UNION {h[i].condition.disks : i \in DOMAIN h}}
  BY Zenon DEF DiskDiagnoses
<1> HIDE DEF seen, measured, slow, paging, low
<1>2. PICK n : d \in Of(n)
  BY <1>1, Zenon
<1>3. QED
  BY <1>2, DiskFound, Zenon

LEMMA HistoryFacts ==
  ASSUME HistoryInv
  PROVE  /\ history \in Seq(Snapshots) /\ Len(history) \in Nat
         /\ DOMAIN history = 1..Len(history) /\ IsFiniteSet(DOMAIN history)
         /\ \A i \in DOMAIN history :
              /\ Reliable(history[i]) /\ history[i].processes \in SUBSET Entries
              /\ IsFiniteSet(history[i].processes)
<1>1. /\ history \in Seq(Snapshots) /\ Len(history) \in Nat
      /\ DOMAIN history = 1..Len(history)
      /\ \A i \in 1..Len(history) : Reliable(history[i])
  BY DEF HistoryInv
<1>2. IsFiniteSet(1..Len(history))
  BY <1>1, FS_Interval
<1>3. \A i \in 1..Len(history) : history[i] \in Snapshots
  BY <1>1
<1>4. QED
  BY <1>1, <1>2, <1>3 DEF Snapshots, Reliable

LEMMA IdentitiesFacts ==
  ASSUME HistoryInv, NEW ids \in SUBSET Identities(history)
  PROVE  ids \in SUBSET Identified /\ IsFiniteSet(ids)
<1>1. PICK of : of = [i \in DOMAIN history |-> {Identity(e) : e \in history[i].processes}]
  OBVIOUS
<1>2. Identities(history) = UNION {of[i] : i \in DOMAIN history}
  BY <1>1 DEF Identities
<1>3. ASSUME NEW i \in DOMAIN history
      PROVE  IsFiniteSet(of[i]) /\ of[i] \in SUBSET Identified
  <2>1. PICK identity : identity = [e \in history[i].processes |-> Identity(e)]
    OBVIOUS
  <2>2. of[i] = {identity[e] : e \in history[i].processes}
    BY <1>1, <2>1
  <2>3. IsFiniteSet(of[i])
    <3>1. DOMAIN identity = history[i].processes
      BY <2>1
    <3>2. QED
      BY <2>2, <3>1, HistoryFacts, ImageIsFinite
  <2>4. ASSUME NEW e \in history[i].processes PROVE Identity(e) \in Identified
    <3>1. e \in Entries
      BY HistoryFacts
    <3>2. QED
      BY <3>1 DEF Entries, Identity, Identified, MonitoringAssumption
  <2>5. QED
    BY <2>1, <2>2, <2>3, <2>4
<1>4. IsFiniteSet({of[i] : i \in DOMAIN history})
  <2>1. DOMAIN of = DOMAIN history /\ IsFiniteSet(DOMAIN history)
    BY <1>1, HistoryFacts
  <2>2. QED
    BY <2>1, ImageIsFinite
<1>5. IsFiniteSet(Identities(history)) /\ Identities(history) \in SUBSET Identified
  BY <1>2, <1>3, <1>4, FS_UNION
<1>6. QED
  BY <1>5, FS_Subset

LEMMA RatesFacts ==
  ASSUME HistoryInv, NEW part, DOMAIN part = DOMAIN history,
         \A i \in DOMAIN history : part[i] \in SUBSET history[i].processes
  PROVE  LET sum == SumFunction([i \in DOMAIN history |-> SumOfRates(part[i])])
         IN  /\ sum \in Nat
             /\ sum > 0 => \E i \in DOMAIN history : \E e \in part[i] : Rate(e) > 0
<1>1. ASSUME NEW i \in DOMAIN history
      PROVE  /\ SumOfRates(part[i]) \in Nat
             /\ SumOfRates(part[i]) > 0 => \E e \in part[i] : Rate(e) > 0
  <2>1. part[i] \in SUBSET Entries /\ IsFiniteSet(part[i])
    BY HistoryFacts, FS_Subset
  <2>2. PICK rates : rates = [e \in part[i] |-> Rate(e)]
    OBVIOUS
  <2>3. rates \in [part[i] -> Nat]
    BY <2>1, <2>2, RateFacts
  <2>4. /\ SumFunction(rates) \in Nat
        /\ SumFunction(rates) > 0 => \E e \in part[i] : rates[e] > 0
    BY <2>1, <2>3, SumFacts
  <2>5. QED
    BY <2>2, <2>4 DEF SumOfRates
<1>2. PICK sums : sums = [i \in DOMAIN history |-> SumOfRates(part[i])]
  OBVIOUS
<1>3. sums \in [DOMAIN history -> Nat]
  BY <1>1, <1>2
<1>4. /\ SumFunction(sums) \in Nat
      /\ SumFunction(sums) > 0 => \E i \in DOMAIN history : sums[i] > 0
  BY <1>3, HistoryFacts, SumFacts
<1>5. QED
  BY <1>1, <1>2, <1>4

\* Blame: the counts of a diagnosis are those of its subject.
LEMMA SubjectFacts ==
  ASSUME HistoryInv, NEW d \in BackgroundIo(history)
  PROVE  /\ Cardinality(Tells(history)) >= MinimumEvidence(history)
         /\ Sustained(Cardinality(SeenAt(history, d.subject)), Cardinality(Tells(history)))
<1> DEFINE Part(id) ==
             [i \in DOMAIN history |->
                {e \in history[i].processes : Identity(e) = id /\ Eligible(history[i], e)}]
           Sum(part) == SumFunction([i \in DOMAIN history |-> SumOfRates(part[i])])
<1>1. PICK ids, weight :
        /\ ids \in SUBSET Identities(history) /\ ids # {} /\ weight = [id \in ids |-> weight[id]]
        /\ \A id \in ids :
             /\ Cardinality(Tells(history)) >= MinimumEvidence(history)
             /\ Sustained(Cardinality(SeenAt(history, id)), Cardinality(Tells(history)))
             /\ weight[id] = SumFunction([i \in DOMAIN history |-> SumOfRates(
                  {e \in history[i].processes :
                     Identity(e) = id /\ Eligible(history[i], e)})])
        /\ d.type = "BackgroundIoImpact" /\ d.subject = Greatest(weight)
  <2>1. Blames(history, d)
    BY BackgroundFacts
  <2>2. QED
    BY <2>1, Zenon DEF Blames
<1>2. ASSUME NEW id \in ids PROVE weight[id] \in Nat
  <2>1. PICK part : part = Part(id)
    OBVIOUS
  <2>2. Sum(part) \in Nat
    <3>1. /\ DOMAIN part = DOMAIN history
          /\ \A i \in DOMAIN history : part[i] \in SUBSET history[i].processes
      BY <2>1
    <3>2. QED
      BY <3>1, RatesFacts
  <2>3. [i \in DOMAIN history |-> SumOfRates(part[i])] =
          [i \in DOMAIN history |-> SumOfRates(
             {e \in history[i].processes : Identity(e) = id /\ Eligible(history[i], e)})]
    BY <2>1
  <2>4. QED
    BY <1>1, <2>2, <2>3
<1>3. ids \in SUBSET Identified /\ IsFiniteSet(ids)
  BY <1>1, IdentitiesFacts
<1>4. weight \in [ids -> Nat]
  BY <1>1, <1>2
<1>5. d.subject \in ids
  BY <1>1, <1>3, <1>4, GreatestFacts
<1>6. QED
  BY <1>1, <1>5

\* Who is seen at it was at it, where everything was read.
LEMMA SeenIsBusy ==
  ASSUME HistoryInv, NEW i \in DOMAIN history, Protectable(history[i]),
         NEW e \in history[i].processes, Eligible(history[i], e)
  PROVE  /\ ~e.guarded
         /\ Rate(e) > 0 /\ e.exact => e.did > 0
         /\ Rate(e) >= 12 /\ e.exact => e.did >= e.span
<1>1. e \in Entries /\ Reliable(history[i])
  BY HistoryFacts
<1>2. history[i].tcp /\ ~e.protected
  BY DEF Protectable, Eligible
<1>3. ~e.guarded
  BY <1>1, <1>2 DEF Reliable
<1>4. e.exact /\ e.io > 0 => e.io = e.did /\ e.elapsed = e.span
  BY <1>1 DEF Reliable
<1>5. e.io \in Nat /\ e.elapsed \in Nat \ {0}
  BY <1>1 DEF Entries
<1>6. QED
  BY <1>1, <1>3, <1>4, <1>5, RateFacts

LEMMA BlameIsTrue ==
  ASSUME HistoryInv, \A i \in DOMAIN history : Exact(history[i]),
         NEW d \in BackgroundIo(history),
         NEW busy, busy = {i \in Tells(history) : \E e \in history[i].processes :
                             Identity(e) = d.subject /\ (e.did >= e.span /\ ~e.guarded)}
  PROVE  /\ 2 * Cardinality(busy) >= Cardinality(Tells(history))
         /\ 2 * Cardinality(Tells(history)) >= Len(history)
<1>1. /\ Cardinality(Tells(history)) >= MinimumEvidence(history)
      /\ Sustained(Cardinality(SeenAt(history, d.subject)), Cardinality(Tells(history)))
  BY SubjectFacts
<1>2. SeenAt(history, d.subject) \in SUBSET busy
  <2>1. ASSUME NEW i \in SeenAt(history, d.subject) PROVE i \in busy
    <3>1. PICK e \in history[i].processes :
            Identity(e) = d.subject /\ Eligible(history[i], e) /\ Rate(e) >= 12
      BY DEF SeenAt
    <3>2. i \in DOMAIN history /\ Protectable(history[i]) /\ e.exact
      BY <3>1 DEF SeenAt, Eligible, Exact
    <3>3. e.did >= e.span /\ ~e.guarded
      BY <3>1, <3>2, SeenIsBusy
    <3>4. QED
      BY <3>1, <3>2, <3>3 DEF Tells
  <2>2. QED
    BY <2>1
<1>3. /\ busy \in SUBSET (1..Len(history)) /\ Tells(history) \in SUBSET (1..Len(history))
      /\ Len(history) \in Nat /\ history \in Seq(Snapshots)
  BY HistoryFacts DEF Tells
<1>4. /\ Cardinality(busy) \in Nat /\ Cardinality(SeenAt(history, d.subject)) \in Nat
      /\ Cardinality(SeenAt(history, d.subject)) <= Cardinality(busy)
  BY <1>2, <1>3, SubsetCounts
<1>5. Cardinality(Tells(history)) \in Nat
  BY <1>3, SubsetCounts
<1>6. 2 * Cardinality(Tells(history)) >= Len(history)
  BY <1>1, <1>3, <1>5, MostFacts
<1>7. 2 * Cardinality(SeenAt(history, d.subject)) >= Cardinality(Tells(history))
  BY <1>1 DEF Sustained
<1>8. QED
  BY <1>4, <1>5, <1>6, <1>7

LEMMA ForegroundIsTrue ==
  ASSUME HistoryInv, NEW d \in ForegroundMemory(history)
  PROVE  \E i \in DOMAIN history : \E e \in history[i].processes :
           Identity(e) = d.subject /\ e.foreground /\ history[i].condition.memory
<1> DEFINE All == {i \in DOMAIN history : Complete(history[i])}
<1>1. PICK ids, weight :
        /\ ids \in SUBSET Identities(history) /\ ids # {} /\ weight = [id \in ids |-> weight[id]]
        /\ \A id \in ids :
             /\ Sustained(Cardinality(ShortAt(history, id)), Cardinality(All))
             /\ weight[id] = Cardinality(ShortAt(history, id))
        /\ d.subject = Greatest(weight)
  <2>1. BlamesForeground(history, d)
    BY ForegroundFacts
  <2>2. QED
    BY <2>1, Zenon DEF BlamesForeground
<1>2. /\ Len(history) \in Nat /\ All \in SUBSET (1..Len(history))
      /\ \A id : ShortAt(history, id) \in SUBSET (1..Len(history))
  BY HistoryFacts DEF ShortAt
<1>3. \A id \in ids : weight[id] \in Nat
  <2>1. ASSUME NEW id \in ids PROVE Cardinality(ShortAt(history, id)) \in Nat
    BY <1>2, SubsetCounts
  <2>2. QED
    BY <1>1, <2>1
<1>4. weight \in [ids -> Nat]
  BY <1>1, <1>3
<1>5. d.subject \in ids
  BY <1>1, <1>4, IdentitiesFacts, GreatestFacts
<1>6. ShortAt(history, d.subject) # {}
  <2>1. Cardinality(All) \in Nat
    BY <1>2, SubsetCounts
  <2>2. /\ Cardinality(ShortAt(history, d.subject)) \in Nat
        /\ Cardinality(ShortAt(history, d.subject)) > 0 => ShortAt(history, d.subject) # {}
    BY <1>2, SubsetCounts
  <2>3. Sustained(Cardinality(ShortAt(history, d.subject)), Cardinality(All))
    BY <1>1, <1>5
  <2> HIDE DEF All
  <2>4. QED
    BY <2>1, <2>2, <2>3 DEF Sustained
<1>7. QED
  BY <1>6 DEF ShortAt

\* The baseline, and the work that it adds up for a name.
WorkOf(h, name) ==
  SumFunction([i \in DOMAIN h |-> SumOfRates(
    {e \in h[i].processes : Eligible(h[i], e) /\ e.name = name})])

LEMMA PointFacts ==
  ASSUME NEW h, NEW point, point = MakeBenchmarkPoint(h)
  PROVE  /\ point.samples = Len(h)
         /\ point.process = Cardinality({i \in DOMAIN h : Complete(h[i])})
         /\ point.tcp = Cardinality({i \in DOMAIN h : h[i].tcp})
         /\ point.protection = Cardinality(Tells(h))
         /\ \A name \in point.top : WorkOf(h, name) > 0
BY DEF MakeBenchmarkPoint, Samples, Tells, WorkOf

LEMMA TopIsTrue ==
  ASSUME HistoryInv, NEW name \in MakeBenchmarkPoint(history).top
  PROVE  \E i \in Tells(history) : \E e \in history[i].processes :
           e.name = name /\ ~e.guarded /\ (e.exact => e.did > 0)
<1>1. PICK part : part = [i \in DOMAIN history |->
        {e \in history[i].processes : Eligible(history[i], e) /\ e.name = name}]
  OBVIOUS
<1>2. /\ DOMAIN part = DOMAIN history
      /\ \A i \in DOMAIN history : part[i] \in SUBSET history[i].processes
  BY <1>1
<1>3. [i \in DOMAIN history |-> SumOfRates(part[i])] =
        [i \in DOMAIN history |-> SumOfRates(
           {e \in history[i].processes : Eligible(history[i], e) /\ e.name = name})]
  BY <1>1
<1>4. SumFunction([i \in DOMAIN history |-> SumOfRates(part[i])]) > 0
  <2>1. WorkOf(history, name) > 0
    BY PointFacts
  <2>2. QED
    BY <1>3, <2>1 DEF WorkOf
<1>5. PICK i \in DOMAIN history : \E e \in part[i] : Rate(e) > 0
  BY <1>2, <1>4, RatesFacts
<1>6. PICK e \in history[i].processes :
        Eligible(history[i], e) /\ e.name = name /\ Rate(e) > 0
  BY <1>1, <1>5
<1>7. Protectable(history[i])
  BY <1>6 DEF Eligible
<1>8. QED
  BY <1>6, <1>7, SeenIsBusy DEF Tells

LEMMA EvidenceHolds == HistoryInv => EvidenceIsTrue
<1> SUFFICES ASSUME HistoryInv PROVE EvidenceIsTrue
  OBVIOUS
<1>1. PICK point : point = MakeBenchmarkPoint(history)
  OBVIOUS
<1>2. PICK telling : telling = Tells(history)
  OBVIOUS
<1>3. telling = {i \in DOMAIN history : history[i].complete /\ history[i].tcp}
  BY <1>2 DEF Tells, Protectable
<1>4. ASSUME \A i \in DOMAIN history : Exact(history[i]),
             NEW d \in Evaluate(history), d.type = "BackgroundIoImpact"
      PROVE  LET busy == {i \in telling : \E e \in history[i].processes :
                            Identity(e) = d.subject /\ (e.did >= e.span /\ ~e.guarded)}
             IN 2 * Cardinality(busy) >= Cardinality(telling)
                /\ 2 * Cardinality(telling) >= Len(history)
  <2>1. d \in BackgroundIo(history)
    BY <1>4, SystemTypes, DiskFacts, ForegroundFacts DEF Evaluate, DiskTypes, BlamesForeground
  <2>2. QED
    BY <1>2, <1>4, <2>1, BlameIsTrue
<1>5. ASSUME NEW d \in Evaluate(history), d.type = "ForegroundAppMemoryPressure"
      PROVE  \E i \in DOMAIN history : \E e \in history[i].processes :
               Identity(e) = d.subject /\ e.foreground /\ history[i].condition.memory
  <2>1. d \in ForegroundMemory(history)
    BY <1>5, SystemTypes, DiskFacts, BackgroundFacts DEF Evaluate, DiskTypes, Blames
  <2>2. QED
    BY <2>1, ForegroundIsTrue
<1>6. \A name \in point.top : \E i \in telling : \E e \in history[i].processes :
        e.name = name /\ ~e.guarded /\ (e.exact => e.did > 0)
  BY <1>1, <1>2, TopIsTrue
<1>7. /\ history # <<>> => point.samples > 0
      /\ point.protection <= Min({point.process, point.tcp})
      /\ Max({point.process, point.tcp}) <= point.samples
  <2>1. PICK processes, tcps : /\ processes = {i \in DOMAIN history : Complete(history[i])}
                               /\ tcps = {i \in DOMAIN history : history[i].tcp}
    OBVIOUS
  <2>2. /\ telling \in SUBSET processes /\ telling \in SUBSET tcps
        /\ processes \in SUBSET (1..Len(history)) /\ tcps \in SUBSET (1..Len(history))
        /\ Len(history) \in Nat
    BY <1>3, <2>1, HistoryFacts DEF Complete
  <2>3. /\ Cardinality(telling) \in Nat /\ Cardinality(processes) \in Nat
        /\ Cardinality(telling) <= Cardinality(processes)
        /\ Cardinality(processes) <= Len(history)
    BY <2>2, SubsetCounts
  <2>4. /\ Cardinality(tcps) \in Nat /\ Cardinality(telling) <= Cardinality(tcps)
        /\ Cardinality(tcps) <= Len(history)
    BY <2>2, SubsetCounts
  <2>5. /\ point.samples = Len(history) /\ point.process = Cardinality(processes)
        /\ point.tcp = Cardinality(tcps) /\ point.protection = Cardinality(telling)
    BY <1>1, <1>2, <2>1, PointFacts
  <2>6. history # <<>> => Len(history) > 0
    BY HistoryFacts
  <2>7. PICK p \in Nat, t \in Nat, n \in Nat, both \in Nat :
          /\ point.samples = n /\ point.process = p /\ point.tcp = t /\ point.protection = both
          /\ both <= p /\ both <= t /\ p <= n /\ t <= n
          /\ history # <<>> => n > 0
    BY <2>2, <2>3, <2>4, <2>5, <2>6
  <2>8. both <= Min({p, t}) /\ Max({p, t}) <= n
    <3>1. /\ Max({p, t}) = IF p >= t THEN p ELSE t
          /\ Min({p, t}) = IF p <= t THEN p ELSE t
      BY MaxFacts
    <3>2. QED
      BY <2>7, <3>1
  <2>9. QED
    BY <2>7, <2>8
<1>8. QED
  BY <1>1, <1>3, <1>4, <1>5, <1>6, <1>7, Zenon DEF EvidenceIsTrue

\* What a diagnosis and a baseline say is what was seen, for any number of processes,
\* a history of any size and any failures of the inventories.
THEOREM EvidenceIsAlwaysTrue == MonitoringSpec => []EvidenceIsTrue
<1>1. MonitoringInit => HistoryInv
  BY EmptySeq DEF MonitoringInit, HistoryInv
<1>2. QED
  BY <1>1, CollectorAlwaysInv, HistoryInvStep, EvidenceHolds, PTL DEF MonitoringSpec

-----------------------------------------------------------------------------
(***************************************************************************)
(* The observation of a start.  An identity is a PID and a start; the      *)
(* start of a process that ends is never given again.                      *)
(***************************************************************************)
Fields == {"at", "unread", "current", "existing", "before", "candidates", "next", "owner",
           "polls", "report"}
Ids == ObservedPids \X (Nat \ {0})
Observed == [start : Nat \ {0}, named : BOOLEAN, window : {"none", "hung", "ready"}]
Candidates == [id : Ids, visible : BOOLEAN, sure : BOOLEAN]

Indices == 1..Len(observer.candidates)
CandidateId(i) == observer.candidates[i].id
Sure(i) == observer.candidates[i].sure

ObserverTypeOK ==
  /\ begun \in Nat
  /\ present \in [ObservedPids -> Observed \cup {Nobody}]
  /\ DOMAIN observer = Fields
  /\ observer.unread \subseteq ObservedPids
  /\ observer.current \subseteq Ids /\ IsFiniteSet(observer.current)
  /\ observer.before \subseteq Ids
  /\ observer.candidates \in Seq(Candidates)
  /\ observer.next \in Nat \ {0}

Alive(id) == present[id[1]].start = id[2]
Gone(id) == id \in denied \/ ~Alive(id)

\* Every identity that was seen has begun.
BegunInv ==
  /\ \A p \in ObservedPids : present[p].start <= begun
  /\ \A id \in observer.current \cup observer.before : id[2] <= begun
  /\ \A i \in Indices : CandidateId(i)[2] <= begun

\* Whoever was there before is on the first list, unless it is gone or its start
\* was not told, and no candidate was there before.
BeforeInv ==
  /\ observer.at = "starts" =>
       \A id \in observer.before :
         id[1] \in observer.unread \/ id \in observer.current \/ Gone(id)
  /\ observer.at \notin {"initial", "starts"} =>
       \A id \in observer.before :
         /\ id \in observer.existing \/ Gone(id)
         /\ id \in observer.current => id \in observer.existing \/ id \in denied
  /\ observer.at = "initial" => observer.before = {}
  /\ observer.at \in {"initial", "starts"} => observer.candidates = <<>>
  /\ \A i \in Indices : CandidateId(i) \in observer.before => CandidateId(i) \in denied

\* A PID of the last list still has its process while it has not changed hands.
ListInv ==
  /\ \A p \in observer.unread \ changed : p \in Present /\ present[p].named
  /\ \A id \in observer.current : id[1] \notin changed => Alive(id) /\ present[id[1]].named

\* The last list has the candidates that are still there.
CandidateInv ==
  /\ \A i \in Indices : Sure(i) /\ Alive(CandidateId(i)) => present[CandidateId(i)[1]].named
  /\ observer.at \in {"final", "final starts"} => observer.candidates # <<>>
  /\ observer.at = "final starts" =>
       \A i \in Indices : Sure(i) =>
         \/ CandidateId(i)[1] \in observer.unread
         \/ CandidateId(i) \in observer.current
         \/ Gone(CandidateId(i))

OwnerInv ==
  observer.at = "respond" =>
    /\ observer.next \in Indices
    /\ Candidate.id[1] \in changed \/ observer.owner = Candidate.id

ReportInv ==
  LET report == observer.report
  IN /\ report # NothingReported => observer.at = "done"
     /\ report.status = "Succeeded" =>
          /\ report.id \in observer.before => report.id \in denied
          /\ report.id[1] \in changed \/ report.owner = report.id
     /\ report.status = "ProcessExited" =>
          /\ \E i \in Indices : CandidateId(i) = report.id
          /\ \A i \in Indices : CandidateId(i) = report.id /\ Sure(i) => Gone(report.id)

ObserverInv ==
  /\ ObserverTypeOK /\ BegunInv /\ BeforeInv /\ ListInv /\ CandidateInv
  /\ OwnerInv /\ ReportInv
-----------------------------------------------------------------------------
USE ObserverAssumption

\* A first index is found where there is one.
LEMMA LeastFacts ==
  ASSUME NEW S \in SUBSET Nat, S # {}
  PROVE  Min(S) \in S
BY LeastExists DEF Min

LEMMA FirstRunningFacts ==
  ASSUME observer.candidates \in Seq(Candidates), FirstRunning = 0, NEW i \in Indices
  PROVE  CandidateId(i) \notin observer.current
<1> DEFINE found == {j \in Indices : StillRunning(observer.candidates[j].id)}
<1>1. FirstRunning = IF found # {} THEN Min(found) ELSE 0
  BY Zenon DEF FirstRunning, SelectInSeq, Indices
<1>2. found \in SUBSET Nat /\ 0 \notin found
  BY DEF Indices
<1>3. found # {} => Min(found) \in found
  BY <1>2, LeastFacts
<1>4. found = {}
  BY <1>1, <1>2, <1>3
<1>5. QED
  BY <1>4 DEF CandidateId, StillRunning

\* The fields that a step of the observer names, and all others as they were.
LEMMA GoesFacts ==
  ASSUME DOMAIN observer = Fields, NEW fields, DOMAIN fields \subseteq Fields, Goes(fields)
  PROVE  /\ DOMAIN observer' = Fields
         /\ \A f \in DOMAIN fields : observer'[f] = fields[f]
         /\ \A f \in Fields \ DOMAIN fields : observer'[f] = observer[f]
BY DEF Goes

LEMMA EndedFacts ==
  ASSUME DOMAIN observer = Fields, NEW status, NEW id, Ended(status, id)
  PROVE  /\ DOMAIN observer' = Fields /\ observer'.at = "done"
         /\ observer'.report = [status |-> status, id |-> id, owner |-> observer.owner]
         /\ observer'.report # NothingReported
         /\ \A f \in Fields \ {"at", "report"} : observer'[f] = observer[f]
<1> DEFINE report == [status |-> status, id |-> id, owner |-> observer.owner]
           fields == [at |-> "done", report |-> report]
<1>1. Goes(fields)
  BY DEF Ended
<1>2. /\ DOMAIN fields = {"at", "report"} /\ fields["at"] = "done"
      /\ fields["report"] = report
  OBVIOUS
<1>3. report # NothingReported
  BY DEF NothingReported
<1> HIDE DEF fields, report
<1>4. /\ DOMAIN observer' = Fields
      /\ observer'["at"] = "done" /\ observer'["report"] = report
      /\ \A f \in Fields \ {"at", "report"} : observer'[f] = observer[f]
  BY <1>1, <1>2, GoesFacts DEF Fields
<1>5. QED
  BY <1>3, <1>4 DEF report

\* What a process can do about the identities: none comes back, and a PID that has
\* not changed hands has its process.
LEMMA ProcessFacts ==
  ASSUME ObserverTypeOK, BegunInv, NEW p \in ObservedPids, Begins(p) \/ Ends(p) \/ Shows(p)
  PROVE  /\ begun' \in Nat /\ begun <= begun'
         /\ present' \in [ObservedPids -> Observed \cup {Nobody}]
         /\ \A q \in ObservedPids : present'[q].start <= begun'
         /\ changed \subseteq changed' /\ UNCHANGED <<observer, denied>>
         /\ \A id \in Ids : id[2] <= begun /\ Alive(id)' =>
              Alive(id) /\ present'[id[1]].named = present[id[1]].named
         /\ \A q \in Present \ changed' :
              /\ q \in Present' /\ present'[q].start = present[q].start
              /\ present'[q].named = present[q].named
<1>1. /\ begun \in Nat /\ present \in [ObservedPids -> Observed \cup {Nobody}]
      /\ \A q \in ObservedPids : present[q].start <= begun
  BY DEF ObserverTypeOK, BegunInv
<1>2. Nobody.start = 0
  BY DEF Nobody
<1>3. \A q \in ObservedPids : present[q].start \in Nat
  BY <1>1, <1>2 DEF Observed
<1>4. \A id \in Ids : id[1] \in ObservedPids /\ id[2] \in Nat \ {0}
  BY DEF Ids
<1>5. CASE Begins(p)
  <2>1. PICK named \in BOOLEAN :
          present' = [present EXCEPT ![p] =
            [start |-> begun + 1, named |-> named, window |-> "none"]]
    BY <1>5 DEF Begins
  <2>2. PICK new \in Observed : present' = [present EXCEPT ![p] = new] /\ new.start = begun + 1
    <3>1. [start |-> begun + 1, named |-> named, window |-> "none"] \in Observed
      BY <1>1 DEF Observed
    <3>2. QED
      BY <2>1, <3>1
  <2>3. present'[p] = new /\ \A q \in ObservedPids \ {p} : present'[q] = present[q]
    BY <1>1, <2>2
  <2>4. /\ begun' = begun + 1 /\ UNCHANGED <<observer, denied, changed>> /\ p \notin Present
    BY <1>5 DEF Begins
  <2>5. present' \in [ObservedPids -> Observed \cup {Nobody}]
    BY <1>1, <2>2
  <2>6. \A q \in ObservedPids : present'[q].start <= begun + 1
    BY <1>1, <1>3, <2>2, <2>3
  <2>7. \A id \in Ids : id[2] <= begun /\ Alive(id)' => id[1] # p
    BY <1>1, <1>4, <2>2, <2>3 DEF Alive
  <2>8. \A id \in Ids : id[2] <= begun /\ Alive(id)' =>
          Alive(id) /\ present'[id[1]].named = present[id[1]].named
    BY <1>4, <2>3, <2>7 DEF Alive
  <2>9. \A q \in Present : q # p /\ q \in ObservedPids
    BY <2>4 DEF Present
  <2>10. \A q \in Present : q \in Present' /\ present'[q] = present[q]
    BY <2>3, <2>9 DEF Present
  <2>11. QED
    BY <1>1, <2>4, <2>5, <2>6, <2>8, <2>10
<1>6. CASE Ends(p)
  <2>1. /\ present' = [present EXCEPT ![p] = Nobody] /\ changed' = changed \cup {p}
        /\ UNCHANGED <<begun, observer, denied>>
    BY <1>6 DEF Ends
  <2>2. present'[p] = Nobody /\ \A q \in ObservedPids \ {p} : present'[q] = present[q]
    BY <1>1, <2>1
  <2>3. present' \in [ObservedPids -> Observed \cup {Nobody}]
    BY <1>1, <2>1
  <2>4. \A q \in ObservedPids : present'[q].start <= begun
    BY <1>1, <1>2, <2>2
  <2>5. \A id \in Ids : Alive(id)' => id[1] # p
    BY <1>2, <1>4, <2>2 DEF Alive
  <2>6. \A id \in Ids : Alive(id)' =>
          Alive(id) /\ present'[id[1]].named = present[id[1]].named
    BY <1>4, <2>2, <2>5 DEF Alive
  <2>7. \A q \in Present \ changed' : q \in Present' /\ present'[q] = present[q]
    BY <2>1, <2>2 DEF Present
  <2>8. QED
    BY <1>1, <2>1, <2>3, <2>4, <2>6, <2>7
<1>7. CASE Shows(p)
  <2>1. PICK window \in {"hung", "ready"} : present' = [present EXCEPT ![p].window = window]
    BY <1>7 DEF Shows
  <2>2. present[p] \in Observed /\ UNCHANGED <<begun, observer, denied, changed>>
    BY <1>1, <1>7 DEF Shows, Present
  <2>3. PICK new \in Observed :
          /\ present' = [present EXCEPT ![p] = new]
          /\ new.start = present[p].start /\ new.named = present[p].named
    <3>1. [present[p] EXCEPT !.window = window] \in Observed
      BY <2>2 DEF Observed
    <3>2. QED
      BY <2>1, <2>2, <3>1 DEF Observed
  <2>4. \A q \in ObservedPids :
          present'[q].start = present[q].start /\ present'[q].named = present[q].named
    BY <1>1, <2>3
  <2>5. present' \in [ObservedPids -> Observed \cup {Nobody}]
    BY <1>1, <2>3
  <2>6. \A id \in Ids : Alive(id)' =>
          Alive(id) /\ present'[id[1]].named = present[id[1]].named
    BY <1>4, <2>4 DEF Alive
  <2>7. \A q \in Present : q \in Present'
    <3>1. ASSUME NEW q \in Present PROVE q \in Present'
      <4>1. q \in ObservedPids /\ present[q].start # 0
        BY <1>1 DEF Present, Observed
      <4>2. present'[q].start # 0
        BY <2>4, <4>1
      <4>3. QED
        BY <1>2, <4>1, <4>2 DEF Present
    <3>2. QED
      BY <3>1
  <2>8. QED
    BY <1>1, <2>2, <2>4, <2>5, <2>6, <2>7 DEF Present
<1>8. QED
  BY <1>5, <1>6, <1>7

LEMMA CandidateFacts ==
  ASSUME ObserverTypeOK
  PROVE  /\ Indices \subseteq Nat \ {0} /\ Len(observer.candidates) \in Nat
         /\ \A i \in Indices : /\ observer.candidates[i] \in Candidates
                             /\ CandidateId(i) \in Ids /\ Sure(i) \in BOOLEAN
<1>1. observer.candidates \in Seq(Candidates)
  BY DEF ObserverTypeOK
<1>2. Len(observer.candidates) \in Nat /\ \A i \in Indices : observer.candidates[i] \in Candidates
  BY <1>1 DEF Indices
<1>3. \A c \in Candidates : c.id \in Ids /\ c.sure \in BOOLEAN
  BY DEF Candidates
<1>4. QED
  BY <1>2, <1>3 DEF Indices, CandidateId, Sure

LEMMA ProcessStep ==
  ASSUME ObserverInv, NEW p \in ObservedPids, Begins(p) \/ Ends(p) \/ Shows(p)
  PROVE  ObserverInv'
<1>1. ObserverTypeOK /\ BegunInv
  BY DEF ObserverInv
<1>2. /\ begun' \in Nat /\ begun <= begun' /\ begun \in Nat
      /\ present' \in [ObservedPids -> Observed \cup {Nobody}]
      /\ \A q \in ObservedPids : present'[q].start <= begun'
      /\ changed \subseteq changed' /\ UNCHANGED <<observer, denied>>
  BY <1>1, ProcessFacts DEF ObserverTypeOK
<1>3. \A id \in Ids : id[2] <= begun /\ Alive(id)' =>
        Alive(id) /\ present'[id[1]].named = present[id[1]].named
  BY <1>1, ProcessFacts
<1>4. \A q \in Present \ changed' :
        /\ q \in Present' /\ present'[q].start = present[q].start
        /\ present'[q].named = present[q].named
  BY <1>1, ProcessFacts
<1>5. /\ observer.current \subseteq Ids /\ observer.before \subseteq Ids
      /\ observer.unread \subseteq ObservedPids
      /\ \A id \in observer.current \cup observer.before : id[2] <= begun
      /\ \A i \in Indices : CandidateId(i) \in Ids /\ CandidateId(i)[2] <= begun
  BY <1>1, CandidateFacts DEF ObserverTypeOK, BegunInv
<1>6. \A id \in Ids : id[2] \in Nat /\ id[1] \in ObservedPids /\ id[2] # 0
  BY DEF Ids
<1>7. UNCHANGED Indices /\ \A i : UNCHANGED CandidateId(i) /\ UNCHANGED Sure(i)
  BY <1>2 DEF Indices, CandidateId, Sure
<1>8. \A id \in Ids : id[2] <= begun /\ Gone(id) => Gone(id)'
  BY <1>2, <1>3 DEF Gone
<1>9. ObserverTypeOK'
  BY <1>1, <1>2 DEF ObserverTypeOK
<1>10. BegunInv'
  <2>1. \A id \in Ids : id[2] <= begun => id[2] <= begun'
    BY <1>2, <1>6
  <2>2. \A id \in observer.current \cup observer.before : id[2] <= begun'
    BY <1>5, <2>1
  <2>3. \A i \in Indices : CandidateId(i)[2] <= begun'
    BY <1>5, <2>1
  <2>4. QED
    BY <1>2, <1>7, <2>2, <2>3 DEF BegunInv
<1>11. BeforeInv'
  BY <1>2, <1>5, <1>7, <1>8 DEF ObserverInv, BeforeInv
<1>12. ListInv'
  <2>1. \A q \in observer.unread \ changed' : q \in Present' /\ present'[q].named
    BY <1>2, <1>4 DEF ObserverInv, ListInv
  <2>2. ASSUME NEW id \in observer.current, id[1] \notin changed'
        PROVE  Alive(id)' /\ present'[id[1]].named
    <3>1. Alive(id) /\ present[id[1]].named /\ id \in Ids
      BY <1>2, <1>5, <2>2 DEF ObserverInv, ListInv
    <3>2. id[1] \in Present
      BY <1>6, <3>1 DEF Alive, Present, Nobody
    <3>3. QED
      BY <1>4, <2>2, <3>1, <3>2 DEF Alive
  <2>3. QED
    BY <1>2, <2>1, <2>2 DEF ListInv
<1>13. CandidateInv'
  <2>1. ASSUME NEW i \in Indices', Sure(i)', Alive(CandidateId(i))'
        PROVE  present'[CandidateId(i)'[1]].named
    <3>1. PICK id \in Ids : id = CandidateId(i) /\ id[2] <= begun
      BY <1>5, <1>7
    <3>2. Sure(i) /\ Alive(id)' /\ i \in Indices
      BY <1>7, <2>1, <3>1 DEF Alive
    <3>3. Alive(CandidateId(i)) /\ present'[id[1]].named = present[id[1]].named
      BY <1>3, <3>1, <3>2
    <3>4. present[id[1]].named
      BY <3>1, <3>2, <3>3 DEF ObserverInv, CandidateInv
    <3>5. QED
      BY <1>7, <3>1, <3>3, <3>4
  <2>2. ASSUME observer.at = "final starts", NEW i \in Indices', Sure(i)'
        PROVE  \/ CandidateId(i)'[1] \in observer.unread
               \/ CandidateId(i)' \in observer.current
               \/ Gone(CandidateId(i))'
    <3>1. PICK id \in Ids : id = CandidateId(i) /\ id[2] <= begun
      BY <1>5, <1>7
    <3>2. id[1] \in observer.unread \/ id \in observer.current \/ Gone(id)
      BY <1>7, <2>2, <3>1 DEF ObserverInv, CandidateInv
    <3>3. Gone(id) => Gone(CandidateId(i))'
      BY <1>7, <1>8, <3>1 DEF Gone, Alive
    <3>4. QED
      BY <1>7, <3>1, <3>2, <3>3
  <2>3. observer.at \in {"final", "final starts"} => observer.candidates # <<>>
    BY DEF ObserverInv, CandidateInv
  <2>4. QED
    BY <1>2, <2>1, <2>2, <2>3 DEF CandidateInv
<1>14. OwnerInv'
  BY <1>2, <1>7 DEF ObserverInv, OwnerInv, Candidate
<1>15. ReportInv'
  <2>1. ReportInv
    BY DEF ObserverInv
  <2>2. observer.report.status = "ProcessExited" => Gone(observer.report.id)'
           \/ \A i \in Indices : CandidateId(i) = observer.report.id => ~Sure(i)
    <3>1. SUFFICES ASSUME observer.report.status = "ProcessExited",
                          NEW i \in Indices, CandidateId(i) = observer.report.id, Sure(i)
                   PROVE  Gone(observer.report.id)'
      OBVIOUS
    <3>2. Gone(CandidateId(i))
      BY <2>1, <3>1 DEF ReportInv
    <3>3. QED
      BY <1>2, <1>5, <1>8, <3>1, <3>2 DEF Gone, Alive
  <2>3. QED
    BY <1>2, <1>7, <2>1, <2>2 DEF ReportInv
<1>16. QED
  BY <1>9, <1>10, <1>11, <1>12, <1>13, <1>14, <1>15 DEF ObserverInv

\* A step of the observer that reads nothing and lists nobody.
QuietStep ==
  /\ UNCHANGED <<present, begun, changed>> /\ denied \subseteq denied'
  /\ UNCHANGED <<observer.unread, observer.current, observer.before>>
  /\ DOMAIN observer' = Fields /\ observer'.next \in Nat \ {0}
  /\ observer'.candidates \in Seq(Candidates)
  /\ Len(observer'.candidates) = Len(observer.candidates)
  /\ \A i \in Indices : /\ observer'.candidates[i].id = observer.candidates[i].id
                       /\ observer'.candidates[i].sure = observer.candidates[i].sure

LEMMA QuietFacts ==
  ASSUME ObserverInv, QuietStep
  PROVE  /\ ObserverTypeOK' /\ BegunInv' /\ ListInv'
         /\ \A id : Gone(id) => id \in denied' \/ ~Alive(id)
         /\ Indices' = Indices
<1>1. UNCHANGED <<present, begun, changed>> /\ denied \subseteq denied'
  BY DEF QuietStep
<1>2. /\ UNCHANGED <<observer.unread, observer.current, observer.before>>
      /\ DOMAIN observer' = Fields /\ observer'.next \in Nat \ {0}
      /\ observer'.candidates \in Seq(Candidates)
  BY DEF QuietStep
<1>3. Indices' = Indices
  BY DEF QuietStep, Indices
<1>4. \A i \in Indices : CandidateId(i)' = CandidateId(i) /\ Sure(i)' = Sure(i)
  BY DEF QuietStep, CandidateId, Sure
<1>5. ObserverTypeOK'
  BY <1>1, <1>2 DEF ObserverInv, ObserverTypeOK
<1>6. BegunInv'
  BY <1>1, <1>2, <1>3, <1>4 DEF ObserverInv, BegunInv
<1>7. ListInv'
  BY <1>1, <1>2 DEF ObserverInv, ListInv, Alive, Present
<1>8. \A id : Gone(id) => id \in denied' \/ ~Alive(id)
  BY <1>1 DEF Gone
<1>9. QED
  BY <1>3, <1>5, <1>6, <1>7, <1>8

\* Such a step once there is a first list, with what it must say of its own.
LEMMA TurnStep ==
  ASSUME ObserverInv, QuietStep,
         observer.at # "starts",
         observer'.at \notin {"initial", "starts", "final starts"},
         observer.at # "initial" => observer'.existing = observer.existing,
         observer'.at = "final" => observer.candidates # <<>>,
         OwnerInv', ReportInv'
  PROVE  ObserverInv'
<1>1. /\ ObserverTypeOK' /\ BegunInv' /\ ListInv'
      /\ \A id : Gone(id) => id \in denied' \/ ~Alive(id)
  BY QuietFacts
<1>2. /\ UNCHANGED present /\ denied \subseteq denied'
      /\ UNCHANGED <<observer.before, observer.current>>
  BY DEF QuietStep
<1>3. ASSUME NEW i \in Indices'
      PROVE  /\ i \in Indices /\ CandidateId(i)' = CandidateId(i) /\ Sure(i)' = Sure(i)
             /\ Sure(i) /\ Alive(CandidateId(i)) => present[CandidateId(i)[1]].named
             /\ CandidateId(i) \in observer.before => CandidateId(i) \in denied
  <2>1. Indices' = Indices
    BY QuietFacts
  <2>2. i \in Indices
    BY <1>3, <2>1
  <2>3. CandidateId(i)' = CandidateId(i) /\ Sure(i)' = Sure(i)
    BY <2>2 DEF QuietStep, CandidateId, Sure
  <2>4. /\ Sure(i) /\ Alive(CandidateId(i)) => present[CandidateId(i)[1]].named
        /\ CandidateId(i) \in observer.before => CandidateId(i) \in denied
    BY <2>2 DEF ObserverInv, CandidateInv, BeforeInv
  <2>5. QED
    BY <2>2, <2>3, <2>4
<1>4. BeforeInv'
  <2>1. ASSUME NEW i \in Indices', CandidateId(i)' \in observer'.before
        PROVE  CandidateId(i)' \in denied'
    BY <1>2, <1>3, <2>1
  <2>2. ASSUME NEW id \in observer'.before
        PROVE  /\ id \in observer'.existing \/ Gone(id)'
               /\ id \in observer'.current => id \in observer'.existing \/ id \in denied'
    <3>1. id \in observer.before /\ observer.at \notin {"initial", "starts"}
      BY <1>2, <2>2 DEF ObserverInv, BeforeInv
    <3>2. /\ id \in observer.existing \/ Gone(id)
          /\ id \in observer.current => id \in observer.existing \/ id \in denied
      BY <3>1 DEF ObserverInv, BeforeInv
    <3>3. QED
      BY <1>1, <1>2, <3>1, <3>2 DEF Gone, Alive
  <2>3. QED
    BY <2>1, <2>2 DEF BeforeInv
<1>5. CandidateInv'
  <2>1. ASSUME NEW i \in Indices', Sure(i)', Alive(CandidateId(i))'
        PROVE  present'[CandidateId(i)'[1]].named
    <3>1. i \in Indices /\ CandidateId(i)' = CandidateId(i) /\ Sure(i)' = Sure(i)
      BY <1>3
    <3>2. Alive(CandidateId(i))
      BY <1>2, <2>1, <3>1 DEF Alive
    <3>3. QED
      BY <1>2, <1>3, <2>1, <3>1, <3>2
  <2>2. observer.candidates # <<>> => observer'.candidates # <<>>
    <3>1. observer.candidates \in Seq(Candidates) /\ observer'.candidates \in Seq(Candidates)
      BY <1>1 DEF ObserverInv, ObserverTypeOK
    <3>2. Len(observer'.candidates) = Len(observer.candidates)
      BY DEF QuietStep
    <3>3. QED
      BY <3>1, <3>2, EmptySeq
  <2>3. QED
    BY <2>1, <2>2 DEF CandidateInv
<1>6. QED
  BY <1>1, <1>4, <1>5 DEF ObserverInv

\* The fields of a step that names none of those that QuietStep leaves alone.
LEMMA QuietFields ==
  ASSUME ObserverInv, UNCHANGED <<present, begun, changed>>, denied \subseteq denied',
         DOMAIN observer' = Fields,
         \A f \in {"unread", "current", "before", "candidates"} : observer'[f] = observer[f],
         observer'.next \in Nat \ {0}
  PROVE  QuietStep /\ observer'.candidates = observer.candidates
BY DEF QuietStep, ObserverInv, ObserverTypeOK

LEMMA EndedStep ==
  ASSUME ObserverInv, NEW status, NEW id, Ended(status, id),
         UNCHANGED <<present, begun, changed>>, denied \subseteq denied',
         observer.at # "starts",
         status = "Succeeded" =>
           /\ id \in observer.before => id \in denied
           /\ id[1] \in changed \/ observer.owner = id,
         status = "ProcessExited" =>
           /\ \E i \in Indices : CandidateId(i) = id
           /\ \A i \in Indices : CandidateId(i) = id /\ Sure(i) => Gone(id)
  PROVE  ObserverInv'
<1>1. DOMAIN observer = Fields /\ observer.next \in Nat \ {0}
  BY DEF ObserverInv, ObserverTypeOK
<1>2. /\ DOMAIN observer' = Fields /\ observer'.at = "done"
      /\ observer'.report = [status |-> status, id |-> id, owner |-> observer.owner]
      /\ \A f \in Fields \ {"at", "report"} : observer'[f] = observer[f]
  BY <1>1, EndedFacts
<1>3. QuietStep /\ observer'.candidates = observer.candidates
  BY <1>1, <1>2, QuietFields DEF Fields
<1>4. /\ observer'.existing = observer.existing /\ observer'.before = observer.before
  BY <1>2 DEF Fields
<1>5. OwnerInv'
  BY <1>2 DEF OwnerInv
<1>6. Indices' = Indices /\ \A i : CandidateId(i)' = CandidateId(i) /\ Sure(i)' = Sure(i)
  BY <1>3 DEF Indices, CandidateId, Sure
<1>7. ReportInv'
  <2>1. /\ observer'.report.status = status /\ observer'.report.id = id
        /\ observer'.report.owner = observer.owner
    BY <1>2
  <2>2. Gone(id) /\ observer'.report.id = id => Gone(observer.report.id)'
    BY DEF Gone, Alive
  <2>3. QED
    BY <1>2, <1>4, <1>6, <2>1, <2>2 DEF ReportInv
<1>8. QED
  BY <1>2, <1>3, <1>4, <1>5, <1>7, TurnStep

LEMMA NothingReportedYet ==
  ASSUME ObserverInv, observer.at # "done", observer'.report = observer.report
  PROVE  ReportInv'
<1>1. observer.report = NothingReported
  BY DEF ObserverInv, ReportInv
<1>2. NothingReported.status = "none"
  BY DEF NothingReported
<1>3. QED
  BY <1>1, <1>2 DEF ReportInv

\* A step that says only where the observer goes on.
LEMMA MoveStep ==
  ASSUME ObserverInv, NEW fields, DOMAIN fields \subseteq {"at", "next", "polls"}, Goes(fields),
         UNCHANGED <<present, begun, denied, changed>>,
         observer.at \notin {"starts", "done"},
         observer'.at \notin {"initial", "starts", "final starts", "respond"},
         observer'.at = "final" => observer.candidates # <<>>,
         observer'.next \in Nat \ {0}
  PROVE  ObserverInv'
<1>1. DOMAIN observer = Fields /\ DOMAIN fields \subseteq Fields
  BY DEF ObserverInv, ObserverTypeOK, Fields
<1>2. /\ DOMAIN observer' = Fields
      /\ \A f \in Fields \ {"at", "next", "polls"} : observer'[f] = observer[f]
  BY <1>1, GoesFacts
<1>3. /\ \A f \in {"unread", "current", "before", "candidates"} : observer'[f] = observer[f]
      /\ observer'.existing = observer.existing /\ observer'.report = observer.report
  BY <1>2 DEF Fields
<1>4. QuietStep
  BY <1>2, <1>3, QuietFields
<1>5. ReportInv'
  BY <1>3, NothingReportedYet
<1>6. OwnerInv'
  BY DEF OwnerInv
<1>7. QED
  BY <1>3, <1>4, <1>5, <1>6, TurnStep

LEMMA PollsStep == ObserverInv /\ Polls => ObserverInv'
<1> SUFFICES ASSUME ObserverInv, Polls PROVE ObserverInv'
  OBVIOUS
<1>1. PICK fields : fields = [at |-> "poll", polls |-> observer.polls + 1]
  OBVIOUS
<1>2. Goes(fields) /\ observer.at = "loop" /\ UNCHANGED <<present, begun, denied, changed>>
  BY <1>1 DEF Polls
<1>3. DOMAIN fields = {"at", "polls"} /\ fields["at"] = "poll"
  BY <1>1
<1>4. DOMAIN observer = Fields /\ observer.next \in Nat \ {0}
  BY DEF ObserverInv, ObserverTypeOK
<1>5. observer'.at = "poll" /\ observer'.next = observer.next
  BY <1>2, <1>3, <1>4, GoesFacts DEF Fields
<1>6. QED
  BY <1>2, <1>3, <1>4, <1>5, MoveStep

LEMMA TimeIsUpStep == ObserverInv /\ TimeIsUp => ObserverInv'
<1> SUFFICES ASSUME ObserverInv, TimeIsUp PROVE ObserverInv'
  OBVIOUS
<1>1. observer.at = "loop" /\ UNCHANGED <<present, begun, denied, changed>>
  BY DEF TimeIsUp
<1>2. CASE observer.candidates = <<>>
  <2>1. Ended("TimedOut", <<>>)
    BY <1>2 DEF TimeIsUp
  <2>2. QED
    BY <1>1, <2>1, EndedStep
<1>3. CASE observer.candidates # <<>>
  <2>1. PICK fields : fields = [at |-> "final"]
    OBVIOUS
  <2>2. Goes(fields)
    BY <1>3, <2>1 DEF TimeIsUp
  <2>3. DOMAIN fields = {"at"} /\ fields["at"] = "final"
    BY <2>1
  <2>4. DOMAIN observer = Fields /\ observer.next \in Nat \ {0}
    BY DEF ObserverInv, ObserverTypeOK
  <2>5. observer'.at = "final" /\ observer'.next = observer.next
    BY <2>2, <2>3, <2>4, GoesFacts DEF Fields
  <2>6. QED
    BY <1>1, <1>3, <2>2, <2>3, <2>4, <2>5, MoveStep
<1>4. QED
  BY <1>2, <1>3

LEMMA SnapshotFailsStep == ObserverInv /\ SnapshotFails => ObserverInv'
<1> SUFFICES ASSUME ObserverInv, SnapshotFails PROVE ObserverInv'
  OBVIOUS
<1>1. /\ Ended("QueryFailed", <<>>) /\ observer.at # "starts"
      /\ denied \subseteq denied' /\ UNCHANGED <<present, begun, changed>>
  BY DEF SnapshotFails
<1>2. QED
  BY <1>1, EndedStep

LEMMA RespondsStep == ObserverInv /\ Responds => ObserverInv'
<1> SUFFICES ASSUME ObserverInv, Responds PROVE ObserverInv'
  OBVIOUS
<1>1. observer.at = "respond" /\ UNCHANGED <<present, begun, denied, changed>>
  BY DEF Responds
<1>2. /\ observer.next \in Indices
      /\ Candidate.id[1] \in changed \/ observer.owner = Candidate.id
  BY <1>1 DEF ObserverInv, OwnerInv
<1>3. Candidate.id \in observer.before => Candidate.id \in denied
  BY <1>2 DEF ObserverInv, BeforeInv, Candidate, CandidateId
<1>4. CASE Ended("Succeeded", Candidate.id)
  BY <1>1, <1>2, <1>3, <1>4, EndedStep
<1>5. CASE Goes([at |-> "windows", next |-> observer.next + 1])
  <2>1. PICK fields : fields = [at |-> "windows", next |-> observer.next + 1]
    OBVIOUS
  <2>2. Goes(fields)
    BY <1>5, <2>1
  <2>3. DOMAIN observer = Fields /\ observer.next \in Nat \ {0}
    BY DEF ObserverInv, ObserverTypeOK
  <2>4. /\ DOMAIN fields = {"at", "next"} /\ fields["at"] = "windows"
        /\ fields["next"] \in Nat \ {0}
    BY <2>1, <2>3
  <2>5. observer'.at = "windows" /\ observer'.next \in Nat \ {0}
    BY <2>2, <2>3, <2>4, GoesFacts DEF Fields
  <2>6. QED
    BY <1>1, <2>2, <2>4, <2>5, MoveStep
<1>6. QED
  BY <1>4, <1>5 DEF Responds

LEMMA ConcludesStep == ObserverInv /\ Concludes => ObserverInv'
<1> SUFFICES ASSUME ObserverInv, Concludes PROVE ObserverInv'
  OBVIOUS
<1>1. /\ observer.at = "final starts" /\ observer.unread = {}
      /\ UNCHANGED <<present, begun, denied, changed>>
  BY DEF Concludes
<1>2. CASE Ended("WindowUnresponsive", observer.candidates[FirstVisible].id)
  BY <1>1, <1>2, EndedStep
<1>3. CASE Ended("WindowNotFound", observer.candidates[FirstRunning].id)
  BY <1>1, <1>3, EndedStep
<1>4. CASE FirstRunning = 0 /\ Ended("ProcessExited", observer.candidates[1].id)
  <2>1. observer.candidates \in Seq(Candidates) /\ observer.candidates # <<>>
    BY <1>1 DEF ObserverInv, ObserverTypeOK, CandidateInv
  <2>2. 1 \in Indices
    BY <2>1, EmptySeq DEF Indices
  <2>3. ASSUME NEW i \in Indices, Sure(i)
        PROVE  Gone(CandidateId(i))
    <3>1. CandidateId(i) \notin observer.current
      BY <1>4, <2>1, FirstRunningFacts
    <3>2. QED
      BY <1>1, <2>3, <3>1 DEF ObserverInv, CandidateInv
  <2>4. \E i \in Indices : CandidateId(i) = observer.candidates[1].id
    BY <2>2 DEF CandidateId
  <2>5. \A i \in Indices : CandidateId(i) = observer.candidates[1].id /\ Sure(i) =>
          Gone(observer.candidates[1].id)
    BY <2>3
  <2>6. QED
    BY <1>1, <1>4, <2>4, <2>5, EndedStep
<1>5. QED
  BY <1>2, <1>3, <1>4 DEF Concludes

LEMMA FindWindowStep == ObserverInv /\ FindWindow => ObserverInv'
<1> SUFFICES ASSUME ObserverInv, FindWindow PROVE ObserverInv'
  OBVIOUS
<1>1. observer.at = "windows" /\ UNCHANGED <<present, begun, denied, changed>>
  BY DEF FindWindow
<1>2. /\ DOMAIN observer = Fields /\ observer.next \in Nat \ {0}
      /\ observer.candidates \in Seq(Candidates) /\ observer.current \subseteq Ids
  BY DEF ObserverInv, ObserverTypeOK
<1>3. CASE Goes([at |-> "loop"])
  <2>1. PICK fields : fields = [at |-> "loop"]
    OBVIOUS
  <2>2. DOMAIN fields = {"at"} /\ fields["at"] = "loop" /\ Goes(fields)
    BY <1>3, <2>1
  <2>3. observer'.at = "loop" /\ observer'.next = observer.next
    BY <1>2, <2>2, GoesFacts DEF Fields
  <2>4. QED
    BY <1>1, <1>2, <2>2, <2>3, MoveStep
<1>4. CASE Goes([next |-> observer.next + 1])
  <2>1. PICK fields : fields = [next |-> observer.next + 1]
    OBVIOUS
  <2>2. DOMAIN fields = {"next"} /\ fields["next"] \in Nat \ {0} /\ Goes(fields)
    BY <1>2, <1>4, <2>1
  <2>3. observer'.at = "windows" /\ observer'.next \in Nat \ {0}
    BY <1>1, <1>2, <2>2, GoesFacts DEF Fields
  <2>4. QED
    BY <1>1, <1>2, <2>2, <2>3, MoveStep
<1>5. CASE /\ observer.next <= Len(observer.candidates) /\ StillRunning(Candidate.id)
           /\ Goes([at |-> "respond", owner |-> IdentityOf(Candidate.id[1]),
                    candidates |->
                      [observer.candidates EXCEPT ![observer.next].visible = TRUE]])
  <2>1. observer.next \in Indices /\ Candidate \in Candidates
    BY <1>2, <1>5, CandidateFacts DEF ObserverInv, Indices, Candidate
  <2>2. PICK seen \in Candidates :
          /\ seen = [Candidate EXCEPT !.visible = TRUE]
          /\ seen.id = Candidate.id /\ seen.sure = Candidate.sure
    <3>1. [Candidate EXCEPT !.visible = TRUE] \in Candidates
      BY <2>1 DEF Candidates
    <3>2. QED
      BY <2>1, <3>1 DEF Candidates
  <2>3. PICK list : list = [observer.candidates EXCEPT ![observer.next] = seen]
    OBVIOUS
  <2>4. [observer.candidates EXCEPT ![observer.next].visible = TRUE] = list
    BY <2>2, <2>3 DEF Candidate
  <2>5. /\ list \in Seq(Candidates) /\ Len(list) = Len(observer.candidates)
        /\ list[observer.next] = seen
        /\ \A i \in Indices \ {observer.next} : list[i] = observer.candidates[i]
    BY <1>2, <2>1, <2>2, <2>3 DEF Indices
  <2>6. PICK fields : fields = [at |-> "respond", owner |-> IdentityOf(Candidate.id[1]),
                                candidates |-> list]
    OBVIOUS
  <2>7. /\ DOMAIN fields = {"at", "owner", "candidates"} /\ fields["at"] = "respond"
        /\ fields["owner"] = IdentityOf(Candidate.id[1]) /\ fields["candidates"] = list
        /\ Goes(fields)
    BY <1>5, <2>4, <2>6
  <2>8. /\ DOMAIN observer' = Fields
        /\ \A f \in {"at", "owner", "candidates"} : observer'[f] = fields[f]
        /\ \A f \in Fields \ {"at", "owner", "candidates"} : observer'[f] = observer[f]
    BY <1>2, <2>7, GoesFacts DEF Fields
  <2>9. /\ observer'.at = "respond" /\ observer'.owner = IdentityOf(Candidate.id[1])
        /\ observer'.candidates = list /\ observer'.next = observer.next
        /\ observer'.existing = observer.existing /\ observer'.report = observer.report
        /\ UNCHANGED <<observer.unread, observer.current, observer.before>>
    BY <2>7, <2>8 DEF Fields
  <2>10. \A i \in Indices : /\ list[i].id = observer.candidates[i].id
                         /\ list[i].sure = observer.candidates[i].sure
    BY <2>2, <2>5 DEF Candidate
  <2>11. QuietStep
    BY <1>1, <1>2, <2>5, <2>8, <2>9, <2>10 DEF QuietStep
  <2>12. Candidate'.id = Candidate.id /\ observer'.next \in Indices'
    BY <2>1, <2>2, <2>5, <2>9 DEF Candidate, Indices
  <2>13. Candidate.id[1] \in changed \/ observer'.owner = Candidate.id
    <3>1. Candidate.id \in observer.current /\ Candidate.id \in Ids
      BY <1>2, <1>5 DEF StillRunning
    <3>2. Candidate.id[1] \in changed \/ Alive(Candidate.id)
      BY <3>1 DEF ObserverInv, ListInv
    <3>3. Candidate.id = <<Candidate.id[1], Candidate.id[2]>>
      BY <3>1 DEF Ids
    <3>4. QED
      BY <2>9, <3>2, <3>3 DEF Alive, IdentityOf
  <2>14. OwnerInv'
    BY <1>1, <2>12, <2>13 DEF OwnerInv
  <2>15. ReportInv'
    BY <1>1, <2>9, NothingReportedYet
  <2>16. QED
    BY <1>1, <2>9, <2>11, <2>14, <2>15, TurnStep
<1>6. QED
  BY <1>2, <1>3, <1>4, <1>5 DEF FindWindow

LEMMA ReadyStep == ObserverInv /\ Ready => ObserverInv'
<1> SUFFICES ASSUME ObserverInv, Ready PROVE ObserverInv'
  OBVIOUS
<1>1. /\ observer.at = "starts" /\ observer.unread = {}
      /\ UNCHANGED <<present, begun, denied, changed>>
  BY DEF Ready
<1>2. DOMAIN observer = Fields /\ observer.next \in Nat \ {0}
  BY DEF ObserverInv, ObserverTypeOK
<1>3. PICK fields : fields = [at |-> "loop", existing |-> observer.current]
  OBVIOUS
<1>4. /\ DOMAIN fields = {"at", "existing"} /\ fields["at"] = "loop"
      /\ fields["existing"] = observer.current /\ Goes(fields)
  BY <1>3 DEF Ready
<1>5. /\ DOMAIN observer' = Fields
      /\ \A f \in {"at", "existing"} : observer'[f] = fields[f]
      /\ \A f \in Fields \ {"at", "existing"} : observer'[f] = observer[f]
  BY <1>2, <1>4, GoesFacts DEF Fields
<1>6. /\ observer'.at = "loop" /\ observer'.existing = observer.current
      /\ observer'.before = observer.before /\ observer'.current = observer.current
      /\ observer'.report = observer.report
  BY <1>4, <1>5 DEF Fields
<1>7. QuietStep /\ observer'.candidates = observer.candidates
  BY <1>1, <1>2, <1>5, QuietFields DEF Fields
<1>8. ObserverTypeOK' /\ BegunInv' /\ ListInv'
  BY <1>7, QuietFacts
<1>9. observer.candidates = <<>>
  BY <1>1 DEF ObserverInv, BeforeInv
<1>10. Indices' = {}
  BY <1>7, <1>9 DEF Indices
<1>11. BeforeInv'
  <2>1. \A id \in observer.before : id \in observer.current \/ Gone(id)
    BY <1>1 DEF ObserverInv, BeforeInv
  <2>2. \A id \in observer.before : Gone(id) => Gone(id)'
    BY <1>1 DEF Gone, Alive
  <2>3. QED
    BY <1>6, <1>10, <2>1, <2>2 DEF BeforeInv
<1>12. CandidateInv' /\ OwnerInv'
  BY <1>6, <1>10 DEF CandidateInv, OwnerInv
<1>13. ReportInv'
  BY <1>1, <1>6, NothingReportedYet
<1>14. QED
  BY <1>8, <1>11, <1>12, <1>13 DEF ObserverInv

LEMMA SnapshotStep == ObserverInv /\ Snapshot => ObserverInv'
<1> SUFFICES ASSUME ObserverInv, Snapshot PROVE ObserverInv'
  OBVIOUS
<1> DEFINE named == {p \in Present : present[p].named}
<1>1. /\ observer.at \in {"initial", "poll", "final"} /\ changed' = {}
      /\ UNCHANGED <<present, begun, denied>>
  BY DEF Snapshot
<1>2. /\ DOMAIN observer = Fields /\ observer.before \subseteq Ids /\ begun \in Nat
      /\ present \in [ObservedPids -> Observed \cup {Nobody}]
      /\ \A p \in ObservedPids : present[p].start <= begun
  BY DEF ObserverInv, ObserverTypeOK, BegunInv
<1>3. PICK at, before :
        /\ at = IF observer.at = "initial" THEN "starts"
                ELSE IF observer.at = "poll" THEN "poll starts" ELSE "final starts"
        /\ before = IF observer.at = "initial" THEN {IdentityOf(p) : p \in named}
                    ELSE observer.before
  OBVIOUS
<1>4. PICK fields :
        fields = [at |-> at, unread |-> named, current |-> {}, before |-> before]
  OBVIOUS
<1>5. Goes(fields)
  BY <1>3, <1>4 DEF Snapshot
<1>6. /\ DOMAIN fields = {"at", "unread", "current", "before"} /\ fields["at"] = at
      /\ fields["unread"] = named /\ fields["current"] = {} /\ fields["before"] = before
  BY <1>4
<1> HIDE DEF named
<1>7. /\ DOMAIN observer' = Fields
      /\ \A f \in {"at", "unread", "current", "before"} : observer'[f] = fields[f]
      /\ \A f \in Fields \ {"at", "unread", "current", "before"} : observer'[f] = observer[f]
  BY <1>2, <1>5, <1>6, GoesFacts DEF Fields
<1>8. /\ observer'.at = at /\ observer'.unread = named /\ observer'.current = {}
      /\ observer'.before = before
  BY <1>6, <1>7
<1>9. /\ observer'.existing = observer.existing /\ observer'.candidates = observer.candidates
      /\ observer'.next = observer.next /\ observer'.report = observer.report
  BY <1>7 DEF Fields
<1>10. \A p \in named : /\ p \in Present /\ p \in ObservedPids /\ present[p].named
                       /\ IdentityOf(p) \in Ids /\ IdentityOf(p)[1] = p
                       /\ IdentityOf(p)[2] <= begun
  <2>1. ASSUME NEW p \in named
        PROVE  /\ p \in Present /\ p \in ObservedPids /\ present[p].named
               /\ present[p].start \in Nat \ {0} /\ present[p].start <= begun
    BY <1>2 DEF named, Present, Observed
  <2>2. QED
    BY <2>1 DEF IdentityOf, Ids
<1>11. ObserverTypeOK'
  <2>1. before \subseteq Ids /\ named \subseteq ObservedPids
    BY <1>2, <1>3, <1>10
  <2>2. QED
    BY <1>1, <1>7, <1>8, <1>9, <2>1, FS_EmptySet DEF ObserverInv, ObserverTypeOK
<1>12. Indices' = Indices /\ \A i : CandidateId(i)' = CandidateId(i) /\ Sure(i)' = Sure(i)
  BY <1>9 DEF Indices, CandidateId, Sure
<1>13. BegunInv'
  <2>1. \A id \in before : id[2] <= begun
    BY <1>3, <1>10 DEF ObserverInv, BegunInv
  <2>2. QED
    BY <1>1, <1>2, <1>8, <1>12, <2>1 DEF ObserverInv, BegunInv
<1>14. BeforeInv'
  <2>1. CASE observer.at = "initial"
    <3>1. at = "starts" /\ observer.candidates = <<>> /\ before = {IdentityOf(p) : p \in named}
      BY <1>3, <2>1 DEF ObserverInv, BeforeInv
    <3>2. \A id \in before : id[1] \in named
      BY <1>10, <3>1
    <3>3. Indices' = {}
      BY <1>9, <3>1 DEF Indices
    <3>4. QED
      BY <1>8, <1>9, <3>1, <3>2, <3>3 DEF BeforeInv
  <2>2. CASE observer.at # "initial"
    <3>1. at \notin {"initial", "starts"} /\ before = observer.before
      BY <1>1, <1>3, <2>2
    <3>2. \A id \in observer.before : id \in observer.existing \/ Gone(id)
      BY <1>1, <2>2 DEF ObserverInv, BeforeInv
    <3>3. \A id : Gone(id) => Gone(id)'
      BY <1>1 DEF Gone, Alive
    <3>4. \A i \in Indices : CandidateId(i) \in observer.before => CandidateId(i) \in denied
      BY DEF ObserverInv, BeforeInv
    <3>5. QED
      BY <1>1, <1>8, <1>9, <1>12, <3>1, <3>2, <3>3, <3>4 DEF BeforeInv
  <2>3. QED
    BY <2>1, <2>2
<1>15. ListInv'
  BY <1>1, <1>8, <1>10 DEF ListInv, Present
<1>16. CandidateInv'
  <2>1. ASSUME NEW i \in Indices', Sure(i)', Alive(CandidateId(i))'
        PROVE  /\ present'[CandidateId(i)'[1]].named
               /\ CandidateId(i)'[1] \in named
    <3>1. PICK id \in Ids : id = CandidateId(i)
      BY <1>12, CandidateFacts DEF ObserverInv
    <3>2. Sure(i) /\ Alive(CandidateId(i)) /\ i \in Indices
      BY <1>1, <1>12, <2>1, <3>1 DEF Alive
    <3>3. present[id[1]].named
      BY <3>1, <3>2 DEF ObserverInv, CandidateInv
    <3>4. id[1] \in Present
      BY <3>1, <3>2 DEF Ids, Alive, Present, Nobody
    <3>5. QED
      BY <1>1, <1>12, <3>1, <3>3, <3>4 DEF named
  <2>2. observer'.at \in {"final", "final starts"} => observer.candidates # <<>>
    BY <1>1, <1>3, <1>8 DEF ObserverInv, CandidateInv
  <2>3. ASSUME NEW i \in Indices', Sure(i)'
        PROVE  CandidateId(i)'[1] \in named \/ Gone(CandidateId(i))'
    BY <2>1, <2>3 DEF Gone
  <2>4. QED
    BY <1>8, <1>9, <2>1, <2>2, <2>3 DEF CandidateInv
<1>17. OwnerInv'
  BY <1>1, <1>3, <1>8 DEF OwnerInv
<1>18. ReportInv'
  BY <1>1, <1>9, NothingReportedYet
<1>19. QED
  BY <1>11, <1>13, <1>14, <1>15, <1>16, <1>17, <1>18 DEF ObserverInv

\* A start that is read is of the process that has the PID, and one that is not
\* read of such a process is known as not told.
LEMMA ReadFacts ==
  ASSUME ObserverInv, NEW p \in ObservedPids, ReadStart(p)
  PROVE  /\ p \in observer.unread /\ UNCHANGED <<present, begun, changed>>
         /\ DOMAIN observer' = Fields /\ observer'.unread = observer.unread \ {p}
         /\ \A f \in Fields \ {"unread", "current"} : observer'[f] = observer[f]
         /\ observer.current \subseteq observer'.current /\ denied \subseteq denied'
         /\ \A id \in observer'.current \ observer.current : p \in Present /\ id = IdentityOf(p)
         /\ p \in Present => IdentityOf(p) \in observer'.current \/ IdentityOf(p) \in denied'
         /\ IsFiniteSet(observer'.current)
<1>1. DOMAIN observer = Fields /\ IsFiniteSet(observer.current)
  BY DEF ObserverInv, ObserverTypeOK
<1>2. p \in observer.unread /\ UNCHANGED <<present, begun, changed>>
  BY DEF ReadStart
<1> DEFINE new == IF p \in Present THEN {IdentityOf(p)} ELSE {}
<1>3. CASE /\ Goes([unread |-> observer.unread \ {p}, current |-> observer.current \cup new])
           /\ UNCHANGED denied
  <2>1. PICK fields :
          fields = [unread |-> observer.unread \ {p}, current |-> observer.current \cup new]
    OBVIOUS
  <2>2. /\ DOMAIN fields = {"unread", "current"} /\ Goes(fields)
        /\ fields["unread"] = observer.unread \ {p}
        /\ fields["current"] = observer.current \cup new
    BY <1>3, <2>1
  <2>3. IsFiniteSet(observer.current \cup new)
    <3>1. CASE p \in Present
      BY <1>1, <3>1, FS_AddElement
    <3>2. CASE p \notin Present
      BY <1>1, <3>2
    <3>3. QED
      BY <3>1, <3>2
  <2>4. new \subseteq {IdentityOf(p)} /\ (p \in Present <=> IdentityOf(p) \in new)
    OBVIOUS
  <2> HIDE DEF new
  <2>5. /\ DOMAIN observer' = Fields
        /\ observer'["unread"] = fields["unread"] /\ observer'["current"] = fields["current"]
        /\ \A f \in Fields \ {"unread", "current"} : observer'[f] = observer[f]
    BY <1>1, <2>2, GoesFacts DEF Fields
  <2>6. observer'.current = observer.current \cup new
    BY <2>2, <2>5
  <2>7. QED
    BY <1>2, <1>3, <2>2, <2>3, <2>4, <2>5, <2>6
<1>4. CASE /\ Goes([unread |-> observer.unread \ {p}]) /\ p \in Present
           /\ denied' = denied \cup {IdentityOf(p)}
  <2>1. PICK fields : fields = [unread |-> observer.unread \ {p}]
    OBVIOUS
  <2>2. /\ DOMAIN fields = {"unread"} /\ Goes(fields)
        /\ fields["unread"] = observer.unread \ {p}
    BY <1>4, <2>1
  <2>3. /\ DOMAIN observer' = Fields /\ observer'["unread"] = fields["unread"]
        /\ \A f \in Fields \ {"unread"} : observer'[f] = observer[f]
    BY <1>1, <2>2, GoesFacts DEF Fields
  <2>4. observer'.current = observer.current
    BY <2>3 DEF Fields
  <2>5. QED
    BY <1>1, <1>2, <1>4, <2>2, <2>3, <2>4
<1>5. QED
  BY <1>3, <1>4 DEF ReadStart

LEMMA ReadStartStep ==
  ASSUME ObserverInv, NEW p \in ObservedPids, ReadStart(p)
  PROVE  ObserverInv'
<1>1. /\ p \in observer.unread /\ UNCHANGED <<present, begun, changed>>
      /\ DOMAIN observer' = Fields /\ observer'.unread = observer.unread \ {p}
      /\ observer.current \subseteq observer'.current /\ denied \subseteq denied'
      /\ \A id \in observer'.current \ observer.current : p \in Present /\ id = IdentityOf(p)
      /\ p \in Present => IdentityOf(p) \in observer'.current \/ IdentityOf(p) \in denied'
      /\ IsFiniteSet(observer'.current)
  BY ReadFacts
<1>2. /\ observer'.at = observer.at /\ observer'.existing = observer.existing
      /\ observer'.before = observer.before /\ observer'.candidates = observer.candidates
      /\ observer'.next = observer.next /\ observer'.owner = observer.owner
      /\ observer'.report = observer.report
  BY ReadFacts DEF Fields
<1>3. p \in Present => /\ IdentityOf(p) \in Ids /\ IdentityOf(p)[1] = p
                      /\ IdentityOf(p)[2] <= begun /\ Alive(IdentityOf(p))
  <2> SUFFICES ASSUME p \in Present
               PROVE  /\ IdentityOf(p) \in Ids /\ IdentityOf(p)[1] = p
                      /\ IdentityOf(p)[2] <= begun /\ Alive(IdentityOf(p))
    OBVIOUS
  <2>1. present[p].start \in Nat \ {0} /\ present[p].start <= begun
    BY DEF ObserverInv, ObserverTypeOK, BegunInv, Present, Observed
  <2>2. QED
    BY <2>1 DEF IdentityOf, Ids, Alive
<1>4. \A id \in Ids : id[1] = p /\ Alive(id) => p \in Present /\ id = IdentityOf(p)
  BY DEF Ids, Alive, Present, IdentityOf, Nobody
<1>5. Indices' = Indices /\ \A i : CandidateId(i)' = CandidateId(i) /\ Sure(i)' = Sure(i)
  BY <1>2 DEF Indices, CandidateId, Sure
<1>6. \A id : Gone(id) => id \in denied' \/ ~Alive(id)
  BY <1>1 DEF Gone
<1>7. \A id : (id \in denied' \/ ~Alive(id)) => Gone(id)'
  BY <1>1 DEF Gone, Alive
\* Whoever was to be read, or was on the list, or is gone, still is.
<1>8. ASSUME NEW id \in Ids,
             id[1] \in observer.unread \/ id \in observer.current \/ Gone(id)
      PROVE  id[1] \in observer'.unread \/ id \in observer'.current \/ Gone(id)'
  <2>1. CASE id[1] = p /\ Alive(id)
    <3>1. id \in observer'.current \/ id \in denied'
      BY <1>1, <1>4, <2>1
    <3>2. QED
      BY <1>7, <3>1
  <2>2. CASE id[1] = p /\ ~Alive(id)
    BY <1>7, <2>2
  <2>3. CASE id[1] # p
    BY <1>1, <1>6, <1>7, <1>8, <2>3
  <2>4. QED
    BY <2>1, <2>2, <2>3
<1>9. ObserverTypeOK'
  <2>1. observer'.current \subseteq Ids
    BY <1>1, <1>3 DEF ObserverInv, ObserverTypeOK
  <2>2. QED
    BY <1>1, <1>2, <2>1 DEF ObserverInv, ObserverTypeOK
<1>10. BegunInv'
  <2>1. \A id \in observer'.current \cup observer.before : id[2] <= begun
    BY <1>1, <1>3 DEF ObserverInv, BegunInv
  <2>2. QED
    BY <1>1, <1>2, <1>5, <2>1 DEF ObserverInv, BegunInv
<1>11. BeforeInv'
  <2>1. ASSUME observer.at = "starts", NEW id \in observer.before
        PROVE  id[1] \in observer'.unread \/ id \in observer'.current \/ Gone(id)'
    <3>1. /\ id \in Ids
          /\ id[1] \in observer.unread \/ id \in observer.current \/ Gone(id)
      BY <2>1 DEF ObserverInv, ObserverTypeOK, BeforeInv
    <3>2. QED
      BY <1>8, <3>1
  <2>2. ASSUME observer.at \notin {"initial", "starts"}, NEW id \in observer.before
        PROVE  /\ id \in observer.existing \/ Gone(id)'
               /\ id \in observer'.current => id \in observer.existing \/ id \in denied'
    <3>1. /\ id \in observer.existing \/ Gone(id)
          /\ id \in observer.current => id \in observer.existing \/ id \in denied
      BY <2>2 DEF ObserverInv, BeforeInv
    <3>2. id \in observer'.current \ observer.current => Alive(id)
      BY <1>1, <1>3
    <3>3. QED
      BY <1>1, <1>6, <1>7, <3>1, <3>2
  <2>3. /\ \A i \in Indices : CandidateId(i) \in observer.before => CandidateId(i) \in denied
        /\ observer.at = "initial" => observer.before = {}
        /\ observer.at \in {"initial", "starts"} => observer.candidates = <<>>
    BY DEF ObserverInv, BeforeInv
  <2>4. QED
    BY <1>1, <1>2, <1>5, <2>1, <2>2, <2>3 DEF BeforeInv
<1>12. ListInv'
  <2>1. /\ \A q \in observer.unread \ changed : q \in Present /\ present[q].named
        /\ \A id \in observer.current : id[1] \notin changed =>
             Alive(id) /\ present[id[1]].named
    BY DEF ObserverInv, ListInv
  <2>2. \A id \in observer'.current : id[1] \notin changed =>
          Alive(id) /\ present[id[1]].named
    BY <1>1, <1>3, <2>1
  <2>3. QED
    BY <1>1, <2>1, <2>2 DEF ListInv, Alive, Present
<1>13. CandidateInv'
  <2>1. ASSUME NEW i \in Indices', Sure(i)', Alive(CandidateId(i))'
        PROVE  present'[CandidateId(i)'[1]].named
    <3>1. Sure(i) /\ Alive(CandidateId(i)) /\ i \in Indices
      BY <1>1, <1>5, <2>1 DEF Alive
    <3>2. QED
      BY <1>1, <1>5, <3>1 DEF ObserverInv, CandidateInv
  <2>2. ASSUME observer.at = "final starts", NEW i \in Indices', Sure(i)'
        PROVE  \/ CandidateId(i)'[1] \in observer'.unread
               \/ CandidateId(i)' \in observer'.current
               \/ Gone(CandidateId(i))'
    <3>1. PICK id \in Ids : id = CandidateId(i)
      BY <1>5, CandidateFacts DEF ObserverInv
    <3>2. id[1] \in observer.unread \/ id \in observer.current \/ Gone(id)
      BY <1>5, <2>2, <3>1 DEF ObserverInv, CandidateInv
    <3>3. id[1] \in observer'.unread \/ id \in observer'.current \/ Gone(id)'
      BY <1>8, <3>2
    <3>4. Gone(id)' => Gone(CandidateId(i))'
      BY <1>5, <3>1 DEF Gone, Alive
    <3>5. QED
      BY <1>5, <3>1, <3>3, <3>4
  <2>3. observer.at \in {"final", "final starts"} => observer.candidates # <<>>
    BY DEF ObserverInv, CandidateInv
  <2>4. QED
    BY <1>2, <2>1, <2>2, <2>3 DEF CandidateInv
<1>14. OwnerInv'
  BY <1>1, <1>2, <1>5 DEF ObserverInv, OwnerInv, Candidate
<1>15. ReportInv'
  <2>1. ReportInv
    BY DEF ObserverInv
  <2>2. Gone(observer.report.id) => Gone(observer.report.id)'
    BY <1>1, <1>2 DEF Gone, Alive
  <2>3. QED
    BY <1>1, <1>2, <1>5, <2>1, <2>2 DEF ReportInv
<1>16. QED
  BY <1>9, <1>10, <1>11, <1>12, <1>13, <1>14, <1>15 DEF ObserverInv

LEMMA AddedFacts ==
  ASSUME ObserverInv, NEW new \in SetToSeqs(NewCandidates)
  PROVE  /\ new \in Seq(Candidates)
         /\ \A i \in 1..Len(new) : new[i] \in NewCandidates
         /\ \A c \in NewCandidates :
              /\ c.id \in observer.current /\ c.id \notin observer.existing
              /\ c.sure = (c.id[1] \notin changed)
<1> DEFINE known == observer.existing \cup {c.id : c \in Range(observer.candidates)}
           fresh == observer.current \ known
           entry == [id \in fresh |->
                      [id |-> id, visible |-> FALSE, sure |-> id[1] \notin changed]]
<1>1. observer.current \subseteq Ids /\ IsFiniteSet(observer.current)
  BY DEF ObserverInv, ObserverTypeOK
<1>2. NewCandidates = {entry[id] : id \in fresh}
  BY DEF NewCandidates
<1>3. \A id \in fresh : /\ entry[id] \in Candidates /\ entry[id].id = id
                        /\ entry[id].sure = (id[1] \notin changed)
  <2>1. ASSUME NEW id \in fresh
        PROVE  /\ entry[id] \in Candidates /\ entry[id].id = id
               /\ entry[id].sure = (id[1] \notin changed)
    <3>1. PICK sure \in BOOLEAN : sure = (id[1] \notin changed)
      OBVIOUS
    <3>2. entry[id] = [id |-> id, visible |-> FALSE, sure |-> sure]
      BY <3>1
    <3>3. id \in Ids
      BY <1>1
    <3>4. QED
      BY <3>1, <3>2, <3>3 DEF Candidates
  <2>2. QED
    BY <2>1
<1>4. IsFiniteSet(fresh)
  BY <1>1, FS_Subset
<1>5. fresh \subseteq observer.current /\ \A id \in fresh : id \notin observer.existing
  OBVIOUS
<1>6. DOMAIN entry = fresh /\ entry = [id \in fresh |-> entry[id]]
  OBVIOUS
<1> HIDE DEF entry, fresh
<1>7. entry \in Surjection(fresh, NewCandidates)
  BY <1>2, <1>6 DEF Surjection
<1>8. Cardinality(NewCandidates) \in Nat
  BY <1>4, <1>7, FS_Surjection, FS_CardinalityType
<1>9. new \in [1..Cardinality(NewCandidates) -> NewCandidates]
  BY DEF SetToSeqs
<1>10. new \in Seq(NewCandidates) /\ \A i \in 1..Len(new) : new[i] \in NewCandidates
  BY <1>8, <1>9
<1>11. NewCandidates \subseteq Candidates
  BY <1>2, <1>3
<1>12. QED
  BY <1>2, <1>3, <1>5, <1>10, <1>11

LEMMA AddCandidatesStep == ObserverInv /\ AddCandidates => ObserverInv'
<1> SUFFICES ASSUME ObserverInv, AddCandidates PROVE ObserverInv'
  OBVIOUS
<1>1. /\ observer.at = "poll starts" /\ observer.unread = {}
      /\ UNCHANGED <<present, begun, denied, changed>>
  BY DEF AddCandidates
<1>2. /\ DOMAIN observer = Fields /\ observer.candidates \in Seq(Candidates)
      /\ observer.current \subseteq Ids
  BY DEF ObserverInv, ObserverTypeOK
<1>3. PICK new \in SetToSeqs(NewCandidates) :
        Goes([at |-> "windows", next |-> 1, candidates |-> observer.candidates \o new])
  BY DEF AddCandidates
<1>4. PICK list : list = observer.candidates \o new
  OBVIOUS
<1>5. PICK fields : fields = [at |-> "windows", next |-> 1, candidates |-> list]
  OBVIOUS
<1>6. /\ DOMAIN fields = {"at", "next", "candidates"} /\ fields["at"] = "windows"
      /\ fields["next"] = 1 /\ fields["candidates"] = list /\ Goes(fields)
  BY <1>3, <1>4, <1>5
<1>7. /\ DOMAIN observer' = Fields
      /\ \A f \in {"at", "next", "candidates"} : observer'[f] = fields[f]
      /\ \A f \in Fields \ {"at", "next", "candidates"} : observer'[f] = observer[f]
  BY <1>2, <1>6, GoesFacts DEF Fields
<1>8. /\ observer'.at = "windows" /\ observer'.next = 1 /\ observer'.candidates = list
      /\ observer'.unread = observer.unread /\ observer'.current = observer.current
      /\ observer'.before = observer.before /\ observer'.existing = observer.existing
      /\ observer'.report = observer.report
  BY <1>6, <1>7 DEF Fields
<1>9. /\ new \in Seq(Candidates) /\ \A i \in 1..Len(new) : new[i] \in NewCandidates
      /\ \A c \in NewCandidates :
           /\ c.id \in observer.current /\ c.id \notin observer.existing
           /\ c.sure = (c.id[1] \notin changed)
  BY AddedFacts
<1>10. list \in Seq(Candidates)
  BY <1>2, <1>4, <1>9, ConcatProperties
<1>11. ASSUME NEW i \in Indices'
       PROVE  \/ /\ i \in Indices /\ CandidateId(i)' = CandidateId(i) /\ Sure(i)' = Sure(i)
              \/ /\ CandidateId(i)' \in observer.current
                 /\ CandidateId(i)' \notin observer.existing
                 /\ Sure(i)' => CandidateId(i)'[1] \notin changed
  <2>1. i \in 1..Len(list) /\ CandidateId(i)' = list[i].id /\ Sure(i)' = list[i].sure
    BY <1>8, <1>11 DEF Indices, CandidateId, Sure
  <2>2. CASE i \in Indices
    <3>1. list[i] = observer.candidates[i]
      BY <1>2, <1>4, <1>9, <2>2, ConcatProperties DEF Indices
    <3>2. QED
      BY <2>1, <2>2, <3>1 DEF CandidateId, Sure
  <2>3. CASE i \notin Indices
    <3>1. list[i] \in NewCandidates
      <4>1. Len(list) = Len(observer.candidates) + Len(new)
        BY <1>2, <1>4, <1>9, ConcatProperties
      <4>2. /\ i - Len(observer.candidates) \in 1..Len(new)
            /\ list[i] = new[i - Len(observer.candidates)]
        BY <1>2, <1>4, <1>9, <2>1, <2>3, <4>1, ConcatProperties DEF Indices
      <4>3. QED
        BY <1>9, <4>2
    <3>2. QED
      BY <1>9, <2>1, <3>1
  <2>4. QED
    BY <2>2, <2>3
<1>12. ObserverTypeOK'
  <2>1. ObserverTypeOK
    BY DEF ObserverInv
  <2>2. observer'.next \in Nat \ {0} /\ observer'.candidates \in Seq(Candidates)
    BY <1>8, <1>10
  <2>3. IsFiniteSet(observer'.current)
    BY <1>8, <2>1 DEF ObserverTypeOK
  <2>4. QED
    BY <1>1, <1>7, <1>8, <2>1, <2>2, <2>3 DEF ObserverTypeOK
<1>13. BegunInv'
  <2>1. ASSUME NEW i \in Indices'
        PROVE  CandidateId(i)'[2] <= begun
    BY <1>11 DEF ObserverInv, BegunInv
  <2>2. QED
    BY <1>1, <1>8, <2>1 DEF ObserverInv, BegunInv
<1>14. BeforeInv'
  <2>1. \A id \in observer.before :
          /\ id \in observer.existing \/ Gone(id)
          /\ id \in observer.current => id \in observer.existing \/ id \in denied
    BY <1>1 DEF ObserverInv, BeforeInv
  <2>2. ASSUME NEW i \in Indices', CandidateId(i)' \in observer.before
        PROVE  CandidateId(i)' \in denied
    <3>1. i \in Indices /\ CandidateId(i) \in observer.before => CandidateId(i) \in denied
      BY DEF ObserverInv, BeforeInv
    <3>2. QED
      BY <1>11, <2>1, <2>2, <3>1
  <2>3. \A id : Gone(id) => Gone(id)'
    BY <1>1 DEF Gone, Alive
  <2>4. QED
    BY <1>1, <1>8, <2>1, <2>2, <2>3 DEF BeforeInv
<1>15. ListInv'
  BY <1>1, <1>8 DEF ObserverInv, ListInv, Alive, Present
<1>16. CandidateInv'
  <2>1. ASSUME NEW i \in Indices', Sure(i)', Alive(CandidateId(i))'
        PROVE  present'[CandidateId(i)'[1]].named
    <3>1. CASE i \in Indices /\ CandidateId(i)' = CandidateId(i) /\ Sure(i)' = Sure(i)
      <4>1. Alive(CandidateId(i))
        BY <1>1, <2>1, <3>1 DEF Alive
      <4>2. QED
        BY <1>1, <2>1, <3>1, <4>1 DEF ObserverInv, CandidateInv
    <3>2. CASE /\ CandidateId(i)' \in observer.current
               /\ CandidateId(i)'[1] \notin changed
      BY <1>1, <3>2 DEF ObserverInv, ListInv
    <3>3. QED
      BY <1>11, <2>1, <3>1, <3>2
  <2>2. QED
    BY <1>8, <2>1 DEF CandidateInv
<1>17. OwnerInv'
  BY <1>8 DEF OwnerInv
<1>18. ReportInv'
  BY <1>1, <1>8, NothingReportedYet
<1>19. QED
  BY <1>12, <1>13, <1>14, <1>15, <1>16, <1>17, <1>18 DEF ObserverInv

LEMMA ObserverInvStep == ObserverInv /\ [ObserverNext]_observerVars => ObserverInv'
<1>1. ObserverInv /\ UNCHANGED observerVars => ObserverInv'
  <2> SUFFICES ASSUME ObserverInv, UNCHANGED observerVars PROVE ObserverInv'
    OBVIOUS
  <2>1. UNCHANGED <<present, begun, observer, denied, changed>>
    BY DEF observerVars
  <2>2. /\ ObserverTypeOK' /\ BegunInv' /\ ListInv' /\ OwnerInv'
    BY <2>1 DEF ObserverInv, ObserverTypeOK, BegunInv, ListInv, OwnerInv, Indices, CandidateId,
      Candidate, Alive, Present
  <2>3. BeforeInv' /\ CandidateInv' /\ ReportInv'
    BY <2>1 DEF ObserverInv, BeforeInv, CandidateInv, ReportInv, Indices, CandidateId, Sure,
      Gone, Alive
  <2>4. QED
    BY <2>2, <2>3 DEF ObserverInv
<1>2. QED
  BY <1>1, ProcessStep, ReadStartStep, SnapshotStep, SnapshotFailsStep, ReadyStep, PollsStep,
    TimeIsUpStep, AddCandidatesStep, FindWindowStep, RespondsStep, ConcludesStep
  DEF ObserverNext

LEMMA ObserverInvInit == ObserverInit => ObserverInv
<1> SUFFICES ASSUME ObserverInit PROVE ObserverInv
  OBVIOUS
<1>1. PICK named \in SUBSET ObservedPids :
        present = [p \in ObservedPids |->
          [start |-> 1, named |-> p \in named, window |-> "ready"]]
  BY DEF ObserverInit
<1>2. \A p \in ObservedPids : present[p] \in Observed /\ present[p].start = 1
  <2>1. ASSUME NEW p \in ObservedPids
        PROVE  present[p] \in Observed /\ present[p].start = 1
    <3>1. PICK has : has \in BOOLEAN /\ (has <=> p \in named)
      <4>1. CASE p \in named
        BY <4>1
      <4>2. CASE p \notin named
        BY <4>2
      <4>3. QED
        BY <4>1, <4>2
    <3>2. present[p] = [start |-> 1, named |-> has, window |-> "ready"]
      BY <1>1, <3>1
    <3>3. QED
      BY <3>1, <3>2 DEF Observed
  <2>2. QED
    BY <2>1
<1>3. begun \in Nat /\ (ObservedPids # {} => 1 <= begun)
  <2>1. begun = Cardinality(ObservedPids) /\ IsFiniteSet(ObservedPids)
    BY DEF ObserverInit, ObserverAssumption
  <2>2. begun \in Nat
    BY <2>1, FS_CardinalityType
  <2>3. ObservedPids # {} => begun # 0
    BY <2>1, FS_EmptySet
  <2>4. QED
    BY <2>2, <2>3
<1>4. /\ DOMAIN observer = Fields /\ observer.at = "initial" /\ observer.unread = {}
      /\ observer.current = {} /\ observer.before = {} /\ observer.candidates = <<>>
      /\ observer.next = 1 /\ observer.report = NothingReported
  BY DEF ObserverInit, Fields
<1>5. Indices = {}
  BY <1>4 DEF Indices
<1>6. present \in [ObservedPids -> Observed \cup {Nobody}]
  BY <1>1, <1>2
<1>7. ObserverTypeOK
  BY <1>3, <1>4, <1>6, FS_EmptySet, EmptySeq DEF ObserverTypeOK
<1>8. BegunInv
  BY <1>2, <1>3, <1>4, <1>5 DEF BegunInv
<1>9. BeforeInv /\ ListInv /\ CandidateInv /\ OwnerInv
  BY <1>4, <1>5 DEF BeforeInv, ListInv, CandidateInv, OwnerInv
<1>10. ReportInv
  BY <1>4 DEF ReportInv, NothingReported
<1>11. QED
  BY <1>7, <1>8, <1>9, <1>10 DEF ObserverInv

LEMMA ReportIsNew == ObserverInv => ObservedIsNew
<1> SUFFICES ASSUME ObserverInv PROVE ObservedIsNew
  OBVIOUS
<1>1. ReportInv /\ observer.candidates \in Seq(Candidates)
  BY DEF ObserverInv, ObserverTypeOK
<1> DEFINE report == observer.report
           candidate == CHOOSE c \in Range(observer.candidates) : c.id = report.id
<1>2. ASSUME report.status = "ProcessExited", candidate.sure
      PROVE  Gone(report.id)
  <2>1. PICK i \in Indices : CandidateId(i) = report.id
    BY <1>1, <1>2 DEF ReportInv
  <2>2. observer.candidates[i] \in Range(observer.candidates)
    BY <1>1, <2>1, LenProperties DEF Range, Indices
  <2>3. candidate \in Range(observer.candidates) /\ candidate.id = report.id
    BY <2>1, <2>2 DEF CandidateId
  <2> HIDE DEF candidate
  <2>4. PICK j \in Indices : candidate = observer.candidates[j]
    BY <1>1, <2>3, LenProperties DEF Range, Indices
  <2>5. QED
    BY <1>1, <1>2, <2>3, <2>4 DEF ReportInv, CandidateId, Sure
<1>3. report.status = "Succeeded" =>
        /\ report.id \in observer.before => report.id \in denied
        /\ report.id[1] \notin changed => report.owner = report.id
  BY <1>1 DEF ReportInv
<1>4. QED
  BY <1>2, <1>3 DEF ObservedIsNew, Gone, Alive

\* A start is measured of a process that was not there before, with its own window,
\* and a process is reported as exited that is not there: for any number of PIDs,
\* processes and polls, but for starts that were not told and PIDs that changed
\* hands since they were listed.
THEOREM StartsAreAlwaysNew == ObserverSpec => []ObservedIsNew
<1>1. ObserverInv /\ [ObserverNext]_observerVars => ObserverInv'
  BY ObserverInvStep
<1>2. QED
  BY <1>1, ObserverInvInit, ReportIsNew, PTL DEF ObserverSpec
=============================================================================
