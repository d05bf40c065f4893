------------------------ MODULE CodingSessionProofs -------------------------
(***************************************************************************)
(* Proofs about CodingSession for every set of targets, every plan and     *)
(* every value of the bounds.                                              *)
(*                                                                         *)
(* The inductive invariant IInv says how far the command's memory and the  *)
(* session file may differ at each step, and that both cover what          *)
(* WorkBoost owes to the targets whose changes it learns of (Reliable).    *)
(* Covered itself is not inductive: the step that saves memory over the    *)
(* file keeps it only if memory covers too, and the step that removes the  *)
(* file only if every record is final.                                     *)
(***************************************************************************)
EXTENDS CodingSession, SequenceTheorems, TLAPS

EnterPhases == {"next", "calling", "storing"}

\* The action in hand is a record of the session, in plan order when entering.
CursorInv ==
  /\ pc = "planning" => sessions < MaxSessions /\ plan \in Plans
  /\ pc \in EnterPhases =>
       /\ plan \in Plans
       /\ Len(mem.actions) <= Len(plan)
       /\ \A i \in 1..Len(mem.actions) : mem.actions[i].target = plan[i]
  /\ pc = "next" => cur = Len(mem.actions) + 1
  /\ pc \in {"calling", "storing"} => cur = Len(mem.actions) /\ cur > 0
  /\ pc = "calling" =>
       /\ mem.actions[cur].state = "Planned"
       /\ plan[cur] \in Reversible => mem.actions[cur].original # NoValue
  /\ pc \in {"undo", "undone"} => cur <= Len(mem.actions)
  /\ pc = "undone" => cur > 0

\* Session file and memory are two copies of one session, equal wherever the
\* command is not between a change and the save that follows it.
JournalInv ==
  /\ disk.id = 0 <=> disk = NoSession
  /\ pc = "planning" => disk = NoSession
  /\ pc \notin {"idle", "planning"} => mem.id = disk.id /\ disk.id # 0
  /\ pc \in {"next", "calling", "undo", "verify", "ackverify", "report",
             "remove"} => mem = disk

\* Each kind of action reaches only the states, and keeps the restore value,
\* that the loader, the rollback and the completion report count on: a priority
\* may be unread until it has been applied.
SoundRecord(r) ==
  /\ r.target \in CloseTargets => r.state \notin {"Applied", "RolledBack"}
  /\ r.target \in ServiceTargets => r.state # "Completed" /\ r.original = "Running"
  /\ r.target \in PriorityTargets =>
       /\ r.state # "Completed"
       /\ Open(r) => r.original \in Priorities \cup {NoClass}
       /\ r.state = "Applied" => r.original \in Priorities

Sound(s) == \A i \in 1..Len(s.actions) : SoundRecord(s.actions[i])

RecordInv ==
  /\ Sound(disk)
  /\ pc \notin {"idle", "planning"} => Sound(mem)
  /\ ReportsComplete

\* The targets of which the command learns what has happened to them: processes
\* always, services if the helper neither stops them late nor reports a stop
\* wrongly.
Reliable == IF HelperAnomalies = {} THEN Reversible ELSE PriorityTargets

ReliableCovered == \A t \in Reliable : owed[t] # NoValue => Journaled(disk, t)

\* Memory, too, covers what is owed, an action that is about to be executed
\* starts with nothing owed to its target, and nothing is owed to a process
\* that is gone.
CoverInv ==
  /\ ReliableCovered
  /\ pc \notin {"idle", "planning"} =>
       \A t \in Reliable : owed[t] # NoValue => Journaled(mem, t)
  /\ pc = "calling" /\ plan[cur] \in Reliable => owed[plan[cur]] = NoValue
  /\ \A t \in PriorityTargets : holder[t] # "original" => owed[t] = NoValue

\* What RestoreSession has rolled back stays final, so a session that gets as
\* far as its report has nothing left to undo.
FinalInv ==
  /\ pc = "undo" /\ ok =>
       \A i \in 1..Len(mem.actions) : i > cur => ~Open(mem.actions[i])
  /\ pc = "undone" /\ ok =>
       \A i \in 1..Len(mem.actions) : i >= cur => ~Open(mem.actions[i])
  /\ pc \in {"verify", "ackverify", "report", "remove"} =>
       \A i \in 1..Len(mem.actions) : ~Open(mem.actions[i])

\* Only a helper that may stop a service late is ever left behind.
HelperInv == HelperAnomalies = {} => late = {}

IInv ==
  /\ TypeOK
  /\ CursorInv
  /\ JournalInv
  /\ RecordInv
  /\ CoverInv
  /\ FinalInv
  /\ HelperInv
-----------------------------------------------------------------------------
LEMMA FunctionIsSequence ==
  ASSUME NEW n \in Nat, NEW S, NEW f \in [1..n -> S]
  PROVE  f \in Seq(S) /\ Len(f) = n
<1>1. f \in Seq(S)
  BY SMT
<1>2. QED
  BY <1>1, SMT

\* Replacing one record of a session leaves the others alone.
LEMMA SetRecord ==
  ASSUME NEW s \in Session, NEW i \in 1..Len(s.actions), NEW r \in Record
  PROVE  LET u == [s EXCEPT !.actions[i] = r]
         IN /\ u \in Session
            /\ u.id = s.id
            /\ u.state = s.state
            /\ Len(u.actions) = Len(s.actions)
            /\ \A j \in 1..Len(s.actions) :
                 u.actions[j] = IF j = i THEN r ELSE s.actions[j]
<1> DEFINE u == [s EXCEPT !.actions[i] = r]
<1>1. s.actions \in Seq(Record) /\ s.id \in Nat /\ s.state \in SessionStates
  BY DEF Session
<1>2. /\ u.id = s.id /\ u.state = s.state
      /\ u.actions = [s.actions EXCEPT ![i] = r]
      /\ u.actions \in Seq(Record) => u \in Session
  BY DEF Session
<1>3. /\ [s.actions EXCEPT ![i] = r] \in Seq(Record)
      /\ Len([s.actions EXCEPT ![i] = r]) = Len(s.actions)
      /\ \A j \in 1..Len(s.actions) :
           [s.actions EXCEPT ![i] = r][j] = IF j = i THEN r ELSE s.actions[j]
  BY <1>1, ExceptSeq
<1>4. QED
  BY <1>1, <1>2, <1>3 DEF Session

\* Appending one record to a session leaves the others alone.
LEMMA AddRecord ==
  ASSUME NEW s \in Session, NEW r \in Record
  PROVE  LET u == [s EXCEPT !.actions = Append(@, r)]
         IN /\ u \in Session
            /\ u.id = s.id
            /\ u.state = s.state
            /\ Len(u.actions) = Len(s.actions) + 1
            /\ \A j \in 1..Len(s.actions) : u.actions[j] = s.actions[j]
            /\ u.actions[Len(s.actions) + 1] = r
<1> DEFINE u == [s EXCEPT !.actions = Append(@, r)]
<1>1. s.actions \in Seq(Record) /\ s.id \in Nat /\ s.state \in SessionStates
  BY DEF Session
<1>2. /\ u.id = s.id /\ u.state = s.state
      /\ u.actions = Append(s.actions, r)
      /\ u.actions \in Seq(Record) => u \in Session
  BY DEF Session
<1>3. QED
  BY <1>1, <1>2 DEF Session

\* Acknowledging rewrites only the states of uncertain close requests.
LEMMA AcknowledgedRecords ==
  ASSUME NEW s \in Session
  PROVE  LET u == Acknowledged(s)
         IN /\ u \in Session
            /\ u.id = s.id
            /\ u.state = "Recovering"
            /\ Len(u.actions) = Len(s.actions)
            /\ \A j \in 1..Len(s.actions) :
                 u.actions[j] = IF /\ s.actions[j].target \in CloseTargets
                                   /\ s.actions[j].state = "Uncertain"
                                THEN [s.actions[j] EXCEPT !.state = "Completed"]
                                ELSE s.actions[j]
<1> DEFINE a == [j \in 1..Len(s.actions) |->
                   IF /\ s.actions[j].target \in CloseTargets
                      /\ s.actions[j].state = "Uncertain"
                   THEN [s.actions[j] EXCEPT !.state = "Completed"]
                   ELSE s.actions[j]]
<1>1. s.actions \in Seq(Record) /\ s.id \in Nat /\ s.state \in SessionStates
  BY DEF Session
<1>2. /\ Acknowledged(s).id = s.id /\ Acknowledged(s).state = "Recovering"
      /\ Acknowledged(s).actions = a
      /\ a \in Seq(Record) => Acknowledged(s) \in Session
  BY DEF Session, SessionStates, Acknowledged
<1>3. \A j \in 1..Len(s.actions) : s.actions[j] \in Record
  BY <1>1
<1>4. \A j \in 1..Len(s.actions) : a[j] \in Record
  BY <1>3 DEF Record, ActionStates
<1>5. Len(s.actions) \in Nat
  BY <1>1
<1>6. a \in Seq(Record) /\ Len(a) = Len(s.actions)
  <2>1. a \in [1..Len(s.actions) -> Record]
    BY <1>4
  <2>2. QED
    BY <1>5, <2>1, FunctionIsSequence
<1>7. QED
  BY <1>1, <1>2, <1>6 DEF Session, SessionStates
-----------------------------------------------------------------------------
\* Whether a session covers a target depends only on its records.
LEMMA SafeModeSession ==
  ASSUME NEW s \in Session
  PROVE  /\ InSafeMode(s) \in Session
         /\ InSafeMode(s).id = s.id
         /\ InSafeMode(s).actions = s.actions
         /\ InSafeMode(s) # NoSession
BY DEF InSafeMode, Session, SessionStates, NoSession

LEMMA NoSessionIsSession ==
  NoSession \in Session /\ Len(NoSession.actions) = 0
BY DEF NoSession, Session, SessionStates

\* Which targets are reliable: all of them with a reliable helper, else the
\* processes.
LEMMA ReliableFacts ==
  /\ Reliable \subseteq Reversible /\ PriorityTargets \subseteq Reliable
  /\ HelperAnomalies = {} => Reliable = Reversible
  /\ HelperAnomalies # {} => Reliable = PriorityTargets
BY DEF Reliable, Reversible

LEMMA InitInv ==
  Init => IInv
<1> SUFFICES ASSUME Init PROVE IInv
  OBVIOUS
<1> USE NoSessionIsSession, PriorityAssumption, BoundsAssumption, ReliableFacts DEF Init
<1>1. TypeOK
  BY DEF TypeOK, Phases, Values, NoSession
<1>2. CursorInv /\ JournalInv /\ CoverInv /\ FinalInv /\ HelperInv
  BY DEF CursorInv, JournalInv, CoverInv, FinalInv, HelperInv, EnterPhases,
         ReliableCovered, NoSession, Reversible
<1>3. RecordInv
  BY DEF RecordInv, Sound, ReportsComplete
<1>4. QED
  BY <1>1, <1>2, <1>3 DEF IInv

\* A command that has returned leaves the invariant to the session file.
LEMMA ReturnInv ==
  ASSUME IInv, NEW how \in {"ok", "failed", "crashed"}, Return(how),
         disk' \in Session, disk'.id = 0 <=> disk' = NoSession, ReliableCovered',
         Sound(disk'), ReportsComplete',
         reports' \subseteq [id : Nat, complete : BOOLEAN],
         late' = late \/ (HelperAnomalies # {} /\ late' \subseteq ServiceTargets),
         UNCHANGED <<prio, holder, closes, svc, owed, sessions, priorityEdits,
                     serviceEdits>>,
         faults' \in 0..MaxFaults
  PROVE  IInv'
<1> USE NoSessionIsSession
<1>1. TypeOK'
  BY DEF IInv, TypeOK, Return, Phases
<1>2. /\ CursorInv' /\ JournalInv' /\ RecordInv' /\ CoverInv' /\ FinalInv'
      /\ HelperInv'
  BY DEF IInv, CursorInv, JournalInv, RecordInv, CoverInv, FinalInv, HelperInv,
         EnterPhases, Return
<1>3. QED
  BY <1>1, <1>2 DEF IInv

\* A command that ends because a save failed leaves everything as it was.
LEMMA FailedSaveInv ==
  ASSUME IInv, SaveFails, Return("failed"),
         UNCHANGED <<system, sessions, priorityEdits, serviceEdits>>
  PROVE  IInv'
<1> USE BoundsAssumption DEF journal, system
<1>1. disk' = disk /\ reports' = reports /\ faults' \in 0..MaxFaults
  BY DEF SaveFails, Fault, IInv, TypeOK
<1>2. ReliableCovered'
  BY <1>1 DEF IInv, CoverInv, ReliableCovered
<1>3. ReportsComplete' /\ Sound(disk')
  BY <1>1 DEF IInv, RecordInv, ReportsComplete
<1>4. QED
  BY <1>1, <1>2, <1>3, ReturnInv DEF IInv, TypeOK, JournalInv

\* Saving memory over the session file keeps what is owed covered.
LEMMA SaveCovers ==
  ASSUME IInv, pc \notin {"idle", "planning"}, NEW s \in Session,
         s.actions = mem.actions, disk' \in {disk, s}, owed' = owed
  PROVE  ReliableCovered' /\ Sound(disk')
<1>1. ReliableCovered'
  BY DEF IInv, CoverInv, ReliableCovered, Journaled
<1>2. Sound(disk')
  BY DEF IInv, RecordInv, Sound
<1>3. QED
  BY <1>1, <1>2
-----------------------------------------------------------------------------
\* The record in hand gets another state and value and keeps its target.
LEMMA CurrentRecord ==
  ASSUME mem \in Session, cur \in 1..Len(mem.actions),
         NEW state \in ActionStates, NEW original \in Values,
         SetCurrent(state, original)
  PROVE  /\ mem' \in Session
         /\ mem'.id = mem.id
         /\ Len(mem'.actions) = Len(mem.actions)
         /\ mem'.actions[cur] = [target |-> mem.actions[cur].target,
                                 state |-> state, original |-> original]
         /\ \A j \in 1..Len(mem.actions) :
              j # cur => mem'.actions[j] = mem.actions[j]
<1> DEFINE r == [target |-> mem.actions[cur].target, state |-> state,
                 original |-> original]
<1>1. r \in Record
  <2>1. mem.actions \in Seq(Record)
    BY DEF Session
  <2>2. mem.actions[cur] \in Record
    BY <2>1
  <2>3. QED
    BY <2>2 DEF Record
<1>2. mem' = [mem EXCEPT !.actions[cur] = r]
  BY Zenon DEF SetCurrent
<1>3. QED
  BY <1>1, <1>2, SetRecord

\* Executing the action in hand replaces its record in memory only.  If it now
\* owes its target something the new record must cover that; the Planned record
\* on disk does already.
LEMMA ExecuteInv ==
  ASSUME IInv, pc = "calling",
         late' = late \/ (HelperAnomalies # {} /\ late' \subseteq ServiceTargets),
         NEW state \in ActionStates, NEW original \in Values,
         SetCurrent(state, original), pc' = "storing",
         UNCHANGED <<journal, plan, cur, ok, exit, holder, counters>>,
         prio' \in [PriorityTargets -> Priorities],
         closes' \in [CloseTargets -> Nat],
         svc' \in [ServiceTargets -> {"Running", "Stopped"}],
         owed' \in [Reversible -> Values],
         \A t \in Reversible : t # plan[cur] => owed'[t] = owed[t],
         (plan[cur] \in Reliable /\ owed'[plan[cur]] # NoValue) =>
           (state \in {"Applied", "Uncertain"} /\ original \notin {NoValue, NoClass}),
         plan[cur] \in PriorityTargets =>
           (owed'[plan[cur]] = NoValue \/ holder[plan[cur]] = "original"),
         SoundRecord([target |-> plan[cur], state |-> state, original |-> original])
  PROVE  IInv'
<1> DEFINE r == [target |-> plan[cur], state |-> state, original |-> original]
<1> USE ReliableFacts
<1>0. /\ mem \in Session /\ mem = disk
      /\ mem.actions \in Seq(Record) /\ Len(mem.actions) \in Nat
      /\ cur = Len(mem.actions) /\ cur > 0
  BY DEF IInv, TypeOK, CursorInv, JournalInv, Session
<1>1. /\ cur \in 1..Len(mem.actions)
      /\ mem.actions[cur].target = plan[cur] /\ mem.actions[cur].state = "Planned"
      /\ plan[cur] \in Reversible => HasValue(mem.actions[cur])
  <2>1. /\ cur \in 1..Len(mem.actions)
        /\ mem.actions[cur].target = plan[cur] /\ mem.actions[cur].state = "Planned"
        /\ plan[cur] \in Reversible => mem.actions[cur].original # NoValue
    BY <1>0 DEF IInv, CursorInv, EnterPhases
  <2>2. SoundRecord(mem.actions[cur])
    BY <1>0, <2>1 DEF IInv, RecordInv, Sound
  <2>3. QED
    BY <2>1, <2>2 DEF HasValue, SoundRecord, Reversible, NoClass
<1>2. /\ mem' \in Session
      /\ mem'.id = mem.id
      /\ Len(mem'.actions) = Len(mem.actions)
      /\ mem'.actions[cur] = r
      /\ \A j \in 1..Len(mem.actions) : j # cur => mem'.actions[j] = mem.actions[j]
  BY <1>0, <1>1, CurrentRecord
<1>3. TypeOK'
  BY <1>2 DEF IInv, TypeOK, Phases, journal, counters
<1>4. CursorInv' /\ JournalInv' /\ FinalInv' /\ HelperInv'
  BY <1>0, <1>1, <1>2 DEF IInv, CursorInv, JournalInv, FinalInv, HelperInv,
    EnterPhases, journal, counters
<1>5. ReliableCovered'
  <2> SUFFICES ASSUME NEW t \in Reliable, owed'[t] # NoValue
               PROVE  Journaled(disk, t)'
    BY DEF ReliableCovered
  <2>1. CASE t = plan[cur]
    BY <1>0, <1>1, <2>1 DEF Journaled, Open, journal
  <2>2. CASE t # plan[cur]
    BY <2>2 DEF IInv, CoverInv, ReliableCovered, Journaled, journal
  <2>3. QED
    BY <2>1, <2>2
<1>6. ASSUME NEW t \in Reliable, owed'[t] # NoValue
      PROVE  Journaled(mem, t)'
  <2>1. CASE t = plan[cur]
    <3>1. /\ cur \in 1..Len(mem'.actions) /\ mem'.actions[cur] = r
      BY <1>1, <1>2
    <3>2. r.target = t /\ Open(r) /\ HasValue(r)
      BY <1>6, <2>1 DEF Open, HasValue
    <3>3. QED
      BY <3>1, <3>2 DEF Journaled, Open
  <2>2. CASE t # plan[cur]
    <3>1. PICK i \in 1..Len(mem.actions) :
            /\ mem.actions[i].target = t
            /\ Open(mem.actions[i])
            /\ HasValue(mem.actions[i])
      BY <1>6, <2>2 DEF IInv, CoverInv, Journaled
    <3>2. i # cur
      BY <1>1, <2>2, <3>1
    <3>3. i \in 1..Len(mem'.actions) /\ mem'.actions[i] = mem.actions[i]
      BY <1>2, <3>1, <3>2
    <3>4. QED
      BY <3>1, <3>3 DEF Journaled, Open
  <2>3. QED
    BY <2>1, <2>2
<1>7. CoverInv'
  <2>1. \A t \in PriorityTargets : holder'[t] # "original" => owed'[t] = NoValue
    BY DEF IInv, CoverInv, Reversible
  <2>2. QED
    BY <1>5, <1>6, <2>1 DEF CoverInv
<1>8. RecordInv'
  <2>1. Sound(mem')
    BY <1>1, <1>2 DEF IInv, RecordInv, Sound
  <2>2. QED
    BY <2>1 DEF IInv, RecordInv, ReportsComplete, journal
<1>9. QED
  BY <1>3, <1>4, <1>7, <1>8 DEF IInv

\* The record that preflight adds is for the action in hand, is the only one of
\* its target, and holds a value to restore if the action can be undone.
LEMMA PreflightRecord ==
  ASSUME IInv, pc = "next", cur <= Len(plan), NEW state \in {"Planned", "Rejected"},
         NEW original,
         \/ original = Payload(plan[cur])
         \/ plan[cur] \in PriorityTargets /\ original = NoClass
  PROVE  LET s == WithRecord(plan[cur], state, original)
         IN /\ s \in Session
            /\ s.id = mem.id
            /\ Len(s.actions) = cur
            /\ cur \in 1..Len(plan)
            /\ \A i \in 1..Len(mem.actions) : s.actions[i] = mem.actions[i]
            /\ s.actions[cur].target = plan[cur]
            /\ s.actions[cur].state = state
            /\ plan[cur] \in Reversible => s.actions[cur].original # NoValue
            /\ \A i \in 1..cur : s.actions[i].target = plan[i]
            /\ \A i \in 1..Len(mem.actions) : mem.actions[i].target # plan[cur]
            /\ Sound(s)
<1> DEFINE s == WithRecord(plan[cur], state, original)
           r == [target |-> plan[cur], state |-> state, original |-> original]
<1>1. /\ mem \in Session /\ mem.actions \in Seq(Record)
      /\ Len(mem.actions) \in Nat /\ cur = Len(mem.actions) + 1
      /\ plan \in Plans /\ plan \in Seq(Targets)
      /\ \A i \in 1..Len(mem.actions) : mem.actions[i].target = plan[i]
  BY DEF IInv, TypeOK, CursorInv, EnterPhases, Session
<1>2. cur \in 1..Len(plan) /\ plan[cur] \in Targets
  BY <1>1
<1>3. /\ original \in Values
      /\ plan[cur] \in Reversible => original # NoValue
      /\ plan[cur] \in PriorityTargets => original \in Priorities \cup {NoClass}
  BY <1>2, PriorityAssumption, TargetsAssumption
    DEF IInv, TypeOK, Payload, Values, NoValue, NoClass, Reversible
<1>4. r \in Record
  BY <1>2, <1>3 DEF Record, ActionStates
<1>5. /\ s \in Session
      /\ s.id = mem.id
      /\ Len(s.actions) = Len(mem.actions) + 1
      /\ \A i \in 1..Len(mem.actions) : s.actions[i] = mem.actions[i]
      /\ s.actions[Len(mem.actions) + 1] = r
  BY <1>1, <1>4, AddRecord DEF WithRecord
<1>6. s.actions[cur] = r
  BY <1>1, <1>5
<1>7. \A i \in 1..cur : s.actions[i].target = plan[i]
  <2> SUFFICES ASSUME NEW i \in 1..cur PROVE s.actions[i].target = plan[i]
    OBVIOUS
  <2>1. CASE i = cur
    BY <1>6, <2>1
  <2>2. CASE i # cur
    BY <1>1, <1>5, <2>2
  <2>3. QED
    BY <2>1, <2>2
<1>8. \A i \in 1..Len(mem.actions) : mem.actions[i].target # plan[cur]
  <2> SUFFICES ASSUME NEW i \in 1..Len(mem.actions)
               PROVE  mem.actions[i].target # plan[cur]
    OBVIOUS
  <2>1. i \in 1..Len(plan) /\ i # cur
    BY <1>1, <1>2
  <2>2. plan[i] # plan[cur]
    BY <1>1, <1>2, <2>1, PlansAssumption
  <2>3. QED
    BY <1>1, <2>2
<1>9. Sound(s)
  <2>1. SoundRecord(r)
    BY <1>2, <1>3, TargetsAssumption
      DEF SoundRecord, Payload, Targets, Open
  <2>2. Sound(mem)
    BY DEF IInv, RecordInv
  <2>3. QED
    BY <1>1, <1>5, <2>1, <2>2 DEF Sound
<1>10. QED
  BY <1>1, <1>2, <1>3, <1>5, <1>6, <1>7, <1>8, <1>9

\* Saving that record, planned or rejected, keeps the invariant: its target is
\* owed nothing yet.
LEMMA PreflightInv ==
  ASSUME IInv, pc = "next", cur <= Len(plan), NEW state \in {"Planned", "Rejected"},
         NEW original,
         \/ original = Payload(plan[cur])
         \/ plan[cur] \in PriorityTargets /\ original = NoClass,
         disk' = WithRecord(plan[cur], state, original), mem' = disk',
         \/ state = "Planned" /\ pc' = "calling" /\ cur' = cur
         \/ state = "Rejected" /\ pc' = "next" /\ cur' = cur + 1,
         faults' \in 0..MaxFaults,
         UNCHANGED <<reports, plan, ok, exit, system, sessions, priorityEdits,
                     serviceEdits>>
  PROVE  IInv'
<1> USE ReliableFacts DEF system
<1> DEFINE s == WithRecord(plan[cur], state, original)
<1>1. /\ s \in Session
      /\ s.id = mem.id
      /\ Len(s.actions) = cur
      /\ cur \in 1..Len(plan)
      /\ \A i \in 1..Len(mem.actions) : s.actions[i] = mem.actions[i]
      /\ s.actions[cur].target = plan[cur]
      /\ s.actions[cur].state = state
      /\ plan[cur] \in Reversible => s.actions[cur].original # NoValue
      /\ \A i \in 1..cur : s.actions[i].target = plan[i]
      /\ \A i \in 1..Len(mem.actions) : mem.actions[i].target # plan[cur]
      /\ Sound(s)
  BY PreflightRecord
<1>2. /\ mem = disk /\ mem.id # 0 /\ cur = Len(mem.actions) + 1
      /\ Len(mem.actions) \in Nat
      /\ plan \in Plans
  BY DEF IInv, TypeOK, CursorInv, JournalInv, EnterPhases, Session
<1>3. disk' = s /\ mem' = s
  OBVIOUS
<1> HIDE DEF s
<1>4. TypeOK'
  BY <1>1, <1>2, <1>3 DEF IInv, TypeOK, Phases
<1>5. \A t \in Reliable : owed[t] # NoValue => Journaled(s, t)
  <2> SUFFICES ASSUME NEW t \in Reliable, owed[t] # NoValue
               PROVE  Journaled(s, t)
    OBVIOUS
  <2>1. PICK i \in 1..Len(mem.actions) :
          /\ mem.actions[i].target = t
          /\ Open(mem.actions[i])
          /\ HasValue(mem.actions[i])
    BY <1>2 DEF IInv, CoverInv, ReliableCovered, Journaled
  <2>2. i \in 1..Len(s.actions) /\ s.actions[i] = mem.actions[i]
    BY <1>1, <1>2
  <2>3. QED
    BY <2>1, <2>2 DEF Journaled
<1>6. CursorInv'
  BY <1>1, <1>2, <1>3 DEF CursorInv, EnterPhases
<1>7. JournalInv'
  BY <1>1, <1>2, <1>3 DEF JournalInv, NoSession
<1>8. CoverInv'
  <2>1. plan[cur] \in Reliable => owed[plan[cur]] = NoValue
    BY <1>1, <1>2 DEF IInv, CoverInv, ReliableCovered, Journaled
  <2>2. QED
    BY <1>3, <1>5, <2>1 DEF IInv, CoverInv, ReliableCovered
<1>9. FinalInv' /\ HelperInv'
  BY DEF IInv, FinalInv, HelperInv
<1>10. RecordInv'
  BY <1>1, <1>3 DEF IInv, RecordInv, ReportsComplete
<1>11. QED
  BY <1>4, <1>6, <1>7, <1>8, <1>9, <1>10 DEF IInv

LEMMA EnterInv ==
  ASSUME IInv, Enter
  PROVE  IInv'
<1> USE NoSessionIsSession, PriorityAssumption, BoundsAssumption, TargetsAssumption,
        ReliableFacts
<1> USE DEF counters, system, journal
<1>1. CASE EnterBegin
  <2>1. plan' \in Seq(Targets)
    BY <1>1, PlansAssumption DEF EnterBegin
  <2>2. QED
    BY <1>1, <2>1 DEF EnterBegin, IInv, TypeOK, CursorInv, JournalInv, RecordInv,
      CoverInv, FinalInv, HelperInv, EnterPhases, ReliableCovered, ReportsComplete, Phases,
      HasActiveSession
<1>2. CASE EnterAbandon
  BY <1>2, ReturnInv DEF EnterAbandon, IInv, TypeOK, JournalInv, RecordInv,
    CoverInv, ReliableCovered, ReportsComplete
<1>3. CASE CreateSession
  <2> DEFINE s == [id |-> sessions + 1, state |-> "Active", actions |-> <<>>]
  <2>1. /\ s \in Session /\ s.id # 0 /\ s # NoSession
        /\ s.actions = <<>> /\ sessions + 1 \in 0..MaxSessions
    BY <1>3 DEF CreateSession, Session, SessionStates, IInv, TypeOK, CursorInv,
      NoSession
  <2>2. \A t \in Reliable : owed[t] = NoValue
    BY <1>3 DEF CreateSession, IInv, JournalInv, CoverInv, ReliableCovered, Journaled,
      NoSession
  <2> HIDE DEF s
  <2>3. CASE SaveSucceeds(s)
    <3>0. /\ disk' = s /\ mem' = s /\ pc' = "next" /\ cur' = 1
          /\ sessions' = sessions + 1 /\ closes' = [t \in CloseTargets |-> 0]
          /\ UNCHANGED <<reports, faults, plan, ok, exit, prio, holder, svc, late,
                         owed, priorityEdits, serviceEdits>>
      BY <1>3, <2>3 DEF CreateSession, SaveSucceeds, SaveFails, Fault, s, IInv,
        TypeOK
    <3>1. TypeOK'
      BY <2>1, <3>0 DEF IInv, TypeOK, Phases
    <3>2. plan \in Plans
      BY <1>3 DEF CreateSession, IInv, CursorInv
    <3>3. CursorInv' /\ JournalInv' /\ CoverInv' /\ FinalInv' /\ HelperInv'
      BY <2>1, <2>2, <3>0, <3>2 DEF IInv, TypeOK, CursorInv, JournalInv, CoverInv,
        FinalInv, HelperInv, EnterPhases, ReliableCovered
    <3>4. RecordInv'
      BY <2>1, <3>0 DEF IInv, RecordInv, Sound, ReportsComplete
    <3>5. QED
      BY <3>1, <3>3, <3>4 DEF IInv
  <2>4. CASE SaveFails
    <3>1. /\ Return("failed")
          /\ UNCHANGED <<system, sessions, priorityEdits, serviceEdits>>
      BY <1>3, <2>4 DEF CreateSession, SaveSucceeds, SaveFails, Fault, s, IInv, TypeOK
    <3>2. QED
      BY <2>4, <3>1, FailedSaveInv
  <2>5. QED
    BY <1>3, <2>3, <2>4 DEF CreateSession, s
<1>4. CASE RefreshFails
  <2>1. InSafeMode(mem) \in Session /\ InSafeMode(mem).actions = mem.actions
        /\ InSafeMode(mem) # NoSession /\ InSafeMode(mem).id = mem.id
    BY SafeModeSession DEF IInv, TypeOK
  <2>2. ReliableCovered' /\ Sound(disk')
    BY <1>4, <2>1, SaveCovers DEF RefreshFails
  <2>3. ReportsComplete'
    BY <1>4 DEF RefreshFails, IInv, RecordInv, ReportsComplete
  <2>4. QED
    BY <1>4, <2>1, <2>2, <2>3, ReturnInv DEF RefreshFails, Fault, IInv, TypeOK,
      JournalInv
<1>5. CASE PreflightRejects
  <2> DEFINE s == WithRecord(plan[cur], "Rejected", Payload(plan[cur]))
  <2>1. /\ pc = "next" /\ cur <= Len(plan)
        /\ SaveSucceeds(s) \/ (SaveFails /\ Return("failed"))
        /\ UNCHANGED <<system, sessions, priorityEdits, serviceEdits>>
    BY <1>5 DEF PreflightRejects
  <2>2. CASE SaveSucceeds(s)
    <3>1. faults' = faults /\ reports' = reports /\ disk' = s
      BY <2>2 DEF SaveSucceeds
    <3>2. mem' = s /\ pc' = "next" /\ cur' = cur + 1 /\ UNCHANGED <<plan, ok, exit>>
      BY <1>5, <3>1 DEF PreflightRejects, SaveFails, Fault, IInv, TypeOK
    <3>3. faults' \in 0..MaxFaults
      BY <3>1 DEF IInv, TypeOK
    <3>4. QED
      BY <2>1, <3>1, <3>2, <3>3, PreflightInv
  <2>3. CASE SaveFails /\ Return("failed")
    BY <2>1, <2>3, FailedSaveInv
  <2>4. QED
    BY <2>1, <2>2, <2>3
<1>6. CASE PreflightAccepts
  <2> DEFINE s == WithRecord(plan[cur], "Planned", Payload(plan[cur]))
  <2>1. /\ pc = "next" /\ cur <= Len(plan)
        /\ SaveSucceeds(s) \/ (SaveFails /\ Return("failed"))
        /\ UNCHANGED <<system, sessions, priorityEdits, serviceEdits>>
    BY <1>6 DEF PreflightAccepts
  <2>2. CASE SaveSucceeds(s)
    <3>1. faults' = faults /\ reports' = reports /\ disk' = s
      BY <2>2 DEF SaveSucceeds
    <3>2. mem' = s /\ pc' = "calling" /\ cur' = cur /\ UNCHANGED <<plan, ok, exit>>
      BY <1>6, <3>1 DEF PreflightAccepts, SaveFails, Fault, IInv, TypeOK
    <3>3. faults' \in 0..MaxFaults
      BY <3>1 DEF IInv, TypeOK
    <3>4. QED
      BY <2>1, <3>1, <3>2, <3>3, PreflightInv
  <2>3. CASE SaveFails /\ Return("failed")
    BY <2>1, <2>3, FailedSaveInv
  <2>4. QED
    BY <2>1, <2>2, <2>3
<1>7. CASE ExecutePriority
  <2> DEFINE t == plan[cur]
  <2>0. /\ pc = "calling" /\ t \in PriorityTargets /\ pc' = "storing"
        /\ late' = late /\ svc' = svc /\ closes' = closes
        /\ UNCHANGED <<journal, plan, cur, ok, exit, holder, counters>>
    BY <1>7 DEF ExecutePriority
  <2>1. /\ prio \in [PriorityTargets -> Priorities] /\ owed \in [Reversible -> Values]
        /\ prio[t] \in Values /\ prio[t] \notin {NoValue, NoClass} /\ NoValue \in Values
        /\ t \in Reversible /\ TargetPriority[t] \in Priorities
        /\ owed[t] = NoValue
    BY <2>0 DEF IInv, TypeOK, CoverInv, Values, Reversible, NoValue, NoClass
  <2>2. CASE /\ prio' = [prio EXCEPT ![t] = TargetPriority[t]]
             /\ owed' = [owed EXCEPT ![t] = prio[t]]
             /\ SetCurrent("Applied", prio[t])
    <3>1. /\ prio' \in [PriorityTargets -> Priorities]
          /\ owed' \in [Reversible -> Values]
          /\ \A u \in Reversible : u # t => owed'[u] = owed[u]
      BY <2>1, <2>2
    <3>2. /\ holder[t] = "original"
          /\ SoundRecord([target |-> t, state |-> "Applied", original |-> prio[t]])
      BY <1>7, <2>0, <2>1, <2>2 DEF ExecutePriority, SoundRecord, SameProcess
    <3>3. QED
      BY <2>0, <2>1, <2>2, <3>1, <3>2, ExecuteInv DEF ActionStates, IInv, TypeOK
  <2>3. CASE SetCurrent("Failed", NoValue) /\ UNCHANGED <<prio, owed>>
    <3>1. SoundRecord([target |-> t, state |-> "Failed", original |-> NoValue])
      BY <2>0 DEF SoundRecord, Open
    <3>2. QED
      BY <2>0, <2>1, <2>3, <3>1, ExecuteInv DEF ActionStates, IInv, TypeOK
  <2>4. QED
    BY <1>7, <2>2, <2>3 DEF ExecutePriority
<1>8. CASE ExecuteClose
  <2> DEFINE t == plan[cur]
  <2>0. /\ pc = "calling" /\ t \in CloseTargets /\ pc' = "storing"
        /\ late' = late /\ svc' = svc /\ prio' = prio /\ owed' = owed
        /\ UNCHANGED <<journal, plan, cur, ok, exit, holder, counters>>
    BY <1>8 DEF ExecuteClose
  <2>1. t \notin Reversible /\ NoValue \in Values
    BY <2>0 DEF Reversible, Values
  <2>2. closes' \in [CloseTargets -> Nat]
    <3>1. closes' = closes \/ closes' = [closes EXCEPT ![t] = @ + 1]
      BY <1>8 DEF ExecuteClose
    <3>2. closes \in [CloseTargets -> Nat]
      BY DEF IInv, TypeOK
    <3>3. QED
      BY ONLY <3>1, <3>2
  <2>3. PICK state \in {"Failed", "Completed", "Uncertain"} :
          SetCurrent(state, NoValue)
    BY <1>8 DEF ExecuteClose, CloseOutcomes
  <2>4. SoundRecord([target |-> t, state |-> state, original |-> NoValue])
    BY <2>0, <2>3 DEF SoundRecord
  <2>5. /\ state \in ActionStates
        /\ prio' \in [PriorityTargets -> Priorities]
        /\ svc' \in [ServiceTargets -> {"Running", "Stopped"}]
        /\ owed' \in [Reversible -> Values]
        /\ t \notin PriorityTargets
    BY <2>0, <2>1, <2>3 DEF ActionStates, IInv, TypeOK, Reversible
  <2>6. QED
    BY <2>0, <2>1, <2>2, <2>3, <2>4, <2>5, ExecuteInv
<1>9. CASE ExecuteStop
  <2> DEFINE t == plan[cur]
  <2>0. /\ pc = "calling" /\ t \in ServiceTargets /\ pc' = "storing"
        /\ prio' = prio /\ closes' = closes
        /\ UNCHANGED <<journal, plan, cur, ok, exit, holder, counters>>
    BY <1>9 DEF ExecuteStop
  <2>1. /\ svc \in [ServiceTargets -> {"Running", "Stopped"}]
        /\ owed \in [Reversible -> Values]
        /\ t \in Reliable => owed[t] = NoValue
        /\ t \in Reversible /\ "Running" \in Values
        /\ "Running" \notin {NoValue, NoClass}
        /\ t \notin PriorityTargets
    BY <2>0 DEF IInv, TypeOK, CoverInv, Values, Reversible, NoValue, NoClass
  <2>2. CASE /\ StopEffect(t)
             /\ \E state \in {"Applied", "Uncertain"} : SetCurrent(state, "Running")
             /\ UNCHANGED late
    <3>1. /\ svc' \in [ServiceTargets -> {"Running", "Stopped"}]
          /\ owed' \in [Reversible -> Values]
          /\ \A u \in Reversible : u # t => owed'[u] = owed[u]
      BY <2>1, <2>2 DEF StopEffect
    <3>2. PICK state \in {"Applied", "Uncertain"} : SetCurrent(state, "Running")
      BY <2>2
    <3>3. state \in ActionStates
      BY <3>2 DEF ActionStates
    <3>4. prio' \in [PriorityTargets -> Priorities] /\ closes' \in [CloseTargets -> Nat]
      BY <2>0 DEF IInv, TypeOK
    <3>5. late' = late /\ SetCurrent(state, "Running")
      BY <2>2, <3>2
    <3>6. SoundRecord([target |-> t, state |-> state, original |-> "Running"])
      BY <2>0, <2>1, <3>2 DEF SoundRecord
    <3>7. QED
      BY <2>0, <2>1, <3>1, <3>2, <3>3, <3>4, <3>5, <3>6, ExecuteInv
  <2>3. CASE /\ \E state \in {"Failed", "Rejected", "Uncertain"} :
                  SetCurrent(state, "Running")
             /\ UNCHANGED <<svc, late, owed>>
    <3>1. PICK state \in {"Failed", "Rejected", "Uncertain"} :
            SetCurrent(state, "Running")
      BY <2>3
    <3>2. SoundRecord([target |-> t, state |-> state, original |-> "Running"])
      BY <2>0, <2>1, <3>1 DEF SoundRecord
    <3>3. state \in ActionStates /\ UNCHANGED late
      BY <2>3, <3>1 DEF ActionStates
    <3>4. /\ prio' \in [PriorityTargets -> Priorities]
          /\ closes' \in [CloseTargets -> Nat]
          /\ svc' = svc /\ owed' = owed
      BY <2>0, <2>3 DEF IInv, TypeOK
    <3>5. QED
      BY <2>0, <2>1, <3>1, <3>2, <3>3, <3>4, ExecuteInv
  <2>4. CASE /\ HelperAnomalies # {}
             /\ SetCurrent("Uncertain", "Running")
             /\ late' = late \cup {t}
             /\ UNCHANGED <<svc, owed>>
    <3>1. SoundRecord([target |-> t, state |-> "Uncertain", original |-> "Running"])
      BY <2>0, <2>1 DEF SoundRecord
    <3>2. late' \subseteq ServiceTargets
      BY <2>0, <2>4 DEF IInv, TypeOK
    <3>3. /\ prio' \in [PriorityTargets -> Priorities]
          /\ closes' \in [CloseTargets -> Nat]
          /\ svc' = svc /\ owed' = owed /\ t \notin Reliable
          /\ "Uncertain" \in ActionStates
      BY <2>0, <2>1, <2>4 DEF IInv, TypeOK, ActionStates
    <3>4. QED
      BY <2>0, <2>1, <2>4, <3>1, <3>2, <3>3, ExecuteInv
  <2>5. CASE /\ HelperAnomalies # {}
             /\ StopEffect(t)
             /\ SetCurrent("Failed", "Running")
             /\ UNCHANGED late
    <3>1. SoundRecord([target |-> t, state |-> "Failed", original |-> "Running"])
      BY <2>0, <2>1 DEF SoundRecord
    <3>2. /\ svc' \in [ServiceTargets -> {"Running", "Stopped"}]
          /\ owed' \in [Reversible -> Values]
          /\ \A u \in Reversible : u # t => owed'[u] = owed[u]
      BY <2>1, <2>5 DEF StopEffect
    <3>3. /\ prio' \in [PriorityTargets -> Priorities]
          /\ closes' \in [CloseTargets -> Nat]
          /\ late' = late /\ t \notin Reliable /\ "Failed" \in ActionStates
      BY <2>0, <2>1, <2>5 DEF IInv, TypeOK, ActionStates
    <3>4. QED
      BY <2>0, <2>1, <2>5, <3>1, <3>2, <3>3, ExecuteInv
  <2>6. QED
    BY <1>9, <2>2, <2>3, <2>4, <2>5 DEF ExecuteStop
<1>10. CASE StoreResult
  <2>1. CASE SaveSucceeds(mem)
    <3>0. /\ disk' = mem
          /\ pc = "storing"
          /\ \/ pc' = "giveup" /\ cur' = cur
             \/ pc' = "next" /\ cur' = cur + 1
          /\ UNCHANGED <<mem, plan, ok, exit, reports, system, counters>>
      BY <1>10, <2>1 DEF StoreResult, SaveSucceeds, SaveFails, Fault, IInv, TypeOK
    <3>1. ReliableCovered' /\ Sound(disk')
      BY <3>0, SaveCovers DEF IInv, TypeOK
    <3>2. TypeOK'
      BY <3>0 DEF IInv, TypeOK, Phases
    <3>3. CursorInv' /\ JournalInv' /\ FinalInv' /\ HelperInv'
      BY <3>0 DEF IInv, TypeOK, CursorInv, JournalInv, FinalInv, HelperInv,
        EnterPhases, NoSession
    <3>4. CoverInv'
      BY <3>0, <3>1 DEF IInv, CoverInv
    <3>5. RecordInv'
      BY <3>0, <3>1 DEF IInv, RecordInv, ReportsComplete
    <3>6. QED
      BY <3>2, <3>3, <3>4, <3>5 DEF IInv
  <2>2. CASE SaveFails
    <3>1. /\ Return("failed")
          /\ UNCHANGED <<system, sessions, priorityEdits, serviceEdits>>
      BY <1>10, <2>2 DEF StoreResult, SaveSucceeds, SaveFails, Fault, IInv, TypeOK
    <3>2. QED
      BY <2>2, <3>1, FailedSaveInv
  <2>3. QED
    BY <1>10, <2>1, <2>2 DEF StoreResult
<1>11. CASE EnterDone
  BY <1>11, ReturnInv DEF EnterDone, IInv, TypeOK, JournalInv, RecordInv,
    CoverInv, ReliableCovered, ReportsComplete
<1>12. CASE PreflightUnread
  <2>1. faults' \in 0..MaxFaults
    BY <1>12 DEF PreflightUnread, Fault, IInv, TypeOK
  <2>2. QED
    BY <1>12, <2>1, PreflightInv DEF PreflightUnread
<1>13. QED
  BY <1>1, <1>2, <1>3, <1>4, <1>5, <1>6, <1>7, <1>8, <1>9, <1>10, <1>11, <1>12
    DEF Enter
-----------------------------------------------------------------------------
\* Undoing the action in hand gives its record another state in memory only.
\* A record that becomes final owes nothing; an uncertain one stays open.
LEMMA UndoInv ==
  ASSUME IInv, Undoing, Open(mem.actions[cur]), late' = late,
         NEW state \in {"RolledBack", "Uncertain"},
         SetCurrent(state, mem.actions[cur].original), pc' = "undone",
         UNCHANGED <<journal, plan, cur, exit, holder, sessions, priorityEdits,
                     serviceEdits>>,
         faults' \in 0..MaxFaults,
         ok' \in {ok, FALSE}, state = "Uncertain" => ok' = FALSE,
         prio' \in [PriorityTargets -> Priorities],
         closes' \in [CloseTargets -> Nat],
         svc' \in [ServiceTargets -> {"Running", "Stopped"}],
         owed' \in [Reversible -> Values],
         \A t \in Reversible : owed'[t] \in {owed[t], NoValue},
         \A t \in Reversible : t # mem.actions[cur].target => owed'[t] = owed[t],
         state = "RolledBack" =>
           /\ mem.actions[cur].target \notin CloseTargets
           /\ mem.actions[cur].target \in Reversible
                => owed'[mem.actions[cur].target] = NoValue
  PROVE  IInv'
<1> DEFINE t == mem.actions[cur].target
           r == [target |-> t, state |-> state, original |-> mem.actions[cur].original]
<1> USE ReliableFacts DEF journal
<1>0. /\ mem \in Session /\ mem = disk /\ pc = "undo"
      /\ mem.actions \in Seq(Record) /\ Len(mem.actions) \in Nat
      /\ cur \in 1..Len(mem.actions)
      /\ ok \in BOOLEAN
  BY DEF IInv, TypeOK, CursorInv, JournalInv, Session, Undoing
<1>1. state \in ActionStates /\ mem.actions[cur].original \in Values
  <2>1. mem.actions[cur] \in Record
    BY <1>0
  <2>2. QED
    BY <2>1 DEF Record, ActionStates
<1>2. /\ mem' \in Session
      /\ mem'.id = mem.id
      /\ Len(mem'.actions) = Len(mem.actions)
      /\ mem'.actions[cur] = r
      /\ \A j \in 1..Len(mem.actions) : j # cur => mem'.actions[j] = mem.actions[j]
  BY <1>0, <1>1, CurrentRecord
<1>3. TypeOK'
  BY <1>0, <1>2 DEF IInv, TypeOK, Phases
<1>4. CursorInv' /\ JournalInv' /\ HelperInv'
  BY <1>0, <1>2 DEF IInv, CursorInv, JournalInv, HelperInv, EnterPhases
<1>5. FinalInv'
  <2> SUFFICES ASSUME ok', NEW i \in 1..Len(mem'.actions), i >= cur
               PROVE  ~Open(mem'.actions[i])
    BY DEF FinalInv
  <2>1. ok /\ state = "RolledBack"
    BY <1>0
  <2>2. CASE i = cur
    BY <1>2, <2>1, <2>2 DEF Open
  <2>3. CASE i # cur
    <3>1. i > cur /\ i \in 1..Len(mem.actions) /\ mem'.actions[i] = mem.actions[i]
      BY <1>0, <1>2, <2>3
    <3>2. QED
      BY <1>0, <2>1, <3>1 DEF IInv, FinalInv
  <2>4. QED
    BY <2>2, <2>3
<1>6. RecordInv'
  <2>1. SoundRecord(mem.actions[cur])
    BY <1>0 DEF IInv, RecordInv, Sound
  <2>2. SoundRecord(r)
    <3>1. CASE state = "RolledBack"
      BY <2>1, <3>1 DEF SoundRecord, Open
    <3>2. CASE state = "Uncertain"
      BY <2>1, <3>2 DEF SoundRecord
    <3>3. QED
      BY <3>1, <3>2
  <2>3. QED
    BY <1>0, <1>2, <2>2 DEF IInv, RecordInv, Sound, ReportsComplete
<1>7. ReliableCovered'
  BY DEF IInv, CoverInv, ReliableCovered, Journaled
<1>8. ASSUME NEW u \in Reliable, owed'[u] # NoValue
      PROVE  Journaled(mem, u)'
  <2>1. PICK i \in 1..Len(mem.actions) :
          /\ mem.actions[i].target = u
          /\ Open(mem.actions[i])
          /\ HasValue(mem.actions[i])
    BY <1>0, <1>8 DEF IInv, CoverInv, Journaled
  <2>2. i \in 1..Len(mem'.actions)
    BY <1>2
  <2>3. /\ mem'.actions[i].target = u
        /\ Open(mem'.actions[i])
        /\ HasValue(mem'.actions[i])
    <3>1. CASE i = cur
      <4>1. state = "Uncertain"
        BY <1>8, <2>1, <3>1
      <4>2. QED
        BY <1>2, <2>1, <3>1, <4>1 DEF Open, HasValue
    <3>2. CASE i # cur
      BY <1>2, <2>1, <3>2
    <3>3. QED
      BY <3>1, <3>2
  <2>4. QED
    BY <2>2, <2>3 DEF Journaled, Open
<1>9. CoverInv'
  <2>1. \A u \in PriorityTargets : holder'[u] # "original" => owed'[u] = NoValue
    BY DEF IInv, CoverInv, Reversible
  <2>2. QED
    BY <1>7, <1>8, <2>1 DEF CoverInv
<1>10. QED
  BY <1>3, <1>4, <1>5, <1>6, <1>9 DEF IInv

\* A session whose records are all final owes nothing.
LEMMA NothingOwed ==
  ASSUME IInv, pc \in {"verify", "ackverify", "report", "remove"},
         NEW t \in Reliable
  PROVE  owed[t] = NoValue
BY DEF IInv, CoverInv, FinalInv, Journaled

\* Final records of sound sessions are what CompletionReport calls complete.
LEMMA CompleteWhenFinal ==
  ASSUME IInv, pc = "report"
  PROVE  RollbackComplete(mem)
<1> SUFFICES ASSUME NEW i \in 1..Len(mem.actions)
             PROVE  LET r == mem.actions[i]
                    IN IF r.target \in Reversible
                       THEN r.state \in {"RolledBack", "Rejected", "Failed"}
                       ELSE r.state \notin {"Planned", "Uncertain"}
  BY DEF RollbackComplete
<1>1. mem.actions[i] \in Record
  BY DEF IInv, TypeOK, Session
<1>2. SoundRecord(mem.actions[i]) /\ ~Open(mem.actions[i])
  BY DEF IInv, RecordInv, FinalInv, Sound
<1>3. QED
  BY <1>1, <1>2 DEF Record, ActionStates, SoundRecord, Open, Reversible

\* Every step of the restoring commands keeps the invariant.
LEMMA RestoreInv ==
  ASSUME IInv, Restore
  PROVE  IInv'
<1> USE NoSessionIsSession, PriorityAssumption, BoundsAssumption, TargetsAssumption
<1> USE DEF counters, system, journal
<1>1. CASE RestoreBegin
  <2> DEFINE s == [disk EXCEPT !.state = "Recovering"]
  <2>1. /\ s \in Session /\ s.id = disk.id /\ s.actions = disk.actions
        /\ disk.id # 0 /\ Len(disk.actions) \in Nat /\ pc = "idle"
    <3>1. disk \in Session /\ disk.id # 0 /\ pc = "idle"
      BY <1>1 DEF RestoreBegin, HasActiveSession, IInv, TypeOK, JournalInv
    <3>2. disk.actions \in Seq(Record) /\ "Recovering" \in SessionStates
      BY <3>1 DEF Session, SessionStates
    <3>3. [disk EXCEPT !.state = "Recovering"] \in Session
      BY ONLY <3>1, <3>2 DEF Session
    <3>4. QED
      BY <3>1, <3>2, <3>3
  <2> HIDE DEF s
  <2>2. CASE SaveSucceeds(s)
    <3>0. /\ disk' = s /\ mem' = s /\ pc' = "undo" /\ cur' = Len(s.actions)
          /\ UNCHANGED <<reports, faults, plan, ok, exit, system, sessions,
                         priorityEdits, serviceEdits>>
      BY <1>1, <2>2 DEF RestoreBegin, SaveSucceeds, SaveFails, Fault, s, IInv, TypeOK
    <3>1. TypeOK'
      BY <2>1, <3>0 DEF IInv, TypeOK, Phases
    <3>2. CursorInv' /\ JournalInv' /\ HelperInv'
      BY <2>1, <3>0 DEF IInv, CursorInv, JournalInv, HelperInv, EnterPhases, NoSession
    <3>3. FinalInv'
      BY <2>1, <3>0 DEF FinalInv
    <3>4. RecordInv'
      BY <2>1, <3>0 DEF IInv, RecordInv, Sound, ReportsComplete
    <3>5. CoverInv'
      BY <2>1, <3>0 DEF IInv, CoverInv, ReliableCovered, Journaled
    <3>6. QED
      BY <3>1, <3>2, <3>3, <3>4, <3>5 DEF IInv
  <2>3. CASE SaveFails
    <3>1. /\ Return("failed")
          /\ UNCHANGED <<system, sessions, priorityEdits, serviceEdits>>
      BY <1>1, <2>3 DEF RestoreBegin, SaveSucceeds, SaveFails, Fault, s, IInv, TypeOK
    <3>2. QED
      BY <2>3, <3>1, FailedSaveInv
  <2>4. QED
    BY <1>1, <2>2, <2>3 DEF RestoreBegin, s
<1>2. CASE UndoNothing
  <2>1. /\ pc = "undo" /\ pc' = "undone" /\ cur > 0 /\ ~Open(mem.actions[cur])
        /\ UNCHANGED <<journal, mem, plan, cur, ok, exit, system, counters>>
    BY <1>2 DEF UndoNothing, Undoing
  <2>2. TypeOK' /\ CursorInv' /\ JournalInv' /\ HelperInv'
    BY <2>1 DEF IInv, TypeOK, CursorInv, JournalInv, HelperInv, EnterPhases, Phases
  <2>3. RecordInv' /\ CoverInv'
    BY <2>1 DEF IInv, RecordInv, CoverInv, ReliableCovered, ReportsComplete
  <2>4. FinalInv'
    <3>1. cur \in Nat /\ Len(mem.actions) \in Nat
      BY DEF IInv, TypeOK, Session
    <3>2. QED
      BY <2>1, <3>1 DEF IInv, FinalInv
  <2>5. QED
    BY <2>2, <2>3, <2>4 DEF IInv
<1>3. CASE UndoPriority
  <2> DEFINE r == mem.actions[cur]
  <2>0. /\ Undoing /\ Open(r) /\ r.target \in PriorityTargets /\ pc' = "undone"
        /\ late' = late /\ svc' = svc /\ closes' = closes
        /\ UNCHANGED <<journal, plan, cur, exit, holder, sessions, priorityEdits,
                       serviceEdits>>
    BY <1>3 DEF UndoPriority, RestorePriority
  <2>1. r.original \in Priorities
    BY <1>3 DEF UndoPriority
  <2>2. /\ r.target \in Reversible /\ NoValue \in Values
        /\ prio \in [PriorityTargets -> Priorities] /\ owed \in [Reversible -> Values]
        /\ r.target \notin CloseTargets
        /\ closes' \in [CloseTargets -> Nat]
        /\ svc' \in [ServiceTargets -> {"Running", "Stopped"}]
        /\ faults \in 0..MaxFaults
    BY <2>0 DEF IInv, TypeOK, Reversible, Values
  <2>3. CASE /\ prio' = [prio EXCEPT ![r.target] = r.original]
             /\ owed' = [owed EXCEPT ![r.target] = NoValue]
             /\ SetCurrent("RolledBack", r.original)
             /\ UNCHANGED <<ok, faults>>
    <3>1. /\ prio' \in [PriorityTargets -> Priorities]
          /\ owed' \in [Reversible -> Values]
          /\ owed'[r.target] = NoValue
          /\ \A t \in Reversible : t # r.target => owed'[t] = owed[t]
          /\ \A t \in Reversible : owed'[t] \in {owed[t], NoValue}
      BY <2>1, <2>2, <2>3
    <3>2. QED
      BY <2>0, <2>2, <2>3, <3>1, UndoInv
  <2>4. CASE /\ holder[r.target] # "original"
             /\ SetCurrent("RolledBack", r.original)
             /\ UNCHANGED <<prio, owed, ok, faults>>
    <3>1. owed[r.target] = NoValue
      BY <2>0, <2>4 DEF IInv, CoverInv
    <3>2. QED
      BY <2>0, <2>2, <2>4, <3>1, UndoInv
  <2>5. CASE /\ Fault \/ UNCHANGED faults
             /\ SetCurrent("Uncertain", r.original)
             /\ ok' = FALSE
             /\ UNCHANGED <<prio, owed>>
    <3>1. faults' \in 0..MaxFaults
      BY <2>2, <2>5 DEF Fault
    <3>2. QED
      BY <2>0, <2>2, <2>5, <3>1, UndoInv
  <2>6. QED
    BY <1>3, <2>3, <2>4, <2>5 DEF UndoPriority, RestorePriority, SameProcess
<1>4. CASE UndoClose \/ UndoWithoutValue
  <2>1. /\ Undoing /\ Open(mem.actions[cur]) /\ pc' = "undone"
        /\ SetCurrent("Uncertain", mem.actions[cur].original) /\ ok' = FALSE
        /\ UNCHANGED <<journal, plan, cur, exit, system, counters>>
    BY <1>4 DEF UndoClose, LeaveClosed, UndoWithoutValue
  <2>2. /\ prio' \in [PriorityTargets -> Priorities]
        /\ closes' \in [CloseTargets -> Nat]
        /\ svc' \in [ServiceTargets -> {"Running", "Stopped"}]
        /\ owed' \in [Reversible -> Values]
        /\ faults' \in 0..MaxFaults
    BY <2>1 DEF IInv, TypeOK
  <2>3. QED
    BY <2>1, <2>2, UndoInv
<1>5. CASE UndoService
  <2> DEFINE r == mem.actions[cur]
  <2>0. /\ Undoing /\ Open(r) /\ r.target \in ServiceTargets /\ pc' = "undone"
        /\ late' = late
        /\ UNCHANGED <<journal, plan, cur, exit, holder, sessions, priorityEdits,
                       serviceEdits>>
    BY <1>5 DEF UndoService
  <2>1. /\ r.target \in Reversible /\ NoValue \in Values
        /\ svc \in [ServiceTargets -> {"Running", "Stopped"}]
        /\ owed \in [Reversible -> Values]
        /\ r.target \notin CloseTargets
        /\ closes' \in [CloseTargets -> Nat]
        /\ prio' \in [PriorityTargets -> Priorities]
        /\ faults \in 0..MaxFaults
    BY <1>5, <2>0 DEF UndoService, IInv, TypeOK, Reversible, Values
  <2> DEFINE started == /\ svc' = [svc EXCEPT ![r.target] = "Running"]
                        /\ owed' = [owed EXCEPT ![r.target] = NoValue]
  <2>2. started \/ UNCHANGED <<svc, owed>>
        => /\ svc' \in [ServiceTargets -> {"Running", "Stopped"}]
           /\ owed' \in [Reversible -> Values]
           /\ \A t \in Reversible : t # r.target => owed'[t] = owed[t]
           /\ \A t \in Reversible : owed'[t] \in {owed[t], NoValue}
    BY <2>1
  <2>3. started => owed'[r.target] = NoValue
    BY <2>1
  <2>4. CASE /\ started
             /\ SetCurrent("RolledBack", r.original)
             /\ UNCHANGED <<ok, faults>>
    <3> HIDE DEF started
    <3>1. QED
      BY <2>0, <2>1, <2>2, <2>3, <2>4, UndoInv
  <2>5. CASE /\ Fault
             /\ started \/ UNCHANGED <<svc, owed>>
             /\ SetCurrent("Uncertain", r.original)
             /\ ok' = FALSE
    <3>1. faults' \in 0..MaxFaults
      BY <2>1, <2>5 DEF Fault
    <3> HIDE DEF started
    <3>2. QED
      BY <2>0, <2>1, <2>2, <2>5, <3>1, UndoInv
  <2>6. QED
    BY <1>5, <2>4, <2>5 DEF UndoService
<1>6. CASE StoreUndo
  <2>1. pc = "undone" /\ mem \in Session /\ cur \in Nat /\ cur > 0 /\ cur - 1 \in Nat
        /\ Len(mem.actions) \in Nat
    BY <1>6 DEF StoreUndo, IInv, TypeOK, CursorInv, Session
  <2>2. CASE SaveSucceeds(mem)
    <3>0. /\ disk' = mem /\ pc' = "undo" /\ cur' = cur - 1
          /\ UNCHANGED <<reports, faults, mem, plan, ok, exit, system, sessions,
                         priorityEdits, serviceEdits>>
      BY <1>6, <2>2 DEF StoreUndo, SaveSucceeds, SaveFails, Fault, IInv, TypeOK
    <3>1. TypeOK'
      BY <2>1, <3>0 DEF IInv, TypeOK, Phases
    <3>2. CursorInv' /\ JournalInv' /\ HelperInv'
      BY <2>1, <3>0 DEF IInv, CursorInv, JournalInv, HelperInv, EnterPhases, NoSession
    <3>3. FinalInv'
      BY <2>1, <3>0 DEF IInv, FinalInv
    <3>4. ReliableCovered' /\ Sound(disk')
      BY <2>1, <3>0, SaveCovers
    <3>5. RecordInv' /\ CoverInv'
      BY <2>1, <3>0, <3>4 DEF IInv, RecordInv, CoverInv, ReportsComplete
    <3>6. QED
      BY <3>1, <3>2, <3>3, <3>5 DEF IInv
  <2>3. CASE SaveFails
    <3>0. /\ pc' = "giveup" /\ ok' = FALSE
          /\ faults' \in 0..MaxFaults
          /\ UNCHANGED <<journal, mem, plan, cur, exit, system, sessions,
                         priorityEdits, serviceEdits>>
      BY <1>6, <2>3 DEF StoreUndo, SaveSucceeds, SaveFails, Fault, IInv, TypeOK
    <3>1. TypeOK'
      BY <2>1, <3>0 DEF IInv, TypeOK, Phases
    <3>2. /\ CursorInv' /\ JournalInv' /\ HelperInv' /\ FinalInv' /\ RecordInv'
          /\ CoverInv'
      BY <2>1, <3>0 DEF IInv, CursorInv, JournalInv, HelperInv, FinalInv, RecordInv,
        CoverInv, ReliableCovered, ReportsComplete, EnterPhases
    <3>3. QED
      BY <3>1, <3>2 DEF IInv
  <2>4. QED
    BY <1>6, <2>2, <2>3 DEF StoreUndo
<1>7. CASE UndoEnd
  <2>1. /\ pc = "undo" /\ cur = 0
        /\ pc' = IF ok THEN "verify" ELSE "giveup"
        /\ UNCHANGED <<journal, mem, plan, cur, ok, exit, system, counters>>
    BY <1>7 DEF UndoEnd
  <2>2. TypeOK' /\ CursorInv' /\ JournalInv' /\ HelperInv' /\ RecordInv' /\ CoverInv'
    BY <2>1 DEF IInv, TypeOK, CursorInv, JournalInv, HelperInv, RecordInv, CoverInv,
      ReliableCovered, ReportsComplete, EnterPhases, Phases
  <2>3. FinalInv'
    <3>1. Len(mem.actions) \in Nat
      BY DEF IInv, TypeOK, Session
    <3>2. QED
      BY <2>1, <3>1 DEF IInv, FinalInv
  <2>4. QED
    BY <2>2, <2>3 DEF IInv
<1>8. CASE Verify
  <2>1. /\ pc \in {"verify", "ackverify"} /\ pc' \in {"report", "giveup"}
        /\ faults' \in 0..MaxFaults
        /\ UNCHANGED <<journal, mem, plan, cur, ok, exit, system, sessions,
                       priorityEdits, serviceEdits>>
    BY <1>8 DEF Verify, Fault, IInv, TypeOK
  <2>2. TypeOK'
    BY <2>1 DEF IInv, TypeOK, Phases
  <2>3. CursorInv' /\ JournalInv' /\ HelperInv' /\ RecordInv' /\ CoverInv' /\ FinalInv'
    BY <2>1 DEF IInv, CursorInv, JournalInv, HelperInv, RecordInv, CoverInv, FinalInv,
      ReliableCovered, ReportsComplete, EnterPhases
  <2>4. QED
    BY <2>2, <2>3 DEF IInv
<1>9. CASE GiveUp
  <2>1. /\ InSafeMode(mem) \in Session /\ InSafeMode(mem).actions = mem.actions
        /\ InSafeMode(mem) # NoSession /\ InSafeMode(mem).id = mem.id
    BY SafeModeSession DEF IInv, TypeOK
  <2>2. /\ pc = "giveup" /\ disk' \in {disk, InSafeMode(mem)} /\ Return("failed")
        /\ faults' \in 0..MaxFaults
        /\ UNCHANGED <<reports, system, sessions, priorityEdits, serviceEdits>>
    BY <1>9 DEF GiveUp, SaveSucceeds, SaveFails, Fault, IInv, TypeOK
  <2>3. ReliableCovered' /\ Sound(disk')
    BY <2>1, <2>2, SaveCovers
  <2>4. ReportsComplete'
    BY <2>2 DEF IInv, RecordInv, ReportsComplete
  <2>5. QED
    BY <2>1, <2>2, <2>3, <2>4, ReturnInv DEF IInv, TypeOK, JournalInv
<1>10. CASE WriteReport
  <2> DEFINE report == [id |-> mem.id, complete |-> RollbackComplete(mem)]
  <2>1. pc = "report" /\ mem \in Session
    BY <1>10 DEF WriteReport, IInv, TypeOK
  <2>2. report \in [id : Nat, complete : BOOLEAN] /\ report.complete = TRUE
    <3>1. RollbackComplete(mem)
      BY <2>1, CompleteWhenFinal
    <3>2. QED
      BY <2>1, <3>1 DEF Session
  <2> HIDE DEF report
  <2>3. CASE SaveFails
    <3>1. /\ Return("failed")
          /\ UNCHANGED <<system, sessions, priorityEdits, serviceEdits>>
      BY <1>10, <2>3 DEF WriteReport, SaveSucceeds, SaveFails, Fault, IInv, TypeOK
    <3>2. QED
      BY <2>3, <3>1, FailedSaveInv
  <2>4. CASE reports' = reports \cup {report} /\ pc' = "remove"
             /\ UNCHANGED <<disk, mem, plan, cur, ok, exit, faults>>
    <3>0. UNCHANGED <<system, sessions, priorityEdits, serviceEdits>>
      BY <1>10 DEF WriteReport
    <3>1. TypeOK'
      BY <2>2, <2>4, <3>0 DEF IInv, TypeOK, Phases
    <3>2. CursorInv' /\ JournalInv' /\ HelperInv' /\ CoverInv' /\ FinalInv'
      BY <2>1, <2>4, <3>0 DEF IInv, CursorInv, JournalInv, HelperInv, CoverInv,
        FinalInv, ReliableCovered, EnterPhases
    <3>3. RecordInv'
      BY <2>1, <2>2, <2>4 DEF IInv, RecordInv, ReportsComplete
    <3>4. QED
      BY <3>1, <3>2, <3>3 DEF IInv
  <2>5. QED
    BY <1>10, <2>3, <2>4 DEF WriteReport, report
<1>11. CASE RemoveSession
  <2>1. pc = "remove"
    BY <1>11 DEF RemoveSession
  <2>2. CASE SaveSucceeds(NoSession) /\ Return("ok")
    <3>1. /\ disk' = NoSession
          /\ UNCHANGED <<reports, faults, system, sessions, priorityEdits,
                         serviceEdits>>
      BY <1>11, <2>2 DEF RemoveSession, SaveSucceeds
    <3>2. ReliableCovered'
      BY <2>1, <3>1, NothingOwed DEF ReliableCovered
    <3>3. ReportsComplete' /\ Sound(disk') /\ disk'.id = 0
      BY <3>1 DEF IInv, RecordInv, ReportsComplete, Sound, NoSession
    <3>4. QED
      BY <2>2, <3>1, <3>2, <3>3, ReturnInv DEF IInv, TypeOK
  <2>3. CASE SaveFails /\ Return("failed")
    BY <1>11, <2>3, FailedSaveInv DEF RemoveSession
  <2>4. QED
    BY <1>11, <2>2, <2>3 DEF RemoveSession
<1>12. QED
  BY <1>1, <1>2, <1>3, <1>4, <1>5, <1>6, <1>7, <1>8, <1>9, <1>10, <1>11 DEF Restore

\* Acknowledging a session closes uncertain close requests, which owe nothing.
LEMMA AcknowledgeInv ==
  ASSUME IInv, Acknowledge
  PROVE  IInv'
<1> USE BoundsAssumption, TargetsAssumption DEF counters, system, journal
<1> DEFINE s == Acknowledged(disk)
<1>0. /\ pc = "idle" /\ disk \in Session /\ disk.id # 0 /\ Len(disk.actions) \in Nat
      /\ Acknowledgeable(disk)
  BY DEF Acknowledge, HasActiveSession, IInv, TypeOK, JournalInv, Session
<1>1. /\ s \in Session
      /\ s.id = disk.id
      /\ Len(s.actions) = Len(disk.actions)
      /\ \A j \in 1..Len(disk.actions) :
           s.actions[j] = IF /\ disk.actions[j].target \in CloseTargets
                             /\ disk.actions[j].state = "Uncertain"
                          THEN [disk.actions[j] EXCEPT !.state = "Completed"]
                          ELSE disk.actions[j]
  BY <1>0, AcknowledgedRecords
<1>2. \A i \in 1..Len(s.actions) : ~Open(s.actions[i]) /\ SoundRecord(s.actions[i])
  <2> SUFFICES ASSUME NEW i \in 1..Len(s.actions)
               PROVE  ~Open(s.actions[i]) /\ SoundRecord(s.actions[i])
    OBVIOUS
  <2> DEFINE r == disk.actions[i]
  <2>1. r \in Record /\ SoundRecord(r) /\ i \in 1..Len(disk.actions)
    BY <1>0, <1>1 DEF IInv, RecordInv, Sound, Session
  <2>2. IF r.target \in Reversible
        THEN r.state \in {"RolledBack", "Rejected", "Failed"}
        ELSE r.state # "Planned"
    BY <1>0, <2>1 DEF Acknowledgeable
  <2>3. CASE r.target \in CloseTargets /\ r.state = "Uncertain"
    <3>1. /\ s.actions[i].target = r.target
          /\ s.actions[i].state = "Completed"
      BY <1>1, <2>1, <2>3 DEF Record
    <3>2. QED
      BY <2>3, <3>1 DEF SoundRecord, Open, Reversible
  <2>4. CASE ~(r.target \in CloseTargets /\ r.state = "Uncertain")
    <3>1. s.actions[i] = r
      BY <1>1, <2>1, <2>4
    <3>2. ~Open(r)
      <4>1. r.target \in Reversible \/ r.target \in CloseTargets
        BY <2>1 DEF Record, Targets, Reversible
      <4>2. CASE r.target \in Reversible
        BY <2>2, <4>2 DEF Open
      <4>3. CASE r.target \in CloseTargets /\ r.target \notin Reversible
        BY <2>1, <2>2, <2>4, <4>3 DEF SoundRecord, Open, Record, ActionStates
      <4>4. QED
        BY <4>1, <4>2, <4>3
    <3>3. QED
      BY <2>1, <3>1, <3>2
  <2>5. QED
    BY <2>3, <2>4
<1>3. \A t \in Reliable : owed[t] = NoValue
  <2> SUFFICES ASSUME NEW t \in Reliable, owed[t] # NoValue PROVE FALSE
    OBVIOUS
  <2>1. PICK i \in 1..Len(disk.actions) :
          disk.actions[i].target = t /\ Open(disk.actions[i])
    BY ReliableFacts DEF IInv, CoverInv, ReliableCovered, Journaled
  <2>2. QED
    BY <1>0, <2>1, ReliableFacts DEF Acknowledgeable, Open
<1> HIDE DEF s
<1>4. CASE SaveSucceeds(s)
  <2>0. /\ disk' = s /\ mem' = s /\ pc' = "ackverify"
        /\ UNCHANGED <<reports, faults, plan, cur, ok, exit, system, sessions,
                       priorityEdits, serviceEdits>>
    BY <1>4 DEF Acknowledge, SaveSucceeds, SaveFails, Fault, s, IInv, TypeOK
  <2>1. TypeOK'
    BY <1>1, <2>0 DEF IInv, TypeOK, Phases
  <2>2. CursorInv' /\ JournalInv' /\ HelperInv' /\ FinalInv'
    BY <1>0, <1>1, <1>2, <2>0 DEF IInv, CursorInv, JournalInv, HelperInv, FinalInv,
      EnterPhases, NoSession
  <2>3. RecordInv' /\ CoverInv'
    BY <1>2, <1>3, <2>0 DEF IInv, RecordInv, CoverInv, ReliableCovered, Sound, ReportsComplete
  <2>4. QED
    BY <2>1, <2>2, <2>3 DEF IInv
<1>5. CASE SaveFails
  BY <1>5, FailedSaveInv DEF Acknowledge, SaveSucceeds, SaveFails, Fault, s, IInv,
    TypeOK
<1>6. QED
  BY <1>4, <1>5 DEF Acknowledge, s

\* A crash forgets what was in memory; the file covers what is owed.
LEMMA CrashInv ==
  ASSUME IInv, Crash
  PROVE  IInv'
<1>0. late' = late \/ (HelperAnomalies # {} /\ late' \subseteq ServiceTargets)
  BY DEF Crash, IInv, TypeOK
<1>1. /\ Return("crashed") /\ faults' \in 0..MaxFaults
      /\ UNCHANGED <<disk, reports, prio, holder, closes, svc, owed, sessions,
                     priorityEdits, serviceEdits>>
  BY BoundsAssumption DEF Crash, Fault, journal, IInv, TypeOK
<1>2. ReliableCovered' /\ Sound(disk') /\ ReportsComplete'
  BY <1>1 DEF IInv, CoverInv, ReliableCovered, RecordInv, ReportsComplete
<1>3. QED
  BY <1>0, <1>1, <1>2, ReturnInv DEF IInv, TypeOK, JournalInv

\* Whatever happens around the command makes it owe less, but for a service that
\* is stopped late.
LEMMA WorldInv ==
  ASSUME IInv, World
  PROVE  IInv'
<1> USE PriorityAssumption, BoundsAssumption, TargetsAssumption, ReliableFacts
<1>1. /\ UNCHANGED <<journal, command>>
      /\ UNCHANGED <<sessions, faults, closes>>
      /\ late' \subseteq late
      /\ priorityEdits' \in 0..MaxPriorityEdits /\ serviceEdits' \in 0..MaxServiceEdits
      /\ prio' \in [PriorityTargets -> Priorities]
      /\ holder' \in [Processes -> {"original", "none"} \cup Strangers]
      /\ svc' \in [ServiceTargets -> {"Running", "Stopped"}]
      /\ owed' \in [Reversible -> Values]
      /\ \A t \in Reliable : owed'[t] \in {owed[t], NoValue}
      /\ \A t \in PriorityTargets : holder'[t] # "original" => owed'[t] = NoValue
  <2>0. /\ TypeOK
        /\ HelperAnomalies = {} => late = {}
        /\ NoValue \in Values /\ "Running" \in Values
        /\ \A t \in PriorityTargets : holder[t] # "original" => owed[t] = NoValue
        /\ PriorityTargets \subseteq Reversible /\ PriorityTargets \subseteq Processes
    BY DEF IInv, HelperInv, CoverInv, Values, Reversible, Processes
  <2>1. CASE \E t \in Processes : ProcessExits(t)
    BY <2>0, <2>1 DEF ProcessExits, TypeOK, counters
  <2>2. CASE \E t \in Processes : PidReused(t)
    BY <2>0, <2>2 DEF PidReused, TypeOK, counters
  <2>3. CASE \E t \in PriorityTargets : PriorityEdited(t)
    BY <2>0, <2>3 DEF PriorityEdited, TypeOK, counters
  <2>4. CASE \E t \in ServiceTargets : ServiceEdited(t)
    <3>1. PICK t \in ServiceTargets : ServiceEdited(t)
      BY <2>4
    <3>2. /\ svc' \in [ServiceTargets -> {"Running", "Stopped"}]
          /\ owed' = owed \/ owed' = [owed EXCEPT ![t] = NoValue]
      BY <2>0, <3>1 DEF ServiceEdited, TypeOK
    <3>3. /\ owed' \in [Reversible -> Values]
          /\ \A u \in Reversible : owed'[u] \in {owed[u], NoValue}
      BY <2>0, <3>2 DEF TypeOK
    <3>4. /\ UNCHANGED <<journal, command, prio, holder, closes, late, sessions,
                         faults, priorityEdits>>
          /\ serviceEdits' \in 0..MaxServiceEdits
      BY <2>0, <3>1 DEF ServiceEdited, TypeOK
    <3>5. \A u \in PriorityTargets : holder'[u] # "original" => owed'[u] = NoValue
      BY <2>0, <3>3, <3>4
    <3>6. QED
      BY <2>0, <3>2, <3>3, <3>4, <3>5 DEF TypeOK
  <2>5. CASE \E t \in ServiceTargets : HelperStopsLate(t)
    <3>1. PICK t \in ServiceTargets : HelperStopsLate(t)
      BY <2>5
    <3>2. t \in Reversible /\ t \notin PriorityTargets /\ t \notin Reliable
      BY <2>0, <3>1 DEF HelperStopsLate, Reversible
    <3>3. /\ UNCHANGED <<journal, command, prio, holder, closes, counters>>
          /\ late' \subseteq late
      BY <3>1 DEF HelperStopsLate
    <3>4. /\ svc' \in [ServiceTargets -> {"Running", "Stopped"}]
          /\ owed' = owed \/ owed' = [owed EXCEPT ![t] = "Running"]
      BY <2>0, <3>1 DEF HelperStopsLate, StopEffect, TypeOK
    <3>5. /\ owed' \in [Reversible -> Values]
          /\ \A u \in Reversible : u # t => owed'[u] = owed[u]
      BY <2>0, <3>4 DEF TypeOK
    <3>6. QED
      BY <2>0, <3>2, <3>3, <3>4, <3>5 DEF TypeOK, counters
  <2>6. QED
    BY <2>1, <2>2, <2>3, <2>4, <2>5 DEF World
<1> USE DEF journal, command
<1>2. TypeOK'
  BY <1>1 DEF IInv, TypeOK
<1>3. CursorInv' /\ JournalInv' /\ HelperInv' /\ FinalInv' /\ RecordInv'
  BY <1>1 DEF IInv, CursorInv, JournalInv, HelperInv, FinalInv, RecordInv,
    ReportsComplete, EnterPhases
<1>4. CoverInv'
  <2>1. \A t \in Reliable : owed'[t] # NoValue => owed[t] # NoValue
    BY <1>1
  <2>2. /\ ReliableCovered'
        /\ pc' \notin {"idle", "planning"} =>
             \A t \in Reliable : owed'[t] # NoValue => Journaled(mem', t)
    BY <1>1, <2>1 DEF IInv, CoverInv, ReliableCovered
  <2>3. QED
    BY <1>1, <2>2 DEF IInv, CoverInv
<1>5. QED
  BY <1>2, <1>3, <1>4 DEF IInv
-----------------------------------------------------------------------------
\* One step of the specification keeps the invariant.
LEMMA StepInv ==
  ASSUME IInv, [Next]_vars
  PROVE  IInv'
<1>1. CASE Enter
  BY <1>1, EnterInv
<1>2. CASE Restore
  BY <1>2, RestoreInv
<1>3. CASE Acknowledge
  BY <1>3, AcknowledgeInv
<1>4. CASE Crash
  BY <1>4, CrashInv
<1>5. CASE World
  BY <1>5, WorldInv
<1>6. CASE UNCHANGED vars
  BY <1>6 DEF vars, journal, command, system, counters, IInv, TypeOK, CursorInv,
    JournalInv, RecordInv, CoverInv, FinalInv, HelperInv, EnterPhases, ReliableCovered,
    ReportsComplete
<1>7. QED
  BY <1>1, <1>2, <1>3, <1>4, <1>5, <1>6 DEF Next

\* The inductive invariant holds in every state of every behaviour.
THEOREM InductiveInvariant == Spec => []IInv
<1>1. Init => IInv
  BY InitInv
<1>2. IInv /\ [Next]_vars => IInv'
  BY StepInv
<1>3. QED
  BY <1>1, <1>2, PTL DEF Spec

\* The types of all variables, for every set of targets, plan and bound.
THEOREM TypeCorrect == Spec => []TypeOK
<1>1. IInv => TypeOK
  BY DEF IInv
<1>2. QED
  BY <1>1, InductiveInvariant, PTL

\* What WorkBoost changed and has not given back is in an open record of the
\* session file at every instant, whatever crashes or fails to be saved; with
\* its value, but for a priority that the snapshot before the change did not
\* have, until the result of the change is saved.
THEOREM CoveredAlways ==
  ASSUME HelperAnomalies = {}
  PROVE  Spec => []Covered
<1>1. IInv => Covered
  BY ReliableFacts DEF IInv, CoverInv, ReliableCovered, Covered
<1>2. QED
  BY <1>1, InductiveInvariant, PTL

\* With a helper that stops late, or whose answer misses a stop, this still holds
\* of every priority.
THEOREM PrioritiesAlwaysCovered ==
  Spec => [](\A t \in PriorityTargets : owed[t] # NoValue => Journaled(disk, t))
<1>1. IInv => \A t \in PriorityTargets : owed[t] # NoValue => Journaled(disk, t)
  BY ReliableFacts DEF IInv, CoverInv, ReliableCovered
<1>2. QED
  BY <1>1, InductiveInvariant, PTL

\* Every session that is saved meets the conditions Deserialize places on it.
THEOREM SavedSessionsLoad == Spec => []SavedSessionLoads
<1>1. IInv => SavedSessionLoads
  BY DEF IInv, RecordInv, Sound, SoundRecord, SavedSessionLoads, Loadable
<1>2. QED
  BY <1>1, InductiveInvariant, PTL

\* A completion report is only written for a complete rollback.
THEOREM ReportsAreComplete == Spec => []ReportsComplete
<1>1. IInv => ReportsComplete
  BY DEF IInv, RecordInv
<1>2. QED
  BY <1>1, InductiveInvariant, PTL
-----------------------------------------------------------------------------
\* Steps of the promise, in terms of the session file and what is owed.
LEMMA PromiseStutters ==
  ASSUME disk'.id = disk.id, owed' = owed
  PROVE  [Promise!Next]_(Promise!vars)
BY DEF Promise!vars

LEMMA PromiseChange ==
  ASSUME disk'.id = disk.id, disk.id # 0, NEW t \in Reversible,
         owed \in [Reversible -> Values],
         NEW v, v # NoValue, owed' = [owed EXCEPT ![t] = v]
  PROVE  [Promise!Next]_(Promise!vars)
<1>1. {u \in Reversible : owed'[u] # NoValue}
        = {u \in Reversible : owed[u] # NoValue} \cup {t}
  OBVIOUS
<1>2. Promise!Change(t)
  BY <1>1 DEF Promise!Change
<1>3. QED
  BY <1>2 DEF Promise!Next

LEMMA PromiseUndo ==
  ASSUME disk'.id = disk.id, NEW t \in Reversible,
         owed'[t] = NoValue, \A u \in Reversible \ {t} : owed'[u] = owed[u]
  PROVE  [Promise!Next]_(Promise!vars)
<1>1. {u \in Reversible : owed'[u] # NoValue}
        = {u \in Reversible : owed[u] # NoValue} \ {t}
  OBVIOUS
<1>2. Promise!Undo(t)
  BY <1>1 DEF Promise!Undo
<1>3. QED
  BY <1>2 DEF Promise!Next

\* Every step of `coding enter` opens the session, changes one target inside
\* it, or does nothing the promise speaks of.
LEMMA EnterKeepsPromise ==
  ASSUME IInv, HelperAnomalies = {}, Enter
  PROVE  [Promise!Next]_(Promise!vars)
<1> USE BoundsAssumption, TargetsAssumption DEF counters, system, journal
<1>0. /\ pc \notin {"idle", "planning"} => mem.id = disk.id /\ disk.id # 0
      /\ pc = "planning" => disk.id = 0
      /\ disk \in Session /\ mem \in Session
      /\ prio \in [PriorityTargets -> Priorities]
      /\ owed \in [Reversible -> Values]
  BY DEF IInv, TypeOK, JournalInv, NoSession
<1>1. CASE EnterBegin \/ EnterAbandon \/ ExecuteClose \/ EnterDone
  BY <1>1, PromiseStutters DEF EnterBegin, EnterAbandon, ExecuteClose, EnterDone
<1>2. CASE CreateSession
  <2>1. CASE SaveFails
    BY <1>2, <2>1, PromiseStutters DEF CreateSession, SaveSucceeds, SaveFails, Fault,
      IInv, TypeOK
  <2>2. CASE disk' = [id |-> sessions + 1, state |-> "Active", actions |-> <<>>]
    <3>1. disk'.id \in Nat \ {0} /\ disk.id = 0 /\ owed' = owed
      BY <1>0, <1>2, <2>2 DEF CreateSession, IInv, TypeOK
    <3>2. Promise!Open
      BY <3>1 DEF Promise!Open
    <3>3. QED
      BY <3>2 DEF Promise!Next
  <2>3. QED
    BY <1>2, <2>1, <2>2 DEF CreateSession, SaveSucceeds
<1>3. CASE RefreshFails
  <2>1. InSafeMode(mem).id = mem.id
    BY <1>0, SafeModeSession
  <2>2. QED
    BY <1>0, <1>3, <2>1, PromiseStutters DEF RefreshFails
<1>4. CASE PreflightRejects \/ PreflightAccepts \/ PreflightUnread
  <2>1. /\ WithRecord(plan[cur], "Rejected", Payload(plan[cur])).id = mem.id
        /\ WithRecord(plan[cur], "Planned", Payload(plan[cur])).id = mem.id
        /\ WithRecord(plan[cur], "Planned", NoClass).id = mem.id
    BY <1>0 DEF WithRecord, Session
  <2>2. disk'.id = disk.id /\ owed' = owed
    BY <1>0, <1>4, <2>1 DEF PreflightRejects, PreflightAccepts, PreflightUnread,
      SaveSucceeds, SaveFails
  <2>3. QED
    BY <2>2, PromiseStutters
<1>5. CASE ExecutePriority
  <2> DEFINE t == plan[cur]
  <2>1. /\ disk.id # 0 /\ disk' = disk /\ t \in Reversible
        /\ prio[t] # NoValue
    BY <1>0, <1>5, PriorityAssumption DEF ExecutePriority, Reversible
  <2>2. \/ owed' = [owed EXCEPT ![t] = prio[t]]
        \/ owed' = owed
    BY <1>5 DEF ExecutePriority
  <2>3. QED
    BY <1>0, <2>1, <2>2, PromiseStutters, PromiseChange
<1>6. CASE ExecuteStop
  <2> DEFINE t == plan[cur]
  <2>1. /\ disk.id # 0 /\ disk' = disk /\ t \in Reversible
        /\ "Running" # NoValue
    BY <1>0, <1>6 DEF ExecuteStop, Reversible, NoValue
  <2>2. \/ owed' = [owed EXCEPT ![t] = "Running"]
        \/ owed' = owed
    BY <1>6 DEF ExecuteStop, StopEffect
  <2>3. QED
    BY <1>0, <2>1, <2>2, PromiseStutters, PromiseChange
<1>7. CASE StoreResult
  BY <1>0, <1>7, PromiseStutters DEF StoreResult, SaveSucceeds, SaveFails
<1>8. QED
  BY <1>1, <1>2, <1>3, <1>4, <1>5, <1>6, <1>7 DEF Enter

\* Every step of the restoring commands closes the session with nothing owed,
\* undoes one target, or does nothing the promise speaks of.
LEMMA RestoreKeepsPromise ==
  ASSUME IInv, HelperAnomalies = {}, Restore
  PROVE  [Promise!Next]_(Promise!vars)
<1> USE BoundsAssumption, TargetsAssumption DEF counters, system, journal
<1>0. /\ pc \notin {"idle", "planning"} => mem.id = disk.id /\ disk.id # 0
      /\ disk \in Session /\ mem \in Session
      /\ owed \in [Reversible -> Values]
  BY DEF IInv, TypeOK, JournalInv
<1>1. CASE UndoNothing \/ UndoWithoutValue \/ UndoClose \/ UndoEnd \/ Verify
  BY <1>1, PromiseStutters DEF UndoNothing, UndoWithoutValue, UndoClose,
    LeaveClosed, UndoEnd, Verify
<1>2. CASE RestoreBegin
  <2>1. [disk EXCEPT !.state = "Recovering"].id = disk.id
    BY <1>0 DEF Session
  <2>2. QED
    BY <1>2, <2>1, PromiseStutters DEF RestoreBegin, SaveSucceeds, SaveFails
<1>3. CASE UndoPriority
  <2> DEFINE t == mem.actions[cur].target
  <2>1. disk' = disk /\ t \in Reversible
    BY <1>3 DEF UndoPriority, RestorePriority, Reversible
  <2>2. owed' = [owed EXCEPT ![t] = NoValue] \/ owed' = owed
    BY <1>3 DEF UndoPriority, RestorePriority
  <2>3. QED
    BY <1>0, <2>1, <2>2, PromiseStutters, PromiseUndo
<1>4. CASE UndoService
  <2> DEFINE t == mem.actions[cur].target
  <2>1. disk' = disk /\ t \in Reversible
    BY <1>4 DEF UndoService, Reversible
  <2>2. owed' = [owed EXCEPT ![t] = NoValue] \/ owed' = owed
    BY <1>4 DEF UndoService
  <2>3. QED
    BY <1>0, <2>1, <2>2, PromiseStutters, PromiseUndo
<1>5. CASE StoreUndo
  BY <1>0, <1>5, PromiseStutters DEF StoreUndo, SaveSucceeds, SaveFails
<1>6. CASE GiveUp
  <2>1. InSafeMode(mem).id = mem.id
    BY <1>0, SafeModeSession
  <2>2. QED
    BY <1>0, <1>6, <2>1, PromiseStutters DEF GiveUp, SaveSucceeds, SaveFails
<1>7. CASE WriteReport
  BY <1>7, PromiseStutters DEF WriteReport, SaveFails
<1>8. CASE RemoveSession
  <2>1. CASE SaveFails
    BY <1>8, <2>1, PromiseStutters DEF RemoveSession, SaveFails
  <2>2. CASE SaveSucceeds(NoSession)
    <3>1. disk.id # 0 /\ disk'.id = 0 /\ owed' = owed
      BY <1>0, <1>8, <2>2 DEF RemoveSession, SaveSucceeds, NoSession
    <3>2. {t \in Reversible : owed[t] # NoValue} = {}
      BY <1>8, NothingOwed, ReliableFacts DEF RemoveSession
    <3>3. Promise!Close
      BY <3>1, <3>2 DEF Promise!Close
    <3>4. QED
      BY <3>3 DEF Promise!Next
  <2>3. QED
    BY <1>8, <2>1, <2>2 DEF RemoveSession
<1>9. QED
  BY <1>1, <1>2, <1>3, <1>4, <1>5, <1>6, <1>7, <1>8 DEF Restore

\* Acknowledging, crashing and the world keep the number of the session, and
\* the world undoes at most one change at a time.
LEMMA OthersKeepPromise ==
  ASSUME IInv, HelperAnomalies = {}, Acknowledge \/ Crash \/ World
  PROVE  [Promise!Next]_(Promise!vars)
<1> USE DEF counters, system, journal
<1>0. disk \in Session /\ owed \in [Reversible -> Values] /\ late = {}
  BY DEF IInv, TypeOK, HelperInv
<1>1. CASE Acknowledge
  <2>1. Acknowledged(disk).id = disk.id
    BY <1>0, AcknowledgedRecords
  <2>2. QED
    BY <1>1, <2>1, PromiseStutters DEF Acknowledge, SaveSucceeds, SaveFails
<1>2. CASE Crash
  BY <1>2, PromiseStutters DEF Crash
<1>3. ASSUME NEW t \in Processes, ProcessExits(t)
      PROVE  [Promise!Next]_(Promise!vars)
  <2>1. /\ disk' = disk
        /\ owed' = [u \in Reversible |-> IF u = t THEN NoValue ELSE owed[u]]
    BY <1>3 DEF ProcessExits
  <2>2. CASE t \in Reversible
    <3>1. owed'[t] = NoValue /\ \A u \in Reversible \ {t} : owed'[u] = owed[u]
      BY <2>1, <2>2
    <3>2. QED
      BY <2>1, <2>2, <3>1, PromiseUndo
  <2>3. CASE t \notin Reversible
    <3>1. owed' = owed
      BY <1>0, <2>1, <2>3
    <3>2. QED
      BY <2>1, <3>1, PromiseStutters
  <2>4. QED
    BY <2>2, <2>3
<1>4. ASSUME NEW t \in ServiceTargets, ServiceEdited(t)
      PROVE  [Promise!Next]_(Promise!vars)
  <2>1. /\ disk' = disk /\ t \in Reversible
        /\ owed' = owed \/ owed' = [owed EXCEPT ![t] = NoValue]
    BY <1>4 DEF ServiceEdited, Reversible
  <2>2. QED
    BY <1>0, <2>1, PromiseStutters, PromiseUndo
<1>5. CASE \/ \E t \in Processes : PidReused(t)
           \/ \E t \in PriorityTargets : PriorityEdited(t)
  BY <1>5, PromiseStutters DEF PidReused, PriorityEdited
<1>6. CASE \E t \in ServiceTargets : HelperStopsLate(t)
  BY <1>0, <1>6 DEF HelperStopsLate
<1>7. QED
  BY <1>1, <1>2, <1>3, <1>4, <1>5, <1>6 DEF World

\* CodingSession implements SessionPromise: outside a session nothing is
\* changed, and a session is closed only when everything has been given back.
THEOREM PromiseImplemented ==
  ASSUME HelperAnomalies = {}
  PROVE  Spec => PromiseSpec
<1>1. Init => Promise!Init
  BY DEF Init, Promise!Init, NoSession
<1>2. IInv /\ [Next]_vars => [Promise!Next]_(Promise!vars)
  <2> SUFFICES ASSUME IInv, [Next]_vars PROVE [Promise!Next]_(Promise!vars)
    OBVIOUS
  <2>1. CASE UNCHANGED vars
    BY <2>1, PromiseStutters DEF vars, journal, system
  <2>2. QED
    BY <2>1, EnterKeepsPromise, RestoreKeepsPromise, OthersKeepPromise DEF Next
<1>3. QED
  BY <1>1, <1>2, InductiveInvariant, PTL DEF Spec, PromiseSpec, Promise!Spec
=============================================================================
