------------------------ MODULE CodingOutcomeProofs -------------------------
(***************************************************************************)
(* Two more invariants of CodingSession, on top of CodingSessionProofs:    *)
(* close requests are never repeated or forgotten, and a command that      *)
(* reports success has left no unknown outcome behind.                     *)
(*                                                                         *)
(* Neither is inductive: that a request is not repeated follows from the   *)
(* record which the first one left in memory, and that `coding enter` ends *)
(* well from what each earlier action left there.  Then what no step of a  *)
(* command may do, from the same invariants.                               *)
(***************************************************************************)
EXTENDS CodingSessionProofs

Known == {"Applied", "Completed", "Failed", "Rejected"}

\* How the record of the action in hand is added, with the value that the snapshot
\* has or, of a priority, without one.
PreflightCase(state, original) ==
  /\ \/ original = Payload(plan[cur])
     \/ plan[cur] \in PriorityTargets /\ original = NoClass
  /\ \/ /\ disk' = WithRecord(plan[cur], state, original)
        /\ mem' = WithRecord(plan[cur], state, original)
        /\ plan' = plan
        /\ pc' = IF state = "Planned" THEN "calling" ELSE "next"
        /\ cur' = IF state = "Planned" THEN cur ELSE cur + 1
     \/ SaveFails /\ Return("failed")

LEMMA PreflightCases ==
  ASSUME PreflightRejects \/ PreflightAccepts \/ PreflightUnread
  PROVE  \E state \in {"Planned", "Rejected"},
            original \in {Payload(plan[cur]), NoClass} : PreflightCase(state, original)
BY DEF PreflightRejects, PreflightAccepts, PreflightUnread, PreflightCase, SaveSucceeds

\* A record admits that the request to close t may have been delivered.
Admits(s, t) ==
  \E i \in 1..Len(s.actions) :
    /\ s.actions[i].target = t
    /\ s.actions[i].state \in {"Planned", "Uncertain", "Completed"}

Running == pc \notin {"idle", "planning"}

CloseInv ==
  \A t \in CloseTargets :
    /\ closes[t] <= 1
    /\ closes[t] > 0 /\ disk # NoSession => Admits(disk, t)
    /\ closes[t] > 0 /\ Running => Admits(mem, t)
    /\ pc = "calling" /\ plan[cur] = t => closes[t] = 0

\* While entering, every record but the one in hand has a known outcome.
HonestInv ==
  /\ SuccessIsHonest
  /\ pc \in EnterPhases =>
       /\ mem.state = "Active"
       /\ \A i \in 1..Len(mem.actions) :
            \/ mem.actions[i].state \in Known
            \/ pc = "calling" /\ i = cur
            \/ pc = "storing" /\ i = cur /\ mem.actions[i].state = "Uncertain"

\* From one copy of a session to the next no admission gets lost.
Keeps(s, u) == \A t \in CloseTargets : Admits(s, t) => Admits(u, t)
-----------------------------------------------------------------------------
\* Copies with the same records.
LEMMA SameRecordsKeep ==
  ASSUME NEW s, NEW u, u.actions = s.actions
  PROVE  Keeps(s, u)
BY DEF Keeps, Admits

\* A record more.
LEMMA MoreRecordsKeep ==
  ASSUME NEW s, NEW u, Len(s.actions) \in Nat, Len(u.actions) = Len(s.actions) + 1,
         \A i \in 1..Len(s.actions) : u.actions[i] = s.actions[i]
  PROVE  Keeps(s, u)
<1> SUFFICES ASSUME NEW t \in CloseTargets, Admits(s, t) PROVE Admits(u, t)
  BY DEF Keeps
<1>1. PICK i \in 1..Len(s.actions) :
        /\ s.actions[i].target = t
        /\ s.actions[i].state \in {"Planned", "Uncertain", "Completed"}
  BY DEF Admits
<1>2. i \in 1..Len(u.actions) /\ u.actions[i] = s.actions[i]
  BY <1>1
<1>3. QED
  BY <1>1, <1>2 DEF Admits

\* A command that ends otherwise than well leaves both invariants to the file.
LEMMA ReturnOutcome ==
  ASSUME IInv, CloseInv, NEW how \in {"failed", "crashed"}, Return(how),
         closes' = closes,
         \/ disk' \in {disk, NoSession}
         \/ Running /\ Keeps(mem, disk')
  PROVE  CloseInv' /\ HonestInv'
<1>1. CloseInv'
  <2> SUFFICES ASSUME NEW t \in CloseTargets
               PROVE  /\ closes[t] <= 1
                      /\ closes[t] > 0 /\ disk' # NoSession => Admits(disk', t)
    BY DEF CloseInv, Running, Return
  <2>1. QED
    BY DEF CloseInv, Keeps
<1>2. HonestInv'
  BY DEF HonestInv, SuccessIsHonest, EnterPhases, Return
<1>3. QED
  BY <1>1, <1>2

\* A save that fails.
LEMMA FailedSaveOutcome ==
  ASSUME IInv, CloseInv, SaveFails, Return("failed"), closes' = closes
  PROVE  CloseInv' /\ HonestInv'
BY ReturnOutcome DEF SaveFails, journal

\* A running command that writes copies which lose no admission.
LEMMA KeepInv ==
  ASSUME IInv, CloseInv, Running, closes' = closes, pc' # "calling",
         disk' = NoSession \/ Keeps(disk, disk') \/ Keeps(mem, disk'),
         Keeps(disk, mem') \/ Keeps(mem, mem')
  PROVE  CloseInv'
<1> SUFFICES ASSUME NEW t \in CloseTargets
             PROVE  /\ closes[t] <= 1
                    /\ closes[t] > 0 /\ disk' # NoSession => Admits(disk', t)
                    /\ closes[t] > 0 => Admits(mem', t)
  BY DEF CloseInv, Running, Admits
<1>1. disk # NoSession
  BY DEF IInv, JournalInv, Running, NoSession
<1>2. QED
  BY <1>1 DEF CloseInv, Keeps

\* The record in hand is changed, and it is not a close request's, or the new
\* state admits the request.
LEMMA CurrentKeeps ==
  ASSUME mem \in Session, cur \in 1..Len(mem.actions),
         NEW state \in ActionStates, NEW original \in Values,
         SetCurrent(state, original),
         \/ mem.actions[cur].target \notin CloseTargets
         \/ state \in {"Uncertain", "Completed"}
  PROVE  Keeps(mem, mem')
<1> SUFFICES ASSUME NEW t \in CloseTargets, Admits(mem, t) PROVE Admits(mem', t)
  BY DEF Keeps
<1>1. /\ Len(mem'.actions) = Len(mem.actions)
      /\ mem'.actions[cur] = [target |-> mem.actions[cur].target,
                              state |-> state, original |-> original]
      /\ \A j \in 1..Len(mem.actions) : j # cur => mem'.actions[j] = mem.actions[j]
  BY CurrentRecord
<1>2. PICK i \in 1..Len(mem.actions) :
        /\ mem.actions[i].target = t
        /\ mem.actions[i].state \in {"Planned", "Uncertain", "Completed"}
  BY DEF Admits
<1>3. CASE i = cur
  BY <1>1, <1>2, <1>3 DEF Admits
<1>4. CASE i # cur
  BY <1>1, <1>2, <1>4 DEF Admits
<1>5. QED
  BY <1>3, <1>4
-----------------------------------------------------------------------------
\* Executing the action in hand gives its record a known outcome or an
\* uncertain one; a request is delivered to a target that had none so far, and
\* both the Planned record on disk and the new one in memory admit it.
LEMMA ExecuteOutcome ==
  ASSUME IInv, CloseInv, HonestInv, pc = "calling", pc' = "storing",
         UNCHANGED <<journal, plan, cur>>,
         NEW state \in Known \cup {"Uncertain"}, NEW original \in Values,
         SetCurrent(state, original),
         \/ closes' = closes
         \/ /\ plan[cur] \in CloseTargets
            /\ state \in CloseOutcomes
            /\ closes' = [closes EXCEPT ![plan[cur]] = @ + 1]
  PROVE  CloseInv' /\ HonestInv'
<1> USE DEF journal
<1>0. /\ mem \in Session /\ mem.actions \in Seq(Record)
      /\ Len(mem.actions) \in Nat
      /\ closes \in [CloseTargets -> Nat]
      /\ mem = disk /\ disk # NoSession
      /\ cur \in 1..Len(mem.actions)
      /\ mem.actions[cur].target = plan[cur]
      /\ mem.actions[cur].state = "Planned"
  BY DEF IInv, TypeOK, CursorInv, JournalInv, EnterPhases, Session, NoSession
<1>1. /\ mem'.id = mem.id
      /\ Len(mem'.actions) = Len(mem.actions)
      /\ mem'.actions[cur] = [target |-> mem.actions[cur].target,
                              state |-> state, original |-> original]
      /\ \A j \in 1..Len(mem.actions) : j # cur => mem'.actions[j] = mem.actions[j]
  <2>1. state \in ActionStates
    BY DEF Known, ActionStates
  <2>2. QED
    BY <1>0, <2>1, CurrentRecord
<1>2. mem'.state = mem.state
  BY <1>0 DEF SetCurrent, Session
<1>3. CloseInv'
  <2> SUFFICES ASSUME NEW t \in CloseTargets
               PROVE  /\ closes'[t] <= 1
                      /\ closes'[t] > 0 => Admits(disk, t) /\ Admits(mem', t)
    BY DEF CloseInv, Admits
  <2>1. CASE t = plan[cur]
    <3>1. closes[t] = 0
      BY <2>1 DEF CloseInv
    <3>2. closes'[t] <= 1
      BY <1>0, <2>1, <3>1
    <3>3. closes'[t] > 0 => state \in CloseOutcomes
      BY <1>0, <2>1, <3>1
    <3>4. Admits(disk, t)
      BY <1>0, <2>1 DEF Admits
    <3>5. state \in CloseOutcomes => Admits(mem', t)
      BY <1>0, <1>1, <2>1 DEF Admits, CloseOutcomes
    <3>6. QED
      BY <3>2, <3>3, <3>4, <3>5
  <2>2. CASE t # plan[cur]
    <3>1. closes'[t] = closes[t]
      BY <1>0, <2>2
    <3>2. closes[t] <= 1 /\ (closes[t] > 0 => Admits(mem, t))
      BY DEF CloseInv, Running
    <3>3. Admits(mem, t) => Admits(mem', t)
      BY <1>0, <1>1, <2>2 DEF Admits
    <3>4. QED
      BY <1>0, <3>1, <3>2, <3>3
  <2>3. QED
    BY <2>1, <2>2
<1>4. HonestInv'
  <2>1. mem.state = "Active"
        /\ \A i \in 1..Len(mem.actions) : i # cur => mem.actions[i].state \in Known
    BY DEF HonestInv, EnterPhases
  <2>2. QED
    BY <1>1, <1>2, <2>1 DEF HonestInv, SuccessIsHonest
<1>5. QED
  BY <1>3, <1>4

\* Every step of `coding enter`.
LEMMA EnterOutcome ==
  ASSUME IInv, CloseInv, HonestInv, Enter
  PROVE  CloseInv' /\ HonestInv'
<1> USE TargetsAssumption DEF counters, system, journal
<1>0. /\ mem \in Session /\ disk \in Session
      /\ mem.actions \in Seq(Record) /\ Len(mem.actions) \in Nat
      /\ closes \in [CloseTargets -> Nat]
      /\ pc \in EnterPhases => mem.id = disk.id /\ disk.id # 0
      /\ pc \in {"next", "calling"} => mem = disk
      /\ pc = "next" => cur = Len(mem.actions) + 1
      /\ pc \in {"calling", "storing"} =>
           cur \in 1..Len(mem.actions) /\ mem.actions[cur].target = plan[cur]
      /\ pc = "planning" => disk = NoSession
  BY DEF IInv, TypeOK, CursorInv, JournalInv, EnterPhases, Session
<1>1. CASE EnterBegin
  BY <1>1 DEF EnterBegin, CloseInv, HonestInv, SuccessIsHonest, Running,
    EnterPhases, HasActiveSession
<1>2. CASE EnterAbandon
  BY <1>0, <1>2 DEF EnterAbandon, Return, CloseInv, HonestInv, SuccessIsHonest,
    Running, EnterPhases, HasActiveSession
<1>3. CASE CreateSession
  <2> DEFINE s == [id |-> sessions + 1, state |-> "Active", actions |-> <<>>]
  <2>1. CASE SaveSucceeds(s) /\ mem' = s /\ pc' = "next" /\
             closes' = [t \in CloseTargets |-> 0]
    <3>1. s.state = "Active" /\ Len(s.actions) = 0
      OBVIOUS
    <3>2. QED
      BY <2>1, <3>1 DEF CloseInv, HonestInv, SuccessIsHonest, EnterPhases
  <2>2. CASE SaveFails /\ Return("failed") /\ closes' = closes
    BY <2>2, FailedSaveOutcome
  <2>3. QED
    BY <1>3, <2>1, <2>2 DEF CreateSession
<1>4. CASE RefreshFails
  <2>1. Keeps(mem, InSafeMode(mem))
    BY <1>0, SafeModeSession, SameRecordsKeep
  <2>2. QED
    BY <1>4, <2>1, ReturnOutcome DEF RefreshFails, Running
<1>5. CASE PreflightRejects \/ PreflightAccepts \/ PreflightUnread
  <2>a. PICK state \in {"Planned", "Rejected"},
             original \in {Payload(plan[cur]), NoClass} :
          PreflightCase(state, original)
    BY <1>5, PreflightCases
  <2> DEFINE s == WithRecord(plan[cur], state, original)
  <2>0. pc = "next" /\ cur <= Len(plan) /\ closes' = closes
    BY <1>5 DEF PreflightRejects, PreflightAccepts, PreflightUnread
  <2>b. \/ original = Payload(plan[cur])
        \/ plan[cur] \in PriorityTargets /\ original = NoClass
    BY <2>a DEF PreflightCase
  <2>1. /\ s \in Session
        /\ Len(s.actions) = cur
        /\ \A i \in 1..Len(mem.actions) : s.actions[i] = mem.actions[i]
        /\ s.actions[cur].target = plan[cur]
        /\ s.actions[cur].state = state
        /\ \A i \in 1..Len(mem.actions) : mem.actions[i].target # plan[cur]
    BY <2>0, <2>b, PreflightRecord
  <2>2. s.state = mem.state
    BY <1>0 DEF WithRecord, Session
  <2> HIDE DEF s
  <2>3. CASE SaveFails /\ Return("failed")
    BY <2>0, <2>3, FailedSaveOutcome
  <2>4. CASE /\ disk' = s /\ mem' = s /\ plan' = plan
             /\ pc' = IF state = "Planned" THEN "calling" ELSE "next"
             /\ cur' = IF state = "Planned" THEN cur ELSE cur + 1
    <3>1. disk' = s
      BY <2>4
    <3>2. Keeps(mem, s)
      BY <1>0, <2>0, <2>1, MoreRecordsKeep
    <3>3. \A t \in CloseTargets : closes[t] > 0 => Admits(mem, t)
      BY <2>0 DEF CloseInv, Running
    <3>4. \A t \in CloseTargets : plan[cur] = t => ~Admits(mem, t)
      BY <2>1 DEF Admits
    <3>5. \A t \in CloseTargets : plan[cur] = t => closes[t] = 0
      BY <1>0, <3>3, <3>4
    <3>6. CloseInv'
      <4> SUFFICES ASSUME NEW t \in CloseTargets
                   PROVE  /\ closes[t] <= 1
                          /\ closes[t] > 0 => Admits(s, t)
                          /\ pc' = "calling" /\ plan'[cur'] = t => closes[t] = 0
        BY <2>0, <2>4, <3>1 DEF CloseInv, Admits
      <4>1. QED
        BY <2>4, <3>2, <3>3, <3>5 DEF CloseInv, Keeps
    <3>7. HonestInv'
      <4>1. \A i \in 1..Len(mem.actions) : mem.actions[i].state \in Known
        BY <2>0 DEF HonestInv, EnterPhases
      <4>2. \A i \in 1..cur : i = cur \/ s.actions[i].state \in Known
        BY <1>0, <2>0, <2>1, <4>1
      <4>3. state = "Rejected" => s.actions[cur].state \in Known
        BY <2>1 DEF Known
      <4>4. s.state = "Active"
        BY <2>0, <2>2 DEF HonestInv, EnterPhases
      <4>5. pc' \in {"next", "calling"} /\ (pc' = "next" => state = "Rejected")
            /\ (pc' = "calling" => cur' = cur)
        BY <2>4
      <4>6. QED
        BY <2>1, <2>4, <4>2, <4>3, <4>4, <4>5 DEF HonestInv, SuccessIsHonest
    <3>8. QED
      BY <3>6, <3>7
  <2>5. QED
    BY <2>a, <2>3, <2>4 DEF PreflightCase, s
<1>6. CASE ExecutePriority
  <2>1. /\ prio[plan[cur]] \in Values /\ NoValue \in Values
        /\ "Applied" \in Known /\ "Failed" \in Known
    BY <1>6 DEF ExecutePriority, IInv, TypeOK, Values, Known
  <2>2. \/ SetCurrent("Applied", prio[plan[cur]])
        \/ SetCurrent("Failed", NoValue)
    BY <1>6 DEF ExecutePriority
  <2>3. pc = "calling" /\ pc' = "storing" /\ closes' = closes /\
        UNCHANGED <<journal, plan, cur>>
    BY <1>6 DEF ExecutePriority
  <2>4. QED
    BY <2>1, <2>2, <2>3, ExecuteOutcome
<1>7. CASE ExecuteClose
  <2>1. NoValue \in Values /\ "Failed" \in Known
        /\ CloseOutcomes \subseteq Known \cup {"Uncertain"}
    BY DEF Values, Known, CloseOutcomes
  <2>2. \/ SetCurrent("Failed", NoValue) /\ closes' = closes
        \/ \E state \in CloseOutcomes :
             /\ SetCurrent(state, NoValue)
             /\ closes' \in {closes, [closes EXCEPT ![plan[cur]] = @ + 1]}
    BY <1>7 DEF ExecuteClose
  <2>3. /\ pc = "calling" /\ pc' = "storing" /\ plan[cur] \in CloseTargets
        /\ UNCHANGED <<journal, plan, cur>>
    BY <1>7 DEF ExecuteClose
  <2>4. CASE SetCurrent("Failed", NoValue) /\ closes' = closes
    BY <2>1, <2>3, <2>4, ExecuteOutcome
  <2>5. ASSUME NEW state \in CloseOutcomes, SetCurrent(state, NoValue),
               closes' \in {closes, [closes EXCEPT ![plan[cur]] = @ + 1]}
        PROVE  CloseInv' /\ HonestInv'
    BY <2>1, <2>3, <2>5, ExecuteOutcome
  <2>6. QED
    BY <2>2, <2>4, <2>5
<1>8. CASE ExecuteStop
  <2>1. "Running" \in Values
        /\ {"Applied", "Failed", "Rejected", "Uncertain"} \subseteq Known \cup {"Uncertain"}
    BY DEF Values, Known
  <2>2. \E state \in {"Applied", "Failed", "Rejected", "Uncertain"} :
          SetCurrent(state, "Running")
    BY <1>8 DEF ExecuteStop
  <2>3. pc = "calling" /\ pc' = "storing" /\ closes' = closes /\
        UNCHANGED <<journal, plan, cur>>
    BY <1>8 DEF ExecuteStop
  <2>4. QED
    BY <2>1, <2>2, <2>3, ExecuteOutcome
<1>9. CASE StoreResult
  <2>0. pc = "storing" /\ closes' = closes
    BY <1>9 DEF StoreResult
  <2>1. CASE SaveFails /\ Return("failed")
    BY <2>0, <2>1, FailedSaveOutcome
  <2>2. CASE /\ SaveSucceeds(mem) /\ mem' = mem
             /\ IF mem.actions[cur].state = "Uncertain"
                THEN pc' = "giveup" /\ cur' = cur
                ELSE pc' = "next" /\ cur' = cur + 1
    <3>1. disk' = mem /\ Keeps(mem, mem)
      BY <2>2, SameRecordsKeep DEF SaveSucceeds
    <3>2. CloseInv'
      BY <2>0, <2>2, <3>1, KeepInv DEF Running
    <3>3. HonestInv'
      <4>1. /\ mem.state = "Active"
            /\ \A i \in 1..Len(mem.actions) : i = cur \/ mem.actions[i].state \in Known
        BY <2>0 DEF HonestInv, EnterPhases
      <4>2. mem.actions[cur].state \in Known \cup {"Uncertain"}
        BY <1>0, <2>0 DEF HonestInv, EnterPhases
      <4>3. QED
        BY <2>2, <4>1, <4>2 DEF HonestInv, SuccessIsHonest, EnterPhases
    <3>4. QED
      BY <3>2, <3>3
  <2>3. QED
    BY <1>9, <2>1, <2>2 DEF StoreResult
<1>10. CASE EnterDone
  <2>1. mem = disk /\ mem.state = "Active"
        /\ \A i \in 1..Len(mem.actions) : mem.actions[i].state \in Known
    BY <1>0, <1>10 DEF EnterDone, HonestInv, EnterPhases
  <2>2. HonestInv'
    BY <1>10, <2>1 DEF EnterDone, Return, HonestInv, SuccessIsHonest, EnterPhases, Known
  <2>3. CloseInv'
    BY <1>10 DEF EnterDone, Return, CloseInv, Running, Admits
  <2>4. QED
    BY <2>2, <2>3
<1>11. QED
  BY <1>1, <1>2, <1>3, <1>4, <1>5, <1>6, <1>7, <1>8, <1>9, <1>10 DEF Enter
-----------------------------------------------------------------------------
\* Rolling back the record in hand, which is a close request's only if the new
\* state is Uncertain.
LEMMA UndoOutcome ==
  ASSUME IInv, CloseInv, Undoing, pc' = "undone", disk' = disk, closes' = closes,
         NEW state \in {"RolledBack", "Uncertain"},
         SetCurrent(state, mem.actions[cur].original),
         mem.actions[cur].target \in CloseTargets => state = "Uncertain"
  PROVE  CloseInv' /\ HonestInv'
<1>0. /\ mem \in Session /\ mem.actions \in Seq(Record)
      /\ cur \in 1..Len(mem.actions) /\ pc = "undo"
  BY DEF IInv, TypeOK, CursorInv, Session, Undoing
<1>1. state \in ActionStates /\ mem.actions[cur].original \in Values
  <2>1. mem.actions[cur] \in Record
    BY <1>0
  <2>2. QED
    BY <2>1 DEF Record, ActionStates
<1>2. Keeps(mem, mem') /\ Keeps(disk, disk')
  BY <1>0, <1>1, CurrentKeeps, SameRecordsKeep
<1>3. CloseInv'
  BY <1>0, <1>2, KeepInv DEF Running
<1>4. HonestInv'
  BY DEF HonestInv, SuccessIsHonest, EnterPhases
<1>5. QED
  BY <1>3, <1>4

\* Every step of the restoring commands.
LEMMA RestoreOutcome ==
  ASSUME IInv, CloseInv, HonestInv, Restore
  PROVE  CloseInv' /\ HonestInv'
<1> USE TargetsAssumption DEF counters, system, journal
<1>0. /\ disk \in Session /\ mem \in Session
      /\ Keeps(mem, mem) /\ Keeps(disk, disk)
      /\ Keeps(mem, InSafeMode(mem))
  BY SafeModeSession, SameRecordsKeep DEF IInv, TypeOK
<1>1. CASE RestoreBegin
  <2> DEFINE s == [disk EXCEPT !.state = "Recovering"]
  <2>1. s.actions = disk.actions
    BY <1>0 DEF Session
  <2>2. CASE SaveSucceeds(s) /\ mem' = s /\ pc' = "undo"
    <3>1. /\ pc = "idle" /\ disk # NoSession /\ closes' = closes
          /\ disk' = s /\ mem' = s
      BY <1>1, <2>2 DEF RestoreBegin, HasActiveSession, SaveSucceeds
    <3>2. Keeps(disk, s)
      BY <2>1, SameRecordsKeep
    <3>3. \A t \in CloseTargets : closes[t] <= 1 /\ (closes[t] > 0 => Admits(s, t))
      BY <3>1, <3>2 DEF CloseInv, Keeps
    <3>4. CloseInv'
      BY <2>2, <3>1, <3>3 DEF CloseInv, Admits
    <3>5. HonestInv'
      BY <2>2 DEF HonestInv, SuccessIsHonest, EnterPhases
    <3>6. QED
      BY <3>4, <3>5
  <2>3. CASE SaveFails /\ Return("failed")
    BY <1>1, <2>3, FailedSaveOutcome DEF RestoreBegin
  <2>4. QED
    BY <1>1, <2>2, <2>3 DEF RestoreBegin
<1>2. CASE UndoNothing \/ UndoEnd \/ Verify
  <2>1. /\ pc \notin {"idle", "planning"} /\ pc' \in {"undone", "verify", "giveup", "report"}
        /\ UNCHANGED <<disk, mem, closes>>
    BY <1>2 DEF UndoNothing, Undoing, UndoEnd, Verify
  <2>2. CloseInv'
    BY <1>0, <2>1, KeepInv DEF Running
  <2>3. HonestInv'
    BY <2>1 DEF HonestInv, SuccessIsHonest, EnterPhases
  <2>4. QED
    BY <2>2, <2>3
<1>3. CASE UndoPriority \/ UndoWithoutValue \/ UndoService
  <2>1. /\ Undoing /\ pc' = "undone" /\ disk' = disk /\ closes' = closes
        /\ mem.actions[cur].target \notin CloseTargets
    BY <1>3 DEF UndoPriority, RestorePriority, UndoWithoutValue, UndoService
  <2>2. \E state \in {"RolledBack", "Uncertain"} :
          SetCurrent(state, mem.actions[cur].original)
    BY <1>3 DEF UndoPriority, RestorePriority, UndoWithoutValue, UndoService
  <2>3. QED
    BY <2>1, <2>2, UndoOutcome
<1>4. CASE UndoClose
  BY <1>4, UndoOutcome DEF UndoClose, LeaveClosed
<1>5. CASE StoreUndo
  <2>1. /\ pc = "undone" /\ pc' \in {"undo", "giveup"}
        /\ mem' = mem /\ disk' \in {mem, disk} /\ closes' = closes
    BY <1>5 DEF StoreUndo, SaveSucceeds, SaveFails
  <2>2. CloseInv'
    BY <1>0, <2>1, KeepInv DEF Running
  <2>3. HonestInv'
    BY <2>1 DEF HonestInv, SuccessIsHonest, EnterPhases
  <2>4. QED
    BY <2>2, <2>3
<1>6. CASE GiveUp
  BY <1>0, <1>6, ReturnOutcome DEF GiveUp, SaveSucceeds, SaveFails, Running
<1>7. CASE WriteReport
  <2>1. CASE SaveFails /\ Return("failed")
    BY <1>7, <2>1, FailedSaveOutcome DEF WriteReport
  <2>2. CASE pc' = "remove" /\ UNCHANGED <<disk, mem>>
    <3>1. pc = "report" /\ closes' = closes
      BY <1>7 DEF WriteReport
    <3>2. CloseInv'
      BY <1>0, <2>2, <3>1, KeepInv DEF Running
    <3>3. HonestInv'
      BY <2>2 DEF HonestInv, SuccessIsHonest, EnterPhases
    <3>4. QED
      BY <3>2, <3>3
  <2>3. QED
    BY <1>7, <2>1, <2>2 DEF WriteReport
<1>8. CASE RemoveSession
  <2>1. CASE SaveFails /\ Return("failed")
    BY <1>8, <2>1, FailedSaveOutcome DEF RemoveSession
  <2>2. CASE SaveSucceeds(NoSession) /\ Return("ok")
    <3>1. disk' = NoSession /\ pc' = "idle" /\ closes' = closes
      BY <1>8, <2>2 DEF RemoveSession, SaveSucceeds, Return
    <3>2. CloseInv'
      BY <3>1 DEF CloseInv, Running
    <3>3. HonestInv'
      BY <3>1 DEF HonestInv, SuccessIsHonest, EnterPhases, HasActiveSession
    <3>4. QED
      BY <3>2, <3>3
  <2>3. QED
    BY <1>8, <2>1, <2>2 DEF RemoveSession
<1>9. QED
  BY <1>1, <1>2, <1>3, <1>4, <1>5, <1>6, <1>7, <1>8 DEF Restore

\* Acknowledging turns uncertain requests into completed ones.
LEMMA AcknowledgeOutcome ==
  ASSUME IInv, CloseInv, HonestInv, Acknowledge
  PROVE  CloseInv' /\ HonestInv'
<1> USE DEF system, journal
<1> DEFINE s == Acknowledged(disk)
<1>1. CASE SaveFails /\ Return("failed")
  BY <1>1, FailedSaveOutcome DEF Acknowledge
<1>2. CASE SaveSucceeds(s) /\ mem' = s /\ pc' = "ackverify"
  <2>1. /\ pc = "idle" /\ disk # NoSession /\ closes' = closes /\ disk' = s
        /\ disk \in Session
    BY <1>2 DEF Acknowledge, HasActiveSession, SaveSucceeds, IInv, TypeOK
  <2>2. Keeps(disk, s)
    <3> SUFFICES ASSUME NEW t \in CloseTargets, Admits(disk, t) PROVE Admits(s, t)
      BY DEF Keeps
    <3>1. PICK i \in 1..Len(disk.actions) :
            /\ disk.actions[i].target = t
            /\ disk.actions[i].state \in {"Planned", "Uncertain", "Completed"}
      BY DEF Admits
    <3>2. disk.actions[i] \in Record
      BY <2>1 DEF Session
    <3>3. /\ i \in 1..Len(s.actions)
          /\ s.actions[i] = IF /\ disk.actions[i].target \in CloseTargets
                               /\ disk.actions[i].state = "Uncertain"
                            THEN [disk.actions[i] EXCEPT !.state = "Completed"]
                            ELSE disk.actions[i]
      BY <2>1, AcknowledgedRecords
    <3>4. /\ s.actions[i].target = t
          /\ s.actions[i].state \in {"Planned", "Uncertain", "Completed"}
      BY <3>1, <3>2, <3>3 DEF Record
    <3>5. QED
      BY <3>3, <3>4 DEF Admits
  <2>3. \A t \in CloseTargets : closes[t] <= 1 /\ (closes[t] > 0 => Admits(s, t))
    BY <2>1, <2>2 DEF CloseInv, Keeps
  <2> HIDE DEF s
  <2>4. CloseInv'
    BY <1>2, <2>1, <2>3 DEF CloseInv, Admits
  <2>5. HonestInv'
    BY <1>2 DEF HonestInv, SuccessIsHonest, EnterPhases
  <2>6. QED
    BY <2>4, <2>5
<1>3. QED
  BY <1>1, <1>2 DEF Acknowledge

\* Every step; the world changes neither sessions nor what has been closed.
LEMMA OutcomeStep ==
  ASSUME IInv, CloseInv /\ HonestInv, [Next]_vars
  PROVE  (CloseInv /\ HonestInv)'
<1> USE DEF journal, command, system, counters
<1>1. CASE Enter \/ Restore \/ Acknowledge
  BY <1>1, EnterOutcome, RestoreOutcome, AcknowledgeOutcome
<1>2. CASE Crash
  BY <1>2, ReturnOutcome DEF Crash
<1>3. CASE World \/ UNCHANGED vars
  <2>1. UNCHANGED <<journal, command, closes>>
    BY <1>3 DEF World, ProcessExits, PidReused, PriorityEdited, ServiceEdited,
      HelperStopsLate, vars
  <2>2. QED
    BY <2>1 DEF CloseInv, HonestInv, SuccessIsHonest, HasActiveSession, Running,
      EnterPhases, Admits
<1>4. QED
  BY <1>1, <1>2, <1>3 DEF Next

\* Both hold in every state of every behaviour.
LEMMA OutcomeInvariant == Spec => [](CloseInv /\ HonestInv)
<1>1. Init => CloseInv /\ HonestInv
  BY DEF Init, CloseInv, HonestInv, SuccessIsHonest, EnterPhases, Running
<1>2. IInv /\ (CloseInv /\ HonestInv) /\ [Next]_vars => (CloseInv /\ HonestInv)'
  BY OutcomeStep
<1>3. QED
  BY <1>1, <1>2, InductiveInvariant, PTL DEF Spec

\* WM_CLOSE is requested at most once per session and target, and as long as
\* the session file is there its record does not say that nothing was sent.
THEOREM CloseNeverRepeatedAlways == Spec => []CloseNeverRepeated
<1>1. IInv /\ CloseInv => CloseNeverRepeated
  BY DEF CloseInv, CloseNeverRepeated, HasActiveSession, Admits, IInv, TypeOK
<1>2. QED
  BY <1>1, InductiveInvariant, OutcomeInvariant, PTL

\* `coding enter` succeeds only with every outcome known, the other commands
\* only without a session left.
THEOREM SuccessIsAlwaysHonest == Spec => []SuccessIsHonest
<1>1. HonestInv => SuccessIsHonest
  BY DEF HonestInv
<1>2. QED
  BY <1>1, OutcomeInvariant, PTL

-----------------------------------------------------------------------------
(***************************************************************************)
(* What no step may do.  Most steps write the session file from memory, so *)
(* what matters is how far memory can be ahead of the file: FollowInv.     *)
(***************************************************************************)

\* u has the records of s, and those that are final in s unchanged.
Follows(s, u) ==
  /\ Len(u.actions) = Len(s.actions)
  /\ \A i \in 1..Len(s.actions) :
       ~Open(s.actions[i]) => u.actions[i].state = s.actions[i].state

FollowInv == Running => Follows(disk, mem)

\* A step on the file: nothing of the session, another session, or one record
\* more while every outcome so far is known.
Extends(s, u) ==
  /\ Len(u.actions) = Len(s.actions) + 1
  /\ \A i \in 1..Len(s.actions) :
       /\ s.actions[i].state \in Known
       /\ u.actions[i] = s.actions[i]

FileStep ==
  \/ disk'.id # disk.id
  \/ Follows(disk, disk')
  \/ Extends(disk, disk')
-----------------------------------------------------------------------------
\* Copies with the same records.
LEMMA SameRecordsFollow ==
  ASSUME NEW s, NEW u, u.actions = s.actions
  PROVE  Follows(s, u)
BY DEF Follows

\* The record in hand may change as long as it is open in the file.
LEMMA CurrentFollows ==
  ASSUME mem \in Session, mem = disk, cur \in 1..Len(mem.actions),
         Open(mem.actions[cur]),
         NEW state \in ActionStates, NEW original \in Values,
         SetCurrent(state, original)
  PROVE  Follows(disk, mem')
<1>1. /\ Len(mem'.actions) = Len(mem.actions)
      /\ \A j \in 1..Len(mem.actions) : j # cur => mem'.actions[j] = mem.actions[j]
  BY CurrentRecord
<1>2. QED
  BY <1>1 DEF Follows

\* A command that returns, saves memory or not, or saves it in Safe Mode.
LEMMA WriteFollows ==
  ASSUME IInv, FollowInv, Running, disk' \in {disk, mem, InSafeMode(mem)}
  PROVE  /\ FileStep
         /\ mem' = mem => FollowInv'
         /\ pc' = "idle" => FollowInv'
<1>1. /\ mem \in Session /\ Follows(disk, mem)
      /\ InSafeMode(mem).actions = mem.actions
  BY SafeModeSession DEF IInv, TypeOK, FollowInv
<1>2. Follows(disk, disk') /\ Follows(mem, mem) /\ Follows(InSafeMode(mem), mem)
  BY <1>1, SameRecordsFollow DEF Follows
<1>3. QED
  BY <1>1, <1>2 DEF FileStep, FollowInv, Running

\* A step that neither touches the file nor runs a command.
LEMMA IdleFollows ==
  ASSUME disk' = disk, pc' \in {"idle", "planning"} \/ (pc' = pc /\ mem' = mem),
         FollowInv
  PROVE  FileStep /\ FollowInv'
BY SameRecordsFollow DEF FileStep, FollowInv, Running

\* Executing the action in hand: its record is Planned, so open.
LEMMA ExecuteFollows ==
  ASSUME IInv, pc = "calling", disk' = disk,
         NEW state \in ActionStates, NEW original \in Values,
         SetCurrent(state, original)
  PROVE  FileStep /\ FollowInv'
<1>1. /\ mem \in Session /\ mem = disk /\ cur \in 1..Len(mem.actions)
      /\ mem.actions[cur].state = "Planned"
  BY DEF IInv, TypeOK, CursorInv, JournalInv, Session
<1>2. Follows(disk, mem')
  BY <1>1, CurrentFollows DEF Open
<1>3. QED
  BY <1>2, SameRecordsFollow DEF FileStep, FollowInv

\* Every step of `coding enter`.
LEMMA EnterFollows ==
  ASSUME IInv, HonestInv, FollowInv, Enter
  PROVE  FileStep /\ FollowInv'
<1> USE DEF counters, system, journal
<1>0. /\ disk \in Session /\ mem \in Session
      /\ mem.actions \in Seq(Record) /\ Len(mem.actions) \in Nat
      /\ pc = "planning" => disk = NoSession
      /\ pc = "next" => mem = disk /\ cur = Len(mem.actions) + 1
      /\ sessions \in Nat
  BY BoundsAssumption DEF IInv, TypeOK, CursorInv, JournalInv, EnterPhases, Session
<1>1. CASE EnterBegin \/ EnterAbandon \/ EnterDone
  BY <1>1, IdleFollows DEF EnterBegin, EnterAbandon, EnterDone, Return
<1>2. CASE CreateSession
  <2> DEFINE s == [id |-> sessions + 1, state |-> "Active", actions |-> <<>>]
  <2>1. CASE SaveSucceeds(s) /\ mem' = s
    <3>1. disk.id = 0 /\ disk'.id # 0
      BY <1>0, <1>2, <2>1 DEF CreateSession, SaveSucceeds, NoSession
    <3>2. disk' = s /\ mem' = s
      BY <2>1 DEF SaveSucceeds
    <3> HIDE DEF s
    <3>3. QED
      BY <3>1, <3>2, SameRecordsFollow DEF FileStep, FollowInv
  <2>2. CASE SaveFails /\ Return("failed")
    BY <2>2, IdleFollows DEF SaveFails, Return
  <2>3. QED
    BY <1>2, <2>1, <2>2 DEF CreateSession
<1>3. CASE RefreshFails
  <2>1. Running /\ disk' \in {disk, mem, InSafeMode(mem)} /\ pc' = "idle"
    BY <1>3 DEF RefreshFails, Running, Return
  <2>2. QED
    BY <2>1, WriteFollows
<1>4. CASE PreflightRejects \/ PreflightAccepts \/ PreflightUnread
  <2>a. PICK state \in {"Planned", "Rejected"},
             original \in {Payload(plan[cur]), NoClass} :
          PreflightCase(state, original)
    BY <1>4, PreflightCases
  <2> DEFINE s == WithRecord(plan[cur], state, original)
  <2>0. pc = "next" /\ cur <= Len(plan)
    BY <1>4 DEF PreflightRejects, PreflightAccepts, PreflightUnread
  <2>b. \/ original = Payload(plan[cur])
        \/ plan[cur] \in PriorityTargets /\ original = NoClass
    BY <2>a DEF PreflightCase
  <2>1. /\ Len(s.actions) = cur
        /\ \A i \in 1..Len(mem.actions) : s.actions[i] = mem.actions[i]
    BY <2>0, <2>b, PreflightRecord
  <2> HIDE DEF s
  <2>2. CASE disk' = s /\ mem' = s
    <3>1. \A i \in 1..Len(mem.actions) : mem.actions[i].state \in Known
      BY <2>0 DEF HonestInv, EnterPhases
    <3>2. disk' = s /\ Extends(disk, s)
      BY <1>0, <2>0, <2>1, <2>2, <3>1 DEF Extends, SaveSucceeds
    <3>3. QED
      BY <2>2, <3>2, SameRecordsFollow DEF FileStep, FollowInv
  <2>3. CASE SaveFails /\ Return("failed")
    BY <2>3, IdleFollows DEF SaveFails, Return
  <2>4. QED
    BY <2>a, <2>2, <2>3 DEF PreflightCase, s
<1>5. CASE ExecutePriority \/ ExecuteClose \/ ExecuteStop
  <2>1. pc = "calling" /\ disk' = disk
    BY <1>5 DEF ExecutePriority, ExecuteClose, ExecuteStop
  <2>2. \E state \in ActionStates, original \in Values : SetCurrent(state, original)
    <3>1. CASE ExecutePriority
      <4>1. prio[plan[cur]] \in Values /\ NoValue \in Values
            /\ {"Applied", "Failed"} \subseteq ActionStates
        BY <3>1 DEF ExecutePriority, IInv, TypeOK, Values, ActionStates
      <4>2. QED
        BY <3>1, <4>1 DEF ExecutePriority
    <3>2. CASE ExecuteClose
      <4>1. NoValue \in Values /\ CloseOutcomes \cup {"Failed"} \subseteq ActionStates
        BY DEF Values, ActionStates, CloseOutcomes
      <4>2. QED
        BY <3>2, <4>1 DEF ExecuteClose
    <3>3. CASE ExecuteStop
      <4>1. /\ "Running" \in Values
            /\ {"Applied", "Failed", "Rejected", "Uncertain"} \subseteq ActionStates
        BY DEF Values, ActionStates
      <4>2. QED
        BY <3>3, <4>1 DEF ExecuteStop
    <3>4. QED
      BY <1>5, <3>1, <3>2, <3>3
  <2>3. QED
    BY <2>1, <2>2, ExecuteFollows
<1>6. CASE StoreResult
  <2>1. Running /\ disk' \in {disk, mem, InSafeMode(mem)}
        /\ (pc' = "idle" \/ mem' = mem)
    BY <1>6 DEF StoreResult, SaveSucceeds, SaveFails, Running, Return
  <2>2. QED
    BY <2>1, WriteFollows
<1>7. QED
  BY <1>1, <1>2, <1>3, <1>4, <1>5, <1>6 DEF Enter

\* Every step of the restoring commands: rollback acts on open records, and the
\* file is removed or written from memory.
LEMMA RestoreFollows ==
  ASSUME IInv, FollowInv, Restore
  PROVE  FileStep /\ FollowInv'
<1> USE DEF counters, system, journal
<1>0. /\ disk \in Session /\ mem \in Session
      /\ Running => mem.id = disk.id /\ disk.id # 0
  BY DEF IInv, TypeOK, JournalInv, Running
<1>1. CASE RestoreBegin
  <2> DEFINE s == [disk EXCEPT !.state = "Recovering"]
  <2>1. s.actions = disk.actions
    BY <1>0 DEF Session
  <2> HIDE DEF s
  <2>2. CASE SaveSucceeds(s) /\ mem' = s
    BY <2>1, <2>2, SameRecordsFollow DEF SaveSucceeds, FileStep, FollowInv
  <2>3. CASE SaveFails /\ Return("failed")
    BY <2>3, IdleFollows DEF SaveFails, Return
  <2>4. QED
    BY <1>1, <2>2, <2>3 DEF RestoreBegin, s
<1>2. CASE UndoNothing \/ UndoEnd \/ Verify \/ StoreUndo \/ GiveUp
  <2>1. Running /\ disk' \in {disk, mem, InSafeMode(mem)}
        /\ (pc' = "idle" \/ mem' = mem)
    BY <1>2 DEF UndoNothing, Undoing, UndoEnd, Verify, StoreUndo, GiveUp, Return,
      SaveSucceeds, SaveFails, Running
  <2>2. QED
    BY <2>1, WriteFollows
<1>3. CASE UndoPriority \/ UndoWithoutValue \/ UndoClose \/ UndoService
  <2>1. Undoing /\ Open(mem.actions[cur]) /\ disk' = disk
    BY <1>3 DEF UndoPriority, RestorePriority, UndoWithoutValue, UndoClose,
      LeaveClosed, UndoService
  <2>2. \E state \in {"RolledBack", "Uncertain"} :
          SetCurrent(state, mem.actions[cur].original)
    BY <1>3 DEF UndoPriority, RestorePriority, UndoWithoutValue, UndoClose,
      LeaveClosed, UndoService
  <2>3. /\ mem = disk /\ cur \in 1..Len(mem.actions)
        /\ mem.actions[cur].original \in Values
        /\ {"RolledBack", "Uncertain"} \subseteq ActionStates
    <3>1. mem = disk /\ mem.actions \in Seq(Record) /\ cur \in 1..Len(mem.actions)
      BY <2>1 DEF IInv, TypeOK, JournalInv, CursorInv, Undoing, Session
    <3>2. mem.actions[cur] \in Record
      BY <3>1
    <3>3. QED
      BY <3>1, <3>2 DEF Record, ActionStates
  <2>4. Follows(disk, mem')
    BY <1>0, <2>1, <2>2, <2>3, CurrentFollows
  <2>5. QED
    BY <2>1, <2>4, SameRecordsFollow DEF FileStep, FollowInv
<1>4. CASE WriteReport
  <2>1. Running /\ disk' = disk /\ (pc' = "idle" \/ mem' = mem)
    BY <1>4 DEF WriteReport, SaveFails, Return, Running
  <2>2. QED
    BY <2>1, WriteFollows
<1>5. CASE RemoveSession
  <2>1. Running /\ pc' = "idle" /\ disk' \in {disk, NoSession}
    BY <1>5 DEF RemoveSession, SaveSucceeds, SaveFails, Return, Running
  <2>2. CASE disk' = NoSession
    BY <1>0, <2>1, <2>2 DEF FileStep, FollowInv, Running, NoSession
  <2>3. CASE disk' = disk
    BY <2>1, <2>3, WriteFollows
  <2>4. QED
    BY <2>1, <2>2, <2>3
<1>6. QED
  BY <1>1, <1>2, <1>3, <1>4, <1>5 DEF Restore

\* Acknowledging rewrites uncertain records, which are open.
LEMMA AcknowledgeFollows ==
  ASSUME IInv, FollowInv, Acknowledge
  PROVE  FileStep /\ FollowInv'
<1> DEFINE s == Acknowledged(disk)
<1>1. Follows(disk, s)
  BY AcknowledgedRecords DEF IInv, TypeOK, Follows, Open
<1> HIDE DEF s
<1>2. CASE SaveSucceeds(s) /\ mem' = s
  BY <1>1, <1>2, SameRecordsFollow DEF SaveSucceeds, FileStep, FollowInv
<1>3. CASE SaveFails /\ Return("failed")
  BY <1>3, IdleFollows DEF SaveFails, Return, journal
<1>4. QED
  BY <1>2, <1>3 DEF Acknowledge, s

\* Every step.
LEMMA FollowStep ==
  ASSUME IInv, HonestInv, FollowInv, [Next]_vars
  PROVE  FileStep /\ FollowInv'
<1> USE DEF journal, command, system, counters
<1>1. CASE Enter \/ Restore \/ Acknowledge
  BY <1>1, EnterFollows, RestoreFollows, AcknowledgeFollows
<1>2. CASE Crash
  BY <1>2, IdleFollows DEF Crash, Return
<1>3. CASE World \/ UNCHANGED vars
  <2>1. UNCHANGED <<journal, command>>
    BY <1>3 DEF World, ProcessExits, PidReused, PriorityEdited, ServiceEdited,
      HelperStopsLate, vars
  <2>2. QED
    BY <2>1, IdleFollows
<1>4. QED
  BY <1>1, <1>2, <1>3 DEF Next

\* The file is never ahead of memory, and memory never by more than open records.
LEMMA FollowInvariant == Spec => []FollowInv
<1>1. Init => FollowInv
  BY DEF Init, FollowInv, Running
<1>2. IInv /\ (CloseInv /\ HonestInv) /\ FollowInv /\ [Next]_vars => FollowInv'
  BY FollowStep
<1>3. QED
  BY <1>1, <1>2, InductiveInvariant, OutcomeInvariant, PTL DEF Spec

\* A session file with an uncertain outcome gets no further record.
THEOREM NothingAfterUncertainAlways == Spec => NothingAfterUncertain
<1> DEFINE A == (/\ disk'.id = disk.id
                 /\ \E i \in 1..Len(disk.actions) :
                      disk.actions[i].state = "Uncertain")
                  => Len(disk'.actions) = Len(disk.actions)
<1>1. IInv /\ (CloseInv /\ HonestInv) /\ FollowInv /\ [Next]_vars => [A]_vars
  BY FollowStep DEF FileStep, Follows, Extends, Known
<1>2. QED
  BY <1>1, InductiveInvariant, OutcomeInvariant, FollowInvariant, PTL
  DEF Spec, NothingAfterUncertain

\* A record in a final state keeps it as long as the session is open.
THEOREM FinalStatesAlwaysFinal == Spec => FinalStatesFinal
<1> DEFINE A == disk'.id = disk.id =>
                  \A i \in 1..Len(disk.actions) :
                    ~Open(disk.actions[i]) =>
                      disk'.actions[i].state = disk.actions[i].state
<1>1. IInv /\ (CloseInv /\ HonestInv) /\ FollowInv /\ [Next]_vars => [A]_vars
  BY FollowStep DEF FileStep, Follows, Extends
<1>2. QED
  BY <1>1, InductiveInvariant, OutcomeInvariant, FollowInvariant, PTL
  DEF Spec, FinalStatesFinal
-----------------------------------------------------------------------------
\* The value to restore that a record names for a priority, if it names one, is
\* the one owed.
Restores(s) ==
  \A i \in 1..Len(s.actions) :
    (/\ s.actions[i].target \in PriorityTargets
     /\ Open(s.actions[i])
     /\ s.actions[i].original # NoClass
     /\ owed[s.actions[i].target] # NoValue)
      => s.actions[i].original = owed[s.actions[i].target]

\* While nobody else changes priorities, the one the preflight has seen is the
\* one that SetPriority finds, if it has seen one.
ValueInv ==
  /\ Restores(disk)
  /\ Running => Restores(mem)
  /\ (pc = "calling" /\ plan[cur] \in PriorityTargets
        /\ holder[plan[cur]] = "original")
      => mem.actions[cur].original \in {NoClass, prio[plan[cur]]}

\* Rollback gives back what was taken, in terms of one step.
GivenBack ==
  \A t \in PriorityTargets :
    (owed[t] # NoValue /\ owed'[t] = NoValue /\ holder'[t] = "original")
      => prio'[t] = owed[t]

\* A step that neither calls Windows nor changes records.
LEMMA QuietValue ==
  ASSUME IInv, ValueInv, pc' # "calling", owed' = owed,
         \/ disk'.actions = disk.actions
         \/ Running /\ disk'.actions = mem.actions
         \/ Len(disk'.actions) = 0,
         \/ pc' \in {"idle", "planning"}
         \/ Running /\ mem'.actions = mem.actions
         \/ mem'.actions = disk.actions
         \/ Len(mem'.actions) = 0
  PROVE  GivenBack /\ ValueInv'
<1>1. GivenBack
  BY DEF GivenBack
<1>2. Restores(disk)'
  BY DEF ValueInv, Restores
<1>3. Running' => Restores(mem)'
  BY DEF ValueInv, Restores, Running
<1>4. QED
  BY <1>1, <1>2, <1>3 DEF ValueInv

\* Executing the action in hand on a target that is not a priority's.
LEMMA ElsewhereValue ==
  ASSUME IInv, ValueInv, Running, disk' = disk, pc' # "calling",
         cur \in 1..Len(mem.actions),
         NEW state \in ActionStates, NEW original \in Values,
         SetCurrent(state, original),
         mem.actions[cur].target \notin PriorityTargets,
         \A t \in PriorityTargets : owed'[t] = owed[t]
  PROVE  GivenBack /\ ValueInv'
<1>1. GivenBack /\ Restores(disk)'
  BY DEF GivenBack, ValueInv, Restores
<1>2. Restores(mem)'
  <2>1. /\ Len(mem'.actions) = Len(mem.actions)
        /\ mem'.actions[cur].target = mem.actions[cur].target
        /\ \A j \in 1..Len(mem.actions) : j # cur => mem'.actions[j] = mem.actions[j]
    <3>1. mem \in Session
      BY DEF IInv, TypeOK
    <3>2. /\ Len(mem'.actions) = Len(mem.actions)
          /\ mem'.actions[cur] = [target |-> mem.actions[cur].target,
                                  state |-> state, original |-> original]
          /\ \A j \in 1..Len(mem.actions) : j # cur => mem'.actions[j] = mem.actions[j]
      BY <3>1, CurrentRecord
    <3>3. QED
      BY <3>2
  <2>2. Restores(mem)
    BY DEF ValueInv
  <2> SUFFICES ASSUME NEW i \in 1..Len(mem.actions),
                      mem'.actions[i].target \in PriorityTargets,
                      Open(mem'.actions[i]),
                      mem'.actions[i].original # NoClass,
                      owed'[mem'.actions[i].target] # NoValue
               PROVE  mem'.actions[i].original = owed'[mem'.actions[i].target]
    BY <2>1 DEF Restores, Open
  <2>3. i # cur
    BY <2>1
  <2>4. mem'.actions[i] = mem.actions[i]
    BY <2>1, <2>3
  <2>5. QED
    BY <2>2, <2>4 DEF Restores
<1>3. QED
  BY <1>1, <1>2 DEF ValueInv

\* The preflight reads the value that is then owed.
LEMMA PreflightValue ==
  ASSUME IInv, IInv', ValueInv, PreflightRejects \/ PreflightAccepts \/ PreflightUnread
  PROVE  GivenBack /\ ValueInv'
<1> USE TargetsAssumption DEF counters, system, journal
<1>0. /\ pc = "next" /\ cur <= Len(plan) /\ mem = disk
      /\ Len(mem.actions) \in Nat /\ cur = Len(mem.actions) + 1
      /\ UNCHANGED <<owed, prio, holder>>
  <2>1. pc = "next" /\ cur <= Len(plan) /\ UNCHANGED <<owed, prio, holder>>
    BY DEF PreflightRejects, PreflightAccepts, PreflightUnread
  <2>2. QED
    BY <2>1 DEF IInv, TypeOK, CursorInv, JournalInv, EnterPhases, Session
<1>1. GivenBack
  BY <1>0 DEF GivenBack
<1>2. CASE SaveFails /\ Return("failed")
  BY <1>0, <1>2, QuietValue DEF SaveFails, Return
<1>3. ASSUME NEW state \in {"Planned", "Rejected"}, NEW original,
             \/ original = Payload(plan[cur])
             \/ plan[cur] \in PriorityTargets /\ original = NoClass,
             disk' = WithRecord(plan[cur], state, original),
             mem' = WithRecord(plan[cur], state, original),
             plan' = plan,
             pc' = IF state = "Planned" THEN "calling" ELSE "next",
             cur' = IF state = "Planned" THEN cur ELSE cur + 1
      PROVE  ValueInv'
  <2> DEFINE s == WithRecord(plan[cur], state, original)
  <2>1. /\ Len(s.actions) = cur
        /\ \A i \in 1..Len(mem.actions) : s.actions[i] = mem.actions[i]
        /\ s.actions[cur].target = plan[cur]
        /\ s.actions[cur].state = state
    BY <1>0, <1>3, PreflightRecord
  <2>2. s.actions[cur].original = original
    BY <1>0 DEF WithRecord, IInv, TypeOK, Session
  <2> HIDE DEF s
  <2>3. disk' = s /\ mem' = s
    BY <1>3 DEF s
  <2>4. state = "Planned" /\ plan[cur] \in PriorityTargets => owed[plan[cur]] = NoValue
    BY <1>0, <1>3, ReliableFacts DEF IInv, CoverInv
  <2>5. state = "Rejected" => ~Open(s.actions[cur])
    BY <2>1 DEF Open
  <2>6. Restores(s)
    <3> SUFFICES ASSUME NEW i \in 1..cur,
                        s.actions[i].target \in PriorityTargets,
                        Open(s.actions[i]),
                        s.actions[i].original # NoClass,
                        owed[s.actions[i].target] # NoValue
                 PROVE  s.actions[i].original = owed[s.actions[i].target]
      BY <2>1 DEF Restores
    <3>1. CASE i = cur
      BY <1>3, <2>1, <2>4, <2>5, <3>1
    <3>2. CASE i # cur
      <4>1. i \in 1..Len(mem.actions)
        BY <1>0, <3>2
      <4>2. s.actions[i] = mem.actions[i]
        BY ONLY <2>1, <4>1
      <4>3. Restores(mem)
        BY <1>0 DEF ValueInv
      <4>4. QED
        BY <4>1, <4>2, <4>3 DEF Restores
    <3>3. QED
      BY <3>1, <3>2
  <2>7. Restores(disk)' /\ Restores(mem)'
    BY <1>0, <2>3, <2>6 DEF Restores
  <2>8. pc' = "calling" /\ plan'[cur'] \in PriorityTargets
          => mem'.actions[cur'].original \in {NoClass, prio'[plan'[cur']]}
    BY <1>0, <1>3, <2>2, <2>3 DEF Payload
  <2>9. QED
    BY <2>7, <2>8 DEF ValueInv
<1>4. QED
  BY <1>1, <1>2, <1>3, PreflightCases DEF PreflightCase

\* SetPriority takes what it finds, which is what the Planned record on disk
\* names, and names it in the record in memory.
LEMMA SetPriorityValue ==
  ASSUME IInv, ValueInv, ExecutePriority
  PROVE  GivenBack /\ ValueInv'
<1> USE DEF counters, system, journal
<1> DEFINE t == plan[cur]
<1>0. /\ mem \in Session /\ mem = disk /\ cur \in 1..Len(mem.actions)
      /\ plan \in Plans /\ Len(mem.actions) <= Len(plan)
      /\ \A i \in 1..Len(mem.actions) : mem.actions[i].target = plan[i]
      /\ plan \in Seq(Targets) /\ Len(mem.actions) \in Nat
      /\ owed \in [Reversible -> Values] /\ prio \in [PriorityTargets -> Priorities]
  <2>1. pc = "calling"
    BY DEF ExecutePriority
  <2>2. QED
    BY <2>1 DEF IInv, TypeOK, CursorInv, JournalInv, EnterPhases, Session
<1>1. t \in PriorityTargets /\ pc = "calling" /\ pc' = "storing" /\ disk' = disk
  BY DEF ExecutePriority
<1>2. \A i \in 1..Len(mem.actions) : mem.actions[i].target = t => i = cur
  BY <1>0, PlansAssumption
<1>3. CASE /\ SameProcess(t) /\ SetCurrent("Applied", prio[t])
           /\ owed' = [owed EXCEPT ![t] = prio[t]]
  <2>1. /\ prio[t] \in Values /\ prio[t] # NoValue /\ owed'[t] = prio[t]
        /\ \A u \in PriorityTargets : u # t => owed'[u] = owed[u]
    <3>1. prio[t] \in Priorities /\ t \in Reversible
      BY <1>0, <1>1 DEF Reversible
    <3>2. prio[t] \in Values /\ prio[t] # NoValue
      BY <3>1, PriorityAssumption DEF Values
    <3>3. \A u \in PriorityTargets : u \in Reversible
      BY DEF Reversible
    <3>4. QED
      BY <1>0, <1>3, <3>1, <3>2, <3>3
  <2>2. /\ Len(mem'.actions) = Len(mem.actions)
        /\ mem'.actions[cur] = [target |-> t, state |-> "Applied",
                                original |-> prio[t]]
        /\ \A j \in 1..Len(mem.actions) : j # cur => mem'.actions[j] = mem.actions[j]
    BY <1>0, <1>3, <2>1, CurrentRecord DEF ActionStates
  <2>3. mem.actions[cur].original \in {NoClass, prio[t]}
    BY <1>1, <1>3 DEF ValueInv, SameProcess
  <2>4. GivenBack
    BY <2>1 DEF GivenBack
  <2>5. Restores(disk)'
    <3> SUFFICES ASSUME NEW i \in 1..Len(mem.actions),
                        mem.actions[i].target \in PriorityTargets,
                        Open(mem.actions[i]),
                        mem.actions[i].original # NoClass,
                        owed'[mem.actions[i].target] # NoValue
                 PROVE  mem.actions[i].original = owed'[mem.actions[i].target]
      BY <1>0, <1>1 DEF Restores, Open
    <3>1. CASE i = cur
      BY <1>0, <2>1, <2>3, <3>1
    <3>2. CASE i # cur
      BY <1>0, <1>2, <2>1, <3>2 DEF ValueInv, Restores
    <3>3. QED
      BY <3>1, <3>2
  <2>6. Restores(mem)'
    <3> SUFFICES ASSUME NEW i \in 1..Len(mem.actions),
                        mem'.actions[i].target \in PriorityTargets,
                        Open(mem'.actions[i]),
                        mem'.actions[i].original # NoClass,
                        owed'[mem'.actions[i].target] # NoValue
                 PROVE  mem'.actions[i].original = owed'[mem'.actions[i].target]
      BY <2>2 DEF Restores, Open
    <3>1. CASE i = cur
      BY <2>1, <2>2, <3>1
    <3>2. CASE i # cur
      BY <1>0, <1>2, <2>1, <2>2, <3>2 DEF ValueInv, Restores
    <3>3. QED
      BY <3>1, <3>2
  <2>7. QED
    BY <1>1, <2>4, <2>5, <2>6 DEF ValueInv
<1>4. CASE SetCurrent("Failed", NoValue) /\ owed' = owed
  <2>1. /\ Len(mem'.actions) = Len(mem.actions)
        /\ mem'.actions[cur].state = "Failed"
        /\ \A j \in 1..Len(mem.actions) : j # cur => mem'.actions[j] = mem.actions[j]
    <3>1. "Failed" \in ActionStates /\ NoValue \in Values
      BY DEF ActionStates, Values
    <3>2. /\ Len(mem'.actions) = Len(mem.actions)
          /\ mem'.actions[cur] = [target |-> mem.actions[cur].target,
                                  state |-> "Failed", original |-> NoValue]
          /\ \A j \in 1..Len(mem.actions) : j # cur => mem'.actions[j] = mem.actions[j]
      BY <1>0, <1>4, <3>1, CurrentRecord
    <3>3. QED
      BY <3>2
  <2>2. GivenBack /\ Restores(disk)' /\ Restores(mem)'
    BY <1>0, <1>1, <1>4, <2>1 DEF GivenBack, ValueInv, Restores, Open
  <2>3. QED
    BY <1>1, <2>2 DEF ValueInv
<1>5. QED
  BY <1>3, <1>4 DEF ExecutePriority

\* Rolling back writes the value that the record names.
LEMMA UndoPriorityValue ==
  ASSUME IInv, ValueInv, UndoPriority
  PROVE  GivenBack /\ ValueInv'
<1> USE DEF counters, system, journal
<1> DEFINE r == mem.actions[cur]
<1>0. /\ mem \in Session /\ mem = disk /\ cur \in 1..Len(mem.actions)
      /\ mem.actions \in Seq(Record) /\ Running
      /\ owed \in [Reversible -> Values] /\ prio \in [PriorityTargets -> Priorities]
  <2>1. Undoing
    BY DEF UndoPriority
  <2>2. QED
    BY <2>1 DEF IInv, TypeOK, CursorInv, JournalInv, Undoing, Session, Running
<1>1. /\ r.target \in PriorityTargets /\ Open(r) /\ pc' = "undone" /\ disk' = disk
      /\ r \in Record /\ r.original # NoClass
  BY <1>0, PriorityAssumption DEF UndoPriority, RestorePriority, NoClass
<1>2. PICK state \in {"RolledBack", "Uncertain"} :
        /\ SetCurrent(state, r.original)
        /\ \/ /\ prio' = [prio EXCEPT ![r.target] = r.original]
              /\ owed' = [owed EXCEPT ![r.target] = NoValue]
           \/ UNCHANGED <<prio, owed>>
  BY DEF UndoPriority, RestorePriority
<1>3. /\ Len(mem'.actions) = Len(mem.actions)
      /\ mem'.actions[cur] = [target |-> r.target, state |-> state,
                              original |-> r.original]
      /\ \A j \in 1..Len(mem.actions) : j # cur => mem'.actions[j] = mem.actions[j]
  <2>1. state \in ActionStates /\ r.original \in Values
    BY <1>1 DEF ActionStates, Record
  <2>2. QED
    BY <1>0, <1>2, <2>1, CurrentRecord
<1>4. owed[r.target] # NoValue => r.original = owed[r.target]
  BY <1>0, <1>1 DEF ValueInv, Restores
<1>5. \A t \in PriorityTargets : owed'[t] \in {owed[t], NoValue}
  BY <1>0, <1>2 DEF Reversible
<1>6. GivenBack
  <2> SUFFICES ASSUME NEW t \in PriorityTargets, owed[t] # NoValue, owed'[t] = NoValue
               PROVE  prio'[t] = owed[t]
    BY DEF GivenBack
  <2>1. t \in Reversible
    BY DEF Reversible
  <2>2. t = r.target /\ prio' = [prio EXCEPT ![r.target] = r.original]
    BY <1>0, <1>2, <2>1
  <2>3. QED
    BY <1>0, <1>4, <2>2
<1>7. Restores(disk)'
  BY <1>1, <1>5 DEF ValueInv, Restores, Open
<1>8. Restores(mem)'
  <2> SUFFICES ASSUME NEW i \in 1..Len(mem.actions),
                      mem'.actions[i].target \in PriorityTargets,
                      Open(mem'.actions[i]),
                      mem'.actions[i].original # NoClass,
                      owed'[mem'.actions[i].target] # NoValue
               PROVE  mem'.actions[i].original = owed'[mem'.actions[i].target]
    BY <1>3 DEF Restores, Open
  <2>1. mem'.actions[i].target = mem.actions[i].target
        /\ mem'.actions[i].original = mem.actions[i].original
    BY <1>3
  <2>2. Open(mem.actions[i])
    BY <1>1, <1>3
  <2>3. owed'[mem.actions[i].target] = owed[mem.actions[i].target]
    BY <1>5, <2>1
  <2>4. QED
    BY <1>0, <2>1, <2>2, <2>3 DEF ValueInv, Restores
<1>9. QED
  BY <1>1, <1>6, <1>7, <1>8 DEF ValueInv

\* The action in hand while it is executed.
LEMMA ActionInHand ==
  ASSUME IInv
  PROVE  /\ mem \in Session
         /\ pc \in {"calling", "storing"} =>
              cur \in 1..Len(mem.actions) /\ mem.actions[cur].target = plan[cur]
BY DEF IInv, TypeOK, CursorInv, EnterPhases, Session

\* Every step of `coding enter`.
LEMMA EnterValue ==
  ASSUME IInv, IInv', ValueInv, Enter
  PROVE  GivenBack /\ ValueInv'
<1> USE TargetsAssumption DEF counters, system, journal
<1>0. /\ mem \in Session
      /\ pc \in {"calling", "storing"} =>
           cur \in 1..Len(mem.actions) /\ mem.actions[cur].target = plan[cur]
  BY ActionInHand
<1>1. CASE EnterBegin \/ EnterAbandon \/ EnterDone
  <2>1. disk' = disk /\ owed' = owed /\ pc' \in {"idle", "planning"}
    BY <1>1 DEF EnterBegin, EnterAbandon, EnterDone, Return
  <2>2. QED
    BY <2>1, QuietValue
<1>2. CASE CreateSession
  <2> DEFINE s == [id |-> sessions + 1, state |-> "Active", actions |-> <<>>]
  <2>1. CASE SaveSucceeds(s) /\ mem' = s /\ pc' = "next"
    <3>1. Len(disk'.actions) = 0 /\ Len(mem'.actions) = 0
      BY <2>1 DEF SaveSucceeds
    <3>2. owed' = owed
      BY <1>2 DEF CreateSession
    <3>3. QED
      BY <2>1, <3>1, <3>2, QuietValue
  <2>2. CASE SaveFails /\ Return("failed")
    BY <1>2, <2>2, QuietValue DEF CreateSession, SaveFails, Return
  <2>3. QED
    BY <1>2, <2>1, <2>2 DEF CreateSession
<1>3. CASE RefreshFails
  <2>1. InSafeMode(mem).actions = mem.actions
    BY <1>0, SafeModeSession
  <2>2. /\ Running /\ pc' = "idle" /\ owed' = owed
        /\ disk' \in {disk, InSafeMode(mem)}
    BY <1>3 DEF RefreshFails, Running, Return
  <2>3. QED
    BY <2>1, <2>2, QuietValue
<1>4. CASE PreflightRejects \/ PreflightAccepts \/ PreflightUnread
  BY <1>4, PreflightValue
<1>5. CASE ExecutePriority
  BY <1>5, SetPriorityValue
<1>6. CASE ExecuteClose
  <2>1. NoValue \in Values /\ CloseOutcomes \cup {"Failed"} \subseteq ActionStates
    BY DEF Values, ActionStates, CloseOutcomes
  <2>2. PICK state \in CloseOutcomes \cup {"Failed"} : SetCurrent(state, NoValue)
    BY <1>6 DEF ExecuteClose
  <2>3. /\ Running /\ disk' = disk /\ pc' # "calling" /\ owed' = owed
        /\ pc = "calling" /\ plan[cur] \notin PriorityTargets
    BY <1>6 DEF ExecuteClose, Running
  <2>4. QED
    BY <1>0, <2>1, <2>2, <2>3, ElsewhereValue
<1>7. CASE ExecuteStop
  <2>1. /\ "Running" \in Values
        /\ {"Applied", "Failed", "Rejected", "Uncertain"} \subseteq ActionStates
    BY DEF Values, ActionStates
  <2>2. PICK state \in {"Applied", "Failed", "Rejected", "Uncertain"} :
          SetCurrent(state, "Running")
    BY <1>7 DEF ExecuteStop
  <2>3. /\ Running /\ disk' = disk /\ pc' # "calling"
        /\ pc = "calling" /\ plan[cur] \in ServiceTargets
    BY <1>7 DEF ExecuteStop, Running
  <2>4. owed' = owed \/ owed' = [owed EXCEPT ![plan[cur]] = "Running"]
    BY <1>7 DEF ExecuteStop, StopEffect
  <2>5. \A t \in PriorityTargets : owed'[t] = owed[t]
    BY <2>3, <2>4 DEF IInv, TypeOK, Reversible
  <2>6. plan[cur] \notin PriorityTargets
    BY <2>3
  <2>7. QED
    BY <1>0, <2>1, <2>2, <2>3, <2>5, <2>6, ElsewhereValue
<1>8. CASE StoreResult
  <2>1. /\ Running /\ pc' # "calling" /\ owed' = owed
        /\ disk' \in {disk, mem} /\ (pc' = "idle" \/ mem' = mem)
    BY <1>8 DEF StoreResult, SaveSucceeds, SaveFails, Running, Return
  <2>2. QED
    BY <2>1, QuietValue
<1>9. QED
  BY <1>1, <1>2, <1>3, <1>4, <1>5, <1>6, <1>7, <1>8 DEF Enter

\* A record that is left uncertain keeps its value.
LEMMA UncertainValue ==
  ASSUME IInv, ValueInv, Undoing, Open(mem.actions[cur]), disk' = disk,
         pc' = "undone", owed' = owed,
         SetCurrent("Uncertain", mem.actions[cur].original)
  PROVE  GivenBack /\ ValueInv'
<1>1. /\ mem \in Session /\ mem.actions \in Seq(Record) /\ Running
      /\ cur \in 1..Len(mem.actions)
  BY DEF IInv, TypeOK, CursorInv, Undoing, Session, Running
<1>2. mem.actions[cur].original \in Values /\ "Uncertain" \in ActionStates
  <2>1. mem.actions[cur] \in Record
    BY <1>1
  <2>2. QED
    BY <2>1 DEF Record, ActionStates
<1>3. /\ Len(mem'.actions) = Len(mem.actions)
      /\ mem'.actions[cur] = [target |-> mem.actions[cur].target,
                              state |-> "Uncertain",
                              original |-> mem.actions[cur].original]
      /\ \A j \in 1..Len(mem.actions) : j # cur => mem'.actions[j] = mem.actions[j]
  BY <1>1, <1>2, CurrentRecord
<1>4. \A i \in 1..Len(mem.actions) :
        /\ mem'.actions[i].target = mem.actions[i].target
        /\ mem'.actions[i].original = mem.actions[i].original
        /\ Open(mem'.actions[i]) => Open(mem.actions[i])
  BY <1>3
<1>5. GivenBack /\ Restores(disk)'
  BY DEF GivenBack, ValueInv, Restores
<1>6. Restores(mem)'
  BY <1>1, <1>3, <1>4 DEF ValueInv, Restores
<1>7. QED
  BY <1>5, <1>6 DEF ValueInv

\* Every step of the restoring commands, and of acknowledging.
LEMMA RestoreValue ==
  ASSUME IInv, ValueInv, Restore
  PROVE  GivenBack /\ ValueInv'
<1> USE TargetsAssumption DEF counters, system, journal
<1>0. disk \in Session /\ mem \in Session
  BY DEF IInv, TypeOK
<1>1. CASE RestoreBegin
  <2> DEFINE s == [disk EXCEPT !.state = "Recovering"]
  <2>1. s.actions = disk.actions
    BY <1>0 DEF Session
  <2> HIDE DEF s
  <2>2. CASE SaveSucceeds(s) /\ mem' = s /\ pc' = "undo"
    BY <1>1, <2>1, <2>2, QuietValue DEF RestoreBegin, SaveSucceeds
  <2>3. CASE SaveFails /\ Return("failed")
    BY <1>1, <2>3, QuietValue DEF RestoreBegin, SaveFails, Return
  <2>4. QED
    BY <1>1, <2>2, <2>3 DEF RestoreBegin, s
<1>2. CASE UndoNothing \/ UndoEnd \/ Verify \/ StoreUndo \/ GiveUp \/ WriteReport
  <2>1. InSafeMode(mem).actions = mem.actions
    BY <1>0, SafeModeSession
  <2>2. /\ Running /\ disk' \in {disk, mem, InSafeMode(mem)}
        /\ (pc' = "idle" \/ mem' = mem) /\ pc' # "calling" /\ owed' = owed
    BY <1>2 DEF UndoNothing, Undoing, UndoEnd, Verify, StoreUndo, GiveUp, WriteReport,
      Return, SaveSucceeds, SaveFails, Running
  <2>3. QED
    BY <2>1, <2>2, QuietValue
<1>3. CASE UndoPriority
  BY <1>3, UndoPriorityValue
<1>4. CASE UndoClose \/ UndoService
  <2>1. Undoing /\ disk' = disk /\ pc' = "undone"
        /\ mem.actions[cur].target \in CloseTargets \cup ServiceTargets
    BY <1>4 DEF UndoClose, LeaveClosed, UndoService
  <2>2. PICK state \in {"RolledBack", "Uncertain"} :
          SetCurrent(state, mem.actions[cur].original)
    BY <1>4 DEF UndoClose, LeaveClosed, UndoService
  <2>3. Running /\ mem.actions \in Seq(Record) /\ cur \in 1..Len(mem.actions)
    BY <2>1 DEF IInv, TypeOK, CursorInv, Undoing, Session, Running
  <2>4. mem.actions[cur].original \in Values /\ state \in ActionStates
    <3>1. mem.actions[cur] \in Record
      BY <2>3
    <3>2. QED
      BY <3>1 DEF Record, ActionStates
  <2>5. \A t \in PriorityTargets : owed'[t] = owed[t]
    <3>1. owed' = owed \/ (/\ mem.actions[cur].target \in ServiceTargets
                           /\ owed' = [owed EXCEPT ![mem.actions[cur].target] = NoValue])
      BY <1>4 DEF UndoClose, LeaveClosed, UndoService
    <3>2. QED
      BY <3>1 DEF IInv, TypeOK, Reversible
  <2>6. QED
    BY <2>1, <2>2, <2>3, <2>4, <2>5, ElsewhereValue
<1>5. CASE RemoveSession
  <2>1. /\ pc' = "idle" /\ disk' \in {disk, NoSession} /\ owed' = owed
        /\ Len(NoSession.actions) = 0
    BY <1>5 DEF RemoveSession, SaveSucceeds, SaveFails, Return, NoSession
  <2>2. QED
    BY <2>1, QuietValue
<1>6. CASE UndoWithoutValue
  <2>1. Undoing /\ disk' = disk /\ pc' = "undone" /\ owed' = owed
    BY <1>6 DEF UndoWithoutValue
  <2>2. SetCurrent("Uncertain", mem.actions[cur].original)
    BY <1>6 DEF UndoWithoutValue
  <2>3. Open(mem.actions[cur])
    BY <1>6 DEF UndoWithoutValue
  <2>4. QED
    BY <2>1, <2>2, <2>3, UncertainValue
<1>7. QED
  BY <1>1, <1>2, <1>3, <1>4, <1>5, <1>6 DEF Restore

\* Acknowledging changes no record of a priority.
LEMMA AcknowledgeValue ==
  ASSUME IInv, ValueInv, Acknowledge
  PROVE  GivenBack /\ ValueInv'
<1> USE TargetsAssumption DEF system, journal
<1> DEFINE s == Acknowledged(disk)
<1>1. Restores(s)
  <2>1. /\ disk \in Session /\ disk.actions \in Seq(Record)
        /\ Restores(disk)
    BY DEF IInv, TypeOK, ValueInv, Session
  <2>2. /\ Len(s.actions) = Len(disk.actions)
        /\ \A j \in 1..Len(disk.actions) :
             s.actions[j] = IF /\ disk.actions[j].target \in CloseTargets
                               /\ disk.actions[j].state = "Uncertain"
                            THEN [disk.actions[j] EXCEPT !.state = "Completed"]
                            ELSE disk.actions[j]
    BY <2>1, AcknowledgedRecords
  <2> HIDE DEF s
  <2>3. \A j \in 1..Len(disk.actions) :
          s.actions[j].target \in PriorityTargets => s.actions[j] = disk.actions[j]
    <3> SUFFICES ASSUME NEW j \in 1..Len(disk.actions),
                        s.actions[j].target \in PriorityTargets
                 PROVE  s.actions[j] = disk.actions[j]
      OBVIOUS
    <3>1. disk.actions[j] \in Record
      BY <2>1
    <3>2. QED
      BY <2>2, <3>1 DEF Record
  <2>4. QED
    BY <2>1, <2>2, <2>3 DEF Restores
<1> HIDE DEF s
<1>2. CASE SaveSucceeds(s) /\ mem' = s /\ pc' = "ackverify"
  <2>1. disk' = s /\ owed' = owed
    BY <1>2 DEF Acknowledge, SaveSucceeds
  <2>2. Restores(disk)' /\ Restores(mem)'
    BY <1>1, <1>2, <2>1 DEF Restores
  <2>3. QED
    BY <1>2, <2>1, <2>2 DEF GivenBack, ValueInv
<1>3. CASE SaveFails /\ Return("failed")
  BY <1>3, QuietValue DEF Acknowledge, SaveFails, Return
<1>4. QED
  BY <1>2, <1>3 DEF Acknowledge, s

\* Nobody else changes the priority of a process that is still there.
LEMMA WorldValue ==
  ASSUME MaxPriorityEdits = 0, IInv, ValueInv, World
  PROVE  GivenBack /\ ValueInv'
<1> USE TargetsAssumption, BoundsAssumption DEF journal, command, counters
<1>0. /\ owed \in [Reversible -> Values]
      /\ holder \in [Processes -> {"original", "none"} \cup Strangers]
      /\ prio \in [PriorityTargets -> Priorities]
      /\ priorityEdits \in 0..MaxPriorityEdits
      /\ \A t \in PriorityTargets : t \in Reversible /\ t \in Processes
      /\ \A t \in PriorityTargets : holder[t] # "original" => owed[t] = NoValue
  BY DEF IInv, TypeOK, CoverInv, Reversible, Processes
<1>1. ASSUME NEW t \in Processes, ProcessExits(t)
      PROVE  GivenBack /\ ValueInv'
  <2>1. /\ holder' = [holder EXCEPT ![t] = "none"]
        /\ owed' = [u \in Reversible |-> IF u = t THEN NoValue ELSE owed[u]]
        /\ UNCHANGED <<disk, pc, mem, plan, cur, prio>>
    BY <1>1 DEF ProcessExits
  <2>2. GivenBack
    BY <1>0, <2>1 DEF GivenBack
  <2>3. Restores(disk)' /\ (Running' => Restores(mem)')
    BY <1>0, <2>1 DEF ValueInv, Restores, Running, Open
  <2>4. \A u \in PriorityTargets : holder'[u] = "original" => holder[u] = "original"
    BY <1>0, <2>1
  <2>5. QED
    BY <2>1, <2>2, <2>3, <2>4 DEF ValueInv
<1>2. ASSUME NEW t \in Processes, PidReused(t)
      PROVE  GivenBack /\ ValueInv'
  <2> PICK s \in Strangers : holder' = [holder EXCEPT ![t] = s]
    BY <1>2 DEF PidReused
  <2> PICK v \in Priorities :
        prio' = [u \in PriorityTargets |-> IF u = t THEN v ELSE prio[u]]
    BY <1>2 DEF PidReused
  <2>1. UNCHANGED <<disk, pc, mem, plan, cur, owed>>
    BY <1>2 DEF PidReused
  <2>2. GivenBack
    BY <2>1 DEF GivenBack
  <2>3. Restores(disk)' /\ (Running' => Restores(mem)')
    BY <2>1 DEF ValueInv, Restores, Running, Open
  <2>4. \A u \in PriorityTargets :
          holder'[u] = "original" => holder[u] = "original" /\ prio'[u] = prio[u]
    BY <1>0
  <2>5. QED
    BY <2>1, <2>2, <2>3, <2>4 DEF ValueInv
<1>3. ASSUME NEW t \in ServiceTargets, ServiceEdited(t)
      PROVE  GivenBack /\ ValueInv'
  <2>1. /\ owed' = owed \/ owed' = [owed EXCEPT ![t] = NoValue]
        /\ UNCHANGED <<disk, pc, mem, plan, cur, prio, holder>>
    BY <1>3 DEF ServiceEdited
  <2>2. \A u \in PriorityTargets : owed'[u] = owed[u]
    BY <1>0, <2>1
  <2>3. GivenBack /\ Restores(disk)' /\ (Running' => Restores(mem)')
    BY <2>1, <2>2 DEF GivenBack, ValueInv, Restores, Running, Open
  <2>4. QED
    BY <2>1, <2>3 DEF ValueInv
<1>4. CASE \E t \in PriorityTargets : PriorityEdited(t)
  BY <1>0, <1>4 DEF PriorityEdited
<1>5. ASSUME NEW t \in ServiceTargets, HelperStopsLate(t)
      PROVE  GivenBack /\ ValueInv'
  <2>1. /\ owed' = owed \/ owed' = [owed EXCEPT ![t] = "Running"]
        /\ UNCHANGED <<disk, pc, mem, plan, cur, prio, holder>>
    BY <1>5 DEF HelperStopsLate, StopEffect
  <2>2. \A u \in PriorityTargets : owed'[u] = owed[u]
    BY <1>0, <2>1
  <2>3. GivenBack /\ Restores(disk)' /\ (Running' => Restores(mem)')
    BY <2>1, <2>2 DEF GivenBack, ValueInv, Restores, Running, Open
  <2>4. QED
    BY <2>1, <2>3 DEF ValueInv
<1>6. QED
  BY <1>1, <1>2, <1>3, <1>4, <1>5 DEF World

\* Every step.
LEMMA ValueStep ==
  ASSUME MaxPriorityEdits = 0, IInv, ValueInv, [Next]_vars
  PROVE  GivenBack /\ ValueInv'
<1> USE DEF journal, command, system, counters
<1>1. CASE Enter
  <2>1. IInv'
    BY <1>1, EnterInv
  <2>2. QED
    BY <1>1, <2>1, EnterValue
<1>2. CASE Restore \/ Acknowledge \/ World
  BY <1>2, RestoreValue, AcknowledgeValue, WorldValue
<1>3. CASE Crash
  <2>1. disk' = disk /\ owed' = owed /\ pc' = "idle"
    BY <1>3 DEF Crash, Return
  <2>2. QED
    BY <2>1, QuietValue
<1>4. CASE UNCHANGED vars
  BY <1>4 DEF vars, GivenBack, ValueInv, Restores, Running, Open
<1>5. QED
  BY <1>1, <1>2, <1>3, <1>4 DEF Next

\* Rollback gives back exactly the priority that SetPriority took away, from
\* whatever step a crash makes it start, as long as nobody else changes it.
THEOREM GivesBackExactlyAlways ==
  ASSUME MaxPriorityEdits = 0
  PROVE  Spec => GivesBackExactly
<1>1. Init => ValueInv
  BY DEF Init, ValueInv, Restores, NoSession, Running
<1>2. IInv /\ ValueInv /\ [Next]_vars => ValueInv'
  BY ValueStep
<1>3. IInv /\ ValueInv /\ [Next]_vars => [GivenBack]_vars
  BY ValueStep
<1>4. QED
  BY <1>1, <1>2, <1>3, InductiveInvariant, PTL DEF Spec, GivesBackExactly, GivenBack

\* Whoever has the PID of a planned process keeps its priority.
THEOREM StrangersAlwaysUntouched == Spec => StrangersUntouched
<1> DEFINE A == \A t \in PriorityTargets :
                  (holder[t] \in Strangers /\ holder'[t] = holder[t])
                    => prio'[t] = prio[t]
<1>1. IInv /\ [Next]_vars => [A]_vars
  <2> SUFFICES ASSUME IInv, [Next]_vars, NEW t \in PriorityTargets,
                      holder[t] \in Strangers, holder'[t] = holder[t]
               PROVE  prio'[t] = prio[t]
    OBVIOUS
  <2> USE BoundsAssumption DEF journal, command, system, counters
  <2>1. /\ holder[t] \notin {"original", "none"}
        /\ prio \in [PriorityTargets -> Priorities]
    BY DEF IInv, TypeOK
  <2>2. CASE ExecutePriority
    BY <2>1, <2>2 DEF ExecutePriority, SameProcess
  <2>3. CASE UndoPriority
    BY <2>1, <2>3 DEF UndoPriority, RestorePriority, SameProcess
  <2>4. ASSUME NEW u \in Processes, PidReused(u) PROVE prio'[t] = prio[t]
    BY <2>1, <2>4 DEF PidReused
  <2>5. ASSUME NEW u \in PriorityTargets, PriorityEdited(u) PROVE prio'[t] = prio[t]
    BY <2>1, <2>5 DEF PriorityEdited
  <2>6. CASE \/ Enter /\ ~ExecutePriority
             \/ Restore /\ ~UndoPriority
             \/ Acknowledge \/ Crash \/ UNCHANGED vars
             \/ \E u \in Processes : ProcessExits(u)
             \/ \E u \in ServiceTargets : ServiceEdited(u) \/ HelperStopsLate(u)
    BY <2>6 DEF Enter, EnterBegin, EnterAbandon, CreateSession, RefreshFails,
      PreflightRejects, PreflightAccepts, PreflightUnread, ExecuteClose, ExecuteStop,
      StoreResult, EnterDone, Restore, RestoreBegin, UndoNothing, UndoWithoutValue,
      UndoClose, LeaveClosed, UndoService, StoreUndo, UndoEnd, Verify, GiveUp, WriteReport, RemoveSession,
      Acknowledge, Crash, ProcessExits, ServiceEdited, HelperStopsLate, vars
  <2>7. QED
    BY <2>2, <2>3, <2>4, <2>5, <2>6 DEF Next, World
<1>2. QED
  BY <1>1, InductiveInvariant, PTL DEF Spec, StrangersUntouched
=============================================================================
