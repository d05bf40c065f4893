# A TLA+ model of WorkBoost

WorkBoost is a Windows tool that watches a developer's machine and, in *Coding
Mode*, changes it: it raises or lowers process priorities, asks background
programs to close, and stops services through an elevated helper. Everything
that can be undone has to be undone when Coding Mode ends, however it ends. This
directory holds the specifications of that promise, the TLC instances that check
them and the TLAPS proofs. Paths below are relative to `src/src/`.

## The system

| part | state it keeps | operations | talks to |
|---|---|---|---|
| session commands, `cli/cli.cpp` | one session in memory per command | `coding enter`, `coding exit`, `recovery restore`, `recovery acknowledge`, `recovery status` | all parts below, by calls |
| session store, `app/session_manager.cpp` | `state\active_session.json`, `reports\*.json` | Create, Save, LoadActive, Complete | the file system; other WorkBoost processes share the files |
| action executor, `core/optimization/optimization.cpp` | none | Execute, Rollback | process actions, helper client |
| planner and validator, same file | none (pure) | Create, Validate | policies, configuration |
| process actions, `platform/windows/process_action_api.cpp` | none of its own; process priorities, windows | SetPriority, RestorePriority, RequestGracefulClose | Windows |
| helper client and pipe, `platform/windows/elevated_helper_client.cpp`, `helper_pipe.cpp` | one pipe, one request | Execute | the elevated helper process |
| elevated helper, `elevated/main.cpp`, `app/elevated_action_handler.cpp` | one request, nonce | Execute | service control |
| service control, `platform/windows/service_api.cpp` | none of its own; service states | Query, StopTemporary, StartForRestore | the service control manager |
| policies, `core/policy/` | none (pure) | CanChangePriority, CanStopTemporary, CanRestore, ... | configuration, runtime context |
| configuration, `core/config/config.cpp` | rules | LoadDirectory, RuleFor, ServiceRuleFor | files |
| dashboard, `gui/dashboard.cpp`, `app/coding_mode_command.cpp` | pending model, worker threads, command state | message handlers, worker loop | a CLI process per command; messages posted between threads |
| event log, `core/logging/logger.cpp` | `events.log` and its rotations | Write | files shared by processes |
| startup observation and statistics, `platform/windows/startup_benchmark_api.cpp`, `core/benchmark/` | candidates | ObserveNewProcess, Summarize | processes and windows |
| collector, `platform/windows/system_collector.cpp` | counters of the last inventory, time of the last sample | Initialize, Sample | Windows; configuration and policies |
| snapshot history, `core/model/types.cpp`; diagnosis, `core/diagnosis/` | a ring of snapshots | Add, Evaluate | collector, session store |

What is hard about it:

* **Crashes.** A command can die between any system call and the save after it.
  There is one file, and what it says then is all the next command knows.
* **Partial failure.** A save can fail after the change it should record, or in
  the middle of a rollback; the report can be written and the session file stay.
* **Unknown outcomes.** A close request or a service stop may or may not have
  happened. It must be neither repeated nor forgotten.
* **Identity.** Processes end, PIDs are reused, services are stopped and started
  by others, between any two steps.
* **Concurrency.** Helper and client time out independently; two commands may run
  at once over one file; several processes write one log; the dashboard has
  worker threads, and message boxes that handle messages while they wait.
* **Texts.** Sessions are read from JSON by patterns; the helper reads binary
  messages from a pipe. What is read has to be what was written, or nothing.
* **Partial knowledge.** Inventories end early, counters cannot be read, tables
  are missing; what is not known must neither allow an action nor blame anybody.

The hazards, each with its line and the properties that cover it, are in
`PROJECT.json`.

## The modules

### CodingSession

The core: the three state-changing commands over the session file and the world
they change, one action per step between two points where a crash is visible.

| variables | in the code |
|---|---|
| `disk` | `active_session.json`; `NoSession` if there is none |
| `reports` | the completion reports, each with its `rollback.complete` |
| `pc`, `mem`, `plan`, `cur`, `ok` | where the command is, its `OptimizationSession`, the plan's actions, the loop index (`action_index`, `it`), `success` of RestoreSession |
| `exit` | exit code of the last command: ok is 0, failed any other |
| `prio`, `holder` | priority class of the process behind a planned PID, and who that is: the original process, nobody, another process, or one that WorkBoost may not open |
| `closes`, `svc` | close requests delivered in this session, service states |
| `late` | services a helper may still stop although nobody waits for it any more |
| `owed` | auxiliary: the value taken from each target and not yet given back |

The phases of `pc` follow the code: `planning`, `next` (the action loop of
EnterCodingMode), `calling` (the Planned record is saved, the system call comes),
`storing`; `undo`, `undone`, `verify`, `giveup` in RestoreSession; `ackverify` in
AcknowledgeRecovery; `report`, `remove` in SessionManager::Complete.

* `coding enter`: EnterBegin, EnterAbandon, CreateSession, RefreshFails,
  PreflightRejects, PreflightAccepts, PreflightUnread, ExecutePriority,
  ExecuteClose, ExecuteStop, StoreResult, EnterDone.
* `coding exit` and `recovery restore` (the same function; they differ in the
  evidence they capture): RestoreBegin, UndoNothing, UndoPriority (with
  RestorePriority), UndoWithoutValue, UndoClose, UndoService, StoreUndo, UndoEnd,
  Verify, GiveUp, WriteReport, RemoveSession.
* `recovery acknowledge`: Acknowledge, then Verify, WriteReport, RemoveSession.
* Around them: Crash, ProcessExits, PidReused, PriorityEdited, ServiceEdited and
  HelperStopsLate.

A save is atomic because AtomicWriteUtf8 renames a flushed temporary file over
the old one; it succeeds or, counted as a fault, changes nothing. A save and the
assignments since the last visible effect are one action. The snapshot that
supplies the restore value (`Payload`) is taken in the step that saves the
Planned record; other programs can change the priority between that step and the
call, so a stale value is still possible.

The snapshot may also have the process and its start time but not its priority:
the collector stores what GetPriorityClass returns, which is 0 when it fails
(`platform/windows/system_collector.cpp:325`), and SafetyValidator does not look
at it. PreflightUnread is that case, counted as a fault: the record is saved with
`NoClass`. SetPriority reads the priority itself, so the gap is closed as soon as
its result is saved. Until then Rollback finds "no reversible priority payload"
(UndoWithoutValue).

Abstractions: a target is one process instance (PID and creation time) or one
service with a fixed configuration identity, and the planner makes at most one
action per target. Why a policy rejects a target is left open (any target may be
rejected; one that is gone or stopped must be). Error codes, messages, evidence,
diagnoses and the JSON text are left out; what the loader demands of an action's
type and state is `Loadable`. Commands that only report (`recovery status`, a
refused `coding enter`, `acknowledge` with nothing to acknowledge) change nothing
and have no action.

### SessionPromise

What the user is told, without files or commands: changes are made only in an
open session, and a session closes only when all of them have been undone.
CodingSession implements it with `open <- disk.id` and `changed` the targets to
which something is owed (`PromiseSpec`).

### HelperTransport, HelperTransportProofs, HelperPromise

ElevatedHelperClient::Execute, the named pipe, `elevated/main.cpp`,
HandleElevatedRequest and ServiceApi, a step per system call: several requests,
each with its pipe and its helper process, the helpers of abandoned requests
beside that of the next. Every wait with a timeout may end at any moment. The
service control manager completes transitions in its own time, and other
programs change the service. `Anomalies` names the two operations that may
report failure and take effect all the same (ControlService, WriteFile).
HelperPromise is what the session may conclude from an answer: a refusal says
that the request has not acted and never will, a success that it has. The module
implements it with `acted` the requests that had an effect, but for those whose
effect Windows itself reported as a failure (`misreported`). Without anomalies
there are none, which is the premise under which CodingSessionProofs proves
Covered.

### HelperProtocol, HelperProtocolProofs, HelperText, JsonText, SessionCodec, MCTexts

The texts. HelperProtocol encodes and decodes requests and responses byte by
byte, with lengths, reserved fields and limits; HelperText is the UTF-8 check
and what follows from it. JsonText has the recursive JSON validator, beside a
grammar it is compared with, and the pattern searches with which the
configuration finds its keys; texts are sequences of tokens, because white
space, escapes and digits do not change what is found. SessionCodec writes and
reads sessions and completion reports with the rules for each schema. MCTexts
makes the texts, damages them and reads them.

### ConfigLayers, ProtectionRules, PlanCheck, PlanCheckProofs, MCPlanCheck

ConfigLayers is Config: defaults, the five files of a directory, the layers of
the command and of the helper, which trusts fewer, and rule lookup.
ProtectionRules has both policies, BuildRuntimeContext, the planner and the
validator as operators over a configuration and a snapshot. PlanCheck is the way
from files to actions: load, sample, plan, check against a later sample, decide
again in the helper, restore much later; between the steps the system may be any
of `Snapshots`.

### Dashboard, CommandRunner, DashboardProofs

The window's thread, the worker that collects and the thread that runs a coding
command through a child process and a pipe (CommandRunner,
`app/coding_mode_command.cpp`). Message boxes pump messages, so that handlers
nest up to `MaxDepth`; closing goes through the title bar, the tray menu and
WM_DESTROY, which joins the threads. The pending model is shared under a mutex;
results and models are posted.

### SharedFiles, EventLog, SharedFilesProofs, MCSharedFiles

SharedFiles: processes that run `enter`, `exit` or the dashboard's reads on one
session file, with AtomicWriteUtf8 in its steps (open, write, close, move), each
of which may fail: a full disk leaves a part of a text in the temporary file.
The sharing rules are those of Windows for files opened without
FILE_SHARE_DELETE: an open file can neither be renamed, replaced nor removed.
EventLog: Logger::Initialize, Write, RotateLocked and Shutdown in several
processes over the log and its backup, either of which may be kept from moving;
a process that cannot open the log logs no more. MCSharedFiles puts the two side by
side; they do not touch each other, and a behaviour does one of them.

### Monitoring, StartupObserver, MonitoringProofs, MCMonitoring

Monitoring: processes that start, work, end and give their PIDs away; the
collector with the counters it keeps; inventories that are whole, partial or
missing; the history; DiagnosisEngine::Evaluate and MakeBenchmarkPoint over it.
What processes have really done is counted beside the collector, in auxiliary
fields. StartupObserver: ObserveNewProcess, with the steps between a snapshot of
the processes, the query of their start times, the search for a window and its
answer, at each of which a PID may change hands. MCMonitoring puts the two side
by side. There a behaviour of the collector is about processes while memory is
short, or about conditions of the system and its disks.

### CodingSessionProofs, CodingOutcomeProofs, MCCodingSession

The proofs about the core, and the instances for TLC.

## What is checked

| run | instance | properties |
|---|---|---|
| `session` | a process to reprioritise, one to close and a service, in both orders the process list can have; 2 faults, 1 outside change of each kind | TypeOK, Covered, ReportsComplete, CloseNeverRepeated, SuccessIsHonest, PromiseSpec, StrangersUntouched |
| `anomalies` | two sessions, also over two processes, with late and misreported service stops | SavedSessionLoads, NothingAfterUncertain, FinalStatesFinal, GivesBackExactly |
| `closes_eventually` | short plans, 2 faults (also an unread priority), no outside changes of services | EventuallyClosed |
| `service_stops_again` | one outside service change | EventuallyClosed is violated |
| `late_stop` | a late helper | Covered is violated |
| `completion_fails` | one fault | FailedCompletionIsSafeMode is violated |
| `helper` | two requests, one crash, one outside change of the service | GivenBackRuns, RefusalIsFinal, PromiseSpec, BothEnd |
| `texts` | messages with up to two bytes changed, JSON texts with two tokens changed, every session that can be saved | WireExact, TextsExact, AcceptsExactlyJson, ReadBack, ListsLoad |
| `rules` | three layers of five kinds of directory, 24 snapshots | TakesOnlyTheUnprotected, StopsOnlyTheUnprotected, PlanPasses, StoppedCanBeRestored, BaselineKept |
| `dashboard` | two commands, one level of nested message boxes, a pipe shorter than the output | ClosedMeansIdle, ProgressIsTrue, ReportsWhatHappened, CommandEnds, CloseEnds, ShowsTheTruth |
| `shared_files` | three processes on the session file, one ended by force or unable to write; two on the log, four starts | WholeUnlessCrowded, LogBounded, NewestKept, ReplacedByItsSuccessor, SaveFailsOnlyByOthers |
| `monitoring` | a PID with two owners over three samples, or four conditions over four; two PIDs with two newcomers under the observer; one fault | RatesAreTrue, EvidenceIsTrue, ObservedIsNew |

* **Covered** is the centre: at every instant whatever was changed and not given
  back stands in `active_session.json`, in a record that Rollback acts on, with
  a value to restore. It is what makes "persist before and after each action"
  enough. The value may be missing in one case (`HasValue`): the snapshot before
  the change did not have the priority, and the result of the change is not saved.
* **EventuallyClosed** excepts what that case leads to (`NothingToRestore`). A
  command that dies or cannot save between SetPriority and the save of its result
  leaves a Planned record with 0; each restore makes it Uncertain, only close
  requests can be acknowledged, and no command can close the session any more.
  `closes_eventually` has behaviours of it: an unread priority and a crash are two
  faults. It is listed as a hazard (`cli/cli.cpp:1209`).
* **PromiseSpec** adds the order: nothing changes outside a session and no
  session closes early.
* **ReportsComplete** compares two rules the code has in different places: the
  conditions under which a session is completed, and `rollback_complete`.
* **SavedSessionLoads** compares the states the commands write with those the
  loader accepts. A session that does not load blocks everything.
* **CloseNeverRepeated**, **NothingAfterUncertain**, **FinalStatesFinal** are the
  rules for outcomes that cannot be undone or are unknown.
* **GivesBackExactly** holds only while nobody else edits priorities: a rollback
  writes the value of the snapshot over whatever was set since.

* **RefusalIsFinal** and **PromiseSpec** of `helper` justify what CodingSession
  assumes of an answer; **GivenBackRuns** is about a restore that reports
  success; **BothEnd** says that neither side waits for ever.
* **ReadBack** covers sessions of all three schemas; a text that was cut off or
  changed in one token loads with all of its actions or not at all.
* **PlanPasses** compares two implementations of one policy and names each case
  in which they disagree.
* **ReportsWhatHappened**, **ProgressIsTrue**, **ShowsTheTruth** tie what the
  window says to what the command and the file did; **ClosedMeansIdle** and
  **CloseEnds** say that closing waits for the threads, and ends.
* **WholeUnlessCrowded** and **ReplacedByItsSuccessor** say what one session file
  for several processes is good for, and where the code gives no protection: two
  processes that save at the same time share one temporary file, and a session
  saved between another command's look and its save is overwritten.
* **RatesAreTrue**, **EvidenceIsTrue**: nobody is charged with the work of the
  process that had its PID before or with what a missing table hides. They except
  what the code gets wrong: after a failed inventory the next rates are divided by
  too short a time, and after counters that could not be read the next rate is
  everything since the start.
* **ObservedIsNew** excepts a PID that changes hands between a list and what is
  done with it, which the code cannot notice.

Bounds. Every interesting case needs one session, one target per kind and at most
two faults: one that leaves the session behind and one during its recovery.
`anomalies` has two sessions and two targets of a kind for what one session
leaves to the next. MaxSessions, MaxFaults, MaxPriorityEdits and MaxServiceEdits
only bound counters; when they are used up and nothing is left to do the system
stops, so deadlock is not checked: the liveness properties say what must end.
The same holds for the other modules. `helper` has two requests because only the
helper of an earlier request can meet a later one, and it cannot tell how many
came before. A JSON text with two changed tokens reaches every pair of adjacent
parser decisions; messages are checked at both sides of each limit. A session
file for three processes has one more than any conflict needs; a log of three
bytes is full after two events. Three samples are the smallest history in which
half of those that tell can be one while another does not tell; a full history
is exceeded in the behaviours that follow the system.

Fairness. A running command is scheduled (WF on the steps of a command), and with
a session on disk `coding enter` is refused, so a user who wants to continue runs
`recovery restore` (WF) and, when it keeps being possible, `recovery acknowledge`
(SF: each restore in between disables it for a while). Faults, crashes, exits and
outside changes are not fair. No fault is forced, and after the last one recovery
must succeed.

In `helper` the client, the helpers and the service control manager take their
steps (WF): they are processes that Windows schedules, and each of their waits
has a timeout. In `dashboard` the threads and the command run (WF); posted
messages are handled although input keeps coming (SF on AcceptPendingModel and
TakeResult: posted messages precede input), and the window's thread gets the
mutex although the worker keeps taking it (SF on GuiGoesOn: the worker frees it
while it waits). The user's answers to message boxes are not fair.

### What the violations show

1. *A restored service stops again.* Rollback saves `RolledBack` and only later
   asks whether the service runs. If it has stopped meanwhile, every later
   restore skips the record, finds the service stopped and ends in Safe Mode.
2. *A late stop.* The client gives up while the helper works; recovery sees a
   running service, calls it restored and closes the session; then the helper
   stops the service.
3. *Completion fails.* The documentation says the session switches to SafeMode;
   a command that ends because the report cannot be written, or the session file
   not be removed, leaves it in Recovering.

## What is proved

`CodingSessionProofs` holds for all sets of targets, all plans without
repetitions and all bounds, under the four named assumptions of CodingSession:

* `TypeCorrect`, `SavedSessionsLoad`, `ReportsAreComplete`: `Spec => []P`, for any
  `HelperAnomalies`, so also with a helper that stops a service late or whose
  answer misses a stop;
* `PrioritiesAlwaysCovered`, for any `HelperAnomalies` too: every priority that is
  owed is in an open record of the session file, with its value or, where the
  snapshot had none and the result is not saved, the mark that it has none;
* `CoveredAlways` (`Spec => []Covered`, the same for services as well) and
  `PromiseImplemented` (`Spec => PromiseSpec`) under `HelperAnomalies = {}`: with a
  late helper Covered is false, as `late_stop` shows.

Covered is not inductive. The step that saves memory over the file keeps it only
if memory covers what is owed too; the step that removes the file only if every
record is final; and that a record which says Applied has a value follows only if
records of each kind stay in their states. The invariant `IInv` says this
in parts: `CursorInv` (the action in hand is the last record, the records follow
the plan), `JournalInv` (where file and memory are equal), `RecordInv` (which
states and values each kind of action reaches), `CoverInv` (file and memory cover
what is owed, and nothing is owed to a target about to be changed or to a process
that is gone), `FinalInv` (what the rollback loop has passed is final). CoverInv is about
the targets in `Reliable`, those of whose changes the command always learns: all of
them without anomalies, else the processes, whose priorities WorkBoost changes
itself and not through the helper. There is one lemma per
group of actions and one step per action; ExecuteInv, UndoInv, FailedSaveInv and
ReturnInv carry what several actions share. TLC checked IInv on the instances of
`session` and `anomalies` before it was proved.

`CodingOutcomeProofs` adds, on top of IInv and for any `HelperAnomalies` as well,
`CloseNeverRepeatedAlways` and `SuccessIsAlwaysHonest`. CloseInv says that a
delivered request is admitted by a record in memory and in the file; as the
planned targets differ, the action in hand is for a target without a record, so
without a request. HonestInv says that while a session is entered all outcomes
but that of the action in hand are known.

Its second part is about steps: `NothingAfterUncertainAlways`,
`FinalStatesAlwaysFinal`, `StrangersAlwaysUntouched` and, under
`MaxPriorityEdits = 0`, `GivesBackExactlyAlways`. FollowInv says how far memory
may be ahead of the file: by the states of open records only, so what is saved
from it (FileStep) leaves final records alone. ValueInv says that an open record
of a priority, on disk and in memory, names the value that is owed, if it names
one, and that the value which the preflight saw is still there when SetPriority
reads it; with edits in between the Planned record on disk names the older one,
which is why the assumption is needed.

`PlanCheckProofs` holds for every content of the directories, every set of
snapshots and every table of built-in rules that satisfies BuiltInAssumption,
and under SnapshotsAssumption (PIDs are numbers; a stopped service has no
process and no session): `BaselineAlwaysKept`, `TakesOnlyTheUnprotectedAlways`,
`StopsOnlyTheUnprotectedAlways`, `PlanAlwaysPasses`,
`StoppedCanAlwaysBeRestored`. The invariant `PlanInv` says which configuration a
command has (LoadKeepsConfig: loading keeps the shape and the baseline, whatever
the file holds), that the plan and the valid actions are what planner and
validator make of their snapshots, and that what the helper has stopped has the
name and the rules a restore asks for. StoppableService and UnprotectedProcess
are the lemmas about the policies.

`HelperTransportProofs` holds for any number of requests, faults and outside
changes, with and without `Anomalies`: `RefusalIsAlwaysFinal`, `PromiseIsKept`
(`Spec => PromiseSpec`) and `GivenBackAlwaysRuns`. What a request may still do to
the service depends on how far client and helper are: before the helper has read
it, nothing has happened (NotYet); while the helper works, the client holds at
most an answer that leaves the outcome open (Pending); what the helper has
answered is true (Truthful); and a request that was refused can no longer be read
(Refused). The four are stated for every request, since helpers of abandoned
requests go on. RunsInv adds what the helper of the last request has seen, as
long as that request was made alone.

`SharedFilesProofs` holds for any set of processes and any number of saves and
crashes: `AlwaysWholeUnlessCrowded`, `SavesFailOnlyByOthers`,
`AlwaysReplacedByItsSuccessor`. FilesInv says that each temporary file belongs to
the process between opening and moving it, unless two have been there at once,
and that what a process has read of the session is right unless the file was
changed since. For the log, `LogAlwaysBounded` and `NewestAlwaysKept` hold for
every finite set of processes and every limit. The bound is a counting argument:
each process has Limit slots and has used those up to the size that it counts
(Used), and the log is never longer than the number of used slots
(`LogLength <= Cardinality(Used)`).

`DashboardProofs` holds for any depth of message boxes, any number of commands
and any length of their output: `AlwaysClosedIdle`, `ProgressIsAlwaysTrue`,
`AlwaysReportsWhatHappened`. The difficulty is nesting: a handler resumes below
whatever the boxes above it have done. StackInv says that of the boxes at most one
disables the window and that it is disabled as long; so a question has nothing
above it and no command can start under it (QuestionInv). CommandInv says that a
result is pending only between the end of the command and the join, ResultInv
that a result which says success has an ended process behind it.

`MonitoringProofs` holds for any finite set of PIDs and any number of processes,
samples and polls. `RatesAreAlwaysTrue`: what the collector remembers of a PID and
what its process has done since make up the counter of that process, unless the
PID has changed hands, and then the start times differ (CounterInv, StartsInv).
`EvidenceIsAlwaysTrue`, for a history of any size: each sample in it is Reliable,
its rates true and its protected processes the ones with connections wherever the
tables were whole (HistoryInv); so the samples that count against a subject are
among those in which it was busy (SeenIsBusy), and the diagnoses and the baseline
only count subsets of the history. Two things stand between the counts and what is
reported. The code takes the greatest of the subjects, which exists because their
set is finite and ordered (LeadExists), and it adds up rates, whose sum is positive
only when a rate is (SumFacts): SumFunction is a recursive function, so the lemmas
first construct it for the subsets up to a size, by the smallest size for which
there is none. `StartsAreAlwaysNew`: who was there before is on the first list
(BeforeInv), the last list has the candidates that are still there (CandidateInv),
and a PID that has not changed hands has the process that was listed (ListInv,
OwnerInv). That a candidate is not overlooked needs the loop over candidates to
reach each one, from the least index on (LeastFacts).

`HelperProtocolProofs` proves `MessagesAreAlwaysExact` for messages of every
content and length, not only the valid ones, and any sequence of changed, lost
and added bytes. Encode and the decoders are proved inverse to each other field
by field: RequestExact and ResponseExact say that what Validate admits fits into
a message and is read back, by the one decoder and not by the other; RequestBack
and ResponseBack, that any bytes a decoder accepts are the encoding of what it
returns. The assumption is the sort of the fields (ProtocolAssumption: an
identifier has 8 bytes, a nonce 32).

`TextsAreAlwaysExact` is about texts of every length. IsValidUtf8 tests decoded
code points; the reference is the table of byte sequences of the Unicode standard.
ThreeBytes and FourBytes compare the two for a character, by arithmetic on the code
point: below 0x800 or 0x10000, a surrogate or beyond 0x10ffff is each decided by the
second byte. CodePoint and WellFormed are recursive functions over an index, so the
lemmas first show that they have a solution (StepsExist, CutExists). From
characters to texts in both directions: in a text that is good at every byte, the
first border that cannot be reached by cutting would end a good character which
begins at a border that can (GoodIsCut); in a text that is cut, the shortest prefix
with a byte that is not good would end in a well-formed character without one
(CutIsGood). Shortest prefixes exist because the numbers are well founded
(LeastExists); no induction theorem is needed.

### Only model-checked

* Liveness (`EventuallyClosed`, `BothEnd`, `CommandEnds`, `CloseEnds`,
  `ShowsTheTruth`): out of the prover's reach.
* `AcceptsExactlyJson`, `ReadBack`, `ListsLoad`: JsonText has recursive operators,
  in whose scope no obligation with arithmetic can be proved, and what a parser
  computes is induction over the text.

## Plan

1. CodingSession, SessionPromise and their proofs - done.
2. HelperTransport, HelperPromise and their proofs - done.
3. ConfigLayers, ProtectionRules, PlanCheck and their proofs - done.
4. SharedFiles, EventLog and their proofs - done.
5. Dashboard, CommandRunner and their proofs - done. Left: export, page
   navigation, minimizing into the tray when the icon cannot be added
   (`gui/dashboard.cpp:630`).
6. JsonText, SessionCodec, HelperProtocol, HelperText - done, with the proofs of
   HelperProtocol.
7. Monitoring, StartupObserver and their proofs - done. Left: the Defender
   diagnosis, the statistics of `core/benchmark/`.

## Not modelled

* Drawing, layout and wording (`gui/dashboard_renderer.cpp`,
  `gui/dashboard_model.cpp`): no state a property would be about.
* The commands of `cli/cli.cpp` that only print, and the parsing of arguments.
* Processor, memory, disk and hardware counters: conditions that a sample shows
  or not. DefenderImpact, severities and averages of the diagnosis.
* Median, percentiles and comparison of benchmarks (`core/benchmark/`):
  arithmetic over a list, without state.
* Some failures of Windows: a failed write to an open log (it may leave a part of
  an event), a directory that cannot be created, PostMessageW of a command's
  result (`gui/dashboard.cpp:502`).
* A PID that changes hands within one inventory of the collector: an inventory is
  one step. Between inventories, and in the steps of the observer, it may.
* Device and startup inventory (`platform/windows/serial_port_api.cpp`,
  `startup_api.cpp`): reads Windows, keeps nothing.
