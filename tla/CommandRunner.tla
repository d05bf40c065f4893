----------------------------- MODULE CommandRunner -----------------------------
(***************************************************************************)
(* CodingModeCommandClient::Execute: the dashboard's worker thread starts  *)
(* a command line with its output on a pipe, reads the pipe to its end,    *)
(* waits for the process and returns its exit code.  What the command does *)
(* to the session is the work of CodingSession and chosen here.            *)
(*                                                                         *)
(* Waiting for a process that one has a handle of, and reading its exit    *)
(* code, are taken to succeed.                                             *)
(***************************************************************************)
EXTENDS Integers, Sequences

CONSTANTS
  PipeCapacity,           \* chunks that fit into the pipe
  OutputLength,           \* chunks a command writes
  InitialSessions         \* what active_session.json says in the beginning

\* Commands are "Enter", "Exit" and "Restore".
Sessions == {"none", "active", "unreadable"}

ASSUME RunnerAssumption ==
  /\ PipeCapacity \in Nat \ {0}
  /\ OutputLength \in Nat \ {0}
  /\ InitialSessions \subseteq Sessions

VARIABLES
  execution,              \* step of Execute
  child,                  \* the process: state, command and exit code
  toWrite,                \* chunks it has still to write
  writers,                \* who holds the write end of the pipe
  pipe,                   \* chunks in the pipe
  result,                 \* the result so far
  session,                \* what active_session.json says
  fault                   \* the fault that has happened, of at most one

runnerVars == <<execution, child, toWrite, writers, pipe, result, session, fault>>

NoResult == [launched |-> FALSE, exit |-> 0, error |-> FALSE]
NoChild == [state |-> "none", command |-> "Enter", exit |-> 0]

Succeeded(r) == r.launched /\ r.exit = 0 /\ ~r.error

RunnerInit ==
  /\ execution = "idle"
  /\ child = NoChild
  /\ toWrite = 0
  /\ writers = {}
  /\ pipe = 0
  /\ result = NoResult
  /\ session \in InitialSessions
  /\ fault = "none"

-----------------------------------------------------------------------------
\* Execute is called; the thread that called it before has ended.
Execute(command) ==
  /\ execution' = "launching"
  /\ child' = [NoChild EXCEPT !.command = command]
  /\ toWrite' = 0 /\ writers' = {} /\ pipe' = 0
  /\ result' = NoResult
  /\ UNCHANGED <<session, fault>>

\* The path, the pipe, the null input or CreateProcess fails.
LaunchFails ==
  /\ execution = "launching"
  /\ execution' = "returned"
  /\ result' = [NoResult EXCEPT !.error = TRUE]
  /\ UNCHANGED <<child, toWrite, writers, pipe, session, fault>>

\* Mutant of Launch: output_write is not reset.
LaunchKeepsWriteEnd ==
  /\ execution = "launching"
  /\ execution' = "reading"
  /\ child' = [child EXCEPT !.state = "running"]
  /\ toWrite' = OutputLength
  /\ writers' = {"parent", "child"}
  /\ result' = [NoResult EXCEPT !.launched = TRUE]
  /\ UNCHANGED <<pipe, session, fault>>

\* The child inherits the write end and the parent closes its own.
Launch ==
  /\ execution = "launching"
  /\ execution' = "reading"
  /\ child' = [child EXCEPT !.state = "running"]
  /\ toWrite' = OutputLength
  /\ writers' = {"child"}
  /\ result' = [NoResult EXCEPT !.launched = TRUE]
  /\ UNCHANGED <<pipe, session, fault>>

\* Output beyond kMaximumCapturedOutputBytes is read too, and dropped, so that
\* the child can go on; which part is kept makes no difference here.
ReadChunk ==
  /\ execution = "reading"
  /\ pipe > 0
  /\ pipe' = pipe - 1
  /\ UNCHANGED <<execution, child, toWrite, writers, result, session, fault>>

ReadEnds ==
  /\ execution = "reading"
  /\ pipe = 0 /\ writers = {}
  /\ execution' = "waiting"
  /\ UNCHANGED <<child, toWrite, writers, pipe, result, session,
                 fault>>

\* ReadFile fails in another way than by a broken pipe: nothing reads any more.
ReadFails ==
  /\ execution = "reading"
  /\ fault = "none"
  /\ fault' = "read"
  /\ execution' = "waiting"
  /\ result' = [result EXCEPT !.error = TRUE]
  /\ UNCHANGED <<child, toWrite, writers, pipe, session>>

\* Mutant of WaitEnds: The exit code is read without waiting.
WaitEndsAtOnce ==
  /\ execution = "waiting"
  /\ execution' = "returned"
  /\ result' = [result EXCEPT !.exit = child.exit]
  /\ UNCHANGED <<child, toWrite, writers, pipe, session, fault>>

WaitEnds ==
  /\ execution = "waiting"
  /\ child.state = "exited"
  /\ execution' = "returned"
  /\ result' = [result EXCEPT !.exit = child.exit]
  /\ UNCHANGED <<child, toWrite, writers, pipe, session, fault>>

\* The thread is joined: nothing of the call is left.
Forget ==
  /\ child' = NoChild
  /\ UNCHANGED <<execution, toWrite, writers, pipe, result, session, fault>>

-----------------------------------------------------------------------------
\* A command writes once before it acts and the rest afterwards.
HasText == \/ child.state = "running" /\ toWrite = OutputLength
           \/ child.state = "acted"

\* The command line.  A write to a full pipe waits.
ChildWrites ==
  /\ HasText
  /\ toWrite > 0 /\ pipe < PipeCapacity
  /\ toWrite' = toWrite - 1
  /\ pipe' = pipe + 1
  /\ UNCHANGED <<execution, child, writers, result, session, fault>>

\* What a command makes of the session, and the exit code it returns with.
Effects(command) ==
  {<<session, 1>>}
  \cup CASE command = "Enter" ->
              IF session = "none" THEN {<<"active", 0>>, <<"active", 1>>} ELSE {}
         [] OTHER ->
              IF session = "active" THEN {<<"none", 0>>, <<"unreadable", 1>>} ELSE {}

ChildActs ==
  /\ child.state = "running" /\ toWrite < OutputLength
  /\ \E e \in Effects(child.command) :
       /\ session' = e[1]
       /\ child' = [child EXCEPT !.state = "acted", !.exit = e[2]]
  /\ UNCHANGED <<execution, toWrite, writers, pipe, result, fault>>

\* The end of a process closes its handles first; then it can be waited for.
ChildCloses ==
  /\ child.state = "acted" /\ toWrite = 0
  /\ "child" \in writers
  /\ writers' = writers \ {"child"}
  /\ UNCHANGED <<execution, child, toWrite, pipe, result, session, fault>>

ChildExits ==
  /\ child.state = "acted" /\ "child" \notin writers
  /\ child' = [child EXCEPT !.state = "exited"]
  /\ UNCHANGED <<execution, toWrite, writers, pipe, result, session, fault>>

\* Somebody runs a command in a terminal.
CommandElsewhere ==
  /\ session' \in Sessions \ {session}
  /\ UNCHANGED <<execution, child, toWrite, writers, pipe, result, fault>>

ThreadStep ==
  LaunchFails \/ Launch \/ ReadChunk \/ ReadEnds \/ ReadFails \/ WaitEnds
ChildStep == ChildWrites \/ ChildActs \/ ChildCloses \/ ChildExits

=============================================================================
