------------------------------- MODULE Dashboard -------------------------------
(***************************************************************************)
(* The dashboard's three threads: the GUI thread with its messages, message *)
(* boxes and tray icon, the worker that samples the system, and the thread  *)
(* that runs a Coding Mode command (CommandRunner).                         *)
(*                                                                         *)
(* A message box runs a message loop of its own, so that other messages    *)
(* are handled while a handler waits for its answer: frames is the stack   *)
(* of these handlers.  The window is disabled while a box is open, but an  *)
(* answer to a box below the top one enables it early.  The tray menu is   *)
(* modelled by the choice made in it: nothing is kept while it is open.    *)
(*                                                                         *)
(* Posted messages form a set: one that finds nothing pending does         *)
(* nothing, so a second message of a kind adds nothing.                    *)
(***************************************************************************)
EXTENDS CommandRunner

CONSTANTS
  NoModel,                \* no model has been accepted or is pending
  MaxCommands,            \* bound: commands, here and in a terminal
  MaxDepth                \* bound: frames the user can nest

VARIABLES
  window,                 \* the main window
  enabled,                \* it takes the user's input
  trayIcon,               \* tray_icon_added_
  frames,                 \* boxes that wait for an answer
  gui,                    \* what the GUI thread is doing
  posted,                 \* messages in its queue
  latest,                 \* latest_model_
  running,                \* coding_command_running_
  activeCommand,          \* active_coding_command_
  accepted,               \* the result that is being handled
  pendingModel,           \* pending_model_
  pendingResult,          \* pending_coding_result_, a set of at most one
  coding,                 \* the command thread
  worker,                 \* the sampling thread
  stop,                   \* stop_requested_
  refresh,                \* refresh_requested_
  commands                \* number of commands so far

guiVars == <<window, enabled, trayIcon, frames, gui, latest, running,
             activeCommand, accepted, commands>>
vars == <<runnerVars, guiVars, worker, posted, pendingModel, pendingResult,
          coding, stop, refresh>>

\* A model has what the worker has seen of the session, "unknown" when it could
\* not collect, and whether an operation is in progress.  A frame is a message
\* box that waits, a "question", a "notice" or a "report": for which command, its
\* answer, and whether it was the one to disable the window.

Init ==
  /\ RunnerInit
  /\ window = "shown" /\ enabled = TRUE /\ trayIcon = FALSE
  /\ frames = <<>> /\ gui = "pump" /\ posted = {}
  /\ latest = NoModel /\ pendingModel = NoModel
  /\ running = FALSE /\ activeCommand = "Enter"
  /\ accepted = NoResult /\ pendingResult = {}
  /\ coding = "none"
  /\ worker = "init"
  /\ stop = FALSE /\ refresh = FALSE
  /\ commands = 0

-----------------------------------------------------------------------------
\* The GUI thread.  It takes messages in the main loop, or in the loop of the
\* top frame while that has no answer.
Top == frames[Len(frames)]
Pumps == gui = "pump" /\ (frames # <<>> => Top.answer = "open")
TakesMessages == Pumps /\ window # "destroyed"
TakesInput == TakesMessages /\ window = "shown" /\ enabled

\* worker_mutex_ is held by the worker from its lock to the wait.
MutexFree == worker # "deciding"

\* ApplyCodingOperationState.
Applied(model, inProgress) ==
  IF model = NoModel THEN NoModel ELSE [model EXCEPT !.inProgress = inProgress]

\* A box over the frames below; one without a window ends at once.
Open(below, wasEnabled, kind, command) ==
  IF window = "destroyed"
    THEN frames' = below /\ enabled' = wasEnabled
    ELSE /\ frames' = Append(below, [kind |-> kind, command |-> command,
                                     answer |-> "open", disabler |-> wasEnabled])
         /\ enabled' = FALSE

\* StartCodingCommand.  A thread that is still joinable would be waited for; the
\* new thread may fail to start.
StartCodingCommand(command, below, wasEnabled) ==
  IF running
    THEN /\ frames' = below /\ enabled' = wasEnabled
         /\ UNCHANGED <<runnerVars, gui, latest, running, activeCommand, commands,
                        coding>>
    ELSE
      /\ activeCommand' = command
      /\ gui' = IF coding = "none" THEN gui ELSE "starting"
      /\ commands' = commands + 1
      /\ \/ /\ running' = TRUE
            /\ latest' = Applied(latest, TRUE)
            /\ coding' = "executing"
            /\ Execute(command)
            /\ frames' = below /\ enabled' = wasEnabled
         \/ /\ running' = FALSE
            /\ latest' = Applied(latest, FALSE)
            /\ Open(below, wasEnabled, "notice", command)
            /\ UNCHANGED <<runnerVars, coding>>

\* DestroyWindow and WM_DESTROY: StopWorker sets the flag without the mutex,
\* wakes a thread that waits, and joins it.
DestroyWindow(below) ==
  /\ window' = "destroyed"
  /\ trayIcon' = FALSE
  /\ stop' = TRUE
  /\ worker' = IF worker = "blocked" THEN "woken" ELSE worker
  /\ gui' = "joinWorker"
  /\ frames' = [i \in DOMAIN below |->
                  IF below[i].answer = "open" THEN [below[i] EXCEPT !.answer = "no"]
                                              ELSE below[i]]
  /\ UNCHANGED <<runnerVars, enabled, posted, latest, running, activeCommand,
                 accepted, commands, pendingModel, pendingResult, coding,
                 refresh>>

\* refresh_requested_ = true under the mutex, and notify_one.
RequestRefresh ==
  /\ MutexFree
  /\ refresh' = TRUE
  /\ worker' = IF worker = "blocked" THEN "woken" ELSE worker

-----------------------------------------------------------------------------
ClickRefresh ==
  /\ TakesInput
  /\ RequestRefresh
  /\ UNCHANGED <<runnerVars, guiVars, posted, pendingModel, pendingResult, coding, stop>>

\* The primary button: in Safe Mode, and while a command runs, it only turns to
\* a page.
ClickPrimary ==
  /\ TakesInput
  /\ Len(frames) < MaxDepth /\ commands < MaxCommands
  /\ latest # NoModel /\ latest.session # "unreadable"
  /\ ~running
  /\ Open(frames, enabled, "question", IF latest.session = "active" THEN "Exit" ELSE "Enter")
  /\ UNCHANGED <<runnerVars, worker, window, trayIcon, gui, latest, running,
                 activeCommand, accepted, commands, posted, pendingModel,
                 pendingResult, coding, stop, refresh>>

ClickRestore ==
  /\ TakesInput
  /\ commands < MaxCommands
  /\ latest # NoModel /\ latest.session = "active"
  /\ ~running
  /\ StartCodingCommand("Restore", frames, enabled)
  /\ UNCHANGED <<worker, window, trayIcon, accepted, posted, pendingModel,
                 pendingResult, stop, refresh>>

\* WM_CLOSE, which does not need the window to be enabled.
Close ==
  /\ TakesMessages
  /\ \/ ~running /\ DestroyWindow(frames)
     \/ /\ running
        /\ Len(frames) < MaxDepth
        /\ Open(frames, enabled, "notice", "Enter")
        /\ UNCHANGED <<runnerVars, worker, window, trayIcon, gui, latest, running,
                       activeCommand, accepted, commands, posted, pendingModel,
                       pendingResult, coding, stop, refresh>>

\* SC_MINIMIZE hides the window; Shell_NotifyIcon may fail.
Minimize ==
  /\ TakesInput
  /\ window' = "hidden"
  /\ trayIcon' \in BOOLEAN
  /\ UNCHANGED <<runnerVars, worker, enabled, frames, gui, latest, running,
                 activeCommand, accepted, commands, posted, pendingModel,
                 pendingResult, coding, stop, refresh>>

\* A double click on the tray icon, also while a box is open.
RestoreFromTray ==
  /\ TakesMessages
  /\ trayIcon
  /\ trayIcon' = FALSE
  /\ window' = "shown"
  /\ UNCHANGED <<runnerVars, worker, enabled, frames, gui, latest, running,
                 activeCommand, accepted, commands, posted, pendingModel,
                 pendingResult, coding, stop, refresh>>

\* Mutant of ShowTrayMenu: Exit in the tray menu closes whatever is running.
ShowTrayMenuUnchecked ==
  /\ TakesMessages
  /\ trayIcon
  /\ DestroyWindow(frames)

\* Exit in the tray menu; its other item is RestoreFromTray.
ShowTrayMenu ==
  /\ TakesMessages
  /\ trayIcon
  /\ \/ ~running /\ DestroyWindow(frames)
     \/ /\ running
        /\ Len(frames) < MaxDepth
        /\ Open(frames, enabled, "notice", "Enter")
        /\ UNCHANGED <<runnerVars, worker, window, trayIcon, gui, latest, running,
                       activeCommand, accepted, commands, posted, pendingModel,
                       pendingResult, coding, stop, refresh>>

\* The user answers a box.  The handler of the top one goes on at once; others
\* have to wait for those above them.
AnswerBelow ==
  /\ TakesMessages
  /\ \E i \in 1 .. Len(frames) - 1, a \in {"yes", "no"} :
       /\ frames[i].answer = "open"
       /\ a = "no" => frames[i].kind = "question"
       /\ frames' = [frames EXCEPT ![i].answer = a]
       /\ enabled' = (enabled \/ frames[i].disabler)
  /\ UNCHANGED <<runnerVars, worker, window, trayIcon, gui, latest, running,
                 activeCommand, accepted, commands, posted, pendingModel,
                 pendingResult, coding, stop, refresh>>

-----------------------------------------------------------------------------
\* The top box gets its answer, or had it when those above it went.
Returns(kind, answer) ==
  /\ gui = "pump" /\ frames # <<>> /\ Top.kind = kind
  /\ Top.answer \in {"open", answer}
  /\ Top.answer = "open" => window # "destroyed"

\* The window after the answer.
Enabled == enabled \/ (Top.answer = "open" /\ Top.disabler)
Below == SubSeq(frames, 1, Len(frames) - 1)
Pop ==
  /\ frames' = Below
  /\ enabled' = Enabled
  /\ UNCHANGED <<window, trayIcon, gui, latest, running, activeCommand, accepted,
                 commands>>

QuestionReturns ==
  /\ \/ /\ Returns("question", "yes")
        /\ StartCodingCommand(Top.command, Below, Enabled)
        /\ UNCHANGED <<window, trayIcon, accepted>>
     \/ /\ Returns("question", "no")
        /\ Pop
        /\ UNCHANGED <<runnerVars, coding>>
  /\ UNCHANGED <<worker, posted, pendingModel, pendingResult, stop, refresh>>

NoticeReturns ==
  /\ \E a \in {"yes", "no"} : Returns("notice", a)
  /\ Pop
  /\ UNCHANGED <<runnerVars, worker, posted, pendingModel, pendingResult, coding, stop,
                 refresh>>

\* The rest of AcceptCodingCommandResult.
ReportReturns ==
  /\ \E a \in {"yes", "no"} : Returns("report", a)
  /\ Pop
  /\ RequestRefresh
  /\ UNCHANGED <<runnerVars, posted, pendingModel, pendingResult, coding, stop>>

-----------------------------------------------------------------------------
\* Mutant of AcceptPendingModel: the operation is not put into the new model.
AcceptPendingModelAsBuilt ==
  /\ TakesMessages
  /\ "model" \in posted
  /\ posted' = posted \ {"model"}
  /\ pendingModel' = NoModel
  /\ latest' = IF pendingModel = NoModel THEN latest ELSE pendingModel
  /\ UNCHANGED <<runnerVars, worker, window, enabled, trayIcon, frames, gui,
                 running, activeCommand, accepted, commands, pendingResult, coding,
                 stop, refresh>>

AcceptPendingModel ==
  /\ TakesMessages
  /\ "model" \in posted
  /\ posted' = posted \ {"model"}
  /\ pendingModel' = NoModel
  /\ latest' = IF pendingModel = NoModel THEN latest ELSE Applied(pendingModel, running)
  /\ UNCHANGED <<runnerVars, worker, window, enabled, trayIcon, frames, gui,
                 running, activeCommand, accepted, commands, pendingResult, coding,
                 stop, refresh>>

\* AcceptCodingCommandResult takes the result and joins the thread.
TakeResult ==
  /\ TakesMessages
  /\ "result" \in posted
  /\ posted' = posted \ {"result"}
  /\ pendingResult' = {}
  /\ IF pendingResult = {}
       THEN UNCHANGED <<accepted, gui>>
       ELSE /\ accepted' \in pendingResult
            /\ gui' = "joinCoding"
  /\ UNCHANGED <<runnerVars, worker, window, enabled, trayIcon, frames, latest,
                 running, activeCommand, commands, pendingModel, coding, stop, refresh>>

\* Then it sets the state and shows a box; a failed command gets one too.
AcceptCodingCommandResult ==
  /\ gui = "joinCoding"
  /\ coding = "ended"
  /\ coding' = "none"
  /\ gui' = "pump"
  /\ running' = FALSE
  /\ latest' = Applied(latest, FALSE)
  /\ accepted' = NoResult
  /\ Forget
  /\ Open(frames, enabled, "report", "Enter")
  /\ UNCHANGED <<worker, window, trayIcon, activeCommand, commands, posted,
                 pendingModel, pendingResult, stop, refresh>>

JoinWorker ==
  /\ gui = "joinWorker"
  /\ worker = "done"
  /\ gui' = "pump"
  /\ UNCHANGED <<runnerVars, worker, window, enabled, trayIcon, frames, latest,
                 running, activeCommand, accepted, commands, posted, pendingModel,
                 pendingResult, coding, stop, refresh>>

\* The main loop ends; the destructor joins the command thread.
Exit ==
  /\ gui = "pump" /\ window = "destroyed" /\ frames = <<>>
  /\ coding \in {"none", "ended"}
  /\ gui' = "exited"
  /\ UNCHANGED <<runnerVars, worker, window, enabled, trayIcon, frames, latest,
                 running, activeCommand, accepted, commands, posted, pendingModel,
                 pendingResult, coding, stop, refresh>>

-----------------------------------------------------------------------------
\* The command thread.
Execution ==
  /\ coding = "executing"
  /\ ThreadStep
  /\ UNCHANGED <<guiVars, worker, posted, pendingModel, pendingResult, coding, stop,
                 refresh>>

StoreResult ==
  /\ coding = "executing" /\ execution = "returned"
  /\ coding' = "stored"
  /\ execution' = "idle"
  /\ pendingResult' = {result}
  /\ result' = NoResult
  /\ UNCHANGED <<child, toWrite, writers, pipe, session, fault,
                 guiVars, worker, posted, pendingModel, stop, refresh>>

PostResult ==
  /\ coding = "stored"
  /\ coding' = "posted"
  /\ posted' = IF window = "destroyed" THEN posted ELSE posted \cup {"result"}
  /\ UNCHANGED <<runnerVars, guiVars, worker, pendingModel, pendingResult, stop,
                 refresh>>

ThreadEnds ==
  /\ coding = "posted"
  /\ coding' = "ended"
  /\ UNCHANGED <<runnerVars, guiVars, worker, posted, pendingModel, pendingResult,
                 stop, refresh>>

Child ==
  /\ ChildStep
  /\ UNCHANGED <<guiVars, worker, posted, pendingModel, pendingResult, coding, stop,
                 refresh>>

\* A session is also entered and left in a terminal.
Terminal ==
  /\ commands < MaxCommands
  /\ commands' = commands + 1
  /\ CommandElsewhere
  /\ UNCHANGED <<window, enabled, trayIcon, frames, gui, latest, running, activeCommand,
                 accepted, worker, posted, pendingModel, pendingResult, coding,
                 stop, refresh>>

-----------------------------------------------------------------------------
\* WorkerLoop.  Its steps touch what it shares with the GUI one at a time.
WorkerGoes(from, to) == worker = from /\ worker' = to

WorkerLocal ==
  UNCHANGED <<runnerVars, guiVars, posted, pendingModel, pendingResult, coding, stop>>

\* PostModel, unless the dashboard stops: a later model takes the place of one
\* that is still pending.
PostModel(model) ==
  IF stop THEN UNCHANGED <<pendingModel, posted>>
          ELSE /\ pendingModel' = model
               /\ posted' = IF window = "destroyed" THEN posted
                                                    ELSE posted \cup {"model"}

\* Without a collector an error page is posted and the thread ends.
StartWorker ==
  /\ \/ WorkerGoes("init", "loop") /\ UNCHANGED <<fault, pendingModel, posted>>
     \/ /\ fault = "none" /\ fault' = "collector"
        /\ WorkerGoes("init", "done")
        /\ PostModel([session |-> "unknown", inProgress |-> FALSE])
  /\ UNCHANGED <<execution, child, toWrite, writers, pipe, result, session, guiVars,
                 pendingResult, coding, stop, refresh>>

\* wait_for looks at its condition before it waits ...
LoopTop ==
  /\ WorkerGoes("loop", IF stop THEN "done" ELSE IF refresh THEN "woken" ELSE "deciding")
  /\ WorkerLocal /\ UNCHANGED refresh

Block ==
  /\ WorkerGoes("deciding", "blocked")
  /\ WorkerLocal /\ UNCHANGED refresh

\* Mutant of TimeOut: wait without an interval.
TimeOutNever ==
  /\ refresh
  /\ WorkerGoes("blocked", "woken")
  /\ WorkerLocal /\ UNCHANGED refresh

\* ... and ends after the interval at the latest.
TimeOut ==
  /\ WorkerGoes("blocked", "woken")
  /\ WorkerLocal /\ UNCHANGED refresh

\* After the wait the request is taken.
TakeRequest ==
  /\ IF stop THEN WorkerGoes("woken", "done") /\ UNCHANGED refresh
             ELSE WorkerGoes("woken", "sampled") /\ refresh' = FALSE
  /\ WorkerLocal

\* Mutant of PresentModel: The session is read before the loop.
PresentModelOnce ==
  /\ WorkerGoes("sampled", "loop")
  /\ PostModel([session |-> IF latest = NoModel THEN session ELSE latest.session,
                inProgress |-> FALSE])
  /\ UNCHANGED <<runnerVars, guiVars, pendingResult, coding, stop, refresh>>

\* The sample, the session and the model of them.
PresentModel ==
  /\ WorkerGoes("sampled", "loop")
  /\ PostModel([session |-> session, inProgress |-> FALSE])
  /\ UNCHANGED <<runnerVars, guiVars, pendingResult, coding, stop, refresh>>

-----------------------------------------------------------------------------
User ==
  \/ ClickRefresh \/ ClickPrimary \/ ClickRestore
  \/ Close \/ Minimize \/ RestoreFromTray \/ ShowTrayMenu \/ AnswerBelow

GuiReturns == QuestionReturns \/ NoticeReturns \/ ReportReturns
\* What the GUI thread does without the user.
GuiGoesOn ==
  \/ frames # <<>> /\ Top.answer # "open" /\ GuiReturns
  \/ AcceptCodingCommandResult \/ JoinWorker \/ Exit

CodingThread == Execution \/ StoreResult \/ PostResult \/ ThreadEnds

WorkerThread ==
  \/ StartWorker \/ LoopTop \/ Block \/ TimeOut \/ TakeRequest
  \/ PresentModel

Next ==
  \/ User
  \/ GuiReturns
  \/ AcceptPendingModel \/ TakeResult
  \/ AcceptCodingCommandResult \/ JoinWorker \/ Exit
  \/ CodingThread \/ Child \/ Terminal
  \/ WorkerThread

Spec == Init /\ [][Next]_vars

\* Threads that can go on do.  Posted messages are taken before the user's
\* input, so no amount of input delays them for ever, and the worker leaves the
\* mutex free while it waits.  The user need not do anything.
FairSpec ==
  /\ Spec
  /\ SF_vars(AcceptPendingModel) /\ SF_vars(TakeResult) /\ SF_vars(GuiGoesOn)
  /\ WF_vars(CodingThread) /\ WF_vars(Child)
  /\ WF_vars(WorkerThread)

-----------------------------------------------------------------------------
(***************************************************************************)
(* Properties.                                                             *)
(***************************************************************************)

\* The window does not go while a command runs that nobody would then report
\* on: not through the title bar, not through the tray menu, and not when a
\* question that was answered earlier comes back from under other boxes.
ClosedMeansIdle == window = "destroyed" => ~running

\* What the pages say of a running operation is so whenever they are painted,
\* in whichever order models and results arrive.
ProgressIsTrue ==
  gui = "pump" /\ latest # NoModel => latest.inProgress = running

\* Success is reported of the command that was asked for, after its process
\* has ended with success.
ReportsWhatHappened ==
  [][gui = "joinCoding" /\ gui' = "pump" /\ Succeeded(accepted) =>
       child = [state |-> "exited", command |-> activeCommand, exit |-> 0]]_vars

\* Every command comes to its end and is reported, however much it writes,
\* unless its output can no longer be read.
CommandEnds == running ~> ~running \/ fault = "read"

\* Once the window is destroyed the process ends, although the worker may miss
\* the notification between its test and its wait.
CloseEnds == window = "destroyed" ~> gui = "exited"

\* When no more commands come, the pages show the session that there is, also
\* one that a command in a terminal has left.
ShowsTheTruth ==
  <>[](\/ window = "destroyed" \/ fault = "collector"
       \/ latest # NoModel /\ latest.session = session)

=============================================================================
