---------------------------- MODULE DashboardProofs ----------------------------
(***************************************************************************)
(* The dashboard, proved for any depth of message boxes, any number of     *)
(* commands and any length of their output.                                *)
(***************************************************************************)
EXTENDS Dashboard, TLAPS

Frames ==
  [kind : {"question", "notice", "report"}, command : {"Enter", "Exit", "Restore"},
   answer : {"open", "yes", "no"}, disabler : BOOLEAN]
Models == [session : Sessions \cup {"unknown"}, inProgress : BOOLEAN]
Children ==
  [state : {"none", "running", "acted", "exited"},
   command : {"Enter", "Exit", "Restore"}, exit : {0, 1}]
Results == [launched : BOOLEAN, exit : {0, 1}, error : BOOLEAN]

TypeOK ==
  /\ execution \in {"idle", "launching", "reading", "waiting", "returned"}
  /\ child \in Children
  /\ result \in Results /\ accepted \in Results /\ pendingResult \in SUBSET Results
  /\ session \in Sessions
  /\ frames \in Seq(Frames)
  /\ enabled \in BOOLEAN /\ running \in BOOLEAN
  /\ latest \in Models \cup {NoModel} /\ pendingModel \in Models \cup {NoModel}
  /\ activeCommand \in {"Enter", "Exit", "Restore"}

\* The command thread: a result is pending, or being handled, only between the
\* end of Execute and the join, and all that time a command counts as running.
HasResult == coding \in {"stored", "posted", "ended"}
CommandInv ==
  /\ running <=> coding # "none"
  /\ coding # "executing" => execution = "idle"
  /\ pendingResult # {} => HasResult
  /\ gui = "joinCoding" => HasResult /\ pendingResult = {}

\* Of the boxes that are open at most one has disabled the window, and while
\* there is one the window is not enabled.
Disables(frame) == frame.answer = "open" /\ frame.disabler
FramesOK(boxes, isEnabled) ==
  \A i \in DOMAIN boxes : Disables(boxes[i]) =>
    ~isEnabled /\ \A j \in DOMAIN boxes \ {i} : ~Disables(boxes[j])

\* So a question has nothing above it, and nothing can start a command as long
\* as it is there.
NoQuestion(boxes) == \A i \in DOMAIN boxes : boxes[i].kind # "question"
QuestionInv ==
  \A i \in DOMAIN frames : frames[i].kind = "question" =>
    /\ i = Len(frames) /\ ~running /\ frames[i].disabler
    /\ \/ frames[i].answer = "open"
       \/ frames[i].answer = "no" /\ window = "destroyed"

ClosedInv ==
  window = "destroyed" => ~running /\ \A i \in DOMAIN frames : frames[i].answer # "open"

ModelInv == latest # NoModel => latest.inProgress = running

\* A result that says success has its process behind it.
Truthful(r) ==
  Succeeded(r) => child = [state |-> "exited", command |-> activeCommand, exit |-> 0]

ResultInv ==
  /\ coding # "none" => child.command = activeCommand
  /\ execution = "returned" => Truthful(result)
  /\ \A r \in pendingResult : Truthful(r)
  /\ gui = "joinCoding" => Truthful(accepted)

Inv ==
  /\ TypeOK
  /\ CommandInv
  /\ FramesOK(frames, enabled) /\ QuestionInv /\ ClosedInv
  /\ ModelInv
  /\ ResultInv
-----------------------------------------------------------------------------
USE DEF Sessions

Kinds == {"question", "notice", "report"}
Commands == {"Enter", "Exit", "Restore"}

\* Boxes that a handler may find under its own.
Under(boxes, isEnabled) ==
  /\ boxes \in Seq(Frames) /\ isEnabled \in BOOLEAN
  /\ FramesOK(boxes, isEnabled) /\ NoQuestion(boxes)
  /\ window = "destroyed" => \A i \in DOMAIN boxes : boxes[i].answer # "open"

LEMMA BelowFacts ==
  ASSUME Inv, frames # <<>>
  PROVE  Under(Below, Enabled) /\ Top \in Frames
<1> DEFINE n == Len(frames)
<1>1. /\ frames \in Seq(Frames) /\ n \in Nat \ {0} /\ enabled \in BOOLEAN
      /\ FramesOK(frames, enabled) /\ QuestionInv /\ ClosedInv
  BY DEF Inv, TypeOK
<1>2. /\ Top \in Frames /\ Below \in Seq(Frames) /\ DOMAIN Below = 1 .. n - 1
      /\ DOMAIN frames = 1 .. n
      /\ \A i \in 1 .. n - 1 : Below[i] = frames[i]
  BY <1>1 DEF Top, Below
<1>3. Enabled = (enabled \/ Disables(Top)) /\ Enabled \in BOOLEAN
  BY <1>1, <1>2 DEF Enabled, Disables, Frames
<1>4. FramesOK(Below, Enabled)
  <2> SUFFICES ASSUME NEW i \in 1 .. n - 1, Disables(frames[i])
               PROVE  ~Enabled /\ \A j \in (1 .. n - 1) \ {i} : ~Disables(frames[j])
    BY <1>2 DEF FramesOK
  <2>1. ~enabled /\ \A j \in (1 .. n) \ {i} : ~Disables(frames[j])
    BY <1>1, <1>2 DEF FramesOK
  <2>2. ~Disables(Top)
    BY <1>1, <2>1 DEF Top
  <2>3. QED
    BY <1>1, <1>3, <2>1, <2>2
<1>5. NoQuestion(Below)
  BY <1>1, <1>2 DEF NoQuestion, QuestionInv
<1>6. window = "destroyed" => \A i \in DOMAIN Below : Below[i].answer # "open"
  BY <1>1, <1>2 DEF ClosedInv
<1>7. QED
  BY <1>2, <1>3, <1>4, <1>5, <1>6 DEF Under

LEMMA OpenFacts ==
  ASSUME NEW boxes, NEW isEnabled, Under(boxes, isEnabled),
         NEW kind \in Kinds, NEW command \in Commands,
         Open(boxes, isEnabled, kind, command), window' = window
  PROVE  /\ frames' \in Seq(Frames) /\ enabled' \in BOOLEAN
         /\ FramesOK(frames', enabled')
         /\ kind # "question" => NoQuestion(frames')
         /\ window = "destroyed" => \A i \in DOMAIN frames' : frames'[i].answer # "open"
         /\ isEnabled /\ window # "destroyed" =>
              \A i \in DOMAIN frames' : frames'[i].kind = "question" =>
                i = Len(frames') /\ frames'[i].disabler /\ frames'[i].answer = "open"
<1>1. /\ boxes \in Seq(Frames) /\ isEnabled \in BOOLEAN /\ NoQuestion(boxes)
      /\ FramesOK(boxes, isEnabled)
      /\ window = "destroyed" => \A i \in DOMAIN boxes : boxes[i].answer # "open"
  BY DEF Under
<1>2. CASE window = "destroyed"
  <2>1. frames' = boxes /\ enabled' = isEnabled
    BY <1>2 DEF Open
  <2>2. QED
    BY <1>1, <1>2, <2>1
<1>3. CASE window # "destroyed"
  <2> DEFINE n == Len(boxes)
  <2>1. PICK box \in Frames :
          /\ frames' = Append(boxes, box) /\ box.kind = kind /\ box.answer = "open"
          /\ box.disabler = isEnabled
    <3>1. [kind |-> kind, command |-> command, answer |-> "open",
           disabler |-> isEnabled] \in Frames
      BY <1>1 DEF Frames, Kinds, Commands
    <3>2. QED
      BY <1>3, <3>1 DEF Open
  <2>2. /\ frames' \in Seq(Frames) /\ n \in Nat /\ Len(frames') = n + 1
        /\ DOMAIN frames' = 1 .. n + 1 /\ DOMAIN boxes = 1 .. n
        /\ frames'[n + 1] = box /\ \A i \in 1 .. n : frames'[i] = boxes[i]
    BY <1>1, <2>1
  <2>3. enabled' = FALSE
    BY <1>3 DEF Open
  <2>4. FramesOK(frames', enabled')
    <3> SUFFICES ASSUME NEW i \in 1 .. n + 1, Disables(frames'[i]),
                        NEW j \in 1 .. n + 1, j # i
                 PROVE  ~Disables(frames'[j])
      BY <2>2, <2>3 DEF FramesOK
    <3>1. CASE i \in 1 .. n /\ j \in 1 .. n
      BY <1>1, <2>2, <3>1 DEF FramesOK
    <3>2. CASE i = n + 1
      BY <1>1, <2>1, <2>2, <3>2 DEF FramesOK, Disables
    <3>3. CASE j = n + 1
      BY <1>1, <2>1, <2>2, <3>3 DEF FramesOK, Disables
    <3>4. QED
      BY <2>2, <3>1, <3>2, <3>3
  <2>5. \A i \in DOMAIN frames' : frames'[i].kind = "question" =>
          i = n + 1 /\ kind = "question"
    BY <1>1, <2>1, <2>2 DEF NoQuestion
  <2>6. QED
    BY <1>3, <2>1, <2>2, <2>3, <2>4, <2>5 DEF NoQuestion
<1>4. QED
  BY <1>2, <1>3

\* A step that leaves what Inv speaks of as it is, except for the models to come,
\* the session and the window as long as it is there.
LEMMA Quiet ==
  ASSUME Inv,
         UNCHANGED <<execution, child, result, accepted, pendingResult, frames, enabled,
                     running, latest, activeCommand, coding>>,
         pendingModel' \in Models \cup {NoModel}, session' \in Sessions,
         window' = window \/ (window # "destroyed" /\ window' # "destroyed"),
         gui' = gui \/ gui' # "joinCoding"
  PROVE  Inv'
<1>1. TypeOK'
  BY DEF Inv, TypeOK
<1>2. CommandInv'
  BY DEF Inv, CommandInv, HasResult
<1>3. FramesOK(frames, enabled)'
  BY DEF Inv, FramesOK, Disables
<1>4. QuestionInv'
  BY DEF Inv, QuestionInv
<1>5. ClosedInv' /\ ModelInv'
  BY DEF Inv, ClosedInv, ModelInv
<1>6. ResultInv'
  BY DEF Inv, ResultInv, Truthful
<1>7. QED
  BY <1>1, <1>2, <1>3, <1>4, <1>5, <1>6 DEF Inv

\* A step that changes only the boxes.
LEMMA BoxesStep ==
  ASSUME Inv,
         UNCHANGED <<runnerVars, accepted, pendingResult, window, running, latest, gui,
                     activeCommand, coding, pendingModel>>,
         frames' \in Seq(Frames), enabled' \in BOOLEAN, FramesOK(frames', enabled'),
         NoQuestion(frames') \/ QuestionInv',
         window = "destroyed" => \A i \in DOMAIN frames' : frames'[i].answer # "open"
  PROVE  Inv'
<1> USE DEF runnerVars
<1>1. TypeOK'
  BY DEF Inv, TypeOK
<1>2. CommandInv'
  BY DEF Inv, CommandInv, HasResult
<1>3. QuestionInv'
  BY DEF NoQuestion, QuestionInv
<1>4. ClosedInv' /\ ModelInv'
  BY DEF Inv, ClosedInv, ModelInv
<1>5. ResultInv'
  BY DEF Inv, ResultInv, Truthful
<1>6. FramesOK(frames, enabled)'
  BY DEF FramesOK
<1>7. QED
  BY <1>1, <1>2, <1>3, <1>4, <1>5, <1>6 DEF Inv

LEMMA OpenStep ==
  ASSUME Inv, NEW boxes, NEW isEnabled, Under(boxes, isEnabled),
         NEW kind \in Kinds \ {"question"}, NEW command \in Commands,
         Open(boxes, isEnabled, kind, command),
         UNCHANGED <<runnerVars, accepted, pendingResult, window, running, latest, gui,
                     activeCommand, coding, pendingModel>>
  PROVE  Inv'
<1>1. /\ frames' \in Seq(Frames) /\ enabled' \in BOOLEAN
      /\ FramesOK(frames', enabled') /\ NoQuestion(frames')
      /\ window = "destroyed" => \A i \in DOMAIN frames' : frames'[i].answer # "open"
  BY OpenFacts
<1>2. QED
  BY <1>1, BoxesStep

LEMMA PopStep ==
  ASSUME Inv, frames # <<>>, Pop,
         UNCHANGED <<runnerVars, pendingResult, coding, pendingModel>>
  PROVE  Inv'
<1>1. Under(frames', enabled')
  BY BelowFacts DEF Pop
<1>2. QED
  BY <1>1, BoxesStep DEF Pop, Under

\* No command runs: nothing is left of the last one.
LEMMA IdleFacts ==
  ASSUME Inv, ~running
  PROVE  /\ coding = "none" /\ execution = "idle" /\ pendingResult = {}
         /\ gui # "joinCoding"
BY DEF Inv, CommandInv, HasResult

LEMMA AppliedFacts ==
  ASSUME Inv, NEW model \in Models \cup {NoModel}, NEW inProgress \in BOOLEAN
  PROVE  /\ Applied(model, inProgress) \in Models \cup {NoModel}
         /\ Applied(model, inProgress) # NoModel =>
              Applied(model, inProgress).inProgress = inProgress
<1>1. CASE model = NoModel
  BY <1>1 DEF Applied
<1>2. CASE model # NoModel
  <2>1. Applied(model, inProgress) = [model EXCEPT !.inProgress = inProgress]
    BY <1>2 DEF Applied
  <2>2. [model EXCEPT !.inProgress = inProgress] \in Models
    BY <1>2 DEF Models
  <2>3. [model EXCEPT !.inProgress = inProgress].inProgress = inProgress
    BY <1>2 DEF Models
  <2>4. QED
    BY <2>1, <2>2, <2>3
<1>3. QED
  BY <1>1, <1>2

LEMMA StartStep ==
  ASSUME Inv, NEW command \in Commands, NEW boxes, NEW isEnabled,
         Under(boxes, isEnabled), window # "destroyed",
         StartCodingCommand(command, boxes, isEnabled),
         UNCHANGED <<window, accepted, pendingModel, pendingResult>>
  PROVE  Inv'
<1>1. CASE running
  <2>1. /\ frames' = boxes /\ enabled' = isEnabled
        /\ UNCHANGED <<runnerVars, gui, latest, running, activeCommand, coding>>
    BY <1>1 DEF StartCodingCommand
  <2>2. QED
    BY <2>1, BoxesStep DEF Under
<1>2. CASE ~running
  <2>1. coding = "none" /\ execution = "idle" /\ pendingResult = {} /\ gui # "joinCoding"
    BY <1>2, IdleFacts
  <2>2. activeCommand' = command /\ gui' = gui
    BY <1>2, <2>1 DEF StartCodingCommand
  <2>3. /\ session \in Sessions /\ latest \in Models \cup {NoModel}
        /\ accepted \in Results /\ pendingModel \in Models \cup {NoModel}
        /\ child \in Children /\ result \in Results
    BY DEF Inv, TypeOK
  <2>4. CASE /\ running' = TRUE /\ latest' = Applied(latest, TRUE)
             /\ coding' = "executing" /\ Execute(command)
             /\ frames' = boxes /\ enabled' = isEnabled
    <3>1. /\ execution' = "launching" /\ session' = session
          /\ child' \in Children /\ child'.command = command /\ result' \in Results
      <4>1. NoChild \in Children /\ NoResult \in Results
        BY DEF NoChild, NoResult, Children, Results
      <4>2. /\ [NoChild EXCEPT !.command = command] \in Children
            /\ [NoChild EXCEPT !.command = command].command = command
        BY <4>1 DEF Children, Commands
      <4>3. QED
        BY <2>4, <4>1, <4>2 DEF Execute
    <3>2. /\ latest' \in Models \cup {NoModel}
          /\ latest' # NoModel => latest'.inProgress = running'
      BY <2>3, <2>4, AppliedFacts
    <3>3. TypeOK'
      BY <2>1, <2>2, <2>3, <2>4, <3>1, <3>2 DEF TypeOK, Under, Commands
    <3>4. CommandInv'
      BY <2>1, <2>2, <2>4 DEF CommandInv
    <3>5. FramesOK(frames, enabled)'
      BY <2>4 DEF Under, FramesOK
    <3>6. QuestionInv' /\ ClosedInv'
      BY <2>4 DEF Under, NoQuestion, QuestionInv, ClosedInv
    <3>7. ModelInv'
      BY <3>2 DEF ModelInv
    <3>8. ResultInv'
      BY <2>1, <2>2, <3>1 DEF ResultInv
    <3>9. QED
      BY <3>3, <3>4, <3>5, <3>6, <3>7, <3>8 DEF Inv
  <2>5. CASE /\ running' = FALSE /\ latest' = Applied(latest, FALSE)
             /\ Open(boxes, isEnabled, "notice", command)
             /\ UNCHANGED <<runnerVars, coding>>
    <3>1. /\ frames' \in Seq(Frames) /\ enabled' \in BOOLEAN
          /\ FramesOK(frames', enabled') /\ NoQuestion(frames')
      BY <2>5, OpenFacts DEF Kinds
    <3>2. /\ latest' \in Models \cup {NoModel}
          /\ latest' # NoModel => latest'.inProgress = running'
      BY <2>3, <2>5, AppliedFacts
    <3>3. TypeOK'
      BY <2>1, <2>2, <2>3, <2>5, <3>1, <3>2 DEF TypeOK, runnerVars, Commands
    <3>4. CommandInv'
      BY <2>1, <2>2, <2>5 DEF CommandInv, runnerVars
    <3>5. FramesOK(frames, enabled)'
      BY <3>1 DEF FramesOK
    <3>6. QuestionInv' /\ ClosedInv'
      BY <3>1 DEF NoQuestion, QuestionInv, ClosedInv
    <3>7. ModelInv'
      BY <3>2 DEF ModelInv
    <3>8. ResultInv'
      BY <2>1, <2>2, <2>5 DEF ResultInv, runnerVars
    <3>9. QED
      BY <3>3, <3>4, <3>5, <3>6, <3>7, <3>8 DEF Inv
  <2>6. QED
    BY <1>2, <2>4, <2>5 DEF StartCodingCommand
<1>3. QED
  BY <1>1, <1>2 DEF Inv, TypeOK

\* The window is destroyed only while no command runs.
LEMMA DestroyStep ==
  ASSUME Inv, ~running, window # "destroyed", DestroyWindow(frames)
  PROVE  Inv'
<1> DEFINE n == Len(frames)
<1>1. /\ frames \in Seq(Frames) /\ n \in Nat /\ DOMAIN frames = 1 .. n /\ TypeOK
      /\ QuestionInv /\ \A i \in 1 .. n : frames[i] \in Frames
  BY DEF Inv, TypeOK
<1>2. /\ window' = "destroyed" /\ gui' = "joinWorker"
      /\ frames' = [i \in 1 .. n |-> IF frames[i].answer = "open"
                                     THEN [frames[i] EXCEPT !.answer = "no"]
                                     ELSE frames[i]]
      /\ UNCHANGED <<runnerVars, enabled, latest, running, activeCommand, accepted,
                     pendingModel, pendingResult, coding>>
  BY <1>1 DEF DestroyWindow
<1>3. ASSUME NEW i \in 1 .. n
      PROVE  /\ frames'[i] \in Frames /\ frames'[i].answer # "open"
             /\ frames'[i].kind = frames[i].kind
             /\ frames'[i].disabler = frames[i].disabler
             /\ frames'[i].answer \in {frames[i].answer, "no"}
  <2>1. frames[i] \in Frames
    BY <1>1
  <2>2. frames'[i] = IF frames[i].answer = "open"
                     THEN [frames[i] EXCEPT !.answer = "no"] ELSE frames[i]
    BY <1>2
  <2>3. [frames[i] EXCEPT !.answer = "no"] \in Frames
    BY <2>1 DEF Frames
  <2>4. QED
    BY <2>1, <2>2, <2>3 DEF Frames
<1>4. frames' \in Seq(Frames) /\ Len(frames') = n /\ DOMAIN frames' = 1 .. n
  BY <1>1, <1>2, <1>3
<1>5. TypeOK'
  BY <1>1, <1>2, <1>4 DEF TypeOK, runnerVars
<1>6. CommandInv'
  BY <1>2, IdleFacts DEF CommandInv, runnerVars
<1>7. FramesOK(frames, enabled)'
  BY <1>3, <1>4 DEF FramesOK, Disables
<1>8. QuestionInv'
  <2> SUFFICES ASSUME NEW i \in 1 .. n, frames'[i].kind = "question"
               PROVE  i = n /\ ~running' /\ frames'[i].disabler /\ frames'[i].answer = "no"
    BY <1>2, <1>4 DEF QuestionInv
  <2>1. /\ i = n /\ frames[i].disabler /\ frames[i].answer \in {"open", "no"}
    BY <1>1, <1>3 DEF QuestionInv
  <2>2. QED
    BY <1>2, <1>3, <2>1 DEF runnerVars
<1>9. ClosedInv' /\ ModelInv'
  BY <1>2, <1>3, <1>4 DEF ClosedInv, ModelInv, Inv
<1>10. ResultInv'
  BY <1>2, IdleFacts DEF ResultInv, runnerVars
<1>11. QED
  BY <1>5, <1>6, <1>7, <1>8, <1>9, <1>10 DEF Inv
-----------------------------------------------------------------------------
\* While the window takes input, and while a command runs, there is no question.
LEMMA UnderAll ==
  ASSUME Inv, running \/ TakesInput
  PROVE  Under(frames, enabled)
<1>1. NoQuestion(frames)
  <2>1. CASE running
    BY <2>1 DEF Inv, QuestionInv, NoQuestion
  <2>2. CASE TakesInput
    BY <2>2 DEF Inv, QuestionInv, NoQuestion, FramesOK, Disables, TakesInput
  <2>3. QED
    BY <2>1, <2>2
<1>2. QED
  BY <1>1 DEF Under, Inv, TypeOK, ClosedInv

LEMMA ClickPrimaryStep ==
  ASSUME Inv, ClickPrimary
  PROVE  Inv'
<1>1. PICK command \in Commands : Open(frames, enabled, "question", command)
  BY DEF ClickPrimary, Commands
<1>2. /\ enabled /\ window # "destroyed" /\ Under(frames, enabled) /\ ~running
      /\ UNCHANGED <<runnerVars, accepted, pendingResult, window, running, latest, gui,
                     activeCommand, coding, pendingModel>>
  BY UnderAll DEF ClickPrimary, TakesInput
<1>3. /\ frames' \in Seq(Frames) /\ enabled' \in BOOLEAN /\ FramesOK(frames', enabled')
      /\ \A i \in DOMAIN frames' : frames'[i].kind = "question" =>
           i = Len(frames') /\ frames'[i].disabler /\ frames'[i].answer = "open"
  BY <1>1, <1>2, OpenFacts DEF Kinds
<1>4. QuestionInv'
  BY <1>2, <1>3 DEF QuestionInv
<1>5. QED
  BY <1>2, <1>3, <1>4, BoxesStep

LEMMA CloseStep ==
  ASSUME Inv, Close \/ ShowTrayMenu
  PROVE  Inv'
<1>1. window # "destroyed"
  BY DEF Close, ShowTrayMenu, TakesMessages
<1>2. CASE ~running /\ DestroyWindow(frames)
  BY <1>1, <1>2, DestroyStep
<1>3. CASE /\ running
           /\ Open(frames, enabled, "notice", "Enter")
           /\ UNCHANGED <<runnerVars, accepted, pendingResult, window, running, latest,
                          gui, activeCommand, coding, pendingModel>>
  <2>1. Under(frames, enabled)
    BY <1>3, UnderAll
  <2>2. QED
    BY <1>3, <2>1, OpenStep DEF Kinds, Commands
<1>4. QED
  BY <1>2, <1>3 DEF Close, ShowTrayMenu

\* A box that is answered below the top one is no question.
LEMMA AnswerBelowStep ==
  ASSUME Inv, AnswerBelow
  PROVE  Inv'
<1> DEFINE n == Len(frames)
<1>1. /\ frames \in Seq(Frames) /\ n \in Nat /\ DOMAIN frames = 1 .. n
      /\ \A j \in 1 .. n : frames[j] \in Frames
      /\ FramesOK(frames, enabled) /\ QuestionInv /\ enabled \in BOOLEAN
      /\ window # "destroyed"
      /\ UNCHANGED <<runnerVars, accepted, pendingResult, window, running, latest, gui,
                     activeCommand, coding, pendingModel>>
  BY DEF Inv, TypeOK, AnswerBelow, TakesMessages
<1>2. PICK i \in 1 .. n - 1, a \in {"yes", "no"} :
        /\ frames[i].answer = "open"
        /\ frames' = [frames EXCEPT ![i].answer = a]
        /\ enabled' = (enabled \/ frames[i].disabler)
  BY DEF AnswerBelow
<1>3. PICK box \in Frames :
        /\ frames' = [frames EXCEPT ![i] = box] /\ box.answer = a
        /\ box.kind = frames[i].kind
  <2>1. frames[i] \in Frames
    BY <1>1, <1>2
  <2>2. /\ [frames[i] EXCEPT !.answer = a] \in Frames
        /\ [frames[i] EXCEPT !.answer = a].answer = a
        /\ [frames[i] EXCEPT !.answer = a].kind = frames[i].kind
    BY <2>1 DEF Frames
  <2>3. QED
    BY <1>2, <2>2
<1>4. /\ frames' \in Seq(Frames) /\ Len(frames') = n /\ DOMAIN frames' = 1 .. n
      /\ frames'[i] = box /\ \A j \in (1 .. n) \ {i} : frames'[j] = frames[j]
  BY <1>1, <1>2, <1>3
<1>5. enabled' \in BOOLEAN /\ (frames[i].disabler <=> Disables(frames[i]))
  BY <1>1, <1>2 DEF Disables, Frames
<1>6. FramesOK(frames', enabled')
  <2> SUFFICES ASSUME NEW j \in 1 .. n, Disables(frames'[j])
               PROVE  ~enabled' /\ \A k \in (1 .. n) \ {j} : ~Disables(frames'[k])
    BY <1>4 DEF FramesOK
  <2>1. j # i /\ ~Disables(frames'[i])
    BY <1>3, <1>4 DEF Disables
  <2>2. Disables(frames[j])
    BY <1>4, <2>1
  <2>3. ~enabled /\ \A k \in (1 .. n) \ {j} : ~Disables(frames[k])
    BY <1>1, <2>2 DEF FramesOK
  <2>4. ~Disables(frames[i])
    BY <1>1, <1>2, <2>1, <2>3
  <2>5. QED
    BY <1>2, <1>4, <1>5, <2>1, <2>3, <2>4
<1>7. QuestionInv'
  <2> SUFFICES ASSUME NEW j \in 1 .. n, frames'[j].kind = "question"
               PROVE  /\ j = n /\ ~running /\ frames'[j].disabler
                      /\ \/ frames'[j].answer = "open"
                         \/ frames'[j].answer = "no" /\ window = "destroyed"
    BY <1>1, <1>4 DEF QuestionInv
  <2>1. frames[j].kind = "question"
    BY <1>3, <1>4
  <2>2. /\ j = n /\ ~running /\ frames[j].disabler
        /\ \/ frames[j].answer = "open"
           \/ frames[j].answer = "no" /\ window = "destroyed"
    BY <1>1, <2>1 DEF QuestionInv
  <2>3. j # i
    BY <1>1, <1>2, <2>2
  <2>4. QED
    BY <1>4, <2>2, <2>3
<1>8. QED
  BY <1>1, <1>4, <1>5, <1>6, <1>7, BoxesStep

LEMMA UserStep ==
  ASSUME Inv, User
  PROVE  Inv'
<1>1. pendingModel \in Models \cup {NoModel} /\ session \in Sessions
  BY DEF Inv, TypeOK
<1>2. CASE ClickRefresh
  BY <1>1, <1>2, Quiet DEF ClickRefresh, RequestRefresh, guiVars, runnerVars
<1>3. CASE Minimize \/ RestoreFromTray
  BY <1>1, <1>3, Quiet DEF Minimize, RestoreFromTray, TakesInput, TakesMessages,
    runnerVars
<1>4. CASE ClickRestore
  <2>1. Under(frames, enabled) /\ window # "destroyed"
    BY <1>4, UnderAll DEF ClickRestore, TakesInput
  <2>2. QED
    BY <1>4, <2>1, StartStep DEF ClickRestore, Commands
<1>5. QED
  BY <1>2, <1>3, <1>4, ClickPrimaryStep, CloseStep, AnswerBelowStep DEF User

LEMMA ReturnsStep ==
  ASSUME Inv, GuiReturns
  PROVE  Inv'
<1>1. CASE QuestionReturns
  <2>1. CASE /\ Returns("question", "yes")
             /\ StartCodingCommand(Top.command, Below, Enabled)
             /\ UNCHANGED <<window, trayIcon, accepted>>
    <3>1. /\ frames # <<>> /\ Top.kind = "question" /\ Top.answer \in {"open", "yes"}
          /\ Top.answer = "open" => window # "destroyed"
      BY <2>1 DEF Returns
    <3>2. Under(Below, Enabled) /\ Top.command \in Commands
      BY <3>1, BelowFacts DEF Frames, Commands
    <3>3. Top.answer # "yes"
      BY <3>1 DEF Inv, TypeOK, QuestionInv, Top
    <3>4. QED
      BY <1>1, <2>1, <3>1, <3>2, <3>3, StartStep DEF QuestionReturns
  <2>2. CASE Returns("question", "no") /\ Pop /\ UNCHANGED <<runnerVars, coding>>
    BY <1>1, <2>2, PopStep DEF QuestionReturns, Returns
  <2>3. QED
    BY <1>1, <2>1, <2>2 DEF QuestionReturns
<1>2. CASE NoticeReturns \/ ReportReturns
  BY <1>2, PopStep DEF NoticeReturns, ReportReturns, Returns
<1>3. QED
  BY <1>1, <1>2 DEF GuiReturns
-----------------------------------------------------------------------------
LEMMA AcceptPendingModelStep ==
  ASSUME Inv, AcceptPendingModel
  PROVE  Inv'
<1>1. /\ pendingModel' = NoModel
      /\ latest' = IF pendingModel = NoModel THEN latest
                   ELSE Applied(pendingModel, running)
      /\ UNCHANGED <<runnerVars, window, enabled, frames, gui, running, activeCommand,
                     accepted, pendingResult, coding>>
  BY DEF AcceptPendingModel
<1>2. /\ pendingModel \in Models \cup {NoModel} /\ running \in BOOLEAN
      /\ latest \in Models \cup {NoModel}
      /\ latest # NoModel => latest.inProgress = running
  BY DEF Inv, TypeOK, ModelInv
<1>3. /\ latest' \in Models \cup {NoModel}
      /\ latest' # NoModel => latest'.inProgress = running
  BY <1>1, <1>2, AppliedFacts
<1>4. TypeOK'
  BY <1>1, <1>3 DEF Inv, TypeOK, runnerVars
<1>5. CommandInv' /\ QuestionInv' /\ ClosedInv' /\ FramesOK(frames, enabled)'
  BY <1>1 DEF Inv, CommandInv, HasResult, QuestionInv, ClosedInv, FramesOK, Disables,
    runnerVars
<1>6. ModelInv' /\ ResultInv'
  BY <1>1, <1>3 DEF Inv, ModelInv, ResultInv, Truthful, runnerVars
<1>7. QED
  BY <1>4, <1>5, <1>6 DEF Inv

LEMMA TakeResultStep ==
  ASSUME Inv, TakeResult
  PROVE  Inv'
<1>1. /\ pendingResult' = {}
      /\ UNCHANGED <<runnerVars, window, enabled, frames, latest, running, activeCommand,
                     pendingModel, coding>>
      /\ gui # "joinCoding"
      /\ \/ accepted' = accepted /\ gui' = gui
         \/ pendingResult # {} /\ accepted' \in pendingResult /\ gui' = "joinCoding"
  BY DEF TakeResult, TakesMessages, Pumps
<1>2. TypeOK'
  BY <1>1 DEF Inv, TypeOK, runnerVars
<1>3. CommandInv' /\ QuestionInv' /\ ClosedInv' /\ FramesOK(frames, enabled)'
  BY <1>1 DEF Inv, CommandInv, HasResult, QuestionInv, ClosedInv, FramesOK, Disables,
    runnerVars
<1>4. ModelInv'
  BY <1>1 DEF Inv, ModelInv
<1>5. ResultInv'
  BY <1>1 DEF Inv, ResultInv, Truthful, runnerVars
<1>6. QED
  BY <1>2, <1>3, <1>4, <1>5 DEF Inv

LEMMA AcceptResultStep ==
  ASSUME Inv, AcceptCodingCommandResult
  PROVE  Inv'
<1>1. /\ gui = "joinCoding" /\ running' = FALSE /\ coding' = "none" /\ gui' = "pump"
      /\ latest' = Applied(latest, FALSE) /\ accepted' = NoResult
      /\ Forget /\ Open(frames, enabled, "report", "Enter")
      /\ UNCHANGED <<window, activeCommand, pendingModel, pendingResult>>
  BY DEF AcceptCodingCommandResult
<1>2. /\ coding = "ended" /\ execution = "idle" /\ running /\ pendingResult = {}
      /\ TypeOK
  BY DEF AcceptCodingCommandResult, Inv, CommandInv
<1>3. Under(frames, enabled)
  BY <1>2, UnderAll
<1>4. /\ frames' \in Seq(Frames) /\ enabled' \in BOOLEAN
      /\ FramesOK(frames', enabled') /\ NoQuestion(frames')
      /\ window = "destroyed" => \A i \in DOMAIN frames' : frames'[i].answer # "open"
  BY <1>1, <1>3, OpenFacts DEF Kinds, Commands
<1>5. /\ latest' \in Models \cup {NoModel}
      /\ latest' # NoModel => latest'.inProgress = running'
  BY <1>1, <1>2, AppliedFacts DEF TypeOK
<1>6. /\ NoChild \in Children /\ NoResult \in Results
      /\ child' = NoChild /\ UNCHANGED <<execution, result, session>>
  BY <1>1 DEF NoChild, NoResult, Children, Results, Forget
<1>7. TypeOK'
  BY <1>1, <1>2, <1>4, <1>5, <1>6 DEF TypeOK
<1>8. CommandInv'
  BY <1>1, <1>2, <1>6 DEF CommandInv
<1>9. QuestionInv' /\ ClosedInv' /\ FramesOK(frames, enabled)'
  BY <1>1, <1>4 DEF NoQuestion, QuestionInv, ClosedInv, FramesOK
<1>10. ModelInv' /\ ResultInv'
  BY <1>1, <1>2, <1>5, <1>6 DEF ModelInv, ResultInv
<1>11. QED
  BY <1>7, <1>8, <1>9, <1>10 DEF Inv
-----------------------------------------------------------------------------
\* A step of Execute or of the child: only its variables change.
LEMMA RunnerStep ==
  ASSUME Inv,
         UNCHANGED <<guiVars, pendingModel, pendingResult, coding>>,
         execution' = execution \/ coding = "executing",
         execution' \in {"idle", "launching", "reading", "waiting", "returned"},
         child' \in Children, result' \in Results, session' \in Sessions,
         ResultInv'
  PROVE  Inv'
<1>1. TypeOK'
  BY DEF Inv, TypeOK, guiVars
<1>2. CommandInv'
  BY DEF Inv, CommandInv, HasResult, guiVars
<1>3. QuestionInv' /\ ClosedInv' /\ FramesOK(frames, enabled)'
  BY DEF Inv, QuestionInv, ClosedInv, FramesOK, Disables, guiVars
<1>4. ModelInv'
  BY DEF Inv, ModelInv, guiVars
<1>5. QED
  BY <1>1, <1>2, <1>3, <1>4 DEF Inv

LEMMA ExecutionStep ==
  ASSUME Inv, Execution
  PROVE  Inv'
<1>1. /\ coding = "executing" /\ ThreadStep
      /\ UNCHANGED <<guiVars, pendingModel, pendingResult, coding>>
  BY DEF Execution
<1>2. /\ child \in Children /\ result \in Results /\ session \in Sessions
      /\ pendingResult = {} /\ gui # "joinCoding" /\ child.command = activeCommand
  BY <1>1 DEF Inv, TypeOK, CommandInv, HasResult, ResultInv
<1>3. NoResult \in Results /\ session' = session
  BY <1>1 DEF NoResult, Results, ThreadStep, LaunchFails, Launch, ReadChunk, ReadEnds,
    ReadFails, WaitEnds
<1>4. CASE LaunchFails
  <2>1. /\ execution' = "returned" /\ child' = child
        /\ result' = [NoResult EXCEPT !.error = TRUE]
    BY <1>4 DEF LaunchFails
  <2>2. result' \in Results /\ result'.error
    BY <1>3, <2>1 DEF Results
  <2>3. ResultInv'
    BY <1>1, <1>2, <2>1, <2>2 DEF ResultInv, Truthful, Succeeded, guiVars
  <2>4. QED
    BY <1>1, <1>2, <1>3, <2>1, <2>2, <2>3, RunnerStep
<1>5. CASE Launch
  <2>1. /\ execution' = "reading" /\ child' = [child EXCEPT !.state = "running"]
        /\ result' = [NoResult EXCEPT !.launched = TRUE]
    BY <1>5 DEF Launch
  <2>2. child' \in Children /\ child'.command = child.command /\ result' \in Results
    BY <1>2, <1>3, <2>1 DEF Results, Children
  <2>3. ResultInv'
    BY <1>1, <1>2, <2>1, <2>2 DEF ResultInv, guiVars
  <2>4. QED
    BY <1>1, <1>2, <1>3, <2>1, <2>2, <2>3, RunnerStep
<1>6. CASE ReadChunk \/ ReadEnds \/ ReadFails
  <2>1. execution' \in {"reading", "waiting"} /\ child' = child
    BY <1>6 DEF ReadChunk, ReadEnds, ReadFails
  <2>2. result' \in Results
    <3>1. [result EXCEPT !.error = TRUE] \in Results
      BY <1>2 DEF Results
    <3>2. QED
      BY <1>2, <1>6, <3>1 DEF ReadChunk, ReadEnds, ReadFails
  <2>3. ResultInv'
    BY <1>1, <1>2, <2>1 DEF ResultInv, guiVars
  <2>4. QED
    BY <1>1, <1>2, <1>3, <2>1, <2>2, <2>3, RunnerStep
<1>7. CASE WaitEnds
  <2>1. /\ execution' = "returned" /\ child' = child /\ child.state = "exited"
        /\ result' = [result EXCEPT !.exit = child.exit]
    BY <1>7 DEF WaitEnds
  <2>2. result' \in Results /\ result'.exit = child.exit
    BY <1>2, <2>1 DEF Results, Children
  <2>3. child.exit = 0 =>
          child = [state |-> "exited", command |-> activeCommand, exit |-> 0]
    BY <1>2, <2>1 DEF Children
  <2>4. ResultInv'
    BY <1>1, <1>2, <2>1, <2>2, <2>3 DEF ResultInv, Truthful, Succeeded, guiVars
  <2>5. QED
    BY <1>1, <1>2, <1>3, <2>1, <2>2, <2>4, RunnerStep
<1>8. QED
  BY <1>1, <1>4, <1>5, <1>6, <1>7 DEF ThreadStep

\* A child that still acts has not exited: no result that is there says success.
LEMMA ChildActionStep ==
  ASSUME Inv, Child
  PROVE  Inv'
<1>1. /\ ChildStep /\ UNCHANGED <<guiVars, pendingModel, pendingResult, coding>>
  BY DEF Child
<1>2. /\ execution' = execution /\ result' = result
  BY <1>1 DEF ChildStep, ChildWrites, ChildActs, ChildCloses, ChildExits
<1>3. child \in Children /\ result \in Results /\ session \in Sessions /\ ResultInv
  BY DEF Inv, TypeOK
<1>4. CASE ChildWrites \/ ChildCloses
  <2>1. child' = child /\ session' = session
    BY <1>4 DEF ChildWrites, ChildCloses
  <2>2. ResultInv'
    BY <1>1, <1>2, <1>3, <2>1 DEF ResultInv, Truthful, guiVars
  <2>3. QED
    BY <1>1, <1>2, <1>3, <2>1, <2>2, RunnerStep DEF Inv, TypeOK
<1>5. CASE ChildActs \/ ChildExits
  <2>1. child.state \in {"running", "acted"}
    BY <1>5 DEF ChildActs, ChildExits
  <2>2. child' \in Children /\ child'.command = child.command /\ session' \in Sessions
    <3>1. CASE ChildActs
      <4>1. PICK e \in Effects(child.command) :
              /\ session' = e[1] /\ child' = [child EXCEPT !.state = "acted", !.exit = e[2]]
        BY <3>1 DEF ChildActs
      <4>2. e[1] \in Sessions /\ e[2] \in {0, 1}
        BY <1>3, <4>1 DEF Effects
      <4>3. PICK exit \in {0, 1} : exit = e[2]
        BY <4>2
      <4>4. /\ [child EXCEPT !.state = "acted", !.exit = exit] \in Children
            /\ [child EXCEPT !.state = "acted", !.exit = exit].command = child.command
        BY <1>3 DEF Children
      <4>5. QED
        BY <4>1, <4>2, <4>3, <4>4
    <3>2. CASE ChildExits
      <4>1. /\ [child EXCEPT !.state = "exited"] \in Children
            /\ [child EXCEPT !.state = "exited"].command = child.command
        BY <1>3 DEF Children
      <4>2. QED
        BY <1>3, <3>2, <4>1 DEF ChildExits
    <3>3. QED
      BY <1>5, <3>1, <3>2
  <2>3. \A r \in Results : Truthful(r) => ~Succeeded(r)
    BY <2>1 DEF Truthful
  <2>4. /\ accepted \in Results /\ pendingResult \in SUBSET Results
    BY DEF Inv, TypeOK
  <2>5. ResultInv'
    BY <1>1, <1>2, <1>3, <2>2, <2>3, <2>4 DEF ResultInv, Truthful, guiVars
  <2>6. QED
    BY <1>1, <1>2, <1>3, <2>2, <2>5, RunnerStep DEF Inv, TypeOK
<1>6. QED
  BY <1>1, <1>4, <1>5 DEF ChildStep

LEMMA ThreadStepInv ==
  ASSUME Inv, StoreResult \/ PostResult \/ ThreadEnds
  PROVE  Inv'
<1>1. UNCHANGED <<guiVars, child, session, pendingModel>>
  BY DEF StoreResult, PostResult, ThreadEnds, runnerVars
<1>2. /\ HasResult' /\ coding' # "executing" /\ coding # "none" /\ coding' # "none"
      /\ execution' = "idle"
      /\ gui = "joinCoding" => pendingResult' = pendingResult
      /\ result' \in Results
      /\ \/ pendingResult' = pendingResult
         \/ execution = "returned" /\ pendingResult' = {result}
  <2>1. CASE StoreResult
    <3>1. gui # "joinCoding"
      BY <2>1 DEF StoreResult, HasResult, Inv, CommandInv
    <3>2. NoResult \in Results
      BY DEF NoResult, Results
    <3>3. QED
      BY <2>1, <3>1, <3>2 DEF StoreResult, HasResult
  <2>2. CASE PostResult \/ ThreadEnds
    <3>1. /\ coding \in {"stored", "posted"} /\ coding' \in {"posted", "ended"}
          /\ pendingResult' = pendingResult /\ execution' = execution /\ result' = result
      BY <2>2 DEF PostResult, ThreadEnds, runnerVars
    <3>2. execution = "idle" /\ result \in Results
      BY <3>1 DEF Inv, CommandInv, TypeOK
    <3>3. QED
      BY <3>1, <3>2 DEF HasResult
  <2>3. QED
    BY <2>1, <2>2
<1>3. TypeOK'
  BY <1>1, <1>2 DEF Inv, TypeOK, guiVars
<1>4. CommandInv'
  BY <1>1, <1>2 DEF Inv, CommandInv, guiVars
<1>5. QuestionInv' /\ ClosedInv' /\ FramesOK(frames, enabled)'
  BY <1>1 DEF Inv, QuestionInv, ClosedInv, FramesOK, Disables, guiVars
<1>6. ModelInv'
  BY <1>1 DEF Inv, ModelInv, guiVars
<1>7. ResultInv'
  BY <1>1, <1>2 DEF Inv, ResultInv, Truthful, guiVars
<1>8. QED
  BY <1>3, <1>4, <1>5, <1>6, <1>7 DEF Inv

\* The worker thread gives the GUI only models to come.
LEMMA WorkerStep ==
  ASSUME Inv, WorkerThread \/ Terminal \/ JoinWorker \/ Exit
  PROVE  Inv'
<1>1. /\ UNCHANGED <<execution, child, result, accepted, pendingResult, frames, enabled,
                     running, latest, activeCommand, coding, window>>
      /\ gui' = gui \/ gui' # "joinCoding"
  BY DEF WorkerThread, Terminal, JoinWorker, Exit, StartWorker, LoopTop, Block, TimeOut,
    TakeRequest, PresentModel, WorkerLocal, CommandElsewhere, guiVars, runnerVars
<1>2. session' \in Sessions
  BY DEF Inv, TypeOK, WorkerThread, Terminal, JoinWorker, Exit, StartWorker, LoopTop,
    Block, TimeOut, TakeRequest, PresentModel, WorkerLocal, CommandElsewhere, runnerVars
<1>3. pendingModel' \in Models \cup {NoModel}
  <2>1. pendingModel \in Models \cup {NoModel} /\ session \in Sessions
    BY DEF Inv, TypeOK
  <2>2. \A seen \in Sessions \cup {"unknown"} :
          [session |-> seen, inProgress |-> FALSE] \in Models
    BY DEF Models
  <2>3. CASE StartWorker \/ PresentModel
    BY <2>1, <2>2, <2>3 DEF StartWorker, PresentModel, PostModel
  <2>4. CASE ~(StartWorker \/ PresentModel)
    BY <2>1, <2>4 DEF WorkerThread, Terminal, JoinWorker, Exit, LoopTop, Block, TimeOut,
      TakeRequest, WorkerLocal
  <2>5. QED
    BY <2>3, <2>4
<1>4. QED
  BY <1>1, <1>2, <1>3, Quiet

LEMMA InvInit == Init => Inv
<1> SUFFICES ASSUME Init PROVE Inv
  OBVIOUS
<1>1. TypeOK
  <2>1. NoChild \in Children /\ NoResult \in Results
    BY DEF NoChild, NoResult, Children, Results
  <2>2. session \in Sessions
    BY RunnerAssumption DEF Init, RunnerInit
  <2>3. frames \in Seq(Frames)
    BY DEF Init
  <2>4. QED
    BY <2>1, <2>2, <2>3 DEF Init, RunnerInit, TypeOK
<1>2. QED
  BY <1>1 DEF Init, RunnerInit, Inv, CommandInv, HasResult, FramesOK, QuestionInv,
    ClosedInv, ModelInv, ResultInv

LEMMA InvStep == Inv /\ [Next]_vars => Inv'
<1>1. Inv /\ UNCHANGED vars => Inv'
  BY Quiet DEF vars, guiVars, runnerVars, Inv, TypeOK
<1>2. QED
  BY <1>1, UserStep, ReturnsStep, AcceptPendingModelStep, TakeResultStep,
    AcceptResultStep, WorkerStep, ExecutionStep, ChildActionStep, ThreadStepInv
    DEF Next, CodingThread

\* Inv is an invariant, for every depth of boxes and every number of commands.
THEOREM InductiveInvariant == Spec => []Inv
BY InvInit, InvStep, PTL DEF Spec

\* The window goes only while no command runs, however boxes are nested.
THEOREM AlwaysClosedIdle == Spec => []ClosedMeansIdle
<1>1. Inv => ClosedMeansIdle
  BY DEF Inv, ClosedInv, ClosedMeansIdle
<1>2. QED
  BY <1>1, InductiveInvariant, PTL

\* The pages say that an operation is in progress exactly while one is.
THEOREM ProgressIsAlwaysTrue == Spec => []ProgressIsTrue
<1>1. Inv => ProgressIsTrue
  BY DEF Inv, ModelInv, ProgressIsTrue
<1>2. QED
  BY <1>1, InductiveInvariant, PTL

\* Success is reported only of the command that was asked for, after its process
\* has ended with success.
THEOREM AlwaysReportsWhatHappened == Spec => ReportsWhatHappened
<1> DEFINE A == gui = "joinCoding" /\ gui' = "pump" /\ Succeeded(accepted) =>
                  child = [state |-> "exited", command |-> activeCommand, exit |-> 0]
<1>1. Inv => A
  BY DEF Inv, ResultInv, Truthful
<1>2. QED
  BY <1>1, InductiveInvariant, PTL DEF Spec, ReportsWhatHappened
=============================================================================
