------------------------------ MODULE SharedFiles ------------------------------
(***************************************************************************)
(* active_session.json between processes: `coding enter`, `coding exit`    *)
(* and the dashboard's worker look for it, load it, replace it and remove  *)
(* it, and nothing keeps two of them apart.  AtomicWriteUtf8 writes        *)
(* "<path>.tmp", one name for all processes, and moves it into place.      *)
(*                                                                         *)
(* The C++ runtimes on Windows open a file so that others may read and     *)
(* write but neither move nor remove it (no FILE_SHARE_DELETE): a reader   *)
(* of the session makes a save fail, and so does a second writer of the    *)
(* temporary file.                                                         *)
(*                                                                         *)
(* A text is a sequence of blocks, each with its session and version; a    *)
(* text that is not one saved text from its first block to its last is     *)
(* not loaded.                                                             *)
(***************************************************************************)
EXTENDS Naturals, Sequences

CONSTANTS
  Users,                  \* processes; the session a process begins has its name
  Tasks,                  \* what a process may have been started for
  Lengths,                \* how many blocks the texts of a session have
  Saves,                  \* bound: how often a command saves
  MaxFaults               \* bound: commands ended by force, failed writes

AllTasks == {"idle", "enter", "exit", "show"}

ASSUME FilesAssumption ==
  /\ Tasks \in [Users -> SUBSET AllTasks]
  /\ Lengths \in [Users -> Nat \ {0}]
  /\ Saves \in Nat \ {0} /\ MaxFaults \in Nat

VARIABLES
  file,                   \* the texts of the session and of the report, or NoText
  temporary,              \* the same for their temporary files
  user,                   \* the processes
  faults,                 \* commands ended by force and failed writes so far
  crowded                 \* two processes were writing one file at the same time

fileVars == <<file, temporary, user, faults, crowded>>

Paths == {"active", "report"}
NoSession == "none"
NoText == <<<<NoSession, 0>>>>
Text(s, version) == [i \in 1 .. Lengths[s] |-> <<s, version>>]
SessionOf(text) == text[1][1]
VersionOf(text) == text[1][2]
IsWhole(text) == text # <<>> /\ text = Text(SessionOf(text), VersionOf(text))

Writing(p, path) == user[p].path = path /\ user[p].pc \in {"write", "close"}
MidSave(p, path) == user[p].path = path /\ user[p].pc \in {"write", "close", "move"}
Reading(p) == user[p].pc = "read"
Others(p) == Users \ {p}

FilesInit ==
  /\ file = [path \in Paths |-> NoText]
  /\ temporary = [path \in Paths |-> NoText]
  /\ user \in [Users ->
       [task : AllTasks, pc : {"start"}, path : {"active"},
        session : {NoSession}, version : {0}, saves : {0}, stale : {FALSE}]]
  /\ \A p \in Users : user[p].task \in Tasks[p]
  /\ faults = 0 /\ crowded = FALSE

At(p, pc) == user[p].pc = pc
Goes(p, pc) == user' = [user EXCEPT ![p].pc = pc]
Exists(path) == file[path] # NoText

-----------------------------------------------------------------------------
\* Mutant of Enter: EnterCodingMode does not mind a session that is there.
EnterUnchecked(p) ==
  /\ user[p].task = "enter" /\ At(p, "start")
  /\ user' = [user EXCEPT ![p].pc = "save", ![p].session = p,
                          ![p].version = 1, ![p].stale = FALSE]
  /\ UNCHANGED <<file, temporary, faults, crowded>>

\* EnterCodingMode: a session file that is there ends the command.  Otherwise
\* it captures, plans, asks and saves a new session.
Enter(p) ==
  /\ user[p].task = "enter" /\ At(p, "start")
  /\ IF Exists("active")
       THEN Goes(p, "done")
       ELSE user' = [user EXCEPT ![p].pc = "save", ![p].session = p,
                                 ![p].version = 1, ![p].stale = FALSE]
  /\ UNCHANGED <<file, temporary, faults, crowded>>

\* RestoreSession and the worker's look before LoadActive.
Look(p) ==
  /\ user[p].task \in {"exit", "show"} /\ At(p, "start")
  /\ Exists("active")
  /\ Goes(p, "open")
  /\ UNCHANGED <<file, temporary, faults, crowded>>

\* ReadUtf8 opens the file; it may be gone by now.
OpenSession(p) ==
  /\ At(p, "open")
  /\ IF Exists("active")
       THEN Goes(p, "read")
       ELSE Goes(p, IF user[p].task = "show" THEN "start" ELSE "done")
  /\ UNCHANGED <<file, temporary, faults, crowded>>

\* ReadUtf8 reads and closes it, and Deserialize takes it or not.  The worker
\* shows what it has and looks again later; the command goes on and saves.
LoadSession(p) ==
  LET text == file["active"]
      whole == IsWhole(text)
  IN  /\ At(p, "read")
      /\ user' = [user EXCEPT ![p] =
           IF user[p].task = "show"
             THEN [@ EXCEPT !.pc = "start"]
             ELSE IF whole
             THEN [@ EXCEPT !.pc = "save", !.stale = FALSE,
                            !.session = SessionOf(text), !.version = VersionOf(text) + 1]
             ELSE [@ EXCEPT !.pc = "done"]]
      /\ UNCHANGED <<file, temporary, faults, crowded>>

-----------------------------------------------------------------------------
\* Mutant of OpenTemporary: the temporary file is not emptied.
OpenTemporaryKeeps(p) ==
  LET path == user[p].path
  IN  /\ At(p, "save")
      /\ Goes(p, "write")
      /\ crowded' = (crowded \/ \E q \in Others(p) : MidSave(q, path))
      /\ UNCHANGED <<file, temporary, faults>>

\* AtomicWriteUtf8: the temporary file is opened and emptied.
OpenTemporary(p) ==
  LET path == user[p].path
  IN  /\ At(p, "save")
      /\ temporary' = [temporary EXCEPT ![path] = <<>>]
      /\ Goes(p, "write")
      /\ crowded' = (crowded \/ \E q \in Others(p) : MidSave(q, path))
      /\ UNCHANGED <<file, faults>>

\* The text is written from the beginning over what another process wrote.
Over(text, old) ==
  IF old = NoText \/ Len(old) <= Len(text) THEN text
  ELSE text \o SubSeq(old, Len(text) + 1, Len(old))

WriteTemporary(p) ==
  LET path == user[p].path
      text == Text(user[p].session, user[p].version)
  IN  /\ At(p, "write")
      /\ temporary' = [temporary EXCEPT ![path] = Over(text, @)]
      /\ Goes(p, "close")
      /\ UNCHANGED <<file, faults, crowded>>

\* The temporary file cannot be opened, or takes only a part of the text, as on
\* a full disk: it is left as it is, and the command ends in Safe Mode.
WriteFails(p) ==
  LET path == user[p].path
      text == Text(user[p].session, user[p].version)
  IN  /\ faults < MaxFaults
      /\ faults' = faults + 1
      /\ \/ At(p, "save") /\ UNCHANGED temporary
         \/ /\ At(p, "write")
            /\ \E n \in 0 .. Len(text) :
                 temporary' = [temporary EXCEPT ![path] = Over(SubSeq(text, 1, n), @)]
      /\ Goes(p, "failed")
      /\ UNCHANGED <<file, crowded>>

CloseTemporary(p) ==
  /\ At(p, "close")
  /\ Goes(p, "move")
  /\ UNCHANGED <<file, temporary, faults, crowded>>

\* Where a command goes after a save: enter saves again after each action, exit
\* writes the report and then removes the session.
AfterSave(p) ==
  LET u == user[p]
      next == [u EXCEPT !.saves = @ + 1, !.version = @ + 1, !.pc = "save"]
  IN  IF u.path = "report" THEN [u EXCEPT !.path = "active", !.pc = "remove"]
      ELSE IF u.saves + 1 < Saves THEN next
      ELSE IF u.task = "exit" THEN [u EXCEPT !.path = "report", !.pc = "save"]
      ELSE [u EXCEPT !.pc = "done"]

\* The file changes under whoever has looked at it; the others' knowledge of it
\* is stale from here on.
Changed(p, next) ==
  user' = IF user[p].path = "active"
          THEN [q \in Users |-> IF q = p THEN [next EXCEPT !.stale = FALSE]
                                ELSE [user[q] EXCEPT !.stale = TRUE]]
          ELSE [user EXCEPT ![p] = next]

\* MoveFileExW needs to delete the source and to replace the target.
CanMove(p, path) ==
  /\ temporary[path] # NoText
  /\ \A q \in Others(p) : ~Writing(q, path)
  /\ path = "active" => \A q \in Others(p) : ~Reading(q)

\* Mutant of Move: MOVEFILE_REPLACE_EXISTING is not given.
MoveOnce(p) ==
  LET path == user[p].path
  IN  /\ At(p, "move") /\ CanMove(p, path)
      /\ IF Exists(path)
           THEN Goes(p, "failed") /\ UNCHANGED file
           ELSE /\ file' = [file EXCEPT ![path] = temporary[path]]
                /\ Changed(p, AfterSave(p))
      /\ temporary' = [temporary EXCEPT ![path] = NoText]
      /\ UNCHANGED <<faults, crowded>>

Move(p) ==
  LET path == user[p].path
  IN  /\ At(p, "move") /\ CanMove(p, path)
      /\ file' = [file EXCEPT ![path] = temporary[path]]
      /\ temporary' = [temporary EXCEPT ![path] = NoText]
      /\ Changed(p, AfterSave(p))
      /\ UNCHANGED <<faults, crowded>>

\* The temporary file is deleted, if it can be, and the command ends in Safe
\* Mode with what was on disk before.
MoveFails(p) ==
  LET path == user[p].path
      deletes == \A q \in Others(p) : ~Writing(q, path)
  IN  /\ At(p, "move") /\ ~CanMove(p, path)
      /\ temporary' = IF deletes THEN [temporary EXCEPT ![path] = NoText] ELSE temporary
      /\ Goes(p, "failed")
      /\ UNCHANGED <<file, faults, crowded>>

\* Complete removes the session, if nobody reads it; a session that is gone
\* already is no error.
Remove(p) ==
  /\ At(p, "remove")
  /\ file' = IF \E q \in Others(p) : Reading(q) THEN file
             ELSE [file EXCEPT !["active"] = NoText]
  /\ Changed(p, [user[p] EXCEPT !.pc = "done"])
  /\ UNCHANGED <<temporary, faults, crowded>>

\* A command is ended by force.
Crash(p) ==
  /\ user[p].task \in {"enter", "exit"} /\ user[p].pc \notin {"start", "done", "failed"}
  /\ faults < MaxFaults
  /\ faults' = faults + 1
  /\ Goes(p, "done")
  /\ UNCHANGED <<file, temporary, crowded>>

FileStep(p) ==
  \/ Enter(p) \/ Look(p) \/ OpenSession(p) \/ LoadSession(p)
  \/ OpenTemporary(p) \/ WriteTemporary(p) \/ WriteFails(p) \/ CloseTemporary(p)
  \/ Move(p) \/ MoveFails(p) \/ Remove(p) \/ Crash(p)

FilesNext == \E p \in Users : FileStep(p)

FilesSpec == FilesInit /\ [][FilesNext]_fileVars

-----------------------------------------------------------------------------
\* Whatever processes read, write, fail or are ended meanwhile, the session
\* file is one saved text, unless two processes were saving at the same time.
WholeUnlessCrowded == ~crowded /\ Exists("active") => IsWhole(file["active"])

\* A command that nobody disturbs between its look at the file and its saves
\* never loses a session: what it replaces is an older text of the session it
\* saves, and what it removes is that session.  A dashboard that reads and a
\* command that is ended by force before do not disturb it.
ReplacedByItsSuccessor ==
  [][\A p \in Users :
       /\ At(p, "move") \/ At(p, "remove")
       /\ file'["active"] # file["active"] /\ Exists("active")
       /\ ~crowded /\ ~user[p].stale
       => /\ SessionOf(file["active"]) = user[p].session
          /\ VersionOf(file["active"]) <= user[p].version]_fileVars

\* A text that has been written is moved into place unless somebody reads the
\* session at that moment or two processes were saving at the same time; nothing
\* that one command leaves behind, also when it is ended by force or cannot
\* write, makes a later save fail.
SaveFailsOnlyByOthers ==
  [][\A p \in Users :
       At(p, "move") /\ user'[p].pc = "failed"
       => crowded \/ \E q \in Others(p) : Reading(q)]_fileVars

=============================================================================
