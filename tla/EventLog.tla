------------------------------- MODULE EventLog -------------------------------
(***************************************************************************)
(* The local event log (Logger) as several WorkBoost processes use it: the *)
(* dashboard, the commands it starts and commands in a terminal write to   *)
(* one workboost.log, and each counts in current_size_ only what it found  *)
(* when it started and what it has written itself.                         *)
(*                                                                         *)
(* A stream that is open keeps others from renaming or removing its file:  *)
(* the C++ runtimes on Windows open a file without FILE_SHARE_DELETE.  An  *)
(* event has size one; the log holds Limit of them (kMaximumLogBytes).     *)
(***************************************************************************)
EXTENDS Naturals, Sequences, FiniteSetsExt

CONSTANTS
  Processes,              \* processes that can run at the same time
  Limit,                  \* kMaximumLogBytes
  MaxStarts,              \* bound: how often a process starts
  MaxEvents               \* bound: how many events are logged

ASSUME LogAssumption ==
  /\ IsFiniteSet(Processes)
  /\ Limit \in Nat \ {0}
  /\ MaxStarts \in Nat
  /\ MaxEvents \in Nat

VARIABLES
  log,                    \* the events in workboost.log, or NoLog
  backup,                 \* the events in workboost.1.log, or NoLog
  logger,                 \* each process's Logger
  events,                 \* events written so far; they are numbered
  dropped,                \* events that reached no file
  starts,                 \* starts that are left
  clashed                 \* a rotation went on while another process logged

logVars == <<log, backup, logger, events, dropped, starts, clashed>>

NoLog == <<0>>
OnDisk(file) == file # NoLog
Events(file) == IF OnDisk(file) THEN {file[i] : i \in DOMAIN file} ELSE {}

Off == [pc |-> "off", size |-> 0, writing |-> FALSE, renamed |-> FALSE]

Opened(p) == logger[p].pc = "open"
OpenedByOthers(p) == \E q \in Processes \ {p} : Opened(q)
RunningOthers(p) == \E q \in Processes \ {p} : logger[q].pc # "off"

LogInit ==
  /\ log = NoLog /\ backup = NoLog
  /\ logger = [p \in Processes |-> Off]
  /\ events = 0 /\ dropped = 0
  /\ starts \in {0, MaxStarts}
  /\ clashed = FALSE

-----------------------------------------------------------------------------
\* Initialize: the size of the file that is there decides whether to rotate.
Initialize(p) ==
  LET size == IF OnDisk(log) THEN Len(log) ELSE 0
  IN  /\ logger[p].pc = "off" /\ starts > 0
      /\ starts' = starts - 1
      /\ logger' = [logger EXCEPT ![p] =
           [Off EXCEPT !.pc = IF size >= Limit THEN "remove" ELSE "sized",
                       !.size = size]]
      /\ UNCHANGED <<log, backup, events, dropped, clashed>>

\* The file may have grown, or been rotated, since it was sized.
OpenLog(p) ==
  /\ logger[p].pc = "sized"
  /\ log' = IF OnDisk(log) THEN log ELSE <<>>
  /\ logger' = [logger EXCEPT ![p].pc = "open"]
  /\ UNCHANGED <<backup, events, dropped, starts, clashed>>

\* Mutant of IsFull: the event alone is compared with the limit.
IsFullByItself(size) == Limit < 1

\* current_size_ != 0 and the event does not fit into the rest.
IsFull(size) == size # 0 /\ 1 > Limit - Min({size, Limit})

Pending == Cardinality({p \in Processes : logger[p].writing})
MayWrite(p) == Opened(p) /\ events + dropped + Pending < MaxEvents

\* Write, when the event fits.
Write(p) ==
  /\ MayWrite(p) /\ ~IsFull(logger[p].size)
  /\ logger' = [logger EXCEPT ![p].size = @ + 1]
  /\ events' = events + 1
  /\ log' = Append(log, events')
  /\ UNCHANGED <<backup, dropped, starts, clashed>>

\* Write, when the log is to be rotated first.
WriteRotates(p) ==
  /\ MayWrite(p) /\ IsFull(logger[p].size)
  /\ logger' = [logger EXCEPT ![p].pc = "remove", ![p].writing = TRUE]
  /\ UNCHANGED <<log, backup, events, dropped, starts, clashed>>

-----------------------------------------------------------------------------
\* RotateLocked, whose stream is closed: the backup goes first.
RemoveBackup(p) ==
  /\ logger[p].pc = "remove"
  /\ backup' = NoLog
  /\ logger' = [logger EXCEPT ![p].pc = "rename"]
  /\ clashed' = (clashed \/ RunningOthers(p))
  /\ UNCHANGED <<log, events, dropped, starts>>

\* The backup cannot be removed: the log stays, and the event is lost.
RemoveFails(p) ==
  /\ logger[p].pc = "remove"
  /\ logger' = [logger EXCEPT ![p].pc = "reopen"]
  /\ UNCHANGED <<log, backup, events, dropped, starts, clashed>>

\* Mutant of RenameLog: the old log is not kept.
RenameLogAway(p) ==
  LET renames == OnDisk(log) /\ ~OpenedByOthers(p)
  IN  /\ logger[p].pc = "rename"
      /\ log' = IF renames THEN NoLog ELSE log
      /\ logger' = [logger EXCEPT ![p].pc = "reopen", ![p].renamed = renames]
      /\ clashed' = (clashed \/ RunningOthers(p))
      /\ UNCHANGED <<backup, events, dropped, starts>>

\* It cannot be renamed when it is gone or somebody else has it open.
RenameLog(p) ==
  LET renames == OnDisk(log) /\ ~OpenedByOthers(p)
  IN  /\ logger[p].pc = "rename"
      /\ log' = IF renames THEN NoLog ELSE log
      /\ backup' = IF renames THEN log ELSE backup
      /\ logger' = [logger EXCEPT ![p].pc = "reopen", ![p].renamed = renames]
      /\ clashed' = (clashed \/ RunningOthers(p))
      /\ UNCHANGED <<events, dropped, starts>>

\* The stream is opened again in each case.
Reopened(p, writes, size) ==
  LET file == IF OnDisk(log) THEN log ELSE <<>>
  IN  /\ logger[p].pc = "reopen"
      /\ events' = IF writes THEN events + 1 ELSE events
      /\ log' = IF writes THEN Append(file, events') ELSE file
      /\ dropped' = IF logger[p].writing /\ ~writes THEN dropped + 1 ELSE dropped
      /\ logger' = [logger EXCEPT ![p] =
           [Off EXCEPT !.pc = "open", !.size = IF writes THEN size + 1 ELSE size]]
      /\ UNCHANGED <<backup, starts, clashed>>

\* Only after a rotation is the event written, and counted from zero.
Reopen(p) ==
  LET rotated == logger[p].renamed
  IN  Reopened(p, logger[p].writing /\ rotated, IF rotated THEN 0 ELSE logger[p].size)

\* A process ends, is ended at any step, or cannot open the log and so never
\* touches it again; an event it was to write is lost.
Ends(p) ==
  /\ logger[p].pc # "off"
  /\ logger' = [logger EXCEPT ![p] = Off]
  /\ dropped' = IF logger[p].writing THEN dropped + 1 ELSE dropped
  /\ UNCHANGED <<log, backup, events, starts, clashed>>

LogStep(p) ==
  \/ Initialize(p) \/ OpenLog(p) \/ Write(p) \/ WriteRotates(p)
  \/ RemoveBackup(p) \/ RemoveFails(p) \/ RenameLog(p) \/ Reopen(p) \/ Ends(p)

LogNext == \E p \in Processes : LogStep(p)

LogSpec == LogInit /\ [][LogNext]_logVars

-----------------------------------------------------------------------------
\* However many processes write at once, and whichever of them rotates, the
\* log stays within the limit times their number: a process that cannot rotate
\* drops its events and does not let the file grow.
LogBounded == OnDisk(log) => Len(log) <= Limit * Cardinality(Processes)

\* As long as the log is rotated only while no other process runs, the newest
\* Limit events are on disk, in the log or its backup, also when a process is
\* ended during a rotation.
NewestKept ==
  LET newest == {e \in 1 .. events : e > events - Limit}
  IN  ~clashed => newest \subseteq Events(log) \cup Events(backup)

=============================================================================
