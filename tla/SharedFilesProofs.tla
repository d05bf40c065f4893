--------------------------- MODULE SharedFilesProofs ---------------------------
(***************************************************************************)
(* The files that processes share, proved for any number of them: the      *)
(* session file (SharedFiles) and the event log (EventLog).                *)
(***************************************************************************)
EXTENDS SharedFiles, EventLog, FiniteSetTheorems, TLAPS

(***************************************************************************)
(* The session file.  As long as no two processes were between opening and *)
(* moving one temporary file, each temporary file belongs to the one that  *)
(* is there (Owned), and what a process knows of the session is right      *)
(* unless it was changed since (Known).                                    *)
(***************************************************************************)
Pcs == {"start", "open", "read", "save", "write", "close", "move", "remove", "done",
        "failed"}
Saving == {"save", "write", "close", "move", "remove"}

UserStates ==
  [task : AllTasks, pc : Pcs, path : Paths, session : Users \cup {NoSession},
   version : Nat, saves : Nat, stale : BOOLEAN]

Texts == Seq(Users \X Nat) \cup {NoText}

FilesTypeOK ==
  /\ file \in [Paths -> Texts]
  /\ temporary \in [Paths -> Texts]
  /\ user \in [Users -> UserStates]
  /\ faults \in Nat
  /\ crowded \in BOOLEAN

\* What a saved text is.
Saved(text) ==
  \E s \in Users, version \in Nat \ {0} : text = Text(s, version)

UserInv(p) ==
  /\ user[p].pc \in Saving => user[p].session \in Users /\ user[p].version > 0
  /\ user[p].pc = "remove" => user[p].path = "active"
  /\ Reading(p) => Exists("active")

Owned(p) ==
  LET path == user[p].path
  IN  /\ \A q \in Others(p) : MidSave(p, path) => ~MidSave(q, path)
      /\ user[p].pc = "write" => temporary[path] = <<>>
      /\ user[p].pc \in {"close", "move"} =>
           temporary[path] = Text(user[p].session, user[p].version)

Known(p) ==
  user[p].pc \in Saving /\ ~user[p].stale /\ Exists("active") =>
    /\ SessionOf(file["active"]) = user[p].session
    /\ VersionOf(file["active"]) <= user[p].version

FilesInv ==
  /\ FilesTypeOK
  /\ \A p \in Users : UserInv(p)
  /\ ~crowded =>
       /\ file["active"] = NoText \/ Saved(file["active"])
       /\ \A p \in Users : Owned(p) /\ Known(p)
-----------------------------------------------------------------------------
USE FilesAssumption DEF AllTasks, Paths

LEMMA TextFacts ==
  ASSUME NEW s \in Users, NEW v \in Nat \ {0}
  PROVE  /\ Text(s, v) \in Seq(Users \X Nat)
         /\ Text(s, v) # NoText /\ Text(s, v) # <<>>
         /\ SessionOf(Text(s, v)) = s /\ VersionOf(Text(s, v)) = v
         /\ IsWhole(Text(s, v))
<1>1. Lengths[s] \in Nat \ {0} /\ <<s, v>> \in Users \X Nat
  OBVIOUS
<1>2. Text(s, v) \in Seq(Users \X Nat)
  BY <1>1 DEF Text
<1>3. Text(s, v)[1] = <<s, v>> /\ Len(Text(s, v)) = Lengths[s]
  BY <1>1 DEF Text
<1>4. SessionOf(Text(s, v)) = s /\ VersionOf(Text(s, v)) = v
  BY <1>3 DEF SessionOf, VersionOf
<1>5. Text(s, v) # NoText
  <2>1. VersionOf(NoText) = 0
    BY DEF VersionOf, NoText
  <2>2. QED
    BY <1>4, <2>1
<1>6. Text(s, v) # <<>>
  BY <1>1, <1>3
<1>7. QED
  BY <1>2, <1>4, <1>5, <1>6 DEF IsWhole

\* Text written over an empty file is that text.
LEMMA OverEmpty ==
  ASSUME NEW text \in Seq(Users \X Nat)
  PROVE  Over(text, <<>>) = text
BY DEF Over

LEMMA OverType ==
  ASSUME NEW text \in Seq(Users \X Nat), NEW old \in Texts
  PROVE  Over(text, old) \in Texts
<1>1. CASE old = NoText \/ Len(old) <= Len(text)
  BY <1>1 DEF Over, Texts
<1>2. CASE old # NoText /\ ~(Len(old) <= Len(text))
  <2>1. old \in Seq(Users \X Nat) /\ Len(old) \in Nat /\ Len(text) \in Nat
    BY <1>2 DEF Texts
  <2>2. SubSeq(old, Len(text) + 1, Len(old)) \in Seq(Users \X Nat)
    BY <1>2, <2>1
  <2>3. QED
    BY <1>2, <2>2 DEF Over, Texts
<1>3. QED
  BY <1>1, <1>2

\* What a process loads is a session and a version of it.
LEMMA WholeText ==
  ASSUME NEW text \in Texts, text # NoText, IsWhole(text)
  PROVE  SessionOf(text) \in Users /\ VersionOf(text) \in Nat
<1>1. text \in Seq(Users \X Nat) /\ text # <<>>
  BY DEF Texts, IsWhole
<1>2. text[1] \in Users \X Nat
  BY <1>1
<1>3. QED
  BY <1>2 DEF SessionOf, VersionOf

LEMMA FilesTypeInit == FilesInit => FilesTypeOK
<1> SUFFICES ASSUME FilesInit PROVE FilesTypeOK
  OBVIOUS
<1> DEFINE First == [task : AllTasks, pc : {"start"}, path : {"active"},
                     session : {NoSession}, version : {0}, saves : {0}, stale : {FALSE}]
<1>1. user \in [Users -> UserStates]
  <2>1. user \in [Users -> First]
    BY DEF FilesInit
  <2>2. ASSUME NEW u \in First
        PROVE  u \in UserStates
    <3>1. PICK task \in AllTasks :
            u = [task |-> task, pc |-> "start", path |-> "active",
                 session |-> NoSession, version |-> 0, saves |-> 0, stale |-> FALSE]
      OBVIOUS
    <3>2. QED
      BY <3>1 DEF UserStates, Pcs
  <2>3. QED
    BY <2>1, <2>2
<1>2. QED
  BY <1>1 DEF FilesInit, FilesTypeOK, Texts

\* The step of p leaves the others as they are, or makes them stale.
Kept(u, next) ==
  /\ next.task = u.task /\ next.pc = u.pc /\ next.path = u.path
  /\ next.session = u.session /\ next.version = u.version

LEMMA ChangedUsers ==
  ASSUME FilesTypeOK, NEW p \in Users, NEW next \in UserStates, Changed(p, next)
  PROVE  /\ user' \in [Users -> UserStates]
         /\ \A q \in Others(p) : Kept(user[q], user'[q])
         /\ \A q \in Others(p) : ~user'[q].stale =>
              ~user[q].stale /\ user[p].path # "active"
         /\ Kept(next, user'[p])
         /\ user[p].path # "active" => user'[p] = next
<1>1. user \in [Users -> UserStates]
  BY DEF FilesTypeOK
<1>2. CASE user[p].path = "active"
  <2>1. user' = [q \in Users |-> IF q = p THEN [next EXCEPT !.stale = FALSE]
                                 ELSE [user[q] EXCEPT !.stale = TRUE]]
    BY <1>2 DEF Changed
  <2>2. [next EXCEPT !.stale = FALSE] \in UserStates
    BY DEF UserStates
  <2>3. \A q \in Users : [user[q] EXCEPT !.stale = TRUE] \in UserStates
    BY <1>1 DEF UserStates
  <2>4. user' \in [Users -> UserStates]
    BY <2>1, <2>2, <2>3
  <2>5. user'[p] = [next EXCEPT !.stale = FALSE]
    BY <2>1
  <2>6. Kept(next, user'[p])
    BY <2>5 DEF Kept, UserStates
  <2>7. ASSUME NEW q \in Others(p)
        PROVE  Kept(user[q], user'[q]) /\ user'[q].stale
    <3>1. user'[q] = [user[q] EXCEPT !.stale = TRUE] /\ user[q] \in UserStates
      BY <1>1, <2>1 DEF Others
    <3>2. QED
      BY <3>1 DEF Kept, UserStates
  <2>8. QED
    BY <1>2, <2>4, <2>6, <2>7
<1>3. CASE user[p].path # "active"
  BY <1>1, <1>3 DEF Changed, Kept, Others
<1>4. QED
  BY <1>2, <1>3

LEMMA GoesUser ==
  ASSUME FilesTypeOK, NEW p \in Users, NEW pc \in Pcs, Goes(p, pc)
  PROVE  /\ user' \in [Users -> UserStates]
         /\ \A q \in Others(p) : user'[q] = user[q]
         /\ user'[p] = [user[p] EXCEPT !.pc = pc]
         /\ user'[p].pc = pc
         /\ user'[p].path = user[p].path /\ user'[p].session = user[p].session
         /\ user'[p].version = user[p].version /\ user'[p].stale = user[p].stale
<1>1. user \in [Users -> UserStates] /\ user[p] \in UserStates
  BY DEF FilesTypeOK
<1>2. [user[p] EXCEPT !.pc = pc] \in UserStates
  BY <1>1 DEF UserStates
<1>3. /\ user' \in [Users -> UserStates] /\ user'[p] = [user[p] EXCEPT !.pc = pc]
      /\ \A q \in Others(p) : user'[q] = user[q]
  BY <1>1, <1>2 DEF Goes, Others
<1>4. QED
  BY <1>1, <1>3 DEF UserStates

\* Steps that look at the files and do not save.
Looks(p) == Enter(p) \/ Look(p) \/ OpenSession(p) \/ LoadSession(p)

LEMMA LooksUser ==
  ASSUME FilesInv, NEW p \in Users, Looks(p)
  PROVE  /\ user' \in [Users -> UserStates]
         /\ \A q \in Others(p) : user'[q] = user[q]
         /\ UNCHANGED <<file, temporary, faults, crowded>>
         /\ user'[p].pc \in {"start", "open", "read", "done", "save"}
         /\ user'[p].pc = "read" => Exists("active")
         /\ user'[p].pc = "save" =>
              /\ user'[p].session \in Users /\ user'[p].version > 0
              /\ Exists("active") =>
                   /\ SessionOf(file["active"]) = user'[p].session
                   /\ VersionOf(file["active"]) <= user'[p].version
<1>1. user \in [Users -> UserStates] /\ user[p] \in UserStates /\ UserInv(p)
      /\ file["active"] \in Texts /\ FilesTypeOK
  BY DEF FilesInv, FilesTypeOK
<1>2. CASE Look(p) \/ OpenSession(p)
  <2>1. PICK pc \in {"open", "read", "start", "done"} :
          /\ Goes(p, pc)
          /\ pc = "read" => Exists("active")
    BY <1>2 DEF Look, OpenSession
  <2>2. pc \in Pcs
    BY <2>1 DEF Pcs
  <2>3. UNCHANGED <<file, temporary, faults, crowded>>
    BY <1>2 DEF Look, OpenSession
  <2>4. QED
    BY <1>1, <2>1, <2>2, <2>3, GoesUser
<1>3. ASSUME Exists("active"), Enter(p)
      PROVE  Goes(p, "done")
  BY <1>3 DEF Enter
<1>4. CASE Enter(p)
  <2>1. UNCHANGED <<file, temporary, faults, crowded>>
    BY <1>4 DEF Enter
  <2>2. CASE Exists("active")
    BY <1>1, <1>3, <1>4, <2>1, <2>2, GoesUser DEF Pcs
  <2>3. CASE ~Exists("active")
    <3>1. user' = [user EXCEPT ![p] = [user[p] EXCEPT !.pc = "save", !.session = p,
                                                      !.version = 1, !.stale = FALSE]]
      BY <1>4, <2>3 DEF Enter
    <3> DEFINE next == [user[p] EXCEPT !.pc = "save", !.session = p, !.version = 1,
                                       !.stale = FALSE]
    <3>2. /\ next \in UserStates /\ next.pc = "save"
          /\ next.session = p /\ next.version = 1
      BY <1>1 DEF UserStates, Pcs
    <3>3. user' \in [Users -> UserStates] /\ user'[p] = next
          /\ \A q \in Others(p) : user'[q] = user[q]
      <4> HIDE DEF next
      <4>1. user' = [user EXCEPT ![p] = next]
        BY <3>1 DEF next
      <4>2. QED
        BY <1>1, <3>2, <4>1 DEF Others
    <3>4. QED
      <4> HIDE DEF next
      <4>1. QED
        BY <2>1, <2>3, <3>2, <3>3
  <2>4. QED
    BY <2>2, <2>3
<1>5. CASE LoadSession(p)
  <2> DEFINE text == file["active"]
             next == IF user[p].task = "show" THEN [user[p] EXCEPT !.pc = "start"]
                     ELSE IF IsWhole(text)
                     THEN [user[p] EXCEPT !.pc = "save", !.stale = FALSE,
                                          !.session = SessionOf(text),
                                          !.version = VersionOf(text) + 1]
                     ELSE [user[p] EXCEPT !.pc = "done"]
  <2>1. user' = [user EXCEPT ![p] = next] /\ UNCHANGED <<file, temporary, faults, crowded>>
    BY <1>5 DEF LoadSession
  <2>2. text # NoText /\ text \in Texts
    BY <1>1, <1>5 DEF LoadSession, At, Reading, Exists, UserInv
  <2>3. IsWhole(text) => SessionOf(text) \in Users /\ VersionOf(text) \in Nat
    <3> HIDE DEF text
    <3>1. QED
      BY <2>2, WholeText
  <2>4. /\ next \in UserStates /\ next.pc \in {"start", "save", "done"}
        /\ next.pc = "save" =>
             /\ next.session \in Users /\ next.version > 0
             /\ SessionOf(text) = next.session /\ VersionOf(text) <= next.version
    <3> HIDE DEF text
    <3>1. CASE user[p].task = "show" \/ ~IsWhole(text)
      <4>1. next = [user[p] EXCEPT !.pc = "start"] \/ next = [user[p] EXCEPT !.pc = "done"]
        BY <3>1
      <4>2. QED
        BY <1>1, <4>1 DEF UserStates, Pcs
    <3>2. CASE ~(user[p].task = "show" \/ ~IsWhole(text))
      <4>1. PICK s \in Users, v \in Nat : s = SessionOf(text) /\ v = VersionOf(text)
        BY <2>3, <3>2
      <4>2. next = [user[p] EXCEPT !.pc = "save", !.stale = FALSE, !.session = s,
                                   !.version = v + 1]
        BY <3>2, <4>1
      <4>3. v + 1 \in Nat /\ v + 1 > 0 /\ v <= v + 1
        OBVIOUS
      <4>4. /\ next \in UserStates /\ next.pc = "save"
            /\ next.session = s /\ next.version = v + 1
        BY <1>1, <4>2, <4>3 DEF UserStates, Pcs
      <4>5. QED
        BY <4>1, <4>3, <4>4
    <3>3. QED
      BY <3>1, <3>2
  <2>5. QED
    <3> HIDE DEF next
    <3>1. /\ user' \in [Users -> UserStates] /\ user'[p] = next
          /\ \A q \in Others(p) : user'[q] = user[q]
      BY <1>1, <2>1, <2>4 DEF Others
    <3>2. QED
      BY <2>1, <2>2, <2>4, <3>1
<1>6. QED
  BY <1>2, <1>4, <1>5 DEF Looks

LEMMA LooksStep ==
  ASSUME FilesInv, NEW p \in Users, Looks(p)
  PROVE  FilesInv'
<1>1. /\ user' \in [Users -> UserStates]
      /\ \A q \in Users : q # p => user'[q] = user[q]
      /\ UNCHANGED <<file, temporary, faults, crowded>>
      /\ user'[p].pc \in {"start", "open", "read", "done", "save"}
      /\ user'[p].pc = "read" => Exists("active")
      /\ user'[p].pc = "save" =>
           /\ user'[p].session \in Users /\ user'[p].version > 0
           /\ Exists("active") =>
                /\ SessionOf(file["active"]) = user'[p].session
                /\ VersionOf(file["active"]) <= user'[p].version
  BY LooksUser DEF Others
<1>2. FilesTypeOK'
  BY <1>1 DEF FilesInv, FilesTypeOK
<1>3. \A q \in Users : UserInv(q)'
  BY <1>1 DEF FilesInv, UserInv, Saving, Reading, Exists
<1>4. ASSUME ~crowded, NEW q \in Users
      PROVE  Owned(q)' /\ Known(q)'
  <2>1. Owned(q)'
    BY <1>1, <1>4 DEF FilesInv, Owned, MidSave, Others
  <2>2. Known(q)'
    BY <1>1, <1>4 DEF FilesInv, Known, Saving, Exists
  <2>3. QED
    BY <2>1, <2>2
<1>5. QED
  BY <1>1, <1>2, <1>3, <1>4 DEF FilesInv, Saved

\* A process that is between opening and moving a temporary file has it for
\* itself, so that what it does to that file concerns nobody else.
LEMMA OthersOwned ==
  ASSUME FilesInv, ~crowded, NEW p \in Users, NEW q \in Others(p),
         NEW own \in Paths,
         \A r \in Others(p) : ~MidSave(r, own) /\ Kept(user[r], user'[r]),
         \A path \in Paths : path # own => temporary'[path] = temporary[path],
         \A path \in Paths : MidSave(p, path)' => path = own
  PROVE  Owned(q)'
<1>1. user[q] \in UserStates /\ q \in Users /\ p # q /\ p \in Others(q)
  BY DEF FilesInv, FilesTypeOK, Others
<1>2. PICK path \in Paths : path = user[q].path
  BY <1>1 DEF UserStates
<1>3. /\ user'[q].path = path /\ user'[q].pc = user[q].pc
      /\ user'[q].session = user[q].session /\ user'[q].version = user[q].version
  BY <1>2 DEF Kept
<1>4. CASE ~MidSave(q, path)
  BY <1>2, <1>3, <1>4 DEF Owned, MidSave
<1>5. CASE MidSave(q, path)
  <2>1. Owned(q)
    BY <1>1 DEF FilesInv
  <2>2. path # own
    BY <1>5
  <2>3. temporary'[path] = temporary[path]
    BY <2>2
  <2>4. ASSUME NEW r \in Others(q)
        PROVE  ~MidSave(r, path)'
    <3>1. CASE r = p
      BY <2>2, <3>1
    <3>2. CASE r # p
      <4>1. ~MidSave(r, path) /\ r \in Others(p)
        BY <1>2, <1>5, <2>1, <2>4, <3>2 DEF Owned, Others
      <4>2. QED
        BY <4>1 DEF MidSave, Kept
    <3>3. QED
      BY <3>1, <3>2
  <2>5. QED
    BY <1>2, <1>3, <2>1, <2>3, <2>4 DEF Owned
<1>6. QED
  BY <1>4, <1>5

\* A step that only touches the temporary file.
LEMMA OthersSame ==
  ASSUME FilesInv, NEW p \in Users, NEW q \in Others(p),
         user'[q] = user[q], file' = file
  PROVE  UserInv(q)' /\ (~crowded => Known(q)')
BY DEF FilesInv, UserInv, Known, Reading, Exists, Others

LEMMA TemporaryStep ==
  ASSUME FilesInv, NEW p \in Users,
         OpenTemporary(p) \/ WriteTemporary(p) \/ CloseTemporary(p)
  PROVE  FilesInv'
<1>1. /\ user \in [Users -> UserStates] /\ user[p] \in UserStates /\ UserInv(p)
      /\ temporary \in [Paths -> Texts] /\ FilesTypeOK
      /\ user[p].pc \in {"save", "write", "close"}
  BY DEF FilesInv, FilesTypeOK, OpenTemporary, WriteTemporary, CloseTemporary, At
<1>2. PICK path \in Paths : path = user[p].path
  BY <1>1 DEF UserStates
<1>3. PICK s \in Users, v \in Nat \ {0} : s = user[p].session /\ v = user[p].version
  BY <1>1 DEF UserInv, UserStates, Saving
<1>4. PICK pc \in {"write", "close", "move"} : Goes(p, pc)
  BY DEF OpenTemporary, WriteTemporary, CloseTemporary
<1>5. /\ user' \in [Users -> UserStates]
      /\ \A q \in Others(p) : user'[q] = user[q]
      /\ user'[p].pc = pc /\ user'[p].path = path
      /\ user'[p].session = s /\ user'[p].version = v
      /\ user'[p].stale = user[p].stale
  BY <1>1, <1>2, <1>3, <1>4, GoesUser DEF Pcs
<1>6. Text(s, v) \in Seq(Users \X Nat)
  BY TextFacts
<1>7. /\ file' = file /\ faults' = faults
      /\ crowded' \in BOOLEAN /\ (crowded => crowded')
  BY <1>1 DEF FilesTypeOK, OpenTemporary, WriteTemporary, CloseTemporary
<1>8. PICK text \in Texts : temporary' = [temporary EXCEPT ![path] = text]
  <2>1. CASE OpenTemporary(p)
    <3>1. <<>> \in Texts
      BY DEF Texts
    <3>2. QED
      BY <1>2, <2>1, <3>1 DEF OpenTemporary
  <2>2. CASE WriteTemporary(p)
    <3>1. Over(Text(s, v), temporary[path]) \in Texts
      BY <1>1, <1>6, OverType
    <3>2. temporary' = [temporary EXCEPT ![path] = Over(Text(s, v), temporary[path])]
      BY <1>2, <1>3, <2>2 DEF WriteTemporary
    <3>3. QED
      BY <3>1, <3>2
  <2>3. CASE CloseTemporary(p)
    <3>1. temporary' = [temporary EXCEPT ![path] = temporary[path]]
      BY <1>1, <2>3 DEF CloseTemporary
    <3>2. QED
      BY <1>1, <3>1
  <2>4. QED
    BY <2>1, <2>2, <2>3
<1>9. FilesTypeOK'
  BY <1>1, <1>5, <1>7, <1>8 DEF FilesTypeOK
<1>10. \A q \in Users : UserInv(q)' /\ (~crowded => Known(q)')
  <2>1. UserInv(p)'
    BY <1>5 DEF UserInv, Reading
  <2>2. ~crowded => Known(p)'
    BY <1>1, <1>3, <1>5, <1>7 DEF FilesInv, Known, Exists, Saving
  <2>3. QED
    BY <1>5, <1>7, <2>1, <2>2, OthersSame DEF Others
<1>11. ASSUME ~crowded'
       PROVE  \A q \in Users : Owned(q)'
  <2>1. \A q \in Others(p) : ~MidSave(q, path)
    <3>1. CASE OpenTemporary(p)
      BY <1>2, <1>11, <3>1 DEF OpenTemporary
    <3>2. CASE ~OpenTemporary(p)
      BY <1>2, <1>7, <1>11, <3>2 DEF FilesInv, Owned, MidSave, WriteTemporary,
        CloseTemporary, At
    <3>3. QED
      BY <3>1, <3>2
  <2>2. \A q \in Others(p) : ~MidSave(q, path)'
    BY <1>5, <2>1 DEF MidSave
  <2>3. temporary'[path] = IF pc = "write" THEN <<>> ELSE Text(s, v)
    <3>1. CASE OpenTemporary(p)
      <4>1. pc = "write"
        BY <1>1, <1>5, <3>1, GoesUser DEF OpenTemporary, Pcs
      <4>2. QED
        BY <1>1, <1>2, <3>1, <4>1 DEF OpenTemporary
    <3>2. CASE WriteTemporary(p)
      <4>1. pc = "close" /\ temporary[path] = <<>>
        BY <1>1, <1>2, <1>5, <1>7, <1>11, <3>2, GoesUser
        DEF FilesInv, Owned, WriteTemporary, At, Pcs
      <4>2. temporary'[path] = Over(Text(s, v), <<>>)
        BY <1>1, <1>2, <1>3, <3>2, <4>1 DEF WriteTemporary
      <4>3. QED
        BY <1>6, <4>1, <4>2, OverEmpty
    <3>3. CASE CloseTemporary(p)
      <4>1. pc = "move" /\ temporary[path] = Text(s, v)
        BY <1>1, <1>2, <1>3, <1>5, <1>7, <1>11, <3>3, GoesUser
        DEF FilesInv, Owned, CloseTemporary, At, Pcs
      <4>2. QED
        BY <3>3, <4>1 DEF CloseTemporary
    <3>4. QED
      BY <3>1, <3>2, <3>3
  <2>4. Owned(p)'
    BY <1>5, <2>2, <2>3 DEF Owned
  <2>5. ASSUME NEW q \in Others(p)
        PROVE  Owned(q)'
    <3>1. ~crowded
      BY <1>7, <1>11
    <3>2. \A r \in Paths : r # path => temporary'[r] = temporary[r]
      BY <1>1, <1>8
    <3>3. \A r \in Paths : MidSave(p, r)' => r = path
      BY <1>5 DEF MidSave
    <3>4. QED
      BY <1>5, <2>1, <3>1, <3>2, <3>3, OthersOwned DEF Kept
  <2>6. QED
    BY <2>4, <2>5 DEF Others
<1>12. QED
  BY <1>7, <1>9, <1>10, <1>11 DEF FilesInv, Saved

\* A step after which p saves nothing at that path, and a file may have changed.
LEMMA EndStep ==
  ASSUME FilesInv, NEW p \in Users,
         MoveFails(p) \/ WriteFails(p) \/ Crash(p)
  PROVE  FilesInv'
<1>1. /\ user \in [Users -> UserStates] /\ user[p] \in UserStates
      /\ temporary \in [Paths -> Texts] /\ FilesTypeOK
  BY DEF FilesInv, FilesTypeOK
<1>2. PICK path \in Paths : path = user[p].path
  BY <1>1 DEF UserStates
<1>3. PICK pc \in {"done", "failed"} : Goes(p, pc)
  BY DEF MoveFails, WriteFails, Crash
<1>4. /\ user' \in [Users -> UserStates]
      /\ \A q \in Others(p) : user'[q] = user[q]
      /\ user'[p].pc = pc
  BY <1>1, <1>3, GoesUser DEF Pcs
<1>5. /\ file' = file /\ crowded' = crowded
      /\ faults' \in Nat
      /\ \/ temporary' = temporary
         \/ /\ MidSave(p, path)
            /\ \E text \in Texts : temporary' = [temporary EXCEPT ![path] = text]
  <2>1. CASE MoveFails(p) \/ Crash(p)
    <3>1. file' = file /\ crowded' = crowded /\ faults' \in Nat
      BY <1>1, <2>1 DEF FilesTypeOK, MoveFails, Crash
    <3>2. \/ temporary' = temporary
          \/ MidSave(p, path) /\ temporary' = [temporary EXCEPT ![path] = NoText]
      BY <1>2, <2>1 DEF MoveFails, Crash, MidSave, At
    <3>3. NoText \in Texts
      BY DEF Texts
    <3>4. QED
      BY <3>1, <3>2, <3>3
  <2>2. CASE WriteFails(p) /\ At(p, "save")
    BY <1>1, <2>2 DEF FilesTypeOK, WriteFails, At
  <2>3. CASE WriteFails(p) /\ ~At(p, "save")
    <3>1. PICK s \in Users, v \in Nat \ {0} : s = user[p].session /\ v = user[p].version
      BY <1>1, <2>3 DEF FilesInv, UserInv, UserStates, Saving, WriteFails, At
    <3>2. PICK text \in Seq(Users \X Nat) : text = Text(s, v)
      BY TextFacts
    <3>3. PICK n \in 0 .. Len(text) :
            temporary' = [temporary EXCEPT ![path] = Over(SubSeq(text, 1, n),
                                                          temporary[path])]
      BY <1>1, <1>2, <2>3, <3>1, <3>2 DEF WriteFails
    <3>4. SubSeq(text, 1, n) \in Seq(Users \X Nat)
      OBVIOUS
    <3>5. Over(SubSeq(text, 1, n), temporary[path]) \in Texts
      BY <1>1, <3>4, OverType
    <3>6. /\ file' = file /\ crowded' = crowded /\ faults' \in Nat
          /\ MidSave(p, path)
      BY <1>1, <1>2, <2>3 DEF FilesTypeOK, WriteFails, MidSave, At
    <3>7. QED
      BY <3>3, <3>5, <3>6
  <2>4. QED
    BY <2>1, <2>2, <2>3
<1>6. FilesTypeOK'
  BY <1>1, <1>4, <1>5 DEF FilesTypeOK, Texts
<1>7. \A q \in Users : UserInv(q)' /\ (~crowded => Known(q)')
  <2>1. UserInv(p)' /\ Known(p)'
    BY <1>4 DEF UserInv, Known, Reading, Saving
  <2>2. QED
    BY <1>4, <1>5, <2>1, OthersSame DEF Others
<1>8. ASSUME ~crowded
      PROVE  \A q \in Users : Owned(q)'
  <2>1. \A r \in Paths : ~MidSave(p, r)'
    BY <1>4 DEF MidSave
  <2>2. Owned(p)'
    BY <1>4 DEF Owned, MidSave
  <2>3. ASSUME NEW q \in Others(p)
        PROVE  Owned(q)'
    <3>1. CASE temporary' = temporary
      BY <1>4, <1>8, <2>1, <2>3, <3>1 DEF FilesInv, Owned, MidSave, Others
    <3>2. CASE /\ MidSave(p, path)
               /\ \E text \in Texts : temporary' = [temporary EXCEPT ![path] = text]
      <4>1. \A r \in Others(p) : ~MidSave(r, path)
        BY <1>2, <1>8, <3>2 DEF FilesInv, Owned
      <4>2. \A r \in Paths : r # path => temporary'[r] = temporary[r]
        BY <1>1, <3>2
      <4>3. QED
        BY <1>4, <1>8, <2>1, <4>1, <4>2, OthersOwned DEF Kept
    <3>3. QED
      BY <1>5, <3>1, <3>2
  <2>4. QED
    BY <2>2, <2>3 DEF Others
<1>9. QED
  BY <1>5, <1>6, <1>7, <1>8 DEF FilesInv, Saved

LEMMA AfterSaveUser ==
  ASSUME NEW p \in Users, user[p] \in UserStates, user[p].pc = "move",
         user[p].session \in Users
  PROVE  /\ AfterSave(p) \in UserStates
         /\ AfterSave(p).pc \in {"save", "remove", "done"}
         /\ AfterSave(p).session = user[p].session
         /\ AfterSave(p).version \in {user[p].version, user[p].version + 1}
         /\ AfterSave(p).pc = "remove" => AfterSave(p).path = "active"
         /\ AfterSave(p).stale = user[p].stale
<1>1. user[p].saves + 1 \in Nat /\ user[p].version + 1 \in Nat
  BY DEF UserStates
<1>2. CASE user[p].path = "report"
  BY <1>2 DEF AfterSave, UserStates, Pcs
<1>3. CASE user[p].path # "report"
  <2>1. PICK saves \in Nat, version \in Nat :
          saves = user[p].saves + 1 /\ version = user[p].version + 1
    BY <1>1
  <2>2. CASE user[p].saves + 1 < Saves
    <3>1. AfterSave(p) = [user[p] EXCEPT !.saves = saves, !.version = version,
                                         !.pc = "save"]
      BY <1>3, <2>1, <2>2 DEF AfterSave
    <3>2. QED
      BY <2>1, <3>1 DEF UserStates, Pcs
  <2>3. CASE ~(user[p].saves + 1 < Saves) /\ user[p].task = "exit"
    BY <1>3, <2>3 DEF AfterSave, UserStates, Pcs
  <2>4. CASE ~(user[p].saves + 1 < Saves) /\ user[p].task # "exit"
    BY <1>3, <2>4 DEF AfterSave, UserStates, Pcs
  <2>5. QED
    BY <2>2, <2>3, <2>4
<1>4. QED
  BY <1>2, <1>3

\* What a save and the removal of the session do to the processes.
LEMMA ChangeOthers ==
  ASSUME FilesInv, NEW p \in Users, Move(p) \/ Remove(p)
  PROVE  \E next \in UserStates :
           /\ Changed(p, next)
           /\ next.pc \in {"save", "remove", "done"}
           /\ next.session = user[p].session
           /\ next.version \in {user[p].version, user[p].version + 1}
           /\ next.pc = "remove" => next.path = "active"
           /\ next.stale = user[p].stale
           /\ Remove(p) => next.pc = "done"
           /\ user'[p].pc = next.pc
           /\ \A q \in Others(p) : Kept(user[q], user'[q])
<1>1. /\ user[p] \in UserStates /\ UserInv(p) /\ FilesTypeOK
      /\ user[p].pc \in {"move", "remove"} /\ user[p].session \in Users
  BY DEF FilesInv, FilesTypeOK, UserInv, Move, Remove, At, Saving
<1>2. ASSUME NEW next \in UserStates, Changed(p, next)
      PROVE  user'[p].pc = next.pc /\ \A q \in Others(p) : Kept(user[q], user'[q])
  BY <1>1, <1>2, ChangedUsers DEF Kept
<1>3. CASE Move(p)
  <2>1. Changed(p, AfterSave(p)) /\ user[p].pc = "move" /\ ~Remove(p)
    BY <1>3 DEF Move, Remove, At
  <2>2. QED
    BY <1>1, <1>2, <2>1, AfterSaveUser
<1>4. CASE Remove(p)
  <2>1. PICK done : done = [user[p] EXCEPT !.pc = "done"]
    OBVIOUS
  <2>2. Changed(p, done)
    BY <1>4, <2>1 DEF Remove
  <2>3. /\ done \in UserStates /\ done.pc = "done" /\ done.session = user[p].session
        /\ done.version = user[p].version /\ done.stale = user[p].stale
    BY <1>1, <2>1 DEF UserStates, Pcs
  <2>4. QED
    BY <1>2, <2>2, <2>3
<1>5. QED
  BY <1>3, <1>4

\* Moving a temporary file into place, and removing the session.
LEMMA ChangeStep ==
  ASSUME FilesInv, NEW p \in Users, Move(p) \/ Remove(p)
  PROVE  FilesInv'
<1>1. /\ user \in [Users -> UserStates] /\ user[p] \in UserStates /\ UserInv(p)
      /\ temporary \in [Paths -> Texts] /\ file \in [Paths -> Texts] /\ FilesTypeOK
      /\ user[p].pc \in {"move", "remove"} /\ user[p].pc \in Saving
  BY DEF FilesInv, FilesTypeOK, Move, Remove, At, Saving
<1>2. PICK path \in Paths : path = user[p].path
  BY <1>1 DEF UserStates
<1>3. PICK s \in Users, v \in Nat \ {0} : s = user[p].session /\ v = user[p].version
  BY <1>1 DEF UserInv, UserStates
<1>4. PICK next \in UserStates :
        /\ Changed(p, next)
        /\ next.pc \in {"save", "remove", "done"}
        /\ next.session = s /\ next.version \in {v, v + 1}
        /\ next.pc = "remove" => next.path = "active"
        /\ next.stale = user[p].stale
        /\ Remove(p) => next.pc = "done"
  BY <1>3, ChangeOthers
<1>5. /\ user' \in [Users -> UserStates]
      /\ \A q \in Others(p) : Kept(user[q], user'[q])
      /\ \A q \in Others(p) : ~user'[q].stale =>
           ~user[q].stale /\ path # "active"
      /\ Kept(next, user'[p])
      /\ path # "active" => user'[p].stale = user[p].stale
  BY <1>1, <1>2, <1>4, ChangedUsers
<1>6. UNCHANGED <<faults, crowded>>
  BY DEF Move, Remove
<1>7. CASE Move(p)
  <2>1. /\ file' = [file EXCEPT ![path] = temporary[path]]
        /\ temporary' = [temporary EXCEPT ![path] = NoText]
        /\ CanMove(p, path) /\ user[p].pc = "move"
    BY <1>2, <1>7 DEF Move, At
  <2>2. FilesTypeOK'
    BY <1>1, <1>5, <1>6, <2>1 DEF FilesTypeOK, Texts
  <2>3. \A q \in Paths : q # path => file'[q] = file[q] /\ temporary'[q] = temporary[q]
    BY <1>1, <2>1
  <2>4. file'[path] = temporary[path]
    BY <1>1, <2>1
  <2>5. \A q \in Users : UserInv(q)'
    <3>1. UserInv(p)'
      BY <1>3, <1>4, <1>5 DEF UserInv, Reading, Kept
    <3>2. ASSUME NEW q \in Others(p)
          PROVE  UserInv(q)'
      <4>1. Reading(q) => Exists("active") /\ path # "active"
        BY <2>1, <3>2 DEF FilesInv, UserInv, CanMove, Others
      <4>2. Reading(q)' => Exists("active")'
        BY <1>5, <2>3, <3>2, <4>1 DEF Reading, Exists, Kept
      <4>3. QED
        BY <1>5, <3>2, <4>2 DEF FilesInv, UserInv, Kept, Others
    <3>3. QED
      BY <3>1, <3>2 DEF Others
  <2>6. ASSUME ~crowded
        PROVE  /\ file'["active"] = NoText \/ Saved(file'["active"])
               /\ \A q \in Users : Owned(q)' /\ Known(q)'
    <3>1. temporary[path] = Text(s, v) /\ \A q \in Others(p) : ~MidSave(q, path)
      BY <1>2, <1>3, <2>1, <2>6 DEF FilesInv, Owned, MidSave
    <3>2. file'["active"] = NoText \/ Saved(file'["active"])
      BY <2>3, <2>4, <2>6, <3>1 DEF FilesInv, Saved
    <3>3. Owned(p)'
      BY <1>4, <1>5 DEF Owned, MidSave, Kept
    <3>4. ASSUME NEW q \in Others(p)
          PROVE  Owned(q)'
      <4>1. \A r \in Paths : MidSave(p, r)' => r = path
        BY <1>4, <1>5 DEF MidSave, Kept
      <4>2. QED
        BY <1>5, <2>3, <2>6, <3>1, <4>1, OthersOwned
    <3>5. Known(p)'
      <4>1. CASE path = "active"
        <5>1. SessionOf(file'["active"]) = s /\ VersionOf(file'["active"]) = v
          BY <2>4, <3>1, <4>1, TextFacts
        <5>2. QED
          BY <1>4, <1>5, <5>1 DEF Known, Kept
      <4>2. CASE path # "active"
        <5>1. file'["active"] = file["active"]
          BY <2>3, <4>2
        <5>2. ~user[p].stale /\ Exists("active") =>
                SessionOf(file["active"]) = s /\ VersionOf(file["active"]) <= v
          <6>1. Known(p) /\ user[p].pc \in Saving
            BY <1>1, <2>6 DEF FilesInv
          <6>2. QED
            BY <1>3, <6>1 DEF Known
        <5>3. Exists("active") => VersionOf(file["active"]) \in Nat
          <6>1. Exists("active") => Saved(file["active"])
            BY <2>6 DEF FilesInv, Exists
          <6>2. ASSUME Saved(file["active"])
                PROVE  VersionOf(file["active"]) \in Nat
            <7>1. PICK of \in Users, saved \in Nat \ {0} :
                    file["active"] = Text(of, saved)
              BY <6>2 DEF Saved
            <7>2. VersionOf(file["active"]) = saved
              BY <7>1, TextFacts
            <7>3. QED
              BY <7>2
          <6>3. QED
            BY <6>1, <6>2
        <5>4. /\ user'[p].session = s /\ user'[p].version \in {v, v + 1}
              /\ user'[p].stale = user[p].stale
          BY <1>4, <1>5, <4>2 DEF Kept
        <5>5. ASSUME Exists("active"), ~user[p].stale
              PROVE  VersionOf(file["active"]) <= user'[p].version
          BY <5>2, <5>3, <5>4, <5>5
        <5>6. QED
          BY <5>1, <5>2, <5>4, <5>5 DEF Known, Exists
      <4>3. QED
        BY <4>1, <4>2
    <3>6. ASSUME NEW q \in Others(p)
          PROVE  Known(q)'
      BY <1>5, <2>3, <2>6, <3>6 DEF FilesInv, Known, Kept, Exists, Others
    <3>7. QED
      BY <3>2, <3>3, <3>4, <3>5, <3>6 DEF Others
  <2>7. QED
    BY <1>6, <2>2, <2>5, <2>6 DEF FilesInv, Saved
<1>8. CASE Remove(p)
  <2>1. /\ temporary' = temporary /\ user[p].pc = "remove" /\ path = "active"
        /\ \/ file' = file
           \/ /\ \A q \in Others(p) : ~Reading(q)
              /\ file' = [file EXCEPT !["active"] = NoText]
    BY <1>1, <1>2, <1>8 DEF Remove, At, UserInv
  <2>2. FilesTypeOK'
    BY <1>1, <1>5, <1>6, <2>1 DEF FilesTypeOK, Texts
  <2>3. user'[p].pc = "done"
    BY <1>4, <1>5, <1>8 DEF Kept
  <2>4. UserInv(p)' /\ Owned(p)' /\ Known(p)'
    BY <2>3 DEF UserInv, Owned, Known, Reading, MidSave, Saving
  <2>5. ASSUME NEW q \in Others(p)
        PROVE  UserInv(q)' /\ (~crowded => Owned(q)' /\ Known(q)')
    <3>1. q \in Users /\ UserInv(q) /\ Kept(user[q], user'[q]) /\ user'[q].stale
      BY <1>5, <2>1 DEF FilesInv, Others
    <3>2. Reading(q) => file' = file /\ Exists("active")
      BY <2>1, <3>1 DEF UserInv
    <3>3. UserInv(q)'
      BY <3>1, <3>2 DEF UserInv, Kept, Reading, Exists
    <3>4. ~crowded => Owned(q)'
      <4>1. SUFFICES ASSUME ~crowded PROVE Owned(q)'
        OBVIOUS
      <4>2. \A r \in Users : r = p \/ Kept(user[r], user'[r])
        BY <1>5 DEF Others
      <4>3. QED
        BY <2>1, <2>3, <3>1, <4>1, <4>2 DEF FilesInv, Owned, MidSave, Kept, Others
    <3>5. Known(q)'
      BY <3>1 DEF Known
    <3>6. QED
      BY <3>3, <3>4, <3>5
  <2>6. file'["active"] \in {file["active"], NoText}
    BY <1>1, <2>1
  <2>7. ~crowded => file'["active"] = NoText \/ Saved(file'["active"])
    BY <2>6 DEF FilesInv
  <2>8. \A q \in Users : UserInv(q)' /\ (~crowded => Owned(q)' /\ Known(q)')
    BY <2>4, <2>5 DEF Others
  <2>9. QED
    BY <1>6, <2>2, <2>7, <2>8 DEF FilesInv, Saved
<1>9. QED
  BY <1>7, <1>8

LEMMA FilesInvStep == FilesInv /\ [FilesNext]_fileVars => FilesInv'
<1>1. FilesInv /\ UNCHANGED fileVars => FilesInv'
  BY DEF fileVars, FilesInv, FilesTypeOK, Saved, UserInv, Owned, Known, Reading,
    MidSave, Exists
<1>2. QED
  BY <1>1, LooksStep, TemporaryStep, ChangeStep, EndStep DEF FilesNext, FileStep, Looks

LEMMA FilesAlwaysInv == FilesSpec => []FilesInv
<1>1. FilesInit => FilesInv
  <2> SUFFICES ASSUME FilesInit PROVE FilesInv
    OBVIOUS
  <2>1. \A p \in Users : user[p].pc = "start"
    BY DEF FilesInit
  <2>2. \A p \in Users : UserInv(p) /\ Owned(p) /\ Known(p)
    BY <2>1 DEF UserInv, Owned, Known, Reading, MidSave, Saving
  <2>3. file["active"] = NoText
    BY DEF FilesInit
  <2>4. QED
    BY <2>2, <2>3, FilesTypeInit DEF FilesInv
<1>2. QED
  BY <1>1, FilesInvStep, PTL DEF FilesSpec

\* The session file is one saved text unless two processes saved at once, for
\* any number of processes, saves and faults.
THEOREM AlwaysWholeUnlessCrowded == FilesSpec => []WholeUnlessCrowded
<1>1. FilesInv => WholeUnlessCrowded
  BY TextFacts DEF FilesInv, Saved, WholeUnlessCrowded, Exists
<1>2. QED
  BY <1>1, FilesAlwaysInv, PTL

\* A written text is moved into place but for a process that reads or saves.
THEOREM SavesFailOnlyByOthers == FilesSpec => SaveFailsOnlyByOthers
<1> DEFINE A == \A p \in Users :
                  At(p, "move") /\ user'[p].pc = "failed"
                    => crowded \/ \E q \in Others(p) : Reading(q)
<1>1. FilesInv /\ [FilesNext]_fileVars => [A]_fileVars
  <2> SUFFICES ASSUME FilesInv, NEW r \in Users, FileStep(r), NEW p \in Users,
                      At(p, "move"), user'[p].pc = "failed", ~crowded
               PROVE  \E q \in Others(p) : Reading(q)
    BY DEF FilesNext
  <2>1. CASE r # p
    <3>1. user'[p].pc = user[p].pc
      <4>1. CASE Looks(r)
        BY <2>1, <4>1, LooksUser DEF Others
      <4>2. CASE Move(r) \/ Remove(r)
        BY <2>1, <4>2, ChangeOthers DEF Others, Kept
      <4>3. CASE \/ OpenTemporary(r) \/ WriteTemporary(r) \/ CloseTemporary(r)
                 \/ MoveFails(r) \/ WriteFails(r) \/ Crash(r)
        <5>1. PICK pc \in Pcs : Goes(r, pc)
          BY <4>3 DEF OpenTemporary, WriteTemporary, CloseTemporary, MoveFails,
            WriteFails, Crash, Pcs
        <5>2. p \in Others(r) /\ FilesTypeOK
          BY <2>1 DEF FilesInv, Others
        <5>3. user'[p] = user[p]
          BY <5>1, <5>2, GoesUser
        <5>4. QED
          BY <5>3
      <4>4. QED
        BY <4>1, <4>2, <4>3 DEF FileStep, Looks
    <3>2. QED
      BY <3>1 DEF At
  <2>2. CASE r = p
    <3>1. MoveFails(p)
      <4>1. ~Move(p)
        BY ChangeOthers
      <4>2. ~Crash(p)
        BY GoesUser DEF FilesInv, Crash, Pcs
      <4>3. QED
        BY <2>2, <4>1, <4>2 DEF FileStep, At, Enter, Look, OpenSession, LoadSession,
          OpenTemporary, WriteTemporary, WriteFails, CloseTemporary, Remove
    <3>2. PICK path \in Paths : path = user[p].path
      BY DEF FilesInv, FilesTypeOK, UserStates
    <3>3. Owned(p) /\ user[p].session \in Users /\ user[p].version \in Nat \ {0}
      BY DEF FilesInv, FilesTypeOK, UserStates, UserInv, At, Saving
    <3>4. temporary[path] # NoText
      BY <3>2, <3>3, TextFacts DEF Owned, At
    <3>5. \A q \in Others(p) : ~Writing(q, path)
      BY <3>2, <3>3 DEF Owned, At, MidSave, Writing
    <3>6. QED
      BY <3>1, <3>2, <3>4, <3>5 DEF MoveFails, CanMove
  <2>3. QED
    BY <2>1, <2>2
<1>2. QED
  BY <1>1, FilesAlwaysInv, PTL DEF FilesSpec, SaveFailsOnlyByOthers

\* What a command replaces or removes is the session that it has seen last.
THEOREM AlwaysReplacedByItsSuccessor == FilesSpec => ReplacedByItsSuccessor
<1> DEFINE A == \A p \in Users :
                  /\ At(p, "move") \/ At(p, "remove")
                  /\ file'["active"] # file["active"] /\ Exists("active")
                  /\ ~crowded /\ ~user[p].stale
                  => /\ SessionOf(file["active"]) = user[p].session
                     /\ VersionOf(file["active"]) <= user[p].version
<1>1. FilesInv => A
  BY DEF FilesInv, Known, Saving, At
<1>2. QED
  BY <1>1, FilesAlwaysInv, PTL DEF FilesSpec, ReplacedByItsSuccessor
-----------------------------------------------------------------------------
(***************************************************************************)
(* The event log.  It always holds the events up to the last, and at most  *)
(* as many as there are slots used: each process has Limit, and has used   *)
(* those up to the size that it counts (Used).                             *)
(***************************************************************************)
Loggers ==
  [pc : {"off", "sized", "open", "remove", "rename", "reopen"}, size : Nat,
   writing : BOOLEAN, renamed : BOOLEAN]

LogLength == IF OnDisk(log) THEN Len(log) ELSE 0

\* The events up to `last`, in their order.
UpTo(file_, last) == \A i \in 1 .. Len(file_) : file_[i] = last - Len(file_) + i

LogTypeOK ==
  /\ log \in Seq(Nat) /\ backup \in Seq(Nat)
  /\ logger \in [Processes -> Loggers]
  /\ events \in Nat /\ dropped \in Nat /\ starts \in Nat
  /\ clashed \in BOOLEAN

LoggerInv(p) ==
  /\ Opened(p) => OnDisk(log)
  /\ logger[p].pc \in {"remove", "rename"} => logger[p].size >= Limit
  /\ logger[p].pc # "reopen" => ~logger[p].renamed

Counted(p) == IF logger[p].renamed THEN 0 ELSE logger[p].size

Used ==
  {slot \in Processes \X (1 .. Limit) :
     logger[slot[1]].pc = "off" \/ slot[2] <= Counted(slot[1])}

FullBackup ==
  /\ OnDisk(backup) /\ Len(backup) >= Limit
  /\ UpTo(backup, events - LogLength)

LogInv ==
  /\ LogTypeOK
  /\ \A p \in Processes : LoggerInv(p)
  /\ OnDisk(log) => UpTo(log, events) /\ Len(log) <= events
  /\ LogLength <= Cardinality(Used)
  /\ ~clashed =>
       /\ LogLength >= Limit \/ LogLength = events \/ FullBackup
       /\ \A p \in Processes :
            logger[p].pc # "off" => Counted(p) <= LogLength
-----------------------------------------------------------------------------
HIDE FilesAssumption
USE LogAssumption

LEMMA FullMeansLimit ==
  ASSUME NEW size \in Nat
  PROVE  IsFull(size) <=> size >= Limit
<1>1. Min({size, Limit}) = IF size <= Limit THEN size ELSE Limit
  BY DEF Min
<1>2. QED
  BY <1>1 DEF IsFull

\* Slots.
Slots == Processes \X (1 .. Limit)

LEMMA SlotsCount ==
  /\ IsFiniteSet(Slots) /\ Cardinality(Slots) = Limit * Cardinality(Processes)
  /\ Cardinality(Processes) \in Nat
<1>1. IsFiniteSet(1 .. Limit) /\ Cardinality(1 .. Limit) = Limit
  BY FS_Interval
<1>2. IsFiniteSet(Processes) /\ Cardinality(Processes) \in Nat
  BY FS_CardinalityType
<1>3. /\ IsFiniteSet(Slots)
      /\ Cardinality(Slots) = Cardinality(Processes) * Cardinality(1 .. Limit)
  BY <1>1, <1>2, FS_Product DEF Slots
<1>4. QED
  BY <1>1, <1>2, <1>3

LEMMA UsedCount ==
  /\ Used \subseteq Slots /\ IsFiniteSet(Used) /\ Cardinality(Used) \in Nat
  /\ Cardinality(Used) <= Limit * Cardinality(Processes)
<1>1. Used \subseteq Slots
  BY DEF Used, Slots
<1>2. QED
  BY <1>1, SlotsCount, FS_Subset, FS_CardinalityType

LEMMA UsedCountNext == IsFiniteSet(Used') /\ Cardinality(Used') \in Nat
<1>1. Used' \subseteq Slots
  BY DEF Used, Slots
<1>2. QED
  BY <1>1, SlotsCount, FS_Subset, FS_CardinalityType

\* The Logger of p becomes next.
LEMMA LoggerChange ==
  ASSUME LogTypeOK, NEW p \in Processes, NEW next \in Loggers,
         logger' = [logger EXCEPT ![p] = next]
  PROVE  /\ logger' \in [Processes -> Loggers]
         /\ logger'[p] = next
         /\ \A q \in Processes : q # p => logger'[q] = logger[q]
BY DEF LogTypeOK

\* No slot is lost when a process ends or counts more.
LEMMA UsedKept ==
  ASSUME LogTypeOK, NEW p \in Processes,
         \A q \in Processes : q # p => logger'[q] = logger[q],
         Counted(p) \in Nat, Counted(p)' \in Nat,
         \/ logger'[p].pc = "off"
         \/ logger[p].pc # "off" /\ Counted(p) <= Counted(p)'
         \/ Limit <= Counted(p)'
  PROVE  Used \subseteq Used' /\ Cardinality(Used) <= Cardinality(Used')
<1>1. ASSUME NEW slot \in Used
      PROVE  slot \in Used'
  <2>1. PICK q \in Processes, i \in 1 .. Limit :
          slot = <<q, i>> /\ (logger[q].pc = "off" \/ i <= Counted(q))
    BY DEF Used
  <2>2. logger'[q].pc = "off" \/ i <= Counted(q)'
    BY <2>1 DEF Counted
  <2>3. QED
    BY <2>1, <2>2 DEF Used
<1>2. IsFiniteSet(Used')
  BY UsedCountNext
<1>3. QED
  BY <1>1, <1>2, FS_Subset

\* A process that counts one more uses one more slot.
LEMMA UsedGrows ==
  ASSUME LogTypeOK, NEW p \in Processes,
         \A q \in Processes : q # p => logger'[q] = logger[q],
         Counted(p) \in Nat, Counted(p) < Limit, Counted(p)' = Counted(p) + 1,
         logger[p].pc # "off"
  PROVE  Cardinality(Used) + 1 <= Cardinality(Used')
<1> DEFINE slot == <<p, Counted(p) + 1>>
<1>1. Used \subseteq Used'
  BY UsedKept
<1>2. slot \in Used' /\ slot \notin Used
  BY DEF Used
<1>3. IsFiniteSet(Used) /\ Cardinality(Used) \in Nat
  BY UsedCount
<1>4. IsFiniteSet(Used') /\ Cardinality(Used') \in Nat
  BY UsedCountNext
<1>5. Cardinality(Used \cup {slot}) = Cardinality(Used) + 1
  BY <1>2, <1>3, FS_AddElement
<1>6. Used \cup {slot} \subseteq Used'
  BY <1>1, <1>2
<1>7. QED
  BY <1>4, <1>5, <1>6, FS_Subset

\* A process that starts uses the slots up to the size that it found.
LEMMA UsedFirst ==
  ASSUME NEW p \in Processes, NEW size \in Nat, size < Limit, Counted(p)' = size
  PROVE  size <= Cardinality(Used')
<1> DEFINE mine == {p} \X (1 .. size)
<1>1. IsFiniteSet(1 .. size) /\ Cardinality(1 .. size) = size
  BY FS_Interval
<1>2. IsFiniteSet({p}) /\ Cardinality({p}) = 1
  BY FS_Singleton
<1>3. IsFiniteSet(mine) /\ Cardinality(mine) = 1 * size
  BY <1>1, <1>2, FS_Product
<1>4. mine \subseteq Used'
  BY DEF Used
<1>5. IsFiniteSet(Used') /\ Cardinality(Used') \in Nat
  BY UsedCountNext
<1>6. QED
  BY <1>3, <1>4, <1>5, FS_Subset
-----------------------------------------------------------------------------
\* The events in the log, also when it is created first.
LogEvents == IF OnDisk(log) THEN log ELSE <<>>

LEMMA LogFacts ==
  ASSUME LogInv
  PROVE  /\ LogEvents \in Seq(Nat) /\ LogEvents # NoLog
         /\ Len(LogEvents) = LogLength /\ LogLength \in Nat /\ LogLength <= events
         /\ UpTo(LogEvents, events)
         /\ NoLog \in Seq(Nat)
<1>1. log \in Seq(Nat) /\ events \in Nat
  BY DEF LogInv, LogTypeOK
<1>2. CASE OnDisk(log)
  BY <1>1, <1>2 DEF LogInv, LogEvents, LogLength, OnDisk, NoLog
<1>3. CASE ~OnDisk(log)
  BY <1>1, <1>3 DEF LogEvents, LogLength, OnDisk, NoLog, UpTo
<1>4. QED
  BY <1>2, <1>3

LEMMA LogAppends ==
  ASSUME LogInv, log' = Append(LogEvents, events + 1), events' = events + 1
  PROVE  /\ log' \in Seq(Nat) /\ OnDisk(log)'
         /\ LogLength' = LogLength + 1 /\ LogLength' <= events'
         /\ UpTo(log, events)'
<1> DEFINE n == Len(LogEvents)
<1>1. /\ LogEvents \in Seq(Nat) /\ n = LogLength /\ n \in Nat /\ n <= events
      /\ events \in Nat
  BY LogFacts DEF LogInv, LogTypeOK
<1>2. /\ log' \in Seq(Nat) /\ Len(log') = n + 1 /\ log'[n + 1] = events + 1
      /\ \A i \in 1 .. n : log'[i] = LogEvents[i]
  BY <1>1
<1>3. OnDisk(log)'
  <2>1. log'[n + 1] # 0
    BY <1>1, <1>2
  <2>2. log' = NoLog => n + 1 = 1 /\ log'[1] = 0
    BY <1>2 DEF NoLog
  <2>3. QED
    BY <2>1, <2>2 DEF OnDisk
<1>4. LogLength' = n + 1
  BY <1>2, <1>3 DEF LogLength
<1>5. ASSUME NEW i \in 1 .. n + 1
      PROVE  log'[i] = events + 1 - (n + 1) + i
  <2>1. CASE i \in 1 .. n
    <3>1. LogEvents[i] = events - n + i
      BY <2>1, LogFacts DEF UpTo
    <3>2. QED
      BY <1>1, <1>2, <2>1, <3>1
  <2>2. CASE i = n + 1
    BY <1>1, <1>2, <2>2
  <2>3. QED
    BY <1>1, <2>1, <2>2
<1>6. UpTo(log, events)'
  <2>1. \A i \in 1 .. Len(log') : log'[i] = events' - Len(log') + i
    BY <1>1, <1>2, <1>5
  <2>2. QED
    BY <2>1 DEF UpTo
<1>7. QED
  BY <1>1, <1>2, <1>3, <1>4, <1>6

\* What the log holds when its events and those on disk do not change.
LEMMA LogStays ==
  ASSUME LogInv, log' \in {log, LogEvents}, events' = events
  PROVE  /\ log' \in Seq(Nat) /\ LogLength' = LogLength
         /\ OnDisk(log) => OnDisk(log)'
         /\ OnDisk(log)' => UpTo(log, events)' /\ Len(log)' <= events'
<1>1. CASE log' = log
  BY <1>1 DEF LogInv, LogTypeOK, LogLength, UpTo, OnDisk
<1>2. CASE log' = LogEvents
  <2>1. /\ log' \in Seq(Nat) /\ OnDisk(log)' /\ Len(log') = LogLength
        /\ LogLength <= events
    BY <1>2, LogFacts DEF OnDisk
  <2>2. UpTo(log, events)'
    BY <1>2, LogFacts DEF UpTo
  <2>3. QED
    BY <2>1, <2>2 DEF LogLength
<1>3. QED
  BY <1>1, <1>2

\* The rest of LogInv for a step after which the log is not shorter.
LEMMA NotShorter ==
  ASSUME LogInv, NEW p \in Processes, NEW next \in Loggers,
         logger' = [logger EXCEPT ![p] = next],
         next.pc = "open" => OnDisk(log)',
         next.pc \in {"remove", "rename"} => next.size >= Limit,
         next.pc # "reopen" => ~next.renamed,
         \/ log' \in {log, LogEvents} /\ events' = events
         \/ log' = Append(LogEvents, events + 1) /\ events' = events + 1,
         backup' \in Seq(Nat), dropped' \in Nat, starts' \in Nat, clashed' \in BOOLEAN,
         LogLength' <= Cardinality(Used'),
         ~clashed' =>
           /\ ~clashed /\ (backup' = backup \/ LogLength >= Limit)
           /\ next.pc # "off" => Counted(p)' <= LogLength'
  PROVE  LogInv'
<1>1. LogTypeOK /\ events \in Nat /\ LogLength \in Nat /\ LogLength <= events
  BY LogFacts DEF LogInv, LogTypeOK
<1>2. PICK grown \in {0, 1} :
        /\ log' \in Seq(Nat) /\ events' = events + grown
        /\ LogLength' = LogLength + grown
        /\ OnDisk(log) => OnDisk(log)'
        /\ OnDisk(log)' => UpTo(log, events)' /\ Len(log)' <= events'
  BY <1>1, LogStays, LogAppends DEF LogLength
<1>3. /\ logger' \in [Processes -> Loggers] /\ logger'[p] = next
      /\ \A q \in Processes : q # p => logger'[q] = logger[q]
  BY <1>1, LoggerChange
<1>4. LogTypeOK'
  BY <1>1, <1>2, <1>3 DEF LogTypeOK
<1>5. ASSUME NEW q \in Processes
      PROVE  LoggerInv(q)'
  <2>1. CASE q = p
    BY <1>3, <2>1 DEF LoggerInv, Opened
  <2>2. CASE q # p
    <3>1. LoggerInv(q) /\ logger'[q] = logger[q]
      BY <1>3, <2>2 DEF LogInv
    <3>2. QED
      BY <1>2, <3>1 DEF LoggerInv, Opened
  <2>3. QED
    BY <2>1, <2>2
<1>6. ASSUME ~clashed'
      PROVE  /\ LogLength' >= Limit \/ LogLength' = events' \/ FullBackup'
             /\ \A q \in Processes :
                  logger'[q].pc # "off" => Counted(q)' <= LogLength'
  <2>1. LogLength >= Limit => LogLength' >= Limit
    BY <1>1, <1>2
  <2>2. LogLength = events => LogLength' = events'
    BY <1>1, <1>2
  <2>3. FullBackup /\ backup' = backup => FullBackup'
    <3>1. events' - LogLength' = events - LogLength
      BY <1>1, <1>2
    <3>2. ASSUME FullBackup, backup' = backup, NEW i \in 1 .. Len(backup')
          PROVE  backup'[i] = events' - LogLength' - Len(backup') + i
      <4>1. backup[i] = events - LogLength - Len(backup) + i
        BY <3>2 DEF FullBackup, UpTo
      <4>2. QED
        BY <3>1, <3>2, <4>1
    <3>3. FullBackup /\ backup' = backup => UpTo(backup, events - LogLength)'
      BY <3>2 DEF UpTo
    <3>4. QED
      BY <3>3 DEF FullBackup, OnDisk
  <2>4. LogLength' >= Limit \/ LogLength' = events' \/ FullBackup'
    <3>1. LogLength >= Limit \/ LogLength = events \/ FullBackup
      BY <1>6 DEF LogInv
    <3>2. QED
      BY <1>6, <2>1, <2>2, <2>3, <3>1
  <2>5. ASSUME NEW q \in Processes, q # p, logger'[q].pc # "off"
        PROVE  Counted(q)' <= LogLength'
    <3>1. logger'[q] = logger[q] /\ Counted(q)' = Counted(q) /\ Counted(q) \in Nat
      BY <1>1, <1>3, <2>5 DEF Counted, LogTypeOK, Loggers
    <3>2. Counted(q) <= LogLength
      BY <1>6, <2>5, <3>1 DEF LogInv
    <3>3. QED
      BY <1>1, <1>2, <3>1, <3>2
  <2>6. QED
    BY <1>3, <1>6, <2>4, <2>5
<1>7. QED
  BY <1>2, <1>4, <1>5, <1>6 DEF LogInv

LEMMA LoggerFacts ==
  ASSUME LogInv, NEW p \in Processes
  PROVE  /\ logger[p] \in Loggers /\ LoggerInv(p) /\ Counted(p) \in Nat
         /\ ~clashed /\ logger[p].pc # "off" => Counted(p) <= LogLength
         /\ LogTypeOK /\ LogLength \in Nat /\ LogLength <= Cardinality(Used)
BY LogFacts DEF LogInv, LogTypeOK, Counted, Loggers

\* A step after which p has used no less, and the log is as long as it was.
LEMMA SameLength ==
  ASSUME LogInv, NEW p \in Processes, NEW next \in Loggers,
         logger' = [logger EXCEPT ![p] = next],
         \/ next.pc = "off"
         \/ logger[p].pc # "off" /\ Counted(p)' = Counted(p)
         \/ Counted(p)' >= Limit,
         Counted(p)' \in Nat,
         log' \in {log, LogEvents}, events' = events
  PROVE  LogLength' = LogLength /\ LogLength' <= Cardinality(Used')
<1>1. LogLength' = LogLength /\ LogLength <= Cardinality(Used)
  BY LogStays, LoggerFacts
<1>2. Cardinality(Used) <= Cardinality(Used')
  <2>1. /\ LogTypeOK /\ Counted(p) \in Nat /\ logger'[p] = next
        /\ \A q \in Processes : q # p => logger'[q] = logger[q]
    BY LoggerFacts, LoggerChange
  <2>2. \/ logger'[p].pc = "off"
        \/ logger[p].pc # "off" /\ Counted(p) <= Counted(p)'
        \/ Limit <= Counted(p)'
    BY <2>1
  <2>3. QED
    BY <2>1, <2>2, UsedKept
<1>3. QED
  BY <1>1, <1>2, UsedCount, UsedCountNext, LoggerFacts

LEMMA InitializeStep ==
  ASSUME LogInv, NEW p \in Processes, Initialize(p)
  PROVE  LogInv'
<1>1. PICK pc \in {"remove", "sized"} :
        /\ logger' = [logger EXCEPT ![p] = [Off EXCEPT !.pc = pc, !.size = LogLength]]
        /\ pc = "remove" <=> LogLength >= Limit
  BY DEF Initialize, LogLength
<1>2. /\ UNCHANGED <<log, backup, events, dropped, clashed>>
      /\ starts' \in Nat
  BY DEF Initialize, LogInv, LogTypeOK
<1>3. LogLength \in Nat /\ LogTypeOK
  BY LoggerFacts
<1>4. PICK next \in Loggers :
        /\ next = [Off EXCEPT !.pc = pc, !.size = LogLength]
        /\ next.pc = pc /\ next.size = LogLength /\ ~next.renamed
  <2>1. Off \in Loggers /\ ~Off.renamed
    BY DEF Off, Loggers
  <2>2. [Off EXCEPT !.pc = pc, !.size = LogLength] \in Loggers
    BY <1>3, <2>1 DEF Loggers
  <2>3. QED
    BY <1>3, <2>1, <2>2 DEF Loggers
<1>5. logger' = [logger EXCEPT ![p] = next]
  BY <1>1, <1>4
<1>6. Counted(p)' = LogLength
  BY <1>3, <1>4, <1>5, LoggerChange DEF Counted
<1>7. LogLength' = LogLength /\ LogLength' <= Cardinality(Used')
  <2>1. LogLength' = LogLength
    BY <1>2, LogStays
  <2>2. CASE LogLength >= Limit
    BY <1>2, <1>3, <1>5, <1>6, <2>2, SameLength
  <2>3. CASE LogLength < Limit
    BY <1>3, <1>6, <2>1, <2>3, UsedFirst
  <2>4. QED
    BY <1>3, <2>2, <2>3
<1>8. Counted(p)' <= LogLength'
  BY <1>3, <1>6, <1>7
<1>9. /\ next.pc # "open" /\ next.pc # "rename"
      /\ next.pc = "remove" => next.size >= Limit
  BY <1>1, <1>4
<1>10. /\ backup' \in Seq(Nat) /\ dropped' \in Nat /\ clashed' \in BOOLEAN
       /\ backup' = backup /\ clashed' = clashed
  BY <1>2, <1>3 DEF LogTypeOK
<1>11. log' \in {log, LogEvents} /\ events' = events
  BY <1>2
<1>12. ~clashed' => /\ ~clashed /\ (backup' = backup \/ LogLength >= Limit)
                    /\ next.pc # "off" => Counted(p)' <= LogLength'
  BY <1>8, <1>10
<1>13. starts' \in Nat
  BY <1>2
<1>14. QED
  BY <1>4, <1>5, <1>7, <1>9, <1>10, <1>11, <1>12, <1>13, NotShorter

LEMMA OpenLogStep ==
  ASSUME LogInv, NEW p \in Processes, OpenLog(p)
  PROVE  LogInv'
<1>1. /\ logger' = [logger EXCEPT ![p] = [logger[p] EXCEPT !.pc = "open"]]
      /\ log' = LogEvents /\ logger[p].pc = "sized"
      /\ UNCHANGED <<backup, events, dropped, starts, clashed>>
  BY DEF OpenLog, LogEvents
<1>2. /\ logger[p] \in Loggers /\ LoggerInv(p) /\ LogTypeOK /\ Counted(p) \in Nat
      /\ ~clashed => Counted(p) <= LogLength
  BY <1>1, LoggerFacts
<1>3. PICK next \in Loggers :
        /\ next = [logger[p] EXCEPT !.pc = "open"]
        /\ next.pc = "open" /\ next.size = logger[p].size
        /\ next.renamed = logger[p].renamed
  <2>1. [logger[p] EXCEPT !.pc = "open"] \in Loggers
    BY <1>2 DEF Loggers
  <2>2. QED
    BY <1>2, <2>1 DEF Loggers
<1>4. logger' = [logger EXCEPT ![p] = next]
  BY <1>1, <1>3
<1>5. Counted(p)' = Counted(p)
  BY <1>2, <1>3, <1>4, LoggerChange DEF Counted
<1>6. OnDisk(log)'
  BY <1>1, LogFacts DEF OnDisk
<1>7. LogLength' = LogLength /\ LogLength' <= Cardinality(Used')
  BY <1>1, <1>2, <1>4, <1>5, SameLength
<1>8. ~next.renamed
  BY <1>1, <1>2, <1>3 DEF LoggerInv
<1>9. next.pc # "remove" /\ next.pc # "rename"
  BY ONLY <1>3
<1>10. /\ backup' \in Seq(Nat) /\ dropped' \in Nat /\ starts' \in Nat /\ clashed' \in BOOLEAN
       /\ backup' = backup /\ clashed' = clashed
  BY <1>1, <1>2 DEF LogTypeOK
<1>11. log' \in {log, LogEvents} /\ events' = events
  BY <1>1
<1>12. ~clashed' => ~clashed /\ Counted(p)' <= LogLength'
  BY <1>2, <1>5, <1>7, <1>10
<1>13. QED
  BY <1>4, <1>6, <1>7, <1>8, <1>9, <1>10, <1>11, <1>12, NotShorter

LEMMA WriteStep ==
  ASSUME LogInv, NEW p \in Processes, Write(p)
  PROVE  LogInv'
<1>1. /\ logger[p].pc = "open" /\ OnDisk(log) /\ ~logger[p].renamed
      /\ logger[p] \in Loggers /\ LogTypeOK /\ Counted(p) = logger[p].size
      /\ logger[p].size \in Nat
  BY LoggerFacts DEF Write, MayWrite, Opened, LoggerInv, Counted, Loggers
<1>2. PICK size \in Nat : size = logger[p].size + 1
  BY <1>1
<1>3. /\ logger' = [logger EXCEPT ![p] = [logger[p] EXCEPT !.size = size]]
      /\ log' = Append(LogEvents, events + 1) /\ events' = events + 1
      /\ UNCHANGED <<backup, dropped, starts, clashed>>
  BY <1>1, <1>2 DEF Write, LogEvents
<1>4. logger[p].size < Limit
  BY <1>1, FullMeansLimit DEF Write
<1>5. PICK next \in Loggers :
        /\ next = [logger[p] EXCEPT !.size = size]
        /\ next.pc = "open" /\ next.size = size /\ ~next.renamed
  <2>1. [logger[p] EXCEPT !.size = size] \in Loggers
    BY <1>1 DEF Loggers
  <2>2. QED
    BY <1>1, <2>1 DEF Loggers
<1>6. logger' = [logger EXCEPT ![p] = next]
  BY <1>3, <1>5
<1>7. Counted(p)' = Counted(p) + 1
  BY <1>1, <1>2, <1>5, <1>6, LoggerChange DEF Counted
<1>8. LogLength' = LogLength + 1 /\ OnDisk(log)'
  BY <1>3, LogAppends
<1>9. LogLength' <= Cardinality(Used')
  <2>1. Cardinality(Used) + 1 <= Cardinality(Used')
    BY <1>1, <1>4, <1>6, <1>7, LoggerChange, UsedGrows
  <2>2. QED
    BY <1>8, <2>1, LoggerFacts, UsedCount, UsedCountNext
<1>10. ~clashed' => Counted(p)' <= LogLength'
  BY <1>1, <1>3, <1>7, <1>8, LoggerFacts
<1>11. QED
  BY <1>1, <1>3, <1>5, <1>6, <1>8, <1>9, <1>10, NotShorter DEF LogTypeOK

\* The steps of a rotation up to the renaming.
LEMMA RotatesStep ==
  ASSUME LogInv, NEW p \in Processes,
         WriteRotates(p) \/ RemoveBackup(p) \/ RemoveFails(p)
  PROVE  LogInv'
<1>1. /\ logger[p] \in Loggers /\ LoggerInv(p) /\ LogTypeOK /\ Counted(p) \in Nat
      /\ logger[p].pc # "off" /\ logger[p].pc # "reopen" /\ ~logger[p].renamed
      /\ Counted(p) = logger[p].size /\ logger[p].size \in Nat
      /\ ~clashed => Counted(p) <= LogLength
  BY LoggerFacts DEF LoggerInv, Counted, WriteRotates, RemoveBackup, RemoveFails,
    MayWrite, Opened, Loggers
<1>2. PICK next \in Loggers :
        /\ logger' = [logger EXCEPT ![p] = next]
        /\ next.pc \in {"remove", "rename", "reopen"} /\ next.size = logger[p].size
        /\ ~next.renamed
  <2>1. CASE WriteRotates(p)
    <3>1. [logger[p] EXCEPT !.pc = "remove", !.writing = TRUE] \in Loggers
      BY <1>1 DEF Loggers
    <3>2. logger' =
            [logger EXCEPT ![p] = [logger[p] EXCEPT !.pc = "remove", !.writing = TRUE]]
      BY <2>1 DEF WriteRotates
    <3>3. QED
      BY <1>1, <3>1, <3>2 DEF Loggers
  <2>2. CASE RemoveBackup(p)
    <3>1. [logger[p] EXCEPT !.pc = "rename"] \in Loggers
      BY <1>1 DEF Loggers
    <3>2. QED
      BY <1>1, <2>2, <3>1 DEF RemoveBackup, Loggers
  <2>3. CASE RemoveFails(p)
    <3>1. [logger[p] EXCEPT !.pc = "reopen"] \in Loggers
      BY <1>1 DEF Loggers
    <3>2. QED
      BY <1>1, <2>3, <3>1 DEF RemoveFails, Loggers
  <2>4. QED
    BY <2>1, <2>2, <2>3
<1>3. logger[p].size >= Limit
  BY <1>1, FullMeansLimit DEF WriteRotates, RemoveBackup, RemoveFails, LoggerInv
<1>4. /\ UNCHANGED <<log, events, dropped, starts>>
      /\ backup' \in Seq(Nat) /\ clashed' \in BOOLEAN /\ (~clashed' => ~clashed)
  BY <1>1, LogFacts DEF WriteRotates, RemoveBackup, RemoveFails, LogTypeOK
<1>5. Counted(p)' = Counted(p)
  BY <1>1, <1>2, LoggerChange DEF Counted
<1>6. LogLength' = LogLength /\ LogLength' <= Cardinality(Used')
  BY <1>1, <1>2, <1>4, <1>5, SameLength
<1>7. ~clashed => LogLength >= Limit
  BY <1>1, <1>3, LogFacts
<1>8. QED
  BY <1>1, <1>2, <1>3, <1>4, <1>5, <1>6, <1>7, NotShorter DEF LogTypeOK

LEMMA EndsStep ==
  ASSUME LogInv, NEW p \in Processes, Ends(p)
  PROVE  LogInv'
<1>1. /\ logger' = [logger EXCEPT ![p] = Off]
      /\ UNCHANGED <<log, backup, events, starts, clashed>>
      /\ dropped' \in Nat /\ LogTypeOK
  BY DEF Ends, LogInv, LogTypeOK
<1>2. Off \in Loggers /\ Off.pc = "off" /\ ~Off.renamed /\ Off.size = 0
  BY DEF Off, Loggers
<1>3. Counted(p)' = 0
  BY <1>1, <1>2, LoggerChange DEF Counted
<1>4. PICK next \in Loggers : next = Off
  BY <1>2
<1>5. LogLength' = LogLength /\ LogLength' <= Cardinality(Used')
  <2>1. logger' = [logger EXCEPT ![p] = next] /\ next.pc = "off"
    BY <1>1, <1>2, <1>4
  <2>2. Counted(p)' \in Nat /\ log' \in {log, LogEvents} /\ events' = events
    BY <1>1, <1>3
  <2>3. QED
    BY <2>1, <2>2, SameLength
<1>6. QED
  BY <1>1, <1>2, <1>4, <1>5, NotShorter DEF LogTypeOK

LEMMA RenameLogStep ==
  ASSUME LogInv, NEW p \in Processes, RenameLog(p)
  PROVE  LogInv'
<1>1. /\ logger[p] \in Loggers /\ LoggerInv(p) /\ LogTypeOK /\ Counted(p) \in Nat
      /\ logger[p].pc = "rename" /\ ~logger[p].renamed
      /\ Counted(p) = logger[p].size /\ logger[p].size >= Limit
      /\ ~clashed => Counted(p) <= LogLength
  BY LoggerFacts DEF LoggerInv, Counted, RenameLog
<1>2. PICK renames \in BOOLEAN : renames = (OnDisk(log) /\ ~OpenedByOthers(p))
  OBVIOUS
<1>3. /\ log' = IF renames THEN NoLog ELSE log
      /\ backup' = IF renames THEN log ELSE backup
      /\ logger' = [logger EXCEPT ![p] =
                      [logger[p] EXCEPT !.pc = "reopen", !.renamed = renames]]
      /\ clashed' = (clashed \/ RunningOthers(p))
      /\ UNCHANGED <<events, dropped, starts>>
  BY <1>2 DEF RenameLog
<1>4. PICK next \in Loggers :
        /\ next = [logger[p] EXCEPT !.pc = "reopen", !.renamed = renames]
        /\ next.pc = "reopen" /\ next.size = logger[p].size /\ next.renamed = renames
  <2>1. [logger[p] EXCEPT !.pc = "reopen", !.renamed = renames] \in Loggers
    BY <1>1 DEF Loggers
  <2>2. QED
    BY <1>1, <2>1 DEF Loggers
<1>5. logger' = [logger EXCEPT ![p] = next]
  BY <1>3, <1>4
<1>6. /\ logger' \in [Processes -> Loggers] /\ logger'[p] = next
      /\ \A q \in Processes : q # p => logger'[q] = logger[q]
  BY <1>1, <1>5, LoggerChange
<1>7. /\ dropped' \in Nat /\ starts' \in Nat /\ clashed' \in BOOLEAN
      /\ ~clashed' => ~clashed
  BY <1>1, <1>3 DEF LogTypeOK, RunningOthers
<1>8. CASE ~renames
  <2>1. log' = log /\ backup' = backup /\ events' = events /\ backup' \in Seq(Nat)
    BY <1>1, <1>3, <1>8 DEF LogTypeOK
  <2>2. Counted(p)' = Counted(p)
    BY <1>1, <1>4, <1>6, <1>8 DEF Counted
  <2>3. LogLength' = LogLength /\ LogLength' <= Cardinality(Used')
    BY <1>1, <1>5, <2>1, <2>2, SameLength
  <2>4. QED
    BY <1>1, <1>4, <1>5, <1>7, <2>1, <2>2, <2>3, NotShorter
<1>9. CASE renames
  <2>1. /\ OnDisk(log) /\ ~OpenedByOthers(p) /\ log' = NoLog /\ backup' = log
        /\ events' = events
    BY <1>2, <1>3, <1>9
  <2>2. ~OnDisk(log)' /\ LogLength' = 0
    BY <2>1 DEF OnDisk, LogLength
  <2>3. LogTypeOK'
    BY <1>1, <1>3, <1>6, <1>7, <2>1, LogFacts DEF LogTypeOK
  <2>4. ASSUME NEW q \in Processes
        PROVE  LoggerInv(q)'
    <3>1. CASE q = p
      BY <1>4, <1>6, <3>1 DEF LoggerInv, Opened
    <3>2. CASE q # p
      <4>1. LoggerInv(q) /\ logger'[q] = logger[q] /\ ~Opened(q)
        BY <1>6, <2>1, <3>2 DEF LogInv, OpenedByOthers
      <4>2. QED
        BY <4>1 DEF LoggerInv, Opened
    <3>3. QED
      BY <3>1, <3>2
  <2>5. LogLength' <= Cardinality(Used')
    BY <2>2, UsedCountNext
  <2>6. ASSUME ~clashed'
        PROVE  FullBackup'
    <3>1. Len(log) >= Limit /\ UpTo(log, events)
      BY <1>1, <1>7, <2>1, <2>6 DEF LogInv, LogLength, LogTypeOK
    <3>2. events' - LogLength' = events
      BY <1>1, <2>1, <2>2 DEF LogTypeOK
    <3>3. UpTo(backup, events - LogLength)'
      <4>1. \A i \in 1 .. Len(backup') :
              backup'[i] = events' - LogLength' - Len(backup') + i
        BY <2>1, <3>1, <3>2 DEF UpTo
      <4>2. QED
        BY <4>1 DEF UpTo
    <3>4. OnDisk(backup)' /\ Len(backup') >= Limit
      BY <2>1, <3>1 DEF OnDisk
    <3>5. QED
      BY <3>3, <3>4 DEF FullBackup
  <2>7. ASSUME ~clashed', NEW q \in Processes, logger'[q].pc # "off"
        PROVE  Counted(q)' <= LogLength'
    <3>1. ~RunningOthers(p)
      BY <1>3, <2>7
    <3>2. q = p
      BY <1>6, <2>7, <3>1 DEF RunningOthers
    <3>3. Counted(q)' = 0
      BY <1>4, <1>6, <1>9, <3>2 DEF Counted
    <3>4. QED
      BY <2>2, <3>3
  <2>8. QED
    BY <2>2, <2>3, <2>4, <2>5, <2>6, <2>7 DEF LogInv
<1>10. QED
  BY <1>8, <1>9

LEMMA ReopenStep ==
  ASSUME LogInv, NEW p \in Processes, Reopen(p)
  PROVE  LogInv'
<1>1. /\ logger[p] \in Loggers /\ LogTypeOK /\ Counted(p) \in Nat
      /\ logger[p].pc = "reopen" /\ LogLength \in Nat
      /\ ~clashed => Counted(p) <= LogLength
  BY LoggerFacts DEF Reopen, Reopened
<1>2. PICK writes \in BOOLEAN : writes = (logger[p].writing /\ logger[p].renamed)
  OBVIOUS
<1>3. PICK size \in Nat : size = IF writes THEN Counted(p) + 1 ELSE Counted(p)
  BY <1>1
<1>4. /\ events' = IF writes THEN events + 1 ELSE events
      /\ log' = IF writes THEN Append(LogEvents, events') ELSE LogEvents
      /\ dropped' = IF logger[p].writing /\ ~writes THEN dropped + 1 ELSE dropped
      /\ logger' = [logger EXCEPT ![p] = [Off EXCEPT !.pc = "open", !.size = size]]
      /\ UNCHANGED <<backup, starts, clashed>>
  BY <1>2, <1>3 DEF Reopen, Reopened, LogEvents, Counted
<1>5. PICK next \in Loggers :
        /\ next = [Off EXCEPT !.pc = "open", !.size = size]
        /\ next.pc = "open" /\ next.size = size /\ ~next.renamed
  <2>1. Off \in Loggers /\ ~Off.renamed
    BY DEF Off, Loggers
  <2>2. [Off EXCEPT !.pc = "open", !.size = size] \in Loggers
    BY <2>1 DEF Loggers
  <2>3. QED
    BY <2>1, <2>2 DEF Loggers
<1>6. /\ logger' = [logger EXCEPT ![p] = next] /\ logger'[p] = next
      /\ \A q \in Processes : q # p => logger'[q] = logger[q]
  BY <1>1, <1>4, <1>5, LoggerChange
<1>7. Counted(p)' = size
  BY <1>5, <1>6 DEF Counted
<1>8. dropped' \in Nat /\ backup' \in Seq(Nat) /\ starts' \in Nat /\ clashed' \in BOOLEAN
  BY <1>1, <1>4 DEF LogTypeOK
<1>9. CASE ~writes
  <2>1. log' = LogEvents /\ events' = events /\ Counted(p)' = Counted(p)
    BY <1>3, <1>4, <1>7, <1>9
  <2>2. LogLength' = LogLength /\ LogLength' <= Cardinality(Used')
    BY <1>1, <1>6, <2>1, SameLength
  <2>3. OnDisk(log)'
    BY <2>1, LogFacts DEF OnDisk
  <2>4. ~clashed' => /\ ~clashed /\ backup' = backup
                     /\ Counted(p)' <= LogLength'
    BY <1>1, <1>4, <2>1, <2>2
  <2>5. QED
    BY <1>5, <1>6, <1>8, <2>1, <2>2, <2>3, <2>4, NotShorter
<1>10. CASE writes
  <2>1. /\ log' = Append(LogEvents, events + 1) /\ events' = events + 1
        /\ Counted(p) = 0 /\ Counted(p)' = Counted(p) + 1
    BY <1>2, <1>3, <1>4, <1>7, <1>10 DEF Counted
  <2>2. LogLength' = LogLength + 1 /\ OnDisk(log)'
    BY <2>1, LogAppends
  <2>3. Cardinality(Used) + 1 <= Cardinality(Used')
    BY <1>1, <1>6, <2>1, UsedGrows
  <2>4. LogLength' <= Cardinality(Used')
    BY <2>2, <2>3, LoggerFacts, UsedCount, UsedCountNext
  <2>5. ~clashed' => ~clashed /\ Counted(p)' <= LogLength'
    BY <1>1, <1>4, <2>1, <2>2
  <2>6. QED
    BY <1>1, <1>4, <1>5, <1>6, <1>8, <2>1, <2>2, <2>4, <2>5, NotShorter
<1>11. QED
  BY <1>9, <1>10

LEMMA LogInvStep == LogInv /\ [LogNext]_logVars => LogInv'
<1>1. LogInv /\ UNCHANGED logVars => LogInv'
  BY DEF logVars, LogInv, LogTypeOK, LoggerInv, Opened, LogLength, Used, Counted,
    FullBackup
<1>2. QED
  BY <1>1, InitializeStep, OpenLogStep, WriteStep, RotatesStep, RenameLogStep,
    ReopenStep, EndsStep DEF LogNext, LogStep

LEMMA LogAlwaysInv == LogSpec => []LogInv
<1>1. LogInit => LogInv
  <2> SUFFICES ASSUME LogInit PROVE LogInv
    OBVIOUS
  <2>1. ~OnDisk(log) /\ LogLength = 0 /\ events = 0 /\ NoLog \in Seq(Nat)
    BY DEF LogInit, OnDisk, LogLength, NoLog
  <2>2. Off \in Loggers /\ Off.pc = "off" /\ ~Off.renamed
    BY DEF Off, Loggers
  <2>3. LogTypeOK
    <3>1. starts \in Nat
      BY DEF LogInit, LogAssumption
    <3>2. log \in Seq(Nat) /\ backup \in Seq(Nat)
      BY <2>1 DEF LogInit
    <3>3. logger \in [Processes -> Loggers]
      BY <2>2 DEF LogInit
    <3>4. clashed = FALSE /\ dropped = 0
      BY DEF LogInit
    <3>5. QED
      BY <2>1, <3>1, <3>2, <3>3, <3>4 DEF LogTypeOK
  <2>4. \A p \in Processes : logger[p].pc = "off" /\ ~logger[p].renamed
    BY <2>2 DEF LogInit
  <2>5. QED
    BY <2>1, <2>3, <2>4, UsedCount DEF LogInv, LoggerInv, Opened
<1>2. QED
  BY <1>1, LogInvStep, PTL DEF LogSpec

\* The log never holds more than the limit times the number of processes, for
\* any finite number of them and any limit.
THEOREM LogAlwaysBounded == LogSpec => []LogBounded
<1>1. LogInv => LogBounded
  <2> SUFFICES ASSUME LogInv, OnDisk(log)
               PROVE  Len(log) <= Limit * Cardinality(Processes)
    BY DEF LogBounded
  <2>1. Len(log) = LogLength /\ LogLength \in Nat /\ LogLength <= Cardinality(Used)
    BY LogFacts DEF LogInv, LogLength
  <2>2. Limit * Cardinality(Processes) \in Nat
    BY SlotsCount
  <2>3. QED
    BY <2>1, <2>2, UsedCount
<1>2. QED
  BY <1>1, LogAlwaysInv, PTL

\* The newest events are in the log or its backup unless another process ran
\* during a rotation, for any limit and any number of events.
THEOREM NewestAlwaysKept == LogSpec => []NewestKept
<1>1. LogInv => NewestKept
  <2> SUFFICES ASSUME LogInv, ~clashed, NEW e \in 1 .. events, e > events - Limit
               PROVE  e \in Events(log) \cup Events(backup)
    BY DEF NewestKept
  <2>1. /\ events \in Nat /\ LogLength \in Nat /\ LogLength <= events
        /\ log \in Seq(Nat) /\ backup \in Seq(Nat)
    BY LogFacts DEF LogInv, LogTypeOK
  <2>2. CASE e > events - LogLength
    <3>1. OnDisk(log) /\ Len(log) = LogLength /\ UpTo(log, events)
      BY <2>1, <2>2 DEF LogInv, LogLength
    <3>2. e - events + Len(log) \in 1 .. Len(log)
      BY <2>1, <2>2, <3>1
    <3>3. log[e - events + Len(log)] = e
      BY <2>1, <3>1, <3>2 DEF UpTo
    <3>4. QED
      BY <2>1, <3>1, <3>2, <3>3 DEF Events
  <2>3. CASE e <= events - LogLength
    <3>1. FullBackup
      BY <2>1, <2>3 DEF LogInv
    <3>2. PICK last \in Nat : last = events - LogLength
      BY <2>1
    <3>3. OnDisk(backup) /\ Len(backup) >= Limit /\ UpTo(backup, last)
      BY <3>1, <3>2 DEF FullBackup
    <3>4. e - last + Len(backup) \in 1 .. Len(backup)
      BY <2>1, <2>3, <3>2, <3>3
    <3>5. backup[e - last + Len(backup)] = e
      <4>1. backup[e - last + Len(backup)] =
              last - Len(backup) + (e - last + Len(backup))
        BY <3>3, <3>4 DEF UpTo
      <4>2. QED
        BY <2>1, <3>2, <4>1
    <3>6. QED
      BY <2>1, <3>3, <3>4, <3>5 DEF Events
  <2>4. QED
    BY <2>1, <2>2, <2>3
<1>2. QED
  BY <1>1, LogAlwaysInv, PTL
=============================================================================
