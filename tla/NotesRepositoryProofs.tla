----------------------- MODULE NotesRepositoryProofs -----------------------
(***************************************************************************)
(* Proofs about NotesRepository for every number of processes, notes,      *)
(* bodies and tags and every set of faults.                                *)
(***************************************************************************)
EXTENDS NotesRaces, TLAPS

\* The part of the type invariant that a jump or a return of a call touches.
ControlOK ==
    /\ pc \in [Procs -> Labels]
    /\ scan \in [Procs -> Scan]
    /\ result \in [Procs -> Result]

\* A return with an error code, a return with OK and a jump keep the control
\* state well typed.
LEMMA FailType ==
    ASSUME NEW p \in Procs, NEW code \in Codes, ControlOK, Fail(p, code)
    PROVE  ControlOK'
<1>1. [scan[p] EXCEPT !.items = {}] \in Scan
  BY DEF ControlOK, Scan
<1>2. [code |-> code, note |-> None] \in Result
  BY DEF Result
<1>3. QED
  BY <1>1, <1>2 DEF ControlOK, Fail, Labels

\* Ending a call with success keeps the control state well typed.
LEMMA SucceedType ==
    ASSUME NEW p \in Procs, NEW note \in Note \cup {None}, ControlOK,
           Succeed(p, note), UNCHANGED scan
    PROVE  ControlOK'
<1>1. [code |-> "OK", note |-> note] \in Result
  BY DEF Result, Codes
<1>2. QED
  BY <1>1 DEF ControlOK, Succeed, Labels

\* Moving to another line keeps the control state well typed.
LEMMA GotoType ==
    ASSUME NEW p \in Procs, NEW label \in Labels, ControlOK, Goto(p, label)
    PROVE  ControlOK'
BY DEF ControlOK, Goto

\* The disk and the open files are well typed in every step of writing.
DiskOK ==
    /\ dir \in [Ids -> Content]
    /\ tmp \in [Ids -> Content]
    /\ fd \in [Procs -> {"closed", "tmp", "note", "lost"}]

\* Every system call of a process keeps the state well typed.
LEMMA StepType ==
    ASSUME TypeOK, OpFitsLabel, NEW p \in Procs, Step(p)
    PROVE  TypeOK'
<1> USE ConstantsAssumption
<1>0. DiskOK /\ ControlOK /\ req \in [Procs -> Request]
  BY DEF TypeOK, DiskOK, ControlOK
<1>a. {"NOT_FOUND", "ALREADY_EXISTS", "IO_ERROR", "JSON_ERROR", "NO_MEMORY"} \subseteq Codes
  BY DEF Codes
<1>b. {"open", "unlink", "load", "write", "rename", "unlinkTmp"} \subseteq Labels
  BY DEF Labels
<1>1. CASE CreateStat(p) \/ UpdateStat(p) \/ DeleteStat(p) \/ GetStat(p)
  <2>1. \/ \E code \in Codes : Fail(p, code)
        \/ \E label \in Labels : Goto(p, label)
    BY <1>1, <1>a, <1>b DEF CreateStat, UpdateStat, DeleteStat, GetStat
  <2>2. UNCHANGED <<dir, tmp, req, fd>>
    BY <1>1 DEF CreateStat, UpdateStat, DeleteStat, GetStat
  <2>3. QED
    BY <1>0, <2>1, <2>2, FailType, GotoType DEF TypeOK, DiskOK, ControlOK
<1>2. CASE OpenTmp(p)
  <2>1. \/ Fail(p, "IO_ERROR")
        \/ Goto(p, "write")
    BY <1>2 DEF OpenTmp
  <2>2. ControlOK'
    BY <1>0, <1>a, <1>b, <2>1, FailType, GotoType
  <2>3. DiskOK'
    BY <1>0, <1>2 DEF OpenTmp, DiskOK, Content
  <2>4. QED
    BY <1>0, <1>2, <2>2, <2>3 DEF OpenTmp, TypeOK, DiskOK, ControlOK
<1>3. CASE WriteTmp(p)
  <2>1. \/ Fail(p, "IO_ERROR")
        \/ Goto(p, "rename")
    BY <1>3 DEF WriteTmp
  <2>2. ControlOK'
    BY <1>0, <1>a, <1>b, <2>1, FailType, GotoType
  <2>3. NoteOf(p) \in Note /\ req[p].id \in Ids
    BY <1>0, <1>3 DEF WriteTmp, OpFitsLabel, NoteOf, Note, Request, WriteRequest,
                      NameRequest, ListRequest, NoRequest
  <2>4. tmp[req[p].id] \in Content /\ dir[req[p].id] \in Content
    BY <1>0, <2>3 DEF DiskOK
  <2>5. DiskOK'
    BY <1>0, <1>3, <2>3, <2>4 DEF WriteTmp, Overwrite, DiskOK, Content
  <2>6. QED
    BY <1>0, <1>3, <2>2, <2>5 DEF WriteTmp, TypeOK, DiskOK, ControlOK
<1>4. CASE RenameTmp(p)
  <2>1. \/ Succeed(p, None) /\ UNCHANGED scan
        \/ Goto(p, "unlinkTmp")
    BY <1>4 DEF RenameTmp
  <2>2. ControlOK'
    BY <1>0, <1>b, <2>1, SucceedType, GotoType
  <2>3. DiskOK'
    BY <1>0, <1>4 DEF RenameTmp, FdAfterRename, DiskOK, Content
  <2>4. QED
    BY <1>0, <1>4, <2>2, <2>3 DEF RenameTmp, TypeOK, DiskOK, ControlOK
<1>5. CASE UnlinkTmp(p)
  <2>1. ControlOK'
    BY <1>0, <1>5, <1>a, FailType DEF UnlinkTmp
  <2>2. DiskOK'
    BY <1>0, <1>5 DEF UnlinkTmp, FdAfterUnlink, DiskOK, Content
  <2>3. QED
    BY <1>0, <1>5, <2>1, <2>2 DEF UnlinkTmp, TypeOK, DiskOK, ControlOK
<1>6. CASE UnlinkNote(p)
  <2>1. \/ Succeed(p, None) /\ UNCHANGED scan
        \/ Fail(p, "IO_ERROR")
    BY <1>6 DEF UnlinkNote
  <2>2. ControlOK'
    BY <1>0, <1>a, <2>1, SucceedType, FailType
  <2>3. DiskOK'
    BY <1>0, <1>6 DEF UnlinkNote, FdAfterUnlink, DiskOK, Content
  <2>4. QED
    BY <1>0, <1>6, <2>2, <2>3 DEF UnlinkNote, TypeOK, DiskOK, ControlOK
<1>7. CASE GetLoad(p)
  <2>1. \/ \E note \in Note : Succeed(p, note) /\ UNCHANGED scan
        \/ Fail(p, "JSON_ERROR")
    BY <1>7 DEF GetLoad
  <2>2. ControlOK'
    BY <1>0, <1>a, <2>1, SucceedType, FailType
  <2>3. QED
    BY <1>0, <1>7, <2>2 DEF GetLoad, TypeOK, DiskOK, ControlOK
<1>8. CASE OpenDir(p) \/ ReadEntry(p) \/ ListLoad(p) \/ EndOfDir(p)
  <2>1. \/ pc' \in [Procs -> Labels] /\ scan' \in [Procs -> Scan] /\ UNCHANGED result
        \/ Succeed(p, None) /\ UNCHANGED scan
        \/ \E code \in Codes : Fail(p, code)
    <3>1. CASE OpenDir(p)
      <4>1. [scan[p] EXCEPT !.snap = {id \in Ids : dir[id] # None}] \in Scan
        BY <1>0 DEF ControlOK, Scan
      <4>2. CASE Fail(p, "IO_ERROR")
        BY <1>a, <4>2
      <4>3. CASE ~Fail(p, "IO_ERROR")
        <5>1. /\ scan' = [scan EXCEPT ![p] = [scan[p] EXCEPT
                                                !.snap = {id \in Ids : dir[id] # None}]]
              /\ pc' = [pc EXCEPT ![p] = "readdir"]
              /\ UNCHANGED result
          BY <3>1, <4>3 DEF OpenDir
        <5>2. QED
          BY <1>0, <4>1, <5>1 DEF ControlOK, Labels
      <4>4. QED
        BY <4>2, <4>3
    <3>2. CASE ReadEntry(p)
      <4>1. PICK id \in Ids :
                scan' = [scan EXCEPT ![p].cur = id, ![p].seen = @ \cup {id}]
        BY <3>2 DEF ReadEntry
      <4>2. [scan[p] EXCEPT !.cur = id, !.seen = @ \cup {id}] \in Scan
        <5>1. scan[p] \in Scan /\ scan[p].seen \cup {id} \in SUBSET Ids
          BY <1>0 DEF ControlOK, Scan
        <5>2. ASSUME NEW seen \in SUBSET Ids
              PROVE  [scan[p] EXCEPT !.cur = id, !.seen = seen] \in Scan
          BY <5>1 DEF Scan
        <5>3. QED
          BY <5>1, <5>2
      <4>3. scan' \in [Procs -> Scan]
        <5>1. scan' = [scan EXCEPT ![p] = [scan[p] EXCEPT !.cur = id,
                                                           !.seen = @ \cup {id}]]
          BY <4>1
        <5>2. QED
          BY <1>0, <4>2, <5>1 DEF ControlOK
      <4>4. QED
        BY <1>0, <3>2, <4>3 DEF ReadEntry, ControlOK, Labels
    <3>3. CASE ListLoad(p)
      <4>1. ASSUME NEW items \in SUBSET Note
            PROVE  [scan[p] EXCEPT !.items = items] \in Scan
        BY <1>0 DEF ControlOK, Scan
      <4>2. scan[p].items \in SUBSET Note
        BY <1>0 DEF ControlOK, Scan
      <4>3. CASE Fail(p, "JSON_ERROR")
        BY <1>a, <4>3
      <4>4. CASE ~Fail(p, "JSON_ERROR")
        <5>1. PICK items \in SUBSET Note : scan' = [scan EXCEPT ![p].items = items]
          BY <3>3, <4>2, <4>4 DEF ListLoad
        <5>2. scan' = [scan EXCEPT ![p] = [scan[p] EXCEPT !.items = items]]
          BY <5>1
        <5>3. QED
          BY <1>0, <3>3, <4>1, <4>4, <5>2 DEF ListLoad, ControlOK, Labels
      <4>5. QED
        BY <4>3, <4>4
    <3>4. CASE EndOfDir(p)
      BY <3>4 DEF EndOfDir
    <3>5. QED
      BY <1>8, <3>1, <3>2, <3>3, <3>4
  <2>2. ControlOK'
    BY <1>0, <2>1, SucceedType, FailType DEF ControlOK
  <2>3. UNCHANGED <<dir, tmp, req, fd>>
    BY <1>8 DEF OpenDir, ReadEntry, ListLoad, EndOfDir
  <2>4. QED
    BY <1>0, <2>2, <2>3 DEF TypeOK, DiskOK, ControlOK
<1>9. CASE OutOfMemory(p)
  <2>1. ControlOK'
    BY <1>0, <1>9, <1>a, FailType DEF OutOfMemory
  <2>2. QED
    BY <1>0, <1>9, <2>1 DEF OutOfMemory, TypeOK, DiskOK, ControlOK
<1>10. QED
  BY <1>1, <1>2, <1>3, <1>4, <1>5, <1>6, <1>7, <1>8, <1>9 DEF Step

\* Every system call leads to a label that fits the operation.
LEMMA StepFits ==
    ASSUME TypeOK, OpFitsLabel, NEW p \in Procs, Step(p)
    PROVE  OpFitsLabel'
<1>1. UNCHANGED req /\ \A q \in Procs \ {p} : pc'[q] = pc[q]
  BY DEF TypeOK, Step, CreateStat, UpdateStat, DeleteStat, GetStat, OpenTmp, WriteTmp,
         RenameTmp, UnlinkTmp, UnlinkNote, GetLoad, OpenDir, ReadEntry, ListLoad,
         EndOfDir, OutOfMemory, Fail, Succeed, Goto
<1>2. \/ pc'[p] \in {"done", "stat", "load"}
      \/ pc'[p] \in {"open", "write", "rename", "unlinkTmp"}
            /\ req[p].op \in {"create", "update"}
      \/ pc'[p] = "unlink" /\ req[p].op = "delete"
      \/ pc'[p] = "readdir" /\ req[p].op = "list"
  BY DEF TypeOK, OpFitsLabel, Step, CreateStat, UpdateStat, DeleteStat, GetStat, OpenTmp,
         WriteTmp, RenameTmp, UnlinkTmp, UnlinkNote, GetLoad, OpenDir, ReadEntry,
         ListLoad, EndOfDir, OutOfMemory, Fail, Succeed, Goto
<1>3. QED
  BY <1>1, <1>2 DEF OpFitsLabel

WriteOps == {"create", "update", "delete"}

\* Every arrival is the start of a well-formed call, a writing one on a note
\* that is the process's own.
LEMMA ArriveCalls ==
    ASSUME NEW p \in Procs, Arrive(p)
    PROVE  \E request \in Request, label \in {"stat", "opendir"} :
              /\ Call(p, request, label)
              /\ request.op # "none"
              /\ label = "opendir" <=> request.op = "list"
              /\ request.op \in WriteOps => request.id \in Writable[p]
<1>1. CASE \E id \in Ids, body \in Bodies :
              CallCreate(p, id, body) \/ CallUpdate(p, id, body)
  BY <1>1 DEF CallCreate, CallUpdate, Request, WriteRequest
<1>2. CASE \E id \in Ids : CallDelete(p, id) \/ CallGet(p, id)
  BY <1>2 DEF CallDelete, CallGet, Request, NameRequest, WriteOps
<1>3. CASE \E tag \in Tags \cup {None} : CallList(p, tag)
  BY <1>3 DEF CallList, Request, ListRequest, WriteOps
<1>4. QED
  BY <1>1, <1>2, <1>3 DEF Arrive

\* A type-correct state together with the operation each label belongs to.
TypeInv == TypeOK /\ OpFitsLabel

\* Every step of a process keeps the types.
LEMMA TypeInductive ==
    ASSUME TypeInv, [Next]_vars
    PROVE  TypeInv'
<1> USE ConstantsAssumption
<1>1. ASSUME NEW p \in Procs, Arrive(p) PROVE TypeInv'
  <2>1. PICK request \in Request, label \in {"stat", "opendir"} :
           Call(p, request, label) /\ (label = "opendir" => request.op = "list")
    BY <1>1, ArriveCalls
  <2>2. QED
    BY <2>1 DEF Call, TypeInv, TypeOK, OpFitsLabel, Labels
<1>2. ASSUME NEW p \in Procs, Step(p) PROVE TypeInv'
  BY <1>2, StepType, StepFits DEF TypeInv
<1>3. ASSUME NEW p \in Procs, Return(p) \/ Crash(p) PROVE TypeInv'
  <2>1. NoRequest \in Request /\ NoScan \in Scan /\ NoResult \in Result
    BY DEF Request, NoScan, Scan, NoResult, Result
  <2>2. QED
    BY <1>3, <2>1 DEF Return, Crash, Idle, TypeInv, TypeOK, OpFitsLabel, Labels
<1>4. CASE UNCHANGED vars
  BY <1>4 DEF vars, TypeInv, TypeOK, OpFitsLabel
<1>5. QED
  BY <1>1, <1>2, <1>3, <1>4 DEF Next

\* TypeInv is an invariant.
LEMMA TypeInvariance == Spec => []TypeInv
<1>1. Init => TypeInv
  BY ConstantsAssumption DEF Init, TypeInv, TypeOK, OpFitsLabel, Content, Labels,
     Request, Scan, NoScan, Result, NoResult
<1>2. TypeInv /\ [Next]_vars => TypeInv'
  BY TypeInductive
<1>3. QED
  BY <1>1, <1>2, PTL DEF Spec

\* The repository starts in a well-typed state and every step, whatever fails
\* and whoever interferes, leads to one.
THEOREM TypeCorrect == Spec => []TypeOK
<1>1. TypeInv => TypeOK
  BY DEF TypeInv
<1>2. QED
  BY <1>1, TypeInvariance, PTL

-----------------------------------------------------------------------------
(* One writer per note *)

\* What WriterInv says of process p alone: its temporary file and what it has
\* checked.
TmpIsMineAt(p) ==
    /\ fd[p] = IF pc[p] = "write" THEN "tmp" ELSE "closed"
    /\ pc[p] = "write" => tmp[req[p].id] = Empty
    /\ pc[p] = "rename" => tmp[req[p].id] = NoteOf(p)

CheckStillHoldsAt(p) ==
    /\ req[p].op = "update" /\ pc[p] \in {"open", "write", "rename"}
          => dir[req[p].id] # None
    /\ "stat" \notin Faults =>
          (req[p].op = "create" /\ pc[p] \in {"open", "write", "rename"}
             => dir[req[p].id] = None)
    /\ pc[p] = "unlink" => dir[req[p].id] # None

\* Two processes that execute writing requests write different notes.
LEMMA WritersDiffer ==
    ASSUME OneWriterPerNote, WritesAreOwn,
           NEW p \in Procs, NEW q \in Procs, p # q,
           req[p].op \in WriteOps, req[q].op \in WriteOps
    PROVE  req[p].id # req[q].id
BY DEF OneWriterPerNote, WritesAreOwn, WriteOps

\* Nobody else has the files of p's note open, so renaming or unlinking them
\* changes no open file.
LEMMA FilesStayOpen ==
    ASSUME OneWriterPerNote, WriterInv, NEW p \in Procs,
           pc[p] \in {"rename", "unlinkTmp", "unlink"}
    PROVE  /\ FdAfterRename(req[p].id) = fd
           /\ \A name \in {"tmp", "note"} : FdAfterUnlink(req[p].id, name) = fd
<1>1. req[p].op \in WriteOps
  BY DEF WriterInv, OpFitsLabel, WriteOps
<1>2. ASSUME NEW q \in Procs, req[q].id = req[p].id
      PROVE  fd[q] = "closed"
  <2>1. CASE q = p
    BY <2>1 DEF WriterInv, TmpIsMine
  <2>2. CASE q # p
    <3>1. req[q].op \notin WriteOps
      BY <1>1, <1>2, <2>2, WritersDiffer DEF WriterInv
    <3>2. pc[q] # "write"
      BY <3>1 DEF WriterInv, OpFitsLabel, WriteOps
    <3>3. QED
      BY <3>2 DEF WriterInv, TmpIsMine
  <2>3. QED
    BY <2>1, <2>2
<1>3. fd = [q \in Procs |-> fd[q]]
  BY DEF WriterInv, TypeOK
<1>4. FdAfterRename(req[p].id) = fd
  BY <1>2, <1>3 DEF FdAfterRename
<1>5. \A name \in {"tmp", "note"} : FdAfterUnlink(req[p].id, name) = fd
  BY <1>2, <1>3 DEF FdAfterUnlink
<1>6. QED
  BY <1>4, <1>5

\* A step of p touches no other process, and no file but those of the note p
\* writes.
LEMMA StepIsLocal ==
    ASSUME OneWriterPerNote, WriterInv, NEW p \in Procs, Step(p)
    PROVE  /\ UNCHANGED req
           /\ \A q \in Procs \ {p} : pc'[q] = pc[q] /\ fd'[q] = fd[q]
           /\ \A id \in Ids :
                 dir'[id] # dir[id] \/ tmp'[id] # tmp[id]
                    => req[p].op \in WriteOps /\ id = req[p].id
<1> USE DEF WriterInv, TypeOK
<1>1. CASE CreateStat(p) \/ UpdateStat(p) \/ DeleteStat(p) \/ GetStat(p)
  BY <1>1 DEF CreateStat, UpdateStat, DeleteStat, GetStat, Fail, Goto
<1>2. CASE OpenTmp(p) \/ WriteTmp(p)
  BY <1>2 DEF OpenTmp, WriteTmp, Fail, Goto, OpFitsLabel, WriteOps
<1>3. CASE RenameTmp(p)
  <2>1. FdAfterRename(req[p].id) = fd
    BY <1>3, FilesStayOpen DEF RenameTmp
  <2>2. QED
    BY <1>3, <2>1 DEF RenameTmp, Succeed, Goto, OpFitsLabel, WriteOps
<1>4. CASE UnlinkTmp(p) \/ UnlinkNote(p)
  <2>1. /\ FdAfterUnlink(req[p].id, "tmp") = fd
        /\ FdAfterUnlink(req[p].id, "note") = fd
    BY <1>4, FilesStayOpen DEF UnlinkTmp, UnlinkNote
  <2>2. QED
    BY <1>4, <2>1 DEF UnlinkTmp, UnlinkNote, Succeed, Fail, OpFitsLabel, WriteOps
<1>5. CASE GetLoad(p) \/ OpenDir(p) \/ ReadEntry(p) \/ ListLoad(p) \/ EndOfDir(p)
  BY <1>5 DEF GetLoad, OpenDir, ReadEntry, ListLoad, EndOfDir, Fail, Succeed
<1>6. CASE OutOfMemory(p)
  BY <1>6 DEF OutOfMemory, Fail
<1>7. QED
  BY <1>1, <1>2, <1>3, <1>4, <1>5, <1>6 DEF Step

\* A step of p keeps what the invariant says of p, and publishes only whole
\* notes.
LEMMA StepKeepsMine ==
    ASSUME OneWriterPerNote, WriterInv, NEW p \in Procs, Step(p)
    PROVE  TmpIsMineAt(p)' /\ CheckStillHoldsAt(p)' /\ PublishedNotesAreWhole'
<1> USE ConstantsAssumption DEF TmpIsMineAt, CheckStillHoldsAt
<1>1. /\ TypeOK /\ OpFitsLabel /\ PublishedNotesAreWhole
      /\ TmpIsMineAt(p) /\ CheckStillHoldsAt(p)
  BY DEF WriterInv, TmpIsMine, CheckStillHolds
<1>2. UNCHANGED dir => PublishedNotesAreWhole'
  BY <1>1 DEF PublishedNotesAreWhole
<1>3. CASE CreateStat(p) \/ UpdateStat(p) \/ DeleteStat(p) \/ GetStat(p)
  BY <1>1, <1>2, <1>3 DEF CreateStat, UpdateStat, DeleteStat, GetStat, Fail, Goto,
     PathExists, PathMissing, TypeOK
<1>4. CASE OpenTmp(p)
  <2>1. req[p].id \in Ids
    BY <1>1, <1>4 DEF OpenTmp, TypeOK, OpFitsLabel, Request, WriteRequest, NameRequest,
                      ListRequest, NoRequest
  <2>2. QED
    BY <1>1, <1>2, <1>4, <2>1 DEF OpenTmp, Fail, Goto, TypeOK
<1>5. CASE WriteTmp(p)
  <2>1. req[p].id \in Ids
    BY <1>1, <1>5 DEF WriteTmp, TypeOK, OpFitsLabel, Request, WriteRequest, NameRequest,
                      ListRequest, NoRequest
  <2>2. fd[p] = "tmp" /\ tmp[req[p].id] = Empty
    BY <1>1, <1>5 DEF WriteTmp
  <2>3. UNCHANGED <<dir, req>> /\ fd' = [fd EXCEPT ![p] = "closed"]
    BY <1>5, <2>2 DEF WriteTmp
  <2>4. CASE Goto(p, "rename") /\ tmp' = [tmp EXCEPT ![req[p].id] = NoteOf(p)]
    BY <1>1, <1>2, <1>5, <2>1, <2>3, <2>4 DEF WriteTmp, Goto, TypeOK, NoteOf
  <2>5. CASE Fail(p, "IO_ERROR")
    BY <1>1, <1>2, <2>3, <2>5 DEF Fail, TypeOK
  <2>6. QED
    BY <1>5, <2>2, <2>4, <2>5 DEF WriteTmp, Overwrite
<1>6. CASE RenameTmp(p)
  <2>1. NoteOf(p) \in Note /\ req[p].id \in Ids /\ NoteOf(p).id = req[p].id
    BY <1>1, <1>6 DEF RenameTmp, TypeOK, OpFitsLabel, Request, WriteRequest, NameRequest,
                      ListRequest, NoRequest, NoteOf, Note
  <2>2. fd' = fd /\ fd[p] = "closed" /\ tmp[req[p].id] = NoteOf(p)
    BY <1>1, <1>6, FilesStayOpen DEF RenameTmp
  <2>3. pc'[p] \in {"done", "unlinkTmp"} /\ UNCHANGED req
    BY <1>1, <1>6 DEF RenameTmp, Succeed, Goto, TypeOK
  <2>4. dir' = dir \/ dir' = [dir EXCEPT ![req[p].id] = NoteOf(p)]
    BY <1>6, <2>2 DEF RenameTmp
  <2>5. PublishedNotesAreWhole'
    BY <1>1, <2>1, <2>4 DEF PublishedNotesAreWhole, TypeOK
  <2>6. QED
    BY <2>2, <2>3, <2>5
<1>7. CASE UnlinkTmp(p)
  <2>1. fd' = fd /\ fd[p] = "closed" /\ UNCHANGED dir
    BY <1>1, <1>7, FilesStayOpen DEF UnlinkTmp
  <2>2. pc'[p] = "done"
    BY <1>1, <1>7 DEF UnlinkTmp, Fail, TypeOK
  <2>3. QED
    BY <1>2, <2>1, <2>2
<1>8. CASE UnlinkNote(p)
  <2>1. fd' = fd /\ fd[p] = "closed" /\ UNCHANGED tmp
    BY <1>1, <1>8, FilesStayOpen DEF UnlinkNote
  <2>2. pc'[p] = "done"
    BY <1>1, <1>8 DEF UnlinkNote, Succeed, Fail, TypeOK
  <2>3. dir' = dir \/ dir' = [dir EXCEPT ![req[p].id] = None]
    BY <1>8 DEF UnlinkNote
  <2>4. PublishedNotesAreWhole'
    BY <1>1, <2>3 DEF PublishedNotesAreWhole, TypeOK
  <2>5. QED
    BY <2>1, <2>2, <2>4
<1>9. CASE GetLoad(p) \/ OpenDir(p) \/ ReadEntry(p) \/ ListLoad(p) \/ EndOfDir(p)
             \/ OutOfMemory(p)
  <2>1. UNCHANGED <<dir, tmp, req, fd>> /\ fd[p] = "closed"
    BY <1>1, <1>9 DEF GetLoad, OpenDir, ReadEntry, ListLoad, EndOfDir, OutOfMemory
  <2>2. pc'[p] \in {"done", "readdir", "stat"}
    BY <1>1, <1>9 DEF GetLoad, OpenDir, ReadEntry, ListLoad, EndOfDir, OutOfMemory,
                      Fail, Succeed, TypeOK
  <2>3. QED
    BY <1>2, <2>1, <2>2
<1>10. QED
  BY <1>3, <1>4, <1>5, <1>6, <1>7, <1>8, <1>9 DEF Step

\* What the invariant says of a process stays true while others step.
LEMMA OthersUndisturbed ==
    ASSUME OneWriterPerNote, WriterInv, NEW p \in Procs, Step(p),
           NEW q \in Procs, q # p
    PROVE  TmpIsMineAt(q)' /\ CheckStillHoldsAt(q)'
<1>1. UNCHANGED req /\ pc'[q] = pc[q] /\ fd'[q] = fd[q]
  BY StepIsLocal
<1>2. TmpIsMineAt(q) /\ CheckStillHoldsAt(q)
  BY DEF WriterInv, TmpIsMine, CheckStillHolds, TmpIsMineAt, CheckStillHoldsAt
<1>3. req[q].op \in WriteOps =>
         dir'[req[q].id] = dir[req[q].id] /\ tmp'[req[q].id] = tmp[req[q].id]
  <2>1. req[q].op \in WriteOps => req[q].id \in Ids
    BY DEF WriterInv, TypeOK, Request, WriteRequest, NameRequest, ListRequest, NoRequest,
           WriteOps
  <2>2. QED
    BY <2>1, StepIsLocal, WritersDiffer DEF WriterInv
<1>4. pc[q] \in {"open", "write", "rename", "unlink"} => req[q].op \in WriteOps
  BY DEF WriterInv, OpFitsLabel, WriteOps
<1>5. QED
  BY <1>1, <1>2, <1>3, <1>4 DEF TmpIsMineAt, CheckStillHoldsAt, NoteOf

\* With one writer per note, WriterInv is inductive.
LEMMA WriterInductive ==
    ASSUME OneWriterPerNote, WriterInv, [Next]_vars
    PROVE  WriterInv'
<1>1. TypeOK' /\ OpFitsLabel'
  BY TypeInductive DEF TypeInv, WriterInv
<1>2. ASSUME NEW p \in Procs, Arrive(p)
      PROVE  WritesAreOwn' /\ TmpIsMine' /\ PublishedNotesAreWhole' /\ CheckStillHolds'
  <2>1. PICK request \in Request, label \in {"stat", "opendir"} :
           /\ Call(p, request, label)
           /\ request.op \in WriteOps => request.id \in Writable[p]
    BY <1>2, ArriveCalls
  <2>2. WritesAreOwn'
    BY <2>1 DEF Call, WriterInv, TypeOK, WritesAreOwn, WriteOps
  <2>3. TmpIsMine' /\ CheckStillHolds'
    BY <2>1 DEF Call, WriterInv, TypeOK, TmpIsMine, CheckStillHolds, NoteOf
  <2>4. PublishedNotesAreWhole'
    BY <2>1 DEF Call, WriterInv, PublishedNotesAreWhole
  <2>5. QED
    BY <2>2, <2>3, <2>4
<1>3. ASSUME NEW p \in Procs, Step(p)
      PROVE  WritesAreOwn' /\ TmpIsMine' /\ PublishedNotesAreWhole' /\ CheckStillHolds'
  <2>1. \A q \in Procs : TmpIsMineAt(q)' /\ CheckStillHoldsAt(q)'
    BY <1>3, StepKeepsMine, OthersUndisturbed
  <2>2. TmpIsMine' /\ CheckStillHolds'
    BY <2>1 DEF TmpIsMine, CheckStillHolds, TmpIsMineAt, CheckStillHoldsAt
  <2>3. WritesAreOwn'
    BY <1>3, StepIsLocal DEF WriterInv, WritesAreOwn
  <2>4. QED
    BY <1>3, <2>2, <2>3, StepKeepsMine
<1>4. ASSUME NEW p \in Procs, Return(p) \/ Crash(p)
      PROVE  WritesAreOwn' /\ TmpIsMine' /\ PublishedNotesAreWhole' /\ CheckStillHolds'
  <2>1. Idle(p) /\ UNCHANGED <<dir, tmp>>
    BY <1>4 DEF Return, Crash
  <2>2. fd' = [fd EXCEPT ![p] = "closed"]
    BY <1>4 DEF Return, Crash, WriterInv, TypeOK, TmpIsMine
  <2>3. WritesAreOwn'
    BY <2>1 DEF Idle, WriterInv, TypeOK, WritesAreOwn, NoRequest
  <2>4. TmpIsMine' /\ CheckStillHolds'
    BY <2>1, <2>2 DEF Idle, WriterInv, TypeOK, TmpIsMine, CheckStillHolds, NoteOf
  <2>5. PublishedNotesAreWhole'
    BY <2>1 DEF WriterInv, PublishedNotesAreWhole
  <2>6. QED
    BY <2>3, <2>4, <2>5
<1>5. CASE UNCHANGED vars
  BY <1>1, <1>5 DEF vars, WriterInv, WritesAreOwn, TmpIsMine, PublishedNotesAreWhole,
                    CheckStillHolds, NoteOf
<1>6. QED
  BY <1>1, <1>2, <1>3, <1>4, <1>5 DEF Next, WriterInv

\* Nobody writes at the beginning.
LEMMA WriterInit == Init => WriterInv
<1>1. Init => TypeOK /\ OpFitsLabel
  BY ConstantsAssumption DEF Init, TypeOK, OpFitsLabel, Content, Labels, Request, Scan,
     NoScan, Result, NoResult
<1>2. Init => WritesAreOwn /\ TmpIsMine /\ PublishedNotesAreWhole /\ CheckStillHolds
  BY DEF Init, WritesAreOwn, TmpIsMine, PublishedNotesAreWhole, CheckStillHolds,
         NoRequest
<1>3. QED
  BY <1>1, <1>2 DEF WriterInv

\* With one writer per note, WriterInv is an invariant.
LEMMA WriterCorrect ==
    ASSUME OneWriterPerNote
    PROVE  Spec => []WriterInv
<1>1. Init => WriterInv
  BY WriterInit
<1>2. WriterInv /\ [Next]_vars => WriterInv'
  BY WriterInductive
<1>3. QED
  BY <1>1, <1>2, PTL DEF Spec

\* If no two processes write the same note, every note file is always a whole
\* note with the right id: for one process serving everything this holds
\* whatever fails and whenever it dies.
THEOREM PublishedNotesWhole ==
    ASSUME OneWriterPerNote
    PROVE  Spec => []PublishedNotesAreWhole
<1>1. WriterInv => PublishedNotesAreWhole
  BY DEF WriterInv
<1>2. QED
  BY <1>1, WriterCorrect, PTL

\* Under the same condition, what stat() said stays true until it is acted on.
THEOREM ChecksHold ==
    ASSUME OneWriterPerNote
    PROVE  Spec => []CheckStillHolds
<1>1. WriterInv => CheckStillHolds
  BY DEF WriterInv
<1>2. QED
  BY <1>1, WriterCorrect, PTL

\* With one writer per note, a step that changes a note file is the rename of a
\* create or update, which puts that call's note there and answers OK, or the
\* unlink of a delete, which answers OK.
LEMMA NoteChanges ==
    ASSUME OneWriterPerNote, WriterInv, [Next]_vars, NEW id \in Ids, dir'[id] # dir[id]
    PROVE  \E p \in Procs :
              /\ Step(p) /\ pc[p] # "done" /\ result'[p].code = "OK"
              /\ req[p].id = id
              /\ \/ RenameTmp(p) /\ dir'[id] = NoteOf(p)
                 \/ UnlinkNote(p) /\ dir'[id] = None
<1>1. PICK p \in Procs : Step(p)
  BY DEF Next, vars, Arrive, CallCreate, CallUpdate, CallDelete, CallGet, CallList,
         Call, Return, Crash
<1>2. req[p].id = id
  BY <1>1, StepIsLocal
<1>3. RenameTmp(p) \/ UnlinkNote(p)
  <2>1. ~WriteTmp(p)
    BY DEF WriteTmp, WriterInv, TmpIsMine
  <2>2. QED
    BY <1>1, <2>1 DEF Step, CreateStat, UpdateStat, DeleteStat, GetStat,
       OpenTmp, UnlinkTmp, GetLoad, OpenDir, ReadEntry, ListLoad, EndOfDir, OutOfMemory
<1>4. CASE RenameTmp(p)
  <2>1. tmp[id] = NoteOf(p)
    BY <1>2, <1>4 DEF RenameTmp, WriterInv, TmpIsMine
  <2>2. dir' = [dir EXCEPT ![id] = NoteOf(p)] /\ Succeed(p, None) /\ pc[p] = "rename"
    BY <1>2, <1>4, <2>1 DEF RenameTmp
  <2>3. QED
    BY <1>1, <1>2, <1>4, <2>2 DEF Succeed, WriterInv, TypeOK
<1>5. CASE UnlinkNote(p)
  <2>1. dir' = [dir EXCEPT ![id] = None] /\ Succeed(p, None) /\ pc[p] = "unlink"
    BY <1>2, <1>5 DEF UnlinkNote
  <2>2. QED
    BY <1>1, <1>2, <1>5, <2>1 DEF Succeed, WriterInv, TypeOK
<1>6. QED
  BY <1>3, <1>4, <1>5

\* Under the same condition, what appears in a note file is the note of the
\* create or update that answers OK in that very step.
THEOREM PublishesOwn ==
    ASSUME OneWriterPerNote
    PROVE  Spec => PublishesItsOwnNote
<1> DEFINE Publishes(id) ==
             dir'[id] \notin {dir[id], None}
                => \E p \in Procs : /\ pc[p] # "done" /\ result'[p].code = "OK"
                                    /\ req[p].op \in {"create", "update"}
                                    /\ dir'[id] = NoteOf(p)
<1>1. ASSUME WriterInv, [Next]_vars, NEW id \in Ids, dir'[id] \notin {dir[id], None}
      PROVE  \E p \in Procs : /\ pc[p] # "done" /\ result'[p].code = "OK"
                              /\ req[p].op \in {"create", "update"}
                              /\ dir'[id] = NoteOf(p)
  <2>1. PICK p \in Procs : /\ RenameTmp(p) /\ dir'[id] = NoteOf(p)
                           /\ pc[p] # "done" /\ result'[p].code = "OK"
    BY <1>1, NoteChanges
  <2>2. QED
    BY <1>1, <2>1 DEF RenameTmp, WriterInv, OpFitsLabel
<1>2. WriterInv /\ [Next]_vars => [\A id \in Ids : Publishes(id)]_vars
  BY <1>1
<1>3. QED
  BY <1>2, WriterCorrect, PTL DEF Spec, PublishesItsOwnNote

-----------------------------------------------------------------------------
(* Listings, with one writer per note *)

\* The notes that are there and that nobody but p writes
Here(p) == {id \in Writable[p] : dir[id] # None}

\* The entries p has read and is done with
Visited(p) ==
    IF pc[p] \in {"stat", "load"} THEN scan[p].seen \ {scan[p].cur} ELSE scan[p].seen

Asked(p, note) == req[p].tag = None \/ HasTag(note, req[p].tag)

\* Of the notes only p writes, a listing has seen none that is not there, and
\* has collected those it is done with that match.
ListingSoFar(p) ==
    /\ scan[p].snap \cap Writable[p] = Here(p)
    /\ scan[p].seen \cap Writable[p] \subseteq Here(p)
    /\ pc[p] \in {"stat", "load"} => scan[p].cur \in scan[p].seen
    /\ \A note \in scan[p].items : note.id \in Writable[p] =>
          note.id \in Here(p) \cap Visited(p) /\ note = dir[note.id] /\ Asked(p, note)
    /\ \A id \in Here(p) \cap Visited(p) : Asked(p, dir[id]) => dir[id] \in scan[p].items
    /\ result[p].code = "OK" => Here(p) \subseteq scan[p].seen

ListingAt(p) ==
    /\ pc[p] \in {"idle", "opendir"} => scan[p] = NoScan
    /\ pc[p] # "done" => result[p] = NoResult
    /\ req[p].op = "list" /\ (pc[p] \in {"readdir", "stat", "load"} \/ result[p].code = "OK")
          => ListingSoFar(p)

ListingInv == WriterInv /\ \A p \in Procs : ListingAt(p)

\* What the invariant says of p's listing depends on nothing else than p's own
\* state and the notes only p writes.
LEMMA ListingUntouched ==
    ASSUME TypeOK, NEW p \in Procs, ListingAt(p),
           pc'[p] = pc[p], req'[p] = req[p], scan'[p] = scan[p], result'[p] = result[p],
           \A id \in Writable[p] : dir'[id] = dir[id]
    PROVE  ListingAt(p)'
<1>1. Here(p)' = Here(p) /\ Visited(p)' = Visited(p)
  BY DEF Here, Visited
<1>2. ListingSoFar(p) => ListingSoFar(p)'
  BY <1>1 DEF ListingSoFar, Here, Asked
<1>3. QED
  BY <1>2 DEF ListingAt

\* A step of p leaves the listings of the others alone.
LEMMA StepLeavesListings ==
    ASSUME TypeOK, NEW p \in Procs, Step(p)
    PROVE  \A q \in Procs \ {p} : pc'[q] = pc[q] /\ scan'[q] = scan[q] /\ result'[q] = result[q]
<1> USE DEF TypeOK, Fail, Succeed, Goto
<1>1. CASE CreateStat(p) \/ UpdateStat(p) \/ DeleteStat(p) \/ GetStat(p)
  BY <1>1 DEF CreateStat, UpdateStat, DeleteStat, GetStat
<1>2. CASE OpenTmp(p) \/ WriteTmp(p) \/ RenameTmp(p) \/ UnlinkTmp(p)
  BY <1>2 DEF OpenTmp, WriteTmp, RenameTmp, UnlinkTmp
<1>3. CASE UnlinkNote(p) \/ GetLoad(p)
  BY <1>3 DEF UnlinkNote, GetLoad
<1>4. CASE OpenDir(p) \/ ReadEntry(p) \/ ListLoad(p) \/ EndOfDir(p)
  BY <1>4 DEF OpenDir, ReadEntry, ListLoad, EndOfDir
<1>5. CASE OutOfMemory(p)
  BY <1>5 DEF OutOfMemory
<1>6. QED
  BY <1>1, <1>2, <1>3, <1>4, <1>5 DEF Step

\* An error ends what the invariant says of a listing.
LEMMA FailEndsListing ==
    ASSUME TypeOK, NEW p \in Procs, NEW code \in Codes \ {"OK"}, Fail(p, code)
    PROVE  ListingAt(p)'
BY DEF TypeOK, Fail, ListingAt

\* A step of p keeps what the invariant says of p's listing.
LEMMA StepKeepsListing ==
    ASSUME OneWriterPerNote, "readdir" \notin Faults, WriterInv, NEW p \in Procs,
           ListingAt(p), Step(p)
    PROVE  ListingAt(p)'
<1> USE ConstantsAssumption DEF WriterInv
<1>0. TypeOK /\ None # "OK"
  BY DEF Codes
<1>a. {"NOT_FOUND", "ALREADY_EXISTS", "IO_ERROR", "JSON_ERROR", "NO_MEMORY"} \subseteq Codes \ {"OK"}
  BY DEF Codes
<1>1. CASE req[p].op # "list"
  <2>1. req'[p].op # "list" /\ pc'[p] \notin {"idle", "opendir"}
    <3>1. UNCHANGED req
      BY StepIsLocal
    <3>2. pc'[p] # "idle" /\ pc'[p] # "opendir"
      BY <1>0 DEF TypeOK, Step, CreateStat, UpdateStat, DeleteStat, GetStat, OpenTmp, WriteTmp,
         RenameTmp, UnlinkTmp, UnlinkNote, GetLoad, OpenDir, ReadEntry, ListLoad,
         EndOfDir, OutOfMemory, Fail, Succeed, Goto
    <3>3. QED
      BY <1>1, <3>1, <3>2
  <2>2. pc[p] # "done" /\ (pc'[p] # "done" => result'[p] = result[p])
    BY <1>0 DEF TypeOK, Step, CreateStat, UpdateStat, DeleteStat, GetStat, OpenTmp, WriteTmp,
       RenameTmp, UnlinkTmp, UnlinkNote, GetLoad, OpenDir, ReadEntry, ListLoad,
       EndOfDir, OutOfMemory, Fail, Succeed, Goto
  <2>3. QED
    BY <2>1, <2>2 DEF ListingAt
<1>2. CASE req[p].op = "list" /\ \E code \in Codes \ {"OK"} : Fail(p, code)
  BY <1>0, <1>2, FailEndsListing
<1>3. CASE req[p].op = "list" /\ ~\E code \in Codes \ {"OK"} : Fail(p, code)
  <2> DEFINE s == scan[p]
  <2>0. /\ \/ GetStat(p) \/ OpenDir(p) \/ ReadEntry(p) \/ ListLoad(p) \/ EndOfDir(p)
        /\ UNCHANGED <<dir, req>>
        /\ s \in Scan
    <3>1. \/ GetStat(p) \/ OpenDir(p) \/ ReadEntry(p) \/ ListLoad(p) \/ EndOfDir(p)
      BY <1>3, <1>a DEF Step, OpFitsLabel, CreateStat, UpdateStat, DeleteStat, OpenTmp,
         WriteTmp, RenameTmp, UnlinkTmp, UnlinkNote, GetLoad, OutOfMemory
    <3>2. UNCHANGED <<dir, req>>
      BY <3>1 DEF GetStat, OpenDir, ReadEntry, ListLoad, EndOfDir
    <3>3. QED
      BY <1>0, <3>1, <3>2 DEF TypeOK
  <2>1. CASE GetStat(p)
    <3>1. pc[p] = "stat" /\ Goto(p, "load")
      BY <1>a, <1>3, <2>1 DEF GetStat
    <3>2. /\ pc'[p] = "load" /\ scan' = scan /\ result' = result
      BY <1>0, <3>1 DEF Goto, TypeOK
    <3>3. ListingSoFar(p)
      BY <1>3, <3>1 DEF ListingAt
    <3>4. ListingSoFar(p)'
      BY <2>0, <3>1, <3>2, <3>3 DEF ListingSoFar, Here, Visited, Asked
    <3>5. QED
      BY <3>1, <3>2, <3>4 DEF ListingAt
  <2>2. CASE OpenDir(p)
    <3>1. /\ pc[p] = "opendir" /\ s = NoScan /\ result[p] = NoResult
          /\ UNCHANGED result /\ pc'[p] = "readdir"
          /\ scan' = [scan EXCEPT ![p].snap = {id \in Ids : dir[id] # None}]
      BY <1>0, <1>a, <1>3, <2>2 DEF OpenDir, ListingAt, TypeOK
    <3>2. /\ scan'[p].snap = {id \in Ids : dir[id] # None}
          /\ scan'[p].seen = {} /\ scan'[p].items = {}
      BY <1>0, <3>1 DEF TypeOK, Scan, NoScan
    <3>3. {id \in Ids : dir[id] # None} \cap Writable[p] = Here(p)
      BY DEF Here
    <3>4. ListingSoFar(p)'
      BY <1>0, <2>0, <3>1, <3>2, <3>3 DEF ListingSoFar, Here, Visited, Asked, NoResult
    <3>5. QED
      BY <3>1, <3>4 DEF ListingAt
  <2>3. CASE ReadEntry(p)
    <3>1. PICK id \in Ids \ s.seen :
             /\ id \in s.snap \/ dir[id] # None
             /\ scan' = [scan EXCEPT ![p].cur = id, ![p].seen = @ \cup {id}]
      BY <2>3 DEF ReadEntry
    <3>2. /\ scan'[p].cur = id /\ scan'[p].seen = s.seen \cup {id}
          /\ scan'[p].snap = s.snap /\ scan'[p].items = s.items
      BY <1>0, <2>0, <3>1 DEF TypeOK, Scan
    <3>3. pc[p] = "readdir" /\ pc'[p] = "stat" /\ UNCHANGED result
      BY <1>0, <2>3 DEF ReadEntry, TypeOK
    <3>4. ListingSoFar(p) /\ result[p] = NoResult
      BY <1>3, <3>3 DEF ListingAt
    <3>5. Visited(p)' = Visited(p) /\ Here(p)' = Here(p)
      <4>1. (s.seen \cup {id}) \ {id} = s.seen
        OBVIOUS
      <4>2. Visited(p)' = s.seen /\ Visited(p) = s.seen
        BY <3>2, <3>3, <4>1 DEF Visited
      <4>3. QED
        BY <2>0, <4>2 DEF Here
    <3>6. id \in Writable[p] => id \in Here(p)
      BY <3>1, <3>4 DEF ListingSoFar, Here
    <3>7. ListingSoFar(p)'
      BY <1>0, <2>0, <3>2, <3>3, <3>4, <3>5, <3>6 DEF ListingSoFar, Asked, NoResult
    <3>8. QED
      BY <3>3, <3>4, <3>7 DEF ListingAt
  <2>4. CASE ListLoad(p)
    <3> DEFINE note == dir[s.cur]
    <3>1. /\ pc[p] = "load" /\ note \in Note
          /\ scan' = [scan EXCEPT ![p].items = IF Asked(p, note) THEN @ \cup {note} ELSE @]
          /\ pc' = [pc EXCEPT ![p] = "readdir"] /\ UNCHANGED result
      BY <1>a, <1>3, <2>4 DEF ListLoad, Asked
    <3>2. /\ scan'[p].items = IF Asked(p, note) THEN s.items \cup {note} ELSE s.items
          /\ scan'[p].cur = s.cur /\ scan'[p].seen = s.seen /\ scan'[p].snap = s.snap
      BY <1>0, <2>0, <3>1 DEF TypeOK, Scan
    <3>3. pc'[p] = "readdir"
      BY <1>0, <3>1 DEF TypeOK
    <3>4. ListingSoFar(p) /\ result[p] = NoResult
      BY <1>3, <3>1 DEF ListingAt
    <3>5. note.id = s.cur /\ s.cur \in Ids
      <4>1. s.cur \in Ids
        <5>1. s.seen \subseteq Ids
          BY <2>0 DEF Scan
        <5>2. QED
          BY <3>1, <3>4, <5>1 DEF ListingSoFar
      <4>2. QED
        BY <3>1, <4>1 DEF PublishedNotesAreWhole
    <3>6. Visited(p)' = Visited(p) \cup {s.cur} /\ Here(p)' = Here(p)
      BY <2>0, <3>1, <3>2, <3>3, <3>4 DEF Visited, Here, ListingSoFar
    <3>7. \A n : Asked(p, n)' = Asked(p, n)
      BY <2>0 DEF Asked
    <3>8. s.cur \in Writable[p] => s.cur \in Here(p)
      BY <3>1, <3>5 DEF Here
    <3>9. ListingSoFar(p)'
      <4>1. \A n \in scan'[p].items : n.id \in Writable[p] =>
               n.id \in Here(p) \cap Visited(p)' /\ n = dir[n.id] /\ Asked(p, n)
        BY <3>2, <3>4, <3>5, <3>6, <3>8 DEF ListingSoFar
      <4>2. \A i \in Here(p) \cap Visited(p)' : Asked(p, dir[i]) => dir[i] \in scan'[p].items
        BY <3>2, <3>4, <3>6 DEF ListingSoFar
      <4>3. QED
        BY <1>0, <2>0, <3>1, <3>2, <3>3, <3>4, <3>6, <3>7, <4>1, <4>2 DEF ListingSoFar, NoResult
    <3>10. QED
      BY <3>1, <3>3, <3>4, <3>9 DEF ListingAt
  <2>5. CASE EndOfDir(p)
    <3>1. /\ pc[p] = "readdir" /\ pc'[p] = "done" /\ UNCHANGED scan
          /\ \A id \in s.snap \ s.seen : dir[id] = None
      BY <1>0, <2>5 DEF EndOfDir, Succeed, TypeOK
    <3>2. ListingSoFar(p)
      BY <1>3, <3>1 DEF ListingAt
    <3>3. Here(p) \subseteq s.seen
      BY <3>1, <3>2 DEF ListingSoFar, Here
    <3>4. ListingSoFar(p)'
      BY <2>0, <3>1, <3>2, <3>3 DEF ListingSoFar, Here, Visited, Asked
    <3>5. QED
      BY <3>1, <3>4 DEF ListingAt
  <2>6. QED
    BY <2>0, <2>1, <2>2, <2>3, <2>4, <2>5
<1>4. QED
  BY <1>1, <1>2, <1>3

\* With one writer per note and a readdir() that does not fail, ListingInv is
\* inductive.
LEMMA ListingInductive ==
    ASSUME OneWriterPerNote, "readdir" \notin Faults, ListingInv, [Next]_vars
    PROVE  ListingInv'
<1>0. TypeOK /\ WriterInv /\ WriterInv'
  BY WriterInductive DEF ListingInv, WriterInv
<1>1. ASSUME NEW p \in Procs, Arrive(p), NEW q \in Procs PROVE ListingAt(q)'
  <2>1. PICK request \in Request, label \in {"stat", "opendir"} :
           Call(p, request, label) /\ (label = "opendir" <=> request.op = "list")
    BY <1>1, ArriveCalls
  <2>2. CASE q = p
    <3>1. /\ pc[p] = "idle" /\ pc'[p] = label /\ req'[p] = request
          /\ UNCHANGED <<scan, result>>
      BY <1>0, <2>1 DEF Call, TypeOK
    <3>2. scan'[p] = NoScan /\ result'[p] = NoResult /\ NoResult.code # "OK"
      BY <3>1, ConstantsAssumption DEF ListingInv, ListingAt, NoResult, Codes
    <3>3. QED
      BY <2>1, <2>2, <3>1, <3>2 DEF ListingAt
  <2>3. CASE q # p
    BY <1>0, <2>1, <2>3, ListingUntouched DEF Call, ListingInv, TypeOK
  <2>4. QED
    BY <2>2, <2>3
<1>2. ASSUME NEW p \in Procs, Step(p), NEW q \in Procs PROVE ListingAt(q)'
  <2>1. CASE q = p
    BY <1>0, <1>2, <2>1, StepKeepsListing DEF ListingInv
  <2>2. CASE q # p
    <3>1. UNCHANGED req
      BY <1>0, <1>2, StepIsLocal
    <3>2. pc'[q] = pc[q] /\ scan'[q] = scan[q] /\ result'[q] = result[q]
      BY <1>0, <1>2, <2>2, StepLeavesListings DEF TypeOK
    <3>3. ASSUME NEW id \in Writable[q] PROVE dir'[id] = dir[id]
      <4>1. id \in Ids
        BY ConstantsAssumption
      <4>2. req[p].op \in WriteOps => req[p].id \in Writable[p]
        BY <1>0 DEF WriterInv, WritesAreOwn, WriteOps
      <4>3. id \notin Writable[p]
        BY <2>2 DEF OneWriterPerNote
      <4>4. QED
        BY <1>0, <1>2, <4>1, <4>2, <4>3, StepIsLocal
    <3>4. QED
      BY <1>0, <3>1, <3>2, <3>3, ListingUntouched DEF ListingInv
  <2>3. QED
    BY <2>1, <2>2
<1>3. ASSUME NEW p \in Procs, Return(p) \/ Crash(p), NEW q \in Procs PROVE ListingAt(q)'
  <2>1. Idle(p) /\ UNCHANGED dir
    BY <1>3 DEF Return, Crash
  <2>2. CASE q = p
    BY <1>0, <2>1, <2>2, ConstantsAssumption
       DEF Idle, TypeOK, ListingAt, NoRequest, NoResult, Codes
  <2>3. CASE q # p
    BY <1>0, <2>1, <2>3, ListingUntouched DEF Idle, ListingInv, TypeOK
  <2>4. QED
    BY <2>2, <2>3
<1>4. CASE UNCHANGED vars
  BY <1>0, <1>4, ListingUntouched DEF ListingInv, vars
<1>5. QED
  BY <1>0, <1>1, <1>2, <1>3, <1>4 DEF Next, ListingInv

\* A finished listing, read off the invariant
LEMMA ListingComplete == ListingInv => ListingIsExact
<1> SUFFICES ASSUME ListingInv, NEW p \in Procs, req[p].op = "list", result[p].code = "OK"
             PROVE  {note \in scan[p].items : note.id \in Writable[p]} =
                    {dir[id] : id \in {i \in Writable[p] : dir[i] # None /\ Asked(p, dir[i])}}
  BY DEF ListingIsExact, Asked
<1>1. ListingSoFar(p) /\ pc[p] = "done"
  BY ConstantsAssumption DEF ListingInv, ListingAt, NoResult, Codes
<1>2. Visited(p) = scan[p].seen /\ Here(p) \subseteq scan[p].seen
  BY <1>1 DEF Visited, ListingSoFar
<1>3. ASSUME NEW note \in scan[p].items, note.id \in Writable[p]
      PROVE  note.id \in Writable[p] /\ dir[note.id] # None /\ note = dir[note.id] /\ Asked(p, dir[note.id])
  BY <1>1, <1>3 DEF ListingSoFar, Here
<1>4. ASSUME NEW id \in Writable[p], dir[id] # None, Asked(p, dir[id])
      PROVE  dir[id] \in scan[p].items /\ dir[id].id = id
  <2>1. dir[id] \in scan[p].items
    BY <1>1, <1>2, <1>4 DEF ListingSoFar, Here
  <2>2. id \in Ids
    BY ConstantsAssumption
  <2>3. QED
    BY <1>4, <2>1, <2>2 DEF ListingInv, WriterInv, PublishedNotesAreWhole
<1>5. QED
  BY <1>3, <1>4

\* Nobody lists at the beginning.
LEMMA ListingInit == Init => ListingInv
<1>1. Init => WriterInv
  BY WriterInit
<1>2. ASSUME Init, NEW p \in Procs PROVE ListingAt(p)
  <2>1. pc[p] = "idle" /\ req[p].op = "none" /\ scan[p] = NoScan /\ result[p] = NoResult
    BY <1>2 DEF Init, NoRequest
  <2>2. QED
    BY <2>1 DEF ListingAt
<1>3. QED
  BY <1>1, <1>2 DEF ListingInv

\* Every reachable state satisfies what a listing relies on.
LEMMA ListingCorrect ==
    ASSUME OneWriterPerNote, "readdir" \notin Faults
    PROVE  Spec => []ListingInv
<1>1. Init => ListingInv
  BY ListingInit
<1>2. ListingInv /\ [Next]_vars => ListingInv'
  BY ListingInductive
<1>3. QED
  BY <1>1, <1>2, PTL DEF Spec

\* With one writer per note and a readdir() that does not fail, a listing that
\* answers OK holds every matching note of its process and no other one, however
\* many processes change theirs while it reads the directory.
THEOREM ListingsAreExact ==
    ASSUME OneWriterPerNote, "readdir" \notin Faults
    PROVE  Spec => []ListingIsExact
BY ListingCorrect, ListingComplete, PTL

\* Whatever the processes do to each other's notes, a stored note disappears
\* only in the step of a delete that answers OK.
THEOREM VanishOnlyByDelete == Spec => NotesVanishOnlyByDelete
<1> DEFINE Vanishes(id) ==
             dir[id] # None /\ dir'[id] = None
                => \E p \in Procs : /\ req[p].op = "delete" /\ req[p].id = id
                                    /\ pc[p] # "done" /\ result'[p].code = "OK"
<1>1. ASSUME TypeInv, [Next]_vars, NEW id \in Ids, dir[id] # None, dir'[id] = None
      PROVE  \E p \in Procs : /\ req[p].op = "delete" /\ req[p].id = id
                              /\ pc[p] # "done" /\ result'[p].code = "OK"
  <2>1. PICK p \in Procs : Step(p)
    BY <1>1 DEF Next, vars, Arrive, CallCreate, CallUpdate, CallDelete, CallGet, CallList,
                Call, Return, Crash
  <2>2. UnlinkNote(p)
    <3>1. ~RenameTmp(p)
      BY <1>1 DEF RenameTmp, TypeInv, TypeOK
    <3>2. ~WriteTmp(p)
      <4> SUFFICES ASSUME WriteTmp(p) PROVE FALSE
        OBVIOUS
      <4>1. NoteOf(p) \in Note
        BY <1>1 DEF WriteTmp, TypeInv, TypeOK, OpFitsLabel, NoteOf, Note, Request,
                    WriteRequest, NameRequest, ListRequest, NoRequest
      <4>2. NoteOf(p) # None /\ Torn # None
        BY <4>1, ConstantsAssumption
      <4>3. PICK c : dir' = [dir EXCEPT ![req[p].id] = c] /\ c \in {dir[req[p].id], NoteOf(p), Torn}
        BY <1>1 DEF WriteTmp, Overwrite
      <4>4. QED
        BY <1>1, <4>2, <4>3 DEF TypeInv, TypeOK
    <3>3. QED
      BY <1>1, <2>1, <3>1, <3>2 DEF Step, CreateStat, UpdateStat, DeleteStat, GetStat,
         OpenTmp, UnlinkTmp, GetLoad, OpenDir, ReadEntry, ListLoad, EndOfDir, OutOfMemory
  <2>3. req[p].id = id /\ req[p].op = "delete"
    BY <1>1, <2>2 DEF UnlinkNote, TypeInv, TypeOK, OpFitsLabel
  <2>4. pc[p] # "done" /\ result'[p].code = "OK"
    BY <1>1, <2>2 DEF UnlinkNote, Succeed, TypeInv, TypeOK
  <2>5. QED
    BY <2>3, <2>4
<1>2. TypeInv /\ [Next]_vars => [\A id \in Ids : Vanishes(id)]_vars
  BY <1>1
<1>3. Spec => []TypeInv
  BY TypeInvariance
<1>4. QED
  BY <1>2, <1>3, PTL DEF Spec, NotesVanishOnlyByDelete

-----------------------------------------------------------------------------
(* Notes that come back *)

\* The inductive invariant behind it: an update that goes on without its note
\* has been raced, and only a file that is still being written may stand open
\* under the name of a note, which is there then.
RaceInv ==
    /\ TypeOK /\ OpFitsLabel
    /\ \A p \in Procs : Updating(p) /\ dir[req[p].id] = None => p \in raced
    /\ \A p \in Procs : fd[p] # "closed" => pc[p] = "write"
    /\ \A p \in Procs : fd[p] = "note" => dir[req[p].id] # None

\* No note, file or update is there at the beginning.
LEMMA RaceBegins == RaceInit => RaceInv
<1>1. Init => TypeOK /\ OpFitsLabel
  BY ConstantsAssumption DEF Init, TypeOK, OpFitsLabel, Content, Labels,
     Request, Scan, NoScan, Result, NoResult
<1>2. QED
  BY <1>1, SMTT(30) DEF RaceInit, RaceInv, Init, Updating

\* A step of p leaves the other processes' calls and its own request alone; it
\* closes what p has open, unless it opens it.
LEMMA StepAndCalls ==
    ASSUME TypeOK, NEW p \in Procs, Step(p)
    PROVE  /\ UNCHANGED req /\ \A q \in Procs \ {p} : pc'[q] = pc[q]
           /\ pc'[p] \in {"open", "write", "rename"} =>
                \/ UpdateStat(p) /\ dir[req[p].id] # None
                \/ CreateStat(p) \/ OpenTmp(p) \/ WriteTmp(p)
  BY DEF TypeOK, Step, CreateStat, UpdateStat, DeleteStat, GetStat, OpenTmp, WriteTmp,
         RenameTmp, UnlinkTmp, UnlinkNote, GetLoad, OpenDir, ReadEntry, ListLoad,
         EndOfDir, OutOfMemory, Fail, Succeed, Goto, PathExists

\* A file that is written is not given away: writing to a note leaves it there.
LEMMA WriteKeepsNotes ==
    ASSUME RaceInv, NEW p \in Procs, WriteTmp(p), NEW id \in Ids
    PROVE  (dir'[id] = None) <=> (dir[id] = None)
<1>1. NoteOf(p) \in Note
  BY DEF WriteTmp, RaceInv, TypeOK, OpFitsLabel, NoteOf, Note, Request,
         WriteRequest, NameRequest, ListRequest, NoRequest
<1>2. NoteOf(p) # None /\ Torn # None
  BY <1>1, ConstantsAssumption
<1>3. CASE fd[p] = "note"
  <2>1. dir[req[p].id] # None
    BY <1>3 DEF RaceInv
  <2>2. PICK c : dir' = [dir EXCEPT ![req[p].id] = c] /\ c \in {dir[req[p].id], NoteOf(p), Torn}
    BY <1>3 DEF WriteTmp, Overwrite
  <2>3. QED
    BY <1>2, <2>1, <2>2 DEF RaceInv, TypeOK
<1>4. CASE fd[p] # "note"
  BY <1>4 DEF WriteTmp
<1>5. QED
  BY <1>3, <1>4

\* A step that changes whether a note is there is a rename or an unlink.
LEMMA NotesComeAndGo ==
    ASSUME RaceInv, NEW p \in Procs, Step(p), NEW id \in Ids, ~((dir'[id] = None) <=> (dir[id] = None))
    PROVE  /\ req[p].id = id
           /\ \/ RenameTmp(p) /\ tmp[id] # None /\ dir[id] = None /\ pc[p] = "rename" /\ result'[p].code = "OK"
              \/ UnlinkNote(p) /\ dir[id] # None /\ req[p].op = "delete"
                 /\ pc[p] # "done" /\ result'[p].code = "OK"
<1>1. RenameTmp(p) \/ UnlinkNote(p)
  BY WriteKeepsNotes DEF Step, CreateStat, UpdateStat, DeleteStat, GetStat,
     OpenTmp, UnlinkTmp, GetLoad, OpenDir, ReadEntry, ListLoad, EndOfDir, OutOfMemory
<1>2. TypeOK /\ OpFitsLabel
  BY DEF RaceInv
<1>3. CASE RenameTmp(p)
  <2>1. tmp[req[p].id] # None /\ dir' = [dir EXCEPT ![req[p].id] = tmp[req[p].id]]
        /\ Succeed(p, None) /\ pc[p] = "rename"
    BY <1>3 DEF RenameTmp
  <2>2. req[p].id = id
    BY <1>2, <2>1 DEF TypeOK
  <2>3. result'[p].code = "OK"
    BY <1>2, <2>1 DEF Succeed, TypeOK
  <2>4. QED
    BY <1>2, <1>3, <2>1, <2>2, <2>3 DEF TypeOK
<1>4. CASE UnlinkNote(p)
  <2>1. dir[req[p].id] # None /\ dir' = [dir EXCEPT ![req[p].id] = None]
        /\ Succeed(p, None) /\ pc[p] = "unlink"
    BY <1>4 DEF UnlinkNote
  <2>2. req[p].id = id
    BY <1>2, <2>1 DEF TypeOK
  <2>3. result'[p].code = "OK" /\ req[p].op = "delete"
    BY <1>2, <2>1 DEF Succeed, TypeOK, OpFitsLabel
  <2>4. QED
    BY <1>2, <1>4, <2>1, <2>2, <2>3 DEF TypeOK
<1>5. QED
  BY <1>1, <1>3, <1>4

\* An open file stands under the name of a note only if it was renamed to it,
\* and a note that is unlinked takes its open files along.
LEMMA OpenFilesKept ==
    ASSUME RaceInv, NEW p \in Procs, Step(p), NEW q \in Procs
    PROVE  /\ fd'[q] # "closed" => pc'[q] = "write"
           /\ fd'[q] = "note" => dir'[req'[q].id] # None
<1>0. TypeOK /\ OpFitsLabel /\ UNCHANGED req
      /\ (fd[q] # "closed" => pc[q] = "write") /\ (fd[q] = "note" => dir[req[q].id] # None)
  BY StepAndCalls DEF RaceInv
<1>1. CASE OpenTmp(p)
  <2>1. pc[p] = "open" /\ UNCHANGED dir
        /\ \/ fd' = [fd EXCEPT ![p] = "tmp"] /\ pc' = [pc EXCEPT ![p] = "write"]
           \/ fd' = fd /\ pc' = [pc EXCEPT ![p] = "done"]
    BY <1>1 DEF OpenTmp, Goto, Fail
  <2>2. QED
    BY <1>0, <2>1 DEF TypeOK
<1>2. CASE WriteTmp(p)
  <2>1. fd' = [fd EXCEPT ![p] = "closed"] /\ \A r \in Procs \ {p} : pc'[r] = pc[r]
    BY <1>2, <1>0, StepAndCalls DEF WriteTmp
  <2>2. fd[q] = "note" => req[q].id \in Ids
    BY <1>0 DEF TypeOK, OpFitsLabel, Request, WriteRequest, NameRequest, ListRequest, NoRequest
  <2>3. q # p => fd'[q] = fd[q]
    BY <1>0, <2>1 DEF TypeOK
  <2>4. q = p => fd'[q] = "closed"
    BY <1>0, <2>1 DEF TypeOK
  <2>5. QED
    BY <1>0, <1>2, <2>1, <2>2, <2>3, <2>4, WriteKeepsNotes
<1>3. CASE RenameTmp(p)
  <2>1. pc[p] = "rename" /\ pc'[q] = (IF q = p THEN pc'[p] ELSE pc[q])
    BY <1>0, <1>3, StepAndCalls DEF RenameTmp
  <2>2. CASE fd' = fd /\ dir' = dir
    BY <1>0, <2>1, <2>2
  <2>3. CASE /\ tmp[req[p].id] # None /\ fd' = FdAfterRename(req[p].id)
             /\ dir' = [dir EXCEPT ![req[p].id] = tmp[req[p].id]]
    <3>1. CASE req[q].id # req[p].id
      <4>1. fd'[q] = fd[q] /\ dir'[req[q].id] = dir[req[q].id]
        BY <1>0, <2>3, <3>1 DEF FdAfterRename, TypeOK
      <4>2. QED
        BY <1>0, <2>1, <4>1
    <3>2. CASE req[q].id = req[p].id
      <4>1. fd'[q] # "closed" => fd[q] # "closed"
        BY <1>0, <2>3, <3>2 DEF FdAfterRename, TypeOK
      <4>2. req[p].id \in Ids
        BY <1>0, <2>1 DEF TypeOK, OpFitsLabel, Request, WriteRequest, NameRequest, ListRequest, NoRequest
      <4>3. dir'[req[q].id] # None
        BY <1>0, <2>3, <3>2, <4>2 DEF TypeOK
      <4>4. QED
        BY <1>0, <2>1, <4>1, <4>3
    <3>3. QED
      BY <3>1, <3>2
  <2>4. QED
    BY <1>3, <2>2, <2>3 DEF RenameTmp
<1>4. CASE UnlinkTmp(p) \/ UnlinkNote(p)
  <2>1. pc[p] # "write" /\ pc'[q] = (IF q = p THEN pc'[p] ELSE pc[q])
    BY <1>0, <1>4, StepAndCalls DEF UnlinkTmp, UnlinkNote
  <2>2. CASE fd' = fd /\ dir' = dir
    BY <1>0, <2>1, <2>2
  <2>3. CASE fd' = FdAfterUnlink(req[p].id, "tmp") /\ dir' = dir
    <3>1. fd'[q] \in {fd[q], "lost"} /\ (fd'[q] = "lost" => fd[q] \in {"tmp", "lost"})
      BY <1>0, <2>3 DEF FdAfterUnlink, TypeOK
    <3>2. QED
      BY <1>0, <2>1, <2>3, <3>1
  <2>4. CASE fd' = FdAfterUnlink(req[p].id, "note") /\ dir' = [dir EXCEPT ![req[p].id] = None]
    <3>1. fd'[q] \in {fd[q], "lost"} /\ (fd'[q] = "lost" => fd[q] \in {"note", "lost"})
      BY <1>0, <2>4 DEF FdAfterUnlink, TypeOK
    <3>2. fd'[q] = "note" => req[q].id # req[p].id
      BY <1>0, <2>4 DEF FdAfterUnlink, TypeOK
    <3>3. req[q].id # req[p].id => dir'[req[q].id] = dir[req[q].id]
      BY <1>0, <2>4 DEF TypeOK
    <3>4. QED
      BY <1>0, <2>1, <3>1, <3>2, <3>3
  <2>5. QED
    BY <1>4, <2>2, <2>3, <2>4 DEF UnlinkTmp, UnlinkNote
<1>5. CASE ~(OpenTmp(p) \/ WriteTmp(p) \/ RenameTmp(p) \/ UnlinkTmp(p) \/ UnlinkNote(p))
  <2>1. fd' = fd /\ dir' = dir /\ pc[p] # "write"
    BY <1>5 DEF Step, CreateStat, UpdateStat, DeleteStat, GetStat, GetLoad, OpenDir,
       ReadEntry, ListLoad, EndOfDir, OutOfMemory
  <2>2. \A r \in Procs \ {p} : pc'[r] = pc[r]
    BY <1>0, StepAndCalls
  <2>3. QED
    BY <1>0, <2>1, <2>2
<1>6. QED
  BY <1>1, <1>2, <1>3, <1>4, <1>5

\* Every step keeps the invariant.
LEMMA RaceKept ==
    ASSUME RaceInv, [RaceNext]_raceVars
    PROVE  RaceInv'
<1>0. TypeInv /\ TypeInv' /\ TypeOK
  <2>1. TypeInv /\ [Next]_vars
    BY DEF RaceInv, TypeInv, RaceNext, raceVars
  <2>2. QED
    BY <2>1, TypeInductive DEF TypeInv
<1>r. ASSUME NEW q \in Procs, RaceNext, Updating(q), Updating(q)', q \in raced \/ Removed(req[q].id)
      PROVE  q \in raced'
  BY <1>r DEF RaceNext
<1>1. ASSUME NEW p \in Procs, Step(p), RaceNext
      PROVE  RaceInv'
  <2>1. ASSUME NEW q \in Procs, Updating(q)', dir'[req'[q].id] = None
        PROVE  q \in raced'
    <3>1. UNCHANGED req /\ req[q].id \in Ids
      BY <1>0, <1>1, <2>1, StepAndCalls DEF Updating, TypeOK, Request, WriteRequest,
         NameRequest, ListRequest, NoRequest
    <3>2. CASE dir[req[q].id] = None
      <4>1. Updating(q)
        <5>1. CASE q # p
          BY <1>0, <1>1, <2>1, <3>1, <5>1, StepAndCalls DEF Updating
        <5>2. CASE q = p
          <6>1. OpenTmp(p) \/ WriteTmp(p)
            BY <1>0, <1>1, <2>1, <3>1, <3>2, <5>2, StepAndCalls DEF Updating, CreateStat
          <6>2. QED
            BY <2>1, <3>1, <5>2, <6>1 DEF Updating, OpenTmp, WriteTmp
        <5>3. QED
          BY <5>1, <5>2
      <4>2. q \in raced
        BY <3>2, <4>1 DEF RaceInv
      <4>3. QED
        BY <1>1, <1>r, <2>1, <4>1, <4>2
    <3>3. CASE dir[req[q].id] # None
      <4>1. /\ UnlinkNote(p) /\ req[p].op = "delete" /\ req[p].id = req[q].id
            /\ pc[p] # "done" /\ result'[p].code = "OK"
        BY <1>1, <2>1, <3>1, <3>3, NotesComeAndGo
      <4>2. Removed(req[q].id)
        BY <4>1 DEF Removed
      <4>3. q # p
        BY <2>1, <3>1, <4>1 DEF Updating
      <4>4. Updating(q)
        BY <1>0, <1>1, <2>1, <3>1, <4>3, StepAndCalls DEF Updating
      <4>5. QED
        BY <1>1, <1>r, <2>1, <4>2, <4>4
    <3>4. QED
      BY <3>2, <3>3
  <2>2. \A q \in Procs : /\ fd'[q] # "closed" => pc'[q] = "write"
                         /\ fd'[q] = "note" => dir'[req'[q].id] # None
    BY <1>1, OpenFilesKept
  <2>3. QED
    BY <1>0, <2>1, <2>2 DEF RaceInv, TypeInv
<1>2. ASSUME NEW p \in Procs, Arrive(p), RaceNext
      PROVE  RaceInv'
  <2>1. PICK request \in Request, label \in {"stat", "opendir"} : Call(p, request, label)
    BY <1>2, ArriveCalls
  <2>2. /\ pc[p] = "idle" /\ pc'[p] = label /\ UNCHANGED <<dir, fd>>
        /\ \A q \in Procs \ {p} : pc'[q] = pc[q] /\ req'[q] = req[q]
    BY <1>0, <2>1 DEF Call, TypeOK
  <2>3. ASSUME NEW q \in Procs, Updating(q)', dir'[req'[q].id] = None
        PROVE  q \in raced'
    <3>1. q # p
      BY <2>2, <2>3 DEF Updating
    <3>2. Updating(q) /\ dir[req[q].id] = None
      BY <2>2, <2>3, <3>1 DEF Updating
    <3>3. QED
      BY <1>2, <1>r, <2>3, <3>2 DEF RaceInv
  <2>4. fd[p] = "closed"
    BY <2>2 DEF RaceInv
  <2>5. \A q \in Procs : /\ fd'[q] # "closed" => pc'[q] = "write"
                         /\ fd'[q] = "note" => dir'[req'[q].id] # None
    BY <2>2, <2>4 DEF RaceInv
  <2>6. QED
    BY <1>0, <2>3, <2>5 DEF RaceInv, TypeInv
<1>3. ASSUME NEW p \in Procs, Return(p) \/ Crash(p), RaceNext
      PROVE  RaceInv'
  <2>1. /\ pc'[p] = "idle" /\ UNCHANGED dir
        /\ \A q \in Procs \ {p} : pc'[q] = pc[q] /\ req'[q] = req[q] /\ fd'[q] = fd[q]
        /\ fd'[p] = "closed"
    BY <1>0, <1>3 DEF Return, Crash, Idle, TypeOK, RaceInv
  <2>2. ASSUME NEW q \in Procs, Updating(q)', dir'[req'[q].id] = None
        PROVE  q \in raced'
    <3>1. q # p
      BY <2>1, <2>2 DEF Updating
    <3>2. Updating(q) /\ dir[req[q].id] = None
      BY <2>1, <2>2, <3>1 DEF Updating
    <3>3. QED
      BY <1>3, <1>r, <2>2, <3>2 DEF RaceInv
  <2>3. \A q \in Procs : /\ fd'[q] # "closed" => pc'[q] = "write"
                         /\ fd'[q] = "note" => dir'[req'[q].id] # None
    BY <2>1 DEF RaceInv
  <2>4. QED
    BY <1>0, <2>2, <2>3 DEF RaceInv, TypeInv
<1>4. CASE UNCHANGED raceVars
  <2>1. dir' = dir /\ pc' = pc /\ req' = req /\ fd' = fd /\ raced' = raced
    BY <1>4 DEF raceVars, vars
  <2>2. ASSUME NEW q \in Procs, Updating(q)', dir'[req'[q].id] = None
        PROVE  q \in raced'
    BY <2>1, <2>2 DEF RaceInv, Updating
  <2>3. \A q \in Procs : /\ fd'[q] # "closed" => pc'[q] = "write"
                         /\ fd'[q] = "note" => dir'[req'[q].id] # None
    BY <2>1 DEF RaceInv
  <2>4. QED
    BY <1>0, <2>2, <2>3 DEF RaceInv, TypeInv
<1>5. QED
  BY <1>1, <1>2, <1>3, <1>4 DEF RaceNext, Next

\* Whatever the processes do to each other's notes, one that is not there appears
\* only with a create, or with an update whose note was deleted, by a delete that
\* answered OK, after the update had looked for it.
THEOREM ReturnNeedsARace == RaceSpec => AppearsByCreateOrRace
<1> DEFINE Appears(id) ==
             dir[id] = None /\ dir'[id] # None
                => \E p \in Procs : /\ req[p].id = id /\ pc[p] = "rename" /\ result'[p].code = "OK"
                                    /\ req[p].op = "create" \/ p \in raced
<1>1. ASSUME RaceInv, [RaceNext]_raceVars, NEW id \in Ids, dir[id] = None, dir'[id] # None
      PROVE  \E p \in Procs : /\ req[p].id = id /\ pc[p] = "rename" /\ result'[p].code = "OK"
                              /\ req[p].op = "create" \/ p \in raced
  <2>1. PICK p \in Procs : Step(p)
    BY <1>1 DEF RaceNext, raceVars, Next, vars, Arrive, CallCreate, CallUpdate, CallDelete, CallGet,
                CallList, Call, Return, Crash
  <2>2. req[p].id = id /\ pc[p] = "rename" /\ result'[p].code = "OK"
    BY <1>1, <2>1, NotesComeAndGo
  <2>3. req[p].op = "create" \/ p \in raced
    BY <1>1, <2>2 DEF RaceInv, OpFitsLabel, Updating
  <2>4. QED
    BY <2>2, <2>3
<1>2. RaceInv /\ [RaceNext]_raceVars => [\A id \in Ids : Appears(id)]_raceVars
  BY <1>1
<1>3. RaceSpec => []RaceInv
  BY RaceBegins, RaceKept, PTL DEF RaceSpec
<1>4. QED
  BY <1>2, <1>3, PTL DEF RaceSpec, AppearsByCreateOrRace

-----------------------------------------------------------------------------
(* What a finished call found or left behind, with one writer per note *)

\* A finished call that answers OK: what it wrote is there, what it deleted is
\* not, and what it read is the note asked for and, if only p writes it, still
\* is what is stored.
ReturnedAt(p) ==
    LET id == req[p].id
    IN  result[p].code = "OK" =>
           /\ req[p].op \in {"create", "update"} => dir[id] = NoteOf(p)
           /\ req[p].op = "delete" => dir[id] = None
           /\ req[p].op = "get" =>
                 /\ result[p].note \in Note /\ result[p].note.id = id
                 /\ id \in Writable[p] => dir[id] = result[p].note

ReturnInv == ListingInv /\ \A p \in Procs : ReturnedAt(p)

\* The notes that only p writes change in a step of p that answers OK.
LEMMA OwnNotesKept ==
    ASSUME OneWriterPerNote, WriterInv, [Next]_vars, NEW p \in Procs,
           pc[p] \in {"idle", "done"} \/ result'[p].code # "OK"
    PROVE  \A id \in Writable[p] : dir'[id] = dir[id]
<1> SUFFICES ASSUME NEW id \in Writable[p], dir'[id] # dir[id] PROVE FALSE
  OBVIOUS
<1>1. id \in Ids
  BY ConstantsAssumption
<1>2. PICK q \in Procs : /\ RenameTmp(q) \/ UnlinkNote(q)
                         /\ req[q].id = id /\ result'[q].code = "OK"
  BY <1>1, NoteChanges
<1>3. pc[q] \in {"rename", "unlink"} /\ req[q].op \in WriteOps
  BY <1>2 DEF RenameTmp, UnlinkNote, WriterInv, OpFitsLabel, WriteOps
<1>4. id \in Writable[q]
  BY <1>2, <1>3 DEF WriterInv, WritesAreOwn, WriteOps
<1>5. q = p
  BY <1>4 DEF OneWriterPerNote
<1>6. QED
  BY <1>2, <1>3, <1>5

\* A step of p that answers OK has done what p was asked to do.
LEMMA StepReturns ==
    ASSUME OneWriterPerNote, ListingInv, NEW p \in Procs, Step(p)
    PROVE  ReturnedAt(p)'
<1> USE ConstantsAssumption DEF ListingInv, WriterInv
<1>0. TypeOK /\ UNCHANGED req /\ pc[p] # "done"
  <2>1. pc[p] # "done"
    BY DEF Step, CreateStat, UpdateStat, DeleteStat, GetStat, OpenTmp, WriteTmp,
       RenameTmp, UnlinkTmp, UnlinkNote, GetLoad, OpenDir, ReadEntry, ListLoad, EndOfDir,
       OutOfMemory
  <2>2. QED
    BY <2>1, StepIsLocal
<1>1. result[p].code # "OK"
  BY <1>0 DEF ListingAt, NoResult, Codes
<1>2. CASE RenameTmp(p)
  <2>1. tmp[req[p].id] = NoteOf(p) /\ req[p].op \in {"create", "update"}
    BY <1>2 DEF RenameTmp, TmpIsMine, OpFitsLabel
  <2>2. req[p].id \in Ids
    BY <1>0, <2>1 DEF TypeOK, Request, WriteRequest, NameRequest, ListRequest, NoRequest
  <2>3. CASE dir' = [dir EXCEPT ![req[p].id] = NoteOf(p)]
    BY <1>0, <2>1, <2>2, <2>3 DEF ReturnedAt, TypeOK, NoteOf
  <2>4. CASE UNCHANGED result
    BY <1>1, <2>4 DEF ReturnedAt
  <2>5. QED
    BY <1>2, <2>1, <2>3, <2>4 DEF RenameTmp, Goto
<1>3. CASE UnlinkNote(p)
  <2>1. req[p].op = "delete"
    BY <1>3 DEF UnlinkNote, OpFitsLabel
  <2>2. req[p].id \in Ids
    BY <1>0, <2>1 DEF TypeOK, Request, WriteRequest, NameRequest, ListRequest, NoRequest
  <2>3. CASE dir' = [dir EXCEPT ![req[p].id] = None]
    BY <1>0, <2>1, <2>2, <2>3 DEF ReturnedAt, TypeOK
  <2>4. CASE Fail(p, "IO_ERROR")
    BY <1>0, <2>4 DEF ReturnedAt, TypeOK, Fail
  <2>5. QED
    BY <1>3, <2>3, <2>4 DEF UnlinkNote
<1>4. CASE GetLoad(p)
  <2>1. req[p].op = "get" /\ UNCHANGED dir
    BY <1>4 DEF GetLoad
  <2>2. req[p].id \in Ids
    BY <1>0, <2>1 DEF TypeOK, Request, WriteRequest, NameRequest, ListRequest, NoRequest
  <2>3. CASE dir[req[p].id] \in Note /\ Succeed(p, dir[req[p].id])
    <3>1. dir[req[p].id].id = req[p].id
      BY <2>2, <2>3 DEF PublishedNotesAreWhole
    <3>2. result'[p].note = dir[req[p].id]
      BY <1>0, <2>3 DEF Succeed, TypeOK
    <3>3. QED
      BY <1>0, <2>1, <2>3, <3>1, <3>2 DEF ReturnedAt
  <2>4. CASE Fail(p, "JSON_ERROR")
    BY <1>0, <2>4 DEF ReturnedAt, TypeOK, Fail
  <2>5. QED
    BY <1>4, <2>3, <2>4 DEF GetLoad
<1>5. CASE EndOfDir(p)
  <2>1. req[p].op = "list"
    BY <1>5 DEF EndOfDir, OpFitsLabel
  <2>2. QED
    BY <1>0, <2>1 DEF ReturnedAt
<1>6. CASE \/ CreateStat(p) \/ UpdateStat(p) \/ DeleteStat(p) \/ GetStat(p) \/ OpenTmp(p)
           \/ WriteTmp(p) \/ UnlinkTmp(p) \/ OpenDir(p) \/ ReadEntry(p) \/ ListLoad(p)
           \/ OutOfMemory(p)
  <2>1. \/ UNCHANGED result
        \/ \E code \in Codes \ {"OK"} : Fail(p, code)
    BY <1>6 DEF CreateStat, UpdateStat, DeleteStat, GetStat, OpenTmp, WriteTmp, UnlinkTmp,
       OpenDir, ReadEntry, ListLoad, OutOfMemory, Goto, Codes
  <2>2. QED
    BY <1>0, <1>1, <2>1 DEF ReturnedAt, Fail, TypeOK
<1>7. QED
  BY <1>2, <1>3, <1>4, <1>5, <1>6 DEF Step

\* With one writer per note and a readdir() that does not fail, ReturnInv is
\* inductive.
LEMMA ReturnInductive ==
    ASSUME OneWriterPerNote, "readdir" \notin Faults, ReturnInv, [Next]_vars
    PROVE  ReturnInv'
<1>0. TypeOK /\ WriterInv /\ ListingInv /\ ListingInv'
  BY ListingInductive DEF ReturnInv, ListingInv, WriterInv
<1>1. ASSUME NEW p \in Procs,
             req'[p] = req[p], result'[p] = result[p],
             pc[p] \in {"idle", "done"} \/ result'[p].code # "OK"
      PROVE  ReturnedAt(p)'
  <2>1. \A id \in Writable[p] : dir'[id] = dir[id]
    BY <1>0, <1>1, OwnNotesKept
  <2>2. req[p].op \in WriteOps => req[p].id \in Writable[p]
    BY <1>0 DEF WriterInv, WritesAreOwn, WriteOps
  <2>3. QED
    BY <1>1, <2>1, <2>2 DEF ReturnInv, ReturnedAt, NoteOf, WriteOps
<1>2. ASSUME NEW p \in Procs, result'[p].code # "OK" PROVE ReturnedAt(p)'
  BY <1>2 DEF ReturnedAt
<1>3. ASSUME NEW p \in Procs, result'[p].code = "OK" PROVE ReturnedAt(p)'
  <2>1. CASE Step(p)
    BY <1>0, <2>1, StepReturns
  <2>2. CASE ~Step(p)
    <3>1. req'[p] = req[p] /\ result'[p] = result[p]
      <4>1. ASSUME NEW q \in Procs, Arrive(q) PROVE req'[p] = req[p] /\ result'[p] = result[p]
        <5>1. UNCHANGED result /\ pc[q] = "idle" /\ \A r \in Procs \ {q} : req'[r] = req[r]
          BY <1>0, <4>1, ArriveCalls DEF Call, TypeOK
        <5>2. p # q
          BY <1>0, <1>3, <5>1, ConstantsAssumption DEF ListingInv, ListingAt, NoResult, Codes
        <5>3. QED
          BY <5>1, <5>2
      <4>2. ASSUME NEW q \in Procs, Step(q) PROVE req'[p] = req[p] /\ result'[p] = result[p]
        BY <1>0, <2>2, <4>2, StepIsLocal, StepLeavesListings
      <4>3. ASSUME NEW q \in Procs, Return(q) \/ Crash(q)
            PROVE  req'[p] = req[p] /\ result'[p] = result[p]
        <5>1. Idle(q)
          BY <4>3 DEF Return, Crash
        <5>2. p # q
          BY <1>0, <1>3, <5>1, ConstantsAssumption DEF Idle, NoResult, Codes, TypeOK
        <5>3. QED
          BY <1>0, <5>1, <5>2 DEF Idle, TypeOK
      <4>4. QED
        BY <4>1, <4>2, <4>3 DEF Next, vars
    <3>2. pc[p] = "done"
      BY <1>0, <1>3, <3>1, ConstantsAssumption DEF ListingInv, ListingAt, NoResult, Codes
    <3>3. QED
      BY <1>1, <3>1, <3>2
  <2>3. QED
    BY <2>1, <2>2
<1>4. QED
  BY <1>0, <1>2, <1>3 DEF ReturnInv

\* No call has returned anything at the beginning.
LEMMA ReturnInit == Init => ReturnInv
<1>1. Init => ListingInv
  BY ListingInit
<1>2. ASSUME Init, NEW p \in Procs PROVE ReturnedAt(p)
  BY <1>2, ConstantsAssumption DEF Init, ReturnedAt, NoResult, Codes
<1>3. QED
  BY <1>1, <1>2 DEF ReturnInv

\* Every reachable state satisfies what is returned.
LEMMA ReturnCorrect ==
    ASSUME OneWriterPerNote, "readdir" \notin Faults
    PROVE  Spec => []ReturnInv
<1>1. Init => ReturnInv
  BY ReturnInit
<1>2. ReturnInv /\ [Next]_vars => ReturnInv'
  BY ReturnInductive
<1>3. QED
  BY <1>1, <1>2, PTL DEF Spec

-----------------------------------------------------------------------------
(* Refinement: the repository implements NoteStore when every note has one
   writer and stat() reports what is there. *)

\* A process is idle exactly when it has no request, and has a result only
\* when its call is done.
CallInv ==
    \A p \in Procs :
       /\ pc[p] = "idle" <=> req[p].op = "none"
       /\ pc[p] # "done" => result[p] = NoResult

RefInv == WriterInv /\ CallInv

\* How pc, req and result of a process p that steps move; nobody else's do.
LEMMA StepControl ==
    ASSUME TypeOK, NEW p \in Procs, Step(p)
    PROVE  /\ pc[p] \notin {"idle", "done"} /\ pc'[p] # "idle"
           /\ UNCHANGED req
           /\ pc'[p] # "done" => UNCHANGED result
           /\ \A q \in Procs \ {p} : pc'[q] = pc[q] /\ result'[q] = result[q]
<1> USE DEF TypeOK, Fail, Succeed, Goto
<1>1. CASE CreateStat(p) \/ UpdateStat(p) \/ DeleteStat(p) \/ GetStat(p)
  BY <1>1 DEF CreateStat, UpdateStat, DeleteStat, GetStat
<1>2. CASE OpenTmp(p) \/ RenameTmp(p) \/ UnlinkTmp(p) \/ UnlinkNote(p)
  BY <1>2 DEF OpenTmp, RenameTmp, UnlinkTmp, UnlinkNote
<1>3. CASE WriteTmp(p)
  BY <1>3 DEF WriteTmp
<1>4. CASE GetLoad(p) \/ OpenDir(p) \/ ReadEntry(p) \/ ListLoad(p) \/ EndOfDir(p)
  BY <1>4 DEF GetLoad, OpenDir, ReadEntry, ListLoad, EndOfDir
<1>5. CASE OutOfMemory(p)
  BY <1>5 DEF OutOfMemory
<1>6. QED
  BY <1>1, <1>2, <1>3, <1>4, <1>5 DEF Step

\* Every step keeps the processes at lines of the call they are in.
LEMMA CallInductive ==
    ASSUME TypeOK, CallInv, [Next]_vars
    PROVE  CallInv'
<1>1. ASSUME NEW p \in Procs, Arrive(p) PROVE CallInv'
  <2>1. PICK request \in Request, label \in {"stat", "opendir"} :
           Call(p, request, label) /\ request.op # "none"
    BY <1>1, ArriveCalls
  <2>2. QED
    BY <2>1 DEF Call, CallInv, TypeOK
<1>2. ASSUME NEW p \in Procs, Step(p) PROVE CallInv'
  BY <1>2, StepControl DEF CallInv
<1>3. ASSUME NEW p \in Procs, Return(p) \/ Crash(p) PROVE CallInv'
  BY <1>3 DEF Return, Crash, Idle, CallInv, TypeOK, NoRequest
<1>4. CASE UNCHANGED vars
  BY <1>4 DEF vars, CallInv
<1>5. QED
  BY <1>1, <1>2, <1>3, <1>4 DEF Next

\* Every reachable state satisfies what the refinement relies on.
LEMMA RefInvariance ==
    ASSUME OneWriterPerNote
    PROVE  Spec => []RefInv
<1>1. Init => CallInv
  <2> SUFFICES ASSUME Init, NEW p \in Procs
               PROVE  pc[p] = "idle" /\ req[p].op = "none" /\ result[p] = NoResult
    BY DEF CallInv
  <2>1. QED
    BY DEF Init, NoRequest
<1>2. WriterInv /\ CallInv /\ [Next]_vars => CallInv'
  BY CallInductive DEF WriterInv
<1>3. QED
  BY <1>1, <1>2, WriterCorrect, PTL DEF Spec, RefInv

-----------------------------------------------------------------------------
(* Steps of the repository as steps of the store *)

StoreCalls == [p \in Procs |-> StoreCall(p)]

\* When p steps, only p's call of the store changes.
LEMMA OtherCalls ==
    ASSUME NEW p \in Procs,
           \A q \in Procs \ {p} :
              pc'[q] = pc[q] /\ req'[q] = req[q] /\ result'[q] = result[q]
    PROVE  StoreCalls' = [StoreCalls EXCEPT ![p] = StoreCall(p)']
<1>1. \A q \in Procs \ {p} : StoreCall(q)' = StoreCall(q)
  BY DEF StoreCall
<1>2. QED
  BY <1>1 DEF StoreCalls

\* A step of p that p's call of the store and the notes do not show.
LEMMA Stutters ==
    ASSUME NEW p \in Procs, UNCHANGED dir, StoreCall(p)' = StoreCall(p),
           \A q \in Procs \ {p} :
              pc'[q] = pc[q] /\ req'[q] = req[q] /\ result'[q] = result[q]
    PROVE  UNCHANGED Store!vars
<1>1. UNCHANGED StoreNotes
  BY DEF StoreNotes
<1>2. UNCHANGED StoreCalls
  BY OtherCalls DEF StoreCalls
<1>3. QED
  BY <1>1, <1>2 DEF Store!vars, StoreCalls

\* The arrival of a call begins a call of the store, of a listing nothing.
LEMMA ArriveBegins ==
    ASSUME RefInv, NEW p \in Procs, Arrive(p)
    PROVE  [Store!Next]_(Store!vars)
<1>1. PICK request \in Request, label \in {"stat", "opendir"} :
         Call(p, request, label) /\ request.op # "none"
  BY ArriveCalls
<1>2. /\ pc[p] = "idle" /\ pc'[p] # "idle" /\ pc'[p] # "done" /\ req'[p] = request
      /\ result'[p] = NoResult /\ UNCHANGED dir
      /\ \A q \in Procs \ {p} :
            pc'[q] = pc[q] /\ req'[q] = req[q] /\ result'[q] = result[q]
  BY <1>1 DEF Call, RefInv, WriterInv, TypeOK, CallInv
<1>3. CASE request.op = "list"
  BY <1>2, <1>3, Stutters DEF StoreCall
<1>4. CASE request.op # "list"
  <2>1. /\ request.op \in Store!Ops /\ request.id \in Ids
        /\ request.body \in Bodies \cup {None}
    BY <1>1, <1>4 DEF Request, WriteRequest, NameRequest, ListRequest, NoRequest, Store!Ops
  <2>2. StoreCall(p) = Store!NoCall
    BY <1>2 DEF StoreCall, Store!NoCall
  <2>3. StoreCall(p)' = [phase |-> "called", op |-> request.op, id |-> request.id,
                         body |-> request.body, code |-> None, value |-> None]
    BY <1>2, <1>4 DEF StoreCall, NoResult
  <2>4. UNCHANGED StoreNotes
    BY <1>2 DEF StoreNotes
  <2>5. Store!Begin(p, request.op, request.id, request.body)
    BY <1>2, <2>2, <2>3, <2>4, OtherCalls DEF Store!Begin, StoreCalls
  <2>6. QED
    BY <2>1, <2>5 DEF Store!Next
<1>5. QED
  BY <1>3, <1>4

\* A return is a return of the store, a crash the loss of a call.
LEMMA ReturnReturns ==
    ASSUME RefInv, NEW p \in Procs, Return(p) \/ Crash(p)
    PROVE  [Store!Next]_(Store!vars)
<1>1. /\ pc[p] # "idle" /\ pc'[p] = "idle" /\ UNCHANGED dir
      /\ \A q \in Procs \ {p} :
            pc'[q] = pc[q] /\ req'[q] = req[q] /\ result'[q] = result[q]
  BY DEF Return, Crash, Idle, RefInv, WriterInv, TypeOK
<1>2. StoreCall(p)' = Store!NoCall
  BY <1>1 DEF StoreCall, Store!NoCall
<1>3. CASE req[p].op = "list"
  BY <1>1, <1>2, <1>3, Stutters DEF StoreCall, Store!NoCall
<1>4. CASE req[p].op # "list"
  <2>1. StoreCall(p) # Store!NoCall
    BY <1>1, <1>4 DEF StoreCall, Store!NoCall
  <2>2. UNCHANGED StoreNotes
    BY <1>1 DEF StoreNotes
  <2>3. Store!Lose(p)
    BY <1>1, <1>2, <2>1, <2>2, OtherCalls DEF Store!Lose, StoreCalls
  <2>4. QED
    BY <2>3 DEF Store!Next
<1>5. QED
  BY <1>3, <1>4

\* With whole notes only, the store has a note exactly when there is a file.
LEMMA PresentIffFile ==
    ASSUME PublishedNotesAreWhole, NEW id \in Ids
    PROVE  /\ dir[id] = None <=> StoreNotes[id] = None
           /\ dir[id] # None => dir[id] \in Note /\ StoreNotes[id] = dir[id].body
BY ConstantsAssumption DEF PublishedNotesAreWhole, StoreNotes, Note

\* Only the last step of a call changes a note file.
LEMMA ChangeEnds ==
    ASSUME OneWriterPerNote, RefInv, NEW p \in Procs, Step(p), pc'[p] # "done"
    PROVE  UNCHANGED dir
<1> USE DEF RefInv, WriterInv, TypeOK
<1>1. CASE RenameTmp(p) \/ UnlinkNote(p)
  BY <1>1 DEF RenameTmp, UnlinkNote, Succeed, Fail
<1>2. CASE WriteTmp(p)
  BY <1>2 DEF WriteTmp, TmpIsMine
<1>3. CASE ~(RenameTmp(p) \/ UnlinkNote(p) \/ WriteTmp(p))
  BY <1>3 DEF Step, CreateStat, UpdateStat, DeleteStat, GetStat, OpenTmp, UnlinkTmp,
              GetLoad, OpenDir, ReadEntry, ListLoad, EndOfDir, OutOfMemory
<1>4. QED
  BY <1>1, <1>2, <1>3

\* The step that ends a call other than a listing: what the call answers and
\* what that says of its note.
LEMMA EndOfCall ==
    ASSUME "stat" \notin Faults, OneWriterPerNote, RefInv, NEW p \in Procs, Step(p),
           pc'[p] = "done", req[p].op # "list"
    PROVE  LET id == req[p].id
               answer == result'[p]
           IN  \/ /\ req[p].op = "create" /\ dir[id] = None
                  /\ dir' = [dir EXCEPT ![id] = NoteOf(p)]
                  /\ answer = [code |-> "OK", note |-> None]
               \/ /\ req[p].op = "update" /\ dir[id] # None
                  /\ dir' = [dir EXCEPT ![id] = NoteOf(p)]
                  /\ answer = [code |-> "OK", note |-> None]
               \/ /\ req[p].op = "delete" /\ dir[id] # None
                  /\ dir' = [dir EXCEPT ![id] = None]
                  /\ answer = [code |-> "OK", note |-> None]
               \/ /\ req[p].op = "get" /\ dir[id] \in Note /\ UNCHANGED dir
                  /\ answer = [code |-> "OK", note |-> dir[id]]
               \/ /\ req[p].op = "create" /\ dir[id] # None /\ UNCHANGED dir
                  /\ answer = [code |-> "ALREADY_EXISTS", note |-> None]
               \/ /\ req[p].op \in {"get", "update", "delete"} /\ dir[id] = None
                  /\ UNCHANGED dir /\ answer = [code |-> "NOT_FOUND", note |-> None]
               \/ /\ UNCHANGED dir
                  /\ \E code \in Store!Errors : answer = [code |-> code, note |-> None]
<1> USE DEF RefInv, WriterInv, TypeOK, Store!Errors
<1>1. CASE CreateStat(p) \/ UpdateStat(p) \/ DeleteStat(p) \/ GetStat(p)
  BY <1>1 DEF CreateStat, UpdateStat, DeleteStat, GetStat, PathExists, PathMissing,
              Target, Fail, Goto
<1>2. CASE OpenTmp(p) \/ UnlinkTmp(p)
  BY <1>2 DEF OpenTmp, UnlinkTmp, Fail, Goto
<1>3. CASE WriteTmp(p)
  BY <1>3 DEF WriteTmp, TmpIsMine, Fail, Goto
<1>4. CASE RenameTmp(p)
  BY <1>4 DEF RenameTmp, TmpIsMine, OpFitsLabel, CheckStillHolds, Succeed, Goto
<1>5. CASE UnlinkNote(p)
  BY <1>5 DEF UnlinkNote, OpFitsLabel, Succeed, Fail
<1>6. CASE GetLoad(p)
  BY <1>6 DEF GetLoad, Succeed, Fail
<1>7. CASE OpenDir(p) \/ ReadEntry(p) \/ ListLoad(p) \/ EndOfDir(p)
  BY <1>7 DEF OpenDir, ReadEntry, ListLoad, EndOfDir, OpFitsLabel
<1>8. CASE OutOfMemory(p)
  BY <1>8 DEF OutOfMemory, Fail
<1>9. QED
  BY <1>1, <1>2, <1>3, <1>4, <1>5, <1>6, <1>7, <1>8 DEF Step

\* A system call of the repository is invisible in the store or takes the
\* decision on the call.
LEMMA StepDecides ==
    ASSUME "stat" \notin Faults, OneWriterPerNote, RefInv, NEW p \in Procs, Step(p)
    PROVE  [Store!Next]_(Store!vars)
<1> DEFINE id == req[p].id
<1>1. /\ pc[p] \notin {"idle", "done"} /\ pc'[p] # "idle" /\ UNCHANGED req
      /\ pc'[p] # "done" => UNCHANGED result
      /\ \A q \in Procs \ {p} :
            pc'[q] = pc[q] /\ req'[q] = req[q] /\ result'[q] = result[q]
  BY StepControl DEF RefInv, WriterInv
<1>2. CASE req[p].op = "list"
  <2>1. UNCHANGED dir
    <3>1. \A i \in Ids : dir'[i] = dir[i]
      BY <1>2, StepIsLocal DEF RefInv, WriteOps
    <3>2. dir \in [Ids -> Content] /\ dir' \in [Ids -> Content]
      BY StepType DEF RefInv, WriterInv, TypeOK
    <3>3. QED
      BY <3>1, <3>2
  <2>2. QED
    BY <1>1, <1>2, <2>1, Stutters DEF StoreCall
<1>3. CASE req[p].op # "list" /\ pc'[p] # "done"
  BY <1>1, <1>3, ChangeEnds, Stutters DEF StoreCall
<1>4. CASE req[p].op # "list" /\ pc'[p] = "done"
  <2>1. /\ req[p].op \in Store!Ops /\ id \in Ids
        /\ req[p].op \in {"create", "update"} => NoteOf(p) \in Note /\ NoteOf(p).body = req[p].body
    BY <1>1, <1>4 DEF RefInv, WriterInv, TypeOK, CallInv, Request, WriteRequest,
       NameRequest, ListRequest, NoRequest, Store!Ops, NoteOf, Note
  <2>2. StoreCall(p) = [phase |-> "called", op |-> req[p].op, id |-> id,
                        body |-> req[p].body, code |-> None, value |-> None]
    <3>1. result[p] = NoResult
      BY <1>1 DEF RefInv, CallInv
    <3>2. QED
      BY <1>1, <1>4, <3>1 DEF StoreCall, NoResult
  <2>3. StoreCall(p)' =
           [phase |-> "decided", op |-> req[p].op, id |-> id, body |-> req[p].body,
            code |-> result'[p].code,
            value |-> IF result'[p].note = None THEN None ELSE result'[p].note.body]
    BY <1>1, <1>4 DEF StoreCall
  <2>4. ASSUME NEW code, NEW value, result'[p].code = code,
               value = IF result'[p].note = None THEN None ELSE result'[p].note.body
        PROVE  Store!Answer(p, code, value)
    <3>1. StoreCalls' = [StoreCalls EXCEPT ![p] = StoreCall(p)']
      BY <1>1, OtherCalls
    <3>2. StoreCall(p)' = [phase |-> "decided", op |-> StoreCalls[p].op,
                           id |-> StoreCalls[p].id, body |-> StoreCalls[p].body,
                           code |-> code, value |-> value]
      BY <2>2, <2>3, <2>4 DEF StoreCalls
    <3>3. QED
      BY <3>1, <3>2 DEF Store!Answer, StoreCalls
  <2>5. /\ dir[id] = None <=> StoreNotes[id] = None
        /\ dir[id] # None => dir[id] \in Note /\ StoreNotes[id] = dir[id].body
    BY <2>1, PresentIffFile DEF RefInv, WriterInv
  <2>6. UNCHANGED dir => UNCHANGED StoreNotes
    BY DEF StoreNotes
  <2>7. \A c \in Note \cup {None} :
           dir' = [dir EXCEPT ![id] = c] =>
              StoreNotes' = [StoreNotes EXCEPT ![id] = IF c = None THEN None ELSE c.body]
    <3> SUFFICES ASSUME NEW c \in Note \cup {None}, dir' = [dir EXCEPT ![id] = c]
                 PROVE  StoreNotes' =
                           [StoreNotes EXCEPT ![id] = IF c = None THEN None ELSE c.body]
      OBVIOUS
    <3>1. dir'[id] = c /\ \A i \in Ids \ {id} : dir'[i] = dir[i]
      BY <2>1 DEF RefInv, WriterInv, TypeOK
    <3>2. (IF dir'[id] \in Note THEN dir'[id].body ELSE dir'[id]) =
          (IF c = None THEN None ELSE c.body)
      BY <3>1, ConstantsAssumption
    <3>3. StoreNotes' = [i \in Ids |-> IF i = id THEN IF c = None THEN None ELSE c.body
                                       ELSE StoreNotes[i]]
      BY <3>1, <3>2 DEF StoreNotes
    <3>4. StoreNotes = [i \in Ids |-> StoreNotes[i]]
      BY DEF StoreNotes
    <3>5. QED
      BY <2>1, <3>3, <3>4
  <2>8. Store!Decide(p)
    <3> DEFINE answer  == result'[p]
               Written == /\ \/ req[p].op = "create" /\ dir[id] = None
                             \/ req[p].op = "update" /\ dir[id] # None
                          /\ dir' = [dir EXCEPT ![id] = NoteOf(p)]
                          /\ answer = [code |-> "OK", note |-> None]
               Deleted == /\ req[p].op = "delete" /\ dir[id] # None
                          /\ dir' = [dir EXCEPT ![id] = None]
                          /\ answer = [code |-> "OK", note |-> None]
               Loaded  == /\ req[p].op = "get" /\ dir[id] \in Note /\ UNCHANGED dir
                          /\ answer = [code |-> "OK", note |-> dir[id]]
               Exists  == /\ req[p].op = "create" /\ dir[id] # None /\ UNCHANGED dir
                          /\ answer = [code |-> "ALREADY_EXISTS", note |-> None]
               Missing == /\ req[p].op \in {"get", "update", "delete"}
                          /\ dir[id] = None /\ UNCHANGED dir
                          /\ answer = [code |-> "NOT_FOUND", note |-> None]
               Failed  == /\ UNCHANGED dir
                          /\ \E code \in Store!Errors :
                                answer = [code |-> code, note |-> None]
    <3>0. /\ StoreCalls[p].phase = "called" /\ StoreCalls[p].op = req[p].op
          /\ StoreCalls[p].id = id /\ StoreCalls[p].body = req[p].body
      BY <2>2 DEF StoreCalls
    <3>1. CASE Written
      <4>1. NoteOf(p) # None
        BY <2>1, <3>1, ConstantsAssumption
      <4>2. StoreNotes' = [StoreNotes EXCEPT ![id] = req[p].body]
        BY <2>1, <2>7, <3>1, <4>1
      <4>3. Store!Answer(p, "OK", None)
        BY <2>4, <3>1
      <4>4. Store!Write(p, req[p].op, req[p].body)
        BY <3>0, <4>2, <4>3 DEF Store!Write, StoreCalls
      <4>5. QED
        BY <2>5, <3>0, <3>1, <4>4 DEF Store!Decide, StoreCalls
    <3>2. CASE Deleted
      <4>1. StoreNotes' = [StoreNotes EXCEPT ![id] = None]
        BY <2>7, <3>2
      <4>2. Store!Answer(p, "OK", None)
        BY <2>4, <3>2
      <4>3. Store!Write(p, "delete", None)
        BY <3>0, <3>2, <4>1, <4>2 DEF Store!Write, StoreCalls
      <4>4. QED
        BY <2>5, <3>0, <3>2, <4>3 DEF Store!Decide, StoreCalls
    <3>3. CASE Loaded
      <4>1. dir[id] # None
        BY <3>3, ConstantsAssumption
      <4>2. Store!Answer(p, "OK", StoreNotes[id])
        BY <2>4, <2>5, <3>3, <4>1
      <4>3. QED
        BY <2>5, <2>6, <3>0, <3>3, <4>1, <4>2 DEF Store!Decide, StoreCalls
    <3>4. ASSUME NEW ops, req[p].op \in ops, UNCHANGED dir, answer.note = None
          PROVE  Store!Refuse(p, ops, answer.code)
      <4>1. Store!Answer(p, answer.code, None)
        BY <2>4, <3>4
      <4>2. QED
        BY <2>6, <3>0, <3>4, <4>1 DEF Store!Refuse, StoreCalls
    <3>5. CASE Exists
      <4>1. Store!Refuse(p, {"create"}, "ALREADY_EXISTS")
        BY <3>4, <3>5
      <4>2. QED
        BY <2>5, <3>0, <3>5, <4>1 DEF Store!Decide, StoreCalls
    <3>6. CASE Missing
      <4>1. Store!Refuse(p, {"get", "update", "delete"}, "NOT_FOUND")
        BY <3>4, <3>6
      <4>2. QED
        BY <2>5, <3>0, <3>6, <4>1 DEF Store!Decide, StoreCalls
    <3>7. CASE Failed
      <4>1. PICK code \in Store!Errors : answer = [code |-> code, note |-> None]
        BY <3>7
      <4>2. Store!Refuse(p, Store!Ops, code)
        BY <2>1, <3>4, <3>7, <4>1
      <4>3. QED
        BY <3>0, <4>2 DEF Store!Decide, StoreCalls
    <3>8. Written \/ Deleted \/ Loaded \/ Exists \/ Missing \/ Failed
      BY <1>4, EndOfCall
    <3> HIDE DEF Written, Deleted, Loaded, Exists, Missing, Failed
    <3>9. QED
      BY <3>1, <3>2, <3>3, <3>5, <3>6, <3>7, <3>8
  <2>9. QED
    BY <2>8 DEF Store!Next
<1>5. QED
  BY <1>2, <1>3, <1>4

-----------------------------------------------------------------------------

\* If no two processes write the same note and stat() is honest, the sequence
\* of system calls implements an atomic store: every create, get, update and
\* delete takes effect at one instant or not at all, with system calls and
\* allocations failing and processes dying anywhere.
THEOREM RepositoryImplementsStore ==
    ASSUME OneWriterPerNote, "stat" \notin Faults
    PROVE  Spec => ImplementsStore
<1>1. Init => Store!Init
  BY ConstantsAssumption DEF Init, Store!Init, Store!NoCall, StoreNotes, StoreCall, NoRequest
<1>2. RefInv /\ [Next]_vars => [Store!Next]_(Store!vars)
  <2> SUFFICES ASSUME RefInv, [Next]_vars PROVE [Store!Next]_(Store!vars)
    OBVIOUS
  <2>1. CASE UNCHANGED vars
    <3>1. UNCHANGED StoreNotes
      BY <2>1 DEF vars, StoreNotes
    <3>2. \A p \in Procs : StoreCall(p)' = StoreCall(p)
      BY <2>1 DEF vars, StoreCall
    <3>3. QED
      BY <3>1, <3>2 DEF Store!vars
  <2>2. CASE Next
    BY <2>2, ArriveBegins, StepDecides, ReturnReturns DEF Next
  <2>3. QED
    BY <2>1, <2>2
<1>3. QED
  BY <1>1, <1>2, RefInvariance, PTL DEF Spec, ImplementsStore, Store!Spec
=============================================================================
