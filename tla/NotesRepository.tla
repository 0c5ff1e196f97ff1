-------------------------- MODULE NotesRepository --------------------------
(***************************************************************************)
(* The file-based notes repository (src/notes_repository), one step per    *)
(* system call that other processes can observe.                           *)
(*                                                                         *)
(* A process of the service answers one request at a time: libmicrohttpd   *)
(* runs every callback on its single internal polling thread.  Several     *)
(* processes may be started on the same data directory, and the repository *)
(* takes no lock, so their system calls interleave freely.                 *)
(*                                                                         *)
(* A note `id` has two possible directory entries: `{id}.json`, modelled   *)
(* by dir[id], and `{id}.json.tmp`, modelled by tmp[id].  An entry holds   *)
(* None (no such file), Empty (just truncated), Torn (not the JSON of any  *)
(* note) or a whole note.                                                  *)
(***************************************************************************)

CONSTANTS
    Procs,      \* service processes that share the data directory
    Ids,        \* note identifiers
    Bodies,     \* everything a note holds besides its id
    Tags,       \* tags a note may carry and a listing may ask for
    TagsOf,     \* TagsOf[b]: the tags of body b
    Writable,   \* Writable[p]: ids whose create, update and delete requests
                \* reach process p
    Faults,     \* kinds of fault that may happen, a subset of FaultKinds
    None, Empty, Torn

\* "io": a system call fails; "oom": an allocation fails; "crash": a process
\* dies and is restarted; "stat": stat() fails on a file that exists;
\* "readdir": readdir() fails before the end of the directory; "collision":
\* generateNoteId returns an id that is in use.
FaultKinds == {"io", "oom", "crash", "stat", "readdir", "collision"}

Note == [id : Ids, body : Bodies]

Codes == {"OK", "NOT_FOUND", "ALREADY_EXISTS", "IO_ERROR", "JSON_ERROR",
          "NO_MEMORY"}

ASSUME ConstantsAssumption ==
    /\ TagsOf \in [Bodies -> SUBSET Tags]
    /\ Writable \in [Procs -> SUBSET Ids]
    /\ Faults \subseteq FaultKinds
    /\ None \notin Ids \cup Bodies \cup Tags \cup Note \cup Codes
    /\ Empty \notin Note /\ Torn \notin Note
    /\ None # Empty /\ None # Torn /\ Empty # Torn

\* What a directory entry can hold.
Content == Note \cup {None, Empty, Torn}

Labels == {"idle", "stat", "open", "write", "rename", "unlinkTmp", "unlink",
           "load", "opendir", "readdir", "done"}

VARIABLES
    dir,      \* dir[id]: what `{id}.json` holds
    tmp,      \* tmp[id]: what `{id}.json.tmp` holds
    pc,       \* pc[p]: the next system call of process p
    req,      \* req[p]: the repository call process p executes
    fd,       \* fd[p]: where the file p has open for writing is: "closed",
              \* still at its "tmp" name, renamed by another process to its
              \* "note" name, or unlinked ("lost")
    scan,     \* scan[p]: the state of a directory listing
    result    \* result[p]: return code and loaded note of a finished call

vars == <<dir, tmp, pc, req, fd, scan, result>>

WriteRequest == [op : {"create", "update"}, id : Ids, body : Bodies, tag : {None}]
NameRequest  == [op : {"get", "delete"}, id : Ids, body : {None}, tag : {None}]
ListRequest  == [op : {"list"}, id : {None}, body : {None}, tag : Tags \cup {None}]
NoRequest    == [op |-> "none", id |-> None, body |-> None, tag |-> None]
Request == WriteRequest \cup NameRequest \cup ListRequest \cup {NoRequest}
Scan    == [cur : Ids \cup {None}, snap : SUBSET Ids, seen : SUBSET Ids,
            items : SUBSET Note]
Result  == [code : Codes \cup {None}, note : Note \cup {None}]

NoScan    == [cur |-> None, snap |-> {}, seen |-> {}, items |-> {}]
NoResult  == [code |-> None, note |-> None]

TypeOK ==
    /\ dir \in [Ids -> Content]
    /\ tmp \in [Ids -> Content]
    /\ pc \in [Procs -> Labels]
    /\ req \in [Procs -> Request]
    /\ fd \in [Procs -> {"closed", "tmp", "note", "lost"}]
    /\ scan \in [Procs -> Scan]
    /\ result \in [Procs -> Result]

Init ==
    /\ dir = [id \in Ids |-> None]
    /\ tmp = [id \in Ids |-> None]
    /\ pc = [p \in Procs |-> "idle"]
    /\ req = [p \in Procs |-> NoRequest]
    /\ fd = [p \in Procs |-> "closed"]
    /\ scan = [p \in Procs |-> NoScan]
    /\ result = [p \in Procs |-> NoResult]

-----------------------------------------------------------------------------
(* Helpers *)

\* The id whose file the current stat() or load names: the entry just read
\* from the directory when listing, the requested id otherwise.
Target(p) == IF req[p].op = "list" THEN scan[p].cur ELSE req[p].id

\* The note a create or an update writes.
NoteOf(p) == [id |-> req[p].id, body |-> req[p].body]

HasTag(note, tag) == tag \in TagsOf[note.body]

\* stat() == 0, and stat() != 0: any failure of stat() reads as absence.
PathExists(id)  == dir[id] # None
PathMissing(id) == dir[id] = None \/ "stat" \in Faults

Goto(p, label) ==
    /\ pc' = [pc EXCEPT ![p] = label]
    /\ UNCHANGED <<scan, result>>

\* The call returns RETCODE_OK, with the note it loaded if there is one.
Succeed(p, note) ==
    /\ pc' = [pc EXCEPT ![p] = "done"]
    /\ result' = [result EXCEPT ![p] = [code |-> "OK", note |-> note]]

\* The call returns an error; a listing frees what it had collected.
Fail(p, code) ==
    /\ pc' = [pc EXCEPT ![p] = "done"]
    /\ result' = [result EXCEPT ![p] = [code |-> code, note |-> None]]
    /\ scan' = [scan EXCEPT ![p].items = {}]

-----------------------------------------------------------------------------
(* Calls arriving from the service *)

Call(p, request, label) ==
    /\ pc[p] = "idle"
    /\ pc' = [pc EXCEPT ![p] = label]
    /\ req' = [req EXCEPT ![p] = request]
    /\ UNCHANGED <<dir, tmp, fd, scan, result>>

\* An id nobody knows: no note has it and no request names it.  An id whose
\* note has been deleted stands for a new one.
Fresh(id) == dir[id] = None /\ \A q \in Procs : req[q].id # id

\* The service has drawn the id at random.
CallCreate(p, id, body) ==
    /\ id \in Writable[p]
    /\ Fresh(id) \/ "collision" \in Faults
    /\ Call(p, [op |-> "create", id |-> id, body |-> body, tag |-> None], "stat")

CallUpdate(p, id, body) ==
    /\ id \in Writable[p]
    /\ Call(p, [op |-> "update", id |-> id, body |-> body, tag |-> None], "stat")

CallDelete(p, id) ==
    /\ id \in Writable[p]
    /\ Call(p, [op |-> "delete", id |-> id, body |-> None, tag |-> None], "stat")

CallGet(p, id) ==
    Call(p, [op |-> "get", id |-> id, body |-> None, tag |-> None], "stat")

\* tag = None is a listing of all notes.
CallList(p, tag) ==
    Call(p, [op |-> "list", id |-> None, body |-> None, tag |-> tag], "opendir")

-----------------------------------------------------------------------------
(* The existence checks *)

CreateStat(p) ==
    /\ pc[p] = "stat" /\ req[p].op = "create"
    /\ \/ PathExists(req[p].id) /\ Fail(p, "ALREADY_EXISTS")
       \/ PathMissing(req[p].id) /\ Goto(p, "open")
    /\ UNCHANGED <<dir, tmp, req, fd>>

\* Mutant: the update writes without looking whether the note is there.
UpdateStatUnchecked(p) ==
    /\ pc[p] = "stat" /\ req[p].op = "update"
    /\ Goto(p, "open")
    /\ UNCHANGED <<dir, tmp, req, fd>>

UpdateStat(p) ==
    /\ pc[p] = "stat" /\ req[p].op = "update"
    /\ \/ PathExists(req[p].id) /\ Goto(p, "open")
       \/ PathMissing(req[p].id) /\ Fail(p, "NOT_FOUND")
    /\ UNCHANGED <<dir, tmp, req, fd>>

DeleteStat(p) ==
    /\ pc[p] = "stat" /\ req[p].op = "delete"
    /\ \/ PathExists(req[p].id) /\ Goto(p, "unlink")
       \/ PathMissing(req[p].id) /\ Fail(p, "NOT_FOUND")
    /\ UNCHANGED <<dir, tmp, req, fd>>

GetStat(p) ==
    /\ pc[p] = "stat" /\ req[p].op \in {"get", "list"}
    /\ \/ PathExists(Target(p)) /\ Goto(p, "load")
       \/ PathMissing(Target(p)) /\ Fail(p, "NOT_FOUND")
    /\ UNCHANGED <<dir, tmp, req, fd>>

-----------------------------------------------------------------------------
(* writeNoteJsonAtomic: fopen, fwrite and fclose of the temporary file, then *)
(* rename                                                                    *)

\* Mutant: the temporary file is opened without being truncated.
OpenTmpKeepingContents(p) ==
    /\ pc[p] = "open"
    /\ tmp' = [tmp EXCEPT ![req[p].id] = IF @ = None THEN Empty ELSE @]
    /\ fd' = [fd EXCEPT ![p] = "tmp"]
    /\ Goto(p, "write")
    /\ UNCHANGED <<dir, req>>

\* Mutant: the note's own file is opened for writing.
OpenNoteInPlace(p) ==
    /\ pc[p] = "open"
    /\ dir' = [dir EXCEPT ![req[p].id] = Empty]
    /\ fd' = [fd EXCEPT ![p] = "note"]
    /\ Goto(p, "write")
    /\ UNCHANGED <<tmp, req>>

\* fopen(tmp, "w") creates the temporary file or truncates the one there.
OpenTmp(p) ==
    /\ pc[p] = "open"
    /\ \/ /\ tmp' = [tmp EXCEPT ![req[p].id] = Empty]
          /\ fd' = [fd EXCEPT ![p] = "tmp"]
          /\ Goto(p, "write")
       \/ /\ "io" \in Faults
          /\ Fail(p, "IO_ERROR")
          /\ UNCHANGED <<tmp, fd>>
    /\ UNCHANGED <<dir, req>>

\* What a file holding `old` may hold once `note` has been written from its
\* first byte on: a longer text of another writer keeps its tail.
Overwrite(old, note) == IF old = Empty THEN {note} ELSE {note, Torn}

\* p writes to the file it opened, under whatever name that file has now.
\* A failing write leaves the temporary file behind.
WriteTmp(p) ==
    LET id == req[p].id
        Store(contents(_)) ==
            \/ /\ fd[p] = "tmp"
               /\ \E c \in contents(tmp[id]) : tmp' = [tmp EXCEPT ![id] = c]
               /\ UNCHANGED dir
            \/ /\ fd[p] = "note"
               /\ \E c \in contents(dir[id]) : dir' = [dir EXCEPT ![id] = c]
               /\ UNCHANGED tmp
            \/ /\ fd[p] = "lost"
               /\ UNCHANGED <<dir, tmp>>
        Whole(old) == Overwrite(old, NoteOf(p))
        Part(old)  == {old, Torn}
    IN  /\ pc[p] = "write"
        /\ \/ Store(Whole) /\ Goto(p, "rename")
           \/ "io" \in Faults /\ Store(Part) /\ Fail(p, "IO_ERROR")
        /\ fd' = [fd EXCEPT ![p] = "closed"]
        /\ UNCHANGED req

\* Where the open files of note `id` are after its temporary file has been
\* renamed over the note.
FdAfterRename(id) ==
    [q \in Procs |-> IF req[q].id # id THEN fd[q]
                     ELSE CASE fd[q] = "tmp"  -> "note"
                            [] fd[q] = "note" -> "lost"
                            [] OTHER          -> fd[q]]

\* Where they are after the file called `name` has been unlinked.
FdAfterUnlink(id, name) ==
    [q \in Procs |-> IF req[q].id = id /\ fd[q] = name THEN "lost" ELSE fd[q]]

RenameTmp(p) ==
    LET id == req[p].id
    IN  /\ pc[p] = "rename"
        /\ \/ /\ tmp[id] # None
              /\ dir' = [dir EXCEPT ![id] = tmp[id]]
              /\ tmp' = [tmp EXCEPT ![id] = None]
              /\ fd' = FdAfterRename(id)
              /\ Succeed(p, None)
              /\ UNCHANGED scan
           \/ /\ tmp[id] = None \/ "io" \in Faults
              /\ Goto(p, "unlinkTmp")
              /\ UNCHANGED <<dir, tmp, fd>>
        /\ UNCHANGED req

\* Mutant: the clean-up removes `path` instead of `tempPath`.
UnlinkPathForTmp(p) ==
    LET id == req[p].id
    IN  /\ pc[p] = "unlinkTmp"
        /\ dir' = [dir EXCEPT ![id] = None]
        /\ fd' = FdAfterUnlink(id, "note")
        /\ Fail(p, "IO_ERROR")
        /\ UNCHANGED <<tmp, req>>

\* unlink(tmp) after a failed rename; its own failure is ignored.
UnlinkTmp(p) ==
    LET id == req[p].id
    IN  /\ pc[p] = "unlinkTmp"
        /\ \/ /\ tmp' = [tmp EXCEPT ![id] = None]
              /\ fd' = FdAfterUnlink(id, "tmp")
           \/ "io" \in Faults /\ UNCHANGED <<tmp, fd>>
        /\ Fail(p, "IO_ERROR")
        /\ UNCHANGED <<dir, req>>

-----------------------------------------------------------------------------
(* Delete, load and list *)

\* Mutant: the result of unlink is not looked at.
UnlinkNoteUnchecked(p) ==
    LET id == req[p].id
    IN  /\ pc[p] = "unlink"
        /\ \/ dir' = [dir EXCEPT ![id] = None] /\ fd' = FdAfterUnlink(id, "note")
           \/ "io" \in Faults /\ UNCHANGED <<dir, fd>>
        /\ Succeed(p, None)
        /\ UNCHANGED <<tmp, req, scan>>

UnlinkNote(p) ==
    LET id == req[p].id
    IN  /\ pc[p] = "unlink"
        /\ \/ /\ dir[id] # None
              /\ dir' = [dir EXCEPT ![id] = None]
              /\ fd' = FdAfterUnlink(id, "note")
              /\ Succeed(p, None)
              /\ UNCHANGED scan
           \/ /\ dir[id] = None \/ "io" \in Faults
              /\ Fail(p, "IO_ERROR")
              /\ UNCHANGED <<dir, fd>>
        /\ UNCHANGED <<tmp, req>>

\* readNoteJsonFile of a get.
GetLoad(p) ==
    LET content == dir[req[p].id]
    IN  /\ pc[p] = "load" /\ req[p].op = "get"
        /\ \/ content \in Note /\ Succeed(p, content) /\ UNCHANGED scan
           \/ (content \notin Note \/ "io" \in Faults) /\ Fail(p, "JSON_ERROR")
        /\ UNCHANGED <<dir, tmp, req, fd>>

\* A listing starts from the entries present when the directory is opened.
OpenDir(p) ==
    /\ pc[p] = "opendir"
    /\ \/ /\ scan' = [scan EXCEPT ![p].snap = {id \in Ids : dir[id] # None}]
          /\ pc' = [pc EXCEPT ![p] = "readdir"]
          /\ UNCHANGED result
       \/ "io" \in Faults /\ Fail(p, "IO_ERROR")
    /\ UNCHANGED <<dir, tmp, req, fd>>

\* Mutant: every readdir() starts at the first entry again.
ReadEntryFromStart(p) ==
    /\ pc[p] = "readdir"
    /\ \E id \in scan[p].snap : scan' = [scan EXCEPT ![p].cur = id]
    /\ pc' = [pc EXCEPT ![p] = "stat"]
    /\ UNCHANGED <<dir, tmp, req, fd, result>>

\* readdir() returns every entry once; an entry added or removed since the
\* directory was opened may or may not be returned.  Names that do not end in
\* ".json", which the temporary files' do not, are skipped.
ReadEntry(p) ==
    /\ pc[p] = "readdir"
    /\ \E id \in Ids \ scan[p].seen :
          /\ id \in scan[p].snap \/ dir[id] # None
          /\ scan' = [scan EXCEPT ![p].cur = id, ![p].seen = @ \cup {id}]
    /\ pc' = [pc EXCEPT ![p] = "stat"]
    /\ UNCHANGED <<dir, tmp, req, fd, result>>

\* Mutant: a note that cannot be loaded is skipped.
ListLoadSkipping(p) ==
    LET content == dir[scan[p].cur]
        wanted  == req[p].tag = None \/ HasTag(content, req[p].tag)
    IN  /\ pc[p] = "load" /\ req[p].op = "list"
        /\ \/ /\ content \in Note
              /\ scan' = [scan EXCEPT ![p].items =
                             IF wanted THEN @ \cup {content} ELSE @]
           \/ (content \notin Note \/ "io" \in Faults) /\ UNCHANGED scan
        /\ pc' = [pc EXCEPT ![p] = "readdir"]
        /\ UNCHANGED <<dir, tmp, req, fd, result>>

\* The listing's notesRepositoryGetNote: a note it loads is appended if it has
\* the tag asked for, one it cannot load ends the whole listing.
ListLoad(p) ==
    LET content == dir[scan[p].cur]
        wanted  == req[p].tag = None \/ HasTag(content, req[p].tag)
    IN  /\ pc[p] = "load" /\ req[p].op = "list"
        /\ \/ /\ content \in Note
              /\ scan' = [scan EXCEPT ![p].items =
                             IF wanted THEN @ \cup {content} ELSE @]
              /\ pc' = [pc EXCEPT ![p] = "readdir"]
              /\ UNCHANGED result
           \/ (content \notin Note \/ "io" \in Faults) /\ Fail(p, "JSON_ERROR")
        /\ UNCHANGED <<dir, tmp, req, fd>>

\* readdir() returns NULL at the end of the directory, and on an error, which
\* the loop does not tell apart.
EndOfDir(p) ==
    /\ pc[p] = "readdir"
    /\ \/ \A id \in scan[p].snap \ scan[p].seen : dir[id] = None
       \/ "readdir" \in Faults
    /\ Succeed(p, None)
    /\ UNCHANGED <<dir, tmp, req, fd, scan>>

\* malloc fails in buildNotePath, noteToJson, buildTempPath, json_load_file,
\* noteFromJson, extractIdFromFilename or noteListAppend.
OutOfMemory(p) ==
    /\ "oom" \in Faults
    /\ \/ pc[p] \in {"stat", "readdir", "open"} /\ Fail(p, "NO_MEMORY")
       \/ pc[p] \in {"open", "load"} /\ Fail(p, "JSON_ERROR")
       \/ pc[p] = "load" /\ req[p].op = "list" /\ Fail(p, "NO_MEMORY")
    /\ UNCHANGED <<dir, tmp, req, fd>>

-----------------------------------------------------------------------------

Idle(p) ==
    /\ pc' = [pc EXCEPT ![p] = "idle"]
    /\ req' = [req EXCEPT ![p] = NoRequest]
    /\ scan' = [scan EXCEPT ![p] = NoScan]
    /\ result' = [result EXCEPT ![p] = NoResult]

Return(p) ==
    /\ pc[p] = "done"
    /\ Idle(p)
    /\ UNCHANGED <<dir, tmp, fd>>

\* The process is killed in the middle of a call and started again: its files
\* are closed, the directory stays as it is.
Crash(p) ==
    /\ "crash" \in Faults
    /\ pc[p] # "idle"
    /\ Idle(p)
    /\ fd' = [fd EXCEPT ![p] = "closed"]
    /\ UNCHANGED <<dir, tmp>>

Arrive(p) ==
    \/ \E id \in Ids, body \in Bodies : CallCreate(p, id, body)
    \/ \E id \in Ids, body \in Bodies : CallUpdate(p, id, body)
    \/ \E id \in Ids : CallDelete(p, id)
    \/ \E id \in Ids : CallGet(p, id)
    \/ \E tag \in Tags \cup {None} : CallList(p, tag)

Step(p) ==
    \/ CreateStat(p) \/ UpdateStat(p) \/ DeleteStat(p) \/ GetStat(p)
    \/ OpenTmp(p) \/ WriteTmp(p) \/ RenameTmp(p) \/ UnlinkTmp(p)
    \/ UnlinkNote(p) \/ GetLoad(p)
    \/ OpenDir(p) \/ ReadEntry(p) \/ ListLoad(p) \/ EndOfDir(p)
    \/ OutOfMemory(p)

Next == \E p \in Procs : Arrive(p) \/ Step(p) \/ Return(p) \/ Crash(p)

\* The polling thread of a live process keeps running the call it is in; no
\* client is obliged to send anything.
Fairness == \A p \in Procs : WF_vars(Step(p) \/ Return(p))

Spec == Init /\ [][Next]_vars

-----------------------------------------------------------------------------
(* Properties *)

\* Nobody else writes the notes a process writes: what a deployment with one
\* process guarantees for all notes.
OneWriterPerNote ==
    \A p, q \in Procs : p # q => Writable[p] \cap Writable[q] = {}

\* Every `{id}.json` a reader can open is a whole note, the one the name says:
\* write-to-temporary-then-rename (writeNoteJsonAtomic) never publishes a
\* truncated, half-written or foreign file, whatever fails and whenever a
\* process dies.
PublishedNotesAreWhole ==
    \A id \in Ids : dir[id] # None => dir[id] \in Note /\ dir[id].id = id

\* What stat() told a create, an update or a delete is still so when it acts
\* on it: nothing gets into the window between the check and the rename or
\* unlink.  A create can only rely on stat() if it reports what is there.
CheckStillHolds ==
    \A p \in Procs :
       /\ req[p].op = "update" /\ pc[p] \in {"open", "write", "rename"}
             => dir[req[p].id] # None
       /\ "stat" \notin Faults =>
             (req[p].op = "create" /\ pc[p] \in {"open", "write", "rename"}
                => dir[req[p].id] = None)
       /\ pc[p] = "unlink" => dir[req[p].id] # None

\* What a step puts in a note file is the note of the call that answers OK in
\* that step: no call publishes another call's data, and none that fails
\* publishes anything.
PublishesItsOwnNote ==
    [][\A id \in Ids :
          dir'[id] \notin {dir[id], None}
             => \E p \in Procs : /\ pc[p] # "done" /\ result'[p].code = "OK"
                                 /\ req[p].op \in {"create", "update"}
                                 /\ dir'[id] = NoteOf(p)]_vars

\* A stored note disappears only by a delete that answers OK: replacing a note
\* by rename leaves no instant without it, and cleaning up after a failed
\* rename never removes the note, whatever other processes do.
NotesVanishOnlyByDelete ==
    [][\A id \in Ids :
          dir[id] # None /\ dir'[id] = None
             => \E p \in Procs : /\ req[p].op = "delete" /\ req[p].id = id
                                 /\ pc[p] # "done" /\ result'[p].code = "OK"]_vars

\* A listing that answers OK holds exactly the stored notes that match its
\* tag, among the notes nobody else can have changed meanwhile.
ListingIsExact ==
    \A p \in Procs :
       req[p].op = "list" /\ result[p].code = "OK" =>
          {note \in scan[p].items : note.id \in Writable[p]} =
          {dir[id] : id \in {i \in Writable[p] :
                               /\ dir[i] # None
                               /\ req[p].tag = None \/ HasTag(dir[i], req[p].tag)}}

\* Every call that starts returns, unless its process dies.
EveryCallReturns ==
    \A p \in Procs : pc[p] # "idle" ~> pc[p] = "idle"

-----------------------------------------------------------------------------
(* The inductive invariant behind the properties of a single writer *)

\* Which operation a process at each label executes.
OpFitsLabel ==
    \A p \in Procs :
       /\ pc[p] \in {"open", "write", "rename", "unlinkTmp"}
             => req[p].op \in {"create", "update"}
       /\ pc[p] = "unlink" => req[p].op = "delete"
       /\ pc[p] \in {"opendir", "readdir"} => req[p].op = "list"

\* A process writes only notes that are its own.
WritesAreOwn ==
    \A p \in Procs :
       req[p].op \in {"create", "update", "delete"} => req[p].id \in Writable[p]

\* The temporary file belongs to the process that writes it, from the moment
\* it is truncated until it is renamed.
TmpIsMine ==
    \A p \in Procs :
       /\ fd[p] = IF pc[p] = "write" THEN "tmp" ELSE "closed"
       /\ pc[p] = "write" => tmp[req[p].id] = Empty
       /\ pc[p] = "rename" => tmp[req[p].id] = NoteOf(p)

WriterInv ==
    /\ TypeOK
    /\ OpFitsLabel
    /\ WritesAreOwn
    /\ TmpIsMine
    /\ PublishedNotesAreWhole
    /\ CheckStillHolds

-----------------------------------------------------------------------------
(* Refinement: the repository as an atomic store *)

\* A listing is no call of the store.
StoreCall(p) ==
    IF pc[p] = "idle" \/ req[p].op = "list"
    THEN [phase |-> "idle", op |-> None, id |-> None, body |-> None,
          code |-> None, value |-> None]
    ELSE [phase |-> IF pc[p] = "done" THEN "decided" ELSE "called",
          op |-> req[p].op, id |-> req[p].id, body |-> req[p].body,
          code |-> result[p].code,
          value |-> IF result[p].note = None THEN None ELSE result[p].note.body]

\* A file that is not a whole note is no note of the store, nor its absence.
StoreNotes ==
    [id \in Ids |-> IF dir[id] \in Note THEN dir[id].body ELSE dir[id]]

Store == INSTANCE NoteStore WITH Absent <- None, notes <- StoreNotes,
                                 call <- [p \in Procs |-> StoreCall(p)]

\* Every create, get, update and delete takes effect at one instant between
\* its call and its return, entirely or not at all, and an error answer means
\* no change: what separate stat, open, write, rename and unlink calls, their
\* failures and a crash between any two of them must add up to.
ImplementsStore == Store!Spec

=============================================================================
