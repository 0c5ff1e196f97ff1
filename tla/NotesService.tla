---------------------------- MODULE NotesService ----------------------------
(***************************************************************************)
(* The request handlers (src/notes_handler) and the notes service          *)
(* (src/service) on top of the notes repository: what a client is told     *)
(* about what happened to the stored notes.                                *)
(*                                                                         *)
(* A request is taken up (Receive), refused because of its payload         *)
(* (Refuse, PrepareFails) or turned into one call of the repository        *)
(* (CallX), whose steps are those of module NotesRepository, and answered  *)
(* from the code the call returned (FinishX).                              *)
(***************************************************************************)
CONSTANTS Procs, Ids, Bodies, Tags, TagsOf, Writable, Faults, None, Empty, Torn,
    Invalid,    \* bodies whose title or content is missing or empty
    Malformed   \* a request body that is not the JSON of a note

ASSUME ServiceAssumption ==
    /\ Invalid \subseteq Bodies
    /\ Malformed \notin Bodies \cup {None}

VARIABLES
    dir, tmp, pc, req, fd, scan, result,   \* the repository
    phase,      \* phase[p]: "idle", in the "handler", waiting for the "repo",
                \* or about to "reply"
    request,    \* request[p]: the client's request
    reply,      \* reply[p]: the response the handler returns
    before      \* before[p]: the stored notes when the request arrived; a
                \* history variable, the code has no such thing

repoVars == <<dir, tmp, pc, req, fd, scan, result>>
vars     == <<repoVars, phase, request, reply, before>>

Repo == INSTANCE NotesRepository

ASSUME RepositoryAssumption == Repo!ConstantsAssumption

NoRequest == [op |-> None, id |-> None, body |-> None, claimed |-> None,
              tag |-> None]
NoReply   == [status |-> None, error |-> None, note |-> None, items |-> {}]

\* The id in the path, the body and the id `claimed` in the body.
Requests ==
    [op : {"create"}, id : {None}, body : Bodies \cup {Malformed},
       claimed : Ids \cup {None}, tag : {None}]
    \cup [op : {"update"}, id : Ids, body : Bodies \cup {Malformed},
            claimed : Ids \cup {None}, tag : {None}]
    \cup [op : {"get", "delete"}, id : Ids, body : {None}, claimed : {None},
            tag : {None}]
    \cup [op : {"list"}, id : {None}, body : {None}, claimed : {None},
            tag : Tags \cup {None}]

\* "Invalid note data", "Note already exists", "Storage error", "Internal error"
\* and "Out of memory"
Errors == {"invalid", "exists", "storage", "internal", "memory"}
Replies == [status : {200, 201, 400, 409, 500, None}, error : Errors \cup {None},
            note : Repo!Note \cup {None}, items : SUBSET Repo!Note]

TypeOK ==
    /\ Repo!TypeOK
    /\ phase \in [Procs -> {"idle", "handler", "repo", "reply"}]
    /\ request \in [Procs -> Requests \cup {NoRequest}]
    /\ reply \in [Procs -> Replies]
    /\ before \in [Procs -> [Ids -> Repo!Content]]

Init ==
    /\ Repo!Init
    /\ phase = [p \in Procs |-> "idle"]
    /\ request = [p \in Procs |-> NoRequest]
    /\ reply = [p \in Procs |-> NoReply]
    /\ before = [p \in Procs |-> dir]

-----------------------------------------------------------------------------
(* Responses *)

Success(status, note, items) ==
    [status |-> status, error |-> None, note |-> note, items |-> items]
Failure(status, error) ==
    [status |-> status, error |-> error, note |-> None, items |-> {}]

\* Building any response can run out of memory, whatever it was to say.
Answer(p, response) ==
    /\ phase' = [phase EXCEPT ![p] = "reply"]
    /\ \/ reply' = [reply EXCEPT ![p] = response]
       \/ /\ "oom" \in Faults
          /\ reply' = [reply EXCEPT ![p] = Failure(500, "memory")]
    /\ UNCHANGED <<request, before>>

-----------------------------------------------------------------------------
(* From the request to the repository call *)

\* An update is aimed at a note of this process; anything may be read.
Receive(p, r) ==
    /\ phase[p] = "idle"
    /\ r.op \in {"update", "delete"} => r.id \in Writable[p]
    /\ phase' = [phase EXCEPT ![p] = "handler"]
    /\ request' = [request EXCEPT ![p] = r]
    /\ before' = [before EXCEPT ![p] = dir]
    /\ UNCHANGED <<repoVars, reply>>

\* Mutant: only a create looks at the title and the content.
AcceptableForCreateOnly(r) ==
    r.op = "create" => r.body \notin Invalid

\* noteValidateForCreate, on both paths.
Acceptable(r) == r.body \notin Invalid

\* parseNoteFromRequest and the validation that follows: every failure, of
\* memory too, is answered as invalid data.
Refuse(p) ==
    LET r == request[p]
    IN  /\ phase[p] = "handler" /\ r.op \in {"create", "update"}
        /\ r.body = Malformed \/ ~Acceptable(r) \/ "oom" \in Faults
        /\ Answer(p, Failure(400, "invalid"))
        /\ UNCHANGED repoVars

\* The note to store cannot be built: no memory for a copy, or, for a create,
\* no random bytes for the id.
PrepareFails(p) ==
    LET r == request[p]
    IN  /\ phase[p] = "handler" /\ r.body # Malformed /\ Acceptable(r)
        /\ \/ /\ r.op = "create" /\ Faults \cap {"oom", "io"} # {}
              /\ Answer(p, Failure(500, "memory"))
           \/ /\ r.op = "update" /\ "oom" \in Faults
              /\ Answer(p, Failure(500, "internal"))
        /\ UNCHANGED repoVars

\* Mutant: the id in the payload is kept.
StoredIdClaimed(r) == IF r.claimed = None THEN r.id ELSE r.claimed

\* noteSetId: the id in the path replaces the one in the payload.
StoredId(r) == r.id

\* The one repository call of a request; a create draws its id first.
CallRepository(p) ==
    LET r == request[p]
    IN  /\ phase[p] = "handler"
        /\ \/ /\ r.op = "create" /\ r.body # Malformed /\ Acceptable(r)
              /\ \E id \in Ids : Repo!CallCreate(p, id, r.body)
           \/ /\ r.op = "update" /\ r.body # Malformed /\ Acceptable(r)
              /\ Repo!CallUpdate(p, StoredId(r), r.body)
           \/ r.op = "get" /\ Repo!CallGet(p, r.id)
           \/ r.op = "delete" /\ Repo!CallDelete(p, r.id)
           \/ r.op = "list" /\ Repo!CallList(p, r.tag)
        /\ phase' = [phase EXCEPT ![p] = "repo"]
        /\ UNCHANGED <<request, reply, before>>

RepositoryStep(p) ==
    /\ Repo!Step(p)
    /\ UNCHANGED <<phase, request, reply, before>>

-----------------------------------------------------------------------------
(* From the repository's return code to the response *)

Finish(p, op, response) ==
    /\ phase[p] = "repo" /\ request[p].op = op
    /\ Repo!Return(p)
    /\ Answer(p, response)

\* Mutant: a copy that fails after the note is stored is a storage error.
FinishCreateBlamingStorage(p) ==
    IF result[p].code = "OK"
    THEN \/ Finish(p, "create", Success(201, Repo!NoteOf(p), {}))
         \/ "oom" \in Faults /\ Finish(p, "create", Failure(500, "storage"))
    ELSE Finish(p, "create", Failure(500, "storage"))

\* The copy for the response is made after the note is stored; TO_EXIT_ON_COND
\* leaves the return code OK there, which the service turns into a common
\* error.
FinishCreate(p) ==
    CASE result[p].code = "OK" ->
           \/ Finish(p, "create", Success(201, Repo!NoteOf(p), {}))
           \/ "oom" \in Faults /\ Finish(p, "create", Failure(500, "internal"))
      [] result[p].code = "ALREADY_EXISTS" ->
           Finish(p, "create", Failure(409, "exists"))
      [] result[p].code = "NO_MEMORY" ->
           Finish(p, "create", Failure(500, "memory"))
      [] OTHER -> Finish(p, "create", Failure(500, "storage"))

\* Whatever made a get, an update or a delete fail becomes a common error.
FinishGet(p) ==
    IF result[p].code = "OK"
    THEN Finish(p, "get", Success(200, result[p].note, {}))
    ELSE Finish(p, "get", Failure(500, "internal"))

\* Mutant: the copy that is answered is made before the id is set.
FinishUpdateEarlyCopy(p) ==
    LET r == request[p]
    IN  IF result[p].code = "OK" /\ r.claimed # None
        THEN Finish(p, "update", Success(200, [id |-> r.claimed, body |-> r.body], {}))
        ELSE Finish(p, "update", Failure(500, "internal"))

FinishUpdate(p) ==
    \/ /\ result[p].code = "OK"
       /\ Finish(p, "update", Success(200, Repo!NoteOf(p), {}))
    \/ /\ result[p].code # "OK" \/ "oom" \in Faults
       /\ Finish(p, "update", Failure(500, "internal"))

FinishDelete(p) ==
    IF result[p].code = "OK"
    THEN Finish(p, "delete", Success(200, None, {}))
    ELSE Finish(p, "delete", Failure(500, "internal"))

\* The repository's code passes through unchanged; mapServiceError knows none
\* of them.
FinishList(p) ==
    IF result[p].code = "OK"
    THEN Finish(p, "list", Success(200, None, scan[p].items))
    ELSE Finish(p, "list", Failure(500, "internal"))

Forget(p) ==
    /\ phase' = [phase EXCEPT ![p] = "idle"]
    /\ request' = [request EXCEPT ![p] = NoRequest]
    /\ reply' = [reply EXCEPT ![p] = NoReply]
    /\ before' = [before EXCEPT ![p] = [id \in Ids |-> None]]

\* The handler returns its response to the server.
Reply(p) ==
    /\ phase[p] = "reply"
    /\ Forget(p)
    /\ UNCHANGED repoVars

\* The process dies in a request and is started again.
Crash(p) ==
    /\ "crash" \in Faults
    /\ phase[p] # "idle"
    /\ \/ Repo!Crash(p)
       \/ pc[p] = "idle" /\ UNCHANGED repoVars
    /\ Forget(p)

-----------------------------------------------------------------------------

Work(p) ==
    \/ Refuse(p) \/ PrepareFails(p) \/ CallRepository(p) \/ RepositoryStep(p)
    \/ FinishCreate(p) \/ FinishGet(p) \/ FinishUpdate(p) \/ FinishDelete(p)
    \/ FinishList(p) \/ Reply(p)

Next ==
    \E p \in Procs :
       \/ \E r \in Requests : Receive(p, r)
       \/ Work(p)
       \/ Crash(p)

\* A request that has been taken up is worked on by the polling thread until it
\* is answered.
Spec == Init /\ [][Next]_vars /\ \A p \in Procs : WF_vars(Work(p))

-----------------------------------------------------------------------------
(* Properties *)

\* A request touches no note but the one its path names, and a create none that
\* exists, whatever id the payload claims.
OnlyAddressedNoteChanges ==
    [][\A id \in Ids : dir'[id] # dir[id] =>
          \E p \in Procs :
             /\ phase[p] = "repo"
             /\ \/ request[p].op \in {"update", "delete"} /\ request[p].id = id
                \/ request[p].op = "create" /\ dir[id] = None]_vars

\* No path from a request to the disk, create or update, goes round the check
\* that title and content are not empty.
StoredNotesAreValid ==
    \A id \in Ids : dir[id] \in Repo!Note => dir[id].body \notin Invalid

\* A response that reports success reports what is stored: the note of a
\* create, an update or a get is in the store under its id, a deleted note is
\* gone, and a list holds every matching note and no other.  Stated for the
\* notes nobody else writes.
RepliesAreTrue ==
    \A p \in Procs :
       LET r == request[p]
           mine == Writable[p]
       IN  phase[p] = "reply" /\ reply[p].status \in {200, 201} =>
              /\ r.op \in {"create", "update", "get"} =>
                    /\ reply[p].note.id \in mine =>
                          dir[reply[p].note.id] = reply[p].note
                    /\ r.op # "create" => reply[p].note.id = r.id
              /\ r.op = "delete" => dir[r.id] = None
              /\ r.op = "list" =>
                    {n \in reply[p].items : n.id \in mine} =
                    {dir[id] : id \in {i \in mine : dir[i] # None /\
                                         (r.tag = None \/ Repo!HasTag(dir[i], r.tag))}}

\* An error answer means that nothing was stored, changed or removed: always
\* when it is 400, 409 or a storage error, and any error at all if memory never
\* runs out.  (With memory short, "Out of memory" and "Internal error" may
\* follow a write that took effect.)
ErrorsChangeNothing ==
    \A p \in Procs :
       /\ phase[p] = "reply" /\ reply[p].status \notin {200, 201}
       /\ reply[p].status # 500 \/ reply[p].error = "storage"
             \/ "oom" \notin Faults
       => \A id \in Writable[p] : dir[id] = before[p][id]

\* Every request that is taken up is answered, or its process dies.
EveryRequestAnswered ==
    \A p \in Procs : phase[p] # "idle" ~> phase[p] = "idle"

=============================================================================
