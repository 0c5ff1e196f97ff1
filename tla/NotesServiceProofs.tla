------------------------- MODULE NotesServiceProofs -------------------------
(***************************************************************************)
(* Proofs about NotesService for every number of processes, notes and      *)
(* bodies and every set of faults.                                         *)
(***************************************************************************)
EXTENDS NotesService, TLAPS

\* The repository with what has been proved about it.  The service has no
\* history of races.
RP == INSTANCE NotesRepositoryProofs WITH raced <- {}

-----------------------------------------------------------------------------
(* Repo and RP are instances of one module *)

\* What the service assumes of its constants is what the repository assumes.
LEMMA RepositoryConstants == RP!ConstantsAssumption
BY RepositoryAssumption DEF Repo!ConstantsAssumption, RP!ConstantsAssumption,
   Repo!Note, RP!Note, Repo!Codes, RP!Codes, Repo!FaultKinds, RP!FaultKinds

\* The calls, returns, crashes, steps, initial states and types of one instance
\* are those of the other.
LEMMA SameCalls ==
    ASSUME NEW p \in Procs, NEW id, NEW body, NEW tag
    PROVE  /\ Repo!CallCreate(p, id, body) => RP!CallCreate(p, id, body)
           /\ Repo!CallUpdate(p, id, body) => RP!CallUpdate(p, id, body)
           /\ Repo!CallGet(p, id) => RP!CallGet(p, id)
           /\ Repo!CallDelete(p, id) => RP!CallDelete(p, id)
           /\ Repo!CallList(p, tag) => RP!CallList(p, tag)
BY DEF Repo!CallCreate, RP!CallCreate, Repo!CallUpdate, RP!CallUpdate, Repo!CallGet,
   RP!CallGet, Repo!CallDelete, RP!CallDelete, Repo!CallList, RP!CallList, Repo!Call,
   RP!Call, Repo!Fresh, RP!Fresh

\* The ends of a call are the same steps in both readings of the repository.
LEMMA SameEnds ==
    ASSUME NEW p \in Procs
    PROVE  /\ Repo!Return(p) => RP!Return(p)
           /\ Repo!Crash(p) => RP!Crash(p)
BY DEF Repo!Return, RP!Return, Repo!Crash, RP!Crash, Repo!Idle, RP!Idle,
   Repo!NoRequest, RP!NoRequest, Repo!NoScan, RP!NoScan, Repo!NoResult, RP!NoResult

\* Every step of the repository under the service is one of the repository alone.
LEMMA SameStep ==
    ASSUME NEW p \in Procs
    PROVE  Repo!Step(p) => RP!Step(p)
<1>1. /\ Repo!CreateStat(p) => RP!CreateStat(p)
      /\ Repo!UpdateStat(p) => RP!UpdateStat(p)
      /\ Repo!DeleteStat(p) => RP!DeleteStat(p)
      /\ Repo!GetStat(p) => RP!GetStat(p)
  BY DEF Repo!CreateStat, RP!CreateStat, Repo!UpdateStat, RP!UpdateStat, Repo!DeleteStat,
     RP!DeleteStat, Repo!GetStat, RP!GetStat, Repo!PathExists, RP!PathExists,
     Repo!PathMissing, RP!PathMissing, Repo!Target, RP!Target, Repo!Fail, RP!Fail,
     Repo!Goto, RP!Goto
<1>2. /\ Repo!OpenTmp(p) => RP!OpenTmp(p)
      /\ Repo!RenameTmp(p) => RP!RenameTmp(p)
      /\ Repo!UnlinkTmp(p) => RP!UnlinkTmp(p)
      /\ Repo!UnlinkNote(p) => RP!UnlinkNote(p)
  BY DEF Repo!OpenTmp, RP!OpenTmp, Repo!RenameTmp, RP!RenameTmp, Repo!UnlinkTmp,
     RP!UnlinkTmp, Repo!UnlinkNote, RP!UnlinkNote, Repo!FdAfterRename, RP!FdAfterRename,
     Repo!FdAfterUnlink, RP!FdAfterUnlink, Repo!Succeed, RP!Succeed, Repo!Fail, RP!Fail,
     Repo!Goto, RP!Goto
<1>3. Repo!WriteTmp(p) => RP!WriteTmp(p)
  BY DEF Repo!WriteTmp, RP!WriteTmp, Repo!Overwrite, RP!Overwrite, Repo!NoteOf, RP!NoteOf,
     Repo!Fail, RP!Fail, Repo!Goto, RP!Goto
<1>4. /\ Repo!GetLoad(p) => RP!GetLoad(p)
      /\ Repo!OpenDir(p) => RP!OpenDir(p)
      /\ Repo!ReadEntry(p) => RP!ReadEntry(p)
      /\ Repo!ListLoad(p) => RP!ListLoad(p)
      /\ Repo!EndOfDir(p) => RP!EndOfDir(p)
      /\ Repo!OutOfMemory(p) => RP!OutOfMemory(p)
  BY DEF Repo!GetLoad, RP!GetLoad, Repo!OpenDir, RP!OpenDir, Repo!ReadEntry, RP!ReadEntry,
     Repo!ListLoad, RP!ListLoad, Repo!EndOfDir, RP!EndOfDir, Repo!OutOfMemory,
     RP!OutOfMemory, Repo!HasTag, RP!HasTag, Repo!Note, RP!Note, Repo!Succeed, RP!Succeed,
     Repo!Fail, RP!Fail
<1>5. QED
  BY <1>1, <1>2, <1>3, <1>4 DEF Repo!Step, RP!Step

\* And it starts as the repository alone does.
LEMMA SameInit == Repo!Init => RP!Init
BY DEF Repo!Init, RP!Init, Repo!NoRequest, RP!NoRequest, Repo!NoScan, RP!NoScan,
   Repo!NoResult, RP!NoResult

-----------------------------------------------------------------------------
(* A behaviour of the service is one of the repository *)

Phases == {"idle", "handler", "repo", "reply"}

\* How the state of a request goes with the state of the repository call made
\* for it.
Linked ==
    \A p \in Procs :
       /\ phase[p] \in {"handler", "repo"} => request[p] \in Requests
       /\ pc[p] # "idle" <=> phase[p] = "repo"
       /\ phase[p] # "idle" /\ request[p].op \in {"update", "delete"} =>
             request[p].id \in Writable[p]
       /\ phase[p] = "repo" =>
             /\ req[p].op = request[p].op
             /\ request[p].op \in {"get", "update", "delete"} => req[p].id = request[p].id
             /\ request[p].op = "list" => req[p].tag = request[p].tag

ServiceInv ==
    /\ RP!TypeInv
    /\ phase \in [Procs -> Phases]
    /\ request \in [Procs -> Requests \cup {NoRequest}]
    /\ Linked

\* A request that has been taken up makes a well-formed call.
LEMMA CallsArrive ==
    ASSUME ServiceInv, NEW p \in Procs, CallRepository(p)
    PROVE  RP!Arrive(p)
<1> DEFINE r == request[p]
<1>1. r \in Requests
  BY DEF ServiceInv, Linked, CallRepository
<1>2. CASE \E id \in Ids : r.op = "create" /\ r.body # Malformed /\ Repo!CallCreate(p, id, r.body)
  <2>1. r.body \in Bodies
    BY <1>1, <1>2 DEF Requests
  <2>2. QED
    BY <1>2, <2>1, SameCalls DEF RP!Arrive
<1>3. CASE r.op = "update" /\ r.body # Malformed /\ Repo!CallUpdate(p, r.id, r.body)
  <2>1. r.body \in Bodies /\ r.id \in Ids
    BY <1>1, <1>3 DEF Requests
  <2>2. QED
    BY <1>3, <2>1, SameCalls DEF RP!Arrive
<1>4. CASE \/ r.op = "get" /\ Repo!CallGet(p, r.id)
           \/ r.op = "delete" /\ Repo!CallDelete(p, r.id)
  <2>1. r.id \in Ids
    BY <1>1, <1>4 DEF Requests
  <2>2. QED
    BY <1>4, <2>1, SameCalls DEF RP!Arrive
<1>5. CASE r.op = "list" /\ Repo!CallList(p, r.tag)
  <2>1. r.tag \in Tags \cup {None}
    BY <1>1, <1>5 DEF Requests
  <2>2. QED
    BY <1>5, <2>1, SameCalls DEF RP!Arrive
<1>6. QED
  BY <1>2, <1>3, <1>4, <1>5 DEF CallRepository, StoredId

\* Every answer to a repository call ends it.
LEMMA FinishesReturn ==
    ASSUME NEW p \in Procs,
           \/ FinishCreate(p) \/ FinishGet(p) \/ FinishUpdate(p) \/ FinishDelete(p)
           \/ FinishList(p)
    PROVE  Repo!Return(p) /\ \E response : Answer(p, response)
<1>1. CASE FinishCreate(p)
  <2>1. CASE result[p].code = "OK"
    BY <1>1, <2>1 DEF FinishCreate, Finish
  <2>2. CASE result[p].code = "ALREADY_EXISTS"
    BY <1>1, <2>2 DEF FinishCreate, Finish
  <2>3. CASE result[p].code = "NO_MEMORY"
    BY <1>1, <2>3 DEF FinishCreate, Finish
  <2>4. CASE result[p].code \notin {"OK", "ALREADY_EXISTS", "NO_MEMORY"}
    BY <1>1, <2>4 DEF FinishCreate, Finish
  <2>5. QED
    BY <2>1, <2>2, <2>3, <2>4
<1>2. CASE FinishGet(p)
  BY <1>2 DEF FinishGet, Finish
<1>3. CASE FinishUpdate(p)
  BY <1>3 DEF FinishUpdate, Finish
<1>4. CASE FinishDelete(p)
  BY <1>4 DEF FinishDelete, Finish
<1>5. CASE FinishList(p)
  BY <1>5 DEF FinishList, Finish
<1>6. QED
  BY <1>1, <1>2, <1>3, <1>4, <1>5

\* Whatever the handlers do between two repository calls, they leave the
\* repository's state alone.
LEMMA StepsAreRepositorySteps ==
    ASSUME ServiceInv, [Next]_vars
    PROVE  [RP!Next]_(RP!vars)
<1>1. ASSUME NEW p \in Procs, NEW r \in Requests, Receive(p, r)
      PROVE  UNCHANGED RP!vars
  BY <1>1 DEF Receive, repoVars, RP!vars
<1>2. ASSUME NEW p \in Procs, Refuse(p) \/ PrepareFails(p) \/ Reply(p)
      PROVE  UNCHANGED RP!vars
  BY <1>2 DEF Refuse, PrepareFails, Reply, repoVars, RP!vars
<1>3. ASSUME NEW p \in Procs, CallRepository(p)
      PROVE  RP!Next
  BY <1>3, CallsArrive DEF RP!Next
<1>4. ASSUME NEW p \in Procs, RepositoryStep(p)
      PROVE  RP!Next
  BY <1>4, SameStep DEF RepositoryStep, RP!Next
<1>5. ASSUME NEW p \in Procs,
             \/ FinishCreate(p) \/ FinishGet(p) \/ FinishUpdate(p) \/ FinishDelete(p)
             \/ FinishList(p)
      PROVE  RP!Next
  BY <1>5, FinishesReturn, SameEnds DEF RP!Next
<1>6. ASSUME NEW p \in Procs, Crash(p)
      PROVE  RP!Next \/ UNCHANGED RP!vars
  BY <1>6, SameEnds DEF Crash, RP!Next, repoVars, RP!vars
<1>7. CASE UNCHANGED vars
  BY <1>7 DEF vars, repoVars, RP!vars
<1>8. QED
  BY <1>1, <1>2, <1>3, <1>4, <1>5, <1>6, <1>7 DEF Next, Work

\* A repository step stays inside the call it belongs to.
LEMMA StepStays ==
    ASSUME RP!TypeOK, NEW p \in Procs, RP!Step(p)
    PROVE  /\ UNCHANGED req
           /\ pc[p] # "idle" /\ pc'[p] # "idle"
           /\ \A q \in Procs \ {p} : pc'[q] = pc[q]
BY DEF RP!TypeOK, RP!Step, RP!CreateStat, RP!UpdateStat, RP!DeleteStat, RP!GetStat,
   RP!OpenTmp, RP!WriteTmp, RP!RenameTmp, RP!UnlinkTmp, RP!UnlinkNote, RP!GetLoad,
   RP!OpenDir, RP!ReadEntry, RP!ListLoad, RP!EndOfDir, RP!OutOfMemory, RP!Fail,
   RP!Succeed, RP!Goto

\* Each step of a request keeps it linked to its repository call.
LEMMA LinkInductive ==
    ASSUME ServiceInv, [Next]_vars
    PROVE  /\ phase' \in [Procs -> Phases]
           /\ request' \in [Procs -> Requests \cup {NoRequest}]
           /\ Linked'
<1> USE DEF ServiceInv, Linked, Phases
<1>0. pc \in [Procs -> RP!Labels] /\ req \in [Procs -> RP!Request]
  BY DEF RP!TypeInv, RP!TypeOK
<1>1. ASSUME NEW p \in Procs, NEW r \in Requests, Receive(p, r)
      PROVE  /\ phase' \in [Procs -> Phases]
             /\ request' \in [Procs -> Requests \cup {NoRequest}]
             /\ Linked'
  BY <1>1 DEF Receive, repoVars
<1>2. ASSUME NEW p \in Procs, Refuse(p) \/ PrepareFails(p)
      PROVE  /\ phase' \in [Procs -> Phases]
             /\ request' \in [Procs -> Requests \cup {NoRequest}]
             /\ Linked'
  <2>1. /\ phase' = [phase EXCEPT ![p] = "reply"]
        /\ UNCHANGED <<request, pc, req>>
        /\ phase[p] = "handler"
    BY <1>2 DEF Refuse, PrepareFails, Answer, repoVars
  <2>2. QED
    BY <2>1
<1>3. ASSUME NEW p \in Procs, CallRepository(p)
      PROVE  /\ phase' \in [Procs -> Phases]
             /\ request' \in [Procs -> Requests \cup {NoRequest}]
             /\ Linked'
  BY <1>0, <1>3 DEF CallRepository, StoredId, Repo!CallCreate, Repo!CallUpdate, Repo!CallGet,
     Repo!CallDelete, Repo!CallList, Repo!Call
<1>4. ASSUME NEW p \in Procs, RepositoryStep(p)
      PROVE  /\ phase' \in [Procs -> Phases]
             /\ request' \in [Procs -> Requests \cup {NoRequest}]
             /\ Linked'
  BY <1>4, SameStep, StepStays DEF RepositoryStep, RP!TypeInv
<1>5. ASSUME NEW p \in Procs,
             \/ FinishCreate(p) \/ FinishGet(p) \/ FinishUpdate(p) \/ FinishDelete(p)
             \/ FinishList(p)
      PROVE  /\ phase' \in [Procs -> Phases]
             /\ request' \in [Procs -> Requests \cup {NoRequest}]
             /\ Linked'
  <2>1. PICK response : Repo!Return(p) /\ Answer(p, response)
    BY <1>5, FinishesReturn
  <2>2. /\ phase' = [phase EXCEPT ![p] = "reply"]
        /\ pc' = [pc EXCEPT ![p] = "idle"]
        /\ req' = [req EXCEPT ![p] = Repo!NoRequest]
        /\ pc[p] = "done" /\ UNCHANGED request
    BY <2>1 DEF Answer, Repo!Return, Repo!Idle
  <2>3. QED
    BY <1>0, <2>2
<1>6. ASSUME NEW p \in Procs, Reply(p)
      PROVE  /\ phase' \in [Procs -> Phases]
             /\ request' \in [Procs -> Requests \cup {NoRequest}]
             /\ Linked'
  BY <1>6 DEF Reply, Forget, repoVars
<1>7. ASSUME NEW p \in Procs, Crash(p)
      PROVE  /\ phase' \in [Procs -> Phases]
             /\ request' \in [Procs -> Requests \cup {NoRequest}]
             /\ Linked'
  BY <1>0, <1>7 DEF Crash, Forget, repoVars, Repo!Crash, Repo!Idle
<1>8. CASE UNCHANGED vars
  BY <1>8 DEF vars, repoVars
<1>9. QED
  BY <1>1, <1>2, <1>3, <1>4, <1>5, <1>6, <1>7, <1>8 DEF Next, Work

\* The service starts well typed.
LEMMA ServiceInit == Init => ServiceInv
<1>1. Init => RP!Init
  BY SameInit DEF Init
<1>2. RP!Init => RP!TypeInv
  BY RepositoryConstants DEF RP!Init, RP!TypeInv, RP!TypeOK, RP!OpFitsLabel, RP!Content,
     RP!Labels, RP!Request, RP!Scan, RP!NoScan, RP!Result, RP!NoResult
<1>3. QED
  BY <1>1, <1>2 DEF Init, ServiceInv, Phases, Linked, RP!Init

\* ServiceInv is an invariant.
LEMMA ServiceInvariance == Spec => []ServiceInv
<1>1. Init => ServiceInv
  BY ServiceInit
<1>2. ServiceInv /\ [Next]_vars => ServiceInv'
  BY StepsAreRepositorySteps, LinkInductive, RepositoryConstants, RP!TypeInductive
     DEF ServiceInv
<1>3. QED
  BY <1>1, <1>2, PTL DEF Spec

\* Everything the service does to the disk is what the repository of module
\* NotesRepository does, so whatever is proved of the repository holds of the
\* service as well.
THEOREM ServiceUsesRepository == Spec => RP!Spec
<1>1. Init => RP!Init
  BY SameInit DEF Init
<1>2. ServiceInv /\ [Next]_vars => [RP!Next]_(RP!vars)
  BY StepsAreRepositorySteps
<1>3. QED
  BY <1>1, <1>2, ServiceInvariance, PTL DEF Spec, RP!Spec

-----------------------------------------------------------------------------
(* Type correctness *)

\* The types of the repository alone are its types under the service.
LEMMA SameTypes == RP!TypeOK => Repo!TypeOK
BY DEF RP!TypeOK, Repo!TypeOK, RP!Content, Repo!Content, RP!Note, Repo!Note, RP!Labels,
   Repo!Labels, RP!Request, Repo!Request, RP!WriteRequest, Repo!WriteRequest,
   RP!NameRequest, Repo!NameRequest, RP!ListRequest, Repo!ListRequest, RP!NoRequest,
   Repo!NoRequest, RP!Scan, Repo!Scan, RP!Result, Repo!Result, RP!Codes, Repo!Codes

RepliesOK ==
    /\ reply \in [Procs -> Replies]
    /\ before \in [Procs -> [Ids -> Repo!Content]]

\* The responses of the handlers are of the documented form.
LEMMA SuccessType ==
    \A note \in Repo!Note \cup {None}, items \in SUBSET Repo!Note :
       /\ Success(200, note, items) \in Replies
       /\ Success(201, note, items) \in Replies
BY DEF Success, Replies

\* Every failure the service answers is one of the documented responses.
LEMMA FailureTypes ==
    /\ Failure(400, "invalid") \in Replies
    /\ Failure(409, "exists") \in Replies
    /\ Failure(500, "storage") \in Replies
    /\ Failure(500, "internal") \in Replies
    /\ Failure(500, "memory") \in Replies
BY DEF Failure, Replies, Errors

\* Answering with such a response, or failing to, leaves one.
LEMMA AnswerType ==
    ASSUME RepliesOK, NEW p \in Procs, NEW response \in Replies, Answer(p, response)
    PROVE  RepliesOK'
<1>1. PICK x \in Replies : reply' = [reply EXCEPT ![p] = x]
  BY FailureTypes DEF Answer
<1>2. UNCHANGED before
  BY DEF Answer
<1>3. QED
  BY <1>1, <1>2 DEF RepliesOK

\* Whatever a repository call returned, the answer made of it is well typed.
LEMMA FinishType ==
    ASSUME ServiceInv, RepliesOK, NEW p \in Procs,
           \/ FinishCreate(p) \/ FinishGet(p) \/ FinishUpdate(p) \/ FinishDelete(p)
           \/ FinishList(p)
    PROVE  RepliesOK'
<1>0. Repo!TypeOK
  BY SameTypes DEF ServiceInv, RP!TypeInv
<1>1. /\ result[p].note \in Repo!Note \cup {None}
      /\ scan[p].items \in SUBSET Repo!Note
  BY <1>0 DEF Repo!TypeOK, Repo!Result, Repo!Scan
<1>2. FinishCreate(p) \/ FinishUpdate(p) => Repo!NoteOf(p) \in Repo!Note
  <2>1. FinishCreate(p) \/ FinishUpdate(p) => req[p].op \in {"create", "update"}
    <3>1. ASSUME FinishCreate(p) PROVE phase[p] = "repo" /\ request[p].op = "create"
      <4>1. CASE result[p].code = "OK"
        BY <3>1, <4>1 DEF FinishCreate, Finish
      <4>2. CASE result[p].code = "ALREADY_EXISTS"
        BY <3>1, <4>2 DEF FinishCreate, Finish
      <4>3. CASE result[p].code = "NO_MEMORY"
        BY <3>1, <4>3 DEF FinishCreate, Finish
      <4>4. CASE result[p].code \notin {"OK", "ALREADY_EXISTS", "NO_MEMORY"}
        BY <3>1, <4>4 DEF FinishCreate, Finish
      <4>5. QED
        BY <4>1, <4>2, <4>3, <4>4
    <3>2. ASSUME FinishUpdate(p) PROVE phase[p] = "repo" /\ request[p].op = "update"
      BY <3>2 DEF FinishUpdate, Finish
    <3>3. QED
      BY <3>1, <3>2 DEF ServiceInv, Linked
  <2>2. req[p] \in Repo!Request
    BY <1>0 DEF Repo!TypeOK
  <2>3. req[p].op \in {"create", "update"} => req[p].id \in Ids /\ req[p].body \in Bodies
    BY <2>2 DEF Repo!Request, Repo!WriteRequest, Repo!NameRequest, Repo!ListRequest,
       Repo!NoRequest
  <2>4. QED
    BY <2>1, <2>3 DEF Repo!NoteOf, Repo!Note
<1>3. \E response \in Replies : Answer(p, response)
  <2>1. CASE FinishCreate(p)
    <3>1. CASE result[p].code = "OK"
      <4>1. Success(201, Repo!NoteOf(p), {}) \in Replies
        BY <1>2, <2>1, SuccessType
      <4>2. QED
        BY <2>1, <3>1, <4>1, FailureTypes DEF FinishCreate, Finish
    <3>2. CASE result[p].code = "ALREADY_EXISTS"
      BY <2>1, <3>2, FailureTypes DEF FinishCreate, Finish
    <3>3. CASE result[p].code = "NO_MEMORY"
      BY <2>1, <3>3, FailureTypes DEF FinishCreate, Finish
    <3>4. CASE result[p].code \notin {"OK", "ALREADY_EXISTS", "NO_MEMORY"}
      BY <2>1, <3>4, FailureTypes DEF FinishCreate, Finish
    <3>5. QED
      BY <3>1, <3>2, <3>3, <3>4
  <2>2. CASE FinishGet(p)
    <3>1. Success(200, result[p].note, {}) \in Replies
      BY <1>1, SuccessType
    <3>2. QED
      BY <2>2, <3>1, FailureTypes DEF FinishGet, Finish
  <2>3. CASE FinishUpdate(p)
    <3>1. Success(200, Repo!NoteOf(p), {}) \in Replies
      BY <1>2, <2>3, SuccessType
    <3>2. QED
      BY <2>3, <3>1, FailureTypes DEF FinishUpdate, Finish
  <2>4. CASE FinishDelete(p)
    <3>1. Success(200, None, {}) \in Replies
      BY SuccessType
    <3>2. QED
      BY <2>4, <3>1, FailureTypes DEF FinishDelete, Finish
  <2>5. CASE FinishList(p)
    <3>1. Success(200, None, scan[p].items) \in Replies
      BY <1>1, SuccessType
    <3>2. QED
      BY <2>5, <3>1, FailureTypes DEF FinishList, Finish
  <2>6. QED
    BY <2>1, <2>2, <2>3, <2>4, <2>5
<1>4. QED
  BY <1>3, AnswerType

\* Every step of a request keeps the responses well typed.
LEMMA RepliesInductive ==
    ASSUME ServiceInv, RepliesOK, [Next]_vars
    PROVE  RepliesOK'
<1>0. dir \in [Ids -> Repo!Content]
  BY SameTypes DEF ServiceInv, RP!TypeInv, Repo!TypeOK
<1>1. CASE UNCHANGED <<reply, before>>
  BY <1>1 DEF RepliesOK
<1>2. ASSUME NEW p \in Procs, NEW r \in Requests, Receive(p, r) PROVE RepliesOK'
  BY <1>0, <1>2 DEF Receive, RepliesOK
<1>3. ASSUME NEW p \in Procs, Refuse(p) \/ PrepareFails(p) PROVE RepliesOK'
  <2>1. \E response \in Replies : Answer(p, response)
    BY <1>3, FailureTypes DEF Refuse, PrepareFails
  <2>2. QED
    BY <2>1, AnswerType
<1>4. ASSUME NEW p \in Procs, Forget(p) PROVE RepliesOK'
  <2>1. NoReply \in Replies /\ [id \in Ids |-> None] \in [Ids -> Repo!Content]
    BY DEF NoReply, Replies, Repo!Content
  <2>2. QED
    BY <1>4, <2>1 DEF Forget, RepliesOK
<1>5. QED
  BY <1>1, <1>2, <1>3, <1>4, FinishType
     DEF Next, Work, vars, CallRepository, RepositoryStep, Reply, Crash

\* No response has been made at the beginning.
LEMMA RepliesInit == Init => RepliesOK
BY DEF Init, Repo!Init, RepliesOK, NoReply, Replies, Repo!Content

\* The handlers and the service start in a well-typed state and keep it, and
\* every response they make is one of the documented ones.
THEOREM ServiceTypeCorrect == Spec => []TypeOK
<1>1. Init => RepliesOK
  BY RepliesInit
<1>2. ServiceInv /\ RepliesOK /\ [Next]_vars => RepliesOK'
  BY RepliesInductive
<1>3. ServiceInv /\ RepliesOK => TypeOK
  BY SameTypes DEF ServiceInv, RepliesOK, TypeOK, Phases, RP!TypeInv
<1>4. QED
  BY <1>1, <1>2, <1>3, ServiceInvariance, PTL DEF Spec

-----------------------------------------------------------------------------
(* Nothing invalid reaches the disk *)

\* No writing call carries an invalid body, so none gets into a file, whichever
\* writers race for it.
ValidInv ==
    /\ \A id \in Ids : dir[id] \in RP!Note => dir[id].body \notin Invalid
    /\ \A id \in Ids : tmp[id] \in RP!Note => tmp[id].body \notin Invalid
    /\ \A p \in Procs :
          req[p].op \in {"create", "update"} => req[p].body \notin Invalid

\* A step of the repository keeps what is stored valid.
LEMMA StepKeepsValid ==
    ASSUME RP!TypeInv, ValidInv, NEW p \in Procs, RP!Step(p)
    PROVE  ValidInv'
<1> USE RepositoryConstants DEF RP!ConstantsAssumption
<1>0. /\ dir \in [Ids -> RP!Content] /\ tmp \in [Ids -> RP!Content]
      /\ UNCHANGED req
  BY StepStays DEF RP!TypeInv, RP!TypeOK
<1>1. CASE UNCHANGED <<dir, tmp>>
  BY <1>0, <1>1 DEF ValidInv
<1>2. CASE RP!OpenTmp(p) \/ RP!RenameTmp(p) \/ RP!UnlinkTmp(p) \/ RP!UnlinkNote(p)
  <2>1. \/ UNCHANGED <<dir, tmp>>
        \/ \E id \in {req[p].id} : UNCHANGED dir /\ tmp' = [tmp EXCEPT ![id] = Empty]
        \/ \E id \in {req[p].id} : dir' = [dir EXCEPT ![id] = tmp[id]] /\ tmp' = [tmp EXCEPT ![id] = None]
        \/ \E id \in {req[p].id} : UNCHANGED dir /\ tmp' = [tmp EXCEPT ![id] = None]
        \/ \E id \in {req[p].id} : UNCHANGED tmp /\ dir' = [dir EXCEPT ![id] = None]
    BY <1>2 DEF RP!OpenTmp, RP!RenameTmp, RP!UnlinkTmp, RP!UnlinkNote
  <2>2. QED
    BY <1>0, <2>1 DEF ValidInv
<1>3. CASE RP!WriteTmp(p)
  <2> DEFINE id == req[p].id
  <2>1. \/ UNCHANGED <<dir, tmp>>
        \/ /\ UNCHANGED dir
           /\ \E c \in {RP!NoteOf(p), Torn, tmp[id]} : tmp' = [tmp EXCEPT ![id] = c]
        \/ /\ UNCHANGED tmp
           /\ \E c \in {RP!NoteOf(p), Torn, dir[id]} : dir' = [dir EXCEPT ![id] = c]
    BY <1>3 DEF RP!WriteTmp, RP!Overwrite
  <2>2. RP!NoteOf(p).body = req[p].body /\ req[p].body \notin Invalid
    BY <1>3 DEF RP!NoteOf, RP!WriteTmp, RP!TypeInv, RP!OpFitsLabel, ValidInv
  <2>3. QED
    BY <1>0, <2>1, <2>2 DEF ValidInv
<1>4. QED
  BY <1>1, <1>2, <1>3 DEF RP!Step, RP!CreateStat, RP!UpdateStat, RP!DeleteStat, RP!GetStat,
     RP!GetLoad, RP!OpenDir, RP!ReadEntry, RP!ListLoad, RP!EndOfDir, RP!OutOfMemory

\* No step of a request lets an invalid body into a call or a file.
LEMMA ValidInductive ==
    ASSUME ServiceInv, ValidInv, [Next]_vars
    PROVE  ValidInv'
<1>0. req \in [Procs -> RP!Request]
  BY DEF ServiceInv, RP!TypeInv, RP!TypeOK
<1>1. CASE UNCHANGED <<dir, tmp, req>>
  BY <1>1 DEF ValidInv
<1>2. ASSUME NEW p \in Procs, CallRepository(p) PROVE ValidInv'
  <2>1. UNCHANGED <<dir, tmp>>
    BY <1>2 DEF CallRepository, Repo!CallCreate, Repo!CallUpdate, Repo!CallGet,
       Repo!CallDelete, Repo!CallList, Repo!Call
  <2>2. /\ \A q \in Procs \ {p} : req'[q] = req[q]
        /\ req'[p].op \in {"create", "update"} => req'[p].body \notin Invalid
    BY <1>0, <1>2 DEF CallRepository, Acceptable, Repo!CallCreate, Repo!CallUpdate,
       Repo!CallGet, Repo!CallDelete, Repo!CallList, Repo!Call
  <2>3. QED
    BY <2>1, <2>2 DEF ValidInv
<1>3. ASSUME NEW p \in Procs, RepositoryStep(p) PROVE ValidInv'
  BY <1>3, SameStep, StepKeepsValid DEF RepositoryStep, ServiceInv
<1>4. ASSUME NEW p \in Procs, Repo!Return(p) \/ Repo!Crash(p) PROVE ValidInv'
  BY <1>0, <1>4 DEF Repo!Return, Repo!Crash, Repo!Idle, Repo!NoRequest, ValidInv
<1>5. QED
  BY <1>1, <1>2, <1>3, <1>4, FinishesReturn DEF Next, Work, vars, repoVars, Receive, Refuse,
     PrepareFails, Reply, Crash

\* Neither a create nor an update stores a note without title or content, even
\* if processes race for the file, calls fail or processes die.
THEOREM OnlyValidNotes == Spec => []StoredNotesAreValid
<1>1. Init => ValidInv
  BY SameInit, RepositoryConstants
     DEF Init, RP!Init, RP!NoRequest, ValidInv, RP!ConstantsAssumption
<1>2. ServiceInv /\ ValidInv /\ [Next]_vars => ValidInv'
  BY ValidInductive
<1>3. ValidInv => StoredNotesAreValid
  BY DEF ValidInv, StoredNotesAreValid, Repo!Note, RP!Note
<1>4. QED
  BY <1>1, <1>2, <1>3, ServiceInvariance, PTL DEF Spec

-----------------------------------------------------------------------------
(* With one writer per note *)

\* A request changes only the note its path names, and a create only one that
\* did not exist, if nobody else writes the same notes and stat() reports what
\* is there.
THEOREM OnlyAddressedNotes ==
    ASSUME RP!OneWriterPerNote, "stat" \notin Faults
    PROVE  Spec => OnlyAddressedNoteChanges
<1> DEFINE Justified(id) ==
             \E p \in Procs :
                /\ phase[p] = "repo"
                /\ \/ request[p].op \in {"update", "delete"} /\ request[p].id = id
                   \/ request[p].op = "create" /\ dir[id] = None
           Addressed == \A id \in Ids : dir'[id] # dir[id] => Justified(id)
<1>1. ServiceInv /\ RP!WriterInv /\ [Next]_vars => [Addressed]_vars
  <2> SUFFICES ASSUME ServiceInv, RP!WriterInv, [Next]_vars, NEW id \in Ids,
                      dir'[id] # dir[id]
               PROVE  Justified(id)
    OBVIOUS
  <2>1. PICK p \in Procs :
           /\ req[p].id = id
           /\ RP!RenameTmp(p) \/ RP!UnlinkNote(p)
    BY StepsAreRepositorySteps, RepositoryConstants, RP!NoteChanges
  <2>2. /\ pc[p] \in {"rename", "unlink"}
        /\ phase[p] = "repo" /\ request[p].op = req[p].op
    BY <2>1 DEF RP!RenameTmp, RP!UnlinkNote, ServiceInv, Linked
  <2>3. \/ req[p].op \in {"update", "delete"}
        \/ req[p].op = "create" /\ dir[id] = None
    BY <2>1, <2>2 DEF RP!RenameTmp, RP!UnlinkNote, RP!WriterInv, RP!OpFitsLabel,
       RP!CheckStillHolds
  <2>4. QED
    BY <2>1, <2>2, <2>3 DEF ServiceInv, Linked
<1>2. RP!Spec => []RP!WriterInv
  BY RepositoryConstants, RP!WriterCorrect
<1>3. QED
  BY <1>1, <1>2, ServiceInvariance, ServiceUsesRepository, PTL
     DEF Spec, OnlyAddressedNoteChanges

-----------------------------------------------------------------------------
(* What a response says, with one writer per note *)

\* p's own notes are as they were when the request arrived.
Unchanged(p) == \A id \in Writable[p] : dir[id] = before[p][id]

\* What a response to p's request says of the stored notes by reporting success
IsTrue(p, note, items) ==
    LET r == request[p]
        mine == Writable[p]
    IN  /\ r.op \in {"create", "update", "get"} =>
              /\ note.id \in mine => dir[note.id] = note
              /\ r.op # "create" => note.id = r.id
        /\ r.op = "delete" => dir[r.id] = None
        /\ r.op = "list" =>
              {n \in items : n.id \in mine} =
              {dir[id] : id \in {i \in mine : dir[i] # None /\
                                   (r.tag = None \/ Repo!HasTag(dir[i], r.tag))}}

ErrorIsHarmless(p) ==
    /\ reply[p].status \notin {200, 201}
    /\ reply[p].status # 500 \/ reply[p].error = "storage" \/ "oom" \notin Faults
    => Unchanged(p)

\* Until its repository call answers OK a request has changed nothing, and from
\* then on nobody changes what its response is about.
AnsweredAt(p) ==
    /\ phase[p] \in {"handler", "repo"} /\ result[p].code # "OK" => Unchanged(p)
    /\ phase[p] = "reply" =>
          /\ reply[p].status \in {200, 201} => IsTrue(p, reply[p].note, reply[p].items)
          /\ ErrorIsHarmless(p)

AnswerInv ==
    /\ ServiceInv /\ RepliesOK /\ RP!ReturnInv
    /\ \A p \in Procs : AnsweredAt(p)

\* No call that has not answered OK has that result.
LEMMA OnlyDoneIsOK ==
    ASSUME RP!ReturnInv, NEW p \in Procs, pc[p] # "done"
    PROVE  result[p].code # "OK"
BY RepositoryConstants DEF RP!ReturnInv, RP!ListingInv, RP!ListingAt, RP!NoResult,
   RP!ConstantsAssumption, RP!Codes

\* Nobody but p changes the notes that only p writes.
LEMMA OwnKept ==
    ASSUME RP!OneWriterPerNote, ServiceInv, RP!ReturnInv, [Next]_vars, NEW p \in Procs,
           pc[p] \in {"idle", "done"} \/ result'[p].code # "OK"
    PROVE  \A id \in Writable[p] : dir'[id] = dir[id]
<1>1. [RP!Next]_(RP!vars) /\ RP!WriterInv
  BY StepsAreRepositorySteps DEF RP!ReturnInv, RP!ListingInv
<1>2. QED
  BY <1>1, RepositoryConstants, RP!OwnNotesKept

\* What the invariant says of p's request stays true while it makes no progress
\* but steps of its repository call.
LEMMA AnswerUntouched ==
    ASSUME RP!OneWriterPerNote, AnswerInv, [Next]_vars, NEW p \in Procs,
           phase'[p] = phase[p], request'[p] = request[p], reply'[p] = reply[p],
           before'[p] = before[p], result'[p].code # "OK" => result[p].code # "OK"
    PROVE  AnsweredAt(p)'
<1>0. ServiceInv /\ RP!ReturnInv /\ AnsweredAt(p)
  BY DEF AnswerInv
<1>1. CASE phase[p] \in {"handler", "repo"} /\ result'[p].code # "OK"
  BY <1>0, <1>1, OwnKept DEF AnsweredAt, Unchanged
<1>2. CASE phase[p] = "reply"
  <2>1. \A id \in Writable[p] : dir'[id] = dir[id]
    BY <1>0, <1>2, OwnKept DEF ServiceInv, Linked
  <2>2. request[p].op = "delete" => request[p].id \in Writable[p]
    BY <1>0, <1>2 DEF ServiceInv, Linked
  <2>3. IsTrue(p, reply[p].note, reply[p].items) => IsTrue(p, reply[p].note, reply[p].items)'
    <3>1. {i \in Writable[p] : dir'[i] # None /\
             (request[p].tag = None \/ Repo!HasTag(dir'[i], request[p].tag))} =
          {i \in Writable[p] : dir[i] # None /\
             (request[p].tag = None \/ Repo!HasTag(dir[i], request[p].tag))}
      BY <2>1 DEF Repo!HasTag
    <3>2. {dir'[id] : id \in {i \in Writable[p] : dir[i] # None /\
             (request[p].tag = None \/ Repo!HasTag(dir[i], request[p].tag))}} =
          {dir[id] : id \in {i \in Writable[p] : dir[i] # None /\
             (request[p].tag = None \/ Repo!HasTag(dir[i], request[p].tag))}}
      BY <2>1
    <3>3. QED
      BY <2>1, <2>2, <3>1, <3>2 DEF IsTrue, Repo!HasTag
  <2>4. Unchanged(p) => Unchanged(p)'
    BY <2>1 DEF Unchanged
  <2>5. ErrorIsHarmless(p) => ErrorIsHarmless(p)'
    BY <2>4 DEF ErrorIsHarmless
  <2>6. phase'[p] = "reply" /\ phase'[p] \notin {"handler", "repo"}
    BY <1>2
  <2>7. reply[p].status \in {200, 201} => IsTrue(p, reply[p].note, reply[p].items)
    BY <1>0, <1>2 DEF AnsweredAt
  <2>8. reply'[p].status \in {200, 201} => IsTrue(p, reply[p].note, reply[p].items)'
    BY <2>3, <2>7
  <2>9. ErrorIsHarmless(p)'
    BY <1>0, <1>2, <2>5 DEF AnsweredAt
  <2>10. QED
    BY <2>6, <2>8, <2>9 DEF AnsweredAt
<1>3. CASE ~(phase[p] \in {"handler", "repo"} /\ result'[p].code # "OK") /\ phase[p] # "reply"
  BY <1>3 DEF AnsweredAt
<1>4. QED
  BY <1>1, <1>2, <1>3

\* An error may be answered whatever happened if memory runs out, and any error
\* after a call that changed nothing; a success, if what it says is true.
LEMMA ErrorFits ==
    ASSUME NEW p \in Procs, UNCHANGED <<dir, request, before>>, phase'[p] = "reply",
           reply'[p].status \notin {200, 201},
           \/ Unchanged(p)
           \/ "oom" \in Faults /\ reply'[p].status = 500 /\ reply'[p].error # "storage"
    PROVE  AnsweredAt(p)'
<1>1. ErrorIsHarmless(p)'
  BY DEF ErrorIsHarmless, Unchanged
<1>2. QED
  BY <1>1 DEF AnsweredAt

\* A success that says the truth, or one lost for want of memory, is a fitting answer.
LEMMA SuccessFits ==
    ASSUME NEW p \in Procs, UNCHANGED <<dir, request, before>>, phase'[p] = "reply",
           NEW note, NEW items, IsTrue(p, note, items),
           \/ reply'[p].status \in {200, 201} /\ reply'[p].note = note /\ reply'[p].items = items
           \/ "oom" \in Faults /\ reply'[p].status = 500 /\ reply'[p].error = "memory"
    PROVE  AnsweredAt(p)'
<1>1. CASE reply'[p].status \in {200, 201} /\ reply'[p].note = note /\ reply'[p].items = items
  <2>1. IsTrue(p, note, items)'
    BY DEF IsTrue
  <2>2. QED
    BY <1>1, <2>1 DEF AnsweredAt, ErrorIsHarmless
<1>2. CASE "oom" \in Faults /\ reply'[p].status = 500 /\ reply'[p].error = "memory"
  BY <1>2, ErrorFits
<1>3. QED
  BY <1>1, <1>2

\* A finished request was answered from the call made for it.
LEMMA FinishFits ==
    ASSUME AnswerInv, NEW p \in Procs, NEW op, NEW response, Finish(p, op, response)
    PROVE  /\ phase'[p] = "reply" /\ UNCHANGED <<dir, request, before>>
           /\ \/ reply'[p] = response
              \/ "oom" \in Faults /\ reply'[p].status = 500 /\ reply'[p].error = "memory"
           /\ request[p].op = op /\ req[p].op = op
           /\ op \in {"get", "update", "delete"} => req[p].id = request[p].id
           /\ op = "list" => req[p].tag = request[p].tag
           /\ result[p].code # "OK" => Unchanged(p)
           /\ RP!ReturnedAt(p)
<1>1. phase[p] = "repo" /\ request[p].op = op /\ UNCHANGED dir
  BY DEF Finish, Repo!Return
<1>2. /\ phase' = [phase EXCEPT ![p] = "reply"] /\ UNCHANGED <<request, before>>
      /\ \/ reply' = [reply EXCEPT ![p] = response]
         \/ /\ "oom" \in Faults
            /\ \E x : /\ x.status = 500 /\ x.error = "memory"
                     /\ reply' = [reply EXCEPT ![p] = x]
  BY DEF Finish, Answer, Failure
<1>3. phase'[p] = "reply"
  BY <1>2 DEF AnswerInv, ServiceInv
<1>4. \/ reply'[p] = response
      \/ "oom" \in Faults /\ reply'[p].status = 500 /\ reply'[p].error = "memory"
  BY <1>2 DEF AnswerInv, RepliesOK
<1>5. QED
  BY <1>1, <1>2, <1>3, <1>4 DEF AnswerInv, ServiceInv, Linked, AnsweredAt, RP!ReturnInv

\* Whatever is answered after a call, it is an error that may be answered then ...
LEMMA FinishWithError ==
    ASSUME AnswerInv, NEW p \in Procs, NEW op, NEW response, Finish(p, op, response),
           response.status \notin {200, 201},
           \/ result[p].code # "OK"
           \/ "oom" \in Faults /\ response.status = 500 /\ response.error # "storage"
    PROVE  AnsweredAt(p)'
<1>1. /\ phase'[p] = "reply" /\ UNCHANGED <<dir, request, before>>
      /\ \/ reply'[p] = response
         \/ "oom" \in Faults /\ reply'[p].status = 500 /\ reply'[p].error = "memory"
      /\ result[p].code # "OK" => Unchanged(p)
  BY FinishFits
<1>2. QED
  BY <1>1, ErrorFits

\* ... or a success that says what is true.
LEMMA FinishWithSuccess ==
    ASSUME AnswerInv, NEW p \in Procs, NEW op, NEW response, Finish(p, op, response),
           response.status \in {200, 201}, IsTrue(p, response.note, response.items)
    PROVE  AnsweredAt(p)'
<1>1. /\ phase'[p] = "reply" /\ UNCHANGED <<dir, request, before>>
      /\ \/ reply'[p] = response
         \/ "oom" \in Faults /\ reply'[p].status = 500 /\ reply'[p].error = "memory"
  BY FinishFits
<1>2. PICK note, items : note = response.note /\ items = response.items
  OBVIOUS
<1>3. QED
  BY <1>1, <1>2, SuccessFits

\* The handler turns what the repository returned into a fitting answer.
LEMMA FinishKeepsAnswer ==
    ASSUME AnswerInv, NEW p \in Procs,
           \/ FinishCreate(p) \/ FinishGet(p) \/ FinishUpdate(p) \/ FinishDelete(p)
           \/ FinishList(p)
    PROVE  AnsweredAt(p)'
<1> DEFINE note == Repo!NoteOf(p)
<1>0. note = RP!NoteOf(p) /\ note.id = req[p].id
  BY DEF Repo!NoteOf, RP!NoteOf
<1>1. CASE result[p].code # "OK"
  <2>1. PICK op, response : response.status \notin {200, 201} /\ Finish(p, op, response)
    <3>1. CASE FinishCreate(p)
      <4>1. CASE result[p].code = "ALREADY_EXISTS"
        BY <3>1, <4>1 DEF FinishCreate, Failure
      <4>2. CASE result[p].code = "NO_MEMORY"
        BY <3>1, <4>2 DEF FinishCreate, Failure
      <4>3. CASE result[p].code \notin {"OK", "ALREADY_EXISTS", "NO_MEMORY"}
        BY <3>1, <4>3 DEF FinishCreate, Failure
      <4>4. QED
        BY <1>1, <4>1, <4>2, <4>3
    <3>2. CASE FinishGet(p) \/ FinishDelete(p) \/ FinishList(p)
      BY <1>1, <3>2 DEF FinishGet, FinishDelete, FinishList, Failure
    <3>3. CASE FinishUpdate(p)
      BY <1>1, <3>3 DEF FinishUpdate, Failure
    <3>4. QED
      BY <3>1, <3>2, <3>3
  <2>2. QED
    BY <1>1, <2>1, FinishWithError
<1>2. CASE result[p].code = "OK" /\ FinishCreate(p)
  <2>1. PICK response :
           /\ Finish(p, "create", response)
           /\ \/ response.status = 201 /\ response.note = note
              \/ "oom" \in Faults /\ response.status = 500 /\ response.error = "internal"
    BY <1>2 DEF FinishCreate, Success, Failure
  <2>2. CASE response.status = 201 /\ response.note = note
    <3>1. IsTrue(p, response.note, response.items)
      BY <1>0, <1>2, <2>1, <2>2, FinishFits DEF IsTrue, RP!ReturnedAt
    <3>2. QED
      BY <2>1, <2>2, <3>1, FinishWithSuccess
  <2>3. QED
    BY <2>1, <2>2, FinishWithError
<1>3. CASE result[p].code = "OK" /\ FinishGet(p)
  <2>1. PICK response :
           /\ Finish(p, "get", response)
           /\ response.status = 200 /\ response.note = result[p].note
    BY <1>3 DEF FinishGet, Success
  <2>2. IsTrue(p, response.note, response.items)
    BY <1>3, <2>1, FinishFits DEF IsTrue, RP!ReturnedAt
  <2>3. QED
    BY <2>1, <2>2, FinishWithSuccess
<1>4. CASE result[p].code = "OK" /\ FinishUpdate(p)
  <2>1. PICK response :
           /\ Finish(p, "update", response)
           /\ \/ response.status = 200 /\ response.note = note
              \/ "oom" \in Faults /\ response.status = 500 /\ response.error = "internal"
    BY <1>4 DEF FinishUpdate, Success, Failure
  <2>2. CASE response.status = 200 /\ response.note = note
    <3>1. IsTrue(p, response.note, response.items)
      BY <1>0, <1>4, <2>1, <2>2, FinishFits DEF IsTrue, RP!ReturnedAt
    <3>2. QED
      BY <2>1, <2>2, <3>1, FinishWithSuccess
  <2>3. QED
    BY <2>1, <2>2, FinishWithError
<1>5. CASE result[p].code = "OK" /\ FinishDelete(p)
  <2>1. PICK response : Finish(p, "delete", response) /\ response.status = 200
    BY <1>5 DEF FinishDelete, Success
  <2>2. IsTrue(p, response.note, response.items)
    BY <1>5, <2>1, FinishFits DEF IsTrue, RP!ReturnedAt
  <2>3. QED
    BY <2>1, <2>2, FinishWithSuccess
<1>6. CASE result[p].code = "OK" /\ FinishList(p)
  <2>1. PICK response :
           /\ Finish(p, "list", response)
           /\ response.status = 200 /\ response.items = scan[p].items
    BY <1>6 DEF FinishList, Success
  <2>2. IsTrue(p, response.note, response.items)
    <3>1. RP!ListingIsExact
      BY RepositoryConstants, RP!ListingComplete DEF AnswerInv, RP!ReturnInv
    <3>2. \A n, tag : Repo!HasTag(n, tag) <=> RP!HasTag(n, tag)
      BY DEF Repo!HasTag, RP!HasTag
    <3>3. request[p].op = "list" /\ req[p].op = "list" /\ req[p].tag = request[p].tag
      BY <2>1, FinishFits
    <3>4. QED
      BY <1>6, <2>1, <3>1, <3>2, <3>3 DEF IsTrue, RP!ListingIsExact
  <2>3. QED
    BY <2>1, <2>2, FinishWithSuccess
<1>7. QED
  BY <1>1, <1>2, <1>3, <1>4, <1>5, <1>6

\* Every step of p's request keeps what the invariant says of it.
LEMMA WorkKeepsAnswer ==
    ASSUME RP!OneWriterPerNote, AnswerInv, [Next]_vars, NEW p \in Procs,
           Work(p) \/ Crash(p) \/ \E r \in Requests : Receive(p, r)
    PROVE  AnsweredAt(p)'
<1>0. ServiceInv /\ RepliesOK /\ RP!ReturnInv /\ AnsweredAt(p)
  BY DEF AnswerInv
<1>1. ASSUME NEW r \in Requests, Receive(p, r) PROVE AnsweredAt(p)'
  <2>1. phase'[p] = "handler" /\ before'[p] = dir /\ UNCHANGED dir
    BY <1>0, <1>1 DEF Receive, repoVars, ServiceInv, RepliesOK
  <2>2. QED
    BY <2>1 DEF AnsweredAt, Unchanged
<1>2. CASE Refuse(p) \/ PrepareFails(p)
  <2>1. phase[p] = "handler" /\ UNCHANGED dir
    BY <1>2 DEF Refuse, PrepareFails, repoVars
  <2>2. Unchanged(p)
    <3>1. pc[p] = "idle"
      BY <1>0, <2>1 DEF ServiceInv, Linked
    <3>2. QED
      BY <1>0, <2>1, <3>1, OnlyDoneIsOK DEF AnsweredAt
  <2>3. phase'[p] = "reply" /\ UNCHANGED <<request, before>>
    BY <1>0, <1>2 DEF Refuse, PrepareFails, Answer, ServiceInv
  <2>4. reply'[p].status \notin {200, 201}
    <3>1. \/ reply' = [reply EXCEPT ![p] = Failure(400, "invalid")]
          \/ reply' = [reply EXCEPT ![p] = Failure(500, "memory")]
          \/ reply' = [reply EXCEPT ![p] = Failure(500, "internal")]
      BY <1>2 DEF Refuse, PrepareFails, Answer
    <3>2. QED
      BY <1>0, <3>1 DEF RepliesOK, Failure
  <2>5. QED
    BY <2>1, <2>2, <2>3, <2>4, ErrorFits
<1>3. CASE CallRepository(p)
  <2>1. phase[p] = "handler" /\ UNCHANGED <<dir, result, before>>
    BY <1>3 DEF CallRepository, Repo!CallCreate, Repo!CallUpdate, Repo!CallGet,
       Repo!CallDelete, Repo!CallList, Repo!Call
  <2>2. phase'[p] = "repo"
    BY <1>0, <1>3 DEF CallRepository, ServiceInv
  <2>3. QED
    BY <1>0, <2>1, <2>2 DEF AnsweredAt, Unchanged
<1>4. CASE RepositoryStep(p)
  <2>1. UNCHANGED <<phase, request, reply, before>>
    BY <1>4 DEF RepositoryStep
  <2>2. pc[p] # "done"
    BY <1>4, SameStep DEF RepositoryStep, RP!Step, RP!CreateStat, RP!UpdateStat,
       RP!DeleteStat, RP!GetStat, RP!OpenTmp, RP!WriteTmp, RP!RenameTmp, RP!UnlinkTmp,
       RP!UnlinkNote, RP!GetLoad, RP!OpenDir, RP!ReadEntry, RP!ListLoad, RP!EndOfDir,
       RP!OutOfMemory
  <2>3. QED
    BY <1>0, <2>1, <2>2, OnlyDoneIsOK, AnswerUntouched
<1>5. CASE \/ FinishCreate(p) \/ FinishGet(p) \/ FinishUpdate(p) \/ FinishDelete(p)
           \/ FinishList(p)
  BY <1>5, FinishKeepsAnswer
<1>6. CASE Reply(p) \/ Crash(p)
  <2>1. phase'[p] = "idle"
    BY <1>0, <1>6 DEF Reply, Crash, Forget, ServiceInv
  <2>2. QED
    BY <2>1 DEF AnsweredAt
<1>7. QED
  BY <1>1, <1>2, <1>3, <1>4, <1>5, <1>6 DEF Work

\* A step of one process says nothing about the request of another.
LEMMA OthersKeepAnswer ==
    ASSUME RP!OneWriterPerNote, AnswerInv, [Next]_vars, NEW q \in Procs,
           Work(q) \/ Crash(q) \/ \E r \in Requests : Receive(q, r),
           NEW p \in Procs \ {q}
    PROVE  AnsweredAt(p)'
<1>0. ServiceInv /\ RepliesOK /\ RP!TypeOK
  BY DEF AnswerInv, ServiceInv, RP!TypeInv
<1> DEFINE Same == /\ phase'[p] = phase[p] /\ request'[p] = request[p] /\ reply'[p] = reply[p]
                   /\ before'[p] = before[p] /\ result'[p] = result[p]
<1>1. CASE \E r \in Requests : Receive(q, r)
  BY <1>0, <1>1, AnswerUntouched DEF Receive, repoVars, ServiceInv, RepliesOK
<1>2. ASSUME NEW response, Answer(q, response), result'[p] = result[p] PROVE Same
  BY <1>0, <1>2 DEF Answer, ServiceInv, RepliesOK
<1>3. CASE Refuse(q) \/ PrepareFails(q)
  <2>1. UNCHANGED result /\ \E response : Answer(q, response)
    BY <1>3 DEF Refuse, PrepareFails, repoVars
  <2>2. Same
    BY <1>2, <2>1
  <2>3. QED
    BY <2>2, AnswerUntouched
<1>4. CASE CallRepository(q)
  <2>1. /\ phase' = [phase EXCEPT ![q] = "repo"] /\ UNCHANGED <<request, reply, before, result>>
    BY <1>4 DEF CallRepository, Repo!CallCreate, Repo!CallUpdate, Repo!CallGet,
       Repo!CallDelete, Repo!CallList, Repo!Call
  <2>2. Same
    BY <1>0, <2>1 DEF ServiceInv
  <2>3. QED
    BY <2>2, AnswerUntouched
<1>5. CASE RepositoryStep(q)
  <2>1. Same
    BY <1>0, <1>5, SameStep, RepositoryConstants, RP!StepLeavesListings DEF RepositoryStep
  <2>2. QED
    BY <2>1, AnswerUntouched
<1>6. CASE \/ FinishCreate(q) \/ FinishGet(q) \/ FinishUpdate(q) \/ FinishDelete(q)
           \/ FinishList(q)
  <2>1. Repo!Return(q) /\ \E response : Answer(q, response)
    BY <1>6, FinishesReturn
  <2>2. result'[p] = result[p]
    BY <1>0, <2>1 DEF Repo!Return, Repo!Idle, RP!TypeOK
  <2>3. Same
    BY <1>2, <2>1, <2>2
  <2>4. QED
    BY <2>3, AnswerUntouched
<1>7. CASE Reply(q) \/ Crash(q)
  <2>1. Forget(q) /\ (UNCHANGED result \/ result' = [result EXCEPT ![q] = Repo!NoResult])
    BY <1>7 DEF Reply, Crash, repoVars, Repo!Crash, Repo!Idle
  <2>2. Same
    BY <1>0, <2>1 DEF Forget, ServiceInv, RepliesOK, RP!TypeOK
  <2>3. QED
    BY <2>2, AnswerUntouched
<1>8. QED
  BY <1>1, <1>3, <1>4, <1>5, <1>6, <1>7 DEF Work

\* Every step keeps the answers fitting.
LEMMA AnswerInductive ==
    ASSUME RP!OneWriterPerNote, "readdir" \notin Faults, AnswerInv, [Next]_vars
    PROVE  AnswerInv'
<1>1. ServiceInv' /\ RepliesOK'
  BY StepsAreRepositorySteps, LinkInductive, RepositoryConstants, RP!TypeInductive,
     RepliesInductive DEF AnswerInv, ServiceInv
<1>2. RP!ReturnInv'
  BY StepsAreRepositorySteps, RepositoryConstants, RP!ReturnInductive DEF AnswerInv
<1>3. ASSUME NEW p \in Procs PROVE AnsweredAt(p)'
  <2>1. CASE UNCHANGED vars
    BY <2>1, AnswerUntouched DEF vars, repoVars
  <2>2. ASSUME NEW q \in Procs, Work(q) \/ Crash(q) \/ \E r \in Requests : Receive(q, r)
        PROVE  AnsweredAt(p)'
    BY <2>2, WorkKeepsAnswer, OthersKeepAnswer
  <2>3. QED
    BY <2>1, <2>2 DEF Next
<1>4. QED
  BY <1>1, <1>2, <1>3 DEF AnswerInv

\* Every response the service makes is a fitting answer.
LEMMA AnswerCorrect ==
    ASSUME RP!OneWriterPerNote, "readdir" \notin Faults
    PROVE  Spec => []AnswerInv
<1>1. Init => AnswerInv
  <2>1. Init => ServiceInv /\ RepliesOK
    BY ServiceInit, RepliesInit
  <2>2. Init => RP!ReturnInv
    BY SameInit, RepositoryConstants, RP!ReturnInit DEF Init
  <2>3. ASSUME Init, NEW p \in Procs PROVE AnsweredAt(p)
    BY <2>3 DEF Init, AnsweredAt
  <2>4. QED
    BY <2>1, <2>2, <2>3 DEF AnswerInv
<1>2. AnswerInv /\ [Next]_vars => AnswerInv'
  BY AnswerInductive
<1>3. QED
  BY <1>1, <1>2, PTL DEF Spec

\* If nobody else writes the same notes and readdir() does not fail, whatever a
\* process answers as done is what is stored when the response leaves, whatever
\* the other processes do meanwhile.
THEOREM TrueReplies ==
    ASSUME RP!OneWriterPerNote, "readdir" \notin Faults
    PROVE  Spec => []RepliesAreTrue
<1>1. AnswerInv => RepliesAreTrue
  BY DEF AnswerInv, AnsweredAt, IsTrue, RepliesAreTrue
<1>2. QED
  BY <1>1, AnswerCorrect, PTL

\* Under the same conditions, an error answer means that nothing was changed,
\* but for those that memory running out explains.
THEOREM HarmlessErrors ==
    ASSUME RP!OneWriterPerNote, "readdir" \notin Faults
    PROVE  Spec => []ErrorsChangeNothing
<1>1. AnswerInv => ErrorsChangeNothing
  BY DEF AnswerInv, AnsweredAt, ErrorIsHarmless, Unchanged, ErrorsChangeNothing
<1>2. QED
  BY <1>1, AnswerCorrect, PTL
=============================================================================
