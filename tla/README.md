# Task notes service: TLA+ models, model checking and proofs

This directory holds a formal description of the task notes service (C, `src/`) and of the
documentation assistant and the script beside it (Python, `assistant/` and `run_service.py`). Every definition is a translation of
the source; `PROJECT.json` gives the lines each one stands for. TLC checks the models on small
instances, and TLAPS proves the theorems for every value of the constants.

To check a run: `tlc -config MCRepoSolo.cfg MCNotesRepository` (module and `.cfg` of each run
are in the table below). To check the proofs: `tlapm NotesRepositoryProofs.tla`, and the same
for `NotesServiceProofs.tla`, `ServerMainProofs.tla`, `HttpRouterProofs.tla`, `RagIndexProofs.tla`,
`ChunkerProofs.tla` (ten minutes), `RunServiceProofs.tla` and `LoopProofs.tla`.

## 1. The system

| Component | Source | State it keeps | Operations | Hard part |
|---|---|---|---|---|
| Service process | `src/main.c` | components built, signal flag | build, run, take down | start-up failing half-way, signal while a handler runs |
| HTTP server | `src/http/server.c` | libmicrohttpd daemon, one `RequestContext` per request | access callback, start, stop | contexts kept between callbacks, clients that leave, buffers that grow |
| HTTP router | `src/http/router.c` | none | classify path, find and decode the tag, dispatch | decoding twice, ownership of path and query |
| Notes handler | `src/notes_handler` | none | five handlers, error mapping | failure after the effect |
| Notes service | `src/service` | none | validate, generate ids, override ids | what an error code still tells |
| Notes repository | `src/notes_repository` | `{id}.json` and `{id}.json.tmp` files | create, get, update, delete, list, list by tag | no lock between processes, crashes, failing system calls |
| Note model | `src/notes` | a note | JSON conversion, validation, tags | ownership when memory runs out |
| Utilities | `src/utils`, `src/http/response.c` | none | responses, return codes | any response may become a 500 |
| Supervisor | `run_service.py` | `.env`, the virtual environment; the service and the child of a session | set-up in six steps, start, prompt loop, stop | steps that fail or are cut off and are run again, signals that reach three processes |
| Document index | `assistant/rag/retriever/indexer.py`, `vector_store.py` | a Chroma collection | rebuild, add, query, get all | rebuilt in place while it is read |
| Embedder | `embedder.py` | endpoint known to work | embed in batches | timeouts and splitting, short answers |
| Chunkers | `document_loader.py`, `chunker.py`, `chunking/` | while a file is read: heading stack, fence, section | documents to chunks | references in circles, tables that are cut up, failures that are swallowed |
| Retrieval, prompt, answer | `retrieval.py`, `prompt_builder.py`, `assistant_service.py` | none | rank, clip, number sources | two reads, two numberings |
| Generator, command line | `generator.py`, `assistant/main.py` | none | one HTTP exchange, arguments | - |

How they interact. A client's request reaches `accessHandlerCallback` from libmicrohttpd's one
polling thread, several times per request, with the request's context in `con_cls`. The last
call builds a path and a query string, calls the router, which calls a handler, which calls the
service, which calls the repository, which makes system calls on the data directory. All of
that is one synchronous call chain, so a process works on one request at a time; two processes
on one data directory interleave their system calls freely, because the repository takes no
lock. `main` shares the component structures with the polling thread and takes them down after
a signal. The assistant is separate: `index` rewrites the collection that `ask` and `search`,
in other processes, read; both call an Ollama server. `run_service.py setup` runs `index` as its last
step; `start` reads `.env`, runs the service as a child process and, for each line typed, `main.py
ask` as another, and stops the service when it ends; a Ctrl+C in its terminal reaches all three.

What makes each component correct:

- repository: a note file is always whole; a call takes effect at one instant or not at all; an
  error changes nothing; a listing that succeeds is exact; a note disappears only by a delete;
- service and handler: only valid notes reach the disk; only the addressed note changes; what a
  response says is true; every request is answered;
- server: a context is never used after it is freed nor by two requests; the body fits its
  buffer and is complete; nothing a handler uses is destroyed under it; the process ends when it
  is told to;
- router: each URL and method reaches the right handler with the right id and tag; buffers are
  freed exactly once;
- assistant: embeddings belong to their texts; a rebuild that cannot finish embedding spares the
  old index, one that succeeds is whole; an answer is not mixed from two states of the
  documentation; the cited source numbers are the printed ones; an index command ends;
- chunkers: every section stands under its own headings; cutting up tables loses nothing else; no
  two chunks share an id; a file is dropped only for what is wrong with it; an operation's text
  lists the parameters it has;
- supervisor: a set-up that says it is completed is usable, and one may be run again after any
  failure; the token stored is the token used; nothing is left running; stopping ends.

## 2. Modules

| Module | Models | Built on |
|---|---|---|
| `NotesRepository` | `notes_repository.c`, one action per system call | - |
| `NoteStore` | abstract: what `notes_repository.h` promises, a map changed atomically | - |
| `NotesRaces` | `NotesRepository` with a history of the updates that a delete has overtaken | extends `NotesRepository` |
| `NotesService` | handlers and service, around the repository's steps | instance of `NotesRepository` |
| `Doubling` | a capacity that is doubled until enough fits | - |
| `HttpServer` | callbacks, contexts, body buffer, daemon | extends `Doubling` |
| `ServerMain` | `main`: building, the signal, taking down | extends `HttpServer` |
| `HttpRouter` | path and query of `server.c`, `router.c` | extends `Doubling` |
| `Embedder` | `OllamaEmbedder` while it embeds the texts of an index | - |
| `RagIndex` | `build_rag_index` with concurrent questions | extends `Embedder` |
| `MarkdownSections` | `MarkdownChunker`: sections, their expansion, what is skipped | - |
| `OpenApiChunks` | `chunker_yaml.py` as operators: references, parameters, the four kinds of chunks | - |
| `Chunker` | `load_documents`, `chunk_documents` | extends `MarkdownSections`, `OpenApiChunks` |
| `Installation` | what set-up leaves on the machine, reading and writing `.env` | - |
| `Setup` | `run_service.py setup` | extends `Installation` |
| `Supervisor` | `run_service.py start` in any number of terminals, its service and its child | extends `Installation` |
| `RunService` | set-up beside sessions | extends `Setup`, `Supervisor` |
| `LoopProofs` | what loops compute: doubling, functions defined by recursion, joined sequences | extends `Doubling` |
| `NotesRepositoryProofs`, `NotesServiceProofs`, `ServerMainProofs`, `HttpRouterProofs`, `RagIndexProofs`, `ChunkerProofs`, `RunServiceProofs` | theorems | the modules they are named for, the first one `NotesRaces` on top of its own; all but the first two and the last extend `LoopProofs` |
| `MC*` | small instances for TLC | |

**NotesRepository.** `dir[id]` is what `{id}.json` holds and `tmp[id]` what `{id}.json.tmp`
holds: nothing, a just truncated file, bytes that are no note, or a whole note. `pc[p]` names the
next system call of process `p`: `CreateStat`, `UpdateStat`, `DeleteStat` and `GetStat` are
`pathExists`; `OpenTmp`, `WriteTmp`, `RenameTmp` and `UnlinkTmp` are the steps of
`writeNoteJsonAtomic`; `OpenDir`, `ReadEntry`, `ListLoad` and `EndOfDir` those of the two
listings. `fd[p]` says where the file a process is writing to is by now: another process may
have renamed or unlinked it, and the write then lands in the note or nowhere. `Faults` selects
what may go wrong: failing calls, failing allocations, death and restart of a process, `stat()`
failing on a file that is there, `readdir()` failing midway, and a generated id that is in use.
A note's content is one value (`Bodies`) besides its id; the layout of the JSON is left out.
`NotesRaces` adds the history variable `raced`: the processes in an update whose note was deleted
after they had seen it.

**NotesService.** `phase[p]` leads a request from `Receive` through `Refuse` or `PrepareFails`
(payload, validation, id generation, allocation), one repository call whose steps are the
actions of the instance `Repo`, and the matching `Finish` action, which maps the code and builds
the response. `StoredId` is the id override of an update. `before` is a history variable.

**HttpServer, ServerMain.** `conn[c]` is how far the current request of a connection is,
`conCls[c]` the pointer libmicrohttpd keeps for it, `heap` the allocated contexts, `body` size
and capacity of their buffers. `Abort` is a client that leaves between two callbacks. `StopDaemon`
and `JoinDaemon` are `MHD_stop_daemon`: the thread may finish the round it is in, and start
another handler in it, before it sees the order. `alive` is the set of components built; `Build`
and `Destroy` follow the order in `main.c`.

**HttpRouter.** Texts are sequences of characters, "notes" and "tag" being one character each.
The actions are the steps of one request: `ExtractPath`, `AppendArgument` for each argument,
`QueryBuilt`, one of the `Route` actions, `CleanUp`. libmicrohttpd's own decoding of arguments is
external. `live[b]` counts how often a buffer is allocated without having been freed.

**Embedder, RagIndex.** An embedding is named by the text it was computed from, so misalignment
is visible. `pending` is the sequence of batches still to embed; a timeout replaces the first
one by its halves, which is the order in which the recursion visits them. The collection has an
identity: `reset_collection` makes a new one, and a handle on the old one raises. Chroma is
external; adding an id that is there is taken to leave the stored chunk alone, as Chroma
documents. Relevance scores are floating-point sums: any ranking may come out. The chunks of a
document are given (`Corpora`); how they come about is the subject of the next three modules.

**MarkdownSections, OpenApiChunks, Chunker.** A markdown file is read by `ReadHeading` and
`ReadText`, the two branches of the loop in `_parse_sections`; a line is what the chunker's regular
expressions see in it, so its kind and, for a heading, its level and title. All that is kept of
the file are line numbers, which makes lost, doubled and misplaced lines visible: `stack` is
`current_stack`, a `path` the numbers of its headings. `Parsed`, `Expanded`, `Skipped` and
`MarkdownChunks` are the functions applied at the end of the file. A YAML value is a record tagged
`map`, `list`, `text`, `null` or `number` (any other plain value, by its spelling), a reference a mapping with the one key `$ref`,
and an exception the value `Raised`, which every caller hands on. A value may stand where the code expects one of
another type: `Uniterable` and `Unjoinable` are what a loop and a join raise at, `Misshapen` what
`summarize_schema` does, and `OtherKeys` are keys that cannot become a part of an id. `ContentSchemas` are the schemas under
`content` and its types. `DeepResolve`, `Summary`, `Merge` and the builders of the
four kinds of chunks follow the functions of `chunker_yaml.py`. Calls nest as deep as `RecursionLimit`,
beyond which Python raises a `RecursionError`: `Levels` are the values that many keys down in a value,
`resolved[k]` what `deep_resolve` returns if it may nest k deep, `elements[k]` the k-th schema on the way
through arrays of arrays. `Broken`, `Met`, `Lasting` and `Elements` say of a description as a
graph what it leads to, without resolving anything; they are what the properties compare the code with. `Chunker` takes the documents in
order: `OpenMarkdown`, `MarkdownLine`, `EndMarkdown`, and `ChunkYaml`, which drops the file if
anything in it raised.

**Installation, Setup, Supervisor, RunService.** The machine is `binary`, `env` (the lines of
`.env`), `venv`, `ollama`, `model` (the right one, only another tag of its name, which
`is_ollama_model_available` takes for it, or none) and `index`. `Escaped` is what `quote_env_value` makes of a token;
reading the line again does not undo it. `setup` names the step that `run_setup` is at; a step
succeeds, fails from outside (`fault` records it) or is cut off by `InterruptSetup`. Rewriting `.env`
truncates it and leaves the new lines in `pending` until `FillEnv`: an interrupt in between loses
them, and `LoadEnv` of a session may read the empty file. In `Supervisor`, `at[s]` is where the
script in terminal `s` is, from `load` (`load_env_file`) to `waiting` (the wait in `stop_process`),
`svc[s]` its service process with the states `ServerMain` gives it, `child[s]` how its last question
ended. `CtrlC` signals the script, service and child of a terminal; where it finds the script
outside the `try` block the script just ends. `Killed` is a script that is killed alone. `stored` (the
token `.env` held when the session began) and `how` (how the script ended) are history variables.

## 3. What the runs show

| Run | Instance | What holds, or fails |
|---|---|---|
| `repo_solo` | `MCRepoSolo`: 1 process, 2 notes, 2 bodies, all faults but `stat` and `readdir` | listings exact, a call publishes only its own note |
| `repo_split` | `MCRepoSplit`: 2 processes, each writing one note and reading both, `io` and crashes | without a lock, files are whole and `NoteStore` is implemented; what `stat()` reported still holds when used |
| `repo_contended` | `MCRepoContended`: 2 processes writing one note, 2 bodies, all faults but collisions | a note vanishes only by a delete that succeeds; one that is not there appears only by a create, or by an update whose note a delete removed after the update had seen it; every call returns |
| `service` | `MCService`: 1 process, 2 notes, a valid, a tagged and an invalid body | replies are true, errors change nothing (as far as they can), only valid notes stored, only the addressed note changed, every request answered |
| `server` | `MCServer`: 2 connections, 3 contexts, body pieces of 1023 and 1024 bytes up to 4200 | contexts live and unshared, body in its buffer, nothing destroyed in use, process ends |
| `router` | `MCRouter`: all URLs of up to 4 characters, arguments of up to 3, allocations may fail | routing, the tag, decoding, buffers |
| `index` | `MCRagIndex`: 2 index commands, 3 states of the documents, batches of 2, one asker | embeddings aligned, old index spared, rebuild whole, answers unmixed, numbering consistent, build ends |
| `chunking` | `MCChunking`: up to 2 of 4 documents, markdown of 4 to 6 lines, YAML with references in every direction and values of the wrong type | sections follow the outline, splitting loses only what it may, ids distinct, a file dropped exactly if it is broken in a listed way, parameters listed |
| `script` | `MCScript`: 2 set-ups, one terminal, 4 first contents of `.env` | a completed set-up is usable, only a half-made virtual environment or another tag of the embedding model blocks it, the stored token is used, nothing left running, stopping ends |
| `router_twice` | `MCRouterTwice`: as `router` | **violated**: a tag with `+` or `%` is decoded twice |
| `index_stale` | `MCRagIndexStale`: as `index`, deleting the collection may fail | **violated**: a rebuild reports success over the old index |
| `setup_venv` | `MCScriptVenv`: as `script` | **violated**: set-up fails although nothing goes wrong, over what an earlier one left of a virtual environment |

The modules are `MCNotesRepository`, `MCNotesRaces`, `MCNotesService`, `MCServerMain`, `MCHttpRouter`, `MCRagIndex`,
`MCChunker` and `MCRunService`. No run checks the type invariants of the repository, the service, the
index and the script: they are theorems.

The violated properties state what a header, a docstring or a document says; `findings` in
`PROJECT.json` quotes them. Four more things the models can do and the properties avoid or name: two
processes that write one note may bring back a deleted one, because an update looks for its note long before it
renames its file over it (`notes_repository.c:275-286`), and publish half of one, because they share the name of
the temporary file (`docs/architecture.md:121` says such processes are not coordinated), which is
why most properties of the repository assume one writer per note, and `repo_contended` says what
holds without; a `readdir()` that fails ends a
listing early with `RETCODE_OK`; a failing system call is answered as an internal error; and
`is_ollama_model_available` takes any tag of the embedding model for it (`run_service.py:294`), so that on a machine with only
another tag set-up pulls nothing and every run of it fails at the index step, although `README.md:30` of the repository has it pulled
"if missing". That a
missing note is answered with 500 instead of 404 is recorded in `docs/known_issues.md`.

Some statements are weaker than one might expect, because the code is. When memory runs out after
a write, the client may be told "Internal error" or "Out of memory" although the note is stored
or gone (`ErrorsChangeNothing` excludes these answers). When the tag cannot be decoded for lack of
memory the listing is not filtered (`TagIsTheOneAsked` allows no filter, but never a wrong one). And
two hold under a condition on the input: the ids of a YAML file are distinct as long as it spells each
method once, and those of two YAML files may coincide, since they do not name it; a session uses the stored token if `.env` assigns it once
and not in single quotes, since set-up looks at the first line and the session at the last.

What the runs leave open of a hazard is noted with it in `PROJECT.json`. In short: with one writer per note nothing can come
between a check and its use, so `CheckStillHolds` shows that each call does check and that a call disturbs no check
of another; `OwnVectors` is about answers that are too short, not about a long one that makes up
for one; a `.env` that is cut off while it is written is met only before there is a token in it; and that
every process in a terminal gets its Ctrl+C is taken as given.

**Bounds.** Two processes are the fewest that interfere, and the repository treats each id
separately, so one contended note and two owned ones show each kind of interference; two notes
make a listing more than one step, and two bodies make an update visible. One process suffices for
the service: handlers share nothing in memory. Two connections and three contexts are enough for a
context to be left behind by one request and another to be reused; pieces of 1023 and 1024
bytes reach every doubling of the 1024 byte buffer exactly, one below and one above. URLs of four
characters reach "/notes/n/" and "?" in every place; `InitialCap` is 4 instead of 128 so that short
arguments cross several doublings. Two builds are what is needed for an old index to be there, and
three parts with batches of two for a batch to be split and for an incomplete last one; `TopK` and
`MaxContext` are 2 so that candidates and blocks are cut off. Five lines are enough for a fenced block
that holds a heading between two others and for headings that skip levels, six for a table with a
section around it, four for facts with something between them; two documents for two files of one kind of ids. The YAML instances contain
two schemas that refer to each other and to themselves in every way, one that refers to what is no schema,
a shared parameter and one given by its place in a list, and each way a value of the wrong type makes the code raise, beside one
that does not; a `RecursionLimit` of 64 is more than any of them needs, so that only
recursion without end meets it (`Readable`, which TLC checks of each). Two
set-ups are needed for one to find what another left; two terminals with two set-ups are beyond
TLC, so that the properties of several sessions at once rest on the theorems. `MaxLines`, `MaxFiles`,
`MaxSetups`, `MaxUrl`, `MaxValue`, `MaxBody` and
`MaxBuilds` are the names of the bounds. The repository's and the service's states are finite by
themselves. `MCServer.cfg`, `MCChunking.cfg`, `MCScript.cfg` and `MCScriptVenv.cfg` turn off the deadlock
check, because the process exits, the documents are all chunked or the last set-up has ended; all
other runs check it.

**Fairness.** *Repository and service:* weak fairness of a process's own steps (`Step`, `Return`,
`Work`): the polling thread keeps executing the call it is in, and system calls return. Clients are
never obliged to send anything, processes never obliged to crash. *Server:* weak fairness of
`main` and of each handler's return, and strong fairness of `Stop`: the polling thread looks at its
order to end after every round over its connections, so a client that keeps it busy disables the
join again and again but not for good. *Index:* weak fairness of the build: each request to Ollama
has a timeout, and Chroma's calls are local. Nobody has to ask. *Script:* weak fairness of the script's own steps
in `stop_process`, each of whose waits has a timeout; nothing is assumed of the service, which may
hang.

## 4. What is proved

| Theorem | Statement | Assumes besides the constants' types |
|---|---|---|
| `TypeCorrect` | type invariant of the repository | - |
| `VanishOnlyByDelete` | a note disappears only by a delete that succeeds | - |
| `PublishedNotesWhole` | every note file is a whole note of its own name | one writer per note |
| `ChecksHold` | what `stat()` reported holds until it is used | one writer per note |
| `ReturnNeedsARace` | a note that is not there appears only by a create, or by an update whose note a delete removed, answering OK, after the update had seen it | - |
| `PublishesOwn` | a note changes only by the successful call it belongs to | one writer per note |
| `ListingsAreExact` | a listing holds exactly the matching notes, among those of its own process | one writer per note, the directory is read without error |
| `RepositoryImplementsStore` | the repository implements `NoteStore` | one writer per note, `stat()` never fails on a file that is there |
| `ServiceTypeCorrect` | type invariant of service and repository, documented responses only | - |
| `ServiceUsesRepository` | every behaviour of the service is one of the repository | - |
| `OnlyValidNotes` | no note without title or content is stored | - |
| `OnlyAddressedNotes` | a request changes only the note it addresses | one writer per note, `stat()` as above |
| `TrueReplies` | a response that reports success reports what is stored | as `ListingsAreExact` |
| `HarmlessErrors` | an error response changed nothing, as far as memory does not run out | as `ListingsAreExact` |
| `LiveContexts` | a callback finds no context, or one that is allocated and its own | - |
| `ContextsAreFreed` | a request that reaches its handler frees its context | - |
| `NothingInUseDestroyed` | `main` destroys nothing while a handler runs | - |
| `UsersGoFirst` | components are taken down in reverse order | - |
| `BodiesFit` | a body and its null byte fit the buffer, and a complete one holds every byte received | - |
| `RouterTypeCorrect` | type invariant of the router | - |
| `QueriesFit` | the rebuilt query and its null byte fit the buffer | - |
| `RoutesRight` | a request is served by the handler that belongs to its method and path, an item handler gets the id in the path, and 404 and 405 are answered only where they belong | when memory is short, 404 may be answered for any path (in the property) |
| `FirstTagDecides` | a listing is filtered by the first tag asked for, and by no other | keys and values without `+`, `%` and `&`, a query put together by the server and not cut out of the URL; without memory the filter may be lost (in the property) |
| `DecodingUndoesEncoding` | decoding the percent-encoding of a value gives the value back | - |
| `BuffersFreed` | path, query and URL buffers are freed exactly once | - |
| `IndexTypeCorrect` | type invariant of index, embedder and question | - |
| `VectorsAreOwn` | a stored chunk carries the embedding of its own text | - |
| `OldIndexSurvives` | the old index goes only when the new one is embedded | - |
| `RebuildsAreWhole` | a rebuild that succeeds leaves its own chunks and no others | deleting the collection does not fail, chunk ids are unique |
| `SourcesAreNumberedAlike` | the sources printed are numbered as the prompt numbered them | - |
| `AnswersFromOneIndex` | an answer is not mixed from two states of the documents, unless somebody indexes with `--no-reset` | as `RebuildsAreWhole` |
| `OutlineFollowed` | one section for each heading, under its own headings, with the lines up to the next | - |
| `NothingElseIsLost` | cutting up a glossary or a list of facts loses only what follows the table or is no fact, and doubles nothing | - |
| `ReadsMarkdown` | chunking documents implements the reader of markdown files the two theorems above are about | - |
| `IdsAreDistinct` | chunks of a document have ids of their own, those of markdown differ from those of every other document, each operation counted has a chunk | a YAML file with each method spelled once (in the property) |
| `OnlyTheBrokenAreDropped` | a YAML file is left out if and only if it is broken in one of the listed ways | the description is `Readable`, see below |
| `ParametersAreSaid` | the text of an operation has each parameter once and says of it what references lead to | - |
| `ScriptTypeCorrect` | type invariant of set-up and sessions | - |
| `CompletedMeansUsable` | a set-up that says it is completed is usable | `.env` as below |
| `OnlyTheBlockedFail` | a set-up without a fault fails only over the rest of a virtual environment or another tag of the embedding model | - |
| `StoredTokenIsUsed` | a session uses the token that was stored when it was started | `.env` as below |
| `NothingIsLeftRunning` | a script that was not killed leaves no service serving and no child | - |

They hold for any processes, connections, contexts, sizes of the body, ids, bodies, tags,
documents, batch sizes, URLs, arguments and values of any length, first sizes of a buffer, markdown
files of any number of lines, readable YAML files with references in any direction, terminals, numbers of set-ups and contents of `.env` that assign the token
once at the most and not in single quotes (`EnvAssumption`), and for all faults the third column
does not exclude. Of the documents it is assumed that their paths differ (`NamesAssumption`), and that a
YAML file is `Readable` (`SpecsAssumption`). That is, `Finite`: a finite tree with room to spare below the recursion limit (how deep it is
times how many references it has, plus one each, is less than the limit, and so is the number of its
values); `PlainlyNamed`: no parameter is named or placed by a mapping or a list, the spelling of which is not modelled; and
`Untangled`: no schema is its own properties, no body its own content, and no type of a content that content or body, since
there the code sees a reference where the model looks through it.

*Repository.* `PublishedNotesAreWhole` is not inductive: whether `rename` publishes a whole note
depends on what the temporary file holds, and on nobody else having it open. The inductive
invariant `WriterInv` adds `OpFitsLabel` (which operation a process at a label executes),
`WritesAreOwn` (a process writes only its own notes) and `TmpIsMine` (from truncation to rename the
temporary file is its writer's, empty before the write and the whole note after it). The proof has
two halves: the step of a process keeps its own part (`StepKeepsMine`), and leaves the parts of all
others alone because their ids differ (`OthersUndisturbed`, from `WritersDiffer`). Without the
assumption `TmpIsMine` is false, and the torn file described above is the consequence. The action
properties follow from lemma `NoteChanges`, which says when a note file changes at all.
`ReturnNeedsARace` has no hypothesis on writers: its invariant `RaceInv` says that while an update is between its `stat()` and
its `rename()`, and no delete has overtaken it, its note is there, and that so is any note a process may still write
to through an open file; it rests on `NotesComeAndGo`: a note goes only by
a delete that answers OK.
`ListingIsExact` needs what has been collected so far: `ListingInv` says that among the notes of its own
process the listing holds exactly the matching ones whose names have been read. `ReturnInv` says what
any call that answered OK has done, and that its own notes stay so until it returns.

*Refinement.* A call of the store begins when the repository's does and is decided by the step
that fixes its result: for a create or an update the `rename`, for a delete the `unlink`, for
errors the failing step. `StepDecides` goes through the steps; listings map to stuttering. With
`stat()` failing on an existing file a create may overwrite a note, so the theorem excludes it.

*Service.* `ServiceInv` links the phases of a request to the state of its repository call
(`Linked`): a call is under way only in phase `repo`, and it is the request's operation on the
request's id. That makes each step of the service a step of the repository, hence
`ServiceUsesRepository`, and lets the repository's theorems be used for the service.
`StoredNotesAreValid` needs no assumption on writers: what may land in a file by a race is always
something some request wrote, and all of it was validated. `AnswerInv` adds what a response says:
until the repository call of a request answers OK the request has changed nothing, and from then on
nobody changes what the response is about. `RepliesAreTrue` and `ErrorsChangeNothing` are its two ends.

*Server and main.* The two sides do not depend on each other's state, so each has its own
invariant. `ContextInv` is `ContextsAreLive` with the types of `conn` and `conCls`: every callback
that drops a connection clears its `con_cls`, and frees at most the context it held. `LifeInv` says
that `alive` is always the first n components, that the daemon runs only when all of them are alive
and `main` is serving or cleaning, and that handlers run only while it does. Without "the first n"
`NextToDestroy` need not be the last one built, and nothing relates `alive` to the daemon. That
`BuildKeeps` and `DestroyKeeps` preserve it rests on `BuiltSize`, the cardinality of a prefix.
`BodyInv` adds to `ContextInv` that a buffer counts what its connection has sent; no two connections
share one, so a piece appended for one leaves the others alone. That doubling ends with a buffer that
is large enough is `EnoughIsEnough`.

*Loops.* The loops of the code are recursive functions here. What such a function computes for every
argument is proved without an induction theorem, by least counterexamples: the arguments that are wrong
are a set of natural numbers, and if it were not empty its least member would contradict the step of
the loop. `LoopProofs` has what several components need: doublings (`DoubledGrows`, `EnoughIsEnough`),
that a function defined by recursion exists and has the type of its steps (`LoopExists`, `LoopType`),
and where the parts of a joined sequence stand (`FlattenIs`).

*Router.* Four invariants, one for each property. `FitInv` is the types with `QueryFits`. `HeldInv`
counts what is allocated at each stage, which is what `CleanUp` has to free. `RouteInv` says that the
tag is looked for only on the path of the collection; the routes themselves come down to where the
slashes of a path are (`FewSlashes`, `ManySlashes`, `ServedIs`). `TagInv` says what the query says while it is
being built: if the keys and values appended so far are plain, its first pair with the key "tag" holds
the value of the first of them that is a tag. Pairs are positions in the text between two "&"
(`PairIs`, `JoinedPairs`), so that `TagAppended` has to show only that appending one more argument keeps
the old pairs and adds one; `DecodePlain` says that decoding leaves plain text alone. That decoding undoes
encoding says nothing of steps but of `UrlDecode`: `Decodes` is its loop from each position to the
end, `EncodedRead` that at the code of a character it reads just that code and writes the character,
and `DecodeEncoded` puts the codes together.

*Index.* That an embedding is that of its text is a fact about positions. `EmbedderInv` says that
the slices in `pending` are contiguous and end with the last text (`InOrder`), that there are at
most as many embeddings as texts before them, and that if there are as many, each is that of the
text at its place: an answer that is too short makes the count fall behind for good, which is why
comparing the two lengths at the end is enough. `BatchesInOrder` (any number of texts, any batch
size), `HalvesInOrder` and `RestInOrder` preserve the order. `IndexInv` links this to the chunks
of the build; `OldIndexSurvives` follows, since only the deletion removes chunks and it comes
after the comparison. `RebuildInv` says that from the deletion on the collection holds the chunks
added so far; questions may open it, but add nothing. When the deletion fails the code goes on,
and run `index_stale` shows that the theorem needs its hypothesis.
That the chunks of documents are a sequence of parts of them is `ChunksOfDocuments`.
`ShownInv` says that no chunk is blank and that the prompt is numbered in the order of its ranks; both
numberings, the prompt's and that of the sources, then skip nothing and agree (`NumberedAnew`,
`UsedInRankOrder`). `OneInv` says that the collection holds chunks of one state of the documents unless it
has been kept, and that as long as the collection a question was begun with is there, it has what the
question found in it: between its two reads an index command may add chunks of the same state, or put
a new collection in its place, but then the second read fails. With ids that are not unique a chunk could be
shadowed by another, and with a deletion that fails two states are mixed, hence the hypotheses.

*YAML.* `OperationsSayTheirParameters` and `DroppedExactlyIfBroken` relate what the code
computes by resolving references in place to the description as a graph. Both follow from facts about one call of
`deep_resolve`: `R[k][<<n, s>>]` is what it returns for value n nesting k deep with the references s
being resolved already, `ReturnsIs` its definition in a form the provers can use. That it raises exactly if it
meets a pointer that leads nowhere is `ResolvesIff`: one half by the least depth at which it could
be otherwise, the other (that circles end and the limit is not met) because each reference resolved
leaves one fewer to resolve, and each step down one level fewer below (`LeadingResolves`, by `Rank`).
What is resolved is told apart from what the references lead to in nothing that is looked at: `Paired` says so of two
values, `ResolvedIsPaired` that `deep_resolve` makes such pairs, a chain of references becoming its end or, if it has none, one
of its members. That only references back to themselves are left is `ResolvedLeadsBack`: those being
resolved lie on a circle through each of them. Summaries of paired schemas raise alike (`SummaryAlike`), and
one raises exactly if arrays of arrays go on without end or lead to something `Misshapen`
(`SummaryIff`); that the contents of paired bodies have paired schemas is `ContentAlike`; `MergeIs` is the dict of `merge_parameters`. `BrokenIs` puts this together.
`ChunkerInv` adds what the steps contribute: documents are taken once each and in order, so that the names in the ids of
markdown chunks differ, and the last result is that of the YAML file chunked last.

Proving the two properties showed that earlier forms of them, which TLC had found true on its
instances, were false of other descriptions: an object whose properties are not a mapping, a component
schema that is a reference to something else, a type that is itself a reference, a path's parameter that is replaced although
its schema cannot be described, or a mapping whose key is "schema" but which is no parameter. The
properties now say what the code does with each, and the instances contain the first four. Others had been
left out of model and property alike: values that cannot be looped over or joined, names that are no text, and a `$ref` beside
other keys. `ChunkIdsDistinct`
had been stated of all results at once, and is false if an earlier YAML file spelled a method twice.

*Markdown.* `MarkdownSpec` is the reader of sections alone, the files being read one after the other;
every step of `Chunker` changes those variables by one of its steps or not at all, which is theorem
`ReadsMarkdown`. `OutlineInv` says
that the stack holds the open headings, in order, that the section being read is that of the last heading
and the complete ones those of the headings before it, each with its own path and lines. Whether a line is in a
fence is the parity of the fences before it (`FenceToggles`); that popping the stack leaves just the
headings above the new one is `KeptAreOpen`. `SplittingLosesOnlyTheRest` is then a fact about the operators
applied at the end of the file. A section's first line is no heading, so that what is cut up is the body
of the section however its headings are written (`BodyLinesIs`); what the two splits take out of it is
`Splits`, proved of each (`FactsSplit`, `GlossarySplit`); that the pieces of one section share no line is
`PiecesDivide`, and those of different sections share none because a line follows one heading only (`UnderOne`).

*Script.* The inductive invariant `Inv` is `SetupInv` and `SessionInv`. The first says that lines
for `.env` are pending only while a set-up runs, the file being empty then (`EnvInv`), and that what
the steps behind a set-up have done is still done (`DoneInv`). It says nothing of the packages before
the end: that their installation failed is dropped, but only a complete environment gets through
the index step, and only with the right model. `VenvInv` says what a set-up without a fault has got past: an environment
that is half made and has an interpreter passes every step but the last. The second says what runs at each label of the script (`ProcessInv`) and
that as long as a session runs whose token was stored, `.env` holds that token (`TokenInv`).
`TokenInv` is the link between the two: a set-up beside the session truncates `.env` only if there is no
token in it (`SetupKeepsToken`; that set-up and session agree on whether there is one is
`PlainToken`, and needs `.env` to have one line for the token). The sessions of several terminals
share nothing but the machine and the port, so each step keeps its own terminal's part and leaves
the others alone (`SessionTypes`, `SessionKeeps`).

Only model-checked: the liveness properties (`EveryCallReturns`, `EveryRequestAnswered`,
`ShutsDown`, `BuildEnds`, `StopEnds`), since fairness and `ENABLED` are out of the prover's reach. Every
safety and action property a passing run checks is a theorem.

## 5. What is not modelled

- JSON conversion of notes: its layout is no part of any property here. The ownership of strings
  and JSON values when memory runs out (`note.c`, parts of `notes_handler.c`) needs a model of the
  heap; the hazard is listed without a property.
- Power failure: a process may die, the machine may not. The code does not `fsync`, so a note may be
  empty afterwards, and no property could exclude that.
- Two index commands at the same time.
- Relevance scores; the exchange with the hosted model beyond whether it accepts the token; argument
  parsing; the wording of chunks, prompts, logs and messages; the commands with which the chunkers
  export chunks to files.
- Of YAML files: values beyond the core types (sets, binary data), aliases that make a value a part of itself, parameters named by
  mappings or lists, and descriptions that are not `Untangled`.
- `.env` files with several lines for the token, or one in single quotes.
- libmicrohttpd, Chroma, Ollama, pip, apt and the operating system are external: modelled by what the
  code relies on, and marked so in `PROJECT.json`.

## 6. Plan

Done, in this order: repository, store, refinement, service, server, main, router, embedder, index,
chunkers, script. What would be next:

1. `NoteHeap`: who owns the strings and the JSON values of a note when an allocation fails
   (`noteSetTags`, `noteToJson`, the array built by the list handler).
2. `NoteJson`: that a note survives being stored and loaded, and what the validation accepts
   compared with `docs/api.md`.
