------------------------------ MODULE RagIndex ------------------------------
(***************************************************************************)
(* The document index of the assistant: `index` builds it                  *)
(* (assistant/rag/retriever/indexer.py) while `ask` reads it from another  *)
(* process (retrieval.py, prompt_builder.py, assistant_service.py).  Both  *)
(* go through ChromaVectorStore (vector_store.py).                         *)
(*                                                                         *)
(* Chroma is external.  A collection has an identity besides its name:     *)
(* a handle on a deleted collection makes every call on it raise.  Adding  *)
(* an id that is there leaves the stored chunk alone.                      *)
(***************************************************************************)
EXTENDS Embedder, FiniteSets, FiniteSetsExt

CONSTANTS
    Corpora,      \* states of the documents, each a sequence of
                  \* [ok, parts]: whether the chunker can read the document,
                  \* and its [id, text] parts
    Blank,        \* the text that is empty once stripped
    DbBatchSize,  \* db_batch_size, 128
    TopK,         \* top_k, 5
    Cost,         \* Cost[t]: characters of the prompt a chunk with text t takes
    MaxContext,   \* max_context_chars, 6000
    MaxBuilds,    \* bound: number of index commands
    Faults        \* "delete": deleting the collection may fail

\* The documents, and what they hold
Documents == UNION {Range(docs) : docs \in Corpora}
Parts == UNION {Range(doc.parts) : doc \in Documents}

ASSUME RagAssumption ==
    /\ Corpora # {} /\ \A docs \in Corpora : docs \in Seq(Documents)
    /\ \A doc \in Documents : doc.parts \in Seq(Parts)
    /\ \A p \in Parts : p = [id |-> p.id, text |-> p.text]
    /\ DbBatchSize \in Nat \ {0}
    /\ TopK \in Nat /\ MaxContext \in Nat /\ MaxBuilds \in Nat
    /\ \A t \in DOMAIN Cost : Cost[t] \in Nat
    /\ Faults \subseteq {"delete"}

VARIABLES
    coll,       \* [id, there, items]: the collection of that name; items are
                \* [id, text, vector], vector the text whose embedding it is
    job,        \* where build_rag_index is: "none", "embed", "open", "delete",
                \* "create", "add", "done" or "failed"
    chunks,     \* the chunks it has made, [id, text]
    reset,      \* not --no-reset
    target,     \* its handle
    added,      \* how many chunks it has added
    builds,     \* how many have been started
    ask,        \* where answer_question is: "idle", "query", "get",
                \* "generate", "answered" or "failed"
    handle,     \* its handle
    semantic,   \* semantic_candidates
    prompt,     \* [number, chunk] of every [SOURCE n] block of the prompt; the
                \* numbers are in the order of the blocks
    sources,    \* the same of every line of the list printed under the answer
    kept        \* history: collections that a build without reset has written to

collVars == <<coll, kept>>
jobVars == <<job, chunks, reset, target, added, builds>>
askVars == <<ask, handle, semantic, prompt, sources>>
vars == <<coll, kept, job, chunks, reset, target, added, builds,
          ask, handle, semantic, prompt, sources, embedderVars>>

TypeOK ==
    /\ EmbedderTypeOK
    /\ coll.id \in 0 .. MaxBuilds + 1 /\ coll.there \in BOOLEAN
    /\ job \in {"none", "embed", "open", "delete", "create", "add", "done", "failed"}
    /\ job \in {"add", "done"} => target \in 1 .. coll.id
    /\ added \in 0 .. Len(chunks)
    /\ builds \in 0 .. MaxBuilds
    /\ ask \in {"idle", "query", "get", "generate", "answered", "failed"}
    /\ ask \in {"query", "get", "generate", "answered"} => handle \in 1 .. coll.id
    /\ kept \subseteq 1 .. coll.id

Init ==
    /\ EmbedderInit
    /\ coll = [id |-> 0, there |-> FALSE, items |-> {}]
    /\ job = "none" /\ chunks = <<>> /\ reset = TRUE
    /\ target = None /\ added = 0 /\ builds = 0
    /\ ask = "idle" /\ handle = None /\ semantic = {}
    /\ prompt = {} /\ sources = {} /\ kept = {}

-----------------------------------------------------------------------------
\* A bug: chunks that are blank are indexed too.
WithBlanks(doc) == IF doc.ok THEN doc.parts ELSE <<>>

\* _chunk_markdown_document and _chunk_openapi_yaml_document leave out blank
\* texts; chunk_documents drops a document whose chunking raises.
ChunkDocument(doc) ==
    LET upTo[i \in 0 .. Len(doc.parts)] ==
            IF i = 0 THEN <<>>
            ELSE IF doc.parts[i].text = Blank THEN upTo[i - 1]
            ELSE Append(upTo[i - 1], doc.parts[i])
    IN  IF doc.ok THEN upTo[Len(doc.parts)] ELSE <<>>

ChunkDocuments(docs) == FlattenSeq([i \in DOMAIN docs |-> ChunkDocument(docs[i])])

\* client.get_or_create_collection
OpenedCollection ==
    IF coll.there THEN coll ELSE [id |-> coll.id + 1, there |-> TRUE, items |-> {}]

IsLive(h) == coll.there /\ coll.id = h

\* collection.add: chunks whose id is in the collection are ignored
Added(items, new) ==
    items \cup {c \in new : \A i \in items : i.id # c.id}

\* Chunks added once the next batch is: range(0, len(chunks), batch_size)
AddedAfter == IF added + DbBatchSize < Len(chunks) THEN added + DbBatchSize ELSE Len(chunks)

-----------------------------------------------------------------------------
\* build_rag_index up to its first request.  The documents may have changed
\* in any way since the last build.
Index ==
    /\ job \in {"none", "done", "failed"} /\ builds < MaxBuilds
    /\ builds' = builds + 1 /\ added' = 0 /\ target' = None
    /\ reset' \in BOOLEAN
    /\ \E docs \in Corpora : chunks' = ChunkDocuments(docs)
    /\ IF chunks' = <<>>
       THEN /\ job' = "failed"
            /\ UNCHANGED embedderVars
       ELSE /\ job' = "embed"
            /\ EmbedInBatches([i \in DOMAIN chunks' |-> chunks'[i].text])
    /\ UNCHANGED <<collVars, askVars>>

Embed ==
    /\ job = "embed"
    /\ EmbedderNext
    /\ UNCHANGED <<collVars, jobVars, askVars>>

\* A bug: the number of embeddings is not compared with that of the chunks.
Uncounted ==
    /\ job = "embed" /\ status \in {"embedded", "failed"}
    /\ job' = IF status = "embedded" THEN "open" ELSE "failed"
    /\ UNCHANGED <<collVars, chunks, reset, target, added, builds, askVars, embedderVars>>

\* embed_in_batches is over.
Embedded ==
    /\ job = "embed" /\ status \in {"embedded", "failed"}
    /\ job' = IF status = "embedded" /\ Len(embeddings) = Len(chunks) THEN "open" ELSE "failed"
    /\ UNCHANGED <<collVars, chunks, reset, target, added, builds, askVars, embedderVars>>

\* ChromaVectorStore(...)
OpenStore ==
    /\ job = "open"
    /\ coll' = OpenedCollection /\ target' = coll'.id
    /\ job' = IF reset THEN "delete" ELSE "add"
    /\ UNCHANGED <<kept, chunks, reset, added, builds, askVars, embedderVars>>

\* A bug: the collection is opened again without having been deleted.
KeepCollection ==
    /\ job = "delete" /\ job' = "create"
    /\ UNCHANGED <<collVars, chunks, reset, target, added, builds, askVars, embedderVars>>

\* reset_collection; an exception of delete_collection is dropped.
DeleteCollection ==
    /\ job = "delete" /\ job' = "create"
    /\ \/ coll' = [coll EXCEPT !.there = FALSE, !.items = {}]
       \/ "delete" \in Faults /\ UNCHANGED coll
    /\ UNCHANGED <<kept, chunks, reset, target, added, builds, askVars, embedderVars>>

CreateCollection ==
    /\ job = "create" /\ job' = "add"
    /\ coll' = OpenedCollection /\ target' = coll'.id
    /\ UNCHANGED <<kept, chunks, reset, added, builds, askVars, embedderVars>>

\* One collection.add of add_chunks; the last one ends the command.  Without
\* these conditions it raises (Die).
AddBatch ==
    /\ job = "add" /\ IsLive(target) /\ Len(embeddings) = Len(chunks)
    /\ LET batch == {[id |-> chunks[i].id, text |-> chunks[i].text, vector |-> embeddings[i]] :
                        i \in {j \in DOMAIN chunks : added < j /\ j <= AddedAfter}}
       IN  coll' = [coll EXCEPT !.items = Added(coll.items, batch)]
    /\ kept' = IF reset THEN kept ELSE kept \cup {target}
    /\ added' = AddedAfter
    /\ job' = IF AddedAfter >= Len(chunks) THEN "done" ELSE "add"
    /\ UNCHANGED <<chunks, reset, target, builds, askVars, embedderVars>>

\* An exception of Chroma's, an interrupt, or the end of the process
Die ==
    /\ job \in {"embed", "open", "delete", "create", "add"}
    /\ job' = "failed"
    /\ UNCHANGED <<collVars, chunks, reset, target, added, builds, askVars, embedderVars>>

-----------------------------------------------------------------------------
\* RagAssistantService(...)
Ask ==
    /\ ask \in {"idle", "answered", "failed"}
    /\ coll' = OpenedCollection /\ handle' = coll'.id
    /\ ask' = "query"
    /\ semantic' = {} /\ prompt' = {} /\ sources' = {}
    /\ UNCHANGED <<kept, jobVars, embedderVars>>

\* Items of a result: `near` is the text its distance was computed from.
Candidate(item, near) == [id |-> item.id, text |-> item.text, near |-> near]

Least(n, m) == IF n < m THEN n ELSE m
CandidateCount == IF TopK * 8 > TopK THEN TopK * 8 ELSE TopK

\* The candidate_count best of items; the scores are anything.
Best(items) == kSubset(Least(CandidateCount, Cardinality(items)), items)

\* _merge_candidates: by id, the lexical one takes the distance of the other.
Merged(near, lexical) ==
    {IF \E s \in near : s.id = l.id
     THEN [l EXCEPT !.near = (CHOOSE s \in near : s.id = l.id).near]
     ELSE l : l \in lexical}
    \cup {s \in near : \A l \in lexical : l.id # s.id}

\* The TopK best of the candidates; the scores are anything.
Ranked(candidates) ==
    {r \in [1 .. Least(TopK, Cardinality(candidates)) -> candidates] : IsInjective(r)}

\* build_rag_prompt: blocks for the chunks that are not blank, numbered by
\* their rank, up to the first that no longer fits.
UsedChunks(ranked) ==
    LET shown == {i \in DOMAIN ranked : ranked[i].text # Blank}
        upTo(i) == {j \in shown : j <= i}
        cost == [i \in DOMAIN ranked |-> Cost[ranked[i].text]]
        fits(i) == SumFunctionOnSet(cost, upTo(i)) <= MaxContext
    IN  {[number |-> i, chunk |-> ranked[i]] : i \in {k \in shown : \A j \in upTo(k) : fits(j)}}

\* _build_source_list: numbered anew
SourceList(used) ==
    {[number |-> Cardinality({d \in used : d.number <= b.number}), chunk |-> b.chunk] : b \in used}

Prompted(candidates) ==
    /\ ask' = "generate"
    /\ \E ranked \in Ranked(candidates) : prompt' = UsedChunks(ranked)

AskFails == ask' = "failed" /\ UNCHANGED <<semantic, prompt>>

\* embed_query and store.query; only a question about the API goes on to get_all.
Query ==
    /\ ask = "query"
    /\ IF IsLive(handle)
       THEN /\ \E near \in Best(coll.items) :
                   semantic' = {Candidate(i, i.vector) : i \in near}
            /\ \/ ask' = "get" /\ UNCHANGED prompt
               \/ Prompted(semantic')
       ELSE AskFails
    /\ UNCHANGED <<collVars, jobVars, handle, sources, embedderVars>>

GetAll ==
    /\ ask = "get"
    /\ IF IsLive(handle)
       THEN /\ \E best \in Best(coll.items) :
                   Prompted(Merged(semantic, {Candidate(i, None) : i \in best}))
            /\ UNCHANGED semantic
       ELSE AskFails
    /\ UNCHANGED <<collVars, jobVars, handle, sources, embedderVars>>

\* generator.chat, and the list of sources for what was used
Generate ==
    /\ ask = "generate" /\ ask' = "answered"
    /\ sources' = SourceList(prompt)
    /\ UNCHANGED <<collVars, jobVars, handle, semantic, prompt, embedderVars>>

\* Ollama or the hosted model fails.
Refused ==
    /\ ask \in {"query", "generate"} /\ AskFails
    /\ UNCHANGED <<collVars, jobVars, handle, sources, embedderVars>>

-----------------------------------------------------------------------------
Building == Embed \/ Embedded \/ OpenStore \/ DeleteCollection \/ CreateCollection \/ AddBatch
Asking == Ask \/ Query \/ GetAll \/ Generate \/ Refused

Next == Index \/ Building \/ Die \/ Asking

\* Every request to Ollama has a timeout, and calls of Chroma end: a build
\* that has begun goes on.  Nobody has to ask, or to build.
Spec == Init /\ [][Next]_vars /\ WF_vars(Building)

-----------------------------------------------------------------------------
\* Every stored chunk carries the embedding of its own text, whatever was
\* split, retried or cut short on the way (embedder.py:133-174, indexer.py:93).
OwnVectors == \A i \in coll.items : i.vector = i.text

\* A rebuild throws the old index away only once it has every embedding of the
\* new one: a build that fails before leaves the assistant as it was
\* (indexer.py:79-102).
OldIndexKeptUntilEmbedded ==
    [][~ coll.items \subseteq coll'.items => status = "embedded" /\ embeddings = texts]_vars

\* When a rebuild reports success the index is what it made of the documents,
\* and nothing of an older index, of an interrupted build or of a question that
\* opened the collection in between (vector_store.py:47 "Recreate the
\* collection from scratch.").
RebuildIsWhole ==
    job = "done" /\ reset =>
        /\ IsLive(target)
        /\ coll.items = {[id |-> c.id, text |-> c.text, vector |-> c.text] : c \in Range(chunks)}

\* Unless somebody builds with --no-reset, all a question is answered from
\* belongs to one state of the documents, and a distance shown with a chunk is
\* that of its text, although the index may be rebuilt between the two reads
\* (retrieval.py:184-210).
AnswerFromOneIndex ==
    LET given == {b.chunk : b \in prompt}
    IN  ask \in {"generate", "answered"} =>
            /\ \A c \in given : c.near \in {c.text, None}
            /\ handle \notin kept =>
                   \E docs \in Corpora :
                       {[id |-> c.id, text |-> c.text] : c \in given} \subseteq Range(ChunkDocuments(docs))

\* [SOURCE n] in the prompt and in the answer is line n of the sources printed
\* under it, although the two are numbered apart (prompt_builder.py:52-69,
\* assistant_service.py:37-55).
SourcesMatch == ask = "answered" => sources = prompt

\* An index command ends, however often batches time out (embedder.py:157-174).
BuildEnds == (job = "embed") ~> (job \in {"done", "failed"})
=============================================================================
