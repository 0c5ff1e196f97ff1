-------------------------------- MODULE Chunker --------------------------------
(***************************************************************************)
(* load_documents (document_loader.py) and chunk_documents (chunker.py):   *)
(* the documents under docs are cut into chunks one after the other,       *)
(* markdown files as MarkdownSections says, YAML files as OpenApiChunks    *)
(* says.  A document whose chunking raises is left out without a word.     *)
(***************************************************************************)
EXTENDS MarkdownSections, OpenApiChunks

CONSTANTS
    Names,      \* the files under docs, sorted; those of DOMAIN Lines are
                \* markdown, the others YAML
    Specs,      \* what a YAML file may hold: a value, or Raised if it is not YAML
    MaxLines,   \* bound: MaxLines[name] lines of a markdown file
    MaxFiles    \* bound: number of documents

ASSUME NamesAssumption ==
    Names \in Seq(STRING) /\ \A i, j \in DOMAIN Names : Names[i] = Names[j] => i = j

ASSUME SpecsAssumption == \A s \in Specs : s = Raised \/ Readable(s)

VARIABLES
    documents,  \* the documents still to be chunked
    reading,    \* whether the first of them is being read, a markdown file
    spec,       \* the YAML file chunked last, Null before one is
    chunks,     \* what it became
    result      \* the ids of each document's chunks, [name, count, ids]

vars == <<mdVars, documents, reading, spec, chunks, result>>

Markdown == DOMAIN Lines

-----------------------------------------------------------------------------
\* load_documents: a file that is blank is not a document.
Loaded(S) == Picked(Names, {i \in DOMAIN Names : Names[i] \in S})

Init ==
    /\ \E S \in SUBSET Range(Names) :
          Cardinality(S) <= MaxFiles /\ documents = Loaded(S)
    /\ MarkdownInit(None) /\ reading = FALSE
    /\ spec = Null /\ chunks = {} /\ result = <<>>

\* result.extend; what is not extended by is left out.
Extend(ids, count) ==
    /\ result' = Append(result, [name |-> Head(documents), count |-> count, ids |-> ids])
    /\ documents' = Tail(documents)

\* _chunk_markdown_document begins.
OpenMarkdown ==
    /\ documents # <<>> /\ Head(documents) \in Markdown /\ ~reading
    /\ MarkdownReset(Head(documents)) /\ reading' = TRUE
    /\ spec' = Null /\ chunks' = {} /\ UNCHANGED <<documents, result>>

MarkdownLine ==
    /\ reading /\ Len(lines) < MaxLines[file]
    /\ ReadLine
    /\ UNCHANGED <<documents, reading, spec, chunks, result>>

\* The file ends.  An id is a digest of its name, the place of the chunk and
\* its text.
EndMarkdown ==
    /\ reading
    /\ Extend({<<"markdown", file, n>> : n \in DOMAIN MarkdownChunks}, Len(MarkdownChunks))
    /\ MarkdownReset(None) /\ reading' = FALSE
    /\ UNCHANGED <<spec, chunks>>

\* _chunk_openapi_yaml_document reads the file again, whatever it is by now.
ChunkYaml(s) ==
    /\ documents # <<>> /\ Head(documents) \notin Markdown
    /\ spec' = s
    /\ chunks' = LET all == AllChunks(s) IN IF Raised \in all THEN {} ELSE all
    /\ Extend({c.id : c \in chunks'}, Cardinality(chunks'))
    /\ UNCHANGED <<mdVars, reading>>

Next == OpenMarkdown \/ MarkdownLine \/ EndMarkdown \/ (\E s \in Specs : ChunkYaml(s))

Spec == Init /\ [][Next]_vars
-----------------------------------------------------------------------------
\* The operations the metadata chunk counts are those a chunk is made of, once
\* each, unless the description gives something else for one or gives one twice
\* (chunker_yaml.py:9, 520-527).
Regular(api) ==
    \A o \in MethodKeys(api) :
        /\ o \in OperationKeys(api)
        /\ \A k \in DOMAIN Methods :
              <<o[1], k>> \in MethodKeys(api) /\ Methods[k] = Methods[o[2]] => k = o[2]

\* The chunks of a document all have ids of their own, and none that a chunk of
\* another document has, if one of the two is markdown, so that the index keeps
\* every one of them (vector_store.py:75 hands them to Chroma by id): those of a
\* YAML file unless it spells a method twice.  The ids of two YAML files do not
\* name them and may be the same.  There is one chunk for each operation that
\* is counted.
ChunkIdsDistinct ==
    /\ \A n \in DOMAIN result :
          \/ result[n].name \in Markdown
          \/ n = Len(result) /\ spec # Null /\ Regular(spec)
          => Cardinality(result[n].ids) = result[n].count
    /\ \A m, n \in DOMAIN result :
          m # n /\ {result[m].name, result[n].name} \cap Markdown # {} =>
              result[m].ids \cap result[n].ids = {}
    /\ spec # Null /\ Regular(spec) =>
          \A c \in chunks : c.id[1] = "meta" =>
              c.operations = Cardinality({d \in chunks : d.id[1] = "operation"})

\* A YAML file with a description as Readable says is left out of the index, all
\* of it, exactly when
\*   - it is no mapping, or its components are none (chunker_yaml.py:54-55, 684);
\*   - a path with a method or a schema has a name that cannot be joined to an
\*     id or encoded (125-126);
\*   - the parameters of a path or an operation cannot be looped over, or the
\*     tags of an operation not be joined (371-372, 408-409);
\*   - a reference that is looked at leads nowhere (82-85);
\*   - a component schema is a reference to something else than a mapping, or
\*     what it requires cannot be joined (450, 460-461);
\*   - a schema that is summarised is an array of arrays without end, or comes to
\*     an object whose properties are no mapping or to a "$ref" beside other keys
\*     that is no text (226-255).
\* No other shape of it makes the chunker raise, and none of these gets through
\* in part (chunker.py:137-140).
DroppedExactlyIfBroken ==
    spec # Null => (chunks = {} <=> Broken(spec))

\* The only references left are those that lead back to themselves.
Resolved(refs, n) ==
    \A t \in Pointers(n) : t \in Met(refs, Pointers(refs.at[t]))

\* The text of an operation lists each parameter of the operation and of its
\* path once, with the operation's own in place of the path's of the same name
\* and place, also where either is a reference, and says of it what references
\* lead to (chunker_yaml.py:364-367).
OperationsSayTheirParameters ==
    \A o \in OperationKeys(spec) : \A c \in chunks :
        c.id = IdOf("operation", Methods[o[2]], o[1]) /\ c.key = o[2] =>
            LET refs == RefMap(spec)
                listed == Listed(spec, o[1], o[2])
                lasts == Lasting(refs, listed)
            IN  /\ Len(c.params) = Cardinality(lasts)
                /\ \A i \in lasts : \E n \in DOMAIN c.params :
                      LET end == Chased(refs, listed[i])
                      IN  /\ DOMAIN c.params[n].map = DOMAIN end.map
                          /\ \A k \in DOMAIN end.map : TextAt(refs, c.params[n], k) = TextAt(refs, end, k)
                          /\ Resolved(refs, c.params[n])
=============================================================================
