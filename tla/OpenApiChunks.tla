----------------------------- MODULE OpenApiChunks -----------------------------
(***************************************************************************)
(* The OpenAPI chunker (assistant/rag/retriever/chunking/chunker_yaml.py): *)
(* which chunks a description of the API becomes, and what they say of     *)
(* parameters and schemas once references are resolved.                    *)
(*                                                                         *)
(* A YAML value is a mapping, a list, a text, null, or a number, by which  *)
(* any other plain value is meant (a truth value, a date), told by how     *)
(* Python spells it.  {"$ref": pointer} is a reference; a pointer is the   *)
(* sequence of the keys and places after "#/", at least one, and anything  *)
(* else under a lone "$ref" is a pointer that leads nowhere.  No two ways  *)
(* into a value are spelled alike.  An exception is the value Raised.  The *)
(* order in which mappings are visited is left out, except for parameters. *)
(*                                                                         *)
(* What has been resolved is not resolved again here: that only unfolds    *)
(* the references left in it, which lead back to where they stand, and     *)
(* those are looked through instead (Chased).                              *)
(***************************************************************************)
EXTENDS Integers, Sequences, SequencesExt, FiniteSets, FiniteSetsExt, TLC

CONSTANTS
    RecursionLimit, \* how deep calls nest before a RecursionError
    OtherKeys       \* keys of mappings, by their spelling, that are no text or
                    \* one that cannot be encoded

ASSUME RecursionLimitAssumption == RecursionLimit \in Nat

Map(f)  == [map |-> f]
List(s) == [list |-> s]
Text(v) == [text |-> v]
Ref(p)  == [map |-> [key \in {"$ref"} |-> [pointer |-> p]]]
Number(v) == [number |-> v]
Null    == [null |-> TRUE]
Raised  == [raised |-> TRUE]
NoKeys  == Map(<<>>)

IsMap(n) == "map" \in DOMAIN n
IsList(n) == "list" \in DOMAIN n
Get(n, key, default) == IF IsMap(n) /\ key \in DOMAIN n.map THEN n.map[key] ELSE default
Items(n) == IF IsList(n) THEN n.list ELSE <<>>

IsText(n) == "text" \in DOMAIN n \/ "pointer" \in DOMAIN n
IsNumber(n) == "number" \in DOMAIN n

\* The numbers that are false, by their spellings
Zeros == {"0", "0.0", "-0.0", "False"}

\* What a for loop fails at, and what a join does where a false value is skipped
Uniterable(n) == n = Null \/ IsNumber(n)
Unjoinable(n) == IsNumber(n) /\ n.number \notin Zeros

IsRef(n) == IsMap(n) /\ DOMAIN n.map = {"$ref"}
Target(n) == n.map["$ref"].pointer

AnyRaised(S) == \E x \in S : x = Raised

\* The elements of s at the positions in I, in order
Picked(s, I) == FlattenSeq([i \in DOMAIN s |-> IF i \in I THEN <<s[i]>> ELSE <<>>])

\* methods by the spellings of their key that are looked at
Methods == [get |-> "GET", GET |-> "GET", post |-> "POST"]

-----------------------------------------------------------------------------
(* References *)

\* What stands in a value, by its key or its place
Kids(n) == IF IsMap(n) THEN n.map ELSE Items(n)

\* make_ref_map's walk: the values that many levels into a value, each with the
\* keys and places on the way to it
Levels(n) ==
    LET level[k \in 0 .. RecursionLimit] ==
            IF k = 0 THEN {<< <<>>, n >>}
            ELSE UNION {{<<Append(at[1], IF IsMap(at[2]) THEN key ELSE ToString(key - 1)),
                           Kids(at[2])[key]>> : key \in DOMAIN Kids(at[2])} : at \in level[k - 1]}
    IN  level

Height(n) == LET level == Levels(n) IN CHOOSE h \in 0 .. RecursionLimit : level[h] = {}
Within(n) == LET level == Levels(n) IN UNION {level[k] : k \in 0 .. Height(n)}
Values(n) == {at[2] : at \in Within(n)}
Pointers(n) == {Target(v) : v \in {w \in Values(n) : IsRef(w)}}

\* make_ref_map, and what resolve_local_ref makes of the pointers there are
RefMap(spec) ==
    LET within == Within(spec)
        ends(t) == {at \in within : at[1] = t}
    IN  [values |-> Values(spec),
         at |-> [t \in Pointers(spec) |->
                    IF ends(t) = {} THEN Raised ELSE (CHOOSE at \in ends(t) : TRUE)[2]]]

\* A bug: what a reference leads to is not resolved in turn.
ResolveOnce(refs, node) == IF IsRef(node) THEN refs.at[Target(node)] ELSE node

\* A call of deep_resolve, by what the calls in it return: a reference that is
\* being resolved already is left as it is.
ResolveBy(refs, resolved, n, seen) ==
    LET t == Target(n)
        kids == [key \in DOMAIN Kids(n) |-> resolved[<<Kids(n)[key], seen>>]]
    IN  IF IsRef(n)
        THEN IF t \in seen THEN n
             ELSE IF refs.at[t] = Raised THEN Raised
             ELSE resolved[<<refs.at[t], seen \cup {t}>>]
        ELSE IF AnyRaised(Range(kids)) THEN Raised
        ELSE IF IsMap(n) THEN Map(kids)
        ELSE IF IsList(n) THEN List(kids)
        ELSE n

\* deep_resolve, nesting as deep as it may
DeepResolve(refs, node) ==
    LET resolved[k \in 0 .. RecursionLimit] ==
            [call \in refs.values \X SUBSET DOMAIN refs.at |->
                IF k = 0 THEN Raised ELSE ResolveBy(refs, resolved[k - 1], call[1], call[2])]
    IN  resolved[RecursionLimit][<<node, {}>>]

\* What can be reached from T along the edges of g
Reach(g, T) ==
    {t \in DOMAIN g : \A C \in SUBSET DOMAIN g :
        T \cap DOMAIN g \subseteq C /\ (\A u \in C : g[u] \cap DOMAIN g \subseteq C) => t \in C}

\* The end of a chain of references; a reference, if it is one without end
Chased(refs, n) ==
    LET next(t) == IF IsRef(refs.at[t]) THEN {Target(refs.at[t])} ELSE {}
        met == Reach([t \in DOMAIN refs.at |-> next(t)], {Target(n)})
        ends == {refs.at[t] : t \in {u \in met : ~IsRef(refs.at[u])}}
    IN  IF IsRef(n) /\ ends # {} THEN CHOOSE e \in ends : TRUE ELSE n

\* What is found under a key
Look(refs, n, key, default) == Chased(refs, Get(n, key, default))

TextAt(refs, n, key) ==
    LET v == Look(refs, n, key, Null) IN IF "text" \in DOMAIN v THEN v.text ELSE ""

\* str of a plain value
Spelled(n) ==
    CASE "text" \in DOMAIN n -> n.text
      [] IsNumber(n) -> n.number
      [] n = Null -> "None"
      [] OTHER -> ""

\* A value of yaml.safe_load that does not hold itself, with so little in it that
\* only references without end meet the limit
Finite(spec) ==
    LET values == Values(spec)
    IN  /\ \E h \in 0 .. RecursionLimit : Levels(spec)[h] = {}
        /\ (Cardinality(Pointers(spec)) + 1) * (Height(spec) + 1) < RecursionLimit
        /\ IsFiniteSet(values) /\ Cardinality(values) < RecursionLimit /\ Raised \notin values
        /\ \A v \in values :
              /\ IsMap(v) => v = Map(v.map) /\ IsFiniteSet(DOMAIN v.map)
              /\ IsList(v) => v = List(v.list) /\ v.list \in Seq(values)
              /\ IsRef(v) => v = Ref(Target(v))

-----------------------------------------------------------------------------
(* What is said of a value *)

\* The schemas summarize_schema looks into; one with a "$ref" is only named.
IsSchema(refs, n, type) == IsMap(n) /\ "$ref" \notin DOMAIN n.map /\ TextAt(refs, n, "type") = type

\* What summarize_schema fails at, as it is: an object whose properties have no
\* .keys, and a "$ref" beside other keys that is no text
Misshapen(refs, n) ==
    \/ IsSchema(refs, n, "object") /\ ~IsMap(Look(refs, n, "properties", NoKeys))
    \/ /\ IsMap(n) /\ ~IsRef(n) /\ "$ref" \in DOMAIN n.map
       /\ ~IsText(Look(refs, n, "$ref", Null))

\* summarize_schema of a value that has been resolved.  What is said is told
\* apart by what an array is one of in the end.
Summary(refs, schema) ==
    LET elements[k \in 0 .. RecursionLimit] ==
            IF k = 0 THEN Chased(refs, schema)
            ELSE LET outer == elements[k - 1]
                 IN  IF IsSchema(refs, outer, "array") THEN Look(refs, outer, "items", NoKeys) ELSE outer
        last == elements[RecursionLimit]
    IN  IF IsSchema(refs, last, "array") \/ Misshapen(refs, last) THEN Raised ELSE last

\* describe_parameter, of one that is resolved
Described(refs, param) == Summary(refs, Get(param, "schema", NoKeys))

\* The schemas of a body's content, one of each type of it that gives one
ContentSchemas(refs, body) ==
    LET content == Look(refs, body, "content", NoKeys)
        media == IF IsMap(content) THEN {Chased(refs, m) : m \in Range(content.map)} ELSE {}
    IN  {Get(m, "schema", Null) : m \in media} \ {Null}

\* describe_request_body and describe_response
DescribedBody(refs, body) ==
    LET b == DeepResolve(refs, body)
        said == {Summary(refs, schema) : schema \in ContentSchemas(refs, b)}
    IN  IF b = Raised \/ AnyRaised(said) THEN Raised ELSE [said |-> said]

\* The name and the place of a parameter
Key(refs, p) ==
    <<Spelled(Look(refs, p, "name", Text(""))), Spelled(Look(refs, p, "in", Text("")))>>

\* What is listed, resolved; the positions of those of the same name and place,
\* and where each name and place is first
Resolutions(refs, listed) == [i \in DOMAIN listed |-> DeepResolve(refs, listed[i])]
Same(refs, all, i) == {j \in DOMAIN all : IsMap(all[j]) /\ Key(refs, all[j]) = Key(refs, all[i])}
Firsts(refs, all) == {i \in DOMAIN all : IsMap(all[i]) /\ i = Min(Same(refs, all, i))}

\* A bug: a parameter that is there already is not replaced.
MergeKeepingFirst(refs, listed) ==
    LET all == Resolutions(refs, listed)
    IN  IF AnyRaised(Range(all)) THEN <<Raised>> ELSE Picked(all, Firsts(refs, all))

\* merge_parameters, for both lists one after the other: a dict keyed by name
\* and place; setting a key again leaves it where it was.
Merge(refs, listed) ==
    LET all == Resolutions(refs, listed)
        firsts == Firsts(refs, all)
        last(i) == all[Max(Same(refs, all, i))]
    IN  IF AnyRaised(Range(all)) THEN <<Raised>>
        ELSE Picked([i \in DOMAIN all |-> IF i \in firsts THEN last(i) ELSE Raised], firsts)

-----------------------------------------------------------------------------
(* Chunks: [id, about, ...], or Raised *)

\* A bug: the method is not in the id.
IdByPath(kind, method, path) == <<kind, path>>

\* stable_chunk_id
IdOf(kind, method, path) == <<kind, method, path>>

Paths(spec) == LET paths == Get(spec, "paths", NoKeys) IN IF IsMap(paths) THEN paths.map ELSE <<>>

\* The keys of the paths that are methods
MethodKeys(spec) ==
    {o \in (DOMAIN Paths(spec)) \X (DOMAIN Methods) :
        IsMap(Paths(spec)[o[1]]) /\ o[2] \in DOMAIN Paths(spec)[o[1]].map}

\* extract_top_level_metadata_chunks counts the operations by their keys.
Metadata(spec) == [id |-> <<"meta">>, operations |-> Cardinality(MethodKeys(spec))]

\* The parameters of a path and of one of its operations
Lists(spec, path, key) ==
    LET item == Paths(spec)[path]
    IN  <<Get(item, "parameters", List(<<>>)), Get(item.map[key], "parameters", List(<<>>))>>
Listed(spec, path, key) == LET lists == Lists(spec, path, key) IN Items(lists[1]) \o Items(lists[2])

\* What an operation is sent with and answered by, where it says
Bodies(op) ==
    LET responses == Get(op, "responses", NoKeys)
    IN  ({Get(op, "requestBody", Null)} \ {Null})
        \cup (IF IsMap(responses) THEN Range(responses.map) ELSE {})

\* build_operation_text, and the chunk it is for
Operation(spec, refs, path, key) ==
    LET op == Paths(spec)[path].map[key]
        params == Merge(refs, Listed(spec, path, key))
        said == [n \in DOMAIN params |-> Described(refs, params[n])]
        bodies == {DescribedBody(refs, b) : b \in Bodies(op)}
    IN  IF \/ path \in OtherKeys \/ Unjoinable(Get(op, "tags", Null))
           \/ \E list \in Range(Lists(spec, path, key)) : Uniterable(list)
        THEN Raised
        ELSE IF AnyRaised(Range(params) \cup Range(said) \cup bodies) THEN Raised
        ELSE [id |-> IdOf("operation", Methods[key], path), key |-> key, params |-> params,
              said |-> said, bodies |-> bodies]

OperationKeys(spec) == {o \in MethodKeys(spec) : IsMap(Paths(spec)[o[1]].map[o[2]])}

\* extract_operation_chunks
Operations(spec, refs) == {Operation(spec, refs, o[1], o[2]) : o \in OperationKeys(spec)}

\* build_schema_text, and the chunk it is for
Schema(refs, name, schema) ==
    LET s == DeepResolve(refs, schema)
        props == Look(refs, s, "properties", NoKeys)
        said == [p \in IF IsMap(props) THEN DOMAIN props.map ELSE {} |-> Summary(refs, props.map[p])]
    IN  IF \/ name \in OtherKeys \/ ~IsMap(s) \/ AnyRaised(Range(said))
           \/ Unjoinable(Look(refs, s, "required", Null))
        THEN Raised
        ELSE [id |-> <<"schema", name>>, said |-> said]

\* The schemas that are mappings, by name
ComponentSchemas(spec) ==
    LET schemas == Get(Get(spec, "components", NoKeys), "schemas", NoKeys)
    IN  IF IsMap(schemas)
        THEN [name \in {n \in DOMAIN schemas.map : IsMap(schemas.map[n])} |-> schemas.map[name]]
        ELSE <<>>

\* extract_schema_chunks; components that are null have no .get.
Schemas(spec, refs) ==
    LET schemas == ComponentSchemas(spec)
    IN  IF ~IsMap(Get(spec, "components", NoKeys)) THEN {Raised}
        ELSE {Schema(refs, name, schemas[name]) : name \in DOMAIN schemas}

\* extract_path_summary_chunks
PathSummaries(spec) ==
    {IF o[1] \in OtherKeys THEN Raised ELSE [id |-> <<"path", o[1]>>] : o \in MethodKeys(spec)}

\* load_yaml_file and extract_all_chunks
AllChunks(spec) ==
    LET refs == RefMap(spec)
    IN  IF ~IsMap(spec) THEN {Raised}
        ELSE {Metadata(spec)} \cup Operations(spec, refs) \cup Schemas(spec, refs) \cup PathSummaries(spec)

-----------------------------------------------------------------------------
(* The description as a graph, without resolving it *)

\* The pointers that are met on the way from those in T
Met(refs, T) == Reach([t \in DOMAIN refs.at |-> Pointers(refs.at[t])], T)

\* The positions of the parameters that no later one is in the place of
Lasting(refs, listed) ==
    LET ends == [i \in DOMAIN listed |-> Chased(refs, listed[i])]
    IN  {i \in DOMAIN ends : IsMap(ends[i]) /\ \A j \in DOMAIN ends :
            IsMap(ends[j]) /\ Key(refs, ends[j]) = Key(refs, ends[i]) => j <= i}

\* Anything of the description that is looked at
Sources(spec) ==
    Range(ComponentSchemas(spec))
    \cup UNION {Range(Listed(spec, o[1], o[2])) \cup Bodies(Paths(spec)[o[1]].map[o[2]]) : o \in OperationKeys(spec)}

\* The schemas that are summarised
Summarised(spec, refs) ==
    LET params(o) == LET listed == Listed(spec, o[1], o[2])
                     IN  {Get(Chased(refs, listed[i]), "schema", NoKeys) : i \in Lasting(refs, listed)}
        bodies(o) == UNION {ContentSchemas(refs, Chased(refs, b)) : b \in Bodies(Paths(spec)[o[1]].map[o[2]])}
        props(n) == Look(refs, Chased(refs, n), "properties", NoKeys)
    IN  (UNION {params(o) \cup bodies(o) : o \in OperationKeys(spec)})
        \cup (UNION {Range(props(n).map) : n \in {m \in Range(ComponentSchemas(spec)) : IsMap(props(m))}})

\* A schema, what it is an array of, what that is an array of, and so on
Elements(refs, n) ==
    LET arrays == {m \in refs.values : IsSchema(refs, m, "array")}
        items(m) == Look(refs, m, "items", NoKeys)
        s == Chased(refs, n)
    IN  {s} \cup {items(m) : m \in Reach([m \in arrays |-> {items(m)}], {s})}

\* An array that is an array of arrays without end, as when it is an element of
\* itself, and one of something misshapen in the end
Unsayable(refs, n) ==
    \/ \A m \in Elements(refs, n) : IsSchema(refs, m, "array")
    \/ \E m \in Elements(refs, n) : Misshapen(refs, m)

\* What chunking a description fails at
Broken(spec) ==
    LET refs == RefMap(spec)
        schemas == Range(ComponentSchemas(spec))
    IN  \/ ~IsMap(spec) \/ ~IsMap(Get(spec, "components", NoKeys))
        \/ OtherKeys \cap ({o[1] : o \in MethodKeys(spec)} \cup DOMAIN ComponentSchemas(spec)) # {}
        \/ \E o \in OperationKeys(spec) :
              \/ \E list \in Range(Lists(spec, o[1], o[2])) : Uniterable(list)
              \/ Unjoinable(Get(Paths(spec)[o[1]].map[o[2]], "tags", Null))
        \/ \E t \in Met(refs, UNION {Pointers(n) : n \in Sources(spec)}) : refs.at[t] = Raised
        \/ \E n \in schemas :
              ~IsMap(Chased(refs, n)) \/ Unjoinable(Look(refs, Chased(refs, n), "required", Null))
        \/ \E n \in Summarised(spec, refs) : Unsayable(refs, n)

\* What is left unresolved is looked through (Chased) as the code does where it
\* resolves what it reads a second time.  Elsewhere there is nothing left if no
\* schema is its own properties and no body its own content, and if no type of
\* the content is the content or the body.
Untangled(spec) ==
    LET refs == RefMap(spec)
    IN  /\ \A n \in Range(ComponentSchemas(spec)) :
              LET s == Chased(refs, n) IN IsMap(s) => Look(refs, s, "properties", Null) # s
        /\ \A o \in OperationKeys(spec) : \A n \in Bodies(Paths(spec)[o[1]].map[o[2]]) :
              LET body == Chased(refs, n)
                  content == Look(refs, body, "content", Null)
              IN  IsMap(content) =>
                    content # body /\ \A m \in Range(content.map) : Chased(refs, m) \notin {content, body}

\* str of a mapping or a list is none of the plain spellings: no parameter is
\* named by one, or has one for a place.
PlainlyNamed(spec) ==
    LET refs == RefMap(spec)
    IN  \A o \in OperationKeys(spec) : \A n \in Range(Listed(spec, o[1], o[2])) : \A key \in {"name", "in"} :
            LET v == Look(refs, Chased(refs, n), key, Null)
            IN  ~IsMap(v) /\ ~IsList(v) /\ "pointer" \notin DOMAIN v

\* The descriptions the properties are about
Readable(spec) == Finite(spec) /\ Untangled(spec) /\ PlainlyNamed(spec)
=============================================================================
