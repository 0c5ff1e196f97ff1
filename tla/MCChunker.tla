------------------------------ MODULE MCChunker ------------------------------
(* A small instance of Chunker for TLC. *)
EXTENDS Chunker

Line(kind, level, title) == [kind |-> kind, level |-> level, title |-> title]
Heads(levels, title) == {Line("heading", l, title) : l \in levels}
Plain(kinds) == {Line(k, 1, "") : k \in kinds}

MCNames == <<"api.md", "glossary.md", "rag_ground_truth.md", "tasks.yaml">>

MCLines ==
    [name \in {"api.md", "glossary.md", "rag_ground_truth.md"} |->
        CASE name = "api.md" -> Heads({1, 2}, "notes") \cup Heads({3}, "template") \cup Plain({"fence", "text"})
          [] name = "glossary.md" -> Heads({1}, "glossary") \cup Heads({3}, "rag usage notes")
                                     \cup Plain({"text", "header", "row"})
          [] OTHER -> Heads({1, 2}, "canonical facts") \cup Plain({"text", "blank", "fact"})]

MCMaxLines == [name \in DOMAIN MCLines |-> CASE name = "glossary.md" -> 6 [] name = "api.md" -> 5 [] OTHER -> 4]

MCSize == [k \in Kinds |-> CASE k \in {"heading", "fence", "blank"} -> 0
                             [] k = "text" -> 10 [] k = "separator" -> 13 [] OTHER -> 20]

-----------------------------------------------------------------------------
\* Descriptions of an API: two schemas that refer to each other in every way,
\* a shared parameter, one path.
SchemaRef(name) == Ref(<<"components", "schemas", name>>)
SharedParam == Ref(<<"components", "parameters", "P">>)
Nowhere == Ref(<<"components", "Q">>)

Str == Map([type |-> Text("string")])
Arr(n) == Map([type |-> Text("array"), items |-> n])
Obj(n) == Map([type |-> Text("object"), properties |-> Map([p |-> n])])
Param(place, note, schema) ==
    Map([name |-> Text("id"), in |-> Text(place), note |-> Text(note), schema |-> schema])

\* f without the keys that are absent
Absent == [absent |-> TRUE]
Present(f) == Map([k \in {j \in DOMAIN f : f[j] # Absent} |-> f[k]])

\* Its properties are not listed; its type is given elsewhere; it is not a schema.
Headless == Map([type |-> Text("object"), properties |-> Text("p")])
TypedElsewhere == Map([type |-> Ref(<<"components", "schemas", "B", "type">>), items |-> SchemaRef("A")])
ATypeOnly == Ref(<<"components", "schemas", "A", "type">>)

As == {Str, Arr(SchemaRef("A")), Obj(SchemaRef("B")), Arr(SchemaRef("B")), SchemaRef("B"), Headless, TypedElsewhere}
FewBs == {Str, SchemaRef("A"), Obj(SchemaRef("A"))}
Bs == FewBs \cup {Arr(SchemaRef("A")), ATypeOnly}

Components(bs) ==
    {Map([schemas |-> Map([A |-> a, B |-> b]),
          parameters |-> Map([P |-> Param("query", "shared", SchemaRef("A"))])]) : a \in As, b \in bs}

PathParameters ==
    {List(<<Param("path", "path", Str)>>), List(<<SharedParam>>),
     List(<<Ref(<<"paths", "/notes", "parameters", "2">>), Text("id"), SharedParam>>)}

OperationParameters ==
    {Absent, List(<<Param("query", "op", Str)>>),
     List(<<SharedParam, Param("path", "op", Str)>>)}

Json(schema) == Map([content |-> Map([json |-> Map([schema |-> schema])])])
Responses == {Absent, Null, Map([ok |-> Json(SchemaRef("B"))])}

Others == {<<"post", Absent>>, <<"post", NoKeys>>, <<"GET", NoKeys>>, <<"post", Null>>}

Described1(components, shared, own, responses, other) ==
    Map([components |-> components,
         paths |-> Map("/notes" :> Present("parameters" :> shared @@ other[1] :> other[2]
                                            @@ "get" :> Present([parameters |-> own, responses |-> responses])))])

\* Descriptions of one more path, a schema and an operation with keys that make
\* it odd
WithOdd(path, name, schema, operation) ==
    Map([components |-> Map([schemas |-> Map(name :> Map(schema) @@ "A" :> Str)]),
         paths |-> Map(path :> Map([get |-> Map(operation)]))])

OddSchemas ==
    {[required |-> Number("1")], [required |-> Number("False")], [required |-> Text("p")],
     [required |-> Ref(<<"components", "schemas", "B", "minLength">>), minLength |-> Number("1")]}
    \cup {[properties |-> Map([p |-> Map("$ref" :> n @@ "type" :> Text("string"))])] :
             n \in {Text("A"), Number("1"), Null, Str, Ref(<<"components", "schemas", "A", "type">>)}}

OddOperations ==
    {[tags |-> Number("1")], [tags |-> Number("0")], [tags |-> Null], [parameters |-> Number("0")],
     [parameters |-> Text("id")], [parameters |-> List(<<Str, Nowhere>>)],
     [requestBody |-> Json(Obj(Nowhere))], [responses |-> Map([ok |-> Json(Headless)])],
     [requestBody |-> Map([content |-> Map([json |-> Map([schema |-> Null]), text |-> Json(Headless)])])],
     [responses |-> Map([ok |-> Map([content |-> Text("json")]), none |-> Map([content |-> Map([json |-> Nowhere])])])],
     [parameters |-> List(<<Map([name |-> Number("1"), schema |-> Str]),
                            Map([name |-> Text("1"), in |-> Text(""), schema |-> Headless])>>)],
     [parameters |-> List(<<Map([name |-> Null, schema |-> Headless]), Map([name |-> Text("None")])>>)]}

OddSpecs ==
    {WithOdd("/notes", "B", s, <<>>) : s \in OddSchemas}
    \cup {WithOdd("/notes", "B", <<>>, o) : o \in OddOperations}
    \cup {WithOdd(k, "B", <<>>, <<>>) : k \in OtherKeys}
    \cup {WithOdd("/notes", k, <<>>, <<>>) : k \in OtherKeys}

MCSpecs ==
    OddSpecs \cup
    {Described1(c, s, o, Absent, <<"post", Absent>>) :
        c \in Components(FewBs), s \in PathParameters, o \in OperationParameters}
    \cup {Described1(c, Absent, Absent, r, <<"post", NoKeys>>) : c \in Components(Bs), r \in Responses}
    \cup {Described1(c, Absent, Absent, Absent, m) : c \in Components(FewBs), m \in Others}
    \cup {Described1(NoKeys, Null, Absent, Absent, m) : m \in Others}
    \cup {Described1(Null, Absent, Absent, Absent, <<"post", Absent>>),
          Map([paths |-> Null]), Map([components |-> NoKeys]), List(<<>>), Raised}
=============================================================================
