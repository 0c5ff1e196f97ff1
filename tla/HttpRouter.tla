----------------------------- MODULE HttpRouter -----------------------------
(***************************************************************************)
(* The way of one request from its URL to a handler: the path and the      *)
(* query string the server makes of it (src/http/server.c) and what the    *)
(* router makes of those (src/http/router.c).                              *)
(*                                                                         *)
(* A text is a sequence of characters; "notes" and "tag" are one character *)
(* each.  libmicrohttpd is external: it has taken the arguments off the    *)
(* URL and percent-decoded both of them, so `args` is what the client      *)
(* meant.  Names are those of the C code, without the null bytes.          *)
(***************************************************************************)
EXTENDS Doubling, Sequences, SequencesExt, FiniteSets,
        FiniteSetsExt

CONSTANTS
    Requests,    \* [method, url, args]: url as the callback gets it, args the
                 \* sequence of [key, value] pairs that MHD hands out
    Chars,       \* characters
    Hex,         \* hexadecimal digits
    CharOf,      \* CharOf[<<hi, lo>>]: the character with that code
    InitialCap,  \* first size of the query buffer, 128
    Memory,      \* "short" if allocations may fail, else "ample"
    None

Methods == {"GET", "POST", "PUT", "DELETE", "PATCH"}
Handlers == {"create", "list", "get", "update", "delete"}

ASSUME RouterAssumption ==
    /\ {"/", "?", "&", "="} \cup Hex \subseteq Chars
    /\ CharOf \in [Hex \X Hex -> Chars]
    /\ \A r \in Requests :
          /\ r.url \in Seq(Chars)
          /\ r.args \in Seq([key : Seq(Chars), value : Seq(Chars)])
    /\ InitialCap \in Nat \ {0}
    /\ Memory \in {"short", "ample"}
    /\ None \notin Handlers

VARIABLES
    stage,    \* the next step for the request: "idle", "path", "query",
              \* "route", "tag" or "done"
    method, url, args,   \* the request's
    next,     \* index of the next argument to append to the query
    path,     \* request.path, or None
    query,    \* [text, cap, from]: request.query; from the "url", "built" in
              \* a buffer of `cap` characters, or "none"
    answer,   \* [by, id, tag]: the handler called, or the status of the
              \* router's own answer, with what was handed to it
    live,     \* live[b]: how many times buffer b has been allocated for the
              \* request less how many times it has been freed
    short     \* whether an allocation has failed; a history variable

vars == <<stage, method, url, args, next, path, query, answer, live, short>>

NoQuery  == [text |-> <<>>, cap |-> 0, from |-> "none"]
NoAnswer == [by |-> None, id |-> None, tag |-> None]
Buffers  == {"path", "query", "url"}   \* the url is libmicrohttpd's

Init ==
    /\ stage = "idle"
    /\ method = "GET" /\ url = <<>> /\ args = <<>>
    /\ next = 1
    /\ path = None
    /\ query = NoQuery
    /\ answer = NoAnswer
    /\ live = [b \in Buffers |-> 0]
    /\ short = FALSE

-----------------------------------------------------------------------------
(* Texts *)

\* What stands before and after the first c of s (strchr), all of s and nothing
\* if there is none.
Before(s, c) ==
    LET at == {i \in DOMAIN s : s[i] = c}
    IN  SubSeq(s, 1, IF at = {} THEN Len(s) ELSE Min(at) - 1)
After(s, c) == SubSeq(s, Len(Before(s, c)) + 2, Len(s))

\* Mutant: an escape at the very end is not recognised.
UrlDecodeShort(s) ==
    LET escape(i) == /\ s[i] = "%" /\ i + 3 <= Len(s)
                     /\ s[i + 1] \in Hex /\ s[i + 2] \in Hex
        from[i \in 1 .. Len(s) + 1] ==
            IF i > Len(s) THEN <<>>
            ELSE IF escape(i)
            THEN <<CharOf[<<s[i + 1], s[i + 2]>>]>> \o from[i + 3]
            ELSE <<IF s[i] = "+" THEN " " ELSE s[i]>> \o from[i + 1]
    IN  from[1]

UrlDecode(s) ==
    LET escape(i) == /\ s[i] = "%" /\ i + 2 <= Len(s)
                     /\ s[i + 1] \in Hex /\ s[i + 2] \in Hex
        from[i \in 1 .. Len(s) + 1] ==
            IF i > Len(s) THEN <<>>
            ELSE IF escape(i)
            THEN <<CharOf[<<s[i + 1], s[i + 2]>>]>> \o from[i + 3]
            ELSE <<IF s[i] = "+" THEN " " ELSE s[i]>> \o from[i + 1]
    IN  from[1]

\* The pairs of a query begin where it does and after each "&"; nothing follows
\* a final "&".
PairStarts(text) == {i \in DOMAIN text : i = 1 \/ text[i - 1] = "&"}

PairAt(text, i) == Before(SubSeq(text, i, Len(text)), "&")

\* Where the pairs for the tag begin
TagStarts(text) == {i \in PairStarts(text) : Before(PairAt(text, i), "=") = <<"tag">>}

-----------------------------------------------------------------------------
(* The server: path and query *)

Failing == Memory = "short" /\ short' = TRUE

Receive(r) ==
    /\ stage = "idle"
    /\ stage' = "path"
    /\ method' = r.method /\ url' = r.url /\ args' = r.args
    /\ live' = [b \in Buffers |-> 0]
    /\ UNCHANGED <<next, path, query, answer, short>>

\* extractPath, then getQueryString, which finds a query only if the URL still
\* has a "?" in it; otherwise the query is built from the arguments.
ExtractPath ==
    /\ stage = "path"
    /\ \/ /\ path' = Before(url, "?")
          /\ live' = [live EXCEPT !["path"] = 1]
          /\ UNCHANGED short
       \/ Failing /\ UNCHANGED <<path, live>>
    /\ IF Contains(url, "?")
       THEN /\ query' = [text |-> After(url, "?"), cap |-> 0, from |-> "url"]
            /\ stage' = "route"
       ELSE stage' = "query" /\ UNCHANGED query
    /\ UNCHANGED <<method, url, args, next, answer>>

\* What queryBuilderAppend adds for an argument.
Piece(arg) == arg.key \o (IF arg.value = <<>> THEN <<>> ELSE <<"=">> \o arg.value)

\* Mutant: the "&" is not counted.
CapForShort(q, arg) ==
    LET need == Len(q.text) + Len(Piece(arg)) + 1
    IN  IF need <= q.cap THEN q.cap
        ELSE Enough(IF q.cap = 0 THEN InitialCap ELSE q.cap, need)

\* The size of buffer q before arg is appended: there must be room for "&", the
\* piece and the null byte.
CapFor(q, arg) ==
    LET need == Len(q.text) + Len(Piece(arg))
                  + (IF q.text = <<>> THEN 0 ELSE 1) + 1
    IN  IF need <= q.cap THEN q.cap
        ELSE Enough(IF q.cap = 0 THEN InitialCap ELSE q.cap, need)

\* One call of queryValueIterator.  When the buffer cannot grow, libmicrohttpd
\* hands out no further argument and what has been built is used.
AppendArgument ==
    LET arg == args[next]
        cap == CapFor(query, arg)
    IN  /\ stage = "query" /\ next <= Len(args)
        /\ \/ /\ query' = [text |-> IF query.text = <<>> THEN Piece(arg)
                                    ELSE query.text \o <<"&">> \o Piece(arg),
                           cap |-> cap, from |-> "built"]
              /\ live' = [live EXCEPT !["query"] = 1]
              /\ next' = next + 1
              /\ UNCHANGED <<stage, short>>
           \/ /\ cap # query.cap /\ Failing
              /\ stage' = "route"
              /\ UNCHANGED <<query, live, next>>
        /\ UNCHANGED <<method, url, args, path, answer>>

QueryBuilt ==
    /\ stage = "query" /\ next > Len(args)
    /\ stage' = "route"
    /\ UNCHANGED <<method, url, args, next, path, query, answer, live, short>>

-----------------------------------------------------------------------------
(* The router *)

Reply(by, id, tag) ==
    /\ answer' = [by |-> by, id |-> id, tag |-> tag]
    /\ stage' = "done"

\* The connection is closed without a response; the query is not freed.
NoPath ==
    /\ stage = "route" /\ path = None
    /\ stage' = "done"
    /\ UNCHANGED <<method, url, args, next, path, query, answer, live, short>>

\* /notes and /notes/.
IsCollection(p) == p \in {<<"/", "notes">>, <<"/", "notes", "/">>}

ItemPrefix == <<"/", "notes", "/">>

\* Mutant: anything below /notes/ is an item.
IsItemOrDeeper(p) == Len(p) > 3 /\ SubSeq(p, 1, 3) = ItemPrefix

\* /notes/{id}.
IsItem(p) ==
    /\ Len(p) > 3 /\ SubSeq(p, 1, 3) = ItemPrefix
    /\ ~Contains(SubSeq(p, 4, Len(p)), "/")

RouteCollection ==
    /\ stage = "route" /\ path # None /\ IsCollection(path)
    /\ \/ method = "POST" /\ Reply("create", None, None)
       \/ method = "GET" /\ stage' = "tag" /\ UNCHANGED answer
       \/ method \notin {"GET", "POST"} /\ Reply("405", None, None)
    /\ UNCHANGED <<method, url, args, next, path, query, live, short>>

\* The copy of the id is freed again before the callback returns; if there is
\* no memory for it the path counts as invalid.
RouteItem ==
    LET id == SubSeq(path, 4, Len(path))
        handler == CASE method = "GET"    -> "get"
                     [] method = "PUT"    -> "update"
                     [] method = "DELETE" -> "delete"
                     [] OTHER             -> "405"
    IN  /\ stage = "route" /\ path # None /\ IsItem(path)
        /\ \/ /\ Reply(handler, IF handler = "405" THEN None ELSE id, None)
              /\ UNCHANGED short
           \/ Failing /\ Reply("404", None, None)
        /\ UNCHANGED <<method, url, args, next, path, query, live>>

RouteInvalid ==
    /\ stage = "route" /\ path # None /\ ~IsCollection(path) /\ ~IsItem(path)
    /\ Reply("404", None, None)
    /\ UNCHANGED <<method, url, args, next, path, query, live, short>>

\* Mutant: the last pair with the key decides.
TagOfLast(text) ==
    IF TagStarts(text) = {} THEN None
    ELSE UrlDecode(After(PairAt(text, Max(TagStarts(text))), "="))

\* queryGetParam(query, "tag"): the value of the first pair with that key,
\* decoded, or None; a pair without "=" has an empty value.
TagOf(text) ==
    IF TagStarts(text) = {} THEN None
    ELSE UrlDecode(After(PairAt(text, Min(TagStarts(text))), "="))

\* The list handler is called with the tag, or with NULL if there is none, or
\* no memory for it.
List ==
    /\ stage = "tag"
    /\ \/ Reply("list", None, TagOf(query.text)) /\ UNCHANGED short
       \/ /\ TagOf(query.text) # None /\ Failing
          /\ Reply("list", None, None)
    /\ UNCHANGED <<method, url, args, next, path, query, live>>

Forget ==
    /\ stage' = "idle"
    /\ method' = "GET" /\ url' = <<>> /\ args' = <<>>
    /\ next' = 1
    /\ path' = None /\ query' = NoQuery /\ answer' = NoAnswer
    /\ short' = FALSE

\* Mutant: the query is freed wherever it is.
CleanUpAnyQuery ==
    /\ stage = "done"
    /\ live' = IF path = None THEN live
               ELSE [live EXCEPT !["path"] = @ - 1,
                                 !["query"] = IF query.from = "built" THEN @ - 1 ELSE @,
                                 !["url"] = IF query.from = "url" THEN @ - 1 ELSE @]
    /\ Forget

\* The end of the callback: the path is freed, and the query if it has been
\* built.  Without a path the callback has returned before that.
CleanUp ==
    /\ stage = "done"
    /\ live' = IF path = None THEN live
               ELSE [live EXCEPT !["path"] = @ - 1,
                                 !["query"] = IF query.from = "built" THEN @ - 1 ELSE @]
    /\ Forget

Next ==
    \/ \E r \in Requests : Receive(r)
    \/ ExtractPath \/ AppendArgument \/ QueryBuilt
    \/ NoPath \/ RouteCollection \/ RouteItem \/ RouteInvalid \/ List
    \/ CleanUp

Spec == Init /\ [][Next]_vars

-----------------------------------------------------------------------------
(* Properties *)

\* The characters that mean something in a query.
Special == {"+", "%", "&", "=", " "}

\* The arguments whose text the second decoding cannot change.
Plain(arg) ==
    /\ \A i \in DOMAIN arg.key : arg.key[i] \notin Special
    /\ \A i \in DOMAIN arg.value : arg.value[i] \notin Special \ {"=", " "}

TagArgs == {i \in DOMAIN args : args[i].key = <<"tag">>}
TagAsked == IF TagArgs = {} THEN None ELSE args[Min(TagArgs)].value

\* A listing whose query the server has joined again (not cut out of a URL in
\* which a "?" is left) is filtered by the first tag the client gave, and by
\* nothing if it gave none, however the server cuts the arguments and joins them again, as
\* long as they are free of "+", "%" and "&".  When memory is short the filter
\* may be lost, but never become another one.
TagIsTheOneAsked ==
    answer.by = "list" /\ query.from # "url"
       /\ (\A i \in DOMAIN args : Plain(args[i]))
    => answer.tag = TagAsked \/ (short /\ answer.tag = None)

\* docs/openapi.yaml: the router decodes the tag, and the notes with that exact
\* tag are listed.  (The text has been decoded before it gets to the router.)
EveryTagIsTheOneAsked ==
    answer.by = "list" /\ query.from # "url" => answer.tag = TagAsked

\* /notes with at most one more segment.
Served ==
    /\ Len(path) >= 2 /\ SubSeq(path, 1, 2) = <<"/", "notes">>
    /\ Len(path) > 2 => path[3] = "/"
    /\ Cardinality({i \in DOMAIN path : path[i] = "/"}) <= 2

\* The methods there are for all notes and for one note, and their handlers.
Routes == {<<"GET", "all", "list">>, <<"POST", "all", "create">>, <<"GET", "one", "get">>,
           <<"PUT", "one", "update">>, <<"DELETE", "one", "delete">>}
Extent == IF Len(path) > 3 THEN "one" ELSE "all"

\* A request is answered by the handler that its method and path stand for; 405
\* is answered only for a method the path does not have, 404 for the paths the
\* service does not have, and for one it has only when memory is short.  The id
\* an item handler gets is the one non-empty last segment of the path.
RoutingIsRight ==
    stage = "done" /\ path # None =>
       /\ answer.by = "404" => short \/ ~Served
       /\ answer.by # "404" => Served
       /\ answer.by = "405" => \A by \in Handlers : <<method, Extent, by>> \notin Routes
       /\ answer.by \notin {"404", "405"} => <<method, Extent, answer.by>> \in Routes
       /\ answer.by \in {"get", "update", "delete"} =>
             /\ path = ItemPrefix \o answer.id
             /\ answer.id # <<>> /\ ~Contains(answer.id, "/")

\* The query and its null byte stay inside the buffer, for arguments of any
\* length around the doublings.
QueryFits == query.from = "built" => Len(query.text) + 1 <= query.cap

\* Decoding is the inverse of percent-encoding, wherever in the text the
\* escapes stand.
DecodeUndoesEncode ==
    \A i \in DOMAIN args :
       LET encode(c) == IF c \notin Special THEN <<c>>
                        ELSE <<"%">> \o CHOOSE h \in Hex \X Hex : CharOf[h] = c
       IN  (\A c \in Special : \E h \in Hex \X Hex : CharOf[h] = c) =>
           UrlDecode(FlattenSeq([j \in DOMAIN args[i].value |->
                                    encode(args[i].value[j])])) = args[i].value

\* A request that reaches the router frees its path and the query built for it,
\* each once, and never a query that is part of libmicrohttpd's URL.
BuffersAreFreedOnce ==
    [][stage = "done" /\ stage' = "idle" /\ path # None
          => \A b \in Buffers : live'[b] = 0]_vars
=============================================================================
