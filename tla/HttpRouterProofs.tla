-------------------------- MODULE HttpRouterProofs --------------------------
(***************************************************************************)
(* Proofs about the way of a request from its URL to a handler, for every  *)
(* URL, any number of arguments of any length and every first size of the  *)
(* query buffer.                                                           *)
(***************************************************************************)
EXTENDS HttpRouter, LoopProofs, FiniteSetTheorems, SequenceTheorems

-----------------------------------------------------------------------------
(* Texts *)

\* Before(s, c) is what comes before the first c.
LEMMA BeforeIs ==
    ASSUME NEW S, NEW s \in Seq(S), NEW c
    PROVE  \E n \in 0 .. Len(s) : /\ Before(s, c) = SubSeq(s, 1, n)
                                  /\ \A i \in 1 .. n : s[i] # c
                                  /\ n < Len(s) => s[n + 1] = c
<1> DEFINE at == {i \in DOMAIN s : s[i] = c}
<1>1. CASE at = {}
  <2>1. Before(s, c) = SubSeq(s, 1, Len(s))
    BY <1>1 DEF Before
  <2>2. QED
    BY <1>1, <2>1
<1>2. CASE at # {}
  <2>1. at \in SUBSET Nat /\ at \subseteq 1 .. Len(s)
    OBVIOUS
  <2>2. Min(at) \in at /\ \A i \in at : Min(at) <= i
    <3> HIDE DEF at
    <3>1. \E x \in at : \A y \in at : x <= y
      BY <1>2, <2>1, LeastMember
    <3>2. QED
      BY <3>1 DEF Min
  <2>3. Before(s, c) = SubSeq(s, 1, Min(at) - 1)
    BY <1>2 DEF Before
  <2> DEFINE m == Min(at)
  <2>4. m \in at /\ (\A i \in at : m <= i) /\ Before(s, c) = SubSeq(s, 1, m - 1)
    BY <2>2, <2>3
  <2> HIDE DEF m
  <2>5. m - 1 \in 0 .. Len(s) /\ s[(m - 1) + 1] = c /\ \A i \in 1 .. m - 1 : s[i] # c
    BY <2>4
  <2>6. QED
    BY <2>4, <2>5
<1>3. QED
  BY <1>1, <1>2

\* What a split at a character leaves on either side is a text again.
LEMMA BeforeAndAfter ==
    ASSUME NEW S, NEW s \in Seq(S), NEW c
    PROVE  Before(s, c) \in Seq(S) /\ After(s, c) \in Seq(S)
<1>1. PICK n \in 0 .. Len(s) : Before(s, c) = SubSeq(s, 1, n)
  BY BeforeIs
<1>2. Before(s, c) \in Seq(S) /\ Len(Before(s, c)) \in Nat
  BY <1>1
<1>3. QED
  BY <1>2 DEF After

-----------------------------------------------------------------------------
(* Types *)

Texts == Seq(Chars)
Arguments == [key : Texts, value : Texts]

TypeInv ==
    /\ stage \in {"idle", "path", "query", "route", "tag", "done"}
    /\ url \in Texts /\ args \in Seq(Arguments)
    /\ next \in Nat \ {0}
    /\ path = None \/ path \in Texts
    /\ query \in [text : Texts, cap : Nat, from : {"none", "url", "built"}]
    /\ stage \in {"idle", "path"} => query = NoQuery
    /\ stage = "query" => query.from # "url"
    /\ live \in [Buffers -> Int]

\* The router starts in a well-typed state.
LEMMA TypeInit == Init => TypeInv
BY DEF Init, TypeInv, Texts, NoQuery

\* What is appended for one argument is a text.
LEMMA PieceType ==
    ASSUME NEW arg \in Arguments PROVE Piece(arg) \in Texts
BY RouterAssumption DEF Piece, Arguments, Texts

\* The buffer is made large enough for what is appended and the null byte.
LEMMA CapSuffices ==
    ASSUME NEW q \in [text : Texts, cap : Nat, from : {"none", "built"}], NEW arg \in Arguments
    PROVE  /\ CapFor(q, arg) \in Nat
           /\ Len(q.text) + Len(Piece(arg)) + (IF q.text = <<>> THEN 0 ELSE 1) + 1
                 <= CapFor(q, arg)
<1> DEFINE need == Len(q.text) + Len(Piece(arg)) + (IF q.text = <<>> THEN 0 ELSE 1) + 1
           start == IF q.cap = 0 THEN InitialCap ELSE q.cap
<1>1. need \in Nat /\ start \in Nat \ {0} /\ q.cap \in Nat
  BY PieceType, RouterAssumption DEF Texts
<1>2. CapFor(q, arg) = IF need <= q.cap THEN q.cap ELSE Enough(start, need)
  BY DEF CapFor
<1> HIDE DEF need, start
<1>3. Enough(start, need) \in Nat /\ Enough(start, need) >= need
  BY <1>1, EnoughIsEnough
<1>4. CapFor(q, arg) \in Nat /\ need <= CapFor(q, arg)
  BY <1>1, <1>2, <1>3
<1>5. QED
  BY <1>4 DEF need

\* Every step of the router keeps the types.
LEMMA TypeInductive == TypeInv /\ [Next]_vars => TypeInv'
<1> SUFFICES ASSUME TypeInv, [Next]_vars PROVE TypeInv'
  OBVIOUS
<1> USE DEF TypeInv
<1>1. CASE UNCHANGED vars
  BY <1>1 DEF vars
<1>2. ASSUME NEW r \in Requests, Receive(r) PROVE TypeInv'
  <2>1. url' \in Texts /\ args' \in Seq(Arguments)
    BY <1>2, RouterAssumption DEF Receive, Texts, Arguments
  <2>2. stage' = "path" /\ live' \in [Buffers -> Int]
    BY <1>2 DEF Receive
  <2>3. next' = next /\ path' = path /\ query' = query /\ query = NoQuery
    BY <1>2 DEF Receive
  <2>4. QED
    BY <2>1, <2>2, <2>3
<1>3. CASE ExtractPath
  <2>1. Before(url, "?") \in Texts /\ After(url, "?") \in Texts
    BY BeforeAndAfter DEF Texts
  <2>2. path' = None \/ path' \in Texts
    BY <1>3, <2>1 DEF ExtractPath, Failing
  <2>3. query' \in [text : Texts, cap : Nat, from : {"none", "url", "built"}]
    BY <1>3, <2>1 DEF ExtractPath
  <2>4. /\ stage' \in {"query", "route"}
        /\ stage' = "query" => query'.from # "url"
    BY <1>3 DEF ExtractPath, NoQuery
  <2>5. live' \in [Buffers -> Int]
    BY <1>3 DEF ExtractPath, Failing
  <2>6. QED
    BY <1>3, <2>2, <2>3, <2>4, <2>5 DEF ExtractPath
<1>4. CASE AppendArgument
  <2>1. args[next] \in Arguments /\ query \in [text : Texts, cap : Nat, from : {"none", "built"}]
    BY <1>4 DEF AppendArgument
  <2>2. Piece(args[next]) \in Texts /\ CapFor(query, args[next]) \in Nat
    BY <2>1, PieceType, CapSuffices
  <2>3. query.text \o <<"&">> \o Piece(args[next]) \in Texts
    BY <2>2, RouterAssumption DEF Texts
  <2>4. /\ query' \in [text : Texts, cap : Nat, from : {"none", "url", "built"}]
        /\ query'.from # "url"
    <3> DEFINE text == IF query.text = <<>> THEN Piece(args[next])
                       ELSE query.text \o <<"&">> \o Piece(args[next])
    <3>1. \/ query' = [text |-> text, cap |-> CapFor(query, args[next]), from |-> "built"]
          \/ query' = query
      BY <1>4 DEF AppendArgument
    <3>2. text \in Texts
      BY <2>2, <2>3
    <3> HIDE DEF text
    <3>3. QED
      BY <2>1, <2>2, <3>1, <3>2
  <2>5. stage' \in {"query", "route"} /\ next' \in Nat \ {0} /\ live' \in [Buffers -> Int]
    BY <1>4 DEF AppendArgument
  <2>6. QED
    BY <1>4, <2>4, <2>5 DEF AppendArgument
<1>5. CASE QueryBuilt \/ NoPath
  BY <1>5 DEF QueryBuilt, NoPath
<1>6. CASE RouteCollection \/ RouteItem \/ RouteInvalid \/ List
  BY <1>6 DEF RouteCollection, RouteItem, RouteInvalid, List, Reply
<1>7. CASE CleanUp
  <2>1. live' \in [Buffers -> Int]
    BY <1>7 DEF CleanUp, Buffers
  <2>2. QED
    BY <1>7, <2>1 DEF CleanUp, Forget, NoQuery, Texts
<1>8. QED
  BY <1>1, <1>2, <1>3, <1>4, <1>5, <1>6, <1>7 DEF Next

\* The types of the request and of what the server makes of it
THEOREM RouterTypeCorrect == Spec => []TypeInv
<1> HIDE DEF TypeInv
<1>1. QED
  BY TypeInit, TypeInductive, PTL DEF Spec

-----------------------------------------------------------------------------
(* The query buffer *)

FitInv == TypeInv /\ QueryFits

\* No step leaves a query longer than its buffer.
LEMMA FitInductive == FitInv /\ [Next]_vars => FitInv'
<1> SUFFICES ASSUME FitInv, [Next]_vars PROVE FitInv'
  OBVIOUS
<1>1. TypeInv /\ TypeInv'
  BY TypeInductive DEF FitInv
<1>2. CASE UNCHANGED query
  BY <1>1, <1>2 DEF FitInv, QueryFits
<1>3. ASSUME AppendArgument, query' # query PROVE QueryFits'
  <2> DEFINE arg == args[next]
             piece == Piece(arg)
  <2>1. arg \in Arguments /\ query \in [text : Texts, cap : Nat, from : {"none", "built"}]
    BY <1>1, <1>3 DEF AppendArgument, TypeInv
  <2>2. /\ query'.text = IF query.text = <<>> THEN piece
                         ELSE query.text \o <<"&">> \o piece
        /\ query'.cap = CapFor(query, arg)
    <3>1. query' = [text |-> IF query.text = <<>> THEN piece
                             ELSE query.text \o <<"&">> \o piece,
                    cap |-> CapFor(query, arg), from |-> "built"]
      BY <1>3 DEF AppendArgument
    <3>2. QED
      BY <3>1
  <2>3. piece \in Texts /\ query.text \in Texts
    BY <2>1, PieceType
  <2>4. Len(query.text) + Len(piece) + (IF query.text = <<>> THEN 0 ELSE 1) + 1 <= CapFor(query, arg)
    BY <2>1, CapSuffices
  <2>5. CapFor(query, arg) \in Nat
    BY <2>1, CapSuffices
  <2> HIDE DEF piece, arg
  <2>6. Len(query'.text) = Len(query.text) + Len(piece) + (IF query.text = <<>> THEN 0 ELSE 1)
    <3>1. CASE query.text = <<>>
      BY <2>2, <2>3, <3>1 DEF Texts
    <3>2. CASE query.text # <<>>
      BY <2>2, <2>3, <3>2, RouterAssumption DEF Texts
    <3>3. QED
      BY <3>1, <3>2
  <2>7. QED
    BY <2>2, <2>3, <2>4, <2>5, <2>6 DEF QueryFits
<1>4. CASE query'.from # "built"
  BY <1>1, <1>4 DEF FitInv, QueryFits
<1>5. \/ UNCHANGED query
      \/ AppendArgument
      \/ query'.from # "built"
  BY DEF Next, Receive, ExtractPath, QueryBuilt, NoPath, RouteCollection, RouteItem,
         RouteInvalid, List, CleanUp, Forget, NoQuery, vars
<1>6. QED
  BY <1>1, <1>2, <1>3, <1>4, <1>5 DEF FitInv

\* Whatever arguments the client sends, the query built of them stays inside its
\* buffer.
THEOREM QueriesFit == Spec => []QueryFits
<1>1. Init => FitInv
  BY TypeInit DEF Init, NoQuery, FitInv, QueryFits
<1>2. FitInv => QueryFits
  BY DEF FitInv
<1> HIDE DEF FitInv
<1>3. QED
  BY <1>1, <1>2, FitInductive, PTL DEF Spec

-----------------------------------------------------------------------------
(* What is freed *)

\* Until it is cleaned up, a request with a path holds it, and the query if and
\* only if one has been built, and has freed nothing else.
HeldInv ==
    /\ TypeInv
    /\ stage \in {"idle", "path"} => path = None
    /\ stage = "path" => live = [b \in Buffers |-> 0]
    /\ stage \notin {"idle", "path"} =>
          /\ path # None => live["path"] = 1
          /\ live["query"] = IF query.from = "built" THEN 1 ELSE 0
          /\ live["url"] = 0

\* Every step frees what it holds exactly when the request is done with it.
LEMMA HeldInductive == HeldInv /\ [Next]_vars => HeldInv'
<1> SUFFICES ASSUME HeldInv, [Next]_vars PROVE HeldInv'
  OBVIOUS
<1>1. TypeInv /\ TypeInv'
  BY TypeInductive DEF HeldInv
<1>2. CASE UNCHANGED <<stage, path, query, live>>
  BY <1>1, <1>2 DEF HeldInv
<1>3. CASE \E r \in Requests : Receive(r)
  BY <1>1, <1>3 DEF HeldInv, Receive
<1>4. CASE ExtractPath
  <2>1. /\ path' # None => live'["path"] = 1
        /\ live'["query"] = 0 /\ live'["url"] = 0
    <3>1. live = [b \in Buffers |-> 0] /\ path = None
      BY <1>4 DEF ExtractPath, HeldInv
    <3>2. \/ live' = [live EXCEPT !["path"] = 1]
          \/ live' = live /\ path' = path
      BY <1>4 DEF ExtractPath
    <3>3. live' \in [Buffers -> Int]
      BY <1>1 DEF TypeInv
    <3>4. QED
      BY <3>1, <3>2 DEF Buffers
  <2>2. stage' \in {"query", "route"} /\ query'.from # "built"
    BY <1>4 DEF ExtractPath, NoQuery, HeldInv, TypeInv
  <2>3. QED
    BY <1>1, <2>1, <2>2 DEF HeldInv
<1>5. CASE AppendArgument
  <2>1. stage = "query" /\ stage' \in {"query", "route"} /\ path' = path
    BY <1>5 DEF AppendArgument
  <2>2. \/ query'.from = "built" /\ live' = [live EXCEPT !["query"] = 1]
        \/ query' = query /\ live' = live
    <3> DEFINE text == IF query.text = <<>> THEN Piece(args[next])
                       ELSE query.text \o <<"&">> \o Piece(args[next])
    <3>1. \/ /\ query' = [text |-> text, cap |-> CapFor(query, args[next]), from |-> "built"]
             /\ live' = [live EXCEPT !["query"] = 1]
          \/ query' = query /\ live' = live
      BY <1>5 DEF AppendArgument
    <3> HIDE DEF text
    <3>2. QED
      BY <3>1
  <2>3. QED
    BY <1>1, <2>1, <2>2 DEF HeldInv, TypeInv, Buffers
<1>6. CASE QueryBuilt \/ NoPath
  BY <1>1, <1>6 DEF HeldInv, QueryBuilt, NoPath
<1>7. CASE RouteCollection \/ RouteItem \/ RouteInvalid \/ List
  <2>1. stage \in {"route", "tag"} /\ stage' \in {"tag", "done"}
    BY <1>7 DEF RouteCollection, RouteItem, RouteInvalid, List, Reply
  <2>2. UNCHANGED <<path, query, live>>
    BY <1>7 DEF RouteCollection, RouteItem, RouteInvalid, List
  <2>3. QED
    BY <1>1, <2>1, <2>2 DEF HeldInv
<1>8. CASE CleanUp
  BY <1>1, <1>8 DEF HeldInv, CleanUp, Forget
<1>9. QED
  BY <1>2, <1>3, <1>4, <1>5, <1>6, <1>7, <1>8 DEF Next, vars

\* Only cleaning up ends a request, and what it held is then free.
LEMMA CleanUpFrees ==
    ASSUME HeldInv, [Next]_vars, stage = "done", stage' = "idle", path # None
    PROVE  \A b \in Buffers : live'[b] = 0
<1>1. CleanUp
  BY DEF Next, Receive, ExtractPath, AppendArgument, QueryBuilt, NoPath, RouteCollection,
         RouteItem, RouteInvalid, List, vars
<1>2. live' = [live EXCEPT !["path"] = @ - 1,
                           !["query"] = IF query.from = "built" THEN @ - 1 ELSE @]
  BY <1>1 DEF CleanUp
<1>3. live \in [Buffers -> Int] /\ live["path"] = 1 /\ live["url"] = 0
      /\ live["query"] = IF query.from = "built" THEN 1 ELSE 0
  BY DEF HeldInv, TypeInv
<1>4. QED
  BY <1>2, <1>3 DEF Buffers

\* A request that has a path frees the path and the query built for it, each
\* exactly once, and nothing that is not its own.
THEOREM BuffersFreed == Spec => BuffersAreFreedOnce
<1>1. Init => HeldInv
  BY TypeInit DEF Init, HeldInv
<1>2. HeldInv /\ [Next]_vars =>
        [stage = "done" /\ stage' = "idle" /\ path # None
            => \A b \in Buffers : live'[b] = 0]_vars
  BY CleanUpFrees
<1> HIDE DEF HeldInv
<1>3. QED
  BY <1>1, <1>2, HeldInductive, PTL DEF Spec, BuffersAreFreedOnce

-----------------------------------------------------------------------------
(* Routing *)

Slashes == {i \in DOMAIN path : path[i] = "/"}

\* The slashes of a collection path, and of an item path, are at most two.
LEMMA FewSlashes ==
    ASSUME Slashes \subseteq {1, 3} PROVE Cardinality(Slashes) <= 2
<1>1. IsFiniteSet({1, 3}) /\ Cardinality({1, 3}) = 2
  <2>1. IsFiniteSet({1}) /\ Cardinality({1}) = 1
    BY FS_Singleton
  <2>2. {1, 3} = {1} \cup {3}
    OBVIOUS
  <2>3. QED
    BY <2>1, <2>2, FS_AddElement
<1>2. Cardinality(Slashes) <= Cardinality({1, 3})
  BY <1>1, FS_Subset
<1>3. QED
  BY <1>1, <1>2

\* One more slash than those makes three.
LEMMA ManySlashes ==
    ASSUME path \in Texts, NEW i \in DOMAIN path, i > 3, {1, 3, i} \subseteq Slashes
    PROVE  ~ Cardinality(Slashes) <= 2
<1>1. IsFiniteSet({1, 3, i}) /\ Cardinality({1, 3, i}) = 3
  <2>1. IsFiniteSet({1}) /\ Cardinality({1}) = 1
    BY FS_Singleton
  <2>2. IsFiniteSet({1} \cup {3}) /\ Cardinality({1} \cup {3}) = 2
    BY <2>1, FS_AddElement
  <2>3. i \in Nat /\ i \notin {1} \cup {3}
    BY DEF Texts
  <2>4. {1, 3, i} = ({1} \cup {3}) \cup {i}
    OBVIOUS
  <2>5. QED
    BY <2>2, <2>3, <2>4, FS_AddElement, SMTT(30)
<1>2. IsFiniteSet(Slashes)
  <2>1. Len(path) \in Nat /\ Slashes \subseteq 1 .. Len(path)
    BY DEF Slashes, Texts
  <2>2. IsFiniteSet(1 .. Len(path))
    BY <2>1, FS_Interval
  <2>3. QED
    BY <2>1, <2>2, FS_Subset
<1>3. Cardinality({1, 3, i}) <= Cardinality(Slashes) /\ Cardinality(Slashes) \in Nat
  BY <1>2, FS_Subset, FS_CardinalityType
<1>4. QED
  BY <1>1, <1>3

\* A text begins with two given characters when its first two are these.
LEMMA FirstTwo ==
    ASSUME path \in Texts, Len(path) >= 2, NEW a, NEW b
    PROVE  SubSeq(path, 1, 2) = <<a, b>> <=> path[1] = a /\ path[2] = b
<1> DEFINE t == SubSeq(path, 1, 2)
<1>1. t \in Seq(Chars) /\ Len(t) = 2 /\ t[1] = path[1] /\ t[2] = path[2]
  BY DEF Texts
<1> HIDE DEF t
<1>2. t = <<a, b>> <=> t[1] = a /\ t[2] = b
  BY <1>1
<1>3. QED
  BY <1>1, <1>2 DEF t

\* And likewise with three.
LEMMA FirstThree ==
    ASSUME path \in Texts, Len(path) >= 3, NEW a, NEW b, NEW c
    PROVE  SubSeq(path, 1, 3) = <<a, b, c>> <=> path[1] = a /\ path[2] = b /\ path[3] = c
<1> DEFINE t == SubSeq(path, 1, 3)
<1>1. t \in Seq(Chars) /\ Len(t) = 3 /\ t[1] = path[1] /\ t[2] = path[2] /\ t[3] = path[3]
  BY DEF Texts
<1> HIDE DEF t
<1>2. t = <<a, b, c>> <=> t[1] = a /\ t[2] = b /\ t[3] = c
  BY <1>1
<1>3. QED
  BY <1>1, <1>2 DEF t

\* The router takes for a collection or an item exactly the paths the service
\* has.
LEMMA ServedIs ==
    ASSUME path \in Texts PROVE Served <=> IsCollection(path) \/ IsItem(path)
<1>1. ASSUME IsCollection(path) PROVE Served
  <2>1. Slashes \subseteq {1, 3}
    BY <1>1 DEF IsCollection, Slashes
  <2>2. Cardinality(Slashes) <= 2
    BY <2>1, FewSlashes
  <2>3. Len(path) \in {2, 3} /\ SubSeq(path, 1, 2) = <<"/", "notes">>
    <3>1. Len(path) \in {2, 3} /\ path[1] = "/" /\ path[2] = "notes"
      BY <1>1 DEF IsCollection
    <3>2. QED
      BY <3>1, FirstTwo
  <2>4. Len(path) > 2 => path[3] = "/"
    BY <1>1 DEF IsCollection
  <2>5. QED
    BY <2>2, <2>3, <2>4 DEF Served, Slashes
<1>2. ASSUME IsItem(path) PROVE Served
  <2>1. /\ path[1] = "/" /\ path[2] = "notes" /\ path[3] = "/" /\ Len(path) > 3
        /\ \A i \in 4 .. Len(path) : path[i] # "/"
    <3>1. Len(path) > 3 /\ SubSeq(path, 1, 3) = ItemPrefix
      BY <1>2 DEF IsItem
    <3>2. path[1] = "/" /\ path[2] = "notes" /\ path[3] = "/"
      BY <3>1, FirstThree DEF ItemPrefix
    <3>3. ASSUME NEW i \in 4 .. Len(path) PROVE path[i] # "/"
      <4>1. /\ SubSeq(path, 4, Len(path))[i - 3] = path[i]
            /\ i - 3 \in 1 .. Len(SubSeq(path, 4, Len(path)))
        BY <3>1 DEF Texts
      <4>2. QED
        BY <1>2, <4>1 DEF IsItem, Contains
    <3>4. QED
      BY <3>1, <3>2, <3>3
  <2>2. Slashes \subseteq {1, 3}
    BY <2>1 DEF Slashes, Texts
  <2>3. Cardinality(Slashes) <= 2
    BY <2>2, FewSlashes
  <2>4. SubSeq(path, 1, 2) = <<"/", "notes">>
    BY <2>1, FirstTwo
  <2>5. QED
    BY <2>1, <2>3, <2>4 DEF Served, Slashes
<1>3. ASSUME Served PROVE IsCollection(path) \/ IsItem(path)
  <2>1. /\ Len(path) >= 2 /\ SubSeq(path, 1, 2) = <<"/", "notes">>
        /\ Len(path) > 2 => path[3] = "/"
        /\ Cardinality(Slashes) <= 2
    BY <1>3 DEF Served, Slashes
  <2>2. Len(path) \in Nat /\ Len(path) >= 2
    BY <1>3 DEF Texts, Served
  <2>3. path[1] = "/" /\ path[2] = "notes"
    BY <2>1, FirstTwo
  <2>4. CASE Len(path) = 2
    BY <2>3, <2>4 DEF IsCollection, Texts
  <2>5. CASE Len(path) = 3
    BY <2>1, <2>3, <2>5 DEF IsCollection, Texts
  <2>6. CASE Len(path) > 3
    <3>1. SubSeq(path, 1, 3) = ItemPrefix
      BY <2>1, <2>3, <2>6, FirstThree DEF ItemPrefix
    <3>2. ~ Contains(SubSeq(path, 4, Len(path)), "/")
      <4>1. SUFFICES ASSUME NEW i \in 1 .. Len(SubSeq(path, 4, Len(path))),
                            SubSeq(path, 4, Len(path))[i] = "/"
                     PROVE  FALSE
        BY DEF Contains
      <4>2. i + 3 \in DOMAIN path /\ path[i + 3] = "/" /\ i + 3 > 3
        BY <2>6, <4>1 DEF Texts
      <4>3. {1, 3, i + 3} \subseteq Slashes
        BY <2>1, <2>3, <2>6, <4>2 DEF Slashes, Texts
      <4>4. QED
        BY <2>1, <4>2, <4>3, ManySlashes
    <3>3. QED
      BY <2>6, <3>1, <3>2 DEF IsItem
  <2>7. Len(path) = 2 \/ Len(path) = 3 \/ Len(path) > 3
    <3>1. \A n \in Nat : n >= 2 => n = 2 \/ n = 3 \/ n > 3
      OBVIOUS
    <3>2. QED
      BY <2>2, <3>1
  <2>8. QED
    BY <2>4, <2>5, <2>6, <2>7
<1>4. QED
  BY <1>1, <1>2, <1>3

RouteInv ==
    /\ TypeInv
    /\ stage = "tag" => path # None /\ IsCollection(path) /\ method = "GET"
    /\ RoutingIsRight

\* What the router answers a request with a path
LEMMA RouterIsRight ==
    ASSUME RouteInv, path # None, path' = path, method' = method,
           RouteCollection \/ RouteItem \/ RouteInvalid \/ (stage' = "done" /\ List)
    PROVE  RoutingIsRight'
<1>1. path \in Texts /\ Len(path) \in Nat
  BY DEF RouteInv, TypeInv, Texts
<1>2. (Served' <=> Served) /\ Extent' = Extent
  BY DEF Served, Extent
<1>3. Served <=> IsCollection(path) \/ IsItem(path)
  BY <1>1, ServedIs
<1>4. IsCollection(path) => ~ Len(path) > 3
  <2>1. Len(<<"/", "notes">>) = 2 /\ Len(<<"/", "notes", "/">>) = 3
    OBVIOUS
  <2>2. IsCollection(path) => Len(path) = 2 \/ Len(path) = 3
    BY <2>1 DEF IsCollection
  <2>3. ~ 2 > 3 /\ ~ 3 > 3
    OBVIOUS
  <2>4. QED
    BY <2>2, <2>3
<1>5. CASE RouteCollection
  <2>1. Served /\ Extent = "all"
    BY <1>3, <1>4, <1>5 DEF RouteCollection, Extent
  <2>2. \/ answer'.by = "create" /\ method = "POST"
        \/ stage' = "tag"
        \/ answer'.by = "405" /\ method \notin {"GET", "POST"}
    BY <1>5 DEF RouteCollection, Reply
  <2>3. /\ stage' # "tag" /\ answer'.by = "405" =>
                \A by \in Handlers : <<method, Extent, by>> \notin Routes
        /\ stage' # "tag" /\ answer'.by # "405" => <<method, Extent, answer'.by>> \in Routes
    BY <2>1, <2>2 DEF Routes
  <2>4. answer'.by # "404" \/ stage' = "tag"
    BY <2>2
  <2>5. stage' = "tag" => stage' # "done"
    OBVIOUS
  <2>6. answer'.by \notin {"get", "update", "delete"} \/ stage' = "tag"
    BY <2>2
  <2>7. QED
    BY <1>2, <2>1, <2>3, <2>4, <2>5, <2>6 DEF RoutingIsRight
<1>6. CASE RouteItem
  <2> DEFINE id == SubSeq(path, 4, Len(path))
             handler == CASE method = "GET"    -> "get"
                          [] method = "PUT"    -> "update"
                          [] method = "DELETE" -> "delete"
                          [] OTHER             -> "405"
  <2>1. IsItem(path) /\ Served /\ Len(path) > 3 /\ Extent = "one" /\ ~ Contains(id, "/")
    BY <1>3, <1>6 DEF RouteItem, IsItem, Extent
  <2>2. path = ItemPrefix \o id /\ id # <<>>
    <3>1. /\ path[1] = "/" /\ path[2] = "notes" /\ path[3] = "/"
      <4>1. SubSeq(path, 1, 3) = <<"/", "notes", "/">>
        BY <2>1 DEF IsItem, ItemPrefix
      <4>2. QED
        BY <1>1, <2>1, <4>1, FirstThree
    <3>2. id \in Seq(Chars) /\ Len(id) = Len(path) - 3
          /\ \A i \in 1 .. Len(id) : id[i] = path[i + 3]
      BY <1>1, <2>1 DEF Texts
    <3> DEFINE t == ItemPrefix \o id
               S == Chars \cup {"/", "notes"}
    <3>3. /\ t \in Seq(S)
          /\ Len(t) = Len(id) + 3 /\ t[1] = "/" /\ t[2] = "notes" /\ t[3] = "/"
          /\ \A i \in 4 .. Len(t) : t[i] = id[i - 3]
      <4> HIDE DEF id
      <4>1. QED
        BY <3>2 DEF ItemPrefix
    <3> HIDE DEF t, id
    <3>4. Len(t) = Len(path)
      BY <1>1, <3>2, <3>3
    <3>5. \A i \in 1 .. Len(path) : path[i] = t[i]
      BY <1>1, <2>1, <3>1, <3>2, <3>3, <3>4
    <3>6. path \in Seq(S)
      BY <1>1 DEF Texts
    <3> HIDE DEF S
    <3>7. path = t
      BY <3>3, <3>4, <3>5, <3>6, SeqEqual
    <3>8. id # <<>>
      BY <1>1, <2>1, <3>2
    <3>9. QED
      BY <3>7, <3>8 DEF t
  <2> HIDE DEF id
  <2>3. \/ answer' = [by |-> handler, id |-> IF handler = "405" THEN None ELSE id, tag |-> None]
        \/ answer' = [by |-> "404", id |-> None, tag |-> None] /\ short'
    BY <1>6 DEF RouteItem, Reply, Failing, id
  <2>4. /\ handler \in {"get", "update", "delete", "405"}
        /\ handler = "405" => method \notin {"GET", "PUT", "DELETE"}
        /\ handler # "405" => <<method, "one", handler>> \in Routes
    BY DEF Routes
  <2> HIDE DEF handler
  <2>5. /\ answer'.by = "404" => short'
        /\ answer'.by = "405" => method \notin {"GET", "PUT", "DELETE"}
        /\ answer'.by \notin {"404", "405"} => <<method, "one", answer'.by>> \in Routes
        /\ answer'.by \in {"get", "update", "delete"} => answer'.id = id
    BY <2>3, <2>4
  <2>7. answer'.by = "405" => \A by \in Handlers : <<method, "one", by>> \notin Routes
    BY <2>5 DEF Routes
  <2>6. QED
    BY <1>2, <2>1, <2>2, <2>5, <2>7 DEF RoutingIsRight
<1>7. CASE RouteInvalid
  BY <1>2, <1>3, <1>7 DEF RouteInvalid, Reply, RoutingIsRight
<1>8. CASE stage' = "done" /\ List
  <2>1. IsCollection(path) /\ method = "GET" /\ answer'.by = "list"
    BY <1>8 DEF List, Reply, RouteInv
  <2>2. Served /\ <<method, Extent, answer'.by>> \in Routes
    BY <1>3, <1>4, <2>1 DEF Extent, Routes
  <2>3. QED
    BY <1>2, <2>1, <2>2 DEF RoutingIsRight
<1>9. QED
  BY <1>5, <1>6, <1>7, <1>8

\* No step makes the handler that answers another than the one the path names.
LEMMA RouteInductive == RouteInv /\ [Next]_vars => RouteInv'
<1> SUFFICES ASSUME RouteInv, [Next]_vars PROVE RouteInv'
  OBVIOUS
<1>1. TypeInv /\ TypeInv'
  BY TypeInductive DEF RouteInv
<1>2. CASE UNCHANGED vars
  BY <1>1, <1>2 DEF RouteInv, RoutingIsRight, Served, Extent, vars
<1>3. CASE \/ \E r \in Requests : Receive(r)
           \/ ExtractPath \/ AppendArgument \/ QueryBuilt \/ CleanUp
  <2>1. stage' \notin {"tag", "done"}
    BY <1>3 DEF Receive, ExtractPath, AppendArgument, QueryBuilt, CleanUp, Forget
  <2>2. QED
    BY <1>1, <2>1 DEF RouteInv, RoutingIsRight
<1>4. CASE NoPath
  BY <1>1, <1>4 DEF NoPath, RouteInv, RoutingIsRight
<1>5. CASE RouteCollection \/ RouteItem \/ RouteInvalid \/ List
  <2>1. path # None /\ path' = path /\ method' = method
    BY <1>5 DEF RouteInv, RouteCollection, RouteItem, RouteInvalid, List
  <2>2. stage' = "done" => RoutingIsRight'
    BY <1>5, <2>1, RouterIsRight DEF RouteCollection
  <2>3. stage' = "tag" => IsCollection(path) /\ method = "GET"
    BY <1>5 DEF RouteCollection, RouteItem, RouteInvalid, List, Reply
  <2>4. QED
    BY <1>1, <2>1, <2>2, <2>3 DEF RouteInv, RoutingIsRight
<1>6. QED
  BY <1>2, <1>3, <1>4, <1>5 DEF Next

\* Every path and method gets the handler, or the error, that the service has
\* for it (GET, PUT and DELETE of one note, GET and POST of all), and an item
\* handler the id from the path.
THEOREM RoutesRight == Spec => []RoutingIsRight
<1>1. Init => RouteInv
  BY TypeInit DEF Init, RouteInv, RoutingIsRight
<1>2. RouteInv => RoutingIsRight
  BY DEF RouteInv
<1> HIDE DEF RouteInv
<1>3. QED
  BY <1>1, <1>2, RouteInductive, PTL DEF Spec

(***************************************************************************)
(* The tag.                                                                *)
(***************************************************************************)

\* The least of some numbers, which is one of them.
LEMMA MinIs ==
    ASSUME NEW S \in SUBSET Nat, S # {}
    PROVE  /\ Min(S) \in S /\ \A i \in S : Min(S) <= i
           /\ \A m \in S : (\A i \in S : m <= i) => m = Min(S)
<1>1. \E x \in S : \A y \in S : x <= y
  BY LeastMember
<1>2. Min(S) \in S /\ \A i \in S : Min(S) <= i
  BY <1>1 DEF Min
<1>3. ASSUME NEW m \in S, \A i \in S : m <= i PROVE m = Min(S)
  <2>1. \A a, b \in Nat : a <= b /\ b <= a => a = b
    OBVIOUS
  <2>2. QED
    BY <1>2, <1>3, <2>1
<1>4. QED
  BY <1>2, <1>3

\* What ends where the character first stands is what comes before it.
LEMMA BeforeUnique ==
    ASSUME NEW S, NEW s \in Seq(S), NEW c, NEW n \in 0 .. Len(s),
           \A i \in 1 .. n : s[i] # c, n < Len(s) => s[n + 1] = c
    PROVE  Before(s, c) = SubSeq(s, 1, n)
<1>1. PICK m \in 0 .. Len(s) : /\ Before(s, c) = SubSeq(s, 1, m)
                               /\ \A i \in 1 .. m : s[i] # c
                               /\ m < Len(s) => s[m + 1] = c
  BY BeforeIs
<1>2. ~ m < n
  BY <1>1
<1>3. ~ n < m
  BY <1>1
<1>4. QED
  BY <1>1, <1>2, <1>3

\* The pair that begins at i ends before the next "&", or with the text.
LEMMA PairIs ==
    ASSUME NEW text \in Texts, NEW i \in DOMAIN text, NEW e \in i .. Len(text) + 1,
           \A j \in i .. e - 1 : text[j] # "&", e <= Len(text) => text[e] = "&"
    PROVE  PairAt(text, i) = SubSeq(text, i, e - 1)
<1> DEFINE k == Len(text)
           r == SubSeq(text, i, k)
           n == e - i
<1>1. /\ k \in Nat /\ i \in Nat /\ e \in Nat /\ 1 <= i /\ i <= e /\ e <= k + 1
      /\ \A j \in 1 .. k : text[j] \in Chars
  BY DEF Texts
<1>2. i <= k
  BY DEF Texts
<1>3. r \in Seq(Chars) /\ Len(r) = k - i + 1 /\ \A j \in 1 .. k - i + 1 : r[j] = text[i + j - 1]
  <2>1. \A j \in i .. k : text[j] \in Chars
    BY <1>1
  <2> HIDE DEF k
  <2>2. QED
    BY <1>1, <1>2, <2>1, SubSeqProperties
<1> HIDE DEF r, k
<1>4. n \in 0 .. Len(r) /\ n \in Nat /\ Len(r) \in Nat
  BY <1>1, <1>2, <1>3
<1>5. \A j \in 1 .. n : j \in 1 .. k - i + 1 /\ i + j - 1 \in i .. e - 1
  BY <1>1, <1>2
<1>6. \A j \in 1 .. n : r[j] # "&"
  BY <1>3, <1>5
<1>7. ASSUME n < Len(r) PROVE r[n + 1] = "&"
  <2>1. n + 1 \in 1 .. k - i + 1 /\ i + (n + 1) - 1 = e /\ e <= k
    BY <1>1, <1>2, <1>3, <1>7
  <2>2. QED
    BY <1>3, <2>1 DEF k
<1>8. Before(r, "&") = SubSeq(r, 1, n)
  <2> HIDE DEF n
  <2>1. QED
    BY <1>3, <1>4, <1>6, <1>7, BeforeUnique
<1>9. SubSeq(r, 1, n) = SubSeq(text, i, e - 1)
  <2>1. /\ SubSeq(r, 1, n) \in Seq(Chars) /\ Len(SubSeq(r, 1, n)) = n
        /\ \A j \in 1 .. n : SubSeq(r, 1, n)[j] = r[j]
    <3> HIDE DEF n
    <3>1. QED
      BY <1>3, <1>4
  <2>2. /\ SubSeq(text, i, e - 1) \in Seq(Chars) /\ Len(SubSeq(text, i, e - 1)) = n
        /\ \A j \in 1 .. n : SubSeq(text, i, e - 1)[j] = text[i + j - 1]
    <3>1. \A j \in i .. e - 1 : text[j] \in Chars
      BY <1>1
    <3>2. /\ SubSeq(text, i, e - 1) \in Seq(Chars)
          /\ Len(SubSeq(text, i, e - 1)) = IF i <= e - 1 THEN e - 1 - i + 1 ELSE 0
          /\ \A j \in 1 .. e - 1 - i + 1 : SubSeq(text, i, e - 1)[j] = text[i + j - 1]
      BY <1>1, <3>1, SubSeqProperties, SMTT(30)
    <3>3. e - 1 - i + 1 = n /\ (~ i <= e - 1 => n = 0)
      BY <1>1
    <3>4. QED
      BY <3>2, <3>3
  <2>3. \A j \in 1 .. n : SubSeq(r, 1, n)[j] = SubSeq(text, i, e - 1)[j]
    BY <1>3, <1>5, <2>1, <2>2
  <2> HIDE DEF n
  <2>4. QED
    BY <2>1, <2>2, <2>3, SeqEqual
<1>10. QED
  BY <1>8, <1>9 DEF PairAt, r, k

\* From each position on there is a next "&", or the end of the text.
LEMMA PairEnd ==
    ASSUME NEW text \in Texts, NEW i \in DOMAIN text
    PROVE  \E e \in i .. Len(text) + 1 : /\ \A j \in i .. e - 1 : text[j] # "&"
                                         /\ e <= Len(text) => text[e] = "&"
<1> DEFINE ends == {e \in i .. Len(text) : text[e] = "&"}
<1>1. Len(text) \in Nat /\ i \in 1 .. Len(text)
  BY DEF Texts
<1>2. CASE ends = {}
  <2>1. Len(text) + 1 \in i .. Len(text) + 1 /\ ~ Len(text) + 1 <= Len(text)
        /\ \A j \in i .. (Len(text) + 1) - 1 : text[j] # "&"
    BY <1>1, <1>2
  <2>2. QED
    BY <2>1
<1>3. CASE ends # {}
  <2>1. ends \in SUBSET Nat
    BY <1>1
  <2>2. PICK e \in ends : \A d \in ends : e <= d
    <3> HIDE DEF ends
    <3>1. QED
      BY <1>3, <2>1, LeastMember
  <2>3. QED
    BY <1>1, <2>2
<1>4. QED
  BY <1>2, <1>3


\* Text without "+" and "%" is what it decodes to.
LEMMA DecodePlain ==
    ASSUME NEW s \in Texts, \A i \in DOMAIN s : s[i] \notin {"+", "%"}
    PROVE  UrlDecode(s) = s
<1> DEFINE n == Len(s)
           escape(i) == /\ s[i] = "%" /\ i + 2 <= Len(s)
                        /\ s[i + 1] \in Hex /\ s[i + 2] \in Hex
           Body(f) == [i \in 1 .. Len(s) + 1 |->
                         IF i > Len(s) THEN <<>>
                         ELSE IF escape(i)
                         THEN <<CharOf[<<s[i + 1], s[i + 2]>>]>> \o f[i + 3]
                         ELSE <<IF s[i] = "+" THEN " " ELSE s[i]>> \o f[i + 1]]
           Rest == [i \in 1 .. n + 1 |-> SubSeq(s, i, n)]
<1>1. n \in Nat /\ s \in Seq(Chars)
  BY DEF Texts
<1>2. \A i \in 1 .. n : ~ escape(i) /\ s[i] # "+"
  BY <1>1
<1>3. \A i \in 1 .. n : SubSeq(s, i, n) = <<s[i]>> \o SubSeq(s, i + 1, n)
  BY <1>1
<1>4. ASSUME NEW f PROVE Body(f) = [i \in 1 .. n + 1 |-> IF i > n THEN <<>> ELSE <<s[i]>> \o f[i + 1]]
  <2> HIDE DEF escape
  <2>1. ASSUME NEW i \in 1 .. n + 1, ~ i > n PROVE ~ escape(i) /\ s[i] # "+"
    BY <1>1, <1>2, <2>1
  <2>2. QED
    BY <2>1
<1>5. Rest = Body(Rest)
  <2>1. \A i \in 1 .. n + 1 : i > n => SubSeq(s, i, n) = <<>>
    BY <1>1
  <2>2. \A i \in 1 .. n : i + 1 \in 1 .. n + 1 /\ Rest[i + 1] = SubSeq(s, i + 1, n)
    BY <1>1
  <2>3. \A i \in 1 .. n + 1 : ~ i > n => i \in 1 .. n
    BY <1>1
  <2> DEFINE Plainly == [i \in 1 .. n + 1 |-> IF i > n THEN <<>> ELSE <<s[i]>> \o Rest[i + 1]]
  <2>4. Rest = Plainly
    BY <1>3, <2>1, <2>2, <2>3
  <2> HIDE DEF Body, Rest
  <2>5. QED
    BY <1>4, <2>4
<1>6. ASSUME NEW f, f = Body(f) PROVE f[1] = s
  <2>1. \A i \in 1 .. n + 1 : f[i] = IF i > n THEN <<>> ELSE <<s[i]>> \o f[i + 1]
    <3> HIDE DEF Body
    <3>1. f = [i \in 1 .. n + 1 |-> IF i > n THEN <<>> ELSE <<s[i]>> \o f[i + 1]]
      BY <1>4, <1>6
    <3>2. QED
      BY <3>1
  <2> DEFINE Wrong == {i \in 1 .. n + 1 : f[i] # SubSeq(s, i, n)}
  <2>2. Wrong = {}
    <3> SUFFICES ASSUME Wrong # {} PROVE FALSE
      OBVIOUS
    <3>1. PICK i \in Wrong : \A j \in Wrong : j <= i
      <4>1. Wrong \in SUBSET (0 .. n + 1) /\ n + 1 \in Nat
        BY <1>1
      <4> HIDE DEF Wrong
      <4>2. QED
        BY <4>1, GreatestMember
    <3> HIDE DEF Body
    <3>2. i \in 1 .. n
      <4>1. n + 1 \in 1 .. n + 1 /\ n + 1 > n /\ SubSeq(s, n + 1, n) = <<>>
        BY <1>1
      <4>2. f[n + 1] = <<>>
        BY <2>1, <4>1
      <4>3. i # n + 1 /\ i \in 1 .. n + 1
        BY <3>1, <4>1, <4>2
      <4>4. QED
        BY <1>1, <4>3
    <3>3. i + 1 \in 1 .. n + 1 /\ i + 1 \notin Wrong
      BY <1>1, <3>1, <3>2
    <3>4. f[i + 1] = SubSeq(s, i + 1, n)
      BY <3>3
    <3>5. i \in 1 .. n + 1 /\ ~ i > n
      BY <1>1, <3>2
    <3>6. f[i] = <<s[i]>> \o f[i + 1]
      BY <2>1, <3>5
    <3>7. QED
      BY <1>3, <3>1, <3>2, <3>4, <3>6
  <2>3. 1 \in 1 .. n + 1 /\ 1 \notin Wrong
    BY <1>1, <2>2
  <2>4. f[1] = SubSeq(s, 1, n)
    BY <2>3
  <2>5. QED
    BY <1>1, <2>4
<1>7. UrlDecode(s) = (CHOOSE f : f = Body(f))[1]
  BY DEF UrlDecode
<1>8. QED
  <2> HIDE DEF Body
  <2>1. QED
    BY <1>5, <1>6, <1>7

\* A piece without "&" is one pair, if it is not empty.
LEMMA OnePair ==
    ASSUME NEW piece \in Texts, \A j \in DOMAIN piece : piece[j] # "&"
    PROVE  /\ PairStarts(piece) = IF piece = <<>> THEN {} ELSE {1}
           /\ piece # <<>> => PairAt(piece, 1) = piece
<1>1. Len(piece) \in Nat /\ DOMAIN piece = 1 .. Len(piece) /\ (piece = <<>> <=> Len(piece) = 0)
  BY DEF Texts
<1>2. PairStarts(piece) = IF piece = <<>> THEN {} ELSE {1}
  <2>1. \A i \in DOMAIN piece : i # 1 => i - 1 \in DOMAIN piece
    BY <1>1
  <2>2. 1 \in DOMAIN piece <=> piece # <<>>
    BY <1>1
  <2>3. QED
    BY <1>1, <2>1, <2>2 DEF PairStarts
<1>3. ASSUME piece # <<>> PROVE PairAt(piece, 1) = piece
  <2> DEFINE e == Len(piece) + 1
  <2>1. /\ 1 \in DOMAIN piece /\ e \in 1 .. Len(piece) + 1 /\ ~ e <= Len(piece)
        /\ e - 1 = Len(piece) /\ \A j \in 1 .. e - 1 : piece[j] # "&"
    BY <1>1, <1>3
  <2> HIDE DEF e
  <2>2. PairAt(piece, 1) = SubSeq(piece, 1, e - 1)
    BY <2>1, PairIs
  <2>3. SubSeq(piece, 1, Len(piece)) = piece
    BY SubSeqFull DEF Texts
  <2>4. QED
    BY <2>1, <2>2, <2>3
<1>4. QED
  BY <1>2, <1>3

\* What joining a piece to a text that is not empty makes of the pairs
LEMMA JoinedPairs ==
    ASSUME NEW text \in Texts, NEW piece \in Texts, NEW t \in Texts, text # <<>>,
           \A j \in DOMAIN piece : piece[j] # "&", t = text \o <<"&">> \o piece
    PROVE  /\ \A i \in PairStarts(text) : i \in PairStarts(t) /\ PairAt(t, i) = PairAt(text, i)
           /\ piece # <<>> => /\ Len(text) + 2 \in PairStarts(t)
                              /\ PairAt(t, Len(text) + 2) = piece
           /\ \A i \in PairStarts(t) :
                 \/ i \in PairStarts(text)
                 \/ PairAt(t, i) = <<>>
                 \/ i = Len(text) + 2 /\ piece # <<>>
<1> DEFINE n == Len(text)
           m == Len(piece)
<1>1. /\ n \in Nat /\ m \in Nat /\ n >= 1
      /\ DOMAIN text = 1 .. n /\ DOMAIN piece = 1 .. m
      /\ DOMAIN t = 1 .. Len(t) /\ Len(t) = n + 1 + m
      /\ piece = <<>> <=> m = 0
  BY DEF Texts
<1>2. /\ \A i \in 1 .. n : t[i] = text[i]
      /\ t[n + 1] = "&"
      /\ \A i \in 1 .. m : t[n + 1 + i] = piece[i]
  BY DEF Texts
<1> HIDE DEF n, m
<1>3. ASSUME NEW i \in PairStarts(text) PROVE i \in PairStarts(t) /\ PairAt(t, i) = PairAt(text, i)
  <2>1. i \in 1 .. n /\ (i = 1 \/ text[i - 1] = "&")
    BY <1>1 DEF PairStarts
  <2>2. i # 1 => i - 1 \in 1 .. n
    BY <1>1, <2>1
  <2>3. i \in DOMAIN t
    BY <1>1, <2>1
  <2>4. i \in PairStarts(t)
    BY <1>2, <2>1, <2>2, <2>3 DEF PairStarts
  <2>5. PICK e \in i .. n + 1 : /\ \A j \in i .. e - 1 : text[j] # "&"
                                /\ e <= n => text[e] = "&"
    BY <1>1, <2>1, PairEnd DEF n
  <2>6. PairAt(text, i) = SubSeq(text, i, e - 1)
    BY <1>1, <2>1, <2>5, PairIs DEF n
  <2>7. \A j \in i .. e - 1 : j \in 1 .. n
    BY <1>1, <2>1, <2>5
  <2>8. e \in 1 .. n \/ e = n + 1
    BY <1>1, <2>1, <2>5
  <2>9. /\ e \in i .. Len(t) + 1 /\ t[e] = "&"
        /\ \A j \in i .. e - 1 : t[j] # "&"
    BY <1>1, <1>2, <2>1, <2>5, <2>7, <2>8
  <2>10. PairAt(t, i) = SubSeq(t, i, e - 1)
    BY <2>3, <2>9, PairIs
  <2>11. SubSeq(t, i, e - 1) = SubSeq(text, i, e - 1)
    <3>1. \A j \in i .. e - 1 : t[j] = text[j]
      BY <1>2, <2>7
    <3>2. QED
      BY <1>1, <2>1, <2>5, <2>7, <3>1 DEF Texts
  <2>12. QED
    BY <2>4, <2>6, <2>10, <2>11
<1>4. ASSUME piece # <<>> PROVE n + 2 \in PairStarts(t) /\ PairAt(t, n + 2) = piece
  <2>1. m >= 1 /\ n + 2 \in DOMAIN t /\ (n + 2) - 1 = n + 1
    BY <1>1, <1>4
  <2>2. n + 2 \in PairStarts(t)
    BY <1>2, <2>1 DEF PairStarts
  <2> DEFINE e == Len(t) + 1
  <2>3. /\ e \in n + 2 .. Len(t) + 1 /\ ~ e <= Len(t) /\ e - 1 = Len(t)
    BY <1>1, <2>1
  <2>4. ASSUME NEW j \in n + 2 .. e - 1 PROVE t[j] # "&"
    <3>1. j - (n + 1) \in 1 .. m /\ n + 1 + (j - (n + 1)) = j
      BY <1>1, <2>3
    <3>2. QED
      BY <1>1, <1>2, <3>1
  <2> HIDE DEF e
  <2>5. PairAt(t, n + 2) = SubSeq(t, n + 2, e - 1)
    BY <2>1, <2>3, <2>4, PairIs
  <2>6. SubSeq(t, n + 2, Len(t)) = piece
    <3> DEFINE r == SubSeq(t, n + 2, Len(t))
    <3>1. \A i \in n + 2 .. Len(t) : t[i] \in Chars
      BY <1>1 DEF Texts
    <3>2. /\ r \in Seq(Chars)
          /\ Len(r) = IF n + 2 <= Len(t) THEN Len(t) - (n + 2) + 1 ELSE 0
          /\ \A i \in 1 .. Len(t) - (n + 2) + 1 : r[i] = t[n + 2 + i - 1]
      BY <1>1, <3>1, SubSeqProperties
    <3> HIDE DEF r
    <3>3. Len(r) = m /\ \A i \in 1 .. m : r[i] = t[n + 1 + i]
      <4>1. n + 2 <= Len(t) /\ Len(t) - (n + 2) + 1 = m /\ \A i \in 1 .. m : n + 2 + i - 1 = n + 1 + i
        BY <1>1, <2>1
      <4>2. QED
        BY <3>2, <4>1
    <3>4. r = piece
      <4>1. Len(r) = Len(piece) /\ \A i \in 1 .. Len(r) : r[i] = piece[i]
        BY <1>1, <1>2, <3>3 DEF m
      <4>2. QED
        BY <3>2, <4>1, SeqEqual DEF Texts
    <3>5. QED
      BY <3>4 DEF r
  <2>7. QED
    BY <2>2, <2>3, <2>5, <2>6
<1>5. ASSUME NEW i \in PairStarts(t)
      PROVE  \/ i \in PairStarts(text)
             \/ PairAt(t, i) = <<>>
             \/ i = n + 2 /\ piece # <<>>
  <2>1. i \in 1 .. n + 1 + m /\ (i = 1 \/ t[i - 1] = "&")
    BY <1>1 DEF PairStarts
  <2>2. CASE i \in 1 .. n
    <3>1. i = 1 \/ i - 1 \in 1 .. n
      BY <1>1, <2>2
    <3>2. QED
      BY <1>1, <1>2, <2>1, <2>2, <3>1 DEF PairStarts
  <2>3. CASE i = n + 1
    <3>1. i \in DOMAIN t /\ i \in i .. Len(t) + 1 /\ t[i] = "&" /\ \A j \in i .. i - 1 : t[j] # "&"
      BY <1>1, <1>2, <2>3
    <3>2. PairAt(t, i) = SubSeq(t, i, i - 1)
      BY <3>1, PairIs
    <3>3. SubSeq(t, i, i - 1) = <<>>
      BY <1>1, <2>3, SubSeqEmpty
    <3>4. QED
      BY <3>2, <3>3
  <2>4. CASE i \in n + 2 .. n + 1 + m
    <3>1. \/ i = n + 2
          \/ /\ i - 1 - (n + 1) \in 1 .. m
             /\ n + 1 + (i - 1 - (n + 1)) = i - 1
             /\ i # 1
      BY <1>1, <2>4
    <3>2. m # 0
      BY <1>1, <2>4
    <3>3. ASSUME i # n + 2 PROVE FALSE
      <4> DEFINE j == i - 1 - (n + 1)
      <4>1. j \in 1 .. m /\ n + 1 + j = i - 1 /\ i # 1
        BY <3>1, <3>3
      <4> HIDE DEF j
      <4>2. t[i - 1] = piece[j] /\ piece[j] # "&"
        BY <1>1, <1>2, <4>1
      <4>3. QED
        BY <2>1, <4>1, <4>2
    <3>4. QED
      BY <1>1, <3>2, <3>3
  <2>5. QED
    BY <1>1, <2>1, <2>2, <2>3, <2>4
<1>6. QED
  BY <1>3, <1>4, <1>5 DEF n

\* An argument can be read back from the piece made of it.
LEMMA PieceParts ==
    ASSUME NEW arg \in Arguments, Plain(arg)
    PROVE  /\ \A j \in DOMAIN Piece(arg) : Piece(arg)[j] # "&"
           /\ Before(Piece(arg), "=") = arg.key
           /\ After(Piece(arg), "=") = arg.value
<1> DEFINE key == arg.key
           value == arg.value
           p == Piece(arg)
           n == Len(key)
           m == Len(value)
<1>1. /\ key \in Texts /\ value \in Texts /\ n \in Nat /\ m \in Nat
      /\ \A j \in 1 .. n : key[j] # "&" /\ key[j] # "="
      /\ \A j \in 1 .. m : value[j] # "&"
  <2>1. key \in Texts /\ value \in Texts
    BY DEF Arguments
  <2>2. /\ \A j \in DOMAIN key : key[j] \notin Special
        /\ \A j \in DOMAIN value : value[j] \notin Special \ {"=", " "}
    BY DEF Plain
  <2> HIDE DEF key, value
  <2>3. n \in Nat /\ m \in Nat /\ DOMAIN key = 1 .. n /\ DOMAIN value = 1 .. m
    BY <2>1 DEF Texts
  <2> HIDE DEF n, m
  <2>4. QED
    BY <2>1, <2>2, <2>3 DEF Special
<1>2. p \in Seq(Chars)
  BY PieceType DEF Texts
<1>3. CASE value = <<>>
  <2>1. p = key /\ m = 0
    BY <1>3 DEF Piece
  <2> HIDE DEF p
  <2>2. \A j \in DOMAIN p : p[j] # "&"
    BY <1>1, <2>1 DEF Texts
  <2>3. Before(p, "=") = SubSeq(p, 1, n)
    BY <1>1, <1>2, <2>1, BeforeUnique
  <2>4. SubSeq(p, 1, n) = key
    BY <1>1, <2>1, SubSeqFull DEF Texts
  <2>5. After(p, "=") = SubSeq(p, n + 2, n)
    BY <2>1, <2>3, <2>4 DEF After
  <2>6. SubSeq(p, n + 2, n) = <<>>
    BY <1>1, SubSeqEmpty
  <2>7. QED
    BY <1>3, <2>2, <2>3, <2>4, <2>5, <2>6 DEF p
<1>4. CASE value # <<>>
  <2>1. p = key \o (<<"=">> \o value)
    BY <1>4 DEF Piece
  <2>2. /\ Len(p) = n + 1 + m /\ DOMAIN p = 1 .. n + 1 + m
        /\ \A j \in 1 .. n : p[j] = key[j]
        /\ p[n + 1] = "="
        /\ \A j \in 1 .. m : p[n + 1 + j] = value[j]
    <3> HIDE DEF p
    <3> DEFINE q == <<"=">> \o value
    <3>1. /\ q \in Seq(Chars) /\ Len(q) = m + 1 /\ q[1] = "="
          /\ \A j \in 1 .. m : q[j + 1] = value[j]
      BY <1>1, RouterAssumption DEF Texts
    <3>2. p = key \o q /\ key \in Seq(Chars) /\ n = Len(key)
      BY <1>1, <2>1 DEF Texts
    <3> HIDE DEF q, key, n, m
    <3>3. /\ Len(p) = n + (m + 1) /\ DOMAIN p = 1 .. Len(p)
          /\ \A j \in 1 .. n : p[j] = key[j]
          /\ \A j \in 1 .. m + 1 : p[n + j] = q[j]
      <4>1. Len(p) = n + (m + 1)
        BY <1>1, <3>1, <3>2
      <4>2. DOMAIN p = 1 .. Len(p)
        BY <1>2
      <4>3. \A j \in 1 .. n : p[j] = key[j]
        BY <1>1, <3>1, <3>2
      <4>4. ASSUME NEW j \in 1 .. m + 1 PROVE p[n + j] = q[j]
        <5>1. n + j \in 1 .. n + (m + 1) /\ ~ n + j <= n /\ (n + j) - n = j
          BY <1>1
        <5>2. QED
          BY <1>1, <3>1, <3>2, <5>1, ConcatProperties
      <4>5. QED
        BY <4>1, <4>2, <4>3, <4>4
    <3>4. 1 \in 1 .. m + 1 /\ \A j \in 1 .. m : j + 1 \in 1 .. m + 1 /\ n + (j + 1) = n + 1 + j
      BY <1>1
    <3>5. n + (m + 1) = n + 1 + m
      BY <1>1
    <3>6. ASSUME NEW j \in 1 .. m PROVE p[n + 1 + j] = value[j]
      <4>1. p[n + (j + 1)] = q[j + 1]
        BY <3>3, <3>4
      <4>2. QED
        BY <3>1, <3>4, <4>1
    <3>7. p[n + 1] = "="
      BY <3>1, <3>3, <3>4
    <3>8. QED
      BY <3>3, <3>5, <3>6, <3>7
  <2> HIDE DEF p, n, m
  <2>3. ASSUME NEW j \in DOMAIN p PROVE p[j] # "&"
    <3>1. \/ j \in 1 .. n \/ j = n + 1
          \/ j - (n + 1) \in 1 .. m /\ n + 1 + (j - (n + 1)) = j
      BY <1>1, <2>2
    <3>2. QED
      BY <1>1, <2>2, <3>1, ZenonT(60)
  <2>4. Before(p, "=") = SubSeq(p, 1, n)
    <3>1. n \in 0 .. Len(p) /\ (\A j \in 1 .. n : p[j] # "=") /\ p[n + 1] = "="
      BY <1>1, <2>2
    <3>2. QED
      BY <1>2, <3>1, BeforeUnique
  <2>5. SubSeq(p, 1, n) = key
    <3> DEFINE r == SubSeq(p, 1, n)
    <3>1. \A j \in 1 .. n : p[j] \in Chars
      BY <1>1, <2>2 DEF Texts, n
    <3>2. /\ r \in Seq(Chars) /\ Len(r) = IF 1 <= n THEN n - 1 + 1 ELSE 0
          /\ \A j \in 1 .. n - 1 + 1 : r[j] = p[1 + j - 1]
      BY <1>1, <3>1, SubSeqProperties
    <3> HIDE DEF r
    <3>3. Len(r) = n /\ \A j \in 1 .. n : r[j] = p[j]
      BY <1>1, <3>2
    <3>4. r = key
      <4>1. Len(r) = Len(key) /\ \A j \in 1 .. Len(r) : r[j] = key[j]
        BY <2>2, <3>3 DEF n
      <4> HIDE DEF key
      <4>2. QED
        BY <1>1, <3>2, <4>1, SeqEqual DEF Texts
    <3>5. QED
      BY <3>4 DEF r
  <2>6. After(p, "=") = SubSeq(p, n + 2, Len(p))
    BY <2>4, <2>5 DEF After, n
  <2>7. SubSeq(p, n + 2, Len(p)) = value
    <3> DEFINE r == SubSeq(p, n + 2, Len(p))
    <3>1. \A j \in n + 2 .. Len(p) : p[j] \in Chars
      BY <1>1, <1>2, <2>2
    <3>2. /\ r \in Seq(Chars) /\ Len(r) = IF n + 2 <= Len(p) THEN Len(p) - (n + 2) + 1 ELSE 0
          /\ \A j \in 1 .. Len(p) - (n + 2) + 1 : r[j] = p[n + 2 + j - 1]
      BY <1>1, <2>2, <3>1, SubSeqProperties
    <3>3. m >= 1
      BY <1>1, <1>4 DEF m, Texts
    <3> HIDE DEF r
    <3>4. Len(r) = m /\ \A j \in 1 .. m : r[j] = p[n + 1 + j]
      <4>1. n + 2 <= Len(p) /\ Len(p) - (n + 2) + 1 = m /\ \A j \in 1 .. m : n + 2 + j - 1 = n + 1 + j
        BY <1>1, <2>2, <3>3
      <4>2. QED
        BY <3>2, <4>1
    <3>5. r = value
      <4>1. Len(r) = Len(value) /\ \A j \in 1 .. Len(r) : r[j] = value[j]
        BY <2>2, <3>4 DEF m
      <4> HIDE DEF value
      <4>2. QED
        BY <1>1, <3>2, <4>1, SeqEqual DEF Texts
    <3>6. QED
      BY <3>5 DEF r
  <2>8. QED
    BY <2>3, <2>4, <2>5, <2>6, <2>7 DEF p
<1>5. QED
  BY <1>3, <1>4

\* Appending an argument keeps the tag that is in the query, or puts in its own.
LEMMA TagAppended ==
    ASSUME NEW text \in Texts, NEW arg \in Arguments, Plain(arg), NEW t \in Texts,
           t = IF text = <<>> THEN Piece(arg) ELSE text \o <<"&">> \o Piece(arg)
    PROVE  /\ TagStarts(text) # {} => TagStarts(t) # {} /\ TagOf(t) = TagOf(text)
           /\ TagStarts(text) = {} /\ arg.key = <<"tag">> =>
                 TagStarts(t) # {} /\ TagOf(t) = arg.value
           /\ TagStarts(text) = {} /\ arg.key # <<"tag">> => TagStarts(t) = {}
<1> DEFINE piece == Piece(arg)
<1>1. /\ piece \in Texts /\ Before(piece, "=") = arg.key /\ After(piece, "=") = arg.value
      /\ \A j \in DOMAIN piece : piece[j] # "&"
  BY PieceType, PieceParts
<1>2. arg.key = <<"tag">> => piece # <<>>
  BY DEF Piece
<1>3. UrlDecode(arg.value) = arg.value
  <2>1. arg.value \in Texts /\ \A j \in DOMAIN arg.value : arg.value[j] \notin {"+", "%"}
    BY DEF Arguments, Plain, Special
  <2>2. QED
    BY <2>1, DecodePlain
<1>4. Before(<<>>, "=") # <<"tag">>
  <2> DEFINE e == <<>>
  <2>1. e \in Seq(Chars) /\ 0 \in 0 .. Len(e) /\ ~ 0 < Len(e)
    OBVIOUS
  <2>2. SubSeq(e, 1, 0) # <<"tag">>
    BY SubSeqEmpty
  <2> HIDE DEF e
  <2>3. Before(e, "=") = SubSeq(e, 1, 0)
    <3>1. \A i \in 1 .. 0 : e[i] # "="
      OBVIOUS
    <3>2. QED
      BY <2>1, <3>1, BeforeUnique
  <2>4. QED
    BY <2>2, <2>3 DEF e
<1> HIDE DEF piece
<1>5. CASE text = <<>>
  <2>1. t = piece
    BY <1>5 DEF piece
  <2>2. TagStarts(text) = {}
    BY <1>5 DEF TagStarts, PairStarts
  <2>3. /\ PairStarts(t) = IF piece = <<>> THEN {} ELSE {1}
        /\ piece # <<>> => PairAt(t, 1) = piece
    BY <1>1, <2>1, OnePair
  <2>4. TagStarts(t) = IF arg.key = <<"tag">> THEN {1} ELSE {}
    BY <1>1, <1>2, <2>3 DEF TagStarts
  <2>5. ASSUME arg.key = <<"tag">> PROVE TagStarts(t) # {} /\ TagOf(t) = arg.value
    <3>1. Min({1}) = 1
      <4>1. {1} \in SUBSET Nat /\ {1} # {}
        OBVIOUS
      <4>2. QED
        BY <4>1, MinIs
    <3>2. TagStarts(t) = {1}
      BY <2>4, <2>5
    <3>3. QED
      BY <1>1, <1>2, <1>3, <2>3, <2>5, <3>1, <3>2 DEF TagOf
  <2>6. QED
    BY <2>2, <2>4, <2>5
<1>6. CASE text # <<>>
  <2>1. t = text \o <<"&">> \o piece
    BY <1>6 DEF piece
  <2>2. /\ \A i \in PairStarts(text) : i \in PairStarts(t) /\ PairAt(t, i) = PairAt(text, i)
        /\ piece # <<>> => /\ Len(text) + 2 \in PairStarts(t)
                           /\ PairAt(t, Len(text) + 2) = piece
        /\ \A i \in PairStarts(t) : \/ i \in PairStarts(text)
                                    \/ PairAt(t, i) = <<>>
                                    \/ i = Len(text) + 2 /\ piece # <<>>
    BY <1>1, <1>6, <2>1, JoinedPairs
  <2>3. TagStarts(t) = TagStarts(text) \cup
                         (IF arg.key = <<"tag">> THEN {Len(text) + 2} ELSE {})
    BY <1>1, <1>2, <1>4, <2>2 DEF TagStarts
  <2>4. \A i \in TagStarts(text) : /\ i \in Nat /\ i <= Len(text) + 2
                                   /\ PairAt(t, i) = PairAt(text, i)
    BY <2>2 DEF TagStarts, PairStarts, Texts
  <2>5. Len(text) + 2 \in Nat
    BY DEF Texts
  <2>6. TagStarts(t) \in SUBSET Nat /\ TagStarts(text) \in SUBSET Nat
    BY <2>3, <2>4, <2>5
  <2>7. ASSUME TagStarts(text) # {} PROVE TagStarts(t) # {} /\ TagOf(t) = TagOf(text)
    <3> DEFINE m == Min(TagStarts(text))
    <3>1. m \in TagStarts(text) /\ \A i \in TagStarts(text) : m <= i
      BY <2>6, <2>7, MinIs
    <3> HIDE DEF m
    <3>2. m \in TagStarts(t) /\ \A i \in TagStarts(t) : m <= i
      BY <2>3, <2>4, <3>1
    <3>3. m = Min(TagStarts(t))
      BY <2>6, <3>2, MinIs
    <3>4. PairAt(t, m) = PairAt(text, m)
      BY <2>4, <3>1
    <3>5. TagOf(t) = UrlDecode(After(PairAt(t, m), "="))
      BY <3>2, <3>3 DEF TagOf
    <3>6. TagOf(text) = UrlDecode(After(PairAt(text, m), "="))
      BY <2>7 DEF TagOf, m
    <3>7. QED
      BY <3>2, <3>4, <3>5, <3>6
  <2>8. ASSUME TagStarts(text) = {}, arg.key = <<"tag">>
        PROVE  TagStarts(t) # {} /\ TagOf(t) = arg.value
    <3> DEFINE m == Len(text) + 2
    <3>1. TagStarts(t) = {m} /\ m \in Nat
      BY <2>3, <2>5, <2>8
    <3>2. PairAt(t, m) = piece
      BY <1>2, <2>2, <2>8
    <3> HIDE DEF m
    <3>3. Min({m}) = m
      BY <3>1, MinIs
    <3>4. QED
      BY <1>1, <1>3, <3>1, <3>2, <3>3 DEF TagOf
  <2>9. QED
    BY <2>3, <2>7, <2>8
<1>7. QED
  BY <1>5, <1>6

\* The first k arguments that are tags
Asked(k) == {i \in 1 .. k : args[i].key = <<"tag">>}

AllPlain == \A i \in DOMAIN args : Plain(args[i])

\* The query says the first tag among the arguments appended so far; and all of
\* them have been appended, unless memory ran out.
TagBuilt ==
    /\ next <= Len(args) + 1
    /\ stage # "query" /\ next <= Len(args) => short
    /\ Asked(next - 1) = {} => TagStarts(query.text) = {}
    /\ Asked(next - 1) # {} =>
          /\ TagStarts(query.text) # {}
          /\ TagOf(query.text) = args[Min(Asked(next - 1))].value

TagInv ==
    /\ TypeInv
    /\ stage \in {"idle", "path"} => next = 1
    /\ stage # "done" => answer = NoAnswer
    /\ stage \in {"query", "route", "tag"} /\ query.from # "url" /\ AllPlain => TagBuilt
    /\ TagIsTheOneAsked

\* One more argument is appended.
LEMMA AppendKeepsTag ==
    ASSUME TagInv, TypeInv', AppendArgument, AllPlain
    PROVE  TagBuilt'
<1>1. /\ stage = "query" /\ next \in 1 .. Len(args) /\ Len(args) \in Nat /\ UNCHANGED args
      /\ next \in Nat
  BY DEF AppendArgument, TagInv, TypeInv
<1>2. TagBuilt
  BY <1>1 DEF TagInv, TypeInv
<1>3. CASE UNCHANGED <<query, next>> /\ stage' = "route" /\ short'
  BY <1>1, <1>2, <1>3 DEF TagBuilt, Asked
<1>4. ASSUME next' = next + 1, stage' = "query",
             query'.text = IF query.text = <<>> THEN Piece(args[next])
                           ELSE query.text \o <<"&">> \o Piece(args[next])
      PROVE  TagBuilt'
  <2> DEFINE arg == args[next]
             asked == Asked(next - 1)
             t == query'.text
  <2>1. arg \in Arguments /\ Plain(arg) /\ query.text \in Texts /\ t \in Texts
    BY <1>1 DEF TypeInv, TagInv, AllPlain
  <2>2. asked \in SUBSET (1 .. next - 1)
    BY DEF Asked
  <2>3. Asked(next - 1)' = asked \cup (IF arg.key = <<"tag">> THEN {next} ELSE {})
    <3>1. next' - 1 = next /\ 1 .. next = (1 .. next - 1) \cup {next}
      BY <1>1, <1>4
    <3>2. QED
      BY <1>1, <3>1 DEF Asked
  <2>4. /\ TagStarts(query.text) # {} => TagStarts(t) # {} /\ TagOf(t) = TagOf(query.text)
        /\ TagStarts(query.text) = {} /\ arg.key = <<"tag">> =>
              TagStarts(t) # {} /\ TagOf(t) = arg.value
        /\ TagStarts(query.text) = {} /\ arg.key # <<"tag">> => TagStarts(t) = {}
    BY <1>4, <2>1, TagAppended
  <2>5. next' <= Len(args') + 1 /\ stage' = "query"
    BY <1>1, <1>4
  <2>6. CASE asked # {}
    <3>1. TagStarts(query.text) # {} /\ TagOf(query.text) = args[Min(asked)].value
      BY <1>2, <2>6 DEF TagBuilt
    <3> DEFINE m == Min(asked)
               now == Asked(next - 1)'
    <3>2. asked \in SUBSET Nat /\ now \in SUBSET Nat
      BY <1>1, <2>2, <2>3
    <3>3. m \in asked /\ \A i \in asked : m <= i
      BY <2>6, <3>2, MinIs
    <3> HIDE DEF m, asked
    <3>4. m \in now /\ \A i \in now : m <= i
      <4>1. m \in 1 .. next - 1
        BY <2>2, <3>3
      <4>2. m <= next
        BY <1>1, <4>1
      <4>3. QED
        BY <2>3, <3>3, <4>2
    <3> HIDE DEF now
    <3>5. Min(now) = m /\ now # {}
      BY <3>2, <3>4, MinIs
    <3>6. QED
      BY <1>1, <2>4, <2>5, <3>1, <3>5 DEF TagBuilt, m, now
  <2>7. CASE asked = {}
    <3>1. TagStarts(query.text) = {}
      BY <1>2, <2>7 DEF TagBuilt
    <3>2. CASE arg.key = <<"tag">>
      <4>1. Asked(next - 1)' = {next} /\ Min({next}) = next
        BY <1>1, <2>3, <2>7, <3>2, MinIs
      <4>2. QED
        BY <1>1, <2>4, <2>5, <3>1, <3>2, <4>1 DEF TagBuilt
    <3>3. CASE arg.key # <<"tag">>
      BY <2>3, <2>4, <2>5, <2>7, <3>1, <3>3 DEF TagBuilt
    <3>4. QED
      BY <3>2, <3>3
  <2>8. QED
    BY <2>6, <2>7
<1>5. QED
  <2> DEFINE text == IF query.text = <<>> THEN Piece(args[next])
                     ELSE query.text \o <<"&">> \o Piece(args[next])
  <2>1. \/ /\ query' = [text |-> text, cap |-> CapFor(query, args[next]), from |-> "built"]
           /\ next' = next + 1 /\ stage' = "query"
        \/ UNCHANGED <<query, next>> /\ stage' = "route" /\ short'
    BY <1>1 DEF AppendArgument, Failing
  <2> HIDE DEF text
  <2>2. \/ query'.text = text /\ next' = next + 1 /\ stage' = "query"
        \/ UNCHANGED <<query, next>> /\ stage' = "route" /\ short'
    BY <2>1
  <2>3. QED
    BY <1>3, <1>4, <2>2 DEF text

\* A listing that is answered is answered with the tag of the query.
LEMMA ListKeepsTag ==
    ASSUME TagInv, List PROVE TagIsTheOneAsked'
<1> SUFFICES ASSUME query.from # "url", AllPlain
             PROVE  answer'.tag = TagAsked \/ (short' /\ answer'.tag = None)
  BY DEF List, TagIsTheOneAsked, AllPlain, TagAsked, TagArgs
<1>1. TagBuilt /\ stage = "tag" /\ Len(args) \in Nat /\ DOMAIN args = 1 .. Len(args)
      /\ next \in Nat \ {0}
  BY DEF List, TagInv, TypeInv
<1>2. CASE answer'.tag = None /\ short'
  BY <1>2
<1>3. CASE answer'.tag = TagOf(query.text) /\ short' = short
  <2>1. Asked(next - 1) \subseteq TagArgs
    BY <1>1 DEF Asked, TagArgs, TagBuilt
  <2>2. CASE Asked(next - 1) # {}
    <3> DEFINE asked == Asked(next - 1)
               m == Min(asked)
    <3>1. asked \in SUBSET Nat /\ TagArgs \in SUBSET Nat
      BY <1>1 DEF Asked, TagArgs
    <3>2. m \in asked /\ \A i \in asked : m <= i
      BY <2>2, <3>1, MinIs
    <3> HIDE DEF m
    <3>3. \A i \in TagArgs : i \in asked \/ i >= next
      BY <1>1 DEF Asked, TagArgs
    <3>4. m \in 1 .. next - 1
      BY <3>2 DEF Asked
    <3> HIDE DEF asked
    <3>5. m \in TagArgs /\ \A i \in TagArgs : m <= i
      <4>1. \A i \in Nat : i >= next => m <= i
        BY <1>1, <3>4
      <4>2. QED
        BY <2>1, <3>1, <3>2, <3>3, <4>1 DEF asked
    <3>6. m = Min(TagArgs) /\ TagArgs # {}
      BY <3>1, <3>5, MinIs
    <3>7. TagOf(query.text) = args[m].value
      BY <1>1, <2>2 DEF TagBuilt, m, asked
    <3>8. QED
      BY <1>3, <3>6, <3>7 DEF TagAsked
  <2>3. CASE Asked(next - 1) = {}
    <3>1. TagOf(query.text) = None
      BY <1>1, <2>3 DEF TagBuilt, TagOf
    <3>2. CASE next <= Len(args)
      BY <1>1, <1>3, <3>1, <3>2 DEF TagBuilt
    <3>3. CASE ~ next <= Len(args)
      <4>1. next - 1 = Len(args)
        BY <1>1, <3>3 DEF TagBuilt
      <4>2. TagArgs = {}
        BY <1>1, <2>3, <4>1 DEF Asked, TagArgs
      <4>3. QED
        BY <1>3, <3>1, <4>2 DEF TagAsked
    <3>4. QED
      BY <3>2, <3>3
  <2>4. QED
    BY <2>2, <2>3
<1>4. QED
  BY <1>2, <1>3 DEF List, Reply, Failing

\* No step makes the tag that is listed another than the first one asked for.
LEMMA TagInductive == TagInv /\ [Next]_vars => TagInv'
<1> SUFFICES ASSUME TagInv, [Next]_vars PROVE TagInv'
  OBVIOUS
<1>1. TypeInv /\ TypeInv'
  BY TypeInductive DEF TagInv
<1>2. ASSUME answer' = NoAnswer PROVE TagIsTheOneAsked'
  BY <1>2, RouterAssumption DEF TagIsTheOneAsked, NoAnswer, Handlers
<1>3. CASE UNCHANGED vars
  BY <1>1, <1>3 DEF TagInv, TagBuilt, Asked, AllPlain, TagIsTheOneAsked, TagAsked, TagArgs, vars
<1>4. CASE \E r \in Requests : Receive(r)
  <2>1. stage' = "path" /\ next' = 1 /\ answer' = NoAnswer
    BY <1>4 DEF Receive, TagInv
  <2>2. QED
    BY <1>1, <1>2, <2>1 DEF TagInv
<1>5. CASE ExtractPath
  <2>1. /\ stage' \in {"query", "route"} /\ answer' = NoAnswer /\ next' = 1 /\ UNCHANGED args
        /\ stage' = "query" => query' = NoQuery
        /\ stage' = "route" => query'.from = "url"
    BY <1>5 DEF ExtractPath, TagInv, TypeInv
  <2>2. ASSUME stage' = "query" PROVE TagBuilt'
    <3>1. query'.text = <<>> /\ TagStarts(<<>>) = {}
      BY <2>1, <2>2 DEF NoQuery, TagStarts, PairStarts
    <3>2. Asked(next - 1)' = {}
      BY <2>1 DEF Asked
    <3>3. Len(args') \in Nat
      BY <1>1 DEF TypeInv
    <3>4. QED
      BY <2>1, <2>2, <3>1, <3>2, <3>3 DEF TagBuilt
  <2>3. QED
    BY <1>1, <1>2, <2>1, <2>2 DEF TagInv
<1>6. CASE AppendArgument
  <2>1. stage' \in {"query", "route"} /\ answer' = NoAnswer /\ (AllPlain' => AllPlain)
    BY <1>6 DEF AppendArgument, TagInv, AllPlain
  <2>2. AllPlain => TagBuilt'
    BY <1>1, <1>6, AppendKeepsTag
  <2>3. QED
    BY <1>1, <1>2, <2>1, <2>2 DEF TagInv
<1>7. CASE QueryBuilt
  <2>1. /\ stage = "query" /\ stage' = "route" /\ answer' = NoAnswer
        /\ UNCHANGED <<args, next, query, short>> /\ ~ next <= Len(args)
    BY <1>1, <1>7 DEF QueryBuilt, TagInv, TypeInv
  <2>2. TagBuilt => TagBuilt'
    BY <2>1 DEF TagBuilt, Asked
  <2>3. QED
    BY <1>1, <1>2, <2>1, <2>2 DEF TagInv, AllPlain
<1>8. CASE NoPath
  <2>1. stage' = "done" /\ answer' = NoAnswer
    BY <1>8 DEF NoPath, TagInv
  <2>2. QED
    BY <1>1, <1>2, <2>1 DEF TagInv
<1>9. CASE RouteCollection \/ RouteItem \/ RouteInvalid
  <2>1. /\ stage = "route" /\ UNCHANGED <<args, next, query>>
        /\ \/ stage' = "tag" /\ answer' = NoAnswer /\ short' = short
           \/ stage' = "done" /\ answer'.by # "list"
    BY <1>9 DEF RouteCollection, RouteItem, RouteInvalid, Reply, TagInv
  <2>2. CASE stage' = "tag" /\ answer' = NoAnswer /\ short' = short
    <3>1. TagBuilt => TagBuilt'
      BY <2>1, <2>2 DEF TagBuilt, Asked
    <3>2. QED
      BY <1>1, <1>2, <2>1, <2>2, <3>1 DEF TagInv, AllPlain
  <2>3. CASE stage' = "done" /\ answer'.by # "list"
    BY <1>1, <2>3 DEF TagInv, TagIsTheOneAsked
  <2>4. QED
    BY <2>1, <2>2, <2>3
<1>10. CASE List
  <2>1. stage' = "done"
    BY <1>10 DEF List, Reply
  <2>2. QED
    BY <1>1, <1>10, <2>1, ListKeepsTag DEF TagInv
<1>11. CASE CleanUp
  <2>1. stage' = "idle" /\ next' = 1 /\ answer' = NoAnswer
    BY <1>11 DEF CleanUp, Forget
  <2>2. QED
    BY <1>1, <1>2, <2>1 DEF TagInv
<1>12. QED
  BY <1>3, <1>4, <1>5, <1>6, <1>7, <1>8, <1>9, <1>10, <1>11 DEF Next

\* However many arguments the client sends, with whatever keys and values free of
\* "+", "%" and "&", a listing is filtered by its first tag, unless its query was
\* cut out of a URL that still had a "?" in it.
THEOREM FirstTagDecides == Spec => []TagIsTheOneAsked
<1>1. Init => TagInv
  <2>1. Init => ~ answer.by = "list"
    BY RouterAssumption DEF Init, NoAnswer, Handlers
  <2>2. QED
    BY <2>1, TypeInit DEF Init, TagInv, TagIsTheOneAsked
<1>2. TagInv => TagIsTheOneAsked
  BY DEF TagInv
<1> HIDE DEF TagInv
<1>3. QED
  BY <1>1, <1>2, TagInductive, PTL DEF Spec

-----------------------------------------------------------------------------
(* Decoding *)

\* What the loop of urlDecode does at position i of s: whether an escape stands
\* there, the character it writes, and how far it moves.
EscapeAt(s, i) == /\ s[i] = "%" /\ i + 2 <= Len(s)
                  /\ s[i + 1] \in Hex /\ s[i + 2] \in Hex
CharAt(s, i) == IF EscapeAt(s, i) THEN CharOf[<<s[i + 1], s[i + 2]>>]
                ELSE IF s[i] = "+" THEN " " ELSE s[i]
WidthAt(s, i) == IF EscapeAt(s, i) THEN 3 ELSE 1

\* f[i] is what the loop writes from position i on, for the last m positions.
Decodes(f, s, m) ==
    /\ f = [i \in 1 .. Len(s) + 1 |-> f[i]]
    /\ f[Len(s) + 1] = <<>>
    /\ \A i \in Len(s) + 1 - m .. Len(s) : f[i] = <<CharAt(s, i)>> \o f[i + WidthAt(s, i)]

\* The loop can be unrolled over any text, from its end.
LEMMA DecodeExists ==
    ASSUME NEW S, NEW s \in Seq(S) PROVE \E f : Decodes(f, s, Len(s))
<1> DEFINE n == Len(s)
           Missing == {m \in 0 .. n : ~ \E f : Decodes(f, s, m)}
<1>1. n \in Nat
  OBVIOUS
<1> HIDE DEF n
<1>2. Missing = {}
  <2> SUFFICES ASSUME Missing # {} PROVE FALSE
    OBVIOUS
  <2>1. PICK m \in Missing : \A k \in Missing : m <= k
    <3>1. Missing \in SUBSET Nat
      BY <1>1
    <3> HIDE DEF Missing
    <3>2. QED
      BY <3>1, LeastMember
  <2>2. m \in 0 .. n /\ ~ \E f : Decodes(f, s, m)
    BY <2>1
  <2>3. CASE m = 0
    <3> DEFINE g == [i \in 1 .. n + 1 |-> <<>>]
    <3>1. g = [i \in 1 .. n + 1 |-> g[i]] /\ g[n + 1] = <<>> /\ n + 1 - m .. n = {}
      BY <1>1, <2>3
    <3> HIDE DEF g
    <3>2. Decodes(g, s, m)
      BY <3>1 DEF Decodes, n
    <3>3. QED
      BY <2>2, <3>2
  <2>4. CASE m # 0
    <3>1. m \in 1 .. n /\ m - 1 \in 0 .. n /\ ~ m <= m - 1
      BY <1>1, <2>2, <2>4
    <3>2. PICK f : Decodes(f, s, m - 1)
      BY <2>1, <3>1
    <3>3. PICK p : p = n + 1 - m
      OBVIOUS
    <3> DEFINE g == [i \in 1 .. n + 1 |->
                       IF i = p THEN <<CharAt(s, p)>> \o f[p + WidthAt(s, p)] ELSE f[i]]
    <3>4. /\ p \in 1 .. n /\ n + 1 \in 1 .. n + 1 /\ n + 1 # p
          /\ \A i \in p .. n : i = p \/ i \in n + 1 - (m - 1) .. n
          /\ \A i \in p .. n : i \in 1 .. n + 1 /\ i + 3 # p /\ i + 1 # p
          /\ \A i \in p .. n : (i + 2 <= n => i + 3 \in 1 .. n + 1) /\ i + 1 \in 1 .. n + 1
      BY <1>1, <3>1, <3>3
    <3>12. \A i \in p .. n : i + WidthAt(s, i) # p /\ i + WidthAt(s, i) \in 1 .. n + 1
      BY <3>4 DEF WidthAt, EscapeAt, n
    <3>5. /\ f[n + 1] = <<>>
          /\ \A i \in n + 1 - (m - 1) .. n : f[i] = <<CharAt(s, i)>> \o f[i + WidthAt(s, i)]
      BY <3>2 DEF Decodes, n
    <3>6. \A i \in 1 .. n + 1 : i # p => g[i] = f[i]
      OBVIOUS
    <3>7. g[p] = <<CharAt(s, p)>> \o f[p + WidthAt(s, p)]
      BY <3>4
    <3>8. g = [i \in 1 .. n + 1 |-> g[i]]
      OBVIOUS
    <3> HIDE DEF g
    <3>9. \A i \in p .. n : g[i] = <<CharAt(s, i)>> \o g[i + WidthAt(s, i)]
      BY <3>4, <3>5, <3>6, <3>7, <3>12
    <3>10. Decodes(g, s, m)
      BY <3>3, <3>4, <3>5, <3>6, <3>8, <3>9 DEF Decodes, n
    <3>11. QED
      BY <2>2, <3>10
  <2>5. QED
    BY <2>3, <2>4
<1>3. n \in 0 .. n
  BY <1>1
<1>4. \A m \in 0 .. n : \E f : Decodes(f, s, m)
  <2> HIDE DEF Decodes
  <2>1. QED
    BY <1>2
<1>5. QED
  BY <1>3, <1>4 DEF n

\* urlDecode
LEMMA DecodeIs ==
    ASSUME NEW S, NEW s \in Seq(S)
    PROVE  \E f : Decodes(f, s, Len(s)) /\ UrlDecode(s) = f[1]
<1> DEFINE n == Len(s)
           escape(i) == /\ s[i] = "%" /\ i + 2 <= Len(s)
                        /\ s[i + 1] \in Hex /\ s[i + 2] \in Hex
           Body(f) == [i \in 1 .. Len(s) + 1 |->
                         IF i > Len(s) THEN <<>>
                         ELSE IF escape(i)
                         THEN <<CharOf[<<s[i + 1], s[i + 2]>>]>> \o f[i + 3]
                         ELSE <<IF s[i] = "+" THEN " " ELSE s[i]>> \o f[i + 1]]
<1>1. n \in Nat
  OBVIOUS
<1>2. ASSUME NEW f
      PROVE  f = Body(f) <=> Decodes(f, s, Len(s))
  <2> DEFINE Next1(i) == IF i > n THEN <<>> ELSE <<CharAt(s, i)>> \o f[i + WidthAt(s, i)]
  <2>1. Body(f) = [i \in 1 .. n + 1 |-> Next1(i)]
    <3>1. ASSUME NEW i \in 1 .. n + 1
          PROVE  (IF i > n THEN <<>>
                  ELSE IF escape(i)
                  THEN <<CharOf[<<s[i + 1], s[i + 2]>>]>> \o f[i + 3]
                  ELSE <<IF s[i] = "+" THEN " " ELSE s[i]>> \o f[i + 1]) = Next1(i)
      <4>1. CASE escape(i)
        BY <4>1 DEF CharAt, WidthAt, EscapeAt
      <4>2. CASE ~ escape(i)
        BY <4>2 DEF CharAt, WidthAt, EscapeAt
      <4>3. QED
        BY <4>1, <4>2
    <3> HIDE DEF Next1
    <3>2. QED
      BY <3>1
  <2>2. Decodes(f, s, n) <=> /\ f = [i \in 1 .. n + 1 |-> f[i]] /\ \A i \in 1 .. n + 1 : f[i] = Next1(i)
    <3>1. /\ \A i \in 1 .. n + 1 : i > n <=> i = n + 1
          /\ \A i \in 1 .. n : i \in 1 .. n + 1 /\ ~ i > n
          /\ \A i \in 1 .. n + 1 : i \in 1 .. n \/ i = n + 1
          /\ n + 1 - n = 1 /\ n + 1 \in 1 .. n + 1
      BY <1>1
    <3>2. Decodes(f, s, n) <=> /\ f = [i \in 1 .. n + 1 |-> f[i]] /\ f[n + 1] = <<>>
                               /\ \A i \in 1 .. n : f[i] = <<CharAt(s, i)>> \o f[i + WidthAt(s, i)]
      BY <3>1 DEF Decodes
    <3>3. Next1(n + 1) = <<>>
      BY <3>1
    <3>4. \A i \in 1 .. n : Next1(i) = <<CharAt(s, i)>> \o f[i + WidthAt(s, i)]
      BY <3>1
    <3> HIDE DEF Next1, n
    <3>5. QED
      BY <3>1, <3>2, <3>3, <3>4
  <2> HIDE DEF Next1, n, Body
  <2>3. f = Body(f) <=> f = [i \in 1 .. n + 1 |-> f[i]] /\ \A i \in 1 .. n + 1 : f[i] = Next1(i)
    BY <2>1
  <2>4. QED
    BY <2>2, <2>3 DEF n
<1>3. UrlDecode(s) = (CHOOSE f : f = Body(f))[1]
  BY DEF UrlDecode
<1> HIDE DEF Body, n
<1>4. QED
  BY <1>2, <1>3, DecodeExists

\* A character as percent-encoding writes it.
Encoded(c) == IF c \notin Special THEN <<c>>
              ELSE <<"%">> \o CHOOSE h \in Hex \X Hex : CharOf[h] = c

\* There is an escape for c, if it needs one.
Encodable(c) == c \in Special => \E h \in Hex \X Hex : CharOf[h] = c

\* c stands for itself, or an escape with digits x and y for it.
ForItself(c) == Encoded(c) = <<c>> /\ c # "%" /\ c # "+"
EscapeFor(c, x, y) == CharOf[<<x, y>>] = c /\ Encoded(c) = <<"%">> \o <<x, y>>

\* A character is sent as itself, or as the escape of two digits that stand for it.
LEMMA EncodedIs ==
    ASSUME NEW c, Encodable(c)
    PROVE  ForItself(c) \/ \E x, y \in Hex : EscapeFor(c, x, y)
<1>1. CASE c \notin Special
  <2>1. Encoded(c) = <<c>>
    BY <1>1, Zenon DEF Encoded
  <2>2. c # "%" /\ c # "+"
    BY <1>1, Zenon DEF Special
  <2>3. QED
    BY <2>1, <2>2 DEF ForItself
<1>2. CASE c \in Special
  <2>1. Encoded(c) = <<"%">> \o CHOOSE h \in Hex \X Hex : CharOf[h] = c
    BY <1>2, Zenon DEF Encoded
  <2>2. PICK h \in Hex \X Hex : CharOf[h] = c /\ Encoded(c) = <<"%">> \o h
    BY <1>2, <2>1 DEF Encodable
  <2>3. PICK x \in Hex, y \in Hex : h = <<x, y>>
    OBVIOUS
  <2>4. QED
    BY <2>2, <2>3 DEF EscapeFor
<1>3. QED
  BY <1>1, <1>2

\* e stands in t after position p.
StandsAt(e, t, p) == \A k \in 1 .. Len(e) : p + k \in 1 .. Len(t) /\ t[p + k] = e[k]

\* The loop reads one encoded character at a time, whatever follows.
LEMMA EncodedRead ==
    ASSUME NEW t, Len(t) \in Nat, NEW c, NEW p \in Nat, NEW e, e = Encoded(c),
           Encodable(c), StandsAt(e, t, p)
    PROVE  CharAt(t, p + 1) = c /\ WidthAt(t, p + 1) = Len(e) /\ Len(e) \in {1, 3}
<1>1. CASE ForItself(c)
  <2>1. Len(e) = 1 /\ e[1] = c /\ c # "%" /\ c # "+"
    BY <1>1 DEF ForItself
  <2>2. t[p + 1] = c
    BY <2>1 DEF StandsAt
  <2>3. QED
    BY <2>1, <2>2 DEF CharAt, WidthAt, EscapeAt
<1>2. CASE \E x, y \in Hex : EscapeFor(c, x, y)
  <2>1. PICK x, y \in Hex : EscapeFor(c, x, y)
    BY <1>2
  <2>2. ASSUME NEW a
        PROVE  LET s == <<a>> \o <<x, y>> IN Len(s) = 3 /\ s[1] = a /\ s[2] = x /\ s[3] = y
    OBVIOUS
  <2>3. CharOf[<<x, y>>] = c /\ Len(e) = 3 /\ e[1] = "%" /\ e[2] = x /\ e[3] = y
    BY <2>1, <2>2 DEF EscapeFor
  <2>4. t[p + 1] = "%" /\ t[p + 2] = x /\ t[p + 3] = y /\ p + 3 \in 1 .. Len(t)
    BY <2>3 DEF StandsAt
  <2>5. (p + 1) + 1 = p + 2 /\ (p + 1) + 2 = p + 3 /\ p + 3 <= Len(t)
    BY <2>4
  <2>6. EscapeAt(t, p + 1)
    BY <2>4, <2>5 DEF EscapeAt
  <2>7. QED
    BY <2>3, <2>4, <2>5, <2>6 DEF CharAt, WidthAt
<1>3. QED
  BY <1>1, <1>2, EncodedIs

\* Decoding is the inverse of encoding, for a text of any length.
LEMMA DecodeEncoded ==
    ASSUME NEW v \in Texts, \A c \in Special : \E h \in Hex \X Hex : CharOf[h] = c
    PROVE  UrlDecode(FlattenSeq([j \in DOMAIN v |-> Encoded(v[j])])) = v
<1> DEFINE n == Len(v)
           S == Chars \cup Special \cup Hex
           codes == [j \in DOMAIN v |-> Encoded(v[j])]
           t == FlattenSeq(codes)
<1>1. n \in Nat /\ DOMAIN v = 1 .. n /\ v \in Seq(Chars)
  BY DEF Texts
<1>14. \A c : Encodable(c)
  BY DEF Encodable
<1>2. \A j \in 1 .. n : Encoded(v[j]) \in Seq(S)
  <2>1. Chars \subseteq S /\ Hex \subseteq S /\ "%" \in S
    BY Zenon DEF Special
  <2> HIDE DEF S
  <2>2. ASSUME NEW j \in 1 .. n PROVE Encoded(v[j]) \in Seq(S)
    <3>1. v[j] \in S
      BY <1>1, <2>1
    <3>2. \A x, y \in Hex : <<"%">> \o <<x, y>> \in Seq(S)
      BY <2>1
    <3>3. ASSUME NEW c \in S PROVE Encoded(c) \in Seq(S)
      <4>1. ForItself(c) \/ \E x, y \in Hex : EscapeFor(c, x, y)
        BY <1>14, EncodedIs
      <4>2. <<c>> \in Seq(S)
        OBVIOUS
      <4>3. CASE ForItself(c)
        BY <4>2, <4>3 DEF ForItself
      <4>4. CASE \E x, y \in Hex : EscapeFor(c, x, y)
        BY <3>2, <4>4 DEF EscapeFor
      <4>5. QED
        BY <4>1, <4>3, <4>4
    <3>4. QED
      BY <3>1, <3>3
  <2>3. QED
    BY <2>2
<1> HIDE DEF S
<1>3. codes \in Seq(Seq(S)) /\ Len(codes) = n /\ \A j \in 1 .. n : codes[j] = Encoded(v[j])
  <2>1. codes \in [1 .. n -> Seq(S)]
    BY <1>1, <1>2
  <2>2. QED
    BY <1>1, <2>1
<1> HIDE DEF codes, n
<1>4. PICK at : t \in Seq(S) /\ Stands(at, codes, t)
  BY <1>1, <1>3, FlattenIs
<1> HIDE DEF t
<1>5. PICK f : Decodes(f, t, Len(t)) /\ UrlDecode(t) = f[1]
  BY <1>4, DecodeIs
<1>6. /\ \A j \in 0 .. n : at[j] \in Nat
      /\ at[0] = 0 /\ at[n] = Len(t) /\ Len(t) \in Nat
      /\ \A j \in 1 .. n : at[j] = at[j - 1] + Len(codes[j])
      /\ \A j \in 1 .. n : \A k \in 1 .. Len(codes[j]) :
            at[j - 1] + k \in 1 .. Len(t) /\ t[at[j - 1] + k] = codes[j][k]
  <2>1. at \in [0 .. n -> Nat] /\ at[n] = Len(t)
    BY <1>3, <1>4 DEF Stands
  <2>2. Len(t) \in Nat /\ \A j \in 0 .. n : at[j] \in Nat
    BY <1>4, <2>1
  <2>3. QED
    BY <1>3, <1>4, <2>1, <2>2 DEF Stands
<1>7. f[Len(t) + 1] = <<>> /\ \A i \in 1 .. Len(t) : f[i] = <<CharAt(t, i)>> \o f[i + WidthAt(t, i)]
  <2>1. Len(t) + 1 - Len(t) = 1
    BY <1>6
  <2>2. QED
    BY <1>5, <2>1 DEF Decodes
<1>8. ASSUME NEW j \in 1 .. n PROVE f[at[j - 1] + 1] = <<v[j]>> \o f[at[j] + 1]
  <2>1. PICK p : p = at[j - 1]
    OBVIOUS
  <2>2. PICK c : c = v[j]
    OBVIOUS
  <2>3. PICK e, m : e = Encoded(c) /\ m = Len(e)
    OBVIOUS
  <2>4. /\ codes[j] = e /\ j - 1 \in 0 .. n /\ j \in 0 .. n /\ at[j] = p + m
        /\ \A k \in 1 .. m : p + k \in 1 .. Len(t) /\ t[p + k] = codes[j][k]
    <3>1. codes[j] = e
      BY <1>3, <2>2, <2>3
    <3>2. j - 1 \in 0 .. n /\ j \in 0 .. n
      BY <1>1
    <3>3. at[j] = p + m
      BY <1>6, <2>1, <2>3, <3>1
    <3>4. \A k \in 1 .. m : p + k \in 1 .. Len(t) /\ t[p + k] = codes[j][k]
      BY <1>6, <2>1, <2>3, <3>1
    <3>5. QED
      BY <3>1, <3>2, <3>3, <3>4
  <2>5. p \in Nat
    BY <1>6, <2>1, <2>4
  <2>6. StandsAt(e, t, p)
    BY <2>3, <2>4 DEF StandsAt
  <2>7. CharAt(t, p + 1) = c /\ WidthAt(t, p + 1) = m /\ m \in {1, 3}
    <3>1. Len(t) \in Nat /\ Encodable(c) /\ e = Encoded(c)
      BY <1>6, <1>14, <2>3
    <3>2. CharAt(t, p + 1) = c /\ WidthAt(t, p + 1) = Len(e) /\ Len(e) \in {1, 3}
      BY <2>5, <2>6, <3>1, EncodedRead
    <3>3. QED
      BY <2>3, <3>2
  <2>8. p + 1 \in 1 .. Len(t) /\ (p + 1) + m = at[j] + 1
    BY <2>4, <2>5, <2>7
  <2>9. f[p + 1] = <<CharAt(t, p + 1)>> \o f[(p + 1) + WidthAt(t, p + 1)]
    BY <1>7, <2>8
  <2>10. QED
    BY <2>1, <2>2, <2>7, <2>8, <2>9
<1> DEFINE Wrong == {j \in 0 .. n : f[at[j] + 1] # SubSeq(v, j + 1, n)}
<1>9. Wrong = {}
  <2> SUFFICES ASSUME Wrong # {} PROVE FALSE
    OBVIOUS
  <2>1. PICK j \in Wrong : \A k \in Wrong : k <= j
    <3>1. Wrong \in SUBSET (0 .. n)
      OBVIOUS
    <3> HIDE DEF Wrong
    <3>2. QED
      BY <1>1, <3>1, GreatestMember
  <2>2. j # n
    <3>1. SubSeq(v, n + 1, n) = <<>>
      BY <1>1
    <3>2. f[at[n] + 1] = SubSeq(v, n + 1, n)
      BY <1>6, <1>7, <3>1
    <3>3. QED
      BY <2>1, <3>2
  <2>3. j \in 0 .. n /\ j + 1 \in 1 .. n /\ ~ j + 1 <= j /\ (j + 1) - 1 = j /\ j + 1 \in 0 .. n
    BY <1>1, <2>1, <2>2
  <2>4. f[at[j + 1] + 1] = SubSeq(v, (j + 1) + 1, n)
    BY <2>1, <2>3
  <2>5. f[at[j] + 1] = <<v[j + 1]>> \o SubSeq(v, (j + 1) + 1, n)
    BY <1>8, <2>3, <2>4
  <2>6. <<v[j + 1]>> \o SubSeq(v, (j + 1) + 1, n) = SubSeq(v, j + 1, n)
    BY <1>1, <2>3 DEF n
  <2>7. QED
    BY <2>1, <2>5, <2>6
<1>10. 0 \in 0 .. n /\ 0 + 1 = 1
  BY <1>1
<1>11. f[1] = SubSeq(v, 1, n)
  BY <1>6, <1>9, <1>10
<1>12. SubSeq(v, 1, n) = v
  BY <1>1, SubSeqFull DEF n
<1>13. QED
  BY <1>5, <1>11, <1>12 DEF t, codes

\* Whatever the arguments of a request: percent-encoding a value and decoding it
\* with urlDecode gives the value again.
THEOREM DecodingUndoesEncoding == Spec => []DecodeUndoesEncode
<1>1. TypeInv => DecodeUndoesEncode
  <2> SUFFICES ASSUME TypeInv, NEW i \in DOMAIN args,
                      \A c \in Special : \E h \in Hex \X Hex : CharOf[h] = c
               PROVE  UrlDecode(FlattenSeq([j \in DOMAIN args[i].value |->
                                               Encoded(args[i].value[j])])) = args[i].value
    BY DEF DecodeUndoesEncode, Encoded
  <2>1. args[i].value \in Texts
    <3>1. args \in Seq(Arguments)
      BY DEF TypeInv
    <3>2. args[i] \in Arguments
      BY <3>1
    <3>3. QED
      BY <3>2 DEF Arguments
  <2>2. QED
    BY <2>1, DecodeEncoded
<1>2. QED
  BY <1>1, RouterTypeCorrect, PTL
=============================================================================
