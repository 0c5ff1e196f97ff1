-------------------------- MODULE ServerMainProofs --------------------------
(***************************************************************************)
(* Proofs about the service process for every number of connections and    *)
(* contexts and every size of the body: contexts are never used after they *)
(* are freed, and main destroys nothing that is in use.                    *)
(***************************************************************************)
EXTENDS ServerMain, LoopProofs, FiniteSetTheorems, TLAPS

-----------------------------------------------------------------------------
(* Contexts *)

ConnType == conn \in [Conns -> {"closed", "headers", "upload", "handler"}]
ConClsType == conCls \in [Conns -> Contexts \cup {None}]

ContextInv == ConnType /\ ConClsType /\ ContextsAreLive

\* No connection has a context at the beginning.
LEMMA ContextInit == Init => ContextInv
BY DEF Init, ServerInit, ContextInv, ConnType, ConClsType, ContextsAreLive

\* A connection that is dropped loses its context; what other connections have
\* stays theirs, and may be anything but the context that is freed with it.
LEMMA DropKeeps ==
    ASSUME ContextInv, NEW c \in Conns, Drop(c),
           heap' = heap \/ heap' = heap \ {conCls[c]}
    PROVE  ContextInv'
<1>1. /\ conn' = [conn EXCEPT ![c] = "closed"]
      /\ conCls' = [conCls EXCEPT ![c] = None]
  BY DEF Drop
<1>2. ConnType' /\ ConClsType'
  BY <1>1 DEF ContextInv, ConnType, ConClsType
<1>3. \A d \in Conns : d # c /\ conCls[d] # None => conCls[d] # conCls[c]
  BY DEF ContextInv, ContextsAreLive
<1>4. ContextsAreLive'
  BY <1>1, <1>3 DEF ContextInv, ContextsAreLive, ConnType, ConClsType
<1>. QED  BY <1>2, <1>4 DEF ContextInv

\* A callback on a connection.
LEMMA CallbackKeeps ==
    ASSUME ContextInv, NEW c \in Conns, Callback(c)
    PROVE  ContextInv'
<1>. USE DEF ContextInv
<1>1. CASE Connect(c)
  BY <1>1 DEF Connect, ConnType, ConClsType, ContextsAreLive
<1>2. CASE FirstCall(c)
  <2>1. CASE Drop(c) /\ heap' = heap
    BY <2>1, DropKeeps
  <2>2. ASSUME NEW x \in Contexts \ heap,
               heap' = heap \cup {x},
               conCls' = [conCls EXCEPT ![c] = x],
               conn' = [conn EXCEPT ![c] = "upload"]
        PROVE  ContextInv'
    <3>1. ConnType' /\ ConClsType'
      BY <2>2 DEF ConnType, ConClsType
    <3>2. \A d \in Conns : conCls[d] # None => conCls[d] # x
      BY <2>2 DEF ContextsAreLive
    <3>3. x # None
      BY <2>2, ServerAssumption
    <3>4. ContextsAreLive'
      BY <2>2, <3>2, <3>3 DEF ContextsAreLive, ConnType, ConClsType
    <3>. QED  BY <3>1, <3>4
  <2>. QED  BY <1>2, <2>1, <2>2 DEF FirstCall
<1>3. CASE FinalCall(c)
  <2>1. CASE Drop(c) /\ heap' = heap \ {conCls[c]}
    BY <2>1, DropKeeps
  <2>2. CASE conn' = [conn EXCEPT ![c] = "handler"] /\ UNCHANGED <<conCls, heap>>
    BY <1>3, <2>2 DEF FinalCall, ConnType, ConClsType, ContextsAreLive
  <2>. QED  BY <1>3, <2>1, <2>2 DEF FinalCall
<1>4. CASE Respond(c)
  <2>1. CASE Drop(c)
    BY <1>4, <2>1, DropKeeps DEF Respond
  <2>2. CASE /\ conn' = [conn EXCEPT ![c] = "headers"]
             /\ conCls' = [conCls EXCEPT ![c] = None]
    <3>1. heap' = heap \ {conCls[c]}
      BY <1>4 DEF Respond
    <3>2. ConnType' /\ ConClsType'
      BY <2>2 DEF ConnType, ConClsType
    <3>3. \A d \in Conns : d # c /\ conCls[d] # None => conCls[d] # conCls[c]
      BY DEF ContextsAreLive
    <3>4. ContextsAreLive'
      BY <2>2, <3>1, <3>3 DEF ContextsAreLive, ConnType, ConClsType
    <3>. QED  BY <3>2, <3>4
  <2>. QED  BY <1>4, <2>1, <2>2 DEF Respond
<1>5. CASE Abort(c)
  BY <1>5, DropKeeps DEF Abort
<1>6. ASSUME NEW size \in Chunks, UploadCall(c, size)
      PROVE  ContextInv'
  <2>1. CASE Drop(c)
    BY <1>6, <2>1, DropKeeps DEF UploadCall
  <2>2. CASE UNCHANGED <<conn, conCls>>
    BY <1>6, <2>2 DEF UploadCall, ConnType, ConClsType, ContextsAreLive
  <2>. QED  BY <1>6, <2>1, <2>2 DEF UploadCall
<1>. QED  BY <1>1, <1>2, <1>3, <1>4, <1>5, <1>6 DEF Callback

\* Joining the polling thread closes all connections.
LEMMA CloseAllKeeps ==
    ASSUME CloseAll PROVE ContextInv'
BY DEF CloseAll, ContextInv, ConnType, ConClsType, ContextsAreLive

\* Every step keeps the contexts with their connections.
LEMMA ContextInductive == ContextInv /\ [Next]_vars => ContextInv'
<1>. SUFFICES ASSUME ContextInv, [Next]_vars PROVE ContextInv'
  OBVIOUS
<1>1. ASSUME UNCHANGED <<conn, conCls, heap>> PROVE ContextInv'
  BY <1>1 DEF ContextInv, ConnType, ConClsType, ContextsAreLive
<1>2. CASE Build \/ Start \/ Leave \/ Destroy \/ Exit \/ Signal \/ UNCHANGED vars
  BY <1>1, <1>2 DEF Build, Start, Leave, Destroy, Exit, Signal, StartDaemon, vars, serverVars
<1>3. CASE Stop
  BY <1>1, <1>3, CloseAllKeeps DEF Stop, StopDaemon, JoinDaemon
<1>4. ASSUME NEW c \in Conns, Request(c) PROVE ContextInv'
  BY <1>4, CallbackKeeps DEF Request
<1>. QED  BY <1>2, <1>3, <1>4 DEF Next, Main

\* Every reachable state satisfies it.
LEMMA ContextInvariance == Spec => []ContextInv
<1>. HIDE DEF ContextInv
<1>. QED  BY ContextInit, ContextInductive, PTL DEF Spec

\* However many clients there are, and wherever their requests are cut off, a
\* callback finds in con_cls either nothing or a context that is allocated and
\* belongs to no other connection.
THEOREM LiveContexts == Spec => []ContextsAreLive
<1>1. ContextInv => ContextsAreLive
  BY DEF ContextInv
<1>. QED  BY <1>1, ContextInvariance, PTL

-----------------------------------------------------------------------------
\* A request leaves its handler only by Respond, which frees its context.
LEMMA LeavingFrees ==
    ASSUME ContextInv, [Next]_vars, NEW c \in Conns,
           conn[c] = "handler", conn'[c] # "handler"
    PROVE  conCls[c] \notin heap'
<1>1. conn' # conn
  OBVIOUS
<1>2. \/ \E d \in Conns : Callback(d)
      \/ JoinDaemon
  BY <1>1 DEF Next, Main, Build, Start, Leave, Stop, Destroy, Exit, Signal, Request,
              StartDaemon, StopDaemon, vars, serverVars
<1>3. ~ JoinDaemon
  BY DEF JoinDaemon
<1>4. PICK d \in Conns : Callback(d)
  BY <1>2, <1>3
<1>5. ~ ThreadFree
  BY DEF ThreadFree
<1>6. Respond(d)
  BY <1>4, <1>5 DEF Callback, Connect, FirstCall, FinalCall, Abort, UploadCall
<1>7. d = c
  BY <1>6 DEF Respond, Drop, ContextInv, ConnType
<1>. QED  BY <1>6, <1>7 DEF Respond

\* A request that reaches its handler gives its context back, whatever happens to
\* the response and to the connection.
THEOREM ContextsAreFreed == Spec => AnsweredRequestsFreeTheirContext
<1>1. ContextInv /\ [Next]_vars =>
        [\A c \in Conns : conn[c] = "handler" /\ conn'[c] # "handler"
                              => conCls[c] \notin heap']_serverVars
  BY LeavingFrees
<1>. QED  BY <1>1, ContextInvariance, PTL DEF Spec, AnsweredRequestsFreeTheirContext

-----------------------------------------------------------------------------
(* Bodies *)

BodyType ==
    /\ body \in [Contexts -> [size : Nat, capacity : Nat]]
    /\ received \in [Conns -> Nat]
    /\ \A c \in Conns : conn[c] \notin {"upload", "handler"} => received[c] = 0

BodyInv == ContextInv /\ BodyType /\ BodyFits

\* No body has been received at the beginning.
LEMMA BodyInit == Init => BodyInv
<1>1. Init => BodyType /\ BodyFits
  BY DEF Init, ServerInit, NoBody, BodyType, BodyFits
<1>2. QED
  BY <1>1, ContextInit DEF BodyInv

\* The buffer is made large enough for the piece and the null byte.
LEMMA CapacitySuffices ==
    ASSUME NEW b \in [size : Nat, capacity : Nat], NEW need \in Nat
    PROVE  /\ CapacityFor(b, need) \in Nat
           /\ b.size + need + 1 <= CapacityFor(b, need)
<1> DEFINE start == IF b.capacity = 0 THEN InitialCapacity ELSE b.capacity
<1>1. start \in Nat \ {0} /\ b.size + need + 1 \in Nat
  BY ServerAssumption
<1> HIDE DEF start
<1>2. Enough(start, b.size + need + 1) \in Nat
      /\ Enough(start, b.size + need + 1) >= b.size + need + 1
  BY <1>1, EnoughIsEnough
<1>3. QED
  BY <1>1, <1>2 DEF CapacityFor, start

\* A connection that is dropped has no body any more, and its context is nobody
\* else's.
LEMMA DiscardKeepsBodies ==
    ASSUME BodyInv, NEW c \in Conns, Discard(c),
           received' = [received EXCEPT ![c] = 0],
           conCls' = [conCls EXCEPT ![c] = None],
           conn'[c] \notin {"upload", "handler"},
           \A d \in Conns \ {c} : conn'[d] = conn[d]
    PROVE  BodyType' /\ BodyFits'
<1> USE DEF BodyInv, ContextInv
<1>1. BodyType'
  <2>1. \A d \in Conns : conn'[d] \notin {"upload", "handler"} => received'[d] = 0
    BY DEF BodyType
  <2>2. QED
    BY <2>1 DEF BodyType, Discard, NoBody
<1>2. ASSUME NEW d \in Conns, conn'[d] \in {"upload", "handler"}, conCls'[d] # None
      PROVE  /\ conn[d] = conn'[d] /\ conCls'[d] = conCls[d]
             /\ body'[conCls[d]] = body[conCls[d]] /\ received'[d] = received[d]
  <2>1. d # c /\ conCls'[d] = conCls[d] /\ received'[d] = received[d]
    BY <1>2 DEF ConClsType, BodyType
  <2>2. conCls[d] # conCls[c] /\ conCls[d] \in Contexts
    BY <1>2, <2>1 DEF ContextsAreLive, ConClsType
  <2>3. QED
    BY <2>1, <2>2 DEF Discard
<1>3. QED
  BY <1>1, <1>2 DEF BodyFits

\* A callback that touches the bodies on connection c.
LEMMA CallbackKeepsBodies ==
    ASSUME BodyInv, NEW c \in Conns, Callback(c)
    PROVE  BodyType' /\ BodyFits'
<1> USE DEF BodyInv, ContextInv
<1>1. CASE Drop(c)
  BY <1>1, DiscardKeepsBodies DEF Drop, ConnType
<1>2. CASE Connect(c)
  <2>1. \A d \in Conns : /\ conn'[d] \in {"upload", "handler"} => conn[d] = conn'[d]
                         /\ conn'[d] \notin {"upload", "handler"}
                              => conn[d] \notin {"upload", "handler"}
    BY <1>2 DEF Connect, ConnType
  <2>2. QED
    BY <1>2, <2>1 DEF Connect, BodyType, BodyFits
<1>3. ASSUME FirstCall(c), ~ Drop(c) PROVE BodyType' /\ BodyFits'
  <2>1. PICK x \in Contexts \ heap : /\ body' = [body EXCEPT ![x] = NoBody]
                                     /\ conCls' = [conCls EXCEPT ![c] = x]
                                     /\ conn' = [conn EXCEPT ![c] = "upload"]
                                     /\ UNCHANGED received
    BY <1>3 DEF FirstCall
  <2>2. BodyType'
    BY <2>1 DEF BodyType, NoBody, ConnType
  <2>3. \A d \in Conns : conCls[d] # x
    BY <2>1, ServerAssumption DEF ContextsAreLive
  <2>4. received[c] = 0
    BY <1>3 DEF FirstCall, BodyType
  <2>5. ASSUME NEW d \in Conns, conn'[d] \in {"upload", "handler"}, conCls'[d] # None
        PROVE  /\ body'[conCls'[d]].size = received'[d]
               /\ body'[conCls'[d]].size > 0 => body'[conCls'[d]].size + 1 <= body'[conCls'[d]].capacity
    <3>1. CASE d = c
      BY <2>1, <2>4, <3>1 DEF BodyType, ConClsType, NoBody
    <3>2. CASE d # c
      BY <2>1, <2>3, <2>5, <3>2 DEF BodyFits, BodyType, ConClsType, ConnType
    <3>3. QED
      BY <3>1, <3>2
  <2>6. QED
    BY <2>2, <2>5 DEF BodyFits
<1>4. ASSUME FinalCall(c), ~ Drop(c) PROVE BodyType' /\ BodyFits'
  BY <1>4 DEF FinalCall, ConnType, BodyType, BodyFits
<1>5. ASSUME Respond(c), ~ Drop(c) PROVE BodyType' /\ BodyFits'
  BY <1>5, DiscardKeepsBodies DEF Respond, ConnType
<1>6. CASE Abort(c)
  BY <1>1, <1>6 DEF Abort
<1>7. ASSUME NEW size \in Chunks, UploadCall(c, size), ~ Drop(c)
      PROVE  BodyType' /\ BodyFits'
  <2> DEFINE x == conCls[c]
             capacity == CapacityFor(body[x], size)
  <2>1. /\ conn[c] = "upload"
        /\ body' = [body EXCEPT ![x] = [size |-> @.size + size, capacity |-> capacity]]
        /\ received' = [received EXCEPT ![c] = @ + size]
        /\ UNCHANGED <<conn, conCls>>
    BY <1>7 DEF UploadCall
  <2>2. x # None /\ x \in Contexts
    BY <2>1 DEF ContextsAreLive, ConClsType
  <2>3. body[x] \in [size : Nat, capacity : Nat] /\ size \in Nat \ {0}
    BY <2>2, ServerAssumption DEF BodyType
  <2>4. capacity \in Nat /\ body[x].size + size + 1 <= capacity
    BY <2>3, CapacitySuffices
  <2>5. \A d \in Conns \ {c} : conCls[d] # None => conCls[d] # x
    BY <2>2 DEF ContextsAreLive
  <2> HIDE DEF capacity, x
  <2>6. BodyType'
    BY <2>1, <2>2, <2>3, <2>4 DEF BodyType, ConnType
  <2>7. body[x].size = received[c]
    BY <2>1, <2>2 DEF BodyFits, x
  <2>8. BodyFits'
    BY <2>1, <2>2, <2>3, <2>4, <2>5, <2>7 DEF BodyFits, BodyType, ConClsType, x
  <2>9. QED
    BY <2>6, <2>8
<1>8. QED
  BY <1>1, <1>2, <1>3, <1>4, <1>5, <1>6, <1>7 DEF Callback

\* Every step keeps the bodies within their buffers.
LEMMA BodyInductive == BodyInv /\ [Next]_vars => BodyInv'
<1> SUFFICES ASSUME BodyInv, [Next]_vars PROVE BodyInv'
  OBVIOUS
<1>1. ContextInv'
  BY ContextInductive DEF BodyInv
<1>2. CASE UNCHANGED <<conn, conCls, body, received>>
  BY <1>1, <1>2 DEF BodyInv, BodyType, BodyFits
<1>3. CASE JoinDaemon
  BY <1>1, <1>3 DEF BodyInv, JoinDaemon, CloseAll, NoBody, BodyType, BodyFits
<1>4. ASSUME NEW c \in Conns, Callback(c) PROVE BodyType' /\ BodyFits'
  BY <1>4, CallbackKeepsBodies
<1>5. \/ UNCHANGED <<conn, conCls, body, received>>
      \/ JoinDaemon
      \/ \E c \in Conns : Callback(c)
  BY DEF Next, Main, Build, Start, Leave, Stop, Destroy, Exit, Signal, Request, StartDaemon,
         StopDaemon, vars, serverVars
<1>6. QED
  BY <1>1, <1>2, <1>3, <1>4, <1>5 DEF BodyInv

\* Whatever the sizes of the pieces, of the first buffer and of the whole body,
\* the buffer holds every byte received and the null byte after them.
THEOREM BodiesFit == Spec => []BodyFits
<1>1. BodyInv => BodyFits
  BY DEF BodyInv
<1> HIDE DEF BodyInv
<1>2. QED
  BY <1>1, BodyInit, BodyInductive, PTL DEF Spec

-----------------------------------------------------------------------------
(* Components *)

\* The components main has built are always the first n of them.
Built(n) == {Components[i] : i \in 1 .. n}

\* The five components, in the order they are built.
LEMMA TheComponents ==
    /\ Len(Components) = 5 /\ DOMAIN Components = 1 .. 5
    /\ \A i, j \in 1 .. 5 : Components[i] = Components[j] => i = j
    /\ Components[5] = "server"
    /\ All = Built(5)
BY DEF Components, All, Built

\* Building one more adds the next component, which was not there.
LEMMA BuiltNext ==
    ASSUME NEW n \in 0 .. 4
    PROVE  /\ Built(n + 1) = Built(n) \cup {Components[n + 1]}
           /\ Components[n + 1] \notin Built(n)
<1>. HIDE DEF Components
<1>1. 1 .. n + 1 = (1 .. n) \cup {n + 1}
  OBVIOUS
<1>2. \A i \in 1 .. n : i \in 1 .. 5 /\ n + 1 \in 1 .. 5 /\ i # n + 1
  OBVIOUS
<1>. QED  BY <1>1, <1>2, TheComponents DEF Built

\* After n components have been built, there are n.
LEMMA BuiltSize == \A n \in 0 .. 5 : IsFiniteSet(Built(n)) /\ Cardinality(Built(n)) = n
<1>. DEFINE P(n) == IsFiniteSet(Built(n)) /\ Cardinality(Built(n)) = n
<1>0. P(0)
  <2>1. Built(0) = {}
    BY DEF Built
  <2>. QED  BY <2>1, FS_EmptySet
<1>1. ASSUME NEW n \in 0 .. 4, P(n) PROVE P(n + 1)
  <2>. DEFINE x == Components[n + 1]
  <2>1. Built(n + 1) = Built(n) \cup {x} /\ x \notin Built(n)
    BY BuiltNext
  <2>2. IsFiniteSet(Built(n)) /\ Cardinality(Built(n)) = n
    BY <1>1
  <2>. HIDE DEF x
  <2>3. /\ IsFiniteSet(Built(n) \cup {x})
        /\ Cardinality(Built(n) \cup {x}) = n + 1
    BY <2>1, <2>2, FS_AddElement
  <2>. QED  BY <2>1, <2>3
<1>. HIDE DEF P
<1>2. P(1) /\ P(2) /\ P(3) /\ P(4) /\ P(5)
  <2>1. P(0 + 1)
    BY <1>0, <1>1
  <2>2. P(1 + 1)
    BY <2>1, <1>1
  <2>3. P(2 + 1)
    BY <2>2, <1>1
  <2>4. P(3 + 1)
    BY <2>3, <1>1
  <2>5. P(4 + 1)
    BY <2>4, <1>1
  <2>. QED  BY <2>1, <2>2, <2>3, <2>4, <2>5
<1>3. \A n \in 0 .. 5 : P(n)
  BY <1>0, <1>2
<1>. QED  BY <1>3 DEF P

\* The daemon runs only between the last step of the building and the first of
\* the taking down, and handlers only while it runs.
LifeInv ==
    /\ ConnType
    /\ \E n \in 0 .. 5 : alive = Built(n)
    /\ daemon \in {"stopped", "running", "joining"}
    /\ daemon # "stopped" => alive = All /\ main \in {"serving", "cleaning"}
    /\ \A c \in Conns : conn[c] = "handler" => daemon # "stopped"

\* Nothing is built at the beginning.
LEMMA LifeInit == Init => LifeInv
<1>. SUFFICES ASSUME Init PROVE LifeInv
  OBVIOUS
<1>1. alive = Built(0)
  BY DEF Init, Built
<1>. QED  BY <1>1 DEF Init, ServerInit, LifeInv, ConnType

\* Building keeps the components in their order.
LEMMA BuildKeeps == ASSUME LifeInv, Build PROVE LifeInv'
<1>1. PICK n \in 0 .. 5 : alive = Built(n)
  BY DEF LifeInv
<1>2. Cardinality(alive) = n /\ n < 5
  BY <1>1, BuiltSize, TheComponents DEF Build
<1>3. main = "building" /\ UNCHANGED <<conn, daemon>>
  BY DEF Build, serverVars
<1>4. daemon = "stopped"
  BY <1>3 DEF LifeInv
<1>5. \E m \in 0 .. 5 : alive' = Built(m)
  <2>1. alive' = alive \/ alive' = alive \cup {Components[n + 1]}
    BY <1>2 DEF Build
  <2>2. n + 1 \in 0 .. 5 /\ alive \cup {Components[n + 1]} = Built(n + 1)
    BY <1>1, <1>2, BuiltNext
  <2>. QED  BY <1>1, <2>1, <2>2
<1>. QED  BY <1>3, <1>4, <1>5 DEF LifeInv, ConnType

\* The component that is destroyed is the last one built.
LEMMA DestroyKeeps == ASSUME LifeInv, Destroy PROVE LifeInv'
<1>1. PICK n \in 0 .. 5 : alive = Built(n)
  BY DEF LifeInv
<1>2. n # 0
  BY <1>1 DEF Destroy, Built
<1>3. PICK m \in 0 .. 4 : n = m + 1
  <2>1. n - 1 \in 0 .. 4 /\ n = (n - 1) + 1
    BY <1>2
  <2>. QED  BY <2>1
<1>4. NextToDestroy = Components[n]
  <2>. DEFINE IsLast(i) == /\ Components[i] \in alive
                           /\ \A j \in i + 1 .. Len(Components) : Components[j] \notin alive
  <2>1. \A i \in 1 .. 5 : Components[i] \in alive <=> i <= n
    BY <1>1, TheComponents DEF Built
  <2>2. n \in DOMAIN Components /\ IsLast(n)
    BY <1>2, <2>1, TheComponents
  <2>3. \A i \in DOMAIN Components : IsLast(i) => i = n
    BY <1>2, <2>1, TheComponents
  <2>4. (CHOOSE i \in DOMAIN Components : IsLast(i)) = n
    <3>. HIDE DEF IsLast
    <3>. QED  BY <2>2, <2>3
  <2>. QED  BY <2>4 DEF NextToDestroy
<1>5. alive' = Built(m)
  BY <1>1, <1>3, <1>4, BuiltNext DEF Destroy
<1>6. daemon = "stopped" /\ UNCHANGED <<conn, daemon>>
  BY DEF Destroy, serverVars
<1>. QED  BY <1>5, <1>6 DEF LifeInv, ConnType

\* A callback needs a running daemon, and changes neither it nor the components.
LEMMA RequestKeeps == ASSUME LifeInv, NEW c \in Conns, Request(c) PROVE LifeInv'
<1>1. UNCHANGED <<alive, daemon, main>>
  BY DEF Request, Callback, Connect, FirstCall, FinalCall, Respond, Abort, UploadCall
<1>2. PICK l \in {"closed", "headers", "upload", "handler"} :
         conn' = [conn EXCEPT ![c] = l] \/ conn' = conn
  BY DEF Request, Callback, Connect, FirstCall, FinalCall, Respond, Abort, UploadCall, Drop
<1>3. daemon # "stopped"
  BY DEF Request, Callback, Connect, FirstCall, FinalCall, Respond, Abort, UploadCall,
         ThreadFree, LifeInv
<1>. QED  BY <1>1, <1>2, <1>3 DEF LifeInv, ConnType

\* And so does every other step.
LEMMA LifeInductive == LifeInv /\ [Next]_vars => LifeInv'
<1>. SUFFICES ASSUME LifeInv, [Next]_vars PROVE LifeInv'
  OBVIOUS
<1>1. CASE Build
  BY <1>1, BuildKeeps
<1>2. CASE Start
  <2>1. alive' = alive /\ alive = All /\ conn' = conn /\ daemon' \in {daemon, "running"}
    BY <1>2 DEF Start, StartDaemon, serverVars
  <2>2. daemon = "stopped"
    BY <1>2 DEF Start, LifeInv
  <2>3. daemon' # "stopped" => main' = "serving"
    BY <1>2, <2>2 DEF Start, StartDaemon, serverVars
  <2>. QED  BY <2>1, <2>2, <2>3 DEF LifeInv, ConnType
<1>3. CASE Leave \/ Exit \/ Signal \/ UNCHANGED vars
  <2>1. UNCHANGED <<alive, conn, daemon>>
    BY <1>3 DEF Leave, Exit, Signal, vars, serverVars
  <2>2. CASE UNCHANGED main
    BY <2>1, <2>2 DEF LifeInv, ConnType
  <2>3. CASE Leave
    BY <2>1, <2>3 DEF Leave, LifeInv, ConnType
  <2>4. CASE Exit
    <3>1. daemon = "stopped"
      BY <2>4, TheComponents, BuiltNext DEF Exit, LifeInv, All
    <3>. QED  BY <2>1, <3>1 DEF LifeInv, ConnType
  <2>. QED  BY <1>3, <2>2, <2>3, <2>4 DEF Signal, vars
<1>4. CASE Stop
  <2>1. UNCHANGED <<alive, main>> /\ main = "cleaning"
    BY <1>4 DEF Stop
  <2>2. CASE StopDaemon
    BY <2>1, <2>2 DEF StopDaemon, LifeInv, ConnType
  <2>3. CASE JoinDaemon
    BY <2>1, <2>3 DEF JoinDaemon, CloseAll, LifeInv, ConnType
  <2>. QED  BY <1>4, <2>2, <2>3 DEF Stop
<1>5. CASE Destroy
  BY <1>5, DestroyKeeps
<1>6. ASSUME NEW c \in Conns, Request(c) PROVE LifeInv'
  BY <1>6, RequestKeeps
<1>. QED  BY <1>1, <1>2, <1>3, <1>4, <1>5, <1>6 DEF Next, Main

\* Every reachable state satisfies it.
LEMMA LifeInvariance == Spec => []LifeInv
<1>. HIDE DEF LifeInv
<1>. QED  BY LifeInit, LifeInductive, PTL DEF Spec

\* However many requests there are and whenever the signal comes, main destroys
\* nothing while a handler runs.
THEOREM NothingInUseDestroyed == Spec => []RequestsUseLiveComponents
<1>1. LifeInv => RequestsUseLiveComponents
  BY DEF LifeInv, RequestsUseLiveComponents
<1>. QED  BY <1>1, LifeInvariance, PTL

\* From wherever the building stopped, the components go in the reverse order of
\* their creation: none outlives one it points to.
THEOREM UsersGoFirst == Spec => []UsersDieFirst
<1>1. LifeInv => UsersDieFirst
  <2>. SUFFICES ASSUME LifeInv, NEW i \in 2 .. Len(Components), Components[i] \in alive
                PROVE  Components[i - 1] \in alive
    BY DEF UsersDieFirst
  <2>1. PICK n \in 0 .. 5 : alive = Built(n)
    BY DEF LifeInv
  <2>2. PICK j \in 1 .. n : Components[i] = Components[j]
    BY <2>1 DEF Built
  <2>3. i = j
    BY <2>2, TheComponents
  <2>4. i - 1 \in 1 .. n
    BY <2>3
  <2>. QED  BY <2>1, <2>4 DEF Built
<1>. QED  BY <1>1, LifeInvariance, PTL
=============================================================================
