----------------------------- MODULE HttpServer -----------------------------
(***************************************************************************)
(* The HTTP server (src/http/server.c) under libmicrohttpd: the life of a  *)
(* request context from the first callback of a request to the last.       *)
(*                                                                         *)
(* libmicrohttpd is external: one polling thread calls accessHandler-      *)
(* Callback for one connection at a time, first with the headers, then     *)
(* once per piece of the body, then once more, and keeps con_cls between   *)
(* these calls.  The connection may go away between any two of them, and   *)
(* the server has registered no callback that would tell it so.            *)
(***************************************************************************)
EXTENDS Doubling, FiniteSets

CONSTANTS
    Conns,            \* connections libmicrohttpd keeps open at once
    Contexts,         \* addresses calloc can return for a RequestContext; the
                      \* number of them bounds the contexts allocated at once
    Chunks,           \* sizes of the pieces a body arrives in
    MaxBody,          \* bound on the size of a body
    InitialCapacity,  \* first size of the body buffer, 1024
    Memory,           \* "short" if allocations may fail, else "ample"
    None

ASSUME ServerAssumption ==
    /\ Chunks \subseteq Nat \ {0}
    /\ MaxBody \in Nat
    /\ InitialCapacity \in Nat \ {0}
    /\ Memory \in {"short", "ample"}
    /\ None \notin Conns \cup Contexts

VARIABLES
    daemon,     \* "stopped", "running", or "joining" while MHD_stop_daemon
                \* waits for the thread
    conn,       \* conn[c]: "closed"; a request whose "headers" are in; one
                \* whose body is in "upload"; one in the hands of "handler"
    conCls,     \* conCls[c]: the context libmicrohttpd keeps for c, or None
    heap,       \* contexts allocated and not freed
    body,       \* body[x]: size and capacity of the buffer of context x
    received    \* received[c]: bytes of the request's body handed over so
                \* far; a history variable

serverVars == <<daemon, conn, conCls, heap, body, received>>

NoBody == [size |-> 0, capacity |-> 0]

ServerInit ==
    /\ daemon = "stopped"
    /\ conn = [c \in Conns |-> "closed"]
    /\ conCls = [c \in Conns |-> None]
    /\ heap = {}
    /\ body = [x \in Contexts |-> NoBody]
    /\ received = [c \in Conns |-> 0]

-----------------------------------------------------------------------------
(* The body buffer *)

\* Mutant: no room is kept for the terminating null byte.
CapacityForTextOnly(b, need) ==
    IF b.size + need <= b.capacity THEN b.capacity
    ELSE Enough(IF b.capacity = 0 THEN InitialCapacity ELSE b.capacity, b.size + need)

\* The capacity requestContextAppendBody gives buffer b before it appends
\* `need` bytes and a null byte.
CapacityFor(b, need) ==
    IF b.size + need + 1 <= b.capacity THEN b.capacity
    ELSE Enough(IF b.capacity = 0 THEN InitialCapacity ELSE b.capacity, b.size + need + 1)

-----------------------------------------------------------------------------
(* The callbacks *)

\* The polling thread is between two callbacks.  Told to end, it still finishes
\* the round over its ready connections that it is in.
ThreadFree == daemon # "stopped" /\ \A c \in Conns : conn[c] # "handler"

\* What a buffer holds once no request uses it does not matter any more.
Discard(c) ==
    body' = [x \in Contexts |-> IF x = conCls[c] THEN NoBody ELSE body[x]]

\* The connection is gone for libmicrohttpd, and con_cls with it.
Drop(c) ==
    /\ conn' = [conn EXCEPT ![c] = "closed"]
    /\ conCls' = [conCls EXCEPT ![c] = None]
    /\ received' = [received EXCEPT ![c] = 0]
    /\ Discard(c)

\* The headers of a new connection's first request have been read.
Connect(c) ==
    /\ ThreadFree
    /\ conn[c] = "closed"
    /\ conn' = [conn EXCEPT ![c] = "headers"]
    /\ UNCHANGED <<daemon, conCls, heap, body, received>>

\* The callback finds no context and makes one; without memory it closes the
\* connection.
FirstCall(c) ==
    /\ ThreadFree
    /\ conn[c] = "headers"
    /\ conCls[c] = None
    /\ \/ \E x \in Contexts \ heap :
            /\ heap' = heap \cup {x}
            /\ body' = [body EXCEPT ![x] = NoBody]
            /\ conCls' = [conCls EXCEPT ![c] = x]
            /\ conn' = [conn EXCEPT ![c] = "upload"]
            /\ UNCHANGED received
       \/ /\ Memory = "short"
          /\ Drop(c)
          /\ UNCHANGED heap
    /\ UNCHANGED daemon

\* A piece of the body is appended; if the buffer cannot grow the connection is
\* closed and nobody frees the context.
UploadCall(c, size) ==
    LET x        == conCls[c]
        capacity == CapacityFor(body[x], size)
    IN  /\ ThreadFree
        /\ conn[c] = "upload"
        /\ received[c] + size <= MaxBody
        /\ \/ /\ body' = [body EXCEPT ![x] = [size |-> @.size + size,
                                              capacity |-> capacity]]
              /\ received' = [received EXCEPT ![c] = @ + size]
              /\ UNCHANGED <<conn, conCls>>
           \/ /\ Memory = "short" /\ capacity # body[x].capacity
              /\ Drop(c)
        /\ UNCHANGED <<daemon, heap>>

\* The last callback of a request: the request is handed to the router.  If the
\* path cannot be copied the context is freed and the connection closed.
FinalCall(c) ==
    /\ ThreadFree
    /\ conn[c] = "upload"
    /\ \/ /\ conn' = [conn EXCEPT ![c] = "handler"]
          /\ UNCHANGED <<conCls, heap, body, received>>
       \/ /\ Memory = "short"
          /\ heap' = heap \ {conCls[c]}
          /\ Drop(c)
    /\ UNCHANGED daemon

\* Mutant: con_cls still points to the context that has been freed.
RespondKeepingPointer(c) ==
    /\ conn[c] = "handler"
    /\ heap' = heap \ {conCls[c]}
    /\ \/ /\ conn' = [conn EXCEPT ![c] = "headers"]
          /\ received' = [received EXCEPT ![c] = 0]
          /\ UNCHANGED <<conCls, body>>
       \/ Drop(c)
    /\ UNCHANGED daemon

\* Mutant: a response that cannot be sent ends the callback at once.
RespondReturningEarly(c) ==
    /\ conn[c] = "handler"
    /\ \/ /\ heap' = heap \ {conCls[c]}
          /\ Drop(c)
       \/ /\ Memory = "short"
          /\ Drop(c)
          /\ UNCHANGED heap
    /\ UNCHANGED daemon

\* The handler returns; the response is queued, which may fail, and the context
\* freed.  The connection may be kept open for another request.
Respond(c) ==
    /\ conn[c] = "handler"
    /\ heap' = heap \ {conCls[c]}
    /\ \/ /\ conn' = [conn EXCEPT ![c] = "headers"]
          /\ conCls' = [conCls EXCEPT ![c] = None]
          /\ received' = [received EXCEPT ![c] = 0]
          /\ Discard(c)
       \/ Drop(c)
    /\ UNCHANGED daemon

\* The client goes away, or times out, before its request is complete.
Abort(c) ==
    /\ ThreadFree
    /\ conn[c] \in {"headers", "upload"}
    /\ Drop(c)
    /\ UNCHANGED <<daemon, heap>>

Callback(c) ==
    \/ Connect(c) \/ FirstCall(c) \/ FinalCall(c) \/ Respond(c) \/ Abort(c)
    \/ \E size \in Chunks : UploadCall(c, size)

-----------------------------------------------------------------------------
(* Start and stop, called by main *)

\* httpServerStart: MHD_start_daemon succeeds.
StartDaemon ==
    /\ daemon = "stopped"
    /\ daemon' = "running"
    /\ UNCHANGED <<conn, conCls, heap, body, received>>

\* httpServerStop: MHD_stop_daemon tells the polling thread to end ...
StopDaemon ==
    /\ daemon = "running"
    /\ daemon' = "joining"
    /\ UNCHANGED <<conn, conCls, heap, body, received>>

CloseAll ==
    /\ daemon' = "stopped"
    /\ conn' = [c \in Conns |-> "closed"]
    /\ conCls' = [c \in Conns |-> None]
    /\ received' = [c \in Conns |-> 0]
    /\ body' = [x \in Contexts |-> NoBody]
    /\ UNCHANGED heap

\* Mutant: the thread is not waited for.
JoinDaemonAtOnce ==
    /\ daemon = "joining"
    /\ daemon' = "stopped"
    /\ UNCHANGED <<conn, conCls, heap, body, received>>

\* Mutant: the clients are waited for as well.
JoinDaemonWhenIdle ==
    /\ daemon = "joining"
    /\ \A c \in Conns : conn[c] = "closed"
    /\ CloseAll

\* ... which it does between two callbacks; then all connections are closed.
JoinDaemon ==
    /\ daemon = "joining"
    /\ \A c \in Conns : conn[c] # "handler"
    /\ CloseAll

-----------------------------------------------------------------------------
(* Properties *)

\* A callback never uses a context that is not allocated or that another
\* request uses, not even on a connection that carries one request after the
\* other.
ContextsAreLive ==
    /\ \A c \in Conns : conCls[c] # None => conCls[c] \in heap
    /\ \A c, d \in Conns : c # d /\ conCls[c] # None => conCls[c] # conCls[d]
    /\ \A c \in Conns : conn[c] \in {"upload", "handler"} => conCls[c] # None

\* The body and its terminating null byte stay inside the buffer, and hold
\* every byte received, for every order of pieces around the doublings.
BodyFits ==
    \A c \in Conns :
       conn[c] \in {"upload", "handler"} /\ conCls[c] # None =>
          LET b == body[conCls[c]]
          IN  /\ b.size = received[c]
              /\ b.size > 0 => b.size + 1 <= b.capacity

\* A request that reaches its handler gives its context back, whether its
\* response can be sent or not; only a request cut off before loses it.
AnsweredRequestsFreeTheirContext ==
    [][\A c \in Conns :
          conn[c] = "handler" /\ conn'[c] # "handler" => conCls[c] \notin heap']_serverVars
=============================================================================
