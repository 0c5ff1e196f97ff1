----------------------------- MODULE ServerMain -----------------------------
(***************************************************************************)
(* The life of the notes service process (src/main.c): its components are  *)
(* built one on the other, the HTTP server's thread runs requests through  *)
(* all of them, and a signal, or a component that cannot be built, takes   *)
(* them down again.                                                        *)
(***************************************************************************)
EXTENDS HttpServer, Sequences

VARIABLES
    main,       \* where main is: "building", "serving", "cleaning" or "exited"
    alive,      \* components main has created and not destroyed
    stop,       \* g_should_stop
    exitCode    \* what main returns

vars == <<serverVars, main, alive, stop, exitCode>>

\* Each component holds a pointer to the one before it.
Components == <<"repository", "service", "context", "router", "server">>
All == {Components[i] : i \in DOMAIN Components}

Init ==
    /\ ServerInit
    /\ main = "building"
    /\ alive = {}
    /\ stop = FALSE
    /\ exitCode = "OK"

\* SIGINT or SIGTERM, at any time.
Signal ==
    /\ main # "exited"
    /\ stop' = TRUE
    /\ UNCHANGED <<serverVars, main, alive, exitCode>>

GiveUp ==
    /\ main' = "cleaning"
    /\ exitCode' = "ERROR"

\* The next component is created, or main gives up: the data directory may not
\* be accessible, an allocation may fail.
Build ==
    LET n == Cardinality(alive)
    IN  /\ main = "building" /\ n < Len(Components)
        /\ \/ /\ alive' = alive \cup {Components[n + 1]}
              /\ UNCHANGED <<main, exitCode>>
           \/ (n = 0 \/ Memory = "short") /\ GiveUp /\ UNCHANGED alive
        /\ UNCHANGED <<serverVars, stop>>

\* MHD_start_daemon fails if, for instance, the port is taken.
Start ==
    /\ main = "building" /\ alive = All
    /\ \/ /\ StartDaemon
          /\ main' = "serving"
          /\ UNCHANGED exitCode
       \/ GiveUp /\ UNCHANGED serverVars
    /\ UNCHANGED <<alive, stop>>

\* The loop in main sees the flag.
Leave ==
    /\ main = "serving" /\ stop
    /\ main' = "cleaning"
    /\ UNCHANGED <<serverVars, alive, stop, exitCode>>

\* httpServerDestroy stops a running daemon before it frees the server.
Stop ==
    /\ main = "cleaning" /\ "server" \in alive
    /\ StopDaemon \/ JoinDaemon
    /\ UNCHANGED <<main, alive, stop, exitCode>>

\* Mutant: the components are destroyed in the order they were created in.
NextToDestroyForwards ==
    LET first == CHOOSE i \in DOMAIN Components :
                    /\ Components[i] \in alive
                    /\ \A j \in 1 .. i - 1 : Components[j] \notin alive
    IN  Components[first]

\* main destroys what was created, the last created first.
NextToDestroy ==
    LET last == CHOOSE i \in DOMAIN Components :
                   /\ Components[i] \in alive
                   /\ \A j \in i + 1 .. Len(Components) : Components[j] \notin alive
    IN  Components[last]

Destroy ==
    /\ main = "cleaning" /\ alive # {} /\ daemon = "stopped"
    /\ alive' = alive \ {NextToDestroy}
    /\ UNCHANGED <<serverVars, main, stop, exitCode>>

Exit ==
    /\ main = "cleaning" /\ alive = {}
    /\ main' = "exited"
    /\ UNCHANGED <<serverVars, alive, stop, exitCode>>

Main == Build \/ Start \/ Leave \/ Stop \/ Destroy \/ Exit

Request(c) == Callback(c) /\ UNCHANGED <<main, alive, stop, exitCode>>

Next == Main \/ Signal \/ \E c \in Conns : Request(c)

\* main keeps running, and a handler that has been called returns; no client has
\* to send anything.  The polling thread looks at its order to end after every
\* round over its connections, however many of them are ready: hence the
\* strong fairness of Stop.
Fairness ==
    /\ WF_vars(Main)
    /\ SF_vars(Stop)
    /\ \A c \in Conns : WF_vars(Respond(c) /\ UNCHANGED <<main, alive, stop, exitCode>>)

Spec == Init /\ [][Next]_vars /\ Fairness

-----------------------------------------------------------------------------
(* Properties *)

\* While a request is in the hands of its handler, in the polling thread,
\* everything the handler reaches through its pointers is still there: main
\* destroys nothing under it, however early or late the signal comes.
RequestsUseLiveComponents ==
    (\E c \in Conns : conn[c] = "handler") => alive = All

\* A component never outlives one it points to, while the process is built up
\* and while it is taken down, from wherever the building stopped.
UsersDieFirst ==
    \A i \in 2 .. Len(Components) :
       Components[i] \in alive => Components[i - 1] \in alive

\* Once told to stop, or once it has given up, the process ends, whatever its
\* clients do.
ShutsDown == stop \/ exitCode = "ERROR" ~> main = "exited"
=============================================================================
