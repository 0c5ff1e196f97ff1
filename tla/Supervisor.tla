------------------------------ MODULE Supervisor ------------------------------
(***************************************************************************)
(* `run_service.py start` in any number of terminals: each runs a service  *)
(* process of its own (ServerMain) and hands what is typed to a child that *)
(* runs `main.py ask`, until Ctrl+C or the end of the input.               *)
(*                                                                         *)
(* Ctrl+C in a terminal reaches every process that runs in it.  There is   *)
(* one port, so that only one service can serve.                           *)
(***************************************************************************)
EXTENDS Installation

CONSTANTS
    Terminals,
    Inherited   \* GITHUB_TOKEN in the environment of the shells, "" if not set

ASSUME InheritedAssumption == Inherited \in Values

VARIABLES
    at,         \* at[s]: where the script in terminal s is
    how,        \* how it ended: "refused", "stopped", "interrupted" or "killed"
    token,      \* runtime_env["GITHUB_TOKEN"]
    stored,     \* the token that .env held when the script was started, or None
    svc,        \* its service process
    child       \* its child: "none", "running", or how it ended

superVars == <<at, how, token, stored, svc, child>>

SupervisorInit ==
    /\ at = [s \in Terminals |-> "off"] /\ how = [s \in Terminals |-> ""]
    /\ token = [s \in Terminals |-> ""] /\ stored = [s \in Terminals |-> None]
    /\ svc = [s \in Terminals |-> "none"] /\ child = [s \in Terminals |-> "none"]

Enter(s, label) == at' = [at EXCEPT ![s] = label] /\ UNCHANGED <<how, token, stored>>

\* What the script had in memory is gone.
End(s, why) ==
    /\ at' = [at EXCEPT ![s] = "ended"] /\ how' = [how EXCEPT ![s] = why]
    /\ token' = [token EXCEPT ![s] = ""] /\ stored' = [stored EXCEPT ![s] = None]

-----------------------------------------------------------------------------
(* run_start *)

Start(s) ==
    /\ at[s] \in {"off", "ended"} /\ svc[s] \in {"none", "exited"} /\ child[s] # "running"
    /\ svc' = [svc EXCEPT ![s] = "none"] /\ child' = [child EXCEPT ![s] = "none"]
    /\ UNCHANGED token
    /\ IF binary
       THEN /\ at' = [at EXCEPT ![s] = "load"] /\ how' = [how EXCEPT ![s] = ""]
            /\ stored' = [stored EXCEPT ![s] =
                  IF Real(Loaded(env, TokenKey, "")) THEN Loaded(env, TokenKey, "") ELSE None]
       ELSE /\ at' = [at EXCEPT ![s] = "ended"] /\ how' = [how EXCEPT ![s] = "refused"]
            /\ UNCHANGED stored

LoadEnv(s) ==
    /\ at[s] = "load" /\ at' = [at EXCEPT ![s] = "activate"]
    /\ token' = [token EXCEPT ![s] = Loaded(env, TokenKey, Inherited)]
    /\ UNCHANGED <<how, stored, svc, child>>

ActivateVirtualEnvironment(s) ==
    /\ at[s] = "activate"
    /\ IF HasPython THEN Enter(s, "spawn") ELSE End(s, "refused")
    /\ UNCHANGED <<svc, child>>

Spawn(s) ==
    /\ at[s] = "spawn" /\ UNCHANGED child
    /\ \/ Enter(s, "sleep") /\ svc' = [svc EXCEPT ![s] = "booting"]
       \/ End(s, "refused") /\ UNCHANGED svc

\* time.sleep(0.3), which may be too short for a service to find the port taken
Wake(s) ==
    /\ at[s] = "sleep"
    /\ IF svc[s] = "exited" THEN End(s, "refused") ELSE Enter(s, "poll")
    /\ UNCHANGED <<svc, child>>

Poll(s) ==
    /\ at[s] = "poll"
    /\ Enter(s, IF svc[s] = "exited" THEN "stopping" ELSE "prompt")
    /\ child' = [child EXCEPT ![s] = "none"] /\ UNCHANGED svc

EndOfInput(s) ==
    /\ at[s] = "prompt" /\ Enter(s, "stopping")
    /\ UNCHANGED <<svc, child>>

\* run_assistant_prompt; an OSError is caught.
Type(s) ==
    /\ at[s] = "prompt" /\ UNCHANGED svc
    /\ \/ Enter(s, "asking") /\ child' = [child EXCEPT ![s] = "running"]
       \/ Enter(s, "poll") /\ UNCHANGED child

\* OllamaGenerator.chat: the endpoint knows no placeholder, and it may refuse
\* or fail at anything else.
Chat(t) == {"refused", "failed"} \cup IF Real(t) THEN {"answer"} ELSE {}

\* Without a token the generator cannot be made, and nothing is asked.
Generator(t) == IF t = "" THEN {"missing"} ELSE Chat(t)

\* main.py ask: before or after, anything may fail.
Replies(t) == {"failed"} \cup Generator(t)

ChildEnds(s) ==
    /\ at[s] = "asking" /\ Enter(s, "poll")
    /\ \E r \in Replies(token[s]) : child' = [child EXCEPT ![s] = r]
    /\ UNCHANGED svc

-----------------------------------------------------------------------------
(* stop_process, and signals *)

\* A process that is sent SIGINT or SIGTERM ends at once as long as it has not
\* installed handleSignal, and when main's loop sees the flag after that.
Signalled(s) ==
    \/ svc[s] \in {"serving", "stopping", "booting"} /\ svc' = [svc EXCEPT ![s] = "stopping"]
    \/ svc[s] = "booting" /\ svc' = [svc EXCEPT ![s] = "exited"]
    \/ svc[s] \in {"none", "exited"} /\ UNCHANGED svc

\* A bug: the service is left to itself.
TerminateNothing(s) ==
    /\ at[s] = "stopping" /\ End(s, "stopped") /\ UNCHANGED svc
    /\ UNCHANGED child

Terminate(s) ==
    /\ at[s] = "stopping"
    /\ IF svc[s] = "exited" THEN End(s, "stopped") /\ UNCHANGED svc
       ELSE Enter(s, "waiting") /\ Signalled(s)
    /\ UNCHANGED child

Reap(s) ==
    /\ at[s] = "waiting" /\ svc[s] = "exited" /\ End(s, "stopped")
    /\ UNCHANGED <<svc, child>>

\* A bug: after the timeout the service is sent SIGTERM once more.
KillGently(s) ==
    /\ at[s] = "waiting" /\ svc[s] # "exited" /\ Signalled(s)
    /\ UNCHANGED <<at, how, token, stored, child>>

\* Five seconds later; SIGKILL cannot be held off.
Kill(s) ==
    /\ at[s] = "waiting" /\ svc[s] # "exited"
    /\ svc' = [svc EXCEPT ![s] = "exited"]
    /\ UNCHANGED <<at, how, token, stored, child>>

\* Inside the try block the service is stopped; before it, and in stop_process
\* itself, the script just ends.  A child that runs dies with it.
CtrlC(s) ==
    /\ at[s] \notin {"off", "ended"}
    /\ IF at[s] \in {"poll", "prompt", "asking"} THEN Enter(s, "stopping") ELSE End(s, "interrupted")
    /\ child' = [child EXCEPT ![s] = "none"]
    /\ Signalled(s)

\* The script alone is killed.
Killed(s) ==
    /\ at[s] \notin {"off", "ended"} /\ End(s, "killed")
    /\ UNCHANGED <<svc, child>>

\* The child of a script that was killed ends by itself.
OrphanEnds(s) ==
    /\ at[s] = "ended" /\ child[s] = "running"
    /\ child' = [child EXCEPT ![s] = "none"]
    /\ UNCHANGED <<at, how, token, stored, svc>>

-----------------------------------------------------------------------------
(* The service process, as ServerMain has it *)

PortFree == \A s \in Terminals : svc[s] \notin {"serving", "stopping"}

\* Start-up succeeds or fails, and fails if the port is taken.
Boot(s) ==
    /\ svc[s] = "booting"
    /\ svc' \in {[svc EXCEPT ![s] = v] : v \in {"exited"} \cup IF PortFree THEN {"serving"} ELSE {}}
    /\ UNCHANGED <<at, how, token, stored, child>>

\* After a signal, or by a crash; a handler that hangs may hold it off.
Exit(s) ==
    /\ svc[s] \in {"serving", "stopping"} /\ svc' = [svc EXCEPT ![s] = "exited"]
    /\ UNCHANGED <<at, how, token, stored, child>>

Session(s) ==
    \/ Start(s) \/ LoadEnv(s) \/ ActivateVirtualEnvironment(s) \/ Spawn(s) \/ Wake(s)
    \/ Poll(s) \/ EndOfInput(s) \/ Type(s) \/ ChildEnds(s)
    \/ Terminate(s) \/ Reap(s) \/ Kill(s) \/ CtrlC(s) \/ Killed(s)
    \/ OrphanEnds(s) \/ Boot(s) \/ Exit(s)
=============================================================================
