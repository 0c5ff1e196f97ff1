------------------------------ MODULE RunService ------------------------------
(***************************************************************************)
(* run_service.py on one machine: setup in one terminal, and start in any  *)
(* number of others, while it runs, before and after.                      *)
(***************************************************************************)
EXTENDS Setup, Supervisor

vars == <<machine, setupVars, superVars>>

Init == MachineInit /\ SetupInit /\ SupervisorInit

Next ==
    \/ SetupNext /\ UNCHANGED superVars
    \/ \E s \in Terminals : Session(s) /\ UNCHANGED <<machine, setupVars>>

\* The script goes on in stop_process, where each wait has a timeout.
Stopping(s) == (Terminate(s) \/ Reap(s) \/ Kill(s)) /\ UNCHANGED <<machine, setupVars>>

Spec == Init /\ [][Next]_vars /\ \A s \in Terminals : WF_vars(Stopping(s))

SetupTypeOK ==
    /\ binary \in BOOLEAN /\ ollama \in BOOLEAN /\ model \in {"missing", "other", "right"}
    /\ env \in Seq(Line) \cup {None} /\ pending \in Seq(Line) \cup {None}
    /\ venv \in {"none", "dir", "bare", "python", "complete"}
    /\ index \in {"none", "part", "whole"}
    /\ setup \in Ended \cup Steps /\ fault \in BOOLEAN /\ runs \in 0 .. MaxSetups

SuperTypeOK ==
    /\ at \in [Terminals -> {"off", "load", "activate", "spawn", "sleep", "poll", "prompt",
                             "asking", "stopping", "waiting", "ended"}]
    /\ how \in [Terminals -> {"", "refused", "stopped", "interrupted", "killed"}]
    /\ token \in [Terminals -> Values] /\ stored \in [Terminals -> Values \cup {None}]
    /\ svc \in [Terminals -> {"none", "booting", "serving", "stopping", "exited"}]
    /\ child \in [Terminals -> {"none", "running", "failed", "missing", "refused", "answer"}]

TypeOK == SetupTypeOK /\ SuperTypeOK

-----------------------------------------------------------------------------
\* Setup says it is completed only when everything start and the assistant
\* need is there, whatever earlier runs left behind half done, and although a
\* failure to install the packages is not taken for one (run_service.py:317).
CompletedSetupIsUsable ==
    setup = "done" =>
        /\ binary /\ venv = "complete" /\ ollama /\ model = "right" /\ index = "whole"
        /\ HasKey(env, TokenKey)

\* A run of setup in which nothing goes wrong can fail only because an earlier
\* one was cut off while it made the virtual environment, whose remains are
\* taken for one (run_service.py:303), or because another tag of the embedding
\* model is taken for the model (run_service.py:289-296).
SetupFailsOnlyIfBlocked ==
    setup = "failed" /\ ~fault => venv \in {"dir", "bare"} \/ model = "other"

\* A run of setup in which nothing goes wrong succeeds, since it makes what is
\* missing ("Create a Python virtual environment if needed.",
\* run_service.py:97; "Run `python3 run_service.py setup` first.", :504).
SetupFailsOnlyByAFault ==
    setup = "failed" => fault

\* Once there is a token in .env, every start uses it, never the one the shell
\* exports: no later setup replaces it or loses it, although it rewrites the
\* file, and may be cut off while it does, when start reads it
\* (run_service.py:221-252, 494-496).
SessionUsesStoredToken ==
    \A s \in Terminals :
        stored[s] # None /\ at[s] \notin {"off", "load", "ended"} =>
            token[s] = stored[s] /\ child[s] # "missing"

\* When the script has ended, its service and its child have, too.  If it was
\* interrupted outside the prompt, before the try block or while it was
\* stopping, the service has been told to stop at least; only if the script was
\* killed may its service go on serving (run_service.py:509-545).
NothingLeftRunning ==
    \A s \in Terminals : at[s] = "ended" =>
        /\ how[s] \in {"refused", "stopped"} => svc[s] \in {"none", "exited"}
        /\ how[s] # "killed" => svc[s] \notin {"booting", "serving"} /\ child[s] # "running"

\* Stopping comes to an end even if the service does not react to the signal
\* (run_service.py:471-480).
StopEnds ==
    \A s \in Terminals : at[s] = "stopping" ~> at[s] = "ended"
=============================================================================
