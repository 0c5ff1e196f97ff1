--------------------------------- MODULE Setup ---------------------------------
(***************************************************************************)
(* `run_service.py setup`: six steps, any of which may fail, be run again  *)
(* after a failure, or be cut off by Ctrl+C.  A file is written by         *)
(* truncating it and then filling it.                                      *)
(***************************************************************************)
EXTENDS Installation

CONSTANT MaxSetups      \* bound: how often setup is run

ASSUME SetupsAssumption == MaxSetups \in Nat

VARIABLES
    setup,      \* the step the running command is at, or how the last one ended
    pending,    \* what is still to be written to .env, or None
    fault,      \* whether something failed from outside in this run
    runs        \* how often setup was run

setupVars == <<setup, pending, fault, runs>>

Ended == {"idle", "cancelled", "done", "failed"}
Steps == {"apt", "make", "env", "key", "token", "venv", "pip", "ollama", "model", "index"}

SetupInit == setup = "idle" /\ pending = None /\ fault = FALSE /\ runs = 0

At(step) == setup = step /\ pending = None /\ UNCHANGED <<runs>>
Goto(step) == setup' = step /\ UNCHANGED fault
Fail == setup' = "failed" /\ fault' = TRUE

-----------------------------------------------------------------------------
\* The plan is shown, and is to be confirmed.
BeginSetup ==
    /\ setup \in Ended /\ runs < MaxSetups
    /\ setup' \in {"apt", "cancelled"}
    /\ fault' = FALSE /\ runs' = runs + 1
    /\ UNCHANGED <<machine, pending>>

InstallAptPackages ==
    /\ At("apt") /\ (Goto("make") \/ Fail)
    /\ UNCHANGED <<machine, pending>>

CompileMicroservice ==
    /\ At("make")
    /\ \/ Goto("env") /\ binary' = TRUE
       \/ Fail /\ UNCHANGED binary
    /\ UNCHANGED <<env, venv, ollama, model, index, pending>>

-----------------------------------------------------------------------------
(* .env and the token *)

\* write_text and copy2 truncate the file and then fill it.
Rewrite(file) == env' = <<>> /\ pending' = file

KeepEnv == UNCHANGED <<env, pending>>

EnsureEnvFile ==
    /\ At("env") /\ Goto("key")
    /\ IF env = None THEN Rewrite(IF Example = None THEN <<>> ELSE Example) ELSE KeepEnv
    /\ UNCHANGED <<binary, venv, ollama, model, index>>

AddMissingKey ==
    /\ At("key") /\ Goto("token")
    /\ IF HasKey(env, TokenKey) THEN KeepEnv ELSE Rewrite(Upsert(env, TokenKey, Placeholder))
    /\ UNCHANGED <<binary, venv, ollama, model, index>>

\* No, an empty line and the end of the input leave .env as it is.
AskForToken ==
    /\ At("token") /\ Goto("venv")
    /\ IF TokenGiven(env) THEN KeepEnv
       ELSE \/ KeepEnv
            \/ \E t \in Pasted : Rewrite(Upsert(env, TokenKey, t))
    /\ UNCHANGED <<binary, venv, ollama, model, index>>

FillEnv ==
    /\ setup \in Steps /\ pending # None
    /\ env' = pending /\ pending' = None
    /\ UNCHANGED <<binary, venv, ollama, model, index, setup, fault, runs>>

-----------------------------------------------------------------------------
\* python3 -m venv makes the directory first, then the interpreter, then pip;
\* what is there is never made again.
EnsureVirtualEnvironment ==
    /\ At("venv")
    /\ \/ venv = "none" /\ Goto("pip") /\ venv' = "python"
       \/ venv = "none" /\ Fail /\ venv' \in {"none", "dir", "bare"}
       \/ venv # "none" /\ ~HasPython /\ Goto("failed") /\ UNCHANGED venv
       \/ HasPython /\ Goto("pip") /\ UNCHANGED venv
    /\ UNCHANGED <<binary, env, ollama, model, index, pending>>

\* A bug: packages are installed by the first run only.
InstallDependenciesOnce ==
    /\ At("pip")
    /\ \/ runs > 1 /\ Goto("ollama") /\ UNCHANGED venv
       \/ venv \in {"python", "complete"} /\ Goto("ollama") /\ venv' = "complete"
       \/ setup' = "ollama" /\ fault' = TRUE /\ UNCHANGED venv
    /\ UNCHANGED <<binary, env, ollama, model, index, pending>>

\* install_python_dependencies; that they fail is said, and setup goes on.
InstallPythonDependencies ==
    /\ At("pip")
    /\ \/ venv = "bare" /\ Goto("ollama") /\ UNCHANGED venv
       \/ venv \in {"python", "complete"} /\ Goto("ollama") /\ venv' = "complete"
       \/ setup' = "ollama" /\ fault' = TRUE /\ UNCHANGED venv
    /\ UNCHANGED <<binary, env, ollama, model, index, pending>>

InstallOllama ==
    /\ At("ollama")
    /\ \/ Goto("model") /\ ollama' = TRUE
       \/ ~ollama /\ Fail /\ UNCHANGED ollama
    /\ UNCHANGED <<binary, env, venv, model, index, pending>>

\* is_ollama_model_available: every tag of the name is taken for the model.
ModelListed == model # "missing"

\* A model that is listed is not pulled; if ollama list fails, it is.
PullEmbeddingModel ==
    /\ At("model")
    /\ \/ ModelListed /\ Goto("index") /\ UNCHANGED model
       \/ ~ModelListed /\ Goto("index") /\ model' = "right"
       \/ ModelListed /\ setup' = "index" /\ fault' = TRUE /\ model' = "right"
       \/ Fail /\ UNCHANGED model
    /\ UNCHANGED <<binary, env, venv, ollama, index, pending>>

\* main.py index needs the packages, and Ollama the very model.
Indexable == venv = "complete" /\ model = "right"

\* A bug: the result of the index command is dropped.
RunIndexStepUnchecked ==
    /\ At("index") /\ Goto("done")
    /\ IF Indexable THEN index' \in {index, "part", "whole"} ELSE UNCHANGED index
    /\ UNCHANGED <<binary, env, venv, ollama, model, pending>>

\* The index command may leave a part of an index.
RunIndexStep ==
    /\ At("index")
    /\ \/ Indexable /\ Goto("done") /\ index' = "whole"
       \/ Indexable /\ Fail /\ index' \in {index, "part"}
       \/ ~Indexable /\ Goto("failed") /\ UNCHANGED index
    /\ UNCHANGED <<binary, env, venv, ollama, model, pending>>

\* Ctrl+C, or the end of the input at a question
InterruptSetup ==
    /\ setup \in Steps /\ Fail
    /\ pending' = None /\ UNCHANGED <<machine, runs>>

SetupNext ==
    \/ BeginSetup \/ InstallAptPackages \/ CompileMicroservice
    \/ EnsureEnvFile \/ AddMissingKey \/ AskForToken \/ FillEnv
    \/ EnsureVirtualEnvironment \/ InstallPythonDependencies
    \/ InstallOllama \/ PullEmbeddingModel \/ RunIndexStep \/ InterruptSetup
=============================================================================
