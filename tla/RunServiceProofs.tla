--------------------------- MODULE RunServiceProofs ---------------------------
(***************************************************************************)
(* What holds of RunService for any number of terminals and runs of setup, *)
(* any values and any environment files with one line for the token.       *)
(***************************************************************************)
EXTENDS RunService, TLAPS

-----------------------------------------------------------------------------
(* Environment files *)

\* A file without lines is plain.
LEMMA EmptyIsPlain == Plain(<<>>) /\ KeyLines(<<>>, TokenKey) = {}
  BY DEF Plain, KeyLines

\* With one line for the token, load_env_file and setup_env_and_token read the
\* same value.
LEMMA PlainToken ==
    ASSUME NEW file, Plain(file), KeyLines(file, TokenKey) # {}, NEW d
    PROVE  /\ Loaded(file, TokenKey, d) = Loaded(file, TokenKey, "")
           /\ Loaded(file, TokenKey, d) \in Values
           /\ TokenGiven(file) <=> Real(Loaded(file, TokenKey, d))
<1>1. PICK i \in KeyLines(file, TokenKey) : TRUE
  OBVIOUS
<1>2. KeyLines(file, TokenKey) = {i} /\ i \in 1 .. Len(file)
  BY <1>1 DEF Plain, KeyLines
<1>0. file \in Seq(Line)
  BY DEF Plain
<1>3. file # None /\ file[i] \in Line
  <2>1. None \notin Seq(Line)
    BY EnvAssumption
  <2>2. file[i] \in Line
    BY <1>0, <1>2
  <2> QED
    BY <1>0, <2>1, <2>2
<1>4. (CHOOSE j \in {i} : \A k \in {i} : j <= k) = i
  BY <1>2
<1>5. (CHOOSE j \in {i} : \A k \in {i} : k <= j) = i
  BY <1>2
<1>6. file[i].quote # "single" /\ file[i].value \in Values
  BY <1>1, <1>3 DEF Plain, Line
<1>7. Loaded(file, TokenKey, d) = file[i].value
  BY <1>2, <1>3, <1>4 DEF Loaded
<1>8. Loaded(file, TokenKey, "") = file[i].value
  BY <1>2, <1>3, <1>4 DEF Loaded
<1>9. TokenGiven(file) <=> Real(file[i].value)
  BY <1>2, <1>5, <1>6 DEF TokenGiven
<1> QED
  BY <1>6, <1>7, <1>8, <1>9

\* A value read from a file is a value, or what it is when there is none.
LEMMA LoadedValue ==
    ASSUME NEW file, file # None => Plain(file), NEW d \in Values
    PROVE  Loaded(file, TokenKey, d) \in Values
<1>1. CASE file # None /\ KeyLines(file, TokenKey) # {}
  BY <1>1, PlainToken
<1>2. CASE file = None \/ KeyLines(file, TokenKey) = {}
  BY <1>2 DEF Loaded
<1> QED
  BY <1>1, <1>2

\* Setting the token leaves one line for it.
LEMMA UpsertPlain ==
    ASSUME NEW file, Plain(file), NEW v \in Pasted \cup {Placeholder}
    PROVE  /\ Plain(Upsert(file, TokenKey, v))
           /\ KeyLines(Upsert(file, TokenKey, v), TokenKey) # {}
<1> DEFINE line == [key |-> TokenKey, value |-> Escaped[v], quote |-> "double"]
<1>0. line \in Line /\ line.key = TokenKey /\ line.quote # "single" /\ file \in Seq(Line)
  <2>1. Escaped[v] \in Values
    BY EnvAssumption
  <2> QED
    BY <2>1 DEF Line, Plain
<1>1. CASE KeyLines(file, TokenKey) = {}
  <2> DEFINE new == Append(file, line)
  <2>1. new \in Seq(Line) /\ Len(new) = Len(file) + 1 /\ new[Len(file) + 1] = line
        /\ \A k \in 1 .. Len(file) : new[k] = file[k]
    BY <1>0
  <2>2. KeyLines(new, TokenKey) = {Len(file) + 1}
    BY <1>0, <1>1, <2>1 DEF KeyLines
  <2>3. Plain(new)
    BY <1>0, <2>1, <2>2 DEF Plain
  <2> QED
    BY <1>1, <2>2, <2>3 DEF Upsert
<1>2. CASE KeyLines(file, TokenKey) # {}
  <2>1. PICK i \in KeyLines(file, TokenKey) : TRUE
    BY <1>2
  <2>2. KeyLines(file, TokenKey) = {i} /\ i \in 1 .. Len(file)
    BY <2>1 DEF Plain, KeyLines
  <2> DEFINE new == [file EXCEPT ![i] = line]
  <2>3. new \in Seq(Line) /\ Len(new) = Len(file) /\ new[i] = line
        /\ \A k \in 1 .. Len(file) : k # i => new[k] = file[k]
    BY <1>0, <2>2
  <2>4. KeyLines(new, TokenKey) = {i}
    BY <1>0, <2>2, <2>3 DEF KeyLines
  <2>5. Plain(new)
    BY <1>0, <2>3, <2>4 DEF Plain
  <2>6. (CHOOSE j \in {i} : \A k \in {i} : j <= k) = i
    BY <2>2
  <2>7. Upsert(file, TokenKey, v) = new
    BY <1>2, <2>2, <2>6 DEF Upsert
  <2> QED
    BY <2>4, <2>5, <2>7
<1> QED
  BY <1>1, <1>2

-----------------------------------------------------------------------------
(* The invariant of setup *)

\* What .env will hold when the write that goes on is finished
Final == IF pending = None THEN env ELSE pending

\* .env is a plain file; only a step that goes on may have truncated it.
EnvInv ==
    /\ env = None \/ Plain(env)
    /\ pending # None => Plain(pending) /\ env = <<>> /\ setup \in Steps

\* What the steps behind a run of setup have done is still done.
DoneInv ==
    /\ setup \in {"env", "key", "token", "venv", "pip", "ollama", "model", "index", "done"} => binary
    /\ setup \in {"key", "token", "venv", "pip", "ollama", "model", "index", "done"} => env # None
    /\ setup \in {"token", "venv", "pip", "ollama", "model", "index", "done"} =>
            KeyLines(Final, TokenKey) # {}
    /\ setup \in {"model", "index", "done"} => ollama
    /\ setup \in {"index", "done"} => model # "missing"
    /\ setup = "done" => Indexable /\ index = "whole"

\* The dependencies are installed into a virtual environment with an interpreter.
\* If nothing failed in this run, they are there from then on, unless what was
\* taken for the environment has no pip.
VenvInv ==
    /\ setup = "pip" => HasPython
    /\ setup \in {"ollama", "model", "index"} /\ ~fault => venv \in {"bare", "complete"}
    /\ setup = "failed" /\ ~fault => venv \in {"dir", "bare"} \/ model = "other"

SetupInv == SetupTypeOK /\ EnvInv /\ DoneInv /\ VenvInv

\* The script starts with nothing half set up.
LEMMA SetupBegins == MachineInit /\ SetupInit => SetupInv
<1> SUFFICES ASSUME MachineInit, SetupInit PROVE SetupInv
  OBVIOUS
<1>1. env = None \/ Plain(env)
  BY EnvAssumption DEF MachineInit
<1>2. 0 \in 0 .. MaxSetups
  BY SetupsAssumption
<1>3. SetupTypeOK
  BY <1>1, <1>2, ModelsAssumption DEF SetupTypeOK, MachineInit, SetupInit, Plain, Ended
<1>4. DoneInv
  BY DEF DoneInv, SetupInit
<1> QED
  BY <1>1, <1>3, <1>4 DEF SetupInv, EnvInv, VenvInv, SetupInit

\* Every step of the setup keeps its invariant.
LEMMA SetupKeeps == SetupInv /\ [SetupNext]_<<machine, setupVars>> => SetupInv'
<1> SUFFICES ASSUME SetupInv, [SetupNext]_<<machine, setupVars>> PROVE SetupInv'
  OBVIOUS
<1>1. CASE BeginSetup
  <2>1. runs' \in 0 .. MaxSetups
    BY <1>1, SetupsAssumption DEF BeginSetup, SetupInv, SetupTypeOK
  <2>2. pending = None /\ UNCHANGED <<machine, pending>> /\ setup' \in {"apt", "cancelled"}
        /\ fault' = FALSE
    BY <1>1 DEF BeginSetup, SetupInv, EnvInv, Ended, Steps
  <2>3. SetupTypeOK'
    BY <2>1, <2>2 DEF SetupInv, SetupTypeOK, machine, Ended, Steps
  <2>4. EnvInv'
    BY <2>2 DEF SetupInv, EnvInv, machine
  <2>5. setup' \notin {"env", "key", "token", "venv", "pip", "ollama", "model", "index", "done", "failed"}
    BY <2>2
  <2>6. DoneInv'
    BY <2>5 DEF DoneInv
  <2>7. VenvInv'
    BY <2>5 DEF VenvInv
  <2> QED
    BY <2>3, <2>4, <2>6, <2>7 DEF SetupInv
<1> USE DEF SetupInv, VenvInv, HasPython, Indexable, ModelListed, Goto, Fail, At, KeepEnv, Rewrite, machine, setupVars
<1>2. CASE InstallAptPackages
  BY <1>2, ZenonT(60) DEF InstallAptPackages, SetupTypeOK, EnvInv, DoneInv, Final, Ended, Steps
<1>3. CASE CompileMicroservice
  BY <1>3, ZenonT(60) DEF CompileMicroservice, SetupTypeOK, EnvInv, DoneInv, Final, Ended, Steps
<1>4. CASE EnsureEnvFile
  <2>1. CASE env = None
    <3>1. env' = <<>> /\ pending' \in {<<>>, Example} /\ Plain(pending') /\ Plain(<<>>)
      BY <1>4, <2>1, EmptyIsPlain, EnvAssumption DEF EnsureEnvFile
    <3>2. pending' # None /\ env' # None
      BY <3>1, EnvAssumption DEF Plain
    <3> QED
      BY <1>4, <3>1, <3>2 DEF EnsureEnvFile, SetupTypeOK, EnvInv, DoneInv, Final, Ended, Steps, Plain
  <2>2. CASE env # None
    BY <1>4, <2>2 DEF EnsureEnvFile, SetupTypeOK, EnvInv, DoneInv, Final, Ended, Steps
  <2> QED
    BY <2>1, <2>2
<1>5. CASE AddMissingKey
  <2>1. CASE HasKey(env, TokenKey)
    BY <1>5, <2>1 DEF AddMissingKey, HasKey, SetupTypeOK, EnvInv, DoneInv, Final, Ended, Steps
  <2>2. CASE ~HasKey(env, TokenKey)
    <3>1. env # None /\ Plain(env) /\ Placeholder \in Pasted \cup {Placeholder}
      BY <1>5, EnvAssumption DEF AddMissingKey, EnvInv, DoneInv
    <3>2. Plain(pending') /\ KeyLines(pending', TokenKey) # {} /\ env' = <<>> /\ Plain(env')
      BY <1>5, <2>2, <3>1, UpsertPlain, EmptyIsPlain DEF AddMissingKey
    <3>3. pending' # None /\ env' # None
      BY <3>2, EnvAssumption DEF Plain
    <3> QED
      BY <1>5, <3>2, <3>3 DEF AddMissingKey, SetupTypeOK, EnvInv, DoneInv, Final, Ended, Steps, Plain
  <2> QED
    BY <2>1, <2>2
<1>6. CASE AskForToken
  <2>1. CASE UNCHANGED <<env, pending>>
    BY <1>6, <2>1 DEF AskForToken, SetupTypeOK, EnvInv, DoneInv, Final, Ended, Steps
  <2>2. ASSUME NEW t \in Pasted, Rewrite(Upsert(env, TokenKey, t)) PROVE SetupInv'
    <3>1. env # None /\ Plain(env)
      BY <1>6 DEF AskForToken, EnvInv, DoneInv
    <3>2. Plain(pending') /\ KeyLines(pending', TokenKey) # {} /\ env' = <<>> /\ Plain(env')
      BY <2>2, <3>1, UpsertPlain, EmptyIsPlain
    <3>3. pending' # None /\ env' # None
      BY <3>2, EnvAssumption DEF Plain
    <3> QED
      BY <1>6, <3>2, <3>3 DEF AskForToken, SetupTypeOK, EnvInv, DoneInv, Final, Ended, Steps, Plain
  <2> QED
    BY <1>6, <2>1, <2>2 DEF AskForToken
<1>7. CASE FillEnv
  BY <1>7 DEF FillEnv, SetupTypeOK, EnvInv, DoneInv, Final, Ended, Steps
<1>8. CASE EnsureVirtualEnvironment
  BY <1>8 DEF EnsureVirtualEnvironment, SetupTypeOK, EnvInv, DoneInv, Final, Ended, Steps
<1>9. CASE InstallPythonDependencies
  BY <1>9 DEF InstallPythonDependencies, SetupTypeOK, EnvInv, DoneInv, Final, Ended, Steps
<1>10. CASE InstallOllama
  BY <1>10 DEF InstallOllama, SetupTypeOK, EnvInv, DoneInv, Final, Ended, Steps
<1>11. CASE PullEmbeddingModel
  BY <1>11 DEF PullEmbeddingModel, SetupTypeOK, EnvInv, DoneInv, Final, Ended, Steps
<1>12. CASE RunIndexStep
  BY <1>12 DEF RunIndexStep, SetupTypeOK, EnvInv, DoneInv, Final, Ended, Steps
<1>13. CASE InterruptSetup
  BY <1>13 DEF InterruptSetup, SetupTypeOK, EnvInv, DoneInv, Final, Ended, Steps
<1>14. CASE UNCHANGED <<machine, setupVars>>
  BY <1>14 DEF SetupTypeOK, EnvInv, DoneInv, Final
<1> QED
  BY <1>1, <1>2, <1>3, <1>4, <1>5, <1>6, <1>7, <1>8, <1>9, <1>10, <1>11, <1>12, <1>13, <1>14
     DEF SetupNext

-----------------------------------------------------------------------------
(* The invariant of a terminal *)

\* Before the service is started there is none, and no child either.  Whoever
\* ends the script otherwise than by killing it has dealt with both.
ProcessInv(s) ==
    /\ at[s] \in {"off", "load", "activate", "spawn"} => svc[s] = "none" /\ child[s] = "none"
    /\ child[s] = "running" => at[s] = "asking" \/ (at[s] = "ended" /\ how[s] = "killed")
    /\ at[s] = "ended" =>
        /\ how[s] \in {"refused", "stopped"} => svc[s] \in {"none", "exited"}
        /\ how[s] # "killed" => svc[s] \notin {"booting", "serving"}

\* A token that was stored when the script was started still is, and it is the
\* one in use; a child that missed one had none.
TokenInv(s) ==
    /\ stored[s] # None =>
        /\ env # None /\ Real(stored[s]) /\ Loaded(env, TokenKey, "") = stored[s]
        /\ at[s] \in {"off", "load", "ended"} \/ token[s] = stored[s]
    /\ child[s] = "missing" => token[s] = ""

SessionInv == SuperTypeOK /\ \A s \in Terminals : ProcessInv(s) /\ TokenInv(s)

\* A process that is sent a signal does not go on serving.
ToldToStop(s) ==
    /\ svc' \in [Terminals -> {"none", "booting", "serving", "stopping", "exited"}]
    /\ svc'[s] \in {"none", "stopping", "exited"}
    /\ svc[s] \in {"none", "exited"} => svc'[s] = svc[s]
    /\ \A t \in Terminals \ {s} : svc'[t] = svc[t]

\* A session that has been signalled is told to stop.
LEMMA SignalledStops ==
    ASSUME SuperTypeOK, NEW s \in Terminals, Signalled(s)
    PROVE  ToldToStop(s)
  BY DEF SuperTypeOK, Signalled, ToldToStop

\* The empty text is a value of the variable but no token.
LEMMA RealToken == "" \in Values /\ ~Real("") /\ None # "" /\ \A v \in Values : v # None
  BY EnvAssumption DEF Real

\* No session runs at the beginning.
LEMMA SessionInit == Init => SessionInv
<1> SUFFICES ASSUME Init PROVE SessionInv
  OBVIOUS
<1> USE DEF Init, SupervisorInit
<1>1. SuperTypeOK
  BY RealToken DEF SuperTypeOK
<1>2. ASSUME NEW s \in Terminals PROVE ProcessInv(s)
  BY DEF ProcessInv
<1>3. ASSUME NEW s \in Terminals PROVE TokenInv(s)
  BY RealToken DEF TokenInv
<1> QED
  BY <1>1, <1>2, <1>3 DEF SessionInv

\* An action of one terminal leaves the others alone.
Alone(s) ==
    \A t \in Terminals \ {s} :
        /\ at'[t] = at[t] /\ how'[t] = how[t] /\ token'[t] = token[t]
        /\ stored'[t] = stored[t] /\ svc'[t] = svc[t] /\ child'[t] = child[t]

\* A step of one session keeps the types and leaves the other sessions alone.
LEMMA SessionTypes ==
    ASSUME SetupInv, SuperTypeOK, NEW s \in Terminals, Session(s)
    PROVE  SuperTypeOK' /\ Alone(s)
<1>0. /\ Loaded(env, TokenKey, "") \in Values /\ Loaded(env, TokenKey, Inherited) \in Values
      /\ "" \in Values
  BY LoadedValue, RealToken, InheritedAssumption DEF SetupInv, EnvInv
<1>s. Signalled(s) => ToldToStop(s)
  BY SignalledStops
<1> USE DEF SuperTypeOK, Alone, Enter, End
<1>1. CASE Start(s)
  BY <1>0, <1>1, ZenonT(60) DEF Start
<1>2. CASE LoadEnv(s)
  BY <1>0, <1>2 DEF LoadEnv
<1>3. CASE ActivateVirtualEnvironment(s)
  BY <1>0, <1>3, ZenonT(60) DEF ActivateVirtualEnvironment
<1>4. CASE Spawn(s)
  BY <1>0, <1>4, ZenonT(60) DEF Spawn
<1>5. CASE Wake(s)
  BY <1>0, <1>5, ZenonT(60) DEF Wake
<1>6. CASE Poll(s)
  BY <1>0, <1>6 DEF Poll
<1>7. CASE EndOfInput(s)
  BY <1>0, <1>7 DEF EndOfInput
<1>8. CASE Type(s)
  BY <1>0, <1>8 DEF Type
<1>9. CASE ChildEnds(s)
  BY <1>0, <1>9 DEF ChildEnds, Replies, Generator, Chat
<1>10. CASE Terminate(s)
  <2>1. /\ at' \in [Terminals -> {"off", "load", "activate", "spawn", "sleep", "poll", "prompt",
                                 "asking", "stopping", "waiting", "ended"}]
        /\ how' \in [Terminals -> {"", "refused", "stopped", "interrupted", "killed"}]
        /\ token' \in [Terminals -> Values] /\ stored' \in [Terminals -> Values \cup {None}]
        /\ child' \in [Terminals -> {"none", "running", "failed", "missing", "refused", "answer"}]
    BY <1>0, <1>10, ZenonT(60) DEF Terminate
  <2>2. ToldToStop(s) \/ UNCHANGED svc
    BY <1>s, <1>10 DEF Terminate
  <2>3. \A t \in Terminals \ {s} :
            /\ at'[t] = at[t] /\ how'[t] = how[t] /\ token'[t] = token[t]
            /\ stored'[t] = stored[t] /\ child'[t] = child[t]
    BY <1>10 DEF Terminate
  <2> QED
    BY <2>1, <2>2, <2>3 DEF ToldToStop
<1>11. CASE Reap(s)
  BY <1>0, <1>11 DEF Reap
<1>12. CASE Kill(s)
  BY <1>0, <1>12 DEF Kill
<1>13. CASE CtrlC(s)
  <2>1. /\ at' \in [Terminals -> {"off", "load", "activate", "spawn", "sleep", "poll", "prompt",
                                 "asking", "stopping", "waiting", "ended"}]
        /\ how' \in [Terminals -> {"", "refused", "stopped", "interrupted", "killed"}]
        /\ token' \in [Terminals -> Values] /\ stored' \in [Terminals -> Values \cup {None}]
        /\ child' \in [Terminals -> {"none", "running", "failed", "missing", "refused", "answer"}]
    BY <1>0, <1>13, ZenonT(60) DEF CtrlC
  <2>2. ToldToStop(s) \/ UNCHANGED svc
    BY <1>s, <1>13 DEF CtrlC
  <2>3. \A t \in Terminals \ {s} :
            /\ at'[t] = at[t] /\ how'[t] = how[t] /\ token'[t] = token[t]
            /\ stored'[t] = stored[t] /\ child'[t] = child[t]
    BY <1>13 DEF CtrlC
  <2> QED
    BY <2>1, <2>2, <2>3 DEF ToldToStop
<1>14. CASE Killed(s)
  BY <1>0, <1>14 DEF Killed
<1>15. CASE OrphanEnds(s)
  BY <1>0, <1>15 DEF OrphanEnds
<1>16. CASE Boot(s)
  BY <1>0, <1>16 DEF Boot
<1>17. CASE Exit(s)
  BY <1>0, <1>17 DEF Exit
<1> QED
  BY <1>1, <1>2, <1>3, <1>4, <1>5, <1>6, <1>7, <1>8, <1>9, <1>10, <1>11, <1>12, <1>13,
     <1>14, <1>15, <1>16, <1>17 DEF Session

\* A step of one session keeps what holds of all of them.
LEMMA SessionKeeps ==
    ASSUME SetupInv, SessionInv, NEW s \in Terminals, Session(s), UNCHANGED machine
    PROVE  SessionInv'
<1>0. SuperTypeOK /\ SuperTypeOK' /\ Alone(s)
  BY SessionTypes DEF SessionInv
<1>a. env' = env /\ ProcessInv(s) /\ TokenInv(s)
  BY DEF SessionInv, machine
<1>s. Signalled(s) => ToldToStop(s)
  BY <1>0, SignalledStops
<1>b. ASSUME ProcessInv(s)', TokenInv(s)', NEW t \in Terminals
      PROVE  ProcessInv(t)' /\ TokenInv(t)'
  <2>1. CASE t = s
    BY <1>b, <2>1
  <2>2. CASE t # s
    <3>1. ProcessInv(t) /\ TokenInv(t)
      BY DEF SessionInv
    <3> QED
      BY <1>0, <1>a, <2>2, <3>1 DEF Alone, ProcessInv, TokenInv
  <2> QED
    BY <2>1, <2>2
<1>c. SUFFICES ProcessInv(s)' /\ TokenInv(s)'
  BY <1>0, <1>b DEF SessionInv
<1>d. ASSUME NEW why, End(s, why)
      PROVE  at'[s] = "ended" /\ how'[s] = why /\ token'[s] = "" /\ stored'[s] = None
  <2>1. /\ at \in [Terminals -> {"off", "load", "activate", "spawn", "sleep", "poll", "prompt",
                              "asking", "stopping", "waiting", "ended"}]
        /\ how \in [Terminals -> {"", "refused", "stopped", "interrupted", "killed"}]
        /\ token \in [Terminals -> Values] /\ stored \in [Terminals -> Values \cup {None}]
    BY <1>0 DEF SuperTypeOK
  <2> QED
    BY <1>d, <2>1 DEF End
<1>e. ASSUME NEW label, Enter(s, label)
      PROVE  at'[s] = label /\ how'[s] = how[s] /\ token'[s] = token[s] /\ stored'[s] = stored[s]
  <2>1. at \in [Terminals -> {"off", "load", "activate", "spawn", "sleep", "poll", "prompt",
                              "asking", "stopping", "waiting", "ended"}]
    BY <1>0 DEF SuperTypeOK
  <2> QED
    BY <1>e, <2>1 DEF Enter
<1>f. /\ DOMAIN svc = Terminals /\ DOMAIN child = Terminals
      /\ svc = [t \in Terminals |-> svc[t]] /\ child = [t \in Terminals |-> child[t]]
  BY <1>0 DEF SuperTypeOK
<1>1. CASE Start(s)
  <2>1. ProcessInv(s)'
    BY <1>0, <1>1, ZenonT(60) DEF Start, ProcessInv, SuperTypeOK, Enter, End
  <2>2. env = None => Loaded(env, TokenKey, "") = ""
    BY DEF Loaded
  <2>3. TokenInv(s)'
    <3>0. child'[s] = "none"
      BY <1>0, <1>1, ZenonT(60) DEF Start, SuperTypeOK, Enter, End
    <3>1. CASE binary
      <4>1. /\ at'[s] = "load"
            /\ stored'[s] = IF Real(Loaded(env, TokenKey, "")) THEN Loaded(env, TokenKey, "") ELSE None
        <5>1. /\ at' = [at EXCEPT ![s] = "load"]
              /\ stored' = [stored EXCEPT ![s] =
                    IF Real(Loaded(env, TokenKey, "")) THEN Loaded(env, TokenKey, "") ELSE None]
          BY <1>1, <3>1 DEF Start
        <5>2. at \in [Terminals -> {"off", "load", "activate", "spawn", "sleep", "poll", "prompt",
                                   "asking", "stopping", "waiting", "ended"}]
              /\ stored \in [Terminals -> Values \cup {None}]
          BY <1>0 DEF SuperTypeOK
        <5>3. at'[s] = "load"
          BY <5>1, <5>2
        <5> QED
          BY <5>1, <5>2, <5>3
      <4> QED
        BY <1>a, <2>2, <3>0, <4>1, RealToken DEF TokenInv
    <3>2. CASE ~binary
      <4>1. at'[s] = "ended" /\ UNCHANGED <<token, stored>>
        <5>1. at' = [at EXCEPT ![s] = "ended"] /\ UNCHANGED <<token, stored>>
          BY <1>1, <3>2 DEF Start
        <5> QED
          BY <1>0, <5>1 DEF SuperTypeOK
      <4> QED
        BY <1>a, <3>0, <4>1 DEF TokenInv
    <3> QED
      BY <3>1, <3>2
  <2> QED
    BY <2>1, <2>3
<1>2. CASE LoadEnv(s)
  <2>1. ASSUME stored[s] # None
        PROVE  Loaded(env, TokenKey, Inherited) = stored[s]
    <3>1. env # None /\ Plain(env) /\ Loaded(env, TokenKey, "") = stored[s] /\ stored[s] # ""
      BY <2>1, <1>a, RealToken DEF SetupInv, EnvInv, TokenInv
    <3>2. KeyLines(env, TokenKey) # {}
      BY <3>1 DEF Loaded
    <3> QED
      BY <3>1, <3>2, PlainToken
  <2>2. ProcessInv(s)'
    BY <1>0, <1>a, <1>2 DEF LoadEnv, ProcessInv, SuperTypeOK, Enter, End
  <2>3. TokenInv(s)'
    BY <1>0, <1>a, <1>2, <2>1 DEF LoadEnv, ProcessInv, TokenInv, SuperTypeOK, Enter, End
  <2> QED
    BY <2>2, <2>3
<1>3. CASE ActivateVirtualEnvironment(s)
  <2>0. /\ at[s] = "activate" /\ svc'[s] = svc[s] /\ child'[s] = child[s]
        /\ \/ at'[s] = "spawn" /\ token'[s] = token[s] /\ stored'[s] = stored[s]
           \/ at'[s] = "ended" /\ how'[s] = "refused" /\ token'[s] = "" /\ stored'[s] = None
    BY <1>d, <1>e, <1>3 DEF ActivateVirtualEnvironment
  <2>1. ProcessInv(s)'
    BY <1>a, <2>0 DEF ProcessInv
  <2>2. TokenInv(s)'
    BY <1>a, <2>0 DEF TokenInv
  <2> QED
    BY <2>1, <2>2
<1>4. CASE Spawn(s)
  <2>0. /\ at[s] = "spawn" /\ child'[s] = child[s]
        /\ \/ at'[s] = "sleep" /\ token'[s] = token[s] /\ stored'[s] = stored[s]
           \/ at'[s] = "ended" /\ how'[s] = "refused" /\ svc'[s] = svc[s] /\ token'[s] = "" /\ stored'[s] = None
    BY <1>d, <1>e, <1>4 DEF Spawn
  <2>1. ProcessInv(s)'
    BY <1>a, <2>0 DEF ProcessInv
  <2>2. TokenInv(s)'
    BY <1>a, <2>0 DEF TokenInv
  <2> QED
    BY <2>1, <2>2
<1>5. CASE Wake(s)
  <2>0. /\ at[s] = "sleep" /\ svc'[s] = svc[s] /\ child'[s] = child[s]
        /\ \/ at'[s] = "poll" /\ token'[s] = token[s] /\ stored'[s] = stored[s]
           \/ /\ at'[s] = "ended" /\ how'[s] = "refused" /\ svc[s] = "exited"
              /\ token'[s] = "" /\ stored'[s] = None
    BY <1>d, <1>e, <1>5 DEF Wake
  <2>1. ProcessInv(s)'
    BY <1>a, <2>0 DEF ProcessInv
  <2>2. TokenInv(s)'
    BY <1>a, <2>0 DEF TokenInv
  <2> QED
    BY <2>1, <2>2
<1>6. CASE Poll(s)
  <2>0. /\ at[s] = "poll" /\ at'[s] \in {"stopping", "prompt"} /\ child'[s] = "none"
        /\ token'[s] = token[s] /\ stored'[s] = stored[s]
    BY <1>e, <1>f, <1>6 DEF Poll
  <2>1. ProcessInv(s)'
    BY <1>a, <2>0 DEF ProcessInv
  <2>2. TokenInv(s)'
    BY <1>a, <2>0 DEF TokenInv
  <2> QED
    BY <2>1, <2>2
<1>7. CASE EndOfInput(s)
  <2>0. /\ at[s] = "prompt" /\ at'[s] = "stopping" /\ child'[s] = child[s]
        /\ token'[s] = token[s] /\ stored'[s] = stored[s]
    BY <1>e, <1>7 DEF EndOfInput
  <2>1. ProcessInv(s)'
    BY <1>a, <2>0 DEF ProcessInv
  <2>2. TokenInv(s)'
    BY <1>a, <2>0 DEF TokenInv
  <2> QED
    BY <2>1, <2>2
<1>8. CASE Type(s)
  <2>0. /\ at[s] = "prompt" /\ token'[s] = token[s] /\ stored'[s] = stored[s]
        /\ \/ at'[s] = "asking" /\ child'[s] = "running"
           \/ at'[s] = "poll" /\ child'[s] = child[s]
    BY <1>e, <1>f, <1>8 DEF Type
  <2>1. ProcessInv(s)'
    BY <1>a, <2>0 DEF ProcessInv
  <2>2. TokenInv(s)'
    BY <1>a, <2>0 DEF TokenInv
  <2> QED
    BY <2>1, <2>2
<1>9. CASE ChildEnds(s)
  <2>0. child'[s] # "running" /\ (child'[s] = "missing" => token[s] = "") /\ at'[s] = "poll"
        /\ UNCHANGED <<svc, stored, token>>
    <3>1. PICK r \in Replies(token[s]) : child' = [child EXCEPT ![s] = r]
      BY <1>9 DEF ChildEnds, SuperTypeOK, Enter, End
    <3>2. r # "running" /\ (r = "missing" => token[s] = "")
      BY DEF Replies, Generator, Chat
    <3> QED
      BY <1>0, <1>9, <3>1, <3>2, ZenonT(60) DEF ChildEnds, SuperTypeOK, Enter, End
  <2>1. ProcessInv(s)'
    BY <2>0 DEF ProcessInv
  <2>2. TokenInv(s)'
    BY <1>a, <1>9, <2>0 DEF ChildEnds, TokenInv, SuperTypeOK, Enter, End
  <2> QED
    BY <2>1, <2>2
<1>10. CASE Terminate(s)
  <2>1. ProcessInv(s)'
    <3>1. CASE svc[s] = "exited"
      BY <1>a, <1>d, <1>10, <3>1 DEF Terminate, ProcessInv
    <3>2. CASE svc[s] # "exited"
      <4>1. at'[s] = "waiting" /\ child'[s] = child[s] /\ at[s] = "stopping"
        BY <1>0, <1>10, <3>2 DEF Terminate, SuperTypeOK, Enter
      <4> QED
        BY <1>a, <4>1 DEF ProcessInv
    <3> QED
      BY <3>1, <3>2
  <2>2. TokenInv(s)'
    <3>1. at[s] = "stopping" /\ child'[s] = child[s]
      BY <1>10 DEF Terminate
    <3>2. \/ at'[s] = "ended" /\ token'[s] = "" /\ stored'[s] = None
          \/ at'[s] = "waiting" /\ token'[s] = token[s] /\ stored'[s] = stored[s]
      BY <1>d, <1>e, <1>10 DEF Terminate
    <3> QED
      BY <1>a, <3>1, <3>2 DEF TokenInv
  <2> QED
    BY <2>1, <2>2
<1>11. CASE Reap(s)
  <2>0. /\ at[s] = "waiting" /\ at'[s] = "ended" /\ how'[s] = "stopped" /\ stored'[s] = None /\ token'[s] = ""
        /\ svc'[s] = "exited" /\ child'[s] = child[s]
    BY <1>d, <1>11 DEF Reap
  <2>1. ProcessInv(s)'
    BY <1>a, <2>0 DEF ProcessInv
  <2>2. TokenInv(s)'
    BY <1>a, <2>0 DEF TokenInv
  <2> QED
    BY <2>1, <2>2
<1>12. CASE Kill(s)
  <2>0. /\ at[s] = "waiting" /\ svc'[s] = "exited"
        /\ at'[s] = at[s] /\ how'[s] = how[s] /\ token'[s] = token[s] /\ stored'[s] = stored[s] /\ child'[s] = child[s]
    BY <1>f, <1>12 DEF Kill
  <2>1. ProcessInv(s)'
    BY <1>a, <2>0 DEF ProcessInv
  <2>2. TokenInv(s)'
    BY <1>a, <2>0 DEF TokenInv
  <2> QED
    BY <2>1, <2>2
<1>13. CASE CtrlC(s)
  <2>1. ProcessInv(s)'
    <3>0. child'[s] = "none" /\ ToldToStop(s)
      BY <1>0, <1>13, <1>s, ZenonT(60) DEF CtrlC, SuperTypeOK, Enter, End
    <3>a. CASE at[s] \in {"poll", "prompt", "asking"}
      <4>1. Enter(s, "stopping")
        BY <1>13, <3>a DEF CtrlC
      <4>2. at'[s] = "stopping"
        BY <1>0, <4>1 DEF Enter, SuperTypeOK
      <4> QED
        BY <3>0, <4>2 DEF ProcessInv
    <3>b. CASE at[s] \notin {"poll", "prompt", "asking"}
      <4>1. at'[s] = "ended" /\ how'[s] = "interrupted"
        BY <1>d, <1>13, <3>b DEF CtrlC
      <4> QED
        BY <3>0, <4>1 DEF ProcessInv, ToldToStop
    <3> QED
      BY <3>a, <3>b
  <2>2. TokenInv(s)'
    <3>1. CASE at[s] \in {"poll", "prompt", "asking"}
      BY <1>0, <1>a, <1>13, <3>1, ZenonT(60) DEF CtrlC, TokenInv, SuperTypeOK, Enter, End
    <3>2. CASE at[s] \notin {"poll", "prompt", "asking"}
      <4>1. stored'[s] = None /\ token'[s] = ""
        BY <1>d, <1>13, <3>2 DEF CtrlC
      <4>2. child'[s] = "none"
        BY <1>0, <1>13, ZenonT(60) DEF CtrlC, SuperTypeOK, Enter, End
      <4> QED
        BY <4>1, <4>2 DEF TokenInv
    <3> QED
      BY <3>1, <3>2
  <2> QED
    BY <2>1, <2>2
<1>14. CASE Killed(s)
  <2>0. /\ at[s] \notin {"off", "ended"} /\ at'[s] = "ended" /\ how'[s] = "killed" /\ stored'[s] = None /\ token'[s] = ""
        /\ svc'[s] = svc[s] /\ child'[s] = child[s]
    BY <1>d, <1>14 DEF Killed
  <2>1. ProcessInv(s)'
    BY <1>a, <2>0 DEF ProcessInv
  <2>2. TokenInv(s)'
    BY <1>a, <2>0 DEF TokenInv
  <2> QED
    BY <2>1, <2>2
<1>15. CASE OrphanEnds(s)
  <2>0. /\ at[s] = "ended" /\ child'[s] = "none" /\ svc'[s] = svc[s]
        /\ at'[s] = at[s] /\ how'[s] = how[s] /\ token'[s] = token[s] /\ stored'[s] = stored[s]
    BY <1>f, <1>15 DEF OrphanEnds
  <2>1. ProcessInv(s)'
    BY <1>a, <2>0 DEF ProcessInv
  <2>2. TokenInv(s)'
    BY <1>a, <2>0 DEF TokenInv
  <2> QED
    BY <2>1, <2>2
<1>16. CASE Boot(s)
  <2>0. /\ svc[s] = "booting" /\ svc'[s] \in {"exited", "serving"}
        /\ at'[s] = at[s] /\ how'[s] = how[s] /\ token'[s] = token[s] /\ stored'[s] = stored[s] /\ child'[s] = child[s]
    BY <1>f, <1>16 DEF Boot
  <2>1. ProcessInv(s)'
    BY <1>a, <2>0 DEF ProcessInv
  <2>2. TokenInv(s)'
    BY <1>a, <2>0 DEF TokenInv
  <2> QED
    BY <2>1, <2>2
<1>17. CASE Exit(s)
  <2>0. /\ svc[s] \in {"serving", "stopping"} /\ svc'[s] = "exited"
        /\ at'[s] = at[s] /\ how'[s] = how[s] /\ token'[s] = token[s] /\ stored'[s] = stored[s] /\ child'[s] = child[s]
    BY <1>f, <1>17 DEF Exit
  <2>1. ProcessInv(s)'
    BY <1>a, <2>0 DEF ProcessInv
  <2>2. TokenInv(s)'
    BY <1>a, <2>0 DEF TokenInv
  <2> QED
    BY <2>1, <2>2
<1> QED
  BY <1>1, <1>2, <1>3, <1>4, <1>5, <1>6, <1>7, <1>8, <1>9, <1>10, <1>11, <1>12, <1>13,
     <1>14, <1>15, <1>16, <1>17 DEF Session

\* Setup never takes away a token that start has read.
LEMMA SetupKeepsToken ==
    ASSUME SetupInv, SessionInv, SetupNext, UNCHANGED superVars
    PROVE  SessionInv'
<1>1. ASSUME NEW s \in Terminals, stored[s] # None
      PROVE  env' = env
  <2>1. /\ env # None /\ Plain(env) /\ Real(stored[s]) /\ Loaded(env, TokenKey, "") = stored[s]
    BY <1>1 DEF SetupInv, EnvInv, SessionInv, TokenInv
  <2>2. KeyLines(env, TokenKey) # {}
    BY <2>1, RealToken DEF Loaded
  <2>3. HasKey(env, TokenKey) /\ TokenGiven(env)
    BY <2>1, <2>2, PlainToken DEF HasKey
  <2>4. pending = None
    BY <2>2, EmptyIsPlain DEF SetupInv, EnvInv
  <2> USE DEF SetupNext, machine, KeepEnv
  <2>5. CASE EnsureEnvFile
    BY <2>1, <2>5 DEF EnsureEnvFile
  <2>6. CASE AddMissingKey
    BY <2>3, <2>6 DEF AddMissingKey
  <2>7. CASE AskForToken
    BY <2>3, <2>7 DEF AskForToken
  <2>8. CASE FillEnv
    BY <2>4, <2>8 DEF FillEnv
  <2> QED
    BY <2>5, <2>6, <2>7, <2>8
       DEF BeginSetup, InstallAptPackages, CompileMicroservice, EnsureVirtualEnvironment,
           InstallPythonDependencies, InstallOllama, PullEmbeddingModel, RunIndexStep, InterruptSetup
<1>2. SuperTypeOK'
  BY DEF SessionInv, SuperTypeOK, superVars
<1>3. ASSUME NEW s \in Terminals PROVE ProcessInv(s)' /\ TokenInv(s)'
  BY <1>1, <1>3 DEF SessionInv, ProcessInv, TokenInv, superVars
<1> QED
  BY <1>2, <1>3 DEF SessionInv

-----------------------------------------------------------------------------
Inv == SetupInv /\ SessionInv

\* The script starts in a state of the invariant.
LEMMA InvInit == Init => Inv
  BY SetupBegins, SessionInit DEF Init, Inv

\* Every step keeps the invariant.
LEMMA InvKept == Inv /\ [Next]_vars => Inv'
<1> SUFFICES ASSUME Inv, [Next]_vars PROVE Inv'
  OBVIOUS
<1>1. CASE SetupNext /\ UNCHANGED superVars
  BY <1>1, SetupKeeps, SetupKeepsToken DEF Inv
<1>2. ASSUME NEW s \in Terminals, Session(s), UNCHANGED <<machine, setupVars>>
      PROVE  Inv'
  <2>1. SetupInv'
    BY <1>2, SetupKeeps DEF Inv
  <2>2. SessionInv'
    BY <1>2, SessionKeeps DEF Inv
  <2> QED
    BY <2>1, <2>2 DEF Inv
<1>3. CASE UNCHANGED vars
  <2>1. SetupInv'
    BY <1>3, SetupKeeps DEF Inv, vars
  <2>2. SessionInv'
    BY <1>3 DEF Inv, vars, machine, superVars, SessionInv, SuperTypeOK, ProcessInv, TokenInv
  <2> QED
    BY <2>1, <2>2 DEF Inv
<1> QED
  BY <1>1, <1>2, <1>3 DEF Next

\* Every reachable state satisfies it.
LEMMA Invariance == Spec => []Inv
<1> HIDE DEF Inv
<1> QED
  BY InvInit, InvKept, PTL DEF Spec

-----------------------------------------------------------------------------
\* Every variable keeps its type, whatever order terminals and setup run in.
THEOREM ScriptTypeCorrect == Spec => []TypeOK
<1>1. Inv => TypeOK
  BY DEF Inv, SetupInv, SessionInv, TypeOK
<1> QED
  BY <1>1, Invariance, PTL

\* However often setup was run, cut off and run again: when it says that it is
\* completed, everything is there.
THEOREM CompletedMeansUsable == Spec => []CompletedSetupIsUsable
<1>1. Inv => CompletedSetupIsUsable
  <2> SUFFICES ASSUME Inv, setup = "done" PROVE CompletedSetupIsUsable
    BY DEF CompletedSetupIsUsable
  <2>1. pending = None
    BY DEF Inv, SetupInv, EnvInv, Steps
  <2> QED
    BY <2>1 DEF Inv, SetupInv, DoneInv, Indexable, Final, HasKey, CompletedSetupIsUsable
<1> QED
  BY <1>1, Invariance, PTL

\* However often setup was run and cut off: a run in which nothing goes wrong fails
\* only over the remains of a virtual environment or over another tag of the model.
THEOREM OnlyTheBlockedFail == Spec => []SetupFailsOnlyIfBlocked
<1>1. Inv => SetupFailsOnlyIfBlocked
  BY DEF Inv, SetupInv, VenvInv, SetupFailsOnlyIfBlocked
<1> QED
  BY <1>1, Invariance, PTL

\* In any number of terminals, whatever setup does meanwhile, a session runs with
\* the token that was stored when it was started.
THEOREM StoredTokenIsUsed == Spec => []SessionUsesStoredToken
<1>1. Inv => SessionUsesStoredToken
  BY RealToken DEF Inv, SessionInv, TokenInv, SessionUsesStoredToken
<1> QED
  BY <1>1, Invariance, PTL

\* In any number of terminals: no service is left serving, and no child left
\* running, by a script that was not killed.
THEOREM NothingIsLeftRunning == Spec => []NothingLeftRunning
<1>1. Inv => NothingLeftRunning
  BY DEF Inv, SessionInv, ProcessInv, NothingLeftRunning
<1> QED
  BY <1>1, Invariance, PTL
=============================================================================
