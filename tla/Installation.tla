----------------------------- MODULE Installation -----------------------------
(***************************************************************************)
(* What run_service.py sets up on a machine and later starts from, and the *)
(* way it reads and writes the file .env.                                  *)
(*                                                                         *)
(* A line of .env assigns a value to a key; quote is the kind of quotes    *)
(* the value stands in.  Lines that assign nothing are left out.           *)
(***************************************************************************)
EXTENDS Integers, Sequences

CONSTANTS
    Values,      \* values a key may have; "" is the empty one
    Placeholder, \* GITHUB_TOKEN_PLACEHOLDER
    Pasted,      \* values that may be pasted for a token
    Escaped,     \* quote_env_value: a value as it is written between quotes
    Example,     \* the lines of .env.example, or None if there is none
    FirstEnv,    \* the contents .env may have to begin with
    FirstModels, \* what Ollama may have of the model to begin with
    None

TokenKey == "GITHUB_TOKEN"
Line == [key : {TokenKey, "other"}, value : Values, quote : {"", "single", "double"}]

\* Lines that assign key, as parse_env_key tells
KeyLines(file, key) == {i \in 1 .. Len(file) : file[i].key = key}

\* The environment files considered: one line for the token at the most, and
\* not in single quotes.
Plain(file) ==
    /\ file \in Seq(Line)
    /\ \A i, j \in KeyLines(file, TokenKey) : i = j /\ file[i].quote # "single"

ASSUME EnvAssumption ==
    /\ "" \in Values /\ Placeholder \in Values \ {""} /\ None \notin Values
    /\ None \notin Seq(Line)
    /\ Escaped \in [Pasted \cup {Placeholder} -> Values \ {""}]
    /\ Escaped[Placeholder] = Placeholder
    /\ Example = None \/ Plain(Example)
    /\ \A file \in FirstEnv : file = None \/ Plain(file)

ASSUME ModelsAssumption == FirstModels \subseteq {"missing", "other", "right"}

VARIABLES
    binary,     \* whether build/service_task_notes is there
    env,        \* the lines of .env, or None if there is none
    venv,       \* py_service_task_notes: "none", only a "dir", a "bare" one
                \* without pip, one with "python" and pip, or "complete"
    ollama,     \* whether ollama is installed
    model,      \* the embedding model it has: the "right" one, only an "other"
                \* tag of the same name, or "missing"
    index       \* the documentation index: "none", "part" or "whole"

machine == <<binary, env, venv, ollama, model, index>>

MachineInit ==
    /\ binary \in BOOLEAN /\ env \in FirstEnv
    /\ venv = "none" /\ index = "none"
    /\ ollama \in BOOLEAN /\ model \in FirstModels /\ (model # "missing" => ollama)

\* VENV_PYTHON.exists()
HasPython == venv \in {"bare", "python", "complete"}

-----------------------------------------------------------------------------
Real(value) == value \notin {"", Placeholder}

\* load_env_file: the last line of a key counts, and quotes of both kinds are
\* taken off.  Where there is none, what the shell exports stays.
Loaded(file, key, inherited) ==
    LET at == IF file = None THEN {} ELSE KeyLines(file, key)
    IN  IF at = {} THEN inherited
        ELSE file[CHOOSE i \in at : \A j \in at : j <= i].value

\* env_has_key
HasKey(file, key) == file # None /\ KeyLines(file, key) # {}

\* A bug: the line is added even if the key is there.
UpsertAtEnd(file, key, value) ==
    Append(file, [key |-> key, value |-> Escaped[value], quote |-> "double"])

\* upsert_env_key: the first line of the key is replaced.  The value is escaped;
\* whoever reads the line takes off its quotes only.
Upsert(file, key, value) ==
    LET at == KeyLines(file, key)
        line == [key |-> key, value |-> Escaped[value], quote |-> "double"]
    IN  IF at = {} THEN Append(file, line)
        ELSE [file EXCEPT ![CHOOSE i \in at : \A j \in at : i <= j] = line]

\* setup_env_and_token: whether there is a token in .env.  Only the first line
\* counts, and single quotes are part of the value.
TokenGiven(file) ==
    LET at == KeyLines(file, TokenKey)
        line == file[CHOOSE i \in at : \A j \in at : i <= j]
    IN  at # {} /\ (Real(line.value) \/ line.quote = "single")
=============================================================================
