----------------------------- MODULE MCRunService -----------------------------
(* A small instance of RunService for TLC. *)
EXTENDS RunService

Assign(key, value) == [key |-> key, value |-> value, quote |-> "double"]

\* A token of which the quotes are escaped when it is written
MCQuoted == "a\""
MCEscaped == "a\\\""
MCValues == {"", "placeholder", "a", "b", MCQuoted, MCEscaped}
MCPasted == {"placeholder", "a", MCQuoted}
MCEscape == [v \in MCPasted |-> IF v = MCQuoted THEN MCEscaped ELSE v]

MCExample == <<Assign(TokenKey, "placeholder")>>

MCFirstEnv ==
    {None, <<Assign("other", "a")>>, <<Assign(TokenKey, "")>>, <<Assign("other", "a"), Assign(TokenKey, "a")>>}
=============================================================================
