----------------------------- MODULE MCRagIndex -----------------------------
(* A small instance of RagIndex for TLC. *)
EXTENDS RagIndex, TLC

\* The id of a part of openapi.yaml names the operation, that of a section of
\* a markdown file its text.
Yaml(text) == [ok |-> TRUE, parts |-> <<[id |-> "op", text |-> text]>>]
Broken == [ok |-> FALSE, parts |-> <<>>]
Markdown(ts) == [ok |-> TRUE, parts |-> [i \in DOMAIN ts |-> [id |-> ts[i], text |-> ts[i]]]]

MCCorpora ==
    {<<Markdown(<<"m", "">>), Yaml("y")>>,
     <<Markdown(<<"", "n", "m2">>), Yaml("y2")>>,
     <<Markdown(<<"">>), Broken>>}

MCCost == [t \in {"", "m", "n", "m2", "y", "y2"} |-> IF t = "n" THEN 2 ELSE 1]
=============================================================================
