--------------------------- MODULE MarkdownSections ---------------------------
(***************************************************************************)
(* MarkdownChunker (assistant/rag/retriever/chunking/chunker_markdown.py): *)
(* one markdown file, read line by line, becomes sections, and these the   *)
(* chunks that are indexed.                                                *)
(*                                                                         *)
(* A line is what the regular expressions of the chunker see in it: its    *)
(* kind, and for a heading its level and title.  Everything the chunker    *)
(* keeps of the file is kept as line numbers, so that no two lines are     *)
(* confused.  A heading path is the line numbers of its headings; that of  *)
(* the text before the first heading, ["Document"], is empty.              *)
(***************************************************************************)
EXTENDS Integers, Sequences, SequencesExt, FiniteSets, FiniteSetsExt

CONSTANTS
    Lines,      \* Lines[name]: the lines a file may have, [kind, level, title]
    Size,       \* Size[kind]: characters a line contributes to a chunk's body
    MinBody,    \* min_body_chars, 20
    None

Kinds == {"heading", "fence", "text", "blank", "fact", "header", "separator", "row"}

Sections == [level : Nat, path : Seq(Nat), body : Seq(Nat)]

ASSUME LinesAssumption ==
    /\ None \notin Sections
    /\ \A name \in DOMAIN Lines : \A l \in Lines[name] :
          l.kind \in Kinds /\ l.level \in 1 .. 6
    /\ Size \in [Kinds -> Nat] /\ MinBody \in Nat
    /\ Size["heading"] = 0 /\ Size["fence"] = 0 /\ Size["blank"] = 0

VARIABLES
    file,       \* its name
    lines,      \* the lines read so far
    inFence,    \* in_fence
    stack,      \* current_stack
    section,    \* current_section, [level, path, body], or None
    preamble,   \* preamble_lines
    sections    \* the sections that are complete

mdVars == <<file, lines, inFence, stack, section, preamble, sections>>

MarkdownInit(name) ==
    /\ file = name /\ lines = <<>> /\ inFence = FALSE /\ stack = <<>>
    /\ section = None /\ preamble = <<>> /\ sections = <<>>

MarkdownReset(name) ==
    /\ file' = name /\ lines' = <<>> /\ inFence' = FALSE /\ stack' = <<>>
    /\ section' = None /\ preamble' = <<>> /\ sections' = <<>>

Level(i) == lines[i].level
Title(i) == lines[i].title

-----------------------------------------------------------------------------
(* _parse_sections: one action for an iteration of its loop *)

\* A bug: a sibling is not popped.
KeptWithSiblings(level) ==
    SubSeq(stack, 1, Max({0} \cup {n \in DOMAIN stack : Level(stack[n]) <= level}))

\* What is left of the stack for a heading of that level: headings are popped
\* until one of a smaller level is on top.
Kept(level) ==
    SubSeq(stack, 1, Max({0} \cup {n \in DOMAIN stack : Level(stack[n]) < level}))

Complete == IF section = None THEN sections ELSE Append(sections, section)

\* A heading, unless it is in a fenced block
ReadHeading(l) ==
    /\ l.kind = "heading" /\ ~inFence
    /\ lines' = Append(lines, l)
    /\ sections' = Complete
    /\ stack' = Append(Kept(l.level), Len(lines) + 1)
    /\ section' = [level |-> l.level, path |-> stack', body |-> <<>>]
    /\ UNCHANGED <<file, inFence, preamble>>

\* A bug: the line that closes a section's fenced block is not kept.
ReadTextOnly(l) ==
    /\ l.kind # "heading" \/ inFence
    /\ lines' = Append(lines, l)
    /\ inFence' = IF l.kind = "fence" THEN ~inFence ELSE inFence
    /\ IF section = None
       THEN preamble' = Append(preamble, Len(lines) + 1) /\ UNCHANGED section
       ELSE /\ section' = IF l.kind = "fence" /\ inFence THEN section
                          ELSE [section EXCEPT !.body = Append(@, Len(lines) + 1)]
            /\ UNCHANGED preamble
    /\ UNCHANGED <<file, stack, sections>>

\* Any other line
ReadText(l) ==
    /\ l.kind # "heading" \/ inFence
    /\ lines' = Append(lines, l)
    /\ inFence' = IF l.kind = "fence" THEN ~inFence ELSE inFence
    /\ IF section = None
       THEN preamble' = Append(preamble, Len(lines) + 1) /\ UNCHANGED section
       ELSE /\ section' = [section EXCEPT !.body = Append(@, Len(lines) + 1)]
            /\ UNCHANGED preamble
    /\ UNCHANGED <<file, stack, sections>>

ReadLine == \E l \in Lines[file] : ReadHeading(l) \/ ReadText(l)

\* Files are read one after the other.
MarkdownNext ==
    \/ file \in DOMAIN Lines /\ ReadLine
    \/ \E name \in DOMAIN Lines \cup {None} : MarkdownReset(name)

MarkdownSpec == MarkdownInit(None) /\ [][MarkdownNext]_mdVars

IsBlank(body) == \A i \in Range(body) : lines[i].kind = "blank"

\* What _parse_sections returns at the end of the file
Parsed ==
    (IF IsBlank(preamble) THEN <<>> ELSE <<[level |-> 0, path |-> <<>>, body |-> preamble]>>)
    \o Complete

-----------------------------------------------------------------------------
(* _expand_sections_for_retrieval *)

\* _render_heading_path_from_titles gives the headings consecutive levels; the
\* content of the section begins with them as _render_heading_path wrote them,
\* with their own.
RendersAlike(s) ==
    LET start == Max({1, s.level - Len(s.path) + 1})
    IN  \A n \in DOMAIN s.path : Level(s.path[n]) = start + n - 1

\* _extract_section_body_lines
BodyLines(s) ==
    LET content == s.path \o s.body
        after == {n \in DOMAIN content : lines[content[n]].kind # "heading"}
    IN  IF RendersAlike(s) THEN SubSeq(content, Len(s.path) + 1, Len(content))
        ELSE SubSeq(content, Min(after \cup {Len(content) + 1}), Len(content))

SubSection(s, i) ==
    [level |-> IF s.level < 6 THEN s.level + 1 ELSE 6, path |-> Append(s.path, i), body |-> <<i>>]

\* The section without the lines from `from` on, and one for each of items
Pieces(s, body, from, items) ==
    LET intro == SubSeq(body, 1, from - 1)
    IN  (IF IsBlank(intro) THEN <<>> ELSE <<[s EXCEPT !.body = intro]>>)
        \o [n \in DOMAIN items |-> SubSection(s, items[n])]

\* The lines of body of that kind, in order
OfKind(body, kind) ==
    FlattenSeq([n \in DOMAIN body |-> IF lines[body[n]].kind = kind THEN <<body[n]>> ELSE <<>>])

\* _find_glossary_table_header and _parse_glossary_rows: the table ends at the
\* first line that is not one of a table.
GlossaryRows(body, header) ==
    LET ends == {n \in header + 1 .. Len(body) :
                    lines[body[n]].kind \notin {"header", "separator", "row"}}
    IN  OfKind(SubSeq(body, header, Min(ends \cup {Len(body) + 1}) - 1), "row")

\* _split_glossary_usage_notes
SplitGlossary(s) ==
    LET body == BodyLines(s)
        headers == {n \in DOMAIN body : lines[body[n]].kind = "header"}
    IN  IF headers = {} \/ GlossaryRows(body, Min(headers)) = <<>> THEN <<s>>
        ELSE Pieces(s, body, Min(headers), GlossaryRows(body, Min(headers)))

\* A bug: the lines before the first fact go with the section.
SplitFactsOnly(s) ==
    LET body == BodyLines(s)
        facts == OfKind(body, "fact")
    IN  IF facts = <<>> THEN <<s>> ELSE Pieces(s, body, 1, facts)

\* _split_canonical_facts
SplitFacts(s) ==
    LET body == BodyLines(s)
        facts == OfKind(body, "fact")
        first == Min({n \in DOMAIN body : lines[body[n]].kind = "fact"})
    IN  IF facts = <<>> THEN <<s>> ELSE Pieces(s, body, first, facts)

HasLeaf(s, title) == s.path # <<>> /\ Title(Last(s.path)) = title

Expanded(s) ==
    IF file = "glossary.md" /\ HasLeaf(s, "rag usage notes") THEN SplitGlossary(s)
    ELSE IF file = "rag_ground_truth.md" /\ HasLeaf(s, "canonical facts") THEN SplitFacts(s)
    ELSE <<s>>

\* _should_skip_chunk: too little besides headings and fences, or a template
Skipped(s) ==
    \/ FoldSeq(LAMBDA i, sum : Size[lines[i].kind] + sum, 0, s.body) < MinBody
    \/ HasLeaf(s, "template")

Pieced == FlattenSeq([n \in DOMAIN Parsed |-> Expanded(Parsed[n])])

\* chunk_text
MarkdownChunks == FlattenSeq([n \in DOMAIN Pieced |-> IF Skipped(Pieced[n]) THEN <<>> ELSE <<Pieced[n]>>])

-----------------------------------------------------------------------------
(* The outline of the file, said of its lines alone *)

Fenced(i) == Cardinality({j \in 1 .. i - 1 : lines[j].kind = "fence"}) % 2 = 1

Headings == {i \in DOMAIN lines : lines[i].kind = "heading" /\ ~Fenced(i)}

\* The headings a heading stands under
Above(i) ==
    {h \in Headings : /\ h < i /\ Level(h) < Level(i)
                      /\ \A k \in Headings : h < k /\ k < i => Level(k) > Level(h)}

\* The lines that follow heading h (none for 0) up to the next one
Under(h) ==
    {j \in DOMAIN lines : j > h /\ \A k \in Headings : k <= h \/ j < k}

Ascending(s) == \A m, n \in DOMAIN s : m < n => s[m] < s[n]

\* Whatever headings of whatever levels follow one another, with fenced blocks
\* between them: there is one section for each heading, its path is exactly
\* the headings it stands under, and its content what stands between it and
\* the next heading (chunker_markdown.py:36-43).
SectionsFollowOutline ==
    /\ LET heads == [n \in DOMAIN Complete |-> Last(Complete[n].path)]
       IN  Range(heads) = Headings /\ Ascending(heads)
    /\ \A s \in Range(Complete) :
          LET h == Last(s.path)
          IN  /\ s.level = Level(h)
              /\ Range(s.path) = Above(h) \cup {h} /\ Ascending(s.path)
              /\ Range(s.body) = Under(h) /\ Ascending(s.body)
    /\ Range(preamble) = Under(0) /\ Ascending(preamble)

\* The table or the list of facts of a section has begun by line n.
Opened(s, n) ==
    LET opener == IF file = "glossary.md" THEN "header" ELSE "fact"
    IN  Expanded(s) # <<s>> /\ \E k \in 1 .. n : lines[s.body[k]].kind = opener

\* Cutting the glossary's table and the list of facts into single chunks loses
\* only lines that follow the table, or stand between and after the facts;
\* every other line that is not blank is in exactly one piece, with the path
\* of its section, even where the file skips heading levels
\* (chunker_markdown.py:177-365).
SplittingLosesOnlyTheRest ==
    \A s \in Range(Complete) : \A n \in DOMAIN s.body :
        LET i == s.body[n]
            holders == {m \in DOMAIN Pieced : i \in Range(Pieced[m].body)}
            own == {k \in 1 .. n : lines[s.body[k]].kind \notin {"header", "separator", "row"}}
            item == \/ lines[i].kind = "fact" /\ file = "rag_ground_truth.md"
                    \/ lines[i].kind = "row" /\ ~Opened(s, Max({0} \cup own))
        IN  /\ Cardinality(holders) <= 1
            /\ lines[i].kind # "blank" /\ (item \/ ~Opened(s, n)) =>
                  \E m \in holders : Pieced[m].path \in {s.path, Append(s.path, i)}
=============================================================================
