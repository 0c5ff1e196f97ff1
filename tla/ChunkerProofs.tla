---------------------------- MODULE ChunkerProofs ----------------------------
(***************************************************************************)
(* Proofs about the chunkers, for any documents and any number of them:    *)
(* that the sections of a markdown file follow its outline, that cutting   *)
(* some of them up loses only what it may, which YAML files are left out,  *)
(* what is said of the parameters of an operation, and that ids tell       *)
(* chunks apart.                                                           *)
(*                                                                         *)
(* deep_resolve and the loops of summarize_schema are functions of how     *)
(* deep calls may nest; what they return is shown for the least depth at   *)
(* which it could be otherwise, of which there is none.                    *)
(***************************************************************************)
EXTENDS Chunker, LoopProofs, SequenceTheorems, FiniteSetTheorems, TLAPS

\* The lines of all files
AnyLine == UNION {Lines[name] : name \in DOMAIN Lines}

\* The headings that a line read next would stand under, if it were a heading of
\* a deep enough level
Opens == {h \in Headings : \A k \in Headings : h < k => Level(k) > Level(h)}

-----------------------------------------------------------------------------
(* One more line *)

\* A line has a kind and a level.
LEMMA LineTypes == \A l \in AnyLine : l.kind \in Kinds /\ l.level \in 1 .. 6
BY LinesAssumption DEF AnyLine

\* The lines read before stay, in and out of fences as they were.
LEMMA OldLines ==
    ASSUME lines \in Seq(AnyLine), NEW n, n = Len(lines),
           NEW l \in AnyLine, lines' = Append(lines, l)
    PROVE  /\ lines' \in Seq(AnyLine) /\ n \in Nat /\ Len(lines') = n + 1
           /\ lines'[n + 1] = l
           /\ \A j \in 1 .. n : lines'[j] = lines[j]
           /\ \A j \in 1 .. n + 1 : Fenced(j)' <=> Fenced(j)
<1>1. /\ lines' \in Seq(AnyLine) /\ n \in Nat /\ Len(lines') = n + 1
      /\ lines'[n + 1] = l
      /\ \A j \in 1 .. n : lines'[j] = lines[j]
  OBVIOUS
<1>2. ASSUME NEW j \in 1 .. n + 1 PROVE Fenced(j)' <=> Fenced(j)
  <2>1. \A k \in 1 .. j - 1 : k \in 1 .. n
    BY <1>1
  <2>2. {k \in 1 .. j - 1 : lines'[k].kind = "fence"} = {k \in 1 .. j - 1 : lines[k].kind = "fence"}
    BY <1>1, <2>1
  <2>. QED  BY <2>2 DEF Fenced
<1>. QED  BY <1>1, <1>2

\* A fence toggles.
LEMMA FenceToggles ==
    ASSUME lines \in Seq(AnyLine), NEW n, n = Len(lines),
           NEW l \in AnyLine, lines' = Append(lines, l)
    PROVE  Fenced(n + 2)' <=> (IF l.kind = "fence" THEN ~ Fenced(n + 1)
                                        ELSE Fenced(n + 1))
<1>. DEFINE old == {j \in 1 .. n : lines[j].kind = "fence"}
            new == {j \in 1 .. n + 1 : lines'[j].kind = "fence"}
<1>1. /\ n \in Nat /\ lines'[n + 1] = l
      /\ \A j \in 1 .. n : lines'[j] = lines[j]
  BY OldLines
<1>2. IsFiniteSet(old) /\ Cardinality(old) \in Nat
  <2>1. IsFiniteSet(1 .. n) /\ old \in SUBSET (1 .. n)
    BY <1>1, FS_Interval
  <2>. HIDE DEF old
  <2>. QED  BY <2>1, FS_Subset, FS_CardinalityType
<1>3. \A j \in 1 .. n + 1 : j \in 1 .. n \/ j = n + 1
  BY <1>1
<1>4. n + 1 \notin old /\ 1 .. n \subseteq 1 .. n + 1 /\ n + 1 \in 1 .. n + 1
  BY <1>1
<1>5. (n + 1) - 1 = n /\ (n + 2) - 1 = n + 1
  BY <1>1
<1>6. /\ Fenced(n + 1) <=> Cardinality(old) % 2 = 1
      /\ Fenced(n + 2)' <=> Cardinality(new) % 2 = 1
  BY <1>5 DEF Fenced
<1>7. CASE l.kind = "fence"
  <2>1. new = old \cup {n + 1}
    BY <1>1, <1>3, <1>4, <1>7
  <2>. HIDE DEF old, new
  <2>2. Cardinality(new) = Cardinality(old) + 1
    BY <1>2, <1>4, <2>1, FS_AddElement
  <2>3. \A c \in Nat : (c + 1) % 2 = 1 <=> ~ c % 2 = 1
    OBVIOUS
  <2>4. Cardinality(new) % 2 = 1 <=> ~ Cardinality(old) % 2 = 1
    BY <1>2, <2>2, <2>3
  <2>. QED  BY <1>6, <1>7, <2>4
<1>8. CASE l.kind # "fence"
  <2>1. new = old
    BY <1>1, <1>3, <1>4, <1>8
  <2>. QED  BY <1>6, <1>8, <2>1
<1>. QED  BY <1>7, <1>8

\* Headings are lines that have been read, and have the level of a line.
LEMMA HeadingTypes ==
    ASSUME lines \in Seq(AnyLine)
    PROVE  /\ Headings \subseteq 1 .. Len(lines) /\ Headings \subseteq Nat
           /\ \A h \in Headings : Level(h) \in 1 .. 6
BY LineTypes DEF Headings, Level

\* A heading out of fences is one more heading; other lines are not.
LEMMA NewHeadings ==
    ASSUME lines \in Seq(AnyLine), NEW n, n = Len(lines),
           NEW l \in AnyLine, lines' = Append(lines, l)
    PROVE  /\ Headings' = IF l.kind = "heading" /\ ~ Fenced(n + 1)
                          THEN Headings \cup {n + 1} ELSE Headings
           /\ \A h \in Headings : Level(h)' = Level(h)
           /\ Level(n + 1)' = l.level
<1>1. /\ n \in Nat /\ lines'[n + 1] = l /\ DOMAIN lines' = 1 .. n + 1 /\ DOMAIN lines = 1 .. n
      /\ \A j \in 1 .. n : lines'[j] = lines[j]
      /\ \A j \in 1 .. n + 1 : Fenced(j)' <=> Fenced(j)
  BY OldLines
<1>2. \A j \in 1 .. n + 1 : j \in 1 .. n \/ j = n + 1
  BY <1>1
<1>3. 1 .. n \subseteq 1 .. n + 1 /\ n + 1 \in 1 .. n + 1 /\ n + 1 \notin 1 .. n
  BY <1>1
<1>4. Headings' = {i \in 1 .. n + 1 : lines'[i].kind = "heading" /\ ~ Fenced(i)'}
  BY <1>1 DEF Headings
<1>5. Headings = {i \in 1 .. n : lines[i].kind = "heading" /\ ~ Fenced(i)}
  BY <1>1 DEF Headings
<1>6. \A h \in Headings : Level(h)' = Level(h)
  BY <1>1, <1>5 DEF Level
<1>7. Level(n + 1)' = l.level
  BY <1>1 DEF Level
<1>8. Headings' = IF l.kind = "heading" /\ ~ Fenced(n + 1) THEN Headings \cup {n + 1} ELSE Headings
  <2>1. \A i \in 1 .. n : i \in Headings' <=> i \in Headings
    BY <1>1, <1>3, <1>4, <1>5
  <2>2. n + 1 \in Headings' <=> l.kind = "heading" /\ ~ Fenced(n + 1)
    BY <1>1, <1>3, <1>4
  <2>3. Headings' \subseteq 1 .. n + 1 /\ Headings \subseteq 1 .. n
    BY <1>4, <1>5
  <2>4. \A i : i \in Headings' <=> i \in Headings \/ (i = n + 1 /\ i \in Headings')
    BY <1>2, <1>3, <2>1, <2>3
  <2>5. CASE l.kind = "heading" /\ ~ Fenced(n + 1)
    BY <2>2, <2>4, <2>5
  <2>6. CASE ~ (l.kind = "heading" /\ ~ Fenced(n + 1))
    BY <2>2, <2>4, <2>6
  <2>. QED  BY <2>5, <2>6
<1>. QED  BY <1>6, <1>7, <1>8

\* What stands above a heading does not depend on lines after it.
LEMMA SameAbove ==
    ASSUME lines \in Seq(AnyLine), NEW n, n = Len(lines),
           NEW l \in AnyLine, lines' = Append(lines, l), NEW h \in Headings
    PROVE  Above(h)' = Above(h)
<1>1. n \in Nat /\ Headings \subseteq 1 .. n /\ Headings' \in {Headings, Headings \cup {n + 1}}
  BY HeadingTypes, NewHeadings
<1>2. \A k \in Headings : Level(k)' = Level(k)
  BY NewHeadings
<1>3. ~ n + 1 < h /\ n + 1 \notin Headings
  BY <1>1
<1>4. ASSUME NEW g \in Headings
      PROVE  g \in Above(h)' <=> g \in Above(h)
  <2>1. Level(g)' = Level(g) /\ Level(h)' = Level(h) /\ g \in Headings'
    BY <1>1, <1>2
  <2>2. g \in Above(h)' <=> /\ g < h /\ Level(g)' < Level(h)'
                            /\ \A k \in Headings' : g < k /\ k < h => Level(k)' > Level(g)'
    BY <2>1 DEF Above
  <2>3. g \in Above(h) <=> /\ g < h /\ Level(g) < Level(h)
                           /\ \A k \in Headings : g < k /\ k < h => Level(k) > Level(g)
    BY DEF Above
  <2>4. (\A k \in Headings' : g < k /\ k < h => Level(k)' > Level(g)')
           <=> (\A k \in Headings : g < k /\ k < h => Level(k) > Level(g))
    BY <1>1, <1>2, <1>3, <2>1
  <2>. QED  BY <2>1, <2>2, <2>3, <2>4
<1>5. Above(h) \subseteq Headings
  BY DEF Above
<1>6. Above(h)' \subseteq Headings
  <2>1. Above(h)' \subseteq Headings' /\ \A g \in Above(h)' : g < h
    BY DEF Above
  <2>. QED  BY <1>1, <1>3, <2>1
<1>. QED  BY <1>4, <1>5, <1>6

\* A line stands under the last heading, and starts what stands under it if it
\* is a heading itself.
LEMMA NewUnder ==
    ASSUME lines \in Seq(AnyLine), NEW n, n = Len(lines),
           NEW l \in AnyLine, lines' = Append(lines, l)
    PROVE  /\ \A h \in Headings \cup {0} :
                 Under(h)' = IF Headings' = Headings /\ \A k \in Headings : k <= h
                             THEN Under(h) \cup {n + 1} ELSE Under(h)
           /\ Under(n + 1)' = {}
<1>1. /\ n \in Nat /\ Headings \subseteq 1 .. n /\ Headings' \in {Headings, Headings \cup {n + 1}}
      /\ DOMAIN lines' = 1 .. n + 1 /\ DOMAIN lines = 1 .. n
  BY HeadingTypes, NewHeadings, OldLines
<1>2. \A h : Under(h)' = {j \in 1 .. n + 1 : j > h /\ \A k \in Headings' : k <= h \/ j < k}
  BY <1>1 DEF Under
<1>3. \A h : Under(h) = {j \in 1 .. n : j > h /\ \A k \in Headings : k <= h \/ j < k}
  BY <1>1 DEF Under
<1>4. Under(n + 1)' = {}
  BY <1>1, <1>2
<1>5. \A j \in 1 .. n + 1 : j \in 1 .. n \/ j = n + 1
  BY <1>1
<1>6. /\ 1 .. n \subseteq 1 .. n + 1 /\ n + 1 \in 1 .. n + 1 /\ n + 1 \notin 1 .. n
      /\ \A j \in 1 .. n : j < n + 1 /\ ~ n + 1 < j
      /\ ~ n + 1 < n + 1
  BY <1>1
<1>7. ASSUME NEW h \in Headings \cup {0}
      PROVE  Under(h)' = IF Headings' = Headings /\ \A k \in Headings : k <= h
                         THEN Under(h) \cup {n + 1} ELSE Under(h)
  <2>1. h \in 0 .. n /\ n + 1 > h /\ ~ n + 1 <= h
    BY <1>1
  <2>2. ASSUME NEW j \in 1 .. n PROVE j \in Under(h)' <=> j \in Under(h)
    <3>1. j \in Under(h)' <=> j > h /\ \A k \in Headings' : k <= h \/ j < k
      BY <1>2, <1>6
    <3>2. j \in Under(h) <=> j > h /\ \A k \in Headings : k <= h \/ j < k
      BY <1>3
    <3>. QED  BY <1>1, <1>6, <3>1, <3>2
  <2>3. n + 1 \in Under(h)' <=> Headings' = Headings /\ \A k \in Headings : k <= h
    <3>1. n + 1 \in Under(h)' <=> \A k \in Headings' : k <= h \/ n + 1 < k
      BY <1>2, <1>6, <2>1
    <3>2. \A k \in Headings : ~ n + 1 < k
      BY <1>1, <1>6
    <3>3. n + 1 \notin Headings
      BY <1>1, <1>6
    <3>. QED  BY <1>1, <1>6, <2>1, <3>1, <3>2, <3>3
  <2>4. Under(h)' \subseteq 1 .. n + 1 /\ Under(h) \subseteq 1 .. n
    BY <1>2, <1>3
  <2>5. \A j : j \in Under(h)' <=> j \in Under(h) \/ (j = n + 1 /\ j \in Under(h)')
    BY <1>5, <1>6, <2>2, <2>4
  <2>6. CASE Headings' = Headings /\ \A k \in Headings : k <= h
    BY <2>3, <2>5, <2>6
  <2>7. CASE ~ (Headings' = Headings /\ \A k \in Headings : k <= h)
    BY <2>3, <2>5, <2>7
  <2>. QED  BY <2>6, <2>7
<1>. QED  BY <1>4, <1>7

-----------------------------------------------------------------------------
(* The invariant *)

\* The sections that follow the outline as far as it has been read
Followers ==
    {s \in Sections :
        /\ s.path # <<>> /\ Last(s.path) \in Headings /\ s.level = Level(Last(s.path))
        /\ Range(s.path) = Above(Last(s.path)) \cup {Last(s.path)} /\ Ascending(s.path)
        /\ Range(s.body) = Under(Last(s.path)) /\ Ascending(s.body)}

\* The stack holds the open headings; the section being read is that of the last
\* heading, and the complete ones are those of the headings before, in order.
OutlineInv ==
    /\ lines \in Seq(AnyLine)
    /\ inFence \in BOOLEAN /\ (inFence <=> Fenced(Len(lines) + 1))
    /\ stack \in Seq(Nat) /\ Ascending(stack) /\ Range(stack) = Opens
    /\ preamble \in Seq(Nat) /\ Ascending(preamble) /\ Range(preamble) = Under(0)
    /\ sections \in Seq(Sections)
    /\ section = None => Headings = {} /\ sections = <<>>
    /\ section # None =>
          /\ section \in Followers /\ section.path = stack
          /\ \A k \in Headings : k <= Last(stack)
          /\ \A n \in DOMAIN sections :
                sections[n] \in Followers /\ Last(sections[n].path) < Last(stack)
          /\ \A m, n \in DOMAIN sections :
                m < n => Last(sections[m].path) < Last(sections[n].path)
          /\ \A h \in Headings : h = Last(stack) \/ \E n \in DOMAIN sections : h = Last(sections[n].path)

\* The maximum of numbers up to n
LEMMA MaxIs ==
    ASSUME NEW n \in Nat, NEW S \in SUBSET (0 .. n), S # {}
    PROVE  Max(S) \in S /\ \A i \in S : i <= Max(S)
<1>1. \E x \in S : \A y \in S : y <= x
  BY GreatestMember
<1>2. \A x, y \in S : y <= x <=> x >= y
  OBVIOUS
<1>. QED  BY <1>1, <1>2 DEF Max

\* A section stays as the outline has it, once a heading follows its own.
LEMMA FollowersStay ==
    ASSUME lines \in Seq(AnyLine), NEW n, n = Len(lines), NEW l \in AnyLine, lines' = Append(lines, l),
           NEW s \in Followers, Headings' # Headings \/ \E k \in Headings : ~ k <= Last(s.path)
    PROVE  s \in Followers'
<1>. DEFINE h == Last(s.path)
<1>1. s \in Sections /\ h \in Headings
  BY DEF Followers
<1>2. Above(h)' = Above(h)
  BY <1>1, SameAbove
<1>3. Under(h)' = Under(h)
  BY <1>1, NewUnder
<1>4. Level(h)' = Level(h) /\ h \in Headings'
  BY <1>1, NewHeadings
<1>. QED  BY <1>1, <1>2, <1>3, <1>4 DEF Followers

\* What is left of the stack for a heading of a level are the open headings of
\* smaller levels.
LEMMA KeptAreOpen ==
    ASSUME OutlineInv, NEW level \in 1 .. 6
    PROVE  /\ Kept(level) \in Seq(Nat) /\ Ascending(Kept(level))
           /\ Range(Kept(level)) = {h \in Opens : Level(h) < level}
<1>. DEFINE n == Len(stack)
            lower == {k \in DOMAIN stack : Level(stack[k]) < level}
            m == Max({0} \cup lower)
            kept == SubSeq(stack, 1, m)
<1>1. /\ stack \in Seq(Nat) /\ n \in Nat /\ DOMAIN stack = 1 .. n
      /\ \A k \in 1 .. n : stack[k] \in Nat /\ stack[k] \in Opens
      /\ \A h \in Opens : \E k \in 1 .. n : h = stack[k]
      /\ \A j, k \in 1 .. n : j < k => stack[j] < stack[k]
  <2>1. stack \in Seq(Nat) /\ Ascending(stack) /\ Range(stack) = Opens
    BY DEF OutlineInv
  <2>. QED  BY <2>1 DEF Ascending, Range
<1>2. m \in {0} \cup lower /\ \A k \in {0} \cup lower : k <= m
  <2>1. {0} \cup lower \in SUBSET (0 .. n)
    BY <1>1
  <2>. HIDE DEF lower, n
  <2>. QED  BY <1>1, <2>1, MaxIs
<1>3. m \in 0 .. n
  BY <1>1, <1>2
<1>. HIDE DEF m
<1>4. kept \in Seq(Nat) /\ DOMAIN kept = 1 .. m /\ \A k \in 1 .. m : kept[k] = stack[k]
  <2>. HIDE DEF n
  <2>. QED  BY <1>1, <1>3
<1>5. \A k \in 1 .. m : k \in 1 .. n
  BY <1>1, <1>3
<1>6. Ascending(kept)
  BY <1>1, <1>4, <1>5 DEF Ascending
<1>7. \A h \in Opens : Level(h) \in 1 .. 6 /\ h \in Headings
  BY HeadingTypes DEF OutlineInv, Opens
<1>8. ASSUME NEW k \in 1 .. m PROVE Level(stack[k]) < level
  <2>1. m \in lower /\ m \in 1 .. n /\ k \in 1 .. n
    BY <1>1, <1>2, <1>3, <1>5
  <2>2. CASE k = m
    BY <2>1, <2>2
  <2>3. CASE k # m
    <3>1. k < m
      BY <1>3, <2>3
    <3>2. stack[k] < stack[m]
      BY <1>1, <2>1, <3>1
    <3>3. Level(stack[m]) > Level(stack[k])
      BY <1>1, <1>7, <2>1, <3>2 DEF Opens
    <3>4. Level(stack[m]) < level
      BY <2>1
    <3>5. Level(stack[m]) \in 1 .. 6 /\ Level(stack[k]) \in 1 .. 6
      BY <1>1, <1>7, <2>1
    <3>. QED  BY <3>3, <3>4, <3>5
  <2>. QED  BY <2>2, <2>3
<1>9. ASSUME NEW k \in 1 .. n, Level(stack[k]) < level PROVE k \in 1 .. m
  <2>1. k \in lower
    BY <1>1, <1>9
  <2>. QED  BY <1>2, <1>3, <2>1
<1>10. Range(kept) = {h \in Opens : Level(h) < level}
  <2>1. Range(kept) = {stack[k] : k \in 1 .. m}
    BY <1>4 DEF Range
  <2>. QED  BY <1>1, <1>5, <1>8, <1>9, <2>1
<1>11. Kept(level) = kept
  BY DEF Kept, m
<1>. QED  BY <1>4, <1>6, <1>10, <1>11

\* An item greater than all before it goes to the end of an ascending sequence.
LEMMA AppendAscends ==
    ASSUME NEW s \in Seq(Nat), Ascending(s), NEW i \in Nat, \A x \in Range(s) : x < i
    PROVE  /\ Append(s, i) \in Seq(Nat) /\ Ascending(Append(s, i))
           /\ Range(Append(s, i)) = Range(s) \cup {i}
           /\ Append(s, i) # <<>> /\ Last(Append(s, i)) = i
<1>. DEFINE n == Len(s)
            t == Append(s, i)
<1>1. /\ n \in Nat /\ t \in Seq(Nat) /\ Len(t) = n + 1 /\ DOMAIN t = 1 .. n + 1 /\ t[n + 1] = i
      /\ \A k \in 1 .. n : t[k] = s[k] /\ k \in 1 .. n + 1
      /\ DOMAIN s = 1 .. n /\ t # <<>> /\ n + 1 \in 1 .. n + 1
  OBVIOUS
<1>2. \A k \in 1 .. n + 1 : k \in 1 .. n \/ k = n + 1
  BY <1>1
<1>3. \A k \in 1 .. n : s[k] < i
  BY <1>1 DEF Range
<1>4. ASSUME NEW j \in 1 .. n + 1, NEW k \in 1 .. n + 1, j < k PROVE t[j] < t[k]
  <2>1. j \in 1 .. n
    BY <1>1, <1>4
  <2>2. CASE k \in 1 .. n
    BY <1>1, <1>4, <2>1, <2>2 DEF Ascending
  <2>3. CASE k = n + 1
    BY <1>1, <1>3, <2>1, <2>3
  <2>. QED  BY <1>2, <2>2, <2>3
<1>5. Ascending(t)
  BY <1>1, <1>4 DEF Ascending
<1>6. Range(t) = Range(s) \cup {i}
  <2>1. Range(t) = {t[k] : k \in 1 .. n + 1} /\ Range(s) = {s[k] : k \in 1 .. n}
    BY <1>1 DEF Range
  <2>. HIDE DEF t, n
  <2>. QED  BY <1>1, <1>2, <2>1
<1>7. Last(t) = i
  BY <1>1 DEF Last
<1>. QED  BY <1>1, <1>5, <1>6, <1>7

\* The section being read is complete.
LEMMA CompleteIs ==
    ASSUME OutlineInv
    PROVE  /\ Complete \in Seq(Sections)
           /\ \A k \in DOMAIN Complete : Complete[k] \in Followers
           /\ \A j, k \in DOMAIN Complete : j < k => Last(Complete[j].path) < Last(Complete[k].path)
           /\ \A h \in Headings : \E k \in DOMAIN Complete : h = Last(Complete[k].path)
<1>1. CASE section = None
  BY <1>1 DEF OutlineInv, Complete
<1>2. CASE section # None
  <2>. DEFINE n == Len(sections)
              c == Append(sections, section)
  <2>1. /\ sections \in Seq(Sections) /\ section \in Followers /\ section.path = stack
        /\ \A k \in DOMAIN sections :
              sections[k] \in Followers /\ Last(sections[k].path) < Last(stack)
        /\ \A j, k \in DOMAIN sections :
              j < k => Last(sections[j].path) < Last(sections[k].path)
        /\ \A h \in Headings : h = Last(stack) \/ \E k \in DOMAIN sections : h = Last(sections[k].path)
    BY <1>2 DEF OutlineInv
  <2>2. section \in Sections
    BY <2>1 DEF Followers
  <2>3. /\ n \in Nat /\ c \in Seq(Sections) /\ DOMAIN c = 1 .. n + 1 /\ c[n + 1] = section
        /\ \A k \in 1 .. n : c[k] = sections[k] /\ k \in 1 .. n + 1
        /\ DOMAIN sections = 1 .. n /\ n + 1 \in 1 .. n + 1
    BY <2>1, <2>2
  <2>4. \A k \in 1 .. n + 1 : k \in 1 .. n \/ k = n + 1
    BY <2>3
  <2>5. \A j \in 1 .. n + 1 : ~ n + 1 < j
    BY <2>3
  <2>. HIDE DEF c, n
  <2>6. \A k \in 1 .. n + 1 : c[k] \in Followers
    BY <2>1, <2>3, <2>4
  <2>7. ASSUME NEW j \in 1 .. n + 1, NEW k \in 1 .. n + 1, j < k
        PROVE  Last(c[j].path) < Last(c[k].path)
    <3>1. j \in 1 .. n
      BY <2>4, <2>5, <2>7
    <3>2. CASE k \in 1 .. n
      BY <2>1, <2>3, <2>7, <3>1, <3>2
    <3>3. CASE k = n + 1
      BY <2>1, <2>3, <3>1, <3>3
    <3>. QED  BY <2>4, <3>2, <3>3
  <2>8. ASSUME NEW h \in Headings PROVE \E k \in 1 .. n + 1 : h = Last(c[k].path)
    <3>1. CASE h = Last(stack)
      BY <2>1, <2>3, <3>1
    <3>2. CASE h # Last(stack)
      <4>1. PICK k \in 1 .. n : h = Last(sections[k].path)
        BY <2>1, <2>3, <3>2
      <4>. QED  BY <2>3, <4>1
    <3>. QED  BY <3>1, <3>2
  <2>9. Complete = c
    BY <1>2 DEF Complete, c
  <2>. QED  BY <2>3, <2>6, <2>7, <2>8, <2>9
<1>. QED  BY <1>1, <1>2

-----------------------------------------------------------------------------
(* The steps *)

\* A heading begins a section.
LEMMA HeadingKeeps ==
    ASSUME OutlineInv, NEW l \in AnyLine, ReadHeading(l)
    PROVE  OutlineInv'
<1>1. PICK n : n = Len(lines)
  OBVIOUS
<1>. DEFINE i == n + 1
<1>2. /\ lines \in Seq(AnyLine) /\ lines' = Append(lines, l) /\ l.kind = "heading" /\ ~ inFence
      /\ sections' = Complete /\ stack' = Append(Kept(l.level), i)
      /\ section' = [level |-> l.level, path |-> stack', body |-> <<>>]
      /\ UNCHANGED <<inFence, preamble>>
  BY <1>1 DEF ReadHeading, OutlineInv
<1>3. /\ n \in Nat /\ lines' \in Seq(AnyLine) /\ Len(lines') = n + 1 /\ i \in Nat
      /\ l.level \in 1 .. 6 /\ l.level \in Nat
  BY <1>1, <1>2, OldLines, LineTypes
<1>4. ~ Fenced(i)
  BY <1>1, <1>2 DEF OutlineInv
<1>5. /\ Headings' = Headings \cup {i}
      /\ \A h \in Headings : Level(h)' = Level(h)
      /\ Level(i)' = l.level
  BY <1>1, <1>2, <1>4, NewHeadings
<1>6. /\ Headings \subseteq 1 .. n /\ \A h \in Headings : Level(h) \in 1 .. 6
      /\ \A h \in Headings : h \in Nat /\ h < i /\ ~ i < h
      /\ i \notin Headings /\ ~ i < i
  BY <1>1, <1>2, <1>3, HeadingTypes
<1>. HIDE DEF i
<1>7. (inFence <=> Fenced(Len(lines) + 1))'
  <2>1. Fenced(n + 2)' <=> Fenced(n + 1)
    <3>1. l.kind # "fence"
      BY <1>2
    <3>. QED  BY <1>1, <1>2, <3>1, FenceToggles
  <2>2. Len(lines') + 1 = n + 2
    BY <1>3
  <2>3. (Fenced(Len(lines) + 1))' <=> Fenced(n + 2)'
    BY <2>2 DEF Fenced
  <2>. QED  BY <1>1, <1>2, <2>1, <2>3 DEF OutlineInv
<1>. DEFINE kept == Kept(l.level)
<1>8. /\ kept \in Seq(Nat) /\ Ascending(kept)
      /\ Range(kept) = {h \in Opens : Level(h) < l.level}
  BY <1>3, KeptAreOpen
<1>. HIDE DEF kept
<1>9. stack' = Append(kept, i)
  BY <1>2 DEF kept
<1>10. \A h \in Range(kept) : h \in Headings /\ h < i
  BY <1>6, <1>8 DEF Opens
<1>11. /\ stack' \in Seq(Nat) /\ Ascending(stack') /\ stack' # <<>> /\ Last(stack') = i
       /\ Range(stack') = {h \in Opens : Level(h) < l.level} \cup {i}
  BY <1>3, <1>8, <1>9, <1>10, AppendAscends
<1>12. Opens' = {h \in Opens : Level(h) < l.level} \cup {i}
  <2>1. Opens' = {h \in Headings' : \A k \in Headings' : h < k => Level(k)' > Level(h)'}
    BY DEF Opens
  <2>2. i \in Opens'
    BY <1>5, <1>6, <2>1
  <2>3. ASSUME NEW h \in Headings PROVE h \in Opens' <=> h \in Opens /\ Level(h) < l.level
    <3>1. Level(h)' = Level(h) /\ h \in Headings' /\ h < i /\ Level(h) \in 1 .. 6
      BY <1>5, <1>6
    <3>2. h \in Opens' <=> \A k \in Headings' : h < k => Level(k)' > Level(h)
      BY <2>1, <3>1
    <3>3. h \in Opens <=> \A k \in Headings : h < k => Level(k) > Level(h)
      BY DEF Opens
    <3>4. (\A k \in Headings' : h < k => Level(k)' > Level(h))
             <=> (\A k \in Headings : h < k => Level(k) > Level(h)) /\ l.level > Level(h)
      BY <1>5, <3>1
    <3>5. l.level > Level(h) <=> Level(h) < l.level
      BY <1>3, <3>1
    <3>. QED  BY <3>2, <3>3, <3>4, <3>5
  <2>4. Opens' \subseteq Headings \cup {i} /\ Opens \subseteq Headings
    BY <1>5 DEF Opens
  <2>. QED  BY <1>6, <2>2, <2>3, <2>4
<1>13. Above(i)' = {h \in Opens : Level(h) < l.level}
  <2>1. Above(i)' = {h \in Headings' : /\ h < i /\ Level(h)' < l.level
                                       /\ \A k \in Headings' : h < k /\ k < i => Level(k)' > Level(h)'}
    BY <1>5 DEF Above
  <2>2. ASSUME NEW h \in Headings PROVE h \in Above(i)' <=> h \in Opens /\ Level(h) < l.level
    <3>1. Level(h)' = Level(h) /\ h \in Headings' /\ h < i
      BY <1>5, <1>6
    <3>2. h \in Opens <=> \A k \in Headings : h < k => Level(k) > Level(h)
      BY DEF Opens
    <3>3. (\A k \in Headings' : h < k /\ k < i => Level(k)' > Level(h))
             <=> (\A k \in Headings : h < k => Level(k) > Level(h))
      BY <1>5, <1>6
    <3>4. h \in Above(i)' <=> /\ Level(h) < l.level
                              /\ \A k \in Headings' : h < k /\ k < i => Level(k)' > Level(h)
      BY <2>1, <3>1
    <3>. QED  BY <3>2, <3>3, <3>4
  <2>3. Above(i)' \subseteq Headings /\ Opens \subseteq Headings
    BY <1>5, <1>6, <2>1 DEF Opens
  <2>. QED  BY <2>2, <2>3
<1>14. Under(i)' = {}
  BY <1>1, <1>2, NewUnder DEF i
<1>15. section' \in Followers'
  <2>1. PICK path : path = stack'
    OBVIOUS
  <2>2. PICK s : s = [level |-> l.level, path |-> path, body |-> <<>>]
    OBVIOUS
  <2>3. s \in Sections /\ Range(s.body) = {} /\ Ascending(s.body)
    BY <1>3, <1>11, <2>1, <2>2 DEF Sections, Range, Ascending
  <2>4. /\ s.path # <<>> /\ Last(s.path) = i /\ s.level = l.level /\ i \in Headings'
        /\ Ascending(s.path) /\ Range(s.path) = {h \in Opens : Level(h) < l.level} \cup {i}
    BY <1>5, <1>11, <2>1, <2>2
  <2>5. s \in Followers'
    BY <1>5, <1>13, <1>14, <2>3, <2>4 DEF Followers
  <2>. QED  BY <1>2, <2>1, <2>2, <2>5
<1>16. section' # None
  BY <1>15, LinesAssumption DEF Followers
<1>17. Range(preamble') = Under(0)' /\ preamble' \in Seq(Nat) /\ Ascending(preamble')
  <2>1. Under(0)' = Under(0)
    BY <1>1, <1>2, <1>5, <1>6, NewUnder
  <2>. QED  BY <1>2, <2>1 DEF OutlineInv
<1>18. /\ sections' \in Seq(Sections)
       /\ \A k \in DOMAIN sections' : sections'[k] \in Followers
       /\ \A j, k \in DOMAIN sections' : j < k => Last(sections'[j].path) < Last(sections'[k].path)
       /\ \A h \in Headings : \E k \in DOMAIN sections' : h = Last(sections'[k].path)
  BY <1>2, CompleteIs
<1>19. ASSUME NEW s \in Followers PROVE s \in Followers' /\ Last(s.path) < i
  <2>1. Headings' # Headings
    BY <1>5, <1>6
  <2>2. Last(s.path) \in Headings
    BY DEF Followers
  <2>. QED  BY <1>1, <1>2, <1>6, <2>1, <2>2, FollowersStay
<1>20. section'.path = stack' /\ \A k \in Headings' : k <= Last(stack')
  BY <1>2, <1>3, <1>5, <1>6, <1>11
<1>21. \A h \in Headings' : h = Last(stack') \/ \E k \in DOMAIN sections' : h = Last(sections'[k].path)
  BY <1>5, <1>11, <1>18
<1>22. \A k \in DOMAIN sections' : sections'[k] \in Followers' /\ Last(sections'[k].path) < Last(stack')
  BY <1>11, <1>18, <1>19
<1>23. Range(stack') = Opens'
  BY <1>11, <1>12
<1>24. inFence' \in BOOLEAN
  BY <1>2 DEF OutlineInv
<1>. QED  BY <1>3, <1>7, <1>11, <1>15, <1>16, <1>17, <1>18, <1>20, <1>21, <1>22, <1>23, <1>24
          DEF OutlineInv

\* Any other line goes to the section being read, or before the first heading.
LEMMA TextKeeps ==
    ASSUME OutlineInv, NEW l \in AnyLine, ReadText(l)
    PROVE  OutlineInv'
<1>1. PICK n : n = Len(lines)
  OBVIOUS
<1>. DEFINE i == n + 1
<1>2. /\ lines \in Seq(AnyLine) /\ lines' = Append(lines, l) /\ (l.kind # "heading" \/ inFence)
      /\ inFence' = IF l.kind = "fence" THEN ~ inFence ELSE inFence
      /\ stack' = stack /\ sections' = sections
  BY DEF ReadText, OutlineInv
<1>3. n \in Nat /\ lines' \in Seq(AnyLine) /\ Len(lines') = n + 1 /\ i \in Nat
  BY <1>1, <1>2, OldLines
<1>4. inFence \in BOOLEAN /\ (inFence <=> Fenced(i))
  BY <1>1 DEF OutlineInv
<1>5. Headings' = Headings /\ \A h \in Headings : Level(h)' = Level(h)
  BY <1>1, <1>2, <1>4, NewHeadings
<1>6. Headings \subseteq 1 .. n /\ \A h \in Headings : h \in Nat /\ h < i /\ ~ h <= 0
  BY <1>1, <1>2, <1>3, HeadingTypes
<1>7. inFence' \in BOOLEAN /\ (inFence <=> Fenced(Len(lines) + 1))'
  <2>1. Fenced(n + 2)' <=> IF l.kind = "fence" THEN ~ Fenced(n + 1) ELSE Fenced(n + 1)
    BY <1>1, <1>2, FenceToggles
  <2>2. Len(lines') + 1 = n + 2
    BY <1>3
  <2>3. (Fenced(Len(lines) + 1))' <=> Fenced(n + 2)'
    BY <2>2 DEF Fenced
  <2>. QED  BY <1>2, <1>4, <2>1, <2>3
<1>8. Opens' = Opens
  <2>1. Opens' = {h \in Headings' : \A k \in Headings' : h < k => Level(k)' > Level(h)'}
    BY DEF Opens
  <2>. QED  BY <1>5, <2>1 DEF Opens
<1>9. /\ stack' \in Seq(Nat) /\ Ascending(stack') /\ Range(stack') = Opens'
  BY <1>2, <1>8 DEF OutlineInv
<1>10. \A h \in Headings \cup {0} :
          Under(h)' = IF \A k \in Headings : k <= h THEN Under(h) \cup {i} ELSE Under(h)
  BY <1>1, <1>2, <1>5, NewUnder
<1>11. ASSUME NEW h \in Headings \cup {0} PROVE \A j \in Under(h) : j < i
  <2>1. \A j \in Under(h) : j \in 1 .. n
    BY <1>1, <1>2 DEF Under
  <2>. QED  BY <1>3, <2>1
<1>12. preamble \in Seq(Nat) /\ Ascending(preamble) /\ Range(preamble) = Under(0)
  BY DEF OutlineInv
<1>. HIDE DEF i
<1>13. CASE section = None
  <2>1. Headings = {} /\ sections = <<>> /\ section' = None /\ preamble' = Append(preamble, i)
    BY <1>1, <1>13 DEF OutlineInv, ReadText, i
  <2>2. /\ preamble' \in Seq(Nat) /\ Ascending(preamble')
        /\ Range(preamble') = Range(preamble) \cup {i}
    <3>1. \A j \in Range(preamble) : j < i
      BY <1>11, <1>12
    <3>. QED  BY <1>3, <1>12, <2>1, <3>1, AppendAscends
  <2>3. Range(preamble') = Under(0)'
    BY <1>10, <1>12, <2>1, <2>2
  <2>4. Headings' = {} /\ sections' = <<>> /\ sections' \in Seq(Sections)
    BY <1>2, <1>5, <2>1
  <2>. QED  BY <1>3, <1>7, <1>9, <2>1, <2>2, <2>3, <2>4 DEF OutlineInv
<1>14. CASE section # None
  <2>1. /\ section \in Followers /\ section.path = stack
        /\ \A k \in Headings : k <= Last(stack)
        /\ \A k \in DOMAIN sections :
              sections[k] \in Followers /\ Last(sections[k].path) < Last(stack)
        /\ \A j, k \in DOMAIN sections :
              j < k => Last(sections[j].path) < Last(sections[k].path)
        /\ \A h \in Headings : h = Last(stack) \/ \E k \in DOMAIN sections : h = Last(sections[k].path)
    BY <1>14 DEF OutlineInv
  <2>2. /\ section' = [section EXCEPT !.body = Append(@, i)] /\ preamble' = preamble
    BY <1>1, <1>14 DEF ReadText, i
  <2>3. PICK h : h = Last(stack)
    OBVIOUS
  <2>4. /\ section \in Sections /\ section.path # <<>> /\ h \in Headings
        /\ section.level = Level(h)
        /\ Range(section.path) = Above(h) \cup {h} /\ Ascending(section.path)
        /\ Range(section.body) = Under(h) /\ Ascending(section.body)
    BY <2>1, <2>3 DEF Followers
  <2>5. Above(h)' = Above(h)
    BY <1>1, <1>2, <2>4, SameAbove
  <2>6. Under(h)' = Under(h) \cup {i}
    BY <1>10, <2>1, <2>3, <2>4
  <2>7. PICK body : body = Append(section.body, i)
    OBVIOUS
  <2>8. body \in Seq(Nat) /\ Ascending(body) /\ Range(body) = Under(h)'
    <3>1. section.body \in Seq(Nat) /\ \A j \in Range(section.body) : j < i
      BY <1>11, <2>4 DEF Sections
    <3>. QED  BY <1>3, <2>4, <2>6, <2>7, <3>1, AppendAscends
  <2>9. section' \in Sections /\ section'.path = section.path /\ section'.level = section.level
        /\ section'.body = body
    BY <2>2, <2>4, <2>7, <2>8 DEF Sections
  <2>10. section' \in Followers'
    BY <1>5, <2>1, <2>3, <2>4, <2>5, <2>8, <2>9 DEF Followers
  <2>11. section' # None
    BY <2>9, LinesAssumption
  <2>12. ASSUME NEW k \in DOMAIN sections PROVE sections[k] \in Followers'
    <3>1. Last(sections[k].path) < h /\ sections[k] \in Followers
      BY <2>1, <2>3
    <3>2. Last(sections[k].path) \in Headings
      BY <3>1 DEF Followers
    <3>3. ~ h <= Last(sections[k].path)
      <4>1. \A g \in Nat : g < h => ~ h <= g
        BY <1>6, <2>4
      <4>. QED  BY <1>6, <3>1, <3>2, <4>1
    <3>. QED  BY <1>1, <1>2, <2>4, <3>1, <3>3, FollowersStay
  <2>13. ~ \A k \in Headings : k <= 0
    BY <1>6, <2>4
  <2>14. preamble' \in Seq(Nat) /\ Ascending(preamble') /\ Range(preamble') = Under(0)'
    BY <1>10, <1>12, <2>2, <2>13
  <2>15. sections' \in Seq(Sections) /\ DOMAIN sections' = DOMAIN sections
    BY <1>2 DEF OutlineInv
  <2>16. section'.path = stack'
    BY <1>2, <2>1, <2>9
  <2>. QED  BY <1>2, <1>3, <1>5, <1>7, <1>9, <2>1, <2>10, <2>11, <2>12, <2>14, <2>15, <2>16
            DEF OutlineInv
<1>. QED  BY <1>13, <1>14

\* With nothing read there are no headings.
LEMMA NothingRead ==
    ASSUME lines = <<>>
    PROVE  Headings = {} /\ Opens = {} /\ Under(0) = {} /\ ~ Fenced(1) /\ Len(lines) + 1 = 1
<1>1. Headings = {} /\ Under(0) = {} /\ Len(lines) = 0
  BY DEF Headings, Under
<1>2. Cardinality({j \in 1 .. 0 : lines[j].kind = "fence"}) = 0
  BY FS_EmptySet
<1>3. ~ Fenced(1)
  BY <1>2 DEF Fenced
<1>. QED  BY <1>1, <1>3 DEF Opens

\* With nothing read the invariant holds.
LEMMA OutlineInit == ASSUME NEW name, MarkdownInit(name) PROVE OutlineInv
<1>1. /\ lines = <<>> /\ inFence = FALSE /\ stack = <<>>
      /\ section = None /\ preamble = <<>> /\ sections = <<>>
  BY DEF MarkdownInit
<1>2. <<>> \in Seq(Nat) /\ Ascending(<<>>) /\ Range(<<>>) = {}
  BY DEF Ascending, Range
<1>3. /\ Headings = {} /\ Opens = {} /\ Under(0) = {}
      /\ lines \in Seq(AnyLine) /\ sections \in Seq(Sections) /\ (inFence <=> Fenced(Len(lines) + 1))
  BY <1>1, NothingRead
<1>. QED  BY <1>1, <1>2, <1>3 DEF OutlineInv

\* The next file begins with nothing read.
LEMMA OutlineReset == ASSUME NEW name, MarkdownReset(name) PROVE OutlineInv'
<1>1. MarkdownInit(name)'
  BY DEF MarkdownReset, MarkdownInit
<1>. QED  BY <1>1, OutlineInit, PTL

\* Every step of the reader preserves the invariant.
LEMMA OutlineInductive == ASSUME OutlineInv, [MarkdownNext]_mdVars PROVE OutlineInv'
<1>1. CASE file \in DOMAIN Lines /\ ReadLine
  <2>1. PICK l \in AnyLine : ReadHeading(l) \/ ReadText(l)
    BY <1>1 DEF ReadLine, AnyLine
  <2>. QED  BY <2>1, HeadingKeeps, TextKeeps
<1>2. CASE \E name \in DOMAIN Lines \cup {None} : MarkdownReset(name)
  BY <1>2, OutlineReset
<1>3. CASE UNCHANGED mdVars
  <2>1. /\ lines' = lines /\ inFence' = inFence /\ stack' = stack /\ section' = section
        /\ preamble' = preamble /\ sections' = sections
    BY <1>3 DEF mdVars
  <2>2. /\ Headings' = Headings /\ Opens' = Opens /\ Under(0)' = Under(0) /\ Followers' = Followers
        /\ (Fenced(Len(lines) + 1))' = Fenced(Len(lines) + 1)
    BY <2>1 DEF Headings, Opens, Under, Followers, Fenced, Above, Level
  <2>. QED  BY <2>1, <2>2 DEF OutlineInv
<1>. QED  BY <1>1, <1>2, <1>3 DEF MarkdownNext

\* The sections are those of the headings in order, each as the outline has it.
LEMMA OutlineSuffices == ASSUME OutlineInv PROVE SectionsFollowOutline
<1>. DEFINE heads == [k \in DOMAIN Complete |-> Last(Complete[k].path)]
<1>1. /\ Complete \in Seq(Sections)
      /\ \A k \in DOMAIN Complete : Complete[k] \in Followers
      /\ \A j, k \in DOMAIN Complete : j < k => Last(Complete[j].path) < Last(Complete[k].path)
      /\ \A h \in Headings : \E k \in DOMAIN Complete : h = Last(Complete[k].path)
  BY CompleteIs
<1>2. Ascending(heads)
  BY <1>1 DEF Ascending
<1>3. Range(heads) = Headings
  <2>1. Range(heads) = {Last(Complete[k].path) : k \in DOMAIN Complete}
    BY DEF Range
  <2>2. \A k \in DOMAIN Complete : Last(Complete[k].path) \in Headings
    BY <1>1 DEF Followers
  <2>. QED  BY <1>1, <2>1, <2>2
<1>4. ASSUME NEW s \in Range(Complete) PROVE s \in Followers
  BY <1>1 DEF Range
<1>5. Range(preamble) = Under(0) /\ Ascending(preamble)
  BY DEF OutlineInv
<1>. HIDE DEF heads
<1>6. \A s \in Range(Complete) :
          LET h == Last(s.path)
          IN  /\ s.level = Level(h)
              /\ Range(s.path) = Above(h) \cup {h} /\ Ascending(s.path)
              /\ Range(s.body) = Under(h) /\ Ascending(s.body)
  BY <1>4 DEF Followers
<1>. QED  BY <1>2, <1>3, <1>5, <1>6 DEF SectionsFollowOutline, heads

\* Whatever lines the files have: there is one section for each heading outside
\* fenced blocks, in the order of the file, with the headings it stands under as
\* its path and what follows it up to the next heading as its body; what comes
\* before the first heading is the preamble (_parse_sections).
THEOREM OutlineFollowed == MarkdownSpec => []SectionsFollowOutline
<1>1. MarkdownInit(None) => OutlineInv
  BY OutlineInit
<1>2. OutlineInv /\ [MarkdownNext]_mdVars => OutlineInv'
  BY OutlineInductive
<1>3. OutlineInv => SectionsFollowOutline
  BY OutlineSuffices
<1>. QED  BY <1>1, <1>2, <1>3, PTL DEF MarkdownSpec

-----------------------------------------------------------------------------
(* Lines picked out of a body *)

\* No line stands twice in body.
Distinct(body) == \A j, k \in DOMAIN body : body[j] = body[k] => j = k

\* An ascending sequence has no line twice.
LEMMA AscendingDistinct == ASSUME NEW b \in Seq(Nat), Ascending(b) PROVE Distinct(b)
<1>1. DOMAIN b = 1 .. Len(b) /\ Len(b) \in Nat /\ \A j \in 1 .. Len(b) : b[j] \in Nat
  OBVIOUS
<1>2. ASSUME NEW j \in DOMAIN b, NEW k \in DOMAIN b, b[j] = b[k] PROVE j = k
  <2>1. j \in Nat /\ k \in Nat /\ b[j] \in Nat /\ b[k] \in Nat
    BY <1>1
  <2>2. (j < k => b[j] < b[k]) /\ (k < j => b[k] < b[j])
    BY DEF Ascending
  <2>. QED  BY <1>2, <2>1, <2>2
<1>. QED  BY <1>2 DEF Distinct

\* t has the lines of b of that kind, and no other, each once.
Picks(b, kind, t) ==
    /\ t \in Seq(Nat) /\ Distinct(t)
    /\ \A p \in DOMAIN t : lines[t[p]].kind = kind /\ \E j \in DOMAIN b : t[p] = b[j]
    /\ \A j \in DOMAIN b : lines[b[j]].kind = kind => \E p \in DOMAIN t : t[p] = b[j]

\* The lines of a kind are picked.
LEMMA OfKindIs ==
    ASSUME NEW b \in Seq(Nat), Distinct(b), NEW kind
    PROVE  Picks(b, kind, OfKind(b, kind))
<1>. DEFINE ss == [j \in DOMAIN b |-> IF lines[b[j]].kind = kind THEN <<b[j]>> ELSE <<>>]
<1>1. PICK n : n = Len(b)
  OBVIOUS
<1>2. n \in Nat /\ DOMAIN b = 1 .. n /\ \A j \in 1 .. n : b[j] \in Nat
  BY <1>1
<1>3. ss \in Seq(Seq(Nat)) /\ Len(ss) = n
  BY <1>2
<1>4. ASSUME NEW j \in 1 .. n, NEW k \in 1 .. Len(ss[j])
      PROVE  lines[b[j]].kind = kind /\ k = 1 /\ ss[j][k] = b[j]
  <2>1. CASE lines[b[j]].kind = kind
    <3>1. ss[j] = <<b[j]>>
      BY <1>2, <2>1
    <3>2. Len(ss[j]) = 1 /\ ss[j][1] = b[j]
      <4>. HIDE DEF ss
      <4>. QED  BY <3>1
    <3>3. k \in 1 .. 1
      BY <3>2
    <3>4. k = 1
      BY <3>3
    <3>. QED  BY <2>1, <3>2, <3>4
  <2>2. CASE lines[b[j]].kind # kind
    <3>1. ss[j] = <<>>
      BY <1>2, <2>2
    <3>. QED  BY <3>1
  <2>. QED  BY <2>1, <2>2
<1>5. ASSUME NEW j \in 1 .. n, lines[b[j]].kind = kind
      PROVE  1 \in 1 .. Len(ss[j]) /\ ss[j][1] = b[j]
  <2>1. ss[j] = <<b[j]>>
    BY <1>2, <1>5
  <2>2. 1 \in 1 .. Len(<<b[j]>>) /\ <<b[j]>>[1] = b[j]
    OBVIOUS
  <2>. HIDE DEF ss
  <2>. QED  BY <2>1, <2>2
<1>6. OfKind(b, kind) = FlattenSeq(ss)
  BY DEF OfKind
<1>. HIDE DEF ss
<1>7. PICK t, at : t = OfKind(b, kind) /\ t \in Seq(Nat) /\ Stands(at, ss, t)
  BY <1>2, <1>3, <1>6, FlattenIs
<1>8. DOMAIN t = 1 .. Len(t)
  BY <1>7
<1>9. \A j \in 1 .. n : \A k \in 1 .. Len(ss[j]) :
         at[j - 1] + k \in 1 .. Len(t) /\ t[at[j - 1] + k] = ss[j][k]
  BY <1>3, <1>7 DEF Stands
<1>10. ASSUME NEW p \in 1 .. Len(t)
       PROVE  \E j \in 1 .. n : p = at[j - 1] + 1 /\ t[p] = b[j] /\ lines[b[j]].kind = kind
  <2>1. PICK j \in 1 .. n : \E k \in 1 .. Len(ss[j]) : p = at[j - 1] + k
    <3>1. Stands(at, ss, t) /\ p \in 1 .. Len(t) /\ Len(ss) \in Nat
          /\ \A j \in 1 .. Len(ss) : Len(ss[j]) \in Nat
      BY <1>2, <1>3, <1>7
    <3>2. Placed(at, ss, p)
      BY <3>1, StandsFull
    <3>. QED  BY <1>3, <3>2 DEF Placed
  <2>. QED  BY <1>4, <1>9, <2>1
<1>11. Distinct(t)
  <2>1. ASSUME NEW p \in 1 .. Len(t), NEW q \in 1 .. Len(t), t[p] = t[q] PROVE p = q
    <3>1. PICK j \in 1 .. n : p = at[j - 1] + 1 /\ t[p] = b[j]
      BY <1>10
    <3>2. PICK k \in 1 .. n : q = at[k - 1] + 1 /\ t[q] = b[k]
      BY <1>10
    <3>3. j = k
      BY <1>2, <2>1, <3>1, <3>2 DEF Distinct
    <3>. QED  BY <3>1, <3>2, <3>3
  <2>. QED  BY <1>8, <2>1 DEF Distinct
<1>12. \A p \in DOMAIN t : lines[t[p]].kind = kind /\ \E j \in DOMAIN b : t[p] = b[j]
  BY <1>2, <1>8, <1>10
<1>13. ASSUME NEW j \in DOMAIN b, lines[b[j]].kind = kind PROVE \E p \in DOMAIN t : t[p] = b[j]
  <2>1. at[j - 1] + 1 \in 1 .. Len(t) /\ t[at[j - 1] + 1] = b[j]
    BY <1>2, <1>5, <1>9, <1>13
  <2>. QED  BY <1>8, <2>1
<1>. QED  BY <1>7, <1>11, <1>12, <1>13 DEF Picks

-----------------------------------------------------------------------------
(* A section and its pieces *)

\* ps cut up the section s: no line is in two of them.
Divides(s, ps) ==
    /\ ps \in Seq(Sections)
    /\ \A k \in DOMAIN ps : Range(ps[k].body) \subseteq Range(s.body)
    /\ \A j, k \in DOMAIN ps : \A i : i \in Range(ps[j].body) /\ i \in Range(ps[k].body) => j = k

\* Line i is in one of them, under the headings of the section.
Holds(s, ps, i) ==
    \E k \in DOMAIN ps : i \in Range(ps[k].body) /\ ps[k].path \in {s.path, Append(s.path, i)}

\* A section that is left whole
LEMMA WholeDivides ==
    ASSUME NEW s \in Sections
    PROVE  Divides(s, <<s>>) /\ \A n \in DOMAIN s.body : Holds(s, <<s>>, s.body[n])
<1>. DEFINE ps == <<s>>
<1>1. ps \in Seq(Sections) /\ DOMAIN ps = {1} /\ ps[1] = s
  OBVIOUS
<1>. HIDE DEF ps
<1>2. Divides(s, ps)
  BY <1>1 DEF Divides
<1>3. \A n \in DOMAIN s.body : s.body[n] \in Range(s.body)
  BY DEF Range
<1>4. \A n \in DOMAIN s.body : Holds(s, ps, s.body[n])
  BY <1>1, <1>3 DEF Holds
<1>. QED  BY <1>2, <1>4 DEF ps

\* ps are the section s with the lines intro, if m is 1, and one for each of items.
AreCut(s, items, intro, ps, m) ==
    /\ ps \in Seq(Sections) /\ Len(ps) = m + Len(items)
    /\ m = 0 <=> IsBlank(intro)
    /\ m = 1 => ps[1].body = intro /\ ps[1].path = s.path
    /\ \A p \in 1 .. Len(items) :
          ps[m + p].body = <<items[p]>> /\ ps[m + p].path = Append(s.path, items[p])

\* The pieces, one by one
LEMMA PiecesAre ==
    ASSUME NEW s \in Sections, NEW from \in Nat, NEW items \in Seq(Nat),
           NEW intro \in Seq(Nat), intro = SubSeq(s.body, 1, from - 1),
           NEW ps, ps = Pieces(s, s.body, from, items)
    PROVE  \E m \in {0, 1} : AreCut(s, items, intro, ps, m)
<1>. DEFINE whole == [s EXCEPT !.body = intro]
            pre == IF IsBlank(intro) THEN <<>> ELSE <<whole>>
            subs == [p \in DOMAIN items |-> SubSection(s, items[p])]
<1>1. whole \in Sections /\ whole.body = intro /\ whole.path = s.path
  BY DEF Sections
<1>2. ASSUME NEW i \in Nat
      PROVE  SubSection(s, i) \in Sections /\ SubSection(s, i).body = <<i>>
             /\ SubSection(s, i).path = Append(s.path, i)
  <2>1. s.level \in Nat /\ s.path \in Seq(Nat)
    BY DEF Sections
  <2>2. (IF s.level < 6 THEN s.level + 1 ELSE 6) \in Nat /\ Append(s.path, i) \in Seq(Nat)
        /\ <<i>> \in Seq(Nat)
    BY <2>1
  <2>. QED  BY <2>2 DEF SubSection, Sections
<1>3. PICK n : n = Len(items) /\ n \in Nat /\ DOMAIN items = 1 .. n /\ \A p \in 1 .. n : items[p] \in Nat
  OBVIOUS
<1>4. subs \in Seq(Sections) /\ Len(subs) = n /\ \A p \in 1 .. n : subs[p] = SubSection(s, items[p])
  BY <1>2, <1>3
<1>5. ps = pre \o subs
  BY DEF Pieces
<1>. HIDE DEF whole, subs
<1>6. PICK m \in {0, 1} : /\ pre \in Seq(Sections) /\ Len(pre) = m /\ (m = 0 <=> IsBlank(intro))
                          /\ m = 1 => pre[1] = whole
  <2>1. CASE IsBlank(intro)
    <3>1. pre = <<>>
      BY <2>1
    <3>. QED  BY <2>1, <3>1
  <2>2. CASE ~ IsBlank(intro)
    <3>1. pre = <<whole>>
      BY <2>2
    <3>2. pre \in Seq(Sections) /\ Len(pre) = 1 /\ pre[1] = whole
      BY <1>1, <3>1
    <3>. QED  BY <2>2, <3>2
  <2>. QED  BY <2>1, <2>2
<1>. HIDE DEF pre
<1>7. /\ pre \o subs \in Seq(Sections) /\ Len(pre \o subs) = m + n
      /\ \A i \in 1 .. m + n : (pre \o subs)[i] = IF i <= m THEN pre[i] ELSE subs[i - m]
  BY <1>4, <1>6, ConcatProperties
<1>8. ps \in Seq(Sections) /\ Len(ps) = m + n
  BY <1>5, <1>7
<1>9. m = 1 => ps[1] = whole
  <2>. SUFFICES ASSUME m = 1 PROVE ps[1] = whole
    OBVIOUS
  <2>1. 1 \in 1 .. m + n /\ 1 <= m
    BY <1>3
  <2>. QED  BY <1>5, <1>6, <1>7, <2>1
<1>10. ASSUME NEW p \in 1 .. n PROVE ps[m + p] = SubSection(s, items[p])
  <2>1. m + p \in 1 .. m + n /\ ~ m + p <= m /\ (m + p) - m = p
    BY <1>3
  <2>2. ps[m + p] = subs[(m + p) - m]
    BY <1>5, <1>7, <2>1
  <2>. QED  BY <1>4, <2>1, <2>2
<1>11. \A p \in 1 .. n : ps[m + p].body = <<items[p]>> /\ ps[m + p].path = Append(s.path, items[p])
  BY <1>2, <1>3, <1>10
<1>. QED  BY <1>1, <1>3, <1>6, <1>8, <1>9, <1>11 DEF AreCut

\* The pieces of a section divide it: what stands before them, and each of the
\* items, is in one of its own.
LEMMA PiecesDivide ==
    ASSUME NEW s \in Sections, Distinct(s.body), NEW from \in DOMAIN s.body,
           NEW items \in Seq(Nat), Distinct(items),
           \A p \in DOMAIN items : \E j \in from .. Len(s.body) : items[p] = s.body[j]
    PROVE  LET ps == Pieces(s, s.body, from, items)
           IN  /\ Divides(s, ps)
               /\ \A j \in 1 .. from - 1 : lines[s.body[j]].kind # "blank" => Holds(s, ps, s.body[j])
               /\ \A p \in DOMAIN items : Holds(s, ps, items[p])
               /\ items # <<>> => ps # <<s>>
<1>1. PICK b, n : b = s.body /\ n = Len(b)
  OBVIOUS
<1>2. b \in Seq(Nat) /\ n \in Nat /\ DOMAIN b = 1 .. n /\ from \in 1 .. n /\ s.path \in Seq(Nat)
  BY <1>1 DEF Sections
<1>3. PICK intro : intro = SubSeq(b, 1, from - 1)
  OBVIOUS
<1>4. intro \in Seq(Nat) /\ DOMAIN intro = 1 .. from - 1 /\ \A j \in 1 .. from - 1 : intro[j] = b[j]
  <2>1. from - 1 \in Int /\ 1 \in Int /\ \A j \in 1 .. from - 1 : b[j] \in Nat
    BY <1>2
  <2>2. /\ intro \in Seq(Nat) /\ Len(intro) = IF 1 <= from - 1 THEN from - 1 - 1 + 1 ELSE 0
        /\ \A j \in 1 .. from - 1 - 1 + 1 : intro[j] = b[1 + j - 1]
    BY <1>3, <2>1, SubSeqProperties
  <2>3. Len(intro) = from - 1 /\ from - 1 - 1 + 1 = from - 1
    BY <1>2, <2>2
  <2>4. \A j \in 1 .. from - 1 : 1 + j - 1 = j
    OBVIOUS
  <2>. QED  BY <2>2, <2>3, <2>4
<1>5. PICK ps : ps = Pieces(s, s.body, from, items)
  OBVIOUS
<1>6. PICK m \in {0, 1} :
            /\ ps \in Seq(Sections) /\ Len(ps) = m + Len(items)
            /\ m = 0 <=> IsBlank(intro)
            /\ m = 1 => ps[1].body = intro /\ ps[1].path = s.path
            /\ \A p \in 1 .. Len(items) :
                  ps[m + p].body = <<items[p]>> /\ ps[m + p].path = Append(s.path, items[p])
  <2>1. s \in Sections /\ items \in Seq(Nat) /\ from \in Nat /\ intro \in Seq(Nat) /\ intro = SubSeq(s.body, 1, from - 1)
    BY <1>1, <1>2, <1>3, <1>4
  <2>2. \E m \in {0, 1} : AreCut(s, items, intro, ps, m)
    BY <1>5, <2>1, PiecesAre
  <2>. QED  BY <2>2 DEF AreCut
<1>7. PICK r : r = Len(items) /\ r \in Nat /\ DOMAIN items = 1 .. r /\ \A p \in 1 .. r : items[p] \in Nat
  OBVIOUS
<1>8. DOMAIN ps = 1 .. m + r
  BY <1>6, <1>7
<1>9. \A k \in 1 .. m + r : (k = 1 /\ m = 1) \/ \E p \in 1 .. r : k = m + p
  <2>1. ASSUME NEW k \in 1 .. m + r, ~ (k = 1 /\ m = 1) PROVE k - m \in 1 .. r /\ k = m + (k - m)
    BY <1>7, <2>1
  <2>. QED  BY <2>1
<1>10. \A p \in 1 .. r : m + p \in 1 .. m + r /\ Range(ps[m + p].body) = {items[p]}
  <2>1. \A i : Range(<<i>>) = {i}
    BY DEF Range
  <2>2. \A p \in 1 .. r : ps[m + p].body = <<items[p]>>
    BY <1>6, <1>7
  <2>3. \A p \in 1 .. r : m + p \in 1 .. m + r
    BY <1>7
  <2>. QED  BY <2>1, <2>2, <2>3
<1>11. m = 1 => 1 \in 1 .. m + r /\ ps[1].path = s.path
                /\ Range(ps[1].body) = {b[j] : j \in 1 .. from - 1}
  <2>1. Range(intro) = {b[j] : j \in 1 .. from - 1}
    BY <1>4 DEF Range
  <2>. QED  BY <1>6, <1>7, <2>1
<1>12. \A p \in 1 .. r : \E j \in 1 .. n : items[p] = b[j] /\ from <= j
  <2>1. \A p \in 1 .. r : \E j \in from .. n : items[p] = b[j]
    BY <1>1, <1>7
  <2>2. \A j \in from .. n : j \in 1 .. n /\ from <= j
    BY <1>2
  <2>. QED  BY <2>1, <2>2
<1>13. \A j \in 1 .. n, k \in 1 .. n : b[j] = b[k] => j = k
  BY <1>1, <1>2 DEF Distinct
<1>14. \A p \in 1 .. r, q \in 1 .. r : items[p] = items[q] => p = q
  BY <1>7 DEF Distinct
<1>15. ASSUME NEW p \in 1 .. r, NEW j \in 1 .. from - 1 PROVE items[p] # b[j]
  <2>1. PICK k \in 1 .. n : items[p] = b[k] /\ from <= k
    BY <1>12
  <2>. QED  BY <1>2, <1>13, <2>1
<1>16. Divides(s, ps)
  <2>1. ASSUME NEW k \in 1 .. m + r PROVE Range(ps[k].body) \subseteq Range(b)
    <3>1. Range(b) = {b[j] : j \in 1 .. n}
      BY <1>2 DEF Range
    <3>2. \A j \in 1 .. from - 1 : j \in 1 .. n
      BY <1>2
    <3>3. CASE k = 1 /\ m = 1
      BY <1>11, <3>1, <3>2, <3>3
    <3>4. CASE \E p \in 1 .. r : k = m + p
      <4>1. PICK p \in 1 .. r : k = m + p
        BY <3>4
      <4>2. Range(ps[k].body) = {items[p]} /\ \E j \in 1 .. n : items[p] = b[j]
        BY <1>10, <1>12, <4>1
      <4>. QED  BY <3>1, <4>2
    <3>. QED  BY <1>9, <3>3, <3>4
  <2>2. ASSUME NEW j \in 1 .. m + r, NEW k \in 1 .. m + r, NEW i,
               i \in Range(ps[j].body), i \in Range(ps[k].body)
        PROVE  j = k
    <3>1. CASE (j = 1 /\ m = 1) /\ (k = 1 /\ m = 1)
      BY <3>1
    <3>2. CASE (j = 1 /\ m = 1) /\ \E p \in 1 .. r : k = m + p
      <4>1. PICK p \in 1 .. r : k = m + p
        BY <3>2
      <4>2. i = items[p]
        BY <1>10, <2>2, <4>1
      <4>3. Range(ps[j].body) = {b[h] : h \in 1 .. from - 1}
        BY <1>11, <3>2
      <4>. QED  BY <1>15, <2>2, <4>2, <4>3
    <3>3. CASE (k = 1 /\ m = 1) /\ \E p \in 1 .. r : j = m + p
      <4>1. PICK p \in 1 .. r : j = m + p
        BY <3>3
      <4>2. i = items[p]
        BY <1>10, <2>2, <4>1
      <4>3. Range(ps[k].body) = {b[h] : h \in 1 .. from - 1}
        BY <1>11, <3>3
      <4>. QED  BY <1>15, <2>2, <4>2, <4>3
    <3>4. CASE (\E p \in 1 .. r : j = m + p) /\ \E p \in 1 .. r : k = m + p
      <4>1. PICK p \in 1 .. r : j = m + p
        BY <3>4
      <4>2. PICK q \in 1 .. r : k = m + q
        BY <3>4
      <4>3. i = items[p] /\ i = items[q]
        BY <1>10, <2>2, <4>1, <4>2
      <4>4. p = q
        BY <1>14, <4>3
      <4>. QED  BY <4>1, <4>2, <4>4
    <3>. QED  BY <1>9, <3>1, <3>2, <3>3, <3>4
  <2>. QED  BY <1>1, <1>6, <1>8, <2>1, <2>2 DEF Divides
<1>17. ASSUME NEW j \in 1 .. from - 1, lines[b[j]].kind # "blank" PROVE Holds(s, ps, b[j])
  <2>1. ~ IsBlank(intro)
    BY <1>4, <1>17 DEF IsBlank, Range
  <2>2. m = 1
    BY <1>6, <2>1
  <2>3. 1 \in DOMAIN ps /\ b[j] \in Range(ps[1].body) /\ ps[1].path = s.path
    BY <1>8, <1>11, <2>2
  <2>. QED  BY <2>3 DEF Holds
<1>18. ASSUME NEW p \in 1 .. r PROVE Holds(s, ps, items[p])
  <2>1. m + p \in DOMAIN ps /\ items[p] \in Range(ps[m + p].body)
        /\ ps[m + p].path = Append(s.path, items[p])
    BY <1>6, <1>7, <1>8, <1>10
  <2>. QED  BY <2>1 DEF Holds
<1>19. ASSUME items # <<>>, ps = <<s>> PROVE FALSE
  <2>1. 1 \in 1 .. r
    BY <1>7, <1>19
  <2>2. m + 1 \in 1 .. m + r /\ ps[m + 1].path = Append(s.path, items[1])
    BY <1>6, <1>7, <1>10, <2>1
  <2>3. DOMAIN ps = {1} /\ ps[1] = s
    BY <1>19
  <2>4. Append(s.path, items[1]) = s.path
    BY <1>8, <2>2, <2>3
  <2>5. Len(Append(s.path, items[1])) = Len(s.path) + 1 /\ Len(s.path) \in Nat
    BY <1>2, <1>7, <2>1
  <2>. QED  BY <2>4, <2>5
<1>. QED  BY <1>1, <1>5, <1>7, <1>16, <1>17, <1>18, <1>19

-----------------------------------------------------------------------------
(* What is cut up *)

\* The first line of a section is not a heading.
LEMMA FirstIsNoHeading ==
    ASSUME lines \in Seq(AnyLine), NEW s \in Followers, NEW b, b = s.body, b # <<>>
    PROVE  lines[b[1]].kind # "heading"
<1>1. PICK h : h = Last(s.path)
  OBVIOUS
<1>2. /\ b \in Seq(Nat) /\ h \in Headings /\ Range(b) = Under(h) /\ Ascending(b)
  BY <1>1 DEF Followers, Sections
<1>13. PICK n, r : n = Len(lines) /\ r = Len(b)
  OBVIOUS
<1>3. /\ n \in Nat /\ DOMAIN lines = 1 .. n
      /\ r \in Nat /\ DOMAIN b = 1 .. r /\ 1 \in 1 .. r
  BY <1>2, <1>13
<1>4. PICK i : i = b[1]
  OBVIOUS
<1>5. \A j : j \in Under(h) <=> /\ j \in 1 .. n /\ j > h
                                /\ \A k \in Headings : k <= h \/ j < k
  <2>1. Under(h) = {j \in 1 .. n : j > h /\ \A k \in Headings : k <= h \/ j < k}
    BY <1>3 DEF Under
  <2>. QED  BY <2>1
<1>6. h \in 1 .. n /\ lines[h].kind = "heading" /\ ~ Fenced(h) /\ Headings \subseteq 1 .. n
  BY <1>2, <1>3 DEF Headings
<1>7. i \in Under(h)
  BY <1>2, <1>3, <1>4 DEF Range
<1>8. h + 1 \in Under(h)
  <2>1. i \in 1 .. n /\ i > h
    BY <1>5, <1>7
  <2>2. h + 1 \in 1 .. n /\ h + 1 > h
    BY <1>3, <1>6, <2>1
  <2>3. ASSUME NEW k \in Headings PROVE k <= h \/ h + 1 < k
    <3>1. k \in 1 .. n /\ (k <= h \/ i < k)
      BY <1>5, <1>6, <1>7
    <3>. QED  BY <1>6, <2>1, <3>1
  <2>. QED  BY <1>5, <2>2, <2>3
<1>9. i = h + 1
  <2>1. PICK m \in 1 .. r : h + 1 = b[m]
    BY <1>2, <1>3, <1>8 DEF Range
  <2>2. 1 < m => i < h + 1
    BY <1>2, <1>3, <1>4, <2>1 DEF Ascending
  <2>3. m = 1 \/ 1 < m
    BY <1>3
  <2>4. i \in 1 .. n /\ i > h /\ h \in 1 .. n
    BY <1>5, <1>6, <1>7
  <2>5. ~ i < h + 1
    BY <2>4
  <2>. QED  BY <1>4, <2>1, <2>2, <2>3, <2>5
<1>10. ~ Fenced(h + 1)
  <2>1. \A j : j \in 1 .. (h + 1) - 1 /\ lines[j].kind = "fence"
                 <=> j \in 1 .. h - 1 /\ lines[j].kind = "fence"
    <3>1. \A j : j \in 1 .. (h + 1) - 1 <=> j \in 1 .. h - 1 \/ j = h
      BY <1>6
    <3>. QED  BY <1>6, <3>1
  <2>2. {j \in 1 .. (h + 1) - 1 : lines[j].kind = "fence"} = {j \in 1 .. h - 1 : lines[j].kind = "fence"}
    BY <2>1
  <2>. QED  BY <1>6, <2>2 DEF Fenced
<1>11. h + 1 \notin Headings
  <2>1. h + 1 \in Headings => h + 1 <= h \/ h + 1 < h + 1
    BY <1>5, <1>8
  <2>. QED  BY <1>6, <2>1
<1>12. h + 1 \in DOMAIN lines
  BY <1>3, <1>5, <1>8
<1>. QED  BY <1>4, <1>9, <1>10, <1>11, <1>12 DEF Headings

\* The least of some numbers that is known to be there is their minimum.
LEMMA LeastIs ==
    ASSUME NEW S \in SUBSET Nat, NEW m \in S, \A i \in S : m <= i
    PROVE  Min(S) = m
<1>1. \A x \in S : (\A y \in S : x <= y) => x = m
  <2>1. ASSUME NEW x \in S, \A y \in S : x <= y PROVE x = m
    <3>1. x <= m /\ m <= x /\ x \in Nat /\ m \in Nat
      BY <2>1
    <3>. QED  BY <3>1
  <2>. QED  BY <2>1
<1>. QED  BY <1>1 DEF Min

\* Whether the headings are written as the path has them or not, the body that
\* is cut up is that of the section (_extract_section_body_lines).
LEMMA BodyLinesIs ==
    ASSUME lines \in Seq(AnyLine), NEW s \in Followers
    PROVE  BodyLines(s) = s.body
<1>1. PICK b, p : b = s.body /\ p = s.path
  OBVIOUS
<1>2. b \in Seq(Nat) /\ p \in Seq(Nat) /\ p # <<>>
  BY <1>1 DEF Followers, Sections
<1>3. PICK n, m : n = Len(p) /\ m = Len(b)
  OBVIOUS
<1>4. n \in Nat /\ m \in Nat /\ DOMAIN b = 1 .. m /\ DOMAIN p = 1 .. n
  BY <1>2, <1>3
<1>5. PICK c : c = p \o b
  OBVIOUS
<1>6. /\ c \in Seq(Nat) /\ Len(c) = n + m
      /\ \A i \in 1 .. n + m : c[i] = IF i <= n THEN p[i] ELSE b[i - n]
  BY <1>2, <1>3, <1>5, ConcatProperties
<1>7. DOMAIN c = 1 .. n + m
  BY <1>4, <1>6
<1>8. SubSeq(c, n + 1, n + m) = b
  <2>1. PICK t, lo, hi : lo = n + 1 /\ hi = n + m /\ t = SubSeq(c, lo, hi)
    OBVIOUS
  <2>2. lo \in Int /\ hi \in Int /\ \A i \in lo .. hi : c[i] \in Nat
    BY <1>4, <1>6, <1>7, <2>1
  <2>3. /\ t \in Seq(Nat) /\ Len(t) = IF lo <= hi THEN hi - lo + 1 ELSE 0
        /\ \A i \in 1 .. hi - lo + 1 : t[i] = c[lo + i - 1]
    BY <2>1, <2>2, SubSeqProperties
  <2>4. Len(t) = m /\ hi - lo + 1 = m
    <3>1. hi - lo + 1 = m /\ (lo <= hi <=> 1 <= m)
      BY <1>4, <2>1
    <3>2. ~ 1 <= m => m = 0
      BY <1>4
    <3>. QED  BY <2>3, <3>1, <3>2
  <2>5. ASSUME NEW i \in 1 .. m PROVE t[i] = b[i]
    <3>1. lo + i - 1 = n + i /\ n + i \in 1 .. n + m /\ ~ n + i <= n /\ (n + i) - n = i
      BY <1>4, <2>1
    <3>2. t[i] = c[n + i]
      BY <2>3, <2>4, <3>1
    <3>3. c[n + i] = b[(n + i) - n]
      BY <1>6, <3>1
    <3>. QED  BY <3>1, <3>2, <3>3
  <2>. QED  BY <1>2, <1>3, <2>1, <2>3, <2>4, <2>5, SeqEqual
<1>. DEFINE after == {i \in 1 .. n + m : lines[c[i]].kind # "heading"} \cup {n + m + 1}
<1>9. Min(after) = n + 1
  <2>1. ASSUME NEW i \in 1 .. n PROVE i \notin after
    <3>1. i \in 1 .. n + m /\ i <= n /\ i # n + m + 1
      BY <1>4
    <3>2. c[i] = p[i]
      BY <1>6, <3>1
    <3>3. p[i] \in Range(p)
      BY <1>4 DEF Range
    <3>4. Range(p) \subseteq Headings
      BY <1>1 DEF Followers, Above
    <3>5. lines[p[i]].kind = "heading"
      BY <3>3, <3>4 DEF Headings
    <3>. QED  BY <3>1, <3>2, <3>5
  <2>2. n + 1 \in after
    <3>1. CASE m = 0
      BY <1>4, <3>1
    <3>2. CASE m # 0
      <4>1. n + 1 \in 1 .. n + m /\ ~ n + 1 <= n /\ (n + 1) - n = 1 /\ b # <<>>
        BY <1>3, <1>4, <3>2
      <4>2. c[n + 1] = b[1]
        BY <1>6, <4>1
      <4>3. lines[b[1]].kind # "heading"
        BY <1>1, <4>1, FirstIsNoHeading
      <4>. QED  BY <4>1, <4>2, <4>3
    <3>. QED  BY <3>1, <3>2
  <2>3. after \in SUBSET Nat /\ after \subseteq 1 .. n + m + 1
    BY <1>4
  <2>. HIDE DEF after
  <2>4. \A i \in after : n + 1 <= i
    BY <1>4, <2>1, <2>3
  <2>. QED  BY <2>2, <2>3, <2>4, LeastIs
<1>10. CASE RendersAlike(s)
  <2>1. BodyLines(s) = SubSeq(c, n + 1, n + m)
    BY <1>1, <1>3, <1>5, <1>6, <1>10 DEF BodyLines
  <2>. QED  BY <1>1, <1>8, <2>1
<1>11. CASE ~ RendersAlike(s)
  <2>1. BodyLines(s) = SubSeq(c, Min(after), n + m)
    BY <1>1, <1>5, <1>6, <1>7, <1>11 DEF BodyLines
  <2>. HIDE DEF after
  <2>. QED  BY <1>1, <1>8, <1>9, <2>1
<1>. QED  BY <1>10, <1>11

\* Numbers, if there are any, have a minimum.
LEMMA LeastOf ==
    ASSUME NEW S \in SUBSET Nat, S # {}
    PROVE  Min(S) \in S /\ \A i \in S : Min(S) <= i
<1>1. PICK m \in S : \A i \in S : m <= i
  BY LeastMember
<1>2. Min(S) = m
  BY <1>1, LeastIs
<1>. QED  BY <1>1, <1>2

\* t has the lines of b from position lo to position hi, each once.
IsPart(b, lo, hi, t) ==
    /\ t \in Seq(Nat) /\ Distinct(t)
    /\ \A p \in DOMAIN t : \E j \in lo .. hi : t[p] = b[j]
    /\ \A j \in lo .. hi : \E p \in DOMAIN t : t[p] = b[j]

\* A part of a body
LEMMA PartIs ==
    ASSUME NEW b \in Seq(Nat), Distinct(b), NEW lo \in DOMAIN b, NEW hi \in lo .. Len(b)
    PROVE  IsPart(b, lo, hi, SubSeq(b, lo, hi))
<1>1. PICK n, t : n = Len(b) /\ t = SubSeq(b, lo, hi)
  OBVIOUS
<1>2. n \in Nat /\ DOMAIN b = 1 .. n /\ lo \in 1 .. n /\ hi \in 1 .. n /\ lo <= hi
  BY <1>1
<1>3. lo \in Int /\ hi \in Int /\ \A i \in lo .. hi : i \in 1 .. n /\ b[i] \in Nat
  BY <1>1, <1>2
<1>4. /\ t \in Seq(Nat) /\ Len(t) = hi - lo + 1
      /\ \A i \in 1 .. hi - lo + 1 : t[i] = b[lo + i - 1]
  <2>1. /\ t \in Seq(Nat) /\ Len(t) = IF lo <= hi THEN hi - lo + 1 ELSE 0
        /\ \A i \in 1 .. hi - lo + 1 : t[i] = b[lo + i - 1]
    BY <1>1, <1>3, SubSeqProperties
  <2>. QED  BY <1>2, <2>1
<1>5. DOMAIN t = 1 .. hi - lo + 1
  BY <1>4
<1>6. ASSUME NEW p \in DOMAIN t
      PROVE  lo + p - 1 \in lo .. hi /\ t[p] = b[lo + p - 1]
  BY <1>2, <1>4, <1>5
<1>7. ASSUME NEW j \in lo .. hi PROVE \E p \in DOMAIN t : t[p] = b[j]
  <2>1. j - lo + 1 \in 1 .. hi - lo + 1 /\ lo + (j - lo + 1) - 1 = j
    BY <1>2
  <2>. QED  BY <1>4, <1>5, <2>1
<1>8. ASSUME NEW p \in DOMAIN t, NEW q \in DOMAIN t, t[p] = t[q] PROVE p = q
  <2>1. p \in Int /\ q \in Int
    BY <1>2, <1>5
  <2>2. lo + p - 1 = lo + q - 1
    <3>1. lo + p - 1 \in DOMAIN b /\ lo + q - 1 \in DOMAIN b
      BY <1>2, <1>3, <1>6
    <3>2. b[lo + p - 1] = b[lo + q - 1]
      BY <1>6, <1>8
    <3>. QED  BY <3>1, <3>2 DEF Distinct
  <2>. QED  BY <1>2, <2>1, <2>2
<1>9. Distinct(t)
  BY <1>8 DEF Distinct
<1>10. \A p \in DOMAIN t : \E j \in lo .. hi : t[p] = b[j]
  BY <1>6
<1>. QED  BY <1>1, <1>4, <1>7, <1>9, <1>10 DEF IsPart

Table == {"header", "separator", "row"}

\* The body b may be cut up from position from on, into items: there its table or
\* its list of facts begins, and all facts, or the rows up to the end of the
\* table, are among the items.
Splits(b, from, items) ==
    /\ from \in DOMAIN b /\ items \in Seq(Nat) /\ items # <<>> /\ Distinct(items)
    /\ \A p \in DOMAIN items : \E j \in from .. Len(b) : items[p] = b[j]
    /\ file = "rag_ground_truth.md" =>
          /\ lines[b[from]].kind = "fact"
          /\ \A j \in DOMAIN b : lines[b[j]].kind = "fact" => \E p \in DOMAIN items : items[p] = b[j]
    /\ file = "glossary.md" =>
          /\ lines[b[from]].kind = "header"
          /\ \A j \in from .. Len(b) :
                lines[b[j]].kind = "row" /\ (\A k \in from .. j : lines[b[k]].kind \in Table)
                => \E p \in DOMAIN items : items[p] = b[j]

\* The list of facts is cut up at its facts.
LEMMA FactsSplit ==
    ASSUME lines \in Seq(AnyLine), NEW s \in Followers, file = "rag_ground_truth.md"
    PROVE  \/ SplitFacts(s) = <<s>>
           \/ \E from, items : Splits(s.body, from, items)
                               /\ SplitFacts(s) = Pieces(s, s.body, from, items)
<1>1. PICK b : b = s.body
  OBVIOUS
<1>2. BodyLines(s) = b
  BY <1>1, BodyLinesIs
<1>3. b \in Seq(Nat) /\ Distinct(b) /\ DOMAIN b = 1 .. Len(b) /\ Len(b) \in Nat
  BY <1>1, AscendingDistinct DEF Followers, Sections
<1>4. PICK facts : facts = OfKind(b, "fact")
  OBVIOUS
<1>5. Picks(b, "fact", facts)
  BY <1>3, <1>4, OfKindIs
<1>6. PICK at : at = {n \in DOMAIN b : lines[b[n]].kind = "fact"}
  OBVIOUS
<1>7. CASE facts = <<>>
  <2>1. SplitFacts(s) = <<s>>
    BY <1>2, <1>4, <1>7 DEF SplitFacts
  <2>. QED  BY <2>1
<1>8. CASE facts # <<>>
  <2>1. SplitFacts(s) = Pieces(s, b, Min(at), facts)
    BY <1>2, <1>4, <1>6, <1>8 DEF SplitFacts
  <2>2. facts \in Seq(Nat) /\ 1 \in DOMAIN facts
    BY <1>5, <1>8 DEF Picks
  <2>3. at # {} /\ at \in SUBSET Nat
    <3>1. \E j \in DOMAIN b : lines[b[j]].kind = "fact"
      BY <1>5, <2>2 DEF Picks
    <3>. QED  BY <1>3, <1>6, <3>1
  <2>4. PICK from : from = Min(at)
    OBVIOUS
  <2>5. from \in at /\ \A j \in at : from <= j
    BY <2>3, <2>4, LeastOf
  <2>6. ASSUME NEW p \in DOMAIN facts PROVE \E j \in from .. Len(b) : facts[p] = b[j]
    <3>1. PICK j \in DOMAIN b : facts[p] = b[j] /\ lines[b[j]].kind = "fact"
      BY <1>5 DEF Picks
    <3>2. from <= j /\ from \in Nat /\ j \in 1 .. Len(b)
      BY <1>3, <1>6, <2>3, <2>5, <3>1
    <3>. QED  BY <1>3, <3>1, <3>2
  <2>7. lines[b[from]].kind = "fact"
    BY <1>6, <2>5
  <2>8. \A j \in DOMAIN b : lines[b[j]].kind = "fact" => \E p \in DOMAIN facts : facts[p] = b[j]
    BY <1>5 DEF Picks
  <2>9. from \in DOMAIN b /\ Distinct(facts)
    BY <1>5, <1>6, <2>5 DEF Picks
  <2>10. file # "glossary.md"
    OBVIOUS
  <2>11. Splits(b, from, facts)
    BY <1>8, <2>2, <2>6, <2>7, <2>8, <2>9, <2>10 DEF Splits
  <2>. QED  BY <1>1, <2>1, <2>4, <2>11
<1>. QED  BY <1>7, <1>8

\* The glossary is cut up at the rows of its table.
LEMMA GlossarySplit ==
    ASSUME lines \in Seq(AnyLine), NEW s \in Followers, file = "glossary.md"
    PROVE  \/ SplitGlossary(s) = <<s>>
           \/ \E from, items : Splits(s.body, from, items)
                               /\ SplitGlossary(s) = Pieces(s, s.body, from, items)
<1>1. PICK b, n : b = s.body /\ n = Len(b)
  OBVIOUS
<1>2. BodyLines(s) = b
  BY <1>1, BodyLinesIs
<1>3. b \in Seq(Nat) /\ Distinct(b) /\ DOMAIN b = 1 .. n /\ n \in Nat
  BY <1>1, AscendingDistinct DEF Followers, Sections
<1>4. PICK at : at = {j \in DOMAIN b : lines[b[j]].kind = "header"}
  OBVIOUS
<1>5. PICK from, rows : from = Min(at) /\ rows = GlossaryRows(b, from)
  OBVIOUS
<1>6. CASE at = {} \/ rows = <<>>
  <2>1. SplitGlossary(s) = <<s>>
    BY <1>2, <1>4, <1>5, <1>6 DEF SplitGlossary
  <2>. QED  BY <2>1
<1>7. CASE ~ (at = {} \/ rows = <<>>)
  <2>1. SplitGlossary(s) = Pieces(s, b, from, rows)
    BY <1>2, <1>4, <1>5, <1>7 DEF SplitGlossary
  <2>2. from \in at /\ \A j \in at : from <= j
    <3>1. at # {} /\ at \in SUBSET Nat
      BY <1>3, <1>4, <1>7
    <3>. QED  BY <1>5, <3>1, LeastOf
  <2>3. from \in 1 .. n
    BY <1>3, <1>4, <2>2
  <2>4. PICK ends, e : /\ ends = {k \in from + 1 .. n : lines[b[k]].kind \notin Table} \cup {n + 1}
                       /\ e = Min(ends)
    OBVIOUS
  <2>5. e \in ends /\ \A k \in ends : e <= k
    <3>1. ends # {} /\ ends \in SUBSET Nat
      BY <1>3, <2>3, <2>4
    <3>. QED  BY <2>4, <3>1, LeastOf
  <2>6. e \in from + 1 .. n + 1
    BY <1>3, <2>3, <2>4, <2>5
  <2>7. PICK hi, part : hi = e - 1 /\ part = SubSeq(b, from, hi)
    OBVIOUS
  <2>8. hi \in from .. n /\ e = hi + 1
    BY <1>3, <2>3, <2>6, <2>7
  <2>9. IsPart(b, from, hi, part)
    BY <1>1, <1>3, <2>3, <2>7, <2>8, PartIs
  <2>10. rows = OfKind(part, "row")
    BY <1>1, <1>5, <2>4, <2>7 DEF GlossaryRows, Table
  <2>11. Picks(part, "row", rows)
    BY <2>9, <2>10, OfKindIs DEF IsPart
  <2>12. ASSUME NEW p \in DOMAIN rows PROVE \E j \in from .. n : rows[p] = b[j]
    <3>1. PICK q \in DOMAIN part : rows[p] = part[q]
      BY <2>11 DEF Picks
    <3>2. PICK j \in from .. hi : part[q] = b[j]
      BY <2>9 DEF IsPart
    <3>3. j \in from .. n
      BY <1>3, <2>3, <2>8
    <3>. QED  BY <3>1, <3>2, <3>3
  <2>13. lines[b[from]].kind = "header"
    BY <1>4, <2>2
  <2>14. ASSUME NEW j \in from .. n, lines[b[j]].kind = "row",
                \A k \in from .. j : lines[b[k]].kind \in Table
         PROVE  \E p \in DOMAIN rows : rows[p] = b[j]
    <3>1. j \in from .. hi
      <4>1. ASSUME e <= j PROVE FALSE
        <5>1. e \in from + 1 .. n /\ e \in from .. j
          BY <1>3, <2>3, <2>6, <4>1
        <5>2. lines[b[e]].kind \in Table
          BY <2>14, <5>1
        <5>3. e # n + 1
          BY <1>3, <5>1
        <5>. QED  BY <2>4, <2>5, <5>2, <5>3
      <4>. QED  BY <2>3, <2>6, <2>8, <4>1
    <3>2. PICK q \in DOMAIN part : part[q] = b[j]
      BY <2>9, <3>1 DEF IsPart
    <3>3. PICK p \in DOMAIN rows : rows[p] = part[q]
      BY <2>11, <2>14, <3>2 DEF Picks
    <3>. QED  BY <3>2, <3>3
  <2>15. from \in DOMAIN b /\ rows \in Seq(Nat) /\ rows # <<>> /\ Distinct(rows)
    BY <1>3, <1>7, <2>3, <2>11 DEF Picks
  <2>16. file # "rag_ground_truth.md"
    OBVIOUS
  <2>17. Splits(b, from, rows)
    BY <1>1, <2>12, <2>13, <2>14, <2>15, <2>16 DEF Splits
  <2>. QED  BY <1>1, <2>1, <2>17
<1>. QED  BY <1>6, <1>7

\* A section is left whole, or cut up as its file and heading say.
LEMMA ExpandedIs ==
    ASSUME lines \in Seq(AnyLine), NEW s \in Followers
    PROVE  \/ Expanded(s) = <<s>>
           \/ \E from, items : /\ file \in {"glossary.md", "rag_ground_truth.md"}
                               /\ Splits(s.body, from, items)
                               /\ Expanded(s) = Pieces(s, s.body, from, items)
<1>1. \/ Expanded(s) = <<s>>
      \/ file = "glossary.md" /\ Expanded(s) = SplitGlossary(s)
      \/ file = "rag_ground_truth.md" /\ Expanded(s) = SplitFacts(s)
  BY Zenon DEF Expanded
<1>2. CASE file = "glossary.md" /\ Expanded(s) = SplitGlossary(s)
  BY <1>2, GlossarySplit
<1>3. CASE file = "rag_ground_truth.md" /\ Expanded(s) = SplitFacts(s)
  BY <1>3, FactsSplit
<1>. QED  BY <1>1, <1>2, <1>3

\* Line n of a section is before its table or list of facts, or an item of it.
Retained(s, n) ==
    \/ ~ Opened(s, n)
    \/ lines[s.body[n]].kind = "fact" /\ file = "rag_ground_truth.md"
    \/ /\ lines[s.body[n]].kind = "row"
       /\ ~ Opened(s, Max({0} \cup {k \in 1 .. n : lines[s.body[k]].kind \notin Table}))

\* The pieces of a section have all of its lines that are not to be lost.
LEMMA ExpandedDivides ==
    ASSUME lines \in Seq(AnyLine), NEW s \in Followers
    PROVE  /\ Divides(s, Expanded(s))
           /\ \A n \in DOMAIN s.body :
                 lines[s.body[n]].kind # "blank" /\ Retained(s, n) => Holds(s, Expanded(s), s.body[n])
<1>1. s \in Sections
  BY DEF Followers
<1>2. CASE Expanded(s) = <<s>>
  BY <1>1, <1>2, WholeDivides
<1>3. ASSUME NEW from, NEW items, file \in {"glossary.md", "rag_ground_truth.md"},
             Splits(s.body, from, items), Expanded(s) = Pieces(s, s.body, from, items)
      PROVE  /\ Divides(s, Expanded(s))
             /\ \A n \in DOMAIN s.body :
                   lines[s.body[n]].kind # "blank" /\ Retained(s, n) => Holds(s, Expanded(s), s.body[n])
  <2>1. PICK b, r : b = s.body /\ r = Len(b)
    OBVIOUS
  <2>2. b \in Seq(Nat) /\ r \in Nat /\ DOMAIN b = 1 .. r /\ Distinct(b)
    BY <1>1, <2>1, AscendingDistinct DEF Followers, Sections
  <2>3. /\ from \in DOMAIN b /\ items \in Seq(Nat) /\ items # <<>> /\ Distinct(items)
        /\ \A p \in DOMAIN items : \E j \in from .. Len(b) : items[p] = b[j]
    BY <1>3, <2>1 DEF Splits
  <2>4. PICK ps : ps = Expanded(s)
    OBVIOUS
  <2>5. /\ Divides(s, ps)
        /\ \A j \in 1 .. from - 1 : lines[b[j]].kind # "blank" => Holds(s, ps, b[j])
        /\ \A p \in DOMAIN items : Holds(s, ps, items[p])
        /\ ps # <<s>>
    BY <1>1, <1>3, <2>1, <2>2, <2>3, <2>4, PiecesDivide
  <2>6. ASSUME NEW n \in 1 .. r, lines[b[n]].kind # "blank", Retained(s, n) PROVE Holds(s, ps, b[n])
    <3>1. from \in 1 .. r
      BY <2>2, <2>3
    <3>2. CASE n \in 1 .. from - 1
      BY <2>5, <2>6, <3>2
    <3>3. CASE n \notin 1 .. from - 1
      <4>1. from \in 1 .. n /\ n \in from .. r
        BY <2>2, <3>1, <3>3
      <4>2. lines[b[from]].kind = IF file = "glossary.md" THEN "header" ELSE "fact"
        BY <1>3, <2>1 DEF Splits
      <4>3. \A k : from \in 1 .. k => Opened(s, k)
        BY <2>1, <2>4, <2>5, <4>2 DEF Opened
      <4>4. CASE ~ Opened(s, n)
        BY <4>1, <4>3, <4>4
      <4>5. CASE lines[b[n]].kind = "fact" /\ file = "rag_ground_truth.md"
        <5>1. \E p \in DOMAIN items : items[p] = b[n]
          BY <1>3, <2>1, <2>2, <4>5 DEF Splits
        <5>. QED  BY <2>5, <5>1
      <4>6. ASSUME NEW own, own = {0} \cup {k \in 1 .. n : lines[b[k]].kind \notin Table},
                   NEW q, q = Max(own), lines[b[n]].kind = "row", ~ Opened(s, q)
            PROVE  Holds(s, ps, b[n])
        <5>1. q \in own /\ \A k \in own : k <= q
          <6>1. n \in Nat /\ own \in SUBSET (0 .. n) /\ own # {}
            BY <2>2, <4>6
          <6>. QED  BY <4>6, <6>1, MaxIs
        <5>2. q \in 0 .. n /\ ~ from <= q
          <6>1. q \in 0 .. n
            BY <2>2, <4>6, <5>1
          <6>2. from \notin 1 .. q
            BY <4>3, <4>6
          <6>. QED  BY <2>2, <3>1, <6>1, <6>2
        <5>3. \A k \in from .. n : lines[b[k]].kind \in Table
          <6>1. ASSUME NEW k \in from .. n, lines[b[k]].kind \notin Table PROVE FALSE
            <7>1. k \in 1 .. n /\ ~ k <= q
              BY <2>2, <3>1, <5>2
            <7>. QED  BY <4>6, <5>1, <6>1, <7>1
          <6>. QED  BY <6>1
        <5>4. lines[b[from]].kind \in Table
          BY <4>1, <5>3
        <5>5. file = "glossary.md"
          BY <4>2, <5>4 DEF Table
        <5>6. \E p \in DOMAIN items : items[p] = b[n]
          BY <1>3, <2>1, <4>1, <4>6, <5>3, <5>5 DEF Splits
        <5>. QED  BY <2>5, <5>6
      <4>. QED  BY <2>1, <2>6, <4>4, <4>5, <4>6 DEF Retained
    <3>. QED  BY <3>2, <3>3
  <2>. QED  BY <2>1, <2>2, <2>4, <2>5, <2>6
<1>. QED  BY <1>2, <1>3, ExpandedIs

-----------------------------------------------------------------------------
(* All pieces of a file *)

\* The heading that section s follows, 0 for the text before the first one.
HeadOf(s) == IF s.path = <<>> THEN 0 ELSE Last(s.path)

\* A line follows one heading only.
LEMMA UnderOne ==
    ASSUME lines \in Seq(AnyLine), NEW g \in Headings \cup {0}, NEW h \in Headings \cup {0},
           NEW i, i \in Under(g), i \in Under(h)
    PROVE  g = h
<1>1. DOMAIN lines \subseteq Nat /\ 0 \notin DOMAIN lines
  OBVIOUS
<1>2. /\ i \in Nat /\ g < i /\ h < i
      /\ \A k \in Headings : (k <= g \/ i < k) /\ (k <= h \/ i < k)
  BY <1>1 DEF Under
<1>3. Headings \subseteq Nat /\ \A k \in Headings : 0 <= k
  BY <1>1 DEF Headings
<1>4. g \in Nat /\ h \in Nat
  BY <1>3
<1>5. g <= h
  BY <1>2, <1>3, <1>4
<1>6. h <= g
  BY <1>2, <1>3, <1>4
<1>. QED  BY <1>4, <1>5, <1>6

\* The sections of the file, and the text before them, each follow a heading of
\* their own.
Sectioned(all) ==
    /\ all \in Seq(Sections)
    /\ \A k \in DOMAIN all : all[k] \in Followers \/ all[k].path = <<>>
    /\ \A k \in DOMAIN all : /\ HeadOf(all[k]) \in Headings \cup {0}
                             /\ Range(all[k].body) = Under(HeadOf(all[k]))
    /\ \A j, k \in DOMAIN all : HeadOf(all[j]) = HeadOf(all[k]) => j = k
    /\ \A s \in Range(Complete) : \E k \in DOMAIN all : all[k] = s

\* What _parse_sections returns
LEMMA ParsedIs == ASSUME OutlineInv PROVE Sectioned(Parsed)
<1>1. /\ Complete \in Seq(Sections)
      /\ \A k \in DOMAIN Complete : Complete[k] \in Followers
      /\ \A j, k \in DOMAIN Complete : j < k => Last(Complete[j].path) < Last(Complete[k].path)
  BY CompleteIs
<1>2. PICK c, n : c = Complete /\ n = Len(c)
  OBVIOUS
<1>3. n \in Nat /\ DOMAIN c = 1 .. n
  BY <1>1, <1>2
<1>4. 0 \notin Headings /\ Headings \subseteq Nat
  BY DEF OutlineInv, Headings
<1>5. ASSUME NEW k \in 1 .. n
      PROVE  /\ c[k] \in Followers /\ HeadOf(c[k]) \in Headings /\ HeadOf(c[k]) = Last(c[k].path)
             /\ Range(c[k].body) = Under(HeadOf(c[k]))
  BY <1>1, <1>2, <1>3 DEF Followers, HeadOf
<1>6. ASSUME NEW j \in 1 .. n, NEW k \in 1 .. n, HeadOf(c[j]) = HeadOf(c[k]) PROVE j = k
  <2>1. /\ j < k => HeadOf(c[j]) < HeadOf(c[k])
        /\ k < j => HeadOf(c[k]) < HeadOf(c[j])
    BY <1>1, <1>2, <1>3, <1>5
  <2>2. HeadOf(c[j]) \in Nat
    BY <1>4, <1>5
  <2>. QED  BY <1>6, <2>1, <2>2
<1>7. PICK first : first = [level |-> 0, path |-> <<>>, body |-> preamble]
  OBVIOUS
<1>8. /\ first \in Sections /\ first.path = <<>> /\ HeadOf(first) = 0
      /\ Range(first.body) = Under(HeadOf(first))
  <2>1. preamble \in Seq(Nat) /\ Range(preamble) = Under(0) /\ <<>> \in Seq(Nat)
    BY DEF OutlineInv
  <2>. QED  BY <1>7, <2>1 DEF Sections, HeadOf
<1>9. CASE IsBlank(preamble)
  <2>1. Parsed = c
    <3>1. Parsed = <<>> \o c
      BY <1>2, <1>9 DEF Parsed
    <3>. QED  BY <1>1, <1>2, <3>1, ConcatEmptySeq
  <2>2. \A s \in Range(c) : \E k \in 1 .. n : c[k] = s
    BY <1>3 DEF Range
  <2>. QED  BY <1>1, <1>2, <1>3, <1>5, <1>6, <2>1, <2>2 DEF Sectioned
<1>10. CASE ~ IsBlank(preamble)
  <2>1. PICK pre, all : pre = <<first>> /\ all = pre \o c
    OBVIOUS
  <2>2. Parsed = all
    BY <1>2, <1>7, <1>10, <2>1 DEF Parsed
  <2>3. pre \in Seq(Sections) /\ Len(pre) = 1 /\ pre[1] = first /\ c \in Seq(Sections)
    BY <1>1, <1>2, <1>8, <2>1
  <2>4. /\ all \in Seq(Sections) /\ Len(all) = 1 + n
        /\ \A i \in 1 .. 1 + n : all[i] = IF i <= 1 THEN pre[i] ELSE c[i - 1]
    BY <1>2, <2>1, <2>3, ConcatProperties
  <2>5. DOMAIN all = 1 .. 1 + n
    BY <1>3, <2>4
  <2>6. all[1] = first /\ \A k \in 1 .. n : k + 1 \in 1 .. 1 + n /\ all[k + 1] = c[k]
    <3>1. 1 \in 1 .. 1 + n /\ 1 <= 1
      BY <1>3
    <3>2. all[1] = first
      BY <2>3, <2>4, <3>1
    <3>3. ASSUME NEW k \in 1 .. n PROVE k + 1 \in 1 .. 1 + n /\ all[k + 1] = c[k]
      <4>1. k + 1 \in 1 .. 1 + n /\ ~ k + 1 <= 1 /\ (k + 1) - 1 = k
        BY <1>3
      <4>2. all[k + 1] = c[(k + 1) - 1]
        BY <2>4, <4>1
      <4>. QED  BY <4>1, <4>2
    <3>. QED  BY <3>2, <3>3
  <2>7. ASSUME NEW i \in 1 .. 1 + n PROVE i = 1 \/ \E k \in 1 .. n : i = k + 1
    <3>1. i # 1 => i - 1 \in 1 .. n /\ i = (i - 1) + 1
      BY <1>3
    <3>. QED  BY <3>1
  <2>8. ASSUME NEW i \in 1 .. 1 + n
        PROVE  /\ all[i] \in Followers \/ all[i].path = <<>>
               /\ HeadOf(all[i]) \in Headings \cup {0}
               /\ Range(all[i].body) = Under(HeadOf(all[i]))
    <3>1. CASE i = 1
      BY <1>8, <2>6, <3>1
    <3>2. CASE \E k \in 1 .. n : i = k + 1
      BY <1>5, <2>6, <3>2
    <3>. QED  BY <2>7, <3>1, <3>2
  <2>9. ASSUME NEW i \in 1 .. 1 + n, NEW j \in 1 .. 1 + n, HeadOf(all[i]) = HeadOf(all[j]) PROVE i = j
    <3>1. CASE i = 1 /\ j = 1
      BY <3>1
    <3>2. CASE i = 1 /\ \E k \in 1 .. n : j = k + 1
      BY <1>4, <1>5, <1>8, <2>6, <2>9, <3>2
    <3>3. CASE j = 1 /\ \E k \in 1 .. n : i = k + 1
      BY <1>4, <1>5, <1>8, <2>6, <2>9, <3>3
    <3>4. CASE (\E k \in 1 .. n : i = k + 1) /\ \E k \in 1 .. n : j = k + 1
      <4>1. PICK k \in 1 .. n : i = k + 1
        BY <3>4
      <4>2. PICK m \in 1 .. n : j = m + 1
        BY <3>4
      <4>3. HeadOf(c[k]) = HeadOf(c[m])
        BY <2>6, <2>9, <4>1, <4>2
      <4>. QED  BY <1>6, <4>1, <4>2, <4>3
    <3>. QED  BY <2>7, <3>1, <3>2, <3>3, <3>4
  <2>10. ASSUME NEW s \in Range(c) PROVE \E i \in 1 .. 1 + n : all[i] = s
    <3>1. PICK k \in 1 .. n : c[k] = s
      BY <1>3 DEF Range
    <3>. QED  BY <2>6, <3>1
  <2>. QED  BY <1>2, <2>2, <2>4, <2>5, <2>8, <2>9, <2>10 DEF Sectioned
<1>. QED  BY <1>9, <1>10

\* Every section is divided by its pieces.
LEMMA PartsDivide ==
    ASSUME OutlineInv, NEW s \in Sections, s \in Followers \/ s.path = <<>>
    PROVE  Divides(s, Expanded(s))
<1>1. lines \in Seq(AnyLine)
  BY DEF OutlineInv
<1>2. CASE s \in Followers
  BY <1>1, <1>2, ExpandedDivides
<1>3. CASE s.path = <<>>
  <2>1. Expanded(s) = <<s>>
    BY <1>3, Zenon DEF Expanded, HasLeaf
  <2>. QED  BY <2>1, WholeDivides
<1>. QED  BY <1>2, <1>3

\* Every line is in one piece of the file at the most, and in one if its section
\* has not lost it.
LEMMA PiecedOnce ==
    ASSUME OutlineInv
    PROVE  /\ \A m, n \in DOMAIN Pieced : \A i :
                 i \in Range(Pieced[m].body) /\ i \in Range(Pieced[n].body) => m = n
           /\ \A s \in Range(Complete) : \A i : Holds(s, Expanded(s), i) => Holds(s, Pieced, i)
<1>1. PICK all, r : all = Parsed /\ r = Len(all)
  OBVIOUS
<1>2. Sectioned(all)
  BY <1>1, ParsedIs
<1>3. r \in Nat /\ DOMAIN all = 1 .. r /\ \A j \in 1 .. r : all[j] \in Sections
  BY <1>1, <1>2 DEF Sectioned
<1>. DEFINE ss == [j \in DOMAIN all |-> Expanded(all[j])]
<1>4. \A j \in 1 .. r : Divides(all[j], ss[j])
  BY <1>2, <1>3, PartsDivide DEF Sectioned
<1>5. ss \in Seq(Seq(Sections)) /\ Len(ss) = r
  <2>1. \A j \in 1 .. r : ss[j] \in Seq(Sections)
    BY <1>4 DEF Divides
  <2>. HIDE DEF Sectioned
  <2>. QED  BY <1>3, <2>1
<1>6. Pieced = FlattenSeq(ss)
  BY <1>1 DEF Pieced
<1>7. \A j \in 1 .. r : ss[j] = Expanded(all[j])
  BY <1>3
<1>. HIDE DEF ss
<1>8. PICK t, at : t = Pieced /\ t \in Seq(Sections) /\ Stands(at, ss, t)
  BY <1>3, <1>5, <1>6, FlattenIs
<1>9. /\ DOMAIN t = 1 .. Len(t)
      /\ \A j \in 1 .. r : DOMAIN ss[j] = 1 .. Len(ss[j]) /\ Len(ss[j]) \in Nat
  BY <1>5, <1>8
<1>10. \A j \in 1 .. r : \A k \in 1 .. Len(ss[j]) :
          at[j - 1] + k \in 1 .. Len(t) /\ t[at[j - 1] + k] = ss[j][k]
  BY <1>5, <1>8 DEF Stands
<1>11. ASSUME NEW m \in 1 .. Len(t)
       PROVE  \E j \in 1 .. r : \E k \in 1 .. Len(ss[j]) : m = at[j - 1] + k /\ t[m] = ss[j][k]
  <2>1. Placed(at, ss, m)
    <3>1. Len(ss) \in Nat /\ (\A j \in 1 .. Len(ss) : Len(ss[j]) \in Nat) /\ m \in 1 .. Len(t)
          /\ Stands(at, ss, t)
      BY <1>3, <1>5, <1>8, <1>9
    <3>. QED  BY <3>1, StandsFull
  <2>2. \E j \in 1 .. r : \E k \in 1 .. Len(ss[j]) : m = at[j - 1] + k
    BY <1>5, <2>1 DEF Placed
  <2>. QED  BY <1>10, <2>2
<1>12. ASSUME NEW m \in 1 .. Len(t), NEW n \in 1 .. Len(t), NEW i,
              i \in Range(t[m].body), i \in Range(t[n].body)
       PROVE  m = n
  <2>1. PICK j \in 1 .. r : \E k \in 1 .. Len(ss[j]) : m = at[j - 1] + k /\ t[m] = ss[j][k]
    BY <1>11
  <2>2. PICK k \in 1 .. Len(ss[j]) : m = at[j - 1] + k /\ t[m] = ss[j][k]
    BY <2>1
  <2>3. PICK g \in 1 .. r : \E h \in 1 .. Len(ss[g]) : n = at[g - 1] + h /\ t[n] = ss[g][h]
    BY <1>11
  <2>4. PICK h \in 1 .. Len(ss[g]) : n = at[g - 1] + h /\ t[n] = ss[g][h]
    BY <2>3
  <2>5. k \in DOMAIN ss[j] /\ h \in DOMAIN ss[g]
    BY <1>9
  <2>6. i \in Range(all[j].body) /\ i \in Range(all[g].body)
    BY <1>4, <1>12, <2>2, <2>4, <2>5 DEF Divides
  <2>7. j = g
    <3>1. lines \in Seq(AnyLine)
      BY DEF OutlineInv
    <3>2. /\ HeadOf(all[j]) \in Headings \cup {0} /\ Range(all[j].body) = Under(HeadOf(all[j]))
          /\ HeadOf(all[g]) \in Headings \cup {0} /\ Range(all[g].body) = Under(HeadOf(all[g]))
      BY <1>2, <1>3 DEF Sectioned
    <3>3. HeadOf(all[j]) = HeadOf(all[g])
      BY <2>6, <3>1, <3>2, UnderOne
    <3>. QED  BY <1>2, <1>3, <3>3 DEF Sectioned
  <2>8. k = h
    <3>1. PICK ps : ps = ss[j]
      OBVIOUS
    <3>2. Divides(all[j], ps)
      BY <1>4, <3>1
    <3>3. i \in Range(ps[k].body) /\ i \in Range(ps[h].body) /\ k \in DOMAIN ps /\ h \in DOMAIN ps
      BY <1>12, <2>2, <2>4, <2>5, <2>7, <3>1
    <3>. QED  BY <3>2, <3>3 DEF Divides
  <2>. QED  BY <2>2, <2>4, <2>7, <2>8
<1>13. ASSUME NEW s \in Range(Complete), NEW i, Holds(s, Expanded(s), i) PROVE Holds(s, t, i)
  <2>1. PICK j \in 1 .. r : all[j] = s
    BY <1>2, <1>3 DEF Sectioned
  <2>2. ss[j] = Expanded(s)
    BY <1>7, <2>1
  <2>3. PICK k \in 1 .. Len(ss[j]) : /\ i \in Range(ss[j][k].body)
                                      /\ ss[j][k].path \in {s.path, Append(s.path, i)}
    BY <1>9, <1>13, <2>2 DEF Holds
  <2>4. at[j - 1] + k \in DOMAIN t /\ t[at[j - 1] + k] = ss[j][k]
    BY <1>9, <1>10
  <2>. QED  BY <2>3, <2>4 DEF Holds
<1>. QED  BY <1>8, <1>9, <1>12, <1>13

\* What is lost is what may be.
LEMMA SplittingSuffices == ASSUME OutlineInv PROVE SplittingLosesOnlyTheRest
<1>1. ASSUME NEW s \in Range(Complete), NEW n \in DOMAIN s.body, NEW i, i = s.body[n]
      PROVE  LET holders == {m \in DOMAIN Pieced : i \in Range(Pieced[m].body)}
             IN  /\ Cardinality(holders) <= 1
                 /\ lines[i].kind # "blank" /\ Retained(s, n) =>
                       \E m \in holders : Pieced[m].path \in {s.path, Append(s.path, i)}
  <2>1. PICK holders : holders = {m \in DOMAIN Pieced : i \in Range(Pieced[m].body)}
    OBVIOUS
  <2>2. \A k, m \in holders : k = m
    BY <2>1, PiecedOnce
  <2>3. Cardinality(holders) <= 1
    <3>1. CASE holders = {}
      BY <3>1, FS_EmptySet
    <3>2. CASE holders # {}
      <4>1. PICK m \in holders : holders = {m}
        BY <2>2, <3>2
      <4>2. Cardinality(holders) = 1
        BY <4>1, FS_Singleton
      <4>. QED  BY <4>2
    <3>. QED  BY <3>1, <3>2
  <2>4. ASSUME lines[i].kind # "blank", Retained(s, n)
        PROVE  \E m \in holders : Pieced[m].path \in {s.path, Append(s.path, i)}
    <3>1. s \in Followers
      BY CompleteIs DEF Range
    <3>2. lines \in Seq(AnyLine)
      BY DEF OutlineInv
    <3>3. Holds(s, Expanded(s), i)
      BY <1>1, <2>4, <3>1, <3>2, ExpandedDivides
    <3>4. Holds(s, Pieced, i)
      BY <3>3, PiecedOnce
    <3>. QED  BY <2>1, <3>4 DEF Holds
  <2>. QED  BY <2>1, <2>3, <2>4
<1>. QED  BY <1>1, Zenon DEF SplittingLosesOnlyTheRest, Retained, Table

\* Whatever lines the files have, and whatever headings their sections have:
\* cutting up a glossary or a list of facts puts no line into two pieces, and
\* loses no line before the table or list, no fact and no row of the table, each
\* of which stays under the headings of its section
\* (_expand_sections_for_retrieval).
THEOREM NothingElseIsLost == MarkdownSpec => []SplittingLosesOnlyTheRest
<1>1. MarkdownInit(None) => OutlineInv
  BY OutlineInit
<1>2. OutlineInv /\ [MarkdownNext]_mdVars => OutlineInv'
  BY OutlineInductive
<1>3. OutlineInv => SplittingLosesOnlyTheRest
  BY SplittingSuffices
<1>. QED  BY <1>1, <1>2, <1>3, PTL DEF MarkdownSpec

-----------------------------------------------------------------------------
(* YAML values *)

\* A value is of one kind.
LEMMA KindsDiffer ==
    /\ \A f : IsMap(Map(f)) /\ Map(f).map = f /\ ~IsList(Map(f)) /\ "text" \notin DOMAIN Map(f)
    /\ \A s : IsList(List(s)) /\ List(s).list = s /\ ~IsMap(List(s)) /\ "text" \notin DOMAIN List(s)
    /\ ~IsMap(Null) /\ ~IsList(Null) /\ "text" \notin DOMAIN Null
    /\ ~IsMap(Raised) /\ ~IsList(Raised) /\ "text" \notin DOMAIN Raised
    /\ Raised # Null
    /\ \A f : Raised # Map(f) /\ Null # Map(f)
    /\ \A s : Raised # List(s) /\ Null # List(s)
<1>1. \A f : DOMAIN Map(f) = {"map"} /\ Map(f).map = f
  BY DEF Map
<1>2. \A s : DOMAIN List(s) = {"list"} /\ List(s).list = s
  BY DEF List
<1>3. DOMAIN Null = {"null"} /\ DOMAIN Raised = {"raised"}
  BY DEF Null, Raised
<1>. QED  BY <1>1, <1>2, <1>3 DEF IsMap, IsList

\* A mapping or a list has nothing of a plain value.
LEMMA PlainOnly ==
    /\ \A f : ~IsText(Map(f)) /\ Spelled(Map(f)) = "" /\ ~Unjoinable(Map(f))
    /\ \A s : ~IsText(List(s)) /\ Spelled(List(s)) = "" /\ ~Unjoinable(List(s))
<1>1. \A f : DOMAIN Map(f) = {"map"} /\ Map(f) # Null
  BY KindsDiffer DEF Map
<1>2. \A s : DOMAIN List(s) = {"list"} /\ List(s) # Null
  BY KindsDiffer DEF List
<1>3. \A v : DOMAIN v = {"map"} \/ DOMAIN v = {"list"} => ~IsText(v) /\ ~IsNumber(v) /\ "text" \notin DOMAIN v
  BY DEF IsText, IsNumber
<1>4. \A v : ~IsNumber(v) /\ "text" \notin DOMAIN v /\ v # Null => Spelled(v) = "" /\ ~Unjoinable(v)
  BY DEF Spelled, Unjoinable
<1>. QED  BY <1>1, <1>2, <1>3, <1>4

\* A reference has no more to it than its pointer.
LEMMA RefIs ==
    \A p : /\ IsMap(Ref(p)) /\ IsRef(Ref(p)) /\ Target(Ref(p)) = p /\ ~IsList(Ref(p))
           /\ "$ref" \in DOMAIN Ref(p).map /\ Raised # Ref(p) /\ Null # Ref(p)
           /\ DOMAIN Ref(p).map = {"$ref"}
<1>. SUFFICES ASSUME NEW p
              PROVE  /\ IsMap(Ref(p)) /\ IsRef(Ref(p)) /\ Target(Ref(p)) = p /\ ~IsList(Ref(p))
                     /\ "$ref" \in DOMAIN Ref(p).map /\ Raised # Ref(p) /\ Null # Ref(p)
                     /\ DOMAIN Ref(p).map = {"$ref"}
  OBVIOUS
<1>. DEFINE f == [key \in {"$ref"} |-> [pointer |-> p]]
<1>1. Ref(p) = Map(f)
  BY DEF Ref, Map
<1>2. DOMAIN f = {"$ref"} /\ f["$ref"].pointer = p
  OBVIOUS
<1>. HIDE DEF f
<1>. QED  BY <1>1, <1>2, KindsDiffer DEF IsRef, Target

\* What stands in a value that is neither a mapping nor a list
LEMMA NoKidsInLeaves ==
    /\ \A n : ~IsMap(n) /\ ~IsList(n) => DOMAIN Kids(n) = {}
    /\ DOMAIN Kids(NoKeys) = {} /\ IsMap(NoKeys) /\ ~IsRef(NoKeys) /\ NoKeys # Raised
<1>1. DOMAIN <<>> = {}
  OBVIOUS
<1>2. IsMap(NoKeys) /\ NoKeys.map = <<>> /\ NoKeys # Raised
  BY KindsDiffer DEF NoKeys
<1>3. ~IsRef(NoKeys)
  BY <1>1, <1>2 DEF IsRef
<1>. QED  BY <1>1, <1>2, <1>3 DEF Kids, Items

-----------------------------------------------------------------------------
(* What stands in a value, level by level *)

\* One level further, below one value and below all of a level
BelowOne(at) ==
    {<<Append(at[1], IF IsMap(at[2]) THEN key ELSE ToString(key - 1)), Kids(at[2])[key]>> : key \in DOMAIN Kids(at[2])}
Below(level) == UNION {BelowOne(at) : at \in level}

\* f holds the levels of n as far as m.
Unrolled(f, n, m) ==
    /\ f = [k \in 0 .. m |-> f[k]]
    /\ f[0] = {<< <<>>, n >>}
    /\ \A k \in 1 .. m : f[k] = Below(f[k - 1])

LEMMA UnrolledExists == \A n : \A m \in Nat : \E f : Unrolled(f, n, m)
<1>. SUFFICES ASSUME NEW n PROVE \A m \in Nat : \E f : Unrolled(f, n, m)
  OBVIOUS
<1>. DEFINE Missing == {m \in Nat : ~ \E f : Unrolled(f, n, m)}
<1>. SUFFICES ASSUME Missing # {} PROVE FALSE
  OBVIOUS
<1>1. PICK m \in Missing : \A i \in Missing : m <= i
  <2>1. Missing \in SUBSET Nat
    OBVIOUS
  <2>. HIDE DEF Missing
  <2>. QED  BY <2>1, LeastMember
<1>2. CASE m = 0
  <2>. DEFINE f == [k \in 0 .. 0 |-> {<< <<>>, n >>}]
  <2>1. Unrolled(f, n, 0)
    <3>1. f = [k \in 0 .. 0 |-> f[k]] /\ f[0] = {<< <<>>, n >>}
      OBVIOUS
    <3>. HIDE DEF f
    <3>. QED  BY <3>1 DEF Unrolled
  <2>. QED  BY <2>1, <1>1, <1>2
<1>3. CASE m # 0
  <2>1. m \in Nat \ {0} /\ m - 1 \in Nat /\ m - 1 \notin Missing
    BY <1>1, <1>3
  <2>2. PICK f : Unrolled(f, n, m - 1)
    BY <2>1
  <2>. DEFINE g == [k \in 0 .. m |-> IF k = m THEN Below(f[m - 1]) ELSE f[k]]
  <2>3. g = [k \in 0 .. m |-> g[k]]
    OBVIOUS
  <2>4. g[0] = {<< <<>>, n >>}
    BY <2>1, <2>2 DEF Unrolled
  <2>5. ASSUME NEW k \in 1 .. m PROVE g[k] = Below(g[k - 1])
    <3>1. g[k - 1] = f[k - 1]
      BY <2>1
    <3>2. CASE k = m
      <4>1. g[k] = Below(f[m - 1])
        BY <2>1, <3>2
      <4>. HIDE DEF g
      <4>. QED  BY <3>1, <3>2, <4>1
    <3>3. CASE k # m
      <4>1. k \in 1 .. m - 1 /\ g[k] = f[k]
        BY <2>1, <3>3
      <4>. HIDE DEF g
      <4>. QED  BY <2>2, <3>1, <4>1 DEF Unrolled
    <3>. QED  BY <3>2, <3>3
  <2>6. Unrolled(g, n, m)
    <3>. HIDE DEF g
    <3>. QED  BY <2>3, <2>4, <2>5 DEF Unrolled
  <2>. QED  BY <1>1, <2>6
<1>. QED  BY <1>2, <1>3

\* The definition of Levels, read as what it says of its values.
LEMMA LevelsAre == \A n : Unrolled(Levels(n), n, RecursionLimit)
<1>. SUFFICES ASSUME NEW n PROVE Unrolled(Levels(n), n, RecursionLimit)
  OBVIOUS
<1>. DEFINE Body(f) == [k \in 0 .. RecursionLimit |->
            IF k = 0 THEN {<< <<>>, n >>}
            ELSE UNION {{<<Append(at[1], IF IsMap(at[2]) THEN key ELSE ToString(key - 1)), Kids(at[2])[key]>> :
                            key \in DOMAIN Kids(at[2])} : at \in f[k - 1]}]
<1>1. Levels(n) = CHOOSE f : f = Body(f)
  BY DEF Levels
<1>2. \A f : Body(f) = [k \in 0 .. RecursionLimit |-> IF k = 0 THEN {<< <<>>, n >>} ELSE Below(f[k - 1])]
  BY DEF Below, BelowOne
<1>. HIDE DEF Body
<1>3. PICK f : Unrolled(f, n, RecursionLimit)
  BY UnrolledExists, RecursionLimitAssumption
<1>4. f = Body(f)
  <2>1. f = [k \in 0 .. RecursionLimit |-> f[k]]
    BY <1>3 DEF Unrolled
  <2>2. ASSUME NEW k \in 0 .. RecursionLimit
        PROVE  f[k] = IF k = 0 THEN {<< <<>>, n >>} ELSE Below(f[k - 1])
    <3>1. CASE k = 0
      BY <1>3, <3>1 DEF Unrolled
    <3>2. CASE k # 0
      <4>1. k \in 1 .. RecursionLimit
        BY <3>2, RecursionLimitAssumption
      <4>. QED  BY <1>3, <3>2, <4>1 DEF Unrolled
    <3>. QED  BY <3>1, <3>2
  <2>. QED  BY <1>2, <2>1, <2>2
<1>5. Levels(n) = Body(Levels(n))
  BY <1>1, <1>4, Zenon
<1>6. Levels(n) = [k \in 0 .. RecursionLimit |-> IF k = 0 THEN {<< <<>>, n >>} ELSE Below(Levels(n)[k - 1])]
  BY <1>2, <1>5
<1>. QED  BY <1>6, RecursionLimitAssumption DEF Unrolled

\* The values that many levels into n
Held(n, k) == {at[2] : at \in Levels(n)[k]}

\* The values one level further
LEMMA HeldIs ==
    ASSUME NEW n
    PROVE  /\ Held(n, 0) = {n}
           /\ \A k \in 1 .. RecursionLimit : Held(n, k) = UNION {Range(Kids(v)) : v \in Held(n, k - 1)}
<1>1. /\ Levels(n)[0] = {<< <<>>, n >>}
      /\ \A k \in 1 .. RecursionLimit : Levels(n)[k] = Below(Levels(n)[k - 1])
  BY LevelsAre DEF Unrolled
<1>2. Held(n, 0) = {n}
  BY <1>1 DEF Held
<1>3. ASSUME NEW level PROVE {at[2] : at \in Below(level)} = UNION {Range(Kids(v)) : v \in {at[2] : at \in level}}
  <2>. DEFINE One(at) == {y[2] : y \in BelowOne(at)}
              Two(at) == Range(Kids(at[2]))
  <2>1. ASSUME NEW at PROVE One(at) = Two(at)
    <3>1. PICK kids : kids = Kids(at[2])
      OBVIOUS
    <3>2. PICK to : \A key \in DOMAIN kids : to[key] = <<Append(at[1], IF IsMap(at[2]) THEN key ELSE ToString(key - 1)), kids[key]>>
      <4>. DEFINE f == [key \in DOMAIN kids |-> <<Append(at[1], IF IsMap(at[2]) THEN key ELSE ToString(key - 1)), kids[key]>>]
      <4>1. \A key \in DOMAIN kids : f[key] = <<Append(at[1], IF IsMap(at[2]) THEN key ELSE ToString(key - 1)), kids[key]>>
        OBVIOUS
      <4>. HIDE DEF f
      <4>. QED  BY <4>1
    <3>3. BelowOne(at) = {to[key] : key \in DOMAIN kids}
      BY <3>1, <3>2 DEF BelowOne
    <3>4. \A key \in DOMAIN kids : to[key][2] = kids[key]
      BY <3>2
    <3>. QED  BY <3>1, <3>3, <3>4 DEF Range
  <2>2. \A x : (\E y \in Below(level) : x = y[2]) <=> \E at \in level : x \in One(at)
    BY DEF Below
  <2>3. \A x : (\E y \in Below(level) : x = y[2]) <=> \E at \in level : x \in Two(at)
    <3>. HIDE DEF One, Two
    <3>. QED  BY <2>1, <2>2
  <2>. QED  BY <2>3
<1>4. ASSUME NEW k \in 1 .. RecursionLimit
      PROVE  Held(n, k) = UNION {Range(Kids(v)) : v \in Held(n, k - 1)}
  BY <1>1, <1>3 DEF Held
<1>. QED  BY <1>2, <1>4

\* What stands in n is what stands in its kids, one level less deep.
LEMMA HeldShifts ==
    ASSUME NEW n
    PROVE  \A k \in 0 .. RecursionLimit - 1 : Held(n, k + 1) = UNION {Held(c, k) : c \in Range(Kids(n))}
<1>. DEFINE Shift(k) == Held(n, k + 1) = UNION {Held(c, k) : c \in Range(Kids(n))}
            Wrong == {k \in 0 .. RecursionLimit - 1 : ~Shift(k)}
<1>. SUFFICES ASSUME Wrong # {} PROVE FALSE
  OBVIOUS
<1>1. PICK k \in Wrong : \A i \in Wrong : k <= i
  <2>1. Wrong \in SUBSET Nat
    BY RecursionLimitAssumption
  <2>. HIDE DEF Wrong
  <2>. QED  BY <2>1, LeastMember
<1>2. k \in 0 .. RecursionLimit - 1 /\ k + 1 \in 1 .. RecursionLimit /\ (k + 1) - 1 = k
  BY <1>1, RecursionLimitAssumption
<1>3. Held(n, k + 1) = UNION {Range(Kids(v)) : v \in Held(n, k)}
  BY <1>2, HeldIs
<1>4. CASE k = 0
  <2>1. Held(n, k) = {n} /\ \A c : Held(c, k) = {c}
    BY <1>4, HeldIs
  <2>. QED  BY <1>1, <1>3, <2>1
<1>5. CASE k # 0
  <2>1. k - 1 \in 0 .. RecursionLimit - 1 /\ (k - 1) + 1 = k /\ k \in 1 .. RecursionLimit
    BY <1>2, <1>5, RecursionLimitAssumption
  <2>2. k - 1 \notin Wrong
    BY <1>1, <1>2, <2>1
  <2>3. Held(n, k) = UNION {Held(c, k - 1) : c \in Range(Kids(n))}
    BY <2>1, <2>2
  <2>4. \A c : Held(c, k) = UNION {Range(Kids(v)) : v \in Held(c, k - 1)}
    BY <2>1, HeldIs
  <2>5. Held(n, k + 1) = UNION {Held(c, k) : c \in Range(Kids(n))}
    BY <1>3, <2>3, <2>4
  <2>. QED  BY <1>1, <2>5
<1>. QED  BY <1>4, <1>5

\* Below a level with nothing in it there is nothing.
LEMMA HeldEnds ==
    ASSUME NEW n, NEW h \in 0 .. RecursionLimit, Held(n, h) = {}
    PROVE  \A k \in h .. RecursionLimit : Held(n, k) = {}
<1>. DEFINE Wrong == {k \in h .. RecursionLimit : Held(n, k) # {}}
<1>. SUFFICES ASSUME Wrong # {} PROVE FALSE
  OBVIOUS
<1>1. PICK k \in Wrong : \A i \in Wrong : k <= i
  <2>1. Wrong \in SUBSET Nat
    BY RecursionLimitAssumption
  <2>. HIDE DEF Wrong
  <2>. QED  BY <2>1, LeastMember
<1>2. k # h /\ k \in 1 .. RecursionLimit /\ k - 1 \in h .. RecursionLimit
  BY <1>1, RecursionLimitAssumption
<1>3. Held(n, k - 1) = {}
  BY <1>1, <1>2
<1>4. Held(n, k) = {}
  BY <1>2, <1>3, HeldIs
<1>. QED  BY <1>1, <1>4

\* Whatever level is chosen as the height, Values has them all.
LEMMA ValuesAre ==
    ASSUME NEW n, NEW h \in 0 .. RecursionLimit, Held(n, h) = {}
    PROVE  /\ Values(n) = UNION {Held(n, k) : k \in 0 .. RecursionLimit}
           /\ Height(n) \in 0 .. RecursionLimit /\ Held(n, Height(n)) = {}
<1>1. Levels(n)[h] = {}
  BY DEF Held
<1>2. Height(n) \in 0 .. RecursionLimit /\ Levels(n)[Height(n)] = {}
  BY <1>1 DEF Height
<1>3. Held(n, Height(n)) = {}
  BY <1>2 DEF Held
<1>4. \A k \in Height(n) .. RecursionLimit : Held(n, k) = {}
  BY <1>2, <1>3, HeldEnds
<1>5. Values(n) = UNION {Held(n, k) : k \in 0 .. Height(n)}
  <2>1. Within(n) = UNION {Levels(n)[k] : k \in 0 .. Height(n)}
    BY DEF Within
  <2>. QED  BY <2>1 DEF Values, Held
<1>6. ASSUME NEW k \in 0 .. RecursionLimit, k \notin 0 .. Height(n) PROVE Held(n, k) = {}
  <2>1. k \in Height(n) .. RecursionLimit
    BY <1>2, <1>6, RecursionLimitAssumption
  <2>. QED  BY <1>4, <2>1
<1>7. \A k \in 0 .. Height(n) : k \in 0 .. RecursionLimit
  BY <1>2, RecursionLimitAssumption
<1>. QED  BY <1>2, <1>3, <1>5, <1>6, <1>7

\* What stands in a value is itself and what stands in its kids.
LEMMA ValuesOf ==
    ASSUME NEW n, NEW h \in 1 .. RecursionLimit, Held(n, h) = {}
    PROVE  /\ n \in Values(n)
           /\ \A c \in Range(Kids(n)) : Held(c, h - 1) = {}
           /\ Values(n) = {n} \cup UNION {Values(c) : c \in Range(Kids(n))}
<1>1. h - 1 \in 0 .. RecursionLimit - 1 /\ h - 1 \in 0 .. RecursionLimit /\ (h - 1) + 1 = h /\ h \in 0 .. RecursionLimit
  BY RecursionLimitAssumption
<1>2. ASSUME NEW c \in Range(Kids(n)) PROVE Held(c, h - 1) = {}
  <2>1. Held(n, (h - 1) + 1) = UNION {Held(d, h - 1) : d \in Range(Kids(n))}
    BY <1>1, HeldShifts
  <2>2. \A x \in Held(c, h - 1) : x \in Held(n, h)
    BY <1>1, <2>1
  <2>. QED  BY <2>2
<1>3. Values(n) = UNION {Held(n, k) : k \in 0 .. RecursionLimit}
  BY <1>1, ValuesAre
<1>4. ASSUME NEW c \in Range(Kids(n)) PROVE Values(c) = UNION {Held(c, k) : k \in 0 .. RecursionLimit}
  BY <1>1, <1>2, ValuesAre
<1>5. \A k \in 1 .. RecursionLimit : k - 1 \in 0 .. RecursionLimit - 1 /\ (k - 1) + 1 = k
  BY RecursionLimitAssumption
<1>6. ASSUME NEW c \in Range(Kids(n)) PROVE Held(c, RecursionLimit) = {}
  <2>1. RecursionLimit \in h - 1 .. RecursionLimit
    BY <1>1, RecursionLimitAssumption
  <2>. QED  BY <1>1, <1>2, <2>1, HeldEnds
<1>7. 0 \in 0 .. RecursionLimit /\ Held(n, 0) = {n}
  BY HeldIs, RecursionLimitAssumption
<1>8. ASSUME NEW v \in Values(n), v # n PROVE \E c \in Range(Kids(n)) : v \in Values(c)
  <2>1. PICK k \in 0 .. RecursionLimit : v \in Held(n, k)
    BY <1>3
  <2>2. k # 0
    BY <1>7, <1>8, <2>1
  <2>3. k \in 1 .. RecursionLimit
    BY <2>2
  <2>4. PICK c \in Range(Kids(n)) : v \in Held(c, k - 1)
    BY <1>5, <2>1, <2>3, HeldShifts
  <2>5. k - 1 \in 0 .. RecursionLimit
    BY <2>3, RecursionLimitAssumption
  <2>. QED  BY <1>4, <2>4, <2>5
<1>9. ASSUME NEW c \in Range(Kids(n)), NEW v \in Values(c) PROVE v \in Values(n)
  <2>1. PICK k \in 0 .. RecursionLimit : v \in Held(c, k)
    BY <1>4
  <2>2. k # RecursionLimit
    BY <1>6, <2>1
  <2>3. k \in 0 .. RecursionLimit - 1 /\ k + 1 \in 0 .. RecursionLimit
    BY <2>2, RecursionLimitAssumption
  <2>4. v \in Held(n, k + 1)
    BY <2>1, <2>3, HeldShifts
  <2>. QED  BY <1>3, <2>3, <2>4
<1>10. n \in Values(n)
  BY <1>3, <1>7
<1>. QED  BY <1>2, <1>8, <1>9, <1>10

\* How deep a value is, told by the levels below it
Rank(v) == CHOOSE h \in 1 .. RecursionLimit : Held(v, h) = {} /\ \A j \in 1 .. RecursionLimit : Held(v, j) = {} => h <= j

\* A value with nothing in it h levels down has a rank up to h, and what stands
\* in it a smaller one.
LEMMA RankIs ==
    ASSUME NEW v, NEW h \in 0 .. RecursionLimit, Held(v, h) = {}
    PROVE  /\ Rank(v) \in 1 .. h /\ Held(v, Rank(v)) = {}
           /\ \A c \in Range(Kids(v)) : Held(c, h) = {} /\ Rank(c) < Rank(v)
<1>. DEFINE Least(u, r) == /\ r \in 1 .. RecursionLimit /\ Held(u, r) = {}
                           /\ \A j \in 1 .. RecursionLimit : Held(u, j) = {} => r <= j
<1>1. ASSUME NEW u, NEW k \in 0 .. RecursionLimit, Held(u, k) = {} PROVE Least(u, Rank(u)) /\ Rank(u) <= k
  <2>. DEFINE Empty == {j \in 1 .. RecursionLimit : Held(u, j) = {}}
  <2>1. k # 0
    <3>1. Held(u, 0) # {}
      BY HeldIs
    <3>. QED  BY <1>1, <3>1
  <2>2. k \in Empty /\ Empty \in SUBSET Nat
    BY <1>1, <2>1, RecursionLimitAssumption
  <2>3. PICK r \in Empty : \A j \in Empty : r <= j
    <3>. HIDE DEF Empty
    <3>. QED  BY <2>2, LeastMember
  <2>4. Least(u, r)
    BY <2>3
  <2>5. Least(u, Rank(u))
    <3>1. r \in 1 .. RecursionLimit
      BY <2>4
    <3>. QED  BY <2>4, <3>1 DEF Rank
  <2>. QED  BY <2>2, <2>5
<1>2. Least(v, Rank(v)) /\ Rank(v) <= h
  BY <1>1
<1>3. Rank(v) \in 1 .. h /\ Rank(v) \in 1 .. RecursionLimit /\ Held(v, Rank(v)) = {}
  BY <1>2, RecursionLimitAssumption
<1>4. ASSUME NEW c \in Range(Kids(v)) PROVE Held(c, h) = {} /\ Rank(c) < Rank(v)
  <2>1. Held(c, Rank(v) - 1) = {}
    BY <1>3, ValuesOf
  <2>2. Rank(v) - 1 \in 0 .. RecursionLimit /\ h \in Rank(v) - 1 .. RecursionLimit
    BY <1>3, RecursionLimitAssumption
  <2>3. Held(c, h) = {}
    BY <2>1, <2>2, HeldEnds
  <2>4. Rank(c) <= Rank(v) - 1 /\ Rank(c) \in 1 .. RecursionLimit
    BY <1>1, <2>1, <2>2
  <2>. QED  BY <1>3, <2>3, <2>4, RecursionLimitAssumption
<1>. QED  BY <1>3, <1>4

\* What stands in the values of n stands in n.
LEMMA ValuesStay ==
    ASSUME NEW n, NEW h \in 0 .. RecursionLimit, Held(n, h) = {}
    PROVE  /\ n \in Values(n)
           /\ \A v \in Values(n) : /\ Held(v, h) = {}
                                   /\ \A c \in Range(Kids(v)) : c \in Values(n)
<1>1. Values(n) = UNION {Held(n, k) : k \in 0 .. RecursionLimit}
  BY ValuesAre
<1>. DEFINE Good(k) == \A v \in Held(n, k) : Held(v, h) = {}
            Wrong == {k \in 0 .. RecursionLimit : ~Good(k)}
<1>2. Wrong = {}
  <2>. SUFFICES ASSUME Wrong # {} PROVE FALSE
    OBVIOUS
  <2>1. PICK k \in Wrong : \A j \in Wrong : k <= j
    <3>1. Wrong \in SUBSET Nat
      BY RecursionLimitAssumption
    <3>. HIDE DEF Wrong
    <3>. QED  BY <3>1, LeastMember
  <2>2. k \in 0 .. RecursionLimit /\ ~Good(k)
    BY <2>1
  <2>3. k # 0
    BY <2>2, HeldIs
  <2>4. k \in 1 .. RecursionLimit /\ k - 1 \in 0 .. RecursionLimit /\ ~ k <= k - 1
    BY <2>2, <2>3, RecursionLimitAssumption
  <2>5. Good(k - 1)
    BY <2>1, <2>4
  <2>6. ASSUME NEW v \in Held(n, k) PROVE Held(v, h) = {}
    <3>1. Held(n, k) = UNION {Range(Kids(u)) : u \in Held(n, k - 1)}
      BY <2>4, HeldIs
    <3>2. PICK u \in Held(n, k - 1) : v \in Range(Kids(u))
      BY <3>1
    <3>. QED  BY <2>5, <3>2, RankIs
  <2>. QED  BY <2>2, <2>6
<1>3. ASSUME NEW v \in Values(n) PROVE Held(v, h) = {}
  BY <1>1, <1>2
<1>4. ASSUME NEW v \in Values(n), NEW c \in Range(Kids(v)) PROVE c \in Values(n)
  <2>1. PICK k \in 0 .. RecursionLimit : v \in Held(n, k)
    BY <1>1
  <2>2. Held(n, RecursionLimit) = {}
    <3>1. RecursionLimit \in h .. RecursionLimit
      BY RecursionLimitAssumption
    <3>. QED  BY <3>1, HeldEnds
  <2>3. k # RecursionLimit
    BY <2>1, <2>2
  <2>4. k + 1 \in 1 .. RecursionLimit /\ (k + 1) - 1 = k /\ k + 1 \in 0 .. RecursionLimit
    BY <2>3, RecursionLimitAssumption
  <2>5. Held(n, k + 1) = UNION {Range(Kids(u)) : u \in Held(n, (k + 1) - 1)}
    BY <2>4, HeldIs
  <2>6. c \in Held(n, k + 1)
    BY <2>1, <2>4, <2>5
  <2>. QED  BY <1>1, <2>4, <2>6
<1>5. n \in Values(n)
  <2>1. n \in Held(n, 0) /\ 0 \in 0 .. RecursionLimit
    BY HeldIs, RecursionLimitAssumption
  <2>. QED  BY <1>1, <2>1
<1>. QED  BY <1>3, <1>4, <1>5

\* A value is a mapping, a list, a reference as it is written.
WellFormed(v) ==
    /\ IsMap(v) => v = Map(v.map) /\ IsFiniteSet(DOMAIN v.map)
    /\ IsList(v) => v = List(v.list) /\ DOMAIN v.list = 1 .. Len(v.list) /\ Len(v.list) \in Nat
    /\ IsRef(v) => v = Ref(Target(v))

\* The pointers of a value are its own, if it is a reference, or those of what
\* stands in it.
LEMMA PointersOf ==
    ASSUME NEW v, NEW h \in 0 .. RecursionLimit, Held(v, h) = {}, IsRef(v) => v = Ref(Target(v))
    PROVE  Pointers(v) = IF IsRef(v) THEN {Target(v)} ELSE UNION {Pointers(c) : c \in Range(Kids(v))}
<1>1. h \in 1 .. RecursionLimit
  <2>1. h # 0
    BY HeldIs
  <2>. QED  BY <2>1, RecursionLimitAssumption
<1>2. Values(v) = {v} \cup UNION {Values(c) : c \in Range(Kids(v))}
  BY <1>1, ValuesOf
<1>3. CASE IsRef(v)
  <2>. DEFINE kid == [pointer |-> Target(v)]
  <2>1. v = Ref(Target(v)) /\ v.map = [key \in {"$ref"} |-> kid] /\ IsMap(v)
    BY <1>3 DEF Ref, IsMap
  <2>2. ~IsMap(kid) /\ ~IsList(kid)
    BY DEF IsMap, IsList
  <2>. HIDE DEF kid
  <2>3. Kids(v) = [key \in {"$ref"} |-> kid]
    BY <2>1 DEF Kids
  <2>4. Range(Kids(v)) = {kid}
    BY <2>3 DEF Range
  <2>5. Held(kid, h) = {}
    BY <2>4, RankIs
  <2>6. Range(Kids(kid)) = {}
    BY <2>2, NoKidsInLeaves DEF Range
  <2>7. Values(kid) = {kid} \cup UNION {Values(c) : c \in Range(Kids(kid))}
    BY <1>1, <2>5, ValuesOf
  <2>8. Values(v) = {v, kid}
    BY <1>2, <2>4, <2>6, <2>7
  <2>9. ~IsRef(kid)
    BY <2>2 DEF IsRef
  <2>. QED  BY <1>3, <2>8, <2>9 DEF Pointers
<1>4. CASE ~IsRef(v)
  <2>1. {w \in Values(v) : IsRef(w)} = UNION {{w \in Values(c) : IsRef(w)} : c \in Range(Kids(v))}
    BY <1>2, <1>4
  <2>. DEFINE refs(c) == {w \in Values(c) : IsRef(w)}
  <2>2. refs(v) = UNION {refs(c) : c \in Range(Kids(v))} /\ \A c : Pointers(c) = {Target(w) : w \in refs(c)}
    BY <2>1 DEF Pointers
  <2>. HIDE DEF refs
  <2>3. Pointers(v) = UNION {Pointers(c) : c \in Range(Kids(v))}
    BY <2>2
  <2>. QED  BY <1>4, <2>3
<1>. QED  BY <1>3, <1>4

\* H bounds how deep the values are, where references are left as they are.
Shallow(refs, H) ==
    /\ H \in Nat /\ (Cardinality(DOMAIN refs.at) + 1) * (H + 1) < RecursionLimit
    /\ \A v \in refs.values : /\ Rank(v) \in 1 .. H /\ Held(v, Rank(v)) = {}
                              /\ \A c \in Range(Kids(v)) : Rank(c) < Rank(v)

\* What the pointers lead to
Linked(refs) ==
    /\ IsFiniteSet(DOMAIN refs.at)
    /\ \A t \in DOMAIN refs.at : refs.at[t] \in refs.values \cup {Raised}
    /\ \A v \in refs.values :
          /\ Pointers(v) = IF IsRef(v) THEN {Target(v)} ELSE UNION {Pointers(c) : c \in Range(Kids(v))}
          /\ Pointers(v) \subseteq DOMAIN refs.at

\* What the references of a readable description are resolved in
Fine(refs) ==
    /\ IsFiniteSet(refs.values) /\ Cardinality(refs.values) < RecursionLimit /\ Raised \notin refs.values
    /\ \A v \in refs.values : WellFormed(v) /\ Range(Kids(v)) \subseteq refs.values
    /\ Linked(refs)
    /\ \E H : Shallow(refs, H)

\* A description that can be read has finitely many values and pointers, none
\* deeper than the limit on recursion allows.
LEMMA ReadableIsFine ==
    ASSUME NEW api, Readable(api)
    PROVE  Fine(RefMap(api)) /\ RefMap(api).values = Values(api) /\ api \in Values(api)
<1>. DEFINE V == Values(api)
            P == Pointers(api)
            H == Height(api)
            ends(t) == {at \in Within(api) : at[1] = t}
            At == [t \in P |-> IF ends(t) = {} THEN Raised ELSE (CHOOSE at \in ends(t) : TRUE)[2]]
            refs == RefMap(api)
<1>1. refs.values = V /\ refs.at = At
  BY DEF RefMap
<1>2. /\ (Cardinality(P) + 1) * (H + 1) < RecursionLimit
      /\ IsFiniteSet(V) /\ Cardinality(V) < RecursionLimit /\ Raised \notin V
      /\ \A v \in V : /\ IsMap(v) => v = Map(v.map) /\ IsFiniteSet(DOMAIN v.map)
                      /\ IsList(v) => v = List(v.list) /\ v.list \in Seq(V)
                      /\ IsRef(v) => v = Ref(Target(v))
  BY DEF Readable, Finite
<1>3. H \in 0 .. RecursionLimit /\ Held(api, H) = {}
  <2>1. PICK h \in 0 .. RecursionLimit : Held(api, h) = {}
    BY DEF Readable, Finite, Held
  <2>. QED  BY <2>1, ValuesAre
<1>. HIDE DEF H, V, At, P
<1>4. api \in V /\ \A v \in V : Held(v, H) = {} /\ Range(Kids(v)) \subseteq V
  <2>1. \A v \in V : \A c \in Range(Kids(v)) : c \in V
    BY <1>3, ValuesStay DEF V
  <2>. QED  BY <1>3, <2>1, ValuesStay DEF V
<1>5. ASSUME NEW v \in V PROVE WellFormed(v)
  <2>1. v.list \in Seq(V) => DOMAIN v.list = 1 .. Len(v.list) /\ Len(v.list) \in Nat
    OBVIOUS
  <2>. QED  BY <1>2, <2>1 DEF WellFormed
<1>6. ASSUME NEW v \in V
      PROVE  /\ Rank(v) \in 1 .. H /\ Held(v, Rank(v)) = {}
             /\ \A c \in Range(Kids(v)) : Rank(c) < Rank(v)
             /\ Pointers(v) = IF IsRef(v) THEN {Target(v)} ELSE UNION {Pointers(c) : c \in Range(Kids(v))}
  BY <1>2, <1>3, <1>4, RankIs, PointersOf
<1>7. ASSUME NEW v \in V PROVE Pointers(v) \subseteq P
  <2>. DEFINE Wrong == {h \in Nat : \E u \in V : Rank(u) = h /\ ~ Pointers(u) \subseteq P}
  <2>1. Wrong = {}
    <3>. SUFFICES ASSUME Wrong # {} PROVE FALSE
      OBVIOUS
    <3>1. PICK h \in Wrong : \A j \in Wrong : h <= j
      <4>1. Wrong \in SUBSET Nat
        OBVIOUS
      <4>. HIDE DEF Wrong
      <4>. QED  BY <4>1, LeastMember
    <3>2. PICK u \in V : Rank(u) = h /\ ~ Pointers(u) \subseteq P
      BY <3>1
    <3>3. CASE IsRef(u)
      <4>1. Target(u) \in P
        BY <3>3 DEF P, V, Pointers
      <4>. QED  BY <1>6, <3>2, <3>3, <4>1
    <3>4. CASE ~IsRef(u)
      <4>1. PICK c \in Range(Kids(u)) : ~ Pointers(c) \subseteq P
        BY <1>6, <3>2, <3>4
      <4>2. c \in V /\ Rank(c) < h /\ Rank(c) \in Nat /\ h \in Nat
        BY <1>4, <1>6, <3>2, <4>1
      <4>. QED  BY <3>1, <4>1, <4>2
    <3>. QED  BY <3>3, <3>4
  <2>2. Rank(v) \in Nat
    BY <1>3, <1>6
  <2>. QED  BY <2>1, <2>2
<1>8. DOMAIN At = P /\ \A t \in P : At[t] \in V \cup {Raised}
  <2>1. ASSUME NEW t \in P, ends(t) # {} PROVE (CHOOSE at \in ends(t) : TRUE)[2] \in V
    <3>1. PICK at : at = CHOOSE x \in ends(t) : TRUE
      OBVIOUS
    <3>2. at \in Within(api)
      BY <2>1, <3>1
    <3>. QED  BY <3>1, <3>2 DEF V, Values
  <2>. HIDE DEF ends
  <2>. QED  BY <2>1 DEF At
<1>9. IsFiniteSet(P)
  <2>. DEFINE R == {w \in V : IsRef(w)}
              f == [w \in R |-> Target(w)]
  <2>1. IsFiniteSet(R)
    BY <1>2, FS_Subset
  <2>2. P = {Target(w) : w \in R}
    BY DEF P, V, Pointers
  <2>3. f \in Surjection(R, P)
    BY <2>2 DEF Surjection
  <2>. HIDE DEF f, R
  <2>. QED  BY <2>1, <2>3, FS_Surjection
<1>10. Linked(refs)
  BY <1>1, <1>6, <1>7, <1>8, <1>9 DEF Linked
<1>11. Shallow(refs, H)
  BY <1>1, <1>2, <1>3, <1>6, <1>8 DEF Shallow
<1>. QED  BY <1>1, <1>2, <1>4, <1>5, <1>10, <1>11 DEF Fine, V

\* The calls of deep_resolve
Calls(refs) == refs.values \X SUBSET DOMAIN refs.at

Resolver(refs, prev) == [c \in Calls(refs) |-> ResolveBy(refs, prev, c[1], c[2])]

\* g holds what calls nesting up to m deep return.
ResolvedTo(refs, g, m) ==
    /\ g[0] = [c \in Calls(refs) |-> Raised]
    /\ \A k \in 1 .. m : g[k] = Resolver(refs, g[k - 1])

\* Calls may nest as deep as one likes.
LEMMA ResolvedToExists == \A refs : \A m \in Nat : \E g : ResolvedTo(refs, g, m)
<1>. SUFFICES ASSUME NEW refs PROVE \A m \in Nat : \E g : ResolvedTo(refs, g, m)
  OBVIOUS
<1>. DEFINE Missing == {m \in Nat : ~ \E g : ResolvedTo(refs, g, m)}
<1>. SUFFICES ASSUME Missing # {} PROVE FALSE
  OBVIOUS
<1>1. PICK m \in Missing : \A i \in Missing : m <= i
  <2>1. Missing \in SUBSET Nat
    OBVIOUS
  <2>. HIDE DEF Missing
  <2>. QED  BY <2>1, LeastMember
<1>2. CASE m = 0
  <2>. DEFINE g == [k \in 0 .. 0 |-> [c \in Calls(refs) |-> Raised]]
  <2>1. g[0] = [c \in Calls(refs) |-> Raised]
    OBVIOUS
  <2>. HIDE DEF g
  <2>2. ResolvedTo(refs, g, 0)
    BY <2>1 DEF ResolvedTo
  <2>. QED  BY <1>1, <1>2, <2>2
<1>3. CASE m # 0
  <2>1. m \in Nat \ {0} /\ m - 1 \in Nat /\ m - 1 \notin Missing
    BY <1>1, <1>3
  <2>2. PICK g : ResolvedTo(refs, g, m - 1)
    BY <2>1
  <2>. DEFINE h == [k \in 0 .. m |-> IF k = m THEN Resolver(refs, g[m - 1]) ELSE g[k]]
  <2>3. h[m] = Resolver(refs, g[m - 1]) /\ \A k \in 0 .. m - 1 : h[k] = g[k]
    BY <2>1
  <2>. HIDE DEF h
  <2>4. h[0] = [c \in Calls(refs) |-> Raised]
    BY <2>1, <2>2, <2>3 DEF ResolvedTo
  <2>5. ASSUME NEW k \in 1 .. m PROVE h[k] = Resolver(refs, h[k - 1])
    <3>1. k - 1 \in 0 .. m - 1 /\ h[k - 1] = g[k - 1]
      BY <2>1, <2>3
    <3>2. CASE k = m
      BY <2>3, <3>1, <3>2
    <3>3. CASE k # m
      <4>1. k \in 1 .. m - 1 /\ k \in 0 .. m - 1
        BY <2>1, <3>3
      <4>. QED  BY <2>2, <2>3, <3>1, <4>1 DEF ResolvedTo
    <3>. QED  BY <3>2, <3>3
  <2>6. ResolvedTo(refs, h, m)
    BY <2>4, <2>5 DEF ResolvedTo
  <2>. QED  BY <1>1, <2>6
<1>. QED  BY <1>2, <1>3

\* R[k][<<n, seen>>] is what a call returns that may nest k deep.
Resolving(refs, R) ==
    \A n \in refs.values, seen \in SUBSET DOMAIN refs.at :
        /\ R[0][<<n, seen>>] = Raised
        /\ \A k \in 1 .. RecursionLimit : R[k][<<n, seen>>] = ResolveBy(refs, R[k - 1], n, seen)

\* The definition of DeepResolve, read as what it says of its values.
LEMMA ResolvingIs ==
    ASSUME NEW refs
    PROVE  \E R : Resolving(refs, R) /\ \A n : DeepResolve(refs, n) = R[RecursionLimit][<<n, {}>>]
<1>. DEFINE K == 0 .. RecursionLimit
            Body(f) == [k \in K |-> [call \in refs.values \X SUBSET DOMAIN refs.at |->
                            IF k = 0 THEN Raised ELSE ResolveBy(refs, f[k - 1], call[1], call[2])]]
            R == CHOOSE f : f = Body(f)
<1>1. \A n : DeepResolve(refs, n) = R[RecursionLimit][<<n, {}>>]
  BY Zenon DEF DeepResolve
<1>2. PICK g : ResolvedTo(refs, g, RecursionLimit)
  BY ResolvedToExists, RecursionLimitAssumption
<1>. DEFINE F == [k \in K |-> g[k]]
            Line(f, k) == [call \in Calls(refs) |->
                              IF k = 0 THEN Raised ELSE ResolveBy(refs, f[k - 1], call[1], call[2])]
<1>3. \A f : Body(f) = [k \in K |-> Line(f, k)]
  BY Zenon DEF Calls
<1>4. F = [k \in K |-> F[k]] /\ \A k \in K : F[k] = g[k]
  OBVIOUS
<1>. HIDE DEF F, Body, R
<1>5. ASSUME NEW k \in K PROVE F[k] = Line(F, k)
  <2>1. CASE k = 0
    BY <1>2, <1>4, <2>1 DEF ResolvedTo
  <2>2. CASE k # 0
    <3>1. k \in 1 .. RecursionLimit /\ k - 1 \in K
      BY <2>2, RecursionLimitAssumption
    <3>2. g[k] = Resolver(refs, F[k - 1])
      BY <1>2, <1>4, <3>1 DEF ResolvedTo
    <3>3. Line(F, k) = Resolver(refs, F[k - 1])
      BY <2>2 DEF Resolver
    <3>. QED  BY <1>4, <3>2, <3>3
  <2>. QED  BY <2>1, <2>2
<1>. HIDE DEF Line, K
<1>6. F = Body(F)
  <2>1. [k \in K |-> F[k]] = [k \in K |-> Line(F, k)]
    BY <1>5
  <2>. QED  BY <1>3, <1>4, <2>1
<1>7. R = Body(R)
  BY <1>6, Zenon DEF R
<1>8. ASSUME NEW k \in K PROVE R[k] = Line(R, k)
  <2>1. R = [j \in K |-> Line(R, j)]
    BY <1>3, <1>7
  <2>. QED  BY <2>1
<1>9. Resolving(refs, R)
  <2>. SUFFICES ASSUME NEW n \in refs.values, NEW seen \in SUBSET DOMAIN refs.at
                PROVE  /\ R[0][<<n, seen>>] = Raised
                       /\ \A k \in 1 .. RecursionLimit : R[k][<<n, seen>>] = ResolveBy(refs, R[k - 1], n, seen)
    BY DEF Resolving
  <2>1. <<n, seen>> \in Calls(refs)
    BY DEF Calls
  <2>2. R[0][<<n, seen>>] = Raised
    <3>1. 0 \in K
      BY RecursionLimitAssumption DEF K
    <3>. QED  BY <1>8, <2>1, <3>1 DEF Line
  <2>3. ASSUME NEW k \in 1 .. RecursionLimit PROVE R[k][<<n, seen>>] = ResolveBy(refs, R[k - 1], n, seen)
    <3>1. k \in K /\ k # 0
      BY RecursionLimitAssumption DEF K
    <3>. QED  BY <1>8, <2>1, <3>1 DEF Line
  <2>. QED  BY <2>2, <2>3
<1>. QED  BY <1>1, <1>9

\* What stands in n, resolved
KidsBy(prev, n, seen) == [key \in DOMAIN Kids(n) |-> prev[<<Kids(n)[key], seen>>]]

\* A call returns r, by cases.
Returns(refs, prev, n, seen, r) ==
    LET failing == \E key \in DOMAIN Kids(n) : prev[<<Kids(n)[key], seen>>] = Raised
    IN  /\ IsRef(n) /\ Target(n) \in seen => r = n
        /\ IsRef(n) /\ Target(n) \notin seen /\ refs.at[Target(n)] = Raised => r = Raised
        /\ IsRef(n) /\ Target(n) \notin seen /\ refs.at[Target(n)] # Raised =>
              r = prev[<<refs.at[Target(n)], seen \cup {Target(n)}>>]
        /\ ~IsRef(n) /\ failing => r = Raised
        /\ ~IsRef(n) /\ ~failing /\ IsMap(n) => r = Map(KidsBy(prev, n, seen))
        /\ ~IsRef(n) /\ ~failing /\ ~IsMap(n) /\ IsList(n) => r = List(KidsBy(prev, n, seen))
        /\ ~IsRef(n) /\ ~failing /\ ~IsMap(n) /\ ~IsList(n) => r = n

\* What a call returns
LEMMA ReturnsIs ==
    ASSUME NEW refs, NEW prev, NEW n, NEW seen
    PROVE  Returns(refs, prev, n, seen, ResolveBy(refs, prev, n, seen))
<1>1. AnyRaised(Range(KidsBy(prev, n, seen))) <=> \E key \in DOMAIN Kids(n) : prev[<<Kids(n)[key], seen>>] = Raised
  BY DEF AnyRaised, Range, KidsBy
<1>2. ResolveBy(refs, prev, n, seen) =
         IF IsRef(n)
         THEN IF Target(n) \in seen THEN n
              ELSE IF refs.at[Target(n)] = Raised THEN Raised
              ELSE prev[<<refs.at[Target(n)], seen \cup {Target(n)}>>]
         ELSE IF AnyRaised(Range(KidsBy(prev, n, seen))) THEN Raised
         ELSE IF IsMap(n) THEN Map(KidsBy(prev, n, seen))
         ELSE IF IsList(n) THEN List(KidsBy(prev, n, seen))
         ELSE n
  BY Zenon DEF ResolveBy, KidsBy
<1>. QED  BY <1>1, <1>2 DEF Returns

\* What a call returns that may nest k deep
LEMMA ResolvingReturns ==
    ASSUME NEW refs, NEW R, Resolving(refs, R), NEW k \in 1 .. RecursionLimit,
           NEW n \in refs.values, NEW s \in SUBSET DOMAIN refs.at
    PROVE  Returns(refs, R[k - 1], n, s, R[k][<<n, s>>])
<1>1. R[k][<<n, s>>] = ResolveBy(refs, R[k - 1], n, s)
  BY DEF Resolving
<1>. QED  BY <1>1, ReturnsIs

\* What stands in a value, and what a reference leads to, is a value.
LEMMA FineKids ==
    ASSUME NEW refs, Fine(refs), NEW n \in refs.values
    PROVE  /\ \A key \in DOMAIN Kids(n) : Kids(n)[key] \in refs.values /\ Kids(n)[key] \in Range(Kids(n))
           /\ Pointers(n) \subseteq DOMAIN refs.at
           /\ IsRef(n) => /\ Target(n) \in DOMAIN refs.at /\ Pointers(n) = {Target(n)}
                          /\ refs.at[Target(n)] # Raised => refs.at[Target(n)] \in refs.values
           /\ ~IsRef(n) => Pointers(n) = UNION {Pointers(Kids(n)[key]) : key \in DOMAIN Kids(n)}
           /\ n # Raised
<1>1. \A key \in DOMAIN Kids(n) : Kids(n)[key] \in refs.values /\ Kids(n)[key] \in Range(Kids(n))
  BY DEF Fine, Range
<1>2. /\ Pointers(n) = IF IsRef(n) THEN {Target(n)} ELSE UNION {Pointers(c) : c \in Range(Kids(n))}
      /\ Pointers(n) \subseteq DOMAIN refs.at
  BY DEF Fine, Linked
<1>3. \A t \in DOMAIN refs.at : refs.at[t] # Raised => refs.at[t] \in refs.values
  BY DEF Fine, Linked
<1>4. UNION {Pointers(c) : c \in Range(Kids(n))} = UNION {Pointers(Kids(n)[key]) : key \in DOMAIN Kids(n)}
  BY DEF Range
<1>5. n # Raised
  BY DEF Fine
<1>. QED  BY <1>1, <1>2, <1>3, <1>4, <1>5

-----------------------------------------------------------------------------
(* What can be resolved *)

\* No pointer in C leads nowhere, nor to anything that leads out of C and s.
Sound(refs, C, s) == \A t \in C : refs.at[t] # Raised /\ Pointers(refs.at[t]) \subseteq C \cup s

\* The pointers that lead somewhere wherever they are followed, up to s
Leading(refs, s) == UNION {C \in SUBSET DOMAIN refs.at : Sound(refs, C, s)}

\* It is the greatest such set.
LEMMA LeadingIs ==
    ASSUME NEW refs, NEW s
    PROVE  /\ Leading(refs, s) \subseteq DOMAIN refs.at /\ Sound(refs, Leading(refs, s), s)
           /\ \A C \in SUBSET DOMAIN refs.at : Sound(refs, C, s) => C \subseteq Leading(refs, s)
<1>1. Leading(refs, s) \subseteq DOMAIN refs.at
  BY DEF Leading
<1>2. \A C \in SUBSET DOMAIN refs.at : Sound(refs, C, s) => C \subseteq Leading(refs, s)
  BY DEF Leading
<1>3. ASSUME NEW t \in Leading(refs, s)
      PROVE  refs.at[t] # Raised /\ Pointers(refs.at[t]) \subseteq Leading(refs, s) \cup s
  <2>1. PICK C \in SUBSET DOMAIN refs.at : Sound(refs, C, s) /\ t \in C
    BY DEF Leading
  <2>2. refs.at[t] # Raised /\ Pointers(refs.at[t]) \subseteq C \cup s
    BY <2>1 DEF Sound
  <2>. QED  BY <1>2, <2>1, <2>2
<1>. QED  BY <1>1, <1>2, <1>3 DEF Sound

\* What has been resolved had no pointer that leads nowhere.
LEMMA ResolvedLeads ==
    ASSUME NEW refs, Fine(refs), NEW R, Resolving(refs, R)
    PROVE  \A k \in 0 .. RecursionLimit : \A n \in refs.values : \A s \in SUBSET DOMAIN refs.at :
              R[k][<<n, s>>] # Raised => Pointers(n) \subseteq Leading(refs, s) \cup s
<1>. DEFINE Good(k) == \A n \in refs.values : \A s \in SUBSET DOMAIN refs.at :
                          R[k][<<n, s>>] # Raised => Pointers(n) \subseteq Leading(refs, s) \cup s
            Wrong == {k \in 0 .. RecursionLimit : ~Good(k)}
<1>. SUFFICES ASSUME Wrong # {} PROVE FALSE
  OBVIOUS
<1>1. PICK k \in Wrong : \A j \in Wrong : k <= j
  <2>1. Wrong \in SUBSET Nat
    BY RecursionLimitAssumption
  <2>. HIDE DEF Wrong
  <2>. QED  BY <2>1, LeastMember
<1>2. k \in 0 .. RecursionLimit /\ ~Good(k)
  BY <1>1
<1>3. PICK n \in refs.values, s \in SUBSET DOMAIN refs.at :
         R[k][<<n, s>>] # Raised /\ ~ Pointers(n) \subseteq Leading(refs, s) \cup s
  BY <1>2
<1>4. k # 0
  BY <1>3 DEF Resolving
<1>5. k \in 1 .. RecursionLimit /\ k - 1 \in 0 .. RecursionLimit /\ ~ k <= k - 1
  BY <1>2, <1>4, RecursionLimitAssumption
<1>6. Good(k - 1)
  BY <1>1, <1>5
<1>. HIDE DEF Wrong
<1>7. Returns(refs, R[k - 1], n, s, R[k][<<n, s>>])
  BY <1>5, ResolvingReturns
<1>8. CASE IsRef(n)
  <2>1. PICK t : t = Target(n)
    OBVIOUS
  <2>2. t \notin s /\ Pointers(n) = {t} /\ t \in DOMAIN refs.at
    <3>1. Pointers(n) = {t} /\ t \in DOMAIN refs.at
      BY <1>8, <2>1, FineKids
    <3>. QED  BY <1>3, <3>1
  <2>3. refs.at[t] # Raised /\ R[k - 1][<<refs.at[t], s \cup {t}>>] # Raised
    BY <1>3, <1>7, <1>8, <2>1, <2>2 DEF Returns
  <2>4. refs.at[t] \in refs.values
    BY <1>8, <2>1, <2>3, FineKids
  <2>5. Pointers(refs.at[t]) \subseteq Leading(refs, s \cup {t}) \cup (s \cup {t})
    <3>1. s \cup {t} \in SUBSET DOMAIN refs.at
      BY <2>2
    <3>. QED  BY <1>6, <2>3, <2>4, <3>1
  <2>6. PICK C : C = Leading(refs, s \cup {t}) \cup {t}
    OBVIOUS
  <2>7. Sound(refs, C, s)
    <3>1. Sound(refs, Leading(refs, s \cup {t}), s \cup {t})
      BY LeadingIs
    <3>. QED  BY <2>3, <2>5, <2>6, <3>1 DEF Sound
  <2>8. C \in SUBSET DOMAIN refs.at
    BY <2>2, <2>6, LeadingIs
  <2>9. t \in Leading(refs, s)
    BY <2>6, <2>7, <2>8, LeadingIs
  <2>. QED  BY <1>3, <2>2, <2>9
<1>9. CASE ~IsRef(n)
  <2>1. PICK key \in DOMAIN Kids(n) : ~ Pointers(Kids(n)[key]) \subseteq Leading(refs, s) \cup s
    <3>1. Pointers(n) = UNION {Pointers(Kids(n)[key]) : key \in DOMAIN Kids(n)}
      BY <1>9, FineKids
    <3>. QED  BY <1>3, <3>1
  <2>2. R[k - 1][<<Kids(n)[key], s>>] # Raised
    BY <1>3, <1>7, <1>9 DEF Returns
  <2>. QED  BY <1>6, <2>1, <2>2, FineKids
<1>. QED  BY <1>8, <1>9

\* What has no pointer that leads nowhere is resolved, if calls may nest deep
\* enough.
LEMMA LeadingResolves ==
    ASSUME NEW refs, Fine(refs), NEW R, Resolving(refs, R), NEW H, Shallow(refs, H)
    PROVE  \A k \in 0 .. RecursionLimit : \A n \in refs.values : \A s \in SUBSET DOMAIN refs.at :
              /\ Pointers(n) \subseteq Leading(refs, {})
              /\ Cardinality(DOMAIN refs.at \ s) * (H + 1) + Rank(n) <= k
              => R[k][<<n, s>>] # Raised
<1>. DEFINE P == DOMAIN refs.at
            Need(n, s) == Cardinality(P \ s) * (H + 1) + Rank(n)
            Good(k) == \A n \in refs.values : \A s \in SUBSET P :
                          Pointers(n) \subseteq Leading(refs, {}) /\ Need(n, s) <= k => R[k][<<n, s>>] # Raised
            Wrong == {k \in 0 .. RecursionLimit : ~Good(k)}
<1>. SUFFICES ASSUME Wrong # {} PROVE FALSE
  OBVIOUS
<1>1. PICK k \in Wrong : \A j \in Wrong : k <= j
  <2>1. Wrong \in SUBSET Nat
    BY RecursionLimitAssumption
  <2>. HIDE DEF Wrong
  <2>. QED  BY <2>1, LeastMember
<1>2. k \in 0 .. RecursionLimit /\ ~Good(k)
  BY <1>1
<1>3. PICK n \in refs.values, s \in SUBSET P :
         Pointers(n) \subseteq Leading(refs, {}) /\ Need(n, s) <= k /\ R[k][<<n, s>>] = Raised
  BY <1>2
<1>4. IsFiniteSet(P) /\ H \in Nat /\ \A v \in refs.values : Rank(v) \in 1 .. H
  BY DEF Fine, Linked, Shallow
<1>5. \A u \in SUBSET P : IsFiniteSet(P \ u) /\ Cardinality(P \ u) \in Nat
  BY <1>4, FS_Subset, FS_CardinalityType
<1>6. \A c \in Nat : c * (H + 1) \in Nat /\ (c + 1) * (H + 1) = c * (H + 1) + H + 1
  BY <1>4
<1>7. Cardinality(P \ s) * (H + 1) \in Nat /\ Rank(n) \in 1 .. H
  BY <1>4, <1>5, <1>6
<1>8. k # 0
  BY <1>3, <1>4, <1>7
<1>9. k \in 1 .. RecursionLimit /\ k - 1 \in 0 .. RecursionLimit /\ ~ k <= k - 1
  BY <1>2, <1>8, RecursionLimitAssumption
<1>10. Good(k - 1)
  BY <1>1, <1>9
<1>. HIDE DEF Wrong
<1>11. Returns(refs, R[k - 1], n, s, Raised)
  BY <1>3, <1>9, ResolvingReturns
<1>12. n # Raised
  BY FineKids
<1>13. CASE IsRef(n)
  <2>1. PICK t : t = Target(n)
    OBVIOUS
  <2>2. t \notin s /\ Pointers(n) = {t} /\ t \in P
    <3>1. Pointers(n) = {t} /\ t \in P
      BY <1>13, <2>1, FineKids
    <3>. QED  BY <1>11, <1>12, <1>13, <2>1, <3>1 DEF Returns
  <2>3. Sound(refs, Leading(refs, {}), {}) /\ t \in Leading(refs, {})
    BY <1>3, <2>2, LeadingIs
  <2>4. refs.at[t] # Raised /\ Pointers(refs.at[t]) \subseteq Leading(refs, {})
    BY <2>3 DEF Sound
  <2>5. refs.at[t] \in refs.values
    BY <1>13, <2>1, <2>4, FineKids
  <2>6. R[k - 1][<<refs.at[t], s \cup {t}>>] = Raised
    BY <1>11, <1>13, <2>1, <2>2, <2>4 DEF Returns
  <2>7. Need(refs.at[t], s \cup {t}) <= k - 1
    <3>1. Cardinality(P \ (s \cup {t})) = Cardinality(P \ s) - 1
      <4>1. P \ (s \cup {t}) = (P \ s) \ {t} /\ t \in P \ s
        BY <2>2
      <4>2. IsFiniteSet(P \ s)
        BY <1>5
      <4>3. Cardinality((P \ s) \ {t}) = Cardinality(P \ s) - 1
        BY <4>1, <4>2, FS_RemoveElement
      <4>. QED  BY <4>1, <4>3
    <3>2. PICK c \in Nat : c = Cardinality(P \ (s \cup {t}))
      <4>1. s \cup {t} \in SUBSET P
        BY <2>2
      <4>. QED  BY <1>5, <4>1
    <3>3. Cardinality(P \ s) = c + 1
      <4>1. Cardinality(P \ s) \in Nat
        BY <1>5
      <4>. QED  BY <3>1, <3>2, <4>1
    <3>4. Need(n, s) = c * (H + 1) + H + 1 + Rank(n) /\ Need(refs.at[t], s \cup {t}) = c * (H + 1) + Rank(refs.at[t])
      BY <1>6, <3>2, <3>3
    <3>5. Rank(refs.at[t]) \in 1 .. H
      BY <1>4, <2>5
    <3>6. PICK m \in Nat : m = c * (H + 1)
      BY <1>6
    <3>. HIDE DEF Need
    <3>. QED  BY <1>3, <1>4, <1>7, <1>9, <3>4, <3>5, <3>6
  <2>8. s \cup {t} \in SUBSET P
    BY <2>2
  <2>. QED  BY <1>10, <2>4, <2>5, <2>6, <2>7, <2>8
<1>14. CASE ~IsRef(n)
  <2>1. ~ \A key \in DOMAIN Kids(n) : R[k - 1][<<Kids(n)[key], s>>] # Raised
    <3>1. \A f : Map(f) # Raised /\ List(f) # Raised
      BY KindsDiffer
    <3>. QED  BY <1>11, <1>12, <1>14, <3>1 DEF Returns
  <2>2. PICK key \in DOMAIN Kids(n) : R[k - 1][<<Kids(n)[key], s>>] = Raised
    BY <2>1
  <2>3. PICK c : c = Kids(n)[key]
    OBVIOUS
  <2>4. c \in refs.values /\ c \in Range(Kids(n)) /\ Pointers(c) \subseteq Leading(refs, {})
    BY <1>3, <1>14, <2>3, FineKids
  <2>5. Rank(c) < Rank(n) /\ Rank(c) \in 1 .. H
    BY <1>4, <2>4 DEF Shallow
  <2>6. Need(c, s) <= k - 1
    BY <1>3, <1>4, <1>7, <1>9, <2>5
  <2>. QED  BY <1>10, <2>2, <2>3, <2>4, <2>6
<1>. QED  BY <1>13, <1>14

\* A value is resolved exactly if no pointer that is met on the way leads nowhere.
LEMMA ResolvesIff ==
    ASSUME NEW refs, Fine(refs), NEW n \in refs.values
    PROVE  DeepResolve(refs, n) # Raised <=> Pointers(n) \subseteq Leading(refs, {})
<1>1. PICK R : Resolving(refs, R) /\ DeepResolve(refs, n) = R[RecursionLimit][<<n, {}>>]
  BY ResolvingIs
<1>2. PICK H : Shallow(refs, H)
  BY DEF Fine
<1>3. RecursionLimit \in 0 .. RecursionLimit /\ {} \in SUBSET DOMAIN refs.at
  BY RecursionLimitAssumption
<1>4. R[RecursionLimit][<<n, {}>>] # Raised => Pointers(n) \subseteq Leading(refs, {}) \cup {}
  BY <1>1, <1>3, ResolvedLeads
<1>5. Cardinality(DOMAIN refs.at \ {}) * (H + 1) + Rank(n) <= RecursionLimit
  <2>1. DOMAIN refs.at \ {} = DOMAIN refs.at /\ IsFiniteSet(DOMAIN refs.at)
    BY DEF Fine, Linked
  <2>2. PICK c \in Nat : c = Cardinality(DOMAIN refs.at)
    BY <2>1, FS_CardinalityType
  <2>3. H \in Nat /\ (c + 1) * (H + 1) < RecursionLimit /\ Rank(n) \in 1 .. H
    BY <1>2, <2>2 DEF Shallow
  <2>4. (c + 1) * (H + 1) = c * (H + 1) + H + 1 /\ c * (H + 1) \in Nat
    BY <2>3
  <2>. QED  BY <2>1, <2>2, <2>3, <2>4, RecursionLimitAssumption
<1>6. Pointers(n) \subseteq Leading(refs, {}) => R[RecursionLimit][<<n, {}>>] # Raised
  BY <1>1, <1>2, <1>3, <1>5, LeadingResolves
<1>. QED  BY <1>1, <1>4, <1>6

-----------------------------------------------------------------------------
(* What can be reached *)

\* Reach is the least set that has what is in T and is closed under g.
LEMMA ReachIs ==
    ASSUME NEW g, NEW T
    PROVE  /\ Reach(g, T) \subseteq DOMAIN g /\ T \cap DOMAIN g \subseteq Reach(g, T)
           /\ \A u \in Reach(g, T) : g[u] \cap DOMAIN g \subseteq Reach(g, T)
           /\ \A C : /\ T \cap DOMAIN g \subseteq C
                     /\ \A u \in C : u \in DOMAIN g => g[u] \cap DOMAIN g \subseteq C
                     => Reach(g, T) \subseteq C
<1>. DEFINE D == DOMAIN g
            Closed(C) == T \cap D \subseteq C /\ \A u \in C : g[u] \cap D \subseteq C
<1>1. \A t : t \in Reach(g, T) <=> t \in D /\ \A C \in SUBSET D : Closed(C) => t \in C
  BY DEF Reach
<1>2. Reach(g, T) \subseteq D /\ T \cap D \subseteq Reach(g, T)
  BY <1>1
<1>3. ASSUME NEW u \in Reach(g, T), NEW t \in g[u] \cap D PROVE t \in Reach(g, T)
  <2>1. ASSUME NEW C \in SUBSET D, Closed(C) PROVE t \in C
    <3>1. u \in C
      BY <1>1, <2>1
    <3>. QED  BY <1>3, <2>1, <3>1
  <2>. QED  BY <1>1, <1>3, <2>1
<1>4. ASSUME NEW C, T \cap D \subseteq C, \A u \in C : u \in D => g[u] \cap D \subseteq C
      PROVE  Reach(g, T) \subseteq C
  <2>1. C \cap D \in SUBSET D /\ Closed(C \cap D)
    BY <1>4
  <2>. QED  BY <1>1, <2>1
<1>. QED  BY <1>2, <1>3, <1>4

\* More can be reached from more.
LEMMA ReachGrows ==
    ASSUME NEW g, NEW T, NEW U, T \cap DOMAIN g \subseteq Reach(g, U)
    PROVE  Reach(g, T) \subseteq Reach(g, U)
<1>1. \A u \in Reach(g, U) : g[u] \cap DOMAIN g \subseteq Reach(g, U)
  BY ReachIs
<1>2. \A C : /\ T \cap DOMAIN g \subseteq C
             /\ \A u \in C : u \in DOMAIN g => g[u] \cap DOMAIN g \subseteq C
             => Reach(g, T) \subseteq C
  BY ReachIs
<1>. QED  BY <1>1, <1>2

\* What can be reached is reached at once or from one step further.
LEMMA ReachUnfolds ==
    ASSUME NEW g, NEW t \in DOMAIN g
    PROVE  Reach(g, {t}) = {t} \cup Reach(g, g[t])
<1>1. {t} \cup Reach(g, g[t]) \subseteq Reach(g, {t})
  <2>1. t \in Reach(g, {t})
    BY ReachIs
  <2>2. g[t] \cap DOMAIN g \subseteq Reach(g, {t})
    BY <2>1, ReachIs
  <2>. QED  BY <2>1, <2>2, ReachGrows
<1>2. Reach(g, {t}) \subseteq {t} \cup Reach(g, g[t])
  <2>1. \A u \in Reach(g, g[t]) : g[u] \cap DOMAIN g \subseteq Reach(g, g[t])
    BY ReachIs
  <2>2. g[t] \cap DOMAIN g \subseteq Reach(g, g[t])
    BY ReachIs
  <2>3. PICK C : C = {t} \cup Reach(g, g[t])
    OBVIOUS
  <2>4. {t} \cap DOMAIN g \subseteq C /\ \A u \in C : u \in DOMAIN g => g[u] \cap DOMAIN g \subseteq C
    BY <2>1, <2>2, <2>3
  <2>5. Reach(g, {t}) \subseteq C
    BY <2>4, ReachIs
  <2>. QED  BY <2>3, <2>5
<1>. QED  BY <1>1, <1>2

\* The pointers in a value that is not resolved
LEMMA MetIff ==
    ASSUME NEW refs, Fine(refs), NEW T \in SUBSET DOMAIN refs.at
    PROVE  (\E t \in Met(refs, T) : refs.at[t] = Raised) <=> ~ T \subseteq Leading(refs, {})
<1>. DEFINE P == DOMAIN refs.at
            g == [t \in P |-> Pointers(refs.at[t])]
<1>1. DOMAIN g = P /\ \A t \in P : g[t] = Pointers(refs.at[t])
  OBVIOUS
<1>2. Met(refs, T) = Reach(g, T)
  BY DEF Met
<1>. HIDE DEF g
<1>3. \A t \in P : refs.at[t] # Raised => g[t] \subseteq P
  <2>1. \A t \in P : refs.at[t] # Raised => refs.at[t] \in refs.values
    BY DEF Fine, Linked
  <2>2. \A v \in refs.values : Pointers(v) \subseteq P
    BY DEF Fine, Linked
  <2>. QED  BY <1>1, <2>1, <2>2
<1>4. ASSUME T \subseteq Leading(refs, {}), NEW t \in Met(refs, T) PROVE refs.at[t] # Raised
  <2>1. Leading(refs, {}) \subseteq P /\ \A u \in Leading(refs, {}) : refs.at[u] # Raised /\ Pointers(refs.at[u]) \subseteq Leading(refs, {})
    BY LeadingIs DEF Sound
  <2>2. \A u \in Leading(refs, {}) : u \in DOMAIN g => g[u] \cap DOMAIN g \subseteq Leading(refs, {})
    BY <1>1, <2>1
  <2>3. Reach(g, T) \subseteq Leading(refs, {})
    BY <1>4, <2>2, ReachIs
  <2>. QED  BY <1>2, <1>4, <2>1, <2>3
<1>5. ASSUME \A t \in Met(refs, T) : refs.at[t] # Raised PROVE T \subseteq Leading(refs, {})
  <2>1. Reach(g, T) \subseteq P /\ T \cap P \subseteq Reach(g, T) /\ \A u \in Reach(g, T) : g[u] \cap P \subseteq Reach(g, T)
    BY <1>1, ReachIs
  <2>2. Sound(refs, Reach(g, T), {})
    BY <1>1, <1>2, <1>3, <1>5, <2>1 DEF Sound
  <2>. QED  BY <2>1, <2>2, LeadingIs
<1>. QED  BY <1>4, <1>5

\* Where a pointer leads if it leads to a reference
NextOf(refs) == [t \in DOMAIN refs.at |-> IF IsRef(refs.at[t]) THEN {Target(refs.at[t])} ELSE {}]

\* The ends of the chain of references that begins with t
Ends(refs, t) == {refs.at[u] : u \in {w \in Reach(NextOf(refs), {t}) : ~IsRef(refs.at[w])}}

\* The definition of Chased in these words
LEMMA ChasedIs ==
    ASSUME NEW refs, NEW n
    PROVE  /\ IsRef(n) /\ Ends(refs, Target(n)) # {} => Chased(refs, n) = CHOOSE e \in Ends(refs, Target(n)) : TRUE
           /\ IsRef(n) /\ Ends(refs, Target(n)) # {} => Chased(refs, n) \in Ends(refs, Target(n))
           /\ IsRef(n) /\ Ends(refs, Target(n)) = {} => Chased(refs, n) = n
           /\ ~IsRef(n) => Chased(refs, n) = n
<1>1. Chased(refs, n) = IF IsRef(n) /\ Ends(refs, Target(n)) # {} THEN CHOOSE e \in Ends(refs, Target(n)) : TRUE ELSE n
  BY Zenon DEF Chased, Ends, NextOf
<1>2. \A S : S # {} => (CHOOSE e \in S : TRUE) \in S
  OBVIOUS
<1>. QED  BY <1>1, <1>2

\* A chain ends at once with what is not a reference, or goes on.
LEMMA EndsAre ==
    ASSUME NEW refs, NEW t \in DOMAIN refs.at
    PROVE  /\ ~IsRef(refs.at[t]) => Ends(refs, t) = {refs.at[t]}
           /\ IsRef(refs.at[t]) => Ends(refs, t) = Ends(refs, Target(refs.at[t]))
<1>. DEFINE g == NextOf(refs)
<1>1. DOMAIN g = DOMAIN refs.at /\ g[t] = IF IsRef(refs.at[t]) THEN {Target(refs.at[t])} ELSE {}
  BY DEF NextOf
<1>2. Reach(g, {t}) = {t} \cup Reach(g, g[t])
  BY <1>1, ReachUnfolds
<1>3. ASSUME ~IsRef(refs.at[t]) PROVE Ends(refs, t) = {refs.at[t]}
  <2>1. Reach(g, {}) \subseteq {}
    BY ReachIs
  <2>2. Reach(g, {t}) = {t}
    BY <1>1, <1>2, <1>3, <2>1
  <2>. QED  BY <1>3, <2>2 DEF Ends
<1>4. ASSUME IsRef(refs.at[t]) PROVE Ends(refs, t) = Ends(refs, Target(refs.at[t]))
  <2>1. Reach(g, {t}) = {t} \cup Reach(g, {Target(refs.at[t])})
    BY <1>1, <1>2, <1>4
  <2>2. {w \in Reach(g, {t}) : ~IsRef(refs.at[w])} = {w \in Reach(g, {Target(refs.at[t])}) : ~IsRef(refs.at[w])}
    BY <1>4, <2>1
  <2>. QED  BY <2>2 DEF Ends
<1>. QED  BY <1>3, <1>4

\* What a chain leads to is a value that is not a reference, unless it leads
\* nowhere.
LEMMA EndsType ==
    ASSUME NEW refs, Fine(refs), NEW t
    PROVE  \A e \in Ends(refs, t) : e \in refs.values \cup {Raised} /\ ~IsRef(e)
<1>. SUFFICES ASSUME NEW e \in Ends(refs, t) PROVE e \in refs.values \cup {Raised} /\ ~IsRef(e)
  OBVIOUS
<1>1. PICK u \in Reach(NextOf(refs), {t}) : e = refs.at[u] /\ ~IsRef(e)
  BY DEF Ends
<1>2. DOMAIN NextOf(refs) = DOMAIN refs.at
  BY DEF NextOf
<1>3. u \in DOMAIN refs.at
  BY <1>1, <1>2, ReachIs
<1>. QED  BY <1>1, <1>3 DEF Fine, Linked

\* A chain of references that can be resolved leads to what can be resolved.
LEMMA EndsLead ==
    ASSUME NEW refs, Fine(refs), NEW t \in Leading(refs, {})
    PROVE  \A e \in Ends(refs, t) : e \in refs.values /\ Pointers(e) \subseteq Leading(refs, {})
<1>. DEFINE L == Leading(refs, {})
<1>1. L \subseteq DOMAIN refs.at /\ \A u \in L : refs.at[u] # Raised /\ Pointers(refs.at[u]) \subseteq L
  BY LeadingIs DEF Sound
<1>2. \A u \in L : refs.at[u] \in refs.values
  BY <1>1 DEF Fine, Linked
<1>3. ASSUME NEW u \in L, u \in DOMAIN NextOf(refs) PROVE NextOf(refs)[u] \cap DOMAIN NextOf(refs) \subseteq L
  <2>1. NextOf(refs)[u] = IF IsRef(refs.at[u]) THEN {Target(refs.at[u])} ELSE {}
    BY <1>1 DEF NextOf
  <2>2. IsRef(refs.at[u]) => Target(refs.at[u]) \in L
    <3>1. refs.at[u] \in refs.values
      BY <1>2
    <3>2. IsRef(refs.at[u]) => Pointers(refs.at[u]) = {Target(refs.at[u])}
      BY <3>1, FineKids
    <3>. QED  BY <1>1, <3>2
  <2>. QED  BY <2>1, <2>2
<1>4. Reach(NextOf(refs), {t}) \subseteq L
  BY <1>3, ReachIs
<1>. QED  BY <1>1, <1>2, <1>4 DEF Ends

-----------------------------------------------------------------------------
(* What resolving changes *)

\* r is n, or what resolving it has made of it.
Alike(refs, R, r, n) ==
    \/ r = n
    \/ /\ n \in refs.values /\ r # Raised
       /\ \E k \in 0 .. RecursionLimit, s \in SUBSET DOMAIN refs.at : r = R[k][<<n, s>>]

\* x and y are told apart only by what has been resolved in them, or by which
\* chain of references they belong to that does not end.
Paired(refs, R, x, y) ==
    \/ x = y
    \/ IsRef(x) /\ IsRef(y) /\ x = Ref(Target(x)) /\ y = Ref(Target(y))
    \/ /\ x = Map(x.map) /\ y = Map(y.map) /\ ~IsRef(x) /\ ~IsRef(y) /\ y \in refs.values
       /\ DOMAIN x.map = DOMAIN y.map
       /\ \A key \in DOMAIN y.map : Alike(refs, R, x.map[key], y.map[key])
    \/ x = List(x.list) /\ y = List(y.list) /\ ~IsRef(x) /\ ~IsRef(y)

\* What is not a reference keeps its kind and its keys.
LEMMA ShapeKept ==
    ASSUME NEW refs, Fine(refs), NEW R, Resolving(refs, R), NEW n \in refs.values, ~IsRef(n),
           NEW k \in 0 .. RecursionLimit, NEW s \in SUBSET DOMAIN refs.at, R[k][<<n, s>>] # Raised
    PROVE  Paired(refs, R, R[k][<<n, s>>], n) /\ ~IsRef(R[k][<<n, s>>])
<1>1. PICK r : r = R[k][<<n, s>>]
  OBVIOUS
<1>2. k # 0
  BY DEF Resolving
<1>3. k \in 1 .. RecursionLimit /\ k - 1 \in 0 .. RecursionLimit
  BY <1>2, RecursionLimitAssumption
<1>4. Returns(refs, R[k - 1], n, s, r)
  BY <1>1, <1>3, ResolvingReturns
<1>5. WellFormed(n)
  BY DEF Fine
<1>6. \A key \in DOMAIN Kids(n) : R[k - 1][<<Kids(n)[key], s>>] # Raised
  BY <1>1, <1>4 DEF Returns
<1>7. CASE IsMap(n)
  <2>. DEFINE f == KidsBy(R[k - 1], n, s)
  <2>1. r = Map(f) /\ n = Map(n.map) /\ Kids(n) = n.map
    BY <1>4, <1>5, <1>6, <1>7 DEF Returns, WellFormed, Kids
  <2>2. r.map = f /\ IsMap(r)
    BY <2>1, KindsDiffer
  <2>3. DOMAIN f = DOMAIN n.map /\ \A key \in DOMAIN n.map : f[key] = R[k - 1][<<Kids(n)[key], s>>]
    BY <2>1 DEF KidsBy
  <2>. HIDE DEF f
  <2>4. ~IsRef(r)
    BY <1>7, <2>2, <2>3 DEF IsRef
  <2>5. ASSUME NEW key \in DOMAIN n.map PROVE Alike(refs, R, r.map[key], n.map[key])
    <3>1. PICK c : c = n.map[key]
      OBVIOUS
    <3>2. c = Kids(n)[key] /\ key \in DOMAIN Kids(n)
      BY <2>1, <3>1
    <3>3. c \in refs.values
      BY <3>2, FineKids
    <3>4. r.map[key] = R[k - 1][<<c, s>>] /\ r.map[key] # Raised
      BY <1>6, <2>2, <2>3, <3>2
    <3>. QED  BY <1>3, <3>1, <3>3, <3>4 DEF Alike
  <2>6. Paired(refs, R, r, n)
    BY <2>1, <2>2, <2>3, <2>4, <2>5 DEF Paired
  <2>. QED  BY <1>1, <2>4, <2>6
<1>8. CASE ~IsMap(n) /\ IsList(n)
  <2>1. r = List(KidsBy(R[k - 1], n, s)) /\ n = List(n.list)
    BY <1>4, <1>5, <1>6, <1>8 DEF Returns, WellFormed
  <2>2. r = List(r.list) /\ ~IsMap(r)
    BY <2>1, KindsDiffer
  <2>3. ~IsRef(r)
    BY <2>2 DEF IsRef
  <2>4. Paired(refs, R, r, n)
    BY <2>1, <2>2, <2>3 DEF Paired
  <2>. QED  BY <1>1, <2>3, <2>4
<1>9. CASE ~IsMap(n) /\ ~IsList(n)
  <2>1. r = n
    BY <1>4, <1>6, <1>9 DEF Returns
  <2>. QED  BY <1>1, <2>1 DEF Paired
<1>. QED  BY <1>7, <1>8, <1>9

\* s has been met on the way to n along references.
Chain(refs, s, n) == \A u \in s : IsRef(refs.at[u]) /\ Target(refs.at[u]) \in s \cup {Target(n)}

\* A reference becomes what its chain ends with, resolved, or one of the chain.
ChainResolved(refs, R, n, s, r) ==
    \/ /\ r \in refs.values /\ IsRef(r) /\ Ends(refs, Target(r)) = Ends(refs, Target(n))
       /\ Chain(refs, s, n) => Ends(refs, Target(n)) = {}
    \/ \E m \in refs.values, k \in 0 .. RecursionLimit, u \in SUBSET DOMAIN refs.at :
          ~IsRef(m) /\ Ends(refs, Target(n)) = {m} /\ r = R[k][<<m, u>>]

\* What a reference becomes
LEMMA RefResolved ==
    ASSUME NEW refs, Fine(refs), NEW R, Resolving(refs, R)
    PROVE  \A k \in 0 .. RecursionLimit : \A n \in refs.values : \A s \in SUBSET DOMAIN refs.at :
              IsRef(n) /\ R[k][<<n, s>>] # Raised => ChainResolved(refs, R, n, s, R[k][<<n, s>>])
<1>. DEFINE Good(k) == \A n \in refs.values : \A s \in SUBSET DOMAIN refs.at :
                          IsRef(n) /\ R[k][<<n, s>>] # Raised => ChainResolved(refs, R, n, s, R[k][<<n, s>>])
            Wrong == {k \in 0 .. RecursionLimit : ~Good(k)}
<1>. SUFFICES ASSUME Wrong # {} PROVE FALSE
  OBVIOUS
<1>1. PICK k \in Wrong : \A j \in Wrong : k <= j
  <2>1. Wrong \in SUBSET Nat
    BY RecursionLimitAssumption
  <2>. HIDE DEF Wrong
  <2>. QED  BY <2>1, LeastMember
<1>2. k \in 0 .. RecursionLimit /\ ~Good(k)
  BY <1>1
<1>3. PICK n \in refs.values, s \in SUBSET DOMAIN refs.at :
         IsRef(n) /\ R[k][<<n, s>>] # Raised /\ ~ChainResolved(refs, R, n, s, R[k][<<n, s>>])
  BY <1>2
<1>4. k # 0
  BY <1>3 DEF Resolving
<1>5. k \in 1 .. RecursionLimit /\ k - 1 \in 0 .. RecursionLimit /\ ~ k <= k - 1
  BY <1>2, <1>4, RecursionLimitAssumption
<1>6. Good(k - 1)
  BY <1>1, <1>5
<1>. HIDE DEF Wrong
<1>7. PICK r, t : r = R[k][<<n, s>>] /\ t = Target(n)
  OBVIOUS
<1>8. Returns(refs, R[k - 1], n, s, r)
  BY <1>5, <1>7, ResolvingReturns
<1>9. t \in DOMAIN refs.at /\ (refs.at[t] # Raised => refs.at[t] \in refs.values)
  BY <1>3, <1>7, FineKids
<1>10. CASE t \in s
  <2>1. r = n
    BY <1>3, <1>7, <1>8, <1>10 DEF Returns
  <2>2. ASSUME Chain(refs, s, n) PROVE Ends(refs, t) = {}
    <3>1. \A u \in s : u \in DOMAIN NextOf(refs) => NextOf(refs)[u] \cap DOMAIN NextOf(refs) \subseteq s
      BY <1>7, <1>10, <2>2 DEF Chain, NextOf
    <3>2. Reach(NextOf(refs), {t}) \subseteq s
      BY <1>10, <3>1, ReachIs
    <3>. QED  BY <2>2, <3>2 DEF Chain, Ends
  <2>. QED  BY <1>3, <1>7, <2>1, <2>2 DEF ChainResolved
<1>11. CASE t \notin s
  <2>1. refs.at[t] # Raised /\ r = R[k - 1][<<refs.at[t], s \cup {t}>>]
    BY <1>3, <1>7, <1>8, <1>11 DEF Returns
  <2>2. PICK m : m = refs.at[t]
    OBVIOUS
  <2>3. m \in refs.values /\ s \cup {t} \in SUBSET DOMAIN refs.at
    BY <1>9, <2>1, <2>2
  <2>4. CASE ~IsRef(m)
    <3>1. Ends(refs, t) = {m}
      BY <1>9, <2>2, <2>4, EndsAre
    <3>2. ChainResolved(refs, R, n, s, r)
      BY <1>5, <1>7, <2>1, <2>2, <2>3, <2>4, <3>1 DEF ChainResolved
    <3>. QED  BY <1>3, <1>7, <3>2
  <2>5. CASE IsRef(m)
    <3>1. Ends(refs, t) = Ends(refs, Target(m))
      BY <1>9, <2>2, <2>5, EndsAre
    <3>2. ChainResolved(refs, R, m, s \cup {t}, r)
      BY <1>3, <1>6, <1>7, <2>1, <2>2, <2>3, <2>5
    <3>3. Chain(refs, s, n) => Chain(refs, s \cup {t}, m)
      BY <1>7, <2>2, <2>5 DEF Chain
    <3>4. ChainResolved(refs, R, n, s, r)
      BY <1>7, <3>1, <3>2, <3>3 DEF ChainResolved
    <3>. QED  BY <1>3, <1>7, <3>4
  <2>. QED  BY <2>4, <2>5
<1>. QED  BY <1>10, <1>11

\* Resolved or not, what a chain of references leads to is the same.
LEMMA PairedChased ==
    ASSUME NEW refs, Fine(refs), NEW R, Resolving(refs, R), NEW r, NEW n, Alike(refs, R, r, n)
    PROVE  Paired(refs, R, Chased(refs, r), Chased(refs, n))
<1>1. CASE r = n
  BY <1>1 DEF Paired
<1>2. CASE r # n
  <2>1. PICK k \in 0 .. RecursionLimit, s \in SUBSET DOMAIN refs.at : r = R[k][<<n, s>>]
    BY <1>2 DEF Alike
  <2>2. n \in refs.values /\ r # Raised
    BY <1>2 DEF Alike
  <2>3. CASE ~IsRef(n)
    <3>1. Paired(refs, R, r, n) /\ ~IsRef(r)
      BY <2>1, <2>2, <2>3, ShapeKept
    <3>. QED  BY <2>3, <3>1, ChasedIs
  <2>4. CASE IsRef(n)
    <3>1. ChainResolved(refs, R, n, s, r)
      BY <2>1, <2>2, <2>4, RefResolved
    <3>2. CASE r \in refs.values /\ IsRef(r) /\ Ends(refs, Target(r)) = Ends(refs, Target(n))
      <4>1. CASE Ends(refs, Target(n)) = {}
        <5>1. Chased(refs, r) = r /\ Chased(refs, n) = n
          BY <2>4, <3>2, <4>1, ChasedIs
        <5>2. r = Ref(Target(r)) /\ n = Ref(Target(n))
          BY <2>2, <2>4, <3>2 DEF Fine, WellFormed
        <5>. QED  BY <2>4, <3>2, <5>1, <5>2 DEF Paired
      <4>2. CASE Ends(refs, Target(n)) # {}
        <5>1. PICK S : S = Ends(refs, Target(n))
          OBVIOUS
        <5>2. /\ Chased(refs, r) = CHOOSE e \in Ends(refs, Target(r)) : TRUE
              /\ Chased(refs, n) = CHOOSE e \in Ends(refs, Target(n)) : TRUE
          BY <2>4, <3>2, <4>2, ChasedIs
        <5>3. Chased(refs, r) = Chased(refs, n)
          BY <3>2, <5>2
        <5>. QED  BY <5>3 DEF Paired
      <4>. QED  BY <4>1, <4>2
    <3>3. CASE \E m \in refs.values, j \in 0 .. RecursionLimit, u \in SUBSET DOMAIN refs.at :
                  ~IsRef(m) /\ Ends(refs, Target(n)) = {m} /\ r = R[j][<<m, u>>]
      <4>1. PICK m \in refs.values, j \in 0 .. RecursionLimit, u \in SUBSET DOMAIN refs.at :
                  ~IsRef(m) /\ Ends(refs, Target(n)) = {m} /\ r = R[j][<<m, u>>]
        BY <3>3
      <4>2. Chased(refs, n) = m
        <5>1. Chased(refs, n) \in {m}
          BY <2>4, <4>1, ChasedIs
        <5>. QED  BY <5>1
      <4>3. Paired(refs, R, r, m) /\ ~IsRef(r)
        BY <2>2, <4>1, ShapeKept
      <4>4. Chased(refs, r) = r
        BY <4>3, ChasedIs
      <4>. QED  BY <4>2, <4>3, <4>4
    <3>. QED  BY <3>1, <3>2, <3>3 DEF ChainResolved
  <2>. QED  BY <2>3, <2>4
<1>. QED  BY <1>1, <1>2

\* What deep_resolve makes of a value is like what the value leads to.
LEMMA ResolvedIsPaired ==
    ASSUME NEW refs, Fine(refs), NEW R, Resolving(refs, R), NEW n \in refs.values,
           R[RecursionLimit][<<n, {}>>] # Raised
    PROVE  Paired(refs, R, R[RecursionLimit][<<n, {}>>], Chased(refs, n))
<1>1. PICK r, s : r = R[RecursionLimit][<<n, s>>] /\ s = {}
  OBVIOUS
<1>2. RecursionLimit \in 0 .. RecursionLimit /\ s \in SUBSET DOMAIN refs.at /\ r # Raised
  BY <1>1, RecursionLimitAssumption
<1>3. CASE ~IsRef(n)
  <2>1. Paired(refs, R, r, n)
    BY <1>1, <1>2, <1>3, ShapeKept
  <2>. QED  BY <1>1, <1>3, <2>1, ChasedIs
<1>4. CASE IsRef(n)
  <2>1. ChainResolved(refs, R, n, s, r)
    BY <1>1, <1>2, <1>4, RefResolved
  <2>2. Alike(refs, R, r, n)
    BY <1>1, <1>2 DEF Alike
  <2>3. Paired(refs, R, Chased(refs, r), Chased(refs, n))
    BY <2>2, PairedChased
  <2>4. CASE IsRef(r) /\ Ends(refs, Target(r)) = Ends(refs, Target(n)) /\ (Chain(refs, s, n) => Ends(refs, Target(n)) = {})
    <3>1. Chain(refs, s, n)
      BY <1>1 DEF Chain
    <3>2. Chased(refs, r) = r
      BY <2>4, <3>1, ChasedIs
    <3>. QED  BY <1>1, <2>3, <3>2
  <2>5. CASE \E m \in refs.values, j \in 0 .. RecursionLimit, u \in SUBSET DOMAIN refs.at :
                ~IsRef(m) /\ Ends(refs, Target(n)) = {m} /\ r = R[j][<<m, u>>]
    <3>1. ~IsRef(r)
      BY <1>2, <2>5, ShapeKept
    <3>2. Chased(refs, r) = r
      BY <3>1, ChasedIs
    <3>. QED  BY <1>1, <2>3, <3>2
  <2>. QED  BY <2>1, <2>4, <2>5 DEF ChainResolved
<1>. QED  BY <1>3, <1>4

\* Of what is paired one sees the same.
LEMMA PairedSame ==
    ASSUME NEW refs, NEW R, NEW x, NEW y, Paired(refs, R, x, y)
    PROVE  /\ IsMap(x) <=> IsMap(y)
           /\ IsMap(x) => DOMAIN x.map = DOMAIN y.map
           /\ x = Raised <=> y = Raised
           /\ x = Null <=> y = Null
           /\ "text" \in DOMAIN x <=> "text" \in DOMAIN y
           /\ "text" \in DOMAIN x => x.text = y.text
           /\ IsText(x) <=> IsText(y)
           /\ Spelled(x) = Spelled(y)
           /\ Unjoinable(x) <=> Unjoinable(y)
<1>1. CASE x = y
  BY <1>1
<1>2. CASE x = Ref(Target(x)) /\ y = Ref(Target(y))
  <2>1. \A p : /\ IsMap(Ref(p)) /\ DOMAIN Ref(p).map = {"$ref"} /\ Raised # Ref(p) /\ Null # Ref(p)
               /\ "text" \notin DOMAIN Ref(p)
               /\ ~IsText(Ref(p)) /\ Spelled(Ref(p)) = "" /\ ~Unjoinable(Ref(p))
    <3>1. \A p : Ref(p) = Map([key \in {"$ref"} |-> [pointer |-> p]])
      BY DEF Ref, Map
    <3>. QED  BY <3>1, RefIs, KindsDiffer, PlainOnly
  <2>. QED  BY <1>2, <2>1
<1>3. CASE x = Map(x.map) /\ y = Map(y.map) /\ DOMAIN x.map = DOMAIN y.map
  BY <1>3, KindsDiffer, PlainOnly
<1>4. CASE x = List(x.list) /\ y = List(y.list)
  BY <1>4, KindsDiffer, PlainOnly
<1>. QED  BY <1>1, <1>2, <1>3, <1>4 DEF Paired

\* What is found in what is paired is alike.
LEMMA PairedGet ==
    ASSUME NEW refs, NEW R, NEW x, NEW y, Paired(refs, R, x, y), NEW key, NEW default
    PROVE  \/ Alike(refs, R, Get(x, key, default), Get(y, key, default))
           \/ key = "$ref" /\ IsRef(x) /\ IsRef(y) /\ x = Ref(Target(x)) /\ y = Ref(Target(y))
<1>1. CASE x = y
  BY <1>1 DEF Alike
<1>2. CASE IsRef(x) /\ IsRef(y) /\ x = Ref(Target(x)) /\ y = Ref(Target(y))
  <2>1. key # "$ref" => Get(x, key, default) = default /\ Get(y, key, default) = default
    BY <1>2 DEF IsRef, Get
  <2>. QED  BY <1>2, <2>1 DEF Alike
<1>3. CASE /\ x = Map(x.map) /\ y = Map(y.map) /\ DOMAIN x.map = DOMAIN y.map
           /\ \A k \in DOMAIN y.map : Alike(refs, R, x.map[k], y.map[k])
  <2>1. IsMap(x) /\ IsMap(y)
    BY <1>3, KindsDiffer
  <2>. QED  BY <1>3, <2>1 DEF Get, Alike
<1>4. CASE x = List(x.list) /\ y = List(y.list)
  <2>1. ~IsMap(x) /\ ~IsMap(y)
    BY <1>4, KindsDiffer
  <2>. QED  BY <2>1 DEF Get, Alike
<1>. QED  BY <1>1, <1>2, <1>3, <1>4 DEF Paired

\* So is what is looked up.
LEMMA PairedLook ==
    ASSUME NEW refs, Fine(refs), NEW R, Resolving(refs, R), NEW x, NEW y, Paired(refs, R, x, y),
           NEW key, key # "$ref", NEW default
    PROVE  Paired(refs, R, Look(refs, x, key, default), Look(refs, y, key, default))
<1>1. Alike(refs, R, Get(x, key, default), Get(y, key, default))
  BY PairedGet
<1>. QED  BY <1>1, PairedChased DEF Look

\* And the texts that are found are the same.
LEMMA PairedTextAt ==
    ASSUME NEW refs, Fine(refs), NEW R, Resolving(refs, R), NEW x, NEW y, Paired(refs, R, x, y), NEW key
    PROVE  TextAt(refs, x, key) = TextAt(refs, y, key)
<1>. DEFINE said(v) == IF "text" \in DOMAIN v THEN v.text ELSE ""
<1>1. \A n : TextAt(refs, n, key) = said(Look(refs, n, key, Null))
  BY DEF TextAt
<1>2. CASE Alike(refs, R, Get(x, key, Null), Get(y, key, Null))
  <2>1. Paired(refs, R, Look(refs, x, key, Null), Look(refs, y, key, Null))
    BY <1>2, PairedChased DEF Look
  <2>2. said(Look(refs, x, key, Null)) = said(Look(refs, y, key, Null))
    <3>1. PICK v, w : v = Look(refs, x, key, Null) /\ w = Look(refs, y, key, Null)
      OBVIOUS
    <3>2. ("text" \in DOMAIN v <=> "text" \in DOMAIN w) /\ ("text" \in DOMAIN v => v.text = w.text)
      BY <2>1, <3>1, PairedSame
    <3>3. said(v) = said(w)
      BY <3>2
    <3>. QED  BY <3>1, <3>3
  <2>. QED  BY <1>1, <2>2
<1>3. CASE key = "$ref" /\ IsRef(x) /\ IsRef(y) /\ x = Ref(Target(x)) /\ y = Ref(Target(y))
  <2>1. ASSUME NEW p PROVE TextAt(refs, Ref(p), "$ref") = ""
    <3>. DEFINE kid == [pointer |-> p]
    <3>1. Get(Ref(p), "$ref", Null) = kid
      BY DEF Ref, Get, IsMap
    <3>2. ~IsMap(kid) /\ "text" \notin DOMAIN kid
      BY DEF IsMap
    <3>. HIDE DEF kid
    <3>3. Chased(refs, kid) = kid
      BY <3>2, ChasedIs DEF IsRef
    <3>. QED  BY <3>1, <3>2, <3>3 DEF TextAt, Look
  <2>2. TextAt(refs, x, "$ref") = "" /\ TextAt(refs, y, "$ref") = ""
    BY <1>3, <2>1
  <2>. QED  BY <1>3, <2>2
<1>. QED  BY <1>2, <1>3, PairedGet

\* So they are schemas of the same type.
LEMMA PairedSchema ==
    ASSUME NEW refs, Fine(refs), NEW R, Resolving(refs, R), NEW x, NEW y, Paired(refs, R, x, y), NEW type
    PROVE  IsSchema(refs, x, type) <=> IsSchema(refs, y, type)
<1>1. TextAt(refs, x, "type") = TextAt(refs, y, "type")
  BY PairedTextAt
<1>2. (IsMap(x) <=> IsMap(y)) /\ (IsMap(x) => DOMAIN x.map = DOMAIN y.map)
  BY PairedSame
<1>. QED  BY <1>1, <1>2 DEF IsSchema

-----------------------------------------------------------------------------
(* What is said of a schema *)

\* What an array is one of; anything else is left.
ElementOf(refs, m) == IF IsSchema(refs, m, "array") THEN Look(refs, m, "items", NoKeys) ELSE m

\* f holds what n is an array of, as far as m.
Descends(refs, f, n, m) == f[0] = Chased(refs, n) /\ \A k \in 1 .. m : f[k] = ElementOf(refs, f[k - 1])

\* One can look as deep into an array as one likes.
LEMMA DescendsExists == \A refs, n : \A m \in Nat : \E f : Descends(refs, f, n, m)
<1>. SUFFICES ASSUME NEW refs, NEW n PROVE \A m \in Nat : \E f : Descends(refs, f, n, m)
  OBVIOUS
<1>. DEFINE Missing == {m \in Nat : ~ \E f : Descends(refs, f, n, m)}
<1>. SUFFICES ASSUME Missing # {} PROVE FALSE
  OBVIOUS
<1>1. PICK m \in Missing : \A i \in Missing : m <= i
  <2>1. Missing \in SUBSET Nat
    OBVIOUS
  <2>. HIDE DEF Missing
  <2>. QED  BY <2>1, LeastMember
<1>2. CASE m = 0
  <2>. DEFINE f == [k \in 0 .. 0 |-> Chased(refs, n)]
  <2>1. f[0] = Chased(refs, n)
    OBVIOUS
  <2>. HIDE DEF f
  <2>2. Descends(refs, f, n, 0)
    BY <2>1 DEF Descends
  <2>. QED  BY <1>1, <1>2, <2>2
<1>3. CASE m # 0
  <2>1. m \in Nat \ {0} /\ m - 1 \in Nat /\ m - 1 \notin Missing
    BY <1>1, <1>3
  <2>2. PICK f : Descends(refs, f, n, m - 1)
    BY <2>1
  <2>. DEFINE h == [k \in 0 .. m |-> IF k = m THEN ElementOf(refs, f[m - 1]) ELSE f[k]]
  <2>3. h[m] = ElementOf(refs, f[m - 1]) /\ \A k \in 0 .. m - 1 : h[k] = f[k]
    BY <2>1
  <2>. HIDE DEF h
  <2>4. h[0] = Chased(refs, n)
    BY <2>1, <2>2, <2>3 DEF Descends
  <2>5. ASSUME NEW k \in 1 .. m PROVE h[k] = ElementOf(refs, h[k - 1])
    <3>1. k - 1 \in 0 .. m - 1 /\ h[k - 1] = f[k - 1]
      BY <2>1, <2>3
    <3>2. CASE k = m
      BY <2>3, <3>1, <3>2
    <3>3. CASE k # m
      <4>1. k \in 1 .. m - 1 /\ k \in 0 .. m - 1
        BY <2>1, <3>3
      <4>. QED  BY <2>2, <2>3, <3>1, <4>1 DEF Descends
    <3>. QED  BY <3>2, <3>3
  <2>6. Descends(refs, h, n, m)
    BY <2>4, <2>5 DEF Descends
  <2>. QED  BY <1>1, <2>6
<1>. QED  BY <1>2, <1>3

\* The definition of Summary, read as what it says of its values.
LEMMA SummaryIs ==
    ASSUME NEW refs, NEW n
    PROVE  \E f : /\ Descends(refs, f, n, RecursionLimit)
                  /\ Summary(refs, n) = IF IsSchema(refs, f[RecursionLimit], "array") \/ Misshapen(refs, f[RecursionLimit])
                                        THEN Raised ELSE f[RecursionLimit]
<1>. DEFINE K == 0 .. RecursionLimit
            Body(f) == [k \in K |->
                            IF k = 0 THEN Chased(refs, n)
                            ELSE LET outer == f[k - 1]
                                 IN  IF IsSchema(refs, outer, "array") THEN Look(refs, outer, "items", NoKeys) ELSE outer]
            E == CHOOSE f : f = Body(f)
            Line(f, k) == IF k = 0 THEN Chased(refs, n) ELSE ElementOf(refs, f[k - 1])
<1>1. Summary(refs, n) = IF IsSchema(refs, E[RecursionLimit], "array") \/ Misshapen(refs, E[RecursionLimit])
                         THEN Raised ELSE E[RecursionLimit]
  BY Zenon DEF Summary
<1>2. \A f : Body(f) = [k \in K |-> Line(f, k)]
  BY Zenon DEF ElementOf
<1>3. PICK g : Descends(refs, g, n, RecursionLimit)
  BY DescendsExists, RecursionLimitAssumption
<1>. DEFINE F == [k \in K |-> g[k]]
<1>4. F = [k \in K |-> F[k]] /\ \A k \in K : F[k] = g[k]
  OBVIOUS
<1>. HIDE DEF F, Body, E
<1>5. ASSUME NEW k \in K PROVE F[k] = Line(F, k)
  <2>1. CASE k = 0
    BY <1>3, <1>4, <2>1 DEF Descends
  <2>2. CASE k # 0
    <3>1. k \in 1 .. RecursionLimit /\ k - 1 \in K
      BY <2>2, RecursionLimitAssumption
    <3>. QED  BY <1>3, <1>4, <2>2, <3>1 DEF Descends
  <2>. QED  BY <2>1, <2>2
<1>. HIDE DEF Line, K
<1>6. F = Body(F)
  <2>1. [k \in K |-> F[k]] = [k \in K |-> Line(F, k)]
    BY <1>5
  <2>. QED  BY <1>2, <1>4, <2>1
<1>7. E = Body(E)
  BY <1>6, Zenon DEF E
<1>8. ASSUME NEW k \in K PROVE E[k] = Line(E, k)
  <2>1. E = [j \in K |-> Line(E, j)]
    BY <1>2, <1>7
  <2>. QED  BY <2>1
<1>9. Descends(refs, E, n, RecursionLimit)
  <2>1. 0 \in K /\ \A k \in 1 .. RecursionLimit : k \in K /\ k # 0
    BY RecursionLimitAssumption DEF K
  <2>. QED  BY <1>8, <2>1 DEF Descends, Line
<1>. QED  BY <1>1, <1>9

\* It fails of a value that has been resolved as of the value.
LEMMA SummaryAlike ==
    ASSUME NEW refs, Fine(refs), NEW R, Resolving(refs, R), NEW r, NEW n, Alike(refs, R, r, n)
    PROVE  Summary(refs, r) = Raised <=> Summary(refs, n) = Raised
<1>1. PICK f : /\ Descends(refs, f, r, RecursionLimit)
               /\ Summary(refs, r) = IF IsSchema(refs, f[RecursionLimit], "array") \/ Misshapen(refs, f[RecursionLimit])
                                     THEN Raised ELSE f[RecursionLimit]
  BY SummaryIs
<1>2. PICK g : /\ Descends(refs, g, n, RecursionLimit)
               /\ Summary(refs, n) = IF IsSchema(refs, g[RecursionLimit], "array") \/ Misshapen(refs, g[RecursionLimit])
                                     THEN Raised ELSE g[RecursionLimit]
  BY SummaryIs
<1>3. Paired(refs, R, f[0], g[0])
  BY <1>1, <1>2, PairedChased DEF Descends
<1>4. ASSUME NEW x, NEW y, Paired(refs, R, x, y) PROVE Paired(refs, R, ElementOf(refs, x), ElementOf(refs, y))
  <2>1. IsSchema(refs, x, "array") <=> IsSchema(refs, y, "array")
    BY <1>4, PairedSchema
  <2>2. Paired(refs, R, Look(refs, x, "items", NoKeys), Look(refs, y, "items", NoKeys))
    BY <1>4, PairedLook
  <2>. QED  BY <1>4, <2>1, <2>2 DEF ElementOf
<1>. DEFINE Wrong == {k \in 0 .. RecursionLimit : ~Paired(refs, R, f[k], g[k])}
<1>5. Wrong = {}
  <2>. SUFFICES ASSUME Wrong # {} PROVE FALSE
    OBVIOUS
  <2>1. PICK k \in Wrong : \A j \in Wrong : k <= j
    <3>1. Wrong \in SUBSET Nat
      BY RecursionLimitAssumption
    <3>. HIDE DEF Wrong
    <3>. QED  BY <3>1, LeastMember
  <2>2. k \in 1 .. RecursionLimit /\ k - 1 \in 0 .. RecursionLimit /\ ~ k <= k - 1
    BY <1>3, <2>1, RecursionLimitAssumption
  <2>3. Paired(refs, R, f[k - 1], g[k - 1])
    BY <2>1, <2>2
  <2>4. f[k] = ElementOf(refs, f[k - 1]) /\ g[k] = ElementOf(refs, g[k - 1])
    BY <1>1, <1>2, <2>2 DEF Descends
  <2>5. Paired(refs, R, f[k], g[k])
    BY <1>4, <2>3, <2>4
  <2>. QED  BY <2>1, <2>5
<1>6. PICK x, y : x = f[RecursionLimit] /\ y = g[RecursionLimit]
  OBVIOUS
<1>7. Paired(refs, R, x, y)
  BY <1>5, <1>6, RecursionLimitAssumption
<1>8. IsSchema(refs, x, "array") <=> IsSchema(refs, y, "array")
  BY <1>7, PairedSchema
<1>9. Misshapen(refs, x) <=> Misshapen(refs, y)
  <2>1. IsSchema(refs, x, "object") <=> IsSchema(refs, y, "object")
    BY <1>7, PairedSchema
  <2>2. Paired(refs, R, Look(refs, x, "properties", NoKeys), Look(refs, y, "properties", NoKeys))
    BY <1>7, PairedLook
  <2>3. IsMap(Look(refs, x, "properties", NoKeys)) <=> IsMap(Look(refs, y, "properties", NoKeys))
    BY <2>2, PairedSame
  <2>4. (IsMap(x) <=> IsMap(y)) /\ (IsMap(x) => DOMAIN x.map = DOMAIN y.map)
    BY <1>7, PairedSame
  <2>5. IsRef(x) <=> IsRef(y)
    BY <2>4 DEF IsRef
  <2>6. CASE IsRef(x)
    BY <2>1, <2>3, <2>5, <2>6 DEF Misshapen
  <2>7. CASE ~IsRef(x)
    <3>1. Alike(refs, R, Get(x, "$ref", Null), Get(y, "$ref", Null))
      BY <1>7, <2>7, PairedGet
    <3>2. Paired(refs, R, Look(refs, x, "$ref", Null), Look(refs, y, "$ref", Null))
      BY <3>1, PairedChased DEF Look
    <3>3. IsText(Look(refs, x, "$ref", Null)) <=> IsText(Look(refs, y, "$ref", Null))
      BY <3>2, PairedSame
    <3>. QED  BY <2>1, <2>3, <2>4, <2>5, <3>3 DEF Misshapen
  <2>. QED  BY <2>6, <2>7
<1>10. x = Raised <=> y = Raised
  BY <1>7, PairedSame
<1>. QED  BY <1>1, <1>2, <1>6, <1>8, <1>9, <1>10

-----------------------------------------------------------------------------
(* When nothing can be said of a schema *)

\* A value whose pointers lead somewhere, or what stands for one that is missing
Clean(refs, v) == v = NoKeys \/ (v \in refs.values /\ Pointers(v) \subseteq Leading(refs, {}))

\* What is found in such a value is one.
LEMMA CleanLook ==
    ASSUME NEW refs, Fine(refs), NEW v, Clean(refs, v)
    PROVE  /\ Clean(refs, Chased(refs, v)) /\ v # Raised
           /\ \A key : key # "$ref" => Clean(refs, Get(v, key, NoKeys)) /\ Clean(refs, Look(refs, v, key, NoKeys))
<1>1. ASSUME NEW w, Clean(refs, w) PROVE Clean(refs, Chased(refs, w)) /\ w # Raised
  <2>1. CASE ~IsRef(w)
    <3>1. w # Raised
      BY <1>1, NoKidsInLeaves DEF Clean, Fine
    <3>. QED  BY <1>1, <2>1, <3>1, ChasedIs
  <2>2. CASE IsRef(w)
    <3>1. w \in refs.values /\ Pointers(w) \subseteq Leading(refs, {})
      BY <1>1, <2>2, NoKidsInLeaves DEF Clean
    <3>2. Target(w) \in Leading(refs, {}) /\ w # Raised
      BY <2>2, <3>1, FineKids
    <3>3. \A e \in Ends(refs, Target(w)) : e \in refs.values /\ Pointers(e) \subseteq Leading(refs, {})
      BY <3>2, EndsLead
    <3>4. Chased(refs, w) \in Ends(refs, Target(w)) \/ Chased(refs, w) = w
      BY <2>2, ChasedIs
    <3>. QED  BY <1>1, <3>2, <3>3, <3>4 DEF Clean
  <2>. QED  BY <2>1, <2>2
<1>2. ASSUME NEW key, key # "$ref" PROVE Clean(refs, Get(v, key, NoKeys))
  <2>1. CASE ~(IsMap(v) /\ key \in DOMAIN v.map)
    BY <2>1 DEF Get, Clean
  <2>2. CASE IsMap(v) /\ key \in DOMAIN v.map
    <3>1. v # NoKeys
      <4>1. NoKeys.map = <<>> /\ DOMAIN <<>> = {}
        BY KindsDiffer DEF NoKeys
      <4>. QED  BY <2>2, <4>1
    <3>2. v \in refs.values /\ Pointers(v) \subseteq Leading(refs, {})
      BY <3>1 DEF Clean
    <3>3. ~IsRef(v) /\ Kids(v) = v.map
      BY <1>2, <2>2 DEF IsRef, Kids
    <3>4. /\ v.map[key] \in refs.values
          /\ Pointers(v) = UNION {Pointers(Kids(v)[k]) : k \in DOMAIN Kids(v)}
      BY <2>2, <3>2, <3>3, FineKids
    <3>5. Pointers(v.map[key]) \subseteq Pointers(v)
      BY <2>2, <3>3, <3>4
    <3>. QED  BY <2>2, <3>2, <3>4, <3>5 DEF Get, Clean
  <2>. QED  BY <2>1, <2>2
<1>3. \A key : key # "$ref" => Clean(refs, Look(refs, v, key, NoKeys))
  BY <1>1, <1>2 DEF Look
<1>. QED  BY <1>1, <1>2, <1>3

\* The sequence of elements stays with the first that is no array.
LEMMA DescentStays ==
    ASSUME NEW refs, NEW n, NEW f, Descends(refs, f, n, RecursionLimit),
           NEW j \in 0 .. RecursionLimit, ~IsSchema(refs, f[j], "array")
    PROVE  \A k \in j .. RecursionLimit : f[k] = f[j]
<1>. DEFINE Wrong == {k \in j .. RecursionLimit : f[k] # f[j]}
<1>. SUFFICES ASSUME Wrong # {} PROVE FALSE
  OBVIOUS
<1>1. PICK k \in Wrong : \A i \in Wrong : k <= i
  <2>1. Wrong \in SUBSET Nat
    BY RecursionLimitAssumption
  <2>. HIDE DEF Wrong
  <2>. QED  BY <2>1, LeastMember
<1>2. k # j /\ k \in 1 .. RecursionLimit /\ k - 1 \in j .. RecursionLimit /\ ~ k <= k - 1
  BY <1>1, RecursionLimitAssumption
<1>3. f[k - 1] = f[j]
  BY <1>1, <1>2
<1>4. f[k] = ElementOf(refs, f[k - 1])
  BY <1>2 DEF Descends
<1>5. f[k] = f[j]
  BY <1>3, <1>4 DEF ElementOf
<1>. QED  BY <1>1, <1>5

\* Everything a schema is an array of, one after the other, is among its elements.
LEMMA DescentIn ==
    ASSUME NEW refs, Fine(refs), NEW n, Clean(refs, n), NEW f, Descends(refs, f, n, RecursionLimit)
    PROVE  \A k \in 0 .. RecursionLimit : Clean(refs, f[k]) /\ f[k] \in Elements(refs, n)
<1>. DEFINE arrays == {m \in refs.values : IsSchema(refs, m, "array")}
            items(m) == Look(refs, m, "items", NoKeys)
            g == [m \in arrays |-> {items(m)}]
            met == Reach(g, {Chased(refs, n)})
<1>1. Elements(refs, n) = {Chased(refs, n)} \cup {items(m) : m \in met}
  BY DEF Elements
<1>2. DOMAIN g = arrays /\ \A m \in arrays : g[m] = {items(m)}
  OBVIOUS
<1>. HIDE DEF g
<1>3. f[0] = Chased(refs, n) /\ \A k \in 1 .. RecursionLimit : f[k] = ElementOf(refs, f[k - 1])
  BY DEF Descends
<1>. DEFINE Good(k) == /\ Clean(refs, f[k]) /\ f[k] \in Elements(refs, n)
                       /\ IsSchema(refs, f[k], "array") => f[k] \in met
            Wrong == {k \in 0 .. RecursionLimit : ~Good(k)}
<1>4. ASSUME NEW v, Clean(refs, v), IsSchema(refs, v, "array") PROVE v \in arrays
  <2>1. v # NoKeys
    <3>1. TextAt(refs, NoKeys, "type") = ""
      <4>1. Get(NoKeys, "type", Null) = Null
        <5>1. NoKeys.map = <<>> /\ DOMAIN <<>> = {}
          BY KindsDiffer DEF NoKeys
        <5>. QED  BY <5>1 DEF Get
      <4>2. Chased(refs, Null) = Null /\ "text" \notin DOMAIN Null
        BY KindsDiffer, ChasedIs DEF IsRef
      <4>. QED  BY <4>1, <4>2 DEF TextAt, Look
    <3>. QED  BY <1>4, <3>1 DEF IsSchema
  <2>. QED  BY <1>4, <2>1 DEF Clean
<1>5. Good(0)
  <2>1. Clean(refs, f[0]) /\ f[0] \in Elements(refs, n)
    BY <1>1, <1>3, CleanLook
  <2>2. ASSUME IsSchema(refs, f[0], "array") PROVE f[0] \in met
    <3>1. f[0] \in arrays
      BY <1>4, <2>1, <2>2
    <3>2. {Chased(refs, n)} \cap DOMAIN g \subseteq Reach(g, {Chased(refs, n)})
      BY ReachIs
    <3>. QED  BY <1>2, <1>3, <3>1, <3>2
  <2>. QED  BY <2>1, <2>2
<1>6. ASSUME NEW k \in 1 .. RecursionLimit, Good(k - 1) PROVE Good(k)
  <2>1. PICK v : v = f[k - 1]
    OBVIOUS
  <2>2. f[k] = ElementOf(refs, v) /\ Clean(refs, v)
    BY <1>3, <1>6, <2>1
  <2>3. CASE ~IsSchema(refs, v, "array")
    <3>1. f[k] = f[k - 1]
      BY <2>1, <2>2, <2>3 DEF ElementOf
    <3>. QED  BY <1>6, <3>1
  <2>4. CASE IsSchema(refs, v, "array")
    <3>1. f[k] = items(v) /\ v \in met
      BY <1>6, <2>1, <2>2, <2>4 DEF ElementOf
    <3>2. Clean(refs, f[k])
      BY <2>2, <3>1, CleanLook
    <3>3. f[k] \in Elements(refs, n)
      BY <1>1, <3>1
    <3>4. ASSUME IsSchema(refs, f[k], "array") PROVE f[k] \in met
      <4>1. f[k] \in arrays /\ v \in arrays
        BY <1>4, <2>2, <2>4, <3>2, <3>4
      <4>2. \A u \in met : g[u] \cap DOMAIN g \subseteq met
        BY ReachIs
      <4>. QED  BY <1>2, <3>1, <4>1, <4>2
    <3>. QED  BY <3>2, <3>3, <3>4
  <2>. QED  BY <2>3, <2>4
<1>. HIDE DEF Good, met
<1>7. Wrong = {}
  <2>. SUFFICES ASSUME Wrong # {} PROVE FALSE
    OBVIOUS
  <2>1. PICK k \in Wrong : \A j \in Wrong : k <= j
    <3>1. Wrong \in SUBSET Nat
      BY RecursionLimitAssumption
    <3>. HIDE DEF Wrong
    <3>. QED  BY <3>1, LeastMember
  <2>2. k # 0
    BY <1>5, <2>1
  <2>3. k \in 1 .. RecursionLimit /\ k - 1 \in 0 .. RecursionLimit /\ ~ k <= k - 1
    BY <2>1, <2>2, RecursionLimitAssumption
  <2>4. Good(k - 1)
    BY <2>1, <2>3
  <2>. QED  BY <1>6, <2>1, <2>3, <2>4
<1>. QED  BY <1>7 DEF Good

\* Nothing else is, if whatever comes up to l does not lead further.
LEMMA DescentAll ==
    ASSUME NEW refs, NEW n, NEW f, Descends(refs, f, n, RecursionLimit), NEW l \in 0 .. RecursionLimit,
           \/ ~IsSchema(refs, f[l], "array")
           \/ \E i \in 0 .. l - 1 : f[i] = f[l]
    PROVE  \A m \in Elements(refs, n) : \E k \in 0 .. l : m = f[k]
<1>. DEFINE arrays == {m \in refs.values : IsSchema(refs, m, "array")}
            items(m) == Look(refs, m, "items", NoKeys)
            g == [m \in arrays |-> {items(m)}]
            C == {f[k] : k \in 0 .. l}
<1>1. Elements(refs, n) = {Chased(refs, n)} \cup {items(m) : m \in Reach(g, {Chased(refs, n)})}
  BY DEF Elements
<1>2. DOMAIN g = arrays /\ \A m \in arrays : g[m] = {items(m)}
  OBVIOUS
<1>. HIDE DEF g
<1>3. f[0] = Chased(refs, n) /\ \A k \in 1 .. RecursionLimit : f[k] = ElementOf(refs, f[k - 1])
  BY DEF Descends
<1>4. ASSUME NEW k \in 0 .. l, IsSchema(refs, f[k], "array") PROVE items(f[k]) \in C
  <2>1. ASSUME NEW j \in 0 .. l - 1, f[j] = f[k] PROVE items(f[k]) \in C
    <3>1. j + 1 \in 1 .. RecursionLimit /\ j + 1 \in 0 .. l /\ (j + 1) - 1 = j
      BY RecursionLimitAssumption
    <3>2. f[j + 1] = items(f[k])
      BY <1>3, <1>4, <2>1, <3>1 DEF ElementOf
    <3>. QED  BY <3>1, <3>2
  <2>2. CASE k \in 0 .. l - 1
    BY <2>1, <2>2
  <2>3. CASE k \notin 0 .. l - 1
    <3>1. k = l
      BY <2>3, RecursionLimitAssumption
    <3>2. PICK i \in 0 .. l - 1 : f[i] = f[l]
      BY <1>4, <3>1
    <3>. QED  BY <2>1, <3>1, <3>2
  <2>. QED  BY <2>2, <2>3
<1>5. Chased(refs, n) \in C
  <2>1. 0 \in 0 .. l
    BY RecursionLimitAssumption
  <2>. QED  BY <1>3, <2>1
<1>6. Reach(g, {Chased(refs, n)}) \subseteq C
  <2>1. \A u \in C : u \in DOMAIN g => g[u] \cap DOMAIN g \subseteq C
    BY <1>2, <1>4
  <2>. HIDE DEF C
  <2>. QED  BY <1>5, <2>1, ReachIs
<1>7. \A m \in Reach(g, {Chased(refs, n)}) : IsSchema(refs, m, "array")
  BY <1>2, ReachIs
<1>8. \A m \in Reach(g, {Chased(refs, n)}) : items(m) \in C
  <2>. SUFFICES ASSUME NEW m \in Reach(g, {Chased(refs, n)}) PROVE items(m) \in C
    OBVIOUS
  <2>1. m \in C
    BY <1>6
  <2>2. PICK k \in 0 .. l : m = f[k]
    BY <2>1
  <2>. QED  BY <1>4, <1>7, <2>2
<1>. QED  BY <1>1, <1>5, <1>8

\* Nothing can be said of a schema exactly if it is an array of arrays without
\* end, or one of something misshapen in the end.
LEMMA SummaryIff ==
    ASSUME NEW refs, Fine(refs), NEW n, Clean(refs, n)
    PROVE  Summary(refs, n) = Raised <=> Unsayable(refs, n)
<1>. DEFINE L == RecursionLimit
<1>1. PICK f : /\ Descends(refs, f, n, L)
               /\ Summary(refs, n) = IF IsSchema(refs, f[L], "array") \/ Misshapen(refs, f[L])
                                     THEN Raised ELSE f[L]
  BY SummaryIs
<1>2. L \in 0 .. L
  BY RecursionLimitAssumption
<1>3. \A k \in 0 .. L : Clean(refs, f[k]) /\ f[k] \in Elements(refs, n)
  BY <1>1, DescentIn
<1>4. Summary(refs, n) = Raised <=> IsSchema(refs, f[L], "array") \/ Misshapen(refs, f[L])
  <2>1. f[L] # Raised
    BY <1>2, <1>3, CleanLook
  <2>. QED  BY <1>1, <2>1
<1>5. Unsayable(refs, n) <=> \/ \A m \in Elements(refs, n) : IsSchema(refs, m, "array")
                             \/ \E m \in Elements(refs, n) : Misshapen(refs, m)
  BY DEF Unsayable
<1>6. CASE IsSchema(refs, f[L], "array")
  <2>1. \A k \in 0 .. L : IsSchema(refs, f[k], "array")
    <3>. SUFFICES ASSUME NEW k \in 0 .. L, ~IsSchema(refs, f[k], "array") PROVE FALSE
      OBVIOUS
    <3>1. L \in k .. L
      BY RecursionLimitAssumption
    <3>. QED  BY <1>1, <1>6, <3>1, DescentStays
  <2>2. PICK i \in 0 .. L, l \in 0 .. L : i < l /\ f[i] = f[l]
    <3>. DEFINE h == [k \in 0 .. L |-> f[k]]
    <3>1. h \in [0 .. L -> refs.values]
      <4>1. \A k \in 0 .. L : f[k] # NoKeys
        <5>1. "type" # "$ref" /\ TextAt(refs, NoKeys, "type") = ""
          <6>1. Get(NoKeys, "type", Null) = Null
            <7>1. NoKeys.map = <<>> /\ DOMAIN <<>> = {}
              BY KindsDiffer DEF NoKeys
            <7>. QED  BY <7>1 DEF Get
          <6>2. Chased(refs, Null) = Null /\ "text" \notin DOMAIN Null
            BY KindsDiffer, ChasedIs DEF IsRef
          <6>. QED  BY <6>1, <6>2 DEF TextAt, Look
        <5>. QED  BY <2>1, <5>1 DEF IsSchema
      <4>. QED  BY <1>3, <4>1 DEF Clean
    <3>2. IsFiniteSet(0 .. L) /\ Cardinality(0 .. L) = L + 1
      BY RecursionLimitAssumption, FS_Interval
    <3>3. IsFiniteSet(refs.values) /\ Cardinality(refs.values) < L
      BY DEF Fine
    <3>4. Cardinality(refs.values) \in Nat
      BY <3>3, FS_CardinalityType
    <3>5. Cardinality(refs.values) < Cardinality(0 .. L)
      BY <3>2, <3>3, <3>4, RecursionLimitAssumption
    <3>6. \A k \in 0 .. L : h[k] = f[k]
      OBVIOUS
    <3>. HIDE DEF h
    <3>7. PICK x \in 0 .. L, y \in 0 .. L : x # y /\ h[x] = h[y]
      BY <3>1, <3>2, <3>3, <3>5, FS_PigeonHole
    <3>8. f[x] = f[y] /\ (x < y \/ y < x)
      BY <3>6, <3>7, RecursionLimitAssumption
    <3>. QED  BY <3>8
  <2>3. i \in 0 .. l - 1
    BY <2>2, RecursionLimitAssumption
  <2>4. \A m \in Elements(refs, n) : \E k \in 0 .. l : m = f[k]
    BY <1>1, <2>2, <2>3, DescentAll
  <2>5. \A k \in 0 .. l : k \in 0 .. L
    BY RecursionLimitAssumption
  <2>6. \A m \in Elements(refs, n) : IsSchema(refs, m, "array")
    BY <2>1, <2>4, <2>5
  <2>. QED  BY <1>4, <1>5, <1>6, <2>6
<1>7. CASE ~IsSchema(refs, f[L], "array")
  <2>1. \A m \in Elements(refs, n) : \E k \in 0 .. L : m = f[k]
    BY <1>1, <1>2, <1>7, DescentAll
  <2>2. ASSUME NEW m \in Elements(refs, n), Misshapen(refs, m) PROVE m = f[L]
    <3>1. PICK k \in 0 .. L : m = f[k]
      BY <2>1
    <3>2. ~IsSchema(refs, f[k], "array")
      BY <2>2, <3>1 DEF Misshapen, IsSchema
    <3>3. L \in k .. L
      BY RecursionLimitAssumption
    <3>. QED  BY <1>1, <3>1, <3>2, <3>3, DescentStays
  <2>3. f[L] \in Elements(refs, n)
    BY <1>2, <1>3
  <2>. QED  BY <1>4, <1>5, <1>7, <2>2, <2>3
<1>. QED  BY <1>6, <1>7

-----------------------------------------------------------------------------
(* Elements picked out of a sequence *)

\* One-to-one and onto
LEMMA BijectionIs ==
    ASSUME NEW S, NEW T, NEW f
    PROVE  f \in Bijection(S, T) <=>
              /\ f \in [S -> T]
              /\ \A x, y \in S : f[x] = f[y] => x = y
              /\ \A t \in T : \E x \in S : f[x] = t
<1>1. f \in Bijection(S, T) <=> f \in Injection(S, T) /\ f \in Surjection(S, T)
  BY DEF Bijection
<1>2. f \in Injection(S, T) <=> f \in [S -> T] /\ IsInjective(f)
  BY DEF Injection
<1>3. f \in Surjection(S, T) <=> f \in [S -> T] /\ \A t \in T : \E x \in S : f[x] = t
  BY DEF Surjection
<1>4. f \in [S -> T] => (IsInjective(f) <=> \A x, y \in S : f[x] = f[y] => x = y)
  BY DEF IsInjective
<1>. QED  BY <1>1, <1>2, <1>3, <1>4

\* The elements at the positions in I are picked, each once.
LEMMA PickedIs ==
    ASSUME NEW s, NEW n \in Nat, s = [i \in 1 .. n |-> s[i]], NEW I \in SUBSET (1 .. n)
    PROVE  /\ Picked(s, I) \in Seq(Range(s))
           /\ \E b \in Bijection(1 .. Len(Picked(s, I)), I) : \A p \in 1 .. Len(Picked(s, I)) : Picked(s, I)[p] = s[b[p]]
<1>. DEFINE S == Range(s)
            ss == [i \in 1 .. n |-> IF i \in I THEN <<s[i]>> ELSE <<>>]
<1>1. DOMAIN s = 1 .. n /\ \A i \in 1 .. n : s[i] \in S
  BY DEF Range
<1>2. Picked(s, I) = FlattenSeq(ss)
  BY <1>1 DEF Picked
<1>. HIDE DEF S
<1>3. ss \in Seq(Seq(S)) /\ Len(ss) = n
  <2>1. \A i \in 1 .. n : ss[i] \in Seq(S)
    BY <1>1
  <2>2. ss \in [1 .. n -> Seq(S)]
    BY <2>1
  <2>. HIDE DEF ss
  <2>. QED  BY <2>2
<1>4. ASSUME NEW i \in 1 .. n PROVE Len(ss[i]) = (IF i \in I THEN 1 ELSE 0) /\ (i \in I => ss[i][1] = s[i])
  OBVIOUS
<1>. HIDE DEF ss
<1>5. PICK t, at : t = Picked(s, I) /\ t \in Seq(S) /\ Stands(at, ss, t)
  BY <1>2, <1>3, FlattenIs
<1>6. /\ at \in [0 .. n -> Nat] /\ \A j \in 1 .. n : at[j] = at[j - 1] + Len(ss[j])
      /\ \A j \in 1 .. n : \A k \in 1 .. Len(ss[j]) : at[j - 1] + k \in 1 .. Len(t) /\ t[at[j - 1] + k] = ss[j][k]
  BY <1>3, <1>5 DEF Stands
<1>7. ASSUME NEW i \in 1 .. n PROVE \A j \in i .. n : at[i] <= at[j]
  <2>. DEFINE Wrong == {j \in i .. n : ~ at[i] <= at[j]}
  <2>. SUFFICES ASSUME Wrong # {} PROVE FALSE
    BY Zenon
  <2>1. PICK j \in Wrong : \A k \in Wrong : j <= k
    <3>1. Wrong \in SUBSET Nat
      OBVIOUS
    <3>. HIDE DEF Wrong
    <3>. QED  BY <3>1, LeastMember
  <2>2. j \in i .. n /\ ~ at[i] <= at[j]
    BY <2>1
  <2>3. at[i] \in Nat /\ at[j] \in Nat
    BY <1>6, <2>2
  <2>4. j # i
    BY <2>2, <2>3
  <2>5. j - 1 \in i .. n /\ ~ j <= j - 1 /\ j \in 1 .. n /\ j - 1 \in 0 .. n
    BY <2>2, <2>4
  <2>6. at[i] <= at[j - 1] /\ at[j - 1] \in Nat
    BY <1>6, <2>1, <2>5
  <2>7. at[j] = at[j - 1] + Len(ss[j]) /\ Len(ss[j]) \in Nat
    BY <1>4, <1>6, <2>5
  <2>. QED  BY <2>2, <2>3, <2>6, <2>7
<1>. DEFINE e == [i \in I |-> at[i - 1] + 1]
<1>8. ASSUME NEW i \in I PROVE e[i] \in 1 .. Len(t) /\ t[e[i]] = s[i] /\ at[i] = e[i] /\ i \in 1 .. n
  <2>1. i \in 1 .. n /\ e[i] = at[i - 1] + 1
    OBVIOUS
  <2>. HIDE DEF e
  <2>2. Len(ss[i]) = 1 /\ ss[i][1] = s[i] /\ 1 \in 1 .. Len(ss[i])
    <3>1. Len(ss[i]) = IF i \in I THEN 1 ELSE 0
      BY <1>4, <2>1
    <3>2. ss[i][1] = s[i]
      BY <1>4, <2>1
    <3>. QED  BY <3>1, <3>2
  <2>3. e[i] \in 1 .. Len(t) /\ t[e[i]] = ss[i][1] /\ at[i] = at[i - 1] + 1
    BY <1>6, <2>1, <2>2
  <2>. QED  BY <2>1, <2>2, <2>3
<1>9. ASSUME NEW p \in 1 .. Len(t) PROVE \E i \in I : e[i] = p
  <2>1. Len(ss) \in Nat /\ \A j \in 1 .. Len(ss) : Len(ss[j]) \in Nat
    BY <1>3, <1>4
  <2>2. Placed(at, ss, p)
    BY <1>5, <2>1, StandsFull
  <2>3. PICK j \in 1 .. n : \E k \in 1 .. Len(ss[j]) : p = at[j - 1] + k
    BY <1>3, <2>2 DEF Placed
  <2>4. j \in I /\ p = at[j - 1] + 1
    BY <1>4, <2>3
  <2>. QED  BY <2>4
<1>10. ASSUME NEW i \in I, NEW j \in I, e[i] = e[j] PROVE i = j
  <2>1. ASSUME NEW x \in I, NEW y \in I, x < y PROVE e[x] < e[y]
    <3>1. x \in 1 .. n /\ y - 1 \in x .. n /\ y - 1 \in 0 .. n
      BY <2>1
    <3>2. at[x] <= at[y - 1] /\ at[y - 1] \in Nat /\ at[x] \in Nat
      BY <1>6, <1>7, <3>1
    <3>3. e[y] = at[y - 1] + 1 /\ at[x] = e[x]
      BY <1>8
    <3>. HIDE DEF e
    <3>. QED  BY <3>2, <3>3
  <2>. HIDE DEF e
  <2>2. e[i] \in Nat /\ e[j] \in Nat /\ i \in Nat /\ j \in Nat
    <3>1. e[i] \in 1 .. Len(t) /\ e[j] \in 1 .. Len(t) /\ i \in 1 .. n /\ j \in 1 .. n
      BY <1>8
    <3>. QED  BY <1>5, <3>1
  <2>. QED  BY <1>10, <2>1, <2>2
<1>. HIDE DEF e
<1>. DEFINE b == [p \in 1 .. Len(t) |-> CHOOSE i \in I : e[i] = p]
<1>11. ASSUME NEW p \in 1 .. Len(t) PROVE b[p] \in I /\ e[b[p]] = p
  <2>1. b[p] = CHOOSE i \in I : e[i] = p
    OBVIOUS
  <2>. HIDE DEF b
  <2>. QED  BY <1>9, <2>1
<1>12. b = [p \in 1 .. Len(t) |-> b[p]]
  OBVIOUS
<1>. HIDE DEF b
<1>13. b \in Bijection(1 .. Len(t), I)
  <2>1. b \in [1 .. Len(t) -> I]
    BY <1>11, <1>12
  <2>2. \A x, y \in 1 .. Len(t) : b[x] = b[y] => x = y
    BY <1>11
  <2>3. \A i \in I : \E p \in 1 .. Len(t) : b[p] = i
    <3>. SUFFICES ASSUME NEW i \in I PROVE \E p \in 1 .. Len(t) : b[p] = i
      OBVIOUS
    <3>1. e[i] \in 1 .. Len(t)
      BY <1>8
    <3>2. b[e[i]] = i
      BY <1>10, <1>11, <3>1
    <3>. QED  BY <3>1, <3>2
  <2>. QED  BY <2>1, <2>2, <2>3, BijectionIs
<1>14. \A p \in 1 .. Len(t) : t[p] = s[b[p]]
  BY <1>8, <1>11
<1>. QED  BY <1>5, <1>13, <1>14 DEF S

-----------------------------------------------------------------------------
(* Parameters *)

\* The least and the greatest of some positions
LEMMA MinMaxIs ==
    ASSUME NEW n \in Nat, NEW S \in SUBSET (1 .. n), S # {}
    PROVE  /\ Min(S) \in S /\ \A x \in S : Min(S) <= x
           /\ Max(S) \in S /\ \A x \in S : x <= Max(S)
<1>1. \E x \in S : \A y \in S : x <= y
  <2>1. S \in SUBSET Nat
    OBVIOUS
  <2>. QED  BY <2>1, LeastMember
<1>2. \E x \in S : \A y \in S : y <= x
  <2>1. S \in SUBSET (0 .. n)
    OBVIOUS
  <2>. QED  BY <2>1, GreatestMember
<1>3. \A x, y \in S : (x >= y) <=> (y <= x)
  OBVIOUS
<1>4. Min(S) \in S /\ \A x \in S : Min(S) <= x
  BY <1>1 DEF Min
<1>5. Max(S) \in S /\ \A x \in S : x <= Max(S)
  BY <1>2, <1>3 DEF Max
<1>. QED  BY <1>4, <1>5

\* params are those of all that no later one is in the place of, each once.
Lasts(refs, all) ==
    {i \in DOMAIN all : IsMap(all[i]) /\ \A j \in DOMAIN all :
        IsMap(all[j]) /\ Key(refs, all[j]) = Key(refs, all[i]) => j <= i}

\* A dict that is set in a loop has the last value of each key.
LEMMA MergeIs ==
    ASSUME NEW refs, NEW listed, NEW n \in Nat, DOMAIN listed = 1 .. n,
           NEW all, all = Resolutions(refs, listed), \A i \in 1 .. n : all[i] # Raised,
           NEW params, params = Merge(refs, listed)
    PROVE  /\ DOMAIN params = 1 .. Len(params) /\ Len(params) \in Nat
           /\ \E c \in Bijection(1 .. Len(params), Lasts(refs, all)) : \A p \in 1 .. Len(params) : params[p] = all[c[p]]
<1>. DEFINE same(i) == Same(refs, all, i)
            firsts == Firsts(refs, all)
            s == [i \in 1 .. n |-> IF i \in firsts THEN all[Max(same(i))] ELSE Raised]
            L == Lasts(refs, all)
<1>1. DOMAIN all = 1 .. n
  BY DEF Resolutions
<1>2. ~AnyRaised(Range(all))
  BY <1>1 DEF AnyRaised, Range
<1>3. params = Picked(s, firsts)
  <2>1. Merge(refs, listed) = IF AnyRaised(Range(Resolutions(refs, listed))) THEN <<Raised>>
            ELSE Picked([i \in DOMAIN Resolutions(refs, listed) |->
                            IF i \in Firsts(refs, Resolutions(refs, listed))
                            THEN Resolutions(refs, listed)[Max(Same(refs, Resolutions(refs, listed), i))] ELSE Raised],
                        Firsts(refs, Resolutions(refs, listed)))
    BY Zenon DEF Merge
  <2>. QED  BY <1>1, <1>2, <2>1
<1>4. s = [i \in 1 .. n |-> s[i]] /\ \A i \in firsts : i \in 1 .. n => s[i] = all[Max(same(i))]
  OBVIOUS
<1>5. firsts \in SUBSET (1 .. n) /\ \A i : same(i) \in SUBSET (1 .. n)
  BY <1>1 DEF Firsts, Same
<1>6. L = {i \in 1 .. n : IsMap(all[i]) /\ \A j \in same(i) : j <= i}
  BY <1>1 DEF Lasts, Same
<1>7. \A i \in firsts : i \in 1 .. n /\ IsMap(all[i]) /\ i = Min(same(i))
  BY <1>1 DEF Firsts
<1>8. \A i \in 1 .. n : IsMap(all[i]) => i \in same(i)
  BY <1>1 DEF Same
<1>9. \A i, j \in 1 .. n : j \in same(i) => same(j) = same(i) /\ IsMap(all[j])
  BY <1>1 DEF Same
<1>10. \A i \in 1 .. n : IsMap(all[i]) /\ i = Min(same(i)) => i \in firsts
  BY <1>1 DEF Firsts
<1>. HIDE DEF s, firsts, same, L
<1>11. ASSUME NEW i \in 1 .. n, IsMap(all[i])
       PROVE  /\ Min(same(i)) \in same(i) /\ \A x \in same(i) : Min(same(i)) <= x
              /\ Max(same(i)) \in same(i) /\ \A x \in same(i) : x <= Max(same(i))
  <2>1. same(i) # {}
    BY <1>8, <1>11
  <2>. QED  BY <1>5, <2>1, MinMaxIs
<1>13. /\ params \in Seq(Range(s))
       /\ \E b \in Bijection(1 .. Len(params), firsts) : \A p \in 1 .. Len(params) : params[p] = s[b[p]]
  <2>1. /\ Picked(s, firsts) \in Seq(Range(s))
        /\ \E b \in Bijection(1 .. Len(Picked(s, firsts)), firsts) :
              \A p \in 1 .. Len(Picked(s, firsts)) : Picked(s, firsts)[p] = s[b[p]]
    <3>1. s = [i \in 1 .. n |-> s[i]]
      BY <1>4
    <3>2. firsts \in SUBSET (1 .. n)
      BY <1>5
    <3>. QED  BY <3>1, <3>2, PickedIs, Zenon
  <2>. QED  BY <1>3, <2>1, Zenon
<1>12. PICK b \in Bijection(1 .. Len(params), firsts) : \A p \in 1 .. Len(params) : params[p] = s[b[p]]
  BY <1>13
<1>14. /\ \A p \in 1 .. Len(params) : b[p] \in firsts
       /\ \A p, q \in 1 .. Len(params) : b[p] = b[q] => p = q
       /\ \A i \in firsts : \E p \in 1 .. Len(params) : b[p] = i
  <2>1. /\ b \in [1 .. Len(params) -> firsts]
        /\ \A p, q \in 1 .. Len(params) : b[p] = b[q] => p = q
        /\ \A i \in firsts : \E p \in 1 .. Len(params) : b[p] = i
    BY <1>12, BijectionIs
  <2>. QED  BY <2>1
<1>. DEFINE c == [p \in 1 .. Len(params) |-> Max(same(b[p]))]
<1>15. c = [p \in 1 .. Len(params) |-> c[p]] /\ \A p \in 1 .. Len(params) : c[p] = Max(same(b[p]))
  OBVIOUS
<1>. HIDE DEF c
<1>16. ASSUME NEW i \in firsts PROVE Max(same(i)) \in L /\ same(Max(same(i))) = same(i)
  <2>1. Max(same(i)) \in same(i) /\ \A x \in same(i) : x <= Max(same(i))
    BY <1>7, <1>11
  <2>2. PICK l : l = Max(same(i))
    OBVIOUS
  <2>3. l \in 1 .. n /\ same(l) = same(i) /\ IsMap(all[l])
    BY <1>5, <1>7, <1>9, <2>1, <2>2
  <2>. QED  BY <1>6, <2>1, <2>2, <2>3
<1>17. ASSUME NEW p \in 1 .. Len(params), NEW q \in 1 .. Len(params), c[p] = c[q] PROVE p = q
  <2>1. same(b[p]) = same(b[q])
    BY <1>14, <1>15, <1>16, <1>17
  <2>2. b[p] = b[q]
    BY <1>7, <1>14, <2>1
  <2>. QED  BY <1>14, <2>2
<1>18. ASSUME NEW l \in L PROVE \E p \in 1 .. Len(params) : c[p] = l
  <2>1. l \in 1 .. n /\ IsMap(all[l]) /\ \A j \in same(l) : j <= l
    BY <1>6
  <2>2. PICK i : i = Min(same(l))
    OBVIOUS
  <2>3. i \in same(l) /\ Max(same(l)) \in same(l) /\ l \in same(l) /\ \A x \in same(l) : x <= Max(same(l))
    BY <1>8, <1>11, <2>1, <2>2
  <2>4. i \in 1 .. n /\ same(i) = same(l) /\ IsMap(all[i])
    BY <1>5, <1>9, <2>1, <2>3
  <2>5. i \in firsts
    BY <1>10, <2>2, <2>4
  <2>6. Max(same(i)) = l
    <3>1. Max(same(l)) <= l /\ l <= Max(same(l)) /\ Max(same(l)) \in 1 .. n
      BY <1>5, <2>1, <2>3
    <3>. QED  BY <2>1, <2>4, <3>1
  <2>7. PICK p \in 1 .. Len(params) : b[p] = i
    BY <1>14, <2>5
  <2>. QED  BY <1>15, <2>6, <2>7
<1>19. c \in Bijection(1 .. Len(params), L)
  <2>1. c \in [1 .. Len(params) -> L]
    BY <1>14, <1>15, <1>16
  <2>. QED  BY <1>17, <1>18, <2>1, BijectionIs
<1>20. ASSUME NEW p \in 1 .. Len(params) PROVE params[p] = all[c[p]]
  <2>1. params[p] = s[b[p]] /\ b[p] \in firsts
    BY <1>12, <1>14
  <2>2. s[b[p]] = all[Max(same(b[p]))] /\ c[p] = Max(same(b[p]))
    BY <1>4, <1>7, <1>15, <2>1
  <2>. QED  BY <2>1, <2>2
<1>21. DOMAIN params = 1 .. Len(params) /\ Len(params) \in Nat
  BY <1>13
<1>. QED  BY <1>19, <1>20, <1>21 DEF L

\* R is what deep_resolve computes with.
Solves(refs, R) == Resolving(refs, R) /\ \A n : DeepResolve(refs, n) = R[RecursionLimit][<<n, {}>>]

\* There is such an R.
LEMMA Solved == \A refs : \E R : Solves(refs, R)
  BY ResolvingIs, Zenon DEF Solves

\* A resolved value is told apart from what the value leads to in nothing that
\* is looked at.
LEMMA SolvedIs ==
    ASSUME NEW refs, Fine(refs), NEW R, Solves(refs, R), NEW n \in refs.values, DeepResolve(refs, n) # Raised
    PROVE  Paired(refs, R, DeepResolve(refs, n), Chased(refs, n))
<1>1. Resolving(refs, R) /\ DeepResolve(refs, n) = R[RecursionLimit][<<n, {}>>]
  BY Zenon DEF Solves
<1>2. R[RecursionLimit][<<n, {}>>] # Raised
  BY <1>1
<1>3. Paired(refs, R, R[RecursionLimit][<<n, {}>>], Chased(refs, n))
  BY <1>1, <1>2, ResolvedIsPaired, Zenon
<1>. QED  BY <1>1, <1>3, Zenon

\* The keys of what is paired are the same.
LEMMA PairedKey ==
    ASSUME NEW refs, Fine(refs), NEW R, Resolving(refs, R), NEW x, NEW y, Paired(refs, R, x, y)
    PROVE  Key(refs, x) = Key(refs, y)
<1>1. ASSUME NEW key \in {"name", "in"}
      PROVE  Spelled(Look(refs, x, key, Text(""))) = Spelled(Look(refs, y, key, Text("")))
  <2>1. key # "$ref"
    OBVIOUS
  <2>2. Paired(refs, R, Look(refs, x, key, Text("")), Look(refs, y, key, Text("")))
    BY <2>1, PairedLook
  <2>. QED  BY <2>2, PairedSame
<1>. QED  BY <1>1 DEF Key

\* Resolved or not, the same parameters are last of their name and place.
LEMMA LastsAre ==
    ASSUME NEW refs, Fine(refs), NEW R, Solves(refs, R), NEW listed, NEW m \in Nat, DOMAIN listed = 1 .. m,
           \A i \in 1 .. m : listed[i] \in refs.values /\ DeepResolve(refs, listed[i]) # Raised
    PROVE  Lasts(refs, Resolutions(refs, listed)) = Lasting(refs, listed)
<1>. DEFINE all == Resolutions(refs, listed)
            ends == [i \in DOMAIN listed |-> Chased(refs, listed[i])]
<1>1. DOMAIN all = 1 .. m /\ \A i \in 1 .. m : all[i] = DeepResolve(refs, listed[i])
  BY DEF Resolutions
<1>2. DOMAIN ends = 1 .. m /\ \A i \in 1 .. m : ends[i] = Chased(refs, listed[i])
  OBVIOUS
<1>3. Lasting(refs, listed) =
        {i \in DOMAIN ends : IsMap(ends[i]) /\ \A j \in DOMAIN ends :
            IsMap(ends[j]) /\ Key(refs, ends[j]) = Key(refs, ends[i]) => j <= i}
  BY Zenon DEF Lasting
<1>4. Lasts(refs, all) =
        {i \in DOMAIN all : IsMap(all[i]) /\ \A j \in DOMAIN all :
            IsMap(all[j]) /\ Key(refs, all[j]) = Key(refs, all[i]) => j <= i}
  BY Zenon DEF Lasts
<1>. HIDE DEF all, ends
<1>5. Resolving(refs, R)
  BY DEF Solves
<1>6. ASSUME NEW i \in 1 .. m PROVE (IsMap(all[i]) <=> IsMap(ends[i])) /\ Key(refs, all[i]) = Key(refs, ends[i])
  <2>1. Paired(refs, R, DeepResolve(refs, listed[i]), Chased(refs, listed[i]))
    BY SolvedIs, Zenon
  <2>2. Paired(refs, R, all[i], ends[i])
    BY <1>1, <1>2, <2>1, Zenon
  <2>3. IsMap(all[i]) <=> IsMap(ends[i])
    BY <2>2, PairedSame, Zenon
  <2>4. Key(refs, all[i]) = Key(refs, ends[i])
    BY <1>5, <2>2, PairedKey, Zenon
  <2>. QED  BY <2>3, <2>4
<1>7. Lasts(refs, all) = Lasting(refs, listed)
  BY <1>1, <1>2, <1>3, <1>4, <1>6
<1>. QED  BY <1>7 DEF all

\* params has each of listed that is last of its name and place, resolved, once.
Merged(refs, listed, params) ==
    /\ DOMAIN params = 1 .. Len(params) /\ Len(params) = Cardinality(Lasting(refs, listed))
    /\ \A p \in DOMAIN params : \E i \in Lasting(refs, listed) : params[p] = DeepResolve(refs, listed[i])
    /\ \A i \in Lasting(refs, listed) : \E p \in DOMAIN params : params[p] = DeepResolve(refs, listed[i])
    /\ Lasting(refs, listed) \subseteq DOMAIN listed

\* That is what the parameters become.
LEMMA MergedIs ==
    ASSUME NEW refs, Fine(refs), NEW R, Solves(refs, R), NEW listed, NEW m \in Nat, DOMAIN listed = 1 .. m,
           \A i \in 1 .. m : listed[i] \in refs.values /\ DeepResolve(refs, listed[i]) # Raised,
           NEW params, params = Merge(refs, listed)
    PROVE  Merged(refs, listed, params)
<1>. DEFINE L == Lasting(refs, listed)
<1>1. PICK all : all = Resolutions(refs, listed)
  OBVIOUS
<1>2. \A i \in 1 .. m : all[i] = DeepResolve(refs, listed[i])
  BY <1>1 DEF Resolutions
<1>3. /\ DOMAIN params = 1 .. Len(params) /\ Len(params) \in Nat
      /\ \E c \in Bijection(1 .. Len(params), Lasts(refs, all)) : \A p \in 1 .. Len(params) : params[p] = all[c[p]]
  <2>1. \A i \in 1 .. m : all[i] # Raised
    BY <1>2
  <2>. QED  BY <1>1, <2>1, MergeIs
<1>4. Lasts(refs, all) = L
  BY <1>1, LastsAre, Zenon
<1>5. PICK c \in Bijection(1 .. Len(params), L) : \A p \in 1 .. Len(params) : params[p] = all[c[p]]
  BY <1>3, <1>4
<1>6. L \subseteq 1 .. m
  <2>1. Lasts(refs, all) \subseteq DOMAIN all /\ DOMAIN all = 1 .. m
    BY <1>1 DEF Lasts, Resolutions
  <2>. QED  BY <1>4, <2>1
<1>. HIDE DEF L
<1>7. /\ c \in [1 .. Len(params) -> L]
      /\ \A i \in L : \E p \in 1 .. Len(params) : c[p] = i
  BY <1>5, BijectionIs
<1>8. Len(params) = Cardinality(L)
  <2>1. IsFiniteSet(1 .. Len(params)) /\ Cardinality(1 .. Len(params)) = Len(params)
    <3>1. \A k \in Nat : IsFiniteSet(1 .. k) /\ Cardinality(1 .. k) = k
      BY FS_Interval
    <3>. QED  BY <1>3, <3>1
  <2>2. ExistsBijection(1 .. Len(params), L)
    BY <1>5 DEF ExistsBijection
  <2>. QED  BY <2>1, <2>2, FS_Bijection
<1>9. ASSUME NEW p \in DOMAIN params PROVE \E i \in L : params[p] = DeepResolve(refs, listed[i])
  <2>1. p \in 1 .. Len(params) /\ c[p] \in L
    BY <1>3, <1>7
  <2>2. params[p] = all[c[p]] /\ all[c[p]] = DeepResolve(refs, listed[c[p]])
    BY <1>2, <1>5, <1>6, <2>1
  <2>. QED  BY <2>1, <2>2
<1>10. ASSUME NEW i \in L PROVE \E p \in DOMAIN params : params[p] = DeepResolve(refs, listed[i])
  <2>1. PICK p \in 1 .. Len(params) : c[p] = i
    BY <1>7
  <2>2. params[p] = all[i] /\ all[i] = DeepResolve(refs, listed[i])
    BY <1>2, <1>5, <1>6, <2>1
  <2>. QED  BY <1>3, <2>1, <2>2
<1>. QED  BY <1>3, <1>6, <1>8, <1>9, <1>10 DEF L, Merged

-----------------------------------------------------------------------------
(* When nothing can be said of a parameter or a body *)

\* Of what is not a mapping something can always be said.
LEMMA LeafSayable ==
    ASSUME NEW refs, NEW v, ~IsMap(v), v # Raised
    PROVE  Summary(refs, v) # Raised
<1>1. PICK f : /\ Descends(refs, f, v, RecursionLimit)
               /\ Summary(refs, v) = IF IsSchema(refs, f[RecursionLimit], "array") \/ Misshapen(refs, f[RecursionLimit])
                                     THEN Raised ELSE f[RecursionLimit]
  BY SummaryIs, Zenon
<1>2. Chased(refs, v) = v
  <2>1. ~IsRef(v)
    BY DEF IsRef
  <2>. QED  BY <2>1, ChasedIs, Zenon
<1>3. f[0] = v
  BY <1>1, <1>2 DEF Descends
<1>4. ~IsSchema(refs, v, "array") /\ ~Misshapen(refs, v)
  BY DEF IsSchema, Misshapen
<1>5. 0 \in 0 .. RecursionLimit /\ RecursionLimit \in 0 .. RecursionLimit
  BY RecursionLimitAssumption
<1>6. f[RecursionLimit] = v
  <2>1. ~IsSchema(refs, f[0], "array")
    BY <1>3, <1>4
  <2>2. \A k \in 0 .. RecursionLimit : f[k] = f[0]
    BY <1>1, <1>5, <2>1, DescentStays, Zenon
  <2>. QED  BY <1>3, <1>5, <2>2
<1>. QED  BY <1>1, <1>4, <1>6

\* Nor does it fail of what is missing.
LEMMA NoKeysSayable == ASSUME NEW refs, Fine(refs) PROVE Summary(refs, NoKeys) # Raised
<1>1. PICK f : /\ Descends(refs, f, NoKeys, RecursionLimit)
               /\ Summary(refs, NoKeys) = IF IsSchema(refs, f[RecursionLimit], "array") \/ Misshapen(refs, f[RecursionLimit])
                                          THEN Raised ELSE f[RecursionLimit]
  BY SummaryIs, Zenon
<1>2. Chased(refs, NoKeys) = NoKeys /\ Chased(refs, Null) = Null
  <2>1. ~IsRef(NoKeys) /\ ~IsRef(Null)
    BY KindsDiffer, NoKidsInLeaves DEF IsRef
  <2>. QED  BY <2>1, ChasedIs, Zenon
<1>3. \A key : Get(NoKeys, key, Null) = Null
  BY NoKidsInLeaves DEF Get, Kids
<1>4. TextAt(refs, NoKeys, "type") = ""
  <2>1. Look(refs, NoKeys, "type", Null) = Null
    BY <1>2, <1>3 DEF Look
  <2>. QED  BY <2>1, KindsDiffer DEF TextAt
<1>5. ~IsSchema(refs, NoKeys, "array") /\ ~Misshapen(refs, NoKeys)
  <2>1. DOMAIN NoKeys.map = {}
    BY NoKidsInLeaves DEF Kids
  <2>. QED  BY <1>4, <2>1 DEF IsSchema, Misshapen
<1>6. f[0] = NoKeys
  BY <1>1, <1>2 DEF Descends
<1>7. 0 \in 0 .. RecursionLimit /\ RecursionLimit \in 0 .. RecursionLimit
  BY RecursionLimitAssumption
<1>8. f[RecursionLimit] = NoKeys
  <2>1. ~IsSchema(refs, f[0], "array")
    BY <1>5, <1>6
  <2>2. \A k \in 0 .. RecursionLimit : f[k] = f[0]
    BY <1>1, <1>7, <2>1, DescentStays, Zenon
  <2>. QED  BY <1>6, <1>7, <2>2
<1>. QED  BY <1>1, <1>5, <1>8, NoKidsInLeaves

\* The schema of a value, wherever it leads
SchemaOf(refs, n) == Get(Chased(refs, n), "schema", NoKeys)

\* A resolved parameter is described exactly if the schema it leads to can be.
LEMMA DescribedIff ==
    ASSUME NEW refs, Fine(refs), NEW R, Solves(refs, R), NEW n \in refs.values, DeepResolve(refs, n) # Raised
    PROVE  Described(refs, DeepResolve(refs, n)) = Raised <=> Unsayable(refs, SchemaOf(refs, n))
<1>1. PICK d : d = DeepResolve(refs, n)
  OBVIOUS
<1>2. PICK y : y = Chased(refs, n)
  OBVIOUS
<1>3. Paired(refs, R, d, y) /\ Resolving(refs, R)
  BY <1>1, <1>2, SolvedIs, Zenon DEF Solves
<1>4. Alike(refs, R, Get(d, "schema", NoKeys), Get(y, "schema", NoKeys))
  <2>1. \/ Alike(refs, R, Get(d, "schema", NoKeys), Get(y, "schema", NoKeys))
        \/ "schema" = "$ref"
    BY <1>3, PairedGet
  <2>. QED  BY <2>1
<1>5. Summary(refs, Get(d, "schema", NoKeys)) = Raised <=> Summary(refs, Get(y, "schema", NoKeys)) = Raised
  BY <1>3, <1>4, SummaryAlike, Zenon
<1>6. Clean(refs, Get(y, "schema", NoKeys))
  <2>1. Clean(refs, n)
    BY ResolvesIff, Zenon DEF Clean
  <2>2. Clean(refs, y)
    BY <1>2, <2>1, CleanLook, Zenon
  <2>. QED  BY <2>2, CleanLook, "schema" # "$ref", Zenon
<1>7. Summary(refs, Get(y, "schema", NoKeys)) = Raised <=> Unsayable(refs, Get(y, "schema", NoKeys))
  BY <1>6, SummaryIff, Zenon
<1>8. Described(refs, d) = Summary(refs, Get(d, "schema", NoKeys))
  BY Zenon DEF Described
<1>9. SchemaOf(refs, n) = Get(y, "schema", NoKeys)
  BY <1>2, Zenon DEF SchemaOf
<1>. QED  BY <1>1, <1>5, <1>7, <1>8, <1>9, Zenon

\* Whatever stands in a value whose pointers lead somewhere is one.
LEMMA CleanKids ==
    ASSUME NEW refs, Fine(refs), NEW v, Clean(refs, v), IsMap(v), NEW key \in DOMAIN v.map
    PROVE  Clean(refs, v.map[key])
<1>1. v # NoKeys
  BY NoKidsInLeaves DEF Kids
<1>2. v \in refs.values /\ Pointers(v) \subseteq Leading(refs, {}) /\ Kids(v) = v.map
  BY <1>1 DEF Clean, Kids
<1>3. v.map[key] \in refs.values
  BY <1>2, FineKids
<1>4. CASE IsRef(v)
  <2>1. v = Ref(Target(v))
    BY <1>2, <1>4 DEF Fine, WellFormed
  <2>2. key = "$ref" /\ v.map[key] = [pointer |-> Target(v)]
    BY <2>1 DEF Ref
  <2>3. DOMAIN v.map[key] = {"pointer"}
    BY <2>2
  <2>4. ~IsMap(v.map[key]) /\ ~IsList(v.map[key])
    BY <2>3 DEF IsMap, IsList
  <2>5. DOMAIN Kids(v.map[key]) = {} /\ ~IsRef(v.map[key])
    BY <2>4, NoKidsInLeaves DEF IsRef
  <2>6. Pointers(v.map[key]) = UNION {Pointers(Kids(v.map[key])[k]) : k \in DOMAIN Kids(v.map[key])}
    BY <1>3, <2>5, FineKids
  <2>7. Pointers(v.map[key]) = {}
    BY <2>5, <2>6
  <2>. QED  BY <1>3, <2>7 DEF Clean
<1>5. CASE ~IsRef(v)
  <2>1. Pointers(v) = UNION {Pointers(Kids(v)[k]) : k \in DOMAIN Kids(v)}
    BY <1>2, <1>5, FineKids
  <2>2. Pointers(v.map[key]) \subseteq Leading(refs, {})
    BY <1>2, <2>1
  <2>. QED  BY <1>3, <2>2 DEF Clean
<1>. QED  BY <1>4, <1>5

\* The schemas given for the types of some content, Null for one that has none
SchemasIn(refs, content) ==
    IF IsMap(content) THEN {Get(Chased(refs, m), "schema", Null) : m \in Range(content.map)} ELSE {}

\* Those of a body are the ones of its content.
LEMMA ContentIs ==
    ASSUME NEW refs, NEW body
    PROVE  ContentSchemas(refs, body) = SchemasIn(refs, Look(refs, body, "content", NoKeys)) \ {Null}
<1>1. PICK content : content = Look(refs, body, "content", NoKeys)
  OBVIOUS
<1>2. PICK media : media = IF IsMap(content) THEN {Chased(refs, m) : m \in Range(content.map)} ELSE {}
  OBVIOUS
<1>3. ContentSchemas(refs, body) = {Get(m, "schema", Null) : m \in media} \ {Null}
  BY <1>1, <1>2, Zenon DEF ContentSchemas
<1>4. {Get(m, "schema", Null) : m \in media} = SchemasIn(refs, content)
  <2>1. CASE IsMap(content)
    <3>1. media = {Chased(refs, m) : m \in Range(content.map)}
      BY <1>2, <2>1
    <3>2. SchemasIn(refs, content) = {Get(Chased(refs, m), "schema", Null) : m \in Range(content.map)}
      BY <2>1 DEF SchemasIn
    <3>. QED  BY <3>1, <3>2
  <2>2. CASE ~IsMap(content)
    BY <1>2, <2>2 DEF SchemasIn
  <2>. QED  BY <2>1, <2>2
<1>. QED  BY <1>1, <1>3, <1>4

\* Nothing can be said of a schema of the content of what is resolved exactly if
\* nothing can of one of what it is resolved from.
LEMMA ContentAlike ==
    ASSUME NEW refs, Fine(refs), NEW R, Resolving(refs, R), NEW x, NEW y, Paired(refs, R, x, y), Clean(refs, y)
    PROVE  (\E v \in ContentSchemas(refs, x) : Summary(refs, v) = Raised)
              <=> \E v \in ContentSchemas(refs, y) : Unsayable(refs, v)
<1>1. PICK c : c = Look(refs, x, "content", NoKeys)
  OBVIOUS
<1>2. PICK e : e = Look(refs, y, "content", NoKeys)
  OBVIOUS
<1>3. ContentSchemas(refs, x) = SchemasIn(refs, c) \ {Null} /\ ContentSchemas(refs, y) = SchemasIn(refs, e) \ {Null}
  BY <1>1, <1>2, ContentIs
<1>4. "content" # "$ref" /\ "schema" # "$ref"
  OBVIOUS
<1>5. Paired(refs, R, c, e)
  BY <1>1, <1>2, <1>4, PairedLook
<1>6. Clean(refs, e)
  BY <1>2, <1>4, CleanLook
<1>7. (IsMap(c) <=> IsMap(e)) /\ (IsMap(c) => DOMAIN c.map = DOMAIN e.map)
  BY <1>5, PairedSame
<1>8. CASE ~IsMap(e)
  BY <1>3, <1>7, <1>8 DEF SchemasIn
<1>9. CASE IsMap(e)
  <2>. DEFINE S(k) == Get(Chased(refs, c.map[k]), "schema", Null)
              T(k) == Get(Chased(refs, e.map[k]), "schema", Null)
  <2>1. ASSUME NEW k \in DOMAIN e.map PROVE Alike(refs, R, S(k), T(k))
    <3>1. Get(c, k, Null) = c.map[k] /\ Get(e, k, Null) = e.map[k]
      BY <1>7, <1>9 DEF Get
    <3>2. CASE Alike(refs, R, c.map[k], e.map[k])
      <4>1. Paired(refs, R, Chased(refs, c.map[k]), Chased(refs, e.map[k]))
        BY <3>2, PairedChased
      <4>. QED  BY <1>4, <4>1, PairedGet
    <3>3. CASE k = "$ref" /\ c = Ref(Target(c)) /\ e = Ref(Target(e))
      <4>1. ASSUME NEW p PROVE Get(Chased(refs, Ref(p).map["$ref"]), "schema", Null) = Null
        <5>1. Ref(p).map["$ref"] = [pointer |-> p]
          BY DEF Ref
        <5>2. ~IsMap([pointer |-> p])
          BY DEF IsMap
        <5>3. Chased(refs, [pointer |-> p]) = [pointer |-> p]
          BY <5>2, ChasedIs DEF IsRef
        <5>. QED  BY <5>1, <5>2, <5>3 DEF Get
      <4>2. S(k) = Null /\ T(k) = Null
        BY <3>3, <4>1
      <4>. QED  BY <4>2 DEF Alike
    <3>4. \/ Alike(refs, R, Get(c, k, Null), Get(e, k, Null))
          \/ k = "$ref" /\ IsRef(c) /\ IsRef(e) /\ c = Ref(Target(c)) /\ e = Ref(Target(e))
      BY <1>5, PairedGet
    <3>. QED  BY <3>1, <3>2, <3>3, <3>4
  <2>2. Summary(refs, Null) # Raised
    BY LeafSayable, KindsDiffer
  <2>3. ASSUME NEW k \in DOMAIN e.map
        PROVE  S(k) # Null /\ Summary(refs, S(k)) = Raised <=> T(k) # Null /\ Unsayable(refs, T(k))
    <3>1. Summary(refs, S(k)) = Raised <=> Summary(refs, T(k)) = Raised
      BY <2>1, SummaryAlike
    <3>2. T(k) # Null => (Summary(refs, T(k)) = Raised <=> Unsayable(refs, T(k)))
      <4>. SUFFICES ASSUME T(k) # Null PROVE Summary(refs, T(k)) = Raised <=> Unsayable(refs, T(k))
        OBVIOUS
      <4>1. Clean(refs, Chased(refs, e.map[k]))
        <5>1. Clean(refs, e.map[k])
          BY <1>6, <1>9, CleanKids
        <5>. QED  BY <5>1, CleanLook
      <4>2. T(k) = Get(Chased(refs, e.map[k]), "schema", NoKeys)
        BY DEF Get
      <4>3. Clean(refs, T(k))
        BY <1>4, <4>1, <4>2, CleanLook
      <4>. QED  BY <4>3, SummaryIff
    <3>. HIDE DEF S, T
    <3>. QED  BY <2>2, <3>1, <3>2
  <2>4. \A v : v \in ContentSchemas(refs, x) <=> v # Null /\ \E k \in DOMAIN e.map : v = S(k)
    <3>1. SchemasIn(refs, c) = {Get(Chased(refs, m), "schema", Null) : m \in Range(c.map)}
      BY <1>7, <1>9 DEF SchemasIn
    <3>. QED  BY <1>3, <1>7, <1>9, <3>1 DEF Range
  <2>5. \A v : v \in ContentSchemas(refs, y) <=> v # Null /\ \E k \in DOMAIN e.map : v = T(k)
    <3>1. SchemasIn(refs, e) = {Get(Chased(refs, m), "schema", Null) : m \in Range(e.map)}
      BY <1>9 DEF SchemasIn
    <3>. QED  BY <1>3, <3>1 DEF Range
  <2>. HIDE DEF S, T
  <2>. QED  BY <2>3, <2>4, <2>5
<1>. QED  BY <1>8, <1>9

\* A body is described, exactly if it can be resolved and something can be said
\* of each schema of its content.
LEMMA DescribedBodyIff ==
    ASSUME NEW refs, Fine(refs), NEW R, Solves(refs, R), NEW n \in refs.values
    PROVE  DescribedBody(refs, n) = Raised <=>
              DeepResolve(refs, n) = Raised \/ \E v \in ContentSchemas(refs, Chased(refs, n)) : Unsayable(refs, v)
<1>1. PICK d : d = DeepResolve(refs, n)
  OBVIOUS
<1>2. PICK said : said = {Summary(refs, v) : v \in ContentSchemas(refs, d)}
  OBVIOUS
<1>3. DescribedBody(refs, n) = IF d = Raised \/ AnyRaised(said) THEN Raised ELSE [said |-> said]
  BY <1>1, <1>2, Zenon DEF DescribedBody
<1>4. [said |-> said] # Raised
  <2>1. DOMAIN [said |-> said] = {"said"} /\ DOMAIN Raised = {"raised"}
    BY DEF Raised
  <2>. QED  BY <2>1
<1>5. AnyRaised(said) <=> \E v \in ContentSchemas(refs, d) : Summary(refs, v) = Raised
  BY <1>2 DEF AnyRaised
<1>6. CASE d = Raised
  BY <1>1, <1>3, <1>6
<1>7. CASE d # Raised
  <2>1. PICK y : y = Chased(refs, n)
    OBVIOUS
  <2>2. Paired(refs, R, d, y) /\ Resolving(refs, R)
    BY <1>1, <1>7, <2>1, SolvedIs, Zenon DEF Solves
  <2>3. Clean(refs, y)
    <3>1. Clean(refs, n)
      BY <1>1, <1>7, ResolvesIff, Zenon DEF Clean
    <3>. QED  BY <2>1, <3>1, CleanLook, Zenon
  <2>4. (\E v \in ContentSchemas(refs, d) : Summary(refs, v) = Raised)
          <=> \E v \in ContentSchemas(refs, y) : Unsayable(refs, v)
    BY <2>2, <2>3, ContentAlike
  <2>. QED  BY <1>1, <1>3, <1>4, <1>5, <1>7, <2>1, <2>4
<1>. QED  BY <1>6, <1>7

\* What describing an operation or a schema becomes is no failure.
LEMMA SaidIsNotRaised ==
    /\ \A a, b, c, d, e : [id |-> a, key |-> b, params |-> c, said |-> d, bodies |-> e] # Raised
    /\ \A a, b : [id |-> a, said |-> b] # Raised
    /\ \A a, b : [id |-> a, operations |-> b] # Raised
    /\ \A a : [id |-> a] # Raised
<1>1. \A a, b, c, d, e : "id" \in DOMAIN [id |-> a, key |-> b, params |-> c, said |-> d, bodies |-> e]
  OBVIOUS
<1>2. \A a, b : "id" \in DOMAIN [id |-> a, said |-> b] /\ "id" \in DOMAIN [id |-> a, operations |-> b]
  OBVIOUS
<1>3. \A a : "id" \in DOMAIN [id |-> a]
  OBVIOUS
<1>4. "id" \notin DOMAIN Raised
  BY DEF Raised
<1>. QED  BY <1>1, <1>2, <1>3, <1>4

\* What deep_resolve fails at among some values
Unread(refs, S) == \E n \in S : DeepResolve(refs, n) = Raised

\* What is said of parameters, and of bodies
SaidOf(refs, params) == [p \in DOMAIN params |-> Described(refs, params[p])]
ToldOf(refs, bodies) == {DescribedBody(refs, b) : b \in bodies}

\* The schemas of the parameters that last, and of the content of bodies
SchemasTold(refs, listed, bodies) ==
    {SchemaOf(refs, listed[i]) : i \in Lasting(refs, listed)}
    \cup (UNION {ContentSchemas(refs, Chased(refs, b)) : b \in bodies})

\* A reference that leads nowhere, or a schema of which nothing can be said
Untold(refs, listed, bodies) ==
    \/ Unread(refs, Range(listed) \cup bodies)
    \/ \E v \in SchemasTold(refs, listed, bodies) : Unsayable(refs, v)

\* An operation cannot be described exactly if a reference in it leads nowhere,
\* or nothing can be said of the schema of a parameter or a body of it.
LEMMA OperationFails ==
    ASSUME NEW refs, Fine(refs), NEW listed, NEW m \in Nat, DOMAIN listed = 1 .. m,
           \A i \in 1 .. m : listed[i] \in refs.values,
           NEW bodies \in SUBSET refs.values,
           NEW params, params = Merge(refs, listed),
           NEW said, said = SaidOf(refs, params), NEW described, described = ToldOf(refs, bodies)
    PROVE  AnyRaised(Range(params) \cup Range(said) \cup described) <=> Untold(refs, listed, bodies)
<1>1. PICK R : Solves(refs, R)
  BY Solved
<1>2. ASSUME NEW b \in bodies
      PROVE  DescribedBody(refs, b) = Raised <=>
                DeepResolve(refs, b) = Raised \/ \E v \in ContentSchemas(refs, Chased(refs, b)) : Unsayable(refs, v)
  <2>1. b \in refs.values
    OBVIOUS
  <2>. QED  BY <1>1, <2>1, DescribedBodyIff, Zenon
<1>3. CASE Unread(refs, Range(listed))
  <2>1. PICK i \in 1 .. m : DeepResolve(refs, listed[i]) = Raised
    BY <1>3 DEF Unread, Range
  <2>2. Resolutions(refs, listed)[i] = Raised /\ i \in DOMAIN Resolutions(refs, listed)
    BY <2>1 DEF Resolutions
  <2>3. AnyRaised(Range(Resolutions(refs, listed)))
    BY <2>2 DEF AnyRaised, Range
  <2>4. params = <<Raised>>
    BY <2>3, Zenon DEF Merge
  <2>5. Raised \in Range(params)
    BY <2>4 DEF Range
  <2>. QED  BY <1>3, <2>5 DEF AnyRaised, Unread, Untold
<1>4. CASE ~Unread(refs, Range(listed))
  <2>1. \A i \in 1 .. m : DeepResolve(refs, listed[i]) # Raised
    BY <1>4 DEF Unread, Range
  <2>. DEFINE L == Lasting(refs, listed)
  <2>2. /\ \A p \in DOMAIN params : \E i \in L : params[p] = DeepResolve(refs, listed[i])
        /\ \A i \in L : \E p \in DOMAIN params : params[p] = DeepResolve(refs, listed[i])
        /\ L \subseteq 1 .. m
    <3>1. \A i \in 1 .. m : listed[i] \in refs.values /\ DeepResolve(refs, listed[i]) # Raised
      BY <2>1
    <3>2. Merged(refs, listed, params)
      BY <1>1, <3>1, MergedIs
    <3>. QED  BY <3>2 DEF Merged
  <2>. HIDE DEF L
  <2>3. Raised \notin Range(params)
    BY <2>1, <2>2 DEF Range
  <2>4. ASSUME NEW i \in L PROVE Described(refs, DeepResolve(refs, listed[i])) = Raised <=> Unsayable(refs, SchemaOf(refs, listed[i]))
    <3>1. listed[i] \in refs.values /\ DeepResolve(refs, listed[i]) # Raised
      BY <2>1, <2>2
    <3>. QED  BY <1>1, <3>1, DescribedIff, Zenon
  <2>5. Raised \in Range(said) <=> \E i \in L : Unsayable(refs, SchemaOf(refs, listed[i]))
    <3>1. DOMAIN said = DOMAIN params /\ \A p \in DOMAIN params : said[p] = Described(refs, params[p])
      BY DEF SaidOf
    <3>2. Raised \in Range(said) <=> \E p \in DOMAIN params : Described(refs, params[p]) = Raised
      BY <3>1 DEF Range
    <3>3. (\E p \in DOMAIN params : Described(refs, params[p]) = Raised)
            <=> \E i \in L : Described(refs, DeepResolve(refs, listed[i])) = Raised
      BY <2>2
    <3>. QED  BY <2>4, <3>2, <3>3
  <2>6. Raised \in described
          <=> \E b \in bodies : \/ DeepResolve(refs, b) = Raised
                               \/ \E v \in ContentSchemas(refs, Chased(refs, b)) : Unsayable(refs, v)
    BY <1>2 DEF ToldOf
  <2>7. AnyRaised(Range(params) \cup Range(said) \cup described) <=> Raised \in Range(said) \/ Raised \in described
    BY <2>3 DEF AnyRaised
  <2>8. Unread(refs, Range(listed) \cup bodies) <=> \E b \in bodies : DeepResolve(refs, b) = Raised
    BY <1>4 DEF Unread
  <2>9. (\E v \in SchemasTold(refs, listed, bodies) : Unsayable(refs, v))
          <=> \/ \E i \in L : Unsayable(refs, SchemaOf(refs, listed[i]))
              \/ \E b \in bodies : \E v \in ContentSchemas(refs, Chased(refs, b)) : Unsayable(refs, v)
    BY DEF L, SchemasTold
  <2>. QED  BY <2>5, <2>6, <2>7, <2>8, <2>9 DEF L, Untold
<1>. QED  BY <1>3, <1>4

-----------------------------------------------------------------------------
(* When nothing can be said of a component schema *)

\* The properties of the schema a value leads to
PropertiesOf(refs, n) == Look(refs, Chased(refs, n), "properties", NoKeys)

\* A component schema cannot be described exactly if its name cannot be joined,
\* a reference in it leads nowhere, it leads to something else than a mapping,
\* what it requires cannot be joined, or nothing can be said of a property of it.
LEMMA SchemaFails ==
    ASSUME NEW refs, Fine(refs), NEW n \in refs.values, NEW name
    PROVE  Schema(refs, name, n) = Raised <=>
              \/ name \in OtherKeys \/ DeepResolve(refs, n) = Raised
              \/ ~IsMap(Chased(refs, n)) \/ Unjoinable(Look(refs, Chased(refs, n), "required", Null))
              \/ IsMap(PropertiesOf(refs, n)) /\ \E v \in Range(PropertiesOf(refs, n).map) : Unsayable(refs, v)
<1>1. PICK R : Solves(refs, R)
  BY Solved
<1>2. PICK s : s = DeepResolve(refs, n)
  OBVIOUS
<1>3. PICK props : props = Look(refs, s, "properties", NoKeys)
  OBVIOUS
<1>. DEFINE said == [p \in IF IsMap(props) THEN DOMAIN props.map ELSE {} |-> Summary(refs, props.map[p])]
<1>. DEFINE amiss == Unjoinable(Look(refs, s, "required", Null))
<1>4. Schema(refs, name, n) = IF name \in OtherKeys \/ ~IsMap(s) \/ AnyRaised(Range(said)) \/ amiss THEN Raised
                              ELSE [id |-> <<"schema", name>>, said |-> said]
  BY <1>2, <1>3, Zenon DEF Schema
<1>5. Schema(refs, name, n) = Raised <=> name \in OtherKeys \/ ~IsMap(s) \/ AnyRaised(Range(said)) \/ amiss
  <2>. HIDE DEF said, amiss
  <2>1. [id |-> <<"schema", name>>, said |-> said] # Raised
    BY SaidIsNotRaised, Zenon
  <2>. QED  BY <1>4, <2>1, Zenon
<1>6. AnyRaised(Range(said)) <=> IsMap(props) /\ \E p \in DOMAIN props.map : Summary(refs, props.map[p]) = Raised
  BY DEF AnyRaised, Range
<1>. HIDE DEF said
<1>7. CASE s = Raised
  BY <1>2, <1>5, <1>7, KindsDiffer
<1>8. CASE s # Raised
  <2>1. PICK y : y = Chased(refs, n)
    OBVIOUS
  <2>2. Paired(refs, R, s, y) /\ Resolving(refs, R)
    BY <1>1, <1>2, <1>8, <2>1, SolvedIs DEF Solves
  <2>3. PICK q : q = Look(refs, y, "properties", NoKeys)
    OBVIOUS
  <2>4. q = PropertiesOf(refs, n)
    BY <2>1, <2>3 DEF PropertiesOf
  <2>5. Paired(refs, R, props, q)
    BY <1>3, <2>2, <2>3, PairedLook
  <2>6. (IsMap(s) <=> IsMap(y)) /\ (IsMap(props) <=> IsMap(q)) /\ (IsMap(props) => DOMAIN props.map = DOMAIN q.map)
    BY <2>2, <2>5, PairedSame
  <2>7. Clean(refs, q)
    <3>1. Clean(refs, n)
      BY <1>2, <1>8, ResolvesIff, Zenon DEF Clean
    <3>2. Clean(refs, y)
      BY <2>1, <3>1, CleanLook
    <3>. QED  BY <2>3, <3>2, CleanLook
  <2>8. ASSUME IsMap(q), NEW p \in DOMAIN q.map
        PROVE  Summary(refs, props.map[p]) = Raised <=> Unsayable(refs, q.map[p])
    <3>1. Clean(refs, q.map[p])
      BY <2>7, <2>8, CleanKids
    <3>2. Summary(refs, q.map[p]) = Raised <=> Unsayable(refs, q.map[p])
      BY <3>1, SummaryIff
    <3>3. Get(props, p, Null) = props.map[p] /\ Get(q, p, Null) = q.map[p]
      BY <2>6, <2>8 DEF Get
    <3>4. CASE Alike(refs, R, props.map[p], q.map[p])
      <4>1. Summary(refs, props.map[p]) = Raised <=> Summary(refs, q.map[p]) = Raised
        BY <2>2, <3>4, SummaryAlike
      <4>. QED  BY <3>2, <4>1
    <3>5. CASE p = "$ref" /\ props = Ref(Target(props)) /\ q = Ref(Target(q))
      <4>1. props.map[p] = [pointer |-> Target(props)] /\ q.map[p] = [pointer |-> Target(q)]
        BY <3>5 DEF Ref
      <4>2. DOMAIN props.map[p] = {"pointer"} /\ DOMAIN q.map[p] = {"pointer"}
        BY <4>1
      <4>3. ~IsMap(props.map[p]) /\ ~IsMap(q.map[p]) /\ props.map[p] # Raised /\ q.map[p] # Raised
        BY <4>2 DEF IsMap, Raised
      <4>4. Summary(refs, props.map[p]) # Raised /\ Summary(refs, q.map[p]) # Raised
        BY <4>3, LeafSayable
      <4>. QED  BY <3>2, <4>4
    <3>6. \/ Alike(refs, R, Get(props, p, Null), Get(q, p, Null))
          \/ p = "$ref" /\ IsRef(props) /\ IsRef(q) /\ props = Ref(Target(props)) /\ q = Ref(Target(q))
      BY <2>5, PairedGet
    <3>. QED  BY <3>3, <3>4, <3>5, <3>6
  <2>9. (\E p \in DOMAIN q.map : Unsayable(refs, q.map[p])) <=> \E v \in Range(q.map) : Unsayable(refs, v)
    BY DEF Range
  <2>10. amiss <=> Unjoinable(Look(refs, y, "required", Null))
    <3>1. "required" # "$ref"
      OBVIOUS
    <3>2. Paired(refs, R, Look(refs, s, "required", Null), Look(refs, y, "required", Null))
      BY <2>2, <3>1, PairedLook
    <3>. QED  BY <3>2, PairedSame
  <2>. HIDE DEF amiss
  <2>. QED  BY <1>2, <1>5, <1>6, <1>8, <2>1, <2>4, <2>6, <2>8, <2>9, <2>10
<1>. QED  BY <1>7, <1>8

-----------------------------------------------------------------------------
(* All that is chunked *)

\* What is found in a value of the description, if it is a mapping, is one.
LEMMA GetStays ==
    ASSUME NEW refs, Fine(refs), NEW v, v \in refs.values \/ v = NoKeys
    PROVE  /\ \A key : key \in DOMAIN v.map /\ IsMap(v) => v.map[key] \in refs.values
           /\ \A key, default : Get(v, key, default) \in refs.values \/ Get(v, key, default) = default
<1>1. \A key : key \in DOMAIN v.map /\ IsMap(v) => v.map[key] \in refs.values
  BY NoKidsInLeaves, FineKids DEF Kids
<1>2. ASSUME NEW key, NEW default PROVE Get(v, key, default) \in refs.values \/ Get(v, key, default) = default
  BY <1>1 DEF Get
<1>. QED  BY <1>1, <1>2

\* What is said of a description is said of its values.
LEMMA SourcesIn ==
    ASSUME NEW api, Readable(api), NEW refs, refs = RefMap(api)
    PROVE  /\ Fine(refs)
           /\ \A o \in OperationKeys(api) :
                 /\ \E m \in Nat : DOMAIN Listed(api, o[1], o[2]) = 1 .. m
                 /\ \A i \in DOMAIN Listed(api, o[1], o[2]) : Listed(api, o[1], o[2])[i] \in refs.values
                 /\ Bodies(Paths(api)[o[1]].map[o[2]]) \subseteq refs.values
           /\ \A name \in DOMAIN ComponentSchemas(api) : ComponentSchemas(api)[name] \in refs.values
<1>1. Fine(refs) /\ refs.values = Values(api) /\ api \in refs.values
  BY ReadableIsFine
<1>2. \A v \in refs.values : IsList(v) => v.list \in Seq(refs.values)
  BY <1>1 DEF Readable, Finite
<1>3. \A v : v \in refs.values \/ v = NoKeys => \A key : key \in DOMAIN v.map /\ IsMap(v) => v.map[key] \in refs.values
  BY <1>1, GetStays
<1>4. \A v : v \in refs.values \/ v = NoKeys => \A key, default : Get(v, key, default) \in refs.values \/ Get(v, key, default) = default
  BY <1>1, GetStays
<1>5. ASSUME NEW o \in OperationKeys(api)
      PROVE  /\ \E m \in Nat : DOMAIN Listed(api, o[1], o[2]) = 1 .. m
             /\ \A i \in DOMAIN Listed(api, o[1], o[2]) : Listed(api, o[1], o[2])[i] \in refs.values
             /\ Bodies(Paths(api)[o[1]].map[o[2]]) \subseteq refs.values
  <2>1. o[1] \in DOMAIN Paths(api) /\ IsMap(Paths(api)[o[1]]) /\ o[2] \in DOMAIN Paths(api)[o[1]].map
    BY DEF OperationKeys, MethodKeys
  <2>2. Paths(api)[o[1]] \in refs.values
    <3>1. PICK paths : paths = Get(api, "paths", NoKeys)
      OBVIOUS
    <3>2. paths \in refs.values \/ paths = NoKeys
      BY <1>1, <1>4, <3>1
    <3>3. Paths(api) = IF IsMap(paths) THEN paths.map ELSE <<>>
      BY <3>1, Zenon DEF Paths
    <3>4. IsMap(paths) /\ Paths(api) = paths.map
      BY <2>1, <3>3
    <3>. QED  BY <1>3, <2>1, <3>2, <3>4
  <2>3. PICK item : item = Paths(api)[o[1]]
    OBVIOUS
  <2>4. PICK op : op = item.map[o[2]]
    OBVIOUS
  <2>5. item \in refs.values /\ op \in refs.values
    BY <1>3, <2>1, <2>2, <2>3, <2>4
  <2>6. ASSUME NEW v, v \in refs.values \/ v = List(<<>>) PROVE Items(v) \in Seq(refs.values)
    <3>1. CASE v = List(<<>>)
      <4>1. Items(v) = <<>>
        BY <3>1, KindsDiffer DEF Items
      <4>. QED  BY <4>1
    <3>2. CASE v \in refs.values /\ IsList(v)
      BY <1>2, <3>2 DEF Items
    <3>3. CASE ~IsList(v)
      BY <3>3 DEF Items
    <3>. QED  BY <2>6, <3>1, <3>2, <3>3
  <2>7. PICK l1 : l1 = Get(item, "parameters", List(<<>>))
    OBVIOUS
  <2>8. PICK l2 : l2 = Get(op, "parameters", List(<<>>))
    OBVIOUS
  <2>9. Lists(api, o[1], o[2]) = <<l1, l2>>
    BY <2>3, <2>4, <2>7, <2>8 DEF Lists
  <2>10. Items(l1) \in Seq(refs.values) /\ Items(l2) \in Seq(refs.values)
    BY <1>4, <2>5, <2>6, <2>7, <2>8
  <2>11. Listed(api, o[1], o[2]) = Items(l1) \o Items(l2)
    BY <2>9 DEF Listed
  <2>12. Listed(api, o[1], o[2]) \in Seq(refs.values)
    BY <2>10, <2>11
  <2>13. Bodies(op) \subseteq refs.values
    <3>1. PICK responses : responses = Get(op, "responses", NoKeys)
      OBVIOUS
    <3>2. Bodies(op) = ({Get(op, "requestBody", Null)} \ {Null})
                       \cup (IF IsMap(responses) THEN Range(responses.map) ELSE {})
      BY <3>1, Zenon DEF Bodies
    <3>3. IsMap(responses) => Range(responses.map) \subseteq refs.values
      BY <1>3, <1>4, <2>5, <3>1 DEF Range
    <3>4. Get(op, "requestBody", Null) \in refs.values \/ Get(op, "requestBody", Null) = Null
      BY <1>4, <2>5
    <3>. QED  BY <3>2, <3>3, <3>4
  <2>14. DOMAIN Listed(api, o[1], o[2]) = 1 .. Len(Listed(api, o[1], o[2])) /\ Len(Listed(api, o[1], o[2])) \in Nat
    BY <2>12
  <2>. QED  BY <2>3, <2>4, <2>12, <2>13, <2>14
<1>6. ASSUME NEW name \in DOMAIN ComponentSchemas(api) PROVE ComponentSchemas(api)[name] \in refs.values
  <2>1. PICK components : components = Get(api, "components", NoKeys)
    OBVIOUS
  <2>2. PICK schemas : schemas = Get(components, "schemas", NoKeys)
    OBVIOUS
  <2>3. (components \in refs.values \/ components = NoKeys) /\ (schemas \in refs.values \/ schemas = NoKeys)
    BY <1>1, <1>4, <2>1, <2>2
  <2>4. ComponentSchemas(api) = IF IsMap(schemas)
                                THEN [k \in {k \in DOMAIN schemas.map : IsMap(schemas.map[k])} |-> schemas.map[k]]
                                ELSE <<>>
    BY <2>1, <2>2, Zenon DEF ComponentSchemas
  <2>5. IsMap(schemas) /\ name \in DOMAIN schemas.map /\ ComponentSchemas(api)[name] = schemas.map[name]
    BY <2>4
  <2>. QED  BY <1>3, <2>3, <2>5
<1>. QED  BY <1>1, <1>5, <1>6

\* A path, tags or parameters that an operation cannot be described with
Amiss(api, o) ==
    \/ o[1] \in OtherKeys \/ Unjoinable(Get(Paths(api)[o[1]].map[o[2]], "tags", Null))
    \/ \E list \in Range(Lists(api, o[1], o[2])) : Uniterable(list)

\* What an operation is made of, and when it cannot be described
LEMMA OperationIs ==
    ASSUME NEW api, Readable(api), NEW refs, refs = RefMap(api), NEW o \in OperationKeys(api)
    PROVE  Operation(api, refs, o[1], o[2]) = Raised <=>
              \/ Amiss(api, o)
              \/ Untold(refs, Listed(api, o[1], o[2]), Bodies(Paths(api)[o[1]].map[o[2]]))
<1>1. PICK listed : listed = Listed(api, o[1], o[2])
  OBVIOUS
<1>2. PICK bodies : bodies = Bodies(Paths(api)[o[1]].map[o[2]])
  OBVIOUS
<1>3. PICK params : params = Merge(refs, listed)
  OBVIOUS
<1>4. PICK said : said = SaidOf(refs, params)
  OBVIOUS
<1>5. PICK described : described = ToldOf(refs, bodies)
  OBVIOUS
<1>6. Fine(refs) /\ (\E m \in Nat : DOMAIN listed = 1 .. m) /\ (\A i \in DOMAIN listed : listed[i] \in refs.values)
      /\ bodies \in SUBSET refs.values
  BY <1>1, <1>2, SourcesIn
<1>7. AnyRaised(Range(params) \cup Range(said) \cup described) <=> Untold(refs, listed, bodies)
  <2>1. PICK m \in Nat : DOMAIN listed = 1 .. m
    BY <1>6
  <2>2. \A i \in 1 .. m : listed[i] \in refs.values
    BY <1>6, <2>1
  <2>3. Fine(refs) /\ bodies \in SUBSET refs.values
    BY <1>6
  <2>. QED  BY <1>3, <1>4, <1>5, <2>1, <2>2, <2>3, OperationFails
<1>8. Operation(api, refs, o[1], o[2]) =
        IF Amiss(api, o) THEN Raised
        ELSE IF AnyRaised(Range(params) \cup Range(said) \cup described) THEN Raised
        ELSE [id |-> IdOf("operation", Methods[o[2]], o[1]), key |-> o[2], params |-> params, said |-> said, bodies |-> described]
  BY <1>1, <1>2, <1>3, <1>4, <1>5, Zenon DEF Operation, SaidOf, ToldOf, Amiss
<1>9. [id |-> IdOf("operation", Methods[o[2]], o[1]), key |-> o[2], params |-> params, said |-> said, bodies |-> described] # Raised
  BY SaidIsNotRaised, Zenon
<1>. QED  BY <1>1, <1>2, <1>7, <1>8, <1>9

\* The chunk of an operation is of it.
LEMMA OperationShape ==
    ASSUME NEW api, NEW refs, NEW path, NEW key, NEW op, op = Operation(api, refs, path, key), op # Raised
    PROVE  /\ op.id = IdOf("operation", Methods[key], path) /\ op.key = key
           /\ op.params = Merge(refs, Listed(api, path, key))
<1>1. PICK params : params = Merge(refs, Listed(api, path, key))
  OBVIOUS
<1>2. PICK said : said = [n \in DOMAIN params |-> Described(refs, params[n])]
  OBVIOUS
<1>3. PICK bodies : bodies = {DescribedBody(refs, b) : b \in Bodies(Paths(api)[path].map[key])}
  OBVIOUS
<1>4. op = IF \/ path \in OtherKeys \/ Unjoinable(Get(Paths(api)[path].map[key], "tags", Null))
              \/ \E list \in Range(Lists(api, path, key)) : Uniterable(list)
           THEN Raised
           ELSE IF AnyRaised(Range(params) \cup Range(said) \cup bodies) THEN Raised
           ELSE [id |-> IdOf("operation", Methods[key], path), key |-> key, params |-> params, said |-> said, bodies |-> bodies]
  BY <1>1, <1>2, <1>3, Zenon DEF Operation
<1>5. op = [id |-> IdOf("operation", Methods[key], path), key |-> key, params |-> params, said |-> said, bodies |-> bodies]
  BY <1>4
<1>. QED  BY <1>1, <1>5

\* So are those of a schema.
LEMMA SchemaShape ==
    ASSUME NEW refs, NEW name, NEW n, NEW c, c = Schema(refs, name, n), c # Raised
    PROVE  c.id = <<"schema", name>>
<1>1. PICK s : s = DeepResolve(refs, n)
  OBVIOUS
<1>2. PICK props : props = Look(refs, s, "properties", NoKeys)
  OBVIOUS
<1>3. PICK said : said = [p \in IF IsMap(props) THEN DOMAIN props.map ELSE {} |-> Summary(refs, props.map[p])]
  OBVIOUS
<1>4. c = IF name \in OtherKeys \/ ~IsMap(s) \/ AnyRaised(Range(said)) \/ Unjoinable(Look(refs, s, "required", Null))
          THEN Raised ELSE [id |-> <<"schema", name>>, said |-> said]
  BY <1>1, <1>2, <1>3, Zenon DEF Schema
<1>5. c = [id |-> <<"schema", name>>, said |-> said]
  BY <1>4
<1>. QED  BY <1>5

\* The schemas of an operation that are summarised
TellingOf(api, refs, o) == SchemasTold(refs, Listed(api, o[1], o[2]), Bodies(Paths(api)[o[1]].map[o[2]]))

\* The component schemas that list properties
Listing(api, refs) == {m \in Range(ComponentSchemas(api)) : IsMap(PropertiesOf(refs, m))}

\* What is summarised, told by these
LEMMA SummarisedIs ==
    ASSUME NEW api, NEW refs
    PROVE  (\E n \in Summarised(api, refs) : Unsayable(refs, n)) <=>
              \/ \E o \in OperationKeys(api) : \E v \in TellingOf(api, refs, o) : Unsayable(refs, v)
              \/ \E n \in Listing(api, refs) : \E v \in Range(PropertiesOf(refs, n).map) : Unsayable(refs, v)
<1>. DEFINE A == UNION {TellingOf(api, refs, o) : o \in OperationKeys(api)}
            B == UNION {Range(PropertiesOf(refs, n).map) : n \in Listing(api, refs)}
<1>1. Summarised(api, refs) = A \cup B
  BY Zenon DEF Summarised, TellingOf, SchemasTold, Listing, SchemaOf, PropertiesOf
<1>2. \A x : x \in A <=> \E o \in OperationKeys(api) : x \in TellingOf(api, refs, o)
  OBVIOUS
<1>3. \A x : x \in B <=> \E n \in Listing(api, refs) : x \in Range(PropertiesOf(refs, n).map)
  OBVIOUS
<1>. HIDE DEF A, B
<1>4. \A x : x \in Summarised(api, refs) <=> x \in A \/ x \in B
  BY <1>1
<1>. QED  BY <1>2, <1>3, <1>4

\* Chunking a description fails exactly if it is broken.
LEMMA BrokenIs ==
    ASSUME NEW api, Readable(api)
    PROVE  Raised \in AllChunks(api) <=> Broken(api)
<1>1. PICK refs : refs = RefMap(api)
  OBVIOUS
<1>2. CASE ~IsMap(api)
  BY <1>2 DEF AllChunks, Broken
<1>3. CASE IsMap(api)
  <2>. DEFINE ops == OperationKeys(api)
              schemas == ComponentSchemas(api)
              null == \E o \in ops :
                         \/ \E list \in Range(Lists(api, o[1], o[2])) : Uniterable(list)
                         \/ Unjoinable(Get(Paths(api)[o[1]].map[o[2]], "tags", Null))
              misnamed == OtherKeys \cap ({o[1] : o \in MethodKeys(api)} \cup DOMAIN schemas) # {}
              required(n) == Unjoinable(Look(refs, Chased(refs, n), "required", Null))
              unread == Unread(refs, Sources(api))
              listless == ~IsMap(Get(api, "components", NoKeys))
              odd == \E n \in Range(schemas) : ~IsMap(Chased(refs, n)) \/ required(n)
              untold == \E n \in Summarised(api, refs) : Unsayable(refs, n)
              bodies(o) == Bodies(Paths(api)[o[1]].map[o[2]])
              listed(o) == Range(Listed(api, o[1], o[2]))
              untoldOps == \E o \in ops : \E v \in TellingOf(api, refs, o) : Unsayable(refs, v)
              untoldSchemas == \E n \in Range(schemas) : IsMap(PropertiesOf(refs, n))
                                 /\ \E v \in Range(PropertiesOf(refs, n).map) : Unsayable(refs, v)
  <2>1. Fine(refs)
    BY <1>1, SourcesIn
  <2>2. Sources(api) = Range(schemas) \cup UNION {listed(o) \cup bodies(o) : o \in ops}
    BY DEF Sources
  <2>3. Sources(api) \subseteq refs.values
    <3>1. Range(schemas) \subseteq refs.values
      BY <1>1, SourcesIn DEF Range
    <3>2. ASSUME NEW o \in ops PROVE listed(o) \cup bodies(o) \subseteq refs.values
      <4>1. listed(o) \subseteq refs.values
        BY <1>1, SourcesIn DEF Range
      <4>2. bodies(o) \subseteq refs.values
        BY <1>1, SourcesIn
      <4>. QED  BY <4>1, <4>2
    <3>. HIDE DEF listed, bodies, ops, schemas
    <3>. QED  BY <2>2, <3>1, <3>2
  <2>4. (\E t \in Met(refs, UNION {Pointers(n) : n \in Sources(api)}) : refs.at[t] = Raised) <=> unread
    <3>. DEFINE T == UNION {Pointers(n) : n \in Sources(api)}
    <3>1. T \in SUBSET DOMAIN refs.at
      BY <2>1, <2>3, FineKids
    <3>2. (\E t \in Met(refs, T) : refs.at[t] = Raised) <=> ~ T \subseteq Leading(refs, {})
      <4>. HIDE DEF T
      <4>. QED  BY <2>1, <3>1, MetIff
    <3>3. \A n \in Sources(api) : DeepResolve(refs, n) # Raised <=> Pointers(n) \subseteq Leading(refs, {})
      BY <2>1, <2>3, ResolvesIff
    <3>4. ~ T \subseteq Leading(refs, {}) <=> \E n \in Sources(api) : ~ Pointers(n) \subseteq Leading(refs, {})
      OBVIOUS
    <3>. QED  BY <3>2, <3>3, <3>4 DEF Unread
  <2>5. Broken(api) <=> listless \/ misnamed \/ null \/ unread \/ odd \/ untold
    <3>1. Broken(api) <=>
            \/ ~IsMap(api) \/ listless
            \/ misnamed
            \/ null
            \/ \E t \in Met(refs, UNION {Pointers(n) : n \in Sources(api)}) : refs.at[t] = Raised
            \/ odd \/ untold
      BY <1>1, Zenon DEF Broken
    <3>. HIDE DEF listless, misnamed, null, unread, odd, untold
    <3>. QED  BY <1>3, <2>4, <3>1
  <2>6. untold <=> untoldOps \/ untoldSchemas
    <3>1. Listing(api, refs) = {m \in Range(schemas) : IsMap(PropertiesOf(refs, m))}
      BY DEF Listing
    <3>. HIDE DEF ops, schemas
    <3>. QED  BY <3>1, SummarisedIs DEF ops
  <2>7. ASSUME NEW o \in ops
        PROVE  Operation(api, refs, o[1], o[2]) = Raised <=>
                  \/ Amiss(api, o) \/ Unread(refs, listed(o) \cup bodies(o))
                  \/ \E v \in TellingOf(api, refs, o) : Unsayable(refs, v)
    BY <1>1, OperationIs DEF Untold, TellingOf
  <2>8. ASSUME NEW name \in DOMAIN schemas
        PROVE  Schema(refs, name, schemas[name]) = Raised <=>
                  \/ name \in OtherKeys \/ DeepResolve(refs, schemas[name]) = Raised
                  \/ ~IsMap(Chased(refs, schemas[name])) \/ required(schemas[name])
                  \/ IsMap(PropertiesOf(refs, schemas[name]))
                     /\ \E v \in Range(PropertiesOf(refs, schemas[name]).map) : Unsayable(refs, v)
    <3>1. schemas[name] \in refs.values
      BY <1>1, SourcesIn
    <3>. HIDE DEF schemas
    <3>. QED  BY <2>1, <3>1, SchemaFails
  <2>9. Raised \in AllChunks(api) <=>
           \/ \E o \in ops : Operation(api, refs, o[1], o[2]) = Raised
           \/ listless \/ \E o \in MethodKeys(api) : o[1] \in OtherKeys
           \/ \E name \in DOMAIN schemas : Schema(refs, name, schemas[name]) = Raised
    <3>1. AllChunks(api) = {Metadata(api)} \cup Operations(api, refs) \cup Schemas(api, refs) \cup PathSummaries(api)
      BY <1>1, <1>3, Zenon DEF AllChunks
    <3>2. Metadata(api) # Raised /\ (Raised \in PathSummaries(api) <=> \E o \in MethodKeys(api) : o[1] \in OtherKeys)
      BY SaidIsNotRaised DEF Metadata, PathSummaries
    <3>3. Raised \in Operations(api, refs) <=> \E o \in ops : Operation(api, refs, o[1], o[2]) = Raised
      BY DEF Operations
    <3>4. Schemas(api, refs) = IF listless THEN {Raised} ELSE {Schema(refs, name, schemas[name]) : name \in DOMAIN schemas}
      BY Zenon DEF Schemas
    <3>5. Raised \in Schemas(api, refs) <=>
            listless \/ \E name \in DOMAIN schemas : Schema(refs, name, schemas[name]) = Raised
      <4>1. CASE listless
        <5>. HIDE DEF listless, schemas
        <5>1. Schemas(api, refs) = {Raised}
          BY <3>4, <4>1
        <5>. QED  BY <4>1, <5>1
      <4>2. CASE ~listless
        <5>. HIDE DEF listless, schemas
        <5>1. Schemas(api, refs) = {Schema(refs, name, schemas[name]) : name \in DOMAIN schemas}
          BY <3>4, <4>2
        <5>. QED  BY <4>2, <5>1
      <4>. QED  BY <4>1, <4>2
    <3>. HIDE DEF listless, schemas, ops
    <3>. QED  BY <3>1, <3>2, <3>3, <3>5
  <2>10. unread <=> \/ \E name \in DOMAIN schemas : DeepResolve(refs, schemas[name]) = Raised
                    \/ \E o \in ops : Unread(refs, listed(o) \cup bodies(o))
    <3>. HIDE DEF listed, bodies, ops, schemas
    <3>. QED  BY <2>2 DEF Unread, Range
  <2>11. (odd <=> \E name \in DOMAIN schemas : ~IsMap(Chased(refs, schemas[name])) \/ required(schemas[name]))
         /\ (untoldSchemas <=> \E name \in DOMAIN schemas : IsMap(PropertiesOf(refs, schemas[name]))
                                /\ \E v \in Range(PropertiesOf(refs, schemas[name]).map) : Unsayable(refs, v))
    <3>. HIDE DEF schemas, required
    <3>. QED  BY DEF Range
  <2>12. (\E o \in ops : Operation(api, refs, o[1], o[2]) = Raised) <=>
            \/ null \/ \E o \in ops : o[1] \in OtherKeys
            \/ (\E o \in ops : Unread(refs, listed(o) \cup bodies(o))) \/ untoldOps
    <3>. HIDE DEF listed, bodies, ops
    <3>. QED  BY <2>7 DEF Amiss
  <2>13. (\E name \in DOMAIN schemas : Schema(refs, name, schemas[name]) = Raised) <=>
            \/ \E name \in DOMAIN schemas : name \in OtherKeys
            \/ (\E name \in DOMAIN schemas : DeepResolve(refs, schemas[name]) = Raised) \/ odd \/ untoldSchemas
    <3>. HIDE DEF schemas, odd, untoldSchemas, required
    <3>. QED  BY <2>8, <2>11
  <2>14. /\ misnamed <=> \/ \E o \in MethodKeys(api) : o[1] \in OtherKeys
                         \/ \E name \in DOMAIN schemas : name \in OtherKeys
         /\ (\E o \in ops : o[1] \in OtherKeys) => \E o \in MethodKeys(api) : o[1] \in OtherKeys
    <3>. HIDE DEF schemas
    <3>. QED  BY DEF OperationKeys
  <2>. HIDE DEF listless, misnamed, null, unread, odd, untold, untoldOps, untoldSchemas, ops, schemas, listed, bodies
  <2>. QED  BY <2>5, <2>6, <2>9, <2>10, <2>12, <2>13, <2>14
<1>. QED  BY <1>2, <1>3

-----------------------------------------------------------------------------
(* Ids *)

\* The values of a function on a finite set are finitely many, and as many as
\* its arguments if no two are the same.
LEMMA RangeCounts ==
    ASSUME NEW S, IsFiniteSet(S), NEW f, DOMAIN f = S
    PROVE  /\ IsFiniteSet(Range(f))
           /\ (\A x, y \in S : f[x] = f[y] => x = y) => Cardinality(Range(f)) = Cardinality(S)
<1>. DEFINE g == [x \in S |-> f[x]]
<1>1. g \in [S -> Range(f)] /\ (\A y \in Range(f) : \E x \in S : g[x] = y) /\ \A x \in S : g[x] = f[x]
  BY DEF Range
<1>. HIDE DEF g
<1>2. g \in Surjection(S, Range(f))
  BY <1>1 DEF Surjection
<1>3. IsFiniteSet(Range(f))
  BY <1>2, FS_Surjection
<1>4. ASSUME \A x, y \in S : f[x] = f[y] => x = y PROVE Cardinality(Range(f)) = Cardinality(S)
  <2>1. g \in Bijection(S, Range(f))
    BY <1>1, <1>4, BijectionIs
  <2>2. ExistsBijection(S, Range(f))
    BY <2>1 DEF ExistsBijection
  <2>. QED  BY <2>2, FS_Bijection
<1>. QED  BY <1>3, <1>4

\* A description has finitely many operations.
LEMMA KeysFinite ==
    ASSUME NEW api, Readable(api)
    PROVE  /\ IsFiniteSet(MethodKeys(api)) /\ IsFiniteSet(OperationKeys(api))
           /\ IsFiniteSet(DOMAIN ComponentSchemas(api))
<1>1. PICK refs : refs = RefMap(api)
  OBVIOUS
<1>2. Fine(refs) /\ api \in refs.values
  BY <1>1, ReadableIsFine
<1>3. ASSUME NEW v, v \in refs.values \/ v = NoKeys PROVE IsMap(v) => IsFiniteSet(DOMAIN v.map)
  <2>1. CASE v = NoKeys
    <3>1. DOMAIN v.map = {}
      BY <2>1, NoKidsInLeaves DEF Kids
    <3>. QED  BY <3>1, FS_EmptySet
  <2>2. CASE v \in refs.values
    BY <1>2, <2>2 DEF Fine, WellFormed
  <2>. QED  BY <1>3, <2>1, <2>2
<1>4. \A v : v \in refs.values \/ v = NoKeys => \A key : Get(v, key, NoKeys) \in refs.values \/ Get(v, key, NoKeys) = NoKeys
  BY <1>2, GetStays
<1>5. IsFiniteSet(DOMAIN Paths(api))
  <2>1. PICK paths : paths = Get(api, "paths", NoKeys)
    OBVIOUS
  <2>2. Paths(api) = IF IsMap(paths) THEN paths.map ELSE <<>>
    BY <2>1, Zenon DEF Paths
  <2>3. CASE IsMap(paths)
    BY <1>2, <1>3, <1>4, <2>1, <2>2, <2>3
  <2>4. CASE ~IsMap(paths)
    <3>1. DOMAIN Paths(api) = {}
      BY <2>2, <2>4
    <3>. QED  BY <3>1, FS_EmptySet
  <2>. QED  BY <2>3, <2>4
<1>6. IsFiniteSet(DOMAIN Methods)
  <2>1. DOMAIN Methods = {"get", "GET", "post"}
    BY DEF Methods
  <2>2. IsFiniteSet({"get", "GET", "post"})
    <3>1. IsFiniteSet({"get"})
      BY FS_Singleton
    <3>2. IsFiniteSet({"get"} \cup {"GET"})
      BY <3>1, FS_AddElement
    <3>3. IsFiniteSet(({"get"} \cup {"GET"}) \cup {"post"})
      BY <3>2, FS_AddElement
    <3>4. ({"get"} \cup {"GET"}) \cup {"post"} = {"get", "GET", "post"}
      OBVIOUS
    <3>. QED  BY <3>3, <3>4
  <2>. QED  BY <2>1, <2>2
<1>7. IsFiniteSet((DOMAIN Paths(api)) \X (DOMAIN Methods))
  BY <1>5, <1>6, FS_Product
<1>8. MethodKeys(api) \in SUBSET ((DOMAIN Paths(api)) \X (DOMAIN Methods)) /\ OperationKeys(api) \in SUBSET MethodKeys(api)
  BY DEF MethodKeys, OperationKeys
<1>9. IsFiniteSet(MethodKeys(api))
  BY <1>7, <1>8, FS_Subset
<1>10. IsFiniteSet(OperationKeys(api))
  BY <1>8, <1>9, FS_Subset
<1>11. IsFiniteSet(DOMAIN ComponentSchemas(api))
  <2>1. PICK components : components = Get(api, "components", NoKeys)
    OBVIOUS
  <2>2. PICK schemas : schemas = Get(components, "schemas", NoKeys)
    OBVIOUS
  <2>3. schemas \in refs.values \/ schemas = NoKeys
    BY <1>2, <1>4, <2>1, <2>2
  <2>4. ComponentSchemas(api) = IF IsMap(schemas)
                                THEN [k \in {k \in DOMAIN schemas.map : IsMap(schemas.map[k])} |-> schemas.map[k]]
                                ELSE <<>>
    BY <2>1, <2>2, Zenon DEF ComponentSchemas
  <2>5. CASE IsMap(schemas)
    <3>1. DOMAIN ComponentSchemas(api) \in SUBSET DOMAIN schemas.map
      BY <2>4, <2>5
    <3>2. IsFiniteSet(DOMAIN schemas.map)
      BY <1>3, <2>3, <2>5
    <3>. QED  BY <3>1, <3>2, FS_Subset
  <2>6. CASE ~IsMap(schemas)
    <3>1. DOMAIN ComponentSchemas(api) = {}
      BY <2>4, <2>6
    <3>. QED  BY <3>1, FS_EmptySet
  <2>. QED  BY <2>5, <2>6
<1>. QED  BY <1>9, <1>10, <1>11

\* Each chunk of a description has an id of its kind.
LEMMA ChunkKinds ==
    ASSUME NEW api, NEW refs, refs = RefMap(api), IsMap(api), Raised \notin AllChunks(api), NEW c \in AllChunks(api)
    PROVE  \/ c = Metadata(api) /\ c.id = <<"meta">> /\ c.operations = Cardinality(MethodKeys(api))
           \/ \E o \in OperationKeys(api) : /\ c = Operation(api, refs, o[1], o[2])
                                            /\ c.id = <<"operation", Methods[o[2]], o[1]>> /\ c.key = o[2]
                                            /\ c.params = Merge(refs, Listed(api, o[1], o[2]))
           \/ \E name \in DOMAIN ComponentSchemas(api) : c = Schema(refs, name, ComponentSchemas(api)[name]) /\ c.id = <<"schema", name>>
           \/ \E o \in MethodKeys(api) : c = [id |-> <<"path", o[1]>>] /\ c.id = <<"path", o[1]>>
<1>1. AllChunks(api) = {Metadata(api)} \cup Operations(api, refs) \cup Schemas(api, refs) \cup PathSummaries(api)
  BY Zenon DEF AllChunks
<1>2. CASE c = Metadata(api)
  BY <1>2 DEF Metadata
<1>3. CASE c \in Operations(api, refs)
  <2>1. PICK o \in OperationKeys(api) : c = Operation(api, refs, o[1], o[2])
    BY <1>3 DEF Operations
  <2>2. /\ c.id = IdOf("operation", Methods[o[2]], o[1]) /\ c.key = o[2]
        /\ c.params = Merge(refs, Listed(api, o[1], o[2]))
    BY <2>1, OperationShape
  <2>. QED  BY <2>1, <2>2 DEF IdOf
<1>4. CASE c \in Schemas(api, refs)
  <2>1. Schemas(api, refs) = IF ~IsMap(Get(api, "components", NoKeys)) THEN {Raised}
                             ELSE {Schema(refs, name, ComponentSchemas(api)[name]) : name \in DOMAIN ComponentSchemas(api)}
    BY Zenon DEF Schemas
  <2>2. c # Raised
    OBVIOUS
  <2>3. PICK name \in DOMAIN ComponentSchemas(api) : c = Schema(refs, name, ComponentSchemas(api)[name])
    BY <1>4, <2>1, <2>2
  <2>. QED  BY <2>2, <2>3, SchemaShape
<1>5. CASE c \in PathSummaries(api)
  BY <1>5 DEF PathSummaries
<1>. QED  BY <1>1, <1>2, <1>3, <1>4, <1>5

\* The ids of the chunks of a description tell them apart, and there is one
\* chunk for each operation that the metadata chunk counts.
LEMMA IdsDistinct ==
    ASSUME NEW api, Readable(api), IsMap(api), Regular(api), Raised \notin AllChunks(api),
           NEW all, all = AllChunks(api)
    PROVE  /\ Cardinality({c.id : c \in all}) = Cardinality(all)
           /\ \A c \in all : c.id[1] = "meta" =>
                 c.operations = Cardinality({d \in all : d.id[1] = "operation"})
<1>1. PICK refs : refs = RefMap(api)
  OBVIOUS
<1>. DEFINE K == OperationKeys(api)
            op == [o \in K |-> Operation(api, refs, o[1], o[2])]
            path == [o \in MethodKeys(api) |-> [id |-> <<"path", o[1]>>]]
            schema == [name \in DOMAIN ComponentSchemas(api) |-> Schema(refs, name, ComponentSchemas(api)[name])]
            id == [c \in all |-> c.id]
<1>2. \A c \in all :
           \/ c = Metadata(api) /\ c.id = <<"meta">> /\ c.operations = Cardinality(MethodKeys(api))
           \/ \E o \in OperationKeys(api) : /\ c = Operation(api, refs, o[1], o[2])
                                            /\ c.id = <<"operation", Methods[o[2]], o[1]>> /\ c.key = o[2]
                                            /\ c.params = Merge(refs, Listed(api, o[1], o[2]))
           \/ \E name \in DOMAIN ComponentSchemas(api) : c = Schema(refs, name, ComponentSchemas(api)[name]) /\ c.id = <<"schema", name>>
           \/ \E o \in MethodKeys(api) : c = [id |-> <<"path", o[1]>>] /\ c.id = <<"path", o[1]>>
  BY <1>1, ChunkKinds
<1>3. \A o \in MethodKeys(api) : o \in K
  BY DEF Regular
<1>4. \A o \in K : o \in MethodKeys(api) /\ o = <<o[1], o[2]>> /\ o[2] \in DOMAIN Methods
  BY DEF OperationKeys, MethodKeys
<1>5. \A o, p \in K : o[1] = p[1] /\ Methods[o[2]] = Methods[p[2]] => o = p
  BY <1>4 DEF Regular
<1>6. \A c \in all : c.id[1] = "meta" => c = Metadata(api)
  BY <1>2
<1>7. ASSUME NEW c \in all, NEW d \in all, c.id = d.id PROVE c = d
  <2>1. CASE c.id = <<"meta">>
    <3>1. c.id[1] = "meta" /\ d.id[1] = "meta"
      BY <1>7, <2>1
    <3>. QED  BY <1>6, <3>1
  <2>2. CASE \E o \in K : c = Operation(api, refs, o[1], o[2]) /\ c.id = <<"operation", Methods[o[2]], o[1]>>
    <3>1. PICK o \in K : c = Operation(api, refs, o[1], o[2]) /\ c.id = <<"operation", Methods[o[2]], o[1]>>
      BY <2>2
    <3>2. PICK p \in K : d = Operation(api, refs, p[1], p[2]) /\ d.id = <<"operation", Methods[p[2]], p[1]>>
      BY <1>2, <1>7, <3>1
    <3>3. o = p
      BY <1>5, <1>7, <3>1, <3>2
    <3>. QED  BY <3>1, <3>2, <3>3
  <2>3. CASE \E name \in DOMAIN ComponentSchemas(api) : c = Schema(refs, name, ComponentSchemas(api)[name]) /\ c.id = <<"schema", name>>
    BY <1>2, <1>7, <2>3
  <2>4. CASE \E o \in MethodKeys(api) : c = [id |-> <<"path", o[1]>>] /\ c.id = <<"path", o[1]>>
    BY <1>2, <1>7, <2>4
  <2>. QED  BY <1>2, <2>1, <2>2, <2>3, <2>4
<1>8. IsFiniteSet(MethodKeys(api)) /\ IsFiniteSet(K) /\ IsFiniteSet(DOMAIN ComponentSchemas(api))
  BY KeysFinite
<1>9. IsFiniteSet(Range(op)) /\ IsFiniteSet(Range(path)) /\ IsFiniteSet(Range(schema))
  <2>1. DOMAIN op = K /\ DOMAIN path = MethodKeys(api) /\ DOMAIN schema = DOMAIN ComponentSchemas(api)
    OBVIOUS
  <2>. HIDE DEF op, path, schema, K
  <2>2. IsFiniteSet(Range(op))
    BY <1>8, <2>1, RangeCounts
  <2>3. IsFiniteSet(Range(path))
    BY <1>8, <2>1, RangeCounts
  <2>4. IsFiniteSet(Range(schema))
    BY <1>8, <2>1, RangeCounts
  <2>. QED  BY <2>2, <2>3, <2>4
<1>10. IsFiniteSet(all)
  <2>1. IsFiniteSet({Metadata(api)})
    BY FS_Singleton
  <2>2. IsFiniteSet(({Metadata(api)} \cup Range(op)) \cup (Range(path) \cup Range(schema)))
    <3>. HIDE DEF op, path, schema
    <3>1. IsFiniteSet({Metadata(api)} \cup Range(op))
      BY <1>9, <2>1, FS_Union
    <3>2. IsFiniteSet(Range(path) \cup Range(schema))
      BY <1>9, FS_Union
    <3>. QED  BY <3>1, <3>2, FS_Union
  <2>3. all \in SUBSET (({Metadata(api)} \cup Range(op)) \cup (Range(path) \cup Range(schema)))
    <3>1. \A o \in K : Operation(api, refs, o[1], o[2]) \in Range(op)
      BY DEF Range
    <3>2. \A o \in MethodKeys(api) : [id |-> <<"path", o[1]>>] \in Range(path)
      BY DEF Range
    <3>3. \A name \in DOMAIN ComponentSchemas(api) : Schema(refs, name, ComponentSchemas(api)[name]) \in Range(schema)
      BY DEF Range
    <3>. HIDE DEF op, path, schema
    <3>. QED  BY <1>2, <3>1, <3>2, <3>3
  <2>. QED  BY <2>2, <2>3, FS_Subset
<1>11. Cardinality({c.id : c \in all}) = Cardinality(all)
  <2>1. DOMAIN id = all /\ Range(id) = {c.id : c \in all} /\ \A c, d \in all : id[c] = id[d] => c = d
    BY <1>7 DEF Range
  <2>. HIDE DEF id
  <2>2. Cardinality(Range(id)) = Cardinality(all)
    BY <1>10, <2>1, RangeCounts
  <2>. QED  BY <2>1, <2>2
<1>12. {d \in all : d.id[1] = "operation"} = Range(op)
  <2>1. \A d \in all : d.id[1] = "operation" => \E o \in K : d = Operation(api, refs, o[1], o[2])
    BY <1>2
  <2>2. ASSUME NEW o \in K
        PROVE  Operation(api, refs, o[1], o[2]) \in all /\ Operation(api, refs, o[1], o[2]).id[1] = "operation"
    <3>1. AllChunks(api) = {Metadata(api)} \cup Operations(api, refs) \cup Schemas(api, refs) \cup PathSummaries(api)
      BY <1>1, Zenon DEF AllChunks
    <3>2. Operation(api, refs, o[1], o[2]) \in all
      BY <3>1 DEF Operations
    <3>3. Operation(api, refs, o[1], o[2]).id = IdOf("operation", Methods[o[2]], o[1])
      BY <3>2, OperationShape
    <3>. QED  BY <3>2, <3>3 DEF IdOf
  <2>3. Range(op) = {Operation(api, refs, o[1], o[2]) : o \in K}
    BY DEF Range
  <2>. QED  BY <2>1, <2>2, <2>3
<1>13. Cardinality(Range(op)) = Cardinality(MethodKeys(api))
  <2>1. K = MethodKeys(api)
    BY <1>3, <1>4
  <2>2. \A o, p \in K : op[o] = op[p] => o = p
    <3>1. ASSUME NEW o \in K, NEW p \in K, op[o] = op[p] PROVE o = p
      <4>1. op[o] \in all /\ op[p] \in all
        <5>1. op[o] \in Range(op) /\ op[p] \in Range(op)
          BY DEF Range
        <5>. QED  BY <1>12, <5>1
      <4>2. op[o].id = IdOf("operation", Methods[o[2]], o[1]) /\ op[p].id = IdOf("operation", Methods[p[2]], p[1])
        <5>1. op[o] = Operation(api, refs, o[1], o[2]) /\ op[p] = Operation(api, refs, p[1], p[2]) /\ op[o] # Raised /\ op[p] # Raised
          BY <4>1
        <5>. HIDE DEF op
        <5>. QED  BY <5>1, OperationShape
      <4>3. <<"operation", Methods[o[2]], o[1]>> = <<"operation", Methods[p[2]], p[1]>>
        BY <3>1, <4>2 DEF IdOf
      <4>. QED  BY <1>5, <4>3
    <3>. QED  BY <3>1
  <2>3. DOMAIN op = K
    OBVIOUS
  <2>. HIDE DEF op, K
  <2>. QED  BY <1>8, <2>1, <2>2, <2>3, RangeCounts
<1>14. ASSUME NEW c \in all, c.id[1] = "meta" PROVE c.operations = Cardinality(MethodKeys(api))
  BY <1>2, <1>14
<1>. QED  BY <1>11, <1>12, <1>13, <1>14

-----------------------------------------------------------------------------
(* References that are left *)

\* How deep resolving a value may go, at most
Need(refs, H, n, s) == Cardinality(DOMAIN refs.at \ s) * (H + 1) + Rank(n)

\* It is within the limit, and less for each call it leads to.
LEMMA NeedIs ==
    ASSUME NEW refs, Fine(refs), NEW H, Shallow(refs, H), NEW n \in refs.values, NEW s \in SUBSET DOMAIN refs.at
    PROVE  /\ Need(refs, H, n, s) \in 1 .. RecursionLimit - 1 /\ Rank(n) \in 1 .. Need(refs, H, n, s)
           /\ \A t \in DOMAIN refs.at \ s : \A m \in refs.values : Need(refs, H, m, s \cup {t}) < Need(refs, H, n, s)
           /\ \A c \in Range(Kids(n)) : Need(refs, H, c, s) < Need(refs, H, n, s)
<1>. DEFINE P == DOMAIN refs.at
<1>1. /\ IsFiniteSet(P) /\ H \in Nat /\ (Cardinality(P) + 1) * (H + 1) < RecursionLimit
      /\ \A v \in refs.values : Rank(v) \in 1 .. H
  BY DEF Fine, Linked, Shallow
<1>2. \A u \in SUBSET P : /\ IsFiniteSet(P \ u) /\ Cardinality(P \ u) \in Nat
                          /\ Cardinality(P \ u) <= Cardinality(P) /\ Cardinality(P) \in Nat
  <2>1. \A u \in SUBSET P : P \ u \in SUBSET P
    OBVIOUS
  <2>. HIDE DEF P
  <2>2. ASSUME NEW u \in SUBSET P PROVE IsFiniteSet(P \ u) /\ Cardinality(P \ u) <= Cardinality(P)
    BY <1>1, <2>1, FS_Subset
  <2>. QED  BY <1>1, <2>2, FS_CardinalityType
<1>. HIDE DEF P
<1>3. PICK c \in Nat : c = Cardinality(P \ s)
  BY <1>2 DEF P
<1>4. PICK d \in Nat : d = Cardinality(P)
  BY <1>1, FS_CardinalityType
<1>5. c <= d
  BY <1>2, <1>3, <1>4 DEF P
<1>6. PICK a : a = c * (H + 1)
  OBVIOUS
<1>7. a \in Nat /\ a + H < RecursionLimit
  <2>1. PICK e \in Nat : d = c + e
    <3>1. d - c \in Nat /\ d = c + (d - c)
      BY <1>5
    <3>. QED  BY <3>1
  <2>2. PICK b : b = e * (H + 1)
    OBVIOUS
  <2>3. a \in Nat /\ b \in Nat
    BY <1>1, <1>6, <2>2
  <2>4. (d + 1) * (H + 1) = a + b + H + 1
    BY <1>1, <1>6, <2>1, <2>2
  <2>. QED  BY <1>1, <1>4, <2>3, <2>4, RecursionLimitAssumption
<1>8. Rank(n) \in 1 .. H
  BY <1>1
<1>9. Need(refs, H, n, s) = a + Rank(n)
  BY <1>3, <1>6 DEF Need, P
<1>10. Need(refs, H, n, s) \in 1 .. RecursionLimit - 1 /\ Rank(n) \in 1 .. Need(refs, H, n, s)
  BY <1>1, <1>7, <1>8, <1>9, RecursionLimitAssumption
<1>11. ASSUME NEW t \in P \ s, NEW m \in refs.values PROVE Need(refs, H, m, s \cup {t}) < Need(refs, H, n, s)
  <2>1. Cardinality(P \ (s \cup {t})) = Cardinality(P \ s) - 1
    <3>1. P \ (s \cup {t}) = (P \ s) \ {t} /\ t \in P \ s
      OBVIOUS
    <3>2. IsFiniteSet(P \ s)
      BY <1>2 DEF P
    <3>3. Cardinality((P \ s) \ {t}) = Cardinality(P \ s) - 1
      BY <3>1, <3>2, FS_RemoveElement
    <3>. QED  BY <3>1, <3>3
  <2>2. PICK b \in Nat : b = Cardinality(P \ (s \cup {t}))
    <3>1. s \cup {t} \in SUBSET P
      BY DEF P
    <3>. QED  BY <1>2, <3>1
  <2>3. c = b + 1
    BY <1>3, <2>1, <2>2
  <2>4. PICK e : e = b * (H + 1)
    OBVIOUS
  <2>5. e \in Nat /\ a = e + H + 1
    BY <1>1, <1>6, <2>3, <2>4
  <2>6. Need(refs, H, m, s \cup {t}) = e + Rank(m)
    BY <2>2, <2>4 DEF Need, P
  <2>7. Rank(m) \in 1 .. H
    BY <1>1
  <2>. QED  BY <1>1, <1>8, <1>9, <2>5, <2>6, <2>7
<1>12. ASSUME NEW k \in Range(Kids(n)) PROVE Need(refs, H, k, s) < Need(refs, H, n, s)
  <2>1. Rank(k) < Rank(n) /\ k \in refs.values
    BY DEF Shallow, Fine
  <2>2. Rank(k) \in 1 .. H
    BY <1>1, <2>1
  <2>3. Need(refs, H, k, s) = a + Rank(k)
    BY <1>3, <1>6 DEF Need, P
  <2>. QED  BY <1>7, <1>8, <1>9, <2>1, <2>2, <2>3
<1>. QED  BY <1>10, <1>11, <1>12 DEF P

\* What has been resolved is no deeper than that.
LEMMA ResultHeight ==
    ASSUME NEW refs, Fine(refs), NEW R, Resolving(refs, R), NEW H, Shallow(refs, H)
    PROVE  \A k \in 0 .. RecursionLimit : \A n \in refs.values : \A s \in SUBSET DOMAIN refs.at :
              R[k][<<n, s>>] # Raised => Held(R[k][<<n, s>>], Need(refs, H, n, s)) = {}
<1>. DEFINE Good(k) == \A n \in refs.values : \A s \in SUBSET DOMAIN refs.at :
                          R[k][<<n, s>>] # Raised => Held(R[k][<<n, s>>], Need(refs, H, n, s)) = {}
            Wrong == {k \in 0 .. RecursionLimit : ~Good(k)}
<1>. SUFFICES ASSUME Wrong # {} PROVE FALSE
  OBVIOUS
<1>1. PICK k \in Wrong : \A j \in Wrong : k <= j
  <2>1. Wrong \in SUBSET Nat
    BY RecursionLimitAssumption
  <2>. HIDE DEF Wrong
  <2>. QED  BY <2>1, LeastMember
<1>2. k \in 0 .. RecursionLimit /\ ~Good(k)
  BY <1>1
<1>3. PICK n \in refs.values, s \in SUBSET DOMAIN refs.at :
         R[k][<<n, s>>] # Raised /\ Held(R[k][<<n, s>>], Need(refs, H, n, s)) # {}
  BY <1>2
<1>4. k # 0
  BY <1>3 DEF Resolving
<1>5. k \in 1 .. RecursionLimit /\ k - 1 \in 0 .. RecursionLimit /\ ~ k <= k - 1
  BY <1>2, <1>4, RecursionLimitAssumption
<1>6. Good(k - 1)
  BY <1>1, <1>5
<1>. HIDE DEF Wrong
<1>7. PICK r : r = R[k][<<n, s>>]
  OBVIOUS
<1>8. PICK N : N = Need(refs, H, n, s)
  OBVIOUS
<1>9. Returns(refs, R[k - 1], n, s, r) /\ r # Raised /\ Held(r, N) # {}
  BY <1>3, <1>5, <1>7, <1>8, ResolvingReturns
<1>10. N \in 1 .. RecursionLimit - 1 /\ Rank(n) \in 1 .. N
  BY <1>8, NeedIs
<1>11. N \in 0 .. RecursionLimit /\ N - 1 \in 0 .. RecursionLimit - 1 /\ (N - 1) + 1 = N
  BY <1>10, RecursionLimitAssumption
<1>12. ASSUME NEW v, NEW m \in 1 .. RecursionLimit, Held(v, m) = {}, NEW j \in m .. RecursionLimit PROVE Held(v, j) = {}
  <2>1. m \in 0 .. RecursionLimit
    BY RecursionLimitAssumption
  <2>. QED  BY <1>12, <2>1, HeldEnds
<1>13. r # n
  <2>1. Held(n, Rank(n)) = {}
    BY DEF Shallow
  <2>2. Rank(n) \in 1 .. RecursionLimit /\ N \in Rank(n) .. RecursionLimit
    BY <1>10, <1>11, RecursionLimitAssumption
  <2>3. Held(n, N) = {}
    BY <1>12, <2>1, <2>2
  <2>. QED  BY <1>9, <2>3
<1>14. CASE IsRef(n)
  <2>1. PICK t : t = Target(n)
    OBVIOUS
  <2>2. t \notin s /\ t \in DOMAIN refs.at
    BY <1>9, <1>13, <1>14, <2>1, FineKids DEF Returns
  <2>3. refs.at[t] # Raised /\ r = R[k - 1][<<refs.at[t], s \cup {t}>>]
    BY <1>9, <1>14, <2>1, <2>2 DEF Returns
  <2>4. refs.at[t] \in refs.values /\ s \cup {t} \in SUBSET DOMAIN refs.at
    BY <1>14, <2>1, <2>2, <2>3, FineKids
  <2>5. PICK M : M = Need(refs, H, refs.at[t], s \cup {t})
    OBVIOUS
  <2>6. Held(r, M) = {}
    BY <1>6, <1>9, <2>3, <2>4, <2>5
  <2>7. M < N
    BY <1>8, <2>2, <2>4, <2>5, NeedIs
  <2>8. M \in 1 .. RecursionLimit - 1
    BY <2>4, <2>5, NeedIs
  <2>9. M \in 1 .. RecursionLimit /\ N \in M .. RecursionLimit
    BY <1>11, <2>7, <2>8, RecursionLimitAssumption
  <2>. QED  BY <1>9, <1>12, <2>6, <2>9
<1>15. CASE ~IsRef(n)
  <2>. DEFINE kids == KidsBy(R[k - 1], n, s)
  <2>1. /\ \A key \in DOMAIN Kids(n) : R[k - 1][<<Kids(n)[key], s>>] # Raised
        /\ r = Map(kids) \/ r = List(kids)
    BY <1>9, <1>13, <1>15 DEF Returns
  <2>2. Kids(r) = kids
    <3>. HIDE DEF kids
    <3>1. IsMap(Map(kids)) /\ Map(kids).map = kids /\ ~IsMap(List(kids)) /\ IsList(List(kids)) /\ List(kids).list = kids
      BY KindsDiffer
    <3>. QED  BY <2>1, <3>1 DEF Kids, Items
  <2>3. ASSUME NEW c \in Range(kids) PROVE Held(c, N - 1) = {}
    <3>1. PICK key \in DOMAIN Kids(n) : c = R[k - 1][<<Kids(n)[key], s>>]
      BY DEF Range, KidsBy
    <3>2. PICK m : m = Kids(n)[key]
      OBVIOUS
    <3>3. m \in refs.values /\ m \in Range(Kids(n)) /\ c # Raised /\ c = R[k - 1][<<m, s>>]
      BY <2>1, <3>1, <3>2, FineKids
    <3>4. PICK M : M = Need(refs, H, m, s)
      OBVIOUS
    <3>5. Held(c, M) = {}
      BY <1>6, <3>3, <3>4
    <3>6. M < N
      BY <1>8, <3>3, <3>4, NeedIs
    <3>7. M \in 1 .. RecursionLimit - 1
      BY <3>3, <3>4, NeedIs
    <3>8. M \in 1 .. RecursionLimit /\ N - 1 \in M .. RecursionLimit
      BY <1>10, <3>6, <3>7, RecursionLimitAssumption
    <3>. QED  BY <1>12, <3>5, <3>8
  <2>4. Held(r, N) = {}
    <3>. HIDE DEF kids
    <3>1. Held(r, (N - 1) + 1) = UNION {Held(c, N - 1) : c \in Range(Kids(r))}
      BY <1>11, HeldShifts
    <3>. QED  BY <1>11, <2>2, <2>3, <3>1
  <2>. QED  BY <1>9, <2>4
<1>. QED  BY <1>14, <1>15

\* Every pointer being resolved leads back to what is looked at.
Back(refs, n, s) == \A u \in s : Pointers(n) \subseteq Met(refs, Pointers(refs.at[u]))

\* What has been resolved has no references left but those that lead back to
\* themselves.
LEMMA LeftLeadBack ==
    ASSUME NEW refs, Fine(refs), NEW R, Resolving(refs, R)
    PROVE  \A k \in 0 .. RecursionLimit : \A n \in refs.values : \A s \in SUBSET DOMAIN refs.at :
              R[k][<<n, s>>] # Raised /\ Back(refs, n, s) =>
                 \A t \in Pointers(R[k][<<n, s>>]) : t \in Met(refs, Pointers(refs.at[t]))
<1>. DEFINE Led(r) == \A t \in Pointers(r) : t \in Met(refs, Pointers(refs.at[t]))
            Good(k) == \A n \in refs.values : \A s \in SUBSET DOMAIN refs.at :
                          R[k][<<n, s>>] # Raised /\ Back(refs, n, s) => Led(R[k][<<n, s>>])
            Wrong == {k \in 0 .. RecursionLimit : ~Good(k)}
<1>. SUFFICES ASSUME Wrong # {} PROVE FALSE
  OBVIOUS
<1>1. PICK k \in Wrong : \A j \in Wrong : k <= j
  <2>1. Wrong \in SUBSET Nat
    BY RecursionLimitAssumption
  <2>. HIDE DEF Wrong
  <2>. QED  BY <2>1, LeastMember
<1>2. k \in 0 .. RecursionLimit /\ ~Good(k)
  BY <1>1
<1>3. PICK n \in refs.values, s \in SUBSET DOMAIN refs.at :
         R[k][<<n, s>>] # Raised /\ Back(refs, n, s) /\ ~Led(R[k][<<n, s>>])
  BY <1>2
<1>4. k # 0
  BY <1>3 DEF Resolving
<1>5. k \in 1 .. RecursionLimit /\ k - 1 \in 0 .. RecursionLimit /\ ~ k <= k - 1
  BY <1>2, <1>4, RecursionLimitAssumption
<1>6. Good(k - 1)
  BY <1>1, <1>5
<1>. HIDE DEF Wrong
<1>7. PICK r : r = R[k][<<n, s>>]
  OBVIOUS
<1>8. Returns(refs, R[k - 1], n, s, r) /\ r # Raised /\ ~Led(r)
  BY <1>3, <1>5, <1>7, ResolvingReturns
<1>9. PICK H : Shallow(refs, H)
  BY DEF Fine
<1>10. \E h \in 0 .. RecursionLimit : Held(r, h) = {}
  <2>1. Need(refs, H, n, s) \in 1 .. RecursionLimit - 1
    BY <1>9, NeedIs
  <2>2. Need(refs, H, n, s) \in 0 .. RecursionLimit
    BY <2>1, RecursionLimitAssumption
  <2>3. Held(r, Need(refs, H, n, s)) = {}
    BY <1>5, <1>7, <1>8, <1>9, ResultHeight
  <2>. QED  BY <2>2, <2>3
<1>11. \A u \in DOMAIN refs.at : \A T : T = Pointers(refs.at[u]) => \A w \in Met(refs, T) : w \in DOMAIN refs.at
            /\ Pointers(refs.at[w]) \cap DOMAIN refs.at \subseteq Met(refs, T)
  <2>. DEFINE g == [t \in DOMAIN refs.at |-> Pointers(refs.at[t])]
  <2>1. \A T : Met(refs, T) = Reach(g, T)
    BY DEF Met
  <2>2. DOMAIN g = DOMAIN refs.at /\ \A w \in DOMAIN refs.at : g[w] = Pointers(refs.at[w])
    OBVIOUS
  <2>. HIDE DEF g
  <2>. QED  BY <2>1, <2>2, ReachIs
<1>12. \A T \in SUBSET DOMAIN refs.at : T \subseteq Met(refs, T)
  <2>. DEFINE g == [t \in DOMAIN refs.at |-> Pointers(refs.at[t])]
  <2>1. \A T : Met(refs, T) = Reach(g, T)
    BY DEF Met
  <2>2. DOMAIN g = DOMAIN refs.at
    OBVIOUS
  <2>. HIDE DEF g
  <2>3. \A T : T \cap DOMAIN g \subseteq Reach(g, T)
    BY ReachIs
  <2>. QED  BY <2>1, <2>2, <2>3
<1>13. CASE IsRef(n) /\ Target(n) \in s
  <2>1. r = n /\ Pointers(n) = {Target(n)}
    BY <1>8, <1>13, FineKids DEF Returns
  <2>2. Pointers(n) \subseteq Met(refs, Pointers(refs.at[Target(n)]))
    BY <1>3, <1>13 DEF Back
  <2>. QED  BY <1>8, <2>1, <2>2
<1>14. CASE IsRef(n) /\ Target(n) \notin s
  <2>1. PICK t : t = Target(n)
    OBVIOUS
  <2>2. t \in DOMAIN refs.at /\ Pointers(n) = {t}
    BY <1>14, <2>1, FineKids
  <2>3. refs.at[t] # Raised /\ r = R[k - 1][<<refs.at[t], s \cup {t}>>]
    BY <1>8, <1>14, <2>1 DEF Returns
  <2>4. refs.at[t] \in refs.values /\ s \cup {t} \in SUBSET DOMAIN refs.at
    BY <1>14, <2>1, <2>2, <2>3, FineKids
  <2>5. Pointers(refs.at[t]) \in SUBSET DOMAIN refs.at
    BY <2>4, FineKids
  <2>6. ASSUME NEW u \in s \cup {t} PROVE Pointers(refs.at[t]) \subseteq Met(refs, Pointers(refs.at[u]))
    <3>1. CASE u = t
      BY <1>12, <2>5, <3>1
    <3>2. CASE u \in s
      <4>1. t \in Met(refs, Pointers(refs.at[u])) /\ u \in DOMAIN refs.at
        BY <1>3, <2>2, <3>2 DEF Back
      <4>. QED  BY <1>11, <2>5, <4>1
    <3>. QED  BY <3>1, <3>2
  <2>7. Back(refs, refs.at[t], s \cup {t})
    BY <2>6 DEF Back
  <2>. HIDE DEF Led
  <2>. QED  BY <1>6, <1>8, <2>3, <2>4, <2>7
<1>15. CASE ~IsRef(n)
  <2>. DEFINE kids == KidsBy(R[k - 1], n, s)
  <2>1. (~IsMap(n) /\ ~IsList(n) /\ r = n) \/
        (/\ \A key \in DOMAIN Kids(n) : R[k - 1][<<Kids(n)[key], s>>] # Raised
         /\ (IsMap(n) /\ r = Map(kids)) \/ (~IsMap(n) /\ r = List(kids)))
    BY <1>8, <1>15 DEF Returns
  <2>2. CASE ~IsMap(n) /\ ~IsList(n) /\ r = n
    <3>1. Pointers(n) = UNION {Pointers(Kids(n)[key]) : key \in DOMAIN Kids(n)}
      BY <1>15, FineKids
    <3>2. Pointers(r) = {}
      BY <2>2, <3>1, NoKidsInLeaves
    <3>. QED  BY <1>8, <3>2
  <2>3. CASE /\ \A key \in DOMAIN Kids(n) : R[k - 1][<<Kids(n)[key], s>>] # Raised
             /\ (IsMap(n) /\ r = Map(kids)) \/ (~IsMap(n) /\ r = List(kids))
    <3>1. Kids(r) = kids /\ ~IsRef(r)
      <4>1. DOMAIN kids = DOMAIN Kids(n)
        BY DEF KidsBy
      <4>. HIDE DEF kids
      <4>2. IsMap(Map(kids)) /\ Map(kids).map = kids /\ ~IsMap(List(kids)) /\ IsList(List(kids)) /\ List(kids).list = kids
        BY KindsDiffer
      <4>. QED  BY <1>15, <2>3, <4>1, <4>2 DEF Kids, Items, IsRef
    <3>2. Pointers(r) = UNION {Pointers(c) : c \in Range(Kids(r))}
      BY <1>10, <3>1, PointersOf
    <3>3. ASSUME NEW c \in Range(kids) PROVE Led(c)
      <4>1. PICK key \in DOMAIN Kids(n) : c = R[k - 1][<<Kids(n)[key], s>>]
        BY DEF Range, KidsBy
      <4>2. PICK m : m = Kids(n)[key]
        OBVIOUS
      <4>3. m \in refs.values /\ c # Raised /\ c = R[k - 1][<<m, s>>]
        BY <2>3, <4>1, <4>2, FineKids
      <4>4. Pointers(m) \subseteq Pointers(n)
        BY <1>15, <4>2, FineKids
      <4>5. Back(refs, m, s)
        BY <1>3, <4>4 DEF Back
      <4>. HIDE DEF Led
      <4>. QED  BY <1>6, <4>3, <4>5
    <3>4. Led(r)
      <4>. HIDE DEF kids
      <4>. QED  BY <3>1, <3>2, <3>3
    <3>. QED  BY <1>8, <3>4
  <2>. HIDE DEF kids
  <2>. QED  BY <2>1, <2>2, <2>3
<1>. QED  BY <1>13, <1>14, <1>15

\* So has what deep_resolve makes of a value.
LEMMA ResolvedLeadsBack ==
    ASSUME NEW refs, Fine(refs), NEW n \in refs.values, DeepResolve(refs, n) # Raised
    PROVE  \A t \in Pointers(DeepResolve(refs, n)) : t \in Met(refs, Pointers(refs.at[t]))
<1>1. PICK R : Solves(refs, R)
  BY Solved
<1>2. Resolving(refs, R) /\ DeepResolve(refs, n) = R[RecursionLimit][<<n, {}>>]
  BY <1>1, Zenon DEF Solves
<1>3. RecursionLimit \in 0 .. RecursionLimit /\ {} \in SUBSET DOMAIN refs.at /\ Back(refs, n, {})
  BY RecursionLimitAssumption DEF Back
<1>. QED  BY <1>2, <1>3, LeftLeadBack

-----------------------------------------------------------------------------
(* What an operation says *)

\* What the text of an operation says of a parameter that lasts
SaysOf(refs, param, params) ==
    \E n \in DOMAIN params :
        LET end == Chased(refs, param)
        IN  /\ DOMAIN params[n].map = DOMAIN end.map
            /\ \A k \in DOMAIN end.map : TextAt(refs, params[n], k) = TextAt(refs, end, k)
            /\ Resolved(refs, params[n])

\* The operation a chunk is of
LEMMA OperationOf ==
    ASSUME NEW api, NEW refs, refs = RefMap(api), IsMap(api), Raised \notin AllChunks(api),
           NEW c \in AllChunks(api), NEW o \in OperationKeys(api),
           c.id = IdOf("operation", Methods[o[2]], o[1]), c.key = o[2]
    PROVE  c = Operation(api, refs, o[1], o[2]) /\ c.params = Merge(refs, Listed(api, o[1], o[2]))
<1>1. c.id = <<"operation", Methods[o[2]], o[1]>>
  BY DEF IdOf
<1>2. \E p \in OperationKeys(api) : /\ c = Operation(api, refs, p[1], p[2])
                                    /\ c.id = <<"operation", Methods[p[2]], p[1]>> /\ c.key = p[2]
                                    /\ c.params = Merge(refs, Listed(api, p[1], p[2]))
  <2>1. \/ c = Metadata(api) /\ c.id = <<"meta">> /\ c.operations = Cardinality(MethodKeys(api))
        \/ \E p \in OperationKeys(api) : /\ c = Operation(api, refs, p[1], p[2])
                                         /\ c.id = <<"operation", Methods[p[2]], p[1]>> /\ c.key = p[2]
                                         /\ c.params = Merge(refs, Listed(api, p[1], p[2]))
        \/ \E name \in DOMAIN ComponentSchemas(api) : c = Schema(refs, name, ComponentSchemas(api)[name]) /\ c.id = <<"schema", name>>
        \/ \E p \in MethodKeys(api) : c = [id |-> <<"path", p[1]>>] /\ c.id = <<"path", p[1]>>
    BY ChunkKinds, ZenonT(60)
  <2>. QED  BY <1>1, <2>1
<1>3. PICK p \in OperationKeys(api) : /\ c = Operation(api, refs, p[1], p[2])
                                      /\ c.id = <<"operation", Methods[p[2]], p[1]>> /\ c.key = p[2]
                                      /\ c.params = Merge(refs, Listed(api, p[1], p[2]))
  BY <1>2
<1>4. p[1] = o[1] /\ p[2] = o[2]
  BY <1>1, <1>3
<1>. QED  BY <1>3, <1>4

\* The text of an operation says of each parameter that lasts what it leads to.
LEMMA OperationSays ==
    ASSUME NEW api, Readable(api), NEW refs, refs = RefMap(api), IsMap(api), Raised \notin AllChunks(api),
           NEW c \in AllChunks(api), NEW o \in OperationKeys(api),
           c.id = IdOf("operation", Methods[o[2]], o[1]), c.key = o[2],
           NEW listed, listed = Listed(api, o[1], o[2])
    PROVE  /\ Len(c.params) = Cardinality(Lasting(refs, listed))
           /\ \A i \in Lasting(refs, listed) : SaysOf(refs, listed[i], c.params)
<1>. DEFINE bodies == Bodies(Paths(api)[o[1]].map[o[2]])
<1>1. c = Operation(api, refs, o[1], o[2]) /\ c.params = Merge(refs, listed)
  BY OperationOf
<1>2. ~Untold(refs, listed, bodies)
  BY <1>1, OperationIs
<1>3. \A i \in DOMAIN listed : DeepResolve(refs, listed[i]) # Raised
  BY <1>2 DEF Untold, Unread, Range
<1>4. Fine(refs) /\ (\E m \in Nat : DOMAIN listed = 1 .. m) /\ \A i \in DOMAIN listed : listed[i] \in refs.values
  BY SourcesIn
<1>5. PICK m \in Nat : DOMAIN listed = 1 .. m
  BY <1>4
<1>6. PICK R : Solves(refs, R)
  BY Solved
<1>7. Resolving(refs, R)
  BY <1>6 DEF Solves
<1>8. PICK params : params = c.params
  OBVIOUS
<1>9. Merged(refs, listed, params)
  BY <1>1, <1>3, <1>4, <1>5, <1>6, <1>8, MergedIs
<1>10. ASSUME NEW i \in Lasting(refs, listed) PROVE SaysOf(refs, listed[i], params)
  <2>1. PICK n \in DOMAIN params : params[n] = DeepResolve(refs, listed[i])
    BY <1>9 DEF Merged
  <2>2. i \in DOMAIN listed /\ listed[i] \in refs.values /\ DeepResolve(refs, listed[i]) # Raised
    BY <1>3, <1>4, <1>9 DEF Merged
  <2>3. PICK end, x : end = Chased(refs, listed[i]) /\ x = params[n]
    OBVIOUS
  <2>4. Paired(refs, R, x, end)
    BY <1>4, <1>6, <2>1, <2>2, <2>3, SolvedIs
  <2>5. IsMap(end)
    <3>. DEFINE ends == [j \in DOMAIN listed |-> Chased(refs, listed[j])]
    <3>1. Lasting(refs, listed) = {j \in DOMAIN ends : IsMap(ends[j]) /\ \A k \in DOMAIN ends :
                IsMap(ends[k]) /\ Key(refs, ends[k]) = Key(refs, ends[j]) => k <= j}
      BY Zenon DEF Lasting
    <3>2. IsMap(ends[i])
      <4>. HIDE DEF ends
      <4>. QED  BY <3>1
    <3>. QED  BY <2>2, <2>3, <3>2
  <2>6. DOMAIN x.map = DOMAIN end.map
    BY <2>4, <2>5, PairedSame
  <2>7. \A k : TextAt(refs, x, k) = TextAt(refs, end, k)
    BY <1>4, <1>7, <2>4, PairedTextAt
  <2>8. Resolved(refs, x)
    BY <1>4, <2>1, <2>2, <2>3, ResolvedLeadsBack DEF Resolved
  <2>. QED  BY <2>3, <2>6, <2>7, <2>8 DEF SaysOf
<1>. QED  BY <1>8, <1>9, <1>10 DEF Merged

-----------------------------------------------------------------------------
(* The documents, one after the other *)

\* The chunks of a markdown file are a sequence, however many there are.
LEMMA MarkdownCounts ==
    ASSUME OutlineInv
    PROVE  DOMAIN MarkdownChunks = 1 .. Len(MarkdownChunks) /\ Len(MarkdownChunks) \in Nat
<1>1. PICK all, r : all = Parsed /\ r = Len(all)
  OBVIOUS
<1>2. Sectioned(all)
  BY <1>1, ParsedIs
<1>3. r \in Nat /\ DOMAIN all = 1 .. r /\ \A j \in 1 .. r : all[j] \in Sections
  BY <1>1, <1>2 DEF Sectioned
<1>. DEFINE ss == [j \in DOMAIN all |-> Expanded(all[j])]
<1>4. Pieced \in Seq(Sections)
  <2>1. \A j \in 1 .. r : ss[j] \in Seq(Sections)
    BY <1>2, <1>3, PartsDivide DEF Sectioned, Divides
  <2>2. ss \in Seq(Seq(Sections)) /\ Len(ss) = r
    BY <1>3, <2>1
  <2>3. Pieced = FlattenSeq(ss)
    BY <1>1 DEF Pieced
  <2>. HIDE DEF ss
  <2>. QED  BY <1>3, <2>2, <2>3, FlattenIs
<1>5. PICK ps, m : ps = Pieced /\ m = Len(ps)
  OBVIOUS
<1>6. m \in Nat /\ DOMAIN ps = 1 .. m /\ \A n \in 1 .. m : ps[n] \in Sections
  BY <1>4, <1>5
<1>. DEFINE kept == [n \in DOMAIN ps |-> IF Skipped(ps[n]) THEN <<>> ELSE <<ps[n]>>]
<1>7. kept \in Seq(Seq(Sections)) /\ Len(kept) = m
  <2>1. \A n \in 1 .. m : kept[n] \in Seq(Sections)
    BY <1>6
  <2>2. DOMAIN kept = 1 .. m /\ kept = [n \in 1 .. m |-> kept[n]]
    BY <1>6
  <2>. HIDE DEF kept
  <2>. QED  BY <1>6, <2>1, <2>2
<1>8. MarkdownChunks = FlattenSeq(kept)
  BY <1>5 DEF MarkdownChunks
<1>. HIDE DEF kept
<1>9. MarkdownChunks \in Seq(Sections)
  BY <1>6, <1>7, <1>8, FlattenIs
<1>. QED  BY <1>9

\* What a YAML file holds is left out exactly if it is broken.
LEMMA ChunkedIs ==
    ASSUME NEW s, s = Raised \/ Readable(s)
    PROVE  /\ Raised \in AllChunks(s) <=> Broken(s)
           /\ Raised \notin AllChunks(s) => IsMap(s) /\ Readable(s) /\ AllChunks(s) # {}
<1>1. ~IsMap(s) => AllChunks(s) = {Raised} /\ Broken(s)
  BY Zenon DEF AllChunks, Broken
<1>2. IsMap(s) => Metadata(s) \in AllChunks(s)
  BY DEF AllChunks
<1>3. s = Raised => ~IsMap(s)
  BY KindsDiffer
<1>4. CASE s = Raised
  BY <1>1, <1>3, <1>4
<1>5. CASE s # Raised
  BY <1>1, <1>2, <1>5, BrokenIs
<1>. QED  BY <1>4, <1>5

YamlKinds == {"meta", "operation", "schema", "path"}

\* The ids of its chunks are of these kinds.
LEMMA YamlIds ==
    ASSUME NEW s, s = Raised \/ Readable(s), Raised \notin AllChunks(s), NEW c \in AllChunks(s)
    PROVE  c.id[1] \in YamlKinds
<1>1. IsMap(s)
  BY ChunkedIs
<1>2. PICK refs : refs = RefMap(s)
  OBVIOUS
<1>3. \/ c = Metadata(s) /\ c.id = <<"meta">> /\ c.operations = Cardinality(MethodKeys(s))
      \/ \E o \in OperationKeys(s) : /\ c = Operation(s, refs, o[1], o[2])
                                     /\ c.id = <<"operation", Methods[o[2]], o[1]>> /\ c.key = o[2]
                                     /\ c.params = Merge(refs, Listed(s, o[1], o[2]))
      \/ \E name \in DOMAIN ComponentSchemas(s) : c = Schema(refs, name, ComponentSchemas(s)[name]) /\ c.id = <<"schema", name>>
      \/ \E o \in MethodKeys(s) : c = [id |-> <<"path", o[1]>>] /\ c.id = <<"path", o[1]>>
  BY <1>1, <1>2, ChunkKinds
<1>. QED  BY <1>3 DEF YamlKinds

\* No document is given twice.
Once(s) == \A j, k \in DOMAIN s : s[j] = s[k] => j = k

\* What is kept of a document: its ids name it and their place if it is
\* markdown; those of a YAML file begin otherwise.
Indexed(r) ==
    IF r.name \in Markdown
    THEN r.count \in Nat /\ r.ids = {<<"markdown", r.name, n>> : n \in 1 .. r.count}
    ELSE \A id \in r.ids : id[1] \in YamlKinds

\* The chunks are those of the YAML file chunked last, and the last of the
\* results are theirs.
LastChunked ==
    \/ spec = Null /\ chunks = {}
    \/ /\ spec \in Specs /\ result # <<>> /\ reading = FALSE
       /\ chunks = IF Raised \in AllChunks(spec) THEN {} ELSE AllChunks(spec)
       /\ result[Len(result)].name \notin Markdown
       /\ result[Len(result)].ids = {c.id : c \in chunks}
       /\ result[Len(result)].count = Cardinality(chunks)

\* Documents are chunked in order and once each.
Progress ==
    /\ documents \in Seq(STRING) /\ Once(documents)
    /\ reading => documents # <<>> /\ file = Head(documents) /\ file \in Markdown
    /\ result \in Seq(Range(result))
    /\ \A m, n \in DOMAIN result : result[m].name = result[n].name => m = n
    /\ \A n \in DOMAIN result : \A k \in DOMAIN documents : result[n].name # documents[k]
    /\ \A n \in DOMAIN result : Indexed(result[n])

ChunkerInv == OutlineInv /\ Progress /\ LastChunked

\* No file is loaded twice.
LEMMA LoadedOnce ==
    ASSUME NEW S PROVE Loaded(S) \in Seq(STRING) /\ Once(Loaded(S))
<1>. DEFINE I == {i \in DOMAIN Names : Names[i] \in S}
            t == Loaded(S)
<1>1. PICK n : n = Len(Names)
  OBVIOUS
<1>2. n \in Nat /\ DOMAIN Names = 1 .. n /\ Names = [i \in 1 .. n |-> Names[i]] /\ Range(Names) \subseteq STRING
  <2>1. Names \in Seq(STRING)
    BY NamesAssumption
  <2>2. n \in Nat /\ DOMAIN Names = 1 .. n /\ \A i \in 1 .. n : Names[i] \in STRING
    BY <1>1, <2>1
  <2>3. Names = [i \in 1 .. n |-> Names[i]]
    BY <1>1, <2>1
  <2>. QED  BY <2>2, <2>3 DEF Range
<1>3. I \in SUBSET (1 .. n) /\ t = Picked(Names, I)
  BY <1>2 DEF Loaded
<1>. HIDE DEF I, t
<1>4. /\ t \in Seq(Range(Names))
      /\ \E b \in Bijection(1 .. Len(t), I) : \A p \in 1 .. Len(t) : t[p] = Names[b[p]]
  <2>1. PICK s : s = Names
    OBVIOUS
  <2>2. s = [i \in 1 .. n |-> s[i]] /\ I \in SUBSET (1 .. n) /\ n \in Nat
    BY <1>2, <1>3, <2>1
  <2>3. /\ Picked(s, I) \in Seq(Range(s))
        /\ \E b \in Bijection(1 .. Len(Picked(s, I)), I) : \A p \in 1 .. Len(Picked(s, I)) : Picked(s, I)[p] = s[b[p]]
    BY <2>2, PickedIs
  <2>. QED  BY <1>3, <2>1, <2>3
<1>5. PICK b \in Bijection(1 .. Len(t), I) : \A p \in 1 .. Len(t) : t[p] = Names[b[p]]
  BY <1>4
<1>6. /\ \A p \in 1 .. Len(t) : b[p] \in I
      /\ \A p, q \in 1 .. Len(t) : b[p] = b[q] => p = q
  BY <1>5 DEF Bijection, Injection, IsInjective
<1>7. DOMAIN t = 1 .. Len(t)
  BY <1>4
<1>8. Once(t)
  BY <1>2, <1>3, <1>5, <1>6, <1>7, NamesAssumption DEF Once
<1>9. t \in Seq(STRING)
  BY <1>2, <1>4
<1>. QED  BY <1>8, <1>9 DEF t

\* What is appended to a sequence of anything
LEMMA Appended ==
    ASSUME NEW s, s \in Seq(Range(s)), NEW e
    PROVE  /\ Append(s, e) \in Seq(Range(Append(s, e)))
           /\ DOMAIN s = 1 .. Len(s) /\ Len(s) \in Nat
           /\ DOMAIN Append(s, e) = 1 .. (Len(s) + 1) /\ Len(Append(s, e)) = Len(s) + 1
           /\ \A n \in DOMAIN s : Append(s, e)[n] = s[n]
           /\ Append(s, e)[Len(s) + 1] = e /\ Append(s, e) # <<>>
<1>. DEFINE S == Range(s) \cup {e}
<1>1. s \in Seq(S) /\ e \in S
  OBVIOUS
<1>. HIDE DEF S
<1>2. PICK t : t = Append(s, e)
  OBVIOUS
<1>3. /\ t \in Seq(S) /\ Len(t) = Len(s) + 1 /\ Len(s) \in Nat /\ DOMAIN s = 1 .. Len(s)
      /\ (\A n \in 1 .. Len(s) : t[n] = s[n]) /\ t[Len(s) + 1] = e
  BY <1>1, <1>2
<1>4. DOMAIN t = 1 .. Len(t) /\ \A n \in 1 .. Len(t) : t[n] \in Range(t)
  BY <1>3 DEF Range
<1>5. t \in Seq(Range(t))
  BY <1>3, <1>4
<1>. QED  BY <1>2, <1>3, <1>4, <1>5

\* What Extend does to the invariant
LEMMA ExtendKeeps ==
    ASSUME Progress, documents # <<>>, NEW ids, NEW count, Extend(ids, count), reading' = FALSE,
           Indexed([name |-> Head(documents), count |-> count, ids |-> ids])
    PROVE  /\ Progress' /\ result' # <<>>
           /\ result'[Len(result')] = [name |-> Head(documents), count |-> count, ids |-> ids]
<1>. DEFINE e == [name |-> Head(documents), count |-> count, ids |-> ids]
<1>1. /\ result' = Append(result, e) /\ documents' = Tail(documents)
      /\ e.name = Head(documents) /\ Indexed(e)
  BY DEF Extend
<1>. HIDE DEF e
<1>2. result \in Seq(Range(result)) /\ documents \in Seq(STRING)
  BY DEF Progress
<1>3. /\ result' \in Seq(Range(result')) /\ Len(result) \in Nat
      /\ DOMAIN result = 1 .. Len(result)
      /\ DOMAIN result' = 1 .. (Len(result) + 1) /\ Len(result') = Len(result) + 1
      /\ (\A n \in DOMAIN result : result'[n] = result[n]) /\ result'[Len(result) + 1] = e /\ result' # <<>>
  BY <1>1, <1>2, Appended
<1>4. PICK d : d = documents
  OBVIOUS
<1>5. /\ Tail(d) \in Seq(STRING) /\ DOMAIN d = 1 .. Len(d) /\ Len(d) \in Nat \ {0} /\ Head(d) = d[1]
      /\ DOMAIN Tail(d) = 1 .. (Len(d) - 1) /\ \A k \in DOMAIN Tail(d) : Tail(d)[k] = d[k + 1]
  BY <1>2, <1>4
<1>6. Once(d) /\ \A n \in DOMAIN result : \A k \in DOMAIN d : result[n].name # d[k]
  BY <1>4 DEF Progress
<1>7. Once(Tail(d)) /\ \A k \in DOMAIN Tail(d) : Tail(d)[k] # Head(d) /\ k + 1 \in DOMAIN d
  BY <1>5, <1>6 DEF Once
<1>8. \A n \in DOMAIN result' : n \in DOMAIN result \/ n = Len(result) + 1
  BY <1>3
<1>9. \A m, n \in DOMAIN result' : result'[m].name = result'[n].name => m = n
  <2>1. \A m, n \in DOMAIN result : result[m].name = result[n].name => m = n
    BY DEF Progress
  <2>2. \A m, n \in DOMAIN result : result'[m].name = result'[n].name => m = n
    BY <1>3, <2>1
  <2>3. \A n \in DOMAIN result : result'[n].name # e.name
    BY <1>1, <1>3, <1>4, <1>5, <1>6
  <2>. QED  BY <1>3, <1>8, <2>2, <2>3
<1>10. \A n \in DOMAIN result' : \A k \in DOMAIN Tail(d) : result'[n].name # Tail(d)[k]
  BY <1>1, <1>3, <1>4, <1>5, <1>6, <1>7, <1>8
<1>11. \A n \in DOMAIN result' : Indexed(result'[n])
  BY <1>1, <1>3, <1>8 DEF Progress
<1>13. Progress'
  <2>1. documents' \in Seq(STRING) /\ Once(documents')
    BY <1>1, <1>4, <1>5, <1>7
  <2>2. \A n \in DOMAIN result' : \A k \in DOMAIN documents' : result'[n].name # documents'[k]
    BY <1>1, <1>4, <1>10
  <2>3. result' \in Seq(Range(result)')
    BY <1>3
  <2>4. \A n \in DOMAIN result' : Indexed(result[n])'
    BY <1>11
  <2>. QED  BY <1>9, <2>1, <2>2, <2>3, <2>4, Zenon DEF Progress
<1>14. result'[Len(result')] = e
  BY <1>3
<1>. QED  BY <1>3, <1>13, <1>14 DEF e

\* Whatever is chunked, the reader of markdown does nothing but what it does
\* with one file after the other.
LEMMA ReaderSteps == ASSUME Progress, [Next]_vars PROVE [MarkdownNext]_mdVars
<1>1. CASE OpenMarkdown
  BY <1>1 DEF OpenMarkdown, MarkdownNext, Markdown
<1>2. CASE MarkdownLine
  BY <1>2 DEF MarkdownLine, MarkdownNext, Markdown, Progress
<1>3. CASE EndMarkdown
  BY <1>3 DEF EndMarkdown, MarkdownNext
<1>4. CASE \E s \in Specs : ChunkYaml(s)
  BY <1>4 DEF ChunkYaml
<1>5. CASE UNCHANGED vars
  BY <1>5 DEF vars
<1>. QED  BY <1>1, <1>2, <1>3, <1>4, <1>5 DEF Next

\* At first nothing is chunked.
LEMMA ChunkerInit == ASSUME Init PROVE ChunkerInv
<1>1. OutlineInv
  BY OutlineInit DEF Init
<1>2. documents \in Seq(STRING) /\ Once(documents)
  BY LoadedOnce DEF Init
<1>3. result = <<>> /\ reading = FALSE /\ spec = Null /\ chunks = {}
  BY DEF Init
<1>4. result \in Seq(Range(result)) /\ DOMAIN result = {}
  BY <1>3
<1>. QED  BY <1>1, <1>2, <1>3, <1>4 DEF ChunkerInv, Progress, LastChunked

\* Progress is kept as long as nothing is added to the results.
LEMMA ProgressStays ==
    ASSUME Progress, UNCHANGED <<documents, result>>,
           reading' => documents # <<>> /\ file' = Head(documents) /\ file' \in Markdown
    PROVE  Progress'
<1>1. documents \in Seq(STRING) /\ Once(documents) /\ documents' = documents /\ result' = result
  BY DEF Progress
<1>2. /\ result \in Seq(Range(result))
      /\ \A m, n \in DOMAIN result : result[m].name = result[n].name => m = n
      /\ \A n \in DOMAIN result : \A k \in DOMAIN documents : result[n].name # documents[k]
      /\ \A n \in DOMAIN result : Indexed(result[n])
  BY DEF Progress
<1>3. /\ result' \in Seq(Range(result)')
      /\ \A m, n \in DOMAIN result' : result'[m].name = result'[n].name => m = n
      /\ \A n \in DOMAIN result' : \A k \in DOMAIN documents' : result'[n].name # documents'[k]
  BY <1>1, <1>2
<1>4. \A n \in DOMAIN result' : Indexed(result[n])'
  BY <1>1, <1>2
<1>5. documents' \in Seq(STRING) /\ Once(documents') /\
      (reading' => documents' # <<>> /\ file' = Head(documents') /\ file' \in Markdown)
  BY <1>1
<1>. QED  BY <1>3, <1>4, <1>5, Zenon DEF Progress

\* Every step keeps the results in order.
LEMMA ChunkerInductive == ASSUME ChunkerInv, [Next]_vars PROVE ChunkerInv'
<1>1. OutlineInv'
  BY ReaderSteps, OutlineInductive DEF ChunkerInv
<1>2. OutlineInv /\ Progress /\ LastChunked
  BY DEF ChunkerInv
<1>3. CASE OpenMarkdown
  <2>1. Progress'
    <3>1. /\ UNCHANGED <<documents, result>>
          /\ reading' => documents # <<>> /\ file' = Head(documents) /\ file' \in Markdown
      BY <1>3 DEF OpenMarkdown, MarkdownReset, Markdown
    <3>. QED  BY <1>2, <3>1, ProgressStays
  <2>2. LastChunked'
    BY <1>3 DEF OpenMarkdown, LastChunked
  <2>. QED  BY <1>1, <2>1, <2>2 DEF ChunkerInv
<1>4. CASE MarkdownLine
  <2>1. UNCHANGED <<documents, reading, spec, chunks, result>> /\ reading
    BY <1>4 DEF MarkdownLine
  <2>2. file' = file
    BY <1>4 DEF MarkdownLine, ReadLine, ReadHeading, ReadText
  <2>3. Progress'
    <3>1. reading' => documents # <<>> /\ file' = Head(documents) /\ file' \in Markdown
      BY <1>2, <2>1, <2>2 DEF Progress, Markdown
    <3>. QED  BY <1>2, <2>1, <3>1, ProgressStays
  <2>4. LastChunked'
    BY <1>2, <2>1 DEF LastChunked
  <2>. QED  BY <1>1, <2>3, <2>4 DEF ChunkerInv
<1>5. CASE EndMarkdown
  <2>. DEFINE ids == {<<"markdown", file, n>> : n \in DOMAIN MarkdownChunks}
              count == Len(MarkdownChunks)
              e == [name |-> Head(documents), count |-> count, ids |-> ids]
  <2>1. reading /\ Extend(ids, count) /\ reading' = FALSE /\ spec' = spec /\ chunks' = chunks
    BY <1>5 DEF EndMarkdown
  <2>2. documents # <<>> /\ file = Head(documents) /\ file \in Markdown
    BY <1>2, <2>1 DEF Progress
  <2>3. DOMAIN MarkdownChunks = 1 .. count /\ count \in Nat
    BY <1>2, MarkdownCounts
  <2>4. ids = {<<"markdown", file, n>> : n \in 1 .. count}
    BY <2>3
  <2>. HIDE DEF ids, count
  <2>5. Indexed(e)
    BY <2>2, <2>3, <2>4 DEF Indexed
  <2>6. Progress'
    BY <1>2, <2>1, <2>2, <2>5, ExtendKeeps
  <2>7. spec = Null /\ chunks = {}
    BY <1>2, <2>1 DEF LastChunked
  <2>8. LastChunked'
    BY <2>1, <2>7 DEF LastChunked
  <2>. QED  BY <1>1, <2>6, <2>8 DEF ChunkerInv
<1>6. CASE \E s \in Specs : ChunkYaml(s)
  <2>1. PICK s \in Specs : ChunkYaml(s)
    BY <1>6
  <2>. DEFINE all == AllChunks(s)
  <2>2. PICK cs : cs = chunks'
    OBVIOUS
  <2>. DEFINE ids == {c.id : c \in cs}
              e == [name |-> Head(documents), count |-> Cardinality(cs), ids |-> ids]
  <2>3. /\ documents # <<>> /\ Head(documents) \notin Markdown /\ spec' = s /\ reading' = reading
        /\ cs = IF Raised \in all THEN {} ELSE all
        /\ Extend(ids, Cardinality(cs))
    BY <2>1, <2>2 DEF ChunkYaml
  <2>4. reading' = FALSE
    BY <1>2, <2>3 DEF Progress
  <2>5. s = Raised \/ Readable(s)
    BY SpecsAssumption
  <2>6. \A c \in cs : c.id[1] \in YamlKinds
    BY <2>3, <2>5, YamlIds
  <2>7. Indexed(e)
    BY <2>3, <2>6 DEF Indexed
  <2>8. Progress' /\ result' # <<>> /\ result'[Len(result')] = e
    <3>. HIDE DEF ids
    <3>. QED  BY <1>2, <2>3, <2>4, <2>7, ExtendKeeps
  <2>9. LastChunked'
    BY <2>2, <2>3, <2>4, <2>8 DEF LastChunked
  <2>. QED  BY <1>1, <2>8, <2>9 DEF ChunkerInv
<1>7. CASE UNCHANGED vars
  <2>1. UNCHANGED <<documents, reading, spec, chunks, result, file>>
    BY <1>7 DEF vars, mdVars
  <2>2. Progress'
    <3>1. reading' => documents # <<>> /\ file' = Head(documents) /\ file' \in Markdown
      BY <1>2, <2>1 DEF Progress, Markdown
    <3>. QED  BY <1>2, <2>1, <3>1, ProgressStays
  <2>3. LastChunked'
    BY <1>2, <2>1 DEF LastChunked
  <2>. QED  BY <1>1, <2>2, <2>3 DEF ChunkerInv
<1>. QED  BY <1>3, <1>4, <1>5, <1>6, <1>7 DEF Next

\* The markdown ids of a file are as many as its chunks.
LEMMA PlacesDiffer ==
    ASSUME NEW name, NEW n \in Nat
    PROVE  Cardinality({<<"markdown", name, k>> : k \in 1 .. n}) = n
<1>. DEFINE f == [k \in 1 .. n |-> <<"markdown", name, k>>]
<1>1. IsFiniteSet(1 .. n) /\ Cardinality(1 .. n) = n
  BY FS_Interval
<1>2. DOMAIN f = 1 .. n /\ Range(f) = {<<"markdown", name, k>> : k \in 1 .. n} /\ \A x, y \in 1 .. n : f[x] = f[y] => x = y
  BY DEF Range
<1>. HIDE DEF f
<1>3. Cardinality(Range(f)) = Cardinality(1 .. n)
  BY <1>1, <1>2, RangeCounts
<1>. QED  BY <1>1, <1>2, <1>3

\* The file that was chunked last, unless it was left out
LEMMA LastIs ==
    ASSUME LastChunked, spec # Null
    PROVE  /\ Raised \in AllChunks(spec) <=> Broken(spec)
           /\ Raised \in AllChunks(spec) => chunks = {}
           /\ Raised \notin AllChunks(spec) =>
                 IsMap(spec) /\ Readable(spec) /\ chunks # {} /\ chunks = AllChunks(spec)
<1>1. PICK s : s = spec
  OBVIOUS
<1>2. s = Raised \/ Readable(s)
  BY <1>1, SpecsAssumption DEF LastChunked
<1>3. /\ Raised \in AllChunks(s) <=> Broken(s)
      /\ Raised \notin AllChunks(s) => IsMap(s) /\ Readable(s) /\ AllChunks(s) # {}
  BY <1>2, ChunkedIs
<1>4. chunks = IF Raised \in AllChunks(s) THEN {} ELSE AllChunks(s)
  BY <1>1 DEF LastChunked
<1>. QED  BY <1>1, <1>3, <1>4

\* The ids of chunks tell them apart.
LEMMA DistinctSuffices == ASSUME ChunkerInv PROVE ChunkIdsDistinct
<1>1. OutlineInv /\ Progress /\ LastChunked
  BY DEF ChunkerInv
<1>2. \A n \in DOMAIN result : Indexed(result[n])
  BY <1>1 DEF Progress
<1>3. ASSUME NEW n \in DOMAIN result, result[n].name \in Markdown
      PROVE  Cardinality(result[n].ids) = result[n].count
  <2>1. PICK r : r = result[n]
    OBVIOUS
  <2>2. r.count \in Nat /\ r.ids = {<<"markdown", r.name, k>> : k \in 1 .. r.count}
    BY <1>2, <1>3, <2>1 DEF Indexed
  <2>3. Cardinality({<<"markdown", r.name, k>> : k \in 1 .. r.count}) = r.count
    BY <2>2, PlacesDiffer, ZenonT(60)
  <2>. QED  BY <2>1, <2>2, <2>3
<1>4. ASSUME spec # Null, Regular(spec)
      PROVE  /\ result[Len(result)].name \notin Markdown
             /\ Cardinality(result[Len(result)].ids) = result[Len(result)].count
             /\ \A c \in chunks : c.id[1] = "meta" =>
                   c.operations = Cardinality({d \in chunks : d.id[1] = "operation"})
  <2>1. PICK api, all, last : api = spec /\ all = chunks /\ last = result[Len(result)]
    OBVIOUS
  <2>2. /\ last.name \notin Markdown /\ last.ids = {c.id : c \in all} /\ last.count = Cardinality(all)
    BY <1>1, <1>4, <2>1 DEF LastChunked
  <2>3. CASE all = {}
    <3>1. {c.id : c \in all} = {}
      BY <2>3
    <3>. QED  BY <2>1, <2>2, <2>3, <3>1
  <2>4. CASE all # {}
    <3>1. Readable(api) /\ IsMap(api) /\ Raised \notin AllChunks(api) /\ all = AllChunks(api) /\ Regular(api)
      BY <1>1, <1>4, <2>1, <2>4, LastIs
    <3>2. /\ Cardinality({c.id : c \in all}) = Cardinality(all)
          /\ \A c \in all : c.id[1] = "meta" => c.operations = Cardinality({d \in all : d.id[1] = "operation"})
      BY <3>1, IdsDistinct
    <3>. QED  BY <2>1, <2>2, <3>2
  <2>. QED  BY <2>3, <2>4
<1>5. ASSUME NEW m \in DOMAIN result, NEW n \in DOMAIN result, m # n, result[m].name \in Markdown
      PROVE  result[m].ids \cap result[n].ids = {}
  <2>1. PICK q, r : q = result[m] /\ r = result[n]
    OBVIOUS
  <2>2. q.name # r.name
    BY <1>1, <1>5, <2>1 DEF Progress
  <2>3. q.ids = {<<"markdown", q.name, k>> : k \in 1 .. q.count}
    BY <1>2, <1>5, <2>1 DEF Indexed
  <2>4. CASE r.name \in Markdown
    <3>1. r.ids = {<<"markdown", r.name, k>> : k \in 1 .. r.count}
      BY <1>2, <2>1, <2>4 DEF Indexed
    <3>. QED  BY <2>1, <2>2, <2>3, <3>1
  <2>5. CASE r.name \notin Markdown
    <3>1. \A id \in r.ids : id[1] \in YamlKinds
      BY <1>2, <2>1, <2>5 DEF Indexed
    <3>2. \A id \in q.ids : id[1] = "markdown"
      BY <2>3
    <3>3. "markdown" \notin YamlKinds
      BY DEF YamlKinds
    <3>. QED  BY <2>1, <3>1, <3>2, <3>3
  <2>. QED  BY <2>4, <2>5
<1>6. \A m, n \in DOMAIN result :
          m # n /\ {result[m].name, result[n].name} \cap Markdown # {} => result[m].ids \cap result[n].ids = {}
  BY <1>5
<1>. QED  BY <1>3, <1>4, <1>6 DEF ChunkIdsDistinct

\* What operations say is what the description says of their parameters.
LEMMA SayingSuffices == ASSUME ChunkerInv PROVE OperationsSayTheirParameters
<1>1. LastChunked
  BY DEF ChunkerInv
<1>2. ASSUME NEW o \in OperationKeys(spec), NEW c \in chunks,
             c.id = IdOf("operation", Methods[o[2]], o[1]), c.key = o[2],
             NEW refs, refs = RefMap(spec), NEW listed, listed = Listed(spec, o[1], o[2])
      PROVE  /\ Len(c.params) = Cardinality(Lasting(refs, listed))
             /\ \A i \in Lasting(refs, listed) : SaysOf(refs, listed[i], c.params)
  <2>1. spec # Null
    <3>1. ~IsMap(Null)
      BY KindsDiffer
    <3>2. AllChunks(Null) = {Raised}
      BY <3>1, Zenon DEF AllChunks
    <3>. QED  BY <1>1, <1>2, <3>2 DEF LastChunked
  <2>2. PICK api : api = spec
    OBVIOUS
  <2>3. Readable(api) /\ IsMap(api) /\ Raised \notin AllChunks(api) /\ c \in AllChunks(api)
    BY <1>1, <1>2, <2>1, <2>2, LastIs
  <2>4. o \in OperationKeys(api) /\ refs = RefMap(api) /\ listed = Listed(api, o[1], o[2])
    BY <1>2, <2>2
  <2>. QED  BY <1>2, <2>3, <2>4, OperationSays
<1>3. ASSUME NEW o \in OperationKeys(spec), NEW c \in chunks,
             c.id = IdOf("operation", Methods[o[2]], o[1]), c.key = o[2]
      PROVE  LET refs == RefMap(spec)
                 listed == Listed(spec, o[1], o[2])
                 lasts == Lasting(refs, listed)
             IN  /\ Len(c.params) = Cardinality(lasts)
                 /\ \A i \in lasts : \E n \in DOMAIN c.params :
                       LET end == Chased(refs, listed[i])
                       IN  /\ DOMAIN c.params[n].map = DOMAIN end.map
                           /\ \A k \in DOMAIN end.map : TextAt(refs, c.params[n], k) = TextAt(refs, end, k)
                           /\ Resolved(refs, c.params[n])
  <2>1. PICK refs, listed : refs = RefMap(spec) /\ listed = Listed(spec, o[1], o[2])
    OBVIOUS
  <2>2. /\ Len(c.params) = Cardinality(Lasting(refs, listed))
        /\ \A i \in Lasting(refs, listed) : SaysOf(refs, listed[i], c.params)
    BY <1>2, <1>3, <2>1
  <2>. QED  BY <2>1, <2>2, Zenon DEF SaysOf
<1>. QED  BY <1>3, Zenon DEF OperationsSayTheirParameters

\* The invariant of every behaviour
LEMMA ChunkerSafe == Spec => []ChunkerInv
<1>1. Init => ChunkerInv
  BY ChunkerInit
<1>2. ChunkerInv /\ [Next]_vars => ChunkerInv'
  BY ChunkerInductive
<1>. QED  BY <1>1, <1>2, PTL DEF Spec

\* Chunking documents reads markdown files one after the other, whatever stands
\* between them, so that the two theorems above hold of it, too (chunk_documents).
THEOREM ReadsMarkdown == Spec => MarkdownSpec
<1>1. Init => MarkdownInit(None)
  BY DEF Init
<1>2. ChunkerInv /\ [Next]_vars => [MarkdownNext]_mdVars
  BY ReaderSteps DEF ChunkerInv
<1>. QED  BY <1>1, <1>2, ChunkerSafe, PTL DEF Spec, MarkdownSpec

\* Whatever the documents are, the chunks of each have ids of their own, unless
\* a YAML file spells a method twice, and markdown chunks share none with other
\* documents; each operation that is counted has a chunk (chunk_documents).
THEOREM IdsAreDistinct == Spec => []ChunkIdsDistinct
<1>1. ChunkerInv => ChunkIdsDistinct
  BY DistinctSuffices
<1>. QED  BY <1>1, ChunkerSafe, PTL

\* Whatever a YAML file holds, it is left out if and only if it is broken in one
\* of the ways Broken lists (_chunk_openapi_yaml_document, extract_all_chunks).
THEOREM OnlyTheBrokenAreDropped == Spec => []DroppedExactlyIfBroken
<1>1. ChunkerInv => DroppedExactlyIfBroken
  BY LastIs DEF ChunkerInv, DroppedExactlyIfBroken
<1>. QED  BY <1>1, ChunkerSafe, PTL

\* Whatever references there are, in circles or not, the text of an operation
\* has each of its parameters once, says of it what the references lead to, and
\* leaves only references that lead back to themselves (build_operation_text).
THEOREM ParametersAreSaid == Spec => []OperationsSayTheirParameters
<1>1. ChunkerInv => OperationsSayTheirParameters
  BY SayingSuffices
<1>. QED  BY <1>1, ChunkerSafe, PTL
=============================================================================
