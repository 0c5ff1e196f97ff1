----------------------------- MODULE LoopProofs -----------------------------
(***************************************************************************)
(* What loops compute, for any number of rounds: buffers that are doubled  *)
(* until they are large enough, values handed on from round to round, and  *)
(* sequences that are joined.  The recursive functions that stand for the  *)
(* loops are reasoned about with least counterexamples, since the          *)
(* induction rules of the library take an operator as a parameter.         *)
(***************************************************************************)
EXTENDS Doubling, SequencesExt, WellFoundedInduction, TLAPS

LessThan == {pair \in Nat \X Nat : pair[1] < pair[2]}

\* Every set of natural numbers that is not empty has a least member.
LEMMA LeastMember ==
    ASSUME NEW S \in SUBSET Nat, S # {}
    PROVE  \E x \in S : \A y \in S : x <= y
<1>1. IsWellFoundedOn(LessThan, Nat)
  BY NatLessThanWellFounded DEF OpToRel, LessThan
<1>2. PICK x \in S : \A y \in S : <<y, x>> \notin LessThan
  BY <1>1, WFMin
<1>3. \A m, n \in Nat : <<n, m>> \notin LessThan => m <= n
  BY DEF LessThan
<1>4. QED
  BY <1>2, <1>3

\* A bounded one has a greatest member.
LEMMA GreatestMember ==
    ASSUME NEW n \in Nat, NEW S \in SUBSET (0 .. n), S # {}
    PROVE  \E x \in S : \A y \in S : y <= x
<1> DEFINE Mirror == {m \in 0 .. n : n - m \in S}
<1>1. PICK m \in Mirror : \A k \in Mirror : m <= k
  <2>1. Mirror \in SUBSET Nat
    OBVIOUS
  <2>2. Mirror # {}
    <3>1. PICK x \in S : TRUE
      OBVIOUS
    <3>2. n - x \in 0 .. n /\ n - (n - x) = x
      OBVIOUS
    <3>3. QED
      BY <3>2
  <2> HIDE DEF Mirror
  <2>3. QED
    BY <2>1, <2>2, LeastMember
<1>2. ASSUME NEW y \in S PROVE y <= n - m
  <2>1. n - y \in 0 .. n /\ n - (n - y) = y
    OBVIOUS
  <2>2. m <= n - y
    BY <1>1, <2>1
  <2>3. QED
    BY <2>2
<1>3. QED
  BY <1>1, <1>2

-----------------------------------------------------------------------------
(* Doubled exists *)

\* f doubles from 1 on, n times.
Doubles(f, n) ==
    f \in [0 .. n -> Nat] /\ f[0] = 1 /\ \A i \in 1 .. n : f[i] = 2 * f[i - 1]

\* The loop can be unrolled any number of times.
LEMMA DoublesExists == \A n \in Nat : \E f : Doubles(f, n)
<1> DEFINE Missing == {n \in Nat : ~ \E f : Doubles(f, n)}
<1> SUFFICES ASSUME Missing # {} PROVE FALSE
  OBVIOUS
<1>1. PICK n \in Missing : \A m \in Missing : n <= m
  <2>1. Missing \in SUBSET Nat
    OBVIOUS
  <2> HIDE DEF Missing
  <2>2. QED
    BY <2>1, LeastMember
<1>2. CASE n = 0
  <2>1. Doubles([i \in 0 .. 0 |-> 1], 0)
    BY DEF Doubles
  <2>2. QED
    BY <2>1, <1>1, <1>2
<1>3. CASE n # 0
  <2>1. n - 1 \in Nat /\ n - 1 \notin Missing
    BY <1>1, <1>3
  <2>2. PICK f : Doubles(f, n - 1)
    BY <2>1
  <2> DEFINE g == [i \in 0 .. n |-> IF i = n THEN 2 * f[n - 1] ELSE f[i]]
  <2>3. Doubles(g, n)
    <3>1. n \in Nat \ {0}
      BY <1>1, <1>3
    <3>2. \A i \in 0 .. n : i # n => i \in 0 .. n - 1
      BY <3>1
    <3>3. /\ f \in [0 .. n - 1 -> Nat] /\ f[0] = 1
          /\ \A i \in 1 .. n - 1 : f[i] = 2 * f[i - 1]
      BY <2>2 DEF Doubles
    <3>4. f[n - 1] \in Nat
      BY <3>1, <3>3
    <3>5. g \in [0 .. n -> Nat] /\ g[0] = 1
      BY <3>1, <3>2, <3>3, <3>4
    <3>6. ASSUME NEW i \in 1 .. n PROVE g[i] = 2 * g[i - 1]
      <4>1. CASE i = n
        BY <3>1, <4>1
      <4>2. CASE i # n
        <5>1. i \in 1 .. n - 1 /\ i - 1 \in 0 .. n /\ i - 1 # n /\ i \in 0 .. n
          BY <3>1, <4>2
        <5>2. QED
          BY <3>3, <4>2, <5>1
      <4>3. QED
        BY <4>1, <4>2
    <3>7. QED
      BY <3>5, <3>6 DEF Doubles
  <2>4. QED
    BY <1>1, <2>3
<1>4. QED
  BY <1>2, <1>3

\* Two unrollings agree as far as both go.
LEMMA DoublesUnique ==
    ASSUME NEW m \in Nat, NEW n \in Nat, NEW f, NEW g, Doubles(f, m), Doubles(g, n)
    PROVE  \A i \in Nat : i <= m /\ i <= n => f[i] = g[i]
<1> DEFINE Differ == {i \in Nat : i <= m /\ i <= n /\ f[i] # g[i]}
<1> SUFFICES ASSUME Differ # {} PROVE FALSE
  OBVIOUS
<1>1. PICK i \in Differ : \A j \in Differ : i <= j
  <2>1. Differ \in SUBSET Nat
    OBVIOUS
  <2> HIDE DEF Differ
  <2>2. QED
    BY <2>1, LeastMember
<1>2. i # 0
  BY <1>1 DEF Doubles
<1>3. i - 1 \in Nat /\ i - 1 \notin Differ
  BY <1>1, <1>2
<1>4. QED
  BY <1>1, <1>2, <1>3 DEF Doubles

\* The definition of Doubled, read as what it says of its values.
LEMMA DoubledValues ==
    /\ Doubled \in [Nat -> Nat]
    /\ Doubled[0] = 1
    /\ \A n \in Nat \ {0} : Doubled[n] = 2 * Doubled[n - 1]
<1> DEFINE UpTo(n) == CHOOSE f : Doubles(f, n)
           All     == [n \in Nat |-> UpTo(n)[n]]
           Body(f) == [n \in Nat |-> IF n = 0 THEN 1 ELSE 2 * f[n - 1]]
<1>1. \A n \in Nat : Doubles(UpTo(n), n)
  BY DoublesExists
<1> HIDE DEF UpTo
<1>2. \A n \in Nat : UpTo(n)[n] \in Nat
  BY <1>1 DEF Doubles
<1>3. UpTo(0)[0] = 1
  BY <1>1 DEF Doubles
<1>4. ASSUME NEW n \in Nat \ {0} PROVE UpTo(n)[n] = 2 * UpTo(n - 1)[n - 1]
  <2>1. n - 1 \in Nat
    OBVIOUS
  <2>2. UpTo(n)[n] = 2 * UpTo(n)[n - 1]
    BY <1>1 DEF Doubles
  <2>3. UpTo(n)[n - 1] = UpTo(n - 1)[n - 1]
    BY <1>1, <2>1, DoublesUnique
  <2>4. QED
    BY <2>2, <2>3
<1>5. All = Body(All)
  BY <1>3, <1>4
<1>6. Doubled = Body(Doubled)
  <2>1. \E f : f = Body(f)
    BY <1>5
  <2>2. Doubled = CHOOSE f : f = Body(f)
    BY DEF Doubled
  <2> HIDE DEF Body
  <2>3. QED
    BY <2>1, <2>2, Zenon
<1>7. Doubled[0] = 1 /\ \A n \in Nat \ {0} : Doubled[n] = 2 * Doubled[n - 1]
  BY <1>6
<1>8. \A n \in Nat : Doubled[n] \in Nat
  <2> DEFINE Wrong == {n \in Nat : Doubled[n] \notin Nat}
  <2> SUFFICES ASSUME Wrong # {} PROVE FALSE
    OBVIOUS
  <2>1. PICK n \in Wrong : \A m \in Wrong : n <= m
    <3>1. Wrong \in SUBSET Nat
      OBVIOUS
    <3> HIDE DEF Wrong
    <3>2. QED
      BY <3>1, LeastMember
  <2>2. n # 0
    BY <1>7, <2>1
  <2>3. n - 1 \in Nat /\ n - 1 \notin Wrong
    BY <2>1, <2>2
  <2>4. QED
    BY <1>7, <2>1, <2>2, <2>3
<1>9. DOMAIN Doubled = Nat /\ Doubled = [n \in Nat |-> Doubled[n]]
  BY <1>6
<1>10. QED
  BY <1>7, <1>8, <1>9

-----------------------------------------------------------------------------
(* Doubling gets anywhere *)

\* A capacity that is doubled n times exceeds n, so that doubling ends.
LEMMA DoubledGrows == \A n \in Nat : Doubled[n] \in Nat /\ Doubled[n] > n
<1> DEFINE Small == {n \in Nat : ~(Doubled[n] \in Nat /\ Doubled[n] > n)}
<1> SUFFICES ASSUME Small # {} PROVE FALSE
  OBVIOUS
<1>1. PICK n \in Small : \A m \in Small : n <= m
  <2>1. Small \in SUBSET Nat
    OBVIOUS
  <2> HIDE DEF Small
  <2>2. QED
    BY <2>1, LeastMember
<1>2. n # 0
  BY <1>1, DoubledValues
<1>3. n - 1 \in Nat /\ n - 1 \notin Small
  BY <1>1, <1>2
<1>4. Doubled[n] = 2 * Doubled[n - 1]
  BY <1>2, <1>3, DoubledValues
<1>5. QED
  BY <1>1, <1>3, <1>4

\* However large the need, a buffer that has a size at all is doubled until it
\* is large enough, and it never shrinks.
LEMMA EnoughIsEnough ==
    ASSUME NEW size \in Nat \ {0}, NEW need \in Nat
    PROVE  /\ Enough(size, need) \in Nat
           /\ Enough(size, need) >= need
           /\ Enough(size, need) >= size
<1> DEFINE Large == {n \in 0 .. need : size * Doubled[n] >= need}
           First(n) == /\ size * Doubled[n] >= need
                       /\ \A m \in 0 .. n - 1 : size * Doubled[m] < need
           k == CHOOSE n \in 0 .. need : First(n)
<1>1. \A n \in Nat : Doubled[n] \in Nat /\ Doubled[n] > n
  BY DoubledGrows
<1>2. \A n \in Nat : size * Doubled[n] \in Nat /\ size * Doubled[n] >= Doubled[n]
                     /\ size * Doubled[n] >= size
  <2> SUFFICES ASSUME NEW d \in Nat \ {0}
               PROVE  size * d \in Nat /\ size * d >= d /\ size * d >= size
    BY <1>1
  <2>1. QED
    OBVIOUS
<1>3. size * Doubled[need] >= need
  BY <1>1, <1>2
<1>4. PICK n \in Large : \A m \in Large : n <= m
  <2>1. Large \in SUBSET Nat /\ need \in Large
    BY <1>3
  <2> HIDE DEF Large
  <2>2. QED
    BY <2>1, LeastMember
<1>5. First(n)
  <2>1. ASSUME NEW m \in 0 .. n - 1 PROVE size * Doubled[m] < need
    <3>1. m \in 0 .. need /\ m \notin Large
      BY <1>4
    <3>2. QED
      BY <1>2, <3>1
  <2>2. QED
    BY <1>4, <2>1
<1>6. k \in 0 .. need /\ First(k)
  <2> HIDE DEF First
  <2>1. n \in 0 .. need
    BY <1>4
  <2>2. QED
    BY <1>5, <2>1
<1>7. Enough(size, need) = size * Doubled[k]
  BY DEF Enough
<1> HIDE DEF k
<1>8. k \in Nat
  BY <1>6
<1>9. QED
  BY <1>2, <1>6, <1>7, <1>8

-----------------------------------------------------------------------------
(* Loops *)

\* A loop of n rounds exists.
LEMMA LoopExists ==
    ASSUME NEW S, NEW a \in S, NEW n \in Nat, NEW step \in [1 .. n -> [S -> S]]
    PROVE  \E f \in [0 .. n -> S] : f[0] = a /\ \A i \in 1 .. n : f[i] = step[i][f[i - 1]]
<1>. DEFINE Loop(f, m) == /\ f \in [0 .. m -> S] /\ f[0] = a
                          /\ \A i \in 1 .. m : f[i] = step[i][f[i - 1]]
            Missing == {m \in 0 .. n : ~ \E f : Loop(f, m)}
<1>1. Missing = {}
  <2>. SUFFICES ASSUME Missing # {} PROVE FALSE
    OBVIOUS
  <2>1. PICK m \in Missing : \A k \in Missing : m <= k
    <3>1. Missing \in SUBSET Nat
      OBVIOUS
    <3>. HIDE DEF Missing
    <3>. QED  BY <3>1, LeastMember
  <2>2. m \in 0 .. n /\ ~ \E f : Loop(f, m)
    BY <2>1
  <2>3. CASE m = 0
    <3>. DEFINE g == [i \in 0 .. m |-> a]
    <3>1. g \in [0 .. m -> S] /\ g[0] = a /\ 1 .. m = {}
      BY <2>3
    <3>. HIDE DEF g
    <3>2. Loop(g, m)
      BY <3>1
    <3>. HIDE DEF Loop
    <3>. QED  BY <2>2, <3>2
  <2>4. CASE m # 0
    <3>0. /\ m \in Nat \ {0} /\ m \in 1 .. n /\ m - 1 \in 0 .. n /\ ~ m <= m - 1
          /\ m - 1 \in 0 .. m - 1
      BY <2>2, <2>4
    <3>1. m - 1 \notin Missing
      BY <2>1, <3>0
    <3>2. PICK f : Loop(f, m - 1)
      BY <3>0, <3>1
    <3>3. f[m - 1] \in S
      BY <3>0, <3>2
    <3>. DEFINE g == [i \in 0 .. m |-> IF i = m THEN step[m][f[m - 1]] ELSE f[i]]
    <3>4. \A i \in 0 .. m : i # m => i \in 0 .. m - 1
      BY <3>0
    <3>5. step[m][f[m - 1]] \in S
      BY <3>0, <3>3
    <3>6. g \in [0 .. m -> S] /\ g[0] = a
      BY <2>4, <3>0, <3>2, <3>4, <3>5
    <3>7. ASSUME NEW i \in 1 .. m PROVE g[i] = step[i][g[i - 1]]
      <4>1. i - 1 \in 0 .. m /\ i - 1 # m /\ i \in 0 .. m
        BY <3>0
      <4>2. g[i - 1] = f[i - 1]
        BY <4>1
      <4>3. CASE i = m
        BY <4>1, <4>2, <4>3
      <4>4. CASE i # m
        <5>1. i \in 1 .. m - 1
          BY <3>0, <4>4
        <5>. QED  BY <3>2, <4>1, <4>2, <4>4, <5>1
      <4>. QED  BY <4>3, <4>4
    <3>8. Loop(g, m)
      <4>. HIDE DEF g
      <4>. QED  BY <3>6, <3>7
    <3>. HIDE DEF Loop
    <3>. QED  BY <2>2, <3>8
  <2>. QED  BY <2>3, <2>4
<1>2. n \in 0 .. n /\ n \notin Missing
  BY <1>1, SMTT(30)
<1>. QED  BY <1>2

\* What a loop carries is of the kind it begins with.
LEMMA LoopType ==
    ASSUME NEW S, NEW a \in S, NEW n \in Nat, NEW step \in [1 .. n -> [S -> S]],
           NEW f, f[0] = a, \A i \in 1 .. n : f[i - 1] \in S => f[i] = step[i][f[i - 1]]
    PROVE  f[n] \in S
<1>. DEFINE Wrong == {i \in 0 .. n : f[i] \notin S}
<1>1. Wrong = {}
  <2>. SUFFICES ASSUME Wrong # {} PROVE FALSE
    OBVIOUS
  <2>1. PICK i \in Wrong : \A k \in Wrong : i <= k
    <3>1. Wrong \in SUBSET Nat
      OBVIOUS
    <3>. HIDE DEF Wrong
    <3>. QED  BY <3>1, LeastMember
  <2>2. i \in 1 .. n /\ i - 1 \in 0 .. n /\ i - 1 \notin Wrong
    BY <2>1
  <2>3. f[i - 1] \in S /\ f[i] = step[i][f[i - 1]]
    BY <2>2
  <2>. QED  BY <2>1, <2>2, <2>3
<1>2. n \in 0 .. n
  OBVIOUS
<1>. QED  BY <1>1, <1>2

-----------------------------------------------------------------------------
(* Sequences that are joined *)

\* f joins the first n sequences of ss one after the other.
Joins(f, S, ss, n) ==
    f \in [0 .. n -> Seq(S)] /\ f[0] = <<>> /\ \A i \in 1 .. n : f[i] = f[i - 1] \o ss[i]

\* Sequences can be joined, as often as there are some.
LEMMA JoinExists ==
    ASSUME NEW S, NEW n \in Nat, NEW ss, \A i \in 1 .. n : ss[i] \in Seq(S)
    PROVE  \E f : Joins(f, S, ss, n)
<1>. DEFINE T == Seq(S)
            step == [i \in 1 .. n |-> [t \in T |-> t \o ss[i]]]
<1>1. step \in [1 .. n -> [T -> T]]
  OBVIOUS
<1>2. \A i \in 1 .. n : \A t \in T : step[i][t] = t \o ss[i]
  OBVIOUS
<1>3. <<>> \in T
  OBVIOUS
<1>. HIDE DEF T, step
<1>4. PICK f \in [0 .. n -> T] : f[0] = <<>> /\ \A i \in 1 .. n : f[i] = step[i][f[i - 1]]
  <2>1. ASSUME NEW a \in T
        PROVE  \E f \in [0 .. n -> T] : f[0] = a /\ \A i \in 1 .. n : f[i] = step[i][f[i - 1]]
    <3>1. n \in Nat /\ a \in T
      OBVIOUS
    <3>. QED  BY <1>1, <3>1, LoopExists
  <2>. QED  BY <1>3, <2>1
<1>5. \A i \in 1 .. n : i - 1 \in 0 .. n
  OBVIOUS
<1>6. \A i \in 1 .. n : f[i - 1] \in T
  BY <1>5
<1>7. \A i \in 1 .. n : f[i] = f[i - 1] \o ss[i]
  BY <1>2, <1>4, <1>6
<1>. QED  BY <1>4, <1>7 DEF T, Joins

\* The sequences of ss stand in t one after the other, the j-th of them after
\* position at[j - 1].
Stands(at, ss, t) ==
    /\ at \in [0 .. Len(ss) -> Nat] /\ at[0] = 0 /\ at[Len(ss)] = Len(t)
    /\ \A j \in 1 .. Len(ss) : at[j] = at[j - 1] + Len(ss[j])
    /\ \A j \in 1 .. Len(ss) : \A k \in 1 .. Len(ss[j]) :
          at[j - 1] + k \in 1 .. Len(t) /\ t[at[j - 1] + k] = ss[j][k]

\* Joined sequences stand one after the other.
LEMMA FlattenIs ==
    ASSUME NEW S, NEW ss \in Seq(Seq(S)), NEW n \in Nat, n = Len(ss)
    PROVE  FlattenSeq(ss) \in Seq(S) /\ \E at : Stands(at, ss, FlattenSeq(ss))
<1>. DEFINE Body(f) == [i \in 1 .. Len(ss) |-> IF i = 1 THEN ss[i] ELSE f[i - 1] \o ss[i]]
            h == CHOOSE f : f = Body(f)
            g == [i \in 0 .. n |-> IF i = 0 THEN <<>> ELSE h[i]]
            at == [i \in 0 .. n |-> Len(g[i])]
<1>1. \A j \in 1 .. n : ss[j] \in Seq(S) /\ Len(ss[j]) \in Nat
  OBVIOUS
<1>2. h = Body(h)
  <2>1. PICK f : Joins(f, S, ss, n)
    BY <1>1, JoinExists
  <2>. DEFINE e == [i \in 1 .. n |-> f[i]]
  <2>2. ASSUME NEW i \in 1 .. n PROVE e[i] = IF i = 1 THEN ss[i] ELSE e[i - 1] \o ss[i]
    <3>1. e[i] = f[i - 1] \o ss[i]
      BY <2>1 DEF Joins
    <3>2. CASE i = 1
      <4>1. f[i - 1] = <<>>
        BY <2>1, <3>2 DEF Joins
      <4>2. <<>> \o ss[i] = ss[i]
        BY <1>1
      <4>. QED  BY <3>1, <3>2, <4>1, <4>2
    <3>3. CASE i # 1
      <4>1. i - 1 \in 1 .. n
        BY <3>3
      <4>. QED  BY <3>1, <3>3, <4>1
    <3>. QED  BY <3>2, <3>3
  <2>3. e = Body(e)
    <3>1. e = [i \in 1 .. n |-> IF i = 1 THEN ss[i] ELSE e[i - 1] \o ss[i]]
      BY <2>2
    <3>. QED  BY <3>1
  <2>. HIDE DEF e, Body
  <2>. QED  BY <2>3
<1>. HIDE DEF h
<1>3. g[0] = <<>> /\ \A i \in 1 .. n : g[i] = g[i - 1] \o ss[i]
  <2>1. \A i \in 1 .. n : h[i] = IF i = 1 THEN ss[i] ELSE h[i - 1] \o ss[i]
    <3>1. h = [i \in 1 .. n |-> IF i = 1 THEN ss[i] ELSE h[i - 1] \o ss[i]]
      BY <1>2
    <3>. QED  BY <3>1
  <2>2. g[0] = <<>> /\ \A i \in 1 .. n : g[i] = h[i] /\ i - 1 \in 0 .. n
    OBVIOUS
  <2>. HIDE DEF g
  <2>3. ASSUME NEW i \in 1 .. n PROVE g[i] = g[i - 1] \o ss[i]
    <3>1. CASE i = 1
      <4>1. g[i - 1] = <<>> /\ <<>> \o ss[i] = ss[i]
        BY <1>1, <2>2, <3>1
      <4>. QED  BY <2>1, <2>2, <3>1, <4>1
    <3>2. CASE i # 1
      <4>1. i - 1 \in 1 .. n
        BY <3>2
      <4>. QED  BY <2>1, <2>2, <3>2, <4>1
    <3>. QED  BY <3>1, <3>2
  <2>. QED  BY <2>2, <2>3
<1>4. \A i \in 0 .. n : at[i] = Len(g[i])
  OBVIOUS
<1>. HIDE DEF g, at
<1>. DEFINE Fits(m) == /\ g[m] \in Seq(S)
                       /\ \A j \in 1 .. m : \A k \in 1 .. Len(ss[j]) :
                             at[j - 1] + k \in 1 .. at[m] /\ g[m][at[j - 1] + k] = ss[j][k]
            Wrong == {m \in 0 .. n : ~ Fits(m)}
<1>5. Wrong = {}
  <2>. SUFFICES ASSUME Wrong # {} PROVE FALSE
    OBVIOUS
  <2>1. PICK m \in Wrong : \A k \in Wrong : m <= k
    <3>1. Wrong \in SUBSET Nat
      OBVIOUS
    <3>. HIDE DEF Wrong
    <3>. QED  BY <3>1, LeastMember
  <2>2. m \in 0 .. n /\ ~ Fits(m)
    BY <2>1
  <2>3. m # 0
    <3>1. Fits(0)
      BY <1>3
    <3>. QED  BY <2>2, <3>1
  <2>4. m \in 1 .. n /\ m - 1 \in 0 .. n /\ \A j \in 0 .. m - 1 : ~ m <= j /\ j \in 0 .. n
    BY <2>2, <2>3
  <2>5. \A j \in 0 .. m - 1 : Fits(j)
    BY <2>1, <2>4
  <2>6. ASSUME NEW j \in 0 .. m - 1 PROVE at[j] \in Nat
    <3>1. g[j] \in Seq(S) /\ at[j] = Len(g[j])
      BY <1>4, <2>4, <2>5
    <3>. QED  BY <3>1
  <2>7. /\ Fits(m - 1) /\ m - 1 \in 0 .. m - 1
    BY <2>4, <2>5
  <2>8. /\ g[m] = g[m - 1] \o ss[m] /\ g[m - 1] \in Seq(S) /\ ss[m] \in Seq(S)
        /\ at[m - 1] = Len(g[m - 1]) /\ at[m] = Len(g[m])
    BY <1>1, <1>3, <1>4, <2>4, <2>7
  <2>. HIDE DEF Wrong, Fits
  <2>9. /\ g[m] \in Seq(S) /\ at[m] = at[m - 1] + Len(ss[m]) /\ Len(ss[m]) \in Nat /\ at[m - 1] \in Nat
        /\ \A i \in 1 .. at[m - 1] : g[m][i] = g[m - 1][i]
        /\ \A i \in 1 .. Len(ss[m]) : g[m][at[m - 1] + i] = ss[m][i]
    <3>1. ASSUME NEW s \in Seq(S), NEW t \in Seq(S)
          PROVE  /\ s \o t \in Seq(S) /\ Len(s \o t) = Len(s) + Len(t) /\ Len(t) \in Nat /\ Len(s) \in Nat
                 /\ \A i \in 1 .. Len(s) : (s \o t)[i] = s[i]
                 /\ \A i \in 1 .. Len(t) : (s \o t)[Len(s) + i] = t[i]
      OBVIOUS
    <3>2. PICK t : t = ss[m]
      OBVIOUS
    <3>3. PICK s : s = g[m - 1]
      OBVIOUS
    <3>4. s \in Seq(S) /\ t \in Seq(S) /\ g[m] = s \o t /\ at[m - 1] = Len(s) /\ at[m] = Len(g[m])
      BY <2>8, <3>2, <3>3
    <3>5. /\ g[m] \in Seq(S) /\ at[m] = Len(s) + Len(t) /\ Len(t) \in Nat /\ Len(s) \in Nat
          /\ \A i \in 1 .. Len(s) : g[m][i] = s[i]
          /\ \A i \in 1 .. Len(t) : g[m][Len(s) + i] = t[i]
      BY <3>1, <3>4
    <3>. QED  BY <3>2, <3>3, <3>4, <3>5
  <2>10. ASSUME NEW j \in 1 .. m, NEW k \in 1 .. Len(ss[j])
         PROVE  at[j - 1] + k \in 1 .. at[m] /\ g[m][at[j - 1] + k] = ss[j][k]
    <3>1. CASE j = m
      <4>1. at[m - 1] + k \in 1 .. at[m]
        BY <2>9, <3>1
      <4>. QED  BY <2>9, <3>1, <4>1
    <3>2. CASE j # m
      <4>1. j \in 1 .. m - 1
        BY <2>4, <3>2
      <4>2. at[j - 1] + k \in 1 .. at[m - 1] /\ g[m - 1][at[j - 1] + k] = ss[j][k]
        BY <2>7, <4>1 DEF Fits
      <4>3. 1 .. at[m - 1] \subseteq 1 .. at[m]
        BY <2>9
      <4>. QED  BY <2>9, <4>2, <4>3
    <3>. QED  BY <3>1, <3>2
  <2>11. Fits(m)
    BY <2>9, <2>10 DEF Fits
  <2>. QED  BY <2>2, <2>11
<1>6. \A m \in 0 .. n : Fits(m)
  BY <1>5, ZenonT(60)
<1>7. at \in [0 .. n -> Nat]
  BY <1>4, <1>6 DEF at
<1>8. at[0] = 0 /\ \A j \in 1 .. n : at[j] = at[j - 1] + Len(ss[j])
  <2>1. at[0] = 0
    BY <1>3, <1>4
  <2>2. ASSUME NEW j \in 1 .. n PROVE at[j] = at[j - 1] + Len(ss[j])
    <3>1. j - 1 \in 0 .. n /\ j \in 0 .. n
      OBVIOUS
    <3>2. g[j - 1] \in Seq(S)
      BY <1>6, <3>1
    <3>3. at[j] = Len(g[j]) /\ at[j - 1] = Len(g[j - 1]) /\ g[j] = g[j - 1] \o ss[j]
      BY <1>3, <1>4, <3>1
    <3>. QED  BY <1>1, <3>2, <3>3
  <2>. QED  BY <2>1, <2>2
<1>9. FlattenSeq(ss) = g[n]
  <2>1. CASE n = 0
    <3>1. ss = <<>> /\ Len(ss) = 0
      <4>1. ASSUME NEW T, NEW s \in Seq(T), Len(s) = 0 PROVE s = <<>>
        BY <4>1
      <4>. QED  BY <2>1, <4>1
    <3>2. FlattenSeq(ss) = ss
      BY <3>1 DEF FlattenSeq
    <3>. QED  BY <1>3, <2>1, <3>1, <3>2
  <2>2. CASE n # 0
    <3>1. FlattenSeq(ss) = h[n]
      BY <2>2 DEF FlattenSeq, h
    <3>2. n \in 0 .. n
      OBVIOUS
    <3>. QED  BY <2>2, <3>1, <3>2 DEF g
  <2>. QED  BY <2>1, <2>2
<1>10. n \in 0 .. n /\ Fits(n)
  BY <1>6
<1>11. FlattenSeq(ss) \in Seq(S) /\ Len(FlattenSeq(ss)) = at[n]
  BY <1>4, <1>9, <1>10
<1>12. \A j \in 1 .. n : \A k \in 1 .. Len(ss[j]) :
          at[j - 1] + k \in 1 .. at[n] /\ FlattenSeq(ss)[at[j - 1] + k] = ss[j][k]
  BY <1>9, <1>10
<1>. HIDE DEF Fits, Body
<1>13. Stands(at, ss, FlattenSeq(ss))
  BY <1>7, <1>8, <1>11, <1>12 DEF Stands
<1>. QED  BY <1>11, <1>13

\* Position p is that of an element of one of the sequences.
Placed(at, ss, p) == \E j \in 1 .. Len(ss) : \E k \in 1 .. Len(ss[j]) : p = at[j - 1] + k

\* Nothing else stands in the result.
LEMMA StandsFull ==
    ASSUME NEW ss, NEW t, NEW at, Stands(at, ss, t), Len(ss) \in Nat,
           \A j \in 1 .. Len(ss) : Len(ss[j]) \in Nat, NEW p, p \in 1 .. Len(t)
    PROVE  Placed(at, ss, p)
<1>. DEFINE n == Len(ss)
            Reached == {j \in 0 .. n : p <= at[j]}
<1>1. n \in Nat /\ \A j \in 1 .. n : Len(ss[j]) \in Nat
  OBVIOUS
<1>2. /\ \A j \in 0 .. n : at[j] \in Nat
      /\ at[0] = 0 /\ at[n] = Len(t) /\ \A j \in 1 .. n : at[j] = at[j - 1] + Len(ss[j])
  BY DEF Stands
<1>. HIDE DEF n
<1>3. n \in Reached
  BY <1>1, <1>2
<1>4. PICK j \in Reached : \A i \in Reached : j <= i
  <2>1. Reached \in SUBSET Nat
    BY <1>1
  <2>. HIDE DEF Reached
  <2>. QED  BY <1>3, <2>1, LeastMember
<1>5. j \in 1 .. n /\ j - 1 \in 0 .. n /\ ~ j <= j - 1
  BY <1>1, <1>2, <1>4
<1>6. ~ p <= at[j - 1]
  BY <1>4, <1>5
<1>7. at[j] = at[j - 1] + Len(ss[j]) /\ at[j - 1] \in Nat /\ p <= at[j] /\ Len(ss[j]) \in Nat
  BY <1>1, <1>2, <1>4, <1>5
<1>8. p - at[j - 1] \in 1 .. Len(ss[j]) /\ p = at[j - 1] + (p - at[j - 1])
  BY <1>6, <1>7
<1>. QED  BY <1>5, <1>8 DEF n, Placed
=============================================================================
