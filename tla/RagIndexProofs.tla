--------------------------- MODULE RagIndexProofs ---------------------------
(***************************************************************************)
(* Proofs about the index of the assistant for all documents and all batch *)
(* sizes: what the embedder returns for a list of texts however its        *)
(* batches are halved, that a rebuild keeps the old index until it has the *)
(* whole new one and ends with that one and nothing else, and that what a  *)
(* question is answered from is of one state of the documents and numbered *)
(* as the sources under the answer.                                        *)
(***************************************************************************)
EXTENDS RagIndex, LoopProofs, SequenceTheorems, FiniteSetTheorems, TLAPS

-----------------------------------------------------------------------------
(* Slices of the texts *)

Slice == [from : Nat \ {0}, to : Nat]

\* The slices cut what lies between their first text and text n into pieces.
InOrder(slices, n) ==
    /\ slices \in Seq(Slice)
    /\ \A i \in 1 .. Len(slices) : slices[i].from <= slices[i].to /\ slices[i].to <= n
    /\ \A i \in 1 .. Len(slices) - 1 : slices[i + 1].from = slices[i].to + 1
    /\ slices # <<>> => slices[Len(slices)].to = n

\* The first slice of a sequence in order.
LEMMA FirstInOrder ==
    ASSUME NEW s, NEW n, InOrder(s, n), s # <<>>
    PROVE  /\ Len(s) \in Nat \ {0}
           /\ s[1] \in Slice /\ s[1].from \in Nat \ {0} /\ s[1].to \in Nat
           /\ s[1].from <= s[1].to /\ s[1].to <= n
<1>1. s \in Seq(Slice)
  BY DEF InOrder
<1>2. Len(s) \in Nat \ {0} /\ 1 \in 1 .. Len(s)
  BY <1>1, EmptySeq
<1>3. s[1] \in Slice /\ s[1].from <= s[1].to /\ s[1].to <= n
  BY <1>1, <1>2 DEF InOrder
<1>. QED  BY <1>2, <1>3 DEF Slice

\* The number of batches is rounded up.
LEMMA NumberOfBatches ==
    ASSUME NEW n \in Nat \ {0}, NEW K, K = (n + BatchSize - 1) \div BatchSize
    PROVE  K \in Nat /\ K >= 1 /\ K * BatchSize >= n /\ (K - 1) * BatchSize < n
BY EmbedderAssumption, Z3

\* Multiplication by a natural number is monotonic.
LEMMA Multiples ==
    ASSUME NEW m \in Nat, NEW b \in Nat, NEW k \in Nat, m <= k
    PROVE  m * b \in Nat /\ m * b <= k * b
<1>1. PICK d \in Nat : k = m + d
  BY k - m \in Nat, k = m + (k - m)
<1>2. k * b = m * b + d * b /\ d * b \in Nat /\ m * b \in Nat
  BY <1>1, Z3
<1>. QED  BY <1>2

\* range(0, total_texts, batch_size) cuts all texts into batches, in order.
LEMMA BatchesInOrder ==
    ASSUME NEW n \in Nat \ {0}
    PROVE  /\ InOrder(Batches(n), n)
           /\ Batches(n) # <<>>
           /\ Batches(n)[1].from = 1
<1>. DEFINE K == (n + BatchSize - 1) \div BatchSize
            to(b) == IF b * BatchSize < n THEN b * BatchSize ELSE n
<1>0. BatchSize \in Nat /\ BatchSize > 0
  BY EmbedderAssumption
<1>1. K \in Nat /\ K >= 1 /\ K * BatchSize >= n /\ (K - 1) * BatchSize < n
  BY NumberOfBatches
<1>2. Batches(n) = [b \in 1 .. K |-> [from |-> (b - 1) * BatchSize + 1, to |-> to(b)]]
  BY DEF Batches
<1>. HIDE DEF K
<1>3. ASSUME NEW b \in 1 .. K
      PROVE  /\ (b - 1) * BatchSize \in Nat
             /\ (b - 1) * BatchSize < n
             /\ b * BatchSize = (b - 1) * BatchSize + BatchSize
             /\ b < K => b * BatchSize < n
  <2>1. b - 1 \in Nat /\ K - 1 \in Nat /\ b - 1 <= K - 1 /\ (b < K => b \in Nat /\ b <= K - 1)
    BY <1>1
  <2>2. (b - 1) * BatchSize \in Nat /\ (b - 1) * BatchSize <= (K - 1) * BatchSize
    BY <1>0, <2>1, Multiples
  <2>3. b < K => b * BatchSize <= (K - 1) * BatchSize
    BY <1>0, <2>1, Multiples
  <2>4. b * BatchSize = (b - 1) * BatchSize + BatchSize
    BY <1>0, Z3
  <2>5. (K - 1) * BatchSize \in Int /\ b * BatchSize \in Int
    BY <1>0, <1>1, <2>2, <2>4, Z3
  <2>. QED  BY <1>0, <1>1, <2>2, <2>3, <2>4, <2>5
<1>4. \A b \in 1 .. K : to(b) \in Nat /\ (b - 1) * BatchSize + 1 <= to(b) /\ to(b) <= n
  <2>. SUFFICES ASSUME NEW b \in 1 .. K
                PROVE  to(b) \in Nat /\ (b - 1) * BatchSize + 1 <= to(b) /\ to(b) <= n
    OBVIOUS
  <2>. DEFINE l == (b - 1) * BatchSize
              r == b * BatchSize
  <2>1. l \in Nat /\ l < n /\ r = l + BatchSize
    BY <1>3
  <2>. HIDE DEF l, r
  <2>. QED  BY <1>0, <2>1 DEF l, r
<1>5. Batches(n) \in Seq(Slice) /\ Len(Batches(n)) = K
  BY <1>1, <1>2, <1>3, <1>4 DEF Slice
<1>6. \A i \in 1 .. K : Batches(n)[i].from <= Batches(n)[i].to /\ Batches(n)[i].to <= n
  BY <1>2, <1>4
<1>7. \A i \in 1 .. K - 1 : Batches(n)[i + 1].from = Batches(n)[i].to + 1
  <2>. SUFFICES ASSUME NEW i \in 1 .. K - 1
                PROVE  Batches(n)[i + 1].from = Batches(n)[i].to + 1
    OBVIOUS
  <2>1. i \in 1 .. K /\ i + 1 \in 1 .. K /\ i < K /\ (i + 1) - 1 = i
    BY <1>1
  <2>. QED  BY <1>2, <1>3, <2>1
<1>8. Batches(n)[K].to = n
  <2>1. K \in 1 .. K
    BY <1>1
  <2>2. to(K) = n
    <3>. DEFINE r == K * BatchSize
    <3>1. r \in Int /\ r >= n
      BY <1>0, <1>1, Z3
    <3>. HIDE DEF r
    <3>2. (IF r < n THEN r ELSE n) = n
      BY <3>1
    <3>. QED  BY <3>2 DEF r
  <2>. QED  BY <1>2, <2>1, <2>2
<1>9. Batches(n)[1].from = 1
  <2>1. 1 \in 1 .. K
    BY <1>1
  <2>2. (1 - 1) * BatchSize + 1 = 1
    BY <1>0
  <2>. QED  BY <1>2, <2>1, <2>2
<1>10. Batches(n) # <<>>
  BY <1>1, <1>5
<1>. QED  BY <1>5, <1>6, <1>7, <1>8, <1>9, <1>10 DEF InOrder

\* What is left once the first slice is done.
LEMMA RestInOrder ==
    ASSUME NEW s, NEW n \in Nat, InOrder(s, n), s # <<>>
    PROVE  /\ InOrder(Tail(s), n)
           /\ Tail(s) = <<>> => s[1].to = n
           /\ Tail(s) # <<>> => Tail(s)[1].from = s[1].to + 1
<1>1. /\ s \in Seq(Slice) /\ Len(s) \in Nat /\ Len(s) >= 1
      /\ Tail(s) \in Seq(Slice) /\ Len(Tail(s)) = Len(s) - 1
      /\ \A i \in 1 .. Len(s) - 1 : Tail(s)[i] = s[i + 1]
  <2>1. s \in Seq(Slice)
    BY DEF InOrder
  <2>. QED  BY <2>1, HeadTailProperties, LenProperties
<1>2. Tail(s) = <<>> <=> Len(s) = 1
  <2>. DEFINE t == Tail(s)
  <2>1. t \in Seq(Slice) /\ Len(t) = Len(s) - 1
    BY <1>1
  <2>. HIDE DEF t
  <2>2. t = <<>> => Len(t) = 0
    OBVIOUS
  <2>3. t # <<>> => Len(t) \in Nat \ {0}
    BY <2>1, EmptySeq
  <2>4. t = <<>> <=> Len(s) = 1
    BY <1>1, <2>1, <2>2, <2>3
  <2>. QED  BY <2>4 DEF t
<1>3. \A i \in 1 .. Len(s) - 1 : i + 1 \in 1 .. Len(s)
  BY <1>1
<1>4. \A i \in 1 .. Len(s) - 2 : i \in 1 .. Len(s) - 1 /\ i + 1 \in 1 .. Len(s) - 1
  BY <1>1
<1>5. Len(s) # 1 => 1 \in 1 .. Len(s) - 1 /\ Len(s) - 1 \in 1 .. Len(s) - 1
  BY <1>1
<1>6. InOrder(Tail(s), n)
  <2>1. \A i \in 1 .. Len(Tail(s)) : Tail(s)[i].from <= Tail(s)[i].to /\ Tail(s)[i].to <= n
    BY <1>1, <1>3 DEF InOrder
  <2>2. \A i \in 1 .. Len(Tail(s)) - 1 : Tail(s)[i + 1].from = Tail(s)[i].to + 1
    BY <1>1, <1>3, <1>4 DEF InOrder
  <2>3. Tail(s) # <<>> => Tail(s)[Len(Tail(s))].to = n
    BY <1>1, <1>2, <1>5 DEF InOrder
  <2>. QED  BY <1>1, <2>1, <2>2, <2>3 DEF InOrder
<1>7. Tail(s) = <<>> => s[1].to = n
  BY <1>2 DEF InOrder
<1>8. Tail(s) # <<>> => Tail(s)[1].from = s[1].to + 1
  BY <1>1, <1>2, <1>5 DEF InOrder
<1>. QED  BY <1>6, <1>7, <1>8

\* Halving the first slice keeps the order and what lies before it.
LEMMA HalvesInOrder ==
    ASSUME NEW s, NEW n \in Nat, InOrder(s, n), s # <<>>,
           s[1].to - s[1].from + 1 > 1
    PROVE  LET h == Halves(s[1]) \o Tail(s)
           IN  InOrder(h, n) /\ h # <<>> /\ h[1].from = s[1].from
<1>. DEFINE from == s[1].from
            to == s[1].to
            mid == (to - from + 1) \div 2
            left == [from |-> from, to |-> from + mid - 1]
            right == [from |-> from + mid, to |-> to]
            t == Tail(s)
            h == Halves(s[1]) \o t
<1>1. s[1] \in Slice /\ from <= to /\ to <= n
  <2>1. Len(s) >= 1 /\ 1 \in 1 .. Len(s)
    BY DEF InOrder
  <2>. QED  BY <2>1 DEF InOrder
<1>2. from \in Nat \ {0} /\ to \in Nat
  BY <1>1 DEF Slice
<1>3. mid \in Nat /\ mid >= 1 /\ mid < to - from + 1
  <2>. DEFINE k == to - from + 1
  <2>1. k \in Nat /\ k > 1
    BY <1>1, <1>2
  <2>. HIDE DEF k
  <2>2. k \div 2 \in Nat /\ k \div 2 >= 1 /\ k \div 2 < k
    BY <2>1
  <2>. QED  BY <2>2 DEF k
<1>4. Halves(s[1]) = <<left, right>>
  BY DEF Halves
<1>. HIDE DEF mid, from, to
<1>5. left \in Slice /\ right \in Slice
  BY <1>2, <1>3 DEF Slice
<1>6. InOrder(t, n) /\ (t = <<>> => to = n) /\ (t # <<>> => t[1].from = to + 1)
  BY RestInOrder DEF to
<1>7. t \in Seq(Slice) /\ Len(t) \in Nat
  BY <1>6 DEF InOrder
<1>. HIDE DEF t, left, right
<1>8. /\ h = <<left, right>> \o t /\ h \in Seq(Slice) /\ Len(h) = Len(t) + 2
      /\ h[1] = left /\ h[2] = right
      /\ \A i \in 1 .. Len(t) : h[i + 2] = t[i]
  <2>1. h = <<left, right>> \o t
    BY <1>4
  <2>2. <<left, right>> \in Seq(Slice) /\ Len(<<left, right>>) = 2
    BY <1>5
  <2>3. /\ h \in Seq(Slice) /\ Len(h) = 2 + Len(t)
        /\ \A i \in 1 .. 2 + Len(t) : h[i] = IF i <= 2 THEN <<left, right>>[i] ELSE t[i - 2]
    BY <1>7, <2>1, <2>2, ConcatProperties
  <2>4. \A i \in 1 .. Len(t) : i + 2 \in 1 .. 2 + Len(t) /\ ~ (i + 2 <= 2) /\ (i + 2) - 2 = i
    BY <1>7
  <2>5. 1 \in 1 .. 2 + Len(t) /\ 2 \in 1 .. 2 + Len(t)
    BY <1>7
  <2>6. h[1] = left /\ h[2] = right
    BY <2>3, <2>5
  <2>7. \A i \in 1 .. Len(t) : h[i + 2] = t[i]
    BY <2>3, <2>4
  <2>. QED  BY <1>7, <2>1, <2>3, <2>6, <2>7
<1>9. \A i \in 1 .. Len(h) : i = 1 \/ i = 2 \/ (i - 2 \in 1 .. Len(t) /\ i = (i - 2) + 2)
  BY <1>7, <1>8
<1>10. left.from <= left.to /\ left.to <= n /\ right.from <= right.to /\ right.to <= n
       /\ right.from = left.to + 1 /\ right.to = to /\ left.from = from
  BY <1>1, <1>2, <1>3 DEF left, right, from, to
<1>. HIDE DEF h
<1>11. \A i \in 1 .. Len(h) : h[i].from <= h[i].to /\ h[i].to <= n
  BY <1>6, <1>8, <1>9, <1>10 DEF InOrder
<1>12. \A i \in 1 .. Len(h) - 1 : h[i + 1].from = h[i].to + 1
  <2>. SUFFICES ASSUME NEW i \in 1 .. Len(h) - 1 PROVE h[i + 1].from = h[i].to + 1
    OBVIOUS
  <2>1. CASE i = 1
    BY <1>8, <1>10, <2>1
  <2>2. CASE i = 2
    <3>1. t # <<>> /\ 1 \in 1 .. Len(t) /\ h[3] = t[1]
      BY <1>7, <1>8, <2>2
    <3>. QED  BY <1>6, <1>8, <1>10, <2>2, <3>1
  <2>3. CASE i > 2
    <3>1. i - 2 \in 1 .. Len(t) - 1 /\ i - 2 \in 1 .. Len(t) /\ i - 1 \in 1 .. Len(t)
          /\ (i - 2) + 2 = i /\ (i - 1) + 2 = i + 1 /\ (i - 2) + 1 = i - 1
      BY <1>7, <1>8, <2>3
    <3>2. h[i] = t[i - 2] /\ h[i + 1] = t[i - 1]
      BY <1>8, <3>1
    <3>3. t[(i - 2) + 1].from = t[i - 2].to + 1
      BY <1>6, <3>1 DEF InOrder
    <3>. QED  BY <3>1, <3>2, <3>3
  <2>. QED  BY <1>8, <2>1, <2>2, <2>3
<1>13. h[Len(h)].to = n
  <2>1. CASE t = <<>>
    BY <1>6, <1>7, <1>8, <1>10, <2>1
  <2>2. CASE t # <<>>
    <3>1. Len(t) \in 1 .. Len(t)
      BY <1>7, <2>2
    <3>. QED  BY <1>6, <1>7, <1>8, <2>2, <3>1 DEF InOrder
  <2>. QED  BY <2>1, <2>2
<1>14. InOrder(h, n)
  BY <1>8, <1>11, <1>12, <1>13 DEF InOrder
<1>15. h # <<>> /\ h[1].from = from
  BY <1>7, <1>8, <1>10
<1>. QED  BY <1>14, <1>15 DEF h, t, from

-----------------------------------------------------------------------------
(* The embedder *)

Texts == {p.text : p \in Parts}

\* How many texts lie before the slices still to be embedded.
Before == IF pending = <<>> THEN Len(texts) ELSE pending[1].from - 1

\* What the requests for the first slice have returned.
PartFits ==
    /\ Len(part) <= pending[1].to - pending[1].from
    /\ \A i \in 1 .. Len(part) : part[i] = texts[pending[1].from - 1 + i]

\* Every text is embedded, or is in one of the slices that are left.  Embeddings
\* are missing, or each is that of the text at its place.
EmbedderInv ==
    /\ texts \in Seq(Texts) /\ part \in Seq(Texts) /\ embeddings \in Seq(Texts)
    /\ InOrder(pending, Len(texts))
    /\ Len(embeddings) <= Before
    /\ Len(embeddings) = Before => \A i \in 1 .. Before : embeddings[i] = texts[i]
    /\ pending # <<>> => PartFits
    /\ status = "embedding" => pending # <<>>
    /\ status = "embedded" => pending = <<>>
    /\ mode \in Endpoints \cup {None} /\ trial \in Endpoints
    /\ status \in {"idle", "embedding", "embedded", "failed"}

\* embed_in_batches begins.
LEMMA StartKeeps ==
    ASSUME NEW ts \in Seq(Texts), ts # <<>>, EmbedInBatches(ts)
    PROVE  EmbedderInv'
<1>1. Len(ts) \in Nat \ {0}
  BY EmptySeq
<1>2. InOrder(Batches(Len(ts)), Len(ts)) /\ Batches(Len(ts)) # <<>> /\ Batches(Len(ts))[1].from = 1
  BY <1>1, BatchesInOrder
<1>3. Batches(Len(ts))[1].from <= Batches(Len(ts))[1].to /\ Batches(Len(ts))[1].to \in Nat
  BY <1>2, FirstInOrder
<1>4. Before' = 0
  BY <1>2 DEF EmbedInBatches, Before
<1>5. PartFits'
  BY <1>2, <1>3 DEF EmbedInBatches, PartFits
<1>. QED  BY <1>1, <1>2, <1>4, <1>5 DEF EmbedInBatches, EmbedderInv, Endpoints

\* The first slice, when there is one.
LEMMA FirstSlice ==
    ASSUME EmbedderInv, pending # <<>>
    PROVE  /\ pending[1].from \in Nat \ {0} /\ pending[1].to \in Nat
           /\ pending[1].from <= pending[1].to /\ pending[1].to <= Len(texts)
           /\ Batch \in Seq(Texts)
           /\ Len(Batch) = pending[1].to - pending[1].from + 1
           /\ \A i \in 1 .. Len(Batch) : Batch[i] = texts[pending[1].from - 1 + i]
<1>1. pending \in Seq(Slice) /\ 1 \in 1 .. Len(pending)
  BY EmptySeq DEF EmbedderInv, InOrder
<1>2. pending[1] \in Slice /\ pending[1].from <= pending[1].to /\ pending[1].to <= Len(texts)
  BY <1>1 DEF EmbedderInv, InOrder
<1>3. texts \in Seq(Texts) /\ Len(texts) \in Nat
  BY DEF EmbedderInv
<1>. DEFINE f == pending[1].from
            t == pending[1].to
<1>4. f \in Nat \ {0} /\ t \in Nat /\ f <= t /\ t <= Len(texts) /\ Batch = SubSeq(texts, f, t)
  BY <1>2 DEF Slice, Batch
<1>. HIDE DEF f, t
<1>5. f \in 1 .. Len(texts) + 1 /\ t \in f - 1 .. Len(texts)
  BY <1>3, <1>4
<1>6. /\ SubSeq(texts, f, t) \in Seq(Texts)
      /\ Len(SubSeq(texts, f, t)) = t - f + 1
      /\ \A i \in 1 .. t - f + 1 : SubSeq(texts, f, t)[i] = texts[f + i - 1]
  BY <1>3, <1>4, <1>5, SubSeqProperties
<1>7. \A i \in 1 .. t - f + 1 : f + i - 1 = f - 1 + i
  BY <1>4
<1>. QED  BY <1>4, <1>6, <1>7 DEF f, t

\* A call of embed_texts returns as many embeddings as it was given texts, in
\* their order, or fewer; once there have been fewer there are too few for good.
LEMMA ReturnsKeeps ==
    ASSUME EmbedderInv, status = "embedding", NEW v \in Seq(Texts), Returns(v),
           Len(v) <= Len(Batch),
           Len(v) = Len(Batch) => \A i \in 1 .. Len(v) : v[i] = Batch[i]
    PROVE  EmbedderInv'
<1>. DEFINE f == pending[1].from
            t == pending[1].to
            e == embeddings \o v
<1>1. pending # <<>> /\ InOrder(pending, Len(texts)) /\ Len(texts) \in Nat
  BY DEF EmbedderInv
<1>2. /\ f \in Nat \ {0} /\ t \in Nat /\ f <= t /\ Len(Batch) = t - f + 1
      /\ \A i \in 1 .. Len(Batch) : Batch[i] = texts[f - 1 + i]
  BY <1>1, FirstSlice
<1>3. /\ texts' = texts /\ part' = <<>> /\ pending' = Tail(pending) /\ embeddings' = e
      /\ mode' \in Endpoints \cup {None} /\ trial' \in Endpoints
      /\ status' = IF Len(pending) = 1 THEN "embedded" ELSE "embedding"
  BY DEF Returns, Endpoint, Endpoints, EmbedderInv
<1>4. /\ InOrder(pending', Len(texts))
      /\ pending' = <<>> => t = Len(texts)
      /\ pending' # <<>> => pending'[1].from = t + 1
  BY <1>1, <1>3, RestInOrder
<1>5. Before = f - 1
  BY <1>1 DEF Before
<1>. HIDE DEF f, t
<1>6. Before' = t
  <2>1. CASE pending' = <<>>
    BY <1>3, <1>4, <2>1 DEF Before
  <2>2. CASE pending' # <<>>
    <3>1. Before' = pending'[1].from - 1
      BY <2>2 DEF Before
    <3>2. pending'[1].from = t + 1
      BY <1>4, <2>2
    <3>. QED  BY <1>2, <3>1, <3>2
  <2>. QED  BY <2>1, <2>2
<1>7. /\ e \in Seq(Texts) /\ Len(e) = Len(embeddings) + Len(v)
      /\ \A i \in 1 .. Len(embeddings) + Len(v) :
            e[i] = IF i <= Len(embeddings) THEN embeddings[i] ELSE v[i - Len(embeddings)]
  BY ConcatProperties DEF EmbedderInv
<1>. HIDE DEF e
<1>8. Len(embeddings) \in Nat /\ Len(v) \in Nat /\ Len(embeddings) <= f - 1
  BY <1>5 DEF EmbedderInv
<1>9. Len(embeddings') <= Before'
  BY <1>2, <1>3, <1>6, <1>7, <1>8
<1>10. ASSUME Len(embeddings') = Before', NEW i \in 1 .. Before'
       PROVE  embeddings'[i] = texts'[i]
  <2>1. Len(embeddings) = f - 1 /\ Len(v) = Len(Batch)
    BY <1>2, <1>3, <1>6, <1>7, <1>8, <1>10
  <2>2. i \in 1 .. Len(embeddings) + Len(v)
    BY <1>3, <1>7, <1>10
  <2>3. CASE i <= Len(embeddings)
    <3>1. i \in 1 .. Before
      BY <1>5, <1>8, <2>1, <2>2, <2>3
    <3>2. embeddings[i] = texts[i]
      BY <1>5, <2>1, <3>1 DEF EmbedderInv
    <3>. QED  BY <1>3, <1>7, <2>2, <2>3, <3>2
  <2>4. CASE i > Len(embeddings)
    <3>. DEFINE k == i - Len(embeddings)
    <3>1. k \in 1 .. Len(v) /\ f - 1 + k = i
      BY <1>2, <1>8, <2>1, <2>2, <2>4
    <3>2. e[i] = v[k]
      BY <1>7, <1>8, <2>2, <2>4
    <3>. HIDE DEF k
    <3>3. v[k] = texts[i]
      BY <1>2, <2>1, <3>1
    <3>. QED  BY <1>3, <3>2, <3>3
  <2>. QED  BY <1>8, <2>2, <2>3, <2>4
<1>11. pending' # <<>> => PartFits'
  <2>1. ASSUME pending' # <<>>
        PROVE  /\ pending'[1].from \in Nat /\ pending'[1].to \in Nat
               /\ pending'[1].from <= pending'[1].to
    BY <1>4, <2>1, FirstInOrder
  <2>. QED  BY <1>3, <2>1 DEF PartFits
<1>12. pending' = <<>> <=> Len(pending) = 1
  <2>1. pending \in Seq(Slice) /\ Len(pending) \in Nat \ {0}
    BY <1>1, EmptySeq DEF InOrder
  <2>2. pending' \in Seq(Slice) /\ Len(pending') = Len(pending) - 1
    BY <1>1, <1>3, <2>1, HeadTailProperties
  <2>3. pending' # <<>> => Len(pending') \in Nat \ {0}
    BY <2>2, EmptySeq
  <2>4. pending' = <<>> => Len(pending') = 0
    OBVIOUS
  <2>. QED  BY <2>1, <2>2, <2>3, <2>4
<1>. QED  BY <1>3, <1>4, <1>7, <1>9, <1>10, <1>11, <1>12 DEF EmbedderInv

\* A step of the embedder keeps its batch and its vectors together.
LEMMA EmbedderKeeps == ASSUME EmbedderInv, EmbedderNext PROVE EmbedderInv'
<1>1. ASSUME Raises PROVE EmbedderInv'
  BY <1>1 DEF Raises, EmbedderInv, Before, PartFits
<1>2. ASSUME status = "embedding" PROVE pending # <<>>
  BY <1>2 DEF EmbedderInv
<1>3. CASE EmbedAnswers
  <2>1. PICK n \in 0 .. Len(Batch) : Returns(SubSeq(Batch, 1, n))
    BY <1>3 DEF EmbedAnswers
  <2>2. Batch \in Seq(Texts) /\ Len(Batch) \in Nat
    BY <1>2, <1>3, FirstSlice DEF EmbedAnswers
  <2>. DEFINE v == SubSeq(Batch, 1, n)
  <2>3. n \in Nat /\ n <= Len(Batch) /\ \A i \in 1 .. n : i \in 1 .. Len(Batch)
    BY <2>2
  <2>4. \A i \in 1 .. n : Batch[i] \in Texts
    BY <2>2, <2>3
  <2>5. /\ v \in Seq(Texts) /\ Len(v) = n
        /\ \A i \in 1 .. n : v[i] = Batch[i]
    <3>1. /\ v \in Seq(Texts) /\ Len(v) = (IF 1 <= n THEN n - 1 + 1 ELSE 0)
          /\ \A i \in 1 .. n - 1 + 1 : v[i] = Batch[1 + i - 1]
      BY <2>3, <2>4, SubSeqProperties
    <3>. QED  BY <2>3, <3>1
  <2>. HIDE DEF v
  <2>6. Returns(v) /\ status = "embedding"
    BY <1>3, <2>1 DEF v, EmbedAnswers
  <2>. QED  BY <2>3, <2>5, <2>6, ReturnsKeeps
<1>4. CASE EmbeddingsAnswers
  <2>1. status = "embedding" /\ pending # <<>>
    BY <1>2, <1>4 DEF EmbeddingsAnswers
  <2>. DEFINE k == Len(part) + 1
              v == Append(part, Batch[k])
  <2>2. /\ pending[1].from \in Nat \ {0} /\ pending[1].to \in Nat
        /\ Batch \in Seq(Texts) /\ Len(Batch) = pending[1].to - pending[1].from + 1
        /\ \A i \in 1 .. Len(Batch) : Batch[i] = texts[pending[1].from - 1 + i]
    BY <2>1, FirstSlice
  <2>3. part \in Seq(Texts) /\ PartFits
    BY <2>1 DEF EmbedderInv
  <2>4. k \in 1 .. Len(Batch) /\ Batch[k] \in Texts
    BY <2>2, <2>3 DEF PartFits
  <2>5. /\ v \in Seq(Texts) /\ Len(v) = k
        /\ \A i \in 1 .. Len(part) : v[i] = part[i]
        /\ v[k] = Batch[k]
    BY <2>3, <2>4, AppendProperties
  <2>. HIDE DEF v
  <2>6. \A i \in 1 .. Len(v) : v[i] = texts[pending[1].from - 1 + i] /\ v[i] = Batch[i]
    <3>. SUFFICES ASSUME NEW i \in 1 .. Len(v)
                  PROVE  v[i] = texts[pending[1].from - 1 + i] /\ v[i] = Batch[i]
      OBVIOUS
    <3>1. Len(part) \in Nat /\ i \in 1 .. Len(Batch)
      BY <2>2, <2>3, <2>4, <2>5
    <3>2. i = k \/ i \in 1 .. Len(part)
      BY <2>5, <3>1
    <3>. QED  BY <2>2, <2>3, <2>5, <3>1, <3>2 DEF PartFits
  <2>7. CASE Returns(v)
    BY <2>1, <2>4, <2>5, <2>6, <2>7, ReturnsKeeps
  <2>8. CASE /\ Len(v) # Len(Batch) /\ part' = v
             /\ UNCHANGED <<texts, mode, trial, pending, embeddings, status>>
    <3>1. Len(v) <= pending[1].to - pending[1].from
      BY <2>2, <2>4, <2>5, <2>8
    <3>2. PartFits'
      BY <2>6, <2>8, <3>1 DEF PartFits
    <3>. QED  BY <2>1, <2>5, <2>8, <3>2 DEF EmbedderInv, Before
  <2>. QED  BY <1>4, <2>7, <2>8 DEF EmbeddingsAnswers, v
<1>5. CASE ReadTimeout
  <2>1. status = "embedding" /\ pending # <<>>
    BY <1>2, <1>5 DEF ReadTimeout
  <2>2. CASE Len(Batch) <= 1
    BY <1>1, <1>5, <2>2 DEF ReadTimeout
  <2>3. CASE ~ Len(Batch) <= 1
    <3>1. /\ pending' = Halves(pending[1]) \o Tail(pending)
          /\ part' = <<>> /\ trial' = "embed"
          /\ UNCHANGED <<texts, mode, embeddings, status>>
      BY <1>5, <2>3 DEF ReadTimeout
    <3>2. pending[1].to - pending[1].from + 1 > 1
      BY <2>1, <2>3, FirstSlice
    <3>3. InOrder(pending, Len(texts)) /\ Len(texts) \in Nat
      BY DEF EmbedderInv
    <3>4. /\ InOrder(pending', Len(texts)) /\ pending' # <<>>
          /\ pending'[1].from = pending[1].from
      BY <2>1, <3>1, <3>2, <3>3, HalvesInOrder
    <3>5. Before' = Before
      BY <2>1, <3>4 DEF Before
    <3>6. PartFits'
      <4>1. /\ pending'[1].from \in Nat /\ pending'[1].to \in Nat
            /\ pending'[1].from <= pending'[1].to
        BY <3>4, FirstInOrder
      <4>2. part' = <<>>
        BY <3>1
      <4>. QED  BY <4>1, <4>2 DEF PartFits
    <3>. QED  BY <2>1, <3>1, <3>4, <3>5, <3>6 DEF EmbedderInv, Endpoints
  <2>. QED  BY <2>2, <2>3
<1>6. CASE EndpointNotFound
  <2>1. status = "embedding" /\ pending # <<>>
    BY <1>2, <1>6 DEF EndpointNotFound
  <2>2. CASE /\ trial' = "embeddings" /\ part' = <<>>
             /\ UNCHANGED <<texts, mode, pending, embeddings, status>>
    <3>1. PartFits'
      BY <2>1, <2>2, FirstSlice DEF PartFits
    <3>. QED  BY <2>2, <3>1 DEF EmbedderInv, Before, Endpoints
  <2>. QED  BY <1>1, <1>6, <2>2 DEF EndpointNotFound
<1>7. CASE RequestFails
  BY <1>1, <1>7 DEF RequestFails
<1>. QED  BY <1>3, <1>4, <1>5, <1>6, <1>7 DEF EmbedderNext

-----------------------------------------------------------------------------
(* The chunks of the documents *)

Shown == {p \in Parts : p.text # Blank}

\* The chunks of a document are parts of it that are not blank.
LEMMA ChunksOfDocument ==
    ASSUME NEW doc \in Documents
    PROVE  ChunkDocument(doc) \in Seq(Shown)
<1>. DEFINE n == Len(doc.parts)
            S == Seq(Shown)
            step == [i \in 1 .. n |-> [c \in S |->
                        IF doc.parts[i].text = Blank THEN c ELSE Append(c, doc.parts[i])]]
            Body(f) == [i \in 0 .. Len(doc.parts) |->
                          IF i = 0 THEN <<>>
                          ELSE IF doc.parts[i].text = Blank THEN f[i - 1]
                          ELSE Append(f[i - 1], doc.parts[i])]
            upTo == CHOOSE f : f = Body(f)
<1>1. n \in Nat /\ <<>> \in S
  BY RagAssumption
<1>2. step \in [1 .. n -> [S -> S]]
  <2>1. ASSUME NEW i \in 1 .. n, doc.parts[i].text # Blank PROVE doc.parts[i] \in Shown
    BY <2>1, RagAssumption DEF Shown
  <2>2. ASSUME NEW i \in 1 .. n, NEW c \in S
        PROVE  (IF doc.parts[i].text = Blank THEN c ELSE Append(c, doc.parts[i])) \in S
    BY <2>1, <2>2
  <2>. HIDE DEF n, S
  <2>. QED  BY <2>2
<1>3. PICK g \in [0 .. n -> S] : g[0] = <<>> /\ \A i \in 1 .. n : g[i] = step[i][g[i - 1]]
  <2>. HIDE DEF n, S, step
  <2>. QED  BY <1>1, <1>2, LoopExists
<1>4. \A i \in 1 .. n : \A c \in S :
          step[i][c] = IF doc.parts[i].text = Blank THEN c ELSE Append(c, doc.parts[i])
  <2>. HIDE DEF n, S
  <2>. QED  OBVIOUS
<1>5. g = Body(g)
  <2>1. \A i \in 0 .. n : i # 0 => i \in 1 .. n /\ i - 1 \in 0 .. n
    BY <1>1
  <2>2. \A i \in 1 .. n :
           g[i] = IF doc.parts[i].text = Blank THEN g[i - 1] ELSE Append(g[i - 1], doc.parts[i])
    <3>. HIDE DEF n, S, step
    <3>. QED  BY <1>1, <1>3, <1>4, <2>1
  <2>3. g = [i \in 0 .. n |->
                IF i = 0 THEN <<>>
                ELSE IF doc.parts[i].text = Blank THEN g[i - 1] ELSE Append(g[i - 1], doc.parts[i])]
    <3>. HIDE DEF n, S, step
    <3>. QED  BY <1>3, <2>1, <2>2
  <2>. QED  BY <2>3
<1>6. upTo = Body(upTo)
  <2>. HIDE DEF Body
  <2>. QED  BY <1>5
<1>7. upTo[0] = <<>> /\ \A i \in 1 .. n : upTo[i - 1] \in S => upTo[i] = step[i][upTo[i - 1]]
  <2>. HIDE DEF upTo
  <2>1. \A i \in 0 .. n : upTo[i] = IF i = 0 THEN <<>>
                                    ELSE IF doc.parts[i].text = Blank THEN upTo[i - 1]
                                    ELSE Append(upTo[i - 1], doc.parts[i])
    BY <1>6
  <2>2. 0 \in 0 .. n /\ \A i \in 1 .. n : i \in 0 .. n /\ i # 0
    BY <1>1
  <2>. HIDE DEF step, S, n
  <2>. QED  BY <1>4, <2>1, <2>2
<1>8. upTo[n] \in S
  <2>. HIDE DEF upTo, n, S, step, Body
  <2>. QED  BY <1>1, <1>2, <1>7, LoopType
<1>9. ChunkDocument(doc) = IF doc.ok THEN upTo[n] ELSE <<>>
  BY DEF ChunkDocument
<1>. QED  BY <1>1, <1>8, <1>9

\* All documents are chunked one after the other.
LEMMA ChunksOfDocuments ==
    ASSUME NEW docs \in Corpora
    PROVE  ChunkDocuments(docs) \in Seq(Shown)
<1>. DEFINE seqs == [i \in DOMAIN docs |-> ChunkDocument(docs[i])]
            n == Len(seqs)
            S == Seq(Shown)
            step == [i \in 1 .. n |-> [c \in S |-> IF i = 1 THEN seqs[i] ELSE c \o seqs[i]]]
            Body(f) == [i \in 1 .. Len(seqs) |-> IF i = 1 THEN seqs[i] ELSE f[i - 1] \o seqs[i]]
            flatten == CHOOSE f : f = Body(f)
<1>1. seqs \in Seq(S) /\ n \in Nat /\ \A i \in 1 .. n : seqs[i] \in S
  <2>1. docs \in Seq(Documents) /\ \A i \in DOMAIN docs : docs[i] \in Documents
    BY RagAssumption
  <2>2. \A i \in DOMAIN docs : ChunkDocument(docs[i]) \in S
    BY <2>1, ChunksOfDocument
  <2>3. Len(docs) \in Nat /\ DOMAIN docs = 1 .. Len(docs)
    BY <2>1
  <2>. HIDE DEF S
  <2>4. seqs \in [1 .. Len(docs) -> S]
    BY <2>2, <2>3
  <2>5. seqs \in Seq(S)
    BY <2>3, <2>4
  <2>. HIDE DEF seqs
  <2>. QED  BY <2>5
<1>. HIDE DEF seqs
<1>2. <<>> \in S
  OBVIOUS
<1>3. CASE n = 0
  <2>1. seqs = <<>>
    BY <1>1, <1>3, SMTT(30)
  <2>. QED  BY <1>2, <1>3, <2>1 DEF ChunkDocuments, FlattenSeq, seqs
<1>4. CASE n # 0
  <2>1. step \in [1 .. n -> [S -> S]]
    <3>1. ASSUME NEW i \in 1 .. n, NEW c \in S PROVE (IF i = 1 THEN seqs[i] ELSE c \o seqs[i]) \in S
      BY <1>1
    <3>. HIDE DEF n, S
    <3>. QED  BY <3>1
  <2>2. PICK g \in [0 .. n -> S] : g[0] = <<>> /\ \A i \in 1 .. n : g[i] = step[i][g[i - 1]]
    <3>1. n \in Nat
      BY <1>1
    <3>. HIDE DEF n, S, step
    <3>. QED  BY <3>1, <1>2, <2>1, LoopExists
  <2>3. \A i \in 1 .. n : \A c \in S : step[i][c] = IF i = 1 THEN seqs[i] ELSE c \o seqs[i]
    <3>. HIDE DEF n, S
    <3>. QED  OBVIOUS
  <2>. DEFINE h == [i \in 1 .. n |-> g[i]]
  <2>4. h = Body(h)
    <3>1. \A i \in 1 .. n : i \in 0 .. n /\ i - 1 \in 0 .. n /\ (i # 1 => i - 1 \in 1 .. n)
      BY <1>1
    <3>2. \A i \in 1 .. n : g[i] = IF i = 1 THEN seqs[i] ELSE g[i - 1] \o seqs[i]
      <4>. HIDE DEF n, S, step
      <4>. QED  BY <2>2, <2>3, <3>1
    <3>3. \A i \in 1 .. n : h[i] = IF i = 1 THEN seqs[i] ELSE h[i - 1] \o seqs[i]
      <4>. HIDE DEF n
      <4>. QED  BY <3>1, <3>2
    <3>4. h = [i \in 1 .. n |-> IF i = 1 THEN seqs[i] ELSE h[i - 1] \o seqs[i]]
      <4>1. h = [i \in 1 .. n |-> h[i]]
        OBVIOUS
      <4>. HIDE DEF h, n
      <4>. QED  BY <3>3, <4>1
    <3>. QED  BY <3>4
  <2>5. flatten = Body(flatten)
    <3>. HIDE DEF Body, h
    <3>. QED  BY <2>4
  <2>. DEFINE f == [i \in 0 .. n |-> IF i = 0 THEN <<>> ELSE flatten[i]]
  <2>6. f[0] = <<>> /\ f[n] = flatten[n]
    BY <1>1, <1>4
  <2>7. ASSUME NEW i \in 1 .. n, f[i - 1] \in S PROVE f[i] = step[i][f[i - 1]]
    <3>. HIDE DEF flatten
    <3>1. flatten[i] = IF i = 1 THEN seqs[i] ELSE flatten[i - 1] \o seqs[i]
      BY <2>5
    <3>2. i \in 0 .. n /\ i # 0 /\ i - 1 \in 0 .. n /\ (i # 1 => i - 1 # 0)
      BY <1>1
    <3>3. f[i] = flatten[i] /\ (i # 1 => f[i - 1] = flatten[i - 1])
      <4>. HIDE DEF n
      <4>. QED  BY <3>2
    <3>4. step[i][f[i - 1]] = IF i = 1 THEN seqs[i] ELSE f[i - 1] \o seqs[i]
      <4>. HIDE DEF step, f, n, S
      <4>. QED  BY <2>3, <2>7
    <3>. QED  BY <3>1, <3>3, <3>4
  <2>8. f[n] \in S
    <3>. HIDE DEF f, n, S, step
    <3>. QED  BY <1>1, <1>2, <2>1, <2>6, <2>7, LoopType
  <2>9. ChunkDocuments(docs) = flatten[n]
    BY <1>4 DEF ChunkDocuments, FlattenSeq, seqs
  <2>. QED  BY <2>6, <2>8, <2>9
<1>. QED  BY <1>3, <1>4

-----------------------------------------------------------------------------
(* The index *)

TextsOf(cs) == [i \in DOMAIN cs |-> cs[i].text]

\* What the command has made so far fits the documents it read.
BuildInv ==
    /\ EmbedderInv
    /\ chunks \in Seq(Parts)
    /\ added \in 0 .. Len(chunks)
    /\ job \in {"none", "embed", "open", "delete", "create", "add", "done", "failed"}
    /\ reset \in BOOLEAN
    /\ job \notin {"none", "failed"} => texts = TextsOf(chunks)
    /\ job \notin {"none", "failed", "embed"} =>
           status = "embedded" /\ Len(embeddings) = Len(chunks)

CollInv ==
    /\ coll = [id |-> coll.id, there |-> coll.there, items |-> coll.items]
    /\ coll.id \in Nat /\ coll.there \in BOOLEAN
    /\ ~ coll.there => coll.items = {}
    /\ OwnVectors

IndexInv == BuildInv /\ CollInv

\* The list of texts given to the embedder.
LEMMA TextsOfChunks ==
    ASSUME NEW cs \in Seq(Parts)
    PROVE  TextsOf(cs) \in Seq(Texts) /\ Len(TextsOf(cs)) = Len(cs)
<1>1. Len(cs) \in Nat /\ DOMAIN cs = 1 .. Len(cs) /\ \A i \in 1 .. Len(cs) : cs[i] \in Parts
  BY LenProperties, ElementOfSeq
<1>2. \A i \in 1 .. Len(cs) : cs[i].text \in Texts
  BY <1>1 DEF Texts
<1>. QED  BY <1>1, <1>2 DEF TextsOf

\* Once the build has its embeddings, each is that of the chunk at its place.
LEMMA VectorsOfChunks ==
    ASSUME BuildInv, job \notin {"none", "failed", "embed"}
    PROVE  embeddings = texts /\ \A i \in DOMAIN chunks : embeddings[i] = chunks[i].text
<1>1. texts = TextsOf(chunks) /\ status = "embedded" /\ Len(embeddings) = Len(chunks)
  BY DEF BuildInv
<1>2. chunks \in Seq(Parts) /\ DOMAIN chunks = 1 .. Len(chunks) /\ Len(texts) = Len(chunks)
  BY <1>1, TextsOfChunks, LenProperties DEF BuildInv
<1>3. /\ texts \in Seq(Texts) /\ embeddings \in Seq(Texts) /\ Before = Len(texts)
      /\ Len(embeddings) = Before => \A i \in 1 .. Before : embeddings[i] = texts[i]
  BY <1>1 DEF BuildInv, EmbedderInv, Before
<1>4. \A i \in 1 .. Len(texts) : embeddings[i] = texts[i]
  BY <1>1, <1>2, <1>3
<1>5. embeddings = texts
  BY <1>1, <1>2, <1>3, <1>4, SeqEqual
<1>. QED  BY <1>1, <1>2, <1>4, <1>5 DEF TextsOf

\* The assistant starts with a well-typed, empty index.
LEMMA IndexInit == Init => IndexInv
<1>. SUFFICES ASSUME Init PROVE IndexInv
  OBVIOUS
<1>1. EmbedderInv
  BY DEF Init, EmbedderInit, EmbedderInv, InOrder, Before, Endpoints
<1>. QED  BY <1>1 DEF Init, IndexInv, BuildInv, CollInv, OwnVectors

\* A build or a question opens the collection.
LEMMA OpenKeeps == ASSUME CollInv, coll' = OpenedCollection PROVE CollInv'
<1>1. CASE coll.there
  BY <1>1 DEF OpenedCollection, CollInv, OwnVectors
<1>2. CASE ~ coll.there
  BY <1>2 DEF OpenedCollection, CollInv, OwnVectors
<1>. QED  BY <1>1, <1>2

\* Steps that leave the embedder, the chunks and the parameters alone.
LEMMA JobMoves ==
    ASSUME BuildInv, UNCHANGED <<embedderVars, chunks, reset, added>>,
           \/ job' = job
           \/ job' = "failed"
           \/ job \notin {"none", "failed", "embed"} /\ job' \in {"delete", "create", "add"}
    PROVE  BuildInv'
<1>1. EmbedderInv'
  BY DEF BuildInv, EmbedderInv, embedderVars, Before, PartFits
<1>. QED  BY <1>1 DEF BuildInv, embedderVars

\* The beginning of an indexing run keeps the invariant.
LEMMA IndexStep == ASSUME IndexInv, Index PROVE IndexInv'
<1>1. PICK docs \in Corpora : chunks' = ChunkDocuments(docs)
  BY DEF Index
<1>2. chunks' \in Seq(Parts) /\ Len(chunks') \in Nat
  <2>1. chunks' \in Seq(Shown) /\ Shown \subseteq Parts
    BY <1>1, ChunksOfDocuments DEF Shown
  <2>. QED  BY <2>1
<1>3. added' = 0 /\ reset' \in BOOLEAN /\ coll' = coll
  BY DEF Index, collVars
<1>4. CASE chunks' = <<>>
  <2>1. job' = "failed" /\ UNCHANGED embedderVars
    BY <1>4 DEF Index
  <2>2. EmbedderInv'
    BY <2>1 DEF IndexInv, BuildInv, EmbedderInv, embedderVars, Before, PartFits
  <2>. QED  BY <1>2, <1>3, <2>1, <2>2 DEF IndexInv, BuildInv, CollInv, OwnVectors
<1>5. CASE chunks' # <<>>
  <2>. DEFINE ts == TextsOf(chunks')
  <2>1. job' = "embed" /\ EmbedInBatches(ts)
    BY <1>5 DEF Index, TextsOf
  <2>2. ts \in Seq(Texts) /\ Len(ts) = Len(chunks')
    BY <1>2, TextsOfChunks
  <2>3. ts # <<>>
    BY <1>2, <1>5, <2>2, EmptySeq
  <2>4. EmbedderInv' /\ texts' = ts
    <3>. HIDE DEF ts
    <3>. QED  BY <2>1, <2>2, <2>3, StartKeeps DEF EmbedInBatches
  <2>5. texts' = TextsOf(chunks)'
    BY <2>4 DEF TextsOf
  <2>. QED  BY <1>2, <1>3, <2>1, <2>4, <2>5 DEF IndexInv, BuildInv, CollInv, OwnVectors
<1>. QED  BY <1>4, <1>5

\* Adding a batch to the collection keeps it.
LEMMA AddKeeps == ASSUME IndexInv, AddBatch PROVE IndexInv'
<1>1. /\ job = "add" /\ job' \in {"add", "done"}
      /\ UNCHANGED <<chunks, reset, embedderVars>>
      /\ added' = AddedAfter
  BY DEF AddBatch
<1>2. chunks \in Seq(Parts) /\ Len(chunks) \in Nat /\ added \in 0 .. Len(chunks)
  BY DEF IndexInv, BuildInv
<1>3. AddedAfter \in 0 .. Len(chunks)
  BY <1>2, RagAssumption DEF AddedAfter
<1>4. BuildInv'
  <2>1. EmbedderInv'
    BY <1>1 DEF IndexInv, BuildInv, EmbedderInv, embedderVars, Before, PartFits
  <2>. QED  BY <1>1, <1>3, <2>1 DEF IndexInv, BuildInv, embedderVars, TextsOf
<1>5. \A i \in DOMAIN chunks : embeddings[i] = chunks[i].text
  BY <1>1, VectorsOfChunks DEF IndexInv
<1>. DEFINE batch == {[id |-> chunks[i].id, text |-> chunks[i].text, vector |-> embeddings[i]] :
                         i \in {j \in DOMAIN chunks : added < j /\ j <= AddedAfter}}
<1>6. /\ \A c \in batch : c.vector = c.text
      /\ coll' = [coll EXCEPT !.items = Added(coll.items, batch)]
  BY <1>5 DEF AddBatch
<1>. HIDE DEF batch
<1>7. coll.there
  BY DEF AddBatch, IsLive
<1>8. coll' = [id |-> coll.id, there |-> coll.there, items |-> Added(coll.items, batch)]
  BY <1>6 DEF IndexInv, CollInv
<1>9. CollInv'
  BY <1>6, <1>7, <1>8 DEF IndexInv, CollInv, OwnVectors, Added
<1>. QED  BY <1>4, <1>9 DEF IndexInv

\* And so does every other step.
LEMMA IndexInductive == IndexInv /\ [Next]_vars => IndexInv'
<1>. SUFFICES ASSUME IndexInv, [Next]_vars PROVE IndexInv'
  OBVIOUS
<1>0. ASSUME UNCHANGED coll PROVE CollInv'
  BY <1>0 DEF IndexInv, CollInv, OwnVectors
<1>1. CASE Index
  BY <1>1, IndexStep
<1>2. CASE Embed
  <2>1. EmbedderInv'
    BY <1>2, EmbedderKeeps DEF Embed, IndexInv, BuildInv
  <2>2. job = "embed" /\ UNCHANGED <<coll, job, chunks, reset, added>>
    BY <1>2 DEF Embed, collVars, jobVars
  <2>3. texts' = texts
    BY <1>2 DEF Embed, EmbedderNext, EmbedAnswers, EmbeddingsAnswers, ReadTimeout,
                EndpointNotFound, RequestFails, Returns, Raises
  <2>4. BuildInv'
    BY <2>1, <2>2, <2>3 DEF IndexInv, BuildInv, TextsOf
  <2>. QED  BY <1>0, <2>2, <2>4 DEF IndexInv
<1>3. CASE Embedded
  <2>1. /\ job = "embed" /\ UNCHANGED <<coll, chunks, reset, added, embedderVars>>
        /\ \/ job' = "failed"
           \/ job' = "open" /\ status = "embedded" /\ Len(embeddings) = Len(chunks)
    BY <1>3 DEF Embedded, collVars
  <2>2. EmbedderInv'
    BY <2>1 DEF IndexInv, BuildInv, EmbedderInv, embedderVars, Before, PartFits
  <2>3. BuildInv'
    BY <2>1, <2>2 DEF IndexInv, BuildInv, embedderVars, TextsOf
  <2>. QED  BY <1>0, <2>1, <2>3 DEF IndexInv
<1>4. CASE OpenStore \/ CreateCollection
  <2>1. /\ coll' = OpenedCollection /\ job \in {"open", "create"} /\ job' \in {"delete", "add"}
        /\ UNCHANGED <<chunks, reset, added, embedderVars>>
    BY <1>4 DEF OpenStore, CreateCollection
  <2>. QED  BY <2>1, OpenKeeps, JobMoves DEF IndexInv
<1>5. CASE DeleteCollection
  <2>1. /\ job = "delete" /\ job' = "create" /\ UNCHANGED <<chunks, reset, added, embedderVars>>
        /\ coll' = [coll EXCEPT !.there = FALSE, !.items = {}] \/ coll' = coll
    BY <1>5 DEF DeleteCollection
  <2>2. CollInv'
    <3>1. ASSUME coll' = [coll EXCEPT !.there = FALSE, !.items = {}] PROVE CollInv'
      <4>1. coll' = [id |-> coll.id, there |-> FALSE, items |-> {}]
        BY <3>1 DEF IndexInv, CollInv
      <4>. QED  BY <4>1 DEF IndexInv, CollInv, OwnVectors
    <3>. QED  BY <1>0, <2>1, <3>1
  <2>. QED  BY <2>1, <2>2, JobMoves DEF IndexInv
<1>6. CASE AddBatch
  BY <1>6, AddKeeps
<1>7. CASE Die
  <2>1. job' = "failed" /\ UNCHANGED <<coll, chunks, reset, added, embedderVars>>
    BY <1>7 DEF Die, collVars
  <2>. QED  BY <1>0, <2>1, JobMoves DEF IndexInv
<1>8. CASE Ask
  <2>1. coll' = OpenedCollection /\ UNCHANGED <<job, chunks, reset, added, embedderVars>>
    BY <1>8 DEF Ask, jobVars
  <2>. QED  BY <2>1, OpenKeeps, JobMoves DEF IndexInv
<1>9. CASE Query \/ GetAll \/ Generate \/ Refused \/ UNCHANGED vars
  <2>1. UNCHANGED <<coll, job, chunks, reset, added, embedderVars>>
    BY <1>9 DEF Query, GetAll, Generate, Refused, collVars, jobVars, vars
  <2>. QED  BY <1>0, <2>1, JobMoves DEF IndexInv
<1>. QED  BY <1>1, <1>2, <1>3, <1>4, <1>5, <1>6, <1>7, <1>8, <1>9 DEF Next, Building, Asking

\* Every reachable state satisfies it.
LEMMA IndexInvariance == Spec => []IndexInv
<1>. HIDE DEF IndexInv
<1>. QED  BY IndexInit, IndexInductive, PTL DEF Spec

\* A collection is made only when there is none of that name, and a build deletes
\* at most one.
CountInv ==
    /\ builds \in 0 .. MaxBuilds
    /\ coll.there => coll.id >= 1
    /\ coll.id - (IF coll.there THEN 1 ELSE 0)
           <= builds - (IF job \in {"embed", "open", "delete"} THEN 1 ELSE 0)
    /\ job \in {"add", "done"} => target \in 1 .. coll.id
    /\ ask \in {"idle", "query", "get", "generate", "answered", "failed"}
    /\ ask \in {"query", "get", "generate", "answered"} => handle \in 1 .. coll.id
    /\ kept \subseteq 1 .. coll.id

\* Nothing has been counted at the beginning.
LEMMA CountInit == Init => CountInv
BY RagAssumption DEF Init, CountInv

\* Every step keeps the counts of chunks and of vectors together.
LEMMA CountInductive ==
    ASSUME IndexInv, CountInv, [Next]_vars
    PROVE  CountInv'
<1>1. /\ coll.id \in Nat /\ coll.there \in BOOLEAN /\ builds \in Nat /\ MaxBuilds \in Nat
      /\ coll = [id |-> coll.id, there |-> coll.there, items |-> coll.items]
  BY RagAssumption DEF IndexInv, CollInv, CountInv
<1>2. ASSUME coll' = OpenedCollection
      PROVE  /\ coll'.there /\ coll'.id \in Nat /\ coll'.id >= 1 /\ coll.id <= coll'.id
             /\ coll'.id - 1 <= coll.id - (IF coll.there THEN 1 ELSE 0)
  <2>1. CASE coll.there
    BY <1>1, <1>2, <2>1 DEF OpenedCollection, CountInv
  <2>2. CASE ~ coll.there
    <3>1. coll'.there /\ coll'.id = coll.id + 1
      BY <1>2, <2>2 DEF OpenedCollection
    <3>. QED  BY <1>1, <2>2, <3>1
  <2>. QED  BY <1>1, <2>1, <2>2
<1>3. ASSUME NEW n \in Nat, coll.id <= n PROVE \A k \in 1 .. coll.id : k \in 1 .. n
  BY <1>1, <1>3
<1>4. CASE Index
  <2>1. /\ builds < MaxBuilds /\ builds' = builds + 1 /\ job' \in {"failed", "embed"}
        /\ job \in {"none", "done", "failed"}
        /\ UNCHANGED <<coll, kept, ask, handle>>
    BY <1>4 DEF Index, collVars, askVars
  <2>. QED  BY <1>1, <2>1 DEF CountInv
<1>5. CASE Embed \/ Embedded \/ Die \/ UNCHANGED vars
  <2>1. /\ UNCHANGED <<coll, kept, builds, target, ask, handle>>
        /\ \/ job' = job \/ job' = "failed"
           \/ job = "embed" /\ job' = "open"
    BY <1>5 DEF Embed, Embedded, Die, collVars, jobVars, askVars, vars
  <2>. QED  BY <1>1, <2>1 DEF CountInv
<1>6. CASE OpenStore \/ CreateCollection
  <2>1. /\ coll' = OpenedCollection /\ target' = coll'.id
        /\ UNCHANGED <<kept, builds, ask, handle>>
        /\ \/ job = "open" /\ job' \in {"delete", "add"}
           \/ job = "create" /\ job' = "add"
    BY <1>6 DEF OpenStore, CreateCollection, askVars
  <2>. QED  BY <1>1, <1>2, <1>3, <2>1 DEF CountInv
<1>7. CASE DeleteCollection
  <2>1. /\ job = "delete" /\ job' = "create" /\ UNCHANGED <<kept, builds, ask, handle>>
        /\ coll'.id = coll.id
        /\ coll' = coll \/ ~ coll'.there
    <3>1. ASSUME coll' = [coll EXCEPT !.there = FALSE, !.items = {}]
          PROVE  coll' = [id |-> coll.id, there |-> FALSE, items |-> {}]
      BY <1>1, <3>1
    <3>. QED  BY <1>7, <3>1 DEF DeleteCollection, askVars
  <2>. QED  BY <1>1, <2>1 DEF CountInv
<1>8. CASE AddBatch
  <2>1. /\ job = "add" /\ job' \in {"add", "done"} /\ UNCHANGED <<target, builds, ask, handle>>
        /\ coll'.id = coll.id /\ coll'.there = coll.there
        /\ kept' = kept \/ kept' = kept \cup {target}
    <3>1. ASSUME NEW new, coll' = [coll EXCEPT !.items = new]
          PROVE  coll' = [id |-> coll.id, there |-> coll.there, items |-> new]
      BY <1>1, <3>1
    <3>. QED  BY <1>8, <3>1 DEF AddBatch, askVars
  <2>. QED  BY <1>1, <2>1 DEF CountInv
<1>9. CASE Ask
  <2>1. /\ coll' = OpenedCollection /\ handle' = coll'.id /\ ask' = "query"
        /\ UNCHANGED <<kept, job, builds, target>>
    BY <1>9 DEF Ask, jobVars
  <2>. QED  BY <1>1, <1>2, <1>3, <2>1 DEF CountInv
<1>10. CASE Query \/ GetAll \/ Generate \/ Refused
  <2>1. /\ UNCHANGED <<coll, kept, job, builds, target, handle>>
        /\ ask \in {"query", "get", "generate"}
        /\ ask' \in {"get", "generate", "answered", "failed"}
    BY <1>10 DEF Query, GetAll, Generate, Refused, Prompted, AskFails, collVars, jobVars
  <2>. QED  BY <2>1 DEF CountInv
<1>. QED  BY <1>4, <1>5, <1>6, <1>7, <1>8, <1>9, <1>10 DEF Next, Building, Asking

\* Type correctness, with the bound on the number of collections.
THEOREM IndexTypeCorrect == Spec => []TypeOK
<1>1. IndexInv /\ CountInv => TypeOK
  <2>. SUFFICES ASSUME IndexInv, CountInv PROVE TypeOK
    OBVIOUS
  <2>1. EmbedderTypeOK
    <3>1. \A i \in DOMAIN pending : /\ pending[i].from \in DOMAIN texts
                                    /\ pending[i].to \in pending[i].from .. Len(texts)
      <4>. SUFFICES ASSUME NEW i \in DOMAIN pending
                    PROVE  /\ pending[i].from \in DOMAIN texts
                           /\ pending[i].to \in pending[i].from .. Len(texts)
        OBVIOUS
      <4>1. /\ texts \in Seq(Texts) /\ DOMAIN texts = 1 .. Len(texts) /\ Len(texts) \in Nat
            /\ pending \in Seq(Slice) /\ i \in 1 .. Len(pending)
        BY LenProperties DEF IndexInv, BuildInv, EmbedderInv, InOrder
      <4>2. /\ pending[i] \in Slice
            /\ pending[i].from <= pending[i].to /\ pending[i].to <= Len(texts)
        BY <4>1, ElementOfSeq DEF IndexInv, BuildInv, EmbedderInv, InOrder
      <4>. QED  BY <4>1, <4>2 DEF Slice
    <3>. QED  BY <3>1 DEF IndexInv, BuildInv, EmbedderInv, PartFits, EmbedderTypeOK
  <2>2. coll.id \in 0 .. MaxBuilds + 1
    BY RagAssumption DEF IndexInv, CollInv, CountInv
  <2>. QED  BY <2>1, <2>2 DEF IndexInv, BuildInv, CollInv, CountInv, TypeOK
<1>2. IndexInv /\ CountInv /\ [Next]_vars => CountInv'
  BY CountInductive
<1>. HIDE DEF IndexInv, CountInv
<1>. QED  BY <1>1, <1>2, CountInit, IndexInvariance, PTL DEF Spec

\* However batches are cut, halved, retried or answered in part, every chunk in
\* the index carries the embedding of its own text.
THEOREM VectorsAreOwn == Spec => []OwnVectors
<1>1. IndexInv => OwnVectors
  BY DEF IndexInv, CollInv
<1>. QED  BY <1>1, IndexInvariance, PTL

\* Nothing but the deletion of the collection takes a chunk out of the index.
LEMMA OnlyDeletionRemoves ==
    ASSUME IndexInv, [Next]_vars, ~ coll.items \subseteq coll'.items
    PROVE  job = "delete"
<1>1. ASSUME coll' = OpenedCollection PROVE FALSE
  BY <1>1 DEF OpenedCollection, IndexInv, CollInv
<1>2. coll' # coll
  OBVIOUS
<1>3. ~ (OpenStore \/ CreateCollection \/ Ask)
  BY <1>1 DEF OpenStore, CreateCollection, Ask
<1>4. ~ AddBatch
  <2>1. ASSUME NEW batch, coll' = [coll EXCEPT !.items = Added(coll.items, batch)]
        PROVE  FALSE
    <3>1. coll'.items = Added(coll.items, batch)
      BY <2>1 DEF IndexInv, CollInv
    <3>. QED  BY <3>1 DEF Added
  <2>. QED  BY <2>1 DEF AddBatch
<1>5. DeleteCollection
  BY <1>2, <1>3, <1>4 DEF Next, Building, Asking, Index, Embed, Embedded, Die, Query, GetAll,
                          Generate, Refused, collVars, vars
<1>. QED  BY <1>5 DEF DeleteCollection

\* No step takes a chunk out of the index unless the build has the embeddings of
\* all texts of the new one, in their order.
THEOREM OldIndexSurvives == Spec => OldIndexKeptUntilEmbedded
<1>1. IndexInv /\ [Next]_vars =>
        [~ coll.items \subseteq coll'.items => status = "embedded" /\ embeddings = texts]_vars
  BY OnlyDeletionRemoves, VectorsOfChunks DEF IndexInv, BuildInv
<1>. QED  BY <1>1, IndexInvariance, PTL DEF Spec, OldIndexKeptUntilEmbedded

-----------------------------------------------------------------------------
(* Rebuilding *)

\* No two chunks of the documents have the same id.
UniqueIds ==
    \A docs \in Corpora : \A i, j \in DOMAIN ChunkDocuments(docs) :
       ChunkDocuments(docs)[i].id = ChunkDocuments(docs)[j].id => i = j

Stored(n) ==
    {[id |-> chunks[i].id, text |-> chunks[i].text, vector |-> chunks[i].text] :
        i \in {j \in DOMAIN chunks : j <= n}}

\* From the deletion of the old index on, the collection holds the chunks added
\* so far and nothing else.
RebuildInv ==
    /\ \A i, j \in DOMAIN chunks : chunks[i].id = chunks[j].id => i = j
    /\ job \in {"embed", "open", "delete", "create"} => added = 0
    /\ job = "done" => added = Len(chunks)
    /\ reset /\ job = "create" => coll.items = {}
    /\ reset /\ job \in {"add", "done"} => IsLive(target) /\ coll.items = Stored(added)

\* No rebuild has ended at the beginning.
LEMMA RebuildInit == Init => RebuildInv
BY DEF Init, RebuildInv

\* The last batch makes the collection whole.
LEMMA AddCompletes ==
    ASSUME IndexInv, RebuildInv, AddBatch
    PROVE  RebuildInv'
<1>1. /\ job = "add" /\ job' = IF AddedAfter >= Len(chunks) THEN "done" ELSE "add"
      /\ UNCHANGED <<chunks, reset, target>>
      /\ added' = AddedAfter /\ IsLive(target)
  BY DEF AddBatch
<1>2. \A i \in DOMAIN chunks : i \in Nat
  BY LenProperties DEF IndexInv, BuildInv
<1>3. /\ added \in Nat /\ AddedAfter \in Nat /\ added <= AddedAfter
      /\ AddedAfter >= Len(chunks) => AddedAfter = Len(chunks)
  <2>1. Len(chunks) \in Nat /\ added \in 0 .. Len(chunks) /\ DbBatchSize \in Nat \ {0}
    BY RagAssumption, LenProperties DEF IndexInv, BuildInv
  <2>2. CASE added + DbBatchSize < Len(chunks)
    BY <2>1, <2>2 DEF AddedAfter
  <2>3. CASE ~ (added + DbBatchSize < Len(chunks))
    BY <2>1, <2>3 DEF AddedAfter
  <2>. QED  BY <2>2, <2>3
<1>4. \A i \in DOMAIN chunks : embeddings[i] = chunks[i].text
  BY <1>1, VectorsOfChunks DEF IndexInv
<1>. DEFINE batch == {[id |-> chunks[i].id, text |-> chunks[i].text, vector |-> embeddings[i]] :
                         i \in {j \in DOMAIN chunks : added < j /\ j <= AddedAfter}}
<1>5. coll' = [id |-> coll.id, there |-> coll.there, items |-> Added(coll.items, batch)]
  <2>1. coll' = [coll EXCEPT !.items = Added(coll.items, batch)]
    BY DEF AddBatch
  <2>. HIDE DEF batch
  <2>. QED  BY <2>1 DEF IndexInv, CollInv
<1>6. ASSUME reset PROVE coll'.items = Stored(AddedAfter)
  <2>1. coll.items = Stored(added)
    BY <1>1, <1>6 DEF RebuildInv
  <2>2. \A c \in batch : \A s \in Stored(added) : s.id # c.id
    <3>. SUFFICES ASSUME NEW c \in batch, NEW s \in Stored(added), s.id = c.id PROVE FALSE
      OBVIOUS
    <3>1. PICK i \in DOMAIN chunks : added < i /\ c.id = chunks[i].id
      <4>1. PICK i \in {j \in DOMAIN chunks : added < j /\ j <= AddedAfter} :
                c = [id |-> chunks[i].id, text |-> chunks[i].text, vector |-> embeddings[i]]
        OBVIOUS
      <4>. QED  BY <4>1
    <3>2. PICK j \in DOMAIN chunks : j <= added /\ s.id = chunks[j].id
      BY DEF Stored
    <3>3. i = j
      BY <3>1, <3>2 DEF RebuildInv
    <3>4. i \in Nat /\ added \in Nat
      BY <1>2, <1>3, <3>1
    <3>. QED  BY <3>1, <3>2, <3>3, <3>4
  <2>3. batch \cup Stored(added) = Stored(AddedAfter)
    <3>1. \A i \in DOMAIN chunks : i <= AddedAfter <=> i <= added \/ (added < i /\ i <= AddedAfter)
      BY <1>2, <1>3
    <3>2. batch = {[id |-> chunks[i].id, text |-> chunks[i].text, vector |-> chunks[i].text] :
                     i \in {j \in DOMAIN chunks : added < j /\ j <= AddedAfter}}
      BY <1>4
    <3>. QED  BY <3>1, <3>2 DEF Stored
  <2>. QED  BY <1>5, <2>1, <2>2, <2>3 DEF Added
<1>7. IsLive(target)'
  BY <1>1, <1>5 DEF IsLive
<1>8. Stored(added)' = Stored(AddedAfter)
  BY <1>1 DEF Stored
<1>. QED  BY <1>1, <1>3, <1>6, <1>7, <1>8 DEF RebuildInv

\* Questions open the collection meanwhile, but put nothing into it.
LEMMA RebuildInductive ==
    ASSUME UniqueIds, Faults = {}, IndexInv, RebuildInv, [Next]_vars
    PROVE  RebuildInv'
<1>1. ASSUME UNCHANGED <<coll, chunks, reset, target, added>>, job' = job \/ job' = "failed"
      PROVE  RebuildInv'
  BY <1>1 DEF RebuildInv, Stored, IsLive
<1>2. CASE Index
  <2>1. PICK docs \in Corpora : chunks' = ChunkDocuments(docs)
    BY <1>2 DEF Index
  <2>2. added' = 0 /\ job' \in {"failed", "embed"}
    BY <1>2 DEF Index
  <2>3. \A i, j \in DOMAIN chunks' : chunks'[i].id = chunks'[j].id => i = j
    BY <2>1 DEF UniqueIds
  <2>. QED  BY <2>2, <2>3 DEF RebuildInv
<1>3. CASE Embed \/ Die \/ Query \/ GetAll \/ Generate \/ Refused \/ UNCHANGED vars
  <2>1. UNCHANGED <<coll, chunks, reset, target, added>> /\ (job' = job \/ job' = "failed")
    BY <1>3 DEF Embed, Die, Query, GetAll, Generate, Refused, collVars, jobVars, vars
  <2>. QED  BY <1>1, <2>1
<1>4. CASE Embedded
  <2>1. /\ job = "embed" /\ job' \in {"open", "failed"}
        /\ UNCHANGED <<coll, chunks, reset, target, added>>
    BY <1>4 DEF Embedded, collVars
  <2>. QED  BY <2>1 DEF RebuildInv
<1>5. CASE OpenStore
  <2>1. /\ job = "open" /\ job' = IF reset THEN "delete" ELSE "add"
        /\ UNCHANGED <<chunks, reset, added>>
    BY <1>5 DEF OpenStore
  <2>. QED  BY <2>1 DEF RebuildInv
<1>6. CASE DeleteCollection
  <2>1. /\ job = "delete" /\ job' = "create" /\ UNCHANGED <<chunks, reset, added>>
        /\ coll' = [coll EXCEPT !.there = FALSE, !.items = {}]
    BY <1>6 DEF DeleteCollection
  <2>2. coll' = [id |-> coll.id, there |-> FALSE, items |-> {}]
    BY <2>1 DEF IndexInv, CollInv
  <2>. QED  BY <2>1, <2>2 DEF RebuildInv
<1>7. CASE CreateCollection
  <2>1. /\ job = "create" /\ job' = "add" /\ UNCHANGED <<chunks, reset, added>>
        /\ coll' = OpenedCollection /\ target' = coll'.id
    BY <1>7 DEF CreateCollection
  <2>2. coll'.there /\ (reset => coll'.items = {})
    BY <2>1 DEF RebuildInv, OpenedCollection, IndexInv, CollInv
  <2>3. added = 0 /\ chunks \in Seq(Parts)
    BY <2>1 DEF RebuildInv, IndexInv, BuildInv
  <2>4. Stored(added)' = {}
    BY <2>1, <2>3, LenProperties DEF Stored
  <2>. QED  BY <2>1, <2>2, <2>4 DEF RebuildInv, IsLive
<1>8. CASE AddBatch
  BY <1>8, AddCompletes
<1>9. CASE Ask
  <2>1. coll' = OpenedCollection /\ UNCHANGED <<job, chunks, reset, target, added>>
    BY <1>9 DEF Ask, jobVars
  <2>2. CASE coll.there
    BY <1>1, <2>1, <2>2 DEF OpenedCollection
  <2>3. CASE ~ coll.there
    <3>1. coll'.items = {}
      BY <2>1, <2>3 DEF OpenedCollection
    <3>2. reset => job \notin {"add", "done"}
      BY <2>3 DEF RebuildInv, IsLive
    <3>. QED  BY <2>1, <3>1, <3>2 DEF RebuildInv
  <2>. QED  BY <2>2, <2>3
<1>. QED  BY <1>2, <1>3, <1>4, <1>5, <1>6, <1>7, <1>8, <1>9 DEF Next, Building, Asking

\* When deleting the collection does not fail and no two chunks have the same id,
\* a rebuild that succeeds leaves exactly the chunks of the documents it read,
\* whatever was in the index and whoever opens the collection meanwhile.
THEOREM RebuildsAreWhole ==
    ASSUME UniqueIds, Faults = {}
    PROVE  Spec => []RebuildIsWhole
<1>1. IndexInv /\ RebuildInv => RebuildIsWhole
  <2>. SUFFICES ASSUME IndexInv, RebuildInv, job = "done", reset
                PROVE  /\ IsLive(target)
                       /\ coll.items = {[id |-> c.id, text |-> c.text, vector |-> c.text] :
                                           c \in Range(chunks)}
    BY DEF RebuildIsWhole
  <2>1. IsLive(target) /\ coll.items = Stored(Len(chunks))
    BY DEF RebuildInv
  <2>2. DOMAIN chunks = 1 .. Len(chunks) /\ Len(chunks) \in Nat
    BY LenProperties DEF IndexInv, BuildInv
  <2>3. \A j \in DOMAIN chunks : j <= Len(chunks)
    BY <2>2
  <2>. QED  BY <2>1, <2>3 DEF Stored, Range
<1>2. IndexInv /\ RebuildInv /\ [Next]_vars => RebuildInv'
  BY RebuildInductive
<1>. HIDE DEF RebuildInv, IndexInv
<1>. QED  BY <1>1, <1>2, RebuildInit, IndexInvariance, PTL DEF Spec

-----------------------------------------------------------------------------
(* Questions *)

\* The prompt has the chunks of the ranks 1 .. n, each with its rank.
InRankOrder(blocks) ==
    \E n \in Nat : \E r : blocks = {[number |-> i, chunk |-> r[i]] : i \in 1 .. n}

\* Blocks numbered by rank keep their numbers when they are numbered anew.
LEMMA NumberedAnew ==
    ASSUME NEW blocks, InRankOrder(blocks)
    PROVE  SourceList(blocks) = blocks
<1>1. PICK n \in Nat : \E r : blocks = {[number |-> i, chunk |-> r[i]] : i \in 1 .. n}
  BY DEF InRankOrder
<1>2. PICK r : blocks = {[number |-> i, chunk |-> r[i]] : i \in 1 .. n}
  BY <1>1
<1>3. ASSUME NEW k \in 1 .. n
      PROVE  Cardinality({d \in blocks : d.number <= k}) = k
  <2>. DEFINE upTo == {d \in blocks : d.number <= k}
              f == [i \in 1 .. k |-> [number |-> i, chunk |-> r[i]]]
  <2>1. k \in Nat /\ \A i \in 1 .. k : i \in 1 .. n
    OBVIOUS
  <2>2. \A i \in 1 .. k : f[i] \in upTo
    <3>. SUFFICES ASSUME NEW i \in 1 .. k PROVE f[i] \in upTo
      OBVIOUS
    <3>1. f[i] = [number |-> i, chunk |-> r[i]] /\ i <= k
      OBVIOUS
    <3>2. f[i] \in blocks /\ f[i].number = i
      BY <1>2, <2>1, <3>1
    <3>. HIDE DEF f
    <3>. QED  BY <3>1, <3>2
  <2>3. \A d \in upTo : \E i \in 1 .. k : f[i] = d
    <3>. SUFFICES ASSUME NEW d \in upTo PROVE \E i \in 1 .. k : f[i] = d
      OBVIOUS
    <3>1. PICK i \in 1 .. n : d = [number |-> i, chunk |-> r[i]]
      BY <1>2
    <3>2. i <= k
      BY <3>1
    <3>3. i \in 1 .. k
      BY <3>2
    <3>. QED  BY <3>1, <3>3
  <2>4. \A i, j \in 1 .. k : f[i] = f[j] => i = j
    <3>. SUFFICES ASSUME NEW i \in 1 .. k, NEW j \in 1 .. k, f[i] = f[j] PROVE i = j
      OBVIOUS
    <3>1. f[i].number = i /\ f[j].number = j
      OBVIOUS
    <3>. HIDE DEF f
    <3>. QED  BY <3>1
  <2>5. f \in [1 .. k -> upTo]
    <3>1. f = [i \in 1 .. k |-> f[i]]
      OBVIOUS
    <3>. HIDE DEF f, upTo
    <3>. QED  BY <2>2, <3>1
  <2>6. ExistsBijection(1 .. k, upTo)
    <3>. HIDE DEF f, upTo
    <3>1. DOMAIN f = 1 .. k
      BY <2>5
    <3>2. IsInjective(f)
      BY <2>4, <3>1 DEF IsInjective
    <3>3. f \in Bijection(1 .. k, upTo)
      BY <2>3, <2>5, <3>2 DEF Bijection, Injection, Surjection
    <3>. QED  BY <3>3 DEF ExistsBijection
  <2>7. Cardinality(upTo) = k
    <3>. HIDE DEF upTo
    <3>. QED  BY <2>1, <2>6, FS_CountingElements
  <2>. QED  BY <2>7
<1>4. ASSUME NEW b \in blocks
      PROVE  [number |-> Cardinality({d \in blocks : d.number <= b.number}), chunk |-> b.chunk] = b
  <2>1. PICK k \in 1 .. n : b = [number |-> k, chunk |-> r[k]]
    BY <1>2
  <2>2. b.number = k /\ b.chunk = r[k]
    BY <2>1
  <2>. QED  BY <1>3, <2>1, <2>2
<1>. QED  BY <1>4 DEF SourceList

\* build_rag_prompt leaves none of the first ranks out, unless it finds a blank chunk.
LEMMA UsedInRankOrder ==
    ASSUME NEW candidates, IsFiniteSet(candidates), \A c \in candidates : c.text # Blank,
           NEW ranked \in Ranked(candidates)
    PROVE  /\ InRankOrder(UsedChunks(ranked))
           /\ \A b \in UsedChunks(ranked) : b.chunk \in candidates
<1>. DEFINE L == Least(TopK, Cardinality(candidates))
            shown == {i \in DOMAIN ranked : ranked[i].text # Blank}
            upTo(i) == {j \in shown : j <= i}
            cost == [i \in DOMAIN ranked |-> Cost[ranked[i].text]]
            fit == {i \in DOMAIN ranked : SumFunctionOnSet(cost, upTo(i)) <= MaxContext}
            whole == {k \in 0 .. L : \A i \in 1 .. k : i \in fit}
            used == {k \in shown : \A j \in upTo(k) : SumFunctionOnSet(cost, upTo(j)) <= MaxContext}
<1>1. L \in Nat /\ ranked \in [1 .. L -> candidates]
  BY RagAssumption, FS_CardinalityType DEF Least, Ranked
<1>. HIDE DEF L
<1>2. shown = 1 .. L
  BY <1>1
<1>3. DOMAIN ranked = 1 .. L
  BY <1>1
<1>4. used = {k \in 1 .. L : \A j \in 1 .. L : j <= k => j \in fit}
  BY <1>2, <1>3
<1>. HIDE DEF fit
<1>5. PICK m \in whole : \A k \in whole : k <= m
  <2>1. 0 \in whole /\ whole \in SUBSET (0 .. L)
    BY <1>1
  <2>. HIDE DEF whole
  <2>. QED  BY <1>1, <2>1, GreatestMember
<1>6. used = 1 .. m
  <2>. HIDE DEF used
  <2>1. m \in 0 .. L /\ \A i \in 1 .. m : i \in fit
    BY <1>5
  <2>2. ASSUME NEW k \in 1 .. m PROVE k \in used
    <3>1. k \in 1 .. L /\ \A j \in 1 .. L : j <= k => j \in 1 .. m
      BY <1>1, <2>1
    <3>. QED  BY <1>4, <2>1, <3>1
  <2>3. ASSUME NEW k \in used PROVE k \in 1 .. m
    <3>1. k \in 1 .. L /\ k \in 0 .. L /\ \A j \in 1 .. k : j \in 1 .. L /\ j <= k
      BY <1>1, <1>4
    <3>2. k \in whole
      BY <1>4, <3>1
    <3>. QED  BY <1>5, <2>1, <3>1, <3>2
  <2>. QED  BY <2>2, <2>3
<1>7. UsedChunks(ranked) = {[number |-> i, chunk |-> ranked[i]] : i \in used}
  BY DEF UsedChunks
<1>8. m \in Nat /\ \A i \in 1 .. m : ranked[i] \in candidates
  BY <1>1, <1>5
<1>. HIDE DEF used
<1>9. UsedChunks(ranked) = {[number |-> i, chunk |-> ranked[i]] : i \in 1 .. m}
  BY <1>6, <1>7
<1>. QED  BY <1>8, <1>9 DEF InRankOrder

\* The image of a finite set is finite.
LEMMA ImageFinite ==
    ASSUME NEW S, IsFiniteSet(S), NEW f, f = [x \in S |-> f[x]]
    PROVE  IsFiniteSet({f[x] : x \in S})
<1>. DEFINE T == {f[x] : x \in S}
<1>1. f \in Surjection(S, T)
  BY DEF Surjection
<1>. HIDE DEF T
<1>2. IsFiniteSet(T)
  BY <1>1, FS_Surjection
<1>. QED  BY <1>2 DEF T

\* What a question is answered from is in the candidates.
LEMMA PromptedFrom ==
    ASSUME NEW cs, IsFiniteSet(cs), \A c \in cs : c.text # Blank, Prompted(cs)
    PROVE  ask' = "generate" /\ InRankOrder(prompt') /\ \A b \in prompt' : b.chunk \in cs
BY UsedInRankOrder DEF Prompted

\* A semantic search returns some of the items.
LEMMA NearItems ==
    ASSUME NEW items, IsFiniteSet(items), NEW near \in Best(items),
           NEW cs, cs = {Candidate(i, i.vector) : i \in near}
    PROVE  /\ IsFiniteSet(cs)
           /\ \A c \in cs : \E i \in items : c.id = i.id /\ c.text = i.text /\ c.near = i.vector
<1>1. near \subseteq items
  BY DEF Best, kSubset
<1>2. IsFiniteSet(cs)
  <2>. DEFINE f == [i \in near |-> Candidate(i, i.vector)]
  <2>1. IsFiniteSet(near)
    BY <1>1, FS_Subset
  <2>2. f = [i \in near |-> f[i]] /\ cs = {f[i] : i \in near}
    OBVIOUS
  <2>. HIDE DEF f
  <2>3. IsFiniteSet({f[i] : i \in near})
    BY <2>1, <2>2, ImageFinite
  <2>. QED  BY <2>2, <2>3
<1>. QED  BY <1>1, <1>2 DEF Candidate

\* The two searches merged: a candidate of the first one, or an item, with the
\* distance that the first one found for its id, if any.
LEMMA MergedItems ==
    ASSUME NEW items, IsFiniteSet(items), NEW best \in Best(items),
           NEW near, IsFiniteSet(near),
           NEW cs, cs = Merged(near, {Candidate(i, None) : i \in best})
    PROVE  /\ IsFiniteSet(cs)
           /\ \A c \in cs : \/ c \in near
                            \/ \E i \in items :
                                  /\ c.id = i.id /\ c.text = i.text
                                  /\ c.near = None \/ \E s \in near : s.id = i.id /\ c.near = s.near
<1>. DEFINE lexical == {Candidate(i, None) : i \in best}
            given(l) == IF \E s \in near : s.id = l.id
                        THEN [l EXCEPT !.near = (CHOOSE s \in near : s.id = l.id).near]
                        ELSE l
            first == {given(l) : l \in lexical}
            rest == {s \in near : \A l \in lexical : l.id # s.id}
<1>1. best \subseteq items
  BY DEF Best, kSubset
<1>2. cs = first \cup rest
  BY DEF Merged
<1>3. IsFiniteSet(cs)
  <2>1. IsFiniteSet(best)
    BY <1>1, FS_Subset
  <2>. DEFINE f == [i \in best |-> given(Candidate(i, None))]
  <2>2. f = [i \in best |-> f[i]] /\ first = {f[i] : i \in best}
    <3>. HIDE DEF given
    <3>. QED  OBVIOUS
  <2>3. rest \in SUBSET near
    OBVIOUS
  <2>. HIDE DEF f, first, rest
  <2>4. IsFiniteSet(first)
    BY <2>1, <2>2, ImageFinite
  <2>. QED  BY <1>2, <2>3, <2>4, FS_Subset, FS_Union
<1>4. ASSUME NEW i \in best
      PROVE  LET c == given(Candidate(i, None))
             IN  /\ c.id = i.id /\ c.text = i.text
                 /\ c.near = None \/ \E s \in near : s.id = i.id /\ c.near = s.near
  BY DEF Candidate
<1>5. ASSUME NEW c \in first
      PROVE  \E i \in items :
                /\ c.id = i.id /\ c.text = i.text
                /\ c.near = None \/ \E s \in near : s.id = i.id /\ c.near = s.near
  <2>1. PICK i \in best : c = given(Candidate(i, None))
    <3>. HIDE DEF given
    <3>. QED  OBVIOUS
  <2>. HIDE DEF given
  <2>. QED  BY <1>1, <1>4, <2>1
<1>. HIDE DEF first
<1>. QED  BY <1>2, <1>3, <1>5

\* No chunk is blank; and the prompt numbers its blocks by their ranks.
ShownInv ==
    /\ \A i \in DOMAIN chunks : chunks[i].text # Blank
    /\ IsFiniteSet(coll.items) /\ \A c \in coll.items : c.text # Blank
    /\ IsFiniteSet(semantic) /\ \A c \in semantic : c.text # Blank
    /\ ask = "generate" => InRankOrder(prompt)
    /\ SourcesMatch

\* Nothing is shown at the beginning.
LEMMA ShownInit == Init => ShownInv
BY FS_EmptySet DEF Init, ShownInv, SourcesMatch

\* A batch adds finitely many chunks, none of them blank.
LEMMA AddShows == ASSUME IndexInv, ShownInv, AddBatch PROVE ShownInv'
<1>. DEFINE places == {j \in DOMAIN chunks : added < j /\ j <= AddedAfter}
            f == [i \in places |->
                    [id |-> chunks[i].id, text |-> chunks[i].text, vector |-> embeddings[i]]]
            batch == {f[i] : i \in places}
<1>1. coll' = [coll EXCEPT !.items = Added(coll.items, batch)]
  BY DEF AddBatch
<1>2. IsFiniteSet(places)
  <2>1. DOMAIN chunks = 1 .. Len(chunks) /\ Len(chunks) \in Nat
    BY LenProperties DEF IndexInv, BuildInv
  <2>2. IsFiniteSet(1 .. Len(chunks))
    BY <2>1, FS_Interval
  <2>3. places \in SUBSET (1 .. Len(chunks))
    BY <2>1
  <2>. HIDE DEF places
  <2>. QED  BY <2>2, <2>3, FS_Subset
<1>3. IsFiniteSet(batch)
  <2>1. f = [i \in places |-> f[i]]
    OBVIOUS
  <2>. HIDE DEF f, places
  <2>. QED  BY <1>2, <2>1, ImageFinite
<1>4. \A c \in batch : c.text # Blank
  BY DEF ShownInv
<1>. HIDE DEF batch
<1>5. coll'.items = Added(coll.items, batch)
  BY <1>1 DEF IndexInv, CollInv
<1>6. IsFiniteSet(coll'.items) /\ \A c \in coll'.items : c.text # Blank
  <2>. DEFINE new == {c \in batch : \A i \in coll.items : i.id # c.id}
  <2>1. coll'.items = coll.items \cup new
    BY <1>5 DEF Added
  <2>2. new \in SUBSET batch
    OBVIOUS
  <2>3. \A c \in new : c.text # Blank
    BY <1>4
  <2>. HIDE DEF new
  <2>4. IsFiniteSet(coll'.items)
    BY <1>3, <2>1, <2>2, FS_Subset, FS_Union DEF ShownInv
  <2>. QED  BY <2>1, <2>3, <2>4 DEF ShownInv
<1>7. UNCHANGED <<chunks, askVars>>
  BY DEF AddBatch
<1>. QED  BY <1>6, <1>7 DEF ShownInv, SourcesMatch, askVars

\* Every step keeps the sources numbered as the prompt numbers them.
LEMMA ShownInductive ==
    ASSUME IndexInv, ShownInv, [Next]_vars
    PROVE  ShownInv'
<1>1. ASSUME coll'.items = coll.items \/ coll'.items = {}, UNCHANGED <<chunks, askVars>>
      PROVE  ShownInv'
  BY <1>1, FS_EmptySet DEF ShownInv, SourcesMatch, askVars
<1>2. CASE Index
  <2>1. PICK docs \in Corpora : chunks' = ChunkDocuments(docs)
    BY <1>2 DEF Index
  <2>2. chunks' \in Seq(Shown)
    BY <2>1, ChunksOfDocuments
  <2>3. \A i \in DOMAIN chunks' : chunks'[i].text # Blank
    BY <2>2 DEF Shown
  <2>4. UNCHANGED <<coll, askVars>>
    BY <1>2 DEF Index, collVars
  <2>. QED  BY <2>3, <2>4 DEF ShownInv, SourcesMatch, askVars
<1>3. CASE Embed \/ Embedded \/ Die \/ UNCHANGED vars
  BY <1>1, <1>3 DEF Embed, Embedded, Die, collVars, jobVars, askVars, vars
<1>4. ASSUME coll' = OpenedCollection PROVE coll'.items = coll.items \/ coll'.items = {}
  BY <1>4 DEF OpenedCollection
<1>5. CASE OpenStore \/ CreateCollection
  BY <1>1, <1>4, <1>5 DEF OpenStore, CreateCollection
<1>6. CASE DeleteCollection
  <2>1. ASSUME coll' = [coll EXCEPT !.there = FALSE, !.items = {}] PROVE coll'.items = {}
    <3>1. coll' = [id |-> coll.id, there |-> FALSE, items |-> {}]
      BY <2>1 DEF IndexInv, CollInv
    <3>. QED  BY <3>1
  <2>. QED  BY <1>1, <1>6, <2>1 DEF DeleteCollection
<1>7. CASE AddBatch
  BY <1>7, AddShows
<1>8. CASE Ask
  <2>1. coll'.items = coll.items \/ coll'.items = {}
    BY <1>4, <1>8 DEF Ask
  <2>2. ask' = "query" /\ semantic' = {} /\ chunks' = chunks
    BY <1>8 DEF Ask, jobVars
  <2>. QED  BY <2>1, <2>2, FS_EmptySet DEF ShownInv, SourcesMatch
<1>9. ASSUME AskFails, UNCHANGED <<coll, chunks>> PROVE ShownInv'
  BY <1>9 DEF AskFails, ShownInv, SourcesMatch
<1>10. CASE Query
  <2>1. UNCHANGED <<coll, chunks, sources>>
    BY <1>10 DEF Query, collVars, jobVars
  <2>2. CASE IsLive(handle)
    <3>1. PICK near \in Best(coll.items) : semantic' = {Candidate(i, i.vector) : i \in near}
      BY <1>10, <2>2 DEF Query
    <3>. DEFINE cs == {Candidate(i, i.vector) : i \in near}
    <3>0. IsFiniteSet(cs) /\ \A c \in cs : \E i \in coll.items : c.text = i.text
      <4>. HIDE DEF cs
      <4>1. cs = {Candidate(i, i.vector) : i \in near} /\ IsFiniteSet(coll.items)
        BY DEF cs, ShownInv
      <4>. QED  BY <4>1, NearItems
    <3>2. /\ IsFiniteSet(semantic')
          /\ \A c \in semantic' : \E i \in coll.items : c.text = i.text
      BY <3>0, <3>1
    <3>3. \A c \in semantic' : c.text # Blank
      BY <3>2 DEF ShownInv
    <3>4. ask' = "get" \/ Prompted(semantic')
      BY <1>10, <2>2 DEF Query
    <3>5. ask' = "get" \/ (ask' = "generate" /\ InRankOrder(prompt'))
      BY <3>2, <3>3, <3>4, PromptedFrom
    <3>. QED  BY <2>1, <3>2, <3>3, <3>5 DEF ShownInv, SourcesMatch
  <2>3. CASE ~ IsLive(handle)
    BY <1>9, <1>10, <2>1, <2>3 DEF Query
  <2>. QED  BY <2>2, <2>3
<1>11. CASE GetAll
  <2>1. UNCHANGED <<coll, chunks, sources>>
    BY <1>11 DEF GetAll, collVars, jobVars
  <2>2. CASE IsLive(handle)
    <3>1. PICK best \in Best(coll.items) :
              Prompted(Merged(semantic, {Candidate(i, None) : i \in best}))
      BY <1>11, <2>2 DEF GetAll
    <3>. DEFINE cs == Merged(semantic, {Candidate(i, None) : i \in best})
    <3>2. /\ IsFiniteSet(cs)
          /\ \A c \in cs : c \in semantic \/ \E i \in coll.items : c.text = i.text
      BY MergedItems DEF ShownInv
    <3>. HIDE DEF cs
    <3>3. \A c \in cs : c.text # Blank
      BY <3>2 DEF ShownInv
    <3>4. ask' = "generate" /\ InRankOrder(prompt')
      BY <3>1, <3>2, <3>3, PromptedFrom DEF cs
    <3>5. semantic' = semantic
      BY <1>11, <2>2 DEF GetAll
    <3>. QED  BY <2>1, <3>4, <3>5 DEF ShownInv, SourcesMatch
  <2>3. CASE ~ IsLive(handle)
    BY <1>9, <1>11, <2>1, <2>3 DEF GetAll
  <2>. QED  BY <2>2, <2>3
<1>12. CASE Generate
  <2>1. /\ ask = "generate" /\ ask' = "answered" /\ sources' = SourceList(prompt)
        /\ UNCHANGED <<coll, chunks, semantic, prompt>>
    BY <1>12 DEF Generate, collVars, jobVars
  <2>2. sources' = prompt'
    BY <2>1, NumberedAnew DEF ShownInv
  <2>. QED  BY <2>1, <2>2 DEF ShownInv, SourcesMatch
<1>13. CASE Refused
  BY <1>9, <1>13 DEF Refused, collVars, jobVars
<1>. QED  BY <1>2, <1>3, <1>5, <1>6, <1>7, <1>8, <1>10, <1>11, <1>12, <1>13
          DEF Next, Building, Asking

\* The number that the model sees beside a chunk is the one that the list under
\* the answer has for it, for all documents, ranks and lengths of the prompt.
THEOREM SourcesAreNumberedAlike == Spec => []SourcesMatch
<1>1. ShownInv => SourcesMatch
  BY DEF ShownInv
<1>2. IndexInv /\ ShownInv /\ [Next]_vars => ShownInv'
  BY ShownInductive
<1>. HIDE DEF ShownInv, IndexInv
<1>. QED  BY <1>1, <1>2, ShownInit, IndexInvariance, PTL DEF Spec

\* What the chunks cs say
Told(cs) == {[id |-> c.id, text |-> c.text] : c \in cs}

\* What the documents hold in one of their states has all of cs.
OneState(cs) == \E docs \in Corpora : Told(cs) \subseteq Range(ChunkDocuments(docs))

\* Unless somebody builds with --no-reset the collection holds chunks of one
\* state of the documents; and as long as the collection that a question has
\* begun with is there, it still has what the question found in it.
OneInv ==
    /\ \E docs \in Corpora : Range(chunks) \subseteq Range(ChunkDocuments(docs))
    /\ \A i, j \in DOMAIN chunks : chunks[i].id = chunks[j].id => i = j
    /\ \A i, j \in coll.items : i.id = j.id => i = j
    /\ coll.id \notin kept => OneState(coll.items)
    /\ job = "create" => coll.items = {}
    /\ reset /\ job = "add" /\ IsLive(target) => Told(coll.items) \subseteq Range(chunks)
    /\ ask = "get" /\ IsLive(handle) =>
           \A s \in semantic : \E i \in coll.items : s.id = i.id /\ s.text = i.text /\ s.near = i.vector
    /\ ask = "get" => \A s \in semantic : s.near = s.text
    /\ AnswerFromOneIndex

\* An empty collection is an index of any state of the documents.
LEMMA NothingIsOneState == OneState({})
BY RagAssumption DEF OneState, Told

\* The assistant starts with the index of one state of the documents.
LEMMA OneInit == Init => OneInv
<1>. SUFFICES ASSUME Init PROVE OneInv
  OBVIOUS
<1>1. chunks = <<>> /\ coll.items = {} /\ job = "none" /\ ask = "idle"
  BY DEF Init
<1>2. Range(chunks) = {} /\ DOMAIN chunks = {}
  BY <1>1 DEF Range
<1>. QED  BY <1>1, <1>2, NothingIsOneState, RagAssumption DEF OneInv, AnswerFromOneIndex

\* An answer that is given stays as it is, and no collection leaves `kept`.
LEMMA AnswerStays ==
    ASSUME AnswerFromOneIndex, kept \subseteq kept', UNCHANGED <<handle, prompt>>,
           ask' \in {"generate", "answered"} => ask \in {"generate", "answered"}
    PROVE  AnswerFromOneIndex'
BY DEF AnswerFromOneIndex

\* The collection is opened, and made if it is not there.
LEMMA OneOpened ==
    ASSUME IndexInv, OneInv, CountInv, coll' = OpenedCollection
    PROVE  /\ \A i, j \in coll'.items : i.id = j.id => i = j
           /\ coll'.id \notin kept => OneState(coll'.items)
           /\ coll.items = {} => coll'.items = {}
           /\ coll' = coll \/ (coll'.items = {} /\ coll'.id = coll.id + 1)
<1>1. CASE coll.there
  BY <1>1 DEF OpenedCollection, OneInv
<1>2. CASE ~ coll.there
  BY <1>2, NothingIsOneState DEF OpenedCollection
<1>. QED  BY <1>1, <1>2

\* A batch of chunks of the documents is added.
LEMMA OneAdded ==
    ASSUME IndexInv, OneInv, AddBatch
    PROVE  OneInv'
<1>. DEFINE places == {j \in DOMAIN chunks : added < j /\ j <= AddedAfter}
            batch == {[id |-> chunks[i].id, text |-> chunks[i].text, vector |-> embeddings[i]] :
                         i \in places}
<1>1. /\ job = "add" /\ job' \in {"add", "done"} /\ IsLive(target)
      /\ UNCHANGED <<chunks, reset, target, ask, handle, semantic, prompt>>
      /\ kept' = IF reset THEN kept ELSE kept \cup {target}
  BY DEF AddBatch, askVars
<1>2. coll' = [id |-> coll.id, there |-> coll.there, items |-> Added(coll.items, batch)]
  <2>1. coll' = [coll EXCEPT !.items = Added(coll.items, batch)]
    BY DEF AddBatch
  <2>. HIDE DEF batch
  <2>. QED  BY <2>1 DEF IndexInv, CollInv
<1>3. \A c \in batch : \E i \in DOMAIN chunks : c.id = chunks[i].id /\ c.text = chunks[i].text
  OBVIOUS
<1>4. \A c, d \in batch : c.id = d.id => c = d
  <2>. SUFFICES ASSUME NEW c \in batch, NEW d \in batch, c.id = d.id PROVE c = d
    OBVIOUS
  <2>1. PICK i \in places :
            c = [id |-> chunks[i].id, text |-> chunks[i].text, vector |-> embeddings[i]]
    OBVIOUS
  <2>2. PICK j \in places :
            d = [id |-> chunks[j].id, text |-> chunks[j].text, vector |-> embeddings[j]]
    OBVIOUS
  <2>3. chunks[i].id = chunks[j].id
    BY <2>1, <2>2
  <2>4. i = j
    BY <2>3 DEF OneInv
  <2>. QED  BY <2>1, <2>2, <2>4
<1>5. Told(batch) \subseteq Range(chunks)
  <2>. SUFFICES ASSUME NEW c \in batch PROVE [id |-> c.id, text |-> c.text] \in Range(chunks)
    BY DEF Told
  <2>1. PICK i \in DOMAIN chunks : c.id = chunks[i].id /\ c.text = chunks[i].text
    BY <1>3
  <2>2. chunks[i] \in Parts
    BY DEF IndexInv, BuildInv
  <2>3. chunks[i] = [id |-> c.id, text |-> c.text]
    BY <2>1, <2>2, RagAssumption
  <2>. QED  BY <2>3 DEF Range
<1>. HIDE DEF batch
<1>6. coll'.items = coll.items \cup {c \in batch : \A i \in coll.items : i.id # c.id}
  BY <1>2 DEF Added
<1>7. \A i, j \in coll'.items : i.id = j.id => i = j
  BY <1>4, <1>6 DEF OneInv
<1>8. ASSUME reset PROVE Told(coll'.items) \subseteq Range(chunks)
  <2>1. Told(coll.items) \subseteq Range(chunks)
    BY <1>1, <1>8 DEF OneInv
  <2>. QED  BY <1>5, <1>6, <2>1 DEF Told
<1>9. coll'.id \notin kept' => OneState(coll'.items)
  <2>1. coll'.id = target
    BY <1>1, <1>2 DEF IsLive
  <2>2. CASE reset
    BY <1>8, <2>2 DEF OneInv, OneState
  <2>3. CASE ~ reset
    BY <1>1, <2>1, <2>3
  <2>. QED  BY <2>2, <2>3
<1>10. IsLive(handle)' => IsLive(handle)
  BY <1>1, <1>2 DEF IsLive
<1>11. AnswerFromOneIndex'
  BY <1>1, AnswerStays DEF OneInv
<1>12. coll.items \subseteq coll'.items
  BY <1>6
<1>. QED  BY <1>1, <1>7, <1>8, <1>9, <1>10, <1>11, <1>12 DEF OneInv

\* A question that does not need all chunks is answered from what it found.
LEMMA OneQueried ==
    ASSUME IndexInv, ShownInv, OneInv, Query, IsLive(handle)
    PROVE  OneInv'
<1>1. /\ UNCHANGED <<coll, kept, job, chunks, reset, target, handle>>
      /\ ask = "query"
  BY DEF Query, collVars, jobVars
<1>2. PICK near \in Best(coll.items) : semantic' = {Candidate(i, i.vector) : i \in near}
  BY DEF Query
<1>3. \A c \in semantic' : \E i \in coll.items : c.id = i.id /\ c.text = i.text /\ c.near = i.vector
  <2>. DEFINE cs == {Candidate(i, i.vector) : i \in near}
  <2>1. \A c \in cs : \E i \in coll.items : c.id = i.id /\ c.text = i.text /\ c.near = i.vector
    <3>. HIDE DEF cs
    <3>1. cs = {Candidate(i, i.vector) : i \in near} /\ IsFiniteSet(coll.items)
      BY DEF cs, ShownInv
    <3>. QED  BY <3>1, NearItems
  <2>. QED  BY <1>2, <2>1
<1>4. \A c \in semantic' : c.near = c.text
  BY <1>3 DEF IndexInv, CollInv, OwnVectors
<1>5. CASE ask' = "get"
  <2>1. AnswerFromOneIndex'
    BY <1>5 DEF AnswerFromOneIndex
  <2>. QED  BY <1>1, <1>3, <1>4, <1>5, <2>1 DEF OneInv, IsLive
<1>6. CASE Prompted(semantic')
  <2>1. IsFiniteSet(semantic') /\ \A c \in semantic' : c.text # Blank
    <3>1. ShownInv'
      BY ShownInductive DEF Next, Asking
    <3>. QED  BY <3>1 DEF ShownInv
  <2>2. ask' = "generate" /\ \A b \in prompt' : b.chunk \in semantic'
    BY <1>6, <2>1, PromptedFrom
  <2>3. \A b \in prompt' : b.chunk.near = b.chunk.text
    BY <1>4, <2>2
  <2>4. \A b \in prompt' : [id |-> b.chunk.id, text |-> b.chunk.text] \in Told(coll.items)
    BY <1>3, <2>2 DEF Told
  <2>5. handle \notin kept => OneState(coll.items)
    BY DEF OneInv, IsLive
  <2>6. AnswerFromOneIndex'
    BY <1>1, <2>3, <2>4, <2>5 DEF AnswerFromOneIndex, OneState
  <2>. QED  BY <1>1, <2>2, <2>6 DEF OneInv, IsLive
<1>. QED  BY <1>5, <1>6 DEF Query

\* A question that needs all chunks reads the collection again.
LEMMA OneGotAll ==
    ASSUME IndexInv, ShownInv, OneInv, GetAll, IsLive(handle)
    PROVE  OneInv'
<1>1. /\ UNCHANGED <<coll, kept, job, chunks, reset, target, handle, semantic>>
      /\ ask = "get"
  BY DEF GetAll, collVars, jobVars
<1>2. PICK best \in Best(coll.items) :
          Prompted(Merged(semantic, {Candidate(i, None) : i \in best}))
  BY DEF GetAll
<1>. DEFINE cs == Merged(semantic, {Candidate(i, None) : i \in best})
<1>3. /\ IsFiniteSet(cs)
      /\ \A c \in cs : \/ c \in semantic
                       \/ \E i \in coll.items :
                             /\ c.id = i.id /\ c.text = i.text
                             /\ c.near = None \/ \E s \in semantic : s.id = i.id /\ c.near = s.near
  BY MergedItems DEF ShownInv
<1>4. Prompted(cs)
  BY <1>2
<1>. HIDE DEF cs
<1>5. \A s \in semantic : \E i \in coll.items : s.id = i.id /\ s.text = i.text /\ s.near = i.vector
  BY <1>1 DEF OneInv
<1>6. \A c \in cs : \E i \in coll.items : c.id = i.id /\ c.text = i.text
  BY <1>3, <1>5
<1>7. \A c \in cs : c.near \in {c.text, None}
  <2>. SUFFICES ASSUME NEW c \in cs, c.near # None PROVE c.near = c.text
    OBVIOUS
  <2>1. \A s \in semantic : s.near = s.text
    BY <1>1 DEF OneInv
  <2>2. CASE c \in semantic
    BY <2>1, <2>2
  <2>3. CASE c \notin semantic
    <3>1. PICK i \in coll.items : /\ c.text = i.text
                                  /\ \E s \in semantic : s.id = i.id /\ c.near = s.near
      BY <1>3, <2>3
    <3>2. PICK s \in semantic : s.id = i.id /\ c.near = s.near
      BY <3>1
    <3>3. PICK j \in coll.items : s.id = j.id /\ s.text = j.text
      BY <1>5
    <3>4. i = j
      BY <3>2, <3>3 DEF OneInv
    <3>. QED  BY <2>1, <3>1, <3>2, <3>3, <3>4
  <2>. QED  BY <2>2, <2>3
<1>8. \A c \in cs : c.text # Blank
  BY <1>6 DEF ShownInv
<1>9. ask' = "generate" /\ \A b \in prompt' : b.chunk \in cs
  BY <1>3, <1>4, <1>8, PromptedFrom
<1>10. \A b \in prompt' : [id |-> b.chunk.id, text |-> b.chunk.text] \in Told(coll.items)
  BY <1>6, <1>9 DEF Told
<1>11. handle \notin kept => OneState(coll.items)
  BY DEF OneInv, IsLive
<1>12. AnswerFromOneIndex'
  BY <1>1, <1>7, <1>9, <1>10, <1>11 DEF AnswerFromOneIndex, OneState
<1>. QED  BY <1>1, <1>9, <1>12 DEF OneInv, IsLive

\* Every step keeps the collection, and the answer, of one state of the documents.
LEMMA OneInductive ==
    ASSUME UniqueIds, Faults = {}, IndexInv, CountInv, ShownInv, OneInv, [Next]_vars
    PROVE  OneInv'
<1>1. ASSUME UNCHANGED <<coll, kept, chunks, reset, target, handle, semantic, prompt>>,
             job' \notin {"create", "add"} \/ job' = job,
             ask' \in {ask, "failed", "answered"}, ask' = "answered" => ask \in {"answered", "generate"}
      PROVE  OneInv'
  <2>1. AnswerFromOneIndex'
    BY <1>1, AnswerStays DEF OneInv
  <2>. QED  BY <1>1, <2>1 DEF OneInv, IsLive, OneState, Told
<1>2. ASSUME AskFails, UNCHANGED <<collVars, jobVars, handle>> PROVE OneInv'
  <2>1. UNCHANGED <<coll, kept, job, chunks, reset, target, handle>>
        /\ ask' = "failed"
    BY <1>2 DEF AskFails, collVars, jobVars
  <2>2. AnswerFromOneIndex'
    BY <2>1 DEF AnswerFromOneIndex
  <2>. QED  BY <2>1, <2>2 DEF OneInv, IsLive
<1>3. CASE Index
  <2>1. PICK docs \in Corpora : chunks' = ChunkDocuments(docs)
    BY <1>3 DEF Index
  <2>2. /\ UNCHANGED <<coll, kept, ask, handle, semantic, prompt>>
        /\ job' \in {"failed", "embed"}
    BY <1>3 DEF Index, collVars, askVars
  <2>3. \A i, j \in DOMAIN chunks' : chunks'[i].id = chunks'[j].id => i = j
    BY <2>1 DEF UniqueIds
  <2>4. AnswerFromOneIndex'
    BY <2>2, AnswerStays DEF OneInv
  <2>5. \E d \in Corpora : Range(chunks') \subseteq Range(ChunkDocuments(d))
    BY <2>1
  <2>. QED  BY <2>2, <2>3, <2>4, <2>5 DEF OneInv, IsLive
<1>4. CASE Embed \/ Embedded \/ Die \/ UNCHANGED vars
  <2>1. UNCHANGED <<coll, kept, chunks, reset, target, ask, handle, semantic, prompt>>
        /\ (job' = job \/ job' \in {"open", "failed"})
    BY <1>4 DEF Embed, Embedded, Die, collVars, jobVars, askVars, vars
  <2>. QED  BY <1>1, <2>1
<1>5. CASE OpenStore \/ CreateCollection
  <2>1. /\ coll' = OpenedCollection /\ target' = coll'.id
        /\ UNCHANGED <<kept, chunks, reset, ask, handle, semantic, prompt>>
        /\ \/ job = "open" /\ job' = IF reset THEN "delete" ELSE "add"
           \/ job = "create" /\ job' = "add"
    BY <1>5 DEF OpenStore, CreateCollection, askVars
  <2>2. ASSUME job = "create" PROVE Told(coll'.items) \subseteq Range(chunks)
    BY <2>1, <2>2, OneOpened DEF OneInv, Told
  <2>3. ask = "get" => (IsLive(handle)' => coll' = coll)
    <3>1. ask = "get" => handle \in 1 .. coll.id /\ coll.id \in Nat
      BY DEF CountInv, IndexInv, CollInv
    <3>2. coll' = coll \/ coll'.id = coll.id + 1
      BY <2>1, OneOpened
    <3>. QED  BY <2>1, <3>1, <3>2 DEF IsLive
  <2>4. AnswerFromOneIndex'
    BY <2>1, AnswerStays DEF OneInv
  <2>5. reset /\ job' = "add" => job = "create"
    BY <2>1
  <2>6. job' # "create"
    BY <2>1
  <2>. QED  BY <2>1, <2>2, <2>3, <2>4, <2>5, <2>6, OneOpened DEF OneInv, IsLive
<1>6. CASE DeleteCollection
  <2>1. /\ job' = "create" /\ coll' = [coll EXCEPT !.there = FALSE, !.items = {}]
        /\ UNCHANGED <<kept, chunks, reset, ask, handle, semantic, prompt>>
    BY <1>6 DEF DeleteCollection, askVars
  <2>2. coll' = [id |-> coll.id, there |-> FALSE, items |-> {}]
    BY <2>1 DEF IndexInv, CollInv
  <2>3. coll'.items = {} /\ ~ IsLive(handle)'
    BY <2>2 DEF IsLive
  <2>4. AnswerFromOneIndex'
    BY <2>1, AnswerStays DEF OneInv
  <2>. QED  BY <2>1, <2>3, <2>4, NothingIsOneState DEF OneInv
<1>7. CASE AddBatch
  BY <1>7, OneAdded
<1>8. CASE Ask
  <2>1. /\ coll' = OpenedCollection /\ ask' = "query"
        /\ UNCHANGED <<kept, job, chunks, reset, target>>
    BY <1>8 DEF Ask, jobVars
  <2>2. AnswerFromOneIndex'
    BY <2>1 DEF AnswerFromOneIndex
  <2>3. job = "create" => coll'.items = {}
    BY <2>1, OneOpened DEF OneInv
  <2>4. IsLive(target)' => Told(coll'.items) \subseteq Range(chunks) \/ coll' = coll
    BY <2>1, OneOpened DEF Told
  <2>. QED  BY <2>1, <2>2, <2>3, <2>4, OneOpened DEF OneInv, IsLive
<1>9. CASE Query
  BY <1>2, <1>9, OneQueried DEF Query
<1>10. CASE GetAll
  BY <1>2, <1>10, OneGotAll DEF GetAll
<1>11. CASE Generate
  <2>1. /\ ask = "generate" /\ ask' = "answered"
        /\ UNCHANGED <<coll, kept, job, chunks, reset, target, handle, semantic, prompt>>
    BY <1>11 DEF Generate, collVars, jobVars
  <2>. QED  BY <1>1, <2>1
<1>12. CASE Refused
  BY <1>2, <1>12 DEF Refused
<1>. QED  BY <1>3, <1>4, <1>5, <1>6, <1>7, <1>8, <1>9, <1>10, <1>11, <1>12
          DEF Next, Building, Asking

\* When deleting the collection does not fail and no two chunks have the same id,
\* a question whose collection nobody writes to without reset is answered from
\* one state of the documents, and with distances of the texts they stand beside.
THEOREM AnswersFromOneIndex ==
    ASSUME UniqueIds, Faults = {}
    PROVE  Spec => []AnswerFromOneIndex
<1>1. OneInv => AnswerFromOneIndex
  BY DEF OneInv
<1>2. IndexInv /\ CountInv /\ ShownInv /\ OneInv /\ [Next]_vars => OneInv'
  BY OneInductive
<1>3. IndexInv /\ CountInv /\ [Next]_vars => CountInv'
  BY CountInductive
<1>4. IndexInv /\ ShownInv /\ [Next]_vars => ShownInv'
  BY ShownInductive
<1>. HIDE DEF OneInv, ShownInv, CountInv, IndexInv
<1>. QED  BY <1>1, <1>2, <1>3, <1>4, OneInit, ShownInit, CountInit, IndexInvariance, PTL DEF Spec
=============================================================================
