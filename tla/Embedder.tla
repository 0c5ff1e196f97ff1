------------------------------ MODULE Embedder ------------------------------
(***************************************************************************)
(* OllamaEmbedder (assistant/rag/retriever/embedder.py) while it embeds    *)
(* the texts of an index: batches, the choice between Ollama's two         *)
(* endpoints, and the halving of batches that time out.                    *)
(*                                                                         *)
(* An embedding is named by the text it was computed from.  The recursion  *)
(* of _embed_with_adaptive_splitting visits the halves of a batch from     *)
(* left to right, so the batches still to be embedded are kept as one      *)
(* sequence of slices: halving replaces the first one by two.              *)
(*                                                                         *)
(* Ollama is external.  It may answer any request in any way the code      *)
(* tells apart, and /api/embed may return fewer embeddings than texts.     *)
(***************************************************************************)
EXTENDS Integers, Sequences, SequencesExt

CONSTANTS
    BatchSize,   \* batch_size, 16
    None

ASSUME EmbedderAssumption == BatchSize \in Nat \ {0}

VARIABLES
    texts,       \* the texts to embed
    mode,        \* self._api_mode: the endpoint known to work, or None
    trial,       \* without a mode: the endpoint this call of embed_texts tries
    pending,     \* slices [from, to] of texts still to be embedded
    part,        \* embeddings of the first slice, one /api/embeddings request each
    embeddings,  \* all_embeddings
    status       \* "idle", "embedding", "embedded" or "failed"

embedderVars == <<texts, mode, trial, pending, part, embeddings, status>>

Endpoints == {"embed", "embeddings"}

EmbedderTypeOK ==
    /\ mode \in Endpoints \cup {None}
    /\ trial \in Endpoints
    /\ \A i \in DOMAIN pending : /\ pending[i].from \in DOMAIN texts
                                 /\ pending[i].to \in pending[i].from .. Len(texts)
    /\ pending # <<>> => Len(part) <= pending[1].to - pending[1].from
    /\ status \in {"idle", "embedding", "embedded", "failed"}

\* A new embedder, as each command of the assistant makes one.
EmbedderInit ==
    /\ texts = <<>> /\ pending = <<>> /\ part = <<>> /\ embeddings = <<>>
    /\ mode = None /\ trial = "embed" /\ status = "idle"

-----------------------------------------------------------------------------
\* range(0, total_texts, batch_size)
Batches(n) ==
    [b \in 1 .. (n + BatchSize - 1) \div BatchSize |->
        [from |-> (b - 1) * BatchSize + 1,
         to   |-> IF b * BatchSize < n THEN b * BatchSize ELSE n]]

\* A bug: the right half first.
RightFirst(s) ==
    LET mid == (s.to - s.from + 1) \div 2
    IN  <<[from |-> s.from + mid, to |-> s.to], [from |-> s.from, to |-> s.from + mid - 1]>>

\* A bug: mid is rounded to the length of the batch, and the left "half" is all of it.
NoSmaller(s) == <<s>>

\* texts[:mid] and texts[mid:]
Halves(s) ==
    LET mid == (s.to - s.from + 1) \div 2
    IN  <<[from |-> s.from, to |-> s.from + mid - 1], [from |-> s.from + mid, to |-> s.to]>>

Endpoint == IF mode # None THEN mode ELSE trial
Batch == SubSeq(texts, pending[1].from, pending[1].to)

-----------------------------------------------------------------------------
\* embed_in_batches(ts) is called on a new embedder; ts is not empty.
EmbedInBatches(ts) ==
    /\ texts' = ts /\ pending' = Batches(Len(ts))
    /\ embeddings' = <<>> /\ part' = <<>>
    /\ mode' = None /\ trial' = "embed" /\ status' = "embedding"

\* embed_texts returns the embeddings of the first slice.
Returns(vectors) ==
    /\ embeddings' = embeddings \o vectors
    /\ mode' = Endpoint /\ trial' = "embed"
    /\ pending' = Tail(pending) /\ part' = <<>>
    /\ status' = IF Len(pending) = 1 THEN "embedded" ELSE "embedding"
    /\ UNCHANGED texts

\* An exception leaves embed_in_batches.
Raises ==
    /\ status' = "failed"
    /\ UNCHANGED <<texts, mode, trial, pending, part, embeddings>>

\* _embed_with_api_embed: the list is checked, its length is not.
EmbedAnswers ==
    /\ status = "embedding" /\ Endpoint = "embed"
    /\ \E n \in 0 .. Len(Batch) : Returns(SubSeq(Batch, 1, n))

\* _embed_with_api_embeddings: one request for each text
EmbeddingsAnswers ==
    /\ status = "embedding" /\ Endpoint = "embeddings"
    /\ LET vectors == Append(part, Batch[Len(part) + 1])
       IN  IF Len(vectors) = Len(Batch)
           THEN Returns(vectors)
           ELSE /\ part' = vectors
                /\ UNCHANGED <<texts, mode, trial, pending, embeddings, status>>

\* ReadTimeout of any request: what the call has collected is lost, and the
\* endpoint is not remembered.
ReadTimeout ==
    /\ status = "embedding"
    /\ IF Len(Batch) <= 1
       THEN Raises
       ELSE /\ pending' = Halves(pending[1]) \o Tail(pending)
            /\ part' = <<>> /\ trial' = "embed"
            /\ UNCHANGED <<texts, mode, embeddings, status>>

\* 404 for the endpoint: the other one is tried unless one is known to work.
EndpointNotFound ==
    /\ status = "embedding"
    /\ IF mode = None /\ trial = "embed"
       THEN /\ trial' = "embeddings" /\ part' = <<>>
            /\ UNCHANGED <<texts, mode, pending, embeddings, status>>
       ELSE Raises

\* Unknown model, invalid answer, any other status, no connection.
RequestFails == status = "embedding" /\ Raises

EmbedderNext ==
    \/ EmbedAnswers
    \/ EmbeddingsAnswers
    \/ ReadTimeout
    \/ EndpointNotFound
    \/ RequestFails
=============================================================================
