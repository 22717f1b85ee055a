----------------------------- MODULE Retrieval -----------------------------
(***************************************************************************)
(* The RAG primitives of src/features/rag: the chunker, the in-memory      *)
(* store, and the pipeline's ingests and queries, which overlap at the     *)
(* awaits of the embedder and of the reranker.                             *)
(*                                                                         *)
(* A text is a sequence of symbols.  The embedder is external: it maps a   *)
(* text to a vector of one dimension, rejects, or answers with a vector of *)
(* another dimension.  Scores are in hundredths.                           *)
(***************************************************************************)
EXTENDS Integers, FiniteSets, Sequences, SequencesExt, FiniteSetsExt

CONSTANTS
  Symbols, Letters,   \* the symbols of texts, and those in no separator
  Separators,         \* DEFAULT_SEPARATORS, in the order they are tried
  SentenceEnds,       \* those of the "sentence" strategy
  ChunkLimit, ChunkOverlap,
  Drafts,             \* texts the chunker is checked on
  Writings,           \* what an ingest may bring: sequences of documents
  Weight,             \* [Symbols -> Int], the vector of a text that starts so
  TopK, MinScore, MaxContext,
  Ingests, Queries

VARIABLES
  metric,   \* of the store
  shelf,    \* _docs: the passages in the Map's order
  ingest,   \* the calls of ingest()
  query,    \* the calls of query()
  adopted   \* history: by document id, {} or the passages of its last add, {}
            \* after one that threw

retrievalVars == <<metric, shelf, ingest, query, adopted>>

DocIds == {"d", "doc_0", "doc_1"}

Unasked == [phase |-> "idle", of |-> "", only |-> {}, rerank |-> FALSE, pool |-> <<>>,
            found |-> <<>>, context |-> 0]

RetrievalInit ==
  /\ metric \in {"cosine", "dot", "l2"}
  /\ shelf = <<>>
  /\ ingest = [j \in Ingests |-> [phase |-> "idle", chunks |-> <<>>]]
  /\ query = [q \in Queries |-> Unasked]
  /\ adopted = [d \in DocIds |-> {}]

RetrievalTypeOK ==
  /\ \A i \in DOMAIN shelf : shelf[i].doc \in DocIds /\ shelf[i].content \in Seq(Symbols)
  /\ \A j \in Ingests : ingest[j].phase \in {"idle", "embedding", "done", "failed"}
  /\ \A q \in Queries :
       query[q].phase \in {"idle", "embedding", "reranking", "answered", "failed"}

----------------------------------------------------------------------------
(* String.split(), on an occurrence from the left; "" splits everywhere.   *)
Occurs(sep, text) ==
  {i \in 1..(Len(text) - Len(sep) + 1) : SubSeq(text, i, i + Len(sep) - 1) = sep}

SplitAt(text, sep) ==
  LET From[i \in 1..(Len(text) + 1)] ==
        LET later == {k \in Occurs(sep, text) : k >= i}
        IN  IF later = {} THEN <<SubSeq(text, i, Len(text))>>
            ELSE <<SubSeq(text, i, Min(later) - 1)>> \o From[Min(later) + Len(sep)]
  IN  IF sep = <<>> THEN [i \in DOMAIN text |-> <<text[i]>>] ELSE From[1]

(* Mutant: the overlap is added to the stride.                             *)
FixedApart(text, overlap) ==
  LET stride == ChunkLimit + overlap
  IN  [k \in 1..((Len(text) + stride - 1) \div stride) |->
         [offset |-> (k - 1) * stride,
          content |-> SubSeq(text, (k - 1) * stride + 1, Min({(k - 1) * stride + ChunkLimit, Len(text)}))]]

(* splitByFixed().                                                         *)
Fixed(text, overlap) ==
  LET stride == ChunkLimit - overlap
  IN  [k \in 1..((Len(text) + stride - 1) \div stride) |->
         [offset |-> (k - 1) * stride,
          content |-> SubSeq(text, (k - 1) * stride + 1, Min({(k - 1) * stride + ChunkLimit, Len(text)}))]]

(* The parts are joined again while they fit.                              *)
FlushChunk(acc) ==
  IF acc.current = <<>> THEN acc.chunks
  ELSE Append(acc.chunks, [offset |-> acc.offset, content |-> acc.current])

Join(acc, piece, sep) ==
  LET candidate == IF acc.current = <<>> THEN piece ELSE acc.current \o sep \o piece
  IN  IF Len(candidate) > ChunkLimit /\ acc.current # <<>>
      THEN [chunks |-> FlushChunk(acc), offset |-> acc.offset + Len(acc.current \o sep),
            current |-> piece]
      ELSE [acc EXCEPT !.current = candidate]

(* splitRecursive(): the first separator that occurs, then those after it. *)
SplitBy(text, seps) ==
  LET Split[t \in Seq(Symbols), from \in 1..(Len(seps) + 1)] ==
        LET there == {i \in from..Len(seps) : Occurs(seps[i], t) # {}}
            sep == seps[Min(there)]
            chunks == FlushChunk(FoldLeft(LAMBDA acc, piece : Join(acc, piece, sep),
                                     [chunks |-> <<>>, current |-> <<>>, offset |-> 0],
                                     SplitAt(t, sep)))
            Again(chunk) ==
              IF Len(chunk.content) <= ChunkLimit THEN <<chunk>>
              ELSE LET parts == Split[chunk.content, Min(there) + 1]
                   IN  [k \in DOMAIN parts |-> [parts[k] EXCEPT !.offset = @ + chunk.offset]]
        IN  IF Len(t) <= ChunkLimit THEN <<[offset |-> 0, content |-> t]>>
            ELSE IF there = {} THEN Fixed(t, 0)
            ELSE IF Min(there) = Len(seps) THEN chunks
            ELSE FlattenSeq([k \in DOMAIN chunks |-> Again(chunks[k])])
  IN  Split[text, 1]

(* chunkText(), by strategy.                                               *)
ChunkText(text, strategy) ==
  CASE strategy = "fixed" -> Fixed(text, ChunkOverlap)
    [] strategy = "sentence" -> SplitBy(text, SentenceEnds)
    [] strategy = "recursive" -> SplitBy(text, Separators)

(* Mutant: the passages of a document share one id.                        *)
NamedByDocument(id, k) == <<id, 1>>

(* A passage's id: its document's and its number.                          *)
Named(id, k) == <<id, k>>

(* chunkDocuments(): a document without an id is named by its place.       *)
Passages(writing) ==
  FlattenSeq([i \in DOMAIN writing |->
    LET id == IF writing[i].id # "" THEN writing[i].id ELSE <<"doc_0", "doc_1">>[i]
        chunks == ChunkText(writing[i].text, "recursive")
    IN  [k \in DOMAIN chunks |->
           [name |-> Named(id, k), doc |-> id, content |-> chunks[k].content]]])

----------------------------------------------------------------------------
(* add(): Map.set() one by one.                                            *)
Put(docs, p) ==
  IF \E i \in DOMAIN docs : docs[i].name = p.name
  THEN [i \in DOMAIN docs |-> IF docs[i].name = p.name THEN p ELSE docs[i]]
  ELSE Append(docs, p)

Ingest(j, writing) ==
  /\ ingest[j].phase = "idle"
  /\ LET chunks == Passages(writing)
     IN  ingest' = [ingest EXCEPT ![j] =
           [phase |-> IF chunks = <<>> THEN "done" ELSE "embedding", chunks |-> chunks]]
  /\ UNCHANGED <<metric, shelf, query, adopted>>

(* Promise.all() settles with the vectors; that of the passage "wrong", if *)
(* any, has another dimension, and add() throws when it comes to it.       *)
Embedded(j, wrong) ==
  /\ ingest[j].phase = "embedding"
  /\ LET chunks == ingest[j].chunks
         added == IF wrong = 0 THEN chunks ELSE SubSeq(chunks, 1, wrong - 1)
     IN  /\ shelf' = FoldLeft(Put, shelf, added)
         /\ adopted' = [d \in DocIds |->
              IF \A i \in DOMAIN added : added[i].doc # d THEN adopted[d]
              ELSE {c \in {SelectSeq(chunks, LAMBDA p : p.doc = d)} : wrong = 0}]
  /\ ingest' = [ingest EXCEPT ![j] = [phase |-> IF wrong = 0 THEN "done" ELSE "failed",
                                      chunks |-> <<>>]]
  /\ UNCHANGED <<metric, query>>

EmbedderRejects(j) ==
  /\ ingest[j].phase = "embedding"
  /\ ingest' = [ingest EXCEPT ![j] = [phase |-> "failed", chunks |-> <<>>]]
  /\ UNCHANGED <<metric, shelf, query, adopted>>

ClearShelf ==
  /\ shelf # <<>>
  /\ shelf' = <<>>
  /\ adopted' = [d \in DocIds |-> {}]
  /\ UNCHANGED <<metric, ingest, query>>

----------------------------------------------------------------------------
VectorOf(text) == IF text = <<>> THEN 0 ELSE Weight[text[1]]
Signum(x) == IF x > 0 THEN 1 ELSE IF x < 0 THEN 0 - 1 ELSE 0

(* cosineSimilarity(), dotProduct() and l2Distance() in one dimension.     *)
Similarity(of, content) ==
  LET a == Weight[of]  b == VectorOf(content)
  IN  CASE metric = "dot" -> 100 * a * b
        [] metric = "l2" -> 100 \div (1 + (IF a > b THEN a - b ELSE b - a))
        [] metric = "cosine" -> 100 * Signum(a) * Signum(b)

(* search(): a stable sort by score.                                       *)
Closer(of, docs, i, k) ==
  LET a == Similarity(of, docs[i].content)  b == Similarity(of, docs[k].content)
  IN  a > b \/ (a = b /\ i < k)
BySimilarity(of, docs) ==
  LET order == SetToSortSeq(DOMAIN docs, LAMBDA i, k : Closer(of, docs, i, k))
  IN  [i \in DOMAIN docs |-> docs[order[i]]]
FirstOf(docs, n) == SubSeq(docs, 1, Min({n, Len(docs)}))

(* A filter keeps the passages of some documents; {} is no filter.         *)
Passes(q, p) ==
  /\ \A ids \in query[q].only : p.doc \in ids
  /\ MinScore > 0 => Similarity(query[q].of, p.content) >= MinScore

(* Mutant: as many are fetched as are asked for, and then filtered.        *)
ShortlistNarrow(q) ==
  SelectSeq(FirstOf(BySimilarity(query[q].of, shelf), TopK), LAMBDA p : Passes(q, p))

(* Twice as many are fetched, filtered, and cut to what was asked for.     *)
Shortlist(q) ==
  FirstOf(SelectSeq(FirstOf(BySimilarity(query[q].of, shelf), 2 * TopK), LAMBDA p : Passes(q, p)), TopK)

(* buildContextFromDocuments(): up to the first passage that does not fit. *)
ContextOf(docs) ==
  LET Length(n) == SumFunction([i \in 1..n |-> Len(docs[i].content) + 2])
  IN  Max({n \in 0..Len(docs) : Length(n) <= MaxContext})

Answers(q, pool, docs) ==
  query' = [query EXCEPT ![q].phase = "answered", ![q].pool = pool, ![q].found = docs,
                         ![q].context = ContextOf(docs)]

AskFor(q, of, only, rerank) ==
  /\ query[q].phase = "idle"
  /\ query' = [query EXCEPT ![q] = [Unasked EXCEPT !.phase = "embedding", !.of = of,
                                                   !.only = only, !.rerank = rerank]]
  /\ UNCHANGED <<metric, shelf, ingest, adopted>>

(* The query's vector: search() and what follows, up to the reranker.      *)
Searched(q) ==
  /\ query[q].phase = "embedding"
  /\ IF query[q].rerank
     THEN query' = [query EXCEPT ![q].phase = "reranking", ![q].pool = shelf,
                                 ![q].found = Shortlist(q)]
     ELSE Answers(q, shelf, Shortlist(q))
  /\ UNCHANGED <<metric, shelf, ingest, adopted>>

QueryUnembedded(q) ==
  /\ query[q].phase = "embedding"
  /\ query' = [query EXCEPT ![q] = [Unasked EXCEPT !.phase = "failed"]]
  /\ UNCHANGED <<metric, shelf, ingest, adopted>>

(* The reranker answers with indices, of which one may not exist: reading  *)
(* its passage throws.  With none, the order stays.                        *)
Reranked(q, order) ==
  /\ query[q].phase = "reranking"
  /\ LET found == query[q].found
     IN  IF Range(order) \subseteq DOMAIN found
         THEN Answers(q, query[q].pool,
                      IF order = <<>> THEN found ELSE [i \in DOMAIN order |-> found[order[i]]])
         ELSE query' = [query EXCEPT ![q] = [Unasked EXCEPT !.phase = "failed"]]
  /\ UNCHANGED <<metric, shelf, ingest, adopted>>

RetrievalNext ==
  \/ \E j \in Ingests :
       \/ \E writing \in Writings : Ingest(j, writing)
       \/ \E wrong \in 0..Len(ingest[j].chunks) : Embedded(j, wrong)
       \/ EmbedderRejects(j)
  \/ ClearShelf
  \/ \E q \in Queries :
       \/ \E of \in Letters, only \in {{}, {{"d"}}}, rerank \in BOOLEAN : AskFor(q, of, only, rerank)
       \/ Searched(q) \/ QueryUnembedded(q)
       \/ \E order \in {<<>>, <<1>>, <<2>>, <<2, 1>>} : Reranked(q, order)

RetrievalSpec == RetrievalInit /\ [][RetrievalNext]_retrievalVars

----------------------------------------------------------------------------
(* No strategy loses, repeats or reorders a text: fixed chunks lie at their*)
(* offsets and cover it; the others keep every letter in order.  With the  *)
(* default separators, the last of which splits everywhere, and in fixed   *)
(* chunks, no chunk is over the limit.                                     *)
LettersOf(text) == SelectSeq(text, LAMBDA s : s \in Letters)
Contents(chunks) == [k \in DOMAIN chunks |-> chunks[k].content]
ChunksWhole ==
  \A text \in Drafts :
    /\ LET chunks == ChunkText(text, "fixed")
       IN  /\ \A k \in DOMAIN chunks :
                chunks[k].content =
                  SubSeq(text, chunks[k].offset + 1, chunks[k].offset + Len(chunks[k].content))
           /\ DOMAIN text = UNION {(c.offset + 1)..(c.offset + Len(c.content)) : c \in Range(chunks)}
    /\ \A strategy \in {"sentence", "recursive"} :
         LettersOf(FlattenSeq(Contents(ChunkText(text, strategy)))) = LettersOf(text)
    /\ \A strategy \in {"fixed", "recursive"} :
         \A c \in Range(ChunkText(text, strategy)) : Len(c.content) <= ChunkLimit

(* While a document's last add went through and nothing was cleared, the   *)
(* store holds every passage of that version, whatever ingests overlapped. *)
VersionsWhole ==
  \A d \in DocIds :
    \A version \in adopted[d] : Range(version) \subseteq Range(shelf)

(* What a query answers with was in the store when it searched, passed its *)
(* filter and is the best of it: all of it with no filter, and with one    *)
(* while the store holds at most twice as many as are asked for.  A rerank *)
(* chooses among the same.  The context is as much of it as fits.          *)
AnswersHonest ==
  \A q \in Queries : query[q].phase = "answered" =>
    LET found == query[q].found
        pool == query[q].pool
        passing == {p \in Range(pool) : Passes(q, p)}
    IN  /\ Range(found) \subseteq passing
        /\ query[q].only = {} \/ Len(pool) <= 2 * TopK =>
             /\ \A p \in passing \ Range(found) :
                  ~query[q].rerank =>
                    \A f \in Range(found) : Similarity(query[q].of, f.content) >= Similarity(query[q].of, p.content)
             /\ ~query[q].rerank => Len(found) = Min({TopK, Cardinality(passing)})
        /\ query[q].context < Len(found) =>
             LET more == SubSeq(found, 1, query[q].context + 1)
             IN  Len(FlattenSeq(Contents(more))) + 2 * Len(more) > MaxContext

(* What src/features/rag promises of texts, the store and the answers.     *)
PassagesWhole == ChunksWhole /\ VersionsWhole /\ AnswersHonest
============================================================================
