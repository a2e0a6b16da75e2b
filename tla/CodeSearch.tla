----------------------------- MODULE CodeSearch -----------------------------
(***************************************************************************)
(* code_semantic_search over a workspace: candidate files by glob and      *)
(* grep, their chunks as snippets, up to four routes that rank the         *)
(* snippets (embedding, bm25, ctags, graph), a weighted fusion of the      *)
(* ranks, and what takes the place of an empty result.  Source:            *)
(*   src/code-version/server/memory_service.py (1203-2766, 4822-5167).     *)
(*                                                                         *)
(* A file is its number in SnippetsOf.  Scores are left out: a route ranks *)
(* what it scores in any order.  The limit is positive, as clients send    *)
(* it, and the fusion the default weighted_rrf.                            *)
(***************************************************************************)
EXTENDS Naturals, Sequences, FiniteSets, SequencesExt

CONSTANTS
    SnippetsOf,      \* <<chunks of file 1, chunks of file 2, ...>>
    Relations,       \* pairs: the first chunk calls, extends or contains the second
    SearchConfigs,   \* requests to try: routes enabled, limit, candidate ingestion
    CandidateLimit,  \* RTC_CODE_SEARCH_CANDIDATE_MAX_FILES
    EmbedLimit,      \* RTC_CODE_SEARCH_EMBED_MAX_FILES
    MaxSnippets,     \* RTC_CODE_SEARCH_MAX_SNIPPETS
    BatchTexts,      \* RTC_CODE_SEARCH_EMBED_BATCH_TEXTS
    TopEach,         \* RTC_CODE_RETRIEVE_EACH
    IngestFiles,     \* RTC_CODE_SEARCH_INGEST_MAX_FILES
    IngestChunks     \* RTC_CODE_SEARCH_INGEST_MAX_CHUNKS

CodeFile == DOMAIN SnippetsOf
Snippet == UNION {ToSet(SnippetsOf[f]) : f \in CodeFile}
AllSnippets ==
    LET upTo[f \in 0..Len(SnippetsOf)] == IF f = 0 THEN <<>> ELSE upTo[f - 1] \o SnippetsOf[f]
    IN upTo[Len(SnippetsOf)]
Route == {"embedding", "bm25", "ctags", "graph"}

ASSUME CodeSearchAssumption ==
    /\ SnippetsOf \in Seq(Seq(Snippet)) /\ \A f \in CodeFile : SnippetsOf[f] # <<>>
    /\ Relations \subseteq Snippet \X Snippet
    /\ SearchConfigs \subseteq [routes : SUBSET Route, wanted : Nat \ {0}, ingest : BOOLEAN]
    /\ {CandidateLimit, EmbedLimit, MaxSnippets, BatchTexts, TopEach} \subseteq Nat \ {0}
    /\ {IngestFiles, IngestChunks} \subseteq Nat

VARIABLES
    request,     \* the request
    querying,    \* next step
    pool,        \* candidate files
    taken,       \* those picked for ingestion
    docs,        \* snippets, in order
    rest, stack, \* snippets not yet in a batch; batches to embed
    vectors,     \* snippets with a vector, in order
    refused,     \* history: snippets the embedder failed for when asked alone
    ranked,      \* [Route -> snippets it scored, best first]
    reply        \* hits, and where they are from

codeSearchVars == <<request, querying, pool, taken, docs, rest, stack,
                    vectors, refused, ranked, reply>>

NoReply == [from |-> "none", hits |-> <<>>]
Least(m, n) == IF m < n THEN m ELSE n
Cut(seq, n) == SubSeq(seq, 1, Least(n, Len(seq)))
Some(S, n) == {T \in SUBSET S : Cardinality(T) = Least(n, Cardinality(S))}
Orders(S) == {o \in [1..Cardinality(S) -> S] : \A i, j \in DOMAIN o : o[i] = o[j] => i = j}

CodeSearchInit ==
    /\ request \in SearchConfigs
    /\ querying = "collect" /\ pool = {} /\ taken = <<>>
    /\ docs = <<>> /\ rest = <<>> /\ stack = <<>> /\ vectors = <<>> /\ refused = {}
    /\ ranked = [r \in Route |-> <<>>] /\ reply = NoReply

\* At most the limit by glob patterns; any number by terms if that leaves
\* room; at most the limit by the words of the query.
FromGlob == {S \in SUBSET CodeFile : Cardinality(S) <= CandidateLimit}
FromGrep(found) == IF Cardinality(found) = CandidateLimit THEN {{}} ELSE SUBSET (CodeFile \ found)
FromQuery == {S \in SUBSET CodeFile : Cardinality(S) <= CandidateLimit}

CollectCandidates ==
    /\ querying = "collect"
    /\ \E g \in FromGlob : \E t \in FromGrep(g) :
         IF g \cup t # {} THEN pool' \in Some(g \cup t, 4 * CandidateLimit) ELSE pool' \in FromQuery
    /\ querying' = "rank files"
    /\ UNCHANGED <<request, taken, docs, rest, stack, vectors, refused,
                   ranked, reply>>

\* More candidates than the limit are cut by matches in path and text.
RankFiles ==
    /\ querying = "rank files"
    /\ pool' \in Some(pool, EmbedLimit)
    /\ querying' = "read"
    /\ UNCHANGED <<request, taken, docs, rest, stack, vectors, refused,
                   ranked, reply>>

\* Those of a set, in the order of a sequence.
Among(seq, S) ==
    LET upTo[n \in 0..Len(seq)] ==
          IF n = 0 THEN <<>> ELSE IF seq[n] \in S THEN Append(upTo[n - 1], seq[n]) ELSE upTo[n - 1]
    IN upTo[Len(seq)]

\* Chunks of the candidates that can be read; more than the limit are cut by
\* their ctags and bm25 scores (kept in the order of the files here).
ReadSnippets ==
    /\ querying = "read"
    /\ \E readable \in SUBSET pool :
         LET all == UNION {ToSet(SnippetsOf[f]) : f \in readable} IN
         \E best \in Some(all, MaxSnippets) :
           docs' = Among(AllSnippets, best)
    /\ querying' = IF request.ingest THEN "pick" ELSE "embed query"
    /\ UNCHANGED <<request, pool, taken, rest, stack, vectors, refused,
                   ranked, reply>>

ChunksOf(files) ==
    FoldLeft(LAMBDA n, f : n + Len(SnippetsOf[f]), 0, files)

\* _ingest_candidate_paths: of those that can still be read, in the order of
\* their rank, each is taken that fits.  CodeSync has what ingesting them does.
PickFile(files, f) ==
    IF /\ Len(files) < IngestFiles
       /\ ChunksOf(files) + Len(SnippetsOf[f]) <= IngestChunks
    THEN Append(files, f) ELSE files

PickForIngestion ==
    /\ querying = "pick"
    /\ \E readable \in SUBSET pool : \E order \in Orders(readable) :
         taken' = FoldLeft(LAMBDA files, f : PickFile(files, f), <<>>, order)
    /\ querying' = "embed query"
    /\ UNCHANGED <<request, pool, docs, rest, stack, vectors, refused,
                   ranked, reply>>
-----------------------------------------------------------------------------
\* The vector of the query; without it, or without snippets, the route is empty.
EmbedQuery ==
    /\ querying = "embed query"
    /\ IF "embedding" \in request.routes /\ docs # <<>>
       THEN \/ rest' = docs /\ querying' = "embed"
            \/ UNCHANGED rest /\ querying' = "bm25"
       ELSE UNCHANGED rest /\ querying' = "bm25"
    /\ UNCHANGED <<request, pool, taken, docs, stack, vectors, refused,
                   ranked, reply>>

\* The next batch: cut at the number of texts, or earlier by their length.
TakeBatch ==
    /\ querying = "embed" /\ stack = <<>> /\ rest # <<>>
    /\ \E k \in 1..Least(BatchTexts, Len(rest)) :
         /\ stack' = <<SubSeq(rest, 1, k)>>
         /\ rest' = SubSeq(rest, k + 1, Len(rest))
    /\ UNCHANGED <<request, querying, pool, taken, docs, vectors,
                   refused, ranked, reply>>

Batch == Head(stack)

EmbedBatch ==
    /\ querying = "embed" /\ stack # <<>>
    /\ vectors' = vectors \o Batch /\ stack' = Tail(stack)
    /\ UNCHANGED <<request, querying, pool, taken, docs, rest, refused,
                   ranked, reply>>

Halves(batch) ==
    <<SubSeq(batch, 1, Len(batch) \div 2),
      SubSeq(batch, Len(batch) \div 2 + 1, Len(batch))>>

\* The call raises or returns another number of vectors: the batch is halved,
\* and a single text is skipped.
BatchFails ==
    /\ querying = "embed" /\ stack # <<>>
    /\ IF Len(Batch) = 1
       THEN refused' = refused \cup ToSet(Batch) /\ stack' = Tail(stack)
       ELSE stack' = Halves(Batch) \o Tail(stack) /\ UNCHANGED refused
    /\ UNCHANGED <<request, querying, pool, taken, docs, rest, vectors,
                   ranked, reply>>

RankByVector ==
    /\ querying = "embed" /\ stack = <<>> /\ rest = <<>>
    /\ \E order \in Orders(ToSet(vectors)) :
         ranked' = [ranked EXCEPT !["embedding"] = order]
    /\ querying' = "bm25"
    /\ UNCHANGED <<request, pool, taken, docs, rest, stack, vectors,
                   refused, reply>>

\* bm25 and ctags rank the snippets they give a score above zero.
RankByWords(route, next) ==
    /\ querying = route
    /\ IF route \in request.routes
       THEN \E scored \in SUBSET ToSet(docs) : \E order \in Orders(scored) :
              ranked' = [ranked EXCEPT ![route] = order]
       ELSE UNCHANGED ranked
    /\ querying' = next
    /\ UNCHANGED <<request, pool, taken, docs, rest, stack, vectors,
                   refused, reply>>

\* The graph route: anchors that match the query, their neighbours, and what
\* a page rank of 14 rounds reaches from the anchors with the better scores.
Out(S) == {t \in ToSet(docs) : \E s \in S : s # t /\ <<s, t>> \in Relations}
In(S) == {s \in ToSet(docs) : \E t \in S : s # t /\ <<s, t>> \in Relations}
Reached(S) == S \cup Out(S)
Ranks(seeds) ==
    LET after[n \in 0..14] == IF n = 0 THEN seeds ELSE Reached(after[n - 1])
    IN after[14]

GraphHits ==
    {p[1] \cup Out(p[1]) \cup In(p[1]) \cup Ranks(p[2]) :
         p \in {q \in (SUBSET ToSet(docs)) \X (SUBSET ToSet(docs)) :
                 q[2] \subseteq q[1] /\ (q[1] # {} => q[2] # {})}}

RankByGraph ==
    /\ querying = "graph"
    /\ IF "graph" \in request.routes
       THEN \E hits \in GraphHits : \E order \in Orders(hits) :
              ranked' = [ranked EXCEPT !["graph"] = order]
       ELSE UNCHANGED ranked
    /\ querying' = "fuse"
    /\ UNCHANGED <<request, pool, taken, docs, rest, stack, vectors,
                   refused, reply>>
-----------------------------------------------------------------------------
\* Weighted reciprocal ranks of the first TopEach of each route, as integers.
Weight == [embedding |-> 33, bm25 |-> 17, ctags |-> 17, graph |-> 33]
Best(r) == Cut(ranked[r], TopEach)
Common == LET product[n \in 0..TopEach] == IF n = 0 THEN 1 ELSE product[n - 1] * (60 + n)
          IN product[TopEach]
Share(r, s) ==
    IF s \in ToSet(Best(r))
    THEN Weight[r] * (Common \div (60 + CHOOSE i \in DOMAIN Best(r) : Best(r)[i] = s))
    ELSE 0
FusedScore(s) == Share("embedding", s) + Share("bm25", s) + Share("ctags", s) + Share("graph", s)

\* The fused hits in any order their scores allow.
Fused ==
    LET union == UNION {ToSet(Best(r)) : r \in Route} IN
    {Cut(order, request.wanted) : order \in
        {o \in Orders(union) : \A i, j \in DOMAIN o :
            i < j => FusedScore(o[i]) >= FusedScore(o[j])}}

\* The snippets of a list that are not there yet, one after the other.
Extended(hits, list) ==
    LET upTo[n \in 0..Len(list)] ==
          IF n = 0 THEN hits
          ELSE IF list[n] \in ToSet(upTo[n - 1]) THEN upTo[n - 1] ELSE Append(upTo[n - 1], list[n])
    IN upTo[Len(list)]

\* Mutant: only the lists of two routes are looked at.
FilledFromTwo(hits) ==
    Cut(Extended(Extended(hits, ranked["embedding"]), ranked["bm25"]), request.wanted)

\* What is still missing comes from the routes' full lists, one after the other.
Filled(hits) ==
    LET two == Extended(Extended(hits, ranked["embedding"]), ranked["bm25"])
    IN Cut(Extended(Extended(two, ranked["ctags"]), ranked["graph"]), request.wanted)

\* Without hits the index is asked, but only if the semantic route was wanted.
Fuse ==
    /\ querying = "fuse"
    /\ \E hits \in Fused :
         IF hits # <<>>
         THEN reply' = [from |-> "routes", hits |-> Filled(hits)] /\ querying' = "answered"
         ELSE IF "embedding" \in request.routes
         THEN UNCHANGED reply /\ querying' = "ask index"
         ELSE reply' = [from |-> "nothing", hits |-> <<>>] /\ querying' = "answered"
    /\ UNCHANGED <<request, pool, taken, docs, rest, stack, vectors,
                   refused, ranked>>

\* The read API is missing or raises; or hits under a candidate's name stay,
\* any hits if there is no candidate; or there are none.
AskIndex ==
    /\ querying = "ask index"
    /\ \/ /\ reply' \in {[from |-> f, hits |-> <<>>] : f \in {"error", "index"}}
          /\ querying' = "answered"
       \/ pool # {} /\ querying' = "ask ripgrep" /\ UNCHANGED reply
    /\ UNCHANGED <<request, pool, taken, docs, rest, stack, vectors,
                   refused, ranked>>

\* Lines with a word of the query; none if ripgrep fails.
AskRipgrep ==
    /\ querying = "ask ripgrep"
    /\ reply' = [from |-> "ripgrep", hits |-> <<>>] /\ querying' = "answered"
    /\ UNCHANGED <<request, pool, taken, docs, rest, stack, vectors,
                   refused, ranked>>

CodeSearchNext ==
    \/ CollectCandidates \/ RankFiles \/ ReadSnippets \/ PickForIngestion
    \/ EmbedQuery \/ TakeBatch \/ EmbedBatch \/ BatchFails \/ RankByVector
    \/ RankByWords("bm25", "ctags") \/ RankByWords("ctags", "graph") \/ RankByGraph
    \/ Fuse \/ AskIndex \/ AskRipgrep

CodeSearchSpec == CodeSearchInit /\ [][CodeSearchNext]_codeSearchVars
-----------------------------------------------------------------------------
Distinct(seq) == Len(seq) = Cardinality(ToSet(seq))

CodeSearchTypeOK ==
    /\ request \in SearchConfigs
    /\ ToSet(taken) \subseteq pool /\ pool \subseteq CodeFile
    /\ Len(taken) <= IngestFiles /\ ChunksOf(taken) <= IngestChunks
    /\ ToSet(docs) \subseteq Snippet /\ Len(docs) <= MaxSnippets
    /\ ToSet(rest) \cup ToSet(vectors) \cup refused \subseteq ToSet(docs)
    /\ \A r \in Route : ToSet(ranked[r]) \subseteq ToSet(docs) /\ Distinct(ranked[r])
    /\ Len(reply.hits) <= request.wanted

Scored == UNION {ToSet(ranked[r]) : r \in Route}

(***************************************************************************)
(* An answer has as many hits as were asked for whenever the routes have   *)
(* scored that many snippets between them, none twice, although each gives *)
(* the fusion only its first few; and the index or an empty answer takes   *)
(* its place only when no route scored anything.                           *)
(* (memory_service.py:4984-5093)                                           *)
(***************************************************************************)
FullAnswer ==
    querying = "answered" =>
        IF reply.from = "routes"
        THEN /\ Distinct(reply.hits)
             /\ Len(reply.hits) = Least(request.wanted, Cardinality(Scored))
        ELSE Scored = {}
=============================================================================
