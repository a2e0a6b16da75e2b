----------------------------- MODULE TreeSearch -----------------------------
(***************************************************************************)
(* The search of the retrieval pipeline: from the hits of a vector search  *)
(* over the whole index and from the roots, directories are opened best    *)
(* first, their children get a score between their own and the parent's,   *)
(* and the search stops when nothing is left or the best hits no longer    *)
(* change.  Of the best hits, those of level 2 are the answer.  Sources:   *)
(*   src/retrieval/hierarchical_searcher.py, seed_retriever.py,            *)
(*   result_ranker.py, pipeline.py (stages 2 to 4).                        *)
(*                                                                         *)
(* Similarities are multiples of 2^depth and alpha is 1/2, so that halves  *)
(* are integers.  The order of hits with equal scores is left open;        *)
(* hotness, which reorders the answer only, and the limit on the children  *)
(* of one directory (20 or more) are left out.                             *)
(***************************************************************************)
EXTENDS Integers, FiniteSets, Sequences

CONSTANTS
    Entry,           \* records of the index, by URI
    Level2,          \* those of level 2 (content.md of a node)
    SearchRoot,      \* _get_root_uris: a URI without a record
    Parents,         \* [Entry -> its parent_uri]
    Similarities,    \* assignments to try: [Entry -> similarity]
    SeedCount,       \* global_search_topk
    TopK,            \* top_k of the query
    MaxRounds        \* max_convergence_rounds

ASSUME SearchAssumption ==
    /\ IsFiniteSet(Entry) /\ Level2 \subseteq Entry /\ SearchRoot \notin Entry
    /\ Parents \in [Entry -> (Entry \ Level2) \cup {SearchRoot}]
    /\ Similarities \subseteq [Entry -> Int]
    /\ SeedCount \in Nat /\ TopK \in Nat \ {0} /\ MaxRounds \in Nat \ {0}

VARIABLES
    similarity,  \* [Entry -> similarity to the query]
    searching,   \* next step: seeds, the loop, the end
    dirQueue,    \* dir_queue: pairs of a score and a URI
    visited,
    found,       \* collected_by_uri: [URIs found so far -> score]
    prevTop,     \* prev_topk_uris
    rounds,      \* convergence_rounds
    hits         \* URIs of the answer

searchVars == <<similarity, searching, dirQueue, visited, found, prevTop,
                rounds, hits>>

SearchInit ==
    /\ similarity \in Similarities
    /\ searching = "seed" /\ dirQueue = {} /\ visited = {} /\ found = <<>>
    /\ prevTop = {} /\ rounds = 0 /\ hits = {}

\* The best k of a scored set (ties in any order).
BestOf(score, k) ==
    {T \in SUBSET DOMAIN score :
        /\ Cardinality(T) = IF Cardinality(DOMAIN score) < k
                            THEN Cardinality(DOMAIN score) ELSE k
        /\ \A t \in T, u \in DOMAIN score \ T : score[u] <= score[t]}

\* SeedRetriever.search: level 2 hits are candidates, others starting points,
\* and so are the roots, with score 0.
Seed ==
    /\ searching = "seed"
    /\ \E seeds \in BestOf(similarity, SeedCount) :
         /\ found' = [s \in seeds \cap Level2 |-> similarity[s]]
         /\ dirQueue' = {<<similarity[s], s>> : s \in seeds \ Level2}
                          \cup {<<0, SearchRoot>>}
    /\ searching' = "loop"
    /\ UNCHANGED <<similarity, visited, prevTop, rounds, hits>>

HeapTop == {q \in dirQueue : \A r \in dirQueue : r[1] <= q[1]}
Children(uri) == {e \in Entry : Parents[e] = uri}

\* Score propagation; a parent with score 0 does not count.
Propagated(child, parent) ==
    IF parent # 0 THEN (similarity[child] + parent) \div 2 ELSE similarity[child]

\* A child that was found before keeps its score unless the new one is higher.
Merged(opened) ==
    [e \in DOMAIN found \cup DOMAIN opened |->
        IF e \in DOMAIN found /\ (e \notin DOMAIN opened \/ opened[e] <= found[e])
        THEN found[e] ELSE opened[e]]

\* Convergence: the same best TopK hits MaxRounds times in a row.
Converges(top) ==
    IF top = prevTop /\ Cardinality(top) >= TopK
    THEN /\ rounds' = rounds + 1 /\ UNCHANGED prevTop
         /\ searching' = IF rounds + 1 >= MaxRounds THEN "rank" ELSE "loop"
    ELSE rounds' = 0 /\ prevTop' = top /\ UNCHANGED searching

\* The queue's first is popped, and passed over if it was visited or has no
\* children.
Pass ==
    /\ searching = "loop"
    /\ \E q \in HeapTop :
         /\ q[2] \in visited \/ Children(q[2]) = {}
         /\ dirQueue' = dirQueue \ {q} /\ visited' = visited \cup {q[2]}
    /\ UNCHANGED <<similarity, searching, found, prevTop, rounds, hits>>

\* It is opened: children above the threshold (0) are found, and queued if
\* they are not of level 2.
Open ==
    /\ searching = "loop"
    /\ \E q \in HeapTop :
         LET uri == q[2]
             opened == [e \in {c \in Children(uri) : Propagated(c, q[1]) > 0} |->
                           Propagated(e, q[1])]
         IN /\ uri \notin visited /\ Children(uri) # {}
            /\ visited' = visited \cup {uri}
            /\ dirQueue' = (dirQueue \ {q}) \cup
                 {<<opened[e], e>> : e \in (DOMAIN opened \ Level2) \ visited'}
            /\ found' = Merged(opened)
            /\ \E top \in BestOf(found', TopK) : Converges(top)
    /\ UNCHANGED <<similarity, hits>>

\* Nothing is left to open.
Exhausted ==
    /\ searching = "loop" /\ dirQueue = {}
    /\ searching' = "rank"
    /\ UNCHANGED <<similarity, dirQueue, visited, found, prevTop, rounds, hits>>

\* Mutant: hits of level 2 only from the directories opened, not the seeds.
RankOpened ==
    /\ searching = "rank"
    /\ \E top \in BestOf(found, TopK) :
         hits' = {t \in top \cap Level2 : Parents[t] \in visited}
    /\ searching' = "done"
    /\ UNCHANGED <<similarity, dirQueue, visited, found, prevTop, rounds>>

\* The best TopK of all levels, then ResultRanker keeps level 2.
Rank ==
    /\ searching = "rank"
    /\ \E top \in BestOf(found, TopK) : hits' = top \cap Level2
    /\ searching' = "done"
    /\ UNCHANGED <<similarity, dirQueue, visited, found, prevTop, rounds>>

SearchNext == Seed \/ Pass \/ Open \/ Exhausted \/ Rank

SearchSpec == SearchInit /\ [][SearchNext]_searchVars
-----------------------------------------------------------------------------
SearchTypeOK ==
    /\ similarity \in [Entry -> Int]
    /\ searching \in {"seed", "loop", "rank", "done"}
    /\ dirQueue \subseteq Int \X ((Entry \ Level2) \cup {SearchRoot})
    /\ visited \subseteq (Entry \ Level2) \cup {SearchRoot}
    /\ DOMAIN found \subseteq Entry /\ \A e \in DOMAIN found : found[e] \in Int
    /\ prevTop \subseteq Entry /\ rounds \in 0..MaxRounds
    /\ hits \subseteq Level2

(***************************************************************************)
(* A level 2 hit that was found is missing from the answer only because    *)
(* top_k others with no lower score were found: but these may well be      *)
(* directories and nodes, which the answer leaves out, so that it has      *)
(* fewer than top_k hits, or none.                                         *)
(* (hierarchical_searcher.py:146-160, result_ranker.py:62-76)              *)
(***************************************************************************)
MissingOutranked ==
    searching = "done" =>
        \A e \in (DOMAIN found \cap Level2) \ hits :
            Cardinality({o \in DOMAIN found \ {e} : found[o] >= found[e]}) >= TopK
=============================================================================
