---------------------------- MODULE MCComponents ----------------------------
(***************************************************************************)
(* Small instances for TLC of the components that do not share state with  *)
(* each other: the disjoint union of their state spaces.  `subject` is the *)
(* component that runs; the others rest in one initial state.              *)
(***************************************************************************)
EXTENDS NodeStore, CodeSync, DirectoryDag, PromptCompose, TranscriptIngest,
        ReActLoop, Extraction, TreeSearch, CodeSearch, CodeChunks,
        ToolOutputs, MCServer, MCService, TLC

CONSTANTS u1, u2, c1, c2, f1, f2, s1, d0, d1, d2, d3, l1, l2, n3, e1, e2, e3, e4,
          g1, m1, m2, m3, k1, k2, k3, q1, q2, q3, q4, q5

CONSTANT Subjects    \* components to try

VARIABLE subject

\* Only the subject moves, so that u1 and u2 stand for the two interchangeable
\* threads, hashes, runners or nodes, whichever the subject has.
Symmetry == Permutations({u1, u2}) \cup Permutations({c1, c2})

\* Bounds of NodeStore: three writes; two with a deletion and a visit of the
\* repair job; two with two visits and a restart.
NodeBudget(c, d, r, x) == [calls |-> c, deletes |-> d, repairs |-> r, crashes |-> x]
TheNodeBudgets == {NodeBudget(3, 0, 0, 0), NodeBudget(2, 1, 1, 0),
                   NodeBudget(2, 0, 2, 1)}

\* Bounds of CodeSync: a sync and two edits; a refresh or an ingestion next
\* to one sync and an edit; a restart among two syncs and an edit.
SyncBudget(e, s, j, x) == [edits |-> e, syncs |-> s, jobs |-> j, restarts |-> x]
TheSyncBudgets == {SyncBudget(2, 1, 0, 0), SyncBudget(1, 1, 1, 0),
                   SyncBudget(1, 2, 0, 1)}

\* Two refreshes or ingestions and no sync.
RefreshOnly == {SyncBudget(0, 0, 2, 0)}

\* The chunks of the second file name the first.
TheMentions == {<<f2, f1>>}

\* A tree with a file at each level, a broad one and a deep one.
TheTrees == {(d1 :> d0 @@ d2 :> d0 @@ d3 :> d1 @@ l1 :> d0 @@ l2 :> d1),
             (d1 :> d0 @@ d2 :> d0 @@ d3 :> d0 @@ l1 :> d1 @@ l2 :> d0),
             (d1 :> d0 @@ d2 :> d1 @@ d3 :> d2 @@ l1 :> d2 @@ l2 :> d3)}

\* Bounds of PromptCompose: two composes and two background jobs; one of each and a restart.
ComposeBudget(c, a, x) == [composes |-> c, archivings |-> a, restarts |-> x]
TheComposeBudgets == {ComposeBudget(2, 2, 0), ComposeBudget(1, 1, 1)}

\* One compose after one background job.
OneCompose == {ComposeBudget(1, 1, 0)}

otherVars == <<nodeVars, syncVars, dagVars, composeVars, ingestVars,
               loopVars, extractionVars, searchVars, codeSearchVars, chunksVars,
               toolVars, serverVars, serviceVars>>
allVars == <<subject, otherVars>>

\* Two spans whose prompts are equal.
TwoSame == {{e1, e2}}

\* A directory with three nodes, each of which has its content.
TheParents == (g1 :> "root" @@ m1 :> g1 @@ m2 :> g1 @@ m3 :> g1
                 @@ k1 :> m1 @@ k2 :> m2 @@ k3 :> m3)
\* The contents are ranked in every order, the directory above or below them.
Rankings == {c \in [1..3 -> {32, 40, 56}] : \A i, j \in 1..3 : c[i] = c[j] => i = j}
TheSimilarities ==
    {(g1 :> d @@ m1 :> 16 @@ m2 :> 24 @@ m3 :> 48
         @@ k1 :> c[1] @@ k2 :> c[2] @@ k3 :> c[3]) : d \in {8, 64}, c \in Rankings}

\* Two files of two chunks and one of one; more candidates, snippets and hits
\* than the limits let through.
TheSnippets == <<<<q1, q2>>, <<q3, q4>>, <<q5>>>>
TheRelations == {<<q1, q3>>, <<q3, q2>>, <<q5, q1>>}
SearchConfig(routes, n, ingest) == [routes |-> routes, wanted |-> n, ingest |-> ingest]
TheSearchConfigs ==
    {SearchConfig({"embedding", "graph"}, 2, FALSE), SearchConfig({"bm25", "ctags"}, 3, FALSE),
     SearchConfig({"embedding"}, 1, FALSE), SearchConfig({}, 2, TRUE)}

\* Files of up to five lines that are blank, short or as long as the target.
Source(length, defs) == [length |-> length, defs |-> defs]
TheSources ==
    {Source(l, <<>>) : l \in UNION {[1..n -> {0, 1, 4}] : n \in {0, 1, 2, 5}}}
    \cup {Source(l, <<<<1, 1>>, <<2, 4>>>>) :
             l \in {k \in [1..5 -> {0, 1, 4}] : k[1] > 0 /\ k[2] > 0}}

\* Bounds of ToolOutputs: three reads; three commands and a failure; a restart too.
ToolBudget(r, c, f, x) == [reads |-> r, commands |-> c, failures |-> f, restarts |-> x]
TheToolBudgets == {ToolBudget(3, 0, 0, 0), ToolBudget(0, 3, 1, 0), ToolBudget(0, 2, 1, 1)}

\* A component that is not the subject has one initial state.
Rests(component, canonical) == subject = component \/ canonical

Init ==
    /\ subject \in Subjects
    /\ Rests("node", policy = "append" /\ left = NodeBudget(3, 0, 0, 0)) /\ NodeInit
    /\ Rests("code", workspace = [f \in File |-> Absent]
                                  /\ budget = SyncBudget(2, 1, 0, 0)) /\ SyncInit
    /\ Rests("dag", tree = CHOOSE t \in TheTrees : t[d3] = d0) /\ DagInit
    /\ Rests("compose", rolling = TRUE /\ allowed = ComposeBudget(2, 2, 0)) /\ ComposeInit
    /\ Rests("ingest", serverUp = TRUE) /\ IngestInit
    /\ Rests("react", existing = {}) /\ LoopInit
    /\ Rests("extract", text = "none") /\ ExtractionInit
    /\ Rests("search", similarity = CHOOSE s \in Similarities : TRUE) /\ SearchInit
    /\ Rests("search code", request = SearchConfig({}, 2, TRUE)) /\ CodeSearchInit
    /\ Rests("chunk", source = Source(<<>>, <<>>)) /\ ChunksInit
    /\ Rests("tools", quota = ToolBudget(3, 0, 0, 0)) /\ ToolsInit
    /\ Rests("agfs", plugin = "queuefs" /\ backend = "memory") /\ ServerInit
    /\ Rests("service", service = "filter" /\ preset = "log"
                                          /\ input = [i \in 1..4 |-> "code"]) /\ ServiceInit

Next ==
    \/ /\ subject = "node" /\ NodeNext
       /\ UNCHANGED <<subject, syncVars, dagVars, composeVars,
                      ingestVars, loopVars, extractionVars, searchVars,
                      codeSearchVars, chunksVars, toolVars,
                      serverVars, serviceVars>>
    \/ /\ subject = "code" /\ SyncNext
       /\ UNCHANGED <<subject, nodeVars, dagVars, composeVars,
                      ingestVars, loopVars, extractionVars, searchVars,
                      codeSearchVars, chunksVars, toolVars,
                      serverVars, serviceVars>>
    \/ /\ subject = "dag" /\ DagNext
       /\ UNCHANGED <<subject, nodeVars, syncVars, composeVars,
                      ingestVars, loopVars, extractionVars, searchVars,
                      codeSearchVars, chunksVars, toolVars,
                      serverVars, serviceVars>>
    \/ /\ subject = "compose" /\ ComposeNext
       /\ UNCHANGED <<subject, nodeVars, syncVars, dagVars,
                      ingestVars, loopVars, extractionVars, searchVars,
                      codeSearchVars, chunksVars, toolVars,
                      serverVars, serviceVars>>
    \/ /\ subject = "ingest" /\ IngestNext
       /\ UNCHANGED <<subject, nodeVars, syncVars, dagVars,
                      composeVars, loopVars, extractionVars, searchVars,
                      codeSearchVars, chunksVars, toolVars,
                      serverVars, serviceVars>>
    \/ /\ subject = "react" /\ LoopNext
       /\ UNCHANGED <<subject, nodeVars, syncVars, dagVars,
                      composeVars, ingestVars, extractionVars, searchVars,
                      codeSearchVars, chunksVars, toolVars,
                      serverVars, serviceVars>>
    \/ /\ subject = "extract" /\ ExtractionNext
       /\ UNCHANGED <<subject, nodeVars, syncVars, dagVars,
                      composeVars, ingestVars, loopVars, searchVars,
                      codeSearchVars, chunksVars, toolVars,
                      serverVars, serviceVars>>
    \/ /\ subject = "search" /\ SearchNext
       /\ UNCHANGED <<subject, nodeVars, syncVars, dagVars,
                      composeVars, ingestVars, loopVars, extractionVars,
                      codeSearchVars, chunksVars, toolVars,
                      serverVars, serviceVars>>
    \/ /\ subject = "search code" /\ CodeSearchNext
       /\ UNCHANGED <<subject, nodeVars, syncVars, dagVars, composeVars, ingestVars,
                      loopVars, extractionVars, searchVars, chunksVars, toolVars,
                      serverVars, serviceVars>>
    \/ /\ subject = "chunk" /\ ChunksNext
       /\ UNCHANGED <<subject, nodeVars, syncVars, dagVars, composeVars, ingestVars,
                      loopVars, extractionVars, searchVars, codeSearchVars, toolVars,
                      serverVars, serviceVars>>
    \/ /\ subject = "tools" /\ ToolsNext
       /\ UNCHANGED <<subject, nodeVars, syncVars, dagVars, composeVars, ingestVars,
                      loopVars, extractionVars, searchVars, codeSearchVars, chunksVars,
                      serverVars, serviceVars>>
    \/ /\ subject = "agfs" /\ ServerNext
       /\ UNCHANGED <<subject, nodeVars, syncVars, dagVars, composeVars, ingestVars,
                      loopVars, extractionVars, searchVars, codeSearchVars, chunksVars,
                      toolVars, serviceVars>>
    \/ /\ subject = "service" /\ ServiceNext
       /\ UNCHANGED <<subject, nodeVars, syncVars, dagVars, composeVars, ingestVars,
                      loopVars, extractionVars, searchVars, codeSearchVars, chunksVars,
                      toolVars, serverVars>>

Spec == Init /\ [][Next]_allVars

\* Every variable of the subject keeps its type; the others keep their values.
TypesOK ==
    CASE subject = "node" -> NodeTypeOK
      [] subject = "code" -> SyncTypeOK
      [] subject = "dag" -> DagTypeOK
      [] subject = "compose" -> ComposeTypeOK
      [] subject = "ingest" -> IngestTypeOK
      [] subject = "react" -> LoopTypeOK
      [] subject = "extract" -> ExtractionTypeOK
      [] subject = "search" -> SearchTypeOK
      [] subject = "search code" -> CodeSearchTypeOK
      [] subject = "chunk" -> ChunksTypeOK
      [] subject = "tools" -> ToolsTypeOK
      [] subject = "agfs" -> ServerTypeOK
      [] subject = "service" -> ServiceTypeOK
=============================================================================
