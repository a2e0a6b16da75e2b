---------------------------- MODULE DirectoryDag ----------------------------
(***************************************************************************)
(* One UPSERT_DIRECTORY event: the asyncio tasks that summarise a tree of*)
(* directories bottom-up.  A directory is dispatched, counts its children*)
(* down, and when the count is zero gets its summary: from the abstracts *)
(* of its files and the summaries its subdirectories reported.  The event*)
(* ends when the root reports, and tasks left over are then cancelled.   *)
(* Source: src/index/directory_event_handler.py, called by               *)
(*   src/index/outbox_worker.py (_process_upsert_directory).             *)
(*                                                                       *)
(* A step is the code of a task between two awaits that can suspend it;  *)
(* node.lock never does, for nothing is awaited under it.  The event loop*)
(* runs ready tasks in order of creation; here in any order.             *)
(***************************************************************************)
EXTENDS Naturals, FiniteSets

CONSTANTS
    Dir, Root,       \* directories; the one the event is about
    Leaf,            \* files
    Trees,           \* trees to try: [entry -> the directory it is in]
    MaxChildren,     \* max_children: of more, the listing is cut
    MaxLLM,          \* max_concurrent_llm
    DagFaults        \* listing, writing, embedding and indexing may raise

ASSUME DagAssumption ==
    /\ Root \in Dir /\ Dir \cap Leaf = {} /\ IsFiniteSet(Dir \cup Leaf)
    /\ Trees \subseteq [(Dir \cup Leaf) \ {Root} -> Dir]
    /\ MaxChildren \in Nat /\ MaxLLM \in Nat \ {0} /\ DagFaults \in BOOLEAN

VARIABLES
    tree,        \* the tree
    stage,       \* [Dir -> where its dispatch or summary task is]
    children,    \* [Dir -> children it was dispatched with]
    waitsFor,    \* [Dir -> pending: children that have not reported]
    heard,       \* [Dir -> subdirectories whose summary it was given]
    fileTasks,   \* files whose task has not run
    rootDone,    \* the event the handler waits for
    based        \* history: [Dir -> subdirectories its summary is made from]

dagVars == <<tree, stage, children, waitsFor, heard, fileTasks, rootDone, based>>

Stages == {"unknown", "dispatch", "listed", "summary", "queued", "llm",
           "write", "embed", "upsert", "done", "failed"}
Settled == {"done", "failed"}
Within(d) == {e \in (Dir \cup Leaf) \ {Root} : tree[e] = d}

DagInit ==
    /\ tree \in Trees
    /\ stage = [d \in Dir |-> IF d = Root THEN "dispatch" ELSE "unknown"]
    /\ children = [d \in Dir |-> {}]
    /\ waitsFor = [d \in Dir |-> 0]
    /\ heard = [d \in Dir |-> {}]
    /\ fileTasks = {} /\ rootDone = FALSE
    /\ based = [d \in Dir |-> {}]

\* Mutant: the summary starts with one child still missing.
CountDownEarly(p, at) ==
    /\ waitsFor' = [waitsFor EXCEPT ![p] = @ - 1]
    /\ stage' = IF waitsFor[p] <= 2 /\ at[p] = "listed"
                THEN [at EXCEPT ![p] = "summary"] ELSE at

\* _on_file_done and _on_child_done: a child of p reports, and the last one
\* makes the summary task.  `at` is stage with the change the child makes.
CountDown(p, at) ==
    /\ waitsFor' = [waitsFor EXCEPT ![p] = @ - 1]
    /\ stage' = IF waitsFor[p] = 1 /\ at[p] = "listed"
                THEN [at EXCEPT ![p] = "summary"] ELSE at

\* Directory d ends: the root ends the event, others report to the parent.
Settle(d, how) ==
    LET at == [stage EXCEPT ![d] = how] IN
    IF d = Root
    THEN stage' = at /\ rootDone' = TRUE /\ UNCHANGED <<waitsFor, heard>>
    ELSE /\ CountDown(tree[d], at)
         /\ heard' = IF how = "done" THEN [heard EXCEPT ![tree[d]] = @ \cup {d}]
                     ELSE heard
         /\ UNCHANGED rootDone

\* _dispatch_dir lists the children and makes their tasks; with none, the
\* summary task at once.
Dispatch(d) ==
    /\ stage[d] = "dispatch"
    /\ \E kept \in SUBSET Within(d) :
         /\ IF Cardinality(Within(d)) <= MaxChildren THEN kept = Within(d)
            ELSE Cardinality(kept) = MaxChildren
         /\ children' = [children EXCEPT ![d] = kept]
         /\ waitsFor' = [waitsFor EXCEPT ![d] = Cardinality(kept)]
         /\ stage' = [e \in Dir |->
              IF e = d THEN IF kept = {} THEN "summary" ELSE "listed"
              ELSE IF e \in kept THEN "dispatch" ELSE stage[e]]
         /\ fileTasks' = fileTasks \cup (kept \cap Leaf)
    /\ UNCHANGED <<tree, heard, rootDone, based>>

\* Mutant: a directory that cannot be listed is not reported.
DispatchFailsSilently(d) ==
    /\ DagFaults /\ stage[d] = "dispatch"
    /\ stage' = [stage EXCEPT ![d] = "failed"] /\ rootDone' = (rootDone \/ d = Root)
    /\ UNCHANGED <<tree, children, waitsFor, heard, fileTasks, based>>

DispatchFails(d) ==
    /\ DagFaults /\ stage[d] = "dispatch"
    /\ Settle(d, "failed")
    /\ UNCHANGED <<tree, children, fileTasks, based>>

\* _file_task: a file counts as done.
FileDone(f) ==
    /\ f \in fileTasks
    /\ fileTasks' = fileTasks \ {f}
    /\ CountDown(tree[f], stage)
    /\ UNCHANGED <<tree, children, heard, rootDone, based>>

\* _summary_task collects the summaries and takes the LLM semaphore, or
\* queues for it.
InLLM == {d \in Dir : stage[d] = "llm"}

StartSummary(d) ==
    /\ stage[d] = "summary"
    /\ based' = [based EXCEPT ![d] = heard[d]]
    /\ stage' = [stage EXCEPT ![d] = IF Cardinality(InLLM) < MaxLLM THEN "llm"
                                     ELSE "queued"]
    /\ UNCHANGED <<tree, children, waitsFor, heard, fileTasks, rootDone>>

\* The LLM answers, or the fallback takes its place; the semaphore passes to
\* one that queues for it.
Summarised(d) ==
    /\ stage[d] = "llm"
    /\ LET queue == {q \in Dir : stage[q] = "queued"} IN
       \E next \in IF queue = {} THEN {d} ELSE queue :
         stage' = [e \in Dir |-> IF e = d THEN "write"
                                 ELSE IF e = next THEN "llm" ELSE stage[e]]
    /\ UNCHANGED <<tree, children, waitsFor, heard, fileTasks, rootDone, based>>

\* The node is written, its texts embedded, the records upserted.
Store(d) ==
    /\ \/ /\ stage[d] = "write" /\ stage' = [stage EXCEPT ![d] = "embed"]
          /\ UNCHANGED <<waitsFor, heard, rootDone>>
       \/ /\ stage[d] = "embed" /\ stage' = [stage EXCEPT ![d] = "upsert"]
          /\ UNCHANGED <<waitsFor, heard, rootDone>>
       \/ stage[d] = "upsert" /\ Settle(d, "done")
    /\ UNCHANGED <<tree, children, fileTasks, based>>

StoreFails(d) ==
    /\ DagFaults /\ stage[d] \in {"write", "embed", "upsert"}
    /\ Settle(d, "failed")
    /\ UNCHANGED <<tree, children, fileTasks, based>>

\* asyncio.run returns once the root is done.
DagNext ==
    /\ ~rootDone
    /\ \/ \E d \in Dir : \/ Dispatch(d) \/ DispatchFails(d) \/ StartSummary(d)
                         \/ Summarised(d) \/ Store(d) \/ StoreFails(d)
       \/ \E f \in Leaf : FileDone(f)

DagSpec == DagInit /\ [][DagNext]_dagVars

-----------------------------------------------------------------------------
DagTypeOK ==
    /\ tree \in Trees /\ stage \in [Dir -> Stages]
    /\ children \in [Dir -> SUBSET (Dir \cup Leaf)]
    /\ waitsFor \in [Dir -> Nat]
    /\ heard \in [Dir -> SUBSET Dir] /\ based \in [Dir -> SUBSET Dir]
    /\ fileTasks \subseteq Leaf /\ rootDone \in BOOLEAN

(***************************************************************************)
(* The event always ends: as long as the root has not reported there is a*)
(* task that can run, whatever failed in the subtree.  (A lost count would*)
(* leave asyncio.run, and with it the polling thread, waiting for ever.) *)
(* (directory_event_handler.py:147-176, 239-245, 259-302)                *)
(***************************************************************************)
DagEnds ==
    \/ rootDone \/ fileTasks # {} \/ InLLM # {}
    \/ \E d \in Dir : stage[d] \in {"dispatch", "summary", "write", "embed", "upsert"}

(***************************************************************************)
(* Summaries are made bottom-up, each from the summaries of exactly those*)
(* subdirectories that have one: none is still on its way, and none that *)
(* failed is counted.  (directory_event_handler.py:300-302, 338-379)     *)
(***************************************************************************)
BottomUp ==
    \A d \in Dir : stage[d] \in {"queued", "llm", "write", "embed", "upsert", "done"} =>
        /\ \A c \in children[d] \cap Dir : stage[c] \in Settled
        /\ based[d] = {c \in children[d] \cap Dir : stage[c] = "done"}

=============================================================================
