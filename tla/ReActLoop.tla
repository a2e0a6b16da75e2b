----------------------------- MODULE ReActLoop ------------------------------
(***************************************************************************)
(* The lazy mode of the extraction: a loop in which the LLM may read nodes *)
(* with tools before it answers with candidate memories.  An answer that   *)
(* would write to a node that exists and was not read is sent back once,   *)
(* with the node's text.  If the loop raises, one eager call takes its     *)
(* place.  Sources:                                                        *)
(*   src/extraction/react_loop.py (ExtractionReActLoop.run),               *)
(*   src/extraction/tools.py (Extractor._structure_span_lazy).             *)
(*                                                                         *)
(* A candidate is the node it would be written to.  An LLM that is given   *)
(* no tools calls none.                                                    *)
(***************************************************************************)
EXTENDS Naturals

CONSTANTS
    Node,            \* nodes the candidates may be about
    AddOnly,         \* those of schemas that only add (schema.is_add_only)
    MaxIterations    \* max_iterations

ASSUME LoopAssumption == AddOnly \subseteq Node /\ MaxIterations \in Nat \ {0}

VARIABLES
    existing,    \* nodes in the store
    step,        \* next step
    iteration,
    limit,       \* max_iterations, which the loop extends
    toolsOff,    \* _disable_tools_for_iteration, never reset
    reread,      \* _did_safety_reread
    read,        \* _read_files
    timedOut,    \* timeout_seconds have passed
    answer,      \* candidates of the current answer
    \* History, read by properties only:
    shown,       \* nodes whose text the LLM was given
    unreadable   \* nodes whose reading failed

loopVars == <<existing, step, iteration, limit, toolsOff, reread, read, timedOut,
              answer, shown, unreadable>>

\* What was prefetched counts as read.
LoopInit ==
    /\ existing \in SUBSET Node
    /\ \E prefetched \in SUBSET existing : read = prefetched /\ shown = prefetched
    /\ step = "top" /\ iteration = 0 /\ limit = MaxIterations
    /\ toolsOff = FALSE /\ reread = FALSE /\ timedOut = FALSE
    /\ answer = {} /\ unreadable = {}

\* Mutant: an extension of the limit leaves the tools on.
ExtendKeepsTools(off) ==
    /\ limit' = IF iteration >= limit THEN limit + 1 ELSE limit
    /\ toolsOff' = (toolsOff \/ off)

\* Tool calls in the last iteration extend the limit and end the use of tools.
ExtendForTools(off) ==
    /\ limit' = IF iteration >= limit THEN limit + 1 ELSE limit
    /\ toolsOff' = (toolsOff \/ off \/ iteration >= limit)

\* The head of the loop: the limit, then the timeout.
Iterate ==
    /\ step = "top"
    /\ IF iteration < limit
       THEN /\ iteration' = iteration + 1
            /\ step' = IF timedOut /\ iteration > 0 THEN "done" ELSE "ask"
       ELSE step' = "done" /\ UNCHANGED iteration
    /\ UNCHANGED <<existing, limit, toolsOff, reread, read, timedOut, answer,
                   shown, unreadable>>

\* The LLM calls tools: reads, of which some fail, and others, which may be
\* unknown.  A call of an extraction tool is answered "recorded", no more.
ToolCalls ==
    /\ step = "ask" /\ ~toolsOff
    /\ \E uris \in SUBSET Node, unknown \in BOOLEAN, failing \in SUBSET existing :
         /\ failing \subseteq uris
         /\ read' = read \cup uris
         /\ shown' = shown \cup ((uris \cap existing) \ failing)
         /\ unreadable' = unreadable \cup failing
         /\ ExtendForTools(unknown)
    /\ timedOut' \in {timedOut, TRUE} /\ step' = "top"
    /\ UNCHANGED <<existing, iteration, reread, answer>>

\* The LLM answers with candidates.
Answer ==
    /\ step = "ask"
    /\ answer' \in SUBSET Node \ {{}}
    /\ timedOut' \in {timedOut, TRUE} /\ step' = "check"
    /\ UNCHANGED <<existing, iteration, limit, toolsOff, reread, read, shown, unreadable>>

\* No call and no candidate, or the call failed: another try without tools.
NoAnswer ==
    /\ step = "ask"
    /\ timedOut' \in {timedOut, TRUE}
    /\ IF iteration >= limit THEN step' = "done" /\ UNCHANGED toolsOff
                             ELSE step' = "top" /\ toolsOff' = TRUE
    /\ UNCHANGED <<existing, iteration, limit, reread, read, answer, shown, unreadable>>

\* Mutant: nodes are compared with what was read only while tools are on.
UnreadWithTools ==
    IF reread \/ toolsOff THEN {} ELSE {n \in answer \ AddOnly : n \in existing \ read}

\* _check_unread_existing_files.
Unread == IF reread THEN {} ELSE {n \in answer \ AddOnly : n \in existing \ read}

\* The answer is checked: it is final, or its unread nodes are fetched (some
\* of which may fail) and the LLM is asked again.
Accept ==
    /\ step = "check" /\ Unread = {}
    /\ step' = "done"
    /\ UNCHANGED <<existing, iteration, limit, toolsOff, reread, read, timedOut,
                   answer, shown, unreadable>>

Refetch ==
    /\ step = "check" /\ Unread # {}
    /\ \E fetched \in SUBSET Unread :
         /\ read' = read \cup fetched /\ shown' = shown \cup fetched
         /\ unreadable' = unreadable \cup (Unread \ fetched)
    /\ reread' = TRUE /\ answer' = {} /\ step' = "top"
    /\ limit' = IF iteration >= limit THEN limit + 1 ELSE limit
    /\ UNCHANGED <<existing, iteration, toolsOff, timedOut>>

\* fs.exists raises, and the loop with it: one eager call without reading.
CheckFails ==
    /\ step = "check" /\ ~reread /\ (answer \ AddOnly) \ read # {}
    /\ step' = "eager" /\ answer' = {}
    /\ UNCHANGED <<existing, iteration, limit, toolsOff, reread, read, timedOut,
                   shown, unreadable>>

Eager ==
    /\ step = "eager"
    /\ answer' \in SUBSET Node /\ step' = "fallback"
    /\ UNCHANGED <<existing, iteration, limit, toolsOff, reread, read, timedOut,
                   shown, unreadable>>

LoopNext ==
    \/ Iterate \/ ToolCalls \/ Answer \/ NoAnswer \/ Accept \/ Refetch
    \/ CheckFails \/ Eager

LoopSpec == LoopInit /\ [][LoopNext]_loopVars
-----------------------------------------------------------------------------
LoopTypeOK ==
    /\ existing \subseteq Node
    /\ step \in {"top", "ask", "check", "eager", "done", "fallback"}
    /\ iteration \in Nat /\ limit \in Nat
    /\ toolsOff \in BOOLEAN /\ reread \in BOOLEAN /\ timedOut \in BOOLEAN
    /\ read \subseteq Node /\ answer \subseteq Node
    /\ shown \subseteq existing /\ unreadable \subseteq existing

(***************************************************************************)
(* The loop never returns an answer that writes to an existing node whose  *)
(* text the LLM was not given, whatever tools it called or was denied and  *)
(* in whichever iteration it answered: unless the node could not be read,  *)
(* only adds, or the one safety reread was already spent on an earlier     *)
(* answer.  (react_loop.py:265-293, 639-682)                               *)
(***************************************************************************)
AnswerWasRead ==
    step = "done" /\ ~reread =>
        answer \cap existing \subseteq AddOnly \cup shown \cup unreadable

(***************************************************************************)
(* The loop ends: it extends its limit when the last iteration brings tool *)
(* calls or a reread, each at most once, so the LLM is asked no more than  *)
(* max_iterations + 2 times.  (react_loop.py:208-307)                      *)
(***************************************************************************)
BoundedLoop == iteration <= limit /\ limit <= MaxIterations + 2
=============================================================================
