----------------------------- MODULE Extraction -----------------------------
(***************************************************************************)
(* One commit_session: a first LLM call names the spans of the           *)
(* conversation worth extracting, a pool of threads asks the LLM about   *)
(* each, and the candidate memories that pass are written one by one.    *)
(* Sources:                                                              *)
(*   src/extraction/tools.py (Extractor.extract and what it calls),      *)
(*   src/commit/candidate_pipeline.py (CandidatePipeline),               *)
(*   src/code-version/service/api.py (MemoryWriteAPI.commit_session),    *)
(*   src/commit/context_writer.py (write_candidates).                    *)
(*                                                                       *)
(* A span yields at most one candidate, which has the span's name.  There*)
(* is one extractor, as in the code (_create_extractors).                *)
(***************************************************************************)
EXTENDS Naturals, FiniteSets

CONSTANTS
    Span,            \* spans the first call may name
    Full,            \* the span that is the whole conversation
    SamePrompt,      \* sets of spans whose final prompts are equal
    MaxWorkers       \* threads of the pool

ASSUME ExtractionAssumption ==
    /\ Full \in Span /\ IsFiniteSet(Span) /\ MaxWorkers \in Nat \ {0}
    /\ SamePrompt \subseteq SUBSET Span

VARIABLES
    phase,       \* next step of the calling thread
    text,        \* user messages: none, or less or more than the fallback needs
    named,       \* spans of the first call
    unique,      \* one of each group with the same prompt
    task,        \* [Span -> state of its request]
    collected,   \* spans whose future gave the caller its result
    candidates,  \* what extract returned, after validation
    saved,       \* candidates written
    unsaved      \* candidates whose writing failed or that are skipped

extractionVars == <<phase, text, named, unique, task, collected, candidates,
                    saved, unsaved>>

\* States of a request: what it found are no candidate, one that is dropped
\* (confidence, validation) or a good one.
Found == {"nothing", "dropped", "good"}
Working == {s \in Span : task[s] \in {"queued", "running"}}

ExtractionInit ==
    /\ phase = "identify" /\ text \in {"none", "short", "long"}
    /\ named = {} /\ unique = {}
    /\ task = [s \in Span |-> "none"]
    /\ collected = {} /\ candidates = {} /\ saved = {} /\ unsaved = {}

\* extract, up to the spans: without user messages none are looked for;
\* when none are found the whole conversation is taken, if it is long enough.
Identify ==
    /\ phase = "identify"
    /\ IF text = "none" THEN phase' = "return" /\ UNCHANGED named
       ELSE \E spans \in SUBSET (Span \ {Full}) :
              /\ named' = IF spans = {} /\ text = "long" THEN {Full} ELSE spans
              /\ phase' = IF named' = {} THEN "return" ELSE "prepare"
    /\ UNCHANGED <<text, unique, task, collected, candidates, saved, unsaved>>

\* The first call raises; the pipeline logs it and goes on without candidates.
IdentifyFails ==
    /\ phase = "identify" /\ text # "none"
    /\ phase' = "return"
    /\ UNCHANGED <<text, named, unique, task, collected, candidates, saved, unsaved>>

Same(s, t) == s = t \/ \E group \in SamePrompt : {s, t} \subseteq group

\* _prepare_unique_spans: the first span of each prompt stays (named in any
\* order); the requests are submitted to the pool.
Prepare ==
    /\ phase = "prepare"
    /\ \E first \in SUBSET named :
         /\ \A s \in named : Cardinality({t \in first : Same(s, t)}) = 1
         /\ unique' = first
         /\ task' = [s \in Span |-> IF s \in first THEN "queued" ELSE "none"]
    /\ phase' = "collect"
    /\ UNCHANGED <<text, named, collected, candidates, saved, unsaved>>

\* A thread of the pool takes a request (a single one runs in the caller).
StartRequest(s) ==
    /\ task[s] = "queued"
    /\ Cardinality({t \in Span : task[t] = "running"}) < MaxWorkers
    /\ task' = [task EXCEPT ![s] = "running"]
    /\ UNCHANGED <<phase, text, named, unique, collected, candidates, saved, unsaved>>

EndRequest(s) ==
    /\ task[s] = "running"
    /\ \E end \in Found \cup {"raised"} : task' = [task EXCEPT ![s] = end]
    /\ UNCHANGED <<phase, text, named, unique, collected, candidates, saved, unsaved>>

\* as_completed hands a finished request to the caller.
Collect(s) ==
    /\ phase = "collect" /\ s \notin collected /\ task[s] \in Found
    /\ collected' = collected \cup {s}
    /\ UNCHANGED <<phase, text, named, unique, task, candidates, saved, unsaved>>

\* Mutant: one that raised is logged and passed over.
CollectSkipsRaised(s) ==
    /\ phase = "collect" /\ task[s] = "raised" /\ s \notin collected
    /\ collected' = collected \cup {s}
    /\ UNCHANGED <<phase, text, named, unique, task, candidates, saved, unsaved>>

\* One that raised is raised again, out of the loop.
CollectRaised(s) ==
    /\ phase = "collect" /\ task[s] = "raised"
    /\ phase' = "unwind"
    /\ UNCHANGED <<text, named, unique, task, collected, candidates, saved, unsaved>>

\* Mutant: the caller does not wait for the requests that are left.
UnwindAtOnce ==
    /\ phase = "unwind"
    /\ phase' = "return"
    /\ UNCHANGED <<text, named, unique, task, collected, candidates, saved, unsaved>>

\* The pool's with block waits for the other requests, then the pipeline
\* logs the exception and has no candidates.
Unwind ==
    /\ phase = "unwind" /\ Working = {}
    /\ phase' = "return"
    /\ UNCHANGED <<text, named, unique, task, collected, candidates, saved, unsaved>>

\* All are collected: the confidence filter and validation.
Extracted ==
    /\ phase = "collect" /\ collected = unique
    /\ candidates' = {s \in collected : task[s] = "good"}
    /\ phase' = "return"
    /\ UNCHANGED <<text, named, unique, task, collected, saved, unsaved>>

\* write_candidates: one after another; a failure is logged.
WriteCandidate(s) ==
    /\ phase = "return" /\ s \in candidates \ (saved \cup unsaved)
    /\ \/ saved' = saved \cup {s} /\ UNCHANGED unsaved
       \/ unsaved' = unsaved \cup {s} /\ UNCHANGED saved
    /\ UNCHANGED <<phase, text, named, unique, task, collected, candidates>>

ExtractionNext ==
    \/ Identify \/ IdentifyFails \/ Prepare \/ Unwind \/ Extracted
    \/ \E s \in Span : \/ StartRequest(s) \/ EndRequest(s) \/ Collect(s)
                       \/ CollectRaised(s) \/ WriteCandidate(s)

ExtractionSpec == ExtractionInit /\ [][ExtractionNext]_extractionVars
-----------------------------------------------------------------------------
ExtractionTypeOK ==
    /\ phase \in {"identify", "prepare", "collect", "unwind", "return"}
    /\ text \in {"none", "short", "long"}
    /\ named \subseteq Span /\ unique \subseteq named
    /\ task \in [Span -> Found \cup {"none", "queued", "running", "raised"}]
    /\ collected \subseteq unique
    /\ candidates \subseteq collected /\ saved \subseteq candidates
    /\ unsaved \subseteq candidates

(***************************************************************************)
(* What is written comes from the whole conversation or not at all: when *)
(* candidates are written, no request has failed or is unanswered, and   *)
(* every span the first call named was asked about, itself or by another *)
(* with the same prompt.  (tools.py:371-389, 391-450)                    *)
(***************************************************************************)
AllSpansOrNone ==
    candidates # {} =>
        \A s \in named : \E t \in unique : Same(s, t) /\ task[t] \in Found

(***************************************************************************)
(* No request outlives its extraction: whether it ends with candidates or*)
(* with an exception, no thread of its pool is still asking the LLM.     *)
(* (tools.py:372-389)                                                    *)
(***************************************************************************)
NothingOutlives == phase = "return" => Working = {}
=============================================================================
