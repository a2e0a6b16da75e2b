--------------------------- MODULE CandidateRouting ---------------------------
(***************************************************************************)
(* Where a memory ends up: from a tool call of the LLM over attribution,   *)
(* validation, confidence and the merge policy of its schema to the node   *)
(* that holds it.  Sources: src/extraction/tool_builder.py and             *)
(* schemas/registry.py, src/commit/candidate_pipeline.py, routing_key.py   *)
(* and context_writer.py, src/code-version/core/validation.py,             *)
(* src/core/uri_resolver.py, src/code-version/commit/*.py,                 *)
(* src/code-version/service/api.py                                         *)
(*                                                                         *)
(* Several sessions are committed with one ContextWriter.  A key is the    *)
(* sequence of its words; what conversions do to a word are the functions  *)
(* Slug and Topic.  Writing a candidate is one step: the calls inside      *)
(* write_node and their conflicts are NodeStore.  The router makes its     *)
(* policies without a lock, but they have no state; no code registers a    *)
(* custom one.  commit_session_async, which nothing calls, is left out.    *)
(***************************************************************************)
EXTENDS Integers, Sequences, FiniteSets

CONSTANTS
    Conversation,         \* conversations, each with its RequestContext
    NoAgent,         \* ctx.agent_id is empty
    Contexts,        \* contexts to try: [Conversation -> [user, agent]]
    Answers,         \* sequences of tool calls the LLM may make in one extraction
    Memories,        \* candidates handed to write_memory as they are
    Slug,            \* [word -> its slug, "" when no character is allowed in one]
    Topic,           \* [word -> canonical word of its synonyms]
    SchemaSets,      \* memory types whose YAML file could be loaded
    RoutingBudgets   \* bounds: commits, single writes, failures (one is chosen)

VARIABLES
    context,    \* context of each session
    schemas,    \* memory types of the SchemaRegistry
    memories,   \* nodes: [URI -> texts in it]
    known,      \* _executed_ops: fingerprints of the writer
    work,       \* [Conversation -> candidates still to write, counters, all done]
    serial,     \* unique ids handed out
    toRoute,     \* what is left of the bounds
    fates        \* history: what became of each candidate that was written

routingVars == <<context, schemas, memories, known, work, serial, toRoute, fates>>

\* The elements that pass, in their order (SelectSeq, which no prover unfolds).
Only(seq, Test(_)) ==
    LET upTo[i \in 0..Len(seq)] ==
          IF i = 0 THEN <<>>
          ELSE IF Test(seq[i]) THEN Append(upTo[i - 1], seq[i]) ELSE upTo[i - 1]
    IN upTo[Len(seq)]
-----------------------------------------------------------------------------
\* The schema definitions: whose memory, and how it is updated.
Schema ==
    LET Type(scope, mode, single) == [scope |-> scope, mode |-> mode, single |-> single] IN
    [profile |-> Type("user", "upsert", TRUE), preference |-> Type("user", "upsert", FALSE),
     entity |-> Type("user", "upsert", FALSE), event |-> Type("user", "add_only", FALSE),
     case |-> Type("agent", "add_only", FALSE), pattern |-> Type("user", "upsert", FALSE),
     skill |-> Type("agent", "upsert", FALSE), tool |-> Type("agent", "upsert", FALSE)]

Dated == {"event", "case"}
Unsaid == 100   \* a call without a confidence
Default == 5    \* confidence in tenths, of a call without one and of the threshold

\* parse_tool_call: a call of an unknown tool, or with a value that cannot be
\* converted or is outside its enum, is dropped.  Missing fields are made up.
Understood(call) == call.kind \in schemas /\ call.shape # "untyped"
Prefilled(call) ==
    [call EXCEPT !.sure = IF @ = Unsaid THEN Default ELSE @,
        !.key = IF @ # <<>> THEN @ ELSE IF call.about # "" THEN <<call.about>> ELSE <<"unnamed">>]
Parsed(call) ==
    LET full == Prefilled(call) IN
    [kind |-> call.kind, scope |-> Schema[call.kind].scope,
     key |-> IF call.kind \in Dated THEN Append(full.key, "now") ELSE full.key,
     sure |-> full.sure, speaker |-> call.speaker, basis |-> call.basis,
     shape |-> call.shape, text |-> call.text]

\* Mutant: any basis is good enough.
AttributedToAll(c) ==
    IF c.kind # "profile" \/ c.basis # "none" \/ c.speaker \in {"none", "user"} THEN c
    ELSE [c EXCEPT !.kind = "entity", !.scope = "user", !.key = <<c.speaker>> \o @]

\* validate_attribution: what is said of or by another becomes an entity.
Attributed(c) ==
    IF \/ c.kind # "profile" \/ c.basis = "self"
       \/ c.basis = "none" /\ c.speaker \in {"none", "user"}
    THEN c
    ELSE [c EXCEPT !.kind = "entity", !.scope = "user",
            !.key = <<IF c.speaker = "none" THEN "unknown" ELSE c.speaker>> \o @]

\* validate_candidate: a text too long by more than a tenth, or not UTF-8,
\* raises, and so does a key that is the category; a key without a legal
\* character is replaced by its hash.
Bounded(c) == c.shape # "long"
Acceptable(c) == Bounded(c) /\ c.key # <<c.kind>>
SafeKey(key) ==
    LET slug == [i \in DOMAIN key |-> Slug[key[i]]]
    IN IF slug = <<"">> THEN <<"auto", key[1]>> ELSE slug
Validated(c) ==
    [c EXCEPT !.key = SafeKey(@), !.sure = IF @ < 0 THEN 0 ELSE IF @ > 10 THEN 10 ELSE @]

\* CandidatePipeline: extraction, then the confidence threshold; nothing is
\* deduplicated.
CandidatesOf(calls) ==
    LET parsed == Only(calls, Understood)
        said == [i \in DOMAIN parsed |-> Attributed(Parsed(parsed[i]))]
        kept == Only(said, Acceptable)
    IN [i \in DOMAIN kept |-> Validated(kept[i])]
Confident(c) == c.sure >= Default
-----------------------------------------------------------------------------
\* PolicyRouter.route.
PolicyOf(kind) ==
    CASE kind \in {"code", "natural_language", "tool_outputs"} -> kind
      [] kind \in {"skill", "tool"} /\ kind \in schemas -> "accumulate"
      [] kind \in schemas \ {"skill", "tool"} ->
           IF Schema[kind].mode = "add_only" THEN "append"
           ELSE IF Schema[kind].single THEN "profile" ELSE "topic"
      [] OTHER -> "none"

\* Policies that merge into what is there; the others put a new text over it.
Merging == {"topic", "accumulate", "natural_language"}

\* normalize_routing_key: synonyms of whole keys.
Canonical(key) == IF Len(key) = 1 THEN <<Topic[key[1]]>> ELSE key

\* The node a policy resolves for a candidate of session s: its owner, its key,
\* and a unique id for what never shares a node.
OwnerOf(c, s) ==
    context[s][CASE PolicyOf(c.kind) = "natural_language" -> "user"
                 [] PolicyOf(c.kind) = "tool_outputs" -> "agent"
                 [] PolicyOf(c.kind) = "code" -> c.scope
                 [] OTHER -> Schema[c.kind].scope]
Keyless(c) ==
    PolicyOf(c.kind) \in {"natural_language", "tool_outputs"} /\ c.key \in {<<>>, <<"default">>}
NodeKey(c) ==
    IF PolicyOf(c.kind) = "profile" \/ Keyless(c) THEN <<>>
    ELSE IF PolicyOf(c.kind) \in {"append", "accumulate", "code"} THEN c.key
    ELSE Canonical(c.key)
NodeOf(c, s) ==
    [kind |-> c.kind, owner |-> OwnerOf(c, s), key |-> NodeKey(c),
     id |-> IF PolicyOf(c.kind) = "append" \/ Keyless(c) THEN serial + 1 ELSE 0]

\* The action of the WritePlan.
Action(c, node) ==
    IF node \notin DOMAIN memories THEN "create"
    ELSE IF PolicyOf(c.kind) = "code" THEN "skip" ELSE "merge"

\* ArchiveBuilder: the texts of the node after a create or a merge.  Where it
\* merges, an LLM is asked to keep every detail, and both are joined without it.
MergedTexts(c, node) ==
    IF PolicyOf(c.kind) \in Merging THEN memories[node] \cup {c.text} ELSE {c.text}
TextsAfter(c, node) ==
    IF node \in DOMAIN memories THEN MergedTexts(c, node) ELSE {c.text}

\* A memory of the agent's, and the session has none.
Agentless(c, s) == c.scope = "agent" /\ context[s].agent = NoAgent

\* What write_candidate makes of c, when no call fails.
RouteAndWrite(c, s, node, outcome) ==
    LET print == <<node, Action(c, node), s, c.text[2]>> IN
    CASE Agentless(c, s) ->
           outcome = "skipped" /\ UNCHANGED <<memories, known, serial>>
      [] ~Agentless(c, s) /\ PolicyOf(c.kind) = "none" ->
           outcome = "failed" /\ UNCHANGED <<memories, known, serial>>
      [] OTHER ->
           /\ serial' = serial + 1
           /\ IF Action(c, node) = "skip" \/ print \in known
              THEN /\ outcome = IF Action(c, node) = "skip" THEN "skipped" ELSE "duplicate"
                   /\ UNCHANGED <<memories, known>>
              ELSE /\ outcome = "written"
                   /\ memories' = [n \in DOMAIN memories \cup {node} |->
                                     IF n = node THEN TextsAfter(c, node) ELSE memories[n]]
                   /\ known' = known \cup {print}

\* The node of c, or none when it is not planned at all.
Nowhere == [kind |-> "none", owner |-> NoAgent, key |-> <<>>, id |-> 0]
PlannedNode(c, s) ==
    IF PolicyOf(c.kind) = "none" \/ Agentless(c, s)
    THEN Nowhere ELSE NodeOf(c, s)
\* The user said it of himself (or, as far as is known, nobody else did).
Own(c) == c.basis = "self" \/ (c.basis = "none" /\ c.speaker \in {"none", "user"})
WriteOutcome == {"written", "duplicate", "skipped", "failed"}
Tell(c, s, node, outcome) ==
    fates' = fates \cup {[text |-> c.text, own |-> Own(c), by |-> s, node |-> node,
                       outcome |-> outcome]}

Tallied(w, outcome) ==
    [w EXCEPT !.left = Tail(@),
              !.written = @ + IF outcome \in {"written", "duplicate"} THEN 1 ELSE 0,
              !.skipped = @ + IF outcome = "skipped" THEN 1 ELSE 0,
              !.raised = @ + IF outcome = "failed" THEN 1 ELSE 0]
NoWork == [left |-> <<>>, extracted |-> 0, kept |-> 0, written |-> 0, skipped |-> 0, raised |-> 0]
-----------------------------------------------------------------------------
\* commit_session: the LLM answers with some calls, or the extractor fails,
\* which is logged and leaves no candidate.
Extract(s, calls) ==
    /\ work[s].left = <<>> /\ toRoute.commits > 0
    /\ toRoute' = [toRoute EXCEPT !.commits = @ - 1]
    /\ LET signed == [i \in DOMAIN calls |-> [calls[i] EXCEPT !.text = <<s, @>>]]
           candidates == CandidatesOf(signed)
           kept == Only(candidates, Confident)
       IN work' = [work EXCEPT ![s] = [NoWork EXCEPT !.left = kept,
                     !.extracted = Len(candidates), !.kept = Len(kept)]]
    /\ UNCHANGED <<context, schemas, memories, known, serial, fates>>

\* write_candidates: one after the other, whatever happens to one.
WriteNext(s) ==
    /\ work[s].left # <<>>
    /\ LET c == Head(work[s].left)
           node == PlannedNode(c, s)
       IN \E outcome \in WriteOutcome :
            /\ \/ RouteAndWrite(c, s, node, outcome) /\ UNCHANGED toRoute
               \/ /\ toRoute.failures > 0 /\ node # Nowhere /\ outcome = "failed"
                  /\ toRoute' = [toRoute EXCEPT !.failures = @ - 1]
                  /\ serial' = serial + 1 /\ UNCHANGED <<memories, known>>
            /\ Tell(c, s, node, outcome)
            /\ work' = [work EXCEPT ![s] = Tallied(@, outcome)]
    /\ UNCHANGED <<context, schemas>>

\* write_memory: one candidate, neither validated nor filtered.
WriteMemory(s, m) ==
    /\ toRoute.singles > 0
    /\ LET c == [m EXCEPT !.text = <<s, @>>]
           node == PlannedNode(c, s)
       IN \E outcome \in WriteOutcome :
            RouteAndWrite(c, s, node, outcome) /\ Tell(c, s, node, outcome)
    /\ toRoute' = [toRoute EXCEPT !.singles = @ - 1]
    /\ UNCHANGED <<context, schemas, work>>

\* What a tool call and a candidate hold.  One that is handed to write_memory
\* says nothing of who said it (api.py:406-417, 676-686).
CallShape ==
    [kind : STRING, key : Seq(STRING), about : STRING, sure : Int, speaker : STRING,
     basis : STRING, shape : STRING, text : STRING]
CandidateShape ==
    [kind : STRING, scope : {"user", "agent"}, key : Seq(STRING), sure : Int,
     speaker : STRING, basis : STRING, shape : STRING, text : STRING]

ASSUME RoutingAssumption ==
    /\ SchemaSets \subseteq SUBSET DOMAIN Schema
    /\ Answers \subseteq Seq(CallShape)
    /\ Memories \subseteq {m \in CandidateShape : m.speaker = "none" /\ m.basis = "none"}

\* The counts commit_session answers with.
Failed(s) == work[s].kept - work[s].written - work[s].skipped

RoutingInit ==
    /\ context \in Contexts /\ schemas \in SchemaSets /\ toRoute \in RoutingBudgets
    /\ memories = <<>> /\ known = {} /\ serial = 0 /\ fates = {}
    /\ work = [s \in Conversation |-> NoWork]

RoutingNext ==
    \E s \in Conversation :
        \/ \E calls \in Answers \cup {<<>>} : Extract(s, calls)
        \/ WriteNext(s)
        \/ \E m \in Memories : WriteMemory(s, m)

RoutingSpec == RoutingInit /\ [][RoutingNext]_routingVars
-----------------------------------------------------------------------------
RoutingTypeOK ==
    /\ context \in Contexts /\ schemas \in SchemaSets /\ serial \in Nat
    /\ \A s \in Conversation : Len(work[s].left) + work[s].written + work[s].skipped
                            + work[s].raised = work[s].kept

(***************************************************************************)
(* The profile holds only what the user says of himself, or nobody else is *)
(* known to have said: a fact of another person goes to an entity, or      *)
(* nowhere, on every way to a node.                                        *)
(* (validation.py:267-322)                                                 *)
(***************************************************************************)
ProfileIsOwn ==
    \A t \in fates : t.node.kind = "profile" /\ t.outcome = "written" => t.own

(***************************************************************************)
(* What is reported as written is there: in a node of the caller's own     *)
(* user or agent, next to what other candidates put there, except in the   *)
(* two categories whose newest text replaces the others; and an event or a *)
(* case never shares its node.  A duplicate is one only of a text this     *)
(* session has written to that node.                                       *)
(* (api.py:164-169, merge_policies.py, archive_builder.py:171-220)         *)
(***************************************************************************)
WrittenIsThere ==
    /\ \A t \in fates : t.outcome \in {"written", "duplicate"} =>
         /\ t.node \in DOMAIN memories
         /\ t.node.owner \in {context[t.by].user, context[t.by].agent}
         /\ t.node.kind \in {"profile", "tool_outputs"} \/ t.text \in memories[t.node]
         /\ \E w \in fates : w.outcome = "written" /\ <<w.text, w.by, w.node>> = <<t.text, t.by, t.node>>
    /\ \A n \in DOMAIN memories : n.kind \in Dated => Cardinality(memories[n]) = 1
    /\ \A s \in Conversation : work[s].left = <<>> => Failed(s) = work[s].raised

\* Both, as the run checks them.
CandidatesLand == ProfileIsOwn /\ WrittenIsThere
=============================================================================
