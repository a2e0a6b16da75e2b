---------------------------- MODULE ModelClient ----------------------------
(***************************************************************************)
(* The clients of the language model and of the embedding model, which the *)
(* threads of a process share.  JSON answers are asked for in JSON mode    *)
(* until the service refuses it once, then as text from which they are     *)
(* extracted; tool calls that are required are asked for again; texts that *)
(* are refused are cut shorter and sent again; the caching clients keep    *)
(* the newest answers in a dictionary without a lock.  Sources:            *)
(*   src/providers/llm/openai_llm.py, src/providers/embedder/*.py,         *)
(*   create_* of src/code-version/providers/config.py                      *)
(*                                                                         *)
(* A step is one call of the service or one access to a cache.  A reply is *)
(* what each layer of the extraction makes of it: an object with or        *)
(* without the required properties, a list, another value, or nothing.     *)
(* The service answers with one vector per text, in order; a vector says   *)
(* what was sent for it.                                                   *)
(***************************************************************************)
EXTENDS Integers, Sequences, FiniteSets

CONSTANTS
    ModelThread,     \* threads that use the clients
    Replies,         \* replies of the model, per layer of _extract_json_from_text
    ModelRequests,        \* requests to try
    Length,          \* [text -> its length]
    Caps,            \* _EMBED_CHAR_RETRY_CAPS, and the largest batch
    MaxBatch,
    CacheMax,        \* cache_max_size
    ToolAttempts,    \* attempts for a required tool call
    ClientSettings,  \* [cached, jsonMode, embedder]: the configured provider
    MaxModelCalls    \* bound on the requests

Layers == 5
Values == {"good", "bare", "list", "other", "fails"}
Schemas == [type : {"object", "array", "none"}, required : BOOLEAN]

ASSUME ModelAssumption ==
    /\ Replies \subseteq [1..Layers -> Values]
    /\ \A q \in ModelRequests :
          \/ q.kind = "json" /\ q.schema \in Schemas
          \/ q.kind = "tools" /\ q.choice \in {"required", "auto"}
          \/ q.kind = "messages"
          \/ q.kind = "embed" /\ q.texts \in Seq(DOMAIN Length)
    /\ Length \in [DOMAIN Length -> Nat]
    /\ Caps \in Seq(Nat) /\ Caps # <<>> /\ MaxBatch \in Nat /\ CacheMax \in Nat
    /\ ToolAttempts \in Nat \ {0} /\ MaxModelCalls \in Nat
    /\ ClientSettings \subseteq [cached : BOOLEAN, jsonMode : BOOLEAN, embedder : {"openai", "volcengine"}]

VARIABLES
    client,      \* the settings
    textMode,    \* _force_text_mode
    cache,       \* [kind -> sequence of [key, answer]], oldest first
    modelCall,   \* [ModelThread -> its call]
    asked        \* how many requests were made

modelVars == <<client, textMode, cache, modelCall, asked>>

NoRequestYet == [kind |-> "none"]
NoModelCall == [at |-> "idle", request |-> NoRequestYet, next |-> 1, found |-> <<>>, missing |-> <<>>,
           victim |-> <<>>, outcome |-> "none", disturbed |-> FALSE]

ModelInit ==
    /\ client \in ClientSettings
    /\ textMode = FALSE /\ cache = [kind \in {"json", "embed"} |-> <<>>]
    /\ modelCall = [t \in ModelThread |-> NoModelCall]
    /\ asked = 0

\* create_llm, create_embedder: which requests go through a cache, and which
\* are made in JSON mode, which the caching client never is.
Caching(q) == client.cached /\ (q.kind = "json" \/ (q.kind = "embed" /\ client.embedder = "openai"))
JsonFormat(q) == client.jsonMode /\ ~client.cached /\ q.schema.type # "array" /\ ~textMode

Proceeds(t, at) == modelCall' = [modelCall EXCEPT ![t].at = at]
Ends(t, outcome) == modelCall' = [modelCall EXCEPT ![t].at = "idle", ![t].outcome = outcome]
-----------------------------------------------------------------------------
Ask(t, q) ==
    /\ modelCall[t].at = "idle" /\ asked < MaxModelCalls /\ asked' = asked + 1
    /\ modelCall' = [modelCall EXCEPT ![t] = [NoModelCall EXCEPT
          !.request = q,
          !.missing = IF q.kind = "embed" /\ ~Caching(q) THEN [i \in DOMAIN q.texts |-> i] ELSE <<>>,
          !.at = IF Caching(q) THEN "look" ELSE IF q.kind = "json" THEN "json" ELSE q.kind]]
    /\ UNCHANGED <<client, textMode, cache>>

\* The key of what the call looks for next: prompt with schema, or a text.
KeyOf(q) == [prompt |-> q.prompt, schema |-> q.schema]
Wanted(t) == LET q == modelCall[t].request IN IF q.kind = "json" THEN KeyOf(q) 
             ELSE [text |-> q.texts[modelCall[t].next]]
InCache(kind, key) == \E i \in DOMAIN cache[kind] : cache[kind][i].key = key
Cached(kind, key) == LET i == CHOOSE j \in DOMAIN cache[kind] : cache[kind][j].key = key
                     IN cache[kind][i].answer

\* `if key in cache`, and then the entry, which may have gone in between.
Look(t) ==
    LET c == modelCall[t] q == c.request IN
    /\ c.at = "look"
    /\ IF q.kind = "embed" /\ c.next > Len(q.texts)
       THEN IF c.missing = <<>> THEN Ends(t, "answered")
            ELSE modelCall' = [modelCall EXCEPT ![t].at = "embed", ![t].next = 1]
       ELSE IF InCache(q.kind, Wanted(t)) THEN Proceeds(t, "take")
       ELSE IF q.kind = "json" THEN Proceeds(t, "json")
       ELSE modelCall' = [modelCall EXCEPT ![t].missing = Append(@, c.next), ![t].next = @ + 1]
    /\ UNCHANGED <<client, textMode, cache, asked>>

Take(t) ==
    LET c == modelCall[t] q == c.request
        taken == Append(c.found, <<c.next, Cached(q.kind, Wanted(t))>>) IN
    /\ c.at = "take"
    /\ IF ~InCache(q.kind, Wanted(t)) THEN Ends(t, "lost")
       ELSE modelCall' = [modelCall EXCEPT ![t].found = taken, ![t].next = @ + 1,
                                 ![t].at = IF q.kind = "json" THEN "idle" ELSE "look",
                                 ![t].outcome = IF q.kind = "json" THEN "answered" ELSE @]
    /\ UNCHANGED <<client, textMode, cache, asked>>
-----------------------------------------------------------------------------
\* _extract_json_from_text: the first layer that parses.
FirstParsed(reply) ==
    LET parsed == {i \in 1..Layers : reply[i] # "fails"} IN
    IF parsed = {} THEN "fails" ELSE reply[CHOOSE i \in parsed : \A j \in parsed : i <= j]

\* Mutant: the required properties are not looked for.
TypeOnly(value, schema) ==
    /\ value # "fails"
    /\ schema.type = "object" => value \in {"good", "bare"}
    /\ schema.type = "array" => value = "list"

\* _validate_result.
Valid(value, schema) ==
    /\ value # "fails"
    /\ schema.type = "object" => value \in {"good", "bare"}
    /\ schema.type = "array" => value = "list"
    /\ value = "bare" => ~schema.required

\* The answer is returned, and kept if the client caches.
Receives(t, value) ==
    LET q == modelCall[t].request answer == [to |-> KeyOf(q), value |-> value] IN
    IF ~Valid(value, q.schema) THEN Ends(t, "failed")
    ELSE modelCall' = [modelCall EXCEPT ![t].found = <<<<1, answer>>>>,
                              ![t].at = IF Caching(q) THEN "store" ELSE "idle",
                              ![t].outcome = IF Caching(q) THEN "none" ELSE "answered"]

\* complete_json chooses the mode.
CompleteJson(t) ==
    /\ modelCall[t].at = "json"
    /\ Proceeds(t, IF JsonFormat(modelCall[t].request) THEN "structured" ELSE "text")
    /\ UNCHANGED <<client, textMode, cache, asked>>

\* _complete_json_structured: the answer, a refusal of JSON mode, another error.
Structured(t) ==
    /\ modelCall[t].at = "structured"
    /\ \/ \E reply \in Replies : Receives(t, reply[1]) /\ UNCHANGED textMode
       \/ textMode' = TRUE /\ Proceeds(t, "text")
       \/ Ends(t, "failed") /\ UNCHANGED textMode
    /\ UNCHANGED <<client, cache, asked>>

\* _complete_json_text_fallback.
TextFallback(t) ==
    /\ modelCall[t].at = "text"
    /\ \/ \E reply \in Replies : Receives(t, FirstParsed(reply))
       \/ Ends(t, "failed")
    /\ UNCHANGED <<client, textMode, cache, asked>>

ToolCall == [tool |-> "some"]

\* complete_with_tools: none of the calls that are required is asked for again.
CompleteWithTools(t) ==
    LET c == modelCall[t] q == c.request IN
    /\ c.at = "tools"
    /\ \/ modelCall' = [modelCall EXCEPT ![t].found = <<<<1, ToolCall>>>>, ![t].at = "idle", ![t].outcome = "answered"]
       \/ q.choice = "auto" /\ Ends(t, "answered")
       \/ q.choice = "required" /\ c.next < ToolAttempts /\ modelCall' = [modelCall EXCEPT ![t].next = @ + 1]
       \/ q.choice = "required" /\ c.next = ToolAttempts /\ Ends(t, "failed")
       \/ Ends(t, "failed")
    /\ UNCHANGED <<client, textMode, cache, asked>>

\* complete_with_tools_messages: calls, text or an error, without another attempt.
CompleteMessages(t) ==
    /\ modelCall[t].at = "messages"
    /\ \/ modelCall' = [modelCall EXCEPT ![t].found = <<<<1, ToolCall>>>>, ![t].at = "idle", ![t].outcome = "answered"]
       \/ Ends(t, "answered")
       \/ Ends(t, "failed")
    /\ UNCHANGED <<client, textMode, cache, asked>>
-----------------------------------------------------------------------------
\* embed_texts of the texts that are missing, cut to the cap of this attempt.
\* A refusal is followed by the next attempt if a later cap cuts any text.
VectorOf(t, i, cap, fits) ==
    LET text == modelCall[t].request.texts[modelCall[t].missing[i]]
    IN [of |-> text, sent |-> IF Length[text] > cap THEN cap ELSE Length[text], fits |-> fits]

Fetched(t, cap, fits) ==
    [i \in DOMAIN modelCall[t].missing |-> <<modelCall[t].missing[i], VectorOf(t, i, cap, fits)>>]

EmbedOpenai(t) ==
    LET c == modelCall[t] q == c.request
        wanted == {q.texts[c.missing[i]] : i \in DOMAIN c.missing}
        cutsMore == \E j \in c.next + 1..Len(Caps) : \E text \in wanted : Length[text] > Caps[j] IN
    /\ c.at = "embed" /\ client.embedder = "openai"
    /\ IF c.missing = <<>> THEN Ends(t, "answered")
       ELSE IF Len(c.missing) > MaxBatch THEN Ends(t, "failed")
       ELSE \/ modelCall' = [modelCall EXCEPT ![t].found = @ \o Fetched(t, Caps[c.next], TRUE),
                                    ![t].at = IF Caching(q) THEN "store" ELSE "idle",
                                    ![t].outcome = IF Caching(q) THEN "none" ELSE "answered"]
            \/ Ends(t, "failed")    \* a vector of another dimension, or the last refusal
            \/ cutsMore /\ modelCall' = [modelCall EXCEPT ![t].next = @ + 1]
    /\ UNCHANGED <<client, textMode, cache, asked>>

\* VolcengineEmbedder cuts nothing, does not try again and takes any dimension.
EmbedVolcengine(t) ==
    LET c == modelCall[t] IN
    /\ c.at = "embed" /\ client.embedder = "volcengine"
    /\ \/ \E fits \in BOOLEAN :
             modelCall' = [modelCall EXCEPT ![t].found = [i \in DOMAIN c.missing |-> <<i,
                                        [of |-> c.request.texts[i], sent |-> Length[c.request.texts[i]],
                                         fits |-> fits]>>],
                                  ![t].at = "idle", ![t].outcome = "answered"]
       \/ c.missing # <<>> /\ Ends(t, "failed")
    /\ UNCHANGED <<client, textMode, cache, asked>>

\* results.sort: the place of a result is how many come before it.
Before(found, i) ==
    {j \in DOMAIN found :
        \/ found[j][1] < found[i][1]
        \/ found[j][1] = found[i][1] /\ j < i}
InOrder(found) ==
    [n \in DOMAIN found |-> found[CHOOSE i \in DOMAIN found : Cardinality(Before(found, i)) = n - 1]]
-----------------------------------------------------------------------------
\* Insertion keeps the place of a key that is there.
Insert(entries, e) ==
    IF \E i \in DOMAIN entries : entries[i].key = e.key
    THEN [i \in DOMAIN entries |-> IF entries[i].key = e.key THEN e ELSE entries[i]]
    ELSE Append(entries, e)

\* What is missing last is inserted last.
Fresh(t) ==
    LET c == modelCall[t] q == c.request answer == c.found[Len(c.found) - Len(c.missing) + 1][2] IN
    IF q.kind = "json" THEN [key |-> KeyOf(q), answer |-> c.found[1][2]]
    ELSE [key |-> [text |-> answer.of], answer |-> answer]

\* self._cache[text] = embedding, for one text after the other.
Remember(t) ==
    LET c == modelCall[t] kind == c.request.kind IN
    /\ c.at = "store"
    /\ cache' = [cache EXCEPT ![kind] = Insert(@, Fresh(t))]
    /\ modelCall' = [modelCall EXCEPT ![t].missing = IF kind = "json" THEN @ ELSE Tail(@),
                              ![t].at = IF Len(c.missing) > 1 THEN "store" ELSE "evict"]
    /\ UNCHANGED <<client, textMode, asked>>

\* The oldest entry is chosen, and then deleted, unless another thread did.
Evict(t) ==
    LET c == modelCall[t] kind == c.request.kind IN
    /\ c.at = "evict"
    /\ IF Len(cache[kind]) > CacheMax
       THEN modelCall' = [modelCall EXCEPT ![t].at = "drop", ![t].victim = <<cache[kind][1].key>>]
       ELSE Ends(t, "answered")
    /\ UNCHANGED <<client, textMode, cache, asked>>

Without(entries, key) ==
    LET i == CHOOSE j \in DOMAIN entries : entries[j].key = key
    IN SubSeq(entries, 1, i - 1) \o SubSeq(entries, i + 1, Len(entries))

DropOldest(t) ==
    LET c == modelCall[t] kind == c.request.kind key == c.victim[1] IN
    /\ c.at = "drop"
    /\ IF InCache(kind, key)
       THEN /\ cache' = [cache EXCEPT ![kind] = Without(@, key)]
            /\ modelCall' = [x \in ModelThread |->
                  IF x # t THEN [modelCall[x] EXCEPT !.disturbed = @ \/ modelCall[x].at # "idle"]
                  ELSE [c EXCEPT !.victim = <<>>, !.at = IF kind = "json" THEN "idle" ELSE "evict",
                                 !.outcome = IF kind = "json" THEN "answered" ELSE @]]
       ELSE Ends(t, "lost") /\ UNCHANGED cache
    /\ UNCHANGED <<client, textMode, asked>>

ModelNext ==
    \E t \in ModelThread :
       \/ \E q \in ModelRequests : Ask(t, q)
       \/ Look(t) \/ Take(t) \/ CompleteJson(t) \/ Structured(t) \/ TextFallback(t) \/ CompleteWithTools(t)
       \/ CompleteMessages(t) \/ EmbedOpenai(t) \/ EmbedVolcengine(t) \/ Remember(t) \/ Evict(t) \/ DropOldest(t)

ModelSpec == ModelInit /\ [][ModelNext]_modelVars
-----------------------------------------------------------------------------
ModelTypeOK ==
    /\ client \in ClientSettings /\ textMode \in BOOLEAN /\ asked \in 0..MaxModelCalls
    /\ \A kind \in {"json", "embed"} : \A i, j \in DOMAIN cache[kind] :
          cache[kind][i].key = cache[kind][j].key => i = j
    /\ \A t \in ModelThread :
          /\ modelCall[t].at \in {"idle", "look", "take", "json", "structured", "text", "tools", "messages",
                             "embed", "store", "evict", "drop"}
          /\ modelCall[t].outcome \in {"none", "answered", "failed", "lost"}
          /\ modelCall[t].disturbed \in BOOLEAN

(***************************************************************************)
(* What a call returns, fresh or from the cache, is an answer to what it   *)
(* asked: JSON of the type and with the properties of its schema, tool     *)
(* calls if they are required, and for each text its own vector, of the    *)
(* dimension of the index unless the embedder is Volcengine's.  A call is  *)
(* lost after the service answered it only if another thread evicted       *)
(* entries meanwhile.  (openai_llm.py:106-164, 331-379, 467-504, 537-562;  *)
(* openai_embedder.py:92-145, 263-297)                                     *)
(***************************************************************************)
AnswersUsable ==
    \A t \in ModelThread : LET c == modelCall[t] q == c.request IN
       /\ c.outcome = "lost" => c.disturbed
       /\ c.outcome = "answered" /\ q.kind = "json" =>
             LET answer == c.found[1][2] IN
             /\ answer.to = KeyOf(q)
             /\ answer.value # "fails" /\ (q.schema.required => answer.value # "bare")
             /\ q.schema.type = "object" => answer.value \in {"good", "bare"}
             /\ q.schema.type = "array" => answer.value = "list"
       /\ c.outcome = "answered" /\ q.kind = "tools" /\ q.choice = "required" => c.found # <<>>
       /\ c.outcome = "answered" /\ q.kind = "embed" =>
             LET vectors == InOrder(c.found) IN
             /\ Len(vectors) = Len(q.texts)
             /\ \A i \in DOMAIN vectors : /\ vectors[i][2].of = q.texts[i]
                                          /\ vectors[i][2].fits \/ client.embedder = "volcengine"
=============================================================================
