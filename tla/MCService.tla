------------------------------ MODULE MCService ------------------------------
(***************************************************************************)
(* Small instances for TLC of the parts that serve the others: the         *)
(* disjoint union of their state spaces, as in MCComponents.  `service` is *)
(* the one that runs.                                                      *)
(***************************************************************************)
EXTENDS TextFilter, OutputStrategies, SessionArchives, IndexWait, Launcher,
        VectorIndexes, CandidateRouting, ControlPlane, ModelClient

CONSTANT Services    \* services to try

VARIABLE service

serviceVars == <<service, textVars, strategyVars, archiveVars, waitVars, launchVars,
                vectorVars, routingVars, controlVars, modelVars>>

\* Repeated errors in code, errors and warnings, comments of every form.
TheTexts == [1..4 -> {"code", "error 1", "error 2"}] \cup [1..3 -> {"code", "error 1", "warning"}]
              \cup [1..3 -> {"space", "comment", "/*", "/* */", "*/", "code"}]

TheOutputs ==
    LET Tried(n, kinds) == [1..n -> kinds] IN
    [s \in Strategy |->
        CASE s = "test_runner" -> Tried(3, {"noise", "PASSED", "FAILED", "skipped", "test",
                                           "test ... ok", "doc ... ok", "doc ... FAIL", "text"})
          [] s = "diff_hunk" -> Tried(4, {"@@", "+", " "})
          [] s = "progress" -> Tried(3, {"progress", "kept", "text"})
          [] s = "keep" -> Tried(3, {"kept", "text"})
          [] s \in {"match_group", "lint_group", "tree_condense"} ->
                 Tried(4, {"a", "b", "other", "passed on"})
          [] s = "warning_group" -> Tried(4, {"a", "b", "text"})
          [] s = "repr_fold" -> Tried(5, {"start", "end", "text"})
          [] s = "stats_extract" -> Tried(4, {"section", "entry", "text"})
          [] s = "slice" -> Tried(4, {"signature", "body"})]

\* Requests drain the outbox themselves, or a polling thread does and a search
\* takes one file.
TheWaitSettings == {[polled |-> FALSE, cap |-> 0], [polled |-> TRUE, cap |-> 1]}

\* Two records of an account, one of which is below the parent that is asked for.
TheFacts == [r \in RecordId |-> [account |-> "a", parent |-> r, score |-> IF r = "x" THEN 1 ELSE 2]]
TheFilters == {[account |-> "a", parent |-> p] : p \in {"any", "x"}}
AllVectorKinds == {"upsert", "delete", "search", "purge"}
VectorBudget(db, kinds, calls, faults) ==
    [db |-> db, kinds |-> kinds, calls |-> calls, faults |-> faults]
TheVectorBudgets ==
    {VectorBudget("memory", AllVectorKinds, 2, 0), VectorBudget("chroma", AllVectorKinds, 2, 1),
     VectorBudget("opengauss", {"upsert", "search"}, 3, 0),
     VectorBudget("opengauss", AllVectorKinds, 2, 1)}

\* Calls with and without keys, of the user and of others, in keys that are
\* written alike, mean the same, have no legal character or name the category.
ToolCallOf(kind, key, text) ==
    [kind |-> kind, key |-> key, about |-> "tea", sure |-> 8, speaker |-> "none", basis |-> "none",
     shape |-> "good", text |-> text]
TheCalls ==
    LET profile == ToolCallOf("profile", <<"name">>, "a") IN
    [own |-> [profile EXCEPT !.basis = "self", !.speaker = "bob"],
     plain |-> [profile EXCEPT !.text = "b"],
     bob |-> [profile EXCEPT !.speaker = "bob", !.text = "c"],
     about |-> [profile EXCEPT !.basis = "third", !.speaker = "user"],
     unknown |-> [profile EXCEPT !.basis = "third"],
     tea |-> ToolCallOf("preference", <<"Tea">>, "a"),
     coffee |-> ToolCallOf("preference", <<"coffee">>, "b"),
     foreign |-> ToolCallOf("entity", <<"???">>, "a"),
     category |-> ToolCallOf("entity", <<"entity">>, "b"),
     unsure |-> [ToolCallOf("entity", <<"bob">>, "a") EXCEPT !.sure = 4],
     unsaid |-> [ToolCallOf("pattern", <<>>, "a") EXCEPT !.sure = Unsaid],
     untyped |-> [ToolCallOf("pattern", <<"tea">>, "b") EXCEPT !.shape = "untyped"],
     long |-> [ToolCallOf("skill", <<"tea">>, "a") EXCEPT !.shape = "long"],
     over |-> [ToolCallOf("skill", <<"tea">>, "b") EXCEPT !.sure = 17],
     event |-> ToolCallOf("event", <<"tea">>, "a"), case |-> ToolCallOf("case", <<>>, "a"),
     tool |-> ToolCallOf("tool", <<"tea">>, "a"), unlisted |-> ToolCallOf("mood", <<"tea">>, "a")]
TheAnswers ==
    {<<TheCalls[c]>> : c \in DOMAIN TheCalls}
      \cup {<<TheCalls[c], TheCalls[d]>> : c, d \in {"own", "tea"}}
MemoryOf(kind, scope, key, text) ==
    [kind |-> kind, scope |-> scope, key |-> key, sure |-> 0, speaker |-> "none", basis |-> "none",
     shape |-> "good", text |-> text]
TheMemories ==
    {MemoryOf("natural_language", "user", <<"default">>, "a"), MemoryOf("natural_language", "user", <<"tea">>, "a"),
     MemoryOf("tool_outputs", "agent", <<"tea">>, "a"), MemoryOf("tool_outputs", "agent", <<"tea">>, "b"),
     MemoryOf("code", "user", <<"tea">>, "a"), MemoryOf("profile", "user", <<"name">>, "a")}
TheSlugs ==
    [w \in {"name", "Tea", "tea", "coffee", "???", "entity", "bob", "unknown", "now", "unnamed", "user"} |->
        IF w = "Tea" THEN "tea" ELSE IF w = "???" THEN "" ELSE w]
TheTopics == [w \in {"name", "tea", "coffee", "entity", "bob", "unknown", "unnamed", "user"} |->
                IF w \in {"tea", "coffee"} THEN "beverage" ELSE w]
TheContexts ==
    {[s \in Conversation |-> [user |-> IF s = "s1" THEN "ann" ELSE "ben", agent |-> "helper"]],
     [s \in Conversation |-> [user |-> "ann", agent |-> NoAgent]]}
TheSchemaSets == {DOMAIN Schema, DOMAIN Schema \ {"entity"}}
RoutingBudget(c, m, f) == [commits |-> c, singles |-> m, failures |-> f]
TheRoutingBudgets == {RoutingBudget(2, 0, 0), RoutingBudget(1, 1, 1)}

\* Three accounts with an admin key, and the admin requests about the user u and the agent g.
TheEnrolled == <<"a", "b", "c">>
AdminAsk(op, a, u, g, r) == [op |-> op, account |-> a, user |-> u, agent |-> g, role |-> r]
TheAsked ==
    {AdminAsk("create user", "a", "u", "none", "admin"), AdminAsk("create user", "b", "u", "none", "user"),
     AdminAsk("look", "b", "none", "none", "user"), AdminAsk("delete user", "a", "u", "none", "user"), AdminAsk("set role", "a", "u", "none", "user"),
     AdminAsk("create agent", "a", "u", "g", "user"), AdminAsk("create agent", "a", "none", "g", "user"),
     AdminAsk("update agent", "a", "u", "g", "user"), AdminAsk("update agent", "a", "none", "g", "user")}
Credential(kind, a, key) == [kind |-> kind, account |-> a, key |-> key]
ThePresented == {Credential("root", "none", 0), Credential("admin", "b", 0), Credential("user", "a", 2)}
RegistryBudget(new, r, s, f) == [fresh |-> new, requests |-> r, restarts |-> s, faults |-> f]
TheRegistryBudgets == {RegistryBudget(TRUE, 0, 1, 1), RegistryBudget(FALSE, 2, 0, 0),
                       RegistryBudget(FALSE, 1, 1, 1), RegistryBudget(TRUE, 1, 0, 0)}

\* Replies as every layer of the extraction finds them, and requests with and without answers in a cache of one.
TheReplies ==
    LET Reply(a, b, c, d, e) == <<a, b, c, d, e>> IN
    {Reply("good", "fails", "good", "fails", "fails"), Reply("bare", "fails", "bare", "fails", "fails"),
     Reply("list", "fails", "bare", "fails", "fails"), Reply("other", "fails", "fails", "fails", "fails"),
     Reply("fails", "list", "good", "fails", "fails"), Reply("fails", "fails", "bare", "good", "fails"),
     Reply("fails", "fails", "fails", "fails", "good"), Reply("fails", "fails", "fails", "fails", "fails")}
SchemaOf(type, needs) == [type |-> type, required |-> needs]
JsonRequest(p, s) == [kind |-> "json", prompt |-> p, schema |-> s]
EmbedRequest(texts) == [kind |-> "embed", texts |-> texts]
TheModelRequests ==
    {JsonRequest("p", SchemaOf("object", TRUE)), JsonRequest("p", SchemaOf("object", FALSE)),
     JsonRequest("p", SchemaOf("array", FALSE)), JsonRequest("q", SchemaOf("object", TRUE)),
     [kind |-> "tools", choice |-> "required"], [kind |-> "tools", choice |-> "auto"], [kind |-> "messages"],
     EmbedRequest(<<>>), EmbedRequest(<<"long">>), EmbedRequest(<<"mid", "long">>), EmbedRequest(<<"long", "short">>),
     EmbedRequest(<<"long", "short", "long">>)}
TheLengths == [t \in {"short", "mid", "long"} |-> IF t = "short" THEN 1 ELSE IF t = "mid" THEN 3 ELSE 5]
TheCaps == <<4, 2>>
ClientSetting(c, j, e) == [cached |-> c, jsonMode |-> j, embedder |-> e]
TheClientSettings == {ClientSetting(TRUE, TRUE, "openai"), ClientSetting(FALSE, TRUE, "openai"), ClientSetting(FALSE, FALSE, "volcengine")}

\* A service that does not run has one initial state.
Idles(name, canonical) == service = name \/ canonical

ServiceInit ==
    /\ service \in Services
    /\ Idles("filter", preset = "log" /\ input = [i \in 1..4 |-> "code"]) /\ TextInit
    /\ Idles("strategies", strategy = "keep" /\ output = [i \in 1..3 |-> "text"]) /\ StrategiesInit
    /\ ArchivesInit
    /\ Idles("wait", setting = [polled |-> FALSE, cap |-> 0]) /\ WaitInit
    /\ LauncherInit
    /\ Idles("vectors", vectorDb = VectorBudget("memory", AllVectorKinds, 2, 0)) /\ VectorInit
    /\ Idles("routing", toRoute = RoutingBudget(2, 0, 0) /\ schemas = DOMAIN Schema
                          /\ context = [s \in Conversation |-> [user |-> "ann", agent |-> NoAgent]])
    /\ RoutingInit
    /\ Idles("control", credit = RegistryBudget(TRUE, 1, 0, 0)) /\ ControlInit
    /\ Idles("models", client = ClientSetting(FALSE, FALSE, "volcengine")) /\ ModelInit

ServiceNext ==
    /\ UNCHANGED service
    /\ \/ /\ service = "filter" /\ TextNext
          /\ UNCHANGED <<strategyVars, archiveVars, waitVars, launchVars, vectorVars, routingVars, controlVars, modelVars>>
       \/ /\ service = "strategies" /\ StrategiesNext
          /\ UNCHANGED <<textVars, archiveVars, waitVars, launchVars, vectorVars, routingVars, controlVars, modelVars>>
       \/ /\ service = "archives" /\ ArchivesNext
          /\ UNCHANGED <<textVars, strategyVars, waitVars, launchVars, vectorVars, routingVars, controlVars, modelVars>>
       \/ /\ service = "wait" /\ WaitNext
          /\ UNCHANGED <<textVars, strategyVars, archiveVars, launchVars, vectorVars, routingVars, controlVars, modelVars>>
       \/ /\ service = "launcher" /\ LauncherNext
          /\ UNCHANGED <<textVars, strategyVars, archiveVars, waitVars, vectorVars, routingVars, controlVars, modelVars>>
       \/ /\ service = "vectors" /\ VectorNext
          /\ UNCHANGED <<textVars, strategyVars, archiveVars, waitVars, launchVars, routingVars, controlVars, modelVars>>
       \/ /\ service = "routing" /\ RoutingNext
          /\ UNCHANGED <<textVars, strategyVars, archiveVars, waitVars, launchVars, vectorVars, controlVars, modelVars>>
       \/ /\ service = "control" /\ ControlNext
          /\ UNCHANGED <<textVars, strategyVars, archiveVars, waitVars, launchVars, vectorVars,
                         routingVars, modelVars>>
       \/ /\ service = "models" /\ ModelNext
          /\ UNCHANGED <<textVars, strategyVars, archiveVars, waitVars, launchVars, vectorVars,
                         routingVars, controlVars>>

ServiceTypeOK ==
    CASE service = "filter" -> TextTypeOK
      [] service = "strategies" -> StrategiesTypeOK
      [] service = "archives" -> ArchivesTypeOK
      [] service = "wait" -> WaitTypeOK
      [] service = "launcher" -> LauncherTypeOK
      [] service = "vectors" -> VectorTypeOK
      [] service = "routing" -> RoutingTypeOK
      [] service = "control" -> ControlTypeOK
      [] service = "models" -> ModelTypeOK
=============================================================================
