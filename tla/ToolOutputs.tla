---------------------------- MODULE ToolOutputs -----------------------------
(***************************************************************************)
(* Long outputs of the agent's Read and Bash tools are shortened on their  *)
(* way to it.  The plugin's hook hands the output to the server, which     *)
(* stores the original as a node and returns a short text with the node's  *)
(* URI, by which the agent can ask for the original; when anything fails,  *)
(* the hook lets the original through.                                     *)
(* Source: src/claude-plugin/scripts/rtc_terminal.py (hooks),              *)
(* src/code-version/server/memory_service.py, src/commit/context_writer.py *)
(*                                                                         *)
(* A file holds any text when the server reads it and a command prints any *)
(* text.  What makes the hooks and the server let an output through (too   *)
(* short, not shortened, filter switched off, a command that is not        *)
(* listed) is left open, and what the short text says left out.            *)
(***************************************************************************)
EXTENDS Naturals

CONSTANTS
    Hook,            \* hooks that run at once
    Path,            \* files that are read, by path
    Command,         \* commands that are run
    Output,          \* contents and outputs, by text
    NoOutput,        \* no file there
    Session,         \* sessions of the agent
    MaxRetries,      \* MAX_RETRIES
    ToolBudgets      \* bounds: reads, commands, failures, restarts

Quotas == [reads : Nat, commands : Nat, failures : Nat, restarts : Nat]

ASSUME ToolsAssumption ==
    /\ Path \cap Command = {} /\ NoOutput \notin Output /\ MaxRetries \in Nat
    /\ ToolBudgets \subseteq Quotas

\* The digest is part of the routing key and so of the node's URI; the keys of
\* files and of commands have prefixes of their own.
Target == Path \cup Command
Digest(target, output) == <<target, output>>
URI == Target \X Output
NoURI == <<>>

VARIABLES
    original,    \* [URI -> content.md of the node]
    version,     \* [URI -> version in .meta.json, 0 if there is none]
    remembered,  \* fingerprints in _executed_ops
    call,        \* [Hook -> its request: next step of the server, what it is about]
    banners,     \* <<output, URI>> of each banner the agent has seen
    quota        \* bounds that are left

toolVars == <<original, version, remembered, call, banners, quota>>

Request(steps, outputs, uris) ==
    [at : steps, target : Target, output : outputs, session : Session,
     tries : Nat,                     \* attempts that met a newer version
     base : Nat,                      \* expected_version of the plan, 0 for a create
     memory : uris,
     awaited : BOOLEAN]               \* the hook still waits for the answer
Posts == Request({"read", "run"}, {NoOutput}, {NoURI})
Requests == Request({"plan", "check", "content", "commit", "answer"}, Output,
                    URI \cup {NoURI})
NoCall == [at |-> "idle"]

ToolsInit ==
    /\ original = [u \in URI |-> NoOutput] /\ version = [u \in URI |-> 0]
    /\ remembered = {} /\ banners = {} /\ call = [h \in Hook |-> NoCall]
    /\ quota \in ToolBudgets

Uri(c) == Digest(c.target, c.output)
\* The session is part of the fingerprint, the version is not.
Fingerprint(c, base) ==
    [uri |-> Uri(c), action |-> IF base = 0 THEN "create" ELSE "merge",
     session |-> c.session, output |-> c.output]

At(h, step) == call[h].at = step
Goto(h, step) == call' = [call EXCEPT ![h].at = step]
\* write_natural_language has returned, with this URI.
Returns(h, uri) == call' = [call EXCEPT ![h].at = "answer", ![h].memory = uri]

Posted(t, s, step) ==
    [at |-> step, target |-> t, output |-> NoOutput, session |-> s, tries |-> 0,
     base |-> 0, memory |-> NoURI, awaited |-> TRUE]

\* The hook of the Read tool posts the path of the file.
HookRead(h, p, s) ==
    /\ At(h, "idle") /\ quota.reads > 0
    /\ quota' = [quota EXCEPT !.reads = @ - 1]
    /\ call' = [call EXCEPT ![h] = Posted(p, s, "read")]
    /\ UNCHANGED <<original, version, remembered, banners>>

\* The hook of the Bash tool wraps the command.
HookBash(h, c, s) ==
    /\ At(h, "idle") /\ quota.commands > 0
    /\ quota' = [quota EXCEPT !.commands = @ - 1]
    /\ call' = [call EXCEPT ![h] = Posted(c, s, "run")]
    /\ UNCHANGED <<original, version, remembered, banners>>

\* The server reads the file, or declines.
FilterRead(h, o) ==
    /\ At(h, "read")
    /\ \/ call' = [call EXCEPT ![h].at = "plan", ![h].output = o]
       \/ call' = [call EXCEPT ![h] = NoCall]
    /\ UNCHANGED <<original, version, remembered, banners, quota>>

\* The wrapper has run the command; the server takes its output, or declines.
FilterBash(h, o) ==
    /\ At(h, "run")
    /\ \/ call' = [call EXCEPT ![h].at = "plan", ![h].output = o]
       \/ call' = [call EXCEPT ![h] = NoCall]
    /\ UNCHANGED <<original, version, remembered, banners, quota>>

\* Mutant: the fingerprint is remembered before the node is written.
PlanRemembered(h) ==
    LET base == version[Uri(call[h])] IN
    /\ At(h, "plan")
    /\ remembered' = remembered \cup {Fingerprint(call[h], base)}
    /\ IF Fingerprint(call[h], base) \in remembered
       THEN Returns(h, Uri(call[h]))
       ELSE call' = [call EXCEPT ![h].at = "check", ![h].base = base]
    /\ UNCHANGED <<original, version, banners, quota>>

\* ToolOutputPolicy: the node is made, or written again over its version.
PlanWrite(h) ==
    LET base == version[Uri(call[h])] IN
    /\ At(h, "plan")
    /\ IF Fingerprint(call[h], base) \in remembered
       THEN Returns(h, Uri(call[h]))
       ELSE call' = [call EXCEPT ![h].at = "check", ![h].base = base]
    /\ UNCHANGED <<original, version, remembered, banners, quota>>

\* A retry is left.
Again(c) == c.tries + 1 < MaxRetries

\* A merge is planned again when the version is a newer one, a few times.
CheckVersion(h) ==
    LET c == call[h] IN
    /\ At(h, "check")
    /\ CASE c.base \in {0, version[Uri(c)]} -> Goto(h, "content")
         [] c.base \notin {0, version[Uri(c)]} /\ Again(c) ->
              call' = [call EXCEPT ![h].at = "plan", ![h].tries = @ + 1]
         [] OTHER -> Returns(h, NoURI)
    /\ UNCHANGED <<original, version, remembered, banners, quota>>

WriteContent(h) ==
    /\ At(h, "content")
    /\ original' = [original EXCEPT ![Uri(call[h])] = call[h].output]
    /\ Goto(h, "commit")
    /\ UNCHANGED <<version, remembered, banners, quota>>

\* The .meta.json makes the node visible, then its fingerprint is remembered.
CommitNode(h) ==
    /\ At(h, "commit")
    /\ version' = [version EXCEPT ![Uri(call[h])] = call[h].base + 1]
    /\ remembered' = remembered \cup {Fingerprint(call[h], call[h].base)}
    /\ Returns(h, Uri(call[h]))
    /\ UNCHANGED <<original, banners, quota>>

\* The storage fails: write_candidates drops the candidate and returns no plan.
\* The last write may have been done all the same.
WriteFails(h) ==
    /\ call[h].at \in {"plan", "check", "content", "commit"} /\ quota.failures > 0
    /\ quota' = [quota EXCEPT !.failures = @ - 1]
    /\ \/ UNCHANGED <<original, version>>
       \/ /\ At(h, "content")
          /\ original' = [original EXCEPT ![Uri(call[h])] = call[h].output]
          /\ UNCHANGED version
       \/ /\ At(h, "commit")
          /\ version' = [version EXCEPT ![Uri(call[h])] = call[h].base + 1]
          /\ UNCHANGED original
    /\ Returns(h, NoURI)
    /\ UNCHANGED <<remembered, banners>>

\* filter_read and filter_bash answer with the banner, whatever the write did.
Respond(h) ==
    /\ At(h, "answer")
    /\ banners' = IF call[h].awaited
                  THEN banners \cup {<<call[h].output, call[h].memory>>} ELSE banners
    /\ call' = [call EXCEPT ![h] = NoCall]
    /\ UNCHANGED <<original, version, remembered, quota>>

\* The request times out: the agent gets the original, the server goes on.
HookGivesUp(h) ==
    /\ ~ At(h, "idle") /\ call[h].awaited
    /\ call' = [call EXCEPT ![h].awaited = FALSE]
    /\ UNCHANGED <<original, version, remembered, banners, quota>>

\* Requests end in an exception, for which the hooks let the original through.
ToolsRestart ==
    /\ quota.restarts > 0 /\ quota' = [quota EXCEPT !.restarts = @ - 1]
    /\ call' = [h \in Hook |-> NoCall] /\ remembered' = {}
    /\ UNCHANGED <<original, version, banners>>

ToolsNext ==
    \/ \E h \in Hook, p \in Path, s \in Session : HookRead(h, p, s)
    \/ \E h \in Hook, c \in Command, s \in Session : HookBash(h, c, s)
    \/ \E h \in Hook, o \in Output : FilterRead(h, o) \/ FilterBash(h, o)
    \/ \E h \in Hook :
         \/ PlanWrite(h) \/ CheckVersion(h) \/ WriteContent(h) \/ CommitNode(h)
         \/ WriteFails(h) \/ Respond(h) \/ HookGivesUp(h)
    \/ ToolsRestart

ToolsSpec == ToolsInit /\ [][ToolsNext]_toolVars

\* read_tool_output_original: the content of an active node.
ReadOriginal(uri) == IF version[uri] > 0 THEN original[uri] ELSE NoOutput

Fingerprints == [uri : URI, action : {"create", "merge"}, session : Session,
                 output : Output]

\* Every variable keeps its type.
ToolsTypeOK ==
    /\ original \in [URI -> Output \cup {NoOutput}] /\ version \in [URI -> Nat]
    /\ remembered \subseteq Fingerprints
    /\ call \in [Hook -> Posts \cup Requests \cup {NoCall}]
    /\ banners \subseteq Output \X (URI \cup {NoURI})
    /\ quota \in Quotas

\* A banner's URI leads to the output it took the place of, however often the
\* file was changed, read again or its output stored by others, and whatever
\* failed since (the banner of filter_read and filter_bash).
OriginalKept ==
    \A b \in banners : b[2] # NoURI => ReadOriginal(b[2]) = b[1]

=============================================================================
