----------------------------- MODULE NodeStore -----------------------------
(***************************************************************************)
(* One memory node on AGFS and the threads that write it: write_candidate  *)
(* of ContextWriter (plan with a merge policy, check the fingerprint,      *)
(* build, write_node, remember the fingerprint; plan again after a         *)
(* conflict), delete_node, and the repair job.  Sources:                   *)
(*   src/commit/context_writer.py, src/code-version/commit/                *)
(*   merge_policies.py and archive_builder.py,                             *)
(*   src/fs/agfs_adapter/agfs_context_fs.py, src/index/repair_job.py       *)
(*                                                                         *)
(* One step is one AGFS call.  A body is the set of candidates whose text  *)
(* was merged into it.  Registering the outbox events that follow a write  *)
(* is OutboxSync.  Archiving (no policy plans it) is left out, and so are  *)
(* the categories whose every candidate gets a node of its own.            *)
(***************************************************************************)
EXTENDS Naturals, FiniteSets

CONSTANTS
    Thread,          \* threads inside write_candidate
    Cand,            \* candidate memories, by content
    NoCand,          \* none yet
    MaxAttempts,     \* MAX_RETRIES
    NodeBudgets,     \* bounds: calls of write_candidate and delete_node, nodes
                     \* the repair job visits, restarts (one is chosen in NodeInit)
    Policies,        \* merge policies the category of the node may have
    StorageFaults    \* AGFS and LLM calls may fail

ASSUME NodeAssumption ==
    /\ NoCand \notin Cand
    /\ MaxAttempts \in Nat \ {0} /\ StorageFaults \in BOOLEAN
    /\ NodeBudgets \subseteq [calls : Nat, deletes : Nat, repairs : Nat, crashes : Nat]
    /\ Policies \subseteq {"append", "replace", "chunk"}

VARIABLES
    policy,      \* merge policy of the node's category
    dir,         \* the node's directory exists
    files,       \* names of the files in it
    body,        \* content and overview: the candidates merged into them
    meta,        \* status and version in .meta.json (if it is in files)
    at,          \* [Thread -> next call of the thread]
    cand,        \* [Thread -> candidate it writes]
    plan,        \* [Thread -> action, expected version and base of its WritePlan]
    attempt,     \* [Thread -> attempts used up]
    executed,    \* _executed_ops of the ContextWriter
    repair,      \* the repair job: next call, files listed, status to write
    left,        \* what is left of the bounds
    \* History, read by properties only:
    outcome,     \* [Thread -> how its last call ended]
    beaten,      \* [Thread -> .meta.json writes by others during its call]
    accepted,    \* candidates committed since the node was made
    written,     \* candidates ever committed
    raced,       \* an overlap the version check does not cover has happened
    cut          \* the node was deleted under a thread that was writing it

nodeFiles == <<dir, files, body, meta>>
threadVars == <<at, cand, plan, attempt>>
history == <<outcome, beaten, accepted, written, raced, cut>>
nodeVars == <<policy, nodeFiles, threadVars, executed, repair, left, history>>

-----------------------------------------------------------------------------
\* Write order of write_node; .meta.json is the commit point.
Bodies == {"content", "overview"}
Required == {"content", "relations", "abstract", "overview"}
NodeFile == Required \cup {"meta"}

\* Mutant: the overview comes after the commit point.
AfterEndsEarly == [content |-> "relations", relations |-> "abstract",
                   abstract |-> "meta", overview |-> "meta"]

After == [content |-> "relations", relations |-> "abstract",
          abstract |-> "overview", overview |-> "meta"]

Status == {"ACTIVE", "PENDING", "BROKEN"}
NoPlan == [action |-> "none", expected |-> 0,
           base |-> [f \in Bodies |-> {}]]
Idle == [at |-> "idle", seen |-> {}, status |-> "ACTIVE", version |-> 1,
         stale |-> FALSE]

\* Threads between the version check of write_node and its commit.
Writing == {t \in Thread : at[t] \in NodeFile \cup {"mkdir"}}
Busy == {t \in Thread : at[t] # "idle"}
Active == "meta" \in files /\ meta.status = "ACTIVE"

NodeInit ==
    /\ policy \in Policies
    /\ dir = FALSE /\ files = {} /\ body = [f \in Bodies |-> {}]
    /\ meta = [status |-> "ACTIVE", version |-> 0]
    /\ at = [t \in Thread |-> "idle"]
    /\ cand = [t \in Thread |-> NoCand]
    /\ plan = [t \in Thread |-> NoPlan]
    /\ attempt = [t \in Thread |-> 0]
    /\ executed = {}
    /\ repair = Idle
    /\ left \in NodeBudgets
    /\ outcome = [t \in Thread |-> "none"]
    /\ beaten = [t \in Thread |-> 0]
    /\ accepted = {} /\ written = {} /\ raced = FALSE /\ cut = FALSE

\* The call of thread t ends: it returns or raises.
End(t, result) ==
    /\ at' = [at EXCEPT ![t] = "idle"]
    /\ outcome' = [outcome EXCEPT ![t] = result]

\* .meta.json changes: every other running call is overtaken by that.
Overtake(others) ==
    beaten' = [t \in Thread |->
                 IF t \in others /\ at[t] # "idle" /\ beaten[t] < MaxAttempts
                 THEN beaten[t] + 1 ELSE beaten[t]]
-----------------------------------------------------------------------------
\* write_candidate(c) begins on thread t.
Call(t, c) ==
    /\ at[t] = "idle" /\ left.calls > 0
    /\ left' = [left EXCEPT !.calls = @ - 1]
    /\ at' = [at EXCEPT ![t] = "exists"]
    /\ cand' = [cand EXCEPT ![t] = c]
    /\ plan' = [plan EXCEPT ![t] = NoPlan]
    /\ attempt' = [attempt EXCEPT ![t] = 0]
    /\ beaten' = [beaten EXCEPT ![t] = 0]
    /\ outcome' = [outcome EXCEPT ![t] = "none"]
    /\ UNCHANGED <<policy, nodeFiles, executed, repair, accepted, written, raced, cut>>

\* The plan is made: an operation done before is not done again.
Planned(t, p) ==
    /\ plan' = [plan EXCEPT ![t] = p]
    /\ IF <<p.action, cand[t]>> \in executed
       THEN End(t, "duplicate")
       ELSE at' = [at EXCEPT ![t] = "check"] /\ UNCHANGED outcome

\* plan: exists().  Nothing active there is a create; a code chunk that is
\* there is skipped; other policies go on to read the node.
Exists(t) ==
    /\ at[t] = "exists"
    /\ IF ~Active THEN Planned(t, [NoPlan EXCEPT !.action = "create"])
       ELSE /\ IF policy = "chunk" THEN End(t, "skipped")
               ELSE at' = [at EXCEPT ![t] = "readMeta"] /\ UNCHANGED outcome
            /\ UNCHANGED plan
    /\ UNCHANGED <<policy, nodeFiles, cand, attempt, executed, repair, left,
                   beaten, accepted, written, raced, cut>>

\* plan: read_node() reads .meta.json again: the expected version.
ReadMeta(t) ==
    /\ at[t] = "readMeta"
    /\ IF Active
       THEN /\ at' = [at EXCEPT ![t] = "readContent"]
            /\ plan' = [plan EXCEPT ![t] = [NoPlan EXCEPT !.expected = meta.version]]
            /\ UNCHANGED outcome
       ELSE End(t, "raised") /\ UNCHANGED plan
    /\ UNCHANGED <<policy, nodeFiles, cand, attempt, executed, repair, left,
                   beaten, accepted, written, raced, cut>>

\* What the policies take over from a file of the node read for a merge.
Base(f) == IF policy = "append" THEN body[f] ELSE {}

ReadContent(t) ==
    /\ at[t] = "readContent"
    /\ IF "content" \in files
       THEN /\ at' = [at EXCEPT ![t] = "readOverview"]
            /\ plan' = [plan EXCEPT ![t].base["content"] = Base("content")]
            /\ UNCHANGED outcome
       ELSE End(t, "raised") /\ UNCHANGED plan
    /\ UNCHANGED <<policy, nodeFiles, cand, attempt, executed, repair, left,
                   beaten, accepted, written, raced, cut>>

\* The abstract, which no plan uses, and the overview.
ReadOverview(t) ==
    /\ at[t] = "readOverview"
    /\ IF {"abstract", "overview"} \subseteq files
       THEN Planned(t, [plan[t] EXCEPT !.action = "merge",
                                       !.base["overview"] = Base("overview")])
       ELSE End(t, "raised") /\ UNCHANGED plan
    /\ UNCHANGED <<policy, nodeFiles, cand, attempt, executed, repair, left,
                   beaten, accepted, written, raced, cut>>

\* Mutant: a node that is not there is not the expected one.
ConflictIfMissing(t) == ~ ("meta" \in files /\ meta.version = plan[t].expected)

\* After building the node (LLM): the version check of write_node.  A create
\* is not checked, and neither is a merge whose node has gone.
Conflict(t) ==
    /\ plan[t].action = "merge" /\ "meta" \in files
    /\ meta.version # plan[t].expected

Check(t) ==
    /\ at[t] = "check"
    /\ \/ /\ Conflict(t)
          /\ attempt' = [attempt EXCEPT ![t] = @ + 1]
          /\ IF attempt[t] + 1 < MaxAttempts
             THEN at' = [at EXCEPT ![t] = "exists"] /\ UNCHANGED outcome
             ELSE End(t, "gave up")
          /\ UNCHANGED raced
       \/ /\ ~Conflict(t)
          /\ at' = [at EXCEPT ![t] = "mkdir"]
          /\ raced' = \/ raced
                      \/ Writing # {}
                      \/ plan[t].action = "create" /\ "meta" \in files
          /\ UNCHANGED <<attempt, outcome>>
    /\ UNCHANGED <<policy, nodeFiles, cand, plan, executed, repair, left,
                   beaten, accepted, written, cut>>

\* Mutant: the operation is remembered before its writes.
MakeDirRemembers(t) ==
    /\ at[t] = "mkdir"
    /\ dir' = TRUE
    /\ at' = [at EXCEPT ![t] = "content"]
    /\ executed' = executed \cup {<<plan[t].action, cand[t]>>}
    /\ UNCHANGED <<policy, files, body, meta, cand, plan, attempt, repair, left, history>>

MakeDir(t) ==
    /\ at[t] = "mkdir"
    /\ dir' = TRUE
    /\ at' = [at EXCEPT ![t] = "content"]
    /\ UNCHANGED <<policy, files, body, meta, cand, plan, attempt, executed,
                   repair, left, history>>

\* One of the files before the commit point.
WriteFile(t) ==
    /\ at[t] \in Required
    /\ IF dir
       THEN /\ files' = files \cup {at[t]}
            /\ body' = [f \in Bodies |-> IF f = at[t] THEN plan[t].base[f] \cup {cand[t]}
                                         ELSE body[f]]
            /\ at' = [at EXCEPT ![t] = After[at[t]]]
            /\ UNCHANGED outcome
       ELSE End(t, "raised") /\ UNCHANGED <<files, body>>
    /\ UNCHANGED <<policy, dir, meta, cand, plan, attempt, executed, repair,
                   left, beaten, accepted, written, raced, cut>>

\* .meta.json: status ACTIVE and the version after the expected one, or 1.
Commit(t) ==
    /\ at[t] = "meta"
    /\ IF dir
       THEN /\ files' = files \cup {"meta"}
            /\ meta' = [status |-> "ACTIVE", version |-> plan[t].expected + 1]
            /\ at' = [at EXCEPT ![t] = "mark"]
            /\ repair' = [repair EXCEPT !.stale = @ \/ repair.at # "idle"]
            /\ accepted' = accepted \cup {cand[t]}
            /\ written' = written \cup {cand[t]}
            /\ Overtake(Thread \ {t})
            /\ UNCHANGED outcome
       ELSE /\ End(t, "raised")
            /\ UNCHANGED <<files, meta, repair, accepted, written, beaten>>
    /\ UNCHANGED <<policy, dir, body, cand, plan, attempt, executed, left, raced, cut>>

\* The operation is remembered; write_candidate returns.
Mark(t) ==
    /\ at[t] = "mark"
    /\ executed' = executed \cup {<<plan[t].action, cand[t]>>}
    /\ End(t, "written")
    /\ UNCHANGED <<policy, nodeFiles, cand, plan, attempt, repair, left,
                   beaten, accepted, written, raced, cut>>

\* An AGFS or LLM call of the thread raises.
Fail(t) ==
    /\ StorageFaults /\ at[t] \notin {"idle", "mark"}
    /\ End(t, "raised")
    /\ UNCHANGED <<policy, nodeFiles, cand, plan, attempt, executed, repair, left,
                   beaten, accepted, written, raced, cut>>

\* The server process is restarted: threads and _executed_ops are gone.
Crash ==
    /\ left.crashes > 0
    /\ left' = [left EXCEPT !.crashes = @ - 1]
    /\ at' = [t \in Thread |-> "idle"]
    /\ outcome' = [t \in Thread |-> "none"]
    /\ executed' = {} /\ repair' = Idle
    /\ UNCHANGED <<policy, nodeFiles, cand, plan, attempt, beaten, accepted,
                   written, raced, cut>>

\* delete_node: one recursive rm.
Delete ==
    /\ dir /\ left.deletes > 0
    /\ left' = [left EXCEPT !.deletes = @ - 1]
    /\ dir' = FALSE /\ files' = {} /\ body' = [f \in Bodies |-> {}]
    /\ meta' = [status |-> "ACTIVE", version |-> 0]
    /\ accepted' = {}
    /\ raced' = (raced \/ Busy # {} \/ repair.at # "idle")
    /\ cut' = (cut \/ Writing # {} \/ repair.at # "idle")
    /\ UNCHANGED <<policy, threadVars, executed, repair, outcome, beaten, written>>
-----------------------------------------------------------------------------
\* Mutant: a node that has its content is activated.
RepairListActivates ==
    /\ repair.at = "idle" /\ left.repairs > 0
    /\ {"meta", "content"} \cap files # {}
    /\ left' = [left EXCEPT !.repairs = @ - 1]
    /\ repair' = [Idle EXCEPT !.at = IF "meta" \in files THEN "read" ELSE "fresh",
                             !.seen = files]
    /\ UNCHANGED <<policy, nodeFiles, threadVars, executed, history>>

\* RepairJob lists the files of the node.  With no .meta.json and the content
\* there, it will write one: ACTIVE if nothing else is missing, else PENDING.
RepairList ==
    /\ repair.at = "idle" /\ left.repairs > 0
    /\ {"meta", "content"} \cap files # {}
    /\ left' = [left EXCEPT !.repairs = @ - 1]
    /\ repair' = [at |-> IF "meta" \in files THEN "read" ELSE "fresh",
                  seen |-> files,
                  status |-> IF Required \subseteq files THEN "ACTIVE" ELSE "PENDING",
                  version |-> 1, stale |-> FALSE]
    /\ UNCHANGED <<policy, nodeFiles, threadVars, executed, history>>

\* It reads .meta.json: only a PENDING node is worked on.
RepairRead ==
    /\ repair.at = "read"
    /\ repair' = IF "meta" \in files /\ meta.status = "PENDING"
                 THEN [repair EXCEPT !.at = "reread",
                         !.status = IF Required \subseteq repair.seen
                                    THEN "ACTIVE" ELSE "BROKEN"]
                 ELSE Idle
    /\ UNCHANGED <<policy, nodeFiles, threadVars, executed, left, history>>

\* _update_meta_status reads .meta.json once more; without it, a new one.
RepairReread ==
    /\ repair.at = "reread"
    /\ repair' = IF "meta" \in files
                 THEN [repair EXCEPT !.at = "update", !.version = meta.version]
                 ELSE [repair EXCEPT !.at = "fresh"]
    /\ UNCHANGED <<policy, nodeFiles, threadVars, executed, left, history>>

\* A new .meta.json of version 1 (_write_meta_json), or the one read with a
\* new status (_update_meta_status), over whatever is there by now.
RepairWrite ==
    /\ repair.at \in {"fresh", "update"}
    /\ dir' = TRUE /\ files' = files \cup {"meta"}
    /\ meta' = [status |-> repair.status, version |-> repair.version]
    /\ repair' = Idle
    /\ raced' = (raced \/ Busy # {} \/ repair.stale)
    /\ Overtake(Thread)
    /\ UNCHANGED <<policy, body, threadVars, executed, left, outcome, accepted,
                   written, cut>>

-----------------------------------------------------------------------------
ThreadStep(t) ==
    \/ \E c \in Cand : Call(t, c)
    \/ Exists(t) \/ ReadMeta(t) \/ ReadContent(t) \/ ReadOverview(t)
    \/ Check(t) \/ MakeDir(t) \/ WriteFile(t) \/ Commit(t) \/ Mark(t) \/ Fail(t)

RepairStep == RepairList \/ RepairRead \/ RepairReread \/ RepairWrite

NodeNext ==
    \/ \E t \in Thread : ThreadStep(t)
    \/ RepairStep \/ Delete \/ Crash

NodeSpec == NodeInit /\ [][NodeNext]_nodeVars

-----------------------------------------------------------------------------
NodeTypeOK ==
    /\ policy \in Policies
    /\ dir \in BOOLEAN /\ files \subseteq NodeFile
    /\ body \in [Bodies -> SUBSET Cand]
    /\ meta \in [status : Status, version : Nat]
    /\ at \in [Thread -> NodeFile \cup {"idle", "exists", "readMeta", "readContent",
                                    "readOverview", "check", "mkdir", "mark"}]
    /\ cand \in [Thread -> Cand \cup {NoCand}]
    /\ plan \in [Thread -> [action : {"none", "create", "merge"}, expected : Nat,
                            base : [Bodies -> SUBSET Cand]]]
    /\ attempt \in [Thread -> 0..MaxAttempts]
    /\ executed \subseteq {"create", "merge"} \X Cand
    /\ repair \in [at : {"idle", "fresh", "read", "reread", "update"},
                   seen : SUBSET NodeFile, status : Status, version : Nat,
                   stale : BOOLEAN]
    /\ left \in [calls : Nat, deletes : Nat, repairs : Nat, crashes : Nat]
    /\ outcome \in [Thread -> {"none", "written", "duplicate", "skipped",
                               "raised", "gave up"}]
    /\ beaten \in [Thread -> 0..MaxAttempts]
    /\ accepted \subseteq written /\ written \subseteq Cand
    /\ raced \in BOOLEAN /\ cut \in BOOLEAN

(***************************************************************************)
(* A node that readers take for committed has all its files, whichever     *)
(* writes of whichever writers, crashed or alive, and whichever visits of  *)
(* the repair job brought it there: .meta.json is written last, and a      *)
(* node half written is never activated.  Only a deletion under a writer   *)
(* breaks it.  (agfs_context_fs.py:558-603, repair_job.py:337-415)         *)
(***************************************************************************)
ActiveComplete == Active /\ ~cut => Required \subseteq files

(***************************************************************************)
(* No merge is lost to a writer that read the node before it: what was     *)
(* committed stays in the body, however long the LLM merges in between.    *)
(* The version check gives this for every overlap but those `raced` stands *)
(* for: two calls between check and commit at once, a create that finds    *)
(* the node there, a deletion or repair under a call.                      *)
(* (agfs_context_fs.py:525-544, context_writer.py:108-190)                 *)
(***************************************************************************)
MergesKept ==
    policy = "append" /\ ~raced =>
        accepted \subseteq body["content"] \cap body["overview"]

(***************************************************************************)
(* A candidate is given up only after its call was overtaken as often as   *)
(* it may try: each attempt plans on a fresh version, so every conflict is *)
(* a new write by someone else.  (context_writer.py:170-192)               *)
(***************************************************************************)
GiveUpJustified ==
    \A t \in Thread : outcome[t] = "gave up" => beaten[t] >= MaxAttempts

(***************************************************************************)
(* A candidate that is skipped as a duplicate was committed before: a      *)
(* write that failed half way or lost its conflict leaves no fingerprint.  *)
(* (context_writer.py:121-127, 146)                                        *)
(***************************************************************************)
DuplicatesWritten ==
    \A t \in Thread : outcome[t] = "duplicate" => cand[t] \in written
=============================================================================
