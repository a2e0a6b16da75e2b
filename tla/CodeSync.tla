------------------------------ MODULE CodeSync ------------------------------
(***************************************************************************)
(* The code memory of a workspace: code_sync_workspace, which compares the *)
(* files with a snapshot of the last sync and rebuilds what changed, next  *)
(* to code_refresh_workspace_path and the plain ingestion of a file, which *)
(* take no lock, and a user who edits the files meanwhile.  Source:        *)
(*   src/code-version/server/memory_service.py, with the parts of          *)
(*   ContextWriter and CodeChunkPolicy that decide about a chunk.          *)
(*                                                                         *)
(* A file is its chunks: the hash of the chunk at each slot (symbol and    *)
(* line range), from which the URI of the chunk's node is made.  Reading a *)
(* file, dropping chunks of a file and writing its chunks are one step     *)
(* each; NodeStore and OutboxSync look inside the writes and deletions.    *)
(***************************************************************************)
EXTENDS Naturals

CONSTANTS
    File,            \* source files of the workspace
    Slot,            \* chunk identities within a file
    Hash,            \* chunk contents
    NoHash,          \* no chunk there
    Mentions,        \* pairs <<g, f>>: chunks of g contain the path of f
    Faults,          \* deletions and writes of chunks may fail
    SyncBudgets      \* bounds: edits, syncs, refreshes or ingestions, restarts

ASSUME SyncAssumption ==
    /\ NoHash \notin Hash /\ Mentions \subseteq File \X File
    /\ Faults \in BOOLEAN
    /\ SyncBudgets \subseteq [edits : Nat, syncs : Nat, jobs : Nat, restarts : Nat]

VARIABLES
    workspace,   \* [File -> chunks of the file as it is on disk]
    memory,      \* [File -> chunks that have a node]
    done,        \* fingerprints in _executed_ops: file, slot, hash
    snapshot,    \* [File -> chunks of the snapshot]
    kept,        \* the snapshot directory exists
    initialized, \* meta.json says so
    sync,        \* the sync that holds _code_sync_lock
    job,         \* a refresh or ingestion of one file
    budget,      \* what is left of the bounds
    \* History, read by properties only:
    loose,       \* files whose memory may differ from the snapshot
    duplicate    \* chunks not written because their fingerprint was known

state == <<workspace, memory, done, snapshot, kept, initialized>>
syncVars == <<state, sync, job, budget, loose, duplicate>>

Text == [Slot -> Hash \cup {NoHash}]
Absent == [s \in Slot |-> NoHash]
NoSync == [at |-> "idle", copy |-> [f \in File |-> Absent], scope |-> {},
           deleted |-> {}, stale |-> {}, changed |-> {}, bad |-> {},
           file |-> "none", text |-> Absent]
NoJob == [at |-> "idle", file |-> "none", text |-> Absent,
          dropped |-> FALSE, ok |-> TRUE]

SyncInit ==
    /\ workspace \in [File -> Text]
    /\ memory = [f \in File |-> Absent]
    /\ done = {} /\ snapshot = [f \in File |-> Absent]
    /\ kept = FALSE /\ initialized = FALSE
    /\ sync = NoSync /\ job = NoJob
    /\ budget \in SyncBudgets
    /\ loose = {} /\ duplicate = {}

Spend(what) ==
    /\ budget[what] > 0
    /\ budget' = [budget EXCEPT ![what] = @ - 1]

Running == sync.at # "idle"
JobOn(f) == job.at # "idle" /\ job.file = f

\* The user edits, adds or removes a file.
Edit(f, text) ==
    /\ text # workspace[f] /\ Spend("edits")
    /\ workspace' = [workspace EXCEPT ![f] = text]
    /\ UNCHANGED <<memory, done, snapshot, kept, initialized, sync, job, loose, duplicate>>
-----------------------------------------------------------------------------
\* _list_code_memory_records_for_file: the nodes of f, and those of files
\* whose text contains the path of f.
Listed(f) == {f} \cup {g \in File : <<g, f>> \in Mentions}

\* _delete_code_memory_uris for the listed chunks of f whose hash is not in
\* expected (no other file's chunk is); some deletions fail.
Drop(f, expected, failing) ==
    memory' = [g \in File |->
        IF g \notin Listed(f) THEN memory[g]
        ELSE [s \in Slot |-> IF \/ <<g, s>> \in failing
                                \/ g = f /\ memory[f][s] = expected[s]
                             THEN memory[g][s] ELSE NoHash]]

Failures(f) == IF Faults THEN SUBSET ({f} \X Slot) ELSE {{}}

\* ingest_code_file: CodeChunkPolicy skips a chunk that has a node, the
\* writer one whose fingerprint it knows; the others get a node.
Ingest(f, text, failing) ==
    LET wanted == {s \in Slot : text[s] # NoHash /\ memory[f][s] = NoHash}
        known == {s \in wanted : <<f, s, text[s]>> \in done}
        made == {s \in wanted \ known : <<f, s>> \notin failing}
    IN /\ memory' = [memory EXCEPT ![f] =
              [s \in Slot |-> IF s \in made THEN text[s] ELSE memory[f][s]]]
       /\ done' = done \cup {<<f, s, text[s]>> : s \in made}
       /\ duplicate' = (duplicate \ {<<f, s, text[s]>> : s \in made})
                           \cup {<<f, s, text[s]>> : s \in known}

-----------------------------------------------------------------------------
\* code_sync_workspace takes the lock, copies the workspace and compares the
\* copy with the snapshot, or with nothing on a first sync, which deletes no
\* memory.  (A diff that fails ends it without effect.)
SyncBegin(force) ==
    LET first == force \/ ~initialized \/ ~kept
        old == IF first THEN [f \in File |-> Absent] ELSE snapshot
        changed == {f \in File : workspace[f] # old[f] /\ workspace[f] # Absent}
        removed == {f \in File : workspace[f] = Absent /\ old[f] # Absent}
    IN /\ ~Running /\ Spend("syncs")
       /\ sync' = [NoSync EXCEPT !.at = "apply", !.copy = workspace,
                      !.scope = changed \cup removed, !.deleted = removed,
                      !.stale = changed, !.changed = changed]
       /\ loose' = loose \cup IF first THEN {f \in File : workspace[f] = Absent
                                                          /\ memory[f] # Absent}
                              ELSE {}
       /\ UNCHANGED <<state, job, duplicate>>

\* The memory of a removed file is deleted; errors are only counted.
SyncDelete(f) ==
    /\ sync.at = "apply" /\ f \in sync.deleted
    /\ sync' = [sync EXCEPT !.deleted = @ \ {f}]
    /\ \E failing \in Failures(f) :
         /\ Drop(f, Absent, failing)
         /\ loose' = (Listed(f) \ {f}) \cup
                       IF failing # {} \/ f \in sync.bad \/ JobOn(f)
                       THEN loose \cup {f} ELSE loose \ {f}
    /\ UNCHANGED <<workspace, done, snapshot, kept, initialized, job, budget, duplicate>>

\* After the removed files: chunks of a changed file that are not, or not
\* with this hash, in the file as it is now.
SyncDropStale(f) ==
    /\ sync.at = "apply" /\ sync.deleted = {} /\ f \in sync.stale
    /\ \E failing \in Failures(f) :
         /\ Drop(f, workspace[f], failing)
         /\ sync' = [sync EXCEPT !.stale = @ \ {f},
                       !.bad = IF failing = {} /\ workspace[f] = sync.copy[f]
                               THEN @ ELSE @ \cup {f}]
    /\ loose' = loose \cup Listed(f)
    /\ UNCHANGED <<workspace, done, snapshot, kept, initialized, job, budget, duplicate>>

\* After all stale chunks: a changed file is read again and ingested; one
\* that is gone by now is passed over.
SyncRead(f) ==
    /\ sync.at = "apply" /\ sync.deleted = {} /\ sync.stale = {}
    /\ f \in sync.changed
    /\ sync' = [sync EXCEPT !.changed = @ \ {f},
                  !.at = IF workspace[f] = Absent THEN "apply" ELSE "write",
                  !.file = f, !.text = workspace[f]]
    /\ UNCHANGED <<state, job, budget, loose, duplicate>>

SyncIngest ==
    /\ sync.at = "write"
    /\ LET f == sync.file IN
       \E failing \in Failures(f) :
         /\ Ingest(f, sync.text, failing)
         /\ loose' = IF \/ failing # {} \/ f \in sync.bad \/ JobOn(f)
                        \/ sync.text # sync.copy[f]
                     THEN loose \cup {f} ELSE loose \ {f}
    /\ sync' = [sync EXCEPT !.at = "apply"]
    /\ UNCHANGED <<workspace, snapshot, kept, initialized, job, budget>>

\* Failures or not, the old snapshot is removed, the copy takes its place,
\* and meta.json is written.
SyncUnlink ==
    /\ sync.at = "apply"
    /\ sync.deleted = {} /\ sync.stale = {} /\ sync.changed = {}
    /\ kept' = FALSE /\ snapshot' = [f \in File |-> Absent]
    /\ sync' = [sync EXCEPT !.at = "rename"]
    /\ UNCHANGED <<workspace, memory, done, initialized, job, budget, loose, duplicate>>

\* Mutant: the workspace is copied again for the snapshot.
SyncRenameCopiesAgain ==
    /\ sync.at = "rename"
    /\ kept' = TRUE /\ snapshot' = workspace
    /\ sync' = [sync EXCEPT !.at = "meta"]
    /\ UNCHANGED <<workspace, memory, done, initialized, job, budget, loose, duplicate>>

SyncRename ==
    /\ sync.at = "rename"
    /\ kept' = TRUE /\ snapshot' = sync.copy
    /\ sync' = [sync EXCEPT !.at = "meta"]
    /\ UNCHANGED <<workspace, memory, done, initialized, job, budget, loose, duplicate>>

SyncMeta ==
    /\ sync.at = "meta"
    /\ initialized' = TRUE
    /\ sync' = NoSync
    /\ UNCHANGED <<workspace, memory, done, snapshot, kept, job, budget, loose, duplicate>>
-----------------------------------------------------------------------------
\* code_refresh_workspace_path (drop) or the ingestion of one file begins.
JobBegin(f, drop) ==
    /\ job.at \in {"idle", "done"} /\ Spend("jobs")
    /\ job' = [NoJob EXCEPT !.at = IF drop THEN "drop" ELSE "read", !.file = f,
                            !.dropped = drop]
    /\ loose' = IF Running /\ f \in sync.scope THEN loose \cup {f} ELSE loose
    /\ UNCHANGED <<state, sync, duplicate>>

\* A sync that is running meets the job on these files (history).
Disturb(fs) ==
    sync' = IF Running THEN [sync EXCEPT !.bad = @ \cup fs] ELSE sync

\* A refresh deletes every chunk listed for the file.
JobDrop ==
    /\ job.at = "drop"
    /\ \E failing \in Failures(job.file) :
         /\ Drop(job.file, Absent, failing)
         /\ job' = [job EXCEPT !.at = "read", !.ok = failing = {}]
    /\ loose' = loose \cup Listed(job.file)
    /\ Disturb(Listed(job.file))
    /\ UNCHANGED <<workspace, done, snapshot, kept, initialized, budget, duplicate>>

JobRead ==
    /\ job.at = "read"
    /\ job' = IF workspace[job.file] = Absent THEN NoJob
              ELSE [job EXCEPT !.at = "write", !.text = workspace[job.file]]
    /\ UNCHANGED <<state, sync, budget, loose, duplicate>>

\* It leaves what was as in the snapshot so, if it ingested just that text
\* and no sync was running.
JobIngest ==
    /\ job.at = "write"
    /\ LET f == job.file IN
       \E failing \in Failures(f) :
         /\ Ingest(f, job.text, failing)
         /\ job' = [job EXCEPT !.at = "done", !.ok = @ /\ failing = {}]
         /\ loose' = IF \/ ~job.ok \/ failing # {} \/ Running
                        \/ job.text # snapshot[f]
                     THEN loose \cup {f} ELSE loose
    /\ Disturb({job.file})
    /\ UNCHANGED <<workspace, snapshot, kept, initialized, budget>>

\* The server is restarted in the middle of what it does.
Restart ==
    /\ Spend("restarts")
    /\ done' = {} /\ sync' = NoSync /\ job' = NoJob
    /\ loose' = IF Running THEN loose \cup sync.scope ELSE loose
    /\ UNCHANGED <<workspace, memory, snapshot, kept, initialized, duplicate>>

SyncNext ==
    \/ \E f \in File, text \in Text : Edit(f, text)
    \/ \E force \in BOOLEAN : SyncBegin(force)
    \/ \E f \in File : SyncDelete(f) \/ SyncDropStale(f) \/ SyncRead(f)
    \/ SyncIngest \/ SyncUnlink \/ SyncRename \/ SyncMeta
    \/ \E f \in File, drop \in BOOLEAN : JobBegin(f, drop)
    \/ JobDrop \/ JobRead \/ JobIngest \/ Restart

SyncSpec == SyncInit /\ [][SyncNext]_syncVars
-----------------------------------------------------------------------------
SyncTypeOK ==
    /\ workspace \in [File -> Text] /\ memory \in [File -> Text]
    /\ snapshot \in [File -> Text]
    /\ done \subseteq File \X Slot \X Hash /\ duplicate \subseteq File \X Slot \X Hash
    /\ kept \in BOOLEAN /\ initialized \in BOOLEAN
    /\ sync.at \in {"idle", "apply", "write", "rename", "meta"}
    /\ sync.deleted \cup sync.changed \subseteq sync.scope
    /\ sync.scope \cup sync.stale \cup sync.bad \subseteq File
    /\ sync.file \in File \cup {"none"} /\ sync.copy \in [File -> Text] /\ sync.text \in Text
    /\ job \in [at : {"idle", "drop", "read", "write", "done"}, file : File \cup {"none"},
                text : Text, dropped : BOOLEAN, ok : BOOLEAN]
    /\ budget \in [edits : Nat, syncs : Nat, jobs : Nat, restarts : Nat]
    /\ loose \subseteq File

\* Between syncs, what the snapshot stands for.
Synced == ~Running /\ kept /\ initialized

(***************************************************************************)
(* Incremental syncs do not drift: between syncs the memory of a file is   *)
(* what the snapshot has of it, chunk by chunk, whatever was edited,       *)
(* failed, restarted or refreshed in earlier syncs; only a chunk the       *)
(* writer refused, as an operation done before the chunk was deleted, may  *)
(* be missing.  Files in `loose` are the exceptions: a failure that the    *)
(* sync does not report, an edit during the sync, a race with a refresh, a *)
(* file removed before a first or forced sync, chunks dropped for naming   *)
(* another file.  (memory_service.py:4718-4789, 1085-1128,                 *)
(* context_writer.py:125)                                                  *)
(***************************************************************************)
MemoryIsSnapshot ==
    Synced => \A f \in File \ loose, s \in Slot :
                 \/ memory[f][s] = snapshot[f][s]
                 \/ memory[f][s] = NoHash /\ <<f, s, snapshot[f][s]>> \in duplicate

(***************************************************************************)
(* A refresh rebuilds: when it is through without an error, every chunk of *)
(* the text it ingested has a node.  (memory_service.py:2978)              *)
(***************************************************************************)
RefreshRebuilds ==
    job.at = "done" /\ job.dropped /\ job.ok =>
        \A s \in Slot : job.text[s] # NoHash => memory[job.file][s] # NoHash
=============================================================================
