----------------------------- MODULE OutboxSync -----------------------------
(***************************************************************************)
(* The outbox between the node store and the vector index:                 *)
(* commit/outbox_store.py (the event files), index/outbox_worker.py        *)
(* (run_once) and the two code paths that register events, ContextWriter   *)
(* .write_candidate and MemoryService._delete_code_memory_uris.            *)
(*                                                                         *)
(* An event is a file <node>/.outbox/<id>.json; claiming it creates        *)
(* <id>.processing beside it; a dead letter is <node>/.outbox/dlq/<id>     *)
(* .json.  Every step of the module is one call to the storage server, to  *)
(* the embedder or to the index, so that workers (the 5 s loop, the        *)
(* drains run by request threads, a second server process) interleave      *)
(* between any two of them.                                                *)
(*                                                                         *)
(* Events are natural numbers ordered as a listing returns them: by node,  *)
(* then by the random UUID that names the file.  The order in which they   *)
(* are registered is not that order.  The payload of an UPSERT event is    *)
(* the content of the write that registered it, so the event's own number  *)
(* stands for that content in the node and in the index.                   *)
(***************************************************************************)
EXTENDS Naturals, FiniteSets

CONSTANTS
  Event,          \* event ids, in listing order
  Node,           \* node directories
  Worker,         \* threads that run OutboxWorker.run_once
  Uri,            \* [Event -> Node]: the node an event is about
  Kind,           \* [Event -> Kinds]: its event_type and shape of payload
  MaxRetry,       \* WorkerConfig.max_retry
  MaxCrashes,     \* bound on the crashes of workers
  MaxFails,       \* bound up to which the history counts failed attempts
  StorageFaults,  \* may a storage call of a worker or writer fail?
  HeldMayExpire   \* may 300 s pass while a live worker holds a lock?

Kinds == {"UPSERT", "EMPTY", "MALFORMED", "DELETE", "OTHER"}

ASSUME EventAssumption == Event \subseteq Nat \ {0} /\ IsFiniteSet(Event)
ASSUME UriAssumption   == Uri \in [Event -> Node]
ASSUME KindAssumption  == Kind \in [Event -> Kinds]
ASSUME BoundAssumption == MaxRetry \in Nat /\ MaxCrashes \in Nat /\ MaxFails \in Nat
ASSUME FaultAssumption == StorageFaults \in BOOLEAN /\ HeldMayExpire \in BOOLEAN

VARIABLES
  author,     \* [Event -> ...]: progress of the request that registers the event
  node,       \* [Node -> Event \cup {0}]: the write whose content the node has
  dirs,       \* nodes whose directory exists
  outboxes,   \* nodes whose .outbox directory exists
  pending,    \* events whose .json file exists
  retry,      \* [Event -> 0..MaxRetry]: retry_count in that file
  waiting,    \* events whose next_retry_at lies in the future
  locked,     \* events whose .processing file is younger than 300 s
  dead,       \* events with a copy in the dead letter queue
  index,      \* [Node \X Part -> Event \cup {0}]: content of the index records
  loop,       \* [Worker -> Loops]: the loop of run_once a worker is in
  step,       \* [Worker -> Steps]: the next call for the current event
  todo,       \* [Worker -> SUBSET Event]: rest of that loop, current event first
  batch,      \* [Worker -> SUBSET Event]: upsert_batch
  others,     \* [Worker -> SUBSET Event]: other_events not yet reached
  snap,       \* [Worker -> [Event -> 0..MaxRetry]]: retry_count in memory
  crashes,    \* number of crashes so far
  delivered,  \* history: events whose handler has succeeded
  fails,      \* history: failed attempts, counted up to MaxFails
  wiped       \* history: events whose files delete_node removed

authorVars == <<author, node, dirs>>
fileVars   == <<outboxes, pending, retry, waiting>>
workVars   == <<loop, step, todo, batch, others, snap>>
histVars   == <<delivered, fails, wiped>>
vars == <<authorVars, fileVars, locked, dead, index, workVars, crashes, histVars>>

Part  == {"uri", "content"}
Loops == {"idle", "acquire", "embed", "upsert", "rebatch", "other"}
Steps == {"next", "lock", "done", "unlock", "fail", "refail", "bury"}

-----------------------------------------------------------------------------
(* Helpers *)

Writes == {"UPSERT", "EMPTY"}

First(S) == CHOOSE e \in S : \A f \in S : e <= f
Current(w) == First(todo[w])

\* What _collect_outbox_events lets through.  A lock file that cannot be read
\* counts as absent, here and in try_acquire.
Listable == {e \in pending \ locked : e \notin waiting}

\* Events worker w has claimed and not finished with.
Claimed(w) ==
  others[w] \cup
    IF loop[w] = "acquire"
    THEN batch[w] \cup {e \in todo[w] : e = Current(w) /\ step[w] \notin {"next", "lock"}}
    ELSE todo[w]

\* The records an UPSERT writes and the ids a DELETE removes: level 2 is stored
\* under the id of <uri>/content.md and deleted under the id of <uri>.
UpsertRecords(e) ==
  index' = [r \in Node \X Part |-> IF r[1] = Uri[e] THEN e ELSE index[r]]
DeleteRecords(e) ==
  index' = [index EXCEPT ![<<Uri[e], "uri">>] = 0]

Bump(f, S) ==
  [e \in Event |-> IF e \in S /\ f[e] < MaxFails THEN f[e] + 1 ELSE f[e]]

Init ==
  /\ author = [e \in Event |-> "new"]
  /\ node = [n \in Node |-> 0]
  /\ dirs = {}
  /\ outboxes = {}
  /\ pending = {}
  /\ retry = [e \in Event |-> 0]
  /\ waiting = {}
  /\ locked = {}
  /\ dead = {}
  /\ index = [r \in Node \X Part |-> 0]
  /\ loop = [w \in Worker |-> "idle"]
  /\ step = [w \in Worker |-> "next"]
  /\ todo = [w \in Worker |-> {}]
  /\ batch = [w \in Worker |-> {}]
  /\ others = [w \in Worker |-> {}]
  /\ snap = [w \in Worker |-> [e \in Event |-> 0]]
  /\ crashes = 0
  /\ delivered = {}
  /\ fails = [e \in Event |-> 0]
  /\ wiped = {}

-----------------------------------------------------------------------------
(* Requests that register events *)

\* AGFSContextFS.write_node up to its commit point, the write of .meta.json.
WriteNode(e) ==
  /\ Kind[e] \in Writes
  /\ author[e] = "new"
  /\ author' = [author EXCEPT ![e] = "written"]
  /\ node' = [node EXCEPT ![Uri[e]] = e]
  /\ dirs' = dirs \cup {Uri[e]}
  /\ UNCHANGED <<fileVars, locked, dead, index, workVars, crashes, histVars>>

ReadyToRegister(e) ==
  author[e] = IF Kind[e] \in Writes THEN "written" ELSE "new"

\* _write_event: mkdir of .outbox, temporary file, rename.  Nothing lists the
\* temporary file, so the rename is the step at which the event appears.
RegisterEvent(e) ==
  /\ ReadyToRegister(e)
  /\ Uri[e] \in dirs
  /\ author' = [author EXCEPT ![e] = "registered"]
  /\ outboxes' = outboxes \cup {Uri[e]}
  /\ pending' = pending \cup {e}
  /\ UNCHANGED <<node, dirs, retry, waiting, locked, dead, index, workVars, crashes, histVars>>

\* Mutant: the failed call goes unnoticed and the request reports success.
RegisterFailsSilently(e) ==
  /\ ReadyToRegister(e)
  /\ StorageFaults \/ Uri[e] \notin dirs
  /\ author' = [author EXCEPT ![e] = "registered"]
  /\ UNCHANGED <<node, dirs, fileVars, locked, dead, index, workVars, crashes, histVars>>

\* The storage call raises: the writer logs a warning and returns its plan.
RegisterFails(e) ==
  /\ ReadyToRegister(e)
  /\ StorageFaults \/ Uri[e] \notin dirs
  /\ author' = [author EXCEPT ![e] = "failed"]
  /\ UNCHANGED <<node, dirs, fileVars, locked, dead, index, workVars, crashes, histVars>>

\* _delete_code_memory_uris removes the node only after registering the DELETE
\* event; the recursive rm takes .outbox and everything in it.
DeleteNode(e) ==
  LET gone == {f \in Event : Uri[f] = Uri[e]}
  IN /\ Kind[e] = "DELETE"
     /\ author[e] = "registered"
     /\ Uri[e] \in dirs
     /\ author' = [author EXCEPT ![e] = "deleted"]
     /\ node' = [node EXCEPT ![Uri[e]] = 0]
     /\ dirs' = dirs \ {Uri[e]}
     /\ outboxes' = outboxes \ {Uri[e]}
     /\ pending' = pending \ gone
     /\ retry' = [f \in Event |-> IF f \in gone THEN 0 ELSE retry[f]]
     /\ waiting' = waiting \ gone
     /\ locked' = locked \ gone
     /\ dead' = dead \ gone
     /\ wiped' = wiped \cup (gone \cap (pending \cup dead))
     /\ UNCHANGED <<index, workVars, crashes, delivered, fails>>

-----------------------------------------------------------------------------
(* Control of a worker *)

Go(w, l, s, t) ==
  /\ loop' = [loop EXCEPT ![w] = l]
  /\ step' = [step EXCEPT ![w] = s]
  /\ todo' = [todo EXCEPT ![w] = t]

\* run_once is left: by returning, by an exception, or because the thread dies.
Leave(w) ==
  /\ Go(w, "idle", "next", {})
  /\ batch' = [batch EXCEPT ![w] = {}]
  /\ others' = [others EXCEPT ![w] = {}]
  /\ snap' = [snap EXCEPT ![w] = [e \in Event |-> 0]]

Stay(w, s) ==
  /\ Go(w, loop[w], s, todo[w])
  /\ UNCHANGED <<batch, others>>

\* retry_count in memory, kept for the events run_once may still handle.
Keep(w, S) == [e \in Event |-> IF e \in S THEN snap[w][e] ELSE 0]

Advance(w) ==
  /\ Go(w, loop[w], "next", todo[w] \ {Current(w)})
  /\ snap' = [snap EXCEPT ![w] =
                Keep(w, batch[w] \cup others[w] \cup (todo[w] \ {Current(w)}))]
  /\ UNCHANGED <<batch, others>>

\* The loop over upsert_batch is over: phase 2 begins.
StartOthers(w) ==
  /\ Go(w, "other", "next", others[w])
  /\ batch' = [batch EXCEPT ![w] = {}]
  /\ others' = [others EXCEPT ![w] = {}]
  /\ snap' = [snap EXCEPT ![w] = Keep(w, others[w])]

\* _handle_processing_result raises, the retry_count in memory being s.
\* Inside the batch loop the outer "except" then handles the WHOLE batch as
\* failed; for another event the "except" handles the event once more; in any
\* other place the exception leaves run_once.
Raise(w, s) ==
  CASE loop[w] = "upsert" ->
         /\ Go(w, "rebatch", "next", batch[w])
         /\ snap' = [snap EXCEPT ![w] = s]
         /\ UNCHANGED <<batch, others>>
    [] loop[w] = "other" /\ step[w] = "fail" ->
         /\ Stay(w, "refail")
         /\ snap' = [snap EXCEPT ![w] = s]
    [] OTHER -> Leave(w)

CanWrite(e) == Uri[e] \in outboxes
CannotWrite(e) == StorageFaults \/ Uri[e] \notin outboxes

-----------------------------------------------------------------------------
(* run_once: list and claim *)

\* list_pending swallows every storage error: a faulty scan misses events, and
\* the locks of others.
ListPending(w, S) ==
  /\ loop[w] = "idle"
  /\ S # {}
  /\ IF StorageFaults THEN S \subseteq pending \ waiting ELSE S = Listable
  /\ Go(w, "acquire", "next", S)
  /\ snap' = [snap EXCEPT ![w] = [e \in Event |-> IF e \in S THEN retry[e] ELSE 0]]
  /\ UNCHANGED <<authorVars, fileVars, locked, dead, index, batch, others, crashes, histVars>>

\* try_acquire, first half: read the lock file.
ReadLock(w) ==
  /\ loop[w] = "acquire" /\ step[w] = "next" /\ todo[w] # {}
  /\ \/ Current(w) \in locked /\ Advance(w)
     \/ /\ Current(w) \notin locked \/ StorageFaults
        /\ Stay(w, "lock")
        /\ UNCHANGED snap
  /\ UNCHANGED <<authorVars, fileVars, locked, dead, index, crashes, histVars>>

\* try_acquire, second half: write the lock file, whatever is there by now.
\* Then the event is sorted into upsert_batch or other_events; one without
\* records is done at once, a malformed one fails at once.
WriteLock(w) ==
  LET e == Current(w)
  IN /\ loop[w] = "acquire" /\ step[w] = "lock"
     /\ CanWrite(e)
     /\ locked' = locked \cup {e}
     /\ CASE Kind[e] = "UPSERT" ->
               /\ Go(w, "acquire", "next", todo[w] \ {e})
               /\ batch' = [batch EXCEPT ![w] = @ \cup {e}]
               /\ UNCHANGED <<others, delivered, fails>>
          [] Kind[e] = "EMPTY" ->
               /\ Stay(w, "done")
               /\ delivered' = delivered \cup {e}
               /\ UNCHANGED fails
          [] Kind[e] = "MALFORMED" ->
               /\ Stay(w, "fail")
               /\ fails' = Bump(fails, {e})
               /\ UNCHANGED delivered
          [] OTHER ->
               /\ Go(w, "acquire", "next", todo[w] \ {e})
               /\ others' = [others EXCEPT ![w] = @ \cup {e}]
               /\ UNCHANGED <<batch, delivered, fails>>
     /\ UNCHANGED <<authorVars, fileVars, dead, index, snap, crashes, wiped>>

\* The write of the lock is outside any "try": run_once ends here.
WriteLockFails(w) ==
  /\ loop[w] = "acquire" /\ step[w] = "lock"
  /\ CannotWrite(Current(w))
  /\ Leave(w)
  /\ UNCHANGED <<authorVars, fileVars, locked, dead, index, crashes, histVars>>

EndAcquire(w) ==
  /\ loop[w] = "acquire" /\ step[w] = "next" /\ todo[w] = {}
  /\ IF batch[w] # {}
     THEN Go(w, "embed", "next", batch[w]) /\ UNCHANGED <<batch, others, snap>>
     ELSE StartOthers(w)
  /\ UNCHANGED <<authorVars, fileVars, locked, dead, index, crashes, histVars>>

-----------------------------------------------------------------------------
(* run_once: phase 1, the batch of UPSERT_CONTEXT events *)

Embed(w) ==
  /\ loop[w] = "embed"
  /\ Go(w, "upsert", "next", batch[w])
  /\ UNCHANGED <<authorVars, fileVars, locked, dead, index, batch, others, snap, crashes, histVars>>

EmbedFails(w) ==
  /\ loop[w] = "embed"
  /\ fails' = Bump(fails, batch[w])
  /\ Go(w, "rebatch", "next", batch[w])
  /\ UNCHANGED <<authorVars, fileVars, locked, dead, index, batch, others, snap, crashes, delivered, wiped>>

Upsert(w) ==
  /\ loop[w] = "upsert" /\ step[w] = "next" /\ todo[w] # {}
  /\ UpsertRecords(Current(w))
  /\ delivered' = delivered \cup {Current(w)}
  /\ Stay(w, "done")
  /\ UNCHANGED <<authorVars, fileVars, locked, dead, snap, crashes, fails, wiped>>

\* Mutant: the exception of the index is swallowed and the event counts as done.
UpsertFailsSwallowed(w) ==
  /\ loop[w] = "upsert" /\ step[w] = "next" /\ todo[w] # {}
  /\ fails' = Bump(fails, {Current(w)})
  /\ Stay(w, "done")
  /\ UNCHANGED <<authorVars, fileVars, locked, dead, index, snap, crashes, delivered, wiped>>

UpsertFails(w) ==
  /\ loop[w] = "upsert" /\ step[w] = "next" /\ todo[w] # {}
  /\ fails' = Bump(fails, {Current(w)})
  /\ Stay(w, "fail")
  /\ UNCHANGED <<authorVars, fileVars, locked, dead, index, snap, crashes, delivered, wiped>>

\* The outer "except": the next event of the batch is handled as failed.
FailBatch(w) ==
  /\ loop[w] = "rebatch" /\ step[w] = "next" /\ todo[w] # {}
  /\ Stay(w, "fail")
  /\ UNCHANGED <<authorVars, fileVars, locked, dead, index, snap, crashes, histVars>>

EndBatch(w) ==
  /\ loop[w] \in {"upsert", "rebatch"} /\ step[w] = "next" /\ todo[w] = {}
  /\ StartOthers(w)
  /\ UNCHANGED <<authorVars, fileVars, locked, dead, index, crashes, histVars>>

-----------------------------------------------------------------------------
(* run_once: phase 2, all other events one by one *)

AtOther(w) == loop[w] = "other" /\ step[w] = "next" /\ todo[w] # {}

\* _handle_max_retry_exceeded: no attempt is made.
GiveUp(w) ==
  /\ AtOther(w)
  /\ snap[w][Current(w)] >= MaxRetry
  /\ Stay(w, "fail")
  /\ UNCHANGED <<authorVars, fileVars, locked, dead, index, snap, crashes, histVars>>

\* process_event succeeds; event types it does not know succeed without effect.
ProcessOther(w) ==
  LET e == Current(w)
  IN /\ AtOther(w)
     /\ snap[w][e] < MaxRetry
     /\ IF Kind[e] = "DELETE" THEN DeleteRecords(e) ELSE UNCHANGED index
     /\ delivered' = delivered \cup {e}
     /\ Stay(w, "done")
     /\ UNCHANGED <<authorVars, fileVars, locked, dead, snap, crashes, fails, wiped>>

ProcessOtherFails(w) ==
  /\ AtOther(w)
  /\ snap[w][Current(w)] < MaxRetry
  /\ Kind[Current(w)] = "DELETE"
  /\ fails' = Bump(fails, {Current(w)})
  /\ Stay(w, "fail")
  /\ UNCHANGED <<authorVars, fileVars, locked, dead, index, snap, crashes, delivered, wiped>>

EndCycle(w) ==
  /\ loop[w] = "other" /\ step[w] = "next" /\ todo[w] = {}
  /\ Leave(w)
  /\ UNCHANGED <<authorVars, fileVars, locked, dead, index, crashes, histVars>>

-----------------------------------------------------------------------------
(* _handle_processing_result for the current event *)

RemoveFile(e) ==
  /\ pending' = pending \ {e}
  /\ retry' = [retry EXCEPT ![e] = 0]
  /\ waiting' = waiting \ {e}
  /\ UNCHANGED outboxes

\* Errors of rm are swallowed.
MayFailToRemove == StorageFaults /\ UNCHANGED fileVars

\* mark_done, first rm: the event file.
RemoveEvent(w) ==
  /\ step[w] = "done"
  /\ RemoveFile(Current(w)) \/ MayFailToRemove
  /\ Stay(w, "unlock")
  /\ UNCHANGED <<authorVars, locked, dead, index, snap, crashes, histVars>>

\* mark_done, second rm, and release.
RemoveLock(w) ==
  /\ step[w] = "unlock"
  /\ \/ locked' = locked \ {Current(w)}
     \/ StorageFaults /\ UNCHANGED locked
  /\ Advance(w)
  /\ UNCHANGED <<authorVars, fileVars, dead, index, crashes, histVars>>

\* Mutant: the file is written back with the retry_count it had.
IncrementRetryForgets(w) ==
  /\ step[w] \in {"fail", "refail"}
  /\ snap[w][Current(w)] < MaxRetry
  /\ CanWrite(Current(w))
  /\ pending' = pending \cup {Current(w)}
  /\ waiting' = waiting \cup {Current(w)}
  /\ Stay(w, "unlock")
  /\ UNCHANGED <<authorVars, outboxes, retry, locked, dead, index, snap, crashes, histVars>>

\* increment_retry: the file is written back from memory, present or not.
IncrementRetry(w) ==
  LET e == Current(w)
      s == [snap[w] EXCEPT ![e] = @ + 1]
  IN /\ step[w] \in {"fail", "refail"}
     /\ snap[w][e] < MaxRetry
     /\ \/ /\ CanWrite(e)
           /\ pending' = pending \cup {e}
           /\ retry' = [retry EXCEPT ![e] = s[e]]
           /\ waiting' = waiting \cup {e}
           /\ Stay(w, "unlock")
           /\ snap' = [snap EXCEPT ![w] = s]
           /\ UNCHANGED outboxes
        \/ /\ CannotWrite(e)
           /\ Raise(w, s)
           /\ UNCHANGED fileVars
     /\ UNCHANGED <<authorVars, locked, dead, index, crashes, histVars>>

\* Mutant: off by one, the last retry is never made.
WriteDlqEarly(w) ==
  /\ step[w] \in {"fail", "refail"}
  /\ snap[w][Current(w)] + 1 >= MaxRetry
  /\ CanWrite(Current(w))
  /\ dead' = dead \cup {Current(w)}
  /\ Stay(w, "bury")
  /\ UNCHANGED <<authorVars, fileVars, locked, index, snap, crashes, histVars>>

\* move_to_dlq, first half: the copy in dlq/.
WriteDlq(w) ==
  LET e == Current(w)
  IN /\ step[w] \in {"fail", "refail"}
     /\ snap[w][e] >= MaxRetry
     /\ \/ /\ CanWrite(e)
           /\ dead' = dead \cup {e}
           /\ Stay(w, "bury")
           /\ UNCHANGED snap
        \/ /\ CannotWrite(e)
           /\ Raise(w, snap[w])
           /\ UNCHANGED dead
     /\ UNCHANGED <<authorVars, fileVars, locked, index, crashes, histVars>>

\* move_to_dlq, second half: rm of the event file.  The lock file stays.
RemoveDead(w) ==
  /\ step[w] = "bury"
  /\ RemoveFile(Current(w)) \/ MayFailToRemove
  /\ Advance(w)
  /\ UNCHANGED <<authorVars, locked, dead, index, crashes, histVars>>

-----------------------------------------------------------------------------
(* Time and crashes *)

\* 300 s have passed since the lock was written.
ExpireLock(e) ==
  /\ e \in locked
  /\ HeldMayExpire \/ \A w \in Worker : e \notin Claimed(w)
  /\ locked' = locked \ {e}
  /\ UNCHANGED <<authorVars, fileVars, dead, index, workVars, crashes, histVars>>

\* next_retry_at is reached.
ElapseBackoff(e) ==
  /\ e \in waiting
  /\ waiting' = waiting \ {e}
  /\ UNCHANGED <<authorVars, outboxes, pending, retry, locked, dead, index, workVars, crashes, histVars>>

\* The worker's thread or process dies between two calls and is started again.
Crash(w) ==
  /\ loop[w] # "idle"
  /\ crashes < MaxCrashes
  /\ crashes' = crashes + 1
  /\ Leave(w)
  /\ UNCHANGED <<authorVars, fileVars, locked, dead, index, histVars>>

-----------------------------------------------------------------------------

AuthorStep(e) == WriteNode(e) \/ RegisterEvent(e) \/ RegisterFails(e) \/ DeleteNode(e)

Scan(w) == \E S \in SUBSET Event : ListPending(w, S)

ClaimStep(w)  == ReadLock(w) \/ WriteLock(w) \/ WriteLockFails(w) \/ EndAcquire(w)
BatchStep(w)  == Embed(w) \/ EmbedFails(w) \/ Upsert(w) \/ UpsertFails(w) \/ FailBatch(w) \/ EndBatch(w)
OtherStep(w)  == GiveUp(w) \/ ProcessOther(w) \/ ProcessOtherFails(w) \/ EndCycle(w)
ResultStep(w) == RemoveEvent(w) \/ RemoveLock(w) \/ IncrementRetry(w) \/ WriteDlq(w) \/ RemoveDead(w)

WorkerStep(w) == Scan(w) \/ ClaimStep(w) \/ BatchStep(w) \/ OtherStep(w) \/ ResultStep(w)

TimeStep(e) == ExpireLock(e) \/ ElapseBackoff(e)

Next ==
  \/ \E e \in Event : AuthorStep(e) \/ TimeStep(e)
  \/ \E w \in Worker : WorkerStep(w) \/ Crash(w)

Spec == Init /\ [][Next]_vars

\* The polling thread runs for ever and its calls return; clocks advance.
\* Requests owe nothing: a client may stop between any two of its calls.
FairSpec ==
  /\ Spec
  /\ \A w \in Worker : WF_vars(WorkerStep(w))
  /\ \A e \in Event : WF_vars(ExpireLock(e)) /\ WF_vars(ElapseBackoff(e))

-----------------------------------------------------------------------------
(* Properties *)

\* Every variable keeps its type; a worker has a current event whenever the
\* next call it makes is for one.
TypeOK ==
  /\ author \in [Event -> {"new", "written", "registered", "failed", "deleted"}]
  /\ node \in [Node -> Event \cup {0}]
  /\ dirs \subseteq Node /\ outboxes \subseteq Node
  /\ pending \subseteq Event /\ waiting \subseteq Event
  /\ locked \subseteq Event /\ dead \subseteq Event
  /\ retry \in [Event -> 0..MaxRetry]
  /\ index \in [Node \X Part -> Event \cup {0}]
  /\ loop \in [Worker -> Loops] /\ step \in [Worker -> Steps]
  /\ todo \in [Worker -> SUBSET Event]
  /\ batch \in [Worker -> SUBSET Event]
  /\ others \in [Worker -> SUBSET Event]
  /\ snap \in [Worker -> [Event -> 0..MaxRetry]]
  /\ crashes \in 0..MaxCrashes
  /\ delivered \subseteq Event /\ wiped \subseteq Event
  /\ fails \in [Event -> 0..MaxFails]
  /\ \A w \in Worker : step[w] # "next" => todo[w] # {}

Registered == {e \in Event : author[e] \in {"registered", "deleted"}}

\* The outbox never loses an event: whatever workers race for it, crash or see
\* their storage calls fail, a registered event is on file, has been handled
\* successfully, or is kept as a dead letter (list, claim, retry and DLQ paths
\* of run_once), unless delete_node removed its directory.
NoEventLost == Registered \subseteq pending \cup dead \cup delivered \cup wiped

\* The rm of an event file is only ever reached for an event whose handler has
\* succeeded (mark_done) or whose dead letter has been written (move_to_dlq),
\* also on the way through the exception handlers of run_once.
RemovalJustified ==
  \A w \in Worker :
    /\ step[w] = "done" => Current(w) \in delivered
    /\ step[w] = "bury" => Current(w) \in dead \cup wiped

\* The promise of the outbox as a specification of its own.
Delivery == INSTANCE EventDelivery WITH known <- Registered
DeliverySpec == Delivery!Spec

\* No event is dead-lettered before its attempts are used up, although workers
\* that race for it write the retry count back from memory: max_retry + 1
\* failures, or max_retry for a DELETE, which process_event gives up on first.
\* Where storage calls fail or a node directory vanishes under a worker this is
\* not so: the outer "except" of run_once counts failures that did not happen.
DeadOnlyAfterRetries ==
  ~StorageFaults /\ (\A e \in Event : author[e] # "deleted") =>
    \A e \in dead : fails[e] >=
        IF Kind[e] \in {"DELETE", "OTHER"} THEN MaxRetry ELSE MaxRetry + 1

\* The outbox drains: in the end no event file is left, every event having been
\* handled or dead-lettered, whatever handlers fail and although a worker may
\* die holding its locks.
Drains == <>[](pending = {})

\* interfaces.OutboxStore: "Events are durable".  An event whose registration
\* succeeded is on file until it is handled or dead-lettered.
EventsDurable == Registered \subseteq pending \cup dead \cup delivered

\* Nothing more is going to happen: no event on file, no worker busy.
Quiet ==
  /\ pending = {}
  /\ \A w \in Worker : loop[w] = "idle"
  /\ \A e \in Event : author[e] \in {"registered", "deleted"}

\* OutboxWorker: "Async index synchronization".  When every write was registered
\* and every event handled, the index has what the nodes have.
IndexMatchesNodes ==
  Quiet /\ dead = {} => \A n \in Node : index[n, "uri"] = node[n]
=============================================================================
