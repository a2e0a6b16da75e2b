--------------------------- MODULE SessionBuffer ---------------------------
(***************************************************************************)
(* The message buffer of one session: session/session_manager.py and the   *)
(* requests of MemoryService that work on it, after_turn, compact,         *)
(* prepare_compaction and dispose, with the background threads they start. *)
(*                                                                         *)
(* The buffer is a list of messages and a watermark: what lies below the   *)
(* watermark has been handed to an extraction.  Extractions take seconds   *)
(* and run in threads of their own while further requests arrive, so that  *)
(* they remove what they archived, or rewind the watermark after a         *)
(* failure, in a buffer that has changed.  A thread of the model is a      *)
(* request together with the background thread it turns into.              *)
(*                                                                         *)
(* Messages are natural numbers in their order of arrival.  What the       *)
(* model leaves out: contents and token counts (a threshold may be met or  *)
(* not), the running summary, window state and tool statistics, and the    *)
(* loss of all buffers at a restart (they are only kept in memory).        *)
(***************************************************************************)
EXTENDS Naturals, FiniteSets, Sequences, SequencesExt

CONSTANTS
  Message,        \* message ids, in order of arrival
  Extractable,    \* those whose role is not "assistant"
  Thread,
  Requests,       \* kinds of request the clients of the session send
  MaxBuffers,     \* bound on the SessionBuffer objects made: the last is never removed
  MaxFailures,    \* bound on the failed extractions
  Serial,         \* does the client await an answer before its next request?
  Preempt,        \* may a thread be suspended inside a method of the buffer?
  SpawnMayFail    \* may Thread.start() raise?

RequestKinds == {"turn", "prepare", "compact", "commit", "dispose"}

ASSUME MessageAssumption == Message \subseteq Nat \ {0} /\ IsFiniteSet(Message)
ASSUME ThreadAssumption  == IsFiniteSet(Thread)
ASSUME RoleAssumption    == Extractable \subseteq Message
ASSUME RequestAssumption == Requests \subseteq RequestKinds
ASSUME LimitAssumption   == MaxBuffers \in Nat \ {0} /\ MaxFailures \in Nat
ASSUME FlagAssumption    == {Serial, Preempt, SpawnMayFail} \subseteq BOOLEAN

VARIABLES
  live,        \* the buffer in SessionManager._sessions, 0 if there is none
  made,        \* number of buffers made so far
  messages,    \* [Buffer -> Seq(Message)]
  mark,        \* [Buffer -> Nat]: extraction_watermark
  active,      \* [Buffer -> Nat]: extraction_active_count
  committing,  \* [Buffer -> BOOLEAN]: commit_in_progress
  token,       \* [Buffer -> ...]: << >> or the counts kept with the compaction token
  job,         \* [Thread -> Jobs]: what a thread is doing
  pc,          \* [Thread -> Steps]: its next step
  buf,         \* [Thread -> Buffer \cup {0}]: the buffer it has a reference to
  snap,        \* [Thread -> SUBSET Message]: its snapshot
  kept,        \* [Thread -> ...]: local variables of remove_messages_by_id
  failures,    \* number of failed extractions so far
  accepted,    \* history: messages the buffer was given
  extracted,   \* history: messages whose extraction has succeeded
  archived,    \* history: messages reported as archived
  discarded    \* history: messages dispose gave up on

bufVars  == <<messages, mark, active, committing, token>>
thrVars  == <<job, pc, buf, snap, kept>>
histVars == <<accepted, extracted, archived, discarded>>
vars == <<live, made, bufVars, thrVars, failures, histVars>>

Buffer == 1..MaxBuffers
Jobs   == {"none", "turn", "extract", "plain", "fallback", "prepare", "compact",
           "commit", "archive", "dispose", "flush"}
Steps  == {"idle", "turn", "append", "mark", "begin", "spawn", "extract", "rewind", "remark",
           "token", "archive", "scan", "assign", "end", "commit", "copy", "clear",
           "store", "prepare", "redeem", "wait", "woken", "drop"}

Nothing == [list |-> <<>>, below |-> 0, found |-> FALSE]

-----------------------------------------------------------------------------
(* Helpers *)

\* buf.messages[buf.extraction_watermark:]
Incremental(b) == {messages[b][i] : i \in mark[b] + 1 .. Len(messages[b])}

\* Jobs whose client is still waiting for the answer.
Serving(t) == job[t] \in {"turn", "plain", "fallback", "prepare", "compact", "commit", "dispose"}

\* SessionManager.get_or_create.
GetOrCreate(b) ==
  IF live # 0
  THEN b = live /\ UNCHANGED <<live, made>>
  ELSE /\ made < MaxBuffers
       /\ b = made + 1
       /\ live' = b
       /\ made' = b

Goto(t, j, p) ==
  /\ job' = [job EXCEPT ![t] = j]
  /\ pc' = [pc EXCEPT ![t] = p]

At(t, p) == pc[t] = p

\* A thread is about to take step p.  Another one may only be suspended inside
\* remove_messages_by_id or snapshot_and_clear if Preempt says so.
Runs(t, p) ==
  /\ At(t, p)
  /\ Preempt \/ \A u \in Thread \ {t} : pc[u] \notin {"assign", "copy", "clear"}

Finish(t) ==
  /\ Goto(t, "none", "idle")
  /\ buf' = [buf EXCEPT ![t] = 0]
  /\ snap' = [snap EXCEPT ![t] = {}]
  /\ kept' = [kept EXCEPT ![t] = Nothing]

Init ==
  /\ live = 0
  /\ made = 0
  /\ messages = [b \in Buffer |-> <<>>]
  /\ mark = [b \in Buffer |-> 0]
  /\ active = [b \in Buffer |-> 0]
  /\ committing = [b \in Buffer |-> FALSE]
  /\ token = [b \in Buffer |-> <<>>]
  /\ job = [t \in Thread |-> "none"]
  /\ pc = [t \in Thread |-> "idle"]
  /\ buf = [t \in Thread |-> 0]
  /\ snap = [t \in Thread |-> {}]
  /\ kept = [t \in Thread |-> Nothing]
  /\ failures = 0
  /\ accepted = {}
  /\ extracted = {}
  /\ archived = {}
  /\ discarded = {}

-----------------------------------------------------------------------------
(* Requests *)

\* A request arrives and a thread of the server takes it.  compact comes with or
\* without the token of an earlier prepare_compaction; dispose of a session that
\* does not exist answers at once.
Request(t, r) ==
  /\ Runs(t, "idle")
  /\ Serial => \A u \in Thread : ~Serving(u)
  /\ r = "dispose" => live # 0 /\ made < MaxBuffers
  /\ \E p \in CASE r = "compact" -> {"prepare", "redeem"}
                [] r = "dispose" -> {"wait"}
                [] OTHER -> {r} :
       Goto(t, r, p)
  /\ buf' = [buf EXCEPT ![t] = IF r = "dispose" THEN live ELSE 0]
  /\ UNCHANGED <<live, made, bufVars, snap, kept, failures, histVars>>

\* after_turn, next message of the request, or POST .../messages: the buffer is
\* looked up first.
GetBuffer(t) ==
  /\ Runs(t, "turn")
  /\ \E b \in Buffer : GetOrCreate(b) /\ buf' = [buf EXCEPT ![t] = b]
  /\ \E m \in Message \ accepted :
       /\ \A n \in Message \ accepted : m <= n
       /\ snap' = [snap EXCEPT ![t] = {m}]
       /\ accepted' = accepted \cup {m}
  /\ Goto(t, "turn", "append")
  /\ UNCHANGED <<bufVars, kept, failures, extracted, archived, discarded>>

\* SessionBuffer.add, on the buffer that was found.
AddMessage(t) ==
  /\ Runs(t, "append")
  /\ \E m \in snap[t] : messages' = [messages EXCEPT ![buf[t]] = Append(@, m)]
  /\ snap' = [snap EXCEPT ![t] = {}]
  /\ Goto(t, "turn", "turn")
  /\ UNCHANGED <<live, made, mark, active, committing, token, buf, kept, failures, histVars>>

\* The pending tokens of the buffer are below the threshold: "accumulating".
Accumulate(t) ==
  /\ Runs(t, "turn")
  /\ \E b \in Buffer : GetOrCreate(b)
  /\ Finish(t)
  /\ UNCHANGED <<bufVars, failures, histVars>>

\* Extraction disabled or no write API: after_turn only archives.
CommitOnly(t) ==
  /\ Runs(t, "turn")
  /\ Goto(t, "commit", "commit")
  /\ UNCHANGED <<live, made, bufVars, buf, snap, kept, failures, histVars>>

\* _build_incremental_extraction_state: the snapshot of after_turn.
Slice(t) ==
  /\ Runs(t, "turn")
  /\ \E b \in Buffer :
       /\ GetOrCreate(b)
       /\ buf' = [buf EXCEPT ![t] = b]
       /\ snap' = [snap EXCEPT ![t] = Incremental(b)]
  /\ Goto(t, "turn", "mark")
  /\ UNCHANGED <<bufVars, kept, failures, histVars>>

\* The watermark is advanced to the end of the buffer as it is by now.
Mark(t) ==
  /\ Runs(t, "mark")
  /\ mark' = [mark EXCEPT ![buf[t]] = Len(messages[buf[t]])]
  /\ IF snap[t] \cap Extractable # {} THEN Goto(t, "turn", "begin") ELSE Goto(t, "plain", "archive")
  /\ UNCHANGED <<live, made, messages, active, committing, token, buf, snap, kept, failures, histVars>>

BeginExtraction(t) ==
  /\ Runs(t, "begin")
  /\ active' = [active EXCEPT ![buf[t]] = @ + 1]
  /\ Goto(t, "turn", "spawn")
  /\ UNCHANGED <<live, made, messages, mark, committing, token, buf, snap, kept, failures, histVars>>

\* Thread.start; the request is answered.
Spawn(t) ==
  /\ Runs(t, "spawn")
  /\ Goto(t, "extract", "extract")
  /\ UNCHANGED <<live, made, bufVars, buf, snap, kept, failures, histVars>>

\* Mutant: the done event is set whenever an extraction ends, not by the last.
CountOutEarly(t, j, p) ==
  /\ active' = [active EXCEPT ![buf[t]] = @ - 1]
  /\ job' = [job EXCEPT ![t] = j]
  /\ pc' = [u \in Thread |->
              IF u = t THEN p
              ELSE IF At(u, "wait") /\ buf[u] = buf[t] THEN "woken" ELSE pc[u]]

\* end_extraction: the last one sets the event that dispose waits for.
CountOut(t, j, p) ==
  /\ active' = [active EXCEPT ![buf[t]] = @ - 1]
  /\ job' = [job EXCEPT ![t] = j]
  /\ pc' = [u \in Thread |->
              IF u = t THEN p
              ELSE IF active[buf[t]] = 1 /\ At(u, "wait") /\ buf[u] = buf[t] THEN "woken" ELSE pc[u]]

\* Thread.start raises: the extraction is counted out and the request extracts in
\* its own thread.
SpawnFails(t) ==
  /\ Runs(t, "spawn")
  /\ SpawnMayFail
  /\ CountOut(t, "fallback", "extract")
  /\ UNCHANGED <<live, made, messages, mark, committing, token, buf, snap, kept, failures, histVars>>

-----------------------------------------------------------------------------
(* Extraction: commit_session, the LLM and the writes to the node store *)

AfterExtract(t) ==
  CASE job[t] = "extract" -> Goto(t, "extract", "archive") /\ UNCHANGED <<buf, snap, kept>>
    [] job[t] = "flush"   -> Finish(t)
    [] OTHER              -> Goto(t, job[t], "remark") /\ UNCHANGED <<buf, snap, kept>>

Extract(t) ==
  /\ Runs(t, "extract")
  /\ extracted' = extracted \cup snap[t]
  /\ AfterExtract(t)
  /\ UNCHANGED <<live, made, bufVars, failures, accepted, archived, discarded>>

\* Mutant: the handler returns without its "finally".
ExtractFailsForEver(t) ==
  /\ Runs(t, "extract")
  /\ failures < MaxFailures
  /\ failures' = failures + 1
  /\ Finish(t)
  /\ UNCHANGED <<live, made, bufVars, histVars>>

\* Only the background thread of after_turn repairs the watermark.  In the other
\* cases the exception reaches the client, or the log.
ExtractFails(t) ==
  /\ Runs(t, "extract")
  /\ failures < MaxFailures
  /\ failures' = failures + 1
  /\ IF job[t] = "extract"
     THEN Goto(t, "extract", "rewind") /\ UNCHANGED <<buf, snap, kept>>
     ELSE Finish(t)
  /\ discarded' = discarded \cup IF job[t] = "flush" THEN snap[t] ELSE {}
  /\ UNCHANGED <<live, made, bufVars, accepted, extracted, archived>>

\* rewind_watermark_to_ids: to the first message of the snapshot that is left.
Rewind(t) ==
  LET list == messages[buf[t]]
      left == {i \in DOMAIN list : list[i] \in snap[t]}
  IN /\ Runs(t, "rewind")
     /\ mark' = [mark EXCEPT ![buf[t]] =
                   IF \E i \in left : i <= @ THEN (CHOOSE i \in left : \A j \in left : i <= j) - 1 ELSE @]
     /\ Goto(t, "extract", "end")
     /\ UNCHANGED <<live, made, messages, active, committing, token, buf, snap, kept, failures, histVars>>

EndExtraction(t) ==
  /\ Runs(t, "end")
  /\ CountOut(t, "none", "idle")
  /\ buf' = [buf EXCEPT ![t] = 0]
  /\ snap' = [snap EXCEPT ![t] = {}]
  /\ UNCHANGED <<live, made, messages, mark, committing, token, kept, failures, histVars>>

-----------------------------------------------------------------------------
(* Archiving a snapshot *)

\* _write_archive: success, also when AGFS fails ("memory://" is reported then,
\* and nothing kept).
Archive(S) == archived' = archived \cup S

\* commit_snapshot.  An empty snapshot is not archived, and nothing is removed.
CommitSnapshot(t) ==
  /\ Runs(t, "archive")
  /\ IF snap[t] = {}
     THEN Finish(t) /\ UNCHANGED <<live, made, archived>>
     ELSE /\ \E b \in Buffer : GetOrCreate(b)
          /\ Archive(snap[t])
          /\ Goto(t, job[t], "scan")
          /\ UNCHANGED <<buf, snap, kept>>
  /\ UNCHANGED <<bufVars, failures, accepted, extracted, discarded>>

\* [m for m in messages if m is not in S]: the rank of a message that is left is
\* its place in the new list.
Left(list, S) == {i \in DOMAIN list : list[i] \notin S}
Rank(places, i) == Cardinality({j \in places : j <= i})
Without(list, S) ==
  [k \in 1..Cardinality(Left(list, S)) |->
     list[CHOOSE i \in Left(list, S) : Rank(Left(list, S), i) = k]]

\* How many messages of S lie under a watermark m.
Under(list, S, m) == Cardinality({i \in DOMAIN list : list[i] \in S /\ i <= m})

\* remove_messages_by_id up to the assignment of the new list.
ScanMessages(t) ==
  LET list == messages[buf[t]]
  IN /\ Runs(t, "scan")
     /\ kept' = [kept EXCEPT ![t] =
                   [list  |-> Without(list, snap[t]),
                    below |-> Under(list, snap[t], mark[buf[t]]),
                    found |-> ToSet(list) \cap snap[t] # {}]]
     /\ Goto(t, job[t], "assign")
     /\ UNCHANGED <<live, made, bufVars, buf, snap, failures, histVars>>

\* The new list replaces the old one, and m becomes the watermark; nothing is
\* touched when the scan found no message of the snapshot.
AssignWithMark(t, m) ==
  LET b == buf[t]
  IN /\ Runs(t, "assign")
     /\ IF kept[t].found
        THEN /\ messages' = [messages EXCEPT ![b] = kept[t].list]
             /\ mark' = [mark EXCEPT ![b] = m]
        ELSE UNCHANGED <<messages, mark>>
     /\ IF job[t] = "extract"
        THEN /\ Goto(t, "extract", "end")
             /\ kept' = [kept EXCEPT ![t] = Nothing]
             /\ UNCHANGED <<buf, snap>>
        ELSE Finish(t)
     /\ UNCHANGED <<live, made, active, committing, token, failures, histVars>>

Lower(m, n) == IF m < n THEN m ELSE n

\* Where the watermark belongs when `below` messages under it have gone.
Lowered(t) == IF mark[buf[t]] > kept[t].below THEN mark[buf[t]] - kept[t].below ELSE 0

\* Mutant: the watermark is not moved down with the messages.
AssignKeepsMark(t) == AssignWithMark(t, Lower(mark[buf[t]], Len(kept[t].list)))

\* Mutant: the watermark starts again from zero.
AssignResetsMark(t) == AssignWithMark(t, 0)

\* remove_messages_by_id, the end: what was appended since the scan is lost.
AssignMessages(t) == AssignWithMark(t, Lower(Lowered(t), Len(kept[t].list)))

-----------------------------------------------------------------------------
(* prepare_compaction and compact *)

SliceCompaction(t) ==
  /\ Runs(t, "prepare")
  /\ \E b \in Buffer :
       /\ GetOrCreate(b)
       /\ buf' = [buf EXCEPT ![t] = b]
       /\ snap' = [snap EXCEPT ![t] = Incremental(b)]
       /\ Goto(t, job[t], IF Incremental(b) = {} THEN "token"
                          ELSE IF Incremental(b) \cap Extractable = {} THEN "remark"
                          ELSE "extract")
  /\ UNCHANGED <<bufVars, kept, failures, histVars>>

\* After the extraction the watermark goes to the end of the buffer as it is by
\* now, in prepare_compaction and in the fallback of after_turn.
Remark(t) ==
  /\ Runs(t, "remark")
  /\ mark' = [mark EXCEPT ![buf[t]] = Len(messages[buf[t]])]
  /\ Goto(t, job[t], IF job[t] = "fallback" THEN "archive" ELSE "token")
  /\ UNCHANGED <<live, made, messages, active, committing, token, buf, snap, kept, failures, histVars>>

\* issue_compaction_prepare_token.
IssueToken(t) ==
  /\ Runs(t, "token")
  /\ \E b \in Buffer :
       /\ GetOrCreate(b)
       /\ token' = [token EXCEPT ![b] = <<Len(messages[b]), mark[b]>>]
  /\ IF job[t] = "compact"
     THEN Goto(t, "compact", "commit") /\ UNCHANGED <<buf, snap, kept>>
     ELSE Finish(t)
  /\ UNCHANGED <<messages, mark, active, committing, failures, histVars>>

\* consume_compaction_prepare_token, for the token issued last; any other one is
\* refused.
RedeemToken(t) ==
  /\ Runs(t, "redeem")
  /\ live # 0
  /\ token[live] = <<Len(messages[live]), mark[live]>>
  /\ token' = [token EXCEPT ![live] = <<>>]
  /\ Goto(t, "compact", "commit")
  /\ UNCHANGED <<live, made, messages, mark, active, committing, buf, snap, kept, failures, histVars>>

RefuseToken(t) ==
  /\ Runs(t, "redeem")
  /\ \E b \in Buffer : GetOrCreate(b)
  /\ Finish(t)
  /\ UNCHANGED <<bufVars, failures, histVars>>

-----------------------------------------------------------------------------
(* SessionManager.commit *)

\* An empty buffer or one being committed is left alone.
CheckCommit(t) ==
  /\ Runs(t, "commit")
  /\ \E b \in Buffer :
       /\ GetOrCreate(b)
       /\ IF messages[b] = <<>> \/ committing[b]
          THEN Finish(t)
          ELSE Goto(t, job[t], "copy") /\ buf' = [buf EXCEPT ![t] = b] /\ UNCHANGED <<snap, kept>>
  /\ UNCHANGED <<bufVars, failures, histVars>>

\* snapshot_and_clear, first half.
CopyMessages(t) ==
  /\ Runs(t, "copy")
  /\ committing' = [committing EXCEPT ![buf[t]] = TRUE]
  /\ snap' = [snap EXCEPT ![t] = ToSet(messages[buf[t]])]
  /\ Goto(t, job[t], "clear")
  /\ UNCHANGED <<live, made, messages, mark, active, token, buf, kept, failures, histVars>>

\* Mutant: the watermark keeps its value although the buffer is empty.
ClearKeepsMark(t) ==
  /\ Runs(t, "clear")
  /\ messages' = [messages EXCEPT ![buf[t]] = <<>>]
  /\ token' = [token EXCEPT ![buf[t]] = <<>>]
  /\ Goto(t, job[t], "store")
  /\ UNCHANGED <<live, made, mark, active, committing, buf, snap, kept, failures, histVars>>

\* snapshot_and_clear, second half.  With wait=False the client has its answer
\* and a background thread goes on.
ClearMessages(t) ==
  /\ Runs(t, "clear")
  /\ messages' = [messages EXCEPT ![buf[t]] = <<>>]
  /\ mark' = [mark EXCEPT ![buf[t]] = 0]
  /\ token' = [token EXCEPT ![buf[t]] = <<>>]
  /\ \/ Goto(t, job[t], "store")
     \/ job[t] = "commit" /\ Goto(t, "archive", "store")
  /\ UNCHANGED <<live, made, active, committing, buf, snap, kept, failures, histVars>>

\* _process_snapshot; then the next commit may start.
StoreCommit(t) ==
  /\ Runs(t, "store")
  /\ Archive(snap[t])
  /\ committing' = [committing EXCEPT ![buf[t]] = FALSE]
  /\ Finish(t)
  /\ UNCHANGED <<live, made, messages, mark, active, token, failures, accepted, extracted, discarded>>

-----------------------------------------------------------------------------
(* dispose *)

\* The wait is over, or there was nothing to wait for.
Awake(t) == Runs(t, "woken") \/ (Runs(t, "wait") /\ active[buf[t]] = 0)

\* 30 s have passed and the extraction still runs: the session is kept.
WaitTimesOut(t) ==
  /\ Runs(t, "wait")
  /\ active[buf[t]] > 0
  /\ Finish(t)
  /\ UNCHANGED <<live, made, bufVars, failures, histVars>>

\* Nothing to extract, or too little: the session is removed without a flush.
DisposeWithoutFlush(t) ==
  /\ Awake(t)
  /\ discarded' = discarded \cup Incremental(buf[t])
  /\ Goto(t, "dispose", "drop")
  /\ UNCHANGED <<live, made, bufVars, buf, snap, kept, failures, accepted, extracted, archived>>

\* No write API: the session is kept for another attempt.
DisposeKeeps(t) ==
  /\ Awake(t)
  /\ Incremental(buf[t]) \cap Extractable # {}
  /\ Finish(t)
  /\ UNCHANGED <<live, made, bufVars, failures, histVars>>

DisposeWithFlush(t) ==
  /\ Awake(t)
  /\ Incremental(buf[t]) \cap Extractable # {}
  /\ snap' = [snap EXCEPT ![t] = Incremental(buf[t])]
  /\ Goto(t, "dispose", "drop")
  /\ UNCHANGED <<live, made, bufVars, buf, kept, failures, histVars>>

\* remove_session forgets whatever buffer the session has by now.  The flush
\* then runs in the background.
DropSession(t) ==
  /\ Runs(t, "drop")
  /\ live = 0 \/ made < MaxBuffers
  /\ live' = 0
  /\ IF snap[t] = {}
     THEN Finish(t) /\ UNCHANGED mark
     ELSE /\ mark' = [mark EXCEPT ![buf[t]] = Len(messages[buf[t]])]
          /\ Goto(t, "flush", "extract")
          /\ UNCHANGED <<buf, snap, kept>>
  /\ UNCHANGED <<made, messages, active, committing, token, failures, histVars>>

-----------------------------------------------------------------------------

TurnStep(t) ==
  \/ GetBuffer(t) \/ AddMessage(t) \/ Accumulate(t) \/ CommitOnly(t)
  \/ Slice(t) \/ Mark(t) \/ BeginExtraction(t) \/ Spawn(t) \/ SpawnFails(t)

ExtractStep(t) == Extract(t) \/ ExtractFails(t) \/ Rewind(t) \/ EndExtraction(t)

ArchiveStep(t) == CommitSnapshot(t) \/ ScanMessages(t) \/ AssignMessages(t)

CompactStep(t) ==
  SliceCompaction(t) \/ Remark(t) \/ IssueToken(t) \/ RedeemToken(t) \/ RefuseToken(t)

CommitStep(t) == CheckCommit(t) \/ CopyMessages(t) \/ ClearMessages(t) \/ StoreCommit(t)

DisposeStep(t) ==
  \/ WaitTimesOut(t) \/ DisposeWithoutFlush(t) \/ DisposeKeeps(t) \/ DisposeWithFlush(t)
  \/ DropSession(t)

ThreadStep(t) ==
  TurnStep(t) \/ ExtractStep(t) \/ ArchiveStep(t) \/ CompactStep(t) \/ CommitStep(t) \/ DisposeStep(t)

Next == \E t \in Thread : ThreadStep(t) \/ \E r \in Requests : Request(t, r)

Spec == Init /\ [][Next]_vars

\* A thread that has started goes on: the LLM and AGFS answer or raise, and
\* waiting ends after 30 s.  Clients owe nothing.
FairSpec == Spec /\ \A t \in Thread : WF_vars(ThreadStep(t))

-----------------------------------------------------------------------------
(* Properties *)

\* Every variable keeps its type, and the watermark never points past the end of
\* the buffer, also when several threads move it and remove messages.
TypeOK ==
  /\ live \in 0..made /\ made \in 0..MaxBuffers
  /\ messages \in [Buffer -> Seq(Message)]
  /\ mark \in [Buffer -> Nat] /\ \A b \in Buffer : mark[b] <= Len(messages[b])
  /\ active \in [Buffer -> Nat]
  /\ committing \in [Buffer -> BOOLEAN]
  /\ token \in [Buffer -> {<<>>} \cup (Nat \X Nat)]
  /\ job \in [Thread -> Jobs] /\ pc \in [Thread -> Steps]
  /\ buf \in [Thread -> Buffer \cup {0}]
  /\ snap \in [Thread -> SUBSET Message]
  /\ kept \in [Thread -> [list : Seq(Message), below : Nat, found : BOOLEAN]]
  /\ failures \in 0..MaxFailures
  /\ accepted \subseteq Message /\ extracted \subseteq Message
  /\ archived \subseteq Message /\ discarded \subseteq Message

\* What the session still has in memory.
Buffered == IF live = 0 THEN {} ELSE ToSet(messages[live])

\* Extractions of after_turn that are about to run, run, or have run.
Running(t) == job[t] \in {"extract", "fallback"} \/ pc[t] \in {"begin", "spawn"}

\* No message is lost between buffer, archive and flush: what a user has said is
\* in the buffer, in the hands of a thread, archived or extracted, unless
\* dispose gave it up, as it does below its threshold or when its flush fails.
\* (Not so once extractions fail, see PendingListed.)
NothingDropped ==
  accepted \cap Extractable \subseteq Buffered \cup archived \cup extracted \cup discarded \cup
    UNION {snap[t] : t \in Thread}

\* The watermark is right about what it hides, in whatever order overlapping
\* extractions finish and commits clear the buffer: a message below it is
\* extracted or in the snapshot of an extraction that is running.
WatermarkSound ==
  live # 0 =>
    \A i \in 1..mark[live] :
      \/ messages[live][i] \in extracted
      \/ messages[live][i] \notin Extractable
      \/ \E t \in Thread : Running(t) /\ messages[live][i] \in snap[t]

\* A message is sent to one extraction only: what overlapping extractions remove
\* from the buffer never brings an extracted message above the watermark again.
ExtractedOnce ==
  \A t \in Thread : At(t, "extract") =>
    /\ snap[t] \cap extracted = {}
    /\ \A u \in Thread \ {t} : At(u, "extract") => snap[t] \cap snap[u] = {}

\* dispose: "prevents the race where after_turn() has optimistically advanced
\* extraction_watermark but the background thread hasn't committed yet": no
\* session is removed under a running extraction.
DisposeWaits ==
  [][live # 0 /\ live' = 0 => active[live] = 0]_vars

\* Every extraction that has begun is counted out again, also after a failure, so
\* that the event dispose waits for is set in the end.
ExtractionsEnd == \A b \in Buffer : active[b] > 0 ~> active[b] = 0

\* get_pending_session_ids: "Return IDs of sessions with unextracted messages."
\* A message in the buffer that no thread is working on is extracted, or above
\* the watermark, where the call sees it.
PendingListed ==
  /\ live # 0
  /\ \A t \in Thread : job[t] = "none"
  /\ (ToSet(messages[live]) \cap Extractable) \ extracted # {}
  => mark[live] < Len(messages[live])
=============================================================================
