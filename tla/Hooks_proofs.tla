---------------------------- MODULE Hooks_proofs ----------------------------
(***************************************************************************)
(* Theorems of what the plugin and the server make of a conversation:      *)
(* TranscriptIngest, for any length of the transcript and any processes;   *)
(* ToolOutputs, for any hooks, targets, outputs and sessions and any       *)
(* number of retries, failures and restarts; PromptCompose, for any finite *)
(* number of sessions and turns and any prompts and archivers.             *)
(***************************************************************************)
EXTENDS TranscriptIngest, ToolOutputs, PromptCompose, FiniteSetTheorems,
        WellFoundedInduction, TLAPS

\* The states of the processes while the transcript has its size.
Run == [kind : {"none", "stop", "compact", "history"},
        at : {"idle", "stat", "read", "post", "record", "kill"},
        from : 0..size, size : 0..size, lines : SUBSET Line]
Runs == [Runner -> Run]

(***************************************************************************)
(* Every variable keeps its type; the offset and what processes have read  *)
(* never lie beyond the end of the transcript.                             *)
(***************************************************************************)
THEOREM IngestTypes == IngestSpec => []IngestTypeOK
<1> USE IngestAssumption
<1>1. IngestInit => IngestTypeOK
  BY DEF IngestInit, IngestTypeOK, NoRun
<1>2. IngestTypeOK /\ [IngestNext]_ingestVars => IngestTypeOK'
  <2> SUFFICES ASSUME IngestTypeOK, [IngestNext]_ingestVars PROVE IngestTypeOK'
    OBVIOUS
  <2> USE DEF IngestTypeOK
  <2>1. CASE Grow
    <3>1. size' \in 0..2 * Lines /\ size <= size'
      BY <2>1 DEF Grow
    <3> QED
      BY <2>1, <3>1 DEF Grow
  <2>2. CASE StoreSession
    BY <2>2 DEF StoreSession
  <2>3. ASSUME NEW r \in Runner, NEW kind \in {"stop", "compact", "history"},
               StartRun(r, kind)
        PROVE  IngestTypeOK'
    <3>0. NoRun \in Run
      BY DEF NoRun, Run
    <3>1. running' \in Runs
      BY <2>3, <3>0 DEF StartRun, Runs, Run
    <3>2. starts' \in 0..Sends
      BY <2>3 DEF StartRun
    <3> QED
      BY <2>3, <3>1, <3>2 DEF StartRun, Runs, Run
  <2>4. ASSUME NEW r \in Runner, Stat(r) PROVE IngestTypeOK'
    BY <2>4 DEF Stat, Over
  <2>5. ASSUME NEW r \in Runner, ReadChunk(r) PROVE IngestTypeOK'
    <3>1. Whole(IF running[r].kind = "history" THEN 0 ELSE running[r].from, size)
             \in SUBSET Line
      BY DEF Whole
    <3>2. running' \in Runs
      <4> DEFINE history == running[r].kind = "history"
                 got == Whole(IF history THEN 0 ELSE running[r].from, size)
                 seen == IF history THEN size ELSE running[r].size
                 next == IF got # {} THEN "post" ELSE IF history THEN "idle" ELSE "record"
      <4>1. running' = [running EXCEPT ![r].lines = got, ![r].size = seen, ![r].at = next]
        BY <2>5 DEF ReadChunk
      <4>2. running[r] \in Run
        BY DEF Run
      <4>3. got \in SUBSET Line /\ seen \in 0..size /\ next \in {"post", "idle", "record"}
        BY <3>1, <4>2 DEF Run
      <4> HIDE DEF got, seen, next
      <4>4. [running[r] EXCEPT !.lines = got, !.size = seen, !.at = next] \in Run
        BY <4>2, <4>3 DEF Run
      <4> QED
        BY <4>1, <4>4 DEF Runs, Run
    <3> QED
      BY <2>5, <3>2 DEF ReadChunk, Runs, Run
  <2>6. ASSUME NEW r \in Runner, Launch(r) PROVE IngestTypeOK'
    <3>1. running' \in Runs
      <4>1. CASE Move(r, Over(r))
        BY <4>1 DEF Move, Over, Runs, Run
      <4>2. CASE UNCHANGED running
        BY <4>2 DEF Runs, Run
      <4> QED
        BY <2>6, <4>1, <4>2 DEF Launch
    <3>2. serverUp' \in BOOLEAN
      BY <2>6 DEF Launch
    <3> QED
      BY <2>6, <3>1, <3>2 DEF Launch, Runs, Run
  <2>7. ASSUME NEW r \in Runner, Post(r) PROVE IngestTypeOK'
    BY <2>7 DEF Post, Move, Over
  <2>8. ASSUME NEW r \in Runner, PostFails(r) PROVE IngestTypeOK'
    BY <2>8 DEF PostFails, Move, Over
  <2>9. ASSUME NEW r \in Runner, RecordOffset(r) PROVE IngestTypeOK'
    <3>1. PICK place \in 0..size : SetOffset(r, place)
      BY <2>9 DEF RecordOffset
    <3>2. halved' \subseteq Line
      <4>1. place % 2 = 1 => (place + 1) \div 2 \in Line
        BY DEF Line
      <4> QED
        BY <3>1, <4>1 DEF SetOffset
    <3>3. unread' \subseteq Line
      BY <2>9 DEF RecordOffset, Whole
    <3>4. running' \in Runs
      BY <3>1 DEF SetOffset, Move, Over, Runs, Run
    <3>5. offset' = place /\ UNCHANGED <<size, serverUp, inMemory, stored, starts, delivered>>
      BY <2>9, <3>1 DEF RecordOffset, SetOffset
    <3> QED
      BY <3>2, <3>3, <3>4, <3>5 DEF Runs, Run
  <2>10. ASSUME NEW r \in Runner, TimesOut(r) PROVE IngestTypeOK'
    BY <2>10 DEF TimesOut, Move, Over
  <2>11. ASSUME NEW r \in Runner, StopServices(r) PROVE IngestTypeOK'
    BY <2>11 DEF StopServices, Move
  <2>12. CASE UNCHANGED ingestVars
    BY <2>12 DEF ingestVars
  <2> QED
    BY <2>1, <2>2, <2>3, <2>4, <2>5, <2>6, <2>7, <2>8, <2>9, <2>10, <2>11, <2>12
       DEF IngestNext
<1> QED
  BY <1>1, <1>2, PTL DEF IngestSpec
-----------------------------------------------------------------------------
(***************************************************************************)
(* A place in the transcript is safe to record when every whole line       *)
(* before it is accounted for and the line it lies in, if it lies in one,  *)
(* is known to be halved.                                                  *)
(***************************************************************************)
Told == delivered \cup halved \cup unread
Safe(place) ==
    /\ Whole(0, place) \subseteq Told
    /\ place % 2 = 1 => (place + 1) \div 2 \in halved

(***************************************************************************)
(* A process started from a safe place, and from there (the command: from  *)
(* the start) to the size it saw it has every line, or has delivered it.   *)
(***************************************************************************)
Start(run) == IF run.kind = "history" THEN 0 ELSE run.from
Careful(run) ==
    /\ Safe(run.from)
    /\ run.at = "post" => Whole(Start(run), run.size) \subseteq run.lines
    /\ run.at = "record" => Whole(Start(run), run.size) \subseteq delivered

IngestInv == Safe(offset) /\ \A r \in Runner : Careful(running[r])

HistoryGrows ==
    delivered \subseteq delivered' /\ halved \subseteq halved' /\ unread \subseteq unread'

(***************************************************************************)
(* Places stay safe and processes careful while the history only grows.    *)
(***************************************************************************)
LEMMA SafeStays ==
    ASSUME NEW place, Safe(place), HistoryGrows
    PROVE  /\ Whole(0, place) \subseteq Told'
           /\ place % 2 = 1 => (place + 1) \div 2 \in halved'
BY DEF Safe, Told, HistoryGrows

LEMMA CarefulStays ==
    ASSUME NEW r \in Runner, Careful(running[r]), HistoryGrows,
           running'[r] = running[r]
    PROVE  Careful(running[r])'
BY SafeStays DEF Careful, Safe, Told, HistoryGrows, Start, Whole, Line

(***************************************************************************)
(* A process that only moves on, to a step at which it holds nothing, or   *)
(* stays at its step, is still careful.                                    *)
(***************************************************************************)
LEMMA MovesCarefully ==
    ASSUME IngestTypeOK, IngestInv, NEW r \in Runner, HistoryGrows,
           NEW to, Move(r, to), to \notin {"post", "record"}, offset' = offset
    PROVE  IngestInv'
<1>1. ASSUME NEW q \in Runner PROVE Careful(running[q])'
  <2>1. CASE q = r
    <3>1. running'[r] = [running[r] EXCEPT !.at = to]
      BY DEF Move, IngestTypeOK
    <3>2. running'[r].from = running[r].from /\ running'[r].at = to
      BY <3>1 DEF IngestTypeOK
    <3>3. Safe(running[r].from)
      BY DEF IngestInv, Careful
    <3> QED
      BY <2>1, <3>2, <3>3, SafeStays DEF Careful, Safe
  <2>2. CASE q # r
    <3>1. running'[q] = running[q]
      BY <2>2 DEF Move, IngestTypeOK
    <3> QED
      BY <3>1, CarefulStays DEF IngestInv
  <2> QED
    BY <2>1, <2>2
<1>2. Safe(offset)'
  BY SafeStays DEF IngestInv, Safe
<1> QED
  BY <1>1, <1>2 DEF IngestInv

\* A process that is through its run holds nothing.
LEMMA OverIdle == \A r \in Runner : Over(r) \notin {"post", "record"}
BY DEF Over
-----------------------------------------------------------------------------
(***************************************************************************)
(* From a safe place to a later one: what lies between, with the line the  *)
(* first lies in, is all there is.                                         *)
(***************************************************************************)
LEMMA BetweenPlaces ==
    ASSUME NEW from \in Nat, NEW to \in Nat, Safe(from), from <= to,
           Whole(from, to) \subseteq Told
    PROVE  Whole(0, to) \subseteq Told
<1> SUFFICES ASSUME NEW k \in Whole(0, to) PROVE k \in Told
  OBVIOUS
<1>1. k \in Line /\ k \in Nat /\ 2 * k <= to
  BY IngestAssumption DEF Whole, Line
<1>2. CASE from <= 2 * k - 2
  BY <1>1, <1>2 DEF Whole
<1>3. CASE 2 * k <= from
  BY <1>1, <1>3 DEF Whole, Safe
<1>4. CASE from = 2 * k - 1
  <2>1. from % 2 = 1 /\ (from + 1) \div 2 = k
    BY <1>1, <1>4
  <2> QED
    BY <2>1 DEF Safe, Told
<1> QED
  BY <1>1, <1>2, <1>3, <1>4

(***************************************************************************)
(* The command records the size of this moment: what grew since it read    *)
(* is unread.                                                              *)
(***************************************************************************)
LEMMA GrownSince ==
    ASSUME NEW seen \in Nat, NEW end \in Nat, NEW k \in Line,
           2 * k <= end, ~(2 * k <= seen)
    PROVE  k \in Whole(2 * (seen \div 2), end)
<1>1. k \in Nat
  BY IngestAssumption DEF Line
<1>2. 2 * (seen \div 2) <= 2 * k - 2
  BY <1>1
<1> QED
  BY <1>2 DEF Whole
-----------------------------------------------------------------------------
(***************************************************************************)
(* An offset is recorded only of a place that is safe.                     *)
(***************************************************************************)
LEMMA RecordsSafely ==
    ASSUME IngestTypeOK, IngestInv, NEW r \in Runner, RecordOffset(r)
    PROVE  IngestInv'
<1> DEFINE run == running[r]
<1>1. run.at = "record" /\ Safe(run.from) /\ Whole(Start(run), run.size) \subseteq delivered
  BY DEF RecordOffset, IngestInv, Careful
<1>2. run.from \in Nat /\ run.size \in Nat /\ size \in Nat /\ offset \in Nat
  BY IngestAssumption DEF IngestTypeOK
<1>3. PICK place \in Nat : SetOffset(r, place)
                           /\ place = IF run.kind = "history" THEN size ELSE run.size
  BY <1>2 DEF RecordOffset
<1>4. HistoryGrows
  BY <1>3 DEF HistoryGrows, RecordOffset, SetOffset
<1>5. Whole(0, place) \subseteq Told'
  <2>1. CASE run.kind = "history"
    <3>1. Whole(0, run.size) \subseteq delivered
      BY <1>1, <2>1 DEF Start
    <3>2. place = size /\ unread' = unread \cup Whole(2 * (run.size \div 2), size)
      BY <1>3, <2>1 DEF RecordOffset
    <3> SUFFICES ASSUME NEW k \in Whole(0, size) PROVE k \in Told'
      BY <3>2
    <3>3. k \in Line /\ 2 * k <= size /\ 0 <= 2 * k - 2
      BY DEF Whole
    <3>4. CASE 2 * k <= run.size
      <4>1. k \in delivered
        BY <3>1, <3>3, <3>4 DEF Whole
      <4> QED
        BY <4>1, <1>4 DEF HistoryGrows, Told
    <3>5. CASE ~(2 * k <= run.size)
      <4>1. k \in unread'
        BY <1>2, <3>2, <3>3, <3>5, GrownSince
      <4> QED
        BY <4>1 DEF Told
    <3> QED
      BY <3>4, <3>5
  <2>2. CASE run.kind # "history"
    <3>1. place = run.size /\ Whole(run.from, place) \subseteq Told
      BY <1>1, <1>3, <2>2 DEF Start, Told
    <3>2. Whole(0, place) \subseteq Told
      <4>1. CASE run.from <= place
        BY <1>1, <1>2, <3>1, <4>1, BetweenPlaces
      <4>2. CASE ~(run.from <= place)
        <5>1. Whole(0, place) \subseteq Whole(0, run.from)
          BY <1>2, <3>1, <4>2, IngestAssumption DEF Whole, Line
        <5> QED
          BY <5>1, <1>1 DEF Safe
      <4> QED
        BY <4>1, <4>2
    <3> QED
      BY <3>2, <1>4 DEF HistoryGrows, Told
  <2> QED
    BY <2>1, <2>2
<1>6. Safe(offset)'
  BY <1>3, <1>5 DEF SetOffset, Safe
<1>7. ASSUME NEW q \in Runner PROVE Careful(running[q])'
  <2>1. CASE q = r
    <3>1. PICK to : Move(r, to) /\ to \notin {"post", "record"}
      BY <1>3, OverIdle DEF SetOffset
    <3>2. running'[r].from = run.from /\ running'[r].at = to
      BY <3>1 DEF Move, IngestTypeOK
    <3> QED
      BY <1>1, <1>4, <2>1, <3>1, <3>2, SafeStays DEF Careful, Safe
  <2>2. CASE q # r
    <3>1. running'[q] = running[q]
      BY <1>3, <2>2 DEF SetOffset, Move, IngestTypeOK
    <3> QED
      BY <1>4, <3>1, CarefulStays DEF IngestInv
  <2> QED
    BY <2>1, <2>2
<1> QED
  BY <1>6, <1>7 DEF IngestInv

(***************************************************************************)
(* One process changes by a step that leaves offset and history as they    *)
(* are or lets the history grow: the others stay careful.                  *)
(***************************************************************************)
LEMMA OneCareful ==
    ASSUME IngestInv, NEW r \in Runner, HistoryGrows, offset' = offset,
           \A q \in Runner \ {r} : running'[q] = running[q],
           Careful(running[r])'
    PROVE  IngestInv'
<1>1. Safe(offset)'
  BY SafeStays DEF IngestInv, Safe
<1>2. \A q \in Runner \ {r} : Careful(running[q])'
  BY CarefulStays DEF IngestInv
<1> QED
  BY <1>1, <1>2 DEF IngestInv
-----------------------------------------------------------------------------
(***************************************************************************)
(* The offset never passes a line that no server was given.  NothingSkipped*)
(* alone is not inductive: it does not know what the processes hold.       *)
(***************************************************************************)
THEOREM OffsetsSound == IngestSpec => []NothingSkipped
<1> USE IngestAssumption
<1>1. IngestInit => IngestInv
  BY DEF IngestInit, IngestInv, Careful, Safe, Whole, NoRun, Told, Line
<1>2. IngestTypeOK /\ IngestInv /\ [IngestNext]_ingestVars => IngestInv'
  <2> SUFFICES ASSUME IngestTypeOK, IngestInv, [IngestNext]_ingestVars PROVE IngestInv'
    OBVIOUS
  <2>1. ASSUME UNCHANGED <<offset, running, delivered, halved, unread>>
        PROVE  IngestInv'
    BY <2>1 DEF IngestInv, Careful, Safe, Whole, Told, Start, Line
  <2>2. ASSUME NEW r \in Runner, NEW kind \in {"stop", "compact", "history"},
               StartRun(r, kind)
        PROVE  IngestInv'
    <3>1. running'[r] = [NoRun EXCEPT !.kind = kind, !.at = "stat", !.from = offset]
      BY <2>2 DEF StartRun, IngestTypeOK
    <3>2. running'[r].from = offset /\ running'[r].at = "stat"
      BY <3>1 DEF NoRun
    <3>3. Careful(running[r])'
      BY <2>2, <3>2 DEF StartRun, IngestInv, Careful, Safe, Told, Whole, Line
    <3> QED
      BY <2>2, <3>3, OneCareful DEF StartRun, HistoryGrows, IngestTypeOK
  <2>3. ASSUME NEW r \in Runner, Stat(r) PROVE IngestInv'
    <3>1. running'[r].from = running[r].from /\ running'[r].at \notin {"post", "record"}
      BY <2>3 DEF Stat, IngestTypeOK, Over
    <3>2. Careful(running[r])'
      BY <2>3, <3>1 DEF Stat, IngestInv, Careful, Safe, Told, Whole, Line
    <3> QED
      BY <2>3, <3>2, OneCareful DEF Stat, HistoryGrows, IngestTypeOK
  <2>4. ASSUME NEW r \in Runner, ReadChunk(r) PROVE IngestInv'
    <3> DEFINE run == running[r]
               got == Whole(IF run.kind = "history" THEN 0 ELSE run.from, size)
    <3>1. /\ running'[r].from = run.from /\ running'[r].kind = run.kind
          /\ running'[r].lines = got
          /\ running'[r].size = IF run.kind = "history" THEN size ELSE run.size
          /\ running'[r].at = IF got # {} THEN "post"
                              ELSE IF run.kind = "history" THEN "idle" ELSE "record"
      BY <2>4 DEF ReadChunk, IngestTypeOK
    <3>2. Whole(Start(run), IF run.kind = "history" THEN size ELSE run.size) \subseteq got
      BY DEF IngestTypeOK, Whole, Line, Start
    <3>3. Safe(run.from) /\ UNCHANGED <<size, offset, delivered, halved, unread>>
      BY <2>4 DEF ReadChunk, IngestInv, Careful
    <3>4. Safe(running[r].from)'
      BY <3>1, <3>3 DEF Safe, Told, Whole, Line
    <3>5. Whole(Start(running[r]), running[r].size)' \subseteq got
      BY <3>1, <3>2 DEF Start
    <3>6. Careful(running[r])'
      BY <3>1, <3>4, <3>5 DEF Careful
    <3> QED
      BY <2>4, <3>3, <3>6, OneCareful DEF ReadChunk, HistoryGrows, IngestTypeOK
  <2>5. ASSUME NEW r \in Runner, Launch(r) PROVE IngestInv'
    <3>1. HistoryGrows /\ offset' = offset
      BY <2>5 DEF Launch, HistoryGrows
    <3>2. CASE Move(r, Over(r))
      BY <3>1, <3>2, OverIdle, MovesCarefully
    <3>3. CASE UNCHANGED running
      BY <2>1, <2>5, <3>3 DEF Launch
    <3> QED
      BY <2>5, <3>2, <3>3 DEF Launch
  <2>6. ASSUME NEW r \in Runner, Post(r) PROVE IngestInv'
    <3>1. HistoryGrows /\ offset' = offset /\ delivered' = delivered \cup running[r].lines
      BY <2>6 DEF Post, HistoryGrows
    <3>2. CASE Move(r, "record")
      <4>1. /\ running'[r].from = running[r].from /\ running'[r].kind = running[r].kind
            /\ running'[r].size = running[r].size /\ running'[r].at = "record"
        BY <3>2 DEF Move, IngestTypeOK
      <4>2. Whole(Start(running[r]), running[r].size) \subseteq running[r].lines
            /\ Safe(running[r].from)
        BY <2>6 DEF Post, IngestInv, Careful
      <4>3. Careful(running[r])'
        BY <3>1, <4>1, <4>2, SafeStays DEF Careful, Safe, Start
      <4> QED
        BY <3>1, <3>2, <4>3, OneCareful DEF Move, IngestTypeOK
    <3>3. CASE Move(r, IF running[r].kind = "history" THEN "idle" ELSE Over(r))
      BY <3>1, <3>3, OverIdle, MovesCarefully
    <3> QED
      BY <2>6, <3>2, <3>3 DEF Post
  <2>7. ASSUME NEW r \in Runner, PostFails(r) PROVE IngestInv'
    BY <2>7, OverIdle, MovesCarefully DEF PostFails, HistoryGrows
  <2>8. ASSUME NEW r \in Runner, RecordOffset(r) PROVE IngestInv'
    BY <2>8, RecordsSafely
  <2>9. ASSUME NEW r \in Runner, TimesOut(r) PROVE IngestInv'
    BY <2>9, OverIdle, MovesCarefully DEF TimesOut, HistoryGrows
  <2>10. ASSUME NEW r \in Runner, StopServices(r) PROVE IngestInv'
    BY <2>10, MovesCarefully DEF StopServices, HistoryGrows
  <2>11. CASE Grow
    BY <2>1, <2>11 DEF Grow
  <2>12. CASE StoreSession
    BY <2>1, <2>12 DEF StoreSession
  <2>13. CASE UNCHANGED ingestVars
    BY <2>1, <2>13 DEF ingestVars
  <2> QED
    BY <2>2, <2>3, <2>4, <2>5, <2>6, <2>7, <2>8, <2>9, <2>10, <2>11, <2>12, <2>13
       DEF IngestNext
<1>3. IngestInv => NothingSkipped
  BY DEF IngestInv, Safe, NothingSkipped, Told
<1> QED
  BY <1>1, <1>2, <1>3, IngestTypes, PTL DEF IngestSpec
-----------------------------------------------------------------------------
(***************************************************************************)
(* Every variable keeps its type.                                          *)
(***************************************************************************)
THEOREM ToolsTypes == ToolsSpec => []ToolsTypeOK
<1>1. ToolsInit => ToolsTypeOK
  <2> SUFFICES ASSUME ToolsInit PROVE ToolsTypeOK
    OBVIOUS
  <2>1. quota \in Quotas
    BY ToolsAssumption DEF ToolsInit
  <2> QED
    BY <2>1 DEF ToolsInit, ToolsTypeOK
<1>2. ToolsTypeOK /\ [ToolsNext]_toolVars => ToolsTypeOK'
  <2> SUFFICES ASSUME ToolsTypeOK, [ToolsNext]_toolVars
               PROVE  ToolsTypeOK'
    OBVIOUS
  <2> USE DEF ToolsTypeOK
  <2>1. ASSUME NEW h \in Hook, NEW t \in Target, NEW s \in Session,
               NEW step \in {"read", "run"},
               call' = [call EXCEPT ![h] = Posted(t, s, step)]
        PROVE  call' \in [Hook -> Posts \cup Requests \cup {NoCall}]
    <3>1. Posted(t, s, step) \in Posts
      BY DEF Posted, Posts, Request
    <3> QED
      BY <2>1, <3>1
  <2>2. ASSUME NEW h \in Hook, NEW f \in Path, NEW s \in Session, HookRead(h, f, s)
         PROVE  ToolsTypeOK'
    <3>1. quota' \in Quotas
      BY <2>2 DEF HookRead, Quotas
    <3> QED
      BY <2>1, <2>2, <3>1 DEF HookRead, Target
  <2>3. ASSUME NEW h \in Hook, NEW c \in Command, NEW s \in Session, HookBash(h, c, s)
         PROVE  ToolsTypeOK'
    <3>1. quota' \in Quotas
      BY <2>3 DEF HookBash, Quotas
    <3> QED
      BY <2>1, <2>3, <3>1 DEF HookBash, Target
  <2>4. ASSUME NEW h \in Hook, NEW o \in Output, FilterRead(h, o) \/ FilterBash(h, o)
         PROVE  ToolsTypeOK'
    <3>1. call[h] \in Posts
      BY <2>4 DEF FilterRead, FilterBash, At, NoCall, Requests, Request
    <3>2. [call[h] EXCEPT !.at = "plan", !.output = o] \in Requests
      BY <3>1 DEF Posts, Requests, Request
    <3> QED
      BY <2>4, <3>2 DEF FilterRead, FilterBash
  <2>5. ASSUME NEW h \in Hook, call[h].at \notin {"idle", "read", "run"}
        PROVE  /\ call[h] \in Requests /\ Uri(call[h]) \in URI
               /\ \A base \in Nat : Fingerprint(call[h], base) \in Fingerprints
    <3>1. call[h] \in Requests
      BY <2>5 DEF NoCall, Posts, Request
    <3>2. Uri(call[h]) \in URI
      BY <3>1 DEF Requests, Request, Uri, Digest, URI
    <3> QED
      BY <3>1, <3>2 DEF Fingerprint, Fingerprints, Requests, Request
  <2>6. ASSUME NEW h \in Hook, PlanWrite(h)
        PROVE  ToolsTypeOK'
    <3>1. version[Uri(call[h])] \in Nat
      BY <2>5, <2>6 DEF PlanWrite, At
    <3>2. [call[h] EXCEPT !.at = "check", !.base = version[Uri(call[h])]] \in Requests
      BY <2>5, <2>6, <3>1 DEF PlanWrite, At, Requests, Request
    <3>3. [call[h] EXCEPT !.at = "answer", !.memory = Uri(call[h])] \in Requests
      BY <2>5, <2>6 DEF PlanWrite, At, Requests, Request
    <3> QED
      BY <2>6, <3>2, <3>3 DEF PlanWrite, Returns
  <2>7. ASSUME NEW h \in Hook, CheckVersion(h)
        PROVE  ToolsTypeOK'
    <3>1. call[h] \in Requests
      BY <2>5, <2>7 DEF CheckVersion, At
    <3>2. [call[h] EXCEPT !.at = "content"] \in Requests
      BY <3>1 DEF Requests, Request
    <3>3. [call[h] EXCEPT !.at = "plan", !.tries = @ + 1] \in Requests
      <4>1. PICK n \in Nat : n = call[h].tries + 1
        BY <3>1 DEF Requests, Request
      <4>2. [call[h] EXCEPT !.at = "plan", !.tries = n] \in Requests
        BY <3>1 DEF Requests, Request
      <4> QED
        BY <4>1, <4>2
    <3>4. [call[h] EXCEPT !.at = "answer", !.memory = NoURI] \in Requests
      BY <3>1 DEF Requests, Request
    <3> QED
      BY <2>7, <3>2, <3>3, <3>4 DEF CheckVersion, Goto, Returns
  <2>8. ASSUME NEW h \in Hook, WriteContent(h)
        PROVE  ToolsTypeOK'
    <3>1. call[h] \in Requests /\ Uri(call[h]) \in URI
      BY <2>5, <2>8 DEF WriteContent, At
    <3>2. [call[h] EXCEPT !.at = "commit"] \in Requests /\ call[h].output \in Output
      BY <3>1 DEF Requests, Request
    <3> QED
      BY <2>8, <3>1, <3>2 DEF WriteContent, Goto
  <2>9. ASSUME NEW h \in Hook, CommitNode(h)
        PROVE  ToolsTypeOK'
    <3>1. call[h] \in Requests /\ Uri(call[h]) \in URI
      BY <2>5, <2>9 DEF CommitNode, At
    <3>2. call[h].base \in Nat
      BY <3>1 DEF Requests, Request
    <3>3. [call[h] EXCEPT !.at = "answer", !.memory = Uri(call[h])] \in Requests
      BY <3>1 DEF Requests, Request
    <3>4. Fingerprint(call[h], call[h].base) \in Fingerprints
      BY <2>5, <2>9, <3>2 DEF CommitNode, At
    <3> QED
      BY <2>9, <3>1, <3>2, <3>3, <3>4 DEF CommitNode, Returns
  <2>10. ASSUME NEW h \in Hook, WriteFails(h)
        PROVE  ToolsTypeOK'
    <3>1. call[h] \in Requests /\ Uri(call[h]) \in URI
      BY <2>5, <2>10 DEF WriteFails
    <3>2. call[h].base \in Nat /\ call[h].output \in Output
      BY <3>1 DEF Requests, Request
    <3>3. [call[h] EXCEPT !.at = "answer", !.memory = NoURI] \in Requests
      BY <3>1 DEF Requests, Request
    <3>4. original' \in [URI -> Output \cup {NoOutput}] /\ version' \in [URI -> Nat]
      BY <2>10, <3>1, <3>2 DEF WriteFails
    <3>5. call' \in [Hook -> Posts \cup Requests \cup {NoCall}]
      BY <2>10, <3>3 DEF WriteFails, Returns
    <3>6. quota' \in Quotas
      BY <2>10 DEF WriteFails, Quotas
    <3> QED
      BY <2>10, <3>4, <3>5, <3>6 DEF WriteFails
  <2>11. ASSUME NEW h \in Hook, Respond(h)
        PROVE  ToolsTypeOK'
    <3>1. call[h] \in Requests
      BY <2>5, <2>11 DEF Respond, At
    <3>2. <<call[h].output, call[h].memory>> \in Output \X (URI \cup {NoURI})
      BY <3>1 DEF Requests, Request
    <3> QED
      BY <2>11, <3>2 DEF Respond
  <2>12. ASSUME NEW h \in Hook, HookGivesUp(h)
        PROVE  ToolsTypeOK'
    <3>1. call[h] \in Posts \cup Requests
      BY <2>12 DEF HookGivesUp, At, NoCall
    <3>2. [call[h] EXCEPT !.awaited = FALSE] \in Posts \cup Requests
      BY <3>1 DEF Posts, Requests, Request
    <3> QED
      BY <2>12, <3>2 DEF HookGivesUp
  <2>13. CASE ToolsRestart
    BY <2>13 DEF ToolsRestart, Quotas
  <2>14. CASE UNCHANGED toolVars
    BY <2>14 DEF toolVars
  <2> QED
    BY <2>2, <2>3, <2>4, <2>6, <2>7, <2>8, <2>9, <2>10, <2>11, <2>12, <2>13, <2>14
       DEF ToolsNext
<1> QED
  BY <1>1, <1>2, PTL DEF ToolsSpec

(***************************************************************************)
(* What is stored under a URI can only be the output that is part of it,   *)
(* and once a node is visible it is stored; fingerprints are remembered,   *)
(* URIs returned and banners shown for visible nodes only.                 *)
(***************************************************************************)
Stored ==
    /\ \A u \in URI : original[u] \in {NoOutput, u[2]}
    /\ \A u \in URI : version[u] > 0 => original[u] = u[2]
    /\ \A f \in remembered : version[f.uri] > 0
Filtering(h) == call[h].at \notin {"idle", "read", "run"}
Returned ==
    /\ \A h \in Hook : At(h, "commit") => original[Uri(call[h])] = call[h].output
    /\ \A h \in Hook : Filtering(h) /\ call[h].memory # NoURI =>
          call[h].memory = Uri(call[h]) /\ version[Uri(call[h])] > 0
    /\ \A b \in banners : b[2] # NoURI => b[2][2] = b[1] /\ version[b[2]] > 0

(***************************************************************************)
(* A request that the server works on is one; its output is part of its    *)
(* URI.                                                                    *)
(***************************************************************************)
LEMMA RequestTypes ==
    ASSUME ToolsTypeOK, NEW h \in Hook, Filtering(h)
    PROVE  /\ call[h] \in Requests /\ Uri(call[h]) \in URI
           /\ Uri(call[h])[2] = call[h].output
<1>1. call[h] \in Requests
  BY DEF ToolsTypeOK, NoCall, Posts, Request, Filtering
<1>2. Uri(call[h]) \in URI /\ Uri(call[h])[2] = call[h].output
  BY <1>1 DEF Requests, Request, Uri, Digest, URI
<1> QED
  BY <1>1, <1>2

(***************************************************************************)
(* A visible node stays visible, and what is stored stays what its URI     *)
(* says.                                                                   *)
(***************************************************************************)
LEMMA VisibleStays ==
    ASSUME ToolsTypeOK, Stored, Returned, [ToolsNext]_toolVars
    PROVE  /\ \A u \in URI : version[u] > 0 => version'[u] > 0
           /\ \A u \in URI : original[u] = u[2] => original'[u] = u[2]
           /\ \A u \in URI : original'[u] \in {NoOutput, u[2]}
           /\ \A u \in URI : version'[u] > 0 => original'[u] = u[2]
<1> USE DEF ToolsTypeOK, Stored, Returned
<1>1. CASE UNCHANGED <<original, version>>
  BY <1>1
<1>2. ASSUME NEW h \in Hook, NEW c \in Requests, c = call[h], At(h, "content"),
             original' = [original EXCEPT ![Uri(c)] = c.output], version' = version
      PROVE  /\ \A u \in URI : version[u] > 0 => version'[u] > 0
             /\ \A u \in URI : original[u] = u[2] => original'[u] = u[2]
             /\ \A u \in URI : original'[u] \in {NoOutput, u[2]}
             /\ \A u \in URI : version'[u] > 0 => original'[u] = u[2]
  <2>1. Uri(c) \in URI /\ Uri(c)[2] = c.output
    BY <1>2, RequestTypes DEF At, Filtering
  <2> QED
    BY <1>2, <2>1
<1>3. ASSUME NEW h \in Hook, NEW c \in Requests, c = call[h], At(h, "commit"),
             version' = [version EXCEPT ![Uri(c)] = c.base + 1], original' = original
      PROVE  /\ \A u \in URI : version[u] > 0 => version'[u] > 0
             /\ \A u \in URI : original[u] = u[2] => original'[u] = u[2]
             /\ \A u \in URI : original'[u] \in {NoOutput, u[2]}
             /\ \A u \in URI : version'[u] > 0 => original'[u] = u[2]
  <2>1. Uri(c) \in URI /\ Uri(c)[2] = c.output /\ original[Uri(c)] = c.output
    BY <1>3, RequestTypes DEF At, Filtering
  <2>2. c.base + 1 > 0
    BY <1>3 DEF Requests, Request
  <2> QED
    BY <1>3, <2>1, <2>2
<1>4. ASSUME NEW h \in Hook, WriteContent(h) \/ CommitNode(h) \/ WriteFails(h)
      PROVE  \/ UNCHANGED <<original, version>>
             \/ /\ At(h, "content") /\ call[h] \in Requests /\ version' = version
                /\ original' = [original EXCEPT ![Uri(call[h])] = call[h].output]
             \/ /\ At(h, "commit") /\ call[h] \in Requests /\ original' = original
                /\ version' = [version EXCEPT ![Uri(call[h])] = call[h].base + 1]
  BY <1>4, RequestTypes DEF WriteContent, CommitNode, WriteFails, At, Filtering
<1>5. ASSUME NEW h \in Hook, WriteContent(h) \/ CommitNode(h) \/ WriteFails(h)
      PROVE  /\ \A u \in URI : version[u] > 0 => version'[u] > 0
             /\ \A u \in URI : original[u] = u[2] => original'[u] = u[2]
             /\ \A u \in URI : original'[u] \in {NoOutput, u[2]}
             /\ \A u \in URI : version'[u] > 0 => original'[u] = u[2]
  BY <1>1, <1>2, <1>3, <1>4, <1>5
<1> QED
  BY <1>1, <1>5 DEF ToolsNext, HookRead, HookBash, FilterRead, FilterBash,
     PlanWrite, CheckVersion, Respond, HookGivesUp, ToolsRestart, toolVars

(***************************************************************************)
(* What a step makes of a request: it is taken anew, goes on as it was,    *)
(* has stored its output or returns.                                       *)
(***************************************************************************)
SameRequest(c, d) == Uri(d) = Uri(c) /\ d.output = c.output /\ d.memory = c.memory

LEMMA RequestSteps ==
    ASSUME ToolsTypeOK, [ToolsNext]_toolVars, NEW h \in Hook,
           call'[h].at \notin {"idle", "read", "run"}
    PROVE  \/ call'[h] = call[h]
           \/ call'[h].at = "plan" /\ call'[h].memory = NoURI
           \/ /\ Filtering(h) /\ SameRequest(call[h], call'[h])
              /\ call'[h].at # "commit" \/ At(h, "commit")
           \/ /\ At(h, "content") /\ SameRequest(call[h], call'[h])
              /\ original' = [original EXCEPT ![Uri(call[h])] = call[h].output]
           \/ call'[h].at = "answer" /\ call'[h].memory = NoURI
           \/ /\ At(h, "plan") /\ Uri(call'[h]) = Uri(call[h])
              /\ Fingerprint(call[h], version[Uri(call[h])]) \in remembered
              /\ call'[h].at = "answer" /\ call'[h].memory = Uri(call[h])
           \/ /\ At(h, "commit") /\ Uri(call'[h]) = Uri(call[h])
              /\ version' = [version EXCEPT ![Uri(call[h])] = call[h].base + 1]
              /\ call'[h].at = "answer" /\ call'[h].memory = Uri(call[h])
<1> USE DEF ToolsTypeOK, SameRequest, Uri, At, Filtering
<1>1. ASSUME NEW o \in Output, FilterRead(h, o) \/ FilterBash(h, o)
      PROVE  call'[h].at = "plan" /\ call'[h].memory = NoURI
  <2>1. call[h] \in Posts
    BY <1>1 DEF FilterRead, FilterBash, NoCall, Requests, Request
  <2> QED
    BY <1>1, <2>1 DEF FilterRead, FilterBash, NoCall, Posts, Request
<1>2. ASSUME Filtering(h) PROVE call[h] \in Requests
  BY <1>2, RequestTypes DEF Filtering
<1>3. CASE PlanWrite(h)
  BY <1>2, <1>3 DEF PlanWrite, Returns, Requests, Request
<1>4. CASE CheckVersion(h)
  BY <1>2, <1>4 DEF CheckVersion, Goto, Returns, Requests, Request
<1>5. CASE WriteContent(h)
  BY <1>2, <1>5 DEF WriteContent, Goto, Requests, Request
<1>6. CASE CommitNode(h)
  BY <1>2, <1>6 DEF CommitNode, Returns, Requests, Request
<1>7. CASE WriteFails(h)
  BY <1>2, <1>7 DEF WriteFails, Returns, Requests, Request
<1>8. CASE Respond(h)
  BY <1>8 DEF Respond, NoCall
<1>9. CASE HookGivesUp(h)
  BY <1>2, <1>9 DEF HookGivesUp, Requests, Request
<1>10. CASE ToolsRestart
  BY <1>10 DEF ToolsRestart, NoCall
<1>11. CASE UNCHANGED toolVars
  BY <1>11 DEF toolVars
<1>12. ASSUME NEW g \in Hook, g # h,
              \/ \E t \in Target, s \in Session : HookRead(g, t, s) \/ HookBash(g, t, s)
              \/ \E o \in Output : FilterRead(g, o) \/ FilterBash(g, o)
              \/ PlanWrite(g) \/ CheckVersion(g) \/ WriteContent(g) \/ CommitNode(g)
              \/ WriteFails(g) \/ Respond(g) \/ HookGivesUp(g)
       PROVE  call'[h] = call[h]
  BY <1>12 DEF HookRead, HookBash, FilterRead, FilterBash, PlanWrite, CheckVersion,
     WriteContent, CommitNode, WriteFails, Respond, HookGivesUp, Goto, Returns
<1>13. ASSUME NEW t \in Target, NEW s \in Session,
              HookRead(h, t, s) \/ HookBash(h, t, s)
       PROVE  FALSE
  BY <1>13 DEF HookRead, HookBash, Posted
<1> QED
  BY <1>1, <1>3, <1>4, <1>5, <1>6, <1>7, <1>8, <1>9, <1>10, <1>11, <1>12, <1>13
  DEF ToolsNext, Target

(***************************************************************************)
(* The URI of a banner leads to the output that was shortened, for any     *)
(* number of hooks, failures and restarts (filter_read, filter_bash).      *)
(***************************************************************************)
THEOREM BannersLeadBack == ToolsSpec => []OriginalKept
<1>1. ToolsInit => Stored /\ Returned
  BY DEF ToolsInit, Stored, Returned, At, Filtering, NoCall
<1>2. ToolsTypeOK /\ Stored /\ Returned /\ [ToolsNext]_toolVars => Stored' /\ Returned'
  <2> SUFFICES ASSUME ToolsTypeOK, Stored, Returned, [ToolsNext]_toolVars
               PROVE  Stored' /\ Returned'
    OBVIOUS
  <2>0. /\ \A u \in URI : version[u] > 0 => version'[u] > 0
        /\ \A u \in URI : original[u] = u[2] => original'[u] = u[2]
        /\ \A u \in URI : original'[u] \in {NoOutput, u[2]}
        /\ \A u \in URI : version'[u] > 0 => original'[u] = u[2]
    BY VisibleStays
  <2>1. Stored'
    <3>1. ASSUME NEW f \in remembered' PROVE version'[f.uri] > 0
      <4>1. CASE f \in remembered
        BY <2>0, <4>1 DEF Stored, ToolsTypeOK, Fingerprints
      <4>2. ASSUME NEW h \in Hook, CommitNode(h), f \notin remembered
            PROVE  version'[f.uri] > 0
        <5>1. Uri(call[h]) \in URI /\ call[h].base + 1 > 0
          BY <4>2, RequestTypes DEF CommitNode, At, Filtering, Requests, Request
        <5>2. f.uri = Uri(call[h])
          BY <3>1, <4>2 DEF CommitNode, Fingerprint
        <5> QED
          BY <4>2, <5>1, <5>2 DEF CommitNode, ToolsTypeOK
      <4> QED
        BY <3>1, <4>1, <4>2 DEF ToolsNext, HookRead, HookBash, FilterRead,
           FilterBash, PlanWrite, CheckVersion, WriteContent, WriteFails, Respond,
           HookGivesUp, ToolsRestart, toolVars
    <3> QED
      BY <2>0, <3>1 DEF Stored
  <2>2. (\A h \in Hook : At(h, "commit") => original[Uri(call[h])] = call[h].output)'
    <3>1. ASSUME NEW h \in Hook, call'[h].at = "commit"
          PROVE  original'[Uri(call'[h])] = call'[h].output
      <4>1. CASE /\ At(h, "commit")
                 /\ call'[h] = call[h] \/ SameRequest(call[h], call'[h])
        <5>1. Uri(call[h]) \in URI /\ Uri(call[h])[2] = call[h].output
          BY <4>1, RequestTypes DEF At, Filtering
        <5> QED
          BY <2>0, <4>1, <5>1 DEF Returned, SameRequest
      <4>2. CASE /\ At(h, "content") /\ SameRequest(call[h], call'[h])
                 /\ original' = [original EXCEPT ![Uri(call[h])] = call[h].output]
        <5>1. Uri(call[h]) \in URI
          BY <4>2, RequestTypes DEF At, Filtering
        <5> QED
          BY <4>2, <5>1 DEF SameRequest, ToolsTypeOK
      <4> QED
        BY <3>1, <4>1, <4>2, RequestSteps DEF At, Filtering
    <3> QED
      BY <3>1 DEF At, Filtering, Uri, Digest
  <2>3. (\A h \in Hook : Filtering(h) /\ call[h].memory # NoURI =>
           call[h].memory = Uri(call[h]) /\ version[Uri(call[h])] > 0)'
    <3>1. ASSUME NEW h \in Hook, call'[h].at \notin {"idle", "read", "run"},
                 call'[h].memory # NoURI
          PROVE  call'[h].memory = Uri(call'[h]) /\ version'[Uri(call'[h])] > 0
      <4>1. CASE Filtering(h) /\ (call'[h] = call[h] \/ SameRequest(call[h], call'[h]))
        <5>1. Uri(call[h]) \in URI
          BY <4>1, RequestTypes DEF Filtering
        <5> QED
          BY <2>0, <3>1, <4>1, <5>1 DEF Returned, SameRequest
      <4>2. CASE /\ At(h, "plan") /\ Uri(call'[h]) = Uri(call[h])
                 /\ Fingerprint(call[h], version[Uri(call[h])]) \in remembered
                 /\ call'[h].memory = Uri(call[h])
        <5>1. Uri(call[h]) \in URI
          BY <4>2, RequestTypes DEF At, Filtering
        <5>2. version[Uri(call[h])] > 0
          BY <4>2 DEF Stored, Fingerprint
        <5> QED
          BY <2>0, <4>2, <5>1, <5>2
      <4>3. CASE /\ At(h, "commit") /\ Uri(call'[h]) = Uri(call[h])
                 /\ version' = [version EXCEPT ![Uri(call[h])] = call[h].base + 1]
                 /\ call'[h].memory = Uri(call[h])
        <5>1. Uri(call[h]) \in URI /\ call[h].base + 1 > 0
          BY <4>3, RequestTypes DEF At, Filtering, Requests, Request
        <5> QED
          BY <4>3, <5>1 DEF ToolsTypeOK
      <4> QED
        BY <3>1, <4>1, <4>2, <4>3, RequestSteps DEF At, Filtering
    <3> QED
      BY <3>1 DEF At, Filtering, Uri, Digest
  <2>4. (\A b \in banners : b[2] # NoURI => b[2][2] = b[1] /\ version[b[2]] > 0)'
    <3>1. ASSUME NEW b \in banners', b[2] # NoURI
          PROVE  b[2][2] = b[1] /\ version'[b[2]] > 0
      <4>1. CASE b \in banners
        BY <2>0, <3>1, <4>1 DEF Returned, ToolsTypeOK
      <4>2. ASSUME NEW h \in Hook, Respond(h), b \notin banners
            PROVE  b[2][2] = b[1] /\ version'[b[2]] > 0
        <5>1. b = <<call[h].output, call[h].memory>> /\ version' = version
          BY <3>1, <4>2 DEF Respond
        <5> QED
          BY <3>1, <4>2, <5>1, RequestTypes DEF Respond, Returned, At, Filtering
      <4> QED
        BY <3>1, <4>1, <4>2 DEF ToolsNext, HookRead, HookBash, FilterRead,
           FilterBash, PlanWrite, CheckVersion, WriteContent, CommitNode,
           WriteFails, HookGivesUp, ToolsRestart, toolVars
    <3> QED
      BY <3>1
  <2> QED
    BY <2>1, <2>2, <2>3, <2>4 DEF Returned
<1>3. ToolsTypeOK /\ Stored /\ Returned => OriginalKept
  BY DEF ToolsTypeOK, Stored, Returned, OriginalKept, ReadOriginal
<1> QED
  BY ToolsTypes, <1>1, <1>2, <1>3, PTL DEF ToolsSpec
-----------------------------------------------------------------------------
\* A set of natural numbers that is not empty has a least element.
LEMMA Smallest ==
  ASSUME NEW T \in SUBSET Nat, T # {}
  PROVE  \E x \in T : \A y \in T : x <= y
<1> DEFINE R == {ss \in Nat \X Nat : ss[1] < ss[2]}
<1>1. IsWellFoundedOn(R, Nat)
  BY NatLessThanWellFounded DEF OpToRel
<1> HIDE DEF R
<1>2. PICK x \in T : \A y \in T : ~ (<<y, x>> \in R)
  BY <1>1, WFMin
<1>3. ASSUME NEW y \in T PROVE x <= y
  <2>1. ~ (<<y, x>> \in R)
    BY <1>2
  <2> QED BY <2>1 DEF R
<1> QED BY <1>3

(***************************************************************************)
(* Prompts: what compose leaves of a transcript.                           *)
(***************************************************************************)
ArchivingType(n) == [at : {"idle", "snapshot", "clear", "remove"}, ids : SUBSET (1..n)]
WindowType(n) == [text : SUBSET (1..n), count : 0..n]
AsmType(a, n) == [at : {"idle", "state", "compress", "trim"}, seen : SUBSET a, text : SUBSET (1..n)]
PromptType(h, a, n) ==
    [first : 0..h + 1, matched : BOOLEAN, seen : SUBSET a, text : SUBSET (1..n), excused : SUBSET (1..n)]

ComposeTypes ==
    /\ rolling \in Rolling /\ host \in 0..MaxHost /\ told \in 0..host /\ silent \subseteq 1..host
    /\ buffer \subseteq 1..told \ silent /\ marked \subseteq buffer
    /\ window \in WindowType(told) /\ archived \subseteq 1..told /\ archiving \in ArchivingType(told)
    /\ asm \in AsmType(archived, told) /\ prompt \in PromptType(host, archived, told)
    /\ lost \subseteq 1..told /\ late \subseteq archived /\ shrunk \in BOOLEAN

\* A message that has left the buffer is in an archive, on its way into one, or gone.
Accounted ==
    /\ \A m \in 1..told \ silent :
          \/ m \in buffer \/ m \in archived \/ m \in lost
          \/ archiving.at = "clear" /\ m \in archiving.ids
    /\ archiving.at = "remove" => archiving.ids \subseteq archived
    /\ archiving.at = "idle" => archiving.ids = {}

\* A running compose was called within a turn, and knows the archives but the late ones.
Assembling ==
    asm.at # "idle" =>
        /\ prompt = NoPrompt /\ told < host
        /\ archived \subseteq asm.seen \cup late

\* The summary stands for the first messages of a buffer that has not shrunk since.
FrontOf(T, b) == T \subseteq b /\ \A m \in b \ T, t \in T : t < m
SummaryFits ==
    /\ window.count = Cardinality(window.text)
    /\ asm.at = "compress" => buffer \subseteq asm.text
    /\ ~shrunk => FrontOf(window.text, buffer)

ComposeInv == ComposeTypes /\ Accounted /\ Assembling /\ SummaryFits /\ NothingForgotten

\* How many messages of a transcript there can be in a set of them.
LEMMA CountBounded ==
  ASSUME NEW n \in Nat, NEW T \in SUBSET (1..n)
  PROVE  IsFiniteSet(T) /\ Cardinality(T) \in 0..n
<1>1. IsFiniteSet(1..n) /\ Cardinality(1..n) = n
  BY FS_Interval
<1>2. IsFiniteSet(T) /\ Cardinality(T) <= n
  BY <1>1, FS_Subset
<1> QED BY <1>2, FS_CardinalityType

\* The first messages of a piece of the transcript are a piece of it.
LEMMA FrontIsInterval ==
  ASSUME NEW i \in Nat, NEW j \in Nat, NEW T, T # {}, FrontOf(T, i..j)
  PROVE  \E k \in i..j : T = i..k /\ Cardinality(T) = k - i + 1
<1>1. T \subseteq i..j /\ \A m \in (i..j) \ T, t \in T : t < m
  BY DEF FrontOf
<1>2. PICK t \in T : t \in i..j
  BY <1>1
<1>3. CASE T = i..j
  <2>1. i <= j /\ j \in i..j
    BY <1>2
  <2>2. Cardinality(i..j) = j - i + 1
    BY <2>1, FS_Interval
  <2> QED BY <1>3, <2>1, <2>2
<1>4. CASE T # i..j
  <2>1. PICK x \in i..j : x \notin T
    BY <1>1, <1>4, Zenon
  <2>2. PICK m \in (i..j) \ T : \A y \in (i..j) \ T : m <= y
    <3>1. (i..j) \ T \in SUBSET Nat /\ x \in (i..j) \ T
      BY <2>1
    <3> QED BY <3>1, Smallest
  <2>3. t < m /\ m \in i..j /\ m - 1 \in i..j
    BY <1>1, <1>2, <2>2
  <2>4. ASSUME NEW y \in i..j PROVE y \in T <=> y \in i..(m - 1)
    <3>1. CASE y \in T
      BY <1>1, <2>2, <2>3, <3>1
    <3>2. CASE y \notin T
      BY <2>2, <2>3, <3>2
    <3> QED BY <3>1, <3>2
  <2>5. T = i..(m - 1)
    <3>1. \A y \in i..(m - 1) : y \in i..j
      BY <2>3
    <3> QED BY <1>1, <2>4, <3>1
  <2>6. Cardinality(i..(m - 1)) = (m - 1) - i + 1
    BY <2>3, FS_Interval
  <2> QED BY <2>3, <2>5, <2>6
<1> QED BY <1>3, <1>4

LEMMA ArchivesCut ==
  ASSUME ComposeTypes, told < host
  PROVE  AfterArchives(buffer) \in 1..host
<1>1. host \in Nat /\ told \in 0..host /\ buffer \subseteq 1..told
  BY ComposeAssumption DEF ComposeTypes
<1>2. Cardinality(buffer) \in 0..told
  BY <1>1, CountBounded
<1>3. ASSUME Matches(buffer), buffer # {}
      PROVE  (CHOOSE i \in buffer : \A j \in buffer : i <= j) \in buffer
  <2>1. buffer \in SUBSET Nat
    BY <1>1
  <2> QED BY <1>3, <2>1, Smallest
<1>4. CASE buffer = {} \/ asm.seen = {}
  BY <1>1, <1>4 DEF AfterArchives
<1>5. CASE ~(buffer = {} \/ asm.seen = {}) /\ Matches(buffer)
  <2>1. AfterArchives(buffer) = CHOOSE i \in buffer : \A j \in buffer : i <= j
    BY <1>5, Zenon DEF AfterArchives
  <2>2. AfterArchives(buffer) \in buffer
    BY <1>3, <1>5, <2>1
  <2>3. \A x \in buffer : x \in 1..host
    BY <1>1
  <2> QED BY <2>2, <2>3
<1>6. CASE ~(buffer = {} \/ asm.seen = {}) /\ ~Matches(buffer)
  BY <1>1, <1>2, <1>6 DEF AfterArchives, Margin
<1> QED BY <1>4, <1>5, <1>6

LEMMA SummaryCut ==
  ASSUME ComposeTypes, NEW f \in 1..host
  PROVE  AfterSummary(f) \in 0..host + 1
<1>1. host \in Nat /\ window.count \in 0..host
  BY ComposeAssumption DEF ComposeTypes, WindowType
<1> QED BY <1>1 DEF AfterSummary

\* The transcript and what is archived only grow, and with them the types.
LEMMA TypesGrow ==
  ASSUME NEW n \in Nat, NEW m \in Nat, n <= m, NEW a, NEW c, a \subseteq c
  PROVE  /\ ArchivingType(n) \subseteq ArchivingType(m) /\ WindowType(n) \subseteq WindowType(m)
         /\ AsmType(a, n) \subseteq AsmType(c, m)
         /\ \A h \in Nat : PromptType(h, a, n) \subseteq PromptType(h, c, m)
<1>1. 1..n \subseteq 1..m /\ 0..n \subseteq 0..m
  OBVIOUS
<1>2. ArchivingType(n) \subseteq ArchivingType(m)
  BY <1>1 DEF ArchivingType
<1>3. WindowType(n) \subseteq WindowType(m)
  BY <1>1 DEF WindowType
<1>4. AsmType(a, n) \subseteq AsmType(c, m)
  BY <1>1 DEF AsmType
<1>5. \A h \in Nat : PromptType(h, a, n) \subseteq PromptType(h, c, m)
  BY <1>1 DEF PromptType
<1> QED BY <1>2, <1>3, <1>4, <1>5

LEMMA Nothings ==
  ASSUME NEW n \in Nat, NEW h \in Nat, NEW a
  PROVE  /\ NoWindow \in WindowType(n) /\ NoArchiving \in ArchivingType(n)
         /\ NoAsm \in AsmType(a, n) /\ NoPrompt \in PromptType(h, a, n)
  BY DEF NoWindow, NoArchiving, NoAsm, NoPrompt, WindowType, ArchivingType, AsmType, PromptType

LEMMA Numbers ==
  ASSUME ComposeTypes
  PROVE  MaxHost \in Nat /\ host \in Nat /\ told \in Nat /\ told <= host /\ host <= MaxHost
  BY ComposeAssumption DEF ComposeTypes

LEMMA TypesStep ==
  ASSUME ComposeInv, [ComposeNext]_composeVars
  PROVE  ComposeTypes'
<1> USE Numbers DEF ComposeInv
<1>1. ASSUME NEW quiet \in BOOLEAN, Say(quiet) PROVE ComposeTypes'
  <2>1. host' \in 0..MaxHost /\ told' \in 0..host' /\ silent' \subseteq 1..host'
    BY <1>1 DEF Say, ComposeTypes
  <2>2. buffer' \subseteq 1..told' \ silent'
    BY <1>1 DEF Say, ComposeTypes, sessionVars
  <2>3. prompt' \in PromptType(host', archived', told')
    BY <1>1, <2>1, Nothings DEF Say
  <2> QED BY <1>1, <2>1, <2>2, <2>3 DEF Say, ComposeTypes, sessionVars
<1>2. ASSUME Record PROVE ComposeTypes'
  <2>1. told' \in Nat /\ told <= told' /\ told' = host
    BY <1>2 DEF Record
  <2>2. /\ WindowType(told) \subseteq WindowType(told') /\ ArchivingType(told) \subseteq ArchivingType(told')
        /\ AsmType(archived, told) \subseteq AsmType(archived, told')
    BY <2>1, TypesGrow
  <2>3. prompt' \in PromptType(host', archived', told')
    BY <1>2, <2>1, Nothings DEF Record
  <2>4. /\ window' \in WindowType(told') /\ archiving' \in ArchivingType(told')
        /\ asm' \in AsmType(archived', told')
    BY <1>2, <2>2 DEF Record, ComposeTypes
  <2>5. buffer' \subseteq 1..told' \ silent' /\ marked' \subseteq buffer'
    BY <1>2 DEF Record, ComposeTypes
  <2>6. archived' \subseteq 1..told' /\ lost' \subseteq 1..told'
    BY <1>2, <2>1 DEF Record, ComposeTypes
  <2> QED BY <1>2, <2>1, <2>3, <2>4, <2>5, <2>6 DEF Record, ComposeTypes
<1>3. ASSUME StartSnapshot PROVE ComposeTypes'
  <2>1. prompt' \in PromptType(host', archived', told')
    BY <1>3, Nothings DEF StartSnapshot
  <2>2. buffer \ marked \subseteq 1..told
    BY DEF ComposeTypes
  <2>3. archiving' \in ArchivingType(told')
    BY <1>3, <2>2 DEF StartSnapshot, ArchivingType
  <2> QED BY <1>3, <2>1, <2>3 DEF StartSnapshot, ComposeTypes
<1>4. ASSUME StartClear PROVE ComposeTypes'
  <2>1. prompt' \in PromptType(host', archived', told') /\ window' \in WindowType(told')
    BY <1>4, Nothings DEF StartClear
  <2>2. buffer \subseteq 1..told
    BY DEF ComposeTypes
  <2>3. archiving' \in ArchivingType(told')
    BY <1>4, <2>2 DEF StartClear, ArchivingType
  <2> QED BY <1>4, <2>1, <2>3 DEF StartClear, ComposeTypes
<1>5. ASSUME WriteArchive PROVE ComposeTypes'
  <2>1. archiving.ids \subseteq 1..told
    BY DEF ComposeTypes, ArchivingType
  <2>2. archived' \subseteq 1..told /\ archived \subseteq archived' /\ late' \subseteq archived'
    BY <1>5, <2>1 DEF WriteArchive, ComposeTypes
  <2>3. NoArchiving \in ArchivingType(told) /\ [archiving EXCEPT !.at = "remove"] \in ArchivingType(told)
    BY Nothings DEF ComposeTypes, ArchivingType
  <2>4. archiving' \in ArchivingType(told')
    BY <1>5, <2>3 DEF WriteArchive
  <2>5. asm' \in AsmType(archived', told') /\ prompt' \in PromptType(host', archived', told')
    <3>1. /\ AsmType(archived, told) \subseteq AsmType(archived', told)
          /\ PromptType(host, archived, told) \subseteq PromptType(host, archived', told)
      <4>1. told \in Nat /\ host \in Nat /\ told <= told
        OBVIOUS
      <4>2. PICK c : c = archived'
        OBVIOUS
      <4> QED BY <2>2, <4>1, <4>2, TypesGrow
    <3> QED BY <1>5, <3>1 DEF WriteArchive, ComposeTypes
  <2> QED BY <1>5, <2>2, <2>4, <2>5 DEF WriteArchive, ComposeTypes
<1>6. ASSUME ArchiveFails PROVE ComposeTypes'
  <2>1. archiving' \in ArchivingType(told') /\ archiving.ids \subseteq 1..told
    BY <1>6, Nothings DEF ArchiveFails, ComposeTypes, ArchivingType
  <2>2. marked' \subseteq buffer' /\ lost' \subseteq 1..told'
    BY <1>6, <2>1 DEF ArchiveFails, ComposeTypes
  <2> QED BY <1>6, <2>1, <2>2 DEF ArchiveFails, ComposeTypes
<1>7. ASSUME RemoveArchived PROVE ComposeTypes'
  <2>1. archiving' \in ArchivingType(told')
    BY <1>7, Nothings DEF RemoveArchived
  <2>2. buffer' \subseteq 1..told' \ silent' /\ marked' \subseteq buffer'
    BY <1>7 DEF RemoveArchived, ComposeTypes
  <2> QED BY <1>7, <2>1, <2>2 DEF RemoveArchived, ComposeTypes
<1>8. ASSUME ServerRestart PROVE ComposeTypes'
  <2>1. /\ prompt' \in PromptType(host', archived', told') /\ window' \in WindowType(told')
        /\ archiving' \in ArchivingType(told') /\ asm' \in AsmType(archived', told')
    BY <1>8, Nothings DEF ServerRestart
  <2>2. lost' \subseteq 1..told'
    <3>1. archiving.ids \subseteq 1..told
      BY DEF ComposeTypes, ArchivingType
    <3> QED BY <1>8, <3>1 DEF ServerRestart, ComposeTypes
  <2> QED BY <1>8, <2>1, <2>2 DEF ServerRestart, ComposeTypes
<1>9. ASSUME Assemble PROVE ComposeTypes'
  <2>1. asm' \in AsmType(archived', told')
    BY <1>9 DEF Assemble, AsmType, sessionVars
  <2> QED BY <1>9, <2>1 DEF Assemble, ComposeTypes, sessionVars
<1>10. ASSUME AskSummary PROVE ComposeTypes'
  <2>1. buffer \subseteq 1..told /\ asm \in AsmType(archived, told)
    BY DEF ComposeTypes
  <2>2. asm' \in AsmType(archived', told')
    BY <1>10, <2>1 DEF AskSummary, AsmType, sessionVars
  <2> QED BY <1>10, <2>2 DEF AskSummary, ComposeTypes, sessionVars
<1>11. ASSUME Compressed PROVE ComposeTypes'
  <2>1. asm \in AsmType(archived, told)
    BY DEF ComposeTypes
  <2>2. asm' \in AsmType(archived', told')
    BY <1>11, <2>1 DEF Compressed, AsmType
  <2>3. asm.text \subseteq 1..told
    BY <2>1 DEF AsmType
  <2>4. Cardinality(asm.text) \in 0..told
    BY <2>3, CountBounded
  <2>5. [text |-> asm.text, count |-> Cardinality(asm.text)] \in WindowType(told)
    BY <2>3, <2>4 DEF WindowType
  <2>6. window' \in WindowType(told') /\ shrunk' \in BOOLEAN
    BY <1>11, <2>5 DEF Compressed, ComposeTypes
  <2> QED BY <1>11, <2>2, <2>6 DEF Compressed, ComposeTypes
<1>12. ASSUME Trim PROVE ComposeTypes'
  <2>1. told < host
    BY <1>12 DEF Trim, Assembling
  <2>2. AfterSummary(AfterArchives(buffer)) \in 0..host + 1
    BY <2>1, ArchivesCut, SummaryCut
  <2>3. /\ asm.seen \subseteq archived /\ window.text \subseteq 1..told
        /\ lost \cup late \cup (IF archiving.at = "clear" THEN archiving.ids ELSE {}) \subseteq 1..told
    BY DEF ComposeTypes, AsmType, WindowType, ArchivingType
  <2>4. (buffer = {} \/ Matches(buffer)) \in BOOLEAN
    OBVIOUS
  <2>5. prompt' \in PromptType(host', archived', told')
    BY <1>12, <2>2, <2>3, <2>4 DEF Trim, PromptType, sessionVars
  <2>6. asm' \in AsmType(archived', told')
    BY <1>12, Nothings DEF Trim, sessionVars
  <2> QED BY <1>12, <2>5, <2>6 DEF Trim, ComposeTypes, sessionVars
<1>13. CASE UNCHANGED composeVars
  BY <1>13 DEF composeVars, sessionVars, ComposeTypes
<1> QED BY <1>1, <1>2, <1>3, <1>4, <1>5, <1>6, <1>7, <1>8, <1>9, <1>10, <1>11, <1>12, <1>13 DEF ComposeNext

LEMMA AccountedStep ==
  ASSUME ComposeInv, [ComposeNext]_composeVars
  PROVE  Accounted'
<1>1. /\ Accounted /\ archiving \in ArchivingType(told) /\ host \in Nat /\ told \in 0..host
      /\ buffer \subseteq 1..told
  BY Numbers DEF ComposeInv, ComposeTypes
<1>2. CASE \E quiet \in BOOLEAN : Say(quiet)
  <2>1. 1..told' \ silent' \subseteq 1..told \ silent
    BY <1>1, <1>2 DEF Say
  <2> QED BY <1>1, <1>2, <2>1 DEF Say, Accounted, sessionVars
<1>3. CASE Record
  <2>1. ASSUME NEW m \in 1..told' \ silent' PROVE m \in 1..told \ silent \/ m \in buffer'
    BY <1>1, <1>3 DEF Record
  <2> QED BY <1>1, <1>3, <2>1 DEF Record, Accounted
<1>4. CASE StartSnapshot
  BY <1>1, <1>4 DEF StartSnapshot, Accounted
<1>5. CASE StartClear
  BY <1>1, <1>5 DEF StartClear, Accounted
<1>6. CASE WriteArchive
  <2>1. /\ archiving.at # "clear" => archiving'.at = "remove" /\ archiving'.ids = archiving.ids
        /\ archiving.at = "clear" => archiving'.at = "idle" /\ archiving'.ids = {}
    BY <1>1, <1>6 DEF WriteArchive, NoArchiving, ArchivingType
  <2> QED BY <1>1, <1>6, <2>1 DEF WriteArchive, Accounted
<1>7. CASE ArchiveFails
  BY <1>1, <1>7 DEF ArchiveFails, Accounted, NoArchiving
<1>8. CASE RemoveArchived
  BY <1>1, <1>8 DEF RemoveArchived, Accounted, NoArchiving
<1>9. CASE ServerRestart
  BY <1>1, <1>9 DEF ServerRestart, Accounted, NoArchiving
<1>10. CASE Assemble \/ AskSummary \/ Compressed \/ Trim \/ UNCHANGED composeVars
  BY <1>1, <1>10 DEF Assemble, AskSummary, Compressed, Trim, composeVars, sessionVars, Accounted
<1> QED BY <1>2, <1>3, <1>4, <1>5, <1>6, <1>7, <1>8, <1>9, <1>10 DEF ComposeNext

LEMMA AssemblingStep ==
  ASSUME ComposeInv, [ComposeNext]_composeVars
  PROVE  Assembling'
<1>1. Assembling /\ asm \in AsmType(archived, told) /\ NoAsm.at = "idle"
  BY DEF ComposeInv, ComposeTypes, NoAsm
<1>2. CASE \/ \E quiet \in BOOLEAN : Say(quiet)
           \/ Record \/ StartSnapshot \/ StartClear
  <2>1. asm.at = "idle" /\ UNCHANGED asm
    BY <1>2 DEF Say, Record, StartSnapshot, StartClear, Between
  <2> QED BY <2>1 DEF Assembling
<1>3. CASE WriteArchive
  BY <1>1, <1>3 DEF WriteArchive, Assembling, Between
<1>4. CASE ArchiveFails \/ RemoveArchived
  BY <1>1, <1>4 DEF ArchiveFails, RemoveArchived, Assembling
<1>5. CASE ServerRestart \/ Trim
  BY <1>1, <1>5 DEF ServerRestart, Trim, Assembling
<1>6. CASE Assemble
  BY <1>1, <1>6 DEF Assemble, Assembling, sessionVars
<1>7. CASE AskSummary \/ Compressed
  <2>1. asm'.seen = asm.seen /\ asm.at # "idle"
    BY <1>1, <1>7 DEF AskSummary, Compressed, AsmType
  <2> QED BY <1>1, <1>7, <2>1 DEF AskSummary, Compressed, Assembling, sessionVars
<1>8. CASE UNCHANGED composeVars
  BY <1>1, <1>8 DEF composeVars, sessionVars, Assembling
<1> QED BY <1>2, <1>3, <1>4, <1>5, <1>6, <1>7, <1>8 DEF ComposeNext

LEMMA SummaryStep ==
  ASSUME ComposeInv, [ComposeNext]_composeVars
  PROVE  SummaryFits'
<1>1. /\ SummaryFits /\ asm \in AsmType(archived, told) /\ NoAsm.at = "idle"
      /\ host \in Nat /\ told \in 0..host /\ buffer \subseteq 1..told /\ window.text \subseteq 1..told
  BY Numbers DEF ComposeInv, ComposeTypes, NoAsm, WindowType
<1>2. NoWindow.text = {} /\ NoWindow.count = Cardinality({})
  BY FS_EmptySet DEF NoWindow
<1>3. CASE \/ \E quiet \in BOOLEAN : Say(quiet)
           \/ StartSnapshot \/ WriteArchive \/ ArchiveFails
  BY <1>1, <1>3 DEF Say, StartSnapshot, WriteArchive, ArchiveFails, SummaryFits, FrontOf, sessionVars
<1>4. CASE Record
  <2>1. \A m \in buffer' \ buffer, t \in window.text : t < m
    BY <1>1, <1>4 DEF Record
  <2> QED BY <1>1, <1>4, <2>1 DEF Record, SummaryFits, FrontOf, Between
<1>5. CASE StartClear
  BY <1>1, <1>2, <1>5 DEF StartClear, SummaryFits, FrontOf, Between
<1>6. CASE RemoveArchived
  <2>1. ~shrunk' => window.count = 0 /\ ~shrunk
    <3>1. ~shrunk' => ~shrunk /\ ~(window.count > 0)
      BY <1>6, Zenon DEF RemoveArchived
    <3>2. window.count \in 0..told
      BY DEF ComposeInv, ComposeTypes, WindowType
    <3> QED BY <1>1, <3>1, <3>2
  <2>2. window.count = 0 => window.text = {}
    <3>1. IsFiniteSet(window.text)
      BY <1>1, CountBounded
    <3> QED BY <1>1, <3>1, FS_EmptySet DEF SummaryFits
  <2> QED BY <1>1, <1>6, <2>1, <2>2 DEF RemoveArchived, SummaryFits, FrontOf
<1>7. CASE ServerRestart
  BY <1>1, <1>2, <1>7 DEF ServerRestart, SummaryFits, FrontOf
<1>8. CASE Assemble
  BY <1>1, <1>8 DEF Assemble, SummaryFits, FrontOf, sessionVars
<1>9. CASE AskSummary
  <2>1. asm'.at = "compress" => asm'.text = buffer
    BY <1>1, <1>9 DEF AskSummary, AsmType
  <2> QED BY <1>1, <1>9, <2>1 DEF AskSummary, SummaryFits, FrontOf, sessionVars
<1>10. CASE Compressed
  <2>1. asm'.at = "trim" /\ buffer \subseteq asm.text
    BY <1>1, <1>10 DEF Compressed, AsmType, SummaryFits
  <2>2. CASE UNCHANGED <<window, shrunk>>
    BY <1>1, <1>10, <2>1, <2>2 DEF Compressed, SummaryFits, FrontOf
  <2>3. CASE /\ window' = [text |-> asm.text, count |-> Cardinality(asm.text)]
             /\ shrunk' = ~(asm.text \subseteq buffer)
    <3>1. window'.text = asm.text /\ window'.count = Cardinality(asm.text) /\ (~shrunk' => asm.text = buffer)
      BY <2>1, <2>3
    <3> QED BY <1>10, <2>1, <3>1 DEF Compressed, SummaryFits, FrontOf
  <2> QED BY <1>10, <2>2, <2>3 DEF Compressed
<1>11. CASE Trim
  BY <1>1, <1>11 DEF Trim, SummaryFits, FrontOf, sessionVars
<1>12. CASE UNCHANGED composeVars
  BY <1>1, <1>12 DEF composeVars, sessionVars, SummaryFits, FrontOf
<1> QED BY <1>3, <1>4, <1>5, <1>6, <1>7, <1>8, <1>9, <1>10, <1>11, <1>12 DEF ComposeNext

\* The summary takes away exactly what it stands for, or what is accounted for otherwise.
LEMMA CutIsCovered ==
  ASSUME ComposeInv, told < host, ~shrunk, buffer = {} \/ Matches(buffer),
         NEW m \in 1..host, m \notin silent, m < AfterSummary(AfterArchives(buffer)), m \notin window.text
  PROVE  \/ m \in archived \/ m \in lost
         \/ archiving.at = "clear" /\ m \in archiving.ids
<1>1. /\ host \in Nat /\ told \in Nat /\ told < host /\ buffer \subseteq 1..told /\ SummaryFits
      /\ window.text \subseteq 1..told /\ window.count = Cardinality(window.text) /\ FrontOf(window.text, buffer)
  BY Numbers DEF ComposeInv, ComposeTypes, WindowType, SummaryFits
<1>2. SUFFICES m \in 1..told /\ m \notin buffer
  BY DEF ComposeInv, Accounted
<1>3. PICK f : f = AfterArchives(buffer)
  OBVIOUS
<1>4. f \in 1..host
  BY <1>3, ArchivesCut DEF ComposeInv
<1>5. CASE window.text = {}
  <2>1. window.count = 0
    BY <1>1, <1>5, FS_EmptySet
  <2>2. m < f
    BY <1>3, <2>1 DEF AfterSummary
  <2>3. buffer # {} /\ Matches(buffer) /\ f = CHOOSE i \in buffer : \A j \in buffer : i <= j
    BY <1>3, <1>4, <2>2 DEF AfterArchives
  <2>4. f \in buffer /\ \A j \in buffer : f <= j
    <3>1. buffer \in SUBSET Nat
      BY <1>1
    <3>2. \E i \in buffer : \A j \in buffer : i <= j
      BY <2>3, <3>1, Smallest
    <3> QED BY <2>3, <3>2
  <2> QED BY <1>1, <2>2, <2>4
<1>6. CASE window.text # {}
  <2>1. buffer # {} /\ Matches(buffer)
    BY <1>1, <1>6 DEF FrontOf
  <2>2. PICK i \in buffer, j \in buffer : buffer = i..j
    BY <2>1 DEF Matches
  <2>3. i \in Nat /\ j \in Nat /\ i \in 1..told /\ j \in 1..told
    BY <1>1, <2>2
  <2>4. PICK k \in i..j : window.text = i..k /\ Cardinality(window.text) = k - i + 1
    BY <1>1, <1>6, <2>2, <2>3, FrontIsInterval
  <2>5. f = 1 \/ f = i
    <3>1. CASE asm.seen = {}
      BY <1>3, <3>1 DEF AfterArchives
    <3>2. CASE asm.seen # {}
      <4>1. f = CHOOSE x \in buffer : \A y \in buffer : x <= y
        BY <1>3, <2>1, <3>2 DEF AfterArchives
      <4>2. i \in buffer /\ \A y \in buffer : i <= y
        BY <2>2, <2>3
      <4>3. f \in buffer /\ \A y \in buffer : f <= y
        BY <4>1, <4>2
      <4> QED BY <2>2, <2>3, <4>2, <4>3
    <3> QED BY <3>1, <3>2
  <2>6. window.count = k - i + 1 /\ k \in 1..told /\ i <= k
    BY <1>1, <2>3, <2>4
  <2>7. m < f + window.count
    BY <1>1, <1>3, <1>4, <2>3, <2>5, <2>6 DEF AfterSummary
  <2>8. m <= k /\ ~(m \in i..k)
    BY <2>3, <2>4, <2>5, <2>6, <2>7
  <2> QED BY <1>1, <2>2, <2>3, <2>6, <2>8
<1> QED BY <1>5, <1>6

LEMMA ForgottenStep ==
  ASSUME ComposeInv, [ComposeNext]_composeVars
  PROVE  NothingForgotten'
<1>1. /\ NothingForgotten /\ Assembling /\ host \in Nat
  BY Numbers DEF ComposeInv
<1>2. CASE \/ \E quiet \in BOOLEAN : Say(quiet)
           \/ Record \/ StartSnapshot \/ StartClear \/ ServerRestart
  BY <1>2 DEF Say, Record, StartSnapshot, StartClear, ServerRestart, NothingForgotten, Answered
<1>3. CASE \/ WriteArchive \/ ArchiveFails \/ RemoveArchived \/ Assemble \/ AskSummary
           \/ UNCHANGED composeVars
  <2>1. UNCHANGED <<prompt, host, silent>> /\ (~shrunk' => ~shrunk)
    <3>1. CASE RemoveArchived
      BY <3>1, Zenon DEF RemoveArchived
    <3>2. CASE ~RemoveArchived
      BY <1>3, <3>2 DEF WriteArchive, ArchiveFails, Assemble, AskSummary, composeVars
    <3> QED BY <3>1, <3>2
  <2> QED BY <1>1, <2>1 DEF NothingForgotten, Answered, Kept
<1>4. CASE Compressed
  <2>1. prompt' = NoPrompt
    BY <1>1, <1>4 DEF Compressed, Assembling
  <2> QED BY <2>1 DEF NothingForgotten, Answered
<1>5. CASE Trim
  <2>1. told < host /\ archived \subseteq asm.seen \cup late
    BY <1>1, <1>5 DEF Trim, Assembling
  <2>2. PICK f : f = AfterSummary(AfterArchives(buffer))
    OBVIOUS
  <2>3. /\ prompt'.first = f /\ prompt'.matched = (buffer = {} \/ Matches(buffer))
        /\ prompt'.seen = asm.seen /\ prompt'.text = window.text
        /\ prompt'.excused = lost \cup late \cup (IF archiving.at = "clear" THEN archiving.ids ELSE {})
        /\ UNCHANGED <<host, silent, shrunk>>
    BY <1>5, <2>2 DEF Trim
  <2>4. f \in 0..host + 1
    BY <2>1, <2>2, ArchivesCut, SummaryCut DEF ComposeInv
  <2>5. ASSUME ~shrunk, buffer = {} \/ Matches(buffer), NEW m \in 1..host \ silent
        PROVE  m \in f..host \/ m \in prompt'.seen \/ m \in prompt'.text \/ m \in prompt'.excused
    <3>1. CASE m < f /\ m \notin window.text
      <4>1. m \in archived \/ m \in lost \/ (archiving.at = "clear" /\ m \in archiving.ids)
        BY <2>1, <2>2, <2>5, <3>1, CutIsCovered
      <4> QED BY <2>1, <2>3, <4>1
    <3>2. CASE ~(m < f)
      BY <1>1, <2>4, <3>2
    <3>3. CASE m \in window.text
      BY <2>3, <3>3
    <3> QED BY <3>1, <3>2, <3>3
  <2>6. prompt'.matched /\ ~shrunk' =>
          \A m \in 1..host \ silent : m \in f..host \/ m \in prompt'.seen \/ m \in prompt'.text \/ m \in prompt'.excused
    BY <2>3, <2>5
  <2> QED BY <2>3, <2>6 DEF NothingForgotten, Kept
<1> QED BY <1>2, <1>3, <1>4, <1>5 DEF ComposeNext

LEMMA ComposeStart ==
  ASSUME ComposeInit
  PROVE  ComposeInv
<1>1. MaxHost \in Nat /\ host = 0 /\ told = 0
  BY ComposeAssumption DEF ComposeInit
<1>2. ComposeTypes
  <2>1. /\ window \in WindowType(told) /\ archiving \in ArchivingType(told)
        /\ asm \in AsmType(archived, told) /\ prompt \in PromptType(host, archived, told)
    BY <1>1, Nothings DEF ComposeInit
  <2>2. /\ silent = {} /\ buffer = {} /\ marked = {} /\ archived = {} /\ lost = {} /\ late = {}
        /\ rolling \in Rolling
    BY DEF ComposeInit
  <2>3. shrunk \in BOOLEAN
    BY Zenon DEF ComposeInit
  <2> QED BY <1>1, <2>1, <2>2, <2>3 DEF ComposeTypes
<1>3. Accounted /\ Assembling
  BY <1>1 DEF ComposeInit, Accounted, Assembling, NoArchiving, NoAsm
<1>4. SummaryFits
  BY FS_EmptySet DEF ComposeInit, SummaryFits, FrontOf, NoWindow, NoAsm
<1>5. NothingForgotten
  BY DEF ComposeInit, NothingForgotten, Answered
<1> QED BY <1>2, <1>3, <1>4, <1>5 DEF ComposeInv

(***************************************************************************)
(* The invariant of compose, the threads that archive, and restarts.       *)
(* (memory_service.py:3860-3971)                                           *)
(***************************************************************************)
THEOREM ComposeInvariant == ComposeSpec => []ComposeInv
<1>1. ComposeInv /\ [ComposeNext]_composeVars => ComposeInv'
  BY TypesStep, AccountedStep, AssemblingStep, SummaryStep, ForgottenStep DEF ComposeInv
<1> QED BY <1>1, ComposeStart, PTL DEF ComposeSpec

(***************************************************************************)
(* Every variable of compose keeps its type.                               *)
(***************************************************************************)
THEOREM ComposeTypeCorrect == ComposeSpec => []ComposeTypeOK
<1>1. ComposeInv => ComposeTypeOK
  BY DEF ComposeInv, ComposeTypes, ComposeTypeOK, WindowType, ArchivingType, AsmType, PromptType
<1> QED BY <1>1, ComposeInvariant, PTL

(***************************************************************************)
(* No message is forgotten, whatever the lengths and orders.               *)
(* (memory_service.py:3875-3971)                                           *)
(***************************************************************************)
THEOREM PromptsForgetNothing == ComposeSpec => []NothingForgotten
<1>1. ComposeInv => NothingForgotten
  BY DEF ComposeInv
<1> QED BY <1>1, ComposeInvariant, PTL
=============================================================================
