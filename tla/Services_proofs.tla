-------------------------- MODULE Services_proofs --------------------------
(***************************************************************************)
(* Theorems of the parts that serve requests: IndexWait, Launcher,         *)
(* SessionArchives, ControlPlane, ModelClient.                             *)
(***************************************************************************)
EXTENDS IndexWait, Launcher, SessionArchives, ControlPlane, ModelClient,
        FiniteSetTheorems, SequenceTheorems, WellFoundedInduction, TLAPS

(***************************************************************************)
(* Requests that wait for the index.                                       *)
(***************************************************************************)
WaitStates == {"idle", "ingest", "drain", "handle", "find", "find again", "answered"}
WaitKinds == Searches \cup {"bootstrap", "read", "none"}
EventStates == {"none", "pending", "polling", "later", "indexed"} \cup Client
WaitRecords ==
    [kind : WaitKinds, at : WaitStates, file : SUBSET BootFile, already : SUBSET BootFile,
     fresh : SUBSET BootFile, rounds : 0..DrainRounds, full : BOOLEAN, failed : BOOLEAN]
Answered ==
    [kind : WaitKinds, quiet : BOOLEAN, full : BOOLEAN, failed : BOOLEAN,
     already : SUBSET BootFile, fresh : SUBSET BootFile]

(***************************************************************************)
(* What the state of a request means: what it counts as ingested is among  *)
(* what it tried and has its event; a request that is past the ingestion   *)
(* and still believes the index complete has tried everything, unless its  *)
(* last batch failed; only the hook of a read looks for a snippet.         *)
(***************************************************************************)
Meant(c) ==
    /\ wait[c].fresh \subseteq wait[c].already \cup wait[c].file
    /\ wait[c].at \in {"ingest", "drain", "find"} => wait[c].rounds < DrainRounds
    /\ wait[c].at \in {"find", "find again"} => wait[c].kind = "read"
    /\ wait[c].at \in {"drain", "handle"} /\ wait[c].kind = "full search"
         /\ wait[c].full /\ ~wait[c].failed => wait[c].already = BootFile
    /\ \A f \in wait[c].fresh : event[f] # "none"

WaitTypes ==
    /\ setting \in WaitSettings
    /\ event \in [BootFile -> EventStates]
    /\ wait \in [Client -> WaitRecords]
    /\ reached \in Answered

WaitInv == WaitTypes /\ (\A c \in Client : Meant(c)) /\ CompleteIsQuiet

\* A batch of no files means that no file is left.
LEMMA EmptyBatch ==
  ASSUME WaitTypes, NEW c \in Client, ~AtCap(c), {} \in NextFiles(c)
  PROVE  wait[c].already = BootFile
<1> DEFINE rest == BootFile \ wait[c].already
<1>1. IsFiniteSet(rest) /\ Cardinality(rest) \in Nat
  BY WaitAssumption, FS_Difference, FS_CardinalityType
<1>2. IsFiniteSet(wait[c].already) /\ Cardinality(wait[c].already) \in Nat
  BY WaitAssumption, FS_Subset, FS_CardinalityType DEF WaitTypes, WaitRecords
<1>3. Limit(c) \in Nat /\ Limit(c) > 0
  <2>1. setting.cap \in Nat
    <3>1. setting \in [polled : BOOLEAN, cap : Nat]
      BY WaitAssumption DEF WaitTypes
    <3> QED BY <3>1
  <2>2. CASE Capped(c)
    <3>1. ~(Cardinality(wait[c].already) >= setting.cap)
      BY <2>2 DEF AtCap
    <3> QED BY <2>1, <2>2, <1>2, <3>1 DEF Limit
  <2>3. CASE ~Capped(c)
    BY <2>3, WaitAssumption DEF Limit
  <2> QED BY <2>2, <2>3
<1>4. Cardinality({}) = 0
  BY FS_EmptySet
<1>5. Cardinality(rest) = 0
  BY <1>1, <1>3, <1>4 DEF NextFiles
<1>6. rest = {}
  BY <1>1, <1>5, FS_EmptySet
<1> QED BY <1>6 DEF WaitTypes, WaitRecords
\* Nothing is answered in a step that is not an answer.
LEMMA Unanswered == NotReached \in Answered /\ (reached' = NotReached => CompleteIsQuiet')
<1>1. NotReached \in Answered
  BY DEF NotReached, Answered, WaitKinds
<1>2. ASSUME reached' = NotReached PROVE CompleteIsQuiet'
  <2>1. reached'.kind = "none"
    BY <1>2 DEF NotReached
  <2> QED BY <2>1 DEF CompleteIsQuiet
<1> QED BY <1>1, <1>2

\* A step of one request, and of events that only go on.
LEMMA RequestMoves ==
  ASSUME WaitInv, NEW c \in Client, UNCHANGED setting,
         wait' \in [Client -> WaitRecords], \A d \in Client \ {c} : wait'[d] = wait[d],
         event' \in [BootFile -> EventStates],
         \A f \in BootFile : event[f] # "none" => event'[f] # "none",
         Meant(c)', reached' \in Answered, CompleteIsQuiet'
  PROVE  WaitInv'
<1>1. WaitTypes'
  BY DEF WaitInv, WaitTypes
<1>2. ASSUME NEW d \in Client \ {c} PROVE Meant(d)'
  <2>1. wait'[d] = wait[d] /\ wait[d] \in WaitRecords
    BY DEF WaitInv, WaitTypes
  <2>2. Meant(d) /\ wait[d].fresh \subseteq BootFile
    BY <2>1 DEF WaitInv, WaitRecords
  <2> QED BY <2>1, <2>2 DEF Meant
<1> QED BY <1>1, <1>2 DEF WaitInv

\* What another actor does to events.
LEMMA EventsMove ==
  ASSUME WaitInv, NEW who \in Client \cup {"polling"},
         ClaimPending(who) \/ HandleClaimed(who)
  PROVE  /\ event' \in [BootFile -> EventStates]
         /\ \A f \in BootFile : event[f] # "none" => event'[f] # "none"
<1>1. event \in [BootFile -> EventStates] /\ who # "none"
  BY WaitAssumption DEF WaitInv, WaitTypes
<1>2. CASE ClaimPending(who)
  BY <1>1, <1>2 DEF ClaimPending, EventStates
<1>3. CASE HandleClaimed(who)
  BY <1>1, <1>3 DEF HandleClaimed, EventStates
<1> QED BY <1>2, <1>3

\* Files that are ingested get an event, and no event is taken back.
LEMMA IngestedMoves ==
  ASSUME WaitInv, NEW files \in SUBSET BootFile, Ingested(files)
  PROVE  /\ event' \in [BootFile -> EventStates]
         /\ \A f \in BootFile : event[f] # "none" => event'[f] # "none"
         /\ \A f \in files : event'[f] # "none"
BY DEF WaitInv, WaitTypes, Ingested, EventStates

LEMMA Bounds == 0 \in 0..DrainRounds /\ DrainRounds \in Nat /\ 0 < DrainRounds
<1>1. DrainRounds \in Nat /\ DrainRounds # 0
  BY WaitAssumption
<1> QED BY <1>1

\* The request that is not there, with some fields changed.
LEMMA NoWaitTyped ==
  /\ NoWait \in WaitRecords /\ NoWait.fresh = {} /\ NoWait.already = {}
  /\ NoWait.rounds = 0 /\ NoWait.file = {} /\ NoWait.full = TRUE
BY Bounds DEF NoWait, WaitRecords, WaitStates, WaitKinds

\* A request is answered: as quiet only when nothing is pending, and as
\* complete only when it believes so.
LEMMA ReachMoves ==
  ASSUME WaitInv, NEW c \in Client, NEW quiet \in BOOLEAN, NEW full \in BOOLEAN,
         Reach(c, quiet, full), UNCHANGED setting,
         event' \in [BootFile -> EventStates],
         \A f \in BootFile : event[f] # "none" => event'[f] # "none",
         full /\ wait[c].kind = "full search" => wait[c].full,
         wait[c].kind = "full search" => wait[c].at \in {"drain", "handle"},
         quiet => wait[c].kind = "read" \/ (Pending = {} /\ UNCHANGED event)
  PROVE  WaitInv'
<1> DEFINE r == [NoWait EXCEPT !.kind = wait[c].kind, !.at = "answered"]
<1>1. wait[c] \in WaitRecords /\ Meant(c)
  BY DEF WaitInv, WaitTypes
<1>2. r \in WaitRecords /\ r.fresh = {} /\ r.at = "answered"
  <2>1. wait[c].kind \in WaitKinds
    BY <1>1 DEF WaitRecords
  <2> QED BY <2>1, NoWaitTyped DEF WaitRecords, WaitStates
<1>3. reached' \in Answered
  BY <1>1 DEF Reach, Answered, WaitRecords
<1>4. CompleteIsQuiet'
  <2>1. /\ reached'.kind = wait[c].kind /\ reached'.quiet = quiet /\ reached'.full = full
        /\ reached'.failed = wait[c].failed /\ reached'.already = wait[c].already
        /\ reached'.fresh = wait[c].fresh
    BY DEF Reach
  <2>2. wait[c].kind = "full search" /\ full /\ ~wait[c].failed => wait[c].already = BootFile
    BY <1>1 DEF Meant
  <2>3. ASSUME quiet, wait[c].kind # "read", NEW f \in wait[c].fresh
        PROVE  event'[f] \notin {"none", "pending"}
    <3>1. f \in BootFile /\ event[f] # "none"
      BY <1>1, <2>3 DEF Meant, WaitRecords
    <3> QED BY <2>3, <3>1 DEF Pending
  <2> QED BY <2>1, <2>2, <2>3 DEF CompleteIsQuiet
<1>5. wait' = [wait EXCEPT ![c] = r]
  BY DEF Reach
<1> HIDE DEF r
<1>6. /\ wait' \in [Client -> WaitRecords] /\ wait'[c] = r
      /\ \A d \in Client \ {c} : wait'[d] = wait[d]
  BY <1>2, <1>5 DEF WaitInv, WaitTypes
<1>7. Meant(c)'
  BY <1>2, <1>6 DEF Meant
<1> QED BY <1>3, <1>4, <1>6, <1>7, RequestMoves
\* A request goes on to its next step.
LEMMA NowMoves ==
  ASSUME WaitInv, NEW c \in Client, NEW at \in WaitStates, Now(c, at), UNCHANGED setting,
         event' \in [BootFile -> EventStates],
         \A f \in BootFile : event[f] # "none" => event'[f] # "none",
         at \in {"ingest", "drain", "find"} => wait[c].rounds < DrainRounds,
         at \in {"find", "find again"} => wait[c].kind = "read",
         at \in {"drain", "handle"} /\ wait[c].kind = "full search"
           => wait[c].at \in {"drain", "handle"}
  PROVE  WaitInv'
<1>1. /\ wait \in [Client -> WaitRecords] /\ wait[c] \in WaitRecords /\ Meant(c)
  BY DEF WaitInv, WaitTypes
<1> DEFINE r == [wait[c] EXCEPT !.at = at]
<1>2. /\ r \in WaitRecords /\ r.at = at
      /\ r.kind = wait[c].kind /\ r.file = wait[c].file /\ r.already = wait[c].already
      /\ r.fresh = wait[c].fresh /\ r.rounds = wait[c].rounds /\ r.full = wait[c].full
      /\ r.failed = wait[c].failed
  BY <1>1 DEF WaitRecords
<1>3. wait' = [wait EXCEPT ![c] = r] /\ reached' = NotReached
  BY <1>1 DEF Now
<1> HIDE DEF r
<1>4. /\ wait' \in [Client -> WaitRecords] /\ wait'[c] = r
      /\ \A d \in Client \ {c} : wait'[d] = wait[d]
  BY <1>1, <1>2, <1>3
<1>5. Meant(c)'
  BY <1>1, <1>2, <1>4 DEF Meant, WaitRecords
<1> QED BY <1>3, <1>4, <1>5, Unanswered, RequestMoves

\* One step of any request, or of what works for all.
LEMMA WaitMoves ==
  ASSUME WaitInv, WaitNext
  PROVE  WaitInv'
<1>1. /\ wait \in [Client -> WaitRecords] /\ event \in [BootFile -> EventStates]
      /\ setting \in WaitSettings
      /\ \A c \in Client : wait[c] \in WaitRecords /\ Meant(c)
  BY DEF WaitInv, WaitTypes
<1>2. ASSUME NEW c \in Client, NEW kind \in Searches \cup {"bootstrap", "read"},
             NEW files \in SUBSET BootFile, BeginWait(c, kind, files)
      PROVE  WaitInv'
  <2> DEFINE r == [NoWait EXCEPT !.kind = kind, !.file = files,
                                 !.at = IF kind = "read" THEN "find" ELSE "ingest"]
  <2>1. r \in WaitRecords
    BY NoWaitTyped DEF WaitRecords, WaitStates, WaitKinds, Searches
  <2>2. /\ r.fresh = {} /\ r.at \in {"find", "ingest"} /\ r.rounds = 0
        /\ r.at = "find" => r.kind = "read"
    BY NoWaitTyped DEF WaitRecords
  <2>3. wait' = [wait EXCEPT ![c] = r] /\ UNCHANGED <<setting, event>> /\ reached' = NotReached
    BY <1>2 DEF BeginWait
  <2> HIDE DEF r
  <2>4. /\ wait' \in [Client -> WaitRecords] /\ wait'[c] = r
        /\ \A d \in Client \ {c} : wait'[d] = wait[d]
    BY <1>1, <2>1, <2>3
  <2>5. Meant(c)'
    BY <2>2, <2>4, Bounds DEF Meant
  <2> QED BY <1>1, <2>3, <2>4, <2>5, Unanswered, RequestMoves
<1>3. ASSUME NEW c \in Client, IngestBatch(c)
      PROVE  WaitInv'
  <2>1. PICK tried \in SUBSET BootFile, done \in SUBSET BootFile :
          /\ tried \in NextFiles(c) /\ done \subseteq tried
          /\ Ingested(done)
          /\ wait' = [wait EXCEPT ![c].already = @ \cup tried, ![c].fresh = @ \cup done,
                 ![c].failed = done = {} /\ tried # {},
                 ![c].at = IF wait[c].kind = "full search" /\ done # {} THEN "ingest"
                           ELSE IF wait[c].kind = "search" THEN "answered" ELSE "drain"]
    BY <1>3 DEF IngestBatch, NextFiles
  <2>2. tried \subseteq BootFile /\ done \subseteq tried
    BY <2>1
  <2>3. UNCHANGED setting /\ reached' = NotReached
    BY <1>3 DEF IngestBatch
  <2>4. /\ wait' \in [Client -> WaitRecords]
        /\ \A d \in Client \ {c} : wait'[d] = wait[d]
    <3> DEFINE already == wait[c].already \cup tried
               fresh == wait[c].fresh \cup done
               failed == done = {} /\ tried # {}
               next == IF wait[c].kind = "full search" /\ done # {} THEN "ingest"
                       ELSE IF wait[c].kind = "search" THEN "answered" ELSE "drain"
    <3>1. wait' = [wait EXCEPT ![c].already = already, ![c].fresh = fresh,
                               ![c].failed = failed, ![c].at = next]
      BY <2>1
    <3>2. failed \in BOOLEAN /\ next \in WaitStates
      BY DEF WaitStates
    <3>3. already \in SUBSET BootFile /\ fresh \in SUBSET BootFile
      BY <1>1, <2>2 DEF WaitRecords
    <3> HIDE DEF already, fresh, failed, next
    <3> DEFINE r == [wait[c] EXCEPT !.already = already, !.fresh = fresh,
                                    !.failed = failed, !.at = next]
    <3>4. r \in WaitRecords
      BY <1>1, <3>2, <3>3 DEF WaitRecords
    <3>5. wait' = [wait EXCEPT ![c] = r]
      BY <1>1, <3>1
    <3> HIDE DEF r
    <3> QED BY <1>1, <3>4, <3>5
  <2>5. /\ wait'[c].already = wait[c].already \cup tried
        /\ wait'[c].fresh = wait[c].fresh \cup done
        /\ wait'[c].failed = (done = {} /\ tried # {}) /\ wait'[c].kind = wait[c].kind
        /\ wait'[c].file = wait[c].file /\ wait'[c].rounds = wait[c].rounds
        /\ wait'[c].at \in {"ingest", "answered", "drain"}
        /\ wait'[c].at = "drain" /\ wait'[c].kind = "full search" => done = {}
    BY <1>1, <2>1 DEF WaitRecords
  <2>6. ASSUME wait'[c].at \in {"drain", "handle"}, wait'[c].kind = "full search",
               ~wait'[c].failed
        PROVE  wait'[c].already = BootFile
    <3>1. done = {} /\ tried = {}
      BY <2>5, <2>6
    <3>2. wait[c].already = BootFile
      BY <1>3, <2>1, <3>1, EmptyBatch DEF IngestBatch, WaitInv
    <3> QED BY <2>5, <3>1, <3>2
  <2>7. /\ event' \in [BootFile -> EventStates]
        /\ \A f \in BootFile : event[f] # "none" => event'[f] # "none"
        /\ \A f \in done : event'[f] # "none"
    BY <2>1, <2>2, IngestedMoves
  <2>8. Meant(c)'
    <3>1. wait[c].at = "ingest"
      BY <1>3 DEF IngestBatch
    <3> QED BY <1>1, <2>1, <2>5, <2>6, <2>7, <3>1 DEF Meant, WaitRecords
  <2> QED BY <2>3, <2>4, <2>7, <2>8, Unanswered, RequestMoves
<1>4. ASSUME NEW c \in Client, OutOfTime(c)
      PROVE  WaitInv'
  <2> DEFINE r == [wait[c] EXCEPT !.at = "drain", !.full = FALSE]
  <2>1. /\ r \in WaitRecords /\ r.at = "drain" /\ r.full = FALSE
        /\ r.kind = wait[c].kind /\ r.file = wait[c].file /\ r.already = wait[c].already
        /\ r.fresh = wait[c].fresh /\ r.rounds = wait[c].rounds
    BY <1>1 DEF WaitRecords, WaitStates
  <2>2. /\ wait' = [wait EXCEPT ![c] = r] /\ wait[c].at = "ingest"
        /\ reached' = NotReached /\ UNCHANGED <<setting, event>>
    BY <1>1, <1>4 DEF OutOfTime
  <2> HIDE DEF r
  <2>3. /\ wait' \in [Client -> WaitRecords] /\ wait'[c] = r
        /\ \A d \in Client \ {c} : wait'[d] = wait[d]
    BY <1>1, <2>1, <2>2
  <2>4. Meant(c)'
    BY <1>1, <2>1, <2>2, <2>3 DEF Meant, WaitRecords
  <2> QED BY <1>1, <2>2, <2>3, <2>4, Unanswered, RequestMoves
<1>5. ASSUME NEW c \in Client, PollUntilQuiet(c)
      PROVE  WaitInv'
  <2>1. wait[c].at = "drain" /\ wait[c].full \in BOOLEAN /\ UNCHANGED <<setting, event>>
    BY <1>1, <1>5 DEF PollUntilQuiet, WaitRecords
  <2>2. \/ wait[c].kind = "bootstrap" /\ Reach(c, FALSE, FALSE)
        \/ Pending = {} /\ Reach(c, TRUE, wait[c].full)
        \/ \E full \in {FALSE, wait[c].full} : Reach(c, FALSE, full)
    BY <1>5 DEF PollUntilQuiet
  <2> QED BY <1>1, <2>1, <2>2, ReachMoves
<1>6. ASSUME NEW c \in Client, DrainRound(c)
      PROVE  WaitInv'
  <2>1. wait[c].at = "drain" /\ wait[c].full \in BOOLEAN /\ UNCHANGED setting
    BY <1>1, <1>6 DEF DrainRound, DrainsItself, WaitRecords
  <2>2. CASE /\ Pending # {} /\ ClaimPending(c)
             /\ wait' = [wait EXCEPT ![c].at = "handle", ![c].rounds = @ + 1]
             /\ reached' = NotReached
    <3> DEFINE r == [wait[c] EXCEPT !.at = "handle", !.rounds = @ + 1]
    <3>1. wait[c].rounds + 1 \in 0..DrainRounds
      <4>1. wait[c].rounds \in 0..DrainRounds /\ wait[c].rounds < DrainRounds
        BY <1>1, <2>1 DEF Meant, WaitRecords
      <4> QED BY <4>1, Bounds
    <3>2. /\ r \in WaitRecords /\ r.at = "handle" /\ r.full = wait[c].full
          /\ r.kind = wait[c].kind /\ r.file = wait[c].file /\ r.already = wait[c].already
          /\ r.fresh = wait[c].fresh /\ r.failed = wait[c].failed
      BY <1>1, <3>1 DEF WaitRecords, WaitStates
    <3>3. wait' = [wait EXCEPT ![c] = r]
      BY <1>1, <2>2
    <3> HIDE DEF r
    <3>4. /\ wait' \in [Client -> WaitRecords] /\ wait'[c] = r
          /\ \A d \in Client \ {c} : wait'[d] = wait[d]
      BY <1>1, <3>2, <3>3
    <3>5. /\ event' \in [BootFile -> EventStates]
          /\ \A f \in BootFile : event[f] # "none" => event'[f] # "none"
      BY <2>2, EventsMove
    <3>6. Meant(c)'
      BY <1>1, <2>1, <3>2, <3>4, <3>5 DEF Meant, WaitRecords
    <3> QED BY <2>1, <2>2, <3>4, <3>5, <3>6, Unanswered, RequestMoves
  <2>3. CASE /\ wait[c].kind # "read" /\ UNCHANGED event
             /\ \/ Pending = {} /\ Reach(c, TRUE, wait[c].full)
                \/ \E full \in {FALSE, wait[c].full} : Reach(c, FALSE, full)
    BY <1>1, <2>1, <2>3, ReachMoves
  <2>4. CASE wait[c].kind = "read" /\ Now(c, "find again") /\ UNCHANGED event
    BY <1>1, <2>1, <2>4, NowMoves DEF WaitStates
  <2> QED BY <1>6, <2>2, <2>3, <2>4 DEF DrainRound
<1>7. ASSUME NEW c \in Client, DrainHandled(c)
      PROVE  WaitInv'
  <2>1. /\ event' \in [BootFile -> EventStates]
        /\ \A f \in BootFile : event[f] # "none" => event'[f] # "none"
    BY <1>7, EventsMove DEF DrainHandled
  <2>2. wait[c].at = "handle" /\ wait[c].full \in BOOLEAN /\ UNCHANGED setting
    BY <1>1, <1>7 DEF DrainHandled, WaitRecords
  <2>3. CASE wait[c].kind = "read"
    BY <1>7, <2>1, <2>2, <2>3, NowMoves DEF DrainHandled, WaitStates
  <2>4. CASE wait[c].kind # "read" /\ wait[c].rounds < DrainRounds
    BY <1>7, <2>1, <2>2, <2>4, NowMoves DEF DrainHandled, WaitStates
  <2>5. CASE wait[c].kind # "read" /\ ~(wait[c].rounds < DrainRounds)
    BY <1>7, <2>1, <2>2, <2>5, ReachMoves DEF DrainHandled
  <2> QED BY <2>3, <2>4, <2>5
<1>8. ASSUME NEW c \in Client, FindSnippet(c)
      PROVE  WaitInv'
  <2>1. wait[c].at = "find" /\ wait[c].kind = "read" /\ UNCHANGED setting
    BY <1>1, <1>8 DEF FindSnippet, Meant
  <2>2. CASE Ingested(wait[c].file) /\ reached' = NotReached
             /\ wait' = [wait EXCEPT ![c].fresh = wait[c].file, ![c].at = "drain"]
    <3> DEFINE r == [wait[c] EXCEPT !.fresh = wait[c].file, !.at = "drain"]
    <3>1. /\ r \in WaitRecords /\ r.at = "drain" /\ r.fresh = wait[c].file
          /\ r.file = wait[c].file /\ r.kind = "read" /\ r.rounds = wait[c].rounds
      BY <1>1, <2>1 DEF WaitRecords, WaitStates
    <3>2. wait' = [wait EXCEPT ![c] = r]
      BY <1>1, <2>2
    <3> HIDE DEF r
    <3>3. /\ wait' \in [Client -> WaitRecords] /\ wait'[c] = r
          /\ \A d \in Client \ {c} : wait'[d] = wait[d]
      BY <1>1, <3>1, <3>2
    <3>4. wait[c].file \in SUBSET BootFile
      BY <1>1 DEF WaitRecords
    <3>5. /\ event' \in [BootFile -> EventStates]
          /\ \A f \in BootFile : event[f] # "none" => event'[f] # "none"
          /\ \A f \in wait[c].file : event'[f] # "none"
      BY <2>2, <3>4, IngestedMoves
    <3>6. Meant(c)'
      BY <1>1, <2>1, <3>1, <3>3, <3>5 DEF Meant, WaitRecords
    <3> QED BY <2>1, <2>2, <3>3, <3>5, <3>6, Unanswered, RequestMoves
  <2>3. CASE (Reach(c, FALSE, TRUE) \/ Reach(c, FALSE, FALSE)) /\ UNCHANGED event
    BY <1>1, <2>1, <2>3, ReachMoves
  <2> QED BY <1>8, <2>2, <2>3 DEF FindSnippet
<1>9. ASSUME NEW c \in Client, FindAgain(c)
      PROVE  WaitInv'
  <2>1. wait[c].kind = "read" /\ UNCHANGED <<setting, event>>
    BY <1>1, <1>9 DEF FindAgain, Meant
  <2>2. (\A f \in wait[c].file : event[f] = "indexed") \in BOOLEAN
    OBVIOUS
  <2>3. Reach(c, TRUE, \A f \in wait[c].file : event[f] = "indexed")
    BY <1>9 DEF FindAgain
  <2> QED BY <1>1, <2>1, <2>2, <2>3, ReachMoves
<1>10. CASE Poller \/ DelayOver
  <2>1. UNCHANGED <<setting, wait>> /\ reached' = NotReached
    BY <1>10 DEF Poller, DelayOver
  <2>2. /\ event' \in [BootFile -> EventStates]
        /\ \A f \in BootFile : event[f] # "none" => event'[f] # "none"
    <3>1. CASE Poller
      BY <3>1, EventsMove DEF Poller
    <3>2. CASE DelayOver
      BY <1>1, <3>2 DEF DelayOver, EventStates
    <3> QED BY <1>10, <3>1, <3>2
  <2>3. WaitTypes' /\ CompleteIsQuiet'
    BY <1>1, <2>1, <2>2, Unanswered DEF WaitTypes
  <2>4. ASSUME NEW c \in Client PROVE Meant(c)'
    BY <1>1, <2>1, <2>2 DEF Meant, WaitRecords
  <2> QED BY <2>3, <2>4 DEF WaitInv
<1> QED BY <1>2, <1>3, <1>4, <1>5, <1>6, <1>7, <1>8, <1>9, <1>10 DEF WaitNext

\* Requests and events stay as they are meant.
THEOREM WaitMeant == WaitSpec => []WaitInv
<1>1. WaitInit => WaitInv
  <2> SUFFICES ASSUME WaitInit PROVE WaitInv
    OBVIOUS
  <2>1. /\ setting \in WaitSettings /\ event = [f \in BootFile |-> "none"]
        /\ wait = [c \in Client |-> NoWait] /\ reached = NotReached
    BY DEF WaitInit
  <2>2. WaitTypes
    BY <2>1, NoWaitTyped, Unanswered DEF WaitTypes, EventStates
  <2>3. NoWait.at = "idle"
    BY DEF NoWait
  <2>4. \A c \in Client : Meant(c)
    BY <2>1, <2>3, NoWaitTyped DEF Meant
  <2>5. reached.kind = "none"
    BY <2>1 DEF NotReached
  <2> QED BY <2>2, <2>4, <2>5 DEF WaitInv, CompleteIsQuiet
<1>2. WaitInv /\ UNCHANGED waitVars => WaitInv'
  BY DEF WaitInv, WaitTypes, Meant, CompleteIsQuiet, waitVars
<1> QED BY <1>1, <1>2, WaitMoves, PTL DEF WaitSpec

(***************************************************************************)
(* Every variable of the waiting requests keeps its type, for any files,   *)
(* any number of requests, and any batch size, cap and number of rounds.   *)
(***************************************************************************)
THEOREM WaitTypeCorrect == WaitSpec => []WaitTypeOK
<1>1. WaitInv => WaitTypeOK
  BY DEF WaitInv, WaitTypes, WaitTypeOK, WaitRecords, WaitStates, EventStates, Meant, Answered
<1> QED BY <1>1, WaitMeant, PTL

(***************************************************************************)
(* A full index that is reported is full, and an outbox that is reported   *)
(* quiet holds none of the request's events unclaimed, whatever else runs. *)
(***************************************************************************)
THEOREM FullIndexComplete == WaitSpec => []CompleteIsQuiet
BY WaitMeant, PTL DEF WaitInv

(***************************************************************************)
(* The launcher of the two servers.                                        *)
(***************************************************************************)
ProcStates == {"unused", "late agfs", "late rtc", "agfs", "rtc", "gone"}
Making == {"clear", "copy", "copying", "agfs"}
Starting == Making \cup {"files", "rtc", "check"}
Stopping == {"stop rtc", "stop agfs"}
CmdRecords ==
    [does : {"none", "hook", "mcp", "stop"},
     at : Starting \cup Stopping \cup {"idle", "serves"}, owns : BOOLEAN]
DiskRecords == [agfs : 0..MaxProcs, rtc : 0..MaxProcs, tree : {"none", "part", "whole"}]
PastRecords ==
    [commands : 0..MaxCommands, deaths : 0..MaxDeaths, overlap : BOOLEAN, cut : BOOLEAN,
     stopped : BOOLEAN]

LaunchTypes ==
    /\ procs \in [Procs -> ProcStates]
    /\ disk \in DiskRecords
    /\ cmd \in [Caller -> CmdRecords]
    /\ past \in PastRecords
    /\ \A c \in Caller : /\ cmd[c].owns => cmd[c].does = "mcp"
                         /\ cmd[c].at \in Stopping => cmd[c].does = "stop"

\* Both ports have one server at most.
OnePerPort ==
    /\ \A p, q \in Procs : procs[p] = "agfs" /\ procs[q] = "agfs" => p = q
    /\ \A p, q \in Procs : procs[p] = "rtc" /\ procs[q] = "rtc" => p = q

IsAgfs(p) == procs[p] \in {"agfs", "late agfs"}
IsRtc(p) == procs[p] \in {"rtc", "late rtc"}
AgfsUp == \E p \in Procs : IsAgfs(p)
RtcUp == \E p \in Procs : IsRtc(p)
Busy(c) == cmd[c].at \notin {"idle", "serves"}

(***************************************************************************)
(* As long as commands follow one another, no start was given up between   *)
(* its two servers and none died, the servers and their files agree, and   *)
(* between commands both run or none does: the next start then has either  *)
(* nothing to do or no id to write over.                                   *)
(***************************************************************************)
Calm == ~past.overlap /\ ~past.cut /\ past.deaths = 0

OneBusy == \A c, d \in Caller : Busy(c) /\ Busy(d) => c = d
Filed ==
    \A p \in Procs :
        /\ IsAgfs(p) => disk.agfs = p
        /\ IsRtc(p) => disk.rtc = p
        /\ disk.agfs = p => IsAgfs(p) \/ procs[p] = "gone"
        /\ disk.rtc = p => IsRtc(p) \/ procs[p] = "gone"
Staged ==
    \A c \in Caller :
        /\ cmd[c].at \in Making => ~AgfsUp
        /\ cmd[c].at \in Making \cup {"rtc", "stop agfs"} => ~RtcUp
        /\ cmd[c].at = "rtc" => AgfsUp
        /\ cmd[c].at \in {"agfs", "rtc"} => disk.tree = "whole"
InPairs ==
    /\ (\A c \in Caller : cmd[c].at \notin {"rtc", "stop agfs"}) => (AgfsUp <=> RtcUp)
    /\ RtcUp => disk.tree = "whole"
Orderly == OneBusy /\ Filed /\ Staged /\ InPairs

LaunchInv == LaunchTypes /\ OnePerPort /\ (Calm => Orderly)

LEMMA Smallest ==
  ASSUME NEW T \in SUBSET Nat, T # {}
  PROVE  \E x \in T : \A y \in T : x <= y
<1> DEFINE R == {ss \in Nat \X Nat : ss[1] < ss[2]}
<1>1. IsWellFoundedOn(R, Nat)
  BY NatLessThanWellFounded DEF OpToRel
<1> HIDE DEF R
<1>2. PICK x \in T : \A y \in T : ~ (<<y, x>> \in R)
  BY <1>1, WFMin
<1>3. ASSUME NEW y \in T PROVE x <= y
  <2>1. ~ (<<y, x>> \in R)
    BY <1>2
  <2> QED BY <2>1 DEF R
<1> QED BY <1>3

\* Which ids are of live processes, as the files have them.
LEMMA PidsAlive ==
  ASSUME LaunchTypes, Filed
  PROVE  /\ PidAlive(disk.agfs) <=> AgfsUp
         /\ PidAlive(disk.rtc) <=> RtcUp
<1>1. disk.agfs \in 0..MaxProcs /\ disk.rtc \in 0..MaxProcs
  BY DEF LaunchTypes, DiskRecords
<1>2. /\ disk.agfs # 0 => disk.agfs \in Procs
      /\ disk.rtc # 0 => disk.rtc \in Procs
  BY <1>1, LauncherAssumption DEF Procs
<1>3. 0 \notin Procs
  BY LauncherAssumption DEF Procs
<1> QED BY <1>2, <1>3 DEF PidAlive, AgfsUp, RtcUp, Filed, IsAgfs, IsRtc, Servers

LEMMA GoesOn ==
  ASSUME LaunchTypes, NEW c \in Caller, NEW at \in Starting \cup Stopping \cup {"idle", "serves"},
         Goes(c, at), at \in Stopping => cmd[c].at \in Stopping
  PROVE  /\ cmd' \in [Caller -> CmdRecords] /\ cmd'[c].at = at
         /\ \A d \in Caller \ {c} : cmd'[d] = cmd[d]
         /\ \A d \in Caller : /\ cmd'[d].owns => cmd'[d].does = "mcp"
                              /\ cmd'[d].at \in Stopping => cmd'[d].does = "stop"
<1> DEFINE r == [cmd[c] EXCEPT !.at = at]
<1>1. cmd \in [Caller -> CmdRecords] /\ cmd[c] \in CmdRecords
  BY DEF LaunchTypes
<1>2. r \in CmdRecords /\ r.at = at /\ r.does = cmd[c].does /\ r.owns = cmd[c].owns
  BY <1>1 DEF CmdRecords
<1>3. cmd' = [cmd EXCEPT ![c] = r]
  BY <1>1 DEF Goes
<1> HIDE DEF r
<1>4. /\ cmd' \in [Caller -> CmdRecords] /\ cmd'[c] = r
      /\ \A d \in Caller \ {c} : cmd'[d] = cmd[d]
  BY <1>1, <1>2, <1>3
<1> QED BY <1>2, <1>4 DEF LaunchTypes

LEMMA NoCommandTyped ==
  NoCommand \in CmdRecords /\ NoCommand.at = "idle" /\ NoCommand.owns = FALSE
BY DEF NoCommand, CmdRecords

LEMMA CommandEnds ==
  ASSUME LaunchTypes, NEW c \in Caller, NEW r \in CmdRecords, cmd' = [cmd EXCEPT ![c] = r],
         r.owns => r.does = "mcp", r.at \in Stopping => r.does = "stop"
  PROVE  /\ cmd' \in [Caller -> CmdRecords] /\ cmd'[c] = r
         /\ \A d \in Caller \ {c} : cmd'[d] = cmd[d]
         /\ \A d \in Caller : /\ cmd'[d].owns => cmd'[d].does = "mcp"
                              /\ cmd'[d].at \in Stopping => cmd'[d].does = "stop"
BY DEF LaunchTypes

LEMMA Finishes ==
  ASSUME LaunchTypes, NEW c \in Caller, NEW code \in {0, 1}, Finished(c, code)
  PROVE  /\ cmd' \in [Caller -> CmdRecords] /\ cmd'[c].at \in {"idle", "serves"}
         /\ \A d \in Caller \ {c} : cmd'[d] = cmd[d]
         /\ \A d \in Caller : /\ cmd'[d].owns => cmd'[d].does = "mcp"
                              /\ cmd'[d].at \in Stopping => cmd'[d].does = "stop"
<1> DEFINE r == IF cmd[c].does = "mcp" /\ code = 0
                THEN [cmd[c] EXCEPT !.at = "serves", !.owns = TRUE] ELSE NoCommand
<1>1. cmd[c] \in CmdRecords
  BY DEF LaunchTypes
<1>2. /\ r \in CmdRecords /\ r.at \in {"idle", "serves"}
      /\ r.owns => r.does = "mcp"
  <2>1. CASE cmd[c].does = "mcp" /\ code = 0
    BY <1>1, <2>1 DEF CmdRecords
  <2>2. CASE ~(cmd[c].does = "mcp" /\ code = 0)
    BY <2>2, NoCommandTyped
  <2> QED BY <2>1, <2>2
<1>3. cmd' = [cmd EXCEPT ![c] = r]
  BY DEF Finished
<1> HIDE DEF r
<1>4. r.at \notin Stopping
  BY <1>2 DEF Stopping
<1> QED BY <1>2, <1>3, <1>4, CommandEnds
LEMMA PastBegins ==
  ASSUME LaunchTypes, past.commands < MaxCommands,
         past' = [past EXCEPT !.commands = @ + 1, !.stopped = FALSE,
             !.overlap = @ \/ \E d \in Caller : cmd[d].at \notin {"idle", "serves"}]
  PROVE  /\ past' \in PastRecords
         /\ Calm' => Calm /\ \A d \in Caller : ~Busy(d)
<1> DEFINE overlap == past.overlap \/ \E d \in Caller : cmd[d].at \notin {"idle", "serves"}
<1>1. past \in PastRecords /\ overlap \in BOOLEAN
  BY DEF LaunchTypes
<1>2. past' = [past EXCEPT !.commands = @ + 1, !.stopped = FALSE, !.overlap = overlap]
  OBVIOUS
<1>3. overlap => past.overlap \/ \E d \in Caller : Busy(d)
  BY DEF Busy
<1>4. past.overlap \/ (\E d \in Caller : Busy(d)) => overlap
  BY DEF Busy
<1> HIDE DEF overlap
<1>5. past.commands + 1 \in 0..MaxCommands
  <2>1. past.commands \in 0..MaxCommands
    BY <1>1 DEF PastRecords
  <2> QED BY <2>1, LauncherAssumption
<1>6. /\ past' \in PastRecords /\ past'.overlap = overlap /\ past'.cut = past.cut
      /\ past'.deaths = past.deaths
  BY <1>1, <1>2, <1>5 DEF PastRecords
<1> QED BY <1>4, <1>6 DEF Calm

LEMMA TypesKept ==
  ASSUME procs' \in [Procs -> ProcStates],
         disk' \in DiskRecords,
         cmd' \in [Caller -> CmdRecords], past' \in PastRecords,
         \A d \in Caller : /\ cmd'[d].owns => cmd'[d].does = "mcp"
                           /\ cmd'[d].at \in Stopping => cmd'[d].does = "stop"
  PROVE  LaunchTypes'
BY DEF LaunchTypes, Stopping

\* Only the steps of commands: no server starts, ends or is noted.
LEMMA CommandMoves ==
  ASSUME LaunchInv, NEW c \in Caller, UNCHANGED procs,
         disk' \in DiskRecords,
         disk'.agfs = disk.agfs, disk'.rtc = disk.rtc,
         past' \in PastRecords, Calm' => Calm,
         cmd' \in [Caller -> CmdRecords], \A d \in Caller \ {c} : cmd'[d] = cmd[d],
         \A d \in Caller : /\ cmd'[d].owns => cmd'[d].does = "mcp"
                           /\ cmd'[d].at \in Stopping => cmd'[d].does = "stop",
         Calm' => \/ Busy(c) \/ ~Busy(c)'
                  \/ \A d \in Caller : ~Busy(d),
         Calm' /\ Orderly => (RtcUp => disk'.tree = "whole"),
         Calm' /\ Orderly =>
             /\ cmd'[c].at \in Making => ~AgfsUp
             /\ cmd'[c].at \in Making \cup {"rtc", "stop agfs"} => ~RtcUp
             /\ cmd'[c].at = "rtc" => AgfsUp
             /\ cmd'[c].at \in {"agfs", "rtc"} => disk'.tree = "whole",
         Calm' /\ Orderly /\ (\E d \in Caller \ {c} : Busy(d)) => disk'.tree = disk.tree,
         Calm' /\ Orderly /\ cmd[c].at \in {"rtc", "stop agfs"} => (AgfsUp <=> RtcUp)
  PROVE  LaunchInv'
<1>1. LaunchTypes' /\ OnePerPort'
  <2>1. LaunchTypes'
    <3>1. procs' \in [Procs -> ProcStates]
      BY DEF LaunchInv, LaunchTypes
    <3> QED BY <3>1, TypesKept
  <2>2. OnePerPort'
    BY DEF LaunchInv, OnePerPort
  <2> QED BY <2>1, <2>2
<1>2. ASSUME Calm' PROVE Orderly'
  <2>1. Calm /\ Orderly
    BY <1>2 DEF LaunchInv
  <2>2. (AgfsUp' <=> AgfsUp) /\ (RtcUp' <=> RtcUp)
    BY DEF AgfsUp, RtcUp, IsAgfs, IsRtc
  <2>3. OneBusy'
    BY <1>2, <2>1 DEF Orderly, OneBusy, Busy
  <2>4. Filed'
    BY <2>1 DEF Orderly, Filed, IsAgfs, IsRtc
  <2>5. ASSUME NEW d \in Caller \ {c}
        PROVE  /\ cmd'[d].at \in Making => ~AgfsUp
               /\ cmd'[d].at \in Making \cup {"rtc", "stop agfs"} => ~RtcUp
               /\ cmd'[d].at = "rtc" => AgfsUp
               /\ cmd'[d].at \in {"agfs", "rtc"} => disk'.tree = "whole"
    <3>1. cmd'[d] = cmd[d]
      OBVIOUS
    <3>2. cmd[d].at \in {"agfs", "rtc"} => Busy(d)
      BY DEF Busy
    <3> QED BY <1>2, <2>1, <3>1, <3>2 DEF Orderly, Staged
  <2>6. Staged'
    BY <1>2, <2>1, <2>2, <2>5 DEF Staged
  <2>7. InPairs'
    <3>1. RtcUp' => disk'.tree = "whole"
      BY <1>2, <2>1, <2>2
    <3>2. ASSUME \A d \in Caller : cmd'[d].at \notin {"rtc", "stop agfs"}
          PROVE  AgfsUp <=> RtcUp
      <4>1. CASE cmd[c].at \in {"rtc", "stop agfs"}
        BY <1>2, <2>1, <4>1
      <4>2. CASE cmd[c].at \notin {"rtc", "stop agfs"}
        <5>1. \A d \in Caller : cmd[d].at \notin {"rtc", "stop agfs"}
          BY <3>2, <4>2
        <5> QED BY <2>1, <5>1 DEF Orderly, InPairs
      <4> QED BY <4>1, <4>2
    <3> QED BY <2>2, <3>1, <3>2 DEF InPairs
  <2> QED BY <2>3, <2>4, <2>6, <2>7 DEF Orderly
<1> QED BY <1>1, <1>2 DEF LaunchInv

\* A command, from its beginning to its end.
LEMMA CommandSteps ==
  ASSUME LaunchInv, NEW c \in Caller,
         \/ \E does \in {"hook", "mcp", "stop"} : BeginCommand(c, does)
         \/ ReadPidFiles(c) \/ ClearTree(c) \/ BeginCopy(c) \/ EndCopy(c)
         \/ CheckStarted(c) \/ StartTimesOut(c) \/ EndServing(c)
  PROVE  LaunchInv'
<1>1. /\ LaunchTypes /\ cmd \in [Caller -> CmdRecords] /\ cmd[c] \in CmdRecords
      /\ past \in PastRecords
      /\ disk \in DiskRecords
  BY DEF LaunchInv, LaunchTypes
<1> USE DEF Making, Starting, Stopping
<1>2. ASSUME NEW r \in CmdRecords, cmd' = [cmd EXCEPT ![c] = r], r.owns = FALSE,
             r.at \in {"files", "stop rtc"}, r.at = "stop rtc" => r.does = "stop",
             UNCHANGED <<procs, disk>>, past.commands < MaxCommands,
             past' = [past EXCEPT !.commands = @ + 1, !.stopped = FALSE,
               !.overlap = @ \/ \E d \in Caller : cmd[d].at \notin {"idle", "serves"}]
      PROVE  LaunchInv'
  <2>1. /\ past' \in PastRecords
        /\ Calm' => Calm /\ \A d \in Caller : ~Busy(d)
    BY <1>1, <1>2, PastBegins
  <2>2. /\ cmd' \in [Caller -> CmdRecords] /\ cmd'[c] = r
        /\ \A d \in Caller \ {c} : cmd'[d] = cmd[d]
        /\ \A d \in Caller : /\ cmd'[d].owns => cmd'[d].does = "mcp"
                             /\ cmd'[d].at \in Stopping => cmd'[d].does = "stop"
    BY <1>1, <1>2, CommandEnds
  <2>3. Calm' => cmd[c].at \notin {"rtc", "stop agfs"}
    BY <2>1 DEF Busy
  <2>4. Orderly => (RtcUp => disk.tree = "whole")
    BY DEF Orderly, InPairs
  <2> QED BY <1>1, <1>2, <2>1, <2>2, <2>3, <2>4, CommandMoves
<1>3. ASSUME NEW does \in {"hook", "mcp", "stop"}, BeginCommand(c, does)
      PROVE  LaunchInv'
  <2> DEFINE r == [does |-> does, owns |-> FALSE,
                   at |-> IF does = "stop" THEN "stop rtc" ELSE "files"]
  <2>1. /\ r \in CmdRecords /\ r.owns = FALSE /\ r.at \in {"files", "stop rtc"}
        /\ r.at = "stop rtc" => r.does = "stop"
    BY DEF CmdRecords
  <2>2. cmd' = [cmd EXCEPT ![c] = r]
    BY <1>3 DEF BeginCommand
  <2> HIDE DEF r
  <2> QED BY <1>2, <1>3, <2>1, <2>2 DEF BeginCommand
<1>4. CASE EndServing(c)
  <2> DEFINE r == [does |-> "stop", at |-> "stop rtc", owns |-> FALSE]
  <2>1. /\ r \in CmdRecords /\ r.owns = FALSE /\ r.at = "stop rtc" /\ r.does = "stop"
    BY DEF CmdRecords
  <2>2. cmd' = [cmd EXCEPT ![c] = r]
    BY <1>4 DEF EndServing
  <2> HIDE DEF r
  <2> QED BY <1>2, <1>4, <2>1, <2>2 DEF EndServing
<1>5. ASSUME Orderly PROVE Filed /\ Staged /\ InPairs /\ OneBusy
  BY <1>5 DEF Orderly
<1>6. CASE ReadPidFiles(c)
  <2>1. cmd[c].at = "files" /\ UNCHANGED <<procs, disk, past>> /\ (Calm' <=> Calm)
    BY <1>6 DEF ReadPidFiles, Calm
  <2>2. CASE Finished(c, 0)
    BY <1>1, <1>5, <2>1, <2>2, Finishes, CommandMoves DEF Busy, InPairs
  <2>3. CASE ~(PidAlive(disk.rtc) /\ PidAlive(disk.agfs)) /\ Goes(c, "clear")
    <3>1. ASSUME Calm, Orderly PROVE ~AgfsUp /\ ~RtcUp
      <4>1. ~(AgfsUp /\ RtcUp)
        BY <1>1, <1>5, <2>3, <3>1, PidsAlive
      <4>2. \A d \in Caller : cmd[d].at \notin {"rtc", "stop agfs"}
        BY <1>5, <2>1, <3>1 DEF OneBusy, Busy
      <4> QED BY <1>5, <3>1, <4>1, <4>2 DEF InPairs
    <3>2. /\ cmd' \in [Caller -> CmdRecords] /\ cmd'[c].at = "clear"
          /\ \A d \in Caller \ {c} : cmd'[d] = cmd[d]
          /\ \A d \in Caller : /\ cmd'[d].owns => cmd'[d].does = "mcp"
                               /\ cmd'[d].at \in Stopping => cmd'[d].does = "stop"
      BY <1>1, <2>1, <2>3, GoesOn
    <3> QED BY <1>1, <1>5, <2>1, <3>1, <3>2, CommandMoves DEF Busy
  <2> QED BY <1>6, <2>2, <2>3 DEF ReadPidFiles
<1>7. CASE ClearTree(c)
  <2>1. /\ cmd[c].at = "clear" /\ UNCHANGED <<procs, past>> /\ (Calm' <=> Calm)
        /\ Goes(c, "copy") /\ disk' = [disk EXCEPT !.tree = "none"]
    BY <1>7 DEF ClearTree, Calm
  <2>2. /\ disk'.agfs = disk.agfs /\ disk'.rtc = disk.rtc
        /\ disk' \in DiskRecords
    BY <1>1, <2>1 DEF DiskRecords
  <2>3. Orderly => ~AgfsUp /\ ~RtcUp /\ ~\E d \in Caller \ {c} : Busy(d)
    BY <1>5, <2>1 DEF Staged, OneBusy, Busy
  <2>4. /\ cmd' \in [Caller -> CmdRecords] /\ cmd'[c].at = "copy"
        /\ \A d \in Caller \ {c} : cmd'[d] = cmd[d]
        /\ \A d \in Caller : /\ cmd'[d].owns => cmd'[d].does = "mcp"
                             /\ cmd'[d].at \in Stopping => cmd'[d].does = "stop"
    BY <1>1, <2>1, GoesOn
  <2> QED BY <1>1, <2>1, <2>2, <2>3, <2>4, CommandMoves DEF Busy
<1>8. CASE BeginCopy(c)
  <2>1. cmd[c].at = "copy" /\ UNCHANGED <<procs, past>> /\ (Calm' <=> Calm)
    BY <1>8 DEF BeginCopy, Calm
  <2>2. Orderly => ~AgfsUp /\ ~RtcUp /\ ~\E d \in Caller \ {c} : Busy(d)
    BY <1>5, <2>1 DEF Staged, OneBusy, Busy
  <2>3. CASE disk' = [disk EXCEPT !.tree = "part"] /\ Goes(c, "copying")
    <3>1. /\ disk'.agfs = disk.agfs /\ disk'.rtc = disk.rtc
          /\ disk' \in DiskRecords
      BY <1>1, <2>3 DEF DiskRecords
    <3>2. /\ cmd' \in [Caller -> CmdRecords] /\ cmd'[c].at = "copying"
          /\ \A d \in Caller \ {c} : cmd'[d] = cmd[d]
          /\ \A d \in Caller : /\ cmd'[d].owns => cmd'[d].does = "mcp"
                               /\ cmd'[d].at \in Stopping => cmd'[d].does = "stop"
      BY <1>1, <2>1, <2>3, GoesOn
    <3> QED BY <1>1, <2>1, <2>2, <3>1, <3>2, CommandMoves DEF Busy
  <2>4. CASE Finished(c, 1) /\ UNCHANGED disk
    BY <1>1, <2>1, <2>2, <2>4, Finishes, CommandMoves DEF Busy
  <2> QED BY <1>8, <2>3, <2>4 DEF BeginCopy
<1>9. CASE EndCopy(c)
  <2>1. cmd[c].at = "copying" /\ UNCHANGED <<procs, past>> /\ (Calm' <=> Calm)
    BY <1>9 DEF EndCopy, Calm
  <2>2. Orderly => ~AgfsUp /\ ~RtcUp /\ ~\E d \in Caller \ {c} : Busy(d)
    BY <1>5, <2>1 DEF Staged, OneBusy, Busy
  <2>3. CASE disk' = [disk EXCEPT !.tree = "whole"] /\ Goes(c, "agfs")
    <3>1. /\ disk'.agfs = disk.agfs /\ disk'.rtc = disk.rtc /\ disk'.tree = "whole"
          /\ disk' \in DiskRecords
      BY <1>1, <2>3 DEF DiskRecords
    <3>2. /\ cmd' \in [Caller -> CmdRecords] /\ cmd'[c].at = "agfs"
          /\ \A d \in Caller \ {c} : cmd'[d] = cmd[d]
          /\ \A d \in Caller : /\ cmd'[d].owns => cmd'[d].does = "mcp"
                               /\ cmd'[d].at \in Stopping => cmd'[d].does = "stop"
      BY <1>1, <2>1, <2>3, GoesOn
    <3> QED BY <1>1, <2>1, <2>2, <3>1, <3>2, CommandMoves DEF Busy
  <2>4. CASE Finished(c, 1) /\ UNCHANGED disk
    BY <1>1, <2>1, <2>2, <2>4, Finishes, CommandMoves DEF Busy
  <2> QED BY <1>9, <2>3, <2>4 DEF EndCopy
<1>10. CASE CheckStarted(c)
  <2>1. cmd[c].at = "check" /\ UNCHANGED <<procs, disk, past>> /\ (Calm' <=> Calm)
    BY <1>10 DEF CheckStarted, Calm
  <2>2. Finished(c, 0) \/ Finished(c, 1)
    BY <1>10 DEF CheckStarted
  <2> QED BY <1>1, <1>5, <2>1, <2>2, Finishes, CommandMoves DEF Busy, InPairs
<1>11. CASE StartTimesOut(c)
  <2>1. /\ cmd[c].at # "idle" /\ cmd[c].does = "hook" /\ UNCHANGED <<procs, disk>>
        /\ cmd' = [cmd EXCEPT ![c] = NoCommand]
    BY <1>11 DEF StartTimesOut
  <2> DEFINE cut == past.cut \/ cmd[c].at = "rtc"
  <2>2. cut \in BOOLEAN /\ (~cut => ~past.cut /\ cmd[c].at # "rtc")
    BY <1>1 DEF PastRecords
  <2>3. past' = [past EXCEPT !.cut = cut]
    BY <1>11 DEF StartTimesOut
  <2> HIDE DEF cut
  <2>4. past' \in PastRecords /\ (Calm' => Calm /\ cmd[c].at # "rtc")
    BY <1>1, <2>2, <2>3 DEF PastRecords, Calm
  <2>5. cmd[c].at # "stop agfs"
    BY <1>1, <2>1 DEF LaunchTypes
  <2>6. /\ cmd' \in [Caller -> CmdRecords] /\ cmd'[c] = NoCommand
        /\ \A d \in Caller \ {c} : cmd'[d] = cmd[d]
        /\ \A d \in Caller : /\ cmd'[d].owns => cmd'[d].does = "mcp"
                             /\ cmd'[d].at \in Stopping => cmd'[d].does = "stop"
    BY <1>1, <2>1, NoCommandTyped, CommandEnds
  <2> QED BY <1>1, <1>5, <2>1, <2>4, <2>5, <2>6, NoCommandTyped, CommandMoves DEF Busy, InPairs
<1> QED BY <1>3, <1>4, <1>6, <1>7, <1>8, <1>9, <1>10, <1>11

\* The lowest id that was never used.
LEMMA FreshId ==
  ASSUME LaunchTypes, Unused # {}
  PROVE  LET p == CHOOSE q \in Unused : \A r \in Unused : q <= r
         IN  p \in Procs /\ procs[p] = "unused"
<1>1. Unused \in SUBSET Nat
  BY LauncherAssumption DEF Unused, Procs
<1>2. \E q \in Unused : \A r \in Unused : q <= r
  BY <1>1, Smallest
<1> QED BY <1>2 DEF Unused

\* A server is started or stopped: one process, its id, and the command.
LEMMA ServerSteps ==
  ASSUME LaunchInv, NEW c \in Caller, NEW server \in Servers,
         SpawnServer(c, server) \/ StopServer(c, server)
  PROVE  LaunchInv'
<1>1. /\ LaunchTypes /\ cmd \in [Caller -> CmdRecords] /\ cmd[c] \in CmdRecords
      /\ past \in PastRecords /\ procs \in [Procs -> ProcStates]
      /\ disk \in DiskRecords
      /\ OnePerPort
  BY DEF LaunchInv, LaunchTypes
<1> USE DEF Making, Starting, Stopping
<1>2. ASSUME Calm' PROVE Calm /\ Filed /\ Staged /\ InPairs /\ OneBusy
  <2>1. past'.overlap = past.overlap /\ past'.cut = past.cut /\ past'.deaths = past.deaths
    BY <1>1 DEF SpawnServer, StopServer, PastRecords
  <2> QED BY <1>2, <2>1 DEF Calm, LaunchInv, Orderly
<1>3. past' \in PastRecords
  <2>1. CASE SpawnServer(c, server)
    BY <1>1, <2>1 DEF SpawnServer
  <2>2. CASE StopServer(c, server)
    <3>1. (server = "agfs") \in BOOLEAN
      OBVIOUS
    <3> QED BY <1>1, <2>2, <3>1 DEF StopServer, PastRecords
  <2> QED BY <2>1, <2>2
<1>4. CASE SpawnServer(c, server)
  <2> DEFINE p == CHOOSE q \in Unused : \A r \in Unused : q <= r
             next == IF server = "agfs" THEN "rtc" ELSE "check"
             late == IF server = "agfs" THEN "late agfs" ELSE "late rtc"
  <2>1. p \in Procs /\ procs[p] = "unused"
    BY <1>1, <1>4, FreshId DEF SpawnServer
  <2>2. /\ cmd[c].at = server
        /\ procs' = [procs EXCEPT ![p] = late]
        /\ disk' = IF server = "agfs" THEN [disk EXCEPT !.agfs = p] ELSE [disk EXCEPT !.rtc = p]
        /\ Goes(c, next)
    BY <1>4 DEF SpawnServer
  <2>3. /\ late \in ProcStates /\ next \in {"rtc", "check"}
        /\ server = "agfs" => late = "late agfs" /\ next = "rtc"
        /\ server = "rtc" => late = "late rtc" /\ next = "check"
    BY DEF ProcStates
  <2>4. p \in 0..MaxProcs
    BY <2>1, LauncherAssumption DEF Procs
  <2>5. /\ cmd' \in [Caller -> CmdRecords] /\ cmd'[c].at = next
        /\ \A d \in Caller \ {c} : cmd'[d] = cmd[d]
        /\ \A d \in Caller : /\ cmd'[d].owns => cmd'[d].does = "mcp"
                             /\ cmd'[d].at \in Stopping => cmd'[d].does = "stop"
    BY <1>1, <2>2, <2>3, GoesOn
  <2> HIDE DEF p, late, next
  <2>6. procs' \in [Procs -> ProcStates] /\ procs'[p] = late
        /\ \A q \in Procs \ {p} : procs'[q] = procs[q]
    BY <1>1, <2>1, <2>2, <2>3
  <2>7. /\ disk' \in DiskRecords
        /\ disk'.tree = disk.tree
        /\ disk'.agfs = IF server = "agfs" THEN p ELSE disk.agfs
        /\ disk'.rtc = IF server = "agfs" THEN disk.rtc ELSE p
    BY <1>1, <2>2, <2>4 DEF DiskRecords
  <2>8. LaunchTypes'
    BY <1>3, <2>5, <2>6, <2>7 DEF LaunchTypes
  <2>9. OnePerPort'
    BY <1>1, <2>3, <2>6 DEF OnePerPort, Servers
  <2>10. ASSUME Calm' PROVE Orderly'
    <3>1. /\ Filed /\ Staged /\ InPairs /\ OneBusy /\ Busy(c)
      BY <1>2, <2>2, <2>10 DEF Busy, Servers
    <3>2. OneBusy' /\ \A d \in Caller \ {c} : cmd'[d].at \in {"idle", "serves"}
      BY <2>5, <3>1 DEF OneBusy, Busy
    <3>3. CASE server = "agfs"
      <4>1. ~AgfsUp /\ ~RtcUp /\ disk.tree = "whole"
        <5>1. cmd[c].at = "agfs"
          BY <2>2, <3>3
        <5> QED BY <3>1, <5>1 DEF Staged
      <4>2. AgfsUp' /\ ~RtcUp'
        BY <2>1, <2>3, <2>6, <3>3, <4>1 DEF AgfsUp, RtcUp, IsAgfs, IsRtc
      <4>3. Filed'
        BY <2>1, <2>3, <2>6, <2>7, <3>1, <3>3, <4>1 DEF Filed, AgfsUp, RtcUp, IsAgfs, IsRtc
      <4>4. Staged' /\ InPairs'
        BY <2>3, <2>5, <2>7, <3>2, <3>3, <4>1, <4>2 DEF Staged, InPairs
      <4> QED BY <3>2, <4>3, <4>4 DEF Orderly
    <3>4. CASE server = "rtc"
      <4>1. AgfsUp /\ ~RtcUp /\ disk.tree = "whole"
        <5>1. cmd[c].at = "rtc"
          BY <2>2, <3>4
        <5> QED BY <3>1, <5>1 DEF Staged
      <4>2. AgfsUp' /\ RtcUp'
        BY <2>1, <2>3, <2>6, <3>4, <4>1 DEF AgfsUp, RtcUp, IsAgfs, IsRtc
      <4>3. Filed'
        <5>1. \A q \in Procs : /\ IsAgfs(q)' <=> IsAgfs(q)
                               /\ IsRtc(q)' <=> q = p
          BY <2>1, <2>3, <2>6, <3>4, <4>1 DEF RtcUp, IsAgfs, IsRtc
        <5>2. disk'.agfs = disk.agfs /\ disk'.rtc = p
          BY <2>7, <3>4
        <5>3. \A q \in Procs : disk.agfs = q => q # p
          BY <2>1, <3>1 DEF Filed, IsAgfs
        <5>4. ASSUME NEW q \in Procs
              PROVE  /\ IsAgfs(q)' => disk'.agfs = q
                     /\ IsRtc(q)' => disk'.rtc = q
                     /\ disk'.agfs = q => IsAgfs(q)' \/ procs'[q] = "gone"
                     /\ disk'.rtc = q => IsRtc(q)' \/ procs'[q] = "gone"
          <6>1. q # p => procs'[q] = procs[q]
            BY <2>6
          <6>2. /\ IsAgfs(q) => disk.agfs = q
                /\ disk.agfs = q => IsAgfs(q) \/ procs[q] = "gone"
            BY <3>1 DEF Filed
          <6> QED BY <5>1, <5>2, <5>3, <6>1, <6>2 DEF IsAgfs, IsRtc
        <5> QED BY <5>4 DEF Filed
      <4>4. Staged' /\ InPairs'
        BY <2>3, <2>5, <2>7, <3>2, <3>4, <4>1, <4>2 DEF Staged, InPairs
      <4> QED BY <3>2, <4>3, <4>4 DEF Orderly
    <3> QED BY <3>3, <3>4 DEF Servers
  <2> QED BY <2>8, <2>9, <2>10 DEF LaunchInv
<1>5. CASE StopServer(c, server)
  <2> DEFINE p == IF server = "rtc" THEN disk.rtc ELSE disk.agfs
  <2>1. /\ cmd[c].at = IF server = "rtc" THEN "stop rtc" ELSE "stop agfs"
        /\ procs' = IF PidAlive(p) THEN [procs EXCEPT ![p] = "gone"] ELSE procs
        /\ disk' = IF server = "rtc" THEN [disk EXCEPT !.rtc = 0] ELSE [disk EXCEPT !.agfs = 0]
        /\ IF server = "rtc" THEN Goes(c, "stop agfs") ELSE cmd' = [cmd EXCEPT ![c] = NoCommand]
    BY <1>5 DEF StopServer
  <2>2. /\ cmd' \in [Caller -> CmdRecords]
        /\ cmd'[c].at = IF server = "rtc" THEN "stop agfs" ELSE "idle"
        /\ \A d \in Caller \ {c} : cmd'[d] = cmd[d]
        /\ \A d \in Caller : /\ cmd'[d].owns => cmd'[d].does = "mcp"
                             /\ cmd'[d].at \in Stopping => cmd'[d].does = "stop"
    <3>1. CASE server = "rtc"
      <4>1. Goes(c, "stop agfs") /\ cmd[c].at = "stop rtc"
        BY <2>1, <3>1
      <4> QED BY <1>1, <3>1, <4>1, GoesOn
    <3>2. CASE server # "rtc"
      BY <1>1, <2>1, <3>2, NoCommandTyped, CommandEnds
    <3> QED BY <3>1, <3>2
  <2>3. p \in 0..MaxProcs /\ (p # 0 => p \in Procs)
    BY <1>1, LauncherAssumption DEF Procs, DiskRecords
  <2> HIDE DEF p
  <2>4. /\ procs' \in [Procs -> ProcStates]
        /\ \A q \in Procs : procs'[q] = IF q = p /\ PidAlive(q) THEN "gone" ELSE procs[q]
    BY <1>1, <2>1, <2>3 DEF ProcStates, PidAlive
  <2>5. 0 \in 0..MaxProcs
    BY LauncherAssumption
  <2>6. /\ disk' \in DiskRecords
        /\ disk'.tree = disk.tree
        /\ disk'.agfs = IF server = "rtc" THEN disk.agfs ELSE 0
        /\ disk'.rtc = IF server = "rtc" THEN 0 ELSE disk.rtc
    BY <1>1, <2>1, <2>5 DEF DiskRecords
  <2>7. LaunchTypes'
    BY <1>3, <2>2, <2>4, <2>6 DEF LaunchTypes
  <2>8. OnePerPort'
    BY <1>1, <2>4 DEF OnePerPort
  <2>9. ASSUME Calm' PROVE Orderly'
    <3>1. /\ Filed /\ Staged /\ InPairs /\ OneBusy /\ Busy(c)
      BY <1>2, <2>1, <2>9 DEF Busy
    <3>2. OneBusy' /\ \A d \in Caller \ {c} : cmd'[d].at \in {"idle", "serves"}
      BY <2>2, <3>1 DEF OneBusy, Busy
    <3>3. 0 \notin Procs
      BY LauncherAssumption DEF Procs
    <3>4. \A q \in Procs : IsAgfs(q) \/ IsRtc(q) => PidAlive(q)
      BY <3>3 DEF IsAgfs, IsRtc, PidAlive, Servers
    <3>5. CASE server = "rtc"
      <4>1. p = disk.rtc /\ \A q \in Procs : IsAgfs(q) => q # p
        BY <3>1, <3>5 DEF p, Filed, IsAgfs, IsRtc
      <4>2. \A q \in Procs : (IsAgfs(q)' <=> IsAgfs(q)) /\ ~IsRtc(q)'
        BY <2>4, <3>1, <3>4, <4>1 DEF Filed, IsAgfs, IsRtc
      <4>3. Filed'
        BY <2>4, <2>6, <3>1, <3>3, <3>5, <4>2 DEF Filed, IsAgfs, IsRtc
      <4>4. ~RtcUp'
        BY <4>2 DEF RtcUp
      <4>5. Staged' /\ InPairs'
        BY <2>2, <3>2, <3>5, <4>4 DEF Staged, InPairs
      <4> QED BY <3>2, <4>3, <4>5 DEF Orderly
    <3>6. CASE server = "agfs"
      <4>1. p = disk.agfs /\ ~RtcUp
        BY <2>1, <3>1, <3>6 DEF p, Staged
      <4>2. \A q \in Procs : ~IsAgfs(q)' /\ ~IsRtc(q)'
        BY <2>4, <3>1, <3>4, <4>1 DEF Filed, RtcUp, IsAgfs, IsRtc
      <4>3. Filed'
        BY <2>4, <2>6, <3>1, <3>3, <3>6, <4>1, <4>2 DEF Filed, RtcUp, IsAgfs, IsRtc
      <4>4. ~RtcUp' /\ ~AgfsUp'
        BY <4>2 DEF RtcUp, AgfsUp
      <4>5. Staged' /\ InPairs'
        BY <2>2, <3>2, <3>6, <4>4 DEF Staged, InPairs
      <4> QED BY <3>2, <4>3, <4>5 DEF Orderly
    <3> QED BY <3>5, <3>6 DEF Servers
  <2> QED BY <2>7, <2>8, <2>9 DEF LaunchInv
<1> QED BY <1>4, <1>5

\* A server takes its port or finds it taken, or dies.
LEMMA ServersMove ==
  ASSUME LaunchInv, NEW p \in Procs, ComeUp(p) \/ Dies(p)
  PROVE  LaunchInv'
<1>1. /\ LaunchTypes /\ past \in PastRecords /\ procs \in [Procs -> ProcStates] /\ OnePerPort
  BY DEF LaunchInv, LaunchTypes
<1>2. CASE ComeUp(p)
  <2>1. UNCHANGED <<disk, cmd, past>> /\ procs[p] \in {"late agfs", "late rtc"}
    BY <1>2 DEF ComeUp
  <2>2. /\ procs' \in [Procs -> ProcStates]
        /\ \A q \in Procs \ {p} : procs'[q] = procs[q]
        /\ procs[p] = "late agfs" => procs'[p] = IF Alive("agfs") = {} THEN "agfs" ELSE "gone"
        /\ procs[p] = "late rtc" => procs'[p] = IF Alive("rtc") = {} /\ disk.tree = "whole"
                                               THEN "rtc" ELSE "gone"
    BY <1>1, <1>2 DEF ComeUp, ProcStates
  <2>3. LaunchTypes'
    BY <1>1, <2>1, <2>2 DEF LaunchTypes
  <2>4. OnePerPort'
    BY <1>1, <2>1, <2>2 DEF OnePerPort, Alive
  <2>5. ASSUME Calm' PROVE Orderly'
    <3>1. /\ Filed /\ Staged /\ InPairs /\ OneBusy
      BY <2>1, <2>5 DEF LaunchInv, Calm, Orderly
    <3>2. /\ procs[p] = "late agfs" => procs'[p] = "agfs"
          /\ procs[p] = "late rtc" => procs'[p] = "rtc"
      BY <2>2, <3>1 DEF Filed, InPairs, RtcUp, Alive, IsAgfs, IsRtc
    <3>3. \A q \in Procs : (IsAgfs(q)' <=> IsAgfs(q)) /\ (IsRtc(q)' <=> IsRtc(q))
      BY <2>1, <2>2, <3>2 DEF IsAgfs, IsRtc
    <3>4. (AgfsUp' <=> AgfsUp) /\ (RtcUp' <=> RtcUp)
      BY <3>3 DEF AgfsUp, RtcUp
    <3>5. Filed'
      BY <2>1, <2>2, <3>1, <3>3 DEF Filed, IsAgfs, IsRtc
    <3> QED BY <2>1, <3>1, <3>4, <3>5 DEF Orderly, OneBusy, Busy, Staged, InPairs
  <2> QED BY <2>3, <2>4, <2>5 DEF LaunchInv
<1>3. CASE Dies(p)
  <2>1. /\ UNCHANGED <<disk, cmd>> /\ past.deaths < MaxDeaths
        /\ procs' = [procs EXCEPT ![p] = "gone"]
        /\ past' = [past EXCEPT !.deaths = @ + 1]
    BY <1>3 DEF Dies
  <2>2. past.deaths \in 0..MaxDeaths
    BY <1>1 DEF PastRecords
  <2>3. past.deaths + 1 \in 0..MaxDeaths /\ past.deaths + 1 # 0
    BY <2>1, <2>2, LauncherAssumption
  <2>4. past' \in PastRecords /\ past'.deaths # 0
    BY <1>1, <2>1, <2>3 DEF PastRecords
  <2>5. procs' \in [Procs -> ProcStates] /\ OnePerPort'
    BY <1>1, <2>1 DEF OnePerPort, ProcStates
  <2>6. LaunchTypes'
    BY <1>1, <2>1, <2>4, <2>5 DEF LaunchTypes
  <2> QED BY <2>4, <2>5, <2>6 DEF LaunchInv, Calm
<1> QED BY <1>2, <1>3

\* What is known of the servers stays right.
THEOREM LaunchKept == LauncherSpec => []LaunchInv
<1>1. LauncherInit => LaunchInv
  <2> SUFFICES ASSUME LauncherInit PROVE LaunchInv
    OBVIOUS
  <2>1. /\ procs = [p \in Procs |-> "unused"]
        /\ disk = [agfs |-> 0, rtc |-> 0, tree |-> "none"]
        /\ cmd = [c \in Caller |-> NoCommand]
        /\ past = [commands |-> 0, deaths |-> 0, overlap |-> FALSE, cut |-> FALSE,
                    stopped |-> FALSE]
    BY DEF LauncherInit
  <2>2. 0 \in 0..MaxProcs /\ 0 \in 0..MaxCommands /\ 0 \in 0..MaxDeaths /\ 0 \notin Procs
    BY LauncherAssumption DEF Procs
  <2>3. LaunchTypes
    BY <2>1, <2>2, NoCommandTyped
       DEF LaunchTypes, ProcStates, Stopping, DiskRecords, PastRecords
  <2>4. OnePerPort
    BY <2>1 DEF OnePerPort
  <2>5. OneBusy /\ Staged
    BY <2>1, NoCommandTyped DEF OneBusy, Busy, Staged, Making
  <2>6. Filed /\ InPairs
    BY <2>1, <2>2 DEF Filed, InPairs, AgfsUp, RtcUp, IsAgfs, IsRtc
  <2> QED BY <2>3, <2>4, <2>5, <2>6 DEF LaunchInv, Orderly
<1>2. LaunchInv /\ UNCHANGED launchVars => LaunchInv'
  <2> SUFFICES ASSUME LaunchInv, UNCHANGED launchVars PROVE LaunchInv'
    OBVIOUS
  <2>1. UNCHANGED <<procs, disk, cmd, past>>
    BY DEF launchVars
  <2>2. LaunchTypes' /\ OnePerPort'
    BY <2>1 DEF LaunchInv, LaunchTypes, OnePerPort
  <2> QED BY <2>1, <2>2 DEF LaunchInv, Calm, Orderly, OneBusy, Busy, Filed, Staged, InPairs,
                           AgfsUp, RtcUp, IsAgfs, IsRtc
<1>3. LaunchInv /\ LauncherNext => LaunchInv'
  BY CommandSteps, ServerSteps, ServersMove DEF LauncherNext
<1> QED BY <1>1, <1>2, <1>3, PTL DEF LauncherSpec

(***************************************************************************)
(* Every variable of the launcher keeps its type, and a port has one       *)
(* server at most, for any callers and any number of commands and deaths.  *)
(***************************************************************************)
THEOREM LaunchTypeCorrect == LauncherSpec => []LauncherTypeOK
<1>1. ASSUME LaunchInv PROVE LauncherTypeOK
  <2>1. /\ procs \in [Procs -> {"unused", "late agfs", "late rtc", "agfs", "rtc", "gone"}]
        /\ \A c \in Caller : cmd[c].owns => cmd[c].does = "mcp"
    BY <1>1 DEF LaunchInv, LaunchTypes, ProcStates
  <2>2. /\ disk \in DiskRecords
        /\ past \in PastRecords
    BY <1>1 DEF LaunchInv, LaunchTypes
  <2>3. ASSUME NEW server \in Servers PROVE Cardinality(Alive(server)) <= 1
    <3>1. \A p, q \in Alive(server) : p = q
      BY <1>1, <2>3 DEF LaunchInv, OnePerPort, Alive, Servers
    <3>2. CASE Alive(server) = {}
      BY <3>2, FS_EmptySet
    <3>3. CASE Alive(server) # {}
      <4>1. PICK p : p \in Alive(server)
        BY <3>3
      <4>2. Alive(server) = {p}
        BY <3>1, <4>1
      <4> QED BY <4>2, FS_Singleton
    <3> QED BY <3>2, <3>3
  <2> QED BY <2>1, <2>2, <2>3 DEF LauncherTypeOK, DiskRecords, PastRecords
<1> QED BY <1>1, LaunchKept, PTL

(***************************************************************************)
(* A server that runs has its id in its file, whatever starts fail or are  *)
(* given up, as long as commands do not overlap, none is given up between  *)
(* the two servers, and no server dies.                                    *)
(***************************************************************************)
THEOREM ServersStoppable == LauncherSpec => []Stoppable
<1>1. ASSUME LaunchInv PROVE Stoppable
  <2>1. 0 \notin Procs
    BY LauncherAssumption DEF Procs
  <2>2. \A p \in Procs : PidAlive(p) => IsAgfs(p) \/ IsRtc(p)
    BY DEF PidAlive, IsAgfs, IsRtc, Servers
  <2> QED BY <1>1, <2>2 DEF LaunchInv, Calm, Orderly, Filed, Stoppable
<1> QED BY <1>1, LaunchKept, PTL
(***************************************************************************)
(* The archives of a session.                                              *)
(***************************************************************************)
Written == {"write", "stored", "memory"}
CommitRecords ==
    [at : {"none", "look", "compress"} \cup Written, compact : BOOLEAN, seen : SUBSET Commits,
     prev : 0..MaxCommits, how : {"llm", "unread", "fallback"}, overview : SUBSET Commits,
     abstract : Seq(SUBSET Commits), created : Nat]
Tellings ==
    [to : {"none", "compose", "compact"}, told : SUBSET Commits, stored : SUBSET Commits]

Compressed == {c \in Commits : commits[c].at \in Written}

ArchiveTypes ==
    /\ commits \in [Commits -> CommitRecords]
    /\ dated = Cardinality(Compressed)
    /\ telling \in Tellings

(***************************************************************************)
(* What a commit has seen is stored, with all that had been seen by it,    *)
(* was dated before it, and the archive it is fused with is the latest.    *)
(***************************************************************************)
Seeing(c) ==
    /\ commits[c].at \in {"none", "look"} => commits[c].seen = {}
    /\ commits[c].seen \subseteq Stored
    /\ \A p \in commits[c].seen : commits[p].seen \subseteq commits[c].seen
    /\ commits[c].prev \in {0} \cup commits[c].seen
    /\ commits[c].seen # {} =>
          /\ commits[c].prev \in commits[c].seen
          /\ \A p \in commits[c].seen : commits[p].created <= commits[commits[c].prev].created
    /\ commits[c].created <= dated
    /\ commits[c].at \in Written =>
          \A p \in commits[c].seen : commits[p].created < commits[c].created
    /\ commits[c].overview \subseteq commits[c].seen \cup {c}
    /\ Told(commits[c].abstract) \subseteq commits[c].seen \cup {c}

\* The two excuses of Remembered, for an archive that is stored.
Excused(a) == (\E b \in Stored : Apart(a, b)) \/ \E b \in Stored : commits[b].how # "llm"

(***************************************************************************)
(* The overview of an archive tells of every archive its commit has seen,  *)
(* because it was fused with the latest of them, which does.               *)
(***************************************************************************)
Fused(c) ==
    commits[c].at \in Written /\ commits[c].how = "llm" =>
        /\ c \in commits[c].overview
        /\ \A a \in commits[c].seen \ commits[c].overview : Excused(a)

ArchivesInv ==
    ArchiveTypes /\ (\A c \in Commits : Seeing(c)) /\ (\A c \in Commits : Fused(c)) /\ Remembered

LEMMA CommitsFinite ==
  IsFiniteSet(Commits) /\ Cardinality(Commits) = MaxCommits /\ 0 \notin Commits
<1>1. 1 \in Int /\ MaxCommits \in Int /\ MaxCommits \in Nat
  BY ArchivesAssumption
<1>2. IsFiniteSet(1..MaxCommits) /\ Cardinality(1..MaxCommits) = IF 1 > MaxCommits THEN 0
                                                            ELSE MaxCommits - 1 + 1
  BY <1>1, FS_Interval
<1> QED BY <1>1, <1>2 DEF Commits

\* Among archives that are dated by now, one is the latest.
LEMMA LatestIs ==
  ASSUME NEW S \in SUBSET Commits, S # {}, dated \in Nat,
         \A d \in S : commits[d].created \in Nat /\ commits[d].created <= dated
  PROVE  Latest(S) \in S /\ \A d \in S : commits[d].created <= commits[Latest(S)].created
<1> DEFINE ages == {dated - commits[d].created : d \in S}
<1>1. ages \in SUBSET Nat /\ ages # {}
  OBVIOUS
<1> HIDE DEF ages
<1>2. PICK x \in ages : \A y \in ages : x <= y
  BY <1>1, Smallest
<1>3. PICK c \in S : x = dated - commits[c].created
  BY <1>2 DEF ages
<1>4. ASSUME NEW d \in S PROVE commits[d].created <= commits[c].created
  <2>1. dated - commits[c].created <= dated - commits[d].created
    BY <1>2, <1>3 DEF ages
  <2> QED BY <2>1
<1> QED BY <1>4 DEF Latest

LEMMA ToldOne == ASSUME NEW x PROVE Told(<<x>>) = x
BY DEF Told

LEMMA ToldTwo == ASSUME NEW x, NEW y PROVE Told(<<x, y>>) = x \cup y
<1>1. DOMAIN <<x, y>> = {1, 2}
  OBVIOUS
<1> QED BY <1>1 DEF Told

LEMMA ToldHead ==
  ASSUME NEW T, NEW texts \in Seq(T), texts # <<>>
  PROVE  Head(texts) \in T /\ Head(texts) \subseteq Told(texts)
<1>1. 1 \in DOMAIN texts /\ Head(texts) = texts[1] /\ texts[1] \in T
  OBVIOUS
<1> QED BY <1>1 DEF Told

\* One commit changes, and what is stored stays as it is.
LEMMA CommitMoves ==
  ASSUME ArchivesInv, NEW c \in Commits, NEW r \in CommitRecords,
         commits' = [commits EXCEPT ![c] = r], dated \in Nat, dated' \in Nat, dated <= dated',
         commits[c].at = "stored" =>
             r.at = "stored" /\ r.seen = commits[c].seen /\ r.how = commits[c].how
               /\ r.created = commits[c].created,
         r.at \in {"none", "look"} => r.seen = {},
         r.seen \subseteq Stored, \A p \in r.seen : commits[p].seen \subseteq r.seen,
         r.prev \in {0} \cup r.seen,
         r.seen # {} =>
            /\ r.prev \in r.seen
            /\ \A p \in r.seen : commits[p].created <= commits[r.prev].created,
         r.created <= dated',
         r.at \in Written => \A p \in r.seen : commits[p].created < r.created,
         r.overview \subseteq r.seen \cup {c}, Told(r.abstract) \subseteq r.seen \cup {c},
         r.at \in Written /\ r.how = "llm" =>
            c \in r.overview /\ \A a \in r.seen \ r.overview : Excused(a)
  PROVE  /\ commits' \in [Commits -> CommitRecords]
         /\ \A d \in Commits : Seeing(d)'
         /\ \A d \in Commits : Fused(d)'
<1>1. /\ commits \in [Commits -> CommitRecords]
      /\ \A d \in Commits : Seeing(d) /\ Fused(d) /\ commits[d] \in CommitRecords
  BY DEF ArchivesInv, ArchiveTypes
<1>2. /\ commits' \in [Commits -> CommitRecords] /\ commits'[c] = r
      /\ \A d \in Commits \ {c} : commits'[d] = commits[d]
  BY <1>1
<1>3. Stored \subseteq Stored'
  BY <1>1, <1>2 DEF Stored
<1>4. \A d \in Stored : /\ commits'[d].seen = commits[d].seen
                        /\ commits'[d].created = commits[d].created
                        /\ commits'[d].how = commits[d].how
  BY <1>2 DEF Stored
<1>5. ASSUME NEW a \in Stored, Excused(a) PROVE Excused(a)'
  BY <1>3, <1>4, <1>5 DEF Excused, Apart
<1>6. Seeing(c)'
  <2>1. \A p \in r.seen : /\ commits'[p].seen = commits[p].seen
                          /\ commits'[p].created = commits[p].created
    BY <1>4
  <2> QED BY <1>2, <1>3, <2>1 DEF Seeing
<1>7. Fused(c)'
  BY <1>2, <1>5 DEF Fused
<1>8. ASSUME NEW d \in Commits \ {c} PROVE Seeing(d)' /\ Fused(d)'
  <2>1. commits'[d] = commits[d] /\ Seeing(d) /\ Fused(d) /\ commits[d].created \in Nat
    BY <1>1, <1>2 DEF CommitRecords
  <2>2. commits[d].seen \subseteq Stored
    BY <2>1 DEF Seeing
  <2>3. \A p \in commits[d].seen : /\ commits'[p].seen = commits[p].seen
                                   /\ commits'[p].created = commits[p].created
    BY <1>4, <2>2
  <2>4. Seeing(d)'
    <3>1. commits[d].created <= dated'
      BY <2>1 DEF Seeing
    <3> QED BY <1>3, <2>1, <2>2, <2>3, <3>1 DEF Seeing
  <2>5. Fused(d)'
    BY <1>5, <2>1, <2>2 DEF Fused
  <2> QED BY <2>4, <2>5
<1> QED BY <1>2, <1>6, <1>7, <1>8

\* An archive that the latest does not tell about is excused.
LEMMA LatestTells ==
  ASSUME ArchivesInv, NEW S \in SUBSET Stored, NEW l \in S,
         \A d \in S : commits[d].created <= commits[l].created,
         NEW a \in S \ commits[l].overview
  PROVE  Excused(a)
<1>1. /\ \A d \in Stored : /\ d \in Commits /\ Seeing(d) /\ Fused(d) /\ commits[d].at \in Written
                           /\ commits[d].created \in Nat
  BY DEF ArchivesInv, ArchiveTypes, CommitRecords, Stored, Written
<1>2. CASE commits[l].how # "llm"
  BY <1>2 DEF Excused
<1>3. CASE commits[l].how = "llm"
  <2>1. l \in commits[l].overview /\ \A x \in commits[l].seen \ commits[l].overview : Excused(x)
    BY <1>1, <1>3 DEF Fused
  <2>2. CASE a \in commits[l].seen
    BY <2>1, <2>2
  <2>3. CASE a \notin commits[l].seen
    <3>1. l \notin commits[a].seen
      <4>1. l \in commits[a].seen => commits[l].created < commits[a].created
        BY <1>1 DEF Seeing
      <4> QED BY <1>1, <4>1
    <3> QED BY <2>1, <2>3, <3>1 DEF Excused, Apart
  <2> QED BY <2>2, <2>3
<1> QED BY <1>2, <1>3

LEMMA DatedNat == ASSUME ArchivesInv PROVE dated \in Nat /\ dated <= MaxCommits
<1>1. Compressed \subseteq Commits /\ dated = Cardinality(Compressed)
  BY DEF ArchivesInv, ArchiveTypes, Compressed
<1> HIDE DEF Compressed
<1>2. IsFiniteSet(Compressed) /\ Cardinality(Compressed) <= Cardinality(Commits)
  BY <1>1, CommitsFinite, FS_Subset
<1> QED BY <1>1, <1>2, CommitsFinite, FS_CardinalityType

\* The steps that neither date nor answer.
LEMMA QuietCommit ==
  ASSUME ArchivesInv, NEW c \in Commits, NEW r \in CommitRecords,
         commits' = [commits EXCEPT ![c] = r], UNCHANGED dated, telling' = NothingTold,
         r.at \in Written <=> commits[c].at \in Written,
         \A d \in Commits : Seeing(d)', \A d \in Commits : Fused(d)'
  PROVE  ArchivesInv'
<1>1. commits \in [Commits -> CommitRecords] /\ dated = Cardinality(Compressed)
  BY DEF ArchivesInv, ArchiveTypes
<1>2. Compressed' = Compressed
  BY <1>1 DEF Compressed
<1>3. telling' \in Tellings /\ Remembered'
  BY DEF NothingTold, Tellings, Remembered
<1>4. ArchiveTypes'
  BY <1>1, <1>2, <1>3 DEF ArchiveTypes
<1> QED BY <1>3, <1>4 DEF ArchivesInv

\* What a commit finds before it, as its compression uses it.
LEMMA Previous ==
  ASSUME ArchivesInv, NEW c \in Commits
  PROVE  /\ PreviousOverview(c) \subseteq commits[c].seen
         /\ Told(PreviousAbstract(c)) \subseteq commits[c].seen
         /\ PreviousAbstract(c) \in Seq(SUBSET Commits)
         /\ PreviousAbstract(c) # <<>> =>
               /\ Head(PreviousAbstract(c)) \subseteq commits[c].seen
               /\ Head(PreviousAbstract(c)) \in SUBSET Commits
<1>1. /\ \A d \in Commits : Seeing(d) /\ commits[d] \in CommitRecords
      /\ Stored \subseteq Commits
  BY DEF ArchivesInv, ArchiveTypes, Stored
<1>2. CASE commits[c].prev = 0
  <2>1. PreviousOverview(c) = {} /\ PreviousAbstract(c) = <<>>
    BY <1>2 DEF PreviousOverview, PreviousAbstract
  <2>2. Told(<<>>) = {}
    BY DEF Told
  <2> QED BY <2>1, <2>2
<1>3. CASE commits[c].prev # 0
  <2> DEFINE p == commits[c].prev
  <2>1. p \in commits[c].seen /\ p \in Commits /\ commits[p].seen \subseteq commits[c].seen
    BY <1>1, <1>3 DEF Seeing
  <2>2. /\ PreviousOverview(c) = commits[p].overview
        /\ PreviousAbstract(c) = commits[p].abstract
    BY <1>3 DEF PreviousOverview, PreviousAbstract
  <2>3. /\ commits[p].overview \subseteq commits[c].seen
        /\ Told(commits[p].abstract) \subseteq commits[c].seen
    BY <1>1, <2>1 DEF Seeing
  <2>4. commits[p].abstract \in Seq(SUBSET Commits)
    BY <1>1, <2>1 DEF CommitRecords
  <2> QED BY <2>2, <2>3, <2>4, ToldHead
<1> QED BY <1>2, <1>3

\* A compression, with the LLM or without: the archive gets its date.
LEMMA Compresses ==
  ASSUME ArchivesInv, NEW c \in Commits, commits[c].at = "compress",
         NEW how \in {"llm", "unread", "fallback"}, NEW overview \in SUBSET Commits,
         NEW abstract \in Seq(SUBSET Commits),
         commits' = [commits EXCEPT ![c] = [commits[c] EXCEPT
             !.at = "write", !.how = how, !.overview = overview, !.abstract = abstract,
             !.created = dated + 1]],
         Dates(c),
         overview \subseteq commits[c].seen \cup {c},
         Told(abstract) \subseteq commits[c].seen \cup {c},
         how = "llm" => {c} \cup PreviousOverview(c) \subseteq overview
  PROVE  ArchivesInv'
<1>1. /\ commits \in [Commits -> CommitRecords] /\ commits[c] \in CommitRecords
      /\ Seeing(c) /\ dated = Cardinality(Compressed) /\ dated \in Nat
      /\ \A d \in Commits : commits[d].created \in Nat
  BY DatedNat DEF ArchivesInv, ArchiveTypes, CommitRecords
<1>2. dated' = dated + 1 /\ telling' = NothingTold
  BY DEF Dates
<1> DEFINE r == [commits[c] EXCEPT !.at = "write", !.how = how, !.overview = overview,
                                   !.abstract = abstract, !.created = dated + 1]
<1>3. /\ r \in CommitRecords /\ r.at = "write" /\ r.how = how /\ r.overview = overview
      /\ r.abstract = abstract /\ r.created = dated + 1
      /\ r.seen = commits[c].seen /\ r.prev = commits[c].prev
  <2> DEFINE next == dated + 1
  <2>1. next \in Nat
    BY <1>1
  <2> HIDE DEF next
  <2>2. /\ commits[c].compact \in BOOLEAN /\ commits[c].seen \in SUBSET Commits
        /\ commits[c].prev \in 0..MaxCommits /\ "write" \in Written
    BY <1>1 DEF CommitRecords, Written
  <2>3. /\ r \in CommitRecords /\ r.at = "write" /\ r.how = how /\ r.overview = overview
        /\ r.abstract = abstract /\ r.created = next
        /\ r.seen = commits[c].seen /\ r.prev = commits[c].prev
    <3>1. r = [commits[c] EXCEPT !.at = "write", !.how = how, !.overview = overview,
                                 !.abstract = abstract, !.created = next]
      BY DEF next
    <3> HIDE DEF r
    <3> QED BY <1>1, <2>1, <2>2, <3>1 DEF CommitRecords
  <2>4. next = dated + 1
    BY DEF next
  <2> QED BY <2>3, <2>4
<1>4. commits' = [commits EXCEPT ![c] = r]
  OBVIOUS
<1> HIDE DEF r
<1>5. commits[c].seen \subseteq Stored /\ Stored \subseteq Commits
  BY <1>1 DEF Seeing, Stored
<1>6. \A p \in r.seen : commits[p].created < dated + 1
  <2>1. \A p \in Commits : commits[p].created <= dated
    BY DEF ArchivesInv, Seeing
  <2> QED BY <1>1, <1>3, <1>5, <2>1
<1>7. ASSUME how = "llm" PROVE c \in overview /\ \A a \in r.seen \ overview : Excused(a)
  <2>1. ASSUME NEW a \in r.seen \ overview PROVE Excused(a)
    <3> DEFINE p == commits[c].prev
    <3>1. /\ p \in commits[c].seen
          /\ \A d \in commits[c].seen : commits[d].created <= commits[p].created
      BY <1>1, <1>3, <2>1 DEF Seeing
    <3>2. PreviousOverview(c) = commits[p].overview
      BY <1>5, <3>1, CommitsFinite DEF PreviousOverview
    <3>3. a \in commits[c].seen \ commits[p].overview
      BY <1>3, <1>7, <2>1, <3>2
    <3> HIDE DEF p
    <3> QED BY <1>5, <3>1, <3>3, LatestTells
  <2> QED BY <1>7, <2>1
<1>8. r.seen \subseteq Stored /\ \A p \in r.seen : commits[p].seen \subseteq r.seen
  BY <1>1, <1>3 DEF Seeing
<1>9. /\ r.prev \in {0} \cup r.seen
      /\ r.seen # {} => /\ r.prev \in r.seen
                        /\ \A p \in r.seen : commits[p].created <= commits[r.prev].created
  BY <1>1, <1>3 DEF Seeing
<1>10. /\ commits' \in [Commits -> CommitRecords]
       /\ \A d \in Commits : Seeing(d)'
       /\ \A d \in Commits : Fused(d)'
  <2>1. dated' \in Nat /\ dated <= dated' /\ r.created <= dated'
    BY <1>1, <1>2, <1>3
  <2>2. r.at \in Written /\ r.at \notin {"none", "look"} /\ commits[c].at # "stored"
    BY <1>3 DEF Written
  <2>3. \A p \in r.seen : commits[p].created < r.created
    BY <1>3, <1>6
  <2>4. r.how = "llm" => c \in r.overview /\ \A a \in r.seen \ r.overview : Excused(a)
    BY <1>3, <1>7
  <2>5. r.overview \subseteq r.seen \cup {c} /\ Told(r.abstract) \subseteq r.seen \cup {c}
    BY <1>3
  <2>6. r \in CommitRecords /\ dated \in Nat
    BY <1>1, <1>3
  <2> QED BY <1>4, <1>8, <1>9, <2>1, <2>2, <2>3, <2>4, <2>5, <2>6, CommitMoves
<1>11. dated' = Cardinality(Compressed')
  <2>1. Compressed' = Compressed \cup {c} /\ c \notin Compressed /\ Compressed \subseteq Commits
    BY <1>1, <1>3, <1>4 DEF Compressed, Written
  <2> HIDE DEF Compressed
  <2>2. IsFiniteSet(Compressed)
    BY <2>1, CommitsFinite, FS_Subset
  <2>3. Cardinality(Compressed \cup {c}) = Cardinality(Compressed) + 1
    BY <2>1, <2>2, FS_AddElement
  <2> QED BY <1>1, <1>2, <2>1, <2>3
<1>12. telling' \in Tellings /\ Remembered'
  BY <1>2 DEF NothingTold, Tellings, Remembered
<1> QED BY <1>10, <1>11, <1>12 DEF ArchivesInv, ArchiveTypes
LEMMA BeginKept ==
  ASSUME ArchivesInv, NEW c \in Commits, NEW compact \in BOOLEAN, BeginCommit(c, compact)
  PROVE  ArchivesInv'
<1> DEFINE r == [commits[c] EXCEPT !.at = "look", !.compact = compact]
<1>1. /\ commits \in [Commits -> CommitRecords] /\ commits[c] \in CommitRecords
      /\ Seeing(c) /\ dated \in Nat /\ commits[c].at = "none"
  BY DatedNat DEF ArchivesInv, ArchiveTypes, BeginCommit
<1>2. /\ r \in CommitRecords /\ r.at = "look" /\ r.seen = commits[c].seen
      /\ r.prev = commits[c].prev /\ r.created = commits[c].created
      /\ r.overview = commits[c].overview /\ r.abstract = commits[c].abstract
  BY <1>1 DEF CommitRecords
<1>3. commits' = [commits EXCEPT ![c] = r]
  BY <1>1 DEF BeginCommit
<1> HIDE DEF r
<1>4. /\ r.seen = {} /\ r.prev \in {0} \cup r.seen /\ r.created <= dated
      /\ r.overview \subseteq r.seen \cup {c} /\ Told(r.abstract) \subseteq r.seen \cup {c}
  BY <1>1, <1>2 DEF Seeing
<1>5. /\ commits[c].at # "stored" /\ r.at \notin Written /\ commits[c].at \notin Written
      /\ UNCHANGED dated /\ telling' = NothingTold
  BY <1>1, <1>2 DEF BeginCommit, Written
<1>6. (\A d \in Commits : Seeing(d)') /\ \A d \in Commits : Fused(d)'
  <2>1. dated' \in Nat /\ dated <= dated' /\ r.created <= dated'
    BY <1>1, <1>4, <1>5
  <2> QED BY <1>1, <1>2, <1>3, <1>4, <1>5, <2>1, CommitMoves
<1> QED BY <1>2, <1>3, <1>5, <1>6, QuietCommit

LEMMA FindKept ==
  ASSUME ArchivesInv, NEW c \in Commits, FindPrevious(c)
  PROVE  ArchivesInv'
<1>1. /\ commits \in [Commits -> CommitRecords] /\ commits[c] \in CommitRecords
      /\ Seeing(c) /\ dated \in Nat /\ commits[c].at = "look" /\ commits[c].seen = {}
      /\ UNCHANGED dated /\ telling' = NothingTold
  BY DatedNat DEF ArchivesInv, ArchiveTypes, FindPrevious, Seeing
<1>2. Stored \subseteq Commits /\ \A p \in Stored : /\ commits[p].seen \subseteq Stored
                                                    /\ commits[p].created \in Nat
                                                    /\ commits[p].created <= dated
  BY DEF Stored, ArchivesInv, ArchiveTypes, CommitRecords, Seeing
<1>3. CASE commits' = [commits EXCEPT ![c].at = "compress", ![c].how = "unread"]
  <2> DEFINE r == [commits[c] EXCEPT !.at = "compress", !.how = "unread"]
  <2>1. /\ r \in CommitRecords /\ r.at = "compress" /\ r.seen = commits[c].seen
        /\ r.prev = commits[c].prev /\ r.created = commits[c].created
        /\ r.overview = commits[c].overview /\ r.abstract = commits[c].abstract
    BY <1>1 DEF CommitRecords
  <2>2. commits' = [commits EXCEPT ![c] = r]
    BY <1>1, <1>3
  <2> HIDE DEF r
  <2>3. /\ r.seen = {} /\ r.prev \in {0} \cup r.seen /\ r.created <= dated
        /\ r.overview \subseteq r.seen \cup {c} /\ Told(r.abstract) \subseteq r.seen \cup {c}
    BY <1>1, <2>1 DEF Seeing
  <2>4. commits[c].at # "stored" /\ r.at \notin Written /\ commits[c].at \notin Written
    BY <1>1, <2>1 DEF Written
  <2>5. (\A d \in Commits : Seeing(d)') /\ \A d \in Commits : Fused(d)'
    <3>1. dated' \in Nat /\ dated <= dated' /\ r.created <= dated'
      BY <1>1, <2>3
    <3> QED BY <1>1, <2>1, <2>2, <2>3, <2>4, <3>1, CommitMoves
  <2> QED BY <1>1, <2>1, <2>2, <2>4, <2>5, QuietCommit
<1>4. CASE commits' = [commits EXCEPT ![c].at = "compress", ![c].seen = Stored,
                           ![c].prev = IF Stored = {} THEN 0 ELSE Latest(Stored)]
  <2> DEFINE p == IF Stored = {} THEN 0 ELSE Latest(Stored)
  <2>1. /\ p \in 0..MaxCommits /\ p \in {0} \cup Stored
        /\ Stored # {} =>
              p \in Stored /\ \A d \in Stored : commits[d].created <= commits[p].created
    <3>1. CASE Stored = {}
      <4>1. 0 \in 0..MaxCommits
        BY ArchivesAssumption
      <4> QED BY <3>1, <4>1
    <3>2. CASE Stored # {}
      <4>1. p = Latest(Stored) /\ p \in Stored
               /\ \A d \in Stored : commits[d].created <= commits[p].created
        BY <1>1, <1>2, <3>2, LatestIs
      <4>2. \A d \in Commits : d \in 0..MaxCommits
        BY ArchivesAssumption DEF Commits
      <4> HIDE DEF p
      <4> QED BY <1>2, <4>1, <4>2
    <3> QED BY <3>1, <3>2
  <2> DEFINE r == [commits[c] EXCEPT !.at = "compress", !.seen = Stored, !.prev = p]
  <2>2. commits' = [commits EXCEPT ![c] = r]
    BY <1>1, <1>4
  <2> HIDE DEF p
  <2>3. /\ r \in CommitRecords /\ r.at = "compress" /\ r.seen = Stored /\ r.prev = p
        /\ r.created = commits[c].created /\ r.overview = commits[c].overview
        /\ r.abstract = commits[c].abstract
    BY <1>1, <1>2, <2>1 DEF CommitRecords
  <2> HIDE DEF r
  <2>4. /\ r.seen \subseteq Stored /\ \A q \in r.seen : commits[q].seen \subseteq r.seen
        /\ r.prev \in {0} \cup r.seen
        /\ r.seen # {} =>
              /\ r.prev \in r.seen
              /\ \A q \in r.seen : commits[q].created <= commits[r.prev].created
        /\ r.at \notin Written /\ r.at \notin {"none", "look"} /\ commits[c].at # "stored"
        /\ commits[c].at \notin Written
    BY <1>1, <1>2, <2>1, <2>3 DEF Written
  <2>5. /\ r.created <= dated /\ r.overview \subseteq r.seen \cup {c}
        /\ Told(r.abstract) \subseteq r.seen \cup {c}
    BY <1>1, <2>3 DEF Seeing
  <2>6. (\A d \in Commits : Seeing(d)') /\ \A d \in Commits : Fused(d)'
    <3>1. dated' \in Nat /\ dated <= dated' /\ r.created <= dated'
      BY <1>1, <2>5
    <3> QED BY <1>1, <2>2, <2>3, <2>4, <2>5, <3>1, CommitMoves
  <2> QED BY <1>1, <2>2, <2>3, <2>4, <2>6, QuietCommit
<1> QED BY <1>3, <1>4 DEF FindPrevious

LEMMA CompressKept ==
  ASSUME ArchivesInv, NEW c \in Commits, Compress(c)
  PROVE  ArchivesInv'
<1>1. /\ commits \in [Commits -> CommitRecords] /\ commits[c] \in CommitRecords
      /\ commits[c].seen \in SUBSET Commits /\ commits[c].at = "compress" /\ Dates(c)
      /\ commits[c].how \in {"llm", "unread", "fallback"}
  BY DEF ArchivesInv, ArchiveTypes, CommitRecords, Compress, CompressByLLM, CompressAnyway
<1>2. /\ PreviousOverview(c) \subseteq commits[c].seen
      /\ Told(PreviousAbstract(c)) \subseteq commits[c].seen
      /\ PreviousAbstract(c) # <<>> => /\ Head(PreviousAbstract(c)) \subseteq commits[c].seen
                                       /\ Head(PreviousAbstract(c)) \in SUBSET Commits
  BY Previous
<1>3. CASE CompressByLLM(c)
  <2> DEFINE all == {c} \cup PreviousOverview(c) \cup Told(PreviousAbstract(c))
  <2>1. commits' = [commits EXCEPT ![c] = [commits[c] EXCEPT
             !.at = "write", !.how = commits[c].how, !.overview = all,
             !.abstract = <<all>>, !.created = dated + 1]]
    BY <1>1, <1>3 DEF CompressByLLM, CommitRecords
  <2>2. /\ all \in SUBSET Commits /\ all \subseteq commits[c].seen \cup {c}
        /\ {c} \cup PreviousOverview(c) \subseteq all
    BY <1>1, <1>2
  <2> HIDE DEF all
  <2>3. <<all>> \in Seq(SUBSET Commits) /\ Told(<<all>>) = all
    BY <2>2, ToldOne
  <2> QED BY <1>1, <2>1, <2>2, <2>3, Compresses
<1>4. CASE CompressAnyway(c)
  <2> DEFINE how == IF commits[c].how = "llm" THEN "fallback" ELSE commits[c].how
             overview == {c} \cup Told(PreviousAbstract(c))
             abstract == IF PreviousAbstract(c) = <<>> THEN <<{c}>>
                         ELSE <<Head(PreviousAbstract(c)), {c}>>
  <2>1. commits' = [commits EXCEPT ![c] = [commits[c] EXCEPT
             !.at = "write", !.how = how, !.overview = overview,
             !.abstract = abstract, !.created = dated + 1]]
    BY <1>1, <1>4 DEF CompressAnyway
  <2>2. how \in {"unread", "fallback"} /\ how \in {"llm", "unread", "fallback"} /\ how # "llm"
    BY <1>1
  <2>3. overview \in SUBSET Commits /\ overview \subseteq commits[c].seen \cup {c}
    BY <1>1, <1>2
  <2>4. abstract \in Seq(SUBSET Commits) /\ Told(abstract) \subseteq commits[c].seen \cup {c}
    <3>1. CASE PreviousAbstract(c) = <<>>
      <4>1. abstract = <<{c}>> /\ Told(<<{c}>>) = {c} /\ {c} \in SUBSET Commits
        BY <3>1, ToldOne
      <4> HIDE DEF abstract
      <4> QED BY <4>1
    <3>2. CASE PreviousAbstract(c) # <<>>
      <4> DEFINE h == Head(PreviousAbstract(c))
      <4>1. abstract = <<h, {c}>> /\ h \subseteq commits[c].seen /\ h \in SUBSET Commits
        BY <1>2, <3>2
      <4> HIDE DEF abstract, h
      <4>2. Told(<<h, {c}>>) = h \cup {c} /\ {c} \in SUBSET Commits
        BY ToldTwo
      <4> QED BY <4>1, <4>2
    <3> QED BY <3>1, <3>2
  <2> HIDE DEF how, overview, abstract
  <2> QED BY <1>1, <2>1, <2>2, <2>3, <2>4, Compresses
<1> QED BY <1>3, <1>4 DEF Compress

LEMMA WriteKept ==
  ASSUME ArchivesInv, NEW c \in Commits, WriteSession(c)
  PROVE  ArchivesInv'
<1>1. /\ commits \in [Commits -> CommitRecords] /\ commits[c] \in CommitRecords
      /\ Seeing(c) /\ Fused(c) /\ dated \in Nat /\ commits[c].at = "write"
      /\ UNCHANGED dated /\ telling' = NothingTold
  BY DatedNat DEF ArchivesInv, ArchiveTypes, WriteSession
<1>2. PICK at \in {"stored", "memory"} : commits' = [commits EXCEPT ![c].at = at]
  BY <1>1 DEF WriteSession
<1> DEFINE r == [commits[c] EXCEPT !.at = at]
<1>3. /\ r \in CommitRecords /\ r.at = at /\ r.seen = commits[c].seen /\ r.how = commits[c].how
      /\ r.prev = commits[c].prev /\ r.created = commits[c].created
      /\ r.overview = commits[c].overview /\ r.abstract = commits[c].abstract
  BY <1>1, <1>2 DEF CommitRecords, Written
<1>4. commits' = [commits EXCEPT ![c] = r]
  BY <1>1, <1>2
<1> HIDE DEF r
<1>5. /\ r.at \in Written /\ r.at \notin {"none", "look"} /\ commits[c].at # "stored"
      /\ commits[c].at \in Written
  BY <1>1, <1>2, <1>3 DEF Written
<1>6. /\ r.seen \subseteq Stored /\ \A p \in r.seen : commits[p].seen \subseteq r.seen
      /\ r.prev \in {0} \cup r.seen
      /\ r.seen # {} => /\ r.prev \in r.seen
                        /\ \A p \in r.seen : commits[p].created <= commits[r.prev].created
      /\ \A p \in r.seen : commits[p].created < r.created
      /\ r.created <= dated /\ r.overview \subseteq r.seen \cup {c}
      /\ Told(r.abstract) \subseteq r.seen \cup {c}
  BY <1>1, <1>3, <1>5 DEF Seeing
<1>7. r.how = "llm" => c \in r.overview /\ \A a \in r.seen \ r.overview : Excused(a)
  BY <1>1, <1>3, <1>5 DEF Fused
<1>8. (\A d \in Commits : Seeing(d)') /\ \A d \in Commits : Fused(d)'
  <2>1. dated' \in Nat /\ dated <= dated' /\ r.created <= dated'
    BY <1>1, <1>6
  <2> QED BY <1>1, <1>3, <1>4, <1>5, <1>6, <1>7, <2>1, CommitMoves
<1> QED BY <1>1, <1>3, <1>4, <1>5, <1>8, QuietCommit

LEMMA AnswerKept ==
  ASSUME ArchivesInv, NEW c \in Commits, AnswerCompact(c)
  PROVE  ArchivesInv'
<1>1. /\ commits \in [Commits -> CommitRecords] /\ commits[c] \in CommitRecords
      /\ Seeing(c) /\ Fused(c) /\ dated \in Nat /\ dated = Cardinality(Compressed)
      /\ commits[c].at \in Written /\ commits' = [commits EXCEPT ![c].compact = FALSE]
      /\ UNCHANGED dated
  BY DatedNat DEF ArchivesInv, ArchiveTypes, AnswerCompact, Written
<1> DEFINE r == [commits[c] EXCEPT !.compact = FALSE]
<1>2. /\ r \in CommitRecords /\ r.at = commits[c].at /\ r.seen = commits[c].seen
      /\ r.how = commits[c].how /\ r.prev = commits[c].prev
      /\ r.created = commits[c].created /\ r.overview = commits[c].overview
      /\ r.abstract = commits[c].abstract
  BY <1>1 DEF CommitRecords
<1>3. commits' = [commits EXCEPT ![c] = r]
  BY <1>1
<1> HIDE DEF r
<1>4. r.at \in Written /\ r.at \notin {"none", "look"}
  BY <1>1, <1>2 DEF Written
<1>5. /\ r.seen \subseteq Stored /\ \A p \in r.seen : commits[p].seen \subseteq r.seen
      /\ r.prev \in {0} \cup r.seen
      /\ r.seen # {} => /\ r.prev \in r.seen
                        /\ \A p \in r.seen : commits[p].created <= commits[r.prev].created
      /\ \A p \in r.seen : commits[p].created < r.created
      /\ r.created <= dated /\ r.overview \subseteq r.seen \cup {c}
      /\ Told(r.abstract) \subseteq r.seen \cup {c}
  BY <1>1, <1>2, <1>4 DEF Seeing
<1>6. r.how = "llm" => c \in r.overview /\ \A a \in r.seen \ r.overview : Excused(a)
  BY <1>1, <1>2, <1>4 DEF Fused
<1>7. /\ commits' \in [Commits -> CommitRecords]
      /\ \A d \in Commits : Seeing(d)'
      /\ \A d \in Commits : Fused(d)'
  <2>1. dated' \in Nat /\ dated <= dated' /\ r.created <= dated'
    BY <1>1, <1>5
  <2> QED BY <1>1, <1>2, <1>3, <1>4, <1>5, <1>6, <2>1, CommitMoves
<1>8. Compressed' = Compressed
  BY <1>1, <1>2, <1>3, <1>4 DEF Compressed
<1>9. telling' \in Tellings /\ Remembered'
  <2>1. /\ telling'.to = "compact" /\ telling'.stored = {c} \cap Stored
        /\ telling'.told = UNION {commits[a].overview :
                                    a \in {b \in Stored : \A d \in Stored : b <= d}}
        /\ telling' = [to |-> telling'.to, stored |-> telling'.stored, told |-> telling'.told]
    BY DEF AnswerCompact
  <2>2. \A a \in Stored : commits[a].overview \subseteq Commits
    BY <1>1 DEF Stored, CommitRecords
  <2>3. telling'.told \in SUBSET Commits /\ telling'.stored \in SUBSET Commits
    BY <2>1, <2>2
  <2> QED BY <2>1, <2>3 DEF Tellings, Remembered
<1> QED BY <1>1, <1>7, <1>8, <1>9 DEF ArchivesInv, ArchiveTypes

LEMMA ComposeKept ==
  ASSUME ArchivesInv, NEW room \in AbstractRooms, ComposeArchives(room)
  PROVE  ArchivesInv'
<1>1. /\ commits \in [Commits -> CommitRecords] /\ dated \in Nat
      /\ UNCHANGED <<commits, dated>> /\ Stored # {} /\ Stored \subseteq Commits
      /\ \A d \in Commits : Seeing(d) /\ Fused(d) /\ commits[d] \in CommitRecords
  BY DatedNat DEF ArchivesInv, ArchiveTypes, ComposeArchives, Stored
<1> DEFINE l == Latest(Stored)
<1>2. l \in Stored /\ \A d \in Stored : commits[d].created <= commits[l].created
  <2>1. \A d \in Stored : commits[d].created \in Nat /\ commits[d].created <= dated
    BY <1>1 DEF CommitRecords, Seeing
  <2> QED BY <1>1, <2>1, LatestIs
<1>3. PICK fits \in SUBSET Stored :
         telling' = [to |-> "compose", stored |-> Stored,
                     told |-> commits[l].overview
                                \cup UNION {Told(commits[c].abstract) : c \in fits}]
  BY DEF ComposeArchives
<1> HIDE DEF l
<1>4. /\ telling'.to = "compose" /\ telling'.stored = Stored
      /\ commits[l].overview \subseteq telling'.told
  BY <1>3
<1>5. telling' \in Tellings
  <2>1. \A c \in fits : Told(commits[c].abstract) \subseteq Commits
    BY <1>1, <1>3 DEF Seeing, CommitRecords
  <2>2. commits[l].overview \subseteq Commits
    BY <1>1, <1>2 DEF CommitRecords
  <2> DEFINE told == commits[l].overview \cup UNION {Told(commits[c].abstract) : c \in fits}
  <2>3. told \in SUBSET Commits
    BY <2>1, <2>2
  <2>4. telling' = [to |-> "compose", stored |-> Stored, told |-> told]
    BY <1>3
  <2> HIDE DEF told
  <2> QED BY <1>1, <2>3, <2>4 DEF Tellings
<1>6. Remembered'
  <2>1. ASSUME NEW a \in Stored \ telling'.told PROVE Excused(a)
    BY <1>2, <1>4, LatestTells
  <2>2. ASSUME NEW a \in telling'.stored \ telling'.told
        PROVE  \/ \E b \in telling'.stored : Apart(a, b)'
               \/ \E b \in telling'.stored : commits'[b].how # "llm"
    BY <1>1, <1>4, <2>1 DEF Excused, Apart
  <2> QED BY <2>2 DEF Remembered
<1>7. /\ Compressed' = Compressed /\ Stored' = Stored
      /\ \A d \in Commits : Seeing(d)' /\ Fused(d)'
  <2>1. Compressed' = Compressed /\ Stored' = Stored
    BY <1>1 DEF Compressed, Stored
  <2>2. \A a \in Commits : Excused(a)' <=> Excused(a)
    BY <1>1, <2>1 DEF Excused, Apart
  <2>3. \A d \in Commits : Seeing(d)'
    BY <1>1, <2>1 DEF Seeing
  <2>4. \A d \in Commits : d \in Commits /\ commits[d].seen \subseteq Commits
    BY <1>1 DEF CommitRecords
  <2>5. \A d \in Commits : Fused(d)'
    BY <1>1, <2>2, <2>4 DEF Fused
  <2> QED BY <2>1, <2>3, <2>5
<1> QED BY <1>1, <1>5, <1>6, <1>7 DEF ArchivesInv, ArchiveTypes

(***************************************************************************)
(* What a session's archives keep: see Seeing, Fused and Remembered.       *)
(***************************************************************************)
THEOREM ArchivesKept == ArchivesSpec => []ArchivesInv
<1>1. ArchivesInit => ArchivesInv
  <2> SUFFICES ASSUME ArchivesInit PROVE ArchivesInv
    OBVIOUS
  <2>1. /\ NoCommit \in CommitRecords /\ NoCommit.at = "none" /\ NoCommit.seen = {}
        /\ NoCommit.prev = 0 /\ NoCommit.overview = {} /\ NoCommit.abstract = <<>>
        /\ NoCommit.created = 0
    <3>1. 0 \in 0..MaxCommits /\ <<>> \in Seq(SUBSET Commits) /\ 0 \in Nat
      BY ArchivesAssumption
    <3> QED BY <3>1 DEF NoCommit, CommitRecords
  <2>2. \A c \in Commits : commits[c] = NoCommit
    BY DEF ArchivesInit
  <2>3. commits \in [Commits -> CommitRecords] /\ dated = 0 /\ telling = NothingTold
    BY <2>1 DEF ArchivesInit
  <2>4. Compressed = {}
    BY <2>1, <2>2 DEF Compressed, Written
  <2>5. telling \in Tellings /\ Remembered
    BY <2>3 DEF NothingTold, Tellings, Remembered
  <2>6. \A c \in Commits : Seeing(c) /\ Fused(c)
    <3>1. Told(<<>>) = {} /\ 0 <= 0
      BY DEF Told
    <3> QED BY <2>1, <2>2, <2>3, <3>1 DEF Seeing, Fused, Written
  <2> QED BY <2>3, <2>4, <2>5, <2>6, FS_EmptySet DEF ArchivesInv, ArchiveTypes
<1>2. ArchivesInv /\ [ArchivesNext]_archiveVars => ArchivesInv'
  <2> SUFFICES ASSUME ArchivesInv, [ArchivesNext]_archiveVars PROVE ArchivesInv'
    OBVIOUS
  <2>1. CASE UNCHANGED archiveVars
    BY <2>1 DEF archiveVars, ArchivesInv, ArchiveTypes, Compressed, Seeing, Fused, Excused,
                Remembered, Apart, Stored
  <2>2. CASE ArchivesNext
    BY <2>2, BeginKept, FindKept, CompressKept, WriteKept, AnswerKept, ComposeKept
       DEF ArchivesNext
  <2> QED BY <2>1, <2>2
<1> QED BY <1>1, <1>2, PTL DEF ArchivesSpec

(***************************************************************************)
(* Commits, archives and answers keep their types and their bounds, and a  *)
(* text tells only of archives its commit has seen.  (compressor.py)       *)
(***************************************************************************)
THEOREM ArchivesTypeCorrect == ArchivesSpec => []ArchivesTypeOK
<1>1. ArchivesInv => ArchivesTypeOK
  <2> SUFFICES ASSUME ArchivesInv PROVE ArchivesTypeOK
    OBVIOUS
  <2>1. dated \in 0..MaxCommits /\ dated \in Nat
    BY DatedNat, ArchivesAssumption
  <2>2. /\ telling \in Tellings
        /\ \A c \in Commits : commits[c] \in CommitRecords /\ Seeing(c)
    BY DEF ArchivesInv, ArchiveTypes
  <2>3. ASSUME NEW c \in Commits
        PROVE  /\ commits[c].at \in {"none", "look", "compress", "write", "stored", "memory"}
               /\ commits[c].how \in {"llm", "unread", "fallback"} /\ commits[c].compact \in BOOLEAN
               /\ commits[c].created \in 0..dated
    BY <2>1, <2>2 DEF CommitRecords, Seeing, Written
  <2> QED BY <2>1, <2>2, <2>3 DEF ArchivesTypeOK, Tellings, Seeing
<1> QED BY <1>1, ArchivesKept, PTL

(***************************************************************************)
(* Compose tells of every archive of a session, however few abstracts fit, *)
(* but for archives made side by side and those made without the LLM.      *)
(* (archive_store.py:109, memory_service.py:477-522)                       *)
(***************************************************************************)
THEOREM SessionRemembered == ArchivesSpec => []Remembered
<1>1. ArchivesInv => Remembered
  BY DEF ArchivesInv
<1> QED BY <1>1, ArchivesKept, PTL
-----------------------------------------------------------------------------
(***************************************************************************)
(* The registry of accounts: what happens to its files.                    *)
(***************************************************************************)
Names == UserName \cup AgentName \cup Key
AllContents == UNION {Contents(file) : file \in Files}
Registries ==
    {r \in [Files -> [Account -> AllContents]] :
        \A file \in Files, a \in Account : r[file][a] \in Contents(file)}
Copies ==
    {NoCopy} \cup
    {h \in [of : Files \X Account \X Names \X AllContents, exposed : SUBSET (Files \X Account \X Names)] :
        h.of[3] \in NamesIn(h.of[1]) /\ h.of[4] \in Contents(h.of[1])}

FileTypes == registry \in Registries /\ meant \in Registries /\ held \in [Actor -> Copies]

\* What an actor holds to write back says of each entry what was meant, but for
\* those changed since it was read, and the one it changes itself.
CopySound(h) ==
    h # NoCopy => \A n \in NamesIn(h.of[1]) :
        \/ n = h.of[3]
        \/ <<h.of[1], h.of[2], n>> \in reverted \cup h.exposed
        \/ h.of[4][n] = meant[h.of[1]][h.of[2]][n]
HeldSound == \A x \in Actor : CopySound(held[x])

FilesInv == FileTypes /\ HeldSound /\ ChangesStand

\* The assumptions, one at a time.
LEMMA ControlConstants ==
  /\ MaxAsked \in Nat /\ "admin" \in UserName /\ Worker \cap Visitor = {}
  /\ Enrolled \in Seq(Account)
  /\ \A i, j \in DOMAIN Enrolled : Enrolled[i] = Enrolled[j] => i = j
<1>1. MaxAsked \in Nat
  BY ControlAssumption, Zenon
<1>2. "admin" \in UserName
  BY ControlAssumption, Zenon
<1>3. Worker \cap Visitor = {}
  BY ControlAssumption, Zenon
<1>4. Enrolled \in Seq(Account)
  BY ControlAssumption, Zenon
<1>5. \A i, j \in DOMAIN Enrolled : Enrolled[i] = Enrolled[j] => i = j
  BY ControlAssumption, Zenon
<1> QED BY <1>1, <1>2, <1>3, <1>4, <1>5, Zenon

LEMMA AsksTyped ==
  ASSUME NEW ask \in Asked
  PROVE  /\ ask \in [op : Ops, account : Account, user : UserName \cup {"none"},
                     agent : AgentName \cup {"none"}, role : {"admin", "user"}]
         /\ ask.op \in {"create user", "delete user", "set role"} => ask.user \in UserName
         /\ ask.op \in {"create agent", "update agent"} => ask.agent \in AgentName
<1>1. ask \in [op : Ops, account : Account, user : UserName \cup {"none"},
               agent : AgentName \cup {"none"}, role : {"admin", "user"}]
  BY ControlAssumption, Zenon
<1>2. /\ ask.op \in {"create user", "delete user", "set role"} => ask.user # "none"
      /\ ask.op \in {"create agent", "update agent"} => ask.agent # "none"
  BY ControlAssumption, Zenon
<1> QED BY <1>1, <1>2

LEMMA PresentedTyped ==
  ASSUME NEW who \in Presented
  PROVE  /\ who.kind \in {"root", "admin", "user"} /\ who.key \in Nat
         /\ who.kind # "root" => who.account \in Account
<1>1. who \in [kind : {"root", "admin", "user"}, account : Account \cup {"none"}, key : Nat]
  BY ControlAssumption, Zenon
<1>2. who.kind # "root" => who.account \in Account
  BY ControlAssumption, Zenon
<1> QED BY <1>1, <1>2

LEMMA BudgetsTyped ==
  ASSUME NEW budget \in RegistryBudgets
  PROVE  budget \in [fresh : BOOLEAN, requests : 0..MaxAsked, restarts : Nat, faults : Nat]
  BY ControlAssumption, Zenon

LEMMA FileNames ==
  /\ NamesIn("users") = UserName /\ NamesIn("agents") = AgentName /\ NamesIn("audit") = Key
  /\ EntriesOf("users") = [role : {"none", "admin", "user"}, key : 0..MaxAsked]
  /\ EntriesOf("agents") = UserName \cup {"root", "none"}
  /\ EntriesOf("audit") = {"kept", "none"}
  /\ \A file \in Files : NamesIn(file) \subseteq Names /\ Missing(file) \in EntriesOf(file)
<1>1. /\ NamesIn("users") = UserName /\ NamesIn("agents") = AgentName /\ NamesIn("audit") = Key
      /\ EntriesOf("users") = [role : {"none", "admin", "user"}, key : 0..MaxAsked]
      /\ EntriesOf("agents") = UserName \cup {"root", "none"}
      /\ EntriesOf("audit") = {"kept", "none"}
  BY DEF NamesIn, EntriesOf
<1>2. Missing("users") = NoUser /\ Missing("agents") = "none" /\ Missing("audit") = "none"
  BY DEF Missing
<1>3. NoUser \in EntriesOf("users")
  <2>1. MaxAsked \in Nat
    BY ControlConstants
  <2>2. NoUser \in [role : {"none", "admin", "user"}, key : 0..MaxAsked]
    BY <2>1 DEF NoUser
  <2> QED BY <1>1, <2>2
<1> QED BY <1>1, <1>2, <1>3 DEF Files, Names

\* A copy of a file that was read just now.
LEMMA ReadsSound ==
  ASSUME FilesInv, NEW x \in Actor, NEW file \in Files, NEW a \in Account,
         NEW name \in NamesIn(file), NEW entry \in EntriesOf(file),
         Reads(x, file, a, name, entry), UNCHANGED <<registry, meant, reverted>>
  PROVE  FilesInv' /\ held'[x] # NoCopy /\ \A y \in Actor \ {x} : held'[y] = held[y]
<1>1. registry[file][a] \in Contents(file)
  BY DEF FilesInv, FileTypes, Registries
<1>2. PICK content \in Contents(file) :
          /\ content = [registry[file][a] EXCEPT ![name] = entry]
          /\ \A n \in NamesIn(file) \ {name} : content[n] = registry[file][a][n]
  BY <1>1 DEF Contents
<1>3. name \in Names /\ content \in AllContents
  BY <1>2, FileNames DEF AllContents
<1>4. PICK copy : copy = [of |-> <<file, a, name, content>>, exposed |-> {}]
  OBVIOUS
<1>5. /\ copy.of = <<file, a, name, content>> /\ copy.exposed = {}
      /\ copy.of[1] = file /\ copy.of[2] = a /\ copy.of[3] = name /\ copy.of[4] = content
  BY <1>4
<1>6. copy \in Copies /\ copy # NoCopy
  <2>1. copy.of # <<>>
    BY <1>5
  <2> QED BY <1>4, <1>5, <2>1, <1>2, <1>3 DEF Copies, NoCopy
<1>7. held' = [held EXCEPT ![x] = copy]
  BY <1>2, <1>4 DEF Reads
<1>8. held'[x] = copy /\ held' \in [Actor -> Copies] /\ \A y \in Actor \ {x} : held'[y] = held[y]
  BY <1>6, <1>7 DEF FilesInv, FileTypes
<1>9. \A n \in NamesIn(file) \ {name} :
          <<file, a, n>> \in reverted \/ content[n] = meant[file][a][n]
  BY <1>2 DEF FilesInv, ChangesStand
<1>10. \A y \in Actor : CopySound(held[y])'
  <2> TAKE y \in Actor
  <2>1. CASE y = x
    BY <2>1, <1>5, <1>8, <1>9 DEF CopySound
  <2>2. CASE y # x
    BY <2>2, <1>8 DEF CopySound, FilesInv, HeldSound
  <2> QED BY <2>1, <2>2
<1>11. ChangesStand' /\ FileTypes'
  BY <1>8 DEF ChangesStand, FileTypes, FilesInv
<1> QED BY <1>6, <1>8, <1>10, <1>11 DEF FilesInv, HeldSound

\* A file that is written back.
LEMMA WritesSound ==
  ASSUME FilesInv, NEW x \in Actor, held[x] # NoCopy, WritesBack(x)
  PROVE  FilesInv' /\ held'[x] = NoCopy /\ \A y \in Actor \ {x} : held'[y] # NoCopy <=> held[y] # NoCopy
<1> DEFINE h == held[x]
<1>0. PICK file \in Files, a \in Account, name \in Names, content \in AllContents :
        /\ h.of[1] = file /\ h.of[2] = a /\ h.of[3] = name /\ h.of[4] = content
        /\ name \in NamesIn(file) /\ content \in Contents(file)
  BY DEF FilesInv, FileTypes, Copies
<1>1. PICK exposed \in SUBSET (Files \X Account \X Names) : exposed = h.exposed
  BY DEF FilesInv, FileTypes, Copies
<1>2. \A n \in NamesIn(file) \ {name} :
          <<file, a, n>> \in reverted \cup exposed \/ content[n] = meant[file][a][n]
  BY <1>0, <1>1 DEF FilesInv, HeldSound, CopySound
<1>3. /\ registry' = [registry EXCEPT ![file][a] = content]
      /\ meant' = [meant EXCEPT ![file][a][name] = content[name]]
      /\ reverted' = (reverted \cup exposed) \ {<<file, a, name>>}
  BY <1>0, <1>1 DEF WritesBack
<1>4. registry' \in Registries
      /\ \A f \in Files, b \in Account : registry'[f][b] = IF f = file /\ b = a THEN content ELSE registry[f][b]
  BY <1>0, <1>3 DEF Registries, FilesInv, FileTypes
<1>5. content \in [NamesIn(file) -> EntriesOf(file)]
  BY <1>0 DEF Contents
<1>6. /\ meant' \in Registries
      /\ \A f \in Files, b \in Account : \A n \in NamesIn(f) :
            meant'[f][b][n] = IF f = file /\ b = a /\ n = name THEN content[name] ELSE meant[f][b][n]
  <2>1. meant[file][a] \in [NamesIn(file) -> EntriesOf(file)]
    BY DEF FilesInv, FileTypes, Registries, Contents
  <2>2. PICK new : new = [meant[file][a] EXCEPT ![name] = content[name]]
    OBVIOUS
  <2>3. /\ new \in Contents(file) /\ new \in AllContents
        /\ \A n \in NamesIn(file) : new[n] = IF n = name THEN content[name] ELSE meant[file][a][n]
    BY <1>0, <1>5, <2>1, <2>2 DEF Contents, AllContents
  <2>4. meant' = [meant EXCEPT ![file][a] = new]
    BY <1>3, <2>2
  <2>5. meant' \in Registries
        /\ \A f \in Files, b \in Account : meant'[f][b] = IF f = file /\ b = a THEN new ELSE meant[f][b]
    BY <2>3, <2>4 DEF Registries, FilesInv, FileTypes
  <2> QED BY <2>3, <2>5
<1>7. ChangesStand'
  <2> SUFFICES ASSUME NEW f \in Files, NEW b \in Account, NEW n \in NamesIn(f),
                      <<f, b, n>> \notin reverted'
               PROVE  registry'[f][b][n] = meant'[f][b][n]
    BY DEF ChangesStand
  <2>1. CASE f = file /\ b = a /\ n = name
    BY <2>1, <1>4, <1>6
  <2>2. CASE f = file /\ b = a /\ n # name
    <3>1. <<f, b, n>> \notin reverted \cup exposed
      BY <2>2, <1>3
    <3> QED BY <2>2, <3>1, <1>2, <1>4, <1>6
  <2>3. CASE ~(f = file /\ b = a)
    <3>1. <<f, b, n>> \notin reverted
      BY <2>3, <1>3
    <3> QED BY <2>3, <3>1, <1>4, <1>6 DEF FilesInv, ChangesStand
  <2> QED BY <2>1, <2>2, <2>3
<1>8. /\ held'[x] = NoCopy
      /\ \A y \in Actor \ {x} :
            held'[y] = IF SameFile(held[y], h)
                       THEN [held[y] EXCEPT !.exposed = @ \cup {<<file, a, name>>}] ELSE held[y]
      /\ held' = [y \in Actor |-> held'[y]]
  BY <1>0 DEF WritesBack
<1>9. \A y \in Actor \ {x} :
        /\ held'[y] \in Copies /\ (held'[y] # NoCopy <=> held[y] # NoCopy)
        /\ held'[y].of = held[y].of
        /\ held'[y] # NoCopy => held[y].exposed \subseteq held'[y].exposed
        /\ held'[y] # NoCopy /\ held[y].of[1] = file /\ held[y].of[2] = a =>
              <<file, a, name>> \in held'[y].exposed
  <2> TAKE y \in Actor \ {x}
  <2>1. held[y] \in Copies
    BY DEF FilesInv, FileTypes
  <2>2. CASE SameFile(held[y], h)
    <3>1. held[y] # NoCopy /\ held[y].exposed \in SUBSET (Files \X Account \X Names)
      BY <2>1, <2>2 DEF SameFile, Copies
    <3>2. held'[y] = [of |-> held[y].of, exposed |-> held[y].exposed \cup {<<file, a, name>>}]
      BY <1>8, <2>1, <2>2, <3>1 DEF Copies
    <3>3. held[y].of # <<>>
      <4>1. held[y].of \in Files \X Account \X Names \X AllContents
        BY <2>1, <3>1 DEF Copies
      <4>2. PICK f, b, n, c : held[y].of = <<f, b, n, c>>
        BY <4>1
      <4> QED BY <4>2
    <3> QED BY <1>0, <2>1, <3>1, <3>2, <3>3 DEF Copies, NoCopy
  <2>3. CASE ~SameFile(held[y], h)
    BY <1>0, <1>8, <2>1, <2>3 DEF SameFile
  <2> QED BY <2>2, <2>3
<1>10. held' \in [Actor -> Copies]
  BY <1>8, <1>9 DEF Copies
<1>11. \A y \in Actor : CopySound(held[y])'
  <2> TAKE y \in Actor
  <2>1. CASE y = x
    BY <2>1, <1>8 DEF CopySound
  <2>2. CASE y # x
    <3> SUFFICES ASSUME held'[y] # NoCopy, NEW n \in NamesIn(held[y].of[1]),
                        n # held[y].of[3],
                        <<held[y].of[1], held[y].of[2], n>> \notin reverted' \cup held'[y].exposed
                 PROVE  held[y].of[4][n] = meant'[held[y].of[1]][held[y].of[2]][n]
      BY <2>2, <1>9 DEF CopySound
    <3>1. held[y] # NoCopy /\ held[y] \in Copies
      BY <2>2, <1>9 DEF FilesInv, FileTypes
    <3>2. PICK f \in Files, b \in Account : held[y].of[1] = f /\ held[y].of[2] = b
      BY <3>1 DEF Copies
    <3>3. ~(f = file /\ b = a /\ n = name)
      BY <2>2, <3>2, <1>9
    <3>4. <<f, b, n>> \notin reverted \cup held[y].exposed
      BY <2>2, <3>2, <3>3, <1>3, <1>9
    <3>5. held[y].of[4][n] = meant[f][b][n]
      BY <3>1, <3>2, <3>4 DEF FilesInv, HeldSound, CopySound
    <3> QED BY <3>2, <3>3, <3>5, <1>6
  <2> QED BY <2>1, <2>2
<1> QED BY <1>4, <1>6, <1>7, <1>8, <1>9, <1>10, <1>11 DEF FilesInv, FileTypes, HeldSound
-----------------------------------------------------------------------------
WorkerStates == {"down", "account", "write account", "admin", "write admin", "up"}
VisitorStates == {"idle", "account", "owner", "read", "write", "log", "append"}
WorkerRecords == [at : WorkerStates, todo : SUBSET DOMAIN Enrolled, seen : SUBSET Account]
Statuses == {0, 200, 400, 401, 403, 404, 500}
VisitorRecords ==
    [at : VisitorStates, ask : Asked \cup {NoRequest}, id : 0..MaxAsked,
     by : UserName \cup {"none", "root"}, worker : Worker \cup {"none"}, status : Statuses]

\* An account that was listed, and may have been dropped by a late write.
WasListed(a) == a \in accounts \/ <<"accounts", a>> \in reverted
FirstListed == Enrolled[1] \in accounts

(***************************************************************************)
(* What a worker has passed was listed; the first account, which nobody    *)
(* enrols after another, is listed for good.                               *)
(***************************************************************************)
WorkerSound(w) ==
    /\ actor[w] \in WorkerRecords
    /\ actor[w].at = "write admin" => held[w] # NoCopy
    /\ actor[w].at = "up" => actor[w].todo = {}
    /\ actor[w].at \notin {"down", "up"} => actor[w].todo # {}
    /\ actor[w].at = "write account" => Enrolled[PlaceOf(w)] \in actor[w].seen
    /\ actor[w].at \in {"admin", "write admin"} => WasListed(Enrolled[PlaceOf(w)])
    /\ actor[w].at # "down" =>
          \A i \in DOMAIN Enrolled : i \in actor[w].todo \/ WasListed(Enrolled[i])
    /\ 1 \in DOMAIN Enrolled =>
          /\ actor[w].at # "down" => 1 \in actor[w].todo \/ FirstListed
          /\ actor[w].at = "write account" => Enrolled[1] \in actor[w].seen
          /\ actor[w].at \in {"admin", "write admin"} => FirstListed

VisitorSound(c) ==
    /\ actor[c] \in VisitorRecords
    /\ actor[c].at # "idle" =>
          actor[c].ask \in Asked /\ actor[c].ask.op # "look" /\ actor[c].id \in Key
    /\ actor[c].at \in {"write", "append"} => held[c] # NoCopy

ActorTypes ==
    /\ accounts \subseteq Account
    /\ credit \in [fresh : BOOLEAN, requests : 0..MaxAsked, restarts : Nat, faults : Nat]
    /\ actor \in [Actor -> WorkerRecords \cup VisitorRecords]

ActorInv ==
    /\ ActorTypes
    /\ \A w \in Worker : WorkerSound(w)
    /\ \A c \in Visitor : VisitorSound(c)

\* The place a worker is at.
LEMMA PlaceFound ==
  ASSUME ActorInv, NEW w \in Worker, actor[w].at \notin {"down", "up"}
  PROVE  /\ PlaceOf(w) \in DOMAIN Enrolled /\ PlaceOf(w) \in actor[w].todo
         /\ 1 \in actor[w].todo => PlaceOf(w) = 1
         /\ Enrolled[PlaceOf(w)] \in Account
<1>1. Enrolled \in Seq(Account)
  BY ControlConstants
<1>2. PICK todo \in SUBSET DOMAIN Enrolled : todo = actor[w].todo /\ todo # {}
  BY DEF ActorInv, WorkerSound, WorkerRecords
<1>3. todo \in SUBSET Nat /\ \A i \in todo : i >= 1
  BY <1>1, <1>2
<1>4. \E i \in todo : \A j \in todo : i <= j
  BY <1>2, <1>3, Smallest
<1>5. PlaceOf(w) \in todo /\ \A j \in todo : PlaceOf(w) <= j
  BY <1>2, <1>4 DEF PlaceOf
<1>6. 1 \in todo => PlaceOf(w) = 1
  BY <1>3, <1>5
<1> QED BY <1>1, <1>2, <1>5, <1>6

\* One actor moves, and what was listed stays so.
Keeps ==
    /\ \A a \in Account : WasListed(a) => WasListed(a)'
    /\ 1 \in DOMAIN Enrolled /\ FirstListed => FirstListed'

LEMMA EnrolledTyped == \A i \in DOMAIN Enrolled : Enrolled[i] \in Account
  BY ControlConstants

LEMMA OthersStay ==
  ASSUME ActorInv, Keeps, NEW x \in Actor, actor'[x] = actor[x],
         held'[x] # NoCopy <=> held[x] # NoCopy
  PROVE  (x \in Worker => WorkerSound(x)') /\ (x \in Visitor => VisitorSound(x)')
<1>1. ASSUME x \in Worker PROVE WorkerSound(x)'
  <2>1. WorkerSound(x)
    BY <1>1 DEF ActorInv
  <2>2. PlaceOf(x)' = PlaceOf(x)
    BY DEF PlaceOf
  <2>3. actor[x].at \in {"admin", "write admin"} => Enrolled[PlaceOf(x)] \in Account
    BY <1>1, PlaceFound
  <2>4. \A i \in DOMAIN Enrolled : WasListed(Enrolled[i]) => WasListed(Enrolled[i])'
    BY EnrolledTyped DEF Keeps
  <2>5. actor[x].at \in {"admin", "write admin"} =>
            (WasListed(Enrolled[PlaceOf(x)]) => WasListed(Enrolled[PlaceOf(x)])')
    BY <2>2, <2>3 DEF Keeps, WasListed
  <2>6. 1 \in DOMAIN Enrolled /\ FirstListed => FirstListed'
    BY DEF Keeps
  <2> HIDE DEF WasListed, FirstListed, PlaceOf
  <2> QED BY <2>1, <2>2, <2>4, <2>5, <2>6 DEF WorkerSound
<1>2. ASSUME x \in Visitor PROVE VisitorSound(x)'
  BY <1>2 DEF ActorInv, VisitorSound
<1> QED BY <1>1, <1>2

LEMMA ActorMoves ==
  ASSUME ActorInv, Keeps, NEW x \in Actor, NEW rec \in WorkerRecords \cup VisitorRecords,
         actor' = [actor EXCEPT ![x] = rec],
         \A y \in Actor \ {x} : held'[y] # NoCopy <=> held[y] # NoCopy,
         accounts' \subseteq Account,
         credit' \in [fresh : BOOLEAN, requests : 0..MaxAsked, restarts : Nat, faults : Nat],
         x \in Worker => WorkerSound(x)', x \in Visitor => VisitorSound(x)'
  PROVE  ActorInv'
<1>1. actor' \in [Actor -> WorkerRecords \cup VisitorRecords]
  BY DEF ActorInv, ActorTypes
<1>2. \A y \in Actor \ {x} : actor'[y] = actor[y]
  BY DEF ActorInv, ActorTypes
<1>3. \A w \in Worker : WorkerSound(w)'
  BY <1>2, OthersStay DEF Actor
<1>4. \A c \in Visitor : VisitorSound(c)'
  BY <1>2, OthersStay DEF Actor
<1> QED BY <1>1, <1>3, <1>4 DEF ActorInv, ActorTypes

LEMMA NothingListed ==
  ASSUME UNCHANGED <<accounts, reverted>>
  PROVE  Keeps
  BY DEF Keeps, WasListed, FirstListed

LEMMA WritesKeep ==
  ASSUME FilesInv, NEW x \in Actor, held[x] # NoCopy, WritesBack(x), UNCHANGED accounts
  PROVE  Keeps
<1>1. PICK file \in Files, a \in Account, name \in Names :
         held[x].of[1] = file /\ held[x].of[2] = a /\ held[x].of[3] = name
  BY DEF FilesInv, FileTypes, Copies
<1>2. \A b : <<"accounts", b>> # <<file, a, name>>
  OBVIOUS
<1>3. reverted \ {<<file, a, name>>} \subseteq reverted'
  BY <1>1 DEF WritesBack
<1> QED BY <1>2, <1>3 DEF Keeps, WasListed, FirstListed

\* The worker goes to its next account, when it has passed one that was listed.
LEMMA NextPlace ==
  ASSUME ActorInv, Keeps, NEW w \in Worker, actor[w].at \notin {"down", "up"}, NextAccount(w),
         NEW a \in Account, a = Enrolled[PlaceOf(w)], WasListed(a)', 1 \in DOMAIN Enrolled => FirstListed',
         \A y \in Actor \ {w} : held'[y] # NoCopy <=> held[y] # NoCopy,
         UNCHANGED <<accounts, credit>>
  PROVE  ActorInv'
<1>1. PICK p \in DOMAIN Enrolled : p = PlaceOf(w) /\ p \in actor[w].todo
  BY PlaceFound
<1>2. PICK rest \in SUBSET DOMAIN Enrolled : rest = actor[w].todo \ {p}
  BY DEF ActorInv, WorkerSound, WorkerRecords
<1>3. PICK rec : rec = [at |-> IF rest = {} THEN "up" ELSE "account", todo |-> rest, seen |-> {}]
  OBVIOUS
<1>4. actor' = [actor EXCEPT ![w] = rec] /\ rec \in WorkerRecords
  BY <1>1, <1>2, <1>3 DEF NextAccount, WorkerRecords, WorkerStates
<1>5. actor'[w] = rec
  BY <1>4 DEF ActorInv, ActorTypes, Actor
<1>6. a = Enrolled[p]
  BY <1>1
<1>7. \A i \in DOMAIN Enrolled : i \in rest \/ WasListed(Enrolled[i])'
  <2> TAKE i \in DOMAIN Enrolled
  <2>1. i \in actor[w].todo \/ WasListed(Enrolled[i])
    BY DEF ActorInv, WorkerSound
  <2>2. WasListed(Enrolled[i]) => WasListed(Enrolled[i])'
    BY EnrolledTyped DEF Keeps
  <2>3. i = p => WasListed(Enrolled[i])'
    BY <1>6
  <2> QED BY <2>1, <2>2, <2>3, <1>2
<1>8. WorkerSound(w)'
  <2>1. /\ actor'[w] \in WorkerRecords /\ actor'[w].todo = rest /\ actor'[w].at \in {"up", "account"}
        /\ actor'[w].at = "up" <=> rest = {}
    BY <1>3, <1>4, <1>5
  <2> QED BY <2>1, <1>7 DEF WorkerSound
<1>9. w \in Actor /\ w \notin Visitor /\ rec \in WorkerRecords \cup VisitorRecords
  BY <1>4, ControlConstants DEF Actor
<1>10. accounts' \subseteq Account
       /\ credit' \in [fresh : BOOLEAN, requests : 0..MaxAsked, restarts : Nat, faults : Nat]
  BY DEF ActorInv, ActorTypes
<1> QED BY <1>4, <1>8, <1>9, <1>10, ActorMoves

-----------------------------------------------------------------------------
LEMMA EnrolsMoves ==
  ASSUME ActorInv, NEW w \in Worker, EnrolBegin(w)
  PROVE  ActorInv'
<1>1. PICK todo \in SUBSET DOMAIN Enrolled :
         /\ todo = {i \in DOMAIN Enrolled : Enrolled[i] \notin accounts}
         /\ actor' = [actor EXCEPT ![w] = [at |-> IF todo = {} THEN "up" ELSE "account",
                                          todo |-> todo, seen |-> {}]]
         /\ UNCHANGED <<accounts, held, credit, reverted>>
  BY DEF EnrolBegin, Enrols
<1>2. PICK rec : rec = [at |-> IF todo = {} THEN "up" ELSE "account", todo |-> todo, seen |-> {}]
  OBVIOUS
<1>3. actor' = [actor EXCEPT ![w] = rec] /\ rec \in WorkerRecords
  BY <1>1, <1>2 DEF WorkerRecords, WorkerStates
<1>4. actor'[w] = rec
  BY <1>3 DEF ActorInv, ActorTypes, Actor
<1>5. Keeps
  BY <1>1, NothingListed
<1>6. WorkerSound(w)'
  <2>1. /\ actor'[w] \in WorkerRecords /\ actor'[w].todo = todo /\ actor'[w].at \in {"up", "account"}
        /\ actor'[w].at = "up" <=> todo = {}
    BY <1>2, <1>3, <1>4
  <2>2. \A i \in DOMAIN Enrolled : i \in todo \/ (WasListed(Enrolled[i])' /\ Enrolled[i] \in accounts')
    BY <1>1 DEF WasListed
  <2> QED BY <2>1, <2>2 DEF WorkerSound, FirstListed
<1>7. w \in Actor /\ w \notin Visitor /\ rec \in WorkerRecords \cup VisitorRecords
  BY <1>3, ControlConstants DEF Actor
<1> QED BY <1>1, <1>3, <1>5, <1>6, <1>7, ActorMoves DEF ActorInv, ActorTypes

LEMMA EnrolAccountMoves ==
  ASSUME ActorInv, NEW w \in Worker, EnrolAccount(w)
  PROVE  ActorInv'
<1>1. actor[w].at = "account" /\ UNCHANGED <<accounts, held, credit, reverted>>
  BY DEF EnrolAccount
<1>2. PICK p \in DOMAIN Enrolled, a \in Account :
         /\ p = PlaceOf(w) /\ p \in actor[w].todo /\ a = Enrolled[p]
         /\ 1 \in actor[w].todo => p = 1
  BY <1>1, PlaceFound
<1>3. WorkerSound(w) /\ actor[w] \in WorkerRecords
  BY DEF ActorInv, WorkerSound
<1>4. Keeps
  BY <1>1, NothingListed
<1>5. 1 \in DOMAIN Enrolled => p = 1 \/ FirstListed
  BY <1>1, <1>2, <1>3 DEF WorkerSound
<1>6. CASE a \in accounts
  <2>1. NextAccount(w)
    BY <1>2, <1>6 DEF EnrolAccount
  <2>2. WasListed(a)' /\ (1 \in DOMAIN Enrolled => FirstListed')
    BY <1>1, <1>2, <1>5, <1>6 DEF WasListed, FirstListed
  <2> QED BY <1>1, <1>2, <1>4, <2>1, <2>2, NextPlace
<1>7. CASE a \notin accounts
  <2>1. PICK seen \in SUBSET Account : seen = accounts \cup {a}
    BY DEF ActorInv, ActorTypes
  <2>2. actor' = [actor EXCEPT ![w].at = "write account", ![w].seen = seen]
    BY <1>2, <1>7, <2>1 DEF EnrolAccount
  <2>3. PICK rec : rec = [actor[w] EXCEPT !.at = "write account", !.seen = seen]
    OBVIOUS
  <2>4. /\ rec \in WorkerRecords /\ rec.at = "write account" /\ rec.seen = seen
        /\ rec.todo = actor[w].todo
    BY <1>3, <2>3 DEF WorkerRecords, WorkerStates
  <2>5. actor' = [actor EXCEPT ![w] = rec]
    BY <2>2, <2>3 DEF ActorInv, ActorTypes, Actor
  <2>6. actor'[w] = rec
    BY <2>5 DEF ActorInv, ActorTypes, Actor
  <2>7. PlaceOf(w)' = p
    BY <1>2, <2>4, <2>6 DEF PlaceOf
  <2>8. WorkerSound(w)'
    <3>1. \A i \in DOMAIN Enrolled : i \in rec.todo \/ WasListed(Enrolled[i])'
      BY <1>1, <1>3, <2>4 DEF WorkerSound, WasListed
    <3>2. 1 \in DOMAIN Enrolled => (1 \in rec.todo \/ FirstListed') /\ Enrolled[1] \in seen
      BY <1>1, <1>2, <1>3, <1>5, <2>1, <2>4 DEF WorkerSound, FirstListed
    <3>3. rec.todo # {} /\ Enrolled[p] \in seen
      BY <1>2, <2>1, <2>4
    <3> HIDE DEF PlaceOf, WasListed, FirstListed
    <3> QED BY <3>1, <3>2, <3>3, <2>4, <2>6, <2>7 DEF WorkerSound
  <2>9. w \in Actor /\ w \notin Visitor
    BY ControlConstants DEF Actor
  <2> QED BY <1>1, <1>4, <2>4, <2>5, <2>8, <2>9, ActorMoves DEF ActorInv, ActorTypes
<1> QED BY <1>6, <1>7

LEMMA EnrolWriteMoves ==
  ASSUME ActorInv, NEW w \in Worker, EnrolWrite(w)
  PROVE  ActorInv'
<1>1. /\ actor[w].at = "write account" /\ UNCHANGED <<held, credit>>
      /\ actor' = [actor EXCEPT ![w].at = "admin"]
  BY DEF EnrolWrite, MovesTo
<1>2. PICK p \in DOMAIN Enrolled, a \in Account :
         p = PlaceOf(w) /\ p \in actor[w].todo /\ a = Enrolled[p]
  BY <1>1, PlaceFound
<1>3. WorkerSound(w) /\ actor[w] \in WorkerRecords
  BY DEF ActorInv, WorkerSound
<1>4. PICK seen \in SUBSET Account : seen = actor[w].seen
  BY <1>3 DEF WorkerRecords
<1>5. a \in seen /\ (1 \in DOMAIN Enrolled => Enrolled[1] \in seen)
  BY <1>1, <1>2, <1>3, <1>4 DEF WorkerSound
<1>6. /\ accounts' = seen
      /\ reverted' = (reverted \cup {<<"accounts", b>> : b \in accounts}) \ {<<"accounts", b>> : b \in seen}
  BY <1>4 DEF EnrolWrite
<1>7. Keeps /\ (1 \in DOMAIN Enrolled => FirstListed')
  <2>1. ASSUME NEW b \in Account, WasListed(b) PROVE WasListed(b)'
    <3>1. CASE b \in seen
      BY <1>6, <3>1 DEF WasListed
    <3>2. CASE b \notin seen
      <4>1. <<"accounts", b>> \in reverted \cup {<<"accounts", c>> : c \in accounts}
        BY <2>1 DEF WasListed
      <4>2. <<"accounts", b>> \notin {<<"accounts", c>> : c \in seen}
        BY <3>2
      <4> QED BY <4>1, <4>2, <1>6 DEF WasListed
    <3> QED BY <3>1, <3>2
  <2> QED BY <2>1, <1>5, <1>6 DEF Keeps, FirstListed
<1>8. PICK rec : rec = [actor[w] EXCEPT !.at = "admin"]
  OBVIOUS
<1>9. rec \in WorkerRecords /\ rec.at = "admin" /\ rec.todo = actor[w].todo
  BY <1>3, <1>8 DEF WorkerRecords, WorkerStates
<1>10. actor' = [actor EXCEPT ![w] = rec] /\ actor'[w] = rec
  BY <1>1, <1>8 DEF ActorInv, ActorTypes, Actor
<1>11. PlaceOf(w)' = p
  BY <1>2, <1>9, <1>10 DEF PlaceOf
<1>12. WorkerSound(w)'
  <2>1. \A i \in DOMAIN Enrolled : i \in rec.todo \/ WasListed(Enrolled[i])'
    <3> TAKE i \in DOMAIN Enrolled
    <3>1. i \in actor[w].todo \/ WasListed(Enrolled[i])
      BY <1>1, <1>3 DEF WorkerSound
    <3>2. WasListed(Enrolled[i]) => WasListed(Enrolled[i])'
      BY <1>7, EnrolledTyped DEF Keeps
    <3> QED BY <3>1, <3>2, <1>9
  <2>2. WasListed(a)'
    BY <1>5, <1>6 DEF WasListed
  <2>3. WasListed(Enrolled[p])'
    BY <1>2, <2>2
  <2>4. rec.todo # {}
    BY <1>2, <1>9
  <2>5. WasListed(Enrolled[PlaceOf(w)])'
    BY <2>3, <1>11 DEF WasListed
  <2> HIDE DEF PlaceOf, WasListed, FirstListed
  <2> QED BY <2>1, <2>4, <2>5, <1>7, <1>9, <1>10 DEF WorkerSound
<1>13. w \in Actor /\ w \notin Visitor /\ accounts' \subseteq Account
  BY <1>6, ControlConstants DEF Actor
<1> QED BY <1>1, <1>7, <1>9, <1>10, <1>12, <1>13, ActorMoves DEF ActorInv, ActorTypes

\* A step that leaves the files and what was read of them alone.
LEMMA FilesLeft ==
  ASSUME FilesInv, UNCHANGED <<registry, held, meant, reverted>>
  PROVE  FilesInv'
  BY DEF FilesInv, FileTypes, HeldSound, CopySound, ChangesStand

LEMMA EnrolWriteLeaves ==
  ASSUME FilesInv, ActorInv, NEW w \in Worker, EnrolWrite(w)
  PROVE  FilesInv'
<1>1. /\ UNCHANGED <<registry, held, meant>>
      /\ reverted' = (reverted \cup {<<"accounts", a>> : a \in accounts})
                        \ {<<"accounts", a>> : a \in actor[w].seen}
  BY DEF EnrolWrite
<1>2. \A f \in Files, a \in Account : \A n \in NamesIn(f) :
         <<f, a, n>> \in reverted => <<f, a, n>> \in reverted'
  <2> SUFFICES ASSUME NEW f \in Files, NEW a \in Account, NEW n \in NamesIn(f), <<f, a, n>> \in reverted
               PROVE  <<f, a, n>> \in reverted'
    OBVIOUS
  <2>1. \A b : <<"accounts", b>> # <<f, a, n>>
    OBVIOUS
  <2> QED BY <2>1, <1>1
<1>3. ASSUME NEW x \in Actor PROVE CopySound(held[x])'
  <2>1. held[x] \in Copies /\ CopySound(held[x])
    BY DEF FilesInv, FileTypes, HeldSound
  <2>2. CASE held[x] = NoCopy
    BY <2>2, <1>1 DEF CopySound
  <2>3. CASE held[x] # NoCopy
    <3>1. held[x].of[1] \in Files /\ held[x].of[2] \in Account
      BY <2>1, <2>3 DEF Copies
    <3> QED BY <2>1, <2>3, <3>1, <1>1, <1>2 DEF CopySound
  <2> QED BY <2>2, <2>3
<1> QED BY <1>1, <1>2, <1>3 DEF FilesInv, FileTypes, HeldSound, ChangesStand

\* A worker at the admin of its account.
LEMMA EnrolAdminMoves ==
  ASSUME FilesInv, ActorInv, NEW w \in Worker, EnrolAdmin(w)
  PROVE  FilesInv' /\ ActorInv'
<1>1. actor[w].at = "admin" /\ UNCHANGED <<accounts, registry, credit, meant, reverted>>
  BY DEF EnrolAdmin
<1>2. PICK p \in DOMAIN Enrolled, a \in Account :
         p = PlaceOf(w) /\ p \in actor[w].todo /\ a = Enrolled[p]
  BY <1>1, PlaceFound
<1>3. WorkerSound(w) /\ actor[w] \in WorkerRecords
  BY DEF ActorInv, WorkerSound
<1>4. Keeps
  BY <1>1, NothingListed
<1>5. WasListed(a) /\ (1 \in DOMAIN Enrolled => FirstListed)
  BY <1>1, <1>2, <1>3 DEF WorkerSound
<1>6. WasListed(a)' /\ (1 \in DOMAIN Enrolled => FirstListed')
  BY <1>4, <1>5 DEF Keeps
<1>7. CASE registry["users"][a]["admin"] # NoUser
  <2>1. NextAccount(w) /\ UNCHANGED held
    BY <1>2, <1>7 DEF EnrolAdmin
  <2> QED BY <1>1, <1>2, <1>4, <1>6, <2>1, NextPlace, FilesLeft
<1>8. CASE registry["users"][a]["admin"] = NoUser
  <2>1. PICK entry : entry = [role |-> "admin", key |-> 0]
    OBVIOUS
  <2>2. "users" \in Files /\ "admin" \in NamesIn("users") /\ entry \in EntriesOf("users")
    BY <2>1, ControlConstants, FileNames DEF Files
  <2>3. Reads(w, "users", a, "admin", entry) /\ actor' = [actor EXCEPT ![w].at = "write admin"]
    BY <1>2, <1>8, <2>1 DEF EnrolAdmin, MovesTo
  <2>4. w \in Actor /\ w \notin Visitor
    BY ControlConstants DEF Actor
  <2>5. FilesInv' /\ held'[w] # NoCopy /\ \A y \in Actor \ {w} : held'[y] = held[y]
    BY <1>1, <2>2, <2>3, <2>4, ReadsSound
  <2>6. PICK rec : rec = [actor[w] EXCEPT !.at = "write admin"]
    OBVIOUS
  <2>7. rec \in WorkerRecords /\ rec.at = "write admin" /\ rec.todo = actor[w].todo
    BY <1>3, <2>6 DEF WorkerRecords, WorkerStates
  <2>8. actor' = [actor EXCEPT ![w] = rec] /\ actor'[w] = rec
    BY <2>3, <2>4, <2>6 DEF ActorInv, ActorTypes
  <2>9. PlaceOf(w)' = p
    BY <1>2, <2>7, <2>8 DEF PlaceOf
  <2>10. WorkerSound(w)'
    <3>1. \A i \in DOMAIN Enrolled : i \in rec.todo \/ WasListed(Enrolled[i])'
      BY <1>1, <1>3, <2>7 DEF WorkerSound, WasListed
    <3>2. WasListed(Enrolled[PlaceOf(w)])'
      BY <1>2, <1>6, <2>9 DEF WasListed
    <3>3. rec.todo # {}
      BY <1>2, <2>7
    <3> HIDE DEF PlaceOf, WasListed, FirstListed
    <3> QED BY <3>1, <3>2, <3>3, <1>6, <2>5, <2>7, <2>8 DEF WorkerSound
  <2> QED BY <1>1, <1>4, <2>4, <2>5, <2>7, <2>8, <2>10, ActorMoves DEF ActorInv, ActorTypes
<1> QED BY <1>7, <1>8

LEMMA EnrolAdminWriteMoves ==
  ASSUME FilesInv, ActorInv, NEW w \in Worker, EnrolAdminWrite(w)
  PROVE  FilesInv' /\ ActorInv'
<1>1. actor[w].at = "write admin" /\ WritesBack(w) /\ NextAccount(w) /\ UNCHANGED <<accounts, credit>>
  BY DEF EnrolAdminWrite
<1>2. PICK p \in DOMAIN Enrolled, a \in Account : p = PlaceOf(w) /\ a = Enrolled[p]
  BY <1>1, PlaceFound
<1>3. w \in Actor /\ WorkerSound(w)
  BY DEF ActorInv, Actor
<1>4. held[w] # NoCopy /\ WasListed(a) /\ (1 \in DOMAIN Enrolled => FirstListed)
  BY <1>1, <1>2, <1>3 DEF WorkerSound
<1>5. FilesInv' /\ \A y \in Actor \ {w} : held'[y] # NoCopy <=> held[y] # NoCopy
  BY <1>1, <1>3, <1>4, WritesSound
<1>6. Keeps
  BY <1>1, <1>3, <1>4, WritesKeep
<1>7. WasListed(a)' /\ (1 \in DOMAIN Enrolled => FirstListed')
  BY <1>4, <1>6 DEF Keeps
<1> QED BY <1>1, <1>2, <1>5, <1>6, <1>7, NextPlace
-----------------------------------------------------------------------------
\* A client that moves on, with a record of its own.
LEMMA VisitorMoves ==
  ASSUME ActorInv, NEW c \in Visitor, NEW rec \in VisitorRecords,
         actor' = [actor EXCEPT ![c] = rec], UNCHANGED accounts, Keeps,
         rec.at # "idle" => rec.ask \in Asked /\ rec.ask.op # "look" /\ rec.id \in Key,
         rec.at \in {"write", "append"} => held'[c] # NoCopy,
         \A y \in Actor \ {c} : held'[y] # NoCopy <=> held[y] # NoCopy,
         credit' \in [fresh : BOOLEAN, requests : 0..MaxAsked, restarts : Nat, faults : Nat]
  PROVE  ActorInv'
<1>1. c \in Actor /\ c \notin Worker
  BY ControlConstants DEF Actor
<1>2. actor'[c] = rec
  BY <1>1 DEF ActorInv, ActorTypes
<1>3. VisitorSound(c)'
  BY <1>2 DEF VisitorSound
<1> QED BY <1>1, <1>3, ActorMoves DEF ActorInv, ActorTypes

LEMMA RestTyped == \A status \in Statuses : [AtRest EXCEPT !.status = status] \in VisitorRecords
                        /\ [AtRest EXCEPT !.status = status].at = "idle"
<1>1. MaxAsked \in Nat
  BY ControlConstants
<1> QED BY <1>1 DEF AtRest, VisitorRecords, VisitorStates, NoRequest

\* A client that is answered, or goes on with its request.
LEMMA AnswersMove ==
  ASSUME ActorInv, NEW c \in Visitor, NEW status \in Statuses, AnswersWith(c, status),
         UNCHANGED accounts, Keeps,
         \A y \in Actor \ {c} : held'[y] # NoCopy <=> held[y] # NoCopy,
         credit' \in [fresh : BOOLEAN, requests : 0..MaxAsked, restarts : Nat, faults : Nat]
  PROVE  ActorInv'
<1>1. PICK rec \in VisitorRecords : rec = [AtRest EXCEPT !.status = status] /\ rec.at = "idle"
  BY RestTyped
<1>2. actor' = [actor EXCEPT ![c] = rec]
  BY <1>1 DEF AnswersWith
<1> QED BY <1>1, <1>2, VisitorMoves

LEMMA VisitorGoesOn ==
  ASSUME ActorInv, NEW c \in Visitor, NEW at \in VisitorStates, MovesTo(c, at),
         actor[c].at # "idle", UNCHANGED <<accounts, credit>>, Keeps,
         at \in {"write", "append"} => held'[c] # NoCopy,
         \A y \in Actor \ {c} : held'[y] # NoCopy <=> held[y] # NoCopy
  PROVE  ActorInv'
<1>1. c \in Actor /\ VisitorSound(c)
  BY DEF ActorInv, Actor
<1>2. PICK rec : rec = [actor[c] EXCEPT !.at = at]
  OBVIOUS
<1>3. rec \in VisitorRecords /\ rec.at = at /\ rec.ask = actor[c].ask /\ rec.id = actor[c].id
  BY <1>1, <1>2 DEF VisitorSound, VisitorRecords
<1>4. actor' = [actor EXCEPT ![c] = rec]
  BY <1>1, <1>2 DEF MovesTo, ActorInv, ActorTypes
<1>5. rec.ask \in Asked /\ rec.ask.op # "look" /\ rec.id \in Key
  BY <1>1, <1>3 DEF VisitorSound
<1>6. credit' \in [fresh : BOOLEAN, requests : 0..MaxAsked, restarts : Nat, faults : Nat]
  BY DEF ActorInv, ActorTypes
<1> QED BY <1>3, <1>4, <1>5, <1>6, VisitorMoves

LEMMA PaysTyped ==
  ASSUME ActorInv, NEW what \in {"requests", "restarts", "faults"}, Pays(what)
  PROVE  credit' \in [fresh : BOOLEAN, requests : 0..MaxAsked, restarts : Nat, faults : Nat]
<1>1. MaxAsked \in Nat
  BY ControlConstants
<1> QED BY <1>1 DEF ActorInv, ActorTypes, Pays

LEMMA IdentityTyped ==
  ASSUME NEW who \in Presented, NEW hinted
  PROVE  Identity(who, hinted).user \in UserName \cup {"none", "root"}
<1>1. "admin" \in UserName
  BY ControlConstants
<1>2. CASE who.kind = "root"
  <2>1. Identity(who, hinted) = [role |-> "root", user |-> "root", account |-> "none"]
    BY <1>2 DEF Identity, AdminKey
  <2> QED BY <2>1
<1>3. CASE who.kind # "root" /\ AdminKey(who)
  <2>1. Identity(who, hinted) = [role |-> "admin", user |-> "admin", account |-> who.account]
    BY <1>3 DEF Identity, AdminKey
  <2> QED BY <1>1, <2>1
<1>4. CASE who.kind # "root" /\ ~AdminKey(who) /\ who.kind = "user" /\ HolderOf(who, hinted) # {}
  <2>1. (CHOOSE v \in HolderOf(who, hinted) : TRUE) \in HolderOf(who, hinted)
    BY <1>4
  <2>2. HolderOf(who, hinted) \subseteq UserName
    BY DEF HolderOf
  <2>3. PICK u \in UserName : u = CHOOSE v \in HolderOf(who, hinted) : TRUE
    BY <2>1, <2>2
  <2>4. Identity(who, hinted) =
           [role |-> registry["users"][who.account][u].role, user |-> u, account |-> who.account]
    BY <1>4, <2>3 DEF Identity
  <2> QED BY <2>4
<1>5. CASE who.kind # "root" /\ ~AdminKey(who) /\ ~(who.kind = "user" /\ HolderOf(who, hinted) # {})
  BY <1>5 DEF Identity, Nobody
<1> QED BY <1>2, <1>3, <1>4, <1>5

LEMMA AdminRequestMoves ==
  ASSUME FilesInv, ActorInv, NEW c \in Visitor, NEW ask \in Asked, NEW who \in Presented,
         NEW hinted \in BOOLEAN, AdminRequest(c, ask, who, hinted)
  PROVE  FilesInv' /\ ActorInv'
<1>1. Pays("requests") /\ UNCHANGED <<accounts, registry, held, meant, reverted>>
  BY DEF AdminRequest
<1>2. credit' \in [fresh : BOOLEAN, requests : 0..MaxAsked, restarts : Nat, faults : Nat]
  BY <1>1, PaysTyped
<1>3. Keeps /\ FilesInv'
  BY <1>1, NothingListed, FilesLeft
<1>4. PICK id : id = Identity(who, hinted) /\ id.user \in UserName \cup {"none", "root"}
  BY IdentityTyped
<1>5. PICK w \in Worker :
         \/ \E status \in Statuses : AnswersWith(c, status)
         \/ /\ ask.op # "look"
            /\ actor' = [actor EXCEPT ![c] = [at |-> FirstStep(ask), ask |-> ask, by |-> id.user,
                                             id |-> credit.requests, worker |-> w, status |-> 0]]
  BY <1>4 DEF AdminRequest, Statuses
<1>6. CASE \E status \in Statuses : AnswersWith(c, status)
  BY <1>1, <1>2, <1>3, <1>6, AnswersMove
<1>7. CASE ask.op # "look" /\
           actor' = [actor EXCEPT ![c] = [at |-> FirstStep(ask), ask |-> ask, by |-> id.user,
                                          id |-> credit.requests, worker |-> w, status |-> 0]]
  <2>1. PICK rec : rec = [at |-> FirstStep(ask), ask |-> ask, by |-> id.user,
                          id |-> credit.requests, worker |-> w, status |-> 0]
    OBVIOUS
  <2>2. FirstStep(ask) \in {"account", "owner", "read"}
    BY DEF FirstStep
  <2>3. credit.requests \in Key
    <3>1. MaxAsked \in Nat
      BY ControlConstants
    <3> QED BY <1>1, <3>1 DEF Pays, ActorInv, ActorTypes, Key
  <2>4. credit.requests \in 0..MaxAsked
    BY DEF ActorInv, ActorTypes
  <2>5. rec \in VisitorRecords /\ rec.at \in {"account", "owner", "read"} /\ rec.ask = ask /\ rec.id \in Key
    BY <1>4, <2>1, <2>2, <2>3, <2>4 DEF VisitorRecords, VisitorStates, Statuses
  <2> QED BY <1>1, <1>2, <1>3, <1>7, <2>1, <2>5, VisitorMoves
<1> QED BY <1>5, <1>6, <1>7

LEMMA ServiceRequestMoves ==
  ASSUME FilesInv, ActorInv, NEW c \in Visitor, NEW kind, NEW who \in Presented, NEW agent,
         ServiceRequest(c, kind, who, agent)
  PROVE  FilesInv' /\ ActorInv'
<1>1. Pays("requests") /\ UNCHANGED <<accounts, registry, held, meant, reverted>>
  BY DEF ServiceRequest
<1>2. \E status \in Statuses : AnswersWith(c, status)
  <2>1. \/ AnswersWith(c, 404) \/ AnswersWith(c, Refusal(kind, 401)) \/ AnswersWith(c, Refusal(kind, 403))
        \/ \E status \in {200, 400, 404, 500} : AnswersWith(c, status)
    BY DEF ServiceRequest
  <2>2. {Refusal(kind, 401), Refusal(kind, 403), 200, 400, 404, 500} \subseteq Statuses
    BY DEF Refusal, Statuses
  <2> QED BY <2>1, <2>2
<1> QED BY <1>1, <1>2, PaysTyped, NothingListed, FilesLeft, AnswersMove

LEMMA CheckMoves ==
  ASSUME FilesInv, ActorInv, NEW c \in Visitor, CheckAccount(c) \/ CheckOwner(c)
  PROVE  FilesInv' /\ ActorInv'
<1>1. /\ UNCHANGED <<accounts, registry, held, credit, meant, reverted>> /\ actor[c].at # "idle"
      /\ MovesTo(c, "read") \/ AnswersWith(c, 400)
  BY DEF CheckAccount, CheckOwner
<1>2. Keeps /\ FilesInv'
  BY <1>1, NothingListed, FilesLeft
<1>3. "read" \in VisitorStates /\ 400 \in Statuses
  BY DEF VisitorStates, Statuses
<1>4. CASE MovesTo(c, "read")
  BY <1>1, <1>2, <1>3, <1>4, VisitorGoesOn
<1>5. CASE AnswersWith(c, 400)
  BY <1>1, <1>2, <1>3, <1>5, AnswersMove DEF ActorInv, ActorTypes
<1> QED BY <1>1, <1>2, <1>4, <1>5

LEMMA UserEntries ==
  /\ NoUser \in EntriesOf("users")
  /\ \A role \in {"admin", "user"} :
        /\ \A key \in Key : [role |-> role, key |-> key] \in EntriesOf("users")
        /\ \A entry \in EntriesOf("users") : [entry EXCEPT !.role = role] \in EntriesOf("users")
<1> DEFINE Entries == [role : {"none", "admin", "user"}, key : 0..MaxAsked]
<1>1. EntriesOf("users") = Entries
  BY FileNames
<1>2. MaxAsked \in Nat
  BY ControlConstants
<1>3. NoUser \in Entries
  BY <1>2 DEF NoUser
<1>4. ASSUME NEW role \in {"admin", "user"}, NEW key \in Key
      PROVE  [role |-> role, key |-> key] \in Entries
  BY <1>2 DEF Key
<1>5. ASSUME NEW role \in {"admin", "user"}, NEW entry \in Entries
      PROVE  [entry EXCEPT !.role = role] \in Entries
  OBVIOUS
<1> HIDE DEF Entries
<1> QED BY <1>1, <1>3, <1>4, <1>5

\* What a request makes of an entry is one.
LEMMA ChangedTyped ==
  ASSUME ActorInv, NEW c \in Visitor, actor[c].at # "idle", NEW file \in Files,
         NEW ask, ask = actor[c].ask, NEW entry \in EntriesOf(file),
         file = IF ask.op \in {"create agent", "update agent"} THEN "agents" ELSE "users"
  PROVE  Changed(c, entry) \in EntriesOf(file)
<1>1. ask \in Asked /\ ask.op # "look" /\ actor[c].id \in Key /\ actor[c].by \in UserName \cup {"none", "root"}
  BY DEF ActorInv, VisitorSound, VisitorRecords
<1>2. MaxAsked \in Nat
  BY ControlConstants
<1>3. /\ ask \in [op : Ops, account : Account, user : UserName \cup {"none"},
                  agent : AgentName \cup {"none"}, role : {"admin", "user"}]
      /\ ask.op \in {"create user", "delete user", "set role"} => ask.user \in UserName
  BY <1>1, AsksTyped
<1>4. CASE ask.op \in {"create agent", "update agent"}
  <2>1. entry \in UserName \cup {"root", "none"} /\ EntriesOf(file) = UserName \cup {"root", "none"}
    BY <1>4, FileNames
  <2> QED BY <1>1, <1>3, <1>4, <2>1 DEF Changed
<1>5. CASE ask.op \in {"create user", "delete user", "set role"}
  <2>1. file = "users" /\ ask.role \in {"admin", "user"}
    BY <1>3, <1>5
  <2>2. entry \in EntriesOf("users")
    BY <2>1
  <2>3. \/ Changed(c, entry) = [role |-> ask.role, key |-> actor[c].id]
        \/ Changed(c, entry) = NoUser
        \/ Changed(c, entry) = [entry EXCEPT !.role = ask.role]
    BY <1>5 DEF Changed
  <2>4. Changed(c, entry) \in EntriesOf("users")
    BY <1>1, <2>1, <2>2, <2>3, UserEntries, Zenon
  <2> QED BY <2>1, <2>4
<1> QED BY <1>1, <1>3, <1>4, <1>5 DEF Ops

LEMMA ReadRegistryMoves ==
  ASSUME FilesInv, ActorInv, NEW c \in Visitor, ReadRegistry(c)
  PROVE  FilesInv' /\ ActorInv'
<1>1. actor[c].at = "read" /\ UNCHANGED <<accounts, registry, credit, meant, reverted>>
  BY DEF ReadRegistry
<1>2. c \in Actor /\ actor[c].ask \in Asked /\ actor[c].ask.op # "look"
  BY <1>1 DEF Actor, ActorInv, VisitorSound
<1>3. PICK ask \in Asked : ask = actor[c].ask
  BY <1>2
<1>4. PICK file \in Files : file = IF ask.op \in {"create agent", "update agent"} THEN "agents" ELSE "users"
  BY DEF Files
<1>5. PICK name : name = IF file = "agents" THEN ask.agent ELSE ask.user
  OBVIOUS
<1>6. /\ ask.op \in Ops /\ ask.account \in Account
      /\ ask.op \in {"create user", "delete user", "set role"} => ask.user \in UserName
      /\ ask.op \in {"create agent", "update agent"} => ask.agent \in AgentName
  BY AsksTyped
<1>7. name \in NamesIn(file)
  BY <1>2, <1>3, <1>4, <1>5, <1>6, FileNames DEF Ops
<1>8. PICK entry \in EntriesOf(file) : entry = registry[file][ask.account][name]
  BY <1>6, <1>7 DEF FilesInv, FileTypes, Registries, Contents
<1>9. Keeps
  BY <1>1, NothingListed
<1>10. /\ "write" \in VisitorStates /\ "log" \in VisitorStates /\ {400, 404} \subseteq Statuses
       /\ credit \in [fresh : BOOLEAN, requests : 0..MaxAsked, restarts : Nat, faults : Nat]
  BY DEF VisitorStates, Statuses, ActorInv, ActorTypes
<1>11. \/ Reads(c, file, ask.account, name, Changed(c, entry)) /\ MovesTo(c, "write")
       \/ UNCHANGED held /\ (MovesTo(c, "log") \/ AnswersWith(c, 400) \/ AnswersWith(c, 404))
  BY <1>3, <1>4, <1>5, <1>8 DEF ReadRegistry
<1>12. CASE Reads(c, file, ask.account, name, Changed(c, entry)) /\ MovesTo(c, "write")
  <2>1. Changed(c, entry) \in EntriesOf(file)
    BY <1>1, <1>3, <1>4, ChangedTyped
  <2>2. FilesInv' /\ held'[c] # NoCopy /\ \A y \in Actor \ {c} : held'[y] = held[y]
    BY <1>1, <1>2, <1>6, <1>7, <1>12, <2>1, ReadsSound
  <2> QED BY <1>1, <1>9, <1>10, <1>12, <2>2, VisitorGoesOn
<1>13. CASE UNCHANGED held /\ MovesTo(c, "log")
  BY <1>1, <1>9, <1>10, <1>13, VisitorGoesOn, FilesLeft
<1>14. CASE UNCHANGED held /\ (AnswersWith(c, 400) \/ AnswersWith(c, 404))
  BY <1>1, <1>9, <1>10, <1>14, AnswersMove, FilesLeft
<1> QED BY <1>11, <1>12, <1>13, <1>14

LEMMA WriteRegistryMoves ==
  ASSUME FilesInv, ActorInv, NEW c \in Visitor, WriteRegistry(c)
  PROVE  FilesInv' /\ ActorInv'
<1>1. actor[c].at = "write" /\ WritesBack(c) /\ MovesTo(c, "log") /\ UNCHANGED <<accounts, credit>>
  BY DEF WriteRegistry
<1>2. c \in Actor /\ held[c] # NoCopy /\ "log" \in VisitorStates
  BY <1>1 DEF Actor, ActorInv, VisitorSound, VisitorStates
<1>3. FilesInv' /\ \A y \in Actor \ {c} : held'[y] # NoCopy <=> held[y] # NoCopy
  BY <1>1, <1>2, WritesSound
<1>4. Keeps
  BY <1>1, <1>2, WritesKeep
<1> QED BY <1>1, <1>2, <1>3, <1>4, VisitorGoesOn

LEMMA ReadLogMoves ==
  ASSUME FilesInv, ActorInv, NEW c \in Visitor, ReadLog(c)
  PROVE  FilesInv' /\ ActorInv'
<1>1. /\ actor[c].at = "log" /\ UNCHANGED <<accounts, registry, credit, meant, reverted>>
      /\ Reads(c, "audit", actor[c].ask.account, actor[c].id, "kept") /\ MovesTo(c, "append")
  BY DEF ReadLog
<1>2. c \in Actor /\ actor[c].ask \in Asked /\ actor[c].id \in Key /\ "append" \in VisitorStates
  BY <1>1 DEF Actor, ActorInv, VisitorSound, VisitorStates
<1>3. /\ actor[c].ask.account \in Account /\ "audit" \in Files /\ actor[c].id \in NamesIn("audit")
      /\ "kept" \in EntriesOf("audit")
  BY <1>2, AsksTyped, FileNames DEF Files
<1>4. FilesInv' /\ held'[c] # NoCopy /\ \A y \in Actor \ {c} : held'[y] = held[y]
  BY <1>1, <1>2, <1>3, ReadsSound
<1> QED BY <1>1, <1>2, <1>4, NothingListed, VisitorGoesOn

LEMMA WriteLogMoves ==
  ASSUME FilesInv, ActorInv, NEW c \in Visitor, WriteLog(c)
  PROVE  FilesInv' /\ ActorInv'
<1>1. actor[c].at = "append" /\ WritesBack(c) /\ AnswersWith(c, 200) /\ UNCHANGED <<accounts, credit>>
  BY DEF WriteLog
<1>2. c \in Actor /\ held[c] # NoCopy /\ 200 \in Statuses
  BY <1>1 DEF Actor, ActorInv, VisitorSound, Statuses
<1>3. FilesInv' /\ \A y \in Actor \ {c} : held'[y] # NoCopy <=> held[y] # NoCopy
  BY <1>1, <1>2, WritesSound
<1>4. Keeps
  BY <1>1, <1>2, WritesKeep
<1> QED BY <1>1, <1>2, <1>3, <1>4, AnswersMove DEF ActorInv, ActorTypes
-----------------------------------------------------------------------------
\* Copies that are forgotten.
LEMMA CopiesForgotten ==
  ASSUME FilesInv, NEW xs \in SUBSET Actor,
         held' = [x \in Actor |-> IF x \in xs THEN NoCopy ELSE held[x]],
         UNCHANGED <<registry, meant, reverted>>
  PROVE  FilesInv'
<1>1. held' \in [Actor -> Copies]
  BY DEF FilesInv, FileTypes, Copies
<1>2. ASSUME NEW x \in Actor PROVE CopySound(held[x])'
  <2>1. CASE x \in xs
    BY <2>1 DEF CopySound
  <2>2. CASE x \notin xs
    BY <2>2 DEF CopySound, FilesInv, HeldSound
  <2> QED BY <2>1, <2>2
<1> QED BY <1>1, <1>2 DEF FilesInv, FileTypes, HeldSound, ChangesStand

\* A worker that is down promises nothing.
LEMMA DownSound ==
  ASSUME NEW w \in Worker, actor'[w] = Down
  PROVE  WorkerSound(w)' /\ Down \in WorkerRecords
<1>1. Down \in WorkerRecords /\ Down.at = "down"
  BY DEF Down, WorkerRecords, WorkerStates
<1> HIDE DEF WasListed, FirstListed, PlaceOf
<1> QED BY <1>1 DEF WorkerSound

LEMMA CallFailsMoves ==
  ASSUME FilesInv, ActorInv, NEW x \in Actor, CallFails(x)
  PROVE  FilesInv' /\ ActorInv'
<1>1. /\ Pays("faults") /\ UNCHANGED <<accounts, registry, meant, reverted>>
      /\ held' = [held EXCEPT ![x] = NoCopy]
  BY DEF CallFails
<1>2. held' = [y \in Actor |-> IF y \in {x} THEN NoCopy ELSE held[y]]
  BY <1>1 DEF FilesInv, FileTypes
<1>3. FilesInv' /\ \A y \in Actor \ {x} : held'[y] = held[y]
  BY <1>1, <1>2, CopiesForgotten
<1>4. Keeps /\ accounts' \subseteq Account
      /\ credit' \in [fresh : BOOLEAN, requests : 0..MaxAsked, restarts : Nat, faults : Nat]
  BY <1>1, NothingListed, PaysTyped DEF ActorInv, ActorTypes
<1>5. CASE x \in Worker
  <2>1. actor' = [actor EXCEPT ![x] = Down]
    BY <1>5 DEF CallFails
  <2>2. actor'[x] = Down
    BY <2>1 DEF ActorInv, ActorTypes
  <2>3. WorkerSound(x)' /\ Down \in WorkerRecords /\ x \notin Visitor
    BY <1>5, <2>2, DownSound, ControlConstants
  <2> QED BY <1>3, <1>4, <1>5, <2>1, <2>3, ActorMoves
<1>6. CASE x \in Visitor
  <2>1. AnswersWith(x, 500) /\ 500 \in Statuses
    BY <1>6, ControlConstants DEF CallFails, Statuses
  <2> QED BY <1>1, <1>3, <1>4, <1>6, <2>1, AnswersMove
<1> QED BY <1>5, <1>6 DEF Actor

LEMMA WorkerRestartMoves ==
  ASSUME FilesInv, ActorInv, NEW w \in Worker, WorkerRestart(w)
  PROVE  FilesInv' /\ ActorInv'
<1>1. PICK its \in SUBSET Actor :
         /\ its = {w} \cup {c \in Visitor : actor[c].worker = w}
         /\ \A x \in its : x # w => x \in Visitor
         /\ actor' = [x \in Actor |-> IF x = w THEN Down ELSE IF x \in its THEN AtRest ELSE actor[x]]
         /\ held' = [x \in Actor |-> IF x \in its THEN NoCopy ELSE held[x]]
  BY DEF WorkerRestart, Actor
<1>2. Pays("restarts") /\ UNCHANGED <<accounts, registry, meant, reverted>>
  BY DEF WorkerRestart
<1>3. FilesInv' /\ Keeps
  BY <1>1, <1>2, CopiesForgotten, NothingListed
<1>4. accounts' \subseteq Account
      /\ credit' \in [fresh : BOOLEAN, requests : 0..MaxAsked, restarts : Nat, faults : Nat]
  BY <1>2, PaysTyped DEF ActorInv, ActorTypes
<1>5. AtRest \in VisitorRecords /\ AtRest.at = "idle"
  <2>1. MaxAsked \in Nat
    BY ControlConstants
  <2> QED BY <2>1 DEF AtRest, VisitorRecords, VisitorStates, Statuses
<1>6. ASSUME NEW x \in Actor \ its PROVE actor'[x] = actor[x] /\ held'[x] = held[x]
  BY <1>1
<1>7. ASSUME NEW v \in Worker PROVE WorkerSound(v)' /\ actor'[v] \in WorkerRecords
  <2>1. CASE v = w
    BY <2>1, <1>1, DownSound DEF Actor
  <2>2. CASE v # w
    <3>1. v \in Actor \ its
      BY <2>2, <1>1, ControlConstants DEF Actor
    <3> QED BY <3>1, <1>3, <1>6, OthersStay DEF WorkerSound
  <2> QED BY <2>1, <2>2
<1>8. ASSUME NEW c \in Visitor PROVE VisitorSound(c)' /\ actor'[c] \in VisitorRecords
  <2>1. CASE c \in its
    <3>1. actor'[c] = AtRest
      BY <2>1, <1>1, ControlConstants DEF Actor
    <3> QED BY <3>1, <1>5 DEF VisitorSound
  <2>2. CASE c \notin its
    <3>1. c \in Actor \ its
      BY <2>2 DEF Actor
    <3> QED BY <3>1, <1>3, <1>6, OthersStay DEF VisitorSound
  <2> QED BY <2>1, <2>2
<1>9. actor' \in [Actor -> WorkerRecords \cup VisitorRecords]
  BY <1>1, <1>7, <1>8 DEF Actor
<1> QED BY <1>3, <1>4, <1>7, <1>8, <1>9 DEF ActorInv, ActorTypes
-----------------------------------------------------------------------------
\* What the files hold and what the workers and clients are at.
ControlInv == FilesInv /\ ActorInv

LEMMA ControlStarts == ControlInit => ControlInv
<1> SUFFICES ASSUME ControlInit PROVE ControlInv
  OBVIOUS
<1>1. /\ credit \in RegistryBudgets /\ meant = registry /\ reverted = {}
      /\ accounts = {Enrolled[i] : i \in {j \in DOMAIN Enrolled : ~credit.fresh}}
      /\ registry = [file \in Files |-> [a \in Account |-> [n \in NamesIn(file) |->
            IF file = "users" /\ n = "admin" /\ a \in accounts THEN [role |-> "admin", key |-> 0]
            ELSE Missing(file)]]]
      /\ actor = [x \in Actor |-> IF x \in Worker THEN Down ELSE AtRest]
      /\ held = [x \in Actor |-> NoCopy]
  BY DEF ControlInit
<1>2. MaxAsked \in Nat
  BY ControlConstants
<1>3. accounts \subseteq Account
  BY <1>1, EnrolledTyped
<1>4. ASSUME NEW file \in Files, NEW a \in Account
      PROVE  registry[file][a] \in Contents(file) /\ registry[file][a] \in AllContents
  <2>1. PICK admin : admin = [role |-> "admin", key |-> 0]
    OBVIOUS
  <2>2. admin \in EntriesOf("users")
    <3>1. admin \in [role : {"none", "admin", "user"}, key : 0..MaxAsked]
      BY <1>2, <2>1
    <3> QED BY <3>1, FileNames
  <2>3. registry[file][a] = [n \in NamesIn(file) |->
            IF file = "users" /\ n = "admin" /\ a \in accounts THEN admin ELSE Missing(file)]
    BY <1>1, <2>1
  <2>4. registry[file][a] \in Contents(file)
    BY <2>2, <2>3, FileNames DEF Contents
  <2> QED BY <2>4 DEF AllContents
<1>5. registry \in Registries
  <2>1. \A file \in Files : registry[file] \in [Account -> AllContents]
    BY <1>1, <1>4
  <2> QED BY <1>1, <1>4, <2>1 DEF Registries
<1>6. FilesInv
  BY <1>1, <1>5 DEF FilesInv, FileTypes, HeldSound, CopySound, ChangesStand, Copies
<1>7. AtRest \in VisitorRecords /\ AtRest.at = "idle" /\ Down \in WorkerRecords /\ Down.at = "down"
  BY <1>2 DEF AtRest, VisitorRecords, VisitorStates, Statuses, Down, WorkerRecords, WorkerStates
<1>8. ActorTypes
  BY <1>1, <1>3, <1>7, BudgetsTyped DEF ActorTypes
<1>9. \A w \in Worker : WorkerSound(w)
  <2> TAKE w \in Worker
  <2>1. actor[w] = Down
    BY <1>1 DEF Actor
  <2> HIDE DEF WasListed, FirstListed, PlaceOf
  <2> QED BY <2>1, <1>7 DEF WorkerSound
<1>10. \A c \in Visitor : VisitorSound(c)
  <2> TAKE c \in Visitor
  <2>1. actor[c] = AtRest
    BY <1>1, ControlConstants DEF Actor
  <2> QED BY <2>1, <1>7 DEF VisitorSound
<1> QED BY <1>6, <1>8, <1>9, <1>10 DEF ControlInv, ActorInv

LEMMA ControlSteps == ControlInv /\ [ControlNext]_controlVars => ControlInv'
<1> SUFFICES ASSUME FilesInv, ActorInv, [ControlNext]_controlVars PROVE ControlInv'
  BY DEF ControlInv
<1>1. ASSUME NEW w \in Worker, EnrolBegin(w) PROVE ControlInv'
  <2>1. UNCHANGED <<registry, held, meant, reverted>>
    BY <1>1 DEF EnrolBegin, Enrols
  <2> QED BY <1>1, <2>1, EnrolsMoves, FilesLeft DEF ControlInv
<1>2. ASSUME NEW w \in Worker, EnrolAccount(w) PROVE ControlInv'
  <2>1. UNCHANGED <<registry, held, meant, reverted>>
    BY <1>2 DEF EnrolAccount
  <2> QED BY <1>2, <2>1, EnrolAccountMoves, FilesLeft DEF ControlInv
<1>3. ASSUME NEW w \in Worker, EnrolWrite(w) PROVE ControlInv'
  BY <1>3, EnrolWriteMoves, EnrolWriteLeaves DEF ControlInv
<1>4. ASSUME NEW w \in Worker, EnrolAdmin(w) \/ EnrolAdminWrite(w) \/ WorkerRestart(w) PROVE ControlInv'
  BY <1>4, EnrolAdminMoves, EnrolAdminWriteMoves, WorkerRestartMoves DEF ControlInv
<1>5. ASSUME NEW c \in Visitor, NEW who \in Presented, NEW ask \in Asked, NEW hinted \in BOOLEAN,
             AdminRequest(c, ask, who, hinted)
      PROVE  ControlInv'
  BY <1>5, AdminRequestMoves DEF ControlInv
<1>6. ASSUME NEW c \in Visitor, NEW who \in Presented, NEW kind, NEW agent, ServiceRequest(c, kind, who, agent)
      PROVE  ControlInv'
  BY <1>6, ServiceRequestMoves DEF ControlInv
<1>7. ASSUME NEW c \in Visitor, CheckAccount(c) \/ CheckOwner(c) PROVE ControlInv'
  BY <1>7, CheckMoves DEF ControlInv
<1>8. ASSUME NEW c \in Visitor, ReadRegistry(c) \/ WriteRegistry(c) \/ ReadLog(c) \/ WriteLog(c)
      PROVE  ControlInv'
  BY <1>8, ReadRegistryMoves, WriteRegistryMoves, ReadLogMoves, WriteLogMoves DEF ControlInv
<1>9. ASSUME NEW x \in Actor, CallFails(x) PROVE ControlInv'
  BY <1>9, CallFailsMoves DEF ControlInv
<1>10. CASE UNCHANGED controlVars
  <2>1. UNCHANGED <<accounts, registry, actor, held, credit, meant, reverted>>
    BY <1>10 DEF controlVars
  <2>2. FilesInv' /\ Keeps
    BY <2>1, FilesLeft, NothingListed
  <2>3. (\A w \in Worker : WorkerSound(w)') /\ (\A c \in Visitor : VisitorSound(c)')
    BY <2>1, <2>2, OthersStay DEF Actor
  <2> QED BY <2>1, <2>2, <2>3 DEF ControlInv, ActorInv, ActorTypes
<1> QED BY <1>1, <1>2, <1>3, <1>4, <1>5, <1>6, <1>7, <1>8, <1>9, <1>10 DEF ControlNext

(***************************************************************************)
(* The inductive invariant: no step of a request, a worker, a failure or a *)
(* restart breaks what the copies and the places of the workers mean.      *)
(***************************************************************************)
THEOREM ControlInvariant == ControlSpec => []ControlInv
<1> QED BY ControlStarts, ControlSteps, PTL DEF ControlSpec

(***************************************************************************)
(* Every account, entry, request and copy of a file of the registry keeps its *)
(* type. (auth.py, api_keys.py, tenant_admin.py, audit.py)                 *)
(***************************************************************************)
THEOREM ControlTypeCorrect == ControlSpec => []ControlTypeOK
<1>1. ControlInv => ControlTypeOK
  <2> SUFFICES ASSUME FilesInv, ActorInv PROVE ControlTypeOK
    BY DEF ControlInv
  <2>1. accounts \subseteq Account /\ credit.requests \in 0..MaxAsked
    BY DEF ActorInv, ActorTypes
  <2>2. \A file \in Files, a \in Account : {registry[file][a], meant[file][a]} \subseteq Contents(file)
    BY DEF FilesInv, FileTypes, Registries
  <2>3. \A w \in Worker : actor[w] \in WorkerRecords
    BY DEF ActorInv, WorkerSound
  <2>4. \A c \in Visitor : actor[c] \in VisitorRecords
    BY DEF ActorInv, VisitorSound
  <2>5. \A x \in Actor : held[x] # NoCopy => held[x].of[4] \in Contents(held[x].of[1])
    BY DEF FilesInv, FileTypes, Copies
  <2> QED BY <2>1, <2>2, <2>3, <2>4, <2>5
          DEF ControlTypeOK, WorkerRecords, VisitorRecords, WorkerStates, VisitorStates
<1> QED BY <1>1, ControlInvariant, PTL

(***************************************************************************)
(* A change that was made to a user, an agent or the audit log stands until *)
(* the next change of it, but for those that another request wrote over with *)
(* what it had read before. (api_keys.py:43-76, tenant_admin.py:109-165,   *)
(* audit.py:28-53)                                                         *)
(***************************************************************************)
THEOREM ChangesKept == ControlSpec => []ChangesStand
<1>1. ControlInv => ChangesStand
  BY DEF ControlInv, FilesInv
<1> QED BY <1>1, ControlInvariant, PTL

(***************************************************************************)
(* As soon as one worker is up the configured accounts are listed, the first *)
(* one for sure and the others but for a late write, however many workers  *)
(* start, fail and start again. (auth.py:37-51, api_keys.py:25-33)         *)
(***************************************************************************)
THEOREM EnrolledListed == ControlSpec => []AccountsListed
<1>1. ControlInv => AccountsListed
  <2> SUFFICES ASSUME ActorInv PROVE AccountsListed
    BY DEF ControlInv
  <2>1. ASSUME NEW w \in Worker, actor[w].at = "up"
        PROVE  /\ \A i \in DOMAIN Enrolled : WasListed(Enrolled[i])
               /\ 1 \in DOMAIN Enrolled => FirstListed
    BY <2>1 DEF ActorInv, WorkerSound
  <2>2. Enrolled # <<>> => 1 \in DOMAIN Enrolled
    BY ControlConstants
  <2> QED BY <2>1, <2>2 DEF AccountsListed, WasListed, FirstListed
<1> QED BY <1>1, ControlInvariant, PTL

(***************************************************************************)
(* Clients of the models: what a call has found, and what a cache holds.   *)
(***************************************************************************)
JsonKeys == {KeyOf(q) : q \in {r \in ModelRequests : r.kind = "json"}}
Vectors == [of : DOMAIN Length, sent : Nat, fits : BOOLEAN]

\* An entry of a cache answers its key.
JsonEntries ==
    {e \in [key : JsonKeys, answer : [to : JsonKeys, value : Values]] :
        e.answer.to = e.key /\ Valid(e.answer.value, e.key.schema)}
EmbedEntries ==
    {e \in [key : [text : DOMAIN Length], answer : Vectors] : e.answer.of = e.key.text /\ e.answer.fits}
CacheEntries(kind) == IF kind = "json" THEN JsonEntries ELSE EmbedEntries

KeysApart(entries) ==
    \A i, j \in 1..Len(entries) : entries[i].key = entries[j].key => i = j
CacheSound ==
    /\ cache = [kind \in {"json", "embed"} |-> cache[kind]]
    /\ \A kind \in {"json", "embed"} : cache[kind] \in Seq(CacheEntries(kind)) /\ KeysApart(cache[kind])

\* The first n texts have a vector of their own or are missing, none both.
Indexes(found) == {found[i][1] : i \in 1..Len(found)}
Missed(missing) == {missing[i] : i \in 1..Len(missing)}
Matches(q, e) == e[2].of = q.texts[e[1]] /\ (e[2].fits \/ client.embedder = "volcengine")
Covers(q, found, missing, n) ==
    /\ found \in Seq((1..Len(q.texts)) \X Vectors) /\ missing \in Seq(1..Len(q.texts))
    /\ \A i, j \in 1..Len(found) : found[i][1] = found[j][1] => i = j
    /\ \A i, j \in 1..Len(missing) : missing[i] = missing[j] => i = j
    /\ Indexes(found) \cap Missed(missing) = {}
    /\ Indexes(found) \cup Missed(missing) = 1..n
    /\ \A i \in 1..Len(found) : Matches(q, found[i])

Usable(answer, q) ==
    answer \in [to : JsonKeys, value : Values] /\ answer.to = KeyOf(q) /\ Valid(answer.value, q.schema)

AtCache == {"look", "take", "store", "evict", "drop"}
ModelStages == AtCache \cup {"idle", "json", "structured", "text", "tools", "messages", "embed"}
HasAnswer(c) == c.at \in {"store", "evict", "drop"} \/ c.outcome = "answered"

(***************************************************************************)
(* A call is at a stage of its kind; it has nothing yet, or what it found  *)
(* answers it; and what it goes for in a cache is there, unless another    *)
(* thread has evicted entries since it began.                              *)
(***************************************************************************)
ModelCalls ==
    [at : ModelStages, outcome : {"none", "answered", "failed", "lost"}, disturbed : BOOLEAN,
     next : Nat \ {0}, request : ModelRequests \cup {NoRequestYet}]
Whole(c) ==
    c = [at |-> c.at, request |-> c.request, next |-> c.next, found |-> c.found, missing |-> c.missing,
         victim |-> c.victim, outcome |-> c.outcome, disturbed |-> c.disturbed]
Framed(c) ==
    /\ Whole(c)
    /\ [at |-> c.at, outcome |-> c.outcome, disturbed |-> c.disturbed, next |-> c.next,
        request |-> c.request] \in ModelCalls
    /\ c.at # "idle" => c.outcome = "none" /\ c.request \in ModelRequests
    /\ c.at \in {"json", "structured", "text"} => c.request.kind = "json"
    /\ c.at \in {"tools", "messages", "embed"} => c.request.kind = c.at
    /\ c.at \in AtCache => Caching(c.request)

JsonSound(c) ==
    c.request.kind = "json" =>
        /\ c.at \in AtCache \cup {"json"} /\ ~HasAnswer(c) => c.found = <<>>
        /\ c.missing = <<>>
        /\ HasAnswer(c) => Usable(c.found[1][2], c.request)

EmbedSound(c) ==
    c.request.kind = "embed" =>
        /\ c.at = "look" => c.next <= Len(c.request.texts) + 1
        /\ c.at = "take" => c.next <= Len(c.request.texts)
        /\ c.at \in {"look", "take"} => Covers(c.request, c.found, c.missing, c.next - 1)
        /\ c.at = "embed" => /\ c.next <= Len(Caps)
                             /\ Covers(c.request, c.found, c.missing, Len(c.request.texts))
        /\ c.at = "embed" /\ ~Caching(c.request) =>
              c.found = <<>> /\ c.missing = [i \in DOMAIN c.request.texts |-> i]
        /\ HasAnswer(c) => Covers(c.request, c.found, <<>>, Len(c.request.texts))
        /\ c.at = "store" => /\ c.missing \in Seq(1..Len(c.request.texts))
                             /\ 0 < Len(c.missing) /\ Len(c.missing) <= Len(c.found)

ToolsSound(c) ==
    c.request.kind = "tools" /\ c.request.choice = "required" /\ c.outcome = "answered" => c.found # <<>>

LostSound(t) ==
    LET c == modelCall[t] IN
    /\ c.outcome = "lost" => c.disturbed
    /\ c.at = "take" => c.disturbed \/ InCache(c.request.kind, Wanted(t))
    /\ c.at = "drop" => c.disturbed \/ InCache(c.request.kind, c.victim[1])

CallSound(t) ==
    /\ Framed(modelCall[t]) /\ JsonSound(modelCall[t]) /\ EmbedSound(modelCall[t]) /\ ToolsSound(modelCall[t])
    /\ LostSound(t)

ModelInv ==
    /\ client \in ClientSettings /\ textMode \in BOOLEAN /\ asked \in 0..MaxModelCalls
    /\ modelCall = [t \in ModelThread |-> modelCall[t]]
    /\ CacheSound
    /\ \A t \in ModelThread : CallSound(t)

LEMMA ModelConstants ==
  /\ Replies \subseteq [1..5 -> Values]
  /\ \A q \in ModelRequests :
        \/ q.kind = "json" /\ q.schema \in Schemas
        \/ q.kind = "tools" /\ q.choice \in {"required", "auto"}
        \/ q.kind = "messages"
        \/ q.kind = "embed" /\ q.texts \in Seq(DOMAIN Length)
  /\ Length \in [DOMAIN Length -> Nat]
  /\ Caps \in Seq(Nat) /\ 1 <= Len(Caps) /\ MaxBatch \in Nat /\ CacheMax \in Nat
  /\ ToolAttempts \in Nat /\ 1 <= ToolAttempts /\ MaxModelCalls \in Nat
  /\ ClientSettings \subseteq [cached : BOOLEAN, jsonMode : BOOLEAN, embedder : {"openai", "volcengine"}]
<1>1. Caps \in Seq(Nat) /\ Caps # <<>> => 1 <= Len(Caps)
  OBVIOUS
<1> QED BY <1>1, ModelAssumption DEF Layers

\* Whatever layer parses, it gives a value of a reply.
LEMMA ParsedValue ==
  ASSUME NEW reply \in Replies
  PROVE  FirstParsed(reply) \in Values /\ reply[1] \in Values
<1>1. reply \in [1..5 -> Values]
  BY ModelConstants
<1> DEFINE parsed == {i \in 1..5 : reply[i] # "fails"}
<1>2. CASE parsed = {}
  BY <1>1, <1>2 DEF FirstParsed, Layers, Values
<1>3. CASE parsed # {}
  <2>1. \E i \in parsed : \A j \in parsed : i <= j
    <3>1. CASE 1 \in parsed
      BY <3>1
    <3>2. CASE 1 \notin parsed /\ 2 \in parsed
      BY <3>2
    <3>3. CASE 1 \notin parsed /\ 2 \notin parsed /\ 3 \in parsed
      BY <3>3
    <3>4. CASE 1 \notin parsed /\ 2 \notin parsed /\ 3 \notin parsed /\ 4 \in parsed
      BY <3>4
    <3>5. CASE 1 \notin parsed /\ 2 \notin parsed /\ 3 \notin parsed /\ 4 \notin parsed
      BY <1>3, <3>5
    <3> QED BY <3>1, <3>2, <3>3, <3>4, <3>5
  <2> DEFINE first == CHOOSE i \in parsed : \A j \in parsed : i <= j
  <2>2. first \in 1..5
    BY <2>1
  <2>3. FirstParsed(reply) = reply[first]
    BY <1>3 DEF FirstParsed, Layers
  <2> HIDE DEF first, parsed
  <2> QED BY <1>1, <2>2, <2>3
<1> QED BY <1>2, <1>3

\* A key that is in a cache leads to an entry of its own.
LEMMA CachedEntry ==
  ASSUME NEW kind, NEW key, NEW S, cache[kind] \in Seq(S), InCache(kind, key)
  PROVE  \E e \in S : e.key = key /\ Cached(kind, key) = e.answer
<1>1. \E i \in DOMAIN cache[kind] : cache[kind][i].key = key
  BY DEF InCache
<1> DEFINE i == CHOOSE j \in DOMAIN cache[kind] : cache[kind][j].key = key
<1>2. i \in DOMAIN cache[kind] /\ cache[kind][i].key = key
  BY <1>1
<1>3. Cached(kind, key) = cache[kind][i].answer
  BY DEF Cached
<1> HIDE DEF i
<1>4. cache[kind][i] \in S
  BY <1>2
<1> QED BY <1>2, <1>3, <1>4

\* An insertion keeps every key and makes none twice.
LEMMA InsertSound ==
  ASSUME NEW S, NEW entries \in Seq(S), NEW e \in S, KeysApart(entries)
  PROVE  /\ Insert(entries, e) \in Seq(S) /\ KeysApart(Insert(entries, e))
         /\ \A i \in DOMAIN entries : \E j \in DOMAIN Insert(entries, e) :
               Insert(entries, e)[j].key = entries[i].key
<1>1. CASE \E i \in DOMAIN entries : entries[i].key = e.key
  <2> DEFINE after == [i \in DOMAIN entries |-> IF entries[i].key = e.key THEN e ELSE entries[i]]
  <2>1. Insert(entries, e) = after
    BY <1>1 DEF Insert
  <2>2. after \in Seq(S) /\ Len(after) = Len(entries) /\ DOMAIN after = DOMAIN entries
        /\ DOMAIN entries = 1..Len(entries)
    <3>1. DOMAIN entries = 1..Len(entries) /\ Len(entries) \in Nat
      OBVIOUS
    <3>2. \A i \in 1..Len(entries) : (IF entries[i].key = e.key THEN e ELSE entries[i]) \in S
      OBVIOUS
    <3>3. after = [i \in 1..Len(entries) |-> IF entries[i].key = e.key THEN e ELSE entries[i]]
      BY <3>1
    <3> QED BY <3>1, <3>2, <3>3
  <2>3. \A i \in DOMAIN entries : after[i].key = entries[i].key
    OBVIOUS
  <2> HIDE DEF after
  <2> QED BY <2>1, <2>2, <2>3 DEF KeysApart
<1>2. CASE ~\E i \in DOMAIN entries : entries[i].key = e.key
  <2> DEFINE after == Append(entries, e)
  <2>1. Insert(entries, e) = after
    BY <1>2 DEF Insert
  <2>2. /\ after \in Seq(S) /\ Len(after) = Len(entries) + 1 /\ DOMAIN entries = 1..Len(entries)
        /\ DOMAIN after = 1..Len(entries) + 1 /\ after[Len(entries) + 1] = e
        /\ \A i \in 1..Len(entries) : after[i] = entries[i]
    OBVIOUS
  <2> HIDE DEF after
  <2>3. KeysApart(after)
    <3> SUFFICES ASSUME NEW i \in 1..Len(after), NEW j \in 1..Len(after), after[i].key = after[j].key
                 PROVE  i = j
      BY DEF KeysApart
    <3>1. Len(entries) \in Nat
      OBVIOUS
    <3>2. CASE i = Len(entries) + 1 \/ j = Len(entries) + 1
      BY <1>2, <2>2, <3>1, <3>2
    <3>3. CASE i # Len(entries) + 1 /\ j # Len(entries) + 1
      BY <2>2, <3>1, <3>3 DEF KeysApart
    <3> QED BY <3>2, <3>3
  <2> QED BY <2>1, <2>2, <2>3
<1> QED BY <1>1, <1>2

\* A deletion leaves a cache of the same kind.
LEMMA WithoutSound ==
  ASSUME NEW S, NEW entries \in Seq(S), KeysApart(entries), NEW key,
         \E i \in DOMAIN entries : entries[i].key = key
  PROVE  Without(entries, key) \in Seq(S) /\ KeysApart(Without(entries, key))
<1> DEFINE i == CHOOSE j \in DOMAIN entries : entries[j].key = key
           n == Len(entries)
<1>1. n \in Nat /\ DOMAIN entries = 1..n /\ i \in 1..n
  OBVIOUS
<1> DEFINE front == SubSeq(entries, 1, i - 1)
           back == SubSeq(entries, i + 1, n)
           after == front \o back
<1>2. Without(entries, key) = after
  BY DEF Without
<1> HIDE DEF i
<1>3. front \in Seq(S) /\ Len(front) = i - 1 /\ \A k \in 1..i - 1 : front[k] = entries[k]
  <2>1. \A k \in 1..i - 1 : entries[k] \in S
    BY <1>1
  <2> QED BY <1>1, <2>1, SubSeqProperties
<1>4. back \in Seq(S) /\ Len(back) = n - i /\ \A k \in 1..n - i : back[k] = entries[i + k]
  <2>1. \A k \in i + 1..n : entries[k] \in S
    BY <1>1
  <2>2. i + 1 \in Int /\ n \in Int
    BY <1>1
  <2>3. /\ back \in Seq(S) /\ Len(back) = IF i + 1 <= n THEN n - (i + 1) + 1 ELSE 0
        /\ \A k \in 1..n - (i + 1) + 1 : back[k] = entries[i + 1 + k - 1]
    BY <2>1, <2>2, SubSeqProperties
  <2>4. n - (i + 1) + 1 = n - i
    BY <1>1
  <2> HIDE DEF back, n
  <2>5. \A k \in 1..n - i : i + 1 + k - 1 = i + k
    BY <1>1
  <2>6. Len(back) = n - i
    BY <1>1, <2>3
  <2>7. ASSUME NEW k \in 1..n - i
        PROVE  back[k] = entries[i + k]
    BY <2>3, <2>4, <2>5
  <2> QED BY <2>3, <2>6, <2>7
<1> HIDE DEF front, back
<1>5. /\ after \in Seq(S) /\ Len(after) = n - 1
      /\ \A k \in 1..n - 1 : after[k] = IF k < i THEN entries[k] ELSE entries[k + 1]
  <2>1. /\ after \in Seq(S) /\ Len(after) = Len(front) + Len(back)
        /\ \A k \in 1..Len(front) + Len(back) :
              after[k] = IF k <= Len(front) THEN front[k] ELSE back[k - Len(front)]
    <3>1. front \in Seq(S) /\ back \in Seq(S)
      BY <1>3, <1>4
    <3> QED BY <3>1, ConcatProperties
  <2> HIDE DEF after
  <2>2. Len(front) + Len(back) = n - 1 /\ Len(front) = i - 1
    BY <1>1, <1>3, <1>4
  <2>3. ASSUME NEW k \in 1..n - 1
        PROVE  after[k] = IF k < i THEN entries[k] ELSE entries[k + 1]
    <3>1. CASE k < i
      <4>1. after[k] = front[k] /\ k \in 1..i - 1
        BY <1>1, <2>1, <2>2, <3>1
      <4> QED BY <1>3, <3>1, <4>1
    <3>2. CASE ~(k < i)
      <4>1. after[k] = back[k - (i - 1)] /\ k - (i - 1) \in 1..n - i /\ i + (k - (i - 1)) = k + 1
        BY <1>1, <2>1, <2>2, <3>2
      <4> QED BY <1>4, <3>2, <4>1
    <3> QED BY <3>1, <3>2
  <2> QED BY <2>1, <2>2, <2>3
<1> HIDE DEF after
<1>6. KeysApart(after)
  <2> SUFFICES ASSUME NEW k \in 1..n - 1, NEW l \in 1..n - 1, after[k].key = after[l].key
               PROVE  k = l
    BY <1>5 DEF KeysApart
  <2> DEFINE at(x) == IF x < i THEN x ELSE x + 1
  <2>1. at(k) \in 1..n /\ at(l) \in 1..n /\ after[k] = entries[at(k)] /\ after[l] = entries[at(l)]
    BY <1>1, <1>5
  <2>2. at(k) = at(l)
    BY <2>1 DEF KeysApart
  <2> QED BY <1>1, <2>2
<1> QED BY <1>2, <1>5, <1>6

\* A text that was found in the cache.
LEMMA CoversFound ==
  ASSUME NEW q, NEW found, NEW missing, NEW n \in Nat, NEW a \in Vectors, Len(q.texts) \in Nat,
         Covers(q, found, missing, n), n < Len(q.texts), a.of = q.texts[n + 1], a.fits
  PROVE  Covers(q, Append(found, <<n + 1, a>>), missing, n + 1)
<1> DEFINE N == Len(q.texts)
           after == Append(found, <<n + 1, a>>)
           m == Len(found)
<1>1. /\ found \in Seq((1..N) \X Vectors) /\ missing \in Seq(1..N) /\ m \in Nat
      /\ \A i, j \in 1..m : found[i][1] = found[j][1] => i = j
      /\ \A i, j \in 1..Len(missing) : missing[i] = missing[j] => i = j
      /\ Indexes(found) \cap Missed(missing) = {}
      /\ Indexes(found) \cup Missed(missing) = 1..n
      /\ \A i \in 1..m : Matches(q, found[i])
  BY DEF Covers
<1> DEFINE e == <<n + 1, a>>
<1>2. e \in (1..N) \X Vectors
  OBVIOUS
<1> HIDE DEF e, N, m
<1>3. /\ after \in Seq((1..N) \X Vectors) /\ Len(after) = m + 1 /\ after[m + 1] = e
      /\ \A i \in 1..m : after[i] = found[i]
  BY <1>1, <1>2, AppendProperties DEF e, m
<1>4. e[1] = n + 1 /\ e[2] = a
  BY DEF e
<1> HIDE DEF after
<1>5. \A i \in 1..m : found[i][1] \in 1..n
  BY <1>1 DEF Indexes, m
<1>6. Indexes(after) = Indexes(found) \cup {n + 1}
  <2>1. Indexes(after) = {after[i][1] : i \in 1..m + 1} /\ Indexes(found) = {found[i][1] : i \in 1..m}
    BY <1>3 DEF Indexes, m
  <2>2. \A i \in 1..m + 1 : i \in 1..m \/ i = m + 1
    BY <1>1
  <2>3. \A i \in 1..m : i \in 1..m + 1
    BY <1>1
  <2>4. m + 1 \in 1..m + 1
    BY <1>1
  <2> QED BY <1>3, <1>4, <2>1, <2>2, <2>3, <2>4
<1>7. \A i, j \in 1..m + 1 : after[i][1] = after[j][1] => i = j
  <2>1. \A i \in 1..m + 1 : i \in 1..m \/ i = m + 1
    BY <1>1
  <2>2. \A i \in 1..m : after[i][1] # n + 1
    BY <1>3, <1>5
  <2>3. \A i, j \in 1..m : after[i][1] = after[j][1] => i = j
    BY <1>1, <1>3
  <2>4. after[m + 1][1] = n + 1
    BY <1>3, <1>4
  <2> QED BY <2>1, <2>2, <2>3, <2>4
<1>8. \A i \in 1..m + 1 : Matches(q, after[i])
  <2>1. \A i \in 1..m + 1 : i \in 1..m \/ i = m + 1
    BY <1>1
  <2>2. Matches(q, after[m + 1])
    BY <1>3, <1>4 DEF Matches
  <2>3. \A i \in 1..m : Matches(q, after[i])
    BY <1>1, <1>3
  <2> QED BY <2>1, <2>2, <2>3
<1>9. /\ Indexes(after) \cap Missed(missing) = {}
      /\ Indexes(after) \cup Missed(missing) = 1..n + 1
  BY <1>1, <1>6
<1> QED BY <1>1, <1>3, <1>7, <1>8, <1>9 DEF Covers, N, after, e

\* A text that was not.
LEMMA CoversMissing ==
  ASSUME NEW q, NEW found, NEW missing, NEW n \in Nat, Len(q.texts) \in Nat,
         Covers(q, found, missing, n), n < Len(q.texts)
  PROVE  Covers(q, found, Append(missing, n + 1), n + 1)
<1> DEFINE N == Len(q.texts)
           after == Append(missing, n + 1)
           m == Len(missing)
<1>1. /\ found \in Seq((1..N) \X Vectors) /\ missing \in Seq(1..N) /\ m \in Nat
      /\ \A i, j \in 1..Len(found) : found[i][1] = found[j][1] => i = j
      /\ \A i, j \in 1..m : missing[i] = missing[j] => i = j
      /\ Indexes(found) \cap Missed(missing) = {}
      /\ Indexes(found) \cup Missed(missing) = 1..n
      /\ \A i \in 1..Len(found) : Matches(q, found[i])
  <2>1. missing \in Seq(1..N)
    BY DEF Covers
  <2>2. m \in Nat
    BY <2>1
  <2> QED BY <2>2 DEF Covers
<1>2. n + 1 \in 1..N
  OBVIOUS
<1> HIDE DEF N, m
<1>3. /\ after \in Seq(1..N) /\ Len(after) = m + 1 /\ after[m + 1] = n + 1
      /\ \A i \in 1..m : after[i] = missing[i]
  BY <1>1, <1>2, AppendProperties DEF m
<1> HIDE DEF after
<1>4. \A i \in 1..m : missing[i] \in 1..n
  BY <1>1 DEF Missed, m
<1>5. Missed(after) = Missed(missing) \cup {n + 1}
  <2>1. Missed(after) = {after[i] : i \in 1..m + 1} /\ Missed(missing) = {missing[i] : i \in 1..m}
    BY <1>3 DEF Missed, m
  <2>2. \A i \in 1..m + 1 : i \in 1..m \/ i = m + 1
    BY <1>1
  <2>3. m + 1 \in 1..m + 1 /\ \A i \in 1..m : i \in 1..m + 1
    BY <1>1
  <2> QED BY <1>3, <2>1, <2>2, <2>3
<1>6. \A i, j \in 1..m + 1 : after[i] = after[j] => i = j
  <2>1. \A i \in 1..m + 1 : i \in 1..m \/ i = m + 1
    BY <1>1
  <2>2. \A i \in 1..m : after[i] # n + 1
    BY <1>3, <1>4
  <2> QED BY <1>1, <1>3, <2>1, <2>2
<1>7. /\ Indexes(found) \cap Missed(after) = {}
      /\ Indexes(found) \cup Missed(after) = 1..n + 1
  BY <1>1, <1>5
<1> QED BY <1>1, <1>3, <1>6, <1>7 DEF Covers, N, after

\* The vectors of all texts that were missing complete what was found.
LEMMA CoversFetched ==
  ASSUME NEW q, NEW found, NEW missing, Len(q.texts) \in Nat,
         Covers(q, found, missing, Len(q.texts)), NEW fetched,
         DOMAIN fetched = DOMAIN missing,
         fetched = [i \in DOMAIN missing |-> fetched[i]],
         \A i \in DOMAIN missing :
            /\ fetched[i] = <<missing[i], fetched[i][2]>> /\ fetched[i][2] \in Vectors
            /\ Matches(q, fetched[i])
  PROVE  /\ Covers(q, found \o fetched, <<>>, Len(q.texts))
         /\ Len(missing) \in Nat /\ Len(found \o fetched) >= Len(missing)
<1> DEFINE N == Len(q.texts)
           P == (1..N) \X Vectors
           m == Len(missing)
           n == Len(found)
           after == found \o fetched
<1>1. found \in Seq(P) /\ missing \in Seq(1..N) /\ n \in Nat /\ m \in Nat /\ DOMAIN missing = 1..m
  BY DEF Covers
<1>2. /\ \A i, j \in 1..n : found[i][1] = found[j][1] => i = j
      /\ \A i, j \in 1..m : missing[i] = missing[j] => i = j
  BY DEF Covers
<1>3. Indexes(found) \cap Missed(missing) = {} /\ Indexes(found) \cup Missed(missing) = 1..N
  BY DEF Covers
<1>4. \A i \in 1..n : Matches(q, found[i])
  BY DEF Covers
<1>5. \A i \in 1..m : fetched[i] \in P /\ fetched[i][1] = missing[i]
  <2>1. \A i \in 1..m : missing[i] \in 1..N
    BY <1>1
  <2>2. \A i \in 1..m : fetched[i] = <<missing[i], fetched[i][2]>> /\ fetched[i][2] \in Vectors
    BY <1>1
  <2>3. ASSUME NEW i \in 1..m
        PROVE  fetched[i] \in P /\ fetched[i][1] = missing[i]
    <3>1. PICK v \in Vectors : fetched[i] = <<missing[i], v>>
      BY <2>2
    <3>2. <<missing[i], v>> \in P /\ <<missing[i], v>>[1] = missing[i]
      BY <2>1, <3>1
    <3> QED BY <3>1, <3>2
  <2> QED BY <2>3
<1>6. \A i \in 1..m : Matches(q, fetched[i])
  BY <1>1
<1> HIDE DEF N, P, m, n
<1>7. fetched \in Seq(P) /\ Len(fetched) = m
  <2>1. fetched = [i \in 1..m |-> fetched[i]]
    BY <1>1
  <2> QED BY <1>1, <1>5, <2>1
<1>8. /\ after \in Seq(P) /\ Len(after) = n + m
      /\ \A i \in 1..n + m : after[i] = IF i <= n THEN found[i] ELSE fetched[i - n]
  <2>1. found \in Seq(P) /\ Len(found) = n
    BY <1>1 DEF n
  <2> QED BY <1>7, <2>1, ConcatProperties
<1> HIDE DEF after
<1>9. Indexes(after) = {after[i][1] : i \in 1..n + m} /\ Indexes(found) = {found[i][1] : i \in 1..n}
      /\ Missed(missing) = {missing[i] : i \in 1..m}
  BY <1>8 DEF Indexes, Missed, n, m
<1>10. \A i \in 1..n : after[i] = found[i] /\ i \in 1..n + m /\ found[i][1] \in Indexes(found)
  <2>1. \A i \in 1..n : i \in 1..n + m /\ i <= n
    BY <1>1
  <2> QED BY <1>8, <1>9, <2>1
<1>11. \A i \in 1..m : after[n + i] = fetched[i] /\ n + i \in 1..n + m /\ missing[i] \in Missed(missing)
  <2>1. ASSUME NEW i \in 1..m
        PROVE  after[n + i] = fetched[i] /\ n + i \in 1..n + m
    <3>1. n + i \in 1..n + m /\ ~(n + i <= n) /\ (n + i) - n = i
      BY <1>1
    <3> QED BY <1>8, <3>1
  <2> QED BY <1>9, <2>1
<1>12. \A i \in 1..n + m : i \in 1..n \/ \E j \in 1..m : i = n + j
  <2> SUFFICES ASSUME NEW i \in 1..n + m, i \notin 1..n
               PROVE  \E j \in 1..m : i = n + j
    OBVIOUS
  <2>1. i - n \in 1..m /\ i = n + (i - n)
    BY <1>1
  <2> QED BY <2>1
<1>13. \A k \in 1..n, l \in 1..m : after[k][1] # after[n + l][1]
  <2> SUFFICES ASSUME NEW k \in 1..n, NEW l \in 1..m
               PROVE  after[k][1] # after[n + l][1]
    OBVIOUS
  <2>1. after[k][1] \in Indexes(found)
    BY <1>10
  <2>2. after[n + l][1] \in Missed(missing)
    BY <1>5, <1>11
  <2> QED BY <1>3, <2>1, <2>2
<1>14. \A i, j \in 1..n + m : after[i][1] = after[j][1] => i = j
  <2> SUFFICES ASSUME NEW i \in 1..n + m, NEW j \in 1..n + m, after[i][1] = after[j][1]
               PROVE  i = j
    OBVIOUS
  <2>1. CASE i \in 1..n /\ j \in 1..n
    BY <1>2, <1>10, <2>1
  <2>2. CASE i \in 1..n /\ j \notin 1..n
    BY <1>12, <1>13, <2>2
  <2>3. CASE i \notin 1..n /\ j \in 1..n
    BY <1>12, <1>13, <2>3
  <2>4. CASE i \notin 1..n /\ j \notin 1..n
    <3>1. PICK k \in 1..m, l \in 1..m : i = n + k /\ j = n + l
      BY <1>12, <2>4
    <3>2. missing[k] = missing[l]
      BY <1>5, <1>11, <3>1
    <3> QED BY <1>2, <3>1, <3>2
  <2> QED BY <2>1, <2>2, <2>3, <2>4
<1>15. Indexes(after) = 1..N
  <2>1. ASSUME NEW i \in 1..n + m
        PROVE  after[i][1] \in Indexes(found) \cup Missed(missing)
    <3>1. CASE i \in 1..n
      BY <1>10, <3>1
    <3>2. CASE i \notin 1..n
      <4>1. PICK j \in 1..m : i = n + j
        BY <1>12, <3>2
      <4>2. after[i] = fetched[j] /\ fetched[j][1] = missing[j] /\ missing[j] \in Missed(missing)
        BY <1>5, <1>11, <4>1
      <4> QED BY <4>2
    <3> QED BY <3>1, <3>2
  <2>2. ASSUME NEW i \in 1..n
        PROVE  found[i][1] \in Indexes(after)
    BY <1>9, <1>10
  <2>3. ASSUME NEW i \in 1..m
        PROVE  missing[i] \in Indexes(after)
    <3>1. after[n + i][1] = missing[i] /\ n + i \in 1..n + m
      BY <1>5, <1>11
    <3> QED BY <1>9, <3>1
  <2>4. Indexes(after) \subseteq Indexes(found) \cup Missed(missing)
    BY <1>9, <2>1
  <2>5. Indexes(found) \subseteq Indexes(after) /\ Missed(missing) \subseteq Indexes(after)
    BY <1>9, <2>2, <2>3
  <2> QED BY <1>3, <2>4, <2>5
<1>16. \A i \in 1..n + m : Matches(q, after[i])
  <2> SUFFICES ASSUME NEW i \in 1..n + m
               PROVE  Matches(q, after[i])
    OBVIOUS
  <2>1. CASE i \in 1..n
    <3>1. after[i] = found[i]
      BY <1>10, <2>1
    <3> QED BY <1>4, <2>1, <3>1
  <2>2. CASE i \notin 1..n
    <3>1. PICK j \in 1..m : i = n + j
      BY <1>12, <2>2
    <3>2. after[i] = fetched[j]
      BY <1>11, <3>1
    <3> QED BY <1>6, <3>2
  <2> QED BY <2>1, <2>2
<1>17. Missed(<<>>) = {} /\ <<>> \in Seq(1..N) /\ Len(<<>>) = 0
  BY DEF Missed
<1>18. Covers(q, after, <<>>, N)
  <2>1. /\ after \in Seq((1..N) \X Vectors)
        /\ \A i, j \in 1..Len(after) : after[i][1] = after[j][1] => i = j
        /\ \A i \in 1..Len(after) : Matches(q, after[i])
    BY <1>8, <1>14, <1>16 DEF P
  <2>2. \A i, j \in 1..Len(<<>>) : <<>>[i] = <<>>[j] => i = j
    BY <1>17
  <2>3. Indexes(after) \cap Missed(<<>>) = {} /\ Indexes(after) \cup Missed(<<>>) = 1..N
    BY <1>15, <1>17
  <2> QED BY <1>17, <2>1, <2>2, <2>3 DEF Covers, N
<1>19. m \in Nat /\ n + m >= m
  BY <1>1
<1> QED BY <1>8, <1>18, <1>19 DEF after, N, m

\* A complete answer, in its order, has for each text a vector of its own.
LEMMA CoversOrdered ==
  ASSUME NEW q, NEW found, Len(q.texts) \in Nat, Covers(q, found, <<>>, Len(q.texts))
  PROVE  /\ Len(InOrder(found)) = Len(q.texts)
         /\ \A i \in DOMAIN InOrder(found) :
              Matches(q, InOrder(found)[i]) /\ InOrder(found)[i][1] = i
<1> DEFINE N == Len(q.texts)
           n == Len(found)
           P == (1..N) \X Vectors
<1>1. found \in Seq(P) /\ n \in Nat /\ DOMAIN found = 1..n /\ N \in Nat
  <2>1. found \in Seq(P)
    BY DEF Covers
  <2> QED BY <2>1
<1>2. \A i, j \in 1..n : found[i][1] = found[j][1] => i = j
  BY DEF Covers
<1>3. \A i \in 1..n : Matches(q, found[i])
  BY DEF Covers
<1>4. {found[i][1] : i \in 1..n} = 1..N
  <2>1. Missed(<<>>) = {}
    BY DEF Missed
  <2> QED BY <2>1 DEF Covers, Indexes
<1> HIDE DEF N, n, P
<1>5. \A i \in 1..n : found[i][1] \in 1..N
  BY <1>4
<1>6. \A k \in 1..N : \E i \in 1..n : found[i][1] = k
  BY <1>4
\* Before the result of the k-th text are those of k - 1 texts.
<1>7. ASSUME NEW i \in 1..n
      PROVE  Cardinality(Before(found, i)) = found[i][1] - 1
  <2> DEFINE k == found[i][1]
             B == Before(found, i)
             f == [j \in B |-> found[j][1]]
  <2>1. k \in 1..N
    BY <1>5
  <2>2. B = {j \in 1..n : found[j][1] < k}
    <3>1. \A j \in 1..n : ~(found[j][1] = found[i][1] /\ j < i)
      BY <1>1, <1>2
    <3> QED BY <1>1, <3>1 DEF Before
  <2> HIDE DEF B, k
  <2>3. \A j \in B : j \in 1..n /\ f[j] = found[j][1] /\ f[j] \in 1..k - 1
    BY <1>5, <2>1, <2>2
  <2>4. \A j, l \in B : f[j] = f[l] => j = l
    BY <1>2, <2>3
  <2>5. \A x \in 1..k - 1 : \E j \in B : f[j] = x
    <3> SUFFICES ASSUME NEW x \in 1..k - 1
                 PROVE  \E j \in B : f[j] = x
      OBVIOUS
    <3>1. x \in 1..N /\ x < k
      BY <1>1, <2>1
    <3>2. PICK j \in 1..n : found[j][1] = x
      BY <1>6, <3>1
    <3>3. j \in B
      BY <2>2, <3>1, <3>2
    <3> QED BY <2>3, <3>2, <3>3
  <2>6. f \in [B -> 1..k - 1]
    BY <2>3
  <2> HIDE DEF f
  <2>7. f \in Bijection(B, 1..k - 1)
    BY <2>4, <2>5, <2>6 DEF Bijection, Injection, IsInjective, Surjection
  <2>8. B \subseteq 1..n /\ IsFiniteSet(1..n) /\ IsFiniteSet(B)
    <3>1. B \subseteq 1..n
      BY <2>3
    <3>2. IsFiniteSet(1..n)
      BY <1>1, FS_Interval
    <3> QED BY <3>1, <3>2, FS_Subset
  <2>9. Cardinality(B) = Cardinality(1..k - 1)
    BY <2>7, <2>8, FS_Bijection DEF ExistsBijection
  <2>10. Cardinality(1..k - 1) = k - 1
    BY <2>1, FS_Interval
  <2> QED BY <2>9, <2>10 DEF B, k
<1>8. n = N
  <2> DEFINE f == [i \in 1..n |-> found[i][1]]
  <2>1. f \in [1..n -> 1..N] /\ \A i \in 1..n : f[i] = found[i][1]
    BY <1>5
  <2> HIDE DEF f
  <2>4. \A i, j \in 1..n : f[i] = f[j] => i = j
    BY <1>2, <2>1
  <2>5. \A k \in 1..N : \E i \in 1..n : f[i] = k
    BY <1>6, <2>1
  <2>2. f \in Bijection(1..n, 1..N)
    BY <2>1, <2>4, <2>5 DEF Bijection, Injection, IsInjective, Surjection
  <2>3. IsFiniteSet(1..n) /\ Cardinality(1..n) = n /\ Cardinality(1..N) = N
    <3>1. 1 \in Int /\ n \in Int /\ N \in Int
      BY <1>1
    <3>2. IsFiniteSet(1..n) /\ Cardinality(1..n) = IF 1 > n THEN 0 ELSE n - 1 + 1
      BY <3>1, FS_Interval
    <3>3. Cardinality(1..N) = IF 1 > N THEN 0 ELSE N - 1 + 1
      BY <3>1, FS_Interval
    <3> QED BY <1>1, <3>2, <3>3
  <2> QED BY <2>2, <2>3, FS_Bijection DEF ExistsBijection
<1> DEFINE at(k) == CHOOSE i \in 1..n : Cardinality(Before(found, i)) = k - 1
<1>9. ASSUME NEW k \in 1..N
      PROVE  at(k) \in 1..n /\ found[at(k)][1] = k
  <2>1. \E i \in 1..n : Cardinality(Before(found, i)) = k - 1
    BY <1>6, <1>7
  <2>2. at(k) \in 1..n /\ Cardinality(Before(found, at(k))) = k - 1
    BY <2>1
  <2> HIDE DEF at
  <2>3. found[at(k)][1] \in 1..N /\ Cardinality(Before(found, at(k))) = found[at(k)][1] - 1
    BY <1>5, <1>7, <2>2
  <2> QED BY <2>2, <2>3
<1>10. InOrder(found) = [k \in 1..n |-> found[at(k)]]
  BY <1>1 DEF InOrder
<1> HIDE DEF at
<1>11. Len(InOrder(found)) = n /\ DOMAIN InOrder(found) = 1..n
  BY <1>1, <1>10
<1>12. ASSUME NEW i \in 1..n
       PROVE  Matches(q, InOrder(found)[i]) /\ InOrder(found)[i][1] = i
  <2>1. InOrder(found)[i] = found[at(i)]
    BY <1>10
  <2>2. at(i) \in 1..n /\ found[at(i)][1] = i
    BY <1>8, <1>9
  <2> QED BY <1>3, <2>1, <2>2
<1> QED BY <1>8, <1>11, <1>12 DEF N

\* A step of one call leaves the others as sound as they were, as long as it
\* drops nothing from the caches.
LEMMA OneMoves ==
  ASSUME ModelInv, NEW t \in ModelThread,
         modelCall' = [modelCall EXCEPT ![t] = modelCall'[t]],
         client' = client, textMode' \in BOOLEAN, asked' \in 0..MaxModelCalls, CacheSound',
         \A kind \in {"json", "embed"} : \A key : InCache(kind, key) => InCache(kind, key)',
         CallSound(t)'
  PROVE  ModelInv'
<1>1. \A x \in ModelThread \ {t} : modelCall'[x] = modelCall[x]
  BY DEF ModelInv
<1>2. modelCall' = [x \in ModelThread |-> modelCall'[x]]
  BY DEF ModelInv
<1>3. client' \in ClientSettings
  BY DEF ModelInv
<1>4. ASSUME NEW x \in ModelThread \ {t}
      PROVE  CallSound(x)'
  <2>1. CallSound(x) /\ modelCall'[x] = modelCall[x]
    BY <1>1 DEF ModelInv
  <2>2. \A q : Caching(q)' <=> Caching(q)
    BY DEF Caching
  <2>3. \A q, found, missing, n : Covers(q, found, missing, n)' <=> Covers(q, found, missing, n)
    BY DEF Covers, Matches
  <2>4. Framed(modelCall[x])'
    BY <2>1, <2>2 DEF CallSound, Framed
  <2>5. JsonSound(modelCall[x])'
    BY <2>1 DEF CallSound, JsonSound, Usable, HasAnswer
  <2>6. EmbedSound(modelCall[x])'
    BY <2>1, <2>2, <2>3 DEF CallSound, EmbedSound, HasAnswer
  <2>7. ToolsSound(modelCall[x])'
    BY <2>1 DEF CallSound, ToolsSound
  <2>8. LostSound(x)'
    <3> DEFINE c == modelCall[x]
    <3>1. c.at \in {"take", "drop"} => c.request.kind \in {"json", "embed"}
      BY <2>1 DEF CallSound, Framed, AtCache, Caching
    <3>2. Wanted(x)' = Wanted(x)
      BY <2>1 DEF Wanted
    <3>3. c.outcome = "lost" => c.disturbed
      BY <2>1 DEF CallSound, LostSound
    <3>4. c.at = "take" => c.disturbed \/ InCache(c.request.kind, Wanted(x))'
      <4>1. c.at = "take" => c.disturbed \/ InCache(c.request.kind, Wanted(x))
        BY <2>1 DEF CallSound, LostSound
      <4>2. PICK kind, key : kind = c.request.kind /\ key = Wanted(x)
        OBVIOUS
      <4>3. (InCache(c.request.kind, Wanted(x))' <=> InCache(kind, key)')
        BY <2>1, <3>2, <4>2
      <4> QED BY <3>1, <4>1, <4>2, <4>3
    <3>5. c.at = "drop" => c.disturbed \/ InCache(c.request.kind, c.victim[1])'
      <4>1. c.at = "drop" => c.disturbed \/ InCache(c.request.kind, c.victim[1])
        BY <2>1 DEF CallSound, LostSound
      <4>2. PICK kind, key : kind = c.request.kind /\ key = c.victim[1]
        OBVIOUS
      <4>3. (InCache(c.request.kind, c.victim[1])' <=> InCache(kind, key)')
        BY <2>1, <4>2
      <4> QED BY <3>1, <4>1, <4>2, <4>3
    <3> QED BY <2>1, <3>3, <3>4, <3>5 DEF LostSound
  <2> QED BY <2>4, <2>5, <2>6, <2>7, <2>8 DEF CallSound
<1> QED BY <1>2, <1>3, <1>4 DEF ModelInv

\* The same, when the caches stay as they are.
LEMMA OneMovesAlone ==
  ASSUME ModelInv, NEW t \in ModelThread,
         modelCall' = [modelCall EXCEPT ![t] = modelCall'[t]],
         client' = client, textMode' \in BOOLEAN, asked' \in 0..MaxModelCalls, cache' = cache,
         CallSound(t)'
  PROVE  ModelInv'
<1>1. CacheSound'
  BY DEF ModelInv, CacheSound
<1>2. \A kind, key : InCache(kind, key) => InCache(kind, key)'
  BY DEF InCache
<1> QED BY <1>1, <1>2, OneMoves

\* The first n texts, of which none was looked at yet.
LEMMA CoversNone ==
  ASSUME NEW q, Len(q.texts) \in Nat
  PROVE  Covers(q, <<>>, <<>>, 0)
<1>1. <<>> \in Seq((1..Len(q.texts)) \X Vectors) /\ <<>> \in Seq(1..Len(q.texts)) /\ Len(<<>>) = 0
  OBVIOUS
<1>2. Indexes(<<>>) = {} /\ Missed(<<>>) = {} /\ 1..0 = {}
  BY <1>1 DEF Indexes, Missed
<1>3. \A i, j \in 1..0 : i = j
  OBVIOUS
<1> QED BY <1>1, <1>2, <1>3 DEF Covers

\* All texts are missing: they are not looked for in a cache.
LEMMA CoversAll ==
  ASSUME NEW q, q.texts \in Seq(DOMAIN Length)
  PROVE  Covers(q, <<>>, [i \in DOMAIN q.texts |-> i], Len(q.texts))
<1> DEFINE N == Len(q.texts)
           all == [i \in DOMAIN q.texts |-> i]
<1>1. N \in Nat /\ DOMAIN q.texts = 1..N
  OBVIOUS
<1> HIDE DEF N
<1>2. all = [i \in 1..N |-> i]
  BY <1>1
<1>3. all \in Seq(1..N) /\ Len(all) = N /\ \A i \in 1..N : all[i] = i
  BY <1>1, <1>2
<1> HIDE DEF all
<1>4. <<>> \in Seq((1..N) \X Vectors) /\ Len(<<>>) = 0 /\ Indexes(<<>>) = {}
  BY DEF Indexes
<1>5. Missed(all) = 1..N
  BY <1>3 DEF Missed
<1>6. \A i, j \in 1..Len(all) : all[i] = all[j] => i = j
  BY <1>3
<1>7. Covers(q, <<>>, all, N)
  BY <1>3, <1>4, <1>5, <1>6 DEF Covers, N
<1> QED BY <1>7 DEF all, N

LEMMA AskKeeps ==
  ASSUME ModelInv, NEW t \in ModelThread, NEW q \in ModelRequests, Ask(t, q)
  PROVE  ModelInv'
<1> DEFINE missing == IF q.kind = "embed" /\ ~Caching(q) THEN [i \in DOMAIN q.texts |-> i] ELSE <<>>
           at == IF Caching(q) THEN "look" ELSE IF q.kind = "json" THEN "json" ELSE q.kind
           d == modelCall'[t]
<1>1. /\ client' = client /\ textMode' = textMode /\ cache' = cache
      /\ asked' = asked + 1 /\ asked < MaxModelCalls
  BY DEF Ask
<1>2. /\ d = [at |-> at, request |-> q, next |-> 1, found |-> <<>>, missing |-> missing,
              victim |-> <<>>, outcome |-> "none", disturbed |-> FALSE]
      /\ modelCall' = [modelCall EXCEPT ![t] = d]
  BY DEF Ask, ModelInv, NoModelCall
<1>3. \A r : Caching(r)' <=> Caching(r)
  BY <1>1 DEF Caching
<1>4. q.kind \in {"json", "tools", "messages", "embed"}
  BY ModelConstants
<1>5. Caching(q) => q.kind \in {"json", "embed"}
  BY DEF Caching
<1>6. at \in {"look", "json", "tools", "messages", "embed"} /\ at \in ModelStages
  BY <1>4, <1>5 DEF ModelStages, AtCache
<1>7. Framed(modelCall[t])'
  <2>1. at \in {"json", "structured", "text"} => q.kind = "json"
    BY <1>4
  <2>2. at \in {"tools", "messages", "embed"} => q.kind = at
    BY <1>4, <1>5
  <2>3. at \in AtCache => Caching(q)
    BY <1>4 DEF AtCache
  <2> HIDE DEF at, missing
  <2>4. [at |-> d.at, outcome |-> d.outcome, disturbed |-> d.disturbed, next |-> d.next,
         request |-> d.request] \in ModelCalls
    BY <1>2, <1>6 DEF ModelCalls
  <2> QED BY <1>2, <1>3, <2>1, <2>2, <2>3, <2>4 DEF Framed, Whole
<1>8. JsonSound(modelCall[t])'
  BY <1>2, <1>6 DEF JsonSound, HasAnswer
<1>9. EmbedSound(modelCall[t])'
  <2> SUFFICES ASSUME q.kind = "embed"
               PROVE  EmbedSound(modelCall[t])'
    BY <1>2 DEF EmbedSound
  <2>1. q.texts \in Seq(DOMAIN Length) /\ Len(q.texts) \in Nat
    <3>1. q.texts \in Seq(DOMAIN Length)
      BY ModelConstants
    <3> QED BY <3>1
  <2>2. \A r, f, m, n : Covers(r, f, m, n)' <=> Covers(r, f, m, n)
    BY <1>1 DEF Covers, Matches
  <2>3. Covers(q, <<>>, <<>>, 0)
    BY <2>1, CoversNone
  <2>4. Covers(q, <<>>, [i \in DOMAIN q.texts |-> i], Len(q.texts))
    BY <2>1, CoversAll
  <2>5. CASE Caching(q)
    <3>1. d.at = "look" /\ d.found = <<>> /\ d.missing = <<>> /\ d.next = 1 /\ d.request = q /\ d.outcome = "none"
      BY <1>2, <2>5
    <3> QED BY <2>1, <2>2, <2>3, <3>1 DEF EmbedSound, HasAnswer
  <2>6. CASE ~Caching(q)
    <3>1. /\ d.at = "embed" /\ d.found = <<>> /\ d.missing = [i \in DOMAIN q.texts |-> i] /\ d.next = 1
          /\ d.request = q /\ d.outcome = "none"
      BY <1>2, <2>6
    <3> QED BY <2>1, <2>2, <2>4, <3>1, ModelConstants DEF EmbedSound, HasAnswer
  <2> QED BY <2>5, <2>6
<1>10. ToolsSound(modelCall[t])' /\ LostSound(t)'
  BY <1>2, <1>6 DEF ToolsSound, LostSound
<1>11. CallSound(t)'
  BY <1>7, <1>8, <1>9, <1>10 DEF CallSound
<1>12. textMode' \in BOOLEAN /\ asked' \in 0..MaxModelCalls
  BY <1>1, ModelConstants DEF ModelInv
<1> QED BY <1>1, <1>2, <1>11, <1>12, OneMovesAlone

\* What is known of a call that is under way.
LEMMA CallFacts ==
  ASSUME ModelInv, NEW t \in ModelThread, modelCall[t].at # "idle"
  PROVE  LET c == modelCall[t] q == c.request IN
         /\ modelCall = [x \in ModelThread |-> modelCall[x]]
         /\ textMode \in BOOLEAN /\ asked \in 0..MaxModelCalls /\ client \in ClientSettings
         /\ Framed(c) /\ JsonSound(c) /\ EmbedSound(c) /\ ToolsSound(c) /\ LostSound(t)
         /\ q \in ModelRequests /\ c.next \in Nat \ {0} /\ c.outcome = "none" /\ c.disturbed \in BOOLEAN
         /\ q.kind \in {"json", "tools", "messages", "embed"}
         /\ q.kind = "json" => q.schema \in Schemas
         /\ q.kind = "embed" => q.texts \in Seq(DOMAIN Length) /\ Len(q.texts) \in Nat
         /\ c.at \in AtCache => Caching(q) /\ q.kind \in {"json", "embed"}
<1> DEFINE c == modelCall[t]
           q == c.request
<1>1. /\ modelCall = [x \in ModelThread |-> modelCall[x]]
      /\ textMode \in BOOLEAN /\ asked \in 0..MaxModelCalls /\ client \in ClientSettings
      /\ Framed(c) /\ JsonSound(c) /\ EmbedSound(c) /\ ToolsSound(c) /\ LostSound(t)
  BY DEF ModelInv, CallSound
<1>2. /\ q \in ModelRequests /\ c.outcome = "none"
      /\ c.at \in AtCache => Caching(q)
  BY <1>1 DEF Framed
<1>3. c.next \in Nat \ {0} /\ c.disturbed \in BOOLEAN
  BY <1>1 DEF Framed, ModelCalls
<1>4. /\ q.kind \in {"json", "tools", "messages", "embed"}
      /\ q.kind = "json" => q.schema \in Schemas
      /\ q.kind = "embed" => q.texts \in Seq(DOMAIN Length)
  BY <1>2, ModelConstants
<1>5. q.kind = "embed" => Len(q.texts) \in Nat
  BY <1>4
<1>6. Caching(q) => q.kind \in {"json", "embed"}
  BY DEF Caching
<1> QED BY <1>1, <1>2, <1>3, <1>4, <1>5, <1>6

\* The call goes on at another stage.
MovesOn(c, at, next, found, missing, victim) ==
    [at |-> at, request |-> c.request, next |-> next, found |-> found, missing |-> missing,
     victim |-> victim, outcome |-> "none", disturbed |-> c.disturbed]

LEMMA MoveSound ==
  ASSUME ModelInv, NEW t \in ModelThread, NEW at \in ModelStages \ {"idle"}, NEW next \in Nat \ {0},
         NEW found, NEW missing, NEW victim, modelCall[t].at # "idle",
         modelCall'[t] = MovesOn(modelCall[t], at, next, found, missing, victim),
         client' = client,
         at \in {"json", "structured", "text"} => modelCall[t].request.kind = "json",
         at \in {"tools", "messages", "embed"} => modelCall[t].request.kind = at,
         at \in AtCache => Caching(modelCall[t].request),
         JsonSound(MovesOn(modelCall[t], at, next, found, missing, victim)),
         EmbedSound(MovesOn(modelCall[t], at, next, found, missing, victim)),
         LostSound(t)'
  PROVE  CallSound(t)'
<1> DEFINE c == modelCall[t]
           q == c.request
           d == modelCall'[t]
           e == MovesOn(c, at, next, found, missing, victim)
<1>1. q \in ModelRequests /\ c.disturbed \in BOOLEAN
  BY CallFacts
<1>2. d = [at |-> at, request |-> q, next |-> next, found |-> found, missing |-> missing,
           victim |-> victim, outcome |-> "none", disturbed |-> c.disturbed]
  BY DEF MovesOn
<1>3. \A r : Caching(r)' <=> Caching(r)
  BY DEF Caching
<1>4. Framed(modelCall[t])'
  <2>1. [at |-> d.at, outcome |-> d.outcome, disturbed |-> d.disturbed, next |-> d.next,
         request |-> d.request] \in ModelCalls
    BY <1>1, <1>2 DEF ModelCalls
  <2> QED BY <1>1, <1>2, <1>3, <2>1 DEF Framed, Whole
<1>5. JsonSound(modelCall[t])'
  BY <1>2 DEF JsonSound, HasAnswer, Usable, MovesOn
<1>6. EmbedSound(modelCall[t])'
  <2>1. \A r, f, m, n : Covers(r, f, m, n)' <=> Covers(r, f, m, n)
    BY DEF Covers, Matches
  <2>2. EmbedSound(e) /\ d = e
    OBVIOUS
  <2> HIDE DEF d, e
  <2>3. EmbedSound(d)
    BY <2>2
  <2> QED BY <1>3, <2>1, <2>3 DEF EmbedSound, HasAnswer, d
<1>7. ToolsSound(modelCall[t])'
  BY <1>2 DEF ToolsSound
<1> QED BY <1>4, <1>5, <1>6, <1>7 DEF CallSound

LEMMA MoveKeeps ==
  ASSUME ModelInv, NEW t \in ModelThread, NEW at \in ModelStages \ {"idle"}, NEW next \in Nat \ {0},
         NEW found, NEW missing, NEW victim, modelCall[t].at # "idle",
         modelCall' = [modelCall EXCEPT ![t] = modelCall'[t]],
         modelCall'[t] = MovesOn(modelCall[t], at, next, found, missing, victim),
         client' = client, textMode' \in BOOLEAN, asked' = asked,
         CacheSound', \A kind \in {"json", "embed"} : \A key : InCache(kind, key) => InCache(kind, key)',
         at \in {"json", "structured", "text"} => modelCall[t].request.kind = "json",
         at \in {"tools", "messages", "embed"} => modelCall[t].request.kind = at,
         at \in AtCache => Caching(modelCall[t].request),
         JsonSound(MovesOn(modelCall[t], at, next, found, missing, victim)),
         EmbedSound(MovesOn(modelCall[t], at, next, found, missing, victim)),
         LostSound(t)'
  PROVE  ModelInv'
<1>1. asked' \in 0..MaxModelCalls
  BY DEF ModelInv
<1>2. CallSound(t)'
  BY MoveSound
<1> HIDE DEF CacheSound
<1> QED BY <1>1, <1>2, OneMoves

\* The same, when the caches stay as they are.
LEMMA MoveAloneKeeps ==
  ASSUME ModelInv, NEW t \in ModelThread, NEW at \in ModelStages \ {"idle"}, NEW next \in Nat \ {0},
         NEW found, NEW missing, NEW victim, modelCall[t].at # "idle",
         modelCall' = [modelCall EXCEPT ![t] = modelCall'[t]],
         modelCall'[t] = MovesOn(modelCall[t], at, next, found, missing, victim),
         client' = client, textMode' \in BOOLEAN, asked' = asked, cache' = cache,
         at \in {"json", "structured", "text"} => modelCall[t].request.kind = "json",
         at \in {"tools", "messages", "embed"} => modelCall[t].request.kind = at,
         at \in AtCache => Caching(modelCall[t].request),
         JsonSound(MovesOn(modelCall[t], at, next, found, missing, victim)),
         EmbedSound(MovesOn(modelCall[t], at, next, found, missing, victim)),
         LostSound(t)'
  PROVE  ModelInv'
<1>1. CacheSound'
  BY DEF ModelInv, CacheSound
<1>2. \A kind, key : InCache(kind, key) => InCache(kind, key)'
  BY DEF InCache
<1> HIDE DEF CacheSound
<1> QED BY <1>1, <1>2, MoveKeeps

\* The call ends, with an answer or without.
Over(c, outcome, next, found, missing, victim) ==
    [at |-> "idle", request |-> c.request, next |-> next, found |-> found, missing |-> missing,
     victim |-> victim, outcome |-> outcome, disturbed |-> c.disturbed]

\* What the updates of a call amount to.
LEMMA OverAlone ==
  ASSUME NEW c, NEW outcome, NEW d, Whole(c),
         d = [c EXCEPT !.at = "idle", !.outcome = outcome]
  PROVE  d = Over(c, outcome, c.next, c.found, c.missing, c.victim)
<1>1. d = [at |-> "idle", request |-> c.request, next |-> c.next, found |-> c.found, missing |-> c.missing,
           victim |-> c.victim, outcome |-> outcome, disturbed |-> c.disturbed]
  BY DEF Whole
<1> QED BY <1>1 DEF Over

LEMMA OverFound ==
  ASSUME NEW c, NEW found, NEW outcome, NEW d, Whole(c),
         d = [c EXCEPT !.found = found, !.at = "idle", !.outcome = outcome]
  PROVE  d = Over(c, outcome, c.next, found, c.missing, c.victim)
<1>1. d = [at |-> "idle", request |-> c.request, next |-> c.next, found |-> found, missing |-> c.missing,
           victim |-> c.victim, outcome |-> outcome, disturbed |-> c.disturbed]
  BY DEF Whole
<1> QED BY <1>1 DEF Over

LEMMA OverTaken ==
  ASSUME NEW c, NEW found, NEW next, NEW outcome, NEW d, Whole(c),
         d = [c EXCEPT !.found = found, !.next = next, !.at = "idle", !.outcome = outcome]
  PROVE  d = Over(c, outcome, next, found, c.missing, c.victim)
<1>1. d = [at |-> "idle", request |-> c.request, next |-> next, found |-> found, missing |-> c.missing,
           victim |-> c.victim, outcome |-> outcome, disturbed |-> c.disturbed]
  BY DEF Whole
<1> QED BY <1>1 DEF Over

LEMMA MovesAt ==
  ASSUME NEW c, NEW at, NEW d, Whole(c), c.outcome = "none",
         d = [c EXCEPT !.at = at]
  PROVE  d = MovesOn(c, at, c.next, c.found, c.missing, c.victim)
<1>1. d = [at |-> at, request |-> c.request, next |-> c.next, found |-> c.found, missing |-> c.missing,
           victim |-> c.victim, outcome |-> c.outcome, disturbed |-> c.disturbed]
  BY DEF Whole
<1> QED BY <1>1 DEF MovesOn

LEMMA MovesNext ==
  ASSUME NEW c, NEW next, NEW d, Whole(c), c.outcome = "none",
         d = [c EXCEPT !.next = next]
  PROVE  d = MovesOn(c, c.at, next, c.found, c.missing, c.victim)
<1>1. d = [at |-> c.at, request |-> c.request, next |-> next, found |-> c.found, missing |-> c.missing,
           victim |-> c.victim, outcome |-> c.outcome, disturbed |-> c.disturbed]
  BY DEF Whole
<1> QED BY <1>1 DEF MovesOn

LEMMA MovesAtNext ==
  ASSUME NEW c, NEW at, NEW next, NEW d, Whole(c), c.outcome = "none",
         d = [c EXCEPT !.at = at, !.next = next]
  PROVE  d = MovesOn(c, at, next, c.found, c.missing, c.victim)
<1>1. d = [at |-> at, request |-> c.request, next |-> next, found |-> c.found, missing |-> c.missing,
           victim |-> c.victim, outcome |-> c.outcome, disturbed |-> c.disturbed]
  BY DEF Whole
<1> QED BY <1>1 DEF MovesOn

LEMMA MovesMissing ==
  ASSUME NEW c, NEW missing, NEW next, NEW d, Whole(c), c.outcome = "none",
         d = [c EXCEPT !.missing = missing, !.next = next]
  PROVE  d = MovesOn(c, c.at, next, c.found, missing, c.victim)
<1>1. d = [at |-> c.at, request |-> c.request, next |-> next, found |-> c.found, missing |-> missing,
           victim |-> c.victim, outcome |-> c.outcome, disturbed |-> c.disturbed]
  BY DEF Whole
<1> QED BY <1>1 DEF MovesOn

LEMMA MovesMissingAt ==
  ASSUME NEW c, NEW missing, NEW at, NEW d, Whole(c), c.outcome = "none",
         d = [c EXCEPT !.missing = missing, !.at = at]
  PROVE  d = MovesOn(c, at, c.next, c.found, missing, c.victim)
<1>1. d = [at |-> at, request |-> c.request, next |-> c.next, found |-> c.found, missing |-> missing,
           victim |-> c.victim, outcome |-> c.outcome, disturbed |-> c.disturbed]
  BY DEF Whole
<1> QED BY <1>1 DEF MovesOn

LEMMA MovesVictim ==
  ASSUME NEW c, NEW at, NEW victim, NEW d, Whole(c), c.outcome = "none",
         d = [c EXCEPT !.at = at, !.victim = victim]
  PROVE  d = MovesOn(c, at, c.next, c.found, c.missing, victim)
<1>1. d = [at |-> at, request |-> c.request, next |-> c.next, found |-> c.found, missing |-> c.missing,
           victim |-> victim, outcome |-> c.outcome, disturbed |-> c.disturbed]
  BY DEF Whole
<1> QED BY <1>1 DEF MovesOn

LEMMA MovesFound ==
  ASSUME NEW c, NEW found, NEW at, NEW d, Whole(c), c.outcome = "none",
         d = [c EXCEPT !.found = found, !.at = at, !.outcome = "none"]
  PROVE  d = MovesOn(c, at, c.next, found, c.missing, c.victim)
<1>1. d = [at |-> at, request |-> c.request, next |-> c.next, found |-> found, missing |-> c.missing,
           victim |-> c.victim, outcome |-> "none", disturbed |-> c.disturbed]
  BY DEF Whole
<1> QED BY <1>1 DEF MovesOn

LEMMA MovesTaken ==
  ASSUME NEW c, NEW found, NEW next, NEW at, NEW d, Whole(c), c.outcome = "none",
         d = [c EXCEPT !.found = found, !.next = next, !.at = at, !.outcome = "none"]
  PROVE  d = MovesOn(c, at, next, found, c.missing, c.victim)
<1>1. d = [at |-> at, request |-> c.request, next |-> next, found |-> found, missing |-> c.missing,
           victim |-> c.victim, outcome |-> "none", disturbed |-> c.disturbed]
  BY DEF Whole
<1> QED BY <1>1 DEF MovesOn

LEMMA OverSound ==
  ASSUME ModelInv, NEW t \in ModelThread, NEW outcome \in {"answered", "failed", "lost"}, NEW next \in Nat \ {0},
         NEW found, NEW missing, NEW victim, modelCall[t].at # "idle",
         modelCall'[t] = Over(modelCall[t], outcome, next, found, missing, victim),
         client' = client,
         outcome = "lost" => modelCall[t].disturbed,
         modelCall[t].request.kind = "json" => missing = <<>>,
         outcome = "answered" /\ modelCall[t].request.kind = "json" => Usable(found[1][2], modelCall[t].request),
         outcome = "answered" /\ modelCall[t].request.kind = "embed" =>
            Covers(modelCall[t].request, found, <<>>, Len(modelCall[t].request.texts)),
         outcome = "answered" /\ modelCall[t].request.kind = "tools" /\ modelCall[t].request.choice = "required" =>
            found # <<>>
  PROVE  CallSound(t)'
<1> DEFINE c == modelCall[t]
           q == c.request
           d == modelCall'[t]
<1>1. q \in ModelRequests /\ c.disturbed \in BOOLEAN
  BY CallFacts
<1>2. d = [at |-> "idle", request |-> q, next |-> next, found |-> found, missing |-> missing,
           victim |-> victim, outcome |-> outcome, disturbed |-> c.disturbed]
  BY DEF Over
<1>3. Framed(modelCall[t])'
  <2>1. [at |-> d.at, outcome |-> d.outcome, disturbed |-> d.disturbed, next |-> d.next,
         request |-> d.request] \in ModelCalls
    BY <1>1, <1>2 DEF ModelCalls, ModelStages
  <2> QED BY <1>2, <2>1 DEF Framed, AtCache, Whole
<1>4. JsonSound(modelCall[t])'
  BY <1>2 DEF JsonSound, HasAnswer, AtCache, Usable
<1>5. EmbedSound(modelCall[t])'
  <2>1. \A r, f, m, n : Covers(r, f, m, n)' <=> Covers(r, f, m, n)
    BY DEF Covers, Matches
  <2> QED BY <1>2, <2>1 DEF EmbedSound, HasAnswer
<1>6. ToolsSound(modelCall[t])' /\ LostSound(t)'
  BY <1>2 DEF ToolsSound, LostSound
<1> QED BY <1>3, <1>4, <1>5, <1>6 DEF CallSound

LEMMA OverKeeps ==
  ASSUME ModelInv, NEW t \in ModelThread, NEW outcome \in {"answered", "failed", "lost"}, NEW next \in Nat \ {0},
         NEW found, NEW missing, NEW victim, modelCall[t].at # "idle",
         modelCall' = [modelCall EXCEPT ![t] = modelCall'[t]],
         modelCall'[t] = Over(modelCall[t], outcome, next, found, missing, victim),
         client' = client, textMode' = textMode, asked' = asked, cache' = cache,
         outcome = "lost" => modelCall[t].disturbed,
         modelCall[t].request.kind = "json" => missing = <<>>,
         outcome = "answered" /\ modelCall[t].request.kind = "json" => Usable(found[1][2], modelCall[t].request),
         outcome = "answered" /\ modelCall[t].request.kind = "embed" =>
            Covers(modelCall[t].request, found, <<>>, Len(modelCall[t].request.texts)),
         outcome = "answered" /\ modelCall[t].request.kind = "tools" /\ modelCall[t].request.choice = "required" =>
            found # <<>>
  PROVE  ModelInv'
<1>1. textMode' \in BOOLEAN /\ asked' \in 0..MaxModelCalls
  BY DEF ModelInv
<1>2. CallSound(t)'
  BY OverSound
<1> QED BY <1>1, <1>2, OneMovesAlone

\* Where what was found stays with the call that ends.
LEMMA EndKeeps ==
  ASSUME ModelInv, NEW t \in ModelThread, NEW outcome \in {"answered", "failed", "lost"},
         Ends(t, outcome), modelCall[t].at # "idle",
         client' = client, textMode' = textMode, asked' = asked, cache' = cache,
         outcome = "lost" => modelCall[t].disturbed,
         outcome = "answered" =>
            /\ modelCall[t].request.kind # "json"
            /\ modelCall[t].request.kind = "tools" => modelCall[t].request.choice = "auto"
            /\ modelCall[t].request.kind = "embed" =>
                  Covers(modelCall[t].request, modelCall[t].found, <<>>, Len(modelCall[t].request.texts))
  PROVE  ModelInv'
<1> DEFINE c == modelCall[t]
<1>1. /\ Framed(c) /\ JsonSound(c) /\ c.next \in Nat \ {0}
      /\ modelCall = [x \in ModelThread |-> modelCall[x]]
  BY CallFacts
<1>2. modelCall'[t] = Over(c, outcome, c.next, c.found, c.missing, c.victim)
  <2>1. modelCall'[t] = [c EXCEPT !.at = "idle", !.outcome = outcome] /\ Whole(c)
    BY <1>1 DEF Ends, Framed
  <2> HIDE DEF c
  <2> QED BY <2>1, OverAlone
<1>3. modelCall' = [modelCall EXCEPT ![t] = modelCall'[t]]
  BY <1>1 DEF Ends
<1>4. c.request.kind = "json" => c.missing = <<>>
  BY <1>1 DEF JsonSound
<1> QED BY <1>1, <1>2, <1>3, <1>4, OverKeeps

\* A step to another stage at which nothing else changes.
LEMMA ProceedKeeps ==
  ASSUME ModelInv, NEW t \in ModelThread, NEW at \in {"take", "json", "structured", "text"},
         Proceeds(t, at), modelCall[t].at # "idle",
         client' = client, textMode' \in BOOLEAN, asked' = asked, cache' = cache,
         at = "take" => /\ Caching(modelCall[t].request) /\ InCache(modelCall[t].request.kind, Wanted(t))
                        /\ modelCall[t].at = "look",
         at \in {"json", "structured", "text"} => modelCall[t].request.kind = "json",
         at = "json" => modelCall[t].at = "look",
         at = "take" /\ modelCall[t].request.kind = "embed" =>
            modelCall[t].next <= Len(modelCall[t].request.texts)
  PROVE  ModelInv'
<1> DEFINE c == modelCall[t]
           q == c.request
           e == MovesOn(c, at, c.next, c.found, c.missing, c.victim)
<1>1. /\ Framed(c) /\ JsonSound(c) /\ EmbedSound(c) /\ c.next \in Nat \ {0} /\ c.outcome = "none"
      /\ modelCall = [x \in ModelThread |-> modelCall[x]]
  BY CallFacts
<1>2. modelCall'[t] = e
  <2>1. modelCall'[t] = [c EXCEPT !.at = at] /\ Whole(c)
    BY <1>1 DEF Proceeds, Framed
  <2> HIDE DEF c
  <2> QED BY <1>1, <2>1, MovesAt
<1>3. modelCall' = [modelCall EXCEPT ![t] = modelCall'[t]]
  BY <1>1 DEF Proceeds
<1>4. /\ e.at = at /\ e.request = q /\ e.next = c.next /\ e.found = c.found /\ e.missing = c.missing
      /\ e.outcome = "none" /\ e.disturbed = c.disturbed
  BY DEF MovesOn
<1> HIDE DEF e
<1>5. JsonSound(e)
  BY <1>1, <1>4 DEF JsonSound, HasAnswer, AtCache
<1>6. EmbedSound(e)
  BY <1>1, <1>4 DEF EmbedSound, HasAnswer
<1>7. LostSound(t)'
  <2>1. Wanted(t)' = Wanted(t)
    BY <1>2, <1>4 DEF Wanted
  <2>2. \A kind, key : InCache(kind, key)' <=> InCache(kind, key)
    BY DEF InCache
  <2>3. PICK kind, key : kind = q.kind /\ key = Wanted(t)
    OBVIOUS
  <2>4. at = "take" => InCache(kind, key)'
    BY <2>2, <2>3
  <2>5. at = "take" => InCache(modelCall[t].request.kind, Wanted(t))'
    BY <1>2, <1>4, <2>1, <2>3, <2>4
  <2> QED BY <1>2, <1>4, <2>5 DEF LostSound
<1>8. at \in ModelStages \ {"idle"} /\ (at \in AtCache => Caching(q)) /\ at \notin {"tools", "messages", "embed"}
  BY DEF ModelStages, AtCache
<1> HIDE DEF Proceeds
<1> QED BY <1>1, <1>2, <1>3, <1>5, <1>6, <1>7, <1>8, MoveAloneKeeps DEF e

LEMMA LookKeeps ==
  ASSUME ModelInv, NEW t \in ModelThread, Look(t)
  PROVE  ModelInv'
<1> DEFINE c == modelCall[t]
           q == c.request
<1>1. c.at = "look" /\ client' = client /\ textMode' = textMode /\ cache' = cache /\ asked' = asked
  BY DEF Look
<1>2. /\ Framed(c) /\ JsonSound(c) /\ EmbedSound(c) /\ LostSound(t)
      /\ c.next \in Nat \ {0} /\ c.outcome = "none" /\ textMode \in BOOLEAN
      /\ modelCall = [x \in ModelThread |-> modelCall[x]] /\ Caching(q) /\ q.kind \in {"json", "embed"}
      /\ q.kind = "embed" => q.texts \in Seq(DOMAIN Length) /\ Len(q.texts) \in Nat
  BY <1>1, CallFacts DEF AtCache
<1>3. q.kind = "embed" => c.next <= Len(q.texts) + 1 /\ Covers(q, c.found, c.missing, c.next - 1)
  BY <1>1, <1>2 DEF EmbedSound
<1>4. q.kind = "json" => c.found = <<>> /\ c.missing = <<>>
  BY <1>1, <1>2 DEF JsonSound, HasAnswer, AtCache
<1>5. CASE q.kind = "embed" /\ c.next > Len(q.texts)
  <2>1. c.next - 1 = Len(q.texts)
    BY <1>2, <1>3, <1>5
  <2>2. Covers(q, c.found, c.missing, Len(q.texts))
    BY <1>3, <1>5, <2>1
  <2>3. CASE c.missing = <<>>
    <3>1. Ends(t, "answered")
      BY <1>1, <1>5, <2>3 DEF Look
    <3> QED BY <1>1, <1>5, <2>2, <2>3, <3>1, EndKeeps
  <2>4. CASE c.missing # <<>>
    <3> DEFINE e == MovesOn(c, "embed", 1, c.found, c.missing, c.victim)
    <3>1. modelCall' = [modelCall EXCEPT ![t].at = "embed", ![t].next = 1]
      BY <1>1, <1>5, <2>4 DEF Look
    <3>2. modelCall' = [modelCall EXCEPT ![t] = modelCall'[t]]
      BY <1>2, <3>1
    <3>3. modelCall'[t] = e
      <4>1. modelCall'[t] = [c EXCEPT !.at = "embed", !.next = 1] /\ Whole(c)
        BY <1>2, <3>1 DEF Framed
      <4> HIDE DEF c
      <4> QED BY <1>2, <4>1, MovesAtNext
    <3>4. JsonSound(e)
      BY <1>5 DEF JsonSound, MovesOn
    <3>5. EmbedSound(e)
      BY <1>2, <2>2, ModelConstants DEF EmbedSound, MovesOn, HasAnswer
    <3>6. LostSound(t)'
      BY <3>3 DEF LostSound, MovesOn
    <3>7. "embed" \in ModelStages \ {"idle"} /\ 1 \in Nat \ {0} /\ textMode' \in BOOLEAN
      BY <1>1, <1>2 DEF ModelStages
    <3> QED BY <1>1, <1>2, <1>5, <3>2, <3>3, <3>4, <3>5, <3>6, <3>7, MoveAloneKeeps DEF AtCache
  <2> QED BY <2>3, <2>4
<1>6. CASE ~(q.kind = "embed" /\ c.next > Len(q.texts)) /\ InCache(q.kind, Wanted(t))
  <2>1. Proceeds(t, "take")
    BY <1>1, <1>6 DEF Look
  <2>2. q.kind = "embed" => c.next <= Len(q.texts)
    BY <1>2, <1>6
  <2> QED BY <1>1, <1>2, <1>6, <2>1, <2>2, ProceedKeeps
<1>7. CASE q.kind = "json" /\ ~InCache(q.kind, Wanted(t))
  <2>1. Proceeds(t, "json")
    BY <1>1, <1>7 DEF Look
  <2> QED BY <1>1, <1>2, <1>7, <2>1, ProceedKeeps
<1>8. CASE q.kind = "embed" /\ ~(c.next > Len(q.texts)) /\ ~InCache(q.kind, Wanted(t))
  <2> DEFINE missing == Append(c.missing, c.next)
             e == MovesOn(c, "look", c.next + 1, c.found, missing, c.victim)
  <2>1. modelCall' = [modelCall EXCEPT ![t].missing = Append(@, c.next), ![t].next = @ + 1]
    BY <1>1, <1>8 DEF Look
  <2>2. modelCall' = [modelCall EXCEPT ![t] = modelCall'[t]]
    BY <1>2, <2>1
  <2>3. modelCall'[t] = e
    <3>1. modelCall'[t] = [c EXCEPT !.missing = missing, !.next = c.next + 1] /\ Whole(c) /\ c.outcome = "none"
      BY <1>2, <2>1 DEF Framed
    <3> HIDE DEF c, missing
    <3>2. modelCall'[t] = MovesOn(c, c.at, c.next + 1, c.found, missing, c.victim)
      BY <3>1, MovesMissing
    <3>3. c.at = "look"
      BY <1>1 DEF c
    <3> QED BY <3>2, <3>3
  <2>4. Covers(q, c.found, missing, c.next)
    <3>1. c.next - 1 \in Nat /\ c.next - 1 < Len(q.texts) /\ c.next - 1 + 1 = c.next
      BY <1>2, <1>8
    <3> QED BY <1>2, <1>3, <1>8, <3>1, CoversMissing
  <2>5. c.next + 1 <= Len(q.texts) + 1 /\ (c.next + 1) - 1 = c.next /\ c.next + 1 \in Nat \ {0}
    BY <1>2, <1>8
  <2>6. JsonSound(e)
    BY <1>8 DEF JsonSound, MovesOn
  <2>7. EmbedSound(e)
    <3> HIDE DEF missing
    <3>1. e.at = "look" /\ e.next = c.next + 1 /\ e.found = c.found /\ e.missing = missing /\ e.request = q
          /\ e.outcome = "none"
      BY DEF MovesOn
    <3> HIDE DEF e
    <3> QED BY <2>4, <2>5, <3>1 DEF EmbedSound, HasAnswer
  <2>8. LostSound(t)'
    BY <2>3 DEF LostSound, MovesOn
  <2>9. "look" \in ModelStages \ {"idle"} /\ textMode' \in BOOLEAN
    BY <1>1, <1>2 DEF ModelStages, AtCache
  <2> QED BY <1>1, <1>2, <2>2, <2>3, <2>5, <2>6, <2>7, <2>8, <2>9, MoveAloneKeeps
<1> QED BY <1>2, <1>5, <1>6, <1>7, <1>8

\* The entry that is taken answers what was asked.
LEMMA TakeKeeps ==
  ASSUME ModelInv, NEW t \in ModelThread, Take(t)
  PROVE  ModelInv'
<1> DEFINE c == modelCall[t]
           q == c.request
           a == Cached(q.kind, Wanted(t))
           taken == Append(c.found, <<c.next, a>>)
<1>1. c.at = "take" /\ client' = client /\ textMode' = textMode /\ cache' = cache /\ asked' = asked
  BY DEF Take
<1>2. /\ Framed(c) /\ JsonSound(c) /\ EmbedSound(c) /\ LostSound(t)
      /\ c.next \in Nat \ {0} /\ c.outcome = "none" /\ textMode \in BOOLEAN
      /\ modelCall = [x \in ModelThread |-> modelCall[x]] /\ Caching(q) /\ q.kind \in {"json", "embed"}
      /\ q.kind = "embed" => q.texts \in Seq(DOMAIN Length) /\ Len(q.texts) \in Nat
      /\ q \in ModelRequests
  BY <1>1, CallFacts DEF AtCache
<1>3. q.kind = "embed" => c.next <= Len(q.texts) /\ Covers(q, c.found, c.missing, c.next - 1)
  BY <1>1, <1>2 DEF EmbedSound
<1>4. q.kind = "json" => c.found = <<>> /\ c.missing = <<>>
  BY <1>1, <1>2 DEF JsonSound, HasAnswer, AtCache
<1>5. CASE ~InCache(q.kind, Wanted(t))
  <2>1. c.disturbed
    BY <1>1, <1>2, <1>5 DEF LostSound
  <2>2. Ends(t, "lost")
    BY <1>1, <1>5 DEF Take
  <2> QED BY <1>1, <2>1, <2>2, EndKeeps
<1>6. CASE InCache(q.kind, Wanted(t))
  <2>1. modelCall' = [modelCall EXCEPT ![t].found = taken, ![t].next = @ + 1,
                                 ![t].at = IF q.kind = "json" THEN "idle" ELSE "look",
                                 ![t].outcome = IF q.kind = "json" THEN "answered" ELSE @]
    BY <1>1, <1>6 DEF Take
  <2> HIDE DEF a, taken
  <2>2. /\ modelCall'[t] = [c EXCEPT !.found = taken, !.next = c.next + 1,
                                  !.at = IF q.kind = "json" THEN "idle" ELSE "look",
                                  !.outcome = IF q.kind = "json" THEN "answered" ELSE c.outcome]
        /\ modelCall' = [modelCall EXCEPT ![t] = modelCall'[t]]
    BY <1>2, <2>1
  <2>3. Whole(c)
    BY <1>2 DEF Framed
  <2>4. PICK entry \in CacheEntries(q.kind) : entry.key = Wanted(t) /\ a = entry.answer
    <3>1. cache[q.kind] \in Seq(CacheEntries(q.kind))
      BY <1>2 DEF ModelInv, CacheSound
    <3>2. PICK kind, key : kind = q.kind /\ key = Wanted(t)
      OBVIOUS
    <3>3. cache[kind] \in Seq(CacheEntries(kind)) /\ InCache(kind, key)
      BY <1>6, <3>1, <3>2
    <3>4. PICK S : S = CacheEntries(kind)
      OBVIOUS
    <3>5. \E e \in S : e.key = key /\ Cached(kind, key) = e.answer
      <4>1. cache[kind] \in Seq(S) /\ InCache(kind, key)
        BY <3>3, <3>4
      <4> QED BY ONLY <4>1, CachedEntry
    <3> QED BY <3>2, <3>4, <3>5 DEF a
  <2>5. c.next + 1 \in Nat \ {0}
    BY <1>2
  <2>6. CASE q.kind = "json"
    <3>1. modelCall'[t] = Over(c, "answered", c.next + 1, taken, c.missing, c.victim)
      <4>1. modelCall'[t] = [c EXCEPT !.found = taken, !.next = c.next + 1, !.at = "idle", !.outcome = "answered"]
        BY <2>2, <2>6
      <4> HIDE DEF c
      <4> QED BY <2>3, <4>1, OverTaken
    <3>2. taken[1][2] = a
      <4>1. taken = Append(<<>>, <<c.next, a>>)
        BY <1>4, <2>6 DEF taken
      <4> QED BY <4>1
    <3>3. Wanted(t) = KeyOf(q) /\ KeyOf(q).schema = q.schema
      BY <2>6 DEF Wanted, KeyOf
    <3>4. Usable(taken[1][2], q)
      <4>1. entry \in JsonEntries
        BY <2>4, <2>6 DEF CacheEntries
      <4> QED BY <2>4, <3>2, <3>3, <4>1 DEF JsonEntries, Usable
    <3> QED BY <1>1, <1>2, <1>4, <2>2, <2>5, <2>6, <3>1, <3>4, OverKeeps
  <2>7. CASE q.kind = "embed"
    <3> DEFINE e == MovesOn(c, "look", c.next + 1, taken, c.missing, c.victim)
    <3>1. modelCall'[t] = e
      <4>1. modelCall'[t] = [c EXCEPT !.found = taken, !.next = c.next + 1, !.at = "look", !.outcome = "none"]
            /\ c.outcome = "none"
        BY <1>2, <2>2, <2>7
      <4> HIDE DEF c
      <4> QED BY <2>3, <4>1, MovesTaken
    <3>2. a \in Vectors /\ a.of = q.texts[c.next] /\ a.fits
      <4>1. entry \in EmbedEntries
        BY <2>4, <2>7 DEF CacheEntries
      <4>2. Wanted(t).text = q.texts[c.next]
        BY <2>7 DEF Wanted
      <4> QED BY <2>4, <4>1, <4>2 DEF EmbedEntries
    <3>3. Covers(q, taken, c.missing, c.next)
      <4>1. c.next - 1 \in Nat /\ c.next - 1 < Len(q.texts) /\ c.next - 1 + 1 = c.next
        BY <1>2, <1>3, <2>7
      <4>2. Covers(q, Append(c.found, <<c.next - 1 + 1, a>>), c.missing, c.next - 1 + 1)
        BY <1>2, <1>3, <2>7, <3>2, <4>1, CoversFound
      <4> QED BY <4>1, <4>2 DEF taken
    <3>4. c.next + 1 <= Len(q.texts) + 1 /\ (c.next + 1) - 1 = c.next
      BY <1>2, <1>3, <2>7
    <3>5. /\ e.at = "look" /\ e.next = c.next + 1 /\ e.found = taken /\ e.missing = c.missing /\ e.request = q
          /\ e.outcome = "none"
      BY DEF MovesOn
    <3> HIDE DEF e
    <3>6. JsonSound(e)
      BY <2>7, <3>5 DEF JsonSound
    <3>7. EmbedSound(e)
      BY <3>3, <3>4, <3>5 DEF EmbedSound, HasAnswer
    <3>8. LostSound(t)'
      BY <3>1, <3>5 DEF LostSound
    <3>9. "look" \in ModelStages \ {"idle"} /\ textMode' \in BOOLEAN
      BY <1>1, <1>2 DEF ModelStages, AtCache
    <3> QED BY <1>1, <1>2, <2>2, <2>5, <3>1, <3>6, <3>7, <3>8, <3>9, MoveAloneKeeps DEF e
  <2> QED BY <1>2, <2>6, <2>7
<1> QED BY <1>5, <1>6
LEMMA CompleteJsonKeeps ==
  ASSUME ModelInv, NEW t \in ModelThread, CompleteJson(t)
  PROVE  ModelInv'
<1>1. /\ modelCall[t].at = "json" /\ modelCall[t].request.kind = "json" /\ textMode \in BOOLEAN
      /\ client' = client /\ textMode' = textMode /\ cache' = cache /\ asked' = asked
  BY CallFacts DEF CompleteJson, Framed
<1>2. Proceeds(t, "structured") \/ Proceeds(t, "text")
  BY DEF CompleteJson
<1> QED BY <1>1, <1>2, ProceedKeeps

\* An answer is returned or kept only if it is valid.
LEMMA ReceivesKeeps ==
  ASSUME ModelInv, NEW t \in ModelThread, NEW value \in Values, Receives(t, value),
         modelCall[t].at \in {"structured", "text"},
         client' = client, textMode' = textMode, cache' = cache, asked' = asked
  PROVE  ModelInv'
<1> DEFINE c == modelCall[t]
           q == c.request
           answer == [to |-> KeyOf(q), value |-> value]
           found == <<<<1, answer>>>>
<1>1. /\ Framed(c) /\ JsonSound(c) /\ c.next \in Nat \ {0} /\ c.outcome = "none" /\ textMode \in BOOLEAN
      /\ modelCall = [x \in ModelThread |-> modelCall[x]] /\ q \in ModelRequests
  BY CallFacts
<1>2. q.kind = "json" /\ Whole(c)
  BY <1>1 DEF Framed
<1>3. CASE ~Valid(value, q.schema)
  <2>1. Ends(t, "failed")
    BY <1>3 DEF Receives
  <2> QED BY <2>1, EndKeeps
<1>4. CASE Valid(value, q.schema)
  <2>1. modelCall' = [modelCall EXCEPT ![t].found = found,
                              ![t].at = IF Caching(q) THEN "store" ELSE "idle",
                              ![t].outcome = IF Caching(q) THEN "none" ELSE "answered"]
    BY <1>4 DEF Receives
  <2>2. Usable(found[1][2], q)
    <3>1. KeyOf(q) \in JsonKeys
      BY <1>1, <1>2 DEF JsonKeys
    <3> QED BY <1>4, <3>1 DEF Usable
  <2>3. c.missing = <<>>
    BY <1>1, <1>2 DEF JsonSound
  <2> HIDE DEF found
  <2>4. modelCall' = [modelCall EXCEPT ![t] = modelCall'[t]]
    BY <1>1, <2>1
  <2>5. CASE Caching(q)
    <3> DEFINE e == MovesOn(c, "store", c.next, found, c.missing, c.victim)
    <3>1. modelCall'[t] = e
      <4>1. modelCall'[t] = [c EXCEPT !.found = found, !.at = "store", !.outcome = "none"] /\ c.outcome = "none" /\ Whole(c)
        BY <1>1, <1>2, <2>1, <2>5
      <4> HIDE DEF c
      <4> QED BY ONLY <4>1, MovesFound
    <3>2. e.at = "store" /\ e.found = found /\ e.missing = c.missing /\ e.request = q /\ e.outcome = "none"
      BY DEF MovesOn
    <3> HIDE DEF e
    <3>3. JsonSound(e)
      BY <2>2, <2>3, <3>2 DEF JsonSound, HasAnswer
    <3>4. EmbedSound(e)
      BY <1>2, <3>2 DEF EmbedSound
    <3>5. LostSound(t)'
      BY <3>1, <3>2 DEF LostSound
    <3>6. "store" \in ModelStages \ {"idle"} /\ textMode' \in BOOLEAN
      BY <1>1 DEF ModelStages, AtCache
    <3> QED BY <1>1, <1>2, <2>4, <2>5, <3>1, <3>3, <3>4, <3>5, <3>6, MoveAloneKeeps DEF e
  <2>6. CASE ~Caching(q)
    <3>1. modelCall'[t] = Over(c, "answered", c.next, found, c.missing, c.victim)
      <4>1. modelCall'[t] = [c EXCEPT !.found = found, !.at = "idle", !.outcome = "answered"] /\ Whole(c)
        BY <1>1, <1>2, <2>1, <2>6
      <4> HIDE DEF c
      <4> QED BY ONLY <4>1, OverFound
    <3> QED BY <1>1, <1>2, <2>2, <2>3, <2>4, <3>1, OverKeeps
  <2> QED BY <2>5, <2>6
<1> QED BY <1>3, <1>4

LEMMA StructuredKeeps ==
  ASSUME ModelInv, NEW t \in ModelThread, Structured(t)
  PROVE  ModelInv'
<1>1. /\ modelCall[t].at = "structured" /\ modelCall[t].request.kind = "json"
      /\ client' = client /\ cache' = cache /\ asked' = asked
  BY CallFacts DEF Structured, Framed
<1>2. CASE \E reply \in Replies : Receives(t, reply[1]) /\ textMode' = textMode
  BY <1>1, <1>2, ParsedValue, ReceivesKeeps
<1>3. CASE textMode' = TRUE /\ Proceeds(t, "text")
  BY <1>1, <1>3, ProceedKeeps
<1>4. CASE Ends(t, "failed") /\ textMode' = textMode
  BY <1>1, <1>4, EndKeeps
<1> QED BY <1>2, <1>3, <1>4 DEF Structured

LEMMA TextFallbackKeeps ==
  ASSUME ModelInv, NEW t \in ModelThread, TextFallback(t)
  PROVE  ModelInv'
<1>1. /\ modelCall[t].at = "text"
      /\ client' = client /\ textMode' = textMode /\ cache' = cache /\ asked' = asked
  BY DEF TextFallback
<1>2. CASE \E reply \in Replies : Receives(t, FirstParsed(reply))
  BY <1>1, <1>2, ParsedValue, ReceivesKeeps
<1>3. CASE Ends(t, "failed")
  BY <1>1, <1>3, EndKeeps
<1> QED BY <1>2, <1>3 DEF TextFallback

\* Tool calls are an answer, whatever was asked.
LEMMA ToolsFound ==
  ASSUME ModelInv, NEW t \in ModelThread, modelCall[t].at \in {"tools", "messages"},
         modelCall' = [modelCall EXCEPT ![t].found = <<<<1, ToolCall>>>>, ![t].at = "idle", ![t].outcome = "answered"],
         client' = client, textMode' = textMode, cache' = cache, asked' = asked
  PROVE  ModelInv'
<1> DEFINE c == modelCall[t]
           found == <<<<1, ToolCall>>>>
<1>1. /\ Framed(c) /\ c.next \in Nat \ {0} /\ modelCall = [x \in ModelThread |-> modelCall[x]]
  BY CallFacts
<1>2. c.request.kind \in {"tools", "messages"} /\ Whole(c)
  BY <1>1 DEF Framed
<1>3. found # <<>>
  OBVIOUS
<1> HIDE DEF found
<1>4. modelCall'[t] = Over(c, "answered", c.next, found, c.missing, c.victim)
  <2>1. modelCall'[t] = [c EXCEPT !.found = found, !.at = "idle", !.outcome = "answered"]
    BY <1>1 DEF found
  <2> HIDE DEF c
  <2> QED BY <1>2, <2>1, OverFound
<1>5. modelCall' = [modelCall EXCEPT ![t] = modelCall'[t]]
  BY <1>1
<1>6. /\ c.at # "idle" /\ c.request.kind # "json" /\ c.request.kind # "embed" /\ c.next \in Nat \ {0}
      /\ ModelInv /\ client' = client /\ textMode' = textMode /\ cache' = cache /\ asked' = asked
      /\ t \in ModelThread
  BY <1>1, <1>2
<1> QED BY ONLY <1>3, <1>4, <1>5, <1>6, OverKeeps

LEMMA CompleteWithToolsKeeps ==
  ASSUME ModelInv, NEW t \in ModelThread, CompleteWithTools(t)
  PROVE  ModelInv'
<1> DEFINE c == modelCall[t]
           q == c.request
<1>1. /\ c.at = "tools"
      /\ client' = client /\ textMode' = textMode /\ cache' = cache /\ asked' = asked
  BY DEF CompleteWithTools
<1>2. /\ Framed(c) /\ c.next \in Nat \ {0} /\ c.outcome = "none" /\ textMode \in BOOLEAN
      /\ modelCall = [x \in ModelThread |-> modelCall[x]]
  BY <1>1, CallFacts
<1>3. q.kind = "tools" /\ Whole(c)
  BY <1>1, <1>2 DEF Framed
<1>4. CASE modelCall' = [modelCall EXCEPT ![t].found = <<<<1, ToolCall>>>>, ![t].at = "idle", ![t].outcome = "answered"]
  BY <1>1, <1>4, ToolsFound
<1>5. CASE q.choice = "auto" /\ Ends(t, "answered")
  BY <1>1, <1>3, <1>5, EndKeeps
<1>6. CASE Ends(t, "failed")
  BY <1>1, <1>6, EndKeeps
<1>7. CASE modelCall' = [modelCall EXCEPT ![t].next = @ + 1]
  <2> DEFINE e == MovesOn(c, c.at, c.next + 1, c.found, c.missing, c.victim)
  <2>1. modelCall' = [modelCall EXCEPT ![t] = modelCall'[t]]
    BY <1>2, <1>7
  <2>2. modelCall'[t] = e
    <3>1. modelCall'[t] = [c EXCEPT !.next = c.next + 1] /\ c.outcome = "none"
      BY <1>2, <1>7
    <3> HIDE DEF c
    <3> QED BY <1>3, <3>1, MovesNext
  <2>3. e.at = "tools" /\ e.request = q /\ e.outcome = "none"
    BY <1>1 DEF MovesOn
  <2> HIDE DEF e
  <2>4. JsonSound(e) /\ EmbedSound(e)
    BY <1>3, <2>3 DEF JsonSound, EmbedSound
  <2>5. LostSound(t)'
    BY <2>2, <2>3 DEF LostSound
  <2>6. /\ c.at \in ModelStages \ {"idle"} /\ c.at \notin AtCache /\ c.next + 1 \in Nat \ {0}
        /\ textMode' \in BOOLEAN
    BY <1>1, <1>2 DEF ModelStages, AtCache
  <2> QED BY <1>1, <1>3, <2>1, <2>2, <2>4, <2>5, <2>6, MoveAloneKeeps DEF e
<1> QED BY <1>4, <1>5, <1>6, <1>7 DEF CompleteWithTools

LEMMA CompleteMessagesKeeps ==
  ASSUME ModelInv, NEW t \in ModelThread, CompleteMessages(t)
  PROVE  ModelInv'
<1> DEFINE c == modelCall[t]
<1>1. /\ c.at = "messages" /\ c.request.kind = "messages"
      /\ client' = client /\ textMode' = textMode /\ cache' = cache /\ asked' = asked
  BY CallFacts DEF CompleteMessages, Framed
<1>2. CASE modelCall' = [modelCall EXCEPT ![t].found = <<<<1, ToolCall>>>>, ![t].at = "idle", ![t].outcome = "answered"]
  BY <1>1, <1>2, ToolsFound
<1>3. CASE Ends(t, "answered") \/ Ends(t, "failed")
  BY <1>1, <1>3, EndKeeps
<1> QED BY <1>2, <1>3 DEF CompleteMessages
\* What the service answers is a vector for each text that was missing.
LEMMA EmbedOpenaiKeeps ==
  ASSUME ModelInv, NEW t \in ModelThread, EmbedOpenai(t)
  PROVE  ModelInv'
<1> DEFINE c == modelCall[t]
           q == c.request
           N == Len(q.texts)
           fetched == Fetched(t, Caps[c.next], TRUE)
           found == c.found \o fetched
<1>1. /\ c.at = "embed"
      /\ client' = client /\ textMode' = textMode /\ cache' = cache /\ asked' = asked
  BY DEF EmbedOpenai
<1>2. /\ Framed(c) /\ JsonSound(c) /\ EmbedSound(c) /\ c.next \in Nat \ {0} /\ c.outcome = "none"
      /\ textMode \in BOOLEAN /\ modelCall = [x \in ModelThread |-> modelCall[x]] /\ q \in ModelRequests
  BY <1>1, CallFacts
<1>3. q.kind = "embed" /\ Whole(c)
  BY <1>1, <1>2 DEF Framed
<1>4. q.texts \in Seq(DOMAIN Length) /\ N \in Nat
  BY <1>1, <1>3, CallFacts
<1>5. /\ c.next <= Len(Caps) /\ Covers(q, c.found, c.missing, N)
      /\ ~Caching(q) => c.found = <<>> /\ c.missing = [i \in DOMAIN q.texts |-> i]
  BY <1>1, <1>2, <1>3 DEF EmbedSound
<1>6. CASE c.missing = <<>> /\ Ends(t, "answered")
  BY <1>1, <1>3, <1>5, <1>6, EndKeeps
<1>7. CASE Ends(t, "failed")
  BY <1>1, <1>7, EndKeeps
<1>8. CASE /\ c.missing # <<>>
           /\ modelCall' = [modelCall EXCEPT ![t].found = @ \o Fetched(t, Caps[c.next], TRUE),
                                    ![t].at = IF Caching(q) THEN "store" ELSE "idle",
                                    ![t].outcome = IF Caching(q) THEN "none" ELSE "answered"]
  <2>1. /\ DOMAIN fetched = DOMAIN c.missing /\ fetched = [i \in DOMAIN c.missing |-> fetched[i]]
        /\ \A i \in DOMAIN c.missing :
              /\ fetched[i] = <<c.missing[i], fetched[i][2]>> /\ fetched[i][2] \in Vectors
              /\ Matches(q, fetched[i])
    <3>1. /\ DOMAIN fetched = DOMAIN c.missing /\ fetched = [i \in DOMAIN c.missing |-> fetched[i]]
          /\ \A i \in DOMAIN c.missing : fetched[i] = <<c.missing[i], VectorOf(t, i, Caps[c.next], TRUE)>>
      BY DEF Fetched
    <3>2. ASSUME NEW i \in DOMAIN c.missing
          PROVE  /\ VectorOf(t, i, Caps[c.next], TRUE) \in Vectors
                 /\ VectorOf(t, i, Caps[c.next], TRUE).of = q.texts[c.missing[i]]
                 /\ VectorOf(t, i, Caps[c.next], TRUE).fits = TRUE
      <4>1. c.missing \in Seq(1..N)
        BY <1>5 DEF Covers
      <4>2. c.missing[i] \in 1..N
        BY <4>1
      <4>3. q.texts[c.missing[i]] \in DOMAIN Length
        BY <1>4, <4>2
      <4>4. Length[q.texts[c.missing[i]]] \in Nat /\ Caps[c.next] \in Nat
        BY <1>2, <1>5, <4>3, ModelConstants
      <4> QED BY <4>3, <4>4 DEF VectorOf, Vectors
    <3> HIDE DEF fetched
    <3>3. ASSUME NEW i \in DOMAIN c.missing
          PROVE  /\ fetched[i] = <<c.missing[i], fetched[i][2]>> /\ fetched[i][2] \in Vectors
                 /\ Matches(q, fetched[i])
      <4>1. PICK v : v = VectorOf(t, i, Caps[c.next], TRUE)
        OBVIOUS
      <4>2. fetched[i] = <<c.missing[i], v>>
        BY <3>1, <4>1
      <4>3. fetched[i][1] = c.missing[i] /\ fetched[i][2] = v
        BY <4>2
      <4> QED BY <3>2, <4>1, <4>2, <4>3 DEF Matches
    <3> QED BY <3>1, <3>3
  <2> HIDE DEF fetched
  <2>2. Covers(q, found, <<>>, N) /\ Len(c.missing) \in Nat /\ Len(found) >= Len(c.missing)
    <3> HIDE DEF q, N
    <3>1. N = Len(q.texts)
      BY DEF N
    <3> QED BY <1>4, <1>5, <2>1, <3>1, CoversFetched
  <2>3. modelCall' = [modelCall EXCEPT ![t].found = found,
                                    ![t].at = IF Caching(q) THEN "store" ELSE "idle",
                                    ![t].outcome = IF Caching(q) THEN "none" ELSE "answered"]
    BY <1>2, <1>8 DEF fetched
  <2>4. c.missing \in Seq(1..N) /\ 0 < Len(c.missing) /\ Len(c.missing) <= Len(found)
    <3>1. c.missing \in Seq(1..N)
      BY <1>5 DEF Covers
    <3>2. Len(c.missing) # 0
      BY <1>8, <3>1
    <3>3. Len(found) \in Nat
      <4>1. found \in Seq((1..N) \X Vectors)
        BY <2>2 DEF Covers
      <4> HIDE DEF found
      <4> QED BY <4>1
    <3> QED BY <2>2, <3>1, <3>2, <3>3
  <2> HIDE DEF found
  <2>5. modelCall' = [modelCall EXCEPT ![t] = modelCall'[t]]
    BY <1>2, <2>3
  <2>6. CASE Caching(q)
    <3> DEFINE e == MovesOn(c, "store", c.next, found, c.missing, c.victim)
    <3>1. modelCall'[t] = e
      <4>1. modelCall'[t] = [c EXCEPT !.found = found, !.at = "store", !.outcome = "none"] /\ c.outcome = "none" /\ Whole(c)
        BY <1>2, <1>3, <2>3, <2>6
      <4> HIDE DEF c
      <4> QED BY ONLY <4>1, MovesFound
    <3>2. e.at = "store" /\ e.found = found /\ e.missing = c.missing /\ e.request = q /\ e.outcome = "none"
      BY DEF MovesOn
    <3> HIDE DEF e
    <3>3. JsonSound(e)
      BY <1>3, <3>2 DEF JsonSound
    <3>4. EmbedSound(e)
      BY <2>2, <2>4, <3>2 DEF EmbedSound, HasAnswer
    <3>5. LostSound(t)'
      BY <3>1, <3>2 DEF LostSound
    <3>6. "store" \in ModelStages \ {"idle"} /\ textMode' \in BOOLEAN
      BY <1>1, <1>2 DEF ModelStages, AtCache
    <3> QED BY <1>1, <1>2, <2>5, <2>6, <3>1, <3>3, <3>4, <3>5, <3>6, MoveAloneKeeps DEF e
  <2>7. CASE ~Caching(q)
    <3>1. modelCall'[t] = Over(c, "answered", c.next, found, c.missing, c.victim)
      <4>1. modelCall'[t] = [c EXCEPT !.found = found, !.at = "idle", !.outcome = "answered"] /\ Whole(c)
        BY <1>2, <1>3, <2>3, <2>7
      <4> HIDE DEF c
      <4> QED BY ONLY <4>1, OverFound
    <3> QED BY <1>1, <1>2, <1>3, <2>2, <2>5, <3>1, OverKeeps
  <2> QED BY <2>6, <2>7
<1>9. CASE /\ modelCall' = [modelCall EXCEPT ![t].next = @ + 1]
           /\ \E j \in c.next + 1..Len(Caps) : TRUE
  <2> DEFINE e == MovesOn(c, c.at, c.next + 1, c.found, c.missing, c.victim)
  <2>1. modelCall' = [modelCall EXCEPT ![t] = modelCall'[t]]
    BY <1>2, <1>9
  <2>2. modelCall'[t] = e
    <3>1. modelCall'[t] = [c EXCEPT !.next = c.next + 1] /\ c.outcome = "none"
      BY <1>2, <1>9
    <3> HIDE DEF c
    <3> QED BY <1>3, <3>1, MovesNext
  <2>3. /\ e.at = "embed" /\ e.request = q /\ e.outcome = "none" /\ e.found = c.found
        /\ e.missing = c.missing /\ e.next = c.next + 1
    BY <1>1 DEF MovesOn
  <2>4. c.next + 1 <= Len(Caps) /\ c.next + 1 \in Nat \ {0}
    BY <1>2, <1>9, ModelConstants
  <2> HIDE DEF e
  <2>5. JsonSound(e)
    BY <1>3, <2>3 DEF JsonSound
  <2>6. EmbedSound(e)
    BY <1>5, <2>3, <2>4 DEF EmbedSound, HasAnswer
  <2>7. LostSound(t)'
    BY <2>2, <2>3 DEF LostSound
  <2>8. /\ c.at \in ModelStages \ {"idle"} /\ c.at \notin AtCache /\ textMode' \in BOOLEAN
    BY <1>1, <1>2 DEF ModelStages, AtCache
  <2> QED BY <1>1, <1>3, <2>1, <2>2, <2>4, <2>5, <2>6, <2>7, <2>8, MoveAloneKeeps DEF e
<1> QED BY <1>6, <1>7, <1>8, <1>9 DEF EmbedOpenai

LEMMA EmbedVolcengineKeeps ==
  ASSUME ModelInv, NEW t \in ModelThread, EmbedVolcengine(t)
  PROVE  ModelInv'
<1> DEFINE c == modelCall[t]
           q == c.request
           N == Len(q.texts)
<1>1. /\ c.at = "embed" /\ client.embedder = "volcengine"
      /\ client' = client /\ textMode' = textMode /\ cache' = cache /\ asked' = asked
  BY DEF EmbedVolcengine
<1>2. /\ Framed(c) /\ EmbedSound(c) /\ c.next \in Nat \ {0}
      /\ modelCall = [x \in ModelThread |-> modelCall[x]] /\ q \in ModelRequests
  BY <1>1, CallFacts
<1>3. q.kind = "embed" /\ Whole(c)
  BY <1>1, <1>2 DEF Framed
<1>4. q.texts \in Seq(DOMAIN Length) /\ N \in Nat
  BY <1>1, <1>3, CallFacts
<1>5. c.missing = [i \in DOMAIN q.texts |-> i] /\ Covers(q, <<>>, c.missing, N)
  <2>1. ~Caching(q)
    BY <1>1, <1>3 DEF Caching
  <2> QED BY <1>1, <1>2, <1>3, <2>1 DEF EmbedSound
<1>6. CASE Ends(t, "failed")
  BY <1>1, <1>6, EndKeeps
<1>7. ASSUME NEW fits \in BOOLEAN,
             modelCall' = [modelCall EXCEPT ![t].found = [i \in DOMAIN c.missing |-> <<i,
                                        [of |-> c.request.texts[i], sent |-> Length[c.request.texts[i]],
                                         fits |-> fits]>>],
                                  ![t].at = "idle", ![t].outcome = "answered"]
      PROVE  ModelInv'
  <2> DEFINE vector(i) == [of |-> q.texts[i], sent |-> Length[q.texts[i]], fits |-> fits]
             fetched == [i \in DOMAIN c.missing |-> <<i, vector(i)>>]
  <2>1. DOMAIN c.missing = 1..N /\ \A i \in 1..N : c.missing[i] = i
    BY <1>4, <1>5
  <2>2. ASSUME NEW i \in 1..N
        PROVE  vector(i) \in Vectors /\ vector(i).of = q.texts[i]
    <3>1. q.texts[i] \in DOMAIN Length
      BY <1>4
    <3>2. Length[q.texts[i]] \in Nat
      BY <3>1, ModelConstants
    <3> QED BY <3>1, <3>2 DEF Vectors
  <2> HIDE DEF vector
  <2>3. /\ DOMAIN fetched = DOMAIN c.missing /\ fetched = [i \in DOMAIN c.missing |-> fetched[i]]
        /\ \A i \in DOMAIN c.missing : fetched[i] = <<c.missing[i], vector(i)>>
    BY <2>1
  <2>4. modelCall'[t] = [c EXCEPT !.found = fetched, !.at = "idle", !.outcome = "answered"]
        /\ modelCall' = [modelCall EXCEPT ![t] = modelCall'[t]]
    BY <1>2, <1>7 DEF vector
  <2> HIDE DEF fetched
  <2>5. \A i \in DOMAIN c.missing :
           /\ fetched[i] = <<c.missing[i], fetched[i][2]>> /\ fetched[i][2] \in Vectors
           /\ Matches(q, fetched[i])
    <3> SUFFICES ASSUME NEW i \in DOMAIN c.missing
                 PROVE  /\ fetched[i] = <<c.missing[i], fetched[i][2]>> /\ fetched[i][2] \in Vectors
                        /\ Matches(q, fetched[i])
      OBVIOUS
    <3>1. PICK v : v = vector(i)
      OBVIOUS
    <3>2. fetched[i] = <<c.missing[i], v>>
      BY <2>3, <3>1
    <3>3. fetched[i][1] = c.missing[i] /\ fetched[i][2] = v
      BY <3>2
    <3> QED BY <1>1, <2>1, <2>2, <3>1, <3>2, <3>3 DEF Matches
  <2>6. Covers(q, <<>> \o fetched, <<>>, N)
    <3> HIDE DEF q, N
    <3>1. N = Len(q.texts)
      BY DEF N
    <3> QED BY <1>4, <1>5, <2>3, <2>5, <3>1, CoversFetched
  <2>7. <<>> \o fetched = fetched
    <3>1. fetched = [i \in 1..N |-> fetched[i]] /\ \A i \in 1..N : fetched[i] \in {fetched[j] : j \in 1..N}
      BY <2>1, <2>3
    <3>2. fetched \in Seq({fetched[j] : j \in 1..N})
      BY <1>4, <3>1
    <3> QED BY <3>2, ConcatEmptySeq
  <2>8. modelCall'[t] = Over(c, "answered", c.next, fetched, c.missing, c.victim)
    <3>1. modelCall'[t] = [c EXCEPT !.found = fetched, !.at = "idle", !.outcome = "answered"] /\ Whole(c)
      BY <1>3, <2>4
    <3> HIDE DEF c
    <3> QED BY ONLY <3>1, OverFound
  <2> QED BY <1>1, <1>2, <1>3, <2>4, <2>6, <2>7, <2>8, OverKeeps
<1> QED BY <1>6, <1>7 DEF EmbedVolcengine
\* What a call keeps answers its key.
LEMMA FreshSound ==
  ASSUME ModelInv, NEW t \in ModelThread, modelCall[t].at = "store"
  PROVE  Fresh(t) \in CacheEntries(modelCall[t].request.kind)
<1> DEFINE c == modelCall[t]
           q == c.request
<1>1. /\ JsonSound(c) /\ EmbedSound(c) /\ Caching(q) /\ q.kind \in {"json", "embed"} /\ q \in ModelRequests
      /\ HasAnswer(c)
  BY CallFacts DEF AtCache, HasAnswer
<1>2. CASE q.kind = "json"
  <2> DEFINE a == c.found[1][2]
  <2>1. Usable(a, q)
    BY <1>1, <1>2 DEF JsonSound
  <2>2. Fresh(t) = [key |-> KeyOf(q), answer |-> a]
    BY <1>2 DEF Fresh
  <2>3. KeyOf(q) \in JsonKeys /\ KeyOf(q).schema = q.schema
    BY <1>1, <1>2 DEF JsonKeys, KeyOf
  <2> HIDE DEF a
  <2> QED BY <1>2, <2>1, <2>2, <2>3 DEF Usable, CacheEntries, JsonEntries
<1>3. CASE q.kind = "embed"
  <2> DEFINE i == Len(c.found) - Len(c.missing) + 1
             a == c.found[i][2]
             N == Len(q.texts)
  <2>1. /\ Covers(q, c.found, <<>>, N) /\ c.missing \in Seq(1..N)
        /\ 0 < Len(c.missing) /\ Len(c.missing) <= Len(c.found)
    BY <1>1, <1>3 DEF EmbedSound
  <2>2. c.found \in Seq((1..N) \X Vectors) /\ \A k \in 1..Len(c.found) : Matches(q, c.found[k])
    BY <2>1 DEF Covers
  <2>3. i \in 1..Len(c.found)
    <3>1. Len(c.found) \in Nat
      BY <2>2
    <3>2. Len(c.missing) \in Nat
      BY <2>1
    <3>3. PICK n \in Nat, m \in Nat : n = Len(c.found) /\ m = Len(c.missing)
      BY <3>1, <3>2
    <3>4. 0 < m /\ m <= n
      BY <2>1, <3>3
    <3>5. n - m + 1 \in 1..n
      BY <3>4
    <3> QED BY <3>3, <3>5
  <2> HIDE DEF i
  <2>4. c.found[i] \in (1..N) \X Vectors /\ Matches(q, c.found[i])
    BY <2>2, <2>3
  <2>5. a \in Vectors /\ a.fits
    <3>1. client.embedder = "openai"
      BY <1>1, <1>3 DEF Caching
    <3> QED BY <2>4, <3>1 DEF Matches
  <2>6. Fresh(t) = [key |-> [text |-> a.of], answer |-> a]
    BY <1>3 DEF Fresh, i
  <2> HIDE DEF a
  <2>7. a.of \in DOMAIN Length
    BY <2>5 DEF Vectors
  <2>8. Fresh(t) \in EmbedEntries
    BY <2>5, <2>6, <2>7 DEF EmbedEntries
  <2> QED BY <1>3, <2>8 DEF CacheEntries
<1> QED BY <1>1, <1>2, <1>3

\* A cache that is changed as a sound one is changed stays sound.
LEMMA CacheUpdated ==
  ASSUME CacheSound, NEW kind \in {"json", "embed"}, NEW entries,
         cache' = [cache EXCEPT ![kind] = entries],
         entries \in Seq(CacheEntries(kind)), KeysApart(entries)
  PROVE  /\ CacheSound' /\ cache'[kind] = entries
         /\ \A other \in {"json", "embed"} : other # kind => cache'[other] = cache[other]
<1>1. DOMAIN cache = {"json", "embed"}
  BY DEF CacheSound
<1>2. cache'[kind] = entries /\ \A other \in {"json", "embed"} : other # kind => cache'[other] = cache[other]
  BY <1>1
<1>3. cache' = [k \in {"json", "embed"} |-> cache'[k]]
  BY DEF CacheSound
<1>4. ASSUME NEW k \in {"json", "embed"}
      PROVE  cache'[k] \in Seq(CacheEntries(k)) /\ KeysApart(cache'[k])
  <2>1. CASE k = kind
    BY <1>2, <2>1
  <2>2. CASE k # kind
    BY <1>2, <2>2 DEF CacheSound
  <2> QED BY <2>1, <2>2
<1>5. CacheSound'
  BY <1>3, <1>4 DEF CacheSound, KeysApart, CacheEntries, JsonEntries, EmbedEntries
<1> QED BY <1>2, <1>5

LEMMA RememberKeeps ==
  ASSUME ModelInv, NEW t \in ModelThread, Remember(t)
  PROVE  ModelInv'
<1> DEFINE c == modelCall[t]
           q == c.request
           kind == q.kind
           missing == IF kind = "json" THEN c.missing ELSE Tail(c.missing)
           at == IF Len(c.missing) > 1 THEN "store" ELSE "evict"
           e == MovesOn(c, at, c.next, c.found, missing, c.victim)
<1>1. /\ c.at = "store"
      /\ client' = client /\ textMode' = textMode /\ asked' = asked
      /\ cache' = [cache EXCEPT ![kind] = Insert(@, Fresh(t))]
      /\ modelCall' = [modelCall EXCEPT ![t].missing = missing, ![t].at = at]
  BY DEF Remember
<1>2. /\ Framed(c) /\ JsonSound(c) /\ EmbedSound(c) /\ c.next \in Nat \ {0} /\ c.outcome = "none"
      /\ textMode \in BOOLEAN /\ modelCall = [x \in ModelThread |-> modelCall[x]]
      /\ Caching(q) /\ kind \in {"json", "embed"} /\ Whole(c)
  BY <1>1, CallFacts DEF AtCache, Framed
<1>3. CacheSound' /\ \A k \in {"json", "embed"} : \A key : InCache(k, key) => InCache(k, key)'
  <2> DEFINE S == CacheEntries(kind)
             entries == cache[kind]
             after == Insert(entries, Fresh(t))
  <2>1. CacheSound /\ entries \in Seq(S) /\ KeysApart(entries) /\ DOMAIN cache = {"json", "embed"}
    BY <1>2 DEF ModelInv, CacheSound
  <2>2. Fresh(t) \in S
    BY <1>1, FreshSound
  <2>3. cache' = [cache EXCEPT ![kind] = after]
    BY <1>1, <1>2, <2>1
  <2>4. /\ after \in Seq(S) /\ KeysApart(after)
        /\ \A i \in DOMAIN entries : \E j \in DOMAIN after : after[j].key = entries[i].key
    <3> HIDE DEF S, entries
    <3> QED BY <2>1, <2>2, InsertSound
  <2> HIDE DEF after
  <2>5. PICK k : k = kind
    OBVIOUS
  <2>6. /\ CacheSound' /\ cache'[k] = after
        /\ \A other \in {"json", "embed"} : other # k => cache'[other] = cache[other]
    <3>1. after \in Seq(CacheEntries(k)) /\ k \in {"json", "embed"} /\ cache' = [cache EXCEPT ![k] = after]
      BY <1>2, <2>3, <2>4, <2>5
    <3> QED BY <2>1, <2>4, <3>1, CacheUpdated
  <2>7. ASSUME NEW other \in {"json", "embed"}, NEW key, InCache(other, key)
        PROVE  InCache(other, key)'
    <3>1. CASE other = k
      BY <2>4, <2>5, <2>6, <2>7, <3>1 DEF InCache
    <3>2. CASE other # k
      BY <2>6, <2>7, <3>2 DEF InCache
    <3> QED BY <3>1, <3>2
  <2> QED BY <2>6, <2>7
<1>4. modelCall'[t] = e /\ modelCall' = [modelCall EXCEPT ![t] = modelCall'[t]]
  <2>1. /\ modelCall'[t] = [c EXCEPT !.missing = missing, !.at = at]
        /\ modelCall' = [modelCall EXCEPT ![t] = modelCall'[t]]
        /\ Whole(c) /\ c.outcome = "none"
    BY <1>1, <1>2
  <2> HIDE DEF c, missing, at
  <2>2. modelCall'[t] = [c EXCEPT !.missing = missing, !.at = at] /\ Whole(c) /\ c.outcome = "none"
    BY <2>1
  <2>3. modelCall'[t] = MovesOn(c, at, c.next, c.found, missing, c.victim)
    BY ONLY <2>2, MovesMissingAt
  <2> QED BY <2>1, <2>3 DEF e
<1>5. /\ e.at = at /\ e.found = c.found /\ e.missing = missing /\ e.request = q /\ e.outcome = "none"
  BY DEF MovesOn
<1>6. at \in {"store", "evict"} /\ at \in ModelStages \ {"idle"} /\ at \in AtCache
  BY DEF ModelStages, AtCache
<1>7. HasAnswer(c)
  BY <1>1 DEF HasAnswer
<1>8. kind = "json" => Usable(c.found[1][2], q) /\ c.missing = <<>>
  BY <1>2, <1>7 DEF JsonSound
<1>9. kind = "embed" =>
         /\ Covers(q, c.found, <<>>, Len(q.texts)) /\ missing = Tail(c.missing)
         /\ at = "store" => /\ missing \in Seq(1..Len(q.texts))
                            /\ 0 < Len(missing) /\ Len(missing) <= Len(c.found)
  <2> SUFFICES ASSUME kind = "embed"
               PROVE  /\ Covers(q, c.found, <<>>, Len(q.texts)) /\ missing = Tail(c.missing)
                      /\ at = "store" => /\ missing \in Seq(1..Len(q.texts))
                                         /\ 0 < Len(missing) /\ Len(missing) <= Len(c.found)
    OBVIOUS
  <2>1. /\ Covers(q, c.found, <<>>, Len(q.texts)) /\ c.missing \in Seq(1..Len(q.texts))
        /\ 0 < Len(c.missing) /\ Len(c.missing) <= Len(c.found)
    BY <1>1, <1>2, <1>7 DEF EmbedSound
  <2>2. Len(c.found) \in Nat
    BY <2>1 DEF Covers
  <2>3. Tail(c.missing) \in Seq(1..Len(q.texts)) /\ Len(Tail(c.missing)) = Len(c.missing) - 1
        /\ Len(c.missing) \in Nat
    <3>1. c.missing \in Seq(1..Len(q.texts)) /\ c.missing # <<>>
      <4>1. Len(<<>>) = 0
        OBVIOUS
      <4> QED BY <2>1, <4>1
    <3>2. PICK S : S = 1..Len(q.texts)
      OBVIOUS
    <3>3. c.missing \in Seq(S) /\ c.missing # <<>>
      BY <3>1, <3>2
    <3>4. Tail(c.missing) \in Seq(S) /\ Len(Tail(c.missing)) = Len(c.missing) - 1
      BY <3>3, HeadTailProperties
    <3>5. Len(c.missing) \in Nat
      BY <3>3
    <3> QED BY <3>2, <3>4, <3>5
  <2> QED BY <2>1, <2>2, <2>3
<1> HIDE DEF e, missing, at
<1>10. JsonSound(e)
  <2>1. kind = "json" => missing = <<>>
    BY <1>8 DEF missing
  <2> QED BY <1>2, <1>5, <1>6, <1>8, <2>1 DEF JsonSound, HasAnswer
<1>11. EmbedSound(e)
  BY <1>5, <1>6, <1>9 DEF EmbedSound, HasAnswer
<1>12. LostSound(t)'
  BY <1>4, <1>5, <1>6 DEF LostSound
<1> HIDE DEF CacheSound
<1> QED BY <1>1, <1>2, <1>3, <1>4, <1>6, <1>10, <1>11, <1>12, MoveKeeps DEF e

LEMMA EvictKeeps ==
  ASSUME ModelInv, NEW t \in ModelThread, Evict(t)
  PROVE  ModelInv'
<1> DEFINE c == modelCall[t]
           q == c.request
           kind == q.kind
<1>1. /\ c.at = "evict"
      /\ client' = client /\ textMode' = textMode /\ asked' = asked /\ cache' = cache
  BY DEF Evict
<1>2. /\ Framed(c) /\ JsonSound(c) /\ EmbedSound(c) /\ c.next \in Nat \ {0} /\ c.outcome = "none"
      /\ textMode \in BOOLEAN /\ modelCall = [x \in ModelThread |-> modelCall[x]]
      /\ Caching(q) /\ kind \in {"json", "embed"} /\ Whole(c)
  BY <1>1, CallFacts DEF AtCache, Framed
<1>3. HasAnswer(c)
  BY <1>1 DEF HasAnswer
<1>4. /\ kind = "json" => Usable(c.found[1][2], q) /\ c.missing = <<>>
      /\ kind = "embed" => Covers(q, c.found, <<>>, Len(q.texts))
  BY <1>2, <1>3 DEF JsonSound, EmbedSound
<1>5. CASE Len(cache[kind]) > CacheMax
  <2> DEFINE key == cache[kind][1].key
             victim == <<key>>
             e == MovesOn(c, "drop", c.next, c.found, c.missing, victim)
  <2>1. modelCall' = [modelCall EXCEPT ![t].at = "drop", ![t].victim = victim]
    BY <1>1, <1>5 DEF Evict
  <2>2. InCache(kind, key)
    <3>1. cache[kind] \in Seq(CacheEntries(kind))
      BY <1>2 DEF ModelInv, CacheSound
    <3>2. 1 \in DOMAIN cache[kind]
      BY <1>5, <3>1, ModelConstants
    <3> QED BY <3>2 DEF InCache
  <2>3. victim[1] = key
    OBVIOUS
  <2> HIDE DEF victim, key
  <2>4. modelCall'[t] = e /\ modelCall' = [modelCall EXCEPT ![t] = modelCall'[t]]
    <3>1. /\ modelCall'[t] = [c EXCEPT !.at = "drop", !.victim = victim]
          /\ modelCall' = [modelCall EXCEPT ![t] = modelCall'[t]]
          /\ Whole(c) /\ c.outcome = "none"
      BY <1>2, <2>1
    <3> HIDE DEF c
    <3>2. modelCall'[t] = [c EXCEPT !.at = "drop", !.victim = victim] /\ Whole(c) /\ c.outcome = "none"
      BY <3>1
    <3>3. modelCall'[t] = MovesOn(c, "drop", c.next, c.found, c.missing, victim)
      BY ONLY <3>2, MovesVictim
    <3> QED BY <3>1, <3>3
  <2>5. e.at = "drop" /\ e.found = c.found /\ e.missing = c.missing /\ e.request = q /\ e.outcome = "none"
        /\ e.victim = victim
    BY DEF MovesOn
  <2> HIDE DEF e
  <2>6. JsonSound(e)
    BY <1>4, <2>5 DEF JsonSound, HasAnswer
  <2>7. EmbedSound(e)
    BY <1>4, <2>5 DEF EmbedSound, HasAnswer
  <2>8. LostSound(t)'
    <3>1. PICK k, x : k = kind /\ x = key
      OBVIOUS
    <3>2. InCache(k, x)'
      BY <1>1, <2>2, <3>1 DEF InCache
    <3>3. InCache(modelCall[t].request.kind, modelCall[t].victim[1])'
      BY <2>3, <2>4, <2>5, <3>1, <3>2
    <3> QED BY <2>4, <2>5, <3>3 DEF LostSound
  <2>9. "drop" \in ModelStages \ {"idle"} /\ textMode' \in BOOLEAN
    BY <1>1, <1>2 DEF ModelStages, AtCache
  <2> QED BY <1>1, <1>2, <2>4, <2>6, <2>7, <2>8, <2>9, MoveAloneKeeps DEF e
<1>6. CASE ~(Len(cache[kind]) > CacheMax)
  <2>1. Ends(t, "answered")
    BY <1>1, <1>6 DEF Evict
  <2>2. /\ modelCall'[t] = Over(c, "answered", c.next, c.found, c.missing, c.victim)
        /\ modelCall' = [modelCall EXCEPT ![t] = modelCall'[t]]
    <3>1. /\ modelCall'[t] = [c EXCEPT !.at = "idle", !.outcome = "answered"]
          /\ modelCall' = [modelCall EXCEPT ![t] = modelCall'[t]] /\ Whole(c)
      BY <1>2, <2>1 DEF Ends
    <3> HIDE DEF c
    <3> QED BY ONLY <3>1, OverAlone
  <2> QED BY <1>1, <1>2, <1>4, <2>2, OverKeeps
<1> QED BY <1>5, <1>6
\* Whoever is under way when an entry goes may be lost by it.
LEMMA DropOldestKeeps ==
  ASSUME ModelInv, NEW t \in ModelThread, DropOldest(t)
  PROVE  ModelInv'
<1> DEFINE c == modelCall[t]
           q == c.request
           kind == q.kind
           key == c.victim[1]
<1>1. c.at = "drop" /\ client' = client /\ textMode' = textMode /\ asked' = asked
  BY DEF DropOldest
<1>2. /\ Framed(c) /\ JsonSound(c) /\ EmbedSound(c) /\ LostSound(t) /\ c.next \in Nat \ {0} /\ c.outcome = "none"
      /\ textMode \in BOOLEAN /\ modelCall = [x \in ModelThread |-> modelCall[x]]
      /\ Caching(q) /\ kind \in {"json", "embed"} /\ Whole(c)
  BY <1>1, CallFacts DEF AtCache, Framed
<1>3. HasAnswer(c)
  BY <1>1 DEF HasAnswer
<1>4. /\ kind = "json" => Usable(c.found[1][2], q) /\ c.missing = <<>>
      /\ kind = "embed" => Covers(q, c.found, <<>>, Len(q.texts))
  BY <1>2, <1>3 DEF JsonSound, EmbedSound
<1>5. CASE ~InCache(kind, key)
  <2>1. c.disturbed
    BY <1>1, <1>2, <1>5 DEF LostSound
  <2>2. Ends(t, "lost") /\ cache' = cache
    BY <1>1, <1>5 DEF DropOldest
  <2> QED BY <1>1, <2>1, <2>2, EndKeeps
<1>6. CASE InCache(kind, key)
  <2> DEFINE at == IF kind = "json" THEN "idle" ELSE "evict"
             outcome == IF kind = "json" THEN "answered" ELSE c.outcome
             others(x) == [modelCall[x] EXCEPT !.disturbed = modelCall[x].disturbed \/ modelCall[x].at # "idle"]
             mine == [c EXCEPT !.victim = <<>>, !.at = at, !.outcome = outcome]
  <2>1. /\ cache' = [cache EXCEPT ![kind] = Without(@, key)]
        /\ modelCall' = [x \in ModelThread |-> IF x # t THEN others(x) ELSE mine]
    BY <1>1, <1>6 DEF DropOldest
  <2>2. CacheSound'
    <3> DEFINE entries == cache[kind]
               after == Without(entries, key)
    <3>1. CacheSound /\ entries \in Seq(CacheEntries(kind)) /\ KeysApart(entries) /\ DOMAIN cache = {"json", "embed"}
      BY <1>2 DEF ModelInv, CacheSound
    <3>2. cache' = [cache EXCEPT ![kind] = after]
      BY <1>2, <2>1, <3>1
    <3>3. \E j \in DOMAIN entries : entries[j].key = key
      BY <1>6 DEF InCache
    <3>4. PICK k, x, S : k = kind /\ x = key /\ S = CacheEntries(kind)
      OBVIOUS
    <3> HIDE DEF entries
    <3>5. after \in Seq(S) /\ KeysApart(after)
      BY <3>1, <3>3, <3>4, WithoutSound
    <3> HIDE DEF after
    <3>6. after \in Seq(CacheEntries(k)) /\ k \in {"json", "embed"} /\ cache' = [cache EXCEPT ![k] = after]
      BY <1>2, <3>2, <3>4, <3>5
    <3> QED BY <3>1, <3>5, <3>6, CacheUpdated
  <2> HIDE DEF at, outcome, others, mine
  <2>3. modelCall'[t] = mine /\ \A x \in ModelThread \ {t} : modelCall'[x] = others(x)
    BY <2>1
  <2>4. CallSound(t)'
    <3>1. CASE kind = "json"
      <4>1. modelCall'[t] = Over(c, "answered", c.next, c.found, c.missing, <<>>)
        <5>1. mine = [c EXCEPT !.victim = <<>>, !.at = "idle", !.outcome = "answered"] /\ Whole(c)
          BY <1>2, <3>1 DEF mine, at, outcome
        <5> HIDE DEF c
        <5>2. mine = [at |-> "idle", request |-> c.request, next |-> c.next, found |-> c.found,
                      missing |-> c.missing, victim |-> <<>>, outcome |-> "answered", disturbed |-> c.disturbed]
          BY ONLY <5>1 DEF Whole
        <5> QED BY <2>3, <5>2 DEF Over
      <4> QED BY <1>1, <1>2, <1>4, <3>1, <4>1, OverSound
    <3>2. CASE kind = "embed"
      <4> DEFINE e == MovesOn(c, "evict", c.next, c.found, c.missing, <<>>)
      <4>1. modelCall'[t] = e
        <5>1. mine = [c EXCEPT !.victim = <<>>, !.at = "evict", !.outcome = "none"] /\ Whole(c)
          BY <1>2, <3>2 DEF mine, at, outcome
        <5> HIDE DEF c
        <5>2. mine = [at |-> "evict", request |-> c.request, next |-> c.next, found |-> c.found,
                      missing |-> c.missing, victim |-> <<>>, outcome |-> "none", disturbed |-> c.disturbed]
          BY ONLY <5>1 DEF Whole
        <5> QED BY <2>3, <5>2 DEF MovesOn
      <4>2. e.at = "evict" /\ e.found = c.found /\ e.missing = c.missing /\ e.request = q /\ e.outcome = "none"
        BY DEF MovesOn
      <4> HIDE DEF e
      <4>3. JsonSound(e)
        BY <3>2, <4>2 DEF JsonSound
      <4>4. EmbedSound(e)
        BY <1>4, <3>2, <4>2 DEF EmbedSound, HasAnswer
      <4>5. LostSound(t)'
        BY <4>1, <4>2 DEF LostSound
      <4>6. "evict" \in ModelStages \ {"idle"}
        BY DEF ModelStages, AtCache
      <4> QED BY <1>1, <1>2, <4>1, <4>3, <4>4, <4>5, <4>6, MoveSound DEF e
    <3> QED BY <1>2, <3>1, <3>2
  <2>5. ASSUME NEW x \in ModelThread \ {t}
        PROVE  CallSound(x)'
    <3> DEFINE b == modelCall[x]
               d == modelCall'[x]
    <3>1. Framed(b) /\ JsonSound(b) /\ EmbedSound(b) /\ ToolsSound(b) /\ LostSound(x) /\ Whole(b)
      BY DEF ModelInv, CallSound, Framed
    <3>2. b.disturbed \in BOOLEAN
      BY <3>1 DEF Framed, ModelCalls
    <3>3. d = [at |-> b.at, request |-> b.request, next |-> b.next, found |-> b.found, missing |-> b.missing,
               victim |-> b.victim, outcome |-> b.outcome, disturbed |-> b.disturbed \/ b.at # "idle"]
      <4>1. d = [b EXCEPT !.disturbed = b.disturbed \/ b.at # "idle"] /\ Whole(b)
        BY <2>3, <3>1 DEF others
      <4> HIDE DEF b
      <4> QED BY ONLY <4>1 DEF Whole
    <3>4. /\ d.at = b.at /\ d.request = b.request /\ d.next = b.next /\ d.found = b.found /\ d.missing = b.missing
          /\ d.victim = b.victim /\ d.outcome = b.outcome /\ d.disturbed = (b.disturbed \/ b.at # "idle")
      BY <3>3
    <3>5. \A r : Caching(r)' <=> Caching(r)
      BY <1>1 DEF Caching
    <3>6. \A r, f, m, n : Covers(r, f, m, n)' <=> Covers(r, f, m, n)
      BY <1>1 DEF Covers, Matches
    <3>7. Framed(modelCall[x])'
      <4>1. Whole(d)
        BY <3>3 DEF Whole
      <4>2. [at |-> d.at, outcome |-> d.outcome, disturbed |-> d.disturbed, next |-> d.next,
             request |-> d.request] \in ModelCalls
        BY <3>1, <3>2, <3>4 DEF Framed, ModelCalls
      <4> HIDE DEF b, d
      <4> QED BY <3>1, <3>4, <3>5, <4>1, <4>2 DEF Framed, Whole, d
    <3>8. JsonSound(modelCall[x])'
      BY <3>1, <3>4 DEF JsonSound, HasAnswer, Usable
    <3>9. EmbedSound(modelCall[x])'
      BY <3>1, <3>4, <3>5, <3>6 DEF EmbedSound, HasAnswer
    <3>10. ToolsSound(modelCall[x])' /\ LostSound(x)'
      BY <3>1, <3>2, <3>4 DEF ToolsSound, LostSound
    <3> QED BY <3>7, <3>8, <3>9, <3>10 DEF CallSound
  <2>6. modelCall' = [x \in ModelThread |-> modelCall'[x]]
    BY <2>1
  <2> QED BY <1>1, <2>2, <2>4, <2>5, <2>6 DEF ModelInv
<1> QED BY <1>5, <1>6

LEMMA ModelInvHolds ==
  ModelSpec => []ModelInv
<1>1. ModelInit => ModelInv
  <2> SUFFICES ASSUME ModelInit
               PROVE  ModelInv
    OBVIOUS
  <2>1. /\ client \in ClientSettings /\ textMode \in BOOLEAN /\ asked \in 0..MaxModelCalls
        /\ modelCall = [t \in ModelThread |-> modelCall[t]]
    <3>1. modelCall = [t \in ModelThread |-> NoModelCall]
      BY DEF ModelInit
    <3>2. modelCall = [t \in ModelThread |-> modelCall[t]]
      BY <3>1
    <3>3. client \in ClientSettings /\ textMode = FALSE /\ asked = 0
      BY DEF ModelInit
    <3>4. 0 \in 0..MaxModelCalls
      BY ModelConstants
    <3> QED BY <3>2, <3>3, <3>4
  <2>2. CacheSound
    <3>1. cache = [kind \in {"json", "embed"} |-> <<>>]
      BY DEF ModelInit
    <3>2. \A kind \in {"json", "embed"} : cache[kind] \in Seq(CacheEntries(kind)) /\ Len(cache[kind]) = 0
      BY <3>1
    <3>3. \A kind \in {"json", "embed"} : KeysApart(cache[kind])
      BY <3>2 DEF KeysApart
    <3> QED BY <3>1, <3>2, <3>3 DEF CacheSound
  <2>3. ASSUME NEW t \in ModelThread
        PROVE  CallSound(t)
    <3>1. modelCall[t] = [at |-> "idle", request |-> NoRequestYet, next |-> 1, found |-> <<>>, missing |-> <<>>,
                          victim |-> <<>>, outcome |-> "none", disturbed |-> FALSE]
      BY DEF ModelInit, NoModelCall
    <3>2. NoRequestYet.kind = "none"
      BY DEF NoRequestYet
    <3>3. Framed(modelCall[t])
      <4>1. Whole(modelCall[t])
        BY <3>1 DEF Whole
      <4> QED BY <3>1, <4>1 DEF Framed, ModelCalls, ModelStages, AtCache
    <3> QED BY <3>1, <3>2, <3>3 DEF CallSound, JsonSound, EmbedSound, ToolsSound, LostSound
  <2> QED BY <2>1, <2>2, <2>3 DEF ModelInv
<1>2. ModelInv /\ [ModelNext]_modelVars => ModelInv'
  <2> SUFFICES ASSUME ModelInv, [ModelNext]_modelVars
               PROVE  ModelInv'
    OBVIOUS
  <2>1. CASE UNCHANGED modelVars
    <3>1. /\ client' = client /\ textMode' = textMode /\ asked' = asked /\ cache' = cache
          /\ modelCall' = modelCall
      BY <2>1 DEF modelVars
    <3>2. ASSUME NEW t \in ModelThread
          PROVE  CallSound(t)'
      <4>1. /\ Framed(modelCall[t]) /\ JsonSound(modelCall[t]) /\ EmbedSound(modelCall[t])
            /\ ToolsSound(modelCall[t]) /\ LostSound(t)
        BY DEF ModelInv, CallSound
      <4>2. \A r : Caching(r)' <=> Caching(r)
        BY <3>1 DEF Caching
      <4>3. \A r, f, m, n : Covers(r, f, m, n)' <=> Covers(r, f, m, n)
        BY <3>1 DEF Covers, Matches
      <4>4. Framed(modelCall[t])'
        BY <3>1, <4>1, <4>2 DEF Framed, Whole
      <4>5. JsonSound(modelCall[t])'
        BY <3>1, <4>1 DEF JsonSound, HasAnswer, Usable
      <4>6. EmbedSound(modelCall[t])'
        BY <3>1, <4>1, <4>2, <4>3 DEF EmbedSound, HasAnswer
      <4>7. ToolsSound(modelCall[t])' /\ LostSound(t)'
        BY <3>1, <4>1 DEF ToolsSound, LostSound, InCache, Wanted
      <4> QED BY <4>4, <4>5, <4>6, <4>7 DEF CallSound
    <3>3. CacheSound'
      BY <3>1 DEF ModelInv, CacheSound
    <3> QED BY <3>1, <3>2, <3>3 DEF ModelInv
  <2>2. ASSUME NEW t \in ModelThread,
               \/ \E q \in ModelRequests : Ask(t, q)
               \/ Look(t) \/ Take(t) \/ CompleteJson(t) \/ Structured(t) \/ TextFallback(t) \/ CompleteWithTools(t)
               \/ CompleteMessages(t) \/ EmbedOpenai(t) \/ EmbedVolcengine(t) \/ Remember(t) \/ Evict(t)
               \/ DropOldest(t)
        PROVE  ModelInv'
    BY <2>2, AskKeeps, LookKeeps, TakeKeeps, CompleteJsonKeeps, StructuredKeeps, TextFallbackKeeps,
       CompleteWithToolsKeeps, CompleteMessagesKeeps, EmbedOpenaiKeeps, EmbedVolcengineKeeps, RememberKeeps,
       EvictKeeps, DropOldestKeeps
  <2> QED BY <2>1, <2>2 DEF ModelNext
<1> QED BY <1>1, <1>2, PTL DEF ModelSpec

\* The settings, the caches and the calls keep their form: no cache holds a
\* key twice.
THEOREM ModelTypeCorrect ==
  ModelSpec => []ModelTypeOK
<1>1. ModelInv => ModelTypeOK
  <2> SUFFICES ASSUME ModelInv
               PROVE  ModelTypeOK
    OBVIOUS
  <2>1. \A kind \in {"json", "embed"} : \A i, j \in DOMAIN cache[kind] :
           cache[kind][i].key = cache[kind][j].key => i = j
    <3> SUFFICES ASSUME NEW kind \in {"json", "embed"}
                 PROVE  \A i, j \in DOMAIN cache[kind] : cache[kind][i].key = cache[kind][j].key => i = j
      OBVIOUS
    <3>1. cache[kind] \in Seq(CacheEntries(kind)) /\ KeysApart(cache[kind])
      BY DEF ModelInv, CacheSound
    <3>2. DOMAIN cache[kind] = 1..Len(cache[kind])
      BY <3>1
    <3> QED BY <3>1, <3>2 DEF KeysApart
  <2>2. \A t \in ModelThread :
           /\ modelCall[t].at \in ModelStages /\ modelCall[t].outcome \in {"none", "answered", "failed", "lost"}
           /\ modelCall[t].disturbed \in BOOLEAN
    BY DEF ModelInv, CallSound, Framed, ModelCalls
  <2> QED BY <2>1, <2>2 DEF ModelInv, ModelTypeOK, ModelStages, AtCache
<1> QED BY <1>1, ModelInvHolds, PTL

\* What a call returns is an answer to what it asked, in the order of its
\* texts, whatever the service replied and whatever the other threads kept
\* and evicted; and only an eviction of another thread loses an answer.
THEOREM AnswersGiven ==
  ModelSpec => []AnswersUsable
<1>1. ModelInv => AnswersUsable
  <2> SUFFICES ASSUME ModelInv, NEW t \in ModelThread
               PROVE  LET c == modelCall[t] q == c.request IN
                      /\ c.outcome = "lost" => c.disturbed
                      /\ c.outcome = "answered" /\ q.kind = "json" =>
                            LET answer == c.found[1][2] IN
                            /\ answer.to = KeyOf(q)
                            /\ answer.value # "fails" /\ (q.schema.required => answer.value # "bare")
                            /\ q.schema.type = "object" => answer.value \in {"good", "bare"}
                            /\ q.schema.type = "array" => answer.value = "list"
                      /\ c.outcome = "answered" /\ q.kind = "tools" /\ q.choice = "required" => c.found # <<>>
                      /\ c.outcome = "answered" /\ q.kind = "embed" =>
                            LET vectors == InOrder(c.found) IN
                            /\ Len(vectors) = Len(q.texts)
                            /\ \A i \in DOMAIN vectors : /\ vectors[i][2].of = q.texts[i]
                                                         /\ vectors[i][2].fits \/ client.embedder = "volcengine"
    BY DEF AnswersUsable
  <2> DEFINE c == modelCall[t]
             q == c.request
  <2>1. /\ JsonSound(c) /\ EmbedSound(c) /\ ToolsSound(c) /\ LostSound(t)
        /\ q \in ModelRequests \cup {NoRequestYet}
    BY DEF ModelInv, CallSound, Framed, ModelCalls
  <2>2. c.outcome = "answered" /\ q.kind = "json" => Usable(c.found[1][2], q)
    BY <2>1 DEF JsonSound, HasAnswer
  <2>3. ASSUME c.outcome = "answered", q.kind = "embed"
        PROVE  /\ Len(InOrder(c.found)) = Len(q.texts)
               /\ \A i \in DOMAIN InOrder(c.found) :
                    Matches(q, InOrder(c.found)[i]) /\ InOrder(c.found)[i][1] = i
    <3>1. Covers(q, c.found, <<>>, Len(q.texts))
      BY <2>1, <2>3 DEF EmbedSound, HasAnswer
    <3>2. q.texts \in Seq(DOMAIN Length)
      BY <2>1, <2>3, ModelConstants DEF NoRequestYet
    <3>3. Len(q.texts) \in Nat
      BY <3>2
    <3> HIDE DEF q
    <3> QED BY <3>1, <3>3, CoversOrdered
  <2>4. c.outcome = "answered" /\ q.kind = "embed" =>
           \A i \in DOMAIN InOrder(c.found) : /\ InOrder(c.found)[i][2].of = q.texts[i]
                                              /\ InOrder(c.found)[i][2].fits \/ client.embedder = "volcengine"
    BY <2>3 DEF Matches
  <2>5. c.outcome = "answered" /\ q.kind = "json" =>
           LET answer == c.found[1][2] IN
           /\ answer.to = KeyOf(q)
           /\ answer.value # "fails" /\ (q.schema.required => answer.value # "bare")
           /\ q.schema.type = "object" => answer.value \in {"good", "bare"}
           /\ q.schema.type = "array" => answer.value = "list"
    BY <2>2 DEF Usable, Valid
  <2> QED BY <2>1, <2>3, <2>4, <2>5 DEF ToolsSound, LostSound
<1> QED BY <1>1, ModelInvHolds, PTL
=============================================================================
