-------------------------- MODULE TranscriptIngest --------------------------
(***************************************************************************)
(* The Claude plugin sends a session's transcript to the server: hooks     *)
(* that fire when a turn ends (Stop) or before compaction (PreCompact),    *)
(* and the command rtc-add-history.  What was sent is recorded as a byte   *)
(* offset next to the transcript, which goes on growing.  After a Stop     *)
(* hook the local services are stopped.  Sources:                          *)
(*   src/claude-plugin/scripts/rtc_terminal.py (hook_after_turn,           *)
(*   command_add_history, parse_transcript_chunk),                         *)
(*   src/claude-plugin/scripts/hook_stop.sh, hooks/hooks.json.             *)
(*                                                                         *)
(* Line k takes the places 2k-1 and 2k of the transcript, so that a size   *)
(* or an offset may be in the middle of a line.  Of the server, only where *)
(* messages are: in memory, or stored (archived or extracted).  Lines that *)
(* carry no message are left out.                                          *)
(***************************************************************************)
EXTENDS Naturals, FiniteSets

CONSTANTS
    Runner,          \* hook and command processes
    Lines,           \* bound: lines of the transcript
    HalfLines,       \* a line may be seen half written
    AutoStop,        \* RTC_PLUGIN_AUTO_STOP
    Sends            \* bound: hooks and commands started

ASSUME IngestAssumption ==
    /\ Lines \in Nat /\ Sends \in Nat
    /\ HalfLines \in BOOLEAN /\ AutoStop \in BOOLEAN

VARIABLES
    size,        \* of the transcript
    offset,      \* in the file .ingest-offset, 0 if there is none
    running,     \* [Runner -> process: kind, next step, what it has read]
    serverUp,
    inMemory,    \* lines in the session buffer of the server
    stored,      \* lines in archives or memories
    starts,      \* what is left of the bound
    \* History, read by properties only:
    delivered,   \* lines a server was ever given
    halved,      \* lines in whose middle the offset was once set
    unread       \* lines that grew between a command's reading and its offset

ingestVars == <<size, offset, running, serverUp, inMemory, stored, starts,
                delivered, halved, unread>>

Line == 1..Lines
NoRun == [kind |-> "none", at |-> "idle", from |-> 0, size |-> 0, lines |-> {}]

\* The lines that are whole between two places of the transcript.
Whole(from, to) == {k \in Line : from <= 2 * k - 2 /\ 2 * k <= to}

IngestInit ==
    /\ size = 0 /\ offset = 0
    /\ running = [r \in Runner |-> NoRun]
    /\ serverUp \in BOOLEAN
    /\ inMemory = {} /\ stored = {} /\ starts = Sends
    /\ delivered = {} /\ halved = {} /\ unread = {}

Move(r, to) == running' = [running EXCEPT ![r].at = to]

\* A hook_after_turn is over: after Stop the services are stopped.
Over(r) == IF running[r].kind = "stop" /\ AutoStop THEN "kill" ELSE "idle"

\* The offset file is written (history: what it is in the middle of).
SetOffset(r, place) ==
    /\ offset' = place
    /\ halved' = IF place % 2 = 1 THEN halved \cup {(place + 1) \div 2} ELSE halved
    /\ Move(r, IF running[r].kind = "history" THEN "idle" ELSE Over(r))
-----------------------------------------------------------------------------
\* Claude appends to the transcript.
Grow ==
    /\ size < 2 * Lines
    /\ size' = IF size % 2 = 0 /\ ~HalfLines THEN size + 2 ELSE size + 1
    /\ UNCHANGED <<offset, running, serverUp, inMemory, stored, starts,
                   delivered, halved, unread>>

\* A hook or command starts and reads the offset.
StartRun(r, kind) ==
    /\ running[r].at = "idle" /\ starts > 0
    /\ starts' = starts - 1
    /\ running' = [running EXCEPT ![r] = [NoRun EXCEPT
                      !.kind = kind, !.at = "stat", !.from = offset]]
    /\ UNCHANGED <<size, offset, serverUp, inMemory, stored, delivered, halved, unread>>

\* It looks at the size: anything new?
Stat(r) ==
    /\ running[r].at = "stat"
    /\ running' = [running EXCEPT ![r].size = size,
                      ![r].at = IF size > running[r].from THEN "read"
                                ELSE IF running[r].kind = "history" THEN "idle"
                                ELSE Over(r)]
    /\ UNCHANGED <<size, offset, serverUp, inMemory, stored, starts,
                   delivered, halved, unread>>

\* It reads to the end, a hook from the offset and the command from the
\* start.  With no message, a hook moves the offset at once.
ReadChunk(r) ==
    /\ running[r].at = "read"
    /\ LET history == running[r].kind = "history"
           got == Whole(IF history THEN 0 ELSE running[r].from, size)
       IN running' = [running EXCEPT ![r].lines = got,
                         ![r].size = IF history THEN size ELSE @,
                         ![r].at = IF got # {} THEN "post"
                                   ELSE IF history THEN "idle" ELSE "record"]
    /\ UNCHANGED <<size, offset, serverUp, inMemory, stored, starts,
                   delivered, halved, unread>>

\* ensure_backend_for_hook starts the services; it may fail.
Launch(r) ==
    /\ running[r].at = "post" /\ running[r].kind # "history" /\ ~serverUp
    /\ \/ serverUp' = TRUE /\ UNCHANGED running
       \/ Move(r, Over(r)) /\ UNCHANGED serverUp
    /\ UNCHANGED <<size, offset, inMemory, stored, starts, delivered, halved, unread>>

\* POST after_turn: the server has the messages, but the answer may come too
\* late for the client.
Post(r) ==
    /\ running[r].at = "post" /\ serverUp
    /\ inMemory' = inMemory \cup running[r].lines
    /\ delivered' = delivered \cup running[r].lines
    /\ \/ Move(r, "record")
       \/ Move(r, IF running[r].kind = "history" THEN "idle" ELSE Over(r))
    /\ UNCHANGED <<size, offset, serverUp, stored, starts, halved, unread>>

PostFails(r) ==
    /\ running[r].at = "post"
    /\ Move(r, IF running[r].kind = "history" THEN "idle" ELSE Over(r))
    /\ UNCHANGED <<size, offset, serverUp, inMemory, stored, starts,
                   delivered, halved, unread>>

\* Mutant: a hook, too, records the size at this moment.
RecordOffsetLate(r) ==
    /\ running[r].at = "record"
    /\ SetOffset(r, size)
    /\ unread' = IF running[r].kind = "history"
                 THEN unread \cup Whole(2 * (running[r].size \div 2), size) ELSE unread
    /\ UNCHANGED <<size, serverUp, inMemory, stored, starts, delivered>>

\* The hook records the size it saw before it read, the command the size at
\* this moment.
RecordOffset(r) ==
    /\ running[r].at = "record"
    /\ IF running[r].kind = "history"
       THEN /\ SetOffset(r, size)
            /\ unread' = unread \cup Whole(2 * (running[r].size \div 2), size)
       ELSE SetOffset(r, running[r].size) /\ UNCHANGED unread
    /\ UNCHANGED <<size, serverUp, inMemory, stored, starts, delivered>>

\* hook_stop.sh gives hook_after_turn eight seconds.
TimesOut(r) ==
    /\ running[r].kind \in {"stop", "compact"}
    /\ running[r].at \notin {"idle", "kill"}
    /\ Move(r, Over(r))
    /\ UNCHANGED <<size, offset, serverUp, inMemory, stored, starts,
                   delivered, halved, unread>>

\* rtc_terminal.py stop: SIGTERM, and the server dies with its memory.
StopServices(r) ==
    /\ running[r].at = "kill"
    /\ serverUp' = FALSE /\ inMemory' = {}
    /\ Move(r, "idle")
    /\ UNCHANGED <<size, offset, stored, starts, delivered, halved, unread>>

\* The server archives what it has in memory.
StoreSession ==
    /\ serverUp /\ inMemory # {}
    /\ stored' = stored \cup inMemory /\ inMemory' = {}
    /\ UNCHANGED <<size, offset, running, serverUp, starts, delivered, halved, unread>>

IngestNext ==
    \/ Grow \/ StoreSession
    \/ \E r \in Runner :
         \/ \E kind \in {"stop", "compact", "history"} : StartRun(r, kind)
         \/ Stat(r) \/ ReadChunk(r) \/ Launch(r) \/ Post(r) \/ PostFails(r)
         \/ RecordOffset(r) \/ TimesOut(r) \/ StopServices(r)

IngestSpec == IngestInit /\ [][IngestNext]_ingestVars
-----------------------------------------------------------------------------
IngestTypeOK ==
    /\ size \in 0..2 * Lines /\ offset \in 0..size
    /\ running \in [Runner -> [kind : {"none", "stop", "compact", "history"},
                     at : {"idle", "stat", "read", "post", "record", "kill"},
                     from : 0..size, size : 0..size, lines : SUBSET Line]]
    /\ serverUp \in BOOLEAN /\ starts \in 0..Sends
    /\ inMemory \subseteq delivered /\ stored \subseteq delivered
    /\ delivered \subseteq Line /\ halved \subseteq Line /\ unread \subseteq Line

(***************************************************************************)
(* The offset never passes a line that no server was given, whatever hooks *)
(* overlap, time out, are answered too late or put an older offset back,   *)
(* and however the transcript grows meanwhile.  Excused are a line in      *)
(* whose middle the offset was set, and what grew while the command        *)
(* rtc-add-history was sending.                                            *)
(* (rtc_terminal.py:1188-1213, 591-598)                                    *)
(***************************************************************************)
NothingSkipped == Whole(0, offset) \subseteq delivered \cup halved \cup unread

(***************************************************************************)
(* "Ingest the final transcript before shutting down the local backend":   *)
(* when a hook is through, what the offset calls ingested is stored, or in *)
(* the memory of a server that lives.  (hook_stop.sh:9)                    *)
(***************************************************************************)
IngestedKept ==
    Whole(0, offset) \subseteq inMemory \cup stored \cup halved \cup unread
=============================================================================
