--------------------------- MODULE PromptCompose ---------------------------
(***************************************************************************)
(* What compose leaves of a client's transcript: messages that archives or *)
(* the session summary stand for are cut from its front.  compose reads    *)
(* the archives, then (LLM) the session summary, then the session buffer,  *)
(* while a background thread of an earlier after_turn archives messages    *)
(* and takes them out of the buffer.  The client waits for the answers of  *)
(* compose and after_turn.  Sources:                                       *)
(*   src/code-version/server/memory_service.py (compose, after_turn),      *)
(*   src/session/session_manager.py, src/session/rolling_compressor.py.    *)
(*                                                                         *)
(* Messages are numbered in the order of the transcript; what is kept is   *)
(* always a tail of it.  A silent message has no text (a tool call) and is *)
(* never in the buffer.  Archives dropped for the token budget, equal      *)
(* messages and prePromptMessageCount, which no client sends, are left     *)
(* out.  SessionBuffer looks inside the background thread.                 *)
(***************************************************************************)
EXTENDS Naturals, FiniteSets

CONSTANTS
    MaxHost,         \* bound: messages of the transcript
    Rolling,         \* values of rolling_compress_enabled to try
    ComposeBudgets   \* bounds: calls of compose, background jobs, restarts

ASSUME ComposeAssumption ==
    /\ MaxHost \in Nat /\ Rolling \subseteq BOOLEAN
    /\ ComposeBudgets \subseteq [composes : Nat, archivings : Nat, restarts : Nat]

VARIABLES
    rolling,     \* rolling_compress_enabled
    host,        \* messages in the transcript
    silent,      \* those of them without text
    told,        \* messages after_turn has been given
    buffer,      \* messages in the session buffer
    marked,      \* those below its extraction watermark
    window,      \* its window state: messages summarised, count stored
    archived,    \* messages in archives
    archiving,   \* the background thread: what it does, for which messages
    asm,         \* the running compose: next step, archives and buffer read
    prompt,      \* its last answer: first message kept, archives, summary
    allowed,     \* what is left of the bounds
    \* History, read by properties only:
    lost,        \* messages gone with a restart or a failed archive
    late,        \* messages archived since compose read the archives
    shrunk       \* messages left the buffer after the stored count was taken

sessionVars == <<buffer, marked, window, archived, archiving>>
composeVars == <<rolling, host, silent, told, sessionVars, asm, prompt, allowed,
                 lost, late, shrunk>>

Margin == 2      \* _ARCHIVE_TRIM_UNMATCHED_TAIL_MARGIN
NoWindow == [text |-> {}, count |-> 0]
NoArchiving == [at |-> "idle", ids |-> {}]
NoAsm == [at |-> "idle", seen |-> {}, text |-> {}]
NoPrompt == [first |-> 0, matched |-> TRUE, seen |-> {}, text |-> {}, excused |-> {}]

ComposeInit ==
    /\ rolling \in Rolling
    /\ host = 0 /\ silent = {} /\ told = 0
    /\ buffer = {} /\ marked = {} /\ window = NoWindow
    /\ archived = {} /\ archiving = NoArchiving
    /\ asm = NoAsm /\ prompt = NoPrompt
    /\ allowed \in ComposeBudgets
    /\ lost = {} /\ late = {} /\ shrunk = FALSE

Use(what) ==
    /\ allowed[what] > 0
    /\ allowed' = [allowed EXCEPT ![what] = @ - 1]

\* The client is not in a request.
Between == asm.at = "idle"
-----------------------------------------------------------------------------
\* A message is added to the transcript; the last answer is of no use then.
Say(quiet) ==
    /\ Between /\ host < MaxHost
    /\ host' = host + 1
    /\ silent' = IF quiet THEN silent \cup {host + 1} ELSE silent
    /\ prompt' = NoPrompt
    /\ UNCHANGED <<rolling, told, sessionVars, asm, allowed, lost, late, shrunk>>

\* after_turn records the new messages that have text.
Record ==
    /\ Between /\ told < host
    /\ told' = host
    /\ buffer' = buffer \cup ((told + 1)..host \ silent)
    /\ prompt' = NoPrompt
    /\ UNCHANGED <<rolling, host, silent, marked, window, archived, archiving,
                   asm, allowed, lost, late, shrunk>>

\* after_turn hands what is above the watermark to a background thread, or
\* commit empties the buffer for one.
StartSnapshot ==
    /\ Between /\ archiving.at = "idle" /\ buffer \ marked # {} /\ Use("archivings")
    /\ archiving' = [at |-> "snapshot", ids |-> buffer \ marked]
    /\ marked' = buffer /\ prompt' = NoPrompt
    /\ UNCHANGED <<rolling, host, silent, told, buffer, window, archived, asm,
                   lost, late, shrunk>>

StartClear ==
    /\ Between /\ archiving.at = "idle" /\ buffer # {} /\ Use("archivings")
    /\ archiving' = [at |-> "clear", ids |-> buffer]
    /\ buffer' = {} /\ marked' = {} /\ window' = NoWindow
    /\ shrunk' = FALSE /\ prompt' = NoPrompt
    /\ UNCHANGED <<rolling, host, silent, told, archived, asm, lost, late>>

\* The archive is written, or not: after a failed extraction the watermark
\* is taken back, after a failed archive it stays.
WriteArchive ==
    /\ archiving.at \in {"snapshot", "clear"}
    /\ archived' = archived \cup archiving.ids
    /\ archiving' = IF archiving.at = "clear" THEN NoArchiving
                    ELSE [archiving EXCEPT !.at = "remove"]
    /\ late' = IF Between THEN late ELSE late \cup archiving.ids
    /\ UNCHANGED <<rolling, host, silent, told, buffer, marked, window, asm,
                   prompt, allowed, lost, shrunk>>

ArchiveFails ==
    /\ archiving.at \in {"snapshot", "clear"}
    /\ archiving' = NoArchiving
    /\ \/ archiving.at = "snapshot" /\ marked' = marked \ archiving.ids
       \/ UNCHANGED marked
    /\ lost' = IF archiving.at = "clear" THEN lost \cup archiving.ids ELSE lost
    /\ UNCHANGED <<rolling, host, silent, told, buffer, window, archived, asm,
                   prompt, allowed, late, shrunk>>

\* Mutant: the watermark stays when messages below it go.
RemoveKeepsMark ==
    /\ archiving.at = "remove"
    /\ buffer' = buffer \ archiving.ids /\ archiving' = NoArchiving
    /\ shrunk' = (shrunk \/ window.count > 0 \/ asm.at = "compress")
    /\ UNCHANGED <<rolling, host, silent, told, marked, window, archived, asm,
                   prompt, allowed, lost, late>>

\* remove_messages_by_id leaves the window state as it is.
RemoveArchived ==
    /\ archiving.at = "remove"
    /\ buffer' = buffer \ archiving.ids /\ marked' = marked \ archiving.ids
    /\ archiving' = NoArchiving
    /\ shrunk' = (shrunk \/ window.count > 0 \/ asm.at = "compress")
    /\ UNCHANGED <<rolling, host, silent, told, window, archived, asm, prompt,
                   allowed, lost, late>>

ServerRestart ==
    /\ Use("restarts")
    /\ lost' = lost \cup ((buffer \cup archiving.ids) \ archived)
    /\ buffer' = {} /\ marked' = {} /\ window' = NoWindow
    /\ archiving' = NoArchiving /\ asm' = NoAsm /\ shrunk' = FALSE
    /\ prompt' = NoPrompt
    /\ UNCHANGED <<rolling, host, silent, told, archived, late>>
-----------------------------------------------------------------------------
\* compose is called in a turn and reads the archives.
Assemble ==
    /\ Between /\ told < host /\ prompt = NoPrompt /\ Use("composes")
    /\ asm' = [at |-> "state", seen |-> archived, text |-> {}]
    /\ late' = {}
    /\ UNCHANGED <<rolling, host, silent, told, sessionVars, prompt, lost, shrunk>>

\* _get_session_state: enough turns or tokens since the last time?
AskSummary ==
    /\ asm.at = "state"
    /\ \/ asm' = [asm EXCEPT !.at = "trim"]
       \/ rolling /\ buffer # {} /\ asm' = [asm EXCEPT !.at = "compress", !.text = buffer]
    /\ UNCHANGED <<rolling, host, silent, told, sessionVars, prompt, allowed,
                   lost, late, shrunk>>

\* The LLM has answered, or has failed; the count is of messages.
Compressed ==
    /\ asm.at = "compress"
    /\ asm' = [asm EXCEPT !.at = "trim"]
    /\ \/ UNCHANGED <<window, shrunk>>
       \/ /\ window' = [text |-> asm.text, count |-> Cardinality(asm.text)]
          /\ shrunk' = ~(asm.text \subseteq buffer)
    /\ UNCHANGED <<rolling, host, silent, told, buffer, marked, archived,
                   archiving, prompt, allowed, lost, late>>

\* _find_last_message_sequence_start: the buffer is found in the transcript.
Matches(b) == \E i, j \in b : b = i..j

\* Mutant: kept from the last message of the buffer on.
AfterArchivesFromLast(b) ==
    IF b = {} \/ asm.seen = {} THEN 1
    ELSE IF Matches(b) THEN CHOOSE i \in b : \A j \in b : i >= j
    ELSE IF Cardinality(b) + Margin >= host THEN 1
    ELSE host - (Cardinality(b) + Margin) + 1

\* The first message kept next to archives: where the buffer is found, else
\* that of a tail of its length and the margin.
AfterArchives(b) ==
    IF b = {} \/ asm.seen = {} THEN 1
    ELSE IF Matches(b) THEN CHOOSE i \in b : \A j \in b : i <= j
    ELSE IF Cardinality(b) + Margin >= host THEN 1
    ELSE host - (Cardinality(b) + Margin) + 1

\* And next to the summary: as many less as were summarised, or none.
AfterSummary(first) ==
    IF window.count = 0 THEN first
    ELSE IF window.count < host - first + 1 THEN first + window.count
    ELSE host + 1

Trim ==
    /\ asm.at = "trim"
    /\ prompt' = [first |-> AfterSummary(AfterArchives(buffer)),
                  matched |-> buffer = {} \/ Matches(buffer),
                  seen |-> asm.seen, text |-> window.text,
                  excused |-> lost \cup late \cup
                      IF archiving.at = "clear" THEN archiving.ids ELSE {}]
    /\ asm' = NoAsm
    /\ UNCHANGED <<rolling, host, silent, told, sessionVars, allowed, lost, late, shrunk>>

ComposeNext ==
    \/ \E quiet \in BOOLEAN : Say(quiet)
    \/ Record \/ StartSnapshot \/ StartClear
    \/ WriteArchive \/ ArchiveFails \/ RemoveArchived \/ ServerRestart
    \/ Assemble \/ AskSummary \/ Compressed \/ Trim

ComposeSpec == ComposeInit /\ [][ComposeNext]_composeVars
-----------------------------------------------------------------------------
ComposeTypeOK ==
    /\ rolling \in Rolling /\ host \in 0..MaxHost /\ told \in 0..host
    /\ silent \subseteq 1..host
    /\ buffer \subseteq 1..told \ silent /\ marked \subseteq buffer
    /\ window \in [text : SUBSET (1..told), count : 0..told]
    /\ archived \subseteq 1..told
    /\ archiving \in [at : {"idle", "snapshot", "clear", "remove"}, ids : SUBSET (1..told)]
    /\ asm \in [at : {"idle", "state", "compress", "trim"},
                seen : SUBSET archived, text : SUBSET (1..told)]
    /\ prompt \in [first : 0..host + 1, matched : BOOLEAN, seen : SUBSET archived,
                   text : SUBSET (1..told), excused : SUBSET (1..told)]
    /\ lost \subseteq 1..told /\ late \subseteq archived /\ shrunk \in BOOLEAN

Answered == prompt # NoPrompt
Kept == prompt.first..host

(***************************************************************************)
(* The model never loses sight of a message: each is in the answer, or in  *)
(* an archive or the summary the answer shows.  Excused are what died with *)
(* a restart or a failed archive, what commit has taken out of the buffer  *)
(* and not yet archived, what was archived after the archives were read;   *)
(* answers cut by guess (the buffer was not found in the transcript); and  *)
(* a stored count that is older than the buffer.                           *)
(* (memory_service.py:3875-3971)                                           *)
(***************************************************************************)
NothingForgotten ==
    Answered /\ prompt.matched /\ ~shrunk =>
        1..host \ silent \subseteq Kept \cup prompt.seen \cup prompt.text \cup prompt.excused

(***************************************************************************)
(* "Only keep unarchived messages (session buffer) plus the current turn's *)
(* new messages": what is in the buffer, and in no archive, is in the      *)
(* answer.                                                                 *)
(* (memory_service.py:3877-3878)                                           *)
(***************************************************************************)
UnarchivedKept == Answered /\ ~rolling => buffer \ archived \subseteq Kept
=============================================================================
