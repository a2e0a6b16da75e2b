----------------------------- MODULE IndexWait -----------------------------
(***************************************************************************)
(* Requests that bring the files of a workspace into the index and wait:   *)
(* the bootstrap, a search that wants the full index, the hook of a read.  *)
(* They ingest files, each of which registers an event, and then drain the *)
(* outbox or wait for the polling thread to.  Source:                      *)
(* src/code-version/server/memory_service.py; events as in OutboxSync.     *)
(*                                                                         *)
(* A file stands for its chunks, its event for theirs; a file that was     *)
(* ingested before is written no more, its fingerprints being known.       *)
(* Every deadline may pass at any time, and the service is up.             *)
(***************************************************************************)
EXTENDS Naturals, FiniteSets

CONSTANTS
    BootFile,      \* code files of the workspace
    Client,        \* requests, one each
    BatchFiles,    \* RTC_BOOTSTRAP_MAX_FILES
    DrainRounds,   \* RTC_SEARCH_BOOTSTRAP_DRAIN_ROUNDS
    WaitSettings   \* settings to try: polled, is there a polling thread, and
                   \* cap, RTC_BOOTSTRAP_FULL_INDEX_CAP_FILES, 0 for none

\* Both numbers are brought up to 1; a client is not the state of an event.
ASSUME WaitAssumption ==
    /\ IsFiniteSet(BootFile)
    /\ BatchFiles \in Nat \ {0} /\ DrainRounds \in Nat \ {0}
    /\ WaitSettings \subseteq [polled : BOOLEAN, cap : Nat]
    /\ Client \cap {"none", "pending", "polling", "later", "indexed"} = {}

VARIABLES
    setting,   \* the setting
    event,     \* [BootFile -> its event; who has claimed it]
    wait,      \* [Client -> its request]
    reached    \* the answer just given

waitVars == <<setting, event, wait, reached>>

NoWait == [kind |-> "none", at |-> "idle", file |-> {}, already |-> {}, fresh |-> {},
           rounds |-> 0, full |-> TRUE, failed |-> FALSE]
NotReached == [kind |-> "none", quiet |-> FALSE, full |-> FALSE, failed |-> FALSE,
               already |-> {}, fresh |-> {}]

WaitInit ==
    /\ setting \in WaitSettings
    /\ event = [f \in BootFile |-> "none"]
    /\ wait = [c \in Client |-> NoWait]
    /\ reached = NotReached

Now(c, at) == wait' = [wait EXCEPT ![c].at = at] /\ reached' = NotReached
Pending == {f \in BootFile : event[f] = "pending"}

\* quiet: nothing to do was seen, and neither an error nor the last round.
Reach(c, quiet, full) ==
    /\ wait' = [wait EXCEPT ![c] = [NoWait EXCEPT !.kind = wait[c].kind, !.at = "answered"]]
    /\ reached' = [kind |-> wait[c].kind, quiet |-> quiet, full |-> full,
                   failed |-> wait[c].failed, already |-> wait[c].already,
                   fresh |-> wait[c].fresh]

Searches == {"search", "full search"}

\* Searches take _search_bootstrap_lock.
BeginWait(c, kind, files) ==
    /\ wait[c].at = "idle"
    /\ kind \in Searches =>
           \A d \in Client : wait[d].kind \in Searches => wait[d].at = "answered"
    /\ IF kind = "read" THEN Cardinality(files) = 1 ELSE files = {}
    /\ wait' = [wait EXCEPT ![c] = [NoWait EXCEPT !.kind = kind, !.file = files,
                                       !.at = IF kind = "read" THEN "find" ELSE "ingest"]]
    /\ reached' = NotReached
    /\ UNCHANGED <<setting, event>>

\* _ingest_workspace_code_path, of those files that can be read and written.
Ingested(files) ==
    event' = [f \in BootFile |-> IF f \in files /\ event[f] = "none" THEN "pending" ELSE event[f]]

Capped(c) == setting.cap > 0 /\ wait[c].kind = "full search"
AtCap(c) == Capped(c) /\ Cardinality(wait[c].already) >= setting.cap
Limit(c) == IF Capped(c) THEN setting.cap - Cardinality(wait[c].already) ELSE BatchFiles

\* Files not tried yet, those that match the query first.
NextFiles(c) ==
    LET rest == BootFile \ wait[c].already IN
    {S \in SUBSET rest : Cardinality(S) = IF Cardinality(rest) < Limit(c)
                                          THEN Cardinality(rest) ELSE Limit(c)}

\* Only a search for the full index goes on, until a batch brings nothing.
IngestBatch(c) ==
    /\ wait[c].at = "ingest" /\ ~AtCap(c)
    /\ \E tried \in NextFiles(c) : \E done \in SUBSET tried :
          /\ Ingested(done)
          /\ wait' = [wait EXCEPT ![c].already = @ \cup tried, ![c].fresh = @ \cup done,
                 ![c].failed = done = {} /\ tried # {},
                 ![c].at = IF wait[c].kind = "full search" /\ done # {} THEN "ingest"
                           ELSE IF wait[c].kind = "search" THEN "answered" ELSE "drain"]
    /\ reached' = NotReached
    /\ UNCHANGED setting

\* Mutant: a full index is reported although the time was up.
OutOfTimeUnnoticed(c) ==
    /\ wait[c].at = "ingest" /\ wait[c].kind = "full search"
    /\ Now(c, "drain")
    /\ UNCHANGED <<setting, event>>

\* The time is up, or the cap is reached.
OutOfTime(c) ==
    /\ wait[c].at = "ingest" /\ wait[c].kind = "full search"
    /\ wait' = [wait EXCEPT ![c].at = "drain", ![c].full = FALSE]
    /\ reached' = NotReached
    /\ UNCHANGED <<setting, event>>

\* With a polling thread the bootstrap does not wait, and a search for the
\* full index watches the listing: until it is empty, fails, or the time is up.
PollUntilQuiet(c) ==
    /\ wait[c].at = "drain" /\ setting.polled /\ wait[c].kind # "read"
    /\ \/ wait[c].kind = "bootstrap" /\ Reach(c, FALSE, FALSE)
       \/ /\ wait[c].kind = "full search"
          /\ \/ Pending = {} /\ Reach(c, TRUE, wait[c].full)
             \/ \E full \in {FALSE, wait[c].full} : Reach(c, FALSE, full)
    /\ UNCHANGED <<setting, event>>

\* run_once claims what is listed: what nobody has claimed and nothing delays.
ClaimPending(actor) ==
    event' = [f \in BootFile |-> IF f \in Pending THEN actor ELSE event[f]]

\* Each event it has claimed is handled, or fails and waits; one that is
\* buried waits for ever.
HandleClaimed(actor) ==
    \E outcome \in [{f \in BootFile : event[f] = actor} -> {"indexed", "later"}] :
        event' = [f \in BootFile |-> IF event[f] = actor THEN outcome[f] ELSE event[f]]

DrainsItself(c) == wait[c].at = "drain" /\ (~setting.polled \/ wait[c].kind = "read")

\* _drain_outbox_until_quiet: a round, or the end of it.  drain_outbox_sync
\* returns 0 processed also when it fails.
DrainRound(c) ==
    /\ DrainsItself(c)
    /\ \/ /\ Pending # {} /\ ClaimPending(c)
          /\ wait' = [wait EXCEPT ![c].at = "handle", ![c].rounds = @ + 1]
          /\ reached' = NotReached
       \/ /\ wait[c].kind # "read" /\ UNCHANGED event
          /\ \/ Pending = {} /\ Reach(c, TRUE, wait[c].full)
             \/ \E full \in {FALSE, wait[c].full} : Reach(c, FALSE, full)
       \/ wait[c].kind = "read" /\ Now(c, "find again") /\ UNCHANGED event
    /\ UNCHANGED setting

DrainHandled(c) ==
    /\ wait[c].at = "handle"
    /\ HandleClaimed(c)
    /\ IF wait[c].kind = "read" THEN Now(c, "find again")
       ELSE IF wait[c].rounds < DrainRounds THEN Now(c, "drain")
       ELSE Reach(c, FALSE, wait[c].full)
    /\ UNCHANGED setting

\* code_read_snippet_for_hook: what is not found is ingested, and looked for again.
FindSnippet(c) ==
    /\ wait[c].at = "find"
    /\ \/ /\ \A f \in wait[c].file : event[f] = "indexed"
          /\ Reach(c, FALSE, TRUE) /\ UNCHANGED event
       \/ /\ \E f \in wait[c].file : event[f] # "indexed"
          /\ \/ Reach(c, FALSE, FALSE) /\ UNCHANGED event
             \/ /\ Ingested(wait[c].file)
                /\ wait' = [wait EXCEPT ![c].fresh = wait[c].file, ![c].at = "drain"]
                /\ reached' = NotReached
    /\ UNCHANGED setting

FindAgain(c) ==
    /\ wait[c].at = "find again"
    /\ Reach(c, TRUE, \A f \in wait[c].file : event[f] = "indexed")
    /\ UNCHANGED <<setting, event>>

\* The polling thread, and the delay of an event that failed.
Poller ==
    /\ setting.polled
    /\ \/ Pending # {} /\ (\A f \in BootFile : event[f] # "polling") /\ ClaimPending("polling")
       \/ (\E f \in BootFile : event[f] = "polling") /\ HandleClaimed("polling")
    /\ reached' = NotReached
    /\ UNCHANGED <<setting, wait>>

DelayOver ==
    /\ \E f \in BootFile : event[f] = "later" /\ event' = [event EXCEPT ![f] = "pending"]
    /\ reached' = NotReached
    /\ UNCHANGED <<setting, wait>>

WaitNext ==
    \/ \E c \in Client :
          \/ \E kind \in Searches \cup {"bootstrap", "read"}, files \in SUBSET BootFile :
                BeginWait(c, kind, files)
          \/ IngestBatch(c) \/ OutOfTime(c) \/ PollUntilQuiet(c)
          \/ DrainRound(c) \/ DrainHandled(c) \/ FindSnippet(c) \/ FindAgain(c)
    \/ Poller \/ DelayOver

WaitSpec == WaitInit /\ [][WaitNext]_waitVars
-----------------------------------------------------------------------------
WaitTypeOK ==
    /\ setting \in WaitSettings
    /\ event \in [BootFile -> {"none", "pending", "polling", "later", "indexed"} \cup Client]
    /\ \A c \in Client :
          /\ wait[c].at \in {"idle", "ingest", "drain", "handle", "find", "find again", "answered"}
          /\ wait[c].fresh \subseteq wait[c].already \cup wait[c].file
          /\ wait[c].already \subseteq BootFile /\ wait[c].rounds \in 0..DrainRounds
    /\ {reached.quiet, reached.full, reached.failed} \subseteq BOOLEAN

(***************************************************************************)
(* A request that says the index is complete has tried every file, unless  *)
(* a whole batch of them failed, which ends the search for more; and one   *)
(* that found the outbox quiet has left none of its events lying: each is  *)
(* handled, put off or buried, or claimed by another that is still at it.  *)
(* (memory_service.py:3470-3513, 4583-4634, 5301-5310)                     *)
(***************************************************************************)
CompleteIsQuiet ==
    /\ reached.kind = "full search" /\ reached.full /\ ~reached.failed =>
           BootFile \subseteq reached.already
    /\ reached.quiet /\ reached.kind \in {"bootstrap", "full search"} =>
           \A f \in reached.fresh : event[f] \notin {"none", "pending"}
=============================================================================
