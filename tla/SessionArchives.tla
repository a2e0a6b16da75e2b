-------------------------- MODULE SessionArchives --------------------------
(***************************************************************************)
(* The archives of a session.  Each commit looks for the latest archive,   *)
(* has the LLM compress its messages together with it, and writes the      *)
(* result as a node; compose shows the latest in full and abstracts of the *)
(* others, compact answers with a summary.  Commits of a session may       *)
(* overlap, for extractions do.  Sources: src/session/session_manager.py,  *)
(* archive_store.py, compressor.py, and build_archive_refs, compose and    *)
(* compact in src/code-version/server/memory_service.py                    *)
(*                                                                         *)
(* A text is the set of commits whose messages it tells about; what the    *)
(* LLM makes of texts tells of all they do.  An abstract made without it   *)
(* is two texts, and of an abstract only the first is cut out (45 of 100   *)
(* characters).  Archive ids begin with the time their commit began, so    *)
(* commits are numbered in the order of their ids.                         *)
(***************************************************************************)
EXTENDS Naturals, Sequences, FiniteSets

CONSTANTS
    MaxCommits,      \* bound on the commits
    MaxTroubles,     \* bound on the commits that meet a fault, or are a compact's
    AbstractRooms    \* how many abstracts may fit next to the overview

ASSUME ArchivesAssumption ==
    MaxCommits \in Nat /\ MaxTroubles \in Nat /\ AbstractRooms \subseteq Nat

Commits == 1..MaxCommits

VARIABLES
    commits,    \* [Commits -> a commit and what it makes]
    dated,      \* archives dated so far
    telling     \* what was last answered, and to whom

archiveVars == <<commits, dated, telling>>

NoCommit == [at |-> "none", compact |-> FALSE, seen |-> {}, prev |-> 0, how |-> "llm",
             overview |-> {}, abstract |-> <<>>, created |-> 0]
NothingTold == [to |-> "none", told |-> {}, stored |-> {}]

ArchivesInit ==
    /\ commits = [c \in Commits |-> NoCommit]
    /\ dated = 0
    /\ telling = NothingTold

\* list_archives: nodes that are not whole cannot be read and are skipped.
Stored == {c \in Commits : commits[c].at = "stored"}
Told(texts) == UNION {texts[i] : i \in DOMAIN texts}

\* Mutant: the first of the listing.
LatestListed(set) == CHOOSE c \in set : \A d \in set : c <= d

\* Sorted by created_at.
Latest(set) == CHOOSE c \in set : \A d \in set : commits[d].created <= commits[c].created

Troubled(c) == commits[c].compact \/ commits[c].how # "llm" \/ commits[c].at = "memory"
May(c) == Cardinality({d \in Commits : Troubled(d)} \cup {c}) <= MaxTroubles

\* commit_snapshot, or commit by compact, of messages that are there.
BeginCommit(c, compact) ==
    /\ commits[c].at = "none"
    /\ \A d \in Commits : d < c => commits[d].at # "none"
    /\ compact => May(c)
    /\ commits' = [commits EXCEPT ![c].at = "look", ![c].compact = compact]
    /\ telling' = NothingTold
    /\ UNCHANGED dated

\* _get_latest_archive_context; an exception leaves it empty.
FindPrevious(c) ==
    /\ commits[c].at = "look"
    /\ \/ May(c) /\ commits' = [commits EXCEPT ![c].at = "compress", ![c].how = "unread"]
       \/ commits' = [commits EXCEPT ![c].at = "compress", ![c].seen = Stored,
                                     ![c].prev = IF Stored = {} THEN 0 ELSE Latest(Stored)]
    /\ telling' = NothingTold
    /\ UNCHANGED dated

PreviousOverview(c) == IF commits[c].prev = 0 THEN {} ELSE commits[commits[c].prev].overview
PreviousAbstract(c) == IF commits[c].prev = 0 THEN <<>> ELSE commits[commits[c].prev].abstract

\* write_archive dates the archive before it writes.
Dates(c) == dated' = dated + 1 /\ telling' = NothingTold

\* _llm_compress: both texts are made from all there is.
CompressByLLM(c) ==
    /\ commits[c].at = "compress"
    /\ LET all == {c} \cup PreviousOverview(c) \cup Told(PreviousAbstract(c)) IN
       commits' = [commits EXCEPT ![c].at = "write", ![c].overview = all,
                                  ![c].abstract = <<all>>, ![c].created = dated + 1]
    /\ Dates(c)

\* _fallback_compress: no LLM, or it has failed.
CompressAnyway(c) ==
    /\ commits[c].at = "compress" /\ May(c)
    /\ commits' = [commits EXCEPT
           ![c].at = "write", ![c].how = IF @ = "llm" THEN "fallback" ELSE @,
           ![c].overview = {c} \cup Told(PreviousAbstract(c)),
           ![c].abstract = IF PreviousAbstract(c) = <<>> THEN <<{c}>>
                           ELSE <<Head(PreviousAbstract(c)), {c}>>,
           ![c].created = dated + 1]
    /\ Dates(c)

\* _compress tries the LLM first.
Compress(c) == CompressByLLM(c) \/ CompressAnyway(c)

\* The node is there, or the archive "exists in memory", that is nowhere.
WriteSession(c) ==
    /\ commits[c].at = "write"
    /\ \E kept \in BOOLEAN :
          /\ kept \/ May(c)
          /\ commits' = [commits EXCEPT ![c].at = IF kept THEN "stored" ELSE "memory"]
    /\ telling' = NothingTold
    /\ UNCHANGED dated

\* build_archive_refs: the latest overview, and abstracts from the newest on
\* until one does not fit.
ComposeArchives(room) ==
    /\ Stored # {}
    /\ LET latest == Latest(Stored)
           Rank(c) == {d \in Stored \ {latest} : commits[d].created >= commits[c].created}
           fits == {c \in Stored \ {latest} : Cardinality(Rank(c)) <= room} IN
       telling' = [to |-> "compose", stored |-> Stored,
                  told |-> commits[latest].overview
                             \cup UNION {Told(commits[c].abstract) : c \in fits}]
    /\ UNCHANGED <<commits, dated>>

\* compact has committed, and get_context takes the first archive listed.
AnswerCompact(c) ==
    /\ commits[c].at \in {"stored", "memory"} /\ commits[c].compact
    /\ commits' = [commits EXCEPT ![c].compact = FALSE]
    /\ telling' = [to |-> "compact", stored |-> {c} \cap Stored,
                  told |-> UNION {commits[a].overview :
                                     a \in {b \in Stored : \A d \in Stored : b <= d}}]
    /\ UNCHANGED dated

ArchivesNext ==
    \/ \E c \in Commits :
          \/ \E compact \in BOOLEAN : BeginCommit(c, compact)
          \/ FindPrevious(c) \/ Compress(c) \/ WriteSession(c) \/ AnswerCompact(c)
    \/ \E room \in AbstractRooms : ComposeArchives(room)

ArchivesSpec == ArchivesInit /\ [][ArchivesNext]_archiveVars
-----------------------------------------------------------------------------
ArchivesTypeOK ==
    /\ dated \in 0..MaxCommits
    /\ telling \in [to : {"none", "compose", "compact"}, told : SUBSET Commits,
                   stored : SUBSET Commits]
    /\ \A c \in Commits :
          /\ commits[c].at \in {"none", "look", "compress", "write", "stored", "memory"}
          /\ commits[c].how \in {"llm", "unread", "fallback"} /\ commits[c].compact \in BOOLEAN
          /\ commits[c].created \in 0..dated /\ commits[c].prev \in {0} \cup commits[c].seen
          /\ Told(commits[c].abstract) \subseteq commits[c].seen \cup {c}
          /\ commits[c].overview \subseteq commits[c].seen \cup {c}

Apart(a, b) == a # b /\ a \notin commits[b].seen /\ b \notin commits[a].seen

(***************************************************************************)
(* A session is remembered across its archives: however few abstracts fit, *)
(* compose tells of every archive, for the latest was fused with what was  *)
(* there; but for archives made side by side, of which only the later is   *)
(* fused into the next, and for those made without the LLM or the archive  *)
(* before.  (session_manager.py:486-494, 575-585, archive_store.py:109,    *)
(* memory_service.py:477-522)                                              *)
(***************************************************************************)
Remembered ==
    telling.to = "compose" =>
        \A a \in telling.stored \ telling.told :
            \/ \E b \in telling.stored : Apart(a, b)
            \/ \E b \in telling.stored : commits[b].how # "llm"

(***************************************************************************)
(* "Get compressed context (archive overview as summary)": what compact    *)
(* answers with tells of the messages it has just taken out of the buffer. *)
(* (memory_service.py:4426-4431)                                           *)
(***************************************************************************)
SummaryOfNow == telling.to = "compact" => telling.stored \subseteq telling.told
=============================================================================
