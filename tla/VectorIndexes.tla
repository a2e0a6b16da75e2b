---------------------------- MODULE VectorIndexes ----------------------------
(***************************************************************************)
(* The three vector indexes behind one interface, each shared without a    *)
(* lock by the polling thread, the drains and the requests: two dicts in   *)
(* memory, a table of openGauss with a pool of connections, a collection   *)
(* of Chroma.  Sources: src/providers/vector_index/                        *)
(*                                                                         *)
(* A step is what the interpreter lock keeps whole: one access to a dict   *)
(* or a list, one statement of the database.  A text and an embedding are  *)
(* the number of the call they came with.  Two transactions that write a   *)
(* row wait for each other; any statement may fail.                        *)
(***************************************************************************)
EXTENDS Naturals, Sequences, FiniteSets

CONSTANTS
    VectorClient,   \* threads
    RecordId,       \* identifiers of records
    Facts,          \* [RecordId -> account, parent and score of its record]
    Batches,        \* sets of records that are written or deleted together
    Filters,        \* filters to try: account and parent, "any" for none
    VectorTopK,     \* top_k
    PoolSize,       \* pool_size
    MaxVectorCalls, \* the most calls of a budget
    VectorBudgets   \* indexes to try: kinds and number of calls, what may fail

ASSUME VectorAssumption ==
    /\ IsFiniteSet(VectorClient) /\ IsFiniteSet(RecordId) /\ Batches \subseteq SUBSET RecordId
    /\ \A r \in RecordId : Facts[r].score \in Nat
    /\ VectorTopK \in Nat \ {0} /\ PoolSize \in Nat \ {0} /\ MaxVectorCalls \in Nat
    /\ VectorBudgets \subseteq
         [db : {"memory", "opengauss", "chroma"}, kinds : SUBSET {"upsert", "delete", "search", "purge"},
          calls : 0..MaxVectorCalls, faults : Nat]

Versions == 0..MaxVectorCalls
Conns == Versions \ {0}

VARIABLES
    vectorDb,   \* vector_db_type, and what may still happen
    indexed,    \* [RecordId -> the call its record and its vector come from]
    conns,      \* the pool, and [Conns -> state of the connection]
    vcall,      \* [VectorClient -> its call]
    returned,   \* the answer just given
    torn        \* history: records two calls wrote at the same time

vectorVars == <<vectorDb, indexed, conns, vcall, returned, torn>>

NoFilter == [account |-> "any", parent |-> "any"]
NoVector == [does |-> "none", at |-> "idle", nth |-> 0, todo |-> {}, writes |-> {},
             refused |-> {}, seen |-> {}, size |-> 0, hits |-> {}, conn |-> 0, filter |-> NoFilter,
             room |-> FALSE, moved |-> {}, raised |-> FALSE]
NoRow == [record |-> 0, vector |-> 0]

VectorInit ==
    /\ vectorDb \in VectorBudgets
    /\ indexed = [r \in RecordId |-> NoRow]
    /\ conns = [pool |-> <<>>, state |-> [k \in Conns |-> "unused"]]
    /\ vcall = [v \in VectorClient |-> NoVector]
    /\ returned = NoVector
    /\ torn = {}

Present == {r \in RecordId : indexed[r].record > 0}
Agrees(wanted, actual) == wanted = "any" \/ wanted = actual

InAccount(r, filter) == Agrees(filter.account, Facts[r].account)

\* Direct children, by the URI or by the parent its metadata name.
IsChild(r, filter) == Agrees(filter.parent, Facts[r].parent)
FilterMatches(r, filter) == InAccount(r, filter) /\ IsChild(r, filter)

\* The hits with the highest scores.
BestHits(hits) ==
    {r \in hits : Cardinality({s \in hits : Facts[s].score > Facts[r].score}) < VectorTopK}

Moves(v, call) == vcall' = [vcall EXCEPT ![v] = call] /\ returned' = NoVector /\ UNCHANGED torn

\* Rows are written: other calls find them moved.
Writes(v, written, row, call) ==
    /\ indexed' = [r \in RecordId |-> IF r \in written THEN row ELSE indexed[r]]
    /\ vcall' = [w \in VectorClient |->
           IF w = v THEN call
           ELSE IF vcall[w].at = "idle" THEN vcall[w]
           ELSE [vcall[w] EXCEPT !.moved = @ \cup written]]
    /\ torn' = torn \cup {r \in written : \E w \in VectorClient \ {v} :
                              vcall[w].at # "idle" /\ r \in vcall[w].writes}
    /\ returned' = NoVector

\* delete_account_data and delete_by_owner_space name no records.
Named(does, batch, filter) ==
    IF does = "purge" THEN {r \in RecordId : FilterMatches(r, filter)} ELSE batch

\* What others are writing moves.
BeginVectorCall(v, does, batch, filter) ==
    /\ vcall[v].at = "idle" /\ vectorDb.calls > 0 /\ does \in vectorDb.kinds
    /\ does \in {"search", "purge"} <=> batch = {}
    /\ does = "purge" => vectorDb.db # "chroma" /\ filter.parent = "any" /\ filter.account # "any"
    /\ vectorDb' = [vectorDb EXCEPT !.calls = @ - 1]
    /\ Moves(v, [NoVector EXCEPT !.does = does, !.nth = MaxVectorCalls + 1 - vectorDb.calls,
           !.todo = batch, !.filter = IF batch = {} THEN filter ELSE NoFilter,
           !.size = Cardinality(Present),
           !.moved = UNION {vcall[w].writes : w \in VectorClient},
           !.writes = Named(does, batch, filter),
           !.at = CASE vectorDb.db = "opengauss" -> IF conns.pool = <<>> THEN "new" ELSE "pop"
                    [] vectorDb.db = "chroma" -> "call"
                    [] OTHER -> IF does \in {"search", "purge"} THEN "scan" ELSE "record"])
    /\ UNCHANGED <<indexed, conns>>
-----------------------------------------------------------------------------
\* InMemoryVectorIndex.upsert, delete, and the second half of
\* delete_account_data: the record first, then its vector.
Version(c) == IF c.does = "upsert" THEN c.nth ELSE 0

WriteRecord(v) ==
    /\ vcall[v].at = "record"
    /\ \E r \in vcall[v].todo :
          Writes(v, {r}, [indexed[r] EXCEPT !.record = Version(vcall[v])],
                 [vcall[v] EXCEPT !.at = "vector", !.seen = {r}])
    /\ UNCHANGED <<vectorDb, conns>>

WriteVector(v) ==
    /\ vcall[v].at = "vector"
    /\ \E r \in vcall[v].seen :
          Writes(v, {r}, [indexed[r] EXCEPT !.vector = Version(vcall[v])],
                 [vcall[v] EXCEPT !.todo = @ \ {r}, !.seen = {},
                     !.at = IF vcall[v].todo = {r} THEN "done" ELSE "record"])
    /\ UNCHANGED <<vectorDb, conns>>

\* The loop over _records.items() raises when their number has changed.
SizeChanged(v) == Cardinality(Present) # vcall[v].size

ScanBreaks(v) ==
    /\ vcall[v].at = "scan" /\ SizeChanged(v)
    /\ Moves(v, [vcall[v] EXCEPT !.at = "done", !.raised = TRUE])
    /\ UNCHANGED <<vectorDb, indexed, conns>>

\* A record that matches has its vector read next.
ScanRecords(v) ==
    /\ vcall[v].at = "scan" /\ vcall[v].does = "search" /\ ~SizeChanged(v)
    /\ LET c == vcall[v] IN
       \/ /\ Present \subseteq c.seen
          /\ Moves(v, [c EXCEPT !.at = "done", !.hits = BestHits(c.hits)])
       \/ \E r \in Present \ c.seen :
             Moves(v, IF FilterMatches(r, c.filter)
                      THEN [c EXCEPT !.seen = @ \cup {r}, !.todo = {r}, !.at = "similarity"]
                      ELSE [c EXCEPT !.seen = @ \cup {r}])
    /\ UNCHANGED <<vectorDb, indexed, conns>>

\* The records of an account are listed first.
ScanDoomed(v) ==
    /\ vcall[v].at = "scan" /\ vcall[v].does = "purge" /\ ~SizeChanged(v)
    /\ LET c == vcall[v] IN
       \/ /\ Present \subseteq c.seen
          /\ Moves(v, [c EXCEPT !.at = IF c.hits = {} THEN "done" ELSE "record",
                                !.todo = c.hits, !.seen = {}, !.hits = {}])
       \/ \E r \in Present \ c.seen :
             Moves(v, [c EXCEPT !.seen = @ \cup {r},
                                !.hits = @ \cup {x \in {r} : FilterMatches(x, c.filter)}])
    /\ UNCHANGED <<vectorDb, indexed, conns>>

\* _vectors[record_id] raises when the record has no vector.
ReadSimilarity(v) ==
    /\ vcall[v].at = "similarity"
    /\ \E r \in vcall[v].todo :
          Moves(v, IF indexed[r].vector = 0 THEN [vcall[v] EXCEPT !.at = "done", !.raised = TRUE]
                   ELSE [vcall[v] EXCEPT !.hits = @ \cup {r}, !.todo = {}, !.at = "scan"])
    /\ UNCHANGED <<vectorDb, indexed, conns>>
-----------------------------------------------------------------------------
SetConn(k, state) == conns' = [conns EXCEPT !.state[k] = state] /\ UNCHANGED vectorDb
Fault == vectorDb.faults > 0 /\ vectorDb' = [vectorDb EXCEPT !.faults = @ - 1]
FaultOf(k, state) == Fault /\ conns' = [conns EXCEPT !.state[k] = state]
IsLocked(r, v) == \E w \in VectorClient \ {v} : vcall[w].at = "commit" /\ r \in vcall[w].seen

\* Whether the pool has a connection was asked before one is taken: another may
\* have taken it since.  A new one may be refused.
GetConnection(v) ==
    /\ vcall[v].at \in {"pop", "new"}
    /\ LET c == vcall[v]
           Fails == Moves(v, [c EXCEPT !.at = "done", !.raised = TRUE]) IN
       \/ c.at = "pop" /\ conns.pool = <<>> /\ Fails /\ UNCHANGED <<vectorDb, conns>>
       \/ /\ c.at = "pop" /\ conns.pool # <<>>
          /\ LET k == conns.pool[Len(conns.pool)]
                 rest == SubSeq(conns.pool, 1, Len(conns.pool) - 1) IN
             \/ /\ conns' = [conns EXCEPT !.pool = rest] /\ UNCHANGED vectorDb
                /\ Moves(v, [c EXCEPT !.conn = k, !.at = "execute"])
             \/ /\ Fault /\ conns' = [conns EXCEPT !.pool = rest, !.state[k] = "unused"]
                /\ Moves(v, [c EXCEPT !.at = "new"])
       \/ c.at = "new" /\ Fails /\ Fault /\ UNCHANGED conns
       \/ /\ c.at = "new"
          /\ LET k == CHOOSE i \in Conns : conns.state[i] = "unused"
                                           /\ \A j \in 1..i - 1 : conns.state[j] # "unused" IN
             /\ SetConn(k, "clean")
             /\ Moves(v, [c EXCEPT !.conn = k, !.at = "execute"])
    /\ UNCHANGED indexed

\* What a statement writes is seen at the commit.
ExecuteUpsert(v) ==
    /\ vcall[v].at = "execute" /\ vcall[v].does = "upsert"
    /\ SetConn(vcall[v].conn, "dirty")
    /\ \E r \in vcall[v].todo :
          /\ ~IsLocked(r, v)
          /\ Moves(v, [vcall[v] EXCEPT !.seen = {r}, !.at = "commit"])
    /\ UNCHANGED indexed

ExecuteDelete(v) ==
    /\ vcall[v].at = "execute" /\ vcall[v].does \in {"delete", "purge"}
    /\ SetConn(vcall[v].conn, "dirty")
    /\ LET gone == vcall[v].writes \cap Present IN
       /\ \A r \in gone : ~IsLocked(r, v)
       /\ Moves(v, [vcall[v] EXCEPT !.seen = gone, !.at = "commit"])
    /\ UNCHANGED indexed

\* A query opens a transaction too.
ExecuteSearch(v) ==
    /\ vcall[v].at = "execute" /\ vcall[v].does = "search"
    /\ SetConn(vcall[v].conn, "dirty")
    /\ Moves(v, [vcall[v] EXCEPT !.at = "return",
           !.hits = BestHits({r \in Present : FilterMatches(r, vcall[v].filter)})])
    /\ UNCHANGED indexed

\* upsert goes on with its next record.
NextRecord(c, rest) ==
    [c EXCEPT !.todo = rest, !.seen = {},
              !.at = IF c.does = "upsert" /\ rest # {} THEN "execute" ELSE "return"]

CommitRows(v) ==
    /\ vcall[v].at = "commit"
    /\ SetConn(vcall[v].conn, "clean")
    /\ Writes(v, vcall[v].seen, [record |-> Version(vcall[v]), vector |-> Version(vcall[v])],
              NextRecord(vcall[v], vcall[v].todo \ vcall[v].seen))

\* A statement or a commit fails: upsert rolls back and skips the record, as it
\* does one without an embedding, but raises when the connection is lost.
StatementFails(v) ==
    /\ vcall[v].at \in {"execute", "commit"}
    /\ LET c == vcall[v]
           Raises == Moves(v, [c EXCEPT !.seen = {}, !.at = "return", !.raised = TRUE]) IN
       \/ /\ c.does = "upsert"
          /\ \E r \in IF c.at = "commit" THEN c.seen ELSE c.todo :
                /\ FaultOf(c.conn, "clean")
                /\ Moves(v, [NextRecord(c, c.todo \ {r}) EXCEPT !.refused = @ \cup {r}])
       \/ c.does # "upsert" /\ FaultOf(c.conn, "dirty") /\ Raises
       \/ FaultOf(c.conn, "closed") /\ Raises
    /\ UNCHANGED indexed

\* Mutant: what the caller did is not rolled back.
ReturnDirty(v) ==
    /\ vcall[v].at \in {"return", "room"}
    /\ conns' = [conns EXCEPT !.pool = Append(@, vcall[v].conn)]
    /\ Moves(v, [vcall[v] EXCEPT !.at = "done", !.conn = 0])
    /\ UNCHANGED <<vectorDb, indexed>>

\* A connection that is closed is dropped; a transaction is rolled back; and
\* then there is room in the pool, or not.
ReturnConnection(v) ==
    /\ vcall[v].at \in {"return", "room"}
    /\ LET c == vcall[v]
           Done == Moves(v, [c EXCEPT !.at = "done", !.conn = 0]) IN
       \/ c.at = "return" /\ conns.state[c.conn] = "closed" /\ SetConn(c.conn, "unused") /\ Done
       \/ c.at = "return" /\ conns.state[c.conn] = "dirty" /\ FaultOf(c.conn, "unused") /\ Done
       \/ /\ c.at = "return" /\ conns.state[c.conn] # "closed"
          /\ SetConn(c.conn, "clean")
          /\ Moves(v, [c EXCEPT !.at = "room", !.room = Len(conns.pool) < PoolSize])
       \/ /\ c.at = "room" /\ c.room
          /\ conns' = [conns EXCEPT !.pool = Append(@, c.conn)] /\ UNCHANGED vectorDb
          /\ Done
       \/ c.at = "room" /\ ~c.room /\ SetConn(c.conn, "unused") /\ Done
    /\ UNCHANGED indexed
-----------------------------------------------------------------------------
\* ChromaVectorIndex: one call of the collection, and before a query one that
\* counts; an empty collection is not asked.
ChromaCall(v) ==
    /\ vcall[v].at \in {"call", "query"}
    /\ LET c == vcall[v] IN
       \/ /\ Fault /\ UNCHANGED indexed
          /\ Moves(v, [c EXCEPT !.at = "done", !.raised = TRUE])
       \/ /\ c.does = "search" /\ c.at = "call" /\ UNCHANGED <<vectorDb, indexed>>
          /\ Moves(v, [c EXCEPT !.size = Cardinality(Present),
                                !.at = IF Present = {} THEN "done" ELSE "query"])
       \/ /\ c.at = "query" /\ UNCHANGED <<vectorDb, indexed>>
          /\ Moves(v, [c EXCEPT !.at = "done",
                 !.hits = BestHits({r \in Present : FilterMatches(r, c.filter)})])
       \/ /\ c.does \in {"upsert", "delete"} /\ UNCHANGED vectorDb
          /\ Writes(v, c.todo, [record |-> Version(c), vector |-> Version(c)],
                    [c EXCEPT !.todo = {}, !.at = "done"])
    /\ UNCHANGED conns

AnswerVector(v) ==
    /\ vcall[v].at = "done"
    /\ vcall' = [vcall EXCEPT ![v] = NoVector]
    /\ returned' = vcall[v]
    /\ UNCHANGED <<vectorDb, indexed, conns, torn>>

VectorNext ==
    \E v \in VectorClient :
       \/ \E does \in vectorDb.kinds, batch \in Batches \cup {{}},
             filter \in Filters : BeginVectorCall(v, does, batch, filter)
       \/ WriteRecord(v) \/ WriteVector(v) \/ ScanBreaks(v) \/ ScanRecords(v)
       \/ ScanDoomed(v) \/ ReadSimilarity(v)
       \/ GetConnection(v) \/ ExecuteUpsert(v)
       \/ ExecuteDelete(v) \/ ExecuteSearch(v) \/ CommitRows(v) \/ StatementFails(v)
       \/ ReturnConnection(v) \/ ChromaCall(v) \/ AnswerVector(v)

VectorSpec == VectorInit /\ [][VectorNext]_vectorVars
-----------------------------------------------------------------------------
VectorTypeOK ==
    /\ vectorDb.calls <= MaxVectorCalls
    /\ indexed \in [RecordId -> [record : Versions, vector : Versions]]
    /\ conns.pool \in Seq(Conns)
    /\ conns.state \in [Conns -> {"unused", "clean", "dirty", "closed"}]
    /\ \A v \in VectorClient :
          /\ vcall[v].conn \in {0} \cup Conns
          /\ UNION {vcall[v].todo, vcall[v].seen, vcall[v].hits, vcall[v].moved} \subseteq RecordId
    /\ torn \subseteq RecordId

\* A record that is there without its vector.
Torn(r) == indexed[r].record > 0 /\ indexed[r].vector = 0

(***************************************************************************)
(* A connection has one thread or lies in the pool, where it is once, with *)
(* no transaction open, and the pool outgrows its size by no more than the *)
(* other threads.  A call that returned did what it says to each record    *)
(* nobody else wrote meanwhile: indexed it with the vector of the same      *)
(* call, unless openGauss refused it, deleted it, or had it among the best *)
(* hits.  In memory a search or purge raises only when something moved or  *)
(* two writers had torn a record.  (in_memory_index.py:37-66, 126-133;     *)
(* opengauss_index.py:164-241)                                             *)
(***************************************************************************)
ConnectionsApart ==
    /\ \A i, j \in 1..Len(conns.pool) : i # j => conns.pool[i] # conns.pool[j]
    /\ \A i \in 1..Len(conns.pool) :
          /\ conns.state[conns.pool[i]] = "clean"
          /\ \A v \in VectorClient : vcall[v].conn # conns.pool[i]
    /\ \A v, w \in VectorClient : v # w /\ vcall[v].conn = vcall[w].conn => vcall[v].conn = 0
    /\ Len(conns.pool) < PoolSize + Cardinality(VectorClient)

CallsDoAsTheySay ==
    returned.nth > 0 =>
        IF returned.raised
        THEN vectorDb.db = "memory" => returned.moved # {} \/ \E r \in torn : Torn(r)
        ELSE \A r \in RecordId \ returned.moved :
                /\ returned.does = "upsert" /\ r \in returned.writes \ returned.refused =>
                       indexed[r] = [record |-> returned.nth, vector |-> returned.nth]
                /\ returned.does \in {"delete", "purge"} /\ r \in returned.writes =>
                       r \notin Present
                /\ returned.does = "search" =>
                       LET better == {h \in returned.hits : Facts[h].score >= Facts[r].score}
                           fits == r \in Present /\ FilterMatches(r, returned.filter) IN
                       IF r \in returned.hits THEN fits ELSE fits => Cardinality(better) >= VectorTopK

IndexSound == ConnectionsApart /\ CallsDoAsTheySay
=============================================================================
