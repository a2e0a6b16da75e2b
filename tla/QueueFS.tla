------------------------------ MODULE QueueFS ------------------------------
(***************************************************************************)
(* queuefs, the plugin of the AGFS server that offers message queues as    *)
(* files: the control files of a queue (enqueue, dequeue, peek, clear,     *)
(* ack), handles on them, and three stores: the memory of the server, an   *)
(* SQLite file, and a TiDB that servers share.  Source:                    *)
(*   src/agfs/pkg/plugins/queuefs/ (queuefs.go, backend.go,                *)
(*   sqlite_backend.go, db_backend.go)                                     *)
(*                                                                         *)
(* A server does one operation at a time (the plugin's mutex).  What takes *)
(* several statements of a database is several steps here, between which   *)
(* another server works or this one fails.  Listings, and dequeue          *)
(* statements that fail, change nothing and are left out; so is removing   *)
(* all queues at once.                                                     *)
(***************************************************************************)
EXTENDS Naturals, Sequences, FiniteSets

CONSTANTS
    Queue,          \* names of queues
    Below,          \* <<q, n>>: n lies in the directory of q
    TableName,      \* [Queue -> the queue with whose name the table is called]
    QueueServer,    \* servers
    QueueHandle,    \* handles on a dequeue file
    QueueBackends,  \* backends to try
    MaxQueued,      \* bound on the messages
    MaxRequests,    \* bound on the requests of clients
    MaxStops        \* bound on the stops of servers

ASSUME QueueAssumption ==
    /\ Below \subseteq Queue \X Queue /\ TableName \in [Queue -> Queue]
    /\ QueueBackends \subseteq {"memory", "sqlite", "tidb"}
    /\ MaxQueued \in Nat /\ MaxRequests \in Nat /\ MaxStops \in Nat

VARIABLES
    backend,       \* the backend of the plugin
    rows,          \* [Queue -> messages in the order of their rows]
    registered,    \* queues in b.queues, queue_metadata or queuefs_registry
    tables,        \* tables of TiDB
    tableCache,    \* [QueueServer -> queues in its tableCache]
    removal,       \* [QueueServer -> its RemoveQueue that is under way]
    queueHandle,   \* [QueueHandle -> server, queue, whether it was read]
    enqueued,      \* messages so far
    handed,        \* [message -> times it was handed out]
    finished,      \* messages acknowledged, cleared or removed with a queue
    requests,      \* requests so far
    stops          \* stops so far

queueVars == <<backend, rows, registered, tables, tableCache, removal, queueHandle,
               enqueued, handed, finished, requests, stops>>

Message == 1..MaxQueued
Row(status) == [id : Message, status : status]
NoRemoval == [at |-> "none", queue |-> "", drop |-> {}]
NoQueueHandle == [server |-> "", queue |-> "", read |-> FALSE]

\* Only a TiDB is shared; another backend has one server.
Serving == IF backend = "tidb" THEN QueueServer ELSE {CHOOSE s \in QueueServer : TRUE}

UnderQueue(q) == {n \in Queue : n = q \/ <<q, n>> \in Below}
Ids(messages) == {messages[i].id : i \in DOMAIN messages}

\* A server that is free takes a request.
Serves(s) ==
    /\ s \in Serving /\ removal[s].at = "none"
    /\ requests < MaxRequests /\ requests' = requests + 1

QueueInit ==
    /\ backend \in QueueBackends
    /\ rows = [q \in Queue |-> <<>>]
    /\ registered = {} /\ tables = {} /\ tableCache = [s \in QueueServer |-> {}]
    /\ removal = [s \in QueueServer |-> NoRemoval]
    /\ queueHandle = [h \in QueueHandle |-> NoQueueHandle]
    /\ enqueued = 0 /\ handed = [m \in Message |-> 0] /\ finished = {}
    /\ requests = 0 /\ stops = 0
-----------------------------------------------------------------------------

\* getTableName: the cache is asked first and is not refreshed.
Known(s, q) == q \in tableCache[s] \/ q \in registered

Cache(s, q) == tableCache' = [tableCache EXCEPT ![s] = @ \cup {q}]

\* Where the rows of a queue are.
Place(q) == IF backend = "tidb" THEN TableName[q] ELSE q

\* Mkdir with the memory or SQLite.
MakeQueue(s, q) ==
    /\ Serves(s) /\ backend # "tidb"
    /\ registered' = registered \cup {q}
    /\ UNCHANGED <<backend, rows, tables, tableCache, removal, queueHandle, enqueued,
                   handed, finished, stops>>

\* Mkdir with TiDB: CREATE TABLE IF NOT EXISTS, after which the server may
\* fail, then INSERT IGNORE into the registry, and the cache.
MakeTable(s, q) ==
    /\ Serves(s) /\ backend = "tidb"
    /\ tables' = tables \cup {TableName[q]}
    /\ \/ registered' = registered \cup {q} /\ Cache(s, q)
       \/ UNCHANGED <<registered, tableCache>>
    /\ UNCHANGED <<backend, rows, removal, queueHandle, enqueued, handed, finished, stops>>

Pushed(q) == rows' = [rows EXCEPT ![Place(q)] =
                        Append(@, [id |-> enqueued + 1, status |-> "pending"])]

\* A write to enqueue: memory makes the queue, SQLite does not ask for it.
Enqueue(s, q) ==
    /\ Serves(s) /\ backend # "tidb" /\ enqueued < MaxQueued
    /\ Pushed(q) /\ enqueued' = enqueued + 1
    /\ registered' = IF backend = "memory" THEN registered \cup {q} ELSE registered
    /\ UNCHANGED <<backend, tables, tableCache, removal, queueHandle, handed, finished, stops>>

\* TiDB: the queue must be known, and its table still be there.
EnqueueRow(s, q) ==
    /\ Serves(s) /\ backend = "tidb" /\ enqueued < MaxQueued /\ Known(s, q)
    /\ Cache(s, q)
    /\ IF TableName[q] \in tables THEN Pushed(q) /\ enqueued' = enqueued + 1
       ELSE UNCHANGED <<rows, enqueued>>
    /\ UNCHANGED <<backend, registered, tables, removal, queueHandle, handed, finished, stops>>

\* The first message that no one has.
IsNext(messages, i) ==
    /\ i \in DOMAIN messages /\ messages[i].status = "pending"
    /\ \A j \in 1..(i - 1) : messages[j].status # "pending"

\* Memory cuts the message out of its slice.
Removed(messages, i) == SubSeq(messages, 1, i - 1) \o SubSeq(messages, i + 1, Len(messages))

\* SQLite keeps the row until it is acknowledged.
Processing(messages, i) == [messages EXCEPT ![i].status = "processing"]

\* TiDB marks the row, which no statement selects again.
MarkedDeleted(messages, i) == Removed(messages, i)

\* Mutant: SQLite deletes what it hands out.
TakenForGood(messages, i) == Removed(messages, i)

Taken(messages, i) ==
    CASE backend = "memory" -> Removed(messages, i)
      [] backend = "sqlite" -> Processing(messages, i)
      [] backend = "tidb"   -> MarkedDeleted(messages, i)

\* dequeue: "{}" when there is none.
Dequeue(s, q) ==
    /\ Serves(s)
    /\ IF backend = "tidb" /\ Known(s, q) THEN Cache(s, q) ELSE UNCHANGED tableCache
    /\ LET messages == rows[Place(q)]
           some == /\ backend = "tidb" => Known(s, q)
                   /\ \E i \in DOMAIN messages : messages[i].status = "pending" IN
       IF some
       THEN \E i \in DOMAIN messages :
              /\ IsNext(messages, i)
              /\ rows' = [rows EXCEPT ![Place(q)] = Taken(messages, i)]
              /\ handed' = [handed EXCEPT ![messages[i].id] = @ + 1]
       ELSE UNCHANGED <<rows, handed>>

\* A read of the file itself takes a message each time, at any offset.
ReadDequeue(s, q) ==
    /\ Dequeue(s, q)
    /\ UNCHANGED <<backend, registered, tables, removal, queueHandle, enqueued, finished, stops>>

\* peek, size, the directory and stat look the table up.
LookAt(s, q) ==
    /\ Serves(s) /\ backend = "tidb" /\ Known(s, q)
    /\ Cache(s, q)
    /\ UNCHANGED <<backend, rows, registered, tables, removal, queueHandle, enqueued, handed,
                   finished, stops>>

\* A write to ack; only SQLite has anything to do.
AckMessage(s, q, m) ==
    /\ Serves(s) /\ backend = "sqlite" /\ handed[m] > 0
    /\ \E i \in DOMAIN rows[q] :
         /\ rows[q][i] = [id |-> m, status |-> "processing"]
         /\ rows' = [rows EXCEPT ![q] = Removed(@, i)]
    /\ finished' = finished \cup {m}
    /\ UNCHANGED <<backend, registered, tables, tableCache, removal, queueHandle, enqueued,
                   handed, stops>>

\* A write to clear, of the messages in processing too.
ClearQueue(s, q) ==
    /\ Serves(s)
    /\ backend = "tidb" => Known(s, q)
    /\ IF backend = "tidb" THEN Cache(s, q) ELSE UNCHANGED tableCache
    /\ finished' = finished \cup Ids(rows[Place(q)])
    /\ rows' = [rows EXCEPT ![Place(q)] = <<>>]
    /\ UNCHANGED <<backend, registered, tables, removal, queueHandle, enqueued, handed, stops>>

DropRows(places) ==
    /\ rows' = [q \in Queue |-> IF q \in places THEN <<>> ELSE rows[q]]
    /\ finished' = finished \cup UNION {Ids(rows[q]) : q \in places}

\* RemoveAll in memory is one step.
RemoveQueue(s, q) ==
    /\ Serves(s) /\ backend = "memory"
    /\ DropRows(UnderQueue(q)) /\ registered' = registered \ UnderQueue(q)
    /\ UNCHANGED <<backend, tables, tableCache, removal, queueHandle, enqueued, handed, stops>>

\* SQLite deletes the messages, then the names.
RemoveMessages(s, q) ==
    /\ Serves(s) /\ backend = "sqlite"
    /\ DropRows(UnderQueue(q))
    /\ removal' = [removal EXCEPT ![s] = [at |-> "registry", queue |-> q, drop |-> {}]]
    /\ UNCHANGED <<backend, registered, tables, tableCache, queueHandle, enqueued, handed, stops>>

\* TiDB: the queues to drop are read from the registry first.
ListTables(s, q) ==
    /\ Serves(s) /\ backend = "tidb"
    /\ removal' = [removal EXCEPT ![s] =
         [at |-> "drop", queue |-> q, drop |-> UnderQueue(q) \cap registered]]
    /\ UNCHANGED <<backend, rows, registered, tables, tableCache, queueHandle, enqueued,
                   handed, finished, stops>>

\* A table that cannot be dropped is passed over.
DropTable(s, n) ==
    /\ removal[s].at = "drop" /\ n \in removal[s].drop
    /\ \/ DropRows({TableName[n]}) /\ tables' = tables \ {TableName[n]}
       \/ UNCHANGED <<rows, tables, finished>>
    /\ tableCache' = [tableCache EXCEPT ![s] = @ \ {n}]
    /\ removal' = [removal EXCEPT ![s].drop = @ \ {n}]
    /\ UNCHANGED <<backend, requests, registered, queueHandle, enqueued, handed, stops>>

\* The names go last, whatever was made of them meanwhile; or this fails.
RemoveNames(s) ==
    /\ removal[s].at # "none" /\ removal[s].drop = {}
    /\ \/ registered' = registered \ UnderQueue(removal[s].queue)
       \/ UNCHANGED registered
    /\ removal' = [removal EXCEPT ![s] = NoRemoval]
    /\ UNCHANGED <<backend, requests, rows, tables, tableCache, queueHandle, enqueued, handed, finished,
                   stops>>
-----------------------------------------------------------------------------

OpenQueue(h, s, q) ==
    /\ s \in Serving /\ queueHandle[h] = NoQueueHandle
    /\ requests < MaxRequests /\ requests' = requests + 1
    /\ queueHandle' = [queueHandle EXCEPT ![h] = [server |-> s, queue |-> q, read |-> FALSE]]
    /\ UNCHANGED <<backend, rows, registered, tables, tableCache, removal, enqueued, handed,
                   finished, stops>>

\* ReadAt: the first read takes the message, later ones return pieces of it;
\* a read that fails (the table was dropped by another server) is tried again.
ReadHandle(h) ==
    LET q == queueHandle[h].queue
        fails == backend = "tidb" /\ Known(queueHandle[h].server, q) /\ Place(q) \notin tables IN
    /\ queueHandle[h] # NoQueueHandle /\ ~queueHandle[h].read
    /\ Dequeue(queueHandle[h].server, q)
    /\ queueHandle' = [queueHandle EXCEPT ![h].read = ~fails]
    /\ UNCHANGED <<backend, registered, tables, removal, enqueued, finished, stops>>

CloseQueue(h) ==
    /\ queueHandle[h] # NoQueueHandle
    /\ queueHandle' = [queueHandle EXCEPT ![h] = NoQueueHandle]
    /\ UNCHANGED <<backend, requests, rows, registered, tables, tableCache, removal, enqueued, handed,
                   finished, stops>>

\* RecoverStale(0) when the plugin is initialized.
Recovered(messages) == [i \in DOMAIN messages |-> [messages[i] EXCEPT !.status = "pending"]]

\* A server stops, in the middle of a removal too, and starts again.
RestartServer(s) ==
    /\ s \in Serving /\ stops < MaxStops
    /\ stops' = stops + 1
    /\ tableCache' = [tableCache EXCEPT ![s] = {}]
    /\ removal' = [removal EXCEPT ![s] = NoRemoval]
    /\ queueHandle' = [h \in QueueHandle |->
         IF queueHandle[h].server = s THEN NoQueueHandle ELSE queueHandle[h]]
    /\ CASE backend = "memory" -> DropRows(Queue) /\ registered' = {}
         [] backend = "sqlite" -> /\ rows' = [q \in Queue |-> Recovered(rows[q])]
                                  /\ UNCHANGED <<registered, finished>>
         [] backend = "tidb" -> UNCHANGED <<rows, registered, finished>>
    /\ UNCHANGED <<backend, requests, tables, enqueued, handed>>

\* Control files by their name.
ReadControlFile(s, q) == ReadDequeue(s, q) \/ LookAt(s, q)
WriteControlFile(s, q) ==
    \/ Enqueue(s, q) \/ EnqueueRow(s, q) \/ ClearQueue(s, q)
    \/ \E m \in Message : AckMessage(s, q, m)

QueueNext ==
    \/ \E s \in QueueServer, q \in Queue :
         \/ ReadControlFile(s, q) \/ WriteControlFile(s, q)
         \/ MakeQueue(s, q) \/ MakeTable(s, q)
         \/ RemoveQueue(s, q) \/ RemoveMessages(s, q) \/ ListTables(s, q) \/ DropTable(s, q)
         \/ \E h \in QueueHandle : OpenQueue(h, s, q)
    \/ \E s \in QueueServer : RemoveNames(s) \/ RestartServer(s)
    \/ \E h \in QueueHandle : ReadHandle(h) \/ CloseQueue(h)

QueueSpec == QueueInit /\ [][QueueNext]_queueVars
-----------------------------------------------------------------------------

QueueTypeOK ==
    /\ backend \in QueueBackends
    /\ rows \in [Queue -> Seq(Row({"pending", "processing"}))]
    /\ registered \subseteq Queue /\ tables \subseteq Queue
    /\ tableCache \in [QueueServer -> SUBSET Queue]
    /\ removal \in [QueueServer ->
         {NoRemoval} \cup [at : {"drop", "registry"}, queue : Queue, drop : SUBSET Queue]]
    /\ queueHandle \in [QueueHandle ->
         {NoQueueHandle} \cup [server : QueueServer, queue : Queue, read : BOOLEAN]]
    /\ enqueued \in 0..MaxQueued /\ requests \in 0..MaxRequests /\ handed \in [Message -> Nat]
    /\ finished \subseteq Message /\ stops \in 0..MaxStops

(***************************************************************************)
(* Delivery: a message that was accepted is in its queue until it has been *)
(* handed out and, with SQLite, acknowledged, unless it was cleared or     *)
(* removed, with a queue whose table has the same name too, or was in the  *)
(* memory of a server that stopped; and no message is handed out twice,    *)
(* but with SQLite once more after each restart, however handles, servers  *)
(* and removals overlap.  (sqlite_backend.go:19, 117-189; backend.go:118,  *)
(* 377; queuefs.go:1135)                                                   *)
(***************************************************************************)
MessagesDelivered ==
    \A m \in 1..enqueued :
        /\ \/ \E q \in Queue : m \in Ids(rows[q])
           \/ m \in finished
           \/ backend # "sqlite" /\ handed[m] > 0
        /\ handed[m] <= 1 + (IF backend = "sqlite" THEN stops ELSE 0)
=============================================================================
