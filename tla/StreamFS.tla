------------------------------ MODULE StreamFS ------------------------------
(***************************************************************************)
(* streamfs, the plugin of the AGFS server that broadcasts what writers    *)
(* append to a stream: every reader has a buffered channel, a reader that  *)
(* comes late is sent the ring buffer by a goroutine of its own, and a     *)
(* full channel loses chunks.  One path, whose stream is made anew after   *)
(* it was removed.  Sources:                                               *)
(*   src/agfs/pkg/plugins/streamfs/streamfs.go,                            *)
(*   src/agfs/pkg/handlers/handlers.go (streamFile)                        *)
(*                                                                         *)
(* A stream is a number, and so is a chunk in it.  One step is the code    *)
(* under one lock, or one send to a channel, which needs none.  A send to  *)
(* a closed channel panics: net/http ends the request, but a goroutine of  *)
(* its own ends the server.                                                *)
(***************************************************************************)
EXTENDS Naturals, Sequences

CONSTANTS
    StreamReader,    \* readers, each of which opens the stream once
    StreamWriter,    \* requests that write
    RingSize,        \* chunks in the ring buffer
    ChannelBuffer,   \* chunks in a channel
    StreamBudgets    \* bounds: streams made, chunks of each

ASSUME StreamAssumption ==
    /\ RingSize \in Nat \ {0} /\ ChannelBuffer \in Nat \ {0}
    /\ StreamBudgets \subseteq [streams : Nat, chunks : Nat]

VARIABLES
    made,        \* streams made
    current,     \* the stream at the path, 0 if there is none
    closed,      \* streams that are closed
    total,       \* [stream -> totalChunks]
    listener,    \* [StreamReader -> its state; got: what it has read while registered]
    lostTo,      \* [StreamReader -> chunks it missed while registered: its channel was
                 \* full, or their writer panicked]
    fanout,      \* [StreamWriter -> its write]
    down,        \* a panic has ended the server
    granted      \* the bounds

streamVars == <<made, current, closed, total, listener, lostTo, fanout, down,
                granted>>

Stream == 1..granted.streams
Chunk == 0..(granted.chunks - 1)

\* open: in sf.readers, the channel not closed.
NoListener == [at |-> "none", stream |-> 0, open |-> FALSE, since |-> 0, next |-> 0,
               history |-> "none", channel |-> <<>>, got |-> {}]
NoWrite == [at |-> "idle", stream |-> 0, chunk |-> 0, to |-> {}]

StreamInit ==
    /\ granted \in StreamBudgets
    /\ made = 0 /\ current = 0 /\ closed = {} /\ total = [g \in Stream |-> 0]
    /\ listener = [r \in StreamReader |-> NoListener]
    /\ lostTo = [r \in StreamReader |-> {}]
    /\ fanout = [w \in StreamWriter |-> NoWrite]
    /\ down = FALSE

Oldest(g) == IF total[g] > RingSize THEN total[g] - RingSize ELSE 0

\* sendHistoricalData holds the read lock, which the others need to write.
Locked(g) == \E r \in StreamReader : listener[r].stream = g /\ listener[r].history = "sending"
-----------------------------------------------------------------------------

\* The stream at the path, made if there is none.
Lookup(g) ==
    IF current # 0 THEN g = current /\ UNCHANGED <<made, current>>
    ELSE /\ made < granted.streams /\ g = made + 1
         /\ made' = g /\ current' = g

CreateStream ==
    /\ ~down /\ current = 0
    /\ \E g \in Stream : Lookup(g)
    /\ UNCHANGED <<closed, total, listener, lostTo, fanout, down, granted>>

\* Close: every channel of the stream is closed.
CloseChannels(g) ==
    /\ listener' = [r \in StreamReader |->
         IF listener[r].stream = g THEN [listener[r] EXCEPT !.open = FALSE, !.got = {}]
         ELSE listener[r]]
    /\ lostTo' = [r \in StreamReader |-> IF listener[r].stream = g THEN {} ELSE lostTo[r]]

RemoveStream ==
    /\ ~down /\ current # 0 /\ ~Locked(current)
    /\ closed' = closed \cup {current} /\ current' = 0
    /\ CloseChannels(current)
    /\ UNCHANGED <<made, total, fanout, down, granted>>

OpenStream(r) ==
    /\ ~down /\ listener[r].at = "none"
    /\ \E g \in Stream :
         /\ Lookup(g)
         /\ listener' = [listener EXCEPT ![r].at = "opening", ![r].stream = g]
    /\ UNCHANGED <<closed, total, lostTo, fanout, down, granted>>

\* RegisterReader, on whatever was made of the stream since.
RegisterReader(r) ==
    LET g == listener[r].stream IN
    /\ ~down /\ listener[r].at = "opening" /\ ~Locked(g)
    /\ listener' = [listener EXCEPT ![r].at = "reading", ![r].open = TRUE, ![r].since = total[g],
                                    ![r].next = Oldest(g), ![r].history = "due"]
    /\ UNCHANGED <<made, current, closed, total, lostTo, fanout, down, granted>>

\* The goroutine starts: from what is the oldest chunk by now.
StartHistory(r) ==
    LET g == listener[r].stream IN
    /\ ~down /\ listener[r].history = "due"
    /\ listener' = [listener EXCEPT
         ![r].history = IF listener[r].next < total[g] THEN "sending" ELSE "done",
         ![r].next = Oldest(g)]
    /\ UNCHANGED <<made, current, closed, total, lostTo, fanout, down, granted>>

SendHistory(r) ==
    LET l == listener[r] IN
    /\ ~down /\ l.history = "sending"
    /\ IF ~l.open THEN down' = TRUE /\ UNCHANGED listener
       ELSE /\ UNCHANGED down
            /\ listener' = [listener EXCEPT ![r] =
                 IF l.next = total[l.stream] \/ Len(l.channel) = ChannelBuffer
                 THEN [l EXCEPT !.history = "done"]
                 ELSE [l EXCEPT !.channel = Append(@, l.next), !.next = @ + 1]]
    /\ UNCHANGED <<made, current, closed, total, lostTo, fanout, granted>>

\* UnregisterReader, when the client has gone or the stream has ended.
UnregisterReader(r) ==
    /\ ~down /\ listener[r].at = "reading" /\ ~Locked(listener[r].stream)
    /\ listener' = [listener EXCEPT ![r].at = "closed", ![r].open = FALSE, ![r].got = {},
                                    ![r].channel = <<>>]
    /\ lostTo' = [lostTo EXCEPT ![r] = {}]
    /\ UNCHANGED <<made, current, closed, total, fanout, down, granted>>

\* ReadChunk: what is buffered comes also from a closed channel.
ReadOne(r) ==
    /\ ~down /\ listener[r].at = "reading" /\ listener[r].channel # <<>>
    /\ listener' = [listener EXCEPT
         ![r].got = IF listener[r].open THEN @ \cup {Head(listener[r].channel)} ELSE @,
         ![r].channel = Tail(@)]
    /\ UNCHANGED <<made, current, closed, total, lostTo, fanout, down, granted>>

\* Write of StreamFS: the stream is looked up, and appended to under its lock.
FindStream(w) ==
    /\ ~down /\ fanout[w].at = "idle"
    /\ \E g \in Stream :
         /\ Lookup(g)
         /\ fanout' = [fanout EXCEPT ![w].at = "write", ![w].stream = g]
    /\ UNCHANGED <<closed, total, listener, lostTo, down, granted>>

AppendChunk(w) ==
    LET g == fanout[w].stream
        to == {r \in StreamReader : listener[r].stream = g /\ listener[r].open} IN
    /\ ~down /\ fanout[w].at = "write" /\ ~Locked(g)
    /\ IF g \in closed THEN fanout' = [fanout EXCEPT ![w] = NoWrite] /\ UNCHANGED total
       ELSE /\ total[g] < granted.chunks
            /\ total' = [total EXCEPT ![g] = @ + 1]
            /\ fanout' = [fanout EXCEPT ![w] =
                 IF to = {} THEN NoWrite
                 ELSE [at |-> "send", stream |-> g, chunk |-> total[g], to |-> to]]
    /\ UNCHANGED <<made, current, closed, listener, lostTo, down, granted>>

\* Mutant: the fan-out ends at the first full channel.
AfterFull(w, r) == NoWrite

\* A full channel loses the chunk; the fan-out goes on.
AfterSend(w, r) ==
    IF fanout[w].to = {r} THEN NoWrite ELSE [fanout[w] EXCEPT !.to = @ \ {r}]

SendChunk(w, r) ==
    LET l == listener[r] IN
    /\ ~down /\ fanout[w].at = "send" /\ r \in fanout[w].to /\ l.open
    /\ IF Len(l.channel) < ChannelBuffer
       THEN listener' = [listener EXCEPT ![r].channel = Append(@, fanout[w].chunk)] /\ UNCHANGED lostTo
       ELSE lostTo' = [lostTo EXCEPT ![r] = @ \cup {fanout[w].chunk}] /\ UNCHANGED listener
    /\ fanout' = [fanout EXCEPT ![w] = AfterSend(w, r)]
    /\ UNCHANGED <<made, current, closed, total, down, granted>>

\* A channel of the snapshot was closed meanwhile: the request panics.
PanicInWrite(w, r) ==
    /\ ~down /\ fanout[w].at = "send" /\ r \in fanout[w].to /\ ~listener[r].open
    /\ lostTo' = [q \in StreamReader |->
         IF q \in fanout[w].to /\ listener[q].open THEN lostTo[q] \cup {fanout[w].chunk} ELSE lostTo[q]]
    /\ fanout' = [fanout EXCEPT ![w] = NoWrite]
    /\ UNCHANGED <<made, current, closed, total, listener, down, granted>>

StreamNext ==
    \/ CreateStream \/ RemoveStream
    \/ \E r \in StreamReader :
         \/ OpenStream(r) \/ RegisterReader(r) \/ StartHistory(r) \/ SendHistory(r)
         \/ UnregisterReader(r) \/ ReadOne(r)
    \/ \E w \in StreamWriter :
         \/ FindStream(w) \/ AppendChunk(w)
         \/ \E r \in StreamReader : SendChunk(w, r) \/ PanicInWrite(w, r)

StreamSpec == StreamInit /\ [][StreamNext]_streamVars
-----------------------------------------------------------------------------

StreamTypeOK ==
    /\ made \in 0..granted.streams /\ current \in 0..made /\ closed \subseteq Stream
    /\ total \in [Stream -> 0..granted.chunks]
    /\ listener \in [StreamReader ->
         [at : {"none", "opening", "reading", "closed"}, stream : 0..granted.streams,
          open : BOOLEAN, since : 0..granted.chunks, next : 0..granted.chunks,
          history : {"none", "due", "sending", "done"}, channel : Seq(Chunk),
          got : SUBSET Chunk]]
    /\ lostTo \in [StreamReader -> SUBSET Chunk]
    /\ fanout \in [StreamWriter ->
         [at : {"idle", "write", "send"}, stream : 0..granted.streams, chunk : 0..granted.chunks,
          to : SUBSET StreamReader]]
    /\ down \in BOOLEAN /\ granted \in StreamBudgets

Holds(r, c) == \E i \in DOMAIN listener[r].channel : listener[r].channel[i] = c

(***************************************************************************)
(* Broadcast: while a reader is registered, every chunk written since is   *)
(* with it, in its channel, about to be sent to it, or known to be dropped *)
(* for it, whichever writers, readers and goroutines overlap; a channel is *)
(* never filled beyond its size. (streamfs.go:207-273)                     *)
(***************************************************************************)
BroadcastComplete ==
    \A r \in StreamReader : listener[r].open =>
        /\ Len(listener[r].channel) <= ChannelBuffer
        /\ \A c \in Chunk :
             listener[r].since <= c /\ c < total[listener[r].stream] =>
                \/ c \in listener[r].got \/ c \in lostTo[r] \/ Holds(r, c)
                \/ \E w \in StreamWriter :
                     fanout[w].at = "send" /\ fanout[w].chunk = c /\ r \in fanout[w].to
                     /\ fanout[w].stream = listener[r].stream
=============================================================================
