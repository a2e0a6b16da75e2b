---------------------------- MODULE Agfs_proofs -----------------------------
(***************************************************************************)
(* Theorems of two plugins of the AGFS server: StreamFS, for any readers   *)
(* and writers and any size of the history and the channels; QueueFS, for  *)
(* any queues and clients and any number of messages, failures and         *)
(* restarts.                                                               *)
(***************************************************************************)
EXTENDS StreamFS, QueueFS, SequenceTheorems, TLAPS

(***************************************************************************)
(* Streams: what a reader has, will get or has lost.                       *)
(***************************************************************************)
ChunksOf(b) == 0..(b.chunks - 1)
Listeners(b) ==
    [at : {"none", "opening", "reading", "closed"}, stream : 0..b.streams,
     open : BOOLEAN, since : 0..b.chunks, next : 0..b.chunks,
     history : {"none", "due", "sending", "done"}, channel : Seq(ChunksOf(b)),
     got : SUBSET ChunksOf(b)]
Fanouts(b) ==
    [at : {"idle", "write", "send"}, stream : 0..b.streams, chunk : 0..b.chunks,
     to : SUBSET StreamReader]

\* A writer still has chunk c to send to r.
Coming(r, c) ==
    \E w \in StreamWriter :
        fanout[w].at = "send" /\ fanout[w].chunk = c /\ r \in fanout[w].to
        /\ fanout[w].stream = listener[r].stream

Reached(r, c) == c \in listener[r].got \/ c \in lostTo[r] \/ Holds(r, c) \/ Coming(r, c)

(***************************************************************************)
(* A reader that is registered has opened a stream; what the goroutine of  *)
(* its history sends next is in the stream, or its end.                    *)
(***************************************************************************)
ReaderSound(r) ==
    /\ listener[r] \in Listeners(granted) /\ lostTo[r] \subseteq ChunksOf(granted)
    /\ Len(listener[r].channel) <= ChannelBuffer
    /\ listener[r].at # "none" => listener[r].stream # 0
    /\ listener[r].open => listener[r].at = "reading"
    /\ listener[r].history # "none" => listener[r].at # "none"
    /\ listener[r].history = "sending" => listener[r].next <= total[listener[r].stream]
    /\ listener[r].open =>
          \A c \in ChunksOf(granted) :
              listener[r].since <= c /\ c < total[listener[r].stream] => Reached(r, c)

WriterSound(w) ==
    /\ fanout[w] \in Fanouts(granted)
    /\ fanout[w].at # "idle" => fanout[w].stream # 0
    /\ fanout[w].at = "send" => fanout[w].chunk \in ChunksOf(granted)

PathTypes ==
    /\ granted \in StreamBudgets
    /\ made \in 0..granted.streams /\ current \in 0..made /\ closed \subseteq Stream
    /\ total \in [Stream -> 0..granted.chunks] /\ down \in BOOLEAN
    /\ listener = [r \in StreamReader |-> listener[r]] /\ lostTo = [r \in StreamReader |-> lostTo[r]]
    /\ fanout = [w \in StreamWriter |-> fanout[w]]

StreamInv ==
    /\ PathTypes
    /\ \A r \in StreamReader : ReaderSound(r)
    /\ \A w \in StreamWriter : WriterSound(w)

LEMMA StreamConstants ==
  /\ RingSize \in Nat \ {0} /\ ChannelBuffer \in Nat \ {0}
  /\ \A b \in StreamBudgets : b.streams \in Nat /\ b.chunks \in Nat
<1>1. StreamBudgets \subseteq [streams : Nat, chunks : Nat]
  BY StreamAssumption
<1> QED BY <1>1, StreamAssumption

LEMMA GrantTyped ==
  ASSUME StreamInv
  PROVE  granted.streams \in Nat /\ granted.chunks \in Nat
  BY StreamConstants DEF StreamInv, PathTypes

\* A reader that no step touches keeps what it has.
LEMMA ReaderStays ==
  ASSUME StreamInv, NEW r \in StreamReader, listener'[r] = listener[r], UNCHANGED granted,
         lostTo[r] \subseteq lostTo'[r], lostTo'[r] \subseteq ChunksOf(granted),
         total'[listener[r].stream] = total[listener[r].stream],
         \A c \in ChunksOf(granted) : Coming(r, c) => Reached(r, c)'
  PROVE  ReaderSound(r)'
<1>1. ReaderSound(r)
  BY DEF StreamInv
<1>2. \A c \in ChunksOf(granted) : Reached(r, c) => Reached(r, c)'
  <2> TAKE c \in ChunksOf(granted)
  <2>1. c \in listener[r].got \/ c \in lostTo[r] \/ Holds(r, c) => Reached(r, c)'
    BY DEF Reached, Holds
  <2> QED BY <2>1 DEF Reached
<1> HIDE DEF Reached
<1> QED BY <1>1, <1>2 DEF ReaderSound

LEMMA WriterStays ==
  ASSUME StreamInv, NEW w \in StreamWriter, fanout'[w] = fanout[w], UNCHANGED granted
  PROVE  WriterSound(w)'
  BY DEF StreamInv, WriterSound

\* One reader moves, and nobody else.
LEMMA ReaderMoves ==
  ASSUME StreamInv, NEW r \in StreamReader, NEW rec \in Listeners(granted),
         listener' = [listener EXCEPT ![r] = rec],
         UNCHANGED <<closed, total, fanout, granted>>,
         made' \in 0..granted.streams, current' \in 0..made', down' \in BOOLEAN,
         lostTo' = [q \in StreamReader |-> lostTo'[q]], \A q \in StreamReader \ {r} : lostTo'[q] = lostTo[q],
         ReaderSound(r)'
  PROVE  StreamInv'
<1>1. listener'[r] = rec /\ \A q \in StreamReader \ {r} : listener'[q] = listener[q]
  BY DEF StreamInv, PathTypes
<1>2. listener' = [q \in StreamReader |-> listener'[q]]
  BY DEF StreamInv, PathTypes
<1>3. ASSUME NEW q \in StreamReader PROVE ReaderSound(q)'
  <2>1. CASE q = r
    BY <2>1
  <2>2. CASE q # r
    <3>1. \A c \in ChunksOf(granted) : Coming(q, c) => Reached(q, c)'
      BY <1>1, <2>2 DEF Coming, Reached
    <3>2. lostTo[q] \subseteq ChunksOf(granted)
      BY DEF StreamInv, ReaderSound
    <3> QED BY <1>1, <2>2, <3>1, <3>2, ReaderStays
  <2> QED BY <2>1, <2>2
<1>4. \A w \in StreamWriter : WriterSound(w)'
  BY WriterStays
<1>5. PathTypes'
  BY <1>2 DEF PathTypes, StreamInv, Stream
<1> QED BY <1>3, <1>4, <1>5 DEF StreamInv

LEMMA LookupTyped ==
  ASSUME StreamInv, NEW g \in Stream, Lookup(g)
  PROVE  made' \in 0..granted.streams /\ current' \in 0..made' /\ g # 0 /\ g \in 0..granted.streams
<1>1. granted.streams \in Nat /\ made \in 0..granted.streams /\ current \in 0..made
  BY GrantTyped DEF StreamInv, PathTypes
<1> QED BY <1>1 DEF Lookup, Stream

\* The path changes, and no reader or writer.
LEMMA PathMoves ==
  ASSUME StreamInv, UNCHANGED <<closed, total, listener, lostTo, fanout, down, granted>>,
         made' \in 0..granted.streams, current' \in 0..made'
  PROVE  StreamInv'
<1>1. \A r \in StreamReader : ReaderSound(r)'
  BY DEF StreamInv, ReaderSound, Reached, Holds, Coming
<1>2. \A w \in StreamWriter : WriterSound(w)'
  BY WriterStays
<1> QED BY <1>1, <1>2 DEF StreamInv, PathTypes, Stream

LEMMA RemoveMoves ==
  ASSUME StreamInv, RemoveStream
  PROVE  StreamInv'
<1>1. PICK g \in Stream :
         /\ g = current /\ closed' = closed \cup {g} /\ current' = 0
         /\ CloseChannels(g) /\ UNCHANGED <<made, total, fanout, down, granted>>
  <2>1. granted.streams \in Nat /\ made \in 0..granted.streams /\ current \in 0..made /\ current # 0
    BY GrantTyped DEF StreamInv, PathTypes, RemoveStream
  <2>2. current \in Stream
    BY <2>1 DEF Stream
  <2> QED BY <2>2 DEF RemoveStream
<1>2. ASSUME NEW r \in StreamReader PROVE ReaderSound(r)'
  <2>1. ReaderSound(r)
    BY DEF StreamInv
  <2>2. CASE listener[r].stream = g
    <3>1. listener'[r] = [listener[r] EXCEPT !.open = FALSE, !.got = {}] /\ lostTo'[r] = {}
      BY <1>1, <2>2 DEF CloseChannels
    <3>2. PICK rec : rec = [listener[r] EXCEPT !.open = FALSE, !.got = {}]
      OBVIOUS
    <3>3. /\ rec \in Listeners(granted) /\ rec.open = FALSE /\ rec.at = listener[r].at
          /\ rec.stream = listener[r].stream /\ rec.channel = listener[r].channel
          /\ rec.history = listener[r].history /\ rec.next = listener[r].next
      BY <2>1, <3>2 DEF ReaderSound, Listeners
    <3> HIDE DEF Reached
    <3> QED BY <1>1, <2>1, <3>1, <3>2, <3>3 DEF ReaderSound
  <2>3. CASE listener[r].stream # g
    <3>1. listener'[r] = listener[r] /\ lostTo'[r] = lostTo[r]
      BY <1>1, <2>3 DEF CloseChannels
    <3>2. \A c \in ChunksOf(granted) : Coming(r, c) => Reached(r, c)'
      BY <1>1, <3>1 DEF Coming, Reached
    <3>3. lostTo[r] \subseteq ChunksOf(granted)
      BY <2>1 DEF ReaderSound
    <3> QED BY <1>1, <3>1, <3>2, <3>3, ReaderStays
  <2> QED BY <2>2, <2>3
<1>3. \A w \in StreamWriter : WriterSound(w)'
  BY <1>1, WriterStays
<1>4. /\ listener' = [r \in StreamReader |-> listener'[r]]
      /\ lostTo' = [r \in StreamReader |-> lostTo'[r]]
  BY <1>1 DEF CloseChannels
<1>5. made \in Nat
  BY GrantTyped DEF StreamInv, PathTypes
<1> QED BY <1>1, <1>2, <1>3, <1>4, <1>5 DEF StreamInv, PathTypes, Stream

\* Openings, registrations, the history: not registered before, or only next moves.
LEMMA OpenMoves ==
  ASSUME StreamInv, NEW r \in StreamReader, OpenStream(r)
  PROVE  StreamInv'
<1>1. PICK g \in Stream :
         /\ listener[r].at = "none" /\ Lookup(g)
         /\ listener' = [listener EXCEPT ![r].at = "opening", ![r].stream = g]
         /\ UNCHANGED <<closed, total, lostTo, fanout, down, granted>>
  BY DEF OpenStream
<1>2. ReaderSound(r)
  BY DEF StreamInv
<1>3. made' \in 0..granted.streams /\ current' \in 0..made' /\ g # 0 /\ g \in 0..granted.streams
  BY <1>1, LookupTyped
<1>4. PICK rec : rec = [listener[r] EXCEPT !.at = "opening", !.stream = g]
  OBVIOUS
<1>5. /\ rec \in Listeners(granted) /\ rec.at = "opening" /\ rec.stream = g /\ rec.open = listener[r].open
      /\ rec.history = listener[r].history /\ rec.channel = listener[r].channel
  BY <1>2, <1>3, <1>4 DEF ReaderSound, Listeners
<1>6. listener' = [listener EXCEPT ![r] = rec] /\ listener'[r] = rec
  BY <1>1, <1>4 DEF StreamInv, PathTypes
<1>7. ReaderSound(r)'
  <2>1. ~listener[r].open /\ listener[r].history = "none"
    BY <1>1, <1>2 DEF ReaderSound, Listeners
  <2> HIDE DEF Reached
  <2> QED BY <1>1, <1>2, <1>3, <1>5, <1>6, <2>1 DEF ReaderSound
<1>8. lostTo' = [q \in StreamReader |-> lostTo'[q]] /\ down' \in BOOLEAN
  BY <1>1 DEF StreamInv, PathTypes
<1> QED BY <1>1, <1>3, <1>5, <1>6, <1>7, <1>8, ReaderMoves

\* What the steps of one reader leave alone.
LEMMA PathKept ==
  ASSUME StreamInv
  PROVE  /\ made \in 0..granted.streams /\ current \in 0..made
         /\ lostTo = [q \in StreamReader |-> lostTo[q]] /\ down \in BOOLEAN
  BY DEF StreamInv, PathTypes

LEMMA TotalTyped ==
  ASSUME StreamInv, NEW g \in 0..granted.streams, g # 0
  PROVE  total[g] \in 0..granted.chunks /\ Oldest(g) \in 0..granted.chunks /\ Oldest(g) <= total[g] /\ g \in Stream
<1>1. granted.streams \in Nat /\ granted.chunks \in Nat /\ RingSize \in Nat
  BY GrantTyped, StreamConstants
<1>2. g \in Stream
  BY <1>1 DEF Stream
<1>3. total[g] \in 0..granted.chunks
  BY <1>2 DEF StreamInv, PathTypes
<1> QED BY <1>1, <1>2, <1>3 DEF Oldest

LEMMA RegisterMoves ==
  ASSUME StreamInv, NEW r \in StreamReader, RegisterReader(r)
  PROVE  StreamInv'
<1>1. ReaderSound(r) /\ listener[r] \in Listeners(granted)
  BY DEF StreamInv, ReaderSound
<1>2. PICK g \in 0..granted.streams :
         /\ g = listener[r].stream /\ g # 0
         /\ listener' = [listener EXCEPT ![r].at = "reading", ![r].open = TRUE, ![r].since = total[g],
                                         ![r].next = Oldest(g), ![r].history = "due"]
         /\ UNCHANGED <<made, current, closed, total, lostTo, fanout, down, granted>>
  BY <1>1 DEF RegisterReader, ReaderSound, Listeners
<1>3. total[g] \in 0..granted.chunks /\ Oldest(g) \in 0..granted.chunks
  BY <1>2, TotalTyped
<1>4. PICK rec : rec = [listener[r] EXCEPT !.at = "reading", !.open = TRUE, !.since = total[g],
                                           !.next = Oldest(g), !.history = "due"]
  OBVIOUS
<1>5. /\ rec \in Listeners(granted) /\ rec.at = "reading" /\ rec.stream = g /\ rec.since = total[g]
      /\ rec.history = "due" /\ rec.channel = listener[r].channel
  BY <1>1, <1>2, <1>3, <1>4 DEF Listeners
<1>6. listener' = [listener EXCEPT ![r] = rec] /\ listener'[r] = rec
  BY <1>2, <1>4 DEF StreamInv, PathTypes
<1>7. ReaderSound(r)'
  <2>1. \A c \in ChunksOf(granted) : ~(total[g] <= c /\ c < total[g])
    BY <1>3, GrantTyped DEF ChunksOf
  <2> HIDE DEF Reached
  <2> QED BY <1>1, <1>2, <1>5, <1>6, <2>1 DEF ReaderSound
<1> QED BY <1>2, <1>5, <1>6, <1>7, PathKept, ReaderMoves

\* A step of a reader's own that leaves what it has read and what it holds.
LEMMA ChannelGrows ==
  ASSUME StreamInv, NEW r \in StreamReader, NEW rec \in Listeners(granted),
         rec.at = listener[r].at, rec.stream = listener[r].stream, rec.open = listener[r].open,
         rec.since = listener[r].since, rec.got = listener[r].got,
         listener[r].history # "none",
         \A c : Holds(r, c) => \E i \in DOMAIN rec.channel : rec.channel[i] = c,
         Len(rec.channel) <= ChannelBuffer,
         rec.history = "sending" => rec.next <= total[rec.stream],
         listener' = [listener EXCEPT ![r] = rec],
         UNCHANGED <<made, current, closed, total, lostTo, fanout, down, granted>>
  PROVE  StreamInv'
<1>1. listener'[r] = rec /\ ReaderSound(r)
  BY DEF StreamInv, PathTypes
<1>2. \A c : Reached(r, c) => Reached(r, c)'
  BY <1>1 DEF Reached, Holds, Coming
<1>3. ReaderSound(r)'
  <2> HIDE DEF Reached
  <2> QED BY <1>1, <1>2 DEF ReaderSound
<1> QED BY <1>3, PathKept, ReaderMoves

LEMMA StartHistoryMoves ==
  ASSUME StreamInv, NEW r \in StreamReader, StartHistory(r)
  PROVE  StreamInv'
<1>1. ReaderSound(r) /\ listener[r] \in Listeners(granted)
  BY DEF StreamInv, ReaderSound
<1>2. PICK g \in 0..granted.streams, h \in {"sending", "done"} :
         /\ g = listener[r].stream /\ g # 0 /\ listener[r].history = "due"
         /\ listener' = [listener EXCEPT ![r].history = h, ![r].next = Oldest(g)]
         /\ UNCHANGED <<made, current, closed, total, lostTo, fanout, down, granted>>
  BY <1>1 DEF StartHistory, ReaderSound, Listeners
<1>3. Oldest(g) \in 0..granted.chunks /\ Oldest(g) <= total[g]
  BY <1>2, TotalTyped
<1>4. PICK rec : rec = [listener[r] EXCEPT !.history = h, !.next = Oldest(g)]
  OBVIOUS
<1>5. /\ rec \in Listeners(granted) /\ rec.next = Oldest(g)
      /\ rec.at = listener[r].at /\ rec.stream = listener[r].stream /\ rec.open = listener[r].open
      /\ rec.since = listener[r].since /\ rec.got = listener[r].got /\ rec.channel = listener[r].channel
  BY <1>1, <1>2, <1>3, <1>4 DEF Listeners
<1>6. listener' = [listener EXCEPT ![r] = rec]
  BY <1>2, <1>4 DEF StreamInv, PathTypes
<1>7. Len(rec.channel) <= ChannelBuffer /\ \A c : Holds(r, c) => \E i \in DOMAIN rec.channel : rec.channel[i] = c
  BY <1>1, <1>5 DEF ReaderSound, Holds
<1> QED BY <1>2, <1>3, <1>5, <1>6, <1>7, ChannelGrows

LEMMA Appended ==
  ASSUME NEW S, NEW ch \in Seq(S), NEW e \in S
  PROVE  /\ Append(ch, e) \in Seq(S) /\ Len(Append(ch, e)) = Len(ch) + 1
         /\ \E i \in DOMAIN Append(ch, e) : Append(ch, e)[i] = e
         /\ \A i \in DOMAIN ch : i \in DOMAIN Append(ch, e) /\ Append(ch, e)[i] = ch[i]
<1>1. Len(ch) + 1 \in DOMAIN Append(ch, e) /\ Append(ch, e)[Len(ch) + 1] = e
  OBVIOUS
<1> QED BY <1>1

LEMMA SendHistoryMoves ==
  ASSUME StreamInv, NEW r \in StreamReader, SendHistory(r)
  PROVE  StreamInv'
<1>1. ReaderSound(r) /\ listener[r] \in Listeners(granted)
  BY DEF StreamInv, ReaderSound
<1>2. PICK g \in 0..granted.streams : g = listener[r].stream /\ g # 0
  BY <1>1 DEF SendHistory, ReaderSound, Listeners
<1>3. total[g] \in 0..granted.chunks /\ granted.chunks \in Nat /\ ChannelBuffer \in Nat
  BY <1>2, TotalTyped, GrantTyped, StreamConstants
<1>4. listener[r].history = "sending" /\ UNCHANGED <<made, current, closed, total, lostTo, fanout, granted>>
  BY DEF SendHistory
<1>5. listener[r].next <= total[g] /\ listener[r].next \in 0..granted.chunks
      /\ Len(listener[r].channel) <= ChannelBuffer /\ listener[r].channel \in Seq(ChunksOf(granted))
  BY <1>1, <1>2, <1>4 DEF ReaderSound, Listeners
<1>6. CASE ~listener[r].open
  <2>1. down' = TRUE /\ UNCHANGED listener
    BY <1>6 DEF SendHistory
  <2>2. \A q \in StreamReader : ReaderSound(q)'
    BY <1>4, <2>1 DEF StreamInv, ReaderSound, Reached, Holds, Coming
  <2>3. \A w \in StreamWriter : WriterSound(w)'
    BY <1>4, WriterStays
  <2> QED BY <1>4, <2>1, <2>2, <2>3 DEF StreamInv, PathTypes, Stream
<1>7. CASE listener[r].open /\ (listener[r].next = total[g] \/ Len(listener[r].channel) = ChannelBuffer)
  <2>1. listener' = [listener EXCEPT ![r] = [listener[r] EXCEPT !.history = "done"]] /\ UNCHANGED down
    BY <1>2, <1>7 DEF SendHistory
  <2>2. PICK rec : rec = [listener[r] EXCEPT !.history = "done"]
    OBVIOUS
  <2>3. /\ rec \in Listeners(granted) /\ rec.history = "done"
        /\ rec.at = listener[r].at /\ rec.stream = listener[r].stream /\ rec.open = listener[r].open
        /\ rec.since = listener[r].since /\ rec.got = listener[r].got /\ rec.channel = listener[r].channel
    BY <1>1, <2>2 DEF Listeners
  <2>4. Len(rec.channel) <= ChannelBuffer /\ \A c : Holds(r, c) => \E i \in DOMAIN rec.channel : rec.channel[i] = c
    BY <1>5, <2>3 DEF Holds
  <2> QED BY <1>4, <2>1, <2>2, <2>3, <2>4, ChannelGrows
<1>8. CASE listener[r].open /\ ~(listener[r].next = total[g] \/ Len(listener[r].channel) = ChannelBuffer)
  <2>1. listener' = [listener EXCEPT ![r] = [listener[r] EXCEPT
            !.channel = Append(@, listener[r].next), !.next = @ + 1]] /\ UNCHANGED down
    BY <1>2, <1>8 DEF SendHistory
  <2>2. PICK ch \in Seq(ChunksOf(granted)), n \in ChunksOf(granted) :
           ch = listener[r].channel /\ n = listener[r].next /\ n < total[g] /\ Len(ch) < ChannelBuffer
    BY <1>3, <1>5, <1>8 DEF ChunksOf
  <2>3. PICK longer : longer = Append(ch, n)
    OBVIOUS
  <2>9. /\ longer \in Seq(ChunksOf(granted)) /\ Len(longer) = Len(ch) + 1
        /\ \A i \in DOMAIN ch : i \in DOMAIN longer /\ longer[i] = ch[i]
    BY <2>3, Appended
  <2>4. PICK rec : rec = [listener[r] EXCEPT !.channel = longer, !.next = n + 1]
    OBVIOUS
  <2>5. n + 1 \in 0..granted.chunks /\ n + 1 <= total[g] /\ Len(longer) <= ChannelBuffer
    <3>1. PICK t \in Nat : t = total[g] /\ t <= granted.chunks
      BY <1>3
    <3>2. n \in Nat /\ n < t /\ Len(ch) \in Nat
      BY <1>3, <2>2, <3>1 DEF ChunksOf
    <3>3. n + 1 <= t /\ n + 1 \in 0..granted.chunks
      BY <1>3, <3>1, <3>2
    <3>4. Len(longer) <= ChannelBuffer
      BY <1>3, <2>2, <2>9, <3>2
    <3> QED BY <3>1, <3>3, <3>4
  <2>6. /\ rec \in Listeners(granted) /\ rec.channel = longer /\ rec.next = n + 1
        /\ rec.at = listener[r].at /\ rec.stream = listener[r].stream /\ rec.open = listener[r].open
        /\ rec.since = listener[r].since /\ rec.got = listener[r].got
    BY <1>1, <2>9, <2>4, <2>5 DEF Listeners
  <2>7. listener' = [listener EXCEPT ![r] = rec]
    BY <2>1, <2>2, <2>3, <2>4
  <2>8. \A c : Holds(r, c) => \E i \in DOMAIN rec.channel : rec.channel[i] = c
    BY <2>2, <2>9, <2>6 DEF Holds
  <2> QED BY <1>2, <1>4, <2>1, <2>5, <2>6, <2>7, <2>8, ChannelGrows
<1> QED BY <1>6, <1>7, <1>8

LEMMA UnregisterMoves ==
  ASSUME StreamInv, NEW r \in StreamReader, UnregisterReader(r)
  PROVE  StreamInv'
<1>1. ReaderSound(r) /\ listener[r] \in Listeners(granted)
  BY DEF StreamInv, ReaderSound
<1>2. /\ listener[r].at = "reading"
      /\ listener' = [listener EXCEPT ![r].at = "closed", ![r].open = FALSE, ![r].got = {},
                                      ![r].channel = <<>>]
      /\ lostTo' = [lostTo EXCEPT ![r] = {}]
      /\ UNCHANGED <<made, current, closed, total, fanout, down, granted>>
  BY DEF UnregisterReader
<1>3. PICK rec : rec = [listener[r] EXCEPT !.at = "closed", !.open = FALSE, !.got = {}, !.channel = <<>>]
  OBVIOUS
<1>4. /\ rec \in Listeners(granted) /\ rec.at = "closed" /\ rec.open = FALSE /\ rec.channel = <<>>
      /\ rec.stream = listener[r].stream /\ rec.history = listener[r].history /\ rec.next = listener[r].next
  <2>1. <<>> \in Seq(ChunksOf(granted))
    OBVIOUS
  <2> QED BY <1>1, <1>3, <2>1 DEF Listeners
<1>5. listener' = [listener EXCEPT ![r] = rec] /\ listener'[r] = rec
  BY <1>2, <1>3 DEF StreamInv, PathTypes
<1>6. /\ lostTo' = [q \in StreamReader |-> lostTo'[q]] /\ lostTo'[r] = {}
      /\ \A q \in StreamReader \ {r} : lostTo'[q] = lostTo[q]
  BY <1>2 DEF StreamInv, PathTypes
<1>7. ReaderSound(r)'
  <2>1. Len(<<>>) <= ChannelBuffer
    BY StreamConstants
  <2> HIDE DEF Reached
  <2> QED BY <1>1, <1>2, <1>4, <1>5, <1>6, <2>1 DEF ReaderSound
<1> QED BY <1>2, <1>4, <1>5, <1>6, <1>7, PathKept, ReaderMoves

LEMMA Shifted ==
  ASSUME NEW S, NEW ch \in Seq(S), ch # <<>>
  PROVE  /\ Tail(ch) \in Seq(S) /\ Len(Tail(ch)) = Len(ch) - 1 /\ Head(ch) \in S
         /\ \A i \in DOMAIN ch : ch[i] = Head(ch) \/ \E j \in DOMAIN Tail(ch) : Tail(ch)[j] = ch[i]
<1>1. /\ Tail(ch) \in Seq(S) /\ Len(Tail(ch)) = Len(ch) - 1 /\ Head(ch) \in S /\ Head(ch) = ch[1]
      /\ DOMAIN Tail(ch) = 1..(Len(ch) - 1) /\ DOMAIN ch = 1..Len(ch) /\ Len(ch) \in Nat
      /\ \A j \in 1..(Len(ch) - 1) : Tail(ch)[j] = ch[j + 1]
  OBVIOUS
<1>2. ASSUME NEW i \in DOMAIN ch, i # 1
      PROVE  \E j \in DOMAIN Tail(ch) : Tail(ch)[j] = ch[i]
  <2>1. i - 1 \in 1..(Len(ch) - 1) /\ (i - 1) + 1 = i
    BY <1>1, <1>2
  <2> QED BY <1>1, <2>1
<1> QED BY <1>1, <1>2

LEMMA ReadMoves ==
  ASSUME StreamInv, NEW r \in StreamReader, ReadOne(r)
  PROVE  StreamInv'
<1>1. ReaderSound(r) /\ listener[r] \in Listeners(granted)
  BY DEF StreamInv, ReaderSound
<1>2. PICK ch \in Seq(ChunksOf(granted)) : ch = listener[r].channel /\ ch # <<>>
  BY <1>1 DEF ReadOne, Listeners
<1>3. /\ Tail(ch) \in Seq(ChunksOf(granted)) /\ Len(Tail(ch)) = Len(ch) - 1 /\ Head(ch) \in ChunksOf(granted)
      /\ \A i \in DOMAIN ch : ch[i] = Head(ch) \/ \E j \in DOMAIN Tail(ch) : Tail(ch)[j] = ch[i]
  BY <1>2, Shifted
<1>4. PICK read, rest : rest = Tail(ch) /\ read = IF listener[r].open THEN listener[r].got \cup {Head(ch)}
                                                ELSE listener[r].got
  OBVIOUS
<1>5. PICK rec : rec = [listener[r] EXCEPT !.got = read, !.channel = rest]
  OBVIOUS
<1>6. read \subseteq ChunksOf(granted) /\ listener[r].got \subseteq read
  BY <1>1, <1>3, <1>4 DEF Listeners
<1>7. /\ rec \in Listeners(granted) /\ rec.got = read /\ rec.channel = rest
      /\ rec.at = listener[r].at /\ rec.stream = listener[r].stream /\ rec.open = listener[r].open
      /\ rec.since = listener[r].since /\ rec.next = listener[r].next /\ rec.history = listener[r].history
  BY <1>1, <1>3, <1>4, <1>5, <1>6 DEF Listeners
<1>8. /\ listener' = [listener EXCEPT ![r] = rec]
      /\ UNCHANGED <<made, current, closed, total, lostTo, fanout, down, granted>>
  BY <1>2, <1>4, <1>5 DEF ReadOne
<1>9. listener'[r] = rec
  BY <1>8 DEF StreamInv, PathTypes
<1>10. Len(rest) <= ChannelBuffer
  <2>1. Len(listener[r].channel) <= ChannelBuffer
    BY <1>1 DEF ReaderSound
  <2> QED BY <1>2, <1>3, <1>4, <2>1, StreamConstants
<1>11. ASSUME listener[r].open, NEW c \in ChunksOf(granted), Reached(r, c) PROVE Reached(r, c)'
  <2>1. CASE c \in listener[r].got
    BY <2>1, <1>6, <1>7, <1>9 DEF Reached
  <2>2. CASE c \in lostTo[r] \/ Coming(r, c)
    BY <2>2, <1>7, <1>8, <1>9 DEF Reached, Coming
  <2>3. CASE Holds(r, c)
    <3>1. PICK i \in DOMAIN ch : ch[i] = c
      BY <2>3, <1>2 DEF Holds
    <3>2. CASE c = Head(ch)
      <4>1. c \in read
        BY <3>2, <1>4, <1>11
      <4> QED BY <4>1, <1>7, <1>9 DEF Reached
    <3>3. CASE c # Head(ch)
      <4>1. \E j \in DOMAIN rest : rest[j] = c
        BY <3>1, <3>3, <1>3, <1>4
      <4> QED BY <4>1, <1>7, <1>9 DEF Reached, Holds
    <3> QED BY <3>2, <3>3
  <2> QED BY <1>11, <2>1, <2>2, <2>3 DEF Reached
<1>12. ReaderSound(r)'
  <2> HIDE DEF Reached
  <2> QED BY <1>1, <1>7, <1>8, <1>9, <1>10, <1>11 DEF ReaderSound
<1> QED BY <1>7, <1>8, <1>12, PathKept, ReaderMoves

(***************************************************************************)
(* Writers.                                                                *)
(***************************************************************************)
\* One writer moves, and the readers are as sound as before.
LEMMA WriterMoves ==
  ASSUME StreamInv, NEW w \in StreamWriter, NEW rec \in Fanouts(granted),
         rec.at # "idle" => rec.stream # 0, rec.at = "send" => rec.chunk \in ChunksOf(granted),
         fanout' = [fanout EXCEPT ![w] = rec],
         UNCHANGED <<closed, listener, granted>>,
         made' \in 0..granted.streams, current' \in 0..made', down' \in BOOLEAN,
         total' \in [Stream -> 0..granted.chunks], lostTo' = [q \in StreamReader |-> lostTo'[q]],
         \A r \in StreamReader : ReaderSound(r)'
  PROVE  StreamInv'
<1>1. fanout'[w] = rec /\ \A v \in StreamWriter \ {w} : fanout'[v] = fanout[v]
  BY DEF StreamInv, PathTypes
<1>2. fanout' = [v \in StreamWriter |-> fanout'[v]]
  BY DEF StreamInv, PathTypes
<1>3. ASSUME NEW v \in StreamWriter PROVE WriterSound(v)'
  <2>1. CASE v = w
    BY <1>1, <2>1 DEF WriterSound
  <2>2. CASE v # w
    BY <1>1, <2>2, WriterStays
  <2> QED BY <2>1, <2>2
<1>4. PathTypes'
  BY <1>2 DEF PathTypes, StreamInv, Stream
<1> QED BY <1>3, <1>4 DEF StreamInv

\* A writer that was sending nothing takes no chunk from anyone.
LEMMA NothingTaken ==
  ASSUME StreamInv, NEW w \in StreamWriter, NEW rec, fanout[w].at # "send",
         fanout' = [fanout EXCEPT ![w] = rec], UNCHANGED listener,
         NEW r \in StreamReader, NEW c, Coming(r, c)
  PROVE  Coming(r, c)'
<1>1. PICK v \in StreamWriter :
         fanout[v].at = "send" /\ fanout[v].chunk = c /\ r \in fanout[v].to
         /\ fanout[v].stream = listener[r].stream
  BY DEF Coming
<1>2. v # w /\ fanout'[v] = fanout[v]
  BY <1>1 DEF StreamInv, PathTypes
<1> QED BY <1>1, <1>2 DEF Coming

LEMMA FindMoves ==
  ASSUME StreamInv, NEW w \in StreamWriter, FindStream(w)
  PROVE  StreamInv'
<1>1. PICK g \in Stream :
         /\ fanout[w].at = "idle" /\ Lookup(g)
         /\ fanout' = [fanout EXCEPT ![w].at = "write", ![w].stream = g]
         /\ UNCHANGED <<closed, total, listener, lostTo, down, granted>>
  BY DEF FindStream
<1>2. made' \in 0..granted.streams /\ current' \in 0..made' /\ g # 0 /\ g \in 0..granted.streams
  BY <1>1, LookupTyped
<1>3. PICK rec : rec = [fanout[w] EXCEPT !.at = "write", !.stream = g]
  OBVIOUS
<1>4. rec \in Fanouts(granted) /\ rec.at = "write" /\ rec.stream = g
  BY <1>2, <1>3 DEF StreamInv, WriterSound, Fanouts
<1>5. fanout' = [fanout EXCEPT ![w] = rec]
  BY <1>1, <1>3
<1>6. ASSUME NEW r \in StreamReader PROVE ReaderSound(r)'
  <2>1. \A c \in ChunksOf(granted) : Coming(r, c) => Coming(r, c)'
    BY <1>1, <1>5, NothingTaken
  <2>2. lostTo[r] \subseteq ChunksOf(granted)
    BY DEF StreamInv, ReaderSound
  <2> QED BY <1>1, <2>1, <2>2, ReaderStays DEF Reached
<1>7. total' \in [Stream -> 0..granted.chunks]
  BY <1>1 DEF StreamInv, PathTypes
<1> QED BY <1>1, <1>2, <1>4, <1>5, <1>6, <1>7, PathKept, WriterMoves

LEMMA AppendMoves ==
  ASSUME StreamInv, NEW w \in StreamWriter, AppendChunk(w)
  PROVE  StreamInv'
<1>1. WriterSound(w) /\ fanout[w] \in Fanouts(granted) /\ fanout[w].at = "write"
  BY DEF StreamInv, WriterSound, AppendChunk
<1>2. PICK g \in 0..granted.streams : g = fanout[w].stream /\ g # 0
  BY <1>1 DEF WriterSound, Fanouts
<1>3. /\ total[g] \in 0..granted.chunks /\ g \in Stream /\ granted.chunks \in Nat
      /\ total \in [Stream -> 0..granted.chunks]
  BY <1>2, TotalTyped, GrantTyped DEF StreamInv, PathTypes
<1>4. PICK to \in SUBSET StreamReader : to = {r \in StreamReader : listener[r].stream = g /\ listener[r].open}
  OBVIOUS
<1>5. NoWrite \in Fanouts(granted) /\ NoWrite.at = "idle"
  BY GrantTyped DEF NoWrite, Fanouts
<1>6. CASE g \in closed
  <2>1. /\ fanout' = [fanout EXCEPT ![w] = NoWrite]
        /\ UNCHANGED <<made, current, closed, total, listener, lostTo, down, granted>>
    BY <1>2, <1>6 DEF AppendChunk
  <2>2. ASSUME NEW r \in StreamReader PROVE ReaderSound(r)'
    <3>1. \A c \in ChunksOf(granted) : Coming(r, c) => Coming(r, c)'
      BY <1>1, <2>1, NothingTaken
    <3>2. lostTo[r] \subseteq ChunksOf(granted)
      BY DEF StreamInv, ReaderSound
    <3> QED BY <2>1, <3>1, <3>2, ReaderStays DEF Reached
  <2> QED BY <1>3, <1>5, <2>1, <2>2, PathKept, WriterMoves
<1>7. CASE g \notin closed
  <2>1. PICK rec : rec = IF to = {} THEN NoWrite
                         ELSE [at |-> "send", stream |-> g, chunk |-> total[g], to |-> to]
    OBVIOUS
  <2>2. /\ total[g] < granted.chunks /\ total' = [total EXCEPT ![g] = @ + 1]
        /\ fanout' = [fanout EXCEPT ![w] = rec]
        /\ UNCHANGED <<made, current, closed, listener, lostTo, down, granted>>
    BY <1>2, <1>4, <1>7, <2>1 DEF AppendChunk
  <2>3. total[g] \in ChunksOf(granted)
    BY <1>3, <2>2 DEF ChunksOf
  <2>4. /\ rec \in Fanouts(granted) /\ (rec.at # "idle" => rec.stream # 0)
        /\ (rec.at = "send" => rec.chunk \in ChunksOf(granted))
        /\ (to # {} => rec.at = "send" /\ rec.chunk = total[g] /\ rec.to = to /\ rec.stream = g)
    BY <1>2, <1>3, <1>5, <2>1, <2>3 DEF Fanouts
  <2>5. /\ total' \in [Stream -> 0..granted.chunks] /\ total'[g] = total[g] + 1
        /\ \A h : h # g => total'[h] = total[h]
    BY <1>3, <2>2
  <2>6. fanout'[w] = rec
    BY <2>2 DEF StreamInv, PathTypes
  <2>7. ASSUME NEW r \in StreamReader PROVE ReaderSound(r)'
    <3>1. \A c \in ChunksOf(granted) : Coming(r, c) => Coming(r, c)'
      BY <1>1, <2>2, NothingTaken
    <3>2. ReaderSound(r) /\ lostTo[r] \subseteq ChunksOf(granted)
      BY DEF StreamInv, ReaderSound
    <3>3. CASE listener[r].stream # g
      BY <2>2, <2>5, <3>1, <3>2, <3>3, ReaderStays DEF Reached
    <3>4. CASE listener[r].stream = g
      <4>1. \A c \in ChunksOf(granted) : Reached(r, c) => Reached(r, c)'
        BY <2>2, <3>1 DEF Reached, Holds
      <4>7. PICK n : n = total[g]
        OBVIOUS
      <4>2. listener[r].open => Coming(r, n)'
        BY <1>4, <2>2, <2>4, <2>6, <3>4, <4>7 DEF Coming
      <4>3. listener[r].open => Reached(r, n)'
        BY <4>2 DEF Reached
      <4>4. ASSUME listener[r].open, NEW c \in ChunksOf(granted), listener[r].since <= c, c < total[g] + 1
            PROVE  Reached(r, c)'
        <5>1. c < total[g] \/ c = total[g]
          BY <1>3, <4>4 DEF ChunksOf
        <5> HIDE DEF Reached
        <5> QED BY <3>2, <3>4, <4>1, <4>7, <4>3, <4>4, <5>1 DEF ReaderSound
      <4>5. listener[r].next <= total[g] /\ listener[r].next \in Nat => listener[r].next <= total[g] + 1
        BY <1>3
      <4>6. listener[r].next \in Nat
        BY <1>3, <3>2 DEF ReaderSound, Listeners
      <4> HIDE DEF Reached
      <4> QED BY <2>2, <2>5, <3>2, <3>4, <4>4, <4>5, <4>6 DEF ReaderSound
    <3> QED BY <3>3, <3>4
  <2> QED BY <2>2, <2>4, <2>5, <2>7, PathKept, WriterMoves
<1> QED BY <1>6, <1>7

\* What one send does: the fan-out is one reader further, which has or misses the chunk.
LEMMA SendShape ==
  ASSUME StreamInv, NEW w \in StreamWriter, NEW r \in StreamReader, SendChunk(w, r)
  PROVE  \E rec \in Fanouts(granted), chunk \in ChunksOf(granted), ch \in Seq(ChunksOf(granted)), got \in Listeners(granted) :
           /\ rec.at # "idle" => rec.stream # 0
           /\ rec.at = "send" => rec.chunk \in ChunksOf(granted)
           /\ fanout'[w] = rec /\ fanout' = [fanout EXCEPT ![w] = rec]
           /\ fanout[w].at = "send" /\ fanout[w].chunk = chunk
           /\ \A q \in fanout[w].to \ {r} :
                 rec.at = "send" /\ q \in rec.to /\ rec.chunk = chunk /\ rec.stream = fanout[w].stream
           /\ got = listener[r] /\ ch = got.channel /\ Len(ch) <= ChannelBuffer
<1>1. /\ fanout[w] \in Fanouts(granted) /\ fanout[w].at = "send" /\ r \in fanout[w].to
      /\ fanout[w].chunk \in ChunksOf(granted) /\ fanout[w].stream # 0
      /\ fanout' = [fanout EXCEPT ![w] = AfterSend(w, r)]
  BY DEF StreamInv, WriterSound, SendChunk
<1>2. NoWrite \in Fanouts(granted) /\ NoWrite.at = "idle"
  BY GrantTyped DEF NoWrite, Fanouts
<1>3. PICK cut : cut = [fanout[w] EXCEPT !.to = @ \ {r}]
  OBVIOUS
<1>4. /\ cut \in Fanouts(granted) /\ cut.at = "send" /\ cut.chunk = fanout[w].chunk
      /\ cut.stream = fanout[w].stream /\ cut.to = fanout[w].to \ {r}
  BY <1>1, <1>3 DEF Fanouts
<1>5. PICK rec : rec = IF fanout[w].to = {r} THEN NoWrite ELSE cut
  OBVIOUS
<1>6. fanout' = [fanout EXCEPT ![w] = rec]
  BY <1>1, <1>3, <1>5 DEF AfterSend
<1>7. fanout'[w] = rec
  BY <1>6 DEF StreamInv, PathTypes
<1>8. rec \in Fanouts(granted) /\ (rec.at # "idle" => rec.stream # 0)
      /\ (rec.at = "send" => rec.chunk \in ChunksOf(granted))
  BY <1>1, <1>2, <1>4, <1>5
<1>9. \A q \in fanout[w].to \ {r} :
         rec.at = "send" /\ q \in rec.to /\ rec.chunk = fanout[w].chunk /\ rec.stream = fanout[w].stream
  BY <1>4, <1>5
<1>10. listener[r] \in Listeners(granted) /\ Len(listener[r].channel) <= ChannelBuffer
  BY DEF StreamInv, ReaderSound
<1>11. listener[r].channel \in Seq(ChunksOf(granted))
  BY <1>10 DEF Listeners
<1> QED BY <1>1, <1>6, <1>7, <1>8, <1>9, <1>10, <1>11

LEMMA SendMoves ==
  ASSUME StreamInv, NEW w \in StreamWriter, NEW r \in StreamReader, SendChunk(w, r)
  PROVE  StreamInv'
<1>1. PICK rec \in Fanouts(granted), chunk \in ChunksOf(granted), ch \in Seq(ChunksOf(granted)), old \in Listeners(granted) :
         /\ rec.at # "idle" => rec.stream # 0
         /\ rec.at = "send" => rec.chunk \in ChunksOf(granted)
         /\ fanout'[w] = rec /\ fanout' = [fanout EXCEPT ![w] = rec]
         /\ fanout[w].at = "send" /\ fanout[w].chunk = chunk
         /\ \A q \in fanout[w].to \ {r} :
               rec.at = "send" /\ q \in rec.to /\ rec.chunk = chunk /\ rec.stream = fanout[w].stream
         /\ old = listener[r] /\ ch = old.channel /\ Len(ch) <= ChannelBuffer
  BY SendShape
<1>2. \A v \in StreamWriter \ {w} : fanout'[v] = fanout[v]
  BY <1>1 DEF StreamInv, PathTypes
<1>3. listener[r].open /\ UNCHANGED <<made, current, closed, total, down, granted>>
  BY DEF SendChunk
<1>4. ChannelBuffer \in Nat
  BY StreamConstants
\* The other readers keep what comes, and this one what other writers send.
<1>5. ASSUME NEW q \in StreamReader, NEW c, listener'[q].stream = listener[q].stream,
             Coming(q, c), ~(q = r /\ c = chunk)
      PROVE  Coming(q, c)'
  <2>1. PICK v \in StreamWriter :
           fanout[v].at = "send" /\ fanout[v].chunk = c /\ q \in fanout[v].to
           /\ fanout[v].stream = listener[q].stream
    BY <1>5 DEF Coming
  <2>2. CASE v = w
    BY <1>1, <1>5, <2>1, <2>2 DEF Coming
  <2>3. CASE v # w
    BY <1>2, <1>5, <2>1, <2>3 DEF Coming
  <2> QED BY <2>2, <2>3
<1>6. CASE Len(ch) < ChannelBuffer
  <2>1. listener' = [listener EXCEPT ![r].channel = Append(@, chunk)] /\ UNCHANGED lostTo
    BY <1>1, <1>6 DEF SendChunk
  <2>2. PICK longer : longer = Append(ch, chunk)
    OBVIOUS
  <2>3. /\ longer \in Seq(ChunksOf(granted)) /\ Len(longer) = Len(ch) + 1
        /\ \E i \in DOMAIN longer : longer[i] = chunk
        /\ \A i \in DOMAIN ch : i \in DOMAIN longer /\ longer[i] = ch[i]
    BY <2>2, Appended
  <2>4. PICK new : new = [old EXCEPT !.channel = longer]
    OBVIOUS
  <2>5. /\ new \in Listeners(granted) /\ new.channel = longer /\ new.at = old.at /\ new.stream = old.stream
        /\ new.open = old.open /\ new.since = old.since /\ new.next = old.next /\ new.history = old.history
        /\ new.got = old.got
    BY <2>3, <2>4 DEF Listeners
  <2>6. listener' = [listener EXCEPT ![r] = new]
    BY <1>1, <2>1, <2>2, <2>4
  <2>7. /\ listener' = [q \in StreamReader |-> listener'[q]] /\ listener'[r] = new
        /\ \A q \in StreamReader \ {r} : listener'[q] = listener[q]
    BY <2>6 DEF StreamInv, PathTypes
  <2>8. ASSUME NEW c \in ChunksOf(granted), Reached(r, c) PROVE Reached(r, c)'
    <3>1. Holds(r, c) => Holds(r, c)'
      BY <1>1, <2>3, <2>5, <2>7 DEF Holds
    <3>2. Holds(r, chunk)'
      BY <2>3, <2>5, <2>7 DEF Holds
    <3>3. Coming(r, c) => c = chunk \/ Coming(r, c)'
      BY <1>1, <1>5, <2>5, <2>7
    <3>4. c \in listener[r].got \/ c \in lostTo[r] => c \in listener'[r].got \/ c \in lostTo'[r]
      BY <1>1, <2>1, <2>5, <2>7
    <3> QED BY <2>8, <3>1, <3>2, <3>3, <3>4 DEF Reached
  <2>9. ReaderSound(r)'
    <3>1. ReaderSound(r) /\ Len(longer) <= ChannelBuffer
      BY <1>1, <1>4, <1>6, <2>3 DEF StreamInv
    <3> HIDE DEF Reached
    <3>2. listener'[r].open => \A c \in ChunksOf(granted) :
             listener'[r].since <= c /\ c < total[listener'[r].stream] => Reached(r, c)'
      BY <1>1, <2>5, <2>7, <2>8, <3>1 DEF ReaderSound
    <3>3. /\ lostTo'[r] \subseteq ChunksOf(granted) /\ (old.at # "none" => old.stream # 0)
          /\ (old.open => old.at = "reading") /\ (old.history # "none" => old.at # "none")
          /\ (old.history = "sending" => old.next <= total[old.stream])
      BY <1>1, <2>1, <3>1 DEF ReaderSound
    <3> QED BY <1>3, <2>5, <2>7, <3>1, <3>2, <3>3 DEF ReaderSound
  <2>10. ASSUME NEW q \in StreamReader PROVE ReaderSound(q)'
    <3>1. CASE q = r
      BY <2>9, <3>1
    <3>2. CASE q # r
      <4>1. \A c \in ChunksOf(granted) : Coming(q, c) => Coming(q, c)'
        BY <1>5, <2>7, <3>2
      <4>2. lostTo[q] \subseteq ChunksOf(granted)
        BY DEF StreamInv, ReaderSound
      <4> QED BY <1>3, <2>1, <2>7, <3>2, <4>1, <4>2, ReaderStays DEF Reached
    <3> QED BY <3>1, <3>2
  <2>11. ASSUME NEW v \in StreamWriter PROVE WriterSound(v)'
    <3>1. CASE v = w
      BY <1>1, <1>3, <3>1 DEF WriterSound
    <3>2. CASE v # w
      BY <1>2, <1>3, <3>2, WriterStays
    <3> QED BY <3>1, <3>2
  <2>12. PathTypes'
    <3>1. fanout' = [v \in StreamWriter |-> fanout'[v]]
      BY <1>1 DEF StreamInv, PathTypes
    <3> QED BY <1>3, <2>1, <2>7, <3>1 DEF PathTypes, StreamInv, Stream
  <2> QED BY <2>10, <2>11, <2>12 DEF StreamInv
<1>7. CASE ~(Len(ch) < ChannelBuffer)
  <2>1. lostTo' = [lostTo EXCEPT ![r] = @ \cup {chunk}] /\ UNCHANGED listener
    BY <1>1, <1>7 DEF SendChunk
  <2>2. /\ lostTo' = [q \in StreamReader |-> lostTo'[q]] /\ lostTo'[r] = lostTo[r] \cup {chunk}
        /\ \A q \in StreamReader : lostTo[q] \subseteq lostTo'[q] /\ lostTo'[q] \subseteq lostTo[q] \cup {chunk}
    BY <2>1 DEF StreamInv, PathTypes
  <2>3. ASSUME NEW q \in StreamReader PROVE ReaderSound(q)'
    <3>1. \A c \in ChunksOf(granted) : Coming(q, c) => Reached(q, c)'
      BY <1>5, <2>1, <2>2 DEF Reached
    <3>2. lostTo'[q] \subseteq ChunksOf(granted)
      BY <2>2 DEF StreamInv, ReaderSound
    <3> QED BY <1>3, <2>1, <2>2, <3>1, <3>2, ReaderStays
  <2>4. total' \in [Stream -> 0..granted.chunks]
    BY <1>3 DEF StreamInv, PathTypes
  <2> QED BY <1>1, <1>3, <2>1, <2>2, <2>3, <2>4, PathKept, WriterMoves
<1> QED BY <1>6, <1>7

LEMMA PanicMoves ==
  ASSUME StreamInv, NEW w \in StreamWriter, NEW r \in StreamReader, PanicInWrite(w, r)
  PROVE  StreamInv'
<1>1. /\ fanout[w].at = "send"
      /\ lostTo' = [q \in StreamReader |->
           IF q \in fanout[w].to /\ listener[q].open THEN lostTo[q] \cup {fanout[w].chunk} ELSE lostTo[q]]
      /\ fanout' = [fanout EXCEPT ![w] = NoWrite]
      /\ UNCHANGED <<made, current, closed, total, listener, down, granted>>
  BY DEF PanicInWrite
<1>2. PICK chunk \in ChunksOf(granted) : chunk = fanout[w].chunk
  BY <1>1 DEF StreamInv, WriterSound
<1>3. NoWrite \in Fanouts(granted) /\ NoWrite.at = "idle"
  BY GrantTyped DEF NoWrite, Fanouts
<1>4. \A v \in StreamWriter \ {w} : fanout'[v] = fanout[v]
  BY <1>1 DEF StreamInv, PathTypes
<1>5. ASSUME NEW q \in StreamReader PROVE ReaderSound(q)'
  <2>1. lostTo[q] \subseteq lostTo'[q] /\ lostTo'[q] \subseteq lostTo[q] \cup {chunk}
        /\ (q \in fanout[w].to /\ listener[q].open => chunk \in lostTo'[q])
    BY <1>1, <1>2
  <2>2. lostTo'[q] \subseteq ChunksOf(granted)
    BY <2>1 DEF StreamInv, ReaderSound
  <2>3. CASE listener[q].open
    <3>1. ASSUME NEW c \in ChunksOf(granted), Coming(q, c) PROVE Reached(q, c)'
      <4>1. PICK v \in StreamWriter :
               fanout[v].at = "send" /\ fanout[v].chunk = c /\ q \in fanout[v].to
               /\ fanout[v].stream = listener[q].stream
        BY <3>1 DEF Coming
      <4>2. CASE v = w
        BY <1>2, <2>1, <2>3, <4>1, <4>2 DEF Reached
      <4>3. CASE v # w
        BY <1>1, <1>4, <4>1, <4>3 DEF Reached, Coming
      <4> QED BY <4>2, <4>3
    <3> QED BY <1>1, <2>1, <2>2, <3>1, ReaderStays
  <2>4. CASE ~listener[q].open
    <3>1. ReaderSound(q)
      BY DEF StreamInv
    <3> HIDE DEF Reached
    <3> QED BY <1>1, <2>2, <2>4, <3>1 DEF ReaderSound
  <2> QED BY <2>3, <2>4
<1>6. total' \in [Stream -> 0..granted.chunks] /\ lostTo' = [q \in StreamReader |-> lostTo'[q]]
  BY <1>1 DEF StreamInv, PathTypes
<1> QED BY <1>1, <1>3, <1>5, <1>6, PathKept, WriterMoves

(***************************************************************************)
(* The theorems.                                                           *)
(***************************************************************************)
LEMMA StreamStart ==
  ASSUME StreamInit
  PROVE  StreamInv
<1>1. granted \in StreamBudgets /\ granted.streams \in Nat /\ granted.chunks \in Nat
  BY StreamConstants DEF StreamInit
<1>2. total \in [Stream -> 0..granted.chunks]
  BY <1>1 DEF StreamInit
<1>3. PathTypes
  <2>1. /\ listener = [r \in StreamReader |-> listener[r]] /\ lostTo = [r \in StreamReader |-> lostTo[r]]
        /\ fanout = [w \in StreamWriter |-> fanout[w]]
    BY DEF StreamInit
  <2>2. made = 0 /\ current = 0 /\ closed = {} /\ down = FALSE
    BY DEF StreamInit
  <2>3. made \in 0..granted.streams /\ current \in 0..made /\ closed \subseteq Stream
    BY <1>1, <2>2
  <2>4. down \in BOOLEAN
    BY <2>2, Zenon
  <2> QED BY <1>1, <1>2, <2>1, <2>3, <2>4, Zenon DEF PathTypes
<1>4. /\ NoListener \in Listeners(granted) /\ NoListener.at = "none" /\ NoListener.open = FALSE
      /\ NoListener.history = "none" /\ NoListener.channel = <<>>
  <2>1. <<>> \in Seq(ChunksOf(granted))
    OBVIOUS
  <2> QED BY <1>1, <2>1 DEF NoListener, Listeners
<1>5. ASSUME NEW r \in StreamReader PROVE ReaderSound(r)
  <2>1. listener[r] = NoListener /\ lostTo[r] = {}
    BY DEF StreamInit
  <2>2. Len(<<>>) <= ChannelBuffer
    BY StreamConstants
  <2> HIDE DEF Reached
  <2> QED BY <1>4, <2>1, <2>2 DEF ReaderSound
<1>6. ASSUME NEW w \in StreamWriter PROVE WriterSound(w)
  BY <1>1 DEF StreamInit, WriterSound, Fanouts, NoWrite
<1> QED BY <1>3, <1>5, <1>6 DEF StreamInv

LEMMA StreamStep ==
  ASSUME StreamInv, [StreamNext]_streamVars
  PROVE  StreamInv'
<1>1. CASE CreateStream
  <2>1. PICK g \in Stream :
           Lookup(g) /\ UNCHANGED <<closed, total, listener, lostTo, fanout, down, granted>>
    BY <1>1 DEF CreateStream
  <2> QED BY <2>1, LookupTyped, PathMoves
<1>2. ASSUME NEW r \in StreamReader,
             \/ OpenStream(r) \/ RegisterReader(r) \/ StartHistory(r) \/ SendHistory(r)
             \/ UnregisterReader(r) \/ ReadOne(r)
      PROVE  StreamInv'
  BY <1>2, OpenMoves, RegisterMoves, StartHistoryMoves, SendHistoryMoves, UnregisterMoves, ReadMoves
<1>3. ASSUME NEW w \in StreamWriter,
             \/ FindStream(w) \/ AppendChunk(w)
             \/ \E r \in StreamReader : SendChunk(w, r) \/ PanicInWrite(w, r)
      PROVE  StreamInv'
  BY <1>3, FindMoves, AppendMoves, SendMoves, PanicMoves
<1>4. CASE UNCHANGED streamVars
  <2>1. UNCHANGED <<closed, total, listener, lostTo, fanout, down, granted>> /\ UNCHANGED <<made, current>>
    BY <1>4 DEF streamVars
  <2> QED BY <2>1, PathKept, PathMoves
<1> QED BY <1>1, <1>2, <1>3, <1>4, RemoveMoves DEF StreamNext

(***************************************************************************)
(* What a registered reader must have is, chunk by chunk, with it, in its  *)
(* channel, on a writer's way to it or dropped for it, whichever writer,   *)
(* history goroutine or removal of the stream comes between.               *)
(* (streamfs.go:139-316, 387-548)                                         *)
(***************************************************************************)
THEOREM StreamInvariant == StreamSpec => []StreamInv
  BY StreamStart, StreamStep, PTL DEF StreamSpec

(***************************************************************************)
(* Every variable keeps its type.  (streamfs.go:77-273)                    *)
(***************************************************************************)
THEOREM StreamTypeCorrect == StreamSpec => []StreamTypeOK
<1>1. StreamInv => StreamTypeOK
  <2> SUFFICES ASSUME StreamInv PROVE StreamTypeOK
    OBVIOUS
  <2>1. \A r \in StreamReader : listener[r] \in Listeners(granted) /\ lostTo[r] \subseteq ChunksOf(granted)
    BY DEF StreamInv, ReaderSound
  <2>2. \A w \in StreamWriter : fanout[w] \in Fanouts(granted)
    BY DEF StreamInv, WriterSound
  <2>3. listener \in [StreamReader -> Listeners(granted)] /\ lostTo \in [StreamReader -> SUBSET Chunk]
        /\ fanout \in [StreamWriter -> Fanouts(granted)]
    BY <2>1, <2>2 DEF StreamInv, PathTypes, Chunk, ChunksOf
  <2> QED BY <2>3 DEF StreamInv, PathTypes, StreamTypeOK, Listeners, Fanouts, Chunk, ChunksOf
<1> QED BY <1>1, StreamInvariant, PTL

(***************************************************************************)
(* For any readers, writers and budgets: no chunk written since a reader   *)
(* registered is missed in silence, and no channel holds more than its     *)
(* size.  (streamfs.go:207-273)                                            *)
(***************************************************************************)
THEOREM ReadersHaveAll == StreamSpec => []BroadcastComplete
<1>1. StreamInv => BroadcastComplete
  BY DEF StreamInv, ReaderSound, BroadcastComplete, Reached, Coming, Chunk, ChunksOf
<1> QED BY <1>1, StreamInvariant, PTL
-----------------------------------------------------------------------------
(***************************************************************************)
(* Queues: where a message is, and how often it was handed out.            *)
(***************************************************************************)
AnyRow == Row({"pending", "processing"})

DistinctIds(messages) ==
    \A i, j \in DOMAIN messages : messages[i].id = messages[j].id => i = j

(***************************************************************************)
(* A message that is handed out leaves its table, but with SQLite, where   *)
(* only a restart lets it be handed out again.                             *)
(***************************************************************************)
RowSound(row) ==
    /\ row \in AnyRow /\ row.id <= enqueued
    /\ backend # "sqlite" => row.status = "pending" /\ handed[row.id] = 0
    /\ backend = "sqlite" => handed[row.id] <= stops + (IF row.status = "processing" THEN 1 ELSE 0)

TableSound(q) ==
    /\ DistinctIds(rows[q])
    /\ \A i \in DOMAIN rows[q] : RowSound(rows[q][i])

QueueData ==
    /\ backend \in QueueBackends /\ rows \in [Queue -> Seq(AnyRow)]
    /\ enqueued \in 0..MaxQueued /\ handed \in [Message -> Nat]
    /\ finished \subseteq Message /\ stops \in 0..MaxStops
    /\ \A q \in Queue : TableSound(q)
    /\ \A p, q \in Queue : p # q => Ids(rows[p]) \cap Ids(rows[q]) = {}
    /\ \A m \in Message : m > enqueued => handed[m] = 0
    /\ MessagesDelivered

Removals == {NoRemoval} \cup [at : {"drop", "registry"}, queue : Queue, drop : SUBSET Queue]
QueueHandles == {NoQueueHandle} \cup [server : QueueServer, queue : Queue, read : BOOLEAN]

QueueControl ==
    /\ registered \subseteq Queue /\ tables \subseteq Queue
    /\ tableCache \in [QueueServer -> SUBSET Queue] /\ removal \in [QueueServer -> Removals]
    /\ queueHandle \in [QueueHandle -> QueueHandles] /\ requests \in 0..MaxRequests

QueueInv == QueueData /\ QueueControl

LEMMA QueueConstants ==
  /\ TableName \in [Queue -> Queue] /\ Below \subseteq Queue \X Queue
  /\ QueueBackends \subseteq {"memory", "sqlite", "tidb"}
  /\ MaxQueued \in Nat /\ MaxRequests \in Nat /\ MaxStops \in Nat
  BY QueueAssumption

\* A message cut out of a table: the others stay, each once.
LEMMA CutOut ==
  ASSUME NEW S, NEW messages \in Seq(S), NEW i \in DOMAIN messages
  PROVE  /\ Removed(messages, i) \in Seq(S)
         /\ \A k \in DOMAIN Removed(messages, i) : \E j \in DOMAIN messages \ {i} :
               /\ Removed(messages, i)[k] = messages[j]
               /\ j = IF k < i THEN k ELSE k + 1
         /\ \A j \in DOMAIN messages \ {i} : \E k \in DOMAIN Removed(messages, i) :
               Removed(messages, i)[k] = messages[j]
<1> DEFINE front == SubSeq(messages, 1, i - 1)
           back == SubSeq(messages, i + 1, Len(messages))
<1>1. DOMAIN messages = 1..Len(messages) /\ Len(messages) \in Nat /\ i \in 1..Len(messages)
  OBVIOUS
<1>2. front \in Seq(S) /\ Len(front) = i - 1 /\ \A k \in 1..(i - 1) : front[k] = messages[k]
  <2>1. \A k \in 1..(i - 1) : messages[k] \in S
    BY <1>1
  <2>2. /\ front \in Seq(S) /\ Len(front) = IF 1 <= i - 1 THEN (i - 1) - 1 + 1 ELSE 0
        /\ \A k \in 1..((i - 1) - 1 + 1) : front[k] = messages[1 + k - 1]
    BY <1>1, <2>1, SubSeqProperties
  <2> QED BY <1>1, <2>2
<1>3. /\ back \in Seq(S) /\ Len(back) = Len(messages) - i
      /\ \A k \in 1..(Len(messages) - i) : back[k] = messages[i + k]
  <2>1. \A k \in (i + 1)..Len(messages) : messages[k] \in S
    BY <1>1
  <2>2. /\ back \in Seq(S) /\ Len(back) = IF i + 1 <= Len(messages) THEN Len(messages) - (i + 1) + 1 ELSE 0
        /\ \A k \in 1..(Len(messages) - (i + 1) + 1) : back[k] = messages[(i + 1) + k - 1]
    BY <1>1, <2>1, SubSeqProperties
  <2> QED BY <1>1, <2>2
<1>4. Removed(messages, i) = front \o back
  BY DEF Removed
<1> HIDE DEF front, back
<1>5. PICK cut : cut = front \o back
  OBVIOUS
<1>6. /\ cut \in Seq(S) /\ Len(cut) = Len(messages) - 1
      /\ \A k \in 1..(Len(messages) - 1) : cut[k] = IF k <= i - 1 THEN front[k] ELSE back[k - (i - 1)]
  <2>1. /\ cut \in Seq(S) /\ Len(cut) = Len(front) + Len(back)
        /\ \A k \in 1..(Len(front) + Len(back)) : cut[k] = IF k <= Len(front) THEN front[k] ELSE back[k - Len(front)]
    BY <1>2, <1>3, <1>5, ConcatProperties
  <2> QED BY <1>1, <1>2, <1>3, <2>1
<1>7. DOMAIN cut = 1..(Len(messages) - 1)
  BY <1>6
<1>8. \A k \in 1..(Len(messages) - 1) :
         cut[k] = messages[IF k < i THEN k ELSE k + 1] /\ (IF k < i THEN k ELSE k + 1) \in (1..Len(messages)) \ {i}
  <2> SUFFICES ASSUME NEW k \in 1..(Len(messages) - 1)
               PROVE  cut[k] = messages[IF k < i THEN k ELSE k + 1]
                      /\ (IF k < i THEN k ELSE k + 1) \in (1..Len(messages)) \ {i}
    OBVIOUS
  <2>1. CASE k < i
    BY <1>1, <1>2, <1>6, <2>1
  <2>2. CASE ~(k < i)
    <3>1. PICK b : b = k - (i - 1)
      OBVIOUS
    <3>2. b \in 1..(Len(messages) - i) /\ i + b = k + 1 /\ k + 1 \in (1..Len(messages)) \ {i}
      BY <1>1, <2>2, <3>1
    <3>3. cut[k] = back[b]
      BY <1>1, <1>6, <2>2, <3>1
    <3>4. back[b] = messages[k + 1]
      BY <1>3, <3>2
    <3> QED BY <2>2, <3>2, <3>3, <3>4
  <2> QED BY <2>1, <2>2
<1>9. \A j \in (1..Len(messages)) \ {i} : \E k \in 1..(Len(messages) - 1) : cut[k] = messages[j]
  <2> SUFFICES ASSUME NEW j \in (1..Len(messages)) \ {i}
               PROVE  \E k \in 1..(Len(messages) - 1) : cut[k] = messages[j]
    OBVIOUS
  <2>1. CASE j < i
    BY <1>1, <1>8, <2>1
  <2>2. CASE j > i
    <3>1. j - 1 \in 1..(Len(messages) - 1) /\ ~(j - 1 < i) /\ (j - 1) + 1 = j
      BY <1>1, <2>2
    <3> QED BY <1>8, <3>1
  <2> QED BY <1>1, <2>1, <2>2
<1> QED BY <1>1, <1>4, <1>5, <1>6, <1>7, <1>8, <1>9

LEMMA CutOutRows ==
  ASSUME NEW messages \in Seq(AnyRow), NEW i \in DOMAIN messages, DistinctIds(messages),
         NEW cut, cut = Removed(messages, i)
  PROVE  /\ cut \in Seq(AnyRow) /\ DistinctIds(cut)
         /\ Ids(cut) = Ids(messages) \ {messages[i].id}
         /\ \A k \in DOMAIN cut : \E j \in DOMAIN messages \ {i} : cut[k] = messages[j]
<1>1. /\ cut \in Seq(AnyRow)
      /\ \A k \in DOMAIN cut : \E j \in DOMAIN messages \ {i} :
               cut[k] = messages[j] /\ j = IF k < i THEN k ELSE k + 1
      /\ \A j \in DOMAIN messages \ {i} : \E k \in DOMAIN cut : cut[k] = messages[j]
  BY CutOut
<1>2. ASSUME NEW k \in DOMAIN cut, NEW l \in DOMAIN cut, cut[k].id = cut[l].id PROVE k = l
  <2>1. PICK j \in DOMAIN messages \ {i} : cut[k] = messages[j] /\ j = IF k < i THEN k ELSE k + 1
    BY <1>1
  <2>2. PICK n \in DOMAIN messages \ {i} : cut[l] = messages[n] /\ n = IF l < i THEN l ELSE l + 1
    BY <1>1
  <2>3. j = n
    BY <1>2, <2>1, <2>2 DEF DistinctIds
  <2>4. k \in Nat /\ l \in Nat /\ i \in Nat
    <3>1. cut \in Seq(AnyRow)
      BY <1>1
    <3> QED BY <3>1
  <2> QED BY <2>1, <2>2, <2>3, <2>4
<1>3. ASSUME NEW m PROVE m \in Ids(cut) <=> m \in Ids(messages) /\ m # messages[i].id
  <2>1. ASSUME m \in Ids(cut) PROVE m \in Ids(messages) /\ m # messages[i].id
    <3>1. PICK k \in DOMAIN cut : m = cut[k].id
      BY <2>1 DEF Ids
    <3>2. PICK j \in DOMAIN messages \ {i} : cut[k] = messages[j]
      BY <1>1
    <3> QED BY <3>1, <3>2 DEF Ids, DistinctIds
  <2>2. ASSUME m \in Ids(messages), m # messages[i].id PROVE m \in Ids(cut)
    <3>1. PICK j \in DOMAIN messages \ {i} : m = messages[j].id
      BY <2>2 DEF Ids
    <3>2. PICK k \in DOMAIN cut : cut[k] = messages[j]
      BY <1>1
    <3> QED BY <3>1, <3>2 DEF Ids
  <2> QED BY <2>1, <2>2
<1> QED BY <1>1, <1>2, <1>3 DEF DistinctIds

(***************************************************************************)
(* One table changes: what it loses is finished or was handed out.         *)
(***************************************************************************)
LEMMA TableMoves ==
  ASSUME QueueData, NEW p \in Queue, NEW new \in Seq(AnyRow), rows' = [rows EXCEPT ![p] = new],
         UNCHANGED <<backend, stops>>,
         enqueued' \in 0..MaxQueued, enqueued <= enqueued', handed' \in [Message -> Nat],
         finished' \subseteq Message, finished \subseteq finished',
         DistinctIds(new), \A i \in DOMAIN new : RowSound(new[i])',
         \A m \in Ids(new) : m \in Ids(rows[p]) \/ m > enqueued,
         \A m \in Message : m > enqueued' => handed'[m] = 0,
         \A m \in Message : handed'[m] = handed[m]
                            \/ (m \in Ids(rows[p]) /\ handed'[m] > 0
                                /\ handed'[m] <= 1 + (IF backend = "sqlite" THEN stops ELSE 0)),
         \A m \in 1..enqueued' : m \in Ids(rows[p]) \/ m > enqueued =>
            \/ m \in Ids(new) \/ m \in finished' \/ (backend # "sqlite" /\ handed'[m] > 0)
  PROVE  QueueData'
<1>1. rows' \in [Queue -> Seq(AnyRow)] /\ rows'[p] = new /\ \A q \in Queue \ {p} : rows'[q] = rows[q]
  BY DEF QueueData
<1>2. /\ MaxQueued \in Nat /\ MaxStops \in Nat /\ enqueued \in 0..MaxQueued /\ stops \in 0..MaxStops
      /\ handed \in [Message -> Nat]
  BY QueueConstants DEF QueueData
<1>3. \A q \in Queue : \A m \in Ids(rows[q]) : m \in Message /\ m <= enqueued
  BY DEF QueueData, TableSound, RowSound, AnyRow, Row, Ids
<1>4. \A q \in Queue \ {p} : Ids(rows'[q]) \cap Ids(rows'[p]) = {} /\ Ids(rows[q]) \cap Ids(rows[p]) = {}
  <2> SUFFICES ASSUME NEW q \in Queue \ {p}, NEW m, m \in Ids(rows[q]), m \in Ids(new) PROVE FALSE
    BY <1>1 DEF QueueData
  <2>1. m \in Message /\ m <= enqueued /\ m \notin Ids(rows[p])
    BY <1>3 DEF QueueData
  <2> QED BY <1>2, <2>1 DEF Message
<1>5. \A q, r \in Queue : q # r => Ids(rows'[q]) \cap Ids(rows'[r]) = {}
  BY <1>1, <1>4 DEF QueueData
<1>6. ASSUME NEW q \in Queue PROVE TableSound(q)'
  <2>1. CASE q = p
    BY <1>1, <2>1 DEF TableSound, DistinctIds
  <2>2. CASE q # p
    <3>1. TableSound(q) /\ rows'[q] = rows[q]
      BY <1>1, <2>2 DEF QueueData
    <3>2. ASSUME NEW i \in DOMAIN rows[q] PROVE RowSound(rows[q][i])'
      <4>1. PICK row \in AnyRow : row = rows[q][i] /\ RowSound(row)
        BY <3>1, <3>2 DEF TableSound, RowSound
      <4>2. row.id \in Message /\ row.id \in Ids(rows[q]) /\ row.id \in Nat
        BY <3>2, <4>1 DEF AnyRow, Row, Ids, Message
      <4>3. handed'[row.id] = handed[row.id]
        BY <1>4, <2>2, <4>2
      <4>4. RowSound(row)'
        BY <1>2, <4>1, <4>2, <4>3 DEF RowSound
      <4> QED BY <3>1, <4>1, <4>4
    <3> QED BY <3>1, <3>2 DEF TableSound, DistinctIds
  <2> QED BY <2>1, <2>2
<1>7. MessagesDelivered'
  <2> SUFFICES ASSUME NEW m \in 1..enqueued'
               PROVE  /\ \/ \E q \in Queue : m \in Ids(rows'[q])
                         \/ m \in finished'
                         \/ backend # "sqlite" /\ handed'[m] > 0
                      /\ handed'[m] <= 1 + (IF backend = "sqlite" THEN stops ELSE 0)
    BY DEF MessagesDelivered
  <2>1. m \in Message /\ m \in Nat
    BY <1>2 DEF Message
  <2>2. CASE m > enqueued
    <3>1. handed[m] = 0 /\ m \notin Ids(rows[p])
      BY <1>2, <1>3, <2>1, <2>2 DEF QueueData
    <3> QED BY <1>1, <1>2, <2>1, <2>2, <3>1
  <2>3. CASE ~(m > enqueued)
    <3>1. m \in 1..enqueued
      BY <1>2, <2>1, <2>3
    <3>2. /\ \/ \E q \in Queue : m \in Ids(rows[q])
             \/ m \in finished
             \/ backend # "sqlite" /\ handed[m] > 0
          /\ handed[m] <= 1 + (IF backend = "sqlite" THEN stops ELSE 0)
      BY <3>1 DEF QueueData, MessagesDelivered
    <3>3. handed'[m] <= 1 + (IF backend = "sqlite" THEN stops ELSE 0) /\ (handed[m] > 0 => handed'[m] > 0)
      BY <2>1, <3>2
    <3>4. CASE m \in Ids(rows[p])
      BY <1>1, <3>3, <3>4
    <3>5. CASE m \notin Ids(rows[p])
      BY <1>1, <3>2, <3>3, <3>5
    <3> QED BY <3>4, <3>5
  <2> QED BY <2>2, <2>3
<1> QED BY <1>1, <1>2, <1>5, <1>6, <1>7 DEF QueueData

(***************************************************************************)
(* Whole tables go, and a server may have stopped.                         *)
(***************************************************************************)
LEMMA RowsGo ==
  ASSUME QueueData, NEW places \in SUBSET Queue, DropRows(places), UNCHANGED <<backend, enqueued, handed>>,
         stops' \in 0..MaxStops, stops <= stops'
  PROVE  QueueData'
<1>1. /\ rows' = [q \in Queue |-> IF q \in places THEN <<>> ELSE rows[q]]
      /\ finished' = finished \cup UNION {Ids(rows[q]) : q \in places}
  BY DEF DropRows
<1>2. /\ MaxQueued \in Nat /\ MaxStops \in Nat /\ enqueued \in 0..MaxQueued /\ stops \in 0..MaxStops
      /\ handed \in [Message -> Nat] /\ rows \in [Queue -> Seq(AnyRow)]
  BY QueueConstants DEF QueueData
<1>3. rows' \in [Queue -> Seq(AnyRow)]
  <2>1. <<>> \in Seq(AnyRow)
    OBVIOUS
  <2>2. \A q \in Queue : rows'[q] \in Seq(AnyRow)
    BY <1>1, <1>2, <2>1
  <2> QED BY <1>1, <2>2
<1>4. \A q \in Queue : \A m \in Ids(rows[q]) : m \in Message
  BY DEF QueueData, TableSound, RowSound, AnyRow, Row, Ids
<1>5. finished' \subseteq Message /\ finished \subseteq finished'
      /\ \A q \in places : Ids(rows[q]) \subseteq finished'
  BY <1>1, <1>4 DEF QueueData
<1>6. Ids(<<>>) = {}
  BY DEF Ids
<1>7. \A q, r \in Queue : q # r => Ids(rows'[q]) \cap Ids(rows'[r]) = {}
  BY <1>1, <1>6 DEF QueueData
<1>8. ASSUME NEW q \in Queue PROVE TableSound(q)'
  <2>1. CASE q \in places
    BY <1>1, <2>1 DEF TableSound, DistinctIds
  <2>2. CASE q \notin places
    <3>1. TableSound(q) /\ rows'[q] = rows[q]
      BY <1>1, <2>2 DEF QueueData
    <3>2. ASSUME NEW i \in DOMAIN rows[q] PROVE RowSound(rows[q][i])'
      <4>1. PICK row \in AnyRow : row = rows[q][i] /\ RowSound(row)
        BY <3>1, <3>2 DEF TableSound, RowSound
      <4>2. handed[row.id] \in Nat
        BY <1>2, <4>1 DEF AnyRow, Row
      <4>3. RowSound(row)'
        BY <1>2, <4>1, <4>2 DEF RowSound
      <4> QED BY <3>1, <4>1, <4>3
    <3> QED BY <3>1, <3>2 DEF TableSound, DistinctIds
  <2> QED BY <2>1, <2>2
<1>9. MessagesDelivered'
  <2> SUFFICES ASSUME NEW m \in 1..enqueued
               PROVE  /\ \/ \E q \in Queue : m \in Ids(rows'[q])
                         \/ m \in finished'
                         \/ backend # "sqlite" /\ handed[m] > 0
                      /\ handed[m] <= 1 + (IF backend = "sqlite" THEN stops' ELSE 0)
    BY DEF MessagesDelivered
  <2>1. /\ \/ \E q \in Queue : m \in Ids(rows[q])
           \/ m \in finished
           \/ backend # "sqlite" /\ handed[m] > 0
        /\ handed[m] <= 1 + (IF backend = "sqlite" THEN stops ELSE 0)
    BY DEF QueueData, MessagesDelivered
  <2>2. handed[m] \in Nat
    BY <1>2 DEF Message
  <2>3. handed[m] <= 1 + (IF backend = "sqlite" THEN stops' ELSE 0)
    BY <1>2, <2>1, <2>2
  <2>4. ASSUME NEW q \in Queue, m \in Ids(rows[q]) PROVE m \in Ids(rows'[q]) \/ m \in finished'
    BY <1>1, <1>5, <2>4
  <2> QED BY <1>5, <2>1, <2>3, <2>4
<1> QED BY <1>2, <1>3, <1>5, <1>7, <1>8, <1>9 DEF QueueData

LEMMA DataStays ==
  ASSUME QueueData, UNCHANGED <<backend, rows, enqueued, handed, finished>>, stops' \in 0..MaxStops, stops <= stops'
  PROVE  QueueData'
<1>1. DropRows({})
  <2>1. rows' = [q \in Queue |-> rows[q]]
    BY DEF QueueData
  <2> QED BY <2>1 DEF DropRows
<1> QED BY <1>1, RowsGo

LEMMA PlaceTyped ==
  ASSUME NEW q \in Queue
  PROVE  Place(q) \in Queue
  BY QueueConstants DEF Place

LEMMA PushKeeps ==
  ASSUME QueueData, NEW q \in Queue, Pushed(q), enqueued < MaxQueued, enqueued' = enqueued + 1,
         UNCHANGED <<backend, handed, finished, stops>>
  PROVE  QueueData'
<1>1. PICK p \in Queue, id \in Message, old \in Seq(AnyRow) :
         /\ p = Place(q) /\ id = enqueued + 1 /\ old = rows[p] /\ enqueued \in Nat /\ MaxQueued \in Nat
         /\ MaxStops \in Nat /\ stops \in Nat
  BY PlaceTyped, QueueConstants DEF QueueData, Message
<1>2. PICK row \in AnyRow : row.id = id /\ row.status = "pending" /\ row = [id |-> enqueued + 1, status |-> "pending"]
  <2>1. [id |-> enqueued + 1, status |-> "pending"] \in AnyRow
    BY <1>1 DEF AnyRow, Row
  <2> QED BY <1>1, <2>1
<1>3. PICK new : new = Append(old, row)
  OBVIOUS
<1>4. /\ new \in Seq(AnyRow) /\ DOMAIN new = 1..(Len(old) + 1) /\ DOMAIN old = 1..Len(old) /\ Len(old) \in Nat
      /\ new[Len(old) + 1] = row /\ \A i \in 1..Len(old) : new[i] = old[i]
  BY <1>3, AppendProperties
<1>5. rows' = [rows EXCEPT ![p] = new]
  BY <1>1, <1>2, <1>3 DEF Pushed
<1>6. /\ TableSound(p) /\ handed[id] = 0 /\ id > enqueued
      /\ \A i \in DOMAIN old : RowSound(old[i]) /\ old[i].id <= enqueued /\ old[i].id \in Message
  BY <1>1 DEF QueueData, TableSound, RowSound, AnyRow, Row
<1>7. DistinctIds(new)
  <2> SUFFICES ASSUME NEW i \in DOMAIN new, NEW j \in DOMAIN new, new[i].id = new[j].id PROVE i = j
    BY DEF DistinctIds
  <2>1. i \in 1..Len(old) \/ i = Len(old) + 1
    BY <1>4
  <2>2. j \in 1..Len(old) \/ j = Len(old) + 1
    BY <1>4
  <2>3. \A k \in 1..Len(old) : old[k].id # id
    BY <1>1, <1>4, <1>6 DEF Message
  <2>4. \A k, l \in 1..Len(old) : old[k].id = old[l].id => k = l
    BY <1>1, <1>4, <1>6 DEF TableSound, DistinctIds
  <2> QED BY <1>2, <1>4, <2>1, <2>2, <2>3, <2>4
<1>8. ASSUME NEW i \in DOMAIN new PROVE RowSound(new[i])'
  <2>1. PICK r \in AnyRow : r = new[i]
    BY <1>4
  <2>2. RowSound(r)'
    <3>1. CASE i = Len(old) + 1
      BY <1>1, <1>2, <1>4, <1>6, <2>1, <3>1 DEF RowSound
    <3>2. CASE i # Len(old) + 1
      <4>1. RowSound(r) /\ r.id \in Nat /\ r.id <= enqueued
        BY <1>1, <1>4, <1>6, <2>1, <3>2 DEF Message
      <4> QED BY <1>1, <4>1 DEF RowSound
    <3> QED BY <3>1, <3>2
  <2> QED BY <2>1, <2>2
<1>9. \A m \in Ids(new) : m \in Ids(rows[p]) \/ m > enqueued
  <2> SUFFICES ASSUME NEW i \in DOMAIN new PROVE new[i].id \in Ids(old) \/ new[i].id > enqueued
    BY <1>1 DEF Ids
  <2>1. i \in 1..Len(old) \/ i = Len(old) + 1
    BY <1>4
  <2> QED BY <1>2, <1>4, <1>6, <2>1 DEF Ids
<1>10. \A m \in Ids(rows[p]) : m \in Ids(new)
  BY <1>1, <1>4 DEF Ids
<1>11. id \in Ids(new)
  BY <1>2, <1>4 DEF Ids
<1>12. \A m \in 1..enqueued' : m > enqueued => m = id
  BY <1>1
<1>13. enqueued' \in 0..MaxQueued /\ enqueued <= enqueued' /\ handed' \in [Message -> Nat]
       /\ finished' \subseteq Message /\ finished \subseteq finished'
       /\ \A m \in Message : m > enqueued' => handed'[m] = 0
  BY <1>1 DEF QueueData, Message
<1>14. \A m \in 1..enqueued' : m \in Ids(rows[p]) \/ m > enqueued => m \in Ids(new)
  BY <1>10, <1>11, <1>12
<1> HIDE DEF RowSound
<1> QED BY <1>4, <1>5, <1>7, <1>8, <1>9, <1>13, <1>14, TableMoves

LEMMA TakeKeeps ==
  ASSUME QueueData, NEW p \in Queue, NEW i \in DOMAIN rows[p], IsNext(rows[p], i),
         rows' = [rows EXCEPT ![p] = Taken(rows[p], i)],
         handed' = [handed EXCEPT ![rows[p][i].id] = @ + 1],
         UNCHANGED <<backend, enqueued, finished, stops>>
  PROVE  QueueData'
<1>1. PICK old \in Seq(AnyRow), row \in AnyRow :
         old = rows[p] /\ row = old[i] /\ row.status = "pending" /\ RowSound(row) /\ DistinctIds(old)
  BY DEF QueueData, TableSound, RowSound, IsNext
<1>2. /\ row.id \in Message /\ row.id \in Ids(rows[p]) /\ Message \subseteq Nat
      /\ handed \in [Message -> Nat] /\ stops \in Nat /\ enqueued \in 0..MaxQueued
      /\ backend \in {"memory", "sqlite", "tidb"}
  BY <1>1, QueueConstants DEF AnyRow, Row, Ids, Message, QueueData
<1>3. /\ handed' \in [Message -> Nat] /\ handed'[row.id] = handed[row.id] + 1
      /\ \A m \in Message : m # row.id => handed'[m] = handed[m]
  <2>1. PICK id \in Message : id = row.id /\ id = rows[p][i].id
    BY <1>1, <1>2
  <2>2. handed' = [handed EXCEPT ![id] = @ + 1]
    BY <2>1
  <2>3. handed[id] \in Nat
    BY <1>2
  <2> QED BY <1>2, <2>1, <2>2, <2>3
<1>4. handed'[row.id] > 0 /\ handed'[row.id] <= 1 + (IF backend = "sqlite" THEN stops ELSE 0)
  <2>1. PICK n \in Nat : n = handed[row.id] /\ handed'[row.id] = n + 1
    BY <1>2, <1>3
  <2>2. n <= IF backend = "sqlite" THEN stops ELSE 0
    BY <1>1, <1>2, <2>1 DEF RowSound
  <2>3. CASE backend = "sqlite"
    BY <1>2, <2>1, <2>2, <2>3
  <2>4. CASE backend # "sqlite"
    BY <1>2, <2>1, <2>2, <2>4
  <2> QED BY <2>3, <2>4
<1>5. PICK new : new = Taken(old, i)
  OBVIOUS
<1>6. /\ new \in Seq(AnyRow) /\ DistinctIds(new) /\ (\A k \in DOMAIN new : RowSound(new[k])')
      /\ (\A m \in Ids(new) : m \in Ids(rows[p]))
      /\ (\A m \in Ids(rows[p]) : m \in Ids(new) \/ (backend # "sqlite" /\ m = row.id))
  <2>1. CASE backend # "sqlite"
    <3>1. new = Removed(old, i)
      BY <1>2, <1>5, <2>1 DEF Taken, MarkedDeleted
    <3>2. /\ new \in Seq(AnyRow) /\ DistinctIds(new) /\ Ids(new) = Ids(old) \ {row.id}
          /\ \A k \in DOMAIN new : \E j \in DOMAIN old \ {i} : new[k] = old[j]
      BY <1>1, <3>1, CutOutRows
    <3>3. ASSUME NEW k \in DOMAIN new PROVE RowSound(new[k])'
      <4>1. PICK j \in DOMAIN old \ {i} : new[k] = old[j]
        BY <3>2
      <4>2. PICK r \in AnyRow : r = old[j] /\ RowSound(r) /\ r.id # row.id
        BY <1>1, <4>1 DEF QueueData, TableSound, RowSound, DistinctIds
      <4>3. r.id \in Message
        BY <4>2 DEF AnyRow, Row
      <4>4. RowSound(r)'
        BY <1>3, <4>2, <4>3 DEF RowSound
      <4> QED BY <4>1, <4>2, <4>4
    <3> HIDE DEF RowSound
    <3> QED BY <1>1, <2>1, <3>2, <3>3
  <2>2. CASE backend = "sqlite"
    <3>1. new = [old EXCEPT ![i].status = "processing"]
      BY <1>5, <2>2 DEF Taken, Processing
    <3>2. PICK held : held = [row EXCEPT !.status = "processing"]
      OBVIOUS
    <3>3. held \in AnyRow /\ held.id = row.id /\ held.status = "processing"
      BY <1>1, <3>2 DEF AnyRow, Row
    <3>4. new = [old EXCEPT ![i] = held]
      BY <1>1, <3>1, <3>2
    <3>5. /\ new \in Seq(AnyRow) /\ DOMAIN new = DOMAIN old /\ new[i] = held
          /\ \A k \in DOMAIN old \ {i} : new[k] = old[k]
      BY <1>1, <3>3, <3>4
    <3>6. \A k \in DOMAIN old : new[k].id = old[k].id
      BY <1>1, <3>3, <3>5
    <3>7. DistinctIds(new) /\ Ids(new) = Ids(old)
      BY <1>1, <3>5, <3>6 DEF DistinctIds, Ids
    <3>8. ASSUME NEW k \in DOMAIN new PROVE RowSound(new[k])'
      <4>1. CASE k = i
        <5>1. PICK n \in Nat : n = handed[held.id] /\ handed'[held.id] = n + 1
          BY <1>2, <1>3, <3>3
        <5>2. n <= stops /\ held.id <= enqueued
          BY <1>1, <1>2, <2>2, <3>3, <5>1 DEF RowSound
        <5>3. handed'[held.id] <= stops + 1
          BY <1>2, <5>1, <5>2
        <5>4. RowSound(held)'
          BY <2>2, <3>3, <5>2, <5>3 DEF RowSound
        <5> QED BY <3>5, <4>1, <5>4
      <4>2. CASE k # i
        <5>1. PICK r \in AnyRow : r = old[k] /\ RowSound(r) /\ r.id # row.id
          BY <1>1, <3>5, <4>2 DEF QueueData, TableSound, RowSound, DistinctIds
        <5>2. r.id \in Message
          BY <5>1 DEF AnyRow, Row
        <5>3. RowSound(r)'
          BY <1>3, <5>1, <5>2 DEF RowSound
        <5> QED BY <3>5, <4>2, <5>1, <5>3
      <4> QED BY <4>1, <4>2
    <3> HIDE DEF RowSound
    <3> QED BY <1>1, <3>5, <3>7, <3>8
  <2> QED BY <2>1, <2>2
<1>7. rows' = [rows EXCEPT ![p] = new]
  BY <1>1, <1>5
<1>8. /\ enqueued' \in 0..MaxQueued /\ enqueued <= enqueued' /\ finished' \subseteq Message /\ finished \subseteq finished'
  BY <1>2 DEF QueueData
<1>9. \A m \in Message : m > enqueued' => handed'[m] = 0
  <2>1. row.id <= enqueued
    BY <1>1 DEF RowSound
  <2> QED BY <1>2, <1>3, <2>1 DEF QueueData
<1>10. \A m \in 1..enqueued' : m \in Ids(rows[p]) \/ m > enqueued =>
          m \in Ids(new) \/ m \in finished' \/ (backend # "sqlite" /\ handed'[m] > 0)
  <2>1. \A m \in 1..enqueued' : ~(m > enqueued)
    BY <1>2
  <2> QED BY <1>4, <1>6, <2>1
<1>11. \A m \in Message : handed'[m] = handed[m]
          \/ (m \in Ids(rows[p]) /\ handed'[m] > 0 /\ handed'[m] <= 1 + (IF backend = "sqlite" THEN stops ELSE 0))
  BY <1>2, <1>3, <1>4
<1> HIDE DEF RowSound
<1> QED BY <1>3, <1>6, <1>7, <1>8, <1>9, <1>10, <1>11, TableMoves

LEMMA DequeueKeeps ==
  ASSUME QueueData, NEW s, NEW q \in Queue, Dequeue(s, q), UNCHANGED <<backend, enqueued, finished, stops>>
  PROVE  QueueData'
<1>1. PICK p \in Queue : p = Place(q)
  BY PlaceTyped
<1>2. CASE UNCHANGED <<rows, handed>>
  BY <1>2, DataStays DEF QueueData
<1>3. CASE \E i \in DOMAIN rows[p] : /\ IsNext(rows[p], i)
                                    /\ rows' = [rows EXCEPT ![p] = Taken(rows[p], i)]
                                    /\ handed' = [handed EXCEPT ![rows[p][i].id] = @ + 1]
  BY <1>3, TakeKeeps
<1> QED BY <1>1, <1>2, <1>3 DEF Dequeue

LEMMA AckKeeps ==
  ASSUME QueueData, NEW s, NEW q \in Queue, NEW m \in Message, AckMessage(s, q, m)
  PROVE  QueueData'
<1>1. PICK i \in DOMAIN rows[q] :
         rows[q][i] = [id |-> m, status |-> "processing"] /\ rows' = [rows EXCEPT ![q] = Removed(rows[q], i)]
  BY DEF AckMessage
<1>2. PICK old, new : old \in Seq(AnyRow) /\ old = rows[q] /\ new = Removed(old, i) /\ DistinctIds(old)
  BY DEF QueueData, TableSound
<1>3. /\ new \in Seq(AnyRow) /\ DistinctIds(new) /\ Ids(new) = Ids(old) \ {m}
      /\ \A k \in DOMAIN new : \E j \in DOMAIN old \ {i} : new[k] = old[j]
  BY <1>1, <1>2, CutOutRows
<1>4. rows' = [rows EXCEPT ![q] = new]
  BY <1>1, <1>2
<1>5. /\ UNCHANGED <<backend, stops, enqueued, handed>> /\ finished' = finished \cup {m}
      /\ enqueued \in 0..MaxQueued /\ handed \in [Message -> Nat] /\ finished \subseteq Message /\ MaxQueued \in Nat
  BY QueueConstants DEF AckMessage, QueueData
<1>6. ASSUME NEW k \in DOMAIN new PROVE RowSound(new[k])'
  <2>1. PICK j \in DOMAIN old : new[k] = old[j] /\ RowSound(old[j])
    BY <1>2, <1>3 DEF QueueData, TableSound
  <2>2. PICK r : r = old[j]
    OBVIOUS
  <2>3. RowSound(r)'
    BY <1>5, <2>1, <2>2 DEF RowSound
  <2> QED BY <2>1, <2>2, <2>3
<1>7. /\ enqueued' \in 0..MaxQueued /\ enqueued <= enqueued' /\ handed' \in [Message -> Nat]
      /\ finished' \subseteq Message /\ finished \subseteq finished'
      /\ \A n \in Message : n > enqueued' => handed'[n] = 0
      /\ \A n \in Message : handed'[n] = handed[n]
  BY <1>5 DEF QueueData
<1>8. /\ \A n \in Ids(new) : n \in Ids(rows[q]) \/ n > enqueued
      /\ \A n \in 1..enqueued' : n \in Ids(rows[q]) \/ n > enqueued => n \in Ids(new) \/ n \in finished'
  <2>1. \A n \in 1..enqueued' : ~(n > enqueued)
    BY <1>5
  <2> QED BY <1>2, <1>3, <1>5, <2>1
<1> HIDE DEF RowSound
<1> QED BY <1>3, <1>4, <1>5, <1>6, <1>7, <1>8, TableMoves

\* What is recovered keeps its place and may be handed out once more.
LEMMA RecoverKeeps ==
  ASSUME QueueData, backend = "sqlite", rows' = [q \in Queue |-> Recovered(rows[q])],
         UNCHANGED <<backend, enqueued, handed, finished>>, stops' = stops + 1, stops < MaxStops
  PROVE  QueueData'
<1>1. /\ MaxStops \in Nat /\ stops \in Nat /\ stops' \in 0..MaxStops /\ handed \in [Message -> Nat]
  BY QueueConstants DEF QueueData
<1>2. ASSUME NEW q \in Queue
      PROVE  /\ rows'[q] \in Seq(AnyRow) /\ DOMAIN rows'[q] = DOMAIN rows[q]
             /\ \A i \in DOMAIN rows[q] : rows'[q][i].id = rows[q][i].id /\ rows'[q][i].status = "pending"
  <2>1. PICK old, new : old \in Seq(AnyRow) /\ old = rows[q] /\ new = rows'[q] /\ new = Recovered(old)
    BY DEF QueueData
  <2>2. ASSUME NEW i \in DOMAIN old
        PROVE  [old[i] EXCEPT !.status = "pending"] \in AnyRow
               /\ [old[i] EXCEPT !.status = "pending"].id = old[i].id
               /\ [old[i] EXCEPT !.status = "pending"].status = "pending"
    <3>1. old[i] \in AnyRow
      BY <2>1
    <3> QED BY <3>1 DEF AnyRow, Row
  <2>3. /\ DOMAIN new = DOMAIN old /\ DOMAIN old = 1..Len(old) /\ Len(old) \in Nat
        /\ \A i \in DOMAIN old : new[i] = [old[i] EXCEPT !.status = "pending"]
    BY <2>1 DEF Recovered
  <2>4. new \in [1..Len(old) -> AnyRow]
    BY <2>1, <2>2, <2>3 DEF Recovered
  <2>5. new \in Seq(AnyRow)
    BY <2>3, <2>4
  <2>6. \A i \in DOMAIN old : new[i].id = old[i].id /\ new[i].status = "pending"
    BY <2>2, <2>3
  <2> QED BY <2>1, <2>3, <2>5, <2>6
<1>3. rows' \in [Queue -> Seq(AnyRow)]
  BY <1>2
<1>4. \A q \in Queue : Ids(rows'[q]) = Ids(rows[q])
  BY <1>2 DEF Ids
<1>5. ASSUME NEW q \in Queue PROVE TableSound(q)'
  <2>1. TableSound(q)
    BY DEF QueueData
  <2>2. DistinctIds(rows'[q])
    BY <1>2, <2>1 DEF TableSound, DistinctIds
  <2>3. ASSUME NEW i \in DOMAIN rows'[q] PROVE RowSound(rows[q][i])'
    <3>1. PICK new \in AnyRow, r \in AnyRow : /\ new = rows'[q][i] /\ r = rows[q][i] /\ RowSound(r)
                                             /\ new.id = r.id /\ new.status = "pending"
      BY <1>2, <2>1 DEF TableSound, RowSound
    <3>2. handed[r.id] \in Nat /\ r.id <= enqueued /\ handed[r.id] <= stops + 1
      <4>1. handed[r.id] \in Nat
        BY <1>1 DEF AnyRow, Row
      <4>2. handed[r.id] <= stops + (IF r.status = "processing" THEN 1 ELSE 0)
        BY <3>1 DEF RowSound
      <4> QED BY <1>1, <3>1, <4>1, <4>2 DEF RowSound
    <3>3. RowSound(new)'
      BY <1>1, <3>1, <3>2 DEF RowSound
    <3> QED BY <3>1, <3>3
  <2> QED BY <2>2, <2>3 DEF TableSound
<1>6. MessagesDelivered'
  <2> SUFFICES ASSUME NEW m \in 1..enqueued
               PROVE  /\ (\E q \in Queue : m \in Ids(rows'[q])) \/ m \in finished
                      /\ handed[m] <= 1 + stops'
    BY DEF MessagesDelivered
  <2>1. /\ (\E q \in Queue : m \in Ids(rows[q])) \/ m \in finished
        /\ handed[m] <= 1 + stops
    BY DEF QueueData, MessagesDelivered
  <2>2. handed[m] \in Nat
    BY <1>1, QueueConstants DEF QueueData, Message
  <2> QED BY <1>1, <1>4, <2>1, <2>2
<1>7. \A p, q \in Queue : p # q => Ids(rows'[p]) \cap Ids(rows'[q]) = {}
  BY <1>4 DEF QueueData
<1> QED BY <1>1, <1>3, <1>5, <1>6, <1>7 DEF QueueData

LEMMA RestartKeeps ==
  ASSUME QueueData, NEW s, RestartServer(s)
  PROVE  QueueData'
<1>1. stops' = stops + 1 /\ stops < MaxStops /\ UNCHANGED <<backend, enqueued, handed>>
  BY DEF RestartServer
<1>2. stops' \in 0..MaxStops /\ stops <= stops' /\ backend \in {"memory", "sqlite", "tidb"}
  BY <1>1, QueueConstants DEF QueueData
<1>3. CASE backend = "memory"
  <2>1. DropRows(Queue)
    BY <1>3 DEF RestartServer
  <2> QED BY <1>1, <1>2, <2>1, RowsGo
<1>4. CASE backend = "sqlite"
  <2>1. rows' = [q \in Queue |-> Recovered(rows[q])] /\ finished' = finished
    BY <1>4 DEF RestartServer
  <2> QED BY <1>1, <1>4, <2>1, RecoverKeeps
<1>5. CASE backend = "tidb"
  <2>1. UNCHANGED <<rows, finished>>
    BY <1>5 DEF RestartServer
  <2> QED BY <1>1, <1>2, <2>1, DataStays
<1> QED BY <1>2, <1>3, <1>4, <1>5

LEMMA QueueDataStep ==
  ASSUME QueueInv, QueueNext
  PROVE  QueueData'
<1> QueueData
  BY DEF QueueInv
<1>1. stops \in 0..MaxStops /\ stops <= stops
  BY QueueConstants DEF QueueData
<1>2. ASSUME UNCHANGED <<backend, rows, enqueued, handed, finished, stops>> PROVE QueueData'
  BY <1>1, <1>2, DataStays
<1>3. ASSUME NEW places \in SUBSET Queue, DropRows(places), UNCHANGED <<backend, enqueued, handed, stops>>
      PROVE  QueueData'
  BY <1>1, <1>3, RowsGo
<1>4. ASSUME NEW s \in QueueServer, NEW q \in Queue, ReadControlFile(s, q) PROVE QueueData'
  <2>1. CASE ReadDequeue(s, q)
    BY <2>1, DequeueKeeps DEF ReadDequeue
  <2>2. CASE LookAt(s, q)
    BY <1>2, <2>2 DEF LookAt
  <2> QED BY <1>4, <2>1, <2>2 DEF ReadControlFile
<1>5. ASSUME NEW s \in QueueServer, NEW q \in Queue, WriteControlFile(s, q) PROVE QueueData'
  <2>1. CASE Enqueue(s, q)
    BY <2>1, PushKeeps DEF Enqueue
  <2>2. CASE EnqueueRow(s, q)
    <3>1. CASE TableName[q] \in tables
      BY <2>2, <3>1, PushKeeps DEF EnqueueRow
    <3>2. CASE TableName[q] \notin tables
      BY <1>2, <2>2, <3>2 DEF EnqueueRow
    <3> QED BY <3>1, <3>2
  <2>3. CASE ClearQueue(s, q)
    <3>1. PICK p \in Queue : p = Place(q)
      BY PlaceTyped
    <3>2. rows' = [rows EXCEPT ![p] = <<>>] /\ finished' = finished \cup Ids(rows[p])
      BY <2>3, <3>1 DEF ClearQueue
    <3>3. DropRows({p})
      BY <3>2 DEF DropRows, QueueData
    <3>4. UNCHANGED <<backend, enqueued, handed, stops>> /\ {p} \in SUBSET Queue
      BY <2>3 DEF ClearQueue
    <3> QED BY <1>3, <3>3, <3>4
  <2>4. CASE \E m \in Message : AckMessage(s, q, m)
    BY <2>4, AckKeeps
  <2> QED BY <1>5, <2>1, <2>2, <2>3, <2>4 DEF WriteControlFile
<1>6. ASSUME NEW s \in QueueServer, NEW q \in Queue, MakeQueue(s, q) \/ MakeTable(s, q) PROVE QueueData'
  BY <1>2, <1>6 DEF MakeQueue, MakeTable
<1>7. ASSUME NEW s \in QueueServer, NEW q \in Queue, RemoveQueue(s, q) \/ RemoveMessages(s, q) PROVE QueueData'
  <2>1. UnderQueue(q) \in SUBSET Queue
    BY DEF UnderQueue
  <2> QED BY <1>3, <1>7, <2>1 DEF RemoveQueue, RemoveMessages
<1>8. ASSUME NEW s \in QueueServer, NEW q \in Queue, DropTable(s, q) PROVE QueueData'
  <2>1. CASE DropRows({TableName[q]})
    <3>1. {TableName[q]} \in SUBSET Queue
      BY QueueConstants
    <3> QED BY <1>3, <1>8, <2>1, <3>1 DEF DropTable
  <2>2. CASE UNCHANGED <<rows, finished>>
    BY <1>2, <1>8, <2>2 DEF DropTable
  <2> QED BY <1>8, <2>1, <2>2 DEF DropTable
<1>9. ASSUME NEW s \in QueueServer, NEW q \in Queue, ListTables(s, q) PROVE QueueData'
  BY <1>2, <1>9 DEF ListTables
<1>10. ASSUME NEW s \in QueueServer, NEW q \in Queue, NEW h \in QueueHandle, OpenQueue(h, s, q) PROVE QueueData'
  BY <1>2, <1>10 DEF OpenQueue
<1>11. ASSUME NEW s \in QueueServer, RemoveNames(s) PROVE QueueData'
  BY <1>2, <1>11 DEF RemoveNames
<1>12. ASSUME NEW s \in QueueServer, RestartServer(s) PROVE QueueData'
  BY <1>12, RestartKeeps
<1>13. ASSUME NEW h \in QueueHandle, ReadHandle(h) PROVE QueueData'
  <2>1. queueHandle[h].queue \in Queue
    BY <1>13 DEF ReadHandle, QueueInv, QueueControl, QueueHandles
  <2>2. Dequeue(queueHandle[h].server, queueHandle[h].queue) /\ UNCHANGED <<backend, enqueued, finished, stops>>
    BY <1>13 DEF ReadHandle
  <2> QED BY <2>1, <2>2, DequeueKeeps
<1>14. ASSUME NEW h \in QueueHandle, CloseQueue(h) PROVE QueueData'
  BY <1>2, <1>14 DEF CloseQueue
<1> HIDE DEF QueueData
<1> QED BY <1>4, <1>5, <1>6, <1>7, <1>8, <1>9, <1>10, <1>11, <1>12, <1>13, <1>14 DEF QueueNext

LEMMA QueueControlStep ==
  ASSUME QueueInv, QueueNext
  PROVE  QueueControl'
<1>a. /\ registered \subseteq Queue /\ tables \subseteq Queue
      /\ tableCache \in [QueueServer -> SUBSET Queue] /\ removal \in [QueueServer -> Removals]
      /\ queueHandle \in [QueueHandle -> QueueHandles] /\ requests \in 0..MaxRequests
      /\ TableName \in [Queue -> Queue] /\ MaxRequests \in Nat
  BY QueueConstants DEF QueueInv, QueueControl
<1>b. ASSUME NEW s, Serves(s) PROVE requests' \in 0..MaxRequests
  BY <1>a, <1>b DEF Serves
<1>c. ASSUME NEW s, NEW q \in Queue, Cache(s, q) PROVE tableCache' \in [QueueServer -> SUBSET Queue]
  <2>1. tableCache' = [tableCache EXCEPT ![s] = @ \cup {q}]
    BY <1>c DEF Cache
  <2> QED BY <1>a, <2>1
<1>d. NoRemoval \in Removals /\ NoQueueHandle \in QueueHandles
      /\ \A at \in {"drop", "registry"}, q \in Queue, drop \in SUBSET Queue :
            [at |-> at, queue |-> q, drop |-> drop] \in Removals
  BY DEF Removals, QueueHandles
<1>1. ASSUME NEW s \in QueueServer, NEW q \in Queue, ReadControlFile(s, q) \/ WriteControlFile(s, q) PROVE QueueControl'
  <2>1. UNCHANGED <<tables, removal, queueHandle>> /\ Serves(s)
    BY <1>1 DEF ReadControlFile, WriteControlFile, ReadDequeue, Dequeue, LookAt, Enqueue, EnqueueRow, ClearQueue, AckMessage
  <2>2. registered' = registered \/ registered' = registered \cup {q}
    BY <1>1 DEF ReadControlFile, WriteControlFile, ReadDequeue, Dequeue, LookAt, Enqueue, EnqueueRow, ClearQueue, AckMessage
  <2>3. tableCache' = tableCache \/ Cache(s, q)
    BY <1>1 DEF ReadControlFile, WriteControlFile, ReadDequeue, Dequeue, LookAt, Enqueue, EnqueueRow, ClearQueue, AckMessage
  <2>4. tableCache' \in [QueueServer -> SUBSET Queue]
    BY <1>a, <1>c, <2>3
  <2> QED BY <1>a, <1>b, <2>1, <2>2, <2>4 DEF QueueControl
<1>2. ASSUME NEW s \in QueueServer, NEW q \in Queue, MakeQueue(s, q) PROVE QueueControl'
  BY <1>a, <1>b, <1>2 DEF MakeQueue, QueueControl
<1>3. ASSUME NEW s \in QueueServer, NEW q \in Queue, MakeTable(s, q) PROVE QueueControl'
  <2>1. tableCache' \in [QueueServer -> SUBSET Queue] /\ registered' \subseteq Queue
    BY <1>a, <1>c, <1>3 DEF MakeTable
  <2>2. requests' \in 0..MaxRequests /\ UNCHANGED <<removal, queueHandle>> /\ tables' = tables \cup {TableName[q]}
    BY <1>b, <1>3 DEF MakeTable
  <2>3. TableName[q] \in Queue
    BY <1>a
  <2> QED BY <1>a, <2>1, <2>2, <2>3 DEF QueueControl
<1>4. ASSUME NEW s \in QueueServer, NEW q \in Queue, RemoveQueue(s, q) PROVE QueueControl'
  BY <1>a, <1>b, <1>4 DEF RemoveQueue, QueueControl
<1>5. ASSUME NEW s \in QueueServer, NEW q \in Queue, RemoveMessages(s, q) PROVE QueueControl'
  <2>1. PICK r \in Removals : r = [at |-> "registry", queue |-> q, drop |-> {}]
    BY <1>d
  <2>2. removal' = [removal EXCEPT ![s] = r]
    BY <1>5, <2>1 DEF RemoveMessages
  <2>3. removal' \in [QueueServer -> Removals]
    BY <1>a, <2>2
  <2>4. requests' \in 0..MaxRequests /\ UNCHANGED <<registered, tables, tableCache, queueHandle>>
    BY <1>b, <1>5 DEF RemoveMessages
  <2> QED BY <1>a, <2>3, <2>4 DEF QueueControl
<1>6. ASSUME NEW s \in QueueServer, NEW q \in Queue, ListTables(s, q) PROVE QueueControl'
  <2>1. PICK r \in Removals : r = [at |-> "drop", queue |-> q, drop |-> UnderQueue(q) \cap registered]
    <3>1. UnderQueue(q) \cap registered \in SUBSET Queue
      BY <1>a
    <3> QED BY <1>d, <3>1
  <2>2. removal' = [removal EXCEPT ![s] = r]
    BY <1>6, <2>1 DEF ListTables
  <2>3. removal' \in [QueueServer -> Removals]
    BY <1>a, <2>2
  <2>4. requests' \in 0..MaxRequests /\ UNCHANGED <<registered, tables, tableCache, queueHandle>>
    BY <1>b, <1>6 DEF ListTables
  <2> QED BY <1>a, <2>3, <2>4 DEF QueueControl
<1>7. ASSUME NEW s \in QueueServer, NEW q \in Queue, DropTable(s, q) PROVE QueueControl'
  <2>1. PICK old \in Removals : old = removal[s] /\ old.at = "drop"
    BY <1>a, <1>7 DEF DropTable
  <2>2. PICK r : r = [old EXCEPT !.drop = @ \ {q}]
    OBVIOUS
  <2>3. r \in Removals
    <3>1. old \in [at : {"drop", "registry"}, queue : Queue, drop : SUBSET Queue]
      <4>1. NoRemoval.at = "none"
        BY DEF NoRemoval
      <4> QED BY <2>1, <4>1 DEF Removals
    <3>2. r = [at |-> "drop", queue |-> old.queue, drop |-> old.drop \ {q}]
      BY <2>1, <2>2, <3>1
    <3>3. old.queue \in Queue /\ old.drop \ {q} \in SUBSET Queue
      BY <3>1
    <3> QED BY <1>d, <3>2, <3>3
  <2>4. removal' = [removal EXCEPT ![s] = r]
    BY <1>7, <2>1, <2>2 DEF DropTable
  <2>5. removal' \in [QueueServer -> Removals]
    BY <1>a, <2>3, <2>4
  <2>6. tableCache' \in [QueueServer -> SUBSET Queue] /\ tables' \subseteq Queue /\ UNCHANGED <<registered, queueHandle, requests>>
    BY <1>a, <1>7 DEF DropTable
  <2> QED BY <1>a, <2>5, <2>6 DEF QueueControl
<1>8. ASSUME NEW s \in QueueServer, NEW h \in QueueHandle, NEW q \in Queue, OpenQueue(h, s, q) PROVE QueueControl'
  <2>1. [server |-> s, queue |-> q, read |-> FALSE] \in QueueHandles
    BY DEF QueueHandles
  <2>2. queueHandle' \in [QueueHandle -> QueueHandles]
    BY <1>a, <1>8, <2>1 DEF OpenQueue
  <2> QED BY <1>a, <1>8, <2>2 DEF OpenQueue, QueueControl
<1>9. ASSUME NEW s \in QueueServer, RemoveNames(s) PROVE QueueControl'
  BY <1>a, <1>d, <1>9 DEF RemoveNames, QueueControl
<1>10. ASSUME NEW s \in QueueServer, RestartServer(s) PROVE QueueControl'
  <2>1. tableCache' \in [QueueServer -> SUBSET Queue] /\ removal' \in [QueueServer -> Removals]
    BY <1>a, <1>d, <1>10 DEF RestartServer
  <2>2. queueHandle' \in [QueueHandle -> QueueHandles]
    BY <1>a, <1>d, <1>10 DEF RestartServer
  <2>3. registered' \subseteq Queue
    <3>1. backend \in {"memory", "sqlite", "tidb"}
      BY QueueConstants DEF QueueInv, QueueData
    <3>2. registered' = {} \/ registered' = registered
      BY <1>10, <3>1 DEF RestartServer
    <3> QED BY <1>a, <3>2
  <2>4. UNCHANGED <<requests, tables>>
    BY <1>10 DEF RestartServer
  <2> QED BY <1>a, <2>1, <2>2, <2>3, <2>4 DEF QueueControl
<1>11. ASSUME NEW h \in QueueHandle, ReadHandle(h) PROVE QueueControl'
  <2>1. PICK old \in QueueHandles : old = queueHandle[h] /\ old # NoQueueHandle
    BY <1>a, <1>11 DEF ReadHandle
  <2>2. PICK fails \in BOOLEAN : queueHandle' = [queueHandle EXCEPT ![h].read = fails]
    BY <1>11 DEF ReadHandle
  <2>3. PICK r : r = [old EXCEPT !.read = fails]
    OBVIOUS
  <2>4. r \in QueueHandles
    BY <2>1, <2>2, <2>3 DEF QueueHandles
  <2>5. queueHandle' = [queueHandle EXCEPT ![h] = r]
    BY <2>1, <2>2, <2>3
  <2>6. queueHandle' \in [QueueHandle -> QueueHandles]
    BY <1>a, <2>4, <2>5
  <2>7. old.queue \in Queue
    BY <2>1 DEF QueueHandles
  <2>8. Dequeue(old.server, old.queue) /\ UNCHANGED <<registered, tables, removal>>
    BY <1>11, <2>1 DEF ReadHandle
  <2>9. tableCache' = tableCache \/ Cache(old.server, old.queue)
    BY <2>8 DEF Dequeue
  <2>10. tableCache' \in [QueueServer -> SUBSET Queue]
    BY <1>a, <1>c, <2>7, <2>9
  <2>11. requests' \in 0..MaxRequests
    BY <1>b, <2>8 DEF Dequeue
  <2> QED BY <1>a, <2>6, <2>8, <2>10, <2>11 DEF QueueControl
<1>12. ASSUME NEW h \in QueueHandle, CloseQueue(h) PROVE QueueControl'
  BY <1>a, <1>d, <1>12 DEF CloseQueue, QueueControl
<1> HIDE DEF QueueControl
<1> QED BY <1>1, <1>2, <1>3, <1>4, <1>5, <1>6, <1>7, <1>8, <1>9, <1>10, <1>11, <1>12 DEF QueueNext

LEMMA QueueInitially ==
  ASSUME QueueInit
  PROVE  QueueInv
<1>1. <<>> \in Seq(AnyRow) /\ MaxQueued \in Nat /\ MaxRequests \in Nat /\ MaxStops \in Nat /\ Ids(<<>>) = {}
  BY QueueConstants DEF Ids
<1>2. QueueData
  <2>1. \A q \in Queue : TableSound(q) /\ Ids(rows[q]) = {}
    BY <1>1 DEF QueueInit, TableSound, DistinctIds
  <2>2. MessagesDelivered
    BY DEF QueueInit, MessagesDelivered
  <2> QED BY <1>1, <2>1, <2>2 DEF QueueInit, QueueData
<1>3. QueueControl
  BY <1>1 DEF QueueInit, QueueControl, Removals, QueueHandles
<1> QED BY <1>2, <1>3 DEF QueueInv

LEMMA QueueStutters ==
  ASSUME QueueInv, UNCHANGED queueVars
  PROVE  QueueInv'
<1>1. QueueData'
  <2>1. stops \in 0..MaxStops /\ stops <= stops /\ UNCHANGED <<backend, rows, enqueued, handed, finished, stops>>
    BY QueueConstants DEF QueueInv, QueueData, queueVars
  <2> QED BY <2>1, DataStays DEF QueueInv
<1>2. QueueControl'
  BY DEF QueueInv, QueueControl, queueVars
<1> QED BY <1>1, <1>2 DEF QueueInv

(***************************************************************************)
(* Whatever handles, servers, removals and restarts do, no message is in   *)
(* two tables or twice in one, and one that was handed out has left its    *)
(* table or, with SQLite, stays there as one in processing.                *)
(* (backend.go:118; sqlite_backend.go:117-189; db_backend.go)              *)
(***************************************************************************)
THEOREM QueueInvariant == QueueSpec => []QueueInv
<1>1. QueueInit => QueueInv
  BY QueueInitially
<1>2. QueueInv /\ [QueueNext]_queueVars => QueueInv'
  BY QueueDataStep, QueueControlStep, QueueStutters DEF QueueInv
<1> QED BY <1>1, <1>2, PTL DEF QueueSpec

(***************************************************************************)
(* The tables, the caches of the servers, what they remove and the handles *)
(* stay what the three stores hold.  (queuefs.go, backend.go)              *)
(***************************************************************************)
THEOREM QueueTypeCorrect == QueueSpec => []QueueTypeOK
<1>1. QueueInv => QueueTypeOK
  BY DEF QueueInv, QueueData, QueueControl, QueueTypeOK, Removals, QueueHandles, AnyRow
<1> QED BY <1>1, QueueInvariant, PTL

(***************************************************************************)
(* For any servers, queues and stores: a message that was accepted is not  *)
(* lost before it was handed out, or acknowledged, and none is handed out  *)
(* twice, but with SQLite once more after each restart.                    *)
(* (sqlite_backend.go:19, 117-189; backend.go:118, 377; queuefs.go:1135)   *)
(***************************************************************************)
THEOREM MessagesArrive == QueueSpec => []MessagesDelivered
<1>1. QueueInv => MessagesDelivered
  BY DEF QueueInv, QueueData
<1> QED BY <1>1, QueueInvariant, PTL
=============================================================================
