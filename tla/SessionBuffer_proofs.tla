------------------------ MODULE SessionBuffer_proofs ------------------------
(***************************************************************************)
(* Theorems of SessionBuffer, for any messages, threads and bounds.        *)
(***************************************************************************)
EXTENDS SessionBuffer, FiniteSetTheorems, WellFoundedInduction, TLAPS

(***************************************************************************)
(* The steps a job goes through, and where a thread holds a buffer.        *)
(***************************************************************************)
OnStep(j, p) ==
  \/ j = "none" /\ p = "idle"
  \/ j = "turn" /\ p \in {"turn", "append", "mark", "begin", "spawn"}
  \/ j = "extract" /\ p \in {"extract", "rewind", "archive", "scan", "assign", "end"}
  \/ j = "plain" /\ p \in {"archive", "scan", "assign"}
  \/ j = "fallback" /\ p \in {"extract", "remark", "archive", "scan", "assign"}
  \/ j = "prepare" /\ p \in {"prepare", "extract", "remark", "token"}
  \/ j = "compact" /\ p \in {"prepare", "redeem", "extract", "remark", "token", "commit",
                              "copy", "clear", "store"}
  \/ j = "commit" /\ p \in {"commit", "copy", "clear", "store"}
  \/ j = "archive" /\ p = "store"
  \/ j = "dispose" /\ p \in {"wait", "woken", "drop"}
  \/ j = "flush" /\ p = "extract"

Homeless == {"idle", "turn", "prepare", "redeem", "token", "commit"}

OnPath ==
  /\ \A t \in Thread : OnStep(job[t], pc[t])
  /\ \A t \in Thread : buf[t] <= made /\ (pc[t] \notin Homeless => buf[t] \in Buffer)

\* The threads that begin_extraction counts on buffer b: they have a snapshot, so
\* that commit_snapshot does not return before end_extraction.
Extracting(t) == job[t] = "extract" \/ pc[t] = "spawn"
Counted(b) == {t \in Thread : Extracting(t) /\ buf[t] = b}

ActiveCounts ==
  /\ active \in [Buffer -> Nat]
  /\ \A b \in Buffer : active[b] = Cardinality(Counted(b))
  /\ \A t \in Thread : Extracting(t) \/ pc[t] = "begin" => snap[t] # {}

-----------------------------------------------------------------------------
(***************************************************************************)
(* What remove_messages_by_id leaves of a list.                            *)
(***************************************************************************)
LEMMA PlacesFinite ==
  ASSUME NEW list \in Seq(Message), NEW S
  PROVE  /\ DOMAIN list = 1..Len(list) /\ Len(list) \in Nat
         /\ IsFiniteSet(Left(list, S)) /\ Left(list, S) \subseteq 1..Len(list)
         /\ Cardinality(Left(list, S)) \in Nat
<1>1. DOMAIN list = 1..Len(list) /\ Len(list) \in Nat
  OBVIOUS
<1>2. IsFiniteSet(1..Len(list)) /\ Left(list, S) \subseteq 1..Len(list)
  BY <1>1, FS_Interval DEF Left
<1>3. IsFiniteSet(Left(list, S))
  BY <1>2, FS_Subset
<1> QED BY <1>1, <1>2, <1>3, FS_CardinalityType

\* The ranks count the places from 1 without a gap.
LEMMA Ranks ==
  ASSUME NEW N \in Nat, NEW P \in SUBSET (1..N)
  PROVE  /\ Cardinality(P) \in Nat
         /\ \A i \in P : Rank(P, i) \in 1..Cardinality(P)
         /\ \A i, j \in P : i < j => Rank(P, i) < Rank(P, j)
         /\ \A k \in 1..Cardinality(P) : \E i \in P : Rank(P, i) = k
<1> DEFINE Upto(i) == {j \in P : j <= i}
           rank == [i \in P |-> Rank(P, i)]
<1>0. 1 \in Int /\ N \in Int /\ P \subseteq Nat
  OBVIOUS
<1>1. IsFiniteSet(P) /\ Cardinality(P) \in Nat
  <2>1. IsFiniteSet(1..N)
    BY <1>0, FS_Interval
  <2> QED BY <2>1, FS_Subset, FS_CardinalityType
<1>2. ASSUME NEW i \in P
      PROVE  /\ IsFiniteSet(Upto(i)) /\ Cardinality(Upto(i)) \in 1..Cardinality(P)
  <2>1. IsFiniteSet(Upto(i)) /\ Cardinality(Upto(i)) <= Cardinality(P)
    BY <1>1, FS_Subset
  <2>2. i \in Upto(i)
    OBVIOUS
  <2>3. Cardinality(Upto(i)) \in Nat /\ Cardinality(Upto(i)) # 0
    BY <2>1, <2>2, FS_CardinalityType, FS_EmptySet
  <2> QED BY <1>1, <2>1, <2>3
<1>3. ASSUME NEW i \in P, NEW j \in P, i < j
      PROVE  Cardinality(Upto(i)) < Cardinality(Upto(j))
  <2>1. Upto(i) \subseteq Upto(j) /\ Upto(i) # Upto(j)
    <3>1. i \in Nat /\ j \in Nat /\ \A l \in P : l \in Nat
      BY <1>0
    <3>2. j \in Upto(j) /\ j \notin Upto(i)
      BY <1>3, <3>1
    <3>3. ASSUME NEW l \in Upto(i) PROVE l \in Upto(j)
      <4>1. l \in P /\ l <= i
        OBVIOUS
      <4> QED BY <1>3, <3>1, <4>1
    <3> QED BY <3>2, <3>3
  <2> QED BY <2>1, <1>2, FS_Subset
<1>4. ASSUME NEW k \in 1..Cardinality(P)
      PROVE  \E i \in P : Cardinality(Upto(i)) = k
  <2>1. rank \in Injection(P, 1..Cardinality(P))
    <3>1. rank \in [P -> 1..Cardinality(P)]
      BY <1>2 DEF Rank
    <3>2. ASSUME NEW i \in P, NEW j \in P, rank[i] = rank[j]
          PROVE  i = j
      BY <3>2, <1>2, <1>3 DEF Rank
    <3> HIDE DEF rank
    <3>3. IsInjective(rank)
      BY <3>1, <3>2 DEF IsInjective
    <3> QED BY <3>1, <3>3 DEF Injection
  <2>2. IsFiniteSet(1..Cardinality(P)) /\ Cardinality(1..Cardinality(P)) = Cardinality(P)
    BY <1>1, FS_Interval
  <2>3. rank \in Surjection(P, 1..Cardinality(P))
    <3> HIDE DEF rank
    <3> QED BY <2>1, <2>2, FS_Injection
  <2>4. PICK i \in P : rank[i] = k
    BY <2>3 DEF Surjection
  <2> QED BY <2>4 DEF Rank
<1> QED BY <1>1, <1>2, <1>3, <1>4 DEF Rank

\* The new list has what is left in the old order, so that a place is below the
\* lowered watermark exactly when its message was below the old one.
LEMMA WithoutPlaces ==
  ASSUME NEW list \in Seq(Message), NEW S, NEW m \in 0..Len(list)
  PROVE  LET new == Without(list, S)
             n == Under(list, S, m)
         IN  /\ new \in Seq(Message) /\ n \in 0..m /\ m - n <= Len(new)
             /\ \A k \in DOMAIN new : \E i \in Left(list, S) :
                   new[k] = list[i] /\ (k <= m - n <=> i <= m)
             /\ \A i \in Left(list, S) : \E k \in DOMAIN new :
                   new[k] = list[i] /\ (k <= m - n <=> i <= m)
<1> DEFINE K == Left(list, S)
           size == Cardinality(K)
           new == Without(list, S)
           n == Under(list, S, m)
           Low == {i \in K : i <= m}
           Gone == {i \in DOMAIN list : list[i] \in S /\ i <= m}
<1>1. /\ DOMAIN list = 1..Len(list) /\ Len(list) \in Nat /\ m \in Nat /\ m <= Len(list)
      /\ IsFiniteSet(K) /\ K \in SUBSET (1..Len(list)) /\ size \in Nat
  BY PlacesFinite
<1>2. /\ \A i \in K : Rank(K, i) \in 1..size
      /\ \A i, j \in K : i < j => Rank(K, i) < Rank(K, j)
      /\ \A k \in 1..size : \E i \in K : Rank(K, i) = k
  BY <1>1, Ranks
<1>3. ASSUME NEW i \in K, NEW j \in K, Rank(K, i) = Rank(K, j)
      PROVE  i = j
  <2>1. i \in Nat /\ j \in Nat /\ Rank(K, i) \in Nat
    BY <1>1, <1>2
  <2>2. ~ i < j /\ ~ j < i
    BY <1>2, <1>3, <2>1
  <2> QED BY <2>1, <2>2
<1>4. /\ new = [k \in 1..size |-> list[CHOOSE i \in K : Rank(K, i) = k]]
      /\ \A k \in 1..size : (CHOOSE i \in K : Rank(K, i) = k) \in K
                           /\ Rank(K, CHOOSE i \in K : Rank(K, i) = k) = k
  <2>1. \A k \in 1..size : \E i \in K : Rank(K, i) = k
    BY <1>2
  <2> HIDE DEF K
  <2>2. \A k \in 1..size : (CHOOSE i \in K : Rank(K, i) = k) \in K
                           /\ Rank(K, CHOOSE i \in K : Rank(K, i) = k) = k
    BY <2>1
  <2> QED BY <2>2 DEF Without, K
<1>5. \A i \in K : list[i] \in Message
  BY <1>1
<1>6. new \in Seq(Message) /\ DOMAIN new = 1..size /\ Len(new) = size
  <2>1. \A k \in 1..size : new[k] \in Message
    BY <1>4, <1>5
  <2> HIDE DEF K
  <2>2. new \in [1..size -> Message]
    BY <1>4, <2>1
  <2> HIDE DEF new, size
  <2> QED BY <1>1, <2>2
<1>7. \A i \in K : new[Rank(K, i)] = list[i]
  BY <1>2, <1>3, <1>4
<1>8. /\ Gone \cup Low = 1..m /\ Gone \cap Low = {}
      /\ Gone \in SUBSET (1..m) /\ Low \in SUBSET (1..m)
  <2>1. \A i \in 1..m : i \in DOMAIN list /\ i <= m
    BY <1>1
  <2>2. \A i \in DOMAIN list : i <= m => i \in 1..m
    BY <1>1
  <2> QED BY <2>1, <2>2 DEF Left
<1>9. /\ IsFiniteSet(Gone) /\ IsFiniteSet(Low) /\ n \in Nat /\ Cardinality(Low) \in Nat
      /\ n + Cardinality(Low) = m /\ Cardinality(Low) <= size
  <2>1. IsFiniteSet(1..m) /\ Cardinality(1..m) = m
    BY <1>1, FS_Interval
  <2>2. IsFiniteSet(Gone) /\ IsFiniteSet(Low)
    BY <1>8, <2>1, FS_Subset
  <2>3. Cardinality(Gone) \in Nat /\ Cardinality(Low) \in Nat
    BY <2>2, FS_CardinalityType
  <2>4. Cardinality(Gone \cap Low) = 0
    BY <1>8, FS_EmptySet
  <2>5. Cardinality(Gone \cup Low) = Cardinality(Gone) + Cardinality(Low) - Cardinality(Gone \cap Low)
    BY <2>2, FS_Union
  <2>6. Cardinality(Low) <= size
    <3>1. Low \in SUBSET K
      OBVIOUS
    <3> HIDE DEF Low, K
    <3> QED BY <1>1, <3>1, FS_Subset
  <2>7. n = Cardinality(Gone)
    BY DEF Under
  <2>8. Cardinality(Gone \cup Low) = m
    BY <1>8, <2>1
  <2> HIDE DEF Gone, Low, size
  <2> QED BY <1>1, <2>2, <2>3, <2>4, <2>5, <2>6, <2>7, <2>8
<1>10. ASSUME NEW i \in K
       PROVE  Rank(K, i) <= Cardinality(Low) <=> i <= m
  <2> DEFINE Upto == {j \in K : j <= i}
  <2>1. i \in Nat /\ \A j \in K : j \in Nat
    BY <1>1
  <2>2. IsFiniteSet(Upto) /\ Cardinality(Upto) \in Nat /\ Rank(K, i) = Cardinality(Upto)
    BY <1>1, FS_Subset, FS_CardinalityType DEF Rank
  <2>3. CASE i <= m
    <3>1. ASSUME NEW j \in Upto PROVE j \in Low
      <4>1. j \in K /\ j <= i
        OBVIOUS
      <4> QED BY <1>1, <2>1, <2>3, <4>1
    <3>2. Cardinality(Upto) <= Cardinality(Low)
      BY <3>1, <1>9, FS_Subset
    <3> QED BY <2>2, <2>3, <3>2
  <2>4. CASE m < i
    <3>1. ASSUME NEW j \in Low PROVE j \in Upto
      <4>1. j \in K /\ j <= m
        OBVIOUS
      <4> QED BY <1>1, <2>1, <2>4, <4>1
    <3>2. i \in Upto /\ i \notin Low
      BY <1>1, <2>1, <2>4
    <3>3. Cardinality(Low) <= Cardinality(Upto) /\ Cardinality(Low) # Cardinality(Upto)
      BY <3>1, <3>2, <2>2, FS_Subset
    <3> QED BY <1>1, <1>9, <2>1, <2>2, <2>4, <3>3
  <2> QED BY <1>1, <2>1, <2>3, <2>4
<1>11. m - n = Cardinality(Low) /\ n \in 0..m /\ m - n <= Len(new)
  BY <1>1, <1>6, <1>9
<1>12. ASSUME NEW k \in DOMAIN new
       PROVE  \E i \in K : new[k] = list[i] /\ (k <= m - n <=> i <= m)
  BY <1>2, <1>6, <1>7, <1>10, <1>11
<1>13. ASSUME NEW i \in K
       PROVE  \E k \in DOMAIN new : new[k] = list[i] /\ (k <= m - n <=> i <= m)
  BY <1>2, <1>6, <1>7, <1>10, <1>11
<1> QED BY <1>6, <1>11, <1>12, <1>13

(***************************************************************************)
(* TypeOK in parts: threads, buffers and the rest.                         *)
(***************************************************************************)
ThreadTypes ==
  /\ job \in [Thread -> Jobs] /\ pc \in [Thread -> Steps]
  /\ buf \in [Thread -> Buffer \cup {0}]
  /\ snap \in [Thread -> SUBSET Message]
  /\ kept \in [Thread -> [list : Seq(Message), below : Nat, found : BOOLEAN]]

BufferTypes ==
  /\ messages \in [Buffer -> Seq(Message)]
  /\ mark \in [Buffer -> Nat] /\ \A b \in Buffer : mark[b] <= Len(messages[b])
  /\ committing \in [Buffer -> BOOLEAN]
  /\ token \in [Buffer -> {<<>>} \cup (Nat \X Nat)]

OtherTypes ==
  /\ live \in 0..made /\ made \in 0..MaxBuffers
  /\ failures \in 0..MaxFailures
  /\ accepted \subseteq Message /\ extracted \subseteq Message
  /\ archived \subseteq Message /\ discarded \subseteq Message

LEMMA TypeParts == TypeOK <=> ThreadTypes /\ BufferTypes /\ OtherTypes /\ active \in [Buffer -> Nat]
BY DEF TypeOK, ThreadTypes, BufferTypes, OtherTypes

Rests(u) ==
  job'[u] = job[u] /\ buf'[u] = buf[u] /\ snap'[u] = snap[u] /\ kept'[u] = kept[u]

LEMMA NothingTyped == Nothing \in [list : Seq(Message), below : Nat, found : BOOLEAN]
BY DEF Nothing

LEMMA OnStepTyped ==
  ASSUME NEW j, NEW p, OnStep(j, p) PROVE j \in Jobs /\ p \in Steps
BY DEF OnStep, Jobs, Steps

LEMMA GotoThread ==
  ASSUME job \in [Thread -> Jobs], pc \in [Thread -> Steps], NEW t \in Thread, NEW j, NEW p,
         OnStep(j, p), Goto(t, j, p)
  PROVE  /\ job' \in [Thread -> Jobs] /\ pc' \in [Thread -> Steps]
         /\ job'[t] = j /\ pc'[t] = p
         /\ \A u \in Thread \ {t} : job'[u] = job[u] /\ pc'[u] = pc[u]
BY OnStepTyped DEF Goto

LEMMA FinishThread ==
  ASSUME ThreadTypes, NEW t \in Thread, Finish(t)
  PROVE  /\ ThreadTypes'
         /\ job'[t] = "none" /\ pc'[t] = "idle" /\ buf'[t] = 0 /\ snap'[t] = {}
         /\ kept'[t] = Nothing
         /\ \A u \in Thread \ {t} : Rests(u) /\ pc'[u] = pc[u]
<1>1. OnStep("none", "idle")
  BY DEF OnStep
<1>2. Goto(t, "none", "idle")
  BY DEF Finish
<1> QED BY <1>1, <1>2, GotoThread, NothingTyped DEF Finish, ThreadTypes, Rests

LEMMA CountOutThread ==
  ASSUME ThreadTypes, NEW t \in Thread, NEW j, NEW p, OnStep(j, p), CountOut(t, j, p)
  PROVE  /\ job' \in [Thread -> Jobs] /\ pc' \in [Thread -> Steps]
         /\ job'[t] = j /\ pc'[t] = p
         /\ \A u \in Thread \ {t} :
               /\ job'[u] = job[u]
               /\ \/ pc'[u] = pc[u]
                  \/ pc[u] = "wait" /\ pc'[u] = "woken" /\ active[buf[t]] = 1 /\ buf[u] = buf[t]
BY OnStepTyped DEF CountOut, ThreadTypes, Steps, At

LEMMA Found ==
  ASSUME OtherTypes, NEW b \in Buffer, GetOrCreate(b)
  PROVE  /\ live' = b /\ live' \in 0..made' /\ made' \in 0..MaxBuffers
         /\ made <= made' /\ b <= made' /\ (live = b \/ live = 0)
         /\ made' # made => b > made
BY LimitAssumption DEF OtherTypes, GetOrCreate, Buffer

\* Thread t has gone to a step of its path, the others rest or are woken.
Moved(t) ==
  /\ OnStep(job'[t], pc'[t])
  /\ \A u \in Thread \ {t} :
       /\ Rests(u)
       /\ pc'[u] = pc[u] \/ (pc[u] = "wait" /\ pc'[u] = "woken")

LEMMA PathKept ==
  ASSUME OnPath, ThreadTypes, made \in Nat, made' \in Nat, made <= made', NEW t \in Thread, Moved(t),
         buf'[t] \in Nat, buf'[t] <= made', pc'[t] \notin Homeless => buf'[t] \in Buffer
  PROVE  OnPath'
<1>1. ASSUME NEW u \in Thread \ {t}
      PROVE  OnStep(job'[u], pc'[u]) /\ buf'[u] <= made' /\ (pc'[u] \notin Homeless => buf'[u] \in Buffer)
  <2>1. buf'[u] = buf[u] /\ buf[u] \in Nat /\ buf[u] <= made /\ OnStep(job[u], pc[u])
    BY DEF Moved, Rests, OnPath, ThreadTypes, Buffer
  <2>2. CASE pc'[u] = pc[u]
    BY <2>1, <2>2 DEF Moved, Rests, OnPath
  <2>3. CASE pc[u] = "wait" /\ pc'[u] = "woken"
    BY <2>1, <2>3 DEF Moved, Rests, OnPath, OnStep, Homeless
  <2> QED BY <2>2, <2>3 DEF Moved
<1> QED BY <1>1 DEF OnPath, Moved

(***************************************************************************)
(* What a thread does to the counts of the running extractions.            *)
(***************************************************************************)
Steady(t) ==
  /\ Extracting(t)' <=> Extracting(t)
  /\ Extracting(t) => buf'[t] = buf[t]
  /\ Extracting(t)' \/ pc'[t] = "begin" => snap'[t] # {}

LEMMA OthersCounted ==
  ASSUME ActiveCounts, NEW t \in Thread, Moved(t), NEW u \in Thread \ {t}
  PROVE  /\ Extracting(u)' <=> Extracting(u)
         /\ buf'[u] = buf[u]
         /\ Extracting(u)' \/ pc'[u] = "begin" => snap'[u] # {}
BY DEF ActiveCounts, Moved, Rests, Extracting

LEMMA CountedFinite ==
  ASSUME NEW b
  PROVE  IsFiniteSet(Counted(b)) /\ Cardinality(Counted(b)) \in Nat
BY ThreadAssumption, FS_Subset, FS_CardinalityType DEF Counted

LEMMA SteadyCounts ==
  ASSUME ActiveCounts, NEW t \in Thread, Moved(t), Steady(t), active' = active
  PROVE  ActiveCounts'
<1>1. ASSUME NEW b \in Buffer PROVE Counted(b)' = Counted(b)
  <2>1. ASSUME NEW u \in Thread
        PROVE  (Extracting(u)' /\ buf'[u] = b) <=> (Extracting(u) /\ buf[u] = b)
    BY OthersCounted DEF Steady
  <2> QED BY <2>1 DEF Counted
<1>2. ASSUME NEW u \in Thread, Extracting(u)' \/ pc'[u] = "begin"
      PROVE  snap'[u] # {}
  BY <1>2, OthersCounted DEF Steady
<1> QED BY <1>1, <1>2 DEF ActiveCounts

LEMMA CountedIn ==
  ASSUME ActiveCounts, NEW t \in Thread, Moved(t), ~Extracting(t), Extracting(t)', snap'[t] # {},
         buf[t] \in Buffer, buf'[t] = buf[t],
         active' = [active EXCEPT ![buf[t]] = @ + 1]
  PROVE  ActiveCounts'
<1>1. \A b \in Buffer : Counted(b)' = IF b = buf[t] THEN Counted(b) \cup {t} ELSE Counted(b)
  <2>1. ASSUME NEW u \in Thread \ {t}, NEW b
        PROVE  (Extracting(u)' /\ buf'[u] = b) <=> (Extracting(u) /\ buf[u] = b)
    BY OthersCounted
  <2> QED BY <2>1 DEF Counted
<1>2. Cardinality(Counted(buf[t]) \cup {t}) = Cardinality(Counted(buf[t])) + 1
  <2>1. t \notin Counted(buf[t])
    BY DEF Counted
  <2> QED BY <2>1, CountedFinite, FS_AddElement
<1>3. active' \in [Buffer -> Nat] /\ \A b \in Buffer : active'[b] = Cardinality(Counted(b)')
  BY <1>1, <1>2 DEF ActiveCounts
<1>4. ASSUME NEW u \in Thread, Extracting(u)' \/ pc'[u] = "begin"
      PROVE  snap'[u] # {}
  BY <1>4, OthersCounted
<1> QED BY <1>3, <1>4 DEF ActiveCounts

LEMMA CountedOut ==
  ASSUME ActiveCounts, NEW t \in Thread, Moved(t), Extracting(t), ~Extracting(t)', pc'[t] # "begin",
         buf[t] \in Buffer,
         active' = [active EXCEPT ![buf[t]] = @ - 1]
  PROVE  ActiveCounts' /\ active[buf[t]] > 0
<1>1. \A b \in Buffer : Counted(b)' = IF b = buf[t] THEN Counted(b) \ {t} ELSE Counted(b)
  <2>1. ASSUME NEW u \in Thread \ {t}, NEW b
        PROVE  (Extracting(u)' /\ buf'[u] = b) <=> (Extracting(u) /\ buf[u] = b)
    BY OthersCounted
  <2> QED BY <2>1 DEF Counted
<1>2. /\ Cardinality(Counted(buf[t]) \ {t}) = Cardinality(Counted(buf[t])) - 1
      /\ Cardinality(Counted(buf[t]) \ {t}) \in Nat
  <2>1. t \in Counted(buf[t])
    BY DEF Counted
  <2>2. IsFiniteSet(Counted(buf[t]) \ {t})
    BY CountedFinite, FS_Subset
  <2> QED BY <2>1, <2>2, CountedFinite, FS_RemoveElement, FS_CardinalityType
<1>3. active' \in [Buffer -> Nat] /\ \A b \in Buffer : active'[b] = Cardinality(Counted(b)')
  BY <1>1, <1>2 DEF ActiveCounts
<1>4. ASSUME NEW u \in Thread, Extracting(u)' \/ pc'[u] = "begin"
      PROVE  snap'[u] # {}
  BY <1>4, OthersCounted
<1>5. active[buf[t]] > 0
  BY <1>2, CountedFinite DEF ActiveCounts
<1> QED BY <1>3, <1>4, <1>5 DEF ActiveCounts

LEMMA Smallest ==
  ASSUME NEW T \in SUBSET Nat, T # {}
  PROVE  \E x \in T : \A y \in T : x <= y
<1> DEFINE R == {ss \in Nat \X Nat : ss[1] < ss[2]}
<1>1. IsWellFoundedOn(R, Nat)
  BY NatLessThanWellFounded DEF OpToRel
<1> HIDE DEF R
<1>2. PICK x \in T : \A y \in T : ~ (<<y, x>> \in R)
  BY <1>1, WFMin
<1>3. ASSUME NEW y \in T PROVE x <= y
  <2>1. ~ (<<y, x>> \in R)
    BY <1>2
  <2> QED BY <2>1 DEF R
<1> QED BY <1>3

LEMMA IncrementalTyped ==
  ASSUME BufferTypes, NEW b \in Buffer
  PROVE  Incremental(b) \subseteq ToSet(messages[b]) /\ ToSet(messages[b]) \subseteq Message
<1>1. messages[b] \in Seq(Message) /\ mark[b] \in Nat
  BY DEF BufferTypes
<1>2. DOMAIN messages[b] = 1..Len(messages[b]) /\ Len(messages[b]) \in Nat
  BY <1>1
<1> QED BY <1>1, <1>2 DEF Incremental, ToSet

LEMMA ThreadsMove ==
  ASSUME ThreadTypes, BufferTypes, OtherTypes, OnPath, NEW t \in Thread,
         ThreadStep(t) \/ \E r \in Requests : Request(t, r)
  PROVE  ThreadTypes' /\ Moved(t)
<1> USE DEF bufVars, histVars
<1>a. /\ OnStep(job[t], pc[t]) /\ buf[t] \in Buffer \cup {0} /\ buf[t] <= made
      /\ pc[t] \notin Homeless => buf[t] \in Buffer
      /\ made \in Nat /\ live \in 0..made
  BY DEF OtherTypes, OnPath, ThreadTypes
<1>1. CASE GetBuffer(t)
    BY <1>a, <1>1, GotoThread, FinishThread, CountOutThread, Found
      DEF GetBuffer, Runs, At, GetOrCreate, OnStep, ThreadTypes, Moved, Rests
<1>2. CASE AddMessage(t)
    BY <1>a, <1>2, GotoThread, FinishThread, CountOutThread, Found
      DEF AddMessage, Runs, At, OnStep, ThreadTypes, Moved, Rests
<1>3. CASE Accumulate(t)
    BY <1>a, <1>3, GotoThread, FinishThread, CountOutThread, Found
      DEF Accumulate, Runs, At, GetOrCreate, OnStep, ThreadTypes, Moved, Rests
<1>4. CASE CommitOnly(t)
    BY <1>a, <1>4, GotoThread, FinishThread, CountOutThread, Found
      DEF CommitOnly, Runs, At, OnStep, ThreadTypes, Moved, Rests
<1>5. CASE Slice(t)
  <2>1. PICK b \in Buffer : /\ buf' = [buf EXCEPT ![t] = b]
                            /\ snap' = [snap EXCEPT ![t] = Incremental(b)]
    BY <1>5 DEF Slice
  <2>2. Incremental(b) \subseteq Message
    BY IncrementalTyped
  <2> QED BY <1>a, <2>1, <2>2, <1>5, GotoThread DEF Slice, OnStep, ThreadTypes, Moved, Rests
<1>6. CASE Mark(t)
    BY <1>a, <1>6, GotoThread, FinishThread, CountOutThread, Found
      DEF Mark, Runs, At, OnStep, ThreadTypes, Moved, Rests
<1>7. CASE BeginExtraction(t)
    BY <1>a, <1>7, GotoThread, FinishThread, CountOutThread, Found
      DEF BeginExtraction, Runs, At, OnStep, ThreadTypes, Moved, Rests
<1>8. CASE Spawn(t)
    BY <1>a, <1>8, GotoThread, FinishThread, CountOutThread, Found
      DEF Spawn, Runs, At, OnStep, ThreadTypes, Moved, Rests
<1>9. CASE SpawnFails(t)
    BY <1>a, <1>9, GotoThread, FinishThread, CountOutThread, Found
      DEF SpawnFails, Runs, At, OnStep, ThreadTypes, Moved, Rests
<1>10. CASE Extract(t)
    BY <1>a, <1>10, GotoThread, FinishThread, CountOutThread, Found
      DEF Extract, Runs, At, AfterExtract, OnStep, ThreadTypes, Moved, Rests
<1>11. CASE ExtractFails(t)
  <2>1. CASE job[t] = "extract"
    BY <1>a, <2>1, <1>11, GotoThread
      DEF ExtractFails, Runs, At, OnStep, ThreadTypes, Moved, Rests
  <2>2. CASE job[t] # "extract"
    BY <1>a, <2>2, <1>11, FinishThread
      DEF ExtractFails, Runs, At, OnStep, ThreadTypes, Moved, Rests
  <2> QED BY <2>1, <2>2
<1>12. CASE Rewind(t)
    BY <1>a, <1>12, GotoThread, FinishThread, CountOutThread, Found
      DEF Rewind, Runs, At, OnStep, ThreadTypes, Moved, Rests
<1>13. CASE EndExtraction(t)
    BY <1>a, <1>13, GotoThread, FinishThread, CountOutThread, Found
      DEF EndExtraction, Runs, At, OnStep, ThreadTypes, Moved, Rests
<1>14. CASE CommitSnapshot(t)
  <2>1. CASE snap[t] = {}
    BY <1>a, <2>1, <1>14, FinishThread
      DEF CommitSnapshot, Runs, At, OnStep, ThreadTypes, Moved, Rests
  <2>2. CASE snap[t] # {}
    <3>1. OnStep(job[t], "scan") /\ Goto(t, job[t], "scan") /\ UNCHANGED <<buf, snap, kept>>
      BY <1>a, <2>2, <1>14 DEF CommitSnapshot, Runs, At, OnStep
    <3> QED BY <3>1, GotoThread DEF ThreadTypes, Moved, Rests
  <2> QED BY <2>1, <2>2
<1>15. CASE ScanMessages(t)
  <2>1. messages[buf[t]] \in Seq(Message) /\ mark[buf[t]] \in 0..Len(messages[buf[t]])
    BY <1>a, <1>15 DEF ScanMessages, Runs, At, Homeless, BufferTypes
  <2>2. /\ Without(messages[buf[t]], snap[t]) \in Seq(Message)
        /\ Under(messages[buf[t]], snap[t], mark[buf[t]]) \in Nat
    BY <2>1, WithoutPlaces
  <2>3. OnStep(job[t], "assign") /\ Goto(t, job[t], "assign") /\ UNCHANGED <<buf, snap>>
    BY <1>a, <1>15 DEF ScanMessages, Runs, At, OnStep
  <2>4. PICK f \in BOOLEAN :
          kept' = [kept EXCEPT ![t] = [list |-> Without(messages[buf[t]], snap[t]),
                                       below |-> Under(messages[buf[t]], snap[t], mark[buf[t]]),
                                       found |-> f]]
    BY <1>15 DEF ScanMessages
  <2> QED BY <2>2, <2>3, <2>4, GotoThread DEF ThreadTypes, Moved, Rests
<1>16. CASE AssignMessages(t)
  <2>1. CASE job[t] = "extract"
    <3>1. /\ OnStep("extract", "end") /\ Goto(t, "extract", "end")
          /\ kept' = [kept EXCEPT ![t] = Nothing] /\ UNCHANGED <<buf, snap>>
      BY <2>1, <1>16 DEF AssignMessages, AssignWithMark, OnStep
    <3> QED BY <3>1, GotoThread, NothingTyped DEF ThreadTypes, Moved, Rests
  <2>2. CASE job[t] # "extract"
    BY <1>a, <2>2, <1>16, FinishThread
      DEF AssignMessages, AssignWithMark, Runs, At, OnStep, ThreadTypes, Moved, Rests
  <2> QED BY <2>1, <2>2
<1>17. CASE SliceCompaction(t)
  <2>1. PICK b \in Buffer :
          /\ buf' = [buf EXCEPT ![t] = b]
          /\ snap' = [snap EXCEPT ![t] = Incremental(b)]
          /\ Goto(t, job[t], IF Incremental(b) = {} THEN "token"
                             ELSE IF Incremental(b) \cap Extractable = {} THEN "remark"
                             ELSE "extract")
    BY <1>17 DEF SliceCompaction
  <2>2. Incremental(b) \subseteq Message
    BY IncrementalTyped
  <2>3. PICK p \in {"token", "remark", "extract"} : Goto(t, job[t], p)
    BY <2>1
  <2>4. OnStep(job[t], p) /\ kept' = kept
    BY <1>a, <1>17 DEF SliceCompaction, Runs, At, OnStep
  <2> QED BY <2>1, <2>2, <2>3, <2>4, GotoThread DEF ThreadTypes, Moved, Rests
<1>18. CASE Remark(t)
    BY <1>a, <1>18, GotoThread, FinishThread, CountOutThread, Found
      DEF Remark, Runs, At, OnStep, ThreadTypes, Moved, Rests
<1>19. CASE IssueToken(t)
    BY <1>a, <1>19, GotoThread, FinishThread, CountOutThread, Found
      DEF IssueToken, Runs, At, GetOrCreate, OnStep, ThreadTypes, Moved, Rests
<1>20. CASE RedeemToken(t)
    BY <1>a, <1>20, GotoThread, FinishThread, CountOutThread, Found
      DEF RedeemToken, Runs, At, OnStep, ThreadTypes, Moved, Rests
<1>21. CASE RefuseToken(t)
    BY <1>a, <1>21, GotoThread, FinishThread, CountOutThread, Found
      DEF RefuseToken, Runs, At, GetOrCreate, OnStep, ThreadTypes, Moved, Rests
<1>22. CASE CheckCommit(t)
  <2>1. PICK b \in Buffer :
          IF messages[b] = <<>> \/ committing[b]
          THEN Finish(t)
          ELSE Goto(t, job[t], "copy") /\ buf' = [buf EXCEPT ![t] = b] /\ UNCHANGED <<snap, kept>>
    BY <1>22 DEF CheckCommit
  <2>2. CASE messages[b] = <<>> \/ committing[b]
    BY <2>1, <2>2, FinishThread DEF OnStep, Moved
  <2>3. CASE ~ (messages[b] = <<>> \/ committing[b])
    <3>1. OnStep(job[t], "copy")
      BY <1>a, <1>22 DEF CheckCommit, Runs, At, OnStep
    <3>2. Goto(t, job[t], "copy") /\ buf' = [buf EXCEPT ![t] = b] /\ UNCHANGED <<snap, kept>>
      BY <2>1, <2>3
    <3> QED BY <3>1, <3>2, GotoThread DEF ThreadTypes, Moved, Rests
  <2> QED BY <2>2, <2>3
<1>23. CASE CopyMessages(t)
  <2>1. ToSet(messages[buf[t]]) \subseteq Message
    BY <1>a, <1>23, IncrementalTyped DEF CopyMessages, Runs, At, Homeless
  <2>2. OnStep(job[t], "clear")
    BY <1>a, <1>23 DEF CopyMessages, Runs, At, OnStep
  <2> QED BY <1>a, <2>1, <2>2, <1>23, GotoThread DEF CopyMessages, ThreadTypes, Moved, Rests
<1>24. CASE ClearMessages(t)
    BY <1>a, <1>24, GotoThread, FinishThread, CountOutThread, Found
      DEF ClearMessages, Runs, At, OnStep, ThreadTypes, Moved, Rests
<1>25. CASE StoreCommit(t)
    BY <1>a, <1>25, GotoThread, FinishThread, CountOutThread, Found
      DEF StoreCommit, Runs, At, Archive, OnStep, ThreadTypes, Moved, Rests
<1>26. CASE WaitTimesOut(t)
    BY <1>a, <1>26, GotoThread, FinishThread, CountOutThread, Found
      DEF WaitTimesOut, Runs, At, OnStep, ThreadTypes, Moved, Rests
<1>27. CASE DisposeWithoutFlush(t)
    BY <1>a, <1>27, GotoThread, FinishThread, CountOutThread, Found
      DEF DisposeWithoutFlush, Awake, Runs, At, Incremental, OnStep, ThreadTypes,
         Moved, Rests
<1>28. CASE DisposeKeeps(t)
    BY <1>a, <1>28, GotoThread, FinishThread, CountOutThread, Found
      DEF DisposeKeeps, Awake, Runs, At, OnStep, ThreadTypes, Moved, Rests
<1>29. CASE DisposeWithFlush(t)
  <2>1. Incremental(buf[t]) \subseteq Message
    BY <1>a, <1>29, IncrementalTyped DEF DisposeWithFlush, Awake, Runs, At, Homeless
  <2> QED BY <2>1, <1>29, GotoThread DEF DisposeWithFlush, OnStep, ThreadTypes, Moved, Rests
<1>30. CASE DropSession(t)
    BY <1>a, <1>30, GotoThread, FinishThread, CountOutThread, Found
      DEF DropSession, Runs, At, OnStep, ThreadTypes, Moved, Rests
<1>31. CASE \E r \in Requests : Request(t, r)
  <2>1. PICK r \in Requests : Request(t, r)
    BY <1>31
  <2>2. PICK p : OnStep(r, p) /\ Goto(t, r, p)
    BY <2>1, RequestAssumption DEF Request, RequestKinds, OnStep
  <2>3. /\ buf' = [buf EXCEPT ![t] = IF r = "dispose" THEN live ELSE 0]
        /\ UNCHANGED <<snap, kept>> /\ live \in Buffer \cup {0}
    BY <1>a, <2>1, LimitAssumption DEF Request, OtherTypes, Buffer
  <2> QED BY <2>2, <2>3, GotoThread DEF ThreadTypes, Moved, Rests
<1> QED
  BY <1>1, <1>2, <1>3, <1>4, <1>5, <1>6, <1>7, <1>8, <1>9, <1>10, <1>11, <1>12,
     <1>13, <1>14, <1>15, <1>16, <1>17, <1>18, <1>19, <1>20, <1>21, <1>22, <1>23,
     <1>24, <1>25, <1>26, <1>27, <1>28, <1>29, <1>30, <1>31
    DEF ThreadStep, TurnStep, ExtractStep, ArchiveStep, CompactStep, CommitStep,
       DisposeStep

LEMMA OthersTyped ==
  ASSUME ThreadTypes, BufferTypes, OtherTypes, OnPath, NEW t \in Thread,
         ThreadStep(t) \/ \E r \in Requests : Request(t, r)
  PROVE  OtherTypes' /\ made <= made'
<1> USE DEF bufVars, histVars
<1>a. /\ OnStep(job[t], pc[t]) /\ buf[t] \in Buffer \cup {0} /\ buf[t] <= made
      /\ pc[t] \notin Homeless => buf[t] \in Buffer
      /\ made \in Nat /\ live \in 0..made
  BY DEF OtherTypes, OnPath, ThreadTypes
<1>1. CASE GetBuffer(t)
    BY <1>a, <1>1, Found
      DEF GetBuffer, Runs, At, GetOrCreate, ThreadTypes, OtherTypes
<1>2. CASE AddMessage(t)
    BY <1>a, <1>2, Found
      DEF AddMessage, Runs, At, ThreadTypes, OtherTypes
<1>3. CASE Accumulate(t)
    BY <1>a, <1>3, Found
      DEF Accumulate, Runs, At, GetOrCreate, ThreadTypes, OtherTypes
<1>4. CASE CommitOnly(t)
    BY <1>a, <1>4, Found
      DEF CommitOnly, Runs, At, ThreadTypes, OtherTypes
<1>5. CASE Slice(t)
    BY <1>a, <1>5, Found
      DEF Slice, Runs, At, GetOrCreate, Incremental, ThreadTypes, OtherTypes
<1>6. CASE Mark(t)
    BY <1>a, <1>6, Found
      DEF Mark, Runs, At, ThreadTypes, OtherTypes
<1>7. CASE BeginExtraction(t)
    BY <1>a, <1>7, Found
      DEF BeginExtraction, Runs, At, ThreadTypes, OtherTypes
<1>8. CASE Spawn(t)
    BY <1>a, <1>8, Found
      DEF Spawn, Runs, At, ThreadTypes, OtherTypes
<1>9. CASE SpawnFails(t)
    BY <1>a, <1>9, Found
      DEF SpawnFails, Runs, At, ThreadTypes, OtherTypes
<1>10. CASE Extract(t)
    BY <1>a, <1>10, Found
      DEF Extract, Runs, At, AfterExtract, ThreadTypes, OtherTypes
<1>11. CASE ExtractFails(t)
  <2>1. snap[t] \subseteq Message
    BY DEF ThreadTypes
  <2>2. failures \in Nat /\ failures < MaxFailures /\ failures' = failures + 1 /\ MaxFailures \in Nat
    BY <1>11, LimitAssumption DEF ExtractFails, OtherTypes
  <2>3. UNCHANGED <<live, made, accepted, extracted, archived>>
    BY <1>11 DEF ExtractFails
  <2>4. discarded' \subseteq discarded \cup snap[t]
    BY <1>11 DEF ExtractFails
  <2> QED BY <1>a, <2>1, <2>2, <2>3, <2>4 DEF OtherTypes
<1>12. CASE Rewind(t)
    BY <1>a, <1>12, Found
      DEF Rewind, Runs, At, ThreadTypes, OtherTypes
<1>13. CASE EndExtraction(t)
    BY <1>a, <1>13, Found
      DEF EndExtraction, Runs, At, ThreadTypes, OtherTypes
<1>14. CASE CommitSnapshot(t)
    BY <1>a, <1>14, Found
      DEF CommitSnapshot, Runs, At, GetOrCreate, Archive, ThreadTypes, OtherTypes
<1>15. CASE ScanMessages(t)
    BY <1>a, <1>15, Found
      DEF ScanMessages, Runs, At, ThreadTypes, OtherTypes
<1>16. CASE AssignMessages(t)
    BY <1>a, <1>16, Found
      DEF AssignMessages, AssignWithMark, Runs, At, ThreadTypes, OtherTypes
<1>17. CASE SliceCompaction(t)
    BY <1>a, <1>17, Found
      DEF SliceCompaction, Runs, At, GetOrCreate, Incremental, ThreadTypes,
         OtherTypes
<1>18. CASE Remark(t)
    BY <1>a, <1>18, Found
      DEF Remark, Runs, At, ThreadTypes, OtherTypes
<1>19. CASE IssueToken(t)
    BY <1>a, <1>19, Found
      DEF IssueToken, Runs, At, GetOrCreate, ThreadTypes, OtherTypes
<1>20. CASE RedeemToken(t)
    BY <1>a, <1>20, Found
      DEF RedeemToken, Runs, At, ThreadTypes, OtherTypes
<1>21. CASE RefuseToken(t)
    BY <1>a, <1>21, Found
      DEF RefuseToken, Runs, At, GetOrCreate, ThreadTypes, OtherTypes
<1>22. CASE CheckCommit(t)
    BY <1>a, <1>22, Found
      DEF CheckCommit, Runs, At, GetOrCreate, ThreadTypes, OtherTypes
<1>23. CASE CopyMessages(t)
    BY <1>a, <1>23, Found
      DEF CopyMessages, Runs, At, ThreadTypes, OtherTypes
<1>24. CASE ClearMessages(t)
    BY <1>a, <1>24, Found
      DEF ClearMessages, Runs, At, ThreadTypes, OtherTypes
<1>25. CASE StoreCommit(t)
    BY <1>a, <1>25, Found
      DEF StoreCommit, Runs, At, Archive, ThreadTypes, OtherTypes
<1>26. CASE WaitTimesOut(t)
    BY <1>a, <1>26, Found
      DEF WaitTimesOut, Runs, At, ThreadTypes, OtherTypes
<1>27. CASE DisposeWithoutFlush(t)
  <2>1. Incremental(buf[t]) \subseteq Message
    BY <1>a, <1>27, IncrementalTyped DEF DisposeWithoutFlush, Awake, Runs, At, Homeless
  <2> QED BY <1>a, <2>1, <1>27 DEF DisposeWithoutFlush, OtherTypes
<1>28. CASE DisposeKeeps(t)
    BY <1>a, <1>28, Found
      DEF DisposeKeeps, Awake, Runs, At, ThreadTypes, OtherTypes
<1>29. CASE DisposeWithFlush(t)
    BY <1>a, <1>29, Found
      DEF DisposeWithFlush, Awake, Runs, At, Incremental, ThreadTypes, OtherTypes
<1>30. CASE DropSession(t)
    BY <1>a, <1>30, Found
      DEF DropSession, Runs, At, ThreadTypes, OtherTypes
<1>31. CASE \E r \in Requests : Request(t, r)
    BY <1>a, <1>31, Found
      DEF Request, Runs, At, ThreadTypes, OtherTypes
<1> QED
  BY <1>1, <1>2, <1>3, <1>4, <1>5, <1>6, <1>7, <1>8, <1>9, <1>10, <1>11, <1>12,
     <1>13, <1>14, <1>15, <1>16, <1>17, <1>18, <1>19, <1>20, <1>21, <1>22, <1>23,
     <1>24, <1>25, <1>26, <1>27, <1>28, <1>29, <1>30, <1>31
    DEF ThreadStep, TurnStep, ExtractStep, ArchiveStep, CompactStep, CommitStep,
       DisposeStep

LEMMA BuffersTyped ==
  ASSUME ThreadTypes, BufferTypes, OtherTypes, OnPath, NEW t \in Thread,
         ThreadStep(t) \/ \E r \in Requests : Request(t, r)
  PROVE  BufferTypes'
<1> USE DEF bufVars, histVars
<1>a. /\ OnStep(job[t], pc[t]) /\ buf[t] \in Buffer \cup {0} /\ buf[t] <= made
      /\ pc[t] \notin Homeless => buf[t] \in Buffer
      /\ made \in Nat /\ live \in 0..made
  BY DEF OtherTypes, OnPath, ThreadTypes
<1>1. CASE GetBuffer(t)
    BY <1>a, <1>1
      DEF GetBuffer, Runs, At, GetOrCreate, BufferTypes, Homeless
<1>2. CASE AddMessage(t)
  <2>1. PICK m \in snap[t] : messages' = [messages EXCEPT ![buf[t]] = Append(@, m)]
    BY <1>2 DEF AddMessage
  <2>2. /\ buf[t] \in Buffer /\ m \in Message /\ messages[buf[t]] \in Seq(Message)
        /\ Len(messages[buf[t]]) \in Nat
    BY <1>a, <1>2 DEF AddMessage, Runs, At, Homeless, ThreadTypes, BufferTypes
  <2>3. /\ Append(messages[buf[t]], m) \in Seq(Message)
        /\ Len(Append(messages[buf[t]], m)) = Len(messages[buf[t]]) + 1
    BY <2>2
  <2>4. UNCHANGED <<mark, committing, token>>
    BY <1>2 DEF AddMessage
  <2> QED BY <2>1, <2>2, <2>3, <2>4 DEF BufferTypes
<1>3. CASE Accumulate(t)
    BY <1>a, <1>3
      DEF Accumulate, Runs, At, GetOrCreate, BufferTypes, Homeless
<1>4. CASE CommitOnly(t)
    BY <1>a, <1>4
      DEF CommitOnly, Runs, At, BufferTypes, Homeless
<1>5. CASE Slice(t)
    BY <1>a, <1>5
      DEF Slice, Runs, At, GetOrCreate, Incremental, BufferTypes, Homeless
<1>6. CASE Mark(t)
    BY <1>a, <1>6
      DEF Mark, Runs, At, BufferTypes, Homeless
<1>7. CASE BeginExtraction(t)
    BY <1>a, <1>7
      DEF BeginExtraction, Runs, At, BufferTypes, Homeless
<1>8. CASE Spawn(t)
    BY <1>a, <1>8
      DEF Spawn, Runs, At, BufferTypes, Homeless
<1>9. CASE SpawnFails(t)
    BY <1>a, <1>9
      DEF SpawnFails, Runs, At, BufferTypes, Homeless
<1>10. CASE Extract(t)
    BY <1>a, <1>10
      DEF Extract, Runs, At, AfterExtract, BufferTypes, Homeless
<1>11. CASE ExtractFails(t)
    BY <1>a, <1>11
      DEF ExtractFails, Runs, At, BufferTypes, Homeless
<1>12. CASE Rewind(t)
  <2> DEFINE list == messages[buf[t]]
             left == {i \in DOMAIN list : list[i] \in snap[t]}
             first == CHOOSE i \in left : \A j \in left : i <= j
  <2>1. buf[t] \in Buffer /\ DOMAIN list = 1..Len(list) /\ Len(list) \in Nat
    BY <1>a, <1>12 DEF Rewind, Runs, At, Homeless, BufferTypes
  <2>2. ASSUME left # {} PROVE first \in left
    <3>1. left \subseteq Nat
      BY <2>1
    <3> HIDE DEF left
    <3>2. \E i \in left : \A j \in left : i <= j
      BY <2>2, <3>1, Smallest
    <3> QED BY <3>2
  <2>3. left # {} => first - 1 \in Nat /\ first - 1 <= Len(list)
    BY <2>1, <2>2
  <2>4. /\ mark' = [mark EXCEPT ![buf[t]] = IF \E i \in left : i <= mark[buf[t]]
                                          THEN first - 1 ELSE mark[buf[t]]]
        /\ UNCHANGED <<messages, committing, token>>
    BY <1>12 DEF Rewind
  <2>5. mark'[buf[t]] \in Nat /\ mark'[buf[t]] <= Len(list)
    BY <2>1, <2>3, <2>4 DEF BufferTypes
  <2> HIDE DEF list, left, first
  <2> QED BY <2>1, <2>4, <2>5 DEF BufferTypes, list
<1>13. CASE EndExtraction(t)
    BY <1>a, <1>13
      DEF EndExtraction, Runs, At, BufferTypes, Homeless
<1>14. CASE CommitSnapshot(t)
    BY <1>a, <1>14
      DEF CommitSnapshot, Runs, At, GetOrCreate, Archive, BufferTypes, Homeless
<1>15. CASE ScanMessages(t)
    BY <1>a, <1>15
      DEF ScanMessages, Runs, At, BufferTypes, Homeless
<1>16. CASE AssignMessages(t)
  <2> DEFINE m == Lower(Lowered(t), Len(kept[t].list))
  <2>1. buf[t] \in Buffer /\ kept[t] \in [list : Seq(Message), below : Nat, found : BOOLEAN]
    BY <1>a, <1>16 DEF AssignMessages, AssignWithMark, Runs, At, Homeless, ThreadTypes
  <2>2. m \in Nat /\ m <= Len(kept[t].list)
    BY <2>1 DEF BufferTypes, Lower, Lowered
  <2>3. /\ UNCHANGED <<committing, token>>
        /\ \/ messages' = [messages EXCEPT ![buf[t]] = kept[t].list] /\ mark' = [mark EXCEPT ![buf[t]] = m]
           \/ UNCHANGED <<messages, mark>>
    BY <1>16 DEF AssignMessages, AssignWithMark
  <2> HIDE DEF m
  <2> QED BY <2>1, <2>2, <2>3 DEF BufferTypes
<1>17. CASE SliceCompaction(t)
    BY <1>a, <1>17
      DEF SliceCompaction, Runs, At, GetOrCreate, Incremental, BufferTypes, Homeless
<1>18. CASE Remark(t)
    BY <1>a, <1>18
      DEF Remark, Runs, At, BufferTypes, Homeless
<1>19. CASE IssueToken(t)
    BY <1>a, <1>19
      DEF IssueToken, Runs, At, GetOrCreate, BufferTypes, Homeless
<1>20. CASE RedeemToken(t)
    BY <1>a, <1>20
      DEF RedeemToken, Runs, At, BufferTypes, Homeless
<1>21. CASE RefuseToken(t)
    BY <1>a, <1>21
      DEF RefuseToken, Runs, At, GetOrCreate, BufferTypes, Homeless
<1>22. CASE CheckCommit(t)
    BY <1>a, <1>22
      DEF CheckCommit, Runs, At, GetOrCreate, BufferTypes, Homeless
<1>23. CASE CopyMessages(t)
    BY <1>a, <1>23
      DEF CopyMessages, Runs, At, BufferTypes, Homeless
<1>24. CASE ClearMessages(t)
    BY <1>a, <1>24
      DEF ClearMessages, Runs, At, BufferTypes, Homeless
<1>25. CASE StoreCommit(t)
    BY <1>a, <1>25
      DEF StoreCommit, Runs, At, Archive, BufferTypes, Homeless
<1>26. CASE WaitTimesOut(t)
    BY <1>a, <1>26
      DEF WaitTimesOut, Runs, At, BufferTypes, Homeless
<1>27. CASE DisposeWithoutFlush(t)
    BY <1>a, <1>27
      DEF DisposeWithoutFlush, Awake, Runs, At, Incremental, BufferTypes, Homeless
<1>28. CASE DisposeKeeps(t)
    BY <1>a, <1>28
      DEF DisposeKeeps, Awake, Runs, At, BufferTypes, Homeless
<1>29. CASE DisposeWithFlush(t)
    BY <1>a, <1>29
      DEF DisposeWithFlush, Awake, Runs, At, Incremental, BufferTypes, Homeless
<1>30. CASE DropSession(t)
  <2>1. /\ buf[t] \in Buffer /\ UNCHANGED <<messages, committing, token>>
        /\ \/ mark' = [mark EXCEPT ![buf[t]] = Len(messages[buf[t]])]
           \/ mark' = mark
    BY <1>a, <1>30 DEF DropSession, Runs, At, Homeless
  <2> QED BY <2>1 DEF BufferTypes
<1>31. CASE \E r \in Requests : Request(t, r)
    BY <1>a, <1>31
      DEF Request, Runs, At, BufferTypes, Homeless
<1> QED
  BY <1>1, <1>2, <1>3, <1>4, <1>5, <1>6, <1>7, <1>8, <1>9, <1>10, <1>11, <1>12,
     <1>13, <1>14, <1>15, <1>16, <1>17, <1>18, <1>19, <1>20, <1>21, <1>22, <1>23,
     <1>24, <1>25, <1>26, <1>27, <1>28, <1>29, <1>30, <1>31
    DEF ThreadStep, TurnStep, ExtractStep, ArchiveStep, CompactStep, CommitStep,
       DisposeStep

LEMMA HomeKept ==
  ASSUME ThreadTypes, BufferTypes, OtherTypes, OnPath, NEW t \in Thread,
         ThreadStep(t) \/ \E r \in Requests : Request(t, r), ThreadTypes', OtherTypes', made <= made', Moved(t)
  PROVE  buf'[t] <= made' /\ (pc'[t] \notin Homeless => buf'[t] \in Buffer)
<1> USE DEF bufVars, histVars
<1>a. /\ OnStep(job[t], pc[t]) /\ buf[t] \in Buffer \cup {0} /\ buf[t] <= made
      /\ pc[t] \notin Homeless => buf[t] \in Buffer
      /\ made \in Nat /\ live \in 0..made
  BY DEF OtherTypes, OnPath, ThreadTypes
<1>1. CASE GetBuffer(t)
    BY <1>a, <1>1, GotoThread, FinishThread, CountOutThread, Found
      DEF GetBuffer, Runs, At, GetOrCreate, OtherTypes, ThreadTypes, Homeless,
         OnStep
<1>2. CASE AddMessage(t)
    BY <1>a, <1>2, GotoThread, FinishThread, CountOutThread, Found
      DEF AddMessage, Runs, At, OtherTypes, ThreadTypes, Homeless, OnStep
<1>3. CASE Accumulate(t)
    BY <1>a, <1>3, GotoThread, FinishThread, CountOutThread, Found
      DEF Accumulate, Runs, At, GetOrCreate, OtherTypes, ThreadTypes, Homeless,
         OnStep
<1>4. CASE CommitOnly(t)
    BY <1>a, <1>4, GotoThread, FinishThread, CountOutThread, Found
      DEF CommitOnly, Runs, At, OtherTypes, ThreadTypes, Homeless, OnStep
<1>5. CASE Slice(t)
    BY <1>a, <1>5, GotoThread, FinishThread, CountOutThread, Found
      DEF Slice, Runs, At, GetOrCreate, Incremental, OtherTypes, ThreadTypes,
         Homeless, OnStep
<1>6. CASE Mark(t)
    BY <1>a, <1>6, GotoThread, FinishThread, CountOutThread, Found
      DEF Mark, Runs, At, OtherTypes, ThreadTypes, Homeless, OnStep
<1>7. CASE BeginExtraction(t)
    BY <1>a, <1>7, GotoThread, FinishThread, CountOutThread, Found
      DEF BeginExtraction, Runs, At, OtherTypes, ThreadTypes, Homeless, OnStep
<1>8. CASE Spawn(t)
    BY <1>a, <1>8, GotoThread, FinishThread, CountOutThread, Found
      DEF Spawn, Runs, At, OtherTypes, ThreadTypes, Homeless, OnStep
<1>9. CASE SpawnFails(t)
    BY <1>a, <1>9, GotoThread, FinishThread, CountOutThread, Found
      DEF SpawnFails, Runs, At, OtherTypes, ThreadTypes, Homeless, OnStep
<1>10. CASE Extract(t)
    BY <1>a, <1>10, GotoThread, FinishThread, CountOutThread, Found
      DEF Extract, Runs, At, AfterExtract, OtherTypes, ThreadTypes, Homeless, OnStep
<1>11. CASE ExtractFails(t)
  <2>1. CASE job[t] = "extract"
    BY <1>a, <2>1, <1>11 DEF ExtractFails, Runs, At, Homeless
  <2>2. CASE job[t] # "extract"
    BY <1>a, <2>2, <1>11, FinishThread DEF ExtractFails, Homeless
  <2> QED BY <2>1, <2>2
<1>12. CASE Rewind(t)
    BY <1>a, <1>12, GotoThread, FinishThread, CountOutThread, Found
      DEF Rewind, Runs, At, OtherTypes, ThreadTypes, Homeless, OnStep
<1>13. CASE EndExtraction(t)
    BY <1>a, <1>13, GotoThread, FinishThread, CountOutThread, Found
      DEF EndExtraction, Runs, At, OtherTypes, ThreadTypes, Homeless, OnStep
<1>14. CASE CommitSnapshot(t)
  <2>1. CASE snap[t] = {}
    BY <1>a, <2>1, <1>14, FinishThread DEF CommitSnapshot, Homeless
  <2>2. CASE snap[t] # {}
    <3>1. buf[t] \in Buffer /\ buf' = buf
      BY <1>a, <2>2, <1>14 DEF CommitSnapshot, Runs, At, Homeless
    <3> QED BY <1>a, <3>1, LimitAssumption DEF OtherTypes, Buffer
  <2> QED BY <2>1, <2>2
<1>15. CASE ScanMessages(t)
    BY <1>a, <1>15, GotoThread, FinishThread, CountOutThread, Found
      DEF ScanMessages, Runs, At, OtherTypes, ThreadTypes, Homeless, OnStep
<1>16. CASE AssignMessages(t)
  <2>1. CASE job[t] = "extract"
    BY <1>a, <2>1, <1>16, GotoThread
      DEF AssignMessages, AssignWithMark, Runs, At, OnStep, ThreadTypes, Homeless
  <2>2. CASE job[t] # "extract"
    BY <1>a, <2>2, <1>16, FinishThread
      DEF AssignMessages, AssignWithMark, Runs, At, Homeless
  <2> QED BY <2>1, <2>2
<1>17. CASE SliceCompaction(t)
    BY <1>a, <1>17, GotoThread, FinishThread, CountOutThread, Found
      DEF SliceCompaction, Runs, At, GetOrCreate, Incremental, OtherTypes,
         ThreadTypes, Homeless, OnStep
<1>18. CASE Remark(t)
    BY <1>a, <1>18, GotoThread, FinishThread, CountOutThread, Found
      DEF Remark, Runs, At, OtherTypes, ThreadTypes, Homeless, OnStep
<1>19. CASE IssueToken(t)
  <2>1. CASE job[t] = "compact"
    <3>1. pc'[t] = "commit" /\ buf' = buf
      BY <1>a, <2>1, <1>19 DEF IssueToken, Goto, ThreadTypes
    <3> QED BY <1>a, <3>1, LimitAssumption DEF Homeless, OtherTypes, Buffer
  <2>2. CASE job[t] # "compact"
    <3>1. pc'[t] = "idle" /\ buf'[t] = 0
      BY <2>2, <1>19, FinishThread DEF IssueToken
    <3> QED BY <1>a, <3>1, LimitAssumption DEF Homeless, OtherTypes, Buffer
  <2> QED BY <2>1, <2>2
<1>20. CASE RedeemToken(t)
    BY <1>a, <1>20, GotoThread, FinishThread, CountOutThread, Found
      DEF RedeemToken, Runs, At, OtherTypes, ThreadTypes, Homeless, OnStep
<1>21. CASE RefuseToken(t)
    BY <1>a, <1>21, GotoThread, FinishThread, CountOutThread, Found
      DEF RefuseToken, Runs, At, GetOrCreate, OtherTypes, ThreadTypes, Homeless,
         OnStep
<1>22. CASE CheckCommit(t)
  <2>1. PICK b \in Buffer :
          /\ GetOrCreate(b)
          /\ IF messages[b] = <<>> \/ committing[b]
             THEN Finish(t)
             ELSE Goto(t, job[t], "copy") /\ buf' = [buf EXCEPT ![t] = b] /\ UNCHANGED <<snap, kept>>
    BY <1>22 DEF CheckCommit
  <2>2. CASE messages[b] = <<>> \/ committing[b]
    <3>1. pc'[t] = "idle" /\ buf'[t] = 0
      BY <2>1, <2>2, FinishThread
    <3> QED BY <1>a, <3>1, LimitAssumption DEF Homeless, OtherTypes, Buffer
  <2>3. CASE ~ (messages[b] = <<>> \/ committing[b])
    <3>1. buf'[t] = b /\ b <= made'
      BY <2>1, <2>3, Found DEF ThreadTypes
    <3> QED BY <3>1
  <2> QED BY <2>2, <2>3
<1>23. CASE CopyMessages(t)
    BY <1>a, <1>23, GotoThread, FinishThread, CountOutThread, Found
      DEF CopyMessages, Runs, At, OtherTypes, ThreadTypes, Homeless, OnStep
<1>24. CASE ClearMessages(t)
    BY <1>a, <1>24, GotoThread, FinishThread, CountOutThread, Found
      DEF ClearMessages, Runs, At, OtherTypes, ThreadTypes, Homeless, OnStep
<1>25. CASE StoreCommit(t)
    BY <1>a, <1>25, GotoThread, FinishThread, CountOutThread, Found
      DEF StoreCommit, Runs, At, Archive, OtherTypes, ThreadTypes, Homeless, OnStep
<1>26. CASE WaitTimesOut(t)
    BY <1>a, <1>26, GotoThread, FinishThread, CountOutThread, Found
      DEF WaitTimesOut, Runs, At, OtherTypes, ThreadTypes, Homeless, OnStep
<1>27. CASE DisposeWithoutFlush(t)
    BY <1>a, <1>27, GotoThread, FinishThread, CountOutThread, Found
      DEF DisposeWithoutFlush, Awake, Runs, At, Incremental, OtherTypes,
         ThreadTypes, Homeless, OnStep
<1>28. CASE DisposeKeeps(t)
    BY <1>a, <1>28, GotoThread, FinishThread, CountOutThread, Found
      DEF DisposeKeeps, Awake, Runs, At, OtherTypes, ThreadTypes, Homeless, OnStep
<1>29. CASE DisposeWithFlush(t)
    BY <1>a, <1>29, GotoThread, FinishThread, CountOutThread, Found
      DEF DisposeWithFlush, Awake, Runs, At, Incremental, OtherTypes, ThreadTypes,
         Homeless, OnStep
<1>30. CASE DropSession(t)
  <2>1. CASE snap[t] = {}
    BY <1>a, <2>1, <1>30, FinishThread DEF DropSession, Homeless
  <2>2. CASE snap[t] # {}
    BY <1>a, <2>2, <1>30 DEF DropSession, Runs, At, Homeless
  <2> QED BY <2>1, <2>2
<1>31. CASE \E r \in Requests : Request(t, r)
  <2>1. PICK r \in Requests : Request(t, r)
    BY <1>31
  <2>2. /\ r = "dispose" => live # 0
        /\ buf'[t] = IF r = "dispose" THEN live ELSE 0
        /\ made' = made
    BY <2>1 DEF Request, ThreadTypes
  <2>3. r # "dispose" => pc'[t] \in Homeless
    <3>1. PICK p \in CASE r = "compact" -> {"prepare", "redeem"}
                    [] r = "dispose" -> {"wait"}
                    [] OTHER -> {r} : Goto(t, r, p)
      BY <2>1 DEF Request
    <3>2. pc'[t] = p
      BY <3>1 DEF Goto, ThreadTypes
    <3> QED BY <3>1, <3>2, RequestAssumption DEF RequestKinds, Homeless
  <2>4. live # 0 => live \in Buffer
    BY LimitAssumption DEF OtherTypes, Buffer
  <2> QED BY <1>a, <2>2, <2>3, <2>4 DEF OtherTypes
<1> QED
  BY <1>1, <1>2, <1>3, <1>4, <1>5, <1>6, <1>7, <1>8, <1>9, <1>10, <1>11, <1>12,
     <1>13, <1>14, <1>15, <1>16, <1>17, <1>18, <1>19, <1>20, <1>21, <1>22, <1>23,
     <1>24, <1>25, <1>26, <1>27, <1>28, <1>29, <1>30, <1>31
    DEF ThreadStep, TurnStep, ExtractStep, ArchiveStep, CompactStep, CommitStep,
       DisposeStep

LEMMA CountsKept ==
  ASSUME ThreadTypes, BufferTypes, OtherTypes, OnPath, NEW t \in Thread,
         ThreadStep(t) \/ \E r \in Requests : Request(t, r), ThreadTypes', Moved(t), ActiveCounts
  PROVE  ActiveCounts'
<1> USE DEF bufVars, histVars
<1>a. /\ OnStep(job[t], pc[t]) /\ buf[t] \in Buffer \cup {0} /\ buf[t] <= made
      /\ pc[t] \notin Homeless => buf[t] \in Buffer
      /\ made \in Nat /\ live \in 0..made
  BY DEF OtherTypes, OnPath, ThreadTypes
<1>1. CASE GetBuffer(t)
  <2>1. Steady(t) /\ active' = active
    BY <1>a, <1>1, GotoThread, FinishThread, CountOutThread, Found
      DEF GetBuffer, Runs, At, GetOrCreate, OnStep, ThreadTypes, ActiveCounts,
         Steady, Extracting
  <2> QED BY <2>1, SteadyCounts
<1>2. CASE AddMessage(t)
  <2>1. Steady(t) /\ active' = active
    BY <1>a, <1>2, GotoThread, FinishThread, CountOutThread, Found
      DEF AddMessage, Runs, At, OnStep, ThreadTypes, ActiveCounts, Steady,
         Extracting
  <2> QED BY <2>1, SteadyCounts
<1>3. CASE Accumulate(t)
  <2>1. Steady(t) /\ active' = active
    BY <1>a, <1>3, GotoThread, FinishThread, CountOutThread, Found
      DEF Accumulate, Runs, At, GetOrCreate, OnStep, ThreadTypes, ActiveCounts,
         Steady, Extracting
  <2> QED BY <2>1, SteadyCounts
<1>4. CASE CommitOnly(t)
  <2>1. Steady(t) /\ active' = active
    BY <1>a, <1>4, GotoThread, FinishThread, CountOutThread, Found
      DEF CommitOnly, Runs, At, OnStep, ThreadTypes, ActiveCounts, Steady,
         Extracting
  <2> QED BY <2>1, SteadyCounts
<1>5. CASE Slice(t)
  <2>1. Steady(t) /\ active' = active
    BY <1>a, <1>5, GotoThread, FinishThread, CountOutThread, Found
      DEF Slice, Runs, At, GetOrCreate, Incremental, OnStep, ThreadTypes,
         ActiveCounts, Steady, Extracting
  <2> QED BY <2>1, SteadyCounts
<1>6. CASE Mark(t)
  <2>1. Steady(t) /\ active' = active
    BY <1>a, <1>6, GotoThread, FinishThread, CountOutThread, Found
      DEF Mark, Runs, At, OnStep, ThreadTypes, ActiveCounts, Steady, Extracting
  <2> QED BY <2>1, SteadyCounts
<1>7. CASE BeginExtraction(t)
  <2>1. /\ ~Extracting(t) /\ Extracting(t)' /\ buf[t] \in Buffer /\ buf'[t] = buf[t] /\ snap'[t] # {}
        /\ active' = [active EXCEPT ![buf[t]] = @ + 1]
    BY <1>a, <1>7, GotoThread
      DEF BeginExtraction, Runs, At, Homeless, OnStep, Extracting, ThreadTypes, ActiveCounts
  <2> QED BY <2>1, CountedIn
<1>8. CASE Spawn(t)
  <2>1. Steady(t) /\ active' = active
    BY <1>a, <1>8, GotoThread, FinishThread, CountOutThread, Found
      DEF Spawn, Runs, At, OnStep, ThreadTypes, ActiveCounts, Steady, Extracting
  <2> QED BY <2>1, SteadyCounts
<1>9. CASE SpawnFails(t)
  <2>1. /\ Extracting(t) /\ ~Extracting(t)' /\ pc'[t] # "begin" /\ buf[t] \in Buffer
        /\ active' = [active EXCEPT ![buf[t]] = @ - 1]
    BY <1>a, <1>9, CountOutThread
      DEF SpawnFails, CountOut, Runs, At, Homeless, OnStep, Extracting
  <2> QED BY <2>1, CountedOut
<1>10. CASE Extract(t)
  <2>1. CASE job[t] = "extract"
    <3>1. Steady(t) /\ active' = active
      BY <1>a, <2>1, <1>10, GotoThread
        DEF Extract, AfterExtract, Runs, At, OnStep, ThreadTypes, ActiveCounts, Steady, Extracting
    <3> QED BY <3>1, SteadyCounts
  <2>2. CASE job[t] # "extract"
    <3>1. job'[t] \in {"none", job[t]} /\ pc'[t] \in {"idle", "remark"} /\ active' = active
      BY <1>a, <2>2, <1>10, FinishThread DEF Extract, AfterExtract, Goto, ThreadTypes
    <3>2. Steady(t)
      BY <2>2, <3>1, <1>10 DEF Extract, Runs, At, Steady, Extracting
    <3> QED BY <3>1, <3>2, SteadyCounts
  <2> QED BY <2>1, <2>2
<1>11. CASE ExtractFails(t)
  <2>1. CASE job[t] = "extract"
    <3>1. Steady(t) /\ active' = active
      BY <1>a, <2>1, <1>11, GotoThread
        DEF ExtractFails, Runs, At, OnStep, ThreadTypes, ActiveCounts, Steady, Extracting
    <3> QED BY <3>1, SteadyCounts
  <2>2. CASE job[t] # "extract"
    <3>1. job'[t] = "none" /\ pc'[t] = "idle" /\ active' = active
      BY <2>2, <1>11, FinishThread DEF ExtractFails
    <3>2. Steady(t)
      BY <2>2, <3>1, <1>11 DEF ExtractFails, Runs, At, Steady, Extracting
    <3> QED BY <3>1, <3>2, SteadyCounts
  <2> QED BY <2>1, <2>2
<1>12. CASE Rewind(t)
  <2>1. Steady(t) /\ active' = active
    BY <1>a, <1>12, GotoThread, FinishThread, CountOutThread, Found
      DEF Rewind, Runs, At, OnStep, ThreadTypes, ActiveCounts, Steady, Extracting
  <2> QED BY <2>1, SteadyCounts
<1>13. CASE EndExtraction(t)
  <2>1. /\ Extracting(t) /\ ~Extracting(t)' /\ pc'[t] # "begin" /\ buf[t] \in Buffer
        /\ active' = [active EXCEPT ![buf[t]] = @ - 1]
    BY <1>a, <1>13, CountOutThread
      DEF EndExtraction, CountOut, Runs, At, Homeless, OnStep, Extracting
  <2> QED BY <2>1, CountedOut
<1>14. CASE CommitSnapshot(t)
  <2>1. pc[t] = "archive" /\ active' = active
    BY <1>14 DEF CommitSnapshot, Runs, At
  <2>2. CASE snap[t] = {}
    <3>1. job'[t] = "none" /\ pc'[t] = "idle"
      BY <2>2, <1>14, FinishThread DEF CommitSnapshot
    <3> QED BY <2>1, <2>2, <3>1, SteadyCounts DEF Steady, Extracting, ActiveCounts
  <2>3. CASE snap[t] # {}
    <3>1. job'[t] = job[t] /\ pc'[t] = "scan" /\ buf'[t] = buf[t] /\ snap'[t] = snap[t]
      BY <2>3, <1>14 DEF CommitSnapshot, Goto, ThreadTypes
    <3> QED BY <2>1, <2>3, <3>1, SteadyCounts DEF Steady, Extracting
  <2> QED BY <2>2, <2>3
<1>15. CASE ScanMessages(t)
  <2>1. Steady(t) /\ active' = active
    BY <1>a, <1>15, GotoThread, FinishThread, CountOutThread, Found
      DEF ScanMessages, Runs, At, OnStep, ThreadTypes, ActiveCounts, Steady,
         Extracting
  <2> QED BY <2>1, SteadyCounts
<1>16. CASE AssignMessages(t)
  <2>1. Steady(t) /\ active' = active
    BY <1>a, <1>16, GotoThread, FinishThread, CountOutThread, Found
      DEF AssignMessages, AssignWithMark, Runs, At, OnStep, ThreadTypes,
         ActiveCounts, Steady, Extracting
  <2> QED BY <2>1, SteadyCounts
<1>17. CASE SliceCompaction(t)
  <2>1. Steady(t) /\ active' = active
    BY <1>a, <1>17, GotoThread, FinishThread, CountOutThread, Found
      DEF SliceCompaction, Runs, At, GetOrCreate, Incremental, OnStep, ThreadTypes,
         ActiveCounts, Steady, Extracting
  <2> QED BY <2>1, SteadyCounts
<1>18. CASE Remark(t)
  <2>1. Steady(t) /\ active' = active
    BY <1>a, <1>18, GotoThread, FinishThread, CountOutThread, Found
      DEF Remark, Runs, At, OnStep, ThreadTypes, ActiveCounts, Steady, Extracting
  <2> QED BY <2>1, SteadyCounts
<1>19. CASE IssueToken(t)
  <2>1. Steady(t) /\ active' = active
    BY <1>a, <1>19, GotoThread, FinishThread, CountOutThread, Found
      DEF IssueToken, Runs, At, GetOrCreate, OnStep, ThreadTypes, ActiveCounts,
         Steady, Extracting
  <2> QED BY <2>1, SteadyCounts
<1>20. CASE RedeemToken(t)
  <2>1. Steady(t) /\ active' = active
    BY <1>a, <1>20, GotoThread, FinishThread, CountOutThread, Found
      DEF RedeemToken, Runs, At, OnStep, ThreadTypes, ActiveCounts, Steady,
         Extracting
  <2> QED BY <2>1, SteadyCounts
<1>21. CASE RefuseToken(t)
  <2>1. Steady(t) /\ active' = active
    BY <1>a, <1>21, GotoThread, FinishThread, CountOutThread, Found
      DEF RefuseToken, Runs, At, GetOrCreate, OnStep, ThreadTypes, ActiveCounts,
         Steady, Extracting
  <2> QED BY <2>1, SteadyCounts
<1>22. CASE CheckCommit(t)
  <2>1. Steady(t) /\ active' = active
    BY <1>a, <1>22, GotoThread, FinishThread, CountOutThread, Found
      DEF CheckCommit, Runs, At, GetOrCreate, OnStep, ThreadTypes, ActiveCounts,
         Steady, Extracting
  <2> QED BY <2>1, SteadyCounts
<1>23. CASE CopyMessages(t)
  <2>1. Steady(t) /\ active' = active
    BY <1>a, <1>23, GotoThread, FinishThread, CountOutThread, Found
      DEF CopyMessages, Runs, At, OnStep, ThreadTypes, ActiveCounts, Steady,
         Extracting
  <2> QED BY <2>1, SteadyCounts
<1>24. CASE ClearMessages(t)
  <2>1. Steady(t) /\ active' = active
    BY <1>a, <1>24, GotoThread, FinishThread, CountOutThread, Found
      DEF ClearMessages, Runs, At, OnStep, ThreadTypes, ActiveCounts, Steady,
         Extracting
  <2> QED BY <2>1, SteadyCounts
<1>25. CASE StoreCommit(t)
  <2>1. Steady(t) /\ active' = active
    BY <1>a, <1>25, GotoThread, FinishThread, CountOutThread, Found
      DEF StoreCommit, Runs, At, Archive, OnStep, ThreadTypes, ActiveCounts, Steady,
         Extracting
  <2> QED BY <2>1, SteadyCounts
<1>26. CASE WaitTimesOut(t)
  <2>1. Steady(t) /\ active' = active
    BY <1>a, <1>26, GotoThread, FinishThread, CountOutThread, Found
      DEF WaitTimesOut, Runs, At, OnStep, ThreadTypes, ActiveCounts, Steady,
         Extracting
  <2> QED BY <2>1, SteadyCounts
<1>27. CASE DisposeWithoutFlush(t)
  <2>1. Steady(t) /\ active' = active
    BY <1>a, <1>27, GotoThread, FinishThread, CountOutThread, Found
      DEF DisposeWithoutFlush, Awake, Runs, At, Incremental, OnStep, ThreadTypes,
         ActiveCounts, Steady, Extracting
  <2> QED BY <2>1, SteadyCounts
<1>28. CASE DisposeKeeps(t)
  <2>1. Steady(t) /\ active' = active
    BY <1>a, <1>28, GotoThread, FinishThread, CountOutThread, Found
      DEF DisposeKeeps, Awake, Runs, At, OnStep, ThreadTypes, ActiveCounts, Steady,
         Extracting
  <2> QED BY <2>1, SteadyCounts
<1>29. CASE DisposeWithFlush(t)
  <2>1. Steady(t) /\ active' = active
    BY <1>a, <1>29, GotoThread, FinishThread, CountOutThread, Found
      DEF DisposeWithFlush, Awake, Runs, At, Incremental, OnStep, ThreadTypes,
         ActiveCounts, Steady, Extracting
  <2> QED BY <2>1, SteadyCounts
<1>30. CASE DropSession(t)
  <2>1. Steady(t) /\ active' = active
    BY <1>a, <1>30, GotoThread, FinishThread, CountOutThread, Found
      DEF DropSession, Runs, At, OnStep, ThreadTypes, ActiveCounts, Steady,
         Extracting
  <2> QED BY <2>1, SteadyCounts
<1>31. CASE \E r \in Requests : Request(t, r)
  <2>1. PICK r \in Requests : Request(t, r)
    BY <1>31
  <2>2. job[t] = "none" /\ pc[t] = "idle" /\ active' = active
    BY <1>a, <2>1 DEF Request, Runs, At, OnStep
  <2>3. PICK p \in RequestKinds \cup {"redeem", "wait"} : Goto(t, r, p)
    BY <2>1, RequestAssumption DEF Request, RequestKinds
  <2>4. job'[t] # "extract" /\ pc'[t] # "spawn" /\ pc'[t] # "begin"
    BY <2>3, RequestAssumption DEF Goto, ThreadTypes, RequestKinds
  <2> QED BY <2>2, <2>4, SteadyCounts DEF Steady, Extracting
<1> QED
  BY <1>1, <1>2, <1>3, <1>4, <1>5, <1>6, <1>7, <1>8, <1>9, <1>10, <1>11, <1>12,
     <1>13, <1>14, <1>15, <1>16, <1>17, <1>18, <1>19, <1>20, <1>21, <1>22, <1>23,
     <1>24, <1>25, <1>26, <1>27, <1>28, <1>29, <1>30, <1>31
    DEF ThreadStep, TurnStep, ExtractStep, ArchiveStep, CompactStep, CommitStep,
       DisposeStep

TypeInv == ThreadTypes /\ BufferTypes /\ OtherTypes /\ OnPath /\ ActiveCounts

LEMMA TypesStart == Init => TypeInv
<1> SUFFICES ASSUME Init PROVE TypeInv
  OBVIOUS
<1>1. ThreadTypes
  BY NothingTyped DEF Init, ThreadTypes, Jobs, Steps
<1>2. BufferTypes
  <2>1. <<>> \in Seq(Message) /\ Len(<<>>) = 0
    OBVIOUS
  <2> QED BY <2>1 DEF Init, BufferTypes
<1>3. OtherTypes
  BY LimitAssumption DEF Init, OtherTypes
<1>4. OnPath
  BY DEF Init, OnPath, OnStep, Homeless
<1>5. ActiveCounts
  <2>1. ASSUME NEW b \in Buffer PROVE Cardinality(Counted(b)) = 0
    <3>1. Counted(b) = {}
      BY DEF Init, Counted, Extracting
    <3> QED BY <3>1, FS_EmptySet
  <2> QED BY <2>1 DEF Init, ActiveCounts, Extracting
<1> QED BY <1>1, <1>2, <1>3, <1>4, <1>5 DEF TypeInv

LEMMA TypesMove ==
  ASSUME TypeInv, NEW t \in Thread, ThreadStep(t) \/ \E r \in Requests : Request(t, r)
  PROVE  TypeInv' /\ Moved(t) /\ made <= made'
<1>1. ThreadTypes' /\ Moved(t)
  BY ThreadsMove DEF TypeInv
<1>2. OtherTypes' /\ made <= made'
  BY OthersTyped DEF TypeInv
<1>3. BufferTypes'
  BY BuffersTyped DEF TypeInv
<1>4. ActiveCounts'
  BY <1>1, CountsKept DEF TypeInv
<1>5. OnPath'
  <2>1. buf'[t] <= made' /\ (pc'[t] \notin Homeless => buf'[t] \in Buffer)
    BY <1>1, <1>2, HomeKept DEF TypeInv
  <2>2. made \in Nat /\ made' \in Nat /\ buf'[t] \in Nat
    BY <1>1, <1>2 DEF TypeInv, OtherTypes, ThreadTypes, Buffer
  <2> QED BY <1>1, <1>2, <2>1, <2>2, PathKept DEF TypeInv
<1> QED BY <1>1, <1>2, <1>3, <1>4, <1>5 DEF TypeInv

LEMMA TypesStay == TypeInv /\ UNCHANGED vars => TypeInv'
<1> SUFFICES ASSUME TypeInv, UNCHANGED vars PROVE TypeInv'
  OBVIOUS
<1>1. Extracting(1)' = Extracting(1) /\ \A b : Counted(b)' = Counted(b)
  BY DEF vars, thrVars, Extracting, Counted
<1>2. ActiveCounts'
  BY <1>1 DEF TypeInv, ActiveCounts, vars, bufVars, thrVars, Extracting
<1>3. ThreadTypes' /\ BufferTypes' /\ OtherTypes' /\ OnPath'
  BY DEF TypeInv, ThreadTypes, BufferTypes, OtherTypes, OnPath, vars, bufVars, thrVars, histVars
<1> QED BY <1>2, <1>3 DEF TypeInv

LEMMA TypesInductive == Spec => []TypeInv
<1>1. TypeInv /\ [Next]_vars => TypeInv'
  BY TypesMove, TypesStay DEF Next
<1> QED BY <1>1, TypesStart, PTL DEF Spec

\* The watermark stays within the buffer and no counter goes below zero, for any
\* number of threads, buffers and messages, clients that do not wait for their
\* answers, threads suspended inside the buffer's methods and failing extractions
\* (session_manager.py: the lock protects each method of SessionBuffer only).
THEOREM Types == Spec => []TypeOK
<1>1. TypeInv => TypeOK
  BY TypeParts DEF TypeInv, ActiveCounts
<1> QED BY <1>1, TypesInductive, PTL

-----------------------------------------------------------------------------

-----------------------------------------------------------------------------
(***************************************************************************)
(* Clients that await their answers: dispose removes no session under a    *)
(* running extraction.                                                     *)
(***************************************************************************)
OneServed == \A t, u \in Thread : Serving(t) /\ Serving(u) => t = u

\* A request works on the buffer that is live.
ServesLive ==
  \A t \in Thread : Serving(t) /\ pc[t] \notin Homeless => buf[t] = live

DisposeAwake ==
  \A t \in Thread : pc[t] \in {"woken", "drop"} => active[buf[t]] = 0

Serves(t) ==
  /\ Serving(t)' => Serving(t) \/ \A u \in Thread : ~Serving(u)
  /\ Serving(t)' /\ pc'[t] \notin Homeless => buf'[t] = live'
  /\ live # 0 /\ live' # live => live' = 0 /\ pc[t] = "drop" /\ ~Serving(t)'

Waits(t) ==
  /\ pc'[t] # "woken"
  /\ pc'[t] = "drop" => /\ pc[t] = "woken" \/ (pc[t] = "wait" /\ active[buf[t]] = 0)
                        /\ buf'[t] = buf[t]
  /\ \/ active' = active /\ \A u \in Thread \ {t} : pc'[u] = pc[u]
     \/ pc[t] = "begin" /\ pc'[t] = "spawn" /\ active' = [active EXCEPT ![buf[t]] = @ + 1]
        /\ \A u \in Thread \ {t} : pc'[u] = pc[u]
     \/ /\ pc'[t] # "drop" /\ Extracting(t) /\ active' = [active EXCEPT ![buf[t]] = @ - 1]
        /\ \A u \in Thread \ {t} : pc'[u] # pc[u] =>
             pc[u] = "wait" /\ active[buf[t]] = 1 /\ buf[u] = buf[t]

LEMMA ServingGoesOn ==
  ASSUME ThreadTypes, BufferTypes, OtherTypes, OnPath, NEW t \in Thread,
         ThreadStep(t) \/ \E r \in Requests : Request(t, r), ThreadTypes', Moved(t), Serial, ServesLive
  PROVE  Serves(t)
<1> USE DEF bufVars, histVars
<1>a. /\ OnStep(job[t], pc[t]) /\ buf[t] \in Buffer \cup {0} /\ buf[t] <= made
      /\ pc[t] \notin Homeless => buf[t] \in Buffer
      /\ made \in Nat /\ live \in 0..made
  BY DEF OtherTypes, OnPath, ThreadTypes
<1>b. Serving(t) /\ pc[t] \notin Homeless => buf[t] = live
  BY DEF ServesLive
<1>1. CASE GetBuffer(t)
    BY <1>a, <1>b, <1>1, GotoThread, FinishThread, CountOutThread, Found
      DEF GetBuffer, Runs, At, GetOrCreate, OnStep, ThreadTypes, Homeless, Serving,
         Serves
<1>2. CASE AddMessage(t)
    BY <1>a, <1>b, <1>2, GotoThread, FinishThread, CountOutThread, Found
      DEF AddMessage, Runs, At, OnStep, ThreadTypes, Homeless, Serving, Serves
<1>3. CASE Accumulate(t)
    BY <1>a, <1>b, <1>3, GotoThread, FinishThread, CountOutThread, Found
      DEF Accumulate, Runs, At, GetOrCreate, OnStep, ThreadTypes, Homeless, Serving,
         Serves
<1>4. CASE CommitOnly(t)
    BY <1>a, <1>b, <1>4, GotoThread, FinishThread, CountOutThread, Found
      DEF CommitOnly, Runs, At, OnStep, ThreadTypes, Homeless, Serving, Serves
<1>5. CASE Slice(t)
    BY <1>a, <1>b, <1>5, GotoThread, FinishThread, CountOutThread, Found
      DEF Slice, Runs, At, GetOrCreate, Incremental, OnStep, ThreadTypes, Homeless,
         Serving, Serves
<1>6. CASE Mark(t)
    BY <1>a, <1>b, <1>6, GotoThread, FinishThread, CountOutThread, Found
      DEF Mark, Runs, At, OnStep, ThreadTypes, Homeless, Serving, Serves
<1>7. CASE BeginExtraction(t)
    BY <1>a, <1>b, <1>7, GotoThread, FinishThread, CountOutThread, Found
      DEF BeginExtraction, Runs, At, OnStep, ThreadTypes, Homeless, Serving, Serves
<1>8. CASE Spawn(t)
    BY <1>a, <1>b, <1>8, GotoThread, FinishThread, CountOutThread, Found
      DEF Spawn, Runs, At, OnStep, ThreadTypes, Homeless, Serving, Serves
<1>9. CASE SpawnFails(t)
    BY <1>a, <1>b, <1>9, GotoThread, FinishThread, CountOutThread, Found
      DEF SpawnFails, Runs, At, OnStep, ThreadTypes, Homeless, Serving, Serves
<1>10. CASE Extract(t)
  <2>1. live' = live /\ pc[t] = "extract"
    BY <1>10 DEF Extract, Runs, At
  <2>2. CASE job[t] = "flush"
    <3>1. ~Serving(t)'
      BY <2>2, <1>10, FinishThread DEF Extract, AfterExtract, Serving
    <3> QED BY <2>1, <3>1 DEF Serves
  <2>3. CASE job[t] # "flush"
    <3>1. job'[t] = job[t] /\ buf'[t] = buf[t]
      BY <2>3, <1>10 DEF Extract, AfterExtract, Goto, ThreadTypes
    <3>2. buf[t] \in Buffer /\ (Serving(t) => buf[t] = live)
      BY <1>a, <1>b, <2>1 DEF Homeless
    <3>3. 0 \notin Buffer
      BY LimitAssumption DEF Buffer
    <3> QED BY <2>1, <3>1, <3>2, <3>3 DEF Serves, Serving
  <2> QED BY <2>2, <2>3
<1>11. CASE ExtractFails(t)
    BY <1>a, <1>b, <1>11, GotoThread, FinishThread, CountOutThread, Found
      DEF ExtractFails, Runs, At, OnStep, ThreadTypes, Homeless, Serving, Serves
<1>12. CASE Rewind(t)
    BY <1>a, <1>b, <1>12, GotoThread, FinishThread, CountOutThread, Found
      DEF Rewind, Runs, At, OnStep, ThreadTypes, Homeless, Serving, Serves
<1>13. CASE EndExtraction(t)
    BY <1>a, <1>b, <1>13, GotoThread, FinishThread, CountOutThread, Found
      DEF EndExtraction, Runs, At, OnStep, ThreadTypes, Homeless, Serving, Serves
<1>14. CASE CommitSnapshot(t)
  <2>1. pc[t] = "archive" /\ (live # 0 => live' = live)
    BY <1>14, Found DEF CommitSnapshot, Runs, At, GetOrCreate
  <2>2. CASE snap[t] = {}
    <3>1. ~Serving(t)'
      BY <2>2, <1>14, FinishThread DEF CommitSnapshot, Serving
    <3> QED BY <2>1, <3>1 DEF Serves
  <2>3. CASE snap[t] # {}
    <3>1. job'[t] = job[t] /\ buf'[t] = buf[t]
      BY <2>3, <1>14 DEF CommitSnapshot, Goto, ThreadTypes
    <3>2. buf[t] \in Buffer /\ (Serving(t) => buf[t] = live)
      BY <1>a, <1>b, <2>1 DEF Homeless
    <3>3. 0 \notin Buffer
      BY LimitAssumption DEF Buffer
    <3> QED BY <2>1, <3>1, <3>2, <3>3 DEF Serves, Serving
  <2> QED BY <2>2, <2>3
<1>15. CASE ScanMessages(t)
    BY <1>a, <1>b, <1>15, GotoThread, FinishThread, CountOutThread, Found
      DEF ScanMessages, Runs, At, OnStep, ThreadTypes, Homeless, Serving, Serves
<1>16. CASE AssignMessages(t)
    BY <1>a, <1>b, <1>16, GotoThread, FinishThread, CountOutThread, Found
      DEF AssignMessages, AssignWithMark, Runs, At, OnStep, ThreadTypes, Homeless,
         Serving, Serves
<1>17. CASE SliceCompaction(t)
    BY <1>a, <1>b, <1>17, GotoThread, FinishThread, CountOutThread, Found
      DEF SliceCompaction, Runs, At, GetOrCreate, Incremental, OnStep, ThreadTypes,
         Homeless, Serving, Serves
<1>18. CASE Remark(t)
    BY <1>a, <1>b, <1>18, GotoThread, FinishThread, CountOutThread, Found
      DEF Remark, Runs, At, OnStep, ThreadTypes, Homeless, Serving, Serves
<1>19. CASE IssueToken(t)
    BY <1>a, <1>b, <1>19, GotoThread, FinishThread, CountOutThread, Found
      DEF IssueToken, Runs, At, GetOrCreate, OnStep, ThreadTypes, Homeless, Serving,
         Serves
<1>20. CASE RedeemToken(t)
    BY <1>a, <1>b, <1>20, GotoThread, FinishThread, CountOutThread, Found
      DEF RedeemToken, Runs, At, OnStep, ThreadTypes, Homeless, Serving, Serves
<1>21. CASE RefuseToken(t)
    BY <1>a, <1>b, <1>21, GotoThread, FinishThread, CountOutThread, Found
      DEF RefuseToken, Runs, At, GetOrCreate, OnStep, ThreadTypes, Homeless,
         Serving, Serves
<1>22. CASE CheckCommit(t)
    BY <1>a, <1>b, <1>22, GotoThread, FinishThread, CountOutThread, Found
      DEF CheckCommit, Runs, At, GetOrCreate, OnStep, ThreadTypes, Homeless,
         Serving, Serves
<1>23. CASE CopyMessages(t)
    BY <1>a, <1>b, <1>23, GotoThread, FinishThread, CountOutThread, Found
      DEF CopyMessages, Runs, At, OnStep, ThreadTypes, Homeless, Serving, Serves
<1>24. CASE ClearMessages(t)
    BY <1>a, <1>b, <1>24, GotoThread, FinishThread, CountOutThread, Found
      DEF ClearMessages, Runs, At, OnStep, ThreadTypes, Homeless, Serving, Serves
<1>25. CASE StoreCommit(t)
    BY <1>a, <1>b, <1>25, GotoThread, FinishThread, CountOutThread, Found
      DEF StoreCommit, Runs, At, Archive, OnStep, ThreadTypes, Homeless, Serving,
         Serves
<1>26. CASE WaitTimesOut(t)
    BY <1>a, <1>b, <1>26, GotoThread, FinishThread, CountOutThread, Found
      DEF WaitTimesOut, Runs, At, OnStep, ThreadTypes, Homeless, Serving, Serves
<1>27. CASE DisposeWithoutFlush(t)
    BY <1>a, <1>b, <1>27, GotoThread, FinishThread, CountOutThread, Found
      DEF DisposeWithoutFlush, Awake, Runs, At, Incremental, OnStep, ThreadTypes,
         Homeless, Serving, Serves
<1>28. CASE DisposeKeeps(t)
    BY <1>a, <1>b, <1>28, GotoThread, FinishThread, CountOutThread, Found
      DEF DisposeKeeps, Awake, Runs, At, OnStep, ThreadTypes, Homeless, Serving,
         Serves
<1>29. CASE DisposeWithFlush(t)
    BY <1>a, <1>b, <1>29, GotoThread, FinishThread, CountOutThread, Found
      DEF DisposeWithFlush, Awake, Runs, At, Incremental, OnStep, ThreadTypes,
         Homeless, Serving, Serves
<1>30. CASE DropSession(t)
  <2>1. pc[t] = "drop" /\ live' = 0
    BY <1>30 DEF DropSession, Runs, At
  <2>2. ~Serving(t)'
    <3>1. CASE snap[t] = {}
      BY <3>1, <1>30, FinishThread DEF DropSession, Serving
    <3>2. CASE snap[t] # {}
      BY <3>2, <1>30 DEF DropSession, Goto, ThreadTypes, Serving
    <3> QED BY <3>1, <3>2
  <2> QED BY <2>1, <2>2 DEF Serves
<1>31. CASE \E r \in Requests : Request(t, r)
  <2>1. PICK r \in Requests : Request(t, r)
    BY <1>31
  <2>2. (\A u \in Thread : ~Serving(u)) /\ live' = live
    BY <2>1 DEF Request
  <2>3. PICK p \in CASE r = "compact" -> {"prepare", "redeem"}
                  [] r = "dispose" -> {"wait"}
                  [] OTHER -> {r} : Goto(t, r, p)
    BY <2>1 DEF Request
  <2>4. pc'[t] = p /\ (r # "dispose" => p \in Homeless)
    BY <2>3, RequestAssumption DEF Goto, ThreadTypes, RequestKinds, Homeless
  <2>5. r = "dispose" => buf'[t] = live
    BY <2>1 DEF Request, ThreadTypes
  <2> QED BY <2>2, <2>4, <2>5 DEF Serves
<1> QED
  BY <1>1, <1>2, <1>3, <1>4, <1>5, <1>6, <1>7, <1>8, <1>9, <1>10, <1>11, <1>12,
     <1>13, <1>14, <1>15, <1>16, <1>17, <1>18, <1>19, <1>20, <1>21, <1>22, <1>23,
     <1>24, <1>25, <1>26, <1>27, <1>28, <1>29, <1>30, <1>31
    DEF ThreadStep, TurnStep, ExtractStep, ArchiveStep, CompactStep, CommitStep,
       DisposeStep

LEMMA WaitingGoesOn ==
  ASSUME ThreadTypes, BufferTypes, OtherTypes, OnPath, NEW t \in Thread,
         ThreadStep(t) \/ \E r \in Requests : Request(t, r), ThreadTypes', Moved(t)
  PROVE  Waits(t)
<1> USE DEF bufVars, histVars
<1>a. /\ OnStep(job[t], pc[t]) /\ buf[t] \in Buffer \cup {0} /\ buf[t] <= made
      /\ pc[t] \notin Homeless => buf[t] \in Buffer
      /\ made \in Nat /\ live \in 0..made
  BY DEF OtherTypes, OnPath, ThreadTypes
<1>1. CASE GetBuffer(t)
    BY <1>a, <1>1, GotoThread, FinishThread, CountOutThread, Found
      DEF GetBuffer, Runs, At, GetOrCreate, OnStep, ThreadTypes, Waits
<1>2. CASE AddMessage(t)
    BY <1>a, <1>2, GotoThread, FinishThread, CountOutThread, Found
      DEF AddMessage, Runs, At, OnStep, ThreadTypes, Waits
<1>3. CASE Accumulate(t)
    BY <1>a, <1>3, GotoThread, FinishThread, CountOutThread, Found
      DEF Accumulate, Runs, At, GetOrCreate, OnStep, ThreadTypes, Waits
<1>4. CASE CommitOnly(t)
    BY <1>a, <1>4, GotoThread, FinishThread, CountOutThread, Found
      DEF CommitOnly, Runs, At, OnStep, ThreadTypes, Waits
<1>5. CASE Slice(t)
    BY <1>a, <1>5, GotoThread, FinishThread, CountOutThread, Found
      DEF Slice, Runs, At, GetOrCreate, Incremental, OnStep, ThreadTypes, Waits
<1>6. CASE Mark(t)
    BY <1>a, <1>6, GotoThread, FinishThread, CountOutThread, Found
      DEF Mark, Runs, At, OnStep, ThreadTypes, Waits
<1>7. CASE BeginExtraction(t)
    BY <1>a, <1>7, GotoThread, FinishThread, CountOutThread, Found
      DEF BeginExtraction, Runs, At, OnStep, ThreadTypes, Waits
<1>8. CASE Spawn(t)
    BY <1>a, <1>8, GotoThread, FinishThread, CountOutThread, Found
      DEF Spawn, Runs, At, OnStep, ThreadTypes, Waits
<1>9. CASE SpawnFails(t)
  <2>1. OnStep("fallback", "extract") /\ CountOut(t, "fallback", "extract") /\ Extracting(t)
    BY <1>a, <1>9 DEF SpawnFails, OnStep, Runs, At, Extracting
  <2>2. active' = [active EXCEPT ![buf[t]] = @ - 1]
    BY <2>1 DEF CountOut
  <2> QED BY <2>1, <2>2, CountOutThread DEF Waits
<1>10. CASE Extract(t)
  <2>1. active' = active
    BY <1>10 DEF Extract
  <2>2. CASE job[t] = "flush"
    <3>1. pc'[t] = "idle" /\ \A u \in Thread \ {t} : pc'[u] = pc[u]
      BY <2>2, <1>10, FinishThread DEF Extract, AfterExtract
    <3> QED BY <2>1, <3>1 DEF Waits
  <2>3. CASE ~ (job[t] = "flush")
    <3>1. pc'[t] \in {"archive", "remark"} /\ \A u \in Thread \ {t} : pc'[u] = pc[u]
      BY <2>3, <1>10 DEF Extract, Goto, ThreadTypes, AfterExtract
    <3> QED BY <2>1, <3>1 DEF Waits
  <2> QED BY <2>2, <2>3
<1>11. CASE ExtractFails(t)
  <2>1. active' = active
    BY <1>11 DEF ExtractFails
  <2>2. CASE job[t] # "extract"
    <3>1. pc'[t] = "idle" /\ \A u \in Thread \ {t} : pc'[u] = pc[u]
      BY <2>2, <1>11, FinishThread DEF ExtractFails
    <3> QED BY <2>1, <3>1 DEF Waits
  <2>3. CASE ~ (job[t] # "extract")
    <3>1. pc'[t] \in {"rewind"} /\ \A u \in Thread \ {t} : pc'[u] = pc[u]
      BY <2>3, <1>11 DEF ExtractFails, Goto, ThreadTypes
    <3> QED BY <2>1, <3>1 DEF Waits
  <2> QED BY <2>2, <2>3
<1>12. CASE Rewind(t)
    BY <1>a, <1>12, GotoThread, FinishThread, CountOutThread, Found
      DEF Rewind, Runs, At, OnStep, ThreadTypes, Waits
<1>13. CASE EndExtraction(t)
  <2>1. OnStep("none", "idle") /\ CountOut(t, "none", "idle") /\ Extracting(t)
    BY <1>a, <1>13 DEF EndExtraction, OnStep, Runs, At, Extracting
  <2>2. active' = [active EXCEPT ![buf[t]] = @ - 1]
    BY <2>1 DEF CountOut
  <2> QED BY <2>1, <2>2, CountOutThread DEF Waits
<1>14. CASE CommitSnapshot(t)
  <2>1. active' = active
    BY <1>14 DEF CommitSnapshot
  <2>2. CASE snap[t] = {}
    <3>1. pc'[t] = "idle" /\ \A u \in Thread \ {t} : pc'[u] = pc[u]
      BY <2>2, <1>14, FinishThread DEF CommitSnapshot
    <3> QED BY <2>1, <3>1 DEF Waits
  <2>3. CASE ~ (snap[t] = {})
    <3>1. pc'[t] \in {"scan"} /\ \A u \in Thread \ {t} : pc'[u] = pc[u]
      BY <2>3, <1>14 DEF CommitSnapshot, Goto, ThreadTypes
    <3> QED BY <2>1, <3>1 DEF Waits
  <2> QED BY <2>2, <2>3
<1>15. CASE ScanMessages(t)
    BY <1>a, <1>15, GotoThread, FinishThread, CountOutThread, Found
      DEF ScanMessages, Runs, At, OnStep, ThreadTypes, Waits
<1>16. CASE AssignMessages(t)
    BY <1>a, <1>16, GotoThread, FinishThread, CountOutThread, Found
      DEF AssignMessages, AssignWithMark, Runs, At, OnStep, ThreadTypes, Waits
<1>17. CASE SliceCompaction(t)
    BY <1>a, <1>17, GotoThread, FinishThread, CountOutThread, Found
      DEF SliceCompaction, Runs, At, GetOrCreate, Incremental, OnStep, ThreadTypes,
         Waits
<1>18. CASE Remark(t)
    BY <1>a, <1>18, GotoThread, FinishThread, CountOutThread, Found
      DEF Remark, Runs, At, OnStep, ThreadTypes, Waits
<1>19. CASE IssueToken(t)
  <2>1. active' = active
    BY <1>19 DEF IssueToken
  <2>2. CASE job[t] # "compact"
    <3>1. pc'[t] = "idle" /\ \A u \in Thread \ {t} : pc'[u] = pc[u]
      BY <2>2, <1>19, FinishThread DEF IssueToken
    <3> QED BY <2>1, <3>1 DEF Waits
  <2>3. CASE ~ (job[t] # "compact")
    <3>1. pc'[t] \in {"commit"} /\ \A u \in Thread \ {t} : pc'[u] = pc[u]
      BY <2>3, <1>19 DEF IssueToken, Goto, ThreadTypes
    <3> QED BY <2>1, <3>1 DEF Waits
  <2> QED BY <2>2, <2>3
<1>20. CASE RedeemToken(t)
    BY <1>a, <1>20, GotoThread, FinishThread, CountOutThread, Found
      DEF RedeemToken, Runs, At, OnStep, ThreadTypes, Waits
<1>21. CASE RefuseToken(t)
    BY <1>a, <1>21, GotoThread, FinishThread, CountOutThread, Found
      DEF RefuseToken, Runs, At, GetOrCreate, OnStep, ThreadTypes, Waits
<1>22. CASE CheckCommit(t)
    BY <1>a, <1>22, GotoThread, FinishThread, CountOutThread, Found
      DEF CheckCommit, Runs, At, GetOrCreate, OnStep, ThreadTypes, Waits
<1>23. CASE CopyMessages(t)
    BY <1>a, <1>23, GotoThread, FinishThread, CountOutThread, Found
      DEF CopyMessages, Runs, At, OnStep, ThreadTypes, Waits
<1>24. CASE ClearMessages(t)
    BY <1>a, <1>24, GotoThread, FinishThread, CountOutThread, Found
      DEF ClearMessages, Runs, At, OnStep, ThreadTypes, Waits
<1>25. CASE StoreCommit(t)
    BY <1>a, <1>25, GotoThread, FinishThread, CountOutThread, Found
      DEF StoreCommit, Runs, At, Archive, OnStep, ThreadTypes, Waits
<1>26. CASE WaitTimesOut(t)
    BY <1>a, <1>26, GotoThread, FinishThread, CountOutThread, Found
      DEF WaitTimesOut, Runs, At, OnStep, ThreadTypes, Waits
<1>27. CASE DisposeWithoutFlush(t)
    BY <1>a, <1>27, GotoThread, FinishThread, CountOutThread, Found
      DEF DisposeWithoutFlush, Awake, Runs, At, Incremental, OnStep, ThreadTypes,
         Waits
<1>28. CASE DisposeKeeps(t)
    BY <1>a, <1>28, GotoThread, FinishThread, CountOutThread, Found
      DEF DisposeKeeps, Awake, Runs, At, OnStep, ThreadTypes, Waits
<1>29. CASE DisposeWithFlush(t)
    BY <1>a, <1>29, GotoThread, FinishThread, CountOutThread, Found
      DEF DisposeWithFlush, Awake, Runs, At, Incremental, OnStep, ThreadTypes, Waits
<1>30. CASE DropSession(t)
  <2>1. active' = active
    BY <1>30 DEF DropSession
  <2>2. CASE snap[t] = {}
    <3>1. pc'[t] = "idle" /\ \A u \in Thread \ {t} : pc'[u] = pc[u]
      BY <2>2, <1>30, FinishThread DEF DropSession
    <3> QED BY <2>1, <3>1 DEF Waits
  <2>3. CASE ~ (snap[t] = {})
    <3>1. pc'[t] \in {"extract"} /\ \A u \in Thread \ {t} : pc'[u] = pc[u]
      BY <2>3, <1>30 DEF DropSession, Goto, ThreadTypes
    <3> QED BY <2>1, <3>1 DEF Waits
  <2> QED BY <2>2, <2>3
<1>31. CASE \E r \in Requests : Request(t, r)
  <2>1. PICK r \in Requests : Request(t, r)
    BY <1>31
  <2>2. active' = active
    BY <2>1 DEF Request
  <2>3. PICK p \in RequestKinds \cup {"redeem", "wait"} : Goto(t, r, p)
    BY <2>1, RequestAssumption DEF Request, RequestKinds
  <2>4. pc'[t] \notin {"woken", "drop"} /\ \A u \in Thread \ {t} : pc'[u] = pc[u]
    BY <2>3 DEF Goto, ThreadTypes, RequestKinds
  <2> QED BY <2>2, <2>4 DEF Waits
<1> QED
  BY <1>1, <1>2, <1>3, <1>4, <1>5, <1>6, <1>7, <1>8, <1>9, <1>10, <1>11, <1>12,
     <1>13, <1>14, <1>15, <1>16, <1>17, <1>18, <1>19, <1>20, <1>21, <1>22, <1>23,
     <1>24, <1>25, <1>26, <1>27, <1>28, <1>29, <1>30, <1>31
    DEF ThreadStep, TurnStep, ExtractStep, ArchiveStep, CompactStep, CommitStep,
       DisposeStep

ServeInv == TypeInv /\ OneServed /\ ServesLive /\ DisposeAwake

LEMMA ServingMoves ==
  ASSUME ServeInv, Serial, NEW t \in Thread, ThreadStep(t) \/ \E r \in Requests : Request(t, r)
  PROVE  ServeInv' /\ Moved(t) /\ Serves(t)
<1>1. TypeInv' /\ Moved(t)
  BY TypesMove DEF ServeInv
<1>2. Serves(t) /\ Waits(t)
  BY <1>1, ServingGoesOn, WaitingGoesOn DEF ServeInv, TypeInv
<1>3. \A u \in Thread \ {t} : (Serving(u)' <=> Serving(u)) /\ buf'[u] = buf[u]
  BY <1>1 DEF Moved, Rests, Serving
<1>4. OneServed'
  BY <1>2, <1>3 DEF OneServed, Serves, ServeInv
<1>5. ServesLive'
  <2>1. ASSUME NEW u \in Thread \ {t}, Serving(u)', pc'[u] \notin Homeless
        PROVE  buf'[u] = live'
    <3>1. (Serving(u) /\ pc[u] \notin Homeless) \/ (pc[u] = "wait" /\ Serving(u))
      BY <1>1, <1>3, <2>1 DEF Moved
    <3>2. pc[u] \notin Homeless
      BY <3>1 DEF Homeless
    <3>3. buf[u] = live /\ buf[u] \in Buffer
      BY <3>1, <3>2 DEF ServeInv, ServesLive, TypeInv, OnPath
    <3>4. live # 0
      BY <3>3, LimitAssumption DEF Buffer
    <3>5. live' = live
      <4>1. pc[t] # "drop"
        <5>1. ~Serving(t)
          BY <3>1, u # t DEF ServeInv, OneServed
        <5>2. OnStep(job[t], pc[t])
          BY DEF ServeInv, TypeInv, OnPath
        <5> QED BY <5>1, <5>2 DEF OnStep, Serving
      <4> QED BY <1>2, <3>4, <4>1 DEF Serves
    <3> QED BY <1>3, <3>3, <3>5
  <2>2. Serving(t)' /\ pc'[t] \notin Homeless => buf'[t] = live'
    BY <1>2 DEF Serves
  <2> QED BY <2>1, <2>2 DEF ServesLive
<1>6. DisposeAwake'
  <2> SUFFICES ASSUME NEW u \in Thread, pc'[u] \in {"woken", "drop"}
               PROVE  active'[buf'[u]] = 0
    BY DEF DisposeAwake
  <2>1. /\ buf'[u] = buf[u] /\ buf[u] \in Buffer
        /\ pc[u] \in {"woken", "drop"} => active[buf[u]] = 0
        /\ pc[u] \in {"wait", "woken", "drop"}
    <3>1. CASE u = t
      <4>1. pc[u] \in {"wait", "woken"} /\ buf'[u] = buf[u]
        BY <1>2, <3>1 DEF Waits
      <4> QED BY <4>1 DEF ServeInv, DisposeAwake, TypeInv, OnPath, Homeless
    <3>2. CASE u # t
      <4>1. pc[u] \in {"wait", "woken", "drop"}
        BY <1>1, <3>2 DEF Moved
      <4> QED BY <1>3, <3>2, <4>1 DEF ServeInv, DisposeAwake, TypeInv, OnPath, Homeless
    <3> QED BY <3>1, <3>2
  <2>2. CASE active' = active /\ \A v \in Thread \ {t} : pc'[v] = pc[v]
    BY <1>2, <2>1, <2>2 DEF Waits
  <2>3. CASE pc[t] = "begin"
    <3>1. Serving(t) /\ Serving(u) /\ u # t
      <4>1. OnStep(job[t], pc[t]) /\ OnStep(job[u], pc[u])
        BY DEF ServeInv, TypeInv, OnPath
      <4> QED BY <2>1, <2>3, <4>1 DEF OnStep, Serving
    <3> QED BY <3>1 DEF ServeInv, OneServed
  <2>4. CASE /\ pc'[t] # "drop" /\ Extracting(t) /\ active' = [active EXCEPT ![buf[t]] = @ - 1]
             /\ \A v \in Thread \ {t} : pc'[v] # pc[v] =>
                  pc[v] = "wait" /\ active[buf[t]] = 1 /\ buf[v] = buf[t]
    <3>1. u # t
      BY <1>2, <2>4 DEF Waits
    <3>2. active \in [Buffer -> Nat] /\ active' \in [Buffer -> Nat]
      BY <1>1 DEF ServeInv, TypeInv, ActiveCounts
    <3>3. CASE pc'[u] = pc[u]
      <4>1. active[buf[u]] = 0
        BY <2>1, <3>3
      <4> QED BY <2>1, <2>4, <3>2, <4>1
    <3>4. CASE pc'[u] # pc[u]
      BY <2>1, <2>4, <3>1, <3>2, <3>4
    <3> QED BY <3>3, <3>4
  <2> QED BY <1>2, <2>2, <2>3, <2>4 DEF Waits
<1> QED BY <1>1, <1>2, <1>4, <1>5, <1>6 DEF ServeInv

LEMMA ServingStays == ServeInv /\ UNCHANGED vars => ServeInv'
<1> SUFFICES ASSUME ServeInv, UNCHANGED vars PROVE ServeInv'
  OBVIOUS
<1>1. OneServed' /\ ServesLive' /\ DisposeAwake'
  BY DEF ServeInv, OneServed, ServesLive, DisposeAwake, Serving, vars, bufVars, thrVars
<1> QED BY <1>1, TypesStay DEF ServeInv

LEMMA ServingInductive == ASSUME Serial PROVE Spec => []ServeInv
<1>1. Init => ServeInv
  BY TypesStart DEF ServeInv, Init, OneServed, ServesLive, DisposeAwake, Serving
<1>2. ServeInv /\ [Next]_vars => ServeInv'
  BY ServingMoves, ServingStays DEF Next
<1> QED BY <1>1, <1>2, PTL DEF Spec

\* dispose never removes the session from under an extraction that is counted
\* (session_manager.py, wait_for_extraction, and memory_service.py, dispose),
\* whatever fails and wherever a thread is suspended, if every client awaits its
\* answer before it sends its next request, as the plugins do.
THEOREM DisposeIsPatient == ASSUME Serial PROVE Spec => DisposeWaits
<1>1. ServeInv /\ [Next]_vars => [live # 0 /\ live' = 0 => active[live] = 0]_vars
  <2> SUFFICES ASSUME ServeInv, Next, live # 0, live' = 0 PROVE active[live] = 0
    OBVIOUS
  <2>1. PICK t \in Thread : ThreadStep(t) \/ \E r \in Requests : Request(t, r)
    BY DEF Next
  <2>2. pc[t] = "drop"
    BY <2>1, ServingMoves DEF Serves
  <2>3. OnStep(job[t], pc[t])
    BY DEF ServeInv, TypeInv, OnPath
  <2>4. Serving(t) /\ pc[t] \notin Homeless
    BY <2>2, <2>3 DEF OnStep, Serving, Homeless
  <2> QED BY <2>2, <2>4 DEF ServeInv, DisposeAwake, ServesLive
<1> QED BY <1>1, ServingInductive, PTL DEF Spec, DisposeWaits

-----------------------------------------------------------------------------
(***************************************************************************)
(* Clients that await their answers, methods of the buffer that run to     *)
(* their end, and extractions that succeed: nothing is lost, hidden or     *)
(* extracted twice.                                                        *)
(***************************************************************************)
Step(t) == ThreadStep(t) \/ \E r \in Requests : Request(t, r)

\* What was taken from the buffer and will be extracted.
Claims(t) ==
  IF pc[t] \in {"append", "mark", "begin", "spawn", "extract", "drop"} THEN snap[t] ELSE {}

\* Threads whose snapshot is still above the watermark.
Ahead(t) ==
  pc[t] \in {"mark", "drop"} \/ (pc[t] = "extract" /\ job[t] \in {"prepare", "compact"})

\* The messages below the watermark of a buffer, and of the live one; those above.
Below(b) == {messages[b][i] : i \in 1..mark[b]}
Hidden  == IF live = 0 THEN {} ELSE Below(live)
Pending == IF live = 0 THEN {} ELSE Incremental(live)

Unmade == \A b \in Buffer : b > made => messages[b] = <<>> /\ mark[b] = 0

SnapshotOf(t) ==
  /\ pc[t] \in {"idle", "turn", "prepare", "redeem", "wait", "woken"} => snap[t] = {}
  /\ pc[t] = "append" => \E m \in Message : snap[t] = {m}
  /\ pc[t] \in {"archive", "scan", "assign", "end", "remark", "token", "commit", "copy"} =>
       snap[t] \cap Extractable \subseteq extracted
  /\ pc[t] = "clear" => snap[t] = ToSet(messages[buf[t]])
  /\ pc[t] = "assign" =>
       /\ kept[t].list = Without(messages[buf[t]], snap[t])
       /\ kept[t].below = Under(messages[buf[t]], snap[t], mark[buf[t]])
       /\ kept[t].found = (ToSet(messages[buf[t]]) \cap snap[t] # {})
  /\ pc[t] # "rewind"

\* While a request handles the messages above the watermark no other comes.
CoveredBy(t) ==
  /\ Serving(t) /\ pc[t] \in {"mark", "begin", "spawn", "extract", "remark"} =>
       Pending \subseteq snap[t]
  /\ pc[t] = "drop" => Pending \subseteq snap[t] \cup discarded

Known ==
  /\ extracted \subseteq accepted
  /\ \A t \in Thread : snap[t] \subseteq accepted
  /\ \A b \in Buffer : ToSet(messages[b]) \subseteq accepted

Apart ==
  /\ \A t \in Thread : Claims(t) \cap extracted = {}
  /\ \A t, u \in Thread : t # u => Claims(t) \cap Claims(u) = {}
  /\ \A t \in Thread : pc[t] = "append" =>
       \A b \in Buffer : Claims(t) \cap ToSet(messages[b]) = {}
  /\ \A t \in Thread : ~Ahead(t) => Claims(t) \cap Pending = {}
  /\ (\A t \in Thread : pc[t] = "remark" => job[t] = "fallback") => Pending \cap extracted = {}

HiddenSafe == \A m \in Hidden \cap Extractable :
  m \in extracted \/ \E t \in Thread : Running(t) /\ m \in snap[t]

SessionInv ==
  /\ ServeInv /\ failures = 0
  /\ Unmade /\ (\A t \in Thread : SnapshotOf(t) /\ CoveredBy(t))
  /\ Known /\ Apart /\ HiddenSafe /\ NothingDropped

-----------------------------------------------------------------------------
\* What a step does to the lists and to the histories.
LiveMoves(t) ==
  /\ live' = live \/ live' = 0 \/ (live = 0 /\ live' \in Buffer /\ live' > made)
  /\ pc[t] = "drop" => live' = 0

Appends(t) == \E m \in Message :
  snap[t] = {m} /\ messages' = [messages EXCEPT ![buf[t]] = Append(messages[buf[t]], m)]

ListStep(t) ==
  \/ messages' = messages /\ mark' = mark /\ pc[t] \notin {"append", "mark", "remark"}
  \/ pc[t] \in {"mark", "remark", "drop"} /\ messages' = messages
     /\ mark' = [mark EXCEPT ![buf[t]] = Len(messages[buf[t]])]
  \/ pc[t] = "append" /\ Appends(t) /\ mark' = mark
  \/ pc[t] = "assign"
     /\ messages' = [messages EXCEPT ![buf[t]] = Without(messages[buf[t]], snap[t])]
     /\ mark' = [mark EXCEPT ![buf[t]] = mark[buf[t]] - Under(messages[buf[t]], snap[t], mark[buf[t]])]
  \/ pc[t] = "clear" /\ messages' = [messages EXCEPT ![buf[t]] = <<>>]
     /\ mark' = [mark EXCEPT ![buf[t]] = 0]

HistoryStep(t) ==
  /\ failures' = 0
  /\ extracted' = extracted \cup (IF pc[t] = "extract" THEN snap[t] ELSE {})
  /\ archived \subseteq archived' /\ discarded \subseteq discarded'
  /\ \/ accepted' = accepted
     \/ /\ pc[t] = "turn" /\ pc'[t] = "append"
        /\ \E m \in Message \ accepted : accepted' = accepted \cup {m} /\ snap'[t] = {m}

LEMMA LiveMoved ==
  ASSUME SessionInv, Serial, ~Preempt, MaxFailures = 0, NEW t \in Thread, Step(t)
  PROVE  LiveMoves(t)
<1> USE DEF bufVars, histVars
<1>a. /\ ThreadTypes /\ BufferTypes /\ OtherTypes
      /\ OnStep(job[t], pc[t]) /\ buf[t] \in Buffer \cup {0}
      /\ pc[t] \notin Homeless => buf[t] \in Buffer
      /\ SnapshotOf(t) /\ failures = 0
  BY DEF SessionInv, ServeInv, TypeInv, OnPath, ThreadTypes
<1>b. /\ Serving(t) /\ pc[t] \notin Homeless => buf[t] = live
      /\ \A b \in Buffer : Incremental(b) \subseteq accepted /\ ToSet(messages[b]) \subseteq accepted
  BY IncrementalTyped DEF SessionInv, ServeInv, TypeInv, ServesLive, Known
<1>1. CASE GetBuffer(t)
    BY <1>a, <1>1, Found
      DEF GetBuffer, Runs, At, GetOrCreate, LiveMoves
<1>2. CASE AddMessage(t)
    BY <1>a, <1>2, Found
      DEF AddMessage, Runs, At, LiveMoves
<1>3. CASE Accumulate(t)
    BY <1>a, <1>3, Found
      DEF Accumulate, Runs, At, GetOrCreate, LiveMoves
<1>4. CASE CommitOnly(t)
    BY <1>a, <1>4, Found
      DEF CommitOnly, Runs, At, LiveMoves
<1>5. CASE Slice(t)
    BY <1>a, <1>5, Found
      DEF Slice, Runs, At, GetOrCreate, LiveMoves
<1>6. CASE Mark(t)
    BY <1>a, <1>6, Found
      DEF Mark, Runs, At, LiveMoves
<1>7. CASE BeginExtraction(t)
    BY <1>a, <1>7, Found
      DEF BeginExtraction, Runs, At, LiveMoves
<1>8. CASE Spawn(t)
    BY <1>a, <1>8, Found
      DEF Spawn, Runs, At, LiveMoves
<1>9. CASE SpawnFails(t)
    BY <1>a, <1>9, Found
      DEF SpawnFails, Runs, At, LiveMoves
<1>10. CASE Extract(t)
    BY <1>a, <1>10, Found
      DEF Extract, Runs, At, AfterExtract, LiveMoves
<1>11. CASE ExtractFails(t)
    BY <1>a, <1>11, Found
      DEF ExtractFails, Runs, At, LiveMoves
<1>12. CASE Rewind(t)
    BY <1>a, <1>12, Found
      DEF Rewind, Runs, At, LiveMoves
<1>13. CASE EndExtraction(t)
    BY <1>a, <1>13, Found
      DEF EndExtraction, Runs, At, LiveMoves
<1>14. CASE CommitSnapshot(t)
    BY <1>a, <1>14, Found
      DEF CommitSnapshot, Runs, At, GetOrCreate, Archive, LiveMoves
<1>15. CASE ScanMessages(t)
    BY <1>a, <1>15, Found
      DEF ScanMessages, Runs, At, LiveMoves
<1>16. CASE AssignMessages(t)
    BY <1>a, <1>16, Found
      DEF AssignMessages, AssignWithMark, Runs, At, LiveMoves
<1>17. CASE SliceCompaction(t)
    BY <1>a, <1>17, Found
      DEF SliceCompaction, Runs, At, GetOrCreate, LiveMoves
<1>18. CASE Remark(t)
    BY <1>a, <1>18, Found
      DEF Remark, Runs, At, LiveMoves
<1>19. CASE IssueToken(t)
    BY <1>a, <1>19, Found
      DEF IssueToken, Runs, At, GetOrCreate, LiveMoves
<1>20. CASE RedeemToken(t)
    BY <1>a, <1>20, Found
      DEF RedeemToken, Runs, At, LiveMoves
<1>21. CASE RefuseToken(t)
    BY <1>a, <1>21, Found
      DEF RefuseToken, Runs, At, GetOrCreate, LiveMoves
<1>22. CASE CheckCommit(t)
    BY <1>a, <1>22, Found
      DEF CheckCommit, Runs, At, GetOrCreate, LiveMoves
<1>23. CASE CopyMessages(t)
    BY <1>a, <1>23, Found
      DEF CopyMessages, Runs, At, LiveMoves
<1>24. CASE ClearMessages(t)
    BY <1>a, <1>24, Found
      DEF ClearMessages, Runs, At, LiveMoves
<1>25. CASE StoreCommit(t)
    BY <1>a, <1>25, Found
      DEF StoreCommit, Runs, At, Archive, LiveMoves
<1>26. CASE WaitTimesOut(t)
    BY <1>a, <1>26, Found
      DEF WaitTimesOut, Runs, At, LiveMoves
<1>27. CASE DisposeWithoutFlush(t)
    BY <1>a, <1>27, Found
      DEF DisposeWithoutFlush, Awake, Runs, At, LiveMoves
<1>28. CASE DisposeKeeps(t)
    BY <1>a, <1>28, Found
      DEF DisposeKeeps, Awake, Runs, At, LiveMoves
<1>29. CASE DisposeWithFlush(t)
    BY <1>a, <1>29, Found
      DEF DisposeWithFlush, Awake, Runs, At, LiveMoves
<1>30. CASE DropSession(t)
    BY <1>a, <1>30, Found
      DEF DropSession, Runs, At, LiveMoves
<1>31. CASE \E r \in Requests : Request(t, r)
    BY <1>a, <1>31, Found
      DEF Request, Runs, At, LiveMoves
<1> QED
  BY <1>1, <1>2, <1>3, <1>4, <1>5, <1>6, <1>7, <1>8, <1>9, <1>10, <1>11, <1>12,
     <1>13, <1>14, <1>15, <1>16, <1>17, <1>18, <1>19, <1>20, <1>21, <1>22, <1>23,
     <1>24, <1>25, <1>26, <1>27, <1>28, <1>29, <1>30, <1>31
    DEF Step, ThreadStep, TurnStep, ExtractStep, ArchiveStep, CompactStep,
       CommitStep, DisposeStep

LEMMA ListsMoved ==
  ASSUME SessionInv, Serial, ~Preempt, MaxFailures = 0, NEW t \in Thread, Step(t)
  PROVE  ListStep(t)
<1> USE DEF bufVars, histVars
<1>a. /\ ThreadTypes /\ BufferTypes /\ OtherTypes
      /\ OnStep(job[t], pc[t]) /\ buf[t] \in Buffer \cup {0}
      /\ pc[t] \notin Homeless => buf[t] \in Buffer
      /\ SnapshotOf(t) /\ failures = 0
  BY DEF SessionInv, ServeInv, TypeInv, OnPath, ThreadTypes
<1>b. /\ Serving(t) /\ pc[t] \notin Homeless => buf[t] = live
      /\ \A b \in Buffer : Incremental(b) \subseteq accepted /\ ToSet(messages[b]) \subseteq accepted
  BY IncrementalTyped DEF SessionInv, ServeInv, TypeInv, ServesLive, Known
<1>1. CASE GetBuffer(t)
    BY <1>a, <1>1
      DEF GetBuffer, Runs, At, GetOrCreate, ListStep, SnapshotOf, ThreadTypes,
         BufferTypes, Homeless, OnStep
<1>2. CASE AddMessage(t)
  <2>1. PICK m \in snap[t] : messages' = [messages EXCEPT ![buf[t]] = Append(@, m)]
    BY <1>2 DEF AddMessage
  <2>2. pc[t] = "append" /\ mark' = mark
    BY <1>2 DEF AddMessage, Runs, At
  <2>3. PICK m2 \in Message : snap[t] = {m2}
    BY <1>a, <2>2 DEF SnapshotOf
  <2>4. buf[t] \in Buffer /\ m = m2
    BY <1>a, <2>2, <2>3 DEF Homeless
  <2>5. messages' = [messages EXCEPT ![buf[t]] = Append(messages[buf[t]], m2)]
    BY <2>1, <2>4 DEF BufferTypes
  <2> QED BY <2>2, <2>3, <2>5 DEF ListStep, Appends
<1>3. CASE Accumulate(t)
    BY <1>a, <1>3
      DEF Accumulate, Runs, At, GetOrCreate, ListStep, SnapshotOf, ThreadTypes,
         BufferTypes, Homeless, OnStep
<1>4. CASE CommitOnly(t)
    BY <1>a, <1>4
      DEF CommitOnly, Runs, At, ListStep, SnapshotOf, ThreadTypes, BufferTypes,
         Homeless, OnStep
<1>5. CASE Slice(t)
    BY <1>a, <1>5
      DEF Slice, Runs, At, GetOrCreate, ListStep, SnapshotOf, ThreadTypes,
         BufferTypes, Homeless, OnStep
<1>6. CASE Mark(t)
    BY <1>a, <1>6
      DEF Mark, Runs, At, ListStep, SnapshotOf, ThreadTypes, BufferTypes, Homeless,
         OnStep
<1>7. CASE BeginExtraction(t)
    BY <1>a, <1>7
      DEF BeginExtraction, Runs, At, ListStep, SnapshotOf, ThreadTypes, BufferTypes,
         Homeless, OnStep
<1>8. CASE Spawn(t)
    BY <1>a, <1>8
      DEF Spawn, Runs, At, ListStep, SnapshotOf, ThreadTypes, BufferTypes, Homeless,
         OnStep
<1>9. CASE SpawnFails(t)
    BY <1>a, <1>9
      DEF SpawnFails, Runs, At, ListStep, SnapshotOf, ThreadTypes, BufferTypes,
         Homeless, OnStep
<1>10. CASE Extract(t)
    BY <1>a, <1>10
      DEF Extract, Runs, At, AfterExtract, ListStep, SnapshotOf, ThreadTypes,
         BufferTypes, Homeless, OnStep
<1>11. CASE ExtractFails(t)
    BY <1>a, <1>11
      DEF ExtractFails, Runs, At, ListStep, SnapshotOf, ThreadTypes, BufferTypes,
         Homeless, OnStep
<1>12. CASE Rewind(t)
    BY <1>a, <1>12
      DEF Rewind, Runs, At, ListStep, SnapshotOf, ThreadTypes, BufferTypes,
         Homeless, OnStep
<1>13. CASE EndExtraction(t)
    BY <1>a, <1>13
      DEF EndExtraction, Runs, At, ListStep, SnapshotOf, ThreadTypes, BufferTypes,
         Homeless, OnStep
<1>14. CASE CommitSnapshot(t)
    BY <1>a, <1>14
      DEF CommitSnapshot, Runs, At, GetOrCreate, Archive, ListStep, SnapshotOf,
         ThreadTypes, BufferTypes, Homeless, OnStep
<1>15. CASE ScanMessages(t)
    BY <1>a, <1>15
      DEF ScanMessages, Runs, At, ListStep, SnapshotOf, ThreadTypes, BufferTypes,
         Homeless, OnStep
<1>16. CASE AssignMessages(t)
  <2> DEFINE n == Under(messages[buf[t]], snap[t], mark[buf[t]])
             new == Without(messages[buf[t]], snap[t])
  <2>1. pc[t] = "assign" /\ buf[t] \in Buffer
    BY <1>a, <1>16 DEF AssignMessages, AssignWithMark, Runs, At, Homeless
  <2>2. messages[buf[t]] \in Seq(Message) /\ mark[buf[t]] \in 0..Len(messages[buf[t]])
    BY <1>a, <2>1 DEF BufferTypes
  <2>3. n \in 0..mark[buf[t]] /\ mark[buf[t]] - n <= Len(new)
    BY <2>2, WithoutPlaces
  <2>4. kept[t].list = new /\ kept[t].below = n
    BY <1>a, <2>1 DEF SnapshotOf
  <2>5. CASE kept[t].found
    <3>1. /\ messages' = [messages EXCEPT ![buf[t]] = new]
          /\ mark' = [mark EXCEPT ![buf[t]] = Lower(Lowered(t), Len(new))]
      BY <2>4, <2>5, <1>16 DEF AssignMessages, AssignWithMark
    <3>2. new \in Seq(Message)
      BY <2>2, WithoutPlaces
    <3> HIDE DEF n, new
    <3>3. Len(new) \in Nat
      BY <3>2
    <3>4. Lower(Lowered(t), Len(new)) = mark[buf[t]] - n
      BY <2>2, <2>3, <2>4, <3>3 DEF Lower, Lowered
    <3> QED BY <2>1, <3>1, <3>4 DEF ListStep, n, new
  <2>6. CASE ~ kept[t].found
    BY <2>1, <2>6, <1>16 DEF AssignMessages, AssignWithMark, ListStep
  <2> QED BY <2>5, <2>6
<1>17. CASE SliceCompaction(t)
    BY <1>a, <1>17
      DEF SliceCompaction, Runs, At, GetOrCreate, ListStep, SnapshotOf, ThreadTypes,
         BufferTypes, Homeless, OnStep
<1>18. CASE Remark(t)
    BY <1>a, <1>18
      DEF Remark, Runs, At, ListStep, SnapshotOf, ThreadTypes, BufferTypes,
         Homeless, OnStep
<1>19. CASE IssueToken(t)
    BY <1>a, <1>19
      DEF IssueToken, Runs, At, GetOrCreate, ListStep, SnapshotOf, ThreadTypes,
         BufferTypes, Homeless, OnStep
<1>20. CASE RedeemToken(t)
    BY <1>a, <1>20
      DEF RedeemToken, Runs, At, ListStep, SnapshotOf, ThreadTypes, BufferTypes,
         Homeless, OnStep
<1>21. CASE RefuseToken(t)
    BY <1>a, <1>21
      DEF RefuseToken, Runs, At, GetOrCreate, ListStep, SnapshotOf, ThreadTypes,
         BufferTypes, Homeless, OnStep
<1>22. CASE CheckCommit(t)
    BY <1>a, <1>22
      DEF CheckCommit, Runs, At, GetOrCreate, ListStep, SnapshotOf, ThreadTypes,
         BufferTypes, Homeless, OnStep
<1>23. CASE CopyMessages(t)
    BY <1>a, <1>23
      DEF CopyMessages, Runs, At, ListStep, SnapshotOf, ThreadTypes, BufferTypes,
         Homeless, OnStep
<1>24. CASE ClearMessages(t)
    BY <1>a, <1>24
      DEF ClearMessages, Runs, At, ListStep, SnapshotOf, ThreadTypes, BufferTypes,
         Homeless, OnStep
<1>25. CASE StoreCommit(t)
    BY <1>a, <1>25
      DEF StoreCommit, Runs, At, Archive, ListStep, SnapshotOf, ThreadTypes,
         BufferTypes, Homeless, OnStep
<1>26. CASE WaitTimesOut(t)
    BY <1>a, <1>26
      DEF WaitTimesOut, Runs, At, ListStep, SnapshotOf, ThreadTypes, BufferTypes,
         Homeless, OnStep
<1>27. CASE DisposeWithoutFlush(t)
    BY <1>a, <1>27
      DEF DisposeWithoutFlush, Awake, Runs, At, ListStep, SnapshotOf, ThreadTypes,
         BufferTypes, Homeless, OnStep
<1>28. CASE DisposeKeeps(t)
    BY <1>a, <1>28
      DEF DisposeKeeps, Awake, Runs, At, ListStep, SnapshotOf, ThreadTypes,
         BufferTypes, Homeless, OnStep
<1>29. CASE DisposeWithFlush(t)
    BY <1>a, <1>29
      DEF DisposeWithFlush, Awake, Runs, At, ListStep, SnapshotOf, ThreadTypes,
         BufferTypes, Homeless, OnStep
<1>30. CASE DropSession(t)
    BY <1>a, <1>30
      DEF DropSession, Runs, At, ListStep, SnapshotOf, ThreadTypes, BufferTypes,
         Homeless, OnStep
<1>31. CASE \E r \in Requests : Request(t, r)
    BY <1>a, <1>31
      DEF Request, Runs, At, ListStep, SnapshotOf, ThreadTypes, BufferTypes,
         Homeless, OnStep
<1> QED
  BY <1>1, <1>2, <1>3, <1>4, <1>5, <1>6, <1>7, <1>8, <1>9, <1>10, <1>11, <1>12,
     <1>13, <1>14, <1>15, <1>16, <1>17, <1>18, <1>19, <1>20, <1>21, <1>22, <1>23,
     <1>24, <1>25, <1>26, <1>27, <1>28, <1>29, <1>30, <1>31
    DEF Step, ThreadStep, TurnStep, ExtractStep, ArchiveStep, CompactStep,
       CommitStep, DisposeStep

LEMMA HistoriesMoved ==
  ASSUME SessionInv, Serial, ~Preempt, MaxFailures = 0, NEW t \in Thread, Step(t)
  PROVE  HistoryStep(t)
<1> USE DEF bufVars, histVars
<1>a. /\ ThreadTypes /\ BufferTypes /\ OtherTypes
      /\ OnStep(job[t], pc[t]) /\ buf[t] \in Buffer \cup {0}
      /\ pc[t] \notin Homeless => buf[t] \in Buffer
      /\ SnapshotOf(t) /\ failures = 0
  BY DEF SessionInv, ServeInv, TypeInv, OnPath, ThreadTypes
<1>b. /\ Serving(t) /\ pc[t] \notin Homeless => buf[t] = live
      /\ \A b \in Buffer : Incremental(b) \subseteq accepted /\ ToSet(messages[b]) \subseteq accepted
  BY IncrementalTyped DEF SessionInv, ServeInv, TypeInv, ServesLive, Known
<1>1. CASE GetBuffer(t)
    BY <1>a, <1>1, GotoThread, FinishThread, CountOutThread, Found
      DEF GetBuffer, Runs, At, GetOrCreate, HistoryStep, ThreadTypes, OtherTypes,
         OnStep
<1>2. CASE AddMessage(t)
    BY <1>a, <1>2, GotoThread, FinishThread, CountOutThread, Found
      DEF AddMessage, Runs, At, HistoryStep, ThreadTypes, OtherTypes, OnStep
<1>3. CASE Accumulate(t)
    BY <1>a, <1>3, GotoThread, FinishThread, CountOutThread, Found
      DEF Accumulate, Runs, At, GetOrCreate, HistoryStep, ThreadTypes, OtherTypes,
         OnStep
<1>4. CASE CommitOnly(t)
    BY <1>a, <1>4, GotoThread, FinishThread, CountOutThread, Found
      DEF CommitOnly, Runs, At, HistoryStep, ThreadTypes, OtherTypes, OnStep
<1>5. CASE Slice(t)
    BY <1>a, <1>5, GotoThread, FinishThread, CountOutThread, Found
      DEF Slice, Runs, At, GetOrCreate, HistoryStep, ThreadTypes, OtherTypes, OnStep
<1>6. CASE Mark(t)
    BY <1>a, <1>6, GotoThread, FinishThread, CountOutThread, Found
      DEF Mark, Runs, At, HistoryStep, ThreadTypes, OtherTypes, OnStep
<1>7. CASE BeginExtraction(t)
    BY <1>a, <1>7, GotoThread, FinishThread, CountOutThread, Found
      DEF BeginExtraction, Runs, At, HistoryStep, ThreadTypes, OtherTypes, OnStep
<1>8. CASE Spawn(t)
    BY <1>a, <1>8, GotoThread, FinishThread, CountOutThread, Found
      DEF Spawn, Runs, At, HistoryStep, ThreadTypes, OtherTypes, OnStep
<1>9. CASE SpawnFails(t)
    BY <1>a, <1>9, GotoThread, FinishThread, CountOutThread, Found
      DEF SpawnFails, Runs, At, HistoryStep, ThreadTypes, OtherTypes, OnStep
<1>10. CASE Extract(t)
    BY <1>a, <1>10, GotoThread, FinishThread, CountOutThread, Found
      DEF Extract, Runs, At, AfterExtract, HistoryStep, ThreadTypes, OtherTypes,
         OnStep
<1>11. CASE ExtractFails(t)
    BY <1>a, <1>11, GotoThread, FinishThread, CountOutThread, Found
      DEF ExtractFails, Runs, At, HistoryStep, ThreadTypes, OtherTypes, OnStep
<1>12. CASE Rewind(t)
    BY <1>a, <1>12, GotoThread, FinishThread, CountOutThread, Found
      DEF Rewind, Runs, At, HistoryStep, ThreadTypes, OtherTypes, OnStep
<1>13. CASE EndExtraction(t)
    BY <1>a, <1>13, GotoThread, FinishThread, CountOutThread, Found
      DEF EndExtraction, Runs, At, HistoryStep, ThreadTypes, OtherTypes, OnStep
<1>14. CASE CommitSnapshot(t)
    BY <1>a, <1>14, GotoThread, FinishThread, CountOutThread, Found
      DEF CommitSnapshot, Runs, At, GetOrCreate, Archive, HistoryStep, ThreadTypes,
         OtherTypes, OnStep
<1>15. CASE ScanMessages(t)
    BY <1>a, <1>15, GotoThread, FinishThread, CountOutThread, Found
      DEF ScanMessages, Runs, At, HistoryStep, ThreadTypes, OtherTypes, OnStep
<1>16. CASE AssignMessages(t)
    BY <1>a, <1>16, GotoThread, FinishThread, CountOutThread, Found
      DEF AssignMessages, AssignWithMark, Runs, At, HistoryStep, ThreadTypes,
         OtherTypes, OnStep
<1>17. CASE SliceCompaction(t)
    BY <1>a, <1>17, GotoThread, FinishThread, CountOutThread, Found
      DEF SliceCompaction, Runs, At, GetOrCreate, HistoryStep, ThreadTypes,
         OtherTypes, OnStep
<1>18. CASE Remark(t)
    BY <1>a, <1>18, GotoThread, FinishThread, CountOutThread, Found
      DEF Remark, Runs, At, HistoryStep, ThreadTypes, OtherTypes, OnStep
<1>19. CASE IssueToken(t)
    BY <1>a, <1>19, GotoThread, FinishThread, CountOutThread, Found
      DEF IssueToken, Runs, At, GetOrCreate, HistoryStep, ThreadTypes, OtherTypes,
         OnStep
<1>20. CASE RedeemToken(t)
    BY <1>a, <1>20, GotoThread, FinishThread, CountOutThread, Found
      DEF RedeemToken, Runs, At, HistoryStep, ThreadTypes, OtherTypes, OnStep
<1>21. CASE RefuseToken(t)
    BY <1>a, <1>21, GotoThread, FinishThread, CountOutThread, Found
      DEF RefuseToken, Runs, At, GetOrCreate, HistoryStep, ThreadTypes, OtherTypes,
         OnStep
<1>22. CASE CheckCommit(t)
    BY <1>a, <1>22, GotoThread, FinishThread, CountOutThread, Found
      DEF CheckCommit, Runs, At, GetOrCreate, HistoryStep, ThreadTypes, OtherTypes,
         OnStep
<1>23. CASE CopyMessages(t)
    BY <1>a, <1>23, GotoThread, FinishThread, CountOutThread, Found
      DEF CopyMessages, Runs, At, HistoryStep, ThreadTypes, OtherTypes, OnStep
<1>24. CASE ClearMessages(t)
    BY <1>a, <1>24, GotoThread, FinishThread, CountOutThread, Found
      DEF ClearMessages, Runs, At, HistoryStep, ThreadTypes, OtherTypes, OnStep
<1>25. CASE StoreCommit(t)
    BY <1>a, <1>25, GotoThread, FinishThread, CountOutThread, Found
      DEF StoreCommit, Runs, At, Archive, HistoryStep, ThreadTypes, OtherTypes,
         OnStep
<1>26. CASE WaitTimesOut(t)
    BY <1>a, <1>26, GotoThread, FinishThread, CountOutThread, Found
      DEF WaitTimesOut, Runs, At, HistoryStep, ThreadTypes, OtherTypes, OnStep
<1>27. CASE DisposeWithoutFlush(t)
    BY <1>a, <1>27, GotoThread, FinishThread, CountOutThread, Found
      DEF DisposeWithoutFlush, Awake, Runs, At, HistoryStep, ThreadTypes,
         OtherTypes, OnStep
<1>28. CASE DisposeKeeps(t)
    BY <1>a, <1>28, GotoThread, FinishThread, CountOutThread, Found
      DEF DisposeKeeps, Awake, Runs, At, HistoryStep, ThreadTypes, OtherTypes,
         OnStep
<1>29. CASE DisposeWithFlush(t)
    BY <1>a, <1>29, GotoThread, FinishThread, CountOutThread, Found
      DEF DisposeWithFlush, Awake, Runs, At, HistoryStep, ThreadTypes, OtherTypes,
         OnStep
<1>30. CASE DropSession(t)
    BY <1>a, <1>30, GotoThread, FinishThread, CountOutThread, Found
      DEF DropSession, Runs, At, HistoryStep, ThreadTypes, OtherTypes, OnStep
<1>31. CASE \E r \in Requests : Request(t, r)
    BY <1>a, <1>31, GotoThread, FinishThread, CountOutThread, Found
      DEF Request, Runs, At, HistoryStep, ThreadTypes, OtherTypes, OnStep
<1> QED
  BY <1>1, <1>2, <1>3, <1>4, <1>5, <1>6, <1>7, <1>8, <1>9, <1>10, <1>11, <1>12,
     <1>13, <1>14, <1>15, <1>16, <1>17, <1>18, <1>19, <1>20, <1>21, <1>22, <1>23,
     <1>24, <1>25, <1>26, <1>27, <1>28, <1>29, <1>30, <1>31
    DEF Step, ThreadStep, TurnStep, ExtractStep, ArchiveStep, CompactStep,
       CommitStep, DisposeStep

(***************************************************************************)
(* The same in terms of the sets of messages.                              *)
(***************************************************************************)
LEMMA HalvesOf ==
  ASSUME NEW list \in Seq(Message), NEW m \in Nat, m <= Len(list)
  PROVE  ToSet(list) = {list[i] : i \in 1..m} \cup {list[i] : i \in m + 1..Len(list)}
<1>1. DOMAIN list = 1..Len(list) /\ Len(list) \in Nat
  OBVIOUS
<1>2. ASSUME NEW i \in 1..Len(list) PROVE i \in 1..m \/ i \in m + 1..Len(list)
  BY <1>1
<1>3. 1..m \subseteq 1..Len(list) /\ m + 1..Len(list) \subseteq 1..Len(list)
  BY <1>1
<1> QED BY <1>1, <1>2, <1>3 DEF ToSet

LEMMA Halves ==
  ASSUME BufferTypes, NEW b \in Buffer
  PROVE  ToSet(messages[b]) = Below(b) \cup Incremental(b)
BY HalvesOf DEF BufferTypes, Below, Incremental

\* What happens to the sets of the buffer b that thread t works on.
SetsMove(t, b) ==
  /\ pc[t] # "append" => Incremental(b)' \subseteq Incremental(b)
  /\ pc[t] = "append" => /\ Incremental(b)' \subseteq Incremental(b) \cup snap[t]
                         /\ snap[t] \subseteq ToSet(messages'[b])
  /\ pc[t] \notin {"mark", "remark", "drop"} => Below(b)' \subseteq Below(b)
  /\ Below(b)' \subseteq Below(b) \cup Incremental(b)
  /\ pc[t] \notin {"assign", "clear"} => ToSet(messages[b]) \subseteq ToSet(messages'[b])
  /\ ToSet(messages[b]) \subseteq ToSet(messages'[b]) \cup snap[t]
  /\ pc[t] \in {"mark", "remark"} => Incremental(b)' = {}

LEMMA SetsMoved ==
  ASSUME ThreadTypes, BufferTypes, BufferTypes', NEW t \in Thread, SnapshotOf(t), ListStep(t),
         NEW b \in Buffer, b = buf[t]
  PROVE  SetsMove(t, b)
<1> DEFINE old == messages[b]
           m == mark[b]
<1>1. /\ old \in Seq(Message) /\ m \in Nat /\ m <= Len(old) /\ m \in 0..Len(old)
      /\ DOMAIN old = 1..Len(old) /\ Len(old) \in Nat
  BY DEF BufferTypes
<1>2. CASE messages' = messages /\ mark' = mark /\ pc[t] \notin {"append", "mark", "remark"}
  BY <1>2 DEF SetsMove, Incremental, Below
<1>3. CASE /\ pc[t] \in {"mark", "remark", "drop"} /\ messages' = messages
           /\ mark' = [mark EXCEPT ![b] = Len(messages[b])]
  <2>1. messages'[b] = old /\ mark'[b] = Len(old)
    BY <1>3 DEF BufferTypes
  <2>2. Incremental(b)' = {}
    BY <1>1, <2>1 DEF Incremental
  <2>3. Below(b)' = Below(b) \cup Incremental(b)
    <3>1. Below(b)' = ToSet(old)
      BY <1>1, <2>1 DEF Below, ToSet
    <3> QED BY <3>1, Halves
  <2> QED BY <1>3, <2>1, <2>2, <2>3 DEF SetsMove
<1>4. CASE pc[t] = "append" /\ Appends(t) /\ mark' = mark
  <2>1. PICK x \in Message : snap[t] = {x} /\ messages' = [messages EXCEPT ![b] = Append(old, x)]
    BY <1>4 DEF Appends
  <2>2. messages'[b] = Append(old, x) /\ mark'[b] = m
    BY <1>4, <2>1 DEF BufferTypes
  <2>3. /\ Len(messages'[b]) = Len(old) + 1 /\ DOMAIN messages'[b] = 1..(Len(old) + 1)
        /\ \A i \in 1..Len(old) : messages'[b][i] = old[i]
        /\ messages'[b][Len(old) + 1] = x
    BY <1>1, <2>2
  <2>4. Incremental(b)' \subseteq Incremental(b) \cup {x}
    <3>1. ASSUME NEW i \in m + 1 .. (Len(old) + 1) PROVE messages'[b][i] \in Incremental(b) \cup {x}
      <4>1. CASE i = Len(old) + 1
        BY <2>3, <4>1
      <4>2. CASE i # Len(old) + 1
        <5>1. i \in m + 1..Len(old) /\ i \in 1..Len(old)
          BY <1>1, <4>2
        <5>2. old[i] \in Incremental(b)
          BY <5>1 DEF Incremental
        <5> QED BY <2>3, <5>1, <5>2
      <4> QED BY <4>1, <4>2
    <3>2. ASSUME NEW y \in Incremental(b)' PROVE y \in Incremental(b) \cup {x}
      <4>1. PICK i \in mark'[b] + 1..Len(messages'[b]) : y = messages'[b][i]
        BY DEF Incremental
      <4>2. i \in m + 1 .. (Len(old) + 1)
        BY <2>2, <2>3, <4>1
      <4> QED BY <3>1, <4>1, <4>2
    <3> QED BY <3>2
  <2>5. Below(b)' \subseteq Below(b)
    <3>1. ASSUME NEW i \in 1..m PROVE messages'[b][i] \in Below(b)
      <4>1. i \in 1..Len(old)
        BY <1>1
      <4> QED BY <2>3, <4>1 DEF Below
    <3> QED BY <2>2, <3>1 DEF Below
  <2>6. ToSet(old) \subseteq ToSet(messages'[b]) /\ x \in ToSet(messages'[b])
    <3>1. \A i \in 1..Len(old) : i \in 1..(Len(old) + 1)
      BY <1>1
    <3>2. Len(old) + 1 \in 1..(Len(old) + 1)
      BY <1>1
    <3> QED BY <1>1, <2>3, <3>1, <3>2 DEF ToSet
  <2> QED BY <1>4, <2>1, <2>4, <2>5, <2>6 DEF SetsMove
<1>5. CASE /\ pc[t] = "assign"
           /\ messages' = [messages EXCEPT ![b] = Without(old, snap[t])]
           /\ mark' = [mark EXCEPT ![b] = m - Under(old, snap[t], m)]
  <2> DEFINE new == Without(old, snap[t])
             k == m - Under(old, snap[t], m)
  <2>1. messages'[b] = new /\ mark'[b] = k
    BY <1>5 DEF BufferTypes
  <2>2. /\ new \in Seq(Message) /\ Under(old, snap[t], m) \in 0..m /\ k <= Len(new)
        /\ \A j \in DOMAIN new : \E i \in Left(old, snap[t]) : new[j] = old[i] /\ (j <= k <=> i <= m)
        /\ \A i \in Left(old, snap[t]) : \E j \in DOMAIN new : new[j] = old[i] /\ (j <= k <=> i <= m)
    BY <1>1, WithoutPlaces
  <2>3. k \in Nat /\ DOMAIN new = 1..Len(new) /\ Len(new) \in Nat
    BY <1>1, <2>2
  <2> HIDE DEF new, k
  <2>4. Left(old, snap[t]) \subseteq 1..Len(old)
    BY <1>1 DEF Left
  <2>5. ASSUME NEW j \in 1..k PROVE new[j] \in Below(b)
    <3>1. j \in DOMAIN new
      BY <2>2, <2>3
    <3>2. PICK i \in Left(old, snap[t]) : new[j] = old[i] /\ i <= m
      BY <2>2, <3>1
    <3>3. i \in 1..m
      BY <1>1, <2>4, <3>2
    <3> QED BY <3>2, <3>3 DEF Below
  <2>6. ASSUME NEW j \in k + 1..Len(new) PROVE new[j] \in Incremental(b)
    <3>1. j \in DOMAIN new /\ ~ j <= k
      BY <2>2, <2>3
    <3>2. PICK i \in Left(old, snap[t]) : new[j] = old[i] /\ ~ i <= m
      BY <2>2, <3>1
    <3>3. i \in m + 1..Len(old)
      BY <1>1, <2>4, <3>2
    <3> QED BY <3>2, <3>3 DEF Incremental
  <2>7. ToSet(old) \subseteq ToSet(new) \cup snap[t]
    <3>1. ASSUME NEW i \in DOMAIN old, old[i] \notin snap[t] PROVE \E j \in DOMAIN new : new[j] = old[i]
      BY <2>2, <3>1 DEF Left
    <3> QED BY <3>1 DEF ToSet
  <2>8. Below(b)' \subseteq Below(b) /\ Incremental(b)' \subseteq Incremental(b)
    BY <2>1, <2>5, <2>6 DEF Below, Incremental
  <2> QED BY <1>5, <2>1, <2>7, <2>8 DEF SetsMove
<1>6. CASE /\ pc[t] = "clear" /\ messages' = [messages EXCEPT ![b] = <<>>]
           /\ mark' = [mark EXCEPT ![b] = 0]
  <2>1. messages'[b] = <<>> /\ mark'[b] = 0
    BY <1>6 DEF BufferTypes
  <2>2. Below(b)' = {} /\ Incremental(b)' = {}
    BY <2>1 DEF Below, Incremental
  <2>3. ToSet(old) = snap[t]
    BY <1>6 DEF SnapshotOf
  <2> QED BY <1>6, <2>2, <2>3 DEF SetsMove
<1> QED BY <1>2, <1>3, <1>4, <1>5, <1>6 DEF ListStep

\* The other buffers do not change.
LEMMA OtherLists ==
  ASSUME BufferTypes, NEW t \in Thread, ListStep(t), NEW b \in Buffer, b # buf[t]
  PROVE  /\ messages'[b] = messages[b] /\ mark'[b] = mark[b]
         /\ Below(b)' = Below(b) /\ Incremental(b)' = Incremental(b)
<1>1. messages'[b] = messages[b] /\ mark'[b] = mark[b]
  BY DEF BufferTypes, ListStep, Appends
<1> QED BY <1>1 DEF Below, Incremental

\* The same for the buffer that is live.
LiveSets(t) ==
  /\ pc[t] # "append" => Pending' \subseteq Pending
  /\ pc[t] = "append" => Pending' \subseteq Pending \cup snap[t] /\ snap[t] \subseteq Buffered'
  /\ pc[t] \notin {"mark", "remark"} => Hidden' \subseteq Hidden
  /\ Hidden' \subseteq Hidden \cup Pending
  /\ pc[t] \notin {"assign", "clear", "drop"} => Buffered \subseteq Buffered'
  /\ pc[t] \in {"assign", "clear"} => Buffered \subseteq Buffered' \cup snap[t]
  /\ Buffered \subseteq Hidden \cup Pending
  /\ pc[t] \in {"mark", "remark", "drop"} => Pending' = {}

LEMMA LiveStep ==
  ASSUME SessionInv, Serial, ~Preempt, MaxFailures = 0, NEW t \in Thread, Step(t)
  PROVE  /\ ServeInv' /\ made <= made' /\ Moved(t) /\ Serves(t)
         /\ LiveMoves(t) /\ ListStep(t) /\ HistoryStep(t) /\ LiveSets(t)
<1>1. ServeInv' /\ TypeInv' /\ made <= made' /\ Moved(t) /\ Serves(t)
  BY ServingMoves, TypesMove DEF SessionInv, ServeInv, Step
<1>2. LiveMoves(t) /\ ListStep(t) /\ HistoryStep(t)
  BY LiveMoved, ListsMoved, HistoriesMoved
<1>3. /\ ThreadTypes /\ BufferTypes /\ BufferTypes' /\ SnapshotOf(t) /\ OnStep(job[t], pc[t])
      /\ pc[t] \notin Homeless => buf[t] \in Buffer
      /\ Serving(t) /\ pc[t] \notin Homeless => buf[t] = live
      /\ buf[t] <= made /\ made \in Nat /\ buf[t] \in Nat /\ live \in 0..made
  BY <1>1 DEF SessionInv, ServeInv, TypeInv, OnPath, ServesLive, OtherTypes, ThreadTypes, Buffer
<1>4. live # 0 => live \in Buffer
  BY LimitAssumption DEF SessionInv, ServeInv, TypeInv, OtherTypes, Buffer
<1>5. pc[t] \in {"append", "mark", "remark"} => Serving(t) /\ buf[t] = live /\ live # 0
  <2>1. pc[t] \in {"append", "mark", "remark"} => Serving(t) /\ pc[t] \notin Homeless
    BY <1>3 DEF OnStep, Serving, Homeless
  <2> QED BY <1>3, <2>1, LimitAssumption DEF Buffer
<1> SUFFICES LiveSets(t)
  BY <1>1, <1>2
<1>b. Buffered \subseteq Hidden \cup Pending
  BY <1>3, <1>4, Halves DEF Pending, Hidden, Buffered
<1>6. CASE live' = live /\ live # 0 /\ buf[t] = live
  <2>1. PICK b \in Buffer : b = live
    BY <1>4, <1>6
  <2>2. SetsMove(t, b) /\ pc[t] # "drop"
    BY <1>2, <1>3, <1>6, <2>1, SetsMoved DEF LiveMoves
  <2>3. /\ Pending = Incremental(b) /\ Hidden = Below(b) /\ Buffered = ToSet(messages[b])
        /\ Pending' = Incremental(b)' /\ Hidden' = Below(b)' /\ Buffered' = ToSet(messages'[b])
    BY <1>6, <2>1 DEF Pending, Hidden, Buffered
  <2> QED BY <1>b, <2>2, <2>3 DEF LiveSets, SetsMove
<1>7. CASE live' = live /\ live # 0 /\ buf[t] # live
  <2>1. PICK b \in Buffer : b = live
    BY <1>4, <1>7
  <2>2. messages'[b] = messages[b] /\ Below(b)' = Below(b) /\ Incremental(b)' = Incremental(b)
    BY <1>2, <1>3, <1>7, <2>1, OtherLists
  <2>3. /\ Pending = Incremental(b) /\ Hidden = Below(b) /\ Buffered = ToSet(messages[b])
        /\ Pending' = Incremental(b)' /\ Hidden' = Below(b)' /\ Buffered' = ToSet(messages'[b])
    BY <1>7, <2>1 DEF Pending, Hidden, Buffered
  <2>4. pc[t] \notin {"append", "mark", "remark", "drop"}
    BY <1>2, <1>5, <1>7 DEF LiveMoves
  <2> QED BY <1>b, <2>2, <2>3, <2>4 DEF LiveSets
<1>8. CASE live = 0 /\ live' = 0
  BY <1>b, <1>5, <1>8 DEF LiveSets, Pending, Hidden, Buffered
<1>9. CASE live # 0 /\ live' = 0
  <2>1. pc[t] = "drop"
    BY <1>1, <1>9 DEF Serves
  <2>2. Pending' = {} /\ Hidden' = {}
    BY <1>9 DEF Pending, Hidden
  <2> QED BY <1>b, <2>1, <2>2 DEF LiveSets
<1>10. CASE live = 0 /\ live' \in Buffer /\ live' > made
  <2>1. PICK b \in Buffer : b = live'
    BY <1>10
  <2>2. b # buf[t] /\ b > made
    BY <1>3, <1>10, <2>1 DEF Buffer
  <2>3. messages'[b] = <<>> /\ mark'[b] = 0
    BY <1>2, <1>3, <2>2, OtherLists DEF SessionInv, Unmade
  <2>4. Below(b)' = {} /\ Incremental(b)' = {}
    BY <2>3 DEF Below, Incremental
  <2>5. Pending' = {} /\ Hidden' = {} /\ Buffered = {}
    BY <1>10, <2>1, <2>4, LimitAssumption DEF Pending, Hidden, Buffered, Buffer
  <2> QED BY <1>b, <1>5, <1>10, <2>5 DEF LiveSets
<1>11. live' = live \/ (live # 0 /\ live' = 0) \/ (live = 0 /\ live' \in Buffer /\ live' > made)
  BY <1>2 DEF LiveMoves
<1> QED BY <1>6, <1>7, <1>8, <1>9, <1>10, <1>11

-----------------------------------------------------------------------------
\* What a step does to the snapshot of the thread: where its messages go, what
\* it claims, and what it takes from the buffer.
SnapshotStep(t) ==
  /\ \/ pc[t] = "append" \/ snap[t] \cap Extractable \subseteq snap'[t] \cup extracted' \cup archived'
  /\ Running(t) => \/ Running(t)' /\ snap'[t] = snap[t]
                   \/ snap[t] \cap Extractable \subseteq extracted'
  /\ pc[t] \in {"mark", "remark"} => \/ snap[t] \cap Extractable \subseteq extracted'
                                     \/ Running(t)' /\ snap'[t] = snap[t]
  /\ accepted' = accepted => snap'[t] \subseteq snap[t] \cup accepted

\* The messages taken are those above the watermark of the live buffer.
Takes(t) ==
  /\ pc[t] \in {"turn", "prepare", "wait", "woken"}
  /\ live' \in Buffer /\ messages' = messages /\ mark' = mark
  /\ snap'[t] = Incremental(live')

ClaimStep(t) ==
  \/ /\ Claims(t)' \subseteq Claims(t)
     /\ pc[t] \in {"append", "extract"} => Claims(t)' = {}
     /\ Claims(t)' # {} => (Ahead(t)' <=> Ahead(t)) \/ pc[t] \in {"mark", "drop"}
     /\ pc[t] = "extract" /\ Ahead(t) => pc'[t] = "remark" /\ job'[t] # "fallback"
     /\ pc'[t] # "append"
  \/ /\ Takes(t) /\ (pc'[t] # "remark" => Ahead(t)' \/ snap'[t] = {})
     /\ pc'[t] = "remark" => job'[t] # "fallback" /\ Claims(t)' = {}
     /\ pc'[t] # "append"
  \/ pc[t] = "turn" /\ pc'[t] = "append" /\ snap'[t] \cap accepted = {}

LEMMA SnapshotFollows ==
  ASSUME SessionInv, Serial, ~Preempt, MaxFailures = 0, NEW t \in Thread, Step(t)
  PROVE  SnapshotOf(t)'
<1> USE DEF bufVars, histVars
<1>a. /\ ThreadTypes /\ BufferTypes /\ OtherTypes
      /\ OnStep(job[t], pc[t]) /\ buf[t] \in Buffer \cup {0}
      /\ pc[t] \notin Homeless => buf[t] \in Buffer
      /\ SnapshotOf(t) /\ failures = 0
  BY DEF SessionInv, ServeInv, TypeInv, OnPath, ThreadTypes
<1>b. /\ Serving(t) /\ pc[t] \notin Homeless => buf[t] = live
      /\ \A b \in Buffer : Incremental(b) \subseteq accepted /\ ToSet(messages[b]) \subseteq accepted
  BY IncrementalTyped DEF SessionInv, ServeInv, TypeInv, ServesLive, Known
<1>1. CASE GetBuffer(t)
    BY <1>a, <1>1, GotoThread, FinishThread, CountOutThread, Found
      DEF GetBuffer, Runs, At, GetOrCreate, SnapshotOf, OnStep, ThreadTypes
<1>2. CASE AddMessage(t)
    BY <1>a, <1>2, GotoThread, FinishThread, CountOutThread, Found
      DEF AddMessage, Runs, At, SnapshotOf, OnStep, ThreadTypes
<1>3. CASE Accumulate(t)
    BY <1>a, <1>3, GotoThread, FinishThread, CountOutThread, Found
      DEF Accumulate, Runs, At, GetOrCreate, SnapshotOf, OnStep, ThreadTypes
<1>4. CASE CommitOnly(t)
    BY <1>a, <1>4, GotoThread, FinishThread, CountOutThread, Found
      DEF CommitOnly, Runs, At, SnapshotOf, OnStep, ThreadTypes
<1>5. CASE Slice(t)
    BY <1>a, <1>5, GotoThread, FinishThread, CountOutThread, Found
      DEF Slice, Runs, At, GetOrCreate, SnapshotOf, OnStep, ThreadTypes
<1>6. CASE Mark(t)
    BY <1>a, <1>6, GotoThread, FinishThread, CountOutThread, Found
      DEF Mark, Runs, At, SnapshotOf, OnStep, ThreadTypes
<1>7. CASE BeginExtraction(t)
    BY <1>a, <1>7, GotoThread, FinishThread, CountOutThread, Found
      DEF BeginExtraction, Runs, At, SnapshotOf, OnStep, ThreadTypes
<1>8. CASE Spawn(t)
    BY <1>a, <1>8, GotoThread, FinishThread, CountOutThread, Found
      DEF Spawn, Runs, At, SnapshotOf, OnStep, ThreadTypes
<1>9. CASE SpawnFails(t)
    BY <1>a, <1>9, GotoThread, FinishThread, CountOutThread, Found
      DEF SpawnFails, Runs, At, SnapshotOf, OnStep, ThreadTypes
<1>10. CASE Extract(t)
    BY <1>a, <1>10, GotoThread, FinishThread, CountOutThread, Found
      DEF Extract, Runs, At, AfterExtract, SnapshotOf, OnStep, ThreadTypes
<1>11. CASE ExtractFails(t)
    BY <1>a, <1>11, GotoThread, FinishThread, CountOutThread, Found
      DEF ExtractFails, Runs, At, SnapshotOf, OnStep, ThreadTypes
<1>12. CASE Rewind(t)
    BY <1>a, <1>12, GotoThread, FinishThread, CountOutThread, Found
      DEF Rewind, Runs, At, SnapshotOf, OnStep, ThreadTypes
<1>13. CASE EndExtraction(t)
    BY <1>a, <1>13, GotoThread, FinishThread, CountOutThread, Found
      DEF EndExtraction, Runs, At, SnapshotOf, OnStep, ThreadTypes
<1>14. CASE CommitSnapshot(t)
  <2>1. pc[t] = "archive" /\ UNCHANGED <<extracted, messages, mark, accepted>>
    BY <1>14 DEF CommitSnapshot, Runs, At
  <2>2. CASE snap[t] = {}
    <3>1. pc'[t] = "idle" /\ snap'[t] = {}
      BY <1>a, <2>2, <1>14, FinishThread DEF CommitSnapshot
    <3> QED BY <1>a, <3>1 DEF SnapshotOf
  <2>3. CASE snap[t] # {}
    <3>1. pc'[t] = "scan" /\ snap'[t] = snap[t]
      BY <1>a, <2>3, <1>14 DEF CommitSnapshot, Goto, ThreadTypes
    <3> QED BY <1>a, <2>1, <3>1 DEF SnapshotOf
  <2> QED BY <2>2, <2>3
<1>15. CASE ScanMessages(t)
    BY <1>a, <1>15, GotoThread, FinishThread, CountOutThread, Found
      DEF ScanMessages, Runs, At, SnapshotOf, OnStep, ThreadTypes
<1>16. CASE AssignMessages(t)
    BY <1>a, <1>16, GotoThread, FinishThread, CountOutThread, Found
      DEF AssignMessages, AssignWithMark, Runs, At, SnapshotOf, OnStep, ThreadTypes
<1>17. CASE SliceCompaction(t)
    BY <1>a, <1>17, GotoThread, FinishThread, CountOutThread, Found
      DEF SliceCompaction, Runs, At, GetOrCreate, SnapshotOf, OnStep, ThreadTypes
<1>18. CASE Remark(t)
    BY <1>a, <1>18, GotoThread, FinishThread, CountOutThread, Found
      DEF Remark, Runs, At, SnapshotOf, OnStep, ThreadTypes
<1>19. CASE IssueToken(t)
    BY <1>a, <1>19, GotoThread, FinishThread, CountOutThread, Found
      DEF IssueToken, Runs, At, GetOrCreate, SnapshotOf, OnStep, ThreadTypes
<1>20. CASE RedeemToken(t)
    BY <1>a, <1>20, GotoThread, FinishThread, CountOutThread, Found
      DEF RedeemToken, Runs, At, SnapshotOf, OnStep, ThreadTypes
<1>21. CASE RefuseToken(t)
    BY <1>a, <1>21, GotoThread, FinishThread, CountOutThread, Found
      DEF RefuseToken, Runs, At, GetOrCreate, SnapshotOf, OnStep, ThreadTypes
<1>22. CASE CheckCommit(t)
    BY <1>a, <1>22, GotoThread, FinishThread, CountOutThread, Found
      DEF CheckCommit, Runs, At, GetOrCreate, SnapshotOf, OnStep, ThreadTypes
<1>23. CASE CopyMessages(t)
    BY <1>a, <1>23, GotoThread, FinishThread, CountOutThread, Found
      DEF CopyMessages, Runs, At, SnapshotOf, OnStep, ThreadTypes
<1>24. CASE ClearMessages(t)
    BY <1>a, <1>24, GotoThread, FinishThread, CountOutThread, Found
      DEF ClearMessages, Runs, At, SnapshotOf, OnStep, ThreadTypes
<1>25. CASE StoreCommit(t)
    BY <1>a, <1>25, GotoThread, FinishThread, CountOutThread, Found
      DEF StoreCommit, Runs, At, Archive, SnapshotOf, OnStep, ThreadTypes
<1>26. CASE WaitTimesOut(t)
    BY <1>a, <1>26, GotoThread, FinishThread, CountOutThread, Found
      DEF WaitTimesOut, Runs, At, SnapshotOf, OnStep, ThreadTypes
<1>27. CASE DisposeWithoutFlush(t)
    BY <1>a, <1>27, GotoThread, FinishThread, CountOutThread, Found
      DEF DisposeWithoutFlush, Awake, Runs, At, SnapshotOf, OnStep, ThreadTypes
<1>28. CASE DisposeKeeps(t)
    BY <1>a, <1>28, GotoThread, FinishThread, CountOutThread, Found
      DEF DisposeKeeps, Awake, Runs, At, SnapshotOf, OnStep, ThreadTypes
<1>29. CASE DisposeWithFlush(t)
    BY <1>a, <1>29, GotoThread, FinishThread, CountOutThread, Found
      DEF DisposeWithFlush, Awake, Runs, At, SnapshotOf, OnStep, ThreadTypes
<1>30. CASE DropSession(t)
  <2>1. CASE snap[t] = {}
    <3>1. pc'[t] = "idle" /\ snap'[t] = {}
      BY <1>a, <2>1, <1>30, FinishThread DEF DropSession
    <3> QED BY <3>1 DEF SnapshotOf
  <2>2. CASE snap[t] # {}
    <3>1. pc'[t] = "extract"
      BY <1>a, <2>2, <1>30 DEF DropSession, Goto, ThreadTypes
    <3> QED BY <3>1 DEF SnapshotOf
  <2> QED BY <2>1, <2>2
<1>31. CASE \E r \in Requests : Request(t, r)
  <2>1. PICK r \in Requests : Request(t, r)
    BY <1>31
  <2>2. snap' = snap /\ pc[t] = "idle"
    BY <2>1 DEF Request, Runs, At
  <2>3. PICK p \in RequestKinds \cup {"redeem", "wait"} : Goto(t, r, p)
    BY <2>1, RequestAssumption DEF Request, RequestKinds
  <2>4. pc'[t] = p
    BY <1>a, <2>3 DEF Goto, ThreadTypes
  <2> QED BY <1>a, <2>2, <2>4 DEF SnapshotOf, RequestKinds
<1> QED
  BY <1>1, <1>2, <1>3, <1>4, <1>5, <1>6, <1>7, <1>8, <1>9, <1>10, <1>11, <1>12,
     <1>13, <1>14, <1>15, <1>16, <1>17, <1>18, <1>19, <1>20, <1>21, <1>22, <1>23,
     <1>24, <1>25, <1>26, <1>27, <1>28, <1>29, <1>30, <1>31
    DEF Step, ThreadStep, TurnStep, ExtractStep, ArchiveStep, CompactStep,
       CommitStep, DisposeStep

LEMMA SnapshotMoves ==
  ASSUME SessionInv, Serial, ~Preempt, MaxFailures = 0, NEW t \in Thread, Step(t)
  PROVE  SnapshotStep(t)
<1> USE DEF bufVars, histVars
<1>a. /\ ThreadTypes /\ BufferTypes /\ OtherTypes
      /\ OnStep(job[t], pc[t]) /\ buf[t] \in Buffer \cup {0}
      /\ pc[t] \notin Homeless => buf[t] \in Buffer
      /\ SnapshotOf(t) /\ failures = 0
  BY DEF SessionInv, ServeInv, TypeInv, OnPath, ThreadTypes
<1>b. /\ Serving(t) /\ pc[t] \notin Homeless => buf[t] = live
      /\ \A b \in Buffer : Incremental(b) \subseteq accepted /\ ToSet(messages[b]) \subseteq accepted
  BY IncrementalTyped DEF SessionInv, ServeInv, TypeInv, ServesLive, Known
<1>1. CASE GetBuffer(t)
    BY <1>a, <1>1, GotoThread, FinishThread, CountOutThread, Found
      DEF GetBuffer, Runs, At, GetOrCreate, SnapshotOf, SnapshotStep, Running,
         OnStep, ThreadTypes
<1>2. CASE AddMessage(t)
    BY <1>a, <1>2, GotoThread, FinishThread, CountOutThread, Found
      DEF AddMessage, Runs, At, SnapshotOf, SnapshotStep, Running, OnStep,
         ThreadTypes
<1>3. CASE Accumulate(t)
    BY <1>a, <1>3, GotoThread, FinishThread, CountOutThread, Found
      DEF Accumulate, Runs, At, GetOrCreate, SnapshotOf, SnapshotStep, Running,
         OnStep, ThreadTypes
<1>4. CASE CommitOnly(t)
    BY <1>a, <1>4, GotoThread, FinishThread, CountOutThread, Found
      DEF CommitOnly, Runs, At, SnapshotOf, SnapshotStep, Running, OnStep,
         ThreadTypes
<1>5. CASE Slice(t)
  <2>1. PICK b \in Buffer : snap' = [snap EXCEPT ![t] = Incremental(b)]
    BY <1>5 DEF Slice
  <2>2. snap'[t] = Incremental(b) /\ Incremental(b) \subseteq accepted /\ snap[t] = {} /\ pc[t] = "turn"
    BY <1>a, <1>b, <2>1, <1>5 DEF Slice, Runs, At, ThreadTypes, SnapshotOf
  <2>3. ~Running(t)
    BY <1>a, <2>2 DEF OnStep, Running
  <2> QED BY <2>2, <2>3 DEF SnapshotStep
<1>6. CASE Mark(t)
    BY <1>a, <1>6, GotoThread, FinishThread, CountOutThread, Found
      DEF Mark, Runs, At, SnapshotOf, SnapshotStep, Running, OnStep, ThreadTypes
<1>7. CASE BeginExtraction(t)
    BY <1>a, <1>7, GotoThread, FinishThread, CountOutThread, Found
      DEF BeginExtraction, Runs, At, SnapshotOf, SnapshotStep, Running, OnStep,
         ThreadTypes
<1>8. CASE Spawn(t)
    BY <1>a, <1>8, GotoThread, FinishThread, CountOutThread, Found
      DEF Spawn, Runs, At, SnapshotOf, SnapshotStep, Running, OnStep, ThreadTypes
<1>9. CASE SpawnFails(t)
    BY <1>a, <1>9, GotoThread, FinishThread, CountOutThread, Found
      DEF SpawnFails, Runs, At, SnapshotOf, SnapshotStep, Running, OnStep,
         ThreadTypes
<1>10. CASE Extract(t)
    BY <1>a, <1>10, GotoThread, FinishThread, CountOutThread, Found
      DEF Extract, Runs, At, AfterExtract, SnapshotOf, SnapshotStep, Running,
         OnStep, ThreadTypes
<1>11. CASE ExtractFails(t)
    BY <1>a, <1>11, GotoThread, FinishThread, CountOutThread, Found
      DEF ExtractFails, Runs, At, SnapshotOf, SnapshotStep, Running, OnStep,
         ThreadTypes
<1>12. CASE Rewind(t)
    BY <1>a, <1>12, GotoThread, FinishThread, CountOutThread, Found
      DEF Rewind, Runs, At, SnapshotOf, SnapshotStep, Running, OnStep, ThreadTypes
<1>13. CASE EndExtraction(t)
    BY <1>a, <1>13, GotoThread, FinishThread, CountOutThread, Found
      DEF EndExtraction, Runs, At, SnapshotOf, SnapshotStep, Running, OnStep,
         ThreadTypes
<1>14. CASE CommitSnapshot(t)
    BY <1>a, <1>14, GotoThread, FinishThread, CountOutThread, Found
      DEF CommitSnapshot, Runs, At, GetOrCreate, Archive, SnapshotOf, SnapshotStep,
         Running, OnStep, ThreadTypes
<1>15. CASE ScanMessages(t)
    BY <1>a, <1>15, GotoThread, FinishThread, CountOutThread, Found
      DEF ScanMessages, Runs, At, SnapshotOf, SnapshotStep, Running, OnStep,
         ThreadTypes
<1>16. CASE AssignMessages(t)
    BY <1>a, <1>16, GotoThread, FinishThread, CountOutThread, Found
      DEF AssignMessages, AssignWithMark, Runs, At, SnapshotOf, SnapshotStep,
         Running, OnStep, ThreadTypes
<1>17. CASE SliceCompaction(t)
  <2>1. PICK b \in Buffer : snap' = [snap EXCEPT ![t] = Incremental(b)]
    BY <1>17 DEF SliceCompaction
  <2>2. snap'[t] = Incremental(b) /\ Incremental(b) \subseteq accepted /\ snap[t] = {} /\ pc[t] = "prepare"
    BY <1>a, <1>b, <2>1, <1>17 DEF SliceCompaction, Runs, At, ThreadTypes, SnapshotOf
  <2>3. ~Running(t)
    BY <1>a, <2>2 DEF OnStep, Running
  <2> QED BY <2>2, <2>3 DEF SnapshotStep
<1>18. CASE Remark(t)
    BY <1>a, <1>18, GotoThread, FinishThread, CountOutThread, Found
      DEF Remark, Runs, At, SnapshotOf, SnapshotStep, Running, OnStep, ThreadTypes
<1>19. CASE IssueToken(t)
    BY <1>a, <1>19, GotoThread, FinishThread, CountOutThread, Found
      DEF IssueToken, Runs, At, GetOrCreate, SnapshotOf, SnapshotStep, Running,
         OnStep, ThreadTypes
<1>20. CASE RedeemToken(t)
    BY <1>a, <1>20, GotoThread, FinishThread, CountOutThread, Found
      DEF RedeemToken, Runs, At, SnapshotOf, SnapshotStep, Running, OnStep,
         ThreadTypes
<1>21. CASE RefuseToken(t)
    BY <1>a, <1>21, GotoThread, FinishThread, CountOutThread, Found
      DEF RefuseToken, Runs, At, GetOrCreate, SnapshotOf, SnapshotStep, Running,
         OnStep, ThreadTypes
<1>22. CASE CheckCommit(t)
    BY <1>a, <1>22, GotoThread, FinishThread, CountOutThread, Found
      DEF CheckCommit, Runs, At, GetOrCreate, SnapshotOf, SnapshotStep, Running,
         OnStep, ThreadTypes
<1>23. CASE CopyMessages(t)
  <2>1. pc[t] = "copy" /\ extracted' = extracted /\ snap'[t] = ToSet(messages[buf[t]]) /\ buf[t] \in Buffer
    BY <1>a, <1>23 DEF CopyMessages, Runs, At, ThreadTypes, Homeless
  <2>2. snap[t] \cap Extractable \subseteq extracted /\ snap'[t] \subseteq accepted
    BY <1>a, <1>b, <2>1 DEF SnapshotOf
  <2>3. ~Running(t)
    BY <1>a, <2>1 DEF OnStep, Running
  <2> QED BY <2>1, <2>2, <2>3 DEF SnapshotStep
<1>24. CASE ClearMessages(t)
    BY <1>a, <1>24, GotoThread, FinishThread, CountOutThread, Found
      DEF ClearMessages, Runs, At, SnapshotOf, SnapshotStep, Running, OnStep,
         ThreadTypes
<1>25. CASE StoreCommit(t)
    BY <1>a, <1>25, GotoThread, FinishThread, CountOutThread, Found
      DEF StoreCommit, Runs, At, Archive, SnapshotOf, SnapshotStep, Running, OnStep,
         ThreadTypes
<1>26. CASE WaitTimesOut(t)
    BY <1>a, <1>26, GotoThread, FinishThread, CountOutThread, Found
      DEF WaitTimesOut, Runs, At, SnapshotOf, SnapshotStep, Running, OnStep,
         ThreadTypes
<1>27. CASE DisposeWithoutFlush(t)
    BY <1>a, <1>27, GotoThread, FinishThread, CountOutThread, Found
      DEF DisposeWithoutFlush, Awake, Runs, At, SnapshotOf, SnapshotStep, Running,
         OnStep, ThreadTypes
<1>28. CASE DisposeKeeps(t)
    BY <1>a, <1>28, GotoThread, FinishThread, CountOutThread, Found
      DEF DisposeKeeps, Awake, Runs, At, SnapshotOf, SnapshotStep, Running, OnStep,
         ThreadTypes
<1>29. CASE DisposeWithFlush(t)
  <2>1. pc[t] \in {"wait", "woken"} /\ buf[t] \in Buffer /\ UNCHANGED <<live, messages, mark>>
    BY <1>a, <1>29 DEF DisposeWithFlush, Awake, Runs, At, Homeless
  <2>2. snap'[t] = Incremental(buf[t]) /\ Incremental(buf[t]) \subseteq accepted /\ snap[t] = {}
    BY <1>a, <1>b, <2>1, <1>29 DEF DisposeWithFlush, ThreadTypes, SnapshotOf
  <2>3. /\ job[t] = "dispose" /\ pc'[t] = "drop" /\ ~Running(t)
        /\ buf[t] = live
    BY <1>a, <1>b, <2>1, <1>29 DEF DisposeWithFlush, Goto, ThreadTypes, OnStep, Running, Serving, Homeless
  <2> QED BY <2>1, <2>2, <2>3 DEF SnapshotStep
<1>30. CASE DropSession(t)
    BY <1>a, <1>30, GotoThread, FinishThread, CountOutThread, Found
      DEF DropSession, Runs, At, SnapshotOf, SnapshotStep, Running, OnStep,
         ThreadTypes
<1>31. CASE \E r \in Requests : Request(t, r)
    BY <1>a, <1>31, GotoThread, FinishThread, CountOutThread, Found
      DEF Request, Runs, At, SnapshotOf, SnapshotStep, Running, OnStep, ThreadTypes
<1> QED
  BY <1>1, <1>2, <1>3, <1>4, <1>5, <1>6, <1>7, <1>8, <1>9, <1>10, <1>11, <1>12,
     <1>13, <1>14, <1>15, <1>16, <1>17, <1>18, <1>19, <1>20, <1>21, <1>22, <1>23,
     <1>24, <1>25, <1>26, <1>27, <1>28, <1>29, <1>30, <1>31
    DEF Step, ThreadStep, TurnStep, ExtractStep, ArchiveStep, CompactStep,
       CommitStep, DisposeStep

LEMMA ClaimsMove ==
  ASSUME SessionInv, Serial, ~Preempt, MaxFailures = 0, NEW t \in Thread, Step(t)
  PROVE  ClaimStep(t)
<1> USE DEF bufVars, histVars
<1>a. /\ ThreadTypes /\ BufferTypes /\ OtherTypes
      /\ OnStep(job[t], pc[t]) /\ buf[t] \in Buffer \cup {0}
      /\ pc[t] \notin Homeless => buf[t] \in Buffer
      /\ SnapshotOf(t) /\ failures = 0
  BY DEF SessionInv, ServeInv, TypeInv, OnPath, ThreadTypes
<1>b. /\ Serving(t) /\ pc[t] \notin Homeless => buf[t] = live
      /\ \A b \in Buffer : Incremental(b) \subseteq accepted /\ ToSet(messages[b]) \subseteq accepted
  BY IncrementalTyped DEF SessionInv, ServeInv, TypeInv, ServesLive, Known
<1>1. CASE GetBuffer(t)
    BY <1>a, <1>1, GotoThread, FinishThread, CountOutThread, Found
      DEF GetBuffer, Runs, At, GetOrCreate, SnapshotOf, ClaimStep, Claims, Ahead,
         Takes, OnStep, ThreadTypes
<1>2. CASE AddMessage(t)
    BY <1>a, <1>2, GotoThread, FinishThread, CountOutThread, Found
      DEF AddMessage, Runs, At, SnapshotOf, ClaimStep, Claims, Ahead, Takes, OnStep,
         ThreadTypes
<1>3. CASE Accumulate(t)
    BY <1>a, <1>3, GotoThread, FinishThread, CountOutThread, Found
      DEF Accumulate, Runs, At, GetOrCreate, SnapshotOf, ClaimStep, Claims, Ahead,
         Takes, OnStep, ThreadTypes
<1>4. CASE CommitOnly(t)
    BY <1>a, <1>4, GotoThread, FinishThread, CountOutThread, Found
      DEF CommitOnly, Runs, At, SnapshotOf, ClaimStep, Claims, Ahead, Takes, OnStep,
         ThreadTypes
<1>5. CASE Slice(t)
    BY <1>a, <1>5, GotoThread, FinishThread, CountOutThread, Found
      DEF Slice, Runs, At, GetOrCreate, SnapshotOf, ClaimStep, Claims, Ahead, Takes,
         OnStep, ThreadTypes
<1>6. CASE Mark(t)
    BY <1>a, <1>6, GotoThread, FinishThread, CountOutThread, Found
      DEF Mark, Runs, At, SnapshotOf, ClaimStep, Claims, Ahead, Takes, OnStep,
         ThreadTypes
<1>7. CASE BeginExtraction(t)
    BY <1>a, <1>7, GotoThread, FinishThread, CountOutThread, Found
      DEF BeginExtraction, Runs, At, SnapshotOf, ClaimStep, Claims, Ahead, Takes,
         OnStep, ThreadTypes
<1>8. CASE Spawn(t)
    BY <1>a, <1>8, GotoThread, FinishThread, CountOutThread, Found
      DEF Spawn, Runs, At, SnapshotOf, ClaimStep, Claims, Ahead, Takes, OnStep,
         ThreadTypes
<1>9. CASE SpawnFails(t)
    BY <1>a, <1>9, GotoThread, FinishThread, CountOutThread, Found
      DEF SpawnFails, Runs, At, SnapshotOf, ClaimStep, Claims, Ahead, Takes, OnStep,
         ThreadTypes
<1>10. CASE Extract(t)
    BY <1>a, <1>10, GotoThread, FinishThread, CountOutThread, Found
      DEF Extract, Runs, At, AfterExtract, SnapshotOf, ClaimStep, Claims, Ahead,
         Takes, OnStep, ThreadTypes
<1>11. CASE ExtractFails(t)
    BY <1>a, <1>11, GotoThread, FinishThread, CountOutThread, Found
      DEF ExtractFails, Runs, At, SnapshotOf, ClaimStep, Claims, Ahead, Takes,
         OnStep, ThreadTypes
<1>12. CASE Rewind(t)
    BY <1>a, <1>12, GotoThread, FinishThread, CountOutThread, Found
      DEF Rewind, Runs, At, SnapshotOf, ClaimStep, Claims, Ahead, Takes, OnStep,
         ThreadTypes
<1>13. CASE EndExtraction(t)
    BY <1>a, <1>13, GotoThread, FinishThread, CountOutThread, Found
      DEF EndExtraction, Runs, At, SnapshotOf, ClaimStep, Claims, Ahead, Takes,
         OnStep, ThreadTypes
<1>14. CASE CommitSnapshot(t)
  <2>1. pc[t] = "archive" /\ UNCHANGED <<extracted, messages, mark, accepted>>
    BY <1>14 DEF CommitSnapshot, Runs, At
  <2>2. CASE snap[t] = {}
    <3>1. pc'[t] = "idle" /\ snap'[t] = {}
      BY <1>a, <2>2, <1>14, FinishThread DEF CommitSnapshot
    <3> QED BY <2>1, <3>1 DEF ClaimStep, Claims
  <2>3. CASE snap[t] # {}
    <3>1. pc'[t] = "scan" /\ snap'[t] = snap[t]
      BY <1>a, <2>3, <1>14 DEF CommitSnapshot, Goto, ThreadTypes
    <3> QED BY <2>1, <3>1 DEF ClaimStep, Claims
  <2> QED BY <2>2, <2>3
<1>15. CASE ScanMessages(t)
    BY <1>a, <1>15, GotoThread, FinishThread, CountOutThread, Found
      DEF ScanMessages, Runs, At, SnapshotOf, ClaimStep, Claims, Ahead, Takes,
         OnStep, ThreadTypes
<1>16. CASE AssignMessages(t)
    BY <1>a, <1>16, GotoThread, FinishThread, CountOutThread, Found
      DEF AssignMessages, AssignWithMark, Runs, At, SnapshotOf, ClaimStep, Claims,
         Ahead, Takes, OnStep, ThreadTypes
<1>17. CASE SliceCompaction(t)
    BY <1>a, <1>17, GotoThread, FinishThread, CountOutThread, Found
      DEF SliceCompaction, Runs, At, GetOrCreate, SnapshotOf, ClaimStep, Claims,
         Ahead, Takes, OnStep, ThreadTypes
<1>18. CASE Remark(t)
    BY <1>a, <1>18, GotoThread, FinishThread, CountOutThread, Found
      DEF Remark, Runs, At, SnapshotOf, ClaimStep, Claims, Ahead, Takes, OnStep,
         ThreadTypes
<1>19. CASE IssueToken(t)
    BY <1>a, <1>19, GotoThread, FinishThread, CountOutThread, Found
      DEF IssueToken, Runs, At, GetOrCreate, SnapshotOf, ClaimStep, Claims, Ahead,
         Takes, OnStep, ThreadTypes
<1>20. CASE RedeemToken(t)
    BY <1>a, <1>20, GotoThread, FinishThread, CountOutThread, Found
      DEF RedeemToken, Runs, At, SnapshotOf, ClaimStep, Claims, Ahead, Takes,
         OnStep, ThreadTypes
<1>21. CASE RefuseToken(t)
    BY <1>a, <1>21, GotoThread, FinishThread, CountOutThread, Found
      DEF RefuseToken, Runs, At, GetOrCreate, SnapshotOf, ClaimStep, Claims, Ahead,
         Takes, OnStep, ThreadTypes
<1>22. CASE CheckCommit(t)
    BY <1>a, <1>22, GotoThread, FinishThread, CountOutThread, Found
      DEF CheckCommit, Runs, At, GetOrCreate, SnapshotOf, ClaimStep, Claims, Ahead,
         Takes, OnStep, ThreadTypes
<1>23. CASE CopyMessages(t)
    BY <1>a, <1>23, GotoThread, FinishThread, CountOutThread, Found
      DEF CopyMessages, Runs, At, SnapshotOf, ClaimStep, Claims, Ahead, Takes,
         OnStep, ThreadTypes
<1>24. CASE ClearMessages(t)
    BY <1>a, <1>24, GotoThread, FinishThread, CountOutThread, Found
      DEF ClearMessages, Runs, At, SnapshotOf, ClaimStep, Claims, Ahead, Takes,
         OnStep, ThreadTypes
<1>25. CASE StoreCommit(t)
    BY <1>a, <1>25, GotoThread, FinishThread, CountOutThread, Found
      DEF StoreCommit, Runs, At, Archive, SnapshotOf, ClaimStep, Claims, Ahead,
         Takes, OnStep, ThreadTypes
<1>26. CASE WaitTimesOut(t)
    BY <1>a, <1>26, GotoThread, FinishThread, CountOutThread, Found
      DEF WaitTimesOut, Runs, At, SnapshotOf, ClaimStep, Claims, Ahead, Takes,
         OnStep, ThreadTypes
<1>27. CASE DisposeWithoutFlush(t)
    BY <1>a, <1>27, GotoThread, FinishThread, CountOutThread, Found
      DEF DisposeWithoutFlush, Awake, Runs, At, SnapshotOf, ClaimStep, Claims,
         Ahead, Takes, OnStep, ThreadTypes
<1>28. CASE DisposeKeeps(t)
    BY <1>a, <1>28, GotoThread, FinishThread, CountOutThread, Found
      DEF DisposeKeeps, Awake, Runs, At, SnapshotOf, ClaimStep, Claims, Ahead,
         Takes, OnStep, ThreadTypes
<1>29. CASE DisposeWithFlush(t)
  <2>1. pc[t] \in {"wait", "woken"} /\ buf[t] \in Buffer /\ UNCHANGED <<live, messages, mark>>
    BY <1>a, <1>29 DEF DisposeWithFlush, Awake, Runs, At, Homeless
  <2>2. snap'[t] = Incremental(buf[t]) /\ Incremental(buf[t]) \subseteq accepted /\ snap[t] = {}
    BY <1>a, <1>b, <2>1, <1>29 DEF DisposeWithFlush, ThreadTypes, SnapshotOf
  <2>3. /\ job[t] = "dispose" /\ pc'[t] = "drop" /\ ~Running(t)
        /\ buf[t] = live
    BY <1>a, <1>b, <2>1, <1>29 DEF DisposeWithFlush, Goto, ThreadTypes, OnStep, Running, Serving, Homeless
  <2> QED BY <2>1, <2>2, <2>3 DEF ClaimStep, Takes, Ahead
<1>30. CASE DropSession(t)
    BY <1>a, <1>30, GotoThread, FinishThread, CountOutThread, Found
      DEF DropSession, Runs, At, SnapshotOf, ClaimStep, Claims, Ahead, Takes,
         OnStep, ThreadTypes
<1>31. CASE \E r \in Requests : Request(t, r)
  <2>1. PICK r \in Requests : Request(t, r)
    BY <1>31
  <2>2. snap' = snap /\ pc[t] = "idle"
    BY <2>1 DEF Request, Runs, At
  <2>3. PICK p \in RequestKinds \cup {"redeem", "wait"} : Goto(t, r, p)
    BY <2>1, RequestAssumption DEF Request, RequestKinds
  <2>4. pc'[t] = p
    BY <1>a, <2>3 DEF Goto, ThreadTypes
  <2> QED BY <1>a, <2>2, <2>4 DEF SnapshotOf, ClaimStep, Claims, RequestKinds
<1> QED
  BY <1>1, <1>2, <1>3, <1>4, <1>5, <1>6, <1>7, <1>8, <1>9, <1>10, <1>11, <1>12,
     <1>13, <1>14, <1>15, <1>16, <1>17, <1>18, <1>19, <1>20, <1>21, <1>22, <1>23,
     <1>24, <1>25, <1>26, <1>27, <1>28, <1>29, <1>30, <1>31
    DEF Step, ThreadStep, TurnStep, ExtractStep, ArchiveStep, CompactStep,
       CommitStep, DisposeStep

LEMMA CoverMoves ==
  ASSUME SessionInv, Serial, ~Preempt, MaxFailures = 0, NEW t \in Thread, Step(t), LiveSets(t), CoveredBy(t), Serving(t) /\ pc[t] \notin Homeless => buf[t] = live
  PROVE  CoveredBy(t)'
<1> USE DEF bufVars, histVars
<1>a. /\ ThreadTypes /\ BufferTypes /\ OtherTypes
      /\ OnStep(job[t], pc[t]) /\ buf[t] \in Buffer \cup {0}
      /\ pc[t] \notin Homeless => buf[t] \in Buffer
      /\ SnapshotOf(t) /\ failures = 0
  BY DEF SessionInv, ServeInv, TypeInv, OnPath, ThreadTypes
<1>b. /\ Serving(t) /\ pc[t] \notin Homeless => buf[t] = live
      /\ \A b \in Buffer : Incremental(b) \subseteq accepted /\ ToSet(messages[b]) \subseteq accepted
  BY IncrementalTyped DEF SessionInv, ServeInv, TypeInv, ServesLive, Known
<1>1. CASE GetBuffer(t)
    BY <1>a, <1>1, GotoThread, FinishThread, CountOutThread, Found
      DEF GetBuffer, Runs, At, GetOrCreate, SnapshotOf, CoveredBy, LiveSets,
         Serving, OnStep, ThreadTypes, Homeless
<1>2. CASE AddMessage(t)
    BY <1>a, <1>2, GotoThread, FinishThread, CountOutThread, Found
      DEF AddMessage, Runs, At, SnapshotOf, CoveredBy, LiveSets, Serving, OnStep,
         ThreadTypes, Homeless
<1>3. CASE Accumulate(t)
    BY <1>a, <1>3, GotoThread, FinishThread, CountOutThread, Found
      DEF Accumulate, Runs, At, GetOrCreate, SnapshotOf, CoveredBy, LiveSets,
         Serving, OnStep, ThreadTypes, Homeless
<1>4. CASE CommitOnly(t)
    BY <1>a, <1>4, GotoThread, FinishThread, CountOutThread, Found
      DEF CommitOnly, Runs, At, SnapshotOf, CoveredBy, LiveSets, Serving, OnStep,
         ThreadTypes, Homeless
<1>5. CASE Slice(t)
  <2>1. PICK b \in Buffer : GetOrCreate(b) /\ snap' = [snap EXCEPT ![t] = Incremental(b)]
    BY <1>5 DEF Slice
  <2>2. live' = b /\ UNCHANGED <<messages, mark>> /\ snap'[t] = Incremental(b)
    BY <1>a, <2>1, <1>5, Found DEF Slice, ThreadTypes
  <2>3. Pending' = Incremental(b)
    BY <2>2, LimitAssumption DEF Pending, Incremental, Buffer
  <2>4. pc'[t] # "drop"
    BY <1>a, <1>5 DEF Slice, Goto, ThreadTypes
  <2> QED BY <2>2, <2>3, <2>4 DEF CoveredBy
<1>6. CASE Mark(t)
    BY <1>a, <1>6, GotoThread, FinishThread, CountOutThread, Found
      DEF Mark, Runs, At, SnapshotOf, CoveredBy, LiveSets, Serving, OnStep,
         ThreadTypes, Homeless
<1>7. CASE BeginExtraction(t)
    BY <1>a, <1>7, GotoThread, FinishThread, CountOutThread, Found
      DEF BeginExtraction, Runs, At, SnapshotOf, CoveredBy, LiveSets, Serving,
         OnStep, ThreadTypes, Homeless
<1>8. CASE Spawn(t)
    BY <1>a, <1>8, GotoThread, FinishThread, CountOutThread, Found
      DEF Spawn, Runs, At, SnapshotOf, CoveredBy, LiveSets, Serving, OnStep,
         ThreadTypes, Homeless
<1>9. CASE SpawnFails(t)
    BY <1>a, <1>9, GotoThread, FinishThread, CountOutThread, Found
      DEF SpawnFails, Runs, At, SnapshotOf, CoveredBy, LiveSets, Serving, OnStep,
         ThreadTypes, Homeless
<1>10. CASE Extract(t)
    BY <1>a, <1>10, GotoThread, FinishThread, CountOutThread, Found
      DEF Extract, Runs, At, AfterExtract, SnapshotOf, CoveredBy, LiveSets, Serving,
         OnStep, ThreadTypes, Homeless
<1>11. CASE ExtractFails(t)
    BY <1>a, <1>11, GotoThread, FinishThread, CountOutThread, Found
      DEF ExtractFails, Runs, At, SnapshotOf, CoveredBy, LiveSets, Serving, OnStep,
         ThreadTypes, Homeless
<1>12. CASE Rewind(t)
    BY <1>a, <1>12, GotoThread, FinishThread, CountOutThread, Found
      DEF Rewind, Runs, At, SnapshotOf, CoveredBy, LiveSets, Serving, OnStep,
         ThreadTypes, Homeless
<1>13. CASE EndExtraction(t)
    BY <1>a, <1>13, GotoThread, FinishThread, CountOutThread, Found
      DEF EndExtraction, Runs, At, SnapshotOf, CoveredBy, LiveSets, Serving, OnStep,
         ThreadTypes, Homeless
<1>14. CASE CommitSnapshot(t)
  <2>1. pc[t] = "archive" /\ UNCHANGED <<extracted, messages, mark, accepted>>
    BY <1>14 DEF CommitSnapshot, Runs, At
  <2>2. CASE snap[t] = {}
    <3>1. pc'[t] = "idle" /\ snap'[t] = {}
      BY <1>a, <2>2, <1>14, FinishThread DEF CommitSnapshot
    <3> QED BY <3>1 DEF CoveredBy
  <2>3. CASE snap[t] # {}
    <3>1. pc'[t] = "scan" /\ snap'[t] = snap[t]
      BY <1>a, <2>3, <1>14 DEF CommitSnapshot, Goto, ThreadTypes
    <3> QED BY <3>1 DEF CoveredBy
  <2> QED BY <2>2, <2>3
<1>15. CASE ScanMessages(t)
    BY <1>a, <1>15, GotoThread, FinishThread, CountOutThread, Found
      DEF ScanMessages, Runs, At, SnapshotOf, CoveredBy, LiveSets, Serving, OnStep,
         ThreadTypes, Homeless
<1>16. CASE AssignMessages(t)
    BY <1>a, <1>16, GotoThread, FinishThread, CountOutThread, Found
      DEF AssignMessages, AssignWithMark, Runs, At, SnapshotOf, CoveredBy, LiveSets,
         Serving, OnStep, ThreadTypes, Homeless
<1>17. CASE SliceCompaction(t)
  <2>1. PICK b \in Buffer : GetOrCreate(b) /\ snap' = [snap EXCEPT ![t] = Incremental(b)]
    BY <1>17 DEF SliceCompaction
  <2>2. live' = b /\ UNCHANGED <<messages, mark>> /\ snap'[t] = Incremental(b)
    BY <1>a, <2>1, <1>17, Found DEF SliceCompaction, ThreadTypes
  <2>3. Pending' = Incremental(b)
    BY <2>2, LimitAssumption DEF Pending, Incremental, Buffer
  <2>4. pc'[t] # "drop"
    BY <1>a, <1>17 DEF SliceCompaction, Goto, ThreadTypes
  <2> QED BY <2>2, <2>3, <2>4 DEF CoveredBy
<1>18. CASE Remark(t)
    BY <1>a, <1>18, GotoThread, FinishThread, CountOutThread, Found
      DEF Remark, Runs, At, SnapshotOf, CoveredBy, LiveSets, Serving, OnStep,
         ThreadTypes, Homeless
<1>19. CASE IssueToken(t)
    BY <1>a, <1>19, GotoThread, FinishThread, CountOutThread, Found
      DEF IssueToken, Runs, At, GetOrCreate, SnapshotOf, CoveredBy, LiveSets,
         Serving, OnStep, ThreadTypes, Homeless
<1>20. CASE RedeemToken(t)
    BY <1>a, <1>20, GotoThread, FinishThread, CountOutThread, Found
      DEF RedeemToken, Runs, At, SnapshotOf, CoveredBy, LiveSets, Serving, OnStep,
         ThreadTypes, Homeless
<1>21. CASE RefuseToken(t)
    BY <1>a, <1>21, GotoThread, FinishThread, CountOutThread, Found
      DEF RefuseToken, Runs, At, GetOrCreate, SnapshotOf, CoveredBy, LiveSets,
         Serving, OnStep, ThreadTypes, Homeless
<1>22. CASE CheckCommit(t)
    BY <1>a, <1>22, GotoThread, FinishThread, CountOutThread, Found
      DEF CheckCommit, Runs, At, GetOrCreate, SnapshotOf, CoveredBy, LiveSets,
         Serving, OnStep, ThreadTypes, Homeless
<1>23. CASE CopyMessages(t)
    BY <1>a, <1>23, GotoThread, FinishThread, CountOutThread, Found
      DEF CopyMessages, Runs, At, SnapshotOf, CoveredBy, LiveSets, Serving, OnStep,
         ThreadTypes, Homeless
<1>24. CASE ClearMessages(t)
    BY <1>a, <1>24, GotoThread, FinishThread, CountOutThread, Found
      DEF ClearMessages, Runs, At, SnapshotOf, CoveredBy, LiveSets, Serving, OnStep,
         ThreadTypes, Homeless
<1>25. CASE StoreCommit(t)
    BY <1>a, <1>25, GotoThread, FinishThread, CountOutThread, Found
      DEF StoreCommit, Runs, At, Archive, SnapshotOf, CoveredBy, LiveSets, Serving,
         OnStep, ThreadTypes, Homeless
<1>26. CASE WaitTimesOut(t)
    BY <1>a, <1>26, GotoThread, FinishThread, CountOutThread, Found
      DEF WaitTimesOut, Runs, At, SnapshotOf, CoveredBy, LiveSets, Serving, OnStep,
         ThreadTypes, Homeless
<1>27. CASE DisposeWithoutFlush(t)
  <2>1. pc[t] \in {"wait", "woken"} /\ buf[t] \in Buffer /\ UNCHANGED <<live, messages, mark>>
    BY <1>a, <1>27 DEF DisposeWithoutFlush, Awake, Runs, At, Homeless
  <2>2. discarded' = discarded \cup Incremental(buf[t])
    BY <1>27 DEF DisposeWithoutFlush
  <2>3. /\ job[t] = "dispose" /\ pc'[t] = "drop" /\ ~Running(t)
        /\ buf[t] = live
    BY <1>a, <1>b, <2>1, <1>27 DEF DisposeWithoutFlush, Goto, ThreadTypes, OnStep, Running, Serving, Homeless
  <2>4. PICK b \in Buffer : b = live
    BY <2>1, <2>3
  <2>5. Pending' = Incremental(b) /\ Incremental(b) \subseteq discarded'
    BY <2>1, <2>2, <2>3, <2>4, LimitAssumption DEF Pending, Incremental, Buffer
  <2> QED BY <2>3, <2>5 DEF CoveredBy
<1>28. CASE DisposeKeeps(t)
    BY <1>a, <1>28, GotoThread, FinishThread, CountOutThread, Found
      DEF DisposeKeeps, Awake, Runs, At, SnapshotOf, CoveredBy, LiveSets, Serving,
         OnStep, ThreadTypes, Homeless
<1>29. CASE DisposeWithFlush(t)
  <2>1. pc[t] \in {"wait", "woken"} /\ buf[t] \in Buffer /\ UNCHANGED <<live, messages, mark>>
    BY <1>a, <1>29 DEF DisposeWithFlush, Awake, Runs, At, Homeless
  <2>2. snap'[t] = Incremental(buf[t]) /\ Incremental(buf[t]) \subseteq accepted /\ snap[t] = {}
    BY <1>a, <1>b, <2>1, <1>29 DEF DisposeWithFlush, ThreadTypes, SnapshotOf
  <2>3. /\ job[t] = "dispose" /\ pc'[t] = "drop" /\ ~Running(t)
        /\ buf[t] = live
    BY <1>a, <1>b, <2>1, <1>29 DEF DisposeWithFlush, Goto, ThreadTypes, OnStep, Running, Serving, Homeless
  <2>4. PICK b \in Buffer : b = live
    BY <2>1, <2>3
  <2>5. Pending' = Incremental(b) /\ snap'[t] = Incremental(b)
    BY <2>1, <2>2, <2>3, <2>4, LimitAssumption DEF Pending, Incremental, Buffer
  <2> QED BY <2>3, <2>5 DEF CoveredBy
<1>30. CASE DropSession(t)
    BY <1>a, <1>30, GotoThread, FinishThread, CountOutThread, Found
      DEF DropSession, Runs, At, SnapshotOf, CoveredBy, LiveSets, Serving, OnStep,
         ThreadTypes, Homeless
<1>31. CASE \E r \in Requests : Request(t, r)
  <2>1. PICK r \in Requests : Request(t, r)
    BY <1>31
  <2>2. snap' = snap /\ pc[t] = "idle"
    BY <2>1 DEF Request, Runs, At
  <2>3. PICK p \in RequestKinds \cup {"redeem", "wait"} : Goto(t, r, p)
    BY <2>1, RequestAssumption DEF Request, RequestKinds
  <2>4. pc'[t] = p
    BY <1>a, <2>3 DEF Goto, ThreadTypes
  <2> QED BY <1>a, <2>2, <2>4 DEF CoveredBy, RequestKinds
<1> QED
  BY <1>1, <1>2, <1>3, <1>4, <1>5, <1>6, <1>7, <1>8, <1>9, <1>10, <1>11, <1>12,
     <1>13, <1>14, <1>15, <1>16, <1>17, <1>18, <1>19, <1>20, <1>21, <1>22, <1>23,
     <1>24, <1>25, <1>26, <1>27, <1>28, <1>29, <1>30, <1>31
    DEF Step, ThreadStep, TurnStep, ExtractStep, ArchiveStep, CompactStep,
       CommitStep, DisposeStep

-----------------------------------------------------------------------------
\* No other thread is inside a method that replaces the list.
LEMMA Alone ==
  ASSUME ~Preempt, NEW t \in Thread, Step(t)
  PROVE  \A u \in Thread \ {t} : pc[u] \notin {"assign", "copy", "clear"}
BY DEF Step, ThreadStep, TurnStep, ExtractStep, ArchiveStep, CompactStep, CommitStep, DisposeStep,
       GetBuffer, AddMessage, Accumulate, CommitOnly, Slice, Mark, BeginExtraction, Spawn, SpawnFails,
       Extract, ExtractFails, Rewind, EndExtraction, CommitSnapshot, ScanMessages, AssignMessages,
       AssignWithMark, SliceCompaction, Remark, IssueToken, RedeemToken, RefuseToken, CheckCommit,
       CopyMessages, ClearMessages, StoreCommit, WaitTimesOut, DisposeWithoutFlush, DisposeKeeps,
       DisposeWithFlush, DropSession, Awake, Runs, Request

\* The step of thread t as the other threads see it.
Seen(t) ==
  /\ ServeInv' /\ made <= made' /\ Moved(t) /\ Serves(t)
  /\ LiveMoves(t) /\ ListStep(t) /\ HistoryStep(t) /\ LiveSets(t)
  /\ SnapshotOf(t)' /\ SnapshotStep(t) /\ ClaimStep(t) /\ CoveredBy(t)'

LEMMA StepSeen ==
  ASSUME SessionInv, Serial, ~Preempt, MaxFailures = 0, NEW t \in Thread, Step(t)
  PROVE  Seen(t)
<1>1. /\ ServeInv' /\ made <= made' /\ Moved(t) /\ Serves(t)
      /\ LiveMoves(t) /\ ListStep(t) /\ HistoryStep(t) /\ LiveSets(t)
  BY LiveStep
<1>2. SnapshotOf(t)' /\ SnapshotStep(t) /\ ClaimStep(t)
  BY SnapshotFollows, SnapshotMoves, ClaimsMove
<1>3. CoveredBy(t) /\ (Serving(t) /\ pc[t] \notin Homeless => buf[t] = live)
  BY DEF SessionInv, ServeInv, ServesLive
<1>4. CoveredBy(t)'
  BY <1>1, <1>3, CoverMoves
<1> QED BY <1>1, <1>2, <1>4 DEF Seen

\* A thread other than t rests, but for dispose that may be woken.
LEMMA OthersSeen ==
  ASSUME SessionInv, NEW t \in Thread, Seen(t), NEW u \in Thread \ {t}
  PROVE  /\ job'[u] = job[u] /\ buf'[u] = buf[u] /\ snap'[u] = snap[u]
         /\ pc'[u] = pc[u] \/ (pc[u] = "wait" /\ pc'[u] = "woken")
         /\ Claims(u)' = Claims(u) /\ (Ahead(u)' <=> Ahead(u))
         /\ Serving(u)' <=> Serving(u)
         /\ Running(u)' <=> Running(u)
         /\ OnStep(job[u], pc[u]) /\ SnapshotOf(u) /\ CoveredBy(u)
         /\ Serving(t) => ~Serving(u)
<1>1. /\ job'[u] = job[u] /\ buf'[u] = buf[u] /\ snap'[u] = snap[u]
      /\ pc'[u] = pc[u] \/ (pc[u] = "wait" /\ pc'[u] = "woken")
  BY DEF Seen, Moved, Rests
<1>2. OnStep(job[u], pc[u]) /\ SnapshotOf(u) /\ CoveredBy(u) /\ (Serving(t) => ~Serving(u))
  BY DEF SessionInv, ServeInv, TypeInv, OnPath, OneServed
<1>3. Claims(u)' = Claims(u) /\ (Ahead(u)' <=> Ahead(u))
  BY <1>1 DEF Claims, Ahead
<1>4. (Serving(u)' <=> Serving(u)) /\ (Running(u)' <=> Running(u))
  BY <1>1 DEF Serving, Running
<1> QED BY <1>1, <1>2, <1>3, <1>4

\* The thread that takes the step.
LEMMA Actor ==
  ASSUME SessionInv, NEW t \in Thread
  PROVE  /\ OnStep(job[t], pc[t]) /\ SnapshotOf(t) /\ CoveredBy(t)
         /\ buf[t] <= made /\ buf[t] \in Nat /\ made \in Nat
         /\ ThreadTypes /\ BufferTypes /\ OtherTypes
         /\ pc[t] \in {"append", "mark", "remark", "turn", "prepare", "wait", "woken", "drop"} => Serving(t)
<1>1. /\ OnStep(job[t], pc[t]) /\ SnapshotOf(t) /\ CoveredBy(t)
      /\ ThreadTypes /\ BufferTypes /\ OtherTypes /\ buf[t] <= made
  BY DEF SessionInv, ServeInv, TypeInv, OnPath
<1>2. buf[t] \in Nat /\ made \in Nat
  BY <1>1 DEF ThreadTypes, OtherTypes, Buffer
<1>3. pc[t] \in {"append", "mark", "remark", "turn", "prepare", "wait", "woken", "drop"} => Serving(t)
  BY <1>1 DEF OnStep, Serving
<1> QED BY <1>1, <1>2, <1>3

\* Only an append adds to a list.
LEMMA ListGrows ==
  ASSUME SessionInv, NEW t \in Thread, Seen(t), NEW b \in Buffer
  PROVE  /\ ToSet(messages'[b]) \subseteq ToSet(messages[b]) \cup snap[t]
         /\ pc[t] # "append" => ToSet(messages'[b]) \subseteq ToSet(messages[b])
<1>1. BufferTypes' /\ BufferTypes /\ ThreadTypes /\ SnapshotOf(t) /\ ListStep(t)
  BY Actor DEF Seen, ServeInv, TypeInv
<1>2. CASE b = buf[t]
  <2>1. SetsMove(t, b)
    BY <1>1, <1>2, SetsMoved
  <2>2. ToSet(messages'[b]) = Below(b)' \cup Incremental(b)'
    BY <1>1, HalvesOf DEF BufferTypes, Below, Incremental
  <2>3. ToSet(messages[b]) = Below(b) \cup Incremental(b)
    BY <1>1, Halves
  <2>4. /\ Incremental(b)' \subseteq Incremental(b) \cup snap[t]
        /\ pc[t] # "append" => Incremental(b)' \subseteq Incremental(b)
        /\ Below(b)' \subseteq Below(b) \cup Incremental(b)
    BY <2>1 DEF SetsMove
  <2> QED BY <2>2, <2>3, <2>4
<1>3. CASE b # buf[t]
  <2>1. messages'[b] = messages[b]
    BY <1>1, <1>3, OtherLists
  <2> QED BY <2>1
<1> QED BY <1>2, <1>3

LEMMA KnownKept ==
  ASSUME SessionInv, NEW t \in Thread, Seen(t)
  PROVE  Known'
<1>1. /\ extracted \subseteq accepted /\ \A u \in Thread : snap[u] \subseteq accepted
      /\ \A b \in Buffer : ToSet(messages[b]) \subseteq accepted
  BY DEF SessionInv, Known
<1>2. accepted \subseteq accepted' /\ extracted' \subseteq extracted \cup snap[t]
  BY DEF Seen, HistoryStep
<1>3. snap'[t] \subseteq accepted'
  <2>1. CASE accepted' = accepted
    BY <1>1, <2>1 DEF Seen, SnapshotStep
  <2>2. CASE accepted' # accepted
    BY <2>2 DEF Seen, HistoryStep
  <2> QED BY <2>1, <2>2
<1>4. ASSUME NEW b \in Buffer PROVE ToSet(messages'[b]) \subseteq accepted'
  BY <1>1, <1>2, ListGrows
<1>5. ASSUME NEW u \in Thread PROVE snap'[u] \subseteq accepted'
  BY <1>1, <1>2, <1>3, OthersSeen
<1> QED BY <1>1, <1>2, <1>4, <1>5 DEF Known

LEMMA HiddenKept ==
  ASSUME SessionInv, NEW t \in Thread, Seen(t)
  PROVE  HiddenSafe'
<1> SUFFICES ASSUME NEW m \in Hidden', m \in Extractable, m \notin extracted'
             PROVE  \E u \in Thread : Running(u)' /\ m \in snap'[u]
  BY DEF HiddenSafe
<1>1. extracted \subseteq extracted'
  BY DEF Seen, HistoryStep
<1>2. CASE m \in Hidden
  <2>1. PICK u \in Thread : Running(u) /\ m \in snap[u]
    BY <1>1, <1>2 DEF SessionInv, HiddenSafe
  <2>2. CASE u = t
    BY <2>1, <2>2 DEF Seen, SnapshotStep
  <2>3. CASE u # t
    BY <2>1, <2>3, OthersSeen
  <2> QED BY <2>2, <2>3
<1>3. CASE m \notin Hidden
  <2>1. pc[t] \in {"mark", "remark"} /\ m \in Pending
    BY <1>3 DEF Seen, LiveSets
  <2>2. m \in snap[t]
    BY <2>1, Actor DEF CoveredBy
  <2> QED BY <2>1, <2>2 DEF Seen, SnapshotStep
<1> QED BY <1>2, <1>3

LEMMA DroppedKept ==
  ASSUME SessionInv, NEW t \in Thread, Seen(t)
  PROVE  NothingDropped'
<1> SUFFICES ASSUME NEW m \in accepted', m \in Extractable,
                    m \notin archived' \cup extracted' \cup discarded',
                    \A u \in Thread : m \notin snap'[u]
             PROVE  m \in Buffered'
  BY DEF NothingDropped
<1>1. extracted \subseteq extracted' /\ archived \subseteq archived' /\ discarded \subseteq discarded'
  BY DEF Seen, HistoryStep
<1>2. m \in accepted
  BY DEF Seen, HistoryStep
<1>3. \A u \in Thread \ {t} : m \notin snap[u]
  BY OthersSeen
<1>4. pc[t] # "append" => m \notin snap[t]
  BY DEF Seen, SnapshotStep
<1>5. CASE m \in snap[t]
  BY <1>4, <1>5 DEF Seen, LiveSets
<1>6. CASE m \notin snap[t]
  <2>1. m \in Buffered
    BY <1>1, <1>2, <1>3, <1>6 DEF SessionInv, NothingDropped
  <2>2. CASE pc[t] # "drop"
    BY <1>6, <2>1, <2>2 DEF Seen, LiveSets
  <2>3. CASE pc[t] = "drop"
    <3>1. m \notin Pending
      BY <1>1, <1>6, <2>3, Actor DEF CoveredBy
    <3>2. m \in Hidden
      BY <2>1, <3>1 DEF Seen, LiveSets
    <3>3. PICK u \in Thread : Running(u) /\ m \in snap[u]
      BY <1>1, <3>2 DEF SessionInv, HiddenSafe
    <3> QED BY <1>3, <1>6, <3>3
  <2> QED BY <2>2, <2>3
<1> QED BY <1>5, <1>6

\* What the thread claims after its step: what it has claimed before, what was
\* above the watermark, or a message that has just arrived.
ClaimKinds(t) ==
  \/ /\ Claims(t)' \subseteq Claims(t) /\ pc'[t] # "append"
     /\ pc[t] \in {"append", "extract"} => Claims(t)' = {}
     /\ Claims(t)' # {} => (Ahead(t)' <=> Ahead(t)) \/ pc[t] \in {"mark", "drop"}
  \/ /\ Claims(t)' \subseteq Pending /\ Claims(t)' \subseteq Pending /\ pc'[t] # "append"
     /\ pc[t] \in {"turn", "prepare", "wait", "woken"} /\ (Ahead(t)' \/ Claims(t)' = {})
  \/ pc[t] = "turn" /\ pc'[t] = "append" /\ Claims(t)' \cap accepted = {}

LEMMA ClaimsKinds ==
  ASSUME SessionInv, NEW t \in Thread, Seen(t)
  PROVE  ClaimKinds(t)
<1>1. CASE /\ Claims(t)' \subseteq Claims(t) /\ pc'[t] # "append"
           /\ pc[t] \in {"append", "extract"} => Claims(t)' = {}
           /\ Claims(t)' # {} => (Ahead(t)' <=> Ahead(t)) \/ pc[t] \in {"mark", "drop"}
  BY <1>1 DEF ClaimKinds
<1>2. CASE /\ Takes(t) /\ (pc'[t] # "remark" => Ahead(t)' \/ snap'[t] = {})
           /\ pc'[t] = "remark" => job'[t] # "fallback" /\ Claims(t)' = {}
           /\ pc'[t] # "append"
  <2>1. PICK b \in Buffer : b = live'
    BY <1>2 DEF Takes
  <2>2. snap'[t] = Incremental(b)
    BY <1>2, <2>1 DEF Takes
  <2>3. Claims(t)' \subseteq snap'[t]
    BY DEF Claims
  <2>4. Incremental(b) \subseteq Pending
    <3>1. CASE live = live'
      BY <2>1, <3>1, LimitAssumption DEF Pending, Incremental, Buffer
    <3>2. CASE live # live'
      <4>1. b > made
        BY <2>1, <3>2, LimitAssumption DEF Seen, LiveMoves, Buffer
      <4>2. Incremental(b) = {}
        BY <4>1 DEF SessionInv, Unmade, Incremental
      <4> QED BY <4>2
    <3> QED BY <3>1, <3>2
  <2> QED BY <1>2, <2>2, <2>3, <2>4 DEF ClaimKinds, Takes
<1>3. CASE pc[t] = "turn" /\ pc'[t] = "append" /\ snap'[t] \cap accepted = {}
  BY <1>3 DEF ClaimKinds, Claims
<1> QED BY <1>1, <1>2, <1>3 DEF Seen, ClaimStep

LEMMA ApartKept ==
  ASSUME SessionInv, NEW t \in Thread, Seen(t)
  PROVE  Apart'
<1>1. /\ \A u \in Thread : Claims(u) \cap extracted = {}
      /\ \A u, v \in Thread : u # v => Claims(u) \cap Claims(v) = {}
      /\ \A u \in Thread : ~Ahead(u) => Claims(u) \cap Pending = {}
      /\ \A u \in Thread : Claims(u) \subseteq snap[u]
  BY DEF SessionInv, Apart, Claims
<1>2. /\ extracted \subseteq accepted /\ \A u \in Thread : snap[u] \subseteq accepted
      /\ \A b \in Buffer : ToSet(messages[b]) \subseteq accepted
      /\ Pending \subseteq accepted
  <2>1. Known /\ BufferTypes
    BY Actor DEF SessionInv
  <2>2. live # 0 => live \in Buffer
    BY LimitAssumption DEF SessionInv, ServeInv, TypeInv, OtherTypes, Buffer
  <2>3. Pending \subseteq accepted
    BY <2>1, <2>2, IncrementalTyped DEF Known, Pending
  <2> QED BY <2>1, <2>3 DEF Known
<1>3. ClaimKinds(t) /\ ClaimStep(t) /\ LiveSets(t)
  BY ClaimsKinds DEF Seen
<1>4. /\ pc[t] = "extract" => extracted' = extracted \cup Claims(t)
      /\ pc[t] # "extract" => extracted' = extracted
      /\ pc[t] = "append" => Pending' \subseteq Pending \cup Claims(t)
      /\ pc[t] # "append" => Pending' \subseteq Pending
  BY <1>3 DEF Seen, HistoryStep, LiveSets, Claims
\* While t takes messages from the buffer nobody else has them.
<1>5. ASSUME pc[t] \in {"turn", "prepare", "wait", "woken"}
      PROVE  Pending \cap extracted = {} /\ \A u \in Thread \ {t} : Claims(u) \cap Pending = {}
  <2>1. Serving(t)
    BY <1>5, Actor
  <2>2. ASSUME NEW u \in Thread \ {t} PROVE ~Ahead(u) /\ (pc[u] = "remark" => job[u] = "fallback")
    BY <2>1, OthersSeen DEF Ahead, OnStep, Serving
  <2>3. \A u \in Thread : pc[u] = "remark" => job[u] = "fallback"
    BY <1>5, <2>2
  <2> QED BY <1>1, <2>2, <2>3 DEF SessionInv, Apart
<1>6. ASSUME NEW u \in Thread PROVE Claims(u)' \cap extracted' = {}
  <2>1. CASE u = t
    <3>1. CASE Claims(t)' \subseteq Claims(t) /\ (pc[t] = "extract" => Claims(t)' = {})
      BY <1>1, <1>4, <2>1, <3>1
    <3>2. CASE Claims(t)' \subseteq Pending /\ pc[t] \in {"turn", "prepare", "wait", "woken"}
      BY <1>4, <1>5, <2>1, <3>2
    <3>3. CASE pc[t] = "turn" /\ Claims(t)' \cap accepted = {}
      BY <1>2, <1>4, <2>1, <3>3
    <3> QED BY <1>3, <3>1, <3>2, <3>3 DEF ClaimKinds
  <2>2. CASE u # t
    BY <1>1, <1>4, <2>2, OthersSeen
  <2> QED BY <2>1, <2>2
<1>7. ASSUME NEW u \in Thread \ {t} PROVE Claims(u)' \cap Claims(t)' = {}
  <2>1. Claims(u)' = Claims(u) /\ Claims(u) \cap Claims(t) = {} /\ Claims(u) \subseteq accepted
    BY <1>1, <1>2, OthersSeen
  <2>2. CASE Claims(t)' \subseteq Claims(t)
    BY <2>1, <2>2
  <2>3. CASE Claims(t)' \subseteq Pending /\ pc[t] \in {"turn", "prepare", "wait", "woken"}
    BY <1>5, <2>1, <2>3
  <2>4. CASE Claims(t)' \cap accepted = {}
    BY <2>1, <2>4
  <2> QED BY <1>3, <2>2, <2>3, <2>4 DEF ClaimKinds
<1>8. ASSUME NEW u \in Thread, NEW v \in Thread, u # v PROVE Claims(u)' \cap Claims(v)' = {}
  <2>1. CASE u = t \/ v = t
    BY <1>7, <1>8, <2>1
  <2>2. CASE u # t /\ v # t
    BY <1>1, <1>8, <2>2, OthersSeen
  <2> QED BY <2>1, <2>2
<1>9. ASSUME NEW u \in Thread, pc'[u] = "append", NEW b \in Buffer
      PROVE  Claims(u)' \cap ToSet(messages'[b]) = {}
  <2>1. CASE u = t
    <3>1. pc[t] = "turn" /\ Claims(t)' \cap accepted = {}
      BY <1>3, <1>9, <2>1 DEF ClaimKinds
    <3>2. messages' = messages
      BY <3>1 DEF Seen, ListStep
    <3> QED BY <1>2, <2>1, <3>1, <3>2
  <2>2. CASE u # t
    <3>1. pc[u] = "append" /\ Claims(u)' = Claims(u) /\ Serving(u) /\ ~Serving(t)
      BY <1>9, <2>2, OthersSeen, Actor
    <3>2. pc[t] # "append"
      BY <3>1, Actor
    <3>3. Claims(u) \cap ToSet(messages[b]) = {}
      BY <3>1 DEF SessionInv, Apart
    <3>4. ToSet(messages'[b]) \subseteq ToSet(messages[b])
      BY <3>2, ListGrows
    <3> QED BY <3>1, <3>3, <3>4
  <2> QED BY <2>1, <2>2
<1>10. ASSUME NEW u \in Thread, ~Ahead(u)' PROVE Claims(u)' \cap Pending' = {}
  <2>1. CASE u = t
    <3>1. CASE /\ Claims(t)' \subseteq Claims(t)
               /\ pc[t] \in {"append", "extract"} => Claims(t)' = {}
               /\ Claims(t)' # {} => (Ahead(t)' <=> Ahead(t)) \/ pc[t] \in {"mark", "drop"}
      <4>1. CASE pc[t] \in {"mark", "drop"}
        BY <1>3, <2>1, <4>1 DEF LiveSets
      <4>2. CASE pc[t] \notin {"mark", "drop"}
        BY <1>1, <1>4, <1>10, <2>1, <3>1, <4>2
      <4> QED BY <4>1, <4>2
    <3>2. CASE Claims(t)' \subseteq Pending /\ (Ahead(t)' \/ Claims(t)' = {})
      BY <1>10, <2>1, <3>2
    <3>3. CASE pc[t] = "turn" /\ Claims(t)' \cap accepted = {}
      BY <1>2, <1>4, <2>1, <3>3
    <3> QED BY <1>3, <3>1, <3>2, <3>3 DEF ClaimKinds
  <2>2. CASE u # t
    <3>1. Claims(u)' = Claims(u) /\ ~Ahead(u)
      BY <1>10, <2>2, OthersSeen
    <3> QED BY <1>1, <1>4, <2>2, <3>1
  <2> QED BY <2>1, <2>2
<1>11. ASSUME \A u \in Thread : pc'[u] = "remark" => job'[u] = "fallback"
       PROVE  Pending' \cap extracted' = {}
  <2>1. CASE pc[t] = "remark"
    BY <1>3, <2>1 DEF LiveSets
  <2>2. CASE pc[t] # "remark"
    <3>1. ASSUME NEW u \in Thread, pc[u] = "remark" PROVE job[u] = "fallback"
      BY <1>11, <2>2, <3>1, OthersSeen
    <3>2. Pending \cap extracted = {}
      BY <3>1 DEF SessionInv, Apart
    <3>3. pc[t] = "extract" => ~Ahead(t)
      BY <1>3, <1>11 DEF ClaimStep, Takes
    <3>4. CASE pc[t] = "extract"
      BY <1>1, <1>4, <3>2, <3>3, <3>4
    <3>5. CASE pc[t] # "extract"
      BY <1>1, <1>4, <3>2, <3>5
    <3> QED BY <3>4, <3>5
  <2> QED BY <2>1, <2>2
<1> QED BY <1>6, <1>8, <1>9, <1>10, <1>11 DEF Apart

LEMMA SessionMoves ==
  ASSUME SessionInv, Serial, ~Preempt, MaxFailures = 0, NEW t \in Thread, Step(t)
  PROVE  SessionInv'
<1>1. Seen(t)
  BY StepSeen
<1>2. ServeInv' /\ failures' = 0
  BY <1>1 DEF Seen, HistoryStep
<1>3. Unmade'
  <2> SUFFICES ASSUME NEW b \in Buffer, b > made' PROVE messages'[b] = <<>> /\ mark'[b] = 0
    BY DEF Unmade
  <2>1. b > made /\ b # buf[t]
    <3>1. /\ made \in Nat /\ made' \in Nat /\ b \in Nat /\ buf[t] \in Nat
          /\ buf[t] <= made /\ made <= made'
      BY <1>1, Actor DEF Seen, ServeInv, TypeInv, OtherTypes, Buffer
    <3> QED BY <3>1
  <2>2. messages'[b] = messages[b] /\ mark'[b] = mark[b]
    BY <1>1, <2>1, Actor, OtherLists DEF Seen
  <2> QED BY <2>1, <2>2 DEF SessionInv, Unmade
<1>4. ASSUME NEW u \in Thread PROVE SnapshotOf(u)'
  <2>1. CASE u = t
    BY <1>1, <2>1 DEF Seen
  <2>2. CASE u # t
    <3>1. /\ snap'[u] = snap[u] /\ SnapshotOf(u)
          /\ pc'[u] = pc[u] \/ (pc[u] = "wait" /\ pc'[u] = "woken")
      BY <1>1, <2>2, OthersSeen
    <3>2. pc[u] \notin {"assign", "copy", "clear"}
      BY <2>2, Alone
    <3>3. extracted \subseteq extracted'
      BY <1>1 DEF Seen, HistoryStep
    <3> QED BY <3>1, <3>2, <3>3 DEF SnapshotOf
  <2> QED BY <2>1, <2>2
<1>5. ASSUME NEW u \in Thread PROVE CoveredBy(u)'
  <2>1. CASE u = t
    BY <1>1, <2>1 DEF Seen
  <2>2. CASE u # t
    <3>1. /\ snap'[u] = snap[u] /\ CoveredBy(u) /\ OnStep(job[u], pc[u])
          /\ pc'[u] = pc[u] \/ (pc[u] = "wait" /\ pc'[u] = "woken")
          /\ Serving(u)' <=> Serving(u)
          /\ Serving(t) => ~Serving(u)
      BY <1>1, <2>2, OthersSeen
    <3>2. CASE Serving(u)
      <4>1. Pending' \subseteq Pending
        BY <1>1, <3>1, <3>2, Actor DEF Seen, LiveSets
      <4>2. discarded \subseteq discarded'
        BY <1>1 DEF Seen, HistoryStep
      <4> QED BY <3>1, <4>1, <4>2 DEF CoveredBy
    <3>3. CASE ~Serving(u)
      <4>1. pc'[u] # "drop"
        BY <3>1, <3>3 DEF OnStep, Serving
      <4> QED BY <3>1, <3>3, <4>1 DEF CoveredBy
    <3> QED BY <3>2, <3>3
  <2> QED BY <2>1, <2>2
<1>6. Known' /\ Apart' /\ HiddenSafe' /\ NothingDropped'
  BY <1>1, KnownKept, ApartKept, HiddenKept, DroppedKept
<1> QED BY <1>2, <1>3, <1>4, <1>5, <1>6 DEF SessionInv

LEMMA SessionStarts == Init => SessionInv
<1> SUFFICES ASSUME Init PROVE SessionInv
  OBVIOUS
<1>1. ServeInv
  BY TypesStart DEF ServeInv, Init, OneServed, ServesLive, DisposeAwake, Serving
<1>2. /\ live = 0 /\ failures = 0 /\ accepted = {} /\ extracted = {} /\ discarded = {}
      /\ \A b \in Buffer : messages[b] = <<>> /\ mark[b] = 0
      /\ \A t \in Thread : pc[t] = "idle" /\ snap[t] = {}
  BY DEF Init
<1>3. ASSUME NEW b \in Buffer PROVE ToSet(messages[b]) = {}
  <2>1. DOMAIN messages[b] = {}
    BY <1>2
  <2> QED BY <2>1 DEF ToSet
<1>4. Unmade /\ \A t \in Thread : SnapshotOf(t) /\ CoveredBy(t)
  BY <1>2 DEF Unmade, SnapshotOf, CoveredBy
<1>5. Known
  BY <1>2, <1>3 DEF Known
<1>6. Apart
  BY <1>2 DEF Apart, Claims, Pending
<1>7. HiddenSafe /\ NothingDropped
  BY <1>2 DEF HiddenSafe, Hidden, NothingDropped
<1> QED BY <1>1, <1>2, <1>4, <1>5, <1>6, <1>7 DEF SessionInv

LEMMA SessionStays == SessionInv /\ UNCHANGED vars => SessionInv'
<1> SUFFICES ASSUME SessionInv, UNCHANGED vars PROVE SessionInv'
  OBVIOUS
<1> USE DEF vars, bufVars, thrVars, histVars
<1>1. ServeInv' /\ failures' = 0
  BY ServingStays DEF SessionInv
<1>2. Pending' = Pending /\ Hidden' = Hidden /\ Buffered' = Buffered
  BY DEF Pending, Hidden, Buffered, Incremental, Below
<1>3. Unmade' /\ \A t \in Thread : SnapshotOf(t)' /\ CoveredBy(t)'
  BY <1>2 DEF SessionInv, Unmade, SnapshotOf, CoveredBy, Serving
<1>4. Known' /\ HiddenSafe' /\ NothingDropped'
  BY <1>2 DEF SessionInv, Known, HiddenSafe, NothingDropped, Running
<1>5. Apart'
  BY <1>2 DEF SessionInv, Apart, Claims, Ahead
<1> QED BY <1>1, <1>3, <1>4, <1>5 DEF SessionInv

LEMMA SessionInductive ==
  ASSUME Serial, ~Preempt, MaxFailures = 0 PROVE Spec => []SessionInv
<1>1. SessionInv /\ [Next]_vars => SessionInv'
  BY SessionMoves, SessionStays DEF Next, Step
<1> QED BY <1>1, SessionStarts, PTL DEF Spec

\* No message is lost between the buffer, the archive and the extraction, in
\* whatever order requests and background threads take their steps
\* (session_manager.py, memory_service.py after_turn, compact and dispose), if
\* clients await their answers, the buffer's methods are not interrupted and the
\* extractions succeed.
THEOREM SessionKeepsMessages ==
  ASSUME Serial, ~Preempt, MaxFailures = 0 PROVE Spec => []NothingDropped
<1>1. SessionInv => NothingDropped
  BY DEF SessionInv
<1> QED BY <1>1, SessionInductive, PTL

\* What lies below the watermark has been extracted or is being extracted, under
\* the same conditions, so that advancing the watermark before the extraction
\* (memory_service.py, after_turn) hides nothing.
THEOREM SessionMarkSound ==
  ASSUME Serial, ~Preempt, MaxFailures = 0 PROVE Spec => []WatermarkSound
<1>1. SessionInv => WatermarkSound
  <2> SUFFICES ASSUME SessionInv, live # 0, NEW i \in 1..mark[live],
                      messages[live][i] \notin extracted, messages[live][i] \in Extractable
               PROVE  \E t \in Thread : Running(t) /\ messages[live][i] \in snap[t]
    BY DEF WatermarkSound
  <2>1. messages[live][i] \in Hidden
    BY DEF Hidden, Below
  <2> QED BY <2>1 DEF SessionInv, HiddenSafe
<1> QED BY <1>1, SessionInductive, PTL

\* No message reaches two extractions, under the same conditions: overlapping
\* threads remove what they archived from a list that has changed, and the
\* watermark stays where it belongs (remove_messages_by_id).
THEOREM SessionExtractsOnce ==
  ASSUME Serial, ~Preempt, MaxFailures = 0 PROVE Spec => []ExtractedOnce
<1>1. SessionInv => ExtractedOnce
  BY DEF SessionInv, Apart, Claims, ExtractedOnce, At
<1> QED BY <1>1, SessionInductive, PTL
=============================================================================
