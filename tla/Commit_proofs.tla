--------------------------- MODULE Commit_proofs ----------------------------
(***************************************************************************)
(* Theorems of the way of a memory from a session to a search: ReActLoop,  *)
(* for any nodes and any limit of iterations; Extraction, for any finite   *)
(* set of spans, any spans with equal prompts and any size of the pool;    *)
(* CandidateRouting, for any answers of the LLM, sessions, schemas, slugs  *)
(* and synonyms; DirectoryDag, for any finite tree; TreeSearch, for any    *)
(* finite tree, similarities and bounds; CodeSearch, for any snippets,     *)
(* relations, requests and limits.                                         *)
(***************************************************************************)
EXTENDS ReActLoop, Extraction, CandidateRouting, DirectoryDag, TreeSearch,
        CodeSearch, SequenceTheorems, FiniteSetTheorems, WellFoundedInduction, TLAPS

(***************************************************************************)
(* The loop that asks the model.                                           *)
(***************************************************************************)

(***************************************************************************)
(* Every variable of the loop keeps its type, and what the LLM was shown   *)
(* or could not be shown exists in the store.                              *)
(***************************************************************************)
THEOREM LoopTypes == LoopSpec => []LoopTypeOK
<1>1. LoopInit => LoopTypeOK
  <2> SUFFICES ASSUME LoopInit PROVE LoopTypeOK
    OBVIOUS
  <2>1. PICK prefetched \in SUBSET existing : read = prefetched /\ shown = prefetched
    BY DEF LoopInit
  <2>2. MaxIterations \in Nat /\ existing \subseteq Node
    BY LoopAssumption DEF LoopInit
  <2> QED
    BY <2>1, <2>2 DEF LoopInit, LoopTypeOK
<1>2. LoopTypeOK /\ [LoopNext]_loopVars => LoopTypeOK'
  <2> SUFFICES ASSUME LoopTypeOK, [LoopNext]_loopVars PROVE LoopTypeOK'
    OBVIOUS
  <2> USE DEF LoopTypeOK
  <2>1. CASE Iterate
    BY <2>1 DEF Iterate
  <2>2. CASE ToolCalls
    <3>1. PICK uris \in SUBSET Node, off \in BOOLEAN, failing \in SUBSET existing :
             /\ read' = read \cup uris
             /\ shown' = shown \cup ((uris \cap existing) \ failing)
             /\ unreadable' = unreadable \cup failing
             /\ ExtendForTools(off)
      BY <2>2 DEF ToolCalls
    <3>2. toolsOff' \in BOOLEAN /\ limit' \in Nat
      BY <3>1 DEF ExtendForTools
    <3>3. read' \subseteq Node /\ shown' \subseteq existing /\ unreadable' \subseteq existing
      BY <3>1
    <3>4. /\ UNCHANGED <<existing, iteration, reread, answer>>
          /\ timedOut' \in BOOLEAN /\ step' = "top"
      BY <2>2 DEF ToolCalls
    <3> QED
      BY <3>2, <3>3, <3>4
  <2>3. CASE Answer
    BY <2>3 DEF Answer
  <2>4. CASE NoAnswer
    BY <2>4 DEF NoAnswer
  <2>5. CASE Accept
    BY <2>5 DEF Accept
  <2>6. CASE Refetch
    <3>1. Unread \subseteq existing
      BY DEF Unread
    <3> QED
      BY <2>6, <3>1 DEF Refetch
  <2>7. CASE CheckFails
    BY <2>7 DEF CheckFails
  <2>8. CASE Eager
    BY <2>8 DEF Eager
  <2>9. CASE UNCHANGED loopVars
    BY <2>9 DEF loopVars
  <2> QED
    BY <2>1, <2>2, <2>3, <2>4, <2>5, <2>6, <2>7, <2>8, <2>9 DEF LoopNext
<1> QED
  BY <1>1, <1>2, PTL DEF LoopSpec
-----------------------------------------------------------------------------
(***************************************************************************)
(* The limit is extended once when tools are switched off and once for the *)
(* reread: each extension leaves its mark in a flag that is never reset,   *)
(* and excludes another.  BoundedLoop alone is not inductive, for it does  *)
(* not say that an extension can no longer be had.                         *)
(***************************************************************************)
Extensions == (IF toolsOff THEN 1 ELSE 0) + (IF reread THEN 1 ELSE 0)

LimitCounted ==
    /\ iteration <= limit
    /\ limit <= MaxIterations + Extensions

(***************************************************************************)
(* The LLM is asked at most max_iterations + 2 times, whatever it answers. *)
(***************************************************************************)
THEOREM LoopEnds == LoopSpec => []BoundedLoop
<1> USE LoopAssumption
<1>1. LoopInit => LimitCounted
  BY DEF LoopInit, LimitCounted, Extensions
<1>2. LoopTypeOK /\ LimitCounted /\ [LoopNext]_loopVars => LimitCounted'
  <2> SUFFICES ASSUME LoopTypeOK, LimitCounted, [LoopNext]_loopVars
               PROVE  LimitCounted'
    OBVIOUS
  <2> USE DEF LoopTypeOK, LimitCounted, Extensions
  <2>1. CASE Iterate
    BY <2>1 DEF Iterate
  <2>2. CASE ToolCalls
    <3>1. PICK off \in BOOLEAN : ExtendForTools(off)
      BY <2>2 DEF ToolCalls
    <3>2. ~toolsOff /\ UNCHANGED <<iteration, reread>>
      BY <2>2 DEF ToolCalls
    <3>3. CASE iteration >= limit
      <4>1. limit' = limit + 1 /\ toolsOff'
        BY <3>1, <3>3 DEF ExtendForTools
      <4> QED
        BY <3>2, <4>1
    <3>4. CASE ~(iteration >= limit)
      <4>1. limit' = limit
        BY <3>1, <3>4 DEF ExtendForTools
      <4> QED
        BY <3>2, <4>1
    <3> QED
      BY <3>3, <3>4
  <2>3. CASE Answer
    BY <2>3 DEF Answer
  <2>4. CASE NoAnswer
    BY <2>4 DEF NoAnswer
  <2>5. CASE Accept
    BY <2>5 DEF Accept
  <2>6. CASE Refetch
    <3>1. ~reread
      BY <2>6 DEF Refetch, Unread
    <3> QED
      BY <2>6, <3>1 DEF Refetch
  <2>7. CASE CheckFails
    BY <2>7 DEF CheckFails
  <2>8. CASE Eager
    BY <2>8 DEF Eager
  <2>9. CASE UNCHANGED loopVars
    BY <2>9 DEF loopVars
  <2> QED
    BY <2>1, <2>2, <2>3, <2>4, <2>5, <2>6, <2>7, <2>8, <2>9 DEF LoopNext
<1>3. LoopTypeOK /\ LimitCounted => BoundedLoop
  BY DEF LoopTypeOK, LimitCounted, Extensions, BoundedLoop
<1> QED
  BY <1>1, <1>2, <1>3, LoopTypes, PTL DEF LoopSpec
-----------------------------------------------------------------------------
(***************************************************************************)
(* What counts as read and exists was shown, or could not be read: this    *)
(* gives the check of an answer its meaning.                               *)
(***************************************************************************)
ReadWasShown ==
    /\ read \cap existing \subseteq shown \cup unreadable
    /\ step = "done" /\ ~reread => answer \cap existing \subseteq AddOnly \cup read

\* An answer waits in the variable only while it is checked.
NothingPending == step \in {"top", "ask"} => answer = {}

(***************************************************************************)
(* The loop returns no answer that writes to an existing node the LLM was  *)
(* not shown, the one reread unspent.                                      *)
(***************************************************************************)
THEOREM AnswersInformed == LoopSpec => []AnswerWasRead
<1>1. LoopInit => ReadWasShown /\ NothingPending
  BY DEF LoopInit, ReadWasShown, NothingPending
<1>2. /\ LoopTypeOK /\ ReadWasShown /\ NothingPending
      /\ [LoopNext]_loopVars
      => ReadWasShown' /\ NothingPending'
  <2> SUFFICES ASSUME LoopTypeOK, ReadWasShown, NothingPending, [LoopNext]_loopVars
               PROVE  ReadWasShown' /\ NothingPending'
    OBVIOUS
  <2> USE DEF LoopTypeOK, ReadWasShown, NothingPending
  <2>1. CASE Iterate
    BY <2>1 DEF Iterate
  <2>2. CASE ToolCalls
    <3>1. PICK uris \in SUBSET Node, failing \in SUBSET existing :
             /\ read' = read \cup uris
             /\ shown' = shown \cup ((uris \cap existing) \ failing)
             /\ unreadable' = unreadable \cup failing
      BY <2>2 DEF ToolCalls
    <3> QED
      BY <2>2, <3>1 DEF ToolCalls
  <2>3. CASE Answer
    BY <2>3 DEF Answer
  <2>4. CASE NoAnswer
    BY <2>4 DEF NoAnswer
  <2>5. CASE Accept
    <3>1. ~reread => (answer \cap existing) \subseteq AddOnly \cup read
      BY <2>5 DEF Accept, Unread
    <3> QED
      BY <2>5, <3>1 DEF Accept
  <2>6. CASE Refetch
    BY <2>6 DEF Refetch
  <2>7. CASE CheckFails
    BY <2>7 DEF CheckFails
  <2>8. CASE Eager
    BY <2>8 DEF Eager
  <2>9. CASE UNCHANGED loopVars
    BY <2>9 DEF loopVars
  <2> QED
    BY <2>1, <2>2, <2>3, <2>4, <2>5, <2>6, <2>7, <2>8, <2>9 DEF LoopNext
<1>3. ReadWasShown => AnswerWasRead
  BY DEF ReadWasShown, AnswerWasRead
<1> QED
  BY <1>1, <1>2, <1>3, LoopTypes, PTL DEF LoopSpec

(***************************************************************************)
(* The spans of a conversation.                                            *)
(***************************************************************************)

(***************************************************************************)
(* What a request's state says of the caller: nothing was asked before the *)
(* requests are prepared, only prepared spans are asked about, what the    *)
(* caller has was answered, and candidates are there only at the end.      *)
(***************************************************************************)
Requests ==
    /\ phase \in {"identify", "prepare"} =>
          unique = {} /\ \A s \in Span : task[s] = "none"
    /\ \A s \in Span : task[s] # "none" => s \in unique
    /\ \A s \in collected : task[s] \in Found
    /\ phase # "return" => candidates = {}

(***************************************************************************)
(* Every variable keeps its type, and what is saved was a candidate, what  *)
(* is a candidate was collected, what was collected was asked about.       *)
(***************************************************************************)
THEOREM ExtractionTypes == ExtractionSpec => [](ExtractionTypeOK /\ Requests)
<1>1. ExtractionInit => ExtractionTypeOK /\ Requests
  BY DEF ExtractionInit, ExtractionTypeOK, Requests, Found
<1>2. /\ ExtractionTypeOK /\ Requests /\ [ExtractionNext]_extractionVars
      => ExtractionTypeOK' /\ Requests'
  <2> SUFFICES ASSUME ExtractionTypeOK, Requests, [ExtractionNext]_extractionVars
               PROVE  ExtractionTypeOK' /\ Requests'
    OBVIOUS
  <2> USE ExtractionAssumption DEF ExtractionTypeOK, Requests, Found
  <2>1. CASE Identify
    BY <2>1 DEF Identify
  <2>2. CASE IdentifyFails
    BY <2>2 DEF IdentifyFails
  <2>3. CASE Prepare
    BY <2>3 DEF Prepare
  <2>4. CASE Unwind
    BY <2>4 DEF Unwind
  <2>5. CASE Extracted
    BY <2>5 DEF Extracted
  <2>6. ASSUME NEW s \in Span, StartRequest(s)
        PROVE  ExtractionTypeOK' /\ Requests'
    BY <2>6 DEF StartRequest
  <2>7. ASSUME NEW s \in Span, EndRequest(s)
        PROVE  ExtractionTypeOK' /\ Requests'
    BY <2>7 DEF EndRequest
  <2>8. ASSUME NEW s \in Span, Collect(s)
        PROVE  ExtractionTypeOK' /\ Requests'
    BY <2>8 DEF Collect
  <2>9. ASSUME NEW s \in Span, CollectRaised(s)
        PROVE  ExtractionTypeOK' /\ Requests'
    BY <2>9 DEF CollectRaised
  <2>10. ASSUME NEW s \in Span, WriteCandidate(s)
         PROVE  ExtractionTypeOK' /\ Requests'
    BY <2>10 DEF WriteCandidate
  <2>11. CASE UNCHANGED extractionVars
    BY <2>11 DEF extractionVars
  <2> QED
    BY <2>1, <2>2, <2>3, <2>4, <2>5, <2>6, <2>7, <2>8, <2>9, <2>10, <2>11
       DEF ExtractionNext
<1> QED
  BY <1>1, <1>2, PTL DEF ExtractionSpec
-----------------------------------------------------------------------------
(***************************************************************************)
(* Whether an extraction ends with candidates or with an exception, no     *)
(* request of its pool is left.                                            *)
(***************************************************************************)
THEOREM PoolEnds == ExtractionSpec => []NothingOutlives
<1>1. ExtractionInit => NothingOutlives
  BY DEF ExtractionInit, NothingOutlives
<1>2. /\ ExtractionTypeOK /\ Requests /\ NothingOutlives
      /\ [ExtractionNext]_extractionVars
      => NothingOutlives'
  <2> SUFFICES ASSUME ExtractionTypeOK, Requests, NothingOutlives,
                      [ExtractionNext]_extractionVars
               PROVE  NothingOutlives'
    OBVIOUS
  <2> USE DEF ExtractionTypeOK, Requests, NothingOutlives, Working, Found
  <2>1. CASE Identify
    BY <2>1 DEF Identify
  <2>2. CASE IdentifyFails
    BY <2>2 DEF IdentifyFails
  <2>3. CASE Prepare
    BY <2>3 DEF Prepare
  <2>4. CASE Unwind
    BY <2>4 DEF Unwind
  <2>5. CASE Extracted
    BY <2>5 DEF Extracted
  <2>6. ASSUME NEW s \in Span, StartRequest(s) PROVE NothingOutlives'
    BY <2>6 DEF StartRequest
  <2>7. ASSUME NEW s \in Span, EndRequest(s) PROVE NothingOutlives'
    BY <2>7 DEF EndRequest
  <2>8. ASSUME NEW s \in Span, Collect(s) PROVE NothingOutlives'
    BY <2>8 DEF Collect
  <2>9. ASSUME NEW s \in Span, CollectRaised(s) PROVE NothingOutlives'
    BY <2>9 DEF CollectRaised
  <2>10. ASSUME NEW s \in Span, WriteCandidate(s) PROVE NothingOutlives'
    BY <2>10 DEF WriteCandidate
  <2>11. CASE UNCHANGED extractionVars
    BY <2>11 DEF extractionVars
  <2> QED
    BY <2>1, <2>2, <2>3, <2>4, <2>5, <2>6, <2>7, <2>8, <2>9, <2>10, <2>11
       DEF ExtractionNext
<1> QED
  BY <1>1, <1>2, ExtractionTypes, PTL DEF ExtractionSpec
-----------------------------------------------------------------------------
\* While results are collected, every span of the first call is asked about,
\* itself or by one with the same prompt.
Represented ==
    phase = "collect" => \A s \in named : \E t \in unique : Same(s, t)

(***************************************************************************)
(* Dropping spans with equal prompts leaves one for each.                  *)
(***************************************************************************)
LEMMA PrepareRepresents == Prepare => Represented'
<1> SUFFICES ASSUME Prepare PROVE Represented'
  OBVIOUS
<1>1. PICK first \in SUBSET named :
         /\ \A s \in named : Cardinality({t \in first : Same(s, t)}) = 1
         /\ unique' = first
  BY DEF Prepare
<1>2. ASSUME NEW s \in named PROVE \E t \in first : Same(s, t)
  <2>1. {t \in first : Same(s, t)} # {}
    BY <1>1, FS_EmptySet
  <2> QED
    BY <2>1
<1>3. UNCHANGED named
  BY DEF Prepare
<1> QED
  BY <1>1, <1>2, <1>3 DEF Represented, Same

(***************************************************************************)
(* Candidates are written only when every span was answered.               *)
(***************************************************************************)
THEOREM WholeConversation == ExtractionSpec => []AllSpansOrNone
<1>1. ExtractionInit => Represented /\ AllSpansOrNone
  BY DEF ExtractionInit, Represented, AllSpansOrNone
<1>2. /\ ExtractionTypeOK /\ Requests /\ Represented /\ AllSpansOrNone
      /\ [ExtractionNext]_extractionVars
      => Represented' /\ AllSpansOrNone'
  <2> SUFFICES ASSUME ExtractionTypeOK, Requests, Represented, AllSpansOrNone,
                      [ExtractionNext]_extractionVars
               PROVE  Represented' /\ AllSpansOrNone'
    OBVIOUS
  <2> USE DEF ExtractionTypeOK, Requests, Represented, AllSpansOrNone, Found, Same
  <2>1. CASE Identify
    BY <2>1 DEF Identify
  <2>2. CASE IdentifyFails
    BY <2>2 DEF IdentifyFails
  <2>3. CASE Prepare
    BY <2>3, PrepareRepresents DEF Prepare
  <2>4. CASE Unwind
    BY <2>4 DEF Unwind
  <2>5. CASE Extracted
    BY <2>5 DEF Extracted
  <2>6. ASSUME NEW s \in Span, StartRequest(s)
        PROVE  Represented' /\ AllSpansOrNone'
    BY <2>6 DEF StartRequest
  <2>7. ASSUME NEW s \in Span, EndRequest(s)
        PROVE  Represented' /\ AllSpansOrNone'
    BY <2>7 DEF EndRequest
  <2>8. ASSUME NEW s \in Span, Collect(s)
        PROVE  Represented' /\ AllSpansOrNone'
    BY <2>8 DEF Collect
  <2>9. ASSUME NEW s \in Span, CollectRaised(s)
        PROVE  Represented' /\ AllSpansOrNone'
    BY <2>9 DEF CollectRaised
  <2>10. ASSUME NEW s \in Span, WriteCandidate(s)
         PROVE  Represented' /\ AllSpansOrNone'
    BY <2>10 DEF WriteCandidate
  <2>11. CASE UNCHANGED extractionVars
    BY <2>11 DEF extractionVars
  <2> QED
    BY <2>1, <2>2, <2>3, <2>4, <2>5, <2>6, <2>7, <2>8, <2>9, <2>10, <2>11
       DEF ExtractionNext
<1> QED
  BY <1>1, <1>2, ExtractionTypes, PTL DEF ExtractionSpec

-----------------------------------------------------------------------------
\* A set of natural numbers that is not empty has a least element.
LEMMA Smallest ==
  ASSUME NEW T \in SUBSET Nat, T # {}
  PROVE  \E x \in T : \A y \in T : x <= y
<1> DEFINE R == {ss \in Nat \X Nat : ss[1] < ss[2]}
<1>1. IsWellFoundedOn(R, Nat)
  BY NatLessThanWellFounded DEF OpToRel
<1> HIDE DEF R
<1>2. PICK x \in T : \A y \in T : ~ (<<y, x>> \in R)
  BY <1>1, WFMin
<1>3. ASSUME NEW y \in T PROVE x <= y
  <2>1. ~ (<<y, x>> \in R)
    BY <1>2
  <2> QED BY <2>1 DEF R
<1> QED BY <1>3

(***************************************************************************)
(* The recursive function behind Only: it is there, and each of its values *)
(* is a sequence of elements that pass.  Both by the smallest prefix for   *)
(* which it is not so.                                                     *)
(***************************************************************************)
FiltersUpTo(F, x, n, B) ==
    F = [i \in 0..n |-> IF i = 0 THEN <<>>
                        ELSE IF i \in B THEN Append(F[i - 1], x[i]) ELSE F[i - 1]]

LEMMA FilterDefined ==
  ASSUME NEW x, NEW n \in Nat, NEW B
  PROVE  \E F : FiltersUpTo(F, x, n, B)
<1> DEFINE Fits(F, m) == F = [i \in 0..m |-> IF i = 0 THEN <<>>
                                   ELSE IF i \in B THEN Append(F[i - 1], x[i]) ELSE F[i - 1]]
           T == {m \in Nat : ~ \E F : Fits(F, m)}
<1>1. SUFFICES ASSUME T # {} PROVE FALSE
  <2>1. n \notin T => \E F : Fits(F, n)
    OBVIOUS
  <2> QED BY <2>1 DEF FiltersUpTo
<1>2. PICK m \in T : \A k \in T : m <= k
  BY <1>1, Smallest
<1>3. m \in Nat /\ ~ \E F : Fits(F, m)
  OBVIOUS
<1>4. CASE m = 0
  <2> DEFINE F == [i \in 0..0 |-> <<>>]
  <2>1. F = [i \in 0..0 |-> IF i = 0 THEN <<>>
                           ELSE IF i \in B THEN Append(F[i - 1], x[i]) ELSE F[i - 1]]
    <3>1. \A i \in 0..0 : i = 0
      OBVIOUS
    <3> QED BY <3>1
  <2>2. Fits(F, m)
    BY <1>4, <2>1
  <2> QED BY <1>3, <2>2
<1>5. CASE m # 0
  <2>1. m - 1 \in Nat /\ m - 1 \notin T
    <3>1. m - 1 \in Nat /\ ~(m <= m - 1)
      BY <1>3, <1>5
    <3> HIDE DEF T
    <3> QED BY <1>2, <3>1
  <2>2. PICK F : Fits(F, m - 1)
    BY <2>1
  <2>3. PICK G : G = [i \in 0..m |-> IF i = m THEN (IF m \in B THEN Append(F[m - 1], x[m]) ELSE F[m - 1])
                                      ELSE F[i]]
    OBVIOUS
  <2>4. \A i \in 0..m : G[i] = IF i = 0 THEN <<>>
                              ELSE IF i \in B THEN Append(G[i - 1], x[i]) ELSE G[i - 1]
    <3> SUFFICES ASSUME NEW i \in 0..m
                 PROVE  G[i] = IF i = 0 THEN <<>>
                               ELSE IF i \in B THEN Append(G[i - 1], x[i]) ELSE G[i - 1]
      OBVIOUS
    <3>1. CASE i = m
      <4>1. m - 1 \in 0..m /\ m - 1 # m
        BY <1>3, <1>5
      <4>2. G[m - 1] = F[m - 1]
        BY <2>3, <4>1
      <4> QED BY <1>5, <2>3, <3>1, <4>2
    <3>2. CASE i # m
      <4>1. i \in 0..(m - 1)
        BY <1>3, <3>2
      <4>2. F[i] = IF i = 0 THEN <<>> ELSE IF i \in B THEN Append(F[i - 1], x[i]) ELSE F[i - 1]
        BY <2>2, <4>1
      <4>3. G[i] = F[i]
        BY <2>3, <3>2
      <4>4. i # 0 => G[i - 1] = F[i - 1]
        <5>1. i # 0 => i - 1 \in 0..m /\ i - 1 # m
          BY <1>3, <4>1
        <5> QED BY <2>3, <5>1
      <4> QED BY <4>2, <4>3, <4>4
    <3> QED BY <3>1, <3>2
  <2>5. Fits(G, m)
    BY <2>3, <2>4
  <2> QED BY <1>3, <2>5
<1> QED BY <1>4, <1>5

LEMMA FilterPasses ==
  ASSUME NEW x, NEW n \in Nat, NEW B \in SUBSET (1..n), NEW F, FiltersUpTo(F, x, n, B)
  PROVE  F[n] \in Seq({x[i] : i \in B})
<1> DEFINE S == {x[i] : i \in B}
           T == {m \in 0..n : F[m] \notin Seq(S)}
<1>1. SUFFICES ASSUME F[n] \notin Seq(S) PROVE FALSE
  OBVIOUS
<1>2. PICK m \in T : \A k \in T : m <= k
  <2>1. n \in T /\ T \in SUBSET Nat
    <3>1. n \in 0..n
      OBVIOUS
    <3> HIDE DEF S
    <3> QED BY <1>1, <3>1
  <2> HIDE DEF T
  <2> QED BY <2>1, Smallest
<1>3. m \in 0..n /\ F[m] \notin Seq(S)
  OBVIOUS
<1>4. F[m] = IF m = 0 THEN <<>> ELSE IF m \in B THEN Append(F[m - 1], x[m]) ELSE F[m - 1]
  BY <1>3 DEF FiltersUpTo
<1>5. CASE m = 0
  <2>1. <<>> \in Seq(S)
    OBVIOUS
  <2> QED BY <1>3, <1>4, <1>5, <2>1
<1>6. CASE m # 0
  <2>1. m - 1 \in 0..n /\ m - 1 \notin T
    <3>1. m - 1 \in 0..n /\ ~(m <= m - 1)
      BY <1>3, <1>6
    <3> HIDE DEF T
    <3> QED BY <1>2, <3>1
  <2>2. PICK before : before = F[m - 1] /\ before \in Seq(S)
    BY <2>1
  <2>3. m \in B => x[m] \in S
    OBVIOUS
  <2>4. m \in B => Append(before, x[m]) \in Seq(S)
    BY <2>2, <2>3, AppendProperties
  <2> QED BY <1>3, <1>4, <1>6, <2>2, <2>4
<1> QED BY <1>5, <1>6

IsSequence(o) == o \in Seq({o[i] : i \in DOMAIN o})

LEMMA Elements ==
  ASSUME NEW S, NEW o \in Seq(S)
  PROVE  /\ Len(o) \in Nat /\ DOMAIN o = 1..Len(o) /\ \A i \in DOMAIN o : o[i] \in S
         /\ IsSequence(o)
<1>1. Len(o) \in Nat /\ DOMAIN o = 1..Len(o) /\ \A i \in DOMAIN o : o[i] \in S
  OBVIOUS
<1>2. o = [i \in 1..Len(o) |-> o[i]]
  OBVIOUS
<1> DEFINE O == {o[i] : i \in DOMAIN o}
<1>3. \A i \in 1..Len(o) : o[i] \in O
  BY <1>1
<1> HIDE DEF O
<1>4. o \in Seq(O)
  BY <1>1, <1>2, <1>3
<1> QED BY <1>1, <1>4 DEF O, IsSequence

TheUnderstood(x) == Only(x, Understood)
TheAcceptable(x) == Only(x, Acceptable)
TheConfident(x) == Only(x, Confident)

LEMMA OnlyUnderstood ==
  ASSUME NEW x, Len(x) \in Nat, NEW o, o = TheUnderstood(x)
  PROVE  /\ Len(o) \in Nat /\ DOMAIN o = 1..Len(o) /\ IsSequence(o)
         /\ \A i \in DOMAIN o : \E j \in 1..Len(x) : o[i] = x[j] /\ Understood(x[j])
<1> DEFINE n == Len(x)
           B == {j \in 1..n : Understood(x[j])}
           F == CHOOSE F : F = [i \in 0..n |-> IF i = 0 THEN <<>>
                                ELSE IF Understood(x[i]) THEN Append(F[i - 1], x[i]) ELSE F[i - 1]]
<1>1. o = F[n]
  BY DEF Only, TheUnderstood
<1>2. PICK G : FiltersUpTo(G, x, n, B)
  <2> HIDE DEF n, B
  <2>1. n \in Nat
    BY DEF n
  <2> QED BY <2>1, FilterDefined
<1>3. \A i \in 0..n : i = 0 \/ (i \in B <=> Understood(x[i]))
  OBVIOUS
<1>4. G = [i \in 0..n |-> IF i = 0 THEN <<>>
                         ELSE IF Understood(x[i]) THEN Append(G[i - 1], x[i]) ELSE G[i - 1]]
  BY <1>2, <1>3 DEF FiltersUpTo
<1>5. F = [i \in 0..n |-> IF i = 0 THEN <<>>
                         ELSE IF Understood(x[i]) THEN Append(F[i - 1], x[i]) ELSE F[i - 1]]
  BY <1>4
<1>6. FiltersUpTo(F, x, n, B)
  BY <1>3, <1>5 DEF FiltersUpTo
<1> HIDE DEF F
<1>7. o \in Seq({x[i] : i \in B})
  BY <1>1, <1>6, FilterPasses
<1> DEFINE S == {x[i] : i \in B}
<1>8. /\ Len(o) \in Nat /\ DOMAIN o = 1..Len(o) /\ IsSequence(o)
      /\ \A i \in DOMAIN o : o[i] \in S
  <2> HIDE DEF B
  <2>1. o \in Seq(S)
    BY <1>7
  <2> HIDE DEF S
  <2> QED BY <2>1, Elements
<1> QED BY <1>8
LEMMA OnlyAcceptable ==
  ASSUME NEW x, Len(x) \in Nat, NEW o, o = TheAcceptable(x)
  PROVE  /\ Len(o) \in Nat /\ DOMAIN o = 1..Len(o) /\ IsSequence(o)
         /\ \A i \in DOMAIN o : \E j \in 1..Len(x) : o[i] = x[j] /\ Acceptable(x[j])
<1> DEFINE n == Len(x)
           B == {j \in 1..n : Acceptable(x[j])}
           F == CHOOSE F : F = [i \in 0..n |-> IF i = 0 THEN <<>>
                                ELSE IF Acceptable(x[i]) THEN Append(F[i - 1], x[i]) ELSE F[i - 1]]
<1>1. o = F[n]
  BY DEF Only, TheAcceptable
<1>2. PICK G : FiltersUpTo(G, x, n, B)
  <2> HIDE DEF n, B
  <2>1. n \in Nat
    BY DEF n
  <2> QED BY <2>1, FilterDefined
<1>3. \A i \in 0..n : i = 0 \/ (i \in B <=> Acceptable(x[i]))
  OBVIOUS
<1>4. G = [i \in 0..n |-> IF i = 0 THEN <<>>
                         ELSE IF Acceptable(x[i]) THEN Append(G[i - 1], x[i]) ELSE G[i - 1]]
  BY <1>2, <1>3 DEF FiltersUpTo
<1>5. F = [i \in 0..n |-> IF i = 0 THEN <<>>
                         ELSE IF Acceptable(x[i]) THEN Append(F[i - 1], x[i]) ELSE F[i - 1]]
  BY <1>4
<1>6. FiltersUpTo(F, x, n, B)
  BY <1>3, <1>5 DEF FiltersUpTo
<1> HIDE DEF F
<1>7. o \in Seq({x[i] : i \in B})
  BY <1>1, <1>6, FilterPasses
<1> DEFINE S == {x[i] : i \in B}
<1>8. /\ Len(o) \in Nat /\ DOMAIN o = 1..Len(o) /\ IsSequence(o)
      /\ \A i \in DOMAIN o : o[i] \in S
  <2> HIDE DEF B
  <2>1. o \in Seq(S)
    BY <1>7
  <2> HIDE DEF S
  <2> QED BY <2>1, Elements
<1> QED BY <1>8
LEMMA OnlyConfident ==
  ASSUME NEW x, Len(x) \in Nat, NEW o, o = TheConfident(x)
  PROVE  /\ Len(o) \in Nat /\ DOMAIN o = 1..Len(o) /\ IsSequence(o)
         /\ \A i \in DOMAIN o : \E j \in 1..Len(x) : o[i] = x[j] /\ Confident(x[j])
<1> DEFINE n == Len(x)
           B == {j \in 1..n : Confident(x[j])}
           F == CHOOSE F : F = [i \in 0..n |-> IF i = 0 THEN <<>>
                                ELSE IF Confident(x[i]) THEN Append(F[i - 1], x[i]) ELSE F[i - 1]]
<1>1. o = F[n]
  BY DEF Only, TheConfident
<1>2. PICK G : FiltersUpTo(G, x, n, B)
  <2> HIDE DEF n, B
  <2>1. n \in Nat
    BY DEF n
  <2> QED BY <2>1, FilterDefined
<1>3. \A i \in 0..n : i = 0 \/ (i \in B <=> Confident(x[i]))
  OBVIOUS
<1>4. G = [i \in 0..n |-> IF i = 0 THEN <<>>
                         ELSE IF Confident(x[i]) THEN Append(G[i - 1], x[i]) ELSE G[i - 1]]
  BY <1>2, <1>3 DEF FiltersUpTo
<1>5. F = [i \in 0..n |-> IF i = 0 THEN <<>>
                         ELSE IF Confident(x[i]) THEN Append(F[i - 1], x[i]) ELSE F[i - 1]]
  BY <1>4
<1>6. FiltersUpTo(F, x, n, B)
  BY <1>3, <1>5 DEF FiltersUpTo
<1> HIDE DEF F
<1>7. o \in Seq({x[i] : i \in B})
  BY <1>1, <1>6, FilterPasses
<1> DEFINE S == {x[i] : i \in B}
<1>8. /\ Len(o) \in Nat /\ DOMAIN o = 1..Len(o) /\ IsSequence(o)
      /\ \A i \in DOMAIN o : o[i] \in S
  <2> HIDE DEF B
  <2>1. o \in Seq(S)
    BY <1>7
  <2> HIDE DEF S
  <2> QED BY <2>1, Elements
<1> QED BY <1>8

(***************************************************************************)
(* Routing: what a candidate says about itself, and what was told of it.   *)
(***************************************************************************)
Fields == {"kind", "scope", "key", "sure", "speaker", "basis", "shape", "text"}

Sound(c, s) ==
    /\ DOMAIN c = Fields
    /\ c.kind = "profile" => Own(c)
    /\ c.scope \in {"user", "agent"}
    /\ c.text = <<s, c.text[2]>>

WorkSound(w, s) ==
    /\ w \in [left : {w.left}, extracted : Nat, kept : Nat, written : Nat, skipped : Nat, raised : Nat]
    /\ IsSequence(w.left)
    /\ \A i \in DOMAIN w.left : Sound(w.left[i], s)
    /\ Len(w.left) + w.written + w.skipped + w.raised = w.kept

FateSound(t) ==
    /\ t.node.kind = "profile" /\ t.outcome = "written" => t.own
    /\ t.outcome \in {"written", "duplicate"} =>
         /\ t.node \in DOMAIN memories
         /\ t.node.owner \in {context[t.by].user, context[t.by].agent}
         /\ t.node.kind \in {"profile", "tool_outputs"} \/ t.text \in memories[t.node]
    /\ t.outcome = "duplicate" =>
         \E w \in fates : w.outcome = "written" /\ <<w.text, w.by, w.node>> = <<t.text, t.by, t.node>>

\* A fingerprint is one of a text that was written.
PrintSound(p) ==
    \E w \in fates : /\ w.outcome = "written" /\ w.node = p[1] /\ w.by = p[3]
                     /\ w.text = <<p[3], p[4]>>

NodeSound(n) ==
    /\ n.id \in Nat /\ n.id <= serial
    /\ n.kind \in Dated => Cardinality(memories[n]) = 1

RoutingData ==
    /\ context \in Contexts /\ schemas \in SchemaSets /\ serial \in Nat
    /\ \A t \in fates : FateSound(t)
    /\ \A p \in known : PrintSound(p)
    /\ \A n \in DOMAIN memories : NodeSound(n)

RoutingWork ==
    /\ work = [s \in Conversation |-> work[s]]
    /\ \A s \in Conversation : WorkSound(work[s], s)

RoutingInv == RoutingData /\ RoutingWork

LEMMA SchemaKinds ==
  /\ DOMAIN Schema = {"profile", "preference", "entity", "event", "case", "pattern", "skill", "tool"}
  /\ \A kind \in DOMAIN Schema :
        /\ Schema[kind].scope \in {"user", "agent"}
        /\ Schema[kind].mode = "add_only" <=> kind \in Dated
        /\ Schema[kind].single <=> kind = "profile"
  BY DEF Schema, Dated

LEMMA Policies ==
  ASSUME NEW kind, schemas \subseteq DOMAIN Schema, PolicyOf(kind) # "none"
  PROVE  /\ kind \in Dated => PolicyOf(kind) = "append"
         /\ PolicyOf(kind) \notin Merging \cup {"append", "code"} => kind \in {"profile", "tool_outputs"}
         /\ PolicyOf(kind) \notin {"natural_language", "tool_outputs", "code"} => kind \in DOMAIN Schema
<1>1. CASE kind \in {"code", "natural_language", "tool_outputs"}
  <2>1. PolicyOf(kind) = kind
    BY <1>1, SchemaKinds DEF PolicyOf
  <2> QED BY <1>1, <2>1 DEF Merging, Dated
<1>2. CASE kind \notin {"code", "natural_language", "tool_outputs"}
  <2>1. kind \in schemas /\ kind \in DOMAIN Schema
    BY <1>2 DEF PolicyOf
  <2>2. CASE kind \in {"skill", "tool"}
    BY <1>2, <2>1, <2>2 DEF PolicyOf, Merging, Dated
  <2>3. CASE kind \notin {"skill", "tool"}
    <3>1. PolicyOf(kind) = IF Schema[kind].mode = "add_only" THEN "append"
                           ELSE IF Schema[kind].single THEN "profile" ELSE "topic"
      BY <1>2, <2>1, <2>3 DEF PolicyOf
    <3>2. CASE kind \in Dated
      BY <2>1, <3>1, <3>2, SchemaKinds
    <3>3. CASE kind \notin Dated
      <4>1. PolicyOf(kind) = IF kind = "profile" THEN "profile" ELSE "topic"
        BY <2>1, <3>1, <3>3, SchemaKinds
      <4> QED BY <2>1, <3>3, <4>1 DEF Merging
    <3> QED BY <3>2, <3>3
  <2> QED BY <2>2, <2>3
<1> QED BY <1>1, <1>2

(***************************************************************************)
(* From the calls of the LLM to candidates.                                *)
(***************************************************************************)
LEMMA AttributedSound ==
  ASSUME NEW call \in CallShape, NEW s, NEW signed, signed = [call EXCEPT !.text = <<s, @>>],
         Understood(signed), schemas \subseteq DOMAIN Schema
  PROVE  Sound(Attributed(Parsed(signed)), s)
<1>1. /\ signed.kind = call.kind /\ signed.speaker = call.speaker /\ signed.basis = call.basis
      /\ signed.text = <<s, call.text>>
  BY DEF CallShape
<1>2. PICK c : c = Parsed(signed)
  OBVIOUS
<1>3. /\ DOMAIN c = Fields /\ c.kind = signed.kind /\ c.scope = Schema[signed.kind].scope
      /\ c.speaker = signed.speaker /\ c.basis = signed.basis /\ c.text = signed.text
  BY <1>2 DEF Parsed, Fields
<1>4. c.scope \in {"user", "agent"}
  BY <1>3, SchemaKinds DEF Understood
<1>5. c.text = <<s, c.text[2]>>
  BY <1>1, <1>3
<1>6. CASE \/ c.kind # "profile" \/ c.basis = "self"
           \/ c.basis = "none" /\ c.speaker \in {"none", "user"}
  <2>1. Attributed(c) = c
    BY <1>6 DEF Attributed
  <2> QED BY <1>2, <1>3, <1>4, <1>5, <1>6, <2>1 DEF Sound, Own
<1>7. CASE ~(\/ c.kind # "profile" \/ c.basis = "self"
             \/ c.basis = "none" /\ c.speaker \in {"none", "user"})
  <2>1. PICK d : d = Attributed(c)
    OBVIOUS
  <2>2. d.kind = "entity" /\ d.scope = "user" /\ d.text = c.text /\ DOMAIN d = Fields
    BY <1>3, <1>7, <2>1 DEF Attributed, Fields
  <2>3. Sound(d, s)
    BY <1>5, <2>2 DEF Sound
  <2> QED BY <1>2, <2>1, <2>3
<1> QED BY <1>6, <1>7

LEMMA ValidatedSound ==
  ASSUME NEW c, NEW s, Sound(c, s)
  PROVE  Sound(Validated(c), s)
<1>1. PICK d : d = Validated(c)
  OBVIOUS
<1>2. /\ DOMAIN d = Fields /\ d.kind = c.kind /\ d.scope = c.scope /\ d.speaker = c.speaker
      /\ d.basis = c.basis /\ d.text = c.text
  BY <1>1 DEF Validated, Sound, Fields
<1>3. Sound(d, s)
  BY <1>2 DEF Sound, Own
<1> QED BY <1>1, <1>3

SaidOf(parsed) == [i \in DOMAIN parsed |-> Attributed(Parsed(parsed[i]))]
ValidOf(ok) == [i \in DOMAIN ok |-> Validated(ok[i])]

LEMMA CandidatesAre ==
  ASSUME NEW calls
  PROVE  CandidatesOf(calls) = ValidOf(TheAcceptable(SaidOf(TheUnderstood(calls))))
  BY Zenon DEF CandidatesOf, TheUnderstood, TheAcceptable, SaidOf, ValidOf

LEMMA ParsedSound ==
  ASSUME NEW x, Len(x) \in Nat, NEW s, NEW parsed, parsed = TheUnderstood(x),
         \A i \in 1..Len(x) : Understood(x[i]) => Sound(Attributed(Parsed(x[i])), s)
  PROVE  /\ Len(parsed) \in Nat /\ DOMAIN parsed = 1..Len(parsed)
         /\ \A i \in DOMAIN parsed : Sound(Attributed(Parsed(parsed[i])), s)
<1>1. /\ Len(parsed) \in Nat /\ DOMAIN parsed = 1..Len(parsed)
      /\ \A i \in DOMAIN parsed : \E j \in 1..Len(x) : parsed[i] = x[j] /\ Understood(x[j])
  BY OnlyUnderstood
<1>2. ASSUME NEW i \in DOMAIN parsed PROVE Sound(Attributed(Parsed(parsed[i])), s)
  <2>1. PICK j \in 1..Len(x) : parsed[i] = x[j] /\ Understood(x[j])
    BY <1>1
  <2> QED BY <2>1
<1> QED BY <1>1, <1>2

LEMMA AcceptedSound ==
  ASSUME NEW x, Len(x) \in Nat, NEW s, NEW ok, ok = TheAcceptable(x), \A i \in 1..Len(x) : Sound(x[i], s)
  PROVE  /\ Len(ok) \in Nat /\ DOMAIN ok = 1..Len(ok)
         /\ \A i \in DOMAIN ok : Sound(Validated(ok[i]), s)
  BY OnlyAcceptable, ValidatedSound

LEMMA ConfidentSound ==
  ASSUME NEW x, Len(x) \in Nat, NEW s, NEW kept, kept = TheConfident(x), \A i \in 1..Len(x) : Sound(x[i], s)
  PROVE  /\ Len(kept) \in Nat /\ DOMAIN kept = 1..Len(kept) /\ IsSequence(kept)
         /\ \A i \in DOMAIN kept : Sound(kept[i], s)
  BY OnlyConfident

LEMMA CandidatesSound ==
  ASSUME NEW calls \in Seq(CallShape), NEW s, schemas \subseteq DOMAIN Schema, NEW signed, NEW cs,
         signed = [i \in DOMAIN calls |-> [calls[i] EXCEPT !.text = <<s, @>>]],
         cs = CandidatesOf(signed)
  PROVE  /\ Len(cs) \in Nat
         /\ \A i \in 1..Len(cs) : Sound(cs[i], s)
<1>1. DOMAIN calls = 1..Len(calls) /\ Len(calls) \in Nat /\ \A i \in DOMAIN calls : calls[i] \in CallShape
  OBVIOUS
<1>2. Len(signed) \in Nat /\ Len(signed) = Len(calls)
  BY <1>1
<1>3. ASSUME NEW i \in 1..Len(signed), Understood(signed[i]) PROVE Sound(Attributed(Parsed(signed[i])), s)
  <2>1. PICK call, one : call \in CallShape /\ call = calls[i] /\ one = signed[i] /\ one = [call EXCEPT !.text = <<s, @>>]
    BY <1>1, <1>2
  <2>2. Sound(Attributed(Parsed(one)), s)
    BY <1>3, <2>1, AttributedSound
  <2> QED BY <2>1, <2>2
<1>4. PICK parsed : parsed = TheUnderstood(signed)
  OBVIOUS
<1>5. /\ Len(parsed) \in Nat /\ DOMAIN parsed = 1..Len(parsed)
      /\ \A i \in DOMAIN parsed : Sound(Attributed(Parsed(parsed[i])), s)
  BY <1>2, <1>3, <1>4, ParsedSound
<1>6. PICK said : said = SaidOf(parsed)
  OBVIOUS
<1>7. /\ Len(said) \in Nat /\ \A i \in 1..Len(said) : Sound(said[i], s)
  <2>1. DOMAIN said = 1..Len(parsed) /\ \A i \in 1..Len(parsed) : said[i] = Attributed(Parsed(parsed[i]))
    BY <1>5, <1>6 DEF SaidOf
  <2>2. Len(said) = Len(parsed)
    BY <1>5, <2>1
  <2> QED BY <1>5, <2>1, <2>2
<1>8. PICK ok : ok = TheAcceptable(said)
  OBVIOUS
<1>9. /\ Len(ok) \in Nat /\ DOMAIN ok = 1..Len(ok) /\ \A i \in DOMAIN ok : Sound(Validated(ok[i]), s)
  BY <1>7, <1>8, AcceptedSound
<1>10. cs = ValidOf(ok)
  BY <1>4, <1>6, <1>8, CandidatesAre
<1>11. DOMAIN cs = 1..Len(ok) /\ \A i \in 1..Len(ok) : cs[i] = Validated(ok[i])
  BY <1>9, <1>10 DEF ValidOf
<1>12. Len(cs) = Len(ok)
  BY <1>9, <1>11
<1> QED BY <1>9, <1>11, <1>12

(***************************************************************************)
(* One candidate is written, or not, and what becomes of it is told.       *)
(***************************************************************************)
Fate(c, s, node, became) ==
    [text |-> c.text, own |-> Own(c), by |-> s, node |-> node, outcome |-> became]

LEMMA FateTold ==
  ASSUME NEW c, NEW s, NEW node, NEW outcome, NEW t, t = Fate(c, s, node, outcome)
  PROVE  t.text = c.text /\ t.own = Own(c) /\ t.by = s /\ t.node = node /\ t.outcome = outcome
  BY DEF Fate

\* What was told before stays true while nodes keep their texts.
LEMMA FatesStay ==
  ASSUME RoutingData, UNCHANGED context, fates \subseteq fates', DOMAIN memories \subseteq DOMAIN memories',
         \A n \in DOMAIN memories : n.kind \in {"profile", "tool_outputs"} \/ memories[n] \subseteq memories'[n],
         NEW t \in fates
  PROVE  FateSound(t)'
<1>1. FateSound(t)
  BY DEF RoutingData
<1>2. t.node \in DOMAIN memories /\ (t.node.kind \in {"profile", "tool_outputs"} \/ t.text \in memories[t.node])
      => t.node \in DOMAIN memories' /\ (t.node.kind \in {"profile", "tool_outputs"} \/ t.text \in memories'[t.node])
  OBVIOUS
<1> QED BY <1>1, <1>2 DEF FateSound

LEMMA PrintsStay ==
  ASSUME RoutingData, fates \subseteq fates', NEW p \in known
  PROVE  PrintSound(p)'
  BY DEF RoutingData, PrintSound

\* The candidate is not written: skipped, refused, or a call failed.
LEMMA NotWritten ==
  ASSUME RoutingData, NEW c, NEW s, NEW node, NEW outcome \in {"skipped", "failed"}, Tell(c, s, node, outcome),
         UNCHANGED <<context, schemas, memories, known>>, serial' \in Nat, serial <= serial'
  PROVE  RoutingData'
<1>1. PICK t : t = Fate(c, s, node, outcome) /\ t.outcome = outcome /\ fates' = fates \cup {t}
  BY FateTold DEF Tell, Fate
<1>2. FateSound(t)'
  BY <1>1 DEF FateSound
<1>3. \A u \in fates : FateSound(u)'
  BY <1>1, FatesStay
<1>4. \A p \in known : PrintSound(p)'
  BY <1>1, PrintsStay
<1>5. \A n \in DOMAIN memories : NodeSound(n)'
  BY DEF RoutingData, NodeSound
<1> HIDE DEF FateSound, PrintSound, NodeSound
<1> QED BY <1>1, <1>2, <1>3, <1>4, <1>5 DEF RoutingData

LEMMA NodePlanned ==
  ASSUME RoutingData, NEW c, NEW s, Sound(c, s), NEW node, node = NodeOf(c, s), PolicyOf(c.kind) # "none"
  PROVE  /\ node.kind = c.kind /\ node.owner \in {context[s].user, context[s].agent}
         /\ node.id \in {0, serial + 1} /\ (c.kind \in Dated => node.id = serial + 1)
         /\ PolicyOf(c.kind) = "append" => node \notin DOMAIN memories
         /\ c.kind \in Dated => node \notin DOMAIN memories
<1>1. schemas \subseteq DOMAIN Schema /\ serial \in Nat
  BY RoutingAssumption DEF RoutingData
<1>2. /\ node.kind = c.kind /\ node.owner = OwnerOf(c, s)
      /\ node.id = IF PolicyOf(c.kind) = "append" \/ Keyless(c) THEN serial + 1 ELSE 0
  BY DEF NodeOf
<1>3. OwnerOf(c, s) \in {context[s].user, context[s].agent}
  <2>1. \A scope \in {"user", "agent"} : context[s][scope] \in {context[s].user, context[s].agent}
    OBVIOUS
  <2>2. CASE PolicyOf(c.kind) \in {"natural_language", "tool_outputs", "code"}
    BY <2>1, <2>2 DEF OwnerOf, Sound
  <2>3. CASE PolicyOf(c.kind) \notin {"natural_language", "tool_outputs", "code"}
    <3>1. c.kind \in DOMAIN Schema
      BY <1>1, <2>3, Policies
    <3>2. Schema[c.kind].scope \in {"user", "agent"}
      BY <3>1, SchemaKinds
    <3>3. OwnerOf(c, s) = context[s][Schema[c.kind].scope]
      BY <2>3 DEF OwnerOf
    <3> QED BY <2>1, <3>2, <3>3
  <2> QED BY <2>2, <2>3
<1>4. c.kind \in Dated => PolicyOf(c.kind) = "append"
  BY <1>1, Policies
<1>5. ASSUME node.id = serial + 1 PROVE node \notin DOMAIN memories
  <2>1. ~(serial + 1 <= serial)
    BY <1>1
  <2> QED BY <1>5, <2>1 DEF RoutingData, NodeSound
<1> QED BY <1>1, <1>2, <1>3, <1>4, <1>5

LEMMA CandidateRouted ==
  ASSUME RoutingData, NEW c, NEW s, Sound(c, s), NEW node, node = PlannedNode(c, s), NEW outcome,
         RouteAndWrite(c, s, node, outcome), Tell(c, s, node, outcome), UNCHANGED <<context, schemas>>
  PROVE  RoutingData'
<1>1. serial \in Nat
  BY DEF RoutingData
<1>2. CASE Agentless(c, s)
  <2>1. outcome = "skipped" /\ UNCHANGED <<memories, known, serial>>
    BY <1>2 DEF RouteAndWrite
  <2> QED BY <1>1, <2>1, NotWritten
<1>3. CASE ~Agentless(c, s) /\ PolicyOf(c.kind) = "none"
  <2>1. outcome = "failed" /\ UNCHANGED <<memories, known, serial>>
    BY <1>3 DEF RouteAndWrite
  <2> QED BY <1>1, <2>1, NotWritten
<1>4. CASE ~Agentless(c, s) /\ PolicyOf(c.kind) # "none"
  <2>1. PICK print : print = <<node, Action(c, node), s, c.text[2]>>
    OBVIOUS
  <2>2. /\ serial' = serial + 1
        /\ IF Action(c, node) = "skip" \/ print \in known
           THEN /\ outcome = IF Action(c, node) = "skip" THEN "skipped" ELSE "duplicate"
                /\ UNCHANGED <<memories, known>>
           ELSE /\ outcome = "written"
                /\ memories' = [n \in DOMAIN memories \cup {node} |->
                                  IF n = node THEN TextsAfter(c, node) ELSE memories[n]]
                /\ known' = known \cup {print}
    BY <1>4, <2>1 DEF RouteAndWrite
  <2>3. node = NodeOf(c, s)
    BY <1>4 DEF PlannedNode
  <2>4. /\ node.kind = c.kind /\ node.owner \in {context[s].user, context[s].agent}
        /\ node.id \in {0, serial + 1} /\ (c.kind \in Dated => node.id = serial + 1)
        /\ PolicyOf(c.kind) = "append" => node \notin DOMAIN memories
        /\ c.kind \in Dated => node \notin DOMAIN memories
    BY <1>4, <2>3, NodePlanned
  <2>5. PICK t : /\ t = Fate(c, s, node, outcome) /\ fates' = fates \cup {t}
                 /\ t.text = c.text /\ t.own = Own(c) /\ t.by = s /\ t.node = node /\ t.outcome = outcome
    <3>1. PICK t : t = Fate(c, s, node, outcome) /\ fates' = fates \cup {t}
      BY DEF Tell, Fate
    <3> QED BY <3>1, FateTold
  <2>6. CASE Action(c, node) = "skip"
    <3>1. outcome = "skipped" /\ UNCHANGED <<memories, known>>
      BY <2>2, <2>6
    <3> QED BY <1>1, <2>2, <3>1, NotWritten
  <2>7. CASE Action(c, node) # "skip" /\ print \in known
    <3>1. outcome = "duplicate" /\ UNCHANGED <<memories, known>>
      BY <2>2, <2>7
    <3>2. PICK w \in fates : w.outcome = "written" /\ w.node = node /\ w.by = s /\ w.text = <<s, c.text[2]>>
      BY <2>1, <2>7 DEF RoutingData, PrintSound
    <3>3. w.text = t.text /\ FateSound(w)
      BY <2>5, <3>2 DEF Sound, RoutingData
    <3>4. FateSound(t)'
      BY <2>4, <2>5, <3>1, <3>2, <3>3 DEF FateSound
    <3>5. \A u \in fates : FateSound(u)'
      BY <2>5, <3>1, FatesStay
    <3>6. \A p \in known : PrintSound(p)'
      BY <2>5, PrintsStay
    <3>7. \A n \in DOMAIN memories : NodeSound(n)'
      BY <1>1, <2>2, <3>1 DEF RoutingData, NodeSound
    <3> HIDE DEF FateSound, PrintSound, NodeSound
    <3> QED BY <1>1, <2>2, <2>5, <3>1, <3>4, <3>5, <3>6, <3>7 DEF RoutingData
  <2>8. CASE Action(c, node) # "skip" /\ print \notin known
    <3>1. /\ outcome = "written" /\ known' = known \cup {print}
          /\ DOMAIN memories' = DOMAIN memories \cup {node} /\ memories'[node] = TextsAfter(c, node)
          /\ \A n \in DOMAIN memories \ {node} : memories'[n] = memories[n]
      BY <2>2, <2>8
    <3>2. c.text \in memories'[node]
      BY <3>1 DEF TextsAfter, MergedTexts
    <3>3. ASSUME NEW n \in DOMAIN memories
          PROVE  n.kind \in {"profile", "tool_outputs"} \/ memories[n] \subseteq memories'[n]
      <4>1. CASE n # node
        BY <3>1, <4>1
      <4>2. CASE n = node
        <5>1. PolicyOf(c.kind) # "append" /\ PolicyOf(c.kind) # "code"
          BY <2>4, <2>8, <4>2 DEF Action
        <5>2. CASE PolicyOf(c.kind) \in Merging
          BY <3>1, <4>2, <5>2 DEF TextsAfter, MergedTexts
        <5>3. CASE PolicyOf(c.kind) \notin Merging
          BY <1>4, <2>4, <4>2, <5>1, <5>3, Policies, RoutingAssumption DEF RoutingData
        <5> QED BY <5>2, <5>3
      <4> QED BY <4>1, <4>2
    <3>4. FateSound(t)'
      <4>1. t.node.kind = "profile" => t.own
        BY <2>4, <2>5 DEF Sound
      <4>2. UNCHANGED context
        OBVIOUS
      <4> QED BY <2>4, <2>5, <3>1, <3>2, <4>1, <4>2 DEF FateSound
    <3>5. \A u \in fates : FateSound(u)'
      BY <2>5, <3>1, <3>3, FatesStay
    <3>6. PrintSound(print)'
      <4>1. t.outcome = "written" /\ t.node = print[1] /\ t.by = print[3] /\ t.text = <<print[3], print[4]>>
        BY <2>1, <2>5, <3>1 DEF Sound
      <4> QED BY <2>5, <4>1 DEF PrintSound
    <3>7. \A p \in known : PrintSound(p)'
      BY <2>5, PrintsStay
    <3>8. ASSUME NEW n \in DOMAIN memories' PROVE NodeSound(n)'
      <4>1. CASE n # node
        BY <1>1, <2>2, <3>1, <4>1 DEF RoutingData, NodeSound
      <4>2. CASE n = node
        <5>1. node.id \in Nat /\ node.id <= serial'
          BY <1>1, <2>2, <2>4
        <5>2. ASSUME c.kind \in Dated PROVE Cardinality(memories'[node]) = 1
          <6>1. memories'[node] = {c.text}
            BY <2>4, <3>1, <5>2 DEF TextsAfter
          <6> QED BY <6>1, FS_Singleton
        <5> QED BY <2>4, <4>2, <5>1, <5>2 DEF NodeSound
      <4> QED BY <4>1, <4>2
    <3> HIDE DEF FateSound, PrintSound, NodeSound
    <3> QED BY <1>1, <2>2, <2>5, <3>1, <3>4, <3>5, <3>6, <3>7, <3>8 DEF RoutingData
  <2> QED BY <2>6, <2>7, <2>8
<1> QED BY <1>2, <1>3, <1>4

(***************************************************************************)
(* What a session still has to write, and the counts it answers with.      *)
(***************************************************************************)
LEMMA RestSound ==
  ASSUME NEW left, IsSequence(left), NEW s, \A i \in DOMAIN left : Sound(left[i], s), left # <<>>
  PROVE  /\ Sound(Head(left), s) /\ IsSequence(Tail(left)) /\ Len(left) \in Nat /\ Len(Tail(left)) = Len(left) - 1
         /\ \A i \in DOMAIN Tail(left) : Sound(Tail(left)[i], s)
<1>1. PICK S : left \in Seq(S) /\ S = {left[i] : i \in DOMAIN left}
  BY DEF IsSequence
<1>2. /\ Head(left) = left[1] /\ Tail(left) \in Seq(S) /\ Len(Tail(left)) = Len(left) - 1
      /\ \A i \in 1..Len(Tail(left)) : Tail(left)[i] = left[i + 1]
  BY <1>1, HeadTailProperties
<1>3. Len(left) \in Nat /\ DOMAIN left = 1..Len(left) /\ 1 \in DOMAIN left /\ Len(Tail(left)) \in Nat
      /\ DOMAIN Tail(left) = 1..Len(Tail(left))
  BY <1>1, <1>2
<1>4. IsSequence(Tail(left))
  BY <1>2, Elements
<1>5. \A i \in DOMAIN Tail(left) : Sound(Tail(left)[i], s)
  <2> SUFFICES ASSUME NEW i \in 1..Len(Tail(left)) PROVE Sound(Tail(left)[i], s)
    BY <1>3
  <2>1. i + 1 \in DOMAIN left
    BY <1>2, <1>3
  <2> QED BY <1>2, <2>1
<1> QED BY <1>2, <1>3, <1>4, <1>5

WorkShape == {"left", "extracted", "kept", "written", "skipped", "raised"}

LEMMA WorkMade ==
  ASSUME NEW w, NEW s, DOMAIN w = WorkShape,
         w = [left |-> w.left, extracted |-> w.extracted, kept |-> w.kept, written |-> w.written,
              skipped |-> w.skipped, raised |-> w.raised],
         w.extracted \in Nat, w.kept \in Nat, w.written \in Nat, w.skipped \in Nat, w.raised \in Nat,
         IsSequence(w.left), \A i \in DOMAIN w.left : Sound(w.left[i], s),
         Len(w.left) + w.written + w.skipped + w.raised = w.kept
  PROVE  WorkSound(w, s)
<1>1. w \in [left : {w.left}, extracted : Nat, kept : Nat, written : Nat, skipped : Nat, raised : Nat]
  OBVIOUS
<1> QED BY <1>1 DEF WorkSound

LEMMA WorkMoves ==
  ASSUME RoutingWork, NEW s \in Conversation, NEW w, WorkSound(w, s), work' = [work EXCEPT ![s] = w]
  PROVE  RoutingWork'
<1>1. DOMAIN work = Conversation
  BY DEF RoutingWork
<1>2. DOMAIN work' = Conversation /\ \A x \in Conversation : work'[x] = IF x = s THEN w ELSE work[x]
  BY <1>1
<1>3. work' = [x \in Conversation |-> work'[x]]
  BY <1>1, <1>2
<1>4. \A x \in Conversation : WorkSound(work'[x], x)
  BY <1>2 DEF RoutingWork
<1> QED BY <1>3, <1>4 DEF RoutingWork

LEMMA NothingToDo ==
  ASSUME NEW s
  PROVE  WorkSound(NoWork, s)
<1>1. IsSequence(<<>>) /\ Len(<<>>) = 0 /\ DOMAIN <<>> = {}
  <2>1. <<>> \in Seq({}) /\ Len(<<>>) = 0 /\ DOMAIN <<>> = {}
    OBVIOUS
  <2> QED BY <2>1 DEF IsSequence
<1>2. PICK w : w = NoWork
  OBVIOUS
<1>3. w.left = <<>> /\ w.extracted = 0 /\ w.kept = 0 /\ w.written = 0 /\ w.skipped = 0 /\ w.raised = 0
  BY <1>2 DEF NoWork
<1>4. /\ DOMAIN w = WorkShape
      /\ w = [left |-> w.left, extracted |-> w.extracted, kept |-> w.kept, written |-> w.written,
              skipped |-> w.skipped, raised |-> w.raised]
  BY <1>2 DEF NoWork, WorkShape
<1>5. \A i \in DOMAIN w.left : Sound(w.left[i], s)
  BY <1>1, <1>3
<1>6. WorkSound(w, s)
  BY <1>1, <1>3, <1>4, <1>5, WorkMade
<1> QED BY <1>2, <1>6

LEMMA ExtractKeeps ==
  ASSUME RoutingInv, NEW s \in Conversation, NEW calls \in Answers \cup {<<>>}, Extract(s, calls)
  PROVE  RoutingInv'
<1>1. calls \in Seq(CallShape) /\ schemas \subseteq DOMAIN Schema
  <2>1. <<>> \in Seq(CallShape)
    OBVIOUS
  <2> QED BY <2>1, RoutingAssumption DEF RoutingInv, RoutingData
<1>2. PICK signed : signed = [i \in DOMAIN calls |-> [calls[i] EXCEPT !.text = <<s, @>>]]
  OBVIOUS
<1>3. PICK cs, kept : cs = CandidatesOf(signed) /\ kept = TheConfident(cs)
  OBVIOUS
<1>4. Len(cs) \in Nat /\ \A i \in 1..Len(cs) : Sound(cs[i], s)
  BY <1>1, <1>2, <1>3, CandidatesSound
<1>5. Len(kept) \in Nat /\ IsSequence(kept) /\ \A i \in DOMAIN kept : Sound(kept[i], s)
  BY <1>3, <1>4, ConfidentSound
<1>6. PICK w : w = [NoWork EXCEPT !.left = kept, !.extracted = Len(cs), !.kept = Len(kept)]
  OBVIOUS
<1>7. w.left = kept /\ w.extracted = Len(cs) /\ w.kept = Len(kept) /\ w.written = 0 /\ w.skipped = 0 /\ w.raised = 0
  BY <1>6 DEF NoWork
<1>8. /\ DOMAIN w = WorkShape
      /\ w = [left |-> w.left, extracted |-> w.extracted, kept |-> w.kept, written |-> w.written,
              skipped |-> w.skipped, raised |-> w.raised]
  BY <1>6 DEF NoWork, WorkShape
<1>9. WorkSound(w, s)
  BY <1>4, <1>5, <1>7, <1>8, WorkMade
<1>10. work' = [work EXCEPT ![s] = w]
  BY <1>2, <1>3, <1>6, Zenon DEF Extract, TheConfident
<1>11. RoutingWork'
  BY <1>9, <1>10, WorkMoves DEF RoutingInv
<1>12. RoutingData'
  BY DEF Extract, RoutingInv, RoutingData, FateSound, PrintSound, NodeSound
<1> QED BY <1>11, <1>12 DEF RoutingInv

LEMMA WriteNextKeeps ==
  ASSUME RoutingInv, NEW s \in Conversation, WriteNext(s)
  PROVE  RoutingInv'
<1>1. WorkSound(work[s], s) /\ work[s].left # <<>>
  BY DEF RoutingInv, RoutingWork, WriteNext
<1>2. PICK old, c, node : old = work[s] /\ c = Head(old.left) /\ node = PlannedNode(c, s)
  OBVIOUS
<1>3. /\ Sound(c, s) /\ IsSequence(Tail(old.left)) /\ Len(old.left) \in Nat /\ Len(Tail(old.left)) = Len(old.left) - 1
      /\ \A i \in DOMAIN Tail(old.left) : Sound(Tail(old.left)[i], s)
  BY <1>1, <1>2, RestSound DEF WorkSound
<1>4. PICK outcome \in WriteOutcome :
        /\ \/ RouteAndWrite(c, s, node, outcome) /\ UNCHANGED toRoute
           \/ /\ toRoute.failures > 0 /\ node # Nowhere /\ outcome = "failed"
              /\ toRoute' = [toRoute EXCEPT !.failures = @ - 1]
              /\ serial' = serial + 1 /\ UNCHANGED <<memories, known>>
        /\ Tell(c, s, node, outcome)
        /\ work' = [work EXCEPT ![s] = Tallied(work[s], outcome)]
  BY <1>2 DEF WriteNext
<1>5. UNCHANGED <<context, schemas>> /\ RoutingData
  BY DEF WriteNext, RoutingInv
<1>6. RoutingData'
  <2>1. CASE RouteAndWrite(c, s, node, outcome)
    BY <1>2, <1>3, <1>4, <1>5, <2>1, CandidateRouted
  <2>2. CASE outcome = "failed" /\ serial' = serial + 1 /\ UNCHANGED <<memories, known>>
    <3>1. serial' \in Nat /\ serial <= serial'
      BY <2>2 DEF RoutingInv, RoutingData
    <3> QED BY <1>4, <1>5, <2>2, <3>1, NotWritten
  <2> QED BY <1>4, <2>1, <2>2
<1>7. PICK w : w = Tallied(old, outcome)
  OBVIOUS
<1>8. old \in [left : {old.left}, extracted : Nat, kept : Nat, written : Nat, skipped : Nat, raised : Nat]
  BY <1>1, <1>2 DEF WorkSound
<1>9. /\ w.left = Tail(old.left) /\ w.extracted = old.extracted /\ w.kept = old.kept
      /\ w.written = old.written + IF outcome \in {"written", "duplicate"} THEN 1 ELSE 0
      /\ w.skipped = old.skipped + IF outcome = "skipped" THEN 1 ELSE 0
      /\ w.raised = old.raised + IF outcome = "failed" THEN 1 ELSE 0
  BY <1>7, <1>8 DEF Tallied
<1>10. /\ DOMAIN w = WorkShape
       /\ w = [left |-> w.left, extracted |-> w.extracted, kept |-> w.kept, written |-> w.written,
               skipped |-> w.skipped, raised |-> w.raised]
  BY <1>7, <1>8 DEF WorkShape, Tallied
<1>11. /\ old.extracted \in Nat /\ old.kept \in Nat /\ old.written \in Nat /\ old.skipped \in Nat /\ old.raised \in Nat
       /\ Len(old.left) + old.written + old.skipped + old.raised = old.kept
  BY <1>1, <1>2, <1>8 DEF WorkSound
<1>12. /\ w.extracted \in Nat /\ w.kept \in Nat /\ w.written \in Nat /\ w.skipped \in Nat /\ w.raised \in Nat
       /\ Len(w.left) + w.written + w.skipped + w.raised = w.kept
  <2>1. CASE outcome \in {"written", "duplicate"}
    BY <1>3, <1>9, <1>11, <2>1
  <2>2. CASE outcome = "skipped"
    <3>1. /\ w.written = old.written /\ w.skipped = old.skipped + 1 /\ w.raised = old.raised
      BY <1>9, <1>11, <2>2
    <3>2. Len(w.left) \in Nat /\ Len(w.left) + 1 = Len(old.left)
      BY <1>3, <1>9
    <3>3. w.extracted = old.extracted /\ w.kept = old.kept
      BY <1>9
    <3>4. PICK l, k, n, i, j \in Nat :
            /\ l = Len(w.left) /\ k = old.kept /\ n = old.written /\ i = old.skipped /\ j = old.raised
            /\ Len(old.left) = l + 1
      BY <1>11, <3>2
    <3>5. (l + 1) + n + i + j = k
      BY <1>11, <3>4
    <3>6. l + n + (i + 1) + j = k /\ l + n + i + (j + 1) = k /\ i + 1 \in Nat /\ j + 1 \in Nat
      BY <3>5
    <3> QED BY <1>11, <3>1, <3>3, <3>4, <3>6
  <2>3. CASE outcome = "failed"
    <3>1. /\ w.written = old.written /\ w.skipped = old.skipped /\ w.raised = old.raised + 1
      BY <1>9, <1>11, <2>3
    <3>2. Len(w.left) \in Nat /\ Len(w.left) + 1 = Len(old.left)
      BY <1>3, <1>9
    <3>3. w.extracted = old.extracted /\ w.kept = old.kept
      BY <1>9
    <3>4. PICK l, k, n, i, j \in Nat :
            /\ l = Len(w.left) /\ k = old.kept /\ n = old.written /\ i = old.skipped /\ j = old.raised
            /\ Len(old.left) = l + 1
      BY <1>11, <3>2
    <3>5. (l + 1) + n + i + j = k
      BY <1>11, <3>4
    <3>6. l + n + (i + 1) + j = k /\ l + n + i + (j + 1) = k /\ i + 1 \in Nat /\ j + 1 \in Nat
      BY <3>5
    <3> QED BY <1>11, <3>1, <3>3, <3>4, <3>6
  <2> QED BY <2>1, <2>2, <2>3 DEF WriteOutcome
<1>13. WorkSound(w, s)
  BY <1>3, <1>9, <1>10, <1>12, WorkMade
<1>14. work' = [work EXCEPT ![s] = w]
  BY <1>2, <1>4, <1>7
<1>15. RoutingWork'
  BY <1>13, <1>14, WorkMoves DEF RoutingInv
<1> QED BY <1>6, <1>15 DEF RoutingInv

LEMMA WriteMemoryKeeps ==
  ASSUME RoutingInv, NEW s \in Conversation, NEW m \in Memories, WriteMemory(s, m)
  PROVE  RoutingInv'
<1>1. m \in CandidateShape /\ (m.kind = "profile" => Own(m))
  BY RoutingAssumption DEF Own
<1>2. PICK c, node : c = [m EXCEPT !.text = <<s, @>>] /\ node = PlannedNode(c, s)
  OBVIOUS
<1>3. Sound(c, s)
  <2>1. /\ DOMAIN c = Fields /\ c.kind = m.kind /\ c.scope = m.scope /\ c.basis = m.basis /\ c.speaker = m.speaker
        /\ c.text = <<s, m.text>>
    BY <1>1, <1>2 DEF CandidateShape, Fields
  <2>2. m.scope \in {"user", "agent"}
    BY <1>1 DEF CandidateShape
  <2> QED BY <1>1, <2>1, <2>2 DEF Sound, Own
<1>4. PICK outcome \in WriteOutcome : RouteAndWrite(c, s, node, outcome) /\ Tell(c, s, node, outcome)
  BY <1>2 DEF WriteMemory
<1>5. UNCHANGED <<context, schemas, work>> /\ RoutingData
  BY DEF WriteMemory, RoutingInv
<1>6. RoutingData'
  BY <1>2, <1>3, <1>4, <1>5, CandidateRouted
<1>7. RoutingWork'
  BY <1>5 DEF RoutingInv, RoutingWork
<1> QED BY <1>6, <1>7 DEF RoutingInv

(***************************************************************************)
(* What was told of each candidate and each fingerprint of the writer is   *)
(* borne out by the nodes, and what a session has still to write is a      *)
(* candidate whose profile is the user's own.                              *)
(* (context_writer.py, candidate_pipeline.py, validation.py:267-322)       *)
(***************************************************************************)
THEOREM RoutingInvariant == RoutingSpec => []RoutingInv
<1>1. RoutingInit => RoutingInv
  <2> SUFFICES ASSUME RoutingInit PROVE RoutingInv
    OBVIOUS
  <2>1. RoutingData
    BY DEF RoutingInit, RoutingData
  <2>2. work = [s \in Conversation |-> NoWork]
    BY DEF RoutingInit
  <2>3. \A s \in Conversation : work[s] = NoWork
    BY <2>2
  <2>4. RoutingWork
    BY <2>2, <2>3, NothingToDo DEF RoutingWork
  <2> QED BY <2>1, <2>4 DEF RoutingInv
<1>2. RoutingInv /\ [RoutingNext]_routingVars => RoutingInv'
  <2> SUFFICES ASSUME RoutingInv, [RoutingNext]_routingVars PROVE RoutingInv'
    OBVIOUS
  <2>1. CASE UNCHANGED routingVars
    <3>1. RoutingData'
      BY <2>1 DEF routingVars, RoutingInv, RoutingData, FateSound, PrintSound, NodeSound
    <3>2. RoutingWork'
      BY <2>1 DEF routingVars, RoutingInv, RoutingWork
    <3> QED BY <3>1, <3>2 DEF RoutingInv
  <2> QED BY <2>1, ExtractKeeps, WriteNextKeeps, WriteMemoryKeeps DEF RoutingNext
<1> QED BY <1>1, <1>2, PTL DEF RoutingSpec

(***************************************************************************)
(* The counts of a session add up to the candidates it kept.               *)
(* (context_writer.py:188-230, api.py:164-169)                             *)
(***************************************************************************)
THEOREM RoutingTypeCorrect == RoutingSpec => []RoutingTypeOK
<1>1. RoutingInv => RoutingTypeOK
  BY DEF RoutingInv, RoutingData, RoutingWork, WorkSound, RoutingTypeOK
<1> QED BY <1>1, RoutingInvariant, PTL

(***************************************************************************)
(* For any answers of the LLM, sessions, schemas, slugs and synonyms: the  *)
(* profile holds only what the user says of himself, and what is reported  *)
(* as written or as a duplicate is in a node of the caller's own.          *)
(* (validation.py:267-322, api.py:164-169, merge_policies.py,              *)
(* archive_builder.py:171-220)                                             *)
(***************************************************************************)
THEOREM EveryCandidateLands == RoutingSpec => []CandidatesLand
<1>1. RoutingInv => CandidatesLand
  <2> SUFFICES ASSUME RoutingInv PROVE CandidatesLand
    OBVIOUS
  <2>1. ProfileIsOwn
    BY DEF RoutingInv, RoutingData, FateSound, ProfileIsOwn
  <2>2. \A t \in fates : t.outcome \in {"written", "duplicate"} =>
         /\ t.node \in DOMAIN memories
         /\ t.node.owner \in {context[t.by].user, context[t.by].agent}
         /\ t.node.kind \in {"profile", "tool_outputs"} \/ t.text \in memories[t.node]
         /\ t.outcome = "duplicate" =>
              \E w \in fates : w.outcome = "written" /\ <<w.text, w.by, w.node>> = <<t.text, t.by, t.node>>
    BY DEF RoutingInv, RoutingData, FateSound
  <2>3. \A n \in DOMAIN memories : n.kind \in Dated => Cardinality(memories[n]) = 1
    BY DEF RoutingInv, RoutingData, NodeSound
  <2>4. ASSUME NEW s \in Conversation, work[s].left = <<>> PROVE Failed(s) = work[s].raised
    <3>1. PICK w : w = work[s] /\ WorkSound(w, s) /\ w.left = <<>>
      BY <2>4 DEF RoutingInv, RoutingWork
    <3>2. w.kept \in Nat /\ w.written \in Nat /\ w.skipped \in Nat /\ w.raised \in Nat
      BY <3>1 DEF WorkSound
    <3>3. w.written + w.skipped + w.raised = w.kept
      BY <3>1, <3>2 DEF WorkSound
    <3> QED BY <3>1, <3>2, <3>3 DEF Failed
  <2> QED BY <2>1, <2>2, <2>3, <2>4 DEF CandidatesLand, WrittenIsThere
<1> QED BY <1>1, RoutingInvariant, PTL
-----------------------------------------------------------------------------
(***************************************************************************)
(* Directory summaries: what a directory waits for, and what it was told.  *)
(***************************************************************************)
\* The directory was dispatched by its parent, or for the event.
Met(d) == d = Root \/ d \in children[tree[d]]

\* Its children that have not reported.
Awaited(d) ==
    (children[d] \cap fileTasks) \cup {c \in children[d] \cap Dir : stage[c] \notin Settled}

GaveSummary(d) == {c \in children[d] \cap Dir : stage[c] = "done"}

AtWork == {"summary", "queued", "llm", "write", "embed", "upsert"}
Summing == {"queued", "llm", "write", "embed", "upsert", "done"}

(***************************************************************************)
(* The count of a directory is that of the children it waits for, and it   *)
(* is past its listing when there are none.                                *)
(***************************************************************************)
DirSound(d) ==
    /\ stage[d] \in Stages /\ children[d] \subseteq Within(d) /\ based[d] \subseteq Dir
    /\ waitsFor[d] = Cardinality(Awaited(d))
    /\ stage[d] = "listed" <=> Awaited(d) # {}
    /\ stage[d] = "unknown" <=> ~Met(d)
    /\ stage[d] \in {"unknown", "dispatch"} => children[d] = {}
    /\ heard[d] = GaveSummary(d)
    /\ stage[d] \in Summing => based[d] = heard[d]

DagFrame ==
    /\ tree \in Trees /\ fileTasks \subseteq Leaf /\ rootDone \in BOOLEAN
    /\ stage = [d \in Dir |-> stage[d]] /\ children = [d \in Dir |-> children[d]]
    /\ waitsFor = [d \in Dir |-> waitsFor[d]] /\ heard = [d \in Dir |-> heard[d]]
    /\ based = [d \in Dir |-> based[d]]
    /\ \A f \in fileTasks : f \in children[tree[f]]
    /\ (\E d \in Dir : stage[d] = "queued") => \E d \in Dir : stage[d] = "llm"
    /\ stage[Root] \in Settled => rootDone

DagInv == DagFrame /\ \A d \in Dir : DirSound(d)

LEMMA DagConstants ==
  /\ Root \in Dir /\ Dir \cap Leaf = {} /\ IsFiniteSet(Dir \cup Leaf)
  /\ Trees \subseteq [(Dir \cup Leaf) \ {Root} -> Dir]
  /\ MaxChildren \in Nat /\ MaxLLM \in Nat \ {0}
  BY DagAssumption

LEMMA WithinTyped ==
  ASSUME DagInv, NEW d \in Dir
  PROVE  /\ Within(d) \subseteq (Dir \cup Leaf) \ {Root} /\ children[d] \subseteq Within(d)
         /\ \A e \in (Dir \cup Leaf) \ {Root} : tree[e] \in Dir
         /\ \A e \in Within(d) : tree[e] = d
<1>1. tree \in [(Dir \cup Leaf) \ {Root} -> Dir]
  BY DagConstants DEF DagInv, DagFrame
<1> QED BY <1>1 DEF DagInv, DirSound, Within

LEMMA AwaitedTyped ==
  ASSUME DagInv, NEW d \in Dir
  PROVE  /\ Awaited(d) \subseteq children[d] /\ IsFiniteSet(Awaited(d))
         /\ waitsFor[d] = Cardinality(Awaited(d)) /\ waitsFor[d] \in Nat
<1>1. Awaited(d) \subseteq Dir \cup Leaf
  BY WithinTyped DEF Awaited
<1>2. IsFiniteSet(Awaited(d))
  BY <1>1, DagConstants, FS_Subset
<1> QED BY <1>2, FS_CardinalityType DEF Awaited, DagInv, DirSound

(***************************************************************************)
(* A child x of p reports, with what becomes of its own stage in `at`.     *)
(***************************************************************************)
LEMMA ReportKeeps ==
  ASSUME DagInv, NEW x \in (Dir \cup Leaf) \ {Root}, NEW p \in Dir, p = tree[x], x \in Awaited(p),
         NEW at, at = [d \in Dir |-> at[d]], \A d \in Dir \ {x} : at[d] = stage[d],
         x \in Dir => at[x] \in Settled /\ stage[x] \notin {"unknown", "listed", "llm"},
         x \in Dir /\ at[x] = "done" => stage[x] \in Summing,
         CountDown(p, at), fileTasks' = fileTasks \ {x},
         heard' = IF x \in Dir /\ at[x] = "done" THEN [heard EXCEPT ![p] = @ \cup {x}] ELSE heard,
         UNCHANGED <<tree, children, rootDone, based>>
  PROVE  DagInv'
<1>1. /\ DagFrame /\ stage[p] = "listed" /\ p # x /\ x \in children[p]
      /\ stage = [d \in Dir |-> stage[d]]
  <2>1. DirSound(p) /\ DagFrame
    BY DEF DagInv
  <2>2. stage[p] = "listed"
    BY <2>1 DEF DirSound
  <2>3. p # x
    BY <2>2
  <2>4. x \in children[p]
    BY DEF Awaited
  <2> QED BY <2>1, <2>2, <2>3, <2>4 DEF DagFrame
<1>2. PICK n \in Nat : /\ n = Cardinality(Awaited(p)) /\ waitsFor[p] = n /\ n # 0
                      /\ Cardinality(Awaited(p) \ {x}) = n - 1
                      /\ (n = 1 <=> Awaited(p) \ {x} = {})
  <2>1. IsFiniteSet(Awaited(p)) /\ IsFiniteSet(Awaited(p) \ {x})
    BY AwaitedTyped, FS_RemoveElement
  <2>2. Cardinality(Awaited(p) \ {x}) = Cardinality(Awaited(p)) - 1
    BY <2>1, FS_RemoveElement
  <2>3. Cardinality(Awaited(p)) \in Nat /\ Cardinality(Awaited(p)) # 0
        /\ (Cardinality(Awaited(p) \ {x}) = 0 <=> Awaited(p) \ {x} = {})
    BY <2>1, FS_CardinalityType, FS_EmptySet
  <2> QED BY <2>2, <2>3, AwaitedTyped
<1>3. /\ stage' = [d \in Dir |-> stage'[d]]
      /\ stage'[p] = IF n = 1 THEN "summary" ELSE "listed"
      /\ \A d \in Dir \ {p} : stage'[d] = at[d]
      /\ \A d \in Dir \ {p, x} : stage'[d] = stage[d]
  <2>1. at[p] = "listed"
    BY <1>1
  <2>2. stage' = IF n = 1 THEN [at EXCEPT ![p] = "summary"] ELSE at
    BY <1>2, <2>1 DEF CountDown
  <2> QED BY <1>1, <2>1, <2>2
<1>4. /\ waitsFor' = [d \in Dir |-> waitsFor'[d]] /\ waitsFor'[p] = n - 1
      /\ \A d \in Dir \ {p} : waitsFor'[d] = waitsFor[d]
  BY <1>1, <1>2 DEF CountDown, DagFrame
<1>5. \A d \in Dir : d # p => x \notin children[d]
  BY WithinTyped
<1>6. \A d \in Dir : d # x => (stage'[d] \in Settled <=> stage[d] \in Settled) /\ (stage'[d] = "done" <=> stage[d] = "done")
  BY <1>1, <1>3 DEF Settled
<1>7. x \in Dir => stage'[x] = at[x] /\ stage'[x] \in Settled
  BY <1>1, <1>3
<1>8. Awaited(p)' = Awaited(p) \ {x}
  BY <1>6, <1>7 DEF Awaited
<1>9. \A d \in Dir \ {p} : Awaited(d)' = Awaited(d)
  BY <1>5, <1>6 DEF Awaited
<1>10. /\ heard' = [d \in Dir |-> heard'[d]]
       /\ heard'[p] = (IF x \in Dir /\ at[x] = "done" THEN heard[p] \cup {x} ELSE heard[p])
       /\ \A d \in Dir \ {p} : heard'[d] = heard[d]
  BY <1>1 DEF DagFrame
<1>11. GaveSummary(p)' = IF x \in Dir /\ at[x] = "done" THEN GaveSummary(p) \cup {x} ELSE GaveSummary(p)
  <2>1. x \in Dir => stage[x] # "done"
    BY <1>1, DagConstants DEF Awaited, Settled, DagFrame
  <2> QED BY <1>1, <1>6, <1>7, <2>1 DEF GaveSummary
<1>12. \A d \in Dir \ {p} : GaveSummary(d)' = GaveSummary(d)
  BY <1>5, <1>6 DEF GaveSummary
<1>13. \A d \in Dir : Met(d)' <=> Met(d)
  BY DEF Met
<1>14. \A d \in Dir : children[d] \subseteq Within(d) /\ Within(d)' = Within(d)
  BY WithinTyped DEF Within
<1>15. ASSUME NEW d \in Dir PROVE DirSound(d)'
  <2>1. DirSound(d)
    BY DEF DagInv
  <2>2. CASE d = p
    <3>1. stage'[p] \in {"summary", "listed"} /\ (stage'[p] = "listed" <=> n # 1)
      BY <1>3
    <3>2. waitsFor'[p] = Cardinality(Awaited(p)') /\ (stage'[p] = "listed" <=> Awaited(p)' # {})
      BY <1>2, <1>4, <1>8, <3>1
    <3>3. stage'[p] = "unknown" <=> ~Met(p)'
      BY <1>1, <1>13, <2>1, <2>2, <3>1 DEF DirSound
    <3>4. heard'[p] = GaveSummary(p)'
      BY <1>10, <1>11, <2>1, <2>2 DEF DirSound
    <3>5. children'[p] \subseteq Within(p)' /\ based'[p] \subseteq Dir
      BY <1>14, <2>1, <2>2 DEF DirSound
    <3> QED BY <2>2, <3>1, <3>2, <3>3, <3>4, <3>5 DEF DirSound, Stages, Summing
  <2>3. CASE d = x
    <3>1. d # p /\ stage'[d] \in {"done", "failed"} /\ (stage'[d] = "done" => stage[d] \in Summing)
          /\ stage[d] \notin {"unknown", "listed"}
      BY <1>1, <1>7, <2>3 DEF Settled
    <3>2. Awaited(d)' = {}
      BY <1>9, <2>1, <3>1 DEF DirSound
    <3> QED BY <1>4, <1>9, <1>10, <1>12, <1>13, <1>14, <2>1, <3>1, <3>2 DEF DirSound, Stages, Summing
  <2>4. CASE d # p /\ d # x
    BY <1>3, <1>4, <1>9, <1>10, <1>12, <1>13, <1>14, <2>1, <2>4 DEF DirSound
  <2> QED BY <2>2, <2>3, <2>4
<1>16. DagFrame'
  <2>1. (\E d \in Dir : stage'[d] = "queued") => \E d \in Dir : stage'[d] = "llm"
    <3> SUFFICES ASSUME NEW q \in Dir, stage'[q] = "queued" PROVE \E d \in Dir : stage'[d] = "llm"
      OBVIOUS
    <3>1. q # p /\ q # x
      BY <1>3, <1>7 DEF Settled
    <3>2. PICK d \in Dir : stage[d] = "llm"
      BY <1>1, <1>3, <3>1 DEF DagFrame
    <3> QED BY <1>1, <1>3, <3>2
  <2>2. stage'[Root] \in Settled => rootDone'
    <3>1. Root \in Dir /\ Root # x
      BY DagConstants
    <3> QED BY <1>1, <1>6, <3>1 DEF DagFrame
  <2>3. \A f \in fileTasks' : f \in children'[tree'[f]]
    BY <1>1 DEF DagFrame
  <2>4. based' = [d \in Dir |-> based'[d]] /\ children' = [d \in Dir |-> children'[d]]
    BY <1>1 DEF DagFrame
  <2>5. tree' \in Trees /\ fileTasks' \subseteq Leaf /\ rootDone' \in BOOLEAN
    BY <1>1 DEF DagFrame
  <2> QED BY <1>3, <1>4, <1>10, <2>1, <2>2, <2>3, <2>4, <2>5 DEF DagFrame
<1> QED BY <1>15, <1>16 DEF DagInv

(***************************************************************************)
(* Summaries under way: no child and no parent hears of them.              *)
(***************************************************************************)
LEMMA WorkKeeps ==
  ASSUME DagInv, UNCHANGED <<tree, children, waitsFor, heard, fileTasks, rootDone>>,
         stage' = [d \in Dir |-> stage'[d]], based' = [d \in Dir |-> based'[d]],
         \A d \in Dir : stage'[d] = stage[d] \/ (stage[d] \in AtWork /\ stage'[d] \in AtWork),
         \A d \in Dir : based'[d] = based[d] \/ based'[d] = heard[d],
         \A d \in Dir : stage'[d] \in Summing => stage[d] \in Summing \/ based'[d] = heard[d],
         (\E d \in Dir : stage'[d] = "queued") => \E d \in Dir : stage'[d] = "llm"
  PROVE  DagInv'
<1>1. \A d \in Dir : /\ stage'[d] \in Settled <=> stage[d] \in Settled
                     /\ stage'[d] = "done" <=> stage[d] = "done"
  BY DEF AtWork, Settled
<1>2. \A d \in Dir : Awaited(d)' = Awaited(d) /\ GaveSummary(d)' = GaveSummary(d) /\ (Met(d)' <=> Met(d))
                     /\ Within(d)' = Within(d)
  BY <1>1 DEF Awaited, GaveSummary, Met, Within
<1>3. ASSUME NEW d \in Dir PROVE DirSound(d)'
  <2>1. DirSound(d) /\ GaveSummary(d) \subseteq Dir
    BY DEF DagInv, GaveSummary
  <2>2. stage'[d] = stage[d] \/ (stage[d] \in AtWork /\ stage'[d] \in AtWork)
    OBVIOUS
  <2>3. based'[d] \subseteq Dir /\ (stage'[d] \in Summing => based'[d] = heard[d])
    BY <2>1 DEF DirSound
  <2> QED BY <1>2, <2>1, <2>2, <2>3 DEF DirSound, AtWork, Stages
<1>4. DagFrame'
  BY <1>1, DagConstants DEF DagInv, DagFrame
<1> QED BY <1>3, <1>4 DEF DagInv

LEMMA SummaryStarts ==
  ASSUME DagInv, NEW d \in Dir, StartSummary(d)
  PROVE  DagInv'
<1>1. PICK next \in {"llm", "queued"} :
         /\ stage[d] = "summary" /\ based' = [based EXCEPT ![d] = heard[d]]
         /\ stage' = [stage EXCEPT ![d] = next]
         /\ next = "queued" => ~(Cardinality(InLLM) < MaxLLM)
         /\ UNCHANGED <<tree, children, waitsFor, heard, fileTasks, rootDone>>
  BY DEF StartSummary
<1>2. /\ stage' = [e \in Dir |-> stage'[e]] /\ based' = [e \in Dir |-> based'[e]]
      /\ stage'[d] = next /\ \A e \in Dir \ {d} : stage'[e] = stage[e]
      /\ based'[d] = heard[d] /\ \A e \in Dir \ {d} : based'[e] = based[e]
  BY <1>1 DEF DagInv, DagFrame
<1>3. (\E e \in Dir : stage'[e] = "queued") => \E e \in Dir : stage'[e] = "llm"
  <2>1. CASE next = "llm"
    BY <1>2, <2>1
  <2>2. CASE next = "queued"
    <3>1. Cardinality({}) < MaxLLM
      BY DagConstants, FS_EmptySet
    <3>2. PICK e \in Dir : stage[e] = "llm"
      BY <1>1, <2>2, <3>1 DEF InLLM
    <3> QED BY <1>1, <1>2, <3>2
  <2> QED BY <2>1, <2>2
<1> QED BY <1>1, <1>2, <1>3, WorkKeeps DEF AtWork

LEMMA SummaryMade ==
  ASSUME DagInv, NEW d \in Dir, Summarised(d)
  PROVE  DagInv'
<1>1. PICK next \in Dir :
         /\ stage[d] = "llm"
         /\ next = d \/ stage[next] = "queued"
         /\ next = d => \A q \in Dir : stage[q] # "queued"
         /\ stage' = [e \in Dir |-> IF e = d THEN "write" ELSE IF e = next THEN "llm" ELSE stage[e]]
         /\ UNCHANGED <<tree, children, waitsFor, heard, fileTasks, rootDone, based>>
  BY DEF Summarised
<1>2. /\ stage' = [e \in Dir |-> stage'[e]] /\ based' = [e \in Dir |-> based'[e]]
      /\ \A e \in Dir : stage'[e] = stage[e] \/ (stage[e] \in AtWork /\ stage'[e] \in AtWork)
      /\ \A e \in Dir : stage'[e] \in Summing => stage[e] \in Summing
  BY <1>1 DEF DagInv, DagFrame, AtWork, Summing
<1>3. (\E e \in Dir : stage'[e] = "queued") => \E e \in Dir : stage'[e] = "llm"
  BY <1>1
<1> QED BY <1>1, <1>2, <1>3, WorkKeeps

\* The root reports to the handler.
LEMMA RootReports ==
  ASSUME DagInv, NEW how \in Settled,
         stage[Root] \notin {"unknown", "listed", "llm"}, how = "done" => stage[Root] \in Summing,
         stage' = [stage EXCEPT ![Root] = how], rootDone' = TRUE,
         UNCHANGED <<tree, children, waitsFor, heard, fileTasks, based>>
  PROVE  DagInv'
<1>1. /\ Root \in Dir /\ stage' = [d \in Dir |-> stage'[d]] /\ stage'[Root] = how
      /\ \A d \in Dir \ {Root} : stage'[d] = stage[d]
  BY DagConstants DEF DagInv, DagFrame
<1>2. \A d \in Dir : Root \notin children[d]
  BY WithinTyped
<1>3. \A d \in Dir : Awaited(d)' = Awaited(d) /\ GaveSummary(d)' = GaveSummary(d) /\ (Met(d)' <=> Met(d))
                     /\ Within(d)' = Within(d)
  BY <1>1, <1>2 DEF Awaited, GaveSummary, Met, Within
<1>4. ASSUME NEW d \in Dir PROVE DirSound(d)'
  <2>1. DirSound(d)
    BY DEF DagInv
  <2>2. CASE d = Root
    BY <1>1, <1>3, <2>1, <2>2 DEF DirSound, Settled, Stages, Summing
  <2>3. CASE d # Root
    BY <1>1, <1>3, <2>1, <2>3 DEF DirSound
  <2> QED BY <2>2, <2>3
<1>5. DagFrame'
  <2>1. (\E e \in Dir : stage'[e] = "queued") => \E e \in Dir : stage'[e] = "llm"
    BY <1>1 DEF DagInv, DagFrame, Settled
  <2>2. rootDone' \in BOOLEAN
    BY Zenon
  <2> QED BY <1>1, <2>1, <2>2 DEF DagInv, DagFrame
<1> QED BY <1>4, <1>5 DEF DagInv

LEMMA SettleKeeps ==
  ASSUME DagInv, NEW d \in Dir, NEW how \in Settled, Settle(d, how),
         stage[d] \in {"dispatch", "write", "embed", "upsert"}, how = "done" => stage[d] = "upsert",
         UNCHANGED <<tree, children, fileTasks, based>>
  PROVE  DagInv'
<1>1. CASE d = Root
  BY <1>1, RootReports DEF Settle, Summing
<1>2. CASE d # Root
  <2>1. PICK p \in Dir : p = tree[d]
    BY <1>2, WithinTyped
  <2>2. PICK at : at = [stage EXCEPT ![d] = how]
    OBVIOUS
  <2>3. /\ at = [e \in Dir |-> at[e]] /\ at[d] = how /\ \A e \in Dir \ {d} : at[e] = stage[e]
    BY <2>2 DEF DagInv, DagFrame
  <2>4. CountDown(p, at) /\ UNCHANGED rootDone
        /\ heard' = IF how = "done" THEN [heard EXCEPT ![p] = @ \cup {d}] ELSE heard
    BY <1>2, <2>1, <2>2 DEF Settle
  <2>5. d \in Awaited(p)
    <3>1. DirSound(d)
      BY DEF DagInv
    <3>2. Met(d)
      BY <3>1 DEF DirSound
    <3> QED BY <1>2, <2>1, <3>2 DEF Met, Awaited, Settled
  <2>6. fileTasks' = fileTasks \ {d}
    BY DagConstants DEF DagInv, DagFrame
  <2> QED BY <1>2, <2>1, <2>3, <2>4, <2>5, <2>6, ReportKeeps DEF Summing
<1> QED BY <1>1, <1>2

LEMMA StoreKeeps ==
  ASSUME DagInv, NEW d \in Dir, Store(d) \/ StoreFails(d) \/ DispatchFails(d)
  PROVE  DagInv'
<1>1. CASE stage[d] = "upsert" /\ Settle(d, "done") /\ UNCHANGED <<tree, children, fileTasks, based>>
  BY <1>1, SettleKeeps DEF Settled
<1>2. CASE StoreFails(d) \/ DispatchFails(d)
  BY <1>2, SettleKeeps DEF Settled, StoreFails, DispatchFails
<1>3. CASE \E next \in {"embed", "upsert"} :
             /\ stage[d] \in {"write", "embed"} /\ stage' = [stage EXCEPT ![d] = next]
             /\ UNCHANGED <<tree, children, waitsFor, heard, fileTasks, rootDone, based>>
  <2>1. PICK next \in {"embed", "upsert"} :
          /\ stage[d] \in {"write", "embed"} /\ stage' = [stage EXCEPT ![d] = next]
          /\ UNCHANGED <<tree, children, waitsFor, heard, fileTasks, rootDone, based>>
    BY <1>3
  <2>2. /\ stage' = [e \in Dir |-> stage'[e]] /\ based' = [e \in Dir |-> based'[e]]
        /\ stage'[d] = next /\ \A e \in Dir \ {d} : stage'[e] = stage[e]
    BY <2>1 DEF DagInv, DagFrame
  <2>3. (\E e \in Dir : stage'[e] = "queued") => \E e \in Dir : stage'[e] = "llm"
    BY <2>1, <2>2 DEF DagInv, DagFrame
  <2> QED BY <2>1, <2>2, <2>3, WorkKeeps DEF AtWork, Summing
<1> QED BY <1>1, <1>2, <1>3 DEF Store

LEMMA FileKeeps ==
  ASSUME DagInv, NEW f \in Leaf, FileDone(f)
  PROVE  DagInv'
<1>1. /\ f \in fileTasks /\ fileTasks' = fileTasks \ {f} /\ CountDown(tree[f], stage)
      /\ UNCHANGED <<tree, children, heard, rootDone, based>>
  BY DEF FileDone
<1>2. f \in (Dir \cup Leaf) \ {Root} /\ f \notin Dir
  BY DagConstants
<1>3. PICK p \in Dir : p = tree[f]
  BY <1>2, DagConstants, WithinTyped
<1>4. f \in Awaited(p) /\ stage = [d \in Dir |-> stage[d]]
  BY <1>1, <1>3 DEF DagInv, DagFrame, Awaited
<1>5. PICK at : at = stage
  OBVIOUS
<1> QED BY <1>1, <1>2, <1>3, <1>4, <1>5, ReportKeeps

(***************************************************************************)
(* A directory meets its children: they were unknown until now.            *)
(***************************************************************************)
LEMMA DispatchKeeps ==
  ASSUME DagInv, NEW d \in Dir, Dispatch(d)
  PROVE  DagInv'
<1>1. PICK kept \in SUBSET Within(d) :
         /\ stage[d] = "dispatch"
         /\ children' = [children EXCEPT ![d] = kept]
         /\ waitsFor' = [waitsFor EXCEPT ![d] = Cardinality(kept)]
         /\ stage' = [e \in Dir |->
              IF e = d THEN IF kept = {} THEN "summary" ELSE "listed"
              ELSE IF e \in kept THEN "dispatch" ELSE stage[e]]
         /\ fileTasks' = fileTasks \cup (kept \cap Leaf)
         /\ UNCHANGED <<tree, heard, rootDone, based>>
  BY DEF Dispatch
<1>2. /\ children' = [e \in Dir |-> children'[e]] /\ children'[d] = kept
      /\ \A e \in Dir \ {d} : children'[e] = children[e]
      /\ waitsFor' = [e \in Dir |-> waitsFor'[e]] /\ waitsFor'[d] = Cardinality(kept)
      /\ \A e \in Dir \ {d} : waitsFor'[e] = waitsFor[e]
  BY <1>1 DEF DagInv, DagFrame
<1>3. children[d] = {} /\ Met(d) /\ Awaited(d) = {} /\ GaveSummary(d) = {}
  BY <1>1 DEF DagInv, DirSound, Awaited, GaveSummary
<1>4. kept \subseteq (Dir \cup Leaf) \ {Root} /\ \A e \in kept : tree[e] = d
  BY WithinTyped
<1>5. d \notin kept /\ \A e \in kept \cap Dir : stage[e] = "unknown" /\ children[e] = {}
  <2>1. \A e \in kept : ~Met(e)
    BY <1>3, <1>4 DEF Met
  <2>2. \A e \in kept \cap Dir : stage[e] = "unknown"
    BY <2>1 DEF DagInv, DirSound
  <2> QED BY <1>1, <2>2 DEF DagInv, DirSound
<1>6. \A e \in Dir : /\ stage'[e] \in Settled <=> stage[e] \in Settled
                     /\ stage'[e] = "done" <=> stage[e] = "done"
                     /\ stage'[e] = "llm" <=> stage[e] = "llm"
                     /\ stage'[e] = "queued" <=> stage[e] = "queued"
  BY <1>1, <1>5 DEF Settled
<1>7. \A e \in Dir \ {d} : children[e] \cap kept = {} /\ children[e] \subseteq Within(e)
  BY <1>4, WithinTyped
<1>8. \A e \in Dir \ {d} : Awaited(e)' = Awaited(e) /\ GaveSummary(e)' = GaveSummary(e)
  BY <1>1, <1>2, <1>6, <1>7 DEF Awaited, GaveSummary
<1>9. Awaited(d)' = kept /\ GaveSummary(d)' = {}
  <2>1. \A e \in kept \cap Dir : stage'[e] = "dispatch"
    BY <1>1, <1>5
  <2> QED BY <1>1, <1>2, <1>4, <2>1 DEF Awaited, GaveSummary, Settled
<1>10. \A e \in Dir : Met(e)' <=> Met(e) \/ e \in kept
  <2> SUFFICES ASSUME NEW e \in Dir PROVE Met(e)' <=> Met(e) \/ e \in kept
    OBVIOUS
  <2>1. CASE e = Root
    BY <2>1 DEF Met
  <2>2. CASE e # Root
    <3>1. tree[e] \in Dir
      BY <2>2, WithinTyped
    <3>2. CASE tree[e] = d
      BY <1>1, <1>2, <1>3, <2>2, <3>2 DEF Met
    <3>3. CASE tree[e] # d
      BY <1>1, <1>2, <1>4, <2>2, <3>1, <3>3 DEF Met
    <3> QED BY <3>2, <3>3
  <2> QED BY <2>1, <2>2
<1>11. \A e \in Dir : Within(e)' = Within(e)
  BY <1>1 DEF Within
<1>12. ASSUME NEW e \in Dir PROVE DirSound(e)'
  <2>1. DirSound(e)
    BY DEF DagInv
  <2>2. CASE e = d
    <3>1. stage'[d] \in {"summary", "listed"} /\ (stage'[d] = "listed" <=> kept # {})
      BY <1>1
    <3>2. heard'[d] = GaveSummary(d)' /\ based'[d] \subseteq Dir
      BY <1>1, <1>3, <1>9, <2>1, <2>2 DEF DirSound
    <3> QED BY <1>2, <1>3, <1>9, <1>10, <1>11, <2>2, <3>1, <3>2 DEF DirSound, Stages, Summing
  <2>3. CASE e \in kept
    <3>1. stage'[e] = "dispatch" /\ stage[e] = "unknown" /\ e # d /\ children'[e] = {}
      BY <1>1, <1>2, <1>5, <2>3
    <3> QED BY <1>1, <1>2, <1>8, <1>10, <1>11, <2>1, <2>3, <3>1 DEF DirSound, Stages, Summing
  <2>4. CASE e # d /\ e \notin kept
    <3>1. stage'[e] = stage[e]
      BY <1>1, <2>4
    <3> QED BY <1>1, <1>2, <1>8, <1>10, <1>11, <2>1, <2>4, <3>1 DEF DirSound
  <2> QED BY <2>2, <2>3, <2>4
<1>13. DagFrame'
  <2>1. stage' = [e \in Dir |-> stage'[e]]
    BY <1>1
  <2>2. \A f \in fileTasks' : f \in children'[tree'[f]]
    <3> SUFFICES ASSUME NEW f \in fileTasks' PROVE f \in children'[tree[f]]
      BY <1>1
    <3>1. CASE f \in kept
      BY <1>2, <1>4, <3>1
    <3>2. CASE f \notin kept
      <4>1. f \in fileTasks /\ f \in children[tree[f]]
        BY <1>1, <3>2 DEF DagInv, DagFrame
      <4>2. f \in (Dir \cup Leaf) \ {Root}
        BY <4>1, DagConstants DEF DagInv, DagFrame
      <4>3. tree[f] \in Dir
        BY <4>2, WithinTyped
      <4> QED BY <1>2, <1>3, <4>1, <4>3
    <3> QED BY <3>1, <3>2
  <2>3. stage'[Root] \in Settled => rootDone'
    BY <1>1, <1>6, DagConstants DEF DagInv, DagFrame
  <2>4. (\E e \in Dir : stage'[e] = "queued") => \E e \in Dir : stage'[e] = "llm"
    BY <1>6 DEF DagInv, DagFrame
  <2> QED BY <1>1, <1>2, <2>1, <2>2, <2>3, <2>4 DEF DagInv, DagFrame
<1> QED BY <1>12, <1>13 DEF DagInv

LEMMA DagStart ==
  ASSUME DagInit
  PROVE  DagInv
<1>1. /\ stage = [d \in Dir |-> IF d = Root THEN "dispatch" ELSE "unknown"]
      /\ children = [d \in Dir |-> {}] /\ waitsFor = [d \in Dir |-> 0]
      /\ heard = [d \in Dir |-> {}] /\ based = [d \in Dir |-> {}] /\ fileTasks = {} /\ tree \in Trees
  BY DEF DagInit
<1>2. tree \in [(Dir \cup Leaf) \ {Root} -> Dir] /\ Root \in Dir
  BY <1>1, DagConstants
<1>3. ASSUME NEW d \in Dir PROVE DirSound(d)
  <2>1. Awaited(d) = {} /\ GaveSummary(d) = {} /\ Cardinality({}) = 0 /\ children[d] = {}
    BY <1>1, FS_EmptySet DEF Awaited, GaveSummary
  <2>2. Met(d) <=> d = Root
    BY <1>1, <1>2 DEF Met
  <2> QED BY <1>1, <2>1, <2>2 DEF DirSound, Stages, Summing
<1>4. rootDone \in BOOLEAN
  BY Zenon DEF DagInit
<1>5. DagFrame
  BY <1>1, <1>2, <1>4 DEF DagFrame, Settled
<1> QED BY <1>3, <1>5 DEF DagInv

LEMMA DagStep ==
  ASSUME DagInv, [DagNext]_dagVars
  PROVE  DagInv'
<1>1. CASE UNCHANGED dagVars
  <2>1. UNCHANGED <<tree, stage, children, waitsFor, heard, fileTasks, rootDone, based>>
    BY <1>1 DEF dagVars
  <2>2. DagFrame'
    BY <2>1 DEF DagInv, DagFrame
  <2>3. \A d \in Dir : Awaited(d)' = Awaited(d) /\ GaveSummary(d)' = GaveSummary(d) /\ (Met(d)' <=> Met(d))
                       /\ Within(d)' = Within(d)
    BY <2>1 DEF Awaited, GaveSummary, Met, Within
  <2>4. \A d \in Dir : DirSound(d)'
    BY <2>1, <2>3 DEF DagInv, DirSound
  <2> QED BY <2>2, <2>4 DEF DagInv
<1>2. CASE DagNext
  BY <1>2, DispatchKeeps, StoreKeeps, SummaryStarts, SummaryMade, FileKeeps DEF DagNext
<1> QED BY <1>1, <1>2

(***************************************************************************)
(* The invariant of the tasks of one event.                                *)
(* (directory_event_handler.py:147-176, 239-302)                           *)
(***************************************************************************)
THEOREM DagInvariant == DagSpec => []DagInv
  BY DagStart, DagStep, PTL DEF DagSpec

(***************************************************************************)
(* Every variable of the DAG keeps its type.                               *)
(***************************************************************************)
THEOREM DagTypeCorrect == DagSpec => []DagTypeOK
<1>1. DagInv => DagTypeOK
  <2> SUFFICES ASSUME DagInv PROVE DagTypeOK
    OBVIOUS
  <2>1. \A d \in Dir : /\ stage[d] \in Stages /\ children[d] \in SUBSET (Dir \cup Leaf)
                      /\ heard[d] \in SUBSET Dir /\ based[d] \in SUBSET Dir /\ waitsFor[d] \in Nat
    BY WithinTyped, AwaitedTyped DEF DagInv, DirSound, GaveSummary
  <2> QED BY <2>1 DEF DagInv, DagFrame, DagTypeOK
<1> QED BY <1>1, DagInvariant, PTL

(***************************************************************************)
(* Each summary is made from exactly those its children gave.              *)
(* (directory_event_handler.py:300-302, 338-379)                           *)
(***************************************************************************)
THEOREM SummariesBottomUp == DagSpec => []BottomUp
<1>1. DagInv => BottomUp
  <2> SUFFICES ASSUME DagInv, NEW d \in Dir, stage[d] \in {"queued", "llm", "write", "embed", "upsert", "done"}
               PROVE  /\ \A c \in children[d] \cap Dir : stage[c] \in Settled
                      /\ based[d] = {c \in children[d] \cap Dir : stage[c] = "done"}
    BY DEF BottomUp
  <2> QED BY DEF DagInv, DirSound, Awaited, GaveSummary, Summing
<1> QED BY <1>1, DagInvariant, PTL

(***************************************************************************)
(* Until the root has reported a task can run: a directory that waits      *)
(* waits for a child, and the directories are finitely many.               *)
(* (directory_event_handler.py:147-176, 239-245, 259-302)                  *)
(***************************************************************************)
LEMMA SomeoneWorks ==
  ASSUME DagInv
  PROVE  DagEnds
<1> SUFFICES ASSUME ~rootDone, fileTasks = {}, \A d \in Dir : stage[d] # "llm",
                    \A d \in Dir : stage[d] \notin {"dispatch", "summary", "write", "embed", "upsert"}
             PROVE  FALSE
  BY DEF DagEnds, InLLM
<1>1. Root \in Dir /\ stage[Root] \notin Settled /\ (\A d \in Dir : stage[d] # "queued")
  BY DagConstants DEF DagInv, DagFrame
<1>2. PICK L \in SUBSET Dir : L = {d \in Dir : stage[d] = "listed"}
  OBVIOUS
<1>3. \A d \in Dir : stage[d] \in {"unknown", "listed"} \/ stage[d] \in Settled
  BY <1>1 DEF DagInv, DirSound, Stages, Settled
<1>4. Root \in L
  <2>1. Met(Root) /\ stage[Root] # "unknown"
    BY <1>1 DEF Met, DagInv, DirSound
  <2> QED BY <1>1, <1>2, <1>3, <2>1
<1>5. ASSUME NEW d \in L PROVE \E c \in L \ {Root} : tree[c] = d
  <2>1. d \in Dir /\ stage[d] = "listed"
    BY <1>2
  <2>2. PICK c \in Awaited(d) : TRUE
    BY <2>1 DEF DagInv, DirSound
  <2>3. c \in children[d] /\ c \in Dir /\ stage[c] \notin Settled
    BY <2>2 DEF Awaited
  <2>4. tree[c] = d /\ c # Root
    BY <2>1, <2>3, WithinTyped
  <2>5. stage[c] # "unknown"
    BY <2>3, <2>4 DEF Met, DagInv, DirSound
  <2> QED BY <1>2, <1>3, <2>3, <2>4, <2>5
<1>6. IsFiniteSet(L) /\ IsFiniteSet(L \ {Root}) /\ Cardinality(L \ {Root}) = Cardinality(L) - 1
  BY <1>2, <1>4, DagConstants, FS_Subset, FS_RemoveElement
<1>7. PICK child \in [L -> L \ {Root}] : \A d \in L : tree[child[d]] = d
  <2>1. PICK child : child = [d \in L |-> CHOOSE c \in L \ {Root} : tree[c] = d]
    OBVIOUS
  <2>2. \A d \in L : child[d] \in L \ {Root} /\ tree[child[d]] = d
    BY <1>5, <2>1
  <2>3. child \in [L -> L \ {Root}]
    BY <2>1, <2>2
  <2> QED BY <2>2, <2>3
<1>8. Cardinality(L \ {Root}) < Cardinality(L)
  BY <1>6, FS_CardinalityType
<1>9. PICK x \in L, y \in L : x # y /\ child[x] = child[y]
  BY <1>6, <1>8, FS_PigeonHole
<1> QED BY <1>7, <1>9

(***************************************************************************)
(* For any finite tree and whatever fails in it: as long as the root has   *)
(* not reported there is a task that can run, and the polling thread does  *)
(* not wait for ever.  (directory_event_handler.py:147-176, 239-245,       *)
(* 259-302)                                                                *)
(***************************************************************************)
THEOREM EventsEnd == DagSpec => []DagEnds
  BY SomeoneWorks, DagInvariant, PTL
-----------------------------------------------------------------------------
(***************************************************************************)
(* Search: a hit is left out only for others that are as good.             *)
(***************************************************************************)
Directory == (Entry \ Level2) \cup {SearchRoot}

SearchInv ==
    /\ SearchTypeOK
    /\ searching = "loop" => rounds < MaxRounds
    /\ searching = "seed" => rounds = 0
    /\ hits # {} => searching = "done"
    /\ MissingOutranked

LEMMA SearchConstants ==
  /\ IsFiniteSet(Entry) /\ Level2 \subseteq Entry /\ SearchRoot \notin Entry
  /\ Parents \in [Entry -> (Entry \ Level2) \cup {SearchRoot}]
  /\ Similarities \subseteq [Entry -> Int]
  /\ SeedCount \in Nat /\ TopK \in Nat /\ TopK > 0 /\ MaxRounds \in Nat /\ MaxRounds > 0
  BY SearchAssumption

\* Whoever is not among the best is outranked by as many as were asked for.
LEMMA Outranked ==
  ASSUME NEW score, IsFiniteSet(DOMAIN score), NEW k \in Nat, NEW top \in BestOf(score, k),
         NEW e \in DOMAIN score, e \notin top
  PROVE  Cardinality({o \in DOMAIN score \ {e} : score[o] >= score[e]}) >= k
<1>1. /\ top \subseteq DOMAIN score
      /\ Cardinality(top) = IF Cardinality(DOMAIN score) < k THEN Cardinality(DOMAIN score) ELSE k
      /\ \A t \in top, u \in DOMAIN score \ top : score[u] <= score[t]
  BY DEF BestOf
<1>2. IsFiniteSet(top) /\ Cardinality(top) \in Nat /\ Cardinality(DOMAIN score) \in Nat
  BY <1>1, FS_Subset, FS_CardinalityType
<1>3. Cardinality(top) < Cardinality(DOMAIN score)
  BY <1>1, <1>2, FS_Subset
<1>4. Cardinality(top) = k
  BY <1>1, <1>2, <1>3
<1> DEFINE better == {o \in DOMAIN score \ {e} : score[o] >= score[e]}
<1>5. top \subseteq better
  BY <1>1
<1>6. IsFiniteSet(better) /\ Cardinality(better) \in Nat
  <2>1. better \subseteq DOMAIN score
    OBVIOUS
  <2> QED BY <2>1, FS_Subset, FS_CardinalityType
<1>7. Cardinality(top) <= Cardinality(better)
  BY <1>5, <1>6, FS_Subset
<1> QED BY <1>2, <1>4, <1>6, <1>7

LEMMA SearchStarts ==
  ASSUME SearchInv, Seed
  PROVE  SearchInv'
<1>1. PICK seeds \in BestOf(similarity, SeedCount) :
         /\ found' = [s \in seeds \cap Level2 |-> similarity[s]]
         /\ dirQueue' = {<<similarity[s], s>> : s \in seeds \ Level2} \cup {<<0, SearchRoot>>}
  BY DEF Seed
<1>2. seeds \subseteq Entry /\ similarity \in [Entry -> Int]
  BY <1>1 DEF BestOf, SearchInv, SearchTypeOK
<1>3. \A e \in Entry : similarity[e] \in Int
  BY <1>2
<1>4. dirQueue' \subseteq Int \X Directory
  BY <1>1, <1>2, <1>3 DEF Directory
<1>5. DOMAIN found' \subseteq Entry /\ \A e \in DOMAIN found' : found'[e] \in Int
  BY <1>1, <1>2, <1>3
<1>6. searching' = "loop" /\ UNCHANGED <<similarity, visited, prevTop, rounds, hits>> /\ rounds = 0 /\ hits = {}
  BY DEF Seed, SearchInv
<1> QED BY <1>4, <1>5, <1>6, SearchConstants DEF SearchInv, SearchTypeOK, MissingOutranked, Directory

LEMMA SearchPasses ==
  ASSUME SearchInv, Pass
  PROVE  SearchInv'
<1>1. PICK q \in HeapTop : dirQueue' = dirQueue \ {q} /\ visited' = visited \cup {q[2]}
  BY DEF Pass
<1>2. q \in Int \X Directory
  BY <1>1 DEF HeapTop, SearchInv, SearchTypeOK, Directory
<1>3. q[2] \in Directory
  BY <1>2
<1>4. UNCHANGED <<similarity, searching, found, prevTop, rounds, hits>> /\ searching = "loop"
  BY DEF Pass
<1> QED BY <1>1, <1>3, <1>4 DEF SearchInv, SearchTypeOK, MissingOutranked, Directory

LEMMA SearchOpens ==
  ASSUME SearchInv, Open
  PROVE  SearchInv'
<1>1. PICK q, opened, top :
         /\ q \in HeapTop
         /\ opened = [e \in {c \in Children(q[2]) : Propagated(c, q[1]) > 0} |-> Propagated(e, q[1])]
         /\ visited' = visited \cup {q[2]}
         /\ dirQueue' = (dirQueue \ {q}) \cup {<<opened[e], e>> : e \in (DOMAIN opened \ Level2) \ visited'}
         /\ found' = Merged(opened)
         /\ top \in BestOf(found', TopK) /\ Converges(top)
  BY DEF Open
<1>2. /\ UNCHANGED <<similarity, hits>> /\ searching = "loop" /\ hits = {} /\ rounds < MaxRounds
      /\ rounds \in Nat
  BY SearchConstants DEF Open, SearchInv, SearchTypeOK
<1>3. q \in Int \X Directory
  BY <1>1 DEF HeapTop, SearchInv, SearchTypeOK, Directory
<1>4. q[1] \in Int /\ q[2] \in Directory /\ similarity \in [Entry -> Int]
  BY <1>3 DEF SearchInv, SearchTypeOK
<1>5. DOMAIN opened \subseteq Entry /\ \A e \in DOMAIN opened : opened[e] \in Int
  <2>1. \A e \in Entry : Propagated(e, q[1]) \in Int
    BY <1>4 DEF Propagated
  <2> QED BY <1>1, <2>1 DEF Children
<1>6. DOMAIN found' \subseteq Entry /\ \A e \in DOMAIN found' : found'[e] \in Int
  <2>1. DOMAIN found \subseteq Entry /\ \A e \in DOMAIN found : found[e] \in Int
    BY DEF SearchInv, SearchTypeOK
  <2>2. DOMAIN found' = DOMAIN found \cup DOMAIN opened
        /\ \A e \in DOMAIN found' : \/ e \in DOMAIN found /\ found'[e] = found[e]
                                    \/ e \in DOMAIN opened /\ found'[e] = opened[e]
    BY <1>1 DEF Merged
  <2> QED BY <1>5, <2>1, <2>2
<1>7. visited' \subseteq Directory /\ dirQueue' \subseteq Int \X Directory
  <2>1. visited \subseteq Directory /\ dirQueue \subseteq Int \X Directory
    BY DEF SearchInv, SearchTypeOK, Directory
  <2>2. \A e \in (DOMAIN opened \ Level2) \ visited' : <<opened[e], e>> \in Int \X Directory
    BY <1>5 DEF Directory
  <2> QED BY <1>1, <1>4, <2>1, <2>2
<1>8. top \subseteq Entry
  BY <1>1, <1>6 DEF BestOf
<1>9. /\ prevTop' \subseteq Entry /\ rounds' \in 0..MaxRounds /\ searching' \in {"loop", "rank"}
      /\ searching' = "loop" => rounds' < MaxRounds
  BY <1>1, <1>2, <1>8, SearchConstants DEF Converges, SearchInv, SearchTypeOK
<1> QED BY <1>2, <1>6, <1>7, <1>9 DEF SearchInv, SearchTypeOK, MissingOutranked, Directory

LEMMA SearchRanks ==
  ASSUME SearchInv, Rank
  PROVE  SearchInv'
<1>1. PICK top \in BestOf(found, TopK) : hits' = top \cap Level2
  BY DEF Rank
<1>2. UNCHANGED <<similarity, dirQueue, visited, found, prevTop, rounds>> /\ searching' = "done"
  BY DEF Rank
<1>3. IsFiniteSet(DOMAIN found) /\ TopK \in Nat
  BY SearchConstants, FS_Subset DEF SearchInv, SearchTypeOK
<1>4. ASSUME NEW e \in (DOMAIN found \cap Level2) \ hits'
      PROVE  Cardinality({o \in DOMAIN found \ {e} : found[o] >= found[e]}) >= TopK
  BY <1>1, <1>3, <1>4, Outranked
<1>5. MissingOutranked'
  BY <1>2, <1>4 DEF MissingOutranked
<1> QED BY <1>1, <1>2, <1>5, SearchConstants DEF SearchInv, SearchTypeOK

(***************************************************************************)
(* Queue, scores and convergence counter stay what the loop expects.       *)
(***************************************************************************)
THEOREM SearchInvariant == SearchSpec => []SearchInv
<1>1. SearchInit => SearchInv
  BY SearchConstants DEF SearchInit, SearchInv, SearchTypeOK, MissingOutranked
<1>2. SearchInv /\ [SearchNext]_searchVars => SearchInv'
  <2> SUFFICES ASSUME SearchInv, [SearchNext]_searchVars PROVE SearchInv'
    OBVIOUS
  <2>1. CASE Exhausted
    BY <2>1 DEF Exhausted, SearchInv, SearchTypeOK, MissingOutranked
  <2>2. CASE UNCHANGED searchVars
    BY <2>2 DEF searchVars, SearchInv, SearchTypeOK, MissingOutranked
  <2> QED BY <2>1, <2>2, SearchStarts, SearchPasses, SearchOpens, SearchRanks DEF SearchNext
<1> QED BY <1>1, <1>2, PTL DEF SearchSpec

(***************************************************************************)
(* The types of the search, whatever the index and the similarities are.   *)
(* (hierarchical_searcher.py)                                              *)
(***************************************************************************)
THEOREM SearchTypeCorrect == SearchSpec => []SearchTypeOK
<1>1. SearchInv => SearchTypeOK
  BY DEF SearchInv
<1> QED BY <1>1, SearchInvariant, PTL

(***************************************************************************)
(* A hit that was found is missing from the answer only because TopK       *)
(* others were found with no lower score, for every index, every numbers   *)
(* of seeds, hits and rounds, and every order of equal scores.             *)
(* (hierarchical_searcher.py:146-160, result_ranker.py:62-76)              *)
(***************************************************************************)
THEOREM OnlyTheOutranked == SearchSpec => []MissingOutranked
<1>1. SearchInv => MissingOutranked
  BY DEF SearchInv
<1> QED BY <1>1, SearchInvariant, PTL
-----------------------------------------------------------------------------
(***************************************************************************)
(* Code search: what a route has ranked, and what the answer makes of it.  *)
(***************************************************************************)
\* A set with 0, and with every number up to N whose predecessor it has, has
\* all numbers up to N.
LEMMA CountingUp ==
  ASSUME NEW N \in Nat, NEW P, 0 \in P, \A n \in 1..N : n - 1 \in P => n \in P
  PROVE  0..N \subseteq P
<1> DEFINE T == 0..N \ P
<1> SUFFICES ASSUME T # {} PROVE FALSE
  OBVIOUS
<1>0. T \in SUBSET Nat
  OBVIOUS
<1> HIDE DEF T
<1>1. PICK x \in T : \A y \in T : x <= y
  BY <1>0, Smallest
<1>2. x \in 1..N /\ x - 1 \in 0..N /\ x \notin P
  BY <1>1 DEF T
<1>3. x - 1 \notin T
  BY <1>1, <1>2
<1> QED BY <1>2, <1>3 DEF T

\* What N given functions make of a value, one after the other, can be written
\* as a function of the number of steps.
StepsOf(X, N, G) == N \in Nat /\ G \in [1..N -> [X -> X]]
InSteps(X, a, N, G) ==
    \E f \in [0..N -> X] : f[0] = a /\ \A n \in 1..N : f[n] = G[n][f[n - 1]]

LEMMA Recursion ==
  ASSUME NEW X, NEW N, NEW G, StepsOf(X, N, G), NEW a \in X
  PROVE  InSteps(X, a, N, G)
<1> USE DEF StepsOf, InSteps
<1> DEFINE Steps(f, k) == f[0] = a /\ \A n \in 1..k : f[n] = G[n][f[n - 1]]
           P == {k \in 0..N : \E f \in [0..k -> X] : Steps(f, k)}
<1>1. 0 \in P
  <2> DEFINE g == [n \in 0..0 |-> a]
  <2>1. g \in [0..0 -> X] /\ Steps(g, 0) /\ 0 \in 0..N
    OBVIOUS
  <2> HIDE DEF Steps, g
  <2> QED BY <2>1
<1>2. ASSUME NEW k \in 1..N, k - 1 \in P PROVE k \in P
  <2>1. PICK f \in [0..(k - 1) -> X] : Steps(f, k - 1)
    BY <1>2
  <2> DEFINE g == [n \in 0..k |-> IF n = k THEN G[k][f[k - 1]] ELSE f[n]]
  <2>2. g \in [0..k -> X]
    OBVIOUS
  <2>3. g[0] = a /\ g[k] = G[k][g[k - 1]]
    BY <2>1
  <2>4. ASSUME NEW n \in 1..k PROVE g[n] = G[n][g[n - 1]]
    <3>1. CASE n = k
      BY <2>3, <3>1
    <3>2. CASE n # k
      <4>1. n \in 1..(k - 1) /\ n \in 0..k /\ n - 1 \in 0..k /\ n - 1 # k
        BY <3>2
      <4>2. g[n] = f[n] /\ g[n - 1] = f[n - 1]
        BY <3>2, <4>1
      <4> QED BY <2>1, <4>1, <4>2
    <3> QED BY <3>1, <3>2
  <2>5. Steps(g, k)
    BY <2>3, <2>4
  <2>6. k \in 0..N
    OBVIOUS
  <2> HIDE DEF Steps, g
  <2> QED BY <2>2, <2>5, <2>6
<1> HIDE DEF P
<1>3. 0..N \subseteq P
  BY <1>1, <1>2, CountingUp
<1>4. PICK f \in [0..N -> X] : Steps(f, N)
  BY <1>3 DEF P
<1> QED BY <1>4

\* The snippets of the files are a sequence.
LEMMA AllSnippetsInSeq == AllSnippets \in Seq(Snippet)
<1> DEFINE N == Len(SnippetsOf)
           Eq(g) == g = [f \in 0..N |-> IF f = 0 THEN <<>> ELSE g[f - 1] \o SnippetsOf[f]]
           G == [f \in 1..N |-> [q \in Seq(Snippet) |-> q \o SnippetsOf[f]]]
           u == CHOOSE g : Eq(g)
           P == {n \in 0..N : u[n] \in Seq(Snippet)}
<1>1. /\ N \in Nat
      /\ \A f \in 1..N : SnippetsOf[f] \in Seq(Snippet)
  BY CodeSearchAssumption
<1>2. Eq(u)
  <2>1. G \in [1..N -> [Seq(Snippet) -> Seq(Snippet)]]
    BY <1>1
  <2> HIDE DEF G
  <2>2. PICK f \in [0..N -> Seq(Snippet)] :
          f[0] = <<>> /\ \A n \in 1..N : f[n] = G[n][f[n - 1]]
    <3>1. StepsOf(Seq(Snippet), N, G) /\ <<>> \in Seq(Snippet)
      BY <1>1, <2>1 DEF StepsOf
    <3>2. InSteps(Seq(Snippet), <<>>, N, G)
      BY <3>1, Recursion
    <3> QED BY <3>2 DEF InSteps
  <2>3. ASSUME NEW n \in 1..N PROVE G[n][f[n - 1]] = f[n - 1] \o SnippetsOf[n]
    <3>1. n - 1 \in 0..N
      BY <1>1
    <3> QED BY <3>1, <2>2 DEF G
  <2>4. Eq(f)
    <3>1. \A n \in 0..N : n # 0 => n \in 1..N
      BY <1>1
    <3> HIDE DEF N, G
    <3> QED BY <2>2, <2>3, <3>1
  <2> HIDE DEF Eq
  <2> QED BY <2>4
<1>3. 0 \in P /\ \A n \in 1..N : n - 1 \in P => n \in P
  <2> HIDE DEF u
  <2>1. u[0] = <<>> /\ \A n \in 1..N : u[n] = u[n - 1] \o SnippetsOf[n]
    BY <1>1, <1>2
  <2>2. ASSUME NEW n \in 1..N, n - 1 \in P PROVE n \in P
    <3>1. u[n - 1] \in Seq(Snippet) /\ SnippetsOf[n] \in Seq(Snippet) /\ n \in 0..N
      BY <1>1, <2>2
    <3>2. u[n] \in Seq(Snippet)
      BY <2>1, <3>1, ConcatProperties
    <3> QED BY <3>1, <3>2
  <2>3. 0 \in P
    <3>1. 0 \in 0..N
      BY <1>1
    <3>2. u[0] \in Seq(Snippet)
      <4>1. <<>> \in Seq(Snippet)
        OBVIOUS
      <4> QED BY <2>1, <4>1
    <3> QED BY <3>1, <3>2
  <2> HIDE DEF P
  <2> QED BY <2>2, <2>3
<1>4. u[N] \in Seq(Snippet)
  <2> HIDE DEF P, u
  <2>1. 0..N \subseteq P
    BY <1>1, <1>3, CountingUp
  <2> QED BY <1>1, <2>1 DEF P
<1> QED BY <1>4 DEF AllSnippets

\* What is left of a sequence is a sequence.
LEMMA AmongInSeq ==
  ASSUME NEW S, NEW seq \in Seq(S), NEW B
  PROVE  Among(seq, B) \in Seq(S)
<1> DEFINE N == Len(seq)
           Eq(g) == g = [n \in 0..N |-> IF n = 0 THEN <<>>
                                        ELSE IF seq[n] \in B THEN Append(g[n - 1], seq[n])
                                        ELSE g[n - 1]]
           G == [n \in 1..N |-> [q \in Seq(S) |->
                    IF seq[n] \in B THEN Append(q, seq[n]) ELSE q]]
           u == CHOOSE g : Eq(g)
           P == {n \in 0..N : u[n] \in Seq(S)}
<1>1. /\ N \in Nat
      /\ \A n \in 1..N : seq[n] \in S
  OBVIOUS
<1>2. Eq(u)
  <2>1. G \in [1..N -> [Seq(S) -> Seq(S)]]
    BY <1>1
  <2> HIDE DEF G
  <2>2. PICK f \in [0..N -> Seq(S)] :
          f[0] = <<>> /\ \A n \in 1..N : f[n] = G[n][f[n - 1]]
    <3>1. StepsOf(Seq(S), N, G) /\ <<>> \in Seq(S)
      BY <1>1, <2>1 DEF StepsOf
    <3>2. InSteps(Seq(S), <<>>, N, G)
      BY <3>1, Recursion
    <3> QED BY <3>2 DEF InSteps
  <2>3. ASSUME NEW n \in 1..N
        PROVE  G[n][f[n - 1]] = IF seq[n] \in B THEN Append(f[n - 1], seq[n]) ELSE f[n - 1]
    <3>1. n - 1 \in 0..N
      BY <1>1
    <3> QED BY <3>1, <2>2 DEF G
  <2>4. Eq(f)
    <3>1. \A n \in 0..N : n # 0 => n \in 1..N
      BY <1>1
    <3> HIDE DEF N, G
    <3> QED BY <2>2, <2>3, <3>1
  <2> HIDE DEF Eq
  <2> QED BY <2>4
<1>3. 0 \in P /\ \A n \in 1..N : n - 1 \in P => n \in P
  <2> HIDE DEF u
  <2>1. /\ u[0] = <<>>
        /\ \A n \in 1..N : u[n] = IF seq[n] \in B THEN Append(u[n - 1], seq[n]) ELSE u[n - 1]
    <3>1. \A n \in 0..N : u[n] = IF n = 0 THEN <<>>
                                  ELSE IF seq[n] \in B THEN Append(u[n - 1], seq[n])
                                  ELSE u[n - 1]
      BY <1>2
    <3>2. 0 \in 0..N /\ \A n \in 1..N : n \in 0..N /\ n # 0
      BY <1>1
    <3> HIDE DEF N
    <3> QED BY <3>1, <3>2
  <2>2. ASSUME NEW n \in 1..N, n - 1 \in P PROVE n \in P
    <3>1. u[n - 1] \in Seq(S) /\ seq[n] \in S /\ n \in 0..N
      BY <1>1, <2>2
    <3>2. u[n] \in Seq(S)
      <4>1. CASE seq[n] \in B
        <5>1. u[n] = Append(u[n - 1], seq[n])
          BY <2>1, <4>1
        <5> QED BY <3>1, <5>1, AppendProperties
      <4>2. CASE seq[n] \notin B
        <5>1. u[n] = u[n - 1]
          BY <2>1, <4>2
        <5> QED BY <3>1, <5>1
      <4> QED BY <4>1, <4>2
    <3> QED BY <3>1, <3>2
  <2>3. 0 \in P
    <3>1. 0 \in 0..N
      BY <1>1
    <3>2. u[0] \in Seq(S)
      <4>1. <<>> \in Seq(S)
        OBVIOUS
      <4> QED BY <2>1, <4>1
    <3> QED BY <3>1, <3>2
  <2> HIDE DEF P
  <2> QED BY <2>2, <2>3
<1>4. u[N] \in Seq(S)
  <2> HIDE DEF P, u
  <2>1. 0..N \subseteq P
    BY <1>1, <1>3, CountingUp
  <2> QED BY <1>1, <2>1 DEF P
<1> QED BY <1>4 DEF Among

\* A page rank reaches snippets only.
LEMMA RanksInDocs ==
  ASSUME NEW seeds \in SUBSET ToSet(docs)
  PROVE  Ranks(seeds) \subseteq ToSet(docs)
<1> DEFINE D == SUBSET ToSet(docs)
           Eq(g) == g = [n \in 0..14 |-> IF n = 0 THEN seeds ELSE Reached(g[n - 1])]
           G == [n \in 1..14 |-> [q \in D |-> Reached(q)]]
           u == CHOOSE g : Eq(g)
           P == {n \in 0..14 : u[n] \in D}
<1>1. \A q \in D : Reached(q) \in D
  BY DEF Reached, Out
<1>2. Eq(u)
  <2>1. G \in [1..14 -> [D -> D]]
    BY <1>1
  <2> HIDE DEF G
  <2>2. PICK f \in [0..14 -> D] :
          f[0] = seeds /\ \A n \in 1..14 : f[n] = G[n][f[n - 1]]
    <3>1. StepsOf(D, 14, G) /\ seeds \in D
      BY <2>1 DEF StepsOf
    <3>2. InSteps(D, seeds, 14, G)
      BY <3>1, Recursion
    <3> QED BY <3>2 DEF InSteps
  <2>3. ASSUME NEW n \in 1..14 PROVE G[n][f[n - 1]] = Reached(f[n - 1])
    <3>1. n - 1 \in 0..14
      OBVIOUS
    <3> QED BY <3>1, <2>2 DEF G
  <2>4. Eq(f)
    <3>1. \A n \in 0..14 : n # 0 => n \in 1..14
      OBVIOUS
    <3> HIDE DEF G
    <3> QED BY <2>2, <2>3, <3>1
  <2> HIDE DEF Eq
  <2> QED BY <2>4
<1>3. 0 \in P /\ \A n \in 1..14 : n - 1 \in P => n \in P
  <2> HIDE DEF u
  <2>1. u[0] = seeds /\ \A n \in 1..14 : u[n] = Reached(u[n - 1])
    BY <1>2
  <2> QED BY <1>1, <2>1
<1>4. u[14] \in D
  <2> HIDE DEF P, u
  <2>1. 0..14 \subseteq P
    BY <1>3, CountingUp
  <2> QED BY <2>1 DEF P
<1> QED BY <1>4 DEF Ranks

\* A sequence in which nothing occurs twice is as long as its set is large.
LEMMA DistinctLength ==
  ASSUME NEW S, NEW seq \in Seq(S), IsInjective(seq)
  PROVE  /\ IsFiniteSet(ToSet(seq)) /\ ToSet(seq) \subseteq S
         /\ Len(seq) = Cardinality(ToSet(seq)) /\ Distinct(seq)
<1> DEFINE N == Len(seq)
           T == ToSet(seq)
<1>1. N \in Nat /\ seq \in [1..N -> S] /\ DOMAIN seq = 1..N
  OBVIOUS
<1>2. T = {seq[i] : i \in 1..N}
  BY <1>1 DEF ToSet
<1>3. seq \in [1..N -> T]
  BY <1>1, <1>2
<1>4. seq \in Surjection(1..N, T) /\ seq \in Injection(1..N, T)
  BY <1>1, <1>2, <1>3 DEF Surjection, Injection, IsInjective
<1>5. IsFiniteSet(1..N) /\ Cardinality(1..N) = N
  BY <1>1, FS_Interval
<1> HIDE DEF N, T
<1>6. IsFiniteSet(T) /\ Cardinality(T) = N
  BY <1>4, <1>5, FS_Surjection
<1>7. T \subseteq S
  BY <1>1, <1>2
<1> QED BY <1>6, <1>7 DEF N, T, Distinct

\* An order of a finite set has each of its elements once.
LEMMA OrdersOfSet ==
  ASSUME NEW S, IsFiniteSet(S), NEW o \in Orders(S)
  PROVE  o \in Seq(S) /\ IsInjective(o) /\ ToSet(o) = S
<1> DEFINE N == Cardinality(S)
<1>1. N \in Nat
  BY FS_CardinalityType
<1>2. o \in [1..N -> S] /\ IsInjective(o) /\ DOMAIN o = 1..N
  BY DEF Orders, IsInjective
<1>3. o \in Injection(1..N, S)
  BY <1>2 DEF Injection
<1>4. Cardinality(1..N) = N
  BY <1>1, FS_Interval
<1> HIDE DEF N
<1>5. o \in Surjection(1..N, S)
  BY <1>3, <1>4, FS_Injection DEF N
<1>6. ToSet(o) = S
  BY <1>2, <1>5 DEF ToSet, Surjection
<1>7. o \in Seq(S)
  BY <1>1, <1>2
<1> QED BY <1>2, <1>6, <1>7

\* The first few of a sequence.
LEMMA CutOfSeq ==
  ASSUME NEW S, NEW seq \in Seq(S), NEW n \in Nat
  PROVE  /\ Cut(seq, n) \in Seq(S) /\ Len(Cut(seq, n)) = Least(n, Len(seq))
         /\ IsInjective(seq) => IsInjective(Cut(seq, n))
         /\ ToSet(Cut(seq, n)) \subseteq ToSet(seq)
<1> DEFINE m == Least(n, Len(seq))
           c == Cut(seq, n)
<1>1. m \in 0..Len(seq) /\ Len(seq) \in Nat
  BY DEF Least
<1>2. c = SubSeq(seq, 1, m)
  BY DEF Cut
<1> HIDE DEF c, m
<1>3. c \in Seq(S) /\ Len(c) = m /\ \A i \in 1..m : c[i] = seq[i]
  BY <1>1, <1>2
<1>4. DOMAIN c = 1..m /\ DOMAIN seq = 1..Len(seq) /\ 1..m \subseteq 1..Len(seq)
  BY <1>1, <1>3
<1>5. IsInjective(seq) => IsInjective(c)
  BY <1>3, <1>4 DEF IsInjective
<1>6. ToSet(c) \subseteq ToSet(seq)
  BY <1>3, <1>4 DEF ToSet
<1> QED BY <1>3, <1>5, <1>6 DEF c, m

\* What a new element adds.
LEMMA AppendNew ==
  ASSUME NEW S, NEW seq \in Seq(S), NEW x \in S
  PROVE  /\ Append(seq, x) \in Seq(S)
         /\ ToSet(Append(seq, x)) = ToSet(seq) \cup {x}
         /\ IsInjective(seq) /\ x \notin ToSet(seq) => IsInjective(Append(seq, x))
<1> DEFINE N == Len(seq)
           a == Append(seq, x)
<1>1. N \in Nat /\ DOMAIN seq = 1..N
  OBVIOUS
<1>2. /\ a \in Seq(S) /\ Len(a) = N + 1 /\ a[N + 1] = x
      /\ \A i \in 1..N : a[i] = seq[i]
  BY AppendProperties
<1>3. DOMAIN a = 1..(N + 1)
  BY <1>2
<1>4. 1..(N + 1) = 1..N \cup {N + 1}
  BY <1>1
<1> HIDE DEF a, N
<1>5. ToSet(a) = ToSet(seq) \cup {x}
  BY <1>1, <1>2, <1>3, <1>4 DEF ToSet
<1>6. ASSUME IsInjective(seq), x \notin ToSet(seq) PROVE IsInjective(a)
  <2> SUFFICES ASSUME NEW i \in DOMAIN a, NEW j \in DOMAIN a, a[i] = a[j] PROVE i = j
    BY DEF IsInjective
  <2>1. \A k \in 1..N : seq[k] # x
    BY <1>1, <1>6 DEF ToSet
  <2>2. \A k, l \in 1..N : seq[k] = seq[l] => k = l
    BY <1>1, <1>6 DEF IsInjective
  <2> QED BY <1>2, <1>3, <1>4, <2>1, <2>2
<1> QED BY <1>2, <1>5, <1>6 DEF a

\* A list extended by another has the elements of both, each once.
LEMMA ExtendedByList ==
  ASSUME NEW S, NEW base \in Seq(S), NEW list \in Seq(S), IsInjective(base)
  PROVE  /\ Extended(base, list) \in Seq(S) /\ IsInjective(Extended(base, list))
         /\ ToSet(Extended(base, list)) = ToSet(base) \cup ToSet(list)
<1> DEFINE N == Len(list)
           Eq(g) == g = [n \in 0..N |-> IF n = 0 THEN base
                                        ELSE IF list[n] \in ToSet(g[n - 1]) THEN g[n - 1]
                                        ELSE Append(g[n - 1], list[n])]
           G == [n \in 1..N |-> [q \in Seq(S) |->
                    IF list[n] \in ToSet(q) THEN q ELSE Append(q, list[n])]]
           u == CHOOSE g : Eq(g)
           First(n) == {list[i] : i \in 1..n}
           P == {n \in 0..N : /\ u[n] \in Seq(S) /\ IsInjective(u[n])
                              /\ ToSet(u[n]) = ToSet(base) \cup First(n)}
<1>1. /\ N \in Nat
      /\ \A n \in 1..N : list[n] \in S
      /\ DOMAIN list = 1..N
  OBVIOUS
<1>2. Eq(u)
  <2>1. G \in [1..N -> [Seq(S) -> Seq(S)]]
    BY <1>1
  <2> HIDE DEF G
  <2>2. PICK f \in [0..N -> Seq(S)] :
          f[0] = base /\ \A n \in 1..N : f[n] = G[n][f[n - 1]]
    <3>1. StepsOf(Seq(S), N, G) /\ base \in Seq(S)
      BY <1>1, <2>1 DEF StepsOf
    <3>2. InSteps(Seq(S), base, N, G)
      BY <3>1, Recursion
    <3> QED BY <3>2 DEF InSteps
  <2>3. ASSUME NEW n \in 1..N
        PROVE  G[n][f[n - 1]] = IF list[n] \in ToSet(f[n - 1]) THEN f[n - 1]
                                ELSE Append(f[n - 1], list[n])
    <3>1. n - 1 \in 0..N
      BY <1>1
    <3> QED BY <3>1, <2>2 DEF G
  <2>4. Eq(f)
    <3>1. \A n \in 0..N : n # 0 => n \in 1..N
      BY <1>1
    <3> HIDE DEF N, G
    <3> QED BY <2>2, <2>3, <3>1
  <2> HIDE DEF Eq
  <2> QED BY <2>4
<1>3. 0 \in P /\ \A n \in 1..N : n - 1 \in P => n \in P
  <2> HIDE DEF u
  <2>1. /\ u[0] = base
        /\ \A n \in 1..N : u[n] = IF list[n] \in ToSet(u[n - 1]) THEN u[n - 1]
                                  ELSE Append(u[n - 1], list[n])
    <3>1. \A n \in 0..N : u[n] = IF n = 0 THEN base
                                  ELSE IF list[n] \in ToSet(u[n - 1]) THEN u[n - 1]
                                  ELSE Append(u[n - 1], list[n])
      BY <1>2
    <3>2. 0 \in 0..N /\ \A n \in 1..N : n \in 0..N /\ n # 0
      BY <1>1
    <3> HIDE DEF N
    <3> QED BY <3>1, <3>2
  <2>2. ASSUME NEW n \in 1..N, n - 1 \in P PROVE n \in P
    <3> DEFINE q == u[n - 1]
    <3>1. /\ q \in Seq(S) /\ IsInjective(q)
          /\ ToSet(q) = ToSet(base) \cup First(n - 1)
      BY <2>2
    <3>2. n \in 0..N /\ list[n] \in S /\ First(n) = First(n - 1) \cup {list[n]}
      <4>1. 1..n = 1..(n - 1) \cup {n}
        BY <1>1
      <4>2. n \in 0..N /\ list[n] \in S
        BY <1>1
      <4> QED BY <4>1, <4>2
    <3> HIDE DEF First
    <3>3. /\ u[n] \in Seq(S) /\ IsInjective(u[n])
          /\ ToSet(u[n]) = ToSet(base) \cup First(n)
      <4>1. CASE list[n] \in ToSet(q)
        <5>1. u[n] = q
          BY <2>1, <4>1
        <5> HIDE DEF q
        <5> QED BY <3>1, <3>2, <4>1, <5>1
      <4>2. CASE list[n] \notin ToSet(q)
        <5>1. u[n] = Append(q, list[n])
          BY <2>1, <4>2
        <5> HIDE DEF q
        <5>2. /\ Append(q, list[n]) \in Seq(S) /\ IsInjective(Append(q, list[n]))
              /\ ToSet(Append(q, list[n])) = ToSet(q) \cup {list[n]}
          BY <3>1, <3>2, <4>2, AppendNew
        <5> QED BY <3>1, <3>2, <5>1, <5>2
      <4> QED BY <4>1, <4>2
    <3> QED BY <3>2, <3>3
  <2>3. 0 \in P
    <3>1. 0 \in 0..N /\ First(0) = {}
      BY <1>1
    <3> HIDE DEF First
    <3> QED BY <2>1, <3>1
  <2> HIDE DEF P
  <2> QED BY <2>2, <2>3
<1>4. /\ u[N] \in Seq(S) /\ IsInjective(u[N])
      /\ ToSet(u[N]) = ToSet(base) \cup First(N)
  <2> HIDE DEF P, u
  <2>1. 0..N \subseteq P
    BY <1>1, <1>3, CountingUp
  <2>2. N \in P
    BY <1>1, <2>1
  <2> QED BY <2>2 DEF P
<1>5. First(N) = ToSet(list)
  BY <1>1 DEF ToSet
<1>6. Extended(base, list) = u[N]
  BY DEF Extended
<1> HIDE DEF u, First, N
<1> QED BY <1>4, <1>5, <1>6

-----------------------------------------------------------------------------
(***************************************************************************)
(* The invariant: what waits for a vector and what has one are snippets, a *)
(* route has each snippet once, and the index is asked only when no route  *)
(* has any.                                                                *)
(***************************************************************************)
CodeSearchInv ==
    /\ request \in SearchConfigs
    /\ docs \in Seq(Snippet) /\ rest \in Seq(Snippet) /\ vectors \in Seq(Snippet)
    /\ stack \in Seq(Seq(Snippet))
    /\ ranked \in [Route -> Seq(Snippet)]
    /\ \A r \in Route : IsInjective(ranked[r])
    /\ querying \in {"ask index", "ask ripgrep"} => Scored = {}
    /\ FullAnswer

\* In the beginning no route has ranked anything.
LEMMA CodeSearchInvInit == CodeSearchInit => CodeSearchInv
<1> SUFFICES ASSUME CodeSearchInit PROVE CodeSearchInv
  OBVIOUS
<1>1. ranked \in [Route -> Seq(Snippet)] /\ \A r \in Route : ranked[r] = <<>>
  BY DEF CodeSearchInit
<1>2. \A r \in Route : IsInjective(ranked[r])
  BY <1>1 DEF IsInjective
<1> QED BY <1>1, <1>2 DEF CodeSearchInit, CodeSearchInv, FullAnswer

\* The snippets of the candidates are those of files.
LEMMA ReadSnippetsInv == CodeSearchInv /\ ReadSnippets => CodeSearchInv'
<1> SUFFICES ASSUME CodeSearchInv, ReadSnippets PROVE CodeSearchInv'
  OBVIOUS
<1>1. docs' \in Seq(Snippet)
  BY AllSnippetsInSeq, AmongInSeq DEF ReadSnippets
<1>2. querying' \in {"pick", "embed query"}
  BY DEF ReadSnippets
<1> QED BY <1>1, <1>2 DEF ReadSnippets, CodeSearchInv, FullAnswer, Scored

\* A route that ranks a finite set of snippets.
LEMMA RankedInv ==
  ASSUME CodeSearchInv, NEW route \in Route, NEW T, IsFiniteSet(T), T \subseteq Snippet,
         NEW order \in Orders(T), ranked' = [ranked EXCEPT ![route] = order],
         querying' \in {"bm25", "ctags", "graph", "fuse"},
         UNCHANGED <<request, docs, rest, stack, vectors>>
  PROVE  CodeSearchInv'
<1>1. order \in Seq(Snippet) /\ IsInjective(order)
  <2>1. order \in Seq(T) /\ IsInjective(order)
    BY OrdersOfSet
  <2> QED BY <2>1
<1>2. ranked' \in [Route -> Seq(Snippet)] /\ \A r \in Route : IsInjective(ranked'[r])
  BY <1>1 DEF CodeSearchInv
<1> QED BY <1>2 DEF CodeSearchInv, FullAnswer

\* What the routes have scored is what the four lists have, finitely many.
LEMMA ScoredByRoute ==
  ASSUME CodeSearchInv
  PROVE  /\ Scored = ToSet(ranked["embedding"]) \cup ToSet(ranked["bm25"])
                       \cup ToSet(ranked["ctags"]) \cup ToSet(ranked["graph"])
         /\ IsFiniteSet(Scored) /\ Scored \subseteq Snippet
<1>1. \A r \in Route : IsFiniteSet(ToSet(ranked[r])) /\ ToSet(ranked[r]) \subseteq Snippet
  <2> SUFFICES ASSUME NEW r \in Route
               PROVE  IsFiniteSet(ToSet(ranked[r])) /\ ToSet(ranked[r]) \subseteq Snippet
    OBVIOUS
  <2>1. ranked[r] \in Seq(Snippet) /\ IsInjective(ranked[r])
    BY DEF CodeSearchInv
  <2> QED BY <2>1, DistinctLength
<1>2. Scored = ToSet(ranked["embedding"]) \cup ToSet(ranked["bm25"])
                 \cup ToSet(ranked["ctags"]) \cup ToSet(ranked["graph"])
  BY Zenon DEF Scored, Route
<1>3. IsFiniteSet(Scored)
  <2>1. /\ IsFiniteSet(ToSet(ranked["embedding"])) /\ IsFiniteSet(ToSet(ranked["bm25"]))
        /\ IsFiniteSet(ToSet(ranked["ctags"])) /\ IsFiniteSet(ToSet(ranked["graph"]))
    BY <1>1 DEF Route
  <2> QED BY <1>2, <2>1, FS_Union
<1> QED BY <1>1, <1>2, <1>3 DEF Scored

\* The fused hits are scored, each once, and there are none only if no route
\* has scored anything.
LEMMA FusedHits ==
  ASSUME CodeSearchInv, NEW fused \in Fused
  PROVE  /\ fused \in Seq(Snippet) /\ IsInjective(fused) /\ ToSet(fused) \subseteq Scored
         /\ fused = <<>> => Scored = {}
<1> DEFINE U == UNION {ToSet(Best(r)) : r \in Route}
<1>1. PICK order \in Orders(U) : fused = Cut(order, request.wanted)
  BY DEF Fused
<1>2. request.wanted \in Nat \ {0} /\ TopEach \in Nat \ {0}
  BY CodeSearchAssumption DEF CodeSearchInv
<1>3. ASSUME NEW r \in Route
      PROVE  /\ ToSet(Best(r)) \subseteq ToSet(ranked[r])
             /\ ToSet(ranked[r]) # {} => ToSet(Best(r)) # {}
  <2>1. ranked[r] \in Seq(Snippet)
    BY DEF CodeSearchInv
  <2>2. /\ ToSet(Best(r)) \subseteq ToSet(ranked[r]) /\ Best(r) \in Seq(Snippet)
        /\ Len(Best(r)) = Least(TopEach, Len(ranked[r]))
    BY <1>2, <2>1, CutOfSeq DEF Best
  <2>3. ASSUME ToSet(ranked[r]) # {} PROVE ToSet(Best(r)) # {}
    <3>1. Len(ranked[r]) # 0 /\ Len(ranked[r]) \in Nat
      BY <2>1, <2>3 DEF ToSet
    <3>2. 1 \in DOMAIN Best(r)
      BY <1>2, <2>2, <3>1 DEF Least
    <3> QED BY <3>2 DEF ToSet
  <2> QED BY <2>2, <2>3
<1>4. U \subseteq Scored /\ (U = {} => Scored = {})
  BY <1>3 DEF Scored
<1>5. IsFiniteSet(U)
  BY <1>4, ScoredByRoute, FS_Subset
<1> HIDE DEF U
<1>6. order \in Seq(U) /\ IsInjective(order) /\ ToSet(order) = U
  BY <1>5, OrdersOfSet
<1>7. /\ fused \in Seq(U) /\ IsInjective(fused) /\ ToSet(fused) \subseteq U
      /\ Len(fused) = Least(request.wanted, Len(order))
  BY <1>1, <1>2, <1>6, CutOfSeq
<1>8. ASSUME fused = <<>> PROVE Scored = {}
  <2>1. Len(order) \in Nat /\ Len(fused) = 0
    BY <1>6, <1>8
  <2>2. Len(order) = 0
    BY <1>2, <1>7, <2>1 DEF Least
  <2>3. U = {}
    BY <1>6, <2>2 DEF ToSet
  <2> QED BY <1>4, <2>3
<1>9. fused \in Seq(Snippet)
  BY <1>4, <1>7, ScoredByRoute
<1> QED BY <1>4, <1>7, <1>8, <1>9

\* Filled with the lists of all routes, the hits are as many as there can be.
LEMMA FilledHits ==
  ASSUME CodeSearchInv, NEW fused \in Fused
  PROVE  /\ Distinct(Filled(fused))
         /\ Len(Filled(fused)) = Least(request.wanted, Cardinality(Scored))
<1> DEFINE e1 == Extended(fused, ranked["embedding"])
           e2 == Extended(e1, ranked["bm25"])
           e3 == Extended(e2, ranked["ctags"])
           e4 == Extended(e3, ranked["graph"])
<1>1. /\ ranked["embedding"] \in Seq(Snippet) /\ ranked["bm25"] \in Seq(Snippet)
      /\ ranked["ctags"] \in Seq(Snippet) /\ ranked["graph"] \in Seq(Snippet)
  BY DEF CodeSearchInv, Route
<1>2. fused \in Seq(Snippet) /\ IsInjective(fused) /\ ToSet(fused) \subseteq Scored
  BY FusedHits
<1>3. /\ e1 \in Seq(Snippet) /\ IsInjective(e1)
      /\ ToSet(e1) = ToSet(fused) \cup ToSet(ranked["embedding"])
  BY <1>1, <1>2, ExtendedByList
<1> HIDE DEF e1
<1>4. /\ e2 \in Seq(Snippet) /\ IsInjective(e2)
      /\ ToSet(e2) = ToSet(e1) \cup ToSet(ranked["bm25"])
  BY <1>1, <1>3, ExtendedByList
<1> HIDE DEF e2
<1>5. /\ e3 \in Seq(Snippet) /\ IsInjective(e3)
      /\ ToSet(e3) = ToSet(e2) \cup ToSet(ranked["ctags"])
  BY <1>1, <1>4, ExtendedByList
<1> HIDE DEF e3
<1>6. /\ e4 \in Seq(Snippet) /\ IsInjective(e4)
      /\ ToSet(e4) = ToSet(e3) \cup ToSet(ranked["graph"])
  BY <1>1, <1>5, ExtendedByList
<1>7. Filled(fused) = Cut(e4, request.wanted)
  BY DEF Filled, e1, e2, e3
<1> HIDE DEF e4
<1>8. ToSet(e4) = Scored
  BY <1>2, <1>3, <1>4, <1>5, <1>6, ScoredByRoute
<1>9. Len(e4) = Cardinality(Scored)
  BY <1>6, <1>8, DistinctLength
<1>10. request.wanted \in Nat
  BY CodeSearchAssumption DEF CodeSearchInv
<1>11. /\ Filled(fused) \in Seq(Snippet) /\ IsInjective(Filled(fused))
       /\ Len(Filled(fused)) = Least(request.wanted, Len(e4))
  <2>1. /\ Cut(e4, request.wanted) \in Seq(Snippet) /\ IsInjective(Cut(e4, request.wanted))
        /\ Len(Cut(e4, request.wanted)) = Least(request.wanted, Len(e4))
    BY <1>6, <1>10, CutOfSeq
  <2> QED BY <1>7, <2>1, Zenon
<1> QED BY <1>9, <1>11, DistinctLength

\* The routes' hits are filled; without any, the index is asked or nothing.
LEMMA FuseInv == CodeSearchInv /\ Fuse => CodeSearchInv'
<1> SUFFICES ASSUME CodeSearchInv, Fuse PROVE CodeSearchInv'
  OBVIOUS
<1>1. PICK fused \in Fused :
         IF fused # <<>>
         THEN reply' = [from |-> "routes", hits |-> Filled(fused)] /\ querying' = "answered"
         ELSE IF "embedding" \in request.routes
         THEN UNCHANGED reply /\ querying' = "ask index"
         ELSE reply' = [from |-> "nothing", hits |-> <<>>] /\ querying' = "answered"
  BY DEF Fuse
<1>2. UNCHANGED <<request, docs, rest, stack, vectors, ranked>>
  BY DEF Fuse
<1>3. Scored' = Scored
  BY <1>2 DEF Scored
<1>4. CASE fused # <<>>
  <2>1. reply' = [from |-> "routes", hits |-> Filled(fused)] /\ querying' = "answered"
    BY <1>1, <1>4
  <2>2. /\ Distinct(Filled(fused))
        /\ Len(Filled(fused)) = Least(request.wanted, Cardinality(Scored))
    BY FilledHits
  <2>3. FullAnswer'
    BY <1>2, <1>3, <2>1, <2>2 DEF FullAnswer, Distinct
  <2> QED BY <1>2, <2>1, <2>3 DEF CodeSearchInv
<1>5. CASE fused = <<>>
  <2>1. Scored = {}
    BY <1>5, FusedHits
  <2>2. \/ querying' = "ask index"
        \/ querying' = "answered" /\ reply'.from = "nothing"
    <3>1. \/ querying' = "ask index"
          \/ reply' = [from |-> "nothing", hits |-> <<>>] /\ querying' = "answered"
      BY <1>1, <1>5, Zenon
    <3>2. \A h : [from |-> "nothing", hits |-> h].from = "nothing"
      OBVIOUS
    <3> QED BY <3>1, <3>2, Zenon
  <2>3. FullAnswer'
    BY <1>3, <2>1, <2>2 DEF FullAnswer
  <2> QED BY <1>2, <1>3, <2>1, <2>3 DEF CodeSearchInv
<1> QED BY <1>4, <1>5

\* The batches, and what is left for later ones, stay snippets.
LEMMA BatchesInv ==
  ASSUME CodeSearchInv, EmbedQuery \/ TakeBatch \/ EmbedBatch \/ BatchFails
  PROVE  CodeSearchInv'
<1>1. /\ docs \in Seq(Snippet) /\ rest \in Seq(Snippet) /\ vectors \in Seq(Snippet)
      /\ stack \in Seq(Seq(Snippet))
  BY DEF CodeSearchInv
<1>2. ASSUME rest' \in Seq(Snippet), vectors' \in Seq(Snippet), stack' \in Seq(Seq(Snippet)),
             UNCHANGED <<request, docs, ranked>>, querying' \in {"embed", "bm25"}
      PROVE  CodeSearchInv'
  BY <1>2 DEF CodeSearchInv, FullAnswer
<1>3. CASE EmbedQuery
  BY <1>1, <1>2, <1>3 DEF EmbedQuery
<1>4. CASE TakeBatch
  <2>1. PICK k \in 1..Least(BatchTexts, Len(rest)) :
           stack' = <<SubSeq(rest, 1, k)>> /\ rest' = SubSeq(rest, k + 1, Len(rest))
    BY <1>4 DEF TakeBatch
  <2>2. k \in 1..Len(rest) /\ Len(rest) \in Nat
    <3>1. BatchTexts \in Nat /\ Len(rest) \in Nat
      BY <1>1, CodeSearchAssumption
    <3> QED BY <2>1, <3>1 DEF Least
  <2>3. rest' \in Seq(Snippet) /\ SubSeq(rest, 1, k) \in Seq(Snippet)
    <3>1. SubSeq(rest, k + 1, Len(rest)) \in Seq(Snippet)
      BY <1>1, <2>2
    <3>2. SubSeq(rest, 1, k) \in Seq(Snippet)
      BY <1>1, <2>2
    <3> QED BY <2>1, <3>1, <3>2
  <2>4. stack' \in Seq(Seq(Snippet))
    <3> DEFINE first == SubSeq(rest, 1, k)
    <3> HIDE DEF first
    <3>1. first \in Seq(Snippet)
      BY <2>3 DEF first
    <3>2. <<first>> \in Seq(Seq(Snippet))
      BY <3>1
    <3> QED BY <2>1, <3>2 DEF first
  <2>5. UNCHANGED <<request, docs, ranked, vectors>> /\ querying' = "embed"
    BY <1>4 DEF TakeBatch
  <2> QED BY <1>1, <1>2, <2>3, <2>4, <2>5
<1>5. CASE EmbedBatch
  <2>1. Batch \in Seq(Snippet) /\ stack' \in Seq(Seq(Snippet))
    BY <1>1, <1>5, HeadTailProperties DEF EmbedBatch, Batch
  <2>2. vectors' \in Seq(Snippet)
    BY <1>1, <1>5, <2>1, ConcatProperties DEF EmbedBatch
  <2> QED BY <1>1, <1>2, <1>5, <2>1, <2>2 DEF EmbedBatch
<1>6. CASE BatchFails
  <2>1. Batch \in Seq(Snippet) /\ Tail(stack) \in Seq(Seq(Snippet))
    BY <1>1, <1>6, HeadTailProperties DEF BatchFails, Batch
  <2>2. stack' \in Seq(Seq(Snippet))
    <3>1. CASE Len(Batch) = 1
      BY <1>6, <2>1, <3>1 DEF BatchFails
    <3>2. CASE Len(Batch) # 1
      <4>1. Halves(Batch) \in Seq(Seq(Snippet))
        <5> DEFINE n == Len(Batch)
                   h == n \div 2
                   b == Batch
        <5> HIDE DEF b
        <5>1. b \in Seq(Snippet) /\ n = Len(b)
          BY <2>1 DEF b
        <5>2. n \in Nat /\ h \in 0..n
          <6> HIDE DEF n
          <6>1. n \in Nat
            BY <5>1
          <6> QED BY <6>1
        <5>4. SubSeq(b, 1, h) \in Seq(Snippet) /\ SubSeq(b, h + 1, n) \in Seq(Snippet)
          <6> HIDE DEF n, h
          <6> QED BY <5>1, <5>2
        <5>3. Halves(Batch) = <<SubSeq(b, 1, h), SubSeq(b, h + 1, n)>>
          BY DEF Halves, b
        <5>5. ASSUME NEW x \in Seq(Snippet), NEW y \in Seq(Snippet)
              PROVE  <<x, y>> \in Seq(Seq(Snippet))
          OBVIOUS
        <5> HIDE DEF n, h
        <5> QED BY <5>3, <5>4, <5>5
      <4>2. stack' = Halves(Batch) \o Tail(stack)
        BY <1>6, <3>2 DEF BatchFails
      <4> QED BY <2>1, <4>1, <4>2, ConcatProperties
    <3> QED BY <3>1, <3>2
  <2> QED BY <1>1, <1>2, <1>6, <2>2 DEF BatchFails
<1> QED BY <1>3, <1>4, <1>5, <1>6

\* The routes rank what they have scored.
LEMMA RoutesInv ==
  ASSUME CodeSearchInv,
         \/ RankByVector \/ RankByWords("bm25", "ctags") \/ RankByWords("ctags", "graph")
         \/ RankByGraph
  PROVE  CodeSearchInv'
<1>1. /\ IsFiniteSet(ToSet(docs)) /\ ToSet(docs) \subseteq Snippet
      /\ IsFiniteSet(ToSet(vectors)) /\ ToSet(vectors) \subseteq Snippet
  <2>1. ASSUME NEW seq \in Seq(Snippet)
        PROVE  IsFiniteSet(ToSet(seq)) /\ ToSet(seq) \subseteq Snippet
    <3> DEFINE N == Len(seq)
               T == ToSet(seq)
    <3>1. N \in Nat /\ seq \in [1..N -> Snippet] /\ T = {seq[i] : i \in 1..N}
      BY DEF ToSet
    <3>2. IsFiniteSet(1..N)
      BY <3>1, FS_Interval
    <3>3. seq \in Surjection(1..N, T)
      BY <3>1 DEF Surjection
    <3>4. T \subseteq Snippet
      BY <3>1
    <3> HIDE DEF T, N
    <3>5. IsFiniteSet(T)
      BY <3>2, <3>3, FS_Surjection
    <3> QED BY <3>4, <3>5 DEF T
  <2> QED BY <2>1 DEF CodeSearchInv
<1>2. CASE RankByVector
  <2>1. PICK order \in Orders(ToSet(vectors)) :
           ranked' = [ranked EXCEPT !["embedding"] = order]
    BY <1>2 DEF RankByVector
  <2>2. UNCHANGED <<request, docs, rest, stack, vectors>> /\ querying' = "bm25"
    BY <1>2 DEF RankByVector
  <2> QED BY <1>1, <2>1, <2>2, RankedInv DEF Route
<1>3. ASSUME NEW route \in {"bm25", "ctags"}, NEW next \in {"ctags", "graph"},
             RankByWords(route, next)
      PROVE  CodeSearchInv'
  <2>1. UNCHANGED <<request, docs, rest, stack, vectors>> /\ querying' = next
    BY <1>3 DEF RankByWords
  <2>2. CASE route \in request.routes
    <3>1. PICK scored \in SUBSET ToSet(docs) : \E order \in Orders(scored) :
             ranked' = [ranked EXCEPT ![route] = order]
      BY <1>3, <2>2 DEF RankByWords
    <3>2. IsFiniteSet(scored) /\ scored \subseteq Snippet
      BY <1>1, FS_Subset
    <3>3. PICK order \in Orders(scored) : ranked' = [ranked EXCEPT ![route] = order]
      BY <3>1
    <3> QED BY <2>1, <3>2, <3>3, RankedInv DEF Route
  <2>3. CASE route \notin request.routes
    BY <1>3, <2>1, <2>3 DEF RankByWords, CodeSearchInv, FullAnswer
  <2> QED BY <2>2, <2>3
<1>4. CASE RankByGraph
  <2>1. UNCHANGED <<request, docs, rest, stack, vectors>> /\ querying' = "fuse"
    BY <1>4 DEF RankByGraph
  <2>2. CASE "graph" \in request.routes
    <3>1. PICK scored \in GraphHits : \E order \in Orders(scored) :
             ranked' = [ranked EXCEPT !["graph"] = order]
      BY <1>4, <2>2 DEF RankByGraph
    <3>2. scored \subseteq ToSet(docs)
      <4>1. PICK p \in (SUBSET ToSet(docs)) \X (SUBSET ToSet(docs)) :
               scored = p[1] \cup Out(p[1]) \cup In(p[1]) \cup Ranks(p[2])
        BY DEF GraphHits
      <4>2. Ranks(p[2]) \subseteq ToSet(docs)
        BY RanksInDocs
      <4> QED BY <4>1, <4>2 DEF Out, In
    <3>3. IsFiniteSet(scored) /\ scored \subseteq Snippet
      BY <1>1, <3>2, FS_Subset
    <3>4. PICK order \in Orders(scored) : ranked' = [ranked EXCEPT !["graph"] = order]
      BY <3>1
    <3> QED BY <2>1, <3>3, <3>4, RankedInv DEF Route
  <2>3. CASE "graph" \notin request.routes
    BY <1>4, <2>1, <2>3 DEF RankByGraph, CodeSearchInv, FullAnswer
  <2> QED BY <2>2, <2>3
<1> QED BY <1>2, <1>3, <1>4

(***************************************************************************)
(* An answer of the routes has as many hits as were asked for if they      *)
(* scored as many, none twice; another one takes its place only if they    *)
(* scored none: for any files, snippets, relations and limits.             *)
(***************************************************************************)
THEOREM FullAnswers == CodeSearchSpec => []FullAnswer
<1>1. CodeSearchInit => CodeSearchInv
  BY CodeSearchInvInit
<1>2. CodeSearchInv /\ [CodeSearchNext]_codeSearchVars => CodeSearchInv'
  <2> SUFFICES ASSUME CodeSearchInv, [CodeSearchNext]_codeSearchVars
               PROVE  CodeSearchInv'
    OBVIOUS
  <2>1. CASE CollectCandidates \/ RankFiles \/ PickForIngestion
    BY <2>1 DEF CollectCandidates, RankFiles, PickForIngestion, CodeSearchInv, FullAnswer,
                Scored
  <2>2. CASE ReadSnippets
    BY <2>2, ReadSnippetsInv
  <2>3. CASE EmbedQuery \/ TakeBatch \/ EmbedBatch \/ BatchFails
    BY <2>3, BatchesInv
  <2>4. CASE \/ RankByVector \/ RankByWords("bm25", "ctags")
             \/ RankByWords("ctags", "graph") \/ RankByGraph
    BY <2>4, RoutesInv
  <2>5. CASE Fuse
    BY <2>5, FuseInv
  <2>6. CASE AskIndex
    <3>1. UNCHANGED <<request, docs, rest, stack, vectors, ranked>> /\ Scored = {}
      BY <2>6 DEF AskIndex, CodeSearchInv
    <3>2. \/ querying' = "ask ripgrep"
          \/ querying' = "answered" /\ reply'.from \in {"error", "index"}
      <4>1. \A f, h : [from |-> f, hits |-> h].from = f
        OBVIOUS
      <4>2. ASSUME NEW f \in {"error", "index"}, reply' = [from |-> f, hits |-> <<>>]
            PROVE  reply'.from \in {"error", "index"}
        BY <4>1, <4>2, Zenon
      <4> QED BY <2>6, <4>2 DEF AskIndex
    <3>3. Scored' = {}
      BY <3>1 DEF Scored
    <3>4. FullAnswer'
      BY <3>2, <3>3 DEF FullAnswer
    <3> QED BY <3>1, <3>3, <3>4 DEF CodeSearchInv
  <2>7. CASE AskRipgrep
    BY <2>7 DEF AskRipgrep, CodeSearchInv, FullAnswer, Scored
  <2>8. CASE UNCHANGED codeSearchVars
    BY <2>8 DEF codeSearchVars, CodeSearchInv, FullAnswer, Scored, Distinct
  <2> QED BY <2>1, <2>2, <2>3, <2>4, <2>5, <2>6, <2>7, <2>8 DEF CodeSearchNext
<1>3. CodeSearchInv => FullAnswer
  BY DEF CodeSearchInv
<1> QED BY <1>1, <1>2, <1>3, PTL DEF CodeSearchSpec
=============================================================================
