-------------------------- MODULE Indexing_proofs ---------------------------
(***************************************************************************)
(* Theorems of what is indexed: CodeChunks, types and that no line is      *)
(* lost; CodeSync, types and that incremental syncs do not drift;          *)
(* VectorIndexes, for any threads, records, scores and filters, any size   *)
(* of the pool and any number of calls and faults.                         *)
(***************************************************************************)
EXTENDS CodeChunks, CodeSync, VectorIndexes, SequenceTheorems,
        FiniteSetTheorems, WellFoundedInduction, TLAPS

\* What is cut, in order.
AllSections == IF source.defs # <<>> THEN source.defs
               ELSE <<<<1, Len(source.length)>>>>

\* The lines with text among first..last lie in chunks.
Covered(first, last) ==
    \A i \in first..last :
        i \in 1..Len(source.length) /\ source.length[i] > 0 => InChunk(i)

(***************************************************************************)
(* The invariant: a section that is not left is covered or being cut; of   *)
(* the latter the lines before the window are covered.                     *)
(***************************************************************************)
WindowInv ==
    chunking = "window" =>
        /\ section[1] <= start /\ start <= end /\ end <= section[2] + 1
        /\ Covered(section[1], start - 1)

SectionsInv ==
    \A d \in DOMAIN AllSections :
        \/ \E j \in DOMAIN sections : sections[j] = AllSections[d]
        \/ Covered(AllSections[d][1], AllSections[d][2])
        \/ chunking = "window" /\ section = AllSections[d]

ChunksInv == ChunksTypeOK /\ WindowInv /\ SectionsInv

\* The overlap is no longer than what has been cut of the section.
LEMMA OverlapBound ==
    ASSUME end \in Nat, section[1] \in Nat, section[1] <= end
    PROVE  Overlap \in Nat /\ Overlap <= end - section[1]
<1> DEFINE K == {k \in 1..(end - section[1]) : Chars(end - k + 1, end - 1) < OverlapChars}
<1>1. end - section[1] \in Nat OBVIOUS
<1>2. IsFiniteSet(1..(end - section[1])) /\ Cardinality(1..(end - section[1])) = end - section[1]
  <2>1. \A m \in Nat : IsFiniteSet(1..m) /\ Cardinality(1..m) = m
    <3> SUFFICES ASSUME NEW m \in Nat PROVE IsFiniteSet(1..m) /\ Cardinality(1..m) = m
      OBVIOUS
    <3>1. IsFiniteSet(1..m) /\ Cardinality(1..m) = IF 1 > m THEN 0 ELSE m - 1 + 1
      BY 1 \in Int, m \in Int, FS_Interval
    <3> QED BY <3>1
  <2> QED BY <1>1, <2>1
<1>3. K \subseteq 1..(end - section[1]) OBVIOUS
<1>4. Cardinality(K) <= Cardinality(1..(end - section[1])) /\ IsFiniteSet(K)
  <2> HIDE DEF K
  <2> QED BY <1>2, <1>3, FS_Subset
<1>5. Cardinality(K) \in Nat
  <2> HIDE DEF K
  <2> QED BY <1>4, FS_CardinalityType
<1> QED BY <1>2, <1>4, <1>5 DEF Overlap

\* Every section lies within the file.
LEMMA SectionTypes ==
    ASSUME source \in Sources
    PROVE  /\ AllSections \in Seq(SectionsOf(source.length))
           /\ source.length \in Seq(Nat) /\ Len(source.length) \in Nat
<1>1. source.defs \in Seq(SectionsOf(source.length)) /\ source.length \in Seq(Nat)
  BY ChunksAssumption
<1>2. Len(source.length) \in Nat
  BY <1>1
<1>3. <<1, Len(source.length)>> \in SectionsOf(source.length)
  BY <1>2 DEF SectionsOf
<1>4. <<<<1, Len(source.length)>>>> \in Seq(SectionsOf(source.length))
  BY <1>3
<1> QED BY <1>1, <1>2, <1>4 DEF AllSections

\* Cutting more does not uncover a line.
LEMMA CoveredGrows ==
    ASSUME NEW first, NEW last, chunks \subseteq chunks', source' = source,
           Covered(first, last)
    PROVE  Covered(first, last)'
BY DEF Covered, InChunk

LEMMA InitHolds == ChunksInit => ChunksInv
<1> SUFFICES ASSUME ChunksInit PROVE ChunksInv
  OBVIOUS
<1>1. sections = AllSections /\ source \in Sources
  BY DEF ChunksInit, AllSections
<1>2. sections \in Seq(SectionsOf(source.length)) /\ Len(source.length) \in Nat
  BY <1>1, SectionTypes
<1>3. section \in SectionsOf(source.length)
  BY <1>2 DEF ChunksInit, SectionsOf
<1>4. ChunksTypeOK
  BY <1>1, <1>2, <1>3 DEF ChunksInit, ChunksTypeOK
<1>5. WindowInv
  BY DEF ChunksInit, WindowInv
<1>6. SectionsInv
  BY <1>1 DEF SectionsInv
<1> QED BY <1>4, <1>5, <1>6 DEF ChunksInv

LEMMA SectionStep ==
    ASSUME ChunksInv, NextSection
    PROVE  ChunksInv'
<1> DEFINE h == Head(sections)
<1>1. source' = source /\ source \in Sources
  BY DEF NextSection, ChunksInv, ChunksTypeOK
<1>2. h \in SectionsOf(source.length) /\ Tail(sections) \in Seq(SectionsOf(source.length))
  BY DEF NextSection, ChunksInv, ChunksTypeOK
<1>3. h[1] \in Nat \ {0} /\ h[2] \in Nat /\ h \in Nat \X Nat
  BY <1>2 DEF SectionsOf
<1>4. chunks' = chunks \/ chunks' = chunks \cup {h}
  BY DEF NextSection
<1>5. ChunksTypeOK'
  <2>1. sections' = Tail(sections) /\ section' = h
    BY DEF NextSection
  <2>2. chunks' \subseteq Nat \X Nat
    BY <1>3, <1>4 DEF ChunksInv, ChunksTypeOK
  <2>3. /\ chunking' \in {"section", "window"}
        /\ start' \in Nat \ {0} /\ end' \in Nat \ {0} /\ chars' \in Nat
    BY <1>3 DEF NextSection, ChunksInv, ChunksTypeOK
  <2> QED BY <1>1, <1>2, <2>1, <2>2, <2>3 DEF ChunksTypeOK
<1>6. WindowInv'
  <2> SUFFICES ASSUME chunking' = "window"
               PROVE  /\ section'[1] <= start' /\ start' <= end' /\ end' <= section'[2] + 1
                      /\ Covered(section[1], start - 1)'
    BY DEF WindowInv
  <2>1. section' = h /\ start' = h[1] /\ end' = h[1] /\ h[1] <= h[2]
    BY DEF NextSection
  <2>2. Covered(section[1], start - 1)'
    BY <2>1, <1>3 DEF Covered
  <2> QED BY <2>1, <2>2, <1>3
<1>7. SectionsInv'
  <2>1. AllSections' = AllSections
    BY <1>1 DEF AllSections
  <2> SUFFICES ASSUME NEW d \in DOMAIN AllSections
               PROVE  \/ \E j \in DOMAIN sections' : sections'[j] = AllSections[d]
                      \/ Covered(AllSections[d][1], AllSections[d][2])'
                      \/ chunking' = "window" /\ section' = AllSections[d]
    BY <2>1 DEF SectionsInv
  <2>2. CASE \E j \in DOMAIN sections : sections[j] = AllSections[d]
    <3>1. PICK j \in DOMAIN sections : sections[j] = AllSections[d]
      BY <2>2
    <3>2. CASE j = 1
      <4>1. h = AllSections[d]
        BY <3>1, <3>2
      <4> PICK first, last : first = h[1] /\ last = h[2]
        OBVIOUS
      <4>2. \/ chunks' = chunks \cup {h}
            \/ chunking' = "window" /\ section' = h
            \/ ~(h[1] <= h[2])
        BY DEF NextSection
      <4>3. CASE chunks' = chunks \cup {h}
        <5>1. Covered(first, last)'
          BY <4>3, <1>3 DEF Covered, InChunk
        <5> QED BY <5>1, <4>1, <2>1
      <4>4. CASE ~(h[1] <= h[2])
        <5>1. first..last = {}
          BY <4>4, <1>3
        <5>2. Covered(first, last)'
          BY <5>1 DEF Covered
        <5> QED BY <5>2, <4>1, <2>1
      <4> QED BY <4>1, <4>2, <4>3, <4>4
    <3>3. CASE j # 1
      <4>1. sections \in Seq(SectionsOf(source.length)) /\ sections # <<>> /\ sections' = Tail(sections)
        BY DEF NextSection, ChunksInv, ChunksTypeOK
      <4>2. j - 1 \in DOMAIN Tail(sections) /\ Tail(sections)[j - 1] = sections[j]
        BY <4>1, <3>1, <3>3
      <4> QED BY <4>1, <4>2, <3>1
    <3> QED BY <3>2, <3>3
  <2>3. CASE Covered(AllSections[d][1], AllSections[d][2])
    <3>1. chunks \subseteq chunks'
      BY <1>4
    <3> QED BY <2>3, <3>1, <1>1, <2>1, CoveredGrows
  <2>4. CASE chunking = "window" /\ section = AllSections[d]
    BY <2>4 DEF NextSection
  <2> QED BY <2>2, <2>3, <2>4 DEF ChunksInv, SectionsInv
<1> QED BY <1>5, <1>6, <1>7 DEF ChunksInv

LEMMA LineStep ==
    ASSUME ChunksInv, TakeLine
    PROVE  ChunksInv'
<1>1. /\ source \in Sources /\ source' = source
      /\ chunking' = chunking /\ sections' = sections /\ section' = section
      /\ start' = start /\ chunks' = chunks /\ end' = end + 1
  BY DEF TakeLine, ChunksInv, ChunksTypeOK
<1>2. source.length \in Seq(Nat) /\ Len(source.length) \in Nat
  BY <1>1, SectionTypes
<1>3. section[1] \in Nat /\ section[2] \in Nat /\ section[2] <= Len(source.length)
  BY DEF ChunksInv, ChunksTypeOK, SectionsOf
<1>4. end \in Nat \ {0} /\ start \in Nat \ {0} /\ chars \in Nat /\ end <= section[2]
  BY DEF TakeLine, ChunksInv, ChunksTypeOK
<1>5. source.length[end] \in Nat
  BY <1>2, <1>3, <1>4
<1>6. ChunksTypeOK'
  <2>1. chars' \in Nat
    BY <1>4, <1>5 DEF TakeLine
  <2> QED BY <1>1, <1>4, <2>1 DEF ChunksInv, ChunksTypeOK
<1>7. WindowInv'
  <2>1. Covered(section[1], start - 1)' <=> Covered(section[1], start - 1)
    BY <1>1 DEF Covered, InChunk
  <2> QED BY <1>1, <1>3, <1>4, <2>1 DEF ChunksInv, WindowInv
<1>8. SectionsInv'
  <2>1. AllSections' = AllSections
    BY <1>1 DEF AllSections
  <2>2. \A f, l : Covered(f, l) => Covered(f, l)'
    BY <1>1 DEF Covered, InChunk
  <2> QED BY <1>1, <2>1, <2>2 DEF ChunksInv, SectionsInv
<1> QED BY <1>6, <1>7, <1>8 DEF ChunksInv

LEMMA WindowStep ==
    ASSUME ChunksInv, EmitWindow
    PROVE  ChunksInv'
<1> PICK last : last = end - 1
  OBVIOUS
<1>1. /\ source \in Sources /\ source' = source /\ chunking = "window"
      /\ sections' = sections /\ section' = section
  BY DEF EmitWindow, ChunksInv, ChunksTypeOK
<1>2. section[1] \in Nat \ {0} /\ section[2] \in Nat
  BY DEF ChunksInv, ChunksTypeOK, SectionsOf
<1>3. /\ start \in Nat \ {0} /\ end \in Nat \ {0}
      /\ section[1] <= start /\ start <= end /\ end <= section[2] + 1
      /\ Covered(section[1], start - 1)
  BY <1>1 DEF ChunksInv, ChunksTypeOK, WindowInv
<1>4. Overlap \in Nat /\ Overlap <= end - section[1]
  BY <1>2, <1>3, OverlapBound
<1>5. chunks' = chunks \/ chunks' = chunks \cup {<<start, end - 1>>}
  BY DEF EmitWindow
<1>6. \A i \in start..(end - 1) : source.length[i] > 0 =>
          chunks' = chunks \cup {<<start, end - 1>>}
  BY DEF EmitWindow
<1>7. Covered(section[1], last)'
  <2> SUFFICES ASSUME NEW i \in section[1]..last, i \in 1..Len(source.length),
                      source.length[i] > 0
               PROVE  InChunk(i)'
    BY <1>1 DEF Covered
  <2>1. CASE i <= start - 1
    <3>1. InChunk(i)
      BY <2>1, <1>2, <1>3 DEF Covered
    <3> QED BY <3>1, <1>5 DEF InChunk
  <2>2. CASE ~(i <= start - 1)
    <3>1. i \in start..(end - 1)
      BY <2>2, <1>2, <1>3
    <3>2. <<start, end - 1>> \in chunks'
      BY <3>1, <1>6
    <3> QED BY <3>1, <3>2, <1>3 DEF InChunk
  <2> QED BY <2>1, <2>2
<1>8. ChunksTypeOK' /\ WindowInv'
  <2>1. chunks' \subseteq Nat \X Nat
    BY <1>3, <1>5 DEF ChunksInv, ChunksTypeOK
  <2>2. CASE end > section[2]
    <3>1. chunking' = "section" /\ start' = start /\ end' = end /\ chars' = chars
      BY <2>2 DEF EmitWindow
    <3> QED BY <3>1, <2>1, <1>1 DEF ChunksInv, ChunksTypeOK, WindowInv
  <2>3. CASE ~(end > section[2])
    <3>1. start' = NextStart /\ end' = NextStart /\ chars' = 0 /\ chunking' = chunking
      BY <2>3 DEF EmitWindow
    <3>2. end # start
      BY <2>3, <1>2, <1>3 DEF EmitWindow, Fits
    <3>3. NextStart \in Nat /\ start + 1 <= NextStart /\ NextStart <= end
      BY <3>2, <1>2, <1>3, <1>4 DEF NextStart, Larger
    <3>4. ChunksTypeOK'
      BY <3>1, <3>3, <2>1, <1>1, <1>3 DEF ChunksInv, ChunksTypeOK
    <3>5. Covered(section[1], start - 1)'
      <4>1. section'[1] = section[1] /\ (start - 1)' = NextStart - 1
        BY <3>1, <1>1
      <4>2. start' - 1 <= last /\ start' - 1 \in Int /\ last \in Int
        BY <3>1, <3>3, <1>3
      <4> QED BY <4>1, <4>2, <1>7, <1>2, <1>1 DEF Covered
    <3> QED BY <3>1, <3>3, <3>4, <3>5, <1>1, <1>2, <1>3, <2>3 DEF WindowInv
  <2> QED BY <2>2, <2>3
<1>9. SectionsInv'
  <2>1. AllSections' = AllSections
    BY <1>1 DEF AllSections
  <2>2. \A f, l : Covered(f, l) => Covered(f, l)'
    BY <1>1, <1>5 DEF Covered, InChunk
  <2>3. chunking' = "window" \/ Covered(section[1], section[2])'
    <3>1. CASE end > section[2]
      <4>1. last = section'[2]
        BY <3>1, <1>1, <1>2, <1>3
      <4> QED BY <4>1, <1>7, <1>1 DEF Covered
    <3>2. CASE ~(end > section[2])
      BY <3>2, <1>1 DEF EmitWindow
    <3> QED BY <3>1, <3>2
  <2>4. section = section'
    BY <1>1
  <2> SUFFICES ASSUME NEW d \in DOMAIN AllSections
               PROVE  \/ \E j \in DOMAIN sections' : sections'[j] = AllSections[d]
                      \/ Covered(AllSections[d][1], AllSections[d][2])'
                      \/ chunking' = "window" /\ section' = AllSections[d]
    BY <2>1 DEF SectionsInv
  <2>5. \/ \E j \in DOMAIN sections : sections[j] = AllSections[d]
        \/ Covered(AllSections[d][1], AllSections[d][2])
        \/ section = AllSections[d]
    BY DEF ChunksInv, SectionsInv
  <2>6. CASE section = AllSections[d]
    BY <2>6, <2>3, <2>4, <2>1
  <2>7. CASE Covered(AllSections[d][1], AllSections[d][2])
    BY <2>7, <2>2, <2>1
  <2> QED BY <2>5, <2>6, <2>7, <1>1
<1> QED BY <1>8, <1>9 DEF ChunksInv

LEMMA StepHolds == ChunksInv /\ [ChunksNext]_chunksVars => ChunksInv'
<1> SUFFICES ASSUME ChunksInv, [ChunksNext]_chunksVars PROVE ChunksInv'
  OBVIOUS
<1>1. CASE UNCHANGED chunksVars
  <2>1. /\ source' = source /\ chunking' = chunking /\ sections' = sections
        /\ section' = section /\ start' = start /\ end' = end
        /\ chars' = chars /\ chunks' = chunks
    BY <1>1 DEF chunksVars
  <2>2. ChunksTypeOK'
    BY <2>1 DEF ChunksInv, ChunksTypeOK
  <2>3. \A f, l : Covered(f, l)' <=> Covered(f, l)
    BY <2>1 DEF Covered, InChunk
  <2>4. WindowInv'
    BY <2>1, <2>3 DEF ChunksInv, WindowInv
  <2>5. AllSections' = AllSections
    BY <2>1 DEF AllSections
  <2>6. SectionsInv'
    BY <2>1, <2>3, <2>5 DEF ChunksInv, SectionsInv
  <2> QED BY <2>2, <2>4, <2>6 DEF ChunksInv
<1> QED BY <1>1, SectionStep, LineStep, WindowStep DEF ChunksNext

(***************************************************************************)
(* Every variable keeps its type, and every section to cut lies within the *)
(* file.                                                                   *)
(***************************************************************************)
THEOREM ChunksTypes == ChunksSpec => []ChunksTypeOK
<1>1. ChunksInv => ChunksTypeOK
  BY DEF ChunksInv
<1> QED BY InitHolds, StepHolds, <1>1, PTL DEF ChunksSpec

(***************************************************************************)
(* No line is lost between the windows, for any file and any sizes.        *)
(***************************************************************************)
THEOREM AllLinesCut == ChunksSpec => []LinesCovered
<1>1. ChunksInv => LinesCovered
  <2> SUFFICES ASSUME ChunksInv, chunking = "section", sections = <<>>,
                      NEW i \in 1..Len(source.length), source.length[i] > 0,
                      \/ source.defs = <<>>
                      \/ \E d \in DOMAIN source.defs :
                           source.defs[d][1] <= i /\ i <= source.defs[d][2]
               PROVE  InChunk(i)
    BY DEF LinesCovered
  <2>1. source \in Sources /\ Len(source.length) \in Nat
    BY SectionTypes DEF ChunksInv, ChunksTypeOK
  <2>2. PICK d \in DOMAIN AllSections : AllSections[d][1] <= i /\ i <= AllSections[d][2]
    <3>1. CASE source.defs = <<>>
      <4>1. AllSections = <<<<1, Len(source.length)>>>>
        BY <3>1 DEF AllSections
      <4>2. 1 \in DOMAIN AllSections /\ AllSections[1] = <<1, Len(source.length)>>
        BY <4>1
      <4> QED BY <4>2, <2>1
    <3>2. CASE source.defs # <<>>
      BY <3>2 DEF AllSections
    <3> QED BY <3>1, <3>2
  <2>3. Covered(AllSections[d][1], AllSections[d][2])
    BY <2>2 DEF ChunksInv, SectionsInv
  <2>4. AllSections[d] \in SectionsOf(source.length)
    BY <2>1, <2>2, SectionTypes
  <2>5. i \in AllSections[d][1]..AllSections[d][2]
    BY <2>2, <2>4 DEF SectionsOf
  <2> QED BY <2>3, <2>5 DEF Covered
<1> QED BY InitHolds, StepHolds, <1>1, PTL DEF ChunksSpec
-----------------------------------------------------------------------------
(***************************************************************************)
(* CodeSync.  The invariant says what a running sync relies on: of every   *)
(* file it knows whether the memory stands for the copy that it took, for  *)
(* the old snapshot, or for chunks in between.  Nobody holds a lock that   *)
(* keeps a refresh away, so each clause allows for files in loose and bad. *)
(***************************************************************************)
\* The memory of a file is a text, but for chunks that the writer refused.
Holds(f, text) ==
    \A s \in Slot : \/ memory[f][s] = text[s]
                    \/ memory[f][s] = NoHash /\ <<f, s, text[s]>> \in duplicate

\* Files whose chunks a running sync has dropped and not yet written again.
Trimmed == {f \in File : f \in sync.changed \ sync.stale
                            \/ (sync.at = "write" /\ f = sync.file)}

\* What a running sync relies on: a file outside of its scope stands in the
\* memory as it stands in the copy and in the old snapshot; of one that it has
\* dropped and not written, nothing is left that the copy does not have.
Underway ==
    sync.at \in {"apply", "write"} =>
        /\ sync.stale \subseteq sync.changed
        /\ sync.at = "write" => sync.file \in File
        /\ \A f \in sync.deleted : sync.copy[f] = Absent
        /\ sync.deleted # {} => sync.at = "apply" /\ sync.changed \subseteq sync.stale
        /\ sync.at = "write" => sync.stale = {} /\ sync.file \in sync.scope \ sync.changed
        /\ Trimmed \subseteq loose
        /\ \A f \in Trimmed \ sync.bad, s \in Slot : memory[f][s] \in {NoHash, sync.copy[f][s]}
        /\ \A f \in File \ (loose \cup sync.deleted \cup sync.stale) : Holds(f, sync.copy[f])
        /\ kept /\ initialized => \A f \in File \ (loose \cup sync.scope) : Holds(f, snapshot[f])

\* The copy replaces the snapshot at once, but for a moment without either.
Replaced ==
    /\ sync.at = "rename" => ~kept /\ \A f \in File \ loose : Holds(f, sync.copy[f])
    /\ sync.at = "meta" => kept /\ \A f \in File \ loose : Holds(f, snapshot[f])


SyncRecords ==
    [at : {"idle", "apply", "write", "rename", "meta"}, copy : [File -> Text],
     scope : SUBSET File, deleted : SUBSET File, stale : SUBSET File, changed : SUBSET File,
     bad : SUBSET File, file : File \cup {"none"}, text : Text]
JobRecords ==
    [at : {"idle", "drop", "read", "write", "done"}, file : File \cup {"none"},
     text : Text, dropped : BOOLEAN, ok : BOOLEAN]
Fingerprints == File \X Slot \X Hash

SyncTypes ==
    /\ workspace \in [File -> Text] /\ memory \in [File -> Text] /\ snapshot \in [File -> Text]
    /\ done \subseteq Fingerprints /\ duplicate \subseteq Fingerprints
    /\ kept \in BOOLEAN /\ initialized \in BOOLEAN
    /\ sync \in SyncRecords /\ sync.deleted \cup sync.changed \subseteq sync.scope
    /\ job \in JobRecords /\ (job.at # "idle" => job.file \in File)
    /\ budget \in [edits : Nat, syncs : Nat, jobs : Nat, restarts : Nat]
    /\ loose \subseteq File

SyncInv == SyncTypes /\ Underway /\ Replaced /\ MemoryIsSnapshot

LEMMA AbsentText == Absent \in Text /\ \A s \in Slot : Absent[s] = NoHash
BY DEF Absent, Text

LEMMA NothingRuns == NoSync \in SyncRecords /\ NoJob \in JobRecords
<1>1. [f \in File |-> Absent] \in [File -> Text]
  BY AbsentText
<1> QED BY <1>1, AbsentText DEF NoSync, NoJob, SyncRecords, JobRecords

LEMMA Spends ==
  ASSUME NEW what \in {"edits", "syncs", "jobs", "restarts"}, Spend(what),
         budget \in [edits : Nat, syncs : Nat, jobs : Nat, restarts : Nat]
  PROVE  budget' \in [edits : Nat, syncs : Nat, jobs : Nat, restarts : Nat]
<1>1. budget[what] - 1 \in Nat
  BY DEF Spend
<1> DEFINE n == budget[what] - 1
<1>2. budget' = [budget EXCEPT ![what] = n]
  BY DEF Spend
<1> HIDE DEF n
<1> QED BY <1>1, <1>2 DEF n

\* What dropping chunks of f does to the memory of it and of its listed files.
LEMMA Drops ==
  ASSUME memory \in [File -> Text], NEW f \in File, NEW expected \in Text, NEW failing,
         Drop(f, expected, failing)
  PROVE  /\ memory' \in [File -> Text]
         /\ \A g \in File \ Listed(f) : memory'[g] = memory[g]
         /\ \A g \in File, s \in Slot : memory'[g][s] \in {memory[g][s], NoHash}
         /\ failing = {} => \A s \in Slot : memory'[f][s] \in {expected[s], NoHash}
         /\ f \in Listed(f) /\ Listed(f) \subseteq File
<1> DEFINE left(g) == [s \in Slot |-> IF \/ <<g, s>> \in failing
                                         \/ g = f /\ memory[f][s] = expected[s]
                                      THEN memory[g][s] ELSE NoHash]
<1>1. memory' = [g \in File |-> IF g \notin Listed(f) THEN memory[g] ELSE left(g)]
  BY DEF Drop
<1>2. \A g \in File : /\ left(g) \in Text
                      /\ \A s \in Slot : left(g)[s] \in {memory[g][s], NoHash}
  BY DEF Text
<1>3. failing = {} => \A s \in Slot : left(f)[s] \in {expected[s], NoHash}
  OBVIOUS
<1>4. f \in Listed(f) /\ Listed(f) \subseteq File
  BY DEF Listed
<1> HIDE DEF left
<1> QED BY <1>1, <1>2, <1>3, <1>4

\* What ingesting a text does: the other files stay, and if nothing fails
\* where only chunks of that text were left, the memory holds the text.
LEMMA Ingests ==
  ASSUME memory \in [File -> Text], done \subseteq Fingerprints, duplicate \subseteq Fingerprints,
         NEW f \in File, NEW text \in Text, NEW failing, Ingest(f, text, failing)
  PROVE  /\ memory' \in [File -> Text] /\ done' \subseteq Fingerprints
         /\ duplicate' \subseteq Fingerprints
         /\ \A g \in File \ {f} : /\ memory'[g] = memory[g]
                                  /\ \A s, h : <<g, s, h>> \in duplicate <=> <<g, s, h>> \in duplicate'
         /\ failing = {} /\ (\A s \in Slot : memory[f][s] \in {NoHash, text[s]}) =>
               \A s \in Slot : \/ memory'[f][s] = text[s]
                               \/ memory'[f][s] = NoHash /\ <<f, s, text[s]>> \in duplicate'
<1> DEFINE wanted == {s \in Slot : text[s] # NoHash /\ memory[f][s] = NoHash}
           known == {s \in wanted : <<f, s, text[s]>> \in done}
           made == {s \in wanted \ known : <<f, s>> \notin failing}
           now == [s \in Slot |-> IF s \in made THEN text[s] ELSE memory[f][s]]
           new == {<<f, s, text[s]>> : s \in made}
           old == {<<f, s, text[s]>> : s \in known}
<1>1. /\ memory' = [memory EXCEPT ![f] = now] /\ done' = done \cup new
      /\ duplicate' = (duplicate \ new) \cup old
  BY DEF Ingest
<1>2. made \subseteq wanted /\ known \subseteq wanted /\ made \cap known = {}
  OBVIOUS
<1>3. \A s \in wanted : s \in Slot /\ text[s] \in Hash /\ memory[f][s] = NoHash
  BY DEF Text
<1>4. failing = {} => wanted = made \cup known
  OBVIOUS
<1>5. \A s \in Slot : text[s] = NoHash \/ memory[f][s] # NoHash \/ s \in wanted
  OBVIOUS
<1>6. \A s \in Slot : now[s] = IF s \in made THEN text[s] ELSE memory[f][s]
  OBVIOUS
<1>7. now \in Text
  BY DEF Text
<1>8. new \subseteq Fingerprints /\ old \subseteq Fingerprints
  <2> HIDE DEF made, known, wanted
  <2> QED BY <1>2, <1>3 DEF Fingerprints
<1>9. \A g \in File \ {f} : \A s, h : <<g, s, h>> \notin new \cup old
  OBVIOUS
<1>10. \A s \in known : <<f, s, text[s]>> \in old
  OBVIOUS
<1> HIDE DEF wanted, known, made, now, new, old
<1>11. memory' \in [File -> Text] /\ memory'[f] = now
       /\ \A g \in File \ {f} : memory'[g] = memory[g]
  BY <1>1, <1>7
<1>12. failing = {} /\ (\A s \in Slot : memory[f][s] \in {NoHash, text[s]}) =>
               \A s \in Slot : \/ memory'[f][s] = text[s]
                               \/ memory'[f][s] = NoHash /\ <<f, s, text[s]>> \in duplicate'
  <2> SUFFICES ASSUME failing = {}, NEW s \in Slot, memory[f][s] \in {NoHash, text[s]},
                      memory'[f][s] # text[s]
               PROVE  memory'[f][s] = NoHash /\ <<f, s, text[s]>> \in duplicate'
    OBVIOUS
  <2>1. s \notin made /\ memory'[f][s] = memory[f][s] /\ memory[f][s] = NoHash
    BY <1>6, <1>11
  <2>2. s \in known
    BY <1>4, <1>5, <2>1
  <2> QED BY <1>1, <1>10, <2>1, <2>2
<1> QED BY <1>1, <1>8, <1>9, <1>11, <1>12

\* A file that nobody touches holds what it held.
LEMMA HoldsOn ==
  ASSUME NEW f \in File, NEW text, memory'[f] = memory[f],
         \A s, h : <<f, s, h>> \in duplicate => <<f, s, h>> \in duplicate', Holds(f, text)
  PROVE  \A s \in Slot : \/ memory'[f][s] = text[s]
                         \/ memory'[f][s] = NoHash /\ <<f, s, text[s]>> \in duplicate'
BY DEF Holds

LEMMA EditKept ==
  ASSUME SyncInv, NEW f \in File, NEW text \in Text, Edit(f, text)
  PROVE  SyncInv'
<1> USE DEF SyncInv
<1>1. workspace' \in [File -> Text]
  BY DEF Edit, SyncTypes
<1>2. budget' \in [edits : Nat, syncs : Nat, jobs : Nat, restarts : Nat]
  BY Spends DEF Edit, SyncTypes
<1>3. UNCHANGED <<memory, done, snapshot, kept, initialized, sync, job, loose, duplicate>>
  BY DEF Edit
<1> QED BY <1>1, <1>2, <1>3 DEF SyncTypes, Underway, Replaced, MemoryIsSnapshot, Synced, Running,
           Holds, Trimmed

LEMMA BeginKept ==
  ASSUME SyncInv, NEW force \in BOOLEAN, SyncBegin(force)
  PROVE  SyncInv'
<1> USE DEF SyncInv
<1> DEFINE first == force \/ ~initialized \/ ~kept
           old == IF first THEN [f \in File |-> Absent] ELSE snapshot
           changed == {f \in File : workspace[f] # old[f] /\ workspace[f] # Absent}
           removed == {f \in File : workspace[f] = Absent /\ old[f] # Absent}
           r == [NoSync EXCEPT !.at = "apply", !.copy = workspace,
                      !.scope = changed \cup removed, !.deleted = removed,
                      !.stale = changed, !.changed = changed]
<1>1. /\ ~Running /\ sync' = r /\ UNCHANGED <<state, job, duplicate>>
      /\ loose' = loose \cup IF first THEN {f \in File : workspace[f] = Absent
                                                         /\ memory[f] # Absent} ELSE {}
      /\ Spend("syncs")
  BY DEF SyncBegin
<1>2. changed \subseteq File /\ removed \subseteq File /\ workspace \in [File -> Text]
  BY DEF SyncTypes
<1>3. \A f \in removed : workspace[f] = Absent
  OBVIOUS
<1>4. \A f \in File \ (changed \cup removed) : workspace[f] = old[f]
  OBVIOUS
<1>5. first => \A f \in File : old[f] = Absent
  OBVIOUS
<1>6. ~first => kept /\ initialized /\ old = snapshot
  BY DEF SyncTypes
<1> HIDE DEF changed, removed, old
<1>7. /\ r \in SyncRecords /\ r.at = "apply" /\ r.copy = workspace
      /\ r.scope = changed \cup removed /\ r.deleted = removed /\ r.stale = changed
      /\ r.changed = changed
  BY <1>2, NothingRuns DEF NoSync, SyncRecords
<1> HIDE DEF r, first
<1>8. SyncTypes'
  <2>1. budget' \in [edits : Nat, syncs : Nat, jobs : Nat, restarts : Nat]
    BY <1>1, Spends DEF SyncTypes
  <2>2. loose' \subseteq File
    BY <1>1 DEF SyncTypes
  <2> QED BY <1>1, <1>7, <2>1, <2>2 DEF SyncTypes, state
<1>9. /\ UNCHANGED <<memory, snapshot, kept, initialized, duplicate>> /\ loose \subseteq loose'
      /\ sync'.at = "apply"
  BY <1>1, <1>7 DEF state
<1>10. ASSUME NEW f \in File \ (loose' \cup changed \cup removed)
       PROVE  \A s \in Slot : \/ memory[f][s] = workspace[f][s]
                              \/ memory[f][s] = NoHash /\ <<f, s, workspace[f][s]>> \in duplicate
  <2>1. CASE first
    <3>1. workspace[f] = Absent
      BY <1>4, <1>5, <2>1
    <3>2. memory[f] = Absent
      BY <1>1, <2>1, <3>1
    <3> QED BY <3>1, <3>2
  <2>2. CASE ~first
    <3>1. Synced /\ workspace[f] = snapshot[f] /\ f \notin loose
      BY <1>1, <1>4, <1>6, <1>9, <2>2 DEF Synced
    <3> QED BY <3>1 DEF MemoryIsSnapshot
  <2> QED BY <2>1, <2>2
<1>11. kept /\ initialized => \A f \in File \ loose : Holds(f, snapshot[f])
  BY <1>1 DEF MemoryIsSnapshot, Synced, Holds
<1>12. Trimmed' = {}
  BY <1>1, <1>7 DEF Trimmed
<1>13. Underway'
  <2>1. \A f \in File \ (loose' \cup sync'.deleted \cup sync'.stale) : Holds(f, sync.copy[f])'
    BY <1>1, <1>7, <1>9, <1>10 DEF Holds
  <2>2. kept' /\ initialized' =>
           \A f \in File \ (loose' \cup sync'.scope) : Holds(f, snapshot[f])'
    BY <1>9, <1>11 DEF Holds
  <2>3. \A f \in sync'.deleted : sync'.copy[f] = Absent
    BY <1>1, <1>3, <1>7
  <2>4. sync'.stale \subseteq sync'.changed /\ sync'.changed \subseteq sync'.stale
    BY <1>1, <1>7
  <2> QED BY <1>9, <1>12, <2>1, <2>2, <2>3, <2>4 DEF Underway
<1>14. Replaced' /\ MemoryIsSnapshot'
  BY <1>9 DEF Replaced, MemoryIsSnapshot, Synced, Running
<1> QED BY <1>8, <1>13, <1>14

LEMMA DeleteKept ==
  ASSUME SyncInv, NEW f \in File, SyncDelete(f)
  PROVE  SyncInv'
<1> USE DEF SyncInv
<1>1. /\ sync.at = "apply" /\ f \in sync.deleted /\ sync' = [sync EXCEPT !.deleted = @ \ {f}]
      /\ UNCHANGED <<workspace, done, snapshot, kept, initialized, job, budget, duplicate>>
  BY DEF SyncDelete
<1>2. PICK failing \in Failures(f) :
         /\ Drop(f, Absent, failing)
         /\ loose' = (Listed(f) \ {f}) \cup IF failing # {} \/ f \in sync.bad \/ JobOn(f)
                                            THEN loose \cup {f} ELSE loose \ {f}
  BY DEF SyncDelete
<1>3. /\ memory' \in [File -> Text] /\ \A g \in File \ Listed(f) : memory'[g] = memory[g]
      /\ \A g \in File, s \in Slot : memory'[g][s] \in {memory[g][s], NoHash}
      /\ failing = {} => \A s \in Slot : memory'[f][s] = NoHash
      /\ Listed(f) \subseteq File
  BY <1>2, AbsentText, Drops DEF SyncTypes
<1>4. /\ sync' \in SyncRecords /\ sync'.at = "apply" /\ sync'.copy = sync.copy
      /\ sync'.deleted = sync.deleted \ {f} /\ sync'.stale = sync.stale
      /\ sync'.changed = sync.changed /\ sync'.scope = sync.scope
      /\ sync'.file = sync.file /\ sync'.bad = sync.bad
  BY <1>1 DEF SyncTypes, SyncRecords
<1>5. SyncTypes'
  BY <1>1, <1>2, <1>3, <1>4 DEF SyncTypes
<1>6. sync.changed \subseteq sync.stale /\ f \notin loose' => failing = {}
  BY <1>1, <1>2 DEF Underway
<1>7. ASSUME NEW g \in File \ loose', g # f PROVE g \notin loose /\ memory'[g] = memory[g]
  BY <1>2, <1>3, <1>7
<1>8. sync.copy[f] = Absent /\ sync.changed \subseteq sync.stale /\ f \in sync.scope
  BY <1>1 DEF Underway, SyncTypes
<1>9. Underway'
  <2>1. Trimmed' = {}
    BY <1>4, <1>8 DEF Trimmed
  <2>2. ASSUME NEW g \in File \ (loose' \cup sync'.deleted \cup sync'.stale)
        PROVE  Holds(g, sync.copy[g])'
    <3>1. CASE g = f
      <4>1. \A s \in Slot : memory'[f][s] = NoHash /\ sync'.copy[f][s] = NoHash
        BY <1>3, <1>4, <1>6, <1>8, <2>2, <3>1, AbsentText
      <4> QED BY <3>1, <4>1 DEF Holds
    <3>2. CASE g # f
      <4>1. g \in File \ (loose \cup sync.deleted \cup sync.stale) /\ memory'[g] = memory[g]
        BY <1>4, <1>7, <2>2, <3>2
      <4>2. Holds(g, sync.copy[g])
        BY <1>1, <4>1 DEF Underway
      <4> QED BY <1>1, <1>4, <4>1, <4>2 DEF Holds
    <3> QED BY <3>1, <3>2
  <2>3. ASSUME kept', initialized', NEW g \in File \ (loose' \cup sync'.scope)
        PROVE  Holds(g, snapshot[g])'
    <3>1. g # f /\ g \notin sync.scope
      BY <1>4, <1>8, <2>3
    <3>2. g \notin loose /\ memory'[g] = memory[g]
      BY <1>7, <2>3, <3>1
    <3>3. Holds(g, snapshot[g])
      BY <1>1, <2>3, <3>1, <3>2 DEF Underway
    <3> QED BY <1>1, <3>2, <3>3 DEF Holds
  <2>4. /\ sync'.stale \subseteq sync'.changed
        /\ \A g \in sync'.deleted : sync'.copy[g] = Absent
    BY <1>1, <1>4 DEF Underway
  <2> QED BY <1>4, <1>8, <2>1, <2>2, <2>3, <2>4 DEF Underway
<1>10. Replaced' /\ MemoryIsSnapshot'
  BY <1>4 DEF Replaced, MemoryIsSnapshot, Synced, Running
<1> QED BY <1>5, <1>9, <1>10

LEMMA StaleKept ==
  ASSUME SyncInv, NEW f \in File, SyncDropStale(f)
  PROVE  SyncInv'
<1> USE DEF SyncInv
<1>1. /\ sync.at = "apply" /\ f \in sync.stale /\ sync.deleted = {}
      /\ UNCHANGED <<workspace, done, snapshot, kept, initialized, job, budget, duplicate>>
      /\ loose' = loose \cup Listed(f)
  BY DEF SyncDropStale
<1>2. PICK failing \in Failures(f) :
         /\ Drop(f, workspace[f], failing)
         /\ sync' = [sync EXCEPT !.stale = @ \ {f},
                       !.bad = IF failing = {} /\ workspace[f] = sync.copy[f]
                               THEN @ ELSE @ \cup {f}]
  BY DEF SyncDropStale
<1>3. /\ memory' \in [File -> Text] /\ \A g \in File \ Listed(f) : memory'[g] = memory[g]
      /\ \A g \in File, s \in Slot : memory'[g][s] \in {memory[g][s], NoHash}
      /\ failing = {} => \A s \in Slot : memory'[f][s] \in {workspace[f][s], NoHash}
      /\ f \in Listed(f) /\ Listed(f) \subseteq File
  BY <1>2, Drops DEF SyncTypes
<1> DEFINE bad == IF failing = {} /\ workspace[f] = sync.copy[f] THEN sync.bad
                  ELSE sync.bad \cup {f}
<1>4. /\ sync' \in SyncRecords /\ sync'.at = "apply" /\ sync'.copy = sync.copy
      /\ sync'.deleted = sync.deleted /\ sync'.stale = sync.stale \ {f}
      /\ sync'.changed = sync.changed /\ sync'.scope = sync.scope
      /\ sync'.file = sync.file /\ sync'.bad = bad
  <2>1. bad \in SUBSET File
    BY DEF SyncTypes, SyncRecords
  <2>2. sync' = [sync EXCEPT !.stale = @ \ {f}, !.bad = bad]
    BY <1>2 DEF SyncTypes, SyncRecords
  <2> HIDE DEF bad
  <2> QED BY <1>1, <2>1, <2>2 DEF SyncTypes, SyncRecords
<1>5. sync.bad \subseteq bad /\ (f \notin bad => failing = {} /\ workspace[f] = sync.copy[f])
  OBVIOUS
<1> HIDE DEF bad
<1>6. SyncTypes'
  BY <1>1, <1>3, <1>4 DEF SyncTypes
<1>7. ASSUME NEW g \in File \ loose' PROVE g \notin loose /\ g # f /\ memory'[g] = memory[g]
  BY <1>1, <1>3, <1>7
<1>8. Underway'
  <2>1. Trimmed' \subseteq Trimmed \cup {f}
    BY <1>1, <1>4 DEF Trimmed
  <2>2. Trimmed' \subseteq loose'
    BY <1>1, <1>3, <2>1 DEF Underway
  <2>3. ASSUME NEW g \in Trimmed' \ sync'.bad, NEW s \in Slot
        PROVE  memory'[g][s] \in {NoHash, sync'.copy[g][s]}
    <3>1. CASE g = f
      BY <1>3, <1>4, <1>5, <2>3, <3>1
    <3>2. CASE g # f
      <4>1. g \in Trimmed \ sync.bad /\ g \in File
        BY <1>4, <1>5, <2>1, <2>3, <3>2 DEF Trimmed
      <4>2. memory[g][s] \in {NoHash, sync.copy[g][s]}
        BY <1>1, <4>1 DEF Underway
      <4> QED BY <1>3, <1>4, <4>1, <4>2
    <3> QED BY <3>1, <3>2
  <2>4. ASSUME NEW g \in File \ (loose' \cup sync'.deleted \cup sync'.stale)
        PROVE  Holds(g, sync.copy[g])'
    <3>1. g \in File \ (loose \cup sync.deleted \cup sync.stale) /\ memory'[g] = memory[g]
      BY <1>4, <1>7, <2>4
    <3>2. Holds(g, sync.copy[g])
      BY <1>1, <3>1 DEF Underway
    <3> QED BY <1>1, <1>4, <3>1, <3>2 DEF Holds
  <2>5. ASSUME kept', initialized', NEW g \in File \ (loose' \cup sync'.scope)
        PROVE  Holds(g, snapshot[g])'
    <3>1. g \notin sync.scope /\ g \notin loose /\ memory'[g] = memory[g]
      BY <1>4, <1>7, <2>5
    <3>2. Holds(g, snapshot[g])
      BY <1>1, <2>5, <3>1 DEF Underway
    <3> QED BY <1>1, <3>1, <3>2 DEF Holds
  <2>6. sync'.stale \subseteq sync'.changed /\ sync'.deleted = {}
    BY <1>1, <1>4 DEF Underway
  <2> QED BY <1>4, <2>2, <2>3, <2>4, <2>5, <2>6 DEF Underway
<1>9. Replaced' /\ MemoryIsSnapshot'
  BY <1>4 DEF Replaced, MemoryIsSnapshot, Synced, Running
<1> QED BY <1>6, <1>8, <1>9

LEMMA ReadKept ==
  ASSUME SyncInv, NEW f \in File, SyncRead(f)
  PROVE  SyncInv'
<1> USE DEF SyncInv
<1> DEFINE at == IF workspace[f] = Absent THEN "apply" ELSE "write"
<1>1. /\ sync.at = "apply" /\ f \in sync.changed /\ sync.deleted = {} /\ sync.stale = {}
      /\ sync' = [sync EXCEPT !.changed = @ \ {f}, !.at = at, !.file = f, !.text = workspace[f]]
      /\ UNCHANGED <<state, job, budget, loose, duplicate>>
  BY DEF SyncRead
<1>2. at \in {"apply", "write"} /\ workspace[f] \in Text
  BY DEF SyncTypes
<1> HIDE DEF at
<1>3. /\ sync' \in SyncRecords /\ sync'.at = at /\ sync'.copy = sync.copy
      /\ sync'.deleted = sync.deleted /\ sync'.stale = sync.stale
      /\ sync'.changed = sync.changed \ {f} /\ sync'.scope = sync.scope
      /\ sync'.file = f /\ sync'.bad = sync.bad
  BY <1>1, <1>2 DEF SyncTypes, SyncRecords
<1>4. SyncTypes'
  BY <1>1, <1>3 DEF SyncTypes, state
<1>5. f \in sync.scope /\ Trimmed' \subseteq Trimmed
  BY <1>1, <1>3 DEF Trimmed, SyncTypes
<1>6. Underway'
  <2>1. \A g \in File : Holds(g, sync.copy[g])' <=> Holds(g, sync.copy[g])
    BY <1>1, <1>3 DEF Holds, state
  <2>2. \A g \in File : Holds(g, snapshot[g])' <=> Holds(g, snapshot[g])
    BY <1>1 DEF Holds, state
  <2>3. /\ Trimmed \subseteq loose
        /\ \A g \in Trimmed \ sync.bad, s \in Slot : memory[g][s] \in {NoHash, sync.copy[g][s]}
        /\ \A g \in File \ (loose \cup sync.deleted \cup sync.stale) : Holds(g, sync.copy[g])
        /\ kept /\ initialized =>
             \A g \in File \ (loose \cup sync.scope) : Holds(g, snapshot[g])
    BY <1>1 DEF Underway
  <2>4. UNCHANGED <<memory, snapshot, kept, initialized, loose>>
    BY <1>1 DEF state
  <2>5. \A g \in Trimmed' \ sync'.bad, s \in Slot : memory'[g][s] \in {NoHash, sync'.copy[g][s]}
    BY <1>3, <1>5, <2>3, <2>4
  <2>6. /\ \A g \in File \ (loose' \cup sync'.deleted \cup sync'.stale) : Holds(g, sync.copy[g])'
        /\ kept' /\ initialized' =>
             \A g \in File \ (loose' \cup sync'.scope) : Holds(g, snapshot[g])'
    BY <1>3, <2>1, <2>2, <2>3, <2>4
  <2> QED BY <1>1, <1>2, <1>3, <1>5, <2>3, <2>4, <2>5, <2>6 DEF Underway
<1>7. Replaced' /\ MemoryIsSnapshot'
  BY <1>2, <1>3 DEF Replaced, MemoryIsSnapshot, Synced, Running
<1> QED BY <1>4, <1>6, <1>7

LEMMA SyncIngestKept ==
  ASSUME SyncInv, SyncIngest
  PROVE  SyncInv'
<1> USE DEF SyncInv
<1>0. PICK f \in File : f = sync.file
  BY DEF SyncIngest, Underway
<1>1. /\ sync.at = "write" /\ sync' = [sync EXCEPT !.at = "apply"]
      /\ UNCHANGED <<workspace, snapshot, kept, initialized, job, budget>>
  BY DEF SyncIngest
<1>2. PICK failing \in Failures(f) :
         /\ Ingest(f, sync.text, failing)
         /\ loose' = IF \/ failing # {} \/ f \in sync.bad \/ JobOn(f)
                        \/ sync.text # sync.copy[f]
                     THEN loose \cup {f} ELSE loose \ {f}
  BY <1>0 DEF SyncIngest
<1>3. /\ f \in sync.scope /\ sync.text \in Text /\ sync.stale = {} /\ f \notin sync.changed
      /\ sync.deleted = {} /\ f \in Trimmed
  BY <1>0, <1>1 DEF Underway, SyncTypes, SyncRecords, Trimmed
<1>4. /\ memory' \in [File -> Text] /\ done' \subseteq Fingerprints
      /\ duplicate' \subseteq Fingerprints
      /\ \A g \in File \ {f} : /\ memory'[g] = memory[g]
                               /\ \A s, h : <<g, s, h>> \in duplicate <=> <<g, s, h>> \in duplicate'
      /\ failing = {} /\ (\A s \in Slot : memory[f][s] \in {NoHash, sync.text[s]}) =>
               \A s \in Slot : \/ memory'[f][s] = sync.text[s]
                               \/ memory'[f][s] = NoHash /\ <<f, s, sync.text[s]>> \in duplicate'
  BY <1>2, <1>3, Ingests DEF SyncTypes
<1>5. /\ sync' \in SyncRecords /\ sync'.at = "apply" /\ sync'.copy = sync.copy
      /\ sync'.deleted = sync.deleted /\ sync'.stale = sync.stale
      /\ sync'.changed = sync.changed /\ sync'.scope = sync.scope
      /\ sync'.bad = sync.bad
  BY <1>1 DEF SyncTypes, SyncRecords
<1>6. SyncTypes'
  BY <1>1, <1>2, <1>3, <1>4, <1>5 DEF SyncTypes
<1>7. ASSUME NEW g \in File \ {f}
      PROVE  /\ g \in loose' <=> g \in loose
             /\ Holds(g, sync.copy[g]) => Holds(g, sync.copy[g])'
             /\ Holds(g, snapshot[g]) => Holds(g, snapshot[g])'
  BY <1>1, <1>2, <1>4, <1>5 DEF Holds
<1>8. f \notin loose' => Holds(f, sync.copy[f])'
  <2> SUFFICES ASSUME f \notin loose' PROVE Holds(f, sync.copy[f])'
    OBVIOUS
  <2>1. failing = {} /\ f \notin sync.bad /\ sync.text = sync.copy[f]
    BY <1>2
  <2>2. \A g \in Trimmed \ sync.bad, s \in Slot : memory[g][s] \in {NoHash, sync.copy[g][s]}
    BY <1>1 DEF Underway
  <2>3. \A s \in Slot : memory[f][s] \in {NoHash, sync.text[s]}
    BY <1>3, <2>1, <2>2
  <2> QED BY <1>4, <1>5, <2>1, <2>3 DEF Holds
<1>9. Underway'
  <2>1. Trimmed' = sync.changed
    BY <1>3, <1>5 DEF Trimmed, SyncTypes, SyncRecords
  <2>2. ASSUME NEW g \in Trimmed' PROVE g \in loose'
    <3>1. g \in Trimmed /\ g \in loose
      BY <1>1, <1>3, <2>1, <2>2 DEF Trimmed, Underway, SyncTypes, SyncRecords
    <3>2. g # f /\ g \in File
      BY <1>3, <2>1, <2>2, <3>1 DEF Trimmed
    <3> QED BY <1>7, <3>1, <3>2
  <2>3. ASSUME NEW g \in Trimmed' \ sync'.bad, NEW s \in Slot
        PROVE  memory'[g][s] \in {NoHash, sync'.copy[g][s]}
    <3>1. g \in Trimmed \ sync.bad /\ g \in File /\ g # f
      BY <1>3, <1>5, <2>1, <2>3 DEF Trimmed
    <3>2. memory[g][s] \in {NoHash, sync.copy[g][s]}
      BY <1>1, <3>1 DEF Underway
    <3> QED BY <1>4, <1>5, <3>1, <3>2
  <2>4. ASSUME NEW g \in File \ (loose' \cup sync'.deleted \cup sync'.stale)
        PROVE  Holds(g, sync.copy[g])'
    <3>1. CASE g = f
      BY <1>8, <2>4, <3>1
    <3>2. CASE g # f
      <4>1. Holds(g, sync.copy[g])
        BY <1>1, <1>5, <1>7, <2>4, <3>2 DEF Underway
      <4> QED BY <1>7, <3>2, <4>1
    <3> QED BY <3>1, <3>2
  <2>5. ASSUME kept', initialized', NEW g \in File \ (loose' \cup sync'.scope)
        PROVE  Holds(g, snapshot[g])'
    <3>1. g # f /\ g \notin sync.scope
      BY <1>3, <1>5, <2>5
    <3>2. Holds(g, snapshot[g])
      BY <1>1, <1>7, <2>5, <3>1 DEF Underway
    <3> QED BY <1>7, <3>1, <3>2
  <2>6. sync'.stale \subseteq sync'.changed /\ sync'.deleted = {}
    BY <1>3, <1>5
  <2> QED BY <1>5, <2>2, <2>3, <2>4, <2>5, <2>6 DEF Underway
<1>10. Replaced' /\ MemoryIsSnapshot'
  BY <1>5 DEF Replaced, MemoryIsSnapshot, Synced, Running
<1> QED BY <1>6, <1>9, <1>10

LEMMA UnlinkKept ==
  ASSUME SyncInv, SyncUnlink
  PROVE  SyncInv'
<1> USE DEF SyncInv
<1>1. /\ sync.at = "apply" /\ sync.deleted = {} /\ sync.stale = {} /\ sync.changed = {}
      /\ kept' = FALSE /\ snapshot' = [f \in File |-> Absent]
      /\ sync' = [sync EXCEPT !.at = "rename"]
      /\ UNCHANGED <<workspace, memory, done, initialized, job, budget, loose, duplicate>>
  BY DEF SyncUnlink
<1>2. /\ sync' \in SyncRecords /\ sync'.at = "rename" /\ sync'.copy = sync.copy
      /\ sync'.deleted \cup sync'.changed \subseteq sync'.scope
  BY <1>1 DEF SyncTypes, SyncRecords
<1>3. SyncTypes'
  <2>1. snapshot' \in [File -> Text]
    BY <1>1, AbsentText
  <2> QED BY <1>1, <1>2, <2>1 DEF SyncTypes
<1>4. \A f \in File \ loose : Holds(f, sync.copy[f])
  BY <1>1 DEF Underway
<1>5. Replaced'
  BY <1>1, <1>2, <1>4 DEF Replaced, Holds
<1> QED BY <1>2, <1>3, <1>5 DEF Underway, MemoryIsSnapshot, Synced, Running

LEMMA RenameKept ==
  ASSUME SyncInv, SyncRename
  PROVE  SyncInv'
<1> USE DEF SyncInv
<1>1. /\ sync.at = "rename" /\ kept' = TRUE /\ snapshot' = sync.copy
      /\ sync' = [sync EXCEPT !.at = "meta"]
      /\ UNCHANGED <<workspace, memory, done, initialized, job, budget, loose, duplicate>>
  BY DEF SyncRename
<1>2. /\ sync' \in SyncRecords /\ sync'.at = "meta"
      /\ sync'.deleted \cup sync'.changed \subseteq sync'.scope
  BY <1>1 DEF SyncTypes, SyncRecords
<1>3. SyncTypes'
  <2>1. snapshot' \in [File -> Text]
    BY <1>1 DEF SyncTypes, SyncRecords
  <2> QED BY <1>1, <1>2, <2>1 DEF SyncTypes
<1>4. \A f \in File \ loose : Holds(f, sync.copy[f])
  BY <1>1 DEF Replaced
<1>5. Replaced'
  BY <1>1, <1>2, <1>4 DEF Replaced, Holds
<1> QED BY <1>2, <1>3, <1>5 DEF Underway, MemoryIsSnapshot, Synced, Running

LEMMA MetaKept ==
  ASSUME SyncInv, SyncMeta
  PROVE  SyncInv'
<1> USE DEF SyncInv
<1>1. /\ sync.at = "meta" /\ initialized' = TRUE /\ sync' = NoSync
      /\ UNCHANGED <<workspace, memory, done, snapshot, kept, job, budget, loose, duplicate>>
  BY DEF SyncMeta
<1>2. /\ sync' \in SyncRecords /\ sync'.at = "idle"
      /\ sync'.deleted \cup sync'.changed \subseteq sync'.scope
  BY <1>1, NothingRuns DEF NoSync
<1>3. SyncTypes'
  BY <1>1, <1>2 DEF SyncTypes
<1>4. \A f \in File \ loose : Holds(f, snapshot[f])
  BY <1>1 DEF Replaced
<1>5. MemoryIsSnapshot'
  BY <1>1, <1>4 DEF MemoryIsSnapshot, Holds
<1> QED BY <1>2, <1>3, <1>5 DEF Underway, Replaced

\* While nothing of the memory changes, more files may become exceptions.
LEMMA MoreLoose ==
  ASSUME SyncInv, loose \subseteq loose',
         UNCHANGED <<memory, snapshot, kept, initialized, sync, duplicate>>
  PROVE  Underway' /\ Replaced' /\ MemoryIsSnapshot'
<1> USE DEF SyncInv
<1>1. /\ Trimmed' = Trimmed
      /\ \A f \in File : /\ Holds(f, sync.copy[f])' <=> Holds(f, sync.copy[f])
                         /\ Holds(f, snapshot[f])' <=> Holds(f, snapshot[f])
  BY DEF Trimmed, Holds
<1>2. Underway'
  BY <1>1 DEF Underway
<1>3. Replaced'
  BY <1>1 DEF Replaced
<1> QED BY <1>2, <1>3 DEF MemoryIsSnapshot, Synced, Running

LEMMA JobBeginKept ==
  ASSUME SyncInv, NEW f \in File, NEW drop \in BOOLEAN, JobBegin(f, drop)
  PROVE  SyncInv'
<1> USE DEF SyncInv
<1> DEFINE at == IF drop THEN "drop" ELSE "read"
<1>1. /\ job' = [NoJob EXCEPT !.at = at, !.file = f, !.dropped = drop] /\ Spend("jobs")
      /\ loose' = IF Running /\ f \in sync.scope THEN loose \cup {f} ELSE loose
      /\ UNCHANGED <<state, sync, duplicate>>
  BY DEF JobBegin
<1>2. at \in {"drop", "read"}
  OBVIOUS
<1> HIDE DEF at
<1>3. job' \in JobRecords /\ job'.file = f
  BY <1>1, <1>2, NothingRuns DEF NoJob, JobRecords
<1>4. budget' \in [edits : Nat, syncs : Nat, jobs : Nat, restarts : Nat]
  BY <1>1, Spends DEF SyncTypes
<1>5. loose \subseteq loose' /\ loose' \subseteq File
  BY <1>1 DEF SyncTypes
<1>6. SyncTypes'
  BY <1>1, <1>3, <1>4, <1>5 DEF SyncTypes, state
<1>7. UNCHANGED <<memory, snapshot, kept, initialized, sync, duplicate>>
  BY <1>1 DEF state
<1> QED BY <1>5, <1>6, <1>7, MoreLoose

LEMMA JobReadKept ==
  ASSUME SyncInv, JobRead
  PROVE  SyncInv'
<1> USE DEF SyncInv
<1>1. /\ job.at = "read" /\ UNCHANGED <<state, sync, budget, loose, duplicate>>
      /\ job' = IF workspace[job.file] = Absent THEN NoJob
                ELSE [job EXCEPT !.at = "write", !.text = workspace[job.file]]
  BY DEF JobRead
<1>2. job.file \in File /\ workspace[job.file] \in Text
  BY <1>1 DEF SyncTypes
<1>3. job' \in JobRecords /\ (job'.at # "idle" => job'.file \in File)
  <2>1. CASE workspace[job.file] = Absent
    BY <1>1, <2>1, NothingRuns DEF NoJob
  <2>2. CASE workspace[job.file] # Absent
    BY <1>1, <1>2, <2>2 DEF SyncTypes, JobRecords
  <2> QED BY <2>1, <2>2
<1>4. SyncTypes'
  BY <1>1, <1>3 DEF SyncTypes, state
<1>5. loose \subseteq loose' /\ UNCHANGED <<memory, snapshot, kept, initialized, sync, duplicate>>
  BY <1>1 DEF state
<1> QED BY <1>4, <1>5, MoreLoose

\* A job that changes the memory of some files: a running sync takes them for
\* bad, and they are exceptions from then on.
LEMMA Disturbed ==
  ASSUME SyncInv, NEW fs \in SUBSET File, Disturb(fs), loose \subseteq loose',
         Running => fs \subseteq loose',
         UNCHANGED <<snapshot, kept, initialized>>,
         \A f \in File \ fs : /\ memory'[f] = memory[f]
                              /\ \A s, h : <<f, s, h>> \in duplicate => <<f, s, h>> \in duplicate'
  PROVE  /\ Underway' /\ Replaced'
         /\ Running => MemoryIsSnapshot'
         /\ sync' \in SyncRecords /\ sync'.deleted \cup sync'.changed \subseteq sync'.scope
         /\ Running' <=> Running
<1> USE DEF SyncInv
<1>1. CASE ~Running
  BY <1>1 DEF Disturb, Running, Underway, Replaced, SyncTypes
<1>2. CASE Running
  <2> DEFINE bad == sync.bad \cup fs
  <2>1. sync' = [sync EXCEPT !.bad = bad] /\ bad \subseteq File
    BY <1>2 DEF Disturb, SyncTypes, SyncRecords
  <2>2. sync.bad \subseteq bad /\ fs \subseteq bad
    OBVIOUS
  <2> HIDE DEF bad
  <2>3. /\ sync' \in SyncRecords /\ sync'.at = sync.at /\ sync'.copy = sync.copy
        /\ sync'.deleted = sync.deleted /\ sync'.stale = sync.stale
        /\ sync'.changed = sync.changed /\ sync'.scope = sync.scope
        /\ sync'.file = sync.file /\ sync'.bad = bad
    BY <2>1 DEF SyncTypes, SyncRecords
  <2>4. Trimmed' = Trimmed
    BY <2>3 DEF Trimmed
  <2>5. ASSUME NEW f \in File \ loose'
        PROVE  /\ f \notin loose
               /\ Holds(f, sync.copy[f]) => Holds(f, sync.copy[f])'
               /\ Holds(f, snapshot[f]) => Holds(f, snapshot[f])'
    <3>1. f \notin loose /\ f \in File \ fs
      BY <1>2
    <3>2. memory'[f] = memory[f] /\ \A s, h : <<f, s, h>> \in duplicate => <<f, s, h>> \in duplicate'
      BY <3>1
    <3> QED BY <2>3, <3>1, <3>2 DEF Holds
  <2>6. Underway'
    <3> SUFFICES ASSUME sync.at \in {"apply", "write"} PROVE Underway'
      BY <2>3 DEF Underway
    <3>1. /\ Trimmed \subseteq loose
          /\ \A f \in Trimmed \ sync.bad, s \in Slot : memory[f][s] \in {NoHash, sync.copy[f][s]}
          /\ \A f \in File \ (loose \cup sync.deleted \cup sync.stale) : Holds(f, sync.copy[f])
          /\ kept /\ initialized =>
               \A f \in File \ (loose \cup sync.scope) : Holds(f, snapshot[f])
      BY DEF Underway
    <3>2. Trimmed \subseteq File
      BY DEF Trimmed
    <3>3. \A f \in Trimmed' \ sync'.bad, s \in Slot : memory'[f][s] \in {NoHash, sync'.copy[f][s]}
      BY <2>2, <2>3, <2>4, <3>1, <3>2
    <3>4. \A f \in File \ (loose' \cup sync'.deleted \cup sync'.stale) : Holds(f, sync.copy[f])'
      BY <2>3, <2>5, <3>1
    <3>5. kept' /\ initialized' =>
            \A f \in File \ (loose' \cup sync'.scope) : Holds(f, snapshot[f])'
      BY <2>3, <2>5, <3>1
    <3> QED BY <2>3, <2>4, <3>1, <3>3, <3>4, <3>5 DEF Underway
  <2>7. Replaced'
    BY <2>3, <2>5 DEF Replaced
  <2>8. Running'
    BY <1>2, <2>3 DEF Running
  <2>9. sync'.deleted \cup sync'.changed \subseteq sync'.scope
    BY <2>3 DEF SyncTypes
  <2> QED BY <1>2, <2>3, <2>6, <2>7, <2>8, <2>9 DEF MemoryIsSnapshot, Synced
<1> QED BY <1>1, <1>2

LEMMA JobDropKept ==
  ASSUME SyncInv, JobDrop
  PROVE  SyncInv'
<1> USE DEF SyncInv
<1>1. /\ job.at = "drop" /\ loose' = loose \cup Listed(job.file) /\ Disturb(Listed(job.file))
      /\ UNCHANGED <<workspace, done, snapshot, kept, initialized, budget, duplicate>>
  BY DEF JobDrop
<1>2. PICK failing \in Failures(job.file) :
         Drop(job.file, Absent, failing) /\ job' = [job EXCEPT !.at = "read", !.ok = failing = {}]
  BY DEF JobDrop
<1>3. PICK f \in File : f = job.file
  BY <1>1 DEF SyncTypes
<1>4. PICK fs \in SUBSET File : fs = Listed(f)
  BY DEF Listed
<1>5. memory' \in [File -> Text] /\ \A g \in File \ fs : memory'[g] = memory[g]
  BY <1>2, <1>3, <1>4, AbsentText, Drops DEF SyncTypes
<1>6. loose' = loose \cup fs /\ Disturb(fs)
  BY <1>1, <1>3, <1>4
<1>7. /\ Underway' /\ Replaced' /\ (Running => MemoryIsSnapshot') /\ (Running' <=> Running)
      /\ sync' \in SyncRecords /\ sync'.deleted \cup sync'.changed \subseteq sync'.scope
  BY <1>1, <1>5, <1>6, Disturbed
<1>8. job' \in JobRecords /\ job'.file = job.file
  <2> DEFINE ok == failing = {}
  <2>1. ok \in BOOLEAN /\ job' = [job EXCEPT !.at = "read", !.ok = ok]
    BY <1>2
  <2> HIDE DEF ok
  <2> QED BY <2>1 DEF SyncTypes, JobRecords
<1>9. SyncTypes'
  BY <1>1, <1>3, <1>5, <1>6, <1>7, <1>8 DEF SyncTypes
<1>10. ~Running => MemoryIsSnapshot'
  BY <1>1, <1>5, <1>6, <1>7 DEF MemoryIsSnapshot, Synced
<1> QED BY <1>7, <1>9, <1>10

LEMMA JobIngestKept ==
  ASSUME SyncInv, JobIngest
  PROVE  SyncInv'
<1> USE DEF SyncInv
<1>1. PICK f \in File : f = job.file
  BY DEF SyncTypes, JobIngest
<1>2. /\ job.at = "write" /\ Disturb({f})
      /\ UNCHANGED <<workspace, snapshot, kept, initialized, budget>>
  BY <1>1 DEF JobIngest
<1>3. PICK failing \in Failures(f) :
         /\ Ingest(f, job.text, failing)
         /\ job' = [job EXCEPT !.at = "done", !.ok = @ /\ failing = {}]
         /\ loose' = IF ~job.ok \/ failing # {} \/ Running \/ job.text # snapshot[f]
                     THEN loose \cup {f} ELSE loose
  BY <1>1 DEF JobIngest
<1>4. job.text \in Text
  BY DEF SyncTypes, JobRecords
<1>5. /\ memory' \in [File -> Text] /\ done' \subseteq Fingerprints
      /\ duplicate' \subseteq Fingerprints
      /\ \A g \in File \ {f} : /\ memory'[g] = memory[g]
                               /\ \A s, h : <<g, s, h>> \in duplicate <=> <<g, s, h>> \in duplicate'
      /\ failing = {} /\ (\A s \in Slot : memory[f][s] \in {NoHash, job.text[s]}) =>
               \A s \in Slot : \/ memory'[f][s] = job.text[s]
                               \/ memory'[f][s] = NoHash /\ <<f, s, job.text[s]>> \in duplicate'
  BY <1>3, <1>4, Ingests DEF SyncTypes
<1>6. loose \subseteq loose' /\ loose' \subseteq File /\ (Running => {f} \subseteq loose')
  BY <1>3 DEF SyncTypes
<1>7. /\ Underway' /\ Replaced' /\ (Running => MemoryIsSnapshot') /\ (Running' <=> Running)
      /\ sync' \in SyncRecords /\ sync'.deleted \cup sync'.changed \subseteq sync'.scope
  <2>1. {f} \in SUBSET File
    OBVIOUS
  <2>2. \A g \in File \ {f} : /\ memory'[g] = memory[g]
                              /\ \A s, h : <<g, s, h>> \in duplicate => <<g, s, h>> \in duplicate'
    BY <1>5
  <2> QED BY <1>2, <1>6, <2>1, <2>2, Disturbed
<1>8. job' \in JobRecords /\ job'.file = job.file
  <2> DEFINE ok == job.ok /\ failing = {}
  <2>1. ok \in BOOLEAN /\ job' = [job EXCEPT !.at = "done", !.ok = ok]
    BY <1>3
  <2> HIDE DEF ok
  <2> QED BY <2>1 DEF SyncTypes, JobRecords
<1>9. SyncTypes'
  BY <1>1, <1>2, <1>5, <1>6, <1>7, <1>8 DEF SyncTypes
<1>10. ASSUME ~Running, Synced', NEW g \in File \ loose', NEW s \in Slot
       PROVE  \/ memory'[g][s] = snapshot'[g][s]
              \/ memory'[g][s] = NoHash /\ <<g, s, snapshot'[g][s]>> \in duplicate'
  <2>1. Synced /\ g \notin loose /\ snapshot' = snapshot
    BY <1>2, <1>6, <1>10 DEF Synced
  <2>2. \A t \in Slot : \/ memory[g][t] = snapshot[g][t]
                        \/ memory[g][t] = NoHash /\ <<g, t, snapshot[g][t]>> \in duplicate
    BY <2>1 DEF MemoryIsSnapshot
  <2>3. CASE g # f
    BY <1>5, <2>1, <2>2, <2>3
  <2>4. CASE g = f
    <3>1. failing = {} /\ job.text = snapshot[f]
      BY <1>3, <1>10, <2>4
    <3> QED BY <1>5, <2>1, <2>2, <2>4, <3>1
  <2> QED BY <2>3, <2>4
<1>11. ~Running => MemoryIsSnapshot'
  BY <1>10 DEF MemoryIsSnapshot
<1> QED BY <1>7, <1>9, <1>11

LEMMA RestartKept ==
  ASSUME SyncInv, Restart
  PROVE  SyncInv'
<1> USE DEF SyncInv
<1>1. /\ done' = {} /\ sync' = NoSync /\ job' = NoJob /\ Spend("restarts")
      /\ loose' = IF Running THEN loose \cup sync.scope ELSE loose
      /\ UNCHANGED <<workspace, memory, snapshot, kept, initialized, duplicate>>
  BY DEF Restart
<1>2. sync'.at = "idle" /\ sync'.deleted = {} /\ sync'.changed = {} /\ job'.at = "idle"
  BY <1>1 DEF NoSync, NoJob
<1>3. SyncTypes'
  <2>1. budget' \in [edits : Nat, syncs : Nat, jobs : Nat, restarts : Nat]
    BY <1>1, Spends DEF SyncTypes
  <2>2. loose' \subseteq File
    BY <1>1 DEF SyncTypes, SyncRecords
  <2> QED BY <1>1, <1>2, <2>1, <2>2, NothingRuns DEF SyncTypes
<1>4. ASSUME kept, initialized, NEW f \in File \ loose' PROVE Holds(f, snapshot[f])
  <2>1. CASE ~Running
    BY <1>1, <1>4, <2>1 DEF MemoryIsSnapshot, Synced, Holds
  <2>2. CASE Running
    <3>1. f \in File \ (loose \cup sync.scope) /\ sync.at \in {"apply", "write", "rename", "meta"}
      BY <1>1, <1>4, <2>2 DEF Running, SyncTypes, SyncRecords
    <3> QED BY <1>4, <3>1 DEF Underway, Replaced
  <2> QED BY <2>1, <2>2
<1>5. MemoryIsSnapshot'
  BY <1>1, <1>4 DEF MemoryIsSnapshot, Synced, Holds
<1> QED BY <1>2, <1>3, <1>5 DEF Underway, Replaced

LEMMA SyncInvHolds == SyncSpec => []SyncInv
<1>1. SyncInit => SyncInv
  <2> SUFFICES ASSUME SyncInit PROVE SyncInv
    OBVIOUS
  <2>1. SyncTypes
    BY SyncAssumption, AbsentText, NothingRuns
       DEF SyncInit, SyncTypes, NoSync, NoJob
  <2> QED BY <2>1 DEF SyncInit, SyncInv, Underway, Replaced, MemoryIsSnapshot, Synced, NoSync
<1>2. SyncInv /\ [SyncNext]_syncVars => SyncInv'
  <2> SUFFICES ASSUME SyncInv, [SyncNext]_syncVars PROVE SyncInv'
    OBVIOUS
  <2>1. CASE UNCHANGED syncVars
    BY <2>1, MoreLoose DEF syncVars, state, SyncInv, SyncTypes
  <2>2. CASE SyncNext
    BY <2>2, EditKept, BeginKept, DeleteKept, StaleKept, ReadKept, SyncIngestKept, UnlinkKept,
       RenameKept, MetaKept, JobBeginKept, JobDropKept, JobReadKept, JobIngestKept, RestartKept
       DEF SyncNext
  <2> QED BY <2>1, <2>2
<1> QED BY <1>1, <1>2, PTL DEF SyncSpec

\* The snapshot, the running sync and the job keep their types in every
\* behaviour, whatever fails or restarts.
THEOREM SyncTypeCorrect == SyncSpec => []SyncTypeOK
<1>1. SyncInv => SyncTypeOK
  BY DEF SyncInv, SyncTypes, SyncTypeOK, SyncRecords, JobRecords, Fingerprints
<1> QED BY <1>1, SyncInvHolds, PTL

\* Incremental syncs do not drift, for any files, chunks and contents, with
\* any edits, failures, refreshes and restarts: between syncs the memory of a
\* file is what the snapshot has of it, but for the listed exceptions and the
\* chunks that the writer refused (memory_service.py:4718-4789).
THEOREM SyncsDoNotDrift == SyncSpec => []MemoryIsSnapshot
BY SyncInvHolds, PTL DEF SyncInv
-----------------------------------------------------------------------------
(***************************************************************************)
(* Vector indexes: what a call is doing, and what it has done to what      *)
(* nobody else wrote meanwhile.                                            *)
(***************************************************************************)
VectorCalls ==
    [does : {"none", "upsert", "delete", "search", "purge"},
     at : {"idle", "scan", "similarity", "record", "vector", "call", "query", "done",
           "pop", "new", "execute", "commit", "return", "room"},
     nth : Versions, todo : SUBSET RecordId, writes : SUBSET RecordId, refused : SUBSET RecordId,
     seen : SUBSET RecordId, size : Nat, hits : SUBSET RecordId, conn : Versions,
     filter : Filters \cup {NoFilter}, room : BOOLEAN, moved : SUBSET RecordId, raised : BOOLEAN]

VectorStages(db) ==
    CASE db = "memory" -> {"idle", "scan", "similarity", "record", "vector", "done"}
      [] db = "chroma" -> {"idle", "call", "query", "done"}
      [] OTHER -> {"idle", "pop", "new", "execute", "commit", "return", "room", "done"}

Matching(filter) == {r \in RecordId : FilterMatches(r, filter)}
Ending == {"return", "room", "done"}

\* What a call holds at each of its stages.
StageSound(c) ==
    /\ c.at = "idle" => c = NoVector
    /\ c.at # "idle" => c.nth > 0 /\ c.does # "none"
    /\ c.does = "search" => c.writes = {}
    /\ c.does = "purge" => c.writes = Matching(c.filter)
    /\ c.at \in {"scan", "similarity"} => c.does \in {"search", "purge"}
    /\ c.at = "similarity" => c.does = "search" /\ \E r \in RecordId : c.todo = {r}
    /\ c.at \in {"record", "vector", "commit"} => c.does \in {"upsert", "delete", "purge"}
    /\ c.does = "upsert" => c.todo \subseteq c.writes
    /\ c.at \in {"record", "vector"} => c.todo \subseteq c.writes
    /\ c.at = "vector" => \E r \in c.todo : c.seen = {r}
    /\ c.at = "commit" /\ c.does = "upsert" => \E r \in c.todo : c.seen = {r}
    /\ c.at = "commit" /\ c.does # "upsert" => c.seen \subseteq c.writes
    /\ c.at \in {"call", "query"} /\ c.does \in {"upsert", "delete"} => c.todo = c.writes
    /\ c.at = "query" => c.does = "search"
    /\ c.at \in {"call", "query"} => c.hits = {}
    /\ c.does # "upsert" => c.refused = {}
    /\ c.does = "purge" /\ c.at = "scan" => c.hits = c.seen \cap c.writes
    /\ c.at \in {"pop", "new"} /\ c.does = "upsert" => c.todo = c.writes
    /\ c.at \notin Ending => ~c.raised
    /\ c.refused \subseteq c.writes

\* The records a call has dealt with.
DealtWith(c) ==
    IF c.raised THEN {}
    ELSE IF c.at \in Ending THEN c.writes \ c.refused
    ELSE IF c.at \in {"record", "vector"} \/ (c.at \in {"execute", "commit"} /\ c.does = "upsert")
    THEN c.writes \ (c.todo \cup c.refused)
    ELSE IF c.at = "commit" THEN c.writes \ c.seen ELSE {}

DoneTo(c, r) ==
    IF c.does = "upsert" THEN indexed[r] = [record |-> c.nth, vector |-> c.nth]
    ELSE indexed[r].record = 0

\* The hits of a search, as the property has them.
HitsTold(c) ==
    \A r \in RecordId \ c.moved :
        LET better == {h \in c.hits : Facts[h].score >= Facts[r].score}
            fits == r \in Present /\ FilterMatches(r, c.filter) IN
        IF r \in c.hits THEN fits ELSE fits => Cardinality(better) >= VectorTopK

\* The hits of a search in memory so far.
Scanned(c) ==
    /\ c.hits \cup c.todo \subseteq Matching(c.filter) \cap c.seen
    /\ c.seen \cap Matching(c.filter) \subseteq c.hits \cup c.todo
    /\ (c.hits \cup c.todo) \ c.moved \subseteq Present

CallSound(c) ==
    /\ c \in VectorCalls /\ c.at \in VectorStages(vectorDb.db) /\ StageSound(c)
    /\ \A r \in DealtWith(c) \ c.moved : DoneTo(c, r)
    /\ c.at = "vector" => \A r \in c.seen \ c.moved : indexed[r].record = Version(c)
    /\ c.does = "search" /\ c.at \in Ending /\ ~c.raised => HitsTold(c)
    /\ c.does = "search" /\ c.at \in {"scan", "similarity"} => Scanned(c)
    /\ c.does = "search" /\ c.at = "scan" => c.todo = {}
    /\ c.at \in {"scan", "similarity"} /\ c.moved = {} => c.size = Cardinality(Present)

(***************************************************************************)
(* In memory: who may have left a record without its vector.               *)
(***************************************************************************)
MemorySound ==
    /\ \A r \in RecordId : Torn(r) =>
         r \in torn \/ \E w \in VectorClient : vcall[w].at = "vector" /\ r \in vcall[w].seen
                                               /\ vcall[w].does = "upsert"
    /\ \A w \in VectorClient : vcall[w].at = "vector" =>
         /\ \A r \in vcall[w].seen \ torn : indexed[r].record = Version(vcall[w])
         /\ \A v \in VectorClient \ {w} : vcall[v].at # "idle" => vcall[w].seen \subseteq vcall[v].moved
    /\ \A v \in VectorClient : vcall[v].raised =>
         vcall[v].moved # {} \/ \E r \in torn : Torn(r)

(***************************************************************************)
(* Connections: whose they are, and that there are enough.                 *)
(***************************************************************************)
UsedConns == {k \in Conns : conns.state[k] # "unused"}
Asking == {v \in VectorClient : vcall[v].at \in {"pop", "new"}}
Roomy == {v \in VectorClient : vcall[v].at = "room" /\ vcall[v].room}

ConnSound ==
    /\ conns \in [pool : Seq(Conns), state : [Conns -> {"unused", "clean", "dirty", "closed"}]]
    /\ \A i, j \in 1..Len(conns.pool) : i # j => conns.pool[i] # conns.pool[j]
    /\ \A i \in 1..Len(conns.pool) :
          /\ conns.state[conns.pool[i]] = "clean"
          /\ \A v \in VectorClient : vcall[v].conn # conns.pool[i]
    /\ \A v, w \in VectorClient : v # w /\ vcall[v].conn = vcall[w].conn => vcall[v].conn = 0
    /\ \A v \in VectorClient :
          IF vcall[v].at \in {"execute", "commit", "return", "room"}
          THEN /\ vcall[v].conn \in Conns /\ conns.state[vcall[v].conn] # "unused"
               /\ vcall[v].at = "room" => conns.state[vcall[v].conn] = "clean"
          ELSE vcall[v].conn = 0
    /\ Cardinality(UsedConns) + Cardinality(Asking) + vectorDb.calls <= MaxVectorCalls
    /\ Len(conns.pool) + Cardinality(Roomy) < PoolSize + Cardinality(VectorClient)

VectorDbs ==
    [db : {"memory", "opengauss", "chroma"}, kinds : SUBSET {"upsert", "delete", "search", "purge"},
     calls : 0..MaxVectorCalls, faults : Nat]

VectorFrame ==
    /\ vectorDb \in VectorDbs
    /\ indexed \in [RecordId -> [record : Versions, vector : Versions]]
    /\ vcall \in [VectorClient -> VectorCalls]
    /\ torn \subseteq RecordId

VectorCallsSound == \A v \in VectorClient : CallSound(vcall[v])

VectorInv ==
    /\ VectorFrame
    /\ VectorCallsSound
    /\ vectorDb.db = "memory" => MemorySound
    /\ ConnSound
    /\ CallsDoAsTheySay

LEMMA VectorConstants ==
  /\ IsFiniteSet(VectorClient) /\ IsFiniteSet(RecordId) /\ Batches \subseteq SUBSET RecordId
  /\ \A r \in RecordId : Facts[r].score \in Nat
  /\ VectorTopK \in Nat \ {0} /\ PoolSize \in Nat \ {0} /\ MaxVectorCalls \in Nat
  /\ Versions = 0..MaxVectorCalls /\ Conns = 1..MaxVectorCalls
  /\ NoVector \in VectorCalls /\ NoVector.at = "idle" /\ NoVector.nth = 0
  BY VectorAssumption DEF Versions, Conns, NoVector, VectorCalls

\* What a step leaves alone of a call.
LEMMA IdleSound ==
  ASSUME VectorInv, vectorDb'.db \in {"memory", "opengauss", "chroma"}
  PROVE  CallSound(NoVector)'
<1>1. /\ NoVector \in VectorCalls /\ NoVector.at = "idle" /\ NoVector.does = "none" /\ ~NoVector.raised
      /\ NoVector.todo = {} /\ NoVector.refused = {} /\ NoVector.writes = {}
  BY VectorConstants DEF NoVector
<1>2. StageSound(NoVector)'
  BY <1>1 DEF StageSound, Ending
<1>3. DealtWith(NoVector) = {}
  BY <1>1 DEF DealtWith, Ending
<1> QED BY <1>1, <1>2, <1>3 DEF CallSound, VectorStages, Ending

LEMMA CallStays ==
  ASSUME VectorInv, NEW c, CallSound(c), UNCHANGED indexed, vectorDb'.db = vectorDb.db
  PROVE  CallSound(c)'
<1>1. Present' = Present
  BY DEF Present
<1>2. StageSound(c)'
  BY DEF CallSound, StageSound
<1>3. \A r \in DealtWith(c) \ c.moved : DoneTo(c, r)'
  BY DEF CallSound, DoneTo
<1>4. c.does = "search" /\ c.at \in Ending /\ ~c.raised => HitsTold(c)'
  BY <1>1 DEF CallSound, HitsTold
<1>5. c.does = "search" /\ c.at \in {"scan", "similarity"} => Scanned(c)'
  BY <1>1 DEF CallSound, Scanned
<1> HIDE DEF StageSound, DealtWith, DoneTo, HitsTold, Scanned
<1> QED BY <1>1, <1>2, <1>3, <1>4, <1>5 DEF CallSound

\* Another call writes rows: the call finds them moved.
LEMMA CallMoved ==
  ASSUME VectorInv, NEW c, CallSound(c), c.at # "idle", vectorDb'.db = vectorDb.db, NEW written \in SUBSET RecordId,
         vectorDb.db = "memory" => written # {}, NEW d, d = [c EXCEPT !.moved = @ \cup written],
         \A r \in RecordId \ written : indexed'[r] = indexed[r]
  PROVE  CallSound(d)'
<1>1. c \in VectorCalls
  BY DEF CallSound
<1>2. /\ d \in VectorCalls /\ d.moved = c.moved \cup written
      /\ d.does = c.does /\ d.at = c.at /\ d.nth = c.nth /\ d.todo = c.todo /\ d.writes = c.writes
      /\ d.refused = c.refused /\ d.seen = c.seen /\ d.size = c.size /\ d.hits = c.hits
      /\ d.filter = c.filter /\ d.raised = c.raised
  BY <1>1 DEF VectorCalls
<1>3. StageSound(d)'
  BY <1>2 DEF CallSound, StageSound
<1>4. DealtWith(d) = DealtWith(c)
  BY <1>2 DEF DealtWith
<1>5. DealtWith(c) \subseteq RecordId
  BY <1>1 DEF DealtWith, VectorCalls
<1>6. \A r \in DealtWith(d) \ d.moved : DoneTo(d, r)'
  <2> SUFFICES ASSUME NEW r \in DealtWith(c), r \notin c.moved, r \notin written PROVE DoneTo(d, r)'
    BY <1>2, <1>4
  <2>1. DoneTo(c, r) /\ indexed'[r] = indexed[r]
    BY <1>5 DEF CallSound
  <2> QED BY <1>2, <2>1 DEF DoneTo
<1>7. ASSUME NEW r \in RecordId \ written PROVE (r \in Present)' <=> r \in Present
  BY DEF Present
<1>8. c.does = "search" /\ c.at \in Ending /\ ~c.raised => HitsTold(d)'
  <2> SUFFICES ASSUME HitsTold(c) PROVE HitsTold(d)'
    BY DEF CallSound
  <2> SUFFICES ASSUME NEW r \in RecordId, r \notin c.moved, r \notin written
               PROVE  LET better == {h \in c.hits : Facts[h].score >= Facts[r].score}
                          fits == (r \in Present)' /\ FilterMatches(r, c.filter) IN
                      IF r \in c.hits THEN fits ELSE fits => Cardinality(better) >= VectorTopK
    BY <1>2 DEF HitsTold
  <2> QED BY <1>7 DEF HitsTold
<1>9. c.does = "search" /\ c.at \in {"scan", "similarity"} => Scanned(d)'
  <2> SUFFICES ASSUME Scanned(c) PROVE Scanned(d)'
    BY DEF CallSound
  <2>1. c.hits \cup c.todo \subseteq RecordId
    BY <1>1 DEF VectorCalls
  <2>2. ((c.hits \cup c.todo) \ (c.moved \cup written)) \subseteq Present'
    BY <1>7, <2>1 DEF Scanned
  <2>3. Matching(c.filter)' = Matching(c.filter)
    BY DEF Matching
  <2> QED BY <1>2, <2>2, <2>3 DEF Scanned
<1>10. d.at = "vector" => \A r \in d.seen \ d.moved : indexed'[r].record = Version(d)
  BY <1>1, <1>2 DEF CallSound, Version, VectorCalls
<1>11. d.at \in {"scan", "similarity"} /\ d.moved = {} => d.size = Cardinality(Present')
  BY <1>1, <1>2 DEF CallSound, VectorStages
<1>12. /\ d.at \in VectorStages(vectorDb'.db) /\ (d.does = "search" /\ d.at = "scan" => d.todo = {})
  BY <1>2 DEF CallSound
<1> HIDE DEF StageSound, DealtWith, DoneTo, HitsTold, Scanned
<1> QED BY <1>2, <1>3, <1>6, <1>8, <1>9, <1>10, <1>11, <1>12 DEF CallSound

(***************************************************************************)
(* A step of one call: what is left to show of it.                         *)
(***************************************************************************)
LEMMA MemoryMoves ==
  ASSUME VectorInv, NEW v \in VectorClient, NEW rec, vcall' = [vcall EXCEPT ![v] = rec],
         UNCHANGED <<indexed, torn>>, MemorySound,
         rec.at # "vector", vcall[v].at # "vector",
         rec.raised => rec.moved # {} \/ \E r \in torn : Torn(r),
         \A w \in VectorClient \ {v} : vcall[w].at = "vector" /\ rec.at # "idle" => vcall[w].seen \subseteq rec.moved
  PROVE  MemorySound'
<1>1. /\ vcall'[v] = rec /\ UNCHANGED torn
      /\ \A w \in VectorClient \ {v} : vcall'[w] = vcall[w]
  BY DEF VectorInv, VectorFrame
<1>2. \A r \in RecordId : Torn(r)' <=> Torn(r)
  BY DEF Torn
<1>3. torn \subseteq RecordId
  BY DEF VectorInv, VectorFrame
<1>4. \A r \in RecordId : Torn(r)' =>
         r \in torn' \/ \E w \in VectorClient : vcall'[w].at = "vector" /\ r \in vcall'[w].seen
                                               /\ vcall'[w].does = "upsert"
  <2> SUFFICES ASSUME NEW r \in RecordId, Torn(r), r \notin torn
               PROVE  \E w \in VectorClient : vcall'[w].at = "vector" /\ r \in vcall'[w].seen
                                               /\ vcall'[w].does = "upsert"
    BY <1>1, <1>2
  <2>1. PICK w \in VectorClient : vcall[w].at = "vector" /\ r \in vcall[w].seen /\ vcall[w].does = "upsert"
    BY DEF MemorySound
  <2> QED BY <1>1, <2>1
<1>5. ASSUME NEW w \in VectorClient, vcall'[w].at = "vector"
      PROVE  /\ \A r \in vcall'[w].seen \ torn' : indexed'[r].record = Version(vcall'[w])
             /\ \A u \in VectorClient \ {w} : vcall'[u].at # "idle" => vcall'[w].seen \subseteq vcall'[u].moved
  <2>1. w # v /\ vcall'[w] = vcall[w]
    BY <1>1, <1>5
  <2>2. /\ \A r \in vcall[w].seen \ torn : indexed[r].record = Version(vcall[w])
        /\ \A u \in VectorClient \ {w} : vcall[u].at # "idle" => vcall[w].seen \subseteq vcall[u].moved
    BY <1>5, <2>1 DEF MemorySound
  <2>3. \A u \in VectorClient \ {w} : vcall'[u].at # "idle" => vcall'[w].seen \subseteq vcall'[u].moved
    BY <1>1, <1>5, <2>1, <2>2
  <2> QED BY <1>1, <2>1, <2>2, <2>3
<1>6. \A u \in VectorClient : vcall'[u].raised => vcall'[u].moved # {} \/ \E r \in torn' : Torn(r)'
  <2> SUFFICES ASSUME NEW u \in VectorClient, vcall'[u].raised, vcall'[u].moved = {}
               PROVE  \E r \in torn' : Torn(r)'
    OBVIOUS
  <2>1. \E r \in torn : Torn(r)
    BY <1>1 DEF MemorySound
  <2> QED BY <1>1, <1>2, <1>3, <2>1
<1> HIDE DEF Torn
<1> QED BY <1>4, <1>5, <1>6 DEF MemorySound

LEMMA MoveKeeps ==
  ASSUME VectorInv, NEW v \in VectorClient, NEW rec, Moves(v, rec), UNCHANGED indexed,
         vectorDb' \in VectorDbs, vectorDb'.db = vectorDb.db, CallSound(rec)', ConnSound',
         vectorDb.db = "memory" =>
            /\ rec.at # "vector" /\ vcall[v].at # "vector"
            /\ rec.raised => rec.moved # {} \/ \E r \in torn : Torn(r)
            /\ \A w \in VectorClient \ {v} :
                   vcall[w].at = "vector" /\ rec.at # "idle" => vcall[w].seen \subseteq rec.moved
  PROVE  VectorInv'
<1>1. /\ vcall'[v] = rec /\ UNCHANGED torn /\ returned' = NoVector /\ DOMAIN vcall' = VectorClient
      /\ \A w \in VectorClient \ {v} : vcall'[w] = vcall[w]
      /\ vcall' = [w \in VectorClient |-> vcall'[w]]
  BY DEF Moves, VectorInv, VectorFrame
<1>2. VectorCallsSound'
  <2> SUFFICES ASSUME NEW w \in VectorClient PROVE CallSound(vcall[w])'
    BY DEF VectorCallsSound
  <2>1. CASE w = v
    BY <1>1, <2>1
  <2>2. CASE w # v
    <3>1. PICK c : c = vcall[w] /\ CallSound(c)
      BY DEF VectorInv, VectorCallsSound
    <3>2. CallSound(c)'
      BY <3>1, CallStays
    <3> QED BY <1>1, <2>2, <3>1, <3>2
  <2> QED BY <2>1, <2>2
<1>3. VectorFrame'
  <2>1. \A w \in VectorClient : vcall'[w] \in VectorCalls
    BY <1>2 DEF VectorCallsSound, CallSound
  <2> QED BY <1>1, <2>1 DEF VectorInv, VectorFrame
<1>4. vectorDb'.db = "memory" => MemorySound'
  BY MemoryMoves DEF VectorInv, Moves
<1>5. CallsDoAsTheySay'
  BY <1>1, VectorConstants DEF CallsDoAsTheySay
<1> QED BY <1>2, <1>3, <1>4, <1>5 DEF VectorInv

\* A step that writes: the others find the rows moved.
LEMMA WriteKeeps ==
  ASSUME VectorInv, NEW v \in VectorClient, NEW rec, NEW written \in SUBSET RecordId, NEW row,
         row \in [record : Versions, vector : Versions], Writes(v, written, row, rec),
         vectorDb' \in VectorDbs, vectorDb'.db = vectorDb.db, CallSound(rec)', ConnSound',
         vectorDb.db = "memory" => written # {} /\ MemorySound'
  PROVE  VectorInv'
<1>1. /\ vcall'[v] = rec /\ returned' = NoVector /\ DOMAIN vcall' = VectorClient
      /\ \A w \in VectorClient \ {v} :
             vcall'[w] = IF vcall[w].at = "idle" THEN vcall[w] ELSE [vcall[w] EXCEPT !.moved = @ \cup written]
      /\ vcall' = [w \in VectorClient |-> vcall'[w]]
  BY DEF Writes
<1>2. /\ \A r \in RecordId \ written : indexed'[r] = indexed[r]
      /\ indexed' \in [RecordId -> [record : Versions, vector : Versions]]
  BY DEF Writes, VectorInv, VectorFrame
<1>3. VectorCallsSound'
  <2> SUFFICES ASSUME NEW w \in VectorClient PROVE CallSound(vcall[w])'
    BY DEF VectorCallsSound
  <2>1. CASE w = v
    BY <1>1, <2>1
  <2>2. CASE w # v
    <3>1. PICK c : c = vcall[w] /\ CallSound(c)
      BY DEF VectorInv, VectorCallsSound
    <3>2. CASE c.at = "idle"
      <4>1. c = NoVector /\ vectorDb'.db \in {"memory", "opengauss", "chroma"}
        BY <3>1, <3>2 DEF CallSound, StageSound, VectorDbs
      <4>2. CallSound(NoVector)'
        BY <4>1, IdleSound
      <4> QED BY <1>1, <2>2, <3>1, <3>2, <4>1, <4>2
    <3>3. CASE c.at # "idle"
      <4>1. PICK d : d = [c EXCEPT !.moved = @ \cup written]
        OBVIOUS
      <4>2. CallSound(d)'
        BY <1>2, <3>1, <3>3, <4>1, CallMoved
      <4> QED BY <1>1, <2>2, <3>1, <3>3, <4>1, <4>2
    <3> QED BY <3>2, <3>3
  <2> QED BY <2>1, <2>2
<1>4. VectorFrame'
  <2>1. \A w \in VectorClient : vcall'[w] \in VectorCalls
    BY <1>3 DEF VectorCallsSound, CallSound
  <2>2. torn' \subseteq RecordId
    BY DEF Writes, VectorInv, VectorFrame
  <2> QED BY <1>1, <1>2, <2>1, <2>2 DEF VectorFrame
<1>5. CallsDoAsTheySay'
  BY <1>1, VectorConstants DEF CallsDoAsTheySay
<1> QED BY <1>3, <1>4, <1>5 DEF VectorInv

(***************************************************************************)
(* Connections: a step of v is a step of its connection, or of none.       *)
(***************************************************************************)
OthersAlike(v) ==
    \A w \in VectorClient \ {v} :
        vcall'[w].at = vcall[w].at /\ vcall'[w].conn = vcall[w].conn /\ vcall'[w].room = vcall[w].room

ConnStages == {"execute", "commit", "return", "room"}

LEMMA OnesAlike ==
  ASSUME VectorInv, NEW v \in VectorClient, NEW rec, Moves(v, rec)
  PROVE  OthersAlike(v) /\ vcall'[v] = rec
  BY DEF Moves, OthersAlike, VectorInv, VectorFrame

LEMMA WritersAlike ==
  ASSUME VectorInv, NEW v \in VectorClient, NEW rec, NEW written, NEW row, Writes(v, written, row, rec)
  PROVE  OthersAlike(v) /\ vcall'[v] = rec
<1>1. \A w \in VectorClient \ {v} : vcall[w] \in VectorCalls
  BY DEF VectorInv, VectorFrame
<1>2. \A w \in VectorClient \ {v} :
         vcall'[w] = IF vcall[w].at = "idle" THEN vcall[w] ELSE [vcall[w] EXCEPT !.moved = @ \cup written]
  BY DEF Writes
<1>3. ASSUME NEW w \in VectorClient \ {v}
      PROVE  vcall'[w].at = vcall[w].at /\ vcall'[w].conn = vcall[w].conn /\ vcall'[w].room = vcall[w].room
  BY <1>1, <1>2 DEF VectorCalls
<1> QED BY <1>3 DEF Writes, OthersAlike

\* The counts of the invariant are numbers.
LEMMA ConnCounts ==
  ASSUME VectorInv
  PROVE  /\ IsFiniteSet(UsedConns) /\ IsFiniteSet(Asking) /\ IsFiniteSet(Roomy) /\ IsFiniteSet(VectorClient)
         /\ Cardinality(UsedConns) \in Nat /\ Cardinality(Asking) \in Nat /\ Cardinality(Roomy) \in Nat
         /\ Cardinality(VectorClient) \in Nat /\ Len(conns.pool) \in Nat
         /\ vectorDb.calls \in Nat /\ MaxVectorCalls \in Nat /\ PoolSize \in Nat
         /\ IsFiniteSet(Conns) /\ Cardinality(Conns) = MaxVectorCalls
<1>1. IsFiniteSet(Conns) /\ Cardinality(Conns) = MaxVectorCalls
  <2>1. 1 \in Int /\ MaxVectorCalls \in Int /\ Conns = 1..MaxVectorCalls /\ MaxVectorCalls \in Nat
    BY VectorConstants
  <2>2. Cardinality(1..MaxVectorCalls) = IF 1 > MaxVectorCalls THEN 0 ELSE MaxVectorCalls - 1 + 1
    BY <2>1, FS_Interval
  <2> QED BY <2>1, <2>2, FS_Interval
<1>2. UsedConns \subseteq Conns /\ Asking \subseteq VectorClient /\ Roomy \subseteq VectorClient
  BY DEF UsedConns, Asking, Roomy
<1>3. IsFiniteSet(UsedConns) /\ IsFiniteSet(Asking) /\ IsFiniteSet(Roomy) /\ IsFiniteSet(VectorClient)
  BY <1>1, <1>2, FS_Subset, VectorConstants
<1>4. Len(conns.pool) \in Nat
  <2>1. conns.pool \in Seq(Conns)
    BY DEF VectorInv, ConnSound
  <2> QED BY <2>1
<1>5. vectorDb.calls \in Nat /\ MaxVectorCalls \in Nat /\ PoolSize \in Nat
  BY VectorConstants DEF VectorInv, VectorFrame, VectorDbs
<1> QED BY <1>1, <1>3, <1>4, <1>5, FS_CardinalityType

\* Connections stay where they are, and nobody asks for one more.
LEMMA ConnSame ==
  ASSUME VectorInv, NEW v \in VectorClient, OthersAlike(v), UNCHANGED conns,
         vcall'[v].conn = 0, vcall'[v].at \notin ConnStages \cup {"pop", "new"},
         vectorDb'.calls \in Nat, vectorDb'.calls <= vectorDb.calls
  PROVE  ConnSound'
<1>1. /\ UsedConns' = UsedConns /\ Asking' \subseteq Asking /\ Roomy' \subseteq Roomy
  BY DEF OthersAlike, UsedConns, Asking, Roomy, ConnStages
<1>2. /\ Cardinality(Asking') <= Cardinality(Asking) /\ Cardinality(Roomy') <= Cardinality(Roomy)
      /\ Cardinality(Asking') \in Nat /\ Cardinality(Roomy') \in Nat
  BY <1>1, ConnCounts, FS_Subset, FS_CardinalityType
<1>3. /\ Cardinality(UsedConns') + Cardinality(Asking') + vectorDb'.calls <= MaxVectorCalls
      /\ Len(conns'.pool) + Cardinality(Roomy') < PoolSize + Cardinality(VectorClient)
  <2>1. /\ Cardinality(UsedConns) + Cardinality(Asking) + vectorDb.calls <= MaxVectorCalls
        /\ Len(conns.pool) + Cardinality(Roomy) < PoolSize + Cardinality(VectorClient)
    BY DEF VectorInv, ConnSound
  <2>2. Cardinality(UsedConns') + Cardinality(Asking') + vectorDb'.calls <= MaxVectorCalls
    BY <1>1, <1>2, <2>1, ConnCounts
  <2>3. Len(conns'.pool) + Cardinality(Roomy') < PoolSize + Cardinality(VectorClient)
    BY <1>2, <2>1, ConnCounts
  <2> QED BY <2>2, <2>3
<1>4. \A w \in VectorClient : vcall'[w].conn \in {0, vcall[w].conn}
  BY DEF OthersAlike
<1>5. 0 \notin Conns
  BY DEF Conns
<1>6. \A i \in 1..Len(conns.pool) : conns.pool[i] \in Conns
  BY DEF VectorInv, ConnSound
<1>7. \A i \in 1..Len(conns.pool) : \A w \in VectorClient : vcall'[w].conn # conns.pool[i]
  BY <1>4, <1>5, <1>6 DEF VectorInv, ConnSound
<1>8. \A w, u \in VectorClient : w # u /\ vcall'[w].conn = vcall'[u].conn => vcall'[w].conn = 0
  BY DEF VectorInv, ConnSound, OthersAlike
<1>9. \A w \in VectorClient :
         IF vcall'[w].at \in {"execute", "commit", "return", "room"}
         THEN /\ vcall'[w].conn \in Conns /\ conns.state[vcall'[w].conn] # "unused"
              /\ vcall'[w].at = "room" => conns.state[vcall'[w].conn] = "clean"
         ELSE vcall'[w].conn = 0
  BY DEF VectorInv, ConnSound, OthersAlike, ConnStages
<1> HIDE DEF UsedConns, Asking, Roomy
<1> QED BY <1>3, <1>7, <1>8, <1>9 DEF VectorInv, ConnSound

\* The counts after a step.
LEMMA CountsHold ==
  ASSUME VectorInv, NEW used, NEW asking, NEW roomy, NEW n \in Nat, NEW calls \in Nat,
         IsFiniteSet(used), IsFiniteSet(asking), IsFiniteSet(roomy),
         Cardinality(used) + Cardinality(asking) + calls <= Cardinality(UsedConns) + Cardinality(Asking) + vectorDb.calls,
         \/ n + Cardinality(roomy) <= Len(conns.pool) + Cardinality(Roomy)
         \/ n <= PoolSize - 1 /\ roomy \subseteq VectorClient
  PROVE  /\ Cardinality(used) + Cardinality(asking) + calls <= MaxVectorCalls
         /\ n + Cardinality(roomy) < PoolSize + Cardinality(VectorClient)
<1>1. /\ Cardinality(UsedConns) + Cardinality(Asking) + vectorDb.calls <= MaxVectorCalls
      /\ Len(conns.pool) + Cardinality(Roomy) < PoolSize + Cardinality(VectorClient)
  BY DEF VectorInv, ConnSound
<1>2. Cardinality(used) \in Nat /\ Cardinality(asking) \in Nat /\ Cardinality(roomy) \in Nat
  BY FS_CardinalityType
<1>3. Cardinality(used) + Cardinality(asking) + calls <= MaxVectorCalls
  BY <1>1, <1>2, ConnCounts
<1>4. n + Cardinality(roomy) < PoolSize + Cardinality(VectorClient)
  <2>1. CASE n + Cardinality(roomy) <= Len(conns.pool) + Cardinality(Roomy)
    <3>1. n + Cardinality(roomy) \in Nat
      BY <1>2
    <3>2. Len(conns.pool) + Cardinality(Roomy) \in Nat /\ PoolSize + Cardinality(VectorClient) \in Nat
      <4>1. Len(conns.pool) \in Nat /\ Cardinality(Roomy) \in Nat
        BY ConnCounts
      <4>2. PoolSize \in Nat /\ Cardinality(VectorClient) \in Nat
        BY ConnCounts
      <4> HIDE DEF Roomy
      <4> QED BY <4>1, <4>2
    <3>3. \A i, j, k \in Nat : i <= j /\ j < k => i < k
      OBVIOUS
    <3> QED BY <1>1, <2>1, <3>1, <3>2, <3>3
  <2>2. CASE n <= PoolSize - 1 /\ roomy \subseteq VectorClient
    <3>1. Cardinality(roomy) <= Cardinality(VectorClient)
      BY <2>2, ConnCounts, FS_Subset
    <3> QED BY <1>2, <2>2, <3>1, ConnCounts
  <2> QED BY <2>1, <2>2
<1> QED BY <1>3, <1>4

\* The state of a connection in use is set.
LEMMA ConnSet ==
  ASSUME VectorInv, NEW v \in VectorClient, OthersAlike(v), vcall[v].at \in ConnStages,
         NEW k, k = vcall[v].conn, NEW held \in {"clean", "dirty", "closed"},
         conns' = [conns EXCEPT !.state[k] = held],
         vcall'[v].conn = k, vcall'[v].at \in ConnStages,
         vcall'[v].at = "room" => held = "clean" /\ (vcall'[v].room => Len(conns.pool) < PoolSize),
         vectorDb'.calls = vectorDb.calls
  PROVE  ConnSound'
<1>1. /\ conns \in [pool : Seq(Conns), state : [Conns -> {"unused", "clean", "dirty", "closed"}]]
      /\ k \in Conns /\ conns.state[k] # "unused"
  BY DEF VectorInv, ConnSound, ConnStages
<1>2. /\ conns' \in [pool : Seq(Conns), state : [Conns -> {"unused", "clean", "dirty", "closed"}]]
      /\ conns'.pool = conns.pool /\ conns'.state[k] = held
      /\ \A j \in Conns \ {k} : conns'.state[j] = conns.state[j]
  BY <1>1
<1>3. UsedConns' = UsedConns /\ Asking' = Asking
  <2>1. \A j \in Conns : conns'.state[j] # "unused" <=> conns.state[j] # "unused"
    BY <1>1, <1>2
  <2> QED BY <2>1 DEF UsedConns, Asking, OthersAlike, ConnStages
<1>4. /\ Cardinality(UsedConns') + Cardinality(Asking') + vectorDb'.calls <= MaxVectorCalls
      /\ Len(conns'.pool) + Cardinality(Roomy') < PoolSize + Cardinality(VectorClient)
  <2>1. PICK n, calls : n = Len(conns.pool) /\ calls = vectorDb.calls /\ n \in Nat /\ calls \in Nat
    BY ConnCounts
  <2>2. PICK roomy : roomy = Roomy'
    OBVIOUS
  <2>3. roomy \subseteq VectorClient /\ IsFiniteSet(roomy)
    BY <2>2, ConnCounts, FS_Subset DEF Roomy
  <2>4. \/ n + Cardinality(roomy) <= n + Cardinality(Roomy)
        \/ n <= PoolSize - 1
    <3>1. CASE vcall'[v].at = "room" /\ vcall'[v].room
      BY <2>1, <3>1, ConnCounts
    <3>2. CASE ~(vcall'[v].at = "room" /\ vcall'[v].room)
      <4>1. roomy \subseteq Roomy
        BY <2>2, <3>2 DEF Roomy, OthersAlike
      <4>2. Cardinality(roomy) <= Cardinality(Roomy) /\ Cardinality(roomy) \in Nat
        BY <2>3, <4>1, ConnCounts, FS_Subset, FS_CardinalityType
      <4> QED BY <2>1, <4>2, ConnCounts
    <3> QED BY <3>1, <3>2
  <2>5. /\ Cardinality(UsedConns) + Cardinality(Asking) + calls <= MaxVectorCalls
        /\ n + Cardinality(roomy) < PoolSize + Cardinality(VectorClient)
    <3>1. Cardinality(UsedConns) + Cardinality(Asking) + calls
            <= Cardinality(UsedConns) + Cardinality(Asking) + vectorDb.calls
      BY <2>1, ConnCounts
    <3> QED BY <2>1, <2>3, <2>4, <3>1, ConnCounts, CountsHold
  <2> QED BY <1>2, <1>3, <2>1, <2>2, <2>5
<1>5. /\ \A i \in 1..Len(conns.pool) : conns.pool[i] \in Conns /\ conns.pool[i] # k /\ conns.state[conns.pool[i]] = "clean"
      /\ \A w \in VectorClient : vcall'[w].conn = vcall[w].conn
  BY <1>1 DEF VectorInv, ConnSound, OthersAlike
<1>6. /\ \A i \in 1..Len(conns'.pool) :
            /\ conns'.state[conns'.pool[i]] = "clean"
            /\ \A w \in VectorClient : vcall'[w].conn # conns'.pool[i]
      /\ \A i, j \in 1..Len(conns'.pool) : i # j => conns'.pool[i] # conns'.pool[j]
  BY <1>2, <1>5 DEF VectorInv, ConnSound
<1>7. \A w, u \in VectorClient : w # u /\ vcall'[w].conn = vcall'[u].conn => vcall'[w].conn = 0
  BY <1>5 DEF VectorInv, ConnSound
<1>8. ASSUME NEW w \in VectorClient
      PROVE  IF vcall'[w].at \in {"execute", "commit", "return", "room"}
             THEN /\ vcall'[w].conn \in Conns /\ conns'.state[vcall'[w].conn] # "unused"
                  /\ vcall'[w].at = "room" => conns'.state[vcall'[w].conn] = "clean"
             ELSE vcall'[w].conn = 0
  <2>1. CASE w = v
    BY <1>1, <1>2, <2>1 DEF ConnStages
  <2>2. CASE w # v
    <3>1. vcall'[w].at = vcall[w].at /\ vcall'[w].conn = vcall[w].conn
      BY <2>2 DEF OthersAlike
    <3>2. vcall[w].conn # k
      BY <1>1, <2>2 DEF VectorInv, ConnSound, Conns
    <3> QED BY <1>2, <3>1, <3>2 DEF VectorInv, ConnSound
  <2> QED BY <2>1, <2>2
<1> HIDE DEF UsedConns, Asking, Roomy
<1> QED BY <1>2, <1>4, <1>6, <1>7, <1>8 DEF ConnSound

\* A connection comes or goes: to the pool, from it, or for good.
LEMMA ConnMoves ==
  ASSUME VectorInv, NEW v \in VectorClient, OthersAlike(v),
         conns' \in [pool : Seq(Conns), state : [Conns -> {"unused", "clean", "dirty", "closed"}]],
         \A i, j \in 1..Len(conns'.pool) : i # j => conns'.pool[i] # conns'.pool[j],
         \A i \in 1..Len(conns'.pool) :
            /\ conns'.state[conns'.pool[i]] = "clean" /\ conns'.pool[i] # vcall'[v].conn
            /\ conns'.pool[i] = vcall[v].conn \/ \E j \in 1..Len(conns.pool) : conns'.pool[i] = conns.pool[j],
         \A w \in VectorClient \ {v} :
            vcall[w].conn # 0 => /\ conns'.state[vcall[w].conn] = conns.state[vcall[w].conn]
                                 /\ vcall[w].conn # vcall'[v].conn,
         IF vcall'[v].at \in ConnStages
         THEN vcall'[v].at # "room" /\ vcall'[v].conn \in Conns /\ conns'.state[vcall'[v].conn] # "unused"
         ELSE vcall'[v].conn = 0,
         Cardinality(UsedConns') + Cardinality(Asking') + vectorDb'.calls <= MaxVectorCalls,
         Len(conns'.pool) + Cardinality(Roomy') < PoolSize + Cardinality(VectorClient)
  PROVE  ConnSound'
<1>1. \A w \in VectorClient \ {v} : vcall'[w].at = vcall[w].at /\ vcall'[w].conn = vcall[w].conn
  BY DEF OthersAlike
<1>2. /\ \A i \in 1..Len(conns.pool) : \A w \in VectorClient : vcall[w].conn # conns.pool[i]
      /\ \A w, u \in VectorClient : w # u /\ vcall[w].conn = vcall[u].conn => vcall[w].conn = 0
  BY DEF VectorInv, ConnSound
<1>3. ASSUME NEW i \in 1..Len(conns'.pool), NEW w \in VectorClient PROVE vcall'[w].conn # conns'.pool[i]
  <2>1. CASE w = v
    BY <2>1
  <2>2. CASE w # v
    <3>1. conns'.pool[i] \in Conns /\ 0 \notin Conns
      BY DEF Conns
    <3>2. vcall[w].conn # conns'.pool[i]
      BY <1>2, <2>2, <3>1
    <3> QED BY <1>1, <2>2, <3>2
  <2> QED BY <2>1, <2>2
<1>4. ASSUME NEW w \in VectorClient, NEW u \in VectorClient, w # u, vcall'[w].conn = vcall'[u].conn
      PROVE  vcall'[w].conn = 0
  BY <1>1, <1>2, <1>4
<1>5. ASSUME NEW w \in VectorClient
      PROVE  IF vcall'[w].at \in {"execute", "commit", "return", "room"}
             THEN /\ vcall'[w].conn \in Conns /\ conns'.state[vcall'[w].conn] # "unused"
                  /\ vcall'[w].at = "room" => conns'.state[vcall'[w].conn] = "clean"
             ELSE vcall'[w].conn = 0
  <2>1. CASE w = v
    BY <2>1 DEF ConnStages
  <2>2. CASE w # v
    BY <1>1, <2>2 DEF VectorInv, ConnSound, Conns
  <2> QED BY <2>1, <2>2
<1> HIDE DEF UsedConns, Asking, Roomy
<1> QED BY <1>3, <1>4, <1>5 DEF ConnSound

\* A call begins and will ask for a connection.
LEMMA ConnAsked ==
  ASSUME VectorInv, NEW v \in VectorClient, OthersAlike(v), UNCHANGED conns, vcall[v].at = "idle",
         vcall'[v].conn = 0, vcall'[v].at \in {"pop", "new"},
         vectorDb.calls > 0, vectorDb'.calls = vectorDb.calls - 1
  PROVE  ConnSound'
<1>1. Asking' = Asking \cup {v} /\ v \notin Asking /\ UsedConns' = UsedConns /\ Roomy' \subseteq Roomy
  BY DEF Asking, UsedConns, Roomy, OthersAlike
<1>2. /\ IsFiniteSet(Asking') /\ Cardinality(Asking') = Cardinality(Asking) + 1 /\ IsFiniteSet(Roomy')
      /\ Cardinality(Roomy') <= Cardinality(Roomy) /\ Cardinality(Roomy') \in Nat
  BY <1>1, ConnCounts, FS_AddElement, FS_Subset, FS_CardinalityType
<1>3. /\ Cardinality(UsedConns') + Cardinality(Asking') + vectorDb'.calls <= MaxVectorCalls
      /\ Len(conns'.pool) + Cardinality(Roomy') < PoolSize + Cardinality(VectorClient)
  <2>1. PICK n, calls, used, asking, roomy :
           /\ n = Len(conns.pool) /\ calls = vectorDb.calls - 1 /\ n \in Nat /\ calls \in Nat
           /\ used = UsedConns /\ asking = Asking' /\ roomy = Roomy'
    BY ConnCounts
  <2>2. Cardinality(used) + Cardinality(asking) + calls <= Cardinality(UsedConns) + Cardinality(Asking) + vectorDb.calls
    BY <1>2, <2>1, ConnCounts
  <2>3. n + Cardinality(roomy) <= Len(conns.pool) + Cardinality(Roomy)
    BY <1>2, <2>1, ConnCounts
  <2>4. /\ Cardinality(used) + Cardinality(asking) + calls <= MaxVectorCalls
        /\ n + Cardinality(roomy) < PoolSize + Cardinality(VectorClient)
    BY <1>2, <2>1, <2>2, <2>3, ConnCounts, CountsHold
  <2> QED BY <1>1, <2>1, <2>4
<1>4. /\ \A i, j \in 1..Len(conns.pool) : i # j => conns.pool[i] # conns.pool[j]
      /\ \A i \in 1..Len(conns.pool) : conns.state[conns.pool[i]] = "clean" /\ conns.pool[i] # 0
      /\ conns \in [pool : Seq(Conns), state : [Conns -> {"unused", "clean", "dirty", "closed"}]]
  BY DEF VectorInv, ConnSound, Conns
<1> HIDE DEF UsedConns, Asking, Roomy
<1> QED BY <1>3, <1>4, ConnMoves DEF ConnStages

LEMMA ConnShrinks ==
  ASSUME VectorInv, UsedConns' \subseteq UsedConns, Asking' \subseteq Asking, Roomy' \subseteq Roomy,
         Len(conns'.pool) \in Nat, Len(conns'.pool) <= Len(conns.pool), vectorDb'.calls = vectorDb.calls
  PROVE  /\ Cardinality(UsedConns') + Cardinality(Asking') + vectorDb'.calls <= MaxVectorCalls
         /\ Len(conns'.pool) + Cardinality(Roomy') < PoolSize + Cardinality(VectorClient)
<1>1. PICK n, calls, used, asking, roomy :
         /\ n = Len(conns'.pool) /\ calls = vectorDb.calls /\ n \in Nat /\ calls \in Nat
         /\ used = UsedConns' /\ asking = Asking' /\ roomy = Roomy'
  BY ConnCounts
<1>2. /\ Cardinality(used) <= Cardinality(UsedConns) /\ Cardinality(asking) <= Cardinality(Asking)
      /\ Cardinality(roomy) <= Cardinality(Roomy)
      /\ IsFiniteSet(used) /\ IsFiniteSet(asking) /\ IsFiniteSet(roomy)
      /\ Cardinality(used) \in Nat /\ Cardinality(asking) \in Nat /\ Cardinality(roomy) \in Nat
  BY <1>1, ConnCounts, FS_Subset, FS_CardinalityType
<1>3. Cardinality(used) + Cardinality(asking) + calls <= Cardinality(UsedConns) + Cardinality(Asking) + vectorDb.calls
  BY <1>1, <1>2, ConnCounts
<1>4. n + Cardinality(roomy) <= Len(conns.pool) + Cardinality(Roomy)
  BY <1>1, <1>2, ConnCounts
<1>5. /\ Cardinality(used) + Cardinality(asking) + calls <= MaxVectorCalls
      /\ n + Cardinality(roomy) < PoolSize + Cardinality(VectorClient)
  BY <1>1, <1>2, <1>3, <1>4, CountsHold
<1> QED BY <1>1, <1>5

\* What lies in the pool, and what a call has.
LEMMA ConnFacts ==
  ASSUME VectorInv, NEW v \in VectorClient
  PROVE  /\ conns \in [pool : Seq(Conns), state : [Conns -> {"unused", "clean", "dirty", "closed"}]]
         /\ \A i \in 1..Len(conns.pool) : conns.pool[i] \in Conns /\ conns.state[conns.pool[i]] = "clean"
                                          /\ conns.pool[i] # vcall[v].conn
         /\ \A i, j \in 1..Len(conns.pool) : i # j => conns.pool[i] # conns.pool[j]
         /\ \A w \in VectorClient \ {v} : vcall[w].conn # 0 => vcall[w].conn # vcall[v].conn
         /\ \A w \in VectorClient : vcall[w].conn \in Conns \cup {0}
         /\ \A w \in VectorClient : vcall[w].conn \in Conns => conns.state[vcall[w].conn] # "unused"
         /\ \A w \in VectorClient : \A i \in 1..Len(conns.pool) : vcall[w].conn # conns.pool[i]
         /\ vcall[v].at \in ConnStages => vcall[v].conn \in Conns
         /\ vcall[v].at \notin ConnStages => vcall[v].conn = 0
         /\ 0 \notin Conns
<1>1. 0 \notin Conns
  BY DEF Conns
<1>2. /\ conns \in [pool : Seq(Conns), state : [Conns -> {"unused", "clean", "dirty", "closed"}]]
      /\ \A i, j \in 1..Len(conns.pool) : i # j => conns.pool[i] # conns.pool[j]
      /\ \A i \in 1..Len(conns.pool) :
            /\ conns.state[conns.pool[i]] = "clean"
            /\ \A u \in VectorClient : vcall[u].conn # conns.pool[i]
      /\ \A u, w \in VectorClient : u # w /\ vcall[u].conn = vcall[w].conn => vcall[u].conn = 0
      /\ \A u \in VectorClient :
            IF vcall[u].at \in {"execute", "commit", "return", "room"}
            THEN /\ vcall[u].conn \in Conns /\ conns.state[vcall[u].conn] # "unused"
                 /\ vcall[u].at = "room" => conns.state[vcall[u].conn] = "clean"
            ELSE vcall[u].conn = 0
  BY DEF VectorInv, ConnSound
<1>3. \A i \in 1..Len(conns.pool) : conns.pool[i] \in Conns
  BY <1>2
<1>4. \A w \in VectorClient : vcall[w].conn \in Conns \cup {0}
  BY <1>2
<1>5. \A w \in VectorClient : vcall[w].conn \in Conns => conns.state[vcall[w].conn] # "unused"
  BY <1>1, <1>2
<1>6. /\ vcall[v].at \in ConnStages => vcall[v].conn \in Conns
      /\ vcall[v].at \notin ConnStages => vcall[v].conn = 0
  BY <1>2 DEF ConnStages
<1> QED BY <1>1, <1>2, <1>3, <1>4, <1>5, <1>6

\* A connection is dropped at its return.
LEMMA ConnReleased ==
  ASSUME VectorInv, NEW v \in VectorClient, OthersAlike(v), vcall[v].at \in ConnStages,
         NEW k, k = vcall[v].conn, conns' = [conns EXCEPT !.state[k] = "unused"],
         vcall'[v].conn = 0, vcall'[v].at = "done", vectorDb'.calls = vectorDb.calls
  PROVE  ConnSound'
<1>1. k \in Conns
  BY ConnFacts
<1>2. /\ conns' \in [pool : Seq(Conns), state : [Conns -> {"unused", "clean", "dirty", "closed"}]]
      /\ conns'.pool = conns.pool /\ conns'.state[k] = "unused"
      /\ \A j \in Conns \ {k} : conns'.state[j] = conns.state[j]
  BY <1>1, ConnFacts
<1>3. UsedConns' \subseteq UsedConns /\ Asking' \subseteq Asking /\ Roomy' \subseteq Roomy
  <2>1. UsedConns' \subseteq UsedConns
    BY <1>2 DEF UsedConns
  <2>2. Asking' \subseteq Asking /\ Roomy' \subseteq Roomy
    BY DEF Asking, Roomy, OthersAlike
  <2> QED BY <2>1, <2>2
<1>4. /\ Cardinality(UsedConns') + Cardinality(Asking') + vectorDb'.calls <= MaxVectorCalls
      /\ Len(conns'.pool) + Cardinality(Roomy') < PoolSize + Cardinality(VectorClient)
  <2>1. Len(conns'.pool) \in Nat /\ Len(conns'.pool) <= Len(conns.pool)
    BY <1>2, ConnCounts
  <2> QED BY <1>3, <2>1, ConnShrinks
<1>5. \A i \in 1..Len(conns'.pool) :
         /\ conns'.state[conns'.pool[i]] = "clean" /\ conns'.pool[i] # vcall'[v].conn
         /\ conns'.pool[i] = vcall[v].conn \/ \E j \in 1..Len(conns.pool) : conns'.pool[i] = conns.pool[j]
  BY <1>2, ConnFacts
<1>6. \A w \in VectorClient \ {v} :
         vcall[w].conn # 0 => /\ conns'.state[vcall[w].conn] = conns.state[vcall[w].conn]
                              /\ vcall[w].conn # vcall'[v].conn
  BY <1>2, ConnFacts
<1>7. \A i, j \in 1..Len(conns'.pool) : i # j => conns'.pool[i] # conns'.pool[j]
  BY <1>2, ConnFacts
<1> QED BY <1>2, <1>4, <1>5, <1>6, <1>7, ConnMoves DEF ConnStages

\* A connection goes back to the pool.
LEMMA ConnPooled ==
  ASSUME VectorInv, NEW v \in VectorClient, OthersAlike(v), vcall[v].at = "room", vcall[v].room,
         NEW k, k = vcall[v].conn, conns' = [conns EXCEPT !.pool = Append(@, k)],
         vcall'[v].conn = 0, vcall'[v].at = "done", vectorDb'.calls = vectorDb.calls
  PROVE  ConnSound'
<1>1. k \in Conns /\ conns.state[k] = "clean"
  BY ConnFacts DEF ConnStages, VectorInv, ConnSound
<1>2. PICK p, n : p = conns.pool /\ n = Len(p) /\ p \in Seq(Conns) /\ n \in Nat
  BY ConnCounts, ConnFacts
<1>3. /\ conns' \in [pool : Seq(Conns), state : [Conns -> {"unused", "clean", "dirty", "closed"}]]
      /\ conns'.pool = Append(p, k) /\ conns'.state = conns.state
  <2>1. PICK held : conns = [pool |-> p, state |-> held] /\ held = conns.state
                     /\ held \in [Conns -> {"unused", "clean", "dirty", "closed"}]
    BY <1>2, ConnFacts
  <2>2. conns' = [pool |-> Append(p, k), state |-> held]
    BY <2>1
  <2>3. Append(p, k) \in Seq(Conns)
    BY <1>1, <1>2
  <2> QED BY <2>1, <2>2, <2>3
<1>4. /\ Len(conns'.pool) = n + 1 /\ conns'.pool[n + 1] = k
      /\ \A i \in 1..n : conns'.pool[i] = p[i]
  BY <1>1, <1>2, <1>3
<1>5. /\ Cardinality(UsedConns') + Cardinality(Asking') + vectorDb'.calls <= MaxVectorCalls
      /\ Len(conns'.pool) + Cardinality(Roomy') < PoolSize + Cardinality(VectorClient)
  <2>1. UsedConns' = UsedConns /\ Asking' = Asking /\ v \in Roomy /\ Roomy' = Roomy \ {v}
    BY <1>3 DEF UsedConns, Asking, Roomy, OthersAlike
  <2>2. IsFiniteSet(Roomy') /\ Cardinality(Roomy') = Cardinality(Roomy) - 1
    BY <2>1, ConnCounts, FS_RemoveElement
  <2>3. PICK m, calls, roomy : m = n + 1 /\ m \in Nat /\ calls = vectorDb.calls /\ calls \in Nat /\ roomy = Roomy'
    BY <1>2, ConnCounts
  <2>4. m + Cardinality(roomy) <= Len(conns.pool) + Cardinality(Roomy)
    BY <1>2, <2>2, <2>3, ConnCounts
  <2>5. Cardinality(UsedConns) + Cardinality(Asking) + calls <= Cardinality(UsedConns) + Cardinality(Asking) + vectorDb.calls
    BY <2>3, ConnCounts
  <2>6. /\ Cardinality(UsedConns) + Cardinality(Asking) + calls <= MaxVectorCalls
        /\ m + Cardinality(roomy) < PoolSize + Cardinality(VectorClient)
    BY <2>2, <2>3, <2>4, <2>5, ConnCounts, CountsHold
  <2> QED BY <1>4, <2>1, <2>3, <2>6
<1>6. \A i \in 1..Len(conns'.pool) :
         /\ conns'.state[conns'.pool[i]] = "clean" /\ conns'.pool[i] # vcall'[v].conn
         /\ conns'.pool[i] = vcall[v].conn \/ \E j \in 1..Len(conns.pool) : conns'.pool[i] = conns.pool[j]
  <2> SUFFICES ASSUME NEW i \in 1..Len(conns'.pool)
               PROVE  /\ conns'.state[conns'.pool[i]] = "clean" /\ conns'.pool[i] # vcall'[v].conn
                      /\ conns'.pool[i] = vcall[v].conn \/ \E j \in 1..Len(conns.pool) : conns'.pool[i] = conns.pool[j]
    OBVIOUS
  <2>1. i \in 1..n \/ i = n + 1
    BY <1>2, <1>4
  <2>2. CASE i \in 1..n
    BY <1>2, <1>3, <1>4, <2>2, ConnFacts
  <2>3. CASE i = n + 1
    BY <1>1, <1>3, <1>4, <2>3, ConnFacts
  <2> QED BY <2>1, <2>2, <2>3
<1>7. \A i, j \in 1..Len(conns'.pool) : i # j => conns'.pool[i] # conns'.pool[j]
  <2> SUFFICES ASSUME NEW i \in 1..Len(conns'.pool), NEW j \in 1..Len(conns'.pool), i # j
               PROVE  conns'.pool[i] # conns'.pool[j]
    OBVIOUS
  <2>1. (i \in 1..n \/ i = n + 1) /\ (j \in 1..n \/ j = n + 1)
    BY <1>2, <1>4
  <2>2. \A l \in 1..n : p[l] # k
    BY <1>2, ConnFacts
  <2>3. CASE i \in 1..n /\ j \in 1..n
    BY <1>2, <1>4, <2>3, ConnFacts
  <2>4. CASE i = n + 1 \/ j = n + 1
    BY <1>4, <2>1, <2>2, <2>4
  <2> QED BY <2>1, <2>3, <2>4
<1>8. \A w \in VectorClient \ {v} :
         vcall[w].conn # 0 => /\ conns'.state[vcall[w].conn] = conns.state[vcall[w].conn]
                              /\ vcall[w].conn # vcall'[v].conn
  BY <1>3
<1> QED BY <1>3, <1>5, <1>6, <1>7, <1>8, ConnMoves DEF ConnStages

\* The last of the pool is taken, or found broken.
LEMMA ConnTaken ==
  ASSUME VectorInv, NEW v \in VectorClient, OthersAlike(v), vcall[v].at = "pop", conns.pool # <<>>,
         NEW k, k = conns.pool[Len(conns.pool)],
         conns'.pool = SubSeq(conns.pool, 1, Len(conns.pool) - 1),
         \/ /\ conns' = [conns EXCEPT !.pool = SubSeq(conns.pool, 1, Len(conns.pool) - 1)]
            /\ vcall'[v].conn = k /\ vcall'[v].at = "execute"
         \/ /\ conns' = [conns EXCEPT !.pool = SubSeq(conns.pool, 1, Len(conns.pool) - 1), !.state[k] = "unused"]
            /\ vcall'[v].conn = 0 /\ vcall'[v].at = "new",
         vectorDb'.calls = vectorDb.calls
  PROVE  ConnSound'
<1>1. PICK p, n : p = conns.pool /\ n = Len(p) /\ p \in Seq(Conns) /\ n \in Nat \ {0} /\ k = p[n]
  <2>1. conns.pool \in Seq(Conns) /\ Len(conns.pool) \in Nat
    BY ConnCounts, ConnFacts
  <2>2. Len(conns.pool) # 0
    BY <2>1
  <2> QED BY <2>1, <2>2
<1>2. PICK q : q = SubSeq(p, 1, n - 1) /\ q \in Seq(Conns) /\ Len(q) = n - 1 /\ \A i \in 1..n - 1 : q[i] = p[i]
  <2>1. n - 1 \in Nat /\ n - 1 <= Len(p)
    BY <1>1
  <2>2. SubSeq(p, 1, n - 1) \in Seq(Conns) /\ Len(SubSeq(p, 1, n - 1)) = n - 1
    BY <1>1, <2>1, SMT
  <2>3. \A i \in 1..n - 1 : SubSeq(p, 1, n - 1)[i] = p[i]
    BY <1>1, <2>1, SMT
  <2> QED BY <2>2, <2>3
<1>3. k \in Conns /\ conns.state[k] = "clean" /\ (\A i \in 1..n - 1 : p[i] # k) /\ \A w \in VectorClient : vcall[w].conn # k
  <2>1. n \in 1..Len(conns.pool) /\ k = conns.pool[n]
    BY <1>1
  <2>2. \A i \in 1..n - 1 : i \in 1..Len(conns.pool) /\ i # n
    BY <1>1
  <2> QED BY <1>1, <2>1, <2>2, ConnFacts
<1>4. /\ conns' \in [pool : Seq(Conns), state : [Conns -> {"unused", "clean", "dirty", "closed"}]]
      /\ conns'.pool = q /\ \A j \in Conns \ {k} : conns'.state[j] = conns.state[j]
      /\ conns'.state[k] # "clean" => vcall'[v].conn = 0
  <2>1. PICK held : conns = [pool |-> p, state |-> held] /\ held = conns.state
                     /\ held \in [Conns -> {"unused", "clean", "dirty", "closed"}]
    BY <1>1, ConnFacts
  <2>2. CASE conns' = [conns EXCEPT !.pool = SubSeq(conns.pool, 1, Len(conns.pool) - 1)]
    <3>1. conns' = [pool |-> q, state |-> held]
      BY <1>1, <1>2, <2>1, <2>2
    <3> QED BY <1>2, <1>3, <2>1, <3>1
  <2>3. CASE /\ conns' = [conns EXCEPT !.pool = SubSeq(conns.pool, 1, Len(conns.pool) - 1), !.state[k] = "unused"]
             /\ vcall'[v].conn = 0 /\ vcall'[v].at = "new"
    <3>1. conns' = [pool |-> q, state |-> [held EXCEPT ![k] = "unused"]]
      BY <1>1, <1>2, <2>1, <2>3
    <3>2. /\ [held EXCEPT ![k] = "unused"] \in [Conns -> {"unused", "clean", "dirty", "closed"}]
          /\ \A j \in Conns \ {k} : [held EXCEPT ![k] = "unused"][j] = held[j]
      BY <1>3, <2>1
    <3>3. conns'.pool = q /\ conns'.state = [held EXCEPT ![k] = "unused"]
      BY <3>1
    <3>4. conns' \in [pool : Seq(Conns), state : [Conns -> {"unused", "clean", "dirty", "closed"}]]
      BY <1>2, <3>1, <3>2
    <3> QED BY <2>1, <2>3, <3>2, <3>3, <3>4
  <2> QED BY <2>2, <2>3
<1>5. /\ Cardinality(UsedConns') + Cardinality(Asking') + vectorDb'.calls <= MaxVectorCalls
      /\ Len(conns'.pool) + Cardinality(Roomy') < PoolSize + Cardinality(VectorClient)
  <2>1. UsedConns' \subseteq UsedConns
    BY <1>3, <1>4 DEF UsedConns
  <2>2. Asking' \subseteq Asking /\ Roomy' \subseteq Roomy
    BY DEF Asking, Roomy, OthersAlike
  <2>3. Len(conns'.pool) \in Nat /\ Len(conns'.pool) <= Len(conns.pool)
    BY <1>1, <1>2, <1>4
  <2> QED BY <2>1, <2>2, <2>3, ConnShrinks
<1>6. \A i \in 1..Len(conns'.pool) : i \in 1..n - 1 /\ i \in 1..Len(conns.pool) /\ conns'.pool[i] = conns.pool[i]
                                     /\ conns.pool[i] # k
  BY <1>1, <1>2, <1>3, <1>4
<1>7. \A i \in 1..Len(conns'.pool) :
         /\ conns'.state[conns'.pool[i]] = "clean" /\ conns'.pool[i] # vcall'[v].conn
         /\ conns'.pool[i] = vcall[v].conn \/ \E j \in 1..Len(conns.pool) : conns'.pool[i] = conns.pool[j]
  <2> SUFFICES ASSUME NEW i \in 1..Len(conns'.pool)
               PROVE  /\ conns'.state[conns'.pool[i]] = "clean" /\ conns'.pool[i] # vcall'[v].conn
                      /\ conns'.pool[i] = vcall[v].conn \/ \E j \in 1..Len(conns.pool) : conns'.pool[i] = conns.pool[j]
    OBVIOUS
  <2>1. conns.pool[i] \in Conns \ {k} /\ conns.state[conns.pool[i]] = "clean" /\ conns.pool[i] # 0
    BY <1>6, ConnFacts
  <2> QED BY <1>4, <1>6, <2>1
<1>8. \A i, j \in 1..Len(conns'.pool) : i # j => conns'.pool[i] # conns'.pool[j]
  BY <1>6, ConnFacts
<1>9. \A w \in VectorClient \ {v} :
         vcall[w].conn # 0 => /\ conns'.state[vcall[w].conn] = conns.state[vcall[w].conn]
                              /\ vcall[w].conn # vcall'[v].conn
  BY <1>3, <1>4, ConnFacts
<1>10. IF vcall'[v].at \in ConnStages
       THEN vcall'[v].at # "room" /\ vcall'[v].conn \in Conns /\ conns'.state[vcall'[v].conn] # "unused"
       ELSE vcall'[v].conn = 0
  BY <1>3, <1>4, ConnFacts DEF ConnStages
<1> QED BY <1>4, <1>5, <1>7, <1>8, <1>9, <1>10, ConnMoves

\* A set of natural numbers that is not empty has a least element.
LEMMA Smallest ==
  ASSUME NEW T \in SUBSET Nat, T # {}
  PROVE  \E x \in T : \A y \in T : x <= y
<1> DEFINE R == {ss \in Nat \X Nat : ss[1] < ss[2]}
<1>1. IsWellFoundedOn(R, Nat)
  BY NatLessThanWellFounded DEF OpToRel
<1> HIDE DEF R
<1>2. PICK x \in T : \A y \in T : ~ (<<y, x>> \in R)
  BY <1>1, WFMin
<1>3. ASSUME NEW y \in T PROVE x <= y
  <2>1. ~ (<<y, x>> \in R)
    BY <1>2
  <2> QED BY <2>1 DEF R
<1> QED BY <1>3

\* There is a connection to open, and the first of them is opened.
LEMMA ConnOpened ==
  ASSUME VectorInv, NEW v \in VectorClient, OthersAlike(v), vcall[v].at = "new",
         NEW k, k = CHOOSE i \in Conns : conns.state[i] = "unused" /\ \A j \in 1..i - 1 : conns.state[j] # "unused",
         conns' = [conns EXCEPT !.state[k] = "clean"],
         vcall'[v].conn = k, vcall'[v].at = "execute", vectorDb'.calls = vectorDb.calls
  PROVE  ConnSound'
<1>1. v \in Asking /\ Cardinality(UsedConns) < MaxVectorCalls
  <2>1. v \in Asking
    BY DEF Asking
  <2>2. Cardinality(Asking) # 0
    BY <2>1, ConnCounts, FS_EmptySet
  <2>3. Cardinality(UsedConns) + Cardinality(Asking) + vectorDb.calls <= MaxVectorCalls
    BY DEF VectorInv, ConnSound
  <2>4. Cardinality(UsedConns) < MaxVectorCalls
    BY <2>2, <2>3, ConnCounts
  <2> QED BY <2>1, <2>4
<1>2. \E i \in Conns : conns.state[i] = "unused"
  <2>1. UsedConns # Conns
    BY <1>1, ConnCounts
  <2> QED BY <2>1 DEF UsedConns
<1>3. PICK T : T = {i \in Conns : conns.state[i] = "unused"} /\ T # {} /\ T \in SUBSET Nat
  <2>1. Conns \subseteq Nat
    BY DEF Conns, Versions
  <2> QED BY <1>2, <2>1
<1>4. PICK i \in T : \A j \in T : i <= j
  BY <1>3, Smallest
<1>5. i \in Conns /\ conns.state[i] = "unused" /\ \A j \in 1..i - 1 : conns.state[j] # "unused"
  <2>1. i \in 1..MaxVectorCalls /\ MaxVectorCalls \in Nat /\ Conns = 1..MaxVectorCalls
    BY <1>3, VectorConstants
  <2>2. ASSUME NEW j \in 1..i - 1, conns.state[j] = "unused" PROVE FALSE
    <3>1. j \in T
      BY <1>3, <2>1, <2>2
    <3>2. i <= j
      BY <1>4, <3>1
    <3> QED BY <2>1, <2>2, <3>2
  <2> QED BY <1>3, <2>2
<1>6. k \in Conns /\ conns.state[k] = "unused"
  BY <1>5
<1>7. /\ conns' \in [pool : Seq(Conns), state : [Conns -> {"unused", "clean", "dirty", "closed"}]]
      /\ conns'.pool = conns.pool /\ conns'.state[k] = "clean"
      /\ \A j \in Conns \ {k} : conns'.state[j] = conns.state[j]
  BY <1>6, ConnFacts
<1>8. /\ Cardinality(UsedConns') + Cardinality(Asking') + vectorDb'.calls <= MaxVectorCalls
      /\ Len(conns'.pool) + Cardinality(Roomy') < PoolSize + Cardinality(VectorClient)
  <2>1. UsedConns' = UsedConns \cup {k} /\ k \notin UsedConns
    BY <1>6, <1>7 DEF UsedConns
  <2>2. Asking' = Asking \ {v} /\ Roomy' \subseteq Roomy
    BY DEF Asking, Roomy, OthersAlike
  <2>3. /\ IsFiniteSet(UsedConns') /\ Cardinality(UsedConns') = Cardinality(UsedConns) + 1
        /\ IsFiniteSet(Asking') /\ Cardinality(Asking') = Cardinality(Asking) - 1
    BY <1>1, <2>1, <2>2, ConnCounts, FS_AddElement, FS_RemoveElement
  <2>4. IsFiniteSet(Roomy') /\ Cardinality(Roomy') <= Cardinality(Roomy) /\ Cardinality(Roomy') \in Nat
    BY <2>2, ConnCounts, FS_Subset, FS_CardinalityType
  <2>5. PICK n, calls, used, asking, roomy :
           /\ n = Len(conns.pool) /\ calls = vectorDb.calls /\ n \in Nat /\ calls \in Nat
           /\ used = UsedConns' /\ asking = Asking' /\ roomy = Roomy'
    BY ConnCounts
  <2>6. Cardinality(used) + Cardinality(asking) + calls <= Cardinality(UsedConns) + Cardinality(Asking) + vectorDb.calls
    BY <2>3, <2>5, ConnCounts
  <2>7. n + Cardinality(roomy) <= Len(conns.pool) + Cardinality(Roomy)
    BY <2>4, <2>5, ConnCounts
  <2>8. /\ Cardinality(used) + Cardinality(asking) + calls <= MaxVectorCalls
        /\ n + Cardinality(roomy) < PoolSize + Cardinality(VectorClient)
    BY <2>3, <2>4, <2>5, <2>6, <2>7, CountsHold
  <2> QED BY <1>7, <2>5, <2>8
<1>9. \A i2 \in 1..Len(conns'.pool) :
         /\ conns'.state[conns'.pool[i2]] = "clean" /\ conns'.pool[i2] # vcall'[v].conn
         /\ conns'.pool[i2] = vcall[v].conn \/ \E j \in 1..Len(conns.pool) : conns'.pool[i2] = conns.pool[j]
  <2> SUFFICES ASSUME NEW i2 \in 1..Len(conns'.pool)
               PROVE  /\ conns'.state[conns'.pool[i2]] = "clean" /\ conns'.pool[i2] # vcall'[v].conn
                      /\ conns'.pool[i2] = vcall[v].conn \/ \E j \in 1..Len(conns.pool) : conns'.pool[i2] = conns.pool[j]
    OBVIOUS
  <2>1. i2 \in 1..Len(conns.pool) /\ conns'.pool[i2] = conns.pool[i2]
    BY <1>7
  <2>2. conns.pool[i2] \in Conns /\ conns.state[conns.pool[i2]] = "clean"
    BY <2>1, ConnFacts
  <2> QED BY <1>6, <1>7, <2>1, <2>2
<1>10. \A w \in VectorClient \ {v} :
         vcall[w].conn # 0 => /\ conns'.state[vcall[w].conn] = conns.state[vcall[w].conn]
                              /\ vcall[w].conn # vcall'[v].conn
  <2> SUFFICES ASSUME NEW w \in VectorClient \ {v}, vcall[w].conn # 0
               PROVE  conns'.state[vcall[w].conn] = conns.state[vcall[w].conn] /\ vcall[w].conn # k
    OBVIOUS
  <2>1. vcall[w].conn \in Conns
    BY ConnFacts
  <2>2. conns.state[vcall[w].conn] # "unused"
    BY <2>1, ConnFacts
  <2> QED BY <1>6, <1>7, <2>1, <2>2
<1>11. \A i2, j \in 1..Len(conns'.pool) : i2 # j => conns'.pool[i2] # conns'.pool[j]
  BY <1>7, ConnFacts
<1>12. IF vcall'[v].at \in ConnStages
       THEN vcall'[v].at # "room" /\ vcall'[v].conn \in Conns /\ conns'.state[vcall'[v].conn] # "unused"
       ELSE vcall'[v].conn = 0
  BY <1>6, <1>7 DEF ConnStages
<1> QED BY <1>7, <1>8, <1>9, <1>10, <1>11, <1>12, ConnMoves

(***************************************************************************)
(* What a search says is best.                                             *)
(***************************************************************************)
LEMMA NextAbove ==
  ASSUME NEW H \in SUBSET RecordId, NEW least \in Nat,
         Cardinality({u \in H : Facts[u].score > least}) >= VectorTopK
  PROVE  \E u \in H : /\ Facts[u].score > least
                      /\ {t \in H : Facts[t].score >= Facts[u].score} = {t \in H : Facts[t].score > least}
<1>1. PICK above : above = {u \in H : Facts[u].score > least}
  OBVIOUS
<1>2. above # {}
  <2>1. Cardinality({}) = 0 /\ ~ (0 >= VectorTopK)
    BY FS_EmptySet, VectorConstants
  <2> QED BY <1>1, <2>1
<1>3. \A u \in H : Facts[u].score \in Nat
  BY VectorConstants
<1>4. PICK T : T = {n \in Nat : \E u \in above : n = Facts[u].score} /\ T \in SUBSET Nat /\ T # {}
  <2>1. PICK u : u \in above /\ Facts[u].score \in Nat
    BY <1>1, <1>2, <1>3
  <2> QED BY <2>1
<1>5. PICK x \in T : \A y \in T : x <= y
  BY <1>4, Smallest
<1>6. PICK u \in above : x = Facts[u].score
  BY <1>4, <1>5
<1>7. \A t \in H : Facts[t].score > least => Facts[t].score >= Facts[u].score
  BY <1>1, <1>3, <1>4, <1>5, <1>6
<1>8. \A t \in H : Facts[t].score >= Facts[u].score => Facts[t].score > least
  BY <1>1, <1>3, <1>6
<1> QED BY <1>1, <1>6, <1>7, <1>8

LEMMA BestTold ==
  ASSUME NEW H \in SUBSET RecordId, NEW r \in H
  PROVE  r \in BestHits(H) \/ Cardinality({h \in BestHits(H) : Facts[h].score >= Facts[r].score}) >= VectorTopK
<1> SUFFICES ASSUME r \notin BestHits(H)
             PROVE  Cardinality({h \in BestHits(H) : Facts[h].score >= Facts[r].score}) >= VectorTopK
  OBVIOUS
<1> DEFINE Level(s) == {t \in H : Facts[t].score >= Facts[s].score}
           S == {s \in H : Facts[s].score > Facts[r].score /\ Cardinality(Level(s)) >= VectorTopK}
           T == {n \in Nat : \E s \in S : n = Cardinality(Level(s))}
<1>1. /\ VectorTopK \in Nat \ {0} /\ IsFiniteSet(H) /\ \A s \in H : Facts[s].score \in Nat
      /\ \A X : X \subseteq H => IsFiniteSet(X) /\ Cardinality(X) \in Nat
  BY VectorConstants, FS_Subset, FS_CardinalityType
<1>2. \A t \in H : t \notin BestHits(H) => Cardinality({u \in H : Facts[u].score > Facts[t].score}) >= VectorTopK
  <2> SUFFICES ASSUME NEW t \in H, t \notin BestHits(H)
               PROVE  Cardinality({u \in H : Facts[u].score > Facts[t].score}) >= VectorTopK
    OBVIOUS
  <2>1. ~ (Cardinality({u \in H : Facts[u].score > Facts[t].score}) < VectorTopK)
    BY DEF BestHits
  <2>2. Cardinality({u \in H : Facts[u].score > Facts[t].score}) \in Nat
    BY <1>1
  <2> QED BY <1>1, <2>1, <2>2
<1>3. ASSUME NEW t \in H, t \notin BestHits(H)
      PROVE  \E u \in H : /\ Facts[u].score > Facts[t].score
                          /\ Level(u) = {x \in H : Facts[x].score > Facts[t].score}
                          /\ Cardinality(Level(u)) >= VectorTopK
  <2>1. Cardinality({u \in H : Facts[u].score > Facts[t].score}) >= VectorTopK /\ Facts[t].score \in Nat
    BY <1>1, <1>2, <1>3
  <2>2. PICK u \in H : /\ Facts[u].score > Facts[t].score
                       /\ Level(u) = {x \in H : Facts[x].score > Facts[t].score}
    BY <2>1, NextAbove
  <2> QED BY <2>1, <2>2
<1>4. S # {}
  BY <1>3
<1>5. PICK s \in S : \A z \in S : Cardinality(Level(s)) <= Cardinality(Level(z))
  <2>1. \A z \in S : Cardinality(Level(z)) \in Nat
    BY <1>1
  <2> HIDE DEF S, Level
  <2>2. T # {} /\ T \in SUBSET Nat
    BY <1>4, <2>1
  <2> HIDE DEF T
  <2>3. PICK x \in T : \A y \in T : x <= y
    BY <2>2, Smallest
  <2>4. PICK s \in S : x = Cardinality(Level(s))
    BY <2>3 DEF T
  <2>5. \A z \in S : Cardinality(Level(z)) \in T
    BY <2>1 DEF T
  <2> QED BY <2>3, <2>4, <2>5
<1>6. s \in H /\ Facts[s].score > Facts[r].score /\ Cardinality(Level(s)) >= VectorTopK
  OBVIOUS
<1>7. Level(s) \subseteq BestHits(H)
  <2> SUFFICES ASSUME NEW t \in H, Facts[t].score >= Facts[s].score, t \notin BestHits(H) PROVE FALSE
    OBVIOUS
  <2>1. PICK u \in H : /\ Facts[u].score > Facts[t].score
                       /\ Level(u) = {x \in H : Facts[x].score > Facts[t].score}
                       /\ Cardinality(Level(u)) >= VectorTopK
    BY <1>3
  <2>2. Facts[u].score > Facts[r].score
    BY <1>1, <1>6, <2>1
  <2>3. u \in S
    BY <2>1, <2>2
  <2>4. t \in Level(s) /\ t \notin Level(u) /\ Level(u) \subseteq Level(s)
    BY <1>1, <1>6, <2>1
  <2>5. Cardinality(Level(u)) < Cardinality(Level(s))
    <3>1. IsFiniteSet(Level(s)) /\ Level(u) # Level(s)
      BY <1>1, <2>4
    <3> HIDE DEF Level
    <3> QED BY <2>4, <3>1, FS_Subset, FS_CardinalityType
  <2>6. Cardinality(Level(u)) \in Nat /\ Cardinality(Level(s)) \in Nat
    BY <1>1
  <2>7. Cardinality(Level(s)) <= Cardinality(Level(u))
    BY <1>5, <2>3
  <2> QED BY <2>5, <2>6, <2>7
<1>8. PICK better : better = {h \in BestHits(H) : Facts[h].score >= Facts[r].score}
  OBVIOUS
<1>9. Level(s) \subseteq better /\ better \subseteq H
  <2>1. better \subseteq H
    BY <1>8 DEF BestHits
  <2>2. \A t \in H : Facts[t].score >= Facts[s].score => Facts[t].score >= Facts[r].score
    BY <1>1, <1>6
  <2> QED BY <1>7, <1>8, <2>1, <2>2
<1>10. Cardinality(Level(s)) <= Cardinality(better) /\ Cardinality(better) \in Nat /\ Cardinality(Level(s)) \in Nat
  BY <1>1, <1>9, FS_Subset
<1> HIDE DEF Level, S, T
<1> QED BY <1>1, <1>6, <1>8, <1>10

(***************************************************************************)
(* The steps.                                                              *)
(***************************************************************************)
LEMMA CallOf ==
  ASSUME VectorInv, NEW v \in VectorClient
  PROVE  /\ CallSound(vcall[v]) /\ vcall[v] \in VectorCalls /\ StageSound(vcall[v])
         /\ vcall[v].at \in VectorStages(vectorDb.db)
         /\ vectorDb \in VectorDbs /\ vectorDb.db \in {"memory", "opengauss", "chroma"}
         /\ vcall[v].at = "idle" => vcall[v] = NoVector
  BY DEF VectorInv, VectorCallsSound, CallSound, StageSound, VectorDbs, VectorFrame

LEMMA PresentCounted ==
  ASSUME VectorInv
  PROVE  /\ Present \subseteq RecordId /\ IsFiniteSet(Present) /\ Cardinality(Present) \in Nat
         /\ \A r \in RecordId : /\ indexed[r] \in [record : Versions, vector : Versions]
                                /\ r \notin Present => indexed[r].record = 0
<1>1. Present \subseteq RecordId
  BY DEF Present
<1>2. IsFiniteSet(Present) /\ Cardinality(Present) \in Nat
  BY <1>1, VectorConstants, FS_Subset, FS_CardinalityType
<1>3. \A r \in RecordId : indexed[r] \in [record : Versions, vector : Versions]
  BY DEF VectorInv, VectorFrame
<1>4. \A n \in Versions : n > 0 \/ n = 0
  BY DEF Versions
<1>5. \A r \in RecordId : r \notin Present => indexed[r].record = 0
  BY <1>3, <1>4 DEF Present
<1> QED BY <1>1, <1>2, <1>3, <1>5

\* A call goes on.
LEMMA MoveOn ==
  ASSUME VectorInv, NEW v \in VectorClient, NEW c, c = vcall[v], c.at # "idle", NEW rec, Moves(v, rec),
         UNCHANGED indexed, vectorDb' \in VectorDbs, vectorDb'.db = vectorDb.db, CallSound(rec), ConnSound',
         rec.moved = c.moved,
         vectorDb.db = "memory" => /\ rec.at # "vector" /\ c.at # "vector"
                                   /\ rec.raised => c.moved # {} \/ \E r \in torn : Torn(r)
  PROVE  VectorInv'
<1>1. CallSound(rec)'
  BY CallStays
<1>2. vectorDb.db = "memory" =>
         \A w \in VectorClient \ {v} : vcall[w].at = "vector" => vcall[w].seen \subseteq rec.moved
  BY DEF VectorInv, MemorySound
<1> HIDE DEF Torn
<1> QED BY <1>1, <1>2, MoveKeeps

\* A call goes on without a connection.
LEMMA MoveAlone ==
  ASSUME VectorInv, NEW v \in VectorClient, NEW c, c = vcall[v], c.at # "idle", NEW rec, Moves(v, rec),
         UNCHANGED <<indexed, conns>>, vectorDb' \in VectorDbs, vectorDb'.db = vectorDb.db,
         vectorDb'.calls = vectorDb.calls, CallSound(rec),
         rec.moved = c.moved, rec.conn = 0, rec.at \notin ConnStages \cup {"pop", "new"},
         vectorDb.db = "memory" => /\ rec.at # "vector" /\ c.at # "vector"
                                   /\ rec.raised => c.moved # {} \/ \E r \in torn : Torn(r)
  PROVE  VectorInv'
<1>1. OthersAlike(v) /\ vcall'[v] = rec
  BY OnesAlike
<1>2. vectorDb'.calls \in Nat /\ vectorDb'.calls <= vectorDb.calls
  BY ConnCounts
<1>3. ConnSound'
  BY <1>1, <1>2, ConnSame
<1> HIDE DEF Torn
<1> QED BY <1>3, MoveOn

LEMMA FaultTaken ==
  ASSUME VectorInv, vectorDb' = vectorDb \/ Fault
  PROVE  vectorDb' \in VectorDbs /\ vectorDb'.db = vectorDb.db /\ vectorDb'.calls = vectorDb.calls
  BY DEF Fault, VectorInv, VectorFrame, VectorDbs

\* A call ends without an answer.
LEMMA RaisedSound ==
  ASSUME VectorInv, NEW c, CallSound(c), c.at # "idle", NEW rec \in VectorCalls,
         rec.raised, rec.at \in Ending, rec.at \in VectorStages(vectorDb.db), rec.nth = c.nth, rec.does = c.does,
         rec.writes = c.writes, rec.refused = c.refused, rec.filter = c.filter, rec.todo = c.todo
  PROVE  CallSound(rec)
<1>1. StageSound(c) /\ rec.at \in {"return", "room", "done"}
  BY DEF CallSound, Ending
<1>2. StageSound(rec)
  BY <1>1 DEF StageSound, Ending
<1>3. DealtWith(rec) = {}
  BY DEF DealtWith
<1> HIDE DEF StageSound, DealtWith
<1> QED BY <1>1, <1>2, <1>3 DEF CallSound

LEMMA ScanBreaksKeeps ==
  ASSUME VectorInv, NEW v \in VectorClient, ScanBreaks(v)
  PROVE  VectorInv'
<1>1. PICK c : c = vcall[v] /\ CallSound(c) /\ c \in VectorCalls /\ c.at = "scan" /\ c.conn = 0
  BY CallOf, ConnFacts DEF ScanBreaks, ConnStages
<1>2. PICK rec : rec = [c EXCEPT !.at = "done", !.raised = TRUE]
  OBVIOUS
<1>3. /\ rec \in VectorCalls
      /\ rec.does = c.does /\ rec.at = "done" /\ rec.nth = c.nth /\ rec.todo = c.todo
      /\ rec.writes = c.writes /\ rec.refused = c.refused /\ rec.seen = c.seen /\ rec.size = c.size
      /\ rec.hits = c.hits /\ rec.conn = c.conn /\ rec.filter = c.filter /\ rec.room = c.room
      /\ rec.moved = c.moved /\ rec.raised = TRUE
  BY <1>1, <1>2 DEF VectorCalls
<1>4. Moves(v, rec) /\ UNCHANGED <<vectorDb, indexed, conns>>
  BY <1>1, <1>2 DEF ScanBreaks
<1>5. CallSound(rec)
  <2>1. rec.at \in Ending /\ rec.at \in VectorStages(vectorDb.db)
    BY <1>3 DEF Ending, VectorStages
  <2> QED BY <1>1, <1>3, <2>1, RaisedSound
<1>6. c.moved # {}
  BY <1>1 DEF ScanBreaks, SizeChanged, CallSound
<1> QED BY <1>1, <1>3, <1>4, <1>5, <1>6, CallOf, FaultTaken, MoveAlone DEF ConnStages

LEMMA ScanRecordsKeeps ==
  ASSUME VectorInv, NEW v \in VectorClient, ScanRecords(v)
  PROVE  VectorInv'
<1>1. PICK c : /\ c = vcall[v] /\ CallSound(c) /\ c \in VectorCalls /\ c.at = "scan" /\ c.conn = 0
               /\ c.does = "search" /\ StageSound(c) /\ Scanned(c) /\ c.todo = {} /\ c.writes = {}
               /\ ~c.raised
  <2>1. vcall[v].at = "scan" /\ vcall[v].does = "search"
    BY DEF ScanRecords
  <2>2. CallSound(vcall[v]) /\ vcall[v] \in VectorCalls /\ StageSound(vcall[v]) /\ vcall[v].conn = 0
    BY <2>1, CallOf, ConnFacts DEF ConnStages
  <2>3. Scanned(vcall[v]) /\ vcall[v].todo = {}
    BY <2>1, <2>2 DEF CallSound
  <2>4. ~vcall[v].raised /\ vcall[v].writes = {}
    BY <2>1, <2>2 DEF StageSound, Ending
  <2> QED BY <2>1, <2>2, <2>3, <2>4
<1>2. vectorDb.db = "memory"
  BY <1>1, CallOf DEF VectorStages
<1>3. UNCHANGED <<vectorDb, indexed, conns>>
  BY DEF ScanRecords
<1>4. CASE Present \subseteq c.seen /\ Moves(v, [c EXCEPT !.at = "done", !.hits = BestHits(c.hits)])
  <2>1. PICK rec : rec = [c EXCEPT !.at = "done", !.hits = BestHits(c.hits)]
    OBVIOUS
  <2>2. BestHits(c.hits) \subseteq c.hits /\ c.hits \subseteq RecordId
    BY <1>1 DEF BestHits, VectorCalls
  <2>3. /\ rec \in VectorCalls
        /\ rec.does = c.does /\ rec.at = "done" /\ rec.nth = c.nth /\ rec.todo = c.todo
        /\ rec.writes = c.writes /\ rec.refused = c.refused /\ rec.seen = c.seen /\ rec.size = c.size
        /\ rec.hits = BestHits(c.hits) /\ rec.conn = c.conn /\ rec.filter = c.filter
        /\ rec.room = c.room /\ rec.moved = c.moved /\ rec.raised = c.raised
    BY <1>1, <2>1, <2>2 DEF VectorCalls
  <2>4. StageSound(rec)
    BY <1>1, <2>3 DEF StageSound, Ending
  <2>5. DealtWith(rec) = {}
    BY <1>1, <2>3 DEF DealtWith
  <2>6. HitsTold(rec)
    <3> SUFFICES ASSUME NEW r \in RecordId, r \notin c.moved
                 PROVE  /\ r \in BestHits(c.hits) => r \in Present /\ FilterMatches(r, c.filter)
                        /\ r \notin BestHits(c.hits) /\ r \in Present /\ FilterMatches(r, c.filter) =>
                             Cardinality({h \in BestHits(c.hits) : Facts[h].score >= Facts[r].score}) >= VectorTopK
      BY <2>3 DEF HitsTold
    <3>1. r \in c.hits => r \in Present /\ FilterMatches(r, c.filter)
      BY <1>1 DEF Scanned, Matching
    <3>2. r \in Present /\ FilterMatches(r, c.filter) => r \in c.hits
      BY <1>1, <1>4 DEF Scanned, Matching
    <3> QED BY <2>2, <3>1, <3>2, BestTold
  <2>7. CallSound(rec)
    <3> HIDE DEF StageSound, DealtWith, HitsTold
    <3> QED BY <1>2, <2>3, <2>4, <2>5, <2>6 DEF CallSound, VectorStages
  <2> QED BY <1>1, <1>3, <1>4, <2>1, <2>3, <2>7, CallOf, MoveAlone, FaultTaken DEF ConnStages
<1>5. ASSUME NEW r \in Present \ c.seen, FilterMatches(r, c.filter),
             Moves(v, [c EXCEPT !.seen = @ \cup {r}, !.todo = {r}, !.at = "similarity"])
      PROVE  VectorInv'
  <2>1. PICK rec : rec = [c EXCEPT !.seen = @ \cup {r}, !.todo = {r}, !.at = "similarity"]
    OBVIOUS
  <2>2. r \in RecordId /\ r \in Matching(c.filter)
    BY <1>5 DEF Present, Matching
  <2>3. /\ rec \in VectorCalls
        /\ rec.does = c.does /\ rec.at = "similarity" /\ rec.nth = c.nth /\ rec.todo = {r}
        /\ rec.writes = c.writes /\ rec.refused = c.refused /\ rec.seen = c.seen \cup {r}
        /\ rec.size = c.size /\ rec.hits = c.hits /\ rec.conn = c.conn /\ rec.filter = c.filter
        /\ rec.room = c.room /\ rec.moved = c.moved /\ rec.raised = c.raised
    BY <1>1, <2>1, <2>2 DEF VectorCalls
  <2>4. StageSound(rec)
    BY <1>1, <2>2, <2>3 DEF StageSound, Ending
  <2>5. DealtWith(rec) = {}
    BY <1>1, <2>3 DEF DealtWith
  <2>6. Scanned(rec)
    BY <1>1, <1>5, <2>2, <2>3 DEF Scanned
  <2>7. rec.moved = {} => rec.size = Cardinality(Present)
    BY <1>1, <2>3 DEF CallSound
  <2>8. CallSound(rec)
    <3> HIDE DEF StageSound, DealtWith, Scanned
    <3> QED BY <1>1, <1>2, <2>3, <2>4, <2>5, <2>6, <2>7 DEF CallSound, VectorStages, Ending
  <2> QED BY <1>1, <1>3, <1>5, <2>1, <2>3, <2>8, CallOf, MoveAlone, FaultTaken DEF ConnStages
<1>6. ASSUME NEW r \in Present \ c.seen, ~FilterMatches(r, c.filter), Moves(v, [c EXCEPT !.seen = @ \cup {r}])
      PROVE  VectorInv'
  <2>1. PICK rec : rec = [c EXCEPT !.seen = @ \cup {r}]
    OBVIOUS
  <2>2. r \in RecordId /\ r \notin Matching(c.filter)
    BY <1>6 DEF Present, Matching
  <2>3. /\ rec \in VectorCalls
        /\ rec.does = c.does /\ rec.at = c.at /\ rec.nth = c.nth /\ rec.todo = c.todo
        /\ rec.writes = c.writes /\ rec.refused = c.refused /\ rec.seen = c.seen \cup {r}
        /\ rec.size = c.size /\ rec.hits = c.hits /\ rec.conn = c.conn /\ rec.filter = c.filter
        /\ rec.room = c.room /\ rec.moved = c.moved /\ rec.raised = c.raised
    BY <1>1, <2>1, <2>2 DEF VectorCalls
  <2>4. StageSound(rec)
    BY <1>1, <2>2, <2>3 DEF StageSound, Ending
  <2>5. DealtWith(rec) = {}
    BY <1>1, <2>3 DEF DealtWith
  <2>6. Scanned(rec)
    BY <1>1, <1>6, <2>2, <2>3 DEF Scanned
  <2>7. rec.moved = {} => rec.size = Cardinality(Present)
    BY <1>1, <2>3 DEF CallSound
  <2>8. CallSound(rec)
    <3> HIDE DEF StageSound, DealtWith, Scanned
    <3> QED BY <1>1, <1>2, <2>3, <2>4, <2>5, <2>6, <2>7 DEF CallSound, VectorStages, Ending
  <2> QED BY <1>1, <1>3, <1>6, <2>1, <2>3, <2>8, CallOf, MoveAlone, FaultTaken DEF ConnStages
<1> QED BY <1>1, <1>4, <1>5, <1>6 DEF ScanRecords

LEMMA ScanDoomedKeeps ==
  ASSUME VectorInv, NEW v \in VectorClient, ScanDoomed(v)
  PROVE  VectorInv'
<1>1. PICK c : /\ c = vcall[v] /\ CallSound(c) /\ c \in VectorCalls /\ c.at = "scan" /\ c.conn = 0
               /\ c.does = "purge" /\ StageSound(c) /\ c.hits = c.seen \cap c.writes /\ c.refused = {}
               /\ c.writes = Matching(c.filter) /\ ~c.raised
  <2>1. vcall[v].at = "scan" /\ vcall[v].does = "purge"
    BY DEF ScanDoomed
  <2>2. CallSound(vcall[v]) /\ vcall[v] \in VectorCalls /\ StageSound(vcall[v]) /\ vcall[v].conn = 0
    BY <2>1, CallOf, ConnFacts DEF ConnStages
  <2>3. /\ vcall[v].hits = vcall[v].seen \cap vcall[v].writes /\ vcall[v].refused = {}
        /\ vcall[v].writes = Matching(vcall[v].filter) /\ ~vcall[v].raised
    BY <2>1, <2>2 DEF StageSound, Ending
  <2> QED BY <2>1, <2>2, <2>3
<1>2. vectorDb.db = "memory"
  BY <1>1, CallOf DEF VectorStages
<1>3. UNCHANGED <<vectorDb, indexed, conns>>
  BY DEF ScanDoomed
<1>4. ASSUME Present \subseteq c.seen,
             Moves(v, [c EXCEPT !.at = IF c.hits = {} THEN "done" ELSE "record",
                                !.todo = c.hits, !.seen = {}, !.hits = {}])
      PROVE  VectorInv'
  <2>1. PICK at, rec : /\ at = IF c.hits = {} THEN "done" ELSE "record"
                       /\ rec = [c EXCEPT !.at = at, !.todo = c.hits, !.seen = {}, !.hits = {}]
    OBVIOUS
  <2>2. at \in {"done", "record"} /\ c.hits \subseteq RecordId /\ c.writes \subseteq RecordId
    BY <1>1, <2>1 DEF VectorCalls
  <2>3. /\ rec \in VectorCalls
        /\ rec.does = c.does /\ rec.at = at /\ rec.nth = c.nth /\ rec.todo = c.hits
        /\ rec.writes = c.writes /\ rec.refused = c.refused /\ rec.seen = {} /\ rec.size = c.size
        /\ rec.hits = {} /\ rec.conn = c.conn /\ rec.filter = c.filter /\ rec.room = c.room
        /\ rec.moved = c.moved /\ rec.raised = c.raised
    BY <1>1, <2>1, <2>2 DEF VectorCalls
  <2>4. StageSound(rec)
    BY <1>1, <2>2, <2>3 DEF StageSound, Ending
  <2>5. \A r \in DealtWith(rec) \ rec.moved : DoneTo(rec, r)
    <3> SUFFICES ASSUME NEW r \in DealtWith(rec) PROVE DoneTo(rec, r)
      OBVIOUS
    <3>1. r \in c.writes /\ r \notin c.hits
      BY <1>1, <2>1, <2>2, <2>3 DEF DealtWith, Ending
    <3>2. r \in RecordId /\ r \notin Present
      BY <1>1, <1>4, <2>2, <3>1
    <3> QED BY <1>1, <2>3, <3>2, PresentCounted DEF DoneTo
  <2>6. CallSound(rec)
    <3> HIDE DEF StageSound, DealtWith, DoneTo
    <3> QED BY <1>1, <1>2, <2>2, <2>3, <2>4, <2>5 DEF CallSound, VectorStages, Ending
  <2> QED BY <1>1, <1>3, <1>4, <2>1, <2>2, <2>3, <2>6, CallOf, MoveAlone, FaultTaken DEF ConnStages
<1>5. ASSUME NEW r \in Present \ c.seen,
             Moves(v, [c EXCEPT !.seen = @ \cup {r}, !.hits = @ \cup {x \in {r} : FilterMatches(x, c.filter)}])
      PROVE  VectorInv'
  <2>1. PICK hits, rec : /\ hits = c.hits \cup {x \in {r} : FilterMatches(x, c.filter)}
                         /\ rec = [c EXCEPT !.seen = @ \cup {r}, !.hits = hits]
    OBVIOUS
  <2>2. r \in RecordId /\ c.seen \subseteq RecordId /\ c.hits \subseteq RecordId
    BY <1>1, <1>5 DEF Present, VectorCalls
  <2>3. hits = (c.seen \cup {r}) \cap c.writes /\ hits \subseteq RecordId
    BY <1>1, <2>1, <2>2 DEF Matching
  <2>4. rec = [c EXCEPT !.seen = @ \cup {r}, !.hits = @ \cup {x \in {r} : FilterMatches(x, c.filter)}]
    BY <1>1, <2>1
  <2>5. /\ rec \in VectorCalls
        /\ rec.does = c.does /\ rec.at = c.at /\ rec.nth = c.nth /\ rec.todo = c.todo
        /\ rec.writes = c.writes /\ rec.refused = c.refused /\ rec.seen = c.seen \cup {r}
        /\ rec.size = c.size /\ rec.hits = hits /\ rec.conn = c.conn /\ rec.filter = c.filter
        /\ rec.room = c.room /\ rec.moved = c.moved /\ rec.raised = c.raised
    BY <1>1, <2>1, <2>2, <2>3 DEF VectorCalls
  <2>6. StageSound(rec)
    BY <1>1, <2>3, <2>5 DEF StageSound, Ending
  <2>7. DealtWith(rec) = {}
    BY <1>1, <2>5 DEF DealtWith, Ending
  <2>8. rec.moved = {} => rec.size = Cardinality(Present)
    BY <1>1, <2>5 DEF CallSound
  <2>9. CallSound(rec)
    <3> HIDE DEF StageSound, DealtWith
    <3> QED BY <1>1, <1>2, <2>5, <2>6, <2>7, <2>8 DEF CallSound, VectorStages, Ending
  <2> QED BY <1>1, <1>3, <1>5, <2>4, <2>5, <2>9, CallOf, MoveAlone, FaultTaken DEF ConnStages
<1> QED BY <1>1, <1>4, <1>5 DEF ScanDoomed

LEMMA ReadSimilarityKeeps ==
  ASSUME VectorInv, NEW v \in VectorClient, ReadSimilarity(v)
  PROVE  VectorInv'
<1>1. PICK c : /\ c = vcall[v] /\ CallSound(c) /\ c \in VectorCalls /\ c.at = "similarity" /\ c.conn = 0
               /\ c.does = "search" /\ StageSound(c) /\ Scanned(c) /\ c.writes = {}
               /\ ~c.raised /\ \E r \in RecordId : c.todo = {r}
  <2>1. vcall[v].at = "similarity"
    BY DEF ReadSimilarity
  <2>2. CallSound(vcall[v]) /\ vcall[v] \in VectorCalls /\ StageSound(vcall[v]) /\ vcall[v].conn = 0
    BY <2>1, CallOf, ConnFacts DEF ConnStages
  <2>3. /\ ~vcall[v].raised /\ vcall[v].does = "search" /\ vcall[v].writes = {}
        /\ \E r \in RecordId : vcall[v].todo = {r}
    BY <2>1, <2>2 DEF StageSound, Ending
  <2>4. Scanned(vcall[v])
    BY <2>1, <2>2, <2>3 DEF CallSound
  <2> QED BY <2>1, <2>2, <2>3, <2>4
<1>2. vectorDb.db = "memory" /\ MemorySound
  BY <1>1, CallOf DEF VectorStages, VectorInv
<1>3. UNCHANGED <<vectorDb, indexed, conns>>
  BY DEF ReadSimilarity
<1>4. PICK r \in c.todo :
         Moves(v, IF indexed[r].vector = 0 THEN [c EXCEPT !.at = "done", !.raised = TRUE]
                  ELSE [c EXCEPT !.hits = @ \cup {r}, !.todo = {}, !.at = "scan"])
  BY <1>1 DEF ReadSimilarity
<1>5. c.todo = {r} /\ r \in RecordId
  BY <1>1
<1>6. CASE indexed[r].vector = 0
  <2>1. PICK rec : rec = [c EXCEPT !.at = "done", !.raised = TRUE]
    OBVIOUS
  <2>2. /\ rec \in VectorCalls
      /\ rec.does = c.does /\ rec.at = "done" /\ rec.nth = c.nth /\ rec.todo = c.todo
      /\ rec.writes = c.writes /\ rec.refused = c.refused /\ rec.seen = c.seen /\ rec.size = c.size
      /\ rec.hits = c.hits /\ rec.conn = c.conn /\ rec.filter = c.filter /\ rec.room = c.room
      /\ rec.moved = c.moved /\ rec.raised = TRUE
    BY <1>1, <2>1 DEF VectorCalls
  <2>3. CallSound(rec)
    <3>1. rec.at \in Ending /\ rec.at \in VectorStages(vectorDb.db)
      BY <2>2 DEF Ending, VectorStages
    <3> QED BY <1>1, <2>2, <3>1, RaisedSound
  <2>4. c.moved # {} \/ \E x \in torn : Torn(x)
    <3> SUFFICES ASSUME c.moved = {} PROVE r \in torn /\ Torn(r)
      OBVIOUS
    <3>1. r \in Present
      BY <1>1, <1>5 DEF Scanned
    <3>2. Torn(r)
      BY <1>6, <3>1 DEF Present, Torn
    <3>3. \A w \in VectorClient : ~ (vcall[w].at = "vector" /\ r \in vcall[w].seen)
      BY <1>1, <1>2 DEF MemorySound
    <3> QED BY <1>2, <1>5, <3>2, <3>3 DEF MemorySound
  <2>5. Moves(v, rec) /\ UNCHANGED <<indexed, conns>> /\ vectorDb' = vectorDb
    BY <1>3, <1>4, <1>6, <2>1
  <2>6. rec.conn = 0 /\ rec.at \notin ConnStages \cup {"pop", "new"}
    BY <1>1, <2>2 DEF ConnStages
  <2> HIDE DEF Torn
  <2> QED BY <1>1, <2>2, <2>3, <2>4, <2>5, <2>6, MoveAlone, FaultTaken
<1>7. CASE indexed[r].vector # 0
  <2>1. PICK rec : rec = [c EXCEPT !.hits = @ \cup {r}, !.todo = {}, !.at = "scan"]
    OBVIOUS
  <2>2. /\ rec \in VectorCalls
        /\ rec.does = c.does /\ rec.at = "scan" /\ rec.nth = c.nth /\ rec.todo = {}
        /\ rec.writes = c.writes /\ rec.refused = c.refused /\ rec.seen = c.seen /\ rec.size = c.size
        /\ rec.hits = c.hits \cup {r} /\ rec.conn = c.conn /\ rec.filter = c.filter
        /\ rec.room = c.room /\ rec.moved = c.moved /\ rec.raised = c.raised
    BY <1>1, <1>5, <2>1 DEF VectorCalls
  <2>3. StageSound(rec)
    BY <1>1, <2>2 DEF StageSound, Ending
  <2>4. DealtWith(rec) = {}
    BY <1>1, <2>2 DEF DealtWith
  <2>5. Scanned(rec)
    BY <1>1, <1>5, <2>2 DEF Scanned
  <2>6. rec.moved = {} => rec.size = Cardinality(Present)
    BY <1>1, <2>2 DEF CallSound
  <2>7. CallSound(rec)
    <3> HIDE DEF StageSound, DealtWith, Scanned
    <3> QED BY <1>1, <1>2, <2>2, <2>3, <2>4, <2>5, <2>6 DEF CallSound, VectorStages, Ending
  <2> QED BY <1>1, <1>3, <1>4, <1>7, <2>1, <2>2, <2>7, CallOf, MoveAlone, FaultTaken DEF ConnStages
<1> QED BY <1>6, <1>7

(***************************************************************************)
(* The steps that write to the dicts.                                      *)
(***************************************************************************)
LEMMA MemoryWrites ==
  ASSUME VectorInv, MemorySound, NEW v \in VectorClient, NEW c, c = vcall[v], c \in VectorCalls,
         c.at \in {"record", "vector"}, NEW r \in RecordId, c.at = "vector" => c.seen = {r},
         NEW row, NEW rec, Writes(v, {r}, row, rec), rec.moved = c.moved, ~rec.raised, rec.at # "idle",
         rec.at = "vector" => rec.seen = {r} /\ row.record = Version(rec),
         \/ row.record = 0 \/ row.vector # 0 \/ r \in torn'
         \/ rec.at = "vector" /\ rec.does = "upsert",
         ~ c.raised
  PROVE  MemorySound'
<1>1. /\ vcall'[v] = rec
      /\ \A w \in VectorClient \ {v} :
            vcall'[w] = IF vcall[w].at = "idle" THEN vcall[w] ELSE [vcall[w] EXCEPT !.moved = @ \cup {r}]
      /\ indexed' = [x \in RecordId |-> IF x \in {r} THEN row ELSE indexed[x]]
      /\ torn' = torn \cup {x \in {r} : \E w \in VectorClient \ {v} : vcall[w].at # "idle" /\ x \in vcall[w].writes}
  BY DEF Writes
<1>2. \A w \in VectorClient : vcall[w] \in VectorCalls /\ StageSound(vcall[w])
  BY CallOf
<1>3. ASSUME NEW w \in VectorClient \ {v}
      PROVE  /\ vcall'[w].at = vcall[w].at /\ vcall'[w].seen = vcall[w].seen /\ vcall'[w].does = vcall[w].does
             /\ vcall'[w].nth = vcall[w].nth /\ vcall'[w].raised = vcall[w].raised
             /\ vcall[w].at # "idle" => vcall'[w].moved = vcall[w].moved \cup {r}
  BY <1>1, <1>2 DEF VectorCalls
<1>4. ASSUME NEW w \in VectorClient \ {v}, vcall[w].at = "vector" PROVE r \in vcall[w].seen => r \in torn'
  <2>1. vcall[w].seen \subseteq vcall[w].writes
    BY <1>2, <1>4 DEF StageSound
  <2> QED BY <1>1, <1>4, <2>1
<1>5. \A x \in RecordId \ {r} : indexed'[x] = indexed[x]
  BY <1>1
<1>6. indexed'[r] = row
  BY <1>1
<1>7. torn \subseteq torn'
  BY <1>1
<1>8. ASSUME NEW x \in RecordId, Torn(x)'
      PROVE  x \in torn' \/ \E w \in VectorClient : vcall'[w].at = "vector" /\ x \in vcall'[w].seen
                                                    /\ vcall'[w].does = "upsert"
  <2>1. CASE x = r
    BY <1>1, <1>6, <1>8, <2>1 DEF Torn
  <2>2. CASE x # r
    <3>1. Torn(x)
      BY <1>5, <1>8, <2>2 DEF Torn
    <3>2. CASE x \in torn
      BY <1>7, <3>2
    <3>3. CASE x \notin torn
      <4>1. PICK w \in VectorClient : vcall[w].at = "vector" /\ x \in vcall[w].seen /\ vcall[w].does = "upsert"
        BY <3>1, <3>3 DEF MemorySound
      <4>2. w # v
        BY <2>2, <4>1
      <4> QED BY <1>3, <4>1, <4>2
    <3> QED BY <3>2, <3>3
  <2> QED BY <2>1, <2>2
<1>9. ASSUME NEW w \in VectorClient, vcall'[w].at = "vector"
      PROVE  /\ \A x \in vcall'[w].seen \ torn' : indexed'[x].record = Version(vcall'[w])
             /\ \A u \in VectorClient \ {w} : vcall'[u].at # "idle" => vcall'[w].seen \subseteq vcall'[u].moved
  <2>1. CASE w = v
    BY <1>1, <1>3, <1>6, <1>9, <2>1
  <2>2. CASE w # v
    <3>1. /\ vcall[w].at = "vector" /\ vcall'[w].seen = vcall[w].seen /\ vcall[w].seen \subseteq RecordId
          /\ Version(vcall'[w]) = Version(vcall[w])
      BY <1>2, <1>3, <1>9, <2>2 DEF Version, VectorCalls
    <3>2. \A x \in vcall[w].seen \ torn : indexed[x].record = Version(vcall[w])
      BY <3>1 DEF MemorySound
    <3>3. \A x \in vcall[w].seen \ torn' : x # r /\ x \notin torn
      BY <1>4, <1>7, <2>2, <3>1
    <3>4. \A u \in VectorClient \ {w} : vcall[u].at # "idle" => vcall[w].seen \subseteq vcall[u].moved
      BY <3>1 DEF MemorySound
    <3>5. \A u \in VectorClient \ {w} : vcall'[u].at # "idle" => vcall[w].seen \subseteq vcall'[u].moved
      <4> SUFFICES ASSUME NEW u \in VectorClient \ {w}, vcall'[u].at # "idle"
                   PROVE  vcall[w].seen \subseteq vcall'[u].moved
        OBVIOUS
      <4>1. CASE u = v
        BY <1>1, <2>2, <3>4, <4>1
      <4>2. CASE u # v
        BY <1>3, <3>4, <4>2
      <4> QED BY <4>1, <4>2
    <3> QED BY <1>5, <3>1, <3>2, <3>3, <3>5
  <2> QED BY <2>1, <2>2
<1>10. ASSUME NEW w \in VectorClient, vcall'[w].raised PROVE vcall'[w].moved # {}
  <2>1. w # v
    BY <1>1, <1>10
  <2>2. vcall[w].raised
    BY <1>3, <1>10, <2>1
  <2>3. vcall[w].at # "idle"
    BY <1>2, <2>2 DEF StageSound, Ending
  <2> QED BY <1>3, <2>1, <2>3
<1> HIDE DEF Torn
<1> QED BY <1>8, <1>9, <1>10 DEF MemorySound

LEMMA WriteRecordKeeps ==
  ASSUME VectorInv, NEW v \in VectorClient, WriteRecord(v)
  PROVE  VectorInv'
<1>1. PICK c : /\ c = vcall[v] /\ CallSound(c) /\ c \in VectorCalls /\ c.at = "record" /\ c.conn = 0
               /\ StageSound(c) /\ c.todo \subseteq c.writes /\ ~c.raised /\ c.does \in {"upsert", "delete", "purge"}
  <2>1. vcall[v].at = "record"
    BY DEF WriteRecord
  <2>2. CallSound(vcall[v]) /\ vcall[v] \in VectorCalls /\ StageSound(vcall[v]) /\ vcall[v].conn = 0
    BY <2>1, CallOf, ConnFacts DEF ConnStages
  <2>3. /\ ~vcall[v].raised /\ vcall[v].does \in {"upsert", "delete", "purge"}
        /\ vcall[v].todo \subseteq vcall[v].writes
    BY <2>1, <2>2 DEF StageSound, Ending
  <2> QED BY <2>1, <2>2, <2>3
<1>2. vectorDb.db = "memory" /\ MemorySound
  BY <1>1, CallOf DEF VectorStages, VectorInv
<1>3. UNCHANGED <<vectorDb, conns>>
  BY DEF WriteRecord
<1>4. PICK r \in c.todo : Writes(v, {r}, [indexed[r] EXCEPT !.record = Version(c)],
                                 [c EXCEPT !.at = "vector", !.seen = {r}])
  BY <1>1 DEF WriteRecord
<1>5. PICK rec : rec = [c EXCEPT !.at = "vector", !.seen = {r}]
  OBVIOUS
<1>6. r \in RecordId /\ r \in c.writes
  BY <1>1 DEF VectorCalls
<1>7. /\ rec \in VectorCalls
      /\ rec.does = c.does /\ rec.at = "vector" /\ rec.nth = c.nth /\ rec.todo = c.todo
      /\ rec.writes = c.writes /\ rec.refused = c.refused /\ rec.seen = {r} /\ rec.size = c.size
      /\ rec.hits = c.hits /\ rec.conn = c.conn /\ rec.filter = c.filter /\ rec.room = c.room
      /\ rec.moved = c.moved /\ rec.raised = c.raised
  BY <1>1, <1>5, <1>6 DEF VectorCalls
<1>8. PICK row : /\ row = [indexed[r] EXCEPT !.record = Version(c)] /\ row \in [record : Versions, vector : Versions]
                 /\ row.record = Version(c) /\ Version(rec) = Version(c)
  <2>1. Version(c) \in Versions
    BY <1>1 DEF Version, VectorCalls, Versions
  <2>2. indexed[r] \in [record : Versions, vector : Versions]
    BY <1>6, PresentCounted
  <2>3. Version(rec) = Version(c)
    BY <1>7 DEF Version
  <2>4. PICK a, b : indexed[r] = [record |-> a, vector |-> b] /\ a \in Versions /\ b \in Versions
    BY <2>2
  <2>5. [indexed[r] EXCEPT !.record = Version(c)] = [record |-> Version(c), vector |-> b]
    BY <2>4
  <2> QED BY <2>1, <2>3, <2>4, <2>5
<1>9. Writes(v, {r}, row, rec)
  BY <1>4, <1>5, <1>8
<1>10. indexed'[r] = row /\ \A x \in RecordId \ {r} : indexed'[x] = indexed[x]
  BY <1>6, <1>9 DEF Writes
<1>11. StageSound(rec)'
  BY <1>1, <1>6, <1>7 DEF StageSound, Ending
<1>12. \A x \in DealtWith(rec) \ rec.moved : DoneTo(rec, x)'
  <2> SUFFICES ASSUME NEW x \in DealtWith(rec), x \notin c.moved PROVE DoneTo(rec, x)'
    BY <1>7
  <2>1. x \in DealtWith(c) /\ x \in RecordId /\ x # r
    BY <1>1, <1>4, <1>7 DEF DealtWith, Ending, VectorCalls
  <2>2. DoneTo(c, x)
    BY <1>1, <2>1 DEF CallSound
  <2> QED BY <1>7, <1>10, <2>1, <2>2 DEF DoneTo
<1>13. CallSound(rec)'
  <2>1. \A x \in rec.seen : indexed'[x].record = Version(rec)
    BY <1>7, <1>8, <1>10
  <2> HIDE DEF StageSound, DealtWith, DoneTo
  <2> QED BY <1>2, <1>3, <1>7, <1>11, <1>12, <2>1 DEF CallSound, VectorStages, Ending
<1>14. MemorySound'
  <2>1. row.record = 0 \/ rec.does = "upsert"
    BY <1>1, <1>7, <1>8 DEF Version
  <2> HIDE DEF Version
  <2> QED BY <1>1, <1>2, <1>6, <1>7, <1>8, <1>9, <2>1, MemoryWrites
<1>15. ConnSound'
  BY <1>1, <1>3, <1>7, <1>9, WritersAlike, ConnSame, ConnCounts DEF ConnStages
<1> QED BY <1>3, <1>6, <1>8, <1>9, <1>13, <1>14, <1>15, CallOf, WriteKeeps

LEMMA WriteVectorKeeps ==
  ASSUME VectorInv, NEW v \in VectorClient, WriteVector(v)
  PROVE  VectorInv'
<1>1. PICK c : /\ c = vcall[v] /\ CallSound(c) /\ c \in VectorCalls /\ c.at = "vector" /\ c.conn = 0
               /\ StageSound(c) /\ c.todo \subseteq c.writes /\ ~c.raised /\ c.does \in {"upsert", "delete", "purge"}
               /\ (\E r \in c.todo : c.seen = {r}) /\ c.refused \subseteq c.writes
  <2>1. vcall[v].at = "vector"
    BY DEF WriteVector
  <2>2. CallSound(vcall[v]) /\ vcall[v] \in VectorCalls /\ StageSound(vcall[v]) /\ vcall[v].conn = 0
    BY <2>1, CallOf, ConnFacts DEF ConnStages
  <2>3. /\ ~vcall[v].raised /\ vcall[v].does \in {"upsert", "delete", "purge"}
        /\ vcall[v].todo \subseteq vcall[v].writes /\ \E r \in vcall[v].todo : vcall[v].seen = {r}
        /\ vcall[v].refused \subseteq vcall[v].writes
    BY <2>1, <2>2 DEF StageSound, Ending
  <2> QED BY <2>1, <2>2, <2>3
<1>2. vectorDb.db = "memory" /\ MemorySound
  BY <1>1, CallOf DEF VectorStages, VectorInv
<1>3. UNCHANGED <<vectorDb, conns>>
  BY DEF WriteVector
<1>4. PICK r \in c.seen :
         Writes(v, {r}, [indexed[r] EXCEPT !.vector = Version(c)],
                [c EXCEPT !.todo = @ \ {r}, !.seen = {}, !.at = IF c.todo = {r} THEN "done" ELSE "record"])
  BY <1>1 DEF WriteVector
<1>5. PICK at, rec : /\ at = IF c.todo = {r} THEN "done" ELSE "record"
                     /\ rec = [c EXCEPT !.todo = @ \ {r}, !.seen = {}, !.at = at]
  OBVIOUS
<1>6. r \in RecordId /\ r \in c.writes /\ r \in c.todo /\ c.seen = {r} /\ at \in {"done", "record"}
  BY <1>1, <1>4, <1>5 DEF VectorCalls
<1>7. /\ rec \in VectorCalls
      /\ rec.does = c.does /\ rec.at = at /\ rec.nth = c.nth /\ rec.todo = c.todo \ {r}
      /\ rec.writes = c.writes /\ rec.refused = c.refused /\ rec.seen = {} /\ rec.size = c.size
      /\ rec.hits = c.hits /\ rec.conn = c.conn /\ rec.filter = c.filter /\ rec.room = c.room
      /\ rec.moved = c.moved /\ rec.raised = c.raised
  <2>1. PICK left : left = c.todo \ {r} /\ left \in SUBSET RecordId
    <3>1. c.todo \in SUBSET RecordId
      BY <1>1 DEF VectorCalls
    <3> QED BY <3>1
  <2>2. rec = [c EXCEPT !.todo = left, !.seen = {}, !.at = at]
    BY <1>1, <1>5, <2>1 DEF VectorCalls
  <2> QED BY <1>1, <1>6, <2>1, <2>2 DEF VectorCalls
<1>8. PICK row : /\ row = [indexed[r] EXCEPT !.vector = Version(c)] /\ row \in [record : Versions, vector : Versions]
                 /\ row.record = indexed[r].record /\ row.vector = Version(c)
  <2>1. Version(c) \in Versions
    BY <1>1 DEF Version, VectorCalls, Versions
  <2>2. indexed[r] \in [record : Versions, vector : Versions]
    BY <1>6, PresentCounted
  <2>3. PICK a, b : indexed[r] = [record |-> a, vector |-> b] /\ a \in Versions /\ b \in Versions
    BY <2>2
  <2>4. [indexed[r] EXCEPT !.vector = Version(c)] = [record |-> a, vector |-> Version(c)]
    BY <2>3
  <2> QED BY <2>1, <2>3, <2>4
<1>9. Writes(v, {r}, row, rec)
  BY <1>4, <1>5, <1>8
<1>10. indexed'[r] = row /\ \A x \in RecordId \ {r} : indexed'[x] = indexed[x]
  BY <1>6, <1>9 DEF Writes
<1>11. StageSound(rec)'
  BY <1>1, <1>6, <1>7 DEF StageSound, Ending
<1>12. r \notin c.moved \cup torn => row = [record |-> Version(c), vector |-> Version(c)]
  <2> SUFFICES ASSUME r \notin c.moved PROVE row = [record |-> Version(c), vector |-> Version(c)]
    BY <1>1, <1>2, <1>6, <1>8 DEF MemorySound
  <2>1. indexed[r].record = Version(c)
    BY <1>1, <1>6 DEF CallSound
  <2> QED BY <1>8, <2>1
<1>13. \A x \in DealtWith(rec) \ rec.moved : DoneTo(rec, x)'
  <2> SUFFICES ASSUME NEW x \in DealtWith(rec), x \notin c.moved PROVE DoneTo(rec, x)'
    BY <1>7
  <2>1. CASE x = r
    <3>1. indexed[r].record = Version(c)
      BY <1>1, <1>6, <2>1 DEF CallSound
    <3>2. row = [record |-> Version(c), vector |-> Version(c)]
      BY <1>8, <3>1
    <3> QED BY <1>1, <1>7, <1>10, <2>1, <3>2 DEF DoneTo, Version
  <2>2. CASE x # r
    <3>1. x \in DealtWith(c) /\ x \in RecordId
      BY <1>1, <1>5, <1>6, <1>7, <2>2 DEF DealtWith, Ending, VectorCalls
    <3>2. DoneTo(c, x)
      BY <1>1, <3>1 DEF CallSound
    <3> QED BY <1>7, <1>10, <2>2, <3>1, <3>2 DEF DoneTo
  <2> QED BY <2>1, <2>2
<1>14. CallSound(rec)'
  <2> HIDE DEF StageSound, DealtWith, DoneTo
  <2> QED BY <1>1, <1>2, <1>3, <1>6, <1>7, <1>11, <1>13 DEF CallSound, VectorStages, Ending
<1>15. MemorySound'
  <2>1. row.record = 0 \/ row.vector # 0 \/ r \in torn
    <3>1. c.does = "upsert" => Version(c) # 0
      BY <1>1, <1>7 DEF StageSound, Version
    <3>2. c.does # "upsert" => Version(c) = 0
      BY DEF Version
    <3>3. r \notin torn => indexed[r].record = Version(c)
      BY <1>1, <1>2, <1>6 DEF MemorySound
    <3> HIDE DEF Version
    <3> QED BY <1>8, <3>1, <3>2, <3>3
  <2>2. torn \subseteq torn'
    BY <1>9 DEF Writes
  <2> QED BY <1>1, <1>2, <1>6, <1>7, <1>9, <2>1, <2>2, MemoryWrites
<1>16. ConnSound'
  BY <1>1, <1>3, <1>6, <1>7, <1>9, WritersAlike, ConnSame, ConnCounts DEF ConnStages
<1> QED BY <1>3, <1>6, <1>8, <1>9, <1>14, <1>15, <1>16, CallOf, WriteKeeps

(***************************************************************************)
(* The steps of openGauss.                                                 *)
(***************************************************************************)
LEMMA GetConnectionKeeps ==
  ASSUME VectorInv, NEW v \in VectorClient, GetConnection(v)
  PROVE  VectorInv'
<1>1. PICK c : /\ c = vcall[v] /\ CallSound(c) /\ c \in VectorCalls /\ c.at \in {"pop", "new"} /\ c.conn = 0
               /\ StageSound(c) /\ ~c.raised /\ (c.does = "upsert" => c.todo = c.writes)
  <2>1. vcall[v].at \in {"pop", "new"}
    BY DEF GetConnection
  <2>2. CallSound(vcall[v]) /\ vcall[v] \in VectorCalls /\ StageSound(vcall[v]) /\ vcall[v].conn = 0
    BY <2>1, CallOf, ConnFacts DEF ConnStages
  <2>3. ~vcall[v].raised /\ (vcall[v].does = "upsert" => vcall[v].todo = vcall[v].writes)
    BY <2>1, <2>2 DEF StageSound, Ending
  <2> QED BY <2>1, <2>2, <2>3
<1>2. vectorDb.db = "opengauss"
  BY <1>1, CallOf DEF VectorStages
<1>3. UNCHANGED indexed
  BY DEF GetConnection
<1>4. ASSUME Moves(v, [c EXCEPT !.at = "done", !.raised = TRUE]), UNCHANGED conns, vectorDb' = vectorDb \/ Fault
      PROVE  VectorInv'
  <2>1. PICK rec : rec = [c EXCEPT !.at = "done", !.raised = TRUE]
    OBVIOUS
  <2>2. /\ rec \in VectorCalls
        /\ rec.does = c.does /\ rec.at = "done" /\ rec.nth = c.nth /\ rec.todo = c.todo
        /\ rec.writes = c.writes /\ rec.refused = c.refused /\ rec.seen = c.seen /\ rec.size = c.size
        /\ rec.hits = c.hits /\ rec.conn = c.conn /\ rec.filter = c.filter /\ rec.room = c.room
        /\ rec.moved = c.moved /\ rec.raised = TRUE
    BY <1>1, <2>1 DEF VectorCalls
  <2>3. CallSound(rec)
    <3>1. rec.at \in Ending /\ rec.at \in VectorStages(vectorDb.db)
      BY <2>2 DEF Ending, VectorStages
    <3> QED BY <1>1, <2>2, <3>1, RaisedSound
  <2>4. Moves(v, rec) /\ vectorDb' \in VectorDbs /\ vectorDb'.db = vectorDb.db /\ vectorDb'.calls = vectorDb.calls
    BY <1>4, <2>1, FaultTaken
  <2>5. rec.conn = 0 /\ rec.at \notin ConnStages \cup {"pop", "new"} /\ c.at # "idle"
    BY <1>1, <2>2 DEF ConnStages
  <2> QED BY <1>1, <1>2, <1>3, <1>4, <2>2, <2>3, <2>4, <2>5, MoveAlone
<1>5. ASSUME NEW k \in Conns, Moves(v, [c EXCEPT !.conn = k, !.at = "execute"]), ConnSound', UNCHANGED vectorDb
      PROVE  VectorInv'
  <2>1. PICK rec : rec = [c EXCEPT !.conn = k, !.at = "execute"]
    OBVIOUS
  <2>2. k \in Versions
    BY DEF Conns
  <2>3. /\ rec \in VectorCalls
        /\ rec.does = c.does /\ rec.at = "execute" /\ rec.nth = c.nth /\ rec.todo = c.todo
        /\ rec.writes = c.writes /\ rec.refused = c.refused /\ rec.seen = c.seen /\ rec.size = c.size
        /\ rec.hits = c.hits /\ rec.conn = k /\ rec.filter = c.filter /\ rec.room = c.room
        /\ rec.moved = c.moved /\ rec.raised = c.raised
    BY <1>1, <2>1, <2>2 DEF VectorCalls
  <2>4. StageSound(rec)
    BY <1>1, <2>3 DEF StageSound, Ending
  <2>5. DealtWith(rec) = {}
    BY <1>1, <2>3 DEF DealtWith, Ending
  <2>6. CallSound(rec)
    <3> HIDE DEF StageSound, DealtWith
    <3> QED BY <1>2, <2>3, <2>4, <2>5 DEF CallSound, VectorStages, Ending
  <2>7. Moves(v, rec) /\ vectorDb' \in VectorDbs /\ vectorDb'.db = vectorDb.db
    BY <1>5, <2>1, CallOf
  <2> QED BY <1>1, <1>2, <1>3, <1>5, <2>3, <2>6, <2>7, MoveOn
<1>6. ASSUME c.at = "pop", Moves(v, [c EXCEPT !.at = "new"]), ConnSound', Fault
      PROVE  VectorInv'
  <2>1. PICK rec : rec = [c EXCEPT !.at = "new"]
    OBVIOUS
  <2>2. /\ rec \in VectorCalls
        /\ rec.does = c.does /\ rec.at = "new" /\ rec.nth = c.nth /\ rec.todo = c.todo
        /\ rec.writes = c.writes /\ rec.refused = c.refused /\ rec.seen = c.seen /\ rec.size = c.size
        /\ rec.hits = c.hits /\ rec.conn = c.conn /\ rec.filter = c.filter /\ rec.room = c.room
        /\ rec.moved = c.moved /\ rec.raised = c.raised
    BY <1>1, <2>1 DEF VectorCalls
  <2>3. StageSound(rec)
    BY <1>1, <2>2 DEF StageSound, Ending
  <2>4. DealtWith(rec) = {}
    BY <1>1, <2>2 DEF DealtWith, Ending
  <2>5. CallSound(rec)
    <3> HIDE DEF StageSound, DealtWith
    <3> QED BY <1>2, <2>2, <2>3, <2>4 DEF CallSound, VectorStages, Ending
  <2>6. Moves(v, rec) /\ vectorDb' \in VectorDbs /\ vectorDb'.db = vectorDb.db
    BY <1>6, <2>1, FaultTaken
  <2> QED BY <1>1, <1>2, <1>3, <1>6, <2>2, <2>5, <2>6, MoveOn
<1>7. ASSUME c.at = "pop", conns.pool # <<>>,
             NEW k, k = conns.pool[Len(conns.pool)], NEW rest, rest = SubSeq(conns.pool, 1, Len(conns.pool) - 1),
             conns' = [conns EXCEPT !.pool = rest], UNCHANGED vectorDb, Moves(v, [c EXCEPT !.conn = k, !.at = "execute"])
      PROVE  VectorInv'
  <2>1. PICK rec : rec = [c EXCEPT !.conn = k, !.at = "execute"] /\ rec.conn = k /\ rec.at = "execute"
    <3>1. PICK rec : rec = [c EXCEPT !.conn = k, !.at = "execute"]
      OBVIOUS
    <3>2. rec.conn = k /\ rec.at = "execute"
      BY <1>1, <3>1 DEF VectorCalls
    <3> QED BY <3>1, <3>2
  <2>2. OthersAlike(v) /\ vcall'[v] = rec
    BY <1>7, <2>1, OnesAlike
  <2>3. conns'.pool = rest /\ k \in Conns
    <3>1. Len(conns.pool) \in 1..Len(conns.pool) /\ conns \in [pool : Seq(Conns), state : [Conns -> {"unused", "clean", "dirty", "closed"}]]
      BY <1>7, ConnCounts, ConnFacts
    <3> QED BY <1>7, <3>1, ConnFacts
  <2>4. ConnSound'
    BY <1>1, <1>7, <2>1, <2>2, <2>3, ConnTaken
  <2> QED BY <1>5, <1>7, <2>3, <2>4
<1>8. ASSUME c.at = "pop", conns.pool # <<>>, Fault,
             NEW k, k = conns.pool[Len(conns.pool)], NEW rest, rest = SubSeq(conns.pool, 1, Len(conns.pool) - 1),
             conns' = [conns EXCEPT !.pool = rest, !.state[k] = "unused"], Moves(v, [c EXCEPT !.at = "new"])
      PROVE  VectorInv'
  <2>1. PICK rec : rec = [c EXCEPT !.at = "new"] /\ rec.conn = 0 /\ rec.at = "new"
    <3>1. PICK rec : rec = [c EXCEPT !.at = "new"]
      OBVIOUS
    <3>2. rec.conn = c.conn /\ rec.at = "new"
      BY <1>1, <3>1 DEF VectorCalls
    <3> QED BY <1>1, <3>1, <3>2
  <2>2. OthersAlike(v) /\ vcall'[v] = rec
    BY <1>8, <2>1, OnesAlike
  <2>3. conns'.pool = rest
    BY <1>8, ConnFacts
  <2>4. ConnSound'
    BY <1>1, <1>8, <2>1, <2>2, <2>3, ConnTaken, FaultTaken
  <2> QED BY <1>6, <1>8, <2>4
<1>9. ASSUME c.at = "new", UNCHANGED vectorDb,
             NEW k, k = CHOOSE i \in Conns : conns.state[i] = "unused" /\ \A j \in 1..i - 1 : conns.state[j] # "unused",
             conns' = [conns EXCEPT !.state[k] = "clean"], Moves(v, [c EXCEPT !.conn = k, !.at = "execute"])
      PROVE  VectorInv'
  <2>1. PICK rec : rec = [c EXCEPT !.conn = k, !.at = "execute"] /\ rec.conn = k /\ rec.at = "execute"
    <3>1. PICK rec : rec = [c EXCEPT !.conn = k, !.at = "execute"]
      OBVIOUS
    <3>2. rec.conn = k /\ rec.at = "execute"
      BY <1>1, <3>1 DEF VectorCalls
    <3> QED BY <3>1, <3>2
  <2>2. OthersAlike(v) /\ vcall'[v] = rec
    BY <1>9, <2>1, OnesAlike
  <2>3. ConnSound'
    BY <1>1, <1>9, <2>1, <2>2, ConnOpened
  <2>4. k \in Conns
    <3>1. IF vcall'[v].at \in {"execute", "commit", "return", "room"}
          THEN /\ vcall'[v].conn \in Conns /\ conns'.state[vcall'[v].conn] # "unused"
               /\ vcall'[v].at = "room" => conns'.state[vcall'[v].conn] = "clean"
          ELSE vcall'[v].conn = 0
      BY <2>3 DEF ConnSound
    <3> QED BY <2>1, <2>2, <3>1
  <2> QED BY <1>5, <1>9, <2>3, <2>4
<1>10. CASE c.at = "pop"
  <2>1. CASE Moves(v, [c EXCEPT !.at = "done", !.raised = TRUE]) /\ UNCHANGED <<vectorDb, conns>>
    BY <1>4, <2>1
  <2>2. CASE ~ (Moves(v, [c EXCEPT !.at = "done", !.raised = TRUE]) /\ UNCHANGED <<vectorDb, conns>>)
    <3> USE <1>1, <1>10, <2>2
    <3>1. conns.pool # <<>>
      BY DEF GetConnection
    <3>2. PICK k, rest : k = conns.pool[Len(conns.pool)] /\ rest = SubSeq(conns.pool, 1, Len(conns.pool) - 1)
      OBVIOUS
    <3>3. \/ /\ conns' = [conns EXCEPT !.pool = rest] /\ UNCHANGED vectorDb
             /\ Moves(v, [c EXCEPT !.conn = k, !.at = "execute"])
          \/ /\ Fault /\ conns' = [conns EXCEPT !.pool = rest, !.state[k] = "unused"]
             /\ Moves(v, [c EXCEPT !.at = "new"])
      BY <3>2 DEF GetConnection
    <3>4. CASE /\ conns' = [conns EXCEPT !.pool = rest] /\ UNCHANGED vectorDb
               /\ Moves(v, [c EXCEPT !.conn = k, !.at = "execute"])
      BY <1>7, <3>1, <3>2, <3>4
    <3>5. CASE /\ Fault /\ conns' = [conns EXCEPT !.pool = rest, !.state[k] = "unused"]
               /\ Moves(v, [c EXCEPT !.at = "new"])
      BY <1>8, <3>1, <3>2, <3>5
    <3> QED BY <3>3, <3>4, <3>5
  <2> QED BY <2>1, <2>2
<1>11. CASE c.at = "new"
  <2>1. \/ Moves(v, [c EXCEPT !.at = "done", !.raised = TRUE]) /\ Fault /\ UNCHANGED conns
        \/ LET k == CHOOSE i \in Conns : conns.state[i] = "unused" /\ \A j \in 1..i - 1 : conns.state[j] # "unused" IN
           /\ conns' = [conns EXCEPT !.state[k] = "clean"] /\ UNCHANGED vectorDb
           /\ Moves(v, [c EXCEPT !.conn = k, !.at = "execute"])
    BY <1>1, <1>11 DEF GetConnection, SetConn
  <2> QED BY <1>4, <1>9, <1>11, <2>1
<1> QED BY <1>1, <1>10, <1>11

LEMMA MoveConn ==
  ASSUME VectorInv, NEW v \in VectorClient, NEW c, c = vcall[v], c.at \in ConnStages, NEW rec, Moves(v, rec),
         UNCHANGED indexed, NEW held \in {"clean", "dirty", "closed"},
         conns' = [conns EXCEPT !.state[c.conn] = held], vectorDb' = vectorDb \/ Fault, CallSound(rec),
         rec.moved = c.moved, rec.conn = c.conn, rec.at \in ConnStages, vectorDb.db = "opengauss",
         rec.at = "room" => held = "clean" /\ (rec.room => Len(conns.pool) < PoolSize)
  PROVE  VectorInv'
<1>1. OthersAlike(v) /\ vcall'[v] = rec
  BY OnesAlike
<1>2. vectorDb' \in VectorDbs /\ vectorDb'.db = vectorDb.db /\ vectorDb'.calls = vectorDb.calls
  BY FaultTaken
<1>3. ConnSound'
  BY <1>1, <1>2, ConnSet
<1>4. c.at # "idle"
  BY DEF ConnStages
<1> QED BY <1>2, <1>3, <1>4, MoveOn

\* What is known of a call that has a connection.
LEMMA ConnCall ==
  ASSUME VectorInv, NEW v \in VectorClient, vcall[v].at \in ConnStages
  PROVE  \E c : /\ c = vcall[v] /\ CallSound(c) /\ c \in VectorCalls /\ StageSound(c)
                /\ c.conn \in Conns /\ c.refused \subseteq c.writes /\ c.writes \subseteq RecordId
                /\ c.todo \subseteq RecordId /\ c.seen \subseteq RecordId
                /\ (c.does = "upsert" => c.todo \subseteq c.writes)
                /\ (c.does # "upsert" => c.refused = {})
                /\ (c.does = "search" => c.writes = {})
                /\ (c.at \in {"execute", "commit"} => ~c.raised)
                /\ c.nth > 0 /\ c.does # "none" /\ vectorDb.db = "opengauss"
<1>1. CallSound(vcall[v]) /\ vcall[v] \in VectorCalls /\ StageSound(vcall[v]) /\ vcall[v].conn \in Conns
  BY CallOf, ConnFacts
<1>2. /\ vcall[v].writes \subseteq RecordId /\ vcall[v].todo \subseteq RecordId /\ vcall[v].seen \subseteq RecordId
      /\ vcall[v].does \in {"none", "upsert", "delete", "search", "purge"}
  BY <1>1 DEF VectorCalls
<1>3. /\ vcall[v].refused \subseteq vcall[v].writes
      /\ (vcall[v].does = "upsert" => vcall[v].todo \subseteq vcall[v].writes)
      /\ (vcall[v].does # "upsert" => vcall[v].refused = {})
      /\ (vcall[v].does = "search" => vcall[v].writes = {})
      /\ (vcall[v].at \in {"execute", "commit"} => ~vcall[v].raised)
      /\ vcall[v].nth > 0 /\ vcall[v].does # "none"
  BY <1>1 DEF StageSound, Ending, ConnStages
<1>4. vectorDb.db = "opengauss"
  BY CallOf DEF VectorStages, ConnStages
<1> QED BY <1>1, <1>2, <1>3, <1>4

LEMMA ExecuteUpsertKeeps ==
  ASSUME VectorInv, NEW v \in VectorClient, ExecuteUpsert(v)
  PROVE  VectorInv'
<1>1. vcall[v].at = "execute" /\ vcall[v].does = "upsert" /\ vcall[v].at \in ConnStages
  BY DEF ExecuteUpsert, ConnStages
<1>2. PICK c : /\ c = vcall[v] /\ CallSound(c) /\ c \in VectorCalls /\ StageSound(c)
               /\ c.conn \in Conns /\ c.refused \subseteq c.writes /\ c.writes \subseteq RecordId
               /\ c.todo \subseteq RecordId /\ c.seen \subseteq RecordId
               /\ (c.does = "upsert" => c.todo \subseteq c.writes)
               /\ (c.does # "upsert" => c.refused = {})
               /\ (c.does = "search" => c.writes = {})
               /\ (c.at \in {"execute", "commit"} => ~c.raised)
               /\ c.nth > 0 /\ c.does # "none" /\ vectorDb.db = "opengauss"
  BY <1>1, ConnCall
<1>3. PICK r \in c.todo : Moves(v, [c EXCEPT !.seen = {r}, !.at = "commit"])
  BY <1>2 DEF ExecuteUpsert
<1>4. PICK rec : rec = [c EXCEPT !.seen = {r}, !.at = "commit"]
  OBVIOUS
<1>5. r \in RecordId
  BY <1>2
<1>6. /\ rec \in VectorCalls
      /\ rec.does = c.does /\ rec.at = "commit" /\ rec.nth = c.nth /\ rec.todo = c.todo
      /\ rec.writes = c.writes /\ rec.refused = c.refused /\ rec.seen = {r} /\ rec.size = c.size
      /\ rec.hits = c.hits /\ rec.conn = c.conn /\ rec.filter = c.filter /\ rec.room = c.room
      /\ rec.moved = c.moved /\ rec.raised = c.raised
  BY <1>2, <1>4, <1>5 DEF VectorCalls
<1>7. StageSound(rec)
  BY <1>1, <1>2, <1>6 DEF StageSound, Ending
<1>8. DealtWith(rec) = DealtWith(c)
  BY <1>1, <1>2, <1>6 DEF DealtWith, Ending
<1>9. \A x \in DealtWith(rec) \ rec.moved : DoneTo(rec, x)
  <2>1. \A x \in DealtWith(c) \ c.moved : DoneTo(c, x)
    BY <1>2 DEF CallSound
  <2>2. \A x : DoneTo(rec, x) <=> DoneTo(c, x)
    BY <1>6 DEF DoneTo
  <2> HIDE DEF DoneTo, DealtWith
  <2> QED BY <1>6, <1>8, <2>1, <2>2
<1>10. CallSound(rec)
  <2> HIDE DEF StageSound, DealtWith, DoneTo
  <2> QED BY <1>1, <1>2, <1>6, <1>7, <1>9 DEF CallSound, VectorStages, Ending
<1>11. conns' = [conns EXCEPT !.state[c.conn] = "dirty"] /\ UNCHANGED <<vectorDb, indexed>>
  BY <1>2 DEF ExecuteUpsert, SetConn
<1>12. rec.at \in ConnStages /\ rec.at # "room"
  BY <1>6 DEF ConnStages
<1> QED BY <1>1, <1>2, <1>3, <1>4, <1>6, <1>10, <1>11, <1>12, MoveConn

LEMMA ExecuteDeleteKeeps ==
  ASSUME VectorInv, NEW v \in VectorClient, ExecuteDelete(v)
  PROVE  VectorInv'
<1>1. vcall[v].at = "execute" /\ vcall[v].does \in {"delete", "purge"} /\ vcall[v].at \in ConnStages
  BY DEF ExecuteDelete, ConnStages
<1>2. PICK c : /\ c = vcall[v] /\ CallSound(c) /\ c \in VectorCalls /\ StageSound(c)
               /\ c.conn \in Conns /\ c.refused \subseteq c.writes /\ c.writes \subseteq RecordId
               /\ c.todo \subseteq RecordId /\ c.seen \subseteq RecordId
               /\ (c.does = "upsert" => c.todo \subseteq c.writes)
               /\ (c.does # "upsert" => c.refused = {})
               /\ (c.does = "search" => c.writes = {})
               /\ (c.at \in {"execute", "commit"} => ~c.raised)
               /\ c.nth > 0 /\ c.does # "none" /\ vectorDb.db = "opengauss"
  BY <1>1, ConnCall
<1>3. PICK gone, rec : /\ gone = c.writes \cap Present
                       /\ rec = [c EXCEPT !.seen = gone, !.at = "commit"]
  OBVIOUS
<1>4. gone \subseteq RecordId
  BY <1>2, <1>3
<1>5. Moves(v, rec)
  BY <1>2, <1>3 DEF ExecuteDelete
<1>6. /\ rec \in VectorCalls
      /\ rec.does = c.does /\ rec.at = "commit" /\ rec.nth = c.nth /\ rec.todo = c.todo
      /\ rec.writes = c.writes /\ rec.refused = c.refused /\ rec.seen = gone /\ rec.size = c.size
      /\ rec.hits = c.hits /\ rec.conn = c.conn /\ rec.filter = c.filter /\ rec.room = c.room
      /\ rec.moved = c.moved /\ rec.raised = c.raised
  BY <1>2, <1>3, <1>4 DEF VectorCalls
<1>7. StageSound(rec)
  BY <1>1, <1>2, <1>3, <1>6 DEF StageSound, Ending
<1>8. \A x \in DealtWith(rec) \ rec.moved : DoneTo(rec, x)
  <2> SUFFICES ASSUME NEW x \in DealtWith(rec) PROVE DoneTo(rec, x)
    OBVIOUS
  <2>1. x \in c.writes /\ x \notin gone
    BY <1>1, <1>2, <1>6 DEF DealtWith, Ending
  <2>2. x \in RecordId /\ x \notin Present
    BY <1>2, <1>3, <2>1
  <2> QED BY <1>1, <1>2, <1>6, <2>2, PresentCounted DEF DoneTo
<1>9. CallSound(rec)
  <2> HIDE DEF StageSound, DealtWith, DoneTo
  <2> QED BY <1>1, <1>2, <1>6, <1>7, <1>8 DEF CallSound, VectorStages, Ending
<1>10. conns' = [conns EXCEPT !.state[c.conn] = "dirty"] /\ UNCHANGED <<vectorDb, indexed>>
  BY <1>2 DEF ExecuteDelete, SetConn
<1>11. rec.at \in ConnStages /\ rec.at # "room"
  BY <1>6 DEF ConnStages
<1> QED BY <1>1, <1>2, <1>5, <1>6, <1>9, <1>10, <1>11, MoveConn

\* A query told everything at once.
LEMMA QueryTold ==
  ASSUME VectorInv, NEW c \in VectorCalls, c.hits = BestHits({r \in Present : FilterMatches(r, c.filter)})
  PROVE  HitsTold(c)
<1>1. PICK H : H = {r \in Present : FilterMatches(r, c.filter)} /\ H \in SUBSET RecordId
  BY PresentCounted
<1>2. BestHits(H) \subseteq H
  BY DEF BestHits
<1> SUFFICES ASSUME NEW r \in RecordId, r \notin c.moved
             PROVE  /\ r \in BestHits(H) => r \in Present /\ FilterMatches(r, c.filter)
                    /\ r \notin BestHits(H) /\ r \in Present /\ FilterMatches(r, c.filter) =>
                         Cardinality({h \in BestHits(H) : Facts[h].score >= Facts[r].score}) >= VectorTopK
  BY <1>1 DEF HitsTold
<1> QED BY <1>1, <1>2, BestTold

LEMMA ExecuteSearchKeeps ==
  ASSUME VectorInv, NEW v \in VectorClient, ExecuteSearch(v)
  PROVE  VectorInv'
<1>1. vcall[v].at = "execute" /\ vcall[v].does = "search" /\ vcall[v].at \in ConnStages
  BY DEF ExecuteSearch, ConnStages
<1>2. PICK c : /\ c = vcall[v] /\ CallSound(c) /\ c \in VectorCalls /\ StageSound(c)
               /\ c.conn \in Conns /\ c.refused \subseteq c.writes /\ c.writes \subseteq RecordId
               /\ c.todo \subseteq RecordId /\ c.seen \subseteq RecordId
               /\ (c.does = "upsert" => c.todo \subseteq c.writes)
               /\ (c.does # "upsert" => c.refused = {})
               /\ (c.does = "search" => c.writes = {})
               /\ (c.at \in {"execute", "commit"} => ~c.raised)
               /\ c.nth > 0 /\ c.does # "none" /\ vectorDb.db = "opengauss"
  BY <1>1, ConnCall
<1>3. PICK hits, rec : /\ hits = BestHits({r \in Present : FilterMatches(r, c.filter)})
                       /\ rec = [c EXCEPT !.at = "return", !.hits = hits]
  OBVIOUS
<1>4. hits \subseteq RecordId
  BY <1>3, PresentCounted DEF BestHits
<1>5. Moves(v, rec)
  BY <1>2, <1>3 DEF ExecuteSearch
<1>6. /\ rec \in VectorCalls
      /\ rec.does = c.does /\ rec.at = "return" /\ rec.nth = c.nth /\ rec.todo = c.todo
      /\ rec.writes = c.writes /\ rec.refused = c.refused /\ rec.seen = c.seen /\ rec.size = c.size
      /\ rec.hits = hits /\ rec.conn = c.conn /\ rec.filter = c.filter /\ rec.room = c.room
      /\ rec.moved = c.moved /\ rec.raised = c.raised
  BY <1>2, <1>3, <1>4 DEF VectorCalls
<1>7. StageSound(rec)
  BY <1>1, <1>2, <1>6 DEF StageSound, Ending
<1>8. DealtWith(rec) = {} /\ HitsTold(rec)
  <2>1. DealtWith(rec) = {}
    BY <1>1, <1>2, <1>6 DEF DealtWith, Ending
  <2>2. rec.hits = BestHits({r \in Present : FilterMatches(r, rec.filter)})
    BY <1>3, <1>6
  <2> QED BY <1>6, <2>1, <2>2, QueryTold
<1>9. CallSound(rec)
  <2> HIDE DEF StageSound, DealtWith, HitsTold
  <2> QED BY <1>1, <1>2, <1>6, <1>7, <1>8 DEF CallSound, VectorStages, Ending
<1>10. conns' = [conns EXCEPT !.state[c.conn] = "dirty"] /\ UNCHANGED <<vectorDb, indexed>>
  BY <1>2 DEF ExecuteSearch, SetConn
<1>11. rec.at \in ConnStages /\ rec.at # "room"
  BY <1>6 DEF ConnStages
<1> QED BY <1>1, <1>2, <1>5, <1>6, <1>9, <1>10, <1>11, MoveConn

LEMMA NextRecordIs ==
  ASSUME NEW c \in VectorCalls, NEW rest \in SUBSET RecordId, NEW at,
         at = IF c.does = "upsert" /\ rest # {} THEN "execute" ELSE "return",
         NEW next, next = NextRecord(c, rest)
  PROVE  /\ next \in VectorCalls
         /\ next.does = c.does /\ next.at = at /\ next.nth = c.nth /\ next.todo = rest
         /\ next.writes = c.writes /\ next.refused = c.refused /\ next.seen = {} /\ next.size = c.size
         /\ next.hits = c.hits /\ next.conn = c.conn /\ next.filter = c.filter /\ next.room = c.room
         /\ next.moved = c.moved /\ next.raised = c.raised
<1>1. next = [c EXCEPT !.todo = rest, !.seen = {}, !.at = at]
  BY DEF NextRecord
<1>2. at \in {"execute", "return"}
  OBVIOUS
<1> QED BY <1>1, <1>2 DEF VectorCalls

LEMMA StatementFailsKeeps ==
  ASSUME VectorInv, NEW v \in VectorClient, StatementFails(v)
  PROVE  VectorInv'
<1>1. vcall[v].at \in {"execute", "commit"} /\ vcall[v].at \in ConnStages /\ UNCHANGED indexed
  BY DEF StatementFails, ConnStages
<1>2. PICK c : /\ c = vcall[v] /\ CallSound(c) /\ c \in VectorCalls /\ StageSound(c)
               /\ c.conn \in Conns /\ c.refused \subseteq c.writes /\ c.writes \subseteq RecordId
               /\ c.todo \subseteq RecordId /\ c.seen \subseteq RecordId
               /\ (c.does = "upsert" => c.todo \subseteq c.writes)
               /\ (c.does # "upsert" => c.refused = {})
               /\ (c.does = "search" => c.writes = {})
               /\ (c.at \in {"execute", "commit"} => ~c.raised)
               /\ c.nth > 0 /\ c.does # "none" /\ vectorDb.db = "opengauss"
  BY <1>1, ConnCall
<1>3. ASSUME NEW r \in IF c.at = "commit" THEN c.seen ELSE c.todo, c.does = "upsert", FaultOf(c.conn, "clean"),
             Moves(v, [NextRecord(c, c.todo \ {r}) EXCEPT !.refused = @ \cup {r}])
      PROVE  VectorInv'
  <2>1. PICK rest, at, rec :
           /\ rest = c.todo \ {r} /\ at = IF c.does = "upsert" /\ rest # {} THEN "execute" ELSE "return"
           /\ rec = [NextRecord(c, rest) EXCEPT !.refused = @ \cup {r}]
    OBVIOUS
  <2>2. r \in c.todo
    BY <1>1, <1>2, <1>3 DEF StageSound
  <2>3. rest \subseteq RecordId /\ r \in RecordId /\ r \in c.writes /\ at \in {"execute", "return"}
    BY <1>2, <1>3, <2>1, <2>2
  <2>4. /\ rec \in VectorCalls
        /\ rec.does = c.does /\ rec.at = at /\ rec.nth = c.nth /\ rec.todo = rest
        /\ rec.writes = c.writes /\ rec.refused = c.refused \cup {r} /\ rec.seen = {}
        /\ rec.size = c.size /\ rec.hits = c.hits /\ rec.conn = c.conn /\ rec.filter = c.filter
        /\ rec.room = c.room /\ rec.moved = c.moved /\ rec.raised = c.raised
    <3>1. PICK next : next = NextRecord(c, rest)
      OBVIOUS
    <3>2. /\ next \in VectorCalls
          /\ next.does = c.does /\ next.at = at /\ next.nth = c.nth /\ next.todo = rest
          /\ next.writes = c.writes /\ next.refused = c.refused /\ next.seen = {} /\ next.size = c.size
          /\ next.hits = c.hits /\ next.conn = c.conn /\ next.filter = c.filter /\ next.room = c.room
          /\ next.moved = c.moved /\ next.raised = c.raised
      <4>1. rest \in SUBSET RecordId /\ at = IF c.does = "upsert" /\ rest # {} THEN "execute" ELSE "return"
        BY <2>1, <2>3
      <4> QED BY <1>2, <3>1, <4>1, NextRecordIs
    <3>3. rec = [next EXCEPT !.refused = @ \cup {r}]
      BY <2>1, <3>1
    <3> QED BY <2>3, <3>2, <3>3 DEF VectorCalls
  <2>5. StageSound(rec)
    BY <1>1, <1>2, <1>3, <2>1, <2>3, <2>4 DEF StageSound, Ending
  <2>6. DealtWith(rec) \subseteq DealtWith(c)
    BY <1>1, <1>2, <1>3, <2>1, <2>4 DEF DealtWith, Ending
  <2>7. \A x \in DealtWith(rec) \ rec.moved : DoneTo(rec, x)
    <3>1. \A x \in DealtWith(c) \ c.moved : DoneTo(c, x)
      BY <1>2 DEF CallSound
    <3>2. \A x : DoneTo(rec, x) <=> DoneTo(c, x)
      BY <2>4 DEF DoneTo
    <3> HIDE DEF DoneTo, DealtWith
    <3> QED BY <2>4, <2>6, <3>1, <3>2
  <2>8. CallSound(rec)
    <3> HIDE DEF StageSound, DealtWith, DoneTo
    <3> QED BY <1>2, <1>3, <2>3, <2>4, <2>5, <2>7 DEF CallSound, VectorStages, Ending
  <2>9. rec.at \in ConnStages /\ rec.at # "room"
    BY <2>3, <2>4 DEF ConnStages
  <2>10. conns' = [conns EXCEPT !.state[c.conn] = "clean"] /\ Fault /\ Moves(v, rec)
    BY <1>3, <2>1 DEF FaultOf
  <2> QED BY <1>1, <1>2, <2>4, <2>8, <2>9, <2>10, MoveConn
<1>4. ASSUME NEW held \in {"dirty", "closed"}, FaultOf(c.conn, held),
             Moves(v, [c EXCEPT !.seen = {}, !.at = "return", !.raised = TRUE])
      PROVE  VectorInv'
  <2>1. PICK rec : rec = [c EXCEPT !.seen = {}, !.at = "return", !.raised = TRUE]
    OBVIOUS
  <2>2. /\ rec \in VectorCalls
        /\ rec.does = c.does /\ rec.at = "return" /\ rec.nth = c.nth /\ rec.todo = c.todo
        /\ rec.writes = c.writes /\ rec.refused = c.refused /\ rec.seen = {} /\ rec.size = c.size
        /\ rec.hits = c.hits /\ rec.conn = c.conn /\ rec.filter = c.filter /\ rec.room = c.room
        /\ rec.moved = c.moved /\ rec.raised = TRUE
    BY <1>2, <2>1 DEF VectorCalls
  <2>3. CallSound(rec)
    <3>1. rec.at \in Ending /\ rec.at \in VectorStages(vectorDb.db) /\ c.at # "idle"
      BY <1>1, <1>2, <2>2 DEF Ending, VectorStages
    <3> QED BY <1>2, <2>2, <3>1, RaisedSound
  <2>4. rec.at \in ConnStages /\ rec.at # "room"
    BY <2>2 DEF ConnStages
  <2>5. conns' = [conns EXCEPT !.state[c.conn] = held] /\ Fault /\ Moves(v, rec)
    BY <1>4, <2>1 DEF FaultOf
  <2> QED BY <1>1, <1>2, <2>2, <2>3, <2>4, <2>5, MoveConn
<1>5. \/ /\ c.does = "upsert"
         /\ \E r \in IF c.at = "commit" THEN c.seen ELSE c.todo :
               /\ FaultOf(c.conn, "clean")
               /\ Moves(v, [NextRecord(c, c.todo \ {r}) EXCEPT !.refused = @ \cup {r}])
      \/ \E held \in {"dirty", "closed"} :
            FaultOf(c.conn, held) /\ Moves(v, [c EXCEPT !.seen = {}, !.at = "return", !.raised = TRUE])
  BY <1>2 DEF StatementFails
<1> HIDE DEF StageSound
<1> QED BY <1>3, <1>4, <1>5

LEMMA VersionIs ==
  ASSUME NEW c \in VectorCalls
  PROVE  Version(c) \in Versions /\ [record |-> Version(c), vector |-> Version(c)] \in [record : Versions, vector : Versions]
<1>1. c.nth \in Versions /\ 0 \in Versions
  BY VectorConstants DEF VectorCalls
<1> QED BY <1>1 DEF Version

Left(c, at, conn, room) == [c EXCEPT !.at = at, !.conn = conn, !.room = room]
CountedAt(c, size, at) == [c EXCEPT !.size = size, !.at = at]

LEMMA LeftWith ==
  ASSUME NEW c \in VectorCalls, NEW at \in {"room", "done"}, NEW conn \in Versions, NEW room \in BOOLEAN,
         NEW rec, rec = Left(c, at, conn, room)
  PROVE  /\ rec \in VectorCalls
         /\ rec.does = c.does /\ rec.at = at /\ rec.nth = c.nth /\ rec.todo = c.todo
         /\ rec.writes = c.writes /\ rec.refused = c.refused /\ rec.seen = c.seen /\ rec.size = c.size
         /\ rec.hits = c.hits /\ rec.conn = conn /\ rec.filter = c.filter /\ rec.room = room
         /\ rec.moved = c.moved /\ rec.raised = c.raised
  BY DEF VectorCalls, Left

LEMMA Counted ==
  ASSUME NEW c \in VectorCalls, NEW at \in {"query", "done"}, NEW size \in Nat,
         NEW rec, rec = CountedAt(c, size, at)
  PROVE  /\ rec \in VectorCalls
         /\ rec.does = c.does /\ rec.at = at /\ rec.nth = c.nth /\ rec.todo = c.todo
         /\ rec.writes = c.writes /\ rec.refused = c.refused /\ rec.seen = c.seen /\ rec.size = size
         /\ rec.hits = c.hits /\ rec.conn = c.conn /\ rec.filter = c.filter /\ rec.room = c.room
         /\ rec.moved = c.moved /\ rec.raised = c.raised
  BY DEF VectorCalls, CountedAt

LEMMA CommitRowsKeeps ==
  ASSUME VectorInv, NEW v \in VectorClient, CommitRows(v)
  PROVE  VectorInv'
<1>1. vcall[v].at = "commit" /\ vcall[v].at \in ConnStages /\ UNCHANGED vectorDb
  BY DEF CommitRows, ConnStages, SetConn
<1>2. PICK c : /\ c = vcall[v] /\ CallSound(c) /\ c \in VectorCalls /\ StageSound(c)
               /\ c.conn \in Conns /\ c.refused \subseteq c.writes /\ c.writes \subseteq RecordId
               /\ c.todo \subseteq RecordId /\ c.seen \subseteq RecordId
               /\ (c.does = "upsert" => c.todo \subseteq c.writes)
               /\ (c.does # "upsert" => c.refused = {})
               /\ (c.does = "search" => c.writes = {})
               /\ (c.at \in {"execute", "commit"} => ~c.raised)
               /\ c.nth > 0 /\ c.does # "none" /\ vectorDb.db = "opengauss"
  BY <1>1, ConnCall
<1>3. PICK rest, at, rec, written :
         /\ written = c.seen /\ rest = c.todo \ c.seen /\ rec = NextRecord(c, rest)
         /\ at = IF c.does = "upsert" /\ rest # {} THEN "execute" ELSE "return"
  OBVIOUS
<1>4. /\ c.does \in {"upsert", "delete", "purge"}
      /\ c.does = "upsert" => \E r \in c.todo : c.seen = {r}
      /\ c.does # "upsert" => c.seen \subseteq c.writes
  BY <1>1, <1>2 DEF StageSound
<1>5. /\ rest \in SUBSET RecordId /\ written \in SUBSET RecordId /\ written \subseteq c.writes
      /\ at \in {"execute", "return"}
  BY <1>2, <1>3, <1>4
<1>6. /\ rec \in VectorCalls
      /\ rec.does = c.does /\ rec.at = at /\ rec.nth = c.nth /\ rec.todo = rest
      /\ rec.writes = c.writes /\ rec.refused = c.refused /\ rec.seen = {} /\ rec.size = c.size
      /\ rec.hits = c.hits /\ rec.conn = c.conn /\ rec.filter = c.filter /\ rec.room = c.room
      /\ rec.moved = c.moved /\ rec.raised = c.raised
  <2>1. rec = NextRecord(c, rest) /\ at = IF c.does = "upsert" /\ rest # {} THEN "execute" ELSE "return"
    BY <1>3
  <2>2. c \in VectorCalls
    BY <1>2
  <2> QED BY <1>5, <2>1, <2>2, NextRecordIs
<1>7. PICK row : /\ row = [record |-> Version(c), vector |-> Version(c)]
                 /\ row \in [record : Versions, vector : Versions]
  <2>1. c \in VectorCalls
    BY <1>2
  <2> QED BY <2>1, VersionIs
<1>8. Writes(v, written, row, rec) /\ conns' = [conns EXCEPT !.state[c.conn] = "clean"]
  BY <1>2, <1>3, <1>7 DEF CommitRows, SetConn
<1>9. \A x \in RecordId : indexed'[x] = IF x \in written THEN row ELSE indexed[x]
  BY <1>8 DEF Writes
<1>10. StageSound(rec)'
  BY <1>1, <1>2, <1>3, <1>4, <1>5, <1>6 DEF StageSound, Ending
<1>11. \A x \in DealtWith(rec) \ rec.moved : DoneTo(rec, x)'
  <2> SUFFICES ASSUME NEW x \in DealtWith(rec), x \notin c.moved PROVE DoneTo(rec, x)'
    BY <1>6
  <2>1. x \in RecordId
    BY <1>2, <1>3, <1>5, <1>6 DEF DealtWith, Ending
  <2>2. CASE x \in written
    BY <1>4, <1>6, <1>7, <1>9, <2>1, <2>2 DEF DoneTo, Version
  <2>3. CASE x \notin written
    <3>1. x \in DealtWith(c)
      BY <1>1, <1>2, <1>3, <1>4, <1>5, <1>6, <2>3 DEF DealtWith, Ending
    <3>2. DoneTo(c, x)
      BY <1>2, <3>1 DEF CallSound
    <3> QED BY <1>6, <1>9, <2>1, <2>3, <3>2 DEF DoneTo
  <2> QED BY <2>2, <2>3
<1>12. CallSound(rec)'
  <2> HIDE DEF StageSound, DealtWith, DoneTo
  <2> QED BY <1>1, <1>2, <1>4, <1>5, <1>6, <1>10, <1>11 DEF CallSound, VectorStages, Ending
<1>13. ConnSound'
  <2>1. OthersAlike(v) /\ vcall'[v] = rec
    BY <1>8, WritersAlike
  <2>2. rec.at \in ConnStages /\ rec.at # "room"
    BY <1>5, <1>6 DEF ConnStages
  <2> QED BY <1>1, <1>2, <1>6, <1>8, <2>1, <2>2, ConnSet
<1> QED BY <1>1, <1>2, <1>5, <1>7, <1>8, <1>12, <1>13, CallOf, WriteKeeps

LEMMA ReturnConnectionKeeps ==
  ASSUME VectorInv, NEW v \in VectorClient, ReturnConnection(v)
  PROVE  VectorInv'
<1>1. vcall[v].at \in {"return", "room"} /\ vcall[v].at \in ConnStages /\ UNCHANGED indexed
  BY DEF ReturnConnection, ConnStages
<1>2. PICK c : /\ c = vcall[v] /\ CallSound(c) /\ c \in VectorCalls /\ StageSound(c)
               /\ c.conn \in Conns /\ c.refused \subseteq c.writes /\ c.writes \subseteq RecordId
               /\ c.todo \subseteq RecordId /\ c.seen \subseteq RecordId
               /\ (c.does = "upsert" => c.todo \subseteq c.writes)
               /\ (c.does # "upsert" => c.refused = {})
               /\ (c.does = "search" => c.writes = {})
               /\ (c.at \in {"execute", "commit"} => ~c.raised)
               /\ c.nth > 0 /\ c.does # "none" /\ vectorDb.db = "opengauss"
  BY <1>1, ConnCall
<1>3. ASSUME NEW at \in {"room", "done"}, NEW conn \in Versions, NEW room \in BOOLEAN,
             NEW rec, rec = Left(c, at, conn, room)
      PROVE  CallSound(rec) /\ rec.moved = c.moved /\ rec.at = at /\ rec.conn = conn /\ rec.room = room
  <2>1. /\ rec \in VectorCalls
        /\ rec.does = c.does /\ rec.at = at /\ rec.nth = c.nth /\ rec.todo = c.todo
        /\ rec.writes = c.writes /\ rec.refused = c.refused /\ rec.seen = c.seen /\ rec.size = c.size
        /\ rec.hits = c.hits /\ rec.conn = conn /\ rec.filter = c.filter /\ rec.room = room
        /\ rec.moved = c.moved /\ rec.raised = c.raised
    <3>1. c \in VectorCalls
      BY <1>2
    <3> QED BY <1>3, <3>1, LeftWith
  <2>2. StageSound(rec)
    BY <1>1, <1>2, <2>1 DEF StageSound, Ending
  <2>3. DealtWith(rec) = DealtWith(c)
    BY <1>1, <1>2, <2>1 DEF DealtWith, Ending
  <2>4. \A x \in DealtWith(rec) \ rec.moved : DoneTo(rec, x)
    <3>1. \A x \in DealtWith(c) \ c.moved : DoneTo(c, x)
      BY <1>2 DEF CallSound
    <3>2. \A x : DoneTo(rec, x) <=> DoneTo(c, x)
      BY <2>1 DEF DoneTo
    <3> HIDE DEF DoneTo, DealtWith
    <3> QED BY <2>1, <2>3, <3>1, <3>2
  <2>5. rec.does = "search" /\ ~rec.raised => HitsTold(rec)
    <3>1. HitsTold(rec) <=> HitsTold(c)
      BY <2>1 DEF HitsTold
    <3>2. c.does = "search" /\ ~c.raised => HitsTold(c)
      BY <1>1, <1>2 DEF CallSound, Ending
    <3> HIDE DEF HitsTold
    <3> QED BY <2>1, <3>1, <3>2
  <2>6. CallSound(rec)
    <3> HIDE DEF StageSound, DealtWith, DoneTo, HitsTold
    <3> QED BY <1>1, <1>2, <2>1, <2>2, <2>4, <2>5 DEF CallSound, VectorStages, Ending
  <2> QED BY <2>1, <2>6
<1>4. ASSUME NEW rec, rec = [c EXCEPT !.at = "done", !.conn = 0], Moves(v, rec), ConnSound', vectorDb' = vectorDb \/ Fault
      PROVE  VectorInv'
  <2>1. c.room \in BOOLEAN /\ 0 \in Versions
    BY <1>2, VectorConstants DEF VectorCalls
  <2>2. rec = [c EXCEPT !.at = "done", !.conn = 0, !.room = c.room]
    BY <1>2, <1>4 DEF VectorCalls
  <2>3. CallSound(rec) /\ rec.moved = c.moved
    <3>1. PICK at, conn, room : /\ at = "done" /\ conn = 0 /\ room = c.room /\ at \in {"room", "done"}
                                /\ conn \in Versions /\ room \in BOOLEAN
      BY <2>1
    <3>2. rec = Left(c, at, conn, room)
      BY <2>2, <3>1 DEF Left
    <3> QED BY <1>3, <3>1, <3>2
  <2>4. vectorDb' \in VectorDbs /\ vectorDb'.db = vectorDb.db
    BY <1>4, FaultTaken
  <2> QED BY <1>1, <1>2, <1>4, <2>3, <2>4, MoveOn
<1>5. ASSUME NEW rec, rec = [c EXCEPT !.at = "done", !.conn = 0], Moves(v, rec)
      PROVE  OthersAlike(v) /\ vcall'[v].conn = 0 /\ vcall'[v].at = "done"
  <2>1. OthersAlike(v) /\ vcall'[v] = rec
    BY <1>5, OnesAlike
  <2> QED BY <1>2, <1>5, <2>1 DEF VectorCalls
<1>6. ASSUME conns' = [conns EXCEPT !.state[c.conn] = "unused"], vectorDb' = vectorDb \/ Fault,
             Moves(v, [c EXCEPT !.at = "done", !.conn = 0])
      PROVE  VectorInv'
  <2>1. PICK rec : rec = [c EXCEPT !.at = "done", !.conn = 0]
    OBVIOUS
  <2>2. OthersAlike(v) /\ vcall'[v].conn = 0 /\ vcall'[v].at = "done"
    BY <1>5, <1>6, <2>1
  <2>3. ConnSound'
    BY <1>1, <1>2, <1>6, <2>2, ConnReleased, FaultTaken
  <2> QED BY <1>4, <1>6, <2>1, <2>3
<1>7. ASSUME c.at = "room", c.room, conns' = [conns EXCEPT !.pool = Append(@, c.conn)], UNCHANGED vectorDb,
             Moves(v, [c EXCEPT !.at = "done", !.conn = 0])
      PROVE  VectorInv'
  <2>1. PICK rec : rec = [c EXCEPT !.at = "done", !.conn = 0]
    OBVIOUS
  <2>2. OthersAlike(v) /\ vcall'[v].conn = 0 /\ vcall'[v].at = "done"
    BY <1>5, <1>7, <2>1
  <2>3. ConnSound'
    BY <1>1, <1>2, <1>7, <2>2, ConnPooled
  <2> QED BY <1>4, <1>7, <2>1, <2>3
<1>8. ASSUME conns' = [conns EXCEPT !.state[c.conn] = "clean"], UNCHANGED vectorDb,
             Moves(v, [c EXCEPT !.at = "room", !.room = Len(conns.pool) < PoolSize])
      PROVE  VectorInv'
  <2>1. PICK room, rec : /\ room = (Len(conns.pool) < PoolSize)
                         /\ rec = [c EXCEPT !.at = "room", !.room = Len(conns.pool) < PoolSize]
    OBVIOUS
  <2>2. room \in BOOLEAN /\ c.conn \in Versions /\ rec = [c EXCEPT !.at = "room", !.conn = c.conn, !.room = room]
    <3>1. c.conn \in Versions
      BY <1>2 DEF VectorCalls
    <3>2. room \in BOOLEAN
      BY <2>1
    <3>3. rec = [c EXCEPT !.at = "room", !.conn = c.conn, !.room = room]
      BY <1>2, <2>1 DEF VectorCalls
    <3> QED BY <3>1, <3>2, <3>3
  <2>3. CallSound(rec) /\ rec.moved = c.moved /\ rec.at = "room" /\ rec.conn = c.conn /\ rec.room = room
    <3>1. PICK at, conn : /\ at = "room" /\ conn = c.conn /\ at \in {"room", "done"} /\ conn \in Versions
      BY <2>2
    <3>2. rec = Left(c, at, conn, room)
      BY <2>2, <3>1 DEF Left
    <3>3. CallSound(rec) /\ rec.moved = c.moved /\ rec.at = at /\ rec.conn = conn /\ rec.room = room
      BY <1>3, <2>2, <3>1, <3>2
    <3> QED BY <3>1, <3>3
  <2> QED BY <1>1, <1>2, <1>8, <2>1, <2>3, MoveConn DEF ConnStages
<1>9. \/ /\ conns' = [conns EXCEPT !.state[c.conn] = "unused"] /\ (vectorDb' = vectorDb \/ Fault)
         /\ Moves(v, [c EXCEPT !.at = "done", !.conn = 0])
      \/ /\ c.at = "room" /\ c.room /\ conns' = [conns EXCEPT !.pool = Append(@, c.conn)] /\ UNCHANGED vectorDb
         /\ Moves(v, [c EXCEPT !.at = "done", !.conn = 0])
      \/ /\ conns' = [conns EXCEPT !.state[c.conn] = "clean"] /\ UNCHANGED vectorDb
         /\ Moves(v, [c EXCEPT !.at = "room", !.room = Len(conns.pool) < PoolSize])
  BY <1>2 DEF ReturnConnection, SetConn, FaultOf
<1> QED BY <1>6, <1>7, <1>8, <1>9

(***************************************************************************)
(* A call of Chroma.                                                       *)
(***************************************************************************)
LEMMA ChromaCallKeeps ==
  ASSUME VectorInv, NEW v \in VectorClient, ChromaCall(v)
  PROVE  VectorInv'
<1>1. PICK c : /\ c = vcall[v] /\ CallSound(c) /\ c \in VectorCalls /\ c.at \in {"call", "query"} /\ c.conn = 0
               /\ StageSound(c) /\ ~c.raised /\ c.nth > 0 /\ c.does # "none" /\ c.refused \subseteq c.writes
               /\ (c.does = "search" => c.writes = {}) /\ c.hits = {} /\ (c.at = "query" => c.does = "search")
               /\ (c.does \in {"upsert", "delete"} => c.todo = c.writes)
  <2>1. vcall[v].at \in {"call", "query"}
    BY DEF ChromaCall
  <2>2. CallSound(vcall[v]) /\ vcall[v] \in VectorCalls /\ StageSound(vcall[v]) /\ vcall[v].conn = 0
    BY <2>1, CallOf, ConnFacts DEF ConnStages
  <2>3. /\ ~vcall[v].raised /\ vcall[v].nth > 0 /\ vcall[v].does # "none" /\ vcall[v].refused \subseteq vcall[v].writes
        /\ (vcall[v].does = "search" => vcall[v].writes = {}) /\ vcall[v].hits = {}
        /\ (vcall[v].at = "query" => vcall[v].does = "search")
        /\ (vcall[v].does \in {"upsert", "delete"} => vcall[v].todo = vcall[v].writes)
    BY <2>1, <2>2 DEF StageSound, Ending
  <2> QED BY <2>1, <2>2, <2>3
<1>2. vectorDb.db = "chroma" /\ UNCHANGED conns /\ c.at # "idle"
  BY <1>1, CallOf DEF VectorStages, ChromaCall
<1>3. ASSUME Fault, UNCHANGED indexed, Moves(v, [c EXCEPT !.at = "done", !.raised = TRUE])
      PROVE  VectorInv'
  <2>1. PICK rec : rec = [c EXCEPT !.at = "done", !.raised = TRUE]
    OBVIOUS
  <2>2. /\ rec \in VectorCalls
        /\ rec.does = c.does /\ rec.at = "done" /\ rec.nth = c.nth /\ rec.todo = c.todo
        /\ rec.writes = c.writes /\ rec.refused = c.refused /\ rec.seen = c.seen /\ rec.size = c.size
        /\ rec.hits = c.hits /\ rec.conn = c.conn /\ rec.filter = c.filter /\ rec.room = c.room
        /\ rec.moved = c.moved /\ rec.raised = TRUE
    BY <1>1, <2>1 DEF VectorCalls
  <2>3. CallSound(rec)
    <3>1. rec.at \in Ending /\ rec.at \in VectorStages(vectorDb.db)
      BY <2>2 DEF Ending, VectorStages
    <3> QED BY <1>1, <1>2, <2>2, <3>1, RaisedSound
  <2>4. rec.at \notin ConnStages \cup {"pop", "new"}
    BY <2>2 DEF ConnStages
  <2> QED BY <1>1, <1>2, <1>3, <2>1, <2>2, <2>3, <2>4, FaultTaken, MoveAlone
<1>4. ASSUME c.does = "search", c.at = "call", UNCHANGED <<vectorDb, indexed>>,
             Moves(v, [c EXCEPT !.size = Cardinality(Present), !.at = IF Present = {} THEN "done" ELSE "query"])
      PROVE  VectorInv'
  <2>1. PICK size, at, rec : /\ size = Cardinality(Present) /\ at = IF Present = {} THEN "done" ELSE "query"
                             /\ rec = [c EXCEPT !.size = size, !.at = at]
    OBVIOUS
  <2>2. size \in Nat /\ at \in {"done", "query"}
    BY <2>1, PresentCounted
  <2>3. /\ rec \in VectorCalls
        /\ rec.does = c.does /\ rec.at = at /\ rec.nth = c.nth /\ rec.todo = c.todo
        /\ rec.writes = c.writes /\ rec.refused = c.refused /\ rec.seen = c.seen /\ rec.size = size
        /\ rec.hits = c.hits /\ rec.conn = c.conn /\ rec.filter = c.filter /\ rec.room = c.room
        /\ rec.moved = c.moved /\ rec.raised = c.raised
    <3>1. c \in VectorCalls /\ rec = CountedAt(c, size, at)
      BY <1>1, <2>1 DEF CountedAt
    <3> QED BY <2>2, <3>1, Counted
  <2>4. StageSound(rec)
    BY <1>1, <1>4, <2>2, <2>3 DEF StageSound, Ending
  <2>5. DealtWith(rec) = {} /\ (at = "done" => HitsTold(rec))
    <3>1. DealtWith(rec) = {}
      BY <1>1, <1>4, <2>2, <2>3 DEF DealtWith, Ending
    <3>2. at = "done" => Present = {}
      BY <2>1
    <3>3. at = "done" => HitsTold(rec)
      BY <1>1, <2>3, <3>2 DEF HitsTold
    <3> QED BY <3>1, <3>3
  <2>6. CallSound(rec)
    <3> HIDE DEF StageSound, DealtWith, HitsTold
    <3> QED BY <1>2, <1>4, <2>2, <2>3, <2>4, <2>5 DEF CallSound, VectorStages, Ending
  <2>7. rec.at \notin ConnStages \cup {"pop", "new"} /\ Moves(v, rec)
    BY <1>4, <2>1, <2>2, <2>3 DEF ConnStages
  <2> QED BY <1>1, <1>2, <1>4, <2>3, <2>6, <2>7, FaultTaken, MoveAlone
<1>5. ASSUME c.at = "query", UNCHANGED <<vectorDb, indexed>>,
             Moves(v, [c EXCEPT !.at = "done", !.hits = BestHits({r \in Present : FilterMatches(r, c.filter)})])
      PROVE  VectorInv'
  <2>1. PICK hits, rec : /\ hits = BestHits({r \in Present : FilterMatches(r, c.filter)})
                         /\ rec = [c EXCEPT !.at = "done", !.hits = hits]
    OBVIOUS
  <2>2. hits \subseteq RecordId
    BY <2>1, PresentCounted DEF BestHits
  <2>3. /\ rec \in VectorCalls
        /\ rec.does = c.does /\ rec.at = "done" /\ rec.nth = c.nth /\ rec.todo = c.todo
        /\ rec.writes = c.writes /\ rec.refused = c.refused /\ rec.seen = c.seen /\ rec.size = c.size
        /\ rec.hits = hits /\ rec.conn = c.conn /\ rec.filter = c.filter /\ rec.room = c.room
        /\ rec.moved = c.moved /\ rec.raised = c.raised
    BY <1>1, <2>1, <2>2 DEF VectorCalls
  <2>4. StageSound(rec)
    BY <1>1, <1>5, <2>3 DEF StageSound, Ending
  <2>5. DealtWith(rec) = {}
    BY <1>1, <1>5, <2>3 DEF DealtWith, Ending
  <2>6. HitsTold(rec)
    BY <2>1, <2>3, QueryTold
  <2>7. CallSound(rec)
    <3> HIDE DEF StageSound, DealtWith, HitsTold
    <3> QED BY <1>1, <1>2, <1>5, <2>3, <2>4, <2>5, <2>6 DEF CallSound, VectorStages, Ending
  <2>8. rec.at \notin ConnStages \cup {"pop", "new"} /\ Moves(v, rec)
    BY <1>5, <2>1, <2>3 DEF ConnStages
  <2> QED BY <1>1, <1>2, <1>5, <2>3, <2>7, <2>8, FaultTaken, MoveAlone
<1>6. ASSUME c.does \in {"upsert", "delete"}, UNCHANGED vectorDb,
             Writes(v, c.todo, [record |-> Version(c), vector |-> Version(c)], [c EXCEPT !.todo = {}, !.at = "done"])
      PROVE  VectorInv'
  <2>1. PICK written, row, rec : /\ written = c.todo /\ rec = [c EXCEPT !.todo = {}, !.at = "done"]
                                 /\ row = [record |-> Version(c), vector |-> Version(c)]
    OBVIOUS
  <2>2. written \in SUBSET RecordId /\ row \in [record : Versions, vector : Versions]
    <3>1. row \in [record : Versions, vector : Versions]
      BY <1>1, <2>1, VersionIs
    <3>2. c.todo \in SUBSET RecordId
      BY <1>1 DEF VectorCalls
    <3> QED BY <2>1, <3>1, <3>2
  <2>3. /\ rec \in VectorCalls
        /\ rec.does = c.does /\ rec.at = "done" /\ rec.nth = c.nth /\ rec.todo = {}
        /\ rec.writes = c.writes /\ rec.refused = c.refused /\ rec.seen = c.seen /\ rec.size = c.size
        /\ rec.hits = c.hits /\ rec.conn = c.conn /\ rec.filter = c.filter /\ rec.room = c.room
        /\ rec.moved = c.moved /\ rec.raised = c.raised
    BY <1>1, <2>1 DEF VectorCalls
  <2>4. StageSound(rec)'
    BY <1>1, <1>6, <2>3 DEF StageSound, Ending
  <2>5. Writes(v, written, row, rec) /\ \A x \in written : indexed'[x] = row
    <3>1. Writes(v, written, row, rec)
      BY <1>6, <2>1
    <3> QED BY <2>2, <3>1 DEF Writes
  <2>6. \A x \in DealtWith(rec) \ rec.moved : DoneTo(rec, x)'
    <3> SUFFICES ASSUME NEW x \in DealtWith(rec) PROVE DoneTo(rec, x)'
      OBVIOUS
    <3>1. x \in written
      BY <1>1, <1>6, <2>1, <2>3 DEF DealtWith, Ending
    <3> QED BY <1>6, <2>1, <2>3, <2>5, <3>1 DEF DoneTo, Version
  <2>7. CallSound(rec)'
    <3> HIDE DEF StageSound, DealtWith, DoneTo
    <3> QED BY <1>2, <1>6, <2>3, <2>4, <2>6 DEF CallSound, VectorStages, Ending
  <2>8. ConnSound'
    BY <1>1, <1>2, <1>6, <2>3, <2>5, WritersAlike, ConnSame, ConnCounts DEF ConnStages
  <2> QED BY <1>2, <1>6, <2>2, <2>5, <2>7, <2>8, CallOf, WriteKeeps
<1>7. \/ Fault /\ UNCHANGED indexed /\ Moves(v, [c EXCEPT !.at = "done", !.raised = TRUE])
      \/ /\ c.does = "search" /\ c.at = "call" /\ UNCHANGED <<vectorDb, indexed>>
         /\ Moves(v, [c EXCEPT !.size = Cardinality(Present), !.at = IF Present = {} THEN "done" ELSE "query"])
      \/ /\ c.at = "query" /\ UNCHANGED <<vectorDb, indexed>>
         /\ Moves(v, [c EXCEPT !.at = "done", !.hits = BestHits({r \in Present : FilterMatches(r, c.filter)})])
      \/ /\ c.does \in {"upsert", "delete"} /\ UNCHANGED vectorDb
         /\ Writes(v, c.todo, [record |-> Version(c), vector |-> Version(c)], [c EXCEPT !.todo = {}, !.at = "done"])
  BY <1>1 DEF ChromaCall
<1> HIDE DEF StageSound
<1> QED BY <1>3, <1>4, <1>5, <1>6, <1>7

(***************************************************************************)
(* A call begins, and is answered.                                         *)
(***************************************************************************)
BegunAs(does, at, nth, batch, writes, size, filter, moved) ==
    [NoVector EXCEPT !.does = does, !.nth = nth, !.todo = batch, !.filter = filter, !.size = size,
                     !.moved = moved, !.writes = writes, !.at = at]

LEMMA BeginVectorCallKeeps ==
  ASSUME VectorInv, NEW v \in VectorClient, NEW does \in vectorDb.kinds, NEW batch \in Batches \cup {{}},
         NEW filter \in Filters, BeginVectorCall(v, does, batch, filter)
  PROVE  VectorInv'
<1>1. /\ vcall[v].at = "idle" /\ vectorDb.calls > 0 /\ UNCHANGED <<indexed, conns>>
      /\ (does \in {"search", "purge"} <=> batch = {})
      /\ vectorDb' = [vectorDb EXCEPT !.calls = @ - 1]
  BY DEF BeginVectorCall
<1>2. PICK at, nth, writes, size, used, moved :
         /\ at = CASE vectorDb.db = "opengauss" -> IF conns.pool = <<>> THEN "new" ELSE "pop"
                    [] vectorDb.db = "chroma" -> "call"
                    [] OTHER -> IF does \in {"search", "purge"} THEN "scan" ELSE "record"
         /\ nth = MaxVectorCalls + 1 - vectorDb.calls /\ writes = Named(does, batch, filter)
         /\ size = Cardinality(Present) /\ used = (IF batch = {} THEN filter ELSE NoFilter)
         /\ moved = UNION {vcall[w].writes : w \in VectorClient}
  OBVIOUS
<1>3. PICK rec : rec = BegunAs(does, at, nth, batch, writes, size, used, moved)
  OBVIOUS
<1>4. Moves(v, rec)
  BY <1>2, <1>3 DEF BeginVectorCall, BegunAs
<1>5. /\ vectorDb \in VectorDbs /\ vectorDb.db \in {"memory", "opengauss", "chroma"}
      /\ vectorDb.kinds \subseteq {"upsert", "delete", "search", "purge"} /\ vectorDb.calls \in 1..MaxVectorCalls
      /\ vectorDb' \in VectorDbs /\ vectorDb'.db = vectorDb.db /\ vectorDb'.calls = vectorDb.calls - 1
      /\ vectorDb'.calls \in Nat
  <2>1. vectorDb \in VectorDbs /\ MaxVectorCalls \in Nat
    BY CallOf, VectorConstants
  <2> QED BY <1>1, <2>1 DEF VectorDbs
<1>6. nth \in Versions /\ nth > 0
  <2>1. MaxVectorCalls \in Nat
    BY VectorConstants
  <2> QED BY <1>2, <1>5, <2>1 DEF Versions
<1>7. batch \in SUBSET RecordId /\ size \in Nat /\ used \in Filters \cup {NoFilter}
  BY <1>2, VectorConstants, PresentCounted
<1>8. /\ writes \in SUBSET RecordId /\ (does = "search" => writes = {}) /\ (does \in {"upsert", "delete"} => writes = batch)
      /\ (does = "purge" => writes = Matching(used))
  <2>1. does = "purge" => writes = Matching(used)
    BY <1>1, <1>2 DEF Named, Matching
  <2>2. does # "purge" => writes = batch
    BY <1>2 DEF Named
  <2> QED BY <1>1, <1>7, <2>1, <2>2 DEF Matching
<1>9. moved \in SUBSET RecordId /\ \A w \in VectorClient : vcall[w].writes \subseteq moved
  <2>1. \A w \in VectorClient : vcall[w].writes \in SUBSET RecordId
    BY DEF VectorInv, VectorFrame, VectorCalls
  <2> QED BY <1>2, <2>1
<1>10. /\ at \in {"pop", "new", "call", "scan", "record"}
       /\ vectorDb.db = "opengauss" => at \in {"pop", "new"}
       /\ vectorDb.db = "chroma" => at = "call"
       /\ vectorDb.db = "memory" => at = IF does \in {"search", "purge"} THEN "scan" ELSE "record"
  BY <1>2, <1>5
<1>11. does \in {"upsert", "delete", "search", "purge"}
  BY <1>5
<1>12. /\ rec \in VectorCalls
       /\ rec.does = does /\ rec.at = at /\ rec.nth = nth /\ rec.todo = batch /\ rec.writes = writes
       /\ rec.refused = {} /\ rec.seen = {} /\ rec.size = size /\ rec.hits = {} /\ rec.conn = 0
       /\ rec.filter = used /\ rec.room = FALSE /\ rec.moved = moved /\ rec.raised = FALSE
  <2>1. /\ nth \in Versions /\ batch \in SUBSET RecordId /\ writes \in SUBSET RecordId /\ size \in Nat
        /\ used \in Filters \cup {NoFilter} /\ moved \in SUBSET RecordId
        /\ at \in {"pop", "new", "call", "scan", "record"} /\ does \in {"upsert", "delete", "search", "purge"}
        /\ rec = BegunAs(does, at, nth, batch, writes, size, used, moved)
    BY <1>3, <1>6, <1>7, <1>8, <1>9, <1>10, <1>11
  <2>2. rec = [does |-> does, at |-> at, nth |-> nth, todo |-> batch, writes |-> writes,
               refused |-> {}, seen |-> {}, size |-> size, hits |-> {}, conn |-> 0, filter |-> used,
               room |-> FALSE, moved |-> moved, raised |-> FALSE]
    BY <2>1 DEF BegunAs, NoVector
  <2>3. 0 \in Versions
    BY VectorConstants
  <2> QED BY <2>1, <2>2, <2>3 DEF VectorCalls
<1>13. StageSound(rec)
  BY <1>1, <1>5, <1>6, <1>8, <1>10, <1>11, <1>12 DEF StageSound, Ending
<1>14. DealtWith(rec) = {}
  BY <1>1, <1>5, <1>8, <1>10, <1>11, <1>12 DEF DealtWith, Ending
<1>15. does = "search" /\ at = "scan" => Scanned(rec)
  BY <1>1, <1>12 DEF Scanned
<1>16. CallSound(rec)
  <2>1. at \in VectorStages(vectorDb.db)
    BY <1>5, <1>10 DEF VectorStages
  <2> HIDE DEF StageSound, DealtWith, Scanned
  <2> QED BY <1>1, <1>2, <1>10, <1>12, <1>13, <1>14, <1>15, <2>1 DEF CallSound, Ending
<1>17. CallSound(rec)'
  BY <1>1, <1>5, <1>16, CallStays
<1>18. OthersAlike(v) /\ vcall'[v] = rec
  BY <1>4, OnesAlike
<1>19. ConnSound'
  <2>1. CASE at \in {"pop", "new"}
    BY <1>1, <1>5, <1>12, <1>18, <2>1, ConnAsked
  <2>2. CASE at \notin {"pop", "new"}
    <3>1. rec.at \notin ConnStages \cup {"pop", "new"}
      BY <1>10, <1>12, <2>2 DEF ConnStages
    <3>2. vectorDb'.calls <= vectorDb.calls
      BY <1>5
    <3> QED BY <1>1, <1>5, <1>12, <1>18, <3>1, <3>2, ConnSame
  <2> QED BY <2>1, <2>2
<1>20. \A w \in VectorClient : vcall[w].at = "vector" => vcall[w].seen \subseteq rec.moved
  <2> SUFFICES ASSUME NEW w \in VectorClient, vcall[w].at = "vector" PROVE vcall[w].seen \subseteq vcall[w].writes
    BY <1>9, <1>12
  <2>1. StageSound(vcall[w])
    BY CallOf
  <2> QED BY <2>1 DEF StageSound
<1> HIDE DEF Torn
<1> QED BY <1>1, <1>4, <1>5, <1>10, <1>12, <1>17, <1>19, <1>20, MoveKeeps

LEMMA AnswerVectorKeeps ==
  ASSUME VectorInv, NEW v \in VectorClient, AnswerVector(v)
  PROVE  VectorInv'
<1>1. PICK c : /\ c = vcall[v] /\ CallSound(c) /\ c \in VectorCalls /\ c.at = "done"
               /\ StageSound(c)
  <2>1. vcall[v].at = "done"
    BY DEF AnswerVector
  <2> QED BY <2>1, CallOf
<1>2. /\ vcall' = [vcall EXCEPT ![v] = NoVector] /\ returned' = c
      /\ UNCHANGED <<vectorDb, indexed, conns, torn>>
  BY <1>1 DEF AnswerVector
<1>3. /\ NoVector \in VectorCalls /\ NoVector.at = "idle" /\ NoVector.conn = 0 /\ ~NoVector.raised
  BY VectorConstants DEF NoVector
<1>4. /\ vcall'[v] = NoVector /\ \A w \in VectorClient \ {v} : vcall'[w] = vcall[w]
  BY <1>2 DEF VectorInv, VectorFrame
<1>5. VectorFrame'
  BY <1>2, <1>3 DEF VectorInv, VectorFrame
<1>6. VectorCallsSound'
  <2> SUFFICES ASSUME NEW w \in VectorClient PROVE CallSound(vcall[w])'
    BY DEF VectorCallsSound
  <2>1. CASE w = v
    <3>1. CallSound(NoVector)'
      BY <1>2, CallOf, IdleSound
    <3> QED BY <1>4, <2>1, <3>1
  <2>2. CASE w # v
    <3>1. PICK d : d = vcall[w] /\ CallSound(d)
      BY CallOf
    <3>2. CallSound(d)'
      BY <1>2, <3>1, CallStays
    <3> QED BY <1>4, <2>2, <3>1, <3>2
  <2> QED BY <2>1, <2>2
<1>7. ConnSound'
  <2>1. OthersAlike(v)
    BY <1>4 DEF OthersAlike
  <2>2. vectorDb'.calls \in Nat /\ vectorDb'.calls <= vectorDb.calls
    BY <1>2, ConnCounts
  <2>3. vcall'[v].at \notin ConnStages \cup {"pop", "new"} /\ vcall'[v].conn = 0
    BY <1>3, <1>4 DEF ConnStages
  <2> QED BY <1>2, <2>1, <2>2, <2>3, ConnSame
<1>8. vectorDb.db = "memory" => MemorySound'
  <2>1. vectorDb.db = "memory" => MemorySound
    BY DEF VectorInv
  <2>2. vcall[v].at # "vector" /\ NoVector.at # "vector"
    BY <1>1, <1>3
  <2> HIDE DEF Torn, MemorySound
  <2> QED BY <1>2, <1>3, <2>1, <2>2, MemoryMoves
<1>9. CallsDoAsTheySay'
  <2>1. CASE c.raised
    <3> SUFFICES ASSUME vectorDb.db = "memory" PROVE c.moved # {} \/ \E r \in torn' : Torn(r)'
      BY <1>2, <2>1 DEF CallsDoAsTheySay
    <3>1. c.moved # {} \/ \E r \in torn : Torn(r)
      BY <1>1, <2>1 DEF VectorInv, MemorySound
    <3> QED BY <1>2, <3>1 DEF Torn
  <2>2. CASE ~c.raised
    <3>1. DealtWith(c) = c.writes \ c.refused
      BY <1>1, <2>2 DEF DealtWith, Ending
    <3>2. \A r \in (c.writes \ c.refused) \ c.moved : DoneTo(c, r)
      BY <1>1, <3>1 DEF CallSound
    <3>3. c.does \in {"delete", "purge"} => c.refused = {}
      BY <1>1 DEF StageSound
    <3>4. ASSUME NEW r \in RecordId \ c.moved
          PROVE  /\ c.does = "upsert" /\ r \in c.writes \ c.refused => indexed[r] = [record |-> c.nth, vector |-> c.nth]
                 /\ c.does \in {"delete", "purge"} /\ r \in c.writes => r \notin Present
      <4>1. ASSUME c.does = "upsert", r \in c.writes \ c.refused PROVE indexed[r] = [record |-> c.nth, vector |-> c.nth]
        BY <3>2, <4>1 DEF DoneTo
      <4>2. ASSUME c.does \in {"delete", "purge"}, r \in c.writes PROVE r \notin Present
        <5>1. indexed[r].record = 0
          BY <3>2, <3>3, <4>2 DEF DoneTo
        <5> QED BY <5>1 DEF Present
      <4> QED BY <4>1, <4>2
    <3>5. c.does = "search" => HitsTold(c)
      BY <1>1, <2>2 DEF CallSound, Ending
    <3>6. Present' = Present
      BY <1>2 DEF Present
    <3> QED BY <1>2, <2>2, <3>4, <3>5, <3>6 DEF CallsDoAsTheySay, HitsTold
  <2> QED BY <2>1, <2>2
<1> HIDE DEF VectorFrame, VectorCallsSound, MemorySound, ConnSound, CallsDoAsTheySay
<1> QED BY <1>2, <1>5, <1>6, <1>7, <1>8, <1>9 DEF VectorInv

LEMMA VectorStutter ==
  ASSUME VectorInv, UNCHANGED vectorVars
  PROVE  VectorInv'
<1>1. VectorFrame' /\ CallsDoAsTheySay' /\ (vectorDb'.db = "memory" => MemorySound')
  BY DEF VectorInv, vectorVars, VectorFrame, CallsDoAsTheySay, MemorySound, Torn, Present
<1>2. ConnSound'
  BY DEF VectorInv, vectorVars, ConnSound, UsedConns, Asking, Roomy
<1>3. VectorCallsSound'
  <2> SUFFICES ASSUME NEW w \in VectorClient PROVE CallSound(vcall[w])'
    BY DEF VectorCallsSound
  <2>1. PICK d : d = vcall[w] /\ CallSound(d)
    BY CallOf
  <2>2. CallSound(d)' /\ vcall' = vcall
    BY <2>1, CallStays DEF vectorVars
  <2> QED BY <2>1, <2>2
<1> HIDE DEF VectorFrame, VectorCallsSound, MemorySound, ConnSound, CallsDoAsTheySay
<1> QED BY <1>1, <1>2, <1>3 DEF VectorInv

LEMMA VectorStarts == VectorInit => VectorInv
<1> SUFFICES ASSUME VectorInit PROVE VectorInv
  OBVIOUS
<1>1. /\ vectorDb \in VectorDbs /\ indexed = [r \in RecordId |-> NoRow] /\ returned = NoVector /\ torn = {}
      /\ vcall = [v \in VectorClient |-> NoVector]
      /\ conns = [pool |-> <<>>, state |-> [k \in Conns |-> "unused"]]
  BY VectorAssumption DEF VectorInit, VectorDbs
<1>2. /\ NoVector \in VectorCalls /\ NoVector.at = "idle" /\ NoVector.conn = 0 /\ ~NoVector.raised
      /\ NoVector.nth = 0 /\ NoVector.does = "none" /\ NoVector.writes = {} /\ NoVector.refused = {}
      /\ NoVector.todo = {}
  BY VectorConstants DEF NoVector
<1>3. VectorFrame
  <2>1. NoRow \in [record : Versions, vector : Versions]
    BY VectorConstants DEF NoRow
  <2> QED BY <1>1, <1>2, <2>1 DEF VectorFrame
<1>4. VectorCallsSound
  <2>1. StageSound(NoVector)
    BY <1>2 DEF StageSound, Ending
  <2>2. DealtWith(NoVector) = {}
    BY <1>2 DEF DealtWith, Ending
  <2>3. NoVector.at \in VectorStages(vectorDb.db)
    BY <1>1, <1>2 DEF VectorStages, VectorDbs
  <2>4. CallSound(NoVector)
    BY <1>2, <2>1, <2>2, <2>3 DEF CallSound, Ending
  <2> QED BY <1>1, <2>4 DEF VectorCallsSound
<1>5. MemorySound
  <2>1. \A r \in RecordId : ~Torn(r)
    BY <1>1 DEF Torn, NoRow
  <2> QED BY <1>1, <1>2, <2>1 DEF MemorySound
<1>6. ConnSound
  <2>1. /\ conns \in [pool : Seq(Conns), state : [Conns -> {"unused", "clean", "dirty", "closed"}]]
        /\ conns.pool = <<>> /\ Len(conns.pool) = 0
    BY <1>1
  <2>2. UsedConns = {} /\ Asking = {} /\ Roomy = {}
    BY <1>1, <1>2 DEF UsedConns, Asking, Roomy
  <2>3. /\ Cardinality(UsedConns) = 0 /\ Cardinality(Asking) = 0 /\ Cardinality(Roomy) = 0
    BY <2>2, FS_EmptySet
  <2>4. vectorDb.calls \in Nat /\ vectorDb.calls <= MaxVectorCalls /\ MaxVectorCalls \in Nat
    BY <1>1, VectorConstants DEF VectorDbs
  <2>5. Cardinality(VectorClient) \in Nat /\ PoolSize \in Nat /\ PoolSize > 0
    BY VectorConstants, FS_CardinalityType
  <2>6. /\ Cardinality(UsedConns) + Cardinality(Asking) + vectorDb.calls <= MaxVectorCalls
        /\ Len(conns.pool) + Cardinality(Roomy) < PoolSize + Cardinality(VectorClient)
    BY <2>1, <2>3, <2>4, <2>5
  <2> HIDE DEF UsedConns, Asking, Roomy
  <2> QED BY <1>1, <1>2, <2>1, <2>6 DEF ConnSound
<1>7. CallsDoAsTheySay
  BY <1>1, <1>2 DEF CallsDoAsTheySay
<1> HIDE DEF VectorFrame, VectorCallsSound, MemorySound, ConnSound, CallsDoAsTheySay
<1> QED BY <1>3, <1>4, <1>5, <1>6, <1>7 DEF VectorInv

(***************************************************************************)
(* The inductive invariant of the vector indexes: a call holds what its    *)
(* stage says, and has done to every record nobody else wrote what it says *)
(* of the records it has dealt with; in memory, a record without its       *)
(* vector was torn by two writers or is being written; and there is a      *)
(* connection for whoever will ask for one.  (in_memory_index.py:37-133,   *)
(* opengauss_index.py:139-241, chroma_index.py)                            *)
(***************************************************************************)
THEOREM VectorInvariant == VectorSpec => []VectorInv
<1>1. VectorInit => VectorInv
  BY VectorStarts
<1>2. VectorInv /\ [VectorNext]_vectorVars => VectorInv'
  <2> SUFFICES ASSUME VectorInv, [VectorNext]_vectorVars PROVE VectorInv'
    OBVIOUS
  <2>1. CASE UNCHANGED vectorVars
    BY <2>1, VectorStutter
  <2>2. CASE VectorNext
    <3>1. PICK v \in VectorClient :
             \/ \E does \in vectorDb.kinds, batch \in Batches \cup {{}}, filter \in Filters :
                   BeginVectorCall(v, does, batch, filter)
             \/ WriteRecord(v) \/ WriteVector(v) \/ ScanBreaks(v) \/ ScanRecords(v)
             \/ ScanDoomed(v) \/ ReadSimilarity(v)
             \/ GetConnection(v) \/ ExecuteUpsert(v)
             \/ ExecuteDelete(v) \/ ExecuteSearch(v) \/ CommitRows(v) \/ StatementFails(v)
             \/ ReturnConnection(v) \/ ChromaCall(v) \/ AnswerVector(v)
      BY <2>2 DEF VectorNext
    <3> QED BY <3>1, BeginVectorCallKeeps, WriteRecordKeeps, WriteVectorKeeps, ScanBreaksKeeps,
               ScanRecordsKeeps, ScanDoomedKeeps, ReadSimilarityKeeps, GetConnectionKeeps,
               ExecuteUpsertKeeps, ExecuteDeleteKeeps, ExecuteSearchKeeps, CommitRowsKeeps,
               StatementFailsKeeps, ReturnConnectionKeeps, ChromaCallKeeps, AnswerVectorKeeps
  <2> QED BY <2>1, <2>2
<1> QED BY <1>1, <1>2, PTL DEF VectorSpec

(***************************************************************************)
(* The state of the vector indexes keeps its types.                        *)
(***************************************************************************)
THEOREM VectorTypeCorrect == VectorSpec => []VectorTypeOK
<1>1. VectorInv => VectorTypeOK
  <2> SUFFICES ASSUME VectorInv PROVE VectorTypeOK
    OBVIOUS
  <2>1. vectorDb.calls <= MaxVectorCalls
    BY VectorConstants DEF VectorInv, VectorFrame, VectorDbs
  <2>2. conns.pool \in Seq(Conns) /\ conns.state \in [Conns -> {"unused", "clean", "dirty", "closed"}]
    BY DEF VectorInv, ConnSound
  <2>3. ASSUME NEW v \in VectorClient
        PROVE  /\ vcall[v].conn \in {0} \cup Conns
               /\ UNION {vcall[v].todo, vcall[v].seen, vcall[v].hits, vcall[v].moved} \subseteq RecordId
    <3>1. vcall[v] \in VectorCalls /\ vcall[v].conn \in {0} \cup Conns
      BY CallOf, ConnFacts
    <3> QED BY <3>1 DEF VectorCalls
  <2> QED BY <2>1, <2>2, <2>3 DEF VectorInv, VectorFrame, VectorTypeOK
<1> QED BY <1>1, VectorInvariant, PTL

(***************************************************************************)
(* IndexSound: a connection has one thread or lies in the pool, clean and  *)
(* once; and a call that returned did what it says to each record nobody   *)
(* else wrote meanwhile.  (in_memory_index.py:37-66, 126-133;              *)
(* opengauss_index.py:164-241)                                             *)
(***************************************************************************)
THEOREM IndexesSound == VectorSpec => []IndexSound
<1>1. VectorInv => IndexSound
  <2> SUFFICES ASSUME VectorInv PROVE IndexSound
    OBVIOUS
  <2>1. Len(conns.pool) < PoolSize + Cardinality(VectorClient)
    <3>1. Len(conns.pool) + Cardinality(Roomy) < PoolSize + Cardinality(VectorClient)
      BY DEF VectorInv, ConnSound
    <3>2. /\ Len(conns.pool) \in Nat /\ Cardinality(Roomy) \in Nat
          /\ PoolSize + Cardinality(VectorClient) \in Nat
      BY ConnCounts
    <3>3. \A i, j, k \in Nat : i + j < k => i < k
      OBVIOUS
    <3> HIDE DEF Roomy
    <3> QED BY <3>1, <3>2, <3>3
  <2>2. ConnectionsApart
    BY <2>1 DEF VectorInv, ConnSound, ConnectionsApart
  <2> QED BY <2>2 DEF VectorInv, IndexSound
<1> QED BY <1>1, VectorInvariant, PTL
=============================================================================
