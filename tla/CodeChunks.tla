----------------------------- MODULE CodeChunks -----------------------------
(***************************************************************************)
(* How a source file is cut into chunks: the top-level functions and       *)
(* classes of a Python file, each a chunk of its own if it is small        *)
(* enough; windows of whole lines, which overlap, over a larger one, and   *)
(* over a file that is not Python, does not parse or defines nothing.      *)
(* Source: src/code-version/extraction/code_chunker.py                     *)
(*                                                                         *)
(* A file is the lengths of its lines, 0 for a blank one.  The overlap is  *)
(* the same in a definition and in a file here (200 and 300 in the code).  *)
(***************************************************************************)
EXTENDS Naturals, Sequences, FiniteSets

CONSTANTS
    Sources,         \* files to try: lengths of the lines, <<first, last>> of
                     \* each top-level definition in order
    TargetChars,     \* target_chars, at most max_chars
    OverlapChars,    \* overlap_chars
    MaxChars         \* max_chars

\* <<first, last>> within the lines of a file.
SectionsOf(length) == {p \in (Nat \ {0}) \X Nat : p[2] <= Len(length)}

ASSUME ChunksAssumption ==
    /\ TargetChars \in Nat /\ OverlapChars \in Nat /\ MaxChars \in Nat
    /\ TargetChars <= MaxChars
    /\ \A s \in Sources :
         s.length \in Seq(Nat) /\ s.defs \in Seq(SectionsOf(s.length))

VARIABLES
    source,      \* the file
    chunking,    \* next step
    sections,    \* <<first, last>> of what is left to cut
    section,     \* what is being cut
    start,       \* start_index: the first line of the window
    end,         \* end_index: the line after its last
    chars,       \* current_chars
    chunks       \* <<first line, last line>> of each chunk made

chunksVars == <<source, chunking, sections, section, start, end, chars, chunks>>

\* Characters of the lines from first to last, each with its newline.
Chars(first, last) ==
    LET upTo[n \in 0..Len(source.length)] ==
          IF n < first THEN 0 ELSE upTo[n - 1] + source.length[n] + 1
    IN upTo[last]

ChunksInit ==
    /\ source \in Sources
    /\ chunking = "section" /\ section = <<1, 0>>
    /\ sections = IF source.defs # <<>> THEN source.defs
                  ELSE <<<<1, Len(source.length)>>>>
    /\ start = 1 /\ end = 1 /\ chars = 0 /\ chunks = {}

\* The next definition, or the whole file.
NextSection ==
    /\ chunking = "section" /\ sections # <<>>
    /\ section' = Head(sections) /\ sections' = Tail(sections)
    /\ LET first == Head(sections)[1] last == Head(sections)[2] IN
       IF source.defs # <<>> /\ Chars(first, last) <= MaxChars + 1
       THEN chunks' = chunks \cup {Head(sections)} /\ UNCHANGED <<chunking, start, end, chars>>
       ELSE /\ chunking' = IF first <= last THEN "window" ELSE "section"
            /\ start' = first /\ end' = first /\ chars' = 0 /\ UNCHANGED chunks
    /\ UNCHANGED source

\* Mutant: a window may be left without a line.
FitsOnlyShort == chars + source.length[end] + 1 <= TargetChars /\ chars < MaxChars

Fits == \/ end = start
        \/ chars + source.length[end] + 1 <= TargetChars /\ chars < MaxChars

\* A window takes lines up to the target, and always one.
TakeLine ==
    /\ chunking = "window" /\ end <= section[2] /\ Fits
    /\ end' = end + 1 /\ chars' = chars + source.length[end] + 1
    /\ UNCHANGED <<source, chunking, sections, section, start, chunks>>

\* _overlap_line_count: lines before the end until they have OverlapChars.
Overlap ==
    Cardinality({k \in 1..(end - section[1]) : Chars(end - k + 1, end - 1) < OverlapChars})

Larger(m, n) == IF m < n THEN n ELSE m

NextStart == Larger(start + 1, end - Overlap)

\* The window is full; it is kept unless it is blank.
EmitWindow ==
    /\ chunking = "window" /\ ~(end <= section[2] /\ Fits)
    /\ chunks' = IF \E i \in start..(end - 1) : source.length[i] > 0
                 THEN chunks \cup {<<start, end - 1>>} ELSE chunks
    /\ IF end > section[2]
       THEN chunking' = "section" /\ UNCHANGED <<start, end, chars>>
       ELSE start' = NextStart /\ end' = NextStart /\ chars' = 0 /\ UNCHANGED chunking
    /\ UNCHANGED <<source, sections, section>>

ChunksNext == NextSection \/ TakeLine \/ EmitWindow

ChunksSpec == ChunksInit /\ [][ChunksNext]_chunksVars
-----------------------------------------------------------------------------

ChunksTypeOK ==
    /\ source \in Sources
    /\ chunking \in {"section", "window"}
    /\ sections \in Seq(SectionsOf(source.length)) /\ section \in SectionsOf(source.length)
    /\ start \in Nat \ {0} /\ end \in Nat \ {0} /\ chars \in Nat
    /\ chunks \subseteq Nat \X Nat

InChunk(i) == \E c \in chunks : c[1] <= i /\ i <= c[2]

(***************************************************************************)
(* No line is lost between windows: when a file is cut, every line with    *)
(* text that is to be cut (in a definition, if the file has any) lies in a *)
(* chunk, however long its lines are and however far the windows overlap.  *)
(* (code_chunker.py:252-315)                                               *)
(***************************************************************************)
LinesCovered ==
    chunking = "section" /\ sections = <<>> =>
        \A i \in 1..Len(source.length) :
            /\ source.length[i] > 0
            /\ source.defs = <<>> \/ \E d \in DOMAIN source.defs :
                   source.defs[d][1] <= i /\ i <= source.defs[d][2]
            => InChunk(i)
=============================================================================
