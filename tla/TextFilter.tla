----------------------------- MODULE TextFilter -----------------------------
(***************************************************************************)
(* How a text is shortened before an agent or an LLM gets it: comments and *)
(* blank lines filtered, repeated lines and similar errors merged, the     *)
(* middle cut out, the rest summarized as head, errors, warnings and tail. *)
(* Sources: src/filter/core/ (shorter.py, filter.py, dedup.py,             *)
(* truncation.py, summarizer.py, adaptive.py) and src/filter/plugin.py     *)
(*                                                                         *)
(* A line of the text is its kind; two lines of a kind are equal.  What a  *)
(* stage returns is a sequence of items, lines and markers, each with the  *)
(* numbers of the lines it stands for.  Left out: what the plugin cuts     *)
(* from the end when characters exceed a budget.                           *)
(***************************************************************************)
EXTENDS Naturals, Sequences, FiniteSets

LOCAL INSTANCE SequencesExt

CONSTANTS
    Texts,          \* texts to try, sequences of kinds
    MaxAdjacent,    \* max_adjacent: equal lines that are left alone
    TruncateLines,  \* truncate_max_lines
    TailLines,      \* truncate_tail
    SummaryLines,   \* summarize_max_lines
    ShownErrors     \* errors, and warnings, in a summary

Kind == {"space", "comment", "/*", "/* */", "*/", "code", "error 1", "error 2", "warning"}

ASSUME TextAssumption ==
    /\ Texts \subseteq Seq(Kind)
    /\ MaxAdjacent \in Nat \ {0} /\ ShownErrors \in Nat /\ SummaryLines \in Nat
    /\ TailLines \in Nat \ {0} /\ TruncateLines \in Nat /\ TailLines <= TruncateLines

VARIABLES
    input,       \* the text
    preset,      \* the preset for its type
    stages,      \* stages still to come
    items,       \* the text by now
    summarized   \* it is a summary

textVars == <<input, preset, stages, items, summarized>>

Preset == {"code", "log", "generic", "memory", "memory of a read"}

\* make_code_shorter and so on; adaptive_shorten gives memory a limit, too.
StagesOf(p) ==
    CASE p = "code" -> <<"filter", "dedup", "truncate">>
      [] p = "log" -> <<"dedup", "summarize">>
      [] p = "generic" -> <<"filter", "dedup", "truncate", "summarize">>
      [] p = "memory" -> <<"filter", "group", "summarize">>
      [] p = "memory of a read" -> <<"filter", "group", "truncate", "summarize">>

Item(kind, lines, count) == [is |-> kind, of |-> lines, count |-> count]
Markers == {"repeated", "omitted", "heading"}
IsBlank(item) == item.is \in {"space", "blank"}
IsError(item) == item.is \in {"error 1", "error 2"}
IsWarning(item) == item.is = "warning"
LinesOf(part) == UNION {part[i].of : i \in DOMAIN part}

\* A text that ends in an empty line is read without it.
Rejoined(part) ==
    IF part # <<>> /\ Last(part).is = "blank" THEN Front(part) ELSE part

\* The type is guessed from patterns in the text.
TextInit ==
    /\ input \in Texts /\ preset \in Preset
    /\ stages = StagesOf(preset)
    /\ items = [i \in DOMAIN input |-> Item(input[i], {i}, 0)]
    /\ summarized = FALSE
-----------------------------------------------------------------------------

\* A comment is open behind its first line, if it ends there too.
InBlock(part, i) ==
    \E j \in 1..(i - 1) :
        /\ part[j].is \in {"/*", "/* */"}
        /\ \A k \in (j + 1)..(i - 1) : part[k].is # "*/"

Comments == {"comment", "/*", "/* */", "*/"}

\* Blank lines become empty and are not repeated.
Uncommented(part) ==
    LET kept == SelectSeq([i \in DOMAIN part |-> [item |-> part[i], drop |->
                    part[i].is \in Comments \/ InBlock(part, i)]], LAMBDA l : ~l.drop)
        lines == [i \in DOMAIN kept |->
                    IF IsBlank(kept[i].item) THEN [kept[i].item EXCEPT !.is = "blank"]
                    ELSE kept[i].item]
    IN FlattenSeq([i \in DOMAIN lines |->
           IF i > 1 /\ IsBlank(lines[i]) /\ IsBlank(lines[i - 1]) THEN <<>> ELSE <<lines[i]>>])

Stripped(part) ==
    LET text == {i \in DOMAIN part : ~IsBlank(part[i])} IN
    IF text = {} THEN <<>>
    ELSE SubSeq(part, CHOOSE i \in text : \A j \in text : i <= j,
                      CHOOSE i \in text : \A j \in text : i >= j)

\* The text is left alone if it has no fewer lines after.
Filter ==
    /\ stages # <<>> /\ Head(stages) = "filter"
    /\ items' = IF Len(Uncommented(items)) < Len(items) THEN Stripped(Uncommented(items))
                ELSE items
    /\ stages' = Tail(stages) /\ UNCHANGED <<input, preset, summarized>>

\* Lines from i on that equal line i.
Run(part, i) ==
    {j \in i..Len(part) : \A k \in i..j : part[k].is = part[i].is}

\* A run, or its first line and how often it was repeated.
Collapsed(part, i) ==
    LET count == Cardinality(Run(part, i)) IN
    IF count > MaxAdjacent
    THEN <<part[i], Item("repeated", LinesOf(SubSeq(part, i + 1, i + count - 1)), count - 1)>>
    ELSE SubSeq(part, i, i + count - 1)

Deduplicated(part) ==
    FlattenSeq([i \in DOMAIN part |->
        LET first == i = 1 \/ part[i - 1].is # part[i].is IN
        IF IsBlank(part[i])
        THEN IF i > 1 /\ ~IsBlank(part[i - 1]) THEN <<Item("blank", part[i].of, 0)>> ELSE <<>>
        ELSE IF first THEN Collapsed(part, i) ELSE <<>>])

Dedup ==
    /\ stages # <<>> /\ Head(stages) = "dedup"
    /\ items' = Rejoined(Deduplicated(items))
    /\ stages' = Tail(stages) /\ UNCHANGED <<input, preset, summarized>>

\* The normalized error or warning has been seen before.
Seen(part, i) ==
    \E j \in 1..(i - 1) :
        \/ IsError(part[i]) /\ IsError(part[j])
        \/ IsWarning(part[i]) /\ IsWarning(part[j])

\* The lines of a run are not passed over, so that each starts a run again.
Grouped(part) ==
    FlattenSeq([i \in DOMAIN part |->
        IF IsBlank(part[i]) THEN <<part[i]>>
        ELSE IF Seen(part, i) THEN <<>> ELSE Collapsed(part, i)])

Group ==
    /\ stages # <<>> /\ Head(stages) = "group"
    /\ items' = Rejoined(Grouped(items))
    /\ stages' = Tail(stages) /\ UNCHANGED <<input, preset, summarized>>

Fewer(a, b) == IF a < b THEN a ELSE b
HeadLength == Fewer(TruncateLines \div 2, TruncateLines - TailLines)
TailLength == Fewer(TailLines, TruncateLines - HeadLength)

\* The marker starts with a line break.
Truncated(part) ==
    LET last == Len(part) - TailLength
        middle == SubSeq(part, HeadLength + 1, last) IN
    SubSeq(part, 1, HeadLength)
      \o <<Item("blank", {}, 0), Item("omitted", LinesOf(middle), Len(middle))>>
      \o SubSeq(part, last + 1, Len(part))

Truncate ==
    /\ stages # <<>> /\ Head(stages) = "truncate"
    /\ items' = IF Len(items) > TruncateLines THEN Truncated(items) ELSE items
    /\ stages' = Tail(stages) /\ UNCHANGED <<input, preset, summarized>>

\* Mutant: the latest errors are shown.
ShownLast(part) == SubSeq(part, Len(part) - Fewer(Len(part), ShownErrors) + 1, Len(part))

Shown(part) == SubSeq(part, 1, Fewer(Len(part), ShownErrors))

KindsIn(part) == [i \in DOMAIN part |-> part[i].is]
LastOf(part, n) == SubSeq(part, Len(part) - Fewer(Len(part), n) + 1, Len(part))

\* The head, the first errors and warnings of the whole, and the tail.
Summary(part) ==
    LET head == SubSeq(part, 1, SummaryLines \div 2)
        quarter == (SummaryLines + 3) \div 4
        tail == LastOf(part, quarter)
        Under(some) == IF some = <<>> THEN <<>> ELSE <<Item("heading", {}, 0)>> \o some
    IN head \o Under(Shown(SelectSeq(part, IsError))) \o Under(Shown(SelectSeq(part, IsWarning)))
         \o (IF KindsIn(tail) = KindsIn(LastOf(head, quarter)) THEN <<>> ELSE Under(tail))

\* A summary that saves no characters is not used.
Summarize ==
    /\ stages # <<>> /\ Head(stages) = "summarize"
    /\ \/ /\ Len(items) > SummaryLines
          /\ items' = Summary(items) /\ summarized' = TRUE
       \/ UNCHANGED <<items, summarized>>
    /\ stages' = Tail(stages) /\ UNCHANGED <<input, preset>>

\* One that is not 5 % shorter is not used either, or the result is unchanged.
GiveBack ==
    /\ stages = <<>>
    /\ items' = [i \in DOMAIN input |-> Item(input[i], {i}, 0)]
    /\ summarized' = FALSE /\ UNCHANGED <<input, preset, stages>>

TextNext == Filter \/ Dedup \/ Group \/ Truncate \/ Summarize \/ GiveBack

TextSpec == TextInit /\ [][TextNext]_textVars
-----------------------------------------------------------------------------

TextTypeOK ==
    /\ input \in Texts /\ preset \in Preset /\ summarized \in BOOLEAN
    /\ stages \in Seq({"filter", "dedup", "group", "truncate", "summarize"})
    /\ items \in Seq([is : Kind \cup Markers \cup {"blank"}, of : SUBSET (DOMAIN input),
                      count : Nat])

\* Lines that no preset is meant to drop: for one that filters, not those of
\* comments, a comment on one line taken for one that is open.
TextLines ==
    LET all == [i \in DOMAIN input |-> Item(input[i], {i}, 0)] IN
    {i \in DOMAIN input : input[i] # "space"
        /\ (preset # "log" => input[i] \notin Comments /\ ~InBlock(all, i))}

(***************************************************************************)
(* Nothing is lost silently: unless the text is a summary every line with  *)
(* text is in the result or under a marker; where errors are not grouped,  *)
(* once, and no marker counts more lines than it stands for.  A summary of *)
(* a log or of memory has the first errors of the text, or like ones,      *)
(* wherever they were.  (shorter.py:65-130, dedup.py:52-185,               *)
(* truncation.py:40-90, summarizer.py:49-84)                               *)
(***************************************************************************)
LinesAccounted ==
    stages = <<>> =>
        /\ ~summarized => TextLines \subseteq
             LinesOf(items) \cup (IF preset \in {"memory", "memory of a read"}
                                THEN {i \in DOMAIN input : input[i] \in {"error 1", "error 2", "warning"}}
                                ELSE {})
        /\ ~summarized /\ preset \in {"code", "log", "generic"} =>
             \A i, j \in DOMAIN items :
                 /\ items[i].count <= Cardinality(items[i].of)
                 /\ i # j => items[i].of \cap items[j].of = {}
        /\ preset \in {"log", "memory"} =>
             LET errors == {i \in TextLines : input[i] \in {"error 1", "error 2"}} IN
             \A i \in errors :
                 Cardinality({j \in errors : j < i}) < ShownErrors =>
                     \E k \in DOMAIN items :
                         IF preset = "log" THEN items[k].is = input[i] ELSE IsError(items[k])
=============================================================================
