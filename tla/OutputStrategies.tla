-------------------------- MODULE OutputStrategies --------------------------
(***************************************************************************)
(* The strategies that shorten the output of a command by what it is:      *)
(* tests, diffs, progress, access logs, matches, violations, paths,        *)
(* warnings, large reprs, listings, sources.  Sources: src/filter/         *)
(* adapters/strategies/, src/filter/core/log_template.py and               *)
(* code_skeleton.py (of a slice)                                           *)
(*                                                                         *)
(* A line is its kind.  A result is a sequence of items, lines of the      *)
(* output and markers, each with the numbers of the lines it stands for.   *)
(* filter_bash uses the first two; the others belong to profiles of the    *)
(* registry.                                                               *)
(***************************************************************************)
EXTENDS Naturals, Sequences, FiniteSets

LOCAL INSTANCE SequencesExt

CONSTANTS
    Outputs,        \* [Strategy -> outputs to try], as sequences of kinds
    ContextWindow,  \* context_window
    SamplePer,      \* sample_per_file and so on
    SomeOthers,     \* lines shown that belong to no group (5)
    Threshold,      \* threshold of a tree, or of a block
    HeadLines,      \* head_lines of a block
    TailOfBlock     \* tail_lines of a block

Strategy == {"test_runner", "diff_hunk", "progress", "keep", "match_group", "lint_group",
             "tree_condense", "warning_group", "repr_fold", "stats_extract", "slice"}

ASSUME StrategyAssumption ==
    /\ DOMAIN Outputs = Strategy
    /\ {ContextWindow, SamplePer, SomeOthers, HeadLines, TailOfBlock} \subseteq Nat
    /\ Threshold \in Nat /\ HeadLines + TailOfBlock <= Threshold + 1 /\ TailOfBlock > 0

VARIABLES
    strategy,   \* the strategy of the profile that matches
    output,     \* the output
    shortened,  \* the result
    tally,      \* tests passed, failed, skipped
    answered    \* it is there

strategyVars == <<strategy, output, shortened, tally, answered>>

Shows(i) == [is |-> "line", of |-> {i}, count |-> 0]
Marks(lines, count) == [is |-> "marker", of |-> lines, count |-> count]
Rows(from, to) == [k \in 1..(IF to < from THEN 0 ELSE to - from + 1) |-> Shows(from + k - 1)]
RowsOf(lines) == [k \in DOMAIN lines |-> Shows(lines[k])]

\* Numbers of the lines of some kinds, in order.
Of(kinds) == SelectSeq([i \in DOMAIN output |-> i], LAMBDA i : output[i] \in kinds)
First(lines, n) == SubSeq(lines, 1, IF n < Len(lines) THEN n ELSE Len(lines))
Rest(lines, n) == SubSeq(lines, n + 1, Len(lines))

StrategiesInit ==
    /\ strategy \in Strategy /\ output \in Outputs[strategy]
    /\ shortened = <<>> /\ tally = <<0, 0, 0>> /\ answered = FALSE

\* Runs of lines that are dropped become a marker each, the others stay.
WithGaps(dropped) ==
    FlattenSeq([i \in DOMAIN output |->
        IF i \notin dropped THEN <<Shows(i)>>
        ELSE IF i + 1 \in dropped THEN <<>>
        ELSE LET gap == {j \in 1..i : j..i \subseteq dropped} IN <<Marks(gap, Cardinality(gap))>>])

\* The lines that are dropped are counted at the end.
Dropping(dropped) ==
    RowsOf(SelectSeq([i \in DOMAIN output |-> i], LAMBDA i : i \notin dropped))
      \o (IF dropped = {} THEN <<>> ELSE <<Marks(dropped, Cardinality(dropped))>>)
-----------------------------------------------------------------------------

\* Results on one line, and what a header continues to.
Outcome(kind) ==
    CASE kind \in {"PASSED", "test ... ok", "doc ... ok"} -> "passed"
      [] kind \in {"FAILED", "test ... FAIL", "doc ... FAIL"} -> "failed"
      [] kind = "skipped" -> "skipped"
      [] OTHER -> "none"

Continued(tests, i) ==
    /\ i < Len(tests) /\ output[tests[i]] = "test"
    /\ output[tests[i + 1]] \in {"test ... ok", "test ... FAIL", "doc ... ok", "doc ... FAIL"}

\* Lines that belong together, with their outcome.
Units(tests) ==
    LET from[i \in 1..(Len(tests) + 2)] ==
          IF i > Len(tests) THEN <<>>
          ELSE IF Continued(tests, i)
          THEN <<[of |-> <<tests[i], tests[i + 1]>>, outcome |-> Outcome(output[tests[i + 1]])]>>
                 \o from[i + 2]
          ELSE <<[of |-> <<tests[i]>>,
                  outcome |-> IF output[tests[i]] \in {"doc ... ok", "doc ... FAIL"} THEN "none"
                              ELSE Outcome(output[tests[i]])]>> \o from[i + 1]
    IN from[1]

\* Mutant: what is skipped is folded as well.
FoldsSkipped(unit) == unit.outcome \in {"passed", "skipped"}

Folds(unit) == unit.outcome = "passed"

\* fold_test_output: each run of passing tests is a marker.
Folded(units) ==
    FlattenSeq([i \in DOMAIN units |->
        IF ~Folds(units[i]) THEN RowsOf(units[i].of)
        ELSE IF i < Len(units) /\ Folds(units[i + 1]) THEN <<>>
        ELSE LET run == {j \in 1..i : \A k \in j..i : Folds(units[k])} IN
             <<Marks(UNION {ToSet(units[j].of) : j \in run}, Cardinality(run))>>])

Counted(units, outcome) == Cardinality({i \in DOMAIN units : units[i].outcome = outcome})

TestRunner ==
    /\ strategy = "test_runner" /\ ~answered
    /\ LET units == Units(SelectSeq([i \in DOMAIN output |-> i], LAMBDA i : output[i] # "noise")) IN
       /\ shortened' = Folded(units)
       /\ tally' = <<Counted(units, "passed"), Counted(units, "failed"), Counted(units, "skipped")>>
    /\ answered' = TRUE /\ UNCHANGED <<strategy, output>>

\* A removed line that starts with "--" looks like a header without being one.
IsChange(kind) == kind \in {"+", "-"}

Near(i) == \E j \in DOMAIN output :
    IsChange(output[j]) /\ i \in (IF j > ContextWindow THEN j - ContextWindow ELSE 1)..(j + ContextWindow)

DiffHunk == WithGaps({i \in DOMAIN output : output[i] \notin {"diff --git", "@@"} /\ ~Near(i)})

\* pip and access logs: what is to keep is kept, whatever else it looks like.
Progress == Dropping({i \in DOMAIN output : output[i] = "progress"})

\* git log: only what is to keep.
Keep == Dropping({i \in DOMAIN output : output[i] # "kept"})

Sampled(kind) ==
    LET lines == Of({kind})
        more == Rest(lines, SamplePer) IN
    <<Marks({}, 0)>> \o RowsOf(First(lines, SamplePer))
      \o (IF more = <<>> THEN <<>> ELSE <<Marks(ToSet(more), Len(more))>>)

Groups == SelectSeq(<<"a", "b">>, LAMBDA g : Of({g}) # <<>>)
Grouping == FlattenSeq([g \in DOMAIN Groups |-> Sampled(Groups[g])])

\* Lines of no group are cut without a marker.
MatchGroup ==
    IF Groups = <<>> THEN Rows(1, Len(output))
    ELSE RowsOf(First(Of({"other", "passed on"}), SomeOthers)) \o Grouping \o <<Marks({}, 0)>>

LintGroup ==
    IF Groups = <<>> THEN Rows(1, Len(output))
    ELSE RowsOf(First(Of({"other"}), SomeOthers)) \o Grouping \o RowsOf(Of({"passed on"}))

TreeCondense ==
    IF Len(Of({"a", "b"})) < Threshold THEN Rows(1, Len(output))
    ELSE RowsOf(Of({"other", "passed on"})) \o <<Marks({}, 0)>> \o Grouping

\* Warnings of one template are "a", or "b".
WarningGroup ==
    LET again(kind) == Rest(Of({kind}), 1) IN
    RowsOf(SelectSeq([i \in DOMAIN output |-> i], LAMBDA i :
               ~\E k \in {"a", "b"} : i \in ToSet(again(k))))
      \o FlattenSeq([g \in DOMAIN Groups |->
             IF again(Groups[g]) = <<>> THEN <<>>
             ELSE <<Marks(ToSet(again(Groups[g])), Len(again(Groups[g])))>>])

\* A block from its start to the end of the repr, or of the output.
BlockEnd(i) ==
    IF \E j \in (i + 1)..Len(output) : output[j] = "end"
    THEN CHOOSE j \in (i + 1)..Len(output) :
             output[j] = "end" /\ \A k \in (i + 1)..(j - 1) : output[k] # "end"
    ELSE Len(output)

ReprFold ==
    LET from[i \in 1..(Len(output) + 1)] ==
          IF i > Len(output) THEN <<>>
          ELSE IF output[i] # "start" THEN <<Shows(i)>> \o from[i + 1]
          ELSE LET last == BlockEnd(i) size == last - i + 1 IN
               (IF size <= Threshold THEN Rows(i, last)
                ELSE Rows(i, i + HeadLines - 1)
                       \o <<Marks((i + HeadLines)..(last - TailOfBlock), size - HeadLines - TailOfBlock)>>
                       \o Rows(last - TailOfBlock + 1, last))
                 \o from[last + 1]
    IN from[1]

\* A section is its heading and the indented lines after it.
StatsExtract ==
    LET from[i \in 1..(Len(output) + 1)] ==
          IF i > Len(output) THEN <<>>
          ELSE IF output[i] # "section" THEN <<Shows(i)>> \o from[i + 1]
          ELSE LET body == {j \in (i + 1)..Len(output) : \A k \in (i + 1)..j : output[k] = "entry"}
                   last == i + Cardinality(body)
                   more == (i + SamplePer + 1)..last IN
               <<Shows(i)>> \o Rows(i + 1, IF more = {} THEN last ELSE i + SamplePer)
                 \o (IF more = {} THEN <<>> ELSE <<Marks(more, Cardinality(more))>>)
                 \o from[last + 1]
    IN from[1]

\* extract_python_slice_skeleton, where the source does not parse.
Slice == WithGaps({i \in DOMAIN output : output[i] # "signature"})

Shorten ==
    /\ strategy # "test_runner" /\ ~answered
    /\ shortened' = CASE strategy = "diff_hunk" -> DiffHunk
                      [] strategy = "progress" -> Progress
                      [] strategy = "keep" -> Keep
                      [] strategy = "match_group" -> MatchGroup
                      [] strategy = "lint_group" -> LintGroup
                      [] strategy = "tree_condense" -> TreeCondense
                      [] strategy = "warning_group" -> WarningGroup
                      [] strategy = "repr_fold" -> ReprFold
                      [] strategy = "stats_extract" -> StatsExtract
                      [] strategy = "slice" -> Slice
    /\ answered' = TRUE /\ UNCHANGED <<strategy, output, tally>>

\* A slice that is hardly shorter without its bodies is left alone.
LeaveSlice ==
    /\ strategy = "slice" /\ ~answered
    /\ shortened' = Rows(1, Len(output))
    /\ answered' = TRUE /\ UNCHANGED <<strategy, output, tally>>

StrategiesNext == TestRunner \/ Shorten \/ LeaveSlice

StrategiesSpec == StrategiesInit /\ [][StrategiesNext]_strategyVars
-----------------------------------------------------------------------------

StrategiesTypeOK ==
    /\ strategy \in Strategy /\ output \in Outputs[strategy] /\ answered \in BOOLEAN
    /\ shortened \in Seq([is : {"line", "marker"}, of : SUBSET (DOMAIN output), count : Nat])
    /\ tally \in Seq(0..Len(output))

KeptLines == UNION {shortened[i].of : i \in {j \in DOMAIN shortened : shortened[j].is = "line"}}
Marked == UNION {shortened[i].of : i \in {j \in DOMAIN shortened : shortened[j].is = "marker"}}

\* Lines that go without a trace: noise, and all but some lines of no group.
Unmarked ==
    CASE strategy = "test_runner" -> {i \in DOMAIN output : output[i] = "noise"}
      [] strategy \in {"match_group", "lint_group"} ->
             ToSet(Rest(Of(IF strategy = "lint_group" THEN {"other"} ELSE {"other", "passed on"}),
                        SomeOthers))
      [] OTHER -> {}

(***************************************************************************)
(* The agent can rely on what it gets: each line of the output is there    *)
(* once or under a marker, apart from Unmarked; a marker counts the lines  *)
(* it stands for, or the tests; tests that did not pass, changed lines of  *)
(* a diff and lines to keep stay, and as many tests are counted as there   *)
(* are results.  (log_template.py:97-223, diff_hunk.py:19-50 and the       *)
(* strategies)                                                             *)
(***************************************************************************)
FailuresVisible ==
    answered =>
        /\ DOMAIN output \ Unmarked \subseteq KeptLines \cup Marked /\ KeptLines \cap Marked = {}
        /\ \A i, j \in DOMAIN shortened : i # j => shortened[i].of \cap shortened[j].of = {}
        /\ \A i \in DOMAIN shortened :
             LET m == shortened[i]
                 tests == {j \in m.of : Outcome(output[j]) = "passed"} IN
             m.is = "marker" =>
                 m.count = Cardinality(IF strategy = "test_runner" THEN tests ELSE m.of)
        /\ \A i \in Marked : Outcome(output[i]) \notin {"failed", "skipped"}
                               /\ ~IsChange(output[i]) /\ output[i] # "kept"
        /\ strategy = "test_runner" =>
             tally[1] = Cardinality({i \in Marked : Outcome(output[i]) = "passed"})
=============================================================================
