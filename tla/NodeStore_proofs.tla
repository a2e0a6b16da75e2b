-------------------------- MODULE NodeStore_proofs --------------------------
(***************************************************************************)
(* Theorems of NodeStore, for any threads, candidates, merge policies and  *)
(* budgets, with or without storage faults.                                *)
(***************************************************************************)
EXTENDS NodeStore, TLAPS

\* The values the functions of the threads, and the repair job, may have.
Reading == {"exists", "readMeta", "readContent", "readOverview"}
Planning == NodeFile \cup {"check", "mkdir", "mark"}
Place == Planning \cup Reading \cup {"idle"}
AnyPlan == [action : {"none", "create", "merge"}, expected : Nat,
            base : [Bodies -> SUBSET Cand]]
Result == {"none", "written", "duplicate", "skipped", "raised", "gave up"}
Visit == [at : {"idle", "fresh", "read", "reread", "update"},
          seen : SUBSET NodeFile, status : Status, version : Nat, stale : BOOLEAN]
Meta == [status : Status, version : Nat]
Budget == [calls : Nat, deletes : Nat, repairs : Nat, crashes : Nat]

StoreOK ==
    /\ policy \in Policies
    /\ dir \in BOOLEAN /\ files \subseteq NodeFile
    /\ body \in [Bodies -> SUBSET Cand]
    /\ meta \in Meta
    /\ repair \in Visit
    /\ left \in Budget
    /\ beaten \in [Thread -> 0..MaxAttempts]
    /\ accepted \subseteq written /\ written \subseteq Cand
    /\ raced \in BOOLEAN /\ cut \in BOOLEAN

ThreadsOK ==
    /\ at \in [Thread -> Place]
    /\ cand \in [Thread -> Cand \cup {NoCand}]
    /\ plan \in [Thread -> AnyPlan]
    /\ attempt \in [Thread -> 0..MaxAttempts]
    /\ executed \subseteq {"create", "merge"} \X Cand
    /\ outcome \in [Thread -> Result]

\* A thread that is in a call has a candidate, and what it writes was planned.
CallsOK ==
    \A t \in Thread :
        /\ at[t] # "idle" => cand[t] \in Cand /\ attempt[t] < MaxAttempts
        /\ at[t] \in Planning => plan[t].action # "none"

TypesInv == StoreOK /\ ThreadsOK /\ CallsOK

(***************************************************************************)
(* What the starting values are.                                           *)
(***************************************************************************)
LEMMA StartTypes ==
    /\ NoPlan \in AnyPlan /\ Idle \in Visit /\ Idle.at = "idle"
    /\ "idle" \notin Planning \cup Reading /\ Reading \cap Planning = {}
    /\ NodeFile \subseteq Planning /\ Required \subseteq NodeFile
BY DEF NoPlan, AnyPlan, Idle, Visit, Status, Planning, Reading, NodeFile, Required

(***************************************************************************)
(* A call that ends, and one that goes on to its next step with the plan   *)
(* it has, keep the types of the threads.                                  *)
(***************************************************************************)
LEMMA EndTypes ==
    ASSUME ThreadsOK, CallsOK, NEW t \in Thread, NEW result \in Result,
           End(t, result), UNCHANGED <<cand, plan, attempt, executed>>
    PROVE  ThreadsOK' /\ CallsOK'
<1>1. ThreadsOK'
  BY DEF ThreadsOK, End, Place
<1>2. CallsOK'
  BY StartTypes DEF ThreadsOK, CallsOK, End
<1> QED
  BY <1>1, <1>2

LEMMA MoveTypes ==
    ASSUME ThreadsOK, CallsOK, NEW t \in Thread, at[t] # "idle",
           NEW p \in Planning \cup Reading,
           p \in Planning => at[t] \in Planning,
           at' = [at EXCEPT ![t] = p],
           UNCHANGED <<outcome, cand, plan, attempt, executed>>
    PROVE  ThreadsOK' /\ CallsOK'
<1>1. ThreadsOK'
  BY DEF ThreadsOK, Place
<1>2. CallsOK'
  BY DEF ThreadsOK, CallsOK
<1> QED
  BY <1>1, <1>2

(***************************************************************************)
(* A call that reads on keeps them whatever it adds to its plan; one whose *)
(* plan is made looks its operation up among those done before.            *)
(***************************************************************************)
LEMMA ReadTypes ==
    ASSUME ThreadsOK, CallsOK, NEW t \in Thread, at[t] # "idle",
           NEW p \in Reading, NEW q \in AnyPlan,
           at' = [at EXCEPT ![t] = p], plan' = [plan EXCEPT ![t] = q],
           UNCHANGED <<outcome, cand, attempt, executed>>
    PROVE  ThreadsOK' /\ CallsOK'
<1>1. ThreadsOK'
  BY DEF ThreadsOK, Place
<1>2. CallsOK'
  BY StartTypes DEF ThreadsOK, CallsOK
<1> QED
  BY <1>1, <1>2

LEMMA PlannedTypes ==
    ASSUME ThreadsOK, CallsOK, NEW t \in Thread, at[t] # "idle",
           NEW q \in AnyPlan, q.action # "none",
           Planned(t, q), UNCHANGED <<cand, attempt, executed>>
    PROVE  ThreadsOK' /\ CallsOK'
<1>1. plan' \in [Thread -> AnyPlan] /\ plan' = [plan EXCEPT ![t] = q]
  BY DEF Planned, ThreadsOK
<1>2. CASE End(t, "duplicate")
  <2>1. ThreadsOK'
    BY <1>1, <1>2 DEF End, ThreadsOK, Place, Result
  <2>2. CallsOK'
    BY <1>1, <1>2, StartTypes DEF End, ThreadsOK, CallsOK
  <2> QED
    BY <2>1, <2>2
<1>3. CASE at' = [at EXCEPT ![t] = "check"] /\ UNCHANGED outcome
  <2>1. ThreadsOK'
    BY <1>1, <1>3 DEF ThreadsOK, Place, Planning
  <2>2. CallsOK'
    BY <1>1, <1>3 DEF ThreadsOK, CallsOK
  <2> QED
    BY <2>1, <2>2
<1> QED
  BY <1>2, <1>3 DEF Planned

LEMMA OvertakeTypes ==
    ASSUME beaten \in [Thread -> 0..MaxAttempts], NEW others, Overtake(others)
    PROVE  beaten' \in [Thread -> 0..MaxAttempts]
BY NodeAssumption DEF Overtake
-----------------------------------------------------------------------------
(***************************************************************************)
(* Every variable of the node store keeps its type.                        *)
(***************************************************************************)
THEOREM NodeTypes == NodeSpec => [](NodeTypeOK /\ TypesInv)
<1> USE NodeAssumption, StartTypes
<1>1. NodeInit => TypesInv
  <2> SUFFICES ASSUME NodeInit PROVE TypesInv
    OBVIOUS
  <2>1. meta \in Meta
    BY DEF NodeInit, Meta, Status
  <2>2. left \in Budget
    BY DEF NodeInit, Budget
  <2>3. beaten \in [Thread -> 0..MaxAttempts] /\ body \in [Bodies -> SUBSET Cand]
    BY DEF NodeInit
  <2>4. repair \in Visit /\ raced \in BOOLEAN /\ cut \in BOOLEAN /\ dir \in BOOLEAN
    BY DEF NodeInit
  <2>5. StoreOK
    BY <2>1, <2>2, <2>3, <2>4 DEF NodeInit, StoreOK
  <2>6. ThreadsOK
    BY DEF NodeInit, ThreadsOK, Place, Result
  <2>7. CallsOK
    BY DEF NodeInit, CallsOK
  <2> QED
    BY <2>5, <2>6, <2>7 DEF TypesInv
<1>2. TypesInv /\ [NodeNext]_nodeVars => TypesInv'
  <2> SUFFICES ASSUME TypesInv, [NodeNext]_nodeVars PROVE TypesInv'
    OBVIOUS
  <2> USE DEF TypesInv
  <2>1. ASSUME NEW t \in Thread, NEW c \in Cand, Call(t, c) PROVE TypesInv'
    <3>1. left' \in Budget
      BY <2>1 DEF Call, StoreOK, Budget
    <3>2. beaten' \in [Thread -> 0..MaxAttempts]
      BY <2>1 DEF Call, StoreOK
    <3>3. StoreOK'
      BY <2>1, <3>1, <3>2 DEF Call, StoreOK, nodeFiles
    <3>4. ThreadsOK'
      <4>1. attempt' \in [Thread -> 0..MaxAttempts] /\ plan' \in [Thread -> AnyPlan]
        BY <2>1 DEF Call, ThreadsOK
      <4>2. at' \in [Thread -> Place] /\ outcome' \in [Thread -> Result]
            /\ cand' \in [Thread -> Cand \cup {NoCand}] /\ UNCHANGED executed
        BY <2>1 DEF Call, ThreadsOK, Place, Reading, Result
      <4> QED
        BY <4>1, <4>2 DEF ThreadsOK
    <3>5. at'[t] = "exists" /\ cand'[t] = c /\ attempt'[t] = 0
      BY <2>1 DEF Call, ThreadsOK
    <3>6. \A u \in Thread \ {t} :
             at'[u] = at[u] /\ cand'[u] = cand[u] /\ attempt'[u] = attempt[u] /\ plan'[u] = plan[u]
      BY <2>1 DEF Call, ThreadsOK
    <3>7. CallsOK'
      BY <3>5, <3>6 DEF CallsOK, Reading
    <3> QED
      BY <3>3, <3>4, <3>7
  <2>2. ASSUME NEW t \in Thread, Exists(t) PROVE TypesInv'
    <3>1. StoreOK' /\ at[t] = "exists" /\ UNCHANGED <<cand, attempt, executed>>
      BY <2>2 DEF Exists, StoreOK, nodeFiles
    <3>2. CASE ~Active
      <4>1. [NoPlan EXCEPT !.action = "create"] \in AnyPlan
        BY DEF NoPlan, AnyPlan
      <4>2. [NoPlan EXCEPT !.action = "create"].action # "none"
        BY DEF NoPlan
      <4>3. Planned(t, [NoPlan EXCEPT !.action = "create"])
        BY <2>2, <3>2 DEF Exists
      <4> QED
        BY <3>1, <4>1, <4>2, <4>3, PlannedTypes
    <3>3. CASE Active /\ policy = "chunk"
      BY <2>2, <3>1, <3>3, EndTypes DEF Exists, Result
    <3>4. CASE Active /\ policy # "chunk"
      BY <2>2, <3>1, <3>4, MoveTypes DEF Exists, Reading
    <3> QED
      BY <3>2, <3>3, <3>4
  <2>3. ASSUME NEW t \in Thread, ReadMeta(t) PROVE TypesInv'
    <3>1. StoreOK' /\ UNCHANGED <<cand, attempt, executed>> /\ at[t] = "readMeta"
      BY <2>3 DEF ReadMeta, StoreOK, nodeFiles
    <3>2. CASE Active
      <4>1. meta.version \in Nat
        BY DEF StoreOK, Meta
      <4>2. [NoPlan EXCEPT !.expected = meta.version] \in AnyPlan
        BY <4>1 DEF NoPlan, AnyPlan
      <4> QED
        BY <2>3, <3>1, <3>2, <4>2, ReadTypes DEF ReadMeta, Reading
    <3>3. CASE ~Active
      BY <2>3, <3>1, <3>3, EndTypes DEF ReadMeta, Result
    <3> QED
      BY <3>2, <3>3
  <2>4. ASSUME NEW t \in Thread, ReadContent(t) PROVE TypesInv'
    <3>1. StoreOK' /\ UNCHANGED <<cand, attempt, executed>> /\ at[t] = "readContent"
      BY <2>4 DEF ReadContent, StoreOK, nodeFiles
    <3>2. CASE "content" \in files
      <4> DEFINE q == [plan[t] EXCEPT !.base["content"] = Base("content")]
      <4>1. Base("content") \in SUBSET Cand
        BY DEF Base, StoreOK, Bodies
      <4>2. plan[t] \in AnyPlan
        BY DEF ThreadsOK
      <4>3. q \in AnyPlan
        BY <4>1, <4>2 DEF AnyPlan, Bodies
      <4>4. plan' = [plan EXCEPT ![t] = q] /\ at' = [at EXCEPT ![t] = "readOverview"]
            /\ UNCHANGED outcome
        BY <2>4, <3>2 DEF ReadContent
      <4> HIDE DEF q
      <4> QED
        BY <3>1, <4>3, <4>4, ReadTypes DEF Reading
    <3>3. CASE ~("content" \in files)
      BY <2>4, <3>1, <3>3, EndTypes DEF ReadContent, Result
    <3> QED
      BY <3>2, <3>3
  <2>5. ASSUME NEW t \in Thread, ReadOverview(t) PROVE TypesInv'
    <3>1. StoreOK' /\ UNCHANGED <<cand, attempt, executed>> /\ at[t] = "readOverview"
      BY <2>5 DEF ReadOverview, StoreOK, nodeFiles
    <3>2. CASE {"abstract", "overview"} \subseteq files
      <4> DEFINE q == [plan[t] EXCEPT !.action = "merge",
                                      !.base["overview"] = Base("overview")]
      <4>1. Base("overview") \in SUBSET Cand
        BY DEF Base, StoreOK, Bodies
      <4>2. plan[t] \in AnyPlan
        BY DEF ThreadsOK
      <4>3. q \in AnyPlan /\ q.action # "none"
        BY <4>1, <4>2 DEF AnyPlan, Bodies
      <4>4. Planned(t, q)
        BY <2>5, <3>2 DEF ReadOverview
      <4> HIDE DEF q
      <4> QED
        BY <3>1, <4>3, <4>4, PlannedTypes
    <3>3. CASE ~({"abstract", "overview"} \subseteq files)
      BY <2>5, <3>1, <3>3, EndTypes DEF ReadOverview, Result
    <3> QED
      BY <3>2, <3>3
  <2>6. ASSUME NEW t \in Thread, Check(t) PROVE TypesInv'
    <3>1. UNCHANGED <<cand, plan, executed>> /\ at[t] = "check"
      BY <2>6 DEF Check
    <3>2. raced' \in BOOLEAN
      BY <2>6 DEF Check, StoreOK
    <3>3. StoreOK'
      BY <2>6, <3>2 DEF Check, StoreOK, nodeFiles
    <3>4. ASSUME attempt' = [attempt EXCEPT ![t] = @ + 1],
                 IF attempt[t] + 1 < MaxAttempts
                 THEN at' = [at EXCEPT ![t] = "exists"] /\ UNCHANGED outcome
                 ELSE End(t, "gave up")
          PROVE  ThreadsOK' /\ CallsOK'
      <4>1. attempt[t] \in 0..MaxAttempts /\ attempt[t] < MaxAttempts
        BY <3>1 DEF ThreadsOK, CallsOK
      <4>2. attempt[t] + 1 \in 0..MaxAttempts
        BY <4>1
      <4>3. attempt' \in [Thread -> 0..MaxAttempts]
        BY <3>4, <4>2 DEF ThreadsOK
      <4>4. at' \in [Thread -> Place] /\ outcome' \in [Thread -> Result]
        BY <3>4 DEF ThreadsOK, End, Place, Reading, Result
      <4>5. ThreadsOK'
        BY <3>1, <4>3, <4>4 DEF ThreadsOK
      <4>6. /\ at'[t] \in {"exists", "idle"}
            /\ at'[t] = "exists" => attempt'[t] < MaxAttempts
            /\ \A u \in Thread \ {t} : at'[u] = at[u] /\ attempt'[u] = attempt[u]
        BY <3>4 DEF ThreadsOK, End
      <4>7. CallsOK'
        BY <3>1, <4>6 DEF CallsOK, Reading
      <4> QED
        BY <4>5, <4>7
    <3>5. ASSUME at' = [at EXCEPT ![t] = "mkdir"], UNCHANGED <<attempt, outcome>>
          PROVE  ThreadsOK' /\ CallsOK'
      BY <3>1, <3>5, MoveTypes DEF Planning
    <3> QED
      BY <2>6, <3>3, <3>4, <3>5 DEF Check
  <2>7. ASSUME NEW t \in Thread, MakeDir(t) PROVE TypesInv'
    <3>1. StoreOK'
      BY <2>7 DEF MakeDir, StoreOK, history
    <3>2. at[t] = "mkdir" /\ "content" \in Planning /\ at' = [at EXCEPT ![t] = "content"]
          /\ UNCHANGED <<outcome, cand, plan, attempt, executed>>
      BY <2>7 DEF MakeDir, history, Planning, NodeFile, Required
    <3> QED
      BY <3>1, <3>2, MoveTypes DEF Planning
  <2>8. ASSUME NEW t \in Thread, WriteFile(t) PROVE TypesInv'
    <3>1. UNCHANGED <<cand, plan, attempt, executed>> /\ at[t] \in Required
      BY <2>8 DEF WriteFile
    <3>2. at[t] \in Planning
      BY <3>1
    <3>3. cand[t] \in Cand /\ plan[t].base \in [Bodies -> SUBSET Cand]
      BY <3>2 DEF CallsOK, ThreadsOK, AnyPlan
    <3>4. CASE dir
      <4>1. files' \subseteq NodeFile
        BY <2>8, <3>1, <3>4 DEF WriteFile, StoreOK
      <4>2. body' \in [Bodies -> SUBSET Cand]
        <5>1. body' = [f \in Bodies |-> IF f = at[t] THEN plan[t].base[f] \cup {cand[t]}
                                         ELSE body[f]]
          BY <2>8, <3>4 DEF WriteFile
        <5>2. \A f \in Bodies : plan[t].base[f] \cup {cand[t]} \in SUBSET Cand
                                /\ body[f] \in SUBSET Cand
          BY <3>3 DEF StoreOK
        <5> QED
          BY <5>1, <5>2
      <4>3. StoreOK'
        BY <2>8, <4>1, <4>2 DEF WriteFile, StoreOK
      <4>4. After[at[t]] \in Planning
        BY <3>1 DEF After, Required, Planning, NodeFile
      <4>5. at' = [at EXCEPT ![t] = After[at[t]]] /\ UNCHANGED outcome
        BY <2>8, <3>4 DEF WriteFile
      <4>6. ThreadsOK' /\ CallsOK'
        BY <3>1, <3>2, <4>4, <4>5, MoveTypes
      <4> QED
        BY <4>3, <4>6
    <3>5. CASE ~dir
      BY <2>8, <3>1, <3>5, EndTypes DEF WriteFile, StoreOK, Result
    <3> QED
      BY <3>4, <3>5
  <2>9. ASSUME NEW t \in Thread, Commit(t) PROVE TypesInv'
    <3>1. UNCHANGED <<cand, plan, attempt, executed>> /\ at[t] = "meta" /\ at[t] \in Planning
      BY <2>9 DEF Commit, Planning, NodeFile
    <3>2. cand[t] \in Cand /\ plan[t].expected \in Nat
      BY <3>1 DEF CallsOK, ThreadsOK, AnyPlan
    <3>3. CASE dir
      <4>1. beaten' \in [Thread -> 0..MaxAttempts]
        BY <2>9, <3>3, OvertakeTypes DEF Commit, StoreOK
      <4>2. repair' \in Visit
        BY <2>9, <3>3 DEF Commit, StoreOK, Visit
      <4>3. meta' \in Meta
        BY <2>9, <3>2, <3>3 DEF Commit, Status, Meta
      <4>4. files' \subseteq NodeFile
        BY <2>9, <3>3 DEF Commit, StoreOK, NodeFile
      <4>5. StoreOK'
        BY <2>9, <3>2, <3>3, <4>1, <4>2, <4>3, <4>4 DEF Commit, StoreOK
      <4>6. at' = [at EXCEPT ![t] = "mark"] /\ UNCHANGED outcome
        BY <2>9, <3>3 DEF Commit
      <4>7. ThreadsOK' /\ CallsOK'
        BY <3>1, <4>6, MoveTypes DEF Planning
      <4> QED
        BY <4>5, <4>7
    <3>4. CASE ~dir
      BY <2>9, <3>1, <3>4, EndTypes DEF Commit, StoreOK, Result
    <3> QED
      BY <3>3, <3>4
  <2>10. ASSUME NEW t \in Thread, Mark(t) PROVE TypesInv'
    <3>1. StoreOK' /\ at[t] = "mark" /\ UNCHANGED <<cand, plan, attempt>>
      BY <2>10 DEF Mark, StoreOK, nodeFiles
    <3>2. cand[t] \in Cand /\ plan[t].action \in {"create", "merge"}
      BY <3>1 DEF CallsOK, ThreadsOK, Planning, AnyPlan
    <3>3. executed' \subseteq {"create", "merge"} \X Cand
      BY <2>10, <3>2 DEF Mark, ThreadsOK
    <3>4. ThreadsOK'
      BY <2>10, <3>1, <3>3 DEF Mark, End, ThreadsOK, Place, Result
    <3>5. CallsOK'
      BY <2>10, <3>1 DEF Mark, End, ThreadsOK, CallsOK
    <3> QED
      BY <3>1, <3>4, <3>5
  <2>11. ASSUME NEW t \in Thread, Fail(t) PROVE TypesInv'
    BY <2>11, EndTypes DEF Fail, StoreOK, nodeFiles, Result
  <2>12. ASSUME RepairStep \/ Delete, StoreOK' PROVE TypesInv'
    <3>1. UNCHANGED threadVars /\ UNCHANGED <<executed, outcome>>
      BY <2>12 DEF RepairStep, RepairList, RepairRead, RepairReread, RepairWrite, Delete, history
    <3> QED
      BY <2>12, <3>1 DEF ThreadsOK, CallsOK, threadVars
  <2>13. ASSUME RepairList PROVE StoreOK'
    <3>1. repair' \in Visit
      BY <2>13 DEF RepairList, StoreOK, Visit, Status
    <3>2. left' \in Budget
      BY <2>13 DEF RepairList, StoreOK, Budget
    <3> QED
      BY <2>13, <3>1, <3>2 DEF RepairList, StoreOK, nodeFiles, history
  <2>14. ASSUME RepairRead PROVE StoreOK'
    <3>1. repair' \in Visit
      BY <2>14 DEF RepairRead, StoreOK, Visit, Status
    <3> QED
      BY <2>14, <3>1 DEF RepairRead, StoreOK, nodeFiles, history
  <2>15. ASSUME RepairReread PROVE StoreOK'
    <3>1. meta.version \in Nat
      BY DEF StoreOK, Meta
    <3>2. repair' \in Visit
      BY <2>15, <3>1 DEF RepairReread, StoreOK, Visit
    <3> QED
      BY <2>15, <3>2 DEF RepairReread, StoreOK, nodeFiles, history
  <2>16. ASSUME RepairWrite PROVE StoreOK'
    <3>1. beaten' \in [Thread -> 0..MaxAttempts]
      BY <2>16, OvertakeTypes DEF RepairWrite, StoreOK
    <3>2. meta' \in Meta
      BY <2>16 DEF RepairWrite, StoreOK, Meta, Visit
    <3>3. raced' \in BOOLEAN
      BY <2>16 DEF RepairWrite, StoreOK
    <3>4. repair' \in Visit /\ files' \subseteq NodeFile /\ dir' \in BOOLEAN
      BY <2>16 DEF RepairWrite, StoreOK, NodeFile
    <3> QED
      BY <2>16, <3>1, <3>2, <3>3, <3>4 DEF RepairWrite, StoreOK
  <2>17. ASSUME Delete PROVE StoreOK'
    <3>1. left' \in Budget
      BY <2>17 DEF Delete, StoreOK, Budget
    <3>2. meta' \in Meta
      BY <2>17 DEF Delete, Meta, Status
    <3>3. raced' \in BOOLEAN /\ cut' \in BOOLEAN
      BY <2>17 DEF Delete
    <3> QED
      BY <2>17, <3>1, <3>2, <3>3 DEF Delete, StoreOK
  <2>18. ASSUME Crash PROVE TypesInv'
    <3>1. left' \in Budget
      BY <2>18 DEF Crash, StoreOK, Budget
    <3>2. StoreOK'
      BY <2>18, <3>1 DEF Crash, StoreOK, nodeFiles
    <3>3. ThreadsOK'
      BY <2>18 DEF Crash, ThreadsOK, Place, Result
    <3>4. CallsOK'
      BY <2>18 DEF Crash, CallsOK
    <3> QED
      BY <3>2, <3>3, <3>4
  <2>19. CASE UNCHANGED nodeVars
    BY <2>19 DEF nodeVars, StoreOK, ThreadsOK, CallsOK, nodeFiles, threadVars, history
  <2> QED
    BY <2>1, <2>2, <2>3, <2>4, <2>5, <2>6, <2>7, <2>8, <2>9, <2>10, <2>11, <2>12,
       <2>13, <2>14, <2>15, <2>16, <2>17, <2>18, <2>19
       DEF NodeNext, ThreadStep, RepairStep
<1>3. TypesInv => NodeTypeOK
  <2>1. StoreOK => /\ meta \in [status : Status, version : Nat]
                   /\ left \in [calls : Nat, deletes : Nat, repairs : Nat, crashes : Nat]
                   /\ repair \in [at : {"idle", "fresh", "read", "reread", "update"},
                                  seen : SUBSET NodeFile, status : Status,
                                  version : Nat, stale : BOOLEAN]
    BY DEF StoreOK, Meta, Budget, Visit
  <2>2. Place = NodeFile \cup {"idle", "exists", "readMeta", "readContent",
                               "readOverview", "check", "mkdir", "mark"}
    BY DEF Place, Planning, Reading
  <2> QED
    BY <2>1, <2>2 DEF TypesInv, StoreOK, ThreadsOK, NodeTypeOK, AnyPlan, Result
<1> QED
  BY <1>1, <1>2, <1>3, PTL DEF NodeSpec
-----------------------------------------------------------------------------
(***************************************************************************)
(* A candidate is skipped as a duplicate only if it was committed: what is *)
(* remembered was committed, and so is what a thread is about to remember. *)
(***************************************************************************)
Committed ==
    /\ \A a \in {"create", "merge"}, c \in Cand : <<a, c>> \in executed => c \in written
    /\ \A t \in Thread : at[t] = "mark" => cand[t] \in written

LEMMA PlannedCommitted ==
    ASSUME TypesInv, Committed, DuplicatesWritten, NEW t \in Thread, at[t] # "idle",
           NEW q \in AnyPlan, q.action # "none",
           Planned(t, q), UNCHANGED <<cand, executed, written>>
    PROVE  Committed' /\ DuplicatesWritten'
<1>1. cand[t] \in Cand /\ q.action \in {"create", "merge"}
  BY DEF TypesInv, CallsOK, AnyPlan
<1>2. CASE <<q.action, cand[t]>> \in executed /\ End(t, "duplicate")
  BY <1>1, <1>2 DEF End, Committed, DuplicatesWritten, TypesInv, ThreadsOK
<1>3. CASE at' = [at EXCEPT ![t] = "check"] /\ UNCHANGED outcome
  BY <1>3 DEF Committed, DuplicatesWritten, TypesInv, ThreadsOK
<1> QED
  BY <1>2, <1>3 DEF Planned

\* A step that neither skips a duplicate nor brings a thread to "mark".
LEMMA StepCommitted ==
    ASSUME Committed, DuplicatesWritten,
           \A u \in Thread : outcome'[u] = "duplicate" =>
                                outcome[u] = "duplicate" /\ cand'[u] = cand[u],
           \A u \in Thread : at'[u] = "mark" => at[u] = "mark" /\ cand'[u] = cand[u],
           executed' \subseteq executed, written \subseteq written'
    PROVE  Committed' /\ DuplicatesWritten'
<1>1. Committed'
  BY DEF Committed
<1>2. DuplicatesWritten'
  BY DEF DuplicatesWritten
<1> QED
  BY <1>1, <1>2

THEOREM DuplicatesCommitted == NodeSpec => []DuplicatesWritten
<1>1. NodeInit => Committed /\ DuplicatesWritten
  BY DEF NodeInit, Committed, DuplicatesWritten
<1>2. TypesInv /\ Committed /\ DuplicatesWritten /\ [NodeNext]_nodeVars
         => Committed' /\ DuplicatesWritten'
  <2> SUFFICES ASSUME TypesInv, Committed, DuplicatesWritten, [NodeNext]_nodeVars
               PROVE  Committed' /\ DuplicatesWritten'
    OBVIOUS
  <2> DEFINE Goal == Committed' /\ DuplicatesWritten'
  <2> DEFINE Kept(u) ==
        /\ outcome'[u] = "duplicate" => outcome[u] = "duplicate" /\ cand'[u] = cand[u]
        /\ at'[u] = "mark" => at[u] = "mark" /\ cand'[u] = cand[u]
  <2>0. ASSUME \A u \in Thread : Kept(u), executed' \subseteq executed, written \subseteq written'
        PROVE  Goal
    BY <2>0, StepCommitted
  <2> HIDE DEF Goal
  <2>t. at \in [Thread -> Place] /\ outcome \in [Thread -> Result]
        /\ cand \in [Thread -> Cand \cup {NoCand}]
    BY DEF TypesInv, ThreadsOK
  <2>e. ASSUME NEW t \in Thread, NEW r \in Result \ {"duplicate"}, End(t, r), UNCHANGED cand
        PROVE  \A u \in Thread : Kept(u)
    BY <2>t, <2>e DEF End
  <2>m. ASSUME NEW t \in Thread, NEW p \in Place \ {"mark"}, at' = [at EXCEPT ![t] = p],
               UNCHANGED <<outcome, cand>>
        PROVE  \A u \in Thread : Kept(u)
    BY <2>t, <2>m
  <2>p. {"skipped", "raised", "gave up"} \subseteq Result \ {"duplicate"}
        /\ {"readMeta", "readContent", "readOverview", "exists", "mkdir", "content"}
              \subseteq Place \ {"mark"}
    BY DEF Result, Place, Planning, Reading, NodeFile, Required
  <2>1. ASSUME NEW t \in Thread, NEW c \in Cand, Call(t, c) PROVE Goal
    <3>1. \A u \in Thread : Kept(u)
      BY <2>t, <2>1 DEF Call
    <3> QED
      BY <2>0, <2>1, <3>1 DEF Call
  <2>2. ASSUME NEW t \in Thread, Exists(t) PROVE Goal
    <3>1. at[t] = "exists" /\ UNCHANGED <<cand, executed, written>>
      BY <2>2 DEF Exists
    <3>2. CASE ~Active
      <4>1. [NoPlan EXCEPT !.action = "create"] \in AnyPlan
            /\ [NoPlan EXCEPT !.action = "create"].action # "none"
        BY DEF NoPlan, AnyPlan
      <4>2. Planned(t, [NoPlan EXCEPT !.action = "create"])
        BY <2>2, <3>2 DEF Exists
      <4> QED
        BY <3>1, <4>1, <4>2, PlannedCommitted DEF Goal
    <3>3. CASE Active /\ policy = "chunk"
      BY <2>0, <2>2, <2>e, <2>p, <3>1, <3>3 DEF Exists
    <3>4. CASE Active /\ policy # "chunk"
      BY <2>0, <2>2, <2>m, <2>p, <3>1, <3>4 DEF Exists
    <3> QED
      BY <3>2, <3>3, <3>4
  <2>3. ASSUME NEW t \in Thread, ReadMeta(t) PROVE Goal
    <3>1. UNCHANGED <<cand, executed, written>>
      BY <2>3 DEF ReadMeta
    <3>2. CASE Active
      BY <2>0, <2>3, <2>m, <2>p, <3>1, <3>2 DEF ReadMeta
    <3>3. CASE ~Active
      BY <2>0, <2>3, <2>e, <2>p, <3>1, <3>3 DEF ReadMeta
    <3> QED
      BY <3>2, <3>3
  <2>4. ASSUME NEW t \in Thread, ReadContent(t) PROVE Goal
    <3>1. UNCHANGED <<cand, executed, written>>
      BY <2>4 DEF ReadContent
    <3>2. CASE "content" \in files
      BY <2>0, <2>4, <2>m, <2>p, <3>1, <3>2 DEF ReadContent
    <3>3. CASE ~("content" \in files)
      BY <2>0, <2>4, <2>e, <2>p, <3>1, <3>3 DEF ReadContent
    <3> QED
      BY <3>2, <3>3
  <2>5. ASSUME NEW t \in Thread, ReadOverview(t) PROVE Goal
    <3>1. at[t] = "readOverview" /\ UNCHANGED <<cand, executed, written>>
      BY <2>5 DEF ReadOverview
    <3>2. CASE {"abstract", "overview"} \subseteq files
      <4> DEFINE q == [plan[t] EXCEPT !.action = "merge",
                                      !.base["overview"] = Base("overview")]
      <4>1. Base("overview") \in SUBSET Cand
        BY DEF Base, TypesInv, StoreOK, Bodies
      <4>2. plan[t] \in AnyPlan
        BY DEF TypesInv, ThreadsOK
      <4>3. q \in AnyPlan /\ q.action # "none"
        BY <4>1, <4>2 DEF AnyPlan, Bodies
      <4>4. Planned(t, q)
        BY <2>5, <3>2 DEF ReadOverview
      <4> HIDE DEF q
      <4> QED
        BY <3>1, <4>3, <4>4, PlannedCommitted DEF Goal
    <3>3. CASE ~({"abstract", "overview"} \subseteq files)
      BY <2>0, <2>5, <2>e, <2>p, <3>1, <3>3 DEF ReadOverview
    <3> QED
      BY <3>2, <3>3
  <2>6. ASSUME NEW t \in Thread, Check(t) PROVE Goal
    <3>1. UNCHANGED <<cand, executed, written>>
      BY <2>6 DEF Check
    <3>2. \/ End(t, "gave up")
          \/ \E p \in {"exists", "mkdir"} : at' = [at EXCEPT ![t] = p] /\ UNCHANGED outcome
      BY <2>6 DEF Check
    <3> QED
      BY <2>0, <2>e, <2>m, <2>p, <3>1, <3>2
  <2>7. ASSUME NEW t \in Thread, MakeDir(t) PROVE Goal
    BY <2>0, <2>7, <2>m, <2>p DEF MakeDir, history
  <2>8. ASSUME NEW t \in Thread, WriteFile(t) PROVE Goal
    <3>1. UNCHANGED <<cand, executed, written>>
      BY <2>8 DEF WriteFile
    <3>2. CASE dir
      <4>1. After[at[t]] \in Place \ {"mark"}
        BY <2>8 DEF WriteFile, After, Required, Place, Planning, NodeFile
      <4> QED
        BY <2>0, <2>8, <2>m, <3>1, <3>2, <4>1 DEF WriteFile
    <3>3. CASE ~dir
      BY <2>0, <2>8, <2>e, <2>p, <3>1, <3>3 DEF WriteFile
    <3> QED
      BY <3>2, <3>3
  <2>9. ASSUME NEW t \in Thread, Commit(t) PROVE Goal
    <3>1. UNCHANGED <<cand, executed>>
      BY <2>9 DEF Commit
    <3>2. CASE dir
      <4>1. written' = written \cup {cand[t]} /\ UNCHANGED outcome
            /\ at' = [at EXCEPT ![t] = "mark"]
        BY <2>9, <3>2 DEF Commit
      <4>2. Committed'
        BY <2>t, <3>1, <4>1 DEF Committed
      <4>3. DuplicatesWritten'
        BY <3>1, <4>1 DEF DuplicatesWritten
      <4> QED
        BY <4>2, <4>3 DEF Goal
    <3>3. CASE ~dir
      BY <2>0, <2>9, <2>e, <2>p, <3>1, <3>3 DEF Commit
    <3> QED
      BY <3>2, <3>3
  <2>10. ASSUME NEW t \in Thread, Mark(t) PROVE Goal
    <3>1. cand[t] \in written /\ UNCHANGED <<cand, written>>
      BY <2>10 DEF Mark, Committed
    <3>2. executed' = executed \cup {<<plan[t].action, cand[t]>>}
      BY <2>10 DEF Mark
    <3>3. \A u \in Thread : Kept(u)
      BY <2>10, <2>t, <3>1 DEF Mark, End
    <3>4. \A a \in {"create", "merge"}, c \in Cand : <<a, c>> \in executed' => c \in written
      BY <3>1, <3>2 DEF Committed
    <3> QED
      BY <3>1, <3>3, <3>4 DEF Goal, Committed, DuplicatesWritten
  <2>11. ASSUME NEW t \in Thread, Fail(t) PROVE Goal
    BY <2>0, <2>11, <2>e, <2>p DEF Fail
  <2>12. ASSUME RepairStep \/ Delete PROVE Goal
    <3>1. UNCHANGED <<at, cand, executed, outcome, written>>
      BY <2>12 DEF RepairStep, RepairList, RepairRead, RepairReread, RepairWrite, Delete,
                   history, threadVars
    <3> QED
      BY <2>0, <3>1
  <2>13. ASSUME Crash PROVE Goal
    <3>1. \A u \in Thread : Kept(u)
      BY <2>13 DEF Crash
    <3>2. executed' \subseteq executed /\ written \subseteq written'
      BY <2>13 DEF Crash
    <3> QED
      BY <2>0, <3>1, <3>2
  <2>14. CASE UNCHANGED nodeVars
    <3>1. UNCHANGED <<at, cand, executed, outcome, written>>
      BY <2>14 DEF nodeVars, threadVars, history
    <3> QED
      BY <2>0, <3>1 DEF Goal
  <2> QED
    BY <2>1, <2>2, <2>3, <2>4, <2>5, <2>6, <2>7, <2>8, <2>9, <2>10, <2>11, <2>12,
       <2>13, <2>14 DEF NodeNext, ThreadStep, Goal
<1> QED
  BY <1>1, <1>2, NodeTypes, PTL DEF NodeSpec
-----------------------------------------------------------------------------
(***************************************************************************)
(* A node readers take for committed has all its files.  What a thread has *)
(* written before the file it is at is there, since only a deletion takes  *)
(* files away, and so is what the repair job found when it listed the      *)
(* node: it activates the node only if that was everything.                *)
(***************************************************************************)
Before == [content |-> {}, relations |-> {"content"},
           abstract |-> {"content", "relations"},
           overview |-> {"content", "relations", "abstract"}, meta |-> Required]

FilesKept ==
    ~cut =>
        /\ \A t \in Thread : at[t] \in NodeFile => Before[at[t]] \subseteq files
        /\ repair.at # "idle" =>
              /\ repair.seen \subseteq files
              /\ repair.status = "ACTIVE" => Required \subseteq repair.seen
        /\ ActiveComplete

\* A step that takes no file away, commits nothing and starts no write.
LEMMA StepKeepsFiles ==
    ASSUME FilesKept, UNCHANGED <<dir, files, meta, repair>>, cut' = cut,
           \A t \in Thread : at'[t] \in NodeFile => at'[t] = at[t] \/ at'[t] = "content"
    PROVE  FilesKept'
BY DEF FilesKept, ActiveComplete, Active, Before

THEOREM CommittedComplete == NodeSpec => []ActiveComplete
<1>1. NodeInit => FilesKept
  BY DEF NodeInit, FilesKept, ActiveComplete, Active, NodeFile, Required, Idle
<1>2. TypesInv /\ FilesKept /\ [NodeNext]_nodeVars => FilesKept'
  <2> SUFFICES ASSUME TypesInv, FilesKept, [NodeNext]_nodeVars PROVE FilesKept'
    OBVIOUS
  <2>t. at \in [Thread -> Place] /\ repair \in Visit /\ files \subseteq NodeFile
    BY DEF TypesInv, ThreadsOK, StoreOK
  <2>s. {"idle", "exists", "readMeta", "readContent", "readOverview", "check", "mkdir", "mark"}
           \cap NodeFile = {}
    BY DEF NodeFile, Required
  <2>1. ASSUME NEW t \in Thread, UNCHANGED <<dir, files, meta, repair, cut>>,
               NEW p \in {"idle", "exists", "readMeta", "readContent", "readOverview",
                          "check", "mkdir", "mark", "content"},
               at' = [at EXCEPT ![t] = p]
        PROVE  FilesKept'
    BY <2>t, <2>s, <2>1, StepKeepsFiles
  <2>2. ASSUME NEW t \in Thread,
               \/ \E c \in Cand : Call(t, c)
               \/ Exists(t) \/ ReadMeta(t) \/ ReadContent(t) \/ ReadOverview(t)
               \/ Check(t) \/ Mark(t) \/ Fail(t)
        PROVE  FilesKept'
    <3>1. UNCHANGED <<dir, files, meta, repair, cut>>
      BY <2>2 DEF Call, Exists, ReadMeta, ReadContent, ReadOverview, Check, Mark, Fail,
                  nodeFiles, history
    <3>2. \E p \in {"idle", "exists", "readMeta", "readContent", "readOverview",
                    "check", "mkdir", "mark", "content"} : at' = [at EXCEPT ![t] = p]
      BY <2>2 DEF Call, Exists, ReadMeta, ReadContent, ReadOverview, Check, Mark, Fail,
                  Planned, End
    <3> QED
      BY <2>1, <3>1, <3>2
  <2>3. ASSUME NEW t \in Thread, MakeDir(t) PROVE FilesKept'
    <3>1. at' = [at EXCEPT ![t] = "content"] /\ UNCHANGED <<files, meta, repair, cut>>
      BY <2>3 DEF MakeDir, history
    <3> QED
      BY <2>t, <3>1 DEF FilesKept, ActiveComplete, Active, Before
  <2>4. ASSUME NEW t \in Thread, WriteFile(t) PROVE FilesKept'
    <3>1. UNCHANGED <<dir, meta, repair, cut>> /\ at[t] \in Required
      BY <2>4 DEF WriteFile
    <3>2. CASE dir
      <4>1. files' = files \cup {at[t]} /\ at' = [at EXCEPT ![t] = After[at[t]]]
        BY <2>4, <3>2 DEF WriteFile
      <4>2. /\ After[at[t]] \in NodeFile
            /\ Before[After[at[t]]] = Before[at[t]] \cup {at[t]}
        BY <3>1 DEF After, Before, Required, NodeFile
      <4>3. ASSUME ~cut, NEW u \in Thread, at'[u] \in NodeFile
            PROVE  Before[at'[u]] \subseteq files'
        <5>1. CASE u = t
          BY <2>t, <3>1, <4>1, <4>2, <4>3, <5>1 DEF FilesKept, NodeFile
        <5>2. CASE u # t
          BY <2>t, <4>1, <4>3, <5>2 DEF FilesKept
        <5> QED
          BY <5>1, <5>2
      <4>4. ~cut /\ repair.at # "idle" =>
               repair.seen \subseteq files'
               /\ (repair.status = "ACTIVE" => Required \subseteq repair.seen)
        BY <4>1 DEF FilesKept
      <4>5. ~cut => ActiveComplete'
        BY <3>1, <4>1 DEF FilesKept, ActiveComplete, Active, Required
      <4> QED
        BY <3>1, <4>3, <4>4, <4>5 DEF FilesKept
    <3>3. CASE ~dir
      BY <2>1, <2>4, <3>1, <3>3 DEF WriteFile, End
    <3> QED
      BY <3>2, <3>3
  <2>5. ASSUME NEW t \in Thread, Commit(t) PROVE FilesKept'
    <3>1. at[t] = "meta" /\ UNCHANGED <<dir, cut>> /\ at[t] \in NodeFile
      BY <2>5 DEF Commit, NodeFile
    <3>2. CASE dir
      <4>1. /\ files' = files \cup {"meta"} /\ at' = [at EXCEPT ![t] = "mark"]
            /\ repair' = [repair EXCEPT !.stale = @ \/ repair.at # "idle"]
        BY <2>5, <3>2 DEF Commit
      <4>2. repair'.at = repair.at /\ repair'.seen = repair.seen
            /\ repair'.status = repair.status
        BY <2>t, <4>1 DEF Visit
      <4>3. ~cut => Required \subseteq files
        BY <3>1 DEF FilesKept, Before
      <4> QED
        BY <2>t, <2>s, <3>1, <4>1, <4>2, <4>3 DEF FilesKept, ActiveComplete
    <3>3. CASE ~dir
      BY <2>1, <2>5, <3>1, <3>3 DEF Commit, End
    <3> QED
      BY <3>2, <3>3
  <2>6. ASSUME NEW v \in Visit, repair' = v, UNCHANGED <<at, dir, files, meta, cut>>,
               v.at # "idle" => v.seen \subseteq files
                                /\ (v.status = "ACTIVE" => Required \subseteq v.seen)
        PROVE  FilesKept'
    BY <2>6 DEF FilesKept, ActiveComplete, Active
  <2>7. CASE RepairList
    <3> DEFINE v == [at |-> IF "meta" \in files THEN "read" ELSE "fresh", seen |-> files,
                     status |-> IF Required \subseteq files THEN "ACTIVE" ELSE "PENDING",
                     version |-> 1, stale |-> FALSE]
    <3>1. v \in Visit /\ v.seen = files /\ (v.status = "ACTIVE" => Required \subseteq files)
      BY <2>t DEF Visit, Status
    <3>2. repair' = v /\ UNCHANGED <<at, dir, files, meta, cut>>
      BY <2>7 DEF RepairList, nodeFiles, threadVars, history
    <3> HIDE DEF v
    <3> QED
      BY <2>6, <3>1, <3>2
  <2>8. CASE RepairRead
    <3>1. UNCHANGED <<at, dir, files, meta, cut>>
      BY <2>8 DEF RepairRead, nodeFiles, threadVars, history
    <3>2. CASE "meta" \in files /\ meta.status = "PENDING"
      <4> DEFINE v == [repair EXCEPT !.at = "reread",
                         !.status = IF Required \subseteq repair.seen
                                    THEN "ACTIVE" ELSE "BROKEN"]
      <4>1. v \in Visit /\ v.seen = repair.seen
            /\ (v.status = "ACTIVE" => Required \subseteq repair.seen)
        BY <2>t DEF Visit, Status
      <4>2. repair' = v /\ repair.at = "read"
        BY <2>8, <3>2 DEF RepairRead
      <4> HIDE DEF v
      <4>3. CASE cut
        BY <3>1, <4>3 DEF FilesKept
      <4>4. CASE ~cut
        BY <2>6, <3>1, <4>1, <4>2, <4>4 DEF FilesKept
      <4> QED
        BY <4>3, <4>4
    <3>3. CASE ~("meta" \in files /\ meta.status = "PENDING")
      BY <2>6, <2>8, <3>1, <3>3, StartTypes DEF RepairRead
    <3> QED
      BY <3>2, <3>3
  <2>9. CASE RepairReread
    <3>1. UNCHANGED <<at, dir, files, meta, cut>> /\ repair.at = "reread"
      BY <2>9 DEF RepairReread, nodeFiles, threadVars, history
    <3>2. repair'.seen = repair.seen /\ repair'.status = repair.status
      BY <2>t, <2>9 DEF RepairReread, Visit
    <3> QED
      BY <3>1, <3>2 DEF FilesKept, ActiveComplete, Active
  <2>10. CASE RepairWrite
    <3>1. /\ repair.at # "idle" /\ files' = files \cup {"meta"} /\ repair' = Idle
          /\ UNCHANGED <<at, cut>> /\ meta' = [status |-> repair.status, version |-> repair.version]
      BY <2>10 DEF RepairWrite, threadVars
    <3> QED
      BY <3>1, StartTypes DEF FilesKept, ActiveComplete, Active
  <2>11. CASE Delete
    <3>1. at' = at /\ repair' = repair /\ files' = {}
          /\ (~cut' => repair.at = "idle" /\ Writing = {})
      BY <2>11 DEF Delete, threadVars
    <3>2. ~cut' => \A t \in Thread : at[t] \notin NodeFile
      BY <3>1 DEF Writing
    <3> QED
      BY <3>1, <3>2 DEF FilesKept, ActiveComplete, Active
  <2>12. CASE Crash
    <3>1. UNCHANGED <<files, meta, cut>> /\ repair' = Idle /\ \A t \in Thread : at'[t] = "idle"
      BY <2>12 DEF Crash, nodeFiles
    <3> QED
      BY <2>s, <3>1, StartTypes DEF FilesKept, ActiveComplete, Active
  <2>13. CASE UNCHANGED nodeVars
    <3>1. UNCHANGED <<at, files, meta, repair, cut>>
      BY <2>13 DEF nodeVars, nodeFiles, threadVars, history
    <3> QED
      BY <3>1 DEF FilesKept, ActiveComplete, Active
  <2> QED
    BY <2>2, <2>3, <2>4, <2>5, <2>7, <2>8, <2>9, <2>10, <2>11, <2>12, <2>13
       DEF NodeNext, ThreadStep, RepairStep
<1>3. FilesKept => ActiveComplete
  BY DEF FilesKept, ActiveComplete
<1> QED
  BY <1>1, <1>2, <1>3, NodeTypes, PTL DEF NodeSpec
-----------------------------------------------------------------------------
(***************************************************************************)
(* A candidate is given up only after its call was overtaken as often as   *)
(* it may try.  Each attempt used up was a conflict with a new .meta.json: *)
(* from the read of the expected version to the check, a version that is   *)
(* another one means one more overtaking than attempts.                    *)
(***************************************************************************)
Merging(t) ==
    \/ at[t] \in {"readContent", "readOverview"}
    \/ at[t] = "check" /\ plan[t].action = "merge"

Tries(t) ==
    /\ at[t] # "idle" => beaten[t] >= attempt[t]
    /\ Merging(t) /\ "meta" \in files /\ meta.version # plan[t].expected =>
          beaten[t] >= attempt[t] + 1
    /\ outcome[t] = "gave up" => at[t] = "idle" /\ beaten[t] >= MaxAttempts

TriesCounted == \A t \in Thread : Tries(t)

\* A step in which a thread goes on, without a new plan to merge, or ends.
LEMMA StepTries ==
    ASSUME TypesInv, NEW t \in Thread, Tries(t),
           \/ at'[t] = "idle"
           \/ attempt'[t] = attempt[t] /\ beaten'[t] = beaten[t] /\ at[t] # "idle",
           outcome'[t] = "gave up" =>
              /\ outcome[t] = "gave up" /\ at'[t] = "idle" /\ at[t] = "idle"
              /\ beaten'[t] = beaten[t],
           Merging(t)' => Merging(t) /\ plan'[t].expected = plan[t].expected,
           UNCHANGED <<files, meta>>
    PROVE  Tries(t)'
BY DEF Tries, Merging

LEMMA OneMore ==
    ASSUME NEW m \in Nat, NEW a \in 0..m, NEW b \in 0..m, a < m, b >= a,
           NEW c, c = IF b < m THEN b + 1 ELSE b
    PROVE  c >= a /\ c >= a + 1
OBVIOUS

LEMMA LastOne ==
    ASSUME NEW m \in Nat, NEW a \in 0..m, NEW b \in 0..m, b >= a + 1, ~(a + 1 < m)
    PROVE  b >= m
OBVIOUS

THEOREM OvertakenToTheEnd == NodeSpec => []GiveUpJustified
<1>1. NodeInit => TriesCounted
  BY NodeAssumption DEF NodeInit, TriesCounted, Tries, Merging
<1>2. TypesInv /\ TriesCounted /\ [NodeNext]_nodeVars => TriesCounted'
  <2> SUFFICES ASSUME TypesInv, TriesCounted, [NodeNext]_nodeVars PROVE TriesCounted'
    OBVIOUS
  <2>t. /\ at \in [Thread -> Place] /\ outcome \in [Thread -> Result]
        /\ plan \in [Thread -> AnyPlan] /\ beaten \in [Thread -> 0..MaxAttempts]
        /\ attempt \in [Thread -> 0..MaxAttempts]
    BY DEF TypesInv, ThreadsOK, StoreOK
  <2>u. ASSUME NEW u \in Thread,
               at'[u] = at[u], outcome'[u] = outcome[u], plan'[u] = plan[u],
               attempt'[u] = attempt[u], beaten'[u] = beaten[u],
               "meta" \in files' => "meta" \in files /\ meta' = meta
        PROVE  Tries(u)'
    BY <2>u DEF TriesCounted, Tries, Merging
  <2>o. ASSUME NEW u \in Thread, NEW others, u \in others, Overtake(others),
               at'[u] = at[u], outcome'[u] = outcome[u], plan'[u] = plan[u],
               attempt'[u] = attempt[u]
        PROVE  Tries(u)'
    <3>1. CASE at[u] = "idle"
      <4>1. beaten'[u] = beaten[u]
        BY <2>t, <2>o, <3>1 DEF Overtake
      <4> QED
        BY <2>o, <3>1, <4>1 DEF TriesCounted, Tries, Merging
    <3>2. CASE at[u] # "idle"
      <4>1. beaten[u] \in 0..MaxAttempts /\ attempt[u] \in 0..MaxAttempts
            /\ attempt[u] < MaxAttempts /\ beaten[u] >= attempt[u] /\ outcome[u] # "gave up"
        BY <2>t, <3>2 DEF TypesInv, CallsOK, TriesCounted, Tries
      <4>2. beaten'[u] = IF beaten[u] < MaxAttempts THEN beaten[u] + 1 ELSE beaten[u]
        BY <2>o, <3>2 DEF Overtake
      <4>3. beaten'[u] >= attempt[u] /\ beaten'[u] >= attempt[u] + 1
        BY <4>1, <4>2, OneMore, NodeAssumption
      <4>4. outcome'[u] # "gave up"
        BY <2>o, <4>1
      <4>5. beaten'[u] >= attempt'[u] /\ beaten'[u] >= attempt'[u] + 1
        BY <2>o, <4>3
      <4> QED
        BY <4>4, <4>5 DEF Tries
    <3> QED
      BY <3>1, <3>2
  \* The thread t ends its call, but does not give up, or reads on, or is busy writing.
  <2>e. ASSUME NEW t \in Thread, at[t] # "idle", UNCHANGED <<files, meta, attempt, beaten>>,
               \A u \in Thread \ {t} : plan'[u] = plan[u],
               \/ \E r \in {"duplicate", "skipped", "raised", "written"} : End(t, r)
               \/ \E p \in {"exists", "readMeta", "check", "mkdir", "content", "mark"} :
                     at' = [at EXCEPT ![t] = p] /\ UNCHANGED outcome,
               Merging(t)' => Merging(t) /\ plan'[t].expected = plan[t].expected
        PROVE  TriesCounted'
    <3>1. \A u \in Thread \ {t} : at'[u] = at[u] /\ outcome'[u] = outcome[u]
      BY <2>e, <2>t DEF End
    <3>2. \/ at'[t] = "idle" /\ outcome'[t] # "gave up"
          \/ outcome'[t] = outcome[t] /\ at'[t] # "idle"
      BY <2>e, <2>t DEF End
    <3>3. outcome[t] # "gave up"
      BY <2>e DEF TriesCounted, Tries
    <3>4. Tries(t)'
      BY <2>e, <3>2, <3>3, StepTries DEF TriesCounted
    <3>5. ASSUME NEW u \in Thread \ {t} PROVE Tries(u)'
      BY <2>e, <2>u, <3>1, <3>5
    <3> QED
      BY <3>4, <3>5 DEF TriesCounted
  <2>1. ASSUME NEW t \in Thread, NEW c \in Cand, Call(t, c) PROVE TriesCounted'
    <3>1. /\ at'[t] = "exists" /\ attempt'[t] = 0 /\ beaten'[t] = 0 /\ outcome'[t] = "none"
          /\ UNCHANGED <<files, meta>>
      BY <2>1, <2>t DEF Call, nodeFiles
    <3>2. Tries(t)'
      BY <3>1 DEF Tries, Merging
    <3>3. ASSUME NEW u \in Thread \ {t} PROVE Tries(u)'
      <4>1. at'[u] = at[u] /\ outcome'[u] = outcome[u] /\ plan'[u] = plan[u]
            /\ attempt'[u] = attempt[u] /\ beaten'[u] = beaten[u]
        BY <2>1, <2>t DEF Call
      <4> QED
        BY <2>u, <3>1, <4>1
    <3> QED
      BY <3>2, <3>3 DEF TriesCounted
  <2>2. ASSUME NEW t \in Thread, Exists(t) PROVE TriesCounted'
    <3>1. at[t] = "exists" /\ UNCHANGED <<files, meta, attempt, beaten>>
      BY <2>2 DEF Exists, nodeFiles
    <3>2. CASE ~Active
      <4> DEFINE q == [NoPlan EXCEPT !.action = "create"]
      <4>1. q.action = "create" /\ Planned(t, q)
        BY <2>2, <3>2 DEF Exists, NoPlan
      <4> HIDE DEF q
      <4>2. plan' = [plan EXCEPT ![t] = q]
            /\ \/ End(t, "duplicate")
               \/ at' = [at EXCEPT ![t] = "check"] /\ UNCHANGED outcome
        BY <4>1 DEF Planned
      <4>3. plan'[t].action = "create" /\ at'[t] \in {"idle", "check"}
        BY <2>t, <4>1, <4>2 DEF End
      <4>4. ~Merging(t)'
        BY <4>3 DEF Merging
      <4> QED
        BY <2>e, <2>t, <3>1, <4>2, <4>4
    <3>3. CASE Active
      <4>1. UNCHANGED plan /\ \/ End(t, "skipped")
                              \/ at' = [at EXCEPT ![t] = "readMeta"] /\ UNCHANGED outcome
        BY <2>2, <3>3 DEF Exists
      <4>2. ~Merging(t)'
        BY <2>t, <4>1 DEF Merging, End
      <4> QED
        BY <2>e, <3>1, <4>1, <4>2
    <3> QED
      BY <3>2, <3>3
  <2>3. ASSUME NEW t \in Thread, ReadMeta(t) PROVE TriesCounted'
    <3>1. at[t] = "readMeta" /\ UNCHANGED <<files, meta, attempt, beaten>>
      BY <2>3 DEF ReadMeta, nodeFiles
    <3>2. CASE Active
      <4> DEFINE q == [NoPlan EXCEPT !.expected = meta.version]
      <4>1. q.expected = meta.version /\ plan' = [plan EXCEPT ![t] = q]
            /\ at' = [at EXCEPT ![t] = "readContent"] /\ UNCHANGED outcome
        BY <2>3, <3>2 DEF ReadMeta, NoPlan
      <4> HIDE DEF q
      <4>2. plan'[t].expected = meta'.version /\ at'[t] = "readContent"
        BY <2>t, <3>1, <4>1
      <4>3. Tries(t)'
        BY <3>1, <4>1, <4>2 DEF TriesCounted, Tries
      <4>4. ASSUME NEW u \in Thread \ {t} PROVE Tries(u)'
        BY <2>t, <2>u, <3>1, <4>1
      <4> QED
        BY <4>3, <4>4 DEF TriesCounted
    <3>3. CASE ~Active
      <4>1. UNCHANGED plan /\ End(t, "raised")
        BY <2>3, <3>3 DEF ReadMeta
      <4>2. ~Merging(t)'
        BY <2>t, <4>1 DEF Merging, End
      <4> QED
        BY <2>e, <3>1, <4>1, <4>2
    <3> QED
      BY <3>2, <3>3
  <2>4. ASSUME NEW t \in Thread, ReadContent(t) PROVE TriesCounted'
    <3>1. at[t] = "readContent" /\ UNCHANGED <<files, meta, attempt, beaten>>
      BY <2>4 DEF ReadContent, nodeFiles
    <3>2. CASE "content" \in files
      <4> DEFINE q == [plan[t] EXCEPT !.base["content"] = Base("content")]
      <4>1. q.expected = plan[t].expected /\ plan' = [plan EXCEPT ![t] = q]
        BY <2>4, <2>t, <3>2 DEF ReadContent, AnyPlan
      <4>2. at' = [at EXCEPT ![t] = "readOverview"] /\ UNCHANGED outcome
        BY <2>4, <3>2 DEF ReadContent
      <4> HIDE DEF q
      <4>3. plan'[t].expected = plan[t].expected /\ at'[t] = "readOverview"
            /\ \A u \in Thread \ {t} : plan'[u] = plan[u] /\ at'[u] = at[u]
        BY <2>t, <4>1, <4>2
      <4>4. Tries(t)'
        <5>1. Merging(t) /\ Tries(t) /\ outcome[t] # "gave up"
          BY <3>1 DEF TriesCounted, Tries, Merging
        <5> QED
          BY <3>1, <4>2, <4>3, <5>1, StepTries DEF TriesCounted
      <4>5. ASSUME NEW u \in Thread \ {t} PROVE Tries(u)'
        BY <2>u, <3>1, <4>2, <4>3
      <4> QED
        BY <4>4, <4>5 DEF TriesCounted
    <3>3. CASE ~("content" \in files)
      <4>1. UNCHANGED plan /\ End(t, "raised")
        BY <2>4, <3>3 DEF ReadContent
      <4>2. ~Merging(t)'
        BY <2>t, <4>1 DEF Merging, End
      <4> QED
        BY <2>e, <3>1, <4>1, <4>2
    <3> QED
      BY <3>2, <3>3
  <2>5. ASSUME NEW t \in Thread, ReadOverview(t) PROVE TriesCounted'
    <3>1. at[t] = "readOverview" /\ UNCHANGED <<files, meta, attempt, beaten>>
      BY <2>5 DEF ReadOverview, nodeFiles
    <3>2. CASE {"abstract", "overview"} \subseteq files
      <4> DEFINE q == [plan[t] EXCEPT !.action = "merge",
                                      !.base["overview"] = Base("overview")]
      <4>1. q.expected = plan[t].expected /\ Planned(t, q)
        BY <2>5, <2>t, <3>2 DEF ReadOverview, AnyPlan
      <4> HIDE DEF q
      <4>2. plan' = [plan EXCEPT ![t] = q]
            /\ \/ End(t, "duplicate")
               \/ at' = [at EXCEPT ![t] = "check"] /\ UNCHANGED outcome
        BY <4>1 DEF Planned
      <4>3. plan'[t].expected = plan[t].expected /\ Merging(t)
            /\ \A u \in Thread \ {t} : plan'[u] = plan[u]
        BY <2>t, <3>1, <4>1, <4>2 DEF Merging
      <4> QED
        BY <2>e, <3>1, <4>2, <4>3
    <3>3. CASE ~({"abstract", "overview"} \subseteq files)
      <4>1. UNCHANGED plan /\ End(t, "raised")
        BY <2>5, <3>3 DEF ReadOverview
      <4>2. ~Merging(t)'
        BY <2>t, <4>1 DEF Merging, End
      <4> QED
        BY <2>e, <3>1, <4>1, <4>2
    <3> QED
      BY <3>2, <3>3
  <2>6. ASSUME NEW t \in Thread, Check(t) PROVE TriesCounted'
    <3>1. at[t] = "check" /\ UNCHANGED <<files, meta, beaten, plan>>
      BY <2>6 DEF Check, nodeFiles
    <3>2. CASE Conflict(t) /\ attempt' = [attempt EXCEPT ![t] = @ + 1]
      <4>1. /\ beaten[t] \in 0..MaxAttempts /\ attempt[t] \in 0..MaxAttempts
            /\ beaten[t] >= attempt[t] + 1 /\ outcome[t] # "gave up"
        BY <2>t, <3>1, <3>2 DEF TriesCounted, Tries, Merging, Conflict
      <4>2. /\ at'[t] \in {"exists", "idle"} /\ attempt'[t] = attempt[t] + 1
            /\ outcome'[t] = "gave up" => at'[t] = "idle" /\ ~(attempt[t] + 1 < MaxAttempts)
        BY <2>6, <2>t, <3>1, <3>2, <4>1 DEF Check, End, Conflict
      <4>3. Tries(t)'
        <5>1. at'[t] # "idle" => beaten'[t] >= attempt'[t]
          BY <3>1, <4>1, <4>2
        <5>2. outcome'[t] = "gave up" => at'[t] = "idle" /\ beaten'[t] >= MaxAttempts
          <6>1. ~(attempt[t] + 1 < MaxAttempts) => beaten[t] >= MaxAttempts
            BY <4>1, LastOne, NodeAssumption
          <6>2. beaten'[t] = beaten[t]
            BY <3>1
          <6> QED
            BY <4>2, <6>1, <6>2
        <5>3. ~Merging(t)'
          BY <4>2 DEF Merging
        <5> QED
          BY <5>1, <5>2, <5>3 DEF Tries
      <4>4. ASSUME NEW u \in Thread \ {t} PROVE Tries(u)'
        <5>1. at'[u] = at[u] /\ outcome'[u] = outcome[u] /\ attempt'[u] = attempt[u]
          BY <2>6, <2>t, <3>2 DEF Check, End
        <5> QED
          BY <2>u, <3>1, <5>1
      <4> QED
        BY <4>3, <4>4 DEF TriesCounted
    <3>3. CASE at' = [at EXCEPT ![t] = "mkdir"] /\ UNCHANGED <<attempt, outcome>>
      <4>1. ~Merging(t)'
        BY <2>t, <3>3 DEF Merging
      <4> QED
        BY <2>e, <3>1, <3>3, <4>1
    <3> QED
      BY <2>6, <3>2, <3>3 DEF Check
  <2>7. ASSUME NEW t \in Thread, MakeDir(t) \/ Mark(t) \/ Fail(t) PROVE TriesCounted'
    <3>1. at[t] # "idle" /\ UNCHANGED <<files, meta, attempt, beaten, plan>>
      BY <2>7 DEF MakeDir, Mark, Fail, nodeFiles, history
    <3>2. \/ End(t, "raised") \/ End(t, "written")
          \/ at' = [at EXCEPT ![t] = "content"] /\ UNCHANGED outcome
      BY <2>7 DEF MakeDir, Mark, Fail, history
    <3>3. ~Merging(t)'
      BY <2>t, <3>2 DEF Merging, End
    <3> QED
      BY <2>e, <3>1, <3>2, <3>3
  <2>8. ASSUME NEW t \in Thread, WriteFile(t) PROVE TriesCounted'
    <3>1. at[t] \in Required /\ UNCHANGED <<meta, attempt, beaten, plan>>
      BY <2>8 DEF WriteFile
    <3>2. "meta" \in files' => "meta" \in files
      BY <2>8, <3>1 DEF WriteFile, Required
    <3>3. /\ at[t] # "idle" /\ at'[t] \in {"idle", "relations", "abstract", "overview", "meta"}
          /\ outcome'[t] = "raised" \/ outcome'[t] = outcome[t]
          /\ \A u \in Thread \ {t} : at'[u] = at[u] /\ outcome'[u] = outcome[u]
      BY <2>8, <2>t, <3>1 DEF WriteFile, End, After, Required
    <3>4. Tries(t)'
      BY <3>1, <3>3 DEF TriesCounted, Tries, Merging
    <3>5. ASSUME NEW u \in Thread \ {t} PROVE Tries(u)'
      BY <2>u, <3>1, <3>2, <3>3
    <3> QED
      BY <3>4, <3>5 DEF TriesCounted
  <2>9. ASSUME NEW t \in Thread, Commit(t) PROVE TriesCounted'
    <3>1. at[t] = "meta" /\ UNCHANGED <<attempt, plan>>
      BY <2>9 DEF Commit
    <3>2. CASE dir
      <4>1. at' = [at EXCEPT ![t] = "mark"] /\ UNCHANGED outcome /\ Overtake(Thread \ {t})
        BY <2>9, <3>2 DEF Commit
      <4>2. at'[t] = "mark" /\ beaten'[t] = beaten[t]
        BY <2>t, <4>1 DEF Overtake
      <4>3. Tries(t)'
        BY <3>1, <4>1, <4>2 DEF TriesCounted, Tries, Merging
      <4>4. ASSUME NEW u \in Thread \ {t} PROVE Tries(u)'
        BY <2>o, <2>t, <3>1, <4>1
      <4> QED
        BY <4>3, <4>4 DEF TriesCounted
    <3>3. CASE ~dir
      <4>1. End(t, "raised") /\ UNCHANGED <<files, meta, beaten>>
        BY <2>9, <3>3 DEF Commit
      <4>2. ~Merging(t)'
        BY <2>t, <4>1 DEF Merging, End
      <4> QED
        BY <2>e, <3>1, <4>1, <4>2
    <3> QED
      BY <3>2, <3>3
  <2>10. CASE RepairList \/ RepairRead \/ RepairReread \/ UNCHANGED nodeVars
    <3>1. UNCHANGED <<at, outcome, plan, attempt, beaten, files, meta>>
      BY <2>10 DEF RepairList, RepairRead, RepairReread, nodeVars, nodeFiles, threadVars, history
    <3> QED
      BY <2>u, <3>1 DEF TriesCounted
  <2>11. CASE RepairWrite
    <3>1. UNCHANGED <<at, outcome, plan, attempt>> /\ Overtake(Thread)
      BY <2>11 DEF RepairWrite, threadVars
    <3> QED
      BY <2>o, <3>1 DEF TriesCounted
  <2>12. CASE Delete
    <3>1. UNCHANGED <<at, outcome, plan, attempt, beaten>> /\ files' = {}
      BY <2>12 DEF Delete, threadVars
    <3> QED
      BY <2>u, <3>1 DEF TriesCounted
  <2>13. CASE Crash
    <3>1. \A u \in Thread : at'[u] = "idle" /\ outcome'[u] = "none"
      BY <2>13 DEF Crash
    <3> QED
      BY <3>1 DEF TriesCounted, Tries, Merging
  <2> QED
    BY <2>1, <2>2, <2>3, <2>4, <2>5, <2>6, <2>7, <2>8, <2>9, <2>10, <2>11, <2>12, <2>13
       DEF NodeNext, ThreadStep, RepairStep
<1>3. TriesCounted => GiveUpJustified
  BY DEF TriesCounted, Tries, GiveUpJustified
<1> QED
  BY <1>1, <1>2, <1>3, NodeTypes, PTL DEF NodeSpec
-----------------------------------------------------------------------------
(***************************************************************************)
(* No merge is lost.  Short of the overlaps `raced` stands for, one thread *)
(* at a time is between check and commit; what it merged into was read at  *)
(* the version the node still has, and what was committed by then was in   *)
(* it.  A plan on an older version is caught by the check: versions only   *)
(* grow while calls run.                                                   *)
(***************************************************************************)
MergeSafe(t) ==
    /\ Merging(t) => "meta" \in files /\ plan[t].expected <= meta.version
    /\ at[t] = "readOverview" /\ plan[t].expected = meta.version =>
          accepted \subseteq plan[t].base["content"]
    /\ at[t] = "check" /\ plan[t].action = "merge" /\ plan[t].expected = meta.version =>
          \A f \in Bodies : accepted \subseteq plan[t].base[f]
    /\ t \in Writing =>
          /\ \A f \in Bodies : accepted \subseteq plan[t].base[f]
          /\ "meta" \in files => meta.version = plan[t].expected
    /\ at[t] \in {"relations", "abstract", "overview", "meta"} => cand[t] \in body["content"]
    /\ at[t] = "meta" => cand[t] \in body["overview"]

Alone == \A t, u \in Writing : t = u
BodiesKeep == \A f \in Bodies : accepted \subseteq body[f]
MetaKept == accepted # {} => "meta" \in files

MergesSafe ==
    policy = "append" /\ ~raced =>
        Alone /\ BodiesKeep /\ MetaKept /\ \A t \in Thread : MergeSafe(t)

LEMMA SafeAtRest ==
    ASSUME NEW t \in Thread,
           \/ at[t] \in {"idle", "exists", "readMeta", "mark"}
           \/ at[t] = "check" /\ plan[t].action # "merge"
    PROVE  MergeSafe(t) /\ t \notin Writing
BY DEF MergeSafe, Merging, Writing, NodeFile, Required

LEMMA SafeElsewhere ==
    ASSUME NEW u \in Thread, MergeSafe(u),
           at'[u] = at[u], plan'[u] = plan[u], cand'[u] = cand[u],
           UNCHANGED <<body, meta, accepted>>, ("meta" \in files') <=> ("meta" \in files)
    PROVE  MergeSafe(u)'
BY DEF MergeSafe, Merging, Writing

\* A step of thread t that leaves the node alone and does not start to write it.
LEMMA SafeStep ==
    ASSUME policy = "append" /\ ~raced, MergesSafe, NEW t \in Thread,
           \A u \in Thread \ {t} : at'[u] = at[u] /\ plan'[u] = plan[u] /\ cand'[u] = cand[u],
           UNCHANGED <<body, meta, accepted, files>>,
           MergeSafe(t)', t \in Writing' => t \in Writing
    PROVE  MergesSafe'
<1>1. \A u \in Thread \ {t} : MergeSafe(u)'
  BY SafeElsewhere DEF MergesSafe
<1>2. \A u \in Thread : u \in Writing' => u \in Writing
  BY DEF Writing
<1>3. Alone'
  BY <1>2 DEF Alone, MergesSafe, Writing
<1> QED
  BY <1>1, <1>3 DEF MergesSafe, BodiesKeep, MetaKept

THEOREM NoMergeLost == NodeSpec => []MergesKept
<1>1. NodeInit => MergesSafe
  BY DEF NodeInit, MergesSafe, Alone, BodiesKeep, MetaKept, MergeSafe, Merging, Writing,
         NodeFile, Required
<1>2. TypesInv /\ MergesSafe /\ [NodeNext]_nodeVars => MergesSafe'
  <2> SUFFICES ASSUME TypesInv, MergesSafe, [NodeNext]_nodeVars PROVE MergesSafe'
    OBVIOUS
  <2>r. policy' = policy /\ (raced => raced')
    <3>1. ASSUME NEW t \in Thread, NEW c \in Cand, Call(t, c) PROVE policy' = policy /\ raced' = raced
      BY <3>1 DEF Call
    <3>2. ASSUME NEW t \in Thread,
                 \/ Exists(t) \/ ReadMeta(t) \/ ReadContent(t) \/ ReadOverview(t)
                 \/ MakeDir(t) \/ WriteFile(t) \/ Commit(t) \/ Mark(t) \/ Fail(t)
          PROVE  policy' = policy /\ raced' = raced
      BY <3>2 DEF Exists, ReadMeta, ReadContent, ReadOverview, MakeDir, WriteFile, Commit,
                  Mark, Fail, history
    <3>3. ASSUME NEW t \in Thread, Check(t) PROVE policy' = policy /\ (raced => raced')
      <4>1. policy' = policy
        BY <3>3 DEF Check
      <4>2. \/ raced' = raced
            \/ raced' = \/ raced
                        \/ Writing # {}
                        \/ plan[t].action = "create" /\ "meta" \in files
        BY <3>3 DEF Check
      <4>3. CASE raced' = raced
        BY <4>1, <4>3
      <4>4. CASE raced' = \/ raced
                          \/ Writing # {}
                          \/ plan[t].action = "create" /\ "meta" \in files
        BY <4>1, <4>4
      <4> QED
        BY <4>2, <4>3, <4>4
    <3>4. CASE RepairList \/ RepairRead \/ RepairReread \/ Crash \/ UNCHANGED nodeVars
      BY <3>4 DEF RepairList, RepairRead, RepairReread, Crash, nodeVars, history
    <3>5. CASE RepairWrite
      <4>1. policy' = policy /\ raced' = (raced \/ Busy # {} \/ repair.stale)
        BY <3>5 DEF RepairWrite
      <4> QED
        BY <4>1
    <3>6. CASE Delete
      <4>1. policy' = policy /\ raced' = (raced \/ Busy # {} \/ repair.at # "idle")
        BY <3>6 DEF Delete
      <4> QED
        BY <4>1
    <3> QED
      BY <3>1, <3>2, <3>3, <3>4, <3>5, <3>6 DEF NodeNext, ThreadStep, RepairStep
  <2> SUFFICES ASSUME policy' = "append", ~raced' PROVE MergesSafe'
    BY DEF MergesSafe
  <2>a. policy = "append" /\ ~raced
    BY <2>r
  <2>b. Alone /\ BodiesKeep /\ MetaKept /\ \A t \in Thread : MergeSafe(t)
    BY <2>a DEF MergesSafe
  <2>t. /\ at \in [Thread -> Place] /\ outcome \in [Thread -> Result]
        /\ plan \in [Thread -> AnyPlan] /\ cand \in [Thread -> Cand \cup {NoCand}]
        /\ meta.version \in Nat /\ files \subseteq NodeFile
    BY DEF TypesInv, ThreadsOK, StoreOK, Meta
  \* Thread t comes to rest, whatever becomes of its plan.
  <2>q. ASSUME NEW t \in Thread, UNCHANGED <<body, meta, accepted, files>>,
               \A u \in Thread \ {t} : at'[u] = at[u] /\ plan'[u] = plan[u] /\ cand'[u] = cand[u],
               \/ at'[t] \in {"idle", "exists", "readMeta", "mark"}
               \/ at'[t] = "check" /\ plan'[t].action # "merge"
        PROVE  MergesSafe'
    <3>1. MergeSafe(t)' /\ t \notin Writing'
      BY <2>q DEF MergeSafe, Merging, Writing, NodeFile, Required
    <3> QED
      BY <2>a, <2>q, <3>1, SafeStep
  <2>1. ASSUME NEW t \in Thread, NEW c \in Cand, Call(t, c) PROVE MergesSafe'
    <3>1. UNCHANGED <<body, meta, accepted, files>> /\ at'[t] = "exists"
      BY <2>1, <2>t DEF Call, nodeFiles
    <3>2. \A u \in Thread \ {t} : at'[u] = at[u] /\ plan'[u] = plan[u] /\ cand'[u] = cand[u]
      BY <2>1, <2>t DEF Call
    <3> QED
      BY <2>q, <3>1, <3>2
  <2>e. ASSUME NEW t \in Thread, NEW r, End(t, r), UNCHANGED <<body, meta, accepted, files, plan, cand>>
        PROVE  MergesSafe'
    <3>1. at'[t] = "idle" /\ \A u \in Thread \ {t} : at'[u] = at[u]
      BY <2>e, <2>t DEF End
    <3> QED
      BY <2>q, <2>e, <3>1
  <2>2. ASSUME NEW t \in Thread, Exists(t) PROVE MergesSafe'
    <3>1. UNCHANGED <<body, meta, accepted, files, cand>>
      BY <2>2 DEF Exists, nodeFiles
    <3>2. CASE ~Active
      <4> DEFINE q == [NoPlan EXCEPT !.action = "create"]
      <4>1. q.action = "create" /\ Planned(t, q)
        BY <2>2, <3>2 DEF Exists, NoPlan
      <4> HIDE DEF q
      <4>2. /\ plan' = [plan EXCEPT ![t] = q]
            /\ End(t, "duplicate") \/ at' = [at EXCEPT ![t] = "check"]
        BY <4>1 DEF Planned
      <4>3. /\ plan'[t].action = "create" /\ at'[t] \in {"idle", "check"}
            /\ \A u \in Thread \ {t} : at'[u] = at[u] /\ plan'[u] = plan[u]
        BY <2>t, <4>1, <4>2 DEF End
      <4> QED
        BY <2>q, <3>1, <4>3
    <3>3. CASE Active
      <4>1. UNCHANGED plan /\ (End(t, "skipped") \/ at' = [at EXCEPT ![t] = "readMeta"])
        BY <2>2, <3>3 DEF Exists
      <4>2. at'[t] \in {"idle", "readMeta"} /\ \A u \in Thread \ {t} : at'[u] = at[u]
        BY <2>t, <4>1 DEF End
      <4> QED
        BY <2>q, <3>1, <4>1, <4>2
    <3> QED
      BY <3>2, <3>3
  <2>3. ASSUME NEW t \in Thread, ReadMeta(t) PROVE MergesSafe'
    <3>1. UNCHANGED <<body, meta, accepted, files, cand>>
      BY <2>3 DEF ReadMeta, nodeFiles
    <3>2. CASE Active
      <4> DEFINE q == [NoPlan EXCEPT !.expected = meta.version]
      <4>1. q.expected = meta.version /\ plan' = [plan EXCEPT ![t] = q]
            /\ at' = [at EXCEPT ![t] = "readContent"]
        BY <2>3, <3>2 DEF ReadMeta, NoPlan
      <4> HIDE DEF q
      <4>2. /\ plan'[t].expected = meta.version /\ at'[t] = "readContent"
            /\ \A u \in Thread \ {t} : at'[u] = at[u] /\ plan'[u] = plan[u]
        BY <2>t, <4>1
      <4>3. MergeSafe(t)' /\ t \notin Writing'
        BY <2>t, <3>1, <3>2, <4>2 DEF MergeSafe, Merging, Writing, NodeFile, Required, Active
      <4> QED
        BY <2>a, <3>1, <4>2, <4>3, SafeStep
    <3>3. CASE ~Active
      BY <2>3, <2>e, <3>1, <3>3 DEF ReadMeta
    <3> QED
      BY <3>2, <3>3
  <2>4. ASSUME NEW t \in Thread, ReadContent(t) PROVE MergesSafe'
    <3>1. UNCHANGED <<body, meta, accepted, files, cand>> /\ at[t] = "readContent"
      BY <2>4 DEF ReadContent, nodeFiles
    <3>2. CASE "content" \in files
      <4> DEFINE q == [plan[t] EXCEPT !.base["content"] = Base("content")]
      <4>1. q.expected = plan[t].expected /\ q.base["content"] = body["content"]
        BY <2>a, <2>t DEF AnyPlan, Base, Bodies
      <4>2. plan' = [plan EXCEPT ![t] = q] /\ at' = [at EXCEPT ![t] = "readOverview"]
        BY <2>4, <3>2 DEF ReadContent
      <4> HIDE DEF q
      <4>3. /\ plan'[t].expected = plan[t].expected /\ plan'[t].base["content"] = body["content"]
            /\ at'[t] = "readOverview"
            /\ \A u \in Thread \ {t} : at'[u] = at[u] /\ plan'[u] = plan[u]
        BY <2>t, <4>1, <4>2
      <4>4. "meta" \in files /\ plan[t].expected <= meta.version
            /\ accepted \subseteq body["content"]
        BY <2>b, <3>1 DEF MergeSafe, Merging, BodiesKeep, Bodies
      <4>5. MergeSafe(t)' /\ t \notin Writing'
        BY <3>1, <4>3, <4>4 DEF MergeSafe, Merging, Writing, NodeFile, Required
      <4> QED
        BY <2>a, <3>1, <4>3, <4>5, SafeStep
    <3>3. CASE ~("content" \in files)
      BY <2>4, <2>e, <3>1, <3>3 DEF ReadContent
    <3> QED
      BY <3>2, <3>3
  <2>5. ASSUME NEW t \in Thread, ReadOverview(t) PROVE MergesSafe'
    <3>1. UNCHANGED <<body, meta, accepted, files, cand>> /\ at[t] = "readOverview"
      BY <2>5 DEF ReadOverview, nodeFiles
    <3>2. CASE {"abstract", "overview"} \subseteq files
      <4> DEFINE q == [plan[t] EXCEPT !.action = "merge",
                                      !.base["overview"] = Base("overview")]
      <4>1. /\ q.expected = plan[t].expected /\ q.base["overview"] = body["overview"]
            /\ q.base["content"] = plan[t].base["content"] /\ Planned(t, q)
        BY <2>5, <2>a, <2>t, <3>2 DEF ReadOverview, AnyPlan, Base, Bodies
      <4> HIDE DEF q
      <4>2. /\ plan' = [plan EXCEPT ![t] = q]
            /\ End(t, "duplicate") \/ at' = [at EXCEPT ![t] = "check"]
        BY <4>1 DEF Planned
      <4>3. /\ plan'[t] = q /\ at'[t] \in {"idle", "check"}
            /\ \A u \in Thread \ {t} : at'[u] = at[u] /\ plan'[u] = plan[u]
        BY <2>t, <4>2 DEF End
      <4>4. /\ "meta" \in files /\ plan[t].expected <= meta.version
            /\ accepted \subseteq body["overview"]
            /\ plan[t].expected = meta.version => accepted \subseteq plan[t].base["content"]
        BY <2>b, <3>1 DEF MergeSafe, Merging, BodiesKeep, Bodies
      <4>5. MergeSafe(t)' /\ t \notin Writing'
        BY <3>1, <4>1, <4>3, <4>4 DEF MergeSafe, Merging, Writing, NodeFile, Required, Bodies
      <4> QED
        BY <2>a, <3>1, <4>3, <4>5, SafeStep
    <3>3. CASE ~({"abstract", "overview"} \subseteq files)
      BY <2>5, <2>e, <3>1, <3>3 DEF ReadOverview
    <3> QED
      BY <3>2, <3>3
  <2>6. ASSUME NEW t \in Thread, Check(t) PROVE MergesSafe'
    <3>1. UNCHANGED <<body, meta, accepted, files, cand, plan>> /\ at[t] = "check"
      BY <2>6 DEF Check, nodeFiles
    <3>2. CASE Conflict(t) /\ (at' = [at EXCEPT ![t] = "exists"] \/ End(t, "gave up"))
      <4>1. at'[t] \in {"idle", "exists"} /\ \A u \in Thread \ {t} : at'[u] = at[u]
        BY <2>t, <3>2 DEF End
      <4> QED
        BY <2>q, <3>1, <4>1
    <3>3. CASE /\ ~Conflict(t) /\ at' = [at EXCEPT ![t] = "mkdir"]
               /\ raced' = \/ raced
                           \/ Writing # {}
                           \/ plan[t].action = "create" /\ "meta" \in files
      <4>1. at'[t] = "mkdir" /\ \A u \in Thread \ {t} : at'[u] = at[u]
        BY <2>t, <3>3
      <4>2. \A u \in Thread \ {t} : u \notin Writing
        BY <3>3
      <4>3. \A u \in Thread : u \in Writing' => u = t
        BY <4>1, <4>2 DEF Writing
      <4>4. \A f \in Bodies : accepted \subseteq plan[t].base[f]
        <5>1. CASE plan[t].action = "merge"
          BY <2>b, <3>1, <3>3, <5>1 DEF MergeSafe, Merging, Conflict
        <5>2. CASE plan[t].action # "merge"
          <6>1. plan[t].action = "create"
            BY <2>t, <3>1, <5>2 DEF TypesInv, CallsOK, AnyPlan, Planning
          <6>2. accepted = {}
            BY <2>b, <3>3, <6>1 DEF MetaKept
          <6> QED
            BY <6>2
        <5> QED
          BY <5>1, <5>2
      <4>5. "meta" \in files => meta.version = plan[t].expected
        <5>1. CASE plan[t].action = "merge"
          BY <3>3, <5>1 DEF Conflict
        <5>2. CASE plan[t].action # "merge"
          BY <2>t, <3>1, <3>3, <5>2 DEF TypesInv, CallsOK, AnyPlan, Planning
        <5> QED
          BY <5>1, <5>2
      <4>6. MergeSafe(t)'
        BY <3>1, <4>1, <4>4, <4>5 DEF MergeSafe, Merging
      <4>7. \A u \in Thread \ {t} : MergeSafe(u)'
        BY <2>b, <3>1, <4>1, SafeElsewhere
      <4>8. Alone'
        BY <4>3 DEF Alone, Writing
      <4> QED
        BY <2>b, <3>1, <4>6, <4>7, <4>8 DEF MergesSafe, BodiesKeep, MetaKept
    <3> QED
      BY <2>6, <3>2, <3>3 DEF Check
  <2>7. ASSUME NEW t \in Thread, MakeDir(t) PROVE MergesSafe'
    <3>1. at[t] = "mkdir" /\ UNCHANGED <<body, meta, accepted, files, cand, plan>>
      BY <2>7 DEF MakeDir, history
    <3>2. at'[t] = "content" /\ \A u \in Thread \ {t} : at'[u] = at[u]
      BY <2>7, <2>t DEF MakeDir
    <3>3. t \in Writing
      BY <3>1 DEF Writing
    <3>4. MergeSafe(t)'
      BY <2>b, <3>1, <3>2, <3>3 DEF MergeSafe, Merging
    <3> QED
      BY <2>a, <3>1, <3>2, <3>3, <3>4, SafeStep
  <2>8. ASSUME NEW t \in Thread, WriteFile(t) PROVE MergesSafe'
    <3>1. at[t] \in Required /\ UNCHANGED <<meta, accepted, cand, plan>>
      BY <2>8 DEF WriteFile
    <3>2. t \in Writing
      BY <3>1 DEF Writing, NodeFile
    <3>3. CASE dir
      <4>1. /\ files' = files \cup {at[t]} /\ at' = [at EXCEPT ![t] = After[at[t]]]
            /\ body' = [f \in Bodies |-> IF f = at[t] THEN plan[t].base[f] \cup {cand[t]}
                                         ELSE body[f]]
        BY <2>8, <3>3 DEF WriteFile
      <4>2. at'[t] = After[at[t]] /\ \A u \in Thread \ {t} : at'[u] = at[u]
        BY <2>t, <4>1
      <4>3. ("meta" \in files') <=> ("meta" \in files)
        BY <3>1, <4>1 DEF Required
      <4>4. (\A f \in Bodies : accepted \subseteq plan[t].base[f])
            /\ ("meta" \in files => meta.version = plan[t].expected)
        BY <2>b, <3>2 DEF MergeSafe
      <4>5. BodiesKeep'
        BY <2>b, <3>1, <4>1, <4>4 DEF BodiesKeep
      <4>6. MergeSafe(t)'
        <5>1. /\ at'[t] \in {"relations", "abstract", "overview", "meta"}
              /\ at'[t] = "meta" => at[t] = "overview"
              /\ at[t] \in {"content", "relations", "abstract", "overview"}
          BY <3>1, <4>2 DEF After, Required
        <5>2. cand[t] \in body'["content"]
          <6>1. CASE at[t] = "content"
            BY <4>1, <6>1 DEF Bodies
          <6>2. CASE at[t] # "content"
            BY <2>b, <4>1, <5>1, <6>2 DEF MergeSafe, Bodies
          <6> QED
            BY <6>1, <6>2
        <5>3. at'[t] = "meta" => cand[t] \in body'["overview"]
          BY <4>1, <5>1 DEF Bodies
        <5> QED
          BY <3>1, <4>3, <4>4, <5>1, <5>2, <5>3 DEF MergeSafe, Merging
      <4>7. ASSUME NEW u \in Thread \ {t} PROVE MergeSafe(u)'
        <5>1. u \notin Writing
          BY <2>b, <3>2, <4>7 DEF Alone
        <5>2. at[u] \notin {"relations", "abstract", "overview", "meta"}
          BY <5>1 DEF Writing, NodeFile, Required
        <5>3. MergeSafe(u)
          BY <2>b
        <5> QED
          BY <3>1, <4>2, <4>3, <5>1, <5>2, <5>3 DEF MergeSafe, Merging, Writing
      <4>8. \A u \in Thread : u \in Writing' => u \in Writing
        BY <3>2, <4>2 DEF Writing
      <4>9. Alone'
        BY <2>b, <4>8 DEF Alone, Writing
      <4> QED
        BY <2>b, <3>1, <4>3, <4>5, <4>6, <4>7, <4>9 DEF MergesSafe, MetaKept
    <3>4. CASE ~dir
      BY <2>8, <2>e, <3>1, <3>4 DEF WriteFile
    <3> QED
      BY <3>3, <3>4
  <2>9. ASSUME NEW t \in Thread, Commit(t) PROVE MergesSafe'
    <3>1. at[t] = "meta" /\ UNCHANGED <<body, cand, plan>>
      BY <2>9 DEF Commit
    <3>2. t \in Writing
      BY <3>1 DEF Writing, NodeFile
    <3>3. CASE dir
      <4>1. /\ files' = files \cup {"meta"} /\ at' = [at EXCEPT ![t] = "mark"]
            /\ meta' = [status |-> "ACTIVE", version |-> plan[t].expected + 1]
            /\ accepted' = accepted \cup {cand[t]}
        BY <2>9, <3>3 DEF Commit
      <4>2. at'[t] = "mark" /\ \A u \in Thread \ {t} : at'[u] = at[u]
        BY <2>t, <4>1
      <4>3. MergeSafe(t)' /\ t \notin Writing'
        BY <4>2 DEF MergeSafe, Merging, Writing, NodeFile, Required
      <4>4. ASSUME NEW u \in Thread \ {t} PROVE MergeSafe(u)'
        <5>1. u \notin Writing
          BY <2>b, <3>2, <4>4 DEF Alone
        <5>2. u \notin Writing' /\ at'[u] \notin {"relations", "abstract", "overview", "meta"}
          BY <4>2, <5>1 DEF Writing, NodeFile, Required
        <5>3. Merging(u) => plan[u].expected <= plan[t].expected
          BY <2>b, <3>2 DEF MergeSafe
        <5>4. plan[u].expected \in Nat /\ plan[t].expected \in Nat
          BY <2>t DEF AnyPlan
        <5>5. Merging(u) => /\ plan[u].expected <= plan[t].expected + 1
                            /\ plan[u].expected # plan[t].expected + 1
          BY <5>3, <5>4
        <5>6. (Merging(u))' <=> Merging(u)
          BY <3>1, <4>2 DEF Merging
        <5>7. meta'.version = plan[t].expected + 1 /\ "meta" \in files'
          BY <4>1
        <5>8. Merging(u)' => /\ "meta" \in files' /\ plan'[u].expected <= meta'.version
                             /\ plan'[u].expected # meta'.version
          BY <3>1, <5>5, <5>6, <5>7
        <5> QED
          BY <5>2, <5>8 DEF MergeSafe, Merging
      <4>5. BodiesKeep'
        BY <2>b, <3>1, <4>1 DEF BodiesKeep, MergeSafe, Bodies
      <4>6. \A u \in Thread : u \in Writing' => u \in Writing
        BY <4>2, <4>3 DEF Writing
      <4>7. Alone'
        BY <2>b, <4>6 DEF Alone, Writing
      <4> QED
        BY <4>1, <4>3, <4>4, <4>5, <4>7 DEF MergesSafe, MetaKept
    <3>4. CASE ~dir
      BY <2>9, <2>e, <3>1, <3>4 DEF Commit
    <3> QED
      BY <3>3, <3>4
  <2>10. ASSUME NEW t \in Thread, Mark(t) \/ Fail(t) PROVE MergesSafe'
    <3>1. UNCHANGED <<body, meta, accepted, files, plan, cand>>
          /\ \E r \in {"written", "raised"} : End(t, r)
      BY <2>10 DEF Mark, Fail, nodeFiles
    <3> QED
      BY <2>e, <3>1
  <2>11. CASE RepairList \/ RepairRead \/ RepairReread \/ UNCHANGED nodeVars
    <3>1. UNCHANGED <<at, plan, cand, body, meta, accepted, files>>
      BY <2>11 DEF RepairList, RepairRead, RepairReread, nodeVars, nodeFiles, threadVars, history
    <3>2. \A u \in Thread : MergeSafe(u)'
      BY <2>b, <3>1, SafeElsewhere
    <3>3. Alone'
      BY <2>b, <3>1 DEF Alone, Writing
    <3> QED
      BY <2>b, <3>1, <3>2, <3>3 DEF MergesSafe, BodiesKeep, MetaKept
  <2>i. ASSUME \A u \in Thread : at'[u] = "idle", BodiesKeep', MetaKept' PROVE MergesSafe'
    <3>1. \A u \in Thread : MergeSafe(u)' /\ u \notin Writing'
      BY <2>i DEF MergeSafe, Merging, Writing, NodeFile, Required
    <3>2. Alone'
      BY <3>1 DEF Alone, Writing
    <3> QED
      BY <2>i, <3>1, <3>2 DEF MergesSafe
  <2>12. CASE RepairWrite
    <3>1. /\ UNCHANGED <<at, body, accepted>> /\ files' = files \cup {"meta"}
          /\ raced' = (raced \/ Busy # {} \/ repair.stale)
      BY <2>12 DEF RepairWrite, threadVars
    <3>2. \A u \in Thread : at'[u] = "idle"
      BY <3>1 DEF Busy
    <3> QED
      BY <2>b, <2>i, <3>1, <3>2 DEF BodiesKeep, MetaKept
  <2>13. CASE Delete
    <3>1. /\ at' = at /\ accepted' = {}
          /\ raced' = (raced \/ Busy # {} \/ repair.at # "idle")
      BY <2>13 DEF Delete, threadVars
    <3>2. \A u \in Thread : at'[u] = "idle"
      BY <3>1 DEF Busy
    <3> QED
      BY <2>i, <3>1, <3>2 DEF BodiesKeep, MetaKept
  <2>14. CASE Crash
    <3>1. (\A u \in Thread : at'[u] = "idle") /\ UNCHANGED <<body, accepted, files>>
      BY <2>14 DEF Crash, nodeFiles
    <3> QED
      BY <2>b, <2>i, <3>1 DEF BodiesKeep, MetaKept
  <2> QED
    BY <2>1, <2>2, <2>3, <2>4, <2>5, <2>6, <2>7, <2>8, <2>9, <2>10, <2>11, <2>12, <2>13,
       <2>14 DEF NodeNext, ThreadStep, RepairStep
<1>3. MergesSafe => MergesKept
  BY DEF MergesSafe, BodiesKeep, MergesKept, Bodies
<1> QED
  BY <1>1, <1>2, <1>3, NodeTypes, PTL DEF NodeSpec
=============================================================================
