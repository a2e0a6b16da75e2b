------------------------- MODULE OutboxSync_proofs -------------------------
(***************************************************************************)
(* Theorems about OutboxSync for every set of events, nodes and workers    *)
(* and every value of the bounds: type correctness, the justification of   *)
(* every removal of an event file, that no event is lost, and that         *)
(* OutboxSync implements EventDelivery.                                    *)
(***************************************************************************)
EXTENDS OutboxSync, FiniteSetTheorems, WellFoundedInduction, TLAPS

-----------------------------------------------------------------------------
(* A listing has a first event *)

Below(S, x) == {y \in S : y < x}

\* A finite non-empty set of numbers has a least element, the one First picks:
\* the set of elements below it is minimal among the finite subsets.
LEMMA FirstIn ==
  ASSUME NEW S, S \subseteq Nat, S # {}, IsFiniteSet(S)
  PROVE  First(S) \in S
<1> DEFINE T == {Below(S, x) : x \in S}
<1>1. T \subseteq FiniteSubsetsOf(S)
  <2>1. \A x \in S : Below(S, x) \in SUBSET S
    BY DEF Below
  <2>2. T \subseteq SUBSET S
    BY <2>1
  <2> HIDE DEF T
  <2> QED BY <2>2, FS_FiniteSubsetsOfFinite
<1>2. T # {}
  OBVIOUS
<1>3. PICK B \in T : \A C \in T : <<C, B>> \notin StrictSubsetOrdering(S)
  <2> HIDE DEF T
  <2> QED BY <1>1, <1>2, FS_StrictSubsetOrderingWellFounded, WFMin, Zenon
<1>4. PICK x \in S : B = Below(S, x)
  OBVIOUS
<1>5. \A y \in S : x <= y
  <2> SUFFICES ASSUME NEW y \in S, ~(x <= y) PROVE FALSE
    OBVIOUS
  <2>1. x \in Nat /\ y \in Nat /\ \A z \in S : z \in Nat
    OBVIOUS
  <2>2. \A z \in S : z < y => z < x
    <3> HIDE DEF T
    <3> QED BY <2>1
  <2>3. Below(S, y) \subseteq Below(S, x)
    <3> HIDE DEF T
    <3> QED BY <2>2 DEF Below
  <2>4. y \in Below(S, x) /\ y \notin Below(S, y)
    BY <2>1 DEF Below
  <2>5. Below(S, x) \subseteq S
    BY DEF Below
  <2>6. <<Below(S, y), Below(S, x)>> \notin StrictSubsetOrdering(S)
    BY <1>3, <1>4
  <2> QED BY <2>3, <2>4, <2>5, <2>6 DEF StrictSubsetOrdering
<1> QED BY <1>5 DEF First

\* The current event of a worker that has one is an event of its loop.
LEMMA CurrentIn ==
  ASSUME TypeOK, NEW w \in Worker, todo[w] # {}
  PROVE  Current(w) \in todo[w] /\ Current(w) \in Event
<1>1. todo[w] \subseteq Event
  BY DEF TypeOK
<1>2. todo[w] \subseteq Nat /\ IsFiniteSet(todo[w])
  BY <1>1, EventAssumption, FS_Subset
<1>3. First(todo[w]) \in todo[w]
  BY <1>2, FirstIn
<1> QED BY <1>1, <1>3 DEF Current

-----------------------------------------------------------------------------
(* Type correctness *)

Counts == [Event -> 0..MaxRetry]

\* TypeOK in two halves: what the storage holds, what the workers hold.
StoreOK ==
  /\ author \in [Event -> {"new", "written", "registered", "failed", "deleted"}]
  /\ node \in [Node -> Event \cup {0}]
  /\ dirs \subseteq Node /\ outboxes \subseteq Node
  /\ pending \subseteq Event /\ waiting \subseteq Event
  /\ locked \subseteq Event /\ dead \subseteq Event
  /\ retry \in Counts
  /\ index \in [Node \X Part -> Event \cup {0}]
  /\ crashes \in 0..MaxCrashes
  /\ delivered \subseteq Event /\ wiped \subseteq Event
  /\ fails \in [Event -> 0..MaxFails]

WorkOK ==
  /\ loop \in [Worker -> Loops] /\ step \in [Worker -> Steps]
  /\ todo \in [Worker -> SUBSET Event]
  /\ batch \in [Worker -> SUBSET Event]
  /\ others \in [Worker -> SUBSET Event]
  /\ snap \in [Worker -> Counts]
  /\ \A w \in Worker : step[w] # "next" => todo[w] # {}

LEMMA TypeHalves == TypeOK <=> StoreOK /\ WorkOK
  BY DEF TypeOK, StoreOK, WorkOK, Counts

LEMMA KeepType ==
  ASSUME WorkOK, NEW w \in Worker, NEW S
  PROVE  Keep(w, S) \in Counts
  BY BoundAssumption DEF WorkOK, Keep, Counts

LEMMA GoType ==
  ASSUME WorkOK, NEW w \in Worker, NEW l \in Loops, NEW s \in Steps,
         NEW t \in SUBSET Event, s # "next" => t # {}, Go(w, l, s, t)
  PROVE  /\ loop' \in [Worker -> Loops] /\ step' \in [Worker -> Steps]
         /\ todo' \in [Worker -> SUBSET Event]
         /\ \A v \in Worker : step'[v] # "next" => todo'[v] # {}
  BY DEF WorkOK, Go

LEMMA LeaveType ==
  ASSUME WorkOK, NEW w \in Worker, Leave(w)
  PROVE  WorkOK'
<1>1. [e \in Event |-> 0] \in Counts
  BY BoundAssumption DEF Counts
<1>2. /\ loop' \in [Worker -> Loops] /\ step' \in [Worker -> Steps]
      /\ todo' \in [Worker -> SUBSET Event]
      /\ \A v \in Worker : step'[v] # "next" => todo'[v] # {}
  BY GoType DEF Leave, Loops, Steps
<1>3. /\ batch' \in [Worker -> SUBSET Event]
      /\ others' \in [Worker -> SUBSET Event]
      /\ snap' \in [Worker -> Counts]
  BY <1>1 DEF WorkOK, Leave
<1> QED BY <1>2, <1>3 DEF WorkOK

LEMMA StayType ==
  ASSUME WorkOK, NEW w \in Worker, NEW s \in Steps, Stay(w, s),
         todo[w] # {}, snap' \in [Worker -> Counts]
  PROVE  WorkOK'
<1>1. loop[w] \in Loops /\ todo[w] \in SUBSET Event
  BY DEF WorkOK
<1>2. /\ loop' \in [Worker -> Loops] /\ step' \in [Worker -> Steps]
      /\ todo' \in [Worker -> SUBSET Event]
      /\ \A v \in Worker : step'[v] # "next" => todo'[v] # {}
  BY <1>1, GoType DEF Stay
<1> QED BY <1>2 DEF WorkOK, Stay

LEMMA AdvanceType ==
  ASSUME WorkOK, NEW w \in Worker, Advance(w)
  PROVE  WorkOK'
<1>1. loop[w] \in Loops /\ todo[w] \ {Current(w)} \in SUBSET Event
  BY DEF WorkOK
<1>2. /\ loop' \in [Worker -> Loops] /\ step' \in [Worker -> Steps]
      /\ todo' \in [Worker -> SUBSET Event]
      /\ \A v \in Worker : step'[v] # "next" => todo'[v] # {}
  BY <1>1, GoType DEF Advance, Steps
<1>3. snap' \in [Worker -> Counts]
  BY KeepType DEF Advance, WorkOK
<1> QED BY <1>2, <1>3 DEF WorkOK, Advance

LEMMA StartOthersType ==
  ASSUME WorkOK, NEW w \in Worker, StartOthers(w)
  PROVE  WorkOK'
<1>1. others[w] \in SUBSET Event
  BY DEF WorkOK
<1>2. /\ loop' \in [Worker -> Loops] /\ step' \in [Worker -> Steps]
      /\ todo' \in [Worker -> SUBSET Event]
      /\ \A v \in Worker : step'[v] # "next" => todo'[v] # {}
  BY <1>1, GoType DEF StartOthers, Steps, Loops
<1>3. snap' \in [Worker -> Counts]
  BY KeepType DEF StartOthers, WorkOK
<1>4. batch' \in [Worker -> SUBSET Event] /\ others' \in [Worker -> SUBSET Event]
  BY DEF StartOthers, WorkOK
<1> QED BY <1>2, <1>3, <1>4 DEF WorkOK

LEMMA RaiseType ==
  ASSUME WorkOK, NEW w \in Worker, NEW s \in Counts, Raise(w, s), todo[w] # {}
  PROVE  WorkOK'
<1>1. CASE loop[w] = "upsert"
  <2>1. batch[w] \in SUBSET Event
    BY DEF WorkOK
  <2>2. Go(w, "rebatch", "next", batch[w]) /\ UNCHANGED <<batch, others>>
        /\ snap' = [snap EXCEPT ![w] = s]
    BY <1>1 DEF Raise
  <2>3. /\ loop' \in [Worker -> Loops] /\ step' \in [Worker -> Steps]
        /\ todo' \in [Worker -> SUBSET Event]
        /\ \A v \in Worker : step'[v] # "next" => todo'[v] # {}
    BY <2>1, <2>2, GoType DEF Steps, Loops
  <2> QED BY <2>2, <2>3 DEF WorkOK
<1>2. CASE loop[w] = "other" /\ step[w] = "fail"
  <2>1. Stay(w, "refail") /\ snap' = [snap EXCEPT ![w] = s]
    BY <1>2 DEF Raise
  <2>2. snap' \in [Worker -> Counts]
    BY <2>1 DEF WorkOK
  <2> QED BY <2>1, <2>2, StayType DEF Steps
<1>3. CASE loop[w] # "upsert" /\ ~(loop[w] = "other" /\ step[w] = "fail")
  BY <1>3, LeaveType DEF Raise
<1> QED BY <1>1, <1>2, <1>3

LEMMA BumpType ==
  ASSUME StoreOK, NEW S
  PROVE  Bump(fails, S) \in [Event -> 0..MaxFails]
  BY BoundAssumption DEF StoreOK, Bump

LEMMA InitType == Init => TypeOK
<1> SUFFICES ASSUME Init PROVE StoreOK /\ WorkOK
  BY TypeHalves
<1>1. StoreOK
  BY BoundAssumption DEF Init, StoreOK, Counts, Part
<1>2. WorkOK
  BY BoundAssumption DEF Init, WorkOK, Counts, Loops, Steps
<1> QED BY <1>1, <1>2

\* The requests change nothing of the workers, and keep their own types.
LEMMA AuthorStepType ==
  ASSUME TypeOK, NEW e \in Event, AuthorStep(e)
  PROVE  TypeOK'
<1> SUFFICES StoreOK' /\ WorkOK'
  BY DEF TypeOK, StoreOK, WorkOK, Counts
<1> USE UriAssumption, BoundAssumption DEF authorVars, fileVars, histVars, workVars
<1>1. StoreOK /\ WorkOK
  BY TypeHalves
<1>2. UNCHANGED workVars
  BY DEF AuthorStep, WriteNode, RegisterEvent, RegisterFails, DeleteNode
<1>3. WorkOK'
  BY <1>1, <1>2 DEF WorkOK
<1>4. StoreOK'
  <2>1. CASE WriteNode(e)
    BY <1>1, <2>1 DEF WriteNode, StoreOK
  <2>2. CASE RegisterEvent(e)
    BY <1>1, <2>2 DEF RegisterEvent, StoreOK
  <2>3. CASE RegisterFails(e)
    BY <1>1, <2>3 DEF RegisterFails, StoreOK
  <2>4. CASE DeleteNode(e)
    BY <1>1, <2>4 DEF DeleteNode, StoreOK, Counts
  <2> QED BY <2>1, <2>2, <2>3, <2>4 DEF AuthorStep
<1> QED BY <1>3, <1>4

LEMMA ClaimStepType ==
  ASSUME TypeOK, NEW w \in Worker, Scan(w) \/ ClaimStep(w)
  PROVE  TypeOK'
<1> SUFFICES StoreOK' /\ WorkOK'
  BY DEF TypeOK, StoreOK, WorkOK, Counts
<1> USE DEF authorVars, fileVars, histVars
<1>1. StoreOK /\ WorkOK
  BY TypeHalves
<1>2. CASE Scan(w)
  <2>1. PICK S \in SUBSET Event : ListPending(w, S)
    BY <1>2 DEF Scan
  <2>2. StoreOK'
    BY <1>1, <2>1 DEF ListPending, StoreOK
  <2>3. /\ loop' \in [Worker -> Loops] /\ step' \in [Worker -> Steps]
        /\ todo' \in [Worker -> SUBSET Event]
        /\ \A v \in Worker : step'[v] # "next" => todo'[v] # {}
    BY <1>1, <2>1, GoType DEF ListPending, Loops, Steps
  <2>4. [e \in Event |-> IF e \in S THEN retry[e] ELSE 0] \in Counts
    BY <1>1, BoundAssumption DEF StoreOK, Counts
  <2>5. snap' \in [Worker -> Counts]
    BY <1>1, <2>1, <2>4 DEF ListPending, WorkOK
  <2> QED BY <1>1, <2>1, <2>2, <2>3, <2>5 DEF ListPending, WorkOK
<1>3. CASE ReadLock(w)
  <2>1. StoreOK'
    BY <1>1, <1>3 DEF ReadLock, StoreOK
  <2>2. CASE Advance(w)
    BY <1>1, <2>1, <2>2, AdvanceType
  <2>3. CASE Stay(w, "lock") /\ UNCHANGED snap
    <3>1. snap' \in [Worker -> Counts] /\ todo[w] # {}
      BY <1>1, <1>3, <2>3 DEF WorkOK, ReadLock
    <3> QED BY <1>1, <2>1, <2>3, <3>1, StayType DEF Steps
  <2> QED BY <1>3, <2>2, <2>3 DEF ReadLock
<1>4. CASE WriteLock(w)
  <2>1. todo[w] # {} /\ Current(w) \in Event
    BY <1>1, <1>4, CurrentIn DEF WorkOK, WriteLock
  <2> DEFINE e == Current(w)
  <2>2. StoreOK'
    <3>1. delivered' \in {delivered, delivered \cup {e}}
      BY <1>4 DEF WriteLock
    <3>2. fails' \in {fails, Bump(fails, {e})}
      BY <1>4 DEF WriteLock
    <3>3. Bump(fails, {e}) \in [Event -> 0..MaxFails]
      BY <1>1, BumpType
    <3>4. locked' = locked \cup {e} /\ UNCHANGED <<authorVars, fileVars, dead, index, crashes, wiped>>
      BY <1>4 DEF WriteLock
    <3> HIDE DEF e
    <3> QED BY <1>1, <2>1, <3>1, <3>2, <3>3, <3>4 DEF StoreOK, e
  <2>3. WorkOK'
    <3>1. UNCHANGED snap
      BY <1>4 DEF WriteLock
    <3>2. CASE Stay(w, "done") \/ Stay(w, "fail")
      <4>1. snap' \in [Worker -> Counts]
        BY <1>1, <3>1 DEF WorkOK
      <4> QED BY <1>1, <2>1, <3>2, <4>1, StayType DEF Steps
    <3>3. CASE /\ Go(w, "acquire", "next", todo[w] \ {e})
               /\ batch' = [batch EXCEPT ![w] = @ \cup {e}] \/ UNCHANGED batch
               /\ others' = [others EXCEPT ![w] = @ \cup {e}] \/ UNCHANGED others
      <4>1. todo[w] \ {e} \in SUBSET Event
        BY <1>1 DEF WorkOK
      <4>2. /\ loop' \in [Worker -> Loops] /\ step' \in [Worker -> Steps]
            /\ todo' \in [Worker -> SUBSET Event]
            /\ \A v \in Worker : step'[v] # "next" => todo'[v] # {}
        BY <1>1, <3>3, <4>1, GoType DEF Loops, Steps
      <4>3. batch' \in [Worker -> SUBSET Event] /\ others' \in [Worker -> SUBSET Event]
        BY <1>1, <2>1, <3>3 DEF WorkOK
      <4> QED BY <1>1, <3>1, <4>2, <4>3 DEF WorkOK
    <3> QED BY <1>4, <3>2, <3>3 DEF WriteLock
  <2> QED BY <2>2, <2>3
<1>5. CASE WriteLockFails(w)
  BY <1>1, <1>5, LeaveType DEF WriteLockFails, StoreOK
<1>6. CASE EndAcquire(w)
  <2>1. StoreOK'
    BY <1>1, <1>6 DEF EndAcquire, StoreOK
  <2>2. CASE StartOthers(w)
    BY <1>1, <2>1, <2>2, StartOthersType
  <2>3. CASE Go(w, "embed", "next", batch[w]) /\ UNCHANGED <<batch, others, snap>>
    <3>1. batch[w] \in SUBSET Event
      BY <1>1 DEF WorkOK
    <3>2. /\ loop' \in [Worker -> Loops] /\ step' \in [Worker -> Steps]
          /\ todo' \in [Worker -> SUBSET Event]
          /\ \A v \in Worker : step'[v] # "next" => todo'[v] # {}
      BY <1>1, <2>3, <3>1, GoType DEF Loops, Steps
    <3> QED BY <1>1, <2>1, <2>3, <3>2 DEF WorkOK
  <2> QED BY <1>6, <2>2, <2>3 DEF EndAcquire
<1> QED BY <1>2, <1>3, <1>4, <1>5, <1>6 DEF ClaimStep

LEMMA BatchStepType ==
  ASSUME TypeOK, NEW w \in Worker, BatchStep(w)
  PROVE  TypeOK'
<1> SUFFICES StoreOK' /\ WorkOK'
  BY DEF TypeOK, StoreOK, WorkOK, Counts
<1> USE DEF authorVars, fileVars, histVars
<1>1. StoreOK /\ WorkOK
  BY TypeHalves
<1>2. batch[w] \in SUBSET Event
  BY <1>1 DEF WorkOK
<1>3. CASE Embed(w) \/ EmbedFails(w)
  <2>1. fails' \in {fails, Bump(fails, batch[w])}
    BY <1>3 DEF Embed, EmbedFails
  <2>2. fails' \in [Event -> 0..MaxFails]
    BY <1>1, <2>1, BumpType DEF StoreOK
  <2>3. StoreOK'
    BY <1>1, <1>3, <2>2 DEF Embed, EmbedFails, StoreOK
  <2>4. Go(w, "upsert", "next", batch[w]) \/ Go(w, "rebatch", "next", batch[w])
    BY <1>3 DEF Embed, EmbedFails
  <2>5. /\ loop' \in [Worker -> Loops] /\ step' \in [Worker -> Steps]
        /\ todo' \in [Worker -> SUBSET Event]
        /\ \A v \in Worker : step'[v] # "next" => todo'[v] # {}
    BY <1>1, <1>2, <2>4, GoType DEF Loops, Steps
  <2>6. UNCHANGED <<batch, others, snap>>
    BY <1>3 DEF Embed, EmbedFails
  <2> QED BY <1>1, <2>3, <2>5, <2>6 DEF WorkOK
<1>4. CASE Upsert(w) \/ UpsertFails(w) \/ FailBatch(w)
  <2>1. todo[w] # {} /\ Current(w) \in Event /\ UNCHANGED snap
    BY <1>4, CurrentIn DEF Upsert, UpsertFails, FailBatch
  <2>2. StoreOK'
    <3>1. CASE Upsert(w)
      <4>1. index' \in [Node \X Part -> Event \cup {0}]
        BY <1>1, <2>1, <3>1 DEF Upsert, UpsertRecords, StoreOK
      <4> QED BY <1>1, <2>1, <3>1, <4>1 DEF Upsert, StoreOK
    <3>2. CASE UpsertFails(w)
      <4>1. fails' \in [Event -> 0..MaxFails]
        BY <1>1, <3>2, BumpType DEF UpsertFails
      <4> QED BY <1>1, <3>2, <4>1 DEF UpsertFails, StoreOK
    <3>3. CASE FailBatch(w)
      BY <1>1, <3>3 DEF FailBatch, StoreOK
    <3> QED BY <1>4, <3>1, <3>2, <3>3
  <2>3. Stay(w, "done") \/ Stay(w, "fail")
    BY <1>4 DEF Upsert, UpsertFails, FailBatch
  <2>4. snap' \in [Worker -> Counts]
    BY <1>1, <2>1 DEF WorkOK
  <2>5. WorkOK'
    BY <1>1, <2>1, <2>3, <2>4, StayType DEF Steps
  <2> QED BY <2>2, <2>5
<1>5. CASE EndBatch(w)
  <2>1. StoreOK'
    BY <1>1, <1>5 DEF EndBatch, StoreOK
  <2> QED BY <1>1, <1>5, <2>1, StartOthersType DEF EndBatch
<1> QED BY <1>3, <1>4, <1>5 DEF BatchStep

LEMMA OtherStepType ==
  ASSUME TypeOK, NEW w \in Worker, OtherStep(w)
  PROVE  TypeOK'
<1> SUFFICES StoreOK' /\ WorkOK'
  BY DEF TypeOK, StoreOK, WorkOK, Counts
<1> USE DEF authorVars, fileVars, histVars
<1>1. StoreOK /\ WorkOK
  BY TypeHalves
<1>2. CASE EndCycle(w)
  BY <1>1, <1>2, LeaveType DEF EndCycle, StoreOK
<1>3. CASE GiveUp(w) \/ ProcessOther(w) \/ ProcessOtherFails(w)
  <2>1. todo[w] # {} /\ Current(w) \in Event /\ UNCHANGED snap
    BY <1>3, CurrentIn DEF GiveUp, ProcessOther, ProcessOtherFails, AtOther
  <2>2. StoreOK'
    <3>1. CASE GiveUp(w)
      BY <1>1, <3>1 DEF GiveUp, StoreOK
    <3>2. CASE ProcessOther(w)
      <4>1. index' \in [Node \X Part -> Event \cup {0}]
        BY <1>1, <3>2 DEF ProcessOther, DeleteRecords, StoreOK
      <4> QED BY <1>1, <2>1, <3>2, <4>1 DEF ProcessOther, StoreOK
    <3>3. CASE ProcessOtherFails(w)
      <4>1. fails' \in [Event -> 0..MaxFails]
        BY <1>1, <3>3, BumpType DEF ProcessOtherFails
      <4> QED BY <1>1, <3>3, <4>1 DEF ProcessOtherFails, StoreOK
    <3> QED BY <1>3, <3>1, <3>2, <3>3
  <2>3. Stay(w, "done") \/ Stay(w, "fail")
    BY <1>3 DEF GiveUp, ProcessOther, ProcessOtherFails
  <2>4. snap' \in [Worker -> Counts]
    BY <1>1, <2>1 DEF WorkOK
  <2>5. WorkOK'
    BY <1>1, <2>1, <2>3, <2>4, StayType DEF Steps
  <2> QED BY <2>2, <2>5
<1> QED BY <1>2, <1>3 DEF OtherStep

LEMMA ResultStepType ==
  ASSUME TypeOK, NEW w \in Worker, ResultStep(w)
  PROVE  TypeOK'
<1> SUFFICES StoreOK' /\ WorkOK'
  BY DEF TypeOK, StoreOK, WorkOK, Counts
<1> USE DEF authorVars, fileVars, histVars
<1>1. StoreOK /\ WorkOK
  BY TypeHalves
<1>2. step[w] # "next"
  BY DEF ResultStep, RemoveEvent, RemoveLock, IncrementRetry, WriteDlq, RemoveDead
<1>3. todo[w] # {} /\ Current(w) \in Event
  BY <1>1, <1>2, CurrentIn DEF WorkOK
<1>4. snap \in [Worker -> Counts] /\ snap[w] \in Counts
  BY <1>1 DEF WorkOK
<1>5. ASSUME RemoveFile(Current(w)) \/ MayFailToRemove,
             UNCHANGED <<author, node, dirs, locked, dead, index, crashes, delivered, fails, wiped>>
      PROVE  StoreOK'
  <2>1. retry' \in Counts
    BY <1>1, <1>5, BoundAssumption DEF RemoveFile, MayFailToRemove, StoreOK, Counts
  <2> QED BY <1>1, <1>5, <2>1 DEF RemoveFile, MayFailToRemove, StoreOK
<1>6. CASE RemoveEvent(w)
  <2>1. StoreOK'
    BY <1>5, <1>6 DEF RemoveEvent
  <2>2. WorkOK'
    BY <1>1, <1>3, <1>4, <1>6, StayType DEF RemoveEvent, Steps
  <2> QED BY <2>1, <2>2
<1>7. CASE RemoveLock(w)
  <2>1. StoreOK'
    BY <1>1, <1>7 DEF RemoveLock, StoreOK
  <2> QED BY <1>1, <1>7, <2>1, AdvanceType DEF RemoveLock
<1>8. CASE IncrementRetry(w)
  <2> DEFINE e == Current(w)
             s == [snap[w] EXCEPT ![e] = @ + 1]
  <2>1. snap[w][e] \in 0..MaxRetry /\ snap[w][e] < MaxRetry
    BY <1>3, <1>4, <1>8 DEF IncrementRetry, Counts
  <2>2. snap[w][e] + 1 \in 0..MaxRetry
    BY <2>1, BoundAssumption
  <2>3. s \in Counts
    BY <1>3, <1>4, <2>2 DEF Counts
  <2>4. s[e] \in 0..MaxRetry
    BY <1>3, <2>3 DEF Counts
  <2>5. UNCHANGED <<author, node, dirs, outboxes, locked, dead, index, crashes, delivered, fails, wiped>>
    BY <1>8 DEF IncrementRetry
  <2>6. CASE /\ pending' = pending \cup {e}
             /\ retry' = [retry EXCEPT ![e] = s[e]]
             /\ waiting' = waiting \cup {e}
             /\ Stay(w, "unlock")
             /\ snap' = [snap EXCEPT ![w] = s]
    <3> HIDE DEF s
    <3>1. retry' \in Counts
      BY <1>1, <1>3, <2>4, <2>6 DEF StoreOK, Counts
    <3>2. StoreOK'
      BY <1>1, <1>3, <2>5, <2>6, <3>1 DEF StoreOK
    <3>3. snap' \in [Worker -> Counts]
      BY <1>4, <2>3, <2>6
    <3> QED BY <1>1, <1>3, <2>6, <3>2, <3>3, StayType DEF Steps
  <2>7. CASE Raise(w, s) /\ UNCHANGED fileVars
    <3> HIDE DEF s
    <3>1. WorkOK'
      BY <1>1, <1>3, <2>3, <2>7, RaiseType
    <3> QED BY <1>1, <2>5, <2>7, <3>1 DEF StoreOK
  <2> QED BY <1>8, <2>6, <2>7 DEF IncrementRetry
<1>9. CASE WriteDlq(w)
  <2>1. StoreOK'
    BY <1>1, <1>3, <1>9 DEF WriteDlq, StoreOK
  <2>2. CASE Raise(w, snap[w])
    BY <1>1, <1>3, <1>4, <2>1, <2>2, RaiseType
  <2>3. CASE Stay(w, "bury") /\ UNCHANGED snap
    BY <1>1, <1>3, <1>4, <2>1, <2>3, StayType DEF Steps
  <2> QED BY <1>9, <2>2, <2>3 DEF WriteDlq
<1>10. CASE RemoveDead(w)
  <2>1. StoreOK'
    BY <1>5, <1>10 DEF RemoveDead
  <2> QED BY <1>1, <1>10, <2>1, AdvanceType DEF RemoveDead
<1> QED BY <1>6, <1>7, <1>8, <1>9, <1>10 DEF ResultStep

\* Time and crashes.
LEMMA TimeStepType ==
  ASSUME TypeOK,
         \/ \E e \in Event : TimeStep(e)
         \/ \E w \in Worker : Crash(w)
  PROVE  TypeOK'
<1> SUFFICES StoreOK' /\ WorkOK'
  BY DEF TypeOK, StoreOK, WorkOK, Counts
<1> USE DEF authorVars, fileVars, histVars, workVars
<1>1. StoreOK /\ WorkOK
  BY TypeHalves
<1>2. ASSUME NEW e \in Event, TimeStep(e) PROVE StoreOK' /\ WorkOK'
  <2>1. UNCHANGED workVars
    BY <1>2 DEF TimeStep, ExpireLock, ElapseBackoff
  <2>2. WorkOK'
    BY <1>1, <2>1 DEF WorkOK
  <2>3. StoreOK'
    BY <1>1, <1>2 DEF TimeStep, ExpireLock, ElapseBackoff, StoreOK
  <2> QED BY <2>2, <2>3
<1>3. ASSUME NEW w \in Worker, Crash(w) PROVE StoreOK' /\ WorkOK'
  <2>1. crashes' \in 0..MaxCrashes
    BY <1>1, <1>3, BoundAssumption DEF Crash, StoreOK
  <2>2. StoreOK'
    BY <1>1, <1>3, <2>1 DEF Crash, StoreOK
  <2> QED BY <1>1, <1>3, <2>2, LeaveType DEF Crash
<1> QED BY <1>2, <1>3

LEMMA StutterType == TypeOK /\ UNCHANGED vars => TypeOK'
  BY DEF TypeOK, vars, authorVars, fileVars, workVars, histVars

\* The type invariant of the model, for all events, nodes, workers and bounds:
\* retry counts never pass max_retry, and a worker in the middle of an event has
\* a current event.
THEOREM TypeCorrect == Spec => []TypeOK
<1>1. TypeOK /\ [Next]_vars => TypeOK'
  <2> SUFFICES ASSUME TypeOK, [Next]_vars PROVE TypeOK'
    OBVIOUS
  <2>1. CASE \E e \in Event : AuthorStep(e)
    BY <2>1, AuthorStepType
  <2>2. CASE \E w \in Worker : WorkerStep(w)
    BY <2>2, ClaimStepType, BatchStepType, OtherStepType, ResultStepType DEF WorkerStep
  <2>3. CASE (\E e \in Event : TimeStep(e)) \/ (\E w \in Worker : Crash(w))
    BY <2>3, TimeStepType
  <2>4. CASE UNCHANGED vars
    BY <2>4, StutterType
  <2> QED BY <2>1, <2>2, <2>3, <2>4 DEF Next
<1> QED BY InitType, <1>1, PTL DEF Spec

-----------------------------------------------------------------------------
(* No event is lost *)

\* Handlers that have succeeded stay so, and a dead letter goes only with its
\* node: the two excuses for removing an event file are never taken back.
LEMMA HandledGrows ==
  ASSUME [Next]_vars
  PROVE  delivered \subseteq delivered' /\ dead \cup wiped \subseteq dead' \cup wiped'
<1> USE DEF histVars
<1>1. CASE \E e \in Event : AuthorStep(e)
  BY <1>1 DEF AuthorStep, WriteNode, RegisterEvent, RegisterFails, DeleteNode
<1>2. CASE \E e \in Event : TimeStep(e)
  BY <1>2 DEF TimeStep, ExpireLock, ElapseBackoff
<1>3. CASE \E w \in Worker : WorkerStep(w)
  <2>1. CASE \E w \in Worker : Scan(w) \/ ClaimStep(w)
    BY <2>1 DEF Scan, ListPending, ClaimStep, ReadLock, WriteLock, WriteLockFails, EndAcquire
  <2>2. CASE \E w \in Worker : BatchStep(w)
    BY <2>2 DEF BatchStep, Embed, EmbedFails, Upsert, UpsertFails, FailBatch, EndBatch
  <2>3. CASE \E w \in Worker : OtherStep(w)
    BY <2>3 DEF OtherStep, GiveUp, ProcessOther, ProcessOtherFails, EndCycle
  <2>4. CASE \E w \in Worker : ResultStep(w)
    BY <2>4 DEF ResultStep, RemoveEvent, RemoveLock, IncrementRetry, WriteDlq, RemoveDead
  <2> QED BY <1>3, <2>1, <2>2, <2>3, <2>4 DEF WorkerStep
<1>4. CASE \E w \in Worker : Crash(w)
  BY <1>4 DEF Crash
<1>5. CASE UNCHANGED vars
  BY <1>5 DEF vars
<1> QED BY <1>1, <1>2, <1>3, <1>4, <1>5 DEF Next

Justified(w) ==
  /\ step[w] = "done" => Current(w) \in delivered
  /\ step[w] = "bury" => Current(w) \in dead \cup wiped

\* A worker's step leaves the other workers where they are.
LEMMA OneWorkerMoves ==
  ASSUME WorkOK, NEW w \in Worker, WorkerStep(w) \/ Crash(w), NEW v \in Worker, v # w
  PROVE  step'[v] = step[v] /\ todo'[v] = todo[v]
<1>1. ASSUME NEW l, NEW s, NEW t, Go(w, l, s, t)
      PROVE  step'[v] = step[v] /\ todo'[v] = todo[v]
  BY <1>1 DEF Go, WorkOK
<1>2. \/ \E l, s, t : Go(w, l, s, t)
      \/ UNCHANGED <<step, todo>>
  <2>1. ASSUME NEW s, Raise(w, s) PROVE \E l, r, t : Go(w, l, r, t)
    BY <2>1 DEF Raise, Stay, Leave
  <2>2. CASE Scan(w) \/ ClaimStep(w)
    BY <2>2 DEF Scan, ListPending, ClaimStep, ReadLock, WriteLock, WriteLockFails,
                EndAcquire, Advance, Stay, Leave, StartOthers
  <2>3. CASE BatchStep(w)
    BY <2>3 DEF BatchStep, Embed, EmbedFails, Upsert, UpsertFails, FailBatch, EndBatch,
                Stay, StartOthers
  <2>4. CASE OtherStep(w)
    BY <2>4 DEF OtherStep, GiveUp, ProcessOther, ProcessOtherFails, EndCycle, Stay, Leave
  <2>5. CASE ResultStep(w)
    BY <2>1, <2>5 DEF ResultStep, RemoveEvent, RemoveLock, IncrementRetry, WriteDlq,
                RemoveDead, Stay, Advance
  <2>6. CASE Crash(w)
    BY <2>6 DEF Crash, Leave
  <2> QED BY <2>2, <2>3, <2>4, <2>5, <2>6 DEF WorkerStep
<1> QED BY <1>1, <1>2

\* Whatever a worker does, it arrives at an rm with its justification.
LEMMA WorkerJustified ==
  ASSUME TypeOK, NEW w \in Worker, WorkerStep(w) \/ Crash(w)
  PROVE  Justified(w)'
<1>1. WorkOK
  BY TypeHalves
<1>2. ASSUME NEW l, NEW s, NEW t, Go(w, l, s, t), s \notin {"done", "bury"}
      PROVE  Justified(w)'
  BY <1>1, <1>2 DEF Go, WorkOK, Justified
<1>3. ASSUME NEW s, Stay(w, s), s \notin {"done", "bury"}
      PROVE  Justified(w)'
  BY <1>2, <1>3 DEF Stay
<1>4. ASSUME NEW s, Stay(w, s)
      PROVE  step'[w] = s /\ Current(w)' = Current(w)
  BY <1>1, <1>4 DEF Stay, Go, WorkOK, Current
<1>5. ASSUME Leave(w) \/ Advance(w) \/ StartOthers(w)
      PROVE  Justified(w)'
  BY <1>2, <1>5 DEF Leave, Advance, StartOthers
<1>6. ASSUME NEW s, Raise(w, s)
      PROVE  Justified(w)'
  BY <1>2, <1>3, <1>5, <1>6 DEF Raise
<1>7. CASE Scan(w)
  BY <1>2, <1>7 DEF Scan, ListPending
<1>8. CASE ReadLock(w) \/ WriteLockFails(w) \/ EndAcquire(w)
  BY <1>2, <1>3, <1>5, <1>8 DEF ReadLock, WriteLockFails, EndAcquire
<1>9. CASE WriteLock(w)
  <2>1. CASE Stay(w, "done") /\ delivered' = delivered \cup {Current(w)}
    <3>1. step'[w] = "done" /\ Current(w)' = Current(w)
      BY <1>4, <2>1
    <3> QED BY <2>1, <3>1 DEF Justified
  <2>2. CASE Stay(w, "fail") \/ Go(w, "acquire", "next", todo[w] \ {Current(w)})
    BY <1>2, <1>3, <2>2
  <2> QED BY <1>9, <2>1, <2>2 DEF WriteLock
<1>10. CASE Upsert(w) \/ ProcessOther(w)
  <2>1. step'[w] = "done" /\ Current(w)' = Current(w)
    BY <1>4, <1>10 DEF Upsert, ProcessOther
  <2> QED BY <1>10, <2>1 DEF Upsert, ProcessOther, Justified
<1>11. CASE Embed(w) \/ EmbedFails(w) \/ UpsertFails(w) \/ FailBatch(w) \/ EndBatch(w)
  BY <1>2, <1>3, <1>5, <1>11 DEF Embed, EmbedFails, UpsertFails, FailBatch, EndBatch
<1>12. CASE GiveUp(w) \/ ProcessOtherFails(w) \/ EndCycle(w)
  BY <1>3, <1>5, <1>12 DEF GiveUp, ProcessOtherFails, EndCycle
<1>13. CASE RemoveEvent(w) \/ RemoveLock(w) \/ RemoveDead(w)
  BY <1>3, <1>5, <1>13 DEF RemoveEvent, RemoveLock, RemoveDead
<1>14. CASE IncrementRetry(w)
  BY <1>3, <1>6, <1>14 DEF IncrementRetry
<1>15. CASE WriteDlq(w)
  <2>1. CASE Stay(w, "bury") /\ dead' = dead \cup {Current(w)}
    <3>1. step'[w] = "bury" /\ Current(w)' = Current(w)
      BY <1>4, <2>1
    <3> QED BY <2>1, <3>1 DEF Justified
  <2>2. CASE Raise(w, snap[w])
    BY <1>6, <2>2
  <2> QED BY <1>15, <2>1, <2>2 DEF WriteDlq
<1>16. CASE Crash(w)
  BY <1>5, <1>16 DEF Crash
<1> QED BY <1>7, <1>8, <1>9, <1>10, <1>11, <1>12, <1>13, <1>14, <1>15, <1>16
       DEF WorkerStep, ClaimStep, BatchStep, OtherStep, ResultStep

LEMMA JustifiedNext ==
  ASSUME TypeOK, RemovalJustified, [Next]_vars
  PROVE  RemovalJustified'
<1>1. WorkOK
  BY TypeHalves
<1>2. delivered \subseteq delivered' /\ dead \cup wiped \subseteq dead' \cup wiped'
  BY HandledGrows
<1>3. ASSUME NEW v \in Worker, step'[v] = step[v] /\ todo'[v] = todo[v]
      PROVE  Justified(v)'
  BY <1>2, <1>3 DEF RemovalJustified, Justified, Current
<1>4. SUFFICES \A v \in Worker : Justified(v)'
  BY DEF RemovalJustified, Justified
<1>5. CASE \E w \in Worker : WorkerStep(w) \/ Crash(w)
  BY <1>1, <1>3, <1>5, OneWorkerMoves, WorkerJustified
<1>6. CASE (\E e \in Event : AuthorStep(e) \/ TimeStep(e)) \/ UNCHANGED vars
  <2>1. UNCHANGED <<step, todo>>
    BY <1>6 DEF AuthorStep, WriteNode, RegisterEvent, RegisterFails, DeleteNode,
                TimeStep, ExpireLock, ElapseBackoff, vars, workVars
  <2> QED BY <1>3, <2>1
<1> QED BY <1>5, <1>6 DEF Next

\* Every rm of an event file by a worker is justified, for any number of events
\* and workers and any number of crashes and storage failures.
THEOREM RemovalsJustified == Spec => []RemovalJustified
<1>1. Init => RemovalJustified
  BY DEF Init, RemovalJustified
<1>2. TypeOK /\ RemovalJustified /\ [Next]_vars => RemovalJustified'
  BY JustifiedNext
<1> QED BY <1>1, <1>2, TypeCorrect, PTL DEF Spec

\* An event file goes only after its handler succeeded, its dead letter was
\* written, or with its node; an event is registered only with its file.
LEMMA FilesGo ==
  ASSUME TypeOK, RemovalJustified, [Next]_vars
  PROVE  /\ pending \ pending' \subseteq delivered' \cup dead' \cup wiped'
         /\ Registered' \ Registered \subseteq pending'
         /\ Registered \subseteq Registered'
<1> USE DEF authorVars, fileVars
<1>1. WorkOK /\ StoreOK
  BY TypeHalves
<1>2. delivered \subseteq delivered' /\ dead \cup wiped \subseteq dead' \cup wiped'
  BY HandledGrows
<1>3. ASSUME NEW e \in Event, AuthorStep(e)
      PROVE  /\ pending \ pending' \subseteq delivered' \cup dead' \cup wiped'
             /\ Registered' \ Registered \subseteq pending'
             /\ Registered \subseteq Registered'
  <2>1. CASE WriteNode(e)
    BY <1>1, <2>1 DEF WriteNode, Registered, StoreOK
  <2>2. CASE RegisterEvent(e)
    BY <1>1, <2>2 DEF RegisterEvent, ReadyToRegister, Registered, StoreOK
  <2>3. CASE RegisterFails(e)
    BY <1>1, <2>3 DEF RegisterFails, ReadyToRegister, Registered, StoreOK
  <2>4. CASE DeleteNode(e)
    <3>1. Registered' = Registered
      BY <1>1, <2>4 DEF DeleteNode, Registered, StoreOK
    <3>2. pending \ pending' \subseteq wiped'
      BY <2>4 DEF DeleteNode
    <3> QED BY <3>1, <3>2
  <2> QED BY <1>3, <2>1, <2>2, <2>3, <2>4 DEF AuthorStep
<1>4. ASSUME UNCHANGED author
      PROVE  Registered' = Registered
  BY <1>4 DEF Registered
<1>5. ASSUME NEW w \in Worker, WorkerStep(w)
      PROVE  pending \ pending' \subseteq delivered' \cup dead' \cup wiped' /\ UNCHANGED author
  <2>1. CASE RemoveEvent(w) \/ RemoveDead(w)
    <3>1. pending \ pending' \subseteq {Current(w)} /\ UNCHANGED author
      BY <2>1 DEF RemoveEvent, RemoveDead, RemoveFile, MayFailToRemove
    <3>2. Current(w) \in delivered \cup dead \cup wiped
      BY <2>1 DEF RemoveEvent, RemoveDead, RemovalJustified
    <3> QED BY <1>2, <3>1, <3>2
  <2>2. CASE Scan(w) \/ ClaimStep(w)
    BY <2>2 DEF Scan, ListPending, ClaimStep, ReadLock, WriteLock, WriteLockFails, EndAcquire
  <2>3. CASE BatchStep(w)
    BY <2>3 DEF BatchStep, Embed, EmbedFails, Upsert, UpsertFails, FailBatch, EndBatch
  <2>4. CASE OtherStep(w)
    BY <2>4 DEF OtherStep, GiveUp, ProcessOther, ProcessOtherFails, EndCycle
  <2>5. CASE RemoveLock(w) \/ IncrementRetry(w) \/ WriteDlq(w)
    BY <2>5 DEF RemoveLock, IncrementRetry, WriteDlq
  <2> QED BY <1>5, <2>1, <2>2, <2>3, <2>4, <2>5 DEF WorkerStep, ResultStep
<1>6. CASE (\E e \in Event : TimeStep(e)) \/ (\E w \in Worker : Crash(w)) \/ UNCHANGED vars
  <2>1. UNCHANGED <<author, pending>>
    BY <1>6 DEF TimeStep, ExpireLock, ElapseBackoff, Crash, vars
  <2> QED BY <1>4, <2>1
<1> QED BY <1>3, <1>4, <1>5, <1>6 DEF Next

\* No registered event disappears without having been handled, dead-lettered or
\* deleted with its node, whatever races, crashes and storage failures happen.
THEOREM EventsKept == Spec => []NoEventLost
<1>1. Init => NoEventLost
  BY DEF Init, NoEventLost, Registered
<1>2. ASSUME TypeOK, RemovalJustified, NoEventLost, [Next]_vars
      PROVE  NoEventLost'
  <2>1. delivered \subseteq delivered' /\ dead \cup wiped \subseteq dead' \cup wiped'
    BY <1>2, HandledGrows
  <2>2. /\ pending \ pending' \subseteq delivered' \cup dead' \cup wiped'
        /\ Registered' \ Registered \subseteq pending'
    BY <1>2, FilesGo
  <2>3. Registered \subseteq pending \cup dead \cup delivered \cup wiped
    BY <1>2 DEF NoEventLost
  <2>4. Registered' \subseteq pending' \cup dead' \cup delivered' \cup wiped'
    <3> HIDE DEF Registered
    <3> QED BY <2>1, <2>2, <2>3
  <2> QED BY <2>4 DEF NoEventLost
<1> QED BY <1>1, <1>2, TypeCorrect, RemovalsJustified, PTL DEF Spec

-----------------------------------------------------------------------------
(* OutboxSync implements EventDelivery *)

\* Events a run_once still has in its lists.
Held(w) == todo[w] \cup batch[w] \cup others[w]

\* Only registered events are on file or in the hands of a worker.
Traceable ==
  /\ pending \subseteq Registered
  /\ \A w \in Worker : Held(w) \subseteq Registered

\* A worker takes up events from files only, and writes back only its own.
LEMMA HeldFromFiles ==
  ASSUME TypeOK, NEW w \in Worker, WorkerStep(w) \/ Crash(w), NEW v \in Worker
  PROVE  Held(v)' \subseteq Held(v) \cup pending
<1>1. WorkOK
  BY TypeHalves
<1>2. ASSUME Leave(w) PROVE Held(v)' \subseteq Held(v)
  BY <1>1, <1>2 DEF Leave, Go, WorkOK, Held
<1>3. ASSUME NEW s, Stay(w, s) PROVE Held(v)' \subseteq Held(v)
  BY <1>1, <1>3 DEF Stay, Go, WorkOK, Held
<1>4. ASSUME Advance(w) PROVE Held(v)' \subseteq Held(v)
  BY <1>1, <1>4 DEF Advance, Go, WorkOK, Held
<1>5. ASSUME StartOthers(w) PROVE Held(v)' \subseteq Held(v)
  BY <1>1, <1>5 DEF StartOthers, Go, WorkOK, Held
<1>6. ASSUME NEW l, Go(w, l, "next", batch[w]), UNCHANGED <<batch, others>>
      PROVE  Held(v)' \subseteq Held(v)
  BY <1>1, <1>6 DEF Go, WorkOK, Held
<1>7. ASSUME NEW s, Raise(w, s) PROVE Held(v)' \subseteq Held(v)
  BY <1>2, <1>3, <1>6, <1>7 DEF Raise
<1>8. CASE Scan(w)
  <2>1. PICK S \in SUBSET Event : ListPending(w, S)
    BY <1>8 DEF Scan
  <2>2. S \subseteq pending
    BY <2>1 DEF ListPending, Listable
  <2>3. Go(w, "acquire", "next", S) /\ UNCHANGED <<batch, others>>
    BY <2>1 DEF ListPending
  <2> QED BY <1>1, <2>2, <2>3 DEF Go, WorkOK, Held
<1>9. CASE ReadLock(w) \/ WriteLockFails(w) \/ EndAcquire(w)
  BY <1>2, <1>3, <1>4, <1>5, <1>6, <1>9 DEF ReadLock, WriteLockFails, EndAcquire
<1>10. CASE WriteLock(w)
  <2> DEFINE e == Current(w)
  <2>1. CASE Stay(w, "done") \/ Stay(w, "fail")
    BY <1>3, <2>1
  <2>2. CASE /\ Go(w, "acquire", "next", todo[w] \ {e})
             /\ batch' = [batch EXCEPT ![w] = @ \cup {e}] \/ UNCHANGED batch
             /\ others' = [others EXCEPT ![w] = @ \cup {e}] \/ UNCHANGED others
    <3>1. e \in todo[w]
      BY <1>1, <1>10, CurrentIn DEF WriteLock, WorkOK
    <3> HIDE DEF e
    <3> QED BY <1>1, <2>2, <3>1 DEF Go, WorkOK, Held
  <2> QED BY <1>10, <2>1, <2>2 DEF WriteLock
<1>11. CASE BatchStep(w)
  BY <1>3, <1>5, <1>6, <1>11 DEF BatchStep, Embed, EmbedFails, Upsert, UpsertFails,
                                 FailBatch, EndBatch
<1>12. CASE OtherStep(w)
  BY <1>2, <1>3, <1>12 DEF OtherStep, GiveUp, ProcessOther, ProcessOtherFails, EndCycle
<1>13. CASE ResultStep(w)
  BY <1>3, <1>4, <1>7, <1>13 DEF ResultStep, RemoveEvent, RemoveLock, IncrementRetry,
                                 WriteDlq, RemoveDead
<1>14. CASE Crash(w)
  BY <1>2, <1>14 DEF Crash
<1> QED BY <1>8, <1>9, <1>10, <1>11, <1>12, <1>13, <1>14 DEF WorkerStep, ClaimStep

\* A worker's step as a step of EventDelivery: its event, and what it does to it.
LEMMA WorkerDelivers ==
  ASSUME TypeOK, RemovalJustified, Traceable, NEW w \in Worker, WorkerStep(w) \/ Crash(w)
  PROVE  /\ Registered' = Registered
         /\ pending' \subseteq pending \cup Registered
         /\ \/ UNCHANGED <<pending, dead, delivered, wiped>>
            \/ \E e \in Event : \/ Delivery!Deliver(e) \/ Delivery!Requeue(e)
                                \/ Delivery!Bury(e) \/ Delivery!Settle(e)
<1> USE DEF authorVars, fileVars, histVars
<1>1. WorkOK
  BY TypeHalves
<1>2. UNCHANGED author
  <2>1. CASE Scan(w) \/ ClaimStep(w)
    BY <2>1 DEF Scan, ListPending, ClaimStep, ReadLock, WriteLock, WriteLockFails, EndAcquire
  <2>2. CASE BatchStep(w)
    BY <2>2 DEF BatchStep, Embed, EmbedFails, Upsert, UpsertFails, FailBatch, EndBatch
  <2>3. CASE OtherStep(w)
    BY <2>3 DEF OtherStep, GiveUp, ProcessOther, ProcessOtherFails, EndCycle
  <2>4. CASE ResultStep(w)
    BY <2>4 DEF ResultStep, RemoveEvent, RemoveLock, IncrementRetry, WriteDlq, RemoveDead
  <2>5. CASE Crash(w)
    BY <2>5 DEF Crash
  <2> QED BY <2>1, <2>2, <2>3, <2>4, <2>5 DEF WorkerStep
<1>3. Registered' = Registered
  BY <1>2 DEF Registered
<1>4. ASSUME todo[w] # {}
      PROVE  Current(w) \in Event /\ Current(w) \in Registered
  BY <1>4, CurrentIn DEF Traceable, Held
<1>5. step[w] # "next" => todo[w] # {}
  BY <1>1 DEF WorkOK
<1> HIDE DEF Registered
<1>6. CASE WriteLock(w) \/ Upsert(w) \/ ProcessOther(w)
  <2>1. todo[w] # {} /\ UNCHANGED <<pending, dead, wiped>>
    BY <1>5, <1>6 DEF WriteLock, Upsert, ProcessOther, AtOther
  <2>2. UNCHANGED delivered \/ delivered' = delivered \cup {Current(w)}
    BY <1>6 DEF WriteLock, Upsert, ProcessOther
  <2> QED BY <1>3, <1>4, <2>1, <2>2 DEF Delivery!Deliver
<1>7. CASE IncrementRetry(w)
  <2>1. todo[w] # {} /\ UNCHANGED <<dead, delivered, wiped>>
    BY <1>5, <1>7 DEF IncrementRetry
  <2>2. UNCHANGED pending \/ pending' = pending \cup {Current(w)}
    BY <1>7 DEF IncrementRetry
  <2> QED BY <1>3, <1>4, <2>1, <2>2 DEF Delivery!Requeue
<1>8. CASE WriteDlq(w)
  <2>1. todo[w] # {} /\ UNCHANGED <<pending, delivered, wiped>>
    BY <1>5, <1>8 DEF WriteDlq
  <2>2. UNCHANGED dead \/ dead' = dead \cup {Current(w)}
    BY <1>8 DEF WriteDlq
  <2> QED BY <1>3, <1>4, <2>1, <2>2 DEF Delivery!Bury
<1>9. CASE RemoveEvent(w) \/ RemoveDead(w)
  <2>1. todo[w] # {} /\ UNCHANGED <<dead, delivered, wiped>>
    BY <1>5, <1>9 DEF RemoveEvent, RemoveDead
  <2>2. UNCHANGED pending \/ pending' = pending \ {Current(w)}
    BY <1>9 DEF RemoveEvent, RemoveDead, RemoveFile, MayFailToRemove
  <2>3. Current(w) \in delivered \cup dead \cup wiped
    BY <1>9 DEF RemoveEvent, RemoveDead, RemovalJustified
  <2> QED BY <1>3, <1>4, <2>1, <2>2, <2>3 DEF Delivery!Settle
<1>10. CASE Scan(w) \/ ReadLock(w) \/ WriteLockFails(w) \/ EndAcquire(w) \/ Crash(w)
  BY <1>3, <1>10 DEF Scan, ListPending, ReadLock, WriteLockFails, EndAcquire, Crash
<1>11. CASE Embed(w) \/ EmbedFails(w) \/ UpsertFails(w) \/ FailBatch(w) \/ EndBatch(w)
  BY <1>3, <1>11 DEF Embed, EmbedFails, UpsertFails, FailBatch, EndBatch
<1>12. CASE GiveUp(w) \/ ProcessOtherFails(w) \/ EndCycle(w) \/ RemoveLock(w)
  BY <1>3, <1>12 DEF GiveUp, ProcessOtherFails, EndCycle, RemoveLock
<1> QED BY <1>6, <1>7, <1>8, <1>9, <1>10, <1>11, <1>12
       DEF WorkerStep, ClaimStep, BatchStep, OtherStep, ResultStep

\* A request's step as a step of EventDelivery.
LEMMA AuthorDelivers ==
  ASSUME TypeOK, NEW e \in Event, AuthorStep(e)
  PROVE  /\ pending' \subseteq pending \cup (Registered' \ Registered)
         /\ UNCHANGED <<todo, batch, others>>
         /\ \/ UNCHANGED <<Registered, pending, dead, delivered, wiped>>
            \/ Delivery!Register(e)
            \/ \E S \in SUBSET Event : Delivery!Wipe(S)
<1> USE DEF authorVars, fileVars, histVars, workVars
<1>1. author \in [Event -> {"new", "written", "registered", "failed", "deleted"}]
  BY DEF TypeOK
<1>2. CASE WriteNode(e) \/ RegisterFails(e)
  <2>1. Registered' = Registered
    BY <1>1, <1>2 DEF WriteNode, RegisterFails, ReadyToRegister, Registered
  <2> QED BY <1>2, <2>1 DEF WriteNode, RegisterFails
<1>3. CASE RegisterEvent(e)
  <2>1. Registered' = Registered \cup {e} /\ e \notin Registered
    BY <1>1, <1>3 DEF RegisterEvent, ReadyToRegister, Registered
  <2>2. pending' = pending \cup {e} /\ UNCHANGED <<dead, delivered, wiped, todo, batch, others>>
    BY <1>3 DEF RegisterEvent
  <2> HIDE DEF Registered
  <2> QED BY <2>1, <2>2 DEF Delivery!Register
<1>4. CASE DeleteNode(e)
  <2> DEFINE gone == {f \in Event : Uri[f] = Uri[e]}
  <2>1. Registered' = Registered
    BY <1>1, <1>4 DEF DeleteNode, Registered
  <2>2. /\ pending' = pending \ gone
        /\ dead' = dead \ gone
        /\ wiped' = wiped \cup (gone \cap (pending \cup dead))
        /\ UNCHANGED <<delivered, todo, batch, others>>
    BY <1>4 DEF DeleteNode
  <2>3. gone \in SUBSET Event
    OBVIOUS
  <2> HIDE DEF gone, Registered
  <2>4. Delivery!Wipe(gone)
    BY <2>1, <2>2 DEF Delivery!Wipe
  <2> QED BY <2>1, <2>2, <2>3, <2>4
<1> QED BY <1>2, <1>3, <1>4 DEF AuthorStep

LEMMA QuietStep ==
  ASSUME (\E e \in Event : TimeStep(e)) \/ UNCHANGED vars
  PROVE  UNCHANGED <<author, pending, dead, delivered, wiped, todo, batch, others>>
  BY DEF TimeStep, ExpireLock, ElapseBackoff, vars, authorVars, fileVars, histVars, workVars

LEMMA TraceableNext ==
  ASSUME TypeOK, RemovalJustified, Traceable, [Next]_vars
  PROVE  Traceable'
<1>1. Registered \subseteq Registered'
  BY FilesGo
<1>2. pending \subseteq Registered /\ \A w \in Worker : Held(w) \subseteq Registered
  BY DEF Traceable
<1> HIDE DEF Registered
<1>3. CASE \E e \in Event : AuthorStep(e)
  <2>1. pending' \subseteq Registered'
    BY <1>1, <1>2, <1>3, AuthorDelivers
  <2>2. UNCHANGED <<todo, batch, others>>
    BY <1>3, AuthorDelivers
  <2>3. \A w \in Worker : Held(w)' \subseteq Registered'
    BY <1>1, <1>2, <2>2 DEF Held
  <2> QED BY <2>1, <2>3 DEF Traceable
<1>4. CASE \E w \in Worker : WorkerStep(w) \/ Crash(w)
  <2>1. pending' \subseteq Registered'
    BY <1>1, <1>2, <1>4, WorkerDelivers
  <2>2. \A w \in Worker : Held(w)' \subseteq Registered'
    BY <1>1, <1>2, <1>4, HeldFromFiles
  <2> QED BY <2>1, <2>2 DEF Traceable
<1>5. CASE (\E e \in Event : TimeStep(e)) \/ UNCHANGED vars
  <2>1. UNCHANGED <<pending, todo, batch, others>>
    BY <1>5, QuietStep
  <2> QED BY <1>1, <1>2, <2>1 DEF Traceable, Held
<1> QED BY <1>3, <1>4, <1>5 DEF Next

\* Events reach the outbox by registration only: every event file, and every
\* event a worker has in its lists, goes back to a request that registered it.
THEOREM FilesTraceable == Spec => []Traceable
<1>1. Init => Traceable
  BY DEF Init, Traceable, Held
<1>2. TypeOK /\ RemovalJustified /\ Traceable /\ [Next]_vars => Traceable'
  BY TraceableNext
<1> QED BY <1>1, <1>2, TypeCorrect, RemovalsJustified, PTL DEF Spec

\* The outbox implements EventDelivery: workers that race, retry, die and see
\* their storage calls fail only ever register, deliver, requeue, bury, settle
\* or wipe events as that specification allows.
THEOREM Implements == Spec => DeliverySpec
<1>1. Init => Delivery!Init
  BY DEF Init, Delivery!Init, Registered
<1>2. ASSUME TypeOK, RemovalJustified, Traceable, [Next]_vars
      PROVE  [Delivery!Next]_Delivery!vars
  <2>1. CASE \E e \in Event : AuthorStep(e)
    BY <1>2, <2>1, AuthorDelivers DEF Delivery!Next, Delivery!vars
  <2>2. CASE \E w \in Worker : WorkerStep(w) \/ Crash(w)
    BY <1>2, <2>2, WorkerDelivers DEF Delivery!Next, Delivery!vars
  <2>3. CASE (\E e \in Event : TimeStep(e)) \/ UNCHANGED vars
    <3>1. UNCHANGED <<author, pending, dead, delivered, wiped>>
      BY <2>3, QuietStep
    <3> QED BY <3>1 DEF Delivery!vars, Registered
  <2> QED BY <1>2, <2>1, <2>2, <2>3 DEF Next
<1> QED BY <1>1, <1>2, TypeCorrect, RemovalsJustified, FilesTraceable, PTL
       DEF Spec, DeliverySpec, Delivery!Spec

\* A node that goes takes its events along, which are then among the wiped.
LEMMA WipeKeeps ==
  ASSUME Delivery!NothingLost, NEW S, Delivery!Wipe(S)
  PROVE  Delivery!NothingLost'
<1>1. Registered \subseteq pending \cup dead \cup delivered \cup wiped
  BY DEF Delivery!NothingLost
<1>2. pending \cup dead \subseteq pending' \cup dead' \cup wiped'
  BY DEF Delivery!Wipe
<1>3. UNCHANGED <<Registered, delivered>> /\ wiped \subseteq wiped'
  BY DEF Delivery!Wipe
<1> QED BY <1>1, <1>2, <1>3 DEF Delivery!NothingLost

\* At-least-once delivery as EventDelivery allows it loses no event: what was
\* registered waits, was delivered, is a dead letter or went with its node.
THEOREM DeliveryKeeps == DeliverySpec => []Delivery!NothingLost
<1>1. Delivery!Init => Delivery!NothingLost
  BY DEF Delivery!Init, Delivery!NothingLost
<1>2. ASSUME Delivery!NothingLost, [Delivery!Next]_Delivery!vars
      PROVE  Delivery!NothingLost'
  <2>1. ASSUME NEW e \in Event, \/ Delivery!Register(e) \/ Delivery!Deliver(e)
                                \/ Delivery!Requeue(e) \/ Delivery!Bury(e)
        PROVE  Delivery!NothingLost'
    BY <1>2, <2>1 DEF Delivery!NothingLost, Delivery!Register, Delivery!Deliver,
                      Delivery!Requeue, Delivery!Bury
  <2>2. ASSUME NEW e \in Event, Delivery!Settle(e)
        PROVE  Delivery!NothingLost'
    BY <1>2, <2>2 DEF Delivery!NothingLost, Delivery!Settle
  <2>3. CASE \E S \in SUBSET Event : Delivery!Wipe(S)
    BY <1>2, <2>3, WipeKeeps
  <2>4. CASE UNCHANGED Delivery!vars
    BY <1>2, <2>4 DEF Delivery!NothingLost, Delivery!vars
  <2> QED BY <1>2, <2>1, <2>2, <2>3, <2>4 DEF Delivery!Next
<1> QED BY <1>1, <1>2, PTL DEF DeliverySpec, Delivery!Spec

-----------------------------------------------------------------------------
(* Dead letters have used up their attempts *)

\* The case the property is about: storage calls succeed and no node is deleted.
Calm == ~StorageFaults /\ \A e \in Event : author[e] # "deleted"

\* Events of the second phase, which process_event gives up on first.
Late == {e \in Event : Kind[e] \in {"DELETE", "OTHER"}}
Reachable == {e \in Event : CanWrite(e)}

\* Every event a worker has can be written back, its retry_count in memory is
\* covered by failures, and those of the batch are writes, those after it not.
Sorted(w) ==
  /\ Held(w) \subseteq Reachable
  /\ batch[w] \cap Late = {} /\ others[w] \subseteq Late
  /\ loop[w] \in {"upsert", "rebatch"} => todo[w] \subseteq batch[w]
  /\ loop[w] = "other" => todo[w] \subseteq Late
  /\ step[w] # "refail"
  /\ \A e \in Event : snap[w][e] <= fails[e]

\* An event handled as failed has failed once more than is noted in memory, or
\* was given up; after a failed call of the embedder the whole batch has.
Attempted(w) ==
  /\ step[w] = "fail" => \/ snap[w][Current(w)] < fails[Current(w)]
                         \/ Current(w) \in Late /\ snap[w][Current(w)] >= MaxRetry
  /\ loop[w] = "rebatch" =>
        \A e \in todo[w] : snap[w][e] < fails[e] \/ (e = Current(w) /\ step[w] # "next")

Exhausted(e) == fails[e] >= IF e \in Late THEN MaxRetry ELSE MaxRetry + 1

AttemptsInv ==
  Calm => /\ pending \subseteq Reachable
          /\ \A e \in Event : retry[e] <= fails[e]
          /\ \A w \in Worker : Sorted(w) /\ Attempted(w)
          /\ \A e \in dead : Exhausted(e)

LEMMA CalmBefore ==
  ASSUME TypeOK, [Next]_vars, Calm'
  PROVE  Calm
<1> USE DEF authorVars, fileVars, histVars, workVars
<1>1. author \in [Event -> {"new", "written", "registered", "failed", "deleted"}]
  BY DEF TypeOK
<1>2. ASSUME NEW e \in Event, AuthorStep(e) PROVE Calm
  BY <1>1, <1>2 DEF AuthorStep, WriteNode, RegisterEvent, RegisterFails, DeleteNode,
                    ReadyToRegister, Calm
<1>3. CASE UNCHANGED author
  BY <1>3 DEF Calm
<1>4. ASSUME NEW w \in Worker, WorkerStep(w) PROVE UNCHANGED author
  <2>1. CASE Scan(w) \/ ClaimStep(w)
    BY <2>1 DEF Scan, ListPending, ClaimStep, ReadLock, WriteLock, WriteLockFails, EndAcquire
  <2>2. CASE BatchStep(w)
    BY <2>2 DEF BatchStep, Embed, EmbedFails, Upsert, UpsertFails, FailBatch, EndBatch
  <2>3. CASE OtherStep(w)
    BY <2>3 DEF OtherStep, GiveUp, ProcessOther, ProcessOtherFails, EndCycle
  <2>4. CASE ResultStep(w)
    BY <2>4 DEF ResultStep, RemoveEvent, RemoveLock, IncrementRetry, WriteDlq, RemoveDead
  <2> QED BY <1>4, <2>1, <2>2, <2>3, <2>4 DEF WorkerStep
<1>5. CASE (\E e \in Event : TimeStep(e)) \/ (\E w \in Worker : Crash(w)) \/ UNCHANGED vars
  BY <1>3, <1>5 DEF TimeStep, ExpireLock, ElapseBackoff, Crash, vars
<1> QED BY <1>2, <1>3, <1>4, <1>5 DEF Next

\* A failed attempt is counted, up to a bound that no retry_count reaches.
LEMMA BumpCounts ==
  ASSUME StoreOK, MaxRetry < MaxFails, NEW S
  PROVE  /\ \A e \in Event : fails[e] <= Bump(fails, S)[e]
         /\ \A e \in Event : Bump(fails, S)[e] \in Nat
         /\ \A e \in Event \cap S : \A n \in 0..MaxRetry :
               n <= fails[e] => n < Bump(fails, S)[e]
  BY BoundAssumption DEF StoreOK, Bump

\* What a worker does leaves the lists and the memory of the others alone.
LEMMA OthersStill ==
  ASSUME WorkOK, NEW w \in Worker, WorkerStep(w) \/ Crash(w), NEW v \in Worker, v # w
  PROVE  /\ loop'[v] = loop[v] /\ step'[v] = step[v] /\ todo'[v] = todo[v]
         /\ batch'[v] = batch[v] /\ others'[v] = others[v] /\ snap'[v] = snap[v]
<1> DEFINE Same == /\ loop'[v] = loop[v] /\ batch'[v] = batch[v]
                   /\ others'[v] = others[v] /\ snap'[v] = snap[v]
<1>1. ASSUME NEW l, NEW s, NEW t, Go(w, l, s, t) PROVE loop'[v] = loop[v]
  BY <1>1 DEF Go, WorkOK
<1>2. ASSUME Leave(w) \/ Advance(w) \/ StartOthers(w) PROVE Same
  BY <1>1, <1>2 DEF Leave, Advance, StartOthers, WorkOK
<1>3. ASSUME NEW s, Stay(w, s), UNCHANGED snap \/ \E m : snap' = [snap EXCEPT ![w] = m]
      PROVE  Same
  BY <1>1, <1>3 DEF Stay, WorkOK
<1>4. ASSUME NEW l, NEW s, NEW t, Go(w, l, s, t), UNCHANGED <<batch, others, snap>> PROVE Same
  BY <1>1, <1>4
<1>5. ASSUME NEW s, Raise(w, s) PROVE Same
  <2>1. CASE loop[w] = "upsert"
    BY <1>1, <1>5, <2>1 DEF Raise, WorkOK
  <2>2. CASE loop[w] = "other" /\ step[w] = "fail"
    BY <1>3, <1>5, <2>2 DEF Raise
  <2>3. CASE loop[w] # "upsert" /\ ~(loop[w] = "other" /\ step[w] = "fail")
    BY <1>2, <1>5, <2>3 DEF Raise
  <2> QED BY <2>1, <2>2, <2>3
<1>6. Same
  <2>1. CASE Scan(w)
    BY <1>1, <2>1 DEF Scan, ListPending, WorkOK
  <2>2. CASE ReadLock(w) \/ WriteLockFails(w) \/ EndAcquire(w)
    BY <1>2, <1>3, <1>4, <2>2 DEF ReadLock, WriteLockFails, EndAcquire
  <2>3. CASE WriteLock(w)
    <3>1. CASE Stay(w, "done") \/ Stay(w, "fail")
      BY <1>3, <2>3, <3>1 DEF WriteLock
    <3>2. CASE /\ \E t : Go(w, "acquire", "next", t)
               /\ (\E b : batch' = [batch EXCEPT ![w] = b]) \/ UNCHANGED batch
               /\ (\E o : others' = [others EXCEPT ![w] = o]) \/ UNCHANGED others
      <4>1. UNCHANGED snap
        BY <2>3 DEF WriteLock
      <4> QED BY <1>1, <3>2, <4>1 DEF WorkOK
    <3> QED BY <2>3, <3>1, <3>2 DEF WriteLock
  <2>4. CASE BatchStep(w)
    BY <1>2, <1>3, <1>4, <2>4 DEF BatchStep, Embed, EmbedFails, Upsert, UpsertFails, FailBatch,
                                 EndBatch
  <2>5. CASE OtherStep(w)
    BY <1>2, <1>3, <2>5 DEF OtherStep, GiveUp, ProcessOther, ProcessOtherFails, EndCycle
  <2>6. CASE ResultStep(w)
    BY <1>2, <1>3, <1>5, <2>6 DEF ResultStep, RemoveEvent, RemoveLock, IncrementRetry, WriteDlq,
                                 RemoveDead
  <2>7. CASE Crash(w)
    BY <1>2, <2>7 DEF Crash
  <2> QED BY <2>1, <2>2, <2>3, <2>4, <2>5, <2>6, <2>7 DEF WorkerStep, ClaimStep
<1> QED BY <1>6, OneWorkerMoves

\* A worker that does not move keeps its books while failures are counted.
LEMMA TriedStays ==
  ASSUME WorkOK, StoreOK, NEW v \in Worker, Sorted(v), Attempted(v),
         loop'[v] = loop[v], step'[v] = step[v], todo'[v] = todo[v],
         batch'[v] = batch[v], others'[v] = others[v], snap'[v] = snap[v],
         Reachable \subseteq Reachable', step[v] # "next" => Current(v) \in Event,
         \A e \in Event : fails[e] <= fails'[e] /\ fails'[e] \in Nat
  PROVE  Sorted(v)' /\ Attempted(v)'
<1>1. \A e \in Event : snap[v][e] \in Nat /\ fails[e] \in Nat
  BY BoundAssumption DEF WorkOK, StoreOK, Counts
<1>2. Current(v)' = Current(v) /\ Held(v)' = Held(v) /\ todo[v] \subseteq Event
  BY DEF Current, Held, WorkOK
<1>3. Sorted(v)'
  <2>1. \A e \in Event : snap'[v][e] <= fails'[e]
    BY <1>1 DEF Sorted
  <2>2. Late' = Late
    BY DEF Late
  <2> QED BY <1>2, <2>1, <2>2 DEF Sorted
<1>4. Attempted(v)'
  <2>1. step'[v] = "fail" => \/ snap'[v][Current(v)] < fails'[Current(v)]
                             \/ Current(v) \in Late /\ snap'[v][Current(v)] >= MaxRetry
    BY <1>1 DEF Attempted
  <2>2. loop'[v] = "rebatch" => \A e \in todo[v] :
           snap'[v][e] < fails'[e] \/ (e = Current(v) /\ step'[v] # "next")
    BY <1>1, <1>2 DEF Attempted
  <2> QED BY <1>2, <2>1, <2>2 DEF Attempted, Late
<1> QED BY <1>3, <1>4

\* The moves of the worker itself.
LEMMA LeaveTried ==
  ASSUME WorkOK, StoreOK, NEW w \in Worker, Leave(w), UNCHANGED fails
  PROVE  Sorted(w)' /\ Attempted(w)'
<1>1. /\ loop'[w] = "idle" /\ step'[w] = "next" /\ todo'[w] = {} /\ batch'[w] = {}
      /\ others'[w] = {} /\ \A e \in Event : snap'[w][e] = 0
  BY DEF Leave, Go, WorkOK
<1>2. \A e \in Event : 0 <= fails'[e]
  BY BoundAssumption DEF StoreOK
<1> QED BY <1>1, <1>2 DEF Sorted, Attempted, Held

LEMMA StayTried ==
  ASSUME WorkOK, NEW w \in Worker, NEW s \in Steps \ {"next", "refail"}, Stay(w, s), Sorted(w),
         Reachable' = Reachable, \A e \in Event : snap'[w][e] <= fails'[e],
         s = "fail" => \/ snap'[w][Current(w)] < fails'[Current(w)]
                       \/ Current(w) \in Late /\ snap'[w][Current(w)] >= MaxRetry,
         loop[w] = "rebatch" => \A e \in todo[w] \ {Current(w)} : snap'[w][e] < fails'[e]
  PROVE  Sorted(w)' /\ Attempted(w)'
<1>1. /\ loop'[w] = loop[w] /\ step'[w] = s /\ todo'[w] = todo[w] /\ batch'[w] = batch[w]
      /\ others'[w] = others[w]
  BY DEF Stay, Go, WorkOK
<1>2. Current(w)' = Current(w) /\ Held(w)' = Held(w) /\ Late' = Late
  BY <1>1 DEF Current, Held, Late
<1> QED BY <1>1, <1>2 DEF Sorted, Attempted

LEMMA AdvanceTried ==
  ASSUME WorkOK, StoreOK, NEW w \in Worker, Advance(w), Sorted(w), Reachable' = Reachable,
         UNCHANGED fails, \A e \in todo[w] \ {Current(w)} :
                             loop[w] = "rebatch" => snap[w][e] < fails[e]
  PROVE  Sorted(w)' /\ Attempted(w)'
<1> DEFINE rest == todo[w] \ {Current(w)}
<1>1. /\ loop'[w] = loop[w] /\ step'[w] = "next" /\ todo'[w] = rest /\ batch'[w] = batch[w]
      /\ others'[w] = others[w]
      /\ snap'[w] = Keep(w, batch[w] \cup others[w] \cup rest)
  BY DEF Advance, Go, WorkOK
<1>2. rest \subseteq todo[w] /\ rest \subseteq Event
  BY DEF WorkOK
<1>3. \A e \in Event : /\ snap'[w][e] \in {snap[w][e], 0}
                       /\ e \in rest => snap'[w][e] = snap[w][e]
  BY <1>1 DEF Keep
<1>4. \A e \in Event : snap'[w][e] <= fails'[e]
  <2>1. \A e \in Event : 0 <= fails[e]
    BY BoundAssumption DEF StoreOK
  <2> QED BY <1>3, <2>1 DEF Sorted
<1>5. Held(w)' \subseteq Held(w) /\ Late' = Late
  BY <1>1, <1>2 DEF Held, Late
<1>6. Sorted(w)'
  <2> HIDE DEF rest
  <2> QED BY <1>1, <1>2, <1>4, <1>5 DEF Sorted
<1>7. loop[w] = "rebatch" => \A e \in rest : snap'[w][e] < fails'[e]
  BY <1>2, <1>3
<1>8. Attempted(w)'
  <2> HIDE DEF rest
  <2> QED BY <1>1, <1>7 DEF Attempted
<1> QED BY <1>6, <1>8

LEMMA StartTried ==
  ASSUME WorkOK, StoreOK, NEW w \in Worker, StartOthers(w), Sorted(w), Reachable' = Reachable,
         UNCHANGED fails
  PROVE  Sorted(w)' /\ Attempted(w)'
<1>1. /\ loop'[w] = "other" /\ step'[w] = "next" /\ todo'[w] = others[w] /\ batch'[w] = {}
      /\ others'[w] = {} /\ snap'[w] = Keep(w, others[w])
  BY DEF StartOthers, Go, WorkOK
<1>2. \A e \in Event : snap'[w][e] \in {snap[w][e], 0}
  BY <1>1 DEF Keep
<1>3. \A e \in Event : snap'[w][e] <= fails'[e]
  <2>1. \A e \in Event : 0 <= fails[e]
    BY BoundAssumption DEF StoreOK
  <2> QED BY <1>2, <2>1 DEF Sorted
<1>4. Held(w)' \subseteq Held(w) /\ Late' = Late
  BY <1>1 DEF Held, Late
<1> QED BY <1>1, <1>3, <1>4 DEF Sorted, Attempted

LEMMA BatchTried ==
  ASSUME WorkOK, NEW w \in Worker, NEW l \in {"embed", "upsert", "rebatch"},
         Go(w, l, "next", batch[w]), UNCHANGED <<batch, others, snap>>, Sorted(w),
         Reachable' = Reachable, \A e \in Event : snap[w][e] <= fails'[e],
         l = "rebatch" => \A e \in batch[w] : snap[w][e] < fails'[e]
  PROVE  Sorted(w)' /\ Attempted(w)'
<1>1. loop'[w] = l /\ step'[w] = "next" /\ todo'[w] = batch[w]
  BY DEF Go, WorkOK
<1>2. Held(w)' \subseteq Held(w) /\ Late' = Late
  BY <1>1 DEF Held, Late
<1> QED BY <1>1, <1>2 DEF Sorted, Attempted

\* Only what has failed often enough is buried.
Counted == pending \subseteq Reachable /\ \A e \in Event : retry[e] <= fails[e]

LEMMA ClaimTried ==
  ASSUME TypeOK, MaxRetry < MaxFails, ~StorageFaults, Counted, NEW w \in Worker, Sorted(w),
         Attempted(w), Scan(w) \/ ClaimStep(w)
  PROVE  Sorted(w)' /\ Attempted(w)' /\ Counted' /\ dead' = dead
<1> USE DEF authorVars, fileVars, histVars
<1>1. WorkOK /\ StoreOK
  BY TypeHalves
<1>2. UNCHANGED <<fileVars, dead>>
  BY DEF Scan, ListPending, ClaimStep, ReadLock, WriteLock, WriteLockFails, EndAcquire
<1>3. Reachable' = Reachable
  BY <1>2 DEF Reachable, CanWrite
<1>4. \A e \in Event : /\ snap[w][e] \in 0..MaxRetry /\ snap[w][e] <= fails[e]
                       /\ fails[e] \in Nat /\ retry[e] \in 0..MaxRetry
  BY <1>1, BoundAssumption DEF WorkOK, StoreOK, Counts, Sorted
<1>5. ASSUME UNCHANGED fails PROVE Counted'
  BY <1>2, <1>3, <1>5 DEF Counted
<1>6. CASE Scan(w)
  <2>1. PICK S \in SUBSET Event : ListPending(w, S)
    BY <1>6 DEF Scan
  <2>2. S \subseteq Reachable
    BY <2>1 DEF ListPending, Listable, Counted
  <2>3. /\ loop'[w] = "acquire" /\ step'[w] = "next" /\ todo'[w] = S /\ UNCHANGED fails
        /\ batch'[w] = batch[w] /\ others'[w] = others[w]
        /\ snap'[w] = [e \in Event |-> IF e \in S THEN retry[e] ELSE 0]
    BY <1>1, <2>1 DEF ListPending, Go, WorkOK
  <2>4. \A e \in Event : snap'[w][e] <= fails'[e]
    BY <1>4, <2>3 DEF Counted
  <2>5. Held(w)' \subseteq Held(w) \cup S /\ Late' = Late
    BY <2>3 DEF Held, Late
  <2>6. Sorted(w)'
    BY <1>3, <2>2, <2>3, <2>4, <2>5 DEF Sorted
  <2> QED BY <1>2, <1>5, <2>3, <2>6 DEF Attempted
<1>7. CASE ReadLock(w)
  <2>1. loop[w] = "acquire" /\ UNCHANGED fails
    BY <1>7 DEF ReadLock
  <2>2. CASE Advance(w)
    BY <1>1, <1>2, <1>3, <1>5, <2>1, <2>2, AdvanceTried
  <2>3. CASE Stay(w, "lock") /\ UNCHANGED snap
    <3>1. \A e \in Event : snap'[w][e] <= fails'[e]
      BY <1>4, <2>1, <2>3
    <3> QED BY <1>1, <1>2, <1>3, <1>5, <2>1, <2>3, <3>1, StayTried DEF Steps
  <2> QED BY <1>7, <2>2, <2>3 DEF ReadLock
<1>8. CASE WriteLock(w)
  <2> DEFINE e == Current(w)
  <2>1. /\ e \in todo[w] /\ e \in Event /\ loop[w] = "acquire" /\ UNCHANGED snap
        /\ step[w] = "lock"
    BY <1>1, <1>8, CurrentIn DEF WriteLock, WorkOK
  <2>2. CASE Kind[e] = "UPSERT"
    <3>1. /\ Go(w, "acquire", "next", todo[w] \ {e}) /\ UNCHANGED <<others, fails>>
          /\ batch' = [batch EXCEPT ![w] = @ \cup {e}]
      BY <1>8, <2>2 DEF WriteLock
    <3>2. /\ loop'[w] = "acquire" /\ step'[w] = "next" /\ todo'[w] = todo[w] \ {e}
          /\ batch'[w] = batch[w] \cup {e} /\ others'[w] = others[w]
      BY <1>1, <3>1 DEF Go, WorkOK
    <3> HIDE DEF e
    <3>3. Held(w)' \subseteq Held(w) /\ Late' = Late /\ e \notin Late
      BY <2>1, <2>2, <3>2 DEF Held, Late
    <3> QED BY <1>2, <1>3, <1>4, <1>5, <2>1, <3>1, <3>2, <3>3 DEF Sorted, Attempted
  <2>3. CASE Kind[e] = "EMPTY"
    <3>1. Stay(w, "done") /\ UNCHANGED fails
      BY <1>8, <2>3 DEF WriteLock
    <3>2. \A f \in Event : snap'[w][f] <= fails'[f]
      BY <1>4, <2>1, <3>1
    <3> QED BY <1>1, <1>2, <1>3, <1>5, <2>1, <3>1, <3>2, StayTried DEF Steps
  <2>4. CASE Kind[e] = "MALFORMED"
    <3>1. Stay(w, "fail") /\ fails' = Bump(fails, {e})
      BY <1>8, <2>4 DEF WriteLock
    <3> HIDE DEF e
    <3>2. /\ \A f \in Event : fails[f] <= fails'[f] /\ fails'[f] \in Nat
          /\ snap[w][e] < fails'[e]
      BY <1>1, <1>4, <2>1, <3>1, BumpCounts
    <3>3. \A f \in Event : snap'[w][f] <= fails'[f]
      BY <1>4, <2>1, <3>2
    <3>4. Counted'
      BY <1>2, <1>3, <1>4, <3>2 DEF Counted
    <3>5. "fail" \in Steps \ {"next", "refail"} /\ loop[w] # "rebatch"
      BY <2>1 DEF Steps
    <3>6. snap'[w][Current(w)] < fails'[Current(w)]
      BY <2>1, <3>2 DEF e
    <3> QED BY <1>1, <1>2, <1>3, <3>1, <3>3, <3>4, <3>5, <3>6, StayTried
  <2>5. CASE Kind[e] \notin {"UPSERT", "EMPTY", "MALFORMED"}
    <3>1. /\ Go(w, "acquire", "next", todo[w] \ {e}) /\ UNCHANGED <<batch, fails>>
          /\ others' = [others EXCEPT ![w] = @ \cup {e}]
      BY <1>8, <2>5 DEF WriteLock
    <3>2. /\ loop'[w] = "acquire" /\ step'[w] = "next" /\ todo'[w] = todo[w] \ {e}
          /\ others'[w] = others[w] \cup {e} /\ batch'[w] = batch[w]
      BY <1>1, <3>1 DEF Go, WorkOK
    <3> HIDE DEF e
    <3>3. Held(w)' \subseteq Held(w) /\ Late' = Late /\ e \in Late
      BY <2>1, <2>5, <3>2, KindAssumption DEF Held, Late, Kinds
    <3> QED BY <1>2, <1>3, <1>4, <1>5, <2>1, <3>1, <3>2, <3>3 DEF Sorted, Attempted
  <2> QED BY <2>2, <2>3, <2>4, <2>5
<1>9. CASE WriteLockFails(w)
  <2>1. todo[w] # {} /\ CannotWrite(Current(w)) /\ Current(w) \in todo[w]
    BY <1>1, <1>9, CurrentIn DEF WriteLockFails, WorkOK
  <2> QED BY <2>1 DEF Sorted, Held, Reachable, CanWrite, CannotWrite
<1>10. CASE EndAcquire(w)
  <2>1. UNCHANGED fails
    BY <1>10 DEF EndAcquire
  <2>2. CASE StartOthers(w)
    BY <1>1, <1>2, <1>3, <1>5, <2>1, <2>2, StartTried
  <2>3. CASE Go(w, "embed", "next", batch[w]) /\ UNCHANGED <<batch, others, snap>>
    BY <1>1, <1>2, <1>3, <1>4, <1>5, <2>1, <2>3, BatchTried
  <2> QED BY <1>10, <2>2, <2>3 DEF EndAcquire
<1> QED BY <1>6, <1>7, <1>8, <1>9, <1>10 DEF ClaimStep

LEMMA HandleTried ==
  ASSUME TypeOK, MaxRetry < MaxFails, ~StorageFaults, Counted, NEW w \in Worker, Sorted(w),
         Attempted(w), BatchStep(w) \/ OtherStep(w) \/ Crash(w)
  PROVE  Sorted(w)' /\ Attempted(w)' /\ Counted' /\ dead' = dead
<1> USE DEF authorVars, fileVars, histVars
<1>1. WorkOK /\ StoreOK
  BY TypeHalves
<1>2. UNCHANGED <<fileVars, dead>>
  BY DEF BatchStep, Embed, EmbedFails, Upsert, UpsertFails, FailBatch, EndBatch, OtherStep,
         GiveUp, ProcessOther, ProcessOtherFails, EndCycle, Crash
<1>3. Reachable' = Reachable
  BY <1>2 DEF Reachable, CanWrite
<1>4. /\ \A e \in Event : /\ snap[w][e] \in 0..MaxRetry /\ snap[w][e] <= fails[e]
                          /\ fails[e] \in Nat /\ retry[e] \in 0..MaxRetry
      /\ batch[w] \subseteq Event
  BY <1>1, BoundAssumption DEF WorkOK, StoreOK, Counts, Sorted
<1>5. ASSUME UNCHANGED fails PROVE Counted'
  BY <1>2, <1>3, <1>5 DEF Counted
<1>6. ASSUME NEW S, fails' = Bump(fails, S)
      PROVE  /\ Counted' /\ \A e \in Event : snap[w][e] <= fails'[e]
             /\ \A e \in Event \cap S : snap[w][e] < fails'[e]
  <2>1. /\ \A e \in Event : fails[e] <= fails'[e] /\ fails'[e] \in Nat
        /\ \A e \in Event \cap S : \A n \in 0..MaxRetry : n <= fails[e] => n < fails'[e]
    BY <1>1, <1>6, BumpCounts
  <2>2. Counted'
    BY <1>2, <1>3, <1>4, <2>1 DEF Counted
  <2> QED BY <1>4, <2>1, <2>2
<1>7. todo[w] # {} => Current(w) \in Event /\ Current(w) \in todo[w]
  BY CurrentIn
<1>8. CASE Embed(w)
  <2>1. UNCHANGED <<fails, batch, others, snap>> /\ Go(w, "upsert", "next", batch[w])
    BY <1>8 DEF Embed
  <2> QED BY <1>1, <1>2, <1>3, <1>4, <1>5, <2>1, BatchTried
<1>9. CASE EmbedFails(w)
  <2>1. /\ fails' = Bump(fails, batch[w]) /\ UNCHANGED <<batch, others, snap>>
        /\ Go(w, "rebatch", "next", batch[w])
    BY <1>9 DEF EmbedFails
  <2>2. \A e \in batch[w] : snap[w][e] < fails'[e]
    BY <1>4, <1>6, <2>1
  <2> QED BY <1>1, <1>2, <1>3, <1>6, <2>1, <2>2, BatchTried
<1>10. CASE Upsert(w)
  <2>1. Stay(w, "done") /\ UNCHANGED <<fails, snap>> /\ loop[w] = "upsert"
    BY <1>10 DEF Upsert
  <2> QED BY <1>1, <1>2, <1>3, <1>4, <1>5, <2>1, StayTried DEF Steps
<1>11. CASE UpsertFails(w) \/ ProcessOtherFails(w)
  <2>1. /\ Stay(w, "fail") /\ fails' = Bump(fails, {Current(w)}) /\ UNCHANGED snap
        /\ loop[w] # "rebatch" /\ todo[w] # {}
    BY <1>11 DEF UpsertFails, ProcessOtherFails, AtOther
  <2>2. /\ \A e \in Event : snap'[w][e] <= fails'[e]
        /\ snap'[w][Current(w)] < fails'[Current(w)] /\ Counted'
    BY <1>6, <1>7, <2>1
  <2> QED BY <1>1, <1>2, <1>3, <2>1, <2>2, StayTried DEF Steps
<1>12. CASE FailBatch(w)
  <2>1. /\ Stay(w, "fail") /\ UNCHANGED <<fails, snap>> /\ loop[w] = "rebatch"
        /\ step[w] = "next" /\ todo[w] # {}
    BY <1>12 DEF FailBatch
  <2>2. \A e \in todo[w] : snap'[w][e] < fails'[e]
    BY <2>1 DEF Attempted
  <2> QED BY <1>1, <1>2, <1>3, <1>4, <1>5, <1>7, <2>1, <2>2, StayTried DEF Steps
<1>13. CASE EndBatch(w)
  <2>1. StartOthers(w) /\ UNCHANGED fails
    BY <1>13 DEF EndBatch
  <2> QED BY <1>1, <1>2, <1>3, <1>5, <2>1, StartTried
<1>14. CASE GiveUp(w)
  <2>1. /\ Stay(w, "fail") /\ UNCHANGED <<fails, snap>> /\ loop[w] = "other" /\ todo[w] # {}
        /\ snap[w][Current(w)] >= MaxRetry
    BY <1>14 DEF GiveUp, AtOther
  <2>2. Current(w) \in Late
    BY <1>7, <2>1 DEF Sorted
  <2> QED BY <1>1, <1>2, <1>3, <1>4, <1>5, <2>1, <2>2, StayTried DEF Steps
<1>15. CASE ProcessOther(w)
  <2>1. Stay(w, "done") /\ UNCHANGED <<fails, snap>> /\ loop[w] = "other"
    BY <1>15 DEF ProcessOther, AtOther
  <2> QED BY <1>1, <1>2, <1>3, <1>4, <1>5, <2>1, StayTried DEF Steps
<1>16. CASE EndCycle(w) \/ Crash(w)
  <2>1. Leave(w) /\ UNCHANGED fails
    BY <1>16 DEF EndCycle, Crash
  <2> QED BY <1>1, <1>2, <1>5, <2>1, LeaveTried
<1> QED BY <1>8, <1>9, <1>10, <1>11, <1>12, <1>13, <1>14, <1>15, <1>16 DEF BatchStep, OtherStep

LEMMA ResultTried ==
  ASSUME TypeOK, MaxRetry < MaxFails, ~StorageFaults, Counted, NEW w \in Worker, Sorted(w),
         Attempted(w), ResultStep(w)
  PROVE  /\ Sorted(w)' /\ Attempted(w)' /\ Counted'
         /\ \A e \in dead' \ dead : Exhausted(e)
<1> USE DEF authorVars, fileVars, histVars
<1>1. WorkOK /\ StoreOK
  BY TypeHalves
<1>2. UNCHANGED <<outboxes, fails>>
  BY DEF ResultStep, RemoveEvent, RemoveLock, IncrementRetry, WriteDlq, RemoveDead,
         RemoveFile, MayFailToRemove
<1>3. Reachable' = Reachable
  BY <1>2 DEF Reachable, CanWrite
<1>4. \A e \in Event : /\ snap[w][e] \in 0..MaxRetry /\ snap[w][e] <= fails[e]
                       /\ fails[e] \in Nat /\ retry[e] \in 0..MaxRetry
  BY <1>1, BoundAssumption DEF WorkOK, StoreOK, Counts, Sorted
<1>5. step[w] # "next" /\ todo[w] # {} /\ Current(w) \in Event /\ Current(w) \in todo[w]
  <2>1. step[w] # "next" /\ todo[w] # {}
    BY <1>1 DEF ResultStep, RemoveEvent, RemoveLock, IncrementRetry, WriteDlq, RemoveDead,
                WorkOK
  <2> QED BY <2>1, CurrentIn
<1>6. Uri[Current(w)] \in outboxes /\ ~CannotWrite(Current(w))
  BY <1>5 DEF Sorted, Held, Reachable, CanWrite, CannotWrite
<1>7. loop[w] = "rebatch" => \A e \in todo[w] \ {Current(w)} : snap[w][e] < fails[e]
  BY <1>5 DEF Attempted
<1>8. ASSUME RemoveFile(Current(w)) \/ UNCHANGED fileVars PROVE Counted'
  <2>1. pending' \subseteq pending /\ \A e \in Event : retry'[e] \in {retry[e], 0}
    BY <1>1, <1>8 DEF RemoveFile, StoreOK, Counts
  <2> QED BY <1>2, <1>3, <1>4, <2>1 DEF Counted
<1>9. CASE RemoveEvent(w)
  <2>1. Stay(w, "unlock") /\ UNCHANGED <<snap, dead>> /\ Counted'
    BY <1>8, <1>9 DEF RemoveEvent, MayFailToRemove
  <2> QED BY <1>1, <1>2, <1>3, <1>4, <1>7, <2>1, StayTried DEF Steps
<1>10. CASE RemoveLock(w) \/ RemoveDead(w)
  <2>1. Advance(w) /\ UNCHANGED dead /\ Counted'
    BY <1>8, <1>10 DEF RemoveLock, RemoveDead, MayFailToRemove
  <2> QED BY <1>1, <1>2, <1>3, <1>7, <2>1, AdvanceTried
<1>11. CASE IncrementRetry(w)
  <2> DEFINE e == Current(w)
             s == [snap[w] EXCEPT ![e] = @ + 1]
  <2>1. /\ pending' = pending \cup {e} /\ retry' = [retry EXCEPT ![e] = s[e]]
        /\ Stay(w, "unlock") /\ snap' = [snap EXCEPT ![w] = s] /\ UNCHANGED dead
        /\ snap[w][e] < MaxRetry /\ step[w] \in {"fail", "refail"}
    BY <1>6, <1>11 DEF IncrementRetry
  <2> HIDE DEF e
  <2>2. e \in Event /\ e = Current(w) /\ e \in Reachable
    BY <1>5 DEF e, Sorted, Held
  <2>3. snap[w][e] < fails[e]
    <3>1. MaxRetry \in Nat /\ snap[w][e] \in 0..MaxRetry
      BY <1>4, <2>2, BoundAssumption
    <3> QED BY <2>1, <2>2, <3>1 DEF Attempted, Sorted
  <2>4. /\ s[e] = snap[w][e] + 1 /\ \A f \in Event \ {e} : s[f] = snap[w][f]
        /\ snap'[w] = s
    BY <1>1, <2>1, <2>2 DEF WorkOK, Counts
  <2> HIDE DEF s
  <2>5. \A f \in Event : snap'[w][f] <= fails'[f]
    BY <1>2, <1>4, <2>3, <2>4
  <2>6. \A f \in todo[w] \ {e} : snap'[w][f] = snap[w][f]
    BY <1>1, <2>4 DEF WorkOK
  <2>7. retry'[e] = s[e] /\ \A f \in Event \ {e} : retry'[f] = retry[f]
    BY <1>1, <2>1, <2>2 DEF StoreOK, Counts
  <2>8. Counted'
    BY <1>2, <1>3, <1>4, <2>1, <2>2, <2>3, <2>4, <2>7 DEF Counted
  <2>9. loop[w] = "rebatch" => \A f \in todo[w] \ {Current(w)} : snap'[w][f] < fails'[f]
    BY <1>2, <1>7, <2>2, <2>6
  <2> QED BY <1>1, <1>3, <2>1, <2>5, <2>8, <2>9, StayTried DEF Steps
<1>12. CASE WriteDlq(w)
  <2>1. /\ dead' = dead \cup {Current(w)} /\ Stay(w, "bury") /\ UNCHANGED snap
        /\ snap[w][Current(w)] >= MaxRetry /\ UNCHANGED fileVars
        /\ step[w] \in {"fail", "refail"}
    BY <1>6, <1>12 DEF WriteDlq
  <2>2. Exhausted(Current(w))
    <3>1. step[w] = "fail"
      BY <2>1 DEF Sorted
    <3>2. /\ snap[w][Current(w)] = MaxRetry /\ MaxRetry \in Nat /\ fails[Current(w)] \in Nat
          /\ MaxRetry <= fails[Current(w)]
      BY <1>4, <1>5, <2>1, BoundAssumption
    <3> QED BY <3>1, <3>2 DEF Attempted, Exhausted
  <2>3. Counted'
    BY <1>8, <2>1
  <2> QED BY <1>1, <1>2, <1>3, <1>4, <1>7, <2>1, <2>2, <2>3, StayTried DEF Steps
<1> QED BY <1>9, <1>10, <1>11, <1>12 DEF ResultStep

LEMMA AttemptsNext ==
  ASSUME TypeOK, MaxRetry < MaxFails, AttemptsInv, [Next]_vars
  PROVE  AttemptsInv'
<1> SUFFICES ASSUME Calm' PROVE /\ Counted' /\ \A w \in Worker : Sorted(w)' /\ Attempted(w)'
                                /\ \A e \in dead' : Exhausted(e)'
  BY DEF AttemptsInv, Counted
<1> USE DEF authorVars, fileVars, histVars, workVars
<1>1. /\ Calm /\ ~StorageFaults /\ Counted /\ WorkOK /\ StoreOK
      /\ \A w \in Worker : Sorted(w) /\ Attempted(w)
      /\ \A e \in dead : Exhausted(e)
  BY CalmBefore, TypeHalves DEF AttemptsInv, Calm, Counted
<1>2. /\ \A e \in Event : fails[e] \in Nat
      /\ \A w \in Worker : step[w] # "next" => Current(w) \in Event
      /\ dead \subseteq Event /\ MaxRetry \in Nat
  BY <1>1, CurrentIn, BoundAssumption DEF WorkOK, StoreOK
<1>3. ASSUME UNCHANGED <<workVars, fails>>, dead' \subseteq dead, Reachable \subseteq Reachable',
             Counted'
      PROVE  /\ \A w \in Worker : Sorted(w)' /\ Attempted(w)'
             /\ \A e \in dead' : Exhausted(e)'
  <2>1. \A e \in Event : fails[e] <= fails'[e] /\ fails'[e] \in Nat
    BY <1>2, <1>3
  <2>2. \A w \in Worker : Sorted(w)' /\ Attempted(w)'
    BY <1>1, <1>2, <1>3, <2>1, TriedStays
  <2>3. \A e \in dead' : Exhausted(e)'
    BY <1>1, <1>3 DEF Exhausted, Late
  <2> QED BY <2>2, <2>3
<1>4. CASE \E e \in Event : AuthorStep(e)
  <2>1. PICK e \in Event : AuthorStep(e)
    BY <1>4
  <2>2. ~DeleteNode(e)
    BY <1>1 DEF DeleteNode, Calm, StoreOK
  <2>3. /\ UNCHANGED <<workVars, fails, dead, retry>> /\ outboxes \subseteq outboxes'
        /\ pending' \subseteq pending \cup {f \in Event : f = e /\ Uri[e] \in outboxes'}
    BY <2>1, <2>2 DEF AuthorStep, WriteNode, RegisterEvent, RegisterFails
  <2>4. Reachable \subseteq Reachable'
    BY <2>3 DEF Reachable, CanWrite
  <2>5. Counted'
    BY <1>1, <2>3, <2>4 DEF Counted, Reachable, CanWrite
  <2> QED BY <1>3, <2>3, <2>4, <2>5
<1>5. CASE (\E e \in Event : TimeStep(e)) \/ UNCHANGED vars
  <2>1. UNCHANGED <<workVars, fails, dead, retry, outboxes, pending>>
    BY <1>5 DEF TimeStep, ExpireLock, ElapseBackoff, vars
  <2>2. Reachable' = Reachable /\ Counted'
    BY <1>1, <2>1 DEF Reachable, CanWrite, Counted
  <2> QED BY <1>3, <2>1, <2>2
<1>6. CASE \E w \in Worker : WorkerStep(w) \/ Crash(w)
  <2>1. PICK w \in Worker : WorkerStep(w) \/ Crash(w)
    BY <1>6
  <2>2. /\ Sorted(w)' /\ Attempted(w)' /\ Counted' /\ \A e \in dead' \ dead : Exhausted(e)
    BY <1>1, <2>1, ClaimTried, HandleTried, ResultTried DEF WorkerStep
  <2>3. UNCHANGED outboxes
    <3>1. CASE Scan(w) \/ ClaimStep(w)
      BY <3>1 DEF Scan, ListPending, ClaimStep, ReadLock, WriteLock, WriteLockFails, EndAcquire
    <3>2. CASE BatchStep(w) \/ Crash(w)
      BY <3>2 DEF BatchStep, Embed, EmbedFails, Upsert, UpsertFails, FailBatch, EndBatch, Crash
    <3>3. CASE OtherStep(w)
      BY <3>3 DEF OtherStep, GiveUp, ProcessOther, ProcessOtherFails, EndCycle
    <3>4. CASE ResultStep(w)
      BY <3>4 DEF ResultStep, RemoveEvent, RemoveLock, IncrementRetry, WriteDlq, RemoveDead,
                  RemoveFile, MayFailToRemove
    <3> QED BY <2>1, <3>1, <3>2, <3>3, <3>4 DEF WorkerStep
  <2>4. UNCHANGED fails \/ \E S : fails' = Bump(fails, S)
    <3>1. CASE Scan(w) \/ ClaimStep(w)
      BY <3>1 DEF Scan, ListPending, ClaimStep, ReadLock, WriteLock, WriteLockFails, EndAcquire
    <3>2. CASE BatchStep(w) \/ Crash(w)
      BY <3>2 DEF BatchStep, Embed, EmbedFails, Upsert, UpsertFails, FailBatch, EndBatch, Crash
    <3>3. CASE OtherStep(w)
      BY <3>3 DEF OtherStep, GiveUp, ProcessOther, ProcessOtherFails, EndCycle
    <3>4. CASE ResultStep(w)
      BY <3>4 DEF ResultStep, RemoveEvent, RemoveLock, IncrementRetry, WriteDlq, RemoveDead
    <3> QED BY <2>1, <3>1, <3>2, <3>3, <3>4 DEF WorkerStep
  <2>5. \A e \in Event : fails[e] <= fails'[e] /\ fails'[e] \in Nat
    BY <1>1, <1>2, <2>4, BumpCounts
  <2>6. ASSUME NEW v \in Worker, v # w PROVE Sorted(v)' /\ Attempted(v)'
    <3>1. /\ loop'[v] = loop[v] /\ step'[v] = step[v] /\ todo'[v] = todo[v]
          /\ batch'[v] = batch[v] /\ others'[v] = others[v] /\ snap'[v] = snap[v]
      BY <1>1, <2>1, <2>6, OthersStill
    <3>2. Reachable \subseteq Reachable'
      BY <2>3 DEF Reachable, CanWrite
    <3> QED BY <1>1, <1>2, <2>5, <3>1, <3>2, TriedStays
  <2>7. dead' \subseteq Event
    <3>1. TypeOK'
      BY <1>1, <2>1, ClaimStepType, BatchStepType, OtherStepType, ResultStepType,
         TimeStepType DEF WorkerStep
    <3> QED BY <3>1 DEF TypeOK
  <2>8. \A e \in dead' : Exhausted(e)'
    <3>1. \A e \in dead' : Exhausted(e) /\ e \in Event
      BY <1>1, <2>2, <2>7
    <3> QED BY <1>2, <2>5, <3>1 DEF Exhausted, Late
  <2> QED BY <2>2, <2>6, <2>8
<1> QED BY <1>4, <1>5, <1>6 DEF Next

\* No event is dead-lettered before its attempts are used up, however workers
\* race for it and write its retry_count back from memory (outbox_worker.py,
\* _handle_processing_result), while storage calls succeed and no node goes.
\* The history must be able to count the attempts: MaxRetry < MaxFails.
THEOREM AttemptsUsedUp ==
  ASSUME MaxRetry < MaxFails PROVE Spec => []DeadOnlyAfterRetries
<1>1. Init => AttemptsInv
  <2> SUFFICES ASSUME Init PROVE AttemptsInv
    OBVIOUS
  <2>1. pending = {} /\ dead = {} /\ \A e \in Event : retry[e] = 0 /\ fails[e] = 0
    BY DEF Init
  <2>2. \A w \in Worker :
           /\ Held(w) = {} /\ batch[w] = {} /\ others[w] = {} /\ loop[w] = "idle"
           /\ step[w] = "next" /\ \A e \in Event : snap[w][e] = 0
    BY DEF Init, Held
  <2> QED BY <2>1, <2>2 DEF AttemptsInv, Sorted, Attempted
<1>2. TypeOK /\ AttemptsInv /\ [Next]_vars => AttemptsInv'
  BY AttemptsNext
<1>3. TypeOK /\ AttemptsInv => DeadOnlyAfterRetries
  BY DEF TypeOK, AttemptsInv, Calm, DeadOnlyAfterRetries, Exhausted, Late
<1> QED BY <1>1, <1>2, <1>3, TypeCorrect, PTL DEF Spec
=============================================================================
