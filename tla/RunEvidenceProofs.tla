-------------------------- MODULE RunEvidenceProofs --------------------------
(***************************************************************************)
(* Proofs about RunEvidence, for any runs, pipelines, shapes and accounts, *)
(* and whatever the runs measure.                                          *)
(*                                                                         *)
(* The key is what a pipeline may rely on when it takes its next step,     *)
(* though others have been at the same run since.  Unless a new result was *)
(* recorded under them, all that are at work on a run compute the same     *)
(* grade, and what one writes, another writes again; raced tells the runs  *)
(* of which this cannot be said, until nobody is at work on them.          *)
(***************************************************************************)
EXTENDS RunEvidence, FiniteSetTheorems, TLAPS

PipeRecord == [pc: Step, run: Run \cup {NoRun}, grade: GradeValue \cup {None},
               result: Results \cup {None}, seen: PoolRow \cup {None}]

Graded     == {"memory", "share", "promote", "link"}
Remembered == {"share", "promote", "link"}

(* What a pipeline knows at its place: of a raced run, only that what it   *)
(* needs is there.                                                         *)
InStep(p) ==
    /\ p.pc # "idle" => p.run \in Run
    /\ p.pc \in {"grade"} \cup Graded => result[p.run] # None
    /\ p.pc = "grade" => p.grade \in GradeValue
    /\ p.pc \in Graded => grade[p.run] \in GradeValue
    /\ p.pc \in Remembered =>
         memory[p.run] # None /\ p.result # None /\ p.grade \in GradeValue
    /\ p.run \notin raced =>
         /\ p.pc = "grade" => p.grade = GradeOf(p.run, result[p.run])
         /\ p.pc \in Graded => grade[p.run] = GradeOf(p.run, result[p.run])
         /\ p.pc \in Remembered =>
              /\ memory[p.run].result = result[p.run] /\ memory[p.run].grade = grade[p.run]
              /\ p.result = result[p.run] /\ p.grade = grade[p.run]

PipesAgree == \A g \in Pipeline : InStep(pipe[g])

Inv == TypeOK /\ PipesAgree /\ EmbeddingOfText /\ PoolCountsPromotions

-----------------------------------------------------------------------------
(* Records.                                                                *)

(* A row that is there is no None.                                         *)
LEMMA NoneIsNoRow ==
    /\ \A x \in GradeValue : x # None
    /\ \A x \in MemoryRow : x # None
    /\ \A x \in PoolRow : x # None
    /\ \A x \in Results : x # None
<1>1. \A x \in GradeValue : x # None
  BY DEF GradeValue, None
<1>2. \A x \in MemoryRow : x # None
  BY DEF MemoryRow, None
<1>3. \A x \in PoolRow : x # None
  BY DEF PoolRow, None
<1>4. \A x \in Results : x # None
  <2>1. \A x \in ExecutionResult : x # None
    BY DEF ExecutionResult, None
  <2>2. Results \subseteq ExecutionResult
    BY ConstantsAssumption
  <2>3. QED
    BY <2>1, <2>2
<1>5. QED
  BY <1>1, <1>2, <1>3, <1>4

(* However a result compares, its grade is a score of 0 to 3 and a class.  *)
LEMMA GradeTyped ==
    ASSUME NEW p, NEW x, NEW tier, NEW high
    PROVE  NumericGrade(p, x, tier, high) \in GradeValue
<1> DEFINE Dimension == {"duration", "storage", "rollback"}
           Ok == {d \in Dimension : CASE d = "duration" -> DurationOk(p, x, tier)
                                      [] d = "storage"  -> StorageOk(p, x, tier)
                                      [] d = "rollback" -> RollbackOk(p, x)}
<1>1. IsFiniteSet(Dimension) /\ Cardinality(Dimension) = 3
  <2>1. IsFiniteSet({"duration"}) /\ Cardinality({"duration"}) = 1
    BY FS_Singleton
  <2>2. IsFiniteSet({"duration"} \cup {"storage"}) /\ Cardinality({"duration"} \cup {"storage"}) = 2
    BY <2>1, FS_AddElement
  <2>3. /\ IsFiniteSet(({"duration"} \cup {"storage"}) \cup {"rollback"})
        /\ Cardinality(({"duration"} \cup {"storage"}) \cup {"rollback"}) = 3
    BY <2>2, FS_AddElement
  <2>4. Dimension = ({"duration"} \cup {"storage"}) \cup {"rollback"}
    OBVIOUS
  <2>5. QED
    BY <2>3, <2>4
<1>2. Ok \subseteq Dimension
  OBVIOUS
<1>3. Cardinality(Ok) \in 0 .. 3
  <2> HIDE DEF Ok, Dimension
  <2>1. IsFiniteSet(Ok) /\ Cardinality(Ok) <= 3
    BY <1>1, <1>2, FS_Subset
  <2>2. Cardinality(Ok) \in Nat
    BY <2>1, FS_CardinalityType
  <2>3. QED
    BY <2>1, <2>2
<1>4. ClassifyOutcome(x, high) \in {"timeout", "bad", "warned_ok", "clean_ok"}
  BY DEF ClassifyOutcome
<1>5. NumericGrade(p, x, tier, high) = [score |-> Cardinality(Ok), class |-> ClassifyOutcome(x, high)]
  BY DEF NumericGrade
<1>6. QED
  <2> HIDE DEF Ok
  <2> QED
    BY <1>3, <1>4, <1>5 DEF GradeValue

(* The fields of a pipeline, and those its steps change.                   *)
LEMMA PipeFields ==
    ASSUME NEW p \in PipeRecord
    PROVE  p = [pc |-> p.pc, run |-> p.run, grade |-> p.grade, result |-> p.result, seen |-> p.seen]
  BY DEF PipeRecord

LEMMA PipeChanged ==
    ASSUME NEW pipes, NEW S, pipes \in [S -> PipeRecord], NEW g \in S, NEW a, NEW b, NEW c
    PROVE  /\ [pipes EXCEPT ![g].pc = a] = [pipes EXCEPT ![g] = [@ EXCEPT !.pc = a]]
           /\ [pipes EXCEPT ![g].pc = a, ![g].grade = b] =
                [pipes EXCEPT ![g] = [@ EXCEPT !.pc = a, !.grade = b]]
           /\ [pipes EXCEPT ![g].pc = a, ![g].grade = b, ![g].result = c] =
                [pipes EXCEPT ![g] = [@ EXCEPT !.pc = a, !.grade = b, !.result = c]]
           /\ [pipes EXCEPT ![g].pc = a, ![g].seen = b] =
                [pipes EXCEPT ![g] = [@ EXCEPT !.pc = a, !.seen = b]]
  OBVIOUS

LEMMA PipeLooked ==
    ASSUME NEW pipes, NEW S, pipes \in [S -> PipeRecord], NEW g \in S, NEW b
    PROVE  [pipes EXCEPT ![g].pc = "promote", ![g].seen = b] =
             [pipes EXCEPT ![g] = [pipes[g] EXCEPT !.pc = "promote", !.seen = b]]
  OBVIOUS

LEMMA RowExcept ==
    ASSUME NEW p, NEW x,
           p = [pc |-> p.pc, run |-> p.run, grade |-> p.grade, result |-> p.result, seen |-> p.seen]
    PROVE  /\ [p EXCEPT !.pc = x] =
                [pc |-> x, run |-> p.run, grade |-> p.grade, result |-> p.result, seen |-> p.seen]
           /\ [p EXCEPT !.run = x] =
                [pc |-> p.pc, run |-> x, grade |-> p.grade, result |-> p.result, seen |-> p.seen]
           /\ [p EXCEPT !.grade = x] =
                [pc |-> p.pc, run |-> p.run, grade |-> x, result |-> p.result, seen |-> p.seen]
           /\ [p EXCEPT !.result = x] =
                [pc |-> p.pc, run |-> p.run, grade |-> p.grade, result |-> x, seen |-> p.seen]
           /\ [p EXCEPT !.seen = x] =
                [pc |-> p.pc, run |-> p.run, grade |-> p.grade, result |-> p.result, seen |-> x]
  OBVIOUS

LEMMA PipeExcept ==
    ASSUME NEW p \in PipeRecord, NEW a, NEW b
    PROVE  /\ [p EXCEPT !.pc = a] =
                [pc |-> a, run |-> p.run, grade |-> p.grade, result |-> p.result, seen |-> p.seen]
           /\ [p EXCEPT !.pc = a, !.grade = b] =
                [pc |-> a, run |-> p.run, grade |-> b, result |-> p.result, seen |-> p.seen]
           /\ [p EXCEPT !.pc = a, !.seen = b] =
                [pc |-> a, run |-> p.run, grade |-> p.grade, result |-> p.result, seen |-> b]
<1> DEFINE q == [p EXCEPT !.pc = a]
           r == [q EXCEPT !.grade = b]
<1>1. q = [pc |-> a, run |-> p.run, grade |-> p.grade, result |-> p.result, seen |-> p.seen]
  BY PipeFields, RowExcept
<1>2. /\ [p EXCEPT !.pc = a, !.grade = b] = r
      /\ [p EXCEPT !.pc = a, !.seen = b] = [q EXCEPT !.seen = b]
  OBVIOUS
<1>3. /\ r = [pc |-> a, run |-> p.run, grade |-> b, result |-> p.result, seen |-> p.seen]
      /\ [q EXCEPT !.seen = b] =
           [pc |-> a, run |-> p.run, grade |-> p.grade, result |-> p.result, seen |-> b]
  <2> HIDE DEF q
  <2>1. q = [pc |-> q.pc, run |-> q.run, grade |-> q.grade, result |-> q.result, seen |-> q.seen]
    BY <1>1
  <2>2. /\ r = [pc |-> q.pc, run |-> q.run, grade |-> b, result |-> q.result, seen |-> q.seen]
        /\ [q EXCEPT !.seen = b] =
             [pc |-> q.pc, run |-> q.run, grade |-> q.grade, result |-> q.result, seen |-> b]
    BY <2>1, RowExcept
  <2>3. QED
    BY <1>1, <2>2
<1>4. QED
  <2> HIDE DEF q, r
  <2>1. q = [p EXCEPT !.pc = a]
    BY DEF q
  <2>2. QED
    BY <1>1, <1>2, <1>3, <2>1

LEMMA PipeRewritten ==
    ASSUME NEW p \in PipeRecord, NEW b, NEW c
    PROVE  [p EXCEPT !.pc = "share", !.grade = b, !.result = c] =
             [pc |-> "share", run |-> p.run, grade |-> b, result |-> c, seen |-> p.seen]
<1> DEFINE r == [p EXCEPT !.pc = "share", !.grade = b]
<1>1. r = [pc |-> "share", run |-> p.run, grade |-> b, result |-> p.result, seen |-> p.seen]
  BY PipeExcept
<1>2. [p EXCEPT !.pc = "share", !.grade = b, !.result = c] = [r EXCEPT !.result = c]
  OBVIOUS
<1> HIDE DEF r
<1>3. r = [pc |-> r.pc, run |-> r.run, grade |-> r.grade, result |-> r.result, seen |-> r.seen]
  BY <1>1
<1>4. [r EXCEPT !.result = c] =
        [pc |-> r.pc, run |-> r.run, grade |-> r.grade, result |-> c, seen |-> r.seen]
  BY <1>3, RowExcept
<1>5. QED
  BY <1>1, <1>2, <1>4

LEMMA PipeUpdated ==
    ASSUME TypeOK, NEW g \in Pipeline, NEW new \in PipeRecord, pipe' = [pipe EXCEPT ![g] = new]
    PROVE  /\ pipe' \in [Pipeline -> PipeRecord]
           /\ pipe'[g] = new
           /\ \A h \in Pipeline \ {g} : pipe'[h] = pipe[h]
  BY DEF TypeOK, PipeRecord

LEMMA AtRest == Idle \in PipeRecord /\ InStep(Idle) /\ Idle.pc = "idle"
<1>1. Idle \in PipeRecord
  BY DEF Idle, PipeRecord, Step
<1>2. InStep(Idle)
  BY DEF InStep, Idle, Graded, Remembered
<1>3. QED
  BY <1>1, <1>2 DEF Idle

(* What a pipeline at work knows of its run.                               *)
LEMMA AtWorkOn ==
    ASSUME Inv, NEW g \in Pipeline
    PROVE  /\ pipe[g] \in PipeRecord /\ InStep(pipe[g])
           /\ AtWork(g) => pipe[g].run \in Run
  BY DEF Inv, TypeOK, PipesAgree, PipeRecord, InStep, AtWork

(* The run of a pipeline at work keeps its result, unless it is raced.     *)
LEMMA RacedSame ==
    ASSUME Inv, Observed, NEW h \in Pipeline, AtWork(h)
    PROVE  pipe[h].run \notin raced' =>
             pipe[h].run \notin raced /\ result'[pipe[h].run] = result[pipe[h].run]
<1>1. pipe[h].run \in Run /\ Attended(pipe[h].run)
  BY AtWorkOn DEF Attended
<1>2. QED
  BY <1>1 DEF Observed

LEMMA RacedRuns == Observed => raced' \subseteq Run
  BY DEF Observed

(* What a pipeline knows outlasts a step that leaves the tables alone.     *)
LEMMA StaysInStep ==
    ASSUME UNCHANGED <<result, grade, memory>>, NEW p, InStep(p),
           \/ p.pc \in {"idle", "load"}
           \/ p.run \notin raced' => p.run \notin raced
    PROVE  InStep(p)'
  BY DEF InStep, GradeOf, Graded, Remembered

(* A step that leaves the tables alone.                                    *)
LEMMA QuietStep ==
    ASSUME Inv, Observed, UNCHANGED tables,
           NEW g \in Pipeline, NEW new \in PipeRecord, InStep(new),
           \/ new.pc \in {"idle", "load"}
           \/ AtWork(g) /\ new.run = pipe[g].run,
           pipe' = [pipe EXCEPT ![g] = new]
    PROVE  Inv'
<1>0. TypeOK /\ raced' \subseteq Run
  BY RacedRuns DEF Inv
<1>1. TypeOK'
  BY <1>0, PipeUpdated DEF TypeOK, tables, PipeRecord
<1>2. PipesAgree'
  <2> SUFFICES ASSUME NEW h \in Pipeline PROVE InStep(pipe[h])'
    BY DEF PipesAgree
  <2>1. UNCHANGED <<result, grade, memory>>
    BY DEF tables
  <2>2. CASE h = g
    <3>1. \/ new.pc \in {"idle", "load"}
          \/ new.run \notin raced' => new.run \notin raced
      BY RacedSame
    <3>2. InStep(new)'
      BY <2>1, <3>1, StaysInStep
    <3>3. pipe'[h] = new
      BY <1>0, <2>2, PipeUpdated
    <3>4. QED
      BY <3>2, <3>3
  <2>3. CASE h # g
    <3>1. InStep(pipe[h]) /\ pipe'[h] = pipe[h]
      BY <1>0, <2>3, PipeUpdated, AtWorkOn
    <3>2. \/ pipe[h].pc \in {"idle", "load"}
          \/ pipe[h].run \notin raced' => pipe[h].run \notin raced
      BY RacedSame DEF AtWork
    <3>3. QED
      BY <2>1, <3>1, <3>2 DEF InStep, GradeOf, Graded, Remembered
  <2>4. QED
    BY <2>2, <2>3
<1>3. EmbeddingOfText' /\ PoolCountsPromotions'
  BY DEF Inv, EmbeddingOfText, PoolCountsPromotions, tables
<1>4. QED
  BY <1>1, <1>2, <1>3 DEF Inv

LEMMA InitInv == Init => Inv
<1> SUFFICES ASSUME Init PROVE Inv
  OBVIOUS
<1>1. TypeOK
  BY AtRest DEF Init, TypeOK, PipeRecord, GradeRows
<1>2. PipesAgree
  BY AtRest DEF Init, PipesAgree
<1>3. EmbeddingOfText /\ PoolCountsPromotions
  BY DEF Init, EmbeddingOfText, PoolCountsPromotions
<1>4. QED
  BY <1>1, <1>2, <1>3 DEF Inv

-----------------------------------------------------------------------------
(* The steps.                                                              *)

(* A pipeline that begins is told nothing yet.                             *)
LEMMA Begun ==
    ASSUME NEW g \in Pipeline, NEW r \in Run, Begin(g, r)
    PROVE  \E new \in PipeRecord :
             /\ pipe' = [pipe EXCEPT ![g] = new]
             /\ new.pc = "load" /\ new.run = r
<1>1. [Idle EXCEPT !.pc = "load", !.run = r] =
        [pc |-> "load", run |-> r, grade |-> None, result |-> None, seen |-> None]
  <2> DEFINE q == [Idle EXCEPT !.pc = "load"]
  <2>1. q = [pc |-> "load", run |-> NoRun, grade |-> None, result |-> None, seen |-> None]
    BY DEF Idle
  <2>2. [Idle EXCEPT !.pc = "load", !.run = r] = [q EXCEPT !.run = r]
    OBVIOUS
  <2> HIDE DEF q
  <2>3. q = [pc |-> q.pc, run |-> q.run, grade |-> q.grade, result |-> q.result, seen |-> q.seen]
    BY <2>1
  <2>4. [q EXCEPT !.run = r] =
          [pc |-> q.pc, run |-> r, grade |-> q.grade, result |-> q.result, seen |-> q.seen]
    BY <2>3, RowExcept
  <2>5. QED
    BY <2>1, <2>2, <2>4
<1>2. [pc |-> "load", run |-> r, grade |-> None, result |-> None, seen |-> None] \in PipeRecord
  BY DEF PipeRecord, Step
<1>3. QED
  BY <1>1, <1>2 DEF Begin

LEMMA StepRecord ==
    ASSUME Inv, NEW g \in Pipeline, NEW r \in Run, NEW x \in MayMeasure[r],
           RecordExecution(g, r, x), Observed
    PROVE  Inv'
<1>0. TypeOK /\ x \in Results /\ raced' \subseteq Run
  BY ConstantsAssumption, RacedRuns DEF Inv
<1>1. PICK new \in PipeRecord : /\ pipe' = [pipe EXCEPT ![g] = new]
                               /\ new.pc = "load" /\ new.run = r
  BY Begun DEF RecordExecution
<1>2. /\ pipe' \in [Pipeline -> PipeRecord]
      /\ pipe'[g] = new
      /\ \A h \in Pipeline \ {g} : pipe'[h] = pipe[h]
  BY <1>0, <1>1, PipeUpdated
<1>3. TypeOK'
  BY <1>0, <1>2 DEF TypeOK, RecordExecution, PipeRecord
<1>4. PipesAgree'
  <2> SUFFICES ASSUME NEW h \in Pipeline PROVE InStep(pipe[h])'
    BY DEF PipesAgree
  <2>1. CASE h = g
    BY <1>1, <1>2, <2>1 DEF InStep, Graded, Remembered
  <2>2. CASE h # g
    <3>1. InStep(pipe[h]) /\ pipe'[h] = pipe[h] /\ grade' = grade /\ memory' = memory
      BY <1>2, <2>2, AtWorkOn DEF RecordExecution
    <3>2. AtWork(h) /\ pipe[h].run \notin raced' =>
            pipe[h].run \notin raced /\ result'[pipe[h].run] = result[pipe[h].run]
      BY RacedSame
    <3>3. \A o \in Run : result[o] # None => result'[o] # None
      BY <1>0, NoneIsNoRow DEF RecordExecution, TypeOK
    <3>4. QED
      BY <3>1, <3>2, <3>3 DEF InStep, GradeOf, AtWork, Graded, Remembered
  <2>3. QED
    BY <2>1, <2>2
<1>5. EmbeddingOfText' /\ PoolCountsPromotions'
  BY DEF Inv, EmbeddingOfText, PoolCountsPromotions, RecordExecution
<1>6. QED
  BY <1>3, <1>4, <1>5 DEF Inv

LEMMA StepQuiet ==
    ASSUME Inv, NEW g \in Pipeline,
           \/ \E r \in Run : GradeRequest(g, r)
           \/ ComputeGrade(g) \/ TryPromote(g) \/ AbandonPromotion(g) \/ Stop(g),
           Observed
    PROVE  Inv'
<1> DEFINE p == pipe[g]
<1>0. /\ TypeOK /\ pipe \in [Pipeline -> PipeRecord] /\ UNCHANGED tables
      /\ p \in PipeRecord /\ InStep(p)
  BY AtWorkOn DEF Inv, TypeOK, PipeRecord, GradeRequest, ComputeGrade, TryPromote,
                  AbandonPromotion, Stop
<1> DEFINE Follows(new) == new.pc \in {"idle", "load"} \/ (AtWork(g) /\ new.run = p.run)
<1>1. SUFFICES \E new \in PipeRecord :
                 pipe' = [pipe EXCEPT ![g] = new] /\ InStep(new) /\ Follows(new)
  BY <1>0, QuietStep
<1>2. ASSUME NEW r \in Run, GradeRequest(g, r)
      PROVE  \E new \in PipeRecord :
               pipe' = [pipe EXCEPT ![g] = new] /\ InStep(new) /\ Follows(new)
  <2>1. PICK new \in PipeRecord : /\ pipe' = [pipe EXCEPT ![g] = new]
                                 /\ new.pc = "load" /\ new.run = r
    BY <1>2, Begun DEF GradeRequest
  <2>2. InStep(new) /\ Follows(new)
    BY <2>1 DEF InStep, Graded, Remembered
  <2>3. QED
    <3> HIDE DEF Follows
    <3> QED
      BY <2>1, <2>2
<1>3. CASE ComputeGrade(g)
  <2> DEFINE v   == GradeOf(p.run, result[p.run])
             new == [pc |-> "grade", run |-> p.run, grade |-> v, result |-> p.result,
                     seen |-> p.seen]
  <2>1. pipe' = [pipe EXCEPT ![g].pc = "grade", ![g].grade = v]
    BY <1>3 DEF ComputeGrade
  <2>2. pipe' = [pipe EXCEPT ![g] = new]
    <3> HIDE DEF v
    <3>1. pipe' = [pipe EXCEPT ![g] = [p EXCEPT !.pc = "grade", !.grade = v]]
      BY <1>0, <2>1, PipeChanged
    <3>2. [p EXCEPT !.pc = "grade", !.grade = v] = new
      BY <1>0, PipeExcept
    <3>3. QED
      BY <3>1, <3>2
  <2>3. v \in GradeValue
    BY GradeTyped DEF GradeOf
  <2>4. new \in PipeRecord
    <3> HIDE DEF v
    <3> QED
      BY <1>0, <2>3 DEF PipeRecord, Step
  <2>5. InStep(new) /\ Follows(new)
    <3>1. p.pc = "load" /\ result[p.run] # None
      BY <1>3 DEF ComputeGrade, At
    <3>2. Follows(new)
      BY <3>1 DEF AtWork
    <3>3. new.grade = GradeOf(p.run, result[p.run]) /\ new.grade \in GradeValue
      BY <2>3
    <3>4. new.pc = "grade" /\ new.run = p.run
      OBVIOUS
    <3>5. InStep(new)
      <4> HIDE DEF new
      <4> QED
        BY <1>0, <3>1, <3>3, <3>4 DEF InStep, Graded, Remembered
    <3>6. QED
      BY <3>2, <3>5
  <2>6. QED
    <3> HIDE DEF new
    <3> QED
      BY <2>2, <2>4, <2>5
<1>4. CASE TryPromote(g)
  <2> DEFINE s    == ShapeOf[p.run]
             skip == [pc |-> "link", run |-> p.run, grade |-> p.grade, result |-> p.result,
                      seen |-> p.seen]
             go   == [pc |-> "promote", run |-> p.run, grade |-> p.grade, result |-> p.result,
                      seen |-> pool[s]]
  <2>1. p.pc = "share"
    BY <1>4 DEF TryPromote, At
  <2>2. p.run \in Run
    BY <1>0, <2>1 DEF InStep
  <2>3. skip \in PipeRecord /\ go \in PipeRecord
    BY <1>0, <2>2, ConstantsAssumption DEF PipeRecord, Step, TypeOK
  <2>4. InStep(skip) /\ InStep(go) /\ Follows(skip) /\ Follows(go)
    BY <1>0, <2>1 DEF InStep, Graded, Remembered, AtWork
  <2>5. \/ pipe' = [pipe EXCEPT ![g].pc = "link"]
        \/ pipe' = [pipe EXCEPT ![g].pc = "promote", ![g].seen = pool[s]]
    BY <1>4 DEF TryPromote
  <2>6. pipe' = [pipe EXCEPT ![g] = skip] \/ pipe' = [pipe EXCEPT ![g] = go]
    <3>1. \/ pipe' = [pipe EXCEPT ![g] = [p EXCEPT !.pc = "link"]]
          \/ pipe' = [pipe EXCEPT ![g] = [p EXCEPT !.pc = "promote", !.seen = pool[s]]]
      <4>1. CASE pipe' = [pipe EXCEPT ![g].pc = "link"]
        BY <1>0, <4>1, PipeChanged
      <4>2. CASE pipe' = [pipe EXCEPT ![g].pc = "promote", ![g].seen = pool[s]]
        <5> HIDE DEF s
        <5>1. [pipe EXCEPT ![g].pc = "promote", ![g].seen = pool[s]] =
                [pipe EXCEPT ![g] = [pipe[g] EXCEPT !.pc = "promote", !.seen = pool[s]]]
          BY <1>0, PipeLooked
        <5>2. QED
          BY <4>2, <5>1
      <4>3. QED
        BY <2>5, <4>1, <4>2
    <3>2. /\ [p EXCEPT !.pc = "link"] = skip
          /\ [p EXCEPT !.pc = "promote", !.seen = pool[s]] = go
      BY <1>0, PipeExcept
    <3>3. QED
      BY <3>1, <3>2
  <2>7. QED
    BY <2>3, <2>4, <2>6
<1>5. CASE AbandonPromotion(g)
  <2> DEFINE new == [pc |-> "link", run |-> p.run, grade |-> p.grade, result |-> p.result,
                     seen |-> p.seen]
  <2>1. pipe' = [pipe EXCEPT ![g] = new]
    <3>1. pipe' = [pipe EXCEPT ![g] = [p EXCEPT !.pc = "link"]]
      BY <1>0, <1>5, PipeChanged DEF AbandonPromotion
    <3>2. [p EXCEPT !.pc = "link"] = new
      BY <1>0, PipeExcept
    <3>3. QED
      BY <3>1, <3>2
  <2>2. new \in PipeRecord
    BY <1>0 DEF PipeRecord, Step
  <2>3. InStep(new) /\ Follows(new)
    BY <1>0, <1>5 DEF AbandonPromotion, At, AtWork, InStep, Graded, Remembered
  <2>4. QED
    BY <2>1, <2>2, <2>3
<1>6. CASE Stop(g)
  <2>1. pipe' = [pipe EXCEPT ![g] = Idle] /\ Follows(Idle)
    BY <1>6, AtRest DEF Stop
  <2>2. QED
    <3> HIDE DEF Follows
    <3> QED
      BY <2>1, AtRest
<1>7. QED
  BY <1>2, <1>3, <1>4, <1>5, <1>6

(* Unless the run is raced, every pipeline at work on it has computed this *)
(* grade.                                                                  *)
LEMMA StepGrade ==
    ASSUME Inv, NEW g \in Pipeline, CommitGrade(g), Observed
    PROVE  Inv'
<1> DEFINE p   == pipe[g]
           r   == p.run
           new == [pc |-> "memory", run |-> r, grade |-> None, result |-> p.result,
                   seen |-> p.seen]
<1>0. /\ TypeOK /\ pipe \in [Pipeline -> PipeRecord] /\ p \in PipeRecord /\ InStep(p)
      /\ p.pc = "grade"
  BY AtWorkOn DEF Inv, TypeOK, PipeRecord, CommitGrade, At
<1>1. /\ r \in Run /\ result[r] # None /\ AtWork(g)
      /\ r \notin raced => p.grade = GradeOf(r, result[r])
  BY <1>0 DEF InStep, AtWork
<1>2. p.grade \in GradeValue /\ raced' \subseteq Run
  BY <1>0, RacedRuns DEF InStep
<1>3. grade' = [grade EXCEPT ![r] = p.grade]
  BY DEF CommitGrade
<1>4. pipe' = [pipe EXCEPT ![g] = new]
  <2>1. pipe' = [pipe EXCEPT ![g] = [p EXCEPT !.pc = "memory", !.grade = None]]
    BY <1>0, PipeChanged DEF CommitGrade
  <2>2. [p EXCEPT !.pc = "memory", !.grade = None] = new
    BY <1>0, PipeExcept
  <2>3. QED
    BY <2>1, <2>2
<1>5. new \in PipeRecord
  BY <1>0 DEF PipeRecord, Step
<1>6. /\ pipe' \in [Pipeline -> PipeRecord]
      /\ pipe'[g] = new
      /\ \A h \in Pipeline \ {g} : pipe'[h] = pipe[h]
  BY <1>0, <1>4, <1>5, PipeUpdated
<1>7. UNCHANGED <<result, memory, outcome, pool, promoted, consent>>
  BY DEF CommitGrade
<1> HIDE DEF new
<1>8. TypeOK'
  BY <1>0, <1>2, <1>3, <1>6, <1>7 DEF TypeOK, PipeRecord, GradeRows
<1>9. PipesAgree'
  <2> SUFFICES ASSUME NEW h \in Pipeline PROVE InStep(pipe[h])'
    BY DEF PipesAgree
  <2>0. grade \in [Run -> GradeValue \cup {None}]
    BY <1>0 DEF TypeOK, GradeRows
  <2>1. CASE h = g
    <3>1. grade'[r] = p.grade
      BY <1>1, <1>3, <2>0
    <3>2. r \notin raced' => r \notin raced
      BY <1>1, RacedSame
    <3>3. QED
      BY <1>1, <1>2, <1>6, <1>7, <2>1, <3>1, <3>2 DEF InStep, GradeOf, Graded, Remembered, new
  <2>2. CASE h # g
    <3>1. InStep(pipe[h]) /\ pipe'[h] = pipe[h]
      BY <1>6, <2>2, AtWorkOn
    <3>2. AtWork(h) => (pipe[h].run \notin raced' => pipe[h].run \notin raced)
      BY RacedSame
    <3>3. pipe[h].pc \in Graded =>
            /\ grade'[pipe[h].run] \in GradeValue
            /\ pipe[h].run \notin raced => grade'[pipe[h].run] = grade[pipe[h].run]
      BY <1>1, <1>2, <1>3, <2>0, <3>1 DEF InStep, Graded
    <3>4. QED
      BY <1>7, <3>1, <3>2, <3>3 DEF InStep, GradeOf, AtWork, Graded, Remembered
  <2>3. QED
    BY <2>1, <2>2
<1>10. EmbeddingOfText' /\ PoolCountsPromotions'
  BY <1>7 DEF Inv, EmbeddingOfText, PoolCountsPromotions
<1>11. QED
  BY <1>8, <1>9, <1>10 DEF Inv

(* An embedding made with a text is of that text.                          *)
LEMMA EmbeddingMade ==
    ASSUME NEW text \in GradeValue, NEW e \in NewEmbedding(text)
    PROVE  e \in Embedding /\ (e.status = "ready" => e.of = text)
  BY DEF NewEmbedding, Embedding

LEMMA StepMemory ==
    ASSUME Inv, NEW g \in Pipeline, WriteMemory(g), Observed
    PROVE  Inv'
<1> DEFINE p   == pipe[g]
           r   == p.run
           new == [pc |-> "share", run |-> r, grade |-> grade[r], result |-> result[r],
                   seen |-> p.seen]
<1>0. /\ TypeOK /\ pipe \in [Pipeline -> PipeRecord] /\ p \in PipeRecord /\ InStep(p)
      /\ p.pc = "memory"
  BY AtWorkOn DEF Inv, TypeOK, PipeRecord, WriteMemory, At
<1>1. /\ r \in Run /\ result[r] # None /\ AtWork(g)
      /\ r \notin raced => grade[r] = GradeOf(r, result[r])
  BY <1>0 DEF InStep, Graded, AtWork
<1>2. grade[r] \in GradeValue /\ result[r] \in Results /\ raced' \subseteq Run
  BY <1>0, <1>1, RacedRuns DEF InStep, Graded, TypeOK
<1>3. PICK e \in NewEmbedding(grade[r]) : memory' = [memory EXCEPT ![r] = Summarized(r, e)]
  BY DEF WriteMemory
<1>4. pipe' = [pipe EXCEPT ![g] = new]
  <2>1. pipe' = [pipe EXCEPT ![g].pc = "share", ![g].grade = grade[r], ![g].result = result[r]]
    BY DEF WriteMemory
  <2>2. pipe' = [pipe EXCEPT ![g] = [p EXCEPT !.pc = "share", !.grade = grade[r],
                                              !.result = result[r]]]
    <3> HIDE DEF r
    <3> QED
      BY <1>0, <2>1, PipeChanged
  <2>3. [p EXCEPT !.pc = "share", !.grade = grade[r], !.result = result[r]] = new
    <3> DEFINE v == grade[r]
               x == result[r]
    <3> HIDE DEF v, x
    <3>1. [p EXCEPT !.pc = "share", !.grade = v, !.result = x] =
            [pc |-> "share", run |-> p.run, grade |-> v, result |-> x, seen |-> p.seen]
      BY <1>0, PipeRewritten
    <3>2. QED
      BY <3>1 DEF v, x
  <2>4. QED
    BY <2>2, <2>3
<1>5. new \in PipeRecord
  BY <1>0, <1>1, <1>2 DEF PipeRecord, Step
<1>6. /\ pipe' \in [Pipeline -> PipeRecord]
      /\ pipe'[g] = new
      /\ \A h \in Pipeline \ {g} : pipe'[h] = pipe[h]
  BY <1>0, <1>4, <1>5, PipeUpdated
<1>7. UNCHANGED <<result, grade, outcome, pool, promoted, consent>>
  BY DEF WriteMemory
<1>8. Summarized(r, e) \in MemoryRow /\ Summarized(r, e) # None
  BY <1>2, EmbeddingMade, NoneIsNoRow DEF Summarized, MemoryRow
<1>9. /\ memory' \in [Run -> MemoryRow \cup {None}]
      /\ memory'[r] = Summarized(r, e)
      /\ \A o \in Run \ {r} : memory'[o] = memory[o]
  BY <1>0, <1>1, <1>3, <1>8 DEF TypeOK
<1> HIDE DEF new
<1>10. TypeOK'
  BY <1>0, <1>2, <1>6, <1>7, <1>9 DEF TypeOK, PipeRecord
<1>11. PipesAgree'
  <2> SUFFICES ASSUME NEW h \in Pipeline PROVE InStep(pipe[h])'
    BY DEF PipesAgree
  <2>0. /\ memory'[r] # None /\ memory'[r].result = result[r] /\ memory'[r].grade = grade[r]
    BY <1>8, <1>9 DEF Summarized
  <2>1. CASE h = g
    <3>1. r \notin raced' => r \notin raced
      BY <1>1, RacedSame
    <3>2. QED
      BY <1>1, <1>2, <1>6, <1>7, <2>0, <2>1, <3>1
         DEF InStep, GradeOf, Graded, Remembered, new
  <2>2. CASE h # g
    <3>1. InStep(pipe[h]) /\ pipe'[h] = pipe[h]
      BY <1>6, <2>2, AtWorkOn
    <3>2. AtWork(h) => (pipe[h].run \notin raced' => pipe[h].run \notin raced)
      BY RacedSame
    <3>3. QED
      BY <1>7, <1>9, <2>0, <3>1, <3>2 DEF InStep, GradeOf, AtWork, Graded, Remembered
  <2>3. QED
    BY <2>1, <2>2
<1>12. EmbeddingOfText'
  <2>1. memory'[r].embedding.status = "ready" => memory'[r].embedding.of = memory'[r].grade
    BY <1>2, <1>9, EmbeddingMade DEF Summarized
  <2>2. QED
    BY <1>7, <1>9, <2>1 DEF Inv, EmbeddingOfText
<1>13. PoolCountsPromotions'
  BY <1>7 DEF Inv, PoolCountsPromotions
<1>14. QED
  BY <1>10, <1>11, <1>12, <1>13 DEF Inv

LEMMA StepLink ==
    ASSUME Inv, NEW g \in Pipeline, LinkOutcome(g), Observed
    PROVE  Inv'
<1>0. TypeOK /\ raced' \subseteq Run
  BY RacedRuns DEF Inv
<1>1. pipe' = [pipe EXCEPT ![g] = Idle] /\ Idle \in PipeRecord /\ InStep(Idle)
  BY AtRest DEF LinkOutcome
<1>2. /\ pipe' \in [Pipeline -> PipeRecord]
      /\ pipe'[g] = Idle
      /\ \A h \in Pipeline \ {g} : pipe'[h] = pipe[h]
  BY <1>0, <1>1, PipeUpdated
<1>3. UNCHANGED <<result, grade, memory, pool, promoted, consent>>
  BY DEF LinkOutcome
<1>4. outcome' \in [Run -> {"none", "success", "no_improvement"}]
  <2>1. outcome \in [Run -> {"none", "success", "no_improvement"}]
    BY <1>0 DEF TypeOK
  <2>2. QED
    BY <2>1 DEF LinkOutcome
<1>5. TypeOK'
  BY <1>0, <1>2, <1>3, <1>4 DEF TypeOK, PipeRecord
<1>6. PipesAgree'
  <2> SUFFICES ASSUME NEW h \in Pipeline PROVE InStep(pipe[h])'
    BY DEF PipesAgree
  <2>1. InStep(pipe'[h])
    BY <1>1, <1>2, AtWorkOn
  <2>2. pipe'[h].pc # "idle" => (pipe'[h].run \notin raced' => pipe'[h].run \notin raced)
    BY <1>2, AtRest, RacedSame DEF AtWork
  <2>3. QED
    BY <1>3, <2>1, <2>2 DEF InStep, GradeOf, Graded, Remembered
<1>7. EmbeddingOfText' /\ PoolCountsPromotions'
  BY <1>3 DEF Inv, EmbeddingOfText, PoolCountsPromotions
<1>8. QED
  BY <1>5, <1>6, <1>7 DEF Inv

(* The rows of the shared memory.                                          *)
Fresh(row) == row.embedding.status = "ready" => row.embedding.of = row.text

LEMMA PoolFields ==
    ASSUME NEW row \in PoolRow, NEW n, NEW e
    PROVE  /\ row = [count |-> row.count, text |-> row.text, embedding |-> row.embedding]
           /\ [row EXCEPT !.count = n] =
                [count |-> n, text |-> row.text, embedding |-> row.embedding]
           /\ [row EXCEPT !.embedding = e] =
                [count |-> row.count, text |-> row.text, embedding |-> e]
<1>1. row = [count |-> row.count, text |-> row.text, embedding |-> row.embedding]
  BY DEF PoolRow
<1>2. QED
  BY <1>1

(* Embedding a row anew changes neither its text nor its count.            *)
LEMMA ReembeddedRow ==
    ASSUME NEW row \in PoolRow, Fresh(row), NEW new \in Reembedded(row)
    PROVE  new \in PoolRow /\ Fresh(new) /\ new.count = row.count
<1>1. CASE row.embedding.status = "pending"
  <2>1. PICK e \in NewEmbedding(row.text) : new = [row EXCEPT !.embedding = e]
    BY <1>1 DEF Reembedded
  <2>2. new = [count |-> row.count, text |-> row.text, embedding |-> e]
    BY <2>1, PoolFields
  <2>3. row.text \in GradeValue /\ row.count \in 1 .. PoolBound
    BY DEF PoolRow
  <2>4. e \in Embedding /\ (e.status = "ready" => e.of = row.text)
    BY <2>1, <2>3, EmbeddingMade
  <2>5. QED
    BY <2>2, <2>3, <2>4 DEF PoolRow, Fresh
<1>2. CASE row.embedding.status # "pending"
  BY <1>2 DEF Reembedded
<1>3. QED
  BY <1>1, <1>2

(* A contribution counts one more; what it replaces is embedded anew.      *)
LEMMA ContributedRow ==
    ASSUME NEW row \in PoolRow, Fresh(row), NEW text \in GradeValue, NEW extreme \in BOOLEAN,
           row.count < PoolBound
    PROVE  LET new == Contributed(row, text, extreme)
           IN new \in PoolRow /\ Fresh(new) /\ new.count = row.count + 1
<1>0. /\ row.count + 1 \in 1 .. PoolBound /\ row.text \in GradeValue
      /\ row.embedding \in Embedding
  BY ConstantsAssumption DEF PoolRow
<1>1. CASE extreme
  BY <1>0, <1>1 DEF Contributed, PoolRow, Fresh, Embedding
<1>2. CASE ~extreme
  <2>1. Contributed(row, text, extreme) = [row EXCEPT !.count = row.count + 1]
    BY <1>2 DEF Contributed
  <2>2. Contributed(row, text, extreme) =
          [count |-> row.count + 1, text |-> row.text, embedding |-> row.embedding]
    BY <2>1, PoolFields
  <2>3. QED
    BY <1>0, <2>2 DEF PoolRow, Fresh
<1>3. QED
  BY <1>1, <1>2

LEMMA FirstRow ==
    ASSUME NEW text \in GradeValue, 0 < PoolBound
    PROVE  LET new == [count |-> 1, text |-> text, embedding |-> [status |-> "pending"]]
           IN new \in PoolRow /\ Fresh(new) /\ new.count = 1
  BY ConstantsAssumption DEF PoolRow, Fresh, Embedding

(* A promotion that is committed puts its row in, and counts once.         *)
LEMMA StepPromoted ==
    ASSUME Inv, NEW g \in Pipeline, pipe[g].pc = "promote",
           NEW row \in PoolRow, Fresh(row), row.count = promoted[ShapeOf[pipe[g].run]] + 1,
           NEW pcs \in SUBSET {"link", "idle"}, Promoted(g, row, pcs), Observed
    PROVE  Inv'
<1> DEFINE p   == pipe[g]
           s   == ShapeOf[p.run]
           on  == [pc |-> "link", run |-> p.run, grade |-> p.grade, result |-> p.result,
                   seen |-> None]
<1>0. /\ TypeOK /\ pipe \in [Pipeline -> PipeRecord] /\ p \in PipeRecord /\ InStep(p)
      /\ p.run \in Run /\ raced' \subseteq Run /\ AtWork(g)
  BY AtWorkOn, RacedRuns DEF Inv, TypeOK, PipeRecord, AtWork
<1>1. s \in Shape /\ promoted[s] \in Nat
  BY <1>0, ConstantsAssumption DEF TypeOK
<1>2. PICK kept \in Reembedded(row) : pool' = [pool EXCEPT ![s] = kept]
  BY DEF Promoted
<1>3. kept \in PoolRow /\ Fresh(kept) /\ kept.count = promoted[s] + 1 /\ kept # None
  BY <1>2, ReembeddedRow, NoneIsNoRow
<1>4. promoted' = [promoted EXCEPT ![s] = promoted[s] + 1]
  BY DEF Promoted
<1>5. UNCHANGED <<result, grade, memory, outcome, consent>>
  BY DEF Promoted
<1>6. PICK new \in {on, Idle} : pipe' = [pipe EXCEPT ![g] = new]
  <2>1. PICK pc \in pcs : pipe' = [pipe EXCEPT ![g] =
                             IF pc = "idle" THEN Idle ELSE [p EXCEPT !.pc = pc, !.seen = None]]
    <3>1. PICK pc \in pcs : pipe' = [pipe EXCEPT ![g] =
                               IF pc = "idle" THEN Idle ELSE [@ EXCEPT !.pc = pc, !.seen = None]]
      BY DEF Promoted
    <3>2. QED
      BY <1>0, <3>1
  <2>2. CASE pc = "idle"
    BY <2>1, <2>2
  <2>3. CASE pc = "link"
    <3>1. [p EXCEPT !.pc = "link", !.seen = None] = on
      BY <1>0, PipeExcept
    <3>2. QED
      BY <2>1, <2>3, <3>1
  <2>4. QED
    BY <2>2, <2>3
<1>7. new \in PipeRecord /\ InStep(new) /\ (new.pc = "idle" \/ new.run = p.run)
  <2>1. on \in PipeRecord
    BY <1>0 DEF PipeRecord, Step
  <2>2. InStep(on)
    BY <1>0 DEF InStep, Graded, Remembered
  <2>3. QED
    BY <2>1, <2>2, AtRest
<1>8. /\ pipe' \in [Pipeline -> PipeRecord]
      /\ pipe'[g] = new
      /\ \A h \in Pipeline \ {g} : pipe'[h] = pipe[h]
  BY <1>0, <1>6, <1>7, PipeUpdated
<1> HIDE DEF s, on
<1>9. TypeOK'
  BY <1>0, <1>1, <1>2, <1>3, <1>4, <1>5, <1>8 DEF TypeOK, PipeRecord
<1>10. PipesAgree'
  <2> SUFFICES ASSUME NEW h \in Pipeline PROVE InStep(pipe[h])'
    BY DEF PipesAgree
  <2>1. InStep(pipe'[h])
    BY <1>7, <1>8, AtWorkOn
  <2>2. pipe'[h].pc # "idle" => (pipe'[h].run \notin raced' => pipe'[h].run \notin raced)
    BY <1>0, <1>7, <1>8, RacedSame DEF AtWork
  <2>3. QED
    BY <1>5, <2>1, <2>2 DEF InStep, GradeOf, Graded, Remembered
<1>11. EmbeddingOfText'
  BY <1>0, <1>2, <1>3, <1>5 DEF Inv, EmbeddingOfText, Fresh, TypeOK
<1>12. PoolCountsPromotions'
  BY <1>0, <1>1, <1>2, <1>3, <1>4 DEF Inv, PoolCountsPromotions, TypeOK
<1>13. QED
  BY <1>9, <1>10, <1>11, <1>12 DEF Inv

(* The row a promotion was read with, or the one that came before it, can  *)
(* take one more contribution.                                             *)
LEMMA StepCommit ==
    ASSUME Inv, NEW g \in Pipeline, CommitPromotion(g) \/ CommitPromotionLate(g), Observed
    PROVE  Inv'
<1> DEFINE p == pipe[g]
           s == ShapeOf[p.run]
<1>0. /\ TypeOK /\ p \in PipeRecord /\ InStep(p) /\ p.pc = "promote" /\ p.run \in Run
  BY AtWorkOn DEF Inv, CommitPromotion, CommitPromotionLate, At, AtWork
<1>1. s \in Shape /\ promoted[s] \in Nat /\ pool[s] \in PoolRow \cup {None}
  BY <1>0, ConstantsAssumption DEF TypeOK
<1>2. p.grade \in GradeValue
  BY <1>0 DEF InStep, Remembered
<1>3. promoted[s] < PoolBound /\ PoolBound \in Nat
  BY ConstantsAssumption DEF CommitPromotion, CommitPromotionLate, Promoted
<1>4. CASE p.seen = None /\ CommitPromotion(g)
  <2> DEFINE row == [count |-> 1, text |-> p.grade, embedding |-> [status |-> "pending"]]
  <2>1. promoted[s] = 0
    BY <1>1, <1>4 DEF CommitPromotion, Inv, PoolCountsPromotions
  <2>2. row \in PoolRow /\ Fresh(row) /\ row.count = promoted[s] + 1
    BY <1>2, <1>3, <2>1, FirstRow
  <2>3. Promoted(g, row, {"link"})
    BY <1>4 DEF CommitPromotion
  <2> HIDE DEF row
  <2>4. QED
    BY <1>0, <2>2, <2>3, StepPromoted
<1>5. ASSUME NEW pcs \in SUBSET {"link", "idle"}, NEW extreme \in BOOLEAN, pool[s] # None,
             Promoted(g, Contributed(pool[s], p.grade, extreme), pcs)
      PROVE  Inv'
  <2> DEFINE row == Contributed(pool[s], p.grade, extreme)
  <2>1. pool[s] \in PoolRow /\ Fresh(pool[s]) /\ pool[s].count = promoted[s]
    BY <1>1, <1>5 DEF Inv, EmbeddingOfText, PoolCountsPromotions, Fresh
  <2>2. row \in PoolRow /\ Fresh(row) /\ row.count = promoted[s] + 1
    BY <1>2, <1>3, <2>1, ContributedRow
  <2>3. Promoted(g, row, pcs)
    BY <1>5
  <2> HIDE DEF row
  <2>4. QED
    BY <1>0, <2>2, <2>3, StepPromoted
<1>6. CASE p.seen # None /\ CommitPromotion(g)
  <2>1. pool[s] = p.seen
    BY <1>6 DEF CommitPromotion
  <2>2. Promoted(g, Contributed(pool[s], p.grade, MoreExtreme(p.grade, p.seen.text)), {"link"})
    BY <1>6, <2>1 DEF CommitPromotion
  <2>3. MoreExtreme(p.grade, p.seen.text) \in BOOLEAN
    BY DEF MoreExtreme
  <2>4. QED
    BY <1>5, <1>6, <2>1, <2>2, <2>3
<1>7. CASE CommitPromotionLate(g)
  BY <1>5, <1>7 DEF CommitPromotionLate
<1>8. QED
  BY <1>4, <1>6, <1>7

(* Repairing an embedding leaves the rest of the memory as it is.          *)
LEMMA RepairedRow ==
    ASSUME NEW row \in MemoryRow, NEW e
    PROVE  [row EXCEPT !.embedding = e] =
             [result |-> row.result, grade |-> row.grade, embedding |-> e]
<1>1. row = [result |-> row.result, grade |-> row.grade, embedding |-> row.embedding]
  BY DEF MemoryRow
<1>2. QED
  BY <1>1

LEMMA StepRepair ==
    ASSUME Inv, NEW rs \in SUBSET Run, RepairEmbedding(rs), Observed
    PROVE  Inv'
<1>0. TypeOK /\ raced' \subseteq Run
  BY RacedRuns DEF Inv
<1>1. UNCHANGED <<result, grade, outcome, pool, promoted, consent, pipe>>
  BY DEF RepairEmbedding
<1>2. PICK ok \in SUBSET rs :
        memory' = [r \in Run |->
           IF r \in ok THEN [memory[r] EXCEPT !.embedding =
                               [status |-> "ready", of |-> memory[r].grade]]
           ELSE IF r \in rs THEN [memory[r] EXCEPT !.embedding = [status |-> "failed"]]
           ELSE memory[r]]
  BY DEF RepairEmbedding
<1>3. ASSUME NEW r \in rs
      PROVE  /\ memory[r] \in MemoryRow /\ memory'[r] \in MemoryRow /\ memory'[r] # None
             /\ memory'[r].result = memory[r].result /\ memory'[r].grade = memory[r].grade
             /\ memory'[r].embedding.status = "ready" =>
                  memory'[r].embedding.of = memory'[r].grade
  <2>1. memory[r] \in MemoryRow
    BY <1>0 DEF RepairEmbedding, TypeOK
  <2>2. PICK e \in {[status |-> "ready", of |-> memory[r].grade], [status |-> "failed"]} :
          memory'[r] = [memory[r] EXCEPT !.embedding = e]
    BY <1>2
  <2>3. memory'[r] = [result |-> memory[r].result, grade |-> memory[r].grade, embedding |-> e]
    BY <2>1, <2>2, RepairedRow
  <2>4. e \in Embedding /\ (e.status = "ready" => e.of = memory[r].grade)
    BY <2>1 DEF MemoryRow, Embedding
  <2>5. memory'[r] \in MemoryRow
    BY <2>1, <2>3, <2>4 DEF MemoryRow
  <2>6. QED
    BY <2>1, <2>3, <2>4, <2>5, NoneIsNoRow
<1>4. \A r \in Run \ rs : memory'[r] = memory[r]
  BY <1>2
<1>5. memory' \in [Run -> MemoryRow \cup {None}]
  <2>1. memory' = [r \in Run |-> memory'[r]]
    BY <1>2
  <2>2. \A r \in Run : memory'[r] \in MemoryRow \cup {None}
    BY <1>0, <1>3, <1>4 DEF TypeOK
  <2>3. QED
    BY <2>1, <2>2
<1>6. TypeOK'
  BY <1>0, <1>1, <1>5 DEF TypeOK
<1>7. PipesAgree'
  <2> SUFFICES ASSUME NEW h \in Pipeline PROVE InStep(pipe[h])'
    BY DEF PipesAgree
  <2>1. InStep(pipe[h])
    BY AtWorkOn
  <2>2. pipe[h].pc \in Remembered => pipe[h].run \in Run
    BY <2>1 DEF InStep, Remembered
  <2>3. AtWork(h) => (pipe[h].run \notin raced' => pipe[h].run \notin raced)
    BY RacedSame
  <2>4. QED
    BY <1>1, <1>3, <1>4, <2>1, <2>2, <2>3 DEF InStep, GradeOf, AtWork, Graded, Remembered
<1>8. EmbeddingOfText'
  BY <1>1, <1>3, <1>4 DEF Inv, EmbeddingOfText
<1>9. PoolCountsPromotions'
  BY <1>1 DEF Inv, PoolCountsPromotions
<1>10. QED
  BY <1>6, <1>7, <1>8, <1>9 DEF Inv

LEMMA StepConsent ==
    ASSUME Inv, NEW o \in Owner, NEW enabled \in BOOLEAN, SetConsent(o, enabled), Observed
    PROVE  Inv'
<1>1. TypeOK'
  BY RacedRuns DEF Inv, TypeOK, SetConsent
<1>2. PipesAgree'
  <2> SUFFICES ASSUME NEW h \in Pipeline PROVE InStep(pipe[h])'
    BY DEF PipesAgree
  <2>1. AtWork(h) => (pipe[h].run \notin raced' => pipe[h].run \notin raced)
    BY RacedSame
  <2>2. QED
    BY <2>1, AtWorkOn DEF InStep, GradeOf, AtWork, Graded, Remembered, SetConsent
<1>3. EmbeddingOfText' /\ PoolCountsPromotions'
  BY DEF Inv, EmbeddingOfText, PoolCountsPromotions, SetConsent
<1>4. QED
  BY <1>1, <1>2, <1>3 DEF Inv

LEMMA StepInv == Inv /\ [Next]_vars => Inv'
<1> SUFFICES ASSUME Inv, [Next]_vars PROVE Inv'
  OBVIOUS
<1>1. ASSUME NEW g \in Pipeline, PipelineStep(g), Observed PROVE Inv'
  BY <1>1, StepRecord, StepQuiet, StepGrade, StepMemory, StepCommit, StepLink DEF PipelineStep
<1>2. ASSUME NEW rs \in (SUBSET Run) \ {{}}, RepairEmbedding(rs), Observed PROVE Inv'
  BY <1>2, StepRepair
<1>3. ASSUME NEW o \in Owner, NEW enabled \in BOOLEAN, SetConsent(o, enabled), Observed
      PROVE  Inv'
  BY <1>3, StepConsent
<1>4. CASE UNCHANGED vars
  <2>1. TypeOK'
    BY <1>4 DEF Inv, TypeOK, vars
  <2>2. PipesAgree'
    BY <1>4 DEF Inv, PipesAgree, InStep, GradeOf, vars
  <2>3. EmbeddingOfText' /\ PoolCountsPromotions'
    BY <1>4 DEF Inv, EmbeddingOfText, PoolCountsPromotions, vars
  <2>4. QED
    BY <2>1, <2>2, <2>3 DEF Inv
<1>5. QED
  BY <1>1, <1>2, <1>3, <1>4 DEF Next

(* Inv holds in every reachable state.                                     *)
THEOREM Invariant == Spec => []Inv
<1>1. Inv /\ [Next]_vars => Inv'
  BY StepInv
<1>2. QED
  BY InitInv, <1>1, PTL DEF Spec

-----------------------------------------------------------------------------
(* What follows.                                                           *)

(* Every reachable state is type correct: a pipeline never holds a grade   *)
(* or a result it has not read, and no shape counts beyond its bound.      *)
THEOREM TypeCorrect == Spec => []TypeOK
<1>1. Inv => TypeOK
  BY DEF Inv
<1>2. QED
  BY Invariant, <1>1, PTL

(* An embedding that search uses is one of the text beside it, whatever    *)
(* regrades, repairs and promotions rewrite (write_memory,                 *)
(* repair_pending_embedding, upsert_by_shape_hash).                        *)
THEOREM EmbeddingsFresh == Spec => []EmbeddingOfText
<1>1. Inv => EmbeddingOfText
  BY DEF Inv
<1>2. QED
  BY Invariant, <1>1, PTL

(* Every promotion that was committed is counted once, the insert that     *)
(* loses its race included (upsert_by_shape_hash).                         *)
THEOREM PromotionsCounted == Spec => []PoolCountsPromotions
<1>1. Inv => PoolCountsPromotions
  BY DEF Inv
<1>2. QED
  BY Invariant, <1>1, PTL

(* A pipeline that goes through leaves the result, the grade, the memory   *)
(* and the verdict on the recommendation in agreement, whatever other      *)
(* pipelines of the run did meanwhile (grade_run, write_memory,            *)
(* _update_linked_recommendation), unless a new result was recorded while  *)
(* one was at work and one has been at work ever since (record_execution). *)
THEOREM CompletionAgrees == Spec => CompletedAgrees
<1>1. ASSUME Inv, [Next]_vars, NEW g \in Pipeline, NEW r \in Run,
             LinkOutcome(g), pipe[g].run = r, r \notin raced
      PROVE  Agree(r)'
  <2>1. pipe[g].pc = "link" /\ UNCHANGED <<result, grade, memory>>
    BY <1>1 DEF LinkOutcome, At
  <2>2. /\ result[r] # None /\ grade[r] = GradeOf(r, result[r]) /\ memory[r] # None
        /\ memory[r].result = result[r] /\ memory[r].grade = grade[r]
        /\ pipe[g].result = result[r] /\ pipe[g].grade = grade[r]
    BY <1>1, <2>1, AtWorkOn DEF InStep, Graded, Remembered
  <2>3. grade[r] # None
    BY <2>2, GradeTyped, NoneIsNoRow DEF GradeOf
  <2>4. ASSUME NEW o \in Run, RevisedBy[o] = r
        PROVE  outcome'[o] = IF RecommendationSuccess(result[r], grade[r])
                               THEN "success" ELSE "no_improvement"
    BY <1>1, <2>2, <2>4 DEF LinkOutcome
  <2>5. QED
    BY <2>1, <2>2, <2>3, <2>4 DEF Agree, GradeOf
<1>2. Inv /\ [Next]_vars =>
        [\A g \in Pipeline, r \in Run :
            LinkOutcome(g) /\ pipe[g].run = r /\ r \notin raced => Agree(r)']_vars
  BY <1>1
<1>3. QED
  BY Invariant, <1>2, PTL DEF Spec, CompletedAgrees

-----------------------------------------------------------------------------
(* The grading engine, for any prediction and any result.                  *)

Dimensions == {"duration", "storage", "rollback"}

(* The dimensions that count.                                              *)
Verified(p, x, tier) ==
    {d \in Dimensions :
        CASE d = "duration" -> DurationOk(p, x, tier)
          [] d = "storage"  -> StorageOk(p, x, tier)
          [] d = "rollback" -> RollbackOk(p, x)}

LEMMA ScoreOfVerified ==
    ASSUME NEW p, NEW x, NEW tier, NEW h
    PROVE  NumericGrade(p, x, tier, h).score = Cardinality(Verified(p, x, tier))
  BY DEF NumericGrade, Verified, Dimensions

LEMMA MoreVerified ==
    ASSUME NEW A, NEW B, A \subseteq B, B \subseteq Dimensions
    PROVE  /\ Cardinality(A) \in Nat /\ Cardinality(B) \in Nat
           /\ Cardinality(A) <= Cardinality(B)
  <1>1. IsFiniteSet(Dimensions)
    <2>1. IsFiniteSet({"duration"})  BY FS_Singleton
    <2>2. IsFiniteSet({"duration"} \cup {"storage"})  BY <2>1, FS_AddElement
    <2>3. IsFiniteSet(({"duration"} \cup {"storage"}) \cup {"rollback"})
      BY <2>2, FS_AddElement
    <2>4. Dimensions = ({"duration"} \cup {"storage"}) \cup {"rollback"}
      BY DEF Dimensions
    <2> QED  BY <2>3, <2>4
  <1>2. IsFiniteSet(B)  BY <1>1, FS_Subset
  <1> QED  BY <1>2, FS_Subset, FS_CardinalityType

LEMMA TwoAtMost ==
    ASSUME NEW A, A \subseteq Dimensions, "duration" \notin A
    PROVE  Cardinality(A) \in Nat /\ Cardinality(A) <= 2
  <1>1. A \subseteq {"storage", "rollback"}  BY DEF Dimensions
  <1>2. IsFiniteSet({"storage"}) /\ Cardinality({"storage"}) = 1
    BY FS_Singleton
  <1>3. {"storage", "rollback"} = {"storage"} \cup {"rollback"}  OBVIOUS
  <1>4. IsFiniteSet({"storage", "rollback"}) /\ Cardinality({"storage", "rollback"}) = 2
    BY <1>2, <1>3, FS_AddElement
  <1>5. Cardinality(A) <= Cardinality({"storage", "rollback"}) /\ IsFiniteSet(A)
    BY <1>1, <1>4, FS_Subset
  <1> QED  BY <1>4, <1>5, FS_CardinalityType

LEMMA CloserWithin ==
    ASSUME NEW p \in Nat, NEW q \in Nat, NEW a \in Nat, NEW band,
           band.abs \in Nat, band.pct \in Nat,
           Distance(p, a) <= Distance(q, a), WithinBand(q, a, band)
    PROVE  WithinBand(p, a, band)
  <1>1. Distance(p, a) \in Nat /\ Distance(q, a) \in Nat  BY DEF Distance
  <1>2. 100 * Distance(p, a) <= 100 * Distance(q, a)  BY <1>1
  <1>3. band.pct * a \in Nat  OBVIOUS
  <1> QED  BY <1>1, <1>2, <1>3 DEF WithinBand, MinActual

LEMMA DurationBand ==
    ASSUME NEW tier \in Tier
    PROVE  ErrorBands[tier].duration.abs \in Nat /\ ErrorBands[tier].duration.pct \in Nat
  BY DEF Tier, ErrorBands, Band

(* A duration that is predicted closer is never graded worse, whatever was *)
(* measured and whatever the tier.                                         *)
THEOREM CloserNotWorse ==
    ASSUME NEW tier \in Tier, NEW x \in ExecutionResult, NEW h \in BOOLEAN,
           NEW p \in Prediction, NEW q \in Prediction,
           p.storage = q.storage, p.risk = q.risk,
           Distance(p.duration, x.duration) <= Distance(q.duration, x.duration)
    PROVE  NumericGrade(q, x, tier, h).score <= NumericGrade(p, x, tier, h).score
  <1>1. p.duration \in Nat /\ q.duration \in Nat /\ x.duration \in Nat
    BY DEF Prediction, ExecutionResult
  <1>2. DurationOk(q, x, tier) => DurationOk(p, x, tier)
    BY <1>1, CloserWithin, DurationBand DEF DurationOk
  <1>3. StorageOk(q, x, tier) = StorageOk(p, x, tier)
    BY DEF StorageOk, StorageUnverifiable
  <1>4. RollbackOk(q, x) = RollbackOk(p, x)  BY DEF RollbackOk
  <1>5. Verified(q, x, tier) \subseteq Verified(p, x, tier)
    BY <1>2, <1>3, <1>4 DEF Verified, Dimensions
  <1>6. Verified(p, x, tier) \subseteq Dimensions  BY DEF Verified
  <1> QED  BY <1>5, <1>6, MoreVerified, ScoreOfVerified

(* A run that timed out is never graded full, nor its recommendation       *)
(* counted as a success, whatever was predicted of it.                     *)
THEOREM TimeoutNotFull ==
    ASSUME NEW tier, NEW x, NEW h, NEW p, x.timedOut
    PROVE  /\ NumericGrade(p, x, tier, h).score < 3
           /\ ~RecommendationSuccess(x, NumericGrade(p, x, tier, h))
  <1>1. Verified(p, x, tier) \subseteq Dimensions /\ "duration" \notin Verified(p, x, tier)
    BY DEF Verified, DurationOk
  <1> QED  BY <1>1, TwoAtMost, ScoreOfVerified DEF RecommendationSuccess

(* What the pool keeps is the most extreme of what it was given: the       *)
(* comparison is a strict order, and of two outcomes neither is more       *)
(* extreme only if their severity and their score are the same.            *)
THEOREM ExtremeIsOrder ==
    ASSUME NEW a \in GradeValue, NEW b \in GradeValue, NEW c \in GradeValue
    PROVE  /\ ~(MoreExtreme(a, b) /\ MoreExtreme(b, a))
           /\ MoreExtreme(a, b) /\ MoreExtreme(b, c) => MoreExtreme(a, c)
           /\ ~MoreExtreme(a, b) /\ ~MoreExtreme(b, a) =>
                 Severity(a.class) = Severity(b.class) /\ a.score = b.score
  <1>1. \A g \in {a, b, c} : Severity(g.class) \in 1 .. 3 /\ g.score \in 0 .. 3
    BY DEF GradeValue, Severity
  <1> QED  BY <1>1 DEF MoreExtreme
=============================================================================
