----------------------- MODULE PredictionPipelineProofs -----------------------
(***************************************************************************)
(* Proofs about PredictionPipeline, for any pipelines, discoveries,        *)
(* tables, migrations and memories.                                        *)
(*                                                                         *)
(* What the policy engine and the memory compute stays closed: the proofs  *)
(* only follow which snapshot it was computed from.                        *)
(***************************************************************************)
EXTENDS PredictionPipeline, FiniteSetTheorems, TLAPS

-----------------------------------------------------------------------------
(* Discovery.                                                              *)

RequestPc ==
    {"idle", "connect", "probe", "rejected", "failed", "begin", "tables", "keys",
     "indexes", "store"}

ReadRow == [tables : SUBSET Table, fks : SUBSET (Table \X Table), indexes : SUBSET Table]

RequestRow == [pc : RequestPc, retried : BOOLEAN, view : Catalogue, read : ReadRow]

\* What a request has read of the moment its transaction looks at.
ReadOf(q) ==
    LET view == request[q].view
        read == request[q].read
    IN  /\ request[q].pc \in {"idle", "connect", "probe", "begin", "tables"} => read = Nothing
        /\ request[q].pc = "tables" => view \in past
        /\ Cockroach /\ request[q].pc \in {"keys", "indexes", "store"} =>
              view \in past /\ read.tables = view.tables
        /\ Cockroach /\ request[q].pc \in {"indexes", "store"} => read.fks = view.fks
        /\ Cockroach /\ request[q].pc = "store" => read.indexes = view.indexes

DiscInv ==
    /\ catalog \in Catalogue /\ past \subseteq Catalogue /\ catalog \in past
    /\ request \in [Request -> RequestRow]
    /\ discovery \in {"none", "succeeded", "rejected", "failed"}
    /\ (discovery = "succeeded") <=> (snapshot # None)
    /\ snapshot # None => DatabaseMetadata(snapshot)
    /\ \A q \in Request : ReadOf(q)
    /\ SnapshotWasCatalogue

-----------------------------------------------------------------------------
(* The pipelines.                                                          *)

Shape ==
    pipe = [p \in Pipe |->
              [pc |-> pipe[p].pc, read |-> pipe[p].read,
               snapshot |-> pipe[p].snapshot, policy |-> pipe[p].policy,
               retrieved |-> pipe[p].retrieved, predicted |-> pipe[p].predicted,
               repaired |-> pipe[p].repaired]]

Analyzed == {"memory", "predict", "recommend", "persist"}

\* What a pipeline knows when it is past a step is of the snapshot it loaded.
KnownOf(p) ==
    /\ pipe[p].policy.decision \in PolicyDecision
    /\ pipe[p].pc \in Analyzed =>
          /\ pipe[p].snapshot \in recorded
          /\ pipe[p].policy = Analyze(Statements, Index(pipe[p].snapshot), RuleId)
    /\ pipe[p].pc \in Analyzed \ {"memory"} =>
          \E sharedRead \in BOOLEAN :
             pipe[p].retrieved
               \in Retrievals(Memories, Query(pipe[p].snapshot, pipe[p].policy), sharedRead)
    /\ pipe[p].pc \in {"recommend", "persist"} =>
          pipe[p].predicted = Predicted(pipe[p].snapshot, pipe[p].policy, pipe[p].retrieved,
                                        pipe[p].predicted.raw)

Known == \A p \in Pipe : KnownOf(p)

Recorded == snapshot \in recorded

StatusOK == status \in RunStatus /\ lost \in BOOLEAN

\* What a pipeline that has taken up the run may believe of its status: that
\* it left predicting only if it did, and for good.
Believes(p) ==
    /\ pipe[p].pc \in {"load", "failing"} \cup Analyzed => status # "pending"
    /\ pipe[p].pc \in {"failing"} \cup Analyzed /\ pipe[p].read # "predicting" =>
          status \notin {"pending", "predicting"}

Believed == \A p \in Pipe : Believes(p)

\* A pipeline that has marked the run, and will say what becomes of it.
Marked(p) == pipe[p].pc \in {"load", "failing"} \cup Analyzed

Attended == status = "predicting" /\ ~lost => \E p \in Pipe : Marked(p)

PipeInv ==
    Shape /\ Known /\ Recorded /\ StatusOK /\ Believed /\ Attended /\ PredictionOfOneSnapshot

Inv == DiscInv /\ PipeInv

-----------------------------------------------------------------------------
(* Helpers.                                                                *)

LEMMA Decides ==
    ASSUME NEW s, NEW index, NEW enabled
    PROVE  Analyze(s, index, enabled).decision \in PolicyDecision
<1>1. ASSUME NEW f PROVE Decision(f) \in PolicyDecision
  BY DEF Decision, PolicyDecision
<1>2. ASSUME NEW f PROVE Aggregate(f, enabled).decision \in PolicyDecision
  BY <1>1 DEF Aggregate
<1> QED BY <1>2 DEF Analyze

LEMMA Raw ==
    ASSUME NEW s, NEW policy, NEW retrieved, NEW raw
    PROVE  Predicted(s, policy, retrieved, raw).raw = raw
  BY DEF Predicted, AdjustConfidence

LEMMA Row ==
    ASSUME Shape, NEW p \in Pipe
    PROVE  /\ pipe = [v \in Pipe |-> pipe[v]]
           /\ pipe[p] = [pc |-> pipe[p].pc, read |-> pipe[p].read, snapshot |-> pipe[p].snapshot,
                         policy |-> pipe[p].policy, retrieved |-> pipe[p].retrieved,
                         predicted |-> pipe[p].predicted, repaired |-> pipe[p].repaired]
  BY DEF Shape

LEMMA Rebuilt ==
    ASSUME Shape, NEW p \in Pipe, pipe' = [v \in Pipe |-> pipe'[v]],
           \A v \in Pipe \ {p} : pipe'[v] = pipe[v],
           pipe'[p] = [pc |-> pipe'[p].pc, read |-> pipe'[p].read, snapshot |-> pipe'[p].snapshot,
                       policy |-> pipe'[p].policy, retrieved |-> pipe'[p].retrieved,
                       predicted |-> pipe'[p].predicted, repaired |-> pipe'[p].repaired]
    PROVE  Shape'
  BY DEF Shape

LEMMA Moved ==
    ASSUME Shape, NEW p \in Pipe, NEW pc, Move(p, pc)
    PROVE  /\ Shape'
           /\ pipe'[p].pc = pc /\ pipe'[p].snapshot = pipe[p].snapshot
           /\ pipe'[p].read = pipe[p].read
           /\ pipe'[p].policy = pipe[p].policy /\ pipe'[p].retrieved = pipe[p].retrieved
           /\ pipe'[p].predicted = pipe[p].predicted
           /\ \A v \in Pipe \ {p} : pipe'[v] = pipe[v]
<1>1. /\ pipe' = [v \in Pipe |-> pipe'[v]] /\ pipe'[p] = [pipe[p] EXCEPT !.pc = pc]
      /\ \A v \in Pipe \ {p} : pipe'[v] = pipe[v]
  BY DEF Shape, Move
<1>2. pipe'[p] = [pc |-> pc, read |-> pipe[p].read,
                  snapshot |-> pipe[p].snapshot, policy |-> pipe[p].policy,
                  retrieved |-> pipe[p].retrieved, predicted |-> pipe[p].predicted,
                  repaired |-> pipe[p].repaired]
  <2>1. \A r : r = [pc |-> r.pc, read |-> r.read,
                    snapshot |-> r.snapshot, policy |-> r.policy,
                    retrieved |-> r.retrieved, predicted |-> r.predicted,
                    repaired |-> r.repaired]
           => [r EXCEPT !.pc = pc]
                = [pc |-> pc, read |-> r.read,
                   snapshot |-> r.snapshot, policy |-> r.policy,
                   retrieved |-> r.retrieved, predicted |-> r.predicted,
                   repaired |-> r.repaired]
    OBVIOUS
  <2> QED BY <1>1, <2>1, Row
<1> QED BY <1>1, <1>2, Rebuilt

LEMMA Ended ==
    ASSUME Shape, NEW p \in Pipe, End(p)
    PROVE  /\ Shape' /\ pipe'[p] = IdlePipe
           /\ \A v \in Pipe \ {p} : pipe'[v] = pipe[v]
  BY DEF Shape, End, IdlePipe

LEMMA Failed ==
    ASSUME Shape, NEW p \in Pipe, NEW read, Fails(p, read)
    PROVE  /\ Shape'
           /\ pipe'[p].pc = "failing" /\ pipe'[p].read = read /\ pipe'[p].policy = Verdict
           /\ \A v \in Pipe \ {p} : pipe'[v] = pipe[v]
<1>1. /\ pipe' = [v \in Pipe |-> pipe'[v]]
      /\ pipe'[p] = [[IdlePipe EXCEPT !.pc = "failing"] EXCEPT !.read = read]
      /\ \A v \in Pipe \ {p} : pipe'[v] = pipe[v]
  BY DEF Shape, Fails
<1>2. [[IdlePipe EXCEPT !.pc = "failing"] EXCEPT !.read = read]
        = [pc |-> "failing", read |-> read, snapshot |-> None, policy |-> Verdict,
           retrieved |-> NoRetrieval, predicted |-> None, repaired |-> FALSE]
  <2>1. \A r : r = [pc |-> r.pc, read |-> r.read,
                     snapshot |-> r.snapshot, policy |-> r.policy,
                     retrieved |-> r.retrieved, predicted |-> r.predicted,
                     repaired |-> r.repaired]
           => [r EXCEPT !.pc = "failing"]
                = [pc |-> "failing", read |-> r.read,
                   snapshot |-> r.snapshot, policy |-> r.policy,
                   retrieved |-> r.retrieved, predicted |-> r.predicted,
                   repaired |-> r.repaired]
    OBVIOUS
  <2>2. \A r : r = [pc |-> r.pc, read |-> r.read,
                     snapshot |-> r.snapshot, policy |-> r.policy,
                     retrieved |-> r.retrieved, predicted |-> r.predicted,
                     repaired |-> r.repaired]
           => [r EXCEPT !.read = read]
                = [pc |-> r.pc, read |-> read,
                   snapshot |-> r.snapshot, policy |-> r.policy,
                   retrieved |-> r.retrieved, predicted |-> r.predicted,
                   repaired |-> r.repaired]
    OBVIOUS
  <2> DEFINE one == [IdlePipe EXCEPT !.pc = "failing"]
  <2>3. one = [pc |-> "failing", read |-> None, snapshot |-> None, policy |-> Verdict,
               retrieved |-> NoRetrieval, predicted |-> None, repaired |-> FALSE]
    BY <2>1 DEF IdlePipe
  <2> HIDE DEF one
  <2>4. [one EXCEPT !.read = read]
           = [pc |-> "failing", read |-> read, snapshot |-> None, policy |-> Verdict,
              retrieved |-> NoRetrieval, predicted |-> None, repaired |-> FALSE]
    BY <2>2, <2>3
  <2> QED BY <2>4 DEF one
<1> QED BY <1>1, <1>2, Rebuilt

(* The status only ever goes on.                                           *)
LEMMA GoesOn ==
    ASSUME StatusOK, NEW new, CanMove(new)
    PROVE  /\ new \in RunStatus /\ new # "pending"
           /\ new = "predicting" => status = "pending"
           /\ new = "awaiting_approval" => status = "predicting"
  BY DEF StatusOK, CanMove, ALLOWED_STATUS_TRANSITIONS, RunStatus

(* What a pipeline believes of the status outlasts what others do.         *)
LEMMA StillBelieves ==
    ASSUME StatusOK, NEW v \in Pipe, Believes(v), pipe'[v] = pipe[v],
           status' = status \/ CanMove(status')
    PROVE  Believes(v)'
  BY GoesOn DEF Believes

(* What a pipeline knows outlasts what others do.                          *)
LEMMA Knows ==
    ASSUME NEW v \in Pipe, KnownOf(v), pipe'[v] = pipe[v], recorded \subseteq recorded'
    PROVE  KnownOf(v)'
  BY DEF KnownOf, Query, Predicted, Index, ScaleTierOf, TotalRows

(* A step of one pipeline keeps the invariant if what the pipeline then    *)
(* knows holds, and it leaves the marked ones only with the status.        *)
LEMMA Steps ==
    ASSUME PipeInv, NEW p \in Pipe, UNCHANGED <<discoveryVars, prediction, recorded>>,
           Shape', \A v \in Pipe \ {p} : pipe'[v] = pipe[v], KnownOf(p)',
           status' = status \/ CanMove(status'), lost' \in BOOLEAN, Believes(p)', Attended'
    PROVE  PipeInv'
<1>1. Known'
  BY Knows DEF PipeInv, Known
<1>2. Recorded' /\ PredictionOfOneSnapshot'
  BY DEF PipeInv, Recorded, PredictionOfOneSnapshot, discoveryVars, Query, Predicted, Index,
         ScaleTierOf, TotalRows
<1>3. Believed'
  BY StillBelieves DEF PipeInv, Believed
<1>4. StatusOK'
  BY GoesOn DEF PipeInv, StatusOK
<1> QED BY <1>1, <1>2, <1>3, <1>4 DEF PipeInv

(* A step within the same stage of what is known.                          *)
LEMMA SameKnows ==
    ASSUME NEW p \in Pipe, KnownOf(p), recorded' = recorded,
           \/ pipe'[p].pc = pipe[p].pc
           \/ pipe[p].pc = "recommend" /\ pipe'[p].pc = "persist",
           pipe'[p].snapshot = pipe[p].snapshot, pipe'[p].policy = pipe[p].policy,
           pipe'[p].retrieved = pipe[p].retrieved, pipe'[p].predicted = pipe[p].predicted
    PROVE  KnownOf(p)'
<1>1. (Analyze(Statements, Index(pipe[p].snapshot), RuleId))'
         = Analyze(Statements, Index(pipe[p].snapshot), RuleId)
  BY DEF Index
<1>2. \A sharedRead \in BOOLEAN :
         (Retrievals(Memories, Query(pipe[p].snapshot, pipe[p].policy), sharedRead))'
            = Retrievals(Memories, Query(pipe[p].snapshot, pipe[p].policy), sharedRead)
  BY DEF Query, ScaleTierOf, TotalRows
<1>3. (Predicted(pipe[p].snapshot, pipe[p].policy, pipe[p].retrieved, pipe[p].predicted.raw))'
         = Predicted(pipe[p].snapshot, pipe[p].policy, pipe[p].retrieved, pipe[p].predicted.raw)
  BY DEF Predicted, ScaleTierOf, TotalRows
<1> QED BY <1>1, <1>2, <1>3 DEF KnownOf, Analyzed

LEMMA IdleKnows ==
    ASSUME NEW p \in Pipe, pipe[p] = IdlePipe
    PROVE  KnownOf(p)
<1>1. Verdict.decision \in PolicyDecision
  BY Decides DEF Verdict
<1> QED BY <1>1 DEF KnownOf, IdlePipe, Analyzed

(* Other pipelines attend to the run as before.                            *)
LEMMA StillAttended ==
    ASSUME PipeInv, NEW p \in Pipe, \A v \in Pipe \ {p} : pipe'[v] = pipe[v],
           status' = "predicting" => status = "predicting", lost' = lost \/ lost' = TRUE,
           Marked(p) => Marked(p)' \/ status' # "predicting" \/ lost' = TRUE
    PROVE  Attended'
<1> SUFFICES ASSUME status' = "predicting", ~lost' PROVE \E v \in Pipe : Marked(v)'
  BY DEF Attended
<1>1. PICK v \in Pipe : Marked(v)
  BY DEF PipeInv, Attended
<1>2. CASE v = p
  BY <1>1, <1>2
<1>3. CASE v # p
  BY <1>1, <1>3 DEF Marked
<1> QED BY <1>2, <1>3

LEMMA InitInv == Init => Inv
<1> SUFFICES ASSUME Init PROVE Inv
  OBVIOUS
<1> USE DEF Init, DiscoveryInit
<1>1. DiscInv
  <2>1. Nothing \in Catalogue /\ Nothing \in ReadRow
    BY DEF Nothing, Catalogue, ReadRow
  <2>2. request \in [Request -> RequestRow]
    BY <2>1 DEF RequestRow, IdleRequest, RequestPc
  <2>3. \A q \in Request : ReadOf(q)
    BY DEF ReadOf, IdleRequest
  <2> QED BY <2>2, <2>3, DiscoveryAssumption DEF DiscInv, SnapshotWasCatalogue
<1>2. Shape
  BY DEF Shape, IdlePipe
<1>3. Known
  BY IdleKnows DEF Known
<1>4. Recorded /\ StatusOK /\ Believed /\ Attended /\ PredictionOfOneSnapshot
  BY DEF Recorded, StatusOK, RunStatus, Believed, Believes, IdlePipe, Analyzed, Attended,
         PredictionOfOneSnapshot
<1> QED BY <1>1, <1>2, <1>3, <1>4 DEF Inv, PipeInv

-----------------------------------------------------------------------------
(* The pipelines' steps.                                                   *)

LEMMA StartStep ==
    ASSUME PipeInv, NEW p \in Pipe, Start(p)
    PROVE  PipeInv'
<1>1. /\ Shape /\ StatusOK /\ Attended /\ ~Marked(p)
      /\ UNCHANGED <<status, prediction, recorded, discoveryVars>>
  BY DEF PipeInv, Start, Working, Marked, Analyzed
<1>2. CASE End(p) /\ lost' = lost
  <2>1. KnownOf(p)' /\ Believes(p)'
    BY <1>1, <1>2, Ended, Decides DEF KnownOf, Believes, IdlePipe, Verdict, Analyzed
  <2>2. Attended'
    BY <1>1, <1>2, Ended, StillAttended
  <2> QED BY <1>1, <1>2, <2>1, <2>2, Ended, Steps DEF StatusOK
<1>3. CASE /\ status \in {"pending", "predicting"}
           /\ Move(p, IF status = "pending" THEN "mark" ELSE "load")
           /\ lost' = (lost /\ status = "pending")
  <2>1. PICK pc \in {"mark", "load"} :
           /\ Move(p, pc) /\ (pc = "load" <=> status = "predicting")
           /\ lost' = lost \/ (status = "predicting" /\ ~lost')
    BY <1>1, <1>3 DEF StatusOK
  <2>2. Shape' /\ pipe'[p].pc = pc /\ \A v \in Pipe \ {p} : pipe'[v] = pipe[v]
    BY <1>1, <2>1, Moved
  <2>3. KnownOf(p)'
    <3>1. pipe'[p].policy = pipe[p].policy
      BY <1>1, <2>1, Moved
    <3>2. pipe[p].policy.decision \in PolicyDecision
      BY DEF PipeInv, Known, KnownOf
    <3> QED BY <2>2, <3>1, <3>2 DEF KnownOf, Analyzed
  <2>4. Believes(p)'
    BY <1>1, <2>1, <2>2 DEF Believes, Analyzed
  <2>5. Attended'
    <3>1. CASE status = "predicting"
      BY <2>1, <2>2, <3>1 DEF Attended, Marked
    <3>2. CASE status # "predicting"
      BY <1>1, <3>2 DEF Attended
    <3> QED BY <3>1, <3>2
  <2>6. lost' \in BOOLEAN
    BY <1>3
  <2> QED BY <1>1, <2>2, <2>3, <2>4, <2>5, <2>6, Steps
<1> QED BY <1>2, <1>3 DEF Start

LEMMA MarkStep ==
    ASSUME PipeInv, NEW p \in Pipe, MarkPredicting(p)
    PROVE  PipeInv'
<1>1. Shape /\ UNCHANGED <<prediction, recorded, discoveryVars>> /\ StatusOK /\ Attended
  BY DEF PipeInv, MarkPredicting
<1>2. ~Marked(p)
  BY DEF MarkPredicting, AtStep, Marked, Analyzed
<1>3. CASE End(p) /\ UNCHANGED <<status, lost>>
  <2>1. KnownOf(p)' /\ Believes(p)'
    BY <1>1, <1>3, Ended, Decides DEF KnownOf, Believes, IdlePipe, Verdict, Analyzed
  <2>2. Attended'
    BY <1>1, <1>2, <1>3, Ended, StillAttended
  <2> QED BY <1>1, <1>3, <2>1, <2>2, Ended, Steps DEF StatusOK
<1>4. CASE /\ Move(p, "load") /\ CanMove("predicting") /\ status' = "predicting"
           /\ lost' = FALSE
  <2>1. KnownOf(p)'
    <3>1. pipe'[p].pc = "load" /\ pipe'[p].policy = pipe[p].policy
      BY <1>1, <1>4, Moved
    <3>2. pipe[p].policy.decision \in PolicyDecision
      BY DEF PipeInv, Known, KnownOf
    <3> QED BY <3>1, <3>2 DEF KnownOf, Analyzed
  <2>2. Marked(p)' /\ Believes(p)'
    BY <1>1, <1>4, Moved DEF Marked, Believes, Analyzed
  <2>3. Attended'
    BY <1>1, <1>4, <2>2 DEF Attended
  <2> QED BY <1>1, <1>4, <2>1, <2>2, <2>3, Moved, Steps
<1> QED BY <1>3, <1>4 DEF MarkPredicting

(* A marked pipeline that stays marked, and leaves the run alone.          *)
LEMMA Works ==
    ASSUME PipeInv, NEW p \in Pipe, UNCHANGED <<discoveryVars, runVars>>,
           Shape', \A v \in Pipe \ {p} : pipe'[v] = pipe[v], KnownOf(p)', Marked(p)',
           Believes(p)'
    PROVE  PipeInv'
<1>1. UNCHANGED <<status, prediction, recorded, lost>>
  BY DEF runVars
<1>2. lost' \in BOOLEAN
  BY <1>1 DEF PipeInv, StatusOK
<1>3. Attended'
  BY <1>1, StillAttended
<1> QED BY <1>1, <1>2, <1>3, Steps

(* A pipeline past the load keeps what it has read of the status.          *)
LEMMA SameBelieves ==
    ASSUME NEW p \in Pipe, Believes(p), UNCHANGED status,
           pipe[p].pc \in Analyzed, pipe'[p].pc \in {"failing"} \cup Analyzed,
           pipe'[p].read = pipe[p].read
    PROVE  Believes(p)'
  BY DEF Believes

LEMMA FailingStep ==
    ASSUME PipeInv, NEW p \in Pipe, UNCHANGED <<discoveryVars, runVars>>,
           NEW read, Fails(p, read),
           \/ pipe[p].pc \in Analyzed /\ read = pipe[p].read
           \/ pipe[p].pc \in {"load"} \cup Analyzed /\ read = status
    PROVE  PipeInv'
<1>1. Shape /\ Believes(p) /\ StatusOK /\ UNCHANGED status
  BY DEF PipeInv, Believed, runVars
<1>2. /\ Shape' /\ pipe'[p].pc = "failing" /\ pipe'[p].policy = Verdict
      /\ pipe'[p].read = read
      /\ \A v \in Pipe \ {p} : pipe'[v] = pipe[v]
  BY <1>1, Failed
<1>3. KnownOf(p)' /\ Marked(p)'
  BY <1>2, Decides DEF KnownOf, Marked, Analyzed, Verdict
<1>4. Believes(p)'
  BY <1>1, <1>2 DEF Believes
<1> QED BY <1>2, <1>3, <1>4, Works

LEMMA LoadStep ==
    ASSUME PipeInv, NEW p \in Pipe, LoadAndAnalyze(p)
    PROVE  PipeInv'
<1> DEFINE policy == Analyze(Statements, Index(snapshot), RuleId)
<1>f. CASE Fails(p, status)
  BY <1>f, FailingStep DEF LoadAndAnalyze, AtStep
<1>0. SUFFICES ASSUME pipe' = [pipe EXCEPT ![p].read = status, ![p].snapshot = snapshot,
                                           ![p].policy = policy, ![p].pc = "memory"]
               PROVE  PipeInv'
  BY <1>f DEF LoadAndAnalyze
<1>1. /\ Shape' /\ pipe'[p].pc = "memory" /\ pipe'[p].snapshot = snapshot
      /\ pipe'[p].policy = policy /\ pipe'[p].read = status
      /\ \A v \in Pipe \ {p} : pipe'[v] = pipe[v]
  <2>1. /\ pipe' = [v \in Pipe |-> pipe'[v]]
        /\ \A v \in Pipe \ {p} : pipe'[v] = pipe[v]
    BY <1>0 DEF PipeInv, Shape
  <2>3. pipe'[p] = [[[[pipe[p] EXCEPT !.read = status] EXCEPT !.snapshot = snapshot]
                       EXCEPT !.policy = policy] EXCEPT !.pc = "memory"]
    BY <1>0 DEF PipeInv, Shape
  <2>4. pipe'[p] = [pc |-> "memory", read |-> status,
                    snapshot |-> snapshot, policy |-> policy,
                    retrieved |-> pipe[p].retrieved, predicted |-> pipe[p].predicted,
                    repaired |-> pipe[p].repaired]
    BY <2>3, Row DEF PipeInv
  <2> QED BY <2>1, <2>4 DEF Shape, PipeInv
<1>2. snapshot \in recorded'
  BY DEF PipeInv, Recorded, LoadAndAnalyze, runVars
<1>3. KnownOf(p)'
  <2>1. policy.decision \in PolicyDecision
    BY Decides
  <2>2. (Analyze(Statements, Index(snapshot), RuleId))' = policy
    BY DEF LoadAndAnalyze, discoveryVars, Index
  <2>3. pipe'[p].policy = (Analyze(Statements, Index(pipe[p].snapshot), RuleId))'
    BY <1>1, <2>2
  <2> HIDE DEF policy
  <2> QED BY <1>1, <1>2, <2>1, <2>3 DEF KnownOf, Analyzed
<1>4. Marked(p)'
  BY <1>1 DEF Marked, Analyzed
<1>5. Believes(p)'
  BY <1>1 DEF PipeInv, Believed, Believes, LoadAndAnalyze, AtStep, runVars
<1> QED BY <1>1, <1>3, <1>4, <1>5, Works DEF LoadAndAnalyze

LEMMA RetrieveStep ==
    ASSUME PipeInv, NEW p \in Pipe, RetrieveMemories(p)
    PROVE  PipeInv'
<1>1. ASSUME NEW sharedRead \in BOOLEAN,
             NEW found \in Retrievals(Memories, Query(pipe[p].snapshot, pipe[p].policy),
                                      sharedRead),
             pipe' = [pipe EXCEPT ![p].retrieved = found, ![p].pc = "predict"]
      PROVE  PipeInv'
  <2>1. /\ Shape' /\ pipe'[p].pc = "predict" /\ pipe'[p].snapshot = pipe[p].snapshot
        /\ pipe'[p].policy = pipe[p].policy /\ pipe'[p].retrieved = found
        /\ pipe'[p].read = pipe[p].read
        /\ \A v \in Pipe \ {p} : pipe'[v] = pipe[v]
    <3>1. /\ pipe' = [v \in Pipe |-> pipe'[v]]
          /\ \A v \in Pipe \ {p} : pipe'[v] = pipe[v]
          /\ pipe'[p] = [[pipe[p] EXCEPT !.retrieved = found] EXCEPT !.pc = "predict"]
      BY <1>1 DEF PipeInv, Shape
    <3>2. pipe'[p] = [pc |-> "predict", read |-> pipe[p].read, snapshot |-> pipe[p].snapshot,
                      policy |-> pipe[p].policy, retrieved |-> found,
                      predicted |-> pipe[p].predicted, repaired |-> pipe[p].repaired]
      BY <3>1, Row DEF PipeInv
    <3>3. Shape'
      BY <3>1, <3>2, Rebuilt DEF PipeInv
    <3> QED BY <3>1, <3>2, <3>3
  <2>2. /\ pipe[p].policy.decision \in PolicyDecision
        /\ pipe[p].snapshot \in recorded'
        /\ pipe[p].policy = Analyze(Statements, Index(pipe[p].snapshot), RuleId)
    BY DEF PipeInv, Known, KnownOf, RetrieveMemories, AtStep, Analyzed, runVars
  <2>3. KnownOf(p)'
    <3>1. pipe'[p].policy = (Analyze(Statements, Index(pipe[p].snapshot), RuleId))'
      BY <2>1, <2>2 DEF Index
    <3>2. pipe'[p].retrieved
            \in (Retrievals(Memories, Query(pipe[p].snapshot, pipe[p].policy), sharedRead))'
      BY <1>1, <2>1 DEF Query, ScaleTierOf, TotalRows
    <3> QED BY <2>1, <2>2, <3>1, <3>2 DEF KnownOf, Analyzed
  <2>4. Marked(p)'
    BY <2>1 DEF Marked, Analyzed
  <2>5. Believes(p)'
    BY <2>1, SameBelieves DEF PipeInv, Believed, RetrieveMemories, AtStep, Analyzed, runVars
  <2> QED BY <2>1, <2>3, <2>4, <2>5, Works DEF RetrieveMemories
<1>2. pipe[p].pc \in Analyzed
  BY DEF RetrieveMemories, AtStep, Analyzed
<1> QED BY <1>1, <1>2, FailingStep DEF RetrieveMemories

(* An answer asked for once more changes nothing that was computed.        *)
LEMMA RepairStep ==
    ASSUME PipeInv, NEW p \in Pipe, UNCHANGED <<discoveryVars, runVars>>, Repair(p),
           pipe[p].pc \in Analyzed
    PROVE  PipeInv'
<1>1. CASE pipe' = [pipe EXCEPT ![p].repaired = TRUE]
  <2>1. /\ pipe' = [v \in Pipe |-> pipe'[v]]
        /\ \A v \in Pipe \ {p} : pipe'[v] = pipe[v]
        /\ pipe'[p] = [pipe[p] EXCEPT !.repaired = TRUE]
    BY <1>1 DEF PipeInv, Shape
  <2>2. pipe'[p] = [pc |-> pipe[p].pc, read |-> pipe[p].read, snapshot |-> pipe[p].snapshot,
                    policy |-> pipe[p].policy, retrieved |-> pipe[p].retrieved,
                    predicted |-> pipe[p].predicted, repaired |-> TRUE]
    BY <2>1, Row DEF PipeInv
  <2>3. Shape' /\ Marked(p)'
    BY <2>1, <2>2 DEF Shape, PipeInv, Marked
  <2>7. Believes(p)'
    BY <2>2, SameBelieves DEF PipeInv, Believed, runVars
  <2>4. KnownOf(p) /\ recorded' = recorded
    BY DEF PipeInv, Known, runVars
  <2>6. /\ pipe'[p].pc = pipe[p].pc /\ pipe'[p].snapshot = pipe[p].snapshot
        /\ pipe'[p].policy = pipe[p].policy /\ pipe'[p].retrieved = pipe[p].retrieved
        /\ pipe'[p].predicted = pipe[p].predicted
    BY <2>2
  <2>5. KnownOf(p)'
    BY <2>4, <2>6, SameKnows
  <2> QED BY <2>1, <2>3, <2>5, <2>7, Works
<1> QED BY <1>1, FailingStep DEF Repair

LEMMA PredictStep ==
    ASSUME PipeInv, NEW p \in Pipe, Predict(p)
    PROVE  PipeInv'
<1> DEFINE answer(raw) == Predicted(pipe[p].snapshot, pipe[p].policy, pipe[p].retrieved, raw)
<1>1. ASSUME NEW raw \in RawScores,
             pipe' = [pipe EXCEPT ![p].predicted = answer(raw), ![p].repaired = FALSE,
                                  ![p].pc = "recommend"]
      PROVE  PipeInv'
  <2>1. /\ Shape' /\ pipe'[p].pc = "recommend" /\ pipe'[p].snapshot = pipe[p].snapshot
        /\ pipe'[p].policy = pipe[p].policy /\ pipe'[p].retrieved = pipe[p].retrieved
        /\ pipe'[p].predicted = answer(raw) /\ pipe'[p].read = pipe[p].read
        /\ \A v \in Pipe \ {p} : pipe'[v] = pipe[v]
    <3>1. /\ pipe' = [v \in Pipe |-> pipe'[v]]
          /\ \A v \in Pipe \ {p} : pipe'[v] = pipe[v]
          /\ pipe'[p] = [[[pipe[p] EXCEPT !.predicted = answer(raw)] EXCEPT !.repaired = FALSE]
                            EXCEPT !.pc = "recommend"]
      BY <1>1 DEF PipeInv, Shape
    <3>2. pipe'[p] = [pc |-> "recommend", read |-> pipe[p].read, snapshot |-> pipe[p].snapshot,
                      policy |-> pipe[p].policy, retrieved |-> pipe[p].retrieved,
                      predicted |-> answer(raw), repaired |-> FALSE]
      BY <3>1, Row DEF PipeInv
    <3>3. Shape'
      BY <3>1, <3>2, Rebuilt DEF PipeInv
    <3> QED BY <3>1, <3>2, <3>3
  <2>2. /\ pipe[p].policy.decision \in PolicyDecision
        /\ pipe[p].snapshot \in recorded'
        /\ pipe[p].policy = Analyze(Statements, Index(pipe[p].snapshot), RuleId)
    BY DEF PipeInv, Known, KnownOf, Predict, AtStep, Analyzed, runVars
  <2>3. PICK sharedRead \in BOOLEAN :
           pipe[p].retrieved
             \in Retrievals(Memories, Query(pipe[p].snapshot, pipe[p].policy), sharedRead)
    BY DEF PipeInv, Known, KnownOf, Predict, AtStep, Analyzed
  <2>4. pipe'[p].policy = (Analyze(Statements, Index(pipe[p].snapshot), RuleId))'
    BY <2>1, <2>2 DEF Index
  <2>5. pipe'[p].retrieved
          \in (Retrievals(Memories, Query(pipe[p].snapshot, pipe[p].policy), sharedRead))'
    BY <2>1, <2>3 DEF Query, ScaleTierOf, TotalRows
  <2>6. answer(raw).raw = raw
    BY Raw
  <2>7. pipe'[p].predicted
          = (Predicted(pipe[p].snapshot, pipe[p].policy, pipe[p].retrieved, pipe[p].predicted.raw))'
    BY <2>1, <2>6 DEF Predicted, ScaleTierOf, TotalRows
  <2>8. KnownOf(p)'
    BY <2>1, <2>2, <2>4, <2>5, <2>7 DEF KnownOf, Analyzed
  <2>9. Marked(p)'
    BY <2>1 DEF Marked, Analyzed
  <2>10. Believes(p)'
    BY <2>1, SameBelieves DEF PipeInv, Believed, Predict, AtStep, Analyzed, runVars
  <2> QED BY <2>1, <2>8, <2>9, <2>10, Works DEF Predict
<1>2. pipe[p].pc \in Analyzed
  BY DEF Predict, AtStep, Analyzed
<1> QED BY <1>1, <1>2, RepairStep, FailingStep DEF Predict, BedrockFails

LEMMA RecommendStep ==
    ASSUME PipeInv, NEW p \in Pipe, Recommend(p)
    PROVE  PipeInv'
<1>1. CASE Move(p, "persist")
  <2>1. Shape /\ KnownOf(p) /\ recorded' = recorded
    BY DEF PipeInv, Known, Recommend, runVars
  <2>2. /\ Shape' /\ pipe'[p].pc = "persist" /\ pipe'[p].snapshot = pipe[p].snapshot
        /\ pipe'[p].policy = pipe[p].policy /\ pipe'[p].retrieved = pipe[p].retrieved
        /\ pipe'[p].predicted = pipe[p].predicted /\ pipe'[p].read = pipe[p].read
        /\ \A v \in Pipe \ {p} : pipe'[v] = pipe[v]
    BY <1>1, <2>1, Moved
  <2>3. KnownOf(p)'
    BY <2>1, <2>2, SameKnows DEF Recommend, AtStep
  <2>4. Marked(p)'
    BY <2>2 DEF Marked, Analyzed
  <2>5. Believes(p)'
    BY <2>2, SameBelieves DEF PipeInv, Believed, Recommend, AtStep, Analyzed, runVars
  <2> QED BY <2>2, <2>3, <2>4, <2>5, Works DEF Recommend
<1>2. pipe[p].pc \in Analyzed
  BY DEF Recommend, AtStep, Analyzed
<1> QED BY <1>1, <1>2, RepairStep, FailingStep DEF Recommend, BedrockFails

(* What is stored is of the snapshot that the pipeline loaded.             *)
LEMMA PersistStep ==
    ASSUME PipeInv, NEW p \in Pipe, PersistPrediction(p)
    PROVE  PipeInv'
<1>1. CASE Fails(p, status) /\ UNCHANGED <<status, prediction>>
  <2>1. pipe[p].pc \in Analyzed
    BY DEF PersistPrediction, AtStep, Analyzed
  <2> QED BY <1>1, <2>1, FailingStep DEF PersistPrediction, runVars
<1>2. CASE /\ CanMove("awaiting_approval") /\ status' = "awaiting_approval"
           /\ prediction' = Explained(p) /\ End(p)
  <2>1. Shape /\ KnownOf(p) /\ recorded' = recorded /\ snapshot' = snapshot /\ pipe[p].pc = "persist"
    BY DEF PipeInv, Known, PersistPrediction, discoveryVars, AtStep
  <2>2. /\ Shape' /\ pipe'[p] = IdlePipe
        /\ \A v \in Pipe \ {p} : pipe'[v] = pipe[v]
    BY <1>2, <2>1, Ended
  <2>3. KnownOf(p)'
    BY <2>2, Decides DEF KnownOf, IdlePipe, Verdict, Analyzed
  <2>4. Known'
    BY <2>1, <2>2, <2>3, Knows DEF PipeInv, Known
  <2>5. StatusOK' /\ Believed'
    <3>1. Believes(p)'
      BY <2>2 DEF Believes, IdlePipe, Analyzed
    <3>2. \A v \in Pipe \ {p} : Believes(v)'
      BY <1>2, <2>2, StillBelieves DEF PipeInv, Believed
    <3>3. StatusOK'
      BY <1>2 DEF PipeInv, StatusOK, RunStatus, PersistPrediction
    <3> QED BY <3>1, <3>2, <3>3 DEF Believed
  <2>6. PredictionOfOneSnapshot'
    <3>1. PICK sharedRead \in BOOLEAN :
             pipe[p].retrieved
               \in Retrievals(Memories, Query(pipe[p].snapshot, pipe[p].policy), sharedRead)
      BY <2>1 DEF KnownOf, Analyzed
    <3> DEFINE s == pipe[p].snapshot
    <3>2. /\ prediction'.policy = pipe[p].policy /\ prediction'.tier = ScaleTierOf(s)
          /\ prediction'.memory = pipe[p].retrieved
          /\ prediction'.confidence = pipe[p].predicted
      BY <1>2 DEF Explained
    <3>3. s \in recorded /\ pipe[p].policy = Analyze(Statements, Index(s), RuleId)
      BY <2>1 DEF KnownOf, Analyzed
    <3>4. pipe[p].predicted = Predicted(s, pipe[p].policy, pipe[p].retrieved, pipe[p].predicted.raw)
      BY <2>1 DEF KnownOf
    <3> HIDE DEF s
    <3>5. /\ prediction'.policy = Analyze(Statements, Index(s), RuleId)
          /\ prediction'.tier = ScaleTierOf(s)
          /\ prediction'.memory
               \in Retrievals(Memories, Query(s, Analyze(Statements, Index(s), RuleId)), sharedRead)
          /\ prediction'.confidence
               = Predicted(s, Analyze(Statements, Index(s), RuleId), prediction'.memory,
                           prediction'.confidence.raw)
      BY <3>1, <3>2, <3>3, <3>4 DEF s
    <3>6. s \in recorded'
      BY <2>1, <3>3
    <3> QED BY <3>5, <3>6 DEF PredictionOfOneSnapshot
  <2>7. Recorded' /\ Attended'
    BY <1>2, <2>1 DEF PipeInv, Recorded, Attended
  <2> QED BY <2>2, <2>4, <2>5, <2>6, <2>7 DEF PipeInv
<1> QED BY <1>1, <1>2 DEF PersistPrediction

LEMMA EndStep ==
    ASSUME PipeInv, NEW p \in Pipe, FailRun(p) \/ Crash(p)
    PROVE  PipeInv'
<1>1. /\ Shape' /\ pipe'[p] = IdlePipe
      /\ \A v \in Pipe \ {p} : pipe'[v] = pipe[v]
  BY Ended DEF PipeInv, FailRun, Crash
<1>2. KnownOf(p)' /\ Believes(p)'
  BY <1>1, Decides DEF KnownOf, Believes, IdlePipe, Verdict, Analyzed
<1>3. UNCHANGED <<discoveryVars, prediction, recorded>> /\ StatusOK /\ Attended
  BY DEF PipeInv, FailRun, Crash
<1>4. CASE lost' = TRUE /\ status' = status
  <2>1. Attended'
    BY <1>4 DEF Attended
  <2> QED BY <1>1, <1>2, <1>3, <1>4, <2>1, Steps
<1>5. CASE /\ FailRun(p) /\ lost' = lost
           /\ status' = (IF pipe[p].read = "predicting" /\ CanMove("failed")
                           THEN "failed" ELSE status)
  <2>1. status' = status \/ CanMove(status')
    BY <1>5
  <2>2. status' # "predicting"
    <3>1. CASE pipe[p].read = "predicting"
      <4>1. status = "predicting" => CanMove("failed")
        BY <1>3 DEF CanMove, ALLOWED_STATUS_TRANSITIONS, RunStatus
      <4> QED BY <1>5, <3>1, <4>1
    <3>2. CASE pipe[p].read # "predicting"
      BY <1>5, <3>2 DEF PipeInv, Believed, Believes, FailRun, AtStep
    <3> QED BY <3>1, <3>2
  <2>3. Attended' /\ lost' \in BOOLEAN
    BY <1>3, <1>5, <2>2 DEF Attended, StatusOK
  <2> QED BY <1>1, <1>2, <1>3, <2>1, <2>3, Steps
<1> QED BY <1>4, <1>5 DEF FailRun, Crash

LEMMA HandStep ==
    ASSUME PipeInv, NEW new \in RunStatus, UpdateStatus(new)
    PROVE  PipeInv'
<1>1. Shape' /\ Recorded'
  BY DEF PipeInv, UpdateStatus, Shape, Recorded, discoveryVars
<1>2. Known'
  BY Knows DEF PipeInv, Known, UpdateStatus
<1>3. PredictionOfOneSnapshot'
  BY DEF PipeInv, PredictionOfOneSnapshot, UpdateStatus, Query, Predicted, Index, ScaleTierOf,
         TotalRows
<1>4. StatusOK' /\ Believed' /\ Attended'
  <2>1. StatusOK /\ Believed /\ pipe' = pipe
    BY DEF PipeInv, UpdateStatus
  <2>2. Believed'
    BY <2>1, StillBelieves DEF Believed, UpdateStatus
  <2>3. StatusOK' /\ Attended'
    BY <2>1 DEF UpdateStatus, StatusOK, Attended
  <2> QED BY <2>2, <2>3
<1> QED BY <1>1, <1>2, <1>3, <1>4 DEF PipeInv

(* Discovery changes nothing of the pipelines but what is on record.       *)
LEMMA Beside ==
    ASSUME PipeInv, recorded' = recorded \cup {snapshot'},
           UNCHANGED <<status, prediction, lost, pipe, starts>>
    PROVE  PipeInv'
<1>1. Shape' /\ Recorded' /\ StatusOK' /\ Believed' /\ Attended'
  BY DEF PipeInv, Shape, Recorded, StatusOK, Believed, Believes, Attended, Marked
<1>2. Known'
  BY Knows DEF PipeInv, Known
<1>3. PredictionOfOneSnapshot'
  BY DEF PipeInv, PredictionOfOneSnapshot, Query, Predicted, Index, ScaleTierOf, TotalRows
<1> QED BY <1>1, <1>2, <1>3 DEF PipeInv

LEMMA PipeStep ==
    ASSUME PipeInv, PipeNext
    PROVE  PipeInv' /\ UNCHANGED discoveryVars
<1>1. PipeInv'
  BY StartStep, MarkStep, LoadStep, RetrieveStep, PredictStep, RecommendStep, PersistStep,
     EndStep, HandStep DEF PipeNext
<1>2. UNCHANGED discoveryVars
  BY DEF PipeNext, UpdateStatus, Start, MarkPredicting, LoadAndAnalyze, RetrieveMemories, Predict,
         Recommend, PersistPrediction, FailRun, Crash
<1> QED BY <1>1, <1>2

-----------------------------------------------------------------------------
(* The steps of discovery.                                                 *)

LEMMA NothingRead == Nothing \in Catalogue /\ Nothing \in ReadRow
  BY DEF Nothing, Catalogue, ReadRow

LEMMA IdleFits ==
    ASSUME NEW pc \in RequestPc
    PROVE  [IdleRequest EXCEPT !.pc = pc] \in RequestRow
  BY NothingRead DEF IdleRequest, RequestRow

(* A step of a request that stores nothing.                                *)
LEMMA RequestStep ==
    ASSUME DiscInv, NEW q \in Request, request' = [v \in Request |-> request'[v]],
           request'[q] \in RequestRow, \A v \in Request \ {q} : request'[v] = request[v],
           ReadOf(q)', UNCHANGED <<catalog, past, snapshot, discovery>>
    PROVE  DiscInv'
<1>1. request' \in [Request -> RequestRow]
  BY DEF DiscInv
<1>2. \A v \in Request : ReadOf(v)'
  BY DEF DiscInv, ReadOf
<1> QED BY <1>1, <1>2 DEF DiscInv, SnapshotWasCatalogue, CatalogueOf, DatabaseMetadata

LEMMA ChangeStep ==
    ASSUME DiscInv, ChangeCatalogue \/ ChangeGrants
    PROVE  DiscInv'
<1>1. CASE ChangeGrants
  BY <1>1 DEF ChangeGrants, DiscInv, ReadOf, SnapshotWasCatalogue, DatabaseMetadata, CatalogueOf
<1>2. CASE ChangeCatalogue
  <2>1. /\ past' = past \cup {catalog'}
        /\ UNCHANGED <<snapshot, discovery, request>>
    BY <1>2 DEF ChangeCatalogue
  <2>2. catalog' \in Catalogue
    <3>1. /\ catalog = [tables |-> catalog.tables, fks |-> catalog.fks,
                        indexes |-> catalog.indexes]
          /\ catalog.tables \in SUBSET Table
          /\ catalog.fks \subseteq catalog.tables \X catalog.tables
          /\ catalog.indexes \subseteq catalog.tables
      BY DEF DiscInv, Catalogue
    <3>2. PICK t \in Table :
             \/ catalog' = [catalog EXCEPT !.tables = catalog.tables \cup {t}]
             \/ catalog' = [tables  |-> catalog.tables \ {t},
                            fks     |-> {k \in catalog.fks : t \notin {k[1], k[2]}},
                            indexes |-> catalog.indexes \ {t}]
             \/ \E u \in catalog.tables \ {t} :
                   t \in catalog.tables /\ catalog' = [catalog EXCEPT !.fks = catalog.fks \cup {<<t, u>>}]
             \/ t \in catalog.tables /\ catalog' = [catalog EXCEPT !.indexes = catalog.indexes \cup {t}]
      BY <1>2 DEF ChangeCatalogue
    <3>3. CASE catalog' = [catalog EXCEPT !.tables = catalog.tables \cup {t}]
      BY <3>1, <3>3 DEF Catalogue
    <3>4. CASE catalog' = [tables  |-> catalog.tables \ {t},
                           fks     |-> {k \in catalog.fks : t \notin {k[1], k[2]}},
                           indexes |-> catalog.indexes \ {t}]
      BY <3>1, <3>4 DEF Catalogue
    <3>5. ASSUME NEW u \in catalog.tables \ {t}, t \in catalog.tables,
                 catalog' = [catalog EXCEPT !.fks = catalog.fks \cup {<<t, u>>}]
          PROVE  catalog' \in Catalogue
      BY <3>1, <3>5 DEF Catalogue
    <3>6. CASE /\ t \in catalog.tables
               /\ catalog' = [catalog EXCEPT !.indexes = catalog.indexes \cup {t}]
      BY <3>1, <3>6 DEF Catalogue
    <3> QED BY <3>2, <3>3, <3>4, <3>5, <3>6
  <2>3. \A q \in Request : ReadOf(q)'
    BY <2>1 DEF DiscInv, ReadOf
  <2> QED BY <2>1, <2>2, <2>3 DEF DiscInv, SnapshotWasCatalogue, DatabaseMetadata, CatalogueOf
<1> QED BY <1>1, <1>2

LEMMA RowOf ==
    ASSUME DiscInv, NEW q \in Request
    PROVE  request[q] = [pc |-> request[q].pc, retried |-> request[q].retried,
                         view |-> request[q].view, read |-> request[q].read]
  BY DEF DiscInv, RequestRow

LEMMA TypesOf ==
    ASSUME DiscInv, NEW q \in Request
    PROVE  /\ request[q].pc \in RequestPc /\ request[q].retried \in BOOLEAN
           /\ request[q].view \in Catalogue /\ request[q].read \in ReadRow
           /\ ReadOf(q)
  BY DEF DiscInv, RequestRow

LEMMA AtPc ==
    ASSUME NEW r, NEW to,
           r = [pc |-> r.pc, retried |-> r.retried, view |-> r.view, read |-> r.read]
    PROVE  [r EXCEPT !.pc = to]
              = [pc |-> to, retried |-> r.retried, view |-> r.view, read |-> r.read]
  OBVIOUS

LEMMA Reading ==
    ASSUME NEW r, NEW x,
           r = [pc |-> r.pc, retried |-> r.retried, view |-> r.view, read |-> r.read]
    PROVE  [r EXCEPT !.read = x]
              = [pc |-> r.pc, retried |-> r.retried, view |-> r.view, read |-> x]
  OBVIOUS

LEMMA Went ==
    ASSUME DiscInv, NEW q \in Request, NEW to \in RequestPc,
           request' = [request EXCEPT ![q].pc = to]
    PROVE  /\ request' = [v \in Request |-> request'[v]]
           /\ request'[q] = [pc |-> to, retried |-> request[q].retried,
                             view |-> request[q].view, read |-> request[q].read]
           /\ request'[q] \in RequestRow
           /\ \A v \in Request \ {q} : request'[v] = request[v]
<1>1. /\ request' = [v \in Request |-> request'[v]]
      /\ request'[q] = [request[q] EXCEPT !.pc = to]
      /\ \A v \in Request \ {q} : request'[v] = request[v]
  BY DEF DiscInv
<1>2. request'[q] = [pc |-> to, retried |-> request[q].retried, view |-> request[q].view,
                     read |-> request[q].read]
  BY <1>1, RowOf, AtPc
<1>3. request'[q] \in RequestRow
  BY <1>2, TypesOf DEF RequestRow
<1> QED BY <1>1, <1>2, <1>3

LEMMA BeginStep ==
    ASSUME DiscInv, NEW q \in Request, BeginDiscovery(q)
    PROVE  DiscInv'
<1>1. /\ UNCHANGED <<catalog, past, snapshot, discovery>>
      /\ request[q].pc = "idle" /\ request' = [request EXCEPT ![q].pc = "connect"]
  BY DEF BeginDiscovery, At
<1>2. "connect" \in RequestPc
  BY DEF RequestPc
<1>3. ReadOf(q)'
  BY <1>1, <1>2, TypesOf, Went DEF ReadOf
<1> QED BY <1>1, <1>2, <1>3, Went, RequestStep

LEMMA ConnectStep ==
    ASSUME DiscInv, NEW q \in Request, Connect(q)
    PROVE  DiscInv'
<1>1. /\ UNCHANGED <<catalog, past, snapshot, discovery>> /\ request[q].pc = "connect"
      /\ request' = [v \in Request |-> request'[v]]
      /\ \A v \in Request \ {q} : request'[v] = request[v]
  BY DEF Connect, At, DiscInv
<1>2. \/ request'[q] = [request[q] EXCEPT !.retried = TRUE]
      \/ request'[q] = [IdleRequest EXCEPT !.pc = "probe"]
  BY DEF Connect, DiscInv
<1>3. CASE request'[q] = [request[q] EXCEPT !.retried = TRUE]
  <2>1. request'[q] = [pc |-> "connect", retried |-> TRUE, view |-> request[q].view,
                       read |-> request[q].read]
    BY <1>1, <1>3, RowOf
  <2>2. request'[q] \in RequestRow /\ ReadOf(q)'
    BY <1>1, <2>1, TypesOf DEF RequestRow, RequestPc, ReadOf
  <2> QED BY <1>1, <2>2, RequestStep
<1>4. CASE request'[q] = [IdleRequest EXCEPT !.pc = "probe"]
  <2>1. request'[q] \in RequestRow
    BY <1>4, IdleFits DEF RequestPc
  <2>2. ReadOf(q)'
    BY <1>4 DEF IdleRequest, ReadOf
  <2> QED BY <1>1, <2>1, <2>2, RequestStep
<1> QED BY <1>2, <1>3, <1>4

LEMMA ProbeStep ==
    ASSUME DiscInv, NEW q \in Request, Probe(q)
    PROVE  DiscInv'
<1>1. /\ UNCHANGED <<catalog, past, snapshot, discovery>> /\ request[q].pc = "probe"
  BY DEF Probe, At, Goto
<1>2. PICK pc \in {"rejected", "begin"} : request' = [request EXCEPT ![q].pc = pc]
  BY DEF Probe, Goto
<1>3. pc \in RequestPc
  BY DEF RequestPc
<1>4. ReadOf(q)'
  BY <1>1, <1>2, <1>3, TypesOf, Went DEF ReadOf
<1> QED BY <1>1, <1>2, <1>3, <1>4, Went, RequestStep

LEMMA BeginCollectStep ==
    ASSUME DiscInv, NEW q \in Request, BeginCollect(q)
    PROVE  DiscInv'
<1>1. /\ UNCHANGED <<catalog, past, snapshot, discovery>> /\ request[q].pc = "begin"
      /\ request' = [v \in Request |-> request'[v]]
      /\ \A v \in Request \ {q} : request'[v] = request[v]
      /\ request'[q] = [[request[q] EXCEPT !.pc = "tables"] EXCEPT !.view = catalog]
  BY DEF BeginCollect, At, DiscInv
<1>2. request'[q] = [pc |-> "tables", retried |-> request[q].retried, view |-> catalog,
                     read |-> request[q].read]
  BY <1>1, RowOf
<1>3. catalog \in Catalogue /\ catalog \in past
  BY DEF DiscInv
<1>4. request'[q] \in RequestRow /\ ReadOf(q)'
  BY <1>1, <1>2, <1>3, TypesOf DEF RequestRow, RequestPc, ReadOf
<1> QED BY <1>1, <1>4, RequestStep

LEMMA TablesStep ==
    ASSUME DiscInv, NEW q \in Request, FetchTables(q)
    PROVE  DiscInv'
<1> DEFINE seen == Seen(q).tables
           to == IF seen = {} THEN "store" ELSE "keys"
<1>1. /\ UNCHANGED <<catalog, past, snapshot, discovery>> /\ request[q].pc = "tables"
      /\ request' = [v \in Request |-> request'[v]]
      /\ \A v \in Request \ {q} : request'[v] = request[v]
      /\ request'[q] = [[request[q] EXCEPT !.read = [request[q].read EXCEPT !.tables = seen]]
                           EXCEPT !.pc = to]
  BY DEF FetchTables, At, DiscInv
<1>2. request[q].read = [tables |-> {}, fks |-> {}, indexes |-> {}] /\ request[q].view \in past
  BY <1>1, TypesOf DEF ReadOf, Nothing
<1>3. request'[q] = [pc |-> to, retried |-> request[q].retried, view |-> request[q].view,
                     read |-> [tables |-> seen, fks |-> {}, indexes |-> {}]]
  <2> DEFINE read == [request[q].read EXCEPT !.tables = seen]
             r == [request[q] EXCEPT !.read = read]
  <2>1. request'[q] = [r EXCEPT !.pc = to]
    BY <1>1
  <2> HIDE DEF seen, to
  <2>2. read = [tables |-> seen, fks |-> {}, indexes |-> {}]
    BY <1>2
  <2> HIDE DEF read
  <2>3. r = [pc |-> request[q].pc, retried |-> request[q].retried, view |-> request[q].view,
             read |-> read]
    BY RowOf, Reading
  <2> HIDE DEF r
  <2> QED BY <2>1, <2>2, <2>3, AtPc
<1>4. seen \in SUBSET Table /\ (Cockroach => seen = request[q].view.tables)
  BY TypesOf DEF Seen, DiscInv, Catalogue
<1>5. Cockroach /\ seen = {} => request[q].view.fks = {} /\ request[q].view.indexes = {}
  BY <1>4, TypesOf DEF Catalogue
<1>6. to \in {"store", "keys"} /\ (to = "store" => seen = {})
  OBVIOUS
<1> HIDE DEF seen, to
<1>7. request'[q] \in RequestRow
  BY <1>3, <1>4, <1>6, TypesOf DEF RequestRow, RequestPc, ReadRow
<1>8. ReadOf(q)'
  BY <1>1, <1>2, <1>3, <1>4, <1>5, <1>6 DEF ReadOf
<1> QED BY <1>1, <1>7, <1>8, RequestStep

LEMMA KeysStep ==
    ASSUME DiscInv, NEW q \in Request, FetchForeignKeys(q)
    PROVE  DiscInv'
<1> DEFINE seen == Seen(q).fks
           read == request[q].read
<1>1. /\ UNCHANGED <<catalog, past, snapshot, discovery>> /\ request[q].pc = "keys"
      /\ request' = [v \in Request |-> request'[v]]
      /\ \A v \in Request \ {q} : request'[v] = request[v]
      /\ request'[q] = [[request[q] EXCEPT !.read = [request[q].read EXCEPT !.fks = seen]]
                           EXCEPT !.pc = "indexes"]
  BY DEF FetchForeignKeys, At, DiscInv
<1>2. /\ read.tables \in SUBSET Table /\ read.indexes \in SUBSET Table
      /\ [read EXCEPT !.fks = seen] = [tables |-> read.tables, fks |-> seen,
                                       indexes |-> read.indexes]
  BY TypesOf DEF ReadRow
<1>3. request'[q] = [pc |-> "indexes", retried |-> request[q].retried, view |-> request[q].view,
                     read |-> [tables |-> read.tables, fks |-> seen, indexes |-> read.indexes]]
  BY <1>1, <1>2, RowOf
<1>4. seen \in SUBSET (Table \X Table) /\ (Cockroach => seen = request[q].view.fks)
  BY TypesOf DEF Seen, DiscInv, Catalogue
<1>5. Cockroach => request[q].view \in past /\ read.tables = request[q].view.tables
  BY <1>1, TypesOf DEF ReadOf
<1> HIDE DEF seen, read
<1>6. request'[q] \in RequestRow
  BY <1>2, <1>3, <1>4, TypesOf DEF RequestRow, RequestPc, ReadRow
<1>7. /\ request'[q].pc = "indexes" /\ request'[q].view = request[q].view
      /\ request'[q].read.tables = read.tables /\ request'[q].read.fks = seen
  BY <1>3
<1>8. ReadOf(q)'
  BY <1>1, <1>7, <1>4, <1>5 DEF ReadOf
<1> QED BY <1>1, <1>6, <1>8, RequestStep

LEMMA IndexesStep ==
    ASSUME DiscInv, NEW q \in Request, FetchIndexes(q)
    PROVE  DiscInv'
<1> DEFINE seen == Seen(q).indexes
           read == request[q].read
<1>1. /\ UNCHANGED <<catalog, past, snapshot, discovery>> /\ request[q].pc = "indexes"
      /\ request' = [v \in Request |-> request'[v]]
      /\ \A v \in Request \ {q} : request'[v] = request[v]
      /\ request'[q] = [[request[q] EXCEPT !.read = [request[q].read EXCEPT !.indexes = seen]]
                           EXCEPT !.pc = "store"]
  BY DEF FetchIndexes, At, DiscInv
<1>2. /\ read.tables \in SUBSET Table /\ read.fks \in SUBSET (Table \X Table)
      /\ [read EXCEPT !.indexes = seen] = [tables |-> read.tables, fks |-> read.fks,
                                           indexes |-> seen]
  BY TypesOf DEF ReadRow
<1>3. request'[q] = [pc |-> "store", retried |-> request[q].retried, view |-> request[q].view,
                     read |-> [tables |-> read.tables, fks |-> read.fks, indexes |-> seen]]
  BY <1>1, <1>2, RowOf
<1>4. seen \in SUBSET Table /\ (Cockroach => seen = request[q].view.indexes)
  BY TypesOf DEF Seen, DiscInv, Catalogue
<1>5. Cockroach => /\ request[q].view \in past /\ read.tables = request[q].view.tables
                   /\ read.fks = request[q].view.fks
  BY <1>1, TypesOf DEF ReadOf
<1> HIDE DEF seen, read
<1>6. request'[q] \in RequestRow
  BY <1>2, <1>3, <1>4, TypesOf DEF RequestRow, RequestPc, ReadRow
<1>7. /\ request'[q].pc = "store" /\ request'[q].view = request[q].view
      /\ request'[q].read.tables = read.tables /\ request'[q].read.fks = read.fks /\ request'[q].read.indexes = seen
  BY <1>3
<1>8. ReadOf(q)'
  BY <1>1, <1>7, <1>4, <1>5 DEF ReadOf
<1> QED BY <1>1, <1>6, <1>8, RequestStep

LEMMA FailStep ==
    ASSUME DiscInv, NEW q \in Request, Fail(q)
    PROVE  DiscInv'
<1>1. /\ UNCHANGED <<catalog, past, snapshot, discovery>>
      /\ request' = [v \in Request |-> request'[v]]
      /\ \A v \in Request \ {q} : request'[v] = request[v]
      /\ request'[q] = [IdleRequest EXCEPT !.pc = "failed"]
  BY DEF Fail, DiscInv
<1>2. request'[q] \in RequestRow
  BY <1>1, IdleFits DEF RequestPc
<1>3. ReadOf(q)'
  BY <1>1 DEF IdleRequest, ReadOf
<1> QED BY <1>1, <1>2, <1>3, RequestStep

(* What hangs on the tables that were read is typed, and of a catalogue    *)
(* that was read whole it is that catalogue.                               *)
LEMMA Built ==
    ASSUME NEW read \in ReadRow, NEW counted \in Counted
    PROVE  LET s == BuildMetadata(read, counted)
           IN  /\ s # None /\ DatabaseMetadata(s)
               /\ read \in Catalogue => CatalogueOf(s) = read
<1> DEFINE rows == [t \in read.tables |-> IF t \in counted THEN RowsOf[t] ELSE Unknown]
           s == BuildMetadata(read, counted)
<1>1. s = [tables |-> read.tables, fks |-> {k \in read.fks : k[1] \in read.tables},
           indexes |-> read.indexes \cap read.tables, rows |-> rows]
  BY DEF BuildMetadata
<1>2. /\ read.tables \subseteq Table /\ read.fks \subseteq Table \X Table
      /\ read.indexes \subseteq Table
      /\ read = [tables |-> read.tables, fks |-> read.fks, indexes |-> read.indexes]
  BY DEF ReadRow
<1>3. rows \in [read.tables -> Nat \cup {Unknown}]
  BY <1>2, DiscoveryAssumption
<1> HIDE DEF rows, s
<1>4. s # None
  BY <1>1 DEF None
<1>5. DatabaseMetadata(s)
  BY <1>1, <1>2, <1>3 DEF DatabaseMetadata
<1>6. ASSUME read \in Catalogue PROVE CatalogueOf(s) = read
  <2>1. read.fks \subseteq read.tables \X read.tables /\ read.indexes \subseteq read.tables
    BY <1>6 DEF Catalogue
  <2>2. s.tables = read.tables /\ s.fks = read.fks /\ s.indexes = read.indexes
    BY <1>1, <2>1
  <2> QED BY <1>2, <2>2 DEF CatalogueOf
<1> QED BY <1>4, <1>5, <1>6 DEF s

LEMMA SuccessStep ==
    ASSUME DiscInv, NEW q \in Request, PersistSuccess(q)
    PROVE  DiscInv'
<1> DEFINE read == request[q].read
<1>1. /\ UNCHANGED <<catalog, past>> /\ request[q].pc = "store" /\ discovery' = "succeeded"
      /\ request' = [request EXCEPT ![q] = IdleRequest]
  BY DEF PersistSuccess, At
<1>2. PICK counted \in Counted : snapshot' = BuildMetadata(read, counted)
  BY DEF PersistSuccess
<1>3. /\ snapshot' # None /\ DatabaseMetadata(snapshot')
      /\ read \in Catalogue => CatalogueOf(snapshot') = read
  BY <1>2, TypesOf, Built
<1>4. Cockroach => read \in past /\ read \in Catalogue
  <2>1. Cockroach => /\ request[q].view \in past /\ read.tables = request[q].view.tables
                     /\ read.fks = request[q].view.fks /\ read.indexes = request[q].view.indexes
    BY <1>1, TypesOf DEF ReadOf
  <2>2. /\ read = [tables |-> read.tables, fks |-> read.fks, indexes |-> read.indexes]
        /\ request[q].view = [tables |-> request[q].view.tables, fks |-> request[q].view.fks,
                              indexes |-> request[q].view.indexes]
    BY TypesOf DEF ReadRow, Catalogue
  <2> QED BY <2>1, <2>2, TypesOf
<1>5. IdleRequest \in RequestRow
  BY NothingRead DEF IdleRequest, RequestRow, RequestPc
<1>6. request' \in [Request -> RequestRow] /\ \A v \in Request : ReadOf(v)'
  BY <1>1, <1>5 DEF DiscInv, ReadOf, IdleRequest
<1>7. SnapshotWasCatalogue'
  BY <1>1, <1>3, <1>4 DEF SnapshotWasCatalogue, CatalogueOf
<1>8. DatabaseMetadata(snapshot)'
  BY <1>3 DEF DatabaseMetadata
<1> QED BY <1>1, <1>3, <1>6, <1>7, <1>8 DEF DiscInv

LEMMA FailureStep ==
    ASSUME DiscInv, NEW q \in Request, PersistFailure(q)
    PROVE  DiscInv'
<1>1. /\ UNCHANGED <<catalog, past>> /\ snapshot' = None /\ discovery' \in {"rejected", "failed"}
      /\ request' = [request EXCEPT ![q] = IdleRequest]
  BY DEF PersistFailure
<1>2. IdleRequest \in RequestRow
  BY NothingRead DEF IdleRequest, RequestRow, RequestPc
<1>3. request' \in [Request -> RequestRow] /\ \A v \in Request : ReadOf(v)'
  BY <1>1, <1>2 DEF DiscInv, ReadOf, IdleRequest
<1> QED BY <1>1, <1>3 DEF DiscInv, SnapshotWasCatalogue

LEMMA DiscoveryStep == DiscInv /\ DiscoveryNext => DiscInv'
  BY ChangeStep, BeginStep, ConnectStep, ProbeStep, BeginCollectStep, TablesStep, KeysStep,
     IndexesStep, SuccessStep, FailStep, FailureStep DEF DiscoveryNext

-----------------------------------------------------------------------------
(* The theorems.                                                           *)

LEMMA SameDiscovery == DiscInv /\ UNCHANGED discoveryVars => DiscInv'
<1> SUFFICES ASSUME DiscInv, UNCHANGED discoveryVars PROVE DiscInv'
  OBVIOUS
<1>1. UNCHANGED <<catalog, past, snapshot, discovery, request>>
  BY DEF discoveryVars
<1> QED BY <1>1 DEF DiscInv, ReadOf, SnapshotWasCatalogue, CatalogueOf, DatabaseMetadata

LEMMA Inductive == Inv /\ [Next]_vars => Inv'
<1> SUFFICES ASSUME Inv, [Next]_vars PROVE Inv'
  OBVIOUS
<1>1. CASE PipeNext
  BY <1>1, PipeStep, SameDiscovery DEF Inv
<1>2. CASE /\ DiscoveryNext /\ recorded' = recorded \cup {snapshot'}
           /\ UNCHANGED <<status, prediction, lost, pipe, starts>>
  BY <1>2, DiscoveryStep, Beside DEF Inv
<1>3. CASE UNCHANGED vars
  <2>1. UNCHANGED discoveryVars /\ UNCHANGED <<status, prediction, recorded, lost, pipe, starts>>
    BY <1>3 DEF vars, runVars
  <2>2. recorded' = recorded \cup {snapshot'}
    BY <2>1 DEF Inv, PipeInv, Recorded, discoveryVars
  <2> QED BY <2>1, <2>2, SameDiscovery, Beside DEF Inv
<1> QED BY <1>1, <1>2, <1>3 DEF Next

LEMMA Invariant == Spec => []Inv
  BY InitInv, Inductive, PTL DEF Spec

(* The run, its snapshot and its pipelines keep their types, whatever      *)
(* PATCH makes of the status: a run has a snapshot exactly when its        *)
(* discovery succeeded, and a prediction holds a verdict.                  *)
THEOREM TypeCorrect == Spec => []TypeOK
<1>1. Inv => TypeOK
  <2> SUFFICES ASSUME Inv PROVE TypeOK
    OBVIOUS
  <2>1. prediction # None => prediction.policy.decision \in PolicyDecision
    BY Decides DEF Inv, PipeInv, PredictionOfOneSnapshot
  <2> QED BY <2>1 DEF Inv, DiscInv, PipeInv, StatusOK, Known, KnownOf, TypeOK
<1> QED BY <1>1, Invariant, PTL

(* What is stored of a CockroachDB schema is a catalogue it really had.    *)
THEOREM SnapshotIsReal == Spec => []SnapshotWasCatalogue
<1>1. Inv => SnapshotWasCatalogue
  BY DEF Inv, DiscInv
<1> QED BY <1>1, Invariant, PTL

(* Verdict, tier, memories and confidence stored together are of one       *)
(* snapshot that was on the run.                                           *)
THEOREM OneSnapshot == Spec => []PredictionOfOneSnapshot
<1>1. Inv => PredictionOfOneSnapshot
  BY DEF Inv, PipeInv
<1> QED BY <1>1, Invariant, PTL

(* A run is left predicting with nobody at work on it only if, since a     *)
(* pipeline last took it up, one ended without a word or PATCH moved the   *)
(* run there.                                                              *)
THEOREM NoOrphan == Spec => []NoOrphanPredicting
<1>1. Inv => NoOrphanPredicting
  BY DEF Inv, PipeInv, Attended, NoOrphanPredicting, Marked, Analyzed, Working
<1> QED BY <1>1, Invariant, PTL

-----------------------------------------------------------------------------
(* The policy engine, for any statements, tables and settings.            *)

(* What is found in statements that parse, but for the key.                *)
Found(statements, index) ==
    LET found   == UNION {AnalyzeStatement(s, index) : s \in statements}
        missing == {FindingFromRule("missing_referenced_table", t, index) :
                        t \in MissingReferencedTables(statements, index)}
    IN  found \cup missing

Some(S) == \E s \in S : s.kind # "empty"

IsFinding(f, index) == \E r, t : f = FindingFromRule(r, t, index)

(* G says at least what F says: of which table does not matter.            *)
Covers(F, G) ==
    \A f \in F : \E g \in G :
        g.rule = f.rule /\ g.decision = f.decision /\ (f.severity = "high" => g.severity = "high")

Ranks(one, two) ==
    /\ Rank[one.decision] <= Rank[two.decision]
    /\ Rank[one.compat] <= Rank[two.compat]
    /\ one.review => two.review
    /\ one.expand => two.expand

LEMMA OfRule ==
    ASSUME NEW r, NEW t, NEW index
    PROVE  /\ FindingFromRule(r, t, index).rule = r
           /\ FindingFromRule(r, t, index).decision = Rules[r].decision
  BY DEF FindingFromRule

LEMMA OfKey ==
    ASSUME NEW t, NEW index
    PROVE  FindingFromRule("primary_key_change", t, index).severity = "high"
  <1>1. Rules["primary_key_change"].severity = "high"  BY DEF Rules, Rule
  <1> QED  BY <1>1 DEF FindingFromRule, EscalateSeverity

LEMMA AnalyzeAll ==
    ASSUME NEW S, NEW index, NEW enabled
    PROVE  /\ Parses(S) /\ Some(S) =>
                Analyze(S, index, enabled) = Aggregate(Findings(S, index), enabled)
           /\ ~(Parses(S) /\ Some(S)) =>
                Analyze(S, index, enabled) = Aggregate(ParseFailure(index), enabled)
  BY DEF Analyze, Some

LEMMA DecisionGrows ==
    ASSUME NEW F, NEW G, Covers(F, G)
    PROVE  Rank[Decision(F)] <= Rank[Decision(G)]
  BY DEF Covers, Decision, Rank

LEMMA CompatibilityGrows ==
    ASSUME NEW F, NEW G, Covers(F, G)
    PROVE  Rank[Compatibility(F)] <= Rank[Compatibility(G)]
  BY DEF Covers, Compatibility, Rank

LEMMA AggregateGrows ==
    ASSUME NEW F, NEW G, NEW enabled, Covers(F, G)
    PROVE  Ranks(Aggregate(F, enabled), Aggregate(G, enabled))
  <1> DEFINE A == {f \in F : f.rule \in enabled \cup {"parse_failure"}}
             B == {f \in G : f.rule \in enabled \cup {"parse_failure"}}
  <1>1. Covers(A, B)  BY DEF Covers
  <1> HIDE DEF A, B
  <1>2. /\ Rank[Decision(A)] <= Rank[Decision(B)]
        /\ Rank[Compatibility(A)] <= Rank[Compatibility(B)]
    BY <1>1, DecisionGrows, CompatibilityGrows
  <1>3. (\E f \in A : Rules[f.rule].review \/ f.severity = "high")
            => \E f \in B : Rules[f.rule].review \/ f.severity = "high"
    BY <1>1 DEF Covers
  <1>4. (\E f \in A : Rules[f.rule].expand) => \E f \in B : Rules[f.rule].expand
    BY <1>1 DEF Covers
  <1> QED  BY <1>2, <1>3, <1>4 DEF Ranks, Aggregate, A, B

LEMMA FoundGrows ==
    ASSUME NEW S, NEW T, NEW index, S \subseteq T
    PROVE  Found(S, index) \subseteq Found(T, index)
  BY DEF Found, MissingReferencedTables

LEMMA FoundOfRules ==
    ASSUME NEW S, NEW index, NEW f \in Findings(S, index)
    PROVE  IsFinding(f, index)
  BY DEF Findings, Found, CrdbPrimaryKey, AnalyzeStatement, IsFinding

LEMMA KeyFound ==
    ASSUME NEW S, NEW index, \E s \in S : s.crdbKey
    PROVE  \E f \in Findings(S, index) : f.rule = "primary_key_change"
  <1>1. CASE \E f \in Found(S, index) : f.rule = "primary_key_change"
    BY <1>1 DEF Findings, Found
  <1>2. CASE ~\E f \in Found(S, index) : f.rule = "primary_key_change"
    <2>1. CASE \E s \in S : s.kind = "alter_table"
      BY <1>2, <2>1, OfRule DEF Findings, Found, CrdbPrimaryKey
    <2>2. CASE ~\E s \in S : s.kind = "alter_table"
      BY <1>2, <2>2, OfRule DEF Findings, Found, CrdbPrimaryKey
    <2> QED  BY <2>1, <2>2
  <1> QED  BY <1>1, <1>2

LEMMA KeySays ==
    ASSUME NEW f, NEW index, IsFinding(f, index), f.rule = "primary_key_change"
    PROVE  f.severity = "high" /\ f.decision = Rules["primary_key_change"].decision
  BY OfRule, OfKey DEF IsFinding

LEMMA FindingsGrows ==
    ASSUME NEW S, NEW T, NEW index, S \subseteq T
    PROVE  Covers(Findings(S, index), Findings(T, index))
  <1> SUFFICES ASSUME NEW f \in Findings(S, index)
               PROVE  \E g \in Findings(T, index) :
                          /\ g.rule = f.rule /\ g.decision = f.decision
                          /\ f.severity = "high" => g.severity = "high"
    BY DEF Covers
  <1>1. CASE f \in Found(S, index)
    BY <1>1, FoundGrows DEF Findings, Found
  <1>2. CASE f \in CrdbPrimaryKey(S, Found(S, index), index)
    <2>1. f.rule = "primary_key_change" /\ \E s \in T : s.crdbKey
      BY <1>2, OfRule DEF CrdbPrimaryKey
    <2>2. PICK g \in Findings(T, index) : g.rule = "primary_key_change"
      BY <2>1, KeyFound
    <2>3. IsFinding(f, index) /\ IsFinding(g, index)
      BY FoundOfRules
    <2> QED  BY <2>1, <2>2, <2>3, KeySays
  <1> QED  BY <1>1, <1>2 DEF Findings, Found

LEMMA EmptyFound ==
    ASSUME NEW S, NEW s \in S, s.kind = "empty", NEW T, S \subseteq T, NEW index
    PROVE  FindingFromRule("parse_failure", s.table, index) \in Findings(T, index)
<1>1. StatementRules(s) = {"parse_failure"}
  BY DEF StatementRules
<1>2. FindingFromRule("parse_failure", s.table, index) \in AnalyzeStatement(s, index)
  BY <1>1 DEF AnalyzeStatement
<1> QED BY <1>2 DEF Findings

LEMMA FailureIn ==
    ASSUME NEW F, NEW t, NEW index, NEW enabled,
           FindingFromRule("parse_failure", t, index) \in F
    PROVE  LET v == Aggregate(F, enabled) IN v.decision = "block" /\ v.review
<1>1. /\ Rules["parse_failure"].decision = "block" /\ Rules["parse_failure"].review
  BY DEF Rules, Rule
<1> QED BY <1>1, OfRule DEF Aggregate, Decision

(* What does not parse, or is empty, is blocked and needs a review.        *)
LEMMA FailureBlocks ==
    ASSUME NEW index, NEW enabled
    PROVE  LET v == Aggregate(ParseFailure(index), enabled)
           IN  v.decision = "block" /\ v.review /\ v.compat = "medium" /\ ~v.expand
<1> DEFINE f == FindingFromRule("parse_failure", "(none)", index)
           A == {g \in ParseFailure(index) : g.rule \in enabled \cup {"parse_failure"}}
<1>1. f.rule = "parse_failure" /\ f.decision = Rules["parse_failure"].decision
  BY OfRule
<1>2. A = {f}
  BY <1>1 DEF ParseFailure
<1>3. /\ Rules["parse_failure"].decision = "block" /\ Rules["parse_failure"].review
      /\ Rules["parse_failure"].compat = "medium" /\ ~Rules["parse_failure"].expand
  BY DEF Rules, Rule
<1> HIDE DEF f, A
<1>4. Decision(A) = "block" /\ Compatibility(A) = "medium"
  BY <1>1, <1>2, <1>3 DEF Decision, Compatibility
<1>5. (\E g \in A : Rules[g.rule].review) /\ ~\E g \in A : Rules[g.rule].expand
  BY <1>1, <1>2, <1>3
<1> QED BY <1>4, <1>5 DEF Aggregate, A

(* Adding statements to a migration never softens the decision on it, nor  *)
(* the need of a review.  If they parse, nothing is softened; if one does  *)
(* not, what was found in the others is lost (PolicyEngine.analyze), and   *)
(* with it what they say of compatibility and of expand and contract.      *)
THEOREM StricterWithMore ==
    ASSUME NEW S, NEW T, NEW index, NEW enabled, S \subseteq T, S # {}
    PROVE  LET one == Analyze(S, index, enabled)
               two == Analyze(T, index, enabled)
           IN  /\ Rank[one.decision] <= Rank[two.decision]
               /\ one.review => two.review
               /\ Parses(T) => Ranks(one, two) \/ ~Some(S)
               /\ ~Parses(T) => two.compat = "medium" /\ ~two.expand
<1> DEFINE one == Analyze(S, index, enabled)
           two == Analyze(T, index, enabled)
<1>1. CASE Parses(T) /\ Some(T) /\ Some(S)
  <2>1. Parses(S)
    BY <1>1 DEF Parses
  <2>2. Ranks(one, two)
    BY <1>1, <2>1, AnalyzeAll, FindingsGrows, AggregateGrows
  <2> HIDE DEF one, two
  <2>3. QED
    BY <1>1, <2>2 DEF Ranks, one, two
<1>2. CASE ~(Parses(T) /\ Some(T))
  <2>1. two = Aggregate(ParseFailure(index), enabled)
    BY <1>2, AnalyzeAll
  <2>2. two.decision = "block" /\ two.review /\ two.compat = "medium" /\ ~two.expand
    BY <2>1, FailureBlocks
  <2>3. one.decision \in PolicyDecision
    BY Decides
  <2>4. Rank[one.decision] <= Rank[two.decision]
    BY <2>2, <2>3 DEF Rank, PolicyDecision
  <2>5. Some(S) => Some(T)
    BY DEF Some
  <2> HIDE DEF one, two
  <2> QED BY <1>2, <2>2, <2>4, <2>5 DEF one, two
<1>3. CASE Parses(T) /\ Some(T) /\ ~Some(S)
  <2>1. PICK s \in S : s.kind = "empty"
    BY <1>3 DEF Some
  <2>2. FindingFromRule("parse_failure", s.table, index) \in Findings(T, index)
    BY <2>1, EmptyFound
  <2>3. two.decision = "block" /\ two.review
    BY <1>3, <2>2, AnalyzeAll, FailureIn
  <2>4. one.decision \in PolicyDecision
    BY Decides
  <2>5. Rank[one.decision] <= Rank[two.decision]
    BY <2>3, <2>4 DEF Rank, PolicyDecision
  <2> HIDE DEF one, two
  <2> QED BY <1>3, <2>3, <2>5 DEF one, two
<1> QED BY <1>1, <1>2, <1>3

(* A migration that does not parse, or holds an empty statement, or none   *)
(* at all, is blocked, whatever the settings.                              *)
THEOREM UnparsedBlocked ==
    ASSUME NEW S, NEW index, NEW enabled,
           S = {} \/ \E s \in S : s.kind \in {"unparsed", "empty"}
    PROVE  Analyze(S, index, enabled).decision = "block"
<1>1. CASE ~(Parses(S) /\ Some(S))
  BY <1>1, AnalyzeAll, FailureBlocks
<1>2. CASE Parses(S) /\ Some(S)
  <2>1. PICK s \in S : s.kind = "empty"
    BY <1>2 DEF Some, Parses
  <2> QED BY <1>2, <2>1, EmptyFound, FailureIn, AnalyzeAll
<1> QED BY <1>1, <1>2

(* A bigger table never lowers the severity of a finding.                  *)
THEOREM BiggerNotMilder ==
    ASSUME NEW base \in Severity, NEW m \in Int, NEW n \in Int, m <= n
    PROVE  Rank[EscalateSeverity(base, m)] <= Rank[EscalateSeverity(base, n)]
  BY DEF Severity, EscalateSeverity, HighRows, MediumRows, Rank

-----------------------------------------------------------------------------
(* What the memory gives a prompt.                                         *)

(* What a prompt for a run of owner may be given.                          *)
MayBeShown(m, owner) ==
    /\ m.ready
    /\ m.source \in {"owner", "corpus", "cross_customer"}
    /\ m.source = "owner" => m.owner = owner

LEMMA CandidatesScoped ==
    ASSUME NEW memories, NEW sources, NEW owner,
           sources \subseteq {"owner", "corpus", "cross_customer"},
           NEW C \in VectorCandidates(memories, sources, owner)
    PROVE  C \subseteq memories /\ \A m \in C : MayBeShown(m, owner)
  BY DEF VectorCandidates, Largest, kSubset, MayBeShown

LEMMA AtMost ==
    ASSUME NEW m \in Nat, NEW n \in Nat
    PROVE  Min({m, n}) \in Nat /\ Min({m, n}) <= m
  <1>1. \E x \in {m, n} : \A y \in {m, n} : x =< y
    <2>1. CASE m <= n  BY <2>1
    <2>2. CASE n <= m  BY <2>2
    <2> QED  BY <2>1, <2>2
  <1> QED  BY <1>1 DEF Min

LEMMA RankedKeeps ==
    ASSUME NEW candidates, NEW query, NEW found \in Ranked(candidates, query)
    PROVE  \E kept \in SUBSET candidates :
               /\ found = Attribution(candidates, kept)
               /\ Cardinality(kept) = Min({FinalLimit, Cardinality(candidates)})
  BY DEF Ranked, Largest, kSubset

(* A retrieval gives the prompt at most FinalLimit memories, all of them   *)
(* embedded, and of the owner or of a pool that is shared; nothing is both *)
(* given and truncated.                                                    *)
THEOREM RetrievalScoped ==
    ASSUME NEW memories, IsFiniteSet(memories), NEW query, NEW sharedRead,
           NEW found \in Retrievals(memories, query, sharedRead)
    PROVE  /\ found.kept \cup found.truncated \subseteq memories
           /\ found.kept \cap found.truncated = {}
           /\ Cardinality(found.kept) <= FinalLimit
           /\ \A m \in found.kept \cup found.truncated : MayBeShown(m, query.owner)
  <1> DEFINE Own == VectorCandidates(memories, {"owner", "corpus"}, query.owner)
             Shared == IF sharedRead
                       THEN VectorCandidates(memories, {"cross_customer"}, query.owner)
                       ELSE {{}}
  <1>0. found \in UNION {Ranked(own \cup shared, query) : own \in Own, shared \in Shared}
    BY Z3 DEF Retrievals
  <1>1. PICK own \in Own, shared \in Shared : found \in Ranked(own \cup shared, query)
    <2> HIDE DEF Own, Shared
    <2> QED  BY <1>0
  <1> DEFINE C == own \cup shared
  <1>2. own \subseteq memories /\ \A m \in own : MayBeShown(m, query.owner)
    BY CandidatesScoped
  <1>3. shared \subseteq memories /\ \A m \in shared : MayBeShown(m, query.owner)
    <2>1. CASE sharedRead
      <3>1. shared \in VectorCandidates(memories, {"cross_customer"}, query.owner)
        BY <1>1, <2>1
      <3> QED  BY <3>1, CandidatesScoped
    <2>2. CASE ~sharedRead
      BY <1>1, <2>2
    <2> QED  BY <2>1, <2>2
  <1>4. C \subseteq memories /\ \A m \in C : MayBeShown(m, query.owner)
    BY <1>2, <1>3
  <1>5. PICK kept \in SUBSET C : /\ found = Attribution(C, kept)
                                 /\ Cardinality(kept) = Min({FinalLimit, Cardinality(C)})
    BY <1>1, RankedKeeps
  <1> HIDE DEF C
  <1>6. found.kept = kept /\ found.truncated = C \ kept
    BY <1>5 DEF Attribution
  <1>7. Cardinality(kept) <= FinalLimit
    <2>1. IsFiniteSet(C)  BY <1>4, FS_Subset
    <2>2. Cardinality(C) \in Nat /\ FinalLimit \in Nat
      BY <2>1, FS_CardinalityType DEF FinalLimit
    <2> QED  BY <1>5, <2>2, AtMost
  <1> QED  BY <1>4, <1>5, <1>6, <1>7

(* What is stored as the ground of a prediction is of the run's owner or   *)
(* of a shared pool: no other customer's memory reaches a prompt, however  *)
(* pipelines and discoveries interleave.                                   *)
PromptIsOwned ==
    prediction # None =>
        /\ Cardinality(prediction.memory.kept) <= FinalLimit
        /\ \A m \in prediction.memory.kept \cup prediction.memory.truncated :
              m \in Memories /\ MayBeShown(m, RunOwner)

THEOREM PromptScoped == ASSUME IsFiniteSet(Memories) PROVE Spec => []PromptIsOwned
<1>1. PredictionOfOneSnapshot => PromptIsOwned
  <2> SUFFICES ASSUME PredictionOfOneSnapshot, prediction # None
               PROVE  /\ Cardinality(prediction.memory.kept) <= FinalLimit
                      /\ \A m \in prediction.memory.kept \cup prediction.memory.truncated :
                            m \in Memories /\ MayBeShown(m, RunOwner)
    BY DEF PromptIsOwned
  <2>1. PICK s \in recorded, sharedRead \in BOOLEAN :
            prediction.memory
              \in Retrievals(Memories, Query(s, Analyze(Statements, Index(s), RuleId)), sharedRead)
    BY DEF PredictionOfOneSnapshot
  <2>2. Query(s, Analyze(Statements, Index(s), RuleId)).owner = RunOwner
    BY DEF Query
  <2> QED  BY <2>1, <2>2, RetrievalScoped
<1> QED BY <1>1, OneSnapshot, PTL
=============================================================================
