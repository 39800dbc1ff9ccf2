------------------------ MODULE ShadowClusterProofs ------------------------
(***************************************************************************)
(* Proofs about ShadowCluster, for every set of runs, clusters, invocations*)
(* and owners, and every value of the two caps.                            *)
(***************************************************************************)
EXTENDS ShadowCluster, FiniteSetTheorems, TLAPS

USE DEF rowVars, vars

-----------------------------------------------------------------------------
(* Type correctness.  TypeOK is not inductive alone: a process that is not *)
(* idle must also have a run to work on.                                   *)

Assigned ==
    /\ \A p \in Invocation : prov[p].pc # "idle" => prov[p].run \in Run
    /\ sweep.pc \in {"destroy", "finish", "fail"} => sweep.row \in Run

TypeInv == TypeOK /\ Assigned

LEMMA InitTypeInv == Init => TypeInv
  BY DEF Init, TypeInv, TypeOK, Assigned, IdleProv, IdleTear, IdleSweep, RowStatus,
         Deadline, ClusterRef, Cluster, ProvRecord, TearRecord, SweepRecord

(* What transition() leaves in a row is a row status.                      *)
LEMMA AfterType ==
  ASSUME TypeOK, NEW r \in Run, NEW to \in Status
  PROVE  After(r, to) \in RowStatus
  BY DEF TypeOK, After, RowStatus

LEMMA DestroyType ==
  ASSUME TypeOK, NEW c \in ClusterRef, DestroyCluster(c)
  PROVE  cluster' \in [ClusterId -> Cluster]
  BY DEF TypeOK, DestroyCluster, Cluster

LEMMA ProvType ==
  ASSUME TypeInv, NEW p \in Invocation, ProvStep(p)
  PROVE  TypeInv'
<1> USE DEF TypeInv, TypeOK, Assigned, ProvRecord
<1>1. ASSUME NEW r \in Run, ProvBegin(p, r)
      PROVE  TypeInv'
  BY <1>1 DEF ProvBegin, IdleProv, ClusterRef, RowStatus
<1>2. CASE ProvReuse(p)
  <2>1. clusterId[prov[p].run] \in ClusterRef /\ status[prov[p].run] \in RowStatus
    BY <1>2 DEF ProvReuse
  <2>2. prov' \in [Invocation -> ProvRecord]
    BY <1>2, <2>1 DEF ProvReuse
  <2>3. QED
    BY <1>2, <2>2 DEF ProvReuse
<1>3. CASE ProvAdmit(p)
  <2>1. "provisioning" \in RowStatus /\ "lifetime" \in Deadline
    BY DEF RowStatus, Status, Active, Working, Deadline
  <2>2. prov' \in [Invocation -> ProvRecord]
    BY ZenonT(30), <1>3, <2>1 DEF ProvAdmit
  <2>3. status' \in [Run -> RowStatus] /\ expiry' \in [Run -> Deadline]
    BY <1>3, <2>1 DEF ProvAdmit
  <2>4. QED
    BY <1>3, <2>2, <2>3 DEF ProvAdmit
<1>4. CASE ProvCreate(p)
  <2>1. PICK c \in ClusterId :
           /\ cluster' = [cluster EXCEPT ![c] = [state |-> "live", run |-> prov[p].run, old |-> FALSE]]
           /\ \/ prov' = [prov EXCEPT ![p].pc = "identify", ![p].cid = c]
              \/ UNCHANGED prov
    BY <1>4 DEF ProvCreate
  <2>2. cluster' \in [ClusterId -> Cluster]
    BY <1>4, <2>1 DEF ProvCreate, Cluster
  <2>3. prov' \in [Invocation -> ProvRecord]
    BY <2>1 DEF ClusterRef
  <2>4. QED
    BY <1>4, <2>1, <2>2, <2>3 DEF ProvCreate
<1>5. CASE ProvResume(p)
  BY <1>5 DEF ProvResume
<1>6. CASE ProvIdentify(p)
  BY ZenonT(30), <1>6 DEF ProvIdentify
<1>7. CASE ProvReady(p)
  BY <1>7 DEF ProvReady
<1>8. CASE ProvPublish(p)
  <2>1. After(prov[p].run, "ready") \in RowStatus
    BY <1>8, AfterType DEF ProvPublish, Status, Active, Working
  <2>2. QED
    BY <1>8, <2>1 DEF ProvPublish, IdleProv, ClusterRef, RowStatus
<1>9. CASE ProvStop(p)
  BY <1>9 DEF ProvStop, IdleProv, ClusterRef, RowStatus
<1>10. QED
  BY <1>1, <1>2, <1>3, <1>4, <1>5, <1>6, <1>7, <1>8, <1>9 DEF ProvStep

LEMMA HandlerType ==
  ASSUME TypeInv, NEW r \in Run, HandlerStep(r)
  PROVE  TypeInv'
<1> USE DEF TypeInv, TypeOK, Assigned
<1>1. {"seeding", "migrating", "holding"} \subseteq RowStatus /\ "hold" \in Deadline
  BY DEF RowStatus, Status, Active, Working, Deadline
<1>2. CASE LoadSchema(r)
  BY <1>1, <1>2 DEF LoadSchema, Handler
<1>3. CASE ExecuteMigration(r)
  BY <1>1, <1>3 DEF ExecuteMigration, Handler
<1>4. CASE StartHold(r)
  BY <1>1, <1>4 DEF StartHold, Handler
<1>5. QED
  BY <1>2, <1>3, <1>4 DEF HandlerStep

LEMMA TearType ==
  ASSUME TypeInv, NEW r \in Run, TearStep(r)
  PROVE  TypeInv'
<1> USE DEF TypeInv, TypeOK, Assigned
<1>1. {"destroying", "destroyed", "failed"} \subseteq Status
  BY DEF Status, Active, Terminal
<1>2. CASE TearRead(r)
  BY <1>2 DEF TearRead, TearRecord
<1>3. CASE TearClaim(r)
  <2>1. After(r, "destroying") \in RowStatus
    BY <1>1, AfterType
  <2>2. QED
    BY <1>3, <2>1 DEF TearClaim, TearRecord, ClusterRef
<1>4. CASE TearDestroy(r)
  <2>1. tear[r].cid \in ClusterRef
    BY DEF TearRecord
  <2>2. cluster' \in [ClusterId -> Cluster]
    BY <1>4, <2>1, DestroyType DEF TearDestroy
  <2>3. tear' \in [Run -> TearRecord]
    BY <1>4 DEF TearDestroy, TearRecord
  <2>4. QED
    BY <1>4, <2>2, <2>3 DEF TearDestroy
<1>5. CASE TearFinish(r)
  <2>1. After(r, "destroyed") \in RowStatus
    BY <1>1, AfterType
  <2>2. QED
    BY SMTT(30), <1>5, <2>1 DEF TearFinish, TearRecord, IdleTear, ClusterRef
<1>6. CASE TearFail(r)
  <2>1. After(r, "failed") \in RowStatus
    BY <1>1, AfterType
  <2>2. QED
    BY <1>6, <2>1 DEF TearFail, TearRecord, IdleTear, ClusterRef
<1>7. CASE TearStop(r)
  BY <1>7 DEF TearStop, TearRecord, IdleTear, ClusterRef
<1>8. QED
  BY <1>2, <1>3, <1>4, <1>5, <1>6, <1>7 DEF TearStep

LEMMA IdleSweepType == IdleSweep \in SweepRecord
  BY DEF IdleSweep, SweepRecord, RowStatus, ClusterRef

LEMMA RowDoneType ==
  ASSUME sweep \in SweepRecord, NEW rolled \in BOOLEAN, RowDone(rolled)
  PROVE  sweep' \in SweepRecord /\ sweep'.pc = "rows"
<1> DEFINE seen == [sweep.seen EXCEPT ![sweep.row] = "absent"]
           cid == [sweep.cid EXCEPT ![sweep.row] = NoCluster]
           back == sweep.rolled \/ rolled
<1>1. sweep' = [sweep EXCEPT !.pc = "rows", !.todo = @ \ {sweep.row}, !.row = NoRun,
                             !.covered = FALSE, !.blind = FALSE, !.rolled = back,
                             !.seen = seen, !.cid = cid]
  BY DEF RowDone, SweepRecord
<1>2. seen \in [Run -> RowStatus] /\ cid \in [Run -> ClusterRef] /\ back \in BOOLEAN
  BY DEF SweepRecord, RowStatus, ClusterRef
<1> HIDE DEF seen, cid, back
<1>3. sweep.todo \ {sweep.row} \in SUBSET Run
  BY DEF SweepRecord
<1> QED BY <1>1, <1>2, <1>3 DEF SweepRecord

LEMMA SweepType ==
  ASSUME TypeInv, SweepStep
  PROVE  TypeInv'
<1> USE DEF TypeInv, TypeOK, Assigned
<1>1. {"destroying", "destroyed", "failed"} \subseteq Status /\ Status \subseteq RowStatus
  BY DEF Status, Active, Terminal, RowStatus
<1>2. CASE SweepList
  BY <1>2 DEF SweepList, IdleSweep, SweepRecord, ExpiredRows, ActiveRows, RowStatus, ClusterRef
<1>3. ASSUME NEW r \in Run, SweepClaim(r)
      PROVE  TypeInv'
  <2>1. After(r, "destroying") \in RowStatus
    BY <1>1, AfterType
  <2>2. CASE SweepClaimed(r)
    BY <1>3, <2>2 DEF SweepClaim, SweepClaimed, SweepRecord
  <2>3. CASE SweepOverwrite(r)
    BY <1>1, <1>3, <2>3 DEF SweepClaim, SweepOverwrite, SweepRecord
  <2>4. CASE SweepReread(r)
    BY ZenonT(30), <1>3, <2>1, <2>4 DEF SweepClaim, SweepReread, SweepRecord
  <2>5. QED
    BY <1>3, <2>2, <2>3, <2>4 DEF SweepClaim
<1>4. CASE SweepDestroy
  <2>1. sweep.cid[sweep.row] \in ClusterRef
    BY <1>4 DEF SweepDestroy, SweepRecord
  <2>2. cluster' \in [ClusterId -> Cluster]
    BY <1>4, <2>1, DestroyType DEF SweepDestroy
  <2>3. QED
    BY <1>4, <2>2 DEF SweepDestroy, SweepRecord
<1>5. CASE SweepFinish
  <2>1. After(sweep.row, "destroyed") \in RowStatus
    BY <1>1, <1>5, AfterType DEF SweepFinish
  <2>2. status' \in [Run -> RowStatus]
    BY <1>1, <1>5, <2>1 DEF SweepFinish
  <2>3. sweep' \in SweepRecord /\ sweep'.pc = "rows"
    BY <1>5, RowDoneType DEF SweepFinish
  <2>4. QED
    BY <1>5, <2>2, <2>3 DEF SweepFinish
<1>6. CASE SweepFail
  <2>1. After(sweep.row, "failed") \in RowStatus
    BY <1>1, <1>6, AfterType DEF SweepFail
  <2>2. sweep' \in SweepRecord /\ sweep'.pc = "rows"
    BY <1>6, RowDoneType DEF SweepFail
  <2>3. QED
    BY <1>6, <2>1, <2>2 DEF SweepFail
<1>7. CASE SweepProvider
  BY <1>7 DEF SweepProvider, IdleSweep, SweepRecord, RowStatus, ClusterRef
<1>8. ASSUME NEW c \in ClusterId, SweepReap(c)
      PROVE  TypeInv'
  <2>1. cluster' \in [ClusterId -> Cluster]
    BY <1>8, DestroyType DEF SweepReap, ClusterRef
  <2>2. QED
    BY <1>8, <2>1 DEF SweepReap, SweepRecord
<1>9. CASE SweepEnd
  BY <1>9, IdleSweepType DEF SweepEnd, IdleSweep
<1>10. CASE SweepStop
  BY <1>10, IdleSweepType DEF SweepStop, IdleSweep
<1>11. QED
  BY <1>2, <1>3, <1>4, <1>5, <1>6, <1>7, <1>8, <1>9, <1>10 DEF SweepStep

LEMMA NextTypeInv == TypeInv /\ [Next]_vars => TypeInv'
<1> SUFFICES ASSUME TypeInv, [Next]_vars PROVE TypeInv'
  OBVIOUS
<1>1. ASSUME NEW r \in Run, NEW d \in Deadline, Lapse(r, d)
      PROVE  TypeInv'
  BY <1>1 DEF Lapse, TypeInv, TypeOK, Assigned
<1>2. ASSUME NEW c \in ClusterId, Age(c)
      PROVE  TypeInv'
  BY <1>2 DEF Age, TypeInv, TypeOK, Assigned, Cluster
<1>3. CASE UNCHANGED vars
  BY <1>3 DEF TypeInv, TypeOK, Assigned
<1>4. QED
  BY <1>1, <1>2, <1>3, ProvType, HandlerType, TearType, SweepType DEF Next, TimeStep

(* Every variable keeps its type, and every busy process has its run.      *)
THEOREM Typing == Spec => []TypeInv
  BY InitTypeInv, NextTypeInv, PTL DEF Spec

(* Type correctness alone: the type invariant the runs check.              *)
THEOREM TypeCorrect == Spec => []TypeOK
<1>1. TypeInv => TypeOK
  BY DEF TypeInv
<1>2. QED
  BY <1>1, Typing, PTL

-----------------------------------------------------------------------------
(* How a status changes.  Every step leaves all rows alone, or writes one: *)
(* an admission, a change validated against the row (AfterMove), or one of *)
(* the two writes of the sweeper that may act on a stale row.              *)

Ending == {"destroying"} \cup Terminal

Admitted(r) ==
    /\ status[r] = "absent" /\ UnderCaps(r)
    /\ status' = [status EXCEPT ![r] = "provisioning"]

AfterMove(r) ==
    \E to \in Status \ {"provisioning"} :
        status' = [status EXCEPT ![r] = After(r, to)]

SweepWrite(r) ==
    /\ r \in sweep.todo
    /\ \E to \in {"destroying", "destroyed"} : status' = [status EXCEPT ![r] = to]

(* The rows the sweeper has listed exist, and it works on one of those.    *)
Listed ==
    /\ \A r \in sweep.todo : status[r] # "absent"
    /\ sweep.pc \in {"destroy", "finish", "fail"} => sweep.row \in sweep.todo

LEMMA StatusForm ==
  ASSUME TypeInv, Listed, [Next]_vars
  PROVE  \/ UNCHANGED status
         \/ \E r \in Run : Admitted(r) \/ AfterMove(r) \/ SweepWrite(r)
<1> USE DEF TypeInv, TypeOK
<1>0. {"ready", "seeding", "migrating", "holding", "destroying", "destroyed", "failed"}
         \subseteq Status \ {"provisioning"}
  BY DEF Status, Active, Working, Terminal
<1>1. ASSUME NEW p \in Invocation, ProvStep(p)
      PROVE  UNCHANGED status \/ \E r \in Run : Admitted(r) \/ AfterMove(r)
  <2>1. CASE ProvAdmit(p)
    BY <2>1 DEF ProvAdmit, Admitted, Assigned
  <2>2. CASE ProvPublish(p)
    BY <1>0, <2>2 DEF ProvPublish, AfterMove, Assigned
  <2>3. QED
    BY <1>1, <2>1, <2>2 DEF ProvStep, ProvBegin, ProvReuse, ProvCreate, ProvResume, ProvIdentify,
              ProvReady, ProvStop
<1>2. ASSUME NEW r \in Run, HandlerStep(r)
      PROVE  AfterMove(r)
  <2>1. \E to \in {"seeding", "migrating", "holding"} :
           CanMove(status[r], to) /\ status' = [status EXCEPT ![r] = to]
    BY <1>2 DEF HandlerStep, LoadSchema, ExecuteMigration, StartHold, Handler
  <2>2. QED
    BY <1>0, <2>1 DEF AfterMove, After
<1>3. ASSUME NEW r \in Run, TearStep(r)
      PROVE  UNCHANGED status \/ AfterMove(r)
  BY <1>0, <1>3 DEF TearStep, TearRead, TearClaim, TearDestroy, TearFinish, TearFail, TearStop,
                    AfterMove
<1>4. CASE SweepStep
  <2>1. ASSUME NEW r \in Run, SweepClaim(r)
        PROVE  UNCHANGED status \/ AfterMove(r) \/ SweepWrite(r)
    BY <1>0, <2>1 DEF SweepClaim, SweepClaimed, SweepOverwrite, SweepReread, AfterMove, SweepWrite
  <2>2. CASE SweepFinish \/ SweepFail
    <3>1. sweep.row \in Run /\ sweep.row \in sweep.todo
      BY <2>2 DEF SweepFinish, SweepFail, Assigned, Listed
    <3>2. QED
      BY <1>0, <2>2, <3>1 DEF SweepFinish, SweepFail, AfterMove, SweepWrite
  <2>3. CASE SweepList \/ SweepDestroy \/ SweepProvider \/ SweepEnd \/ SweepStop
    BY <2>3 DEF SweepList, SweepDestroy, SweepProvider, SweepEnd, SweepStop
  <2>4. ASSUME NEW c \in ClusterId, SweepReap(c)
        PROVE  UNCHANGED status
    BY <2>4 DEF SweepReap
  <2>5. QED
    BY <1>4, <2>1, <2>2, <2>3, <2>4 DEF SweepStep
<1>5. CASE TimeStep
  BY <1>5 DEF TimeStep, Lapse, Age
<1>6. QED
  BY <1>1, <1>2, <1>3, <1>4, <1>5 DEF Next

LEMMA StaysPresent ==
  ASSUME TypeInv, Listed, [Next]_vars, NEW r \in Run, status[r] # "absent"
  PROVE  status'[r] # "absent"
<1>1. ASSUME NEW s \in Run, Admitted(s) \/ AfterMove(s) \/ SweepWrite(s)
      PROVE  status'[r] # "absent"
  BY <1>1 DEF TypeInv, TypeOK, Admitted, AfterMove, SweepWrite, After, Status, Active, Working,
              Terminal
<1>2. QED
  BY <1>1, StatusForm

LEMMA NextListed == TypeInv /\ Listed /\ [Next]_vars => Listed'
<1> SUFFICES ASSUME TypeInv, Listed, [Next]_vars PROVE Listed'
  OBVIOUS
<1>0. sweep.todo \subseteq Run
  BY DEF TypeInv, TypeOK, SweepRecord
<1>1. CASE /\ sweep'.todo \subseteq sweep.todo
           /\ sweep'.pc \in {"destroy", "finish", "fail"} => sweep'.row \in sweep'.todo
  BY <1>0, <1>1, StaysPresent DEF Listed
<1>2. CASE UNCHANGED sweep
  BY <1>1, <1>2 DEF Listed
<1>3. CASE SweepStep
  <2> USE DEF TypeInv, TypeOK, SweepRecord
  <2>1. CASE SweepList
    BY <2>1 DEF SweepList, IdleSweep, Listed, ExpiredRows, ActiveRows, Active, Working
  <2>2. ASSUME NEW r \in Run, SweepClaim(r)
        PROVE  Listed'
    <3>1. sweep'.todo = sweep.todo /\ sweep'.row = r /\ r \in sweep.todo
      <4>0. sweep \in SweepRecord
        OBVIOUS
      <4>1. CASE SweepClaimed(r)
        BY <2>2, <4>0, <4>1 DEF SweepClaim, SweepClaimed
      <4>2. CASE SweepOverwrite(r)
        BY <2>2, <4>0, <4>2 DEF SweepClaim, SweepOverwrite
      <4>3. CASE SweepReread(r)
        BY <2>2, <4>0, <4>3 DEF SweepClaim, SweepReread
      <4>4. QED
        BY <2>2, <4>1, <4>2, <4>3 DEF SweepClaim
    <3>2. QED
      BY <1>1, <3>1
  <2>3. CASE SweepDestroy
    BY <1>1, <2>3 DEF SweepDestroy, Listed
  <2>4. CASE SweepFinish \/ SweepFail
    <3>1. \E rolled \in BOOLEAN : RowDone(rolled)
      BY <2>4 DEF SweepFinish, SweepFail
    <3>2. sweep'.todo = sweep.todo \ {sweep.row} /\ sweep'.pc = "rows"
      BY <3>1 DEF RowDone
    <3>3. QED
      BY <1>1, <3>2
  <2>5. CASE SweepProvider \/ SweepEnd \/ SweepStop
    <3>1. sweep'.todo = {} /\ sweep'.pc \in {"idle", "provider"}
      <4>1. CASE SweepProvider
        <5>1. PICK old \in SUBSET ClusterId :
                 sweep' = [IdleSweep EXCEPT !.pc = "provider", !.reap = old]
          BY <4>1 DEF SweepProvider
        <5>2. QED
          BY <5>1 DEF IdleSweep
      <4>2. CASE SweepEnd \/ SweepStop
        BY <4>2 DEF SweepEnd, SweepStop, IdleSweep
      <4>3. QED
        BY <2>5, <4>1, <4>2
    <3>2. QED
      BY <1>1, <3>1
  <2>6. ASSUME NEW c \in ClusterId, SweepReap(c)
        PROVE  Listed'
    BY <1>1, <2>6 DEF SweepReap, Listed
  <2>7. QED
    BY <1>3, <2>1, <2>2, <2>3, <2>4, <2>5, <2>6 DEF SweepStep
<1>4. ASSUME NEW p \in Invocation, ProvStep(p)
      PROVE  UNCHANGED sweep
  BY <1>4 DEF ProvStep, ProvBegin, ProvReuse, ProvAdmit, ProvCreate, ProvResume, ProvIdentify,
              ProvReady, ProvPublish, ProvStop
<1>5. ASSUME NEW r \in Run, HandlerStep(r) \/ TearStep(r)
      PROVE  UNCHANGED sweep
  BY <1>5 DEF HandlerStep, LoadSchema, ExecuteMigration, StartHold, TearStep, TearRead, TearClaim,
              TearDestroy, TearFinish, TearFail, TearStop
<1>6. CASE TimeStep
  BY <1>2, <1>6 DEF TimeStep, Lapse, Age
<1>7. QED
  BY <1>2, <1>3, <1>4, <1>5, <1>6 DEF Next

Inv == TypeInv /\ Listed

LEMMA Invariance == Spec => []Inv
<1>1. Init => Inv
  BY InitTypeInv DEF Inv, Init, Listed, IdleSweep
<1>2. Inv /\ [Next]_vars => Inv'
  BY NextTypeInv, NextListed DEF Inv
<1>3. QED
  BY <1>1, <1>2, PTL DEF Spec

(* In terms of the row's life: it is admitted under the caps, works, ends, *)
(* and does not come back.                                                 *)
RowStep(r) ==
    \E v \in RowStatus :
        /\ status' = [status EXCEPT ![r] = v]
        /\ \/ status[r] = "absent" /\ v = "provisioning" /\ UnderCaps(r)
           \/ status[r] \in Working /\ v \in Working \cup Ending
           \/ status[r] \in Ending /\ v \in Ending

LEMMA StatusChange ==
  ASSUME Inv, [Next]_vars
  PROVE  UNCHANGED status \/ \E r \in Run : RowStep(r)
<1> USE DEF Inv, TypeInv, TypeOK, RowStatus, Status, Active, Working, Ending, Terminal
<1>1. ASSUME NEW r \in Run, Admitted(r)
      PROVE  RowStep(r)
  BY <1>1 DEF Admitted, RowStep
<1>2. ASSUME NEW r \in Run, AfterMove(r)
      PROVE  UNCHANGED status \/ RowStep(r)
  <2>1. PICK to \in Status \ {"provisioning"} : status' = [status EXCEPT ![r] = After(r, to)]
    BY <1>2 DEF AfterMove
  <2>2. CASE ~CanMove(status[r], to)
    BY <2>1, <2>2 DEF After
  <2>3. CASE CanMove(status[r], to)
    <3>1. \/ status[r] \in Working /\ to \in Working \cup Ending
          \/ status[r] \in Ending /\ to \in Ending
      BY <2>3 DEF CanMove, ALLOWED_TRANSITIONS
    <3>2. QED
      BY <2>1, <2>3, <3>1 DEF After, RowStep
  <2>4. QED
    BY <2>2, <2>3
<1>3. ASSUME NEW r \in Run, SweepWrite(r)
      PROVE  RowStep(r)
  BY <1>3 DEF SweepWrite, RowStep, Listed
<1>4. QED
  BY <1>1, <1>2, <1>3, StatusForm

-----------------------------------------------------------------------------
(* The admission caps.                                                     *)

(* Counting.  A set of rows that only loses members does not grow, and one *)
(* that gains a run admitted under a bound stays within it.                *)
LEMMA RowsFinite ==
  ASSUME NEW S \in SUBSET Run
  PROVE  IsFiniteSet(S) /\ Cardinality(S) \in Nat
  BY RunAssumption, FS_Subset, FS_CardinalityType

LEMMA CountShrinks ==
  ASSUME NEW S \in SUBSET Run, NEW T \in SUBSET S
  PROVE  Cardinality(T) <= Cardinality(S)
  BY RowsFinite, FS_Subset

LEMMA CountAdds ==
  ASSUME NEW S \in SUBSET Run, NEW r \in Run, NEW n \in Nat, Cardinality(S) < n
  PROVE  Cardinality(S \cup {r}) <= n
<1>1. Cardinality(S \cup {r}) = (IF r \in S THEN Cardinality(S) ELSE Cardinality(S) + 1)
  BY RowsFinite, FS_AddElement
<1>2. QED
  BY <1>1, RowsFinite

(* The rows at work lose members, or gain the one that is admitted.        *)
LEMMA WorkingChange ==
  ASSUME Inv, [Next]_vars
  PROVE  \/ WorkingRows' \subseteq WorkingRows
         \/ \E r \in Run : WorkingRows' = WorkingRows \cup {r} /\ UnderCaps(r)
<1> USE DEF Inv, TypeInv, TypeOK, WorkingRows
<1>1. CASE UNCHANGED status
  BY <1>1
<1>2. ASSUME NEW r \in Run, RowStep(r)
      PROVE  \/ WorkingRows' \subseteq WorkingRows
             \/ WorkingRows' = WorkingRows \cup {r} /\ UnderCaps(r)
  <2>1. CASE status[r] = "absent"
    BY <1>2, <2>1 DEF RowStep, Working, Ending, Terminal
  <2>2. CASE status[r] # "absent"
    BY <1>2, <2>2 DEF RowStep, Working, Ending, Terminal
  <2>3. QED
    BY <2>1, <2>2
<1>3. QED
  BY <1>1, <1>2, StatusChange

LEMMA InitCap == Init => AdmissionCap /\ OwnerCap
<1> SUFFICES ASSUME Init PROVE AdmissionCap /\ OwnerCap
  OBVIOUS
<1>1. WorkingRows = {}
  BY DEF Init, WorkingRows, Working
<1>2. Cardinality({}) = 0
  BY FS_EmptySet
<1>3. \A o \in Owner : WorkingRows \cap OwnedBy(o) = {}
  BY <1>1
<1>4. QED
  BY <1>1, <1>2, <1>3, CapAssumption, OwnerAssumption DEF AdmissionCap, OwnerCap

LEMMA NextCap == Inv /\ AdmissionCap /\ OwnerCap /\ [Next]_vars => AdmissionCap' /\ OwnerCap'
<1> SUFFICES ASSUME Inv, AdmissionCap, OwnerCap, [Next]_vars
             PROVE  AdmissionCap' /\ OwnerCap'
  OBVIOUS
<1> DEFINE Mine(o) == WorkingRows \cap OwnedBy(o)
<1>0. WorkingRows \in SUBSET Run /\ WorkingRows \in SUBSET ActiveRows /\ ActiveRows \in SUBSET Run
  BY DEF WorkingRows, ActiveRows, Active
<1>1. CASE WorkingRows' \subseteq WorkingRows
  <2>2. Cardinality(WorkingRows') <= Cardinality(WorkingRows)
    BY <1>0, <1>1, CountShrinks
  <2>3. ASSUME NEW o \in Owner, MaxPerOwner # NoLimit
        PROVE  Cardinality(Mine(o)') <= MaxPerOwner
    <3>1. Mine(o)' \in SUBSET Mine(o) /\ Mine(o) \in SUBSET Run
      BY <1>0, <1>1 DEF OwnedBy
    <3>2. Cardinality(Mine(o)') <= Cardinality(Mine(o))
      BY <3>1, CountShrinks
    <3>3. Cardinality(Mine(o)) <= MaxPerOwner
      BY <2>3 DEF OwnerCap
    <3>4. QED
      BY <3>1, <3>2, <3>3, <2>3, RowsFinite, OwnerAssumption
  <2>4. Cardinality(WorkingRows') <= MaxConcurrent
    BY <1>0, <1>1, <2>2, RowsFinite, CapAssumption DEF AdmissionCap
  <2>5. QED
    BY <2>3, <2>4 DEF AdmissionCap, OwnerCap
<1>2. ASSUME NEW r \in Run, WorkingRows' = WorkingRows \cup {r}, UnderCaps(r)
      PROVE  AdmissionCap' /\ OwnerCap'
  <2>2. Cardinality(WorkingRows) < MaxConcurrent
    <3>1. Cardinality(WorkingRows) <= Cardinality(ActiveRows)
      BY <1>0, CountShrinks
    <3>2. Cardinality(ActiveRows) < MaxConcurrent
      BY <1>2 DEF UnderCaps
    <3>3. QED
      BY <1>0, <3>1, <3>2, RowsFinite, CapAssumption
  <2>3. Cardinality(WorkingRows') <= MaxConcurrent
    BY <1>0, <1>2, <2>2, CountAdds, CapAssumption
  <2>4. ASSUME NEW o \in Owner, MaxPerOwner # NoLimit
        PROVE  Cardinality(Mine(o)') <= MaxPerOwner
    <3>1. CASE OwnerOf[r] # o
      <4>1. Mine(o)' = Mine(o)
        BY <1>2, <3>1 DEF OwnedBy
      <4>2. QED
        BY <2>4, <4>1 DEF OwnerCap
    <3>2. CASE OwnerOf[r] = o
      <4>1. Mine(o)' = Mine(o) \cup {r}
        BY <1>2, <3>2 DEF OwnedBy
      <4>2. Cardinality(ActiveRows \cap OwnedBy(o)) < MaxPerOwner
        BY <1>2, <2>4, <3>2, OwnerAssumption DEF UnderCaps
      <4>3. Cardinality(Mine(o)) <= Cardinality(ActiveRows \cap OwnedBy(o))
        <5>1. Mine(o) \in SUBSET (ActiveRows \cap OwnedBy(o))
          BY <1>0
        <5>2. QED
          BY <1>0, <5>1, CountShrinks
      <4>4. MaxPerOwner \in Nat /\ Cardinality(Mine(o)) < MaxPerOwner
        BY <1>0, <2>4, <4>2, <4>3, RowsFinite, OwnerAssumption
      <4>5. QED
        BY <1>0, <4>1, <4>4, CountAdds
    <3>3. QED
      BY <3>1, <3>2
  <2>5. QED
    BY <2>3, <2>4 DEF AdmissionCap, OwnerCap
<1>3. QED
  BY <1>1, <1>2, WorkingChange

(* Never more working rows than the cap, nor of one owner than its cap.    *)
THEOREM CapsHold == Spec => [](AdmissionCap /\ OwnerCap)
<1>1. Init => AdmissionCap /\ OwnerCap
  BY InitCap
<1>2. Inv /\ (AdmissionCap /\ OwnerCap) /\ [Next]_vars => (AdmissionCap /\ OwnerCap)'
  BY NextCap
<1>3. QED
  BY <1>1, <1>2, Invariance, PTL DEF Spec

-----------------------------------------------------------------------------
(* A row being torn down, or gone, is never put to work again: the sweeper *)
(* may overwrite it, but only with another stage of its end.               *)
THEOREM NeverRevived == Spec => NoResurrection
<1>1. ASSUME Inv, [Next]_vars, NEW r \in Run, status[r] \in Ending
      PROVE  status'[r] \notin Working
  <2>1. CASE UNCHANGED status
    BY <1>1, <2>1 DEF Ending, Terminal, Working
  <2>2. ASSUME NEW s \in Run, RowStep(s)
        PROVE  status'[r] \notin Working
    BY <1>1, <2>2 DEF RowStep, Ending, Terminal, Working, Inv, TypeInv, TypeOK
  <2>3. QED
    BY <1>1, <2>1, <2>2, StatusChange
<1>2. Inv /\ [Next]_vars =>
        [\A r \in Run : status[r] \in {"destroying"} \cup Terminal => status'[r] \notin Working]_vars
  BY <1>1 DEF Ending
<1>3. QED
  BY <1>2, Invariance, PTL DEF Spec, NoResurrection

-----------------------------------------------------------------------------
(* Refinement: rows at work are the slots held, rows that end are spent.   *)
LEMMA InitPool == Init => Pool!Init
  BY DEF Init, Pool!Init, WorkingRows, SpentRows, Working, Terminal

LEMMA StepPool == Inv /\ [Next]_vars => [Pool!Next]_<<WorkingRows, SpentRows>>
<1> SUFFICES ASSUME Inv, [Next]_vars
             PROVE  [Pool!Next]_<<WorkingRows, SpentRows>>
  OBVIOUS
<1> USE DEF Inv, TypeInv, TypeOK, WorkingRows, SpentRows, Working, Terminal
<1>1. CASE UNCHANGED status
  BY <1>1
<1>2. ASSUME NEW r \in Run, RowStep(r)
      PROVE  [Pool!Next]_<<WorkingRows, SpentRows>>
  <2>1. PICK v \in RowStatus :
           /\ status' = [status EXCEPT ![r] = v]
           /\ \/ status[r] = "absent" /\ v = "provisioning" /\ UnderCaps(r)
              \/ status[r] \in Working /\ v \in Working \cup Ending
              \/ status[r] \in Ending /\ v \in Ending
    BY <1>2 DEF RowStep
  <2>2. CASE status[r] = "absent"
    <3>1. WorkingRows' = WorkingRows \cup {r} /\ SpentRows' = SpentRows
          /\ r \notin WorkingRows \cup SpentRows
      BY <2>1, <2>2 DEF Ending
    <3>2. Cardinality(WorkingRows) < MaxConcurrent
      <4>1. WorkingRows \in SUBSET ActiveRows /\ ActiveRows \in SUBSET Run
        BY DEF ActiveRows, Active
      <4>2. Cardinality(ActiveRows) < MaxConcurrent
        BY <2>1, <2>2 DEF UnderCaps, Ending
      <4>3. Cardinality(WorkingRows) <= Cardinality(ActiveRows)
        BY <4>1, CountShrinks
      <4>4. Cardinality(WorkingRows) \in Nat /\ Cardinality(ActiveRows) \in Nat
        BY <4>1, RowsFinite
      <4>5. QED
        BY <4>2, <4>3, <4>4, CapAssumption
    <3>3. Pool!Acquire(r)
      <4> HIDE DEF WorkingRows, SpentRows
      <4> QED
        BY <3>1, <3>2, Zenon DEF Pool!Acquire, Pool!Cardinality, Cardinality
    <3>4. QED
      BY <3>3 DEF Pool!Next
  <2>3. CASE status[r] \in Working /\ v \in Ending
    <3>1. WorkingRows' = WorkingRows \ {r} /\ SpentRows' = SpentRows \cup {r}
          /\ r \in WorkingRows
      BY <2>1, <2>3 DEF Ending
    <3>2. Pool!Release(r)
      BY <3>1 DEF Pool!Release
    <3>3. QED
      BY <3>2 DEF Pool!Next
  <2>4. CASE (status[r] \in Working /\ v \in Working) \/ (status[r] \in Ending /\ v \in Ending)
    <3>1. UNCHANGED <<WorkingRows, SpentRows>>
      BY <2>1, <2>4 DEF Ending
    <3>2. QED
      BY <3>1
  <2>5. QED
    BY <2>1, <2>2, <2>3, <2>4
<1>3. QED
  BY <1>1, <1>2, StatusChange

(* Admission, with its retries, crashes and stale writes, implements the   *)
(* slot pool.                                                              *)
THEOREM SlotPoolImplemented == Spec => ImplementsSlotPool
<1>1. Inv /\ [Next]_vars => [Pool!Next]_<<WorkingRows, SpentRows>>
  BY StepPool
<1>2. QED
  BY <1>1, InitPool, Invariance, PTL DEF Spec, ImplementsSlotPool, Pool!Spec, SpentRows

-----------------------------------------------------------------------------
(* Who may destroy a cluster.  An id that is at hand in a row, or that a   *)
(* process has taken from one, is of a cluster created for that run, and   *)
(* whoever is about to destroy it has the run's row on its way to the end. *)

OwnedIn(clusters, r, c) ==
    c \in ClusterId => \/ clusters[c].state = "gone"
                       \/ clusters[c].state = "live" /\ clusters[c].run = r

GoneOrOld(clusters, c) ==
    \/ clusters[c].state = "gone"
    \/ clusters[c].state = "live" /\ clusters[c].old

Named ==
    /\ \A r \in Run : /\ OwnedIn(cluster, r, clusterId[r])
                      /\ OwnedIn(cluster, r, tear[r].cid)
                      /\ OwnedIn(cluster, r, sweep.cid[r])
    /\ \A p \in Invocation : OwnedIn(cluster, prov[p].run, prov[p].cid)

Doomed ==
    /\ \A r \in Run : /\ tear[r].pc = "destroy" => status[r] \in Ending
                      /\ sweep.seen[r] = "destroying" => status[r] \in Ending
    /\ sweep.pc = "destroy" => status[sweep.row] \in Ending
    /\ \A c \in sweep.reap : GoneOrOld(cluster, c)

(* What one step does to the clusters: it creates one, for the run of the  *)
(* invocation at hand, destroys one, lets one age, or leaves them.         *)
Create(c, r) ==
    /\ cluster[c].state = "unused"
    /\ cluster' = [cluster EXCEPT ![c] = [state |-> "live", run |-> r, old |-> FALSE]]

Destroy(c) ==
    cluster' = [cluster EXCEPT ![c] = [state |-> "gone", run |-> NoRun, old |-> FALSE]]

(* The ways to a destruction.                                              *)
Destroyer(c) ==
    \/ \E r \in Run : TearDestroy(r) /\ tear[r].cid = c
    \/ SweepDestroy /\ sweep.cid[sweep.row] = c
    \/ SweepReap(c)

LEMMA ClusterForm ==
  ASSUME TypeInv, [Next]_vars
  PROVE  \/ UNCHANGED cluster
         \/ \E c \in ClusterId, p \in Invocation : ProvCreate(p) /\ Create(c, prov[p].run)
         \/ \E c \in ClusterId : Destroy(c) /\ Destroyer(c)
         \/ \E c \in ClusterId : Age(c)
<1>1. ASSUME NEW p \in Invocation, ProvStep(p)
      PROVE  \/ UNCHANGED cluster
             \/ \E c \in ClusterId : ProvCreate(p) /\ Create(c, prov[p].run)
  <2>1. CASE ProvCreate(p)
    BY <2>1 DEF ProvCreate, Create
  <2>2. CASE ~ProvCreate(p)
    BY <1>1, <2>2 DEF ProvStep, ProvBegin, ProvReuse, ProvAdmit, ProvResume, ProvIdentify,
                      ProvReady, ProvPublish, ProvStop
  <2>3. QED
    BY <2>1, <2>2
<1>2. ASSUME NEW r \in Run, HandlerStep(r)
      PROVE  UNCHANGED cluster
  BY <1>2 DEF HandlerStep, LoadSchema, ExecuteMigration, StartHold
<1>3. ASSUME NEW r \in Run, TearStep(r)
      PROVE  \/ UNCHANGED cluster
             \/ \E c \in ClusterId : Destroy(c) /\ Destroyer(c)
  <2>1. CASE TearDestroy(r)
    BY <2>1 DEF TearDestroy, DestroyCluster, Destroy, Destroyer
  <2>2. CASE ~TearDestroy(r)
    BY <1>3, <2>2 DEF TearStep, TearRead, TearClaim, TearFinish, TearFail, TearStop
  <2>3. QED
    BY <2>1, <2>2
<1>4. CASE SweepStep
  <2>1. CASE SweepDestroy
    BY <2>1 DEF SweepDestroy, DestroyCluster, Destroy, Destroyer
  <2>2. ASSUME NEW c \in ClusterId, SweepReap(c)
        PROVE  UNCHANGED cluster \/ (Destroy(c) /\ Destroyer(c))
    BY <2>2 DEF SweepReap, DestroyCluster, Destroy, Destroyer
  <2>3. ASSUME NEW r \in Run, SweepClaim(r)
        PROVE  UNCHANGED cluster
    BY <2>3 DEF SweepClaim
  <2>4. CASE SweepList \/ SweepFinish \/ SweepFail \/ SweepProvider \/ SweepEnd \/ SweepStop
    BY <2>4 DEF SweepList, SweepFinish, SweepFail, SweepProvider, SweepEnd, SweepStop
  <2>5. QED
    BY <1>4, <2>1, <2>2, <2>3, <2>4 DEF SweepStep
<1>5. CASE TimeStep
  BY <1>5 DEF TimeStep, Lapse
<1>6. CASE UNCHANGED vars
  BY <1>6
<1>7. QED
  BY <1>1, <1>2, <1>3, <1>4, <1>5, <1>6 DEF Next

(* Whose a cluster is does not change, and one that is old stays so until  *)
(* it is gone.                                                             *)
LEMMA OwnedStays ==
  ASSUME TypeInv, [Next]_vars, NEW r, NEW c, OwnedIn(cluster, r, c)
  PROVE  OwnedIn(cluster', r, c)
<1> USE DEF TypeInv, TypeOK, Cluster, OwnedIn
<1>1. ASSUME NEW d \in ClusterId, NEW s, Create(d, s)
      PROVE  OwnedIn(cluster', r, c)
  BY <1>1 DEF Create
<1>2. ASSUME NEW d \in ClusterId, Destroy(d)
      PROVE  OwnedIn(cluster', r, c)
  BY <1>2 DEF Destroy
<1>3. ASSUME NEW d \in ClusterId, Age(d)
      PROVE  OwnedIn(cluster', r, c)
  BY <1>3 DEF Age
<1>4. QED
  BY <1>1, <1>2, <1>3, ClusterForm

LEMMA OldStays ==
  ASSUME TypeInv, [Next]_vars, NEW c \in ClusterId, GoneOrOld(cluster, c)
  PROVE  GoneOrOld(cluster', c)
<1> USE DEF TypeInv, TypeOK, Cluster, GoneOrOld
<1>1. ASSUME NEW d \in ClusterId, NEW s, Create(d, s)
      PROVE  GoneOrOld(cluster', c)
  BY <1>1 DEF Create
<1>2. ASSUME NEW d \in ClusterId, Destroy(d)
      PROVE  GoneOrOld(cluster', c)
  <2>1. CASE c = d
    <3> HIDE DEF GoneOrOld
    <3>1. cluster'[c].state = "gone"
      BY <1>2, <2>1 DEF Destroy
    <3>2. QED
      BY <3>1 DEF GoneOrOld
  <2>2. CASE c # d
    BY <1>2, <2>2 DEF Destroy
  <2>3. QED
    BY <2>1, <2>2
<1>3. ASSUME NEW d \in ClusterId, Age(d)
      PROVE  GoneOrOld(cluster', c)
  BY <1>3 DEF Age
<1>4. QED
  BY <1>1, <1>2, <1>3, ClusterForm

(* A row on its way to the end stays there.                                *)
LEMMA EndingStays ==
  ASSUME Inv, [Next]_vars, NEW r \in Run, status[r] \in Ending
  PROVE  status'[r] \in Ending
<1>1. CASE UNCHANGED status
  BY <1>1
<1>2. ASSUME NEW s \in Run, RowStep(s)
      PROVE  status'[r] \in Ending
  BY <1>2 DEF RowStep, Ending, Terminal, Working, Inv, TypeInv, TypeOK
<1>3. QED
  BY <1>1, <1>2, StatusChange

(* Where an id comes from: it was at hand in the same process, it is read  *)
(* from the row, or it is of the cluster just created.                     *)
From(r, c) == c \in {NoCluster, clusterId[r]}

LEMMA ProvRefs ==
  ASSUME TypeInv, [Next]_vars, NEW p \in Invocation
  PROVE  \/ prov'[p].run = prov[p].run /\ prov'[p].cid = prov[p].cid
         \/ prov'[p].run \in Run /\ From(prov'[p].run, prov'[p].cid)
         \/ prov'[p].cid = NoCluster
         \/ /\ prov'[p].run = prov[p].run
            /\ Create(prov'[p].cid, prov[p].run)
<1> DEFINE Goal == \/ prov'[p].run = prov[p].run /\ prov'[p].cid = prov[p].cid
                   \/ prov'[p].run \in Run /\ From(prov'[p].run, prov'[p].cid)
                   \/ prov'[p].cid = NoCluster
                   \/ /\ prov'[p].run = prov[p].run
                      /\ Create(prov'[p].cid, prov[p].run)
<1> USE DEF TypeInv, TypeOK
<1>1. ASSUME NEW q \in Invocation, ProvStep(q)
      PROVE  Goal
  <2>0. prov \in [Invocation -> ProvRecord]
    OBVIOUS
  <2>1. ASSUME NEW r \in Run, ProvBegin(q, r)
        PROVE  Goal
    <3>1. prov' = [prov EXCEPT ![q] = [IdleProv EXCEPT !.pc = "admit", !.run = r]]
      BY <2>1 DEF ProvBegin
    <3>2. [IdleProv EXCEPT !.pc = "admit", !.run = r].cid = NoCluster
      BY DEF IdleProv
    <3>3. QED
      BY <2>0, <3>1, <3>2
  <2>2. CASE ProvReuse(q)
    BY <2>0, <2>2 DEF ProvReuse, Assigned, From
  <2>3. CASE ProvAdmit(q)
    <3>1. prov' = [prov EXCEPT ![q].pc = "slot", ![q].seen = "provisioning"]
      BY <2>3 DEF ProvAdmit
    <3>2. QED
      BY <2>0, <3>1 DEF ProvRecord
  <2>4. CASE ProvCreate(q)
    <3>1. PICK c \in ClusterId :
             /\ Create(c, prov[q].run)
             /\ prov' = [prov EXCEPT ![q].pc = "identify", ![q].cid = c] \/ UNCHANGED prov
      BY <2>4 DEF ProvCreate, Create
    <3>2. CASE prov' = [prov EXCEPT ![q].pc = "identify", ![q].cid = c]
      <4>1. CASE p = q
        <5>1. prov'[p].cid = c /\ prov'[p].run = prov[p].run
          BY <2>0, <3>2, <4>1 DEF ProvRecord
        <5>2. QED
          BY <3>1, <4>1, <5>1
      <4>2. CASE p # q
        BY <2>0, <3>2, <4>2
      <4>3. QED
        BY <4>1, <4>2
    <3>3. QED
      BY <3>1, <3>2
  <2>5. CASE ProvResume(q) \/ ProvReady(q)
    <3>1. \E x \in {"ready", "publish"} : prov' = [prov EXCEPT ![q].pc = x]
      BY <2>5 DEF ProvResume, ProvReady
    <3>2. QED
      BY <2>0, <3>1 DEF ProvRecord
  <2>6. CASE ProvIdentify(q)
    <3>1. PICK x : prov' = [prov EXCEPT ![q].pc = "ready", ![q].seen = x]
      BY <2>6 DEF ProvIdentify
    <3>2. QED
      BY <2>0, <3>1 DEF ProvRecord
  <2>7. CASE ProvPublish(q) \/ ProvStop(q)
    BY <2>0, <2>7 DEF ProvPublish, ProvStop, IdleProv
  <2>8. QED
    BY <1>1, <2>1, <2>2, <2>3, <2>4, <2>5, <2>6, <2>7 DEF ProvStep
<1>2. CASE UNCHANGED prov
  BY <1>2
<1>3. ASSUME NEW r \in Run, HandlerStep(r) \/ TearStep(r)
      PROVE  UNCHANGED prov
  BY <1>3 DEF HandlerStep, LoadSchema, ExecuteMigration, StartHold, TearStep, TearRead, TearClaim,
              TearDestroy, TearFinish, TearFail, TearStop
<1>4. CASE SweepStep
  BY <1>2, <1>4 DEF SweepStep, SweepList, SweepClaim, SweepDestroy, SweepFinish, SweepFail,
                    SweepProvider, SweepReap, SweepEnd, SweepStop
<1>5. CASE TimeStep
  BY <1>2, <1>5 DEF TimeStep, Lapse, Age
<1>6. QED
  BY <1>1, <1>2, <1>3, <1>4, <1>5 DEF Next

LEMMA RowRefs ==
  ASSUME TypeInv, [Next]_vars, NEW r \in Run
  PROVE  \/ clusterId'[r] = clusterId[r]
         \/ \E p \in Invocation :
               /\ prov[p].pc = "identify" /\ prov[p].run = r
               /\ clusterId'[r] = prov[p].cid
<1> USE DEF TypeInv, TypeOK
<1>1. ASSUME NEW p \in Invocation, ProvIdentify(p)
      PROVE  \/ clusterId'[r] = clusterId[r]
             \/ /\ prov[p].pc = "identify" /\ prov[p].run = r
                /\ clusterId'[r] = prov[p].cid
  BY <1>1 DEF ProvIdentify
<1>2. ASSUME NEW p \in Invocation, ProvStep(p), ~ProvIdentify(p)
      PROVE  UNCHANGED clusterId
  BY <1>2 DEF ProvStep, ProvBegin, ProvReuse, ProvAdmit, ProvCreate, ProvResume, ProvReady,
              ProvPublish, ProvStop
<1>3. ASSUME NEW s \in Run, HandlerStep(s) \/ TearStep(s)
      PROVE  UNCHANGED clusterId
  BY <1>3 DEF HandlerStep, LoadSchema, ExecuteMigration, StartHold, TearStep, TearRead, TearClaim,
              TearDestroy, TearFinish, TearFail, TearStop
<1>4. CASE SweepStep
  BY <1>4 DEF SweepStep, SweepList, SweepClaim, SweepDestroy, SweepFinish, SweepFail,
              SweepProvider, SweepReap, SweepEnd, SweepStop
<1>5. CASE TimeStep
  BY <1>5 DEF TimeStep, Lapse, Age
<1>6. QED
  BY <1>1, <1>2, <1>3, <1>4, <1>5 DEF Next

(* A teardown request keeps its id until it claims the row again, and is   *)
(* about to destroy only after a claim that went through.                  *)
LEMMA TearRefs ==
  ASSUME TypeInv, [Next]_vars, NEW r \in Run
  PROVE  /\ tear'[r].cid = tear[r].cid \/ From(r, tear'[r].cid)
         /\ tear'[r].pc = "destroy" => tear[r].pc = "destroy" \/ status'[r] = "destroying"
<1> DEFINE Goal == /\ tear'[r].cid = tear[r].cid \/ From(r, tear'[r].cid)
                   /\ tear'[r].pc = "destroy" => tear[r].pc = "destroy" \/ status'[r] = "destroying"
<1> USE DEF TypeInv, TypeOK
<1>1. CASE UNCHANGED tear
  BY <1>1
<1>2. ASSUME NEW s \in Run, TearStep(s)
      PROVE  Goal
  <2>0. tear \in [Run -> TearRecord]
    OBVIOUS
  <2>1. CASE r # s
    BY <1>2, <2>0, <2>1 DEF TearStep, TearRead, TearClaim, TearDestroy, TearFinish, TearFail,
                            TearStop
  <2>2. CASE r = s /\ TearClaim(s)
    BY <2>0, <2>2 DEF TearClaim, After, Conflicts, From
  <2>3. CASE r = s /\ (TearRead(s) \/ TearDestroy(s))
    <3>1. \E x \in {"claim", "finish", "fail"} : tear' = [tear EXCEPT ![s].pc = x]
      BY <2>3 DEF TearRead, TearDestroy
    <3>2. QED
      BY <2>0, <2>3, <3>1 DEF TearRecord
  <2>4. CASE r = s /\ (TearFinish(s) \/ TearFail(s) \/ TearStop(s))
    <3>1. \/ tear' = [tear EXCEPT ![s] = [pc |-> "conflict", cid |-> NoCluster]]
          \/ tear' = [tear EXCEPT ![s] = [pc |-> "idle", cid |-> NoCluster]]
      BY <2>4 DEF TearFinish, TearFail, TearStop, IdleTear
    <3>2. QED
      BY <2>0, <2>4, <3>1 DEF From
  <2>5. QED
    BY <1>2, <2>1, <2>2, <2>3, <2>4 DEF TearStep
<1>3. ASSUME NEW p \in Invocation, ProvStep(p)
      PROVE  UNCHANGED tear
  BY <1>3 DEF ProvStep, ProvBegin, ProvReuse, ProvAdmit, ProvCreate, ProvResume, ProvIdentify,
              ProvReady, ProvPublish, ProvStop
<1>4. ASSUME NEW s \in Run, HandlerStep(s)
      PROVE  UNCHANGED tear
  BY <1>4 DEF HandlerStep, LoadSchema, ExecuteMigration, StartHold
<1>5. CASE SweepStep
  BY <1>1, <1>5 DEF SweepStep, SweepList, SweepClaim, SweepDestroy, SweepFinish, SweepFail,
                    SweepProvider, SweepReap, SweepEnd, SweepStop
<1>6. CASE TimeStep
  BY <1>1, <1>6 DEF TimeStep, Lapse, Age
<1>7. QED
  BY <1>1, <1>2, <1>3, <1>4, <1>5, <1>6 DEF Next

(* The sweeper takes an id from the row it lists or reads again, and is    *)
(* about to destroy only what it has claimed, or knows to be claimed.      *)
SweepRef(r) ==
    /\ sweep'.cid[r] = sweep.cid[r] \/ From(r, sweep'.cid[r])
    /\ sweep'.seen[r] = "destroying" =>
         sweep.seen[r] = "destroying" \/ "destroying" \in {status[r], status'[r]}

SweepAim ==
    /\ sweep'.pc = "destroy" =>
         \/ sweep.pc = "destroy" /\ sweep'.row = sweep.row
         \/ /\ sweep'.row \in Run
            /\ sweep.seen[sweep'.row] = "destroying" \/ status'[sweep'.row] = "destroying"
    /\ \A c \in sweep'.reap : c \in sweep.reap \/ GoneOrOld(cluster, c)

LEMMA Cleared ==
  ASSUME sweep' = IdleSweep
  PROVE  SweepAim /\ \A r \in Run : SweepRef(r)
  BY DEF IdleSweep, SweepRef, SweepAim, From

LEMMA SweepRefs ==
  ASSUME TypeInv, [Next]_vars
  PROVE  SweepAim /\ \A r \in Run : SweepRef(r)
<1> USE DEF TypeInv, TypeOK
<1>0. sweep \in SweepRecord
  OBVIOUS
<1>1. CASE UNCHANGED sweep
  BY <1>1 DEF SweepRef, SweepAim
<1>2. CASE SweepList
  <2>1. /\ sweep'.pc = "rows" /\ sweep'.reap = {}
        /\ sweep'.seen = [s \in Run |-> IF s \in ExpiredRows THEN status[s] ELSE "absent"]
        /\ sweep'.cid = [s \in Run |-> IF s \in ExpiredRows THEN clusterId[s] ELSE NoCluster]
    BY <1>2 DEF SweepList, IdleSweep
  <2>2. QED
    BY <2>1 DEF SweepRef, SweepAim, From
<1>3. ASSUME NEW s \in Run, SweepClaim(s)
      PROVE  SweepAim /\ \A r \in Run : SweepRef(r)
  <2>1. CASE SweepClaimed(s)
    <3>1. /\ sweep'.row = s /\ sweep'.seen = sweep.seen
          /\ sweep'.cid = sweep.cid /\ sweep'.reap = sweep.reap /\ sweep.seen[s] = "destroying"
      BY <1>0, <2>1 DEF SweepClaimed, SweepRecord
    <3>2. QED
      BY <3>1 DEF SweepRef, SweepAim
  <2>2. CASE SweepOverwrite(s)
    <3>1. /\ sweep'.row = s /\ sweep'.reap = sweep.reap /\ status'[s] = "destroying"
          /\ sweep'.seen = [sweep.seen EXCEPT ![s] = "destroying"]
          /\ sweep'.cid = [sweep.cid EXCEPT ![s] = clusterId[s]]
      BY <1>0, <2>2 DEF SweepOverwrite, SweepRecord
    <3>2. QED
      BY <1>0, <3>1 DEF SweepRef, SweepAim, From, SweepRecord
  <2>3. CASE SweepReread(s)
    <3>1. /\ sweep'.row = s /\ sweep'.reap = sweep.reap
          /\ sweep'.seen = [sweep.seen EXCEPT ![s] = status'[s]]
          /\ sweep'.cid = [sweep.cid EXCEPT ![s] = clusterId[s]]
      BY <1>0, <2>3 DEF SweepReread, SweepRecord
    <3>2. sweep'.pc = "destroy" => status'[s] = "destroying"
      <4>1. sweep'.pc = IF Conflicts(s, "destroying") THEN "fail" ELSE "destroy"
        BY <1>0, <2>3 DEF SweepReread, SweepRecord
      <4>2. ~Conflicts(s, "destroying") => After(s, "destroying") = "destroying"
        BY DEF Conflicts, After
      <4>3. status'[s] = After(s, "destroying")
        BY <2>3 DEF SweepReread
      <4>4. QED
        BY <4>1, <4>2, <4>3
    <3>3. QED
      BY <1>0, <3>1, <3>2 DEF SweepRef, SweepAim, From, SweepRecord
  <2>4. QED
    BY <1>3, <2>1, <2>2, <2>3 DEF SweepClaim
<1>4. CASE SweepDestroy
  <2>1. PICK x \in {"finish", "fail"} : sweep' = [sweep EXCEPT !.pc = x]
    BY <1>4 DEF SweepDestroy
  <2>2. QED
    BY <1>0, <2>1 DEF SweepRef, SweepAim, SweepRecord
<1>5. CASE SweepFinish \/ SweepFail
  <2>1. PICK rolled \in BOOLEAN : RowDone(rolled)
    BY <1>5 DEF SweepFinish, SweepFail
  <2>2. /\ sweep'.pc = "rows" /\ sweep'.reap = sweep.reap
        /\ sweep'.seen = [sweep.seen EXCEPT ![sweep.row] = "absent"]
        /\ sweep'.cid = [sweep.cid EXCEPT ![sweep.row] = NoCluster]
    BY <1>0, <2>1 DEF RowDone, SweepRecord
  <2>3. QED
    BY <1>0, <2>2 DEF SweepRef, SweepAim, From, SweepRecord
<1>6. CASE SweepProvider
  <2> DEFINE old == {c \in ClusterId : Live(c) /\ cluster[c].old}
  <2>1. sweep' = [IdleSweep EXCEPT !.pc = "provider", !.reap = old]
    BY <1>6 DEF SweepProvider
  <2>2. \A c \in old : GoneOrOld(cluster, c)
    BY DEF Live, GoneOrOld
  <2> HIDE DEF old
  <2>3. /\ sweep'.pc = "provider" /\ sweep'.reap = old
        /\ \A r \in Run : sweep'.seen[r] = "absent" /\ sweep'.cid[r] = NoCluster
    BY <2>1 DEF IdleSweep
  <2>4. QED
    BY <2>2, <2>3 DEF SweepRef, SweepAim, From
<1>7. ASSUME NEW c \in ClusterId, SweepReap(c)
      PROVE  SweepAim /\ \A r \in Run : SweepRef(r)
  <2>1. sweep' = [sweep EXCEPT !.reap = sweep.reap \ {c}] /\ sweep.pc = "provider"
    BY <1>0, <1>7 DEF SweepReap, SweepRecord
  <2>2. /\ sweep'.pc = "provider" /\ sweep'.reap = sweep.reap \ {c}
        /\ sweep'.seen = sweep.seen /\ sweep'.cid = sweep.cid
    BY <1>0, <2>1 DEF SweepRecord
  <2>3. QED
    BY <2>2 DEF SweepRef, SweepAim
<1>8. CASE SweepEnd \/ SweepStop
  BY <1>8, Cleared DEF SweepEnd, SweepStop
<1>9. ASSUME NEW p \in Invocation, ProvStep(p)
      PROVE  UNCHANGED sweep
  BY <1>9 DEF ProvStep, ProvBegin, ProvReuse, ProvAdmit, ProvCreate, ProvResume, ProvIdentify,
              ProvReady, ProvPublish, ProvStop
<1>10. ASSUME NEW s \in Run, HandlerStep(s) \/ TearStep(s)
      PROVE  UNCHANGED sweep
  BY <1>10 DEF HandlerStep, LoadSchema, ExecuteMigration, StartHold, TearStep, TearRead, TearClaim,
               TearDestroy, TearFinish, TearFail, TearStop
<1>11. CASE TimeStep
  BY <1>1, <1>11 DEF TimeStep, Lapse, Age
<1>12. QED
  BY <1>1, <1>2, <1>3, <1>4, <1>5, <1>6, <1>7, <1>8, <1>9, <1>10, <1>11 DEF Next, SweepStep

DestructionInv == Inv /\ Named /\ Doomed

LEMMA InitDestruction == Init => DestructionInv
<1> SUFFICES ASSUME Init PROVE Named /\ Doomed
  BY InitTypeInv DEF DestructionInv, Inv, Init, Listed, IdleSweep
<1>1. Named
  BY ClusterAssumption DEF Init, Named, OwnedIn, IdleTear, IdleSweep, IdleProv
<1>2. Doomed
  BY DEF Init, Doomed, IdleTear, IdleSweep
<1>3. QED
  BY <1>1, <1>2

LEMMA NextNamed ==
  ASSUME DestructionInv, [Next]_vars
  PROVE  Named'
<1>0. TypeInv /\ Named /\ TypeInv'
  BY NextTypeInv DEF DestructionInv, Inv
<1>1. ASSUME NEW r, NEW c, OwnedIn(cluster, r, c)
      PROVE  OwnedIn(cluster', r, c)
  BY <1>0, <1>1, OwnedStays
<1>2. ASSUME NEW r \in Run, NEW c, From(r, c)
      PROVE  OwnedIn(cluster', r, c)
  <2>1. OwnedIn(cluster, r, c)
    BY <1>0, <1>2, ClusterAssumption DEF From, Named, OwnedIn
  <2>2. QED
    BY <1>1, <2>1
<1>3. ASSUME NEW r \in Run
      PROVE  /\ OwnedIn(cluster', r, clusterId'[r])
             /\ OwnedIn(cluster', r, tear'[r].cid)
             /\ OwnedIn(cluster', r, sweep'.cid[r])
  <2>1. OwnedIn(cluster', r, clusterId'[r])
    <3>1. OwnedIn(cluster, r, clusterId'[r])
      BY <1>0, RowRefs DEF Named
    <3>2. QED
      BY <1>1, <3>1
  <2>2. OwnedIn(cluster', r, tear'[r].cid)
    <3>1. CASE tear'[r].cid = tear[r].cid
      BY <1>0, <1>1, <3>1 DEF Named
    <3>2. CASE From(r, tear'[r].cid)
      BY <1>2, <3>2
    <3>3. QED
      BY <1>0, <3>1, <3>2, TearRefs
  <2>3. OwnedIn(cluster', r, sweep'.cid[r])
    <3>1. CASE sweep'.cid[r] = sweep.cid[r]
      BY <1>0, <1>1, <3>1 DEF Named
    <3>2. CASE From(r, sweep'.cid[r])
      BY <1>2, <3>2
    <3>3. QED
      BY <1>0, <3>1, <3>2, SweepRefs DEF SweepRef
  <2>4. QED
    BY <2>1, <2>2, <2>3
<1>4. ASSUME NEW p \in Invocation
      PROVE  OwnedIn(cluster', prov'[p].run, prov'[p].cid)
  <2>1. CASE prov'[p].run = prov[p].run /\ prov'[p].cid = prov[p].cid
    <3>1. OwnedIn(cluster, prov[p].run, prov[p].cid)
      BY <1>0 DEF Named
    <3>2. OwnedIn(cluster', prov[p].run, prov[p].cid)
      BY <1>1, <3>1
    <3>3. QED
      BY <2>1, <3>2
  <2>2. CASE prov'[p].run \in Run /\ From(prov'[p].run, prov'[p].cid)
    BY <1>2, <2>2
  <2>3. CASE prov'[p].cid = NoCluster
    BY <2>3, ClusterAssumption DEF OwnedIn
  <2>4. CASE prov'[p].run = prov[p].run /\ Create(prov'[p].cid, prov[p].run)
    BY <1>0, <2>4 DEF OwnedIn, Create, TypeInv, TypeOK
  <2>5. QED
    BY <1>0, <2>1, <2>2, <2>3, <2>4, ProvRefs
<1>5. QED
  BY <1>3, <1>4 DEF Named

LEMMA NextDoomed ==
  ASSUME DestructionInv, [Next]_vars
  PROVE  Doomed'
<1>0. Inv /\ TypeInv /\ Doomed /\ TypeInv'
  BY NextTypeInv DEF DestructionInv, Inv
<1>1. ASSUME NEW r \in Run, status[r] \in Ending \/ status'[r] = "destroying"
      PROVE  status'[r] \in Ending
  BY <1>0, <1>1, EndingStays DEF Ending
<1>2. ASSUME NEW r \in Run
      PROVE  /\ tear'[r].pc = "destroy" => status'[r] \in Ending
             /\ sweep'.seen[r] = "destroying" => status'[r] \in Ending
  <2>1. ASSUME tear'[r].pc = "destroy" PROVE status'[r] \in Ending
    BY <1>0, <1>1, <2>1, TearRefs DEF Doomed
  <2>2. ASSUME sweep'.seen[r] = "destroying" PROVE status'[r] \in Ending
    <3>1. sweep.seen[r] = "destroying" \/ "destroying" \in {status[r], status'[r]}
      BY <1>0, <2>2, SweepRefs DEF SweepRef
    <3>2. QED
      BY <1>0, <1>1, <3>1 DEF Doomed, Ending
  <2>3. QED
    BY <2>1, <2>2
<1>3. SweepAim
  BY <1>0, SweepRefs
<1>4. ASSUME sweep'.pc = "destroy"
      PROVE  status'[sweep'.row] \in Ending
  <2>1. CASE sweep.pc = "destroy" /\ sweep'.row = sweep.row
    BY <1>0, <1>1, <2>1 DEF Doomed, TypeInv, Assigned
  <2>2. CASE /\ sweep'.row \in Run
             /\ sweep.seen[sweep'.row] = "destroying" \/ status'[sweep'.row] = "destroying"
    BY <1>0, <1>1, <2>2 DEF Doomed
  <2>3. QED
    BY <1>3, <1>4, <2>1, <2>2 DEF SweepAim
<1>5. ASSUME NEW c \in sweep'.reap
      PROVE  GoneOrOld(cluster', c)
  <2>1. c \in ClusterId
    BY <1>0 DEF TypeInv, TypeOK, SweepRecord
  <2>2. GoneOrOld(cluster, c)
    BY <1>0, <1>3 DEF SweepAim, Doomed
  <2>3. QED
    BY <1>0, <2>1, <2>2, OldStays
<1>6. QED
  BY <1>2, <1>4, <1>5 DEF Doomed

LEMMA DestructionInvariance == Spec => []DestructionInv
<1>1. DestructionInv /\ [Next]_vars => DestructionInv'
  BY NextTypeInv, NextListed, NextNamed, NextDoomed DEF DestructionInv, Inv
<1>2. QED
  BY <1>1, InitDestruction, PTL DEF Spec

(* A cluster that is live, young and named by a working row is destroyed   *)
(* neither by its own row's teardown, which would have claimed the row, nor*)
(* by another run's, whose ids are of its own clusters, nor by its age.    *)
LEMMA WorkingClusterSpared ==
  ASSUME DestructionInv, [Next]_vars, NEW c \in ClusterId, Live(c), ~cluster[c].old,
         NEW r \in WorkingRows, clusterId[r] = c
  PROVE  Live(c)'
<1>0. /\ TypeInv /\ TypeOK /\ Named /\ Doomed
      /\ cluster[c].state = "live" /\ cluster[c] \in Cluster /\ cluster \in [ClusterId -> Cluster]
  BY DEF DestructionInv, Inv, TypeInv, TypeOK, Live
<1>1. r \in Run /\ status[r] \notin Ending
  BY DEF WorkingRows, Working, Ending, Terminal
<1>2. cluster[c].run = r
  BY <1>0, <1>1 DEF Named, OwnedIn
<1>3. ~Destroyer(c)
  <2>1. ASSUME NEW s \in Run, TearDestroy(s), tear[s].cid = c
        PROVE  FALSE
    <3>1. status[s] \in Ending
      BY <1>0, <2>1 DEF TearDestroy, Doomed
    <3>2. cluster[c].run = s
      BY <1>0, <2>1 DEF Named, OwnedIn
    <3>3. QED
      BY <1>1, <1>2, <3>1, <3>2
  <2>2. ASSUME SweepDestroy, sweep.cid[sweep.row] = c
        PROVE  FALSE
    <3>1. sweep.row \in Run /\ status[sweep.row] \in Ending
      BY <1>0, <2>2 DEF SweepDestroy, Doomed, TypeInv, Assigned
    <3>2. cluster[c].run = sweep.row
      BY <1>0, <2>2, <3>1 DEF Named, OwnedIn
    <3>3. QED
      BY <1>1, <1>2, <3>1, <3>2
  <2>3. ASSUME SweepReap(c)
        PROVE  FALSE
    BY <1>0, <2>3 DEF SweepReap, Doomed, GoneOrOld
  <2>4. QED
    BY <2>1, <2>2, <2>3 DEF Destroyer
<1>4. cluster'[c].state = "live"
  <2>1. ASSUME NEW d \in ClusterId, NEW s, Create(d, s)
        PROVE  cluster'[c].state = "live"
    BY <1>0, <2>1 DEF Create
  <2>2. ASSUME NEW d \in ClusterId, Destroy(d), Destroyer(d)
        PROVE  cluster'[c].state = "live"
    BY <1>0, <1>3, <2>2 DEF Destroy
  <2>3. ASSUME NEW d \in ClusterId, Age(d)
        PROVE  cluster'[c].state = "live"
    BY <1>0, <2>3 DEF Age, Cluster
  <2>4. QED
    BY <1>0, <2>1, <2>2, <2>3, ClusterForm
<1>5. QED
  BY <1>4 DEF Live

(* Whoever tears clusters down - the route, the sweeper's rows, its age    *)
(* rule - none destroys a young cluster under a row that works on it.      *)
THEOREM WorkingClustersKept == Spec => WorkingClusterSafe
<1>1. DestructionInv /\ [Next]_vars =>
        [\A c \in ClusterId :
            Live(c) /\ ~cluster[c].old /\ (\E r \in WorkingRows : clusterId[r] = c) => Live(c)']_vars
  BY WorkingClusterSpared
<1>2. QED
  BY <1>1, DestructionInvariance, PTL DEF Spec, WorkingClusterSafe

-----------------------------------------------------------------------------
(* What a row needs before it may be used.  Its stage says so only after   *)
(* ProvPublish, and by then the id is in the row and the secret is stored; *)
(* what a teardown deletes is the secret of a row at its end.              *)

Has(p) ==
    LET r == prov[p].run
    IN /\ prov[p].pc = "admit" => prov[p].cid = NoCluster
       /\ prov[p].pc = "slot" /\ prov[p].cid # NoCluster => clusterId[r] # NoCluster
       /\ prov[p].pc = "identify" => prov[p].cid # NoCluster
       /\ prov[p].pc \in {"ready", "publish"} => clusterId[r] # NoCluster
       /\ prov[p].pc = "publish" => secret[r] # NoCluster \/ status[r] \in Ending

Equipped == UsableRowHasSecret /\ \A p \in Invocation : Has(p)

(* A row comes into use by ProvPublish alone.                              *)
Published(p, r) ==
    /\ prov[p].pc = "publish" /\ prov[p].run = r /\ status[r] = "provisioning"
    /\ prov'[p].pc = "idle"

LEMMA NewlyUsable ==
  ASSUME Inv, [Next]_vars, NEW r \in Run, status'[r] \in Usable, status[r] \notin Usable
  PROVE  \E p \in Invocation : Published(p, r)
<1> USE DEF Inv, TypeInv, TypeOK
<1>0. /\ \A s \in Run, to \in {"destroying", "destroyed", "failed"} :
            After(s, to) \in {status[s], to}
      /\ {"destroying", "destroyed", "failed"} \cap Usable = {}
      /\ {"seeding", "migrating"} \subseteq Usable
  BY DEF After, Usable
<1>1. ASSUME NEW p \in Invocation, ProvStep(p)
      PROVE  Published(p, r)
  <2>1. CASE ProvPublish(p)
    <3>1. prov[p].pc = "publish" /\ prov[p].run \in Run
          /\ status' = IF prov[p].seen = "provisioning"
                         THEN [status EXCEPT ![prov[p].run] = After(prov[p].run, "ready")]
                         ELSE status
      BY <2>1 DEF ProvPublish, Assigned
    <3>2. prov[p].run = r /\ status'[r] = After(r, "ready")
      BY <3>1
    <3>3. status[r] = "provisioning"
      BY <3>2 DEF After, CanMove, ALLOWED_TRANSITIONS, Usable, Status, Active, Working, Terminal
    <3>4. prov'[p].pc = "idle"
      BY <2>1 DEF ProvPublish, IdleProv
    <3>5. QED
      BY <3>1, <3>2, <3>3, <3>4 DEF Published
  <2>2. CASE ProvAdmit(p)
    BY <2>2 DEF ProvAdmit, Usable, Assigned
  <2>3. QED
    BY <1>1, <2>1, <2>2 DEF ProvStep, ProvBegin, ProvReuse, ProvCreate, ProvResume, ProvIdentify,
              ProvReady, ProvStop
<1>2. ASSUME NEW s \in Run, HandlerStep(s)
      PROVE  FALSE
  <2>1. status' = [status EXCEPT ![s] = status'[s]]
    BY <1>2 DEF HandlerStep, LoadSchema, ExecuteMigration, StartHold, Handler
  <2>2. s = r
    BY <2>1
  <2>3. \/ status[r] \in {"seeding", "ready"}
        \/ CanMove(status[r], "holding")
    BY <1>2, <2>2 DEF HandlerStep, LoadSchema, ExecuteMigration, StartHold, Handler
  <2>4. CanMove(status[r], "holding") => status[r] \in Usable
    BY DEF CanMove, ALLOWED_TRANSITIONS, Usable, Status, Active, Working, Terminal
  <2>5. QED
    BY <2>3, <2>4 DEF Usable
<1>3. ASSUME NEW s \in Run, TearStep(s)
      PROVE  FALSE
  <2>1. \/ UNCHANGED status
        \/ \E to \in {"destroying", "destroyed", "failed"} :
              status' = [status EXCEPT ![s] = After(s, to)]
    BY <1>3 DEF TearStep, TearRead, TearClaim, TearDestroy, TearFinish, TearFail, TearStop
  <2>2. QED
    BY <1>0, <2>1
<1>4. ASSUME SweepStep
      PROVE  FALSE
  <2>1. \/ UNCHANGED status
        \/ \E s \in Run, to \in {"destroying", "destroyed", "failed"} :
              status' = [status EXCEPT ![s] = After(s, to)]
        \/ \E s \in Run, to \in {"destroying", "destroyed"} : status' = [status EXCEPT ![s] = to]
    <3>1. ASSUME NEW s \in Run, SweepClaim(s)
          PROVE  \/ UNCHANGED status
                 \/ status' = [status EXCEPT ![s] = After(s, "destroying")]
                 \/ status' = [status EXCEPT ![s] = "destroying"]
      BY <3>1 DEF SweepClaim, SweepClaimed, SweepOverwrite, SweepReread
    <3>2. CASE SweepFinish \/ SweepFail
      BY <3>2 DEF SweepFinish, SweepFail, Assigned
    <3>3. QED
      BY <1>4, <3>1, <3>2 DEF SweepStep, SweepList, SweepDestroy, SweepProvider, SweepReap,
                              SweepEnd, SweepStop
  <2>2. QED
    BY <1>0, <2>1
<1>5. ASSUME TimeStep
      PROVE  FALSE
  BY <1>5 DEF TimeStep, Lapse, Age
<1>6. QED
  BY <1>1, <1>2, <1>3, <1>4, <1>5 DEF Next

(* A row keeps having an id, and its secret until its teardown has ended.  *)
LEMMA SecretChange ==
  ASSUME TypeInv, [Next]_vars, NEW r \in Run
  PROVE  \/ secret'[r] = secret[r]
         \/ secret'[r] = NoCluster /\ status'[r] = "destroyed"
         \/ \E p \in Invocation : ProvReady(p) /\ prov[p].run = r /\ secret'[r] = prov[p].cid
<1> USE DEF TypeInv, TypeOK
<1>1. ASSUME NEW p \in Invocation, ProvStep(p)
      PROVE  \/ secret'[r] = secret[r]
             \/ ProvReady(p) /\ prov[p].run = r /\ secret'[r] = prov[p].cid
  <2>1. CASE ProvReady(p)
    BY <2>1 DEF ProvReady
  <2>2. CASE ~ProvReady(p)
    BY <1>1, <2>2 DEF ProvStep, ProvBegin, ProvReuse, ProvAdmit, ProvCreate, ProvResume,
                      ProvIdentify, ProvPublish, ProvStop
  <2>3. QED
    BY <2>1, <2>2
<1>2. ASSUME NEW s \in Run, TearStep(s)
      PROVE  \/ secret'[r] = secret[r]
             \/ secret'[r] = NoCluster /\ status'[r] = "destroyed"
  <2>1. CASE TearFinish(s)
    BY <2>1 DEF TearFinish, After, Conflicts
  <2>2. CASE ~TearFinish(s)
    BY <1>2, <2>2 DEF TearStep, TearRead, TearClaim, TearDestroy, TearFail, TearStop
  <2>3. QED
    BY <2>1, <2>2
<1>3. ASSUME NEW s \in Run, HandlerStep(s)
      PROVE  UNCHANGED secret
  BY <1>3 DEF HandlerStep, LoadSchema, ExecuteMigration, StartHold
<1>4. CASE SweepStep
  BY <1>4 DEF SweepStep, SweepList, SweepClaim, SweepDestroy, SweepFinish, SweepFail,
              SweepProvider, SweepReap, SweepEnd, SweepStop
<1>5. CASE TimeStep
  BY <1>5 DEF TimeStep, Lapse, Age
<1>6. QED
  BY <1>1, <1>2, <1>3, <1>4, <1>5 DEF Next

(* The stages of one invocation, and what each step brings along.          *)
ProvMove(p) ==
    \/ prov'[p].pc = prov[p].pc /\ prov'[p].run = prov[p].run /\ prov'[p].cid = prov[p].cid
    \/ prov'[p].pc = "idle"
    \/ /\ prov'[p].pc = "admit" /\ prov'[p].cid = NoCluster
       /\ status'[prov'[p].run] \notin Connecting
    \/ /\ prov[p].pc = "admit" /\ prov'[p].pc = "slot" /\ prov'[p].run = prov[p].run
       /\ \/ /\ status[prov[p].run] # "absent" /\ UNCHANGED status
             /\ prov'[p].cid = clusterId[prov[p].run]
          \/ /\ status[prov[p].run] = "absent" /\ status'[prov[p].run] = "provisioning"
             /\ prov'[p].cid = prov[p].cid
    \/ /\ prov[p].pc = "slot" /\ prov'[p].pc = "identify" /\ prov'[p].run = prov[p].run
       /\ prov'[p].cid \in ClusterId /\ UNCHANGED status
    \/ /\ prov[p].pc = "slot" /\ prov'[p].pc = "ready" /\ prov'[p].run = prov[p].run
       /\ prov'[p].cid = prov[p].cid /\ prov[p].cid # NoCluster
    \/ /\ prov[p].pc = "identify" /\ prov'[p].pc = "ready" /\ prov'[p].run = prov[p].run
       /\ prov'[p].cid = prov[p].cid /\ clusterId'[prov[p].run] = prov[p].cid
    \/ /\ prov[p].pc = "ready" /\ prov'[p].pc = "publish" /\ prov'[p].run = prov[p].run
       /\ prov'[p].cid = prov[p].cid /\ prov[p].cid \in ClusterId
       /\ secret'[prov[p].run] = prov[p].cid

LEMMA ProvMoves ==
  ASSUME TypeInv, [Next]_vars, NEW p \in Invocation
  PROVE  ProvMove(p)
<1> USE DEF TypeInv, TypeOK
<1>0. prov \in [Invocation -> ProvRecord]
  OBVIOUS
<1>1. CASE prov'[p] = prov[p]
  BY <1>1 DEF ProvMove
<1>2. ASSUME ProvStep(p)
      PROVE  ProvMove(p)
  <2>0. prov[p].pc # "idle" => prov[p].run \in Run
    BY DEF Assigned
  <2>1. ASSUME NEW r \in Run, ProvBegin(p, r)
        PROVE  ProvMove(p)
    <3>1. prov'[p].pc = "admit" /\ prov'[p].cid = NoCluster /\ prov'[p].run = r
          /\ status'[r] \notin Connecting
      BY <1>0, <2>1 DEF ProvBegin, IdleProv, Connecting
    <3>2. QED
      BY <3>1 DEF ProvMove
  <2>2. CASE ProvReuse(p)
    <3>1. /\ prov[p].pc = "admit" /\ prov'[p].pc = "slot" /\ prov'[p].run = prov[p].run
          /\ status[prov[p].run] # "absent" /\ UNCHANGED status
          /\ prov'[p].cid = clusterId[prov[p].run]
      BY <1>0, <2>2 DEF ProvReuse
    <3>2. QED
      BY <3>1 DEF ProvMove
  <2>3. CASE ProvAdmit(p)
    <3>1. prov' = [prov EXCEPT ![p].pc = "slot", ![p].seen = "provisioning"]
          /\ prov[p].pc = "admit" /\ status[prov[p].run] = "absent"
          /\ status'[prov[p].run] = "provisioning"
      BY <2>0, <2>3 DEF ProvAdmit
    <3>2. prov'[p].pc = "slot" /\ prov'[p].run = prov[p].run /\ prov'[p].cid = prov[p].cid
      BY <1>0, <3>1 DEF ProvRecord
    <3>3. QED
      BY <3>1, <3>2 DEF ProvMove
  <2>4. CASE ProvCreate(p)
    <3>1. PICK c \in ClusterId :
             prov' = [prov EXCEPT ![p].pc = "identify", ![p].cid = c] \/ UNCHANGED prov
      BY <2>4 DEF ProvCreate
    <3>2. CASE prov' = [prov EXCEPT ![p].pc = "identify", ![p].cid = c]
      <4>1. prov'[p].pc = "identify" /\ prov'[p].run = prov[p].run /\ prov'[p].cid = c
        BY <1>0, <3>2 DEF ProvRecord
      <4>2. prov[p].pc = "slot" /\ UNCHANGED status
        BY <2>4 DEF ProvCreate
      <4>3. QED
        BY <4>1, <4>2 DEF ProvMove
    <3>3. QED
      BY <1>1, <3>1, <3>2
  <2>5. CASE ProvResume(p)
    <3>1. prov'[p].pc = "ready" /\ prov'[p].run = prov[p].run /\ prov'[p].cid = prov[p].cid
      BY <1>0, <2>5 DEF ProvResume, ProvRecord
    <3>2. QED
      BY <2>5, <3>1 DEF ProvResume, ProvMove
  <2>6. CASE ProvIdentify(p)
    <3>1. PICK x : prov' = [prov EXCEPT ![p].pc = "ready", ![p].seen = x]
      BY <2>6 DEF ProvIdentify
    <3>2. prov'[p].pc = "ready" /\ prov'[p].run = prov[p].run /\ prov'[p].cid = prov[p].cid
      BY <1>0, <3>1 DEF ProvRecord
    <3>3. prov[p].pc = "identify" /\ clusterId'[prov[p].run] = prov[p].cid
      BY <2>0, <2>6 DEF ProvIdentify
    <3>4. QED
      BY <3>2, <3>3 DEF ProvMove
  <2>7. CASE ProvReady(p)
    <3>1. prov'[p].pc = "publish" /\ prov'[p].run = prov[p].run /\ prov'[p].cid = prov[p].cid
      BY <1>0, <2>7 DEF ProvReady, ProvRecord
    <3>2. /\ prov[p].pc = "ready" /\ prov[p].cid \in ClusterId
          /\ secret'[prov[p].run] = prov[p].cid
      BY <2>0, <2>7 DEF ProvReady, Live
    <3>3. QED
      BY <3>1, <3>2 DEF ProvMove
  <2>8. CASE ProvPublish(p) \/ ProvStop(p)
    <3>1. prov'[p].pc = "idle"
      BY <1>0, <2>8 DEF ProvPublish, ProvStop, IdleProv
    <3>2. QED
      BY <3>1 DEF ProvMove
  <2>9. QED
    BY <1>2, <2>1, <2>2, <2>3, <2>4, <2>5, <2>6, <2>7, <2>8 DEF ProvStep
<1>3. ASSUME NEW q \in Invocation, q # p, ProvStep(q)
      PROVE  prov'[p] = prov[p]
  <2>1. prov' = [prov EXCEPT ![q] = prov'[q]]
    BY <1>0, <1>3 DEF ProvStep, ProvBegin, ProvReuse, ProvAdmit, ProvCreate, ProvResume,
                      ProvIdentify, ProvReady, ProvPublish, ProvStop
  <2>2. QED
    BY <1>0, <1>3, <2>1
<1>4. CASE UNCHANGED prov
  BY <1>1, <1>4
<1>5. ASSUME NEW s \in Run, HandlerStep(s) \/ TearStep(s)
      PROVE  UNCHANGED prov
  BY <1>5 DEF HandlerStep, LoadSchema, ExecuteMigration, StartHold, TearStep, TearRead, TearClaim,
              TearDestroy, TearFinish, TearFail, TearStop
<1>6. CASE SweepStep
  BY <1>4, <1>6 DEF SweepStep, SweepList, SweepClaim, SweepDestroy, SweepFinish, SweepFail,
                    SweepProvider, SweepReap, SweepEnd, SweepStop
<1>7. CASE TimeStep
  BY <1>4, <1>7 DEF TimeStep, Lapse, Age
<1>8. QED
  BY <1>1, <1>2, <1>3, <1>4, <1>5, <1>6, <1>7 DEF Next

LEMMA IdKept ==
  ASSUME TypeInv, Equipped, [Next]_vars, NEW r \in Run, clusterId[r] # NoCluster
  PROVE  clusterId'[r] # NoCluster
  BY RowRefs DEF Equipped, Has

LEMMA NextEquipped ==
  ASSUME Inv, Equipped, [Next]_vars
  PROVE  Equipped'
<1>0. TypeInv /\ TypeInv'
  BY NextTypeInv DEF Inv
<1>1. ASSUME NEW r \in Run, secret[r] # NoCluster, status'[r] # "destroyed"
      PROVE  secret'[r] # NoCluster
  BY <1>0, <1>1, SecretChange, ClusterAssumption DEF ProvReady, Live
<1>2. ASSUME NEW r \in Run, status'[r] \in Usable
      PROVE  clusterId'[r] # NoCluster /\ secret'[r] # NoCluster
  <2>1. clusterId[r] # NoCluster /\ secret[r] # NoCluster
    <3>1. CASE status[r] \in Usable
      BY <3>1 DEF Equipped, UsableRowHasSecret
    <3>2. CASE status[r] \notin Usable
      <4>1. PICK p \in Invocation : Published(p, r)
        BY <1>2, <3>2, NewlyUsable
      <4>2. QED
        BY <4>1 DEF Published, Equipped, Has, Ending, Terminal
    <3>3. QED
      BY <3>1, <3>2
  <2>2. QED
    BY <1>0, <1>1, <1>2, <2>1, IdKept DEF Usable
<1>3. ASSUME NEW p \in Invocation
      PROVE  Has(p)'
  <2> DEFINE r == prov[p].run
  <2>0. Has(p) /\ (prov[p].pc # "idle" => r \in Run) /\ (prov'[p].pc # "idle" => prov'[p].run \in Run)
    BY <1>0 DEF Equipped, TypeInv, Assigned
  <2>1. CASE prov'[p].pc = prov[p].pc /\ prov'[p].run = r /\ prov'[p].cid = prov[p].cid
    <3>1. CASE prov[p].pc = "idle"
      BY <2>1, <3>1 DEF Has
    <3>2. CASE prov[p].pc # "idle"
      <4>1. clusterId[r] # NoCluster => clusterId'[r] # NoCluster
        BY <1>0, <2>0, <3>2, IdKept
      <4>2. /\ status[r] \in Ending => status'[r] \in Ending
            /\ secret[r] # NoCluster => secret'[r] # NoCluster \/ status'[r] = "destroyed"
        BY <1>1, <2>0, <3>2, EndingStays
      <4>3. QED
        BY <2>0, <2>1, <4>1, <4>2 DEF Has, Ending, Terminal
    <3>3. QED
      BY <3>1, <3>2
  <2>2. CASE prov'[p].pc = "idle" \/ (prov'[p].pc = "admit" /\ prov'[p].cid = NoCluster)
    BY <2>2 DEF Has
  <2>3. CASE /\ prov[p].pc = "admit" /\ prov'[p].pc = "slot" /\ prov'[p].run = r
             /\ prov'[p].cid \in {clusterId[r], prov[p].cid}
    <3>1. prov'[p].cid # NoCluster => clusterId'[r] # NoCluster
      BY <1>0, <2>0, <2>3, IdKept DEF Has
    <3>2. QED
      BY <2>3, <3>1 DEF Has
  <2>4. CASE prov'[p].pc = "identify" /\ prov'[p].cid \in ClusterId
    BY <2>4, ClusterAssumption DEF Has
  <2>5. CASE /\ prov[p].pc \in {"slot", "identify"} /\ prov'[p].pc = "ready" /\ prov'[p].run = r
             /\ prov[p].cid # NoCluster
             /\ prov[p].pc = "identify" => clusterId'[r] = prov[p].cid
    <3>1. clusterId'[r] # NoCluster
      BY <1>0, <2>0, <2>5, IdKept DEF Has
    <3>2. QED
      BY <2>5, <3>1 DEF Has
  <2>6. CASE /\ prov[p].pc = "ready" /\ prov'[p].pc = "publish" /\ prov'[p].run = r
             /\ secret'[r] \in ClusterId
    <3>1. clusterId'[r] # NoCluster /\ secret'[r] # NoCluster
      BY <1>0, <2>0, <2>6, IdKept, ClusterAssumption DEF Has
    <3>2. QED
      BY <2>6, <3>1 DEF Has
  <2>7. QED
    BY <1>0, <2>0, <2>1, <2>2, <2>3, <2>4, <2>5, <2>6, ProvMoves DEF ProvMove, Has
<1>4. QED
  BY <1>2, <1>3 DEF Equipped, UsableRowHasSecret

LEMMA EquippedInvariance == Spec => []Equipped
<1>1. Init => Equipped
  BY DEF Init, Equipped, UsableRowHasSecret, Usable, Has, IdleProv
<1>2. Inv /\ Equipped /\ [Next]_vars => Equipped'
  BY NextEquipped
<1>3. QED
  BY <1>1, <1>2, Invariance, PTL DEF Spec

(* Whatever invocations overlap, die and retry, and whatever teardown runs *)
(* meanwhile, a row that may be used has its cluster id and its secret.    *)
THEOREM UsableRowsEquipped == Spec => []UsableRowHasSecret
<1>1. Equipped => UsableRowHasSecret
  BY DEF Equipped
<1>2. QED
  BY <1>1, EquippedInvariance, PTL

-----------------------------------------------------------------------------
(* ... and as long as no two invocations for one run overlap, the secret   *)
(* leads to the cluster that the row names while it may be connected with: *)
(* an invocation begins where it may not be, and only its own end makes    *)
(* the row ready.  It may replace the cluster of a row that is held.       *)

OneEach ==
    \A p, q \in Invocation :
        prov[p].pc # "idle" /\ prov[q].pc # "idle" /\ prov[p].run = prov[q].run => p = q

Alone(p) ==
    LET r == prov[p].run
    IN /\ prov[p].pc # "idle" => status[r] \notin Connecting
       /\ prov[p].pc \notin {"idle", "admit"} => status[r] # "absent"
       /\ prov[p].pc = "admit" => prov[p].cid = NoCluster
       /\ prov[p].pc \in {"slot", "ready", "publish"} => prov[p].cid = clusterId[r]
       /\ prov[p].pc = "publish" => secret[r] = clusterId[r] \/ status[r] \in Ending

Matched ==
    /\ SecretLeadsToRowCluster
    /\ \A p \in Invocation : Alone(p)
    /\ \A r \in Run : status[r] = "absent" => clusterId[r] = NoCluster

LEMMA NewlyConnecting ==
  ASSUME Inv, [Next]_vars, NEW r \in Run,
         status'[r] \in Connecting, status[r] \notin Connecting
  PROVE  \E p \in Invocation : Published(p, r)
<1>1. CASE status[r] \notin Usable
  BY <1>1, NewlyUsable DEF Connecting, Usable
<1>2. CASE status[r] = "holding"
  <2>1. UNCHANGED status \/ \E s \in Run : Admitted(s) \/ AfterMove(s) \/ SweepWrite(s)
    BY StatusForm DEF Inv
  <2>2. ASSUME NEW s \in Run, AfterMove(s)
        PROVE  status'[r] \notin Connecting
    <3>1. PICK to \in Status : status' = [status EXCEPT ![s] = After(s, to)]
      BY <2>2 DEF AfterMove
    <3>2. After(r, to) \in {"holding", "destroying"}
      BY <1>2 DEF After, CanMove, ALLOWED_TRANSITIONS, Status, Active, Working, Terminal
    <3>3. QED
      BY <1>2, <3>1, <3>2 DEF Inv, TypeInv, TypeOK, Connecting
  <2>3. ASSUME NEW s \in Run, Admitted(s) \/ SweepWrite(s)
        PROVE  status'[r] \notin Connecting
    BY <1>2, <2>3 DEF Admitted, SweepWrite, Inv, TypeInv, TypeOK, Connecting
  <2>4. QED
    BY <1>2, <2>1, <2>2, <2>3
<1>3. QED
  BY <1>1, <1>2 DEF Connecting, Usable

LEMMA NextMatched ==
  ASSUME OneEach, Inv, Matched, [Next]_vars
  PROVE  Matched'
<1>0. TypeInv /\ TypeInv' /\ Listed
  BY NextTypeInv DEF Inv
<1>1. ASSUME NEW r \in Run, status[r] # "absent"
      PROVE  status'[r] # "absent"
  BY <1>0, <1>1, StaysPresent
<1>2. ASSUME NEW r \in Run, clusterId'[r] # clusterId[r]
      PROVE  \E p \in Invocation :
                /\ prov[p].pc = "identify" /\ prov[p].run = r
                /\ status[r] # "absent" /\ status'[r] \notin Connecting
  <2>1. PICK p \in Invocation : prov[p].pc = "identify" /\ prov[p].run = r
    BY <1>0, <1>2, RowRefs
  <2>2. status[r] # "absent" /\ status[r] \notin Connecting
    BY <2>1 DEF Matched, Alone
  <2>3. ASSUME status'[r] \in Connecting
        PROVE  FALSE
    <3>1. PICK q \in Invocation : Published(q, r)
      BY <2>2, <2>3, NewlyConnecting
    <3>2. QED
      BY <2>1, <3>1 DEF OneEach, Published
  <2>4. QED
    BY <2>1, <2>2, <2>3
<1>3. ASSUME NEW r \in Run, status'[r] = "absent"
      PROVE  clusterId'[r] = NoCluster
  <2>1. status[r] = "absent"
    BY <1>1, <1>3
  <2>2. QED
    BY <1>2, <2>1 DEF Matched
<1>4. ASSUME NEW r \in Run, secret'[r] # secret[r]
      PROVE  \/ status'[r] = "destroyed"
             \/ /\ secret'[r] = clusterId[r]
                /\ \E p \in Invocation : prov[p].pc = "ready" /\ prov[p].run = r
  BY <1>0, <1>4, SecretChange DEF Matched, Alone, ProvReady
<1>5. ASSUME NEW r \in Run, status'[r] \in Connecting
      PROVE  secret'[r] = clusterId'[r]
  <2>1. secret[r] = clusterId[r]
    <3>1. CASE status[r] \in Connecting
      BY <3>1 DEF Matched, SecretLeadsToRowCluster
    <3>2. CASE status[r] \notin Connecting
      <4>1. PICK p \in Invocation : Published(p, r)
        BY <1>5, <3>2, NewlyConnecting
      <4>2. QED
        BY <4>1 DEF Published, Matched, Alone, Ending, Terminal
    <3>3. QED
      BY <3>1, <3>2
  <2>2. clusterId'[r] = clusterId[r]
    BY <1>2, <1>5
  <2>3. QED
    BY <1>4, <1>5, <2>1, <2>2 DEF Connecting
<1>6. ASSUME NEW p \in Invocation
      PROVE  Alone(p)'
  <2> DEFINE r == prov[p].run
  <2>0. Alone(p) /\ (prov[p].pc # "idle" => r \in Run)
    BY <1>0 DEF Matched, TypeInv, Assigned
  <2>1. ASSUME NEW x \in Run, x = r, prov[p].pc \notin {"idle", "identify"}
        PROVE  clusterId'[x] = clusterId[x]
    BY <1>2, <2>1 DEF OneEach
  \* Only an invocation that ends here makes its row ready.
  <2>2. ASSUME prov[p].pc # "idle", prov'[p].pc # "idle", prov'[p].run = r
        PROVE  status'[r] \notin Connecting
    <3>1. status[r] \notin Connecting
      BY <2>0, <2>2 DEF Alone
    <3>2. ASSUME NEW q \in Invocation, Published(q, r)
          PROVE  FALSE
      BY <2>2, <3>2 DEF OneEach, Published
    <3>3. QED
      BY <2>0, <2>2, <3>1, <3>2, NewlyConnecting
  <2>3. CASE prov'[p].pc = prov[p].pc /\ prov'[p].run = r /\ prov'[p].cid = prov[p].cid
    <3>1. CASE prov[p].pc = "idle"
      BY <2>3, <3>1 DEF Alone
    <3>2. CASE prov[p].pc # "idle"
      <4>1. /\ status[r] # "absent" => status'[r] # "absent"
            /\ prov[p].pc # "identify" => clusterId'[r] = clusterId[r]
        BY <1>1, <2>0, <2>1, <3>2
      <4>2. status'[r] \notin Connecting
        BY <2>2, <2>3, <3>2
      <4>3. prov[p].pc = "publish" => secret'[r] = clusterId'[r] \/ status'[r] \in Ending
        BY <1>4, <2>0, <3>2, <4>1, EndingStays DEF Alone, Ending, Terminal
      <4>4. QED
        BY <2>0, <2>3, <4>1, <4>2, <4>3 DEF Alone
    <3>3. QED
      BY <3>1, <3>2
  <2>4. CASE \/ prov'[p].pc = "idle"
             \/ /\ prov'[p].pc = "admit" /\ prov'[p].cid = NoCluster
                /\ status'[prov'[p].run] \notin Connecting
    BY <2>4 DEF Alone
  <2>5. CASE /\ prov[p].pc = "admit" /\ prov'[p].pc = "slot" /\ prov'[p].run = r
             /\ \/ /\ status[r] # "absent" /\ UNCHANGED status
                   /\ prov'[p].cid = clusterId[r]
                \/ /\ status[r] = "absent" /\ status'[r] = "provisioning"
                   /\ prov'[p].cid = prov[p].cid
    <3>1. status[r] = "absent" => clusterId[r] = NoCluster
      BY <2>0, <2>5 DEF Matched
    <3>2. prov'[p].cid = clusterId'[r] /\ status'[r] # "absent"
      BY <2>0, <2>1, <2>5, <3>1 DEF Alone
    <3>3. QED
      BY <2>2, <2>5, <3>2 DEF Alone
  <2>6. CASE /\ prov[p].pc = "slot" /\ prov'[p].pc = "identify" /\ prov'[p].run = r
             /\ UNCHANGED status
    BY <2>0, <2>2, <2>6 DEF Alone
  <2>7. CASE /\ prov[p].pc \in {"slot", "identify"} /\ prov'[p].pc = "ready" /\ prov'[p].run = r
             /\ prov'[p].cid = prov[p].cid
             /\ prov[p].pc = "identify" => clusterId'[r] = prov[p].cid
    BY <1>1, <2>0, <2>1, <2>2, <2>7 DEF Alone
  <2>8. CASE /\ prov[p].pc = "ready" /\ prov'[p].pc = "publish" /\ prov'[p].run = r
             /\ prov'[p].cid = prov[p].cid /\ secret'[r] = prov[p].cid
    BY <1>1, <2>0, <2>1, <2>2, <2>8 DEF Alone
  <2>9. QED
    BY <1>0, <2>3, <2>4, <2>5, <2>6, <2>7, <2>8, ProvMoves DEF ProvMove
<1>7. QED
  BY <1>3, <1>5, <1>6 DEF Matched, SecretLeadsToRowCluster

(* As long as no two invocations for one run overlap, the cluster that is  *)
(* migrated is the one the row names, and so the one its teardown destroys,*)
(* whatever dies and is retried and whatever secret could not be read;     *)
(* invocations for different runs may overlap as they like.                *)
THEOREM SecretIsOfRowCluster ==
  Spec => ([]OneEach => []SecretLeadsToRowCluster)
<1>1. Init => Matched
  BY DEF Init, Matched, SecretLeadsToRowCluster, Connecting, Alone, IdleProv
<1>2. Inv /\ OneEach /\ Matched /\ [Next]_vars => Matched'
  BY NextMatched
<1>3. Matched => SecretLeadsToRowCluster
  BY DEF Matched
<1>4. QED
  BY <1>1, <1>2, <1>3, Invariance, PTL DEF Spec
=============================================================================
