----------------------- MODULE MigrationWorkflowProofs -----------------------
(***************************************************************************)
(* Proofs about MigrationWorkflow, for any number of concurrent invocations*)
(* and any bound on the retries.                                           *)
(*                                                                         *)
(* Attempts that were given up go on beside the one that is awaited, so the*)
(* argument never rests on an invocation being alone.  It rests on three   *)
(* facts that nothing takes back: what ExecuteMigration answered, once     *)
(* taken over, is final; a shadow that has left its work does not return to*)
(* it; and what was loaded or applied stays so.                            *)
(***************************************************************************)
EXTENDS MigrationWorkflow, TLAPS

(* The table of migration_workflow.asl.json, state by state.               *)
LEMMA Domains ==
    /\ DOMAIN PrepareStates = {"DiscoverSchema", "ProvisionShadowCluster", "LoadSchema"}
    /\ DOMAIN MeasureStates = {"ExecuteMigration", "CollectMetrics", "PersistResults"}
    /\ DOMAIN ClosingStates = {"MarkSucceeded", "MarkFailed", "Cleanup", "ChooseOutcome"}
  BY DEF PrepareStates, MeasureStates, ClosingStates

(* The table is the union of its three parts and the final states.         *)
LEMMA AslIs ==
    /\ \A n \in DOMAIN PrepareStates : Asl[n] = PrepareStates[n]
    /\ \A n \in DOMAIN MeasureStates : Asl[n] = MeasureStates[n]
    /\ \A n \in DOMAIN ClosingStates : Asl[n] = ClosingStates[n]
    /\ \A n \in Ended : Asl[n] = Final
  BY Domains DEF Place, Asl, Task, Ended

(* Where each state leads.                                                 *)
LEMMA Table ==
    /\ Asl["DiscoverSchema"].next = "ProvisionShadowCluster"
    /\ Asl["ProvisionShadowCluster"].next = "LoadSchema"
    /\ Asl["LoadSchema"].next = "ExecuteMigration"
    /\ Asl["ExecuteMigration"].next = "CollectMetrics"
    /\ Asl["CollectMetrics"].next = "PersistResults"
    /\ Asl["PersistResults"].next = "MarkSucceeded"
    /\ Asl["MarkSucceeded"].next = "Cleanup" /\ Asl["MarkFailed"].next = "Cleanup"
    /\ Asl["Cleanup"].next = "ChooseOutcome"
    /\ Asl["ChooseOutcome"].next = "WorkflowSucceeded"
    /\ \A n \in Task \ {"Cleanup"} : Asl[n].catch = "MarkFailed"
    /\ Asl["Cleanup"].catch = "CleanupFailed"
    /\ \A n \in Place : Asl[n].type = "pass" <=> n \in {"MarkSucceeded", "MarkFailed"}
    /\ \A n \in Task : Asl[n].retries \in 0 .. RetryBound
<1>1. /\ PrepareStates.DiscoverSchema = TaskState(3, "MarkFailed", "ProvisionShadowCluster")
      /\ PrepareStates.ProvisionShadowCluster = TaskState(3, "MarkFailed", "LoadSchema")
      /\ PrepareStates.LoadSchema = TaskState(3, "MarkFailed", "ExecuteMigration")
  BY DEF PrepareStates
<1>2. /\ MeasureStates.ExecuteMigration = TaskState(2, "MarkFailed", "CollectMetrics")
      /\ MeasureStates.CollectMetrics = TaskState(3, "MarkFailed", "PersistResults")
      /\ MeasureStates.PersistResults = TaskState(3, "MarkFailed", "MarkSucceeded")
  BY DEF MeasureStates
<1>3. /\ ClosingStates.MarkSucceeded = Tagged("Cleanup")
      /\ ClosingStates.MarkFailed = Tagged("Cleanup")
      /\ ClosingStates.Cleanup = TaskState(4, "CleanupFailed", "ChooseOutcome")
      /\ ClosingStates.ChooseOutcome.type = "choice"
      /\ ClosingStates.ChooseOutcome.next = "WorkflowSucceeded"
  BY DEF ClosingStates
<1>4. \A c, n : \A r \in Nat :
        /\ TaskState(r, c, n).next = n /\ TaskState(r, c, n).catch = c
        /\ TaskState(r, c, n).type = "task"
        /\ TaskState(r, c, n).retries \in 0 .. RetryBound
  BY ConstantsAssumption DEF TaskState, MinOf
<1>5. \A n : Tagged(n).next = n /\ Tagged(n).type = "pass"
  BY DEF Tagged
<1>6. Final.type = "final"
  BY DEF Final
<1>7. QED
  BY <1>1, <1>2, <1>3, <1>4, <1>5, <1>6, AslIs, Domains DEF Place, Task, Ended

(* MarkSucceeded and MarkFailed record which of them was passed.           *)
LEMMA TagSets ==
    ASSUME Tag, at \in Place
    PROVE  /\ at \in {"MarkSucceeded", "MarkFailed"} /\ Goto("Cleanup")
           /\ failed' \in BOOLEAN /\ (failed' <=> at = "MarkFailed")
<1>1. at \in {"MarkSucceeded", "MarkFailed"} /\ Goto("Cleanup")
  BY Table DEF Tag
<1>2. failed' \in BOOLEAN /\ (failed' <=> at = "MarkFailed")
  BY Zenon DEF Tag
<1>3. QED
  BY <1>1, <1>2

-----------------------------------------------------------------------------
(* The inductive invariant.                                                *)

Closing == {"Cleanup", "ChooseOutcome"} \cup Ended

(* The execution is closing and will report success unless cleanup fails.  *)
Succeeding ==
    \/ at \in {"MarkSucceeded", "WorkflowSucceeded"}
    \/ at \in {"Cleanup", "ChooseOutcome"} /\ ~failed

(* The shadow has been, and is at work no longer.                          *)
Gone == shadow \notin AtWork \cup {"absent"}

(* The awaited invocation is of the current task, and invocations of the   *)
(* closing tasks exist only from there on.                                 *)
Flow ==
    /\ awaited # NoInvocation => at \in Task /\ inv[awaited].task = at
    /\ at = "WorkflowSucceeded" => ~failed
    /\ \A i \in Invocation :
         /\ inv[i].task = "Cleanup" => at \in Closing
         /\ inv[i].task = "PersistResults" =>
              at \in {"PersistResults", "MarkSucceeded", "MarkFailed"} \cup Closing

(* An answer of ExecuteMigration is taken over before it is persisted, and *)
(* is what is persisted whichever attempt does so.                         *)
Measured ==
    /\ at \in {"CollectMetrics", "PersistResults"} \/ Succeeding => measured # "none"
    /\ Succeeding => result = measured
    /\ \A i \in Invocation :
         /\ At(i, "ExecuteMigration", "answer") => inv[i].answer # "none"
         /\ inv[i].task = "PersistResults" => measured # "none"
         /\ At(i, "PersistResults", "answer") => result = measured

(* A shadow exists once provisioning has answered, and is gone once the    *)
(* cleanup of a successful execution has.                                  *)
Reclaimed ==
    /\ at \in {"LoadSchema", "ExecuteMigration", "CollectMetrics", "PersistResults"}
         \/ Succeeding => shadow # "absent"
    /\ (at = "ChooseOutcome" /\ ~failed) \/ at = "WorkflowSucceeded" => Gone
    /\ \A i \in Invocation :
         /\ inv[i].task = "ProvisionShadowCluster" /\ inv[i].pc \in {"work", "answer"} =>
              shadow # "absent"
         /\ inv[i].task = "Cleanup" /\ ~failed => shadow # "absent"
         /\ At(i, "Cleanup", "answer") /\ ~failed => Gone

Loaded == loads > 0 \/ Gone

(* ExecuteMigration starts only on a loaded shadow or on one that is gone, *)
(* where it can do nothing.                                                *)
Applied ==
    /\ at = "ExecuteMigration" => Loaded
    /\ shadow = "migrating" => loads > 0
    /\ "ok" \in {measured, result} => applied > 0 /\ loads > 0
    /\ \A i \in Invocation :
         /\ At(i, "LoadSchema", "answer") => Loaded
         /\ inv[i].task = "ExecuteMigration" =>
              /\ Loaded
              /\ inv[i].pc = "work" => loads > 0
              /\ inv[i].pc = "answer" /\ inv[i].answer = "ok" => applied > 0 /\ loads > 0

(* As long as no attempt was abandoned, no other invocation can put the    *)
(* shadow to work behind the cleanup's back.                               *)
Alone ==
    ~abandoned =>
      /\ at \notin {"TIMED_OUT", "ABORTED"} =>
           \A i \in Invocation : inv[i].pc # "idle" => awaited = i
      /\ \A i \in Invocation : awaited = i /\ At(i, "Cleanup", "answer") => shadow \notin AtWork
      /\ at \in {"ChooseOutcome", "WorkflowSucceeded", "WorkflowFailed"} => shadow \notin AtWork

Inv == TypeOK /\ Flow /\ Measured /\ Reclaimed /\ Applied /\ Alone

-----------------------------------------------------------------------------
(* Type correctness.                                                       *)

LEMMA Typed ==
    /\ Idle \in InvocationRecord
    /\ \A n \in Task : Asl[n].next \in Place /\ Asl[n].catch \in Place
    /\ Task \subseteq Place /\ Ended \subseteq Place
  BY Table DEF Idle, InvocationRecord, Measure, Task, Ended, Place

(* A handler's step from one point to the next.                            *)
LEMMA ToTyped ==
    ASSUME TypeOK, NEW i \in Invocation, NEW pc \in {"begin", "work", "raise", "answer"},
           To(i, pc)
    PROVE  inv' \in [Invocation -> InvocationRecord]
<1>1. [inv[i] EXCEPT !.pc = pc] \in InvocationRecord
  BY DEF TypeOK, InvocationRecord
<1>2. QED
  BY <1>1 DEF TypeOK, To

(* The invariant holds before the first task is invoked.                   *)
LEMMA InitInv == Init => Inv
<1> SUFFICES ASSUME Init PROVE Inv
  OBVIOUS
<1>1. TypeOK
  <2>1. inv \in [Invocation -> InvocationRecord]
    BY Typed DEF Init
  <2>2. failed \in BOOLEAN /\ abandoned \in BOOLEAN /\ snapshot \in BOOLEAN
    BY Zenon DEF Init
  <2>3. at \in Place /\ shadow \in ShadowStatus /\ {measured, result} \subseteq Measure
    BY DEF Init, Place, Task, ShadowStatus, Measure
  <2>4. retries \in 0 .. RetryBound /\ loads \in Nat /\ applied \in Nat
    BY ConstantsAssumption DEF Init
  <2>5. QED
    BY <2>1, <2>2, <2>3, <2>4 DEF Init, TypeOK
<1>2. \A i \in Invocation : inv[i].task = "none" /\ inv[i].pc = "idle"
  BY DEF Init, Idle
<1>3. Flow /\ Measured /\ Reclaimed
  BY <1>2 DEF Init, Flow, Measured, Reclaimed, Succeeding, At
<1>4. Applied /\ Alone
  BY <1>2 DEF Init, Applied, Alone, At, AtWork
<1>5. QED
  BY <1>1, <1>3, <1>4 DEF Inv

(* Every step keeps the types; Flow places what an awaited answer leads to.*)
LEMMA NextTypeOK == TypeOK /\ Flow /\ [Next]_vars => TypeOK'
<1> SUFFICES ASSUME TypeOK, Flow, [Next]_vars PROVE TypeOK'
  OBVIOUS
<1> USE ConstantsAssumption, Typed DEF TypeOK
<1>1. ASSUME NEW i \in Invocation, Invoke(i) PROVE TypeOK'
  <2>1. [Idle EXCEPT !.task = at, !.pc = "begin"] \in InvocationRecord
    BY <1>1 DEF Invoke, InvocationRecord
  <2>2. QED
    BY <1>1, <2>1 DEF Invoke, dataVars
<1>2. ASSUME NEW i \in Invocation, Answer(i) PROVE TypeOK'
  <2>1. inv' \in [Invocation -> InvocationRecord] /\ inv[i].answer \in Measure
    BY <1>2 DEF Answer, InvocationRecord
  <2>2. CASE awaited = i
    BY <1>2, <2>1, <2>2 DEF Answer, Goto, dataVars, Flow
  <2>3. CASE awaited # i
    BY <1>2, <2>1, <2>3 DEF Answer, execVars, dataVars
  <2>4. QED
    BY <2>2, <2>3
<1>3. ASSUME NEW i \in Invocation, Raise(i) PROVE TypeOK'
  <2>1. inv' \in [Invocation -> InvocationRecord]
    BY <1>3 DEF Raise
  <2>2. at' \in Place /\ retries' \in 0 .. RetryBound /\ awaited' \in Invocation \cup
      {NoInvocation}
    BY <1>3 DEF Raise, Goto, Flow
  <2>3. QED
    BY <1>3, <2>1, <2>2 DEF Raise, dataVars
<1>4. ASSUME NEW i \in Invocation, GiveUp(i) PROVE TypeOK'
  <2>1. inv' \in [Invocation -> InvocationRecord] /\ abandoned' \in BOOLEAN
    BY <1>4 DEF GiveUp
  <2>2. at \in Task /\ Asl[at].retries \in 0 .. RetryBound
    BY <1>4, Table DEF GiveUp, Flow
  <2>3. at' \in Place /\ retries' \in 0 .. RetryBound /\ awaited' \in Invocation \cup
      {NoInvocation}
    BY <1>4, <2>2 DEF GiveUp, Goto
  <2>4. QED
    BY <1>4, <2>1, <2>3 DEF GiveUp, dataVars
<1>5. ASSUME NEW i \in Invocation, DiscoverBegin(i) PROVE TypeOK'
  BY <1>5, ToTyped DEF DiscoverBegin, execVars, dataVars
<1>6. ASSUME NEW i \in Invocation, DiscoverPersist(i) PROVE TypeOK'
  BY <1>6, ToTyped DEF DiscoverPersist, execVars, dataVars
<1>7. ASSUME NEW i \in Invocation, DiscoverFail(i) PROVE TypeOK'
  BY <1>7, ToTyped DEF DiscoverFail, execVars, dataVars
<1>8. ASSUME NEW i \in Invocation, ProvisionBegin(i) PROVE TypeOK'
  BY <1>8, ToTyped DEF ProvisionBegin, execVars, dataVars, ShadowStatus
<1>9. ASSUME NEW i \in Invocation, ProvisionReady(i) PROVE TypeOK'
  BY <1>9, ToTyped DEF ProvisionReady, execVars, dataVars, ShadowStatus
<1>10. ASSUME NEW i \in Invocation, LoadBegin(i) PROVE TypeOK'
  BY <1>10, ToTyped DEF LoadBegin, execVars, dataVars, ShadowStatus
<1>11. ASSUME NEW i \in Invocation, LoadRows(i) PROVE TypeOK'
  BY <1>11, ToTyped DEF LoadRows, execVars, dataVars
<1>12. ASSUME NEW i \in Invocation, ExecuteBegin(i) PROVE TypeOK'
  BY <1>12, ToTyped DEF ExecuteBegin, execVars, dataVars, ShadowStatus
<1>13. ASSUME NEW i \in Invocation, ExecuteSql(i) PROVE TypeOK'
  <2>1. PICK ok, committed \in BOOLEAN :
          /\ applied' = IF committed THEN applied + 1 ELSE applied
          /\ inv' = [inv EXCEPT ![i].pc = "answer",
                                ![i].answer = IF ok THEN "ok" ELSE "failed"]
    BY <1>13 DEF ExecuteSql
  <2>2. [inv[i] EXCEPT !.pc = "answer", !.answer = IF ok THEN "ok" ELSE "failed"]
          \in InvocationRecord
    BY DEF InvocationRecord, Measure
  <2>3. QED
    <3>1. applied' \in Nat
      BY <2>1
    <3>2. inv' \in [Invocation -> InvocationRecord]
      BY <2>1, <2>2
    <3>3. QED
      BY <1>13, <3>1, <3>2 DEF ExecuteSql, execVars
<1>14. ASSUME NEW i \in Invocation, CollectMetrics(i) PROVE TypeOK'
  BY <1>14, ToTyped DEF CollectMetrics, execVars, dataVars
<1>15. ASSUME NEW i \in Invocation, PersistResults(i) PROVE TypeOK'
  BY <1>15, ToTyped DEF PersistResults, execVars, dataVars
<1>16. ASSUME NEW i \in Invocation, Cleanup(i) PROVE TypeOK'
  BY <1>16, ToTyped DEF Cleanup, execVars, dataVars, ShadowStatus
<1>17. CASE Tag
  BY <1>17, TagSets DEF Tag, Goto, dataVars, Place, Task
<1>18. CASE ChooseOutcome
  BY <1>18, Table DEF ChooseOutcome, Goto, dataVars, Place, Ended
<1>19. CASE Reclaim
  BY <1>19 DEF Reclaim, execVars, ShadowStatus
<1>20. CASE UNCHANGED vars
  BY <1>20 DEF vars, execVars, dataVars
<1>21. ASSUME NEW n \in {"TIMED_OUT", "ABORTED"}, EndFromOutside(n) PROVE TypeOK'
  BY <1>21 DEF EndFromOutside, Goto, dataVars, Ended
<1>22. QED
  BY <1>1, <1>2, <1>3, <1>4, <1>5, <1>6, <1>7, <1>8, <1>9, <1>10, <1>11, <1>12, <1>13, <1>14,
     <1>15, <1>16, <1>17, <1>18, <1>19, <1>20, <1>21
     DEF Next, StateMachineStep, InvocationStep, HandlerStep

-----------------------------------------------------------------------------
(* Each part of the invariant is preserved by every step.                  *)

LEMMA NextFlow == TypeOK /\ Flow /\ [Next]_vars => Flow'
<1> SUFFICES ASSUME TypeOK, Flow, [Next]_vars PROVE Flow'
  OBVIOUS
<1> USE ConstantsAssumption DEF TypeOK, Flow, Place, Task, Ended, InvocationRecord, Closing,
    Measure
<1>1. ASSUME NEW i \in Invocation, Invoke(i) PROVE Flow'
  BY <1>1 DEF Invoke, Idle, dataVars, execVars
<1>2. ASSUME NEW i \in Invocation, Answer(i) PROVE Flow'
  BY <1>2, Table DEF Answer, Goto, Idle, dataVars, execVars
<1>3. ASSUME NEW i \in Invocation, Raise(i) PROVE Flow'
  BY <1>3, Table DEF Raise, Goto, Idle, dataVars, execVars
<1>4. ASSUME NEW i \in Invocation, GiveUp(i) PROVE Flow'
  BY <1>4, Table DEF GiveUp, Goto, Idle, dataVars, execVars
<1>5. ASSUME NEW i \in Invocation, DiscoverBegin(i) PROVE Flow'
  BY <1>5 DEF DiscoverBegin, At, To, dataVars, execVars
<1>6. ASSUME NEW i \in Invocation, DiscoverPersist(i) PROVE Flow'
  BY <1>6 DEF DiscoverPersist, At, To, dataVars, execVars
<1>7. ASSUME NEW i \in Invocation, DiscoverFail(i) PROVE Flow'
  BY <1>7 DEF DiscoverFail, At, To, dataVars, execVars
<1>8. ASSUME NEW i \in Invocation, ProvisionBegin(i) PROVE Flow'
  BY <1>8 DEF ProvisionBegin, At, To, dataVars, execVars
<1>9. ASSUME NEW i \in Invocation, ProvisionReady(i) PROVE Flow'
  BY <1>9 DEF ProvisionReady, At, To, dataVars, execVars
<1>10. ASSUME NEW i \in Invocation, LoadBegin(i) PROVE Flow'
  BY <1>10 DEF LoadBegin, At, To, dataVars, execVars
<1>11. ASSUME NEW i \in Invocation, LoadRows(i) PROVE Flow'
  BY <1>11 DEF LoadRows, At, To, dataVars, execVars
<1>12. ASSUME NEW i \in Invocation, ExecuteBegin(i) PROVE Flow'
  BY <1>12 DEF ExecuteBegin, At, To, dataVars, execVars
<1>13. ASSUME NEW i \in Invocation, ExecuteSql(i) PROVE Flow'
  BY <1>13 DEF ExecuteSql, At, To, dataVars, execVars
<1>14. ASSUME NEW i \in Invocation, CollectMetrics(i) PROVE Flow'
  BY <1>14 DEF CollectMetrics, At, To, dataVars, execVars
<1>15. ASSUME NEW i \in Invocation, PersistResults(i) PROVE Flow'
  BY <1>15 DEF PersistResults, At, To, dataVars, execVars
<1>16. ASSUME NEW i \in Invocation, Cleanup(i) PROVE Flow'
  BY <1>16 DEF Cleanup, At, To, dataVars, execVars
<1>17. CASE Tag
  BY <1>17, TagSets DEF Tag, Goto, dataVars
<1>18. CASE ChooseOutcome
  BY <1>18, Table DEF ChooseOutcome, Goto, dataVars
<1>19. CASE Reclaim
  BY <1>19 DEF Reclaim, execVars, dataVars
<1>20. CASE UNCHANGED vars
  BY <1>20 DEF vars, execVars, dataVars
<1>21. ASSUME NEW n \in {"TIMED_OUT", "ABORTED"}, EndFromOutside(n) PROVE Flow'
  BY <1>21 DEF EndFromOutside, Goto, dataVars
<1>22. QED
  BY <1>1, <1>2, <1>3, <1>4, <1>5, <1>6, <1>7, <1>8, <1>9, <1>10, <1>11, <1>12, <1>13,
      <1>14, <1>15, <1>16, <1>17, <1>18, <1>19, <1>20, <1>21
    DEF Next, StateMachineStep, InvocationStep, HandlerStep

(* A result on record is the answer that was taken over.                   *)
LEMMA NextMeasured == TypeOK /\ Flow /\ Measured /\ [Next]_vars => Measured'
<1> SUFFICES ASSUME TypeOK, Flow, Measured, [Next]_vars PROVE Measured'
  OBVIOUS
<1> USE ConstantsAssumption DEF TypeOK, Flow, Measured, Place, Task, Ended,
    InvocationRecord, Closing, Measure, Succeeding, At
<1>1. ASSUME NEW i \in Invocation, Invoke(i) PROVE Measured'
  BY <1>1 DEF Invoke, Idle, dataVars, execVars
<1>2. ASSUME NEW i \in Invocation, Answer(i) PROVE Measured'
  BY <1>2, Table DEF Answer, Goto, Idle, dataVars, execVars
<1>3. ASSUME NEW i \in Invocation, Raise(i) PROVE Measured'
  BY <1>3, Table DEF Raise, Goto, Idle, dataVars, execVars
<1>4. ASSUME NEW i \in Invocation, GiveUp(i) PROVE Measured'
  BY <1>4, Table DEF GiveUp, Goto, Idle, dataVars, execVars
<1>5. ASSUME NEW i \in Invocation, DiscoverBegin(i) PROVE Measured'
  BY <1>5 DEF DiscoverBegin, At, To, dataVars, execVars
<1>6. ASSUME NEW i \in Invocation, DiscoverPersist(i) PROVE Measured'
  BY <1>6 DEF DiscoverPersist, At, To, dataVars, execVars
<1>7. ASSUME NEW i \in Invocation, DiscoverFail(i) PROVE Measured'
  BY <1>7 DEF DiscoverFail, At, To, dataVars, execVars
<1>8. ASSUME NEW i \in Invocation, ProvisionBegin(i) PROVE Measured'
  BY <1>8 DEF ProvisionBegin, At, To, dataVars, execVars
<1>9. ASSUME NEW i \in Invocation, ProvisionReady(i) PROVE Measured'
  BY <1>9 DEF ProvisionReady, At, To, dataVars, execVars
<1>10. ASSUME NEW i \in Invocation, LoadBegin(i) PROVE Measured'
  BY <1>10 DEF LoadBegin, At, To, dataVars, execVars
<1>11. ASSUME NEW i \in Invocation, LoadRows(i) PROVE Measured'
  BY <1>11 DEF LoadRows, At, To, dataVars, execVars
<1>12. ASSUME NEW i \in Invocation, ExecuteBegin(i) PROVE Measured'
  BY <1>12 DEF ExecuteBegin, At, To, dataVars, execVars
<1>13. ASSUME NEW i \in Invocation, ExecuteSql(i) PROVE Measured'
  BY <1>13 DEF ExecuteSql, At, To, dataVars, execVars
<1>14. ASSUME NEW i \in Invocation, CollectMetrics(i) PROVE Measured'
  BY <1>14 DEF CollectMetrics, At, To, dataVars, execVars
<1>15. ASSUME NEW i \in Invocation, PersistResults(i) PROVE Measured'
  BY <1>15 DEF PersistResults, At, To, dataVars, execVars
<1>16. ASSUME NEW i \in Invocation, Cleanup(i) PROVE Measured'
  BY <1>16 DEF Cleanup, At, To, dataVars, execVars
<1>17. CASE Tag
  BY <1>17, TagSets DEF Tag, Goto, dataVars
<1>18. CASE ChooseOutcome
  BY <1>18, Table DEF ChooseOutcome, Goto, dataVars
<1>19. CASE Reclaim
  BY <1>19 DEF Reclaim, execVars, dataVars
<1>20. CASE UNCHANGED vars
  BY <1>20 DEF vars, execVars, dataVars
<1>21. ASSUME NEW n \in {"TIMED_OUT", "ABORTED"}, EndFromOutside(n) PROVE Measured'
  BY <1>21 DEF EndFromOutside, Goto, dataVars
<1>22. QED
  BY <1>1, <1>2, <1>3, <1>4, <1>5, <1>6, <1>7, <1>8, <1>9, <1>10, <1>11, <1>12, <1>13,
      <1>14, <1>15, <1>16, <1>17, <1>18, <1>19, <1>20, <1>21
    DEF Next, StateMachineStep, InvocationStep, HandlerStep

(* A shadow that is gone stays gone.                                       *)
LEMMA NextReclaimed == TypeOK /\ Flow /\ Reclaimed /\ [Next]_vars => Reclaimed'
<1> SUFFICES ASSUME TypeOK, Flow, Reclaimed, [Next]_vars PROVE Reclaimed'
  OBVIOUS
<1> USE ConstantsAssumption DEF TypeOK, Flow, Reclaimed, Place, Task, Ended, Closing,
    Succeeding, Gone, AtWork, ShadowStatus, InvocationRecord, Measure, At
<1>1. ASSUME NEW i \in Invocation, Invoke(i) PROVE Reclaimed'
  BY <1>1 DEF Invoke, Idle, dataVars, execVars
<1>2. ASSUME NEW i \in Invocation, Answer(i) PROVE Reclaimed'
  BY <1>2, Table DEF Answer, Goto, Idle, dataVars, execVars
<1>3. ASSUME NEW i \in Invocation, Raise(i) PROVE Reclaimed'
  BY <1>3, Table DEF Raise, Goto, Idle, dataVars, execVars
<1>4. ASSUME NEW i \in Invocation, GiveUp(i) PROVE Reclaimed'
  BY <1>4, Table DEF GiveUp, Goto, Idle, dataVars, execVars
<1>5. ASSUME NEW i \in Invocation, DiscoverBegin(i) PROVE Reclaimed'
  BY <1>5 DEF DiscoverBegin, At, To, dataVars, execVars
<1>6. ASSUME NEW i \in Invocation, DiscoverPersist(i) PROVE Reclaimed'
  BY <1>6 DEF DiscoverPersist, At, To, dataVars, execVars
<1>7. ASSUME NEW i \in Invocation, DiscoverFail(i) PROVE Reclaimed'
  BY <1>7 DEF DiscoverFail, At, To, dataVars, execVars
<1>8. ASSUME NEW i \in Invocation, ProvisionBegin(i) PROVE Reclaimed'
  BY <1>8 DEF ProvisionBegin, At, To, dataVars, execVars
<1>9. ASSUME NEW i \in Invocation, ProvisionReady(i) PROVE Reclaimed'
  BY <1>9 DEF ProvisionReady, At, To, dataVars, execVars
<1>10. ASSUME NEW i \in Invocation, LoadBegin(i) PROVE Reclaimed'
  BY <1>10 DEF LoadBegin, At, To, dataVars, execVars
<1>11. ASSUME NEW i \in Invocation, LoadRows(i) PROVE Reclaimed'
  BY <1>11 DEF LoadRows, At, To, dataVars, execVars
<1>12. ASSUME NEW i \in Invocation, ExecuteBegin(i) PROVE Reclaimed'
  BY <1>12 DEF ExecuteBegin, At, To, dataVars, execVars
<1>13. ASSUME NEW i \in Invocation, ExecuteSql(i) PROVE Reclaimed'
  BY <1>13 DEF ExecuteSql, At, To, dataVars, execVars
<1>14. ASSUME NEW i \in Invocation, CollectMetrics(i) PROVE Reclaimed'
  BY <1>14 DEF CollectMetrics, At, To, dataVars, execVars
<1>15. ASSUME NEW i \in Invocation, PersistResults(i) PROVE Reclaimed'
  BY <1>15 DEF PersistResults, At, To, dataVars, execVars
<1>16. ASSUME NEW i \in Invocation, Cleanup(i) PROVE Reclaimed'
  BY <1>16 DEF Cleanup, At, To, dataVars, execVars
<1>17. CASE Tag
  BY <1>17, TagSets DEF Tag, Goto, dataVars
<1>18. CASE ChooseOutcome
  BY <1>18, Table DEF ChooseOutcome, Goto, dataVars
<1>19. CASE Reclaim
  BY <1>19 DEF Reclaim, execVars, dataVars
<1>20. CASE UNCHANGED vars
  BY <1>20 DEF vars, execVars, dataVars
<1>21. ASSUME NEW n \in {"TIMED_OUT", "ABORTED"}, EndFromOutside(n) PROVE Reclaimed'
  BY <1>21 DEF EndFromOutside, Goto, dataVars
<1>22. QED
  BY <1>1, <1>2, <1>3, <1>4, <1>5, <1>6, <1>7, <1>8, <1>9, <1>10, <1>11, <1>12, <1>13,
      <1>14, <1>15, <1>16, <1>17, <1>18, <1>19, <1>20, <1>21
    DEF Next, StateMachineStep, InvocationStep, HandlerStep

(* What was loaded and applied stays so.                                   *)
LEMMA NextApplied == TypeOK /\ Flow /\ Measured /\ Applied /\ [Next]_vars => Applied'
<1> SUFFICES ASSUME TypeOK, Flow, Measured, Applied, [Next]_vars PROVE Applied'
  OBVIOUS
<1> USE ConstantsAssumption DEF TypeOK, Flow, Measured, Applied, Loaded, Place, Task, Ended,
    Closing, Succeeding, Gone, AtWork, ShadowStatus, InvocationRecord, Measure, At
<1>1. ASSUME NEW i \in Invocation, Invoke(i) PROVE Applied'
  BY <1>1 DEF Invoke, Idle, dataVars, execVars
<1>2. ASSUME NEW i \in Invocation, Answer(i) PROVE Applied'
  BY <1>2, Table DEF Answer, Goto, Idle, dataVars, execVars
<1>3. ASSUME NEW i \in Invocation, Raise(i) PROVE Applied'
  BY <1>3, Table DEF Raise, Goto, Idle, dataVars, execVars
<1>4. ASSUME NEW i \in Invocation, GiveUp(i) PROVE Applied'
  BY <1>4, Table DEF GiveUp, Goto, Idle, dataVars, execVars
<1>5. ASSUME NEW i \in Invocation, DiscoverBegin(i) PROVE Applied'
  BY <1>5 DEF DiscoverBegin, At, To, dataVars, execVars
<1>6. ASSUME NEW i \in Invocation, DiscoverPersist(i) PROVE Applied'
  BY <1>6 DEF DiscoverPersist, At, To, dataVars, execVars
<1>7. ASSUME NEW i \in Invocation, DiscoverFail(i) PROVE Applied'
  BY <1>7 DEF DiscoverFail, At, To, dataVars, execVars
<1>8. ASSUME NEW i \in Invocation, ProvisionBegin(i) PROVE Applied'
  BY <1>8 DEF ProvisionBegin, At, To, dataVars, execVars
<1>9. ASSUME NEW i \in Invocation, ProvisionReady(i) PROVE Applied'
  BY <1>9 DEF ProvisionReady, At, To, dataVars, execVars
<1>10. ASSUME NEW i \in Invocation, LoadBegin(i) PROVE Applied'
  BY <1>10 DEF LoadBegin, At, To, dataVars, execVars
<1>11. ASSUME NEW i \in Invocation, LoadRows(i) PROVE Applied'
  BY <1>11 DEF LoadRows, At, To, dataVars, execVars
<1>12. ASSUME NEW i \in Invocation, ExecuteBegin(i) PROVE Applied'
  BY <1>12 DEF ExecuteBegin, At, To, dataVars, execVars
<1>13. ASSUME NEW i \in Invocation, ExecuteSql(i) PROVE Applied'
  BY <1>13 DEF ExecuteSql, At, To, dataVars, execVars
<1>14. ASSUME NEW i \in Invocation, CollectMetrics(i) PROVE Applied'
  BY <1>14 DEF CollectMetrics, At, To, dataVars, execVars
<1>15. ASSUME NEW i \in Invocation, PersistResults(i) PROVE Applied'
  BY <1>15 DEF PersistResults, At, To, dataVars, execVars
<1>16. ASSUME NEW i \in Invocation, Cleanup(i) PROVE Applied'
  BY <1>16 DEF Cleanup, At, To, dataVars, execVars
<1>17. CASE Tag
  BY <1>17, TagSets DEF Tag, Goto, dataVars
<1>18. CASE ChooseOutcome
  BY <1>18, Table DEF ChooseOutcome, Goto, dataVars
<1>19. CASE Reclaim
  BY <1>19 DEF Reclaim, execVars, dataVars
<1>20. CASE UNCHANGED vars
  BY <1>20 DEF vars, execVars, dataVars
<1>21. ASSUME NEW n \in {"TIMED_OUT", "ABORTED"}, EndFromOutside(n) PROVE Applied'
  BY <1>21 DEF EndFromOutside, Goto, dataVars
<1>22. QED
  BY <1>1, <1>2, <1>3, <1>4, <1>5, <1>6, <1>7, <1>8, <1>9, <1>10, <1>11, <1>12, <1>13,
      <1>14, <1>15, <1>16, <1>17, <1>18, <1>19, <1>20, <1>21
    DEF Next, StateMachineStep, InvocationStep, HandlerStep

(* Without an abandoned attempt there is only the awaited invocation.      *)
LEMMA NextAlone == TypeOK /\ Flow /\ Alone /\ [Next]_vars => Alone'
<1> SUFFICES ASSUME TypeOK, Flow, Alone, [Next]_vars PROVE Alone'
  OBVIOUS
<1> USE ConstantsAssumption DEF TypeOK, Flow, Alone, Task, Ended, Place, ShadowStatus,
    AtWork, InvocationRecord, Measure, At
<1>1. ASSUME NEW i \in Invocation, Invoke(i) PROVE Alone'
  BY <1>1 DEF Invoke, Idle, dataVars, execVars
<1>2. ASSUME NEW i \in Invocation, Answer(i) PROVE Alone'
  BY <1>2, Table DEF Answer, Goto, Idle, dataVars, execVars
<1>3. ASSUME NEW i \in Invocation, Raise(i) PROVE Alone'
  BY <1>3, Table DEF Raise, Goto, Idle, dataVars, execVars
<1>4. ASSUME NEW i \in Invocation, GiveUp(i) PROVE Alone'
  BY <1>4, Table DEF GiveUp, Goto, Idle, dataVars, execVars
<1>5. ASSUME NEW i \in Invocation, DiscoverBegin(i) PROVE Alone'
  BY <1>5 DEF DiscoverBegin, At, To, dataVars, execVars
<1>6. ASSUME NEW i \in Invocation, DiscoverPersist(i) PROVE Alone'
  BY <1>6 DEF DiscoverPersist, At, To, dataVars, execVars
<1>7. ASSUME NEW i \in Invocation, DiscoverFail(i) PROVE Alone'
  BY <1>7 DEF DiscoverFail, At, To, dataVars, execVars
<1>8. ASSUME NEW i \in Invocation, ProvisionBegin(i) PROVE Alone'
  BY <1>8 DEF ProvisionBegin, At, To, dataVars, execVars
<1>9. ASSUME NEW i \in Invocation, ProvisionReady(i) PROVE Alone'
  BY <1>9 DEF ProvisionReady, At, To, dataVars, execVars
<1>10. ASSUME NEW i \in Invocation, LoadBegin(i) PROVE Alone'
  BY <1>10 DEF LoadBegin, At, To, dataVars, execVars
<1>11. ASSUME NEW i \in Invocation, LoadRows(i) PROVE Alone'
  BY <1>11 DEF LoadRows, At, To, dataVars, execVars
<1>12. ASSUME NEW i \in Invocation, ExecuteBegin(i) PROVE Alone'
  BY <1>12 DEF ExecuteBegin, At, To, dataVars, execVars
<1>13. ASSUME NEW i \in Invocation, ExecuteSql(i) PROVE Alone'
  BY <1>13 DEF ExecuteSql, At, To, dataVars, execVars
<1>14. ASSUME NEW i \in Invocation, CollectMetrics(i) PROVE Alone'
  BY <1>14 DEF CollectMetrics, At, To, dataVars, execVars
<1>15. ASSUME NEW i \in Invocation, PersistResults(i) PROVE Alone'
  BY <1>15 DEF PersistResults, At, To, dataVars, execVars
<1>16. ASSUME NEW i \in Invocation, Cleanup(i) PROVE Alone'
  BY <1>16 DEF Cleanup, At, To, dataVars, execVars
<1>17. CASE Tag
  BY <1>17, TagSets DEF Tag, Goto, dataVars
<1>18. CASE ChooseOutcome
  BY <1>18, Table DEF ChooseOutcome, Goto, dataVars
<1>19. CASE Reclaim
  BY <1>19 DEF Reclaim, execVars, dataVars
<1>20. CASE UNCHANGED vars
  BY <1>20 DEF vars, execVars, dataVars
<1>21. ASSUME NEW n \in {"TIMED_OUT", "ABORTED"}, EndFromOutside(n) PROVE Alone'
  BY <1>21 DEF EndFromOutside, Goto, dataVars
<1>22. QED
  BY <1>1, <1>2, <1>3, <1>4, <1>5, <1>6, <1>7, <1>8, <1>9, <1>10, <1>11, <1>12, <1>13,
      <1>14, <1>15, <1>16, <1>17, <1>18, <1>19, <1>20, <1>21
    DEF Next, StateMachineStep, InvocationStep, HandlerStep

-----------------------------------------------------------------------------
(* The invariant holds throughout.                                         *)
LEMMA Invariance == Spec => []Inv
<1>1. Inv /\ [Next]_vars => Inv'
  BY NextTypeOK, NextFlow, NextMeasured, NextReclaimed, NextApplied, NextAlone DEF Inv
<1>2. QED
  BY <1>1, InitInv, PTL DEF Spec

(* The variables keep their types through every retry and catch.           *)
THEOREM TypeCorrect == Spec => []TypeOK
<1>1. Inv => TypeOK
  BY DEF Inv
<1>2. QED
  BY <1>1, Invariance, PTL

(* An execution succeeds only with the answer of its migration on record   *)
(* and its cluster no longer at work, whatever attempts were abandoned.    *)
THEOREM Complete == Spec => []SucceededIsComplete
<1>1. Inv => SucceededIsComplete
  BY DEF Inv, Measured, Reclaimed, Succeeding, Gone, SucceededIsComplete
<1>2. QED
  BY <1>1, Invariance, PTL

(* A migration recorded as successful was committed on a loaded shadow.    *)
THEOREM OkApplied == Spec => []OkWasApplied
<1>1. Inv => OkWasApplied
  BY DEF Inv, Applied, OkWasApplied
<1>2. QED
  BY <1>1, Invariance, PTL

(* Where no attempt was abandoned, an execution whose cleanup went through *)
(* leaves nothing to the sweeper.                                          *)
THEOREM LeavesNothing == Spec => []NothingLeftAtWork
<1>1. Inv => NothingLeftAtWork
  BY DEF Inv, Alone, NothingLeftAtWork
<1>2. QED
  BY <1>1, Invariance, PTL

-----------------------------------------------------------------------------
(* The state machine and its Lambdas implement what the API relies on.     *)
LEMMA InitMaps == Init => Execution!Init
  BY DEF Init, Execution!Init, Outcome, Ended

(* Every step is one of VerifyExecution's or leaves its variables alone.   *)
LEMMA NextMaps ==
    TypeOK /\ Flow /\ Measured /\ [Next]_vars
      => [Execution!Next]_<<Outcome(at), result # "none">>
<1> SUFFICES ASSUME TypeOK, Flow, Measured, [Next]_vars
             PROVE  [Execution!Next]_<<Outcome(at), result # "none">>
  OBVIOUS
<1>1. ASSUME at \notin Ended, at' \in Place, UNCHANGED result,
             at' = "WorkflowSucceeded" => result # "none"
      PROVE  [Execution!Next]_<<Outcome(at), result # "none">>
  <2>1. Outcome(at) = "running" /\ Outcome(at)' \in {"running", "succeeded", "failed",
                                                     "timed_out", "aborted"}
    BY <1>1 DEF Outcome
  <2>2. Outcome(at)' = "succeeded" => at' = "WorkflowSucceeded"
    BY DEF Outcome
  <2>3. QED
    BY <1>1, <2>1, <2>2 DEF Execution!Next, Execution!End
<1>2. ASSUME UNCHANGED at, result' = measured, measured # "none"
      PROVE  [Execution!Next]_<<Outcome(at), result # "none">>
  BY <1>2 DEF Execution!Next, Execution!Record, Outcome
<1>3. ASSUME UNCHANGED <<at, result>>
      PROVE  [Execution!Next]_<<Outcome(at), result # "none">>
  BY <1>3 DEF Outcome
<1>4. TypeOK'
  BY NextTypeOK
<1>5. ASSUME NEW i \in Invocation, Answer(i) \/ Raise(i) \/ GiveUp(i)
      PROVE  [Execution!Next]_<<Outcome(at), result # "none">>
  <2>1. at # at' => at \notin Ended /\ at' # "WorkflowSucceeded"
    <3>1. at # at' => at \in Task /\ at' \in {Asl[at].next, Asl[at].catch}
      <4>1. awaited = i => at \in Task
        BY ConstantsAssumption DEF Flow
      <4>2. CASE Answer(i)
        BY <4>1, <4>2 DEF Answer, Goto, execVars
      <4>3. CASE Raise(i)
        BY <4>1, <4>3 DEF Raise, Goto
      <4>4. CASE GiveUp(i)
        BY <4>1, <4>4 DEF GiveUp, Goto
      <4>5. QED
        BY <1>5, <4>2, <4>3, <4>4
    <3>2. \A n \in Task : "WorkflowSucceeded" \notin {Asl[n].next, Asl[n].catch}
      BY Table DEF Task
    <3>3. QED
      BY <3>1, <3>2 DEF Task, Ended
  <2>2. UNCHANGED result
    BY <1>5 DEF Answer, Raise, GiveUp, dataVars
  <2>3. QED
    BY <1>1, <1>3, <1>4, <2>1, <2>2 DEF TypeOK
<1>6. CASE Tag
  BY <1>1, <1>4, <1>6, TagSets DEF Tag, Goto, dataVars, Ended, TypeOK
<1>7. CASE ChooseOutcome
  BY <1>1, <1>4, <1>7 DEF ChooseOutcome, Goto, dataVars, Ended, TypeOK, Measured, Succeeding
<1>8. ASSUME NEW n \in {"TIMED_OUT", "ABORTED"}, EndFromOutside(n)
      PROVE  [Execution!Next]_<<Outcome(at), result # "none">>
  BY <1>1, <1>4, <1>8 DEF EndFromOutside, Goto, dataVars, TypeOK
<1>9. ASSUME NEW i \in Invocation, PersistResults(i)
      PROVE  [Execution!Next]_<<Outcome(at), result # "none">>
  BY <1>2, <1>9 DEF PersistResults, At, execVars, Measured
<1>10. ASSUME NEW i \in Invocation, HandlerStep(i), ~PersistResults(i)
       PROVE  UNCHANGED <<at, result>>
  BY <1>10 DEF HandlerStep, DiscoverBegin, DiscoverPersist, DiscoverFail, ProvisionBegin,
     ProvisionReady, LoadBegin, LoadRows, ExecuteBegin, ExecuteSql, CollectMetrics, Cleanup,
     execVars, dataVars
<1>11. ASSUME Reclaim \/ UNCHANGED vars \/ \E i \in Invocation : Invoke(i)
       PROVE  UNCHANGED <<at, result>>
  BY <1>11 DEF Reclaim, Invoke, vars, execVars, dataVars
<1>12. QED
  BY <1>3, <1>5, <1>6, <1>7, <1>8, <1>9, <1>10, <1>11
     DEF Next, StateMachineStep, InvocationStep

(* Seen through describe_workflow_execution, the workflow is               *)
(* VerifyExecution: it ends once, and succeeds only with its result.       *)
THEOREM Implements == Spec => ImplementsExecution
<1>1. Inv /\ [Next]_vars => [Execution!Next]_<<Outcome(at), result # "none">>
  BY NextMaps DEF Inv
<1>2. QED
  BY <1>1, InitMaps, Invariance, PTL DEF Spec, ImplementsExecution, Execution!Spec
=============================================================================
