------------------------ MODULE ShadowExecutionProofs ------------------------
(***************************************************************************)
(* Proofs about ShadowExecution, for any number of tables, workers, rows,  *)
(* statements, deliveries and lost connections.                            *)
(*                                                                         *)
(* Seeding and migrating share no variable but the stage, so there are two *)
(* invariants.  Accounted follows each table from the shared iterator to   *)
(* its one result; Settled follows what the connection knows of the        *)
(* transaction and its job to what the outcome says of them.               *)
(***************************************************************************)
EXTENDS ShadowExecution, TLAPS

(* What the deliveries before this one may have left in a table.           *)
Earlier == (deliveries - 1) * Target

Busy(w) == worker[w].at \in {"server", "client"}

\* The table a worker is at is its own.
Owned ==
    /\ \A w \in Worker : Busy(w) => worker[w].table \in Table /\ worker[w].table < pending
    /\ \A v, w \in Worker : v # w /\ Busy(v) /\ Busy(w) => worker[v].table # worker[w].table

\* The table t gets n more batches.
Inserts(t, n) == rows' = [rows EXCEPT ![t] = @ + n]

\* Nobody ends before the last table is handed out.
Exhausted == \A w \in Worker : worker[w].at = "ended" => pending = TableCount + 1

\* A table that was handed out is with a worker, or has its result.
Covered ==
    \A t \in Table : t < pending =>
        \/ \E w \in Worker : Busy(w) /\ worker[w].table = t
        \/ \E x \in results : x.table = t

\* How many rows of this delivery a table may have.
Counted ==
    /\ \A t \in Table : rows[t] <= Earlier + Target
    /\ \A t \in Table : t >= pending => rows[t] <= Earlier
    /\ \A w \in Worker : worker[w].at \in {"idle", "server"} => worker[w].done = 0
    /\ \A w \in Worker : worker[w].at = "server" => rows[worker[w].table] <= Earlier
    /\ \A w \in Worker : worker[w].at = "client" /\ worker[w].live =>
          /\ worker[w].done < Target
          /\ worker[w].done <= rows[worker[w].table]
          /\ rows[worker[w].table] <= Earlier + worker[w].done

Reported ==
    /\ \A x \in results : x.rows <= rows[x.table]
    /\ report # <<>> => \A t \in Table : report[t] <= rows[t]

SeedTypes ==
    /\ deliveries \in 1..MaxDeliveries
    /\ rows \in [Table -> Nat]
    /\ pending \in 1..(TableCount + 1)
    /\ worker \in [Worker -> [at : {"idle", "server", "client", "ended"},
                              table : 0..TableCount, done : 0..Target, live : BOOLEAN]]
    /\ results \subseteq [table : Table, rows : 0..Target,
                    failed : {"no", "refused", "lost"}]
    /\ report \in [Table -> 0..Target] \cup {<<>>}

Accounted == SeedTypes /\ Owned /\ Exhausted /\ Covered /\ Counted /\ Reported

RunTypes ==
    /\ stage \in {"load", "seed", "loaded", "baseline", "migrate", "measure", "done",
                  "failed"}
    /\ faults \in 0..MaxFaults
    /\ attempts \in 1..MaxAttempts
    /\ conn \in {"none", "open", "committing", "lost", "failed", "succeeded"}
    /\ next \in 1..(Statements + 1)
    /\ did \subseteq Change /\ schema \subseteq Change
    /\ applied \in BOOLEAN /\ stray \in BOOLEAN /\ strayed \in BOOLEAN
    /\ job \in {"none", "running", "succeeded", "failed"}
    /\ poller \in {"none", "polling", "ended"}
    /\ seen \in Seq({"running", "succeeded", "failed"})
    /\ feed \in [running : BOOLEAN, known : BOOLEAN]
    /\ before \in Snapshot
    /\ outcome.kind \in OutcomeKind

\* What the connection's end says of the transaction, as long as it is told.
Told ==
    /\ conn \in {"none", "open"} => ~applied
    /\ conn = "committing" => applied /\ job # "none"
    /\ conn = "succeeded" => applied /\ job \in {"none", "succeeded"}
    /\ conn = "failed" /\ applied => job # "none"
    /\ stage = "measure" => conn \in {"failed", "succeeded"}

\* What the transaction did is in the schema, as far as its job has come.
Done ==
    /\ ~applied => job = "none"
    /\ applied => did \cap {"direct"} \subseteq schema
    /\ applied /\ job = "none" => "job" \notin did
    /\ job = "succeeded" => "job" \in schema

\* Since the baseline, only this transaction or a stray changed the schema.
Explained == before # Missing /\ ~applied /\ ~strayed => schema = before

\* Only a migration that runs is polled.
Polled == poller = "polling" => stage = "migrate" /\ conn # "none" /\ job # "none"

Settled ==
    /\ RunTypes /\ Told /\ Done /\ Explained /\ Polled
    /\ stage # "done" => outcome.kind \in {"none", "raised"}
    /\ OutcomeAgrees

-----------------------------------------------------------------------------
LEMMA Numbers ==
    /\ TableCount \in Nat \ {0} /\ Target \in Nat \ {0} /\ Statements \in Nat \ {0}
    /\ MaxDeliveries \in Nat \ {0} /\ MaxAttempts \in Nat \ {0} /\ MaxPolls \in Nat \ {0} /\ MaxFaults \in Nat
  BY ExecutionConstants

(* One delivery more is one Target more.                                   *)
LEMMA Deliveries ==
    ASSUME NEW d \in Nat, NEW n \in Nat
    PROVE  /\ n * d \in Nat /\ d * n \in Nat
           /\ (d + 1) * n = d * n + n
           /\ \A e \in Nat : d <= e => d * n <= e * n
  OBVIOUS

LEMMA EarlierIs ==
    ASSUME deliveries \in 1..MaxDeliveries
    PROVE  /\ Earlier \in Nat /\ deliveries * Target = Earlier + Target
           /\ Earlier + Target <= MaxDeliveries * Target
<1>1. /\ deliveries - 1 \in Nat /\ deliveries \in Nat /\ Target \in Nat
      /\ MaxDeliveries \in Nat /\ deliveries <= MaxDeliveries
      /\ (deliveries - 1) + 1 = deliveries
  BY Numbers
<1>2. (deliveries - 1) * Target \in Nat
  BY <1>1, Deliveries
<1>3. deliveries * Target = (deliveries - 1) * Target + Target
  <2>1. ((deliveries - 1) + 1) * Target = (deliveries - 1) * Target + Target
    BY <1>1, Deliveries
  <2> QED BY <2>1, <1>1
<1>4. deliveries * Target <= MaxDeliveries * Target
  BY <1>1, Deliveries
<1> QED BY <1>2, <1>3, <1>4 DEF Earlier

-----------------------------------------------------------------------------
(* Seeding.                                                                *)

seedVars == <<deliveries, rows, pending, worker, results, report>>

LEMMA AccountedInit == Init => Accounted
<1> SUFFICES ASSUME Init PROVE Accounted
  OBVIOUS
<1> USE Numbers DEF Init, Idle, Table
<1>1. SeedTypes
  BY DEF SeedTypes
<1>2. Owned /\ Exhausted /\ Covered
  BY DEF Owned, Exhausted, Covered, Busy
<1>3. Earlier \in Nat
  BY <1>1, EarlierIs DEF SeedTypes
<1>4. Counted
  BY <1>3 DEF Counted
<1>5. Reported
  BY DEF Reported
<1> QED BY <1>1, <1>2, <1>4, <1>5 DEF Accounted

(* A step that leaves the seeding alone.                                   *)
LEMMA AccountedStutter == Accounted /\ UNCHANGED seedVars => Accounted'
  BY DEF Accounted, SeedTypes, Owned, Exhausted, Covered, Counted, Reported, Earlier, Busy, Table,
         seedVars

LEMMA AccountedTake ==
    ASSUME Accounted, NEW w \in Worker, TakeTable(w)
    PROVE  Accounted'
<1>1. /\ worker[w].at = "idle" /\ pending <= TableCount /\ pending' = pending + 1
      /\ worker' = [worker EXCEPT ![w] = [at |-> "server", table |-> pending,
                                          done |-> 0, live |-> worker[w].live]]
      /\ UNCHANGED <<deliveries, rows, results, report>>
  BY DEF TakeTable, Works
<1>2. SeedTypes /\ Owned /\ Exhausted /\ Covered /\ Counted /\ Reported
  BY DEF Accounted
<1>3. Earlier' = Earlier /\ Earlier \in Nat
  BY <1>1, <1>2, EarlierIs DEF Earlier, SeedTypes
<1>4. pending \in Table /\ pending \in Nat
  BY <1>1, <1>2, Numbers DEF SeedTypes, Table
<1>5. SeedTypes'
  <2>1. worker[w].live \in BOOLEAN
    BY <1>2 DEF SeedTypes
  <2>2. /\ deliveries' \in 1..MaxDeliveries /\ rows' \in [Table -> Nat]
        /\ pending' \in 1..(TableCount + 1) /\ pending \in 0..TableCount /\ 0 \in 0..Target
    BY <1>1, <1>2, <1>4, Numbers DEF SeedTypes, Table
  <2> QED BY <1>1, <1>2, <2>1, <2>2 DEF SeedTypes
<1>6. /\ worker'[w].at = "server" /\ worker'[w].table = pending
      /\ worker'[w].done = 0 /\ worker'[w].live = worker[w].live
      /\ \A v \in Worker \ {w} : worker'[v] = worker[v]
  BY <1>1, <1>2 DEF SeedTypes
<1>7. Owned' /\ Exhausted'
  <2>1. Owned'
    BY <1>1, <1>2, <1>4, <1>6 DEF Owned, Busy, Table
  <2>2. \A v \in Worker : worker[v].at # "ended"
    BY <1>1, <1>2, <1>4, Numbers DEF Exhausted
  <2> QED BY <1>6, <2>1, <2>2 DEF Exhausted
<1>8. Covered'
  BY <1>1, <1>2, <1>4, <1>6 DEF Covered, Busy, Table
<1>9. Counted'
  BY <1>1, <1>2, <1>3, <1>4, <1>6 DEF Counted, Table
<1>10. Reported'
  BY <1>1, <1>2 DEF Reported
<1> QED BY <1>5, <1>7, <1>8, <1>9, <1>10 DEF Accounted

(* w inserts n batches into its table, and is then done with it or not.    *)
LEMMA AccountedInsert ==
    ASSUME Accounted, NEW w \in Worker, Busy(w),
           NEW n \in Nat, NEW at \in {"server", "client"},
           NEW done \in 0..Target, NEW live \in BOOLEAN,
           Inserts(worker[w].table, n), Works(w, at, worker[w].table, done, live),
           UNCHANGED <<deliveries, pending, results, report>>,
           rows[worker[w].table] + n <= Earlier + Target,
           at = "server" => done = 0 /\ n = 0 /\ worker[w].at = "server",
           at = "client" /\ live =>
              /\ done < Target /\ done <= rows[worker[w].table] + n
              /\ rows[worker[w].table] + n <= Earlier + done
    PROVE  Accounted'
<1> DEFINE t == worker[w].table
<1>1. SeedTypes /\ Owned /\ Exhausted /\ Covered /\ Counted /\ Reported
  BY DEF Accounted
<1>2. Earlier' = Earlier /\ Earlier \in Nat
  BY <1>1, EarlierIs DEF Earlier, SeedTypes
<1>3. t \in Table /\ t < pending
  BY <1>1 DEF Owned
<1>4. /\ rows'[t] = rows[t] + n /\ rows[t] \in Nat
      /\ \A u \in Table \ {t} : rows'[u] = rows[u]
      /\ \A u \in Table : rows[u] \in Nat /\ rows'[u] >= rows[u]
  BY <1>1, <1>3 DEF SeedTypes, Inserts
<1>5. /\ worker'[w].at = at /\ worker'[w].table = t
      /\ worker'[w].done = done /\ worker'[w].live = live
      /\ \A v \in Worker \ {w} : worker'[v] = worker[v]
  BY <1>1 DEF SeedTypes, Works
<1>6. SeedTypes'
  <2>1. t \in 0..TableCount
    BY <1>3, Numbers DEF Table
  <2>2. worker' \in [Worker -> [at : {"idle", "server", "client", "ended"},
                                table : 0..TableCount, done : 0..Target, live : BOOLEAN]]
    <3> HIDE DEF t
    <3>1. worker' = [worker EXCEPT ![w] = [at |-> at, table |-> t, done |-> done,
                                           live |-> live]]
      BY DEF Works, t
    <3> QED BY <1>1, <2>1, <3>1 DEF SeedTypes
  <2>3. rows' \in [Table -> Nat]
    BY <1>1, <1>3, <1>4 DEF SeedTypes, Inserts
  <2> QED BY <1>1, <2>2, <2>3 DEF SeedTypes, Table
<1>7. Owned' /\ Exhausted' /\ Covered'
  BY <1>1, <1>5 DEF Owned, Exhausted, Covered, Busy, Table
<1>8. \A v \in Worker \ {w} : Busy(v) => worker[v].table \in Table \ {t}
  BY <1>1 DEF Owned
<1>9. Counted'
  <2>1. \A u \in Table : rows'[u] <= Earlier + Target
    BY <1>1, <1>4 DEF Counted
  <2>2. \A u \in Table : u >= pending => rows'[u] <= Earlier
    BY <1>1, <1>3, <1>4 DEF Counted, SeedTypes, Table
  <2>3. \A v \in Worker : worker'[v].at \in {"idle", "server"} => worker'[v].done = 0
    BY <1>1, <1>5 DEF Counted
  <2>4. \A v \in Worker : worker'[v].at = "server" => rows'[worker'[v].table] <= Earlier
    BY <1>1, <1>4, <1>5, <1>8 DEF Counted, Busy
  <2>5. \A v \in Worker : worker'[v].at = "client" /\ worker'[v].live =>
          /\ worker'[v].done < Target
          /\ worker'[v].done <= rows'[worker'[v].table]
          /\ rows'[worker'[v].table] <= Earlier + worker'[v].done
    BY <1>1, <1>4, <1>5, <1>8 DEF Counted, Busy
  <2>6. pending' = pending
    OBVIOUS
  <2> HIDE DEF t
  <2> QED BY <1>2, <2>1, <2>2, <2>3, <2>4, <2>5, <2>6, Zenon DEF Counted
<1>10. Reported'
  BY <1>1, <1>4, <1>6 DEF Reported, SeedTypes
<1> QED BY <1>6, <1>7, <1>9, <1>10 DEF Accounted

(* w is done with its table, of which the last statement inserted n.       *)
LEMMA AccountedFinish ==
    ASSUME Accounted, NEW w \in Worker, Busy(w),
           NEW n \in Nat, NEW inserted \in 0..Target,
           NEW failed \in {"no", "refused", "lost"},
           Inserts(worker[w].table, n), Finished(w, inserted, failed), UNCHANGED deliveries,
           rows[worker[w].table] + n <= Earlier + Target,
           inserted <= rows[worker[w].table] + n
    PROVE  Accounted'
<1> DEFINE t == worker[w].table
           x == [table |-> t, rows |-> inserted, failed |-> failed]
<1>1. SeedTypes /\ Owned /\ Exhausted /\ Covered /\ Counted /\ Reported
  BY DEF Accounted
<1>2. Earlier' = Earlier /\ Earlier \in Nat
  BY <1>1, EarlierIs DEF Earlier, SeedTypes
<1>3. t \in Table /\ t < pending
  BY <1>1 DEF Owned
<1>4. /\ rows'[t] = rows[t] + n /\ rows[t] \in Nat
      /\ \A u \in Table \ {t} : rows'[u] = rows[u]
      /\ \A u \in Table : rows[u] \in Nat /\ rows'[u] >= rows[u]
  BY <1>1, <1>3 DEF SeedTypes, Inserts
<1>5. /\ results' = results \cup {x}
      /\ UNCHANGED <<pending, report>>
      /\ worker' = [worker EXCEPT ![w] = [at |-> "idle", table |-> t, done |-> 0,
                                          live |-> worker[w].live /\ failed # "lost"]]
  BY DEF Finished, Works
<1>6. /\ worker'[w].at = "idle" /\ worker'[w].done = 0
      /\ \A v \in Worker \ {w} : worker'[v] = worker[v]
  BY <1>1, <1>5 DEF SeedTypes
<1>7. SeedTypes'
  <2>1. (worker[w].live /\ failed # "lost") \in BOOLEAN /\ 0 \in 0..Target /\ t \in 0..TableCount
    BY <1>3, Numbers DEF Table
  <2>2. worker' \in [Worker -> [at : {"idle", "server", "client", "ended"},
                                table : 0..TableCount, done : 0..Target, live : BOOLEAN]]
    <3> HIDE DEF t, x
    <3> DEFINE l == worker[w].live /\ failed # "lost"
    <3>1. l \in BOOLEAN
      BY <2>1
    <3> HIDE DEF l
    <3>2. worker' = [worker EXCEPT ![w] = [at |-> "idle", table |-> t, done |-> 0, live |-> l]]
      BY <1>5 DEF l
    <3> QED BY <1>1, <2>1, <3>1, <3>2 DEF SeedTypes
  <2>3. results' \subseteq [table : Table, rows : 0..Target, failed : {"no", "refused", "lost"}]
    BY <1>1, <1>3, <1>5 DEF SeedTypes
  <2>4. rows' \in [Table -> Nat]
    BY <1>1, <1>3, <1>4 DEF SeedTypes, Inserts
  <2> QED BY <1>1, <1>5, <2>2, <2>3, <2>4 DEF SeedTypes, Table
<1>8. Owned' /\ Exhausted'
  BY <1>1, <1>5, <1>6 DEF Owned, Exhausted, Busy, Table
<1>9. Covered'
  <2> SUFFICES ASSUME NEW u \in Table, u < pending
               PROVE  \/ \E v \in Worker : Busy(v)' /\ worker'[v].table = u
                      \/ \E y \in results' : y.table = u
    BY <1>5 DEF Covered, Table
  <2>1. CASE u = t
    <3>1. x \in results' /\ x.table = t
      BY <1>5
    <3> QED BY <2>1, <3>1
  <2>2. CASE u # t
    BY <1>1, <1>5, <1>6, <2>2 DEF Covered, Busy
  <2> QED BY <2>1, <2>2
<1>10. \A v \in Worker \ {w} : Busy(v) => worker[v].table \in Table \ {t}
  BY <1>1 DEF Owned
<1>11. Counted'
  <2>1. \A u \in Table : rows'[u] <= Earlier + Target
    BY <1>1, <1>4 DEF Counted
  <2>2. \A u \in Table : u >= pending => rows'[u] <= Earlier
    BY <1>1, <1>3, <1>4 DEF Counted, SeedTypes, Table
  <2>3. \A v \in Worker : worker'[v].at \in {"idle", "server"} => worker'[v].done = 0
    BY <1>1, <1>6 DEF Counted
  <2>4. \A v \in Worker : worker'[v].at = "server" => rows'[worker'[v].table] <= Earlier
    BY <1>1, <1>4, <1>6, <1>10 DEF Counted, Busy
  <2>5. \A v \in Worker : worker'[v].at = "client" /\ worker'[v].live =>
          /\ worker'[v].done < Target
          /\ worker'[v].done <= rows'[worker'[v].table]
          /\ rows'[worker'[v].table] <= Earlier + worker'[v].done
    BY <1>1, <1>4, <1>6, <1>10 DEF Counted, Busy
  <2> QED BY <1>2, <1>5, <2>1, <2>2, <2>3, <2>4, <2>5 DEF Counted, Table
<1>12. Reported'
  <2>1. \A y \in results : y.rows <= rows'[y.table]
    BY <1>1, <1>4 DEF Reported, SeedTypes
  <2>2. x.rows <= rows'[x.table]
    BY <1>4
  <2>3. ASSUME report # <<>>, NEW u \in Table PROVE report[u] <= rows'[u]
    <3>1. report[u] \in 0..Target /\ report[u] <= rows[u]
      BY <1>1, <2>3 DEF Reported, SeedTypes
    <3> QED BY <1>4, <3>1, Numbers
  <2> QED BY <1>5, <2>1, <2>2, <2>3 DEF Reported, Table
<1> QED BY <1>7, <1>8, <1>9, <1>11, <1>12 DEF Accounted

LEMMA AccountedServer ==
    ASSUME Accounted, NEW w \in Worker, ServerInsert(w)
    PROVE  Accounted'
<1>1. SeedTypes /\ Counted /\ Owned
  BY DEF Accounted
<1>2. /\ Busy(w) /\ worker[w].at = "server" /\ worker[w].done = 0 /\ worker[w].live
      /\ worker[w].table \in Table /\ rows[worker[w].table] <= Earlier
      /\ rows[worker[w].table] \in Nat /\ Earlier \in Nat /\ UNCHANGED deliveries
  BY <1>1, EarlierIs DEF Busy, ServerInsert, Counted, Owned, SeedTypes
<1>3. CASE Inserts(worker[w].table, Target) /\ Finished(w, Target, "no")
  BY <1>2, <1>3, AccountedFinish, Numbers
<1>4. CASE /\ Works(w, "client", worker[w].table, 0, worker[w].live)
           /\ UNCHANGED <<rows, pending, results, report>>
  <2>1. Inserts(worker[w].table, 0)
    BY <1>1, <1>2, <1>4 DEF SeedTypes, Inserts
  <2>2. worker[w].live \in BOOLEAN
    BY <1>1 DEF SeedTypes
  <2>3. /\ 0 \in 0..Target /\ 0 \in Nat /\ 0 < Target /\ 0 <= rows[worker[w].table] + 0
        /\ rows[worker[w].table] + 0 <= Earlier + 0
        /\ rows[worker[w].table] + 0 <= Earlier + Target
    BY <1>2, Numbers
  <2> QED BY <1>2, <1>4, <2>1, <2>2, <2>3, AccountedInsert
<1> QED BY <1>3, <1>4 DEF ServerInsert, Inserts

LEMMA AccountedBatch ==
    ASSUME Accounted, NEW w \in Worker, ClientBatch(w)
    PROVE  Accounted'
<1>1. SeedTypes /\ Counted /\ Owned
  BY DEF Accounted
<1>2. /\ Busy(w) /\ worker[w].done \in Nat /\ worker[w].done < Target
      /\ worker[w].done <= rows[worker[w].table]
      /\ worker[w].table \in Table /\ rows[worker[w].table] <= Earlier + worker[w].done
      /\ rows[worker[w].table] \in Nat /\ Earlier \in Nat /\ UNCHANGED deliveries
  BY <1>1, EarlierIs DEF Busy, ClientBatch, Counted, Owned, SeedTypes
<1>3. CASE /\ Inserts(worker[w].table, 1)
           /\ worker[w].done + 1 = Target
           /\ Finished(w, Target, "no")
  <2>1. /\ 1 \in Nat /\ Target \in 0..Target
        /\ rows[worker[w].table] + 1 <= Earlier + Target
        /\ Target <= rows[worker[w].table] + 1
    BY <1>2, <1>3, Numbers
  <2> QED BY <1>2, <1>3, <2>1, AccountedFinish
<1>4. CASE /\ Inserts(worker[w].table, 1)
           /\ worker[w].done + 1 # Target
           /\ Works(w, "client", worker[w].table, worker[w].done + 1, TRUE)
           /\ UNCHANGED <<pending, results, report>>
  <2>1. /\ worker[w].done + 1 \in 0..Target /\ worker[w].done + 1 < Target
        /\ worker[w].done + 1 <= rows[worker[w].table] + 1
        /\ rows[worker[w].table] + 1 <= Earlier + (worker[w].done + 1)
        /\ rows[worker[w].table] + 1 <= Earlier + Target
    BY <1>2, <1>4, Numbers
  <2> QED BY <1>2, <1>4, <2>1, AccountedInsert
<1>5. CASE Finished(w, 0, "refused") /\ UNCHANGED rows
  <2>1. Inserts(worker[w].table, 0)
    BY <1>1, <1>2, <1>5 DEF SeedTypes, Inserts
  <2>2. /\ 0 \in 0..Target /\ 0 \in Nat /\ 0 <= rows[worker[w].table] + 0
        /\ rows[worker[w].table] + 0 <= Earlier + Target
    BY <1>2, Numbers
  <2> QED BY <1>2, <1>5, <2>1, <2>2, AccountedFinish
<1> QED BY <1>3, <1>4, <1>5 DEF ClientBatch, Inserts

LEMMA AccountedLost ==
    ASSUME Accounted, NEW w \in Worker, SeedConnectionLost(w)
    PROVE  Accounted'
<1>1. SeedTypes /\ Counted /\ Owned
  BY DEF Accounted
<1>2. /\ Busy(w) /\ worker[w].live /\ worker[w].done \in 0..Target
      /\ worker[w].table \in Table /\ rows[worker[w].table] \in Nat /\ Earlier \in Nat
      /\ UNCHANGED <<deliveries, pending, results, report>>
      /\ Works(w, "client", worker[w].table, worker[w].done, FALSE)
  BY <1>1, EarlierIs DEF Busy, SeedConnectionLost, Owned, SeedTypes
<1>3. PICK n \in {0, IF worker[w].at = "server" THEN Target ELSE 1} :
          Inserts(worker[w].table, n)
  BY DEF SeedConnectionLost, Inserts
<1>4. n \in Nat /\ rows[worker[w].table] + n <= Earlier + Target
  <2>1. CASE worker[w].at = "server"
    BY <1>1, <1>2, <1>3, <2>1, Numbers DEF Counted
  <2>2. CASE worker[w].at = "client"
    BY <1>1, <1>2, <1>3, <2>2, Numbers DEF Counted
  <2> QED BY <1>2, <2>1, <2>2 DEF Busy
<1> QED BY <1>2, <1>3, <1>4, AccountedInsert

LEMMA AccountedDead ==
    ASSUME Accounted, NEW w \in Worker, DeadConnection(w)
    PROVE  Accounted'
<1>1. SeedTypes /\ Counted /\ Owned
  BY DEF Accounted
<1>2. /\ Busy(w) /\ worker[w].table \in Table /\ rows[worker[w].table] \in Nat
      /\ Earlier \in Nat /\ rows[worker[w].table] <= Earlier + Target
      /\ Finished(w, 0, "lost") /\ UNCHANGED <<deliveries, rows>>
  BY <1>1, EarlierIs DEF Busy, DeadConnection, Owned, SeedTypes, Counted
<1>3. Inserts(worker[w].table, 0)
  BY <1>1, <1>2 DEF SeedTypes, Inserts
<1> QED BY <1>2, <1>3, AccountedFinish, Numbers

LEMMA AccountedEnd ==
    ASSUME Accounted, NEW w \in Worker, EndWorker(w)
    PROVE  Accounted'
<1>1. SeedTypes /\ Owned /\ Exhausted /\ Covered /\ Counted /\ Reported
  BY DEF Accounted
<1>2. /\ worker[w].at = "idle" /\ pending > TableCount
      /\ Works(w, "ended", worker[w].table, 0, worker[w].live)
      /\ UNCHANGED <<deliveries, rows, pending, results, report>>
  BY DEF EndWorker
<1>3. /\ worker'[w].at = "ended"
      /\ \A v \in Worker \ {w} : worker'[v] = worker[v]
  BY <1>1, <1>2 DEF SeedTypes, Works
<1>4. SeedTypes'
  <2>1. worker[w].live \in BOOLEAN /\ 0 \in 0..Target /\ worker[w].table \in 0..TableCount
    BY <1>1, Numbers DEF SeedTypes
  <2> QED BY <1>1, <1>2, <2>1 DEF SeedTypes, Works, Table
<1>5. Owned' /\ Covered'
  BY <1>1, <1>2, <1>3 DEF Owned, Covered, Busy, Table
<1>6. Exhausted'
  BY <1>1, <1>2, <1>3, Numbers DEF Exhausted, SeedTypes
<1>7. Counted' /\ Reported'
  BY <1>1, <1>2, <1>3 DEF Counted, Reported, Earlier, Table
<1> QED BY <1>4, <1>5, <1>6, <1>7 DEF Accounted

(* When every worker has ended, every table has a result to report.        *)
LEMMA AccountedReport ==
    ASSUME Accounted, ReportSeed
    PROVE  Accounted'
<1>1. SeedTypes /\ Owned /\ Exhausted /\ Covered /\ Counted /\ Reported
  BY DEF Accounted
<1>2. /\ \A w \in Worker : worker[w].at = "ended"
      /\ UNCHANGED <<deliveries, rows, pending, worker, results>>
  BY DEF ReportSeed
<1> DEFINE Pick(t) == CHOOSE x \in results : x.table = t
<1>3. \A t \in Table : Pick(t).rows \in 0..Target /\ Pick(t).rows <= rows[t]
  <2> TAKE t \in Table
  <2>1. t < pending
    BY <1>1, <1>2, Numbers, ExecutionConstants DEF Exhausted, Table
  <2>2. \E x \in results : x.table = t
    BY <1>1, <1>2, <2>1 DEF Covered, Busy
  <2>3. Pick(t) \in results /\ Pick(t).table = t
    BY <2>2
  <2> HIDE DEF Pick
  <2>4. Pick(t).rows \in 0..Target
    BY <1>1, <2>3 DEF SeedTypes
  <2> QED BY <1>1, <2>3, <2>4 DEF Reported
<1>4. report' = [t \in Table |-> Pick(t).rows]
  BY DEF ReportSeed
<1> HIDE DEF Pick
<1>5. /\ report' \in [Table -> 0..Target]
      /\ \A t \in Table : report'[t] <= rows'[t]
  BY <1>2, <1>3, <1>4
<1>6. SeedTypes' /\ Reported'
  BY <1>1, <1>2, <1>5 DEF SeedTypes, Reported, Table
<1>7. Owned' /\ Exhausted' /\ Covered' /\ Counted'
  BY <1>1, <1>2 DEF Owned, Exhausted, Covered, Counted, Earlier, Busy, Table
<1> QED BY <1>6, <1>7 DEF Accounted

LEMMA AccountedRedeliver ==
    ASSUME Accounted, Redeliver
    PROVE  Accounted'
<1>1. SeedTypes /\ Counted
  BY DEF Accounted
<1>2. /\ deliveries < MaxDeliveries /\ deliveries' = deliveries + 1
      /\ pending' = 1 /\ worker' = [w \in Worker |-> Idle]
      /\ results' = {} /\ report' = <<>> /\ UNCHANGED rows
  BY DEF Redeliver
<1>3. Earlier' = Earlier + Target /\ Earlier \in Nat /\ Earlier' \in Nat
  <2>1. Earlier \in Nat /\ deliveries * Target = Earlier + Target
    BY <1>1, EarlierIs DEF SeedTypes
  <2>2. Earlier' = deliveries * Target
    <3>1. deliveries' - 1 = deliveries
      BY <1>1, <1>2 DEF SeedTypes
    <3> QED BY <3>1 DEF Earlier
  <2> QED BY <2>1, <2>2, Numbers
<1>4. SeedTypes'
  BY <1>1, <1>2, Numbers DEF SeedTypes, Idle, Table
<1>5. Owned' /\ Exhausted' /\ Covered'
  BY <1>2 DEF Owned, Exhausted, Covered, Busy, Idle, Table
<1>6. Counted'
  BY <1>1, <1>2, <1>3, Numbers DEF Counted, SeedTypes, Idle, Table
<1>7. Reported'
  BY <1>2 DEF Reported
<1> QED BY <1>4, <1>5, <1>6, <1>7 DEF Accounted

LEMMA AccountedStep == Accounted /\ [Next]_vars => Accounted'
<1> SUFFICES ASSUME Accounted, [Next]_vars PROVE Accounted'
  OBVIOUS
<1>1. ASSUME NEW w \in Worker, TakeTable(w) PROVE Accounted'
  BY <1>1, AccountedTake
<1>2. ASSUME NEW w \in Worker, ServerInsert(w) PROVE Accounted'
  BY <1>2, AccountedServer
<1>3. ASSUME NEW w \in Worker, ClientBatch(w) PROVE Accounted'
  BY <1>3, AccountedBatch
<1>4. ASSUME NEW w \in Worker, SeedConnectionLost(w) PROVE Accounted'
  BY <1>4, AccountedLost
<1>5. ASSUME NEW w \in Worker, DeadConnection(w) PROVE Accounted'
  BY <1>5, AccountedDead
<1>6. ASSUME NEW w \in Worker, EndWorker(w) PROVE Accounted'
  BY <1>6, AccountedEnd
<1>7. CASE ReportSeed
  BY <1>7, AccountedReport
<1>8. CASE Redeliver
  BY <1>8, AccountedRedeliver
<1>9. ASSUME NEW w \in Worker, ConnectFails(w) PROVE Accounted'
  BY <1>9, AccountedStutter DEF ConnectFails, seeding, seedVars
<1>10. CASE LoadSchema \/ TakeBaseline \/ StartFeed \/ Connect \/ Execute \/ Commit
  BY <1>10, AccountedStutter
     DEF LoadSchema, TakeBaseline, StartFeed, Connect, Execute, Commit, seeding, seedVars
<1>11. CASE \/ CommitAnswered \/ ConnectionLost \/ JobEnds \/ Notice \/ PollJob
            \/ ReturnProgress \/ Measure \/ StrayLands \/ RedeliverMigration
  BY <1>11, AccountedStutter
     DEF CommitAnswered, ConnectionLost, JobEnds, Notice, PollJob, ReturnProgress, Measure,
         StrayLands, RedeliverMigration, seeding, seedVars
<1>12. CASE UNCHANGED vars
  BY <1>12, AccountedStutter DEF vars, seeding, seedVars
<1> QED
  BY <1>1, <1>2, <1>3, <1>4, <1>5, <1>6, <1>7, <1>8, <1>9, <1>10, <1>11, <1>12 DEF Next

-----------------------------------------------------------------------------
(* The transaction and its outcome.                                        *)

LEMMA SettledInit == Init => Settled
<1> SUFFICES ASSUME Init PROVE Settled
  OBVIOUS
<1>1. RunTypes
  <2>1. seen \in Seq({"running", "succeeded", "failed"})
    BY DEF Init
  <2>2. /\ feed \in [running : BOOLEAN, known : BOOLEAN] /\ before \in Snapshot
        /\ did \subseteq Change /\ schema \subseteq Change
        /\ applied \in BOOLEAN /\ stray \in BOOLEAN /\ strayed \in BOOLEAN
    BY DEF Init, Snapshot
  <2>3. outcome.kind \in OutcomeKind
    BY DEF Init, NoOutcome, OutcomeKind
  <2>4. next \in 1..(Statements + 1) /\ faults \in 0..MaxFaults /\ attempts \in 1..MaxAttempts
    BY Numbers DEF Init
  <2> QED BY <2>1, <2>2, <2>3, <2>4 DEF Init, RunTypes
<1>2. Told /\ Done /\ Explained /\ Polled
  BY DEF Init, Told, Done, Explained, Polled
<1>3. OutcomeAgrees /\ outcome.kind = "none"
  BY DEF Init, OutcomeAgrees, NoOutcome
<1> QED BY <1>1, <1>2, <1>3 DEF Settled

(* Steps of the seeding: the stage may change, among those before the      *)
(* migration or to its failure.                                            *)
Before == {"load", "seed", "loaded", "failed"}

LEMMA SettledSeeding ==
    ASSUME Settled, stage \in Before, stage' \in Before, faults' \in 0..MaxFaults,
           UNCHANGED <<running, cluster, feed, before, outcome>>
    PROVE  Settled'
<1>1. RunTypes'
  BY DEF Settled, RunTypes, Before, running, cluster, OutcomeKind
<1>2. Told' /\ Done' /\ Explained' /\ Polled'
  BY DEF Settled, Told, Done, Explained, Polled, Before, running, cluster
<1>3. OutcomeAgrees'
  BY DEF Settled, OutcomeAgrees, running, cluster
<1> QED BY <1>1, <1>2, <1>3 DEF Settled, Before

LEMMA SettledSeed ==
    ASSUME Settled,
           \/ LoadSchema \/ ReportSeed \/ Redeliver
           \/ \E w \in Worker :
                 \/ ConnectFails(w) \/ TakeTable(w) \/ ServerInsert(w) \/ ClientBatch(w)
                 \/ SeedConnectionLost(w) \/ DeadConnection(w) \/ EndWorker(w)
    PROVE  Settled'
<1>1. faults \in 0..MaxFaults /\ (faults < MaxFaults => faults + 1 \in 0..MaxFaults)
  BY Numbers DEF Settled, RunTypes
<1>2. /\ stage \in Before /\ stage' \in Before /\ faults' \in {faults, faults + 1}
      /\ faults' = faults \/ faults < MaxFaults
      /\ UNCHANGED <<running, cluster, feed, before, outcome>>
  BY DEF LoadSchema, ReportSeed, Redeliver, ConnectFails, TakeTable, ServerInsert,
         ClientBatch, SeedConnectionLost, DeadConnection, EndWorker, Before
<1> QED BY <1>1, <1>2, SettledSeeding

(* A step that keeps the outcome, or that raises.                          *)
LEMMA SettledUnmeasured ==
    ASSUME Settled, stage # "done", RunTypes', Told', Done', Explained', Polled',
           stage' # "done",
           outcome'.kind \in {"none", "raised"}
    PROVE  Settled'
<1>1. OutcomeAgrees'
  BY DEF OutcomeAgrees
<1> QED BY <1>1 DEF Settled

(* The transaction is in, with its job begun or not.                       *)
LEMMA Within ==
    ASSUME RunTypes, Done, TransactionIn
    PROVE  /\ applied' = TRUE /\ schema' \subseteq Change
           /\ did \cap {"direct"} \subseteq schema'
           /\ job' = "none" => "job" \notin did
           /\ job' \in {"none", "running"}
           /\ "job" \in did => job' = "running"
  BY DEF RunTypes, Done, TransactionIn, Change

LEMMA SettledConnection ==
    ASSUME Settled, Commit \/ CommitAnswered \/ ConnectionLost
    PROVE  Settled'
<1>1. RunTypes /\ Told /\ Done /\ Explained /\ Polled
  BY DEF Settled
<1>2. /\ stage = "migrate" /\ stage' = stage /\ outcome' = outcome
      /\ UNCHANGED <<attempts, next, did, poller, seen, stray, strayed, feed, before>>
      /\ faults' = faults \/ (faults < MaxFaults /\ faults' = faults + 1)
      /\ conn \in {"open", "committing"}
  BY DEF Commit, CommitAnswered, ConnectionLost, cluster
<1>3. \/ UNCHANGED <<applied, schema, job>>
      \/ TransactionIn /\ conn = "open"
  BY DEF Commit, CommitAnswered, ConnectionLost, cluster
<1>4. conn' \in {"committing", "lost", "failed", "succeeded"}
  BY DEF Commit, CommitAnswered, ConnectionLost
<1>5. Done'
  <2>1. CASE UNCHANGED <<applied, schema, job>>
    BY <1>1, <1>2, <2>1 DEF Done
  <2>2. CASE TransactionIn
    BY <1>1, <1>2, <2>2, Within DEF Done
  <2> QED BY <1>3, <2>1, <2>2
<1>6. RunTypes'
  <2>1. /\ applied' \in BOOLEAN /\ schema' \subseteq Change
        /\ job' \in {"none", "running", "succeeded", "failed"}
    BY <1>1, <1>3, Within DEF RunTypes
  <2>2. faults' \in 0..MaxFaults
    BY <1>1, <1>2, Numbers DEF RunTypes
  <2> QED BY <1>1, <1>2, <1>4, <2>1, <2>2 DEF RunTypes
<1>7. Told'
  <2>1. CASE Commit
    <3>1. CASE conn' = "failed" /\ UNCHANGED <<applied, schema, job>>
      BY <1>1, <1>2, <2>1, <3>1 DEF Told, Commit
    <3>2. CASE /\ TransactionIn
               /\ conn' = IF "job" \in did THEN "committing" ELSE "succeeded"
      BY <1>1, <1>2, <3>2, Within DEF Told, TransactionIn
    <3> QED BY <2>1, <3>1, <3>2 DEF Commit
  <2>2. CASE CommitAnswered
    BY <1>1, <1>2, <2>2 DEF Told, CommitAnswered, cluster
  <2>3. CASE ConnectionLost
    BY <1>2, <2>3 DEF Told, ConnectionLost
  <2> QED BY <2>1, <2>2, <2>3
<1>8. Explained'
  BY <1>1, <1>2, <1>3, Within DEF Explained
<1>9. Polled'
  <2>1. poller = "polling" => conn # "open"
    BY <1>1, <1>2 DEF Polled, Told, Done
  <2> QED BY <1>1, <1>2, <1>3, <1>4, <2>1 DEF Polled
<1>10. outcome'.kind \in {"none", "raised"}
  BY <1>2 DEF Settled
<1> QED BY <1>2, <1>5, <1>6, <1>7, <1>8, <1>9, <1>10, SettledUnmeasured

(* A job that ends, or a stray that lands, tells nothing but more schema.  *)
LEMMA SettledCluster ==
    ASSUME Settled, JobEnds \/ StrayLands
    PROVE  Settled'
<1>1. RunTypes /\ Told /\ Done /\ Explained /\ Polled /\ OutcomeAgrees
  BY DEF Settled
<1>2. UNCHANGED <<stage, deliveries, rows, seeding, faults, attempts, conn, next, did,
                  poller, seen, applied, feed, before, outcome>>
  BY DEF JobEnds, StrayLands, running
<1>3. /\ schema \subseteq schema' /\ schema' \subseteq Change
      /\ job' \in {"none", "running", "succeeded", "failed"}
      /\ job' = job \/ (job = "running" /\ job' # "none")
      /\ job' = "succeeded" => "job" \in schema'
      /\ stray' \in BOOLEAN /\ strayed' \in BOOLEAN /\ (strayed => strayed')
      /\ ~strayed' => schema' = schema \/ (job = "running" /\ strayed' = strayed)
  BY <1>1 DEF JobEnds, StrayLands, running, RunTypes, Done, Change
<1>4. RunTypes'
  BY <1>1, <1>2, <1>3 DEF RunTypes
<1>5. Told' /\ Done' /\ Polled'
  BY <1>1, <1>2, <1>3 DEF Told, Done, Polled
<1>6. Explained'
  BY <1>1, <1>2, <1>3 DEF Explained, Done
<1>7. OutcomeAgrees'
  BY <1>1, <1>2, <1>3 DEF OutcomeAgrees
<1> QED BY <1>2, <1>4, <1>5, <1>6, <1>7 DEF Settled

LEMMA SettledMeasure ==
    ASSUME Settled, Measure
    PROVE  Settled'
<1>1. RunTypes /\ Told /\ Done /\ Explained /\ Polled
  BY DEF Settled
<1>2. /\ stage = "measure" /\ stage' = "done"
      /\ UNCHANGED <<faults, running, cluster, feed, before>>
  BY DEF Measure
<1>3. PICK after \in {Missing, schema} :
         outcome' = [kind |-> IF conn = "succeeded" THEN "success" ELSE "failure",
                     rollback |-> conn # "succeeded",
                     after |-> after,
                     diff |-> Diff(before, after)]
  BY DEF Measure
<1>4. /\ outcome'.kind = IF conn = "succeeded" THEN "success" ELSE "failure"
      /\ outcome'.rollback = (conn # "succeeded")
      /\ outcome'.after = after /\ outcome'.diff = Diff(before, after)
  BY <1>3
<1>5. conn \in {"failed", "succeeded"}
  BY <1>1, <1>2 DEF Told
<1>6. conn = "succeeded" /\ after # Missing => did \subseteq after
  BY <1>1, <1>3 DEF Told, Done, RunTypes, Change
<1>7. before # Missing /\ after # Missing /\ Diff(before, after) = "changed" =>
         applied \/ strayed
  BY <1>1, <1>3 DEF Diff, Explained
<1>8. OutcomeAgrees'
  <2>1. UNCHANGED <<applied, job, did, before, strayed>>
    BY <1>2 DEF running, cluster
  <2> QED BY <1>1, <1>4, <1>5, <1>6, <1>7, <2>1 DEF OutcomeAgrees, Told
<1>9. RunTypes'
  BY <1>1, <1>2, <1>4 DEF RunTypes, running, cluster, OutcomeKind
<1>10. Told' /\ Done' /\ Explained' /\ Polled'
  BY <1>1, <1>2 DEF Told, Done, Explained, Polled, running, cluster
<1> QED BY <1>2, <1>8, <1>9, <1>10 DEF Settled

LEMMA SettledRedeliver ==
    ASSUME Settled, RedeliverMigration
    PROVE  Settled'
<1>1. RunTypes
  BY DEF Settled
<1>2. RunTypes'
  <2>1. /\ feed' \in [running : BOOLEAN, known : BOOLEAN] /\ seen' = <<>>
        /\ stray' \in BOOLEAN /\ applied' \in BOOLEAN /\ did' \subseteq Change
    BY DEF RedeliverMigration
  <2>2. /\ attempts' \in 1..MaxAttempts /\ next' \in 1..(Statements + 1)
        /\ faults' \in 0..MaxFaults
    BY <1>1, Numbers DEF RunTypes, RedeliverMigration
  <2>3. outcome'.kind = "none" /\ before' \in Snapshot
    BY DEF RedeliverMigration, NoOutcome, Snapshot
  <2> QED BY <1>1, <2>1, <2>2, <2>3 DEF RunTypes, RedeliverMigration, OutcomeKind
<1>3. Told' /\ Done' /\ Explained' /\ Polled'
  BY DEF RedeliverMigration, Told, Done, Explained, Polled
<1>4. OutcomeAgrees' /\ outcome'.kind = "none"
  BY DEF RedeliverMigration, OutcomeAgrees, NoOutcome
<1> QED BY <1>2, <1>3, <1>4 DEF Settled

LEMMA SettledStep == Settled /\ [Next]_vars => Settled'
<1> SUFFICES ASSUME Settled, [Next]_vars PROVE Settled'
  OBVIOUS
<1> USE Numbers DEF OutcomeKind
<1>1. RunTypes /\ Told /\ Done /\ Explained /\ Polled /\ OutcomeAgrees
      /\ (stage # "done" => outcome.kind \in {"none", "raised"})
  BY DEF Settled
<1>2. CASE TakeBaseline
  <2>1. /\ stage = "loaded" /\ stage' \in {"baseline", "failed"}
        /\ outcome'.kind \in {"none", "raised"}
        /\ \/ before' = before /\ strayed' = strayed
           \/ before' \in {Missing, schema} /\ strayed' = FALSE
        /\ faults' \in 0..MaxFaults
        /\ UNCHANGED <<running, applied, schema, stray, feed>>
    BY <1>1, <1>2 DEF TakeBaseline, Raise, RunTypes
  <2>2. RunTypes'
    <3>1. before' \in Snapshot /\ strayed' \in BOOLEAN
      BY <1>1, <2>1 DEF RunTypes, Snapshot
    <3>2. stray' \in BOOLEAN /\ applied' \in BOOLEAN
      BY <1>1, <2>1 DEF RunTypes
    <3> QED BY <1>1, <2>1, <3>1, <3>2 DEF RunTypes, running
  <2>3. Told' /\ Done' /\ Polled'
    BY <1>1, <2>1 DEF Told, Done, Polled, running
  <2>4. Explained'
    BY <1>1, <1>2, <2>1 DEF Explained
  <2> QED BY <2>1, <2>2, <2>3, <2>4, SettledUnmeasured
<1>3. CASE StartFeed
  <2>1. /\ stage = "baseline" /\ stage' = "migrate"
        /\ feed' \in [running : BOOLEAN, known : BOOLEAN]
        /\ UNCHANGED <<faults, running, cluster, before, outcome>>
    BY <1>3 DEF StartFeed, FeedStarts
  <2>2. RunTypes'
    BY <1>1, <2>1 DEF RunTypes, running, cluster
  <2>3. Told' /\ Done' /\ Explained' /\ Polled'
    BY <1>1, <2>1 DEF Told, Done, Explained, Polled, running, cluster
  <2> QED BY <1>1, <2>1, <2>2, <2>3, SettledUnmeasured
<1>4. CASE Connect
  <2>1. /\ stage = "migrate" /\ stage' \in {"migrate", "failed"} /\ conn = "none"
        /\ conn' \in {"none", "open"} /\ outcome'.kind \in {"none", "raised"}
        /\ stage' = "failed" => conn' = "none"
        /\ faults' \in 0..MaxFaults
        /\ UNCHANGED <<attempts, next, did, job, poller, seen, cluster, feed, before>>
    BY <1>1, <1>4 DEF Connect, Raise, RunTypes
  <2>2. RunTypes'
    BY <1>1, <2>1 DEF RunTypes, cluster
  <2>3. Told' /\ Done' /\ Explained' /\ Polled'
    BY <1>1, <2>1 DEF Told, Done, Explained, Polled, cluster
  <2> QED BY <2>1, <2>2, <2>3, SettledUnmeasured
<1>5. CASE Execute
  <2>1. /\ stage = "migrate" /\ stage' = "migrate" /\ conn = "open"
        /\ conn' \in {"open", "failed"} /\ did' \subseteq Change
        /\ next' \in 1..(Statements + 1)
        /\ UNCHANGED <<faults, attempts, job, poller, seen, cluster, feed, before, outcome>>
    BY <1>1, <1>5 DEF Execute, RunTypes
  <2>2. RunTypes'
    BY <1>1, <2>1 DEF RunTypes, cluster
  <2>3. ~applied /\ job = "none"
    BY <1>1, <2>1 DEF Told, Done
  <2>4. Told' /\ Done' /\ Explained' /\ Polled'
    BY <1>1, <2>1, <2>3 DEF Told, Done, Explained, Polled, cluster
  <2> QED BY <1>1, <2>1, <2>2, <2>4, SettledUnmeasured
<1>6. CASE Commit \/ CommitAnswered \/ ConnectionLost
  BY <1>6, SettledConnection
<1>7. CASE JobEnds \/ StrayLands
  BY <1>7, SettledCluster
<1>8. CASE Notice
  <2>1. /\ stage = "migrate" /\ stage' = "migrate" /\ conn = "committing"
        /\ poller' = "polling"
        /\ UNCHANGED <<faults, attempts, conn, next, did, job, seen, cluster, feed, before,
                       outcome>>
    BY <1>8 DEF Notice
  <2>2. RunTypes'
    BY <1>1, <2>1 DEF RunTypes, cluster
  <2>3. Told' /\ Done' /\ Explained' /\ Polled'
    BY <1>1, <2>1 DEF Told, Done, Explained, Polled, cluster
  <2> QED BY <1>1, <2>1, <2>2, <2>3, SettledUnmeasured
<1>9. CASE PollJob
  <2>1. /\ poller = "polling" /\ stage = "migrate" /\ stage' = "migrate"
        /\ job \in {"running", "succeeded", "failed"}
        /\ poller' \in {"polling", "ended"}
        /\ seen' = seen \/ seen' = Append(seen, job)
        /\ UNCHANGED <<faults, attempts, conn, next, did, job, cluster, feed, before,
                       outcome>>
    BY <1>1, <1>9 DEF PollJob, Polled, RunTypes
  <2>2. RunTypes'
    BY <1>1, <2>1 DEF RunTypes, cluster
  <2>3. Told' /\ Done' /\ Explained' /\ Polled'
    BY <1>1, <2>1 DEF Told, Done, Explained, Polled, cluster
  <2> QED BY <1>1, <2>1, <2>2, <2>3, SettledUnmeasured
<1>10. CASE ReturnProgress
  <2>1. feed' \in [running : BOOLEAN, known : BOOLEAN]
    <3>1. feed \in [running : BOOLEAN, known : BOOLEAN]
      BY <1>1 DEF RunTypes
    <3>2. [feed EXCEPT !.running = FALSE] \in [running : BOOLEAN, known : BOOLEAN]
      BY <3>1
    <3>3. feed' \in {feed, [feed EXCEPT !.running = FALSE]}
      BY <1>10 DEF ReturnProgress
    <3> QED BY <3>1, <3>2, <3>3
  <2>2. /\ stage = "migrate" /\ conn \in {"lost", "failed", "succeeded"}
        /\ UNCHANGED <<faults, attempts, conn, next, did, job, seen, cluster, before>>
        /\ poller' = IF poller = "none" THEN "none" ELSE "ended"
    BY <1>10 DEF ReturnProgress
  <2>3. \/ stage' = "failed" /\ outcome'.kind = "raised"
        \/ /\ stage' = "measure" /\ outcome' = outcome
           /\ conn \in {"failed", "succeeded"}
    BY <1>10 DEF ReturnProgress, Raise
  <2>4. outcome'.kind \in {"none", "raised"} /\ stage' \in {"failed", "measure"}
    BY <1>1, <2>2, <2>3
  <2>5. RunTypes'
    BY <1>1, <2>1, <2>2, <2>4 DEF RunTypes, cluster
  <2>6. Told' /\ Done' /\ Explained' /\ Polled'
    BY <1>1, <2>2, <2>3 DEF Told, Done, Explained, Polled, cluster
  <2> QED BY <2>2, <2>4, <2>5, <2>6, SettledUnmeasured
<1>11. CASE Measure
  BY <1>11, SettledMeasure
<1>12. CASE RedeliverMigration
  BY <1>12, SettledRedeliver
<1>13. CASE UNCHANGED vars
  <2>1. RunTypes'
    BY <1>1, <1>13 DEF vars, RunTypes, running, cluster
  <2>2. Told' /\ Done' /\ Explained' /\ Polled' /\ OutcomeAgrees'
    BY <1>1, <1>13 DEF vars, Told, Done, Explained, Polled, OutcomeAgrees, running, cluster
  <2> QED BY <1>1, <1>13, <2>1, <2>2 DEF Settled, vars
<1> QED
  BY <1>2, <1>3, <1>4, <1>5, <1>6, <1>7, <1>8, <1>9, <1>10, <1>11, <1>12, <1>13,
     SettledSeed DEF Next

-----------------------------------------------------------------------------
(* The theorems.                                                           *)

LEMMA Inductive == Spec => [](Accounted /\ Settled)
<1>1. Init => Accounted /\ Settled
  BY AccountedInit, SettledInit
<1>2. Accounted /\ Settled /\ [Next]_vars => (Accounted /\ Settled)'
  BY AccountedStep, SettledStep
<1> QED BY <1>1, <1>2, PTL DEF Spec

(* The variables keep their types; no table ever has more rows than its    *)
(* target for each delivery (ShadowSeeder).                                *)
THEOREM TypeCorrect == Spec => []TypeOK
<1>1. Accounted /\ Settled => TypeOK
  <2> SUFFICES ASSUME Accounted, Settled PROVE TypeOK
    OBVIOUS
  <2>1. \A t \in Table : rows[t] \in Nat /\ rows[t] <= MaxDeliveries * Target
    BY EarlierIs, Numbers DEF Accounted, SeedTypes, Counted
  <2>2. MaxDeliveries * Target \in Nat
    BY Numbers, Deliveries
  <2>3. rows \in [Table -> 0..(MaxDeliveries * Target)]
    BY <2>1, <2>2 DEF Accounted, SeedTypes
  <2> QED BY <2>3 DEF TypeOK, Accounted, SeedTypes, Settled, RunTypes
<1> QED BY <1>1, Inductive, PTL

(* The seed report claims no row that is not there, and the fall-back to   *)
(* client-side rows, lost connections and a second worker insert nothing   *)
(* twice (ShadowSeeder.seed_rows_only).                                    *)
THEOREM SeedIsAccounted == Spec => []SeedAccounted
<1>1. Accounted => SeedAccounted
  <2> SUFFICES ASSUME Accounted PROVE SeedAccounted
    OBVIOUS
  <2>1. deliveries * Target = Earlier + Target
    BY EarlierIs DEF Accounted, SeedTypes
  <2> QED BY <2>1 DEF Accounted, Counted, Reported, SeedAccounted
<1> QED BY <1>1, Inductive, PTL

(* A success is the transaction in, its job done and its changes in the    *)
(* snapshot; a failure left nothing but what was committed before a job    *)
(* failed or timed out; a change shown is this invocation's or a stray's:  *)
(* whatever connection is lost when, and on whatever schema an earlier     *)
(* invocation left (run_migration, run_with_job_progress).                 *)
THEOREM OutcomeIsTrue == Spec => []OutcomeAgrees
<1>1. Settled => OutcomeAgrees
  BY DEF Settled
<1> QED BY <1>1, Inductive, PTL

(* Nothing is observed once the progress was returned: the poll task has   *)
(* ended by then (run_with_job_progress).                                  *)
THEOREM Frozen == Spec => ObservationsFrozen
<1>1. Settled /\ [Next]_vars =>
        [(stage \in {"measure", "done", "failed"} /\ attempts' = attempts)
         => UNCHANGED seen]_vars
  <2> SUFFICES ASSUME Settled, [Next]_vars,
                      stage \in {"measure", "done", "failed"}, attempts' = attempts
               PROVE  UNCHANGED seen
    OBVIOUS
  <2>1. poller # "polling"
    BY DEF Settled, Polled
  <2>2. ~RedeliverMigration
    BY DEF RedeliverMigration, Settled, RunTypes
  <2> QED
    BY <2>1, <2>2
       DEF Next, LoadSchema, ReportSeed, Redeliver, ConnectFails, TakeTable, ServerInsert,
           ClientBatch, SeedConnectionLost, DeadConnection, EndWorker, TakeBaseline,
           StartFeed, Connect, Execute, Commit, CommitAnswered, ConnectionLost, JobEnds,
           StrayLands, Notice, PollJob, ReturnProgress, Measure, running, vars
<1> QED BY <1>1, Inductive, PTL DEF Spec, ObservationsFrozen

-----------------------------------------------------------------------------
(* The comparison of two schemas, for any tables.                          *)

Reversed(kind) ==
    IF kind = "added" THEN "removed" ELSE IF kind = "removed" THEN "added" ELSE kind

(* Read backwards, a named set has its additions and removals exchanged.   *)
Turned(change) == [added |-> change.removed, removed |-> change.added]

LEMMA ColumnTurned ==
    ASSUME NEW was, NEW is, NEW n \in Names(was) \cup Names(is)
    PROVE  ColumnKind(n, is, was) = Reversed(ColumnKind(n, was, is))
<1> DEFINE b == CHOOSE c \in was : c.name = n
           a == CHOOSE c \in is : c.name = n
<1>1. ColumnKind(n, was, is) =
        IF n \notin Names(was) THEN "added" ELSE IF n \notin Names(is) THEN "removed"
        ELSE IF b.raw = a.raw /\ b.nullable = a.nullable THEN "unchanged" ELSE "changed"
  BY DEF ColumnKind
<1>2. ColumnKind(n, is, was) =
        IF n \notin Names(is) THEN "added" ELSE IF n \notin Names(was) THEN "removed"
        ELSE IF a.raw = b.raw /\ a.nullable = b.nullable THEN "unchanged" ELSE "changed"
  BY DEF ColumnKind
<1> HIDE DEF a, b
<1> QED
  BY <1>1, <1>2 DEF Reversed

LEMMA ColumnsTurned ==
    ASSUME NEW was, NEW is
    PROVE  /\ DOMAIN DiffColumns(is, was) = DOMAIN DiffColumns(was, is)
           /\ \A n \in DOMAIN DiffColumns(was, is) :
                 DiffColumns(is, was)[n] = Reversed(DiffColumns(was, is)[n])
  BY ColumnTurned DEF DiffColumns

LEMMA NamesTurned ==
    ASSUME NEW was, NEW is
    PROVE  /\ DiffNamedSet(is, was) = Turned(DiffNamedSet(was, is))
           /\ (DiffNamedSet(is, was) = NoChange) <=> (DiffNamedSet(was, is) = NoChange)
  BY DEF DiffNamedSet, Turned, NoChange

(* The diff read backwards has added and removed exchanged, of tables,     *)
(* columns, indexes and constraints, for any two tables of which one is    *)
(* there; and a table compared with itself is unchanged.                   *)
THEOREM DiffTurned ==
    ASSUME NEW was, NEW is, was # NoTable \/ is # NoTable
    PROVE  LET there == DiffTable(was, is)
               back  == DiffTable(is, was)
           IN /\ back.kind = Reversed(there.kind)
              /\ \A n \in DOMAIN there.columns : back.columns[n] = Reversed(there.columns[n])
              /\ back.indexes = Turned(there.indexes)
              /\ back.constraints = Turned(there.constraints)
<1> DEFINE Columns(b, a) == DiffColumns(b.columns, a.columns)
           Indexes(b, a) == DiffNamedSet(b.indexes, a.indexes)
           Constraints(b, a) == DiffNamedSet(b.constraints, a.constraints)
           Touched(b, a) == \/ \E n \in DOMAIN Columns(b, a) : Columns(b, a)[n] # "unchanged"
                            \/ Indexes(b, a) # NoChange
                            \/ Constraints(b, a) # NoChange
<1>1. ASSUME NEW b, NEW a
      PROVE  /\ DiffTable(b, a).kind =
                  IF b = NoTable THEN "added" ELSE IF a = NoTable THEN "removed"
                  ELSE IF Touched(b, a) THEN "changed" ELSE "unchanged"
             /\ DiffTable(b, a).columns = Columns(b, a)
             /\ DiffTable(b, a).indexes = Indexes(b, a)
             /\ DiffTable(b, a).constraints = Constraints(b, a)
  BY DEF DiffTable
<1>2. /\ DOMAIN Columns(is, was) = DOMAIN Columns(was, is)
      /\ \A n \in DOMAIN Columns(was, is) :
            Columns(is, was)[n] = Reversed(Columns(was, is)[n])
      /\ Indexes(is, was) = Turned(Indexes(was, is))
      /\ Constraints(is, was) = Turned(Constraints(was, is))
      /\ Indexes(is, was) = NoChange <=> Indexes(was, is) = NoChange
      /\ Constraints(is, was) = NoChange <=> Constraints(was, is) = NoChange
  BY ColumnsTurned, NamesTurned
<1>3. \A kind : Reversed(kind) = "unchanged" <=> kind = "unchanged"
  BY DEF Reversed
<1>4. Touched(is, was) <=> Touched(was, is)
  <2> HIDE DEF Columns, Indexes, Constraints
  <2> QED  BY <1>2, <1>3
<1> HIDE DEF Columns, Indexes, Constraints, Touched
<1>5. DiffTable(is, was).kind = Reversed(DiffTable(was, is).kind)
  BY <1>1, <1>4 DEF Reversed
<1> QED
  BY <1>1, <1>2, <1>5

LEMMA SameColumns ==
    ASSUME NEW s
    PROVE  \A n \in DOMAIN DiffColumns(s, s) : DiffColumns(s, s)[n] = "unchanged"
  BY DEF DiffColumns, ColumnKind

THEOREM DiffOfSame ==
    ASSUME NEW t, t # NoTable
    PROVE  DiffTable(t, t).kind = "unchanged"
<1>1. \A s : DiffNamedSet(s, s) = NoChange
  BY DEF DiffNamedSet, NoChange
<1>2. \A n \in DOMAIN DiffColumns(t.columns, t.columns) :
         DiffColumns(t.columns, t.columns)[n] = "unchanged"
  BY SameColumns
<1> QED
  BY <1>1, <1>2 DEF DiffTable
=============================================================================
