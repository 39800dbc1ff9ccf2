------------------------------- MODULE RunView -------------------------------
(***************************************************************************)
(* The pages that show the pinned run while it is verified: the workspace  *)
(* (current-migration-workspace.tsx) and the shadow page (shadow/page.tsx),*)
(* with their polling loops (poll.ts), the shadow event stream and the     *)
(* requests of their buttons, over the server's side of one verification.  *)
(*                                                                         *)
(* Requests are answered in any order.  A polling loop is started when its *)
(* condition becomes true and cleaned up when it becomes false; a tick     *)
(* under way then goes on, but does not schedule another one.  Both loops  *)
(* share that code, and a page that becomes visible starts a tick beside   *)
(* the one under way.  A loop on for half an hour is at its ceiling: from  *)
(* then on it ticks no more, until its condition becomes true anew.        *)
(*                                                                         *)
(* A behaviour opens either the form of MigrationWizard, until it is left, *)
(* or the workspace with a run that is ready to be analysed.               *)
(***************************************************************************)
EXTENDS MigrationWizard

CONSTANTS
    MaxFlights,   \* requests of the view under way at the same time
    MaxMishaps    \* requests of the view that fail, visits to another tab, and
                  \* loops that reach their ceiling

ASSUME ViewAssumption == MaxFlights \in Nat \ {0} /\ MaxMishaps \in Nat

VARIABLES
    view,       \* what the page has: the run, its cluster, the stream's frame
    flights,    \* requests under way
    timers,     \* polling loops whose next tick is scheduled
    spent,      \* polling loops that are on, but past their ceiling
    mishaps     \* of these so far

viewVars == <<view, flights, timers, spent, mishaps>>
vars == <<wizardVars, viewVars>>

-----------------------------------------------------------------------------
(* What a page derives from its state. *)

NewView == [open |-> None, run |-> None, shadow |-> None, stream |-> None]

Snap(id) == [id |-> id, status |-> runs[id].status, arn |-> runs[id].arn,
             workflow |-> runs[id].workflow, discovery |-> runs[id].discovery]

\* TERMINAL_RUN_STATUSES and TERMINAL_WORKFLOW_STATUSES.
Terminal(run) == run.status \in {"completed", "failed"} \/ run.workflow \in WorkflowEnded

\* Whether the run is live: it polls, and its stream is open.
Live(v) == v.run # None /\ HasRealSfnArn(v.run) /\ Measuring(v.run)

\* The stream's row while live, else the row the page loaded.
Shown(v) == IF Live(v) /\ v.stream # None THEN v.stream ELSE v.shadow

Gone == {None, "destroyed", "failed"}

\* Mutant: the slow loop is for the hold only, not for what comes after it.
SlowPollOfHold(v) == v.open = "shadow" /\ Shown(v) = "holding" /\ ~Live(v)

\* Only the shadow page goes on polling a cluster that outlives the workflow.
SlowPoll(v) == v.open = "shadow" /\ Shown(v) \notin Gone /\ ~Live(v)

Loops == {"fast", "slow"}
On(loop, v) == IF loop = "fast" THEN Live(v) ELSE SlowPoll(v)

Flight(op, loop, looped) ==
    [op |-> op, loop |-> loop, looped |-> looped, at |-> "sent", seen |-> None, of |-> None]

Tick(loop) == Flight(IF loop = "fast" THEN "sync" ELSE "shadow", loop, TRUE)

\* The render after a change of state: effects of loops that went off are
\* cleaned up, and loops that came on run their first tick.
Render(v, inFlight, armed) ==
    LET off == {l \in Loops : On(l, view) /\ ~On(l, v)}
        on == {l \in Loops : On(l, v) /\ ~On(l, view)}
    IN /\ view' = v
       /\ flights' = {[f EXCEPT !.looped = @ /\ f.loop \notin off] : f \in inFlight}
                     \cup {Tick(l) : l \in on}
       /\ timers' = armed \ off
       /\ spent' = spent \ (off \cup on)

\* The end of a tick: the next one is scheduled unless the loop was cleaned
\* up or is at its ceiling, or the run the page now has is at its end.
Rescheduled(f, v) ==
    IF f.looped /\ f.loop \notin spent /\ ~(f.loop = "fast" /\ v.run # None /\ Terminal(v.run))
    THEN timers \cup {f.loop} ELSE timers

NextOf(f, op) == [f EXCEPT !.op = op, !.at = "sent", !.seen = None]

Pages == {"workspace", "shadow"}
OnView == page \in Pages /\ view.open = page
Id == view.run.id

-----------------------------------------------------------------------------
(* Opening a page. *)

\* React unmounts the old page: its requests go on, but nothing hears them.
Mount ==
    /\ page \in Pages /\ view.open # page
    /\ view' = [NewView EXCEPT !.open = page]
    /\ flights' = {Flight("load", None, FALSE)}
    /\ timers' = {} /\ spent' = {}
    /\ UNCHANGED <<wizardVars, mishaps>>

OpenShadowPage ==
    /\ OnView /\ page = "workspace"
    /\ page' = "shadow"
    /\ UNCHANGED <<runs, pin, form, call, asked, viewVars>>

ExtrasReady(run) == run.status \in {"running", "completed", "failed"}

\* getRun of the pinned run, and refreshExtras when it can have children.
LoadRun(f) ==
    /\ OnView /\ f.op = "load"
    /\ IF pin # None /\ Exists(pin)
       THEN /\ Render([view EXCEPT !.run = Snap(pin)],
                      (flights \ {f}) \cup (IF ExtrasReady(Snap(pin))
                                            THEN {Flight("refresh", None, FALSE)} ELSE {}),
                      timers)
            /\ UNCHANGED wizardVars
       ELSE /\ Render([view EXCEPT !.run = None], flights \ {f}, timers)
            /\ pin' = IF page = "workspace" THEN None ELSE pin
            /\ UNCHANGED <<runs, page, form, call, asked>>
    /\ UNCHANGED mishaps

-----------------------------------------------------------------------------
(* Polling. *)

\* Past the ceiling the timer fires in vain.
Fire(loop) ==
    /\ OnView /\ loop \in timers /\ Cardinality(flights) < MaxFlights
    /\ timers' = timers \ {loop}
    /\ flights' = IF loop \in spent THEN flights ELSE flights \cup {Tick(loop)}
    /\ UNCHANGED <<wizardVars, view, spent, mishaps>>

\* The tab becomes visible: a tick at once, even where the loop had stopped
\* at a terminal run, but not past the ceiling.
Visible(loop) ==
    /\ OnView /\ On(loop, view) /\ loop \notin spent /\ Cardinality(flights) < MaxFlights
    /\ mishaps < MaxMishaps /\ mishaps' = mishaps + 1
    /\ flights' = flights \cup {Tick(loop)}
    /\ UNCHANGED <<wizardVars, view, timers, spent>>

\* ceilingMs have passed since the loop came on, the tab hidden or not.
Ceiling(loop) ==
    /\ OnView /\ On(loop, view) /\ loop \notin spent
    /\ mishaps < MaxMishaps /\ mishaps' = mishaps + 1
    /\ spent' = spent \cup {loop}
    /\ UNCHANGED <<wizardVars, view, flights, timers>>

SyncedStatus(run) ==
    CASE run.execution = "succeeded" /\ run.status = "running" -> "completed"
      [] run.execution \in WorkflowBroken /\ run.status # "completed" -> "failed"
      [] OTHER -> run.status

Synced(id) == [runs EXCEPT ![id].workflow = runs[id].execution, ![id].status = SyncedStatus(runs[id])]

\* abort-workflow: stopped, recorded as aborted even if it got through since
\* the row was read, and the cluster put on hold as Cleanup does.
Aborted(id) ==
    IF runs[id].workflow \in WorkflowEnded THEN Synced(id)
    ELSE [runs EXCEPT ![id].execution = IF @ = "running" THEN "aborted" ELSE @,
                      ![id].workflow = "aborted",
                      ![id].status = IF @ = "running" THEN "failed" ELSE @,
                      ![id].cluster = IF @ = "migrating" THEN "holding" ELSE @]

Answered(f, seen) == flights' = (flights \ {f}) \cup {[f EXCEPT !.at = "answered", !.seen = seen]}

\* The server answers.  sync-workflow and abort-workflow write what they read.
ServeView(f) ==
    /\ OnView /\ f.at = "sent" /\ f.op # "load"
    /\ IF f.op \in {"sync", "abort"}
       THEN /\ runs' = IF f.op = "sync" THEN Synced(Id) ELSE Aborted(Id)
            /\ Answered(f, [status |-> runs'[Id].status, workflow |-> runs'[Id].workflow])
       ELSE /\ Answered(f, runs[Id].cluster)
            /\ UNCHANGED runs
    /\ UNCHANGED <<pin, page, form, call, asked, view, timers, spent, mishaps>>

\* Mutant: a tick that fails ends the loop.
FailViewForGood(f) ==
    /\ OnView /\ f.at = "sent" /\ f.op # "load" /\ mishaps < MaxMishaps
    /\ mishaps' = mishaps + 1
    /\ IF f.op \in {"sync", "abort"} THEN flights' = flights \ {f} ELSE Answered(f, None)
    /\ UNCHANGED <<wizardVars, view, timers, spent>>

\* A read that fails is answered with nothing; a sync that fails ends its
\* tick, which schedules the next one all the same.
FailView(f) ==
    /\ OnView /\ f.at = "sent" /\ f.op # "load" /\ mishaps < MaxMishaps
    /\ mishaps' = mishaps + 1
    /\ IF f.op \in {"sync", "abort"}
       THEN /\ flights' = flights \ {f}
            /\ timers' = Rescheduled(f, view)
       ELSE /\ Answered(f, None)
            /\ UNCHANGED timers
    /\ UNCHANGED <<wizardVars, view, spent>>

WithRun(seen) == [view EXCEPT !.run.status = seen.status, !.run.workflow = seen.workflow]

\* The run of a tick is shown; its children are asked for next.
ApplySync(f) ==
    /\ f.op = "sync"
    /\ Render(WithRun(f.seen),
              (flights \ {f}) \cup {[NextOf(f, "extras") EXCEPT !.of = Terminal(f.seen)]},
              timers)

\* A child that was not answered keeps the value the page had.
ApplyExtras(f) ==
    /\ f.op = "extras"
    /\ LET v == [view EXCEPT !.shadow = IF f.seen # None THEN f.seen ELSE @]
       IN IF f.of THEN Render(v, (flights \ {f}) \cup {NextOf(f, "refresh")}, timers)
          ELSE Render(v, flights \ {f}, Rescheduled(f, v))

\* refreshExtras puts what was answered in place of what the page had.
ApplyRefresh(f) ==
    /\ f.op = "refresh"
    /\ LET v == [view EXCEPT !.shadow = f.seen]
       IN Render(v, flights \ {f}, IF f.loop = None THEN timers ELSE Rescheduled(f, v))

ApplySlow(f) ==
    /\ f.op = "shadow"
    /\ LET v == [view EXCEPT !.shadow = IF f.seen # None THEN f.seen ELSE @]
       IN Render(v, flights \ {f}, Rescheduled(f, v))

ApplyAbort(f) ==
    /\ f.op = "abort"
    /\ Render(WithRun(f.seen), (flights \ {f}) \cup {Flight("refresh", None, FALSE)}, timers)

Apply(f) ==
    /\ OnView /\ f.at = "answered"
    /\ ApplySync(f) \/ ApplyExtras(f) \/ ApplyRefresh(f) \/ ApplySlow(f) \/ ApplyAbort(f)
    /\ UNCHANGED <<wizardVars, mishaps>>

\* A frame of the stream; it carries the row as it is now.
StreamFrame ==
    /\ OnView /\ Live(view) /\ runs[Id].cluster # None
    /\ Render([view EXCEPT !.stream = runs[Id].cluster], flights, timers)
    /\ UNCHANGED <<wizardVars, mishaps>>

-----------------------------------------------------------------------------
(* Buttons.  Their requests are one step here: while they run the page has  *)
(* nothing else under way that could overtake them.  The answer may be lost.  *)

ShowRun(id) ==
    Render([view EXCEPT !.run = [Snap(id) EXCEPT !.status = runs'[id].status,
                                                 !.arn = runs'[id].arn,
                                                 !.workflow = runs'[id].workflow]],
           flights \cup {Flight("refresh", None, FALSE)}, timers)

Press(newRuns) ==
    /\ runs' = newRuns
    /\ \/ ShowRun(Id) /\ UNCHANGED mishaps
       \/ mishaps < MaxMishaps /\ mishaps' = mishaps + 1
          /\ UNCHANGED <<view, flights, timers, spent>>
    /\ UNCHANGED <<pin, page, form, call, asked>>

Idle == OnView /\ view.run # None /\ Exists(Id) /\ flights = {}

\* Predict and approve are on the workspace only.
PredictButton ==
    /\ Idle /\ page = "workspace"
    /\ view.run.status = "pending" /\ view.run.discovery = "succeeded"
    /\ runs[Id].status = "pending"
    /\ Press(Analysed(Id))

Outcome == [proceed |-> "running", accept_recommended |-> "completed", cancel |-> "failed"]

ApproveButton(decision) ==
    /\ Idle /\ page = "workspace"
    /\ view.run.status = "awaiting_approval" /\ runs[Id].status = "awaiting_approval"
    /\ Press([runs EXCEPT ![Id].status = Outcome[decision]])

\* A run that has been linked meanwhile is synced instead.
StartButton ==
    /\ Idle /\ view.run.status = "running"
    /\ ~HasRealSfnArn(view.run) /\ view.run.workflow = "not_started"
    /\ Press(IF runs[Id].arn # None THEN Synced(Id)
             ELSE [runs EXCEPT ![Id].arn = "sfn", ![Id].workflow = "running",
                               ![Id].execution = "running"])

AbortButton ==
    /\ OnView /\ Live(view) /\ Cardinality(flights) < MaxFlights
    /\ ~\E f \in flights : f.op = "abort"
    /\ flights' = flights \cup {Flight("abort", None, FALSE)}
    /\ UNCHANGED <<wizardVars, view, timers, spent, mishaps>>

\* Delete now: at any time on the shadow page, of a held cluster elsewhere.
\* Its answer is not looked at: a later tick shows what became of it.
Deletable == IF page = "shadow" THEN {"migrating", "holding"} ELSE {"holding"}

DeleteButton ==
    /\ OnView /\ view.run # None /\ Shown(view) \in Deletable
    /\ runs[Id].cluster # None
    /\ runs' = [runs EXCEPT ![Id].cluster = "destroyed"]
    /\ UNCHANGED <<pin, page, form, call, asked, viewVars>>

-----------------------------------------------------------------------------
(* The verification on the server, as the pages can tell it apart. *)

Progress(id, from, changed) ==
    /\ Exists(id) /\ runs[id].execution = "running" /\ runs[id].cluster = from
    /\ runs' = changed
    /\ UNCHANGED <<pin, page, form, call, asked, viewVars>>

\* "migrating" stands for every status before the hold.
Provision(id) == Progress(id, None, [runs EXCEPT ![id].cluster = "migrating"])

\* Cleanup holds the cluster, whether the workflow got through or not.
Cleanup(id) == Progress(id, "migrating", [runs EXCEPT ![id].cluster = "holding"])

\* An execution that fails may do so with no cluster, or one that Cleanup
\* could not hold.
EndExecution(id) ==
    \/ \E from \in {None, "migrating", "holding", "destroyed"} :
          Progress(id, from, [runs EXCEPT ![id].execution = "failed"])
    \/ \E from \in {"holding", "destroyed"} :
          Progress(id, from, [runs EXCEPT ![id].execution = "succeeded"])

\* The sweeper ends the hold, or takes a cluster that is too old; its teardown
\* is one step, so that no row is read as destroying.
Sweep(id) ==
    /\ Exists(id) /\ runs[id].cluster \in {"migrating", "holding"}
    /\ runs' = [runs EXCEPT ![id].cluster = "destroyed"]
    /\ UNCHANGED <<pin, page, form, call, asked, viewVars>>

-----------------------------------------------------------------------------
Init ==
    /\ \/ WizardInit
       \/ /\ pin = CHOOSE id \in RunId : TRUE
          /\ \E text \in Draft : runs = [id \in {pin} |-> NewRun(text, "succeeded")]
          /\ page = "workspace"
          /\ asked = None /\ form = NewForm /\ call = NoCall
    /\ view = NewView /\ flights = {} /\ timers = {} /\ spent = {} /\ mishaps = 0

ServerStep(id) ==
    Provision(id) \/ Cleanup(id) \/ EndExecution(id) \/ Sweep(id)

ButtonNext ==
    \/ OpenShadowPage \/ PredictButton \/ StartButton \/ AbortButton \/ DeleteButton
    \/ \E d \in DOMAIN Outcome : ApproveButton(d)

ViewNext ==
    \/ Mount
    \/ \E f \in flights : LoadRun(f) \/ ServeView(f) \/ FailView(f) \/ Apply(f)
    \/ \E l \in Loops : Fire(l) \/ Visible(l) \/ Ceiling(l)
    \/ StreamFrame
    \/ ButtonNext

Next ==
    \/ WizardNext /\ UNCHANGED viewVars
    \/ ViewNext
    \/ \E id \in DOMAIN runs : ServerStep(id)

Spec == Init /\ [][Next]_vars

\* Requests are answered and answers applied, timers that are set fire, and the
\* server gets on; no fairness for the user, the stream, the clock that brings a
\* loop to its ceiling, or the wizard's requests.
FairSpec ==
    /\ Spec
    /\ WF_vars(Mount)
    /\ WF_vars(\E f \in flights : LoadRun(f) \/ ServeView(f) \/ Apply(f))
    /\ WF_vars(\E l \in Loops : Fire(l))
    /\ WF_vars(\E id \in DOMAIN runs : ServerStep(id))

-----------------------------------------------------------------------------
(* Properties. *)

\* A live run whose execution has ended is shown at its end, unless the user
\* goes to another page or the loop reaches its ceiling first: no sequence of
\* late, lost or overtaken answers leaves the page on a run that is over
\* (poll.ts, the two ticks).
OutcomeShown ==
    (OnView /\ Live(view) /\ runs[Id].execution # "running")
        ~> (~OnView \/ view.run = None \/ Terminal(view.run) \/ "fast" \in spent)

\* On the shadow page a cluster that is gone is not shown alive for ever, unless
\* the loop that watches it reaches its ceiling: the hold visibly ends, and
\* Delete now is reflected (shadow/page.tsx 218-245).
EndOfCluster(onPage) ==
    (OnView /\ page = onPage /\ view.run # None /\ runs[Id].cluster = "destroyed")
        ~> (~OnView \/ page # onPage \/ Shown(view) \in Gone \/ spent # {})

HoldEndsShown == EndOfCluster("shadow")
=============================================================================
